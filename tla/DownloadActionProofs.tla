------------------------- MODULE DownloadActionProofs -------------------------
(***************************************************************************)
(* DownloadAction, for every number of retries, every size of the object   *)
(* and every number of its replacements: its inductive invariant and the   *)
(* safety properties it implies.                                           *)
(***************************************************************************)
EXTENDS DownloadAction, SequenceTheorems, TLAPS

Replied == reply # NoReply

\* The server's object is the newest there is: what an attempt is answered with
\* is not newer, and of one version there is one length.
ReplySound ==
  Replied => /\ reply.ver <= object.ver
             /\ reply.ver = object.ver => reply = object

\* No chunk of the file is newer than the object, or beyond the end of the version
\* it is from; and while an answer is there, none is newer than the answer.
FileSound ==
  \A p \in DOMAIN file :
    /\ file[p] <= object.ver
    /\ file[p] = object.ver => p <= object.len
    /\ Replied /\ pc # "send" => /\ file[p] <= reply.ver
                                 /\ file[p] = reply.ver => p <= reply.len

\* The chunks that have come stand at the start of the file, if all could be
\* written.
Whole(n) ==
  /\ n <= Len(file)
  /\ \A p \in 1 .. n : file[p] = reply.ver

ReceivedSound ==
  pc = "receive" =>
    /\ Replied /\ real <= reply.len
    /\ reply.len > 0 => total = reply.len
    /\ progress >= real
    /\ ~bad => pos = real /\ Whole(real)

AnswerSound ==
  pc \in {"answered", "done"} /\ answer.succ /\ ~bad =>
    /\ Replied /\ Whole(reply.len)
    /\ reply.len > 0 => progress = total /\ total = reply.len

IInv ==
  /\ TypeOK
  /\ pc = "send" => pos = 0 /\ ~bad
  /\ progress > total => real = 0
  /\ ReplySound
  /\ FileSound
  /\ ReceivedSound
  /\ AnswerSound
  /\ LastResort

-----------------------------------------------------------------------------

\* A CosResult built from its three parts.
LEMMA AnswerTyped ==
  ASSUME NEW http \in HttpStatuses, NEW reqid \in BOOLEAN, NEW succ \in BOOLEAN,
         Answer(http, reqid, succ)
  PROVE  /\ answer' \in CosResults /\ pc' = "answered"
         /\ answer'.http = http /\ answer'.succ = succ
  BY DEF Answer, CosResults

\* What the records are made of.
LEMMA Parts ==
  ASSUME TypeOK
  PROVE  /\ object \in Objects /\ object.ver \in Versions /\ object.len \in 0 .. MaxChunks
         /\ Replied => reply \in Objects /\ reply.ver \in Versions /\ reply.len \in 0 .. MaxChunks
         /\ NoReply \notin Objects
  BY DownloadAssumption DEF TypeOK, Objects, Versions, Replied, NoReply

\* What the file is made of.
LEMMA FileTyped ==
  ASSUME TypeOK
  PROVE  /\ DOMAIN file = 1 .. Len(file) /\ Len(file) \in Nat
         /\ \A p \in DOMAIN file : file[p] \in Nat
<1>1. file \in Seq(Versions)
  BY DEF TypeOK
<1>2. DOMAIN file = 1 .. Len(file) /\ Len(file) \in Nat
  BY <1>1
<1>3. \A p \in 1 .. Len(file) : file[p] \in Versions
  BY <1>1, ElementOfSeq
<1>. QED  BY <1>2, <1>3 DEF Versions

\* The invariant holds initially.
LEMMA InitIInv == Init => IInv
<1>. SUFFICES ASSUME Init PROVE IInv
  OBVIOUS
<1>1. NoResult \in CosResults
  BY DEF NoResult, CosResults, HttpStatuses
<1>2. cancel \in BOOLEAN /\ bad \in BOOLEAN
  BY DEF Init
<1>3. file \in Seq(Versions) /\ Len(file) = 0 /\ DOMAIN file = {}
  BY DEF Init
<1>4. TypeOK
  BY <1>1, <1>2, <1>3, DownloadAssumption, RetryAssumption DEF Init, TypeOK
<1>5. ~(progress > total) /\ ~bad /\ pos = 0
  BY DEF Init
<1>. QED
  BY <1>3, <1>4, <1>5 DEF Init, IInv, ReplySound, FileSound, ReceivedSound,
       AnswerSound, LastResort, Replied

-----------------------------------------------------------------------------
(* The steps of an attempt                                                 *)

\* An attempt that has no good answer.
LEMMA FailureIInv ==
  ASSUME IInv, SendFails \/ ReceiveCancelled \/ ReceiveBreaks
  PROVE  IInv'
<1>. USE DEF IInv
<1>1. pc' = "answered" /\ answer' \in CosResults /\ answer'.succ = FALSE
  BY AnswerTyped DEF SendFails, ReceiveCancelled, ReceiveBreaks, HttpStatuses
<1>2. /\ UNCHANGED <<config, object, i, domain, real, file, pos, bad, cancel, progress, total>>
      /\ reply' = NoReply \/ (reply' = reply /\ pc = "receive")
  BY DEF SendFails, ReceiveCancelled, ReceiveBreaks, fileVars, progressVars
<1>3. TypeOK'
  BY <1>1, <1>2 DEF TypeOK
<1>4. ReplySound' /\ FileSound'
  BY <1>1, <1>2 DEF ReplySound, FileSound, Replied
<1>. QED  BY <1>1, <1>2, <1>3, <1>4 DEF ReceivedSound, AnswerSound, LastResort

\* The headers of a good answer.
LEMMA SendSucceedsIInv ==
  ASSUME IInv, SendSucceeds
  PROVE  IInv'
<1>. USE DEF IInv
<1>1. /\ pc = "send" /\ pc' = "receive" /\ pos = 0
      /\ reply' = object /\ real' = 0 /\ ~bad
      /\ total' = IF object.len > 0 THEN object.len ELSE total
      /\ UNCHANGED <<config, object, i, domain, answer, file, pos, bad, cancel, progress>>
  BY DEF SendSucceeds, fileVars
<1>2. TypeOK'
  BY <1>1, Parts, DownloadAssumption DEF TypeOK
<1>3. Replied' /\ ReplySound'
  BY <1>1, Parts DEF ReplySound, Replied, Versions
<1>4. FileSound'
  BY <1>1 DEF FileSound
<1>5. ReceivedSound'
  BY <1>1, <1>3, Parts DEF ReceivedSound, Whole, TypeOK
<1>. QED  BY <1>1, <1>2, <1>3, <1>4, <1>5 DEF AnswerSound, LastResort

\* A chunk written at the place of the stream.
LEMMA ChunkWritten ==
  ASSUME IInv, ReceiveChunk
  PROVE  /\ file' \in Seq(Versions)
         /\ pos = real /\ Whole(real)
         /\ Len(file') = IF pos < Len(file) THEN Len(file) ELSE Len(file) + 1
         /\ Len(file') >= pos + 1
         /\ \A p \in 1 .. Len(file') : file'[p] = IF p = pos + 1 THEN reply.ver ELSE file[p]
<1>1. /\ pc = "receive" /\ Replied /\ pos = real /\ Whole(real) /\ pos \in Nat /\ pos <= Len(file)
      /\ file \in Seq(Versions) /\ Len(file) \in Nat /\ reply.ver \in Versions
      /\ file' = IF pos < Len(file) THEN [file EXCEPT ![pos + 1] = reply.ver]
                                    ELSE Append(file, reply.ver)
  BY Parts DEF IInv, ReceivedSound, ReceiveChunk, TypeOK, Whole
<1>2. CASE pos < Len(file)
  BY <1>1, <1>2, ExceptSeq
<1>3. CASE ~(pos < Len(file))
  BY <1>1, <1>3
<1>. QED  BY <1>2, <1>3

LEMMA ReceiveChunkIInv ==
  ASSUME IInv, ReceiveChunk
  PROVE  IInv'
<1>. USE DEF IInv
<1>1. /\ pc = "receive" /\ pc' = "receive" /\ real < reply.len
      /\ pos' = pos + 1 /\ real' = real + 1
      /\ UNCHANGED <<config, object, i, domain, reply, answer, bad, cancel, total>>
      /\ progress' = IF progress + 1 > total THEN total ELSE progress + 1
  BY DEF ReceiveChunk, UpdateProgress
<1>2. /\ Replied /\ pos = real /\ total = reply.len /\ Whole(real)
      /\ progress >= real
  BY <1>1, Parts, ChunkWritten DEF ReceivedSound, TypeOK
<1>3. /\ real \in Nat /\ progress \in Nat /\ reply.len \in 0 .. MaxChunks
      /\ reply.ver \in Nat /\ object.ver \in Nat /\ Len(file) \in Nat
      /\ file \in Seq(Versions) /\ Len(file) <= MaxChunks
      /\ progress <= MaxChunks /\ total <= MaxChunks
  BY <1>2, Parts DEF TypeOK, Versions
<1>. DEFINE n == Len(file)'
<1>4. /\ file' \in Seq(Versions) /\ n <= MaxChunks /\ n >= pos + 1 /\ n >= Len(file)
      /\ n \in Nat /\ n <= Len(file) + 1
      /\ \A p \in 1 .. n : file'[p] = IF p = pos + 1 THEN reply.ver ELSE file[p]
      /\ \A p \in 1 .. n : p # pos + 1 => p \in 1 .. Len(file)
  BY <1>1, <1>2, <1>3, ChunkWritten, DownloadAssumption DEF Whole
<1>5. DOMAIN file = 1 .. Len(file) /\ DOMAIN file' = 1 .. n
  BY <1>3, <1>4
<1>6. TypeOK'
  BY <1>1, <1>2, <1>3, <1>4, DownloadAssumption DEF TypeOK
<1>7. ReplySound' /\ Replied'
  BY <1>1, <1>2 DEF ReplySound, Replied
<1>8. FileSound'
  <2>. SUFFICES ASSUME NEW p \in 1 .. n
                PROVE  /\ file'[p] <= object.ver
                       /\ file'[p] = object.ver => p <= object.len
                       /\ file'[p] <= reply.ver
                       /\ file'[p] = reply.ver => p <= reply.len
    BY <1>1, <1>5 DEF FileSound
  <2>1. CASE p = pos + 1
    <3>1. file'[p] = reply.ver /\ p <= reply.len
      BY <1>1, <1>2, <1>3, <1>4, <2>1
    <3>2. reply.ver <= object.ver /\ (reply.ver = object.ver => reply = object)
      BY <1>2 DEF ReplySound
    <3>. QED  BY <1>3, <3>1, <3>2
  <2>2. CASE p # pos + 1
    <3>1. file'[p] = file[p] /\ p \in DOMAIN file
      BY <1>4, <1>5, <2>2
    <3>. QED  BY <1>1, <1>2, <3>1 DEF FileSound
  <2>. QED  BY <2>1, <2>2
<1>9. Whole(real)'
  BY <1>1, <1>2, <1>3, <1>4 DEF Whole
<1>10. ReceivedSound'
  BY <1>1, <1>2, <1>3, <1>7, <1>9 DEF ReceivedSound
<1>11. ~(progress' > total')
  BY <1>1, <1>2, <1>3
<1>. QED  BY <1>1, <1>6, <1>7, <1>8, <1>10, <1>11 DEF AnswerSound, LastResort

\* A chunk that could not be written leaves the file as it is.
LEMMA WriteFailsIInv ==
  ASSUME IInv, WriteFails
  PROVE  IInv'
<1>. USE DEF IInv
<1>1. /\ pc = "receive" /\ pc' = "receive" /\ real < reply.len
      /\ bad' = TRUE /\ real' = real + 1
      /\ UNCHANGED <<config, object, i, domain, reply, answer, file, pos, cancel, total>>
      /\ progress' = IF progress + 1 > total THEN total ELSE progress + 1
  BY DEF WriteFails, UpdateProgress
<1>2. /\ real \in Nat /\ progress \in Nat /\ reply.len \in 0 .. MaxChunks
      /\ progress <= MaxChunks /\ total \in Nat /\ total <= MaxChunks
  BY <1>1, Parts DEF TypeOK, ReceivedSound
<1>3. Replied /\ total = reply.len /\ progress >= real
  BY <1>1, <1>2 DEF ReceivedSound
<1>4. progress' <= total /\ progress' >= real' /\ progress' \in Nat /\ real' <= reply.len
  BY <1>1, <1>2, <1>3
<1>5. TypeOK'
  BY <1>1, <1>2, <1>3, <1>4, DownloadAssumption DEF TypeOK
<1>6. ReplySound' /\ FileSound'
  BY <1>1 DEF ReplySound, FileSound, Replied
<1>7. ReceivedSound'
  BY <1>1, <1>3, <1>4 DEF ReceivedSound, Replied
<1>8. progress' > total' => real' = 0
  BY <1>1, <1>2, <1>4
<1>. QED  BY <1>1, <1>5, <1>6, <1>7, <1>8 DEF AnswerSound, LastResort

\* The last chunk has come, or a write has failed.
LEMMA ReceiveEndsIInv ==
  ASSUME IInv, ReceiveEnds
  PROVE  IInv'
<1>. USE DEF IInv
<1>1. pc' = "answered" /\ answer' \in CosResults
  BY AnswerTyped DEF ReceiveEnds, HttpStatuses
<1>2. /\ pc = "receive" /\ (real = reply.len \/ bad)
      /\ UNCHANGED <<config, object, i, domain, reply, real, file, pos, bad, cancel, progress, total>>
  BY DEF ReceiveEnds, fileVars, progressVars
<1>3. TypeOK' /\ ReplySound' /\ FileSound'
  BY <1>1, <1>2 DEF TypeOK, ReplySound, FileSound, Replied
<1>4. ASSUME ~bad
      PROVE  /\ Replied /\ Whole(reply.len)
             /\ reply.len > 0 => progress = total /\ total = reply.len
  BY <1>2, <1>4, Parts DEF ReceivedSound, TypeOK
<1>5. AnswerSound'
  <2>1. CASE bad
    BY <1>2, <2>1 DEF AnswerSound
  <2>2. CASE ~bad
    BY <1>2, <1>4, <2>2 DEF AnswerSound, Replied, Whole
  <2>. QED  BY <2>1, <2>2
<1>. QED  BY <1>1, <1>2, <1>3, <1>5 DEF ReceivedSound, LastResort

-----------------------------------------------------------------------------
(* The attempts, the user and the other clients                            *)

\* The stream is rewound, so that an attempt always begins at its start; the last
\* one of several goes to the backup domain if the answers so far ask for that.
LEMMA LoopIInv ==
  ASSUME IInv, GiveUp \/ Retry
  PROVE  IInv'
<1>. USE DEF IInv
<1>1. CASE GiveUp
  <2>1. /\ pc' = "done" /\ pc = "answered"
        /\ UNCHANGED <<config, object, i, domain, reply, real, answer, file, pos, bad, cancel,
                       progress, total>>
    BY <1>1 DEF GiveUp, fileVars, progressVars
  <2>. QED
    BY <2>1 DEF TypeOK, ReplySound, FileSound, Replied, ReceivedSound, AnswerSound, Whole,
         LastResort
<1>2. CASE Retry
  <2>1. /\ pc' = "send" /\ pc = "answered" /\ pos' = 0 /\ bad' = FALSE /\ i' = i + 1
        /\ UNCHANGED <<config, object, reply, real, answer, file, cancel, progress, total>>
        /\ domain' = IF ShouldChangeBackupDomain(config, answer, i) THEN "backup" ELSE domain
    BY <1>2 DEF Retry, progressVars
  <2>2. i < MaxRetryTimes
    BY <1>2, RetryAssumption DEF Retry, GivesUp, TypeOK
  <2>3. bad' \in BOOLEAN
    BY <2>1
  <2>4. TypeOK'
    BY <2>1, <2>2, <2>3, RetryAssumption, DownloadAssumption DEF TypeOK
  <2>5. ReplySound' /\ FileSound'
    BY <2>1 DEF ReplySound, FileSound, Replied
  <2>6. LastResort'
    BY <2>1, <2>2, RetryAssumption DEF LastResort, ShouldChangeBackupDomain, TypeOK
  <2>. QED  BY <2>1, <2>4, <2>5, <2>6 DEF ReceivedSound, AnswerSound
<1>. QED  BY <1>1, <1>2

\* A new version is newer than all there was.
LEMMA OthersIInv ==
  ASSUME IInv, Cancel \/ Overwrite \/ Done
  PROVE  IInv'
<1>. USE DEF IInv
<1>1. /\ UNCHANGED <<config, pc, i, domain, reply, real, answer, file, pos, bad, progress, total>>
      /\ cancel' \in BOOLEAN
  BY DEF Cancel, Overwrite, Done, vars, fileVars, progressVars, TypeOK
<1>2. object' = object \/ Overwrite
  BY DEF Cancel, Done, vars
<1>3. TypeOK' /\ ReplySound' /\ FileSound'
  <2>1. CASE object' = object
    BY <1>1, <2>1 DEF TypeOK, ReplySound, FileSound, Replied
  <2>2. CASE Overwrite
    <3>1. object' \in Objects /\ object'.ver = object.ver + 1 /\ object.ver \in Nat
      BY <2>2, Parts, DownloadAssumption DEF Overwrite, Objects, Versions
    <3>2. \A p \in DOMAIN file : file[p] \in Nat
      BY FileTyped
    <3>3. Replied => reply.ver \in Nat
      BY Parts DEF Versions
    <3>. QED  BY <1>1, <3>1, <3>2, <3>3 DEF TypeOK, ReplySound, FileSound, Replied
  <2>. QED  BY <1>2, <2>1, <2>2
<1>. QED
  BY <1>1, <1>3 DEF ReceivedSound, AnswerSound, Whole, Replied, LastResort

\* Every step keeps the invariant.
LEMMA NextIInv == IInv /\ [Next]_vars => IInv'
<1>. SUFFICES ASSUME IInv, [Next]_vars PROVE IInv'
  OBVIOUS
<1>1. CASE UNCHANGED vars
  BY <1>1 DEF vars, fileVars, progressVars, IInv, TypeOK, ReplySound, FileSound, Replied,
       ReceivedSound, AnswerSound, Whole, LastResort
<1>2. CASE Next
  BY <1>2, FailureIInv, SendSucceedsIInv, ReceiveChunkIInv, WriteFailsIInv, ReceiveEndsIInv, LoopIInv,
     OthersIInv DEF Next, Request
<1>. QED  BY <1>1, <1>2

-----------------------------------------------------------------------------
(* Theorems                                                                *)

\* The inductive invariant holds in every reachable state.
THEOREM Invariance == Spec => []IInv
  BY InitIInv, NextIInv, PTL DEF Spec

\* Every variable keeps its type.
THEOREM TypeCorrect == Spec => []TypeOK
<1>1. IInv => TypeOK
  BY DEF IInv
<1>. QED  BY <1>1, Invariance, PTL

\* A download that succeeds, and whose last attempt could write, leaves a file
\* that begins with the whole of one version.
THEOREM OneVersion == Spec => []SuccessIsOneVersion
<1>1. IInv => SuccessIsOneVersion
  <2>. SUFFICES ASSUME IInv, Succeeded, ~bad
                PROVE  /\ Len(file) >= reply.len
                       /\ \A p \in 1 .. reply.len : file[p] = reply.ver
                       /\ \A p \in 1 .. Len(file) : p > reply.len => file[p] < reply.ver
    BY DEF SuccessIsOneVersion
  <2>1. Replied /\ pc = "done" /\ Whole(reply.len)
    BY DEF IInv, AnswerSound, Succeeded
  <2>2. /\ reply.len \in Nat /\ reply.ver \in Nat
        /\ DOMAIN file = 1 .. Len(file) /\ Len(file) \in Nat
        /\ \A p \in DOMAIN file : file[p] \in Nat
    BY <2>1, Parts, FileTyped DEF IInv, Versions
  <2>3. \A p \in 1 .. Len(file) : file[p] <= reply.ver /\ (file[p] = reply.ver => p <= reply.len)
    BY <2>1, <2>2 DEF IInv, FileSound
  <2>. QED  BY <2>1, <2>2, <2>3 DEF Whole
<1>. QED  BY <1>1, Invariance, PTL

\* The progress that is shown is above the size only before the first chunk, never
\* below what the attempt received, and ends at the size.
THEOREM ShowsAll == Spec => []SuccessShowsAll
<1>1. IInv => SuccessShowsAll
  BY DEF IInv, SuccessShowsAll, Succeeded, AnswerSound, ReceivedSound
<1>. QED  BY <1>1, Invariance, PTL

\* The last attempt uses the domain that has not failed yet.
THEOREM LastAttemptMoves == Spec => []LastResort
<1>1. IInv => LastResort
  BY DEF IInv
<1>. QED  BY <1>1, Invariance, PTL
=============================================================================

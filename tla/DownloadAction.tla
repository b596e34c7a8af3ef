---------------------------- MODULE DownloadAction ----------------------------
(***************************************************************************)
(* BaseOp::DownloadAction and the HttpSender below it: GetObject streams   *)
(* the answer into a local file, in attempts that start the file over.     *)
(* Meanwhile the object may be replaced at the server and the user may     *)
(* cancel.                                                                 *)
(*                                                                         *)
(* Contents are counted in the chunks of HandleStreamCopier; a chunk is    *)
(* known by the version of the object it is from and by its position. A    *)
(* write to the stream may fail, which its state remembers and nobody      *)
(* asks about.                                                             *)
(***************************************************************************)
EXTENDS RetryPolicy, Sequences

CONSTANTS MaxChunks,  \* the longest version of the object
          MaxVersion  \* bound: how often the object is replaced

ASSUME DownloadAssumption == MaxChunks \in Nat \ {0} /\ MaxVersion \in Nat \ {0}

Versions == 1 .. MaxVersion

VARIABLES config,   \* the configuration of the client
          object,   \* the version the server holds
          pc,       \* where the request is
          i,        \* the attempt
          domain,   \* the domain the attempt goes to
          reply,    \* the version the attempt is answered with
          real,     \* real_byte: how many of its chunks have come
          answer,   \* the CosResult of the attempt
          file,     \* the local file: the version each chunk is from
          pos,      \* the write position of the stream
          bad,      \* whether a write to the stream has failed
          cancel,   \* m_cancel
          progress, \* m_current_progress
          total     \* m_total_size

fileVars == <<file, pos, bad>>
progressVars == <<progress, total>>
vars == <<config, object, pc, i, domain, reply, real, answer, fileVars, cancel, progressVars>>

Objects == [ver : Versions, len : 0 .. MaxChunks]
NoReply == [ver |-> 0, len |-> 0]

TypeOK ==
  /\ config \in Configs
  /\ object \in Objects
  /\ pc \in {"send", "receive", "answered", "done"}
  /\ i \in 0 .. MaxRetryTimes
  /\ domain \in {"default", "backup"}
  /\ reply \in Objects \cup {NoReply}
  /\ real \in 0 .. MaxChunks
  /\ answer \in CosResults
  /\ file \in Seq(Versions) /\ Len(file) <= MaxChunks
  /\ pos \in 0 .. MaxChunks
  /\ bad \in BOOLEAN
  /\ cancel \in BOOLEAN
  /\ progress \in 0 .. MaxChunks
  /\ total \in 0 .. MaxChunks

\* The local file has just been truncated.
Init ==
  /\ config \in Configs
  /\ object \in {o \in Objects : o.ver = 1}
  /\ pc = "send"
  /\ i = 0
  /\ domain = "default"
  /\ reply = NoReply
  /\ real = 0
  /\ answer = NoResult
  /\ file = <<>>
  /\ pos = 0
  /\ bad = FALSE
  /\ cancel = FALSE
  /\ progress = 0
  /\ total = 0

-----------------------------------------------------------------------------
\* HttpSender::SendRequest

Answer(http, reqid, succ) ==
  /\ answer' = [http |-> http, reqid |-> reqid, succ |-> succ]
  /\ pc' = "answered"

\* No connection, no answer in time, or an answer that says no: its body is kept
\* out of the stream.
SendFails ==
  /\ pc = "send"
  /\ \E http \in {"NetError", "Redirect", "Other", "4xx", "5xx"}, reqid \in BOOLEAN :
       Answer(http, reqid, FALSE)
  /\ reply' = NoReply
  /\ UNCHANGED <<config, object, i, domain, real, fileVars, cancel, progressVars>>

\* The headers of a good answer: the size of the transfer is its Content-Length,
\* unless that is 0.
SendSucceeds ==
  /\ pc = "send"
  /\ pc' = "receive"
  /\ reply' = object
  /\ real' = 0
  /\ total' = IF object.len > 0 THEN object.len ELSE total
  /\ UNCHANGED <<config, object, i, domain, answer, fileVars, cancel, progress>>

\* Mutation: the progress is not limited to the size.
UpdateProgressUnlimited(n) == progress' = progress + n

\* TransferHandler::UpdateProgress: parts that are sent again count again.
UpdateProgress(n) ==
  progress' = IF progress + n > total THEN total ELSE progress + n

\* HandleStreamCopier: one chunk is written where the stream stands.
ReceiveChunk ==
  /\ pc = "receive"
  /\ real < reply.len
  /\ ~bad /\ ~cancel
  /\ file' = IF pos < Len(file) THEN [file EXCEPT ![pos + 1] = reply.ver]
                                ELSE Append(file, reply.ver)
  /\ pos' = pos + 1
  /\ real' = real + 1
  /\ UpdateProgress(1)
  /\ UNCHANGED <<config, object, pc, i, domain, reply, answer, bad, cancel, total>>

\* The chunk is lost, and counts all the same; the copy ends here.
WriteFails ==
  /\ pc = "receive"
  /\ real < reply.len
  /\ ~bad /\ ~cancel
  /\ bad' = TRUE
  /\ real' = real + 1
  /\ UpdateProgress(1)
  /\ UNCHANGED <<config, object, pc, i, domain, reply, answer, file, pos, cancel, total>>

\* UserCancelException, thrown before the next chunk is written.
ReceiveCancelled ==
  /\ pc = "receive"
  /\ real < reply.len
  /\ ~bad /\ cancel
  /\ \E reqid \in BOOLEAN : Answer("UserCancel", reqid, FALSE)
  /\ UNCHANGED <<config, object, i, domain, reply, real, fileVars, cancel, progressVars>>

\* The connection breaks or times out, or the body ends early, which its length
\* or its MD5 gives away. The request id of the headers is kept.
ReceiveBreaks ==
  /\ pc = "receive"
  /\ \E reqid \in BOOLEAN : Answer("NetError", reqid, FALSE)
  /\ UNCHANGED <<config, object, i, domain, reply, real, fileVars, cancel, progressVars>>

\* What came is compared with the Content-Length or, before anything is written,
\* with the MD5: then a copy that a failed write cut short is not noticed.
ReceiveEnds ==
  /\ pc = "receive"
  /\ real = reply.len \/ bad
  /\ \E reqid \in BOOLEAN : Answer("OK", reqid, TRUE)
  /\ UNCHANGED <<config, object, i, domain, reply, real, fileVars, cancel, progressVars>>

-----------------------------------------------------------------------------
\* BaseOp::DownloadAction

GiveUp ==
  /\ pc = "answered"
  /\ GivesUp(answer, i)
  /\ pc' = "done"
  /\ UNCHANGED <<config, object, i, domain, reply, real, answer, fileVars, cancel, progressVars>>

\* Mutation: the stream is not rewound.
RetryNoSeek ==
  /\ pc = "answered"
  /\ ~GivesUp(answer, i)
  /\ domain' = IF ShouldChangeBackupDomain(config, answer, i) THEN "backup" ELSE domain
  /\ bad' = FALSE
  /\ i' = i + 1
  /\ pc' = "send"
  /\ UNCHANGED <<config, object, reply, real, answer, file, pos, cancel, progressVars>>

\* The stream is rewound, not truncated, and its state cleared; the next attempt
\* begins.
Retry ==
  /\ pc = "answered"
  /\ ~GivesUp(answer, i)
  /\ pos' = 0
  /\ bad' = FALSE
  /\ domain' = IF ShouldChangeBackupDomain(config, answer, i) THEN "backup" ELSE domain
  /\ i' = i + 1
  /\ pc' = "send"
  /\ UNCHANGED <<config, object, reply, real, answer, file, cancel, progressVars>>

Request ==
  \/ SendFails \/ SendSucceeds
  \/ ReceiveChunk \/ WriteFails \/ ReceiveCancelled \/ ReceiveBreaks \/ ReceiveEnds
  \/ GiveUp \/ Retry

-----------------------------------------------------------------------------
\* The user and the other clients of the server

Cancel ==
  /\ pc # "done"
  /\ ~cancel
  /\ cancel' = TRUE
  /\ UNCHANGED <<config, object, pc, i, domain, reply, real, answer, fileVars, progressVars>>

\* Another client replaces the object.
Overwrite ==
  /\ pc # "done"
  /\ object.ver < MaxVersion
  /\ \E n \in 0 .. MaxChunks : object' = [ver |-> object.ver + 1, len |-> n]
  /\ UNCHANGED <<config, pc, i, domain, reply, real, answer, fileVars, cancel, progressVars>>

Done == pc = "done" /\ UNCHANGED vars

Next == Request \/ Cancel \/ Overwrite \/ Done

Spec == Init /\ [][Next]_vars

-----------------------------------------------------------------------------
\* Properties

Succeeded == pc = "done" /\ answer.succ

\* A successful download whose last attempt could write left the whole of one
\* version of the object at the start of the file, however many attempts wrote
\* parts of others there before and whatever writes failed in them; what follows
\* it can only be of older versions, and there is nothing when the object did not
\* change.
SuccessIsOneVersion ==
  Succeeded /\ ~bad =>
    /\ Len(file) >= reply.len
    /\ \A p \in 1 .. reply.len : file[p] = reply.ver
    /\ \A p \in 1 .. Len(file) : p > reply.len => file[p] < reply.ver

\* Progress counts a chunk once per attempt, and yet it is above the size only
\* while an attempt at a shorter version has received nothing, is never below what
\* the attempt has received, and stands at exactly the size when an object that is
\* not empty has been downloaded and written.
SuccessShowsAll ==
  /\ progress > total => real = 0
  /\ pc = "receive" => progress >= real
  /\ Succeeded /\ ~bad /\ reply.len > 0 => progress = total /\ total = reply.len

\* When every answer before it was a 5xx that did not come from COS, the last
\* attempt of several goes to the backup domain.
LastResort ==
  /\ pc = "send" /\ i > 0 /\ i = MaxRetryTimes
  /\ config.retryChangeDomain /\ config.useDefaultDomain /\ ~config.isCi
  /\ answer.http = "5xx" /\ ~answer.reqid
  => domain = "backup"
=============================================================================

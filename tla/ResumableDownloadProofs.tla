----------------------- MODULE ResumableDownloadProofs -----------------------
(***************************************************************************)
(* ResumableDownload, for every number of slices, every window and any     *)
(* number of faults: what the file of a COMPLETED download holds.          *)
(*                                                                         *)
(* The argument: a call that does not resume writes every slice at its     *)
(* place, so a CRC-64 of the buffers that agrees is one of the file; one   *)
(* that resumes appends, and its file is what the CRC-64 was computed of   *)
(* only as long as the slices come in order, which a window of one makes   *)
(* them do.  The length of the file and the number of slices written agree *)
(* when appending: that is what keeps the variables within their types.    *)
(***************************************************************************)
EXTENDS ResumableDownload, FiniteSetTheorems, SequenceTheorems, TLAPS

\* The object only gets newer.
VersionsSound == head <= object /\ object <= faults + 1

\* A call has started over exactly when it is in its second download.
RedoneSound ==
  /\ pc \in {"transfer", "failed", "save", "check", "remove"} => ~redone
  /\ pc = "redo" => redone

\* The CRC-64 is of slices that were written.
HashSound == pc \in {"transfer", "failed"} => 1 .. Len(crc) \subseteq written

\* A resumed call has appended one slice for each it has written.
AppendSound == pc \in {"transfer", "failed"} /\ resume > 0 => Len(file) = Cardinality(written)

\* Another call has every slice at its place.
FreshSound ==
  pc \in {"transfer", "check"} /\ resume = 0 =>
    /\ \A s \in written : s <= Len(file) /\ file[s] = buf[s]
    /\ \A t \in 1 .. Len(crc) : crc[t] = buf[t]

\* With a window of one the slices come in order, and the file is what the CRC-64
\* was computed of.
OrderSound ==
  pc \in {"transfer", "check"} /\ resume > 0 /\ window = 1 =>
    /\ file = crc
    /\ written = 1 .. Len(crc)
    /\ \A s \in Slices \ written : buf[s] # Hole => 1 .. s - 1 \subseteq written

CheckSound == pc = "check" => written = Slices

VerdictSound ==
  (pc = "remove" \/ Completed) /\ ~redone /\ (resume = 0 \/ window = 1) => file = Whole(head)

\* The second download, as long as the object is left alone.
RedoSound ==
  pc = "redo" /\ object = head => \A s \in written : s <= Len(file) /\ file[s] = <<head, s>>

IInv ==
  /\ TypeOK
  /\ VersionsSound /\ RedoneSound
  /\ HashSound /\ AppendSound
  /\ FreshSound /\ OrderSound
  /\ CheckSound /\ VerdictSound
  /\ RedoSound /\ RedoneIsObject

-----------------------------------------------------------------------------
(* Files and CRC-64s                                                       *)

\* A write at a slice changes that slice, and at most lengthens the file up to it.
LEMMA PutSlice ==
  ASSUME NEW f \in Seq(Contents), Len(f) <= NumSlices, NEW s \in Slices, NEW c \in Contents
  PROVE  /\ Put(f, s, c) \in Seq(Contents)
         /\ Len(Put(f, s, c)) <= NumSlices
         /\ Len(f) <= Len(Put(f, s, c)) /\ s <= Len(Put(f, s, c))
         /\ Put(f, s, c)[s] = c
         /\ \A t \in 1 .. Len(f) : t # s => Put(f, s, c)[t] = f[t]
<1>. DEFINE n == IF Len(f) < s THEN s ELSE Len(f)
<1>1. /\ Len(f) \in Nat /\ s \in Nat /\ n \in Nat /\ n <= NumSlices /\ s >= 1
      /\ Len(f) <= n /\ s <= n
  BY ResumableDownloadAssumption DEF Slices
<1>2. Put(f, s, c) = [t \in 1 .. n |-> IF t = s THEN c ELSE IF t <= Len(f) THEN f[t] ELSE Hole]
  BY DEF Put
<1>. HIDE DEF n
<1>3. \A t \in 1 .. n : t <= Len(f) => f[t] \in Contents
  BY <1>1
<1>4. Hole \in Contents
  BY DEF Contents
<1>5. \A t \in 1 .. n : (IF t = s THEN c ELSE IF t <= Len(f) THEN f[t] ELSE Hole) \in Contents
  BY <1>3, <1>4
<1>6. Put(f, s, c) \in [1 .. n -> Contents]
  BY <1>2, <1>5
<1>7. Put(f, s, c) \in Seq(Contents) /\ Len(Put(f, s, c)) = n
  BY <1>1, <1>6
<1>8. Put(f, s, c)[s] = c
  BY <1>1, <1>2
<1>9. \A t \in 1 .. Len(f) : t # s => Put(f, s, c)[t] = f[t]
  BY <1>1, <1>2
<1>. QED  BY <1>1, <1>7, <1>8, <1>9

\* The CRC-64 goes on with the buffers, up to some slice.
LEMMA HashGrows ==
  ASSUME NEW h \in Seq(Contents), NEW b \in [Slices -> Contents],
         NEW n \in Nat, Len(h) <= n, n <= NumSlices
  PROVE  LET g == h \o [t \in 1 .. n - Len(h) |-> b[Len(h) + t]] IN
           /\ g \in Seq(Contents) /\ Len(g) = n
           /\ \A t \in 1 .. Len(h) : g[t] = h[t]
           /\ \A t \in 1 .. n : t > Len(h) => g[t] = b[t]
<1>. DEFINE e == [t \in 1 .. n - Len(h) |-> b[Len(h) + t]]
<1>1. Len(h) \in Nat /\ n - Len(h) \in Nat
  OBVIOUS
<1>2. \A t \in 1 .. n - Len(h) : Len(h) + t \in Slices /\ b[Len(h) + t] \in Contents
  BY <1>1, ResumableDownloadAssumption DEF Slices
<1>3. e \in [1 .. n - Len(h) -> Contents]
  BY <1>2
<1>4. \A t \in 1 .. n - Len(h) : e[t] = b[Len(h) + t]
  OBVIOUS
<1>. HIDE DEF e
<1>5. e \in Seq(Contents) /\ Len(e) = n - Len(h)
  BY <1>1, <1>3
<1>6. h \o e \in Seq(Contents) /\ Len(h \o e) = n
  BY <1>1, <1>5
<1>7. \A t \in 1 .. Len(h) : (h \o e)[t] = h[t]
  BY <1>1, <1>5
<1>8. ASSUME NEW t \in 1 .. n, t > Len(h)
      PROVE  (h \o e)[t] = b[t]
  <2>1. (h \o e)[t] = e[t - Len(h)] /\ t - Len(h) \in 1 .. n - Len(h)
    BY <1>1, <1>5, <1>8
  <2>2. e[t - Len(h)] = b[Len(h) + (t - Len(h))]
    BY <2>1, <1>4
  <2>. QED  BY <1>1, <2>1, <2>2
<1>. QED  BY <1>6, <1>7, <1>8 DEF e

\* A sequence that has the object's content at every slice, and no more, is the
\* object.
LEMMA IsWhole ==
  ASSUME NEW f \in Seq(Contents), NEW v, Len(f) = NumSlices,
         \A s \in Slices : f[s] = <<v, s>>
  PROVE  f = Whole(v)
<1>1. f \in [1 .. NumSlices -> Contents]
  BY LenProperties
<1>2. f = [s \in Slices |-> f[s]]
  BY <1>1 DEF Slices
<1>. QED  BY <1>2 DEF Whole

\* A set of slices has no more elements than there are slices.
LEMMA SlicesCount ==
  ASSUME NEW S \in SUBSET Slices
  PROVE  IsFiniteSet(S) /\ Cardinality(S) \in Nat /\ Cardinality(S) <= NumSlices
<1>1. IsFiniteSet(Slices) /\ Cardinality(Slices) = NumSlices
  BY FS_Interval, ResumableDownloadAssumption DEF Slices
<1>. QED  BY <1>1, FS_Subset, FS_CardinalityType

\* The first slices are as many as the number of the last.
LEMMA FirstSlices ==
  ASSUME NEW n \in Nat
  PROVE  IsFiniteSet(1 .. n) /\ Cardinality(1 .. n) = n
  BY FS_Interval

\* A fault is counted and stays within its bound.
LEMMA FaultTyped ==
  ASSUME TypeOK, Fault \/ NoFault
  PROVE  faults' \in 0 .. MaxFaults /\ faults' >= faults
  BY ResumableDownloadAssumption DEF Fault, NoFault, TypeOK

-----------------------------------------------------------------------------
(* The steps                                                               *)

\* The invariant holds initially.
LEMMA InitIInv == Init => IInv
<1>. SUFFICES ASSUME Init PROVE IInv
  OBVIOUS
<1>1. TypeOK
  <2>1. 1 \in Versions /\ 0 \in 0 .. MaxFaults /\ 0 \in 0 .. NumSlices
    BY ResumableDownloadAssumption DEF Versions
  <2>2. buf \in [Slices -> Contents]
    BY DEF Init, NoSlices, Contents
  <2>3. <<>> \in Seq(Contents) /\ Len(<<>>) = 0
    BY EmptySeq
  <2>4. file \in Seq(Contents) /\ Len(file) <= NumSlices /\ crc \in Seq(Contents) /\ Len(crc) <= NumSlices
    BY <2>3, ResumableDownloadAssumption DEF Init
  <2>5. unsaved \in BOOLEAN /\ appended \in BOOLEAN /\ redone \in BOOLEAN
    BY DEF Init
  <2>. QED  BY <2>1, <2>2, <2>4, <2>5 DEF Init, TypeOK
<1>2. VersionsSound /\ RedoneSound
  BY DEF Init, VersionsSound, RedoneSound
<1>. QED
  BY <1>1, <1>2 DEF Init, IInv, HashSound, AppendSound, FreshSound, OrderSound, CheckSound,
     VerdictSound, RedoSound, RedoneIsObject, Completed

\* A call begins, or ends without a file.
Quiet ==
  \/ HeadSucceeds \/ HeadFails \/ OpenFails \/ SaveTask \/ SaveTaskFails \/ CrcFails
  \/ RedoFails \/ Hangs \/ Crash

LEMMA QuietIInv ==
  ASSUME IInv, Quiet
  PROVE  IInv'
<1>. USE DEF IInv, Quiet, HeadSucceeds, HeadFails, OpenFails, SaveTask, SaveTaskFails,
       CrcFails, RedoFails, Hangs, Crash, Ends
<1>1. /\ \/ pc' \in {"idle", "open"} /\ outcome' \in {"none", "FAILED", "CRASHED"}
         \/ pc' = "hung" /\ outcome' = outcome
      /\ UNCHANGED <<window, object, file, resume, buf, written, crc, redone>>
      /\ head' \in {head, object} /\ unsaved' \in BOOLEAN /\ appended' \in BOOLEAN
      /\ Fault \/ NoFault
  BY DEF callVars, pastVars, NoFault, TypeOK
<1>2. task' \in [ver : Versions, offset : 0 .. NumSlices] \cup {NoTask}
  <2>1. Len(crc) \in 0 .. NumSlices
    BY ResumableDownloadAssumption DEF TypeOK
  <2>. QED  BY <2>1 DEF TypeOK, callVars
<1>3. TypeOK'
  BY <1>1, <1>2, FaultTyped DEF TypeOK
<1>4. VersionsSound'
  BY <1>1, FaultTyped, ResumableDownloadAssumption DEF VersionsSound, TypeOK, Versions
<1>. QED
  BY <1>1, <1>3, <1>4 DEF RedoneSound, HashSound, AppendSound, FreshSound, OrderSound,
     CheckSound, VerdictSound, RedoSound, RedoneIsObject, Completed

\* A transfer has a window.
LEMMA PoolSizeTyped ==
  ASSUME NEW configured \in Windows, NEW begin \in 0 .. NumSlices
  PROVE  PoolSize(configured, NumSlices - begin) \in Nat \ {0}
<1>. DEFINE left == NumSlices - begin
<1>1. left \in Nat
  BY ResumableDownloadAssumption
<1>. HIDE DEF left
<1>2. PoolSize(configured, left) \in Nat \ {0}
  BY <1>1, ResumableDownloadAssumption DEF PoolSize
<1>. QED  BY <1>2 DEF left

\* The file, the CRC-64 and the slices agree when the transfer begins.
LEMMA OpenIInv ==
  ASSUME IInv, Open
  PROVE  IInv'
<1>. USE DEF IInv
<1>1. /\ pc' = "transfer" /\ redone' = FALSE /\ crc' = file' /\ buf' = NoSlices
      /\ written' = 1 .. resume'
      /\ UNCHANGED <<object, head, outcome, unsaved, faults>>
      /\ task' \in {task, NoTask} /\ appended' \in BOOLEAN
  BY DEF Open, TypeOK
<1>2. /\ file' \in Seq(Contents) /\ Len(file') <= NumSlices
      /\ resume' \in 0 .. NumSlices /\ Len(file') = resume'
  <2>1. CASE ResumeOffset > 0
    <3>1. resume' = Len(file) /\ resume' > 0 /\ file' = file
      BY <2>1 DEF Open, ResumeOffset
    <3>. QED  BY <3>1, ResumableDownloadAssumption DEF TypeOK
  <2>2. CASE ~(ResumeOffset > 0)
    <3>1. task # NoTask => task.offset \in Nat
      BY DEF TypeOK
    <3>2. ResumeOffset = 0
      BY <2>2, <3>1 DEF ResumeOffset, TaskValid, NoTask
    <3>3. file' = <<>> /\ resume' = 0
      BY <3>2 DEF Open
    <3>4. <<>> \in Seq(Contents) /\ Len(<<>>) = 0
      BY EmptySeq
    <3>. QED  BY <3>3, <3>4, ResumableDownloadAssumption
  <2>. QED  BY <2>1, <2>2
<1>3. written' \subseteq Slices /\ Cardinality(written') = resume'
  BY <1>1, <1>2, FirstSlices, ResumableDownloadAssumption DEF Slices
<1>4. buf' \in [Slices -> Contents]
  BY <1>1 DEF NoSlices, Contents
<1>8. window' \in Nat \ {0}
  <2>1. PICK configured \in Windows : window' = PoolSize(configured, NumSlices - resume')
    BY DEF Open
  <2>. QED  BY <1>2, <2>1, PoolSizeTyped
<1>5. TypeOK'
  BY <1>1, <1>2, <1>3, <1>4, <1>8 DEF TypeOK
<1>6. VersionsSound' /\ RedoneSound' /\ HashSound' /\ AppendSound'
  BY <1>1, <1>2, <1>3 DEF VersionsSound, RedoneSound, HashSound, AppendSound
<1>7. FreshSound' /\ OrderSound'
  BY <1>1, <1>2 DEF FreshSound, OrderSound, NoSlices
<1>. QED
  BY <1>1, <1>5, <1>6, <1>7 DEF CheckSound, VerdictSound, RedoSound, RedoneIsObject, Completed

\* With a window of one, a slice starts when those before it are written.
LEMMA StartedInOrder ==
  ASSUME TypeOK, window = 1, NEW s \in Slices, Started(s)
  PROVE  1 .. s - 1 \subseteq written
<1>. DEFINE missing == (1 .. s - 1) \ written
<1>1. missing \in SUBSET Slices
  BY ResumableDownloadAssumption DEF Slices
<1>2. IsFiniteSet(missing) /\ Cardinality(missing) \in Nat /\ Cardinality(missing) < 1
  BY <1>1, SlicesCount DEF Started
<1>3. missing = {}
  BY <1>2, FS_EmptySet
<1>. QED  BY <1>3

LEMMA FetchIInv ==
  ASSUME IInv, NEW s \in Slices, Fetch(s)
  PROVE  IInv'
<1>. USE DEF IInv
<1>1. /\ pc = "transfer" /\ pc' = pc /\ s \notin written /\ Started(s)
      /\ buf' = [buf EXCEPT ![s] = <<object, s>>]
      /\ UNCHANGED <<window, object, file, task, head, resume, written, crc, redone, outcome,
                     unsaved, appended, faults>>
  BY DEF Fetch, pastVars
<1>2. TypeOK'
  <2>1. <<object, s>> \in Contents
    BY DEF TypeOK, Contents
  <2>. QED  BY <1>1, <2>1 DEF TypeOK
<1>3. FreshSound'
  BY <1>1 DEF FreshSound, HashSound, TypeOK
<1>4. OrderSound'
  <2>1. window = 1 => 1 .. s - 1 \subseteq written
    BY <1>1, StartedInOrder
  <2>. QED  BY <1>1, <2>1 DEF OrderSound, TypeOK
<1>. QED
  BY <1>1, <1>2, <1>3, <1>4 DEF VersionsSound, RedoneSound, HashSound, AppendSound, CheckSound,
     VerdictSound, RedoSound, RedoneIsObject, Completed

\* A slice is written at its place, or appended, and the CRC-64 goes on.
LEMMA ProcessIInv ==
  ASSUME IInv, NEW s \in Slices, Process(s)
  PROVE  IInv'
<1>. USE DEF IInv
<1>1. /\ pc = "transfer" /\ pc' = pc /\ s \notin written /\ buf[s] # Hole
      /\ Write(s) /\ written' = written \cup {s}
      /\ UNCHANGED <<window, object, task, head, resume, buf, redone, outcome, unsaved, appended,
                     faults>>
  BY DEF Process, pastVars
<1>2. PICK n \in Len(crc) .. NumSlices :
        /\ 1 .. n \subseteq written' /\ n + 1 \notin written'
        /\ crc' = crc \o [t \in 1 .. n - Len(crc) |-> buf[Len(crc) + t]]
  BY DEF Process
<1>3. /\ crc \in Seq(Contents) /\ Len(crc) \in Nat /\ n \in Nat /\ Len(crc) <= n /\ n <= NumSlices
      /\ buf \in [Slices -> Contents] /\ file \in Seq(Contents) /\ Len(file) \in Nat
      /\ Len(file) <= NumSlices /\ written \in SUBSET Slices
  BY ResumableDownloadAssumption DEF TypeOK
<1>4. /\ crc' \in Seq(Contents) /\ Len(crc') = n
      /\ \A t \in 1 .. Len(crc) : crc'[t] = crc[t]
      /\ \A t \in 1 .. n : t > Len(crc) => crc'[t] = buf[t]
  BY <1>2, <1>3, HashGrows
<1>5. /\ IsFiniteSet(written') /\ Cardinality(written') = Cardinality(written) + 1
      /\ Cardinality(written') <= NumSlices /\ written' \in SUBSET Slices
  BY <1>1, <1>3, SlicesCount, FS_AddElement
<1>6. CASE resume = 0
  <2>1. file' = Put(file, s, buf[s]) /\ buf[s] \in Contents
    BY <1>1, <1>3, <1>6 DEF Write
  <2>2. /\ file' \in Seq(Contents) /\ Len(file') <= NumSlices
        /\ Len(file) <= Len(file') /\ s <= Len(file')
        /\ file'[s] = buf[s]
        /\ \A t \in 1 .. Len(file) : t # s => file'[t] = file[t]
    BY <1>3, <2>1, PutSlice
  <2>3. \A t \in written' : t <= Len(file') /\ file'[t] = buf[t]
    <3>1. ASSUME NEW t \in written
          PROVE  t <= Len(file') /\ file'[t] = buf[t]
      <4>1. t \in 1 .. Len(file) /\ t # s /\ file[t] = buf[t]
        BY <1>1, <1>3, <1>6 DEF FreshSound, Slices
      <4>2. Len(file') \in Nat
        BY <2>2, LenProperties
      <4>. QED  BY <1>3, <2>2, <4>1, <4>2
    <3>. QED  BY <1>1, <2>2, <3>1
  <2>4. \A t \in 1 .. Len(crc') : crc'[t] = buf[t]
    BY <1>1, <1>3, <1>4, <1>6 DEF FreshSound
  <2>5. FreshSound'
    BY <1>1, <2>3, <2>4 DEF FreshSound
  <2>6. TypeOK'
    BY <1>1, <1>3, <1>4, <1>5, <2>2 DEF TypeOK
  <2>. QED
    BY <1>1, <1>2, <1>4, <1>6, <2>5, <2>6 DEF VersionsSound, RedoneSound, HashSound, AppendSound,
       OrderSound, CheckSound, VerdictSound, RedoSound, RedoneIsObject, Completed
<1>7. CASE resume > 0
  <2>1. file' = Append(file, buf[s]) /\ buf[s] \in Contents
    BY <1>1, <1>3, <1>7 DEF Write
  <2>2. file' \in Seq(Contents) /\ Len(file') = Len(file) + 1
    BY <1>3, <2>1
  <2>3. Len(file') = Cardinality(written')
    BY <1>1, <1>5, <1>7, <2>2 DEF AppendSound
  <2>4. TypeOK'
    BY <1>1, <1>3, <1>4, <1>5, <2>2, <2>3 DEF TypeOK
  <2>5. ASSUME window = 1
        PROVE  file' = crc' /\ written' = 1 .. Len(crc')
    <3>1. file = crc /\ written = 1 .. Len(crc) /\ 1 .. s - 1 \subseteq written
      BY <1>1, <1>7, <2>5 DEF OrderSound
    <3>2. s = Len(crc) + 1
      BY <1>1, <1>3, <3>1 DEF Slices
    <3>3. written' = 1 .. s
      BY <1>1, <1>3, <3>1, <3>2
    <3>4. n = s
      BY <1>2, <1>3, <3>2, <3>3
    <3>5. \A t \in 1 .. s : file'[t] = crc'[t]
      BY <1>3, <1>4, <2>1, <3>1, <3>2, <3>4
    <3>6. Len(file') = s /\ Len(crc') = s
      BY <1>4, <2>2, <3>1, <3>2, <3>4
    <3>7. file' \in [1 .. s -> Contents] /\ crc' \in [1 .. s -> Contents]
      BY <1>4, <2>2, <3>6, LenProperties
    <3>8. /\ file' = [t \in 1 .. s |-> file'[t]]
          /\ crc' = [t \in 1 .. s |-> crc'[t]]
      BY <3>7
    <3>9. [t \in 1 .. s |-> file'[t]] = [t \in 1 .. s |-> crc'[t]]
      BY <3>5
    <3>. QED  BY <3>3, <3>6, <3>8, <3>9
  <2>6. OrderSound'
    BY <1>1, <1>7, <2>5 DEF OrderSound
  <2>7. HashSound' /\ AppendSound'
    BY <1>2, <1>4, <2>3 DEF HashSound, AppendSound
  <2>. QED
    BY <1>1, <1>7, <2>4, <2>6, <2>7 DEF VersionsSound, RedoneSound, FreshSound,
       CheckSound, VerdictSound, RedoSound, RedoneIsObject, Completed
<1>. QED  BY <1>6, <1>7, ResumableDownloadAssumption DEF TypeOK

\* The transfer ends, one way or the other.
LEMMA EndIInv ==
  ASSUME IInv, TransferFails \/ TransferEnds
  PROVE  IInv'
<1>. USE DEF IInv
<1>1. /\ pc = "transfer" /\ (pc' = "failed" \/ (pc' = "check" /\ written = Slices))
      /\ UNCHANGED <<window, object, file, task, head, resume, buf, written, crc, redone, outcome,
                     unsaved, appended>>
      /\ Fault \/ NoFault
  BY DEF TransferFails, TransferEnds, callVars, pastVars, NoFault
<1>2. TypeOK'
  BY <1>1, FaultTyped DEF TypeOK
<1>3. VersionsSound'
  BY <1>1, FaultTyped, ResumableDownloadAssumption DEF VersionsSound, TypeOK, Versions
<1>. QED
  BY <1>1, <1>2, <1>3 DEF RedoneSound, HashSound, AppendSound, FreshSound, OrderSound, CheckSound,
     VerdictSound, RedoSound, RedoneIsObject, Completed

\* Only what was appended beyond the CRC-64 is cut off.
LEMMA TruncateIInv ==
  ASSUME IInv, Truncate
  PROVE  IInv'
<1>. USE DEF IInv
<1>1. /\ pc = "failed" /\ pc' = "save"
      /\ file' = IF resume > 0 THEN SubSeq(file, 1, Len(crc)) ELSE file
      /\ UNCHANGED <<window, object, task, head, resume, buf, written, crc, redone, outcome,
                     unsaved, appended, faults>>
  BY DEF Truncate, callVars, pastVars
<1>2. file' \in Seq(Contents) /\ Len(file') <= NumSlices
  <2>1. CASE resume > 0
    <3>1. Len(crc) \in Nat /\ file \in Seq(Contents) /\ Len(file) = Cardinality(written)
      BY <1>1, <2>1, LenProperties DEF TypeOK, AppendSound
    <3>2. Len(crc) <= Len(file)
      <4>1. IsFiniteSet(written) /\ Cardinality(1 .. Len(crc)) <= Cardinality(written)
        BY <1>1, SlicesCount, FS_Subset DEF TypeOK, HashSound
      <4>. QED  BY <3>1, <4>1, FirstSlices
    <3>. QED  BY <1>1, <2>1, <3>1, <3>2 DEF TypeOK
  <2>2. CASE ~(resume > 0)
    BY <1>1, <2>2 DEF TypeOK
  <2>. QED  BY <2>1, <2>2
<1>3. TypeOK'
  BY <1>1, <1>2 DEF TypeOK
<1>. QED
  BY <1>1, <1>3 DEF VersionsSound, RedoneSound, HashSound, AppendSound, FreshSound, OrderSound,
     CheckSound, VerdictSound, RedoSound, RedoneIsObject, Completed

\* The CRC-64 that agrees is one of the file.
LEMMA CrcPassesIInv ==
  ASSUME IInv, CrcPasses
  PROVE  IInv'
<1>. USE DEF IInv
<1>1. /\ pc = "check" /\ pc' = "remove" /\ crc = Whole(head) /\ outcome' = "COMPLETED"
      /\ UNCHANGED <<window, object, file, task, head, resume, buf, written, crc, redone,
                     unsaved, appended, faults>>
  BY DEF CrcPasses, callVars, pastVars
<1>2. TypeOK'
  BY <1>1 DEF TypeOK
<1>3. CASE resume = 0
  <2>1. written = Slices /\ DOMAIN crc = Slices
    BY <1>1 DEF CheckSound, Whole
  <2>2. DOMAIN crc = 1 .. Len(crc) /\ Len(crc) \in Nat
    BY LenProperties DEF TypeOK
  <2>3. \A s \in Slices : s <= Len(file) /\ file[s] = <<head, s>>
    BY <1>1, <1>3, <2>1, <2>2 DEF FreshSound, Whole
  <2>4. Len(file) = NumSlices
    BY <2>3, LenProperties, ResumableDownloadAssumption DEF TypeOK, Slices
  <2>5. file = Whole(head)
    BY <2>3, <2>4, IsWhole DEF TypeOK
  <2>. QED
    BY <1>1, <1>2, <2>5 DEF VersionsSound, RedoneSound, HashSound, AppendSound, FreshSound,
       OrderSound, CheckSound, VerdictSound, RedoSound, RedoneIsObject, Completed, Whole
<1>4. CASE resume > 0
  <2>1. window = 1 => file = Whole(head)
    BY <1>1, <1>4 DEF OrderSound
  <2>. QED
    BY <1>1, <1>2, <1>4, <2>1 DEF VersionsSound, RedoneSound, HashSound, AppendSound, FreshSound,
       OrderSound, CheckSound, VerdictSound, RedoSound, RedoneIsObject, Completed, Whole
<1>. QED  BY <1>3, <1>4, ResumableDownloadAssumption DEF TypeOK

\* The task file goes, and nothing else.
LEMMA RemoveTaskIInv ==
  ASSUME IInv, RemoveTask
  PROVE  IInv'
<1>. USE DEF IInv
<1>1. /\ pc = "remove" /\ pc' = "idle" /\ task' = NoTask
      /\ UNCHANGED <<window, object, file, head, resume, buf, written, crc, redone, outcome,
                     unsaved, appended, faults>>
  BY DEF RemoveTask, callVars, pastVars
<1>2. TypeOK'
  BY <1>1 DEF TypeOK
<1>. QED
  BY <1>1, <1>2 DEF VersionsSound, RedoneSound, HashSound, AppendSound, FreshSound,
     OrderSound, CheckSound, VerdictSound, RedoSound, RedoneIsObject, Completed, Whole

\* The second download begins with an empty file.
LEMMA StartOverIInv ==
  ASSUME IInv, CrcFailsResumed
  PROVE  IInv'
<1>. USE DEF IInv
<1>1. /\ pc = "check" /\ pc' = "redo" /\ task' = NoTask /\ file' = <<>> /\ head' = object
      /\ written' = {} /\ redone' = TRUE /\ window' \in Nat \ {0}
      /\ UNCHANGED <<object, resume, buf, crc, outcome, unsaved, appended, faults>>
  <2>1. 0 \in 0 .. NumSlices /\ NumSlices - 0 = NumSlices
    BY ResumableDownloadAssumption
  <2>. QED  BY <2>1, PoolSizeTyped DEF CrcFailsResumed, pastVars
<1>2. <<>> \in Seq(Contents) /\ Len(<<>>) = 0
  BY EmptySeq
<1>3. TypeOK'
  BY <1>1, <1>2, ResumableDownloadAssumption DEF TypeOK
<1>4. VersionsSound'
  BY <1>1, ResumableDownloadAssumption DEF VersionsSound, TypeOK, Versions
<1>. QED
  BY <1>1, <1>3, <1>4 DEF RedoneSound, HashSound, AppendSound, FreshSound,
     OrderSound, CheckSound, VerdictSound, RedoSound, RedoneIsObject, Completed

\* It writes every slice at its place.
LEMMA RedoWriteIInv ==
  ASSUME IInv, NEW s \in Slices, RedoWrite(s)
  PROVE  IInv'
<1>. USE DEF IInv
<1>1. /\ pc = "redo" /\ pc' = pc /\ s \notin written
      /\ file' = Put(file, s, <<object, s>>) /\ written' = written \cup {s}
      /\ UNCHANGED <<window, object, task, head, resume, buf, crc, redone, outcome, unsaved, appended, faults>>
  BY DEF RedoWrite, pastVars
<1>2. /\ file \in Seq(Contents) /\ Len(file) \in Nat /\ Len(file) <= NumSlices
      /\ <<object, s>> \in Contents /\ written \in SUBSET Slices
  BY LenProperties DEF TypeOK, Contents
<1>3. /\ file' \in Seq(Contents) /\ Len(file') <= NumSlices
      /\ Len(file) <= Len(file') /\ s <= Len(file')
      /\ file'[s] = <<object, s>>
      /\ \A t \in 1 .. Len(file) : t # s => file'[t] = file[t]
  BY <1>1, <1>2, PutSlice
<1>4. TypeOK'
  BY <1>1, <1>2, <1>3 DEF TypeOK
<1>5. ASSUME object = head, NEW t \in written'
      PROVE  t <= Len(file') /\ file'[t] = <<head, t>>
  <2>1. CASE t = s
    BY <1>3, <1>5, <2>1
  <2>2. CASE t # s
    <3>1. t \in 1 .. Len(file) /\ file[t] = <<head, t>>
      BY <1>1, <1>2, <1>5, <2>2 DEF RedoSound, Slices
    <3>2. Len(file') \in Nat
      BY <1>3, LenProperties
    <3>. QED  BY <1>2, <1>3, <2>2, <3>1, <3>2
  <2>. QED  BY <2>1, <2>2
<1>6. RedoSound'
  BY <1>1, <1>5 DEF RedoSound
<1>. QED
  BY <1>1, <1>4, <1>6 DEF VersionsSound, RedoneSound, HashSound, AppendSound, FreshSound,
     OrderSound, CheckSound, VerdictSound, RedoneIsObject, Completed

LEMMA RedoEndsIInv ==
  ASSUME IInv, RedoEnds
  PROVE  IInv'
<1>. USE DEF IInv
<1>1. /\ pc = "redo" /\ pc' = "idle" /\ outcome' = "COMPLETED" /\ written = Slices /\ redone
      /\ UNCHANGED <<window, object, file, task, head, resume, buf, written, crc, redone,
                     unsaved, appended, faults>>
  BY DEF RedoEnds, Ends, callVars, pastVars, RedoneSound
<1>2. TypeOK'
  BY <1>1 DEF TypeOK
<1>3. ASSUME object = head
      PROVE  file = Whole(object)
  <2>1. \A s \in Slices : s <= Len(file) /\ file[s] = <<object, s>>
    BY <1>1, <1>3 DEF RedoSound
  <2>2. Len(file) = NumSlices
    BY <2>1, LenProperties, ResumableDownloadAssumption DEF TypeOK, Slices
  <2>. QED  BY <2>1, <2>2, IsWhole DEF TypeOK
<1>4. RedoneIsObject'
  BY <1>1, <1>3 DEF RedoneIsObject, Whole
<1>. QED
  BY <1>1, <1>2, <1>4 DEF VersionsSound, RedoneSound, HashSound, AppendSound, FreshSound,
     OrderSound, CheckSound, VerdictSound, RedoSound, Completed

\* An object overwritten is no more the one a HEAD request has found.
LEMMA OverwriteIInv ==
  ASSUME IInv, Overwrite
  PROVE  IInv'
<1>. USE DEF IInv
<1>1. /\ Fault /\ object' = object + 1
      /\ UNCHANGED <<window, file, task, pc, head, resume, buf, written, crc, redone, outcome, unsaved, appended>>
  BY DEF Overwrite, callVars, pastVars
<1>2. /\ object \in Nat /\ head \in Nat /\ faults \in Nat /\ object <= faults + 1 /\ head <= object
      /\ faults' = faults + 1 /\ faults < MaxFaults
  BY <1>1, ResumableDownloadAssumption DEF TypeOK, Versions, VersionsSound, Fault
<1>3. object' \in Versions /\ object' # head
  BY <1>1, <1>2, ResumableDownloadAssumption DEF Versions
<1>4. TypeOK'
  BY <1>1, <1>3, FaultTyped DEF TypeOK
<1>5. VersionsSound'
  BY <1>1, <1>2 DEF VersionsSound
<1>. QED
  BY <1>1, <1>3, <1>4, <1>5 DEF RedoneSound, HashSound, AppendSound, FreshSound,
     OrderSound, CheckSound, VerdictSound, RedoSound, RedoneIsObject, Completed, Whole

\* Every step keeps the invariant.
LEMMA NextIInv ==
  ASSUME IInv, [Next]_vars
  PROVE  IInv'
<1>1. CASE UNCHANGED vars
  BY <1>1 DEF vars, callVars, pastVars, IInv, TypeOK, VersionsSound, RedoneSound, HashSound, AppendSound,
       FreshSound, OrderSound, CheckSound, VerdictSound, RedoSound, RedoneIsObject, Completed, Whole
<1>2. CASE Step
  <2>1. CASE Quiet  BY <2>1, QuietIInv
  <2>2. CASE Open  BY <2>2, OpenIInv
  <2>3. ASSUME NEW s \in Slices, Fetch(s) \/ Process(s) \/ RedoWrite(s)
        PROVE  IInv'
    BY <2>3, FetchIInv, ProcessIInv, RedoWriteIInv
  <2>4. CASE TransferFails \/ TransferEnds  BY <2>4, EndIInv
  <2>5. CASE Truncate  BY <2>5, TruncateIInv
  <2>6. CASE CrcPasses  BY <2>6, CrcPassesIInv
  <2>7. CASE RemoveTask  BY <2>7, RemoveTaskIInv
  <2>8. CASE CrcFailsResumed  BY <2>8, StartOverIInv
  <2>9. CASE RedoEnds  BY <2>9, RedoEndsIInv
  <2>. QED  BY <1>2, <2>1, <2>2, <2>3, <2>4, <2>5, <2>6, <2>7, <2>8, <2>9 DEF Step, Quiet
<1>. QED  BY <1>1, <1>2, QuietIInv, OverwriteIInv DEF Next, Done, Quiet

-----------------------------------------------------------------------------
(* The theorems                                                            *)

\* The invariant holds of every reachable state.
THEOREM Invariance == Spec => []IInv
<1>1. IInv /\ [Next]_vars => IInv'
  BY NextIInv
<1>. QED  BY InitIInv, <1>1, PTL DEF Spec

\* Every variable stays within its type: an append never lengthens the file
\* beyond the object.
THEOREM TypeCorrect == Spec => []TypeOK
<1>1. IInv => TypeOK
  BY DEF IInv
<1>. QED  BY Invariance, <1>1, PTL

\* A download that did not resume and ends COMPLETED has the object in the file.
THEOREM FreshDownload == Spec => []FreshIsObject
<1>1. IInv => FreshIsObject
  BY DEF IInv, VerdictSound, FreshIsObject, Verified
<1>. QED  BY Invariance, <1>1, PTL

\* So has any that wrote its slices in order.
THEOREM InOrderDownload == Spec => []CompletedInOrder
<1>1. IInv => CompletedInOrder
  BY DEF IInv, VerdictSound, CompletedInOrder, Verified
<1>. QED  BY Invariance, <1>1, PTL

\* The second download of a call has the object in the file, if that was left alone.
THEOREM SecondDownload == Spec => []RedoneIsObject
<1>1. IInv => RedoneIsObject
  BY DEF IInv
<1>. QED  BY Invariance, <1>1, PTL

-----------------------------------------------------------------------------
(* What a call leaves behind is one to go on from                          *)

\* The call has opened the file and not yet left it.
AtSlices == pc \in {"transfer", "failed", "save", "check"}

\* A call that has resumed with a window of one: file and CRC-64 grow together.
InOrder ==
  AtSlices /\ resume > 0 /\ window = 1 =>
    /\ file = crc
    /\ written = 1 .. Len(crc)
    /\ pc = "transfer" => \A s \in Slices \ written : buf[s] # Hole => 1 .. s - 1 \subseteq written

\* Every call that has resumed did so with a window of one, unless one is noted.
AppendedSound == AtSlices /\ resume > 0 /\ ~appended => window = 1

\* A task file that a call has opened with is of the object the HEAD request found.
TaskSound ==
  /\ task.ver <= object
  /\ AtSlices => task.ver \in {0, head}
  /\ pc = "redo" => task.ver = 0

IsOf(f, v) == \A t \in 1 .. Len(f) : f[t] = <<v, t>>

\* If every call noted how far it was and none appended out of order, a task file
\* of the object as it is now, when it fits the file, lies beside slices of that
\* object; and what a call has written is of the object it began with, while that
\* is left alone.
KeptSound ==
  ~unsaved /\ ~appended =>
    /\ pc \in {"idle", "open"} /\ task.ver = object /\ task.offset = Len(file) =>
         IsOf(file, object)
    /\ AtSlices /\ object = head =>
         /\ \A s \in written : s <= Len(file) /\ file[s] = <<head, s>>
         /\ \A s \in Slices : buf[s] \in {Hole, <<head, s>>}

\* The CRC-64 is of slices that were written, to the end of the call.
HashKept == AtSlices => 1 .. Len(crc) \subseteq written

KIInv == InOrder /\ AppendedSound /\ TaskSound /\ KeptSound /\ HashKept

\* A version that exists is not zero, and no older one is the object.
LEMMA VersionNumbers ==
  ASSUME IInv
  PROVE  /\ object \in Nat /\ object >= 1 /\ head \in Nat /\ head >= 1 /\ head <= object
         /\ task.ver \in Nat
<1>1. task.ver \in Nat
  BY DEF IInv, TypeOK, Versions, NoTask
<1>. QED  BY <1>1, ResumableDownloadAssumption DEF IInv, TypeOK, Versions, VersionsSound

LEMMA InitKIInv == Init => KIInv
<1>. SUFFICES ASSUME Init PROVE KIInv
  OBVIOUS
<1>1. Len(file) = 0 /\ task.ver = 0
  BY EmptySeq DEF Init, NoTask
<1>. QED
  BY <1>1 DEF Init, KIInv, InOrder, AppendedSound, AtSlices, TaskSound, KeptSound, HashKept, IsOf

\* A call begins, ends before it has touched the file or after its second download,
\* hangs, or does not get to note how far it was.
LEMMA EdgeKIInv ==
  ASSUME IInv, KIInv,
         \/ HeadSucceeds \/ HeadFails \/ OpenFails \/ SaveTaskFails \/ RemoveTask
         \/ RedoFails \/ RedoEnds \/ Hangs \/ Crash
  PROVE  KIInv'
<1>. USE DEF KIInv, HeadSucceeds, HeadFails, OpenFails, SaveTaskFails, RemoveTask, RedoFails,
       RedoEnds, Hangs, Crash, Ends
<1>1. /\ pc' \in {"idle", "open", "hung"} /\ task' \in {task, NoTask}
      /\ UNCHANGED <<object, file>> /\ (unsaved' = FALSE => unsaved = FALSE)
      /\ appended' = appended
  BY DEF callVars, pastVars, IInv, TypeOK
<1>2. NoTask.ver = 0
  BY DEF NoTask
<1>3. InOrder' /\ AppendedSound' /\ HashKept'
  BY <1>1 DEF InOrder, AppendedSound, HashKept, AtSlices
<1>4. TaskSound'
  BY <1>1, <1>2, VersionNumbers DEF TaskSound, AtSlices
<1>5. ASSUME ~unsaved', ~appended', pc' # "hung", task'.ver = object', task'.offset = Len(file')
      PROVE  IsOf(file', object')
  <2>1. task' = task /\ task.ver = object /\ object # 0
    BY <1>1, <1>2, <1>5, VersionNumbers
  <2>2. pc \in {"idle", "open"}
    BY <1>5, <2>1, <1>2, VersionNumbers DEF TaskSound, IInv, TypeOK
  <2>3. ~unsaved /\ ~appended
    BY <1>1, <1>5 DEF IInv, TypeOK
  <2>. QED  BY <1>1, <1>5, <2>1, <2>2, <2>3 DEF KeptSound
<1>. QED  BY <1>1, <1>3, <1>4, <1>5 DEF KeptSound, AtSlices

\* What is resumed is of the object, if that is still the one of the task file.
LEMMA OpenKIInv ==
  ASSUME IInv, KIInv, Open
  PROVE  KIInv'
<1>. USE DEF KIInv
<1>1. /\ pc = "open" /\ pc' = "transfer" /\ crc' = file' /\ buf' = NoSlices
      /\ written' = 1 .. resume' /\ resume' = ResumeOffset
      /\ file' = IF resume' > 0 THEN file ELSE <<>>
      /\ task' = IF TaskValid THEN task ELSE NoTask
      /\ appended' = (appended \/ (resume' > 0 /\ window' > 1))
      /\ UNCHANGED <<object, head, outcome, unsaved, faults>>
  BY DEF Open
<1>2. NoTask.ver = 0 /\ Len(<<>>) = 0
  BY EmptySeq DEF NoTask
<1>3. /\ Len(file') = resume' /\ resume' \in Nat
      /\ resume' > 0 => file' = file /\ task.ver = head /\ task.offset = Len(file)
  <2>1. CASE ResumeOffset > 0
    <3>1. Len(file) \in Nat
      BY LenProperties DEF IInv, TypeOK
    <3>. QED  BY <1>1, <2>1, <3>1 DEF ResumeOffset, TaskValid
  <2>2. CASE ~(ResumeOffset > 0)
    <3>1. task # NoTask => task.offset \in Nat
      BY DEF IInv, TypeOK
    <3>2. ResumeOffset = 0
      BY <2>2, <3>1 DEF ResumeOffset, TaskValid, NoTask
    <3>. QED  BY <1>1, <1>2, <3>2
  <2>. QED  BY <2>1, <2>2
<1>4. \A s \in Slices : buf'[s] = Hole
  BY <1>1 DEF NoSlices
<1>5. InOrder' /\ HashKept'
  BY <1>1, <1>3, <1>4 DEF InOrder, HashKept, AtSlices
<1>6. TaskSound'
  BY <1>1, <1>2, VersionNumbers DEF TaskSound, TaskValid, AtSlices
<1>7. AppendedSound'
  <2>1. window' \in Nat \ {0}
    <3>1. resume' \in 0 .. NumSlices
      BY <1>3, ResumableDownloadAssumption, <1>1, EmptySeq DEF IInv, TypeOK
    <3>2. PICK configured \in Windows : window' = PoolSize(configured, NumSlices - resume')
      BY DEF Open
    <3>. QED  BY <3>1, <3>2, PoolSizeTyped
  <2>2. ASSUME resume' > 0, ~appended' PROVE ~(window' > 1)
    BY <1>1, <2>2, Zenon
  <2>3. \A n \in Nat \ {0} : ~(n > 1) => n = 1
    OBVIOUS
  <2>4. ASSUME resume' > 0, ~appended' PROVE window' = 1
    BY <2>1, <2>2, <2>3, <2>4
  <2>. QED  BY <2>4 DEF AppendedSound
<1>8. ASSUME ~unsaved, ~appended', object = head, NEW s \in written'
      PROVE  s <= Len(file') /\ file'[s] = <<head, s>>
  <2>1. s \in 1 .. resume' /\ resume' > 0
    BY <1>1, <1>3, <1>8
  <2>2. ~appended
    BY <1>1, <1>8
  <2>3. IsOf(file, object)
    BY <1>1, <1>3, <1>8, <2>1, <2>2 DEF KeptSound
  <2>. QED  BY <1>3, <1>8, <2>1, <2>3 DEF IsOf
<1>. QED  BY <1>1, <1>4, <1>5, <1>6, <1>7, <1>8 DEF KeptSound

LEMMA FetchKIInv ==
  ASSUME IInv, KIInv, NEW s \in Slices, Fetch(s)
  PROVE  KIInv'
<1>. USE DEF KIInv
<1>1. /\ pc = "transfer" /\ pc' = pc /\ s \notin written /\ Started(s)
      /\ buf' = [buf EXCEPT ![s] = <<object, s>>]
      /\ UNCHANGED <<window, object, file, task, head, resume, written, crc, redone, outcome,
                     unsaved, appended, faults>>
  BY DEF Fetch, pastVars
<1>2. window = 1 => 1 .. s - 1 \subseteq written
  BY <1>1, StartedInOrder DEF IInv
<1>3. buf \in [Slices -> Contents]
  BY DEF IInv, TypeOK
<1>4. \A t \in Slices : buf'[t] = IF t = s THEN <<object, s>> ELSE buf[t]
  BY <1>1, <1>3
<1>5. InOrder' /\ AppendedSound' /\ HashKept'
  BY <1>1, <1>2, <1>4 DEF InOrder, AppendedSound, HashKept, AtSlices
<1>6. TaskSound'
  BY <1>1 DEF TaskSound, AtSlices
<1>7. KeptSound'
  BY <1>1, <1>4 DEF KeptSound, AtSlices, IsOf
<1>. QED  BY <1>5, <1>6, <1>7

\* A slice is written at its place; or appended, which with a window of one is the
\* same.
LEMMA ProcessKIInv ==
  ASSUME IInv, KIInv, NEW s \in Slices, Process(s)
  PROVE  KIInv'
<1>. USE DEF KIInv
<1>1. /\ pc = "transfer" /\ pc' = pc /\ s \notin written /\ buf[s] # Hole
      /\ Write(s) /\ written' = written \cup {s}
      /\ UNCHANGED <<window, object, task, head, resume, buf, redone, outcome, unsaved, appended,
                     faults>>
  BY DEF Process, pastVars
<1>2. TaskSound' /\ AppendedSound'
  BY <1>1 DEF TaskSound, AppendedSound, AtSlices
<1>3. /\ crc \in Seq(Contents) /\ Len(crc) \in Nat /\ buf \in [Slices -> Contents]
      /\ file \in Seq(Contents) /\ Len(file) \in Nat /\ Len(file) <= NumSlices
      /\ buf[s] \in Contents /\ written \in SUBSET Slices /\ resume \in Nat
  BY ResumableDownloadAssumption DEF IInv, TypeOK
<1>4. PICK n \in Len(crc) .. NumSlices :
        /\ 1 .. n \subseteq written' /\ n + 1 \notin written'
        /\ crc' = crc \o [t \in 1 .. n - Len(crc) |-> buf[Len(crc) + t]]
  BY DEF Process
<1>5. /\ crc' \in Seq(Contents) /\ Len(crc') = n /\ n \in Nat
      /\ \A t \in 1 .. Len(crc) : crc'[t] = crc[t]
      /\ \A t \in 1 .. n : t > Len(crc) => crc'[t] = buf[t]
  <2>1. n \in Nat /\ Len(crc) <= n /\ n <= NumSlices
    BY <1>3, <1>4, ResumableDownloadAssumption
  <2>. QED  BY <1>3, <1>4, <2>1, HashGrows
<1>6. HashKept'
  BY <1>4, <1>5 DEF HashKept
<1>7. ASSUME resume > 0, window = 1
      PROVE  /\ file' = crc' /\ written' = 1 .. Len(crc')
             /\ \A t \in Slices \ written' : buf'[t] # Hole => 1 .. t - 1 \subseteq written'
             /\ s = Len(file) + 1 /\ file' = Append(file, buf[s])
  <2>1. file = crc /\ written = 1 .. Len(crc) /\ 1 .. s - 1 \subseteq written
    BY <1>1, <1>7 DEF InOrder, AtSlices
  <2>2. s = Len(crc) + 1
    BY <1>1, <1>3, <2>1 DEF Slices
  <2>3. written' = 1 .. s
    BY <1>1, <1>3, <2>1, <2>2
  <2>4. n = s
    BY <1>3, <1>4, <2>2, <2>3
  <2>5. file' = Append(file, buf[s])
    BY <1>1, <1>7 DEF Write
  <2>6. file' = crc'
    <3>1. \A t \in 1 .. s : file'[t] = crc'[t]
      BY <1>3, <1>5, <2>1, <2>2, <2>4, <2>5
    <3>2. file' \in Seq(Contents) /\ Len(file') = s /\ Len(crc') = s
      BY <1>3, <1>5, <2>1, <2>2, <2>4, <2>5
    <3>3. file' \in [1 .. s -> Contents] /\ crc' \in [1 .. s -> Contents]
      BY <1>5, <3>2, LenProperties
    <3>4. /\ file' = [t \in 1 .. s |-> file'[t]]
          /\ crc' = [t \in 1 .. s |-> crc'[t]]
      BY <3>3
    <3>5. [t \in 1 .. s |-> file'[t]] = [t \in 1 .. s |-> crc'[t]]
      BY <3>1
    <3>. QED  BY <3>4, <3>5
  <2>7. \A t \in Slices \ written' : buf'[t] # Hole => 1 .. t - 1 \subseteq written'
    BY <1>1, <1>7 DEF InOrder, AtSlices
  <2>. QED  BY <1>5, <2>1, <2>2, <2>3, <2>4, <2>5, <2>6, <2>7
<1>8. InOrder'
  BY <1>1, <1>7 DEF InOrder
<1>9. ASSUME ~unsaved, ~appended, object = head, NEW t \in written'
      PROVE  t <= Len(file') /\ file'[t] = <<head, t>>
  <2>1. /\ \A u \in written : u <= Len(file) /\ file[u] = <<head, u>>
        /\ buf[s] = <<head, s>>
    BY <1>1, <1>9 DEF KeptSound, AtSlices
  <2>2. CASE resume > 0
    <3>1. window = 1
      BY <1>1, <1>9, <2>2 DEF AppendedSound, AtSlices
    <3>2. s = Len(file) + 1 /\ file' = Append(file, buf[s])
      BY <1>7, <2>2, <3>1
    <3>3. Len(file') = Len(file) + 1 /\ file'[s] = <<head, s>>
      BY <1>3, <2>1, <3>2
    <3>4. CASE t = s
      BY <1>3, <3>2, <3>3, <3>4
    <3>5. CASE t # s
      <4>1. t \in written /\ t \in Nat /\ t >= 1
        BY <1>1, <1>3, <1>9, <3>5 DEF Slices
      <4>2. t \in 1 .. Len(file) /\ file[t] = <<head, t>>
        BY <1>3, <2>1, <4>1
      <4>3. file'[t] = file[t]
        BY <1>3, <3>2, <4>2
      <4>. QED  BY <1>3, <3>3, <4>2, <4>3
    <3>. QED  BY <3>4, <3>5
  <2>3. CASE ~(resume > 0)
    <3>1. file' = Put(file, s, buf[s])
      BY <1>1, <2>3 DEF Write
    <3>2. /\ file' \in Seq(Contents) /\ Len(file) <= Len(file') /\ s <= Len(file')
          /\ file'[s] = buf[s]
          /\ \A u \in 1 .. Len(file) : u # s => file'[u] = file[u]
      BY <1>3, <3>1, PutSlice
    <3>3. CASE t = s
      BY <2>1, <3>2, <3>3
    <3>4. CASE t # s
      <4>1. t \in written /\ t \in Nat /\ t >= 1
        BY <1>1, <1>3, <1>9, <3>4 DEF Slices
      <4>2. t \in 1 .. Len(file) /\ file[t] = <<head, t>>
        BY <1>3, <2>1, <4>1
      <4>3. file'[t] = file[t] /\ Len(file') \in Nat
        BY <3>2, <3>4, <4>2, LenProperties
      <4>. QED  BY <1>3, <3>2, <4>1, <4>2, <4>3
    <3>. QED  BY <3>3, <3>4
  <2>. QED  BY <2>2, <2>3
<1>10. KeptSound'
  BY <1>1, <1>9 DEF KeptSound, AtSlices
<1>. QED  BY <1>2, <1>6, <1>8, <1>10

\* Of a call that resumed and appended in order, nothing lies beyond the CRC-64.
LEMMA AfterwardsKIInv ==
  ASSUME IInv, KIInv, TransferFails \/ TransferEnds \/ Truncate \/ CrcPasses
  PROVE  KIInv'
<1>. USE DEF KIInv, TransferFails, TransferEnds, Truncate, CrcPasses
<1>1. /\ AtSlices /\ pc' \in {"failed", "save", "check", "remove"}
      /\ UNCHANGED <<window, object, task, head, resume, buf, written, crc, unsaved, appended>>
  BY DEF AtSlices, callVars, pastVars
<1>2. (resume > 0 => window = 1) => file' = file
  <2>1. ASSUME resume > 0, window = 1, Truncate
        PROVE  file' = file
    <3>1. file = crc /\ file \in Seq(Contents)
      BY <1>1, <2>1 DEF InOrder, IInv, TypeOK
    <3>2. SubSeq(file, 1, Len(file)) = file
      BY <3>1
    <3>. QED  BY <2>1, <3>1, <3>2
  <2>2. ASSUME ~(resume > 0), Truncate
        PROVE  file' = file
    BY <2>2
  <2>. QED  BY <2>1, <2>2 DEF callVars
<1>3. InOrder' /\ AppendedSound' /\ TaskSound' /\ HashKept'
  BY <1>1, <1>2 DEF InOrder, AppendedSound, TaskSound, HashKept, AtSlices
<1>4. ~appended => file' = file
  BY <1>1, <1>2 DEF AppendedSound
<1>5. KeptSound'
  BY <1>1, <1>4 DEF KeptSound, AtSlices, IsOf
<1>. QED  BY <1>3, <1>5

\* The task file that is written is of the object, or of one that is gone; and if
\* the file is not longer than the offset, every slice of it was written.
LEMMA SaveTaskKIInv ==
  ASSUME IInv, KIInv, SaveTask
  PROVE  KIInv'
<1>. USE DEF KIInv
<1>1. /\ pc = "save" /\ pc' = "idle" /\ task'.ver = head /\ task'.offset = Len(crc)
      /\ UNCHANGED <<window, object, file, head, unsaved, appended>>
  BY DEF SaveTask, Ends, callVars, pastVars
<1>2. InOrder' /\ AppendedSound' /\ TaskSound' /\ HashKept'
  BY <1>1, VersionNumbers DEF InOrder, AppendedSound, TaskSound, HashKept, AtSlices
<1>3. ASSUME ~unsaved, ~appended, object = head, Len(crc) = Len(file)
      PROVE  IsOf(file, head)
  <2>1. 1 .. Len(file) \subseteq written
    BY <1>1, <1>3 DEF HashKept, AtSlices
  <2>2. \A s \in written : file[s] = <<head, s>>
    BY <1>1, <1>3 DEF KeptSound, AtSlices
  <2>. QED  BY <2>1, <2>2 DEF IsOf
<1>4. KeptSound'
  BY <1>1, <1>3 DEF KeptSound, AtSlices, IsOf
<1>. QED  BY <1>2, <1>4

\* Every slice of an object that was left alone is in the file.
LEMMA CheckAgrees ==
  ASSUME IInv, KIInv, ~unsaved, ~appended, pc = "check", object = head
  PROVE  file = Whole(head) /\ (resume > 0 => crc = Whole(head)) /\ IsOf(file, head)
<1>1. /\ written = Slices
      /\ \A s \in Slices : s <= Len(file) /\ file[s] = <<head, s>>
  BY DEF KIInv, AtSlices, KeptSound, IInv, CheckSound
<1>2. file \in Seq(Contents) /\ Len(file) \in Nat /\ Len(file) <= NumSlices
  BY LenProperties DEF IInv, TypeOK
<1>3. Len(file) = NumSlices
  <2>1. NumSlices \in Slices
    BY ResumableDownloadAssumption DEF Slices
  <2>. QED  BY <1>1, <1>2, <2>1, ResumableDownloadAssumption
<1>4. file = Whole(head)
  BY <1>1, <1>2, <1>3, IsWhole
<1>5. resume > 0 => crc = file
  BY DEF KIInv, InOrder, AppendedSound, AtSlices
<1>. QED  BY <1>1, <1>3, <1>4, <1>5 DEF IsOf, Slices

\* A comparison that fails leaves the file of an object that is gone, or all that
\* there is of the object, or nothing.
LEMMA CrcFailsKIInv ==
  ASSUME IInv, KIInv, CrcFails \/ CrcFailsResumed
  PROVE  KIInv'
<1>. USE DEF KIInv
<1>1. /\ pc = "check" /\ pc' \in {"idle", "redo"}
      /\ UNCHANGED <<object, unsaved, appended>>
  BY DEF CrcFails, CrcFailsResumed, Ends, callVars, pastVars
<1>2. (pc' = "idle" /\ task' = task /\ file' = file) \/ (pc' = "redo" /\ task'.ver = 0)
  BY DEF CrcFails, CrcFailsResumed, Ends, NoTask
<1>3. InOrder' /\ AppendedSound' /\ TaskSound' /\ HashKept'
  BY <1>1, <1>2, VersionNumbers DEF InOrder, AppendedSound, TaskSound, HashKept, AtSlices
<1>4. ASSUME ~unsaved', ~appended', pc' = "idle", task'.ver = object'
      PROVE  IsOf(file', object')
  <2>1. task.ver = object /\ object # 0
    BY <1>1, <1>2, <1>4, VersionNumbers
  <2>2. object = head
    BY <1>1, <2>1 DEF TaskSound, AtSlices
  <2>3. ~unsaved /\ ~appended
    BY <1>1, <1>4
  <2>4. IsOf(file, head)
    BY <1>1, <2>2, <2>3, CheckAgrees
  <2>. QED  BY <1>1, <1>2, <1>4, <2>2, <2>4
<1>. QED  BY <1>1, <1>3, <1>4 DEF KeptSound, AtSlices

LEMMA ElseKIInv ==
  ASSUME IInv, KIInv, Overwrite \/ \E s \in Slices : RedoWrite(s)
  PROVE  KIInv'
<1>. USE DEF KIInv
<1>1. CASE Overwrite
  <2>1. /\ object' = object + 1
        /\ UNCHANGED <<window, file, task, pc, head, resume, buf, written, crc, unsaved, appended>>
    BY <1>1 DEF Overwrite, callVars, pastVars
  <2>2. InOrder' /\ AppendedSound' /\ HashKept'
    BY <2>1 DEF InOrder, AppendedSound, HashKept, AtSlices
  <2>3. TaskSound'
    BY <2>1, VersionNumbers DEF TaskSound, AtSlices
  <2>4. task.ver <= object
    BY DEF TaskSound
  <2>5. task'.ver # object' /\ object' # head'
    BY <2>1, <2>4, VersionNumbers
  <2>. QED  BY <2>2, <2>3, <2>5 DEF KeptSound
<1>2. CASE \E s \in Slices : RedoWrite(s)
  BY <1>2 DEF RedoWrite, InOrder, AppendedSound, HashKept, TaskSound, KeptSound, AtSlices
<1>. QED  BY <1>1, <1>2

LEMMA NextKIInv ==
  ASSUME IInv, KIInv, [Next]_vars
  PROVE  KIInv'
<1>1. CASE UNCHANGED vars
  BY <1>1 DEF vars, callVars, pastVars, KIInv, InOrder, AppendedSound, HashKept, TaskSound,
       KeptSound, AtSlices, IsOf
<1>2. CASE Step
  <2>1. ASSUME NEW s \in Slices, Fetch(s) \/ Process(s)
        PROVE  KIInv'
    BY <2>1, FetchKIInv, ProcessKIInv
  <2>. QED
    BY <1>2, <2>1, EdgeKIInv, OpenKIInv, AfterwardsKIInv, SaveTaskKIInv, CrcFailsKIInv, ElseKIInv
       DEF Step
<1>. QED  BY <1>1, <1>2, EdgeKIInv, ElseKIInv DEF Next, Done

\* A call that resumed starts over only when some call could not note how far it
\* was or appended out of order, or when the object was overwritten: the offset a
\* failed call noted is one to go on from.
THEOREM StartingOverIsExplained == Spec => []RedoExplained
<1>1. IInv /\ KIInv => RedoExplained
  BY CheckAgrees DEF RedoExplained
<1>2. IInv /\ KIInv /\ [Next]_vars => KIInv'
  BY NextKIInv
<1>. QED  BY InitKIInv, Invariance, <1>1, <1>2, PTL DEF Spec
=============================================================================

-------------------------- MODULE ResumableDownload --------------------------
(***************************************************************************)
(* ObjectOp::ResumableGetObject: a windowed download that leaves a task    *)
(* file behind when it fails, from which a later call goes on.  The file   *)
(* is truncated and written at the slices' offsets, or, when the call      *)
(* resumes, opened with O_APPEND, where every write goes to the end of the *)
(* file whatever lseek has asked for.  The CRC-64 is computed from the     *)
(* buffers, in the order of the offsets, and compared with the one the     *)
(* HEAD request returned.  Requests fail, tasks throw, the user cancels,   *)
(* the process crashes, the task file cannot be written and the object is  *)
(* overwritten; MaxFaults bounds how often.                                *)
(*                                                                         *)
(* Offsets count slices.  A piece of content is <<version, slice>>, and a  *)
(* CRC-64 is the sequence of the contents it was computed of.  Which slot  *)
(* and thread fetch a slice is the subject of MultiDownload; here at most  *)
(* window slices are fetched and not yet processed.  All versions of the   *)
(* object have one length.                                                 *)
(***************************************************************************)
EXTENDS Naturals, Sequences, FiniteSets

CONSTANTS NumSlices,  \* the slices of the object
          Windows,    \* what GetDownThreadPoolSize may return, at each call
          MaxFaults   \* bound: failures, cancels, crashes, overwrites

ASSUME ResumableDownloadAssumption ==
  /\ NumSlices \in Nat \ {0}
  /\ Windows \subseteq Nat \ {0}
  /\ MaxFaults \in Nat

VARIABLES window,   \* pool_size, of the last transfer
          object,   \* the version of the object at the server
          file,     \* the local file
          task,     \* the task file
          pc,       \* where the call is
          head,     \* the version the HEAD request found
          resume,   \* resume_offset
          buf,      \* the slices fetched, as fetched
          written,  \* the slices written to the file
          crc,      \* crc64_local; its length is resume_update_offset
          redone,   \* whether the call has started over
          outcome,  \* how the last call ended
          unsaved,  \* whether some call could not note in the task file how far it was
          appended, \* whether some call has resumed with more than one slice at a time
          faults    \* what has gone wrong so far

callVars == <<window, head, resume, buf, written, crc, redone>>
pastVars == <<unsaved, appended>>
vars == <<object, file, task, pc, callVars, outcome, pastVars, faults>>

Slices == 1 .. NumSlices
Versions == 1 .. MaxFaults + 1

Hole == <<0, 0>>
Contents == (Versions \X Slices) \cup {Hole}
NoTask == [ver |-> 0, offset |-> 0]

Whole(v) == [s \in Slices |-> <<v, s>>]

TypeOK ==
  /\ window \in Nat \ {0}
  /\ object \in Versions /\ head \in Versions
  /\ file \in Seq(Contents) /\ Len(file) <= NumSlices
  /\ crc \in Seq(Contents) /\ Len(crc) <= NumSlices
  /\ task \in [ver : Versions, offset : 0 .. NumSlices] \cup {NoTask}
  /\ pc \in {"idle", "open", "transfer", "failed", "save", "check", "remove", "redo",
            "hung"}
  /\ resume \in 0 .. NumSlices
  /\ buf \in [Slices -> Contents]
  /\ written \in SUBSET Slices
  /\ outcome \in {"none", "COMPLETED", "FAILED", "CRASHED"}
  /\ unsaved \in BOOLEAN /\ appended \in BOOLEAN /\ redone \in BOOLEAN
  /\ faults \in 0 .. MaxFaults

NoSlices == [s \in Slices |-> Hole]

Init ==
  /\ window = 1
  /\ object = 1 /\ head = 1
  /\ file = <<>> /\ crc = <<>>
  /\ task = NoTask
  /\ pc = "idle"
  /\ resume = 0
  /\ buf = NoSlices
  /\ written = {}
  /\ outcome = "none"
  /\ unsaved = FALSE /\ appended = FALSE /\ redone = FALSE
  /\ faults = 0

Fault == faults < MaxFaults /\ faults' = faults + 1
NoFault == UNCHANGED faults

Ends(status) == pc' = "idle" /\ outcome' = status

\* A write at slice s leaves a hole where the file was shorter.
Put(f, s, c) ==
  [t \in 1 .. (IF Len(f) < s THEN s ELSE Len(f)) |->
     IF t = s THEN c ELSE IF t <= Len(f) THEN f[t] ELSE Hole]

-----------------------------------------------------------------------------
\* Before the transfer

WantsToCall == outcome # "COMPLETED"

HeadSucceeds ==
  /\ pc = "idle" /\ WantsToCall
  /\ head' = object
  /\ pc' = "open"
  /\ outcome' = "none"
  /\ UNCHANGED <<window, object, file, task, resume, buf, written, crc, redone, pastVars, faults>>

HeadFails ==
  /\ pc = "idle" /\ WantsToCall
  /\ Fault
  /\ Ends("FAILED")
  /\ UNCHANGED <<object, file, task, callVars, pastVars>>

\* Mutation: the task file is not compared with the object.
TaskValidAnyVersion == task.offset > 0

\* CheckResumableDownloadTask
TaskValid == task.ver = head /\ task.offset > 0

ResumeOffset == IF TaskValid /\ task.offset = Len(file) THEN task.offset ELSE 0

\* The pool for the slices that are left: no more than they are, but one. (It is
\* one more when the size is a multiple of a slice's, and finds nothing to do.)
PoolSize(configured, left) ==
  IF configured < left THEN configured ELSE IF left = 0 THEN 1 ELSE left

\* An invalid task file is removed; a valid one that does not fit the local file
\* is kept.
Open ==
  /\ pc = "open"
  /\ task' = IF TaskValid THEN task ELSE NoTask
  /\ resume' = ResumeOffset
  /\ file' = IF resume' > 0 THEN file ELSE <<>>
  /\ crc' = file'
  /\ buf' = NoSlices
  /\ written' = 1 .. resume'
  /\ redone' = FALSE
  /\ \E configured \in Windows : window' = PoolSize(configured, NumSlices - resume')
  /\ appended' = (appended \/ (resume' > 0 /\ window' > 1))
  /\ pc' = "transfer"
  /\ UNCHANGED <<object, head, outcome, unsaved, faults>>

\* The request cannot be signed or the file not opened.
OpenFails ==
  /\ pc = "open"
  /\ Fault
  /\ task' = IF TaskValid THEN task ELSE NoTask
  /\ Ends("FAILED")
  /\ UNCHANGED <<object, file, callVars, pastVars>>

-----------------------------------------------------------------------------
\* The window

\* A slice has been started once fewer than window before it are outstanding.
Started(s) == Cardinality((1 .. s - 1) \ written) < window

\* FileDownTask: the range is read from the object as it is now.
Fetch(s) ==
  /\ pc = "transfer"
  /\ s \notin written /\ buf[s] = Hole
  /\ Started(s)
  /\ buf' = [buf EXCEPT ![s] = <<object, s>>]
  /\ UNCHANGED <<window, object, file, task, pc, head, resume, written, crc, redone, outcome, pastVars, faults>>

\* Mutation: the file is always written at its end.
WriteAppends(s) == file' = Append(file, buf[s])

Write(s) == file' = IF resume > 0 THEN Append(file, buf[s]) ELSE Put(file, s, buf[s])

\* The processing of a fetched slice: its write, then the CRC-64 of the slices
\* that are now contiguous.
Process(s) ==
  /\ pc = "transfer"
  /\ s \notin written /\ buf[s] # Hole
  /\ Write(s)
  /\ written' = written \cup {s}
  /\ \E n \in Len(crc) .. NumSlices :
       /\ 1 .. n \subseteq written'
       /\ n + 1 \notin written'
       /\ crc' = crc \o [t \in 1 .. n - Len(crc) |-> buf[Len(crc) + t]]
  /\ UNCHANGED <<window, object, task, pc, head, resume, buf, redone, outcome, pastVars, faults>>

\* A task or a write fails, or the user cancels, perhaps after a task has thrown.
TransferFails ==
  /\ pc = "transfer"
  /\ Fault
  /\ pc' = "failed"
  /\ UNCHANGED <<object, file, task, callVars, outcome, pastVars>>

\* A task throws and nobody cancels: its slot stays RUNNING, its unit acquired, and
\* the call does not end.
Hangs ==
  /\ pc \in {"transfer", "redo"}
  /\ Fault
  /\ pc' = "hung"
  /\ UNCHANGED <<object, file, task, callVars, outcome, pastVars>>

TransferEnds ==
  /\ pc = "transfer"
  /\ written = Slices
  /\ pc' = "check"
  /\ UNCHANGED <<object, file, task, callVars, outcome, pastVars, faults>>

-----------------------------------------------------------------------------
\* After a failure: ftruncate, only when resuming, and the task file

Truncate ==
  /\ pc = "failed"
  /\ file' = IF resume > 0 THEN SubSeq(file, 1, Len(crc)) ELSE file
  /\ pc' = "save"
  /\ UNCHANGED <<object, task, callVars, outcome, pastVars, faults>>

\* UpdateResumableDownloadTaskFile; without an offset the task file is invalid.
SaveTask ==
  /\ pc = "save"
  /\ task' = [ver |-> head, offset |-> Len(crc)]
  /\ Ends("FAILED")
  /\ UNCHANGED <<object, file, callVars, pastVars, faults>>

\* The task file cannot be opened, which nobody is told, or not be written.
SaveTaskFails ==
  /\ pc = "save"
  /\ Fault
  /\ task' \in {task, NoTask}
  /\ unsaved' = TRUE
  /\ Ends("FAILED")
  /\ UNCHANGED <<object, file, callVars, appended>>

-----------------------------------------------------------------------------
\* After a transfer: the comparison of the CRC-64s

\* Mutation: the CRC-64s are not compared.
CrcPassesUnchecked ==
  /\ pc = "check"
  /\ outcome' = "COMPLETED"
  /\ pc' = "remove"
  /\ UNCHANGED <<object, file, task, callVars, pastVars, faults>>

\* COMPLETED is reported before the task file is removed.
CrcPasses ==
  /\ pc = "check"
  /\ crc = Whole(head)
  /\ outcome' = "COMPLETED"
  /\ pc' = "remove"
  /\ UNCHANGED <<object, file, task, callVars, pastVars, faults>>

RemoveTask ==
  /\ pc = "remove"
  /\ task' = NoTask
  /\ pc' = "idle"
  /\ UNCHANGED <<object, file, callVars, outcome, pastVars, faults>>

CrcFails ==
  /\ pc = "check"
  /\ crc # Whole(head) /\ resume = 0
  /\ Ends("FAILED")
  /\ UNCHANGED <<object, file, task, callVars, pastVars, faults>>

\* Mutation: a resumed download that fails the comparison is not started over.
CrcFailsResumedOnly ==
  /\ pc = "check"
  /\ crc # Whole(head) /\ resume > 0
  /\ Ends("FAILED")
  /\ UNCHANGED <<object, file, task, callVars, pastVars, faults>>

\* What was resumed may not be of this object: both files are removed and the
\* call goes on in MultiThreadDownload, which sends its own HEAD request.
CrcFailsResumed ==
  /\ pc = "check"
  /\ crc # Whole(head) /\ resume > 0
  /\ task' = NoTask
  /\ file' = <<>>
  /\ head' = object
  /\ written' = {}
  /\ redone' = TRUE
  /\ \E configured \in Windows : window' = PoolSize(configured, NumSlices)
  /\ pc' = "redo"
  /\ UNCHANGED <<object, resume, buf, crc, outcome, pastVars, faults>>

\* Mutation: the second download appends as the first one did.
RedoWriteAppends(s) ==
  /\ pc = "redo"
  /\ s \notin written /\ Started(s)
  /\ file' = Append(file, <<object, s>>)
  /\ written' = written \cup {s}
  /\ UNCHANGED <<window, object, task, pc, head, resume, buf, crc, redone, outcome, pastVars, faults>>

\* MultiThreadDownload truncates the file and writes at the offsets.
RedoWrite(s) ==
  /\ pc = "redo"
  /\ s \notin written /\ Started(s)
  /\ file' = Put(file, s, <<object, s>>)
  /\ written' = written \cup {s}
  /\ UNCHANGED <<window, object, task, pc, head, resume, buf, crc, redone, outcome, pastVars, faults>>

RedoFails ==
  /\ pc = "redo"
  /\ Fault
  /\ Ends("FAILED")
  /\ UNCHANGED <<object, file, task, callVars, pastVars>>

\* MultiThreadDownload compares no CRC-64.
RedoEnds ==
  /\ pc = "redo"
  /\ written = Slices
  /\ Ends("COMPLETED")
  /\ UNCHANGED <<object, file, task, callVars, pastVars, faults>>

-----------------------------------------------------------------------------
\* The environment

\* A crash may also cut the task file it finds being written.
Crash ==
  /\ pc # "idle"
  /\ Fault
  /\ Ends("CRASHED")
  /\ unsaved' = TRUE
  /\ task' \in IF pc = "save" THEN {task, NoTask} ELSE {task}
  /\ UNCHANGED <<object, file, callVars, appended>>

Overwrite ==
  /\ Fault
  /\ object' = object + 1
  /\ UNCHANGED <<file, task, pc, callVars, outcome, pastVars>>

Done == (pc = "hung" \/ (pc = "idle" /\ ~WantsToCall)) /\ UNCHANGED vars

Step ==
  \/ HeadSucceeds \/ HeadFails \/ Open \/ OpenFails
  \/ \E s \in Slices : Fetch(s) \/ Process(s) \/ RedoWrite(s)
  \/ TransferFails \/ Hangs \/ TransferEnds
  \/ Truncate \/ SaveTask \/ SaveTaskFails
  \/ CrcPasses \/ RemoveTask \/ CrcFails \/ CrcFailsResumed
  \/ RedoFails \/ RedoEnds

Next == Step \/ Crash \/ Overwrite \/ Done

Spec == Init /\ [][Next]_vars

\* The threads run, every request ends, and the client calls again.
FairSpec == Spec /\ WF_vars(Step)

-----------------------------------------------------------------------------
\* Properties

Completed == pc = "idle" /\ outcome = "COMPLETED"

Verified == Completed /\ ~redone => file = Whole(head)

\* A download that did not resume and ends COMPLETED has the whole object, in one
\* version, in the file: whatever order the slices came in, and whatever earlier
\* calls and crashes left in the file and the task file.
FreshIsObject == resume = 0 => Verified

\* cos_api.h:770 says that ResumableGetObject "支持断点下载" (supports resuming),
\* and object_op.cpp:3232 logs "crc64 check passed": with or without resuming, the
\* file of a COMPLETED download is the object.
CompletedIsObject == Verified

\* The second download of a call, whose CRC-64 nothing compares, leaves the object
\* in the file if the object was left alone meanwhile.
RedoneIsObject == Completed /\ redone /\ object = head => file = Whole(object)

\* The same holds of a call that writes its slices in order, resumed or not and
\* whatever earlier calls have appended.
CompletedInOrder == window = 1 => Verified

\* A call that resumes finds what it resumed to be of another object, and starts
\* over, only if some call could not note how far it was, which leaves the offset
\* of an older task file over a file with holes, or resumed out of order, or the
\* object was overwritten during the call: else the offset that a failed call
\* notes is always one to go on from, also when slices came out of order.
RedoExplained ==
  pc = "check" /\ crc # Whole(head) /\ resume > 0 => unsaved \/ appended \/ object # head

\* A client that calls again ends with a download, unless a call hangs.
EventuallyDownloaded == <>[]Completed \/ <>[](pc = "hung")
=============================================================================

----------------------------- MODULE MultiUpload -----------------------------
(***************************************************************************)
(* ObjectOp::MultiThreadUpload: the main thread reads the local file part  *)
(* by part into the buffers of a window of PoolSize task slots, the pool's *)
(* threads upload them, and the etag and CRC-64 of every part are          *)
(* collected by part number.  A part an interrupted upload already left at *)
(* the server is only recorded: it takes no slot, no unit of the semaphore *)
(* and no thread.                                                          *)
(*                                                                         *)
(* Contents are abstracted to the number of the part they are read from,   *)
(* and the etag and the CRC of a content to the content itself.            *)
(***************************************************************************)
EXTENDS TaskPool

CONSTANT NumParts   \* part_number: the file has parts 1 .. NumParts

ASSUME NumPartsAssumption == NumParts \in Nat

Parts == 1 .. NumParts

None == 0              \* no content, no etag
Short == NumParts + 1  \* what is left of a part the file was cut in

Contents == Parts \cup {None, Short}

VARIABLES mpc,       \* where the main thread is in the function
          i,         \* its loop index over the slots
          offset,    \* the parts read, or NumParts once reading is over
          avail,     \* how many parts can still be read from the local file
          shortPart, \* the part of which the last read returned only a piece
          exist,     \* already_exist_parts: the parts to resume
          started,   \* started_real_task
          vecPart,   \* vec_part_number: the part each slot was last given
          buf,       \* part_buf_info: the part whose bytes each buffer holds
          server,    \* the content the server holds for each part number
          respEtag,  \* the ETag header of each slot's last response
          etags,     \* part_etag_map
          crcs,      \* part_crc64_map
          failed,    \* task_fail_flag
          cancel,    \* the handler's m_cancel
          outcome    \* the result the function returns

dataVars == <<vecPart, buf, server, respEtag, etags, crcs>>
mainVars == <<mpc, i, offset, avail, shortPart, exist, started, failed, cancel, outcome, dataVars>>
vars == <<poolVars, mainVars>>

MainPlaces == {"begin", "loop", "fill", "wait", "process", "join", "sweep",
               "finish", "done", "thrown"}

PartMap == [Parts -> Contents]

TypeOK ==
  /\ PoolTypeOK
  /\ mpc \in MainPlaces
  /\ i \in 1 .. PoolSize + 1
  /\ offset \in 0 .. NumParts
  /\ avail \in 0 .. NumParts
  /\ shortPart \in {None} \cup Parts
  /\ exist \in SUBSET Parts
  /\ started \in BOOLEAN
  /\ vecPart \in [Slots -> {None} \cup Parts]
  /\ buf \in [Slots -> Contents]
  /\ server \in PartMap
  /\ respEtag \in [Slots -> Contents]
  /\ etags \in PartMap
  /\ crcs \in PartMap
  /\ failed \in BOOLEAN
  /\ cancel \in BOOLEAN
  /\ outcome \in {"none", "COMPLETED", "FAILED"}

Init ==
  /\ PoolInit
  /\ mpc = "begin"
  /\ i = 1
  /\ offset = 0
  /\ avail = NumParts
  /\ shortPart = None
  /\ exist \in SUBSET Parts
  /\ started = FALSE
  /\ vecPart = [s \in Slots |-> None]
  /\ buf = [s \in Slots |-> None]
  /\ server = [p \in Parts |-> IF p \in exist THEN p ELSE None]
  /\ respEtag = [s \in Slots |-> None]
  /\ etags = [p \in Parts |-> None]
  /\ crcs = [p \in Parts |-> None]
  /\ failed = FALSE
  /\ cancel = FALSE
  /\ outcome = "none"

-----------------------------------------------------------------------------
\* Before the loop

\* The local file cannot be opened, or it has more than 10000 parts.
BeginFails ==
  /\ mpc = "begin"
  /\ mpc' = "done"
  /\ outcome' = "FAILED"
  /\ UNCHANGED <<poolVars, i, offset, avail, shortPart, exist, started, failed, cancel, dataVars>>

Begin ==
  /\ mpc = "begin"
  /\ mpc' = "loop"
  /\ UNCHANGED <<poolVars, i, offset, avail, shortPart, exist, started, failed, cancel, outcome, dataVars>>

-----------------------------------------------------------------------------
\* The sliding window

LoopGoesOn == offset < NumParts \/ count > 0

LoopExit ==
  /\ mpc = "loop"
  /\ ~LoopGoesOn
  /\ mpc' = "join"
  /\ UNCHANGED <<poolVars, i, offset, avail, shortPart, exist, started, failed, cancel, outcome, dataVars>>

LoopCancelled ==
  /\ mpc = "loop"
  /\ LoopGoesOn
  /\ cancel
  /\ failed' = TRUE
  /\ mpc' = "join"
  /\ UNCHANGED <<poolVars, i, offset, avail, shortPart, exist, started, cancel, outcome, dataVars>>

LoopEnter ==
  /\ mpc = "loop"
  /\ LoopGoesOn
  /\ ~cancel
  /\ started' = FALSE
  /\ mpc' = "fill"
  /\ i' = 1
  /\ UNCHANGED <<poolVars, offset, avail, shortPart, exist, failed, cancel, outcome, dataVars>>

FillGoesOn == i <= PoolSize /\ count < PoolSize /\ offset < NumParts

\* The part the next read returns, if the file still has it.
CurPart == offset + 1

FillSkip ==
  /\ mpc = "fill"
  /\ FillGoesOn
  /\ status[i] # "IDLE"
  /\ i' = i + 1
  /\ UNCHANGED <<poolVars, mpc, offset, avail, shortPart, exist, started, failed, cancel, outcome, dataVars>>

\* Mutation: the end of the file is always taken for the end of the upload.
FillTruncatedIsEnd ==
  /\ mpc = "fill"
  /\ FillGoesOn
  /\ status[i] = "IDLE"
  /\ offset >= avail
  /\ offset' = NumParts
  /\ mpc' = "join"
  /\ UNCHANGED <<poolVars, i, avail, shortPart, exist, started, failed, cancel, outcome, dataVars>>

\* The read meets the end of a file that has shrunk since its size was taken.
FillTruncated ==
  /\ mpc = "fill"
  /\ FillGoesOn
  /\ status[i] = "IDLE"
  /\ offset >= avail
  /\ failed' = TRUE
  /\ offset' = NumParts
  /\ mpc' = "join"
  /\ UNCHANGED <<poolVars, i, avail, shortPart, exist, started, cancel, outcome, dataVars>>

\* The read fails for another reason.
FillReadError ==
  /\ mpc = "fill"
  /\ FillGoesOn
  /\ status[i] = "IDLE"
  /\ failed' = TRUE
  /\ mpc' = "join"
  /\ UNCHANGED <<poolVars, i, offset, avail, shortPart, exist, started, cancel, outcome, dataVars>>

\* The next part is read into the buffer of slot i: all of it, or the piece
\* that is left of it.
ReadPart(content) ==
  /\ mpc = "fill"
  /\ FillGoesOn
  /\ status[i] = "IDLE"
  /\ \/ content = CurPart /\ offset < avail /\ shortPart' = shortPart
     \/ content = Short /\ offset = avail /\ shortPart = None /\ shortPart' = CurPart
  /\ buf' = [buf EXCEPT ![i] = content]
  /\ vecPart' = [vecPart EXCEPT ![i] = CurPart]

\* offset += read_len: a piece does not reach the end of its part.
Advance(content) ==
  /\ offset' = IF content = Short THEN offset ELSE offset + 1
  /\ i' = i + 1

\* Mutation: a resumed part takes a unit of the semaphore.
FillResumedAcquires ==
  \E content \in {CurPart, Short} :
    /\ ReadPart(content)
    /\ CurPart \in exist
    /\ etags' = [etags EXCEPT ![CurPart] = server[CurPart]]
    /\ crcs' = [crcs EXCEPT ![CurPart] = content]
    /\ success' = [success EXCEPT ![i] = TRUE]
    /\ Acquire
    /\ Advance(content)
    /\ UNCHANGED <<status, wpc, wslot, mpc, avail, exist, started, server,
                   respEtag, failed, cancel, outcome>>

FillResumed ==
  \E content \in {CurPart, Short} :
    /\ ReadPart(content)
    /\ CurPart \in exist
    /\ etags' = [etags EXCEPT ![CurPart] = server[CurPart]]
    /\ crcs' = [crcs EXCEPT ![CurPart] = content]
    /\ success' = [success EXCEPT ![i] = TRUE]
    /\ Advance(content)
    /\ UNCHANGED <<count, status, wpc, wslot, mpc, avail, exist, started, server,
                   respEtag, failed, cancel, outcome>>

\* Mutation: already_exist_parts is not consulted.
FillStartResumed ==
  \E content \in {CurPart, Short} :
    /\ ReadPart(content)
    /\ StartTask(i)
    /\ started' = TRUE
    /\ Advance(content)
    /\ UNCHANGED <<mpc, avail, exist, server, respEtag, etags, crcs, failed, cancel, outcome>>

FillStart ==
  \E content \in {CurPart, Short} :
    /\ ReadPart(content)
    /\ CurPart \notin exist
    /\ StartTask(i)
    /\ started' = TRUE
    /\ Advance(content)
    /\ UNCHANGED <<mpc, avail, exist, server, respEtag, etags, crcs, failed, cancel, outcome>>

\* start() finds no free thread and its exception leaves the function.
FillThrows ==
  \E content \in {CurPart, Short} :
    /\ ReadPart(content)
    /\ CurPart \notin exist
    /\ StartRefused(i)
    /\ mpc' = "thrown"
    /\ UNCHANGED <<i, offset, avail, exist, started, server, respEtag, etags, crcs,
                   failed, cancel, outcome>>

\* Having started nothing in this round, the main thread must not wait: there
\* may be no worker left to wake it.
FillDone ==
  /\ mpc = "fill"
  /\ ~FillGoesOn
  /\ \/ started /\ mpc' = "wait" /\ i' = i
     \/ ~started /\ offset >= NumParts /\ mpc' = "join" /\ i' = i
     \/ ~started /\ offset < NumParts /\ mpc' = "process" /\ i' = 1
  /\ UNCHANGED <<poolVars, offset, avail, shortPart, exist, started, failed, cancel, outcome, dataVars>>

Wait ==
  /\ mpc = "wait"
  /\ UnitAvailable
  /\ mpc' = "process"
  /\ i' = 1
  /\ UNCHANGED <<poolVars, offset, avail, shortPart, exist, started, failed, cancel, outcome, dataVars>>

-----------------------------------------------------------------------------
\* process_completed_tasks(), called in the loop and again after joinAll()

Processing == mpc \in {"process", "sweep"}

ProcessGoesOn == i <= PoolSize /\ ~failed

ProcessSkip ==
  /\ Processing
  /\ ProcessGoesOn
  /\ status[i] # "COMPLETED"
  /\ i' = i + 1
  /\ UNCHANGED <<poolVars, mpc, offset, avail, shortPart, exist, started, failed, cancel, outcome, dataVars>>

\* Mutation: the answer is recorded for the part that was read last.
ProcessRecordLast ==
  /\ Processing
  /\ ProcessGoesOn
  /\ status[i] = "COMPLETED"
  /\ success[i]
  /\ respEtag[i] # None
  /\ etags' = [etags EXCEPT ![offset] = respEtag[i]]
  /\ crcs' = [crcs EXCEPT ![offset] = buf[i]]
  /\ ResetTask(i)
  /\ i' = i + 1
  /\ UNCHANGED <<mpc, offset, avail, shortPart, exist, started, vecPart, buf, server, respEtag,
                 failed, cancel, outcome>>

ProcessRecord ==
  /\ Processing
  /\ ProcessGoesOn
  /\ status[i] = "COMPLETED"
  /\ success[i]
  /\ respEtag[i] # None
  /\ etags' = [etags EXCEPT ![vecPart[i]] = respEtag[i]]
  /\ crcs' = [crcs EXCEPT ![vecPart[i]] = buf[i]]
  /\ ResetTask(i)
  /\ i' = i + 1
  /\ UNCHANGED <<mpc, offset, avail, shortPart, exist, started, vecPart, buf, server, respEtag,
                 failed, cancel, outcome>>

\* The task failed, or its response has no ETag.
ProcessFails ==
  /\ Processing
  /\ ProcessGoesOn
  /\ status[i] = "COMPLETED"
  /\ ~success[i] \/ respEtag[i] = None
  /\ failed' = TRUE
  /\ UNCHANGED <<poolVars, mpc, i, offset, avail, shortPart, exist, started, cancel, outcome, dataVars>>

ProcessAgain ==
  /\ mpc = "process"
  /\ i > PoolSize /\ ~failed
  /\ mpc' = "loop"
  /\ UNCHANGED <<poolVars, i, offset, avail, shortPart, exist, started, failed, cancel, outcome, dataVars>>

ProcessStops ==
  /\ mpc = "process"
  /\ failed
  /\ mpc' = "join"
  /\ UNCHANGED <<poolVars, i, offset, avail, shortPart, exist, started, failed, cancel, outcome, dataVars>>

SweepDone ==
  /\ mpc = "sweep"
  /\ ~ProcessGoesOn
  /\ mpc' = "finish"
  /\ UNCHANGED <<poolVars, i, offset, avail, shortPart, exist, started, failed, cancel, outcome, dataVars>>

-----------------------------------------------------------------------------
\* After the loop

JoinAll ==
  /\ mpc = "join"
  /\ AllJoined
  /\ mpc' = "sweep"
  /\ i' = 1
  /\ UNCHANGED <<poolVars, offset, avail, shortPart, exist, started, failed, cancel, outcome, dataVars>>

\* Mutation: the result ignores task_fail_flag.
FinishAlwaysSucceeds ==
  /\ mpc = "finish"
  /\ outcome' = "COMPLETED"
  /\ mpc' = "done"
  /\ UNCHANGED <<poolVars, i, offset, avail, shortPart, exist, started, failed, cancel, dataVars>>

\* The etags, the part numbers and the combined CRC are returned in the order
\* of the part numbers, or the handler is told that the upload failed.
Finish ==
  /\ mpc = "finish"
  /\ outcome' = IF failed THEN "FAILED" ELSE "COMPLETED"
  /\ mpc' = "done"
  /\ UNCHANGED <<poolVars, i, offset, avail, shortPart, exist, started, failed, cancel, dataVars>>

MainStep ==
  \/ BeginFails \/ Begin
  \/ LoopExit \/ LoopCancelled \/ LoopEnter
  \/ FillSkip \/ FillTruncated \/ FillReadError
  \/ FillResumed \/ FillStart \/ FillThrows \/ FillDone
  \/ Wait
  \/ ProcessSkip \/ ProcessRecord \/ ProcessFails \/ ProcessAgain \/ ProcessStops
  \/ SweepDone
  \/ JoinAll \/ Finish

-----------------------------------------------------------------------------
\* The workers, the user and the owner of the local file

\* The server stored the part and its answer passed the CRC or MD5 check. When
\* only the CRC is checked, the ETag may be missing.
UploadSucceeds(t) ==
  /\ DoTask(t, TRUE)
  /\ LET s == wslot[t] IN
       /\ server' = [server EXCEPT ![vecPart[s]] = buf[s]]
       /\ respEtag' \in {[respEtag EXCEPT ![s] = e] : e \in {None, buf[s]}}
  /\ UNCHANGED <<mpc, i, offset, avail, shortPart, exist, started, vecPart, buf, etags, crcs,
                 failed, cancel, outcome>>

\* The retries are used up, the answer needs no retry, or the user cancelled;
\* the server may have stored the part all the same.
UploadFails(t) ==
  /\ DoTask(t, FALSE)
  /\ LET s == wslot[t] IN
       server' \in {server, [server EXCEPT ![vecPart[s]] = buf[s]]}
  /\ respEtag' = [respEtag EXCEPT ![wslot[t]] = None]
  /\ UNCHANGED <<mpc, i, offset, avail, shortPart, exist, started, vecPart, buf, etags, crcs,
                 failed, cancel, outcome>>

WorkerStep(t) ==
  \/ RunBegin(t) /\ UNCHANGED mainVars
  \/ UploadSucceeds(t)
  \/ UploadFails(t)
  \/ TaskThrows(t) /\ UNCHANGED mainVars
  \/ Release(t) /\ UNCHANGED mainVars
  \/ Return(t) /\ UNCHANGED mainVars

Cancel ==
  /\ ~cancel
  /\ mpc \notin {"done", "thrown"}
  /\ cancel' = TRUE
  /\ UNCHANGED <<poolVars, mpc, i, offset, avail, shortPart, exist, started, failed, outcome, dataVars>>

\* Another program truncates the local file.
SourceShrinks ==
  /\ mpc \notin {"done", "thrown"}
  /\ avail > 0
  /\ avail' \in 0 .. avail - 1
  /\ UNCHANGED <<poolVars, mpc, i, offset, shortPart, exist, started, failed, cancel, outcome, dataVars>>

Ended ==
  /\ mpc \in {"done", "thrown"}
  /\ AllJoined
  /\ UNCHANGED vars

\* wait() for a unit that nobody has: every task has thrown.
WaitsForEver ==
  /\ mpc = "wait" /\ ~UnitAvailable
  /\ AllJoined
  /\ UNCHANGED vars

Next ==
  \/ MainStep
  \/ \E t \in Threads : WorkerStep(t)
  \/ Cancel \/ SourceShrinks \/ Ended \/ WaitsForEver

Spec == Init /\ [][Next]_vars

-----------------------------------------------------------------------------
\* Properties

Recorded == {p \in Parts : etags[p] # None}

\* The parts whose tasks threw or were refused a thread: nobody will answer for them.
Forsaken == {vecPart[s] : s \in Abandoned}

\* The window never double-counts a unit of the semaphore, resumed parts included,
\* and leaks one only with a slot that is abandoned, whatever threw.
SemaphoreExact == CountExact

\* What was recorded for a part is what the server holds for it, and, but for
\* a part the file was cut in, it is that part of the file: CompleteMultiUpload
\* will accept the etag, and the CRC was taken before the buffer was reused.
RecordsTrue ==
  \A p \in Recorded : /\ etags[p] = server[p]
                      /\ p # shortPart => server[p] = p /\ crcs[p] = p

\* A successful return lists every part of the file, each uploaded whole, but those
\* whose tasks threw: a file that shrinks while it is read never makes a stunted
\* object, and neither does a task that ended and was not looked at yet.
CompletedMeansWhole ==
  outcome = "COMPLETED" =>
    \A p \in Parts \ Forsaken : etags[p] = p /\ server[p] = p /\ crcs[p] = p

\* A successful return lists every part. object_op.cpp:2292 wants an explicit error
\* where parts would be missing, "to avoid uploading an incomplete object"; but a
\* part whose task threw is missing, and the sweep passes over its slot.
EveryPartListed == outcome = "COMPLETED" => Recorded = Parts

\* No thread outlives the buffers, the tasks and the semaphore.
NoWorkerAtReturn == mpc = "done" => AllJoined

\* The upload behaves as SliceTransfer: every part is recorded at most once,
\* resumed or sent, and a success has recorded or forsaken them all.
Abstract == INSTANCE SliceTransfer WITH
  Slices <- Parts,
  delivered <- Recorded,
  forsaken <- Forsaken,
  outcome <- outcome

ImplementsSliceTransfer == Abstract!Spec

\* A part is with one worker at most, and with none if it was resumed or once it is
\* recorded: whichever way the window moves, the server is never sent a part again
\* whose etag is already in the list.
SentOnce ==
  \A t \in Executing :
    /\ vecPart[wslot[t]] \notin exist \cup Recorded
    /\ \A u \in Executing : vecPart[wslot[u]] = vecPart[wslot[t]] => u = t

\* The pool always has a thread for the next task.
PoolNeverExhausted == mpc # "thrown"

-----------------------------------------------------------------------------
\* The inductive invariant

InFlight == {s \in Slots : status[s] # "IDLE"}

\* A slot in flight holds the part it was given, which is in flight nowhere
\* else, is not to be resumed and has not been recorded.
InFlightSound ==
  \A s \in InFlight :
    /\ vecPart[s] \in Parts \ exist
    /\ etags[vecPart[s]] = None
    /\ \/ buf[s] = vecPart[s]
       \/ buf[s] = Short /\ vecPart[s] = shortPart
    /\ \A r \in InFlight : vecPart[r] = vecPart[s] => r = s

\* The answer of a finished task is about what its buffer still holds.
AnswersSound ==
  \A s \in Slots :
    status[s] = "COMPLETED" /\ success[s] /\ respEtag[s] # None =>
      respEtag[s] = buf[s] /\ server[vecPart[s]] = buf[s]

\* While nothing has failed, the parts read are those recorded or in flight.
Accounted ==
  mpc # "thrown" /\ ~failed =>
    /\ \A p \in Parts :
         (p <= offset \/ p = shortPart) <=>
           (p \in Recorded \/ \E s \in InFlight : vecPart[s] = p)
    /\ shortPart # None => shortPart = CurPart /\ avail <= offset

ServerSound == \A p \in exist : server[p] = p

PlacesOK ==
  /\ mpc \in {"begin", "loop", "fill", "wait"} => ~failed
  /\ mpc = "begin" => offset = 0 /\ InFlight = {} /\ Recorded = {}
  /\ mpc \in {"join", "sweep", "finish"} => failed \/ offset = NumParts
  /\ mpc \in {"begin", "sweep", "finish", "done"} => AllJoined
  /\ mpc = "sweep" /\ ~failed => \A s \in InFlight \ Abandoned : s >= i
  /\ mpc = "finish" /\ ~failed => InFlight \subseteq Abandoned
  /\ mpc = "done" <=> outcome # "none"

IInv ==
  /\ TypeOK
  /\ SlotExclusive
  /\ SemaphoreExact
  /\ InFlightSound
  /\ AnswersSound
  /\ Accounted
  /\ ServerSound
  /\ PlacesOK
  /\ RecordsTrue
  /\ CompletedMeansWhole

=============================================================================

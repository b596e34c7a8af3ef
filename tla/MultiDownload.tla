---------------------------- MODULE MultiDownload ----------------------------
(***************************************************************************)
(* ObjectOp::MultiThreadDownload: the object is fetched in ranges by the   *)
(* pool's threads, through a window of PoolSize task slots, and the main   *)
(* thread writes each finished range at its offset in the local file.      *)
(*                                                                         *)
(* Offsets count slices: the code's offsets are all multiples of           *)
(* slice_size, and only the last range is shorter.                         *)
(***************************************************************************)
EXTENDS TaskPool

CONSTANT NumSlices   \* the object has slices 0 .. NumSlices - 1

ASSUME NumSlicesAssumption == NumSlices \in Nat

\* max_task_num = file_size / slice_size + 1 caps pool_size
ASSUME WindowAssumption == PoolSize <= NumSlices + 1

Slices == 0 .. NumSlices - 1

Hole == NumSlices          \* a place of the file nobody has written
Leftover == NumSlices + 1  \* what an older local file holds there

Untouched == [k \in Slices |-> Leftover]

VARIABLES mpc,        \* where the main thread is in the function
          i,          \* its loop index over the slots
          offset,     \* the next slice to hand out
          vecOffset,  \* vec_offset: the slice each slot was last given
          buf,        \* file_content_buf: the slice whose bytes each buffer holds
          file,       \* the slice whose bytes are at each place of the local file
          failed,     \* task_fail_flag
          cancel,     \* the handler's m_cancel
          outcome     \* the final status given to the handler

mainVars == <<mpc, i, offset, vecOffset, buf, file, failed, cancel, outcome>>
vars == <<poolVars, mainVars>>

MainPlaces == {"begin", "loop", "fill", "wait", "process", "join", "sweep",
               "finish", "done", "thrown"}

TypeOK ==
  /\ PoolTypeOK
  /\ mpc \in MainPlaces
  /\ i \in 1 .. PoolSize + 1
  /\ offset \in 0 .. NumSlices
  /\ vecOffset \in [Slots -> 0 .. NumSlices]
  /\ buf \in [Slots -> 0 .. NumSlices]
  /\ file \in [Slices -> 0 .. NumSlices + 1]
  /\ failed \in BOOLEAN
  /\ cancel \in BOOLEAN
  /\ outcome \in {"none", "COMPLETED", "FAILED"}

Init ==
  /\ PoolInit
  /\ mpc = "begin"
  /\ i = 1
  /\ offset = 0
  /\ vecOffset = [s \in Slots |-> 0]
  /\ buf = [s \in Slots |-> Hole]
  /\ file \in {[k \in Slices |-> Hole], Untouched}
  /\ failed = FALSE
  /\ cancel = FALSE
  /\ outcome = "none"

-----------------------------------------------------------------------------
\* Before the loop

\* The key is illegal, HEAD fails, the request cannot be signed, or the local
\* file cannot be opened: the handler fails before anything is fetched.
BeginFails ==
  /\ mpc = "begin"
  /\ mpc' = "done"
  /\ outcome' = "FAILED"
  /\ UNCHANGED <<poolVars, i, offset, vecOffset, buf, file, failed, cancel>>

\* HEAD gives the size, and open(O_TRUNC) empties the local file.
Begin ==
  /\ mpc = "begin"
  /\ mpc' = "loop"
  /\ file' = [k \in Slices |-> Hole]
  /\ UNCHANGED <<poolVars, i, offset, vecOffset, buf, failed, cancel, outcome>>

-----------------------------------------------------------------------------
\* The sliding window

LoopGoesOn == offset < NumSlices \/ count > 0

LoopExit ==
  /\ mpc = "loop"
  /\ ~LoopGoesOn
  /\ mpc' = "join"
  /\ UNCHANGED <<poolVars, i, offset, vecOffset, buf, file, failed, cancel, outcome>>

LoopCancelled ==
  /\ mpc = "loop"
  /\ LoopGoesOn
  /\ cancel
  /\ failed' = TRUE
  /\ mpc' = "join"
  /\ UNCHANGED <<poolVars, i, offset, vecOffset, buf, file, cancel, outcome>>

LoopEnter ==
  /\ mpc = "loop"
  /\ LoopGoesOn
  /\ ~cancel
  /\ mpc' = "fill"
  /\ i' = 1
  /\ UNCHANGED <<poolVars, offset, vecOffset, buf, file, failed, cancel, outcome>>

FillGoesOn == i <= PoolSize /\ count < PoolSize /\ offset < NumSlices

FillDone ==
  /\ mpc = "fill"
  /\ ~FillGoesOn
  /\ mpc' = "wait"
  /\ UNCHANGED <<poolVars, i, offset, vecOffset, buf, file, failed, cancel, outcome>>

FillSkip ==
  /\ mpc = "fill"
  /\ FillGoesOn
  /\ status[i] # "IDLE"
  /\ i' = i + 1
  /\ UNCHANGED <<poolVars, mpc, offset, vecOffset, buf, file, failed, cancel, outcome>>

FillStart ==
  /\ mpc = "fill"
  /\ FillGoesOn
  /\ status[i] = "IDLE"
  /\ vecOffset' = [vecOffset EXCEPT ![i] = offset]
  /\ StartTask(i)
  /\ offset' = offset + 1
  /\ i' = i + 1
  /\ UNCHANGED <<mpc, buf, file, failed, cancel, outcome>>

\* start() finds no free thread and its exception leaves the function.
FillThrows ==
  /\ mpc = "fill"
  /\ FillGoesOn
  /\ status[i] = "IDLE"
  /\ vecOffset' = [vecOffset EXCEPT ![i] = offset]
  /\ StartRefused(i)
  /\ mpc' = "thrown"
  /\ UNCHANGED <<i, offset, buf, file, failed, cancel, outcome>>

Wait ==
  /\ mpc = "wait"
  /\ UnitAvailable
  /\ mpc' = "process"
  /\ i' = 1
  /\ UNCHANGED <<poolVars, offset, vecOffset, buf, file, failed, cancel, outcome>>

-----------------------------------------------------------------------------
\* process_completed_tasks(), called in the loop and again after joinAll()

Processing == mpc \in {"process", "sweep"}

ProcessGoesOn == i <= PoolSize /\ ~failed

ProcessSkip ==
  /\ Processing
  /\ ProcessGoesOn
  /\ status[i] # "COMPLETED"
  /\ i' = i + 1
  /\ UNCHANGED <<poolVars, mpc, offset, vecOffset, buf, file, failed, cancel, outcome>>

\* Mutation: the slice goes where the last write ended, without SeekFile.
ProcessWriteNoSeek ==
  /\ Processing
  /\ ProcessGoesOn
  /\ status[i] = "COMPLETED"
  /\ success[i]
  /\ file' = [file EXCEPT ![Cardinality({k \in Slices : file[k] # Hole})] = buf[i]]
  /\ ResetTask(i)
  /\ i' = i + 1
  /\ UNCHANGED <<mpc, offset, vecOffset, buf, failed, cancel, outcome>>

ProcessWrite ==
  /\ Processing
  /\ ProcessGoesOn
  /\ status[i] = "COMPLETED"
  /\ success[i]
  /\ file' = [file EXCEPT ![vecOffset[i]] = buf[i]]
  /\ ResetTask(i)
  /\ i' = i + 1
  /\ UNCHANGED <<mpc, offset, vecOffset, buf, failed, cancel, outcome>>

\* The task failed, or seeking to its offset or writing its bytes does.
ProcessFails ==
  /\ Processing
  /\ ProcessGoesOn
  /\ status[i] = "COMPLETED"
  /\ failed' = TRUE
  /\ UNCHANGED <<poolVars, mpc, i, offset, vecOffset, buf, file, cancel, outcome>>

ProcessAgain ==
  /\ mpc = "process"
  /\ i > PoolSize /\ ~failed
  /\ mpc' = "loop"
  /\ UNCHANGED <<poolVars, i, offset, vecOffset, buf, file, failed, cancel, outcome>>

ProcessStops ==
  /\ mpc = "process"
  /\ failed
  /\ mpc' = "join"
  /\ UNCHANGED <<poolVars, i, offset, vecOffset, buf, file, failed, cancel, outcome>>

SweepDone ==
  /\ mpc = "sweep"
  /\ ~ProcessGoesOn
  /\ mpc' = "finish"
  /\ UNCHANGED <<poolVars, i, offset, vecOffset, buf, file, failed, cancel, outcome>>

-----------------------------------------------------------------------------
\* After the loop

\* Mutation: the slots are not swept again after joinAll().
JoinAllNoSweep ==
  /\ mpc = "join"
  /\ AllJoined
  /\ mpc' = "finish"
  /\ UNCHANGED <<poolVars, i, offset, vecOffset, buf, file, failed, cancel, outcome>>

\* Mutation: joinAll() is not called.
NoJoin ==
  /\ mpc = "join"
  /\ mpc' = "sweep"
  /\ i' = 1
  /\ UNCHANGED <<poolVars, offset, vecOffset, buf, file, failed, cancel, outcome>>

JoinAll ==
  /\ mpc = "join"
  /\ AllJoined
  /\ mpc' = "sweep"
  /\ i' = 1
  /\ UNCHANGED <<poolVars, offset, vecOffset, buf, file, failed, cancel, outcome>>

\* Mutation: the result ignores task_fail_flag.
FinishAlwaysSucceeds ==
  /\ mpc = "finish"
  /\ outcome' = "COMPLETED"
  /\ mpc' = "done"
  /\ UNCHANGED <<poolVars, i, offset, vecOffset, buf, file, failed, cancel>>

Finish ==
  /\ mpc = "finish"
  /\ outcome' = IF failed THEN "FAILED" ELSE "COMPLETED"
  /\ mpc' = "done"
  /\ UNCHANGED <<poolVars, i, offset, vecOffset, buf, file, failed, cancel>>

MainStep ==
  \/ BeginFails \/ Begin
  \/ LoopExit \/ LoopCancelled \/ LoopEnter
  \/ FillDone \/ FillSkip \/ FillStart \/ FillThrows
  \/ Wait
  \/ ProcessSkip \/ ProcessWrite \/ ProcessFails \/ ProcessAgain \/ ProcessStops
  \/ SweepDone
  \/ JoinAll \/ Finish

-----------------------------------------------------------------------------
\* The workers and the user

\* DownTask() copies the range into the slot's buffer.
DownSucceeds(t) ==
  /\ DoTask(t, TRUE)
  /\ buf' = [buf EXCEPT ![wslot[t]] = vecOffset[wslot[t]]]
  /\ UNCHANGED <<mpc, i, offset, vecOffset, file, failed, cancel, outcome>>

\* The retries are used up, the answer needs no retry, or the user cancelled.
DownFails(t) == DoTask(t, FALSE) /\ UNCHANGED mainVars

WorkerStep(t) ==
  \/ RunBegin(t) /\ UNCHANGED mainVars
  \/ DownSucceeds(t)
  \/ DownFails(t)
  \/ TaskThrows(t) /\ UNCHANGED mainVars
  \/ Release(t) /\ UNCHANGED mainVars
  \/ Return(t) /\ UNCHANGED mainVars

Cancel ==
  /\ ~cancel
  /\ mpc \notin {"done", "thrown"}
  /\ cancel' = TRUE
  /\ UNCHANGED <<poolVars, mpc, i, offset, vecOffset, buf, file, failed, outcome>>

\* The function has returned or thrown, and no thread is left at work.
Ended ==
  /\ mpc \in {"done", "thrown"}
  /\ AllJoined
  /\ UNCHANGED vars

\* wait() for a unit that nobody has: every task has thrown.  A cancel is not noticed.
WaitsForEver ==
  /\ mpc = "wait" /\ ~UnitAvailable
  /\ AllJoined
  /\ UNCHANGED vars

Next == MainStep \/ (\E t \in Threads : WorkerStep(t)) \/ Cancel \/ Ended \/ WaitsForEver

Spec == Init /\ [][Next]_vars

\* The operating system runs the main thread and every worker; each request
\* ends, because connecting and receiving have timeouts and retries are bounded.
Fairness == WF_vars(MainStep) /\ \A t \in Threads : WF_vars(WorkerStep(t))

FairSpec == Spec /\ Fairness

-----------------------------------------------------------------------------
\* Properties

Written == {k \in Slices : file[k] = k}

\* Every place of the file written by this call holds its own slice: no
\* buffer was reused by another range before the main thread wrote it out.
DataIntact == file = Untouched \/ \A k \in Slices : file[k] \in {k, Hole}

\* A download reported COMPLETED has every slice in its place.
CompletedMeansWhole == outcome = "COMPLETED" => \A k \in Slices : file[k] = k

\* The window never double-counts a unit of the semaphore, and leaks one only with
\* a slot that is abandoned, whatever threw.
SemaphoreExact == CountExact

\* When the function returns and frees the tasks, the buffers and the
\* semaphore, no thread of the pool is still using them.
NoWorkerAtReturn == mpc = "done" => AllJoined

\* A buffer a worker may be filling is never the one the main thread writes
\* out, and a slice is in flight in at most one slot.
InFlightOnce ==
  \A s, r \in Slots :
    s # r /\ status[s] # "IDLE" /\ status[r] # "IDLE" => vecOffset[s] # vecOffset[r]

\* The download behaves as SliceTransfer: every slice is written at most once, and
\* the final status is given once and says the truth. It forsakes no slice: while a
\* slot is abandoned, it does not end but by a failure or a cancel.
Abstract == INSTANCE SliceTransfer WITH
  Slices <- Slices,
  delivered <- Written,
  forsaken <- {},
  outcome <- outcome

ImplementsSliceTransfer == Abstract!Spec

\* Under fair scheduling the function returns (or throws), whatever fails and
\* whenever the user cancels; but for this: when a task has thrown, it goes round
\* until something fails or the user cancels, and when every slot is abandoned, it
\* waits for ever.
Terminates ==
  \/ <>(mpc \in {"done", "thrown"})
  \/ <>[](Abandoned # {} /\ ~cancel)
  \/ <>[](Abandoned = Slots)

\* The pool always has a thread for the next task.
PoolNeverExhausted == mpc # "thrown"

-----------------------------------------------------------------------------
\* The inductive invariant

InFlight == {s \in Slots : status[s] # "IDLE"}

\* A finished task's buffer holds the slice its slot was given.
BuffersFilled ==
  \A s \in Slots : status[s] = "COMPLETED" /\ success[s] => buf[s] = vecOffset[s]

\* A slice in flight is still missing from the file.
InFlightMissing ==
  \A s \in InFlight : vecOffset[s] \in Slices /\ file[vecOffset[s]] = Hole

\* The slices handed out so far are in the file or in flight.
Accounted ==
  mpc # "thrown" =>
    \A k \in Slices :
      k < offset <=> (file[k] = k \/ \E s \in InFlight : vecOffset[s] = k)

FileIntact ==
  \/ \A k \in Slices : file[k] \in {k, Hole}
  \/ file = Untouched /\ mpc \in {"begin", "done"} /\ outcome # "COMPLETED"

PlacesOK ==
  /\ mpc = "begin" => offset = 0 /\ InFlight = {}
  /\ mpc \in {"join", "sweep", "finish"} => failed \/ (offset = NumSlices /\ count = 0)
  /\ mpc \in {"begin", "sweep", "finish", "done"} => AllJoined
  /\ mpc = "sweep" /\ ~failed => \A s \in Slots : s < i => status[s] = "IDLE"
  /\ mpc = "finish" /\ ~failed => InFlight = {}
  /\ mpc = "done" <=> outcome # "none"

IInv ==
  /\ TypeOK
  /\ SlotExclusive
  /\ SemaphoreExact
  /\ InFlightOnce
  /\ BuffersFilled
  /\ InFlightMissing
  /\ Accounted
  /\ FileIntact
  /\ PlacesOK
  /\ CompletedMeansWhole

=============================================================================

------------------------------ MODULE TaskPool ------------------------------
(***************************************************************************)
(* The worker side of every multi-threaded transfer of ObjectOp: the array *)
(* of reusable task slots (FileDownTask / FileUploadTask), the counting    *)
(* Semaphore that the main thread waits on, and the Poco::ThreadPool that  *)
(* runs the tasks.  The transfers (MultiDownload, MultiUpload) extend this *)
(* module with their main loop.                                            *)
(*                                                                         *)
(* A pool thread runs one task at a time:                                  *)
(*                                                                         *)
(*   idle --StartTask--> assigned --RunBegin--> working --DoTask-->        *)
(*        completed --Release--> returning --Return--> idle                *)
(*                                                                         *)
(* The two last windows are what makes the code subtle: a task is marked   *)
(* TASK_COMPLETED before it gives its semaphore unit back, and the unit is *)
(* given back before the thread is again available to the pool.  And a     *)
(* task may throw while it is working: its thread goes straight back to    *)
(* the pool, and its slot and its unit are abandoned.                      *)
(***************************************************************************)
EXTENDS Naturals, FiniteSets

CONSTANTS PoolSize,   \* pool_size: task slots, and units of the semaphore
          Threads     \* the threads the pool may create: its maxCapacity

ASSUME PoolSizeAssumption == PoolSize \in Nat \ {0}

\* Poco::ThreadPool(pool_size, pool_size + 1)
ASSUME ThreadsAssumption == IsFiniteSet(Threads) /\ Cardinality(Threads) = PoolSize + 1

Slots == 1 .. PoolSize

NoSlot == 0         \* an idle thread has no task

VARIABLES count,    \* Semaphore::count_
          status,   \* TaskInfo::status of the task in each slot
          success,  \* m_is_task_success of the task in each slot
          wpc,      \* where each pool thread is
          wslot     \* the slot whose task the thread is running

poolVars == <<count, status, success, wpc, wslot>>

TaskStatus == {"IDLE", "RUNNING", "COMPLETED"}

ThreadPlaces == {"idle", "assigned", "working", "completed", "returning"}

PoolTypeOK ==
  /\ count \in 0 .. PoolSize
  /\ status \in [Slots -> TaskStatus]
  /\ success \in [Slots -> BOOLEAN]
  /\ wpc \in [Threads -> ThreadPlaces]
  /\ wslot \in [Threads -> {NoSlot} \cup Slots]
  /\ \A t \in Threads : wpc[t] # "idle" => wslot[t] # NoSlot

PoolInit ==
  /\ count = 0
  /\ status = [s \in Slots |-> "IDLE"]
  /\ success = [s \in Slots |-> FALSE]
  /\ wpc = [t \in Threads |-> "idle"]
  /\ wslot = [t \in Threads |-> NoSlot]

-----------------------------------------------------------------------------
\* Semaphore

\* acquire() never blocks: it takes a unit if one is left and reports whether
\* it did, and its callers ignore the answer.
Acquire == count' = IF count < PoolSize THEN count + 1 ELSE count

\* Mutation: the guard of release() is off by one, so the last unit stays taken.
ReleaseKeepsOne == count' = IF count > 1 THEN count - 1 ELSE count

\* release() refuses to go below zero.
ReleaseUnit == count' = IF count > 0 THEN count - 1 ELSE count

\* wait() blocks while every unit is taken, and takes none itself.
UnitAvailable == count < PoolSize

-----------------------------------------------------------------------------
\* Poco::ThreadPool, as the transfers use it

IdleThreads == {t \in Threads : wpc[t] = "idle"}

\* The threads executing a task: it has been handed to the thread and its
\* work is not over.
Executing == {t \in Threads : wpc[t] \in {"assigned", "working"}}

\* The threads that hold a unit of the semaphore.
HoldingUnit == {t \in Threads : wpc[t] \in {"assigned", "working", "completed"}}

\* joinAll() returns when no thread is busy.
AllJoined == IdleThreads = Threads

\* semaphore.acquire(); ptask->SetTaskRunning(); tp.start(*ptask)
StartTask(s) ==
  /\ Acquire
  /\ status' = [status EXCEPT ![s] = "RUNNING"]
  /\ \E t \in IdleThreads :
       /\ wpc' = [wpc EXCEPT ![t] = "assigned"]
       /\ wslot' = [wslot EXCEPT ![t] = s]
  /\ UNCHANGED success

\* The same three calls when every thread of the pool is taken: start()
\* throws NoThreadAvailableException, and nobody catches it.
StartRefused(s) ==
  /\ IdleThreads = {}
  /\ Acquire
  /\ status' = [status EXCEPT ![s] = "RUNNING"]
  /\ UNCHANGED <<success, wpc, wslot>>

-----------------------------------------------------------------------------
\* run() of a task, on thread t

RunBegin(t) ==
  /\ wpc[t] = "assigned"
  /\ wpc' = [wpc EXCEPT ![t] = "working"]
  /\ success' = [success EXCEPT ![wslot[t]] = FALSE]
  /\ status' = [status EXCEPT ![wslot[t]] = "RUNNING"]
  /\ UNCHANGED <<count, wslot>>

\* The request with all its retries, then the store of TASK_COMPLETED.
DoTask(t, ok) ==
  /\ wpc[t] = "working"
  /\ wpc' = [wpc EXCEPT ![t] = "completed"]
  /\ success' = [success EXCEPT ![wslot[t]] = ok]
  /\ status' = [status EXCEPT ![wslot[t]] = "COMPLETED"]
  /\ UNCHANGED <<count, wslot>>

\* SendRequestOnce() looks the host up before every attempt.  When the name server
\* does not know it, the exception leaves run(), and Poco's thread catches it: the
\* slot stays RUNNING, and nobody gives the unit back.
TaskThrows(t) ==
  /\ wpc[t] = "working"
  /\ wpc' = [wpc EXCEPT ![t] = "returning"]
  /\ UNCHANGED <<count, status, success, wslot>>

Release(t) ==
  /\ wpc[t] = "completed"
  /\ wpc' = [wpc EXCEPT ![t] = "returning"]
  /\ ReleaseUnit
  /\ UNCHANGED <<status, success, wslot>>

Return(t) ==
  /\ wpc[t] = "returning"
  /\ wpc' = [wpc EXCEPT ![t] = "idle"]
  /\ wslot' = [wslot EXCEPT ![t] = NoSlot]
  /\ UNCHANGED <<count, status, success>>

\* ResetTaskStatus(), by the main thread once it has used the result.
ResetTask(s) ==
  /\ status' = [status EXCEPT ![s] = "IDLE"]
  /\ UNCHANGED <<count, success, wpc, wslot>>

-----------------------------------------------------------------------------
\* A slot is RUNNING exactly while one thread executes its task, so the main
\* thread never refills or reads the buffer of a slot a worker still uses, and
\* two workers never share one.
SlotExclusive ==
  /\ \A t \in Executing : status[wslot[t]] = "RUNNING"
  /\ \A t, u \in Executing : wslot[t] = wslot[u] => t = u

\* The slots that stay RUNNING although no thread is at work on them.
Abandoned == {s \in Slots : status[s] = "RUNNING" /\ \A t \in Executing : wslot[t] # s}

\* The semaphore counts the tasks that hold a unit and those that died with it,
\* no more and no fewer: acquire() was granted every time, no unit was returned
\* twice, and none is lost but by a task that threw or was refused a thread.
CountExact == count = Cardinality(HoldingUnit) + Cardinality(Abandoned)

=============================================================================

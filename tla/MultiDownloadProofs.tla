------------------------- MODULE MultiDownloadProofs -------------------------
(***************************************************************************)
(* MultiDownload, for every pool size, every number of slices and every    *)
(* set of pool threads: its inductive invariant, the safety properties it  *)
(* implies, and its refinement of SliceTransfer.                           *)
(***************************************************************************)
EXTENDS MultiDownload, TaskPoolProofs

\* Steps of the main thread that change none of the pool's variables, no
\* buffer and no place of the file.
QuietStep ==
  \/ BeginFails \/ LoopExit \/ LoopCancelled \/ LoopEnter
  \/ FillDone \/ FillSkip \/ Wait
  \/ ProcessSkip \/ ProcessFails \/ ProcessAgain \/ ProcessStops \/ SweepDone
  \/ JoinAll \/ Finish \/ Cancel \/ Ended \/ WaitsForEver

\* Every step is quiet, one of the four that move data, or a worker's.
LEMMA StepKinds ==
  ASSUME Next
  PROVE  \/ QuietStep
         \/ Begin \/ FillStart \/ FillThrows \/ ProcessWrite
         \/ \E t \in Threads : WorkerStep(t)
  BY DEF Next, MainStep, QuietStep

\* The invariant holds initially.
LEMMA InitIInv == Init => IInv
<1>. SUFFICES ASSUME Init PROVE IInv
  OBVIOUS
<1>1. PoolTypeOK /\ SlotExclusive
  BY PoolInitSafe DEF Init
<1>2. TypeOK
  <2>1. file \in [Slices -> 0 .. NumSlices + 1]
    BY NumSlicesAssumption DEF Init, Untouched, Hole, Leftover
  <2>2. failed \in BOOLEAN /\ cancel \in BOOLEAN
    BY DEF Init
  <2>. QED
    BY <1>1, <2>1, <2>2, PoolSizeAssumption, NumSlicesAssumption
    DEF Init, TypeOK, MainPlaces, Hole
<1>3. InFlight = {}
  BY DEF InFlight, Init, PoolInit
<1>4. SemaphoreExact
  <2>1. HoldingUnit = {} /\ Abandoned = {}
    BY DEF HoldingUnit, Abandoned, Init, PoolInit
  <2>. QED  BY <2>1, FS_EmptySet DEF SemaphoreExact, CountExact, Init, PoolInit
<1>5. InFlightOnce /\ BuffersFilled
  BY DEF InFlightOnce, BuffersFilled, Init, PoolInit
<1>6. InFlightMissing /\ Accounted
  BY <1>3, NumSlicesAssumption
  DEF InFlightMissing, Accounted, Init, Untouched, Hole, Leftover, Slices
<1>7. FileIntact /\ CompletedMeansWhole
  BY DEF FileIntact, CompletedMeansWhole, Init
<1>8. PlacesOK
  BY <1>3 DEF PlacesOK, Init, AllJoined, IdleThreads, PoolInit
<1>. QED  BY <1>1, <1>2, <1>4, <1>5, <1>6, <1>7, <1>8 DEF IInv

-----------------------------------------------------------------------------
(* Quiet steps                                                             *)

\* They move the main thread's own variables within their types.
LEMMA QuietTyped ==
  ASSUME TypeOK, QuietStep
  PROVE  TypeOK' /\ UNCHANGED <<poolVars, offset, vecOffset, buf, file>>
<1>. USE PoolSizeAssumption DEF TypeOK, MainPlaces
<1>1. UNCHANGED <<poolVars, offset, vecOffset, buf, file>>
  BY DEF QuietStep, BeginFails, LoopExit, LoopCancelled, LoopEnter, FillDone,
       FillSkip, Wait, ProcessSkip, ProcessFails, ProcessAgain, ProcessStops, SweepDone, JoinAll, Finish,
       Cancel, Ended, WaitsForEver, vars, mainVars
<1>2. PoolTypeOK'
  BY <1>1 DEF PoolTypeOK, poolVars
<1>3. mpc' \in MainPlaces
  BY DEF QuietStep, BeginFails, LoopExit, LoopCancelled, LoopEnter, FillDone,
       FillSkip, Wait, ProcessSkip, ProcessFails, ProcessAgain, ProcessStops, SweepDone,
       JoinAll, Finish, Cancel, Ended, WaitsForEver, vars, mainVars
<1>4. i' \in 1 .. PoolSize + 1
  BY DEF QuietStep, BeginFails, LoopExit, LoopCancelled, LoopEnter, FillDone,
       FillSkip, FillGoesOn, Wait, ProcessSkip, ProcessGoesOn, ProcessFails,
       ProcessAgain, ProcessStops, SweepDone, JoinAll, Finish, Cancel, Ended, WaitsForEver, vars, mainVars
<1>5. failed' \in BOOLEAN
  BY DEF QuietStep, BeginFails, LoopExit, LoopCancelled, LoopEnter, FillDone,
       FillSkip, Wait, ProcessSkip, ProcessFails, ProcessAgain, ProcessStops, SweepDone,
       JoinAll, Finish, Cancel, Ended, WaitsForEver, vars, mainVars
<1>6. cancel' \in BOOLEAN
  BY DEF QuietStep, BeginFails, LoopExit, LoopCancelled, LoopEnter, FillDone,
       FillSkip, Wait, ProcessSkip, ProcessFails, ProcessAgain, ProcessStops, SweepDone,
       JoinAll, Finish, Cancel, Ended, WaitsForEver, vars, mainVars
<1>7. outcome' \in {"none", "COMPLETED", "FAILED"}
  BY DEF QuietStep, BeginFails, LoopExit, LoopCancelled, LoopEnter, FillDone,
       FillSkip, Wait, ProcessSkip, ProcessFails, ProcessAgain, ProcessStops, SweepDone,
       JoinAll, Finish, Cancel, Ended, WaitsForEver, vars, mainVars
<1>. QED  BY <1>1, <1>2, <1>3, <1>4, <1>5, <1>6, <1>7

\* When every thread is idle and every unit is back, no slot is RUNNING.
LEMMA JoinedNotRunning ==
  ASSUME SemaphoreExact, count = 0, AllJoined, NEW s \in Slots
  PROVE  status[s] # "RUNNING"
<1>. USE HoldingUnitFinite, AbandonedFinite, FS_CardinalityType
<1>1. Cardinality(Abandoned) = 0
  BY DEF SemaphoreExact, CountExact
<1>2. Abandoned = {}
  BY <1>1, FS_EmptySet
<1>3. Executing = {}
  BY DEF AllJoined, IdleThreads, Executing
<1>. QED  BY <1>2, <1>3 DEF Abandoned

\* They keep track of where the main thread is.
LEMMA QuietPlaces ==
  ASSUME IInv, QuietStep
  PROVE  PlacesOK' /\ (mpc' = "thrown" <=> mpc = "thrown")
<1>. USE DEF IInv, PlacesOK
<1>1. /\ InFlight' = InFlight
      /\ AllJoined' <=> AllJoined
  BY QuietTyped DEF InFlight, poolVars, AllJoined, IdleThreads
<1>2. /\ status' = status /\ offset' = offset /\ count' = count
      /\ count \in 0 .. PoolSize /\ offset \in 0 .. NumSlices /\ i \in 1 .. PoolSize + 1
      /\ status \in [Slots -> TaskStatus]
  BY QuietTyped DEF poolVars, TypeOK, PoolTypeOK
<1>. USE <1>1, <1>2, NumSlicesAssumption, PoolSizeAssumption
<1>3. CASE BeginFails
  BY <1>3 DEF BeginFails
<1>4. CASE LoopExit \/ LoopCancelled \/ LoopEnter
  BY <1>4 DEF LoopExit, LoopCancelled, LoopEnter, LoopGoesOn
<1>5. CASE FillDone \/ FillSkip \/ Wait
  BY <1>5 DEF FillDone, FillSkip, Wait
<1>6. CASE ProcessSkip
  <2>1. mpc = "sweep" /\ ~failed => status[i] = "IDLE"
    BY <1>6, JoinedNotRunning DEF ProcessSkip, ProcessGoesOn, TaskStatus, Slots
  <2>. QED  BY <1>6, <2>1 DEF ProcessSkip, Processing, Slots
<1>7. CASE ProcessFails
  BY <1>7 DEF ProcessFails, Processing
<1>8. CASE ProcessAgain \/ ProcessStops \/ SweepDone
  BY <1>8 DEF ProcessAgain, ProcessStops, SweepDone, ProcessGoesOn, Slots, InFlight
<1>9. CASE JoinAll
  BY <1>9 DEF JoinAll, Slots
<1>10. CASE Finish \/ Cancel \/ Ended \/ WaitsForEver
  BY <1>10 DEF Finish, Cancel, Ended, WaitsForEver, vars, mainVars
<1>. QED  BY <1>3, <1>4, <1>5, <1>6, <1>7, <1>8, <1>9, <1>10 DEF QuietStep

\* They preserve the invariant.
LEMMA QuietIInv ==
  ASSUME IInv, QuietStep
  PROVE  IInv'
<1>1. TypeOK' /\ PlacesOK' /\ (mpc' = "thrown" <=> mpc = "thrown")
  BY QuietTyped, QuietPlaces DEF IInv
<1>2. UNCHANGED <<poolVars, offset, vecOffset, buf, file>>
  BY QuietTyped DEF IInv
<1>3. SlotExclusive' /\ SemaphoreExact'
  BY <1>2, PoolSameCounts DEF IInv, poolVars, SlotExclusive, Executing, SemaphoreExact
<1>4. InFlightOnce' /\ BuffersFilled' /\ InFlightMissing' /\ Accounted'
  BY <1>1, <1>2 DEF IInv, poolVars, InFlightOnce, BuffersFilled, InFlightMissing,
       Accounted, InFlight
<1>5. FileIntact' /\ CompletedMeansWhole'
  <2>1. CASE Finish
    <3>1. file # Untouched \/ \A k \in Slices : file[k] \in {k, Hole}
      BY <2>1 DEF IInv, FileIntact, Finish
    <3>2. \A k \in Slices : file[k] \in {k, Hole}
      BY <2>1, <3>1 DEF IInv, FileIntact, Finish
    <3>3. outcome' = "COMPLETED" => \A k \in Slices : file[k] = k
      BY <2>1, NumSlicesAssumption DEF IInv, Finish, PlacesOK, Accounted, Slices
    <3>. QED  BY <1>2, <3>2, <3>3 DEF FileIntact, CompletedMeansWhole
  <2>2. CASE BeginFails
    BY <1>2, <2>2 DEF IInv, FileIntact, CompletedMeansWhole, BeginFails
  <2>3. CASE ~Finish /\ ~BeginFails
    <3>1. outcome' = outcome /\ (mpc \in {"begin", "done"} => mpc' = mpc)
      BY <2>3 DEF QuietStep, LoopExit, LoopCancelled, LoopEnter, FillDone,
           FillSkip, Wait, ProcessSkip, ProcessFails, ProcessAgain, ProcessStops, SweepDone, Processing, JoinAll,
           Cancel, Ended, WaitsForEver, vars, mainVars
    <3>. QED  BY <1>2, <3>1 DEF IInv, FileIntact, CompletedMeansWhole
  <2>. QED  BY <2>1, <2>2, <2>3
<1>. QED  BY <1>1, <1>3, <1>4, <1>5 DEF IInv

-----------------------------------------------------------------------------
(* The steps of the main thread that move data                             *)

\* Opening the file with O_TRUNC.
LEMMA BeginIInv ==
  ASSUME IInv, Begin
  PROVE  IInv'
<1>. USE DEF IInv, Begin
<1>1. UNCHANGED <<count, status, success, wpc, wslot, offset, vecOffset, buf>>
  BY DEF poolVars
<1>2. PoolTypeOK' /\ SlotExclusive' /\ SemaphoreExact'
  BY <1>1, PoolSameCounts DEF TypeOK, PoolTypeOK, SlotExclusive, Executing, SemaphoreExact
<1>3. file' \in [Slices -> 0 .. NumSlices + 1]
  BY NumSlicesAssumption DEF Hole
<1>4. TypeOK'
  BY <1>1, <1>2, <1>3 DEF TypeOK, MainPlaces
<1>5. InFlight = {} /\ InFlight' = {} /\ offset' = 0
  BY <1>1 DEF PlacesOK, InFlight
<1>6. InFlightOnce' /\ BuffersFilled' /\ InFlightMissing'
  BY <1>1, <1>5 DEF InFlightOnce, BuffersFilled, InFlightMissing
<1>7. Accounted'
  BY <1>5, NumSlicesAssumption DEF Accounted, Slices, Hole
<1>8. FileIntact' /\ CompletedMeansWhole'
  BY DEF FileIntact, CompletedMeansWhole, PlacesOK
<1>9. PlacesOK'
  BY DEF PlacesOK
<1>. QED  BY <1>2, <1>4, <1>6, <1>7, <1>8, <1>9

\* Giving the next slice to an IDLE slot, whether or not start() has a thread.
LEMMA FillIInv ==
  ASSUME IInv, FillStart \/ FillThrows
  PROVE  IInv'
<1>. USE DEF IInv
<1>1. /\ mpc = "fill" /\ i \in Slots /\ offset \in Slices /\ status[i] = "IDLE"
      /\ count < PoolSize
      /\ vecOffset' = [vecOffset EXCEPT ![i] = offset]
      /\ UNCHANGED <<buf, file, failed, cancel, outcome>>
  BY NumSlicesAssumption, PoolSizeAssumption
  DEF FillStart, FillThrows, FillGoesOn, TypeOK, Slots, Slices
<1>2. PoolTypeOK' /\ SlotExclusive' /\ status' = [status EXCEPT ![i] = "RUNNING"]
  BY <1>1, StartTaskSafe, StartRefusedSafe
  DEF TypeOK, FillStart, FillThrows, StartTask, StartRefused
<1>3. SemaphoreExact'
  BY <1>1, StartTaskCounts, StartRefusedCounts
  DEF TypeOK, SemaphoreExact, FillStart, FillThrows
<1>5. TypeOK'
  <2>1. ASSUME FillStart
        PROVE  i' \in 1 .. PoolSize + 1 /\ offset' \in 0 .. NumSlices /\ mpc' \in MainPlaces
    <3>1. i' = i + 1 /\ mpc' = "fill" /\ offset' = offset + 1
      BY <1>1, <2>1 DEF FillStart
    <3>. QED
      BY <1>1, <3>1, NumSlicesAssumption, PoolSizeAssumption DEF Slots, Slices, MainPlaces
  <2>4. ASSUME FillThrows
        PROVE  i' \in 1 .. PoolSize + 1 /\ offset' \in 0 .. NumSlices /\ mpc' \in MainPlaces
    BY <2>4 DEF FillThrows, TypeOK, MainPlaces
  <2>2. vecOffset' \in [Slots -> 0 .. NumSlices]
    BY <1>1, NumSlicesAssumption DEF TypeOK, Slices
  <2>3. i' \in 1 .. PoolSize + 1 /\ offset' \in 0 .. NumSlices /\ mpc' \in MainPlaces
    BY <2>1, <2>4
  <2>. QED  BY <1>1, <1>2, <2>2, <2>3 DEF TypeOK
<1>6. /\ InFlight' = InFlight \cup {i} /\ i \notin InFlight
      /\ \A s \in InFlight : s # i /\ vecOffset'[s] = vecOffset[s]
      /\ vecOffset'[i] = offset
  BY <1>1, <1>2 DEF InFlight, TypeOK, PoolTypeOK
<1>7. file[offset] = Hole /\ \A s \in InFlight : vecOffset[s] # offset
  BY <1>1, NumSlicesAssumption
  DEF Accounted, FileIntact, Slices, Hole, PlacesOK
<1>8. InFlightOnce'
  BY <1>6, <1>7 DEF InFlightOnce, InFlight
<1>9. BuffersFilled'
  BY <1>1, <1>2, <1>6 DEF BuffersFilled, TypeOK, PoolTypeOK, FillStart, FillThrows,
       StartTask, StartRefused
<1>10. InFlightMissing'
  BY <1>1, <1>6, <1>7 DEF InFlightMissing
<1>11. Accounted'
  <2>1. CASE FillThrows
    BY <2>1 DEF FillThrows, Accounted
  <2>2. CASE FillStart
    <3>1. offset' = offset + 1 /\ mpc' = "fill"
      BY <2>2 DEF FillStart
    <3>. QED
      BY <1>1, <1>6, <3>1, NumSlicesAssumption DEF Accounted, Slices
  <2>. QED  BY <2>1, <2>2
<1>12. FileIntact' /\ CompletedMeansWhole' /\ PlacesOK'
  BY <1>1 DEF FileIntact, CompletedMeansWhole, PlacesOK, FillStart, FillThrows
<1>. QED  BY <1>2, <1>3, <1>5, <1>8, <1>9, <1>10, <1>11, <1>12

\* Writing a finished slice to the file and freeing its slot.
LEMMA WriteIInv ==
  ASSUME IInv, ProcessWrite
  PROVE  /\ IInv'
         /\ vecOffset[i] \in Slices
         /\ file[vecOffset[i]] = Hole
         /\ file' = [file EXCEPT ![vecOffset[i]] = vecOffset[i]]
<1>. DEFINE k == vecOffset[i]
<1>. USE DEF IInv
<1>1. /\ i \in Slots /\ status[i] = "COMPLETED" /\ success[i]
      /\ mpc \in {"process", "sweep"} /\ mpc' = mpc /\ ~failed
      /\ UNCHANGED <<offset, vecOffset, buf, failed, cancel, outcome>>
      /\ i' = i + 1
  BY PoolSizeAssumption DEF ProcessWrite, ProcessGoesOn, Processing, TypeOK, Slots
<1>2. k \in Slices /\ file[k] = Hole /\ buf[i] = k
  BY <1>1 DEF InFlightMissing, InFlight, BuffersFilled
<1>3. file' = [file EXCEPT ![k] = k]
  BY <1>2 DEF ProcessWrite
<1>4. /\ PoolTypeOK' /\ SlotExclusive'
      /\ status' = [status EXCEPT ![i] = "IDLE"]
      /\ UNCHANGED <<count, success, wpc, wslot>>
  BY <1>1, ResetTaskSafe DEF ProcessWrite, ResetTask, TypeOK
<1>5. SemaphoreExact'
  BY <1>1, ResetTaskCounts DEF SemaphoreExact, ProcessWrite, TypeOK
<1>6. TypeOK'
  <2>1. file' \in [Slices -> 0 .. NumSlices + 1]
    BY <1>2, <1>3, NumSlicesAssumption DEF TypeOK, Slices
  <2>2. i' \in 1 .. PoolSize + 1 /\ mpc' \in MainPlaces
    BY <1>1, PoolSizeAssumption DEF TypeOK, Slots
  <2>. QED  BY <1>1, <1>4, <2>1, <2>2 DEF TypeOK
<1>7. InFlight' = InFlight \ {i} /\ i \in InFlight
  BY <1>1, <1>4 DEF InFlight, TypeOK, PoolTypeOK
<1>8. \A s \in InFlight' : vecOffset[s] # k
  BY <1>1, <1>7 DEF InFlightOnce, InFlight
<1>9. InFlightOnce'
  BY <1>1, <1>7 DEF InFlightOnce, InFlight
<1>10. BuffersFilled'
  BY <1>1, <1>4 DEF BuffersFilled, TypeOK, PoolTypeOK
<1>11. InFlightMissing'
  BY <1>1, <1>3, <1>7, <1>8 DEF InFlightMissing, TypeOK
<1>12. Accounted'
  <2>. SUFFICES ASSUME NEW j \in Slices
                PROVE  j < offset <=> (file'[j] = j \/ \E s \in InFlight' : vecOffset[s] = j)
    BY <1>1 DEF Accounted
  <2>1. j < offset <=> (file[j] = j \/ \E s \in InFlight : vecOffset[s] = j)
    BY <1>1 DEF Accounted
  <2>2. CASE j = k
    BY <1>2, <1>3, <1>7, <2>1, <2>2 DEF TypeOK
  <2>3. CASE j # k
    BY <1>2, <1>3, <1>7, <2>1, <2>3 DEF TypeOK
  <2>. QED  BY <2>2, <2>3
<1>13. FileIntact'
  BY <1>1, <1>2, <1>3 DEF FileIntact, TypeOK
<1>14. CompletedMeansWhole' /\ PlacesOK'
  BY <1>1, <1>4, <1>7
  DEF CompletedMeansWhole, PlacesOK, AllJoined, IdleThreads, Slots, TypeOK, PoolTypeOK
<1>. QED
  BY <1>1, <1>2, <1>3, <1>4, <1>5, <1>6, <1>9, <1>10, <1>11, <1>12, <1>13, <1>14

-----------------------------------------------------------------------------
(* The workers                                                             *)

\* A worker changes only the pool and the buffer of the slot it executes.
LEMMA WorkerIInv ==
  ASSUME IInv, NEW t \in Threads, WorkerStep(t)
  PROVE  IInv' /\ file' = file /\ outcome' = outcome
<1>. USE DEF IInv
<1>1. /\ UNCHANGED <<mpc, i, offset, vecOffset, file, failed, cancel, outcome>>
      /\ wpc[t] # "idle"
  BY DEF WorkerStep, mainVars, DownSucceeds, DownFails, RunBegin, DoTask, TaskThrows,
       Release, Return
<1>2. PICK ok \in BOOLEAN : \/ RunBegin(t) \/ DoTask(t, ok) \/ TaskThrows(t)
                           \/ Release(t) \/ Return(t)
  BY DEF WorkerStep, DownSucceeds, DownFails
<1>3. PoolTypeOK' /\ SlotExclusive'
  BY <1>2, RunBeginSafe, DoTaskSafe, TaskThrowsSafe, ReleaseSafe, ReturnSafe DEF TypeOK
<1>5. SemaphoreExact'
  BY <1>2, ReleaseCounts, TaskThrowsCounts, OtherStepsCount DEF TypeOK, SemaphoreExact
<1>6. /\ \A s \in Slots : status'[s] = "IDLE" <=> status[s] = "IDLE"
      /\ status' \in [Slots -> TaskStatus]
  <2>1. CASE TaskThrows(t) \/ Release(t) \/ Return(t)
    BY <2>1, <1>3 DEF TaskThrows, Release, Return, PoolTypeOK
  <2>2. CASE RunBegin(t) \/ DoTask(t, ok)
    <3>1. t \in Executing /\ wslot[t] \in Slots
      BY <2>2 DEF Executing, RunBegin, DoTask, TypeOK, PoolTypeOK, NoSlot
    <3>2. status[wslot[t]] = "RUNNING"
      BY <3>1 DEF SlotExclusive
    <3>. QED  BY <2>2, <1>3, <3>1, <3>2 DEF RunBegin, DoTask, TypeOK, PoolTypeOK
  <2>. QED  BY <1>2, <2>1, <2>2
<1>7. InFlight' = InFlight
  BY <1>6 DEF InFlight
<1>8. buf' \in [Slots -> 0 .. NumSlices] /\ BuffersFilled'
  <2>1. CASE (TaskThrows(t) \/ Release(t) \/ Return(t)) /\ UNCHANGED mainVars
    BY <2>1 DEF TaskThrows, Release, Return, mainVars, BuffersFilled, TypeOK
  <2>2. CASE RunBegin(t) /\ UNCHANGED mainVars
    BY <2>2 DEF RunBegin, mainVars, BuffersFilled, TypeOK, PoolTypeOK, NoSlot
  <2>3. CASE DownFails(t)
    BY <2>3 DEF DownFails, DoTask, mainVars, BuffersFilled, TypeOK, PoolTypeOK, NoSlot
  <2>4. CASE DownSucceeds(t)
    <3>1. wslot[t] \in Slots
      BY <2>4 DEF DownSucceeds, DoTask, TypeOK, PoolTypeOK, NoSlot
    <3>2. buf' = [buf EXCEPT ![wslot[t]] = vecOffset[wslot[t]]]
      BY <2>4 DEF DownSucceeds
    <3>3. /\ status' = [status EXCEPT ![wslot[t]] = "COMPLETED"]
          /\ \A s \in Slots : s # wslot[t] => success'[s] = success[s]
      BY <2>4, <3>1 DEF DownSucceeds, DoTask, TypeOK, PoolTypeOK
    <3>. QED  BY <1>1, <3>1, <3>2, <3>3 DEF BuffersFilled, TypeOK, PoolTypeOK
  <2>. QED  BY <2>1, <2>2, <2>3, <2>4 DEF WorkerStep
<1>9. TypeOK'
  BY <1>1, <1>3, <1>8 DEF TypeOK
<1>10. InFlightOnce' /\ InFlightMissing' /\ Accounted'
  BY <1>1, <1>6, <1>7 DEF InFlightOnce, InFlightMissing, Accounted
<1>11. FileIntact' /\ CompletedMeansWhole'
  BY <1>1 DEF FileIntact, CompletedMeansWhole
<1>12. PlacesOK'
  <2>1. mpc \notin {"begin", "sweep", "finish", "done"}
    BY <1>1 DEF PlacesOK, AllJoined, IdleThreads
  <2>2. count = 0 => count' = 0
    BY <1>2 DEF RunBegin, DoTask, TaskThrows, Release, ReleaseUnit, Return
  <2>. QED  BY <1>1, <2>1, <2>2 DEF PlacesOK
<1>. QED  BY <1>1, <1>3, <1>5, <1>8, <1>9, <1>10, <1>11, <1>12

-----------------------------------------------------------------------------
(* Theorems                                                                *)

\* Every step of the download, whatever thread takes it, keeps the invariant.
LEMMA NextIInv == IInv /\ [Next]_vars => IInv'
<1>. SUFFICES ASSUME IInv, [Next]_vars PROVE IInv'
  OBVIOUS
<1>1. CASE UNCHANGED vars
  BY <1>1, QuietIInv DEF QuietStep, vars, poolVars, mainVars, IInv, TypeOK, PoolTypeOK,
       SlotExclusive, SemaphoreExact, CountExact, HoldingUnit, Abandoned, Executing,
       InFlightOnce, BuffersFilled, InFlightMissing, InFlight, Accounted, FileIntact,
       PlacesOK, AllJoined, IdleThreads, CompletedMeansWhole
<1>2. CASE Next
  BY <1>2, StepKinds, QuietIInv, BeginIInv, FillIInv, WriteIInv, WorkerIInv
<1>. QED  BY <1>1, <1>2

\* The inductive invariant holds in every reachable state.
THEOREM Invariance == Spec => []IInv
  BY InitIInv, NextIInv, PTL DEF Spec

\* Every variable keeps its type.
THEOREM TypeCorrect == Spec => []TypeOK
<1>1. IInv => TypeOK
  BY DEF IInv
<1>. QED  BY <1>1, Invariance, PTL

\* No slot and no buffer is ever used by two threads, or by a thread and the
\* main loop at once.
THEOREM SlotsExclusive == Spec => []SlotExclusive
<1>1. IInv => SlotExclusive
  BY DEF IInv
<1>. QED  BY <1>1, Invariance, PTL

\* The semaphore counts exactly the tasks that hold one of its units and those that
\* died with it: a unit is lost only with a slot that is abandoned.
THEOREM SemaphoreCorrect == Spec => []SemaphoreExact
<1>1. IInv => SemaphoreExact
  BY DEF IInv
<1>. QED  BY <1>1, Invariance, PTL

\* A slice is in flight in at most one slot.
THEOREM NoSliceTwice == Spec => []InFlightOnce
<1>1. IInv => InFlightOnce
  BY DEF IInv
<1>. QED  BY <1>1, Invariance, PTL

\* What the call has written is in its place.
THEOREM FileCorrect == Spec => []DataIntact
<1>1. IInv => DataIntact
  BY DEF IInv, FileIntact, DataIntact
<1>. QED  BY <1>1, Invariance, PTL

\* A download reported COMPLETED is whole.
THEOREM CompletedIsWhole == Spec => []CompletedMeansWhole
<1>1. IInv => CompletedMeansWhole
  BY DEF IInv
<1>. QED  BY <1>1, Invariance, PTL

\* No thread outlives the buffers, tasks and semaphore of a call that returns.
THEOREM NoThreadOutlivesCall == Spec => []NoWorkerAtReturn
<1>1. IInv => NoWorkerAtReturn
  BY DEF IInv, PlacesOK, NoWorkerAtReturn
<1>. QED  BY <1>1, Invariance, PTL

\* The threaded download implements the transfer without threads.
THEOREM Refinement == Spec => ImplementsSliceTransfer
<1>1. Init => Abstract!Init
  BY DEF Init, Abstract!Init, Written
<1>2. IInv /\ [Next]_vars => [Abstract!Next]_(Abstract!vars)
  <2>. SUFFICES ASSUME IInv, [Next]_vars
                PROVE  Abstract!Next \/ (Written' = Written /\ outcome' = outcome)
    BY DEF Abstract!vars
  <2>. USE DEF Abstract!Next, Abstract!Deliver, Abstract!Forsake, Abstract!Complete,
               Abstract!Fail
  <2>1. CASE UNCHANGED vars
    BY <2>1 DEF vars, mainVars, Written
  <2>2. CASE ProcessWrite
    <3>1. /\ vecOffset[i] \in Slices /\ file[vecOffset[i]] = Hole
          /\ file' = [file EXCEPT ![vecOffset[i]] = vecOffset[i]]
      BY <2>2, WriteIInv
    <3>2. vecOffset[i] \notin Written /\ Written' = Written \cup {vecOffset[i]}
      BY <3>1, NumSlicesAssumption DEF Written, Slices, Hole, IInv, TypeOK
    <3>3. outcome = "none" /\ outcome' = outcome
      BY <2>2 DEF ProcessWrite, Processing, IInv, PlacesOK
    <3>. QED  BY <3>1, <3>2, <3>3
  <2>3. CASE Begin
    BY <2>3, NumSlicesAssumption
    DEF Begin, Written, IInv, PlacesOK, Accounted, InFlight, Slices, Hole
  <2>4. CASE FillStart \/ FillThrows
    BY <2>4 DEF FillStart, FillThrows, Written
  <2>5. CASE \E t \in Threads : WorkerStep(t)
    BY <2>5, WorkerIInv DEF Written
  <2>6. CASE BeginFails
    BY <2>6 DEF BeginFails, Written, IInv, PlacesOK
  <2>7. CASE Finish
    <3>1. ~failed => Written = Slices
      BY <2>7, NumSlicesAssumption DEF Finish, IInv, PlacesOK, Accounted, Written, Slices
    <3>. QED  BY <2>7, <3>1 DEF Finish, Written, IInv, PlacesOK
  <2>8. CASE QuietStep /\ ~BeginFails /\ ~Finish
    BY <2>8 DEF QuietStep, LoopExit, LoopCancelled, LoopEnter, FillDone, FillSkip, Wait,
         ProcessSkip, ProcessFails, ProcessAgain, ProcessStops, SweepDone, JoinAll,
         Cancel, Ended, WaitsForEver, vars, mainVars, Written
  <2>. QED  BY <2>1, <2>2, <2>3, <2>4, <2>5, <2>6, <2>7, <2>8, StepKinds
<1>. QED
  BY <1>1, <1>2, Invariance, PTL DEF Spec, ImplementsSliceTransfer, Abstract!Spec

-----------------------------------------------------------------------------
(* What makes the download end, as far as it can be said of steps          *)

\* When the main thread waits and finds no unit, a thread of the pool holds one and
\* has a step to take, or every slot is abandoned.
WaitIsServed ==
  mpc = "wait" /\ ~UnitAvailable => HoldingUnit # {} \/ Abandoned = Slots

\* The steps left to the threads, those of slices that are not handed out included.
Work == 5 * (NumSlices - offset) + ThreadWork

\* A worker's step hands out nothing and moves its thread.
LEMMA WorkerMoves ==
  ASSUME PoolTypeOK, NEW t \in Threads, WorkerStep(t)
  PROVE  offset' = offset /\ wpc' # wpc
<1>1. offset' = offset /\ wpc'[t] # wpc[t]
  BY DEF WorkerStep, mainVars, DownSucceeds, DownFails, RunBegin, DoTask, TaskThrows,
       Release, Return, PoolTypeOK
<1>. QED  BY <1>1

\* Semaphore::wait() is left without a worker to end it only when a task has thrown in
\* every slot, for every window and number of slices, whatever failed before.
THEOREM NobodyWaitsForNothing == Spec => []WaitIsServed
<1>1. IInv => WaitIsServed
  BY UnitComesBack DEF IInv, TypeOK, SemaphoreExact, WaitIsServed
<1>. QED  BY <1>1, Invariance, PTL

\* A download starts and runs its tasks in a bounded number of steps: each start and
\* each step of a worker leaves less to do, and no other step makes more of it. A call
\* that did not end would come to a moment from which on no worker moves.
THEOREM WorkRunsOut ==
  Spec => [][/\ Work \in Nat /\ Work' <= Work
             /\ FillStart \/ (\E t \in Threads : WorkerStep(t)) => Work' < Work]_vars
<1>. DEFINE Less == /\ Work \in Nat /\ Work' <= Work
                    /\ FillStart \/ (\E t \in Threads : WorkerStep(t)) => Work' < Work
<1>1. IInv /\ IInv' /\ [Next]_vars => [Less]_vars
  <2>. SUFFICES ASSUME IInv, IInv', Next
                PROVE  Less
    OBVIOUS
  <2>. USE NumSlicesAssumption, ThreadWorkTyped
  <2>1. /\ PoolTypeOK /\ offset \in 0 .. NumSlices /\ offset' \in 0 .. NumSlices
        /\ ThreadWork \in Nat /\ Work \in Nat
    BY DEF IInv, TypeOK, Work
  <2>2. CASE FillStart
    <3>1. ThreadWork' = ThreadWork + 4 /\ offset' = offset + 1
      <4>1. i \in Slots /\ StartTask(i) /\ offset' = offset + 1
        BY <2>2, PoolSizeAssumption DEF FillStart, FillGoesOn, IInv, TypeOK, Slots
      <4>. QED  BY <4>1, <2>1, StartTaskWork
    <3>. QED  BY <2>1, <3>1 DEF Work
  <2>3. CASE \E t \in Threads : WorkerStep(t)
    <3>1. PICK t \in Threads : WorkerStep(t)
      BY <2>3
    <3>2. offset' = offset
      BY <2>1, <3>1, WorkerMoves
    <3>3. PICK ok \in BOOLEAN : \/ RunBegin(t) \/ DoTask(t, ok) \/ TaskThrows(t)
                               \/ Release(t) \/ Return(t)
      BY <3>1 DEF WorkerStep, DownSucceeds, DownFails
    <3>4. CASE TaskThrows(t)
      <4>1. ThreadWork' = ThreadWork - 2
        BY <2>1, <3>4, TaskThrowsWork
      <4>. QED  BY <2>1, <3>2, <4>1 DEF Work
    <3>5. CASE ~TaskThrows(t)
      <4>1. ThreadWork' = ThreadWork - 1
        BY <2>1, <3>3, <3>5, WorkerWork
      <4>. QED  BY <2>1, <3>2, <4>1 DEF Work
    <3>. QED  BY <3>4, <3>5
  <2>4. CASE QuietStep \/ Begin \/ FillThrows \/ ProcessWrite
    <3>1. wpc' = wpc /\ offset' = offset
      <4>1. QuietStep => wpc' = wpc /\ offset' = offset
        BY QuietTyped DEF IInv, poolVars
      <4>2. Begin \/ FillThrows \/ ProcessWrite => wpc' = wpc /\ offset' = offset
        BY DEF Begin, FillThrows, StartRefused, ProcessWrite, ResetTask, poolVars
      <4>. QED  BY <2>4, <4>1, <4>2
    <3>2. ThreadWork' = ThreadWork
      BY <3>1, IdleWork
    <3>3. ~FillStart
      BY <2>1, <3>1 DEF FillStart
    <3>4. ~\E t \in Threads : WorkerStep(t)
      BY <3>1, <2>1, WorkerMoves
    <3>. QED  BY <2>1, <3>1, <3>2, <3>3, <3>4 DEF Work
  <2>. QED  BY <2>2, <2>3, <2>4, StepKinds
<1>. QED  BY <1>1, InitIInv, NextIInv, PTL DEF Spec

=============================================================================

--------------------------- MODULE TaskPoolProofs ---------------------------
(***************************************************************************)
(* What the steps of the pool preserve, whatever main loop uses it.  Each  *)
(* lemma names the condition the main loop has to meet: a slot is started  *)
(* only when IDLE and reset only when COMPLETED.                           *)
(***************************************************************************)
EXTENDS TaskPool, FiniteSetTheorems, TLAPS

\* The initial state of the pool is well typed and shares no slot.
LEMMA PoolInitSafe ==
  ASSUME PoolInit
  PROVE  PoolTypeOK /\ SlotExclusive
  BY PoolSizeAssumption DEF PoolInit, PoolTypeOK, SlotExclusive, Executing, Slots,
       TaskStatus, ThreadPlaces, NoSlot

\* acquire() keeps the count within the semaphore's bounds.
LEMMA AcquireTyped ==
  ASSUME count \in 0 .. PoolSize, Acquire
  PROVE  count' \in 0 .. PoolSize
  BY PoolSizeAssumption DEF Acquire

\* Starting an IDLE slot gives it to one thread only.
LEMMA StartTaskSafe ==
  ASSUME PoolTypeOK, SlotExclusive, NEW s \in Slots, status[s] = "IDLE", StartTask(s)
  PROVE  PoolTypeOK' /\ SlotExclusive'
<1>. PICK t \in IdleThreads : /\ wpc' = [wpc EXCEPT ![t] = "assigned"]
                              /\ wslot' = [wslot EXCEPT ![t] = s]
  BY DEF StartTask
<1>1. PoolTypeOK'
  BY AcquireTyped DEF StartTask, PoolTypeOK, IdleThreads, TaskStatus, ThreadPlaces, Slots, NoSlot
<1>2. Executing' = Executing \cup {t}
  BY DEF Executing, IdleThreads, PoolTypeOK
<1>3. \A u \in Executing : u # t /\ wslot[u] # s
  BY DEF SlotExclusive, Executing, IdleThreads
<1>4. SlotExclusive'
  BY <1>2, <1>3 DEF SlotExclusive, StartTask, PoolTypeOK, IdleThreads, Executing
<1>. QED  BY <1>1, <1>4

\* A refused start leaves every thread as it was.
LEMMA StartRefusedSafe ==
  ASSUME PoolTypeOK, SlotExclusive, NEW s \in Slots, status[s] = "IDLE", StartRefused(s)
  PROVE  PoolTypeOK' /\ SlotExclusive'
<1>1. PoolTypeOK'
  BY AcquireTyped DEF StartRefused, PoolTypeOK, TaskStatus
<1>2. SlotExclusive'
  BY DEF SlotExclusive, StartRefused, PoolTypeOK, Executing
<1>. QED  BY <1>1, <1>2

\* run() begins on the slot its thread was given.
LEMMA RunBeginSafe ==
  ASSUME PoolTypeOK, SlotExclusive, NEW t \in Threads, RunBegin(t)
  PROVE  PoolTypeOK' /\ SlotExclusive'
<1>1. wslot[t] \in Slots
  BY DEF PoolTypeOK, RunBegin, NoSlot
<1>2. PoolTypeOK'
  BY <1>1 DEF RunBegin, PoolTypeOK, TaskStatus, ThreadPlaces
<1>3. Executing' = Executing
  BY DEF Executing, RunBegin, PoolTypeOK
<1>4. SlotExclusive'
  BY <1>1, <1>3 DEF SlotExclusive, RunBegin, PoolTypeOK
<1>. QED  BY <1>2, <1>4

\* The end of a task takes its thread out of the slot's users.
LEMMA DoTaskSafe ==
  ASSUME PoolTypeOK, SlotExclusive, NEW t \in Threads, NEW ok \in BOOLEAN, DoTask(t, ok)
  PROVE  PoolTypeOK' /\ SlotExclusive'
<1>1. wslot[t] \in Slots /\ t \in Executing
  BY DEF PoolTypeOK, DoTask, NoSlot, Executing
<1>2. PoolTypeOK'
  BY <1>1 DEF DoTask, PoolTypeOK, TaskStatus, ThreadPlaces
<1>3. Executing' = Executing \ {t}
  BY DEF Executing, DoTask, PoolTypeOK
<1>4. SlotExclusive'
  BY <1>1, <1>3 DEF SlotExclusive, DoTask, PoolTypeOK
<1>. QED  BY <1>2, <1>4

\* Giving the unit back touches no slot.
LEMMA ReleaseSafe ==
  ASSUME PoolTypeOK, SlotExclusive, NEW t \in Threads, Release(t)
  PROVE  PoolTypeOK' /\ SlotExclusive'
<1>1. PoolTypeOK'
  BY PoolSizeAssumption DEF Release, ReleaseUnit, PoolTypeOK, ThreadPlaces
<1>2. Executing' = Executing
  BY DEF Executing, Release, PoolTypeOK
<1>3. SlotExclusive'
  BY <1>2 DEF SlotExclusive, Release, PoolTypeOK
<1>. QED  BY <1>1, <1>3

\* Nor does going back to the pool.
LEMMA ReturnSafe ==
  ASSUME PoolTypeOK, SlotExclusive, NEW t \in Threads, Return(t)
  PROVE  PoolTypeOK' /\ SlotExclusive'
<1>1. PoolTypeOK'
  BY DEF Return, PoolTypeOK, ThreadPlaces
<1>2. Executing' = Executing
  BY DEF Executing, Return, PoolTypeOK
<1>3. SlotExclusive'
  BY <1>2 DEF SlotExclusive, Return, PoolTypeOK, Executing
<1>. QED  BY <1>1, <1>3

\* The main thread resets a slot that no thread is executing.
LEMMA ResetTaskSafe ==
  ASSUME PoolTypeOK, SlotExclusive, NEW s \in Slots, status[s] = "COMPLETED", ResetTask(s)
  PROVE  PoolTypeOK' /\ SlotExclusive'
<1>1. PoolTypeOK'
  BY DEF ResetTask, PoolTypeOK, TaskStatus
<1>2. Executing' = Executing
  BY DEF Executing, ResetTask, PoolTypeOK
<1>3. SlotExclusive'
  BY <1>2 DEF SlotExclusive, ResetTask, PoolTypeOK
<1>. QED  BY <1>1, <1>3

-----------------------------------------------------------------------------
(* A task that throws.                                                     *)

\* A task that throws takes its thread out of the slot's users.
LEMMA TaskThrowsSafe ==
  ASSUME PoolTypeOK, SlotExclusive, NEW t \in Threads, TaskThrows(t)
  PROVE  PoolTypeOK' /\ SlotExclusive'
<1>1. PoolTypeOK'
  BY DEF TaskThrows, PoolTypeOK, ThreadPlaces
<1>2. Executing' = Executing \ {t}
  BY DEF Executing, TaskThrows, PoolTypeOK
<1>3. SlotExclusive'
  BY <1>2 DEF SlotExclusive, TaskThrows
<1>. QED  BY <1>1, <1>3

\* And it abandons the slot that was its own.
LEMMA TaskThrowsAbandons ==
  ASSUME PoolTypeOK, SlotExclusive, NEW t \in Threads, TaskThrows(t)
  PROVE  /\ wslot[t] \in Slots /\ t \in Executing
         /\ wslot[t] \notin Abandoned
         /\ Abandoned' = Abandoned \cup {wslot[t]}
<1>1. t \in Executing /\ Executing' = Executing \ {t}
  BY DEF Executing, TaskThrows, PoolTypeOK
<1>2. wslot[t] \in Slots /\ status[wslot[t]] = "RUNNING"
  BY <1>1 DEF SlotExclusive, PoolTypeOK, TaskThrows, NoSlot
<1>3. \A u \in Executing \ {t} : wslot[u] # wslot[t]
  BY <1>1 DEF SlotExclusive
<1>. QED  BY <1>1, <1>2, <1>3 DEF Abandoned, TaskThrows

-----------------------------------------------------------------------------
(* What the other steps do to the abandoned slots.                         *)

\* The slot that is started is not abandoned: the thread is at work on it.
LEMMA StartTaskAbandons ==
  ASSUME PoolTypeOK, NEW s \in Slots, status[s] = "IDLE", StartTask(s)
  PROVE  Abandoned' = Abandoned
<1>. PICK t \in IdleThreads : /\ wpc' = [wpc EXCEPT ![t] = "assigned"]
                              /\ wslot' = [wslot EXCEPT ![t] = s]
  BY DEF StartTask
<1>1. Executing' = Executing \cup {t} /\ t \notin Executing /\ wslot'[t] = s
  BY DEF Executing, IdleThreads, PoolTypeOK
<1>2. \A u \in Executing : wslot'[u] = wslot[u]
  BY <1>1 DEF PoolTypeOK
<1>3. \A r \in Slots \ {s} : status'[r] = status[r]
  BY DEF StartTask, PoolTypeOK
<1>4. s \notin Abandoned /\ s \notin Abandoned'
  BY <1>1 DEF Abandoned
<1>5. \A r \in Slots \ {s} : r \in Abandoned' <=> r \in Abandoned
  BY <1>1, <1>2, <1>3 DEF Abandoned
<1>. QED  BY <1>4, <1>5 DEF Abandoned

\* The slot whose start is refused is abandoned.
LEMMA StartRefusedAbandons ==
  ASSUME PoolTypeOK, SlotExclusive, NEW s \in Slots, status[s] = "IDLE", StartRefused(s)
  PROVE  Abandoned' = Abandoned \cup {s} /\ s \notin Abandoned
<1>1. Executing' = Executing /\ wslot' = wslot
  BY DEF Executing, StartRefused
<1>2. \A u \in Executing : wslot[u] # s
  BY DEF SlotExclusive
<1>. QED  BY <1>1, <1>2 DEF Abandoned, StartRefused, PoolTypeOK

\* No step of a task that completes abandons its slot.
LEMMA WorkerAbandons ==
  ASSUME PoolTypeOK, SlotExclusive, NEW t \in Threads, NEW ok \in BOOLEAN,
         RunBegin(t) \/ DoTask(t, ok) \/ Release(t) \/ Return(t)
  PROVE  Abandoned' = Abandoned
<1>1. CASE RunBegin(t)
  <2>1. Executing' = Executing /\ wslot[t] \in Slots /\ t \in Executing
    BY <1>1 DEF Executing, RunBegin, PoolTypeOK, NoSlot
  <2>2. status[wslot[t]] = "RUNNING"
    BY <2>1 DEF SlotExclusive
  <2>3. status' = status
    BY <1>1, <2>1, <2>2 DEF RunBegin, PoolTypeOK
  <2>. QED  BY <1>1, <2>1, <2>3 DEF Abandoned, RunBegin
<1>2. CASE DoTask(t, ok)
  <2>1. Executing' = Executing \ {t} /\ t \in Executing /\ wslot[t] \in Slots
    BY <1>2 DEF Executing, DoTask, PoolTypeOK, NoSlot
  <2>2. \A u \in Executing \ {t} : wslot[u] # wslot[t]
    BY <2>1 DEF SlotExclusive
  <2>3. wslot[t] \notin Abandoned /\ wslot[t] \notin Abandoned'
    BY <1>2, <2>1 DEF Abandoned, DoTask, PoolTypeOK
  <2>4. \A r \in Slots \ {wslot[t]} : r \in Abandoned' <=> r \in Abandoned
    BY <1>2, <2>1 DEF Abandoned, DoTask, PoolTypeOK
  <2>. QED  BY <2>3, <2>4 DEF Abandoned
<1>3. CASE Release(t)
  <2>1. Executing' = Executing
    BY <1>3 DEF Executing, Release, PoolTypeOK
  <2>. QED  BY <1>3, <2>1 DEF Abandoned, Release
<1>4. CASE Return(t)
  <2>1. Executing' = Executing /\ t \notin Executing
    BY <1>4 DEF Executing, Return, PoolTypeOK
  <2>2. \A u \in Executing : wslot'[u] = wslot[u]
    BY <1>4, <2>1 DEF Return, PoolTypeOK, Executing
  <2>. QED  BY <1>4, <2>1, <2>2 DEF Abandoned, Return
<1>. QED  BY <1>1, <1>2, <1>3, <1>4

\* A slot that is reset was completed, not abandoned.
LEMMA ResetTaskAbandons ==
  ASSUME PoolTypeOK, NEW s \in Slots, status[s] = "COMPLETED", ResetTask(s)
  PROVE  Abandoned' = Abandoned
<1>1. Executing' = Executing /\ wslot' = wslot
  BY DEF Executing, ResetTask
<1>. QED  BY <1>1 DEF Abandoned, ResetTask, PoolTypeOK

\* Nothing else abandons a slot.
LEMMA PoolSameAbandons ==
  ASSUME UNCHANGED poolVars
  PROVE  Abandoned' = Abandoned
  BY DEF Abandoned, Executing, poolVars

-----------------------------------------------------------------------------
(* The semaphore's count.                                                  *)

\* The threads holding a unit, and the abandoned slots, are finitely many.
LEMMA HoldingUnitFinite == IsFiniteSet(HoldingUnit)
  BY ThreadsAssumption, FS_Subset DEF HoldingUnit

LEMMA AbandonedFinite == IsFiniteSet(Abandoned) /\ IsFiniteSet(Slots) /\ Abandoned \subseteq Slots
<1>1. IsFiniteSet(Slots)
  BY PoolSizeAssumption, FS_Interval DEF Slots
<1>. QED  BY <1>1, FS_Subset DEF Abandoned

\* An acquire() that finds a unit is matched by the thread that start() used.
LEMMA StartTaskCounts ==
  ASSUME PoolTypeOK, CountExact, count < PoolSize, NEW s \in Slots, status[s] = "IDLE",
         StartTask(s)
  PROVE  CountExact'
<1>. PICK t \in IdleThreads : wpc' = [wpc EXCEPT ![t] = "assigned"]
  BY DEF StartTask
<1>1. HoldingUnit' = HoldingUnit \cup {t} /\ t \notin HoldingUnit
  BY DEF HoldingUnit, IdleThreads, PoolTypeOK
<1>2. Cardinality(HoldingUnit') = Cardinality(HoldingUnit) + 1
  BY <1>1, HoldingUnitFinite, FS_AddElement
<1>3. Cardinality(Abandoned') = Cardinality(Abandoned)
  BY StartTaskAbandons
<1>4. count' = count + 1
  BY DEF StartTask, Acquire
<1>. QED  BY <1>2, <1>3, <1>4, HoldingUnitFinite, AbandonedFinite, FS_CardinalityType DEF CountExact

\* A start that is refused keeps the unit it took, with the slot it took it for.
LEMMA StartRefusedCounts ==
  ASSUME PoolTypeOK, SlotExclusive, CountExact, count < PoolSize, NEW s \in Slots,
         status[s] = "IDLE", StartRefused(s)
  PROVE  CountExact'
<1>1. HoldingUnit' = HoldingUnit
  BY DEF HoldingUnit, StartRefused
<1>2. Cardinality(Abandoned') = Cardinality(Abandoned) + 1
  BY StartRefusedAbandons, AbandonedFinite, FS_AddElement
<1>3. count' = count + 1
  BY DEF StartRefused, Acquire
<1>. QED  BY <1>1, <1>2, <1>3, HoldingUnitFinite, AbandonedFinite, FS_CardinalityType DEF CountExact

\* release() finds the unit its thread took.
LEMMA ReleaseCounts ==
  ASSUME PoolTypeOK, SlotExclusive, CountExact, NEW t \in Threads, Release(t)
  PROVE  CountExact'
<1>. USE HoldingUnitFinite, AbandonedFinite, FS_CardinalityType
<1>1. HoldingUnit' = HoldingUnit \ {t} /\ t \in HoldingUnit
  BY DEF HoldingUnit, Release, PoolTypeOK
<1>2. Cardinality(HoldingUnit') = Cardinality(HoldingUnit) - 1
  BY <1>1, FS_RemoveElement
<1>3. Cardinality(HoldingUnit) # 0
  BY <1>1, FS_EmptySet
<1>4. Cardinality(Abandoned') = Cardinality(Abandoned)
  BY WorkerAbandons
<1>5. count \in Nat /\ count # 0
  BY <1>3 DEF CountExact, PoolTypeOK
<1>6. count' = count - 1
  BY <1>5 DEF Release, ReleaseUnit
<1>. QED  BY <1>2, <1>4, <1>6 DEF CountExact

\* A task that throws passes its unit from its thread to its slot.
LEMMA TaskThrowsCounts ==
  ASSUME PoolTypeOK, SlotExclusive, CountExact, NEW t \in Threads, TaskThrows(t)
  PROVE  CountExact'
<1>. USE HoldingUnitFinite, AbandonedFinite, FS_CardinalityType
<1>1. HoldingUnit' = HoldingUnit \ {t} /\ t \in HoldingUnit
  BY DEF HoldingUnit, TaskThrows, PoolTypeOK
<1>2. Cardinality(HoldingUnit') = Cardinality(HoldingUnit) - 1
  BY <1>1, FS_RemoveElement
<1>3. Cardinality(Abandoned') = Cardinality(Abandoned) + 1
  BY TaskThrowsAbandons, FS_AddElement
<1>4. count' = count
  BY DEF TaskThrows
<1>. QED  BY <1>2, <1>3, <1>4 DEF CountExact

\* No other step of a thread takes or gives a unit.
LEMMA OtherStepsCount ==
  ASSUME PoolTypeOK, SlotExclusive, CountExact, NEW t \in Threads, NEW ok \in BOOLEAN,
         RunBegin(t) \/ DoTask(t, ok) \/ Return(t)
  PROVE  CountExact'
<1>1. HoldingUnit' = HoldingUnit
  BY DEF HoldingUnit, RunBegin, DoTask, Return, PoolTypeOK
<1>2. Abandoned' = Abandoned
  BY WorkerAbandons
<1>3. count' = count
  BY DEF RunBegin, DoTask, Return
<1>. QED  BY <1>1, <1>2, <1>3 DEF CountExact

\* Nor does the reset of a slot.
LEMMA ResetTaskCounts ==
  ASSUME PoolTypeOK, CountExact, NEW s \in Slots, status[s] = "COMPLETED", ResetTask(s)
  PROVE  CountExact'
<1>1. HoldingUnit' = HoldingUnit
  BY DEF HoldingUnit, ResetTask
<1>2. Abandoned' = Abandoned
  BY ResetTaskAbandons
<1>. QED  BY <1>1, <1>2 DEF CountExact, ResetTask

\* Nor a step that leaves the pool alone.
LEMMA PoolSameCounts ==
  ASSUME CountExact, UNCHANGED poolVars
  PROVE  CountExact'
<1>1. HoldingUnit' = HoldingUnit
  BY DEF HoldingUnit, poolVars
<1>. QED  BY <1>1, PoolSameAbandons DEF CountExact, poolVars

-----------------------------------------------------------------------------
(* The work of the threads runs out.                                       *)

\* The steps that the threads still have before them, whatever becomes of their
\* requests: a thread has four when it is given a task, and one less after each.
Busy == {t \in Threads : wpc[t] # "idle"}
Assigned == {t \in Threads : wpc[t] = "assigned"}
ThreadWork ==
  Cardinality(Busy) + Cardinality(HoldingUnit) + Cardinality(Executing) + Cardinality(Assigned)

\* These sets are finite, so that the steps can be counted.
LEMMA ThreadWorkTyped ==
  /\ IsFiniteSet(Busy) /\ IsFiniteSet(Executing) /\ IsFiniteSet(Assigned)
  /\ ThreadWork \in Nat
<1>1. IsFiniteSet(Busy) /\ IsFiniteSet(Executing) /\ IsFiniteSet(Assigned)
  BY ThreadsAssumption, FS_Subset DEF Busy, Executing, Assigned
<1>. QED  BY <1>1, HoldingUnitFinite, FS_CardinalityType DEF ThreadWork

\* A start adds the four steps of a task.
LEMMA StartTaskWork ==
  ASSUME PoolTypeOK, NEW s \in Slots, StartTask(s)
  PROVE  ThreadWork' = ThreadWork + 4
<1>. PICK t \in IdleThreads : wpc' = [wpc EXCEPT ![t] = "assigned"]
  BY DEF StartTask
<1>1. /\ Busy' = Busy \cup {t} /\ t \notin Busy
      /\ HoldingUnit' = HoldingUnit \cup {t} /\ t \notin HoldingUnit
      /\ Executing' = Executing \cup {t} /\ t \notin Executing
      /\ Assigned' = Assigned \cup {t} /\ t \notin Assigned
  BY DEF Busy, HoldingUnit, Executing, Assigned, IdleThreads, PoolTypeOK
<1>2. /\ Cardinality(Busy') = Cardinality(Busy) + 1
      /\ Cardinality(HoldingUnit') = Cardinality(HoldingUnit) + 1
      /\ Cardinality(Executing') = Cardinality(Executing) + 1
      /\ Cardinality(Assigned') = Cardinality(Assigned) + 1
  BY <1>1, ThreadWorkTyped, HoldingUnitFinite, FS_AddElement
<1>. QED  BY <1>2, ThreadWorkTyped, HoldingUnitFinite, FS_CardinalityType DEF ThreadWork

\* Each step of a thread, whatever its outcome, leaves one less.
LEMMA WorkerWork ==
  ASSUME PoolTypeOK, NEW t \in Threads, NEW ok \in BOOLEAN,
         RunBegin(t) \/ DoTask(t, ok) \/ Release(t) \/ Return(t)
  PROVE  ThreadWork' = ThreadWork - 1
<1>. USE ThreadWorkTyped, HoldingUnitFinite, FS_CardinalityType, FS_RemoveElement
<1>1. CASE RunBegin(t)
  <2>1. /\ Busy' = Busy /\ HoldingUnit' = HoldingUnit /\ Executing' = Executing
        /\ Assigned' = Assigned \ {t} /\ t \in Assigned
    BY <1>1 DEF Busy, HoldingUnit, Executing, Assigned, RunBegin, PoolTypeOK
  <2>2. Cardinality(Assigned') = Cardinality(Assigned) - 1
    BY <2>1
  <2>. QED  BY <2>1, <2>2 DEF ThreadWork
<1>2. CASE DoTask(t, ok)
  <2>1. /\ Busy' = Busy /\ HoldingUnit' = HoldingUnit /\ Assigned' = Assigned
        /\ Executing' = Executing \ {t} /\ t \in Executing
    BY <1>2 DEF Busy, HoldingUnit, Executing, Assigned, DoTask, PoolTypeOK
  <2>2. Cardinality(Executing') = Cardinality(Executing) - 1
    BY <2>1
  <2>. QED  BY <2>1, <2>2 DEF ThreadWork
<1>3. CASE Release(t)
  <2>1. /\ Busy' = Busy /\ Executing' = Executing /\ Assigned' = Assigned
        /\ HoldingUnit' = HoldingUnit \ {t} /\ t \in HoldingUnit
    BY <1>3 DEF Busy, HoldingUnit, Executing, Assigned, Release, PoolTypeOK
  <2>2. Cardinality(HoldingUnit') = Cardinality(HoldingUnit) - 1
    BY <2>1
  <2>. QED  BY <2>1, <2>2 DEF ThreadWork
<1>4. CASE Return(t)
  <2>1. /\ HoldingUnit' = HoldingUnit /\ Executing' = Executing /\ Assigned' = Assigned
        /\ Busy' = Busy \ {t} /\ t \in Busy
    BY <1>4 DEF Busy, HoldingUnit, Executing, Assigned, Return, PoolTypeOK
  <2>2. Cardinality(Busy') = Cardinality(Busy) - 1
    BY <2>1
  <2>. QED  BY <2>1, <2>2 DEF ThreadWork
<1>. QED  BY <1>1, <1>2, <1>3, <1>4

\* A task that throws skips two of its steps.
LEMMA TaskThrowsWork ==
  ASSUME PoolTypeOK, NEW t \in Threads, TaskThrows(t)
  PROVE  ThreadWork' = ThreadWork - 2
<1>. USE ThreadWorkTyped, HoldingUnitFinite, FS_CardinalityType, FS_RemoveElement
<1>1. /\ Busy' = Busy /\ Assigned' = Assigned
      /\ HoldingUnit' = HoldingUnit \ {t} /\ t \in HoldingUnit
      /\ Executing' = Executing \ {t} /\ t \in Executing
  BY DEF Busy, HoldingUnit, Executing, Assigned, TaskThrows, PoolTypeOK
<1>2. /\ Cardinality(HoldingUnit') = Cardinality(HoldingUnit) - 1
      /\ Cardinality(Executing') = Cardinality(Executing) - 1
  BY <1>1
<1>. QED  BY <1>1, <1>2 DEF ThreadWork

\* What touches no thread leaves their work as it is.
LEMMA IdleWork ==
  ASSUME wpc' = wpc
  PROVE  ThreadWork' = ThreadWork
  BY DEF ThreadWork, Busy, HoldingUnit, Executing, Assigned

\* Whoever finds no unit left has a thread that will give one back, unless every
\* slot is abandoned.
LEMMA UnitComesBack ==
  ASSUME PoolTypeOK, CountExact, ~UnitAvailable
  PROVE  HoldingUnit # {} \/ Abandoned = Slots
<1>. USE AbandonedFinite, FS_CardinalityType
<1>1. count = PoolSize
  BY PoolSizeAssumption DEF PoolTypeOK, UnitAvailable
<1>2. SUFFICES ASSUME HoldingUnit = {}  PROVE Abandoned = Slots
  OBVIOUS
<1>3. Cardinality(Abandoned) = PoolSize
  BY <1>1, <1>2, FS_EmptySet DEF CountExact
<1>4. Cardinality(Slots) = PoolSize
  BY PoolSizeAssumption, FS_Interval DEF Slots
<1>. QED  BY <1>3, <1>4, FS_Subset

=============================================================================

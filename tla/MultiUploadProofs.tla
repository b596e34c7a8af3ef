-------------------------- MODULE MultiUploadProofs --------------------------
(***************************************************************************)
(* MultiUpload, for every pool size, every number of parts, every set of   *)
(* parts to resume and every set of pool threads: its inductive invariant, *)
(* the safety properties it implies, that no part is sent twice,           *)
(* and its refinement of SliceTransfer.                                    *)
(***************************************************************************)
EXTENDS MultiUpload, TaskPoolProofs

\* Steps of the main thread, the user and the file's owner that change none of
\* the pool's variables and no part's data.
QuietStep ==
  \/ BeginFails \/ Begin \/ LoopExit \/ LoopCancelled \/ LoopEnter
  \/ FillSkip \/ FillTruncated \/ FillReadError \/ FillDone \/ Wait
  \/ ProcessSkip \/ ProcessFails \/ ProcessAgain \/ ProcessStops \/ SweepDone
  \/ JoinAll \/ Finish \/ Cancel \/ SourceShrinks \/ Ended \/ WaitsForEver

\* Every step is quiet, one of the four that move data, or a worker's.
LEMMA StepKinds ==
  ASSUME Next
  PROVE  \/ QuietStep
         \/ FillResumed \/ FillStart \/ FillThrows \/ ProcessRecord
         \/ \E t \in Threads : WorkerStep(t)
  BY DEF Next, MainStep, QuietStep

\* The invariant holds initially.
LEMMA InitIInv == Init => IInv
<1>. SUFFICES ASSUME Init PROVE IInv
  OBVIOUS
<1>1. PoolTypeOK /\ SlotExclusive
  BY PoolInitSafe DEF Init
<1>2. TypeOK
  <2>1. server \in PartMap /\ etags \in PartMap /\ crcs \in PartMap
    BY DEF Init, PartMap, Contents
  <2>2. failed \in BOOLEAN /\ cancel \in BOOLEAN /\ started \in BOOLEAN
    BY DEF Init
  <2>3. buf \in [Slots -> Contents] /\ respEtag \in [Slots -> Contents]
    BY DEF Init, Contents
  <2>. QED
    BY <1>1, <2>1, <2>2, <2>3, PoolSizeAssumption, NumPartsAssumption
    DEF Init, TypeOK, MainPlaces
<1>3. InFlight = {} /\ Recorded = {}
  BY DEF InFlight, Recorded, Init, PoolInit
<1>4. SemaphoreExact
  <2>1. HoldingUnit = {} /\ Abandoned = {}
    BY DEF HoldingUnit, Abandoned, Init, PoolInit
  <2>. QED  BY <2>1, FS_EmptySet DEF SemaphoreExact, CountExact, Init, PoolInit
<1>5. InFlightSound /\ AnswersSound
  BY <1>3 DEF InFlightSound, AnswersSound, Init, PoolInit
<1>6. Accounted
  BY <1>3, NumPartsAssumption DEF Accounted, Init, Parts, None
<1>7. ServerSound /\ RecordsTrue /\ CompletedMeansWhole
  BY <1>3 DEF ServerSound, RecordsTrue, CompletedMeansWhole, Init
<1>8. PlacesOK
  BY <1>3 DEF PlacesOK, Init, AllJoined, IdleThreads, PoolInit
<1>. QED  BY <1>1, <1>2, <1>4, <1>5, <1>6, <1>7, <1>8 DEF IInv

-----------------------------------------------------------------------------
(* Quiet steps                                                             *)

\* They move the main thread's own variables within their types.
LEMMA QuietTyped ==
  ASSUME TypeOK, QuietStep
  PROVE  /\ TypeOK'
         /\ UNCHANGED <<poolVars, dataVars, exist, shortPart>>
         /\ avail' <= avail
         /\ offset' = offset \/ failed'
         /\ failed => failed'
<1>. USE PoolSizeAssumption, NumPartsAssumption
     DEF TypeOK, MainPlaces, QuietStep, BeginFails, Begin, LoopExit, LoopCancelled,
       LoopEnter, FillSkip, FillGoesOn, FillTruncated, FillReadError, FillDone, Wait,
       ProcessSkip, ProcessGoesOn, ProcessFails, ProcessAgain, ProcessStops, SweepDone,
       JoinAll, Finish, Cancel, SourceShrinks, Ended, WaitsForEver, vars, mainVars
<1>1. UNCHANGED <<poolVars, dataVars, exist, shortPart>>
  OBVIOUS
<1>2. PoolTypeOK'
  BY <1>1 DEF PoolTypeOK, poolVars
<1>3. mpc' \in MainPlaces
  OBVIOUS
<1>4. i' \in 1 .. PoolSize + 1
  OBVIOUS
<1>5. offset' \in 0 .. NumParts
  OBVIOUS
<1>6. avail' \in 0 .. NumParts /\ avail' <= avail
  OBVIOUS
<1>7. failed' \in BOOLEAN
  OBVIOUS
<1>8. cancel' \in BOOLEAN
  OBVIOUS
<1>9. started' \in BOOLEAN
  OBVIOUS
<1>10. outcome' \in {"none", "COMPLETED", "FAILED"}
  OBVIOUS
<1>11. offset' = offset \/ failed'
  OBVIOUS
<1>12. failed => failed'
  OBVIOUS
<1>13. /\ shortPart' \in {None} \cup Parts
       /\ exist' \in SUBSET Parts
       /\ vecPart' \in [Slots -> {None} \cup Parts]
       /\ buf' \in [Slots -> Contents]
       /\ server' \in PartMap
       /\ respEtag' \in [Slots -> Contents]
       /\ etags' \in PartMap
       /\ crcs' \in PartMap
  BY <1>1 DEF dataVars
<1>. QED
  BY <1>1, <1>2, <1>3, <1>4, <1>5, <1>6, <1>7, <1>8, <1>9, <1>10, <1>11, <1>12, <1>13

\* When every thread is idle, a slot that is still RUNNING is abandoned.
LEMMA JoinedAbandoned ==
  ASSUME AllJoined, NEW s \in Slots, status[s] = "RUNNING"
  PROVE  s \in Abandoned
  BY DEF Abandoned, AllJoined, IdleThreads, Executing

\* The parts of the abandoned slots change with the slots only.
LEMMA ForsakenSame ==
  ASSUME Abandoned' = Abandoned, \A s \in Abandoned : vecPart'[s] = vecPart[s]
  PROVE  Forsaken' = Forsaken
  BY DEF Forsaken

\* They keep track of where the main thread is.
LEMMA QuietPlaces ==
  ASSUME IInv, QuietStep
  PROVE  PlacesOK' /\ (mpc' = "thrown" <=> mpc = "thrown")
<1>. USE DEF IInv, PlacesOK
<1>1. /\ InFlight' = InFlight /\ Abandoned' = Abandoned
      /\ Recorded' = Recorded
      /\ AllJoined' <=> AllJoined
  BY QuietTyped, PoolSameAbandons DEF InFlight, Recorded, dataVars, poolVars, AllJoined, IdleThreads
<1>2. /\ status' = status
      /\ offset \in 0 .. NumParts /\ i \in 1 .. PoolSize + 1
      /\ status \in [Slots -> TaskStatus]
  BY QuietTyped DEF poolVars, TypeOK, PoolTypeOK
<1>. USE <1>1, <1>2, NumPartsAssumption, PoolSizeAssumption
<1>3. CASE BeginFails \/ Begin
  BY <1>3 DEF BeginFails, Begin
<1>4. CASE LoopExit \/ LoopCancelled \/ LoopEnter
  BY <1>4 DEF LoopExit, LoopCancelled, LoopEnter, LoopGoesOn
<1>5. CASE FillDone \/ FillSkip \/ Wait
  BY <1>5 DEF FillDone, FillSkip, Wait
<1>6. CASE FillTruncated \/ FillReadError
  BY <1>6 DEF FillTruncated, FillReadError
<1>7. CASE ProcessSkip
  <2>1. mpc = "sweep" => i \notin InFlight \/ i \in Abandoned
    BY <1>7, JoinedAbandoned DEF ProcessSkip, ProcessGoesOn, TaskStatus, Slots, InFlight
  <2>2. \A s \in InFlight : s \in Slots
    BY DEF InFlight
  <2>. QED  BY <1>7, <2>1, <2>2 DEF ProcessSkip, Processing, Slots
<1>8. CASE ProcessFails
  BY <1>8 DEF ProcessFails, Processing
<1>9. CASE ProcessAgain \/ ProcessStops \/ SweepDone
  BY <1>9 DEF ProcessAgain, ProcessStops, SweepDone, ProcessGoesOn, Slots, InFlight
<1>10. CASE JoinAll
  BY <1>10 DEF JoinAll, Slots, InFlight
<1>11. CASE Finish \/ Cancel \/ SourceShrinks \/ Ended \/ WaitsForEver
  BY <1>11 DEF Finish, Cancel, SourceShrinks, Ended, WaitsForEver, vars, mainVars
<1>. QED
  BY <1>3, <1>4, <1>5, <1>6, <1>7, <1>8, <1>9, <1>10, <1>11 DEF QuietStep

\* Once nothing failed and everything read has arrived, every part of the file that
\* is not forsaken is whole in the records and at the server.
LEMMA WholeAtFinish ==
  ASSUME IInv, mpc = "finish", ~failed, NEW p \in Parts \ Forsaken
  PROVE  p \in Recorded /\ etags[p] = p /\ server[p] = p /\ crcs[p] = p
<1>1. offset = NumParts /\ InFlight \subseteq Abandoned
  BY DEF IInv, PlacesOK
<1>2. p \in Recorded
  <2>1. p <= offset
    BY <1>1, NumPartsAssumption DEF Parts
  <2>2. p \in Recorded \/ \E s \in InFlight : vecPart[s] = p
    BY <2>1 DEF IInv, Accounted
  <2>. QED  BY <1>1, <2>2 DEF Forsaken
<1>3. p # shortPart
  BY <1>1, NumPartsAssumption DEF IInv, Accounted, CurPart, None, Parts
<1>. QED  BY <1>2, <1>3 DEF IInv, RecordsTrue

\* They preserve the invariant.
LEMMA QuietIInv ==
  ASSUME IInv, QuietStep
  PROVE  IInv'
<1>1. TypeOK' /\ PlacesOK' /\ (mpc' = "thrown" <=> mpc = "thrown")
  BY QuietTyped, QuietPlaces DEF IInv
<1>2. /\ UNCHANGED <<poolVars, dataVars, exist, shortPart>>
      /\ avail' <= avail
      /\ offset' = offset \/ failed'
      /\ failed => failed'
  BY QuietTyped DEF IInv
<1>3. SlotExclusive' /\ SemaphoreExact' /\ Forsaken' = Forsaken
  BY <1>2, PoolSameCounts, PoolSameAbandons, ForsakenSame
  DEF IInv, poolVars, dataVars, SlotExclusive, Executing, SemaphoreExact
<1>4. InFlightSound' /\ AnswersSound' /\ ServerSound' /\ RecordsTrue'
  BY <1>1, <1>2 DEF IInv, poolVars, dataVars, InFlightSound, AnswersSound, ServerSound,
       RecordsTrue, Recorded, InFlight
<1>5. Accounted'
  <2>1. avail \in Nat /\ avail' \in Nat /\ offset \in Nat
    BY <1>1, NumPartsAssumption DEF IInv, TypeOK
  <2>2. CASE ~failed'
    <3>1. offset' = offset /\ ~failed
      BY <1>2, <2>2
    <3>2. InFlight' = InFlight /\ Recorded' = Recorded /\ vecPart' = vecPart
          /\ CurPart' = CurPart
      BY <1>2, <3>1 DEF InFlight, Recorded, poolVars, dataVars, CurPart
    <3>. QED  BY <1>1, <1>2, <2>1, <3>1, <3>2 DEF IInv, Accounted
  <2>3. CASE failed'
    BY <2>3 DEF Accounted
  <2>. QED  BY <2>2, <2>3
<1>6. CompletedMeansWhole'
  <2>1. CASE Finish
    BY <1>2, <1>3, <2>1, WholeAtFinish DEF Finish, CompletedMeansWhole, dataVars
  <2>2. CASE BeginFails
    BY <2>2 DEF CompletedMeansWhole, BeginFails
  <2>3. CASE ~Finish /\ ~BeginFails
    <3>1. outcome' = outcome
      BY <2>3 DEF QuietStep, Begin, LoopExit, LoopCancelled, LoopEnter, FillSkip,
           FillTruncated, FillReadError, FillDone, Wait, ProcessSkip, ProcessFails,
           ProcessAgain, ProcessStops, SweepDone, JoinAll, Cancel, SourceShrinks,
           Ended, WaitsForEver, vars, mainVars
    <3>. QED  BY <1>2, <1>3, <3>1 DEF IInv, CompletedMeansWhole, dataVars
  <2>. QED  BY <2>1, <2>2, <2>3
<1>. QED  BY <1>1, <1>3, <1>4, <1>5, <1>6 DEF IInv

-----------------------------------------------------------------------------
(* The steps of the main thread that move data                             *)

\* What has just been read into an IDLE slot is the next part, or the first
\* piece of it; it is neither recorded nor in flight.
LEMMA ReadFacts ==
  ASSUME IInv, NEW content \in {CurPart, Short}, ReadPart(content)
  PROVE  /\ mpc = "fill" /\ ~failed /\ i \in Slots /\ count < PoolSize
         /\ status[i] = "IDLE" /\ i \notin InFlight
         /\ offset \in Nat /\ avail \in Nat /\ CurPart \in Parts /\ CurPart # None
         /\ CurPart # Short /\ shortPart = None
         /\ \/ content = CurPart /\ shortPart' = None /\ offset < avail
            \/ content = Short /\ shortPart' = CurPart /\ offset = avail
         /\ CurPart \notin Recorded
         /\ \A s \in InFlight : vecPart[s] # CurPart
         /\ buf' = [buf EXCEPT ![i] = content] /\ buf' \in [Slots -> Contents]
         /\ vecPart' = [vecPart EXCEPT ![i] = CurPart]
         /\ vecPart' \in [Slots -> {None} \cup Parts]
         /\ shortPart' \in {None} \cup Parts
<1>. USE DEF IInv
<1>1. /\ mpc = "fill" /\ ~failed /\ i \in Slots /\ count < PoolSize
      /\ status[i] = "IDLE" /\ i \notin InFlight
  BY DEF ReadPart, FillGoesOn, PlacesOK, TypeOK, Slots, InFlight
<1>2. offset \in Nat /\ avail \in Nat /\ CurPart \in Parts /\ CurPart # None /\ CurPart # Short
  BY NumPartsAssumption DEF ReadPart, FillGoesOn, TypeOK, CurPart, Parts, None, Short
<1>3. /\ shortPart # None => shortPart = CurPart /\ avail <= offset
      /\ \A p \in Parts : (p <= offset \/ p = shortPart)
           <=> (p \in Recorded \/ \E s \in InFlight : vecPart[s] = p)
  BY <1>1 DEF Accounted
<1>4. /\ shortPart = None
      /\ \/ content = CurPart /\ shortPart' = None /\ offset < avail
         \/ content = Short /\ shortPart' = CurPart /\ offset = avail
  BY <1>2, <1>3 DEF ReadPart
<1>5. CurPart \notin Recorded /\ \A s \in InFlight : vecPart[s] # CurPart
  BY <1>2, <1>3, <1>4 DEF CurPart, InFlightSound
<1>6. content \in Contents /\ shortPart' \in {None} \cup Parts
  BY <1>2, <1>4 DEF Contents
<1>7. /\ buf' = [buf EXCEPT ![i] = content] /\ buf' \in [Slots -> Contents]
      /\ vecPart' = [vecPart EXCEPT ![i] = CurPart]
      /\ vecPart' \in [Slots -> {None} \cup Parts]
  BY <1>2, <1>6 DEF ReadPart, TypeOK
<1>. QED  BY <1>1, <1>2, <1>4, <1>5, <1>6, <1>7

\* Moving on past a whole part, but not past a piece.
LEMMA AdvanceFacts ==
  ASSUME IInv, NEW content \in {CurPart, Short}, ReadPart(content), Advance(content)
  PROVE  /\ i' \in 1 .. PoolSize + 1 /\ offset' \in 0 .. NumParts
         /\ offset' \in Nat
         /\ \A p \in Parts : (p <= offset' \/ p = shortPart')
                               <=> (p <= offset \/ p = CurPart)
         /\ shortPart' # None => shortPart' = offset' + 1 /\ avail <= offset'
<1>1. /\ i \in Slots /\ offset \in Nat /\ CurPart \in Parts /\ CurPart # Short
      /\ \/ content = CurPart /\ shortPart' = None
         \/ content = Short /\ shortPart' = CurPart /\ offset = avail
  BY ReadFacts
<1>. QED
  BY <1>1, NumPartsAssumption, PoolSizeAssumption
  DEF Advance, CurPart, Parts, Slots, None

\* Recording a part that was uploaded before the interruption.
LEMMA ResumedIInv ==
  ASSUME IInv, FillResumed
  PROVE  /\ IInv' /\ CurPart \in Parts /\ CurPart \notin Recorded
         /\ Recorded' = Recorded \cup {CurPart}
         /\ CurPart \notin Forsaken /\ Forsaken' = Forsaken
         /\ outcome' = outcome /\ outcome = "none"
<1>. USE DEF IInv
<1>. PICK content \in {CurPart, Short} :
          /\ ReadPart(content)
          /\ CurPart \in exist
          /\ etags' = [etags EXCEPT ![CurPart] = server[CurPart]]
          /\ crcs' = [crcs EXCEPT ![CurPart] = content]
          /\ success' = [success EXCEPT ![i] = TRUE]
          /\ Advance(content)
          /\ UNCHANGED <<count, status, wpc, wslot, mpc, avail, exist, started, server,
                         respEtag, failed, cancel, outcome>>
  BY DEF FillResumed
<1>1. /\ mpc = "fill" /\ ~failed /\ i \in Slots /\ status[i] = "IDLE" /\ i \notin InFlight
      /\ offset \in Nat /\ avail \in Nat /\ CurPart \in Parts /\ CurPart # None
      /\ CurPart # Short /\ shortPart = None
      /\ \/ content = CurPart /\ shortPart' = None /\ offset < avail
         \/ content = Short /\ shortPart' = CurPart /\ offset = avail
      /\ CurPart \notin Recorded
      /\ \A s \in InFlight : vecPart[s] # CurPart
      /\ buf' = [buf EXCEPT ![i] = content] /\ buf' \in [Slots -> Contents]
      /\ vecPart' = [vecPart EXCEPT ![i] = CurPart]
      /\ vecPart' \in [Slots -> {None} \cup Parts] /\ shortPart' \in {None} \cup Parts
  BY ReadFacts
<1>2. /\ i' \in 1 .. PoolSize + 1 /\ offset' \in 0 .. NumParts /\ offset' \in Nat
      /\ \A p \in Parts : (p <= offset' \/ p = shortPart') <=> (p <= offset \/ p = CurPart)
      /\ shortPart' # None => shortPart' = offset' + 1 /\ avail <= offset'
  BY AdvanceFacts
<1>3. server[CurPart] = CurPart
  BY DEF ServerSound
<1>4. etags' \in PartMap /\ crcs' \in PartMap
  BY <1>1, <1>3 DEF TypeOK, PartMap, Contents
<1>5. /\ PoolTypeOK' /\ SlotExclusive' /\ SemaphoreExact'
      /\ Abandoned' = Abandoned
  BY <1>1 DEF TypeOK, PoolTypeOK, SlotExclusive, Executing, SemaphoreExact,
       CountExact, HoldingUnit, Abandoned
<1>6. TypeOK'
  BY <1>1, <1>2, <1>4, <1>5 DEF TypeOK
<1>7. Recorded' = Recorded \cup {CurPart} /\ InFlight' = InFlight
  BY <1>1, <1>3 DEF Recorded, InFlight, TypeOK, PartMap
<1>8. \A s \in InFlight : /\ vecPart'[s] = vecPart[s] /\ buf'[s] = buf[s]
                          /\ vecPart[s] # CurPart /\ etags'[vecPart[s]] = etags[vecPart[s]]
  BY <1>1 DEF InFlightSound, InFlight, TypeOK, PartMap
<1>9. InFlightSound'
  <2>1. \A s \in InFlight : buf[s] = vecPart[s]
    BY <1>1 DEF InFlightSound, None, Parts
  <2>. QED  BY <1>1, <1>7, <1>8, <2>1 DEF InFlightSound
<1>10. AnswersSound'
  BY <1>1, <1>7, <1>8 DEF AnswersSound, InFlight, TypeOK, PoolTypeOK
<1>11. Accounted'
  <2>1. \A p \in Parts : p <= offset <=> (p \in Recorded \/ \E s \in InFlight : vecPart[s] = p)
    BY <1>1 DEF Accounted, Parts, None
  <2>2. \A p \in Parts : (p <= offset' \/ p = shortPart')
          <=> (p \in Recorded' \/ \E s \in InFlight' : vecPart'[s] = p)
    BY <1>2, <1>7, <1>8, <2>1
  <2>. QED  BY <1>1, <1>2, <2>2 DEF Accounted, CurPart
<1>15. CurPart \notin Forsaken /\ Forsaken' = Forsaken
  <2>1. Abandoned \subseteq InFlight
    BY DEF Abandoned, InFlight
  <2>2. CurPart \notin Forsaken
    BY <1>1, <2>1 DEF Forsaken
  <2>. QED  BY <1>5, <1>8, <2>1, <2>2, ForsakenSame
<1>12. ServerSound' /\ CompletedMeansWhole' /\ PlacesOK'
  BY <1>1 DEF ServerSound, PlacesOK, CompletedMeansWhole, AllJoined, IdleThreads
<1>13. RecordsTrue'
  <2>. SUFFICES ASSUME NEW p \in Recorded'
                PROVE  etags'[p] = server[p] /\ (p # shortPart' => server[p] = p /\ crcs'[p] = p)
    BY DEF RecordsTrue
  <2>1. CASE p = CurPart
    BY <1>1, <1>3, <2>1 DEF TypeOK, PartMap
  <2>2. CASE p # CurPart
    <3>1. p \in Recorded /\ p \in Parts /\ p # shortPart
      BY <1>1, <1>7, <2>2 DEF Recorded, Parts, None
    <3>2. etags'[p] = etags[p] /\ crcs'[p] = crcs[p]
      BY <2>2, <3>1 DEF TypeOK, PartMap
    <3>. QED  BY <3>1, <3>2 DEF RecordsTrue
  <2>. QED  BY <2>1, <2>2
<1>. QED
  BY <1>1, <1>5, <1>6, <1>7, <1>9, <1>10, <1>11, <1>12, <1>13, <1>15 DEF PlacesOK

\* Giving the next part to an IDLE slot, whether or not start() has a thread. When it
\* has none, the part is forsaken.
LEMMA FillIInv ==
  ASSUME IInv, FillStart \/ FillThrows
  PROVE  /\ IInv' /\ UNCHANGED <<etags, outcome>>
         /\ \/ Forsaken' = Forsaken
            \/ /\ CurPart \in Parts \ (Recorded \cup Forsaken)
               /\ Forsaken' = Forsaken \cup {CurPart} /\ outcome = "none"
<1>. USE DEF IInv
<1>. PICK content \in {CurPart, Short} :
          /\ ReadPart(content)
          /\ CurPart \notin exist
          /\ \/ StartTask(i) /\ Advance(content) /\ started' = TRUE /\ mpc' = mpc
             \/ /\ StartRefused(i)
                /\ mpc' = "thrown" /\ UNCHANGED <<i, offset, started>>
          /\ UNCHANGED <<avail, exist, server, respEtag, etags, crcs, failed, cancel, outcome>>
  BY DEF FillStart, FillThrows
<1>1. /\ mpc = "fill" /\ ~failed /\ i \in Slots /\ count < PoolSize
      /\ status[i] = "IDLE" /\ i \notin InFlight
      /\ offset \in Nat /\ avail \in Nat /\ CurPart \in Parts /\ CurPart # None
      /\ CurPart # Short /\ shortPart = None
      /\ \/ content = CurPart /\ shortPart' = None /\ offset < avail
         \/ content = Short /\ shortPart' = CurPart /\ offset = avail
      /\ CurPart \notin Recorded
      /\ \A s \in InFlight : vecPart[s] # CurPart
      /\ buf' = [buf EXCEPT ![i] = content] /\ buf' \in [Slots -> Contents]
      /\ vecPart' = [vecPart EXCEPT ![i] = CurPart]
      /\ vecPart' \in [Slots -> {None} \cup Parts] /\ shortPart' \in {None} \cup Parts
  BY ReadFacts
<1>2. PoolTypeOK' /\ SlotExclusive' /\ status' = [status EXCEPT ![i] = "RUNNING"]
  BY <1>1, StartTaskSafe, StartRefusedSafe DEF TypeOK, StartTask, StartRefused
<1>3. SemaphoreExact'
  BY <1>1, StartTaskCounts, StartRefusedCounts DEF TypeOK, SemaphoreExact
<1>4. \/ Forsaken' = Forsaken
      \/ /\ CurPart \in Parts \ (Recorded \cup Forsaken)
         /\ Forsaken' = Forsaken \cup {CurPart} /\ outcome = "none"
  <2>1. Abandoned \subseteq InFlight /\ \A s \in Abandoned : vecPart'[s] = vecPart[s]
    BY <1>1 DEF Abandoned, InFlight
  <2>2. CurPart \notin Recorded \cup Forsaken
    BY <1>1, <2>1 DEF Forsaken
  <2>3. CASE StartTask(i)
    BY <1>1, <2>1, <2>3, StartTaskAbandons, ForsakenSame DEF TypeOK
  <2>4. CASE StartRefused(i)
    <3>1. Abandoned' = Abandoned \cup {i}
      BY <1>1, <2>4, StartRefusedAbandons DEF TypeOK
    <3>2. vecPart'[i] = CurPart
      BY <1>1 DEF TypeOK
    <3>3. Forsaken' = Forsaken \cup {CurPart}
      BY <2>1, <3>1, <3>2 DEF Forsaken
    <3>. QED  BY <1>1, <2>2, <3>3 DEF PlacesOK
  <2>. QED  BY <2>3, <2>4
<1>5. TypeOK'
  <2>1. i' \in 1 .. PoolSize + 1 /\ offset' \in 0 .. NumParts
    BY <1>1, AdvanceFacts DEF TypeOK
  <2>2. mpc' \in MainPlaces /\ started' \in BOOLEAN
    BY <1>1 DEF TypeOK, MainPlaces
  <2>. QED  BY <1>1, <1>2, <2>1, <2>2 DEF TypeOK
<1>6. /\ InFlight' = InFlight \cup {i}
      /\ Recorded' = Recorded
      /\ \A s \in InFlight : s # i /\ vecPart'[s] = vecPart[s] /\ buf'[s] = buf[s]
      /\ vecPart'[i] = CurPart /\ buf'[i] = content
  BY <1>1, <1>2 DEF InFlight, Recorded, TypeOK, PoolTypeOK
<1>7. InFlightSound'
  <2>1. etags[CurPart] = None
    BY <1>1 DEF Recorded
  <2>2. \A s \in InFlight : buf[s] = vecPart[s]
    BY <1>1 DEF InFlightSound, None, Parts
  <2>. QED  BY <1>1, <1>6, <2>1, <2>2 DEF InFlightSound
<1>8. AnswersSound'
  <2>1. \A s \in Slots : status'[s] = "COMPLETED" =>
          s \in InFlight /\ status[s] = "COMPLETED" /\ success'[s] = success[s]
    BY <1>1, <1>2 DEF TypeOK, PoolTypeOK, StartTask, StartRefused, InFlight
  <2>. QED  BY <1>6, <2>1 DEF AnswersSound
<1>9. Accounted'
  <2>1. CASE mpc' = "thrown"
    BY <2>1 DEF Accounted
  <2>2. CASE mpc' # "thrown"
    <3>1. /\ offset' \in Nat
          /\ \A p \in Parts : (p <= offset' \/ p = shortPart') <=> (p <= offset \/ p = CurPart)
          /\ shortPart' # None => shortPart' = offset' + 1 /\ avail <= offset'
      BY <2>2, AdvanceFacts
    <3>2. \A p \in Parts : p <= offset <=> (p \in Recorded \/ \E s \in InFlight : vecPart[s] = p)
      BY <1>1 DEF Accounted, Parts, None
    <3>3. \A p \in Parts : (p <= offset' \/ p = shortPart')
            <=> (p \in Recorded' \/ \E s \in InFlight' : vecPart'[s] = p)
      BY <1>6, <3>1, <3>2
    <3>. QED  BY <1>1, <3>1, <3>3 DEF Accounted, CurPart
  <2>. QED  BY <2>1, <2>2
<1>10. ServerSound' /\ CompletedMeansWhole' /\ PlacesOK'
  BY <1>1 DEF ServerSound, PlacesOK, CompletedMeansWhole
<1>11. RecordsTrue'
  BY <1>1, <1>6 DEF RecordsTrue, Recorded, None, Parts
<1>. QED
  BY <1>2, <1>3, <1>4, <1>5, <1>7, <1>8, <1>9, <1>10, <1>11

\* Recording a part whose task succeeded, and freeing its slot.
LEMMA RecordIInv ==
  ASSUME IInv, ProcessRecord
  PROVE  /\ IInv' /\ vecPart[i] \in Parts /\ vecPart[i] \notin Recorded
         /\ Recorded' = Recorded \cup {vecPart[i]}
         /\ vecPart[i] \notin Forsaken /\ Forsaken' = Forsaken
         /\ outcome' = outcome /\ outcome = "none"
<1>. DEFINE k == vecPart[i]
<1>. USE DEF IInv
<1>1. /\ i \in Slots /\ status[i] = "COMPLETED" /\ success[i]
      /\ mpc \in {"process", "sweep"} /\ mpc' = mpc /\ ~failed
      /\ UNCHANGED <<offset, avail, shortPart, exist, started, vecPart, buf, server, respEtag,
                     failed, cancel, outcome>>
      /\ i' = i + 1
  BY PoolSizeAssumption DEF ProcessRecord, ProcessGoesOn, Processing, TypeOK, Slots
<1>2. /\ i \in InFlight /\ k \in Parts \ exist /\ etags[k] = None /\ k \notin Recorded
      /\ buf[i] = k \/ (buf[i] = Short /\ k = shortPart)
  BY <1>1 DEF InFlight, InFlightSound, Recorded
<1>3. respEtag[i] = buf[i] /\ server[k] = buf[i] /\ respEtag[i] # None
  BY <1>1 DEF ProcessRecord, AnswersSound
<1>4. etags' = [etags EXCEPT ![k] = buf[i]] /\ crcs' = [crcs EXCEPT ![k] = buf[i]]
  BY <1>3 DEF ProcessRecord
<1>5. /\ PoolTypeOK' /\ SlotExclusive'
      /\ status' = [status EXCEPT ![i] = "IDLE"]
      /\ UNCHANGED <<count, success, wpc, wslot>>
  BY <1>1, ResetTaskSafe DEF ProcessRecord, ResetTask, TypeOK
<1>6. SemaphoreExact'
  BY <1>1, ResetTaskCounts DEF SemaphoreExact, ProcessRecord, TypeOK
<1>15. /\ k \notin Forsaken /\ Forsaken' = Forsaken /\ Abandoned' = Abandoned
       /\ i \notin Abandoned
  <2>1. Abandoned' = Abandoned
    BY <1>1, ResetTaskAbandons DEF ProcessRecord, TypeOK
  <2>2. Abandoned \subseteq InFlight \ {i}
    BY <1>1 DEF Abandoned, InFlight
  <2>3. k \notin Forsaken
    BY <1>2, <2>2 DEF Forsaken, InFlightSound
  <2>. QED  BY <1>1, <2>1, <2>2, <2>3, ForsakenSame
<1>7. TypeOK'
  <2>1. etags' \in PartMap /\ crcs' \in PartMap
    BY <1>1, <1>2, <1>4 DEF TypeOK, PartMap
  <2>2. i' \in 1 .. PoolSize + 1 /\ mpc' \in MainPlaces
    BY <1>1, PoolSizeAssumption DEF TypeOK, Slots
  <2>. QED  BY <1>1, <1>5, <2>1, <2>2 DEF TypeOK
<1>8. InFlight' = InFlight \ {i} /\ Recorded' = Recorded \cup {k}
  BY <1>1, <1>2, <1>3, <1>4, <1>5 DEF InFlight, Recorded, TypeOK, PoolTypeOK, PartMap
<1>9. \A s \in InFlight' : vecPart[s] # k /\ etags'[vecPart[s]] = etags[vecPart[s]]
  BY <1>2, <1>4, <1>8 DEF InFlightSound, TypeOK, PartMap
<1>10. InFlightSound'
  BY <1>1, <1>8, <1>9 DEF InFlightSound
<1>11. AnswersSound'
  BY <1>1, <1>5 DEF AnswersSound, TypeOK, PoolTypeOK
<1>12. Accounted'
  <2>. SUFFICES ASSUME NEW p \in Parts
                PROVE  (p <= offset \/ p = shortPart)
                         <=> (p \in Recorded' \/ \E s \in InFlight' : vecPart[s] = p)
    BY <1>1 DEF Accounted, CurPart
  <2>1. (p <= offset \/ p = shortPart)
          <=> (p \in Recorded \/ \E s \in InFlight : vecPart[s] = p)
    BY <1>1 DEF Accounted
  <2>. QED  BY <1>2, <1>8, <2>1
<1>13. ServerSound' /\ CompletedMeansWhole' /\ PlacesOK'
  BY <1>1, <1>2, <1>5, <1>8, <1>15
  DEF ServerSound, CompletedMeansWhole, PlacesOK, AllJoined, IdleThreads, Slots, TypeOK, PoolTypeOK
<1>14. RecordsTrue'
  <2>. SUFFICES ASSUME NEW p \in Recorded'
                PROVE  etags'[p] = server[p] /\ (p # shortPart => server[p] = p /\ crcs'[p] = p)
    BY <1>1 DEF RecordsTrue
  <2>1. CASE p = k
    BY <1>2, <1>3, <1>4, <2>1 DEF TypeOK, PartMap
  <2>2. CASE p # k
    BY <1>4, <1>8, <2>2 DEF RecordsTrue, Recorded, TypeOK, PartMap
  <2>. QED  BY <2>1, <2>2
<1>. QED
  BY <1>1, <1>2, <1>5, <1>6, <1>7, <1>8, <1>10, <1>11, <1>12, <1>13, <1>14, <1>15 DEF PlacesOK

-----------------------------------------------------------------------------
(* The workers                                                             *)

\* The slot a thread executes is in flight, with a part that is not to be
\* resumed and is not recorded yet.
LEMMA ExecutingFacts ==
  ASSUME IInv, NEW t \in Executing
  PROVE  /\ wslot[t] \in Slots /\ wslot[t] \in InFlight /\ status[wslot[t]] = "RUNNING"
         /\ vecPart[wslot[t]] \in Parts \ exist
         /\ vecPart[wslot[t]] \notin Recorded
         /\ buf[wslot[t]] \in Contents
<1>1. t \in Threads /\ wslot[t] \in Slots /\ status[wslot[t]] = "RUNNING"
  BY DEF IInv, TypeOK, PoolTypeOK, Executing, NoSlot, SlotExclusive
<1>. QED  BY <1>1 DEF IInv, InFlight, InFlightSound, Recorded, TypeOK

\* When a task throws, its part is forsaken, and was neither before nor recorded.
LEMMA ThrowForsakes ==
  ASSUME IInv, NEW t \in Threads, TaskThrows(t), vecPart' = vecPart
  PROVE  /\ vecPart[wslot[t]] \in Parts \ (Recorded \cup Forsaken)
         /\ Forsaken' = Forsaken \cup {vecPart[wslot[t]]}
<1>1. /\ wslot[t] \in Slots /\ t \in Executing /\ wslot[t] \notin Abandoned
      /\ Abandoned' = Abandoned \cup {wslot[t]}
  BY TaskThrowsAbandons DEF IInv, TypeOK
<1>2. /\ wslot[t] \in InFlight /\ vecPart[wslot[t]] \in Parts
      /\ vecPart[wslot[t]] \notin Recorded
  BY <1>1, ExecutingFacts
<1>3. Abandoned \subseteq InFlight
  BY DEF Abandoned, InFlight
<1>4. vecPart[wslot[t]] \notin Forsaken
  BY <1>1, <1>2, <1>3 DEF IInv, InFlightSound, Forsaken
<1>. QED  BY <1>1, <1>2, <1>4 DEF Forsaken

\* A worker changes only the pool, and what the server holds and answers for
\* the part of the slot it executes; if its task throws, the part is forsaken.
LEMMA WorkerIInv ==
  ASSUME IInv, NEW t \in Threads, WorkerStep(t)
  PROVE  /\ IInv' /\ Recorded' = Recorded /\ outcome' = outcome
         /\ \/ Forsaken' = Forsaken
            \/ /\ vecPart[wslot[t]] \in Parts \ (Recorded \cup Forsaken)
               /\ Forsaken' = Forsaken \cup {vecPart[wslot[t]]} /\ outcome = "none"
<1>. USE DEF IInv
<1>1. /\ UNCHANGED <<mpc, i, offset, avail, shortPart, exist, started, vecPart, buf, etags,
                     crcs, failed, cancel, outcome>>
      /\ wpc[t] # "idle"
  BY DEF WorkerStep, mainVars, dataVars, UploadSucceeds, UploadFails, RunBegin, DoTask,
       TaskThrows, Release, Return
<1>2. PICK ok \in BOOLEAN : \/ RunBegin(t) \/ DoTask(t, ok) \/ TaskThrows(t)
                           \/ Release(t) \/ Return(t)
  BY DEF WorkerStep, UploadSucceeds, UploadFails
<1>3. PoolTypeOK' /\ SlotExclusive'
  BY <1>2, RunBeginSafe, DoTaskSafe, TaskThrowsSafe, ReleaseSafe, ReturnSafe DEF TypeOK
<1>9. mpc \notin {"begin", "sweep", "finish", "done"} /\ outcome = "none"
  BY <1>1 DEF PlacesOK, AllJoined, IdleThreads, TypeOK
<1>4. \/ Forsaken' = Forsaken
      \/ /\ vecPart[wslot[t]] \in Parts \ (Recorded \cup Forsaken)
         /\ Forsaken' = Forsaken \cup {vecPart[wslot[t]]} /\ outcome = "none"
  <2>1. CASE TaskThrows(t)
    BY <1>1, <1>9, <2>1, ThrowForsakes
  <2>2. CASE ~TaskThrows(t)
    BY <1>1, <1>2, <2>2, WorkerAbandons, ForsakenSame DEF TypeOK
  <2>. QED  BY <2>1, <2>2
<1>5. SemaphoreExact'
  BY <1>2, ReleaseCounts, TaskThrowsCounts, OtherStepsCount DEF TypeOK, SemaphoreExact
<1>6. Recorded' = Recorded
  BY <1>1 DEF Recorded
<1>7. CASE (RunBegin(t) \/ TaskThrows(t) \/ Release(t) \/ Return(t)) /\ UNCHANGED mainVars
  <2>1. UNCHANGED mainVars
    BY <1>7
  <2>2. \A s \in Slots : /\ status'[s] = "IDLE" <=> status[s] = "IDLE"
                         /\ status'[s] = "COMPLETED" =>
                              status[s] = "COMPLETED" /\ success'[s] = success[s]
    <3>1. CASE TaskThrows(t) \/ Release(t) \/ Return(t)
      BY <3>1 DEF TaskThrows, Release, Return
    <3>2. CASE RunBegin(t)
      <4>1. t \in Executing
        BY <3>2 DEF RunBegin, Executing
      <4>. QED  BY <3>2, <4>1, ExecutingFacts DEF RunBegin, TypeOK, PoolTypeOK
    <3>. QED  BY <1>7, <3>1, <3>2
  <2>3. InFlight' = InFlight
    BY <2>2 DEF InFlight
  <2>4. TypeOK' /\ InFlightSound' /\ AnswersSound' /\ ServerSound' /\ RecordsTrue'
    BY <1>3, <2>1, <2>2, <2>3 DEF TypeOK, InFlightSound, AnswersSound, ServerSound,
         RecordsTrue, Recorded, mainVars, dataVars
  <2>5. Accounted' /\ CompletedMeansWhole'
    BY <1>1, <1>9, <2>1, <2>3 DEF Accounted, Recorded, CurPart, CompletedMeansWhole, mainVars, dataVars
  <2>6. PlacesOK'
    BY <1>1, <1>9, <2>3 DEF PlacesOK
  <2>. QED  BY <1>1, <1>3, <1>4, <1>5, <1>6, <2>4, <2>5, <2>6
<1>8. CASE UploadSucceeds(t) \/ UploadFails(t)
  <2>. DEFINE s == wslot[t]
  <2>1. /\ s \in Slots /\ s \in InFlight /\ status[s] = "RUNNING"
        /\ vecPart[s] \in Parts \ exist
        /\ vecPart[s] \notin Recorded /\ buf[s] \in Contents
    <3>1. t \in Executing
      BY <1>8 DEF UploadSucceeds, UploadFails, DoTask, Executing
    <3>. QED  BY <3>1, ExecutingFacts
  <2>2. /\ status' = [status EXCEPT ![s] = "COMPLETED"]
        /\ \A r \in Slots : r # s => success'[r] = success[r]
    BY <1>8, <2>1 DEF UploadSucceeds, UploadFails, DoTask, TypeOK, PoolTypeOK
  <2>3. /\ server' \in PartMap
        /\ \A p \in Parts : p # vecPart[s] => server'[p] = server[p]
    <3>1. server' = server \/ server' = [server EXCEPT ![vecPart[s]] = buf[s]]
      BY <1>8 DEF UploadSucceeds, UploadFails
    <3>. QED  BY <2>1, <3>1 DEF TypeOK, PartMap
  <2>4. /\ respEtag' \in [Slots -> Contents]
        /\ \A r \in Slots : r # s => respEtag'[r] = respEtag[r]
    <3>1. \E e \in Contents : respEtag' = [respEtag EXCEPT ![s] = e]
      BY <1>8, <2>1 DEF UploadSucceeds, UploadFails, Contents
    <3>. QED  BY <2>1, <3>1 DEF TypeOK
  <2>5. InFlight' = InFlight
    BY <2>1, <2>2 DEF InFlight, TypeOK, PoolTypeOK
  <2>6. TypeOK'
    BY <1>1, <1>3, <2>3, <2>4 DEF TypeOK
  <2>7. InFlightSound' /\ Accounted' /\ ServerSound'
    BY <1>1, <1>6, <2>1, <2>3, <2>5 DEF InFlightSound, Accounted, CurPart, ServerSound, TypeOK
  <2>8. RecordsTrue'
    BY <1>1, <1>6, <2>1, <2>3 DEF RecordsTrue, Recorded
  <2>9. AnswersSound'
    <3>. SUFFICES ASSUME NEW r \in Slots, status'[r] = "COMPLETED", success'[r],
                         respEtag'[r] # None
                  PROVE  respEtag'[r] = buf[r] /\ server'[vecPart[r]] = buf[r]
      BY <1>1 DEF AnswersSound
    <3>1. CASE r = s
      <4>1. UploadSucceeds(t)
        BY <1>8, <2>1, <3>1 DEF UploadFails, DoTask, TypeOK, PoolTypeOK
      <4>. QED  BY <2>1, <3>1, <4>1 DEF UploadSucceeds, TypeOK, PartMap
    <3>2. CASE r # s
      <4>1. status[r] = "COMPLETED" /\ r \in InFlight /\ success[r]
        BY <2>1, <2>2, <3>2 DEF TypeOK, PoolTypeOK, InFlight
      <4>2. vecPart[r] # vecPart[s] /\ vecPart[r] \in Parts
        BY <2>1, <3>2, <4>1 DEF InFlightSound
      <4>. QED  BY <2>3, <2>4, <3>2, <4>1, <4>2 DEF AnswersSound
    <3>. QED  BY <3>1, <3>2
  <2>10. CompletedMeansWhole' /\ PlacesOK'
    BY <1>1, <1>9 DEF CompletedMeansWhole, PlacesOK
  <2>. QED
    BY <1>1, <1>3, <1>4, <1>5, <1>6, <2>6, <2>7, <2>8, <2>9, <2>10
<1>. QED  BY <1>7, <1>8 DEF WorkerStep

-----------------------------------------------------------------------------
(* Theorems                                                                *)

\* Every step of the upload, whatever thread takes it, keeps the invariant.
LEMMA NextIInv == IInv /\ [Next]_vars => IInv'
<1>. SUFFICES ASSUME IInv, [Next]_vars PROVE IInv'
  OBVIOUS
<1>1. CASE UNCHANGED vars
  BY <1>1 DEF vars, poolVars, mainVars, dataVars, IInv, TypeOK, PoolTypeOK,
       SlotExclusive, SemaphoreExact, CountExact, HoldingUnit, Executing, Abandoned,
       InFlightSound, InFlight, AnswersSound, Accounted, Recorded, CurPart, ServerSound,
       PlacesOK, AllJoined, IdleThreads, RecordsTrue, CompletedMeansWhole, Forsaken
<1>2. CASE Next
  BY <1>2, StepKinds, QuietIInv, ResumedIInv, FillIInv, RecordIInv, WorkerIInv
<1>. QED  BY <1>1, <1>2

\* The inductive invariant holds in every reachable state.
THEOREM Invariance == Spec => []IInv
  BY InitIInv, NextIInv, PTL DEF Spec

\* Every variable keeps its type.
THEOREM TypeCorrect == Spec => []TypeOK
<1>1. IInv => TypeOK
  BY DEF IInv
<1>. QED  BY <1>1, Invariance, PTL

\* No slot and no buffer is ever used by two threads, or by a thread and the
\* main loop at once.
THEOREM SlotsExclusive == Spec => []SlotExclusive
<1>1. IInv => SlotExclusive
  BY DEF IInv
<1>. QED  BY <1>1, Invariance, PTL

\* The semaphore counts exactly the tasks that hold one of its units and those that
\* died with it, however resumed and sent parts alternate.
THEOREM SemaphoreCorrect == Spec => []SemaphoreExact
<1>1. IInv => SemaphoreExact
  BY DEF IInv
<1>. QED  BY <1>1, Invariance, PTL

\* The etag and the CRC recorded for a part are those of what the server has.
THEOREM RecordsAreTrue == Spec => []RecordsTrue
<1>1. IInv => RecordsTrue
  BY DEF IInv
<1>. QED  BY <1>1, Invariance, PTL

\* An upload that is reported as done is whole, even if the file shrank, but for the
\* parts whose tasks threw.
THEOREM CompletedIsWhole == Spec => []CompletedMeansWhole
<1>1. IInv => CompletedMeansWhole
  BY DEF IInv
<1>. QED  BY <1>1, Invariance, PTL

\* No thread outlives the buffers, tasks and semaphore of a call that returns.
THEOREM NoThreadOutlivesCall == Spec => []NoWorkerAtReturn
<1>1. IInv => NoWorkerAtReturn
  BY DEF IInv, PlacesOK, NoWorkerAtReturn
<1>. QED  BY <1>1, Invariance, PTL

\* No part is sent by two threads, and none that is to be resumed or is recorded.
THEOREM PartsAreSentOnce == Spec => []SentOnce
<1>1. IInv => SentOnce
  <2>. SUFFICES ASSUME IInv, NEW t \in Executing
                PROVE  /\ vecPart[wslot[t]] \notin exist \cup Recorded
                       /\ \A u \in Executing : vecPart[wslot[u]] = vecPart[wslot[t]] => u = t
    BY DEF SentOnce
  <2>1. vecPart[wslot[t]] \notin exist \cup Recorded
    BY ExecutingFacts
  <2>2. ASSUME NEW u \in Executing, vecPart[wslot[u]] = vecPart[wslot[t]]
        PROVE  u = t
    <3>1. wslot[u] \in InFlight /\ wslot[t] \in InFlight
      BY ExecutingFacts
    <3>2. wslot[u] = wslot[t]
      BY <2>2, <3>1 DEF IInv, InFlightSound
    <3>. QED  BY <3>2 DEF IInv, SlotExclusive
  <2>. QED  BY <2>1, <2>2
<1>. QED  BY <1>1, Invariance, PTL

\* A quiet step leaves the records alone, and the result but for the two steps
\* that return.
LEMMA QuietRecords ==
  ASSUME IInv, QuietStep
  PROVE  /\ Recorded' = Recorded /\ Forsaken' = Forsaken
         /\ BeginFails \/ Finish \/ outcome' = outcome
<1>1. Recorded' = Recorded /\ Forsaken' = Forsaken
  BY QuietTyped, PoolSameAbandons, ForsakenSame DEF IInv, dataVars, Recorded
<1>2. BeginFails \/ Finish \/ outcome' = outcome
  BY DEF QuietStep, Begin, LoopExit, LoopCancelled, LoopEnter, FillSkip,
       FillTruncated, FillReadError, FillDone, Wait, ProcessSkip, ProcessFails,
       ProcessAgain, ProcessStops, SweepDone, JoinAll, Cancel, SourceShrinks,
       Ended, WaitsForEver, vars, mainVars
<1>. QED  BY <1>1, <1>2

\* The threaded upload implements the transfer without threads.
THEOREM Refinement == Spec => ImplementsSliceTransfer
<1>1. Init => Abstract!Init
  <2>1. Init => Abandoned = {}
    BY DEF Init, PoolInit, Abandoned
  <2>. QED  BY <2>1 DEF Init, Abstract!Init, Recorded, Forsaken
<1>2. IInv /\ [Next]_vars => [Abstract!Next]_(Abstract!vars)
  <2>. SUFFICES ASSUME IInv, [Next]_vars
                PROVE  \/ Abstract!Next
                       \/ Recorded' = Recorded /\ Forsaken' = Forsaken /\ outcome' = outcome
    BY DEF Abstract!vars
  <2>. USE DEF Abstract!Next, Abstract!Deliver, Abstract!Forsake, Abstract!Complete,
               Abstract!Fail
  <2>1. CASE UNCHANGED vars
    BY <2>1, PoolSameAbandons, ForsakenSame DEF vars, mainVars, dataVars, Recorded
  <2>2. CASE ProcessRecord
    BY <2>2, RecordIInv
  <2>3. CASE FillResumed
    BY <2>3, ResumedIInv
  <2>4. CASE FillStart \/ FillThrows
    <3>1. Recorded' = Recorded /\ outcome' = outcome
      BY <2>4, FillIInv DEF Recorded
    <3>. QED  BY <2>4, <3>1, FillIInv
  <2>5. CASE \E t \in Threads : WorkerStep(t)
    BY <2>5, WorkerIInv
  <2>6. CASE QuietStep
    <3>1. CASE BeginFails
      BY <2>6, <3>1, QuietRecords DEF BeginFails, IInv, PlacesOK
    <3>2. CASE Finish
      <4>1. ~failed => Recorded \cup Forsaken = Parts
        <5>1. Recorded \subseteq Parts
          BY DEF Recorded
        <5>2. Forsaken \subseteq Parts
          <6>1. Abandoned \subseteq InFlight
            BY DEF Abandoned, InFlight
          <6>. QED  BY <6>1 DEF Forsaken, IInv, InFlightSound
        <5>. QED  BY <3>2, <5>1, <5>2, WholeAtFinish DEF Finish
      <4>2. outcome = "none"
        BY <3>2 DEF Finish, IInv, PlacesOK
      <4>. QED  BY <2>6, <3>2, <4>1, <4>2, QuietRecords DEF Finish
    <3>. QED  BY <2>6, <3>1, <3>2, QuietRecords
  <2>. QED  BY <2>1, <2>2, <2>3, <2>4, <2>5, <2>6, StepKinds
<1>. QED
  BY <1>1, <1>2, Invariance, PTL DEF Spec, ImplementsSliceTransfer, Abstract!Spec

-----------------------------------------------------------------------------
(* What makes the upload end, as far as it can be said of steps            *)

\* When the main thread waits and finds no unit, a thread of the pool holds one and
\* has a step to take, or every slot is abandoned.
WaitIsServed ==
  mpc = "wait" /\ ~UnitAvailable => HoldingUnit # {} \/ Abandoned = Slots

\* The steps left to the threads, those of parts that are not read yet included, and
\* of the part the file may be cut in, which is read in two pieces.
Unread == 5 * (NumParts - offset)
Uncut == IF shortPart = None THEN 5 ELSE 0
Work == Unread + Uncut + ThreadWork

\* Reading on leaves less unread.
LEMMA UnreadShrinks ==
  ASSUME NEW m \in 0 .. NumParts, NEW n \in 0 .. NumParts
  PROVE  /\ 5 * (NumParts - m) \in Nat
         /\ n >= m => 5 * (NumParts - n) <= 5 * (NumParts - m)
         /\ n = m + 1 => 5 * (NumParts - n) = 5 * (NumParts - m) - 5
  BY NumPartsAssumption

\* What the sum does when its parts do.
LEMMA SumShrinks ==
  ASSUME NEW u \in Nat, NEW v \in Nat, NEW c \in Nat, NEW d \in Nat, NEW w \in Nat, NEW x
  PROVE  /\ v + d + 5 = u + c /\ (x = w \/ x = w + 4) =>
               v + d + x < u + c + w /\ v + d + x <= u + c + w
         /\ v <= u /\ d <= c /\ x = w => v + d + x <= u + c + w
  OBVIOUS

\* A worker's step reads nothing and moves its thread.
LEMMA WorkerMoves ==
  ASSUME PoolTypeOK, NEW t \in Threads, WorkerStep(t)
  PROVE  offset' = offset /\ shortPart' = shortPart /\ wpc' # wpc
<1>1. offset' = offset /\ shortPart' = shortPart /\ wpc'[t] # wpc[t]
  BY DEF WorkerStep, mainVars, UploadSucceeds, UploadFails, RunBegin, DoTask, TaskThrows,
       Release, Return, PoolTypeOK
<1>. QED  BY <1>1

\* No other step but a start touches a thread, and none goes back in the file.
LEMMA QuietWork ==
  ASSUME TypeOK, QuietStep
  PROVE  ThreadWork' = ThreadWork /\ offset' >= offset /\ shortPart' = shortPart /\ wpc' = wpc
<1>1. wpc' = wpc /\ shortPart' = shortPart
  BY QuietTyped DEF poolVars
<1>2. offset' >= offset
  BY NumPartsAssumption
  DEF TypeOK, QuietStep, BeginFails, Begin, LoopExit, LoopCancelled, LoopEnter, FillSkip,
      FillGoesOn, FillTruncated, FillReadError, FillDone, Wait, ProcessSkip, ProcessFails,
      ProcessAgain, ProcessStops, SweepDone, JoinAll, Finish, Cancel, SourceShrinks, Ended,
      WaitsForEver, vars, mainVars
<1>. QED  BY <1>1, <1>2, IdleWork

\* A part that is read, or the piece that is left of it, is not read again.
LEMMA ReadWork ==
  ASSUME IInv, NEW content \in {CurPart, Short}, ReadPart(content), Advance(content)
  PROVE  Unread' + Uncut' + 5 = Unread + Uncut
<1>1. /\ CurPart # Short /\ CurPart # None /\ shortPart = None
      /\ \/ content = CurPart /\ shortPart' = None
         \/ content = Short /\ shortPart' = CurPart
  BY ReadFacts
<1>2. offset \in 0 .. NumParts /\ offset' \in 0 .. NumParts
  BY AdvanceFacts DEF IInv, TypeOK
<1>3. CASE content = CurPart
  <2>1. offset' = offset + 1 /\ Uncut = 5 /\ Uncut' = 5
    BY <1>1, <1>3 DEF Advance, Uncut
  <2>. QED  BY <1>2, <2>1, UnreadShrinks DEF Unread
<1>4. CASE content = Short
  <2>1. offset' = offset /\ Uncut = 5 /\ Uncut' = 0
    BY <1>1, <1>4 DEF Advance, Uncut
  <2>. QED  BY <1>2, <2>1, UnreadShrinks DEF Unread
<1>. QED  BY <1>3, <1>4

\* Semaphore::wait() is left without a worker to end it only when a task has thrown in
\* every slot: resumed parts, which take no unit, do not make the main thread wait for
\* themselves.
THEOREM NobodyWaitsForNothing == Spec => []WaitIsServed
<1>1. IInv => WaitIsServed
  BY UnitComesBack DEF IInv, TypeOK, SemaphoreExact, WaitIsServed
<1>. QED  BY <1>1, Invariance, PTL

\* An upload reads its parts and runs its tasks in a bounded number of steps: each part
\* read or resumed and each step of a worker leaves less to do, and no other step makes
\* more of it, also if the file is cut. A call that did not end would come to a moment
\* from which on no part is read and no worker moves.
THEOREM WorkRunsOut ==
  Spec => [][/\ Work \in Nat /\ Work' <= Work
             /\ FillStart \/ FillResumed \/ (\E t \in Threads : WorkerStep(t))
                  => Work' < Work]_vars
<1>. DEFINE Less == /\ Work \in Nat /\ Work' <= Work
                    /\ FillStart \/ FillResumed \/ (\E t \in Threads : WorkerStep(t))
                         => Work' < Work
<1>1. IInv /\ IInv' /\ [Next]_vars => [Less]_vars
  <2>. SUFFICES ASSUME IInv, IInv', Next
                PROVE  Less
    OBVIOUS
  <2>1. /\ TypeOK /\ PoolTypeOK /\ offset \in 0 .. NumParts /\ offset' \in 0 .. NumParts
        /\ ThreadWork \in Nat /\ Unread \in Nat /\ Unread' \in Nat /\ Uncut \in Nat /\ Uncut' \in Nat
        /\ Work \in Nat
    <3>1. TypeOK /\ TypeOK'
      BY DEF IInv
    <3>2. offset \in 0 .. NumParts /\ offset' \in 0 .. NumParts /\ PoolTypeOK
      BY <3>1 DEF TypeOK
    <3>3. Unread \in Nat /\ Unread' \in Nat
      BY <3>2, UnreadShrinks DEF Unread
    <3>4. Uncut \in Nat /\ Uncut' \in Nat
      BY DEF Uncut
    <3>. QED  BY <3>1, <3>2, <3>3, <3>4, ThreadWorkTyped DEF Work
  <2>2. CASE FillStart
    <3>1. PICK content \in {CurPart, Short} :
                 ReadPart(content) /\ StartTask(i) /\ Advance(content)
      BY <2>2 DEF FillStart
    <3>2. ThreadWork' = ThreadWork + 4
      BY <2>1, <3>1, ReadFacts, StartTaskWork
    <3>3. Unread' + Uncut' + 5 = Unread + Uncut
      BY <3>1, ReadWork
    <3>4. Work' < Work /\ Work' <= Work
      BY <2>1, <3>2, <3>3, SumShrinks DEF Work
    <3>. QED  BY <2>1, <3>4
  <2>3. CASE FillResumed
    <3>1. PICK content \in {CurPart, Short} :
                 ReadPart(content) /\ Advance(content) /\ wpc' = wpc
      BY <2>3 DEF FillResumed
    <3>2. ThreadWork' = ThreadWork
      BY <3>1, IdleWork
    <3>3. Unread' + Uncut' + 5 = Unread + Uncut
      BY <3>1, ReadWork
    <3>4. Work' < Work /\ Work' <= Work
      BY <2>1, <3>2, <3>3, SumShrinks DEF Work
    <3>. QED  BY <2>1, <3>4
  <2>4. CASE \E t \in Threads : WorkerStep(t)
    <3>1. PICK t \in Threads : WorkerStep(t)
      BY <2>4
    <3>2. Unread' = Unread /\ Uncut' = Uncut
      BY <2>1, <3>1, WorkerMoves DEF Unread, Uncut
    <3>3. PICK ok \in BOOLEAN : \/ RunBegin(t) \/ DoTask(t, ok) \/ TaskThrows(t)
                               \/ Release(t) \/ Return(t)
      BY <3>1 DEF WorkerStep, UploadSucceeds, UploadFails
    <3>4. CASE TaskThrows(t)
      <4>1. ThreadWork' = ThreadWork - 2
        BY <2>1, <3>4, TaskThrowsWork
      <4>. QED  BY <2>1, <3>2, <4>1 DEF Work
    <3>5. CASE ~TaskThrows(t)
      <4>1. ThreadWork' = ThreadWork - 1
        BY <2>1, <3>3, <3>5, WorkerWork
      <4>. QED  BY <2>1, <3>2, <4>1 DEF Work
    <3>. QED  BY <3>4, <3>5
  <2>5. CASE (QuietStep \/ FillThrows \/ ProcessRecord) /\ ~FillStart /\ ~FillResumed
    <3>1. /\ wpc' = wpc /\ offset' >= offset
          /\ shortPart = None \/ shortPart' = shortPart
      <4>1. CASE QuietStep
        BY <2>1, <4>1, QuietWork
      <4>2. CASE ProcessRecord
        BY <2>1, <4>2 DEF ProcessRecord, ResetTask
      <4>3. CASE FillThrows
        <5>1. PICK content \in {CurPart, Short} : ReadPart(content) /\ StartRefused(i)
          BY <4>3 DEF FillThrows
        <5>2. offset' = offset
          BY <4>3 DEF FillThrows
        <5>3. shortPart = None
          BY <5>1, ReadFacts
        <5>. QED  BY <2>1, <5>1, <5>2, <5>3 DEF StartRefused
      <4>. QED  BY <2>5, <4>1, <4>2, <4>3
    <3>2. ThreadWork' = ThreadWork
      BY <3>1, IdleWork
    <3>3. ~\E t \in Threads : WorkerStep(t)
      BY <3>1, <2>1, WorkerMoves
    <3>4. Unread' <= Unread
      BY <2>1, <3>1, UnreadShrinks DEF Unread
    <3>5. Uncut' <= Uncut
      BY <3>1 DEF Uncut
    <3>6. Work' <= Work
      BY <2>1, <3>2, <3>4, <3>5, SumShrinks DEF Work
    <3>. QED  BY <2>1, <2>5, <3>3, <3>6
  <2>. QED  BY <2>2, <2>3, <2>4, <2>5, StepKinds
<1>. QED  BY <1>1, InitIInv, NextIInv, PTL DEF Spec

=============================================================================

----------------------------- MODULE UploadProofs -----------------------------
(***************************************************************************)
(* Uploads, for every length, number of parts, choice of part sizes and of *)
(* clients, number of retries, and any number of faults and upload ids.    *)
(*                                                                         *)
(* ResumableUpload: what a call installs and reports, that a single-       *)
(* threaded upload starts over, and how often uploads are begun anew.  The *)
(* argument: a checkpoint carries the modification time at which its       *)
(* upload began, so every part stored under its upload id is of a version  *)
(* at least as new; when the time is still that of the file, and no edit   *)
(* has hidden itself, the parts are of the version the call reads.         *)
(*                                                                         *)
(* UploadAction: what the attempts of one request send and leave.          *)
(***************************************************************************)
EXTENDS ResumableUpload, UploadAction, TLAPS

Beginning == {"load", "list", "check", "init", "save"}
Transferring == {"transfer", "complete"}

\* The file's version and its modification time go on together, but for edits
\* that are hidden.
FileSound ==
  /\ local <= faults + 1 /\ stamp <= local /\ start <= stamp
  /\ ~hidden => stamp = local
  /\ pc # "idle" /\ ~touched => start = stamp

\* The contents a part cut at a size may have that is of a version from v on.
Since(v, size, p) ==
  {None} \cup (IF p \in Numbers(size) THEN {PartOf(w, size, p) : w \in v .. local} ELSE {})

ServerSound ==
  /\ \A u \in Ids : u >= nextId => u \notin alive /\ server[u] = NoParts
  /\ pc = "save" => id \in Ids /\ id < nextId /\ server[id] = NoParts
  /\ ckpt # NoCheckpoint =>
       ckpt.stamp <= stamp /\ ckpt.id < nextId /\ (pc = "save" => ckpt.id # id)
  /\ ckpt # NoCheckpoint /\ "legacy" \notin modes =>
       /\ \A p \in Parts : server[ckpt.id][p] \in Since(ckpt.stamp, ckpt.psz, p)
       /\ pc \in {"list", "transfer"} /\ ckpt.id = id => ckpt.psz = psz

\* Where a call looks for an upload to resume.
PlacesSound ==
  /\ pc \in Beginning => etags = NoParts /\ crcs = NoParts /\ lost = {}
  /\ pc \in {"load", "check"} => exist = NoParts
  /\ pc = "list" =>
       mode = "checkpoint" /\ ckpt # NoCheckpoint /\ ckpt.stamp = start /\ id = ckpt.id
  /\ pc = "check" => mode = "legacy"
  /\ pc = "complete" =>
       (touched /\ threads = "single") \/ \A p \in Numbers(psz) \ lost : etags[p] # None

\* What it resumes, and what it lists, is then of the file it reads.
PartsSound ==
  Tells =>
    /\ pc \in {"init", "save"} \cup Transferring =>
         \A p \in Parts : exist[p] \in {None, LocalPart(p)}
    /\ pc \in Transferring => \A p \in Parts : etags[p] \in {None, LocalPart(p)}

\* The CRC-64s are of the file in any case, and there is one for every part listed.
CrcsSound ==
  pc \in Transferring => \A p \in Parts :
    /\ etags[p] # None => p \in Numbers(psz)
    /\ ~touched => crcs[p] = IF etags[p] # None THEN LocalPart(p) ELSE None

Installed ==
  /\ pc = "remove" \/ (pc = "idle" /\ outcome = "COMPLETED")
  /\ lost = {} /\ ~touched /\ (checks \/ Tells)
  => Whole(object, local)

IInv ==
  /\ TypeOK
  /\ FileSound
  /\ ServerSound
  /\ PlacesSound
  /\ PartsSound
  /\ CrcsSound
  /\ Installed
  /\ SingleStartsOver

-----------------------------------------------------------------------------
(* Facts about contents                                                    *)

\* The parts of a file have contents.
LEMMA PartTyped ==
  ASSUME NEW v \in Versions, NEW size \in PartSizes, NEW p \in Numbers(size)
  PROVE  PartOf(v, size, p) \in Contents /\ PartOf(v, size, p) # None
<1>1. FileLength \in Nat /\ size \in Nat /\ p \in Nat /\ p >= 1 /\ v \in Nat /\ v >= 1
  BY ResumableUploadAssumption DEF Numbers, Parts, Versions
<1>2. (p - 1) * size \in Nat /\ p * size \in Nat
  <2>1. \A a, b \in Nat : a * b \in Nat
    OBVIOUS
  <2>2. p - 1 \in Nat
    BY <1>1
  <2>. QED  BY <1>1, <2>1, <2>2
<1>3. (p - 1) * size < FileLength
  BY DEF Numbers
<1>4. (p - 1) * size \in 0 .. FileLength
  BY <1>1, <1>2, <1>3
<1>5. (IF p * size < FileLength THEN p * size ELSE FileLength) \in 0 .. FileLength
  BY <1>1, <1>2
<1>. QED  BY <1>1, <1>4, <1>5 DEF PartOf, Contents, None

\* No part, and any part the file has now.
LEMMA Contained ==
  ASSUME TypeOK
  PROVE  /\ None \in Contents /\ NoParts \in PartMap /\ \A p \in Parts : NoParts[p] = None
         /\ \A p \in Numbers(psz) : LocalPart(p) \in Contents /\ LocalPart(p) # None /\ p \in Parts
  BY PartTyped DEF TypeOK, LocalPart, Contents, NoParts, PartMap, Numbers

\* The invariant holds initially.
LEMMA InitIInv == Init => IInv
<1>. SUFFICES ASSUME Init PROVE IInv
  OBVIOUS
<1>1. NoParts \in PartMap
  BY DEF NoParts, PartMap, Contents
<1>2. TypeOK
  <2>1. 1 \in Versions /\ 1 \in 1 .. MaxIds + 1 /\ 0 \in 0 .. MaxFaults
    BY ResumableUploadAssumption DEF Versions
  <2>2. server \in [Ids -> PartMap] /\ object \in PartMap
    BY <1>1 DEF Init
  <2>. QED  BY <1>1, <2>1, <2>2 DEF Init, TypeOK
<1>3. FileSound
  BY DEF Init, FileSound
<1>4. PlacesSound /\ PartsSound /\ CrcsSound /\ Installed /\ SingleStartsOver
  BY DEF Init, PlacesSound, Beginning, Transferring, PartsSound, CrcsSound,
       Installed, SingleStartsOver, StartsOver
<1>5. ServerSound
  BY DEF Init, ServerSound
<1>. QED  BY <1>2, <1>3, <1>4, <1>5 DEF IInv

-----------------------------------------------------------------------------
(* The beginning of a call                                                 *)

\* A fault is counted and stays within its bound.
LEMMA FaultTyped ==
  ASSUME TypeOK, Fault \/ NoFault
  PROVE  faults' \in 0 .. MaxFaults /\ faults' >= faults
  BY ResumableUploadAssumption DEF Fault, NoFault, TypeOK

\* The call, and the steps that look for an upload to resume.
LoadStep ==
  \/ LoadNothing \/ LoadOtherPartSize \/ LoadInvalidId \/ LoadId
  \/ LegacyFind \/ LegacyFindNothing \/ LegacyDisabled

LEMMA CallIInv ==
  ASSUME IInv, Call
  PROVE  IInv'
<1>. USE DEF IInv, Call
<1>1. TypeOK'
  BY Contained DEF TypeOK, fileVars, serverVars
<1>2. FileSound'
  BY DEF FileSound, fileVars, TypeOK, Versions
<1>3. ServerSound'
  <2>1. pc' = "load" /\ UNCHANGED <<local, stamp, ckpt, server, alive, nextId, modes>>
    BY DEF fileVars, serverVars
  <2>. QED  BY <2>1 DEF ServerSound, Since
<1>4. PlacesSound' /\ PartsSound' /\ CrcsSound' /\ Installed' /\ SingleStartsOver'
  BY DEF PlacesSound, Beginning, Transferring, PartsSound, CrcsSound, Installed,
       SingleStartsOver, StartsOver
<1>. QED  BY <1>1, <1>2, <1>3, <1>4

LEMMA LoadIInv ==
  ASSUME IInv, LoadStep
  PROVE  IInv'
<1>. USE DEF IInv, LoadStep, LoadNothing, LoadOtherPartSize, LoadInvalidId, LoadId,
       LegacyFind, LegacyFindNothing, LegacyDisabled, Goto
<1>1. /\ pc = "load" /\ pc' \in {"init", "list", "check"}
      /\ UNCHANGED <<local, stamp, hidden, psz, object, server, nextId, modes, mode, threads,
                     start, checks, exist, resume, etags, crcs, lost, touched, outcome>>
      /\ Fault \/ NoFault
  BY DEF fileVars, serverVars, argVars, planVars, sentVars, NoFault
<1>2. /\ alive' \in SUBSET Ids /\ alive' \subseteq alive /\ id' \in Ids \cup {0}
      /\ ckpt' = ckpt \/ ckpt' = NoCheckpoint
  BY DEF TypeOK, serverVars, planVars, NoCheckpoint
<1>3. TypeOK'
  BY <1>1, <1>2, FaultTyped DEF TypeOK
<1>4. FileSound'
  BY <1>1, FaultTyped, ResumableUploadAssumption DEF FileSound, TypeOK, Versions
<1>5. ServerSound'
  <2>1. pc' # "save"
    BY <1>1
  <2>2. \A u \in Ids : u >= nextId => u \notin alive' /\ server[u] = NoParts
    BY <1>2 DEF ServerSound
  <2>3. pc' = "list" => ckpt.psz = psz
    BY <1>1 DEF SamePartSize
  <2>4. pc' # "transfer"
    BY <1>1
  <2>. QED  BY <1>1, <1>2, <2>1, <2>2, <2>3, <2>4 DEF ServerSound, Since
<1>6. PlacesSound'
  <2>1. CASE LoadId
    BY <2>1, <1>1 DEF PlacesSound, Beginning, CheckpointValid
  <2>2. CASE LegacyFind
    BY <2>2, <1>1 DEF PlacesSound, Beginning
  <2>3. CASE ~LoadId /\ ~LegacyFind
    BY <2>3, <1>1 DEF PlacesSound, Beginning
  <2>. QED  BY <2>1, <2>2, <2>3
<1>7. PartsSound' /\ CrcsSound' /\ Installed' /\ SingleStartsOver'
  BY <1>1 DEF PlacesSound, Transferring, PartsSound, CrcsSound, Installed, NoParts,
       SingleStartsOver, StartsOver
<1>. QED  BY <1>3, <1>4, <1>5, <1>6, <1>7

\* Of an upload whose checkpoint is valid, the parts of the configured size are
\* of the file, if that can be told.
LEMMA UploadedSound ==
  ASSUME IInv, pc = "list", NEW k \in Nat
  PROVE  /\ UploadedUpTo(k) \in PartMap
         /\ Tells => \A p \in Parts : UploadedUpTo(k)[p] \in {None, LocalPart(p)}
<1>. USE DEF IInv
<1>1. id \in Ids /\ ckpt # NoCheckpoint /\ ckpt.stamp = start /\ id = ckpt.id /\ mode = "checkpoint"
  BY DEF PlacesSound, TypeOK
<1>2. UploadedUpTo(k) \in PartMap
  BY <1>1, Contained DEF UploadedUpTo, TypeOK, PartMap
<1>3. ASSUME Tells, NEW p \in Parts
      PROVE  UploadedUpTo(k)[p] \in {None, LocalPart(p)}
  <2>1. ckpt.stamp = local /\ "legacy" \notin modes
    BY <1>1, <1>3 DEF FileSound, Tells
  <2>2. server[id][p] \in Since(local, psz, p) /\ local \in Nat
    BY <1>1, <2>1 DEF ServerSound, TypeOK, Versions
  <2>3. server[id][p] \in {None, LocalPart(p)}
    BY <2>2 DEF Since, LocalPart
  <2>. QED  BY <2>3 DEF UploadedUpTo
<1>. QED  BY <1>2, <1>3

\* The legacy mode takes the parts that do not differ from the file.
LEMMA CheckedSound ==
  ASSUME IInv, pc = "check", id \in alive, LegacyCheck
  PROVE  /\ exist' \in PartMap
         /\ \A p \in Parts : exist'[p] \in {None, LocalPart(p)}
<1>. USE DEF IInv, LegacyCheck
<1>1. server[id] \in PartMap
  BY DEF TypeOK
<1>2. exist' \in PartMap
  BY <1>1, Contained DEF PartMap
<1>3. ASSUME NEW p \in Parts
      PROVE  exist'[p] \in {None, LocalPart(p)}
  <2>1. p \in 1 .. p
    BY ResumableUploadAssumption DEF Parts
  <2>. QED  BY <2>1 DEF Differs
<1>. QED  BY <1>2, <1>3

\* The steps that list the parts of the upload found.
ListStep == ListParts \/ ListPartsFails \/ LegacyCheck \/ LegacyCheckFails

LEMMA ListIInv ==
  ASSUME IInv, ListStep
  PROVE  IInv'
<1>. USE DEF IInv, ListStep, ListParts, ListPartsFails, LegacyCheck, LegacyCheckFails, Goto
<1>1. /\ pc \in {"list", "check"} /\ pc' \in {"init", "transfer"}
      /\ UNCHANGED <<local, stamp, hidden, psz, ckpt, object, server, alive, nextId, modes, mode,
                     threads, start, checks, etags, crcs, lost, touched, outcome>>
      /\ Fault \/ NoFault
  BY DEF fileVars, serverVars, argVars, planVars, sentVars, NoFault
<1>2. id' \in Ids \cup {0} /\ resume' \in BOOLEAN
  BY DEF TypeOK
<1>3. exist' \in PartMap /\ (Tells => \A p \in Parts : exist'[p] \in {None, LocalPart(p)})
  <2>1. CASE ListParts
    BY <2>1, UploadedSound, ResumableUploadAssumption
  <2>2. CASE ListPartsFails
    BY <2>2, UploadedSound, ResumableUploadAssumption
  <2>3. CASE LegacyCheck
    BY <2>3, CheckedSound
  <2>4. CASE LegacyCheckFails
    BY <2>4, Contained DEF PlacesSound, NoParts
  <2>. QED  BY <2>1, <2>2, <2>3, <2>4
<1>4. TypeOK'
  BY <1>1, <1>2, <1>3, FaultTyped DEF TypeOK
<1>5. FileSound'
  BY <1>1, FaultTyped, ResumableUploadAssumption DEF FileSound, TypeOK, Versions
<1>6. ServerSound'
  <2>1. CASE pc = "list"
    <3>1. pc' = "transfer" => id' = id
      BY <1>1, <2>1 DEF ListParts, ListPartsFails, LegacyCheck, LegacyCheckFails
    <3>. QED  BY <1>1, <2>1, <3>1 DEF ServerSound, Since
  <2>2. CASE pc = "check"
    <3>1. "legacy" \in modes
      BY <2>2 DEF PlacesSound, TypeOK
    <3>. QED  BY <1>1, <3>1 DEF ServerSound, Since
  <2>. QED  BY <1>1, <2>1, <2>2
<1>7. etags = NoParts /\ crcs = NoParts /\ lost = {}
  BY <1>1 DEF PlacesSound, Beginning
<1>8. PlacesSound'
  BY <1>1, <1>7 DEF PlacesSound, Beginning
<1>9. PartsSound' /\ CrcsSound' /\ SingleStartsOver'
  BY <1>1, <1>3, <1>7 DEF Transferring, Tells, PartsSound, CrcsSound, NoParts, LocalPart,
       SingleStartsOver, StartsOver
<1>10. Installed'
  BY <1>1 DEF Installed
<1>. QED  BY <1>4, <1>5, <1>6, <1>8, <1>9, <1>10

\* A new upload is empty.
LEMMA InitSucceedsIInv ==
  ASSUME IInv, InitSucceeds
  PROVE  IInv'
<1>. USE DEF IInv
<1>1. /\ pc = "init" /\ pc' \in {"save", "transfer"}
      /\ nextId \in Ids /\ id' = nextId /\ nextId' = nextId + 1 /\ alive' = alive \cup {nextId}
      /\ UNCHANGED <<local, stamp, hidden, psz, ckpt, object, server, modes, mode, threads, start, checks,
                     exist, resume, etags, crcs, lost, touched, outcome, faults>>
  BY ResumableUploadAssumption DEF InitSucceeds, Goto, fileVars, argVars, sentVars, TypeOK, Ids
<1>2. TypeOK'
  BY <1>1, ResumableUploadAssumption DEF TypeOK, Ids
<1>3. ServerSound'
  <2>1. nextId \in Nat /\ nextId' \in Nat /\ nextId < nextId' /\ \A u \in Ids : u >= nextId' => u > nextId
    BY <1>1 DEF TypeOK, Ids
  <2>2. \A u \in Ids : u >= nextId' => u \notin alive' /\ server[u] = NoParts
    BY <1>1, <2>1 DEF ServerSound, Ids
  <2>3. server[id'] = NoParts
    BY <1>1, <2>1 DEF ServerSound
  <2>4. ckpt # NoCheckpoint => ckpt.id \in Nat /\ ckpt.id < nextId /\ ckpt.id # id' /\ ckpt.id < nextId'
    BY <1>1, <2>1 DEF ServerSound, TypeOK, Ids
  <2>. QED  BY <1>1, <2>1, <2>2, <2>3, <2>4 DEF ServerSound, Since
<1>4. etags = NoParts /\ crcs = NoParts /\ lost = {}
  BY <1>1 DEF PlacesSound, Beginning
<1>5. FileSound' /\ PlacesSound' /\ PartsSound' /\ CrcsSound' /\ Installed' /\ SingleStartsOver'
  BY <1>1, <1>4 DEF FileSound, PlacesSound, Beginning, Transferring, Tells, PartsSound,
       LocalPart, CrcsSound, NoParts, Installed, SingleStartsOver, StartsOver
<1>. QED  BY <1>2, <1>3, <1>5

\* A checkpoint is made for an upload that is empty yet.
LEMMA SaveIInv ==
  ASSUME IInv, Save
  PROVE  IInv'
<1>. USE DEF IInv
<1>1. /\ pc = "save" /\ pc' = "transfer"
      /\ UNCHANGED <<local, stamp, hidden, psz, object, server, alive, nextId, modes, mode, threads,
                     start, checks, id, exist, resume, etags, crcs, lost, touched, outcome>>
      /\ Fault \/ NoFault
      /\ ckpt' \in {ckpt, NoCheckpoint, [id |-> id, stamp |-> start, psz |-> psz]}
  BY DEF Save, Goto, fileVars, serverVars, argVars, planVars, sentVars
<1>2. id \in Ids /\ server[id] = NoParts
  BY <1>1 DEF ServerSound
<1>3. TypeOK'
  BY <1>1, <1>2, FaultTyped DEF TypeOK
<1>4. FileSound'
  BY <1>1, FaultTyped, ResumableUploadAssumption DEF FileSound, TypeOK, Versions
<1>5. ServerSound'
  <2>1. CASE ckpt' = ckpt \/ ckpt' = NoCheckpoint
    BY <1>1, <2>1 DEF ServerSound, Since
  <2>2. CASE ckpt' = [id |-> id, stamp |-> start, psz |-> psz]
    <3>1. ckpt'.id = id /\ ckpt'.stamp = start /\ start <= stamp
      BY <2>2 DEF FileSound
    <3>2. \A p \in Parts : server[id][p] \in Since(start, psz, p)'
      BY <1>2 DEF NoParts, Since
    <3>3. id < nextId
      BY <1>1 DEF ServerSound
    <3>. QED  BY <1>1, <2>2, <3>1, <3>2, <3>3 DEF ServerSound
  <2>. QED  BY <1>1, <2>1, <2>2
<1>6. etags = NoParts /\ crcs = NoParts /\ lost = {}
  BY <1>1 DEF PlacesSound, Beginning
<1>7. PlacesSound' /\ PartsSound' /\ CrcsSound' /\ Installed' /\ SingleStartsOver'
  BY <1>1, <1>6 DEF PlacesSound, Beginning, Transferring, Tells, PartsSound, LocalPart,
       CrcsSound, NoParts, Installed, SingleStartsOver, StartsOver
<1>. QED  BY <1>3, <1>4, <1>5, <1>7

-----------------------------------------------------------------------------
(* The transfer                                                            *)

\* A part that is sent is as new as any checkpoint.
LEMMA SentSound ==
  ASSUME IInv, id \in alive, NEW p \in Numbers(psz), pc = "transfer", pc' # "save",
         server' = [server EXCEPT ![id][p] = LocalPart(p)],
         UNCHANGED <<local, stamp, psz, ckpt, id, modes, alive, nextId>>,
         pc' \in {"transfer", "idle"}
  PROVE  ServerSound'
<1>. USE DEF IInv
<1>1. id \in Ids /\ id < nextId /\ server[id] \in PartMap /\ nextId \in Nat /\ p \in Parts
  BY DEF TypeOK, Ids, ServerSound, Numbers
<1>2. \A u \in Ids : u >= nextId => u \notin alive /\ server'[u] = NoParts
  BY <1>1 DEF ServerSound, TypeOK, Ids
<1>3. ASSUME ckpt # NoCheckpoint, "legacy" \notin modes, NEW q \in Parts
      PROVE  server'[ckpt.id][q] \in Since(ckpt.stamp, ckpt.psz, q)
  <2>1. /\ ckpt.id \in Ids /\ ckpt.stamp \in Nat /\ ckpt.stamp <= local /\ local \in Nat
        /\ server[ckpt.id] \in PartMap /\ server[ckpt.id][q] \in Since(ckpt.stamp, ckpt.psz, q)
    BY <1>3 DEF TypeOK, ServerSound, FileSound, Versions
  <2>2. CASE ckpt.id = id /\ p = q
    <3>1. ckpt.psz = psz
      BY <1>3, <2>2 DEF ServerSound
    <3>2. LocalPart(p) \in Since(ckpt.stamp, psz, p)
      BY <2>1 DEF Since, LocalPart
    <3>. QED  BY <1>1, <2>2, <3>1, <3>2 DEF TypeOK, PartMap
  <2>3. CASE ~(ckpt.id = id /\ p = q)
    <3>1. server'[ckpt.id][q] = server[ckpt.id][q]
      BY <1>1, <2>1, <2>3 DEF TypeOK, PartMap
    <3>. QED  BY <2>1, <3>1
  <2>. QED  BY <2>2, <2>3
<1>. QED  BY <1>2, <1>3 DEF ServerSound, Since

\* A part that is resumed, or sent, is listed with what the file has.
LEMMA SkipPartIInv ==
  ASSUME IInv, NEW p \in Parts, SkipPart(p)
  PROVE  IInv'
<1>. USE DEF IInv
<1>1. /\ pc = "transfer" /\ pc' = pc /\ exist[p] # None /\ (threads = "multi" \/ resume)
      /\ etags' = [etags EXCEPT ![p] = exist[p]] /\ crcs' = [crcs EXCEPT ![p] = LocalPart(p)]
      /\ p \in Numbers(psz) /\ p \in Parts
      /\ UNCHANGED <<local, stamp, hidden, psz, ckpt, object, server, alive, nextId, modes, mode,
                     threads, start, checks, id, exist, resume, lost, touched, outcome, faults>>
  BY DEF SkipPart, Skips, Turn, fileVars, serverVars, argVars, planVars, Numbers
<1>2. TypeOK'
  <2>1. etags' \in PartMap /\ crcs' \in PartMap
    BY <1>1, Contained DEF TypeOK, PartMap
  <2>. QED  BY <1>1, <2>1 DEF TypeOK
<1>3. FileSound' /\ ServerSound' /\ PlacesSound' /\ Installed'
  BY <1>1 DEF FileSound, ServerSound, Since, PlacesSound, Beginning, Installed
<1>4. PartsSound'
  BY <1>1 DEF Transferring, Tells, PartsSound, LocalPart, TypeOK, PartMap
<1>6. CrcsSound'
  BY <1>1 DEF Transferring, CrcsSound, LocalPart, TypeOK, PartMap
<1>5. SingleStartsOver'
  BY <1>1 DEF SingleStartsOver, StartsOver
<1>. QED  BY <1>2, <1>3, <1>4, <1>5, <1>6

LEMMA SendPartIInv ==
  ASSUME IInv, NEW p \in Parts, SendPart(p)
  PROVE  IInv'
<1>. USE DEF IInv
<1>1. /\ pc = "transfer" /\ pc' = pc /\ id \in alive /\ id \in Ids
      /\ p \in Numbers(psz)
      /\ server' = [server EXCEPT ![id][p] = LocalPart(p)]
      /\ etags' = [etags EXCEPT ![p] = LocalPart(p)] /\ crcs' = [crcs EXCEPT ![p] = LocalPart(p)]
      /\ UNCHANGED <<local, stamp, hidden, psz, ckpt, object, alive, nextId, modes, mode,
                     threads, start, checks, id, exist, resume, lost, touched, outcome, faults>>
  BY DEF SendPart, Turn, fileVars, argVars, planVars, TypeOK
<1>2. TypeOK'
  <2>1. etags' \in PartMap /\ crcs' \in PartMap /\ server' \in [Ids -> PartMap]
    BY <1>1, Contained DEF TypeOK, PartMap
  <2>. QED  BY <1>1, <2>1 DEF TypeOK
<1>3. FileSound' /\ PlacesSound' /\ Installed'
  BY <1>1, Contained DEF FileSound, PlacesSound, Beginning, Installed, TypeOK, PartMap
<1>4. ServerSound'
  BY <1>1, SentSound
<1>5. PartsSound'
  BY <1>1 DEF Transferring, Tells, PartsSound, LocalPart, TypeOK, PartMap
<1>6. CrcsSound'
  BY <1>1, Contained DEF Transferring, CrcsSound, LocalPart, TypeOK, PartMap
<1>7. SingleStartsOver'
  BY <1>1 DEF SingleStartsOver, StartsOver, TypeOK, PartMap
<1>. QED  BY <1>2, <1>3, <1>4, <1>5, <1>6, <1>7

\* A part whose task threw may be at the server, and is not listed.
LEMMA PartThrowsIInv ==
  ASSUME IInv, NEW p \in Parts, PartThrows(p)
  PROVE  IInv'
<1>. USE DEF IInv
<1>1. /\ pc = "transfer" /\ pc' = pc /\ Fault /\ threads = "multi" /\ p \in Numbers(psz)
      /\ lost' = lost \cup {p}
      /\ UNCHANGED <<local, stamp, hidden, psz, ckpt, object, alive, nextId, modes, mode,
                     threads, start, checks, id, exist, resume, etags, crcs, touched, outcome>>
  BY DEF PartThrows, Turn, fileVars, argVars, planVars
<1>2. server' = server \/ (id \in alive /\ server' = [server EXCEPT ![id][p] = LocalPart(p)])
  BY DEF PartThrows
<1>3. server' \in [Ids -> PartMap]
  <2>1. LocalPart(p) \in Contents /\ server \in [Ids -> [Parts -> Contents]]
    BY <1>1, Contained DEF TypeOK, PartMap
  <2>. QED  BY <1>2, <2>1 DEF PartMap
<1>4. TypeOK'
  BY <1>1, <1>3, FaultTyped DEF TypeOK
<1>5. FileSound'
  BY <1>1, FaultTyped, ResumableUploadAssumption DEF FileSound, TypeOK, Versions
<1>6. ServerSound'
  <2>1. CASE server' = server
    BY <1>1, <2>1 DEF ServerSound, Since
  <2>2. CASE id \in alive /\ server' = [server EXCEPT ![id][p] = LocalPart(p)]
    BY <1>1, <2>2, SentSound
  <2>. QED  BY <1>2, <2>1, <2>2
<1>7. PlacesSound' /\ PartsSound' /\ Installed'
  BY <1>1 DEF PlacesSound, Beginning, Transferring, Tells, PartsSound, LocalPart, Installed
<1>8. CrcsSound' /\ SingleStartsOver'
  BY <1>1 DEF Transferring, CrcsSound, LocalPart, SingleStartsOver, StartsOver
<1>. QED  BY <1>4, <1>5, <1>6, <1>7, <1>8

\* Every part is listed whose task did not throw, or those before the end of a file
\* that is short; or the caller waits for ever.
LEMMA TransferredIInv ==
  ASSUME IInv, Transferred \/ FileEndsEarly \/ Hangs
  PROVE  IInv'
<1>. USE DEF IInv
<1>1. /\ pc = "transfer" /\ pc' \in {"complete", "hung"}
      /\ pc' = "complete" =>
           (touched /\ threads = "single") \/ \A p \in Numbers(psz) \ lost : etags[p] # None
      /\ UNCHANGED <<local, stamp, hidden, psz, ckpt, object, server, alive, nextId, modes, mode,
                     threads, start, checks, id, exist, resume, etags, crcs, lost, touched, outcome, faults>>
  BY DEF Transferred, FileEndsEarly, Hangs, Goto, fileVars, serverVars, argVars, planVars, sentVars
<1>2. TypeOK'
  BY <1>1 DEF TypeOK
<1>. QED
  BY <1>1, <1>2 DEF FileSound, ServerSound, Since, PlacesSound, Beginning, Transferring, Tells,
     PartsSound, LocalPart, CrcsSound, Installed, SingleStartsOver, StartsOver

\* A call that fails, is cancelled or dies leaves at most parts and an object at
\* the server.
LEMMA EndsBadlyIInv ==
  ASSUME IInv, pc # "idle", pc' = "idle", outcome' \in {"FAILED", "CANCELED", "CRASHED"},
         Fault \/ NoFault, object' \in PartMap, alive' \subseteq alive,
         UNCHANGED <<local, stamp, hidden, psz, ckpt, nextId, modes, mode,
                     threads, start, checks, id, exist, resume, etags, crcs, lost, touched>>,
         server' \in [Ids -> PartMap], ServerSound'
  PROVE  IInv'
<1>. USE DEF IInv
<1>1. TypeOK'
  BY FaultTyped DEF TypeOK
<1>2. FileSound'
  BY FaultTyped, ResumableUploadAssumption DEF FileSound, TypeOK, Versions
<1>. QED
  BY <1>1, <1>2 DEF PlacesSound, Beginning, Transferring, Tells, PartsSound, CrcsSound,
     Installed, SingleStartsOver, StartsOver

\* The steps in which a call ends so.
BadEnd ==
  \/ InitFails \/ CancelWay \/ CompleteRefused \/ CompleteFails \/ Crash
  \/ \E p \in Parts : SendFails(p)

LEMMA BadEndIInv ==
  ASSUME IInv, BadEnd
  PROVE  IInv'
<1>1. CASE InitFails \/ CancelWay \/ CompleteRefused \/ Crash
  <2>1. /\ pc # "idle" /\ pc' = "idle" /\ outcome' \in {"FAILED", "CANCELED", "CRASHED"}
        /\ Fault \/ NoFault
        /\ UNCHANGED <<local, stamp, hidden, psz, ckpt, object, server, alive, nextId, modes, mode,
                       threads, start, checks, id, exist, resume, etags, crcs, lost, touched>>
    BY <1>1 DEF InitFails, CancelWay, CompleteRefused, Crash, Ends, NoFault, fileVars,
         serverVars, argVars, planVars, sentVars
  <2>2. ServerSound'
    BY <2>1 DEF IInv, ServerSound, Since
  <2>. QED  BY <2>1, <2>2, EndsBadlyIInv DEF IInv, TypeOK
<1>2. CASE CompleteFails
  <2>1. /\ pc = "complete" /\ pc' = "idle" /\ outcome' = "FAILED" /\ Fault
        /\ UNCHANGED <<local, stamp, hidden, psz, ckpt, server, nextId, modes, mode,
                       threads, start, checks, id, exist, resume, etags, crcs, lost, touched>>
    BY <1>2 DEF CompleteFails, Ends, fileVars, argVars, planVars, sentVars
  <2>2. alive' \subseteq alive /\ object' \in PartMap
    BY <1>2 DEF CompleteFails, Acceptable, Merge, IInv, TypeOK
  <2>3. ServerSound'
    BY <2>1, <2>2 DEF IInv, ServerSound, Since
  <2>. QED  BY <2>1, <2>2, <2>3, EndsBadlyIInv DEF IInv, TypeOK
<1>3. ASSUME NEW p \in Parts, SendFails(p)
      PROVE  IInv'
  <2>1. /\ pc = "transfer" /\ pc' = "idle" /\ outcome' = "FAILED" /\ p \in Numbers(psz)
        /\ Fault \/ NoFault
        /\ UNCHANGED <<local, stamp, hidden, psz, ckpt, object, alive, nextId, modes, mode,
                       threads, start, checks, id, exist, resume, etags, crcs, lost, touched>>
    BY <1>3 DEF SendFails, Turn, Ends, fileVars, argVars, planVars, sentVars
  <2>2. \/ server' = server
        \/ id \in alive /\ server' = [server EXCEPT ![id][p] = LocalPart(p)]
    BY <1>3 DEF SendFails
  <2>3. server' \in [Ids -> PartMap]
    <3>1. TypeOK
      BY DEF IInv
    <3>2. LocalPart(p) \in Contents /\ server \in [Ids -> [Parts -> Contents]]
      BY <2>1, <3>1, Contained DEF TypeOK, PartMap
    <3>. QED  BY <2>2, <3>2 DEF PartMap
  <2>4. ServerSound'
    <3>1. CASE server' = server
      BY <2>1, <3>1 DEF IInv, ServerSound, Since
    <3>2. CASE id \in alive /\ server' = [server EXCEPT ![id][p] = LocalPart(p)]
      BY <2>1, <3>2, SentSound
    <3>. QED  BY <2>2, <3>1, <3>2
  <2>5. object' \in PartMap /\ alive' \subseteq alive
    BY <2>1 DEF IInv, TypeOK
  <2>. QED  BY <2>1, <2>3, <2>4, <2>5, EndsBadlyIInv
<1>. QED  BY <1>1, <1>2, <1>3 DEF BadEnd

-----------------------------------------------------------------------------
(* The completion                                                          *)

\* What the server accepts from a call that can tell its file is that file.
LEMMA AcceptedSound ==
  ASSUME IInv, pc = "complete", lost = {}
  PROVE  /\ Tells => Whole(etags, local)
         /\ threads = "multi" => \A p \in Numbers(psz) : etags[p] # None
<1>1. psz \in PartSizes
  BY DEF IInv, TypeOK
<1>2. threads = "multi" \/ ~touched => \A p \in Numbers(psz) : etags[p] # None
  BY DEF IInv, PlacesSound
<1>3. ASSUME Tells
      PROVE  \A p \in Parts : etags[p] = IF p \in Numbers(psz) THEN PartOf(local, psz, p) ELSE None
  BY <1>2, <1>3 DEF IInv, PartsSound, CrcsSound, Transferring, Tells, LocalPart
<1>4. Tells => Whole(etags, local)
  BY <1>1, <1>3 DEF Whole
<1>. QED  BY <1>2, <1>4

\* An object whose CRC-64 agrees is the file, whatever the parts were.
LEMMA CompleteSucceedsIInv ==
  ASSUME IInv, CompleteSucceeds
  PROVE  IInv'
<1>. USE DEF IInv
<1>1. /\ pc = "complete" /\ id \in Ids /\ object' = etags /\ object' \in PartMap
      /\ alive' \subseteq alive
      /\ UNCHANGED <<local, stamp, hidden, psz, ckpt, server, nextId, modes, mode,
                     threads, start, checks, id, exist, resume, etags, crcs, lost, touched, faults>>
  <2>1. /\ pc = "complete" /\ id \in Ids /\ object' = etags
        /\ alive' \subseteq alive /\ touched' = touched
    BY DEF CompleteSucceeds, Acceptable, Merge, Goto, Ends, TypeOK
  <2>2. object' \in PartMap
    BY <2>1 DEF TypeOK
  <2>. QED  BY <2>1, <2>2 DEF CompleteSucceeds, fileVars, argVars, planVars, sentVars
<1>2. pc' \in {"remove", "idle"}
  BY DEF CompleteSucceeds, Goto, Ends
<1>3. ServerSound'
  BY <1>1, <1>2 DEF ServerSound, Since
<1>4. CASE checks => object' = crcs
  <2>1. pc' = "remove" /\ outcome' = outcome
    BY <1>4 DEF CompleteSucceeds, Goto
  <2>2. ASSUME ~touched, lost = {}, checks
        PROVE  Whole(object', local)
    <3>1. \A p \in Parts :
            object'[p] = IF p \in Numbers(psz) THEN PartOf(local, psz, p) ELSE None
      BY <1>1, <1>4, <2>2 DEF CrcsSound, Transferring, PlacesSound, LocalPart
    <3>. QED  BY <3>1 DEF Whole, TypeOK
  <2>3. ASSUME lost = {}, Tells
        PROVE  Whole(object', local)
    BY <1>1, <2>3, AcceptedSound
  <2>4. Installed'
    <3>1. Tells' = Tells
      BY <1>1 DEF Tells
    <3>. QED  BY <1>1, <2>2, <2>3, <3>1 DEF Installed, Whole
  <2>5. TypeOK'
    BY <1>1, <2>1 DEF TypeOK
  <2>6. FileSound' /\ PlacesSound' /\ PartsSound' /\ CrcsSound' /\ SingleStartsOver'
    BY <1>1, <2>1 DEF FileSound, PlacesSound, Beginning, Transferring, PartsSound,
       CrcsSound, SingleStartsOver, StartsOver
  <2>. QED  BY <1>3, <2>1, <2>4, <2>5, <2>6
<1>5. CASE ~(checks => object' = crcs)
  <2>1. pc' = "idle" /\ outcome' = "FAILED"
    BY <1>5 DEF CompleteSucceeds, Ends
  <2>2. Fault \/ NoFault
    BY <1>1 DEF NoFault
  <2>3. server' \in [Ids -> PartMap]
    BY <1>1 DEF TypeOK
  <2>. QED  BY <1>1, <1>3, <2>1, <2>2, <2>3, EndsBadlyIInv
<1>. QED  BY <1>4, <1>5

\* The call reports what the server has.
LEMMA RemoveIInv ==
  ASSUME IInv, RemoveCheckpoint
  PROVE  IInv'
<1>. USE DEF IInv
<1>1. /\ pc = "remove" /\ pc' = "idle" /\ outcome' = "COMPLETED"
      /\ ckpt' \in {ckpt, NoCheckpoint}
      /\ UNCHANGED <<local, stamp, hidden, psz, object, server, alive, nextId, modes, mode,
                     threads, start, checks, id, exist, resume, etags, crcs, lost, touched, faults>>
  BY DEF RemoveCheckpoint, Ends, fileVars, serverVars, argVars, planVars, sentVars
<1>2. TypeOK'
  BY <1>1 DEF TypeOK
<1>3. FileSound' /\ ServerSound'
  BY <1>1 DEF FileSound, ServerSound, Since
<1>4. PlacesSound' /\ PartsSound' /\ CrcsSound' /\ SingleStartsOver'
  BY <1>1 DEF PlacesSound, Beginning, Transferring, PartsSound, CrcsSound, SingleStartsOver,
     StartsOver
<1>5. Installed'
  BY <1>1 DEF Installed, Tells, Whole
<1>. QED  BY <1>2, <1>3, <1>4, <1>5

-----------------------------------------------------------------------------
(* The environment                                                         *)

\* An edit makes the file newer than anything stored of it.
LEMMA EditIInv ==
  ASSUME IInv, Edit
  PROVE  IInv'
<1>. USE DEF IInv
<1>1. /\ Fault /\ local' = local + 1 /\ stamp' \in {stamp, stamp + 1} /\ touched' = TRUE
      /\ hidden' = (hidden \/ stamp' = stamp)
      /\ UNCHANGED <<psz, ckpt, object, server, alive, nextId, modes, mode, threads, start, checks,
                     id, exist, resume, etags, crcs, lost, pc, outcome>>
  BY DEF Edit, serverVars, argVars, planVars, sentVars
<1>2. local \in Nat /\ stamp \in Nat /\ start \in Nat /\ faults \in Nat /\ MaxFaults \in Nat
  BY ResumableUploadAssumption DEF TypeOK, Versions
<1>3. faults' = faults + 1 /\ faults < MaxFaults
  BY <1>1 DEF Fault
<1>4. local' \in Versions /\ stamp' \in Versions
  BY <1>1, <1>2, <1>3 DEF TypeOK, Versions, FileSound
<1>5. hidden' \in BOOLEAN
  BY <1>1
<1>6. TypeOK'
  BY <1>1, <1>2, <1>3, <1>4, <1>5 DEF TypeOK
<1>7. ~hidden' => ~hidden /\ stamp' = stamp + 1
  BY <1>1, <1>2
<1>8. FileSound'
  BY <1>1, <1>2, <1>3, <1>7 DEF FileSound
<1>9. ASSUME ckpt # NoCheckpoint
      PROVE  /\ ckpt.stamp <= stamp'
             /\ \A p \in Parts : Since(ckpt.stamp, ckpt.psz, p) \subseteq Since(ckpt.stamp, ckpt.psz, p)'
  <2>1. ckpt.stamp \in Nat /\ ckpt.stamp <= stamp
    BY <1>9 DEF TypeOK, Versions, ServerSound
  <2>2. ckpt.stamp .. local \subseteq ckpt.stamp .. local'
    BY <1>1, <1>2, <2>1
  <2>. QED  BY <1>1, <1>2, <2>1, <2>2 DEF Since
<1>10. ServerSound'
  BY <1>1, <1>9 DEF ServerSound
<1>11. PlacesSound' /\ PartsSound' /\ CrcsSound' /\ Installed' /\ SingleStartsOver'
  BY <1>1 DEF PlacesSound, Tells, PartsSound, CrcsSound, Installed, SingleStartsOver, StartsOver
<1>. QED  BY <1>6, <1>8, <1>10, <1>11

\* What else the environment does leaves the file alone.
LEMMA OutsideIInv ==
  ASSUME IInv, Reconfigure \/ (\E u \in Ids : Expire(u))
  PROVE  IInv'
<1>. USE DEF IInv
<1>1. /\ Fault
      /\ psz' \in PartSizes /\ (psz' = psz \/ pc = "idle")
      /\ alive' \subseteq alive
      /\ UNCHANGED <<local, stamp, hidden, ckpt, object, server, nextId, modes, mode, threads, start, checks,
                     id, exist, resume, etags, crcs, lost, pc, touched, outcome>>
  BY DEF Reconfigure, Expire, fileVars, serverVars, argVars, planVars, sentVars, TypeOK
<1>2. TypeOK'
  BY <1>1, FaultTyped DEF TypeOK
<1>3. FileSound'
  BY <1>1, FaultTyped, ResumableUploadAssumption DEF FileSound, TypeOK, Versions
<1>4. ServerSound' /\ PlacesSound'
  BY <1>1 DEF ServerSound, Since, PlacesSound, Beginning
<1>5. PartsSound' /\ CrcsSound'
  BY <1>1 DEF Transferring, Tells, PartsSound, LocalPart, CrcsSound
<1>6. Installed' /\ SingleStartsOver'
  BY <1>1 DEF Installed, Tells, Whole, SingleStartsOver, StartsOver
<1>. QED  BY <1>2, <1>3, <1>4, <1>5, <1>6

-----------------------------------------------------------------------------
(* The theorems                                                            *)

\* Every step keeps the invariant.
LEMMA NextIInv ==
  ASSUME IInv, [Next]_vars
  PROVE  IInv'
<1>1. CASE UNCHANGED vars
  <2>. USE <1>1 DEF vars, fileVars, serverVars, argVars, planVars, sentVars, IInv
  <2>1. TypeOK' /\ FileSound'
    BY DEF TypeOK, FileSound
  <2>2. ServerSound' /\ PlacesSound'
    BY DEF ServerSound, Since, PlacesSound
  <2>3. PartsSound' /\ CrcsSound'
    BY DEF PartsSound, Tells, LocalPart, CrcsSound
  <2>4. Installed' /\ SingleStartsOver'
    BY DEF Installed, Tells, Whole, SingleStartsOver, StartsOver
  <2>. QED  BY <2>1, <2>2, <2>3, <2>4
<1>2. CASE Step
  <2>1. CASE Call  BY <2>1, CallIInv
  <2>2. CASE LoadStep  BY <2>2, LoadIInv
  <2>3. CASE ListStep  BY <2>3, ListIInv
  <2>4. CASE InitSucceeds  BY <2>4, InitSucceedsIInv
  <2>5. CASE Save  BY <2>5, SaveIInv
  <2>6. ASSUME NEW p \in Parts, SkipPart(p) \/ SendPart(p) \/ PartThrows(p)
        PROVE  IInv'
    BY <2>6, SkipPartIInv, SendPartIInv, PartThrowsIInv
  <2>7. CASE Transferred \/ FileEndsEarly \/ Hangs  BY <2>7, TransferredIInv
  <2>8. CASE CompleteSucceeds  BY <2>8, CompleteSucceedsIInv
  <2>9. CASE RemoveCheckpoint  BY <2>9, RemoveIInv
  <2>10. CASE BadEnd  BY <2>10, BadEndIInv
  <2>. QED
    BY <1>2, <2>1, <2>2, <2>3, <2>4, <2>5, <2>6, <2>7, <2>8, <2>9, <2>10
    DEF Step, LoadStep, ListStep, BadEnd
<1>3. CASE Environment
  BY <1>3, BadEndIInv, EditIInv, OutsideIInv DEF Environment, BadEnd
<1>. QED  BY <1>1, <1>2, <1>3 DEF Next, Done

\* A step that changes the object installs the whole file.
LEMMA ChangeInstalls ==
  ASSUME IInv, [Next]_vars, object' # object, lost = {}
  PROVE  /\ Tells => Whole(object', local)
         /\ threads = "multi" => \A p \in Numbers(psz) : object'[p] # None
<1>1. CASE CompleteFails
  <2>1. pc = "complete" /\ object' = etags
    BY <1>1 DEF CompleteFails, Merge
  <2>. QED  BY <2>1, AcceptedSound
<1>2. CASE CompleteSucceeds
  <2>1. pc = "complete" /\ object' = etags
    BY <1>2 DEF CompleteSucceeds, Merge
  <2>. QED  BY <2>1, AcceptedSound
<1>3. CASE ~CompleteFails /\ ~CompleteSucceeds
  <2>1. object' = object
    BY <1>3 DEF Next, Step, Environment, Done, vars, fileVars, serverVars, argVars, planVars,
         sentVars, Call, LoadNothing, LoadOtherPartSize, LoadInvalidId, LoadId, LegacyFind,
         LegacyFindNothing, LegacyDisabled, ListParts, ListPartsFails, LegacyCheck,
         LegacyCheckFails, InitFails, InitSucceeds, Save, SkipPart, SendPart, SendFails,
         PartThrows, Hangs, CancelWay, Transferred, FileEndsEarly, CompleteRefused, RemoveCheckpoint, Crash, Edit, Reconfigure,
         Expire
  <2>. QED  BY <2>1
<1>. QED  BY <1>1, <1>2, <1>3

\* The invariant holds of every reachable state.
THEOREM Invariance == Spec => []IInv
<1>1. IInv /\ [Next]_vars => IInv'
  BY NextIInv
<1>. QED  BY InitIInv, <1>1, PTL DEF Spec

\* Every variable stays within its type.
THEOREM TypeCorrect == Spec => []TypeOK
<1>1. IInv => TypeOK
  BY DEF IInv
<1>. QED  BY Invariance, <1>1, PTL

\* A call of MultiUploadObject or UploadObjectResumableSingleThreadSync that ends
\* COMPLETED has left the whole file at the server, if none of its tasks threw and it
\* checked the CRC-64 or could tell what it resumed.
THEOREM CompletedUploadsTheFile == Spec => []CompletedIsLocal
<1>1. IInv => CompletedIsLocal
  BY DEF IInv, Installed, CompletedIsLocal
<1>. QED  BY Invariance, <1>1, PTL

\* A single-threaded upload that starts over lists no etag of the upload it gave up.
THEOREM SingleForgets == Spec => []SingleStartsOver
<1>1. IInv => SingleStartsOver
  BY DEF IInv
<1>. QED  BY Invariance, <1>1, PTL

\* No call that can tell what it resumes replaces the object by a mixture of versions
\* or of part sizes, and no multi-threaded one of whose tasks none threw by a part of
\* the file.
THEOREM NoMixtureInstalled == Spec => InstallsWhole
<1>1. IInv /\ [Next]_vars =>
        [object' # object /\ lost = {} =>
           /\ Tells => Whole(object', local)
           /\ threads = "multi" => \A p \in Numbers(psz) : object'[p] # None]_vars
  BY ChangeInstalls
<1>. QED  BY Invariance, <1>1, PTL DEF Spec, InstallsWhole

-----------------------------------------------------------------------------
(* Restarts                                                                *)

\* The upload has a part that can be resumed, and such parts are of the file.
HasPart(u) == \E p \in Parts : Fits(u, p)
Current(u) == \A p \in Parts : Fits(u, p) => server[u][p] = LocalPart(p)

\* The checkpoint is one that a call which began at the time t resumes.
Resumable(t) ==
  /\ ckpt # NoCheckpoint /\ ckpt.stamp = t /\ ckpt.psz = psz
  /\ ckpt.id \in alive /\ HasPart(ckpt.id)

\* There may be one more upload, or two, before all faults there were are used up.
Spare(n) == nextId + n <= faults + 2

Bounded == nextId <= faults + 2

\* Nothing has happened to the call's upload since it was opened, and its
\* checkpoint is there.
Undisturbed ==
  /\ ~touched
  /\ ckpt = [id |-> id, stamp |-> start, psz |-> psz]
  /\ id \in alive /\ Current(id)

\* A part is listed, or taken to be there, that is the file's or that the upload
\* has not, so that the server will refuse it.
PartsTold ==
  \A p \in Parts :
    /\ etags[p] # None => etags[p] = LocalPart(p) \/ server[id][p] = None
    /\ Skips(p) => exist[p] = LocalPart(p) \/ server[id][p] = None

\* A call that has opened an upload, or ended, opens no other one before
\* something goes wrong.
OnTrack ==
  \/ pc = "idle" /\ outcome = "COMPLETED" /\ ~touched
  \/ pc = "idle" /\ Resumable(stamp) /\ Current(ckpt.id)
  \/ pc = "save" /\ ~touched /\ id \in alive
  \/ /\ pc = "transfer" /\ Undisturbed /\ PartsTold /\ lost = {}
     /\ HasPart(id) \/ \E p \in Numbers(psz) : etags[p] = None /\ ~Skips(p)
  \/ pc = "complete" /\ Undisturbed /\ PartsTold /\ lost = {} /\ HasPart(id)
  \/ pc = "remove" /\ ~touched

\* Whether the call must be followed by another one.
Again == IF touched THEN 1 ELSE 0

\* Not every part of the file is taken to be there.
Lacks == \E p \in Numbers(psz) : exist[p] = None

RestartSound ==
  modes = {"checkpoint"} =>
    /\ Bounded
    /\ pc \in {"init", "save"} => Lacks
    /\ pc \in {"load", "list"} =>
         IF Resumable(start)
           THEN touched \/ ~Current(ckpt.id) => Spare(1)
           ELSE Spare(1 + Again)
    /\ pc = "init" => Spare(1 + Again)
    /\ pc \notin {"load", "list", "init"} => OnTrack \/ Spare(1)

\* What the counts below are made of.
LEMMA Counts ==
  ASSUME TypeOK
  PROVE  /\ nextId \in Nat /\ faults \in Nat
         /\ 1 \in Numbers(psz) /\ \A p \in Numbers(psz) : p \in Parts
         /\ \A p \in Parts : NoParts[p] = None
<1>1. psz \in Nat /\ FileLength \in Nat \ {0}
  BY ResumableUploadAssumption DEF TypeOK
<1>2. 0 * psz = 0
  BY <1>1
<1>3. 1 - 1 = 0 /\ 0 < FileLength /\ 1 \in Parts
  BY <1>1 DEF Parts
<1>4. 1 \in Numbers(psz)
  BY <1>2, <1>3 DEF Numbers
<1>. QED  BY <1>4, ResumableUploadAssumption DEF TypeOK, Numbers, NoParts

\* Contents the file has now fit.
LEMMA OwnFits ==
  ASSUME TypeOK, NEW u, NEW p \in Numbers(psz), server[u][p] = LocalPart(p)
  PROVE  Fits(u, p)
  BY Contained DEF Fits

\* Nothing goes wrong for nothing: a fault pays for one more upload.
LEMMA FaultSpares ==
  ASSUME IInv, RestartSound, modes = {"checkpoint"}, Fault, nextId' = nextId
  PROVE  Spare(1)'
  BY Counts DEF IInv, RestartSound, Spare, Bounded, Fault

\* And when it leaves a call that has its upload, or is over, one will do.
LEMMA FaultRestart ==
  ASSUME IInv, RestartSound, Fault, nextId' = nextId, modes' = modes,
         pc' \notin {"load", "list", "init"},
         pc' = "save" => pc = "save" /\ exist' = exist /\ psz' = psz
  PROVE  RestartSound'
<1>. SUFFICES ASSUME modes = {"checkpoint"} PROVE RestartSound'
  BY DEF RestartSound
<1>1. Spare(1)'
  BY FaultSpares
<1>2. Bounded'
  <2>1. faults' \in Nat /\ nextId' \in Nat
    BY Counts DEF Fault, IInv
  <2>2. nextId' + 1 <= faults' + 2
    BY <1>1 DEF Spare, Bounded
  <2>3. \A m, n \in Nat : m + 1 <= n + 2 => m <= n + 2
    OBVIOUS
  <2>. QED  BY <2>1, <2>2, <2>3 DEF Bounded
<1>. QED  BY <1>1, <1>2 DEF RestartSound, Lacks

\* A call that begins can resume, or has one upload to spare.
LEMMA CallRestart ==
  ASSUME IInv, RestartSound, Call
  PROVE  RestartSound'
<1>. SUFFICES ASSUME modes = {"checkpoint"} PROVE RestartSound'
  BY DEF RestartSound, Call
<1>1. /\ pc = "idle" /\ pc' = "load" /\ WantsToCall /\ start' = stamp /\ touched' = FALSE
      /\ UNCHANGED <<local, psz, ckpt, server, alive, nextId, faults, modes>>
  BY DEF Call, fileVars, serverVars
<1>2. Bounded /\ Bounded' /\ (Spare(1) <=> Spare(1)') /\ (Spare(1) <=> Spare(1 + Again)')
  BY <1>1, Counts DEF RestartSound, Spare, Bounded, Again, IInv
<1>3. Resumable(start)' <=> Resumable(stamp)
  BY <1>1 DEF Resumable, HasPart, Fits, LocalPart
<1>4. Current(ckpt.id)' <=> Current(ckpt.id)
  BY <1>1 DEF Current, Fits, LocalPart
<1>5. Spare(1) \/ (Resumable(stamp) /\ Current(ckpt.id))
  BY <1>1 DEF RestartSound, OnTrack, WantsToCall
<1>. QED  BY <1>1, <1>2, <1>3, <1>4, <1>5 DEF RestartSound

\* A call that does not resume after all: because there was nothing to resume, or
\* something went wrong.
LEMMA RestartsAnew ==
  ASSUME IInv, RestartSound, modes = {"checkpoint"}, pc \in {"load", "list"}, pc' = "init",
         UNCHANGED <<nextId, modes, touched>>, Lacks',
         \/ Fault
         \/ NoFault /\ ~Resumable(start)
  PROVE  RestartSound'
<1>1. nextId \in Nat /\ faults \in Nat /\ Again \in {0, 1} /\ Again' = Again
  BY Counts DEF IInv, Again
<1>2. Spare(1 + Again)'
  <2>1. CASE NoFault /\ ~Resumable(start)
    BY <1>1, <2>1 DEF RestartSound, Spare, Bounded, NoFault
  <2>2. CASE Fault
    <3>1. Spare(Again)
      BY <1>1 DEF RestartSound, Spare, Bounded, Again
    <3>. QED  BY <1>1, <2>2, <3>1 DEF Spare, Bounded, Fault
  <2>. QED  BY <2>1, <2>2
<1>3. Bounded'
  <2>1. faults' \in Nat
    BY <1>1 DEF Fault, NoFault
  <2>2. nextId' + (1 + Again') <= faults' + 2
    BY <1>2 DEF Spare, Bounded
  <2>3. \A m, n \in Nat, d \in {0, 1} : m + (1 + d) <= n + 2 => m <= n + 2
    OBVIOUS
  <2>. QED  BY <1>1, <2>1, <2>2, <2>3 DEF Bounded
<1>. QED  BY <1>2, <1>3 DEF RestartSound

LEMMA LoadRestart ==
  ASSUME IInv, RestartSound, LoadStep
  PROVE  RestartSound'
<1>. USE DEF LoadStep, LoadNothing, LoadOtherPartSize, LoadInvalidId, LoadId,
       LegacyFind, LegacyFindNothing, LegacyDisabled, Goto
<1>. SUFFICES ASSUME modes = {"checkpoint"} PROVE RestartSound'
  BY DEF RestartSound, argVars
<1>1. mode = "checkpoint" /\ Lacks /\ pc = "load"
  BY Counts DEF IInv, TypeOK, PlacesSound, Lacks
<1>2. UNCHANGED <<local, psz, server, nextId, modes, start, exist, touched>>
  BY DEF fileVars, serverVars, argVars, planVars
<1>3. CASE LoadId
  <2>1. UNCHANGED <<ckpt, alive, faults>> /\ pc' = "list"
    BY <1>3 DEF serverVars
  <2>. QED
    BY <1>1, <1>2, <2>1 DEF RestartSound, Spare, Bounded, Again, Resumable, HasPart, Current, Fits,
         LocalPart
<1>4. CASE LoadNothing \/ LoadOtherPartSize \/ LoadInvalidId
  <2>1. pc' = "init" /\ (Fault \/ (NoFault /\ ~Resumable(start)))
    BY <1>1, <1>4 DEF Resumable, CheckpointValid, SamePartSize, NoFault
  <2>2. Lacks'
    BY <1>1, <1>2 DEF Lacks
  <2>. QED  BY <1>1, <1>2, <2>1, <2>2, RestartsAnew
<1>. QED  BY <1>1, <1>3, <1>4

LEMMA ListRestart ==
  ASSUME IInv, RestartSound, ListStep
  PROVE  RestartSound'
<1>. USE DEF ListStep, ListParts, ListPartsFails, LegacyCheck, LegacyCheckFails, Goto
<1>. SUFFICES ASSUME modes = {"checkpoint"} PROVE RestartSound'
  BY DEF RestartSound, argVars
<1>1. /\ mode = "checkpoint" /\ pc = "list" /\ etags = NoParts
      /\ ckpt # NoCheckpoint /\ ckpt.stamp = start /\ id = ckpt.id /\ id \in Ids
  BY DEF IInv, TypeOK, PlacesSound, Beginning
<1>2. UNCHANGED <<local, psz, ckpt, server, alive, nextId, modes, start, etags, touched, threads>>
  BY DEF fileVars, serverVars, argVars, sentVars
<1>3. server[id] \in PartMap /\ FileLength \in Nat
  BY <1>1, Counts, ResumableUploadAssumption DEF IInv, TypeOK
<1>4. CASE ListPartsFails
  <2>1. Lacks'
    <3>1. PICK k \in 0 .. FileLength :
            /\ k = 0 \/ \E p \in Parts : p > k /\ server[id][p] # None
            /\ exist' = UploadedUpTo(k)
      BY <1>1, <1>4
    <3>2. PICK q \in Numbers(psz) : ~(q <= k)
      <4>1. CASE k = 0
        BY <3>1, <4>1, Counts DEF IInv
      <4>2. CASE k # 0
        <5>1. PICK p \in Parts : p > k /\ server[id][p] # None
          BY <3>1, <4>2
        <5>2. server[id][p] \in Since(ckpt.stamp, psz, p)
          BY <1>1 DEF IInv, ServerSound
        <5>3. p \in Numbers(psz)
          BY <5>1, <5>2 DEF Since
        <5>4. p \in Nat
          BY <5>1 DEF Parts
        <5>. QED  BY <3>1, <5>1, <5>3, <5>4
      <4>. QED  BY <4>1, <4>2
    <3>3. exist'[q] = None
      BY <3>1, <3>2, Counts DEF UploadedUpTo, IInv
    <3>. QED  BY <1>2, <3>3 DEF Lacks
  <2>2. Fault \/ (NoFault /\ ~Resumable(start))
    BY <1>1, <1>4 DEF Resumable
  <2>. QED  BY <1>1, <1>2, <1>4, <2>1, <2>2, RestartsAnew
<1>5. CASE ListParts
  <2>1. \A p \in Parts : exist'[p] = IF Fits(id, p) THEN server[id][p] ELSE None
    BY <1>3, <1>5 DEF UploadedUpTo, Parts
  <2>2. resume' <=> HasPart(id)
    <3>1. exist' = [p \in Parts |-> exist'[p]]
      BY <1>5 DEF UploadedUpTo
    <3>2. exist' # NoParts <=> \E p \in Parts : exist'[p] # None
      BY <3>1 DEF NoParts
    <3>. QED  BY <1>5, <2>1, <3>2 DEF HasPart, Fits
  <2>3. NoFault
    BY <1>5 DEF NoFault
  <2>4. CASE ~resume'
    <3>1. Lacks'
      BY <1>2, <1>5, <2>4, Counts DEF IInv, Lacks
    <3>2. ~Resumable(start)
      BY <1>1, <2>2, <2>4 DEF Resumable
    <3>. QED  BY <1>1, <1>2, <1>5, <2>3, <2>4, <3>1, <3>2, RestartsAnew
  <2>5. CASE resume'
    <3>1. pc' = "transfer" /\ id' = id /\ id \in alive
      BY <1>5, <2>5
    <3>2. Bounded' /\ (Spare(1) => Spare(1)')
      BY <1>2, <2>3 DEF RestartSound, Spare, Bounded, NoFault
    <3>3. CASE Spare(1)
      BY <3>1, <3>2, <3>3 DEF RestartSound
    <3>4. CASE ~Spare(1)
      <4>1. ckpt.psz = psz /\ ~touched /\ Current(id)
        <5>1. CASE Resumable(start)
          BY <1>1, <3>4, <5>1 DEF RestartSound, Resumable
        <5>2. CASE ~Resumable(start)
          <6>1. Spare(1 + Again)
            BY <1>1, <5>2 DEF RestartSound
          <6>. QED  BY <3>4, <6>1, Counts DEF Spare, Bounded, Again, IInv
        <5>. QED  BY <5>1, <5>2
      <4>2. Undisturbed'
        BY <1>1, <1>2, <3>1, <4>1 DEF Undisturbed, Current, Fits, LocalPart, IInv, TypeOK
      <4>3. PartsTold'
        <5>1. \A p \in Parts : etags'[p] = None
          BY <1>1, <1>2, Counts DEF IInv
        <5>2. \A p \in Parts : exist'[p] # None => exist'[p] = LocalPart(p)
          BY <2>1, <4>1 DEF Current
        <5>. QED  BY <1>2, <5>1, <5>2 DEF PartsTold, Skips, LocalPart
      <4>4. HasPart(id)'
        BY <1>2, <2>2, <2>5, <3>1 DEF HasPart, Fits, LocalPart
      <4>5. lost' = {}
        BY <1>1, <1>5 DEF sentVars, IInv, PlacesSound, Beginning
      <4>. QED  BY <3>1, <3>2, <4>2, <4>3, <4>4, <4>5 DEF RestartSound, OnTrack
    <3>. QED  BY <3>3, <3>4
  <2>. QED  BY <2>4, <2>5
<1>. QED  BY <1>1, <1>4, <1>5

\* A new upload uses up what was to spare.
LEMMA InitSucceedsRestart ==
  ASSUME IInv, RestartSound, InitSucceeds
  PROVE  RestartSound'
<1>. SUFFICES ASSUME modes = {"checkpoint"} PROVE RestartSound'
  BY DEF RestartSound, InitSucceeds, argVars
<1>1. /\ mode = "checkpoint" /\ pc = "init" /\ pc' = "save" /\ nextId' = nextId + 1 /\ id' = nextId
      /\ alive' = alive \cup {nextId} /\ UNCHANGED <<faults, touched, exist, psz>>
  BY DEF InitSucceeds, Goto, IInv, TypeOK, fileVars
<1>2. Spare(1 + Again) /\ Lacks
  BY <1>1 DEF RestartSound
<1>3. Spare(Again)'
  BY <1>1, <1>2, Counts DEF Spare, Bounded, Again, IInv
<1>4. Bounded' /\ (touched => Spare(1)')
  BY <1>1, <1>3, Counts DEF Spare, Bounded, Again, IInv
<1>. QED  BY <1>1, <1>2, <1>4 DEF RestartSound, OnTrack, Lacks

LEMMA SaveRestart ==
  ASSUME IInv, RestartSound, Save
  PROVE  RestartSound'
<1>. SUFFICES ASSUME modes = {"checkpoint"} PROVE RestartSound'
  BY DEF RestartSound, Save, argVars
<1>1. /\ pc = "save" /\ pc' = "transfer"
      /\ UNCHANGED <<local, psz, server, alive, nextId, modes, start, id, exist, resume, etags,
                     lost, touched, threads>>
  BY DEF Save, Goto, fileVars, serverVars, argVars, planVars, sentVars
<1>2. CASE Fault
  BY <1>1, <1>2, FaultRestart
<1>3. CASE NoFault /\ ckpt' = [id |-> id, stamp |-> start, psz |-> psz]
  <2>1. Bounded' /\ (Spare(1) => Spare(1)')
    BY <1>1, <1>3 DEF RestartSound, Spare, Bounded, NoFault
  <2>2. CASE Spare(1)
    BY <1>1, <2>1, <2>2 DEF RestartSound
  <2>3. CASE ~Spare(1)
    <3>1. ~touched /\ id \in alive /\ Lacks
      BY <1>1, <2>3 DEF RestartSound, OnTrack
    <3>2. etags = NoParts /\ server[id] = NoParts /\ lost = {}
      BY <1>1 DEF IInv, PlacesSound, Beginning, ServerSound
    <3>3. \A p \in Parts : etags[p] = None /\ server[id][p] = None
      BY <3>2, Counts DEF IInv
    <3>4. Undisturbed'
      BY <1>1, <1>3, <3>1, <3>3, Counts DEF Undisturbed, Current, Fits, IInv
    <3>5. PartsTold'
      BY <1>1, <3>3 DEF PartsTold
    <3>6. \E p \in Numbers(psz) : etags'[p] = None /\ ~Skips(p)'
      BY <1>1, <3>1, <3>3, Counts DEF Skips, Lacks, IInv
    <3>. QED  BY <1>1, <2>1, <3>2, <3>4, <3>5, <3>6 DEF RestartSound, OnTrack
  <2>. QED  BY <2>2, <2>3
<1>. QED  BY <1>2, <1>3 DEF Save

\* Steps without a fault do not change what there is to spare.
LEMMA NothingSpent ==
  ASSUME IInv, RestartSound, modes = {"checkpoint"}, UNCHANGED <<nextId, faults>>
  PROVE  Bounded' /\ (Spare(1) => Spare(1)')
  BY DEF RestartSound, Spare, Bounded

LEMMA SkipPartRestart ==
  ASSUME IInv, RestartSound, NEW p \in Parts, SkipPart(p)
  PROVE  RestartSound'
<1>. SUFFICES ASSUME modes = {"checkpoint"} PROVE RestartSound'
  BY DEF RestartSound, SkipPart, argVars
<1>1. /\ pc = "transfer" /\ pc' = pc /\ Skips(p) /\ etags[p] = None
      /\ etags' = [etags EXCEPT ![p] = exist[p]]
      /\ UNCHANGED <<local, psz, ckpt, server, alive, nextId, modes, threads, start, id, exist,
                     resume, lost, touched, faults>>
  BY DEF SkipPart, Turn, fileVars, serverVars, argVars, planVars
<1>2. Bounded' /\ (Spare(1) => Spare(1)')
  BY <1>1, NothingSpent
<1>3. ASSUME OnTrack PROVE OnTrack'
  <2>1. Undisturbed' /\ (HasPart(id)' <=> HasPart(id))
    BY <1>1, <1>3 DEF OnTrack, Undisturbed, Current, Fits, LocalPart, HasPart
  <2>2. etags \in [Parts -> Contents]
    BY DEF IInv, TypeOK, PartMap
  <2>3. PartsTold'
    <3>1. PartsTold /\ \A q \in Parts : LocalPart(q)' = LocalPart(q) /\ (Skips(q)' <=> Skips(q))
      BY <1>1, <1>3 DEF OnTrack, LocalPart, Skips
    <3>2. \A q \in Parts : etags'[q] = IF q = p THEN exist[p] ELSE etags[q]
      BY <1>1, <2>2
    <3>. QED  BY <1>1, <3>1, <3>2 DEF PartsTold
  <2>4. ~HasPart(id) => \E q \in Numbers(psz) : etags'[q] = None /\ ~Skips(q)'
    <3>. SUFFICES ASSUME ~HasPart(id) PROVE \E q \in Numbers(psz) : etags'[q] = None /\ ~Skips(q)'
      OBVIOUS
    <3>1. PICK q \in Numbers(psz) : etags[q] = None /\ ~Skips(q)
      BY <1>1, <1>3 DEF OnTrack
    <3>2. q # p /\ q \in Parts
      BY <1>1, <3>1 DEF Numbers
    <3>3. etags'[q] = None /\ (Skips(q)' <=> Skips(q))
      BY <1>1, <2>2, <3>1, <3>2 DEF Skips
    <3>. QED  BY <3>1, <3>3
  <2>. QED  BY <1>1, <1>3, <2>1, <2>3, <2>4 DEF OnTrack
<1>. QED  BY <1>1, <1>2, <1>3 DEF RestartSound

LEMMA SendPartRestart ==
  ASSUME IInv, RestartSound, NEW p \in Parts, SendPart(p)
  PROVE  RestartSound'
<1>. SUFFICES ASSUME modes = {"checkpoint"} PROVE RestartSound'
  BY DEF RestartSound, SendPart, argVars
<1>1. /\ pc = "transfer" /\ pc' = pc /\ ~Skips(p)
      /\ p \in Numbers(psz)
      /\ server' = [server EXCEPT ![id][p] = LocalPart(p)]
      /\ etags' = [etags EXCEPT ![p] = LocalPart(p)]
      /\ UNCHANGED <<local, psz, ckpt, alive, nextId, modes, threads, start, id, exist,
                     resume, lost, touched, faults>>
  BY DEF SendPart, Turn, fileVars, argVars, planVars
<1>2. Bounded' /\ (Spare(1) => Spare(1)')
  BY <1>1, NothingSpent
<1>3. ASSUME OnTrack PROVE OnTrack'
  <2>1. etags \in [Parts -> Contents] /\ server \in [Ids -> [Parts -> Contents]] /\ id \in Ids
    BY <1>1, <1>3 DEF OnTrack, Undisturbed, IInv, TypeOK, PartMap
  <2>2. \A q \in Parts : /\ etags'[q] = IF q = p THEN LocalPart(p) ELSE etags[q]
                         /\ server'[id][q] = IF q = p THEN LocalPart(p) ELSE server[id][q]
                         /\ Skips(q)' <=> Skips(q)
    BY <1>1, <2>1 DEF Skips
  <2>3. (\A q \in Parts : LocalPart(q)' = LocalPart(q)) /\ id' = id /\ psz' = psz
    BY <1>1 DEF LocalPart
  <2>4. Undisturbed'
    <3>1. Current(id)'
      BY <1>1, <1>3, <2>2, <2>3 DEF OnTrack, Undisturbed, Current, Fits
    <3>. QED  BY <1>1, <1>3, <3>1 DEF OnTrack, Undisturbed
  <2>5. PartsTold'
    BY <1>1, <1>3, <2>2, <2>3 DEF OnTrack, PartsTold
  <2>6. HasPart(id)'
    <3>1. LocalPart(p) # None /\ p \in Parts
      BY <1>1, Contained DEF IInv
    <3>. QED  BY <1>1, <2>2, <2>3, <3>1 DEF HasPart, Fits
  <2>. QED  BY <1>1, <1>3, <2>4, <2>5, <2>6 DEF OnTrack
<1>. QED  BY <1>1, <1>2, <1>3 DEF RestartSound

\* The end of a transfer, good or bad.
LEMMA SendFailsRestart ==
  ASSUME IInv, RestartSound, NEW p \in Parts, SendFails(p)
  PROVE  RestartSound'
<1>. SUFFICES ASSUME modes = {"checkpoint"} PROVE RestartSound'
  BY DEF RestartSound, SendFails, argVars
<1>1. pc = "transfer" /\ pc' = "idle" /\ UNCHANGED <<nextId, modes>>
  BY DEF SendFails, Turn, Ends, argVars
<1>2. CASE Fault
  BY <1>1, <1>2, FaultRestart
<1>3. CASE id \notin alive /\ NoFault
  <2>1. Bounded' /\ (Spare(1) => Spare(1)')
    BY <1>1, <1>3, NothingSpent DEF NoFault
  <2>2. ~OnTrack
    BY <1>1, <1>3 DEF OnTrack, Undisturbed
  <2>. QED  BY <1>1, <2>1, <2>2 DEF RestartSound
<1>. QED  BY <1>2, <1>3 DEF SendFails

LEMMA TransferredRestart ==
  ASSUME IInv, RestartSound, Transferred \/ FileEndsEarly
  PROVE  RestartSound'
<1>. SUFFICES ASSUME modes = {"checkpoint"} PROVE RestartSound'
  BY DEF RestartSound, Transferred, FileEndsEarly, argVars
<1>1. /\ pc = "transfer" /\ pc' = "complete"
      /\ touched \/ \A p \in Numbers(psz) \ lost : etags[p] # None
      /\ UNCHANGED <<local, psz, ckpt, server, alive, nextId, modes, threads, start, id, exist,
                     resume, etags, lost, touched, faults>>
  BY DEF Transferred, FileEndsEarly, Goto, fileVars, serverVars, argVars, planVars, sentVars
<1>2. Bounded' /\ (Spare(1) => Spare(1)')
  BY <1>1, NothingSpent
<1>3. ASSUME OnTrack PROVE OnTrack'
  <2>1. Undisturbed /\ PartsTold /\ lost = {} /\ HasPart(id)
    BY <1>1, <1>3 DEF OnTrack, Undisturbed
  <2>. QED
    BY <1>1, <2>1 DEF OnTrack, Undisturbed, Current, Fits, LocalPart, PartsTold, Skips, HasPart
<1>. QED  BY <1>1, <1>2, <1>3 DEF RestartSound

\* A call that hangs has lost a part, and a fault has paid for its successor.
LEMMA HangsRestart ==
  ASSUME IInv, RestartSound, Hangs
  PROVE  RestartSound'
<1>1. pc = "transfer" /\ pc' = "hung" /\ lost # {} /\ UNCHANGED <<nextId, modes, faults>>
  BY DEF Hangs, Goto, serverVars, argVars
<1>. SUFFICES ASSUME modes = {"checkpoint"} PROVE RestartSound'
  BY <1>1 DEF RestartSound
<1>2. Bounded' /\ (Spare(1) => Spare(1)')
  BY <1>1, NothingSpent
<1>3. ~OnTrack
  BY <1>1 DEF OnTrack
<1>. QED  BY <1>1, <1>2, <1>3 DEF RestartSound

\* What the server refuses can be resumed.
LEMMA CompleteRefusedRestart ==
  ASSUME IInv, RestartSound, CompleteRefused
  PROVE  RestartSound'
<1>. SUFFICES ASSUME modes = {"checkpoint"} PROVE RestartSound'
  BY DEF RestartSound, CompleteRefused, argVars
<1>1. /\ pc = "complete" /\ pc' = "idle"
      /\ UNCHANGED <<local, stamp, psz, ckpt, server, alive, nextId, modes, start, faults>>
  BY DEF CompleteRefused, Ends, fileVars, serverVars, argVars
<1>2. Bounded' /\ (Spare(1) => Spare(1)')
  BY <1>1, NothingSpent
<1>3. ASSUME OnTrack PROVE Resumable(stamp)' /\ Current(ckpt.id)'
  <2>1. Undisturbed /\ HasPart(id) /\ id # 0
    <3>1. Undisturbed /\ HasPart(id)
      BY <1>1, <1>3 DEF OnTrack
    <3>. QED  BY <3>1 DEF Undisturbed, IInv, TypeOK, Ids
  <2>2. start = stamp
    BY <1>1, <2>1 DEF Undisturbed, IInv, FileSound
  <2>3. ckpt.id = id /\ ckpt.stamp = stamp /\ ckpt.psz = psz /\ ckpt # NoCheckpoint
    BY <2>1, <2>2 DEF Undisturbed, NoCheckpoint
  <2>4. Resumable(stamp) /\ Current(ckpt.id)
    BY <2>1, <2>3 DEF Resumable, Undisturbed
  <2>. QED  BY <1>1, <2>4 DEF Resumable, Current, Fits, LocalPart, HasPart
<1>. QED  BY <1>1, <1>2, <1>3 DEF RestartSound, OnTrack

\* What it accepts has the right CRC-64.
LEMMA CompleteSucceedsRestart ==
  ASSUME IInv, RestartSound, CompleteSucceeds
  PROVE  RestartSound'
<1>. SUFFICES ASSUME modes = {"checkpoint"} PROVE RestartSound'
  BY DEF RestartSound, CompleteSucceeds, argVars
<1>1. /\ pc = "complete" /\ Acceptable /\ object' = etags
      /\ IF checks => object' = crcs THEN pc' = "remove" ELSE pc' = "idle"
      /\ UNCHANGED <<nextId, modes, touched, faults>>
  BY DEF CompleteSucceeds, Merge, Goto, Ends, argVars
<1>2. Bounded' /\ (Spare(1) => Spare(1)')
  BY <1>1, NothingSpent
<1>3. ASSUME OnTrack PROVE ~touched /\ etags = crcs
  <2>1. Undisturbed /\ PartsTold
    BY <1>1, <1>3 DEF OnTrack
  <2>2. ~touched
    BY <2>1 DEF Undisturbed
  <2>3. \A p \in Numbers(psz) : etags[p] # None
    BY <1>1, <1>3, <2>2 DEF IInv, PlacesSound, OnTrack
  <2>4. \A p \in Parts : etags[p] # None => etags[p] = server[id][p]
    BY <1>1 DEF Acceptable, Listed
  <2>5. \A p \in Parts : etags[p] # None => etags[p] = LocalPart(p)
    BY <2>1, <2>4 DEF PartsTold
  <2>6. \A p \in Parts : crcs[p] = IF etags[p] # None THEN LocalPart(p) ELSE None
    BY <1>1, <2>2 DEF IInv, CrcsSound, Transferring
  <2>7. etags \in [Parts -> Contents] /\ crcs \in [Parts -> Contents]
    BY DEF IInv, TypeOK, PartMap
  <2>. QED  BY <2>2, <2>5, <2>6, <2>7
<1>4. CASE OnTrack
  BY <1>1, <1>2, <1>3, <1>4 DEF RestartSound, OnTrack
<1>5. CASE ~OnTrack
  BY <1>1, <1>2, <1>5 DEF RestartSound
<1>. QED  BY <1>4, <1>5

LEMMA RemoveRestart ==
  ASSUME IInv, RestartSound, RemoveCheckpoint
  PROVE  RestartSound'
<1>1. /\ pc = "remove" /\ pc' = "idle" /\ outcome' = "COMPLETED"
      /\ UNCHANGED <<nextId, modes, touched, faults>>
  BY DEF RemoveCheckpoint, Ends, serverVars, argVars
<1>. SUFFICES ASSUME modes = {"checkpoint"} PROVE RestartSound'
  BY <1>1 DEF RestartSound
<1>2. Bounded' /\ (Spare(1) => Spare(1)')
  BY <1>1, NothingSpent
<1>. QED  BY <1>1, <1>2 DEF RestartSound, OnTrack

\* An edit, or the end of an upload, while a call looks for one to resume.
LEMMA MeanwhileRestart ==
  ASSUME IInv, RestartSound, Edit \/ (\E u \in Ids : Expire(u))
  PROVE  RestartSound'
<1>1. Fault /\ UNCHANGED <<psz, ckpt, server, nextId, modes, start, exist, pc>>
  BY DEF Edit, Expire, fileVars, serverVars, argVars, planVars
<1>. SUFFICES ASSUME modes = {"checkpoint"} PROVE RestartSound'
  BY <1>1 DEF RestartSound
<1>2. Spare(1)'
  BY <1>1, FaultSpares
<1>3. CASE pc \notin {"load", "list", "init"}
  BY <1>1, <1>3, FaultRestart
<1>4. CASE pc \in {"load", "list", "init"}
  <2>1. nextId \in Nat /\ faults \in Nat /\ faults' = faults + 1 /\ nextId' = nextId
    BY <1>1, Counts DEF IInv, Fault
  <2>2. Bounded'
    <3>1. \A m, n \in Nat : m <= n + 2 => m <= (n + 1) + 2
      OBVIOUS
    <3>. QED  BY <2>1, <3>1 DEF RestartSound, Bounded
  <2>3. Again \in {0, 1} /\ (Lacks' <=> Lacks)
    BY <1>1 DEF Again, Lacks
  <2>4. CASE Edit
    <3>1. touched' = TRUE /\ (Resumable(start)' <=> Resumable(start))
      <4>1. \A u, p : Bytes(LocalPart(p))' = Bytes(LocalPart(p)) /\ (Fits(u, p)' <=> Fits(u, p))
        BY <1>1 DEF Fits, LocalPart, PartOf, Bytes
      <4>. QED  BY <1>1, <2>4, <4>1 DEF Edit, Resumable, HasPart, serverVars
    <3>2. ASSUME pc = "init" \/ ~Resumable(start) PROVE Spare(1 + Again)'
      <4>1. Spare(1 + Again)
        BY <1>4, <3>2 DEF RestartSound
      <4>2. \A m, n \in Nat, d \in {0, 1} : m + (1 + d) <= n + 2 => m + (1 + 1) <= (n + 1) + 2
        OBVIOUS
      <4>. QED  BY <2>1, <2>3, <3>1, <4>1, <4>2 DEF Spare, Again
    <3>. QED  BY <1>1, <1>2, <1>4, <2>2, <2>3, <3>1, <3>2 DEF RestartSound
  <2>5. CASE \E u \in Ids : Expire(u)
    <3>1. Again' = Again
      BY <2>5 DEF Expire, Again
    <3>2. Spare(Again)
      <4>1. Spare(1 + Again) => Spare(Again)
        <5>1. \A m, n \in Nat, d \in {0, 1} : m + (1 + d) <= n + 2 => m + d <= n + 2
          OBVIOUS
        <5>. QED  BY <2>1, <2>3, <5>1 DEF Spare
      <4>2. CASE Spare(1 + Again)
        BY <4>1, <4>2
      <4>3. CASE pc # "init" /\ Resumable(start)
        BY <1>4, <2>1, <4>3 DEF RestartSound, Bounded, Spare, Again
      <4>. QED  BY <1>4, <4>2, <4>3 DEF RestartSound
    <3>3. Spare(1 + Again)'
      <4>1. \A m, n \in Nat, d \in {0, 1} : m + d <= n + 2 => m + (1 + d) <= (n + 1) + 2
        OBVIOUS
      <4>. QED  BY <2>1, <2>3, <3>1, <3>2, <4>1 DEF Spare
    <3>. QED  BY <1>1, <1>2, <1>4, <2>2, <2>3, <3>3 DEF RestartSound
  <2>. QED  BY <2>4, <2>5
<1>. QED  BY <1>3, <1>4

\* What it takes to begin an upload anew is kept by every step.
LEMMA NextRestart ==
  ASSUME IInv, RestartSound, [Next]_vars
  PROVE  RestartSound'
<1>1. CASE UNCHANGED vars
  BY <1>1 DEF vars, fileVars, serverVars, argVars, planVars, sentVars, RestartSound, Spare, Bounded,
     Again, Lacks, Resumable, HasPart, Current, Fits, LocalPart, OnTrack, Undisturbed, PartsTold, Skips
<1>2. CASE Step
  <2>1. ASSUME NEW p \in Parts, SkipPart(p) \/ SendPart(p) \/ SendFails(p) \/ PartThrows(p)
        PROVE  RestartSound'
    <3>1. CASE PartThrows(p)
      <4>1. Fault /\ pc' = "transfer" /\ UNCHANGED <<nextId, modes>>
        BY <3>1 DEF PartThrows, Turn, argVars
      <4>. QED  BY <4>1, FaultRestart
    <3>. QED  BY <2>1, <3>1, SkipPartRestart, SendPartRestart, SendFailsRestart
  <2>2. CASE InitFails \/ CancelWay \/ CompleteFails
    <3>1. Fault /\ pc' = "idle" /\ UNCHANGED <<nextId, modes>>
      BY <2>2 DEF InitFails, CancelWay, CompleteFails, Ends, serverVars, argVars
    <3>. QED  BY <3>1, FaultRestart
  <2>. QED
    BY <1>2, <2>1, <2>2, CallRestart, LoadRestart, ListRestart, InitSucceedsRestart, SaveRestart,
       TransferredRestart, HangsRestart, CompleteRefusedRestart, CompleteSucceedsRestart, RemoveRestart
    DEF Step, LoadStep, ListStep
<1>3. CASE Environment
  <2>1. CASE Crash \/ Reconfigure
    <3>1. Fault /\ pc' = "idle" /\ UNCHANGED <<nextId, modes>>
      BY <2>1 DEF Crash, Reconfigure, Ends, serverVars, argVars
    <3>. QED  BY <3>1, FaultRestart
  <2>. QED  BY <1>3, <2>1, MeanwhileRestart DEF Environment
<1>. QED  BY <1>1, <1>2, <1>3 DEF Next, Done

\* A client that keeps its checkpoints has the server open one upload, and at most
\* one more for every fault: a restart never leads to another by itself.
THEOREM RestartsArePaidFor == Spec => []RestartsBounded
<1>1. Init => RestartSound
  BY DEF Init, RestartSound, Spare, Bounded
<1>2. IInv /\ RestartSound /\ [Next]_vars => RestartSound'
  BY NextRestart
<1>3. RestartSound => RestartsBounded
  BY DEF RestartSound, Bounded, RestartsBounded
<1>. QED  BY Invariance, <1>1, <1>2, <1>3, PTL DEF Spec

-----------------------------------------------------------------------------
(* UploadAction                                                            *)

\* What an attempt has read of the stream is what it has sent, from the place
\* where the first attempt began.
AttemptSound ==
  /\ at = "send" => pos = begin
  /\ at = "body" => pos = begin + sent
  /\ at = "await" => pos = begin + sent /\ pos = Length

\* A good answer is about an object the server has; a cancelled request is over.
AnswerSound ==
  /\ stored \in {0, Length}
  /\ answer.succ => at \in {"answered", "done"} /\ stored = Length
  /\ answer.http = "UserCancel" => at \in {"answered", "done"} /\ ~answer.succ

UploadIInv == UploadTypeOK /\ AttemptSound /\ AnswerSound

\* A CosResult built from its three parts.
LEMMA AnswerTyped ==
  ASSUME NEW http \in HttpStatuses, NEW reqid \in BOOLEAN, NEW succ \in BOOLEAN,
         Answer(http, reqid, succ)
  PROVE  /\ answer' \in CosResults /\ at' = "answered"
         /\ answer'.http = http /\ answer'.succ = succ
  BY DEF Answer, CosResults

\* The invariant holds initially.
LEMMA UploadInitIInv == UploadInit => UploadIInv
<1>. SUFFICES ASSUME UploadInit PROVE UploadIInv
  OBVIOUS
<1>1. NoResult \in CosResults
  BY DEF NoResult, CosResults, HttpStatuses
<1>2. NoResult.http = "Other" /\ NoResult.succ = FALSE
  BY DEF NoResult
<1>3. cancel \in BOOLEAN
  BY DEF UploadInit
<1>. QED
  BY <1>1, <1>2, <1>3, UploadAssumption, RetryAssumption
  DEF UploadInit, UploadIInv, UploadTypeOK, AttemptSound, AnswerSound

\* The steps of a request that bring no answer.
LEMMA SendingIInv ==
  ASSUME UploadIInv, Connect \/ SendChunk \/ SendEnds \/ Cancel \/ UploadDone
  PROVE  UploadIInv'
<1>. USE UploadAssumption, RetryAssumption DEF UploadIInv
<1>1. CASE Connect
  BY <1>1 DEF Connect, UploadTypeOK, AttemptSound, AnswerSound
<1>2. CASE SendChunk
  <2>1. progress' \in 0 .. Length
    BY <1>2 DEF SendChunk, UpdateProgress, UploadTypeOK
  <2>2. pos' \in 0 .. Length /\ sent' \in 0 .. Length
    BY <1>2 DEF SendChunk, UploadTypeOK, AttemptSound
  <2>. QED  BY <1>2, <2>1, <2>2 DEF SendChunk, UploadTypeOK, AttemptSound, AnswerSound
<1>3. CASE SendEnds
  BY <1>3 DEF SendEnds, UploadTypeOK, AttemptSound, AnswerSound
<1>4. CASE Cancel
  BY <1>4 DEF Cancel, UploadTypeOK, AttemptSound, AnswerSound
<1>5. CASE UploadDone
  BY <1>5 DEF UploadDone, uploadVars, UploadTypeOK, AttemptSound, AnswerSound
<1>. QED  BY <1>1, <1>2, <1>3, <1>4, <1>5

\* The steps that bring an answer.
LEMMA AnsweringIInv ==
  ASSUME UploadIInv,
         \/ ConnectFails \/ SendCancelled \/ SendBreaks
         \/ AwaitFails \/ AwaitRefused \/ AwaitCancelled \/ AwaitSucceeds
  PROVE  UploadIInv'
<1>. USE UploadAssumption, RetryAssumption DEF UploadIInv
<1>1. at' = "answered" /\ answer' \in CosResults
  BY AnswerTyped DEF ConnectFails, SendCancelled, SendBreaks, AwaitFails, AwaitRefused,
       AwaitCancelled, AwaitSucceeds, HttpStatuses
<1>. USE DEF ConnectFails, SendCancelled, SendBreaks, AwaitFails, AwaitRefused,
       AwaitCancelled, AwaitSucceeds
<1>2. UNCHANGED <<config, begin, i, domain, sent, cancel>>
  OBVIOUS
<1>3. pos' \in 0 .. Length
  <2>1. pos' = pos \/ (pos < Length /\ pos' = pos + 1)
    OBVIOUS
  <2>. QED  BY <2>1 DEF UploadTypeOK
<1>4. progress' \in 0 .. Length
  <2>1. progress' = progress \/ UpdateProgress(1)
    OBVIOUS
  <2>. QED  BY <2>1 DEF UpdateProgress, UploadTypeOK
<1>5. stored' \in {0, Length}
  <2>1. stored' \in {stored, ContentLength}
    BY DEF Store
  <2>. QED  BY <2>1 DEF ContentLength, AnswerSound
<1>6. UploadTypeOK' /\ AttemptSound'
  BY <1>1, <1>2, <1>3, <1>4, <1>5, UploadAssumption DEF UploadTypeOK, AttemptSound
<1>7. answer'.succ => stored' = Length /\ answer'.http # "UserCancel"
  <2>1. CASE AwaitSucceeds
    <3>. PICK reqid \in BOOLEAN : Answer("OK", reqid, TRUE)
      BY <2>1
    <3>. QED  BY <2>1, AnswerTyped DEF ContentLength, HttpStatuses
  <2>2. CASE AwaitRefused
    <3>. PICK http \in {"Redirect", "Other", "4xx", "5xx"}, reqid \in BOOLEAN :
                Answer(http, reqid, FALSE)
      BY <2>2
    <3>. QED  BY AnswerTyped DEF HttpStatuses
  <2>3. CASE ConnectFails \/ SendCancelled \/ SendBreaks \/ AwaitFails \/ AwaitCancelled
    BY <2>3, AnswerTyped DEF HttpStatuses
  <2>. QED  BY <2>1, <2>2, <2>3
<1>. QED  BY <1>1, <1>5, <1>6, <1>7 DEF AnswerSound

\* The end of an attempt.
LEMMA LoopIInv ==
  ASSUME UploadIInv, GiveUp \/ Retry
  PROVE  UploadIInv' /\ (answer.http = "UserCancel" => answer'.http = "UserCancel" /\ i' = i)
<1>. USE UploadAssumption, RetryAssumption DEF UploadIInv
<1>1. CASE GiveUp
  <2>1. /\ answer' \in CosResults /\ answer'.http = answer.http
        /\ answer'.succ => answer.succ
    BY <1>1 DEF GiveUp, UploadTypeOK, CosResults
  <2>. QED  BY <1>1, <2>1 DEF GiveUp, UploadTypeOK, AttemptSound, AnswerSound
<1>2. CASE Retry
  <2>1. ~GivesUp(answer, i) /\ i < MaxRetryTimes /\ answer.http # "UserCancel" /\ ~answer.succ
    BY <1>2 DEF Retry, GivesUp, NoNeedRetry, UploadTypeOK
  <2>2. /\ i' \in 0 .. MaxRetryTimes /\ pos' \in 0 .. Length
        /\ domain' \in {"default", "backup"}
    BY <1>2, <2>1 DEF Retry, UploadTypeOK
  <2>. QED  BY <1>2, <2>1, <2>2 DEF Retry, UploadTypeOK, AttemptSound, AnswerSound
<1>. QED  BY <1>1, <1>2

\* Every step keeps the invariant.
LEMMA UploadNextIInv == UploadIInv /\ [UploadNext]_uploadVars => UploadIInv'
<1>. SUFFICES ASSUME UploadIInv, [UploadNext]_uploadVars PROVE UploadIInv'
  OBVIOUS
<1>1. CASE UNCHANGED uploadVars
  BY <1>1 DEF uploadVars, UploadIInv, UploadTypeOK, AttemptSound, AnswerSound
<1>2. CASE UploadNext
  BY <1>2, SendingIInv, AnsweringIInv, LoopIInv DEF UploadNext, Request
<1>. QED  BY <1>1, <1>2

\* The inductive invariant holds in every reachable state.
THEOREM UploadInvariance == UploadSpec => []UploadIInv
  BY UploadInitIInv, UploadNextIInv, PTL DEF UploadSpec

\* Every variable keeps its type.
THEOREM UploadTypeCorrect == UploadSpec => []UploadTypeOK
<1>1. UploadIInv => UploadTypeOK
  BY DEF UploadIInv
<1>. QED  BY <1>1, UploadInvariance, PTL

\* Every attempt sends the whole of what the first one was to send.
THEOREM AttemptsAreWhole == UploadSpec => []AttemptsSendAll
<1>1. UploadIInv => AttemptsSendAll
  BY UploadAssumption DEF UploadIInv, UploadTypeOK, AttemptSound, AttemptsSendAll
<1>. QED  BY <1>1, UploadInvariance, PTL

\* A cancellation that was noticed is the last word.
THEOREM CancelEndsRequest == UploadSpec => CancelIsFinal
<1>1. UploadIInv /\ [UploadNext]_uploadVars =>
        [answer.http = "UserCancel" =>
           answer'.http = "UserCancel" /\ i' = i /\ ~answer'.succ]_uploadVars
  <2>. SUFFICES ASSUME UploadIInv, UploadNext, answer.http = "UserCancel"
                PROVE  answer'.http = "UserCancel" /\ i' = i /\ ~answer'.succ
    OBVIOUS
  <2>1. at \in {"answered", "done"} /\ ~answer.succ
    BY DEF UploadIInv, AnswerSound
  <2>2. CASE GiveUp \/ Retry
    <3>1. answer'.http = "UserCancel" /\ i' = i /\ UploadIInv'
      BY <2>2, LoopIInv
    <3>. QED  BY <3>1 DEF UploadIInv, AnswerSound
  <2>3. CASE Cancel \/ UploadDone
    BY <2>1, <2>3 DEF Cancel, UploadDone, uploadVars
  <2>. QED
    BY <2>1, <2>2, <2>3 DEF UploadNext, Request, Connect, ConnectFails, SendChunk, SendCancelled,
         SendBreaks, SendEnds, AwaitFails, AwaitRefused, AwaitCancelled, AwaitSucceeds
<1>. QED  BY <1>1, UploadInvariance, PTL DEF UploadSpec, CancelIsFinal

\* The request was cancelled before the attempt at hand began, or before one that
\* came earlier.
Cancelled ==
  /\ cancel /\ begin < Length
  /\ at \in {"body", "await"} => sent = 0
  /\ ~answer.succ

\* No chunk is sent once the request is cancelled, and without chunks nothing is
\* stored and no good answer comes.
LEMMA CancelledKept ==
  ASSUME UploadIInv, Cancelled, [UploadNext]_uploadVars
  PROVE  Cancelled' /\ (stored = 0 => stored' = 0)
<1>. USE DEF Cancelled
<1>1. /\ sent \in Nat /\ begin \in Nat /\ Length \in Nat /\ Length # 0
      /\ answer \in CosResults
  BY UploadAssumption DEF UploadIInv, UploadTypeOK
<1>2. CASE UNCHANGED uploadVars \/ UploadDone
  BY <1>2 DEF uploadVars, UploadDone
<1>3. CASE Connect \/ SendChunk \/ SendEnds \/ Cancel
  BY <1>3 DEF Connect, SendChunk, SendEnds, Cancel
<1>4. CASE ConnectFails \/ SendCancelled \/ SendBreaks
  <2>1. at' = "answered" /\ answer'.succ = FALSE
    BY <1>4, AnswerTyped DEF ConnectFails, SendCancelled, SendBreaks, HttpStatuses
  <2>. QED  BY <1>4, <2>1 DEF ConnectFails, SendCancelled, SendBreaks
<1>5. CASE AwaitFails \/ AwaitRefused \/ AwaitCancelled
  <2>1. at' = "answered" /\ answer'.succ = FALSE
    <3>1. ASSUME AwaitRefused PROVE at' = "answered" /\ answer'.succ = FALSE
      <4>. PICK http \in {"Redirect", "Other", "4xx", "5xx"}, reqid \in BOOLEAN :
                  Answer(http, reqid, FALSE)
        BY <3>1 DEF AwaitRefused
      <4>. QED  BY AnswerTyped DEF HttpStatuses
    <3>2. ASSUME AwaitFails \/ AwaitCancelled PROVE at' = "answered" /\ answer'.succ = FALSE
      BY <3>2, AnswerTyped DEF AwaitFails, AwaitCancelled, HttpStatuses
    <3>. QED  BY <1>5, <3>1, <3>2
  <2>2. stored' = stored
    <3>1. sent # ContentLength
      BY <1>1, <1>5 DEF ContentLength, AwaitFails, AwaitRefused, AwaitCancelled
    <3>. QED  BY <1>5, <3>1 DEF Store, AwaitFails, AwaitRefused, AwaitCancelled
  <2>. QED  BY <1>5, <2>1, <2>2 DEF AwaitFails, AwaitRefused, AwaitCancelled
<1>6. CASE AwaitSucceeds
  BY <1>1, <1>6 DEF AwaitSucceeds, ContentLength
<1>7. CASE GiveUp
  <2>1. answer'.succ => answer.succ
    BY <1>1, <1>7 DEF GiveUp, CosResults
  <2>. QED  BY <1>7, <2>1 DEF GiveUp
<1>8. CASE Retry
  BY <1>8 DEF Retry
<1>. QED  BY <1>2, <1>3, <1>4, <1>5, <1>6, <1>7, <1>8 DEF UploadNext, Request

\* A cancellation that came before an attempt began prevails, noticed or not.
THEOREM CancelIsObeyed == UploadSpec => CancelPrevails
<1>. DEFINE Early == at = "send" /\ cancel /\ begin < Length
            Failed == ~answer.succ
            Nothing == stored = 0
<1>1. UploadIInv /\ Early => Cancelled
  BY DEF UploadIInv, AnswerSound, Cancelled
<1>2. UploadIInv /\ Cancelled /\ [UploadNext]_uploadVars => Cancelled' /\ (Nothing => Nothing')
  BY CancelledKept
<1>3. Cancelled => Failed
  BY DEF Cancelled
<1>. HIDE DEF Early, Failed, Nothing
<1>4. UploadSpec => [](Early => []Failed /\ (Nothing => []Nothing))
  BY <1>1, <1>2, <1>3, UploadInvariance, PTL DEF UploadSpec
<1>. QED  BY <1>4, PTL DEF CancelPrevails, Early, Failed, Nothing
===============================================================================

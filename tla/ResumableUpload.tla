--------------------------- MODULE ResumableUpload ---------------------------
(***************************************************************************)
(* ObjectOp::MultiUploadObject and UploadObjectResumableSingleThreadSync:  *)
(* a multipart upload that a later call can resume, from a local           *)
(* checkpoint file or, in the legacy mode, from the uploads the server     *)
(* lists.  A client calls again until an upload completes.  Requests fail, *)
(* upload ids expire, the process crashes, the part size is reconfigured   *)
(* and the local file is edited; MaxFaults bounds how often.               *)
(*                                                                         *)
(* The content of a part is <<version of the file, its first unit, the     *)
(* unit after its last>>; its etag and its CRC-64 are the content itself.  *)
(* How the threads of a transfer share the parts is the subject of         *)
(* MultiUpload, and here they go in any order.  The two functions do the   *)
(* same but for the threads and the cancel; a call that throws, because it *)
(* cannot look up a name, ends as one that fails.  The file keeps its      *)
(* length, but an edit that rewrites it leaves it short for a moment:      *)
(* another length would only be a second way for the check of the          *)
(* checkpoint's stamp to fail.                                             *)
(***************************************************************************)
EXTENDS Naturals

CONSTANTS FileLength, \* the length of the file, in units part sizes are multiples of
          PartSizes,  \* the part sizes the configuration takes
          Clients,    \* kinds of client: each the modes its calls look for uploads in
          Threads,    \* "multi" for MultiUploadObject, "single" for the other
          MaxFaults,  \* bound: failures, crashes, edits, reconfigurations
          MaxIds      \* bound: upload ids

ASSUME ResumableUploadAssumption ==
  /\ FileLength \in Nat \ {0}
  /\ PartSizes \subseteq Nat \ {0} /\ PartSizes # {}
  /\ \A modes \in Clients : modes # {} /\ modes \subseteq {"checkpoint", "legacy", "none"}
  /\ Threads \subseteq {"multi", "single"}
  /\ MaxFaults \in Nat
  /\ MaxIds \in Nat \ {0}

VARIABLES local,    \* the version of the local file
          stamp,    \* its modification time, in seconds
          hidden,   \* whether an edit has left the modification time as it was
          psz,      \* CosSysConfig::GetUploadPartSize()
          ckpt,     \* the checkpoint file
          object,   \* the parts of the object at the server
          server,   \* the parts stored under each upload id
          alive,    \* the uploads neither completed, aborted nor expired
          nextId,   \* the upload id the server gives next
          pc,       \* where the call is
          modes,    \* the modes of the client's calls
          mode,     \* where the call looks for an upload to resume
          threads,  \* the function called
          start,    \* last_modified
          checks,   \* req.CheckCRC64(), and the server tells a CRC-64
          id,       \* resume_uploadid, 0 when empty
          exist,    \* already_exist_parts
          resume,   \* resume_flag
          etags,    \* the etag of each part that is at the server
          crcs,     \* the content of which each part's CRC-64 was taken
          lost,     \* the parts whose tasks threw
          touched,  \* whether the file was edited since the call began
          outcome,  \* how the last call ended
          faults    \* what has gone wrong so far

fileVars == <<local, stamp, hidden, psz>>
serverVars == <<object, server, alive, nextId>>
argVars == <<modes, mode, threads, start, checks>>
planVars == <<id, exist, resume>>
sentVars == <<etags, crcs, lost>>
vars == <<fileVars, ckpt, serverVars, argVars, planVars, sentVars, pc, touched, outcome, faults>>

Parts == 1 .. FileLength
Ids == 1 .. MaxIds
Versions == 1 .. MaxFaults + 1

\* The parts the file has at a size, and part p of version v; the last one may
\* be shorter.
Numbers(size) == {p \in Parts : (p - 1) * size < FileLength}
PartOf(v, size, p) == <<v, (p - 1) * size, IF p * size < FileLength THEN p * size ELSE FileLength>>

None == <<0, 0, 0>>
Contents == (Versions \X (0 .. FileLength) \X (0 .. FileLength)) \cup {None}
Bytes(content) == content[3] - content[2]
PartMap == [Parts -> Contents]
NoParts == [p \in Parts |-> None]
NoCheckpoint == [id |-> 0, stamp |-> 0, psz |-> 0]

TypeOK ==
  /\ local \in Versions /\ stamp \in Versions /\ start \in Versions
  /\ hidden \in BOOLEAN /\ touched \in BOOLEAN
  /\ psz \in PartSizes
  /\ ckpt \in [id : Ids, stamp : Versions, psz : PartSizes] \cup {NoCheckpoint}
  /\ object \in PartMap
  /\ server \in [Ids -> PartMap]
  /\ alive \in SUBSET Ids
  /\ nextId \in 1 .. MaxIds + 1
  /\ pc \in {"idle", "load", "list", "check", "init", "save", "transfer", "hung", "complete",
            "remove"}
  /\ modes \in Clients /\ mode \in modes /\ threads \in Threads /\ checks \in BOOLEAN
  /\ id \in Ids \cup {0}
  /\ exist \in PartMap /\ etags \in PartMap /\ crcs \in PartMap
  /\ lost \in SUBSET Parts
  /\ resume \in BOOLEAN
  /\ outcome \in {"none", "COMPLETED", "FAILED", "CANCELED", "CRASHED"}
  /\ faults \in 0 .. MaxFaults

Init ==
  /\ local = 1 /\ stamp = 1 /\ start = 1
  /\ hidden = FALSE /\ touched = FALSE
  /\ psz \in PartSizes
  /\ ckpt = NoCheckpoint
  /\ object = NoParts
  /\ server = [u \in Ids |-> NoParts]
  /\ alive = {}
  /\ nextId = 1
  /\ pc = "idle"
  /\ modes \in Clients /\ mode \in modes /\ threads \in Threads /\ checks = FALSE
  /\ id = 0
  /\ exist = NoParts /\ etags = NoParts /\ crcs = NoParts /\ lost = {}
  /\ resume = FALSE
  /\ outcome = "none"
  /\ faults = 0

Fault == faults < MaxFaults /\ faults' = faults + 1
NoFault == UNCHANGED faults

\* What the call reads from the file.
LocalPart(p) == PartOf(local, psz, p)

\* The parts of one version of the file, all cut at one size.
Whole(parts, v) ==
  \E size \in PartSizes : \A p \in Parts :
    parts[p] = IF p \in Numbers(size) THEN PartOf(v, size, p) ELSE None

Goto(place) == pc' = place /\ UNCHANGED <<touched, outcome>>

Ends(status) == pc' = "idle" /\ outcome' = status /\ UNCHANGED touched

-----------------------------------------------------------------------------
\* The call, and the local checkpoint

\* The client calls until the file as it is now has been uploaded.
WantsToCall == (outcome # "COMPLETED" \/ touched) /\ nextId <= MaxIds

Call ==
  /\ pc = "idle"
  /\ WantsToCall
  /\ pc' = "load"
  /\ mode' \in modes /\ threads' \in Threads /\ checks' \in BOOLEAN
  /\ start' = stamp
  /\ id' = 0 /\ exist' = NoParts /\ resume' = FALSE
  /\ etags' = NoParts /\ crcs' = NoParts /\ lost' = {}
  /\ touched' = FALSE
  /\ outcome' = "none"
  /\ UNCHANGED <<fileVars, ckpt, serverVars, modes, faults>>

\* Mutation: the modification time is not compared.
CheckpointValidAnyTime == ckpt # NoCheckpoint

\* LoadAndValidateUploadCheckpoint
CheckpointValid == ckpt # NoCheckpoint /\ ckpt.stamp = start

SamePartSize == ckpt.psz = psz

\* No checkpoint, or an invalid one, which is removed.
LoadNothing ==
  /\ pc = "load" /\ mode = "checkpoint"
  /\ ~CheckpointValid
  /\ ckpt' = NoCheckpoint
  /\ Goto("init")
  /\ UNCHANGED <<fileVars, serverVars, argVars, planVars, sentVars, faults>>

\* Another part size: the old upload is aborted, which may go unanswered.
LoadOtherPartSize ==
  /\ pc = "load" /\ mode = "checkpoint"
  /\ CheckpointValid /\ ~SamePartSize
  /\ \/ alive' = alive \ {ckpt.id} /\ NoFault
     \/ UNCHANGED alive /\ Fault
  /\ ckpt' = NoCheckpoint
  /\ Goto("init")
  /\ UNCHANGED <<fileVars, object, server, nextId, argVars, planVars, sentVars>>

\* Mutation: an upload id that is gone fails the call, and its checkpoint stays.
LoadInvalidIdFails ==
  /\ pc = "load" /\ mode = "checkpoint"
  /\ CheckpointValid /\ SamePartSize
  /\ IF ckpt.id \in alive THEN Fault ELSE NoFault
  /\ Ends("FAILED")
  /\ UNCHANGED <<fileVars, ckpt, serverVars, argVars, planVars, sentVars>>

\* IsUploadIdValid: whatever made ListParts fail, the upload id is given up.
LoadInvalidId ==
  /\ pc = "load" /\ mode = "checkpoint"
  /\ CheckpointValid /\ SamePartSize
  /\ IF ckpt.id \in alive THEN Fault ELSE NoFault
  /\ ckpt' = NoCheckpoint
  /\ Goto("init")
  /\ UNCHANGED <<fileVars, serverVars, argVars, planVars, sentVars>>

LoadId ==
  /\ pc = "load" /\ mode = "checkpoint"
  /\ CheckpointValid /\ SamePartSize
  /\ ckpt.id \in alive
  /\ id' = ckpt.id
  /\ Goto("list")
  /\ UNCHANGED <<fileVars, ckpt, serverVars, argVars, exist, resume, sentVars, faults>>

\* A part the server has under the id u is as long as the file's of its number.
Fits(u, p) ==
  p \in Numbers(psz) /\ server[u][p] # None /\ Bytes(server[u][p]) = Bytes(LocalPart(p))

\* The parts GetUploadedPartsFromServer takes up among those numbered up to k.
UploadedUpTo(k) == [p \in Parts |-> IF p <= k /\ Fits(id, p) THEN server[id][p] ELSE None]

\* Mutation: has_valid_part is not set.
ListPartsForgets ==
  /\ pc = "list"
  /\ id \in alive
  /\ exist' = UploadedUpTo(FileLength)
  /\ resume' = FALSE
  /\ id' = 0
  /\ Goto("init")
  /\ UNCHANGED <<fileVars, ckpt, serverVars, argVars, sentVars, faults>>

\* GetUploadedPartsFromServer reads all pages; without a part to resume the
\* upload restarts, and its upload id is left behind.
ListParts ==
  /\ pc = "list"
  /\ id \in alive
  /\ exist' = UploadedUpTo(FileLength)
  /\ resume' = (exist' # NoParts)
  /\ id' = IF resume' THEN id ELSE 0
  /\ Goto(IF resume' THEN "transfer" ELSE "init")
  /\ UNCHANGED <<fileVars, ckpt, serverVars, argVars, sentVars, faults>>

\* The first page, or one with parts, cannot be had: the parts of the pages before
\* it stay in already_exist_parts, the checkpoint stays, and the upload restarts.
ListPartsFails ==
  /\ pc = "list"
  /\ IF id \in alive THEN Fault ELSE NoFault
  /\ \E k \in 0 .. FileLength :
       /\ k = 0 \/ \E p \in Parts : p > k /\ server[id][p] # None
       /\ exist' = UploadedUpTo(k)
  /\ resume' = FALSE
  /\ id' = 0
  /\ Goto("init")
  /\ UNCHANGED <<fileVars, ckpt, serverVars, argVars, sentVars>>

-----------------------------------------------------------------------------
\* The legacy mode: no checkpoint directory is configured

\* GetResumableUploadID takes the last upload listed for the key; the server
\* orders the list.
LegacyFind ==
  /\ pc = "load" /\ mode = "legacy"
  /\ id' \in alive
  /\ Goto("check")
  /\ UNCHANGED <<fileVars, ckpt, serverVars, argVars, exist, resume, sentVars, faults>>

LegacyFindNothing ==
  /\ pc = "load" /\ mode = "legacy"
  /\ IF alive = {} THEN NoFault ELSE Fault
  /\ Goto("init")
  /\ UNCHANGED <<fileVars, ckpt, serverVars, argVars, planVars, sentVars>>

LegacyDisabled ==
  /\ pc = "load" /\ mode = "none"
  /\ Goto("init")
  /\ UNCHANGED <<fileVars, ckpt, serverVars, argVars, planVars, sentVars, faults>>

\* CheckSinglePart, and the check of the number before it
Differs(p) == server[id][p] # None /\ (p \in Numbers(psz) => server[id][p] # LocalPart(p))

\* CheckUploadPart takes the parts in order until one differs from the file;
\* those it took before stay in already_exist_parts.
LegacyCheck ==
  /\ pc = "check"
  /\ id \in alive
  /\ exist' = [p \in Parts |-> IF \E q \in 1 .. p : Differs(q) THEN None ELSE server[id][p]]
  /\ resume' = ~(\E p \in Parts : Differs(p))
  /\ Goto(IF resume' THEN "transfer" ELSE "init")
  /\ UNCHANGED <<fileVars, ckpt, serverVars, argVars, id, sentVars, faults>>

\* A failed ListParts reads as an upload without parts.
LegacyCheckFails ==
  /\ pc = "check"
  /\ IF id \in alive THEN Fault ELSE NoFault
  /\ resume' = TRUE
  /\ Goto("transfer")
  /\ UNCHANGED <<fileVars, ckpt, serverVars, argVars, id, exist, sentVars>>

-----------------------------------------------------------------------------
\* A new upload

InitFails ==
  /\ pc = "init"
  /\ Fault
  /\ Ends("FAILED")
  /\ UNCHANGED <<fileVars, ckpt, serverVars, argVars, planVars, sentVars>>

InitSucceeds ==
  /\ pc = "init"
  /\ nextId <= MaxIds
  /\ id' = nextId
  /\ nextId' = nextId + 1
  /\ alive' = alive \cup {nextId}
  /\ Goto(IF mode = "checkpoint" THEN "save" ELSE "transfer")
  /\ UNCHANGED <<fileVars, ckpt, object, server, argVars, exist, resume, sentVars, faults>>

\* SaveUploadCheckpointFile: written aside and renamed, and nobody learns when it
\* could not be: the checkpoint before it stays, or one is left whose MD5 does not
\* agree, which is none.
Save ==
  /\ pc = "save"
  /\ \/ ckpt' = [id |-> id, stamp |-> start, psz |-> psz] /\ NoFault
     \/ ckpt' \in {ckpt, NoCheckpoint} /\ Fault
  /\ Goto("transfer")
  /\ UNCHANGED <<fileVars, serverVars, argVars, planVars, sentVars>>

-----------------------------------------------------------------------------
\* MultiThreadUpload and SingleThreadUpload

\* Mutation: SingleThreadUpload does not look at resume_flag either.
SkipsAnyway(p) == exist[p] # None

\* MultiThreadUpload does not look at resume_flag.
Skips(p) == exist[p] # None /\ (threads = "multi" \/ resume)

Turn(p) ==
  /\ pc = "transfer"
  /\ p \in Numbers(psz)
  /\ etags[p] = None /\ p \notin lost
  /\ threads = "single" => \A q \in 1 .. p - 1 : etags[q] # None

SkipPart(p) ==
  /\ Turn(p)
  /\ Skips(p)
  /\ etags' = [etags EXCEPT ![p] = exist[p]]
  /\ crcs' = [crcs EXCEPT ![p] = LocalPart(p)]
  /\ UNCHANGED <<fileVars, ckpt, serverVars, argVars, planVars, lost, pc, touched, outcome, faults>>

SendPart(p) ==
  /\ Turn(p)
  /\ ~Skips(p)
  /\ id \in alive
  /\ server' = [server EXCEPT ![id][p] = LocalPart(p)]
  /\ etags' = [etags EXCEPT ![p] = LocalPart(p)]
  /\ crcs' = [crcs EXCEPT ![p] = LocalPart(p)]
  /\ UNCHANGED <<fileVars, ckpt, object, alive, nextId, argVars, planVars, lost, pc, touched,
                 outcome, faults>>

\* A part cannot be read or sent, or its answer does not come.
SendFails(p) ==
  /\ Turn(p)
  /\ ~Skips(p)
  /\ \/ id \notin alive /\ NoFault /\ UNCHANGED server
     \/ Fault /\ UNCHANGED server
     \/ id \in alive /\ Fault /\ server' = [server EXCEPT ![id][p] = LocalPart(p)]
  /\ Ends("FAILED")
  /\ UNCHANGED <<fileVars, ckpt, object, alive, nextId, argVars, planVars, sentVars>>

\* The task of a part throws when it looks up the server's name, perhaps for a
\* second attempt, and dies without a word (MultiUpload).
PartThrows(p) ==
  /\ Turn(p)
  /\ ~Skips(p)
  /\ threads = "multi"
  /\ Fault
  /\ server' \in {server} \cup (IF id \in alive THEN {[server EXCEPT ![id][p] = LocalPart(p)]} ELSE {})
  /\ lost' = lost \cup {p}
  /\ UNCHANGED <<fileVars, ckpt, object, alive, nextId, argVars, planVars, etags, crcs, pc, touched,
                 outcome>>

\* So may the whole pool, and the caller waits for ever.
Hangs ==
  /\ pc = "transfer"
  /\ lost # {}
  /\ Goto("hung")
  /\ UNCHANGED <<fileVars, ckpt, serverVars, argVars, planVars, sentVars, faults>>

\* The user cancels: the upload id is kept.
CancelWay ==
  /\ pc = "transfer"
  /\ threads = "multi"
  /\ Fault
  /\ Ends("CANCELED")
  /\ UNCHANGED <<fileVars, ckpt, serverVars, argVars, planVars, sentVars>>

\* Nobody misses the parts of the tasks that threw.
Transferred ==
  /\ pc = "transfer"
  /\ \A p \in Numbers(psz) \ lost : etags[p] # None
  /\ Goto("complete")
  /\ UNCHANGED <<fileVars, ckpt, serverVars, argVars, planVars, sentVars, faults>>

\* Mutation: MultiThreadUpload takes it so too.
FileEndsEarlyAnyThread ==
  /\ pc = "transfer"
  /\ touched
  /\ \E p \in Numbers(psz) : etags[p] = None
  /\ Goto("complete")
  /\ UNCHANGED <<fileVars, ckpt, serverVars, argVars, planVars, sentVars, faults>>

\* SingleThreadUpload takes an early end of the file for its end, and lists the
\* parts before it.  MultiThreadUpload fails.
FileEndsEarly ==
  /\ pc = "transfer" /\ threads = "single"
  /\ touched
  /\ \E p \in Numbers(psz) : etags[p] = None
  /\ Goto("complete")
  /\ UNCHANGED <<fileVars, ckpt, serverVars, argVars, planVars, sentVars, faults>>

-----------------------------------------------------------------------------
\* CompleteMultiUpload and what follows it

Listed == {p \in Parts : etags[p] # None}

\* The server takes a list of parts whose etags are those of the parts it has.
Acceptable == id \in alive /\ Listed # {} /\ \A p \in Listed : etags[p] = server[id][p]

\* The parts that are listed become the object.
Merge ==
  /\ object' = etags
  /\ alive' = alive \ {id}

CompleteRefused ==
  /\ pc = "complete"
  /\ ~Acceptable
  /\ Ends("FAILED")
  /\ UNCHANGED <<fileVars, ckpt, serverVars, argVars, planVars, sentVars, faults>>

\* The request fails, or is done and its answer lost.
CompleteFails ==
  /\ pc = "complete"
  /\ Fault
  /\ \/ UNCHANGED <<object, alive>>
     \/ Acceptable /\ Merge
  /\ Ends("FAILED")
  /\ UNCHANGED <<fileVars, ckpt, server, nextId, argVars, planVars, sentVars>>

\* Mutation: the CRC-64 of the object is not compared.
CompleteSucceedsUnchecked ==
  /\ pc = "complete"
  /\ Acceptable
  /\ Merge
  /\ Goto("remove")
  /\ UNCHANGED <<fileVars, ckpt, server, nextId, argVars, planVars, sentVars, faults>>

\* The object is there; a call that checks the CRC-64 fails if it is not that of
\* the parts the call has read.
CompleteSucceeds ==
  /\ pc = "complete"
  /\ Acceptable
  /\ Merge
  /\ IF checks => object' = crcs THEN Goto("remove") ELSE Ends("FAILED")
  /\ UNCHANGED <<fileVars, ckpt, server, nextId, argVars, planVars, sentVars, faults>>

RemoveCheckpoint ==
  /\ pc = "remove"
  /\ ckpt' = IF mode = "checkpoint" THEN NoCheckpoint ELSE ckpt
  /\ Ends("COMPLETED")
  /\ UNCHANGED <<fileVars, serverVars, argVars, planVars, sentVars, faults>>

-----------------------------------------------------------------------------
\* The environment

Crash ==
  /\ pc # "idle"
  /\ Fault
  /\ Ends("CRASHED")
  /\ UNCHANGED <<fileVars, ckpt, serverVars, argVars, planVars, sentVars>>

\* Two edits within a second leave one modification time.
Edit ==
  /\ Fault
  /\ local' = local + 1
  /\ stamp' \in {stamp, stamp + 1}
  /\ hidden' = (hidden \/ stamp' = stamp)
  /\ touched' = TRUE
  /\ UNCHANGED <<psz, ckpt, serverVars, argVars, planVars, sentVars, pc, outcome>>

\* SetUploadPartSize, between two calls
Reconfigure ==
  /\ pc = "idle"
  /\ Fault
  /\ psz' \in PartSizes \ {psz}
  /\ UNCHANGED <<local, stamp, hidden, ckpt, serverVars, argVars, planVars, sentVars, pc, touched, outcome>>

\* A lifecycle rule of the bucket ends an upload.
Expire(u) ==
  /\ u \in alive
  /\ Fault
  /\ alive' = alive \ {u}
  /\ UNCHANGED <<fileVars, ckpt, object, server, nextId, argVars, planVars, sentVars, pc, touched, outcome>>

Done == (pc = "hung" \/ (pc = "idle" /\ ~WantsToCall)) /\ UNCHANGED vars

Step ==
  \/ Call
  \/ LoadNothing \/ LoadOtherPartSize \/ LoadInvalidId \/ LoadId
  \/ ListParts \/ ListPartsFails
  \/ LegacyFind \/ LegacyFindNothing \/ LegacyDisabled
  \/ LegacyCheck \/ LegacyCheckFails
  \/ InitFails \/ InitSucceeds \/ Save
  \/ \E p \in Parts : SkipPart(p) \/ SendPart(p) \/ SendFails(p) \/ PartThrows(p)
  \/ Hangs \/ CancelWay \/ Transferred \/ FileEndsEarly
  \/ CompleteRefused \/ CompleteFails \/ CompleteSucceeds \/ RemoveCheckpoint

Environment == Crash \/ Edit \/ Reconfigure \/ \E u \in Ids : Expire(u)

Next == Step \/ Environment \/ Done

Spec == Init /\ [][Next]_vars

\* The calling thread runs, every request ends, and the client calls again.
FairSpec == Spec /\ WF_vars(Step)

-----------------------------------------------------------------------------
\* Properties

\* The call can tell what it resumes from the file it reads: the legacy mode
\* compares contents, and the checkpoint's stamp tells versions apart, if no edit
\* hides and no client without a checkpoint sends parts to the same upload.
Tells == ~touched /\ (mode = "checkpoint" => ~hidden /\ "legacy" \notin modes)

\* A call that ends COMPLETED has left the whole local file, in the version it
\* has, at the server, whatever earlier calls left behind: if none of its tasks
\* threw, and the call can tell what it resumes or checks the CRC-64, which it does
\* not by default.
CompletedIsLocal ==
  pc = "idle" /\ outcome = "COMPLETED" /\ lost = {} /\ ~touched /\ (checks \/ Tells) =>
    Whole(object, local)

\* The object is never replaced by a mixture of versions, nor of parts cut at
\* different sizes, by a call that can tell what it resumes, although one upload
\* may hold such parts from calls before.  The multi-threaded upload installs no
\* object with parts missing, also when the file is short for a moment
\* (object_op.cpp:2292 says so in a comment), unless a task threw.
InstallsWhole ==
  [][object' # object /\ lost = {} =>
       /\ Tells => Whole(object', local)
       /\ threads = "multi" => \A p \in Numbers(psz) : object'[p] # None]_vars

\* A client that keeps its checkpoints never has the server open more than one
\* upload for every thing that went wrong, and one: restarts do not feed
\* themselves.
RestartsBounded == modes = {"checkpoint"} => nextId <= faults + 2

StartsOver(t) ==
  threads = t /\ ~resume /\ pc = "transfer" =>
    \A p \in Parts : etags[p] # None /\ id \in alive => server[id][p] = etags[p]

\* A single-threaded upload that restarts takes no part from the upload it gave
\* up: every etag it lists is one it got under its own upload id.
SingleStartsOver == StartsOver("single")

\* The same of the multi-threaded upload.  object_op.cpp:986 logs of a listing
\* that failed "Failed to get uploaded parts from server, will restart upload".
MultiStartsOver == StartsOver("multi")

\* With a checkpoint, a client that calls again has its calls end COMPLETED with
\* the file uploaded, as far as CompletedIsLocal promises, unless a call hangs.
EventuallyUploaded ==
  modes = {"checkpoint"} =>
    \/ <>[](pc = "hung")
    \/ <>[](/\ pc = "idle" /\ outcome = "COMPLETED"
            /\ lost = {} /\ (checks \/ ~hidden) => Whole(object, local))
=============================================================================

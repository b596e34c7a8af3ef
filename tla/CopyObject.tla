------------------------------ MODULE CopyObject ------------------------------
(***************************************************************************)
(* ObjectOp::Copy and MoveObject.  A copy is one request when source and   *)
(* destination are in one region or the source is small, and otherwise a   *)
(* multipart upload whose parts are copied by FileCopyTasks, a batch of    *)
(* pool threads at a time.  A move is a copy and then the removal of the   *)
(* source.  Meanwhile other clients may replace the source.                *)
(*                                                                         *)
(* Sizes count units.  A piece of the destination is the range it was      *)
(* copied from and the version the source then had.                        *)
(***************************************************************************)
EXTENDS NormalAction, SequencesExt

CONSTANTS MaxSize,     \* the largest source
          MaxVersion,  \* bound: how often the source is replaced
          OneRequest,  \* kPartSize5G
          PartSize,    \* the part size of the request
          MaxParts,    \* 10000
          PoolSizes,   \* the pool sizes a request may ask for
          MaxThreads   \* the capacity Poco gives a ThreadPool (16)

ASSUME CopyAssumption ==
  /\ {MaxSize, MaxVersion, OneRequest, PartSize, MaxThreads} \subseteq Nat \ {0}
  /\ MaxParts \in Nat /\ PoolSizes \subseteq Nat \ {0}

VARIABLES kind,     \* what was called
          sizes,    \* the size of each version of the source
          latest,   \* the version of the source
          gone,     \* whether the source was removed
          target,   \* the pieces of the destination; none before the copy
          open,     \* the multipart uploads open at the server
          made,     \* how many were ever begun; the last one is the copy's
          held,     \* what the server holds of its parts
          size,     \* file_size, as HEAD found it
          pool,     \* pool_size
          offset,   \* where the next part begins
          tasks,    \* the FileCopyTasks of the batch
          etags     \* the etags of the parts, in their order

sourceVars == <<sizes, latest>>
windowVars == <<size, pool, offset, tasks, etags>>
copyVars == <<kind, sourceVars, gone, target, open, made, held, windowVars>>

\* "copy across": from another region.
Copies == {"copy", "copy across", "move"}

Versions == 1 .. MaxVersion
Piece(lo, hi) == [lo |-> lo, hi |-> hi, ver |-> latest]
NoPiece == [lo |-> 0, hi |-> 0, ver |-> 0]

\* Where an operation ends: it returns, an exception leaves it, or the process dies.
Final == {"done", "thrown", "crashed"}

CopyInit ==
  /\ sizes \in [Versions -> 1 .. MaxSize]
  /\ latest = 1 /\ gone = FALSE
  /\ target = <<>>
  /\ open = {} /\ made = 0 /\ held = [n \in 1 .. MaxSize |-> NoPiece]
  /\ size = 0 /\ pool \in PoolSizes /\ offset = 0
  /\ tasks = <<>> /\ etags = <<>>

-----------------------------------------------------------------------------
\* The destination and the small copies

\* A copy source that cannot be taken apart.
CopyBadSource ==
  /\ FailHere("copy")
  /\ UNCHANGED copyVars

CopyBegin ==
  /\ pc = "copy"
  /\ pc' = IF kind = "copy across" THEN "head" ELSE "put copy"
  /\ UNCHANGED <<attempt, result, trouble, copyVars>>

\* The source's length decides how it is copied.
AfterHead(n) ==
  IF n < OneRequest THEN "put copy"
  ELSE IF n < PartSize * MaxParts THEN "init" ELSE "too large"

HeadSource ==
  /\ Reads("head", size' = sizes[latest], UNCHANGED size, AfterHead(sizes[latest]), "done")
  /\ UNCHANGED <<kind, sourceVars, gone, target, open, made, held, pool, offset, tasks, etags>>

TooLarge ==
  /\ FailHere("too large")
  /\ UNCHANGED copyVars

\* PutObjectCopy: the server copies whatever the source is now.
PutObjectCopy ==
  /\ Changes("put copy", sizes[latest] <= OneRequest,
             target' = <<Piece(0, sizes[latest] - 1)>>, UNCHANGED target,
             "etag", "done")
  /\ UNCHANGED <<kind, sourceVars, gone, open, made, held, windowVars>>

\* PutObjectCopy and CompleteMultiUpload: an answer without an ETag is a failure.
CheckEtag ==
  /\ pc = "etag"
  /\ \/ /\ pc' = IF kind = "move" THEN "delete source" ELSE "done"
        /\ UNCHANGED <<result, trouble>>
     \/ /\ pc' = "done"
        /\ result' = [result EXCEPT !.succ = FALSE]
        /\ trouble' = trouble + 1
  /\ UNCHANGED <<attempt, copyVars>>

\* MoveObject: whatever was copied, the source as it is now is removed.
DeleteSource ==
  /\ Changes("delete source", TRUE, gone' = TRUE, UNCHANGED gone, "done", "done")
  /\ UNCHANGED <<kind, sourceVars, target, open, made, held, windowVars>>

-----------------------------------------------------------------------------
\* The copy in parts

InitMultiUpload ==
  /\ Changes("init", TRUE,
             open' = open \cup {made + 1} /\ made' = made + 1, UNCHANGED <<open, made>>,
             "pool", "done")
  /\ UNCHANGED <<kind, sourceVars, gone, target, held, windowVars>>

\* Poco::ThreadPool(n) refuses more threads to begin with than it may ever have.
MakePool ==
  /\ pc = "pool"
  /\ pool' = IF size \div PartSize + 1 < pool THEN size \div PartSize + 1 ELSE pool
  /\ pc' = IF pool' > MaxThreads THEN "thrown" ELSE "fill"
  /\ UNCHANGED <<attempt, result, trouble, kind, sourceVars, gone, target, open, made, held,
                 size, offset, tasks, etags>>

\* A range is given with its last byte: a part has one byte more than PartSize.
RangeEnd(lo) == IF lo + PartSize >= size THEN size - 1 ELSE lo + PartSize

PartNumber(k) == Len(etags) + k

FillGoesOn == Len(tasks) < pool /\ offset < size

\* Mutation: ranges are given as if their end were excluded.
StartTaskOverlapping ==
  /\ pc = "fill" /\ FillGoesOn
  /\ tasks' = Append(tasks, [lo |-> offset, hi |-> RangeEnd(offset), state |-> "runs",
                             tries |-> 0, etag |-> NoPiece])
  /\ offset' = offset + PartSize
  /\ UNCHANGED <<requestVars, kind, sourceVars, gone, target, open, made, held, size, pool, etags>>

StartTask ==
  /\ pc = "fill" /\ FillGoesOn
  /\ tasks' = Append(tasks, [lo |-> offset, hi |-> RangeEnd(offset), state |-> "runs",
                             tries |-> 0, etag |-> NoPiece])
  /\ offset' = RangeEnd(offset) + 1
  /\ UNCHANGED <<requestVars, kind, sourceVars, gone, target, open, made, held, size, pool, etags>>

\* FileCopyTask::CopyTask: a loop of attempts of its own, in a thread of the pool.
TaskAnswered(k, r) ==
  tasks' = [tasks EXCEPT
    ![k].state = IF r.succ THEN "copied" ELSE IF GivesUp(r, tasks[k].tries) THEN "failed" ELSE "runs",
    ![k].tries = @ + 1,
    ![k].etag  = IF r.succ THEN Piece(tasks[k].lo, tasks[k].hi) ELSE @]

TaskAttempt(k) ==
  /\ tasks[k].state = "runs"
  /\ \/ /\ tasks[k].hi < sizes[latest]
        /\ held' = [held EXCEPT ![PartNumber(k)] = Piece(tasks[k].lo, tasks[k].hi)]
        /\ \E r \in {Good, Lost} : TaskAnswered(k, r)
     \/ /\ UNCHANGED held
        /\ \E r \in Failures : TaskAnswered(k, r)
  /\ UNCHANGED <<requestVars, kind, sourceVars, gone, target, open, made, size, pool, offset, etags>>

CopyTask == \E k \in DOMAIN tasks : TaskAttempt(k)

Failed == {k \in DOMAIN tasks : tasks[k].state = "failed"}

\* The batch is joined; unless a task has failed the next one begins.
Collect ==
  /\ pc = "fill" /\ ~FillGoesOn
  /\ \A k \in DOMAIN tasks : tasks[k].state # "runs"
  /\ IF Failed # {}
       THEN pc' = "abort" /\ UNCHANGED <<tasks, etags>>
       ELSE /\ etags' = etags \o [k \in DOMAIN tasks |-> tasks[k].etag]
            /\ tasks' = <<>>
            /\ pc' = IF offset < size THEN "fill" ELSE "complete"
  /\ UNCHANGED <<attempt, result, trouble, kind, sourceVars, gone, target, open, made, held,
                 size, pool, offset>>

\* Mutation: the upload is not aborted.
AbortForgotten ==
  /\ pc = "abort"
  /\ pc' = "report"
  /\ UNCHANGED <<attempt, result, trouble, copyVars>>

AbortMultiUpload ==
  /\ Changes("abort", made \in open, open' = open \ {made}, UNCHANGED open, "report", "done")
  /\ UNCHANGED <<kind, sourceVars, gone, target, made, held, windowVars>>

\* The failed task is asked for its status after it was deleted.
ReportTask ==
  /\ pc = "report"
  /\ pc' \in {"done", "crashed"}
  /\ result' \in Failures
  /\ UNCHANGED <<attempt, trouble, copyVars>>

\* The server completes an upload that is open and whose parts are those listed.
CompleteMultiUpload ==
  /\ Changes("complete",
             made \in open /\ \A k \in DOMAIN etags : held[k] = etags[k],
             open' = open \ {made} /\ target' = etags, UNCHANGED <<open, target>>,
             "etag", "done")
  /\ UNCHANGED <<kind, sourceVars, gone, made, held, windowVars>>

Copy ==
  \/ CopyBadSource \/ CopyBegin \/ HeadSource \/ TooLarge
  \/ PutObjectCopy \/ CheckEtag \/ DeleteSource
  \/ InitMultiUpload \/ MakePool \/ StartTask \/ CopyTask \/ Collect
  \/ AbortMultiUpload \/ ReportTask \/ CompleteMultiUpload

\* Another client replaces the source.
Overwrite ==
  /\ pc \notin Final
  /\ ~gone
  /\ latest < MaxVersion
  /\ latest' = latest + 1
  /\ UNCHANGED <<requestVars, kind, sizes, gone, target, open, made, held, windowVars>>

-----------------------------------------------------------------------------
\* Properties

\* A copy that succeeds has made a destination without gaps or overlaps, which
\* ends where some version of the source ended, however its parts were cut,
\* retried and batched; it is the source itself if nobody replaced that. A move
\* has removed its source only when the destination is the whole of a version.
CopyIsWhole ==
  /\ kind \in Copies /\ pc = "done" /\ result.succ =>
       /\ target # <<>> /\ target[1].lo = 0
       /\ \A k \in 2 .. Len(target) : target[k].lo = target[k - 1].hi + 1
       /\ \E v \in 1 .. latest : Last(target).hi = sizes[v] - 1
  /\ gone => \E v \in 1 .. latest : target = <<[lo |-> 0, hi |-> sizes[v] - 1, ver |-> v]>>
=============================================================================

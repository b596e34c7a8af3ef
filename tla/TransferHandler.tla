---------------------------- MODULE TransferHandler ----------------------------
(***************************************************************************)
(* TransferHandler: what an asynchronous operation and its users share.    *)
(* One thread of the SDK's pool runs the operation and reports to the      *)
(* handler with UpdateStatus(); any number of user threads cancel, wait    *)
(* and read the result.                                                    *)
(*                                                                         *)
(* UpdateStatus() is not atomic: the result is stored without a lock, then *)
(* the user's done callback runs, also without a lock, and only then is    *)
(* the status changed and the waiters woken under m_lock_stat.             *)
(***************************************************************************)
EXTENDS Naturals, Sequences

CONSTANT Users   \* the user threads that wait for the operation

Operations == {"GetObject", "PutObject", "MultiThreadDownload",
               "MultiUploadObject", "ResumableGetObject"}

Finished == {"ABORTED", "COMPLETED", "FAILED", "CANCELED"}
Statuses == Finished \cup {"NOT_START", "IN_PROGRESS", "RETRY"}

\* m_result, and the operation's own result: not set yet, a success, an error,
\* or the error whose message is "Request canceled by user".
Results == {"none", "ok", "error", "canceled"}

NoCall == [status |-> "none", at |-> "none"]
Calls == {NoCall} \cup [status : Statuses, at : {"callback", "lock"}]

Places == {"start", "run", "parts_ok", "parts_failed", "redo", "ended", "thrown"}

VARIABLES op,        \* the operation
          pc,        \* where it is
          local,     \* the result in its hands
          call,      \* the UpdateStatus() it is in, and how far
          cancel,    \* m_cancel
          status,    \* m_status
          result,    \* m_result
          callbacks, \* the results the done callback was shown
          waiter,    \* per user, where it is in WaitUntilFinish()
          got        \* per user, what GetResult() gave it after its wait

taskVars == <<op, pc, local>>
userVars == <<waiter, got>>
vars == <<taskVars, call, cancel, status, result, callbacks, userVars>>

TypeOK ==
  /\ op \in Operations
  /\ pc \in Places
  /\ local \in Results
  /\ call \in Calls
  /\ cancel \in BOOLEAN
  /\ status \in Statuses
  /\ result \in Results
  /\ callbacks \in Seq(Results)
  /\ waiter \in [Users -> {"away", "asleep", "awake", "returned"}]
  /\ got \in [Users -> Results \cup {"unread"}]

Init ==
  /\ op \in Operations
  /\ pc = "start"
  /\ local = "none"
  /\ call = NoCall
  /\ cancel = FALSE
  /\ status = "NOT_START"
  /\ result = "none"
  /\ callbacks = <<>>
  /\ waiter = [u \in Users |-> "away"]
  /\ got = [u \in Users |-> "unread"]

-----------------------------------------------------------------------------
\* UpdateStatus

IsFinishStatus(s) == s \in Finished

IsAllowTransition(org, dst) ==
  \/ org = dst
  \/ ~(IsFinishStatus(org) /\ IsFinishStatus(dst))
  \/ org = "CANCELED" /\ dst = "ABORTED"

\* Mutation: the result is not stored.
UpdateStatusNoResult(st, res) ==
  /\ call = NoCall
  /\ result' = result
  /\ call' = [status |-> st, at |-> IF IsFinishStatus(st) THEN "callback" ELSE "lock"]

\* The operation calls UpdateStatus(st, res): the result is stored first.
UpdateStatus(st, res) ==
  /\ call = NoCall
  /\ result' = res
  /\ call' = [status |-> st, at |-> IF IsFinishStatus(st) THEN "callback" ELSE "lock"]

\* UpdateStatus(st) without a result keeps the one that is there.
UpdateStatusOnly(st) == UpdateStatus(st, result)

\* Mutation: the done callback is not called.
DoneCallbackSkipped ==
  /\ call.at = "callback"
  /\ call' = [call EXCEPT !.at = "lock"]
  /\ UNCHANGED <<taskVars, cancel, status, result, callbacks, userVars>>

DoneCallback ==
  /\ call.at = "callback"
  /\ callbacks' = Append(callbacks, result)
  /\ call' = [call EXCEPT !.at = "lock"]
  /\ UNCHANGED <<taskVars, cancel, status, result, userVars>>

NotifyAll ==
  waiter' = [u \in Users |-> IF waiter[u] = "asleep" THEN "awake" ELSE waiter[u]]

\* Mutation: the condition is never notified.
TransitionSilent ==
  /\ call.at = "lock"
  /\ status' = IF IsAllowTransition(status, call.status) THEN call.status ELSE status
  /\ call' = NoCall
  /\ UNCHANGED <<taskVars, cancel, result, callbacks, userVars>>

\* The part of UpdateStatus() under the lock. A refused transition wakes nobody.
Transition ==
  /\ call.at = "lock"
  /\ IF IsAllowTransition(status, call.status)
       THEN /\ status' = call.status
            /\ IF IsFinishStatus(call.status) THEN NotifyAll ELSE UNCHANGED waiter
       ELSE UNCHANGED <<status, waiter>>
  /\ call' = NoCall
  /\ UNCHANGED <<taskVars, cancel, result, callbacks, got>>

-----------------------------------------------------------------------------
\* The operations, reduced to what they report. A request that is cut short by
\* Cancel() fails with the message "Request canceled by user".

Failures == IF cancel THEN {"error", "canceled"} ELSE {"error"}

\* The operation goes on at place p with result r, in a call of UpdateStatus().
Proceed(p, r) ==
  /\ pc' = p
  /\ local' = r
  /\ UNCHANGED <<op, cancel, status, callbacks, userVars>>

\* The last report of an operation that ended with result r.
Conclude(r) ==
  /\ UpdateStatus(IF r = "ok" THEN "COMPLETED" ELSE "FAILED", r)
  /\ Proceed("ended", r)

At(o, p) == op = o /\ pc = p

\* The key is illegal or the local file cannot be opened.
GetObjectFails ==
  /\ At("GetObject", "start")
  /\ Conclude("error")

GetObjectEnds ==
  /\ At("GetObject", "start")
  /\ \E r \in {"ok"} \cup Failures : Conclude(r)

PutObjectFails ==
  /\ At("PutObject", "start")
  /\ Conclude("error")

PutObjectEnds ==
  /\ At("PutObject", "start")
  /\ \E r \in {"ok"} \cup Failures : Conclude(r)

\* Some of the early errors are reported without their result.
MultiThreadDownloadFails ==
  /\ At("MultiThreadDownload", "start")
  /\ UpdateStatusOnly("FAILED") \/ UpdateStatus("FAILED", "error")
  /\ Proceed("ended", "error")

MultiThreadDownloadBegins ==
  /\ At("MultiThreadDownload", "start")
  /\ UpdateStatusOnly("IN_PROGRESS")
  /\ Proceed("run", "none")

MultiThreadDownloadEnds ==
  /\ At("MultiThreadDownload", "run")
  /\ \E r \in {"ok"} \cup Failures : Conclude(r)

\* InitMultiUpload failed, or its answer had no upload id.
InitMultiUploadFails ==
  /\ At("MultiUploadObject", "start")
  /\ UpdateStatusOnly("FAILED") \/ UpdateStatus("FAILED", "error")
  /\ Proceed("ended", "error")

MultiUploadBegins ==
  /\ At("MultiUploadObject", "start")
  /\ UpdateStatusOnly("IN_PROGRESS")
  /\ Proceed("run", "none")

\* MultiThreadUpload has already reported its failure when it returns.
MultiThreadUploadFails ==
  /\ At("MultiUploadObject", "run")
  /\ \/ UpdateStatusOnly("FAILED") /\ Proceed("parts_failed", "error")
     \/ \E r \in Failures : UpdateStatus("FAILED", r) /\ Proceed("parts_failed", r)

MultiThreadUploadSucceeds ==
  /\ At("MultiUploadObject", "run")
  /\ call = NoCall
  /\ Proceed("parts_ok", "ok")
  /\ UNCHANGED <<call, result>>

\* The message of an earlier error is kept.
CancelWay ==
  /\ op = "MultiUploadObject" /\ pc \in {"parts_ok", "parts_failed"}
  /\ cancel
  /\ LET r == IF local = "ok" THEN "canceled" ELSE local IN
       /\ UpdateStatus("CANCELED", r)
       /\ Proceed("ended", r)

PartsFailed ==
  /\ At("MultiUploadObject", "parts_failed")
  /\ ~cancel
  /\ UpdateStatus("FAILED", local)
  /\ Proceed("ended", local)

\* Mutation: a failed CompleteMultiUpload is not reported.
CompleteEndsSilently ==
  /\ At("MultiUploadObject", "parts_ok")
  /\ ~cancel
  /\ \/ UpdateStatus("COMPLETED", "ok") /\ Proceed("ended", "ok")
     \/ call = NoCall /\ Proceed("ended", "error") /\ UNCHANGED <<call, result>>

\* A failed CompleteMultiUpload is reported without its result.
CompleteEnds ==
  /\ At("MultiUploadObject", "parts_ok")
  /\ ~cancel
  /\ \/ UpdateStatus("COMPLETED", "ok") /\ Proceed("ended", "ok")
     \/ UpdateStatusOnly("FAILED") /\ Proceed("ended", "error")

ResumableGetFails ==
  /\ At("ResumableGetObject", "start")
  /\ UpdateStatusOnly("FAILED") \/ UpdateStatus("FAILED", "error")
  /\ Proceed("ended", "error")

ResumableGetBegins ==
  /\ At("ResumableGetObject", "start")
  /\ UpdateStatusOnly("IN_PROGRESS")
  /\ Proceed("run", "none")

ResumableGetEnds ==
  /\ At("ResumableGetObject", "run")
  /\ \E r \in {"ok"} \cup Failures : Conclude(r)

\* A resumed download whose CRC is wrong is done again from the start, without
\* the handler: Cancel() does not reach it.
ResumableGetRestarts ==
  /\ At("ResumableGetObject", "run")
  /\ call = NoCall
  /\ Proceed("redo", "none")
  /\ UNCHANGED <<call, result>>

RedownloadEnds ==
  /\ At("ResumableGetObject", "redo")
  /\ \E r \in {"ok", "error"} : Conclude(r)

\* An operation with a window leaves with the exception of ThreadPool::start();
\* the task of the pool swallows it.
OperationThrows ==
  /\ pc \in {"run", "redo"}
  /\ call = NoCall
  /\ Proceed("thrown", local)
  /\ UNCHANGED <<call, result>>

OperationStep ==
  \/ GetObjectFails \/ GetObjectEnds
  \/ PutObjectFails \/ PutObjectEnds
  \/ MultiThreadDownloadFails \/ MultiThreadDownloadBegins \/ MultiThreadDownloadEnds
  \/ InitMultiUploadFails \/ MultiUploadBegins
  \/ MultiThreadUploadFails \/ MultiThreadUploadSucceeds
  \/ CancelWay \/ PartsFailed \/ CompleteEnds
  \/ ResumableGetFails \/ ResumableGetBegins \/ ResumableGetEnds
  \/ ResumableGetRestarts \/ RedownloadEnds
  \/ OperationThrows

PoolThread == OperationStep \/ DoneCallback \/ Transition

-----------------------------------------------------------------------------
\* The users

Cancel ==
  /\ ~cancel
  /\ cancel' = TRUE
  /\ UNCHANGED <<taskVars, call, status, result, callbacks, userVars>>

\* Mutation: the status is not looked at again after a wake-up.
WaitUntilFinishOnce(u) ==
  /\ waiter[u] \in {"away", "awake"}
  /\ waiter' = [waiter EXCEPT ![u] =
                  IF waiter[u] = "awake" \/ IsFinishStatus(status) THEN "returned" ELSE "asleep"]
  /\ UNCHANGED <<taskVars, call, cancel, status, result, callbacks, got>>

\* WaitUntilFinish() takes the lock, looks at the status and sleeps or returns.
WaitUntilFinish(u) ==
  /\ waiter[u] \in {"away", "awake"}
  /\ waiter' = [waiter EXCEPT ![u] = IF IsFinishStatus(status) THEN "returned" ELSE "asleep"]
  /\ UNCHANGED <<taskVars, call, cancel, status, result, callbacks, got>>

\* A condition variable may wake a thread for no reason.
SpuriousWakeup(u) ==
  /\ waiter[u] = "asleep"
  /\ waiter' = [waiter EXCEPT ![u] = "awake"]
  /\ UNCHANGED <<taskVars, call, cancel, status, result, callbacks, got>>

\* m_result is read without a lock.
GetResult(u) ==
  /\ waiter[u] = "returned"
  /\ got[u] = "unread"
  /\ got' = [got EXCEPT ![u] = result]
  /\ UNCHANGED <<taskVars, call, cancel, status, result, callbacks, waiter>>

UserStep(u) == WaitUntilFinish(u) \/ SpuriousWakeup(u) \/ GetResult(u)

Done ==
  /\ pc \in {"ended", "thrown"} /\ call = NoCall
  /\ UNCHANGED vars

Next == PoolThread \/ (\E u \in Users : UserStep(u)) \/ Cancel \/ Done

Spec == Init /\ [][Next]_vars

\* The pool's thread runs and its requests end, the callback returns, and a
\* thread that was woken gets the lock.
Fairness ==
  /\ WF_vars(PoolThread)
  /\ \A u \in Users : WF_vars(WaitUntilFinish(u)) /\ WF_vars(GetResult(u))

FairSpec == Spec /\ Fairness

-----------------------------------------------------------------------------
\* Properties

\* A user that waited and then asks for the result learns what became of the
\* operation: the unlocked write of m_result is always ahead of the status, and
\* a second report never turns a failure into a success or back.
ReadersLearnTheVerdict ==
  \A u \in Users : got[u] # "unread" =>
    (got[u] = "ok" <=> status = "COMPLETED")

\* When a wait is over the done callback has been called, and its first call was
\* shown the verdict the waiter reads.
CallbackComesFirst ==
  (\E u \in Users : waiter[u] = "returned") =>
    /\ callbacks # <<>>
    /\ Head(callbacks) = "ok" <=> status = "COMPLETED"

\* What the operation returns and what its handler says agree when it is over,
\* whichever of its reports were refused or came without a result.
ReportsAgree ==
  pc = "ended" /\ call = NoCall =>
    /\ IsFinishStatus(status)
    /\ local = "ok" <=> status = "COMPLETED"
    /\ local = "ok" <=> result = "ok"

\* A finished operation stays finished, with the same status.
FinishIsFinal ==
  [][IsFinishStatus(status) => status' = status]_vars

\* The handler behaves as Completion: one verdict, and nobody returns before it.
Abstract == INSTANCE Completion WITH
  verdict <- IF ~IsFinishStatus(status) THEN "pending"
             ELSE IF status = "COMPLETED" THEN "ok" ELSE "failed",
  returned <- {u \in Users : waiter[u] = "returned"}

ImplementsCompletion == Abstract!Spec

\* Every user that waits returns, unless the operation left with an exception:
\* no report is missed between the look at the status and the sleep.
WaitersReturn ==
  \A u \in Users : (waiter[u] # "away") ~> (waiter[u] = "returned" \/ pc = "thrown")

-----------------------------------------------------------------------------
\* The inductive invariant

Verdict(r) == IF r = "ok" THEN "COMPLETED" ELSE "FAILED"

\* Until the first final report nothing is final; after it every report, made or
\* under way, says the same.
ReportsSound ==
  /\ call = NoCall \/ call.status \in {"IN_PROGRESS", "COMPLETED", "FAILED", "CANCELED"}
  /\ call.status = "COMPLETED" <=> (call # NoCall /\ pc = "ended" /\ local = "ok")
  /\ call.status = "IN_PROGRESS" => pc = "run" /\ call.at = "lock"
  /\ pc \in {"start", "run", "parts_ok", "redo", "thrown"} =>
       /\ ~IsFinishStatus(status)
       /\ callbacks = <<>>
       /\ result = "none"
       /\ ~IsFinishStatus(call.status)
  /\ pc \in {"start", "parts_ok", "redo", "thrown"} => call = NoCall
  /\ pc = "parts_failed" => local \in {"error", "canceled"} /\ op = "MultiUploadObject"
  /\ pc \in {"parts_failed", "ended"} =>
       /\ call = NoCall => IsFinishStatus(status) /\ callbacks # <<>>
       /\ call.at = "lock" => callbacks # <<>>
       /\ result = "ok" <=> local = "ok"
  /\ IsFinishStatus(status) =>
       /\ callbacks # <<>>
       /\ status = "COMPLETED" <=> result = "ok"
  /\ callbacks # <<>> => (Head(callbacks) = "ok" <=> result = "ok")

WaitersSound ==
  \A u \in Users :
    /\ waiter[u] = "returned" => IsFinishStatus(status)
    /\ got[u] # "unread" => waiter[u] = "returned" /\ (got[u] = "ok" <=> result = "ok")

IInv ==
  /\ TypeOK
  /\ ReportsSound
  /\ WaitersSound

=============================================================================

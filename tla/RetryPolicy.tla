------------------------------ MODULE RetryPolicy ------------------------------
(***************************************************************************)
(* When BaseOp and the slice tasks send a request again, and to which      *)
(* domain: BaseOpUtil's rules, over an abstraction of CosResult.           *)
(***************************************************************************)
EXTENDS Naturals

CONSTANT MaxRetryTimes   \* CosConfig's, read once per attempt and never changed

ASSUME RetryAssumption == MaxRetryTimes \in Nat

\* The HTTP status: 301, 302 and 307 are Redirect, every other status below 400
\* that is no success is Other; NetError and UserCancel are the SDK's own -1, -2.
HttpStatuses == {"OK", "Redirect", "Other", "4xx", "5xx", "NetError", "UserCancel"}

\* A CosResult: its status, whether the request id of COS came with it, and
\* whether the answer was found good.
CosResults == [http : HttpStatuses, reqid : BOOLEAN, succ : BOOLEAN]

NoResult == [http |-> "Other", reqid |-> FALSE, succ |-> FALSE]

\* What of the configuration matters: CosSysConfig::GetRetryChangeDomain(),
\* BaseOpUtil::UseDefaultDomain(), and whether the request is for CI.
Configs == [retryChangeDomain : BOOLEAN, useDefaultDomain : BOOLEAN, isCi : BOOLEAN]

\* Mutation: a cancelled request is sent again.
NoNeedRetryNotCancel(r) == r.succ \/ r.http = "4xx"

\* A success, the user's own decision, and the client's mistakes are final.
NoNeedRetry(r) == r.succ \/ r.http \in {"UserCancel", "4xx"}

\* Mutation: the last attempt stays on the default domain.
ShouldChangeBackupDomainLate(c, r, i) ==
  /\ c.retryChangeDomain /\ c.useDefaultDomain /\ ~c.isCi
  /\ ~r.reqid
  /\ r.http = "Redirect" \/ (i >= MaxRetryTimes /\ r.http = "5xx")

\* After attempt i, counted from 0. Only a server that is not COS, or a COS that
\* answers nothing of its own until the last retry, moves a request.
ShouldChangeBackupDomain(c, r, i) ==
  /\ c.retryChangeDomain /\ c.useDefaultDomain /\ ~c.isCi
  /\ ~r.reqid
  /\ r.http = "Redirect" \/ (i + 1 >= MaxRetryTimes /\ r.http = "5xx")

\* The loops end here, with the result of attempt i.
GivesUp(r, i) == i >= MaxRetryTimes \/ NoNeedRetry(r)
=============================================================================

----------------------------- MODULE NormalAction -----------------------------
(***************************************************************************)
(* BaseOp::NormalAction: a request without a stream is sent in attempts,   *)
(* whatever it asks for.  An answer may be lost after the server has done  *)
(* what was asked, and the request is then sent again: a server carries a  *)
(* request out at least once, not once.                                    *)
(*                                                                         *)
(* The thread that makes the requests is at pc; `at`, `good` and `bad`     *)
(* below are such places.                                                  *)
(***************************************************************************)
EXTENDS RetryPolicy

VARIABLES pc,       \* where the operation is
          attempt,  \* the attempt of its request
          result,   \* the CosResult of the last attempt
          trouble   \* history: the attempts to change something that were not answered well

requestVars == <<pc, attempt, result, trouble>>

\* The answers told apart. Busy also stands for an error in the body of a 200,
\* which the checked requests look for.
Good    == [http |-> "OK",       reqid |-> TRUE,  succ |-> TRUE]
Lost    == [http |-> "NetError", reqid |-> FALSE, succ |-> FALSE]
Busy    == [http |-> "5xx",      reqid |-> TRUE,  succ |-> FALSE]
Refused == [http |-> "4xx",      reqid |-> TRUE,  succ |-> FALSE]

Failures == {Lost, Busy, Refused}

RequestInit ==
  /\ attempt = 0
  /\ result = NoResult
  /\ trouble = 0

\* The result of an operation that is refused before any request is made.
FailHere(at) ==
  /\ pc = at
  /\ pc' = "done"
  /\ result' = NoResult
  /\ UNCHANGED <<attempt, trouble>>

\* One attempt, answered with r: the loop ends, or goes round.
Attempt(at, r, good, bad) ==
  /\ pc = at
  /\ result' = r
  /\ IF GivesUp(r, attempt)
       THEN attempt' = 0 /\ pc' = IF r.succ THEN good ELSE bad
       ELSE attempt' = attempt + 1 /\ pc' = at

\* A request that reads: what it learns, `learns`, only a good answer brings.
Reads(at, learns, ignorant, good, bad) ==
  /\ \/ learns /\ Attempt(at, Good, good, bad)
     \/ ignorant /\ \E r \in Failures : Attempt(at, r, good, bad)
  /\ UNCHANGED trouble

\* A request that changes something: the server carries it out if it `allows` it
\* and may fail to say so.
Changes(at, allows, effect, nothing, good, bad) ==
  \/ /\ allows /\ effect
     /\ \/ Attempt(at, Good, good, bad) /\ UNCHANGED trouble
        \/ Attempt(at, Lost, good, bad) /\ trouble' = trouble + 1
  \/ /\ nothing
     /\ \E r \in Failures : Attempt(at, r, good, bad)
     /\ trouble' = trouble + 1
=============================================================================

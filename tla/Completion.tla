------------------------------ MODULE Completion ------------------------------
(***************************************************************************)
(* What an asynchronous operation promises its users: it ends at most once *)
(* with one verdict, and nobody who waits for it returns before that.      *)
(***************************************************************************)
CONSTANT Users

VARIABLES verdict,   \* "pending", then "ok" or "failed" for good
          returned   \* the users whose wait is over

Init == verdict = "pending" /\ returned = {}

Finish ==
  /\ verdict = "pending"
  /\ verdict' \in {"ok", "failed"}
  /\ UNCHANGED returned

Return(u) ==
  /\ verdict # "pending"
  /\ u \notin returned
  /\ returned' = returned \cup {u}
  /\ UNCHANGED verdict

Next == Finish \/ \E u \in Users : Return(u)

Spec == Init /\ [][Next]_<<verdict, returned>>
=============================================================================

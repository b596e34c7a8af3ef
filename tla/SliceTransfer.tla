---------------------------- MODULE SliceTransfer ----------------------------
(***************************************************************************)
(* What a multi-threaded transfer promises, with no threads, slots or      *)
(* windows in it: a file is a set of slices (the ranges of a download, the *)
(* parts of an upload); each is delivered at most once, in any order; and  *)
(* the transfer ends once, either FAILED or, when nothing is missing but   *)
(* what it has forsaken, COMPLETED.  Nothing is delivered after the end,   *)
(* and nothing that was forsaken ever.                                     *)
(***************************************************************************)
CONSTANT Slices

VARIABLES delivered,   \* the slices that reached their destination
          forsaken,    \* those whose delivery was given up without a word
          outcome      \* "none" until the transfer ends

vars == <<delivered, forsaken, outcome>>

\* An earlier, interrupted transfer may already have delivered some slices.
Init ==
  /\ delivered \in SUBSET Slices
  /\ forsaken = {}
  /\ outcome = "none"

Deliver(s) ==
  /\ outcome = "none"
  /\ s \notin delivered \cup forsaken
  /\ delivered' = delivered \cup {s}
  /\ UNCHANGED <<forsaken, outcome>>

Forsake(s) ==
  /\ outcome = "none"
  /\ s \notin delivered \cup forsaken
  /\ forsaken' = forsaken \cup {s}
  /\ UNCHANGED <<delivered, outcome>>

Complete ==
  /\ outcome = "none"
  /\ delivered \cup forsaken = Slices
  /\ outcome' = "COMPLETED"
  /\ UNCHANGED <<delivered, forsaken>>

Fail ==
  /\ outcome = "none"
  /\ outcome' = "FAILED"
  /\ UNCHANGED <<delivered, forsaken>>

Next == (\E s \in Slices : Deliver(s) \/ Forsake(s)) \/ Complete \/ Fail

Spec == Init /\ [][Next]_vars

=============================================================================

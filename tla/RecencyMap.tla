------------------------------ MODULE RecencyMap ------------------------------
(***************************************************************************)
(* What a cache of a bounded size promises: its entries in the order of    *)
(* their last use, the latest first.  A full cache forgets the last one.   *)
(***************************************************************************)
EXTENDS Naturals, SequencesExt

CONSTANTS Keys, Values, Capacity

VARIABLE recent

Init == recent = <<>>

\* The place of a key's entry; there is one at most.
PlaceOf(k) == {n \in DOMAIN recent : recent[n][1] = k}

Use(k) == \E n \in PlaceOf(k) : recent' = <<recent[n]>> \o RemoveAt(recent, n)

Replace(k, v) == \E n \in PlaceOf(k) : recent' = <<<<k, v>>>> \o RemoveAt(recent, n)

Enter(k, v) ==
  /\ PlaceOf(k) = {}
  /\ recent' = <<<<k, v>>>> \o (IF Len(recent) < Capacity THEN recent ELSE Front(recent))

Next == \E k \in Keys : Use(k) \/ \E v \in Values : Replace(k, v) \/ Enter(k, v)

Spec == Init /\ [][Next]_recent
=============================================================================

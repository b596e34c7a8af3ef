----------------------------- MODULE ObjectCalls -----------------------------
(***************************************************************************)
(* The calls of CosAPI without a stream, in the thread of the caller: one  *)
(* request, or the sequences of requests that are Copy, MoveObject,        *)
(* DeleteObjects by prefix and PutObjects.  A behaviour is one call of any *)
(* of them.                                                                *)
(***************************************************************************)
EXTENDS CopyObject, PrefixOps, PlainRequests, Documents

vars == <<requestVars, copyVars, deleteVars, putVars, plainVars,
          documentVars>>

\* The arguments of the calls that are not made are as small as can be.
NoCopy == pool = Least(PoolSizes) /\ sizes = [v \in Versions |-> 1]
NoTree == tree = <<>>
NoBucket == bucket = {}
NoPlain == request = Reads0 /\ ~once

Init ==
  /\ RequestInit /\ CopyInit /\ PrefixInit /\ PlainInit
  /\ \/ pc = "copy" /\ kind \in Copies /\ NoBucket /\ NoTree /\ NoPlain /\ NoDocument
     \/ pc = "list" /\ kind = "delete" /\ NoCopy /\ NoTree /\ NoPlain /\ NoDocument
     \/ pc = "put" /\ kind = "put" /\ NoCopy /\ NoBucket /\ NoPlain /\ NoDocument
     \/ pc = "plain" /\ kind = "plain" /\ NoCopy /\ NoBucket /\ NoTree /\ NoDocument
     \/ NoCopy /\ NoBucket /\ NoTree /\ NoPlain /\ DocumentBegin /\ kind = "document"
  /\ DocumentInit

CopyStep == Copy /\ UNCHANGED <<deleteVars, putVars, plainVars, documentVars>>
DeleteStep == Delete /\ UNCHANGED <<copyVars, plainVars, documentVars>>
PutStep == Put /\ UNCHANGED <<copyVars, plainVars, documentVars>>
PlainStep == Plain /\ UNCHANGED <<copyVars, deleteVars, putVars, documentVars>>
DocumentStep == Document /\ UNCHANGED <<copyVars, deleteVars, putVars, plainVars>>
Others ==
  \/ kind \in Copies /\ Overwrite /\ UNCHANGED <<deleteVars, putVars, plainVars, documentVars>>
  \/ OthersPut /\ UNCHANGED <<copyVars, plainVars, documentVars>>
  \/ DocumentOthers /\ UNCHANGED <<copyVars, deleteVars, putVars, plainVars>>

Ended == pc \in Final /\ UNCHANGED vars

Next == CopyStep \/ DeleteStep \/ PutStep \/ PlainStep \/ DocumentStep \/ Others \/ Ended

\* The caller's thread runs and a request ends; in a behaviour about a document the
\* user need not go on. The last conjunct is about the server: a listing that is
\* asked for again and again is answered at last.
Fairness ==
  /\ WF_vars(CopyStep \/ DeleteStep \/ PutStep \/ PlainStep)
  /\ SF_vars(ListPage /\ result'.succ /\ UNCHANGED <<copyVars, plainVars, documentVars>>)

Spec == Init /\ [][Next]_vars /\ Fairness

-----------------------------------------------------------------------------
\* Properties

\* What a call leaves behind is never more than its bad answers account for: of a
\* copy, an upload nobody knows of or a destination although it says that it
\* failed (the failure of a part leaves nothing; the pool that cannot be made
\* leaves the upload); of a plain request, the effects beyond the one a success
\* reports. A success reports an effect that there is, and no request is carried
\* out more often than it is sent, or twice if the server refuses repetitions.
LeftBehind ==
  Cardinality(open) + (IF target # <<>> /\ ~result.succ THEN 1 ELSE 0)

EffectsExplained ==
  /\ kind \in Copies /\ pc \in Final => LeftBehind <= trouble + (IF pc = "thrown" THEN 1 ELSE 0)
  /\ kind = "plain" /\ pc = "done" =>
       /\ effects <= trouble + (IF result.succ THEN 1 ELSE 0)
       /\ result.succ /\ request.changes => effects >= 1
  /\ effects <= IF once THEN 1 ELSE MaxRetryTimes + 1

\* Every call returns, though a deletion by prefix only if the default domain
\* does not refuse every listing: answers of the backup domain keep it going.
\* In a behaviour about a document the user decides how many calls there are.
Returns == kind # "document" => <>(pc \in Final)
=============================================================================

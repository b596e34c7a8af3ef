----------------------------- MODULE MCAsyncCalls -----------------------------
EXTENDS AsyncCalls

CONSTANTS cn, tencentcos, own

\* Two hosts with default domains, the second being the first one's backup, and
\* one that has no backup.
MCKeys == {cn, tencentcos, own}
MCBackup == [h \in MCKeys |-> IF h = cn THEN tencentcos ELSE h]

\* Whether the cache was given any room: SetDnsCacheSize takes a size of zero too.
VARIABLE room

MCVars == <<processVars, room>>

Roomless == INSTANCE AsyncCalls WITH MaxEntries <- 0, MaxMoves <- 0, MaxTime <- 1

MCInit ==
  \/ room = "some" /\ AsyncInit
  \/ room = "none" /\ Roomless!AsyncInit

MCNext ==
  /\ \/ room = "some" /\ AsyncNext
     \/ room = "none" /\ Roomless!AsyncNext
  /\ UNCHANGED room

\* The fairness of AsyncCalls for the calls that are waited for, with a cache that
\* has room: none of it is needed for the other ones.
MCFairness ==
  \A c \in Callers \ MultiPart :
    WF_MCVars(room = "some" /\ UNCHANGED room /\ Runs(c))

MCSpec == MCInit /\ [][MCNext]_MCVars /\ MCFairness

-----------------------------------------------------------------------------
\* With a cache that has room, Resolve never takes the end of the list for an entry,
\* however the Gets and Puts of the threads cross: no call dies of it and all that
\* AsyncCalls promises of its waiters holds.
RoomLearns == room = "some" => WaitersLearn
=============================================================================

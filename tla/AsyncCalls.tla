------------------------------ MODULE AsyncCalls ------------------------------
(***************************************************************************)
(* Several asynchronous calls at once.  They share the threads of the      *)
(* global task manager, which has no queue, and the DNS cache, which is    *)
(* asked for every attempt of a request.  An exception that leaves a call  *)
(* ends with its Poco::Task: nobody learns of it.  A call in many parts    *)
(* makes one request after another; it may end with an exception of its    *)
(* own pool, or wait for ever for a part whose task did, as MultiDownload  *)
(* and MultiUpload show in detail.                                         *)
(***************************************************************************)
EXTENDS DnsCache, RetryPolicy, FiniteSets

CONSTANTS AsyncPoolSizes,  \* what GetAsynThreadPoolSize may return
          Backup,          \* ChangeHostSuffix: the backup domain of a host
          MultiPart        \* the callers whose call is one in many parts

ASSUME AsyncAssumption ==
  AsyncPoolSizes \subseteq Nat /\ Backup \in [Hosts -> Hosts] /\ MultiPart \subseteq Callers

VARIABLES threads,   \* the capacity of the task manager's pool
          attempts,  \* the attempts of each call of one request
          ended      \* the calls whose handler has a final status

asyncVars == <<threads, attempts, ended>>
processVars == <<dnsVars, asyncVars>>

AsyncInit ==
  /\ DnsInit
  /\ threads \in AsyncPoolSizes
  /\ attempts = [c \in Callers |-> 0]
  /\ ended = {}

-----------------------------------------------------------------------------
\* CosAPI::AsyncXxx and the task manager

\* A "lost" call ended with an exception, a "dead" one with the process.
Gone == {"refused", "returned", "lost", "dead"}

\* The calls that have a thread: also those that have ended and not returned, and
\* those that wait for ever.
Running == {c \in Callers : at[c] \notin {"idle"} \cup Gone}

\* GetGlobalTaskManager makes the pool with two threads to begin with; Poco
\* refuses that when it may have fewer, at each call again.
PoolThere == threads >= 2

Start(c) ==
  /\ PoolThere /\ Cardinality(Running) < threads
  /\ \E h \in Hosts : ResolveBegin(c, "idle", h)
  /\ UNCHANGED asyncVars

\* An exception to the caller, who gets no context.
StartRefused(c) ==
  /\ at[c] = "idle"
  /\ ~PoolThere \/ Cardinality(Running) >= threads
  /\ Goes(c, "refused")
  /\ UNCHANGED <<lruVars, worldVars, host, since, found, asyncVars>>

\* Some attempt fails and another one is due, to an address resolved again: the
\* host's, or its backup's when ShouldChangeBackupDomain finds the answer so.
SendFails(c) ==
  /\ c \notin MultiPart /\ attempts[c] < MaxRetryTimes
  /\ attempts' = [attempts EXCEPT ![c] = @ + 1]
  /\ \E h \in {host[c], Backup[host[c]]} : ResolveBegin(c, "resolved", h)
  /\ UNCHANGED <<threads, ended>>

\* Mutation: a failure after all the attempts sets no status.
FinishOnlyGood(c) ==
  /\ at[c] = "resolved"
  /\ CallOver(c, "finishing")
  /\ ended' = IF attempts[c] < MaxRetryTimes THEN ended \cup {c} ELSE ended
  /\ UNCHANGED <<threads, attempts>>

\* The last attempt's answer, good or bad, gives the handler its final status.
Finish(c) ==
  /\ at[c] = "resolved"
  /\ CallOver(c, "finishing")
  /\ ended' = ended \cup {c}
  /\ UNCHANGED <<threads, attempts>>

\* Another attempt of the call's request, or its next one, for which the host that
\* was asked for is the first again. Neither is counted.
NextRequest(c) ==
  /\ c \in MultiPart
  /\ \E h \in Hosts :
       /\ h \in {host[c], Backup[host[c]]} \/ Backup[h] = host[c]
       /\ ResolveBegin(c, "resolved", h)
  /\ UNCHANGED asyncVars

\* Poco's pool refuses a part's task, and nobody below the task manager catches it.
PartRefused(c) ==
  /\ c \in MultiPart
  /\ at[c] = "resolved"
  /\ CallOver(c, "thrown")
  /\ UNCHANGED asyncVars

\* A part's task ended with an exception, and the call waits for what it held.
PartLost(c) ==
  /\ c \in MultiPart
  /\ at[c] = "resolved"
  /\ CallOver(c, "hung")
  /\ UNCHANGED asyncVars

\* The thread goes back to the pool, later than the status tells.
Return(c) ==
  /\ at[c] \in {"finishing", "thrown"}
  /\ Goes(c, IF at[c] = "thrown" THEN "lost" ELSE "returned")
  /\ attempts' = [attempts EXCEPT ![c] = 0]
  /\ UNCHANGED <<lruVars, worldVars, host, since, found, threads, ended>>

Call(c) ==
  \/ Start(c) \/ StartRefused(c) \/ SendFails(c) \/ Finish(c) \/ Return(c)
  \/ NextRequest(c) \/ PartRefused(c) \/ PartLost(c)

World == (Tick \/ Renumber) /\ UNCHANGED asyncVars

Ended == (\A c \in Callers : at[c] \in Gone \cup {"hung"}) /\ UNCHANGED processVars

AsyncNext ==
  \/ \E c \in Callers : Call(c) \/ (Resolve(c) /\ UNCHANGED asyncVars)
  \/ World
  \/ Ended

\* What the thread of a call does once it has it.
Runs(c) ==
  \/ SendFails(c) \/ Finish(c) \/ Return(c)
  \/ NextRequest(c) \/ PartRefused(c) \/ PartLost(c)
  \/ Resolve(c) /\ UNCHANGED asyncVars

AsyncFairness == \A c \in Callers : WF_processVars(Runs(c))

AsyncSpec == AsyncInit /\ [][AsyncNext]_processVars /\ AsyncFairness

-----------------------------------------------------------------------------
\* Properties

\* Whoever waits for a call of one request that was accepted learns of its end,
\* unless the name could not be resolved, and its thread always comes back to the
\* pool: however many attempts fail, and though the calls in many parts beside it
\* end with exceptions or hold their threads for ever.
WaitersLearn ==
  \A c \in Callers \ MultiPart :
    at[c] = "get" ~> (at[c] = "lost" \/ (at[c] = "returned" /\ c \in ended))
=============================================================================

------------------------------- MODULE DnsCache -------------------------------
(***************************************************************************)
(* SimpleDnsCache::Resolve, called by many threads.  It asks the LRU cache *)
(* and, when the entry is missing or too old, the name server; the new     *)
(* entry is stamped with the time at which the call began.  Between those  *)
(* steps other threads use the cache, time passes and addresses change.    *)
(***************************************************************************)
EXTENDS LruCache

CONSTANTS Callers,
          Addresses,
          Expire,    \* m_expire_seconds
          MaxTime,   \* bound: the clock
          MaxMoves   \* bound: how often an address changes

Hosts == Keys

ASSUME DnsAssumption ==
  /\ Hosts # {} /\ Addresses # {}
  /\ Expire \in Nat /\ MaxTime \in Nat \ {0} /\ MaxMoves \in Nat

VARIABLES now,     \* time(NULL)
          actual,  \* the address each host has
          until,   \* history: when a host last had an address
          moves,   \* how often an address has changed
          at,      \* where a caller is
          host,    \* what it resolves
          since,   \* current_ts
          found    \* the address it has found

worldVars == <<now, actual, until, moves>>
callVars == <<at, host, since, found>>
dnsVars == <<lruVars, worldVars, callVars>>

Never == 0   \* the clock begins at 1

\* To begin with, and in variables that hold nothing yet; which one is of no matter.
AnAddress == CHOOSE a \in Addresses : TRUE
AHost == CHOOSE h \in Hosts : TRUE

DnsInit ==
  /\ LruInit
  /\ now = 1
  /\ actual = [h \in Hosts |-> AnAddress]
  /\ until = [h \in Hosts |-> [a \in Addresses |-> Never]]
  /\ moves = 0
  /\ at = [c \in Callers |-> "idle"]
  /\ host = [c \in Callers |-> AHost]
  /\ since = [c \in Callers |-> 0]
  /\ found = [c \in Callers |-> AnAddress]

Goes(c, place) == at' = [at EXCEPT ![c] = place]

\* The variables of a call go with it.
CallOver(c, place) ==
  /\ Goes(c, place)
  /\ host' = [host EXCEPT ![c] = AHost]
  /\ since' = [since EXCEPT ![c] = 0]
  /\ found' = [found EXCEPT ![c] = AnAddress]
  /\ UNCHANGED <<lruVars, worldVars>>

ResolveBegin(c, from, h) ==
  /\ at[c] = from
  /\ host' = [host EXCEPT ![c] = h]
  /\ since' = [since EXCEPT ![c] = now]
  /\ Goes(c, "get")
  /\ UNCHANGED <<lruVars, worldVars, found>>

\* Entries of calls that began later are not expired.
Expired(c, e) == since[c] > e[2].ts + Expire

ResolveHit(c) ==
  /\ at[c] = "get"
  /\ Exist(host[c])
  /\ LruGet(host[c])
  /\ LET e == Entry(host[c]) IN
       IF Expired(c, e)
         THEN Goes(c, "query") /\ UNCHANGED found
         ELSE Goes(c, "resolved") /\ found' = [found EXCEPT ![c] = e[2].addr]
  /\ UNCHANGED <<worldVars, host, since>>

\* The iterator is that of the list's end. Get copies an entry out of what lies
\* behind the list and then erases it; an exception on the way is taken for a miss.
ResolveAstray(c) ==
  /\ at[c] = "get"
  /\ AtEnd(host[c])
  /\ Goes(c, "query")
  /\ UNCHANGED <<lruVars, worldVars, host, since, found>>

\* Or it goes on and frees what was never allocated, as Put does: the process ends.
ProcessDies(c) ==
  /\ at[c] \in {"get", "put"}
  /\ AtEnd(host[c])
  /\ at' = [d \in Callers |-> "dead"]
  /\ UNCHANGED <<lruVars, worldVars, host, since, found>>

ResolveMiss(c) ==
  /\ at[c] = "get"
  /\ ~Exist(host[c])
  /\ Goes(c, "query")
  /\ UNCHANGED <<lruVars, worldVars, host, since, found>>

\* The name server answers, some time after the call began.
ResolveQuery(c) ==
  /\ at[c] = "query"
  /\ found' = [found EXCEPT ![c] = actual[host[c]]]
  /\ Goes(c, "put")
  /\ UNCHANGED <<lruVars, worldVars, host, since>>

\* hostByName throws, and nothing below the task manager catches it.
ResolveThrows(c) ==
  /\ at[c] = "query"
  /\ CallOver(c, "thrown")

\* Mutation: the entry is stamped with the time at which it is put.
ResolvePutNow(c) ==
  /\ at[c] = "put"
  /\ LruPut(host[c], [addr |-> found[c], ts |-> now])
  /\ Goes(c, "resolved")
  /\ UNCHANGED <<worldVars, host, since, found>>

ResolvePut(c) ==
  /\ at[c] = "put"
  /\ LruPut(host[c], [addr |-> found[c], ts |-> since[c]])
  /\ Goes(c, "resolved")
  /\ UNCHANGED <<worldVars, host, since, found>>

Resolve(c) ==
  \/ ResolveHit(c) \/ ResolveMiss(c) \/ ResolveAstray(c) \/ ProcessDies(c)
  \/ ResolveQuery(c) \/ ResolveThrows(c) \/ ResolvePut(c)

Tick ==
  /\ now < MaxTime
  /\ now' = now + 1
  /\ UNCHANGED <<lruVars, actual, until, moves, callVars>>

\* The name server gives a host another address.
Renumber ==
  /\ moves < MaxMoves
  /\ moves' = moves + 1
  /\ \E h \in Hosts, a \in Addresses :
       /\ a # actual[h]
       /\ until' = [until EXCEPT ![h][actual[h]] = now]
       /\ actual' = [actual EXCEPT ![h] = a]
  /\ UNCHANGED <<lruVars, now, callVars>>

-----------------------------------------------------------------------------
\* Properties

\* The address a call uses, whoever found it and however the answers of several
\* calls crossed, was the host's at some moment not longer than the expiry before
\* the call began.
LastTrue(h, a) == IF a = actual[h] THEN now ELSE until[h][a]

AddressRecentlyTrue ==
  \A c \in Callers : at[c] = "resolved" => LastTrue(host[c], found[c]) + Expire >= since[c]

\* The cache is a bounded map that forgets what was longest unused.
Recency == INSTANCE RecencyMap
  WITH Values <- [addr : Addresses, ts : 1 .. MaxTime], Capacity <- MaxEntries, recent <- Recent

ImplementsRecencyMap == Recency!Spec
=============================================================================

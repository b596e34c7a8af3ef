----------------------------- MODULE AsyncProofs -----------------------------
(***************************************************************************)
(* The asynchronous calls, for every number of callers, users, hosts and   *)
(* addresses and every bound.                                              *)
(*                                                                         *)
(* AsyncCalls, with a cache that has room for an entry (HasRoom; without   *)
(* it a Put leaves an iterator that must not be used, and none of this     *)
(* holds): the cache's list and its map stay in step, a call is given an   *)
(* address that was true lately, and the cache is a bounded map that       *)
(* forgets what was longest unused.  The argument: an                      *)
(* entry is stamped with the time at which the call that made it began,    *)
(* and that call asked the name server afterwards, so an entry was true at *)
(* its stamp or later, and only ever becomes true later still.             *)
(*                                                                         *)
(* The calls on the task manager's pool: it is never overfull, a handler   *)
(* is final exactly when its call has finished, and each step of a call    *)
(* leaves it fewer to take.                                                *)
(*                                                                         *)
(* TransferHandler: what waiters, readers and the done callback see, from  *)
(* its inductive invariant IInv, and the refinement of Completion; that no *)
(* wake-up is missed, and that the operation's thread runs out of steps.   *)
(***************************************************************************)
EXTENDS TransferHandler, AsyncCalls, SequenceTheorems, FiniteSetTheorems, TLAPS

-----------------------------------------------------------------------------
(* The LRU cache.                                                          *)

\* What the cache holds of a host.
Records == [addr : Addresses, ts : 1 .. MaxTime]

CacheTyped ==
  /\ list \in Seq(Nodes)
  /\ index \in [Keys -> Nodes \cup {NoNode}]
  /\ node \in [Nodes -> {NoEntry} \cup (Keys \X Records)]

\* The cache was given room for an entry.
HasRoom == MaxEntries # 0

\* The list and the map hold the same entries, one of a key at most, and the
\* nodes that are neither have nothing.
CacheSound ==
  /\ Len(list) <= MaxEntries
  /\ \A i, j \in DOMAIN list : list[i] = list[j] => i = j
  /\ \A i \in DOMAIN list : /\ node[list[i]] \in Keys \X Records
                            /\ index[node[list[i]][1]] = list[i]
  /\ \A k \in Keys : Exist(k) => \E i \in DOMAIN list : list[i] = index[k] /\ Entry(k)[1] = k

\* What is left of a sequence when the element at a place is removed.
LEMMA RemoveAtProperties ==
  ASSUME NEW S, NEW s \in Seq(S), NEW i \in 1 .. Len(s)
  PROVE  /\ RemoveAt(s, i) \in Seq(S)
         /\ Len(RemoveAt(s, i)) = Len(s) - 1
         /\ \A j \in 1 .. Len(s) - 1 : RemoveAt(s, i)[j] = IF j < i THEN s[j] ELSE s[j + 1]
<1>. DEFINE lo == SubSeq(s, 1, i - 1)
            hi == SubSeq(s, i + 1, Len(s))
<1>1. lo \in Seq(S) /\ Len(lo) = i - 1 /\ \A j \in 1 .. i - 1 : lo[j] = s[j]
  OBVIOUS
<1>2. hi \in Seq(S) /\ Len(hi) = Len(s) - i /\ \A j \in 1 .. Len(s) - i : hi[j] = s[j + i]
  OBVIOUS
<1>. HIDE DEF lo, hi
<1>3. RemoveAt(s, i) = lo \o hi
  BY DEF RemoveAt, lo, hi
<1>4. \A j \in 1 .. Len(s) - 1 : (lo \o hi)[j] = IF j < i THEN s[j] ELSE s[j + 1]
  <2>. TAKE j \in 1 .. Len(s) - 1
  <2>1. CASE j < i
    BY <1>1, <1>2, <2>1
  <2>2. CASE ~(j < i)
    <3>1. j - (i - 1) \in 1 .. Len(s) - i /\ (j - (i - 1)) + i = j + 1
      BY <2>2
    <3>2. (lo \o hi)[j] = hi[j - (i - 1)]
      BY <1>1, <1>2, <2>2
    <3>. QED  BY <1>2, <2>2, <3>1, <3>2
  <2>. QED  BY <2>1, <2>2
<1>5. lo \o hi \in Seq(S) /\ Len(lo \o hi) = Len(s) - 1
  BY <1>1, <1>2
<1>. QED  BY <1>3, <1>4, <1>5

\* An element before a sequence.
LEMMA FrontPlaced ==
  ASSUME NEW S, NEW s \in Seq(S), NEW e \in S
  PROVE  /\ <<e>> \o s \in Seq(S) /\ Len(<<e>> \o s) = Len(s) + 1
         /\ (<<e>> \o s)[1] = e
         /\ \A j \in 1 .. Len(s) : (<<e>> \o s)[j + 1] = s[j]
<1>1. <<e>> \in Seq(S) /\ Len(<<e>>) = 1
  OBVIOUS
<1>2. (<<e>> \o s)[1] = e
  BY <1>1
<1>3. \A j \in 1 .. Len(s) : (<<e>> \o s)[j + 1] = s[j]
  <2>. TAKE j \in 1 .. Len(s)
  <2>1. j + 1 \in 1 .. Len(<<e>>) + Len(s) /\ ~(j + 1 <= Len(<<e>>)) /\ (j + 1) - Len(<<e>>) = j
    BY <1>1
  <2>. QED  BY <1>1, <2>1
<1>. QED  BY <1>1, <1>2, <1>3

\* No iterator of the map is that of the list's end.
LEMMA NeverAtEnd ==
  ASSUME CacheTyped, NEW k \in Keys
  PROVE  ~AtEnd(k)
<1>1. index[k] \in 1 .. MaxEntries + 1 \cup {0}
  BY DEF CacheTyped, Nodes, NoNode
<1>. QED  BY <1>1, LruAssumption DEF AtEnd, End

\* There is a free node: the list is never longer than the cache.
LEMMA FreshIsFree ==
  ASSUME CacheTyped, CacheSound
  PROVE  Fresh \in Nodes /\ Fresh \notin Range(list) /\ Fresh # NoNode
<1>1. \E n \in Nodes : n \notin Range(list)
  <2>. SUFFICES ASSUME Nodes \subseteq Range(list) PROVE FALSE
    OBVIOUS
  <2>1. Len(list) \in Nat /\ DOMAIN list = 1 .. Len(list) /\ MaxEntries \in Nat
    BY LruAssumption DEF CacheTyped
  <2>. DEFINE place == [n \in Nodes |-> CHOOSE i \in DOMAIN list : list[i] = n]
  <2>2. \A n \in Nodes : place[n] \in 1 .. Len(list) /\ list[place[n]] = n
    BY <2>1 DEF Range
  <2>3. IsFiniteSet(Nodes) /\ Cardinality(Nodes) = MaxEntries + 1
    BY <2>1, FS_Interval DEF Nodes
  <2>4. IsFiniteSet(1 .. Len(list)) /\ Cardinality(1 .. Len(list)) = Len(list)
    <3>1. Len(list) \in Int /\ 1 \in Int
      BY <2>1
    <3>2. Cardinality(1 .. Len(list)) = IF 1 > Len(list) THEN 0 ELSE Len(list) - 1 + 1
      BY <3>1, FS_Interval
    <3>. QED  BY <2>1, <3>1, <3>2, FS_Interval
  <2>5. place \in [Nodes -> 1 .. Len(list)]
    BY <2>2
  <2>6. Cardinality(1 .. Len(list)) < Cardinality(Nodes)
    BY <2>1, <2>3, <2>4 DEF CacheSound
  <2>. HIDE DEF place
  <2>7. \E x, y \in Nodes : x # y /\ place[x] = place[y]
    BY <2>3, <2>4, <2>5, <2>6, FS_PigeonHole
  <2>. QED  BY <2>2, <2>7
<1>. QED  BY <1>1, LruAssumption DEF Fresh, Nodes, NoNode

\* An entry is put at the front and the node x erased, if it is one.
LEMMA EmplaceShape ==
  ASSUME CacheTyped, CacheSound, NEW k \in Keys, NEW v \in Records,
         NEW x \in Nodes \cup {NoNode}, Emplace(k, v, x),
         x # NoNode => x \in Range(list)
  PROVE  /\ list' \in Seq(Nodes) /\ list'[1] = Fresh
         /\ x = NoNode => /\ Len(list') = Len(list) + 1
                          /\ \A j \in 1 .. Len(list) : list'[j + 1] = list[j]
         /\ \A p \in DOMAIN list : list[p] = x =>
              /\ Len(list') = Len(list)
              /\ \A j \in 1 .. Len(list) - 1 :
                   list'[j + 1] = IF j < p THEN list[j] ELSE list[j + 1]
         /\ node' \in [Nodes -> {NoEntry} \cup (Keys \X Records)]
         /\ node'[Fresh] = <<k, v>>
         /\ \A i \in DOMAIN list : list[i] # x => node'[list[i]] = node[list[i]]
<1>1. Fresh \in Nodes /\ Fresh \notin Range(list)
  BY FreshIsFree
<1>2. DOMAIN list = 1 .. Len(list) /\ Len(list) \in Nat /\ \A i \in DOMAIN list : list[i] \in Nodes
  BY DEF CacheTyped
<1>3. <<k, v>> \in Keys \X Records
  OBVIOUS
<1>4. /\ node' \in [Nodes -> {NoEntry} \cup (Keys \X Records)]
      /\ node'[Fresh] = <<k, v>>
      /\ \A i \in DOMAIN list : list[i] # x => node'[list[i]] = node[list[i]]
  BY <1>1, <1>2, <1>3 DEF Emplace, CacheTyped, Range
<1>5. CASE x = NoNode
  <2>1. list' = <<Fresh>> \o list
    BY <1>5 DEF Emplace, Without
  <2>2. \A p \in DOMAIN list : list[p] # x
    BY <1>2, <1>5 DEF Nodes, NoNode
  <2>3. /\ list' \in Seq(Nodes) /\ list'[1] = Fresh /\ Len(list') = Len(list) + 1
        /\ \A j \in 1 .. Len(list) : list'[j + 1] = list[j]
    BY <1>1, <2>1, FrontPlaced DEF CacheTyped
  <2>. QED  BY <1>4, <1>5, <2>2, <2>3
<1>6. CASE x # NoNode
  <2>. DEFINE p == CHOOSE i \in DOMAIN list : list[i] = x
  <2>1. p \in 1 .. Len(list) /\ list[p] = x
    BY <1>2, <1>6 DEF Range
  <2>2. \A q \in DOMAIN list : list[q] = x => q = p
    BY <1>2, <2>1 DEF CacheSound
  <2>3. list' = <<Fresh>> \o RemoveAt(list, p)
    BY <1>6 DEF Emplace, Without
  <2>. HIDE DEF p
  <2>4. /\ RemoveAt(list, p) \in Seq(Nodes)
        /\ Len(RemoveAt(list, p)) = Len(list) - 1
        /\ \A j \in 1 .. Len(list) - 1 :
             RemoveAt(list, p)[j] = IF j < p THEN list[j] ELSE list[j + 1]
    BY <2>1, RemoveAtProperties DEF CacheTyped
  <2>. DEFINE rest == RemoveAt(list, p)
  <2>. HIDE DEF rest
  <2>5. rest \in Seq(Nodes) /\ Len(rest) = Len(list) - 1 /\ list' = <<Fresh>> \o rest
    BY <2>3, <2>4 DEF rest
  <2>6. /\ list' \in Seq(Nodes) /\ list'[1] = Fresh /\ Len(list') = Len(list)
        /\ \A j \in 1 .. Len(list) - 1 : list'[j + 1] = rest[j]
    <3>. DEFINE after == <<Fresh>> \o rest
    <3>1. /\ after \in Seq(Nodes) /\ Len(after) = Len(rest) + 1 /\ after[1] = Fresh
          /\ \A j \in 1 .. Len(rest) : after[j + 1] = rest[j]
      BY <1>1, <2>5, FrontPlaced
    <3>2. list' = after
      BY <2>5
    <3>. HIDE DEF after
    <3>3. Len(rest) = Len(list) - 1 /\ Len(list) - 1 + 1 = Len(list)
      BY <1>2, <2>5
    <3>. QED  BY <3>1, <3>2, <3>3
  <2>7. \A j \in 1 .. Len(list) - 1 : list'[j + 1] = IF j < p THEN list[j] ELSE list[j + 1]
    BY <2>4, <2>6 DEF rest
  <2>. QED  BY <1>4, <1>6, <2>2, <2>6, <2>7
<1>. QED  BY <1>5, <1>6

\* Records' list after the entry of a key is replaced by its node or put afresh.
CacheStep(k, v) ==
  \/ \E p \in DOMAIN Recent : /\ Recent[p][1] = k
                             /\ Recent' = <<<<k, v>>>> \o RemoveAt(Recent, p)
  \/ /\ \A p \in DOMAIN Recent : Recent[p][1] # k
     /\ Recent' = <<<<k, v>>>> \o (IF Len(Recent) < MaxEntries THEN Recent ELSE Front(Recent))

\* The entries in the order of the list are a sequence of keys and records.
LEMMA RecentTyped ==
  ASSUME CacheTyped, CacheSound
  PROVE  /\ Recent \in Seq(Keys \X Records) /\ Len(Recent) = Len(list)
         /\ DOMAIN Recent = 1 .. Len(list)
         /\ \A i \in 1 .. Len(list) : Recent[i] = node[list[i]]
<1>1. DOMAIN list = 1 .. Len(list) /\ Len(list) \in Nat
  BY DEF CacheTyped
<1>2. Recent = [i \in 1 .. Len(list) |-> node[list[i]]]
  BY <1>1 DEF Recent
<1>3. \A i \in 1 .. Len(list) : node[list[i]] \in Keys \X Records
  BY <1>1 DEF CacheSound
<1>. QED  BY <1>1, <1>2, <1>3

\* The entry of a key that is there goes to the front, with a new value.
LEMMA ReplaceSound ==
  ASSUME CacheTyped, CacheSound, NEW k \in Keys, NEW v \in Records,
         Exist(k), Emplace(k, v, index[k]),
         index' = [q \in Keys |-> IF q = k THEN Fresh ELSE index[q]]
  PROVE  /\ CacheTyped' /\ CacheSound'
         /\ \E p \in DOMAIN Recent : /\ Recent[p][1] = k
                                    /\ Recent' = <<<<k, v>>>> \o RemoveAt(Recent, p)
<1>1. Fresh \in Nodes /\ Fresh \notin Range(list) /\ Fresh # NoNode
  BY FreshIsFree
<1>2. DOMAIN list = 1 .. Len(list) /\ Len(list) \in Nat /\ \A i \in DOMAIN list : list[i] \in Nodes
  BY DEF CacheTyped
<1>3. PICK p \in 1 .. Len(list) : list[p] = index[k] /\ node[list[p]][1] = k
  BY <1>2 DEF CacheSound, Entry
<1>4. index[k] \in Nodes /\ index[k] # NoNode /\ index[k] \in Range(list)
  BY <1>2, <1>3 DEF Exist, Range
<1>5. /\ list' \in Seq(Nodes) /\ list'[1] = Fresh /\ Len(list') = Len(list)
      /\ \A j \in 1 .. Len(list) - 1 : list'[j + 1] = IF j < p THEN list[j] ELSE list[j + 1]
      /\ node' \in [Nodes -> {NoEntry} \cup (Keys \X Records)]
      /\ node'[Fresh] = <<k, v>>
      /\ \A i \in DOMAIN list : list[i] # index[k] => node'[list[i]] = node[list[i]]
  <2>. DEFINE x == index[k]
  <2>1. x \in Nodes \cup {NoNode} /\ Emplace(k, v, x) /\ x \in Range(list)
    BY <1>4
  <2>. HIDE DEF x
  <2>2. /\ list' \in Seq(Nodes) /\ list'[1] = Fresh
        /\ \A q \in DOMAIN list : list[q] = x =>
             /\ Len(list') = Len(list)
             /\ \A j \in 1 .. Len(list) - 1 :
                  list'[j + 1] = IF j < q THEN list[j] ELSE list[j + 1]
        /\ node' \in [Nodes -> {NoEntry} \cup (Keys \X Records)]
        /\ node'[Fresh] = <<k, v>>
        /\ \A i \in DOMAIN list : list[i] # x => node'[list[i]] = node[list[i]]
    BY <2>1, EmplaceShape
  <2>3. p \in DOMAIN list /\ list[p] = x
    BY <1>2, <1>3 DEF x
  <2>4. /\ Len(list') = Len(list)
        /\ \A j \in 1 .. Len(list) - 1 : list'[j + 1] = IF j < p THEN list[j] ELSE list[j + 1]
    BY <2>2, <2>3
  <2>. QED  BY <2>2, <2>4 DEF x
<1>6. CacheTyped'
  BY <1>1, <1>5 DEF CacheTyped
<1>7. DOMAIN list' = 1 .. Len(list)
  BY <1>5
<1>8. \A j \in 1 .. Len(list) : \/ j = 1 /\ list'[j] = Fresh
                               \/ \E q \in 1 .. Len(list) :
                                    /\ q # p /\ list'[j] = list[q]
                                    /\ q = IF j - 1 < p THEN j - 1 ELSE j
  <2>. TAKE j \in 1 .. Len(list)
  <2>1. CASE j = 1
    BY <1>5, <2>1
  <2>2. CASE j # 1
    <3>1. j - 1 \in 1 .. Len(list) - 1 /\ (j - 1) + 1 = j
      BY <1>2, <2>2
    <3>2. list'[j] = IF j - 1 < p THEN list[j - 1] ELSE list[j]
      BY <1>5, <3>1
    <3>. QED  BY <1>2, <3>1, <3>2
  <2>. QED  BY <2>1, <2>2
<1>9. \A i \in 1 .. Len(list) : list[i] # Fresh /\ (i # p => list[i] # index[k])
  BY <1>1, <1>2, <1>3 DEF CacheSound, Range
<1>10. CacheSound'
  <2>1. Len(list') <= MaxEntries
    BY <1>5 DEF CacheSound
  <2>2. \A i, j \in DOMAIN list' : list'[i] = list'[j] => i = j
    <3>. SUFFICES ASSUME NEW i \in 1 .. Len(list), NEW j \in 1 .. Len(list), list'[i] = list'[j]
                  PROVE  i = j
      BY <1>7
    <3>1. i = 1 <=> j = 1
      BY <1>8, <1>9
    <3>2. CASE i # 1 /\ j # 1
      <4>. DEFINE Old(n) == IF n - 1 < p THEN n - 1 ELSE n
      <4>1. /\ Old(i) \in 1 .. Len(list) /\ list'[i] = list[Old(i)] /\ Old(i) # p
            /\ Old(j) \in 1 .. Len(list) /\ list'[j] = list[Old(j)] /\ Old(j) # p
        BY <1>8, <3>2
      <4>. HIDE DEF Old
      <4>2. Old(i) \in DOMAIN list /\ Old(j) \in DOMAIN list /\ list[Old(i)] = list[Old(j)]
        BY <1>2, <4>1
      <4>3. Old(i) = Old(j)
        BY <4>2 DEF CacheSound
      <4>. QED  BY <1>2, <4>1, <4>3, <3>2 DEF Old
    <3>. QED  BY <3>1, <3>2
  <2>3. \A i \in DOMAIN list' : /\ node'[list'[i]] \in Keys \X Records
                               /\ index'[node'[list'[i]][1]] = list'[i]
    <3>. SUFFICES ASSUME NEW i \in 1 .. Len(list)
                  PROVE  /\ node'[list'[i]] \in Keys \X Records
                         /\ index'[node'[list'[i]][1]] = list'[i]
      BY <1>7
    <3>1. CASE i = 1
      <4>1. <<k, v>> \in Keys \X Records /\ <<k, v>>[1] = k /\ index'[k] = Fresh
        OBVIOUS
      <4>2. node'[list'[i]] = <<k, v>> /\ list'[i] = Fresh
        BY <1>5, <3>1
      <4>. QED  BY <4>1, <4>2
    <3>2. CASE i # 1
      <4>1. PICK q \in 1 .. Len(list) : q # p /\ list'[i] = list[q]
        BY <1>8, <3>2
      <4>2. node'[list[q]] = node[list[q]] /\ list[q] # index[k]
        BY <1>2, <1>5, <1>9, <4>1
      <4>3. node[list[q]] \in Keys \X Records /\ index[node[list[q]][1]] = list[q]
        BY <1>2 DEF CacheSound
      <4>. QED  BY <4>1, <4>2, <4>3
    <3>. QED  BY <3>1, <3>2
  <2>4. ASSUME NEW h \in Keys, index'[h] # NoNode
        PROVE  \E i \in DOMAIN list' : list'[i] = index'[h] /\ node'[index'[h]][1] = h
    <3>1. CASE h = k
      BY <1>5, <1>7, <1>3, <3>1
    <3>2. CASE h # k
      <4>1. PICK q \in 1 .. Len(list) : list[q] = index[h] /\ node[list[q]][1] = h
        BY <1>2, <2>4, <3>2 DEF CacheSound, Exist, Entry
      <4>2. q # p /\ node'[list[q]] = node[list[q]]
        BY <1>2, <1>3, <1>5, <1>9, <3>2, <4>1
      <4>3. \E i \in 1 .. Len(list) : list'[i] = list[q]
        <5>1. CASE q < p
          <6>1. q \in 1 .. Len(list) - 1
            BY <1>2, <5>1
          <6>2. list'[q + 1] = list[q]
            BY <1>5, <5>1, <6>1
          <6>. QED  BY <1>2, <6>1, <6>2
        <5>2. CASE ~(q < p)
          <6>1. q - 1 \in 1 .. Len(list) - 1 /\ ~(q - 1 < p) /\ (q - 1) + 1 = q
            BY <1>2, <4>2, <5>2
          <6>2. list'[q] = list[q]
            BY <1>5, <6>1
          <6>. QED  BY <6>2
        <5>. QED  BY <5>1, <5>2
      <4>. QED  BY <1>7, <3>2, <4>1, <4>2, <4>3
    <3>. QED  BY <3>1, <3>2
  <2>. QED  BY <2>1, <2>2, <2>3, <2>4 DEF CacheSound, Exist, Entry
<1>11. /\ p \in DOMAIN Recent /\ Recent[p][1] = k
       /\ Recent \in Seq(Keys \X Records) /\ Len(Recent) = Len(list)
       /\ \A i \in 1 .. Len(list) : Recent[i] = node[list[i]]
  BY <1>3, RecentTyped
<1>12. Recent' = [i \in 1 .. Len(list) |-> node'[list'[i]]]
  BY <1>7 DEF Recent
<1>13. <<k, v>> \in Keys \X Records
  OBVIOUS
<1>. DEFINE rest == RemoveAt(Recent, p)
            after == <<<<k, v>>>> \o rest
<1>14. /\ rest \in Seq(Keys \X Records) /\ Len(rest) = Len(list) - 1
       /\ \A j \in 1 .. Len(list) - 1 : rest[j] = IF j < p THEN Recent[j] ELSE Recent[j + 1]
  <2>1. p \in 1 .. Len(Recent)
    BY <1>11
  <2>. QED  BY <1>11, <2>1, RemoveAtProperties
<1>. HIDE DEF rest
<1>15. /\ after \in Seq(Keys \X Records) /\ Len(after) = Len(rest) + 1 /\ after[1] = <<k, v>>
       /\ \A j \in 1 .. Len(rest) : after[j + 1] = rest[j]
  BY <1>13, <1>14, FrontPlaced
<1>. HIDE DEF after
<1>16. Len(after) = Len(list) /\ DOMAIN after = 1 .. Len(list)
  BY <1>2, <1>14, <1>15
<1>17. ASSUME NEW i \in 1 .. Len(list) PROVE after[i] = node'[list'[i]]
  <2>1. CASE i = 1
    BY <1>5, <1>15, <2>1
  <2>2. CASE i # 1
    <3>1. i - 1 \in 1 .. Len(list) - 1 /\ (i - 1) + 1 = i
      BY <1>2, <2>2
    <3>2. after[i] = IF i - 1 < p THEN Recent[i - 1] ELSE Recent[i]
      BY <1>14, <1>15, <3>1
    <3>3. PICK q \in 1 .. Len(list) : /\ q # p /\ list'[i] = list[q]
                                      /\ q = IF i - 1 < p THEN i - 1 ELSE i
      BY <1>8, <2>2
    <3>4. after[i] = node[list[q]]
      BY <1>11, <3>2, <3>3
    <3>. QED  BY <1>2, <1>5, <1>9, <3>3, <3>4
  <2>. QED  BY <2>1, <2>2
<1>18. Recent' = after
  <2>1. after = [i \in 1 .. Len(list) |-> after[i]]
    BY <1>15, <1>16
  <2>. QED  BY <1>12, <1>17, <2>1
<1>. QED  BY <1>6, <1>10, <1>11, <1>18 DEF after, rest

Full == Len(list) = MaxEntries

\* A new entry goes to the front; a full cache loses the last one.
LEMMA EnterSound ==
  ASSUME HasRoom, CacheTyped, CacheSound, NEW k \in Keys, NEW v \in Records,
         ~Exist(k),
         Emplace(k, v, IF Full THEN Back ELSE index[k]),
         index' = [q \in Keys |-> IF q = k THEN Fresh
                                 ELSE IF Full /\ q = node[Back][1] THEN NoNode ELSE index[q]]
  PROVE  /\ CacheTyped' /\ CacheSound'
         /\ \A p \in DOMAIN Recent : Recent[p][1] # k
         /\ Recent' = <<<<k, v>>>> \o (IF Len(Recent) < MaxEntries THEN Recent ELSE Front(Recent))
<1>. DEFINE n == Len(list)
            kept == IF n = MaxEntries THEN n - 1 ELSE n
<1>1. Fresh \in Nodes /\ Fresh \notin Range(list) /\ Fresh # NoNode
  BY FreshIsFree
<1>2. /\ DOMAIN list = 1 .. n /\ n \in Nat /\ MaxEntries \in Nat \ {0}
      /\ \A i \in 1 .. n : list[i] \in Nodes
      /\ n <= MaxEntries
      /\ Full <=> n = MaxEntries
  BY LruAssumption DEF CacheTyped, CacheSound, Full, HasRoom
<1>. HIDE DEF n
<1>3. kept \in Nat /\ kept <= n /\ kept + 1 <= MaxEntries
  BY <1>2
<1>4. /\ list' \in Seq(Nodes) /\ list'[1] = Fresh /\ Len(list') = kept + 1
      /\ \A j \in 1 .. kept : list'[j + 1] = list[j] /\ node'[list[j]] = node[list[j]]
      /\ node' \in [Nodes -> {NoEntry} \cup (Keys \X Records)]
      /\ node'[Fresh] = <<k, v>>
  <2>1. CASE Full
    <3>. DEFINE x == Back
    <3>1. /\ n \in 1 .. n /\ list[n] = x /\ x \in Range(list) /\ x \in Nodes
          /\ kept = n - 1 /\ Len(list) = n
      BY <1>2, <2>1 DEF Back, Range, n
    <3>2. Emplace(k, v, x)
      BY <2>1
    <3>. HIDE DEF x
    <3>3. /\ list' \in Seq(Nodes) /\ list'[1] = Fresh
          /\ \A q \in DOMAIN list : list[q] = x =>
               /\ Len(list') = Len(list)
               /\ \A j \in 1 .. Len(list) - 1 :
                    list'[j + 1] = IF j < q THEN list[j] ELSE list[j + 1]
          /\ node' \in [Nodes -> {NoEntry} \cup (Keys \X Records)]
          /\ node'[Fresh] = <<k, v>>
          /\ \A i \in DOMAIN list : list[i] # x => node'[list[i]] = node[list[i]]
      BY <3>1, <3>2, EmplaceShape
    <3>4. /\ Len(list') = n
          /\ \A j \in 1 .. n - 1 : list'[j + 1] = IF j < n THEN list[j] ELSE list[j + 1]
      BY <1>2, <3>1, <3>3
    <3>5. \A j \in 1 .. n - 1 : list[j] # x
      BY <1>2, <3>1 DEF CacheSound
    <3>6. \A j \in 1 .. n - 1 : list'[j + 1] = list[j] /\ node'[list[j]] = node[list[j]]
      <4>. TAKE j \in 1 .. n - 1
      <4>1. j < n /\ j \in DOMAIN list
        BY <1>2
      <4>. QED  BY <3>3, <3>4, <3>5, <4>1
    <3>. HIDE DEF kept
    <3>. QED  BY <1>2, <3>1, <3>3, <3>4, <3>6
  <2>2. CASE ~Full
    <3>. DEFINE x == index[k]
    <3>1. x = NoNode /\ kept = n /\ Emplace(k, v, x) /\ Len(list) = n
      BY <1>2, <2>2 DEF Exist, n
    <3>. HIDE DEF x
    <3>2. \A i \in 1 .. n : list[i] # x
      BY <1>2, <3>1 DEF Nodes, NoNode
    <3>3. /\ list' \in Seq(Nodes) /\ list'[1] = Fresh
          /\ Len(list') = n + 1 /\ \A j \in 1 .. n : list'[j + 1] = list[j]
          /\ node' \in [Nodes -> {NoEntry} \cup (Keys \X Records)]
          /\ node'[Fresh] = <<k, v>>
          /\ \A i \in DOMAIN list : list[i] # x => node'[list[i]] = node[list[i]]
      BY <3>1, EmplaceShape
    <3>. HIDE DEF kept
    <3>. QED  BY <1>2, <3>1, <3>2, <3>3
  <2>. QED  BY <2>1, <2>2
<1>. HIDE DEF kept
<1>5. CacheTyped'
  BY <1>1, <1>4 DEF CacheTyped
<1>6. /\ DOMAIN list' = 1 .. kept + 1
      /\ \A j \in 2 .. kept + 1 : /\ j - 1 \in 1 .. kept /\ list'[j] = list[j - 1]
                                 /\ node'[list'[j]] = node[list[j - 1]]
                                 /\ list[j - 1] # Fresh
  <2>1. DOMAIN list' = 1 .. kept + 1
    BY <1>3, <1>4
  <2>2. ASSUME NEW j \in 2 .. kept + 1
        PROVE  /\ j - 1 \in 1 .. kept /\ list'[j] = list[j - 1]
               /\ node'[list'[j]] = node[list[j - 1]] /\ list[j - 1] # Fresh
    <3>1. j - 1 \in 1 .. kept /\ (j - 1) + 1 = j /\ j - 1 \in DOMAIN list
      BY <1>2, <1>3
    <3>. QED  BY <1>1, <1>4, <3>1 DEF Range
  <2>. QED  BY <2>1, <2>2
<1>7. ASSUME NEW i \in 1 .. kept
      PROVE  /\ node[list[i]] \in Keys \X Records /\ index[node[list[i]][1]] = list[i]
             /\ list[i] \in Nodes /\ index'[node[list[i]][1]] = list[i]
  <2>1. /\ i \in DOMAIN list
        /\ node[list[i]] \in Keys \X Records /\ index[node[list[i]][1]] = list[i]
        /\ list[i] \in Nodes
    BY <1>2, <1>3 DEF CacheSound
  <2>2. node[list[i]][1] # k
    BY <2>1 DEF Exist, NoNode, Nodes
  <2>3. ASSUME Full PROVE node[list[i]][1] # node[Back][1]
    <3>1. n \in DOMAIN list /\ i # n /\ Back = list[n]
      BY <1>2, <1>3, <2>3 DEF Back, kept, n
    <3>2. index[node[Back][1]] = Back /\ list[i] # Back
      BY <2>1, <3>1 DEF CacheSound
    <3>. QED  BY <2>1, <3>2
  <2>. QED  BY <2>1, <2>2, <2>3
<1>8. CacheSound'
  <2>1. Len(list') <= MaxEntries
    BY <1>3, <1>4
  <2>2. \A i, j \in DOMAIN list' : list'[i] = list'[j] => i = j
    <3>. SUFFICES ASSUME NEW i \in 1 .. kept + 1, NEW j \in 1 .. kept + 1, list'[i] = list'[j]
                  PROVE  i = j
      BY <1>6
    <3>1. i = 1 <=> j = 1
      <4>1. \A m \in 1 .. kept + 1 : m # 1 => m \in 2 .. kept + 1
        BY <1>3
      <4>2. \A m \in 1 .. kept + 1 : m # 1 => list'[m] # Fresh
        BY <1>6, <4>1
      <4>. QED  BY <1>4, <4>2
    <3>2. CASE i # 1 /\ j # 1
      <4>1. /\ i - 1 \in DOMAIN list /\ j - 1 \in DOMAIN list /\ list[i - 1] = list[j - 1]
        BY <1>2, <1>3, <1>6, <3>2
      <4>2. i - 1 = j - 1
        BY <4>1 DEF CacheSound
      <4>. QED  BY <1>3, <4>2
    <3>. QED  BY <3>1, <3>2
  <2>3. \A i \in DOMAIN list' : /\ node'[list'[i]] \in Keys \X Records
                               /\ index'[node'[list'[i]][1]] = list'[i]
    <3>. SUFFICES ASSUME NEW i \in 1 .. kept + 1
                  PROVE  /\ node'[list'[i]] \in Keys \X Records
                         /\ index'[node'[list'[i]][1]] = list'[i]
      BY <1>6
    <3>1. CASE i = 1
      <4>1. <<k, v>> \in Keys \X Records /\ <<k, v>>[1] = k /\ index'[k] = Fresh
        OBVIOUS
      <4>2. node'[list'[i]] = <<k, v>> /\ list'[i] = Fresh
        BY <1>4, <3>1
      <4>. QED  BY <4>1, <4>2
    <3>2. CASE i # 1
      BY <1>3, <1>6, <1>7, <3>2
    <3>. QED  BY <3>1, <3>2
  <2>4. ASSUME NEW h \in Keys, index'[h] # NoNode
        PROVE  \E i \in DOMAIN list' : list'[i] = index'[h] /\ node'[index'[h]][1] = h
    <3>1. CASE h = k
      <4>1. 1 \in DOMAIN list' /\ list'[1] = index'[h] /\ node'[index'[h]] = <<k, v>>
        BY <1>3, <1>4, <1>6, <3>1
      <4>. QED  BY <3>1, <4>1
    <3>2. CASE h # k
      <4>1. index'[h] = index[h] /\ ~(Full /\ h = node[Back][1])
        BY <2>4, <3>2
      <4>2. PICK q \in 1 .. n : list[q] = index[h] /\ node[list[q]][1] = h
        BY <1>2, <2>4, <4>1 DEF CacheSound, Exist, Entry
      <4>3. q \in 1 .. kept
        <5>1. CASE Full
          <6>1. kept = n - 1 /\ Back = list[n] /\ q # n
            BY <1>2, <4>1, <4>2, <5>1 DEF kept, Back, n
          <6>. QED  BY <1>2, <6>1
        <5>2. CASE ~Full
          BY <1>2, <5>2 DEF kept
        <5>. QED  BY <5>1, <5>2
      <4>4. q + 1 \in DOMAIN list' /\ list'[q + 1] = list[q] /\ node'[list[q]] = node[list[q]]
        BY <1>3, <1>4, <1>6, <4>3
      <4>. QED  BY <4>1, <4>2, <4>4
    <3>. QED  BY <3>1, <3>2
  <2>. QED  BY <2>1, <2>2, <2>3, <2>4 DEF CacheSound, Exist, Entry
<1>9. /\ Recent \in Seq(Keys \X Records) /\ Len(Recent) = n
      /\ DOMAIN Recent = 1 .. n
      /\ \A i \in 1 .. n : Recent[i] = node[list[i]]
  BY RecentTyped DEF n
<1>10. \A p \in DOMAIN Recent : Recent[p][1] # k
  <2>. SUFFICES ASSUME NEW p \in 1 .. n PROVE node[list[p]][1] # k
    BY <1>9
  <2>1. index[node[list[p]][1]] = list[p] /\ list[p] \in Nodes
    BY <1>2 DEF CacheSound
  <2>. QED  BY <2>1 DEF Exist, NoNode, Nodes
<1>. DEFINE rest == IF Len(Recent) < MaxEntries THEN Recent ELSE Front(Recent)
            after == <<<<k, v>>>> \o rest
<1>11. /\ rest \in Seq(Keys \X Records) /\ Len(rest) = kept
       /\ \A j \in 1 .. kept : rest[j] = Recent[j]
  <2>1. CASE Full
    <3>1. kept = n - 1 /\ rest = SubSeq(Recent, 1, n - 1) /\ n \in Nat \ {0}
      BY <1>2, <1>9, <2>1 DEF kept, Front
    <3>. HIDE DEF rest
    <3>. QED  BY <1>9, <3>1
  <2>2. CASE ~Full
    BY <1>2, <1>9, <2>2 DEF kept
  <2>. QED  BY <2>1, <2>2
<1>. HIDE DEF rest
<1>12. /\ after \in Seq(Keys \X Records) /\ Len(after) = kept + 1 /\ after[1] = <<k, v>>
       /\ \A j \in 1 .. kept : after[j + 1] = Recent[j]
  <2>1. <<k, v>> \in Keys \X Records
    OBVIOUS
  <2>. QED  BY <1>11, <2>1, FrontPlaced
<1>. HIDE DEF after
<1>13. ASSUME NEW i \in 1 .. kept + 1 PROVE after[i] = node'[list'[i]]
  <2>1. CASE i = 1
    BY <1>4, <1>12, <2>1
  <2>2. CASE i # 1
    <3>1. i - 1 \in 1 .. kept /\ (i - 1) + 1 = i /\ i - 1 \in 1 .. n
      BY <1>2, <1>3, <2>2
    <3>2. after[i] = Recent[i - 1] /\ Recent[i - 1] = node[list[i - 1]]
      BY <1>9, <1>12, <3>1
    <3>3. node'[list'[i]] = node[list[i - 1]]
      BY <1>4, <3>1
    <3>. QED  BY <3>2, <3>3
  <2>. QED  BY <2>1, <2>2
<1>14. Recent' = after
  <2>1. Recent' = [i \in 1 .. kept + 1 |-> node'[list'[i]]]
    BY <1>6 DEF Recent
  <2>2. after = [i \in 1 .. kept + 1 |-> after[i]]
    BY <1>3, <1>12
  <2>. QED  BY <1>13, <2>1, <2>2
<1>. QED  BY <1>5, <1>8, <1>10, <1>14 DEF after, rest

\* Put, of a key that is there or not.
LEMMA PutSound ==
  ASSUME HasRoom, CacheTyped, CacheSound, NEW k \in Keys, NEW v \in Records, LruPut(k, v)
  PROVE  CacheTyped' /\ CacheSound' /\ CacheStep(k, v)
<1>. PutEntry(k, v)
  BY DEF LruPut, PutIntoNothing, HasRoom
<1>1. CASE Exist(k)
  <2>1. /\ Emplace(k, v, index[k])
        /\ index' = [q \in Keys |-> IF q = k THEN Fresh ELSE index[q]]
    BY <1>1 DEF PutEntry
  <2>. QED  BY <1>1, <2>1, ReplaceSound DEF CacheStep
<1>2. CASE ~Exist(k)
  <2>1. /\ Emplace(k, v, IF Full THEN Back ELSE index[k])
        /\ index' = [q \in Keys |-> IF q = k THEN Fresh
                                    ELSE IF Full /\ q = node[Back][1] THEN NoNode ELSE index[q]]
    BY <1>2 DEF PutEntry, Full
  <2>. QED  BY <1>2, <2>1, EnterSound DEF CacheStep
<1>. QED  BY <1>1, <1>2

\* Get moves an entry to the front, with the value it has.
LEMMA GetSound ==
  ASSUME CacheTyped, CacheSound, NEW k \in Keys, LruGet(k)
  PROVE  /\ CacheTyped' /\ CacheSound'
         /\ \E p \in DOMAIN Recent : /\ Recent[p] = Entry(k) /\ Recent[p][1] = k
                                    /\ Recent' = <<Recent[p]>> \o RemoveAt(Recent, p)
<1>1. PICK p \in DOMAIN list : list[p] = index[k] /\ Entry(k)[1] = k
  BY DEF CacheSound, LruGet
<1>2. p \in DOMAIN Recent /\ Recent[p] = Entry(k) /\ Entry(k) \in Keys \X Records
  BY <1>1, RecentTyped DEF Entry, CacheSound, CacheTyped
<1>. DEFINE v == Entry(k)[2]
<1>3. v \in Records /\ Entry(k) = <<k, v>>
  BY <1>1, <1>2
<1>. HIDE DEF v
<1>4. /\ Exist(k) /\ Emplace(k, v, index[k])
      /\ index' = [q \in Keys |-> IF q = k THEN Fresh ELSE index[q]]
  BY DEF LruGet, CacheTyped, v
<1>5. PICK q \in DOMAIN Recent : /\ CacheTyped' /\ CacheSound' /\ Recent[q][1] = k
                                 /\ Recent' = <<<<k, v>>>> \o RemoveAt(Recent, q)
  BY <1>3, <1>4, ReplaceSound
<1>6. q = p
  <2>1. p \in DOMAIN list /\ q \in DOMAIN list /\ Recent[q] = node[list[q]]
    <3>1. DOMAIN list = 1 .. Len(list)
      BY DEF CacheTyped
    <3>. QED  BY <1>1, <1>5, <3>1, RecentTyped
  <2>2. list[q] = index[k]
    BY <1>5, <2>1 DEF CacheSound
  <2>. QED  BY <1>1, <2>1, <2>2 DEF CacheSound
<1>. QED  BY <1>2, <1>3, <1>5, <1>6

\* A step of the cache brings no entry but the one that is put.
LEMMA NothingElse ==
  ASSUME HasRoom, CacheTyped, CacheSound, NEW k \in Keys, NEW v \in Records, CacheStep(k, v)
  PROVE  \A i \in DOMAIN Recent' :
           Recent'[i] = <<k, v>> \/ \E q \in DOMAIN Recent : Recent'[i] = Recent[q]
<1>. DEFINE S == Keys \X Records
<1>1. <<k, v>> \in S /\ Recent \in Seq(S)
  BY RecentTyped
<1>. DEFINE Kept(rest) == /\ rest \in Seq(S)
                          /\ \A j \in 1 .. Len(rest) : \E q \in DOMAIN Recent : rest[j] = Recent[q]
<1>2. ASSUME NEW p \in DOMAIN Recent PROVE Kept(RemoveAt(Recent, p))
  <2>1. p \in 1 .. Len(Recent) /\ Len(Recent) \in Nat /\ DOMAIN Recent = 1 .. Len(Recent)
    BY <1>1, <1>2
  <2>. DEFINE rest == RemoveAt(Recent, p)
              n == Len(Recent)
  <2>2. /\ rest \in Seq(S) /\ Len(rest) = n - 1
        /\ \A j \in 1 .. n - 1 : rest[j] = IF j < p THEN Recent[j] ELSE Recent[j + 1]
    BY <1>1, <2>1, RemoveAtProperties
  <2>3. n \in Nat /\ DOMAIN Recent = 1 .. n
    BY <2>1
  <2>. HIDE DEF rest, n
  <2>4. \A j \in 1 .. n - 1 : j \in 1 .. n /\ j + 1 \in 1 .. n
    BY <2>3
  <2>. QED  BY <2>2, <2>3, <2>4 DEF rest
<1>3. Kept(Recent)
  BY <1>1
<1>4. Len(Recent) >= MaxEntries => Kept(Front(Recent))
  <2>. SUFFICES ASSUME Len(Recent) >= MaxEntries PROVE Kept(Front(Recent))
    OBVIOUS
  <2>. DEFINE rest == Front(Recent)
              n == Len(Recent)
  <2>1. n \in Nat \ {0} /\ DOMAIN Recent = 1 .. n
    BY <1>1, LruAssumption DEF HasRoom
  <2>2. /\ rest \in Seq(S) /\ Len(rest) = n - 1
        /\ \A j \in 1 .. n - 1 : rest[j] = Recent[j]
    BY <1>1, <2>1 DEF Front
  <2>. HIDE DEF rest, n
  <2>3. \A j \in 1 .. n - 1 : j \in DOMAIN Recent
    BY <2>1
  <2>4. Kept(rest)
    BY <2>2, <2>3
  <2>. QED  BY <2>4 DEF rest
<1>. HIDE DEF S, Kept
<1>5. PICK rest : Kept(rest) /\ Recent' = <<<<k, v>>>> \o rest
  <2>1. Len(Recent) < MaxEntries \/ Len(Recent) >= MaxEntries
    BY <1>1, LruAssumption
  <2>. QED  BY <1>2, <1>3, <1>4, <2>1 DEF CacheStep
<1>. DEFINE after == <<<<k, v>>>> \o rest
<1>6. /\ after \in Seq(S) /\ Len(after) = Len(rest) + 1 /\ after[1] = <<k, v>>
      /\ \A j \in 1 .. Len(rest) : after[j + 1] = rest[j]
  BY <1>1, <1>5, FrontPlaced DEF Kept
<1>7. Recent' = after
  BY <1>5
<1>. HIDE DEF after
<1>8. ASSUME NEW i \in DOMAIN after, i # 1 PROVE \E q \in DOMAIN Recent : after[i] = Recent[q]
  <2>1. Len(rest) \in Nat
    BY <1>5 DEF Kept
  <2>2. i \in 1 .. Len(rest) + 1
    BY <1>6, <1>8
  <2>3. i - 1 \in 1 .. Len(rest) /\ (i - 1) + 1 = i
    BY <1>8, <2>1, <2>2
  <2>. QED  BY <1>5, <1>6, <2>3 DEF Kept
<1>. QED  BY <1>6, <1>7, <1>8

-----------------------------------------------------------------------------
(* The calls that share the cache.                                         *)

CallPlaces ==
  {"idle", "get", "query", "put", "resolved", "finishing", "thrown", "hung",
   "refused", "returned", "lost"}

\* A call has a host and a time.
Resolving(c) == at[c] \in {"get", "query", "put", "resolved"}

AsyncTypeOK ==
  /\ CacheTyped
  /\ now \in 1 .. MaxTime
  /\ actual \in [Hosts -> Addresses]
  /\ until \in [Hosts -> [Addresses -> 0 .. MaxTime]]
  /\ moves \in 0 .. MaxMoves
  /\ at \in [Callers -> CallPlaces]
  /\ host \in [Callers -> Hosts]
  /\ since \in [Callers -> 0 .. MaxTime]
  /\ found \in [Callers -> Addresses]
  /\ threads \in AsyncPoolSizes
  /\ attempts \in [Callers -> 0 .. MaxRetryTimes]
  /\ ended \subseteq Callers

\* Nothing comes from the future, and a call in progress has a beginning.
TimesSound ==
  /\ \A h \in Hosts, a \in Addresses : until[h][a] <= now
  /\ \A c \in Callers : since[c] <= now /\ (Resolving(c) => since[c] >= 1)

\* An address was true at the time of its entry or later. The entry is as old as
\* the call that made it, which asked the name server afterwards.
EntryTrue(e) == e[2].ts <= now /\ LastTrue(e[1], e[2].addr) >= e[2].ts

EntriesTrue == \A i \in DOMAIN Recent : EntryTrue(Recent[i])

AnswersTrue ==
  \A c \in Callers : at[c] = "put" => LastTrue(host[c], found[c]) >= since[c]

AsyncIInv ==
  /\ HasRoom
  /\ AsyncTypeOK
  /\ CacheSound
  /\ TimesSound
  /\ EntriesTrue
  /\ AnswersTrue
  /\ AddressRecentlyTrue

\* Each host has an address and the cache is empty.
LEMMA AsyncInitIInv == HasRoom /\ AsyncInit => AsyncIInv
<1>. SUFFICES ASSUME HasRoom, AsyncInit PROVE AsyncIInv
  OBVIOUS
<1>. USE DEF AsyncInit, DnsInit, LruInit
<1>1. AnAddress \in Addresses /\ AHost \in Hosts
  BY DnsAssumption DEF AnAddress, AHost
<1>2. CacheTyped /\ CacheSound
  <2>1. list = <<>> /\ Len(list) = 0 /\ DOMAIN list = {} /\ list \in Seq(Nodes)
    OBVIOUS
  <2>2. CacheTyped
    BY <2>1 DEF CacheTyped
  <2>3. CacheSound
    BY <2>1, LruAssumption DEF CacheSound, Exist
  <2>. QED  BY <2>2, <2>3
<1>3. AsyncTypeOK
  BY <1>1, <1>2, DnsAssumption, RetryAssumption DEF AsyncTypeOK, CallPlaces, Never
<1>4. TimesSound
  BY DEF TimesSound, Never, Resolving
<1>5. EntriesTrue
  <2>1. DOMAIN Recent = {}
    BY DEF Recent
  <2>. QED  BY <2>1 DEF EntriesTrue
<1>6. AnswersTrue /\ AddressRecentlyTrue
  BY DEF AnswersTrue, AddressRecentlyTrue
<1>. QED  BY <1>2, <1>3, <1>4, <1>5, <1>6 DEF AsyncIInv

\* What was true lately was true no earlier when time has passed or an address changed.
LEMMA WorldForgetsNothing ==
  ASSUME AsyncTypeOK, TimesSound, World
  PROVE  /\ AsyncTypeOK' /\ TimesSound' /\ now' >= now
         /\ \A h \in Hosts, a \in Addresses : LastTrue(h, a)' >= LastTrue(h, a)
<1>1. CASE Tick
  <2>1. AsyncTypeOK' /\ TimesSound' /\ now' >= now
    BY <1>1, DnsAssumption DEF World, Tick, AsyncTypeOK, TimesSound, Resolving, lruVars, callVars,
         asyncVars, CacheTyped
  <2>. QED  BY <1>1, <2>1 DEF Tick, LastTrue, AsyncTypeOK
<1>2. CASE Renumber
  <2>. PICK h \in Hosts, a \in Addresses :
         /\ a # actual[h] /\ moves < MaxMoves
         /\ until' = [until EXCEPT ![h][actual[h]] = now]
         /\ actual' = [actual EXCEPT ![h] = a]
    BY <1>2 DEF Renumber
  <2>. USE DEF AsyncTypeOK
  <2>1. UNCHANGED <<lruVars, now, callVars, asyncVars>> /\ moves' = moves + 1
    BY <1>2 DEF Renumber, World
  <2>2. \A g \in Hosts, b \in Addresses :
          until'[g][b] = IF g = h /\ b = actual[h] THEN now ELSE until[g][b]
    OBVIOUS
  <2>3. until' \in [Hosts -> [Addresses -> 0 .. MaxTime]]
    <3>1. now \in 0 .. MaxTime
      OBVIOUS
    <3>. QED  BY <3>1
  <2>4. AsyncTypeOK'
    BY <2>1, <2>3, DnsAssumption DEF lruVars, callVars, asyncVars, CacheTyped
  <2>5. TimesSound'
    BY <2>1, <2>2 DEF TimesSound, Resolving, callVars
  <2>6. \A g \in Hosts, b \in Addresses : LastTrue(g, b)' >= LastTrue(g, b)
    <3>. SUFFICES ASSUME NEW g \in Hosts, NEW b \in Addresses
                  PROVE  LastTrue(g, b)' >= LastTrue(g, b)
      OBVIOUS
    <3>1. until[g][b] <= now /\ until[g][b] \in 0 .. MaxTime
      BY DEF TimesSound
    <3>2. actual'[g] = IF g = h THEN a ELSE actual[g]
      OBVIOUS
    <3>. QED  BY <2>1, <2>2, <3>1, <3>2 DEF LastTrue
  <2>. QED  BY <2>1, <2>4, <2>5, <2>6
<1>. QED  BY <1>1, <1>2 DEF World

\* LastTrue is a time.
LEMMA LastTrueTyped ==
  ASSUME AsyncTypeOK, NEW h \in Hosts, NEW a \in Addresses
  PROVE  LastTrue(h, a) \in Nat
  BY DEF AsyncTypeOK, LastTrue

\* The world's steps.
LEMMA WorldIInv ==
  ASSUME AsyncIInv, World
  PROVE  AsyncIInv'
<1>. USE DEF AsyncIInv
<1>1. /\ AsyncTypeOK' /\ TimesSound' /\ now' >= now
      /\ \A h \in Hosts, a \in Addresses : LastTrue(h, a)' >= LastTrue(h, a)
  BY WorldForgetsNothing
<1>2. UNCHANGED <<list, node, index, at, host, since, found>>
  BY DEF World, Tick, Renumber, lruVars, callVars
<1>3. CacheSound'
  BY <1>2 DEF CacheSound, Exist, Entry
<1>4. \A h \in Hosts, a \in Addresses : LastTrue(h, a) \in Nat /\ LastTrue(h, a)' \in Nat
  <2>1. \A h \in Hosts, a \in Addresses : LastTrue(h, a) \in Nat
    BY LastTrueTyped
  <2>2. \A h \in Hosts, a \in Addresses : LastTrue(h, a)' \in Nat
    BY <1>1 DEF AsyncTypeOK, LastTrue
  <2>. QED  BY <2>1, <2>2
<1>5. EntriesTrue'
  <2>1. Recent' = Recent
    BY <1>2 DEF Recent
  <2>. SUFFICES ASSUME NEW i \in DOMAIN Recent PROVE EntryTrue(Recent[i])'
    BY <2>1 DEF EntriesTrue
  <2>2. Recent[i] \in Keys \X Records /\ EntryTrue(Recent[i])
    BY RecentTyped DEF AsyncTypeOK, EntriesTrue
  <2>3. /\ Recent[i][1] \in Hosts /\ Recent[i][2].addr \in Addresses
        /\ Recent[i][2].ts \in Nat
    BY <2>2, DnsAssumption DEF Hosts, Records
  <2>. QED  BY <1>1, <1>4, <2>1, <2>2, <2>3 DEF EntryTrue, AsyncTypeOK
<1>6. AnswersTrue'
  BY <1>1, <1>2, <1>4 DEF AnswersTrue, AsyncTypeOK
<1>7. AddressRecentlyTrue'
  BY <1>1, <1>2, <1>4, DnsAssumption DEF AddressRecentlyTrue, AsyncTypeOK
<1>. QED  BY <1>1, <1>3, <1>5, <1>6, <1>7

\* What the invariant says of one call.
CallSound(c) ==
  /\ since[c] <= now /\ (Resolving(c) => since[c] >= 1)
  /\ at[c] = "put" => LastTrue(host[c], found[c]) >= since[c]
  /\ at[c] = "resolved" => LastTrue(host[c], found[c]) + Expire >= since[c]

\* A step of one call disturbs no other one.
LEMMA OneCall ==
  ASSUME AsyncIInv, NEW c \in Callers, UNCHANGED worldVars,
         AsyncTypeOK', CacheSound', EntriesTrue', CallSound(c)',
         \A d \in Callers \ {c} : /\ at'[d] = at[d] /\ host'[d] = host[d]
                                  /\ since'[d] = since[d] /\ found'[d] = found[d]
  PROVE  AsyncIInv'
<1>1. UNCHANGED <<now, actual, until>>
  BY DEF worldVars
<1>2. \A d \in Callers : CallSound(d)'
  <2>1. ASSUME NEW d \in Callers \ {c} PROVE CallSound(d)'
    <3>1. CallSound(d)
      BY DEF CallSound, AsyncIInv, TimesSound, AnswersTrue, AddressRecentlyTrue
    <3>. QED  BY <1>1, <3>1 DEF CallSound, Resolving, LastTrue
  <2>. QED  BY <2>1
<1>3. TimesSound'
  BY <1>1, <1>2 DEF TimesSound, AsyncIInv, CallSound
<1>4. AnswersTrue' /\ AddressRecentlyTrue'
  BY <1>2 DEF AnswersTrue, AddressRecentlyTrue, CallSound
<1>. QED  BY <1>3, <1>4 DEF AsyncIInv

\* A step that leaves the cache and the world alone.
LEMMA CacheKept ==
  ASSUME AsyncIInv, UNCHANGED lruVars, UNCHANGED worldVars
  PROVE  CacheTyped' /\ CacheSound' /\ EntriesTrue'
<1>1. UNCHANGED <<list, node, index, now, actual, until>>
  BY DEF lruVars, worldVars
<1>2. Recent' = Recent
  BY <1>1 DEF Recent
<1>. QED  BY <1>1, <1>2 DEF AsyncIInv, AsyncTypeOK, CacheTyped, CacheSound, Exist, Entry, EntriesTrue,
            EntryTrue, LastTrue

\* A step that puts an entry which is true, or moves one.
LEMMA EntriesKept ==
  ASSUME AsyncIInv, UNCHANGED worldVars, NEW k \in Keys, NEW v \in Records,
         CacheStep(k, v), EntryTrue(<<k, v>>)
  PROVE  EntriesTrue'
<1>1. UNCHANGED <<now, actual, until>>
  BY DEF worldVars
<1>2. \A i \in DOMAIN Recent' :
        Recent'[i] = <<k, v>> \/ \E q \in DOMAIN Recent : Recent'[i] = Recent[q]
  BY NothingElse DEF AsyncIInv, AsyncTypeOK
<1>3. \A i \in DOMAIN Recent' : EntryTrue(Recent'[i])
  BY <1>2 DEF AsyncIInv, EntriesTrue
<1>. QED  BY <1>1, <1>3 DEF EntriesTrue, EntryTrue, LastTrue

\* A call, or another attempt of it, begins to resolve a name.
LEMMA BeginIInv ==
  ASSUME AsyncIInv, NEW c \in Callers, NEW from, NEW h \in Hosts, ResolveBegin(c, from, h),
         threads' = threads, ended' = ended, attempts' \in [Callers -> 0 .. MaxRetryTimes]
  PROVE  AsyncIInv'
<1>1. UNCHANGED lruVars /\ UNCHANGED worldVars
  BY DEF ResolveBegin
<1>2. CacheTyped' /\ CacheSound' /\ EntriesTrue'
  BY <1>1, CacheKept
<1>3. AsyncTypeOK'
  <2>1. UNCHANGED <<now, actual, until, moves, found>>
    BY DEF ResolveBegin, worldVars
  <2>2. /\ at' = [at EXCEPT ![c] = "get"] /\ host' = [host EXCEPT ![c] = h]
        /\ since' = [since EXCEPT ![c] = now]
    BY DEF ResolveBegin, Goes
  <2>3. now \in 0 .. MaxTime /\ "get" \in CallPlaces
    BY DEF AsyncIInv, AsyncTypeOK, CallPlaces
  <2>4. /\ at' \in [Callers -> CallPlaces] /\ host' \in [Callers -> Hosts]
        /\ since' \in [Callers -> 0 .. MaxTime]
    BY <2>2, <2>3 DEF AsyncIInv, AsyncTypeOK
  <2>. QED  BY <1>2, <2>1, <2>4 DEF AsyncIInv, AsyncTypeOK
<1>4. CallSound(c)'
  BY DEF ResolveBegin, Goes, CallSound, Resolving, AsyncIInv, AsyncTypeOK, worldVars
<1>. QED  BY <1>1, <1>2, <1>3, <1>4, OneCall DEF ResolveBegin, Goes, AsyncIInv, AsyncTypeOK

\* The variables of a call are put back to what they were.
LEMMA OverIInv ==
  ASSUME AsyncIInv, NEW c \in Callers, NEW place \in {"finishing", "thrown", "hung"},
         CallOver(c, place),
         threads' = threads, attempts' = attempts, ended' \subseteq Callers
  PROVE  AsyncIInv'
<1>1. UNCHANGED lruVars /\ UNCHANGED worldVars
  BY DEF CallOver
<1>2. CacheTyped' /\ CacheSound' /\ EntriesTrue'
  BY <1>1, CacheKept
<1>3. AnAddress \in Addresses /\ AHost \in Hosts /\ 0 \in 0 .. MaxTime
  BY DnsAssumption DEF AnAddress, AHost
<1>4. AsyncTypeOK'
  BY <1>2, <1>3 DEF CallOver, Goes, AsyncIInv, AsyncTypeOK, CallPlaces, worldVars
<1>5. CallSound(c)'
  BY DEF CallOver, Goes, CallSound, Resolving, AsyncIInv, AsyncTypeOK, worldVars
<1>. QED  BY <1>1, <1>2, <1>4, <1>5, OneCall DEF CallOver, Goes, AsyncIInv, AsyncTypeOK

\* A step that only moves a call on, to where nothing is claimed of its address.
LEMMA MoveIInv ==
  ASSUME AsyncIInv, NEW c \in Callers, NEW place \in CallPlaces \ {"put", "resolved"},
         Goes(c, place), UNCHANGED <<lruVars, worldVars, host, since, found, threads, ended>>,
         attempts' \in [Callers -> 0 .. MaxRetryTimes],
         place \in {"get", "query"} => Resolving(c)
  PROVE  AsyncIInv'
<1>1. CacheTyped' /\ CacheSound' /\ EntriesTrue'
  BY CacheKept
<1>2. AsyncTypeOK'
  BY <1>1 DEF Goes, AsyncIInv, AsyncTypeOK, worldVars
<1>3. CallSound(c)'
  BY DEF Goes, CallSound, Resolving, AsyncIInv, AsyncTypeOK, TimesSound, worldVars
<1>. QED  BY <1>1, <1>2, <1>3, OneCall DEF Goes, AsyncIInv, AsyncTypeOK

\* The name server's answer is true when it is given, after the call began.
LEMMA QueryIInv ==
  ASSUME AsyncIInv, NEW c \in Callers, ResolveQuery(c), UNCHANGED asyncVars
  PROVE  AsyncIInv'
<1>1. UNCHANGED lruVars /\ UNCHANGED worldVars
  BY DEF ResolveQuery
<1>2. CacheTyped' /\ CacheSound' /\ EntriesTrue'
  BY <1>1, CacheKept
<1>3. AsyncTypeOK'
  BY <1>2 DEF ResolveQuery, Goes, AsyncIInv, AsyncTypeOK, CallPlaces, worldVars, asyncVars
<1>4. CallSound(c)'
  BY DEF ResolveQuery, Goes, CallSound, Resolving, LastTrue, AsyncIInv, AsyncTypeOK, TimesSound,
     worldVars
<1>. QED  BY <1>1, <1>2, <1>3, <1>4, OneCall DEF ResolveQuery, Goes, AsyncIInv, AsyncTypeOK

\* An entry that is not too old was true when it was made, or later.
LEMMA HitIInv ==
  ASSUME AsyncIInv, NEW c \in Callers, ResolveHit(c), UNCHANGED asyncVars
  PROVE  AsyncIInv'
<1>. DEFINE k == host[c]
            e == Entry(host[c])
            v == e[2]
<1>1. k \in Keys /\ UNCHANGED worldVars
  BY DEF AsyncIInv, AsyncTypeOK, Hosts, ResolveHit
<1>2. PICK p \in DOMAIN Recent :
        /\ Recent[p] = e /\ Recent[p][1] = k
        /\ Recent' = <<Recent[p]>> \o RemoveAt(Recent, p)
  BY <1>1, GetSound DEF ResolveHit, AsyncIInv, AsyncTypeOK
<1>3. CacheTyped' /\ CacheSound'
  BY <1>1, GetSound DEF ResolveHit, AsyncIInv, AsyncTypeOK
<1>4. v \in Records /\ e = <<k, v>> /\ EntryTrue(e)
  <2>1. Recent[p] \in Keys \X Records
    BY RecentTyped DEF AsyncIInv, AsyncTypeOK
  <2>. QED  BY <1>2, <2>1 DEF AsyncIInv, EntriesTrue
<1>. HIDE DEF e, v
<1>5. CacheStep(k, v)
  BY <1>2, <1>4 DEF CacheStep
<1>6. EntriesTrue'
  <2>. HIDE DEF k
  <2>. QED  BY <1>1, <1>4, <1>5, EntriesKept
<1>7. at[c] = "get" /\ UNCHANGED <<host, since, threads, attempts, ended>>
  BY DEF ResolveHit, asyncVars
<1>8. \/ Goes(c, "query") /\ found' = found
      \/ /\ Goes(c, "resolved") /\ found' = [found EXCEPT ![c] = v.addr]
         /\ ~(since[c] > v.ts + Expire)
  BY DEF ResolveHit, Expired, e, v
<1>9. AsyncTypeOK'
  BY <1>1, <1>3, <1>4, <1>7, <1>8 DEF Goes, AsyncIInv, AsyncTypeOK, CallPlaces, worldVars, Records
<1>10. CallSound(c)'
  <2>1. UNCHANGED <<now, actual, until>> /\ since[c] <= now /\ since[c] >= 1
    BY <1>1, <1>7 DEF worldVars, AsyncIInv, TimesSound, Resolving
  <2>2. LastTrue(k, v.addr) >= v.ts
    BY <1>4 DEF EntryTrue
  <2>3. LastTrue(k, v.addr) \in Nat /\ v.ts \in Nat /\ Expire \in Nat /\ since[c] \in Nat
    BY <1>1, <1>4, LastTrueTyped, DnsAssumption DEF Records, Hosts, AsyncIInv, AsyncTypeOK
  <2>4. CASE Goes(c, "query") /\ found' = found
    BY <1>7, <2>1, <2>4 DEF Goes, CallSound, AsyncIInv, AsyncTypeOK
  <2>5. CASE /\ Goes(c, "resolved") /\ found' = [found EXCEPT ![c] = v.addr]
             /\ ~(since[c] > v.ts + Expire)
    <3>1. at'[c] = "resolved" /\ found'[c] = v.addr
      BY <2>5 DEF Goes, AsyncIInv, AsyncTypeOK
    <3>2. LastTrue(host[c], found[c])' = LastTrue(k, v.addr)
      BY <1>7, <2>1, <3>1 DEF LastTrue
    <3>3. LastTrue(k, v.addr) + Expire >= since[c]
      BY <2>2, <2>3, <2>5
    <3>. QED  BY <1>7, <2>1, <3>1, <3>2, <3>3 DEF CallSound
  <2>. QED  BY <1>8, <2>4, <2>5
<1>. QED  BY <1>1, <1>3, <1>6, <1>7, <1>8, <1>9, <1>10, OneCall DEF Goes, AsyncIInv, AsyncTypeOK

\* The entry of an answer is as old as the call, which asked for it afterwards.
LEMMA PutIInv ==
  ASSUME AsyncIInv, NEW c \in Callers, ResolvePut(c), UNCHANGED asyncVars
  PROVE  AsyncIInv' /\ CacheStep(host[c], [addr |-> found[c], ts |-> since[c]])
<1>. DEFINE k == host[c]
            v == [addr |-> found[c], ts |-> since[c]]
<1>1. UNCHANGED <<worldVars, host, since, found, threads, attempts, ended>> /\ at[c] = "put"
  BY DEF ResolvePut, asyncVars
<1>2. /\ since[c] \in 1 .. MaxTime /\ since[c] <= now /\ now \in Nat
      /\ LastTrue(host[c], found[c]) >= since[c]
  BY <1>1 DEF AsyncIInv, AsyncTypeOK, TimesSound, AnswersTrue, Resolving
<1>3. k \in Keys /\ v \in Records
  BY <1>2 DEF AsyncIInv, AsyncTypeOK, Hosts, Records
<1>4. LruPut(k, v) /\ Goes(c, "resolved")
  BY DEF ResolvePut
<1>5. EntryTrue(<<k, v>>)
  BY <1>2 DEF EntryTrue
<1>6. HasRoom /\ CacheTyped /\ CacheSound
  BY DEF AsyncIInv, AsyncTypeOK
<1>7. CacheTyped' /\ CacheSound' /\ CacheStep(k, v)
  <2>. HIDE DEF k, v
  <2>. QED  BY <1>3, <1>4, <1>6, PutSound
<1>8. EntriesTrue'
  <2>. HIDE DEF k, v
  <2>. QED  BY <1>1, <1>3, <1>5, <1>7, EntriesKept
<1>9. AsyncTypeOK'
  BY <1>1, <1>4, <1>7 DEF Goes, AsyncIInv, AsyncTypeOK, CallPlaces, worldVars
<1>10. CallSound(c)'
  <2>1. LastTrue(host[c], found[c])' = LastTrue(host[c], found[c])
    BY <1>1 DEF LastTrue, worldVars
  <2>2. LastTrue(host[c], found[c]) \in Nat /\ Expire \in Nat
    BY LastTrueTyped, DnsAssumption DEF AsyncIInv, AsyncTypeOK
  <2>3. at'[c] = "resolved" /\ now' = now
    BY <1>1, <1>4 DEF Goes, AsyncIInv, AsyncTypeOK, worldVars
  <2>. QED  BY <1>1, <1>2, <2>1, <2>2, <2>3 DEF CallSound
<1>11. AsyncIInv'
  BY <1>1, <1>4, <1>7, <1>8, <1>9, <1>10, OneCall DEF Goes, AsyncIInv, AsyncTypeOK
<1>. QED  BY <1>7, <1>11

\* Nothing happens.
LEMMA StutterIInv ==
  ASSUME AsyncIInv, UNCHANGED processVars
  PROVE  AsyncIInv'
<1>1. UNCHANGED <<list, node, index, now, actual, until, moves, at, host, since, found,
                  threads, attempts, ended>>
  BY DEF processVars, dnsVars, lruVars, worldVars, callVars, asyncVars
<1>2. CacheTyped' /\ CacheSound' /\ EntriesTrue'
  BY <1>1, CacheKept DEF lruVars, worldVars
<1>. QED  BY <1>1, <1>2 DEF AsyncIInv, AsyncTypeOK, TimesSound, Resolving, AnswersTrue,
            AddressRecentlyTrue, LastTrue

\* The inductive invariant is kept by every step.
LEMMA AsyncNextIInv ==
  ASSUME AsyncIInv, AsyncNext
  PROVE  AsyncIInv'
<1>. USE DEF AsyncIInv
<1>1. ASSUME NEW c \in Callers, Start(c) PROVE AsyncIInv'
  <2>. PICK h \in Hosts : ResolveBegin(c, "idle", h)
    BY <1>1 DEF Start
  <2>. QED  BY <1>1, BeginIInv DEF Start, asyncVars, AsyncTypeOK
<1>2. ASSUME NEW c \in Callers, StartRefused(c) PROVE AsyncIInv'
  BY <1>2, MoveIInv DEF StartRefused, asyncVars, AsyncTypeOK, CallPlaces
<1>3. ASSUME NEW c \in Callers, SendFails(c) PROVE AsyncIInv'
  <2>1. host[c] \in Hosts /\ Backup[host[c]] \in Hosts
    BY AsyncAssumption DEF AsyncTypeOK
  <2>2. PICK h \in Hosts : ResolveBegin(c, "resolved", h)
    BY <1>3, <2>1 DEF SendFails
  <2>3. attempts' \in [Callers -> 0 .. MaxRetryTimes]
    BY <1>3, RetryAssumption DEF SendFails, AsyncTypeOK
  <2>. QED  BY <1>3, <2>2, <2>3, BeginIInv DEF SendFails
<1>4. ASSUME NEW c \in Callers, Finish(c) PROVE AsyncIInv'
  BY <1>4, OverIInv DEF Finish, AsyncTypeOK
<1>5. ASSUME NEW c \in Callers, Return(c) PROVE AsyncIInv'
  <2>1. attempts' \in [Callers -> 0 .. MaxRetryTimes]
    BY <1>5, RetryAssumption DEF Return, AsyncTypeOK
  <2>. DEFINE place == IF at[c] = "thrown" THEN "lost" ELSE "returned"
  <2>2. Goes(c, place) /\ place \in CallPlaces \ {"put", "resolved", "get", "query"}
    BY <1>5 DEF Return, CallPlaces
  <2>. HIDE DEF place
  <2>. QED  BY <1>5, <2>1, <2>2, MoveIInv DEF Return
<1>9. ASSUME NEW c \in Callers, NextRequest(c) PROVE AsyncIInv'
  <2>1. PICK h \in Hosts : ResolveBegin(c, "resolved", h)
    BY <1>9 DEF NextRequest
  <2>. QED  BY <1>9, <2>1, BeginIInv DEF NextRequest, asyncVars, AsyncTypeOK
<1>10. ASSUME NEW c \in Callers, PartRefused(c) \/ PartLost(c) PROVE AsyncIInv'
  BY <1>10, OverIInv DEF PartRefused, PartLost, asyncVars, AsyncTypeOK
<1>6. ASSUME NEW c \in Callers, Resolve(c), UNCHANGED asyncVars PROVE AsyncIInv'
  <2>3. ~ResolveAstray(c) /\ ~ProcessDies(c)
    BY NeverAtEnd DEF ResolveAstray, ProcessDies, AsyncTypeOK, Hosts
  <2>1. CASE ResolveMiss(c)
    BY <1>6, <2>1, MoveIInv DEF ResolveMiss, Resolving, asyncVars, AsyncTypeOK, CallPlaces
  <2>2. CASE ResolveThrows(c)
    BY <1>6, <2>2, OverIInv DEF ResolveThrows, asyncVars, AsyncTypeOK
  <2>. QED  BY <1>6, <2>1, <2>2, <2>3, HitIInv, QueryIInv, PutIInv DEF Resolve
<1>7. CASE World
  BY <1>7, WorldIInv
<1>8. CASE Ended
  BY <1>8, StutterIInv DEF Ended
<1>. QED  BY <1>1, <1>2, <1>3, <1>4, <1>5, <1>6, <1>7, <1>8, <1>9, <1>10 DEF AsyncNext, Call

-----------------------------------------------------------------------------
(* Theorems about the calls.                                               *)

\* The invariant of the cache and of the calls that share it, however they cross,
\* when the cache has room.
THEOREM AsyncInvariance == HasRoom /\ AsyncSpec => []AsyncIInv
<1>1. AsyncIInv /\ [AsyncNext]_processVars => AsyncIInv'
  BY AsyncNextIInv, StutterIInv
<1>2. HasRoom /\ AsyncInit => AsyncIInv
  BY AsyncInitIInv
<1>. QED  BY <1>1, <1>2, PTL DEF AsyncSpec

\* Every variable of the calls, of the cache and of the name server has its type.
THEOREM AsyncTypeCorrect == HasRoom /\ AsyncSpec => []AsyncTypeOK
<1>1. AsyncIInv => AsyncTypeOK
  BY DEF AsyncIInv
<1>. QED  BY AsyncInvariance, <1>1, PTL

\* LruCache's list and its map of iterators agree after every Put and Get of a cache
\* with room for an entry: no iterator dangles or is the list's end, no node is lost
\* and the cache never outgrows its bound.
THEOREM CacheStaysSound == HasRoom /\ AsyncSpec => [](CacheSound /\ \A k \in Keys : ~AtEnd(k))
<1>1. AsyncIInv => CacheSound /\ \A k \in Keys : ~AtEnd(k)
  BY NeverAtEnd DEF AsyncIInv, AsyncTypeOK
<1>. QED  BY AsyncInvariance, <1>1, PTL

\* SimpleDnsCache::Resolve: the address a call uses was the host's at some moment
\* not longer than the expiry before the call began, whoever found it.
THEOREM AddressTrueLately == HasRoom /\ AsyncSpec => []AddressRecentlyTrue
<1>1. AsyncIInv => AddressRecentlyTrue
  BY DEF AsyncIInv
<1>. QED  BY AsyncInvariance, <1>1, PTL

\* The places of a name's resolution, and how far each is from its end.
Resolution == [get |-> 5, query |-> 4, put |-> 3, resolved |-> 2]

\* A step of a call, by what it does to its place, its attempts and its handler.
CallStep(c) ==
  \/ /\ at[c] = "idle" /\ UNCHANGED <<attempts, ended>>
     /\ \/ Goes(c, "get") /\ Cardinality(Running) < threads
        \/ Goes(c, "refused")
  \/ /\ Resolving(c) /\ UNCHANGED <<attempts, ended>>
     /\ \/ Goes(c, "thrown") \/ (Goes(c, "hung") /\ c \in MultiPart)
        \/ \E p \in DOMAIN Resolution : Goes(c, p) /\ Resolution[p] < Resolution[at[c]]
  \/ /\ at[c] = "resolved" /\ Goes(c, "get") /\ ended' = ended
     /\ \/ attempts[c] < MaxRetryTimes /\ attempts' = [attempts EXCEPT ![c] = @ + 1]
        \/ c \in MultiPart /\ attempts' = attempts
  \/ /\ at[c] = "resolved" /\ Goes(c, "finishing")
     /\ ended' = ended \cup {c} /\ attempts' = attempts
  \/ /\ at[c] \in {"finishing", "thrown"} /\ ended' = ended
     /\ Goes(c, IF at[c] = "thrown" THEN "lost" ELSE "returned")
     /\ attempts' = [attempts EXCEPT ![c] = 0]

\* Every step of a call is one of those; time and the name server leave calls alone.
LEMMA OnlyCallSteps ==
  ASSUME AsyncIInv, [AsyncNext]_processVars
  PROVE  /\ threads' = threads
         /\ UNCHANGED <<at, attempts, ended>> \/ \E c \in Callers : CallStep(c)
         /\ \A c \in Callers : Call(c) \/ (Resolve(c) /\ UNCHANGED asyncVars) => CallStep(c)
<1>1. ASSUME NEW c \in Callers, Call(c) PROVE CallStep(c) /\ threads' = threads
  BY <1>1 DEF Call, Start, StartRefused, SendFails, Finish, Return, NextRequest, PartRefused,
     PartLost, ResolveBegin, CallOver, CallStep, Resolving, asyncVars
<1>2. ASSUME NEW c \in Callers, Resolve(c), UNCHANGED asyncVars
      PROVE  CallStep(c) /\ threads' = threads
  <2>1. ~ResolveAstray(c) /\ ~ProcessDies(c)
    BY NeverAtEnd DEF ResolveAstray, ProcessDies, AsyncIInv, AsyncTypeOK, Hosts
  <2>. QED  BY <1>2, <2>1 DEF Resolve, ResolveHit, ResolveMiss, ResolveQuery, ResolveThrows,
            ResolvePut, CallOver, CallStep, Resolution, Resolving, asyncVars
<1>3. ASSUME World \/ Ended \/ UNCHANGED processVars
      PROVE  UNCHANGED <<at, threads, attempts, ended>>
  BY <1>3 DEF World, Tick, Renumber, Ended, processVars, dnsVars, callVars, asyncVars
<1>. QED  BY <1>1, <1>2, <1>3 DEF AsyncNext

\* The task manager: the calls that have a thread are never more than its pool has.
PoolBounded == IsFiniteSet(Running) /\ Cardinality(Running) <= threads

\* A handler is final exactly when its call has finished: not while an attempt is
\* still due, and never for a call that an exception ended or the pool refused.
EndedExactly == ended = {c \in Callers : at[c] \in {"finishing", "returned"}}

\* The calls that have a thread are joined by one that starts, for which there was
\* room, and left by one that returns.
LEMMA PoolStep ==
  ASSUME AsyncIInv, PoolBounded, [AsyncNext]_processVars
  PROVE  PoolBounded'
<1>1. threads' = threads /\ threads \in Nat /\ Cardinality(Running) \in Nat
  BY OnlyCallSteps, AsyncAssumption, FS_CardinalityType DEF AsyncIInv, AsyncTypeOK, PoolBounded
<1>2. CASE UNCHANGED at
  BY <1>1, <1>2 DEF PoolBounded, Running
<1>3. ASSUME NEW c \in Callers, CallStep(c) PROVE PoolBounded'
  <2>1. at \in [Callers -> CallPlaces]
    BY DEF AsyncIInv, AsyncTypeOK
  <2>2. CASE at[c] = "idle" /\ Goes(c, "get") /\ Cardinality(Running) < threads
    <3>1. Running' = Running \cup {c} /\ c \notin Running
      BY <2>1, <2>2 DEF Running, Goes, Gone
    <3>2. IsFiniteSet(Running \cup {c}) /\ Cardinality(Running \cup {c}) = Cardinality(Running) + 1
      BY <3>1, FS_AddElement DEF PoolBounded
    <3>. QED  BY <1>1, <2>2, <3>1, <3>2 DEF PoolBounded
  <2>3. CASE \/ at[c] = "idle" /\ Goes(c, "refused")
             \/ /\ at[c] \in {"finishing", "thrown"}
                /\ Goes(c, IF at[c] = "thrown" THEN "lost" ELSE "returned")
    <3>1. Running' \subseteq Running
      BY <2>1, <2>3 DEF Running, Goes, Gone
    <3>2. IsFiniteSet(Running') /\ Cardinality(Running') <= Cardinality(Running)
      BY <3>1, FS_Subset DEF PoolBounded
    <3>3. Cardinality(Running') \in Nat
      BY <3>2, FS_CardinalityType
    <3>. QED  BY <1>1, <3>2, <3>3 DEF PoolBounded
  <2>4. CASE /\ Resolving(c)
             /\ \E p \in {"get", "query", "put", "resolved", "finishing", "thrown", "hung"} :
                  Goes(c, p)
    <3>1. Running' = Running
      BY <2>1, <2>4 DEF Running, Goes, Gone, Resolving
    <3>. QED  BY <1>1, <3>1 DEF PoolBounded
  <2>. QED  BY <1>3, <2>2, <2>3, <2>4 DEF CallStep, Resolution, Resolving
<1>. QED  BY <1>2, <1>3, OnlyCallSteps

\* CosAPI::AsyncXxx: the calls under way, with those whose status is final and whose
\* thread has not returned yet, never outnumber the threads of the global task
\* manager, however the starts and the ends cross.
THEOREM PoolNeverOverfull == HasRoom /\ AsyncSpec => []PoolBounded
<1>1. AsyncInit => PoolBounded
  <2>. SUFFICES ASSUME AsyncInit PROVE PoolBounded
    OBVIOUS
  <2>1. Running = {}
    BY DEF AsyncInit, DnsInit, Running
  <2>2. threads \in Nat
    BY AsyncAssumption DEF AsyncInit
  <2>. QED  BY <2>1, <2>2, FS_EmptySet DEF PoolBounded
<1>. QED  BY <1>1, PoolStep, AsyncInvariance, PTL DEF AsyncSpec

\* TransferHandler and the task manager: a call that has finished has given its
\* handler a final status, before its thread is free again, and no other has.
THEOREM StatusesAreKept == HasRoom /\ AsyncSpec => []EndedExactly
<1>1. AsyncInit => EndedExactly
  BY DEF AsyncInit, DnsInit, EndedExactly
<1>2. ASSUME AsyncIInv, EndedExactly, [AsyncNext]_processVars PROVE EndedExactly'
  <2>1. CASE UNCHANGED <<at, ended>>
    BY <1>2, <2>1 DEF EndedExactly
  <2>2. ASSUME NEW c \in Callers, CallStep(c) PROVE EndedExactly'
    BY <1>2, <2>2 DEF CallStep, Resolution, Resolving, Goes, EndedExactly, AsyncIInv, AsyncTypeOK
  <2>. QED  BY <1>2, <2>1, <2>2, OnlyCallSteps
<1>. QED  BY <1>1, <1>2, AsyncInvariance, PTL DEF AsyncSpec

\* How many steps a call of one request has left, at most: four for each attempt
\* that may still come, and those of the attempt it is in.
Left(c) ==
  IF at[c] \in Gone THEN 0
  ELSE IF at[c] \in {"finishing", "thrown", "hung"} THEN 1
  ELSE 4 * (MaxRetryTimes - attempts[c]) + (IF at[c] = "idle" THEN 6 ELSE Resolution[at[c]])

\* What a step does to the steps that are left: those of no call become more, those
\* of the call whose step it is become fewer, and a call with none is over.
CallsShorten ==
  \A c \in Callers \ MultiPart :
    /\ Left(c) \in Nat /\ (Left(c) = 0 => at[c] \in Gone)
    /\ Left(c)' <= Left(c)
    /\ (Call(c) \/ (Resolve(c) /\ UNCHANGED asyncVars)) => Left(c)' < Left(c)

\* A step of a call of one request leaves it fewer, a step of any call every other
\* one as many.
LEMMA CallShortens ==
  ASSUME AsyncIInv, NEW c \in Callers, CallStep(c)
  PROVE  /\ c \notin MultiPart => Left(c)' < Left(c)
         /\ \A d \in Callers \ {c} : Left(d)' = Left(d)
<1>1. /\ at \in [Callers -> CallPlaces] /\ attempts \in [Callers -> 0 .. MaxRetryTimes]
      /\ MaxRetryTimes \in Nat
  BY RetryAssumption DEF AsyncIInv, AsyncTypeOK
<1>2. \A d \in Callers \ {c} : at'[d] = at[d] /\ attempts'[d] = attempts[d]
  BY <1>1 DEF CallStep, Goes
<1>3. \A d \in Callers \ {c} : Left(d)' = Left(d)
  BY <1>2 DEF Left
<1>. SUFFICES ASSUME c \notin MultiPart PROVE Left(c)' < Left(c)
  BY <1>3
<1>4. attempts[c] \in 0 .. MaxRetryTimes
  BY <1>1
<1>. DEFINE n == MaxRetryTimes - attempts[c]
            steps == Resolution[at[c]]
<1>5. n \in Nat
  BY <1>1, <1>4
<1>6. ASSUME Resolving(c) PROVE Left(c) = 4 * n + steps /\ steps \in 2 .. 5
  BY <1>6 DEF Left, Gone, Resolving, Resolution
<1>7. CASE at[c] = "idle"
  BY <1>1, <1>4, <1>7 DEF CallStep, Goes, Left, Gone, Resolution, Resolving
<1>8. CASE at[c] \in {"finishing", "thrown"}
  BY <1>1, <1>8 DEF CallStep, Goes, Left, Gone, Resolving
<1>9. CASE Resolving(c) /\ Goes(c, "thrown")
  <2>1. Left(c)' = 1
    BY <1>1, <1>9 DEF Goes, Left, Gone
  <2>2. Left(c) = 4 * n + steps /\ steps \in 2 .. 5
    BY <1>6, <1>9
  <2>. HIDE DEF n, steps
  <2>3. 1 < 4 * n + steps
    BY <1>5, <2>2
  <2>. QED  BY <1>3, <2>1, <2>2, <2>3
<1>10. CASE Resolving(c) /\ Goes(c, "finishing")
  <2>1. Left(c)' = 1
    BY <1>1, <1>10 DEF Goes, Left, Gone
  <2>2. Left(c) = 4 * n + steps /\ steps \in 2 .. 5
    BY <1>6, <1>10
  <2>. HIDE DEF n, steps
  <2>3. 1 < 4 * n + steps
    BY <1>5, <2>2
  <2>. QED  BY <1>3, <2>1, <2>2, <2>3
<1>11. CASE /\ Resolving(c) /\ attempts' = attempts
           /\ \E p \in DOMAIN Resolution : Goes(c, p) /\ Resolution[p] < Resolution[at[c]]
  BY <1>1, <1>4, <1>11 DEF Goes, Left, Gone, Resolution, Resolving
<1>12. CASE /\ at[c] = "resolved" /\ Goes(c, "get") /\ attempts[c] < MaxRetryTimes
            /\ attempts' = [attempts EXCEPT ![c] = @ + 1]
  BY <1>1, <1>4, <1>12 DEF Goes, Left, Gone, Resolution
<1>. QED  BY <1>3, <1>7, <1>8, <1>9, <1>10, <1>11, <1>12 DEF CallStep, Resolving

\* CosAPI::AsyncXxx, BaseOp's attempts and SimpleDnsCache::Resolve: no call of one
\* request goes on for ever, whatever its attempts meet and however the others cross
\* it. Each of its steps leaves it fewer to take, nothing else gives it more, and only
\* a call that is over has none left.
THEOREM CallsRunOut == HasRoom /\ AsyncSpec => [][CallsShorten]_processVars
<1>1. ASSUME AsyncIInv, [AsyncNext]_processVars, NEW c \in Callers \ MultiPart
      PROVE  /\ Left(c) \in Nat /\ (Left(c) = 0 => at[c] \in Gone)
             /\ Left(c)' <= Left(c)
             /\ (Call(c) \/ (Resolve(c) /\ UNCHANGED asyncVars)) => Left(c)' < Left(c)
  <2>1. /\ at[c] \in CallPlaces /\ attempts[c] \in 0 .. MaxRetryTimes /\ MaxRetryTimes \in Nat
    BY <1>1, RetryAssumption DEF AsyncIInv, AsyncTypeOK
  <2>2. Left(c) \in Nat /\ (Left(c) = 0 => at[c] \in Gone)
    BY <2>1 DEF Left, Gone, Resolution, CallPlaces
  <2>3. AsyncIInv'
    BY <1>1, AsyncNextIInv, StutterIInv
  <2>4. Left(c)' \in Nat
    <3>1. /\ at'[c] \in CallPlaces /\ attempts'[c] \in 0 .. MaxRetryTimes
          /\ MaxRetryTimes \in Nat
      BY <2>3, RetryAssumption DEF AsyncIInv, AsyncTypeOK
    <3>. QED  BY <3>1 DEF Left, Gone, Resolution, CallPlaces
  <2>5. CASE UNCHANGED <<at, attempts>>
    BY <1>1, <2>2, <2>5, OnlyCallSteps, CallShortens DEF Left
  <2>6. ASSUME NEW d \in Callers, CallStep(d) PROVE Left(c)' <= Left(c)
    BY <1>1, <2>2, <2>4, <2>6, CallShortens
  <2>. QED  BY <1>1, <2>2, <2>5, <2>6, OnlyCallSteps, CallShortens
<1>2. AsyncIInv /\ [AsyncNext]_processVars => CallsShorten
  BY <1>1 DEF CallsShorten
<1>. QED  BY <1>2, AsyncInvariance, PTL DEF AsyncSpec

\* A hit is the bounded map's use of an entry, a put its replacing or entering one;
\* no other step touches the cache.
LEMMA StepMapsRecency ==
  ASSUME AsyncIInv, [AsyncNext]_processVars
  PROVE  [Recency!Next]_Recent
<1>0. CacheTyped /\ CacheSound
  BY DEF AsyncIInv, AsyncTypeOK
<1>1. ASSUME UNCHANGED lruVars PROVE [Recency!Next]_Recent
  BY <1>1 DEF lruVars, Recent
<1>2. ASSUME NEW c \in Callers, ResolveHit(c) PROVE Recency!Next
  <2>1. host[c] \in Keys
    BY DEF AsyncIInv, AsyncTypeOK, Hosts
  <2>2. PICK p \in DOMAIN Recent :
          Recent[p][1] = host[c] /\ Recent' = <<Recent[p]>> \o RemoveAt(Recent, p)
    BY <1>0, <1>2, <2>1, GetSound DEF ResolveHit
  <2>3. Recency!Use(host[c])
    BY <2>2 DEF Recency!Use, Recency!PlaceOf, Recency!RemoveAt, RemoveAt
  <2>. QED  BY <2>1, <2>3 DEF Recency!Next
<1>3. ASSUME NEW c \in Callers, ResolvePut(c), UNCHANGED asyncVars PROVE Recency!Next
  <2>. DEFINE k == host[c]
              v == [addr |-> found[c], ts |-> since[c]]
  <2>1. k \in Keys /\ v \in [addr : Addresses, ts : 1 .. MaxTime]
    BY <1>3 DEF AsyncIInv, AsyncTypeOK, TimesSound, Resolving, Hosts, ResolvePut
  <2>2. CacheStep(k, v)
    BY <1>3, PutIInv
  <2>. HIDE DEF k, v
  <2>3. Recency!Replace(k, v) \/ Recency!Enter(k, v)
    BY <2>2 DEF CacheStep, Recency!Replace, Recency!Enter, Recency!PlaceOf, Recency!RemoveAt,
       RemoveAt, Recency!Front, Front
  <2>. QED  BY <2>1, <2>3 DEF Recency!Next
<1>4. CASE UNCHANGED processVars
  BY <1>1, <1>4 DEF processVars, dnsVars
<1>5. ASSUME NEW c \in Callers, Call(c) PROVE UNCHANGED lruVars
  BY <1>5 DEF Call, Start, StartRefused, SendFails, Finish, Return, NextRequest, PartRefused,
     PartLost, ResolveBegin, CallOver
<1>6. ASSUME NEW c \in Callers, Resolve(c), UNCHANGED asyncVars PROVE [Recency!Next]_Recent
  <2>1. CASE ResolveMiss(c) \/ ResolveQuery(c) \/ ResolveThrows(c)
    BY <1>1, <2>1 DEF ResolveMiss, ResolveQuery, ResolveThrows, CallOver
  <2>2. ~ResolveAstray(c) /\ ~ProcessDies(c)
    BY <1>0, NeverAtEnd DEF ResolveAstray, ProcessDies, AsyncIInv, AsyncTypeOK, Hosts
  <2>. QED  BY <1>2, <1>3, <1>6, <2>1, <2>2 DEF Resolve
<1>7. CASE World
  BY <1>1, <1>7 DEF World, Tick, Renumber
<1>. QED  BY <1>1, <1>4, <1>5, <1>6, <1>7 DEF AsyncNext, Ended

\* The DNS cache, shared by calls that cross in any order, is a bounded map that
\* forgets what was longest unused, when it has room for an entry.
THEOREM CacheIsRecencyMap == HasRoom /\ AsyncSpec => ImplementsRecencyMap
<1>1. AsyncInit => Recency!Init
  BY DEF AsyncInit, DnsInit, LruInit, Recent, Recency!Init
<1>2. AsyncIInv /\ [AsyncNext]_processVars => [Recency!Next]_Recent
  BY StepMapsRecency
<1>. QED  BY AsyncInvariance, <1>1, <1>2, PTL DEF AsyncSpec, ImplementsRecencyMap, Recency!Spec

-----------------------------------------------------------------------------
(* TransferHandler.                                                        *)

\* Its sets of places and of results are small, and are always seen through.
USE DEF Operations, Finished, Statuses, Results, NoCall, Calls, Places,
        IsFinishStatus

\* Appending to the callbacks keeps the first one.
LEMMA AppendHead ==
  ASSUME NEW s \in Seq(Results), NEW r \in Results
  PROVE  /\ Append(s, r) \in Seq(Results)
         /\ Append(s, r) # <<>>
         /\ Head(Append(s, r)) = IF s = <<>> THEN r ELSE Head(s)
  <1>1. Append(s, r) \in Seq(Results) /\ Append(s, r) # <<>>
    OBVIOUS
  <1>2. CASE s = <<>>
    BY <1>1, <1>2
  <1>3. CASE s # <<>>
    <2>1. Len(s) \in Nat /\ Len(s) > 0
      BY <1>3
    <2>2. Append(s, r)[1] = s[1]
      BY <2>1
    <2> QED BY <1>1, <1>3, <2>1, <2>2
  <1> QED BY <1>2, <1>3

\* IInv, which TransferHandler defines, holds initially.
LEMMA InitInvariant == Init => IInv
  <1> SUFFICES ASSUME Init PROVE IInv
    OBVIOUS
  <1>1. <<>> \in Seq(Results)
    OBVIOUS
  <1>2. TypeOK
    BY <1>1 DEF Init, TypeOK
  <1>3. ReportsSound
    BY DEF Init, ReportsSound
  <1>4. WaitersSound
    BY DEF Init, WaitersSound
  <1> QED BY <1>2, <1>3, <1>4 DEF IInv

\* The reports of the operation: everything but the callback, the transition and
\* the users' own steps.
LEMMA OperationInvariant == IInv /\ OperationStep => IInv'
  <1> SUFFICES ASSUME IInv, OperationStep PROVE IInv'
    OBVIOUS
  <1> USE DEF IInv, TypeOK, At, Failures, Proceed, Conclude, UpdateStatus, UpdateStatusOnly
  <1>1. TypeOK'
    BY DEF OperationStep, GetObjectFails, GetObjectEnds, PutObjectFails, PutObjectEnds,
      MultiThreadDownloadFails, MultiThreadDownloadBegins, MultiThreadDownloadEnds,
      InitMultiUploadFails, MultiUploadBegins, MultiThreadUploadFails,
      MultiThreadUploadSucceeds, CancelWay, PartsFailed, CompleteEnds, ResumableGetFails,
      ResumableGetBegins, ResumableGetEnds, ResumableGetRestarts, RedownloadEnds,
      OperationThrows, userVars
  <1>2. ReportsSound'
    BY DEF ReportsSound, OperationStep, GetObjectFails, GetObjectEnds, PutObjectFails, PutObjectEnds,
      MultiThreadDownloadFails, MultiThreadDownloadBegins, MultiThreadDownloadEnds,
      InitMultiUploadFails, MultiUploadBegins, MultiThreadUploadFails,
      MultiThreadUploadSucceeds, CancelWay, PartsFailed, CompleteEnds, ResumableGetFails,
      ResumableGetBegins, ResumableGetEnds, ResumableGetRestarts, RedownloadEnds,
      OperationThrows, userVars
  <1>3. IsFinishStatus(status) => (result = "ok" <=> result' = "ok")
    BY DEF ReportsSound, OperationStep, GetObjectFails, GetObjectEnds, PutObjectFails, PutObjectEnds,
      MultiThreadDownloadFails, MultiThreadDownloadBegins, MultiThreadDownloadEnds,
      InitMultiUploadFails, MultiUploadBegins, MultiThreadUploadFails,
      MultiThreadUploadSucceeds, CancelWay, PartsFailed, CompleteEnds, ResumableGetFails,
      ResumableGetBegins, ResumableGetEnds, ResumableGetRestarts, RedownloadEnds,
      OperationThrows, userVars
  <1>4. UNCHANGED <<status, waiter, got>>
    BY DEF OperationStep, GetObjectFails, GetObjectEnds, PutObjectFails, PutObjectEnds,
      MultiThreadDownloadFails, MultiThreadDownloadBegins, MultiThreadDownloadEnds,
      InitMultiUploadFails, MultiUploadBegins, MultiThreadUploadFails,
      MultiThreadUploadSucceeds, CancelWay, PartsFailed, CompleteEnds, ResumableGetFails,
      ResumableGetBegins, ResumableGetEnds, ResumableGetRestarts, RedownloadEnds,
      OperationThrows, userVars
  <1>5. WaitersSound'
    BY <1>3, <1>4 DEF WaitersSound, userVars
  <1> QED BY <1>1, <1>2, <1>5

\* The user's callback is shown a result that no later report contradicts.
LEMMA CallbackInvariant == IInv /\ DoneCallback => IInv'
  <1> SUFFICES ASSUME IInv, DoneCallback PROVE IInv'
    OBVIOUS
  <1> USE DEF IInv, TypeOK, DoneCallback, taskVars, userVars
  <1>1. /\ callbacks' \in Seq(Results)
        /\ callbacks' # <<>>
        /\ Head(callbacks') = IF callbacks = <<>> THEN result ELSE Head(callbacks)
    BY AppendHead
  <1>2. TypeOK'
    BY <1>1
  <1>3. ReportsSound'
    BY <1>1 DEF ReportsSound
  <1>4. WaitersSound'
    BY DEF WaitersSound
  <1> QED BY <1>2, <1>3, <1>4

LEMMA TransitionInvariant == IInv /\ Transition => IInv'
  <1> SUFFICES ASSUME IInv, Transition PROVE IInv'
    OBVIOUS
  <1> USE DEF IInv, TypeOK, Transition, taskVars, IsAllowTransition, NotifyAll
  <1>1. TypeOK'
    <2>1. call # NoCall
      OBVIOUS
    <2>2. status' \in Statuses
      BY <2>1
    <2>3. waiter' \in [Users -> {"away", "asleep", "awake", "returned"}]
      OBVIOUS
    <2> QED BY <2>2, <2>3
  <1>2. ReportsSound'
    BY DEF ReportsSound
  <1>3. WaitersSound'
    BY DEF WaitersSound, ReportsSound
  <1> QED BY <1>1, <1>2, <1>3

LEMMA UserInvariant ==
  IInv /\ (Cancel \/ Done \/ UNCHANGED vars \/ \E u \in Users : UserStep(u)) => IInv'
  <1> SUFFICES ASSUME IInv, Cancel \/ Done \/ UNCHANGED vars \/ \E u \in Users : UserStep(u)
               PROVE  IInv'
    OBVIOUS
  <1> USE DEF IInv, TypeOK, Cancel, Done, UserStep, WaitUntilFinish, SpuriousWakeup, GetResult,
              vars, taskVars, userVars
  <1>1. TypeOK'
    <2>1. UNCHANGED <<taskVars, call, status, result, callbacks>>
      OBVIOUS
    <2>2. cancel' \in BOOLEAN
      OBVIOUS
    <2>3. waiter' \in [Users -> {"away", "asleep", "awake", "returned"}]
      OBVIOUS
    <2>4. got' \in [Users -> Results \cup {"unread"}]
      OBVIOUS
    <2> QED BY <2>1, <2>2, <2>3, <2>4
  <1>2. ReportsSound'
    BY DEF ReportsSound
  <1>3. WaitersSound'
    BY DEF WaitersSound
  <1> QED BY <1>1, <1>2, <1>3

\* IInv holds in every reachable state.
THEOREM Invariance == Spec => []IInv
  <1>1. IInv /\ [Next]_vars => IInv'
    BY OperationInvariant, CallbackInvariant, TransitionInvariant, UserInvariant
      DEF Next, PoolThread
  <1> QED BY InitInvariant, <1>1, PTL DEF Spec

-----------------------------------------------------------------------------
\* The properties

\* Whoever reads the result after waiting learns the operation's verdict.
THEOREM VerdictLearned == Spec => []ReadersLearnTheVerdict
  <1>1. IInv => ReadersLearnTheVerdict
    BY DEF IInv, ReportsSound, WaitersSound, ReadersLearnTheVerdict
  <1> QED BY <1>1, Invariance, PTL

\* No wait ends before the done callback was called and shown the verdict.
THEOREM CallbackFirst == Spec => []CallbackComesFirst
  <1>1. IInv => CallbackComesFirst
    BY DEF IInv, ReportsSound, WaitersSound, CallbackComesFirst
  <1> QED BY <1>1, Invariance, PTL

\* What an operation returns and what its handler says agree.
THEOREM Agreement == Spec => []ReportsAgree
  <1>1. IInv => ReportsAgree
    BY DEF IInv, TypeOK, ReportsSound, ReportsAgree
  <1> QED BY <1>1, Invariance, PTL

\* Under the invariant, a step leaves a final status as it is.
LEMMA FinalStep == IInv /\ [Next]_vars => (IsFinishStatus(status) => status' = status)
  <1> SUFFICES ASSUME IInv, [Next]_vars, IsFinishStatus(status) PROVE status' = status
    OBVIOUS
  <1>1. CASE OperationStep
    BY <1>1 DEF OperationStep, At, Failures, Proceed, Conclude, GetObjectFails, GetObjectEnds, PutObjectFails, PutObjectEnds,
      MultiThreadDownloadFails, MultiThreadDownloadBegins, MultiThreadDownloadEnds,
      InitMultiUploadFails, MultiUploadBegins, MultiThreadUploadFails,
      MultiThreadUploadSucceeds, CancelWay, PartsFailed, CompleteEnds, ResumableGetFails,
      ResumableGetBegins, ResumableGetEnds, ResumableGetRestarts, RedownloadEnds,
      OperationThrows, userVars
  <1>2. CASE Transition
    BY <1>2 DEF Transition, IsAllowTransition, IInv, TypeOK, ReportsSound
  <1>3. CASE DoneCallback \/ Cancel \/ Done \/ UNCHANGED vars \/ \E u \in Users : UserStep(u)
    BY <1>3 DEF DoneCallback, Cancel, Done, UserStep, WaitUntilFinish, SpuriousWakeup, GetResult,
      vars
  <1> QED BY <1>1, <1>2, <1>3 DEF Next, PoolThread

\* A finished operation keeps its status.
THEOREM FinalStatus == Spec => FinishIsFinal
  <1> QED BY FinalStep, Invariance, PTL DEF Spec, FinishIsFinal

\* Nobody sleeps in WaitUntilFinish() once the status is final: the look at the
\* status and the sleep are one step under m_lock_stat, and so are the change of
\* the status and the notification.
NoWakeUpMissed == IsFinishStatus(status) => \A u \in Users : waiter[u] # "asleep"

\* Only the accepted transition makes a status final, and it wakes everybody.
LEMMA WakeUpStep ==
  ASSUME IInv, NoWakeUpMissed, [Next]_vars
  PROVE  NoWakeUpMissed'
  <1>1. CASE OperationStep
    <2>1. UNCHANGED <<status, waiter>>
      BY <1>1 DEF OperationStep, At, Failures, Proceed, Conclude, GetObjectFails, GetObjectEnds,
        PutObjectFails, PutObjectEnds, MultiThreadDownloadFails, MultiThreadDownloadBegins,
        MultiThreadDownloadEnds, InitMultiUploadFails, MultiUploadBegins, MultiThreadUploadFails,
        MultiThreadUploadSucceeds, CancelWay, PartsFailed, CompleteEnds, ResumableGetFails,
        ResumableGetBegins, ResumableGetEnds, ResumableGetRestarts, RedownloadEnds,
        OperationThrows, userVars
    <2> QED BY <2>1 DEF NoWakeUpMissed
  <1>2. CASE Transition
    <2>1. CASE IsFinishStatus(call.status) /\ IsAllowTransition(status, call.status)
      BY <1>2, <2>1 DEF Transition, NotifyAll, NoWakeUpMissed
    <2>2. CASE ~(IsFinishStatus(call.status) /\ IsAllowTransition(status, call.status))
      <3>1. waiter' = waiter /\ (IsFinishStatus(status') => IsFinishStatus(status))
        BY <1>2, <2>2 DEF Transition
      <3> QED BY <3>1 DEF NoWakeUpMissed
    <2> QED BY <2>1, <2>2
  <1>3. ASSUME NEW u \in Users, WaitUntilFinish(u) PROVE NoWakeUpMissed'
    <2>1. /\ status' = status
          /\ waiter' = [waiter EXCEPT ![u] = IF IsFinishStatus(status) THEN "returned" ELSE "asleep"]
      BY <1>3 DEF WaitUntilFinish
    <2> QED BY <2>1 DEF NoWakeUpMissed, IInv, TypeOK
  <1>4. ASSUME NEW u \in Users, SpuriousWakeup(u) PROVE NoWakeUpMissed'
    BY <1>4 DEF SpuriousWakeup, NoWakeUpMissed, IInv, TypeOK
  <1>5. CASE DoneCallback \/ Cancel \/ Done \/ UNCHANGED vars \/ \E u \in Users : GetResult(u)
    <2>1. UNCHANGED <<status, waiter>>
      BY <1>5 DEF DoneCallback, Cancel, Done, GetResult, vars, userVars
    <2> QED BY <2>1 DEF NoWakeUpMissed
  <1> QED BY <1>1, <1>2, <1>3, <1>4, <1>5 DEF Next, PoolThread, UserStep

\* No wake-up is missed: a user that waits for an operation whose status is final
\* is awake, and its next look at the status ends the wait.
THEOREM NobodySleepsOn == Spec => []NoWakeUpMissed
  <1>1. Init => NoWakeUpMissed
    BY DEF Init, NoWakeUpMissed
  <1> QED BY <1>1, WakeUpStep, Invariance, PTL DEF Spec

\* How many steps the pool's thread has left, at most: the stages of the operation
\* still to come, each with a report, and what is left of the report it is in.
Stage == [start |-> 3, run |-> 2, redo |-> 1, parts_ok |-> 1, parts_failed |-> 1,
          ended |-> 0, thrown |-> 0]
ReportLeft == [callback |-> 2, lock |-> 1, none |-> 0]
Todo == 3 * Stage[pc] + ReportLeft[call.at]

\* The users give the pool's thread nothing more to do, and each step of its own
\* leaves it less; with nothing left to do the operation is over and reported.
OperationShortens ==
  /\ Todo \in Nat /\ (Todo = 0 => pc \in {"ended", "thrown"} /\ call = NoCall)
  /\ Todo' <= Todo
  /\ PoolThread => Todo' < Todo

\* A step of the operation begins when no report is under way, and ends its stage.
LEMMA StageEnds ==
  ASSUME IInv, OperationStep
  PROVE  call = NoCall /\ Stage[pc'] < Stage[pc]
  <1>1. call = NoCall
    BY DEF OperationStep, Conclude, UpdateStatus, UpdateStatusOnly, GetObjectFails, GetObjectEnds,
      PutObjectFails, PutObjectEnds, MultiThreadDownloadFails, MultiThreadDownloadBegins,
      MultiThreadDownloadEnds, InitMultiUploadFails, MultiUploadBegins, MultiThreadUploadFails,
      MultiThreadUploadSucceeds, CancelWay, PartsFailed, CompleteEnds, ResumableGetFails,
      ResumableGetBegins, ResumableGetEnds, ResumableGetRestarts, RedownloadEnds,
      OperationThrows
  <1>2. \/ pc = "start" /\ pc' \in {"run", "ended"}
        \/ pc = "run" /\ pc' \in {"redo", "parts_ok", "parts_failed", "ended", "thrown"}
        \/ pc \in {"redo", "parts_ok", "parts_failed"} /\ pc' \in {"ended", "thrown"}
    BY DEF OperationStep, At, Failures, Proceed, Conclude, GetObjectFails, GetObjectEnds,
      PutObjectFails, PutObjectEnds, MultiThreadDownloadFails, MultiThreadDownloadBegins,
      MultiThreadDownloadEnds, InitMultiUploadFails, MultiUploadBegins, MultiThreadUploadFails,
      MultiThreadUploadSucceeds, CancelWay, PartsFailed, CompleteEnds, ResumableGetFails,
      ResumableGetBegins, ResumableGetEnds, ResumableGetRestarts, RedownloadEnds,
      OperationThrows
  <1> QED BY <1>1, <1>2 DEF Stage

\* What is left to do, as a number.
LEMMA TodoTyped ==
  ASSUME TypeOK
  PROVE  /\ Stage[pc] \in 0 .. 3 /\ ReportLeft[call.at] \in 0 .. 2 /\ Todo \in Nat
         /\ Stage[pc] = 0 => pc \in {"ended", "thrown"}
         /\ ReportLeft[call.at] = 0 => call = NoCall
  <1>1. Stage[pc] \in 0 .. 3 /\ (Stage[pc] = 0 => pc \in {"ended", "thrown"})
    BY DEF TypeOK, Stage
  <1>2. call.at \in {"callback", "lock"} \/ call = NoCall
    BY DEF TypeOK
  <1>3. ReportLeft[call.at] \in 0 .. 2 /\ (ReportLeft[call.at] = 0 => call = NoCall)
    BY <1>2 DEF ReportLeft
  <1> QED BY <1>1, <1>3 DEF Todo

\* The operations and UpdateStatus(): whatever the requests answer and the users do,
\* the thread that runs an operation goes through finitely many stages and reports;
\* none of them is repeated, and a cancel that comes at any time adds none.
THEOREM OperationsRunOut == Spec => [][OperationShortens]_vars
  <1>1. ASSUME IInv, [Next]_vars PROVE OperationShortens
    <2>1. TypeOK /\ TypeOK'
      BY <1>1, OperationInvariant, CallbackInvariant, TransitionInvariant, UserInvariant
        DEF IInv, Next, PoolThread
    <2>2. /\ Todo \in Nat /\ (Todo = 0 => pc \in {"ended", "thrown"} /\ call = NoCall)
      BY <2>1, TodoTyped DEF Todo
    <2>3. /\ Stage[pc] \in 0 .. 3 /\ ReportLeft[call.at] \in 0 .. 2
          /\ Stage[pc'] \in 0 .. 3 /\ ReportLeft[call'.at] \in 0 .. 2
      BY <2>1, TodoTyped DEF TypeOK, Stage, ReportLeft
    <2>4. Todo' = 3 * Stage[pc'] + ReportLeft[call'.at]
      BY DEF Todo, Stage, ReportLeft
    <2>5. ASSUME OperationStep PROVE Todo' < Todo
      <3>1. ReportLeft[call.at] = 0 /\ Stage[pc'] < Stage[pc]
        BY <1>1, <2>5, StageEnds DEF ReportLeft
      <3>2. 3 * Stage[pc'] + ReportLeft[call'.at] < 3 * Stage[pc] + ReportLeft[call.at]
        BY <2>3, <3>1
      <3> QED BY <2>4, <3>2 DEF Todo
    <2>6. ASSUME DoneCallback \/ Transition PROVE Todo' < Todo
      <3>1. pc' = pc /\ ReportLeft[call'.at] < ReportLeft[call.at]
        BY <2>1, <2>6 DEF DoneCallback, Transition, taskVars, ReportLeft, TypeOK
      <3>2. 3 * Stage[pc'] + ReportLeft[call'.at] < 3 * Stage[pc] + ReportLeft[call.at]
        BY <2>3, <3>1
      <3> QED BY <2>4, <3>2 DEF Todo
    <2>7. ASSUME Cancel \/ Done \/ UNCHANGED vars \/ \E u \in Users : UserStep(u)
          PROVE  Todo' = Todo
      <3>1. UNCHANGED <<pc, call>>
        BY <2>7 DEF Cancel, Done, UserStep, WaitUntilFinish, SpuriousWakeup, GetResult, vars,
          taskVars
      <3> QED BY <2>4, <3>1 DEF Todo
    <2>8. PoolThread => Todo' < Todo
      BY <2>5, <2>6 DEF PoolThread
    <2>9. Todo' <= Todo
      <3>1. Todo' \in Nat
        BY <2>3, <2>4
      <3>2. CASE PoolThread
        BY <2>2, <2>8, <3>1, <3>2
      <3>3. CASE ~PoolThread
        BY <1>1, <2>2, <2>7, <3>1, <3>3 DEF Next
      <3> QED BY <3>2, <3>3
    <2> QED BY <2>2, <2>8, <2>9 DEF OperationShortens
  <1> QED BY <1>1, Invariance, PTL DEF Spec

\* TransferHandler implements Completion.
THEOREM Refinement == Spec => ImplementsCompletion
  <1> DEFINE v == IF ~IsFinishStatus(status) THEN "pending"
                  ELSE IF status = "COMPLETED" THEN "ok" ELSE "failed"
             r == {u \in Users : waiter[u] = "returned"}
  <1>1. Init => Abstract!Init
    BY DEF Init, Abstract!Init
  <1>2. IInv /\ [Next]_vars => [Abstract!Next]_<<v, r>>
    <2> SUFFICES ASSUME IInv, [Next]_vars PROVE Abstract!Next \/ UNCHANGED <<v, r>>
      OBVIOUS
    <2>1. CASE OperationStep
      <3>1. UNCHANGED <<status, waiter>>
        BY <2>1 DEF OperationStep, At, Failures, Proceed, Conclude, GetObjectFails, GetObjectEnds, PutObjectFails, PutObjectEnds,
      MultiThreadDownloadFails, MultiThreadDownloadBegins, MultiThreadDownloadEnds,
      InitMultiUploadFails, MultiUploadBegins, MultiThreadUploadFails,
      MultiThreadUploadSucceeds, CancelWay, PartsFailed, CompleteEnds, ResumableGetFails,
      ResumableGetBegins, ResumableGetEnds, ResumableGetRestarts, RedownloadEnds,
      OperationThrows, userVars
      <3> QED BY <3>1
    <2>2. CASE Transition
      <3>1. r' = r
        BY <2>2 DEF Transition, NotifyAll, IInv, TypeOK
      <3>2. CASE status' = status
        BY <3>1, <3>2
      <3>3. CASE status' # status
        <4>1. ~IsFinishStatus(status)
          BY <3>3, FinalStep
        <4>2. CASE IsFinishStatus(status')
          BY <3>1, <4>1, <4>2 DEF Abstract!Next, Abstract!Finish
        <4>3. CASE ~IsFinishStatus(status')
          BY <3>1, <4>1, <4>3
        <4> QED BY <4>2, <4>3
      <3> QED BY <3>2, <3>3
    <2>3. CASE DoneCallback \/ Cancel \/ Done \/ UNCHANGED vars
      BY <2>3 DEF DoneCallback, Cancel, Done, vars, taskVars, userVars
    <2>4. ASSUME NEW u \in Users, UserStep(u) PROVE Abstract!Next \/ UNCHANGED <<v, r>>
      <3>1. v' = v
        BY <2>4 DEF UserStep, WaitUntilFinish, SpuriousWakeup, GetResult
      <3>2. CASE r' = r
        BY <3>1, <3>2
      <3>3. CASE r' # r
        <4>1. waiter[u] # "returned" /\ waiter' = [waiter EXCEPT ![u] = "returned"] /\ IsFinishStatus(status)
          BY <2>4, <3>3 DEF UserStep, WaitUntilFinish, SpuriousWakeup, GetResult, IInv, TypeOK
        <4>2. u \notin r /\ r' = r \cup {u}
          BY <4>1 DEF IInv, TypeOK
        <4>3. v # "pending"
          BY <4>1
        <4> QED BY <3>1, <4>2, <4>3 DEF Abstract!Next, Abstract!Return
      <3> QED BY <3>2, <3>3
    <2> QED BY <2>1, <2>2, <2>3, <2>4 DEF Next, PoolThread
  <1> QED BY <1>1, <1>2, Invariance, PTL DEF Spec, ImplementsCompletion, Abstract!Spec
=============================================================================

------------------------------- MODULE LruCache -------------------------------
(***************************************************************************)
(* LruCache: a list of entries, latest first, and a map from keys to the   *)
(* list's iterators.  Put and Get are atomic, under the cache's mutex.  An *)
(* iterator is a node; a node that was erased may be allocated again.  A   *)
(* cache may be given no room at all: a Put of it then drops the entry it  *)
(* has just made and keeps the iterator of the list's end for the key.     *)
(***************************************************************************)
EXTENDS Naturals, SequencesExt

CONSTANTS Keys,
          MaxEntries   \* m_max_size

ASSUME LruAssumption == MaxEntries \in Nat

VARIABLES list,   \* m_entry_list: its nodes
          node,   \* what is in each node: a key and a value
          index   \* m_entry_map

lruVars == <<list, node, index>>

\* A Put has one entry too many for a moment.
Nodes == 1 .. MaxEntries + 1
NoNode == 0
End == MaxEntries + 2   \* m_entry_list.end(), at which there is no node
NoEntry == <<>>

LruInit ==
  /\ list = <<>>
  /\ node = [n \in Nodes |-> NoEntry]
  /\ index = [k \in Keys |-> NoNode]

Exist(k) == index[k] # NoNode
Entry(k) == node[index[k]]

\* The iterator of the key must not be used: what Put and Get then do is undefined.
AtEnd(k) == index[k] = End

Back == list[Len(list)]

\* The node emplaced; which of the free ones the allocator takes is of no matter.
Fresh == CHOOSE n \in Nodes : n \notin Range(list)

\* The list when a node, if it is one, has been erased.
Without(n) ==
  IF n = NoNode THEN list ELSE RemoveAt(list, CHOOSE i \in DOMAIN list : list[i] = n)

\* The entry goes to the front and another node is erased and freed.
Emplace(k, v, erased) ==
  /\ list' = <<Fresh>> \o Without(erased)
  /\ node' = [n \in Nodes |-> IF n = Fresh THEN <<k, v>>
                              ELSE IF n = erased THEN NoEntry ELSE node[n]]

\* The last entry, which is one too many, is the one just put.
PutIntoNothing(k) ==
  /\ MaxEntries = 0
  /\ index' = [index EXCEPT ![k] = End]
  /\ UNCHANGED <<list, node>>

\* Mutation: >= where the size is compared with the bound.
PutEntryOneLess(k, v) ==
  LET full == ~Exist(k) /\ Len(list) + 1 = MaxEntries IN
    /\ MaxEntries # 0
    /\ Emplace(k, v, IF full THEN Back ELSE index[k])
    /\ index' = [q \in Keys |-> IF q = k THEN Fresh
                               ELSE IF full /\ q = node[Back][1] THEN NoNode ELSE index[q]]

\* The old entry of the key is erased, or else the last one when there are too many.
PutEntry(k, v) ==
  LET full == ~Exist(k) /\ Len(list) = MaxEntries IN
    /\ MaxEntries # 0
    /\ Emplace(k, v, IF full THEN Back ELSE index[k])
    /\ index' = [q \in Keys |-> IF q = k THEN Fresh
                               ELSE IF full /\ q = node[Back][1] THEN NoNode ELSE index[q]]

LruPut(k, v) == ~AtEnd(k) /\ (PutEntry(k, v) \/ PutIntoNothing(k))

\* The entry is copied to the front and the old one erased.
LruGet(k) ==
  /\ Exist(k) /\ ~AtEnd(k)
  /\ Emplace(k, Entry(k)[2], index[k])
  /\ index' = [index EXCEPT ![k] = Fresh]

\* The entries in the order of the list.
Recent == [i \in DOMAIN list |-> node[list[i]]]
=============================================================================

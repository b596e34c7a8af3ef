------------------------------ MODULE PrefixOps ------------------------------
(***************************************************************************)
(* CosAPI::DeleteObjects by prefix: the keys are listed a page at a time   *)
(* and deleted one by one.  ObjectOp::PutObjects: the entries of a local   *)
(* directory are put one by one.  Both stop at the first failure and       *)
(* report what they did so far.  Meanwhile other clients put keys.         *)
(***************************************************************************)
EXTENDS NormalAction, Sequences, FiniteSets

CONSTANTS NumKeys,   \* the keys under the prefix are 1 .. NumKeys, in their order
          PageSize,  \* the keys of a page
          MaxEntries \* the entries of a directory to put

ASSUME PrefixAssumption == {NumKeys, MaxEntries} \subseteq Nat /\ PageSize \in Nat \ {0}

Keys == 1 .. NumKeys

VARIABLES bucket,     \* the keys under the prefix that the server has
          others,     \* history: the keys other clients have put meanwhile
          initially,  \* history: the keys there were when the call began
          page,       \* the keys of the page that are still to be deleted
          next,       \* the page's NextMarker and whether it is truncated
          marker,     \* the marker of the next listing
          truncated,  \* is_truncated
          unread,     \* history: a listing of the backup domain was thrown away
          deleted,    \* m_succ_del_objs
          tree,       \* the entries of the local directory
          entry,      \* dirIterator
          objects,    \* what PutObjects has put at the server: where, and which entry
          put         \* m_succ_put_objs

deleteVars == <<bucket, others, initially, page, next, marker, truncated, unread, deleted>>
putVars == <<tree, entry, objects, put>>

PrefixInit ==
  /\ bucket \in SUBSET Keys /\ initially = bucket /\ others = {}
  /\ page = {} /\ next = [marker |-> 0, more |-> FALSE]
  /\ marker = 0 /\ truncated = FALSE /\ unread = FALSE
  /\ deleted = {}
  /\ tree \in UNION {[1 .. n -> {"dir", "file"}] : n \in 0 .. MaxEntries}
  /\ entry = 1 /\ objects = {} /\ put = {}

-----------------------------------------------------------------------------
\* DeleteObjects by prefix

Least(S) == CHOOSE k \in S : \A j \in S : k <= j

\* The server's listing after a marker: the first keys, and whether there are more.
Beyond == {k \in bucket : k > marker}
FirstPage == {k \in Beyond : Cardinality({j \in Beyond : j <= k}) <= PageSize}

Greatest(S) == IF S = {} THEN 0 ELSE CHOOSE k \in S : \A j \in S : j <= k

ListPage ==
  /\ Reads("list",
           page' = FirstPage /\ next' = [marker |-> Greatest(FirstPage), more |-> Beyond # FirstPage],
           UNCHANGED <<page, next>>, "delete", "list again")
  /\ UNCHANGED <<bucket, others, initially, marker, truncated, unread, deleted, putVars>>

\* Mutation: a key that cannot be deleted is passed over.
DeleteKeyOrNot ==
  /\ page # {}
  /\ LET k == Least(page) IN
       /\ Changes("delete", TRUE, bucket' = bucket \ {k}, UNCHANGED bucket, "delete", "delete")
       /\ page' = IF attempt' = 0 THEN page \ {k} ELSE page
       /\ deleted' = IF result'.succ THEN deleted \cup {k} ELSE deleted
  /\ UNCHANGED <<others, initially, next, marker, truncated, unread, putVars>>

\* The first failure ends the call.
DeleteKey ==
  /\ page # {}
  /\ LET k == Least(page) IN
       /\ Changes("delete", TRUE, bucket' = bucket \ {k}, UNCHANGED bucket, "delete", "done")
       /\ IF result'.succ
            THEN page' = page \ {k} /\ deleted' = deleted \cup {k}
            ELSE UNCHANGED <<page, deleted>>
  /\ UNCHANGED <<others, initially, next, marker, truncated, unread, putVars>>

\* Mutation: is_truncated is never taken from the answer once it was set.
PageDoneGoesOn ==
  /\ pc = "delete" /\ page = {}
  /\ marker' = next.marker
  /\ truncated' = TRUE
  /\ pc' = "list"
  /\ UNCHANGED <<attempt, result, trouble, bucket, others, initially, page, next, unread,
                 deleted, putVars>>

PageDone ==
  /\ pc = "delete" /\ page = {}
  /\ marker' = next.marker
  /\ truncated' = next.more
  /\ pc' = IF next.more THEN "list" ELSE "done"
  /\ UNCHANGED <<attempt, result, trouble, bucket, others, initially, page, next, unread,
                 deleted, putVars>>

\* The listing is asked of the backup domain. Its answer decides whether the loop
\* goes on, with is_truncated as it was; the keys in it are not looked at.
ListAgain ==
  /\ Reads("list again", unread' = TRUE, UNCHANGED unread,
           IF truncated THEN "list" ELSE "done", "done")
  /\ UNCHANGED <<bucket, others, initially, page, next, marker, truncated, deleted, putVars>>

Delete == ListPage \/ DeleteKey \/ PageDone \/ ListAgain

\* Another client puts an object under the prefix.
OthersPut ==
  /\ pc \in {"list", "delete", "list again"}
  /\ \E k \in Keys \ others : bucket' = bucket \cup {k} /\ others' = others \cup {k}
  /\ UNCHANGED <<requestVars, initially, page, next, marker, truncated, unread, deleted, putVars>>

-----------------------------------------------------------------------------
\* PutObjects

\* The name an entry is told to have been put under: its path below the
\* directory, at the place in COS that was asked for.
NameOf(e) == <<"cos", e>>

\* Mutation: one kind of entries at the same place for all.
StoredAtSame(e) == <<"cos", 1>>

\* The name it is put under. PutDirectory is given the local path.
StoredAt(e) == <<IF tree[e] = "dir" THEN "local" ELSE "cos", e>>

\* The directory does not exist, or its entry cannot be opened.
PutUnreadable ==
  /\ attempt = 0
  /\ FailHere("put")
  /\ UNCHANGED <<deleteVars, putVars>>

PutEntry ==
  /\ entry <= Len(tree)
  /\ Changes("put", TRUE, objects' = objects \cup {StoredAt(entry)}, UNCHANGED objects, "put", "done")
  /\ IF result'.succ
       THEN put' = put \cup {entry} /\ entry' = entry + 1
       ELSE UNCHANGED <<put, entry>>
  /\ UNCHANGED <<deleteVars, tree>>

\* PutObject compares the ETag of a file with its MD5 once it is stored.
PutEtagDiffers ==
  /\ pc = "put" /\ entry <= Len(tree)
  /\ tree[entry] = "file"
  /\ objects' = objects \cup {StoredAt(entry)}
  /\ pc' = "done" /\ attempt' = 0
  /\ result' = [Good EXCEPT !.succ = FALSE]
  /\ trouble' = trouble + 1
  /\ UNCHANGED <<deleteVars, tree, entry, put>>

PutDone ==
  /\ pc = "put" /\ entry > Len(tree)
  /\ pc' = "done"
  /\ result' = Good
  /\ UNCHANGED <<attempt, trouble, deleteVars, putVars>>

Put == PutUnreadable \/ PutEntry \/ PutEtagDiffers \/ PutDone

-----------------------------------------------------------------------------
\* Properties

\* What a deletion reports is what it did, wherever it stopped: a key it names is
\* gone, unless another client has put it again; at most one key is gone without
\* being named, and then an answer was lost. A success has deleted everything it
\* found, or, when the backup domain answered the first listing, nothing at all.
DeletionTrue ==
  /\ deleted \cap bucket \subseteq others
  /\ LET unnamed == initially \ (bucket \cup deleted) IN
       Cardinality(unnamed) <= 1 /\ (unnamed # {} => trouble > 0)
  /\ pc = "done" /\ result.succ /\ marker # 0 => bucket \subseteq others
  /\ pc = "done" /\ result.succ /\ marker = 0 /\ ~(bucket \subseteq others) => unread /\ deleted = {}

\* What PutObjects reports is what it did: the entries before the one it stopped
\* at, files under the name it reports; of the one it stopped at something is at
\* the server only when its answer was lost or not believed.
PutReported ==
  /\ put = 1 .. entry - 1
  /\ \A e \in put : StoredAt(e) \in objects /\ (tree[e] = "file" => NameOf(e) \in objects)
  /\ \A o \in objects : o[2] \in put \/ (o[2] = entry /\ trouble > 0)
=============================================================================

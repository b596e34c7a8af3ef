--------------------------- MODULE ObjectCallsProofs ---------------------------
(***************************************************************************)
(* ObjectCalls, for every source, part size, pool, bucket, directory and   *)
(* number of retries: what a call reports is what it did.                  *)
(*                                                                         *)
(* A behaviour is one call, of one kind, and `kind` never changes; so the  *)
(* invariant has a part for each kind of call, and one that says which     *)
(* places belong to which kind. Five arguments carry it:                   *)
(*   - the parts of a copy that are listed and those being copied make one *)
(*     chain from 0 to offset, whatever batch they are in;                 *)
(*   - every upload or destination a copy has left is paid for by an       *)
(*     attempt that was not answered well, but for the upload in use;      *)
(*   - of the keys a deletion has found, what is not deleted yet is on the *)
(*     page or beyond the marker, and one at most is deleted unnoticed;    *)
(*   - the entries put are those before the current one;                   *)
(*   - a document holds of each field what the request object tells of it, *)
(*     and that is what was set last, or all that was set of a vector. It  *)
(*     is an invariant of its own (DocumentSound) and rests on lemmas      *)
(*     about the operators of Accessors, by induction over the elements.   *)
(*                                                                         *)
(* The last section is about the way to the end: every step of a call that *)
(* is not a deletion by prefix brings it nearer.                           *)
(***************************************************************************)
EXTENDS ObjectCalls, FiniteSetTheorems, SequenceTheorems, WellFoundedInduction, TLAPS

-----------------------------------------------------------------------------
(* The invariant                                                           *)

RequestSound == attempt \in 0 .. MaxRetryTimes /\ trouble \in Nat /\ result \in CosResults

PartPlaces == {"init", "pool", "fill", "abort", "report", "complete"}
AcrossPlaces == {"head", "too large"} \cup PartPlaces
CopyPlaces == {"copy", "put copy", "etag", "delete source"} \cup AcrossPlaces
DeletePlaces == {"list", "delete", "list again"}
DocumentPlaces == {"settings", "ask", "again"}

\* A kind of call has places of its own.
KindSound ==
  \/ kind \in Copies /\ pc \in CopyPlaces \cup Final
  \/ kind = "delete" /\ pc \in DeletePlaces \cup {"done"}
  \/ kind = "put" /\ pc \in {"put", "done"}
  \/ kind = "plain" /\ pc \in {"plain", "done"}
  \/ kind = "document" /\ pc \in DocumentPlaces \cup {"done"}

Pieces == [lo : Nat, hi : Nat, ver : Nat]
Tasks == [lo : Nat, hi : Nat, state : {"runs", "copied", "failed"}, tries : Nat, etag : Pieces]

CopyTyped ==
  /\ sizes \in [Versions -> Nat \ {0}] /\ latest \in Versions /\ gone \in BOOLEAN
  /\ IsFiniteSet(open) /\ made \in Nat
  /\ size \in Nat /\ offset \in Nat
  /\ tasks \in Seq(Tasks) /\ etags \in Seq(Pieces)

\* Ranges that begin at 0 and follow each other, and where they end.
Chained(s) ==
  /\ s # <<>> => s[1].lo = 0
  /\ \A k \in 2 .. Len(s) : s[k].lo = s[k - 1].hi + 1
EndOf(s) == IF s = <<>> THEN 0 ELSE Last(s).hi + 1

\* The parts cut so far are those that are listed and then those being copied.
PartsSound ==
  /\ Chained(etags \o tasks) /\ offset = EndOf(etags \o tasks) /\ offset <= size
  /\ \A k \in DOMAIN tasks :
       tasks[k].state = "copied" => tasks[k].etag.lo = tasks[k].lo /\ tasks[k].etag.hi = tasks[k].hi
  /\ pc # "fill" => \A k \in DOMAIN tasks : tasks[k].state # "runs"
  /\ pc = "complete" => tasks = <<>> /\ offset = size
  /\ pc \in {"copy", "head"} => size = 0
  /\ pc \in PartPlaces => \E v \in 1 .. latest : size = sizes[v]
  /\ kind \notin Copies => tasks = <<>>

OnePiece(t) == \E v \in 1 .. latest : t = <<[lo |-> 0, hi |-> sizes[v] - 1, ver |-> v]>>
WholeTarget(t) == t # <<>> /\ Chained(t) /\ \E v \in 1 .. latest : Last(t).hi = sizes[v] - 1

\* What is at the destination when its ETag is looked at, and later.
TargetSound ==
  /\ pc \in AcrossPlaces => kind = "copy across"
  /\ pc = "delete source" => kind = "move"
  /\ kind \in Copies /\ pc \in {"copy"} \cup (AcrossPlaces \ {"complete"}) => target = <<>>
  /\ pc \in {"etag", "delete source"} => WholeTarget(target) /\ (kind = "move" => OnePiece(target))
  /\ kind \in Copies /\ pc = "done" /\ result.succ => WholeTarget(target)
  /\ gone => kind \in Copies /\ pc \in {"delete source", "done"} /\ OnePiece(target)

Placed == IF target = <<>> THEN 0 ELSE 1
Opened == Cardinality(open)

\* What is left so far, and the bad answers it is owed to: the upload in use is
\* not yet left, and a destination that was made is not if a good answer told of it.
OpenSound ==
  kind \in Copies =>
    /\ pc \in {"copy", "head", "too large", "put copy"} => open = {}
    /\ pc = "put copy" => Placed <= trouble
    /\ pc \in {"init", "report", "etag", "delete source"} => Opened <= trouble
    /\ pc = "etag" => result.succ
    /\ pc \in {"pool", "fill", "abort"} => Opened <= trouble + 1
    /\ pc = "complete" => Opened + Placed <= trouble + 1
    /\ pc \in Final => LeftBehind <= trouble + (IF pc = "thrown" THEN 1 ELSE 0)

PlainSound ==
  /\ effects \in Nat
  /\ kind # "plain" => effects = 0
  /\ pc = "plain" => effects <= attempt /\ effects <= trouble
  /\ effects <= IF once THEN 1 ELSE MaxRetryTimes + 1
  /\ kind = "plain" /\ pc = "done" =>
       /\ effects <= trouble + (IF result.succ THEN 1 ELSE 0)
       /\ result.succ /\ request.changes => effects >= 1

Unnamed == initially \ (bucket \cup deleted)
Found == bucket \ others

\* What of the keys there were is gone without being named, and what is still to be
\* deleted.
DeleteSound ==
  /\ kind # "delete" => bucket = {} /\ initially = {} /\ deleted = {}
  /\ bucket \subseteq Keys /\ marker \in Nat /\ next.marker \in Nat
  /\ deleted \cap bucket \subseteq others
  /\ \E k : Unnamed \subseteq {k}
  /\ Unnamed # {} => trouble > 0
  /\ pc \in {"list", "list again"} =>
       /\ Unnamed = {}
       /\ \A k \in Found : k > marker
       /\ ~truncated => marker = 0 /\ deleted = {}
  /\ pc = "delete" =>
       /\ Unnamed # {} => page # {} /\ Unnamed \subseteq {Least(page)}
       /\ \A k \in Found : k \in page \/ (next.more /\ k > next.marker)
  /\ pc = "done" /\ result.succ => Found = {} \/ (marker = 0 /\ unread /\ deleted = {})

\* The entries put are those before the one at hand.
PutSound ==
  /\ entry \in Nat \ {0} /\ put = 1 .. entry - 1
  /\ \A e \in put : StoredAt(e) \in objects
  /\ \A o \in objects : o[2] \in put \/ (o[2] = entry /\ trouble > 0)
  /\ kind # "put" => objects = {}

IInv ==
  /\ RequestSound /\ KindSound
  /\ CopyTyped /\ PartsSound /\ TargetSound /\ OpenSound
  /\ PlainSound /\ DeleteSound /\ PutSound

-----------------------------------------------------------------------------
(* Requests                                                                *)

\* The results told apart are results, and only a good one is a success.
LEMMA AnswersTyped ==
  /\ Good \in CosResults /\ Good.succ = TRUE
  /\ NoResult \in CosResults /\ NoResult.succ = FALSE
  /\ Lost \in Failures
  /\ \A r \in Failures : r \in CosResults /\ r.succ = FALSE
BY DEF Good, NoResult, Lost, Busy, Refused, Failures, CosResults, HttpStatuses

\* An attempt answered well ends the loop; another one may be followed by one more.
EndsWell(at, good) == pc = at /\ pc' = good /\ result' = Good /\ attempt' = 0
EndsBadly(at, bad) ==
  /\ pc = at /\ result' \in Failures
  /\ \/ pc' = bad /\ attempt' = 0
     \/ pc' = at /\ attempt' = attempt + 1 /\ attempt < MaxRetryTimes

\* A good answer ends the loop of attempts.
LEMMA GoodAnswer ==
  ASSUME NEW at, NEW good, NEW bad, Attempt(at, Good, good, bad)
  PROVE  EndsWell(at, good)
BY AnswersTyped DEF Attempt, EndsWell, GivesUp, NoNeedRetry

\* A bad one ends it, or is followed by another attempt.
LEMMA BadAnswer ==
  ASSUME RequestSound, NEW at, NEW good, NEW bad, NEW r \in Failures, Attempt(at, r, good, bad)
  PROVE  EndsBadly(at, bad)
BY AnswersTyped, RetryAssumption DEF Attempt, EndsBadly, GivesUp, RequestSound

\* What the two leave of a request.
LEMMA AnsweredSound ==
  ASSUME RequestSound, NEW at, NEW good, NEW bad,
         EndsWell(at, good) \/ EndsBadly(at, bad), trouble' \in Nat
  PROVE  RequestSound'
BY AnswersTyped, RetryAssumption DEF EndsWell, EndsBadly, RequestSound

-----------------------------------------------------------------------------
(* The parts that a call of another kind leaves alone                      *)

\* Copies: nothing a copy keeps is touched by a call of another kind.
LEMMA CopyIdle ==
  ASSUME IInv, kind \notin Copies, UNCHANGED copyVars, KindSound'
  PROVE  CopyTyped' /\ PartsSound' /\ TargetSound' /\ OpenSound'
<1>1. UNCHANGED <<kind, sizes, latest, gone, target, open, made, held, size, pool, offset, tasks, etags>>
  BY DEF copyVars, sourceVars, windowVars
<1>2. pc' \notin CopyPlaces /\ pc' \notin {"thrown", "crashed"}
  BY <1>1 DEF KindSound, DeletePlaces, DocumentPlaces, CopyPlaces, AcrossPlaces, PartPlaces, Final, Copies
<1>3. CopyTyped'
  BY <1>1 DEF IInv, CopyTyped
<1>4. PartsSound'
  <2>1. tasks = <<>> /\ DOMAIN tasks = {}
    BY DEF IInv, PartsSound
  <2>2. (Chained(etags \o tasks) /\ offset = EndOf(etags \o tasks) /\ offset <= size)'
    BY <1>1 DEF IInv, PartsSound, Chained, EndOf, Last
  <2>. QED  BY <1>1, <1>2, <2>1, <2>2 DEF PartsSound, CopyPlaces, AcrossPlaces, PartPlaces
<1>5. TargetSound' /\ OpenSound'
  BY <1>1, <1>2 DEF IInv, TargetSound, OpenSound, CopyPlaces, AcrossPlaces, PartPlaces, Copies
<1>. QED  BY <1>3, <1>4, <1>5

\* Plain requests: nor are the effects counted for one.
LEMMA PlainIdle ==
  ASSUME IInv, kind # "plain", kind' = kind, UNCHANGED plainVars, KindSound'
  PROVE  PlainSound'
<1>1. pc' # "plain"
  BY DEF KindSound, DeletePlaces, DocumentPlaces, CopyPlaces, AcrossPlaces, PartPlaces, Final, Copies
<1>2. effects' = 0
  BY DEF IInv, PlainSound, plainVars
<1>. QED  BY <1>1, <1>2, RetryAssumption DEF PlainSound

\* Deletions: nor the bucket and the page.
LEMMA DeleteIdle ==
  ASSUME IInv, kind # "delete", kind' = kind, UNCHANGED deleteVars, KindSound'
  PROVE  DeleteSound'
<1>1. pc' \notin DeletePlaces
  BY DEF KindSound, DeletePlaces, DocumentPlaces, CopyPlaces, AcrossPlaces, PartPlaces, Final, Copies
<1>2. /\ bucket' = {} /\ initially' = {} /\ deleted' = {}
      /\ marker' \in Nat /\ next'.marker \in Nat
  BY DEF IInv, DeleteSound, deleteVars
<1>. QED  BY <1>1, <1>2 DEF DeleteSound, DeletePlaces, Unnamed, Found

\* Uploads of a directory: nor the entries.
LEMMA PutIdle ==
  ASSUME IInv, kind # "put", kind' = kind, UNCHANGED putVars
  PROVE  PutSound'
<1>1. objects = {} /\ put = {} /\ UNCHANGED <<entry, put, objects>>
  BY DEF IInv, PutSound, putVars
<1>. QED  BY <1>1 DEF IInv, PutSound

-----------------------------------------------------------------------------
(* How a call begins                                                       *)

\* The invariant holds of every call that is about to be made.
LEMMA InitIInv == Init => IInv
<1>. SUFFICES ASSUME Init PROVE IInv
  OBVIOUS
<1>1. RequestSound /\ result.succ = FALSE
  BY AnswersTyped, RetryAssumption DEF Init, RequestInit, RequestSound
<1>2. KindSound
  BY DEF Init, DocumentBegin, KindSound, CopyPlaces, DeletePlaces, DocumentPlaces
<1>3. CopyTyped
  <2>1. MaxVersion \in Nat \ {0} /\ MaxSize \in Nat \ {0}
    BY CopyAssumption
  <2>2. sizes \in [Versions -> Nat \ {0}] /\ latest \in Versions
    BY <2>1 DEF Init, CopyInit, Versions
  <2>3. IsFiniteSet(open)
    BY FS_EmptySet DEF Init, CopyInit
  <2>4. tasks \in Seq(Tasks) /\ etags \in Seq(Pieces)
    BY DEF Init, CopyInit
  <2>. QED  BY <2>2, <2>3, <2>4 DEF Init, CopyInit, CopyTyped
<1>4. pc \in {"copy", "list", "put", "plain", "settings", "ask"} /\ (kind \in Copies => pc = "copy")
  BY DEF Init, DocumentBegin, Copies
<1>5. PartsSound
  <2>1. etags = <<>> /\ tasks = <<>> /\ size = 0 /\ offset = 0
    BY DEF Init, CopyInit
  <2>2. etags \o tasks = <<>> /\ Len(<<>>) = 0 /\ DOMAIN <<>> = {}
    BY <2>1
  <2>. QED  BY <1>4, <2>1, <2>2 DEF PartsSound, Chained, EndOf, PartPlaces
<1>6. TargetSound
  BY <1>4 DEF Init, CopyInit, TargetSound, AcrossPlaces, PartPlaces
<1>7. OpenSound
  BY <1>4 DEF Init, CopyInit, OpenSound, Copies, Final
<1>8. PlainSound
  <2>1. effects = 0 /\ trouble = 0 /\ attempt = 0
    BY DEF Init, PlainInit, RequestInit
  <2>2. ~result.succ
    BY <1>1
  <2>. QED  BY <1>4, <2>1, <2>2, RetryAssumption DEF PlainSound
<1>9. DeleteSound
  <2>1. /\ bucket \subseteq Keys /\ initially = bucket /\ others = {} /\ deleted = {}
        /\ marker = 0 /\ next.marker = 0
    BY DEF Init, PrefixInit
  <2>2. kind # "delete" => bucket = {}
    BY DEF Init, NoBucket, Copies
  <2>3. \A k \in Keys : k > 0
    BY PrefixAssumption DEF Keys
  <2>4. Unnamed = {} /\ Found = bucket
    BY <2>1 DEF Unnamed, Found
  <2>5. pc \in {"list", "list again"} => \A k \in Found : k > marker
    BY <2>1, <2>3, <2>4
  <2>6. pc # "delete" /\ pc # "done"
    BY <1>4
  <2>7. \E k : Unnamed \subseteq {k}
    BY <2>4
  <2>8. /\ kind # "delete" => bucket = {} /\ initially = {} /\ deleted = {}
        /\ bucket \subseteq Keys /\ marker \in Nat /\ next.marker \in Nat
        /\ deleted \cap bucket \subseteq others
    BY <2>1, <2>2
  <2>. QED  BY <2>1, <2>4, <2>5, <2>6, <2>7, <2>8 DEF DeleteSound
<1>10. PutSound
  <2>1. entry = 1 /\ objects = {} /\ put = {}
    BY DEF Init, PrefixInit
  <2>. QED  BY <2>1 DEF PutSound
<1>. QED  BY <1>1, <1>2, <1>3, <1>5, <1>6, <1>7, <1>8, <1>9, <1>10 DEF IInv

-----------------------------------------------------------------------------
(* Plain requests                                                          *)

\* A plain request keeps it.
LEMMA PlainIInv ==
  ASSUME IInv, PlainStep
  PROVE  IInv'
<1>1. UNCHANGED <<copyVars, deleteVars, putVars>> /\ kind' = kind /\ UNCHANGED <<request, once>>
  BY DEF PlainStep, Plain, PlainRefused, PlainRead, PlainChange, copyVars, plainVars
<1>2. pc = "plain"
  BY DEF PlainStep, Plain, PlainRefused, PlainRead, PlainChange, FailHere, Reads, Changes, Attempt
<1>3. kind = "plain"
  BY <1>2 DEF IInv, KindSound, DeletePlaces, DocumentPlaces, CopyPlaces, AcrossPlaces, PartPlaces,
     Final
<1>4. RequestSound /\ effects \in Nat /\ trouble \in Nat /\ attempt \in Nat
      /\ effects <= attempt /\ effects <= trouble
      /\ effects <= (IF once THEN 1 ELSE MaxRetryTimes + 1)
  BY <1>2 DEF IInv, PlainSound, RequestSound
<1>5. \/ /\ pc' = "done" /\ result' = NoResult /\ UNCHANGED <<attempt, trouble, effects>>
      \/ /\ EndsWell("plain", "done") \/ EndsBadly("plain", "done")
         /\ ~request.changes /\ UNCHANGED <<trouble, effects>>
      \/ /\ EndsWell("plain", "done") /\ request.changes
         /\ effects' = effects + 1 /\ trouble' = trouble /\ (once => effects = 0)
      \/ /\ EndsBadly("plain", "done") /\ request.changes
         /\ trouble' = trouble + 1
         /\ (effects' = effects + 1 /\ (once => effects = 0)) \/ effects' = effects
  <2>1. CASE PlainRefused
    BY <2>1 DEF PlainRefused, FailHere, plainVars
  <2>2. CASE PlainRead
    BY <1>4, <2>2, GoodAnswer, BadAnswer DEF PlainRead, Reads
  <2>3. CASE PlainChange
    BY <1>4, <2>3, GoodAnswer, BadAnswer, AnswersTyped DEF PlainChange, Changes
  <2>. QED  BY <2>1, <2>2, <2>3 DEF PlainStep, Plain
<1>6. RequestSound'
  BY <1>4, <1>5, AnsweredSound, AnswersTyped DEF RequestSound
<1>7. pc' \in {"plain", "done"}
  BY <1>2, <1>5 DEF EndsWell, EndsBadly
<1>8. KindSound'
  BY <1>1, <1>3, <1>7 DEF KindSound
<1>9. PlainSound'
  <2>. DEFINE bound == IF once THEN 1 ELSE MaxRetryTimes + 1
              owed == IF result'.succ THEN 1 ELSE 0
  <2>1. SUFFICES /\ effects' \in Nat /\ effects' <= bound
                 /\ pc' = "plain" => effects' <= attempt' /\ effects' <= trouble'
                 /\ pc' = "done" => effects' <= trouble' + owed
                 /\ pc' = "done" /\ result'.succ /\ request.changes => effects' >= 1
    BY <1>1, <1>3 DEF PlainSound
  <2>2. CASE pc' = "done" /\ result' = NoResult /\ UNCHANGED <<attempt, trouble, effects>>
    BY <1>4, <2>2, AnswersTyped
  <2>3. CASE EndsWell("plain", "done") /\ ~request.changes /\ UNCHANGED <<trouble, effects>>
    <3>1. pc' = "done" /\ owed = 1
      BY <2>3, AnswersTyped DEF EndsWell
    <3>. QED  BY <1>4, <2>3, <3>1
  <2>4. CASE EndsBadly("plain", "done") /\ ~request.changes /\ UNCHANGED <<trouble, effects>>
    <3>1. owed = 0 /\ (pc' = "plain" => attempt' = attempt + 1)
      BY <2>4, AnswersTyped DEF EndsBadly
    <3>. QED  BY <1>4, <2>4, <3>1
  <2>5. CASE /\ EndsWell("plain", "done") /\ request.changes
             /\ effects' = effects + 1 /\ trouble' = trouble /\ (once => effects = 0)
    <3>1. effects <= MaxRetryTimes
      BY <1>4, RetryAssumption DEF RequestSound
    <3>2. effects' <= bound
      BY <1>4, <2>5, <3>1, RetryAssumption
    <3>3. pc' = "done" /\ owed = 1
      BY <2>5, AnswersTyped DEF EndsWell
    <3>. QED  BY <1>4, <2>5, <3>2, <3>3
  <2>6. CASE /\ EndsBadly("plain", "done") /\ request.changes
             /\ trouble' = trouble + 1
             /\ (effects' = effects + 1 /\ (once => effects = 0)) \/ effects' = effects
    <3>1. effects <= MaxRetryTimes
      BY <1>4, RetryAssumption DEF RequestSound
    <3>2. effects' <= bound
      BY <1>4, <2>6, <3>1, RetryAssumption
    <3>3. owed = 0 /\ ~result'.succ /\ (pc' = "plain" => attempt' = attempt + 1)
      BY <2>6, AnswersTyped DEF EndsBadly
    <3>4. effects' \in Nat /\ effects' <= trouble' /\ (pc' = "plain" => effects' <= attempt')
      BY <1>4, <2>6, <3>3
    <3>5. trouble' \in Nat
      BY <1>4, <2>6
    <3>6. effects' <= trouble' + owed
      <4>1. \A m, n \in Nat, o \in {0} : m <= n => m <= n + o
        OBVIOUS
      <4>2. owed \in {0}
        BY <3>3
      <4>. QED  BY <3>4, <3>5, <4>1, <4>2
    <3>. QED  BY <3>2, <3>3, <3>4, <3>6
  <2>. QED  BY <1>5, <2>2, <2>3, <2>4, <2>5, <2>6
<1>. QED
  BY <1>1, <1>3, <1>6, <1>8, <1>9, CopyIdle, DeleteIdle, PutIdle DEF IInv, Copies

-----------------------------------------------------------------------------
(* PutObjects                                                              *)

\* One entry more may be at the server, and is named only after a good answer.
LEMMA PutIInv ==
  ASSUME IInv, PutStep
  PROVE  IInv'
<1>1. UNCHANGED <<copyVars, deleteVars, plainVars>> /\ kind' = kind /\ UNCHANGED tree
  BY DEF PutStep, Put, PutUnreadable, PutEntry, PutEtagDiffers, PutDone, copyVars, putVars
<1>2. pc = "put"
  BY DEF PutStep, Put, PutUnreadable, PutEntry, PutEtagDiffers, PutDone, FailHere, Changes, Attempt
<1>3. kind = "put"
  BY <1>2 DEF IInv, KindSound, DeletePlaces, DocumentPlaces, CopyPlaces, AcrossPlaces, PartPlaces,
     Final
<1>4. RequestSound /\ trouble \in Nat
  BY DEF IInv, RequestSound
<1>5. \/ UNCHANGED <<entry, objects, put, trouble>>
      \/ /\ objects' = objects \cup {StoredAt(entry)}
         /\ put' = put \cup {entry} /\ entry' = entry + 1 /\ trouble' = trouble
      \/ /\ objects' = objects \cup {StoredAt(entry)} \/ objects' = objects
         /\ UNCHANGED <<put, entry>> /\ trouble' = trouble + 1
  <2>1. CASE PutEntry
    BY <1>4, <2>1, GoodAnswer, BadAnswer, AnswersTyped DEF PutEntry, Changes, EndsWell, EndsBadly
  <2>2. CASE PutEtagDiffers
    BY <2>2 DEF PutEtagDiffers
  <2>3. CASE PutUnreadable \/ PutDone
    BY <2>3 DEF PutUnreadable, PutDone, FailHere, putVars
  <2>. QED  BY <2>1, <2>2, <2>3 DEF PutStep, Put
<1>6. RequestSound' /\ pc' \in {"put", "done"}
  <2>1. CASE PutEntry
    <3>1. (EndsWell("put", "put") \/ EndsBadly("put", "done")) /\ trouble' \in Nat
      BY <1>4, <2>1, GoodAnswer, BadAnswer, AnswersTyped DEF PutEntry, Changes
    <3>. QED  BY <1>4, <3>1, AnsweredSound DEF EndsWell, EndsBadly
  <2>2. CASE PutEtagDiffers
    <3>1. [Good EXCEPT !.succ = FALSE] \in CosResults
      BY AnswersTyped DEF CosResults
    <3>. QED  BY <1>4, <2>2, <3>1, RetryAssumption DEF PutEtagDiffers, RequestSound
  <2>3. CASE PutUnreadable \/ PutDone
    BY <1>4, <2>3, AnswersTyped DEF PutUnreadable, PutDone, FailHere, RequestSound
  <2>. QED  BY <2>1, <2>2, <2>3 DEF PutStep, Put
<1>7. KindSound'
  BY <1>1, <1>3, <1>6 DEF KindSound
<1>8. PutSound'
  <2>1. /\ entry \in Nat \ {0} /\ put = 1 .. entry - 1
        /\ \A e \in put : StoredAt(e) \in objects
        /\ \A o \in objects : o[2] \in put \/ (o[2] = entry /\ trouble > 0)
    BY DEF IInv, PutSound
  <2>2. \A e : StoredAt(e)[2] = e /\ StoredAt(e)' = StoredAt(e)
    BY <1>1 DEF StoredAt
  <2>3. kind' = "put"
    BY <1>1, <1>3
  <2>4. CASE UNCHANGED <<entry, objects, put, trouble>>
    BY <2>1, <2>2, <2>3, <2>4 DEF PutSound
  <2>5. CASE /\ objects' = objects \cup {StoredAt(entry)}
             /\ put' = put \cup {entry} /\ entry' = entry + 1 /\ trouble' = trouble
    <3>1. entry' \in Nat \ {0} /\ put' = 1 .. entry' - 1
      BY <2>1, <2>5
    <3>2. \A e \in put' : StoredAt(e)' \in objects'
      BY <2>1, <2>2, <2>5
    <3>3. \A o \in objects' : o[2] \in put'
      BY <2>1, <2>2, <2>5
    <3>. QED  BY <2>3, <3>1, <3>2, <3>3 DEF PutSound
  <2>6. CASE /\ objects' = objects \cup {StoredAt(entry)} \/ objects' = objects
             /\ UNCHANGED <<put, entry>> /\ trouble' = trouble + 1
    <3>1. \A e \in put' : StoredAt(e)' \in objects'
      BY <2>1, <2>2, <2>6
    <3>2. trouble' > 0
      BY <1>4, <2>6
    <3>3. \A o \in objects' : o[2] \in put' \/ o[2] = entry'
      BY <2>1, <2>2, <2>6
    <3>. QED  BY <2>1, <2>3, <2>6, <3>1, <3>2, <3>3 DEF PutSound
  <2>. QED  BY <1>5, <2>4, <2>5, <2>6
<1>. QED
  BY <1>1, <1>3, <1>6, <1>7, <1>8, CopyIdle, DeleteIdle, PlainIdle DEF IInv, Copies

-----------------------------------------------------------------------------
(* Documents                                                               *)

\* A request about a document keeps it.
LEMMA DocumentIInv ==
  ASSUME IInv, DocumentStep \/ (DocumentOthers /\ UNCHANGED <<copyVars, deleteVars, putVars, plainVars>>)
  PROVE  IInv'
<1>1. UNCHANGED <<copyVars, deleteVars, putVars, plainVars>> /\ kind' = kind
  BY DEF DocumentStep, copyVars
<1>2. RequestSound
  BY DEF IInv
<1>3. RequestSound' /\ pc \in DocumentPlaces /\ pc' \in DocumentPlaces \cup {"done"}
  <2>1. ASSUME NEW f, pc = "settings", SetField(f)
        PROVE  UNCHANGED requestVars
    BY <2>1 DEF SetField
  <2>2. CASE SendRefused
    BY <1>2, <2>2, AnswersTyped DEF SendRefused, FailHere, RequestSound, DocumentPlaces
  <2>3. CASE Send
    <3>1. /\ \E good \in {"ask", "done"} : EndsWell("settings", good) \/ EndsBadly("settings", "done")
          /\ trouble' \in {trouble, trouble + 1}
      <4>1. CASE HasGets
        BY <1>2, <2>3, <4>1, GoodAnswer, BadAnswer, AnswersTyped DEF Send, Changes
      <4>2. CASE ~HasGets
        BY <1>2, <2>3, <4>2, GoodAnswer, BadAnswer, AnswersTyped DEF Send, Changes
      <4>. QED  BY <4>1, <4>2
    <3>2. trouble' \in Nat
      BY <1>2, <3>1 DEF RequestSound
    <3>. QED  BY <1>2, <3>1, <3>2, AnsweredSound DEF EndsWell, EndsBadly, DocumentPlaces
  <2>4. CASE Ask
    <3>1. (EndsWell("ask", "again") \/ EndsBadly("ask", "done")) /\ trouble' = trouble
      BY <1>2, <2>4, GoodAnswer, BadAnswer DEF Ask, Reads
    <3>2. trouble' \in Nat
      BY <1>2, <3>1 DEF RequestSound
    <3>. QED  BY <1>2, <3>1, <3>2, AnsweredSound DEF EndsWell, EndsBadly, DocumentPlaces
  <2>5. CASE AskAgain \/ AskNoMore
    BY <1>2, <2>5 DEF AskAgain, AskNoMore, RequestSound, DocumentPlaces
  <2>6. CASE DocumentOthers
    <3>1. pc = "ask" /\ UNCHANGED requestVars
      BY <2>6 DEF DocumentOthers, ServerSays, OthersSet
    <3>. QED  BY <1>2, <3>1 DEF requestVars, RequestSound, DocumentPlaces
  <2>7. CASE pc = "settings" /\ UNCHANGED requestVars
    BY <1>2, <2>7 DEF requestVars, RequestSound, DocumentPlaces
  <2>. QED  BY <2>1, <2>2, <2>3, <2>4, <2>5, <2>6, <2>7 DEF DocumentStep, Document
<1>4. kind = "document"
  BY <1>3 DEF IInv, KindSound, DeletePlaces, DocumentPlaces, CopyPlaces, AcrossPlaces, PartPlaces,
     Final
<1>5. KindSound'
  BY <1>1, <1>3, <1>4 DEF KindSound
<1>. QED
  BY <1>1, <1>3, <1>4, <1>5, CopyIdle, DeleteIdle, PlainIdle, PutIdle DEF IInv, Copies

-----------------------------------------------------------------------------
(* DeleteObjects by prefix                                                 *)

\* The numbers are well-ordered.
LEMMA LeastNumber ==
  ASSUME NEW T \in SUBSET Nat, T # {}
  PROVE  \E m \in T : \A n \in T : m <= n
<1>. DEFINE R == {ss \in Nat \X Nat : ss[1] < ss[2]}
<1>1. IsWellFoundedOn(R, Nat)
  BY NatLessThanWellFounded DEF OpToRel
<1>2. \E m \in T : \A n \in T : ~ (<<n, m>> \in R)
  BY <1>1, WFMin
<1>3. ASSUME NEW m \in T, NEW n \in T, <<n, m>> \notin R
      PROVE  m <= n
  <2>1. <<n, m>> \in Nat \X Nat /\ <<n, m>>[1] = n /\ <<n, m>>[2] = m
    OBVIOUS
  <2>. QED  BY <1>3, <2>1
<1>. QED  BY <1>2, <1>3

\* Keys are compared as numbers.
LEMMA KeysAreNumbers == \A k \in Keys : k \in Nat /\ k >= 1
BY PrefixAssumption DEF Keys

\* So keys have a greatest one: the least of those that none exceeds.
LEMMA GreatestKey ==
  ASSUME NEW S \in SUBSET Keys
  PROVE  Greatest(S) \in Nat /\ (S # {} => Greatest(S) \in S)
<1>1. CASE S = {}
  BY <1>1 DEF Greatest
<1>2. CASE S # {}
  <2>. DEFINE T == {n \in Nat : \A j \in S : j <= n}
  <2>1. NumKeys \in T /\ T \in SUBSET Nat
    BY PrefixAssumption DEF Keys
  <2>2. PICK m \in T : \A n \in T : m <= n
    BY <2>1, LeastNumber
  <2>3. m \in S
    <3>1. SUFFICES ASSUME m \notin S PROVE FALSE
      OBVIOUS
    <3>2. PICK j \in S : j \in Nat /\ j >= 1
      BY <1>2, KeysAreNumbers
    <3>3. m \in Nat /\ j <= m
      BY <3>2
    <3>4. m - 1 \in Nat
      BY <3>2, <3>3
    <3>5. ASSUME NEW i \in S
          PROVE  i <= m - 1
      <4>1. i \in Nat /\ i <= m /\ i # m
        BY <3>1, KeysAreNumbers
      <4>. QED  BY <3>3, <4>1
    <3>6. m - 1 \in T
      BY <3>4, <3>5
    <3>. QED  BY <2>2, <3>3, <3>6
  <2>4. \E k \in S : \A j \in S : j <= k
    BY <2>3
  <2>5. Greatest(S) \in S
    BY <1>2, <2>4 DEF Greatest
  <2>. QED  BY <2>5, KeysAreNumbers
<1>. QED  BY <1>1, <1>2

\* The keys that are not on the page come after those that are.
LEMMA PageComesFirst ==
  ASSUME bucket \subseteq Keys, NEW k \in Beyond \ FirstPage
  PROVE  k > Greatest(FirstPage)
<1>1. Beyond \subseteq Keys /\ FirstPage \subseteq Beyond /\ Keys \subseteq Nat
  <2>1. Keys \subseteq Nat
    BY KeysAreNumbers
  <2>. QED  BY <2>1 DEF Beyond, FirstPage
<1>. DEFINE upTo(n) == {j \in Beyond : j <= n}
<1>2. \A n : IsFiniteSet(upTo(n)) /\ Cardinality(upTo(n)) \in Nat
  <2>1. IsFiniteSet(Keys)
    BY FS_Interval, PrefixAssumption DEF Keys
  <2>2. \A n : upTo(n) \in SUBSET Keys
    BY <1>1
  <2>. QED  BY <2>1, <2>2, FS_Subset, FS_CardinalityType
<1>3. ASSUME NEW j \in FirstPage
      PROVE  j < k
  <2>1. SUFFICES ASSUME k <= j PROVE FALSE
    BY <1>1
  <2>2. upTo(k) \in SUBSET upTo(j)
    <3>1. ASSUME NEW i \in Beyond, i <= k
          PROVE  i <= j
      <4>1. i \in Nat /\ j \in Nat /\ k \in Nat
        BY <1>1
      <4>. QED  BY <2>1, <3>1, <4>1
    <3>. QED  BY <3>1
  <2>3. Cardinality(upTo(k)) <= Cardinality(upTo(j))
    BY <1>2, <2>2, FS_Subset
  <2>4. Cardinality(upTo(j)) <= PageSize
    BY DEF FirstPage
  <2>5. Cardinality(upTo(k)) <= PageSize
    BY <1>2, <2>3, <2>4, PrefixAssumption
  <2>. QED  BY <2>5 DEF FirstPage
<1>4. CASE FirstPage = {}
  BY <1>1, <1>4, PrefixAssumption DEF Greatest, Keys
<1>5. CASE FirstPage # {}
  <2>1. Greatest(FirstPage) \in FirstPage
    BY <1>1, <1>5, GreatestKey
  <2>. QED  BY <1>1, <1>3, <2>1
<1>. QED  BY <1>4, <1>5

\* The places of a deletion are its own.
LEMMA DeletePlace ==
  ASSUME IInv, pc \in DeletePlaces
  PROVE  kind = "delete"
BY DEF IInv, KindSound, DeletePlaces, DocumentPlaces, CopyPlaces, AcrossPlaces, PartPlaces, Final

\* What a step of a deletion has to keep.
DeletionSteps == RequestSound' /\ pc' \in DeletePlaces \cup {"done"} /\ DeleteSound'

\* A page holds what is first beyond the marker.
LEMMA ListPageSound ==
  ASSUME IInv, ListPage, kind' = kind
  PROVE  DeletionSteps
<1>1. /\ UNCHANGED <<bucket, others, initially, marker, truncated, unread, deleted, trouble>>
      /\ \/ /\ EndsWell("list", "delete") /\ page' = FirstPage
            /\ next' = [marker |-> Greatest(FirstPage), more |-> Beyond # FirstPage]
         \/ EndsBadly("list", "list again") /\ UNCHANGED <<page, next>>
  BY GoodAnswer, BadAnswer DEF ListPage, Reads, IInv
<1>2. pc = "list" /\ pc' \in DeletePlaces /\ RequestSound'
  <2>1. trouble' \in Nat
    BY <1>1 DEF IInv, RequestSound
  <2>. QED  BY <1>1, <2>1, AnsweredSound DEF IInv, EndsWell, EndsBadly, DeletePlaces
<1>3. /\ bucket \subseteq Keys /\ marker \in Nat /\ next.marker \in Nat
      /\ Unnamed = {} /\ (\A k \in Found : k > marker)
      /\ (~truncated => marker = 0 /\ deleted = {}) /\ kind' = "delete"
      /\ deleted \cap bucket \subseteq others
  BY <1>2, DeletePlace DEF IInv, DeleteSound, DeletePlaces
<1>4. Unnamed' = {} /\ Found' = Found /\ (\E k : Unnamed' \subseteq {k})
  BY <1>1, <1>3 DEF Unnamed, Found
<1>5. CASE pc' = "delete"
  <2>1. /\ page' = FirstPage
        /\ next' = [marker |-> Greatest(FirstPage), more |-> Beyond # FirstPage]
    BY <1>1, <1>5 DEF EndsBadly
  <2>2. next'.marker \in Nat
    <3>1. FirstPage \in SUBSET Keys
      BY <1>3 DEF FirstPage, Beyond
    <3>. QED  BY <2>1, <3>1, GreatestKey
  <2>3. ASSUME NEW k \in Found, k \notin page'
        PROVE  next'.more /\ k > next'.marker
    <3>1. k \in Beyond \ FirstPage
      BY <1>3, <2>1, <2>3 DEF Found, Beyond
    <3>2. k > Greatest(FirstPage)
      BY <1>3, <3>1, PageComesFirst
    <3>. QED  BY <2>1, <3>1, <3>2
  <2>. QED  BY <1>1, <1>2, <1>3, <1>4, <1>5, <2>2, <2>3 DEF DeleteSound, DeletionSteps
<1>6. CASE pc' # "delete"
  <2>1. pc' \in {"list", "list again"} /\ UNCHANGED next
    BY <1>1, <1>6 DEF EndsWell, EndsBadly
  <2>. QED  BY <1>1, <1>2, <1>3, <1>4, <2>1 DEF DeleteSound, DeletionSteps
<1>. QED  BY <1>5, <1>6

\* The key at hand is deleted, and named only after a good answer.
LEMMA DeleteKeySound ==
  ASSUME IInv, DeleteKey, kind' = kind
  PROVE  DeletionSteps
<1>. DEFINE k == Least(page)
<1>1. /\ page # {} /\ UNCHANGED <<others, initially, next, marker, truncated, unread>>
      /\ \/ /\ EndsWell("delete", "delete") /\ bucket' = bucket \ {k} /\ page' = page \ {k}
            /\ deleted' = deleted \cup {k} /\ trouble' = trouble
         \/ /\ EndsBadly("delete", "done") /\ bucket' \in {bucket, bucket \ {k}}
            /\ UNCHANGED <<page, deleted>> /\ trouble' = trouble + 1
  BY GoodAnswer, BadAnswer, AnswersTyped DEF DeleteKey, Changes, IInv, EndsWell, EndsBadly
<1>. HIDE DEF k
<1>2. pc = "delete" /\ pc' \in {"delete", "done"} /\ RequestSound' /\ trouble \in Nat
  <2>1. trouble \in Nat /\ trouble' \in Nat
    BY <1>1 DEF IInv, RequestSound
  <2>. QED  BY <1>1, <2>1, AnsweredSound DEF IInv, EndsWell, EndsBadly
<1>3. /\ bucket \subseteq Keys /\ marker \in Nat /\ next.marker \in Nat
      /\ Unnamed \subseteq {k}
      /\ (\A j \in Found : j \in page \/ (next.more /\ j > next.marker))
      /\ kind' = "delete" /\ deleted \cap bucket \subseteq others
  BY <1>1, <1>2, DeletePlace DEF IInv, DeleteSound, DeletePlaces, k
<1>4. CASE /\ EndsWell("delete", "delete") /\ bucket' = bucket \ {k} /\ page' = page \ {k}
           /\ deleted' = deleted \cup {k} /\ trouble' = trouble
  <2>1. Unnamed' = {} /\ (\E j : Unnamed' \subseteq {j})
    BY <1>1, <1>3, <1>4 DEF Unnamed
  <2>2. \A j \in Found' : j \in page' \/ (next'.more /\ j > next'.marker)
    BY <1>1, <1>3, <1>4 DEF Found
  <2>3. pc' = "delete"
    BY <1>4 DEF EndsWell
  <2>4. bucket' \subseteq Keys /\ deleted' \cap bucket' \subseteq others'
    BY <1>1, <1>3, <1>4
  <2>5. marker' \in Nat /\ next'.marker \in Nat
    BY <1>1, <1>3
  <2>. QED  BY <1>2, <1>3, <2>1, <2>2, <2>3, <2>4, <2>5 DEF DeleteSound, DeletionSteps, DeletePlaces
<1>5. CASE /\ EndsBadly("delete", "done") /\ bucket' \in {bucket, bucket \ {k}}
           /\ UNCHANGED <<page, deleted>> /\ trouble' = trouble + 1
  <2>1. Unnamed' \subseteq {k} /\ (\E j : Unnamed' \subseteq {j}) /\ Least(page)' = k
    BY <1>1, <1>3, <1>5 DEF Unnamed, k
  <2>2. \A j \in Found' : j \in page' \/ (next'.more /\ j > next'.marker)
    BY <1>1, <1>3, <1>5 DEF Found
  <2>3. ~result'.succ /\ trouble' > 0 /\ page' # {}
    BY <1>1, <1>2, <1>5, AnswersTyped DEF EndsBadly
  <2>4. bucket' \subseteq Keys /\ deleted' \cap bucket' \subseteq others'
    BY <1>1, <1>3, <1>5
  <2>5. marker' \in Nat /\ next'.marker \in Nat
    BY <1>1, <1>3
  <2>. QED  BY <1>2, <1>3, <2>1, <2>2, <2>3, <2>4, <2>5 DEF DeleteSound, DeletionSteps, DeletePlaces
<1>. QED  BY <1>1, <1>4, <1>5

\* After the page, what was found and is not deleted is beyond its last key.
LEMMA PageDoneSound ==
  ASSUME IInv, PageDone, kind' = kind
  PROVE  DeletionSteps
<1>1. /\ pc = "delete" /\ page = {}
      /\ marker' = next.marker /\ truncated' = next.more
      /\ pc' = IF next.more THEN "list" ELSE "done"
      /\ UNCHANGED <<attempt, result, trouble, bucket, others, initially, page, next, unread, deleted>>
  BY DEF PageDone
<1>2. /\ bucket \subseteq Keys /\ marker \in Nat /\ next.marker \in Nat
      /\ Unnamed = {}
      /\ (\A k \in Found : next.more /\ k > next.marker)
      /\ kind' = "delete" /\ deleted \cap bucket \subseteq others
  BY <1>1, DeletePlace DEF IInv, DeleteSound, DeletePlaces
<1>3. RequestSound'
  BY <1>1 DEF IInv, RequestSound
<1>4. Unnamed' = {} /\ Found' = Found /\ (\E k : Unnamed' \subseteq {k})
  BY <1>1, <1>2 DEF Unnamed, Found
<1>5. CASE next.more
  BY <1>1, <1>2, <1>3, <1>4, <1>5 DEF DeleteSound, DeletionSteps, DeletePlaces
<1>6. CASE ~next.more
  BY <1>1, <1>2, <1>3, <1>4, <1>6 DEF DeleteSound, DeletionSteps, DeletePlaces
<1>. QED  BY <1>5, <1>6

\* The answer of the backup domain ends the loop only when nothing was listed.
LEMMA ListAgainSound ==
  ASSUME IInv, ListAgain, kind' = kind
  PROVE  DeletionSteps
<1>1. /\ UNCHANGED <<bucket, others, initially, page, next, marker, truncated, deleted, trouble>>
      /\ \/ EndsWell("list again", IF truncated THEN "list" ELSE "done") /\ unread' = TRUE
         \/ EndsBadly("list again", "done") /\ unread' = unread
  <2>1. CASE truncated
    BY <2>1, GoodAnswer, BadAnswer DEF ListAgain, Reads, IInv
  <2>2. CASE ~truncated
    BY <2>2, GoodAnswer, BadAnswer DEF ListAgain, Reads, IInv
  <2>. QED  BY <2>1, <2>2
<1>2. /\ pc = "list again" /\ pc' \in {"list", "list again", "done"} /\ RequestSound'
      /\ pc' = "done" => ~result'.succ \/ (unread' /\ ~truncated)
  <2>1. trouble' \in Nat
    BY <1>1 DEF IInv, RequestSound
  <2>2. CASE EndsBadly("list again", "done")
    BY <2>1, <2>2, AnsweredSound, AnswersTyped DEF IInv, EndsBadly
  <2>3. CASE EndsWell("list again", IF truncated THEN "list" ELSE "done") /\ unread' = TRUE
    <3>1. pc = "list again" /\ pc' = (IF truncated THEN "list" ELSE "done")
      BY <2>3 DEF EndsWell
    <3>2. RequestSound'
      <4>1. attempt' = 0 /\ result' = Good
        BY <2>3 DEF EndsWell
      <4>. QED  BY <2>1, <4>1, AnswersTyped, RetryAssumption DEF RequestSound
    <3>. QED  BY <2>3, <3>1, <3>2
  <2>. QED  BY <1>1, <2>2, <2>3
<1>3. /\ bucket \subseteq Keys /\ marker \in Nat /\ next.marker \in Nat
      /\ Unnamed = {} /\ (\A k \in Found : k > marker)
      /\ (~truncated => marker = 0 /\ deleted = {}) /\ kind' = "delete"
      /\ deleted \cap bucket \subseteq others
  BY <1>2, DeletePlace DEF IInv, DeleteSound, DeletePlaces
<1>4. Unnamed' = {} /\ Found' = Found /\ (\E k : Unnamed' \subseteq {k})
  BY <1>1, <1>3 DEF Unnamed, Found
<1>. QED  BY <1>1, <1>2, <1>3, <1>4 DEF DeleteSound, DeletionSteps, DeletePlaces

\* A key that is put again was put by others.
LEMMA OthersPutSound ==
  ASSUME IInv, OthersPut, kind' = kind
  PROVE  DeletionSteps
<1>1. PICK k \in Keys : bucket' = bucket \cup {k} /\ others' = others \cup {k}
  BY DEF OthersPut
<1>2. /\ pc \in DeletePlaces
      /\ UNCHANGED <<pc, attempt, result, trouble, initially, page, next, marker, truncated, unread, deleted>>
  BY DEF OthersPut, requestVars, DeletePlaces
<1>3. /\ bucket \subseteq Keys /\ marker \in Nat /\ next.marker \in Nat
      /\ kind' = "delete" /\ kind = "delete" /\ deleted \cap bucket \subseteq others
  BY <1>2, DeletePlace DEF IInv, DeleteSound
<1>4. Unnamed' \subseteq Unnamed /\ Found' \subseteq Found
  BY <1>1, <1>2 DEF Unnamed, Found
<1>5. (deleted \cap bucket \subseteq others)' /\ (bucket \subseteq Keys)'
  BY <1>1, <1>2, <1>3
<1>6. RequestSound'
  BY <1>2 DEF IInv, RequestSound
<1>7. (\E j : Unnamed' \subseteq {j}) /\ (Unnamed' # {} => trouble' > 0)
  <2>1. (\E j : Unnamed \subseteq {j}) /\ (Unnamed # {} => trouble > 0)
    BY DEF IInv, DeleteSound
  <2>. QED  BY <1>2, <1>4, <2>1
<1>8. CASE pc \in {"list", "list again"}
  <2>1. /\ Unnamed = {} /\ (\A j \in Found : j > marker)
        /\ (~truncated => marker = 0 /\ deleted = {})
    BY <1>8 DEF IInv, DeleteSound
  <2>. QED  BY <1>2, <1>3, <1>4, <1>5, <1>6, <1>7, <1>8, <2>1 DEF DeleteSound, DeletionSteps
<1>9. CASE pc = "delete"
  <2>1. /\ Unnamed # {} => page # {} /\ Unnamed \subseteq {Least(page)}
        /\ \A j \in Found : j \in page \/ (next.more /\ j > next.marker)
    BY <1>9 DEF IInv, DeleteSound
  <2>2. Least(page)' = Least(page)
    BY <1>2
  <2>3. Unnamed' # {} => page' # {} /\ Unnamed' \subseteq {Least(page)'}
    BY <1>2, <1>4, <2>1, <2>2
  <2>4. \A j \in Found' : j \in page' \/ (next'.more /\ j > next'.marker)
    BY <1>2, <1>4, <2>1
  <2>. QED  BY <1>2, <1>3, <1>5, <1>6, <1>7, <1>9, <2>3, <2>4 DEF DeleteSound, DeletionSteps
<1>. QED  BY <1>2, <1>8, <1>9 DEF DeletePlaces

\* A deletion keeps the invariant, whatever other clients put.
LEMMA DeleteIInv ==
  ASSUME IInv, DeleteStep \/ (OthersPut /\ UNCHANGED <<copyVars, plainVars, documentVars>>)
  PROVE  IInv'
<1>1. UNCHANGED <<copyVars, plainVars>> /\ kind' = kind
  BY DEF DeleteStep, copyVars
<1>2. UNCHANGED putVars
  BY DEF DeleteStep, Delete, ListPage, DeleteKey, PageDone, ListAgain, OthersPut
<1>3. DeletionSteps
  BY <1>1, ListPageSound, DeleteKeySound, PageDoneSound, ListAgainSound, OthersPutSound
     DEF DeleteStep, Delete
<1>4. pc \in DeletePlaces
  BY DEF DeleteStep, Delete, ListPage, DeleteKey, PageDone, ListAgain, OthersPut, Reads, Changes,
     Attempt, DeletePlaces
<1>5. kind = "delete"
  BY <1>4, DeletePlace
<1>6. KindSound'
  BY <1>1, <1>3, <1>5 DEF KindSound, DeletionSteps
<1>. QED
  BY <1>1, <1>2, <1>3, <1>5, <1>6, CopyIdle, PlainIdle, PutIdle DEF IInv, Copies, DeletionSteps

-----------------------------------------------------------------------------
(* Copies: ranges                                                          *)

\* Whether ranges follow each other depends on nothing but their ends.
LEMMA SameCuts ==
  ASSUME NEW R, NEW S, NEW s \in Seq(R), NEW t \in Seq(S), Len(s) = Len(t),
         \A k \in 1 .. Len(s) : s[k].lo = t[k].lo /\ s[k].hi = t[k].hi,
         Chained(s)
  PROVE  Chained(t) /\ EndOf(t) = EndOf(s)
<1>1. Len(s) \in Nat
  OBVIOUS
<1>. DEFINE n == Len(s)
<1>2. s = <<>> <=> n = 0
  BY EmptySeq
<1>3. t = <<>> <=> n = 0
  BY EmptySeq
<1>4. (n # 0 => s[1].lo = 0) /\ \A k \in 2 .. n : s[k].lo = s[k - 1].hi + 1
  BY <1>2 DEF Chained
<1>5. EndOf(s) = (IF n = 0 THEN 0 ELSE s[n].hi + 1)
  BY <1>2 DEF EndOf, Last
<1>6. EndOf(t) = (IF n = 0 THEN 0 ELSE t[n].hi + 1)
  BY <1>3 DEF EndOf, Last
<1>7. Chained(t) <=> (n # 0 => t[1].lo = 0) /\ \A k \in 2 .. n : t[k].lo = t[k - 1].hi + 1
  BY <1>3 DEF Chained
<1>. HIDE DEF n
<1>8. n \in Nat /\ \A k \in 1 .. n : s[k].lo = t[k].lo /\ s[k].hi = t[k].hi
  BY <1>1 DEF n
<1>9. n # 0 => 1 \in 1 .. n /\ n \in 1 .. n
  BY <1>8
<1>10. \A k \in 2 .. n : k \in 1 .. n /\ k - 1 \in 1 .. n
  BY <1>8
<1>11. \A k \in 2 .. n : t[k].lo = t[k - 1].hi + 1
  BY <1>4, <1>8, <1>10
<1>12. (n # 0 => t[1].lo = 0) /\ (n # 0 => t[n].hi = s[n].hi)
  BY <1>4, <1>8, <1>9
<1>. QED  BY <1>5, <1>6, <1>7, <1>11, <1>12

\* One more that begins where they end.
LEMMA OneMoreCut ==
  ASSUME NEW R, NEW s \in Seq(R), NEW e \in R, Chained(s), e.lo = EndOf(s)
  PROVE  Chained(Append(s, e)) /\ EndOf(Append(s, e)) = e.hi + 1
<1>. DEFINE n == Len(s)
            t == Append(s, e)
<1>1. /\ n \in Nat /\ Len(t) = n + 1 /\ t # <<>> /\ t[n + 1] = e
      /\ \A k \in 1 .. n : t[k] = s[k]
  BY AppendProperties
<1>2. s = <<>> <=> n = 0
  BY EmptySeq
<1>3. (n # 0 => s[1].lo = 0) /\ \A k \in 2 .. n : s[k].lo = s[k - 1].hi + 1
  BY <1>2 DEF Chained
<1>4. e.lo = (IF n = 0 THEN 0 ELSE s[n].hi + 1)
  BY <1>2 DEF EndOf, Last
<1>5. EndOf(t) = t[Len(t)].hi + 1
  BY <1>1 DEF EndOf, Last
<1>6. Chained(t) <=> t[1].lo = 0 /\ \A k \in 2 .. Len(t) : t[k].lo = t[k - 1].hi + 1
  BY <1>1 DEF Chained
<1>. HIDE DEF n, t
<1>7. t[1].lo = 0
  BY <1>1, <1>3, <1>4
<1>8. ASSUME NEW k \in 2 .. n + 1
      PROVE  t[k].lo = t[k - 1].hi + 1
  <2>1. CASE k = n + 1
    <3>1. n # 0 /\ n \in 1 .. n /\ k - 1 = n
      BY <1>1, <2>1
    <3>2. t[n] = s[n] /\ t[k] = e
      BY <1>1, <2>1, <3>1
    <3>. QED  BY <1>4, <3>1, <3>2
  <2>2. CASE k # n + 1
    <3>1. k \in 2 .. n /\ k \in 1 .. n /\ k - 1 \in 1 .. n
      BY <1>1, <2>2
    <3>. QED  BY <1>1, <1>3, <3>1
  <2>. QED  BY <2>1, <2>2
<1>. QED  BY <1>1, <1>5, <1>6, <1>7, <1>8 DEF t

Cuts == Pieces \cup Tasks

\* The parts listed and those being copied, in one sequence.
LEMMA CutsTyped ==
  ASSUME CopyTyped
  PROVE  /\ etags \in Seq(Cuts) /\ tasks \in Seq(Cuts) /\ etags \o tasks \in Seq(Cuts)
         /\ Len(etags \o tasks) = Len(etags) + Len(tasks)
         /\ \A k \in 1 .. Len(etags) + Len(tasks) :
              (etags \o tasks)[k] = IF k <= Len(etags) THEN etags[k] ELSE tasks[k - Len(etags)]
<1>1. etags \in Seq(Cuts) /\ tasks \in Seq(Cuts)
  BY DEF CopyTyped, Cuts
<1>. QED  BY <1>1, ConcatProperties

\* A version's whole, made at once, is a whole.
LEMMA OnePieceWhole ==
  ASSUME CopyTyped, NEW t, OnePiece(t)
  PROVE  WholeTarget(t)
<1>1. PICK v \in 1 .. latest : t = <<[lo |-> 0, hi |-> sizes[v] - 1, ver |-> v]>>
  BY DEF OnePiece
<1>2. Len(t) = 1 /\ t[1].lo = 0 /\ t[1].hi = sizes[v] - 1 /\ t # <<>>
  BY <1>1
<1>3. \A k \in 2 .. 1 : FALSE
  OBVIOUS
<1>. QED  BY <1>2, <1>3 DEF WholeTarget, Chained, Last

-----------------------------------------------------------------------------
(* Copies: what most steps leave alone                                     *)

\* The places of a copy are its own.
LEMMA CopyPlace ==
  ASSUME IInv, pc \in CopyPlaces
  PROVE  kind \in Copies
BY DEF IInv, KindSound, DeletePlaces, DocumentPlaces, CopyPlaces, AcrossPlaces, PartPlaces, Final

\* The source is as it was, or was replaced.
SourceKept == sizes' = sizes /\ latest' \in Versions /\ latest <= latest'

\* What was a whole of a version is one when the source is replaced.
LEMMA VersionsStay ==
  ASSUME CopyTyped, SourceKept, target' = target
  PROVE  /\ \A v \in 1 .. latest : v \in 1 .. latest'
         /\ OnePiece(target) => OnePiece(target)'
         /\ WholeTarget(target) => WholeTarget(target)'
<1>1. \A v \in 1 .. latest : v \in 1 .. latest'
  BY CopyAssumption DEF CopyTyped, Versions, SourceKept
<1>2. OnePiece(target) => OnePiece(target)'
  BY <1>1 DEF OnePiece, SourceKept
<1>3. WholeTarget(target) => WholeTarget(target)'
  BY <1>1 DEF WholeTarget, SourceKept, Chained, Last
<1>. QED  BY <1>1, <1>2, <1>3

\* A step that cuts nothing and lists nothing.
LEMMA WindowKept ==
  ASSUME IInv, kind' = kind, SourceKept, UNCHANGED <<size, offset, tasks, etags>>,
         pc' = "complete" => pc = "complete",
         pc' \in {"copy", "head"} => pc \in {"copy", "head"},
         pc' \in PartPlaces => pc \in PartPlaces,
         pc = "fill" => pc' = "fill"
  PROVE  PartsSound'
<1>1. \A v \in 1 .. latest : v \in 1 .. latest'
  BY CopyAssumption DEF IInv, CopyTyped, Versions, SourceKept
<1>2. pc' \in PartPlaces => \E v \in 1 .. latest' : size' = sizes'[v]
  BY <1>1 DEF IInv, PartsSound, SourceKept
<1>3. (Chained(etags \o tasks) /\ offset = EndOf(etags \o tasks) /\ offset <= size)'
  BY DEF IInv, PartsSound, Chained, EndOf, Last
<1>. QED  BY <1>2, <1>3 DEF IInv, PartsSound

\* A step that leaves the destination and the source alone.
LEMMA TargetKept ==
  ASSUME IInv, kind' = kind, SourceKept, UNCHANGED <<target, gone>>,
         pc' \in AcrossPlaces => kind = "copy across",
         pc' = "delete source" => kind = "move",
         pc' \in {"copy"} \cup (AcrossPlaces \ {"complete"}) => target = <<>>,
         pc' \in {"etag", "delete source"} => pc \in {"etag", "delete source"},
         pc' = "done" /\ result'.succ => WholeTarget(target),
         gone => pc' \in {"delete source", "done"}
  PROVE  TargetSound'
<1>1. /\ OnePiece(target) => OnePiece(target)'
      /\ WholeTarget(target) => WholeTarget(target)'
  BY VersionsStay DEF IInv
<1>2. /\ pc' \in {"etag", "delete source"} => WholeTarget(target) /\ (kind = "move" => OnePiece(target))
      /\ gone => kind \in Copies /\ OnePiece(target)
  BY DEF IInv, TargetSound
<1>. QED  BY <1>1, <1>2 DEF TargetSound

\* What is left behind, and how it is counted.
LEMMA LeftLater ==
  ASSUME IsFiniteSet(open')
  PROVE  /\ Opened' \in Nat /\ Placed' \in Nat /\ Placed' <= 1 /\ LeftBehind' \in Nat
         /\ LeftBehind' <= Opened' + Placed'
         /\ result'.succ => LeftBehind' = Opened'
         /\ (open' = {} => Opened' = 0) /\ (target' = <<>> => Placed' = 0)
<1>1. Opened' \in Nat /\ (open' = {} => Opened' = 0)
  BY FS_CardinalityType, FS_EmptySet DEF Opened
<1>2. LeftBehind' = Opened' + (IF target' # <<>> /\ ~result'.succ THEN 1 ELSE 0)
  BY DEF LeftBehind, Opened
<1>3. Placed' \in {0, 1} /\ (target' = <<>> => Placed' = 0) /\ (target' # <<>> => Placed' = 1)
      /\ Placed' \in Nat /\ Placed' <= 1
  BY DEF Placed
<1>. DEFINE o == Opened'
            p == Placed'
            l == LeftBehind'
<1>4. o \in Nat /\ p \in {0, 1} /\ (target' # <<>> => p = 1)
  BY <1>1, <1>3
<1>5. CASE target' # <<>> /\ ~result'.succ
  <2>1. l = o + 1 /\ p = 1
    BY <1>2, <1>4, <1>5
  <2>. HIDE DEF o, p, l
  <2>2. l \in Nat /\ l <= o + p
    BY <1>4, <2>1
  <2>. QED  BY <1>1, <1>3, <1>5, <2>2 DEF o, p, l
<1>6. CASE ~(target' # <<>> /\ ~result'.succ)
  <2>1. l = o
    <3>1. l = o + 0
      BY <1>2, <1>6
    <3>. HIDE DEF o, l
    <3>. QED  BY <1>4, <3>1
  <2>. HIDE DEF o, p, l
  <2>2. l \in Nat /\ l <= o + p
    BY <1>4, <2>1
  <2>. QED  BY <1>1, <1>3, <2>1, <2>2 DEF o, p, l
<1>. QED  BY <1>5, <1>6

\* Nothing is opened and nothing placed.
LEMMA OpenKept ==
  ASSUME UNCHANGED <<open, target>>
  PROVE  Opened' = Opened /\ Placed' = Placed
BY DEF Opened, Placed

\* Sums of few things.
LEMMA Owing ==
  /\ \A o, p, l, t \in Nat : l <= o + p /\ p = 0 /\ o <= t => l <= t
  /\ \A o, p, l, t \in Nat : l <= o + p /\ p <= 1 /\ o <= t => l <= t + 1
  /\ \A o, p, l, t \in Nat : l <= o + p /\ o + p <= t => l <= t
  /\ \A o, t \in Nat : o <= t => o <= t + 1
  /\ \A t \in Nat : t + 1 \in Nat /\ 0 <= t
  /\ \A l, t \in Nat, z \in {0} : l <= t => l <= t + z
OBVIOUS

\* A step that leaves the source and the parts alone.
LEMMA SourceSame ==
  ASSUME IInv, UNCHANGED <<sizes, latest, gone, open, made, size, offset, tasks, etags>>
  PROVE  CopyTyped' /\ SourceKept
<1>1. CopyTyped /\ latest \in Nat
  BY CopyAssumption DEF IInv, CopyTyped, Versions
<1>. QED  BY <1>1 DEF CopyTyped, SourceKept

\* A step that sends no request.
LEMMA RequestSame ==
  ASSUME RequestSound, UNCHANGED attempt, result' \in CosResults, trouble' \in Nat
  PROVE  RequestSound'
BY DEF RequestSound

\* What a step of a copy has to keep.
CopyKept ==
  RequestSound' /\ KindSound' /\ CopyTyped' /\ PartsSound' /\ TargetSound' /\ OpenSound'

\* A copy that has neither begun an upload nor made a destination owes nothing.
LEMMA NothingLeft ==
  ASSUME open' = {}, target' = <<>>, trouble' \in Nat, pc' # "etag"
  PROVE  OpenSound'
<1>1. Placed' = 0
  BY DEF Placed
<1>2. Opened' = 0
  BY FS_EmptySet DEF Opened
<1>3. LeftBehind' = 0
  BY FS_EmptySet DEF LeftBehind
<1>. DEFINE t == trouble'
<1>4. \A m \in Nat : 0 <= m /\ 0 <= m + 1 /\ 0 + 0 <= m + 1 /\ 0 <= m + 0
  OBVIOUS
<1>5. 0 <= t /\ 0 <= t + 1 /\ 0 + 0 <= t + 1 /\ 0 <= t + (IF pc' = "thrown" THEN 1 ELSE 0)
  BY <1>4
<1>. QED  BY <1>1, <1>2, <1>3, <1>5 DEF OpenSound

-----------------------------------------------------------------------------
(* Copies: the steps without a request                                     *)

\* Nothing has happened when a copy begins.
LEMMA CopyBeginSound ==
  ASSUME IInv, CopyBegin
  PROVE  CopyKept
<1>1. /\ pc = "copy" /\ pc' = (IF kind = "copy across" THEN "head" ELSE "put copy")
      /\ UNCHANGED <<attempt, result, trouble, kind, sizes, latest, gone, target, open, made,
                     size, offset, tasks, etags>>
  BY DEF CopyBegin, copyVars, sourceVars, windowVars
<1>2. kind \in Copies
  BY <1>1, CopyPlace DEF CopyPlaces
<1>3. CopyTyped' /\ SourceKept
  BY <1>1, SourceSame
<1>4. RequestSound' /\ KindSound'
  BY <1>1, <1>2 DEF IInv, RequestSound, KindSound, CopyPlaces, AcrossPlaces
<1>5. PartsSound'
  BY <1>1, <1>3, WindowKept DEF PartPlaces
<1>6. target = <<>> /\ ~gone /\ open = {} /\ trouble \in Nat
  BY <1>1, <1>2 DEF IInv, TargetSound, OpenSound, RequestSound
<1>7. TargetSound'
  BY <1>1, <1>3, <1>6, TargetKept DEF AcrossPlaces, PartPlaces
<1>8. OpenSound'
  BY <1>1, <1>6, NothingLeft
<1>. QED  BY <1>3, <1>4, <1>5, <1>7, <1>8 DEF CopyKept

\* The call ends, and it has made nothing, or an upload that is paid for.
LEMMA CopyStopsSound ==
  ASSUME IInv, CopyBadSource \/ TooLarge \/ ReportTask
  PROVE  CopyKept
<1>1. /\ pc \in {"copy", "too large", "report"} /\ pc' \in {"done", "crashed"}
      /\ result' \in CosResults /\ result'.succ = FALSE
      /\ UNCHANGED <<attempt, trouble, kind, sizes, latest, gone, target, open, made,
                     size, offset, tasks, etags>>
  BY AnswersTyped DEF CopyBadSource, TooLarge, ReportTask, FailHere, copyVars, sourceVars, windowVars
<1>2. kind \in Copies
  BY <1>1, CopyPlace DEF CopyPlaces, AcrossPlaces, PartPlaces
<1>3. CopyTyped' /\ SourceKept
  BY <1>1, SourceSame
<1>4. RequestSound' /\ KindSound'
  BY <1>1, <1>2 DEF IInv, RequestSound, KindSound, Final
<1>5. PartsSound'
  BY <1>1, <1>3, WindowKept DEF PartPlaces
<1>6. target = <<>> /\ ~gone /\ trouble \in Nat
  BY <1>1, <1>2 DEF IInv, TargetSound, AcrossPlaces, PartPlaces, RequestSound
<1>7. TargetSound'
  BY <1>1, <1>3, <1>6, TargetKept DEF AcrossPlaces, PartPlaces
<1>8. OpenSound'
  <2>1. Opened' = Opened
    BY <1>1, OpenKept
  <2>2. IsFiniteSet(open') /\ target' = <<>>
    BY <1>1, <1>3, <1>6 DEF CopyTyped
  <2>3. /\ Opened' \in Nat /\ Placed' = 0 /\ Placed' \in Nat /\ LeftBehind' \in Nat
        /\ LeftBehind' <= Opened' + Placed' /\ (open' = {} => Opened' = 0)
    BY <2>2, LeftLater
  <2>4. open = {} \/ Opened <= trouble
    BY <1>1, <1>2 DEF IInv, OpenSound
  <2>5. Opened' <= trouble
    <3>1. CASE open = {}
      <4>1. Opened' = 0 /\ 0 <= trouble
        BY <1>1, <1>6, <2>3, <3>1, Owing
      <4>. QED  BY <4>1
    <3>2. CASE Opened <= trouble
      BY <2>1, <3>2
    <3>. QED  BY <2>4, <3>1, <3>2
  <2>6. LeftBehind' <= trouble'
    BY <1>1, <1>6, <2>3, <2>5, Owing
  <2>7. LeftBehind' <= trouble' + (IF pc' = "thrown" THEN 1 ELSE 0)
    BY <1>1, <1>6, <2>3, <2>6, Owing
  <2>. QED  BY <1>1, <2>7 DEF OpenSound
<1>. QED  BY <1>3, <1>4, <1>5, <1>7, <1>8 DEF CopyKept

\* The pool is made or not; the upload is there.
LEMMA MakePoolSound ==
  ASSUME IInv, MakePool
  PROVE  CopyKept
<1>1. /\ pc = "pool" /\ pc' \in {"thrown", "fill"}
      /\ UNCHANGED <<attempt, result, trouble, kind, sizes, latest, gone, target, open, made,
                     size, offset, tasks, etags>>
  BY DEF MakePool, sourceVars
<1>2. kind \in Copies
  BY <1>1, CopyPlace DEF CopyPlaces, AcrossPlaces, PartPlaces
<1>3. CopyTyped' /\ SourceKept
  BY <1>1, SourceSame
<1>4. RequestSound' /\ KindSound'
  BY <1>1, <1>2 DEF IInv, RequestSound, KindSound, Final, CopyPlaces, AcrossPlaces, PartPlaces
<1>5. PartsSound'
  BY <1>1, <1>3, WindowKept DEF PartPlaces
<1>6. target = <<>> /\ ~gone /\ kind = "copy across" /\ Opened <= trouble + 1 /\ trouble \in Nat
  BY <1>1, <1>2 DEF IInv, TargetSound, OpenSound, AcrossPlaces, PartPlaces, RequestSound
<1>7. TargetSound'
  BY <1>1, <1>3, <1>6, TargetKept DEF AcrossPlaces, PartPlaces
<1>8. OpenSound'
  <2>1. Opened' = Opened
    BY <1>1, OpenKept
  <2>2. IsFiniteSet(open') /\ target' = <<>>
    BY <1>1, <1>3, <1>6 DEF CopyTyped
  <2>3. /\ Opened' \in Nat /\ Placed' = 0 /\ Placed' \in Nat /\ LeftBehind' \in Nat
        /\ LeftBehind' <= Opened' + Placed'
    BY <2>2, LeftLater
  <2>4. trouble + 1 \in Nat /\ trouble' = trouble
    BY <1>1, <1>6, Owing
  <2>5. Opened' <= trouble + 1
    BY <1>6, <2>1
  <2>6. LeftBehind' <= trouble + 1
    BY <2>3, <2>4, <2>5, Owing
  <2>. QED  BY <1>1, <2>4, <2>6, <2>5 DEF OpenSound, Final
<1>. QED  BY <1>3, <1>4, <1>5, <1>7, <1>8 DEF CopyKept

\* Without an ETag the call fails, and that is one answer more not given well.
LEMMA CheckEtagSound ==
  ASSUME IInv, CheckEtag
  PROVE  CopyKept
<1>1. /\ pc = "etag"
      /\ UNCHANGED <<attempt, kind, sizes, latest, gone, target, open, made, size, offset, tasks, etags>>
      /\ \/ /\ pc' = IF kind = "move" THEN "delete source" ELSE "done"
            /\ UNCHANGED <<result, trouble>>
         \/ /\ pc' = "done" /\ result' = [result EXCEPT !.succ = FALSE] /\ trouble' = trouble + 1
  BY DEF CheckEtag, copyVars, sourceVars, windowVars
<1>2. kind \in Copies
  BY <1>1, CopyPlace DEF CopyPlaces
<1>3. result \in CosResults /\ trouble \in Nat /\ attempt \in 0 .. MaxRetryTimes /\ result.succ
  BY <1>1, <1>2 DEF IInv, RequestSound, OpenSound
<1>4. [result EXCEPT !.succ = FALSE] \in CosResults
  BY <1>3 DEF CosResults
<1>5. result' \in CosResults /\ trouble' \in Nat
  <2>1. trouble + 1 \in Nat
    BY <1>3, Owing
  <2>. QED  BY <1>1, <1>3, <1>4, <2>1
<1>6. CopyTyped' /\ SourceKept
  BY <1>1, SourceSame
<1>7. RequestSound' /\ KindSound'
  BY <1>1, <1>2, <1>5, RequestSame DEF IInv, KindSound, Final, CopyPlaces
<1>8. PartsSound'
  BY <1>1, <1>6, WindowKept DEF PartPlaces
<1>9. WholeTarget(target)
  BY <1>1 DEF IInv, TargetSound
<1>10. TargetSound'
  BY <1>1, <1>6, <1>9, TargetKept DEF AcrossPlaces, PartPlaces
<1>11. OpenSound'
  <2>1. Opened <= trouble /\ Opened' = Opened
    BY <1>1, <1>2, OpenKept DEF IInv, OpenSound
  <2>2. /\ Opened' \in Nat /\ Placed' \in Nat /\ Placed' <= 1 /\ LeftBehind' \in Nat
        /\ LeftBehind' <= Opened' + Placed'
        /\ result'.succ => LeftBehind' = Opened'
    BY <1>6, LeftLater DEF CopyTyped
  <2>3. CASE /\ pc' \in {"delete source", "done"} /\ UNCHANGED <<result, trouble>>
    <3>1. LeftBehind' <= trouble' /\ Opened' <= trouble'
      BY <1>3, <2>1, <2>2, <2>3
    <3>2. LeftBehind' <= trouble' + (IF pc' = "thrown" THEN 1 ELSE 0)
      BY <1>5, <2>2, <2>3, <3>1, Owing
    <3>. QED  BY <2>3, <3>1, <3>2 DEF OpenSound, Final
  <2>4. CASE pc' = "done" /\ trouble' = trouble + 1
    <3>1. LeftBehind' <= trouble'
      BY <1>3, <2>1, <2>2, <2>4, Owing
    <3>2. LeftBehind' <= trouble' + (IF pc' = "thrown" THEN 1 ELSE 0)
      BY <1>5, <2>2, <2>4, <3>1, Owing
    <3>. QED  BY <2>4, <3>2 DEF OpenSound, Final
  <2>. QED  BY <1>1, <2>3, <2>4
<1>. QED  BY <1>6, <1>7, <1>8, <1>10, <1>11 DEF CopyKept
-----------------------------------------------------------------------------
(* Copies: the requests                                                    *)

\* What HEAD answers decides how the source is copied, and is the size of a version.
LEMMA HeadSourceSound ==
  ASSUME IInv, HeadSource
  PROVE  CopyKept
<1>1. /\ pc = "head"
      /\ UNCHANGED <<trouble, kind, sizes, latest, gone, target, open, made, offset, tasks, etags>>
  BY DEF HeadSource, Reads, Attempt, sourceVars
<1>2. /\ kind \in Copies /\ kind = "copy across" /\ target = <<>> /\ ~gone /\ open = {}
      /\ size = 0 /\ trouble \in Nat /\ RequestSound
  BY <1>1, CopyPlace DEF IInv, TargetSound, OpenSound, PartsSound, RequestSound, CopyPlaces, AcrossPlaces
<1>3. \/ /\ EndsWell("head", AfterHead(sizes[latest])) /\ size' = sizes[latest]
      \/ EndsBadly("head", "done") /\ size' = size
  BY <1>2, GoodAnswer, BadAnswer DEF HeadSource, Reads
<1>4. /\ pc' \in {"head", "done", "put copy", "init", "too large"}
      /\ pc' \in {"put copy", "init", "too large"} => size' = sizes[latest]
      /\ pc' = "head" => size' = 0
      /\ pc' = "done" => ~result'.succ
  BY <1>2, <1>3, AnswersTyped DEF EndsWell, EndsBadly, AfterHead
<1>5. RequestSound'
  BY <1>1, <1>2, <1>3, AnsweredSound
<1>6. sizes[latest] \in Nat \ {0} /\ latest \in 1 .. latest /\ latest \in Nat
  BY CopyAssumption DEF IInv, CopyTyped, Versions
<1>7. CopyTyped' /\ SourceKept /\ size' \in Nat
  <2>1. size' \in {size, sizes[latest]}
    BY <1>3
  <2>2. size \in Nat /\ sizes[latest] \in Nat
    BY <1>6 DEF IInv, CopyTyped
  <2>3. size' \in Nat
    BY <2>1, <2>2
  <2>. QED  BY <1>1, <1>6, <2>3 DEF IInv, CopyTyped, SourceKept
<1>8. KindSound'
  BY <1>1, <1>2, <1>4 DEF KindSound, CopyPlaces, AcrossPlaces, PartPlaces, Final
<1>9. PartsSound'
  <2>1. Chained(etags \o tasks)' /\ (offset = EndOf(etags \o tasks))'
    BY <1>1 DEF IInv, PartsSound, Chained, EndOf, Last
  <2>2. offset \in Nat /\ offset <= 0
    BY <1>2 DEF IInv, PartsSound, CopyTyped
  <2>3. offset = 0 /\ \A n \in Nat : 0 <= n
    BY <2>2
  <2>4. offset' <= size'
    BY <1>1, <1>7, <2>3
  <2>5. pc' \in PartPlaces => \E v \in 1 .. latest' : size' = sizes'[v]
    BY <1>1, <1>4, <1>6 DEF PartPlaces
  <2>. QED  BY <1>1, <1>2, <1>4, <2>1, <2>4, <2>5 DEF IInv, PartsSound
<1>10. TargetSound'
  BY <1>1, <1>2, <1>4, <1>7, TargetKept
<1>11. OpenSound'
  BY <1>1, <1>2, <1>4, NothingLeft
<1>. QED  BY <1>5, <1>7, <1>8, <1>9, <1>10, <1>11 DEF CopyKept

\* Whatever the source then was is at the destination, in one piece.
LEMMA PutObjectCopySound ==
  ASSUME IInv, PutObjectCopy
  PROVE  CopyKept
<1>1. /\ pc = "put copy"
      /\ UNCHANGED <<kind, sizes, latest, gone, open, made, size, offset, tasks, etags>>
  BY DEF PutObjectCopy, Changes, Attempt, sourceVars, windowVars
<1>2. /\ kind \in Copies /\ ~gone /\ open = {} /\ trouble \in Nat /\ RequestSound
  BY <1>1, CopyPlace DEF IInv, TargetSound, OpenSound, RequestSound, CopyPlaces
<1>3. \/ /\ EndsWell("put copy", "etag") /\ trouble' = trouble
         /\ target' = <<Piece(0, sizes[latest] - 1)>>
      \/ EndsBadly("put copy", "done") /\ trouble' = trouble + 1
  BY <1>2, GoodAnswer, BadAnswer, AnswersTyped DEF PutObjectCopy, Changes
<1>4. /\ pc' \in {"put copy", "etag", "done"}
      /\ pc' = "etag" => result'.succ /\ trouble' = trouble /\ target' = <<Piece(0, sizes[latest] - 1)>>
      /\ pc' # "etag" => ~result'.succ /\ trouble' = trouble + 1
  BY <1>3, AnswersTyped DEF EndsWell, EndsBadly
<1>5. trouble' \in Nat
  BY <1>2, <1>3, Owing
<1>6. RequestSound'
  BY <1>2, <1>3, <1>5, AnsweredSound
<1>7. CopyTyped' /\ SourceKept
  BY <1>1, SourceSame
<1>8. KindSound'
  BY <1>1, <1>2, <1>4 DEF KindSound, CopyPlaces, Final
<1>9. PartsSound'
  BY <1>1, <1>4, <1>7, WindowKept DEF PartPlaces
<1>10. TargetSound'
  <2>1. pc' = "etag" => OnePiece(target)' /\ WholeTarget(target)'
    <3>1. latest \in 1 .. latest
      BY CopyAssumption DEF IInv, CopyTyped, Versions
    <3>2. OnePiece(<<Piece(0, sizes[latest] - 1)>>)
      BY <3>1 DEF OnePiece, Piece
    <3>3. WholeTarget(<<Piece(0, sizes[latest] - 1)>>)
      BY <3>2, OnePieceWhole DEF IInv
    <3>. QED  BY <1>1, <1>4, <3>2, <3>3 DEF OnePiece, WholeTarget, Chained, Last
  <2>. QED  BY <1>1, <1>2, <1>4, <2>1 DEF TargetSound, AcrossPlaces, PartPlaces
<1>11. OpenSound'
  <2>1. /\ Opened' = 0 /\ Opened' \in Nat /\ Placed' \in Nat /\ Placed' <= 1 /\ LeftBehind' \in Nat
        /\ LeftBehind' <= Opened' + Placed'
    BY <1>1, <1>2, <1>7, LeftLater DEF CopyTyped
  <2>2. Opened' <= trouble'
    BY <1>5, <2>1, Owing
  <2>3. pc' # "etag" => Placed' <= trouble' /\ LeftBehind' <= trouble'
    <3>1. \A o, p, l, t \in Nat : o = 0 /\ p <= 1 /\ l <= o + p => p <= t + 1 /\ l <= t + 1
      OBVIOUS
    <3>. QED  BY <1>2, <1>4, <2>1, <3>1
  <2>4. pc' # "etag" => LeftBehind' <= trouble' + (IF pc' = "thrown" THEN 1 ELSE 0)
    BY <1>4, <1>5, <2>1, <2>3, Owing
  <2>. QED  BY <1>1, <1>2, <1>4, <2>2, <2>3, <2>4 DEF OpenSound, Final
<1>. QED  BY <1>6, <1>7, <1>8, <1>9, <1>10, <1>11 DEF CopyKept

\* The source goes when its whole is at the destination.
LEMMA DeleteSourceSound ==
  ASSUME IInv, DeleteSource
  PROVE  CopyKept
<1>1. /\ pc = "delete source" /\ gone' \in BOOLEAN
      /\ UNCHANGED <<kind, sizes, latest, target, open, made, size, offset, tasks, etags>>
  BY DEF IInv, CopyTyped, DeleteSource, Changes, Attempt, sourceVars, windowVars
<1>2. /\ kind \in Copies /\ kind = "move" /\ WholeTarget(target) /\ OnePiece(target)
      /\ Opened <= trouble /\ trouble \in Nat /\ RequestSound
  BY <1>1, CopyPlace DEF IInv, TargetSound, OpenSound, RequestSound, CopyPlaces
<1>3. \/ EndsWell("delete source", "done") /\ trouble' = trouble
      \/ EndsBadly("delete source", "done") /\ trouble' = trouble + 1
  BY <1>2, GoodAnswer, BadAnswer, AnswersTyped DEF DeleteSource, Changes
<1>4. /\ pc' \in {"delete source", "done"}
      /\ \/ result'.succ /\ trouble' = trouble /\ pc' = "done"
         \/ ~result'.succ /\ trouble' = trouble + 1
  BY <1>3, AnswersTyped DEF EndsWell, EndsBadly
<1>5. trouble' \in Nat
  BY <1>2, <1>3, Owing
<1>6. RequestSound'
  BY <1>2, <1>3, <1>5, AnsweredSound
<1>7. CopyTyped' /\ SourceKept
  <2>1. latest \in Nat
    BY CopyAssumption DEF IInv, CopyTyped, Versions
  <2>2. SourceKept
    <3>1. sizes' = sizes /\ latest' = latest /\ latest \in Versions
      BY <1>1, Zenon DEF IInv, CopyTyped
    <3>. QED  BY <2>1, <3>1 DEF SourceKept
  <2>3. CopyTyped'
    BY <1>1, Zenon DEF IInv, CopyTyped
  <2>. QED  BY <2>2, <2>3
<1>8. KindSound'
  BY <1>1, <1>2, <1>4 DEF KindSound, CopyPlaces, Final
<1>9. PartsSound'
  BY <1>1, <1>4, <1>7, WindowKept DEF PartPlaces
<1>10. TargetSound'
  <2>1. OnePiece(target)' /\ WholeTarget(target)'
    BY <1>1, <1>2, <1>7, VersionsStay DEF IInv
  <2>. QED  BY <1>1, <1>2, <1>4, <2>1 DEF TargetSound, AcrossPlaces, PartPlaces
<1>11. OpenSound'
  <2>1. /\ Opened' \in Nat /\ Placed' \in Nat /\ Placed' <= 1 /\ LeftBehind' \in Nat
        /\ LeftBehind' <= Opened' + Placed'
        /\ result'.succ => LeftBehind' = Opened'
    BY <1>7, LeftLater DEF CopyTyped
  <2>2. Opened' <= trouble
    BY <1>1, <1>2, OpenKept
  <2>3. Opened' <= trouble' /\ LeftBehind' <= trouble'
    <3>1. CASE result'.succ /\ trouble' = trouble
      BY <2>1, <2>2, <3>1
    <3>2. CASE trouble' = trouble + 1
      BY <1>2, <2>1, <2>2, <3>2, Owing
    <3>. QED  BY <1>4, <3>1, <3>2
  <2>4. LeftBehind' <= trouble' + (IF pc' = "thrown" THEN 1 ELSE 0)
    BY <1>4, <1>5, <2>1, <2>3, Owing
  <2>. QED  BY <1>4, <2>3, <2>4 DEF OpenSound, Final
<1>. QED  BY <1>6, <1>7, <1>8, <1>9, <1>10, <1>11 DEF CopyKept

\* An upload begun is one more, if it is.
LEMMA OneMoreOpen ==
  ASSUME IsFiniteSet(open), open' = open \cup {made + 1} \/ open' = open
  PROVE  IsFiniteSet(open') /\ \A t \in Nat : Opened <= t => Opened' <= t + 1
<1>1. Cardinality(open) \in Nat
  BY FS_CardinalityType
<1>2. IsFiniteSet(open') /\ Cardinality(open') \in {Cardinality(open), Cardinality(open) + 1}
  BY FS_AddElement
<1>3. \A m, n, t \in Nat : n \in {m, m + 1} /\ m <= t => n <= t + 1
  OBVIOUS
<1>4. Cardinality(open') \in Nat
  BY <1>2, FS_CardinalityType
<1>. QED  BY <1>1, <1>2, <1>3, <1>4 DEF Opened

\* An upload completed or aborted is one less.
LEMMA OneLessOpen ==
  ASSUME IsFiniteSet(open), made \in open, open' = open \ {made}
  PROVE  IsFiniteSet(open') /\ Opened \in Nat /\ Opened = Opened' + 1
<1>1. Cardinality(open) \in Nat
  BY FS_CardinalityType
<1>2. IsFiniteSet(open') /\ Cardinality(open') = Cardinality(open) - 1
  BY FS_RemoveElement
<1>3. \A m \in Nat : m = (m - 1) + 1
  OBVIOUS
<1>. QED  BY <1>1, <1>2, <1>3 DEF Opened

\* An upload that was begun without a word of it stays open.
LEMMA InitMultiUploadSound ==
  ASSUME IInv, InitMultiUpload
  PROVE  CopyKept
<1>1. /\ pc = "init"
      /\ open' = open \cup {made + 1} \/ open' = open
      /\ made' \in {made, made + 1}
      /\ UNCHANGED <<kind, sizes, latest, gone, target, size, offset, tasks, etags>>
  BY DEF InitMultiUpload, Changes, Attempt, sourceVars, windowVars
<1>2. /\ kind \in Copies /\ kind = "copy across" /\ target = <<>> /\ ~gone
      /\ Opened <= trouble /\ trouble \in Nat /\ RequestSound
  BY <1>1, CopyPlace DEF IInv, TargetSound, OpenSound, RequestSound, CopyPlaces, AcrossPlaces, PartPlaces
<1>3. \/ EndsWell("init", "pool") /\ trouble' = trouble
      \/ EndsBadly("init", "done") /\ trouble' = trouble + 1
  BY <1>2, GoodAnswer, BadAnswer, AnswersTyped DEF InitMultiUpload, Changes
<1>4. /\ pc' \in {"init", "pool", "done"}
      /\ pc' = "pool" => trouble' = trouble
      /\ pc' # "pool" => ~result'.succ /\ trouble' = trouble + 1
  BY <1>3, AnswersTyped DEF EndsWell, EndsBadly
<1>5. trouble' \in Nat
  BY <1>2, <1>3, Owing
<1>6. RequestSound'
  BY <1>2, <1>3, <1>5, AnsweredSound
<1>7. CopyTyped' /\ SourceKept
  <2>1. latest \in Nat
    BY CopyAssumption DEF IInv, CopyTyped, Versions
  <2>2. IsFiniteSet(open')
    BY <1>1, OneMoreOpen DEF IInv, CopyTyped
  <2>3. made' \in Nat
    BY <1>1 DEF IInv, CopyTyped
  <2>. QED  BY <1>1, <2>1, <2>2, <2>3 DEF IInv, CopyTyped, SourceKept
<1>8. KindSound'
  BY <1>1, <1>2, <1>4 DEF KindSound, CopyPlaces, AcrossPlaces, PartPlaces, Final
<1>9. PartsSound'
  BY <1>1, <1>4, <1>7, WindowKept DEF PartPlaces
<1>10. TargetSound'
  BY <1>1, <1>2, <1>4, <1>7, TargetKept
<1>11. OpenSound'
  <2>1. IsFiniteSet(open') /\ target' = <<>>
    BY <1>1, <1>2, <1>7 DEF CopyTyped
  <2>2. /\ Opened' \in Nat /\ Placed' = 0 /\ Placed' \in Nat /\ LeftBehind' \in Nat
        /\ LeftBehind' <= Opened' + Placed'
    BY <2>1, LeftLater
  <2>3. Opened' <= trouble + 1
    BY <1>1, <1>2, OneMoreOpen DEF IInv, CopyTyped
  <2>4. pc' # "pool" => Opened' <= trouble' /\ LeftBehind' <= trouble'
    <3>1. SUFFICES ASSUME pc' # "pool" PROVE Opened' <= trouble' /\ LeftBehind' <= trouble'
      OBVIOUS
    <3>2. Opened' <= trouble'
      BY <1>4, <2>3, <3>1
    <3>. QED  BY <1>5, <2>2, <3>2, Owing
  <2>5. pc' # "pool" => LeftBehind' <= trouble' + (IF pc' = "thrown" THEN 1 ELSE 0)
    BY <1>4, <1>5, <2>2, <2>4, Owing
  <2>6. pc' = "pool" => Opened' <= trouble' + 1
    BY <1>4, <2>3
  <2>. QED  BY <1>4, <2>4, <2>5, <2>6 DEF OpenSound, Final
<1>. QED  BY <1>6, <1>7, <1>8, <1>9, <1>10, <1>11 DEF CopyKept

\* The upload in use is given up, or is one more left and paid for.
LEMMA AbortMultiUploadSound ==
  ASSUME IInv, AbortMultiUpload
  PROVE  CopyKept
<1>1. /\ pc = "abort"
      /\ (made \in open /\ open' = open \ {made}) \/ open' = open
      /\ UNCHANGED <<kind, sizes, latest, gone, target, made, size, offset, tasks, etags>>
  BY DEF AbortMultiUpload, Changes, Attempt, sourceVars, windowVars
<1>2. /\ kind \in Copies /\ kind = "copy across" /\ target = <<>> /\ ~gone
      /\ Opened <= trouble + 1 /\ trouble \in Nat /\ RequestSound /\ IsFiniteSet(open)
  BY <1>1, CopyPlace DEF IInv, TargetSound, OpenSound, RequestSound, CopyPlaces, AcrossPlaces,
     PartPlaces, CopyTyped
<1>3. \/ /\ EndsWell("abort", "report") /\ trouble' = trouble
         /\ made \in open /\ open' = open \ {made}
      \/ EndsBadly("abort", "done") /\ trouble' = trouble + 1
  BY <1>2, GoodAnswer, BadAnswer, AnswersTyped DEF AbortMultiUpload, Changes
<1>4. /\ pc' \in {"abort", "report", "done"}
      /\ pc' = "report" => trouble' = trouble /\ made \in open /\ open' = open \ {made}
      /\ pc' # "report" => ~result'.succ /\ trouble' = trouble + 1
  BY <1>3, AnswersTyped DEF EndsWell, EndsBadly
<1>5. trouble' \in Nat
  BY <1>2, <1>3, Owing
<1>6. RequestSound'
  BY <1>2, <1>3, <1>5, AnsweredSound
<1>7. CopyTyped' /\ SourceKept
  <2>1. latest \in Nat
    BY CopyAssumption DEF IInv, CopyTyped, Versions
  <2>2. IsFiniteSet(open')
    BY <1>1, <1>2, OneLessOpen
  <2>. QED  BY <1>1, <2>1, <2>2 DEF IInv, CopyTyped, SourceKept
<1>8. KindSound'
  BY <1>1, <1>2, <1>4 DEF KindSound, CopyPlaces, AcrossPlaces, PartPlaces, Final
<1>9. PartsSound'
  BY <1>1, <1>4, <1>7, WindowKept DEF PartPlaces
<1>10. TargetSound'
  BY <1>1, <1>2, <1>4, <1>7, TargetKept
<1>11. OpenSound'
  <2>1. IsFiniteSet(open') /\ target' = <<>>
    BY <1>1, <1>2, <1>7 DEF CopyTyped
  <2>2. /\ Opened' \in Nat /\ Placed' = 0 /\ Placed' \in Nat /\ LeftBehind' \in Nat
        /\ LeftBehind' <= Opened' + Placed'
    BY <2>1, LeftLater
  <2>3. \A m, n, t \in Nat : n = m + 1 /\ n <= t + 1 => m <= t /\ m <= t + 1
    OBVIOUS
  <2>4. (made \in open /\ open' = open \ {made}) => Opened' <= trouble /\ Opened' <= trouble + 1
    BY <1>2, <2>2, <2>3, OneLessOpen
  <2>5. Opened' <= trouble + 1
    BY <1>1, <1>2, <2>4 DEF Opened
  <2>6. pc' # "report" => Opened' <= trouble' /\ Opened' <= trouble' + 1 /\ LeftBehind' <= trouble'
    <3>1. SUFFICES ASSUME pc' # "report"
                   PROVE  Opened' <= trouble' /\ Opened' <= trouble' + 1 /\ LeftBehind' <= trouble'
      OBVIOUS
    <3>2. Opened' <= trouble'
      BY <1>4, <2>5, <3>1
    <3>. QED  BY <1>5, <2>2, <3>2, Owing
  <2>7. pc' # "report" => LeftBehind' <= trouble' + (IF pc' = "thrown" THEN 1 ELSE 0)
    BY <1>4, <1>5, <2>2, <2>6, Owing
  <2>8. pc' = "report" => Opened' <= trouble'
    BY <1>4, <2>4
  <2>. QED  BY <1>4, <2>6, <2>7, <2>8 DEF OpenSound, Final
<1>. QED  BY <1>6, <1>7, <1>8, <1>9, <1>10, <1>11 DEF CopyKept

\* The parts that are listed, to the end of the chain, are the whole of the version
\* that HEAD saw.
LEMMA PartsAreWhole ==
  ASSUME IInv, pc = "complete"
  PROVE  WholeTarget(etags)
<1>1. /\ etags \in Seq(Pieces) /\ tasks = <<>> /\ Chained(etags \o tasks) /\ offset = EndOf(etags \o tasks)
      /\ offset = size
  BY DEF IInv, CopyTyped, PartsSound
<1>2. PICK v \in 1 .. latest : size = sizes[v]
  BY DEF IInv, PartsSound, PartPlaces
<1>3. sizes[v] \in Nat \ {0}
  BY <1>2, CopyAssumption DEF IInv, CopyTyped, Versions
<1>4. etags \o tasks = etags
  BY <1>1, ConcatEmptySeq
<1>5. etags # <<>> /\ Last(etags).hi + 1 = sizes[v]
  BY <1>1, <1>2, <1>3, <1>4 DEF EndOf
<1>6. Last(etags) \in Pieces
  BY <1>1, <1>5, EmptySeq, ElementOfSeq DEF Last
<1>7. Last(etags).hi \in Nat
  BY <1>6 DEF Pieces
<1>8. \A h, n \in Nat : h + 1 = n => h = n - 1
  OBVIOUS
<1>9. Last(etags).hi = sizes[v] - 1
  BY <1>3, <1>5, <1>7, <1>8
<1>. QED  BY <1>1, <1>2, <1>4, <1>5, <1>9 DEF WholeTarget

\* The upload in use becomes the destination, whether or not that is heard of.
LEMMA CompleteMultiUploadSound ==
  ASSUME IInv, CompleteMultiUpload
  PROVE  CopyKept
<1>1. /\ pc = "complete"
      /\ \/ made \in open /\ open' = open \ {made} /\ target' = etags
         \/ open' = open /\ target' = target
      /\ UNCHANGED <<kind, sizes, latest, gone, made, size, offset, tasks, etags>>
  BY DEF CompleteMultiUpload, Changes, Attempt, sourceVars, windowVars
<1>2. /\ kind \in Copies /\ kind = "copy across" /\ ~gone
      /\ Opened + Placed <= trouble + 1 /\ trouble \in Nat /\ RequestSound /\ IsFiniteSet(open)
  BY <1>1, CopyPlace DEF IInv, TargetSound, OpenSound, RequestSound, CopyPlaces, AcrossPlaces,
     PartPlaces, CopyTyped
<1>3. \/ /\ EndsWell("complete", "etag") /\ trouble' = trouble
         /\ made \in open /\ open' = open \ {made} /\ target' = etags
      \/ EndsBadly("complete", "done") /\ trouble' = trouble + 1
  BY <1>2, GoodAnswer, BadAnswer, AnswersTyped DEF CompleteMultiUpload, Changes
<1>4. /\ pc' \in {"complete", "etag", "done"}
      /\ pc' = "etag" => /\ result'.succ /\ trouble' = trouble
                         /\ made \in open /\ open' = open \ {made} /\ target' = etags
      /\ pc' # "etag" => ~result'.succ /\ trouble' = trouble + 1
  BY <1>3, AnswersTyped DEF EndsWell, EndsBadly
<1>5. trouble' \in Nat
  BY <1>2, <1>3, Owing
<1>6. RequestSound'
  BY <1>2, <1>3, <1>5, AnsweredSound
<1>7. CopyTyped' /\ SourceKept
  <2>1. latest \in Nat
    BY CopyAssumption DEF IInv, CopyTyped, Versions
  <2>2. IsFiniteSet(open')
    BY <1>1, <1>2, OneLessOpen
  <2>. QED  BY <1>1, <2>1, <2>2 DEF IInv, CopyTyped, SourceKept
<1>8. KindSound'
  BY <1>1, <1>2, <1>4 DEF KindSound, CopyPlaces, AcrossPlaces, PartPlaces, Final
<1>9. PartsSound'
  BY <1>1, <1>4, <1>7, WindowKept DEF PartPlaces
<1>10. TargetSound'
  <2>1. WholeTarget(etags)
    BY <1>1, PartsAreWhole
  <2>2. pc' = "etag" => WholeTarget(target)'
    BY <1>1, <1>4, <2>1 DEF WholeTarget, Chained, Last
  <2>. QED  BY <1>1, <1>2, <1>4, <2>2 DEF TargetSound, AcrossPlaces, PartPlaces
<1>11. OpenSound'
  <2>1. /\ Opened' \in Nat /\ Placed' \in Nat /\ Placed' <= 1 /\ LeftBehind' \in Nat
        /\ LeftBehind' <= Opened' + Placed'
    BY <1>7, LeftLater DEF CopyTyped
  <2>2. Placed \in Nat
    BY DEF Placed
  <2>3. (made \in open /\ open' = open \ {made}) =>
          Opened' <= trouble /\ Opened' + Placed' <= trouble + 1
    <3>1. \A m, n, p, q, t \in Nat :
            n = m + 1 /\ n + p <= t + 1 /\ q <= 1 => m <= t /\ m + q <= t + 1
      OBVIOUS
    <3>. QED  BY <1>2, <2>1, <2>2, <3>1, OneLessOpen
  <2>4. Opened' + Placed' <= trouble + 1
    <3>1. CASE open' = open /\ target' = target
      BY <1>2, <3>1, OpenKept
    <3>. QED  BY <1>1, <2>3, <3>1
  <2>5. pc' # "etag" => Opened' + Placed' <= trouble'
    BY <1>4, <2>4
  <2>6. pc' # "etag" => Opened' + Placed' <= trouble' + 1 /\ LeftBehind' <= trouble'
    <3>1. \A o, q, l, t \in Nat : o + q <= t /\ l <= o + q => o + q <= t + 1 /\ l <= t
      OBVIOUS
    <3>. QED  BY <1>5, <2>1, <2>5, <3>1
  <2>7. pc' # "etag" => LeftBehind' <= trouble' + (IF pc' = "thrown" THEN 1 ELSE 0)
    BY <1>4, <1>5, <2>1, <2>6, Owing
  <2>8. pc' = "etag" => Opened' <= trouble'
    BY <1>4, <2>3
  <2>. QED  BY <1>4, <2>6, <2>7, <2>8 DEF OpenSound, Final
<1>. QED  BY <1>6, <1>7, <1>8, <1>9, <1>10, <1>11 DEF CopyKept

-----------------------------------------------------------------------------
(* Copies: the parts                                                       *)

\* While the parts are copied nothing else is done.
LEMMA FillKept ==
  ASSUME IInv, pc = "fill", pc' \in {"fill", "abort", "complete"},
         UNCHANGED <<attempt, result, trouble, kind, sizes, latest, gone, target, open, made, size>>
  PROVE  /\ RequestSound' /\ KindSound' /\ TargetSound' /\ OpenSound' /\ SourceKept
         /\ (sizes \in [Versions -> Nat \ {0}] /\ latest \in Versions /\ gone \in BOOLEAN)'
         /\ IsFiniteSet(open') /\ made' \in Nat /\ size' \in Nat
<1>1. /\ kind \in Copies /\ kind = "copy across" /\ target = <<>> /\ ~gone
      /\ Opened <= trouble + 1 /\ trouble \in Nat
  BY CopyPlace DEF IInv, TargetSound, OpenSound, RequestSound, CopyPlaces, AcrossPlaces, PartPlaces
<1>2. RequestSound' /\ KindSound'
  BY <1>1 DEF IInv, RequestSound, KindSound, CopyPlaces, AcrossPlaces, PartPlaces, Final
<1>3. latest \in Nat /\ CopyTyped
  BY CopyAssumption DEF IInv, CopyTyped, Versions
<1>4. SourceKept
  BY <1>3 DEF CopyTyped, SourceKept
<1>5. /\ (sizes \in [Versions -> Nat \ {0}] /\ latest \in Versions /\ gone \in BOOLEAN)'
      /\ IsFiniteSet(open') /\ made' \in Nat /\ size' \in Nat
  BY <1>3 DEF CopyTyped
<1>6. TargetSound'
  BY <1>1 DEF TargetSound, AcrossPlaces, PartPlaces
<1>7. OpenSound'
  <2>1. Opened' <= trouble' + 1
    BY <1>1, OpenKept
  <2>2. target' = <<>>
    BY <1>1
  <2>3. /\ Placed' = 0 /\ Opened' \in Nat
    BY <1>5, <2>2, LeftLater
  <2>4. Opened' + Placed' = Opened'
    <3>1. \A o \in Nat, p \in {0} : o + p = o
      OBVIOUS
    <3>. QED  BY <2>3, <3>1
  <2>. QED  BY <2>1, <2>4 DEF OpenSound, Final
<1>. QED  BY <1>2, <1>4, <1>5, <1>6, <1>7

\* A part is cut where the last one ended, and not beyond the size.
LEMMA StartTaskSound ==
  ASSUME IInv, StartTask
  PROVE  CopyKept
<1>. DEFINE e == [lo |-> offset, hi |-> RangeEnd(offset), state |-> "runs",
                  tries |-> 0, etag |-> NoPiece]
<1>1. /\ pc = "fill" /\ pc' = "fill" /\ offset < size
      /\ tasks' = Append(tasks, e) /\ offset' = RangeEnd(offset) + 1
      /\ UNCHANGED <<attempt, result, trouble, kind, sizes, latest, gone, target, open, made,
                     size, etags>>
  BY DEF StartTask, FillGoesOn, requestVars, sourceVars
<1>2. RangeEnd(offset) \in Nat /\ RangeEnd(offset) + 1 <= size /\ RangeEnd(offset) + 1 \in Nat
  <2>1. \A o, p, n \in Nat : o < n =>
          LET h == IF o + p >= n THEN n - 1 ELSE o + p IN h \in Nat /\ h + 1 <= n /\ h + 1 \in Nat
    OBVIOUS
  <2>2. offset \in Nat /\ PartSize \in Nat /\ size \in Nat
    BY CopyAssumption DEF IInv, CopyTyped
  <2>. QED  BY <1>1, <2>1, <2>2 DEF RangeEnd
<1>3. e \in Tasks
  BY <1>2 DEF Tasks, Pieces, NoPiece, IInv, CopyTyped
<1>4. e \in Cuts /\ e.lo = offset /\ e.hi = RangeEnd(offset) /\ e.state = "runs"
  BY <1>3 DEF Cuts
<1>. HIDE DEF e
<1>5. /\ RequestSound' /\ KindSound' /\ TargetSound' /\ OpenSound' /\ SourceKept
      /\ (sizes \in [Versions -> Nat \ {0}] /\ latest \in Versions /\ gone \in BOOLEAN)'
      /\ IsFiniteSet(open') /\ made' \in Nat /\ size' \in Nat
  BY <1>1, FillKept
<1>6. tasks \in Seq(Tasks) /\ etags \in Seq(Pieces)
  BY DEF IInv, CopyTyped
<1>7. tasks' \in Seq(Tasks) /\ Len(tasks') = Len(tasks) + 1 /\ tasks'[Len(tasks) + 1] = e
      /\ \A k \in 1 .. Len(tasks) : tasks'[k] = tasks[k]
  BY <1>1, <1>3, <1>6, AppendProperties
<1>8. CopyTyped'
  <2>1. etags' \in Seq(Pieces) /\ offset' \in Nat
    BY <1>1, <1>2, <1>6
  <2>. QED  BY <1>5, <1>7, <2>1 DEF CopyTyped
<1>9. (Chained(etags \o tasks) /\ offset = EndOf(etags \o tasks) /\ offset <= size)'
  <2>1. etags \o tasks \in Seq(Cuts) /\ etags \in Seq(Cuts) /\ tasks \in Seq(Cuts)
    BY CutsTyped DEF IInv
  <2>2. (etags \o tasks)' = Append(etags \o tasks, e)
    <3>1. Append(tasks, e) = tasks \o <<e>> /\ <<e>> \in Seq(Cuts)
      BY <1>4, <2>1
    <3>2. Append(etags \o tasks, e) = (etags \o tasks) \o <<e>>
      BY <1>4, <2>1
    <3>. QED  BY <1>1, <2>1, <3>1, <3>2, ConcatAssociative
  <2>3. Chained(etags \o tasks) /\ e.lo = EndOf(etags \o tasks)
    BY <1>4 DEF IInv, PartsSound
  <2>4. /\ Chained(Append(etags \o tasks, e))
        /\ EndOf(Append(etags \o tasks, e)) = RangeEnd(offset) + 1
    <3>. DEFINE cuts == etags \o tasks
    <3>1. cuts \in Seq(Cuts) /\ Chained(cuts) /\ e.lo = EndOf(cuts)
      BY <2>1, <2>3
    <3>. HIDE DEF cuts
    <3>2. Chained(Append(cuts, e)) /\ EndOf(Append(cuts, e)) = e.hi + 1
      BY <1>4, <3>1, OneMoreCut
    <3>. QED  BY <1>4, <3>2 DEF cuts
  <2>. QED  BY <1>1, <1>2, <2>2, <2>4 DEF Chained, EndOf, Last
<1>10. PartsSound'
  <2>1. ASSUME NEW k \in DOMAIN tasks', tasks'[k].state = "copied"
        PROVE  tasks'[k].etag.lo = tasks'[k].lo /\ tasks'[k].etag.hi = tasks'[k].hi
    <3>1. Len(tasks) \in Nat /\ DOMAIN tasks' = 1 .. Len(tasks) + 1 /\ DOMAIN tasks = 1 .. Len(tasks)
      BY <1>6, <1>7, LenProperties
    <3>2. k \in 1 .. Len(tasks)
      BY <1>4, <1>7, <2>1, <3>1
    <3>. QED  BY <1>7, <2>1, <3>1, <3>2 DEF IInv, PartsSound
  <2>2. \E v \in 1 .. latest' : size' = sizes'[v]
    BY <1>1 DEF IInv, PartsSound, PartPlaces
  <2>3. kind' \in Copies
    BY <1>1, CopyPlace DEF CopyPlaces, AcrossPlaces, PartPlaces
  <2>. QED  BY <1>1, <1>9, <2>1, <2>2, <2>3 DEF PartsSound
<1>. QED  BY <1>5, <1>8, <1>10 DEF CopyKept

\* An answer changes what a task is at, never its range.
LEMMA TaskAnsweredSound ==
  ASSUME IInv, NEW k \in DOMAIN tasks, tasks[k].state = "runs",
         NEW r \in {Good} \cup Failures, TaskAnswered(k, r)
  PROVE  /\ tasks' \in Seq(Tasks) /\ Len(tasks') = Len(tasks)
         /\ \A j \in DOMAIN tasks : tasks'[j].lo = tasks[j].lo /\ tasks'[j].hi = tasks[j].hi
         /\ \A j \in DOMAIN tasks : tasks'[j].state = "copied" =>
              tasks'[j].etag.lo = tasks[j].lo /\ tasks'[j].etag.hi = tasks[j].hi
<1>. DEFINE state == IF r.succ THEN "copied"
                     ELSE IF GivesUp(r, tasks[k].tries) THEN "failed" ELSE "runs"
            etag == IF r.succ THEN Piece(tasks[k].lo, tasks[k].hi) ELSE tasks[k].etag
            ended == [tasks[k] EXCEPT !.state = state]
            tried == [ended EXCEPT !.tries = tasks[k].tries + 1]
            task == [tried EXCEPT !.etag = etag]
<1>1. tasks \in Seq(Tasks) /\ k \in 1 .. Len(tasks) /\ DOMAIN tasks = 1 .. Len(tasks)
  BY LenProperties DEF IInv, CopyTyped
<1>2. tasks[k] \in Tasks
  BY <1>1, ElementOfSeq
<1>3. tasks[k].lo \in Nat /\ tasks[k].hi \in Nat /\ tasks[k].tries + 1 \in Nat /\ tasks[k].etag \in Pieces
  BY <1>2 DEF Tasks
<1>4. tasks' = [tasks EXCEPT ![k] = task]
  BY <1>1 DEF TaskAnswered
<1>5. latest \in Nat
  BY CopyAssumption DEF IInv, CopyTyped, Versions
<1>6. etag \in Pieces
  BY <1>3, <1>5 DEF Piece, Pieces
<1>7. state \in {"runs", "copied", "failed"} /\ (state = "copied" => r.succ)
  OBVIOUS
<1>8. state = "copied" => etag.lo = tasks[k].lo /\ etag.hi = tasks[k].hi
  BY <1>7 DEF Piece
<1>. HIDE DEF state, etag
<1>9. ended \in Tasks /\ ended.lo = tasks[k].lo /\ ended.hi = tasks[k].hi /\ ended.state = state
  BY <1>2, <1>7 DEF Tasks
<1>. HIDE DEF ended
<1>10. tried \in Tasks /\ tried.lo = tasks[k].lo /\ tried.hi = tasks[k].hi /\ tried.state = state
  BY <1>3, <1>9 DEF Tasks
<1>. HIDE DEF tried
<1>11. /\ task \in Tasks /\ task.lo = tasks[k].lo /\ task.hi = tasks[k].hi
       /\ task.state = state /\ task.etag = etag
  BY <1>6, <1>10 DEF Tasks
<1>. HIDE DEF task
<1>12. /\ tasks' \in Seq(Tasks) /\ Len(tasks') = Len(tasks)
       /\ \A j \in 1 .. Len(tasks) : tasks'[j] = IF j = k THEN task ELSE tasks[j]
  BY <1>1, <1>4, <1>11, ExceptSeq
<1>13. \A j \in DOMAIN tasks : tasks[j].state = "copied" =>
         tasks[j].etag.lo = tasks[j].lo /\ tasks[j].etag.hi = tasks[j].hi
  BY DEF IInv, PartsSound
<1>. QED  BY <1>1, <1>8, <1>11, <1>12, <1>13

\* A part is copied, fails, or is tried again; the ranges stay.
LEMMA CopyTaskSound ==
  ASSUME IInv, CopyTask
  PROVE  CopyKept
<1>1. PICK k \in DOMAIN tasks : TaskAttempt(k)
  BY DEF CopyTask
<1>2. /\ tasks[k].state = "runs" /\ \E r \in {Good} \cup Failures : TaskAnswered(k, r)
      /\ UNCHANGED <<pc, attempt, result, trouble, kind, sizes, latest, gone, target, open, made,
                     size, offset, etags>>
  BY <1>1, AnswersTyped DEF TaskAttempt, requestVars, sourceVars
<1>3. /\ tasks' \in Seq(Tasks) /\ Len(tasks') = Len(tasks)
      /\ \A j \in DOMAIN tasks : tasks'[j].lo = tasks[j].lo /\ tasks'[j].hi = tasks[j].hi
      /\ \A j \in DOMAIN tasks : tasks'[j].state = "copied" =>
           tasks'[j].etag.lo = tasks[j].lo /\ tasks'[j].etag.hi = tasks[j].hi
  BY <1>2, TaskAnsweredSound
<1>4. pc = "fill" /\ pc' = "fill"
  BY <1>2 DEF IInv, PartsSound
<1>5. /\ RequestSound' /\ KindSound' /\ TargetSound' /\ OpenSound' /\ SourceKept
      /\ (sizes \in [Versions -> Nat \ {0}] /\ latest \in Versions /\ gone \in BOOLEAN)'
      /\ IsFiniteSet(open') /\ made' \in Nat /\ size' \in Nat
  BY <1>2, <1>4, FillKept
<1>6. tasks \in Seq(Tasks) /\ etags \in Seq(Pieces) /\ offset \in Nat
  BY DEF IInv, CopyTyped
<1>7. CopyTyped'
  BY <1>2, <1>3, <1>5, <1>6 DEF CopyTyped
<1>8. DOMAIN tasks' = DOMAIN tasks /\ DOMAIN tasks = 1 .. Len(tasks)
  BY <1>3, <1>6, LenProperties
<1>9. (Chained(etags \o tasks) /\ offset = EndOf(etags \o tasks) /\ offset <= size)'
  <2>1. etags \in Seq(Cuts) /\ tasks \in Seq(Cuts) /\ tasks' \in Seq(Cuts)
    BY <1>3, CutsTyped DEF IInv, Cuts
  <2>. DEFINE m == Len(etags)
              n == Len(tasks)
              cuts == etags \o tasks
              cutsThen == etags \o tasks'
  <2>2. /\ cuts \in Seq(Cuts) /\ Len(cuts) = m + n
        /\ \A j \in 1 .. m + n : cuts[j] = IF j <= m THEN etags[j] ELSE tasks[j - m]
    BY <2>1, ConcatProperties
  <2>3. /\ cutsThen \in Seq(Cuts) /\ Len(cutsThen) = m + n
        /\ \A j \in 1 .. m + n : cutsThen[j] = IF j <= m THEN etags[j] ELSE tasks'[j - m]
    <3>1. /\ cutsThen \in Seq(Cuts) /\ Len(cutsThen) = m + Len(tasks')
          /\ \A j \in 1 .. m + Len(tasks') : cutsThen[j] = IF j <= m THEN etags[j] ELSE tasks'[j - m]
      BY <2>1, ConcatProperties
    <3>2. Len(tasks') = n
      BY <1>3
    <3>. HIDE DEF m, n, cutsThen
    <3>. QED  BY <3>1, <3>2
  <2>4. m \in Nat /\ n \in Nat /\ \A j \in 1 .. n : tasks'[j].lo = tasks[j].lo /\ tasks'[j].hi = tasks[j].hi
    BY <1>3, <1>6, <1>8, LenProperties
  <2>5. Chained(cuts) /\ offset = EndOf(cuts) /\ offset <= size
    BY DEF IInv, PartsSound
  <2>6. cutsThen = (etags \o tasks)'
    BY <1>2
  <2>. HIDE DEF m, n, cuts, cutsThen
  <2>7. ASSUME NEW j \in 1 .. m + n
        PROVE  cuts[j].lo = cutsThen[j].lo /\ cuts[j].hi = cutsThen[j].hi
    <3>1. CASE j <= m
      BY <2>2, <2>3, <3>1
    <3>2. CASE ~(j <= m)
      <4>1. j - m \in 1 .. n
        BY <2>4, <3>2
      <4>. QED  BY <2>2, <2>3, <2>4, <3>2, <4>1
    <3>. QED  BY <3>1, <3>2
  <2>8. Chained(cutsThen) /\ EndOf(cutsThen) = EndOf(cuts)
    BY <2>2, <2>3, <2>5, <2>7, SameCuts
  <2>. QED  BY <1>2, <2>5, <2>6, <2>8 DEF Chained, EndOf, Last
<1>10. PartsSound'
  <2>1. \E v \in 1 .. latest' : size' = sizes'[v]
    BY <1>2, <1>4 DEF IInv, PartsSound, PartPlaces
  <2>2. kind' \in Copies
    BY <1>2, <1>4, CopyPlace DEF CopyPlaces, AcrossPlaces, PartPlaces
  <2>. QED  BY <1>3, <1>4, <1>8, <1>9, <2>1, <2>2 DEF PartsSound
<1>. QED  BY <1>5, <1>7, <1>10 DEF CopyKept

\* The etags of a batch take the place of its tasks.
LEMMA CollectSound ==
  ASSUME IInv, Collect
  PROVE  CopyKept
<1>1. /\ pc = "fill" /\ ~FillGoesOn /\ \A k \in DOMAIN tasks : tasks[k].state # "runs"
      /\ UNCHANGED <<attempt, result, trouble, kind, sizes, latest, gone, target, open, made,
                     size, offset>>
      /\ \/ pc' = "abort" /\ UNCHANGED <<tasks, etags>>
         \/ /\ Failed = {} /\ etags' = etags \o [k \in DOMAIN tasks |-> tasks[k].etag] /\ tasks' = <<>>
            /\ pc' = IF offset < size THEN "fill" ELSE "complete"
  BY DEF Collect, sourceVars
<1>2. pc' \in {"fill", "abort", "complete"}
  BY <1>1
<1>3. /\ RequestSound' /\ KindSound' /\ TargetSound' /\ OpenSound' /\ SourceKept
      /\ (sizes \in [Versions -> Nat \ {0}] /\ latest \in Versions /\ gone \in BOOLEAN)'
      /\ IsFiniteSet(open') /\ made' \in Nat /\ size' \in Nat
  BY <1>1, <1>2, FillKept
<1>4. /\ tasks \in Seq(Tasks) /\ etags \in Seq(Pieces) /\ offset \in Nat /\ size \in Nat
      /\ DOMAIN tasks = 1 .. Len(tasks) /\ Len(tasks) \in Nat /\ Len(etags) \in Nat
  BY LenProperties DEF IInv, CopyTyped
<1>5. (\E v \in 1 .. latest' : size' = sizes'[v]) /\ kind' \in Copies
  BY <1>1, CopyPlace DEF IInv, PartsSound, CopyPlaces, AcrossPlaces, PartPlaces
<1>6. Chained(etags \o tasks) /\ offset = EndOf(etags \o tasks) /\ offset <= size
  BY DEF IInv, PartsSound
<1>7. CASE pc' = "abort" /\ UNCHANGED <<tasks, etags>>
  <2>1. CopyTyped'
    BY <1>1, <1>3, <1>4, <1>7 DEF CopyTyped
  <2>2. (Chained(etags \o tasks) /\ offset = EndOf(etags \o tasks) /\ offset <= size)'
    BY <1>1, <1>6, <1>7 DEF Chained, EndOf, Last
  <2>3. PartsSound'
    BY <1>1, <1>5, <1>7, <2>2 DEF IInv, PartsSound
  <2>. QED  BY <1>3, <2>1, <2>3 DEF CopyKept
<1>8. CASE /\ Failed = {} /\ etags' = etags \o [k \in DOMAIN tasks |-> tasks[k].etag] /\ tasks' = <<>>
           /\ pc' = IF offset < size THEN "fill" ELSE "complete"
  <2>. DEFINE batch == [k \in DOMAIN tasks |-> tasks[k].etag]
              m == Len(etags)
              n == Len(tasks)
              cuts == etags \o tasks
              list == etags \o batch
  <2>1. \A k \in 1 .. n : tasks[k] \in Tasks /\ tasks[k].state = "copied" /\ tasks[k].etag \in Pieces
    <3>1. \A k \in 1 .. n : tasks[k] \in Tasks
      BY <1>4, ElementOfSeq
    <3>2. \A k \in 1 .. n : tasks[k].state \in {"runs", "copied", "failed"} /\ tasks[k].etag \in Pieces
      BY <3>1 DEF Tasks
    <3>. QED  BY <1>1, <1>4, <1>8, <3>1, <3>2 DEF Failed
  <2>2. batch \in Seq(Pieces) /\ Len(batch) = n /\ \A k \in 1 .. n : batch[k] = tasks[k].etag
    BY <1>4, <2>1
  <2>3. etags \in Seq(Cuts) /\ batch \in Seq(Cuts)
    BY <1>4, <2>2 DEF Cuts
  <2>. HIDE DEF batch
  <2>4. /\ list \in Seq(Cuts) /\ Len(list) = m + n
        /\ \A j \in 1 .. m + n : list[j] = IF j <= m THEN etags[j] ELSE batch[j - m]
    <3>1. /\ list \in Seq(Cuts) /\ Len(list) = m + Len(batch)
          /\ \A j \in 1 .. m + Len(batch) : list[j] = IF j <= m THEN etags[j] ELSE batch[j - m]
      BY <2>3, ConcatProperties
    <3>2. Len(batch) = n
      BY <2>2
    <3>. HIDE DEF m, n, list
    <3>. QED  BY <3>1, <3>2
  <2>5. /\ cuts \in Seq(Cuts) /\ Len(cuts) = m + n
        /\ \A j \in 1 .. m + n : cuts[j] = IF j <= m THEN etags[j] ELSE tasks[j - m]
    BY CutsTyped DEF IInv
  <2>6. etags' = list /\ etags' \o tasks' = list /\ list \in Seq(Pieces)
    <3>1. etags' = list
      BY <1>8 DEF batch
    <3>2. list \in Seq(Pieces)
      BY <1>4, <2>2, ConcatProperties
    <3>. QED  BY <1>8, <3>1, <3>2, ConcatEmptySeq
  <2>7. \A k \in 1 .. n : batch[k].lo = tasks[k].lo /\ batch[k].hi = tasks[k].hi
    BY <1>4, <2>1, <2>2 DEF IInv, PartsSound
  <2>. HIDE DEF m, n, cuts, list
  <2>8. m \in Nat /\ n \in Nat /\ Chained(cuts)
    BY <1>4, <1>6 DEF m, n, cuts
  <2>9. ASSUME NEW j \in 1 .. m + n
        PROVE  cuts[j].lo = list[j].lo /\ cuts[j].hi = list[j].hi
    <3>1. CASE j <= m
      BY <2>4, <2>5, <3>1
    <3>2. CASE ~(j <= m)
      <4>1. j - m \in 1 .. n
        BY <2>8, <3>2
      <4>. QED  BY <2>4, <2>5, <2>7, <3>2, <4>1
    <3>. QED  BY <3>1, <3>2
  <2>10. Chained(list) /\ EndOf(list) = EndOf(cuts)
    BY <2>4, <2>5, <2>8, <2>9, SameCuts
  <2>11. CopyTyped'
    <3>1. tasks' \in Seq(Tasks) /\ etags' \in Seq(Pieces) /\ offset' \in Nat
      BY <1>1, <1>4, <1>8, <2>6
    <3>. QED  BY <1>3, <3>1 DEF CopyTyped
  <2>12. (Chained(etags \o tasks) /\ offset = EndOf(etags \o tasks) /\ offset <= size)'
    <3>1. offset = EndOf(list) /\ offset' = offset /\ size' = size
      BY <1>1, <1>6, <2>10 DEF cuts
    <3>. QED  BY <1>6, <2>6, <2>10, <3>1 DEF Chained, EndOf, Last
  <2>13. pc' \in {"fill", "complete"} /\ (pc' = "complete" => offset' = size')
    BY <1>1, <1>4, <1>6, <1>8
  <2>14. tasks' = <<>> /\ DOMAIN tasks' = {}
    BY <1>8
  <2>15. PartsSound'
    BY <1>5, <2>12, <2>13, <2>14 DEF PartsSound
  <2>. QED  BY <1>3, <2>11, <2>15 DEF CopyKept
<1>. QED  BY <1>1, <1>7, <1>8

\* Another client replaces the source while the call goes on.
LEMMA OverwriteSound ==
  ASSUME IInv, kind \in Copies, Overwrite
  PROVE  CopyKept
<1>1. /\ pc \notin Final /\ ~gone /\ latest < MaxVersion /\ latest' = latest + 1
      /\ UNCHANGED <<pc, attempt, result, trouble, kind, sizes, gone, target, open, made,
                     size, offset, tasks, etags>>
  BY DEF Overwrite, requestVars, windowVars
<1>2. MaxVersion \in Nat /\ latest \in Versions
  BY CopyAssumption DEF IInv, CopyTyped
<1>3. latest' \in Versions /\ latest <= latest'
  BY <1>1, <1>2 DEF Versions
<1>4. RequestSound' /\ KindSound' /\ CopyTyped' /\ SourceKept
  BY <1>1, <1>3 DEF IInv, RequestSound, KindSound, CopyTyped, SourceKept
<1>5. PartsSound'
  BY <1>1, <1>4, WindowKept
<1>6. TargetSound'
  BY <1>1, <1>4, TargetKept DEF IInv, TargetSound, Final
<1>7. OpenSound'
  BY <1>1 DEF IInv, OpenSound, Opened, Placed, LeftBehind
<1>. QED  BY <1>4, <1>5, <1>6, <1>7 DEF CopyKept

\* Every step of a copy keeps what a copy has to keep.
LEMMA CopyStepKept ==
  ASSUME IInv, CopyStep \/ (kind \in Copies /\ Overwrite)
  PROVE  CopyKept
<1>1. CASE CopyStep
  BY <1>1, CopyBeginSound, CopyStopsSound, MakePoolSound, CheckEtagSound, HeadSourceSound,
     PutObjectCopySound, DeleteSourceSound, InitMultiUploadSound, AbortMultiUploadSound,
     CompleteMultiUploadSound, StartTaskSound, CopyTaskSound, CollectSound DEF CopyStep, Copy
<1>2. CASE kind \in Copies /\ Overwrite
  BY <1>2, OverwriteSound
<1>. QED  BY <1>1, <1>2

\* The steps of a copy, and those that replace its source, are taken in a copy.
LEMMA CopyCalled ==
  ASSUME IInv, CopyStep \/ (kind \in Copies /\ Overwrite)
  PROVE  kind' = kind /\ kind \in Copies
<1>1. kind' = kind
  BY DEF CopyStep, Copy, CopyBadSource, CopyBegin, HeadSource, TooLarge, PutObjectCopy, CheckEtag,
     DeleteSource, InitMultiUpload, MakePool, StartTask, CopyTask, TaskAttempt, Collect,
     AbortMultiUpload, ReportTask, CompleteMultiUpload, Overwrite, copyVars
<1>2. kind \in Copies
  <2>1. CASE CopyStep
    <3>1. pc \in CopyPlaces
      <4>1. CASE CopyTask
        BY <4>1 DEF CopyTask, TaskAttempt, IInv, PartsSound, CopyPlaces, AcrossPlaces, PartPlaces
      <4>. QED
        BY <2>1, <4>1 DEF CopyStep, Copy, CopyBadSource, CopyBegin, HeadSource, TooLarge,
           PutObjectCopy, CheckEtag, DeleteSource, InitMultiUpload, MakePool, StartTask, Collect,
           AbortMultiUpload, ReportTask, CompleteMultiUpload, FailHere, Reads, Changes, Attempt,
           CopyPlaces, AcrossPlaces, PartPlaces
    <3>. QED  BY <3>1, CopyPlace
  <2>. QED  BY <2>1
<1>. QED  BY <1>1, <1>2

\* A copy keeps the invariant, whoever replaces its source.
LEMMA CopyIInv ==
  ASSUME IInv, UNCHANGED <<deleteVars, putVars, plainVars, documentVars>>,
         CopyStep \/ (kind \in Copies /\ Overwrite)
  PROVE  IInv'
<1>1. CopyKept
  BY CopyStepKept
<1>2. kind' = kind /\ kind \in Copies
  BY CopyCalled
<1>3. kind \notin {"plain", "delete", "put"}
  BY <1>2 DEF Copies
<1>4. PlainSound' /\ DeleteSound' /\ PutSound'
  BY <1>1, <1>2, <1>3, PlainIdle, DeleteIdle, PutIdle DEF CopyKept
<1>. QED  BY <1>1, <1>4 DEF IInv, CopyKept

-----------------------------------------------------------------------------
(* Every step                                                              *)

\* Every step keeps it.
LEMMA NextIInv == IInv /\ [Next]_vars => IInv'
<1>. SUFFICES ASSUME IInv, [Next]_vars PROVE IInv'
  OBVIOUS
<1>1. CASE CopyStep
  BY <1>1, CopyIInv DEF CopyStep
<1>2. CASE DeleteStep
  BY <1>2, DeleteIInv
<1>3. CASE PutStep
  BY <1>3, PutIInv
<1>4. CASE PlainStep
  BY <1>4, PlainIInv
<1>5. CASE DocumentStep
  BY <1>5, DocumentIInv
<1>6. CASE Others
  BY <1>6, CopyIInv, DeleteIInv, DocumentIInv DEF Others
<1>7. CASE UNCHANGED vars
  <2>1. /\ UNCHANGED <<attempt, trouble, result, pc, kind>>
        /\ UNCHANGED <<sizes, latest, gone, target, open, made, size, offset, tasks, etags>>
        /\ UNCHANGED <<bucket, others, initially, page, next, marker, truncated, unread, deleted>>
        /\ UNCHANGED <<tree, entry, objects, put, effects, once, request>>
    BY <1>7 DEF vars, requestVars, copyVars, sourceVars, windowVars, deleteVars, putVars, plainVars
  <2>2. RequestSound' /\ KindSound' /\ CopyTyped'
    BY <2>1 DEF IInv, RequestSound, KindSound, CopyTyped
  <2>3. PartsSound'
    BY <2>1 DEF IInv, PartsSound, Chained, EndOf, Last
  <2>4. TargetSound'
    BY <2>1 DEF IInv, TargetSound, OnePiece, WholeTarget, Chained, Last
  <2>5. OpenSound'
    BY <2>1 DEF IInv, OpenSound, Opened, Placed, LeftBehind
  <2>6. PlainSound'
    BY <2>1 DEF IInv, PlainSound
  <2>7. DeleteSound'
    BY <2>1 DEF IInv, DeleteSound, Unnamed, Found
  <2>8. PutSound'
    BY <2>1 DEF IInv, PutSound, StoredAt
  <2>. QED  BY <2>2, <2>3, <2>4, <2>5, <2>6, <2>7, <2>8 DEF IInv
<1>. QED  BY <1>1, <1>2, <1>3, <1>4, <1>5, <1>6, <1>7 DEF Next, Ended

\* The invariant holds in every state of every call.
THEOREM CallsInvariance == Spec => []IInv
<1>. QED  BY InitIInv, NextIInv, PTL DEF Spec

-----------------------------------------------------------------------------
(* Documents: induction, and functions defined by recursion                *)

\* Induction over the naturals, for a set: the least number that is not in it would
\* come after one that is.
LEMMA SetInduction ==
  ASSUME NEW S, 0 \in S, \A n \in Nat : n \in S => n + 1 \in S
  PROVE  Nat \subseteq S
<1>. DEFINE T == Nat \ S
            R == OpToRel(<, Nat)
<1>1. SUFFICES ASSUME T # {} PROVE FALSE
  OBVIOUS
<1>2. IsWellFoundedOn(R, Nat)
  BY NatLessThanWellFounded
<1>3. PICK x \in T : \A y \in T : ~(<<y, x>> \in R)
  <2>. HIDE DEF T, R
  <2>1. T \subseteq Nat
    BY DEF T
  <2>. QED  BY <1>1, <1>2, <2>1, WFMin
<1>. HIDE DEF R
<1>4. x \in Nat /\ x \notin S
  OBVIOUS
<1>5. x # 0 /\ x - 1 \in Nat
  BY <1>4
<1>6. x - 1 \in T
  BY <1>4, <1>5, (x - 1) + 1 = x
<1>7. <<x - 1, x>> \in R
  BY <1>4, <1>5 DEF OpToRel, R
<1>. QED  BY <1>3, <1>6, <1>7

\* The same up to a bound, which is how it is used.
LEMMA UptoInduction ==
  ASSUME NEW S, NEW N \in Nat, 0 \in S, \A n \in 1 .. N : n - 1 \in S => n \in S
  PROVE  0 .. N \subseteq S
<1>. DEFINE T == {n \in Nat : n <= N => n \in S}
<1>1. 0 \in T
  OBVIOUS
<1>2. ASSUME NEW n \in Nat, n \in T PROVE n + 1 \in T
  <2>1. SUFFICES ASSUME n + 1 <= N PROVE n + 1 \in S
    OBVIOUS
  <2>2. n + 1 \in 1 .. N /\ (n + 1) - 1 = n /\ n \in S
    BY <1>2, <2>1
  <2>. QED  BY <2>2
<1>. HIDE DEF T
<1>3. Nat \subseteq T
  BY <1>1, <1>2, SetInduction
<1>. QED  BY <1>3 DEF T

\* What leads from one value of a recursion to the next, and the values it leads to.
StepsOn(X, N) == [X \X (1 .. N) -> X]

Unrolls(f, X, N, first, step) ==
  /\ f \in [0 .. N -> X]
  /\ f[0] = first
  /\ \A n \in 1 .. N : f[n] = step[<<f[n - 1], n>>]

\* There is a function that a recursion defines.
LEMMA Recursion ==
  ASSUME NEW X, NEW a \in X, NEW N \in Nat, NEW step \in StepsOn(X, N)
  PROVE  \E f : Unrolls(f, X, N, a, step)
<1>. USE DEF StepsOn, Unrolls
<1>. DEFINE Upto(k) == {f \in [0 .. k -> X] :
                          f[0] = a /\ \A n \in 1 .. k : f[n] = step[<<f[n - 1], n>>]}
            S == {k \in Nat : k <= N => Upto(k) # {}}
<1>1. 0 \in S
  <2>1. [n \in 0 .. 0 |-> a] \in Upto(0)
    OBVIOUS
  <2>. QED  BY <2>1
<1>2. ASSUME NEW k \in Nat, k \in S PROVE k + 1 \in S
  <2>1. SUFFICES ASSUME k + 1 <= N PROVE Upto(k + 1) # {}
    BY <1>2
  <2>2. PICK f \in [0 .. k -> X] : f[0] = a /\ \A n \in 1 .. k : f[n] = step[<<f[n - 1], n>>]
    BY <1>2, <2>1
  <2>. DEFINE g == [n \in 0 .. k + 1 |-> IF n <= k THEN f[n] ELSE step[<<f[k], n>>]]
  <2>3. step[<<f[k], k + 1>>] \in X
    BY <2>1, <2>2
  <2>4. g \in [0 .. k + 1 -> X]
    <3>1. ASSUME NEW n \in 0 .. k + 1 PROVE g[n] \in X
      <4>1. CASE n <= k
        BY <2>2, <4>1
      <4>2. CASE n = k + 1
        BY <2>3, <4>2
      <4>. QED  BY <4>1, <4>2
    <3>. QED  BY <3>1
  <2>5. g[0] = a
    BY <2>2
  <2>6. ASSUME NEW n \in 1 .. k + 1 PROVE g[n] = step[<<g[n - 1], n>>]
    <3>1. CASE n <= k
      BY <2>2, <3>1
    <3>2. CASE n = k + 1
      BY <2>2, <3>2
    <3>. QED  BY <3>1, <3>2
  <2>. HIDE DEF g
  <2>. QED  BY <2>4, <2>5, <2>6
<1>. HIDE DEF S
<1>3. Nat \subseteq S
  BY <1>1, <1>2, SetInduction
<1>4. Upto(N) # {}
  BY <1>3 DEF S
<1>. QED  BY <1>4

\* Appending to a concatenation.
LEMMA ConcatAppend ==
  ASSUME NEW S, NEW c \in Seq(S), NEW d \in Seq(S), NEW e \in S
  PROVE  /\ c \o d \in Seq(S) /\ c \o <<>> = c /\ <<>> \o c = c
         /\ c \o Append(d, e) = Append(c \o d, e)
<1>1. c \o <<>> = c /\ <<>> \o c = c
  OBVIOUS
<1>. DEFINE l == c \o Append(d, e)
            r == Append(c \o d, e)
<1>2. l \in Seq(S) /\ r \in Seq(S) /\ Len(l) = Len(r)
  OBVIOUS
<1>3. ASSUME NEW i \in 1 .. Len(l) PROVE l[i] = r[i]
  OBVIOUS
<1>. HIDE DEF l, r
<1>4. l = r
  BY <1>2, <1>3, SeqEqual
<1>. QED  BY <1>1, <1>4 DEF l, r

\* The beginnings of a sequence, each with one element more than the one before.
LEMMA BeginningsGrow ==
  ASSUME NEW S, NEW d \in Seq(S)
  PROVE  /\ Len(d) \in Nat
         /\ SubSeq(d, 1, 0) = <<>> /\ SubSeq(d, 1, Len(d)) = d
         /\ \A n \in 1 .. Len(d) :
              /\ d[n] \in S /\ SubSeq(d, 1, n - 1) \in Seq(S)
              /\ SubSeq(d, 1, n) = Append(SubSeq(d, 1, n - 1), d[n])
<1>1. ASSUME NEW n \in 1 .. Len(d)
      PROVE  /\ d[n] \in S /\ SubSeq(d, 1, n - 1) \in Seq(S)
             /\ SubSeq(d, 1, n) = Append(SubSeq(d, 1, n - 1), d[n])
  <2>1. SubSeq(d, 1, n - 1) \in Seq(S) /\ Len(SubSeq(d, 1, n - 1)) = n - 1
    OBVIOUS
  <2>2. SubSeq(d, 1, n) \in Seq(S) /\ Len(SubSeq(d, 1, n)) = n
    OBVIOUS
  <2>3. d[n] \in S
    OBVIOUS
  <2>. QED  BY <2>1, <2>2, <2>3
<1>2. SubSeq(d, 1, 0) = <<>> /\ SubSeq(d, 1, Len(d)) = d
  BY SubSeqEmpty, SubSeqFull
<1>. QED  BY <1>1, <1>2

-----------------------------------------------------------------------------
(* Documents: what the elements of some names say                          *)

\* Elements with names of a set, and documents of them.
Elements(S) == [name : S, value : Nat]
Documented(S) == Seq(Elements(S))

\* A document with names of a set is one with names of a larger set.
LEMMA DocumentedMore ==
  ASSUME NEW S, NEW T, S \subseteq T, NEW d \in Documented(S)
  PROVE  d \in Documented(T)
<1>1. d \in Seq(Elements(S)) /\ Elements(S) \subseteq Elements(T)
  BY DEF Documented, Elements
<1>. QED  BY <1>1 DEF Documented

\* What the definition of ValuesOf chooses, and what it comes to.
IsAmong(document, names, a) ==
  a = [n \in 0 .. Len(document) |->
         IF n = 0 THEN <<>>
         ELSE IF document[n].name \notin names THEN a[n - 1]
         ELSE Append(a[n - 1], document[n].value)]

GatheredInTurn(document, names, a) ==
  /\ a \in [0 .. Len(document) -> Seq(Nat)]
  /\ a[0] = <<>>
  /\ \A n \in 1 .. Len(document) :
       a[n] = IF document[n].name \notin names THEN a[n - 1]
              ELSE Append(a[n - 1], document[n].value)
  /\ ValuesOf(document, names) = a[Len(document)]

\* The values are got together element by element.
LEMMA ValuesTogether ==
  ASSUME NEW S, NEW document \in Documented(S), NEW names
  PROVE  \E a : GatheredInTurn(document, names, a)
<1>. DEFINE N == Len(document)
            X == Seq(Nat)
            none == <<>>
            step == [p \in X \X (1 .. N) |->
                       IF document[p[2]].name \notin names THEN p[1]
                       ELSE Append(p[1], document[p[2]].value)]
<1>1. N \in Nat /\ \A n \in 1 .. N : document[n].value \in Nat
  <2>1. \A n \in 1 .. N : document[n] \in Elements(S)
    BY ElementOfSeq DEF Documented
  <2>. QED  BY <2>1 DEF Documented, Elements
<1>2. step \in [X \X (1 .. N) -> X]
  <2>1. ASSUME NEW p \in X \X (1 .. N) PROVE step[p] \in X
    BY <1>1, <2>1
  <2>. QED  BY <2>1
<1>3. none \in X
  OBVIOUS
<1>4. PICK f : Unrolls(f, X, N, none, step)
  <2>. HIDE DEF N, X, step, none
  <2>1. N \in Nat
    BY <1>1
  <2>2. step \in StepsOn(X, N)
    BY <1>2 DEF StepsOn
  <2>. QED  BY <1>3, <2>1, <2>2, Recursion
<1>. USE DEF Unrolls
<1>5. \A n \in 1 .. N : f[n - 1] \in X
  BY <1>1, <1>4
<1>6. IsAmong(document, names, f)
  <2>1. ASSUME NEW n \in 0 .. N
        PROVE  f[n] = IF n = 0 THEN <<>>
                      ELSE IF document[n].name \notin names THEN f[n - 1]
                      ELSE Append(f[n - 1], document[n].value)
    <3>1. CASE n = 0
      BY <1>4, <3>1
    <3>2. CASE n \in 1 .. N
      <4>1. <<f[n - 1], n>> \in X \X (1 .. N) /\ f[n] = step[<<f[n - 1], n>>]
        BY <1>4, <1>5, <3>2
      <4>. QED  BY <1>1, <3>2, <4>1
    <3>. QED  BY <1>1, <3>1, <3>2
  <2>2. f = [n \in 0 .. N |-> f[n]]
    BY <1>4
  <2>. QED  BY <2>1, <2>2 DEF IsAmong
<1>. DEFINE a == CHOOSE a : IsAmong(document, names, a)
<1>7. IsAmong(document, names, a)
  BY <1>6
<1>8. ValuesOf(document, names) = a[N]
  BY DEF ValuesOf, IsAmong
<1>9. \A n \in 0 .. N : a[n] = f[n]
  <2>. DEFINE T == {n \in 0 .. N : a[n] = f[n]}
  <2>. HIDE DEF a
  <2>1. 0 \in T
    BY <1>1, <1>4, <1>7 DEF IsAmong
  <2>2. ASSUME NEW n \in 1 .. N, n - 1 \in T PROVE n \in T
    <3>1. n \in 0 .. N /\ n # 0
      BY <1>1
    <3>. QED  BY <1>6, <1>7, <2>2, <3>1 DEF IsAmong
  <2>. HIDE DEF T
  <2>3. 0 .. N \subseteq T
    BY <1>1, <2>1, <2>2, UptoInduction
  <2>. QED  BY <2>3 DEF T
<1>10. a[N] = f[N] /\ N \in 0 .. N
  BY <1>1, <1>9
<1>. HIDE DEF a
<1>11. \A n \in 1 .. N : f[n] = step[<<f[n - 1], n>>] /\ <<f[n - 1], n>> \in X \X (1 .. N)
  BY <1>4, <1>5
<1>. QED  BY <1>1, <1>4, <1>8, <1>10, <1>11 DEF GatheredInTurn

\* They are values.
LEMMA ValuesTyped ==
  ASSUME NEW S, NEW document \in Documented(S), NEW names
  PROVE  ValuesOf(document, names) \in Seq(Nat)
<1>1. Len(document) \in 0 .. Len(document)
  BY DEF Documented
<1>. QED  BY <1>1, ValuesTogether DEF GatheredInTurn

\* There are none in a document without elements.
LEMMA ValuesEmpty ==
  ASSUME NEW names
  PROVE  ValuesOf(<<>>, names) = <<>>
<1>1. <<>> \in Documented({}) /\ Len(<<>>) = 0
  BY DEF Documented
<1>2. PICK a : GatheredInTurn(<<>>, names, a)
  BY <1>1, ValuesTogether
<1>. QED  BY <1>1, <1>2 DEF GatheredInTurn

\* One element more adds its value, if its name is one of them.
LEMMA ValuesAppend ==
  ASSUME NEW S, NEW d \in Documented(S), NEW e \in Elements(S), NEW names
  PROVE  /\ Append(d, e) \in Documented(S)
         /\ ValuesOf(Append(d, e), names) =
              IF e.name \in names THEN Append(ValuesOf(d, names), e.value) ELSE ValuesOf(d, names)
<1>. DEFINE N == Len(d)
            de == Append(d, e)
<1>1. N \in Nat /\ de \in Documented(S) /\ Len(de) = N + 1 /\ de[N + 1] = e
  BY DEF Documented
<1>2. \A n \in 1 .. N : de[n] = d[n]
  BY DEF Documented
<1>3. PICK a : GatheredInTurn(d, names, a)
  BY ValuesTogether
<1>. HIDE DEF de
<1>4. PICK b : GatheredInTurn(de, names, b)
  BY <1>1, ValuesTogether
<1>. USE DEF GatheredInTurn
<1>5. \A n \in 0 .. N : a[n] = b[n]
  <2>. DEFINE T == {n \in 0 .. N : a[n] = b[n]}
  <2>1. 0 \in T
    BY <1>1, <1>3, <1>4
  <2>2. ASSUME NEW n \in 1 .. N, n - 1 \in T PROVE n \in T
    <3>1. n \in 1 .. N + 1 /\ n \in 0 .. N
      BY <1>1
    <3>2. a[n - 1] = b[n - 1] /\ de[n] = d[n] /\ n \in 1 .. Len(de)
      BY <1>1, <1>2, <2>2, <3>1
    <3>3. a[n] = IF d[n].name \notin names THEN a[n - 1] ELSE Append(a[n - 1], d[n].value)
      BY <1>3
    <3>4. b[n] = IF de[n].name \notin names THEN b[n - 1] ELSE Append(b[n - 1], de[n].value)
      BY <1>4, <3>2
    <3>. QED  BY <3>1, <3>2, <3>3, <3>4
  <2>. HIDE DEF T
  <2>3. 0 .. N \subseteq T
    BY <1>1, <2>1, <2>2, UptoInduction
  <2>. QED  BY <2>3 DEF T
<1>6. N + 1 \in 1 .. N + 1 /\ (N + 1) - 1 = N /\ N \in 0 .. N
  BY <1>1
<1>7. b[N + 1] = IF e.name \notin names THEN b[N] ELSE Append(b[N], e.value)
  BY <1>1, <1>4, <1>6
<1>. QED  BY <1>1, <1>3, <1>4, <1>5, <1>6, <1>7 DEF de

\* One document behind another says what the two say.
LEMMA ValuesConcat ==
  ASSUME NEW S, NEW c \in Documented(S), NEW d \in Documented(S), NEW names
  PROVE  /\ c \o d \in Documented(S)
         /\ ValuesOf(c \o d, names) = ValuesOf(c, names) \o ValuesOf(d, names)
<1>. DEFINE N == Len(d)
            Upto(n) == SubSeq(d, 1, n)
            T == {n \in 0 .. N :
                    /\ c \o Upto(n) \in Documented(S) /\ Upto(n) \in Documented(S)
                    /\ ValuesOf(c \o Upto(n), names) = ValuesOf(c, names) \o ValuesOf(Upto(n), names)}
            E == Elements(S)
<1>0. c \in Seq(E) /\ d \in Seq(E)
  BY DEF Documented
<1>1. N \in Nat /\ Upto(0) = <<>> /\ Upto(N) = d
  BY <1>0, BeginningsGrow
<1>2. \A n \in 1 .. N : d[n] \in E /\ Upto(n - 1) \in Seq(E) /\ Upto(n) = Append(Upto(n - 1), d[n])
  BY <1>0, BeginningsGrow
<1>. HIDE DEF Upto
<1>3. 0 \in T
  <2>1. c \o <<>> = c /\ <<>> \in Documented(S)
    BY <1>0 DEF Documented
  <2>2. ValuesOf(c, names) \o <<>> = ValuesOf(c, names)
    BY ValuesTyped, ConcatAppend
  <2>3. ValuesOf(<<>>, names) = <<>>
    BY ValuesEmpty
  <2>4. 0 \in 0 .. N
    BY <1>1
  <2>5. ValuesOf(c \o Upto(0), names) = ValuesOf(c, names) \o ValuesOf(Upto(0), names)
    BY <1>1, <2>1, <2>2, <2>3
  <2>. QED  BY <1>1, <2>1, <2>4, <2>5
<1>4. ASSUME NEW n \in 1 .. N, n - 1 \in T PROVE n \in T
  <2>. DEFINE u == Upto(n - 1)
  <2>1. u \in Documented(S) /\ c \o u \in Documented(S) /\ d[n] \in E /\ Upto(n) = Append(u, d[n])
    BY <1>2, <1>4
  <2>2. c \o Upto(n) = Append(c \o u, d[n])
    <3>1. u \in Seq(E)
      BY <1>2
    <3>. HIDE DEF u, E
    <3>. QED  BY <1>0, <2>1, <3>1, ConcatAppend
  <2>3. ValuesOf(c \o u, names) = ValuesOf(c, names) \o ValuesOf(u, names)
    BY <1>4
  <2>. HIDE DEF u
  <2>4. /\ Append(c \o u, d[n]) \in Documented(S) /\ Append(u, d[n]) \in Documented(S)
        /\ ValuesOf(Append(c \o u, d[n]), names) =
             IF d[n].name \in names THEN Append(ValuesOf(c \o u, names), d[n].value)
             ELSE ValuesOf(c \o u, names)
        /\ ValuesOf(Append(u, d[n]), names) =
             IF d[n].name \in names THEN Append(ValuesOf(u, names), d[n].value) ELSE ValuesOf(u, names)
    <3>1. u \in Documented(S) /\ c \o u \in Documented(S) /\ d[n] \in Elements(S)
      BY <2>1
    <3>. DEFINE cu == c \o u
                e == d[n]
    <3>. HIDE DEF cu, e
    <3>2. cu \in Documented(S) /\ u \in Documented(S) /\ e \in Elements(S)
      BY <3>1 DEF cu, e
    <3>3. /\ Append(cu, e) \in Documented(S)
          /\ ValuesOf(Append(cu, e), names) =
               IF e.name \in names THEN Append(ValuesOf(cu, names), e.value) ELSE ValuesOf(cu, names)
      BY <3>2, ValuesAppend
    <3>4. /\ Append(u, e) \in Documented(S)
          /\ ValuesOf(Append(u, e), names) =
               IF e.name \in names THEN Append(ValuesOf(u, names), e.value) ELSE ValuesOf(u, names)
      BY <3>2, ValuesAppend
    <3>. QED  BY <3>3, <3>4 DEF cu, e
  <2>5. ValuesOf(c, names) \in Seq(Nat) /\ ValuesOf(u, names) \in Seq(Nat) /\ d[n].value \in Nat
    BY <2>1, ValuesTyped DEF Elements
  <2>6. ValuesOf(c, names) \o Append(ValuesOf(u, names), d[n].value)
          = Append(ValuesOf(c, names) \o ValuesOf(u, names), d[n].value)
    BY <2>5
  <2>7. c \o Upto(n) \in Documented(S) /\ Upto(n) \in Documented(S)
    BY <2>1, <2>2, <2>4
  <2>8. ValuesOf(c \o Upto(n), names) = ValuesOf(c, names) \o ValuesOf(Upto(n), names)
    BY <2>1, <2>2, <2>3, <2>4, <2>6
  <2>. QED  BY <2>7, <2>8, <1>1
<1>. HIDE DEF T
<1>5. 0 .. N \subseteq T
  BY <1>1, <1>3, <1>4, UptoInduction
<1>6. N \in T
  BY <1>1, <1>5
<1>. QED  BY <1>1, <1>6 DEF T

\* Elements of one name, one for each value: what a writer emits.
Run(e, values) == [i \in DOMAIN values |-> Element(e, values[i])]

\* They say these values of their name and nothing of another.
LEMMA ValuesOfRun ==
  ASSUME NEW S, NEW e \in S, NEW values \in Seq(Nat), NEW names
  PROVE  /\ Run(e, values) \in Documented(S)
         /\ ValuesOf(Run(e, values), names) = IF e \in names THEN values ELSE <<>>
<1>. DEFINE N == Len(values)
            run == Run(e, values)
            Upto(n) == SubSeq(values, 1, n)
<1>1. N \in Nat /\ DOMAIN values = 1 .. N
  OBVIOUS
<1>2. run \in Documented(S) /\ Len(run) = N
  BY <1>1, IsASeq DEF Documented, Element, Elements, Run
<1>3. \A n \in 1 .. N : run[n].name = e /\ run[n].value = values[n]
  BY <1>1 DEF Element, Run
<1>. HIDE DEF run
<1>4. PICK a : GatheredInTurn(run, names, a)
  BY <1>2, ValuesTogether
<1>. USE DEF GatheredInTurn
<1>5. Upto(0) = <<>> /\ Upto(N) = values /\ \A n \in 1 .. N : Upto(n) = Append(Upto(n - 1), values[n])
  BY BeginningsGrow
<1>. DEFINE T == {n \in 0 .. N : a[n] = IF e \in names THEN Upto(n) ELSE <<>>}
<1>. HIDE DEF Upto
<1>6. 0 \in T
  BY <1>1, <1>4, <1>5
<1>7. ASSUME NEW n \in 1 .. N, n - 1 \in T PROVE n \in T
  <2>1. n \in 0 .. N /\ n - 1 \in 0 .. N /\ n # 0 /\ n \in 1 .. Len(run)
    BY <1>1, <1>2
  <2>2. a[n - 1] = IF e \in names THEN Upto(n - 1) ELSE <<>>
    BY <1>7
  <2>3. a[n] = IF e \notin names THEN a[n - 1] ELSE Append(a[n - 1], values[n])
    BY <1>3, <1>4, <2>1
  <2>. QED  BY <1>5, <2>1, <2>2, <2>3
<1>. HIDE DEF T
<1>8. 0 .. N \subseteq T
  BY <1>1, <1>6, <1>7, UptoInduction
<1>9. N \in T
  BY <1>1, <1>8
<1>10. ValuesOf(run, names) = IF e \in names THEN values ELSE <<>>
  BY <1>2, <1>4, <1>5, <1>9 DEF T
<1>. QED  BY <1>2, <1>10 DEF run

\* There is a value if and only if there is an element of one of the names.
LEMMA ValuesSome ==
  ASSUME NEW S, NEW d \in Documented(S), NEW names
  PROVE  ValuesOf(d, names) = <<>> <=> \A i \in DOMAIN d : d[i].name \notin names
<1>. DEFINE N == Len(d)
            T == {n \in 0 .. N : ValuesOf(SubSeq(d, 1, n), names) = <<>>
                                   <=> \A i \in 1 .. n : d[i].name \notin names}
<1>1. d \in Seq(Elements(S)) /\ N \in Nat /\ DOMAIN d = 1 .. N
  BY DEF Documented
<1>. DEFINE Upto(n) == SubSeq(d, 1, n)
<1>2. /\ Upto(0) = <<>> /\ Upto(N) = d
      /\ \A n \in 1 .. N : /\ d[n] \in Elements(S) /\ Upto(n - 1) \in Documented(S)
                           /\ Upto(n) = Append(Upto(n - 1), d[n])
  BY <1>1, BeginningsGrow DEF Documented
<1>3. 0 \in T
  <2>1. ValuesOf(Upto(0), names) = <<>>
    <3>. HIDE DEF Upto
    <3>. QED  BY <1>2, ValuesEmpty
  <2>. QED  BY <1>1, <2>1
<1>4. ASSUME NEW n \in 1 .. N, n - 1 \in T PROVE n \in T
  <2>. DEFINE u == Upto(n - 1)
              e == d[n]
  <2>1. u \in Documented(S) /\ e \in Elements(S) /\ Upto(n) = Append(u, e)
    BY <1>2
  <2>2. ValuesOf(u, names) = <<>> <=> \A i \in 1 .. n - 1 : d[i].name \notin names
    BY <1>4
  <2>3. e.name \notin names =>
          ((\A i \in 1 .. n : d[i].name \notin names) <=> (\A i \in 1 .. n - 1 : d[i].name \notin names))
    <3>1. \A i \in 1 .. n : i = n \/ i \in 1 .. n - 1
      BY <1>1
    <3>. QED  BY <1>1, <3>1
  <2>. HIDE DEF u, Upto
  <2>4. ValuesOf(Append(u, e), names) =
          IF e.name \in names THEN Append(ValuesOf(u, names), e.value) ELSE ValuesOf(u, names)
    <3>. HIDE DEF e
    <3>. QED  BY <2>1, ValuesAppend
  <2>5. e.value \in Nat /\ ValuesOf(u, names) \in Seq(Nat)
    BY <2>1, ValuesTyped DEF Elements
  <2>6. Append(ValuesOf(u, names), e.value) # <<>>
    BY <2>5
  <2>7. n \in 0 .. N /\ n \in 1 .. n
    BY <1>1
  <2>8. ValuesOf(Upto(n), names) = <<>> <=> \A i \in 1 .. n : d[i].name \notin names
    BY <2>1, <2>2, <2>3, <2>4, <2>6, <2>7
  <2>. QED  BY <2>7, <2>8 DEF Upto
<1>. HIDE DEF T
<1>5. 0 .. N \subseteq T
  BY <1>1, <1>3, <1>4, UptoInduction
<1>6. N \in T
  BY <1>1, <1>5
<1>. QED  BY <1>1, <1>2, <1>6 DEF T

-----------------------------------------------------------------------------
(* Documents: objects and their setters                                    *)

\* The objects of a class that the setters of some fields make.
Objects(class, setters) ==
  [mask : SUBSET {class.sets[f] : f \in setters},
   held : UNION {[members -> Seq(Nat)] : members \in SUBSET {class.into[f] : f \in setters}}]

\* A new object is one, and holds nothing.
LEMMA BlankTyped ==
  ASSUME NEW class, NEW setters
  PROVE  Blank \in Objects(class, setters) /\ \A m : Held(Blank, m) = <<>>
<1>1. <<>> \in [{} -> Seq(Nat)]
  OBVIOUS
<1>2. DOMAIN <<>> = {}
  OBVIOUS
<1>. QED  BY <1>1, <1>2 DEF Blank, Objects, Held

\* What an object holds are values.
LEMMA HeldTyped ==
  ASSUME NEW class, NEW setters, NEW object \in Objects(class, setters), NEW m
  PROVE  Held(object, m) \in Seq(Nat)
<1>1. PICK members : object.held \in [members -> Seq(Nat)]
  BY DEF Objects
<1>. QED  BY <1>1 DEF Held

\* A setter reaches its bit and its member, and no other member.
LEMMA StoreTyped ==
  ASSUME NEW class, NEW setters, NEW object \in Objects(class, setters),
         NEW g \in setters, NEW v \in Nat
  PROVE  /\ Store(class, object, g, v) \in Objects(class, setters)
         /\ Store(class, object, g, v).mask =
              {class.sets[g]} \cup (IF g \in class.wipes THEN {} ELSE object.mask)
         /\ \A k : Held(Store(class, object, g, v), k) =
              IF k # class.into[g] THEN Held(object, k)
              ELSE IF g \in class.lists THEN Append(Held(object, k), v) ELSE <<v>>
<1>. DEFINE m == class.into[g]
            values == IF g \in class.lists THEN Append(Held(object, m), v) ELSE <<v>>
            new == Store(class, object, g, v)
<1>1. PICK members \in SUBSET {class.into[f] : f \in setters} : object.held \in [members -> Seq(Nat)]
  BY DEF Objects
<1>2. values \in Seq(Nat)
  BY HeldTyped
<1>. HIDE DEF values
<1>3. With(object, m, values) \in [members \cup {m} -> Seq(Nat)]
  BY <1>1, <1>2 DEF With
<1>4. members \cup {m} \in SUBSET {class.into[f] : f \in setters}
  OBVIOUS
<1>5. new = [mask |-> {class.sets[g]} \cup (IF g \in class.wipes THEN {} ELSE object.mask),
             held |-> With(object, m, values)]
  BY DEF Store, values
<1>6. new.mask \in SUBSET {class.sets[f] : f \in setters}
  BY <1>5 DEF Objects
<1>7. new \in Objects(class, setters)
  BY <1>3, <1>4, <1>5, <1>6 DEF Objects
<1>8. ASSUME NEW k PROVE Held(new, k) = IF k # m THEN Held(object, k) ELSE values
  BY <1>1, <1>5 DEF Held, With
<1>9. new.mask = {class.sets[g]} \cup (IF g \in class.wipes THEN {} ELSE object.mask)
  BY <1>5
<1>10. \A k : Held(new, k) = IF k # class.into[g] THEN Held(object, k)
                            ELSE IF g \in class.lists THEN Append(Held(object, k), v) ELSE <<v>>
  BY <1>8 DEF values
<1>. HIDE DEF new
<1>. QED  BY <1>7, <1>9, <1>10 DEF new

\* What an object holds of a field is what the elements say of it, and its bit is set if
\* they say something.
Tells(class, object, elements, names, f) ==
  /\ Held(object, class.into[f]) = Says(class, elements, names, f)
  /\ class.masked => (class.sets[f] \in object.mask <=> Held(object, class.into[f]) # <<>>)

\* A new object tells what no elements say.
LEMMA NothingTold ==
  ASSUME NEW class, NEW names, NEW f
  PROVE  Tells(class, Blank, <<>>, names, f)
<1>1. ValuesOf(<<>>, names) = <<>> /\ Held(Blank, class.into[f]) = <<>>
  BY ValuesEmpty, BlankTyped
<1>. QED  BY <1>1 DEF Tells, Says, Blank

\* It goes on to do so after an element that is not about the field,
LEMMA TellsStill ==
  ASSUME NEW class, NEW S, NEW elements \in Documented(S), NEW e \in Elements(S),
         NEW names, NEW f, NEW object, e.name \notin names, Tells(class, object, elements, names, f)
  PROVE  Tells(class, object, Append(elements, e), names, f)
<1>1. ValuesOf(Append(elements, e), names) = ValuesOf(elements, names)
  BY ValuesAppend
<1>. QED  BY <1>1 DEF Tells, Says

\* and after the call of a setter, and the element that led to it.
LEMMA StoreTells ==
  ASSUME NEW class, NEW setters, NEW object \in Objects(class, setters),
         NEW S, NEW elements \in Documented(S),
         NEW g \in setters, NEW e \in Elements(S), NEW v \in Nat,
         NEW names, NEW f, KeptApart(class, setters, f),
         e.name \in names <=> g = f, g = f => e.value = v,
         Tells(class, object, elements, names, f)
  PROVE  Tells(class, Store(class, object, g, v), Append(elements, e), names, f)
<1>. DEFINE new == Store(class, object, g, v)
            m == class.into[f]
            more == Append(elements, e)
<1>1. /\ new.mask = {class.sets[g]} \cup (IF g \in class.wipes THEN {} ELSE object.mask)
      /\ Held(new, m) = IF m # class.into[g] THEN Held(object, m)
                        ELSE IF g \in class.lists THEN Append(Held(object, m), v) ELSE <<v>>
  <2>. HIDE DEF m
  <2>. QED  BY StoreTyped
<1>2. ValuesOf(more, names) = IF e.name \in names THEN Append(ValuesOf(elements, names), e.value)
                              ELSE ValuesOf(elements, names)
  BY ValuesAppend
<1>3. ValuesOf(elements, names) \in Seq(Nat) /\ Held(object, m) \in Seq(Nat)
  BY ValuesTyped, HeldTyped
<1>. HIDE DEF new, more, m
<1>4. CASE g # f
  <2>1. m # class.into[g]
    BY <1>4 DEF KeptApart, m
  <2>2. Held(new, m) = Held(object, m) /\ Says(class, more, names, f) = Says(class, elements, names, f)
    BY <1>1, <1>2, <1>4, <2>1 DEF Says
  <2>3. class.masked => (class.sets[f] \in new.mask <=> class.sets[f] \in object.mask)
    BY <1>1, <1>4 DEF KeptApart
  <2>. QED  BY <2>2, <2>3 DEF Tells, m, new, more
<1>5. CASE g = f
  <2>. DEFINE values == ValuesOf(elements, names)
  <2>1. ValuesOf(more, names) = Append(values, v) /\ m = class.into[g]
    BY <1>2, <1>5 DEF m
  <2>2. Append(values, v) # <<>> /\ Last(Append(values, v)) = v
    <3>1. values \in Seq(Nat)
      BY <1>3
    <3>. HIDE DEF values
    <3>. QED  BY <3>1 DEF Last
  <2>3. Says(class, more, names, f) = IF f \in class.lists THEN Append(values, v) ELSE <<v>>
    BY <2>1, <2>2 DEF Says
  <2>4. f \in class.lists => Held(object, m) = values
    BY DEF Tells, Says, m
  <2>5. Held(new, m) = IF f \in class.lists THEN Append(values, v) ELSE <<v>>
    BY <1>1, <1>5, <2>1, <2>4
  <2>6. Held(new, m) # <<>>
    BY <2>2, <2>5
  <2>. QED  BY <1>1, <1>5, <2>3, <2>5, <2>6 DEF Tells, m, new, more
<1>. QED  BY <1>4, <1>5

\* Something is said of a field if and only if there is an element for it.
LEMMA SaysSome ==
  ASSUME NEW class, NEW S, NEW elements \in Documented(S), NEW names, NEW f
  PROVE  Says(class, elements, names, f) = <<>>
           <=> \A i \in DOMAIN elements : elements[i].name \notin names
<1>1. ValuesOf(elements, names) = <<>> <=> \A i \in DOMAIN elements : elements[i].name \notin names
  BY ValuesSome
<1>2. Says(class, elements, names, f) = <<>> <=> ValuesOf(elements, names) = <<>>
  BY DEF Says
<1>. QED  BY <1>1, <1>2

\* For a field that is kept apart, the Has function and the getter tell the same.
LEMMA ToldAsSaid ==
  ASSUME NEW class, NEW setters, NEW object, NEW elements, NEW names, NEW f,
         KeptApart(class, setters, f), Tells(class, object, elements, names, f)
  PROVE  /\ Has(class, object, f) <=> Says(class, elements, names, f) # <<>>
         /\ Held(object, class.shows[f]) = Says(class, elements, names, f)
         /\ Told(class, object, f) = Says(class, elements, names, f)
BY DEF KeptApart, Tells, Has, Told

\* What the definition of AfterSetters chooses, and what it comes to.
IsAfter(class, calls, a) ==
  a = [n \in 0 .. Len(calls) |->
         IF n = 0 THEN Blank ELSE Store(class, a[n - 1], calls[n].name, calls[n].value)]

CalledInTurn(class, setters, calls, a) ==
  /\ a \in [0 .. Len(calls) -> Objects(class, setters)]
  /\ a[0] = Blank
  /\ \A n \in 1 .. Len(calls) : a[n] = Store(class, a[n - 1], calls[n].name, calls[n].value)
  /\ AfterSetters(class, calls) = a[Len(calls)]

\* The setters are called one after the other.
LEMMA SettersTogether ==
  ASSUME NEW class, NEW setters, NEW calls \in Documented(setters)
  PROVE  \E a : CalledInTurn(class, setters, calls, a)
<1>. DEFINE N == Len(calls)
            X == Objects(class, setters)
            step == [p \in X \X (1 .. N) |-> Store(class, p[1], calls[p[2]].name, calls[p[2]].value)]
<1>1. N \in Nat /\ \A n \in 1 .. N : calls[n].name \in setters /\ calls[n].value \in Nat
  <2>1. \A n \in 1 .. N : calls[n] \in Elements(setters)
    BY ElementOfSeq DEF Documented
  <2>. QED  BY <2>1 DEF Documented, Elements
<1>2. Blank \in X
  BY BlankTyped
<1>. HIDE DEF X
<1>3. step \in StepsOn(X, N)
  <2>1. ASSUME NEW p \in X \X (1 .. N)
        PROVE  Store(class, p[1], calls[p[2]].name, calls[p[2]].value) \in X
    <3>1. p[1] \in Objects(class, setters) /\ calls[p[2]].name \in setters /\ calls[p[2]].value \in Nat
      BY <1>1, <2>1 DEF X
    <3>. QED  BY <3>1, StoreTyped DEF X
  <2>. QED  BY <2>1 DEF StepsOn
<1>4. PICK f : Unrolls(f, X, N, Blank, step)
  <2>. HIDE DEF N, step
  <2>. QED  BY <1>1, <1>2, <1>3, Recursion
<1>. USE DEF Unrolls
<1>5. \A n \in 1 .. N : /\ n \in 0 .. N /\ n # 0 /\ f[n - 1] \in X
                        /\ f[n] = Store(class, f[n - 1], calls[n].name, calls[n].value)
  <2>1. ASSUME NEW n \in 1 .. N
        PROVE  /\ n \in 0 .. N /\ n # 0 /\ f[n - 1] \in X
               /\ f[n] = Store(class, f[n - 1], calls[n].name, calls[n].value)
    <3>1. n \in 0 .. N /\ n # 0 /\ n - 1 \in 0 .. N
      BY <1>1
    <3>2. <<f[n - 1], n>> \in X \X (1 .. N) /\ f[n] = step[<<f[n - 1], n>>]
      BY <1>4, <3>1
    <3>. QED  BY <1>4, <3>1, <3>2
  <2>. QED  BY <2>1
<1>6. IsAfter(class, calls, f)
  <2>1. \A n \in 0 .. N : n = 0 \/ n \in 1 .. N
    BY <1>1
  <2>2. \A n \in 0 .. N :
          f[n] = IF n = 0 THEN Blank ELSE Store(class, f[n - 1], calls[n].name, calls[n].value)
    BY <1>4, <1>5, <2>1
  <2>3. f = [n \in 0 .. N |-> f[n]]
    BY <1>4
  <2>. QED  BY <2>2, <2>3 DEF IsAfter
<1>. DEFINE a == CHOOSE a : IsAfter(class, calls, a)
<1>7. IsAfter(class, calls, a)
  BY <1>6
<1>8. AfterSetters(class, calls) = a[N]
  BY DEF AfterSetters, IsAfter
<1>. HIDE DEF a
<1>9. \A n \in 1 .. N : a[n] = Store(class, a[n - 1], calls[n].name, calls[n].value)
  BY <1>5, <1>7 DEF IsAfter
<1>10. a[0] = Blank
  BY <1>1, <1>7 DEF IsAfter
<1>. DEFINE T == {n \in 0 .. N : a[n] = f[n]}
<1>11. 0 \in T
  BY <1>1, <1>4, <1>10
<1>12. ASSUME NEW n \in 1 .. N, n - 1 \in T PROVE n \in T
  BY <1>5, <1>9, <1>12
<1>. HIDE DEF T
<1>13. 0 .. N \subseteq T
  BY <1>1, <1>11, <1>12, UptoInduction
<1>14. a[N] = f[N]
  BY <1>1, <1>13 DEF T
<1>. QED  BY <1>4, <1>5, <1>8, <1>14 DEF CalledInTurn, X

\* The object tells what the calls said, of every field that is kept apart.
LEMMA SettersTell ==
  ASSUME NEW class, NEW setters, NEW calls \in Documented(setters)
  PROVE  /\ AfterSetters(class, calls) \in Objects(class, setters)
         /\ \A f : KeptApart(class, setters, f) =>
                     Tells(class, AfterSetters(class, calls), calls, {f}, f)
<1>. DEFINE N == Len(calls)
            Upto(n) == SubSeq(calls, 1, n)
<1>1. PICK a : CalledInTurn(class, setters, calls, a)
  BY SettersTogether
<1>2. calls \in Seq(Elements(setters)) /\ N \in Nat
  BY DEF Documented
<1>3. /\ Upto(0) = <<>> /\ Upto(N) = calls
      /\ \A n \in 1 .. N : /\ calls[n] \in Elements(setters) /\ Upto(n - 1) \in Documented(setters)
                           /\ Upto(n) = Append(Upto(n - 1), calls[n])
  BY <1>2, BeginningsGrow DEF Documented
<1>4. a[N] \in Objects(class, setters) /\ AfterSetters(class, calls) = a[N]
  BY <1>1, <1>2 DEF CalledInTurn
<1>. HIDE DEF Upto
<1>5. ASSUME NEW f, KeptApart(class, setters, f) PROVE Tells(class, a[N], calls, {f}, f)
  <2>. DEFINE T == {n \in 0 .. N : Tells(class, a[n], Upto(n), {f}, f)}
  <2>1. 0 \in T
    BY <1>1, <1>2, <1>3, NothingTold DEF CalledInTurn
  <2>2. ASSUME NEW n \in 1 .. N, n - 1 \in T PROVE n \in T
    <3>. DEFINE o == a[n - 1]
                u == Upto(n - 1)
                e == calls[n]
    <3>1. o \in Objects(class, setters) /\ n \in 0 .. N
      <4>1. n - 1 \in 0 .. N /\ n \in 0 .. N
        BY <1>2
      <4>. QED  BY <1>1, <4>1 DEF CalledInTurn
    <3>2. /\ u \in Documented(setters) /\ e \in Elements(setters)
          /\ Upto(n) = Append(u, e) /\ Tells(class, o, u, {f}, f)
      BY <1>3, <2>2
    <3>3. e.name \in setters /\ e.value \in Nat /\ (e.name \in {f} <=> e.name = f)
      BY <3>2 DEF Elements
    <3>4. a[n] = Store(class, o, e.name, e.value)
      BY <1>1 DEF CalledInTurn
    <3>. HIDE DEF o, u, e
    <3>5. Tells(class, Store(class, o, e.name, e.value), Append(u, e), {f}, f)
      BY <1>5, <3>1, <3>2, <3>3, StoreTells
    <3>. QED  BY <3>1, <3>2, <3>4, <3>5
  <2>. HIDE DEF T
  <2>3. 0 .. N \subseteq T
    BY <1>2, <2>1, <2>2, UptoInduction
  <2>4. N \in T
    BY <1>2, <2>3
  <2>. QED  BY <1>3, <2>4 DEF T
<1>. QED  BY <1>4, <1>5

-----------------------------------------------------------------------------
(* Documents: readers                                                      *)

\* The object that is read into, and whether the reading is over.
ReaderStates(reader) == [object : Objects(reader.of, Range(reader.takes)), over : BOOLEAN]

\* What becomes of them when an element is taken.
LEMMA TakeTyped ==
  ASSUME NEW reader, reader.stops \in BOOLEAN, NEW state \in ReaderStates(reader),
         NEW S, NEW e \in Elements(S)
  PROVE  /\ Take(reader, state, e) \in ReaderStates(reader)
         /\ state.over \/ e.name \in reader.skips => Take(reader, state, e) = state
         /\ ~state.over /\ e.name \notin Knows(reader) =>
              /\ Take(reader, state, e).object = state.object
              /\ Take(reader, state, e).over <=> reader.stops
         /\ ~state.over /\ e.name \in Knows(reader) \ reader.skips =>
              /\ e.name \in DOMAIN reader.takes /\ ~Take(reader, state, e).over
              /\ Take(reader, state, e).object =
                   Store(reader.of, state.object, reader.takes[e.name],
                         IF e.name \in reader.named THEN 0 ELSE e.value)
<1>. DEFINE new == Take(reader, state, e)
            v == IF e.name \in reader.named THEN 0 ELSE e.value
<1>1. state.object \in Objects(reader.of, Range(reader.takes)) /\ state.over \in BOOLEAN
      /\ state = [object |-> state.object, over |-> state.over]
  BY DEF ReaderStates
<1>2. v \in Nat
  BY DEF Elements
<1>3. CASE state.over \/ e.name \in reader.skips
  <2>1. new = state
    BY <1>3 DEF Take
  <2>. HIDE DEF new
  <2>2. /\ new \in ReaderStates(reader)
        /\ state.over \/ (e.name \in Knows(reader) /\ e.name \in reader.skips)
    BY <1>3, <2>1 DEF Knows
  <2>. QED  BY <1>3, <2>1, <2>2 DEF new
<1>4. CASE ~state.over /\ e.name \notin Knows(reader)
  <2>1. e.name \notin reader.skips
    BY <1>4 DEF Knows
  <2>2. new = [state EXCEPT !.over = reader.stops]
    BY <1>4, <2>1 DEF Take
  <2>3. new.object = state.object /\ (new.over <=> reader.stops) /\ new \in ReaderStates(reader)
    BY <1>1, <2>2 DEF ReaderStates
  <2>. QED  BY <1>4, <2>1, <2>3
<1>5. CASE ~state.over /\ e.name \in Knows(reader) \ reader.skips
  <2>1. e.name \in DOMAIN reader.takes
    BY <1>5 DEF Knows
  <2>2. reader.takes[e.name] \in Range(reader.takes)
    BY <2>1 DEF Range
  <2>3. new = [state EXCEPT !.object = Store(reader.of, state.object, reader.takes[e.name], v)]
    BY <1>5 DEF Take
  <2>. DEFINE o == Store(reader.of, state.object, reader.takes[e.name], v)
  <2>4. o \in Objects(reader.of, Range(reader.takes))
    BY <1>1, <1>2, <2>2, StoreTyped
  <2>. HIDE DEF o
  <2>5. new.object = o /\ ~new.over /\ new \in ReaderStates(reader)
    BY <1>1, <1>5, <2>3, <2>4 DEF ReaderStates, o
  <2>. QED  BY <1>5, <2>1, <2>5 DEF o
<1>. QED  BY <1>3, <1>4, <1>5

\* What the definition of Read chooses, and what it comes to.
IsState(reader, document, object, a) ==
  a = [n \in 0 .. Len(document) |->
         IF n = 0 THEN [object |-> object, over |-> FALSE] ELSE Take(reader, a[n - 1], document[n])]

TakenInTurn(reader, document, object, a) ==
  /\ a \in [0 .. Len(document) -> ReaderStates(reader)]
  /\ a[0] = [object |-> object, over |-> FALSE]
  /\ \A n \in 1 .. Len(document) : a[n] = Take(reader, a[n - 1], document[n])
  /\ Read(reader, document, object) = a[Len(document)].object

\* The elements are taken one after the other.
LEMMA ReadTogether ==
  ASSUME NEW reader, reader.stops \in BOOLEAN, NEW S, NEW document \in Documented(S),
         NEW object \in Objects(reader.of, Range(reader.takes))
  PROVE  \E a : TakenInTurn(reader, document, object, a)
<1>. DEFINE N == Len(document)
            X == ReaderStates(reader)
            first == [object |-> object, over |-> FALSE]
            step == [p \in X \X (1 .. N) |-> Take(reader, p[1], document[p[2]])]
<1>1. N \in Nat /\ \A n \in 1 .. N : document[n] \in Elements(S)
  BY ElementOfSeq DEF Documented
<1>2. first \in X
  BY DEF ReaderStates
<1>. HIDE DEF X, first
<1>3. step \in StepsOn(X, N)
  <2>1. ASSUME NEW p \in X \X (1 .. N) PROVE Take(reader, p[1], document[p[2]]) \in X
    <3>1. p[1] \in ReaderStates(reader) /\ document[p[2]] \in Elements(S)
      BY <1>1, <2>1 DEF X
    <3>. QED  BY <3>1, TakeTyped DEF X
  <2>. QED  BY <2>1 DEF StepsOn
<1>4. PICK f : Unrolls(f, X, N, first, step)
  <2>. HIDE DEF N, step
  <2>. QED  BY <1>1, <1>2, <1>3, Recursion
<1>. USE DEF Unrolls
<1>5. \A n \in 1 .. N : /\ n \in 0 .. N /\ n # 0 /\ f[n - 1] \in X
                        /\ f[n] = Take(reader, f[n - 1], document[n])
  <2>1. ASSUME NEW n \in 1 .. N
        PROVE  /\ n \in 0 .. N /\ n # 0 /\ f[n - 1] \in X
               /\ f[n] = Take(reader, f[n - 1], document[n])
    <3>1. n \in 0 .. N /\ n # 0 /\ n - 1 \in 0 .. N
      BY <1>1
    <3>2. <<f[n - 1], n>> \in X \X (1 .. N) /\ f[n] = step[<<f[n - 1], n>>]
      BY <1>4, <3>1
    <3>. QED  BY <1>4, <3>1, <3>2
  <2>. QED  BY <2>1
<1>6. IsState(reader, document, object, f)
  <2>1. \A n \in 0 .. N : n = 0 \/ n \in 1 .. N
    BY <1>1
  <2>2. \A n \in 0 .. N : f[n] = IF n = 0 THEN first ELSE Take(reader, f[n - 1], document[n])
    BY <1>4, <1>5, <2>1
  <2>3. f = [n \in 0 .. N |-> f[n]]
    BY <1>4
  <2>. QED  BY <2>2, <2>3 DEF IsState, first
<1>. DEFINE a == CHOOSE a : IsState(reader, document, object, a)
<1>7. IsState(reader, document, object, a)
  BY <1>6
<1>8. Read(reader, document, object) = a[N].object
  BY DEF Read, IsState
<1>. HIDE DEF a
<1>9. \A n \in 1 .. N : a[n] = Take(reader, a[n - 1], document[n])
  BY <1>5, <1>7 DEF IsState
<1>10. a[0] = first
  BY <1>1, <1>7 DEF IsState, first
<1>. DEFINE T == {n \in 0 .. N : a[n] = f[n]}
<1>11. 0 \in T
  BY <1>1, <1>4, <1>10
<1>12. ASSUME NEW n \in 1 .. N, n - 1 \in T PROVE n \in T
  BY <1>5, <1>9, <1>12
<1>. HIDE DEF T
<1>13. 0 .. N \subseteq T
  BY <1>1, <1>11, <1>12, UptoInduction
<1>14. a[N] = f[N]
  BY <1>1, <1>13 DEF T
<1>. QED  BY <1>4, <1>5, <1>8, <1>14 DEF TakenInTurn, X, first

\* What is read into is an object of the class.
LEMMA ReadTyped ==
  ASSUME NEW reader, reader.stops \in BOOLEAN, NEW S, NEW d \in Documented(S),
         NEW object \in Objects(reader.of, Range(reader.takes))
  PROVE  Read(reader, d, object) \in Objects(reader.of, Range(reader.takes))
<1>1. PICK a : TakenInTurn(reader, d, object, a)
  BY ReadTogether
<1>2. Len(d) \in 0 .. Len(d)
  BY DEF Documented
<1>. QED  BY <1>1, <1>2 DEF TakenInTurn, ReaderStates

\* The elements of some names are those that are taken for a field.
NamesFit(reader, S, names, f) ==
  \A s \in S : /\ s \in names <=> s \in DOMAIN reader.takes /\ reader.takes[s] = f
               /\ s \in names => s \notin reader.skips \cup reader.named

\* An element is told of after it is taken, if it is known or may be skipped.
LEMMA TakeTells ==
  ASSUME NEW reader, reader.stops \in BOOLEAN, NEW state \in ReaderStates(reader), ~state.over,
         NEW S, NEW e \in Elements(S), e.name \in Knows(reader) \/ ~reader.stops,
         NEW elements \in Documented(S),
         NEW names, NEW f, KeptApart(reader.of, Range(reader.takes), f), NamesFit(reader, S, names, f),
         Tells(reader.of, state.object, elements, names, f)
  PROVE  /\ ~Take(reader, state, e).over
         /\ Tells(reader.of, Take(reader, state, e).object, Append(elements, e), names, f)
<1>. DEFINE new == Take(reader, state, e)
            o == state.object
            g == reader.takes[e.name]
            v == IF e.name \in reader.named THEN 0 ELSE e.value
<1>1. o \in Objects(reader.of, Range(reader.takes)) /\ e.name \in S /\ e.value \in Nat /\ v \in Nat
  BY DEF ReaderStates, Elements
<1>2. CASE e.name \in Knows(reader) \ reader.skips
  <2>1. e.name \in DOMAIN reader.takes /\ ~new.over /\ new.object = Store(reader.of, o, g, v)
    BY <1>2, TakeTyped
  <2>2. g \in Range(reader.takes)
    BY <2>1 DEF Range
  <2>3. e.name \in names <=> g = f
    BY <1>1, <2>1 DEF NamesFit
  <2>4. g = f => e.value = v
    BY <1>1, <2>3 DEF NamesFit
  <2>. HIDE DEF g, v, o, new
  <2>5. Tells(reader.of, Store(reader.of, o, g, v), Append(elements, e), names, f)
    <3>1. Tells(reader.of, o, elements, names, f)
      BY DEF o
    <3>2. o \in Objects(reader.of, Range(reader.takes)) /\ v \in Nat
      BY <1>1
    <3>. QED  BY <2>2, <2>3, <2>4, <3>1, <3>2, StoreTells
  <2>. QED  BY <2>1, <2>5 DEF new
<1>3. CASE e.name \notin Knows(reader) \/ e.name \in reader.skips
  <2>1. ~new.over /\ new.object = o
    BY <1>3, TakeTyped
  <2>2. e.name \notin names
    BY <1>1, <1>3 DEF NamesFit, Knows
  <2>3. Tells(reader.of, o, Append(elements, e), names, f)
    BY <2>2, TellsStill
  <2>. QED  BY <2>1, <2>3
<1>. QED  BY <1>2, <1>3

\* The part that is understood ends before the first unknown element, or is all.
LEMMA UnderstoodPart ==
  ASSUME NEW reader, NEW S, NEW d \in Documented(S)
  PROVE  LET unknown == {i \in DOMAIN d : d[i].name \notin Knows(reader)} IN
           /\ ~reader.stops \/ unknown = {} => Understood(reader, d) = d
           /\ \A n \in unknown : reader.stops /\ (\A j \in 1 .. n - 1 : j \notin unknown) =>
                Understood(reader, d) = SubSeq(d, 1, n - 1)
<1>. DEFINE unknown == {i \in DOMAIN d : d[i].name \notin Knows(reader)}
<1>1. ~reader.stops \/ unknown = {} => Understood(reader, d) = d
  BY DEF Understood
<1>2. ASSUME NEW n \in unknown, reader.stops, \A j \in 1 .. n - 1 : j \notin unknown
      PROVE  Understood(reader, d) = SubSeq(d, 1, n - 1)
  <2>. DEFINE i == CHOOSE i \in unknown : \A j \in unknown : i <= j
  <2>1. DOMAIN d \subseteq Nat \ {0} /\ unknown \subseteq DOMAIN d
    BY DEF Documented
  <2>2. \A j \in unknown : n <= j
    <3>. HIDE DEF unknown
    <3>. QED  BY <1>2, <2>1
  <2>3. i \in unknown /\ \A j \in unknown : i <= j
    <3>. HIDE DEF unknown
    <3>. QED  BY <2>2
  <2>4. i = n
    <3>. HIDE DEF unknown, i
    <3>1. i <= n /\ n <= i /\ i \in Nat /\ n \in Nat
      BY <2>1, <2>2, <2>3
    <3>. QED  BY <3>1
  <2>5. Understood(reader, d) = SubSeq(d, 1, i - 1)
    BY <1>2 DEF Understood
  <2>. QED  BY <2>4, <2>5
<1>. QED  BY <1>1, <1>2

\* It is a document.
LEMMA UnderstoodTyped ==
  ASSUME NEW reader, NEW S, NEW d \in Documented(S)
  PROVE  Understood(reader, d) \in Documented(S)
<1>. DEFINE N == Len(d)
            unknown == {i \in DOMAIN d : d[i].name \notin Knows(reader)}
            T == {n \in 0 .. N : \/ \A j \in 1 .. n : j \notin unknown
                                 \/ Understood(reader, d) \in Documented(S)}
<1>1. N \in Nat /\ DOMAIN d = 1 .. N
  BY DEF Documented
<1>2. ~reader.stops \/ unknown = {} => Understood(reader, d) = d
  BY UnderstoodPart
<1>3. SUFFICES ASSUME reader.stops PROVE Understood(reader, d) \in Documented(S)
  BY <1>2
<1>4. 0 \in T
  BY <1>1
<1>5. ASSUME NEW n \in 1 .. N, n - 1 \in T PROVE n \in T
  <2>1. n \in 0 .. N /\ \A j \in 1 .. n : j = n \/ j \in 1 .. n - 1
    BY <1>1
  <2>2. CASE n \in unknown /\ \A j \in 1 .. n - 1 : j \notin unknown
    <3>1. Understood(reader, d) = SubSeq(d, 1, n - 1)
      BY <1>3, <2>2, UnderstoodPart
    <3>2. d \in Seq(Elements(S))
      BY DEF Documented
    <3>3. SubSeq(d, 1, n - 1) \in Documented(S)
      BY <3>2, BeginningsGrow DEF Documented
    <3>. QED  BY <2>1, <3>1, <3>3
  <2>. QED  BY <1>5, <2>1, <2>2
<1>6. 0 .. N \subseteq T
  <2>. HIDE DEF T
  <2>. QED  BY <1>1, <1>4, <1>5, UptoInduction
<1>7. N \in T
  BY <1>1, <1>6
<1>8. (\A j \in 1 .. N : j \notin unknown) => unknown = {}
  BY <1>1
<1>. QED  BY <1>2, <1>7, <1>8

\* The object tells what was said before and what is understood of the document.
LEMMA ReadTells ==
  ASSUME NEW reader, reader.stops \in BOOLEAN, NEW S, NEW d \in Documented(S),
         NEW object \in Objects(reader.of, Range(reader.takes)), NEW earlier \in Documented(S),
         NEW names, NEW f, KeptApart(reader.of, Range(reader.takes), f), NamesFit(reader, S, names, f),
         Tells(reader.of, object, earlier, names, f)
  PROVE  Tells(reader.of, Read(reader, d, object), earlier \o Understood(reader, d), names, f)
<1>. DEFINE N == Len(d)
            Upto(n) == SubSeq(d, 1, n)
            unknown == {i \in DOMAIN d : d[i].name \notin Knows(reader)}
<1>1. PICK a : TakenInTurn(reader, d, object, a)
  BY ReadTogether
<1>2. d \in Seq(Elements(S)) /\ earlier \in Seq(Elements(S)) /\ N \in Nat /\ DOMAIN d = 1 .. N
  BY DEF Documented
<1>3. /\ Upto(0) = <<>> /\ Upto(N) = d
      /\ \A n \in 1 .. N : /\ d[n] \in Elements(S) /\ Upto(n - 1) \in Seq(Elements(S))
                           /\ Upto(n) = Append(Upto(n - 1), d[n])
  BY <1>2, BeginningsGrow
<1>. DEFINE Going(n) == ~a[n].over /\ (reader.stops => \A j \in 1 .. n : j \notin unknown)
                        /\ Tells(reader.of, a[n].object, earlier \o Upto(n), names, f)
            Stopped(n) == a[n].over
                          /\ Tells(reader.of, a[n].object, earlier \o Understood(reader, d), names, f)
            T == {n \in 0 .. N : Going(n) \/ Stopped(n)}
<1>4. 0 \in T
  <2>1. earlier \o Upto(0) = earlier
    BY <1>2, <1>3, ConcatAppend
  <2>2. a[0].object = object /\ ~a[0].over /\ 0 \in 0 .. N
    BY <1>1, <1>2 DEF TakenInTurn
  <2>. HIDE DEF Upto
  <2>3. Tells(reader.of, a[0].object, earlier \o Upto(0), names, f)
    BY <2>1, <2>2
  <2>. QED  BY <2>2, <2>3
<1>5. ASSUME NEW n \in 1 .. N, n - 1 \in T PROVE n \in T
  <2>. DEFINE before == a[n - 1]
              e == d[n]
              u == earlier \o Upto(n - 1)
  <2>1. /\ n \in 0 .. N /\ n - 1 \in 0 .. N /\ n \in DOMAIN d
        /\ \A j \in 1 .. n : j = n \/ j \in 1 .. n - 1
    BY <1>2
  <2>2. before \in ReaderStates(reader) /\ a[n] = Take(reader, before, e) /\ e \in Elements(S)
    BY <1>1, <1>3, <2>1 DEF TakenInTurn
  <2>3. u \in Documented(S) /\ earlier \o Upto(n) = Append(u, e)
    <3>. HIDE DEF Upto
    <3>1. Upto(n - 1) \in Seq(Elements(S)) /\ Upto(n) = Append(Upto(n - 1), e)
      BY <1>3
    <3>. HIDE DEF e
    <3>. QED  BY <1>2, <2>2, <3>1, ConcatAppend DEF Documented
  <2>4. CASE Stopped(n - 1)
    <3>1. a[n] = before
      BY <2>2, <2>4, TakeTyped
    <3>. QED  BY <2>1, <2>4, <3>1
  <2>5. CASE Going(n - 1) /\ (n \notin unknown \/ ~reader.stops)
    <3>1. e.name \in Knows(reader) \/ ~reader.stops
      BY <2>1, <2>5
    <3>2. ~before.over /\ Tells(reader.of, before.object, u, names, f)
      BY <2>5
    <3>. HIDE DEF u, e, before, Upto
    <3>3. /\ ~Take(reader, before, e).over
          /\ Tells(reader.of, Take(reader, before, e).object, Append(u, e), names, f)
      BY <2>2, <2>3, <3>1, <3>2, TakeTells
    <3>4. Tells(reader.of, a[n].object, earlier \o Upto(n), names, f) /\ ~a[n].over
      BY <2>2, <2>3, <3>3
    <3>5. reader.stops => \A j \in 1 .. n : j \notin unknown
      BY <2>1, <2>5
    <3>. QED  BY <2>1, <3>4, <3>5
  <2>6. CASE Going(n - 1) /\ n \in unknown /\ reader.stops
    <3>1. Understood(reader, d) = Upto(n - 1)
      BY <2>6, UnderstoodPart
    <3>2. a[n].object = before.object /\ a[n].over
      <4>1. /\ before \in ReaderStates(reader) /\ ~before.over
            /\ e \in Elements(S) /\ e.name \notin Knows(reader)
        BY <2>2, <2>6
      <4>. HIDE DEF e, before
      <4>2. /\ Take(reader, before, e).object = before.object
            /\ Take(reader, before, e).over <=> reader.stops
        BY <4>1, TakeTyped
      <4>. QED  BY <2>2, <2>6, <4>2
    <3>3. Tells(reader.of, before.object, earlier \o Upto(n - 1), names, f)
      BY <2>6
    <3>4. Tells(reader.of, a[n].object, earlier \o Understood(reader, d), names, f)
      BY <3>1, <3>2, <3>3
    <3>. QED  BY <2>1, <3>2, <3>4
  <2>. QED  BY <1>5, <2>4, <2>5, <2>6
<1>6. 0 .. N \subseteq T
  <2>. HIDE DEF T
  <2>. QED  BY <1>2, <1>4, <1>5, UptoInduction
<1>7. Going(N) \/ Stopped(N)
  BY <1>2, <1>6
<1>8. CASE Going(N)
  <2>1. ~reader.stops \/ unknown = {}
    BY <1>2, <1>8
  <2>2. Understood(reader, d) = d
    BY <2>1, UnderstoodPart
  <2>. QED  BY <1>1, <1>3, <1>8, <2>2 DEF TakenInTurn
<1>. QED  BY <1>1, <1>7, <1>8 DEF TakenInTurn

-----------------------------------------------------------------------------
(* Documents: writers                                                      *)

\* What is emitted for an element has its name, and the values its field holds.
LEMMA EmissionSound ==
  ASSUME NEW writer, NEW setters, NEW object \in Objects(writer.of, setters), NEW S, NEW e \in S
  PROVE  /\ Emission(writer, object, e) \in Documented(S)
         /\ \A names : ValuesOf(Emission(writer, object, e), names) =
              IF e \in names /\ Emitted(writer, object, e)
              THEN Held(object, writer.of.shows[writer.from[e]]) ELSE <<>>
<1>. DEFINE values == Held(object, writer.of.shows[writer.from[e]])
            run == Run(e, values)
<1>1. values \in Seq(Nat)
  BY HeldTyped
<1>2. Emission(writer, object, e) = IF Emitted(writer, object, e) THEN run ELSE <<>>
  BY DEF Emission, Run
<1>3. run \in Documented(S) /\ \A names : ValuesOf(run, names) = IF e \in names THEN values ELSE <<>>
  <2>. HIDE DEF values
  <2>. QED  BY <1>1, ValuesOfRun
<1>4. <<>> \in Documented(S) /\ \A names : ValuesOf(<<>>, names) = <<>>
  BY ValuesEmpty DEF Documented
<1>. HIDE DEF run, values
<1>. QED  BY <1>2, <1>3, <1>4 DEF values

\* What the definition of Body chooses, and what it comes to.
IsBody(writer, object, a) ==
  a = [n \in 0 .. Len(writer.emits) |->
         IF n = 0 THEN writer.adds ELSE a[n - 1] \o Emission(writer, object, writer.emits[n])]

EmittedInTurn(writer, S, object, a) ==
  /\ a \in [0 .. Len(writer.emits) -> Documented(S)]
  /\ a[0] = writer.adds
  /\ \A n \in 1 .. Len(writer.emits) : a[n] = a[n - 1] \o Emission(writer, object, writer.emits[n])
  /\ Body(writer, object) = a[Len(writer.emits)]

\* The elements are emitted one after the other.
LEMMA BodyTogether ==
  ASSUME NEW writer, NEW setters, NEW object \in Objects(writer.of, setters), NEW S,
         writer.emits \in Seq(S), writer.adds \in Documented(S)
  PROVE  \E a : EmittedInTurn(writer, S, object, a)
<1>. DEFINE N == Len(writer.emits)
            X == Documented(S)
            first == writer.adds
            step == [p \in X \X (1 .. N) |-> p[1] \o Emission(writer, object, writer.emits[p[2]])]
<1>1. N \in Nat /\ \A n \in 1 .. N : writer.emits[n] \in S
  BY ElementOfSeq
<1>2. first \in X
  OBVIOUS
<1>. HIDE DEF X, first
<1>3. step \in StepsOn(X, N)
  <2>1. ASSUME NEW p \in X \X (1 .. N) PROVE p[1] \o Emission(writer, object, writer.emits[p[2]]) \in X
    <3>1. p[1] \in Documented(S) /\ writer.emits[p[2]] \in S
      BY <1>1, <2>1 DEF X
    <3>2. Emission(writer, object, writer.emits[p[2]]) \in Documented(S)
      BY <3>1, EmissionSound
    <3>. QED  BY <3>1, <3>2, ValuesConcat DEF X
  <2>. QED  BY <2>1 DEF StepsOn
<1>4. PICK f : Unrolls(f, X, N, first, step)
  <2>. HIDE DEF N, step
  <2>. QED  BY <1>1, <1>2, <1>3, Recursion
<1>. USE DEF Unrolls
<1>5. \A n \in 1 .. N : /\ n \in 0 .. N /\ n # 0 /\ f[n - 1] \in X
                        /\ f[n] = f[n - 1] \o Emission(writer, object, writer.emits[n])
  <2>1. ASSUME NEW n \in 1 .. N
        PROVE  /\ n \in 0 .. N /\ n # 0 /\ f[n - 1] \in X
               /\ f[n] = f[n - 1] \o Emission(writer, object, writer.emits[n])
    <3>1. n \in 0 .. N /\ n # 0 /\ n - 1 \in 0 .. N
      BY <1>1
    <3>2. <<f[n - 1], n>> \in X \X (1 .. N) /\ f[n] = step[<<f[n - 1], n>>]
      BY <1>4, <3>1
    <3>. QED  BY <1>4, <3>1, <3>2
  <2>. QED  BY <2>1
<1>6. IsBody(writer, object, f)
  <2>1. \A n \in 0 .. N : n = 0 \/ n \in 1 .. N
    BY <1>1
  <2>2. \A n \in 0 .. N :
          f[n] = IF n = 0 THEN first ELSE f[n - 1] \o Emission(writer, object, writer.emits[n])
    BY <1>4, <1>5, <2>1
  <2>3. f = [n \in 0 .. N |-> f[n]]
    BY <1>4
  <2>. QED  BY <2>2, <2>3 DEF IsBody, first
<1>. DEFINE a == CHOOSE a : IsBody(writer, object, a)
<1>7. IsBody(writer, object, a)
  BY <1>6
<1>8. Body(writer, object) = a[N]
  BY DEF Body, IsBody
<1>. HIDE DEF a
<1>9. \A n \in 1 .. N : a[n] = a[n - 1] \o Emission(writer, object, writer.emits[n])
  BY <1>5, <1>7 DEF IsBody
<1>10. a[0] = first
  BY <1>1, <1>7 DEF IsBody, first
<1>. DEFINE T == {n \in 0 .. N : a[n] = f[n]}
<1>11. 0 \in T
  BY <1>1, <1>4, <1>10
<1>12. ASSUME NEW n \in 1 .. N, n - 1 \in T PROVE n \in T
  BY <1>5, <1>9, <1>12
<1>. HIDE DEF T
<1>13. 0 .. N \subseteq T
  BY <1>1, <1>11, <1>12, UptoInduction
<1>14. a[N] = f[N]
  BY <1>1, <1>13 DEF T
<1>. QED  BY <1>4, <1>5, <1>8, <1>14 DEF EmittedInTurn, X, first

\* A document says of a field that the writer does not mix up what its member holds, if
\* the element is emitted at all.
LEMMA BodySays ==
  ASSUME NEW writer, NEW confused, WriterClear(writer, confused), NEW setters,
         NEW object \in Objects(writer.of, setters)
  PROVE  /\ Body(writer, object) \in Documented(Written(writer))
         /\ \A f \in FieldsOf(writer.of) \ confused :
              ValuesOf(Body(writer, object), {f}) =
                IF Emitted(writer, object, f) THEN Held(object, writer.of.shows[f]) ELSE <<>>
<1>. DEFINE S == Written(writer)
            N == Len(writer.emits)
<1>1. writer.emits \in Seq(STRING) /\ writer.adds \in Seq([name : STRING, value : Nat])
  BY DEF WriterClear
<1>2. N \in Nat /\ DOMAIN writer.emits = 1 .. N /\ \A n \in 1 .. N : writer.emits[n] \in S
  BY <1>1 DEF Written, Range
<1>3. writer.emits \in Seq(S)
  <2>. DEFINE s == writer.emits
  <2>1. s \in Seq(STRING) /\ \A n \in 1 .. Len(s) : s[n] \in S
    BY <1>1, <1>2
  <2>. HIDE DEF s, S
  <2>2. s \in Seq(S)
    BY <2>1
  <2>. QED  BY <2>2 DEF s
<1>4. writer.adds \in Documented(S)
  <2>. DEFINE s == writer.adds
  <2>1. s \in Seq([name : STRING, value : Nat]) /\ \A n \in 1 .. Len(s) : s[n].name \in S
    BY <1>1 DEF Written
  <2>. HIDE DEF s, S
  <2>2. ASSUME NEW n \in 1 .. Len(s) PROVE s[n] \in Elements(S)
    <3>1. s[n] \in [name : STRING, value : Nat] /\ s[n].name \in S
      BY <2>1, ElementOfSeq
    <3>. QED  BY <3>1 DEF Elements
  <2>3. s \in Documented(S)
    BY <2>1, <2>2 DEF Documented
  <2>. QED  BY <2>3 DEF s
<1>. HIDE DEF S
<1>5. PICK a : EmittedInTurn(writer, S, object, a)
  BY <1>3, <1>4, BodyTogether
<1>6. Body(writer, object) = a[N] /\ a[N] \in Documented(S)
  BY <1>2, <1>5 DEF EmittedInTurn
<1>7. ASSUME NEW f \in FieldsOf(writer.of) \ confused
      PROVE  ValuesOf(a[N], {f}) =
               IF Emitted(writer, object, f) THEN Held(object, writer.of.shows[f]) ELSE <<>>
  <2>. DEFINE values == IF Emitted(writer, object, f) THEN Held(object, writer.of.shows[f]) ELSE <<>>
  <2>1. /\ writer.from[f] = f
        /\ \E i \in DOMAIN writer.emits : \A j \in DOMAIN writer.emits : writer.emits[j] = f <=> j = i
        /\ \A i \in DOMAIN writer.adds : writer.adds[i].name # f
    BY <1>7 DEF WriterClear
  <2>2. PICK i \in 1 .. N : \A j \in 1 .. N : writer.emits[j] = f <=> j = i
    <3>1. PICK k \in DOMAIN writer.emits : \A j \in DOMAIN writer.emits : writer.emits[j] = f <=> j = k
      BY <2>1
    <3>2. DOMAIN writer.emits = 1 .. N
      BY <1>2
    <3>. HIDE DEF N
    <3>3. k \in 1 .. N
      BY <3>1, <3>2
    <3>4. \A j \in 1 .. N : writer.emits[j] = f <=> j = k
      BY <3>1, <3>2
    <3>. QED  BY <3>3, <3>4
  <2>3. values \in Seq(Nat)
    BY HeldTyped
  <2>4. \A n \in 1 .. N : /\ Emission(writer, object, writer.emits[n]) \in Documented(S)
                          /\ ValuesOf(Emission(writer, object, writer.emits[n]), {f}) =
                               IF n = i THEN values ELSE <<>>
    <3>1. ASSUME NEW n \in 1 .. N
          PROVE  /\ Emission(writer, object, writer.emits[n]) \in Documented(S)
                 /\ ValuesOf(Emission(writer, object, writer.emits[n]), {f}) =
                      IF n = i THEN values ELSE <<>>
      <4>. DEFINE e == writer.emits[n]
      <4>1. e \in S /\ (e \in {f} <=> n = i) /\ (n = i => e = f)
        BY <1>2, <2>2
      <4>. HIDE DEF e
      <4>2. /\ Emission(writer, object, e) \in Documented(S)
            /\ ValuesOf(Emission(writer, object, e), {f}) =
                 IF e \in {f} /\ Emitted(writer, object, e)
                 THEN Held(object, writer.of.shows[writer.from[e]]) ELSE <<>>
        BY <4>1, EmissionSound
      <4>. QED  BY <2>1, <4>1, <4>2 DEF e
    <3>. QED  BY <3>1
  <2>. HIDE DEF values
  <2>. DEFINE T == {n \in 0 .. N : ValuesOf(a[n], {f}) = IF n < i THEN <<>> ELSE values}
  <2>5. 0 \in T
    <3>1. ValuesOf(writer.adds, {f}) = <<>>
      BY <1>4, <2>1, ValuesSome
    <3>. QED  BY <1>2, <1>5, <3>1 DEF EmittedInTurn
  <2>6. ASSUME NEW n \in 1 .. N, n - 1 \in T PROVE n \in T
    <3>. DEFINE c == a[n - 1]
                d == Emission(writer, object, writer.emits[n])
    <3>1. n \in 0 .. N /\ n - 1 \in 0 .. N
      BY <1>2
    <3>2. c \in Documented(S) /\ d \in Documented(S) /\ a[n] = c \o d
      BY <1>5, <2>4, <3>1 DEF EmittedInTurn
    <3>3. /\ ValuesOf(c, {f}) = IF n - 1 < i THEN <<>> ELSE values
          /\ ValuesOf(d, {f}) = IF n = i THEN values ELSE <<>>
      BY <2>4, <2>6
    <3>. HIDE DEF c, d
    <3>4. ValuesOf(a[n], {f}) = ValuesOf(c, {f}) \o ValuesOf(d, {f})
      BY <3>2, ValuesConcat
    <3>5. values \o <<>> = values /\ <<>> \o values = values /\ <<>> \o <<>> = <<>>
      BY <2>3
    <3>9. n \in Nat /\ i \in Nat
      BY <1>2
    <3>6. CASE n < i
      <4>1. n - 1 < i /\ n # i
        BY <3>6, <3>9
      <4>. QED  BY <3>1, <3>3, <3>4, <3>5, <3>6, <4>1
    <3>7. CASE n = i
      <4>1. n - 1 < i /\ ~(n < i)
        BY <3>7, <3>9
      <4>2. ValuesOf(a[n], {f}) = values
        BY <3>3, <3>4, <3>5, <3>7, <4>1
      <4>. QED  BY <3>1, <4>1, <4>2
    <3>8. CASE n > i
      <4>1. ~(n - 1 < i) /\ ~(n < i) /\ n # i
        BY <3>8, <3>9
      <4>2. ValuesOf(a[n], {f}) = values
        BY <3>3, <3>4, <3>5, <4>1
      <4>. QED  BY <3>1, <4>1, <4>2
    <3>. QED  BY <3>6, <3>7, <3>8, <3>9
  <2>. HIDE DEF T
  <2>7. 0 .. N \subseteq T
    BY <1>2, <2>5, <2>6, UptoInduction
  <2>8. N \in T /\ ~(N < i)
    BY <1>2, <2>7
  <2>. QED  BY <2>8 DEF T, values
<1>. QED  BY <1>6, <1>7 DEF S

-----------------------------------------------------------------------------
(* Documents: the invariant                                                *)

\* The topic: its fields, the names of the elements of its documents, and those of the
\* elements that are taken for a field.
Confused == Topics[topic].confused
Fields == FieldsOf(Puts.of)
Shown == Range(Gets.takes)
Names == Written(Puts) \cup Knows(Gets) \cup {"Unknown"}
TakenFor(f) == {f} \cup {e \in DOMAIN Gets.takes : Gets.takes[e] = f}

\* The request object tells what the user set, the response object what the answers
\* said, and what the server has of this request is what the request object holds.
AskedSound ==
  /\ meant \in Documented(Fields) /\ asked \in Objects(Puts.of, Fields)
  /\ \A f \in Fields : KeptApart(Puts.of, Fields, f) => Tells(Puts.of, asked, meant, {f}, f)

ShownSound ==
  /\ said \in Documented(Names) /\ shown \in Objects(Gets.of, Shown)
  /\ \A f \in Shown \ Confused : Tells(Gets.of, shown, said, TakenFor(f), f)

StoredSound ==
  /\ stored \in Documented(Names)
  /\ own => kind = "document" /\ (pc # "settings" \/ attempt > 0) /\ stored = Body(Puts, asked)

DocumentSound == topic \in DOMAIN Topics => AskedSound /\ ShownSound /\ StoredSound

\* What is assumed of every topic holds of this one.
LEMMA TopicClear ==
  ASSUME topic \in DOMAIN Topics
  PROVE  WriterClear(Puts, Confused) /\ ReaderClear(Gets, Written(Puts), Confused)
BY TopicsAssumption DEF Puts, Gets, Confused

\* The element of the name of a field is taken for it, or is in none of its documents.
LEMMA TakenFits ==
  ASSUME topic \in DOMAIN Topics, NEW f \in Shown \ Confused
  PROVE  KeptApart(Gets.of, Shown, f) /\ NamesFit(Gets, Names, TakenFor(f), f)
<1>1. /\ KeptApart(Gets.of, Shown, f)
      /\ f \notin Gets.skips
      /\ \A e \in DOMAIN Gets.takes : Gets.takes[e] = f => e \notin Gets.skips \cup Gets.named
      /\ IF f \in DOMAIN Gets.takes THEN Gets.takes[f] = f ELSE f \notin Written(Puts) \cup {"Unknown"}
  BY TopicClear DEF ReaderClear, Shown
<1>2. ASSUME NEW s \in Names
      PROVE  /\ s \in TakenFor(f) <=> s \in DOMAIN Gets.takes /\ Gets.takes[s] = f
             /\ s \in TakenFor(f) => s \notin Gets.skips \cup Gets.named
  <2>1. s = f => s \in DOMAIN Gets.takes /\ Gets.takes[s] = f
    BY <1>1 DEF Names, Knows
  <2>2. s \in TakenFor(f) <=> s \in DOMAIN Gets.takes /\ Gets.takes[s] = f
    BY <2>1 DEF TakenFor
  <2>. QED  BY <1>1, <2>2
<1>. QED  BY <1>1, <1>2 DEF NamesFit

\* What the user set is what the document says.
LEMMA SettingsTrue ==
  ASSUME topic \in DOMAIN Topics, AskedSound, StoredSound
  PROVE  SettingsArrive
<1>. DEFINE given == {meant[i].name : i \in DOMAIN meant}
            Said(g) == Says(Puts.of, meant, {g}, g)
<1>1. WriterClear(Puts, Confused)
  BY TopicClear
<1>2. ASSUME NEW g, KeptApart(Puts.of, Fields, g)
      PROVE  /\ Has(Puts.of, asked, g) <=> Said(g) # <<>>
             /\ Held(asked, Puts.of.shows[g]) = Said(g)
             /\ Said(g) # <<>> <=> g \in given
  <2>1. g \in Fields
    BY <1>2 DEF KeptApart
  <2>2. Tells(Puts.of, asked, meant, {g}, g)
    BY <1>2, <2>1 DEF AskedSound
  <2>3. Said(g) = <<>> <=> \A i \in DOMAIN meant : meant[i].name \notin {g}
    BY SaysSome DEF AskedSound
  <2>4. (\A i \in DOMAIN meant : meant[i].name \notin {g}) <=> g \notin given
    OBVIOUS
  <2>5. Has(Puts.of, asked, g) <=> Said(g) # <<>>
    BY <1>2, <2>2, ToldAsSaid
  <2>6. Held(asked, Puts.of.shows[g]) = Said(g)
    BY <1>2, <2>2, ToldAsSaid
  <2>. HIDE DEF Said, given
  <2>. QED  BY <2>3, <2>4, <2>5, <2>6
<1>3. SUFFICES ASSUME own, NEW f \in Sendable \ Confused
               PROVE  ValuesOf(stored, {f}) = Said(f)
  BY DEF SettingsArrive, Confused
<1>4. /\ f \in FieldsOf(Puts.of) \ Confused /\ f \in Fields
      /\ f \in DOMAIN Puts.with => Puts.with[f] \subseteq given
      /\ f \in DOMAIN Puts.hides => Puts.hides[f] \notin given
  BY <1>3 DEF Sendable, Fields
<1>5. /\ KeptApart(Puts.of, Fields, f) /\ Puts.from[f] = f
      /\ f \in DOMAIN Puts.with => \A g \in Puts.with[f] : KeptApart(Puts.of, Fields, g)
      /\ f \in DOMAIN Puts.hides => KeptApart(Puts.of, Fields, Puts.hides[f])
  BY <1>1, <1>4 DEF WriterClear, Fields
<1>6. ValuesOf(stored, {f}) = IF Emitted(Puts, asked, f) THEN Held(asked, Puts.of.shows[f]) ELSE <<>>
  <2>1. asked \in Objects(Puts.of, Fields) /\ stored = Body(Puts, asked)
    BY <1>3 DEF AskedSound, StoredSound
  <2>. QED  BY <1>1, <1>4, <2>1, BodySays
<1>. HIDE DEF given, Said
<1>7. f \in DOMAIN Puts.with => \A g \in Puts.with[f] : Has(Puts.of, asked, g)
  BY <1>2, <1>4, <1>5
<1>8. f \in DOMAIN Puts.hides => ~Has(Puts.of, asked, Puts.hides[f])
  BY <1>2, <1>4, <1>5
<1>9. Emitted(Puts, asked, f) <=> Has(Puts.of, asked, f)
  BY <1>5, <1>7, <1>8 DEF Emitted
<1>10. /\ Has(Puts.of, asked, f) <=> Said(f) # <<>>
       /\ Held(asked, Puts.of.shows[f]) = Said(f)
  BY <1>2, <1>5
<1>. QED  BY <1>6, <1>9, <1>10

\* What the user is told is what the answers said.
LEMMA AnswersTrue ==
  ASSUME topic \in DOMAIN Topics, ShownSound
  PROVE  AnswersShown
<1>1. ASSUME NEW f \in Shown \ Confused
      PROVE  Told(Gets.of, shown, f) = Says(Gets.of, said, TakenFor(f), f)
  <2>1. KeptApart(Gets.of, Shown, f) /\ Tells(Gets.of, shown, said, TakenFor(f), f)
    BY TakenFits DEF ShownSound
  <2>. QED  BY <2>1, ToldAsSaid
<1>. QED  BY <1>1 DEF AnswersShown, Shown, Confused, TakenFor

\* What is set from the construction on are fields of the class.
LEMMA ConstructedTyped ==
  ASSUME topic \in DOMAIN Topics, NEW calls \in Constructed(Puts)
  PROVE  calls \in Documented(Fields)
<1>. DEFINE Given(fields) == [i \in DOMAIN fields |-> Element(fields[i], 0)]
<1>1. /\ Puts.starts \in Seq(Fields)
      /\ IsFiniteSet(Needed(Puts)) /\ Needed(Puts) \subseteq Fields
  BY TopicClear DEF WriterClear, Fields
<1>2. ASSUME NEW fields \in Seq(Fields) PROVE Given(fields) \in Documented(Fields)
  <2>1. \A i \in 1 .. Len(fields) : fields[i] \in Fields
    BY ElementOfSeq
  <2>2. \A i \in 1 .. Len(fields) : Element(fields[i], 0) \in Elements(Fields)
    BY <2>1 DEF Element, Elements
  <2>3. Len(fields) \in Nat /\ DOMAIN fields = 1 .. Len(fields)
    OBVIOUS
  <2>. QED  BY <2>2, <2>3, IsASeq DEF Documented
<1>3. SetToSeq(Needed(Puts)) \in Seq(Fields)
  <2>. DEFINE S == Needed(Puts)
              n == Cardinality(S)
  <2>1. n \in Nat /\ ExistsBijection(1 .. n, S)
    BY <1>1, FS_CardinalityType
  <2>2. \E f \in [1 .. n -> S] : IsInjective(f)
    BY <2>1 DEF ExistsBijection, Bijection, Injection, IsInjective
  <2>3. SetToSeq(S) \in [1 .. n -> S]
    BY <2>2 DEF SetToSeq
  <2>. HIDE DEF n, S
  <2>4. SetToSeq(S) \in Seq(S)
    BY <2>1, <2>3
  <2>. QED  BY <1>1, <2>4 DEF S
<1>4. Puts.starts \o SetToSeq(Needed(Puts)) \in Seq(Fields)
  BY <1>1, <1>3
<1>5. calls = Given(Puts.starts) \/ calls = Given(Puts.starts \o SetToSeq(Needed(Puts)))
  BY DEF Constructed
<1>. HIDE DEF Given
<1>. QED  BY <1>1, <1>2, <1>4, <1>5

\* It holds when the user begins.
LEMMA InitDocumentSound == Init => DocumentSound
<1>. SUFFICES ASSUME Init, topic \in DOMAIN Topics
              PROVE  AskedSound /\ ShownSound /\ StoredSound
  BY DEF DocumentSound
<1>1. /\ meant \in Constructed(Puts) /\ asked = AfterSetters(Puts.of, meant)
      /\ stored = <<>> /\ own = FALSE /\ shown = Blank /\ said = <<>>
  BY DEF Init, DocumentInit
<1>2. meant \in Documented(Fields)
  BY <1>1, ConstructedTyped
<1>3. AskedSound
  BY <1>1, <1>2, SettersTell DEF AskedSound
<1>4. <<>> \in Documented(Names)
  BY DEF Documented
<1>5. ShownSound
  BY <1>1, <1>4, BlankTyped, NothingTold DEF ShownSound
<1>. QED  BY <1>1, <1>3, <1>4, <1>5 DEF StoredSound

\* A call of another kind leaves the documents alone.
LEMMA OtherCalls ==
  ASSUME IInv,
         \/ CopyStep \/ DeleteStep \/ PutStep \/ PlainStep
         \/ kind \in Copies /\ Overwrite /\ UNCHANGED <<deleteVars, putVars, plainVars, documentVars>>
         \/ OthersPut /\ UNCHANGED <<copyVars, plainVars, documentVars>>
  PROVE  UNCHANGED documentVars /\ kind # "document" /\ kind' = kind
<1>1. CASE \/ CopyStep
           \/ kind \in Copies /\ Overwrite /\ UNCHANGED <<deleteVars, putVars, plainVars, documentVars>>
  <2>1. kind' = kind /\ kind \in Copies
    BY <1>1, CopyCalled
  <2>. QED  BY <1>1, <2>1 DEF CopyStep, Copies
<1>2. CASE DeleteStep \/ (OthersPut /\ UNCHANGED <<copyVars, plainVars, documentVars>>)
  <2>1. pc \in DeletePlaces
    BY <1>2 DEF DeleteStep, Delete, ListPage, DeleteKey, PageDone, ListAgain, OthersPut, Reads, Changes,
       Attempt, DeletePlaces
  <2>2. kind = "delete"
    BY <2>1, DeletePlace
  <2>. QED  BY <1>2, <2>2 DEF DeleteStep, copyVars
<1>3. CASE PutStep
  <2>1. pc = "put"
    BY <1>3 DEF PutStep, Put, PutUnreadable, PutEntry, PutEtagDiffers, PutDone, FailHere, Changes,
       Attempt
  <2>2. kind = "put"
    BY <2>1 DEF IInv, KindSound, DeletePlaces, DocumentPlaces, CopyPlaces, AcrossPlaces, PartPlaces,
       Final
  <2>. QED  BY <1>3, <2>2 DEF PutStep, copyVars
<1>4. CASE PlainStep
  <2>1. pc = "plain"
    BY <1>4 DEF PlainStep, Plain, PlainRefused, PlainRead, PlainChange, FailHere, Reads, Changes,
       Attempt
  <2>2. kind = "plain"
    BY <2>1 DEF IInv, KindSound, DeletePlaces, DocumentPlaces, CopyPlaces, AcrossPlaces, PartPlaces,
       Final
  <2>. QED  BY <1>4, <2>2 DEF PlainStep, copyVars
<1>. QED  BY <1>1, <1>2, <1>3, <1>4

\* The topic of a behaviour does not change, and nothing that depends on it alone.
LEMMA SameTopic ==
  ASSUME UNCHANGED topic
  PROVE  /\ Puts' = Puts /\ Gets' = Gets /\ Confused' = Confused
         /\ Fields' = Fields /\ Shown' = Shown /\ Names' = Names
         /\ \A f : TakenFor(f)' = TakenFor(f)
BY DEF Puts, Gets, Confused, Fields, Shown, Names, TakenFor

\* What a step does not touch stays sound.
LEMMA AskedKept ==
  ASSUME UNCHANGED <<topic, asked, meant>>, AskedSound
  PROVE  AskedSound'
BY SameTopic DEF AskedSound

\* The same for the response object,
LEMMA ShownKept ==
  ASSUME UNCHANGED <<topic, shown, said>>, ShownSound
  PROVE  ShownSound'
BY SameTopic DEF ShownSound

\* and for what the server has.
LEMMA StoredKept ==
  ASSUME UNCHANGED <<topic, asked, stored, own, kind>>, StoredSound,
         own => pc' # "settings" \/ attempt' > 0
  PROVE  StoredSound'
BY SameTopic DEF StoredSound

\* A setter of the request says one thing more and stores it.
LEMMA SetFieldSound ==
  ASSUME topic \in DOMAIN Topics, AskedSound, NEW f \in Fields, SetField(f)
  PROVE  AskedSound'
<1>. DEFINE value == Cardinality({i \in DOMAIN meant : meant[i].value > 0}) + 1
            e == Element(f, value)
<1>1. meant \in Documented(Fields) /\ asked \in Objects(Puts.of, Fields)
  BY DEF AskedSound
<1>2. value \in Nat
  <2>1. DOMAIN meant = 1 .. Len(meant) /\ Len(meant) \in Nat
    BY <1>1 DEF Documented
  <2>2. IsFiniteSet(1 .. Len(meant))
    BY <2>1, FS_Interval
  <2>3. IsFiniteSet({i \in DOMAIN meant : meant[i].value > 0})
    BY <2>1, <2>2, FS_Subset
  <2>. QED  BY <2>3, FS_CardinalityType
<1>3. asked' = Store(Puts.of, asked, f, value) /\ meant' = Append(meant, e) /\ topic' = topic
  BY DEF SetField
<1>4. Puts' = Puts /\ Fields' = Fields
  BY <1>3 DEF Puts, Fields
<1>. HIDE DEF value
<1>5. e \in Elements(Fields) /\ e.name = f /\ e.value = value
  BY <1>2 DEF Elements, Element
<1>. HIDE DEF e
<1>6. meant' \in Documented(Fields)
  BY <1>1, <1>3, <1>5, ValuesAppend
<1>7. asked' \in Objects(Puts.of, Fields)
  BY <1>1, <1>2, <1>3, StoreTyped
<1>8. ASSUME NEW g \in Fields, KeptApart(Puts.of, Fields, g)
      PROVE  Tells(Puts.of, asked', meant', {g}, g)
  <2>1. Tells(Puts.of, asked, meant, {g}, g)
    BY <1>8 DEF AskedSound
  <2>2. e.name \in {g} <=> f = g
    BY <1>5
  <2>. QED  BY <1>1, <1>2, <1>3, <1>5, <1>8, <2>1, <2>2, StoreTells
<1>. QED  BY <1>4, <1>6, <1>7, <1>8 DEF AskedSound

\* A request leaves what the request object holds, however often it is sent.
LEMMA SendSound ==
  ASSUME RequestSound, topic \in DOMAIN Topics, AskedSound, StoredSound, Send,
         kind = "document", UNCHANGED kind
  PROVE  StoredSound'
<1>1. UNCHANGED <<topic, asked>>
  BY DEF Send
<1>2. \E good \in {"ask", "done"} : EndsWell("settings", good) \/ EndsBadly("settings", "done")
  <2>1. CASE HasGets
    BY <2>1, GoodAnswer, BadAnswer, AnswersTyped DEF Send, Changes
  <2>2. CASE ~HasGets
    BY <2>2, GoodAnswer, BadAnswer, AnswersTyped DEF Send, Changes
  <2>. QED  BY <2>1, <2>2
<1>3. pc' # "settings" \/ attempt' > 0
  BY <1>2 DEF EndsWell, EndsBadly, RequestSound
<1>4. (stored' = Body(Puts, asked) /\ own') \/ UNCHANGED <<stored, own>>
  BY DEF Send, Changes
<1>5. Body(Puts, asked) \in Documented(Names)
  <2>1. Body(Puts, asked) \in Documented(Written(Puts))
    BY TopicClear, BodySays DEF AskedSound
  <2>2. Written(Puts) \subseteq Names
    BY DEF Names
  <2>. QED  BY <2>1, <2>2, DocumentedMore
<1>. QED  BY <1>1, <1>3, <1>4, <1>5, SameTopic DEF StoredSound

\* An answer is read into what the answers before have left, or into a new object.
LEMMA AskSound ==
  ASSUME topic \in DOMAIN Topics, ShownSound, stored \in Documented(Names), Ask
  PROVE  ShownSound'
<1>. DEFINE fresh == topic \in Parts
            object == IF fresh THEN Blank ELSE shown
            before == IF fresh THEN <<>> ELSE said
<1>1. UNCHANGED topic
  BY DEF Ask
<1>2. /\ Gets' = Gets /\ Shown' = Shown /\ Names' = Names /\ Confused' = Confused
      /\ \A f : TakenFor(f)' = TakenFor(f)
  BY <1>1 DEF Gets, Shown, Names, Puts, Confused, TakenFor
<1>3. \/ shown' = Read(Gets, stored, object) /\ said' = before \o Understood(Gets, stored)
      \/ UNCHANGED <<shown, said>>
  BY DEF Ask, Reads
<1>4. Gets.stops \in BOOLEAN
  BY TopicClear DEF ReaderClear
<1>5. /\ object \in Objects(Gets.of, Range(Gets.takes)) /\ before \in Documented(Names)
      /\ \A f \in Shown \ Confused : Tells(Gets.of, object, before, TakenFor(f), f)
  <2>1. <<>> \in Documented(Names)
    BY DEF Documented
  <2>. QED  BY <2>1, BlankTyped, NothingTold DEF ShownSound, Shown
<1>. HIDE DEF object, before
<1>6. CASE shown' = Read(Gets, stored, object) /\ said' = before \o Understood(Gets, stored)
  <2>1. Read(Gets, stored, object) \in Objects(Gets.of, Shown)
    BY <1>4, <1>5, ReadTyped DEF Shown
  <2>2. Understood(Gets, stored) \in Documented(Names)
    BY UnderstoodTyped
  <2>3. before \o Understood(Gets, stored) \in Documented(Names)
    BY <1>5, <2>2, ValuesConcat
  <2>4. ASSUME NEW f \in Shown \ Confused
        PROVE  Tells(Gets.of, Read(Gets, stored, object), before \o Understood(Gets, stored),
                     TakenFor(f), f)
    <3>1. KeptApart(Gets.of, Range(Gets.takes), f) /\ NamesFit(Gets, Names, TakenFor(f), f)
      BY TakenFits DEF Shown
    <3>2. Tells(Gets.of, object, before, TakenFor(f), f)
      BY <1>5
    <3>. QED  BY <1>4, <1>5, <3>1, <3>2, ReadTells
  <2>. QED  BY <1>2, <1>6, <2>1, <2>3, <2>4 DEF ShownSound
<1>7. CASE UNCHANGED <<shown, said>>
  BY <1>2, <1>7 DEF ShownSound
<1>. QED  BY <1>3, <1>6, <1>7

\* What others add at the server is not of this request.
LEMMA ServerSaysSound ==
  ASSUME ShownSound, StoredSound, pc = "ask", UNCHANGED kind,
         NEW name \in Knows(Gets) \cup {"Unknown"}, ServerSays(name)
  PROVE  StoredSound'
<1>. DEFINE e == Element(name, Len(stored) + Len(said) + 1)
<1>1. stored' = Append(stored, e) /\ UNCHANGED <<topic, own>> /\ ~own
  BY DEF ServerSays
<1>2. e \in Elements(Names)
  <2>1. Len(stored) \in Nat /\ Len(said) \in Nat
    BY DEF ShownSound, StoredSound, Documented
  <2>2. name \in Names
    BY DEF Names
  <2>. QED  BY <2>1, <2>2 DEF Element, Elements
<1>. HIDE DEF e
<1>3. stored' \in Documented(Names)
  BY <1>1, <1>2, ValuesAppend DEF StoredSound
<1>. QED  BY <1>1, <1>3, SameTopic DEF StoredSound

\* Every step about a document keeps the three.
LEMMA DocumentStepSound ==
  ASSUME IInv, topic \in DOMAIN Topics, AskedSound, ShownSound, StoredSound,
         DocumentStep \/ (DocumentOthers /\ UNCHANGED <<copyVars, deleteVars, putVars, plainVars>>)
  PROVE  UNCHANGED topic /\ AskedSound' /\ ShownSound' /\ StoredSound'
<1>1. kind' = kind
  BY DEF DocumentStep, copyVars
<1>2. RequestSound
  BY DEF IInv
<1>3. ASSUME pc = "settings", NEW f \in FieldsOf(Puts.of), SetField(f)
      PROVE  UNCHANGED topic /\ AskedSound' /\ ShownSound' /\ StoredSound'
  <2>1. UNCHANGED <<topic, stored, own, shown, said>> /\ attempt = 0
    BY <1>3 DEF SetField
  <2>2. ~own
    BY <1>3, <2>1 DEF StoredSound
  <2>3. StoredSound'
    BY <2>1, <2>2, SameTopic DEF StoredSound
  <2>. QED  BY <1>3, <2>1, <2>3, SetFieldSound, ShownKept DEF Fields
<1>4. ASSUME pc = "settings", SendRefused
      PROVE  UNCHANGED topic /\ AskedSound' /\ ShownSound' /\ StoredSound'
  <2>1. UNCHANGED documentVars /\ pc' = "done"
    BY <1>4 DEF SendRefused, FailHere
  <2>2. UNCHANGED <<topic, asked, meant, stored, own, shown, said>>
    BY <2>1 DEF documentVars
  <2>. QED  BY <1>1, <2>1, <2>2, AskedKept, ShownKept, StoredKept
<1>5. ASSUME pc = "settings", Send
      PROVE  UNCHANGED topic /\ AskedSound' /\ ShownSound' /\ StoredSound'
  <2>1. kind = "document"
    BY <1>5 DEF IInv, KindSound, DeletePlaces, DocumentPlaces, CopyPlaces, AcrossPlaces, PartPlaces,
       Final
  <2>2. UNCHANGED <<topic, asked, meant, shown, said>>
    BY <1>5 DEF Send
  <2>. QED  BY <1>1, <1>2, <1>5, <2>1, <2>2, SendSound, AskedKept, ShownKept
<1>6. ASSUME pc = "ask", Ask
      PROVE  UNCHANGED topic /\ AskedSound' /\ ShownSound' /\ StoredSound'
  <2>1. UNCHANGED <<topic, asked, meant, stored, own>>
    BY <1>6 DEF Ask
  <2>2. EndsWell("ask", "again") \/ EndsBadly("ask", "done")
    BY <1>2, <1>6, GoodAnswer, BadAnswer DEF Ask, Reads
  <2>3. pc' # "settings"
    BY <2>2 DEF EndsWell, EndsBadly
  <2>4. stored \in Documented(Names)
    BY DEF StoredSound
  <2>. QED  BY <1>1, <1>6, <2>1, <2>3, <2>4, AskSound, AskedKept, StoredKept
<1>7. ASSUME AskAgain \/ AskNoMore
      PROVE  UNCHANGED topic /\ AskedSound' /\ ShownSound' /\ StoredSound'
  <2>1. UNCHANGED documentVars /\ pc' # "settings"
    BY <1>7 DEF AskAgain, AskNoMore
  <2>2. UNCHANGED <<topic, asked, meant, stored, own, shown, said>>
    BY <2>1 DEF documentVars
  <2>. QED  BY <1>1, <2>1, <2>2, AskedKept, ShownKept, StoredKept
<1>8. ASSUME pc = "ask", NEW name \in Knows(Gets) \cup {"Unknown"}, ServerSays(name)
      PROVE  UNCHANGED topic /\ AskedSound' /\ ShownSound' /\ StoredSound'
  <2>1. UNCHANGED <<topic, asked, meant, shown, said>>
    BY <1>8 DEF ServerSays
  <2>. QED  BY <1>1, <1>8, <2>1, ServerSaysSound, AskedKept, ShownKept
<1>9. ASSUME OthersSet
      PROVE  UNCHANGED topic /\ AskedSound' /\ ShownSound' /\ StoredSound'
  <2>1. UNCHANGED <<topic, asked, meant, own, shown, said>> /\ ~own /\ stored' = <<>>
    BY <1>9 DEF OthersSet
  <2>2. <<>> \in Documented(Names)
    BY DEF Documented
  <2>. QED  BY <2>1, <2>2, AskedKept, ShownKept, SameTopic DEF StoredSound
<1>. QED
  BY <1>3, <1>4, <1>5, <1>6, <1>7, <1>8, <1>9 DEF DocumentStep, Document, DocumentOthers

\* And so does every step.
LEMMA NextDocumentSound == IInv /\ DocumentSound /\ [Next]_vars => DocumentSound'
<1>. SUFFICES ASSUME IInv, DocumentSound, [Next]_vars, topic' \in DOMAIN Topics
              PROVE  AskedSound' /\ ShownSound' /\ StoredSound'
  BY DEF DocumentSound
<1>1. CASE DocumentStep \/ (DocumentOthers /\ UNCHANGED <<copyVars, deleteVars, putVars, plainVars>>)
  <2>1. UNCHANGED topic
    BY <1>1 DEF DocumentStep, Document, DocumentOthers, SetField, SendRefused, Send, Ask, AskAgain,
       AskNoMore, ServerSays, OthersSet, documentVars
  <2>. QED  BY <1>1, <2>1, DocumentStepSound DEF DocumentSound
<1>2. CASE UNCHANGED documentVars /\ (kind # "document" \/ UNCHANGED <<pc, attempt>>) /\ UNCHANGED kind
  <2>1. UNCHANGED <<topic, asked, meant, stored, own, shown, said>>
    BY <1>2 DEF documentVars
  <2>2. AskedSound /\ ShownSound /\ StoredSound
    BY <2>1 DEF DocumentSound
  <2>3. own => pc' # "settings" \/ attempt' > 0
    BY <1>2, <2>2 DEF StoredSound
  <2>. QED  BY <1>2, <2>1, <2>2, <2>3, AskedKept, ShownKept, StoredKept
<1>3. CASE UNCHANGED vars
  <2>1. UNCHANGED documentVars /\ UNCHANGED <<pc, attempt, kind>>
    BY <1>3 DEF vars, requestVars, copyVars
  <2>. QED  BY <1>2, <2>1
<1>. QED  BY <1>1, <1>2, <1>3, OtherCalls DEF Next, Others, Ended

-----------------------------------------------------------------------------
(* What the invariant says of the calls                                    *)

\* A copy that succeeds has made a destination without gaps or overlaps that ends
\* where a version of the source did, for every size, part size and pool, however
\* the parts are retried and batched; a move has removed its source only when all
\* of a version is at the destination (ObjectOp::Copy, MoveObject).
THEOREM CopiesAreWhole == Spec => []CopyIsWhole
<1>1. IInv => CopyIsWhole
  <2>1. SUFFICES ASSUME IInv PROVE CopyIsWhole
    OBVIOUS
  <2>2. kind \in Copies /\ pc = "done" /\ result.succ =>
          /\ target # <<>> /\ target[1].lo = 0
          /\ \A k \in 2 .. Len(target) : target[k].lo = target[k - 1].hi + 1
          /\ \E v \in 1 .. latest : Last(target).hi = sizes[v] - 1
    BY <2>1 DEF IInv, TargetSound, WholeTarget, Chained
  <2>3. gone => \E v \in 1 .. latest : target = <<[lo |-> 0, hi |-> sizes[v] - 1, ver |-> v]>>
    BY <2>1 DEF IInv, TargetSound, OnePiece
  <2>. QED  BY <2>2, <2>3 DEF CopyIsWhole
<1>. QED  BY <1>1, CallsInvariance, PTL

\* What a call leaves behind is never more than its bad answers account for, and a
\* success reports an effect there is, however often requests are repeated
\* (BaseOp::NormalAction below ObjectOp::Copy and the plain requests).
THEOREM EffectsAreExplained == Spec => []EffectsExplained
<1>1. IInv => EffectsExplained
  BY DEF IInv, OpenSound, PlainSound, EffectsExplained
<1>. QED  BY <1>1, CallsInvariance, PTL

\* What a deletion by prefix reports is what it did, for every bucket and page size,
\* whatever others put meanwhile (CosAPI::DeleteObjects).
THEOREM DeletionIsTrue == Spec => []DeletionTrue
<1>1. IInv => DeletionTrue
  <2>1. SUFFICES ASSUME IInv PROVE DeletionTrue
    OBVIOUS
  <2>2. deleted \cap bucket \subseteq others
    BY <2>1 DEF IInv, DeleteSound
  <2>3. Cardinality(Unnamed) <= 1
    <3>1. PICK k : Unnamed \subseteq {k}
      BY <2>1 DEF IInv, DeleteSound
    <3>2. IsFiniteSet({k}) /\ Cardinality({k}) = 1
      BY FS_Singleton
    <3>3. Unnamed \in SUBSET {k}
      BY <3>1
    <3>4. Cardinality(Unnamed) <= Cardinality({k})
      BY <3>2, <3>3, FS_Subset
    <3>. QED  BY <3>2, <3>4
  <2>4. Unnamed # {} => trouble > 0
    BY <2>1 DEF IInv, DeleteSound
  <2>5. pc = "done" /\ result.succ => Found = {} \/ (marker = 0 /\ unread /\ deleted = {})
    BY <2>1 DEF IInv, DeleteSound
  <2>6. pc = "done" /\ result.succ /\ marker # 0 => bucket \subseteq others
    BY <2>5 DEF Found
  <2>7. pc = "done" /\ result.succ /\ marker = 0 /\ ~(bucket \subseteq others) => unread /\ deleted = {}
    BY <2>5 DEF Found
  <2>. QED  BY <2>2, <2>3, <2>4, <2>6, <2>7 DEF DeletionTrue, Unnamed
<1>. QED  BY <1>1, CallsInvariance, PTL

\* What PutObjects reports is what it did, for every directory (ObjectOp::PutObjects).
THEOREM PutsAreReported == Spec => []PutReported
<1>1. IInv => PutReported
  <2>1. SUFFICES ASSUME IInv PROVE PutReported
    OBVIOUS
  <2>2. /\ put = 1 .. entry - 1
        /\ \A o \in objects : o[2] \in put \/ (o[2] = entry /\ trouble > 0)
    BY <2>1 DEF IInv, PutSound
  <2>3. ASSUME NEW e \in put
        PROVE  StoredAt(e) \in objects /\ (tree[e] = "file" => NameOf(e) \in objects)
    <3>1. StoredAt(e) \in objects
      BY <2>1 DEF IInv, PutSound
    <3>2. tree[e] = "file" => StoredAt(e) = NameOf(e)
      BY DEF StoredAt, NameOf
    <3>. QED  BY <3>1, <3>2
  <2>. QED  BY <2>2, <2>3 DEF PutReported
<1>. QED  BY <1>1, CallsInvariance, PTL

\* What a request leaves at the server is what the user set, and a response object
\* tells what the answers said, for every class whose tables satisfy what is assumed
\* of them, every number of settings, elements and answers, and whatever others set
\* meanwhile (the request classes' GenerateRequestBody, the responses' ParseFromXmlString).
THEOREM DocumentsAreTrue == Spec => []DocumentsAgree
<1>1. DocumentSound => DocumentsAgree
  BY SettingsTrue, AnswersTrue DEF DocumentSound, DocumentsAgree
<1>. QED  BY <1>1, InitDocumentSound, NextDocumentSound, CallsInvariance, PTL DEF Spec

-----------------------------------------------------------------------------
(* A call goes on to its end: what is provable of Returns.                 *)

\* How far a place is from the end of the calls it is in; only those of a fixed
\* order of requests, which a deletion by prefix has not.
StageOf(p) ==
  CASE p = "copy" -> 8
    [] p = "head" -> 7
    [] p \in {"put copy", "init", "too large"} -> 6
    [] p = "pool" -> 5
    [] p = "fill" -> 4
    [] p \in {"complete", "abort"} -> 3
    [] p \in {"etag", "report"} -> 2
    [] p \in {"delete source", "put", "plain"} -> 1
    [] OTHER -> 0

\* The attempts a task of the batch may still make.
TriesLeft(k) == IF tasks[k].state = "runs" THEN MaxRetryTimes + 1 - tasks[k].tries ELSE 0

\* A step in the copying of parts: one more part is cut, a batch is put away, or a
\* task has made one of its attempts.
WindowForward ==
  \/ offset < offset' /\ offset' <= size
  \/ offset' = offset /\ Len(tasks') < Len(tasks)
  \/ /\ offset' = offset /\ Len(tasks') = Len(tasks)
     /\ \E k \in DOMAIN tasks :
          /\ TriesLeft(k) \in Nat /\ TriesLeft(k)' \in Nat /\ TriesLeft(k)' < TriesLeft(k)
          /\ \A j \in DOMAIN tasks \ {k} : tasks'[j] = tasks[j]

\* A call comes to a later place, or stays at one and has made one of its attempts,
\* put one of its entries, or gone on with its parts.
Forward ==
  \/ StageOf(pc') < StageOf(pc)
  \/ pc' = pc /\ entry' = entry /\ attempt' = attempt + 1 /\ attempt < MaxRetryTimes
  \/ pc = "put" /\ pc' = pc /\ entry <= Len(tree) /\ entry' = entry + 1
  \/ pc = "fill" /\ pc' = pc /\ size' = size /\ WindowForward

Straight == Copies \cup {"put", "plain"}

\* The caller's thread goes forward with every step, and nobody sets it back.
CallForward ==
  kind \in Straight =>
    \/ Forward
    \/ /\ ~(CopyStep \/ PutStep \/ PlainStep)
       /\ UNCHANGED <<pc, attempt, entry, tree, size, offset, tasks>>

\* The batch takes at least one task, and no task makes more attempts than it may.
GoingSound ==
  /\ pool \in Nat \ {0}
  /\ tree \in Seq({"dir", "file"})
  /\ \A k \in DOMAIN tasks : tasks[k].state = "runs" => tasks[k].tries <= MaxRetryTimes

LEMMA InitGoing == Init => GoingSound
<1>. SUFFICES ASSUME Init PROVE GoingSound
  OBVIOUS
<1>1. pool \in Nat \ {0}
  BY CopyAssumption DEF Init, CopyInit
<1>2. tree \in Seq({"dir", "file"})
  BY PrefixAssumption DEF Init, PrefixInit
<1>3. DOMAIN tasks = {}
  BY DEF Init, CopyInit
<1>. QED  BY <1>1, <1>2, <1>3 DEF GoingSound

\* The size of the pool, the batch and the directory, by the steps that change them.
LEMMA WhoChanges ==
  ASSUME [Next]_vars
  PROVE  /\ tree' = tree
         /\ MakePool \/ pool' = pool
         /\ StartTask \/ CopyTask \/ Collect \/ tasks' = tasks
<1>1. CASE CopyStep
  <2>1. tree' = tree
    BY <1>1 DEF CopyStep, putVars
  <2>2. Copy
    BY <1>1 DEF CopyStep
  <2>3. CASE CopyBadSource \/ CopyBegin \/ TooLarge \/ CheckEtag \/ ReportTask
    <3>1. UNCHANGED copyVars
      BY <2>3 DEF CopyBadSource, CopyBegin, TooLarge, CheckEtag, ReportTask
    <3>. QED  BY <2>1, <3>1 DEF copyVars, windowVars
  <2>4. CASE HeadSource
    BY <2>1, <2>4 DEF HeadSource
  <2>5. CASE PutObjectCopy \/ DeleteSource \/ InitMultiUpload \/ AbortMultiUpload
             \/ CompleteMultiUpload
    <3>1. UNCHANGED windowVars
      BY <2>5 DEF PutObjectCopy, DeleteSource, InitMultiUpload, AbortMultiUpload, CompleteMultiUpload
    <3>. QED  BY <2>1, <3>1 DEF windowVars
  <2>6. CASE MakePool
    BY <2>1, <2>6 DEF MakePool
  <2>7. CASE StartTask \/ CopyTask \/ Collect
    BY <2>1, <2>7 DEF StartTask, CopyTask, TaskAttempt, Collect
  <2>. QED  BY <2>2, <2>3, <2>4, <2>5, <2>6, <2>7 DEF Copy
<1>2. CASE DeleteStep
  <2>1. UNCHANGED <<copyVars, putVars>>
    BY <1>2 DEF DeleteStep, Delete, ListPage, DeleteKey, PageDone, ListAgain
  <2>. QED  BY <2>1 DEF copyVars, windowVars, putVars
<1>3. CASE PutStep
  <2>1. UNCHANGED copyVars /\ tree' = tree
    BY <1>3 DEF PutStep, Put, PutUnreadable, PutEntry, PutEtagDiffers, PutDone, putVars
  <2>. QED  BY <2>1 DEF copyVars, windowVars
<1>4. CASE PlainStep \/ DocumentStep
  <2>1. UNCHANGED <<copyVars, putVars>>
    BY <1>4 DEF PlainStep, DocumentStep
  <2>. QED  BY <2>1 DEF copyVars, windowVars, putVars
<1>5. CASE Others
  <2>1. UNCHANGED <<windowVars, putVars>>
    BY <1>5 DEF Others, Overwrite, OthersPut, copyVars
  <2>. QED  BY <2>1 DEF windowVars, putVars
<1>6. CASE Ended \/ UNCHANGED vars
  BY <1>6 DEF Ended, vars, copyVars, windowVars, putVars
<1>. QED  BY <1>1, <1>2, <1>3, <1>4, <1>5, <1>6 DEF Next

\* One attempt of a task, and what it leaves it.
LEMMA TaskShortens ==
  ASSUME IInv, GoingSound, NEW k \in DOMAIN tasks, TaskAttempt(k)
  PROVE  /\ Len(tasks') = Len(tasks) /\ DOMAIN tasks' = DOMAIN tasks
         /\ \A j \in DOMAIN tasks \ {k} : tasks'[j] = tasks[j]
         /\ tasks'[k].state = "runs" => tasks'[k].tries <= MaxRetryTimes
         /\ TriesLeft(k) \in Nat /\ TriesLeft(k)' \in Nat /\ TriesLeft(k)' < TriesLeft(k)
<1>1. PICK r \in {Good} \cup Failures : TaskAnswered(k, r)
  BY AnswersTyped DEF TaskAttempt
<1>. DEFINE state == IF r.succ THEN "copied"
                     ELSE IF GivesUp(r, tasks[k].tries) THEN "failed" ELSE "runs"
            etag == IF r.succ THEN Piece(tasks[k].lo, tasks[k].hi) ELSE tasks[k].etag
            ended == [tasks[k] EXCEPT !.state = state]
            tried == [ended EXCEPT !.tries = tasks[k].tries + 1]
            task == [tried EXCEPT !.etag = etag]
<1>2. tasks \in Seq(Tasks) /\ k \in 1 .. Len(tasks) /\ DOMAIN tasks = 1 .. Len(tasks)
  BY LenProperties DEF IInv, CopyTyped
<1>3. tasks[k] \in Tasks /\ tasks[k].tries \in Nat
  <2>1. tasks[k] \in Tasks
    BY <1>2, ElementOfSeq
  <2>. QED  BY <2>1 DEF Tasks
<1>4. tasks[k].state = "runs" /\ tasks[k].tries <= MaxRetryTimes /\ MaxRetryTimes \in Nat
  BY RetryAssumption DEF TaskAttempt, GoingSound
<1>5. tasks' = [tasks EXCEPT ![k] = task]
  BY <1>2, <1>1 DEF TaskAnswered
<1>6. /\ state \in {"runs", "copied", "failed"}
      /\ state = "runs" => tasks[k].tries < MaxRetryTimes
  BY <1>3, <1>4 DEF GivesUp
<1>. HIDE DEF state, etag
<1>7. task.state = state /\ task.tries = tasks[k].tries + 1
  BY <1>3 DEF Tasks
<1>. HIDE DEF task
<1>8. tasks'[k] = task /\ \A j \in DOMAIN tasks \ {k} : tasks'[j] = tasks[j]
  BY <1>2, <1>5
<1>9. Len(tasks') = Len(tasks) /\ DOMAIN tasks' = DOMAIN tasks
  <2>1. \E r2 \in {Good} \cup Failures : TaskAnswered(k, r2)
    BY <1>1
  <2>2. tasks' \in Seq(Tasks) /\ Len(tasks') = Len(tasks)
    BY <1>1, <1>4, TaskAnsweredSound
  <2>. QED  BY <1>2, <2>2, LenProperties
<1>10. TriesLeft(k) = MaxRetryTimes + 1 - tasks[k].tries
  BY <1>4 DEF TriesLeft
<1>11. TriesLeft(k)' = IF state = "runs" THEN MaxRetryTimes + 1 - (tasks[k].tries + 1) ELSE 0
  BY <1>7, <1>8 DEF TriesLeft
<1>12. /\ MaxRetryTimes + 1 - tasks[k].tries \in Nat
       /\ (IF state = "runs" THEN MaxRetryTimes + 1 - (tasks[k].tries + 1) ELSE 0) \in Nat
       /\ (IF state = "runs" THEN MaxRetryTimes + 1 - (tasks[k].tries + 1) ELSE 0)
            < MaxRetryTimes + 1 - tasks[k].tries
       /\ state = "runs" => tasks[k].tries + 1 <= MaxRetryTimes
  BY <1>3, <1>4, <1>6
<1>. QED  BY <1>7, <1>8, <1>9, <1>10, <1>11, <1>12

\* A task that is started has the type of tasks.
LEMMA StartedTyped ==
  ASSUME IInv, StartTask
  PROVE  [lo |-> offset, hi |-> RangeEnd(offset), state |-> "runs",
          tries |-> 0, etag |-> NoPiece] \in Tasks
<1>1. RangeEnd(offset) \in Nat
  <2>1. \A o, p, n \in Nat : o < n => (IF o + p >= n THEN n - 1 ELSE o + p) \in Nat
    OBVIOUS
  <2>2. offset \in Nat /\ PartSize \in Nat /\ size \in Nat /\ offset < size
    BY CopyAssumption DEF IInv, CopyTyped, StartTask, FillGoesOn
  <2>. QED  BY <2>1, <2>2 DEF RangeEnd
<1>. QED  BY <1>1 DEF Tasks, Pieces, NoPiece, IInv, CopyTyped

\* The pool has room for a task, and tasks are never tried too often.
LEMMA GoingStep ==
  ASSUME IInv, GoingSound, [Next]_vars
  PROVE  GoingSound'
<1>1. tree' = tree
  BY WhoChanges
<1>2. pool' \in Nat \ {0}
  <2>1. CASE MakePool
    <3>1. \A n \in Nat, p \in Nat \ {0} : n \div p + 1 \in Nat \ {0}
      OBVIOUS
    <3>2. size \in Nat /\ PartSize \in Nat \ {0} /\ pool \in Nat \ {0}
      BY CopyAssumption DEF IInv, CopyTyped, GoingSound
    <3>3. size \div PartSize + 1 \in Nat \ {0}
      BY <3>1, <3>2
    <3>. QED  BY <2>1, <3>2, <3>3 DEF MakePool
  <2>2. CASE pool' = pool
    BY <2>2 DEF GoingSound
  <2>. QED  BY <2>1, <2>2, WhoChanges
<1>3. ASSUME NEW j \in DOMAIN tasks', tasks'[j].state = "runs" PROVE tasks'[j].tries <= MaxRetryTimes
  <2>1. CASE StartTask
    <3>. DEFINE e == [lo |-> offset, hi |-> RangeEnd(offset), state |-> "runs",
                      tries |-> 0, etag |-> NoPiece]
    <3>1. tasks' = Append(tasks, e) /\ e.tries = 0
      BY <2>1 DEF StartTask
    <3>. HIDE DEF e
    <3>2. tasks \in Seq(Tasks) /\ DOMAIN tasks = 1 .. Len(tasks) /\ Len(tasks) \in Nat
      BY LenProperties DEF IInv, CopyTyped
    <3>3. e \in Tasks
      BY <2>1, StartedTyped DEF e
    <3>4. /\ tasks'[Len(tasks) + 1] = e /\ \A i \in 1 .. Len(tasks) : tasks'[i] = tasks[i]
          /\ DOMAIN tasks' = 1 .. Len(tasks) + 1
      <4>1. /\ tasks' \in Seq(Tasks) /\ Len(tasks') = Len(tasks) + 1
            /\ tasks'[Len(tasks) + 1] = e
            /\ \A i \in 1 .. Len(tasks) : tasks'[i] = tasks[i]
        BY <3>1, <3>2, <3>3, AppendProperties
      <4>. QED  BY <4>1, LenProperties
    <3>5. CASE j = Len(tasks) + 1
      BY <3>1, <3>4, <3>5, RetryAssumption
    <3>6. CASE j # Len(tasks) + 1
      <4>1. j \in 1 .. Len(tasks) /\ tasks'[j] = tasks[j]
        BY <1>3, <3>2, <3>4, <3>6
      <4>. QED  BY <1>3, <3>2, <4>1 DEF GoingSound
    <3>. QED  BY <3>5, <3>6
  <2>2. CASE CopyTask
    <3>1. PICK k \in DOMAIN tasks : TaskAttempt(k)
      BY <2>2 DEF CopyTask
    <3>. QED  BY <1>3, <3>1, TaskShortens DEF GoingSound
  <2>3. CASE Collect
    BY <1>3, <2>3 DEF Collect, GoingSound
  <2>4. CASE tasks' = tasks
    BY <1>3, <2>4 DEF GoingSound
  <2>. QED  BY <2>1, <2>2, <2>3, <2>4, WhoChanges
<1>. QED  BY <1>1, <1>2, <1>3 DEF GoingSound

\* The places in their order.
LEMMA Stages ==
  /\ StageOf("copy") = 8 /\ StageOf("head") = 7 /\ StageOf("put copy") = 6 /\ StageOf("init") = 6
  /\ StageOf("too large") = 6 /\ StageOf("pool") = 5 /\ StageOf("fill") = 4
  /\ StageOf("complete") = 3 /\ StageOf("abort") = 3 /\ StageOf("etag") = 2
  /\ StageOf("report") = 2 /\ StageOf("delete source") = 1 /\ StageOf("put") = 1
  /\ StageOf("plain") = 1 /\ \A p \in Final : StageOf(p) = 0
BY DEF StageOf, Final

\* The places that may follow one come after it.
LEMMA StagesFall ==
  ASSUME NEW p, NEW q,
         \/ StageOf(p) = 8 /\ StageOf(q) \in {7, 6, 0}
         \/ StageOf(p) = 7 /\ StageOf(q) \in {6, 0}
         \/ StageOf(p) = 6 /\ StageOf(q) \in {5, 2, 0}
         \/ StageOf(p) = 5 /\ StageOf(q) \in {4, 0}
         \/ StageOf(p) = 4 /\ StageOf(q) = 3
         \/ StageOf(p) = 3 /\ StageOf(q) \in {2, 0}
         \/ StageOf(p) = 2 /\ StageOf(q) \in {1, 0}
         \/ StageOf(p) = 1 /\ StageOf(q) = 0
  PROVE  StageOf(q) < StageOf(p)
OBVIOUS

\* A request ends, or makes one attempt more.
LEMMA RequestsForward ==
  ASSUME NEW at, NEW good, NEW bad, EndsWell(at, good) \/ EndsBadly(at, bad),
         StageOf(good) < StageOf(at), StageOf(bad) < StageOf(at), entry' = entry
  PROVE  Forward
BY DEF Forward, EndsWell, EndsBadly

\* Every step of a copy goes forward.
LEMMA CopiesForward ==
  ASSUME IInv, GoingSound, CopyStep
  PROVE  Forward
<1>1. RequestSound /\ entry' = entry /\ Copy
  BY DEF CopyStep, putVars, IInv
<1>2. CASE CopyBadSource \/ CopyBegin \/ TooLarge \/ CheckEtag \/ MakePool \/ ReportTask
  <2>1. \/ pc \in {"copy", "too large", "etag", "pool", "report"} /\ pc' \in Final
        \/ pc = "copy" /\ pc' \in {"head", "put copy"}
        \/ pc = "pool" /\ pc' = "fill"
        \/ pc = "etag" /\ pc' = "delete source"
    BY <1>2 DEF CopyBadSource, CopyBegin, TooLarge, CheckEtag, MakePool, ReportTask, FailHere, Final
  <2>2. StageOf(pc') < StageOf(pc)
    BY <2>1, Stages, StagesFall
  <2>. QED  BY <2>2 DEF Forward
<1>3. "done" \in Final
  BY DEF Final
<1>4. CASE HeadSource
  <2>. DEFINE good == AfterHead(sizes[latest])
  <2>1. good \in {"put copy", "init", "too large"}
    BY DEF AfterHead
  <2>2. EndsWell("head", good) \/ EndsBadly("head", "done")
    BY <1>1, <1>4, GoodAnswer, BadAnswer DEF HeadSource, Reads
  <2>. HIDE DEF good
  <2>3. StageOf(good) < StageOf("head") /\ StageOf("done") < StageOf("head")
    BY <1>3, <2>1, Stages, StagesFall
  <2>. QED  BY <1>1, <2>2, <2>3, RequestsForward
<1>5. CASE PutObjectCopy
  <2>1. EndsWell("put copy", "etag") \/ EndsBadly("put copy", "done")
    BY <1>1, <1>5, GoodAnswer, BadAnswer, AnswersTyped DEF PutObjectCopy, Changes
  <2>. QED  BY <1>1, <1>3, <2>1, Stages, StagesFall, RequestsForward
<1>6. CASE DeleteSource
  <2>1. EndsWell("delete source", "done") \/ EndsBadly("delete source", "done")
    BY <1>1, <1>6, GoodAnswer, BadAnswer, AnswersTyped DEF DeleteSource, Changes
  <2>. QED  BY <1>1, <1>3, <2>1, Stages, StagesFall, RequestsForward
<1>7. CASE InitMultiUpload
  <2>1. EndsWell("init", "pool") \/ EndsBadly("init", "done")
    BY <1>1, <1>7, GoodAnswer, BadAnswer, AnswersTyped DEF InitMultiUpload, Changes
  <2>. QED  BY <1>1, <1>3, <2>1, Stages, StagesFall, RequestsForward
<1>8. CASE AbortMultiUpload
  <2>1. EndsWell("abort", "report") \/ EndsBadly("abort", "done")
    BY <1>1, <1>8, GoodAnswer, BadAnswer, AnswersTyped DEF AbortMultiUpload, Changes
  <2>. QED  BY <1>1, <1>3, <2>1, Stages, StagesFall, RequestsForward
<1>12. CASE CompleteMultiUpload
  <2>1. EndsWell("complete", "etag") \/ EndsBadly("complete", "done")
    BY <1>1, <1>12, GoodAnswer, BadAnswer, AnswersTyped DEF CompleteMultiUpload, Changes
  <2>. QED  BY <1>1, <1>3, <2>1, Stages, StagesFall, RequestsForward
<1>9. CASE StartTask
  <2>1. pc = "fill" /\ pc' = pc /\ size' = size /\ offset < size /\ offset' = RangeEnd(offset) + 1
    BY <1>9 DEF StartTask, FillGoesOn, requestVars
  <2>2. \A o, p, n \in Nat : p # 0 /\ o < n =>
          LET h == IF o + p >= n THEN n - 1 ELSE o + p IN o < h + 1 /\ h + 1 <= n
    OBVIOUS
  <2>3. offset \in Nat /\ PartSize \in Nat /\ PartSize # 0 /\ size \in Nat
    BY CopyAssumption DEF IInv, CopyTyped
  <2>4. offset < RangeEnd(offset) + 1 /\ RangeEnd(offset) + 1 <= size
    BY <2>1, <2>2, <2>3 DEF RangeEnd
  <2>. QED  BY <2>1, <2>4 DEF Forward, WindowForward
<1>10. CASE CopyTask
  <2>1. PICK k \in DOMAIN tasks : TaskAttempt(k)
    BY <1>10 DEF CopyTask
  <2>2. UNCHANGED <<pc, size, offset>>
    BY <2>1 DEF TaskAttempt, requestVars
  <2>3. pc = "fill"
    BY <2>1 DEF TaskAttempt, IInv, PartsSound
  <2>4. WindowForward
    BY <2>1, <2>2, TaskShortens DEF WindowForward
  <2>. QED  BY <2>2, <2>3, <2>4 DEF Forward
<1>11. CASE Collect
  <2>1. CASE pc' # "fill"
    <3>1. pc = "fill" /\ pc' \in {"abort", "complete"}
      BY <1>11, <2>1 DEF Collect
    <3>. QED  BY <3>1, Stages, StagesFall DEF Forward
  <2>2. CASE pc' = "fill"
    <3>1. pc = "fill" /\ tasks' = <<>> /\ offset' = offset /\ size' = size /\ ~FillGoesOn
      BY <1>11, <2>2 DEF Collect
    <3>2. offset < size
      BY <1>11, <2>2 DEF Collect
    <3>3. Len(tasks) \in Nat /\ pool \in Nat \ {0} /\ ~(Len(tasks) < pool)
      BY <3>1, <3>2, LenProperties DEF FillGoesOn, GoingSound, IInv, CopyTyped
    <3>4. Len(tasks') < Len(tasks)
      <4>1. 0 < Len(tasks)
        BY <3>3
      <4>2. Len(tasks') = 0
        BY <3>1, EmptySeq
      <4>. QED  BY <4>1, <4>2
    <3>. QED  BY <2>2, <3>1, <3>4 DEF Forward, WindowForward
  <2>. QED  BY <2>1, <2>2
<1>. QED  BY <1>1, <1>2, <1>4, <1>5, <1>6, <1>7, <1>8, <1>9, <1>10, <1>11, <1>12
            DEF Copy

\* Every step of PutObjects and of a single request goes forward.
LEMMA OthersForward ==
  ASSUME IInv, PutStep \/ PlainStep
  PROVE  Forward
<1>1. RequestSound /\ "done" \in Final
  BY DEF IInv, Final
<1>2. CASE PlainStep
  <2>1. entry' = entry
    BY <1>2 DEF PlainStep, putVars
  <2>2. CASE PlainRefused
    <3>1. pc = "plain" /\ pc' = "done"
      BY <2>2 DEF PlainRefused, FailHere
    <3>. QED  BY <1>1, <3>1, Stages, StagesFall DEF Forward
  <2>3. CASE PlainRead \/ PlainChange
    <3>1. EndsWell("plain", "done") \/ EndsBadly("plain", "done")
      BY <1>1, <2>3, GoodAnswer, BadAnswer, AnswersTyped
        DEF PlainRead, PlainChange, Reads, Changes
    <3>. QED  BY <1>1, <2>1, <3>1, Stages, StagesFall, RequestsForward
  <2>. QED  BY <1>2, <2>2, <2>3 DEF PlainStep, Plain
<1>3. CASE PutStep
  <2>1. CASE PutUnreadable \/ PutEtagDiffers \/ PutDone
    <3>1. pc = "put" /\ pc' = "done"
      BY <2>1 DEF PutUnreadable, FailHere, PutEtagDiffers, PutDone
    <3>. QED  BY <1>1, <3>1, Stages, StagesFall DEF Forward
  <2>2. CASE PutEntry
    <3>1. /\ entry <= Len(tree)
          /\ \/ EndsWell("put", "put") /\ entry' = entry + 1
             \/ EndsBadly("put", "done") /\ entry' = entry
      BY <1>1, <2>2, GoodAnswer, BadAnswer, AnswersTyped DEF PutEntry, Changes, EndsWell, EndsBadly
    <3>2. CASE EndsWell("put", "put") /\ entry' = entry + 1
      BY <3>1, <3>2 DEF EndsWell, Forward
    <3>3. CASE EndsBadly("put", "done") /\ entry' = entry
      <4>1. pc = "put"
        BY <3>3 DEF EndsBadly
      <4>2. CASE pc' = "done"
        BY <1>1, <4>1, <4>2, Stages, StagesFall DEF Forward
      <4>3. CASE pc' # "done"
        BY <3>3, <4>3 DEF EndsBadly, Forward
      <4>. QED  BY <4>2, <4>3
    <3>. QED  BY <3>1, <3>2, <3>3
  <2>. QED  BY <1>3, <2>1, <2>2 DEF PutStep, Put
<1>. QED  BY <1>2, <1>3

\* Copy, MoveObject, PutObjects and the single requests: whatever is answered and
\* whoever replaces the source, every step of the caller's thread and of the tasks
\* brings the call nearer to its end. No request is tried, no part cut and no entry
\* put without bound, so that a call which is given its steps returns.
THEOREM CallsGoForward == Spec => [][CallForward]_vars
<1>1. IInv /\ GoingSound /\ [Next]_vars => CallForward
  <2>. SUFFICES ASSUME IInv, GoingSound, [Next]_vars, kind \in Straight PROVE CallForward
    BY DEF CallForward
  <2>1. CASE CopyStep \/ PutStep \/ PlainStep
    BY <2>1, CopiesForward, OthersForward DEF CallForward
  <2>2. ASSUME ~(CopyStep \/ PutStep \/ PlainStep)
        PROVE  UNCHANGED <<pc, attempt, entry, tree, size, offset, tasks>>
    <3>1. pc \notin DeletePlaces \cup DocumentPlaces
      <4>1. kind \in Copies \/ kind = "put" \/ kind = "plain"
        BY DEF Straight
      <4>2. kind \notin {"delete", "document"}
        BY <4>1 DEF Copies
      <4>. QED  BY <4>2 DEF IInv, KindSound, CopyPlaces, AcrossPlaces, PartPlaces, Final,
                DeletePlaces, DocumentPlaces
    <3>2. ~DeleteStep /\ ~OthersPut
      BY <3>1 DEF DeleteStep, Delete, ListPage, DeleteKey, PageDone, ListAgain, OthersPut, Reads,
         Changes, Attempt, DeletePlaces
    <3>3. ~DocumentStep /\ ~DocumentOthers
      BY <3>1 DEF DocumentStep, Document, DocumentOthers, OthersSet, AskAgain, AskNoMore,
         DocumentPlaces
    <3>4. CASE Overwrite /\ UNCHANGED <<deleteVars, putVars, plainVars, documentVars>>
      BY <3>4 DEF Overwrite, requestVars, windowVars, putVars
    <3>5. CASE Ended \/ UNCHANGED vars
      BY <3>5 DEF Ended, vars, requestVars, copyVars, windowVars, putVars
    <3>. QED  BY <2>2, <3>2, <3>3, <3>4, <3>5 DEF Next, Others
  <2>. QED  BY <2>1, <2>2 DEF CallForward
<1>. QED  BY <1>1, InitGoing, GoingStep, CallsInvariance, PTL DEF Spec
================================================================================

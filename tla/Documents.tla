------------------------------- MODULE Documents -------------------------------
(***************************************************************************)
(* What a request says and what its answer says: the settings the user     *)
(* made are written as a document, the server keeps it, and a request for  *)
(* it reads it into the user's response object.  The server, or another of *)
(* its clients, may change the document at any time, and the user may ask  *)
(* twice with the same response object, whose members are never reset.     *)
(*                                                                         *)
(* A behaviour is about one class (topic) with a writer, a reader or both. *)
(***************************************************************************)
EXTENDS NormalAction, Accessors

CONSTANTS Topics,      \* what there are documents about
          Parts,       \* those that are found inside an answer, made anew for every element
          MaxElements  \* bound: setter calls of the user, and elements of a document

\* The setter of f alone reaches its member and its bit, of the setters of a class
\* that are used, and its Has function and its getter look there.
KeptApart(class, setters, f) ==
  /\ f \in setters
  /\ class.shows[f] = class.into[f]
  /\ \A g \in setters \ {f} : class.into[g] # class.into[f]
  /\ class.masked =>
       /\ class.tests[f] = class.sets[f]
       /\ \A g \in setters \ {f} : class.sets[g] # class.sets[f] /\ g \notin class.wipes

\* The fields that are set from the beginning, or without which others are not sent.
Needed(writer) == writer.needs \cup UNION Range(writer.with)

\* Where the code mixes up nothing, a writer emits a field once, under its name, and
\* depends for it on fields that are clear as well.
WriterClear(writer, confused) ==
  LET fields == FieldsOf(writer.of) IN
    /\ writer.starts \in Seq(fields)
    /\ IsFiniteSet(Needed(writer)) /\ Needed(writer) \subseteq fields
    /\ writer.emits \in Seq(STRING) /\ writer.adds \in Seq([name : STRING, value : Nat])
    /\ \A f \in fields \ confused :
         /\ KeptApart(writer.of, fields, f)
         /\ writer.from[f] = f
         /\ \E i \in DOMAIN writer.emits : \A j \in DOMAIN writer.emits : writer.emits[j] = f <=> j = i
         /\ \A i \in DOMAIN writer.adds : writer.adds[i].name # f
         /\ f \in DOMAIN writer.with => \A g \in writer.with[f] : KeptApart(writer.of, fields, g)
         /\ f \in DOMAIN writer.hides => KeptApart(writer.of, fields, writer.hides[f])

\* And a reader takes it from the element of its name, if its writer sends it, and
\* from no element it skips or reads only the name of.
ReaderClear(reader, written, confused) ==
  LET fields == Range(reader.takes) IN
    /\ reader.stops \in BOOLEAN
    /\ \A f \in fields \ confused :
         /\ KeptApart(reader.of, fields, f)
         /\ f \notin reader.skips
         /\ \A e \in DOMAIN reader.takes : reader.takes[e] = f => e \notin reader.skips \cup reader.named
         /\ IF f \in DOMAIN reader.takes THEN reader.takes[f] = f ELSE f \notin written \cup {"Unknown"}

\* The names of the elements of its documents.
Written(writer) == Range(writer.emits) \cup {writer.adds[i].name : i \in DOMAIN writer.adds}

ASSUME TopicsAssumption ==
  \A t \in DOMAIN Topics :
    /\ WriterClear(Topics[t].puts, Topics[t].confused)
    /\ ReaderClear(Topics[t].gets, Written(Topics[t].puts), Topics[t].confused)

VARIABLES topic,    \* the class of this behaviour
          asked,    \* the user's request object
          meant,    \* history: the setters called on it
          stored,   \* the document the server has
          own,      \* history: whether it came from this request, and not from others
          shown,    \* the user's response object
          said,     \* history: the elements of the answers
          asks      \* how often the user has asked

documentVars == <<topic, asked, meant, stored, own, shown, said, asks>>

Puts == Topics[topic].puts
Gets == Topics[topic].gets
HasGets == Gets # NoReader
HasPuts == Puts # NoWriter

\* What a request says from its construction on; and the same with the fields
\* without which it, or an element of it, is not sent. Their values come before all others.
Constructed(writer) ==
  LET Given(fields) == [i \in DOMAIN fields |-> Element(fields[i], 0)]
  IN  {Given(writer.starts), Given(writer.starts \o SetToSeq(Needed(writer)))}

DocumentInit ==
  /\ meant \in IF topic \in DOMAIN Topics THEN Constructed(Puts) ELSE {<<>>}
  /\ asked = IF topic \in DOMAIN Topics THEN AfterSetters(Puts.of, meant) ELSE Blank
  /\ stored = <<>> /\ own = FALSE
  /\ shown = Blank /\ said = <<>> /\ asks = 0

\* A behaviour about a topic begins with the settings of the user, or asks what
\* others have set.
DocumentBegin ==
  /\ topic \in DOMAIN Topics
  /\ \/ HasPuts /\ pc = "settings"
     \/ HasGets /\ pc = "ask"
NoDocument == topic = "none"

-----------------------------------------------------------------------------
\* The user calls a setter of the request; the values tell the calls apart.
SetField(f) ==
  /\ pc = "settings" /\ attempt = 0
  /\ LET value == Cardinality({i \in DOMAIN meant : meant[i].value > 0}) + 1
     IN  /\ value <= MaxElements
         /\ asked' = Store(Puts.of, asked, f, value)
         /\ meant' = Append(meant, Element(f, value))
  /\ UNCHANGED <<requestVars, topic, stored, own, shown, said, asks>>

SendRefused ==
  /\ Refuses(Puts, asked) /\ attempt = 0
  /\ FailHere("settings")
  /\ UNCHANGED documentVars

Send ==
  /\ ~Refuses(Puts, asked)
  /\ Changes("settings", TRUE, stored' = Body(Puts, asked) /\ own' = TRUE, UNCHANGED <<stored, own>>,
             IF HasGets THEN "ask" ELSE "done", "done")
  /\ UNCHANGED <<topic, asked, meant, shown, said, asks>>

\* An element more is known, possibly one this version does not know; each answer
\* has at most MaxElements.
ServerSays(name) ==
  /\ pc = "ask" /\ ~own /\ Len(stored) + Len(said) < MaxElements
  /\ stored' = Append(stored, Element(name, Len(stored) + Len(said) + 1))
  /\ UNCHANGED <<requestVars, topic, asked, meant, own, shown, said, asks>>

\* Another client puts a document of its own.
OthersSet ==
  /\ pc = "ask" /\ ~own /\ stored # <<>>
  /\ stored' = <<>>
  /\ UNCHANGED <<requestVars, topic, asked, meant, own, shown, said, asks>>

\* The answer is read into the response object; a part of it into a new one.
Ask ==
  /\ LET fresh == topic \in Parts
     IN  Reads("ask",
               /\ shown' = Read(Gets, stored, IF fresh THEN Blank ELSE shown)
               /\ said' = (IF fresh THEN <<>> ELSE said) \o Understood(Gets, stored)
               /\ asks' = asks + 1,
               UNCHANGED <<shown, said, asks>>, "again", "done")
  /\ UNCHANGED <<topic, asked, meant, stored, own>>

\* The user asks once more with the same object, or is content.
AskAgain ==
  /\ pc = "again"
  /\ pc' = IF asks < 2 THEN "ask" ELSE "done"
  /\ UNCHANGED <<attempt, result, trouble, documentVars>>

AskNoMore ==
  /\ pc = "again" /\ asks < 2
  /\ pc' = "done"
  /\ UNCHANGED <<attempt, result, trouble, documentVars>>

Document ==
  \/ pc = "settings" /\ \E f \in FieldsOf(Puts.of) : SetField(f)
  \/ pc = "settings" /\ (SendRefused \/ Send)
  \/ pc = "ask" /\ Ask
  \/ AskAgain \/ AskNoMore

DocumentOthers ==
  \/ pc = "ask" /\ \E name \in Knows(Gets) \cup {"Unknown"} : ServerSays(name)
  \/ OthersSet

-----------------------------------------------------------------------------
\* What the elements of some names say of a field: all of a vector, else the last.
Says(class, elements, names, f) ==
  LET values == ValuesOf(elements, names)
  IN  IF values = <<>> \/ f \in class.lists THEN values ELSE <<Last(values)>>

\* The fields that are sent by themselves, or with those set that they go with, or
\* without the one that takes their place.
Sendable ==
  LET given == {meant[i].name : i \in DOMAIN meant}
  IN  {f \in FieldsOf(Puts.of) :
         /\ f \in DOMAIN Puts.with => Puts.with[f] \subseteq given
         /\ f \in DOMAIN Puts.hides => Puts.hides[f] \notin given}

SettingsArrive ==
  own => \A f \in Sendable \ Topics[topic].confused :
           ValuesOf(stored, {f}) = Says(Puts.of, meant, {f}, f)

\* A field is that of the element of its name, and of those the reader takes for it.
AnswersShown ==
  asks > 0 => \A f \in Range(Gets.takes) \ Topics[topic].confused :
    LET names == {f} \cup {e \in DOMAIN Gets.takes : Gets.takes[e] = f}
    IN  Told(Gets.of, shown, f) = Says(Gets.of, said, names, f)

\* What a request leaves at the server is what the user set, each field as it was
\* set last and a vector whole, also if an answer was lost and the request came
\* twice, where it is a field that is sent as the others are; and a response object
\* tells of a field exactly if an answer held it, with the value of the last answer
\* that did. It is said of every field that the code does not mix up with another one.
DocumentsAgree == topic \in DOMAIN Topics => SettingsArrive /\ AnswersShown
=============================================================================

------------------------------- MODULE Accessors -------------------------------
(***************************************************************************)
(* The classes that carry the settings of a request and the contents of an *)
(* answer, and the code that writes them as XML and reads them back.       *)
(*                                                                         *)
(* A class has fields, named as the elements of the documents are.  Its    *)
(* setters store a member and most set a bit of m_mask, which a Has        *)
(* function tests; a writer emits the fields that are there; a reader goes *)
(* through the elements and calls a setter for each it knows.  A value is  *)
(* opaque: that of an element with children stands for all they say, and   *)
(* the class for them has tables of its own.                               *)
(***************************************************************************)
EXTENDS Naturals, SequencesExt

\* A class in which every field has a member and a bit of its own, those of
\* `lists` being vectors that grow. The classes that differ say where they do.
\* A bit is named after the field whose Has function tests it.
Masked(fields, lists) ==
  [masked |-> TRUE, lists |-> lists, wipes |-> {},
   sets  |-> [f \in fields |-> f],     \* the bit the setter sets
   tests |-> [f \in fields |-> f],     \* the bit the Has function tests
   into  |-> [f \in fields |-> f],     \* the member the setter stores
   shows |-> [f \in fields |-> f]]     \* the member the getter returns

\* A class without a mask: a member that was never set is empty.
Members(fields, lists) == [Masked(fields, lists) EXCEPT !.masked = FALSE]

FieldsOf(class) == DOMAIN class.into

\* The class as its user sees it, who is not to set some of the fields.
Without(class, fields) ==
  [class EXCEPT !.into = [f \in FieldsOf(class) \ fields |-> class.into[f]]]

Blank == [mask |-> {}, held |-> <<>>]

Held(object, member) == IF member \in DOMAIN object.held THEN object.held[member] ELSE <<>>

With(object, member, values) ==
  [m \in DOMAIN object.held \cup {member} |-> IF m = member THEN values ELSE object.held[m]]

\* Mutation: a setter assigns the mask.
StoreForgetsOthers(class, object, f, value) ==
  LET m == class.into[f]
  IN  [mask |-> {class.sets[f]},
       held |-> With(object, m, IF f \in class.lists THEN Append(Held(object, m), value) ELSE <<value>>)]

\* The setter of a field. The setters in `wipes` assign the mask instead of adding to it.
Store(class, object, f, value) ==
  LET m == class.into[f]
  IN  [mask |-> {class.sets[f]} \cup (IF f \in class.wipes THEN {} ELSE object.mask),
       held |-> With(object, m, IF f \in class.lists THEN Append(Held(object, m), value) ELSE <<value>>)]

\* The object after the calls of setters, in their order.
AfterSetters(class, calls) ==
  LET after[n \in 0 .. Len(calls)] ==
        IF n = 0 THEN Blank ELSE Store(class, after[n - 1], calls[n].name, calls[n].value)
  IN  after[Len(calls)]

Has(class, object, f) == IF class.masked THEN class.tests[f] \in object.mask
                         ELSE Held(object, class.into[f]) # <<>>

\* What the user of an object learns of a field: nothing if there is none.
Told(class, object, f) == IF Has(class, object, f) THEN Held(object, class.shows[f]) ELSE <<>>

-----------------------------------------------------------------------------
\* A document is the sequence of its elements.
Element(name, value) == [name |-> name, value |-> value]

ValuesOf(document, names) ==
  LET among[n \in 0 .. Len(document)] ==
        IF n = 0 THEN <<>>
        ELSE IF document[n].name \notin names THEN among[n - 1]
        ELSE Append(among[n - 1], document[n].value)
  IN  among[Len(document)]

\* A reader: `takes` leads from an element to the field whose setter is called;
\* those of `skips` it passes over; an element it does not know is skipped, or ends
\* the reading (stops). Of the elements of `named` the name is taken for the value.
\* An element that is empty sets its field to what it says already, and is left out.
Reader(class, elements) ==
  [of |-> class, takes |-> [e \in elements |-> e], skips |-> {}, stops |-> FALSE,
   named |-> {}]

Knows(reader) == DOMAIN reader.takes \cup reader.skips

\* One element; `over` is whether the reading has ended.
Take(reader, state, e) ==
  IF state.over \/ e.name \in reader.skips THEN state
  ELSE IF e.name \notin Knows(reader) THEN [state EXCEPT !.over = reader.stops]
  ELSE LET value == IF e.name \in reader.named THEN 0 ELSE e.value
       IN  [state EXCEPT !.object = Store(reader.of, @, reader.takes[e.name], value)]

Read(reader, document, object) ==
  LET state[n \in 0 .. Len(document)] ==
        IF n = 0 THEN [object |-> object, over |-> FALSE]
        ELSE Take(reader, state[n - 1], document[n])
  IN  state[Len(document)].object

\* The part of a document that the reading gets to.
Understood(reader, document) ==
  LET unknown == {i \in DOMAIN document : document[i].name \notin Knows(reader)}
  IN  IF reader.stops /\ unknown # {}
        THEN SubSeq(document, 1, (CHOOSE i \in unknown : \A j \in unknown : i <= j) - 1)
        ELSE document

\* A writer: it emits elements in this order, each with what the getter of a field
\* returns (from). `needs` are the fields without which it refuses, and `pairs` the
\* vectors that must be of the same length; `with` and `hides` hold the elements
\* emitted only with certain fields, or only without one; `starts` are the fields that
\* have a value from construction on, and `adds` elements emitted whatever was set.
Writer(class, elements) ==
  [of |-> class, emits |-> elements, from |-> [e \in Range(elements) |-> e],
   needs |-> {}, pairs |-> {}, with |-> <<>>, hides |-> <<>>, starts |-> <<>>, adds |-> <<>>]

Refuses(writer, object) ==
  \/ \E f \in writer.needs : ~Has(writer.of, object, f)
  \/ \E p \in writer.pairs : Len(Held(object, p[1])) # Len(Held(object, p[2]))

Emitted(writer, object, e) ==
  /\ Has(writer.of, object, writer.from[e])
  /\ e \in DOMAIN writer.with => \A f \in writer.with[e] : Has(writer.of, object, f)
  /\ e \in DOMAIN writer.hides => ~Has(writer.of, object, writer.hides[e])

\* What is emitted for one of the writer's elements.
Emission(writer, object, e) ==
  LET values == Held(object, writer.of.shows[writer.from[e]])
  IN  IF Emitted(writer, object, e) THEN [i \in DOMAIN values |-> Element(e, values[i])] ELSE <<>>

Body(writer, object) ==
  LET body[n \in 0 .. Len(writer.emits)] ==
        IF n = 0 THEN writer.adds ELSE body[n - 1] \o Emission(writer, object, writer.emits[n])
  IN  body[Len(writer.emits)]

-----------------------------------------------------------------------------
\* A topic: the writer of the requests, the reader of the answers, and the fields
\* the code mixes up, of which the properties claim nothing.
Setting(writer, reader, confused) == [puts |-> writer, gets |-> reader, confused |-> confused]

NoWriter == Writer(Members({}, {}), <<>>)
NoReader == Reader(Members({}, {}), {})

Answer(reader, confused) == Setting(NoWriter, reader, confused)
Asked(writer, confused) == Setting(writer, NoReader, confused)
=============================================================================

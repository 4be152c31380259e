----------------------------- MODULE SchemaDiff -----------------------------
(***************************************************************************)
(* services/schemaService.ts: the structure of a JSON value, the changes   *)
(* between two structures and their severity, as captureSchemaSnapshot     *)
(* uses them on a monitor's successive responses.                          *)
(*                                                                         *)
(* Values and schema nodes have one shape here: a primitive has a type, an *)
(* array its items, an object its fields.  The array of a schema has one   *)
(* item.  A path is the sequence of steps to a part: a field's name or the *)
(* step into an array.  Changes are a set: their order and the types they  *)
(* quote reach nothing but the wording of an e-mail.                       *)
(*                                                                         *)
(* The two recursive functions of the service are recursive functions      *)
(* here; the operator above each is one call, given the function for the   *)
(* calls it makes.  Name_Variant is Name with a plausible mistake in it.   *)
(***************************************************************************)
EXTENDS Naturals, Sequences, FiniteSets

CONSTANTS
  Values,     \* JSON values and all their parts
  Bodies,     \* the objects and arrays among them the endpoint may answer
  Item,       \* the step into an array
  Inherited,  \* names every JavaScript object has by inheritance, such as
              \* "constructor" or "toString"
  MaxDepth    \* MAX_DEPTH

VARIABLES
  latest,  \* the schema of the latest snapshot
  body     \* the response that is compared with it, if any

vars == <<latest, body>>

Primitive(t) == [kind |-> "primitive", type |-> t]
Array(s) == [kind |-> "array", items |-> s]
Object(f) == [kind |-> "object", fields |-> f]

IsPrimitive(v) == v.kind = "primitive" /\ v = Primitive(v.type)
IsArray(v) == v.kind = "array" /\ v = Array(v.items) /\ v.items \in Seq(Values)
IsObject(v) ==
  /\ v.kind = "object" /\ v = Object(v.fields)
  /\ v.fields \in [DOMAIN v.fields -> Values]
  /\ Item \notin DOMAIN v.fields

ASSUME JsonAssumption ==
  /\ \A v \in Values : IsPrimitive(v) \/ IsArray(v) \/ IsObject(v)
  /\ Bodies \subseteq Values
  /\ MaxDepth \in Nat

NoBody == Primitive("none")

\* JavaScript's typeof.
Typeof(v) ==
  IF v.kind = "primitive" /\ v.type # "null" THEN v.type ELSE "object"

ExtractParts(extract, v, depth) ==
  CASE v.kind = "primitive" -> v
    [] v.kind = "array" ->
         Array(<<IF v.items = <<>> THEN Primitive("empty")
                 ELSE extract[depth + 1][v.items[1]]>>)
    [] v.kind = "object" ->
         Object([k \in DOMAIN v.fields |-> extract[depth + 1][v.fields[k]]])

ExtractNode_CapsEarly(extract, v, depth) ==
  IF depth >= MaxDepth THEN Primitive(Typeof(v)) ELSE ExtractParts(extract, v, depth)

ExtractNode(extract, v, depth) ==
  IF depth > MaxDepth THEN Primitive(Typeof(v)) ELSE ExtractParts(extract, v, depth)

ExtractSchema[depth \in 0 .. MaxDepth + 1] ==
  [v \in Values |-> ExtractNode(ExtractSchema, v, depth)]

\* The nodes diffSchemas meets: parts of schemas, and what it reads instead of
\* a field that is not there.
Nodes == (UNION {{ExtractSchema[d][v] : v \in Values} : d \in 0 .. MaxDepth + 1})
           \cup {Primitive("empty"), Primitive("function")}

Structures == Values \cup Nodes

FieldNames == UNION {DOMAIN v.fields : v \in {u \in Values : u.kind = "object"}}
Steps == FieldNames \cup {Item}

\* The operator "in": an own property or an inherited one.
Has(object, key) == key \in DOMAIN object.fields \cup Inherited

\* An inherited property is a function; kindOf calls that a primitive.
Field(object, key) ==
  IF key \in DOMAIN object.fields THEN object.fields[key] ELSE Primitive("function")

Change(path, type) == {[path |-> path, type |-> type]}

\* Fields of the old object: compared with the new one's, or removed.
Kept(diff, prev, curr, path) ==
  UNION {IF Has(curr, k) THEN diff[<<prev.fields[k], Field(curr, k), Append(path, k)>>]
         ELSE Change(Append(path, k), "removed") : k \in DOMAIN prev.fields}

Added_Never(prev, curr, path) == {}

Added(prev, curr, path) ==
  UNION {IF Has(prev, k) THEN {} ELSE Change(Append(path, k), "added") :
           k \in DOMAIN curr.fields}

\* A change of kind always has a container on one side.
DiffNodes(diff, prev, curr, path) ==
  IF prev.kind # curr.kind THEN Change(path, "structural_change")
  ELSE CASE prev.kind = "primitive" ->
              IF prev = curr THEN {} ELSE Change(path, "type_changed")
         [] prev.kind = "array" ->
              diff[<<prev.items[1], curr.items[1], Append(path, Item)>>]
         [] prev.kind = "object" ->
              Kept(diff, prev, curr, path) \cup Added(prev, curr, path)

DiffSchemas[c \in Nodes \X Nodes \X Seq(Steps)] ==
  DiffNodes(DiffSchemas, c[1], c[2], c[3])

ClassifySeverity_TypeFirst(changes) ==
  LET types == {c.type : c \in changes}
  IN  IF "type_changed" \in types THEN "WARNING"
      ELSE IF types \cap {"removed", "structural_change"} # {} THEN "CRITICAL" ELSE "INFO"

ClassifySeverity(changes) ==
  LET types == {c.type : c \in changes}
  IN  IF types \cap {"removed", "structural_change"} # {} THEN "CRITICAL"
      ELSE IF "type_changed" \in types THEN "WARNING" ELSE "INFO"

-----------------------------------------------------------------------------
(* A monitor with a snapshot of any structure is polled again and again.   *)

Init == latest \in {ExtractSchema[0][v] : v \in Bodies} /\ body = NoBody

Poll == body = NoBody /\ body' \in Bodies /\ UNCHANGED latest

\* A new snapshot is stored when the hashes differ.
Capture ==
  /\ body # NoBody
  /\ latest' = ExtractSchema[0][body]
  /\ body' = NoBody

Next == Poll \/ Capture

Spec == Init /\ [][Next]_vars

-----------------------------------------------------------------------------
(* What the functions compute, told by the places of a structure: where a  *)
(* client can get by reading fields and first items, and what is there.    *)
(* Schemas end before paths of MaxDepth + 2 steps; bodies are followed     *)
(* that far.                                                               *)

Place(v, path) ==
  [path |-> path, kind |-> v.kind, type |-> IF v.kind = "primitive" THEN v.type ELSE v.kind]

Inside(places, v, path) ==
  CASE v.kind = "primitive" -> {}
    [] v.kind = "array" ->
         IF v.items = <<>> THEN {} ELSE places[<<v.items[1], Append(path, Item)>>]
    [] v.kind = "object" ->
         UNION {places[<<v.fields[k], Append(path, k)>>] : k \in DOMAIN v.fields}

Places[c \in Structures \X Seq(Steps)] ==
  {Place(c[1], c[2])}
    \cup IF Len(c[2]) > MaxDepth + 1 THEN {} ELSE Inside(Places, c[1], c[2])

Paths(places) == {p.path : p \in places}
Parent(path) == SubSeq(path, 1, Len(path) - 1)

current == ExtractSchema[0][body]
changes == DiffSchemas[<<latest, current, <<>>>>]
severity == ClassifySeverity(changes)
old == Places[<<latest, <<>>>>]
new == Places[<<current, <<>>>>]

Changed(type) == {c.path : c \in {d \in changes : d.type = type}}

\* The paths with a place in both structures, of which holds what P says.
Both(P(_, _)) ==
  {p \in Paths(old) : \E q \in old, r \in new : q.path = p /\ r.path = p /\ P(q, r)}

BothObjects ==
  LET Objects(q, r) == q.kind = "object" /\ r.kind = "object" IN Both(Objects)

\* The schema says of every place down to the depth cap what is there, nothing
\* of deeper ones, and marks empty arrays: no structure is lost or made up.
ExtractionIsExact ==
  body # NoBody =>
    LET actual == Places[<<body, <<>>>>]
        empty == {[path |-> Append(p.path, Item), kind |-> "primitive", type |-> "empty"] :
                    p \in {q \in actual : /\ q.kind = "array"
                                          /\ Append(q.path, Item) \notin Paths(actual)}}
    IN  /\ {p \in new : Len(p.path) <= MaxDepth}
             = {p \in actual \cup empty : Len(p.path) <= MaxDepth}
        /\ \A p \in new : Len(p.path) <= MaxDepth + 1

\* The four types of change mean what they say, at the places where they say
\* it: a field of an object is gone or new, a primitive has another type, a
\* place has another kind.  Nothing else is reported, and nothing is missed.
DiffIsExact ==
  body # NoBody =>
    LET Kinds(q, r) == q.kind # r.kind
        Types(q, r) == q.kind = "primitive" /\ r.kind = "primitive" /\ q.type # r.type
    IN  /\ Changed("structural_change") = Both(Kinds)
        /\ Changed("type_changed") = Both(Types)
        /\ Changed("removed") = {p \in Paths(old) \ Paths(new) : Parent(p) \in BothObjects}
        /\ Changed("added") = {p \in Paths(new) \ Paths(old) : Parent(p) \in BothObjects}

\* A snapshot is stored exactly when there is a change to tell the owner of: the
\* hash and the diff never disagree.
StoredMeansChanged == body # NoBody => (latest # current) = (changes # {})

\* The severity tells what a client of the old structure will notice: INFO that
\* each place it reads is still there with the same type, CRITICAL that some
\* place is gone or has become something else altogether.
SeverityTellsCompatibility ==
  body # NoBody =>
    /\ (severity = "INFO") = (old \subseteq new)
    /\ (severity = "CRITICAL") =
         \E p \in old : \A r \in new : r.path = p.path => r.kind # p.kind

\* "is CRITICAL when a field was removed", whatever its name.
RemovedFieldIsCritical ==
  body # NoBody =>
    ((\E p \in Paths(old) \ Paths(new) : Parent(p) \in BothObjects)
       => severity = "CRITICAL")

=============================================================================

-------------------------- MODULE SchemaDiffProofs --------------------------
(***************************************************************************)
(* Theorems about SchemaDiff, for any JSON values and any depth cap: what  *)
(* extractSchema, diffSchemas and classifySeverity compute is what the     *)
(* places of a structure say.                                              *)
(*                                                                         *)
(* The recursive functions are shown to exist, so that they equal their    *)
(* bodies, and what they compute is proved by induction over the depth at  *)
(* which a node starts: a node that starts at the cap or below has parts   *)
(* that start one deeper, and behind the cap there are primitives only.    *)
(* Induction is stated over sets (SetInduction), and derived from the fact *)
(* that a finite set has no injection into itself without an element.      *)
(***************************************************************************)
EXTENDS SchemaDiff, Integers, FiniteSetTheorems, TLAPS

\* What is true of 0, and of n + 1 if of n, is true of every number.  If it is not
\* true of k, the numbers up to k of which it is are moved into themselves without
\* 0 by counting on.
LEMMA SetInduction ==
  ASSUME NEW S, 0 \in S, \A n \in Nat : n \in S => n + 1 \in S
  PROVE  \A n \in Nat : n \in S
<1> SUFFICES ASSUME NEW k \in Nat, k \notin S PROVE FALSE
  OBVIOUS
<1> DEFINE T == S \cap (0 .. k)
           succ == [n \in T |-> n + 1]
<1>1. 0 \in T /\ T \in SUBSET Nat
  OBVIOUS
<1>2. IsFiniteSet(T) /\ Cardinality(T) \in Nat
  <2>1. \A n \in T : n <= k
    OBVIOUS
  <2> QED BY <1>1, <2>1, FS_BoundedSetOfNaturals, FS_CardinalityType
<1>3. IsFiniteSet(T \ {0}) /\ Cardinality(T \ {0}) = Cardinality(T) - 1
  BY <1>1, <1>2, FS_RemoveElement
<1>4. succ \in Injection(T, T \ {0})
  <2>1. \A n \in T : n + 1 \in T \ {0}
    OBVIOUS
  <2>2. \A m, n \in T : m + 1 = n + 1 => m = n
    BY <1>1
  <2> QED BY <2>1, <2>2 DEF Injection, IsInjective
<1>5. Cardinality(T) <= Cardinality(T) - 1
  BY <1>3, <1>4, FS_Injection
<1> QED BY <1>2, <1>5

\* The same from a depth N up: what is true of N, and of a depth when it is true
\* of the next, is true of every depth.
LEMMA DepthInduction ==
  ASSUME NEW N \in Nat, NEW S, N \in S,
         \A d \in Nat : d < N /\ d + 1 \in S => d \in S
  PROVE  \A d \in 0 .. N : d \in S
<1> DEFINE T == {n \in Nat : n <= N => N - n \in S}
<1>1. 0 \in T
  OBVIOUS
<1>2. ASSUME NEW n \in Nat, n \in T PROVE n + 1 \in T
  <2> SUFFICES ASSUME n + 1 <= N PROVE N - (n + 1) \in S
    OBVIOUS
  <2>1. N - (n + 1) \in Nat /\ N - (n + 1) < N /\ N - (n + 1) + 1 = N - n
    OBVIOUS
  <2>2. N - n \in S
    BY <1>2
  <2> QED BY <2>1, <2>2
<1> HIDE DEF T
<1>3. \A n \in Nat : n \in T
  BY <1>1, <1>2, SetInduction
<1> SUFFICES ASSUME NEW d \in 0 .. N PROVE d \in S
  OBVIOUS
<1>4. N - d \in Nat /\ N - d <= N /\ N - (N - d) = d
  OBVIOUS
<1> QED BY <1>3, <1>4 DEF T

-----------------------------------------------------------------------------
(* The recursive definitions have a meaning.                               *)

Depths == 0 .. MaxDepth + 1

\* extractSchema is what one call of it is, given its own calls one deeper.
LEMMA ExtractUnfolds ==
  ASSUME NEW d \in Depths
  PROVE  ExtractSchema[d] = [v \in Values |-> ExtractNode(ExtractSchema, v, d)]
<1> DEFINE Meets(g, e) == g[e] = [v \in Values |-> ExtractNode(g, v, e)]
           Solved(g, e) == \A i \in Depths : i >= e => Meets(g, i)
           S == {e \in Depths : \E g : Solved(g, e)}
           Next1(g) == [e \in Depths |-> [v \in Values |-> ExtractNode(g, v, e)]]
<1>0. MaxDepth \in Nat
  BY JsonAssumption
<1>1. ASSUME NEW g, NEW h, NEW e \in Depths, e <= MaxDepth => g[e + 1] = h[e + 1]
      PROVE  [v \in Values |-> ExtractNode(g, v, e)] = [v \in Values |-> ExtractNode(h, v, e)]
  <2>1. ASSUME NEW v \in Values PROVE ExtractNode(g, v, e) = ExtractNode(h, v, e)
    BY <1>0, <1>1 DEF ExtractNode, ExtractParts, Depths
  <2> QED BY <2>1
<1>2. MaxDepth + 1 \in S
  <2> DEFINE none == [e \in Depths |-> {}]
             g == Next1(none)
  <2>a. MaxDepth + 1 \in Depths /\ ~(MaxDepth + 1 <= MaxDepth)
    BY <1>0 DEF Depths
  <2>b. g[MaxDepth + 1] = [v \in Values |-> ExtractNode(none, v, MaxDepth + 1)]
    BY <2>a
  <2> HIDE DEF g, none
  <2>1. g[MaxDepth + 1] = [v \in Values |-> ExtractNode(g, v, MaxDepth + 1)]
    BY <1>1, <2>a, <2>b
  <2>2. Solved(g, MaxDepth + 1)
    BY <1>0, <2>1 DEF Depths
  <2> QED BY <1>0, <2>2 DEF Depths
<1>3. ASSUME NEW e \in Nat, e < MaxDepth + 1, e + 1 \in S PROVE e \in S
  <2>1. PICK g : Solved(g, e + 1)
    BY <1>3
  <2> DEFINE h == Next1(g)
  <2>2. \A i \in Depths : h[i] = [v \in Values |-> ExtractNode(g, v, i)]
    OBVIOUS
  <2> HIDE DEF h
  <2>3. ASSUME NEW i \in Depths, i >= e PROVE Meets(h, i)
    <3>1. ASSUME i <= MaxDepth PROVE h[i + 1] = g[i + 1]
      <4>1. i + 1 \in Depths /\ i + 1 >= e + 1
        BY <1>0, <2>3, <3>1 DEF Depths
      <4> QED BY <2>1, <2>2, <4>1
    <3> QED BY <1>1, <2>2, <3>1
  <2>4. Solved(h, e)
    BY <2>3
  <2> QED BY <1>0, <1>3, <2>4 DEF Depths
<1> HIDE DEF S
<1>4. 0 \in S
  BY <1>0, <1>2, <1>3, DepthInduction DEF Depths
<1>5. PICK g : Solved(g, 0)
  BY <1>4 DEF S
<1> DEFINE f == [e \in Depths |-> g[e]]
<1>6. f = [e \in Depths |-> [v \in Values |-> ExtractNode(f, v, e)]]
  <2>1. ASSUME NEW e \in Depths PROVE f[e] = [v \in Values |-> ExtractNode(f, v, e)]
    <3>1. g[e] = [v \in Values |-> ExtractNode(g, v, e)]
      BY <1>0, <1>5 DEF Depths
    <3>2. e <= MaxDepth => g[e + 1] = f[e + 1]
      BY <1>0 DEF Depths
    <3> QED BY <1>1, <3>1, <3>2
  <2> QED BY <2>1
<1> HIDE DEF f
<1>7. ExtractSchema = [e \in Depths |-> [v \in Values |-> ExtractNode(ExtractSchema, v, e)]]
  BY <1>6 DEF ExtractSchema, Depths
<1> QED BY <1>7

-----------------------------------------------------------------------------
(* The shapes of nodes and values.                                         *)

\* Nodes that start at depth d or below it.
NodesFrom(d) ==
  (UNION {{ExtractSchema[e][v] : v \in Values} : e \in d .. MaxDepth + 1})
    \cup {Primitive("empty"), Primitive("function")}

\* The steps from a structure to its parts, and the part behind a step.
ChildSteps(s) ==
  CASE s.kind = "primitive" -> {}
    [] s.kind = "array" -> IF s.items = <<>> THEN {} ELSE {Item}
    [] s.kind = "object" -> DOMAIN s.fields

Child(s, k) == IF s.kind = "array" THEN s.items[1] ELSE s.fields[k]

\* What is needed of a node at depth d, by its kind.
IsNode(n, d) ==
  \/ n.kind = "primitive" /\ n = Primitive(n.type)
  \/ /\ d <= MaxDepth /\ n.kind = "array" /\ n = Array(<<n.items[1]>>)
     /\ n.items[1] \in NodesFrom(d + 1)
  \/ /\ d <= MaxDepth /\ n.kind = "object" /\ n = Object(n.fields)
     /\ n.fields = [k \in DOMAIN n.fields |-> n.fields[k]]
     /\ DOMAIN n.fields \subseteq FieldNames /\ Item \notin DOMAIN n.fields
     /\ \A k \in DOMAIN n.fields : n.fields[k] \in NodesFrom(d + 1)

\* A node that starts at d or below is what extraction makes of some value there,
\* or one of the two the diff makes up.
LEMMA NodesFromMember ==
  ASSUME NEW d \in Depths, NEW n
  PROVE  /\ n \in NodesFrom(d) <=>
              \/ n \in {Primitive("empty"), Primitive("function")}
              \/ \E e \in Depths, v \in Values : e >= d /\ n = ExtractSchema[e][v]
         /\ d <= MaxDepth => NodesFrom(d + 1) \subseteq NodesFrom(d)
<1>0. MaxDepth \in Nat
  BY JsonAssumption
<1>1. \A e : e \in d .. MaxDepth + 1 <=> e \in Depths /\ e >= d
  BY <1>0 DEF Depths
<1>2. d <= MaxDepth => d + 1 .. MaxDepth + 1 \subseteq d .. MaxDepth + 1
  BY <1>0 DEF Depths
<1> QED BY <1>1, <1>2 DEF NodesFrom

\* All nodes start at depth 0 or below.
LEMMA NodesAreFromZero == Nodes = NodesFrom(0) /\ 0 \in Depths
BY JsonAssumption DEF Nodes, NodesFrom, Depths

\* Every node has the shape of one, and its parts start one deeper.
LEMMA NodeShape ==
  ASSUME NEW d \in Depths, NEW n \in NodesFrom(d)
  PROVE  IsNode(n, d)
<1>0. MaxDepth \in Nat
  BY JsonAssumption
<1>1. CASE n \in {Primitive("empty"), Primitive("function")}
  BY <1>1 DEF IsNode, Primitive
<1>2. ASSUME NEW e \in Depths, NEW v \in Values, e >= d, n = ExtractSchema[e][v]
      PROVE  IsNode(n, d)
  <2>1. n = ExtractNode(ExtractSchema, v, e)
    BY <1>2, ExtractUnfolds
  <2>2. CASE e > MaxDepth
    BY <2>1, <2>2 DEF ExtractNode, IsNode, Primitive
  <2>3. ASSUME e <= MaxDepth
        PROVE  /\ d <= MaxDepth
               /\ \A w \in Values : ExtractSchema[e + 1][w] \in NodesFrom(d + 1)
    <3>1. d <= MaxDepth /\ d + 1 \in Depths /\ e + 1 \in Depths /\ e + 1 >= d + 1
      BY <1>0, <1>2, <2>3 DEF Depths
    <3> QED BY <3>1, NodesFromMember
  <2>4. ASSUME e <= MaxDepth PROVE n = ExtractParts(ExtractSchema, v, e)
    BY <1>0, <2>1, <2>4 DEF ExtractNode, Depths
  <2>5. CASE e <= MaxDepth /\ IsPrimitive(v)
    BY <2>4, <2>5 DEF ExtractParts, IsPrimitive, IsNode, Primitive
  <2>6. CASE e <= MaxDepth /\ IsArray(v)
    <3> DEFINE m == IF v.items = <<>> THEN Primitive("empty") ELSE ExtractSchema[e + 1][v.items[1]]
    <3>1. n = Array(<<m>>)
      BY <2>4, <2>6 DEF ExtractParts, IsArray
    <3>2. v.items # <<>> => v.items[1] \in Values
      BY <2>6 DEF IsArray
    <3>3. Primitive("empty") \in NodesFrom(d + 1)
      BY DEF NodesFrom
    <3>4. m \in NodesFrom(d + 1)
      BY <2>3, <2>6, <3>2, <3>3
    <3> HIDE DEF m
    <3>5. n.kind = "array" /\ n.items[1] = m /\ n = Array(<<n.items[1]>>)
      BY <3>1 DEF Array
    <3> QED BY <2>3, <2>6, <3>4, <3>5 DEF IsNode
  <2>7. CASE e <= MaxDepth /\ IsObject(v)
    <3> DEFINE f == [k \in DOMAIN v.fields |-> ExtractSchema[e + 1][v.fields[k]]]
    <3>1. n = Object(f)
      BY <2>4, <2>7 DEF ExtractParts, IsObject
    <3>2. DOMAIN v.fields \subseteq FieldNames /\ Item \notin DOMAIN v.fields
      BY <2>7 DEF IsObject, FieldNames
    <3>3. \A k \in DOMAIN f : f[k] \in NodesFrom(d + 1)
      BY <2>3, <2>7 DEF IsObject
    <3>4. f = [k \in DOMAIN f |-> f[k]] /\ DOMAIN f = DOMAIN v.fields
      OBVIOUS
    <3> HIDE DEF f
    <3>5. n.kind = "object" /\ n.fields = f
      BY <3>1 DEF Object
    <3> QED BY <2>3, <2>7, <3>1, <3>2, <3>3, <3>4, <3>5 DEF IsNode
  <2> QED BY <1>0, <2>2, <2>5, <2>6, <2>7, JsonAssumption DEF Depths
<1> QED BY <1>1, <1>2, NodesFromMember

\* The same in terms of steps: where a node's parts are and how deep they start.
LEMMA NodeParts ==
  ASSUME NEW d \in Depths, NEW n \in NodesFrom(d)
  PROVE  /\ ChildSteps(n) \subseteq Steps
         /\ n.kind \in {"primitive", "array", "object"}
         /\ n.kind = "primitive" => ChildSteps(n) = {}
         /\ n.kind = "array" => ChildSteps(n) = {Item}
         /\ n.kind = "object" => ChildSteps(n) = DOMAIN n.fields /\ Item \notin ChildSteps(n)
         /\ n.kind # "primitive" => d <= MaxDepth
         /\ \A k \in ChildSteps(n) : Child(n, k) \in NodesFrom(d + 1)
<1>1. IsNode(n, d)
  BY NodeShape
<1>2. CASE n.kind = "primitive"
  BY <1>2 DEF ChildSteps
<1>3. CASE n.kind = "array"
  <2>1. d <= MaxDepth /\ n.items[1] \in NodesFrom(d + 1) /\ n = Array(<<n.items[1]>>)
    BY <1>1, <1>3 DEF IsNode
  <2>2. n.items = <<n.items[1]>>
    BY <2>1 DEF Array
  <2>3. n.items # <<>>
    BY <2>2
  <2> QED BY <1>3, <2>1, <2>3 DEF ChildSteps, Child, Steps
<1>4. CASE n.kind = "object"
  BY <1>1, <1>4 DEF IsNode, ChildSteps, Child, Steps
<1> QED BY <1>1, <1>2, <1>3, <1>4 DEF IsNode

\* The parts of a structure, value or schema, are structures, too.
LEMMA StructureParts ==
  ASSUME NEW s \in Structures
  PROVE  /\ ChildSteps(s) \subseteq Steps
         /\ \A k \in ChildSteps(s) : Child(s, k) \in Structures
         /\ s.kind \in {"primitive", "array", "object"}
<1>0. MaxDepth \in Nat
  BY JsonAssumption
<1>1. CASE s \in Nodes
  <2>1. 0 \in Depths /\ s \in NodesFrom(0)
    BY <1>1, NodesAreFromZero
  <2>2. NodesFrom(1) \subseteq NodesFrom(0)
    BY <1>0, <2>1, NodesFromMember
  <2>3. NodesFrom(0 + 1) \subseteq Structures
    BY <2>2, NodesAreFromZero DEF Structures
  <2>4. /\ ChildSteps(s) \subseteq Steps
        /\ s.kind \in {"primitive", "array", "object"}
        /\ \A k \in ChildSteps(s) : Child(s, k) \in NodesFrom(0 + 1)
    BY <2>1, NodeParts
  <2> QED BY <2>3, <2>4
<1>2. CASE s \in Values
  <2>1. CASE IsPrimitive(s)
    BY <2>1 DEF IsPrimitive, ChildSteps
  <2>2. CASE IsArray(s)
    BY <2>2 DEF IsArray, ChildSteps, Child, Steps, Structures
  <2>3. CASE IsObject(s)
    BY <1>2, <2>3 DEF IsObject, ChildSteps, Child, Steps, Structures, FieldNames
  <2> QED BY <1>2, <2>1, <2>2, <2>3, JsonAssumption
<1> QED BY <1>1, <1>2 DEF Structures

-----------------------------------------------------------------------------
(* Places.                                                                 *)

\* A path and a step make a path that is one longer and starts with the first.
LEMMA PathGrows ==
  ASSUME NEW path \in Seq(Steps), NEW k \in Steps
  PROVE  /\ Append(path, k) \in Seq(Steps)
         /\ Len(path) \in Nat
         /\ Len(Append(path, k)) = Len(path) + 1
         /\ Append(path, k)[Len(path) + 1] = k
         /\ \A i \in 1 .. Len(path) : Append(path, k)[i] = path[i]
OBVIOUS

\* One call of Places, in terms of steps.
PlacesVia(g, s, path) ==
  {Place(s, path)}
    \cup (IF Len(path) > MaxDepth + 1 THEN {}
          ELSE UNION {g[<<Child(s, k), Append(path, k)>>] : k \in ChildSteps(s)})

\* The cases of a call of Places differ only in the steps there are.
LEMMA PlacesViaSteps ==
  ASSUME NEW g, NEW s \in Structures, NEW path
  PROVE  {Place(s, path)} \cup (IF Len(path) > MaxDepth + 1 THEN {} ELSE Inside(g, s, path))
           = PlacesVia(g, s, path)
<1>1. s.kind \in {"primitive", "array", "object"}
  BY StructureParts
<1>2. CASE s.kind = "primitive"
  BY <1>2 DEF Inside, PlacesVia, ChildSteps
<1>3. CASE s.kind = "array" /\ s.items = <<>>
  BY <1>3 DEF Inside, PlacesVia, ChildSteps
<1>4. CASE s.kind = "array" /\ s.items # <<>>
  BY <1>4 DEF Inside, PlacesVia, ChildSteps, Child
<1>5. CASE s.kind = "object"
  BY <1>5 DEF Inside, PlacesVia, ChildSteps, Child
<1> QED BY <1>1, <1>2, <1>3, <1>4, <1>5

\* Places is what one call of it is, given its own calls one step further: paths of
\* more than MaxDepth + 1 steps end it.
LEMMA PlacesUnfold ==
  ASSUME NEW s \in Structures, NEW path \in Seq(Steps)
  PROVE  Places[<<s, path>>] = PlacesVia(Places, s, path)
<1> DEFINE D == Structures \X Seq(Steps)
           Solved(g, e) == \A t \in Structures, q \in Seq(Steps) :
                             Len(q) >= e => g[<<t, q>>] = PlacesVia(g, t, q)
           S == {e \in Nat : \E g : Solved(g, e)}
           Once(g) == [c \in D |-> PlacesVia(g, c[1], c[2])]
<1>0. MaxDepth \in Nat
  BY JsonAssumption
<1>1. ASSUME NEW g, NEW h, NEW t \in Structures, NEW q \in Seq(Steps),
             Len(q) <= MaxDepth + 1 =>
               \A k \in ChildSteps(t) :
                 g[<<Child(t, k), Append(q, k)>>] = h[<<Child(t, k), Append(q, k)>>]
      PROVE  PlacesVia(g, t, q) = PlacesVia(h, t, q)
  <2>1. CASE Len(q) > MaxDepth + 1
    BY <2>1 DEF PlacesVia
  <2>2. CASE Len(q) <= MaxDepth + 1
    BY <1>0, <1>1, <2>2 DEF PlacesVia
  <2> QED BY <1>0, <2>1, <2>2
<1>2. MaxDepth + 2 \in S
  <2> DEFINE none == [c \in D |-> {}]
             g == Once(none)
  <2>1. \A t \in Structures, q \in Seq(Steps) : g[<<t, q>>] = PlacesVia(none, t, q)
    OBVIOUS
  <2> HIDE DEF g, none
  <2>2. ASSUME NEW t \in Structures, NEW q \in Seq(Steps), Len(q) >= MaxDepth + 2
        PROVE  g[<<t, q>>] = PlacesVia(g, t, q)
    <3>1. ~(Len(q) <= MaxDepth + 1)
      BY <1>0, <2>2
    <3> QED BY <1>1, <2>1, <3>1
  <2> QED BY <1>0, <2>2
<1>3. ASSUME NEW e \in Nat, e < MaxDepth + 2, e + 1 \in S PROVE e \in S
  <2>1. PICK g : Solved(g, e + 1)
    BY <1>3
  <2> DEFINE h == Once(g)
  <2>2. \A t \in Structures, q \in Seq(Steps) : h[<<t, q>>] = PlacesVia(g, t, q)
    OBVIOUS
  <2> HIDE DEF h
  <2>3. ASSUME NEW t \in Structures, NEW q \in Seq(Steps), Len(q) >= e
        PROVE  h[<<t, q>>] = PlacesVia(h, t, q)
    <3>1. ASSUME NEW k \in ChildSteps(t)
          PROVE  g[<<Child(t, k), Append(q, k)>>] = h[<<Child(t, k), Append(q, k)>>]
      <4>1. k \in Steps /\ Child(t, k) \in Structures
        BY StructureParts
      <4>2. Append(q, k) \in Seq(Steps) /\ Len(Append(q, k)) >= e + 1
        BY <1>3, <2>3, <4>1, PathGrows
      <4> QED BY <2>1, <2>2, <4>1, <4>2
    <3> QED BY <1>1, <2>2, <3>1
  <2> QED BY <1>3, <2>3
<1> HIDE DEF S
<1>4. 0 \in S
  <2>1. MaxDepth + 2 \in Nat /\ 0 \in 0 .. MaxDepth + 2
    BY <1>0
  <2> QED BY <1>2, <1>3, <2>1, DepthInduction
<1>5. PICK g : Solved(g, 0)
  BY <1>4 DEF S
<1>6. \A t \in Structures, q \in Seq(Steps) : g[<<t, q>>] = PlacesVia(g, t, q)
  <2>1. \A q \in Seq(Steps) : Len(q) >= 0
    OBVIOUS
  <2> QED BY <1>5, <2>1
<1> DEFINE f == [c \in D |-> g[c]]
<1>7. \A t \in Structures, q \in Seq(Steps) : f[<<t, q>>] = PlacesVia(f, t, q)
  <2>1. \A t \in Structures, q \in Seq(Steps) : f[<<t, q>>] = g[<<t, q>>]
    OBVIOUS
  <2> HIDE DEF f
  <2> SUFFICES ASSUME NEW t \in Structures, NEW q \in Seq(Steps)
               PROVE  f[<<t, q>>] = PlacesVia(f, t, q)
    OBVIOUS
  <2>2. ASSUME NEW k \in ChildSteps(t)
        PROVE  g[<<Child(t, k), Append(q, k)>>] = f[<<Child(t, k), Append(q, k)>>]
    <3>1. k \in Steps /\ Child(t, k) \in Structures
      BY StructureParts
    <3> QED BY <2>1, <3>1, PathGrows
  <2> QED BY <1>1, <1>6, <2>1, <2>2
<1>8. f = [c \in D |-> {Place(c[1], c[2])}
             \cup IF Len(c[2]) > MaxDepth + 1 THEN {} ELSE Inside(f, c[1], c[2])]
  <2>1. f = [c \in D |-> f[c]]
    OBVIOUS
  <2> HIDE DEF f
  <2>2. ASSUME NEW c \in D
        PROVE  f[c] = {Place(c[1], c[2])}
                 \cup IF Len(c[2]) > MaxDepth + 1 THEN {} ELSE Inside(f, c[1], c[2])
    <3>1. c[1] \in Structures /\ c[2] \in Seq(Steps) /\ c = <<c[1], c[2]>>
      OBVIOUS
    <3> QED BY <1>7, <3>1, PlacesViaSteps
  <2> QED BY <2>1, <2>2
<1> HIDE DEF f
<1>9. Places = [c \in D |-> {Place(c[1], c[2])}
                 \cup IF Len(c[2]) > MaxDepth + 1 THEN {} ELSE Inside(Places, c[1], c[2])]
  BY <1>8 DEF Places
<1>10. Places[<<s, path>>] = {Place(s, path)}
         \cup IF Len(path) > MaxDepth + 1 THEN {} ELSE Inside(Places, s, path)
  BY <1>9
<1> QED BY <1>10, PlacesViaSteps

-----------------------------------------------------------------------------
(* Changes.                                                                *)

\* diffSchemas is what one call of it is, given its own calls: the old node's parts
\* start deeper.
LEMMA DiffUnfolds ==
  ASSUME NEW prev \in Nodes, NEW curr \in Nodes, NEW path \in Seq(Steps)
  PROVE  DiffSchemas[<<prev, curr, path>>] = DiffNodes(DiffSchemas, prev, curr, path)
<1> DEFINE D == Nodes \X Nodes \X Seq(Steps)
           Solved(g, e) == \A a \in NodesFrom(e), b \in Nodes, q \in Seq(Steps) :
                             g[<<a, b, q>>] = DiffNodes(g, a, b, q)
           S == {e \in Depths : \E g : Solved(g, e)}
           Once(g) == [c \in D |-> DiffNodes(g, c[1], c[2], c[3])]
<1>0. MaxDepth \in Nat /\ Nodes = NodesFrom(0) /\ 0 \in Depths
  BY JsonAssumption, NodesAreFromZero
<1>a. ASSUME NEW e \in Depths PROVE NodesFrom(e) \subseteq Nodes
  BY <1>0, NodesFromMember DEF Depths
<1>b. ASSUME NEW e \in Depths, e <= MaxDepth PROVE e + 1 \in Depths
  BY <1>0, <1>b DEF Depths
<1>d. NodesFrom(0 + 1) \subseteq Nodes
  <2>1. 0 <= MaxDepth
    BY <1>0
  <2>2. 0 + 1 \in Depths
    BY <1>0, <1>b, <2>1
  <2> QED BY <1>a, <2>2
<1>c. Primitive("function") \in Nodes /\ \A k : Primitive("function").kind = "primitive"
  BY DEF Nodes, Primitive
<1>1. ASSUME NEW g, NEW h, NEW e \in Depths, NEW a \in NodesFrom(e), NEW b \in Nodes, NEW q \in Seq(Steps),
             e <= MaxDepth => \A a1 \in NodesFrom(e + 1), b1 \in Nodes, q1 \in Seq(Steps) :
               g[<<a1, b1, q1>>] = h[<<a1, b1, q1>>]
      PROVE  DiffNodes(g, a, b, q) = DiffNodes(h, a, b, q)
  <2>1. IsNode(a, e) /\ IsNode(b, 0)
    BY <1>0, NodeShape
  <2>2. CASE a.kind # b.kind
    BY <2>2 DEF DiffNodes
  <2>3. CASE a.kind = b.kind /\ a.kind = "primitive"
    BY <2>3 DEF DiffNodes
  <2>4. CASE a.kind = b.kind /\ a.kind = "array"
    <3>1. e <= MaxDepth /\ a.items[1] \in NodesFrom(e + 1) /\ b.items[1] \in NodesFrom(0 + 1)
      BY <2>1, <2>4 DEF IsNode
    <3>2. b.items[1] \in Nodes
      BY <1>d, <3>1
    <3>3. Append(q, Item) \in Seq(Steps)
      BY PathGrows DEF Steps
    <3>4. g[<<a.items[1], b.items[1], Append(q, Item)>>] = h[<<a.items[1], b.items[1], Append(q, Item)>>]
      BY <1>1, <3>1, <3>2, <3>3
    <3> QED BY <2>4, <3>4 DEF DiffNodes
  <2>5. CASE a.kind = b.kind /\ a.kind = "object"
    <3>1. /\ e <= MaxDepth
          /\ \A k \in DOMAIN a.fields : a.fields[k] \in NodesFrom(e + 1)
          /\ \A k \in DOMAIN b.fields : b.fields[k] \in NodesFrom(0 + 1)
          /\ DOMAIN a.fields \subseteq FieldNames
      BY <2>1, <2>5 DEF IsNode
    <3>2. \A k : Field(b, k) \in Nodes
      BY <1>c, <1>d, <3>1 DEF Field
    <3>3. \A k \in DOMAIN a.fields : Append(q, k) \in Seq(Steps)
      BY <3>1, PathGrows DEF Steps
    <3>4. \A k \in DOMAIN a.fields :
            g[<<a.fields[k], Field(b, k), Append(q, k)>>] = h[<<a.fields[k], Field(b, k), Append(q, k)>>]
      BY <1>1, <3>1, <3>2, <3>3
    <3>5. Kept(g, a, b, q) = Kept(h, a, b, q)
      BY <3>4 DEF Kept
    <3> QED BY <2>5, <3>5 DEF DiffNodes
  <2> QED BY <2>1, <2>2, <2>3, <2>4, <2>5 DEF IsNode
<1>2. MaxDepth + 1 \in S
  <2> DEFINE none == [c \in D |-> {}]
             g == Once(none)
  <2>1. \A a, b \in Nodes, q \in Seq(Steps) : g[<<a, b, q>>] = DiffNodes(none, a, b, q)
    OBVIOUS
  <2> HIDE DEF g, none
  <2>2. MaxDepth + 1 \in Depths /\ ~(MaxDepth + 1 <= MaxDepth)
    BY <1>0 DEF Depths
  <2>3. ASSUME NEW a \in NodesFrom(MaxDepth + 1), NEW b \in Nodes, NEW q \in Seq(Steps)
        PROVE  g[<<a, b, q>>] = DiffNodes(g, a, b, q)
    <3>1. a \in Nodes
      BY <1>a, <2>2
    <3>2. DiffNodes(none, a, b, q) = DiffNodes(g, a, b, q)
      BY <1>1, <2>2
    <3>3. g[<<a, b, q>>] = DiffNodes(none, a, b, q)
      BY <2>1, <3>1
    <3> QED BY <3>2, <3>3
  <2> QED BY <2>2, <2>3
<1>3. ASSUME NEW e \in Nat, e < MaxDepth + 1, e + 1 \in S PROVE e \in S
  <2>0. e \in Depths /\ e + 1 \in Depths
    BY <1>0, <1>3 DEF Depths
  <2>1. PICK g : Solved(g, e + 1)
    BY <1>3
  <2> DEFINE h == Once(g)
  <2>2. \A a, b \in Nodes, q \in Seq(Steps) : h[<<a, b, q>>] = DiffNodes(g, a, b, q)
    OBVIOUS
  <2> HIDE DEF h
  <2>3. ASSUME NEW a \in NodesFrom(e), NEW b \in Nodes, NEW q \in Seq(Steps)
        PROVE  h[<<a, b, q>>] = DiffNodes(h, a, b, q)
    <3>1. ASSUME NEW a1 \in NodesFrom(e + 1), NEW b1 \in Nodes, NEW q1 \in Seq(Steps)
          PROVE  g[<<a1, b1, q1>>] = h[<<a1, b1, q1>>]
      <4>1. a1 \in Nodes
        BY <1>a, <2>0
      <4>2. g[<<a1, b1, q1>>] = DiffNodes(g, a1, b1, q1)
        BY <2>1
      <4> QED BY <2>2, <4>1, <4>2
    <3>2. a \in Nodes
      BY <1>a, <2>0
    <3>3. DiffNodes(g, a, b, q) = DiffNodes(h, a, b, q)
      BY <1>1, <2>0, <3>1, ZenonT(60)
    <3> QED BY <2>2, <3>2, <3>3
  <2> QED BY <2>0, <2>3
<1> HIDE DEF S
<1>4. 0 \in S
  <2>1. MaxDepth + 1 \in Nat /\ 0 \in 0 .. MaxDepth + 1
    BY <1>0
  <2> QED BY <1>2, <1>3, <2>1, DepthInduction
<1>5. PICK g : Solved(g, 0)
  BY <1>4 DEF S
<1> DEFINE f == [c \in D |-> g[c]]
<1>6. f = [c \in D |-> DiffNodes(f, c[1], c[2], c[3])]
  <2>1. f = [c \in D |-> f[c]] /\ \A a, b \in Nodes, q \in Seq(Steps) : f[<<a, b, q>>] = g[<<a, b, q>>]
    OBVIOUS
  <2> HIDE DEF f
  <2>2. ASSUME NEW a \in Nodes, NEW b \in Nodes, NEW q \in Seq(Steps)
        PROVE  f[<<a, b, q>>] = DiffNodes(f, a, b, q)
    <3>1. a \in NodesFrom(0)
      BY <1>0
    <3>2. \A a1 \in NodesFrom(0 + 1), b1 \in Nodes, q1 \in Seq(Steps) :
            g[<<a1, b1, q1>>] = f[<<a1, b1, q1>>]
      BY <1>d, <2>1
    <3>3. DiffNodes(g, a, b, q) = DiffNodes(f, a, b, q)
      <4>1. 0 \in Depths
        BY <1>0
      <4> QED BY <1>1, <3>1, <3>2, <4>1, ZenonT(60)
    <3>4. g[<<a, b, q>>] = DiffNodes(g, a, b, q)
      BY <1>5, <3>1
    <3> QED BY <2>1, <3>3, <3>4
  <2>3. ASSUME NEW c \in D PROVE f[c] = DiffNodes(f, c[1], c[2], c[3])
    <3>1. c[1] \in Nodes /\ c[2] \in Nodes /\ c[3] \in Seq(Steps) /\ c = <<c[1], c[2], c[3]>>
      OBVIOUS
    <3> QED BY <2>2, <3>1
  <2> QED BY <2>1, <2>3
<1> HIDE DEF f
<1>7. DiffSchemas = [c \in D |-> DiffNodes(DiffSchemas, c[1], c[2], c[3])]
  BY <1>6 DEF DiffSchemas
<1> QED BY <1>7

-----------------------------------------------------------------------------
(* Both functions in terms of steps.                                       *)

\* What is true of nodes at a depth when it is of those one deeper, is true of all.
LEMMA NodeInduction ==
  ASSUME NEW S, \A d \in Depths : (d <= MaxDepth => d + 1 \in S) => d \in S
  PROVE  0 \in S
<1>0. MaxDepth + 1 \in Nat /\ 0 \in 0 .. MaxDepth + 1
  BY JsonAssumption
<1>1. MaxDepth + 1 \in S
  BY <1>0, JsonAssumption DEF Depths
<1>2. \A d \in Nat : d < MaxDepth + 1 /\ d + 1 \in S => d \in S
  BY <1>0, JsonAssumption DEF Depths
<1> QED BY <1>0, <1>1, <1>2, DepthInduction

PlacesAt(s, path) == Places[<<s, path>>]
DiffAt(a, b, path) == DiffSchemas[<<a, b, path>>]

\* Nodes of any depth are nodes and structures.
LEMMA NodesFromInNodes ==
  ASSUME NEW d \in Depths
  PROVE  NodesFrom(d) \subseteq Nodes /\ NodesFrom(d) \subseteq Structures
<1>1. MaxDepth \in Nat /\ 0 \in Depths /\ Nodes = NodesFrom(0)
  BY JsonAssumption, NodesAreFromZero
<1>2. d \in Nat
  BY <1>1 DEF Depths
<1>3. NodesFrom(d) \subseteq NodesFrom(0)
  <2> SUFFICES ASSUME NEW n \in NodesFrom(d) PROVE n \in NodesFrom(0)
    OBVIOUS
  <2>1. \/ n \in {Primitive("empty"), Primitive("function")}
        \/ \E e \in Depths, v \in Values : e >= d /\ n = ExtractSchema[e][v]
    BY NodesFromMember
  <2>2. \A e \in Depths : e >= d => e >= 0
    BY <1>1 DEF Depths
  <2> QED BY <1>1, <2>1, <2>2, NodesFromMember
<1> QED BY <1>1, <1>3 DEF Structures

\* One step down from two nodes at the same depth.
LEMMA StepDown ==
  ASSUME NEW d \in Depths, NEW n \in NodesFrom(d), NEW k \in ChildSteps(n), NEW path \in Seq(Steps)
  PROVE  /\ d <= MaxDepth /\ d + 1 \in Depths /\ d \in Nat
         /\ k \in Steps /\ Child(n, k) \in NodesFrom(d + 1)
         /\ Append(path, k) \in Seq(Steps) /\ Len(Append(path, k)) = Len(path) + 1
<1>1. n.kind # "primitive" /\ k \in Steps /\ Child(n, k) \in NodesFrom(d + 1) /\ d <= MaxDepth
  BY NodeParts
<1>2. d + 1 \in Depths /\ d \in Nat
  BY <1>1, JsonAssumption DEF Depths
<1> QED BY <1>1, <1>2, PathGrows

\* Containers with the same steps to the same parts are the same.
LEMMA NodeExtensionality ==
  ASSUME NEW d \in Depths, NEW a \in NodesFrom(d), NEW b \in NodesFrom(d),
         a.kind = b.kind, a.kind # "primitive", ChildSteps(a) = ChildSteps(b),
         \A k \in ChildSteps(a) : Child(a, k) = Child(b, k)
  PROVE  a = b
<1>1. IsNode(a, d) /\ IsNode(b, d)
  BY NodeShape
<1>2. CASE a.kind = "array"
  <2>1. ChildSteps(a) = {Item}
    BY <1>2, NodeParts
  <2>2. a.items[1] = b.items[1]
    BY <1>2, <2>1 DEF Child
  <2> QED BY <1>1, <1>2, <2>2 DEF IsNode
<1>3. CASE a.kind = "object"
  <2>1. DOMAIN a.fields = DOMAIN b.fields /\ \A k \in DOMAIN a.fields : a.fields[k] = b.fields[k]
    BY <1>3 DEF ChildSteps, Child
  <2>2. a.fields = b.fields
    BY <1>1, <1>3, <2>1 DEF IsNode
  <2> QED BY <1>1, <1>3, <2>2 DEF IsNode
<1> QED BY <1>1, <1>2, <1>3 DEF IsNode

\* No field has the name of an inherited property.
OwnNames == FieldNames \cap Inherited = {}

\* Two different primitives are a change of type.
LEMMA DiffOfPrimitives ==
  ASSUME NEW a \in Nodes, NEW b \in Nodes, NEW path \in Seq(Steps),
         a.kind = b.kind, a.kind = "primitive", a # b
  PROVE  DiffAt(a, b, path) = Change(path, "type_changed")
BY DiffUnfolds DEF DiffAt, DiffNodes

\* The changes between two nodes, one step at a time: between the roots, or behind a
\* common step, or a step that only one of them has.
LEMMA DiffCases ==
  ASSUME OwnNames, NEW d \in Depths, NEW a \in NodesFrom(d), NEW b \in NodesFrom(d),
         NEW path \in Seq(Steps)
  PROVE  /\ a.kind # b.kind => DiffAt(a, b, path) = Change(path, "structural_change")
         /\ a.kind = b.kind /\ a.kind = "primitive" /\ a = b => DiffAt(a, b, path) = {}
         /\ a.kind = b.kind /\ a.kind = "primitive" /\ a # b =>
              DiffAt(a, b, path) = Change(path, "type_changed")
         /\ a.kind = b.kind /\ a.kind # "primitive" =>
              \A c : c \in DiffAt(a, b, path) <=>
                \/ \E k \in ChildSteps(a) : /\ k \in ChildSteps(b)
                                            /\ c \in DiffAt(Child(a, k), Child(b, k), Append(path, k))
                \/ \E k \in ChildSteps(a) \ ChildSteps(b) : c \in Change(Append(path, k), "removed")
                \/ \E k \in ChildSteps(b) \ ChildSteps(a) : c \in Change(Append(path, k), "added")
<1>1. IsNode(a, d) /\ IsNode(b, d) /\ a \in Nodes /\ b \in Nodes
  BY NodeShape, NodesFromInNodes
<1>2. DiffAt(a, b, path) = DiffNodes(DiffSchemas, a, b, path)
  BY <1>1, DiffUnfolds DEF DiffAt
<1>3. CASE a.kind # b.kind
  BY <1>2, <1>3 DEF DiffNodes
<1>4. CASE a.kind = b.kind /\ a.kind = "primitive"
  BY <1>2, <1>4 DEF DiffNodes
<1>5. CASE a.kind = b.kind /\ a.kind = "array"
  <2>1. DiffAt(a, b, path) = DiffAt(a.items[1], b.items[1], Append(path, Item))
    BY <1>2, <1>5 DEF DiffNodes, DiffAt
  <2>2. ChildSteps(a) = {Item} /\ ChildSteps(b) = {Item}
    BY <1>5, NodeParts
  <2> QED BY <1>5, <2>1, <2>2 DEF Child
<1>6. CASE a.kind = b.kind /\ a.kind = "object"
  <2>1. DiffAt(a, b, path) = Kept(DiffSchemas, a, b, path) \cup Added(a, b, path)
    BY <1>2, <1>6 DEF DiffNodes
  <2>2. ChildSteps(a) = DOMAIN a.fields /\ ChildSteps(b) = DOMAIN b.fields
    BY <1>6 DEF ChildSteps
  <2>3. DOMAIN a.fields \subseteq FieldNames /\ DOMAIN b.fields \subseteq FieldNames
    BY <1>1, <1>6 DEF IsNode
  <2>4. /\ \A k \in DOMAIN a.fields : Has(b, k) <=> k \in DOMAIN b.fields
        /\ \A k \in DOMAIN b.fields : Has(a, k) <=> k \in DOMAIN a.fields
    BY <2>3 DEF Has, OwnNames
  <2>5. \A c : c \in Added(a, b, path) <=>
              \E k \in ChildSteps(b) \ ChildSteps(a) : c \in Change(Append(path, k), "added")
    BY <2>2, <2>4 DEF Added
  <2>6. \A c : c \in Kept(DiffSchemas, a, b, path) <=>
              \E k \in DOMAIN a.fields :
                c \in IF k \in DOMAIN b.fields
                      THEN DiffSchemas[<<a.fields[k], b.fields[k], Append(path, k)>>]
                      ELSE Change(Append(path, k), "removed")
    BY <2>4 DEF Kept, Field
  <2>7. \A k : Child(a, k) = a.fields[k] /\ Child(b, k) = b.fields[k]
    BY <1>6 DEF Child
  <2> QED BY <1>6, <2>1, <2>2, <2>5, <2>6, <2>7 DEF DiffAt
<1> QED BY <1>1, <1>3, <1>4, <1>5, <1>6 DEF IsNode

\* There is nothing to report exactly if the structures are equal (hashSchema).
LEMMA EmptyMeansEqual ==
  ASSUME OwnNames, NEW a \in Nodes, NEW b \in Nodes
  PROVE  DiffAt(a, b, <<>>) = {} <=> a = b
<1> DEFINE P(d) == \A x, y \in NodesFrom(d), path \in Seq(Steps) :
                      DiffAt(x, y, path) = {} <=> x = y
           S == {d \in Depths : P(d)}
<1>1. ASSUME NEW d \in Depths, d <= MaxDepth => d + 1 \in S PROVE P(d)
  <2> SUFFICES ASSUME NEW x \in NodesFrom(d), NEW y \in NodesFrom(d), NEW path \in Seq(Steps)
               PROVE  DiffAt(x, y, path) = {} <=> x = y
    OBVIOUS
  <2>0. \A q, t : Change(q, t) # {}
    BY DEF Change
  <2>a. CASE x.kind # y.kind
    BY <2>0, <2>a, DiffCases
  <2>1. CASE x.kind = y.kind /\ x.kind = "primitive"
    <3>1. CASE x = y
      BY <2>1, <3>1, DiffCases
    <3>2. CASE x # y
      BY <2>0, <2>1, <3>2, DiffCases
    <3> QED BY <3>1, <3>2
  <2>2. CASE x.kind = y.kind /\ x.kind # "primitive"
    <3>1. \A c : c \in DiffAt(x, y, path) <=>
            \/ \E k \in ChildSteps(x) : /\ k \in ChildSteps(y)
                                        /\ c \in DiffAt(Child(x, k), Child(y, k), Append(path, k))
            \/ \E k \in ChildSteps(x) \ ChildSteps(y) : c \in Change(Append(path, k), "removed")
            \/ \E k \in ChildSteps(y) \ ChildSteps(x) : c \in Change(Append(path, k), "added")
      BY <2>2, DiffCases
    <3>3. \A k \in ChildSteps(x) : k \in ChildSteps(y) =>
            (DiffAt(Child(x, k), Child(y, k), Append(path, k)) = {} <=> Child(x, k) = Child(y, k))
      BY <1>1, StepDown
    <3>4. DiffAt(x, y, path) = {} => ChildSteps(x) = ChildSteps(y)
      BY <2>0, <3>1
    <3>5. DiffAt(x, y, path) = {} => \A k \in ChildSteps(x) : Child(x, k) = Child(y, k)
      BY <3>1, <3>3, <3>4
    <3>6. DiffAt(x, y, path) = {} => x = y
      BY <2>2, <3>4, <3>5, NodeExtensionality
    <3>7. x = y => DiffAt(x, y, path) = {}
      BY <3>1, <3>3
    <3> QED BY <3>6, <3>7
  <2> QED BY <2>a, <2>1, <2>2
<1> HIDE DEF P
<1>2. 0 \in S
  BY <1>1, NodeInduction
<1>3. <<>> \in Seq(Steps) /\ a \in NodesFrom(0) /\ b \in NodesFrom(0)
  BY NodesAreFromZero
<1> QED BY <1>2, <1>3 DEF P

-----------------------------------------------------------------------------
(* Places and their paths.                                                 *)

\* A structure's places are its root and those of its parts.
LEMMA PlacesCases ==
  ASSUME NEW s \in Structures, NEW path \in Seq(Steps)
  PROVE  /\ Place(s, path) \in PlacesAt(s, path)
         /\ Len(path) > MaxDepth + 1 => PlacesAt(s, path) = {Place(s, path)}
         /\ \A p \in PlacesAt(s, path) :
              \/ p = Place(s, path)
              \/ \E k \in ChildSteps(s) : p \in PlacesAt(Child(s, k), Append(path, k))
         /\ Len(path) <= MaxDepth + 1 =>
              \A k \in ChildSteps(s) : PlacesAt(Child(s, k), Append(path, k)) \subseteq PlacesAt(s, path)
<1>1. PlacesAt(s, path) = PlacesVia(Places, s, path) /\ MaxDepth \in Nat
  BY PlacesUnfold, JsonAssumption DEF PlacesAt
<1>2. CASE Len(path) > MaxDepth + 1
  BY <1>1, <1>2 DEF PlacesVia
<1>3. CASE ~(Len(path) > MaxDepth + 1)
  BY <1>1, <1>3 DEF PlacesVia, PlacesAt
<1> QED BY <1>1, <1>2, <1>3

Extends(q, path) ==
  /\ q \in Seq(Steps) /\ Len(q) >= Len(path)
  /\ \A i \in 1 .. Len(path) : q[i] = path[i]

\* The paths of a structure's places start with the structure's own.
LEMMA PlacesExtend ==
  ASSUME NEW s \in Structures, NEW path \in Seq(Steps), NEW p \in PlacesAt(s, path)
  PROVE  Extends(p.path, path)
<1> DEFINE P(d) == \A t \in Structures, q \in Seq(Steps) :
                      Len(q) = d => \A r \in PlacesAt(t, q) : Extends(r.path, q)
           S == {d \in Nat : P(d)}
<1>0. MaxDepth + 2 \in Nat
  BY JsonAssumption
<1>1. ASSUME NEW t, NEW q \in Seq(Steps) PROVE Extends(Place(t, q).path, q)
  BY DEF Extends, Place
<1>2. ASSUME NEW t \in Structures, NEW q \in Seq(Steps), Len(q) > MaxDepth + 1,
             NEW r \in PlacesAt(t, q)
      PROVE  Extends(r.path, q)
  <2>1. r = Place(t, q)
    BY <1>2, PlacesCases
  <2> QED BY <1>1, <2>1
<1>3. P(MaxDepth + 2)
  BY <1>2, JsonAssumption
<1>4. ASSUME NEW d \in Nat, P(d + 1) PROVE P(d)
  <2> SUFFICES ASSUME NEW t \in Structures, NEW q \in Seq(Steps), Len(q) = d, NEW r \in PlacesAt(t, q)
               PROVE  Extends(r.path, q)
    OBVIOUS
  <2>1. CASE r = Place(t, q)
    BY <1>1, <2>1
  <2>2. ASSUME NEW k \in ChildSteps(t), r \in PlacesAt(Child(t, k), Append(q, k))
        PROVE  Extends(r.path, q)
    <3>1. k \in Steps /\ Child(t, k) \in Structures
      BY StructureParts
    <3>2. /\ Append(q, k) \in Seq(Steps) /\ Len(Append(q, k)) = d + 1
          /\ \A i \in 1 .. Len(q) : Append(q, k)[i] = q[i]
      BY <3>1, PathGrows
    <3>3. Extends(r.path, Append(q, k))
      BY <1>4, <2>2, <3>1, <3>2
    <3> QED BY <3>2, <3>3 DEF Extends
  <2> QED BY <2>1, <2>2, PlacesCases
<1> HIDE DEF P
<1>5. \A d \in 0 .. MaxDepth + 2 : d \in S
  BY <1>0, <1>3, <1>4, DepthInduction
<1>6. CASE Len(path) > MaxDepth + 1
  BY <1>2, <1>6
<1>7. CASE Len(path) <= MaxDepth + 1
  <2>1. Len(path) \in 0 .. MaxDepth + 2
    BY <1>7, JsonAssumption
  <2>2. P(Len(path))
    BY <1>5, <2>1
  <2> QED BY <2>2 DEF P
<1> QED BY <1>6, <1>7, JsonAssumption

\* The places behind a step are those whose paths take it.
LEMMA PlacesBehindStep ==
  ASSUME NEW s \in Structures, NEW path \in Seq(Steps), Len(path) <= MaxDepth + 1,
         NEW k \in ChildSteps(s), NEW p \in PlacesAt(Child(s, k), Append(path, k))
  PROVE  /\ p \in PlacesAt(s, path)
         /\ Extends(p.path, Append(path, k))
         /\ Len(p.path) > Len(path) /\ p.path[Len(path) + 1] = k
         /\ p.path # path
<1>1. k \in Steps /\ Child(s, k) \in Structures
  BY StructureParts
<1>2. /\ Append(path, k) \in Seq(Steps) /\ Len(Append(path, k)) = Len(path) + 1
      /\ Append(path, k)[Len(path) + 1] = k /\ Len(path) \in Nat
  BY <1>1, PathGrows
<1>3. Extends(p.path, Append(path, k))
  BY <1>1, <1>2, PlacesExtend
<1>4. p \in PlacesAt(s, path)
  BY PlacesCases
<1> QED BY <1>2, <1>3, <1>4 DEF Extends

\* A place with the structure's own path is its root; any other is behind the next
\* step of its path.
LEMMA PlaceLies ==
  ASSUME NEW s \in Structures, NEW path \in Seq(Steps), Len(path) <= MaxDepth + 1,
         NEW p \in PlacesAt(s, path)
  PROVE  /\ p.path = path => p = Place(s, path)
         /\ p.path \in Seq(Steps) /\ Len(p.path) >= Len(path)
         /\ Len(p.path) > Len(path) =>
              /\ p.path[Len(path) + 1] \in ChildSteps(s)
              /\ p \in PlacesAt(Child(s, p.path[Len(path) + 1]), Append(path, p.path[Len(path) + 1]))
         /\ ~(Len(p.path) > Len(path)) => p = Place(s, path)
<1>1. \/ p = Place(s, path)
      \/ \E k \in ChildSteps(s) : p \in PlacesAt(Child(s, k), Append(path, k))
  BY PlacesCases
<1>2. Extends(p.path, path)
  BY PlacesExtend
<1>3. Place(s, path).path = path
  BY DEF Place
<1> QED BY <1>1, <1>2, <1>3, PlacesBehindStep DEF Extends

\* A place of one structure that has the path of a place behind a step of
\* another is behind the same step.
LEMMA PlacesMatch ==
  ASSUME NEW s \in Structures, NEW t \in Structures, NEW path \in Seq(Steps),
         Len(path) <= MaxDepth + 1, NEW k \in ChildSteps(s),
         NEW p \in PlacesAt(Child(s, k), Append(path, k)),
         NEW r \in PlacesAt(t, path), r.path = p.path
  PROVE  k \in ChildSteps(t) /\ r \in PlacesAt(Child(t, k), Append(path, k))
BY PlacesBehindStep, PlaceLies

\* p is the path of a place of a that b has not, in an object that both have.
Gone(a, b, path, p) ==
  /\ \E q \in PlacesAt(a, path) : q.path = p
  /\ \A r \in PlacesAt(b, path) : r.path # p
  /\ \E q \in PlacesAt(a, path), r \in PlacesAt(b, path) :
       q.path = Parent(p) /\ r.path = Parent(p) /\ q.kind = "object" /\ r.kind = "object"

\* p is the path of places of different kinds; of primitives of different types.
Clash(a, b, path, p) ==
  \E q \in PlacesAt(a, path), r \in PlacesAt(b, path) :
    q.path = p /\ r.path = p /\ q.kind # r.kind

Retyped(a, b, path, p) ==
  \E q \in PlacesAt(a, path), r \in PlacesAt(b, path) :
    /\ q.path = p /\ r.path = p
    /\ q.kind = "primitive" /\ r.kind = "primitive" /\ q.type # r.type

Says(a, b, path, t, p) == \E c \in DiffAt(a, b, path) : c.type = t /\ c.path = p

\* A path without its last step still starts with what it started with.
LEMMA ParentOf ==
  ASSUME NEW p \in Seq(Steps), NEW n \in Nat, Len(p) > n
  PROVE  /\ Parent(p) \in Seq(Steps) /\ Len(Parent(p)) = Len(p) - 1
         /\ \A i \in 1 .. n : Parent(p)[i] = p[i]
<1>1. Len(p) - 1 \in Nat /\ n <= Len(p) - 1 /\ Len(p) - 1 <= Len(p) /\ Len(p) \in Nat
  OBVIOUS
<1>2. Parent(p) = [i \in 1 .. Len(p) - 1 |-> p[i]]
  BY <1>1 DEF Parent
<1> QED BY <1>1, <1>2

\* Append and Parent undo each other.
LEMMA ParentOfAppend ==
  ASSUME NEW path \in Seq(Steps), NEW k \in Steps
  PROVE  Parent(Append(path, k)) = path
BY DEF Parent

\* A path that starts with another of the same length is that path.
LEMMA ExtendsExactly ==
  ASSUME NEW q, NEW path \in Seq(Steps), Extends(q, path), Len(q) = Len(path)
  PROVE  q = path
BY DEF Extends

\* What the changes say of a path, one step at a time.
LEMMA SaysCases ==
  ASSUME OwnNames, NEW d \in Depths, NEW a \in NodesFrom(d), NEW b \in NodesFrom(d),
         NEW path \in Seq(Steps), NEW t, NEW p
  PROVE  /\ a.kind # b.kind => (Says(a, b, path, t, p) <=> t = "structural_change" /\ p = path)
         /\ a.kind = b.kind /\ a.kind = "primitive" =>
              (Says(a, b, path, t, p) <=> a # b /\ t = "type_changed" /\ p = path)
         /\ a.kind = b.kind /\ a.kind # "primitive" =>
              (Says(a, b, path, t, p) <=>
                \/ \E k \in ChildSteps(a) : /\ k \in ChildSteps(b)
                                            /\ Says(Child(a, k), Child(b, k), Append(path, k), t, p)
                \/ \E k \in ChildSteps(a) \ ChildSteps(b) : t = "removed" /\ p = Append(path, k)
                \/ \E k \in ChildSteps(b) \ ChildSteps(a) : t = "added" /\ p = Append(path, k))
<1>0. \A q, u : (\E c \in Change(q, u) : c.type = t /\ c.path = p) <=> t = u /\ p = q
  BY DEF Change
<1>1. CASE a.kind # b.kind
  BY <1>0, <1>1, DiffCases DEF Says
<1>2. CASE a.kind = b.kind /\ a.kind = "primitive"
  <2>1. CASE a = b
    BY <1>2, <2>1, DiffCases DEF Says
  <2>2. CASE a # b
    <3>1. DiffAt(a, b, path) = Change(path, "type_changed")
      BY <1>2, <2>2, DiffOfPrimitives, NodesFromInNodes
    <3> QED BY <1>0, <1>2, <2>2, <3>1 DEF Says
  <2> QED BY <1>2, <2>1, <2>2
<1>3. CASE a.kind = b.kind /\ a.kind # "primitive"
  <2>1. \A c : c \in DiffAt(a, b, path) <=>
                \/ \E k \in ChildSteps(a) : /\ k \in ChildSteps(b)
                                            /\ c \in DiffAt(Child(a, k), Child(b, k), Append(path, k))
                \/ \E k \in ChildSteps(a) \ ChildSteps(b) : c \in Change(Append(path, k), "removed")
                \/ \E k \in ChildSteps(b) \ ChildSteps(a) : c \in Change(Append(path, k), "added")
    BY <1>3, DiffCases
  <2>2. \A u, k : (\E c \in Change(Append(path, k), u) : c.type = t /\ c.path = p)
                    <=> t = u /\ p = Append(path, k)
    BY <1>0
  <2>3. ASSUME Says(a, b, path, t, p)
        PROVE  \/ \E k \in ChildSteps(a) : /\ k \in ChildSteps(b)
                                            /\ Says(Child(a, k), Child(b, k), Append(path, k), t, p)
               \/ \E k \in ChildSteps(a) \ ChildSteps(b) : t = "removed" /\ p = Append(path, k)
               \/ \E k \in ChildSteps(b) \ ChildSteps(a) : t = "added" /\ p = Append(path, k)
    <3>1. PICK c \in DiffAt(a, b, path) : c.type = t /\ c.path = p
      BY <2>3 DEF Says
    <3> QED BY <2>1, <2>2, <3>1 DEF Says
  <2>4. ASSUME NEW k \in ChildSteps(a), k \in ChildSteps(b),
               Says(Child(a, k), Child(b, k), Append(path, k), t, p)
        PROVE  Says(a, b, path, t, p)
    BY <2>1, <2>4 DEF Says
  <2>5. ASSUME NEW k \in ChildSteps(a) \ ChildSteps(b), t = "removed", p = Append(path, k)
        PROVE  Says(a, b, path, t, p)
    BY <2>1, <2>2, <2>5 DEF Says
  <2>6. ASSUME NEW k \in ChildSteps(b) \ ChildSteps(a), t = "added", p = Append(path, k)
        PROVE  Says(a, b, path, t, p)
    BY <2>1, <2>2, <2>6 DEF Says
  <2> QED BY <1>3, <2>3, <2>4, <2>5, <2>6
<1> QED BY <1>1, <1>2, <1>3

\* Two nodes of different kinds, or primitives, share no step.
LEMMA NoCommonStep ==
  ASSUME NEW d \in Depths, NEW a \in NodesFrom(d), NEW b \in NodesFrom(d),
         a.kind # b.kind \/ a.kind = "primitive" \/ b.kind = "primitive"
  PROVE  \A k \in ChildSteps(a) : k \notin ChildSteps(b)
BY NodeParts

\* Places with one path are the roots, or behind a common step.
LEMMA MatchCases ==
  ASSUME NEW a \in Structures, NEW b \in Structures, NEW path \in Seq(Steps),
         Len(path) <= MaxDepth + 1,
         NEW q \in PlacesAt(a, path), NEW r \in PlacesAt(b, path), q.path = r.path
  PROVE  \/ q = Place(a, path) /\ r = Place(b, path)
         \/ \E k \in ChildSteps(a) : /\ k \in ChildSteps(b)
                                     /\ q \in PlacesAt(Child(a, k), Append(path, k))
                                     /\ r \in PlacesAt(Child(b, k), Append(path, k))
<1>1. CASE q = Place(a, path)
  <2>1. q.path = path
    BY <1>1 DEF Place
  <2> QED BY <1>1, <2>1, PlaceLies
<1>2. ASSUME NEW k \in ChildSteps(a), q \in PlacesAt(Child(a, k), Append(path, k))
      PROVE  k \in ChildSteps(b) /\ r \in PlacesAt(Child(b, k), Append(path, k))
  BY <1>2, PlacesMatch
<1> QED BY <1>1, <1>2, PlacesCases

-----------------------------------------------------------------------------
(* What is gone, clashes or is retyped, one step at a time.                *)

\* Nothing can be gone from an object where there are not two objects.
LEMMA GoneNowhere ==
  ASSUME NEW d \in Depths, NEW a \in NodesFrom(d), NEW b \in NodesFrom(d),
         NEW path \in Seq(Steps), Len(path) <= MaxDepth + 1,
         a.kind # b.kind \/ a.kind = "primitive" \/ b.kind = "primitive", NEW p
  PROVE  ~Gone(a, b, path, p)
<1>1. a \in Structures /\ b \in Structures
  BY NodesFromInNodes
<1>2. ASSUME NEW q \in PlacesAt(a, path), NEW r \in PlacesAt(b, path), q.path = r.path
      PROVE  q = Place(a, path) /\ r = Place(b, path)
  BY <1>1, <1>2, MatchCases, NoCommonStep
<1>3. Place(a, path).kind = a.kind /\ Place(b, path).kind = b.kind
  BY DEF Place
<1> QED BY <1>2, <1>3 DEF Gone

\* What is gone is gone behind a common step, or is a step only one object has.
LEMMA GoneCases ==
  ASSUME NEW d \in Depths, NEW a \in NodesFrom(d), NEW b \in NodesFrom(d),
         NEW path \in Seq(Steps), Len(path) <= MaxDepth + 1,
         a.kind = b.kind, a.kind # "primitive", NEW p
  PROVE  Gone(a, b, path, p) <=>
           \/ \E k \in ChildSteps(a) : /\ k \in ChildSteps(b)
                                       /\ Gone(Child(a, k), Child(b, k), Append(path, k), p)
           \/ \E k \in ChildSteps(a) \ ChildSteps(b) : p = Append(path, k)
<1> DEFINE A == PlacesAt(a, path)
           B == PlacesAt(b, path)
<1>1. a \in Structures /\ b \in Structures
  BY NodesFromInNodes
<1>2. /\ Place(a, path) \in A /\ Place(b, path) \in B
      /\ Place(a, path).path = path /\ Place(b, path).path = path
      /\ Place(a, path).kind = a.kind /\ Place(b, path).kind = b.kind
  BY <1>1, PlacesCases DEF Place
<1>3. \A k \in ChildSteps(a) : PlacesAt(Child(a, k), Append(path, k)) \subseteq A
  BY <1>1, PlacesCases
<1>4. \A k \in ChildSteps(b) : PlacesAt(Child(b, k), Append(path, k)) \subseteq B
  BY <1>1, PlacesCases
<1>5. ASSUME NEW k \in ChildSteps(a)
      PROVE  /\ k \in Steps /\ Append(path, k) \in Seq(Steps) /\ Child(a, k) \in Structures
             /\ Place(Child(a, k), Append(path, k)) \in PlacesAt(Child(a, k), Append(path, k))
             /\ Place(Child(a, k), Append(path, k)).path = Append(path, k)
  <2>1. k \in Steps /\ Append(path, k) \in Seq(Steps) /\ Child(a, k) \in Structures
    BY <1>1, StructureParts, PathGrows
  <2> QED BY <2>1, PlacesCases DEF Place
<1>6. ASSUME NEW k \in ChildSteps(a), k \in ChildSteps(b),
             Gone(Child(a, k), Child(b, k), Append(path, k), p)
      PROVE  Gone(a, b, path, p)
  <2>1. PICK q \in PlacesAt(Child(a, k), Append(path, k)) : q.path = p
    BY <1>6 DEF Gone
  <2>2. \A r \in B : r.path # p
    <3> SUFFICES ASSUME NEW r \in B, r.path = p PROVE FALSE
      OBVIOUS
    <3>1. r \in PlacesAt(Child(b, k), Append(path, k))
      BY <1>1, <2>1, PlacesMatch
    <3> QED BY <1>6, <3>1 DEF Gone
  <2>3. \E u \in A, v \in B : u.path = Parent(p) /\ v.path = Parent(p) /\ u.kind = "object" /\ v.kind = "object"
    BY <1>3, <1>4, <1>6 DEF Gone
  <2> QED BY <1>3, <2>1, <2>2, <2>3 DEF Gone
<1>7. ASSUME NEW k \in ChildSteps(a) \ ChildSteps(b), p = Append(path, k)
      PROVE  Gone(a, b, path, p)
  <2>1. \E q \in A : q.path = p
    BY <1>3, <1>5, <1>7
  <2>2. \A r \in B : r.path # p
    <3> SUFFICES ASSUME NEW r \in B, r.path = p PROVE FALSE
      OBVIOUS
    <3>1. PICK x \in PlacesAt(Child(a, k), Append(path, k)) : x.path = r.path
      BY <1>5, <1>7
    <3>2. k \in ChildSteps(b)
      BY <1>1, <3>1, PlacesMatch
    <3> QED BY <1>7, <3>2
  <2>3. a.kind = "object" /\ b.kind = "object"
    BY <1>7, NodeParts
  <2>4. Parent(p) = path
    BY <1>5, <1>7, ParentOfAppend
  <2> QED BY <1>2, <2>1, <2>2, <2>3, <2>4 DEF Gone
<1>8. ASSUME Gone(a, b, path, p)
      PROVE  \/ \E k \in ChildSteps(a) : /\ k \in ChildSteps(b)
                                          /\ Gone(Child(a, k), Child(b, k), Append(path, k), p)
             \/ \E k \in ChildSteps(a) \ ChildSteps(b) : p = Append(path, k)
  <2>1. PICK q \in A : q.path = p
    BY <1>8 DEF Gone
  <2>2. PICK u \in A, v \in B : u.path = Parent(p) /\ v.path = Parent(p) /\ u.kind = "object" /\ v.kind = "object"
    BY <1>8 DEF Gone
  <2>3. q # Place(a, path)
    BY <1>2, <1>8, <2>1 DEF Gone
  <2>4. PICK k \in ChildSteps(a) : q \in PlacesAt(Child(a, k), Append(path, k))
    BY <1>1, <2>1, <2>3, PlacesCases
  <2>5. /\ p \in Seq(Steps) /\ Extends(p, Append(path, k)) /\ Len(path) \in Nat
        /\ Len(Append(path, k)) = Len(path) + 1 /\ Append(path, k)[Len(path) + 1] = k
    BY <1>1, <1>5, <2>1, <2>4, PlacesBehindStep, PathGrows DEF Extends
  <2>6. CASE p = Append(path, k)
    <3>1. k \notin ChildSteps(b)
      <4> SUFFICES ASSUME k \in ChildSteps(b) PROVE FALSE
        OBVIOUS
      <4>1. Child(b, k) \in Structures
        BY <1>1, StructureParts
      <4>2. Place(Child(b, k), Append(path, k)) \in B /\ Place(Child(b, k), Append(path, k)).path = p
        BY <1>4, <1>5, <2>6, <4>1, PlacesCases DEF Place
      <4> QED BY <1>8, <4>2 DEF Gone
    <3> QED BY <2>6, <3>1
  <2>7. CASE p # Append(path, k)
    <3>1. Len(p) > Len(path) + 1 /\ p[Len(path) + 1] = k
      BY <1>5, <2>5, <2>7, ExtendsExactly, SMTT(30) DEF Extends
    <3>2. Len(Parent(p)) > Len(path) /\ Parent(p)[Len(path) + 1] = k
      BY <2>5, <3>1, ParentOf
    <3>3. /\ u \in PlacesAt(Child(a, k), Append(path, k))
          /\ k \in ChildSteps(b) /\ v \in PlacesAt(Child(b, k), Append(path, k))
      BY <1>1, <2>2, <3>2, PlaceLies
    <3>4. \A r \in PlacesAt(Child(b, k), Append(path, k)) : r.path # p
      BY <1>4, <1>8, <3>3 DEF Gone
    <3>5. Gone(Child(a, k), Child(b, k), Append(path, k), p)
      BY <2>1, <2>2, <2>4, <3>3, <3>4 DEF Gone
    <3> QED BY <3>3, <3>5
  <2> QED BY <2>6, <2>7
<1> QED BY <1>6, <1>7, <1>8

\* The same for two places with one path: all of it is behind common steps, or
\* between the roots.
LEMMA ClashCases ==
  ASSUME NEW d \in Depths, NEW a \in NodesFrom(d), NEW b \in NodesFrom(d),
         NEW path \in Seq(Steps), Len(path) <= MaxDepth + 1, NEW p
  PROVE  /\ Clash(a, b, path, p) <=>
              \/ a.kind # b.kind /\ p = path
              \/ \E k \in ChildSteps(a) : /\ k \in ChildSteps(b)
                                          /\ Clash(Child(a, k), Child(b, k), Append(path, k), p)
         /\ Retyped(a, b, path, p) <=>
              \/ a.kind = "primitive" /\ b.kind = "primitive" /\ a.type # b.type /\ p = path
              \/ \E k \in ChildSteps(a) : /\ k \in ChildSteps(b)
                                          /\ Retyped(Child(a, k), Child(b, k), Append(path, k), p)
<1> DEFINE A == PlacesAt(a, path)
           B == PlacesAt(b, path)
<1>1. a \in Structures /\ b \in Structures
  BY NodesFromInNodes
<1>2. /\ Place(a, path) \in A /\ Place(b, path) \in B
      /\ Place(a, path).path = path /\ Place(b, path).path = path
      /\ Place(a, path).kind = a.kind /\ Place(b, path).kind = b.kind
      /\ a.kind = "primitive" => Place(a, path).type = a.type
      /\ b.kind = "primitive" => Place(b, path).type = b.type
  BY <1>1, PlacesCases DEF Place
<1>3. \A k \in ChildSteps(a) : PlacesAt(Child(a, k), Append(path, k)) \subseteq A
  BY <1>1, PlacesCases
<1>4. \A k \in ChildSteps(b) : PlacesAt(Child(b, k), Append(path, k)) \subseteq B
  BY <1>1, PlacesCases
<1>5. ASSUME NEW q \in A, NEW r \in B, q.path = r.path
      PROVE  \/ q = Place(a, path) /\ r = Place(b, path)
             \/ \E k \in ChildSteps(a) : /\ k \in ChildSteps(b)
                                         /\ q \in PlacesAt(Child(a, k), Append(path, k))
                                         /\ r \in PlacesAt(Child(b, k), Append(path, k))
  BY <1>1, <1>5, MatchCases
<1>6. Clash(a, b, path, p) <=>
        \/ a.kind # b.kind /\ p = path
        \/ \E k \in ChildSteps(a) : /\ k \in ChildSteps(b)
                                    /\ Clash(Child(a, k), Child(b, k), Append(path, k), p)
  <2>1. ASSUME Clash(a, b, path, p)
        PROVE  \/ a.kind # b.kind /\ p = path
               \/ \E k \in ChildSteps(a) : /\ k \in ChildSteps(b)
                                           /\ Clash(Child(a, k), Child(b, k), Append(path, k), p)
    BY <1>2, <1>5, <2>1 DEF Clash
  <2>2. ASSUME NEW k \in ChildSteps(a), k \in ChildSteps(b),
               Clash(Child(a, k), Child(b, k), Append(path, k), p)
        PROVE  Clash(a, b, path, p)
    BY <1>3, <1>4, <2>2 DEF Clash
  <2>3. ASSUME a.kind # b.kind, p = path PROVE Clash(a, b, path, p)
    BY <1>2, <2>3 DEF Clash
  <2> QED BY <2>1, <2>2, <2>3
<1>7. Retyped(a, b, path, p) <=>
        \/ a.kind = "primitive" /\ b.kind = "primitive" /\ a.type # b.type /\ p = path
        \/ \E k \in ChildSteps(a) : /\ k \in ChildSteps(b)
                                    /\ Retyped(Child(a, k), Child(b, k), Append(path, k), p)
  <2>1. ASSUME Retyped(a, b, path, p)
        PROVE  \/ a.kind = "primitive" /\ b.kind = "primitive" /\ a.type # b.type /\ p = path
               \/ \E k \in ChildSteps(a) : /\ k \in ChildSteps(b)
                                           /\ Retyped(Child(a, k), Child(b, k), Append(path, k), p)
    BY <1>2, <1>5, <2>1 DEF Retyped
  <2>2. ASSUME NEW k \in ChildSteps(a), k \in ChildSteps(b),
               Retyped(Child(a, k), Child(b, k), Append(path, k), p)
        PROVE  Retyped(a, b, path, p)
    BY <1>3, <1>4, <2>2 DEF Retyped
  <2>3. ASSUME a.kind = "primitive", b.kind = "primitive", a.type # b.type, p = path
        PROVE  Retyped(a, b, path, p)
    BY <1>2, <2>3 DEF Retyped
  <2> QED BY <2>1, <2>2, <2>3
<1> QED BY <1>6, <1>7

-----------------------------------------------------------------------------
(* What the changes say is so.                                             *)

\* diffSchemas reports of each path exactly what is so of the places there, for
\* any two structures.
LEMMA ChangesAreExact ==
  ASSUME OwnNames, NEW a \in Nodes, NEW b \in Nodes, NEW p
  PROVE  /\ Says(a, b, <<>>, "structural_change", p) <=> Clash(a, b, <<>>, p)
         /\ Says(a, b, <<>>, "type_changed", p) <=> Retyped(a, b, <<>>, p)
         /\ Says(a, b, <<>>, "removed", p) <=> Gone(a, b, <<>>, p)
         /\ Says(a, b, <<>>, "added", p) <=> Gone(b, a, <<>>, p)
<1> DEFINE Exact(x, y, path) ==
             /\ Says(x, y, path, "structural_change", p) <=> Clash(x, y, path, p)
             /\ Says(x, y, path, "type_changed", p) <=> Retyped(x, y, path, p)
             /\ Says(x, y, path, "removed", p) <=> Gone(x, y, path, p)
             /\ Says(x, y, path, "added", p) <=> Gone(y, x, path, p)
           P(d) == \A x, y \in NodesFrom(d), path \in Seq(Steps) :
                     Len(path) = d => Exact(x, y, path)
           S == {d \in Depths : P(d)}
<1>1. ASSUME NEW d \in Depths, d <= MaxDepth => d + 1 \in S PROVE P(d)
  <2> SUFFICES ASSUME NEW x \in NodesFrom(d), NEW y \in NodesFrom(d), NEW path \in Seq(Steps),
                      Len(path) = d
               PROVE  Exact(x, y, path)
    OBVIOUS
  <2>0. Len(path) <= MaxDepth + 1
    BY JsonAssumption DEF Depths
  <2>1. CASE x.kind # y.kind
    <3>1. ~Gone(x, y, path, p) /\ ~Gone(y, x, path, p)
      BY <2>0, <2>1, GoneNowhere
    <3>2. \A k \in ChildSteps(x) : k \notin ChildSteps(y)
      BY <2>1, NoCommonStep
    <3>3. (Clash(x, y, path, p) <=> p = path) /\ ~Retyped(x, y, path, p)
      BY <2>0, <2>1, <3>2, ClashCases
    <3>4. \A t : Says(x, y, path, t, p) <=> t = "structural_change" /\ p = path
      BY <2>1, SaysCases
    <3> QED BY <3>1, <3>3, <3>4
  <2>2. CASE x.kind = y.kind /\ x.kind = "primitive"
    <3>1. ~Gone(x, y, path, p) /\ ~Gone(y, x, path, p)
      BY <2>0, <2>2, GoneNowhere
    <3>2. \A k \in ChildSteps(x) : k \notin ChildSteps(y)
      BY <2>2, NoCommonStep
    <3>3. x # y <=> x.type # y.type
      BY <2>2, NodeShape DEF IsNode
    <3>4. ~Clash(x, y, path, p) /\ (Retyped(x, y, path, p) <=> x # y /\ p = path)
      <4>1. Clash(x, y, path, p) <=>
              \/ x.kind # y.kind /\ p = path
              \/ \E k \in ChildSteps(x) : /\ k \in ChildSteps(y)
                                          /\ Clash(Child(x, k), Child(y, k), Append(path, k), p)
        BY <2>0, ClashCases
      <4>2. Retyped(x, y, path, p) <=>
              \/ x.kind = "primitive" /\ y.kind = "primitive" /\ x.type # y.type /\ p = path
              \/ \E k \in ChildSteps(x) : /\ k \in ChildSteps(y)
                                          /\ Retyped(Child(x, k), Child(y, k), Append(path, k), p)
        BY <2>0, ClashCases
      <4> QED BY <2>2, <3>2, <3>3, <4>1, <4>2
    <3>5. \A t : Says(x, y, path, t, p) <=> x # y /\ t = "type_changed" /\ p = path
      BY <2>2, SaysCases
    <3> QED BY <3>1, <3>4, <3>5
  <2>3. CASE x.kind = y.kind /\ x.kind # "primitive"
    <3>1. ASSUME NEW k \in ChildSteps(x), k \in ChildSteps(y)
          PROVE  Exact(Child(x, k), Child(y, k), Append(path, k))
      <4>1. /\ d <= MaxDepth /\ Child(x, k) \in NodesFrom(d + 1)
            /\ Append(path, k) \in Seq(Steps) /\ Len(Append(path, k)) = d + 1
        BY StepDown
      <4>2. Child(y, k) \in NodesFrom(d + 1)
        BY <3>1, StepDown
      <4>3. P(d + 1)
        BY <1>1, <4>1
      <4> HIDE DEF Exact
      <4> QED BY <4>1, <4>2, <4>3
    <3>2. \A t : Says(x, y, path, t, p) <=>
                \/ \E k \in ChildSteps(x) : /\ k \in ChildSteps(y)
                                            /\ Says(Child(x, k), Child(y, k), Append(path, k), t, p)
                \/ \E k \in ChildSteps(x) \ ChildSteps(y) : t = "removed" /\ p = Append(path, k)
                \/ \E k \in ChildSteps(y) \ ChildSteps(x) : t = "added" /\ p = Append(path, k)
      BY <2>3, SaysCases
    <3>3. Says(x, y, path, "structural_change", p) <=> Clash(x, y, path, p)
      BY <2>0, <2>3, <3>1, <3>2, ClashCases
    <3>4. Says(x, y, path, "type_changed", p) <=> Retyped(x, y, path, p)
      BY <2>0, <2>3, <3>1, <3>2, ClashCases
    <3>5. Says(x, y, path, "removed", p) <=> Gone(x, y, path, p)
      BY <2>0, <2>3, <3>1, <3>2, GoneCases
    <3>6. Says(x, y, path, "added", p) <=> Gone(y, x, path, p)
      BY <2>0, <2>3, <3>1, <3>2, GoneCases
    <3> QED BY <3>3, <3>4, <3>5, <3>6
  <2> HIDE DEF Exact
  <2> QED BY <2>1, <2>2, <2>3
<1> HIDE DEF P
<1>2. 0 \in S
  BY <1>1, NodeInduction
<1>3. <<>> \in Seq(Steps) /\ Len(<<>>) = 0 /\ a \in NodesFrom(0) /\ b \in NodesFrom(0)
  BY NodesAreFromZero
<1>4. Exact(a, b, <<>>)
  <2> HIDE DEF Exact
  <2> QED BY <1>2, <1>3 DEF P
<1> QED BY <1>4

\* INFO and CRITICAL, by the changes and by the places.
Harmless(a, b, path) ==
  \A p, t : t \in {"removed", "structural_change", "type_changed"} => ~Says(a, b, path, t, p)

Breaking(a, b, path) ==
  \E p : Says(a, b, path, "removed", p) \/ Says(a, b, path, "structural_change", p)

SomeLost(a, b, path) ==
  \E p \in PlacesAt(a, path) : \A r \in PlacesAt(b, path) : r.path = p.path => r.kind # p.kind

\* What is lost, one step at a time: by a change of kind at the root all of it, by a
\* primitive's change of type its type, else what a part or its absence loses.
LEMMA LostCases ==
  ASSUME NEW d \in Depths, NEW a \in NodesFrom(d), NEW b \in NodesFrom(d),
         NEW path \in Seq(Steps), Len(path) <= MaxDepth + 1
  PROVE  /\ a.kind # b.kind =>
              SomeLost(a, b, path) /\ ~(PlacesAt(a, path) \subseteq PlacesAt(b, path))
         /\ a.kind = b.kind /\ a.kind = "primitive" =>
              ~SomeLost(a, b, path) /\ (PlacesAt(a, path) \subseteq PlacesAt(b, path) <=> a = b)
         /\ a.kind = b.kind /\ a.kind # "primitive" =>
              /\ SomeLost(a, b, path) <=>
                   \E k \in ChildSteps(a) :
                     k \in ChildSteps(b) => SomeLost(Child(a, k), Child(b, k), Append(path, k))
              /\ PlacesAt(a, path) \subseteq PlacesAt(b, path) <=>
                   \A k \in ChildSteps(a) :
                     /\ k \in ChildSteps(b)
                     /\ PlacesAt(Child(a, k), Append(path, k)) \subseteq PlacesAt(Child(b, k), Append(path, k))
<1> DEFINE A == PlacesAt(a, path)
           B == PlacesAt(b, path)
<1>1. a \in Structures /\ b \in Structures
  BY NodesFromInNodes
<1>2. /\ Place(a, path) \in A /\ Place(b, path) \in B
      /\ Place(a, path).path = path /\ Place(b, path).path = path
      /\ Place(a, path).kind = a.kind /\ Place(b, path).kind = b.kind
  BY <1>1, PlacesCases DEF Place
<1>3. \A r \in B : r.path = path => r = Place(b, path)
  BY <1>1, PlaceLies
<1>4. CASE a.kind # b.kind
  <2>1. SomeLost(a, b, path)
    BY <1>2, <1>3, <1>4 DEF SomeLost
  <2>2. ~(A \subseteq B)
    BY <1>2, <1>3, <1>4
  <2> QED BY <1>4, <2>1, <2>2
<1>5. CASE a.kind = b.kind /\ a.kind = "primitive"
  <2>1. ChildSteps(a) = {}
    BY <1>5 DEF ChildSteps
  <2>2. A = {Place(a, path)}
    BY <1>1, <1>2, <2>1, PlacesCases
  <2>3. ~SomeLost(a, b, path)
    BY <1>2, <1>5, <2>2 DEF SomeLost
  <2>4. A \subseteq B <=> Place(a, path) = Place(b, path)
    BY <1>2, <1>3, <2>2
  <2>5. Place(a, path) = Place(b, path) <=> a.type = b.type
    BY <1>5 DEF Place
  <2>6. a.type = b.type <=> a = b
    BY <1>5, NodeShape DEF IsNode
  <2> QED BY <1>5, <2>3, <2>4, <2>5, <2>6
<1>6. CASE a.kind = b.kind /\ a.kind # "primitive"
  <2>1. \A k \in ChildSteps(a) : PlacesAt(Child(a, k), Append(path, k)) \subseteq A
    BY <1>1, PlacesCases
  <2>2. \A k \in ChildSteps(b) : PlacesAt(Child(b, k), Append(path, k)) \subseteq B
    BY <1>1, PlacesCases
  <2>3. Place(a, path) = Place(b, path)
    BY <1>6 DEF Place
  <2>4. \A p \in A : p = Place(a, path) \/ \E k \in ChildSteps(a) : p \in PlacesAt(Child(a, k), Append(path, k))
    BY <1>1, PlacesCases
  <2>5. ASSUME NEW k \in ChildSteps(a), NEW p \in PlacesAt(Child(a, k), Append(path, k)),
               NEW r \in B, r.path = p.path
        PROVE  k \in ChildSteps(b) /\ r \in PlacesAt(Child(b, k), Append(path, k))
    BY <1>1, <2>5, PlacesMatch
  <2>6. \A k \in ChildSteps(a) : \E p : p \in PlacesAt(Child(a, k), Append(path, k))
    BY <1>1, StructureParts, PathGrows, PlacesCases
  <2>7. ASSUME NEW k \in ChildSteps(a), k \in ChildSteps(b) => SomeLost(Child(a, k), Child(b, k), Append(path, k))
        PROVE  SomeLost(a, b, path)
    <3>1. CASE k \in ChildSteps(b)
      BY <2>1, <2>5, <2>7, <3>1 DEF SomeLost
    <3>2. CASE k \notin ChildSteps(b)
      BY <2>1, <2>5, <2>6, <3>2 DEF SomeLost
    <3> QED BY <3>1, <3>2
  <2>8. ASSUME SomeLost(a, b, path)
        PROVE  \E k \in ChildSteps(a) :
                 k \in ChildSteps(b) => SomeLost(Child(a, k), Child(b, k), Append(path, k))
    <3>1. PICK p \in A : \A r \in B : r.path = p.path => r.kind # p.kind
      BY <2>8 DEF SomeLost
    <3>2. p # Place(a, path)
      BY <1>2, <2>3, <3>1
    <3>3. PICK k \in ChildSteps(a) : p \in PlacesAt(Child(a, k), Append(path, k))
      BY <2>4, <3>2
    <3>4. k \in ChildSteps(b) => SomeLost(Child(a, k), Child(b, k), Append(path, k))
      BY <2>2, <3>1, <3>3 DEF SomeLost
    <3> QED BY <3>4
  <2>9. ASSUME A \subseteq B, NEW k \in ChildSteps(a)
        PROVE  /\ k \in ChildSteps(b)
               /\ PlacesAt(Child(a, k), Append(path, k)) \subseteq PlacesAt(Child(b, k), Append(path, k))
    BY <2>1, <2>5, <2>6, <2>9
  <2>10. ASSUME \A k \in ChildSteps(a) :
                  /\ k \in ChildSteps(b)
                  /\ PlacesAt(Child(a, k), Append(path, k)) \subseteq PlacesAt(Child(b, k), Append(path, k))
         PROVE  A \subseteq B
    BY <1>2, <2>2, <2>3, <2>4, <2>10
  <2> HIDE DEF A, B
  <2> QED BY <1>6, <2>7, <2>8, <2>9, <2>10 DEF A, B
<1> QED BY <1>4, <1>5, <1>6

\* A removal or a change of kind is reported exactly if some place is lost, and
\* no removal and no change at all exactly if every place stays as it was.
LEMMA SeverityIsCompatibility ==
  ASSUME OwnNames, NEW a \in Nodes, NEW b \in Nodes
  PROVE  /\ Breaking(a, b, <<>>) <=> SomeLost(a, b, <<>>)
         /\ Harmless(a, b, <<>>) <=> PlacesAt(a, <<>>) \subseteq PlacesAt(b, <<>>)
<1> DEFINE Tells(x, y, path) ==
             /\ Breaking(x, y, path) <=> SomeLost(x, y, path)
             /\ Harmless(x, y, path) <=> PlacesAt(x, path) \subseteq PlacesAt(y, path)
           P(d) == \A x, y \in NodesFrom(d), path \in Seq(Steps) :
                     Len(path) = d => Tells(x, y, path)
           S == {d \in Depths : P(d)}
<1>1. ASSUME NEW d \in Depths, d <= MaxDepth => d + 1 \in S PROVE P(d)
  <2> SUFFICES ASSUME NEW x \in NodesFrom(d), NEW y \in NodesFrom(d), NEW path \in Seq(Steps),
                      Len(path) = d
               PROVE  Tells(x, y, path)
    OBVIOUS
  <2>0. Len(path) <= MaxDepth + 1
    BY JsonAssumption DEF Depths
  <2>1. CASE x.kind # y.kind
    <3>1. \A t, p : Says(x, y, path, t, p) <=> t = "structural_change" /\ p = path
      BY <2>1, SaysCases
    <3>2. Breaking(x, y, path) /\ ~Harmless(x, y, path)
      BY <3>1 DEF Breaking, Harmless
    <3> QED BY <2>0, <2>1, <3>2, LostCases
  <2>2. CASE x.kind = y.kind /\ x.kind = "primitive"
    <3>1. \A t, p : Says(x, y, path, t, p) <=> x # y /\ t = "type_changed" /\ p = path
      BY <2>2, SaysCases
    <3>2. ~Breaking(x, y, path) /\ (Harmless(x, y, path) <=> x = y)
      BY <3>1 DEF Breaking, Harmless
    <3> QED BY <2>0, <2>2, <3>2, LostCases
  <2>3. CASE x.kind = y.kind /\ x.kind # "primitive"
    <3>1. ASSUME NEW k \in ChildSteps(x), k \in ChildSteps(y)
          PROVE  Tells(Child(x, k), Child(y, k), Append(path, k))
      <4>1. /\ d <= MaxDepth /\ Child(x, k) \in NodesFrom(d + 1)
            /\ Append(path, k) \in Seq(Steps) /\ Len(Append(path, k)) = d + 1
        BY StepDown
      <4>2. Child(y, k) \in NodesFrom(d + 1)
        BY <3>1, StepDown
      <4>3. P(d + 1)
        BY <1>1, <4>1
      <4> HIDE DEF Tells
      <4> QED BY <4>1, <4>2, <4>3
    <3>2. \A t, p : Says(x, y, path, t, p) <=>
                \/ \E k \in ChildSteps(x) : /\ k \in ChildSteps(y)
                                            /\ Says(Child(x, k), Child(y, k), Append(path, k), t, p)
                \/ \E k \in ChildSteps(x) \ ChildSteps(y) : t = "removed" /\ p = Append(path, k)
                \/ \E k \in ChildSteps(y) \ ChildSteps(x) : t = "added" /\ p = Append(path, k)
      BY <2>3, SaysCases
    <3>3. Breaking(x, y, path) <=>
            \E k \in ChildSteps(x) :
              k \in ChildSteps(y) => Breaking(Child(x, k), Child(y, k), Append(path, k))
      <4>1. ASSUME Breaking(x, y, path)
            PROVE  \E k \in ChildSteps(x) :
                     k \in ChildSteps(y) => Breaking(Child(x, k), Child(y, k), Append(path, k))
        BY <3>2, <4>1 DEF Breaking
      <4>2. ASSUME NEW k \in ChildSteps(x),
                   k \in ChildSteps(y) => Breaking(Child(x, k), Child(y, k), Append(path, k))
            PROVE  Breaking(x, y, path)
        BY <3>2, <4>2 DEF Breaking
      <4> QED BY <4>1, <4>2
    <3>4. Harmless(x, y, path) <=>
            \A k \in ChildSteps(x) :
              k \in ChildSteps(y) /\ Harmless(Child(x, k), Child(y, k), Append(path, k))
      <4>1. ASSUME Harmless(x, y, path), NEW k \in ChildSteps(x)
            PROVE  k \in ChildSteps(y) /\ Harmless(Child(x, k), Child(y, k), Append(path, k))
        <5>1. k \in ChildSteps(y)
          <6> SUFFICES ASSUME k \notin ChildSteps(y) PROVE FALSE
            OBVIOUS
          <6>1. Says(x, y, path, "removed", Append(path, k))
            BY <3>2
          <6> QED BY <4>1, <6>1 DEF Harmless
        <5>2. ASSUME NEW p, NEW t, Says(Child(x, k), Child(y, k), Append(path, k), t, p)
              PROVE  Says(x, y, path, t, p)
          BY <3>2, <5>1, <5>2
        <5> QED BY <4>1, <5>1, <5>2 DEF Harmless
      <4>2. ASSUME \A k \in ChildSteps(x) :
                     k \in ChildSteps(y) /\ Harmless(Child(x, k), Child(y, k), Append(path, k))
            PROVE  Harmless(x, y, path)
        BY <3>2, <4>2 DEF Harmless
      <4> QED BY <4>1, <4>2
    <3>5. Breaking(x, y, path) <=> SomeLost(x, y, path)
      BY <2>0, <2>3, <3>1, <3>3, LostCases
    <3>6. Harmless(x, y, path) <=> PlacesAt(x, path) \subseteq PlacesAt(y, path)
      BY <2>0, <2>3, <3>1, <3>4, LostCases
    <3> QED BY <3>5, <3>6
  <2> HIDE DEF Tells
  <2> QED BY <2>1, <2>2, <2>3
<1> HIDE DEF P
<1>2. 0 \in S
  BY <1>1, NodeInduction
<1>3. <<>> \in Seq(Steps) /\ Len(<<>>) = 0 /\ a \in NodesFrom(0) /\ b \in NodesFrom(0)
  BY NodesAreFromZero
<1>4. Tells(a, b, <<>>)
  <2> HIDE DEF Tells
  <2> QED BY <1>2, <1>3 DEF P
<1> QED BY <1>4

\* classifySeverity of a diff says INFO exactly if every place stays as it was and
\* CRITICAL exactly if some place is lost; else it says WARNING.
LEMMA ClassifiesExactly ==
  ASSUME OwnNames, NEW a \in Nodes, NEW b \in Nodes
  PROVE  LET says == ClassifySeverity(DiffAt(a, b, <<>>))
         IN  /\ says \in {"INFO", "WARNING", "CRITICAL"}
             /\ says = "INFO" <=> PlacesAt(a, <<>>) \subseteq PlacesAt(b, <<>>)
             /\ says = "CRITICAL" <=> SomeLost(a, b, <<>>)
             /\ DiffAt(a, b, <<>>) = {} => says = "INFO"
<1> DEFINE says == ClassifySeverity(DiffAt(a, b, <<>>))
           types == {c.type : c \in DiffAt(a, b, <<>>)}
           breaks == types \cap {"removed", "structural_change"} # {}
<1>1. says = IF breaks THEN "CRITICAL" ELSE IF "type_changed" \in types THEN "WARNING" ELSE "INFO"
  BY DEF ClassifySeverity
<1>2. \A t : t \in types <=> \E p : Says(a, b, <<>>, t, p)
  BY DEF Says
<1>3. DiffAt(a, b, <<>>) = {} => types = {}
  OBVIOUS
<1> HIDE DEF types, says
<1>4. breaks <=> Breaking(a, b, <<>>)
  BY <1>2 DEF Breaking
<1>5. (~breaks /\ "type_changed" \notin types) <=> Harmless(a, b, <<>>)
  BY <1>2 DEF Harmless
<1>6. types = {} => ~breaks /\ "type_changed" \notin types
  OBVIOUS
<1> HIDE DEF breaks
<1>7. says = "CRITICAL" <=> breaks
  BY <1>1
<1>8. says = "INFO" <=> (~breaks /\ "type_changed" \notin types)
  BY <1>1
<1>9. says \in {"INFO", "WARNING", "CRITICAL"}
  BY <1>1
<1> QED BY <1>3, <1>4, <1>5, <1>6, <1>7, <1>8, <1>9, SeverityIsCompatibility DEF says

-----------------------------------------------------------------------------
(* What the schema says of a value.                                        *)

\* The place of the mark that extraction puts into an empty array.
Mark(path) == [path |-> Append(path, Item), kind |-> "primitive", type |-> "empty"]

Marks(places) ==
  {Mark(p.path) : p \in {q \in places : /\ q.kind = "array"
                                       /\ Append(q.path, Item) \notin Paths(places)}}

\* One call of extractSchema: the node has the place of its value and the same
\* steps, but for the mark in an empty array.
LEMMA ExtractCases ==
  ASSUME NEW d \in Depths, d <= MaxDepth, NEW v \in Values
  PROVE  LET e == ExtractSchema[d][v]
         IN  /\ \A path : Place(e, path) = Place(v, path)
             /\ \A k \in ChildSteps(v) : /\ Child(v, k) \in Values
                                         /\ Child(e, k) = ExtractSchema[d + 1][Child(v, k)]
             /\ \/ ChildSteps(e) = ChildSteps(v) /\ ~(v.kind = "array" /\ v.items = <<>>)
                \/ /\ v.kind = "array" /\ v.items = <<>> /\ ChildSteps(v) = {}
                   /\ ChildSteps(e) = {Item} /\ Child(e, Item) = Primitive("empty")
<1> DEFINE e == ExtractSchema[d][v]
<1>1. e = ExtractParts(ExtractSchema, v, d)
  <2>1. e = ExtractNode(ExtractSchema, v, d)
    BY ExtractUnfolds
  <2>2. ~(d > MaxDepth)
    BY JsonAssumption DEF Depths
  <2> QED BY <2>1, <2>2 DEF ExtractNode
<1>2. CASE IsPrimitive(v)
  <2>1. e = v /\ ChildSteps(v) = {} /\ v.kind # "array"
    BY <1>1, <1>2 DEF ExtractParts, IsPrimitive, ChildSteps
  <2> HIDE DEF e
  <2> QED BY <2>1 DEF e
<1>3. CASE IsArray(v)
  <2> DEFINE c == IF v.items = <<>> THEN Primitive("empty") ELSE ExtractSchema[d + 1][v.items[1]]
  <2>1. e = Array(<<c>>)
    BY <1>1, <1>3 DEF ExtractParts, IsArray
  <2>2. v.items # <<>> => v.items[1] \in Values
    BY <1>3 DEF IsArray
  <2>3. v.kind = "array"
    BY <1>3 DEF IsArray
  <2> HIDE DEF e, c
  <2>4. e.kind = "array" /\ e.items = <<c>>
    BY <2>1 DEF Array
  <2>5. ChildSteps(e) = {Item} /\ Child(e, Item) = c
    <3>1. <<c>> # <<>> /\ <<c>>[1] = c
      OBVIOUS
    <3> QED BY <2>4, <3>1 DEF ChildSteps, Child
  <2>6. \A path : Place(e, path) = Place(v, path)
    BY <2>3, <2>4 DEF Place
  <2>7. CASE v.items = <<>>
    <3>1. ChildSteps(v) = {} /\ c = Primitive("empty")
      BY <2>3, <2>7 DEF ChildSteps, c
    <3> QED BY <2>3, <2>5, <2>6, <2>7, <3>1 DEF e
  <2>8. CASE v.items # <<>>
    <3>1. ChildSteps(v) = {Item} /\ Child(v, Item) = v.items[1] /\ c = ExtractSchema[d + 1][v.items[1]]
      BY <2>3, <2>8 DEF ChildSteps, Child, c
    <3> QED BY <2>2, <2>5, <2>6, <2>8, <3>1 DEF e
  <2> QED BY <2>7, <2>8
<1>4. CASE IsObject(v)
  <2> DEFINE f == [k \in DOMAIN v.fields |-> ExtractSchema[d + 1][v.fields[k]]]
  <2>1. e = Object(f)
    BY <1>1, <1>4 DEF ExtractParts, IsObject
  <2>2. v.kind = "object" /\ \A k \in DOMAIN v.fields : v.fields[k] \in Values
    BY <1>4 DEF IsObject
  <2>3. DOMAIN f = DOMAIN v.fields /\ \A k \in DOMAIN v.fields : f[k] = ExtractSchema[d + 1][v.fields[k]]
    OBVIOUS
  <2> HIDE DEF e, f
  <2>4. e.kind = "object" /\ e.fields = f
    BY <2>1 DEF Object
  <2>5. \A path : Place(e, path) = Place(v, path)
    BY <2>2, <2>4 DEF Place
  <2>6. ChildSteps(e) = DOMAIN v.fields /\ ChildSteps(v) = DOMAIN v.fields
    BY <2>2, <2>3, <2>4 DEF ChildSteps
  <2>7. \A k \in DOMAIN v.fields : Child(v, k) = v.fields[k] /\ Child(e, k) = f[k]
    BY <2>2, <2>4 DEF Child
  <2> QED BY <2>2, <2>3, <2>5, <2>6, <2>7 DEF e
<1> QED BY <1>2, <1>3, <1>4, JsonAssumption

\* The marks of a structure are its own, if it is an empty array, and its parts'.
LEMMA MarksCases ==
  ASSUME NEW v \in Structures, NEW path \in Seq(Steps), Len(path) <= MaxDepth + 1, NEW m
  PROVE  m \in Marks(PlacesAt(v, path)) <=>
           \/ v.kind = "array" /\ v.items = <<>> /\ m = Mark(path)
           \/ \E k \in ChildSteps(v) : m \in Marks(PlacesAt(Child(v, k), Append(path, k)))
<1> DEFINE A == PlacesAt(v, path)
           B(k) == PlacesAt(Child(v, k), Append(path, k))
<1>1. /\ Place(v, path) \in A /\ Place(v, path).path = path /\ Place(v, path).kind = v.kind
      /\ \A k \in ChildSteps(v) : B(k) \subseteq A
      /\ \A p \in A : p = Place(v, path) \/ \E k \in ChildSteps(v) : p \in B(k)
  BY PlacesCases DEF Place
<1>2. ASSUME NEW k \in ChildSteps(v), NEW q \in B(k)
      PROVE  Append(q.path, Item) \in Paths(A) <=> Append(q.path, Item) \in Paths(B(k))
  <2>1. ASSUME NEW r \in A, r.path = Append(q.path, Item) PROVE r \in B(k)
    <3>1. q.path \in Seq(Steps) /\ Len(q.path) > Len(path) /\ q.path[Len(path) + 1] = k
      BY PlacesBehindStep DEF Extends
    <3>2. Len(r.path) > Len(path) /\ r.path[Len(path) + 1] = k
      BY <2>1, <3>1, PathGrows DEF Steps
    <3> QED BY <3>2, PlaceLies
  <2> QED BY <1>1, <2>1 DEF Paths
<1>3. CASE v.kind = "array"
  <2>1. Append(path, Item) \in Paths(A) <=> v.items # <<>>
    <3>1. CASE v.items = <<>>
      <4>1. A = {Place(v, path)}
        BY <1>1, <1>3, <3>1 DEF ChildSteps
      <4>2. Append(path, Item) # path
        BY PathGrows DEF Steps
      <4> QED BY <1>1, <3>1, <4>1, <4>2 DEF Paths
    <3>2. CASE v.items # <<>>
      <4>1. Item \in ChildSteps(v)
        BY <1>3, <3>2 DEF ChildSteps
      <4>2. Child(v, Item) \in Structures /\ Append(path, Item) \in Seq(Steps)
        BY <4>1, StructureParts, PathGrows
      <4>a. Place(Child(v, Item), Append(path, Item)) \in B(Item)
        BY <4>2, PlacesCases
      <4>3. /\ Place(Child(v, Item), Append(path, Item)) \in A
            /\ Place(Child(v, Item), Append(path, Item)).path = Append(path, Item)
        BY <1>1, <4>1, <4>a DEF Place
      <4> QED BY <3>2, <4>3 DEF Paths
    <3> QED BY <3>1, <3>2
  <2> HIDE DEF A, B
  <2>2. ASSUME m \in Marks(A)
        PROVE  (v.items = <<>> /\ m = Mark(path)) \/ \E k \in ChildSteps(v) : m \in Marks(B(k))
    BY <1>1, <1>2, <2>1, <2>2 DEF Marks
  <2>3. ASSUME v.items = <<>>, m = Mark(path) PROVE m \in Marks(A)
    BY <1>1, <1>3, <2>1, <2>3 DEF Marks
  <2>4. ASSUME NEW k \in ChildSteps(v), m \in Marks(B(k)) PROVE m \in Marks(A)
    BY <1>1, <1>2, <2>4 DEF Marks
  <2> QED BY <1>3, <2>2, <2>3, <2>4 DEF A, B
<1>4. CASE v.kind # "array"
  <2> HIDE DEF A, B
  <2>1. ASSUME m \in Marks(A) PROVE \E k \in ChildSteps(v) : m \in Marks(B(k))
    BY <1>1, <1>2, <1>4, <2>1 DEF Marks
  <2>2. ASSUME NEW k \in ChildSteps(v), m \in Marks(B(k)) PROVE m \in Marks(A)
    BY <1>1, <1>2, <2>2 DEF Marks
  <2> QED BY <1>4, <2>1, <2>2 DEF A, B
<1> QED BY <1>3, <1>4

\* extractSchema keeps every place down to the depth cap, adds the marks of empty
\* arrays and nothing else.
LEMMA ExtractedPlaces ==
  ASSUME NEW v \in Values
  PROVE  LET actual == PlacesAt(v, <<>>)
             seen == PlacesAt(ExtractSchema[0][v], <<>>)
         IN  /\ \A p \in seen : Len(p.path) <= MaxDepth + 1
             /\ \A p : Len(p.path) <= MaxDepth =>
                  (p \in seen <=> p \in actual \/ p \in Marks(actual))
<1> DEFINE Exact(x, d, path) ==
             LET seen == PlacesAt(ExtractSchema[d][x], path)
             IN  /\ \A p \in seen : Len(p.path) <= MaxDepth + 1
                 /\ \A p : Len(p.path) <= MaxDepth =>
                      (p \in seen <=> p \in PlacesAt(x, path) \/ p \in Marks(PlacesAt(x, path)))
           P(d) == \A x \in Values, path \in Seq(Steps) : Len(path) = d => Exact(x, d, path)
           S == {d \in Depths : P(d)}
<1>0. MaxDepth \in Nat /\ Depths \subseteq Nat
  BY JsonAssumption DEF Depths
<1>1. ASSUME NEW d \in Depths, d <= MaxDepth => d + 1 \in S PROVE P(d)
  <2> SUFFICES ASSUME NEW x \in Values, NEW path \in Seq(Steps), Len(path) = d
               PROVE  Exact(x, d, path)
    OBVIOUS
  <2> DEFINE e == ExtractSchema[d][x]
             N == PlacesAt(e, path)
             A == PlacesAt(x, path)
  <2>0. /\ x \in Structures /\ e \in Structures /\ Len(path) <= MaxDepth + 1
        /\ Place(x, path).path = path /\ Place(e, path).path = path
    <3>1. e \in NodesFrom(d)
      BY <1>0, NodesFromMember
    <3> QED BY <3>1, <1>0, NodesFromInNodes DEF Structures, Place, Depths
  <2>1. CASE d > MaxDepth
    <3>1. ChildSteps(e) = {}
      <4>1. e = Primitive(Typeof(x))
        BY <2>1, ExtractUnfolds DEF ExtractNode
      <4> HIDE DEF e
      <4> QED BY <4>1 DEF Primitive, ChildSteps
    <3> HIDE DEF e
    <3>2. N = {Place(e, path)}
      BY <2>0, <3>1, PlacesCases
    <3>3. \A p \in A : ~(Len(p.path) <= MaxDepth)
      <4> SUFFICES ASSUME NEW p \in A PROVE ~(Len(p.path) <= MaxDepth)
        OBVIOUS
      <4>1. Len(p.path) >= Len(path) /\ Len(p.path) \in Nat
        BY <2>0, PlaceLies
      <4> QED BY <1>0, <2>1, <4>1
    <3>4. \A p \in Marks(A) : ~(Len(p.path) <= MaxDepth)
      <4> SUFFICES ASSUME NEW p \in Marks(A) PROVE ~(Len(p.path) <= MaxDepth)
        OBVIOUS
      <4>1. PICK q \in A : p.path = Append(q.path, Item)
        BY DEF Marks, Mark
      <4>2. q.path \in Seq(Steps) /\ Len(q.path) >= Len(path)
        BY <2>0, PlaceLies
      <4>3. Len(p.path) = Len(q.path) + 1 /\ Len(q.path) \in Nat
        BY <4>1, <4>2, PathGrows DEF Steps
      <4> QED BY <1>0, <2>1, <4>2, <4>3
    <3>5. \A p \in N : Len(p.path) <= MaxDepth + 1 /\ ~(Len(p.path) <= MaxDepth)
      BY <1>0, <2>0, <2>1, <3>2
    <3> HIDE DEF A, N
    <3> QED BY <3>3, <3>4, <3>5 DEF A, N, e
  <2>2. CASE d <= MaxDepth
    <3>1. /\ Place(e, path) = Place(x, path)
          /\ \A k \in ChildSteps(x) : /\ Child(x, k) \in Values
                                      /\ Child(e, k) = ExtractSchema[d + 1][Child(x, k)]
          /\ \/ ChildSteps(e) = ChildSteps(x) /\ ~(x.kind = "array" /\ x.items = <<>>)
             \/ /\ x.kind = "array" /\ x.items = <<>> /\ ChildSteps(x) = {}
                /\ ChildSteps(e) = {Item} /\ Child(e, Item) = Primitive("empty")
      BY <2>2, ExtractCases
    <3> HIDE DEF e
    <3>2. /\ \A p : p \in A <=> \/ p = Place(x, path)
                              \/ \E k \in ChildSteps(x) : p \in PlacesAt(Child(x, k), Append(path, k))
          /\ \A p : p \in N <=> \/ p = Place(x, path)
                              \/ \E k \in ChildSteps(e) : p \in PlacesAt(Child(e, k), Append(path, k))
      BY <2>0, <3>1, PlacesCases
    <3>3. \A m : m \in Marks(A) <=>
             \/ x.kind = "array" /\ x.items = <<>> /\ m = Mark(path)
             \/ \E k \in ChildSteps(x) : m \in Marks(PlacesAt(Child(x, k), Append(path, k)))
      BY <2>0, MarksCases
    <3>4. ASSUME NEW k \in ChildSteps(x) PROVE Exact(Child(x, k), d + 1, Append(path, k))
      <4>1. Child(x, k) \in Values /\ Append(path, k) \in Seq(Steps) /\ Len(Append(path, k)) = d + 1
        BY <2>0, <3>1, StructureParts, PathGrows
      <4>2. P(d + 1)
        BY <1>1, <2>2
      <4> HIDE DEF Exact
      <4> QED BY <4>1, <4>2
    <3>5. CASE ChildSteps(e) = ChildSteps(x) /\ ~(x.kind = "array" /\ x.items = <<>>)
      <4>1. \A k \in ChildSteps(x) : \A p \in PlacesAt(Child(e, k), Append(path, k)) : Len(p.path) <= MaxDepth + 1
        BY <3>1, <3>4
      <4>2. \A k \in ChildSteps(x) : \A p : Len(p.path) <= MaxDepth =>
              (p \in PlacesAt(Child(e, k), Append(path, k)) <=>
                 \/ p \in PlacesAt(Child(x, k), Append(path, k))
                 \/ p \in Marks(PlacesAt(Child(x, k), Append(path, k))))
        BY <3>1, <3>4
      <4>3. Len(Place(x, path).path) <= MaxDepth + 1
        BY <2>0
      <4> HIDE DEF A, N
      <4>4. \A p \in N : Len(p.path) <= MaxDepth + 1
        BY <3>2, <3>5, <4>1, <4>3
      <4>5. \A p : Len(p.path) <= MaxDepth => (p \in N <=> p \in A \/ p \in Marks(A))
        BY <3>2, <3>3, <3>5, <4>2
      <4> QED BY <4>4, <4>5 DEF A, N, e
    <3>6. CASE /\ x.kind = "array" /\ x.items = <<>> /\ ChildSteps(x) = {}
               /\ ChildSteps(e) = {Item} /\ Child(e, Item) = Primitive("empty")
      <4>1. /\ Item \in Steps /\ Append(path, Item) \in Seq(Steps) /\ Len(Append(path, Item)) = d + 1
            /\ Primitive("empty") \in Structures
        BY <2>0, PathGrows DEF Steps, Structures, Nodes
      <4>2. PlacesAt(Primitive("empty"), Append(path, Item)) = {Place(Primitive("empty"), Append(path, Item))}
        <5>1. ChildSteps(Primitive("empty")) = {}
          BY DEF ChildSteps, Primitive
        <5>2. /\ Place(Primitive("empty"), Append(path, Item)) \in PlacesAt(Primitive("empty"), Append(path, Item))
              /\ \A p \in PlacesAt(Primitive("empty"), Append(path, Item)) :
                   \/ p = Place(Primitive("empty"), Append(path, Item))
                   \/ \E k \in ChildSteps(Primitive("empty")) :
                        p \in PlacesAt(Child(Primitive("empty"), k), Append(Append(path, Item), k))
          BY <4>1, PlacesCases
        <5> QED BY <5>1, <5>2
      <4>3. Place(Primitive("empty"), Append(path, Item)) = Mark(path)
        BY DEF Place, Mark, Primitive
      <4>4. Len(Mark(path).path) <= MaxDepth + 1 /\ Len(Place(x, path).path) <= MaxDepth + 1
        BY <1>0, <2>0, <2>2, <4>1 DEF Mark
      <4> HIDE DEF A, N
      <4>5. \A p : p \in N <=> p = Place(x, path) \/ p = Mark(path)
        BY <3>2, <3>6, <4>2, <4>3
      <4>6. \A p : p \in A \/ p \in Marks(A) <=> p = Place(x, path) \/ p = Mark(path)
        BY <3>2, <3>3, <3>6
      <4> QED BY <4>4, <4>5, <4>6 DEF A, N, e
    <3> QED BY <3>1, <3>5, <3>6
  <2> HIDE DEF Exact
  <2> QED BY <1>0, <2>1, <2>2
<1> HIDE DEF P
<1>2. 0 \in S
  BY <1>1, NodeInduction
<1>3. <<>> \in Seq(Steps) /\ Len(<<>>) = 0
  OBVIOUS
<1>4. Exact(v, 0, <<>>)
  <2> HIDE DEF Exact
  <2> QED BY <1>2, <1>3 DEF P
<1> QED BY <1>4

-----------------------------------------------------------------------------
(* The invariants.                                                         *)

\* The latest snapshot is the schema of a body, and so is what is compared.
Typed ==
  /\ latest \in {ExtractSchema[0][v] : v \in Bodies}
  /\ body \in Bodies \cup {NoBody}

\* Snapshots and responses stay what the endpoint may answer.
LEMMA TypedInvariant == Spec => []Typed
<1>1. Init => Typed
  BY DEF Init, Typed
<1>2. Typed /\ [Next]_vars => Typed'
  <2> SUFFICES ASSUME Typed, [Next]_vars PROVE Typed'
    OBVIOUS
  <2>1. CASE Poll
    BY <2>1 DEF Typed, Poll
  <2>2. CASE Capture
    BY <2>2 DEF Typed, Capture
  <2>3. CASE UNCHANGED vars
    BY <2>3 DEF Typed, vars
  <2> QED BY <2>1, <2>2, <2>3 DEF Next
<1> QED BY <1>1, <1>2, PTL DEF Spec

\* What the diff compares are nodes.
LEMMA ComparedNodes ==
  ASSUME Typed, body # NoBody
  PROVE  body \in Values /\ latest \in Nodes /\ current \in Nodes
<1>1. body \in Values /\ Bodies \subseteq Values /\ MaxDepth \in Nat
  BY JsonAssumption DEF Typed
<1>2. \A v \in Values : ExtractSchema[0][v] \in Nodes
  BY NodesAreFromZero, NodesFromMember, <1>1
<1> QED BY <1>1, <1>2 DEF Typed, current

\* A path is among those changed in some way if the changes say so.
LEMMA ChangedSays ==
  ASSUME NEW t, NEW p
  PROVE  p \in Changed(t) <=> Says(latest, current, <<>>, t, p)
BY DEF Changed, Says, changes, DiffAt

\* extractSchema loses and makes up nothing down to the depth cap, and ends there,
\* for any response and any cap.
THEOREM ExtractionTellsAll == Spec => []ExtractionIsExact
<1>1. Typed => ExtractionIsExact
  <2> SUFFICES ASSUME Typed, body # NoBody PROVE ExtractionIsExact
    BY DEF ExtractionIsExact
  <2> DEFINE actual == Places[<<body, <<>>>>]
             empty == {[path |-> Append(p.path, Item), kind |-> "primitive", type |-> "empty"] :
                         p \in {q \in actual : /\ q.kind = "array"
                                               /\ Append(q.path, Item) \notin Paths(actual)}}
  <2>1. actual = PlacesAt(body, <<>>) /\ new = PlacesAt(ExtractSchema[0][body], <<>>)
    BY DEF PlacesAt, new, current
  <2>2. empty = Marks(actual)
    BY DEF Marks, Mark
  <2>3. body \in Values
    BY ComparedNodes
  <2> HIDE DEF actual, empty
  <2>4. /\ \A p \in new : Len(p.path) <= MaxDepth + 1
        /\ \A p : Len(p.path) <= MaxDepth => (p \in new <=> p \in actual \/ p \in empty)
    BY <2>1, <2>2, <2>3, ExtractedPlaces
  <2>5. {p \in new : Len(p.path) <= MaxDepth} = {p \in actual \cup empty : Len(p.path) <= MaxDepth}
    BY <2>4
  <2> QED BY <2>4, <2>5 DEF ExtractionIsExact, actual, empty
<1> QED BY <1>1, TypedInvariant, PTL

\* captureSchemaSnapshot stores a snapshot, which it decides by the hash, exactly if
\* diffSchemas finds a change: for any structures without a field whose name
\* every object inherits.
THEOREM StoredIsChanged == OwnNames => (Spec => []StoredMeansChanged)
<1> SUFFICES ASSUME OwnNames PROVE Spec => []StoredMeansChanged
  OBVIOUS
<1>1. Typed => StoredMeansChanged
  BY ComparedNodes, EmptyMeansEqual DEF StoredMeansChanged, changes, DiffAt
<1> QED BY <1>1, TypedInvariant, PTL

\* The four types of change mean what they say, at the paths where they say it, and
\* nothing else is reported or missed (diffSchemas), with the same premise.
THEOREM DiffTellsChanges == OwnNames => (Spec => []DiffIsExact)
<1> SUFFICES ASSUME OwnNames PROVE Spec => []DiffIsExact
  OBVIOUS
<1>1. Typed => DiffIsExact
  <2> SUFFICES ASSUME Typed, body # NoBody PROVE DiffIsExact
    BY DEF DiffIsExact, Both
  <2>1. latest \in Nodes /\ current \in Nodes
    BY ComparedNodes
  <2>2. old = PlacesAt(latest, <<>>) /\ new = PlacesAt(current, <<>>)
    BY DEF old, new, PlacesAt
  <2>3. \A p :
          /\ p \in Changed("structural_change") <=> Clash(latest, current, <<>>, p)
          /\ p \in Changed("type_changed") <=> Retyped(latest, current, <<>>, p)
          /\ p \in Changed("removed") <=> Gone(latest, current, <<>>, p)
          /\ p \in Changed("added") <=> Gone(current, latest, <<>>, p)
    <3> TAKE p
    <3>1. /\ Says(latest, current, <<>>, "structural_change", p) <=> Clash(latest, current, <<>>, p)
          /\ Says(latest, current, <<>>, "type_changed", p) <=> Retyped(latest, current, <<>>, p)
          /\ Says(latest, current, <<>>, "removed", p) <=> Gone(latest, current, <<>>, p)
          /\ Says(latest, current, <<>>, "added", p) <=> Gone(current, latest, <<>>, p)
      BY <2>1, ChangesAreExact
    <3> QED BY <3>1, ChangedSays
  <2>6. \A p : p \in BothObjects <=>
                 \E q \in old, r \in new : q.path = p /\ r.path = p /\ q.kind = "object" /\ r.kind = "object"
    BY DEF BothObjects, Both, Paths
  <2>7. Changed("structural_change")
          = {p \in Paths(old) : \E q \in old, r \in new : q.path = p /\ r.path = p /\ q.kind # r.kind}
    BY <2>2, <2>3 DEF Clash, Paths
  <2>8. Changed("type_changed")
          = {p \in Paths(old) : \E q \in old, r \in new :
               /\ q.path = p /\ r.path = p
               /\ q.kind = "primitive" /\ r.kind = "primitive" /\ q.type # r.type}
    BY <2>2, <2>3 DEF Retyped, Paths
  <2>9. Changed("removed") = {p \in Paths(old) \ Paths(new) : Parent(p) \in BothObjects}
    <3> DEFINE O == BothObjects
    <3>1. \A p : p \in Changed("removed") <=> p \in Paths(old) /\ p \notin Paths(new) /\ Parent(p) \in O
      BY <2>2, <2>3, <2>6 DEF Gone, Paths
    <3> HIDE DEF O
    <3> QED BY <3>1 DEF O
  <2>10. Changed("added") = {p \in Paths(new) \ Paths(old) : Parent(p) \in BothObjects}
    <3> DEFINE O == BothObjects
    <3>1. \A p : p \in Changed("added") <=> p \in Paths(new) /\ p \notin Paths(old) /\ Parent(p) \in O
      BY <2>2, <2>3, <2>6 DEF Gone, Paths
    <3> HIDE DEF O
    <3> QED BY <3>1 DEF O
  <2> QED BY <2>7, <2>8, <2>9, <2>10 DEF DiffIsExact, Both
<1> QED BY <1>1, TypedInvariant, PTL

\* classifySeverity says INFO exactly if every place of the old structure is still
\* there as it was, and CRITICAL exactly if some place is gone or something else
\* altogether: a removal is hidden by no number of milder changes.
THEOREM SeverityTells == OwnNames => (Spec => []SeverityTellsCompatibility)
<1> SUFFICES ASSUME OwnNames PROVE Spec => []SeverityTellsCompatibility
  OBVIOUS
<1>1. Typed => SeverityTellsCompatibility
  <2> SUFFICES ASSUME Typed, body # NoBody PROVE SeverityTellsCompatibility
    BY DEF SeverityTellsCompatibility
  <2>1. latest \in Nodes /\ current \in Nodes
    BY ComparedNodes
  <2>2. old = PlacesAt(latest, <<>>) /\ new = PlacesAt(current, <<>>)
    BY DEF old, new, PlacesAt
  <2>3. severity = ClassifySeverity(DiffAt(latest, current, <<>>))
    BY DEF severity, changes, DiffAt
  <2>4. (severity = "INFO") <=> old \subseteq new
    BY <2>1, <2>2, <2>3, ClassifiesExactly
  <2>5. (severity = "CRITICAL") <=> SomeLost(latest, current, <<>>)
    BY <2>1, <2>3, ClassifiesExactly
  <2>6. (severity = "CRITICAL") <=> \E p \in old : \A r \in new : r.path = p.path => r.kind # p.kind
    BY <2>2, <2>5 DEF SomeLost
  <2> QED BY <2>4, <2>6 DEF SeverityTellsCompatibility
<1> QED BY <1>1, TypedInvariant, PTL
=============================================================================

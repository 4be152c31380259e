---------------------------- MODULE MCSchemaDiff ----------------------------
(***************************************************************************)
(* Small instances of SchemaDiff: every object and array of two levels     *)
(* over two names and two primitives, and some deeper ones that the depth  *)
(* cap cuts.                                                               *)
(***************************************************************************)
EXTENDS SchemaDiff

Names == {"id", "constructor"}
Primitives == {Primitive("string"), Primitive("null")}

Objects(S) == {Object(f) : f \in UNION {[K -> S] : K \in SUBSET Names}}
Arrays(S) == {Array(<<>>)} \cup {Array(<<v>>) : v \in S}
Containers(S) == Objects(S) \cup Arrays(S)

OneLevel == Containers(Primitives)
TwoLevels == Containers(Primitives \cup OneLevel)

DeepArrays == {Array(<<v>>) : v \in OneLevel \cup Primitives}
Deep == {Object([k \in {"id"} |-> a]) : a \in DeepArrays}

LargeBodies == TwoLevels \cup Deep
AllValues == LargeBodies \cup DeepArrays \cup Primitives
SmallBodies == OneLevel

\* TLC evaluates what replaces a constant at every use, but AllValues once.
JsonValues == AllValues

JavaScriptNames == {"constructor"}
NoNames == {}

=============================================================================

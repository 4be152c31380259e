-------------------------- MODULE MCCheckPipeline --------------------------
(***************************************************************************)
(* Small instances of CheckPipeline.  The structures stand for             *)
(*   base    {id: number, price: number}                                   *)
(*   dropped {id: number}                                                  *)
(*   retyped {id: number, price: string}                                   *)
(* and Verdict is what diffSchemas and classifySeverity say of each pair.  *)
(***************************************************************************)
EXTENDS CheckPipeline, TLC

CONSTANTS base, dropped, retyped

TwoSchemas == {base, dropped}
ThreeSchemas == {base, dropped, retyped}

SeverityOfChange(from, to) ==
  CASE from = to -> "NONE"
    [] to = dropped /\ from # dropped -> "CRITICAL"
    [] from = dropped /\ to # dropped -> "INFO"
    [] OTHER -> "WARNING"

VerdictTable == [c \in Schemas \X Schemas |-> SeverityOfChange(c[1], c[2])]

Symmetry == Permutations(Polls)

=============================================================================

----------------------------- MODULE MCProject -----------------------------
(***************************************************************************)
(* The command line in three circumstances, one per behaviour: two         *)
(* commands that overlap as they will, after one that ended before; imports*)
(* one after the other, among other changes to their files; and the        *)
(* translation of one trace export.                                        *)
(***************************************************************************)
EXTENDS Project, MCImports, TLC

VARIABLE part       \* the circumstances of this behaviour

\* What the circumstances do not use is as it is at the start of a project.
CommandsInit ==
    /\ part \in {"commands", "imports", "spans"}
    /\ part = "spans" \/ payload = <<>>
    /\ OtelInit
    /\ ProjectInit /\ (part # "commands" => file = Absent /\ policy = NoPolicy)
    /\ FirstImport /\ (part # "imports" => bundle = NoBundle)

CommandsNext ==
    /\ \/ part = "commands" /\ ProjectNext /\ UNCHANGED <<importVars, otelVars>>
       \/ part = "imports" /\ ImportNext /\ UNCHANGED <<projectVars, otelVars>>
       \/ part = "spans" /\ OtelNext /\ UNCHANGED <<projectVars, importVars>>
    /\ UNCHANGED part

CommandsSpec == CommandsInit /\ [][CommandsNext]_<<projectVars, importVars, otelVars, part>>

\* No command looks at which process it is.
Symmetry == Permutations(Proc)
=============================================================================

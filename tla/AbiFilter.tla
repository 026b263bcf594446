------------------------------ MODULE AbiFilter ------------------------------
(***************************************************************************)
(* What the AST visitor promises to the generate command, whatever the     *)
(* order in which declarations, types and containers are walked: for each  *)
(* name declared in a translation unit, exactly one verdict, which is a    *)
(* function of the translation unit alone.                                 *)
(***************************************************************************)
EXTENDS AbiRules

VARIABLES
    stage,    \* "idle", "busy", "done" or "failed"
    unit,     \* the translation unit given last
    verdicts  \* a set of pairs <<name, verdict>>

avars == <<stage, unit, verdicts>>

-----------------------------------------------------------------------------
AbsInit == stage = "idle" /\ unit = NoAST /\ verdicts = {}

Begin(tu) ==
    /\ stage \in {"idle", "done"}
    /\ stage' = "busy" /\ unit' = tu /\ verdicts' = {}

Decide ==
    /\ stage = "busy"
    /\ stage' = "done" /\ verdicts' = Verdicts(unit) /\ UNCHANGED unit

(* A base class that cannot be resolved stops the program.                 *)
Fail ==
    /\ stage = "busy" /\ unit.dependent # {}
    /\ stage' = "failed" /\ UNCHANGED <<unit, verdicts>>

AbsNext == (\E tu \in ASTs : Begin(tu)) \/ Decide \/ Fail

(* A unit that was begun is ended.  Only Decide and Fail leave "busy", so   *)
(* this is weak fairness of Decide \/ Fail, whose ENABLED costs TLC a       *)
(* computation of the verdicts in every state.                             *)
End == stage = "busy" /\ (stage' = "done" \/ stage' = "failed")

AbsSpec == AbsInit /\ [][AbsNext]_avars /\ WF_stage(End)
=============================================================================

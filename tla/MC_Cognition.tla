----------------------------- MODULE MC_Cognition -----------------------------
(***************************************************************************)
(* What the model decides and what carries it out, each part checked on    *)
(* its own: the decision itself, a skill, the plan, a craft, and the       *)
(* service of one literal request.  A behaviour picks one and runs its     *)
(* specification; the others rest.                                         *)
(***************************************************************************)
EXTENDS BoundCognition, SkillExecutor, PlanProgress, PlankCraft,
        RequestOnly

VARIABLE part

\* Two methods of getting wood that name each other, and one that both fall back on.
MCLabels       == <<"gather", "prose">>
MCAlternatives == [s \in Skills \cup {"prose"} |->
                     CASE s = "gather" -> <<"mine", "other">>
                       [] s = "mine" -> <<"gather", "other">>
                       [] OTHER -> <<>>]

CognitionInit ==
    /\ part \in {"decision", "skill", "plan", "craft", "survey"}
    /\ Init /\ ExecutorInit /\ PlanInit /\ CraftInit /\ SurveyInit
    /\ part # "skill" => ~nests
    /\ part # "craft" => game = [open |-> FALSE, logs |-> MaxHeld, planks |-> FALSE] /\ ~nesting

InDecision ==
    /\ part = "decision"
    /\ UNCHANGED <<part, executorVars, planVars, craftVars, surveyVars>>
InSkill ==
    /\ part = "skill"
    /\ UNCHANGED <<part, vars, planVars, craftVars, surveyVars>>
InPlan ==
    /\ part = "plan"
    /\ UNCHANGED <<part, vars, executorVars, craftVars, surveyVars>>
InCraft ==
    /\ part = "craft"
    /\ UNCHANGED <<part, vars, executorVars, planVars, surveyVars>>
InSurvey ==
    /\ part = "survey"
    /\ UNCHANGED <<part, vars, executorVars, planVars, craftVars>>

CognitionNext ==
    \/ InDecision /\ Next
    \/ InSkill /\ ExecutorNext
    \/ InPlan /\ PlanNext
    \/ InCraft /\ CraftNext
    \/ InSurvey /\ SurveyNext

allVars == <<part, vars, executorVars, planVars, craftVars, surveyVars>>

CognitionSpec == CognitionInit /\ [][CognitionNext]_allVars
=============================================================================

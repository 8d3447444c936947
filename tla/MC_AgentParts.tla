---------------------------- MODULE MC_AgentParts ----------------------------
(***************************************************************************)
(* Six parts of an agent and its supervisor, each checked on its own: a    *)
(* behaviour picks one part and runs its specification, the others rest in *)
(* their initial states.  One run of TLC thus answers for all of them.     *)
(***************************************************************************)
EXTENDS GateClients, AgentRuntime, PolicyClient, PolicyRouter, VisionWorker,
        TrajectoryRecorder, TLC

VARIABLE part

parts == <<part, vars, runtimeVars, policyVars, routerVars, visionVars, recorderVars>>

CONSTANTS w, lmb     \* one key and one mouse button

MCKeys    == {w}
MCButtons == {lmb}

\* Presses, releases and pointer motion, one token at a time, and one action
\* over the duration limit.
MCActions ==
    {a \in MotorAction : /\ Cardinality(a.down \cup a.up) <= 1
                         /\ a.long => a.up = {w} /\ a.down = {} /\ ~a.mouse
                         /\ a.mouse => a.down \cup a.up = {}}

\* The routes of the shipped configuration: a semantic expert acts, another
\* one watches the screen, and menus have an expert of their own.
MCBodyOf    == [l \in {"skill", "grounded", "gui"} |-> IF l = "gui" THEN "menus" ELSE "semantic"]
MCWatcherOf == [l \in {"skill", "grounded", "gui"} |->
                  CASE l = "skill" -> NoPolicy [] l = "grounded" -> "rocket" [] l = "gui" -> "menus"]

PartsInit ==
    /\ part \in {"gate", "runtime", "client", "router", "vision", "recorder"}
    /\ Init /\ RuntimeInit /\ PolicyInit /\ RouterInit /\ VisionInit /\ RecorderInit
    /\ part # "router" => router.deferred

InGate     == part = "gate" /\ UNCHANGED <<part, runtimeVars, policyVars, routerVars, visionVars, recorderVars>>
InRuntime  == part = "runtime" /\ UNCHANGED <<part, vars, policyVars, routerVars, visionVars, recorderVars>>
InClient   == part = "client" /\ UNCHANGED <<part, vars, runtimeVars, routerVars, visionVars, recorderVars>>
InRouter   == part = "router" /\ UNCHANGED <<part, vars, runtimeVars, policyVars, visionVars, recorderVars>>
InVision   == part = "vision" /\ UNCHANGED <<part, vars, runtimeVars, policyVars, routerVars, recorderVars>>
InRecorder == part = "recorder" /\ UNCHANGED <<part, vars, runtimeVars, policyVars, routerVars, visionVars>>

PartsNext ==
    \/ InGate /\ Next
    \/ InRuntime /\ RuntimeNext
    \/ InClient /\ PolicyNext
    \/ InRouter /\ RouterNext
    \/ InVision /\ VisionNext
    \/ InRecorder /\ RecorderNext

\* The fairness of RuntimeSpec and of VisionSpec; the other parts have none.
PartsSpec ==
    /\ PartsInit /\ [][PartsNext]_parts
    /\ WF_parts(InRuntime /\ MainThread) /\ WF_parts(InRuntime /\ BeatThread)
    /\ WF_parts(InRuntime /\ BudgetRuns) /\ WF_parts(InRuntime /\ Unrenewed)
    /\ WF_parts(InVision /\ EyeThread)
=============================================================================

---------------------------- MODULE PlanProgress ----------------------------
(***************************************************************************)
(* What the end of a skill does to the plan: the tail of tick and the      *)
(* record of a run (runtime.py), the graph of the plan (plan_graph.py) and *)
(* the evidence that a log was picked up (control/execution.py).           *)
(*                                                                         *)
(* A plan is a row of steps.  A step that names a skill is bound to it and *)
(* has alternatives to be tried when the skill keeps failing; any other    *)
(* text is prose.  Gathering wood is a transaction of several runs: a log  *)
(* is broken, its drop collected, and again, until as many logs have come  *)
(* into the hotbar as are required.  Anybody else may own the player in    *)
(* between: the operator, cognition, the recovery of a scene.              *)
(*                                                                         *)
(* The logs in the hotbar are real, and change as the player walks; what   *)
(* is read of them is exact or nothing.  A step of prose asks for wood.    *)
(***************************************************************************)
EXTENDS Naturals, Sequences

CONSTANTS
    Labels,         \* the steps that cognition proposes
    Alternatives,   \* alternative_skill_ids of each skill
    Required,       \* _GATHER_ACQUISITIONS_REQUIRED
    MaxLogs,        \* bound: logs in the hotbar
    MaxStreak       \* bound: failures of a skill in a row

Skills == {"gather", "collect", "mine", "other"}

\* No skill is an alternative of itself.
ASSUME PlanAssumption ==
    /\ Required \in Nat \ {0} /\ MaxLogs \in Nat /\ MaxStreak \in Nat
    /\ Labels \in Seq(Skills \cup {"prose"}) /\ Alternatives \in [Skills \cup {"prose"} -> Seq(Skills)]
    /\ \A s \in Skills : \A i \in DOMAIN Alternatives[s] : Alternatives[s][i] # s

VARIABLES
    plan,       \* the graph and its cursor
    attempt,    \* the skill of the executor
    cont,       \* _gather_acquisition_continuation
    streak,     \* consecutive failures of each skill
    stop,       \* _stop
    logs,       \* the logs in the hotbar
    earned,     \* history: logs picked up since the first attack of the transaction
    paidFor     \* history: what the steps given up for a transaction had earned

planVars == <<plan, attempt, cont, streak, stop, logs, earned, paidFor>>

Unknown == MaxLogs + 1     \* no exact count
Tolerance == 2             \* failure_tolerance of a discrete task

NoPlan == [order |-> <<>>, cursor |-> 1, blocked |-> {}]
NoRun == [skill |-> "other", at |-> "none", ours |-> FALSE, neutral |-> FALSE,
          base |-> Unknown, acted |-> FALSE, candidate |-> FALSE]
NoGather == [on |-> FALSE, events |-> 0, last |-> 0, owned |-> FALSE]

PlanInit ==
    /\ plan = NoPlan /\ attempt = NoRun /\ cont = NoGather
    /\ streak = [s \in Skills |-> 0]
    /\ stop = FALSE
    /\ logs = 0 /\ earned = 0 /\ paidFor = Required

-----------------------------------------------------------------------------
(***************************************************************************)
(* The graph.  A node is its step, the step's label, and the alternatives  *)
(* taken since; it is bound to the last of them.                           *)
(***************************************************************************)
SkillOf(node) == node[Len(node)]
Under(p) == p.cursor <= Len(p.order)
CurrentNode(p) == p.order[p.cursor]
Labelled(labels) == [i \in 1 .. Len(labels) |-> <<i, labels[i]>>]

\* plan_graph_from_steps
Drafted(labels) == [order |-> Labelled(labels), cursor |-> 1, blocked |-> {}]

\* mark_succeeded, with allow_unbound
Owns(p, skill) == SkillOf(CurrentNode(p)) \in {skill, "prose"}
Succeeded(p) == [p EXCEPT !.cursor = @ + 1]

\* Slip: what failed under another node is forgotten.
UsedHere(p, node) == {SkillOf(node)}

Used(p, node) == {SkillOf(n) : n \in p.blocked \cup {node}}

\* _next_alternative: the alternatives that the graph was built with, then those
\* of the skill that have not been blocked anywhere; by their place among them.
NextMethods(p, node) ==
    LET methods == Alternatives[SkillOf(node)]
        built   == IF Len(node) > 2 THEN {}
                   ELSE {i \in DOMAIN methods : Append(node, methods[i]) \notin p.blocked}
    IN IF built # {} THEN built
       ELSE {i \in DOMAIN methods : methods[i] \notin Used(p, node)}

\* block_current_method, which takes the first of them.
Blocked(p) ==
    LET node == CurrentNode(p)
        next == NextMethods(p, node)
        q    == [p EXCEPT !.blocked = @ \cup {node}]
    IN IF next = {} THEN [q EXCEPT !.cursor = @ + 1]
       ELSE LET first == CHOOSE i \in next : \A j \in next : i <= j
            IN [q EXCEPT !.order[p.cursor] = Append(node, Alternatives[SkillOf(node)][first])]

-----------------------------------------------------------------------------
RunLives == attempt.at = "running"
Over == [attempt EXCEPT !.at = "over"]
History == UNCHANGED <<earned, paidFor>>

Begun(skill, ours) == [NoRun EXCEPT !.skill = skill, !.at = "running", !.ours = ours]

\* _start_current_plan_skill: a method that keeps failing, or cannot begin, is blocked.
StartPlanSkill ==
    /\ ~stop /\ ~RunLives /\ Under(plan) /\ SkillOf(CurrentNode(plan)) # "prose"
    /\ LET skill == SkillOf(CurrentNode(plan)) IN
       \/ /\ streak[skill] < Tolerance
          /\ attempt' = Begun(skill, TRUE) /\ cont' = [cont EXCEPT !.owned = FALSE]
          /\ UNCHANGED plan
       \/ plan' = Blocked(plan) /\ UNCHANGED <<attempt, cont>>
    /\ UNCHANGED <<streak, stop, logs>> /\ History

\* _explore_keep_alive
KeepAlive ==
    /\ ~stop /\ ~RunLives
    /\ attempt' = Begun("other", FALSE) /\ cont' = [cont EXCEPT !.owned = FALSE]
    /\ UNCHANGED <<plan, streak, stop, logs>> /\ History

\* _consume_cognition_decision: a stale continuation goes; a decision may
\* replace the skill and, where it has to, the plan.
Decide ==
    /\ ~stop /\ ~(RunLives /\ cont.on /\ cont.owned)
    /\ cont' = NoGather
    /\ \/ plan' = Drafted(Labels)
       \/ UNCHANGED plan
    /\ \/ UNCHANGED attempt
       \/ attempt' = Over /\ RunLives
       \/ \E s \in Skills \ {"collect"} : attempt' = Begun(s, TRUE)
    /\ UNCHANGED <<streak, stop, logs>> /\ History

\* _start_cognition_if_due: an operator message ends the transaction.
OperatorPreempts ==
    /\ ~stop /\ cont.on
    /\ cont' = NoGather
    /\ attempt' = IF RunLives /\ cont.owned THEN Over ELSE attempt
    /\ UNCHANGED <<plan, streak, stop, logs>> /\ History

\* SkillLibrary.record: a success makes the others' failures less recent.
RecordStats(ok) ==
    IF ok THEN [s \in Skills |-> IF s = attempt.skill \/ streak[s] = 0 THEN 0 ELSE streak[s] - 1]
    ELSE [streak EXCEPT ![attempt.skill] = @ + 1]

\* _expire_current_operator_attempt, _close_operator_attempt: the end of the attempt
\* of the operator takes what was its own with it.
AttemptCloses ==
    /\ ~stop /\ plan # NoPlan
    /\ plan' \in {NoPlan, plan} /\ cont' \in {NoGather, cont}
    /\ \/ ~RunLives /\ UNCHANGED <<attempt, streak>>
       \/ /\ RunLives /\ attempt' = Over
          /\ streak[attempt.skill] < MaxStreak
          /\ streak' = IF attempt.ours THEN RecordStats(FALSE) ELSE streak
    /\ UNCHANGED <<stop, logs>> /\ History

\* _route_observed_scene_recovery
SceneRecovers ==
    /\ ~stop
    /\ cont' = NoGather
    /\ attempt' = [Begun("other", RunLives /\ attempt.ours) EXCEPT
                     !.neutral = cont.on \/ (RunLives /\ (attempt.skill = "gather" \/ attempt.neutral))]
    /\ UNCHANGED <<plan, streak, stop, logs>> /\ History

-----------------------------------------------------------------------------
(***************************************************************************)
(* The executor.  The count of the frame before the first attack is kept;  *)
(* a gathering without one fails.                                          *)
(***************************************************************************)
FreezeBaseline ==
    /\ ~stop /\ RunLives /\ attempt.skill \in {"gather", "mine"} /\ ~attempt.acted
    /\ \E count \in {logs, Unknown} :
         attempt' = [attempt EXCEPT !.acted = TRUE, !.base = count,
                                !.at = IF @ = "running" /\ attempt.skill = "gather" /\ count = Unknown
                                       THEN "failing" ELSE @]
    /\ earned' = IF attempt.skill = "gather" /\ ~cont.on THEN 0 ELSE earned
    /\ UNCHANGED <<plan, cont, streak, stop, logs, paidFor>>

CollectMoves ==
    /\ ~stop /\ RunLives /\ attempt.skill = "collect" /\ ~attempt.acted
    /\ attempt' = [attempt EXCEPT !.acted = TRUE]
    /\ UNCHANGED <<plan, cont, streak, stop, logs>> /\ History

\* _observe_collection_possession, with what comes before its success: one more
\* log than before the attack, seen after the player has moved.
Possession == RunLives /\ attempt.skill = "collect" /\ attempt.acted /\ logs = attempt.base + 1

ObserveCollection ==
    /\ ~stop /\ RunLives /\ attempt.skill = "collect"
    /\ \E sure \in BOOLEAN : attempt' = [attempt EXCEPT !.candidate = sure /\ Possession]
    /\ attempt' # attempt
    /\ UNCHANGED <<plan, cont, streak, stop, logs>> /\ History

-----------------------------------------------------------------------------
(***************************************************************************)
(* The end of a run, with its outcome and evidence: an oak log broken, any *)
(* other collectable block broken, or a log picked up.                     *)
(***************************************************************************)
Handoff(ok, seen) ==
    /\ ok /\ attempt.skill = "gather" /\ seen = "oak" /\ attempt.base # Unknown
    /\ cont.on => cont.owned /\ attempt.base = cont.last

\* _verified_gather_acquisition
Acquired(ok, seen) ==
    /\ ok /\ attempt.skill = "collect" /\ seen = "log"
    /\ cont.on /\ cont.owned /\ cont.events < Required
    /\ logs = cont.last + 1

\* Slip: one log too few.
GatherCompleteEarly(ok, seen) == Acquired(ok, seen) /\ cont.events >= Required - 2

GatherComplete(ok, seen) == Acquired(ok, seen) /\ cont.events = Required - 1

Transaction == attempt.skill = "gather" \/ cont.on
MineHandoff(ok, seen) == ok /\ attempt.skill = "mine" /\ seen = "oak"

Advances(ok, seen) ==
    IF Transaction THEN GatherComplete(ok, seen) ELSE ~MineHandoff(ok, seen)

\* _plan_step_matches_skill, _verified_plan_step_completion
AnswersStep(skill, seen) ==
    \/ SkillOf(CurrentNode(plan)) = skill
    \/ seen = "log" /\ SkillOf(CurrentNode(plan)) \in {"gather", "prose"}

\* _advance_plan_on_step_complete
Advance(seen) ==
    IF Under(plan) /\ AnswersStep(attempt.skill, seen) /\ Owns(plan, attempt.skill)
    THEN Succeeded(plan) ELSE plan

\* _skip_exhausted_plan_step
SkipStep(failures) ==
    IF /\ Under(plan) /\ attempt.ours
       /\ SkillOf(CurrentNode(plan)) = attempt.skill /\ failures >= Tolerance
    THEN Blocked(plan) ELSE plan

\* _record_terminal_run
Recorded(ok, seen) ==
    LET counted == Advances(ok, seen) /\ ~attempt.neutral
        failures == streak[attempt.skill] + 1
    IN /\ ok \/ streak[attempt.skill] < MaxStreak
       /\ streak' = IF attempt.ours THEN RecordStats(ok) ELSE streak
       /\ plan' = IF ~counted THEN plan ELSE IF ok THEN Advance(seen) ELSE SkipStep(failures)
       /\ paidFor' = IF Transaction /\ ok /\ plan' # plan THEN earned ELSE paidFor

(***************************************************************************)
(* What follows: the drop is collected, the next log gathered, the gather  *)
(* transaction over, a recovery begun, or nothing.                         *)
(***************************************************************************)
ContinuationKept(ok, seen) ==
    Handoff(ok, seen) \/ (Acquired(ok, seen) /\ ~GatherComplete(ok, seen))

Collecting == [Begun("collect", attempt.ours) EXCEPT !.base = attempt.base]

Follow(ok, seen) ==
    IF Handoff(ok, seen) THEN
        /\ attempt' = Collecting
        /\ cont' = IF cont.on THEN cont
                   ELSE [on |-> TRUE, events |-> 0, last |-> attempt.base, owned |-> TRUE]
    ELSE IF Acquired(ok, seen) THEN
        IF GatherComplete(ok, seen) THEN attempt' = Over /\ cont' = NoGather
        ELSE /\ attempt' = Begun("gather", attempt.ours)
             /\ cont' = [cont EXCEPT !.events = @ + 1, !.last = logs]
    ELSE /\ cont' = NoGather
         /\ \/ MineHandoff(ok, seen) /\ attempt' = Collecting
            \/ ~MineHandoff(ok, seen) /\ attempt' = Over
            \/ ~ok /\ attempt' = [Begun("other", attempt.ours) EXCEPT !.neutral =
                                     attempt.neutral \/ (Transaction /\ ~GatherComplete(ok, seen))]

(***************************************************************************)
(* The release of the inputs goes out, and the run is recorded; or it is   *)
(* dropped, and the run is not; or a pause is found, and nothing follows.  *)
(***************************************************************************)
SkillEnds(ok, seen) ==
    /\ \/ Recorded(ok, seen) /\ Follow(ok, seen) /\ UNCHANGED stop
       \/ /\ attempt' = Over /\ cont' = IF ContinuationKept(ok, seen) THEN cont ELSE NoGather
          /\ UNCHANGED <<plan, streak, stop, paidFor>>
       \/ Recorded(ok, seen) /\ attempt' = Over /\ cont' = NoGather /\ stop' = TRUE
    /\ UNCHANGED <<logs, earned>>

BreakVerified ==
    /\ ~stop /\ RunLives /\ attempt.skill \in {"gather", "mine"} /\ attempt.acted
    /\ \E seen \in {"oak", "none"} : SkillEnds(TRUE, seen)

PickupVerified == ~stop /\ attempt.candidate /\ Possession /\ SkillEnds(TRUE, "log")

OtherSucceeds == ~stop /\ RunLives /\ attempt.skill = "other" /\ SkillEnds(TRUE, "none")

RunFails == ~stop /\ attempt.at \in {"running", "failing"} /\ SkillEnds(FALSE, "none")

-----------------------------------------------------------------------------
\* The player walks over a drop; a log is used or lost.
PicksUp ==
    /\ logs < MaxLogs /\ logs' = logs + 1
    /\ earned' = IF earned < Required THEN earned + 1 ELSE earned
    /\ UNCHANGED <<plan, attempt, cont, streak, stop, paidFor>>

Loses ==
    /\ logs > 0 /\ logs' = logs - 1
    /\ UNCHANGED <<plan, attempt, cont, streak, stop>> /\ History

PlanNext ==
    \/ StartPlanSkill \/ KeepAlive \/ Decide \/ OperatorPreempts \/ AttemptCloses \/ SceneRecovers
    \/ FreezeBaseline \/ CollectMoves \/ ObserveCollection
    \/ BreakVerified \/ PickupVerified \/ OtherSucceeds \/ RunFails
    \/ PicksUp \/ Loses

PlanSpec == PlanInit /\ [][PlanNext]_planVars

-----------------------------------------------------------------------------
(***************************************************************************)
(* A gathering of wood gives a step of the plan up as done only when as    *)
(* many logs as are required were picked up since its first attack,        *)
(* however often it was interrupted and begun again; and a method that was *)
(* blocked for a step does not come back in that step                      *)
(* (runtime.py:1160-1280, plan_graph.py:115-180).                          *)
(***************************************************************************)
PlanSound ==
    /\ paidFor >= Required
    /\ Under(plan) => \A node \in plan.blocked :
          node[1] = plan.cursor => SkillOf(node) # SkillOf(CurrentNode(plan))
=============================================================================

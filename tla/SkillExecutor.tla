---------------------------- MODULE SkillExecutor ----------------------------
(***************************************************************************)
(* What the executor of skills (control/execution.py) believes to hold     *)
(* down, and what is down: a tick's proposal, the guard of an attack       *)
(* (control/mining.py), the end of a skill, the options nested in it, and  *)
(* what the runtime makes of an action that was refused (runtime.py).      *)
(*                                                                         *)
(* A policy may propose anything and its reset may release anything: the   *)
(* executor is written not to trust it.  "w" stands for the keys of motion *)
(* and "left" for the attack.  Of what is seen of the target, one bit is   *)
(* kept on each side: whether the guard takes it for newer than the last   *)
(* change of view that it knows of, and whether the view really has changed*)
(* since.  Which block, which tool and how long are left out: each of their*)
(* checks may fail at any time.                                            *)
(***************************************************************************)
EXTENDS Naturals, Sequences

CONSTANTS MaxDepth,      \* _MAX_OPTION_DEPTH
          MaxSkills      \* bound: skills started

ASSUME ExecutorAssumption == MaxDepth \in Nat \ {0} /\ MaxSkills \in Nat

VARIABLES
    option,    \* the active skill and its guard
    stack,     \* the suspended ones
    out,       \* the action of this tick, not yet sent
    body,      \* what is really down, and whether the view changed since the evidence
    owed,      \* a release is to be acknowledged before anything else is sent
    skills,    \* how many were started
    nests      \* whether cognition nests skills in this behaviour

executorVars == <<option, stack, out, body, owed, skills, nests>>

Inputs == {"w", "left"}
NoAction == [down |-> {}, up |-> {}, turn |-> FALSE, last |-> FALSE]
Guard0 == [held |-> {}, lease |-> FALSE, kept |-> FALSE, wish |-> "none", fresh |-> TRUE]
NoOption == [at |-> "none", mines |-> FALSE, guard |-> Guard0]

ExecutorInit ==
    /\ option = NoOption /\ stack = <<>> /\ out = NoAction
    /\ body = [down |-> {}, moved |-> TRUE]
    /\ owed = FALSE /\ skills = 0
    /\ nests \in BOOLEAN

OptionRuns == option.at \in {"new", "running", "verifying"}
ExecutorReady == out = NoAction /\ ~owed
Proposals == [down : SUBSET Inputs, up : SUBSET Inputs, turn : BOOLEAN, last : {FALSE}]

-----------------------------------------------------------------------------
(***************************************************************************)
(* constrain_action: where an attack is forbidden, a press is dropped and  *)
(* a remembered hold released.                                             *)
(***************************************************************************)
Constrained(a) ==
    IF option.mines THEN a
    ELSE [a EXCEPT !.down = @ \ {"left"},
                   !.up = @ \cup ((option.guard.held \cup a.down) \cap {"left"})]

Held(held, a) == (held \cup a.down) \ a.up
Unpressed(a) == [a EXCEPT !.down = @ \ {"left"}]
Pressed(a) == [a EXCEPT !.down = @ \cup {"left"}, !.up = @ \ {"left"}]

\* _quiesce_pending_action, _quiesce_active_lease_action: stand still.
Still(a, held) ==
    [a EXCEPT !.down = @ \ {"w"}, !.turn = FALSE,
              !.up = @ \cup ((held \cup a.down \cup a.up) \cap {"w"})]

Moves(a) == a.turn \/ "w" \in a.down \cup a.up

\* _remember_emitted
Emits(g, a) == [action |-> a, guard |-> [g EXCEPT !.held = Held(g.held, a)]]

(***************************************************************************)
(* _inspect_without_lease: the outcomes of a proposal, but for a failure.  *)
(* An attack is first wished for, then the player stands still, and the    *)
(* button goes down on evidence newer than the last movement.              *)
(***************************************************************************)
Verified(g) == g.fresh /\ ~body.moved

WithoutLease(g, a) ==
    LET b       == [a EXCEPT !.up = @ \ {"left"}]
        seen    == [g EXCEPT !.wish = IF @ = "none" THEN "latched" ELSE @]
        stands  == Still(b, g.held)
        settles == [seen EXCEPT !.wish = "settling", !.fresh = FALSE]
        settled == Emits(settles, Unpressed(stands))
        aimed   == Emits(settles, [Unpressed(stands) EXCEPT !.turn = TRUE])
        attacks == [seen EXCEPT !.wish = "none", !.lease = TRUE, !.kept = FALSE]
        attack(c) == Emits(attacks, Pressed(c))
        walks   == "w" \in a.down \cup Held(g.held, a)
    IN IF g.wish = "settling"
       THEN {aimed} \cup (IF Verified(g) THEN {attack(stands)}
                          ELSE {Emits(g, Unpressed(stands))})
       ELSE {aimed}
            \cup (IF Verified(g) /\ ~walks /\ ~Moves(b) THEN {attack(Unpressed(b))}
                  ELSE IF Verified(g) /\ (~Moves(b) \/ "w" \in g.held) THEN {settled}
                  ELSE {settled, Emits([seen EXCEPT !.fresh = @ /\ ~Moves(a)], Unpressed(b))})

\* While the attack goes on, the player stands still and the button stays down.
WithLease(g, a) ==
    LET b    == Still(a, g.held)
        kept == g.kept \/ "left" \in a.up
    IN Emits([g EXCEPT !.kept = kept],
             [b EXCEPT !.up = @ \ {"left"}, !.down = IF g.kept THEN @ \ {"left"} ELSE @])

Inspected(a) ==
    LET g == option.guard IN
    IF g.lease THEN {WithLease(g, a)}
    ELSE IF g.wish = "none" /\ (~option.mines \/ "left" \notin a.down)
         THEN {Emits([g EXCEPT !.fresh = @ /\ ~Moves(a)], a)}
              \cup (IF option.mines THEN WithoutLease(g, a) ELSE {})
         ELSE WithoutLease(g, a)

(***************************************************************************)
(* _release_motor: what the policy's reset releases, and whatever the      *)
(* guard remembers.                                                        *)
(***************************************************************************)
\* Slip: what the policy's reset releases is all there is to release.
ReleasesTrusted(g) == {[NoAction EXCEPT !.up = x] : x \in SUBSET Inputs}

Releases(g) == {[NoAction EXCEPT !.up = g.held \cup (IF g.lease THEN {"left"} ELSE {}) \cup x]
                  : x \in SUBSET Inputs}

\* _finish, and what it keeps of the suspended options
FinishOption(kept) ==
    /\ \E a \in Releases(option.guard) : out' = [a EXCEPT !.last = TRUE]
    /\ option' = [option EXCEPT !.at = "over", !.guard = Guard0]
    /\ stack' = kept
    /\ UNCHANGED <<body, owed, skills, nests>>

-----------------------------------------------------------------------------
(***************************************************************************)
(* A tick of the executor: the limits and conditions of the skill may end  *)
(* it before the policy is asked, the guard and the verifiers after.       *)
(***************************************************************************)
TickActs ==
    /\ ExecutorReady /\ option.at \in {"new", "running"}
    /\ \E a \in Proposals : \E r \in Inspected(Constrained(a)) :
          /\ out' = r.action
          /\ option' = [option EXCEPT !.at = "running", !.guard = r.guard]
    /\ UNCHANGED <<stack, body, owed, skills, nests>>

\* An attack that was making progress is released first and judged afterwards.
TickReleases ==
    /\ ExecutorReady /\ option.at = "running" /\ option.guard.lease
    /\ \E a \in Releases(option.guard) : out' = a
    /\ option' = [option EXCEPT !.at = "verifying", !.guard = Guard0]
    /\ UNCHANGED <<stack, body, owed, skills, nests>>

\* Time, a failure condition, a success, a precondition or an invariant
\* ends it before the policy is asked,
LimitsEnd == ExecutorReady /\ option.at \in {"new", "running"} /\ FinishOption(stack)

\* the guard refuses the action,
GuardEnds ==
    ExecutorReady /\ option.at \in {"new", "running"} /\ option.mines /\ FinishOption(stack)

\* the verifiers find it done, stalled or starved,
OutcomeEnds == ExecutorReady /\ option.at \in {"new", "running"} /\ FinishOption(stack)

\* or the released attack is judged; until then nothing is sent.
JudgementEnds == ExecutorReady /\ option.at = "verifying" /\ FinishOption(stack)

-----------------------------------------------------------------------------
\* start, push_child, cancel, expire_operator_attempt
BeginOption(mines) ==
    /\ skills < MaxSkills /\ skills' = skills + 1
    /\ option' = [at |-> "new", mines |-> mines, guard |-> Guard0]
    /\ UNCHANGED <<out, body, owed, nests>>

StartSkill == out = NoAction /\ ~OptionRuns /\ UNCHANGED stack /\ \E m \in BOOLEAN : BeginOption(m)

PushChild ==
    /\ nests /\ ExecutorReady /\ OptionRuns /\ Len(stack) + 1 < MaxDepth
    /\ stack' = Append(stack, option)
    /\ \E m \in BOOLEAN : BeginOption(m)

CancelSkill == ExecutorReady /\ OptionRuns /\ FinishOption(<<>>)

\* _release_and_reconcile_inputs: the guard hears of an acknowledged release.
\* Slip: it is not told.
UntoldOfRelease(g) == g

ToldOfRelease(g) ==
    IF g.held # {} \/ g.lease \/ g.wish # "none" THEN [Guard0 EXCEPT !.fresh = FALSE] ELSE g

ReleaseInputs(o, guard) ==
    \/ /\ body' = [body EXCEPT !.down = {}] /\ owed' = FALSE
       /\ option' = [o EXCEPT !.guard = ToldOfRelease(guard)]
    \/ /\ UNCHANGED body /\ owed' = TRUE
       /\ option' = [o EXCEPT !.guard = guard]

Expire ==
    /\ ~owed /\ (OptionRuns \/ out # NoAction)
    /\ ReleaseInputs([option EXCEPT !.at = "over"], option.guard)
    /\ out' = NoAction /\ stack' = <<>>
    /\ UNCHANGED <<skills, nests>>

-----------------------------------------------------------------------------
(***************************************************************************)
(* _send_motor.  A last action that went out lets a suspended option go on,*)
(* unless the runtime has a successor for the skill that ended.  One that  *)
(* is refused is dropped, and everything released; whoever comes next      *)
(* finds the suspended options where they were.                            *)
(***************************************************************************)
ActionSent ==
    /\ out # NoAction
    /\ body' = [down |-> Held(body.down, out), moved |-> body.moved \/ out.turn]
    /\ out' = NoAction
    /\ \/ /\ out.last /\ stack # <<>>
          /\ option' = stack[Len(stack)] /\ stack' = SubSeq(stack, 1, Len(stack) - 1)
       \/ UNCHANGED <<option, stack>>
    /\ UNCHANGED <<owed, skills, nests>>

ActionRefused ==
    /\ out # NoAction
    /\ ReleaseInputs(option, option.guard)
    /\ out' = NoAction
    /\ UNCHANGED <<stack, skills, nests>>

\* The next tick, before it does anything else.
ReleaseOwed ==
    /\ owed /\ out = NoAction
    /\ ReleaseInputs(option, option.guard)
    /\ UNCHANGED <<out, stack, skills, nests>>

-----------------------------------------------------------------------------
\* Whoever walks changes the view; the target is located anew.
Walks ==
    /\ "w" \in body.down /\ ~body.moved
    /\ body' = [body EXCEPT !.moved = TRUE]
    /\ UNCHANGED <<option, stack, out, owed, skills, nests>>

Looks ==
    /\ out = NoAction
    /\ body' = [body EXCEPT !.moved = FALSE]
    /\ option' = [option EXCEPT !.guard.fresh = TRUE]
    /\ UNCHANGED <<stack, out, owed, skills, nests>>

ExecutorNext ==
    \/ TickActs \/ TickReleases \/ LimitsEnd \/ GuardEnds \/ OutcomeEnds \/ JudgementEnds
    \/ StartSkill \/ PushChild \/ CancelSkill \/ Expire
    \/ ActionSent \/ ActionRefused \/ ReleaseOwed
    \/ Walks \/ Looks

ExecutorSpec == ExecutorInit /\ [][ExecutorNext]_executorVars

-----------------------------------------------------------------------------
Settled == out = NoAction /\ ~owed

(***************************************************************************)
(* Once an action of a skill that may not attack has gone out, the attack  *)
(* button is up: a press is removed, and a possible previous hold is       *)
(* released on the executor's own account (action_envelope.py:22-27).      *)
(***************************************************************************)
ForbiddenAttackLifted ==
    Settled /\ option.at = "running" /\ ~option.mines => "left" \notin body.down

(***************************************************************************)
(* As long as no skill is nested in another: what is down is remembered by *)
(* the guard, so that whoever comes next can release it without trusting   *)
(* the policy; and whoever the guard lets attack really attacks, stands    *)
(* still, and sees what it saw when the target was verified.  Proposals,   *)
(* refusals, lost acknowledgements and cancellations in any order change   *)
(* nothing of it (mining.py:274-360, execution.py:1488-1515,               *)
(* runtime.py:1623-1642).                                                  *)
(***************************************************************************)
AttackStands ==
    ~nests /\ Settled =>
        /\ body.down \subseteq option.guard.held
        /\ ForbiddenAttackLifted
        /\ option.guard.lease => body.down = {"left"} /\ ~body.moved
=============================================================================

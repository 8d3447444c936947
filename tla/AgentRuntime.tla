----------------------------- MODULE AgentRuntime -----------------------------
(***************************************************************************)
(* The life of AgentRuntime (runtime.py): run_forever with its heartbeat   *)
(* thread, the part of a tick that decides whether input goes out, and the *)
(* shutdown under one time budget.  The supervisor is seen through its     *)
(* replies: a command may be refused, its reply may be lost, and a command *)
(* whose caller gave up may still be carried out later.                    *)
(*                                                                         *)
(* An action presses or releases; which keys, what a skill decides and the *)
(* learning records are left out.  Cognition is BoundCognition, directions *)
(* are PaidDirections, the lease itself is MotorGate.                      *)
(***************************************************************************)
EXTENDS Naturals

CONSTANTS StaleLimit,    \* stale_frame_consecutive_limit
          MaxLate        \* bound: input commands carried out after their caller gave up

ASSUME RuntimeAssumption == StaleLimit \in Nat \ {0} /\ MaxLate \in Nat

VARIABLES
    rt,       \* the runtime's fields, and where its main thread is
    beat,     \* the heartbeat thread
    sup,      \* the lease and what is physically held
    late,     \* commands given up by their caller and still to be carried out
    lates,    \* how many there were
    pause     \* the operator's pause latch

runtimeVars == <<rt, beat, sup, late, lates, pause>>

RuntimeInit ==
    /\ rt = [at |-> "start", stop |-> FALSE, budget |-> "unset", pending |-> FALSE,
             believes |-> FALSE, stale |-> 0, released |-> FALSE, policy |-> "up"]
    /\ beat = [at |-> "off", missing |-> 0]
    /\ sup = [lease |-> "live", held |-> FALSE]
    /\ late = {} /\ lates = 0
    /\ pause = FALSE

Revoked(s) == [lease |-> "dead", held |-> FALSE]

-----------------------------------------------------------------------------
(***************************************************************************)
(* Commands.  An outcome is the supervisor after it and whether the caller *)
(* saw success; a command that is still under way has its name in `left`.  *)
(***************************************************************************)
Effect(command, s) ==
    CASE command = "renew"   -> s
      [] command = "press"   -> [s EXCEPT !.held = TRUE]
      [] command = "quiet"   -> [s EXCEPT !.held = FALSE]
      [] command = "release" -> [s EXCEPT !.held = FALSE]
      [] OTHER -> Revoked(s)

Needs(command) == command \in {"renew", "press", "quiet", "release"}
Obeyed(command, s) == IF Needs(command) /\ s.lease = "dead" THEN s ELSE Effect(command, s)

Outcomes(command) ==
    {[sup |-> sup, ok |-> FALSE, left |-> {}]}
    \cup {[sup |-> Obeyed(command, sup), ok |-> ok, left |-> {}]
             : ok \in IF Needs(command) /\ sup.lease = "dead" THEN {FALSE} ELSE BOOLEAN}
    \cup (IF command \in {"press", "release"} /\ lates < MaxLate
          THEN {[sup |-> sup, ok |-> FALSE, left |-> {command}]} ELSE {})

Send(command, After(_)) ==
    \E o \in Outcomes(command) :
       /\ sup' = o.sup /\ late' = late \cup o.left
       /\ lates' = IF o.left = {} THEN lates ELSE lates + 1
       /\ rt' = After(o.ok)

\* _release_and_reconcile_inputs: only an acknowledgement clears what is held.
Reconciled(c, ok) ==
    IF ok THEN [c EXCEPT !.pending = FALSE, !.believes = FALSE] ELSE [c EXCEPT !.pending = TRUE]

\* ... and then what its caller does.  The policy may fail to take note, which
\* a caller that catches everything sees as one more release still owed.
CaughtRelease(c, Then(_, _)) == Send("release", LAMBDA ok : Then(Reconciled(c, ok), ok))

ReleaseThen(c, Then(_, _)) ==
    \E noted \in BOOLEAN :
       Send("release", LAMBDA ok : IF ok /\ ~noted THEN [c EXCEPT !.pending = TRUE, !.at = "fault"]
                                   ELSE Then(Reconciled(c, ok), ok))

Stopping(c) == [c EXCEPT !.stop = TRUE]
\* stop() also starts the one budget of the cleanup.
Stopped(c) == [c EXCEPT !.stop = TRUE, !.budget = IF @ = "unset" THEN "ample" ELSE @]
Quiet == UNCHANGED <<sup, late, lates>>

-----------------------------------------------------------------------------
\* run_forever up to the first tick.
Start ==
    /\ rt.at = "start"
    /\ IF rt.stop THEN rt' = [rt EXCEPT !.at = "disarm"] /\ UNCHANGED <<sup, late, lates, beat>>
       ELSE /\ Send("renew", LAMBDA ok :
                  IF ok THEN [rt EXCEPT !.at = "assemble"]
                  ELSE [rt EXCEPT !.at = IF rt.stop \/ pause THEN "disarm" ELSE "fault"])
            /\ beat' = IF rt'.at = "assemble" THEN [beat EXCEPT !.at = "loop"] ELSE beat
    /\ UNCHANGED pause

\* Worker, first capture with its veto, first decision and warmup.
Assemble ==
    /\ rt.at = "assemble"
    /\ \/ rt' = [rt EXCEPT !.at = IF rt.stop THEN "disarm" ELSE "tick"] /\ Quiet
       \/ rt' = [rt EXCEPT !.at = "fault"] /\ Quiet
       \/ CaughtRelease(Stopped(rt), LAMBDA c, ok : [c EXCEPT !.at = "disarm"])
    /\ UNCHANGED <<beat, pause>>

-----------------------------------------------------------------------------
(***************************************************************************)
(* A tick.  A frame that timed out or is stale releases and ends it, and   *)
(* too many in a row are a fault; so does a release not yet acknowledged.  *)
(***************************************************************************)
TickStops ==
    /\ rt.at = "tick" /\ rt.stop
    /\ rt' = [rt EXCEPT !.at = "disarm"]
    /\ Quiet /\ UNCHANGED <<beat, pause>>

Stalls ==
    /\ rt.at = "tick" /\ ~rt.stop
    /\ ReleaseThen([rt EXCEPT !.stale = @ + 1],
          LAMBDA c, ok : [c EXCEPT !.at = IF c.stale >= StaleLimit THEN "fault" ELSE "tick"])
    /\ UNCHANGED <<beat, pause>>

CaptureFails ==
    /\ rt.at = "tick" /\ ~rt.stop /\ rt' = [rt EXCEPT !.at = "fault"]
    /\ Quiet /\ UNCHANGED <<beat, pause>>

Sees ==
    /\ rt.at = "tick" /\ ~rt.stop
    /\ LET c == [rt EXCEPT !.stale = 0] IN
       IF rt.pending THEN ReleaseThen(c, LAMBDA r, ok : r)
       ELSE \/ rt' = [c EXCEPT !.at = "select"] /\ Quiet
            \/ CaughtRelease(Stopped(c), LAMBDA r, ok : r)
    /\ UNCHANGED <<beat, pause>>

\* Between the frame and the action: an expired attempt or a standby releases
\* and ends the tick.  A reply in the game's chat releases before it types; once
\* it typed, the tick releases again and waits for a newer frame.
Yields ==
    /\ rt.at \in {"select", "chatted"}
    /\ ReleaseThen(rt, LAMBDA c, ok : [c EXCEPT !.at = "tick"])
    /\ UNCHANGED <<beat, pause>>

Chats ==
    /\ rt.at = "select"
    /\ \E typed \in BOOLEAN :
          CaughtRelease(rt, LAMBDA c, ok : IF ok /\ typed THEN [c EXCEPT !.at = "chatted"] ELSE c)
    /\ UNCHANGED <<beat, pause>>

\* The executor proposes to press or to release, and thinks of it as done.
Proposes ==
    /\ rt.at = "select"
    /\ rt' \in {[rt EXCEPT !.at = "tick"], [rt EXCEPT !.at = "fault"],
                [rt EXCEPT !.at = "send", !.believes = TRUE],
                [rt EXCEPT !.at = "send", !.believes = FALSE]}
    /\ Quiet /\ UNCHANGED <<beat, pause>>

\* Slip: a refused action is just not sent.
DropsSilently == rt' = [rt EXCEPT !.at = "tick"] /\ Quiet

\* Expired attempt, changed scene: the action is dropped, its holds released.
Drops == ReleaseThen(rt, LAMBDA c, ok : [c EXCEPT !.at = "tick"])

SendMotor ==
    /\ rt.at = "send"
    /\ IF rt.stop \/ pause THEN rt' = [Stopping(rt) EXCEPT !.at = "tick"] /\ Quiet
       ELSE IF rt.pending THEN rt' = [rt EXCEPT !.at = "fault"] /\ Quiet
       ELSE \/ Drops
            \* an action of the skill before: unlike the others, it insists
            \/ ReleaseThen(rt, LAMBDA c, ok : [c EXCEPT !.at = IF ok THEN "tick" ELSE "fault"])
            \/ Send(IF rt.believes THEN "press" ELSE "quiet",
                    LAMBDA ok : IF ok THEN [rt EXCEPT !.at = "tick"]
                                ELSE IF rt.stop \/ pause
                                THEN [Stopping(rt) EXCEPT !.at = "tick"]
                                ELSE [rt EXCEPT !.at = "fault"])
    /\ UNCHANGED <<beat, pause>>

\* _failsafe
Failsafe ==
    /\ rt.at = "fault"
    /\ Send("fault", LAMBDA ok : [rt EXCEPT !.at = "disarm"])
    /\ UNCHANGED <<beat, pause>>

-----------------------------------------------------------------------------
\* _lease_heartbeat: two renewals missed in a row end the run.  The stop event
\* is looked at before a renewal, which may still be under way when it is set.
BeatWait == [beat EXCEPT !.at = "loop"]

\* Slip: the thread does not look at the stop event.
AsksForever ==
    /\ beat.at = "loop" /\ beat' = [beat EXCEPT !.at = "asks"]
    /\ UNCHANGED <<rt, sup, late, lates, pause>>

HeartbeatAsks ==
    /\ beat.at = "loop" /\ ~rt.stop
    /\ beat' = [beat EXCEPT !.at = "asks"]
    /\ UNCHANGED <<rt, sup, late, lates, pause>>

HeartbeatHears ==
    /\ beat.at = "asks"
    /\ \E o \in Outcomes("renew") :
          /\ sup' = o.sup
          /\ IF o.ok THEN beat' = [BeatWait EXCEPT !.missing = 0] /\ UNCHANGED rt
             ELSE IF beat.missing + 1 < 2 THEN beat' = [BeatWait EXCEPT !.missing = @ + 1] /\ UNCHANGED rt
             ELSE beat' = [beat EXCEPT !.at = "over"] /\ rt' = Stopping(rt)
    /\ UNCHANGED <<late, lates, pause>>

HeartbeatEnds ==
    /\ beat.at = "loop" /\ rt.stop
    /\ beat' = [beat EXCEPT !.at = "over"]
    /\ UNCHANGED <<rt, sup, late, lates, pause>>

-----------------------------------------------------------------------------
(***************************************************************************)
(* _shutdown_runtime.  Every step is tried, whatever became of those       *)
(* before it; the budget runs meanwhile.                                   *)
(***************************************************************************)
Disarm ==
    /\ rt.at = "disarm"
    /\ LET c == [Stopped(rt) EXCEPT !.at = "owners"] IN
       IF c.budget = "gone" THEN rt' = c /\ Quiet
       ELSE Send("disarm", LAMBDA ok : [c EXCEPT !.released = ok])
    /\ UNCHANGED <<beat, pause>>

\* Requests rejected, pool closed, the running skill recorded, the heartbeat
\* joined for a while, perception fenced: none of it touches the supervisor.
Owners ==
    /\ rt.at = "owners"
    /\ rt' = [rt EXCEPT !.at = "policy"]
    /\ Quiet /\ UNCHANGED <<beat, pause>>

\* Slip: whatever became of the disarm, the policy is told all is released.
AlwaysReleased(c) == TRUE

\* What the policy is told; an emergency stop may be latched on top.
ToldReleased(c) == c.released

RetirePolicy ==
    /\ rt.at = "policy"
    /\ rt' \in {[rt EXCEPT !.at = "records", !.policy = p]
                   : p \in {"bare"} \cup (IF ToldReleased(rt) /\ rt.budget = "ample"
                                          THEN {"saved"} ELSE {})}
    /\ Quiet /\ UNCHANGED <<beat, pause>>

Records ==
    /\ rt.at = "records"
    /\ rt' = [rt EXCEPT !.at = "over"]
    /\ Quiet /\ UNCHANGED <<beat, pause>>

BudgetRuns ==
    /\ rt.budget \in {"ample", "low"}
    /\ rt' = [rt EXCEPT !.budget = IF @ = "ample" THEN "low" ELSE "gone"]
    /\ Quiet /\ UNCHANGED <<beat, pause>>

-----------------------------------------------------------------------------
\* Somebody calls stop(), or pauses or stops the supervisor; time passes there.
StopCalled ==
    /\ rt.at # "over" /\ rt' = Stopped(rt)
    /\ Quiet /\ UNCHANGED <<beat, pause>>

OperatorPauses ==
    /\ ~pause /\ pause' = TRUE /\ sup' = Revoked(sup)
    /\ UNCHANGED <<rt, beat, late, lates>>

Lapses ==
    /\ sup.lease = "live" /\ sup' = Revoked(sup)
    /\ UNCHANGED <<rt, beat, late, lates, pause>>

LateCommand ==
    /\ \E c \in late : late' = late \ {c} /\ sup' = Obeyed(c, sup)
    /\ UNCHANGED <<rt, beat, lates, pause>>

MainThread ==
    \/ Start \/ Assemble \/ TickStops \/ Stalls \/ CaptureFails \/ Sees \/ Yields \/ Chats \/ Proposes
    \/ SendMotor \/ Failsafe \/ Disarm \/ Owners \/ RetirePolicy \/ Records

BeatThread == HeartbeatAsks \/ HeartbeatHears \/ HeartbeatEnds

RuntimeNext ==
    \/ MainThread \/ BeatThread
    \/ BudgetRuns \/ StopCalled \/ OperatorPauses \/ Lapses \/ LateCommand

(***************************************************************************)
(* Every thread goes on, time passes, and the supervisor's watchdog ends a *)
(* lease that nobody renews.                                               *)
(***************************************************************************)
Unrenewed == beat.at \notin {"loop", "asks"} /\ rt.at # "start" /\ Lapses

RuntimeFairness ==
    /\ WF_runtimeVars(MainThread) /\ WF_runtimeVars(BeatThread)
    /\ WF_runtimeVars(BudgetRuns) /\ WF_runtimeVars(Unrenewed)

RuntimeSpec == RuntimeInit /\ [][RuntimeNext]_runtimeVars /\ RuntimeFairness

-----------------------------------------------------------------------------
(***************************************************************************)
(* Between ticks the agent knows what it holds: a key that is physically   *)
(* down is one the executor holds, or a release is still owed and blocks   *)
(* every action.  A refused or stale action and a lost reply never leave a *)
(* key down that nobody remembers (runtime.py:1623-1642, 2625-2704).       *)
(***************************************************************************)
HoldsKnown ==
    rt.at \in {"tick", "select"} /\ ~rt.stop /\ sup.held => rt.believes \/ rt.pending

(***************************************************************************)
(* A checkpoint is written only after the inputs were really released and  *)
(* the lease was revoked, and nothing is pressed after it: not by a        *)
(* renewal or an action that was still under way (runtime.py:626-634,      *)
(* 675-684).                                                               *)
(***************************************************************************)
SavedInTheClear == rt.policy = "saved" => sup.lease = "dead" /\ ~sup.held

(***************************************************************************)
(* So no key is down without an account of it: the agent's, or that of a   *)
(* release which is confirmed before anything is saved.                    *)
(***************************************************************************)
InputsAccounted == HoldsKnown /\ SavedInTheClear

(***************************************************************************)
(* A run that was stopped ends, and its lease with it, even if every       *)
(* command of the shutdown is lost; a run whose lease was lost ends too    *)
(* (runtime.py:519-706, 2602-2623).                                        *)
(***************************************************************************)
RunEnds ==
    /\ rt.stop ~> (rt.at = "over" /\ sup.lease = "dead")
    /\ sup.lease = "dead" ~> rt.at = "over"
=============================================================================

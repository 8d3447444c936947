----------------------------- MODULE MC_Requests -----------------------------
(***************************************************************************)
(* Requests that must come to an end: the directions of the operator, and  *)
(* the questions to the model.  A behaviour picks one of the two and runs  *)
(* its specification under its own fairness; the other rests.              *)
(*                                                                         *)
(* Two directions may race for the player, or the second is an old one:    *)
(* what the database remembers of it is there when the first is submitted. *)
(***************************************************************************)
EXTENDS PaidDirections

CONSTANTS MaxRequests, MaxAttempts, MaxRevisions, Latches
VARIABLES oper, exec, latches, stopping, request, future, queue, closed, wk,
          registry, pending, last, saved, rt, notices, shown, part

BC == INSTANCE BoundCognition

decisionVars == <<oper, exec, latches, stopping, request, future, queue, closed, wk,
                  registry, pending, last, saved, rt, notices, shown>>

Earlier == CHOOSE r \in Requests : TRUE
OldRow  == [NoRow EXCEPT !.state = "cancelled", !.epoch = 1, !.lease = 1]

\* An old receipt leaves one direction to follow through two launches; a race
\* of two is one of submissions, cancellations and deadlines, after the agent
\* that had the last lease died.
RequestsInit ==
    /\ part \in {"direction", "race", "decision"}
    /\ BC!Init
    /\ step = [r \in Requests |-> [s \in Skills |-> NoStep]]
    /\ row = [r \in Requests |-> IF part # "race" /\ r = Earlier THEN OldRow ELSE NoRow]
    /\ writer = "free"
    /\ control = [lease |-> IF part = "race" THEN MaxLeases ELSE 1, up |-> TRUE]
    /\ calls = [c \in Callers |-> NoCall]
    /\ ag = IF part = "race" THEN Down ELSE Idle
    /\ pulses = 0
    /\ screen = "world" /\ under = "none" /\ camera = NoPicture /\ seen = NoPicture
    /\ pressed = [r \in Requests |-> [s \in Skills |-> 0]]
    /\ taken = [r \in Requests |-> {}] /\ read = taken
    /\ torn = {}

allVars == <<part, vars, decisionVars>>

RequestsNext ==
    \/ part # "decision" /\ Next /\ UNCHANGED <<part, decisionVars>>
    \/ part = "decision" /\ BC!Next /\ UNCHANGED <<part, vars>>

\* What is fair in either part: the agent's tick and the runtime's, deadlines
\* and the worker.  `part` never changes, so each has the fairness of its own.
Ticks ==
    \/ part # "decision" /\ Agent /\ UNCHANGED <<part, decisionVars>>
    \/ part = "decision" /\ BC!Runtime /\ UNCHANGED <<part, vars>>
Beside ==
    \/ part # "decision" /\ DeadlinePasses /\ UNCHANGED <<part, decisionVars>>
    \/ part = "decision" /\ BC!Worker /\ UNCHANGED <<part, vars>>

RequestsSpec ==
    RequestsInit /\ [][RequestsNext]_allVars /\ WF_allVars(Ticks) /\ WF_allVars(Beside)

RequestsEnd == BC!RequestsEnd
=============================================================================

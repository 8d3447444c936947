----------------------------- MODULE RequestOnly -----------------------------
(***************************************************************************)
(* The request-only mode of the runtime: control/request_only.py and       *)
(* runtime.py:724-955, with the transactions of memory/storage.py:187-218. *)
(*                                                                         *)
(* The runtime stands still until the operator posts one literal request,  *)
(* serves that one, and never moves again.  A request is bound under the   *)
(* operator intent lock and in a database transaction that also answers    *)
(* it; every motion takes both again and compares what it was bound to.    *)
(* A pause is written under the lock, an emergency is not; other writers   *)
(* of the database wait for a transaction.  A restart makes a new fence,   *)
(* for which everything that was posted before is too old.                 *)
(***************************************************************************)
EXTENDS Integers, FiniteSets

CONSTANT MaxSurveys      \* bound: requests posted
ASSUME RequestOnlyAssumption == MaxSurveys \in Nat \ {0}

Surveys == 1 .. MaxSurveys
NoSurvey == 0

VARIABLES
  survey,      \* operator_messages: "none", "queued", "acknowledged"
  old,         \* those posted before this process began
  overdue,     \* those whose own deadline has passed
  marks,       \* the pause marker and the emergency marker
  fence,       \* LiteralRequestFence: state, the request, and whether the
               \* operator revision has moved since the snapshot it is bound to
  task,        \* the run of the executor: "none", "running", "over"
  held,        \* _input_release_pending_ns, or the release that comes first
  step,        \* where _tick_request_only stands
  ending,      \* _stop
  served       \* history: surveys begun for each request, two standing for more

surveyVars == <<survey, old, overdue, marks, fence, task, held, step, ending, served>>

NewFence == [state |-> "waiting", for |-> NoSurvey, moved |-> FALSE]

\* The operator intent lock and the writer of the database are ours.
Locked == step \in {"bind", "send"}
Writing == step = "send"

Latched == marks # {} \/ ending

Go(s) == step' = s

-----------------------------------------------------------------------------
(* The tick *)

\* Before anything else, and after every failed release, inputs are released;
\* what follows waits for another frame.
LetGoFirst ==
  /\ step = "tick" /\ held /\ ~ending
  /\ held' = FALSE
  /\ UNCHANGED <<survey, old, overdue, marks, fence, task, step, ending, served>>

\* No request came in time, or the scene is not one to survey.
GiveUp ==
  /\ step = "tick" /\ ~held /\ ~ending
  /\ fence.state # "terminal"
  /\ Go("finish")
  /\ UNCHANGED <<survey, old, overdue, marks, fence, task, held, ending, served>>

Unserved == {m \in Surveys : survey[m] = "queued"}

\* Slip: the oldest of several requests is taken.
FirstOfMany(m) == m \notin old /\ \A n \in Unserved : m <= n

\* One request waits, and it came after this process began (admission_reason).
Admitted(m) == m \notin old /\ Unserved = {m}

\* The waiting fence takes the lock, looks for latches and reads a snapshot.
AdmitSurvey ==
  \E m \in Unserved :
    /\ step = "tick" /\ ~held /\ ~ending
    /\ fence.state = "waiting" /\ ~Latched /\ Admitted(m)
    /\ IF m \in overdue
       THEN fence' = [fence EXCEPT !.state = "terminal"] /\ UNCHANGED step
       ELSE fence' = [fence EXCEPT !.for = m, !.moved = FALSE] /\ Go("bind")
    /\ UNCHANGED <<survey, old, overdue, marks, task, held, ending, served>>

\* admit_operator_revision: the request is answered and bound in one transaction,
\* or left to wait.  Its commit may fail after the fence was bound.
Bind ==
  /\ step = "bind"
  /\ \/ /\ ~fence.moved
        /\ survey' = [survey EXCEPT ![fence.for] = "acknowledged"]
        /\ fence' = [fence EXCEPT !.state = "running"]
        /\ Go("start")
     \/ /\ ~fence.moved
        /\ fence' = [fence EXCEPT !.state = "running"]
        /\ Go("finish") /\ UNCHANGED survey
     \/ Go("tick") /\ UNCHANGED <<survey, fence>>
  /\ UNCHANGED <<old, overdue, marks, task, held, ending, served>>

\* _start_skill: the latches are looked at again, and the budget counts it.
StartSurvey ==
  /\ step = "start"
  /\ IF Latched \/ fence.for \in overdue
     THEN UNCHANGED <<task, served>>
     ELSE /\ task' = "running"
          /\ served' = [served EXCEPT ![fence.for] = IF @ = 0 THEN 1 ELSE 2]
  /\ Go("check")
  /\ UNCHANGED <<survey, old, overdue, marks, fence, held, ending>>

\* LiteralRequestFence.check
InForce ==
  /\ fence.state = "running" /\ task = "running"
  /\ ~fence.moved /\ survey[fence.for] = "acknowledged"
  /\ fence.for \notin overdue

\* A tick of a running survey begins with the same check.
ContinueSurvey ==
  /\ step = "tick" /\ ~held /\ ~ending /\ fence.state = "running"
  /\ Go("check")
  /\ UNCHANGED <<survey, old, overdue, marks, fence, task, held, ending, served>>

Check ==
  /\ step = "check"
  /\ Go(IF InForce THEN "act" ELSE "finish")
  /\ UNCHANGED <<survey, old, overdue, marks, fence, task, held, ending, served>>

\* The executor moves, holds still, or ends the survey; a late policy has lost
\* its time.
SurveyActs ==
  /\ step = "act"
  /\ \/ fence.for \notin overdue /\ Go("authority") /\ UNCHANGED task
     \/ fence.for \notin overdue /\ Go("tick") /\ UNCHANGED task
     \/ task' = "over" /\ Go("finish")
  /\ UNCHANGED <<survey, old, overdue, marks, fence, held, ending, served>>

\* Slip: what was checked at the head of the tick is not checked again.
AuthorityTaken ==
  /\ step = "authority"
  /\ Go("send") /\ UNCHANGED fence
  /\ UNCHANGED <<survey, old, overdue, marks, task, held, ending, served>>

\* _send_motor and _request_only_motor_authority: the lock and the writer are
\* taken, or not in time, and everything is compared again.
Authority ==
  /\ step = "authority"
  /\ \/ InForce /\ ~Latched /\ Go("send") /\ UNCHANGED fence
     \/ fence' = [fence EXCEPT !.state = "terminal"] /\ Go("finish")
  /\ UNCHANGED <<survey, old, overdue, marks, task, held, ending, served>>

\* The motion crosses the boundary under both, unless time is up or the scene
\* closed; an answer that does not come ends the process or the survey.
Send ==
  /\ step = "send"
  /\ \/ Go("tick") /\ UNCHANGED ending
     \/ Go("finish") /\ UNCHANGED ending
     \/ ending' = TRUE /\ Go("tick")
  /\ UNCHANGED <<survey, old, overdue, marks, fence, task, held, served>>

\* Slip: the end of a survey leaves its run in the executor.
FinishFenceOnly ==
  /\ step = "finish"
  /\ fence' = [fence EXCEPT !.state = "terminal"]
  /\ held' \in BOOLEAN
  /\ Go("tick")
  /\ UNCHANGED <<survey, old, overdue, marks, task, ending, served>>

\* _finish_request_only: the fence closes for good, inputs are released, or are
\* left to be released, and the run expires.
FinishSurvey ==
  /\ step = "finish"
  /\ fence' = [fence EXCEPT !.state = "terminal"]
  /\ held' \in BOOLEAN
  /\ task' = IF task = "running" THEN "over" ELSE task
  /\ Go("tick")
  /\ UNCHANGED <<survey, old, overdue, marks, ending, served>>

-----------------------------------------------------------------------------
(* Everybody else *)

\* The server stores a message, or the operator moves the target.
PostSurvey ==
  \E m \in Surveys :
    /\ ~Writing
    /\ survey[m] = "none" /\ \A n \in 1 .. m - 1 : survey[n] # "none"
    /\ survey' = [survey EXCEPT ![m] = "queued"]
    /\ fence' = IF fence.for = NoSurvey THEN fence ELSE [fence EXCEPT !.moved = TRUE]
    /\ UNCHANGED <<old, overdue, marks, task, held, step, ending, served>>

Mark ==
  \E mark \in {"pause", "emergency"} :
    /\ mark = "pause" => ~Locked
    /\ marks' \in {marks \cup {mark}, marks \ {mark}}
    /\ marks' # marks
    /\ UNCHANGED <<survey, old, overdue, fence, task, held, step, ending, served>>

TimePasses ==
  \E m \in Surveys :
    /\ survey[m] # "none" /\ m \notin overdue
    /\ overdue' = overdue \cup {m}
    /\ UNCHANGED <<survey, old, marks, fence, task, held, step, ending, served>>

\* The process stops, or dies at any point; the next one has its own fence.
NextProcess ==
  /\ old' = {m \in Surveys : survey[m] # "none"}
  /\ fence' = NewFence /\ task' = "none" /\ held' = TRUE
  /\ step' = "tick" /\ ending' = FALSE
  /\ UNCHANGED <<survey, overdue, marks, served>>

SurveyInit ==
  /\ survey = [m \in Surveys |-> "none"]
  /\ old = {} /\ overdue = {} /\ marks = {}
  /\ fence = NewFence /\ task = "none" /\ held = TRUE
  /\ step = "tick" /\ ending = FALSE
  /\ served = [m \in Surveys |-> 0]

SurveyNext ==
  \/ LetGoFirst \/ GiveUp \/ AdmitSurvey \/ Bind \/ StartSurvey \/ ContinueSurvey
  \/ Check \/ SurveyActs \/ Authority \/ Send \/ FinishSurvey \/ PostSurvey \/ Mark \/ TimePasses \/ NextProcess

SurveySpec == SurveyInit /\ [][SurveyNext]_surveyVars

-----------------------------------------------------------------------------
(* Properties *)

SurveyTypeOK ==
  /\ \A m \in Surveys : survey[m] \in {"none", "queued", "acknowledged"} /\ served[m] \in 0 .. 2
  /\ fence.state \in {"waiting", "running", "terminal"} /\ fence.for \in Surveys \cup {NoSurvey}
  /\ task \in {"none", "running", "over"} /\ marks \subseteq {"pause", "emergency"}

\* A motion leaves only for the one request that was bound, while nothing the
\* operator wrote came after it, and never under a pause.
MotionIsAuthorized ==
  step = "send" =>
    /\ fence.state = "running" /\ ~fence.moved /\ "pause" \notin marks
    /\ survey[fence.for] = "acknowledged" /\ task = "running"
    /\ fence.for \notin old /\ Unserved = {}

\* A request is served once, over crashes and restarts, and only after it was
\* answered.
SurveyedOnce ==
  \A m \in Surveys : served[m] <= 1 /\ (served[m] = 1 => survey[m] = "acknowledged")

\* A fence that has closed leaves nothing running once the tick is over.
ClosedIsStill == fence.state = "terminal" /\ step = "tick" => task # "running"

RequestSound == SurveyTypeOK /\ MotionIsAuthorized /\ SurveyedOnce /\ ClosedIsStill
=============================================================================

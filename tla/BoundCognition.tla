--------------------------- MODULE BoundCognition ---------------------------
(***************************************************************************)
(* A model decision on its way from the request to the runtime:            *)
(* runtime.py:3843-4166 and 4348-4499, model_requests.py and               *)
(* agent/daemon_executor.py.                                               *)
(*                                                                         *)
(* The runtime thread submits a request, bound to the operator and         *)
(* execution revisions it was made under, to the one worker of a daemon    *)
(* executor.  The model call cannot be interrupted: an operator message,   *)
(* a deadline or a shutdown only rejects the request, and the call goes    *)
(* on.  A decision that arrives is published once, under the locks of the  *)
(* operator, or never; whoever finds a request rejected and its work over  *)
(* claims the discard notice that the model adapter is owed.               *)
(*                                                                         *)
(* Three threads of control meet here: the runtime, the worker, and the    *)
(* done callback, which runs in whichever of the two finishes last.        *)
(***************************************************************************)
EXTENDS Integers, Sequences, FiniteSets

CONSTANTS
  MaxRequests,   \* bound: requests submitted
  MaxAttempts,   \* model calls per request: the decision and its repairs
  MaxRevisions,  \* bound: operator and execution revisions, together
  Latches        \* the latches the operator uses, of "pause" and "emergency"

ASSUME BoundAssumption == /\ MaxRequests \in Nat \ {0}
                          /\ MaxAttempts \in Nat \ {0}
                          /\ MaxRevisions \in Nat
                          /\ Latches \subseteq {"pause", "emergency"}

Questions == 1 .. MaxRequests
NoQuestion == 0
FastPath == -1      \* a deterministic decision for the operator

VARIABLES
  oper, exec,     \* the current operator and execution revisions
  latches,        \* the operator's pause and emergency files
  stopping,       \* _stop
  request,        \* ModelRequestLifecycle of each request
  future,         \* its future, and whether the done callback is attached
  queue, closed,  \* the executor's deque, and its _shutdown
  wk,             \* the worker thread
  registry,       \* _bound_cognition_requests
  pending,        \* _pending_decision
  last,           \* _last_decision, and with it the plan
  saved,          \* what a failed publication restores
  rt,             \* the runtime thread
  notices,        \* history: discard notices that reached the adapter
  shown           \* history: requests whose publication was committed

authority == <<oper, exec, latches, stopping>>
executor == <<queue, closed, wk>>
decision == <<registry, pending, last, saved, rt>>
history == <<notices, shown>>
vars == <<authority, request, future, executor, decision, history>>

Unborn == [oper |-> 0, exec |-> 0, late |-> FALSE, complete |-> FALSE,
           disposition |-> "none", noticed |-> FALSE]
NoWork == [at |-> "idle", r |-> NoQuestion, tries |-> 0, active |-> FALSE]
Idle == [at |-> "idle", r |-> NoQuestion, then |-> "idle"]

Finished(r) == future[r].state \in {"done", "failed", "cancelled"}

-----------------------------------------------------------------------------
(* ModelRequestLifecycle, every method under its lock *)

\* Slip: a rejection overwrites what was decided before.
RejectedAnyway(q) == [q EXCEPT !.disposition = "rejected"]

\* reject: the first disposition stays.
Rejected(q) == IF q.disposition = "pending" THEN [q EXCEPT !.disposition = "rejected"] ELSE q

Discarded(q) == q.complete /\ q.disposition \in {"rejected", "publication_failed"}

\* Slip: a discard is announced while the model call still runs.
NoticeDueEarly(q) == ~q.noticed /\ q.disposition \in {"rejected", "publication_failed"}

NoticeDue(q) == ~q.noticed /\ Discarded(q)

\* take_discard_notice, and the call of the adapter that follows it.
Notify(r) ==
  IF NoticeDue(request[r])
  THEN /\ request' = [request EXCEPT ![r].noticed = TRUE]
       /\ notices' = [notices EXCEPT ![r] = @ + 1]
  ELSE UNCHANGED <<request, notices>>

\* The done callback up to its notice: it settles a request whose work never
\* ran or raised.
Settle(r) ==
  LET q == request[r] IN
  request' = [request EXCEPT ![r] =
     CASE future[r].state = "cancelled" -> [Rejected(q) EXCEPT !.complete = TRUE]
       [] future[r].state = "failed"    -> Rejected(q)
       [] future[r].state = "done"      -> q]

-----------------------------------------------------------------------------
(* The runtime thread *)

Rt(step) == rt.at = step
Goto(step, r, then) == rt' = [at |-> step, r |-> r, then |-> then]
GoOn == rt' = [rt EXCEPT !.at = rt.then]

\* _submit_bound_cognition: bind and queue ...
Submit ==
  \E r \in Questions :
    /\ Rt("idle") /\ pending = NoQuestion /\ ~stopping /\ latches = {}
    /\ future[r].state = "none" /\ \A s \in 1 .. r - 1 : future[s].state # "none"
    /\ request' = [request EXCEPT ![r] = [Unborn EXCEPT !.oper = oper, !.exec = exec,
                                                        !.disposition = "pending"]]
    /\ future' = [future EXCEPT ![r].state = "queued"]
    /\ queue' = Append(queue, r)
    /\ Goto("register", r, "idle")
    /\ UNCHANGED <<authority, closed, wk, registry, pending, last, saved, history>>

\* ... then register, and attach the callback, which runs here if the worker
\* has been faster.
Register ==
  /\ Rt("register")
  /\ registry' = registry \cup {rt.r}
  /\ pending' = rt.r
  /\ IF Finished(rt.r)
     THEN rt' = [rt EXCEPT !.at = "settle"] /\ UNCHANGED future
     ELSE GoOn /\ future' = [future EXCEPT ![rt.r].attached = TRUE]
  /\ UNCHANGED <<authority, request, executor, last, saved, history>>

RtSettle ==
  /\ Rt("settle")
  /\ Settle(rt.r)
  /\ rt' = [rt EXCEPT !.at = "notify"]
  /\ UNCHANGED <<authority, future, executor, registry, pending, last, saved, history>>

\* Slip: the request leaves the registry without an answer.
RejectForgets ==
  /\ Rt("reject")
  /\ registry' = registry \ {rt.r}
  /\ rt' = [rt EXCEPT !.at = "notify"]
  /\ UNCHANGED <<authority, request, future, executor, pending, last, saved, history>>

\* _reject_bound_cognition, first half: unregister and reject.
Reject ==
  /\ Rt("reject")
  /\ registry' = registry \ {rt.r}
  /\ request' = [request EXCEPT ![rt.r] = IF rt.r \in registry THEN Rejected(@) ELSE @]
  /\ rt' = [rt EXCEPT !.at = "notify"]
  /\ UNCHANGED <<authority, future, executor, pending, last, saved, history>>

RtNotify ==
  /\ Rt("notify")
  /\ Notify(rt.r)
  /\ GoOn
  /\ UNCHANGED <<authority, future, executor, registry, pending, last, saved, shown>>

\* An operator message replaces the pending request (_stage_operator_fast_path),
\* or the perception probe behind it is revoked: it is rejected before it is
\* cancelled.
Abandon ==
  /\ Rt("idle") /\ pending # NoQuestion /\ ~stopping
  /\ Goto("reject", pending, "cancel")
  /\ UNCHANGED <<authority, request, future, executor, registry, pending, last, saved, history>>

\* cancel succeeds on queued work and then runs the callback; running work is
\* left to itself.
Cancelled(r) == [future EXCEPT ![r].state = IF @ = "queued" THEN "cancelled" ELSE @]
CallsBack(r) == future[r].state = "queued" /\ future[r].attached

Cancel ==
  /\ Rt("cancel")
  /\ future' = Cancelled(rt.r)
  /\ IF CallsBack(rt.r) THEN Goto("settle", rt.r, "replace") ELSE Goto("replace", rt.r, "idle")
  /\ UNCHANGED <<authority, request, executor, registry, pending, last, saved, history>>

\* A deterministic decision, if there is one, takes the place of the request and
\* is consumed in the same turn.
Replace ==
  /\ Rt("replace")
  /\ pending' = NoQuestion
  /\ last' \in {last, FastPath}
  /\ Goto("idle", NoQuestion, "idle")
  /\ UNCHANGED <<authority, request, future, executor, registry, saved, history>>

\* _consume_cognition_decision: take a finished future.
Consume ==
  /\ Rt("idle") /\ pending # NoQuestion /\ ~stopping
  /\ Finished(pending)
  /\ pending' = NoQuestion
  /\ Goto(IF future[pending].state = "done" THEN "preflight" ELSE "reject", pending, "idle")
  /\ UNCHANGED <<authority, request, future, executor, registry, last, saved, history>>

\* The authority under which the request was made is still the current one.
Current(q) == q.oper = oper /\ q.exec = exec /\ ~q.late /\ latches = {} /\ ~stopping

\* _preflight_bound_cognition, which may also fail to get its locks in time.
Preflight ==
  LET q == request[rt.r] IN
  /\ Rt("preflight")
  /\ \/ Current(q) /\ q.disposition = "pending" /\ q.complete /\ Goto("screen", rt.r, "idle")
     \/ Goto("reject", rt.r, "idle")
  /\ UNCHANGED <<authority, request, future, executor, registry, pending, last, saved, history>>

\* The checks between preflight and admission hold no lock: a new message, an
\* open screen or a missing prerequisite rejects the decision, and what comes
\* after them is not seen.
Screen ==
  /\ Rt("screen")
  /\ \/ registry' = registry \ {rt.r} /\ Goto("admit", rt.r, "idle")
     \/ Goto("reject", rt.r, "idle") /\ UNCHANGED registry
  /\ UNCHANGED <<authority, request, future, executor, pending, last, saved, history>>

\* Slip: what preflight has checked is not checked again.
AdmitUnchecked ==
  LET q == request[rt.r] IN
  /\ Rt("admit")
  /\ IF q.disposition = "pending"
     THEN last' = rt.r /\ saved' = last /\ Goto("commit", rt.r, "idle")
     ELSE Goto("notify", rt.r, "idle") /\ UNCHANGED <<last, saved>>
  /\ UNCHANGED <<authority, request, future, executor, registry, pending, history>>

\* accept and its callback up to the commit: the request's lock, the operator
\* intent lock and the database transaction are taken, the authority is
\* compared again and the decision adopted.
Admit ==
  LET q == request[rt.r]
      failed == IF future[rt.r].result = "model" THEN "publication_failed" ELSE "pending"
  IN
  /\ Rt("admit")
  /\ \/ /\ q.disposition = "pending" /\ Current(q)
        /\ last' = rt.r /\ saved' = last
        /\ Goto("commit", rt.r, "idle")
        /\ UNCHANGED request
     \/ /\ q.disposition = "pending"      \* not current, a busy lock, a refusing adapter
        /\ request' = [request EXCEPT ![rt.r].disposition = failed]
        /\ Goto("fault", rt.r, "idle")
        /\ UNCHANGED <<last, saved>>
     \/ /\ q.disposition # "pending"
        /\ Goto("notify", rt.r, "idle")
        /\ UNCHANGED <<request, last, saved>>
  /\ UNCHANGED <<authority, future, executor, registry, pending, history>>

\* Slip: a failed commit leaves the decision in place.
CommitWithoutRestore ==
  LET model == future[rt.r].result = "model" IN
  /\ Rt("commit")
  /\ \/ /\ request' = [request EXCEPT ![rt.r].disposition = IF model THEN "accepted" ELSE "rejected"]
        /\ shown' = shown \cup {rt.r}
        /\ Goto("notify", rt.r, "idle")
     \/ /\ request' = [request EXCEPT ![rt.r].disposition =
                         IF model THEN "publication_failed" ELSE "pending"]
        /\ Goto("fault", rt.r, "idle")
        /\ UNCHANGED shown
  /\ saved' = NoQuestion
  /\ UNCHANGED <<authority, future, executor, registry, pending, last, notices>>

\* The transaction commits and the locks go, or the commit raises and the
\* decision before it is restored.  A decision that no model made is adopted,
\* but its request is discarded.
Commit ==
  LET model == future[rt.r].result = "model" IN
  /\ Rt("commit")
  /\ \/ /\ request' = [request EXCEPT ![rt.r].disposition = IF model THEN "accepted" ELSE "rejected"]
        /\ shown' = shown \cup {rt.r}
        /\ Goto("notify", rt.r, "idle")
        /\ UNCHANGED last
     \/ /\ last' = saved
        /\ request' = [request EXCEPT ![rt.r].disposition =
                         IF model THEN "publication_failed" ELSE "pending"]
        /\ Goto("fault", rt.r, "idle")
        /\ UNCHANGED shown
  /\ saved' = NoQuestion
  /\ UNCHANGED <<authority, future, executor, registry, pending, notices>>

\* The except of _admit_bound_cognition rejects whatever is not settled yet.
Fault ==
  /\ Rt("fault")
  /\ request' = [request EXCEPT ![rt.r] = Rejected(@)]
  /\ rt' = [rt EXCEPT !.at = "notify"]
  /\ UNCHANGED <<authority, future, executor, registry, pending, last, saved, history>>

\* A skill ends or is switched: what was asked before is out of date.
ExecutionChanges ==
  /\ Rt("idle") /\ oper + exec < MaxRevisions
  /\ exec' = exec + 1
  /\ UNCHANGED <<oper, latches, stopping, request, future, executor, decision, history>>

-----------------------------------------------------------------------------
(* _shutdown_runtime: reject what is registered, then close the executor *)

Retire ==
  /\ \/ Rt("idle") /\ stopping
     \/ Rt("retire")
  /\ \/ \E r \in registry : Goto("reject", r, "retire")
     \/ registry = {} /\ Goto("drain", NoQuestion, "drain")
  /\ closed' = (closed \/ registry = {})
  /\ UNCHANGED <<authority, request, future, queue, wk, registry, pending, last, saved, history>>

\* shutdown holds the executor's condition while it cancels the queue.
Draining == rt.at = "drain" \/ rt.then = "drain"

Drain ==
  /\ Rt("drain") /\ queue # <<>>
  /\ LET r == Head(queue) IN
       /\ future' = Cancelled(r)
       /\ IF CallsBack(r) THEN Goto("settle", r, "drain") ELSE UNCHANGED rt
  /\ queue' = Tail(queue)
  /\ UNCHANGED <<authority, request, closed, wk, registry, pending, last, saved, history>>

Drained ==
  /\ Rt("drain") /\ queue = <<>>
  /\ Goto("off", NoQuestion, "off")
  /\ UNCHANGED <<authority, request, future, executor, registry, pending, last, saved, history>>

-----------------------------------------------------------------------------
(* The worker thread *)

Wk(step) == wk.at = step
WkGoto(step) == wk' = [wk EXCEPT !.at = step]

\* Slip: work is taken before the worker is marked active.
TakeInactive ==
  /\ Wk("idle") /\ queue # <<>> /\ ~Draining
  /\ wk' = [at |-> "start", r |-> Head(queue), tries |-> 0, active |-> FALSE]
  /\ queue' = Tail(queue)
  /\ UNCHANGED <<authority, request, future, closed, decision, history>>

Take ==
  /\ Wk("idle") /\ queue # <<>> /\ ~Draining
  /\ wk' = [at |-> "start", r |-> Head(queue), tries |-> 0, active |-> TRUE]
  /\ queue' = Tail(queue)
  /\ UNCHANGED <<authority, request, future, closed, decision, history>>

\* A cancelled future is skipped; a request past its deadline is not begun.
Start ==
  LET r == wk.r IN
  /\ Wk("start")
  /\ \/ /\ future[r].state = "cancelled"
        /\ WkGoto("finish")
        /\ UNCHANGED <<request, future>>
     \/ /\ future[r].state = "queued" /\ ~request[r].late
        /\ future' = [future EXCEPT ![r].state = "running"]
        /\ WkGoto("attempt")
        /\ UNCHANGED request
     \/ /\ future[r].state = "queued" /\ request[r].late
        /\ future' = [future EXCEPT ![r].state = "running", ![r].result = "error"]
        /\ request' = [request EXCEPT ![r] = Rejected(@)]
        /\ WkGoto("complete")
  /\ UNCHANGED <<authority, queue, closed, decision, history>>

\* decide asks the model, unless it can decide alone; start_attempt refuses a
\* settled or expired request, and decide answers the refusal itself.
Attempt ==
  LET r == wk.r
      open == request[r].disposition = "pending" /\ ~request[r].late
  IN
  /\ Wk("attempt")
  /\ \/ /\ open
        /\ wk' = [wk EXCEPT !.at = "call", !.tries = @ + 1]
        /\ UNCHANGED future
     \/ /\ ~open \/ wk.tries = 0
        /\ future' = [future EXCEPT ![r].result = "fallback"]
        /\ WkGoto("complete")
  /\ UNCHANGED <<authority, request, queue, closed, decision, history>>

\* The model call returns or raises; the controller takes its decision, replaces
\* it by one of its own, asks once more, or passes on a refused budget.
Answer ==
  /\ Wk("call")
  /\ \/ /\ \E result \in {"model", "fallback", "error"} :
               future' = [future EXCEPT ![wk.r].result = result]
        /\ WkGoto("complete")
     \/ wk.tries < MaxAttempts /\ WkGoto("attempt") /\ UNCHANGED future
  /\ UNCHANGED <<authority, request, queue, closed, decision, history>>

Complete ==
  LET r == wk.r IN
  /\ Wk("complete")
  /\ request' = [request EXCEPT ![r].complete = TRUE]
  /\ WkGoto("set")
  /\ UNCHANGED <<authority, future, queue, closed, decision, history>>

\* The future is finished; its callback, if attached, runs in this thread.
SetResult ==
  LET r == wk.r IN
  /\ Wk("set")
  /\ future' = [future EXCEPT ![r].state =
                   IF future[r].result = "error" THEN "failed" ELSE "done"]
  /\ WkGoto(IF future[r].attached THEN "settle" ELSE "finish")
  /\ UNCHANGED <<authority, request, queue, closed, decision, history>>

WkSettle ==
  /\ Wk("settle")
  /\ Settle(wk.r)
  /\ WkGoto("notify")
  /\ UNCHANGED <<authority, future, queue, closed, decision, history>>

WkNotify ==
  /\ Wk("notify")
  /\ Notify(wk.r)
  /\ WkGoto("finish")
  /\ UNCHANGED <<authority, future, queue, closed, decision, shown>>

Finish ==
  /\ Wk("finish") /\ ~Draining
  /\ wk' = NoWork
  /\ UNCHANGED <<authority, request, future, queue, closed, decision, history>>

-----------------------------------------------------------------------------
(* The operator, time, and the end of the process *)

\* Writers of the operator database wait for a publication's transaction.
OperatorWrites ==
  /\ oper + exec < MaxRevisions /\ ~Rt("commit")
  /\ oper' = oper + 1
  /\ UNCHANGED <<exec, latches, stopping, request, future, executor, decision, history>>

\* Pause and resume are written under the operator intent lock, an emergency is not.
Latch ==
  \E l \in Latches :
    /\ l = "pause" => ~Rt("commit")
    /\ latches' \in {latches \cup {l}, latches \ {l}}
    /\ latches' # latches
    /\ UNCHANGED <<oper, exec, stopping, request, future, executor, decision, history>>

\* The deadline of a settled request is of no consequence.
DeadlinePasses ==
  \E r \in Questions :
    /\ request[r].disposition = "pending" /\ ~request[r].late
    /\ request' = [request EXCEPT ![r].late = TRUE]
    /\ UNCHANGED <<authority, future, executor, decision, history>>

StopRequested ==
  /\ ~stopping /\ stopping' = TRUE
  /\ UNCHANGED <<oper, exec, latches, request, future, executor, decision, history>>

-----------------------------------------------------------------------------
Init ==
  /\ oper = 0 /\ exec = 0 /\ latches = {} /\ stopping = FALSE
  /\ request = [r \in Questions |-> Unborn]
  /\ future = [r \in Questions |-> [state |-> "none", attached |-> FALSE, result |-> "none"]]
  /\ queue = <<>> /\ closed = FALSE
  /\ wk = NoWork
  /\ registry = {} /\ pending = NoQuestion /\ last = NoQuestion /\ saved = NoQuestion
  /\ rt = Idle
  /\ notices = [r \in Questions |-> 0]
  /\ shown = {}

Runtime ==
  \/ Register \/ RtSettle \/ Reject \/ RtNotify \/ Cancel \/ Replace \/ Consume \/ Preflight
  \/ Screen \/ Admit \/ Commit \/ Fault \/ Retire \/ Drain \/ Drained
Worker ==
  \/ Take \/ Start \/ Attempt \/ Answer \/ Complete \/ SetResult \/ WkSettle \/ WkNotify \/ Finish
Environment == OperatorWrites \/ Latch \/ DeadlinePasses \/ StopRequested

Next == Runtime \/ Submit \/ Abandon \/ ExecutionChanges \/ Worker \/ Environment
Spec == Init /\ [][Next]_vars

\* The runtime loop keeps ticking and the worker keeps running: model calls
\* are bounded by their transport's timeouts.
FairSpec == Spec /\ WF_vars(Runtime) /\ WF_vars(Worker)

-----------------------------------------------------------------------------
(* Properties *)

\* Types; and what waits for a decision is a registered request.
TypeOK ==
  /\ oper \in Nat /\ exec \in Nat /\ oper + exec <= MaxRevisions
  /\ latches \subseteq Latches /\ stopping \in BOOLEAN /\ closed \in BOOLEAN
  /\ \A r \in Questions :
       /\ request[r].disposition \in
            {"none", "pending", "accepted", "rejected", "publication_failed"}
       /\ future[r].state \in {"none", "queued", "running", "done", "failed", "cancelled"}
       /\ notices[r] \in Nat
  /\ wk.tries \in 0 .. MaxAttempts
  /\ registry \subseteq Questions /\ shown \subseteq Questions
  /\ pending \in Questions \cup {NoQuestion}
  /\ last \in Questions \cup {NoQuestion, FastPath}
  /\ rt.at = "idle" /\ pending # NoQuestion => pending \in registry

(***************************************************************************)
(* The runtime acts on a decision if and only if its publication was       *)
(* committed, and the request's account says the same: a decision of the   *)
(* model is accepted exactly when it was adopted, and one whose            *)
(* publication failed is nowhere to be seen (runtime.py:3985-4074,         *)
(* model_requests.py:199-248).                                             *)
(***************************************************************************)
AccountAgrees ==
  /\ last \in Questions => last \in shown \/ (Rt("commit") /\ rt.r = last)
  /\ \A r \in Questions :
       request[r].disposition = "accepted" <=> r \in shown /\ future[r].result = "model"

(***************************************************************************)
(* The adapter is told of a discarded request at most once, never before   *)
(* the model work on it has ended and never of an accepted one, whichever  *)
(* of the runtime and the worker comes last (model_requests.py:250-260).   *)
(***************************************************************************)
OneTrueNotice ==
  \A r \in Questions : notices[r] <= 1 /\ (notices[r] = 1 => Discarded(request[r]))

\* is_idle, which the reasoning standby relies on to call the model lane free,
\* sees detached work too: nothing queued or running escapes it
\* (daemon_executor.py:89-107).
IdleMeansQuiet ==
  ~wk.active /\ queue = <<>> =>
     \A r \in Questions : future[r].state \notin {"queued", "running"}

\* What the runtime, the account of a request, its adapter and the standby make
\* of one decision agree at every point (model_requests.py:199-260).
DecisionSound == TypeOK /\ AccountAgrees /\ OneTrueNotice /\ IdleMeansQuiet

(***************************************************************************)
(* A decision is committed only under the operator and execution           *)
(* revisions it was asked under, with no operator pause, however long the  *)
(* model took and whoever wrote meanwhile (runtime.py:3989-4037).          *)
(***************************************************************************)
CommittedWhileCurrent ==
  [][\A r \in shown' \ shown :
        request[r].oper = oper /\ request[r].exec = exec /\ "pause" \notin latches]_vars

\* A request is settled once: no late callback, rejection or retry rewrites it.
SettledOnce ==
  [][\A r \in Questions : request[r].disposition \notin {"none", "pending"}
        => request'[r].disposition = request[r].disposition]_vars

(***************************************************************************)
(* Nothing asked of the model is left hanging, on either side: a submitted *)
(* request is settled in the end, by a publication or a rejection, and, if *)
(* it is discarded, the adapter hears of it while the process lives        *)
(* (runtime.py:3900-3983, model_requests.py:250-260).                      *)
(***************************************************************************)
RequestsEnd ==
  \A r \in Questions :
     future[r].state # "none" ~>
        /\ request[r].disposition # "pending"
        /\ request[r].disposition = "accepted" \/ notices[r] = 1 \/ stopping
=============================================================================

---------------------------- MODULE OperatorInbox ----------------------------
(***************************************************************************)
(* The messages of the operator between the database and the runtime:      *)
(* memory/storage.py:845-981, runtime_support/helpers.py:1284-1350,        *)
(* control/operator_budget.py and the parts of runtime.py that deliver,    *)
(* answer, refuse and bound them.                                          *)
(*                                                                         *)
(* The server writes messages; the runtime alone moves their status.  The  *)
(* writer of the database may be busy: a status that was not stored stays  *)
(* in a retry queue while the loop goes on, and is lost with the process.  *)
(* A planner asked about the pending messages answers later, and what it   *)
(* answers is screened against what changed meanwhile.  A message may come *)
(* with a deadline and with one skill to start.                            *)
(*                                                                         *)
(* Messages are numbered in the order of their creation.                   *)
(***************************************************************************)
EXTENDS Integers, FiniteSets

CONSTANTS
  MaxMessages,   \* bound: messages posted
  Sorts          \* the sorts of each message: kind, whether urgent, whether bounded

MessageKinds == {"instruction", "correction", "question"}    \* feedback is like a question

ASSUME InboxAssumption ==
  /\ MaxMessages \in Nat \ {0}
  /\ Sorts \in [1 .. MaxMessages -> SUBSET [kind : MessageKinds, high : BOOLEAN, bounded : BOOLEAN]]
  /\ \A m \in 1 .. MaxMessages : \A sort \in Sorts[m] : sort.bounded => sort.kind # "question"

Messages == 1 .. MaxMessages
Nothing == 0
Own == -1        \* a goal of the agent's own: its plans and skills are not followed

VARIABLES
  inbox,     \* operator_messages
  late,      \* messages whose deadline has passed
  retry,     \* _pending_operator_status_updates
  ask,       \* _pending_decision with the context it was asked in
  refusal,   \* _pending_planner_budget_refusal
  attempt,   \* _operator_attempts
  plan,      \* the message whose plan has steps left
  running,   \* the message whose skill runs
  turn,      \* where the runtime's tick stands in a decision
  starts,    \* history: skills started for what may be attempted once, two for more
  unsure     \* history: those whose answer was not stored at once

memory == <<retry, ask, refusal, attempt, plan, running, turn>>
inboxHistory == <<starts, unsure>>
inboxVars == <<inbox, late, memory, inboxHistory>>

NoMessage == [status |-> "none", kind |-> "question", high |-> FALSE, bounded |-> FALSE]
NoBinding == [m |-> Nothing, lost |-> FALSE]
NoAsk == [at |-> "none", ids |-> {}, pending |-> FALSE, stale |-> FALSE, bind |-> NoBinding]

-----------------------------------------------------------------------------
(* _active_operator_messages: who has authority *)

PendingIn(box) == {m \in Messages : box[m].status \in {"queued", "delivered"}}
TerminalIn(box) ==
  {m \in Messages : \/ box[m].status = "refused"
                    \/ box[m].status = "acknowledged" /\ box[m].kind # "question"}

\* A newer terminal message hides the older ones that still wait.
Waiting(box) == {m \in PendingIn(box) : \A n \in TerminalIn(box) : n < m}

\* Without one that waits, the newest instruction goes on, unless a correction
\* was answered or a request refused after it.
Standing(box) ==
  {m \in TerminalIn(box) : /\ \A n \in TerminalIn(box) : n <= m
                           /\ box[m].status = "acknowledged" /\ box[m].kind = "instruction"}

Active(box) == IF Waiting(box) # {} THEN Waiting(box) ELSE Standing(box)

Outranks(x, y) ==
  \/ x.high /\ ~y.high
  \/ x.high = y.high /\ x.kind = "correction" /\ y.kind # "correction"

First(box) ==
  CHOOSE m \in Waiting(box) :
    \A n \in Waiting(box) \ {m} :
       \/ Outranks(box[m], box[n])
       \/ ~Outranks(box[n], box[m]) /\ n < m

-----------------------------------------------------------------------------
(* Statuses *)

\* update_operator_message_status, when the writer is free.
Stored(status, m, s) == IF status = "refused" THEN status ELSE s

\* Slip: a status that is stored leaves the older one in the retry queue.
KeptOnSuccess(m, s, busy) == IF busy THEN s ELSE retry[m]

\* _persist_operator_message_status: what stays to be retried.
Unstored(m, s, busy) == IF busy THEN s ELSE "none"

Lose(b) == IF b.m = Nothing THEN b ELSE [b EXCEPT !.lost = TRUE]

\* What intent, execution or plan the planner was asked under has changed.
IntentMoves == /\ ask' = [ask EXCEPT !.bind = Lose(@)]
               /\ refusal' = Lose(refusal)
ExecutionMoves == /\ ask' = [ask EXCEPT !.bind = Lose(@), !.stale = ask.at # "none"]
                  /\ refusal' = Lose(refusal)

\* _post_message of the server: a new row, and a new revision.
Post ==
  \E m \in Messages : \E sort \in Sorts[m] :
    /\ inbox[m].status = "none"
    /\ \A n \in 1 .. m - 1 : inbox[n].status # "none"
    /\ inbox' = [inbox EXCEPT ![m] = [status |-> "queued", kind |-> sort.kind,
                                      high |-> sort.high, bounded |-> sort.bounded]]
    /\ IntentMoves
    /\ UNCHANGED <<late, retry, attempt, plan, running, turn, inboxHistory>>

\* _flush_pending_operator_status_updates stores one of them; a busy writer
\* leaves everything as it is.
Flush ==
  \E m \in Messages :
    /\ turn = "idle" /\ retry[m] # "none"
    /\ inbox' = [inbox EXCEPT ![m].status = Stored(@, m, retry[m])]
    /\ retry' = [retry EXCEPT ![m] = "none"]
    /\ IF inbox[m].kind = "correction" /\ retry[m] = "acknowledged"
       THEN IntentMoves ELSE UNCHANGED <<ask, refusal>>
    /\ UNCHANGED <<late, attempt, plan, running, turn, inboxHistory>>

-----------------------------------------------------------------------------
(* Asking *)

\* OperatorAttempt.admit and check: the clock is that of the message, and one
\* that was answered before this process has no owner.
Owner(m) ==
  IF m \in late \/ (attempt[m] = "none" /\ inbox[m].status = "acknowledged")
  THEN "closed"
  ELSE IF attempt[m] = "none" THEN "fresh" ELSE attempt[m]

\* _remember_operator_attempts: a request that is used up is answered and left out.
UsedUp == {m \in Active(inbox) : inbox[m].bounded /\ Owner(m) = "closed"}

\* _cognition_context: what is new in the rest is marked delivered.
\* `next` says what becomes of the question, given who is in it.
Look(next(_, _), marks) ==
  LET seen == Active(inbox)
      owned == {m \in seen : inbox[m].bounded}
      over == UsedUp \cap PendingIn(inbox)
      fresh == IF marks THEN {m \in seen \ UsedUp : inbox[m].status = "queued"} ELSE {}
      target(m) == IF m \in over THEN "acknowledged" ELSE "delivered"
  IN
  \E busy \in SUBSET (over \cup fresh) :
    LET after == [m \in Messages |->
                    IF m \in (over \cup fresh) \ busy
                    THEN [inbox[m] EXCEPT !.status = Stored(@, m, target(m))] ELSE inbox[m]]
    IN
    /\ inbox' = after
    /\ retry' = [m \in Messages |->
                   IF m \in over \cup fresh THEN Unstored(m, target(m), m \in busy) ELSE retry[m]]
    /\ attempt' = [m \in Messages |-> IF m \in owned THEN Owner(m) ELSE attempt[m]]
    /\ plan' = IF plan \in UsedUp THEN Nothing ELSE plan
    /\ unsure' = unsure \cup (over \cap busy)
    /\ next(seen \ UsedUp, after)

\* _capture_planner_budget_binding: the message that is first, if it still is.
Binding(ids, after) ==
  IF ids \cap PendingIn(inbox) = {} \/ Waiting(after) = {} THEN NoBinding
  ELSE LET m == First(after) IN
       IF m \in ids /\ m \notin late THEN [m |-> m, lost |-> FALSE] ELSE NoBinding

Asked(ids, after) ==
  ask' \in {[NoAsk EXCEPT !.at = "asked", !.ids = ids, !.pending = ids \cap PendingIn(inbox) # {},
                          !.bind = b] : b \in {NoBinding, Binding(ids, after)}}

\* _start_cognition_if_due: the planner is asked.
Ask ==
  /\ turn = "idle" /\ ask.at = "none" /\ refusal.m = Nothing
  /\ Look(Asked, TRUE)
  /\ UNCHANGED <<late, refusal, running, turn, starts>>

Staged(ids, after) ==
  /\ ids \cap PendingIn(inbox) # {}
  /\ ask' = [NoAsk EXCEPT !.at = "staged", !.ids = ids, !.pending = TRUE]

\* _stage_operator_fast_path decides without the planner and drops the question
\* that is out; the decision is consumed in the same turn.
FastPath ==
  /\ turn = "idle" /\ refusal.m = Nothing
  /\ Waiting(inbox) # {}
  /\ Look(Staged, TRUE)
  /\ turn' = "screen"
  /\ UNCHANGED <<late, refusal, running, starts>>

Declined(ids, after) ==
  IF \E m \in Messages : after[m].kind = "correction" /\ after[m].status # inbox[m].status
  THEN ask' = [ask EXCEPT !.bind = Lose(@)] ELSE UNCHANGED ask

\* _preempt_pending_cognition_for_operator finds nothing to decide.
Decline ==
  /\ turn = "idle" /\ refusal.m = Nothing
  /\ ask.at # "none" /\ Waiting(inbox) # {}
  /\ Look(Declined, FALSE)
  /\ UNCHANGED <<late, refusal, running, turn, starts>>

-----------------------------------------------------------------------------
(* Consuming the answer *)

Sampled == IF ask.pending THEN ask.ids ELSE {}

\* The execution has not changed since, and no message has arrived.
Passes == ~ask.stale /\ Waiting(inbox) \subseteq Sampled

\* The planner has answered, which it may at any time.
\* _consume_cognition_decision up to its screens, some of which look at the scene:
\* the decision passes or is dropped.  A planner that found its request too large
\* leaves a refusal of the message it was bound to.
Screen ==
  /\ turn \in {"idle", "screen"} /\ ask.at # "none"
  /\ \/ Passes /\ turn' = "apply" /\ UNCHANGED <<ask, refusal>>
     \/ turn' = "idle" /\ ask' = NoAsk /\ UNCHANGED refusal
     \/ ask.bind.m # Nothing /\ turn' = "refuse" /\ ask' = NoAsk /\ refusal' = ask.bind
  /\ UNCHANGED <<inbox, late, retry, attempt, plan, running, inboxHistory>>

\* What may be attempted once only.
Once(m) == inbox[m].kind = "correction" \/ inbox[m].bounded

\* Slip: a request may start one skill more than its budget.
AdmitsOneMore(m) == attempt[m] = "none" \/ (attempt[m] \in {"fresh", "used"} /\ m \notin late)

\* OperatorAttempt.start, with a budget of one skill.
AdmitsStart(m) == attempt[m] = "none" \/ (attempt[m] = "fresh" /\ m \notin late)

\* _start_skill and _push_child_skill behind _admit_operator_skill_start; one
\* that is refused closes the attempt, its run and its plan.
BeginSkill(m, was) ==
  IF m = Own
  THEN running' = Nothing /\ plan' = was /\ UNCHANGED <<attempt, starts>>
  ELSE IF AdmitsStart(m)
  THEN /\ running' = m /\ plan' = was
       /\ attempt' = [attempt EXCEPT ![m] = IF @ = "fresh" THEN "used" ELSE @]
       /\ starts' = [starts EXCEPT ![m] = IF ~Once(m) THEN 0 ELSE IF @ = 0 THEN 1 ELSE 2]
  ELSE /\ attempt' = [attempt EXCEPT ![m] = "closed"]
       /\ running' = IF running = m THEN Nothing ELSE running
       /\ plan' = IF was = m THEN Nothing ELSE was
       /\ UNCHANGED starts

\* _adopt_plan_if_revised: the plan after a decision for m.  Without steps, a
\* command with an instruction ends the plan of another one.
Adopted(m, steps, skill) ==
  CASE steps /\ m # Own -> {m}
    [] (steps /\ m = Own) \/ (skill /\ m # Own /\ plan # m) -> {plan, Nothing}
    [] OTHER -> {plan}

\* Slip: the plan that comes with a correction is kept.
StepsOfCorrections(m, does) == does \in {"steps", "both"}

\* A correction is one attempt, never a plan.
Steps(m, does) ==
  /\ does \in {"steps", "both"}
  /\ ~(m \in Sampled /\ inbox[m].kind = "correction")

\* The decision is adopted, answered to the operator, and begun, unless it asks
\* for a look first, a chat has to be typed, or the same skill runs already.
Decide(m, does) ==
  LET skill == does \in {"skill", "both"}
      answers == /\ m \in Sampled
                 /\ \/ skill \/ Steps(m, does)
                    \/ inbox[m].kind = "question" /\ does = "reply"
  IN
  \E busy \in BOOLEAN, begins \in BOOLEAN, was \in Adopted(m, Steps(m, does), skill) :
    /\ busy => answers
    /\ begins => skill
    /\ IF answers
       THEN /\ inbox' = [inbox EXCEPT ![m].status = IF busy THEN @
                                                    ELSE Stored(@, m, "acknowledged")]
            /\ retry' = [retry EXCEPT ![m] = Unstored(m, "acknowledged", busy)]
            /\ unsure' = IF busy /\ Once(m) THEN unsure \cup {m} ELSE unsure
       ELSE UNCHANGED <<inbox, retry, unsure>>
    /\ IF begins THEN BeginSkill(m, was) ELSE plan' = was /\ UNCHANGED <<attempt, running, starts>>

\* The planner chooses a message of its context or a goal of the agent; a
\* decision without the planner is about a message that waits.
Apply ==
  /\ turn = "apply" /\ turn' = "idle" /\ ask' = NoAsk
  /\ \/ \E m \in ask.ids \cup {Own}, does \in {"skill", "steps", "both", "reply"} :
           ask.at = "asked" /\ Decide(m, does)
     \/ \E m \in Sampled, does \in {"skill", "reply"} : ask.at = "staged" /\ Decide(m, does)
  /\ UNCHANGED <<late, refusal>>

\* _publish_planner_budget_refusal, in one transaction under the operator lock.
Refuses(m) == ~refusal.lost /\ Waiting(inbox) # {} /\ First(inbox) = m

\* _flush_planner_budget_refusal: published, dropped, or left for later.
FlushRefusal ==
  LET m == refusal.m IN
  /\ turn \in {"idle", "refuse"} /\ m # Nothing
  /\ turn' = "idle"
  /\ \/ /\ Refuses(m)
        /\ inbox' = [inbox EXCEPT ![m].status = "refused"]
        /\ retry' = [retry EXCEPT ![m] = "none"]
        /\ refusal' = NoBinding
     \/ ~Refuses(m) /\ refusal' = NoBinding /\ UNCHANGED <<inbox, retry>>
     \/ turn = "refuse" /\ UNCHANGED <<inbox, retry, refusal>>
  /\ UNCHANGED <<late, ask, attempt, plan, running, inboxHistory>>

-----------------------------------------------------------------------------
(* Skills, time and the process *)

\* _start_current_plan_skill, while nothing runs.
PlanStep ==
  /\ turn = "idle" /\ running = Nothing /\ plan # Nothing
  /\ BeginSkill(plan, plan)
  /\ UNCHANGED <<inbox, late, retry, ask, refusal, turn, unsure>>

\* The skill ends or is cancelled, and the plan may be over with it.
RunEnds ==
  /\ turn = "idle" /\ running # Nothing
  /\ running' = Nothing
  /\ plan' \in {plan, Nothing}
  /\ ExecutionMoves
  /\ UNCHANGED <<inbox, late, retry, attempt, turn, inboxHistory>>

\* A skill of the agent's own ends, or yields to a directive that waits.
OwnRunEnds ==
  /\ turn = "idle" /\ running = Nothing /\ ask.at # "none"
  /\ ExecutionMoves
  /\ UNCHANGED <<inbox, late, retry, attempt, plan, running, turn, inboxHistory>>

DeadlinePasses ==
  \E m \in Messages :
    /\ inbox[m].bounded /\ m \notin late
    /\ late' = late \cup {m}
    /\ ask' = [ask EXCEPT !.bind = IF @.m = m THEN Lose(@) ELSE @]
    /\ refusal' = IF refusal.m = m THEN Lose(refusal) ELSE refusal
    /\ UNCHANGED <<inbox, retry, attempt, plan, running, turn, inboxHistory>>

\* _expire_current_operator_attempt, and the same check before and after the
\* policy: the run of a request whose time is over is released.
ExpireAttempt ==
  /\ turn = "idle" /\ running \in late /\ attempt[running] # "none"
  /\ running' = Nothing
  /\ attempt' = [attempt EXCEPT ![running] = "closed"]
  /\ plan' = IF plan = running THEN Nothing ELSE plan
  /\ ExecutionMoves
  /\ UNCHANGED <<inbox, late, retry, turn, inboxHistory>>

\* A pause, an emergency, another world or model, or a planner deadline.
OwnerLost ==
  /\ refusal.m # Nothing \/ ask.bind.m # Nothing
  /\ IntentMoves
  /\ UNCHANGED <<inbox, late, retry, attempt, plan, running, turn, inboxHistory>>

\* The process dies at any point, and another one starts.
Restart ==
  /\ retry' = [m \in Messages |-> "none"]
  /\ attempt' = [m \in Messages |-> "none"]
  /\ ask' = NoAsk /\ refusal' = NoBinding
  /\ plan' = Nothing /\ running' = Nothing /\ turn' = "idle"
  /\ UNCHANGED <<inbox, late, inboxHistory>>

-----------------------------------------------------------------------------
InboxInit ==
  /\ inbox = [m \in Messages |-> NoMessage]
  /\ late = {}
  /\ retry = [m \in Messages |-> "none"]
  /\ attempt = [m \in Messages |-> "none"]
  /\ ask = NoAsk /\ refusal = NoBinding
  /\ plan = Nothing /\ running = Nothing /\ turn = "idle"
  /\ starts = [m \in Messages |-> 0]
  /\ unsure = {}

InboxNext ==
  \/ Post \/ Flush \/ Ask \/ FastPath \/ Decline  \/ Screen \/ Apply
  \/ FlushRefusal \/ PlanStep \/ RunEnds \/ OwnRunEnds \/ DeadlinePasses \/ ExpireAttempt
  \/ OwnerLost \/ Restart

InboxSpec == InboxInit /\ [][InboxNext]_inboxVars

-----------------------------------------------------------------------------
(* Properties *)

InboxTypeOK ==
  /\ \A m \in Messages :
       /\ inbox[m].status \in {"none", "queued", "delivered", "acknowledged", "refused"}
       /\ retry[m] \in {"none", "delivered", "acknowledged"}
       /\ attempt[m] \in {"none", "fresh", "used", "closed"}
       /\ starts[m] \in 0 .. 2
  /\ late \subseteq Messages /\ unsure \subseteq Messages
  /\ plan \in Messages \cup {Nothing} /\ running \in Messages \cup {Nothing}

\* A correction, and a request with a budget of one skill, is attempted once, over
\* restarts too, unless its answer could not be stored at once.
AttemptedOnce == \A m \in Messages : starts[m] > 1 => m \in unsure

InboxSound == InboxTypeOK /\ AttemptedOnce

\* An answer is final: a status that was late, retried or asked for in another
\* world never brings a message back, and one that is refused starts nothing.
AnswersStand ==
  [][\A m \in Messages :
       /\ inbox[m].status = "acknowledged" => inbox'[m].status = "acknowledged"
       /\ inbox[m].status = "refused" =>
            /\ inbox'[m].status = "refused"
            /\ Once(m) /\ m \notin unsure => starts'[m] = starts[m]]_inboxVars

\* A message under a newer terminal one starts nothing: "An older instruction
\* must not silently regain control underneath it." (helpers.py:1295)
NoneRegainsControl ==
  [][\A m \in Messages :
       (\E n \in TerminalIn(inbox) : n > m) => starts'[m] = starts[m]]_inboxVars
=============================================================================

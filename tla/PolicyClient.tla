----------------------------- MODULE PolicyClient -----------------------------
(***************************************************************************)
(* TemporalPolicyClient of policy_service.py and the learned worker behind *)
(* its two pipes.  The motor thread calls act() twenty times a second and  *)
(* never waits for the model: it has one request out, drains the answer on *)
(* a later call, and holds, releases or restarts in between.  Starting a   *)
(* worker may happen in a warm-up thread, while the motor thread still     *)
(* releases and resets.  retire() ends the worker for good, with a         *)
(* checkpoint if the worker has a contract for one.                        *)
(*                                                                         *)
(* An inference is known by its number, an input by the inference that     *)
(* asked for it.  What a prediction says, and camera arithmetic, are left  *)
(* out.                                                                    *)
(***************************************************************************)
EXTENDS Naturals, Sequences

CONSTANTS MaxWorkerStarts,   \* the configured limit of worker starts
          MaxInferences,     \* inferences submitted in a behaviour
          MaxStuck           \* workers that a SIGKILL does not end in time

ASSUME PolicyAssumption ==
    MaxWorkerStarts \in Nat /\ MaxInferences \in Nat /\ MaxStuck \in Nat

VARIABLES
    client,    \* the TemporalPolicyClient
    child,     \* the worker process, its pipes included
    sent,      \* inferences submitted so far
    fence,     \* the newest inference when inputs were last released or reset
    told,      \* terminal commands written to the present worker
    heedless,  \* one of them was written although inputs were not released
    stuck,     \* workers that outlived their SIGKILL for a while
    report     \* what retire() returned

policyVars == <<client, child, sent, fence, told, heedless, stuck, report>>

None == 0
NoChild == [up |-> FALSE, ready |-> FALSE, native |-> FALSE, inbox |-> <<>>, outbox |-> <<>>,
            last |-> None, saved |-> None, normal |-> FALSE]

Fresh == [at |-> "idle", process |-> FALSE, verified |-> FALSE, native |-> FALSE,
          pending |-> None, late |-> FALSE, discard |-> FALSE, last |-> None,
          held |-> None, camera |-> None,
          draining |-> FALSE, retiring |-> FALSE, trusted |-> TRUE, starts |-> 0]

PolicyInit ==
    /\ client = Fresh /\ child = NoChild
    /\ sent = 0 /\ fence = 0 /\ told = <<>> /\ heedless = FALSE
    /\ stuck = 0 /\ report = "none"

-----------------------------------------------------------------------------
\* _clear_input_state: nothing is held and no camera motion is left to send.
Neutral(c) == [c EXCEPT !.held = None, !.camera = None]

\* Slip: what is being computed may still act after the release.
RetiredNever(c) == c

\* _retire_pending_action: the answer is drained, but it will never act.
Retired(c) == IF c.pending # None THEN [c EXCEPT !.discard = TRUE] ELSE c

\* The ends a process comes to by itself or by the signals of close().
Ends(w) == [w EXCEPT !.up = FALSE, !.inbox = <<>>, !.normal = FALSE]
Exits(w) == [Ends(w) EXCEPT !.normal = TRUE]

\* Slip: close asks every worker that still runs to stop.
AsksStopAlways(c) == c.process /\ child.up

AsksStop(c) == c.process /\ child.up /\ ~c.draining

(***************************************************************************)
(* close(): "stop" unless a drain was attempted, one second, SIGTERM, one  *)
(* second, SIGKILL.  A worker that outlives even that stays on the books,  *)
(* with everything but its verification.                                   *)
(***************************************************************************)
Cleared(c) == [c EXCEPT !.process = FALSE, !.verified = FALSE, !.native = FALSE,
                        !.pending = None, !.late = FALSE, !.discard = FALSE,
                        !.last = None, !.camera = None]
Closed(c) ==
    {[client |-> Cleared(c), child |-> w, raised |-> FALSE]
        : w \in (IF child.up THEN {Ends(child)} \cup (IF AsksStop(c) THEN {Exits(child)} ELSE {})
                 ELSE {child})}
    \cup (IF c.process /\ child.up /\ stuck < MaxStuck
          THEN {[client |-> [c EXCEPT !.verified = FALSE], child |-> child, raised |-> TRUE]}
          ELSE {})

Told(c, command, released) ==
    /\ told' = Append(told, command)
    /\ heedless' = (heedless \/ (c.retiring /\ ~released))

\* Close, and then what the caller does with the client that is left.
Closing(c, released, After(_)) ==
    /\ \E o \in Closed(c) :
          /\ client' = After(o) /\ child' = o.child
          /\ stuck' = IF o.raised THEN stuck + 1 ELSE stuck
    /\ IF AsksStop(c) THEN Told(c, "stop", released) ELSE UNCHANGED <<told, heedless>>

Books   == <<sent, fence, report>>
Outside == <<child, told, heedless, stuck>>

-----------------------------------------------------------------------------
\* Starting: the spawn counts whether or not it succeeds.
Usable == client.verified /\ client.process /\ child.up

Spawn ==
    /\ client.at = "idle" /\ ~client.draining /\ ~client.retiring /\ ~Usable
    /\ \/ /\ ~client.process
          /\ IF client.starts < MaxWorkerStarts
             THEN /\ client' = [Cleared(client) EXCEPT !.at = "loading", !.process = TRUE, !.starts = @ + 1]
                  /\ child' \in {[NoChild EXCEPT !.up = TRUE, !.native = n] : n \in BOOLEAN}
                  /\ told' = <<>>
                  /\ UNCHANGED <<heedless, stuck>>
             ELSE client' = Neutral(Cleared(client)) /\ UNCHANGED Outside
       \/ /\ client.process
          /\ Closing(client, FALSE, LAMBDA o : IF o.raised THEN o.client ELSE Neutral(o.client))
    /\ UNCHANGED Books

\* The first line of the worker, or no such line in time.
StartsUp ==
    /\ client.at = "loading"
    /\ \/ /\ client.process /\ child.up /\ child.ready
          /\ client' = [client EXCEPT !.at = "idle", !.verified = TRUE, !.trusted = TRUE,
                                      !.native = child.native]
          /\ UNCHANGED Outside
       \/ /\ client.process
          /\ Closing(client, FALSE, LAMBDA o : [Neutral(o.client) EXCEPT !.at = "idle"])
       \/ /\ ~client.process
          /\ client' = [client EXCEPT !.at = "idle"] /\ UNCHANGED Outside
    /\ UNCHANGED Books

-----------------------------------------------------------------------------
(***************************************************************************)
(* act(), with a worker that is up.  Every branch ends in an action: the   *)
(* prediction, a hold, or a release.                                       *)
(***************************************************************************)
MayAct == client.at = "idle" /\ ~client.draining /\ ~client.retiring
Acting == MayAct /\ Usable
Answered == client.pending # None /\ child.outbox # <<>>
Consumed == [client EXCEPT !.pending = None, !.late = FALSE]
Reads    == child' = [child EXCEPT !.outbox = Tail(@)] /\ UNCHANGED <<told, heedless, stuck>>

\* An exception in act() closes the worker and releases.
Recover(c) ==
    Closing(c, FALSE, LAMBDA o : IF o.raised THEN o.client ELSE Neutral(o.client))

\* Nothing to see or a scene that forbids it: a release that leaves the request alone.
ActBlocked ==
    /\ MayAct
    /\ client' = Neutral(client)
    /\ UNCHANGED <<Outside, Books>>

\* An answer from before a release is drained; only then a new request goes out.
ActDiscards ==
    /\ Acting /\ Answered /\ client.discard
    /\ client' = [Consumed EXCEPT !.discard = FALSE]
    /\ Reads /\ UNCHANGED Books

ActOutputs ==
    /\ Acting /\ Answered /\ ~client.discard
    /\ Head(child.outbox).ok
    /\ IF client.late THEN client' = Neutral(Consumed)
       ELSE \E keys \in {None, client.pending}, camera \in {None, client.pending} :
               client' = [Consumed EXCEPT !.held = keys, !.camera = camera]
    /\ Reads /\ UNCHANGED Books

\* A failed inference costs the worker, unless it only was too late.
ActFails ==
    /\ Acting /\ Answered /\ ~client.discard
    /\ ~Head(child.outbox).ok
    /\ \/ client.late /\ client' = Neutral(Consumed) /\ Reads
       \/ Recover(Consumed)
    /\ UNCHANGED Books

\* While it waits: keep what is held until its horizon, then let go.
ActWaits ==
    /\ Acting /\ client.pending # None /\ child.outbox = <<>>
    /\ \/ /\ ~client.late
          /\ \E keys \in {client.held, None}, camera \in {client.camera, None} :
                client' = [client EXCEPT !.held = keys, !.camera = camera]
          /\ UNCHANGED Outside
       \/ client.late /\ client' = Neutral(client) /\ UNCHANGED Outside
       \/ client.late /\ Recover(client)
    /\ UNCHANGED Books

\* A worker that died with its request is found out by the next start.
ActSubmits ==
    /\ Acting /\ client.pending = None
    /\ \/ /\ client.camera # None
          /\ \E keys \in {client.held, None} :
                client' = [client EXCEPT !.camera = None, !.held = keys]
          /\ UNCHANGED <<Outside, sent>>
       \/ /\ client.camera = None /\ sent < MaxInferences
          /\ sent' = sent + 1
          /\ client' = [client EXCEPT !.pending = sent + 1, !.last = sent + 1, !.late = FALSE]
          /\ child' = [child EXCEPT !.inbox = Append(@, [do |-> "infer", id |-> sent + 1])]
          /\ UNCHANGED <<told, heedless, stuck>>
       \/ /\ client.camera = None
          /\ Recover([client EXCEPT !.trusted = FALSE]) /\ UNCHANGED sent
    /\ UNCHANGED <<fence, report>>

-----------------------------------------------------------------------------
\* Calls that end what was asked before, also while a worker starts.  The reset
\* record itself has no answer and only clears the worker's memory of the scene.
NotifyInputsReleased ==
    /\ client.at # "draining"
    /\ client' = Neutral(Retired(client)) /\ fence' = sent
    /\ UNCHANGED <<Outside, sent, report>>

Reset ==
    /\ client.at # "draining"
    /\ IF client.draining \/ client.retiring
       THEN client' = Neutral(client) /\ UNCHANGED Outside
       ELSE \/ client' = Neutral(Retired(client)) /\ UNCHANGED Outside
            \/ /\ client.process /\ ~child.up
               /\ Closing([Retired(client) EXCEPT !.trusted = FALSE], FALSE,
                          LAMBDA o : Neutral(o.client))
    /\ fence' = sent
    /\ UNCHANGED <<sent, report>>

-----------------------------------------------------------------------------
(***************************************************************************)
(* retire(): with inputs released, a native worker is asked to drain and   *)
(* to save; any other is closed.  A failed drain is never followed by the  *)
(* "stop" that would make it save once more.                               *)
(***************************************************************************)
Finishes(c, released, clean) ==
    /\ \E o \in Closed(c) :
          /\ client' = [o.client EXCEPT !.at = "idle", !.draining = TRUE]
          /\ child' = o.child
          /\ stuck' = IF o.raised THEN stuck + 1 ELSE stuck
          /\ report' = IF clean /\ ~o.raised /\ (c.process => o.child.normal)
                       THEN "complete" ELSE "incomplete"
    /\ IF AsksStop(c) THEN Told(c, "stop", released) ELSE UNCHANGED <<told, heedless>>

Retire(released) ==
    /\ client.at = "idle" /\ ~client.retiring
    /\ LET c == [client EXCEPT !.retiring = TRUE]
           n == Neutral(Retired(c)) IN
       IF ~c.process THEN Finishes(c, released, TRUE) /\ UNCHANGED fence
       ELSE IF ~released
       THEN Finishes([c EXCEPT !.draining = TRUE], released, FALSE) /\ UNCHANGED fence
       ELSE /\ fence' = sent
            /\ IF ~c.native THEN Finishes(n, released, TRUE)
               ELSE \/ /\ child.up /\ c.trusted
                       /\ client' = [n EXCEPT !.at = "draining", !.draining = TRUE]
                       /\ child' = [child EXCEPT !.inbox = Append(@, [do |-> "drain", id |-> c.last])]
                       /\ Told(c, "drain", released)
                       /\ UNCHANGED <<stuck, report>>
                    \/ Finishes([n EXCEPT !.draining = TRUE], released, FALSE)
    /\ UNCHANGED sent

\* The drain loop: the pending answer first, then the receipt, then the exit.
DrainReads ==
    /\ client.at = "draining" /\ client.pending # None /\ child.outbox # <<>>
    /\ Head(child.outbox).id = client.pending
    /\ client' = Consumed /\ Reads /\ UNCHANGED Books

DrainEnds ==
    /\ client.at = "draining"
    /\ \/ /\ client.pending = None /\ child.outbox # <<>>
          /\ Head(child.outbox).id = client.last /\ ~child.up /\ child.normal
          /\ Finishes(client, TRUE, TRUE)
       \/ Finishes(client, TRUE, FALSE)
    /\ UNCHANGED <<sent, fence>>

-----------------------------------------------------------------------------
\* The worker reads one command at a time, and stops, saves or dies.
Answer(id, ok) == child' = [child EXCEPT !.inbox = Tail(@), !.last = id,
                                         !.outbox = Append(@, [id |-> id, ok |-> ok])]
WorkerWorks ==
    /\ child.up
    /\ \/ ~child.ready /\ child' = [child EXCEPT !.ready = TRUE]
       \/ /\ child.ready /\ child.inbox # <<>>
          /\ CASE Head(child.inbox).do = "infer" ->
                    \E ok \in BOOLEAN : Answer(Head(child.inbox).id, ok)
               [] Head(child.inbox).do = "drain" ->
                    child' = [Exits(child) EXCEPT !.saved = child.last,
                                  !.outbox = Append(@, [id |-> child.last, ok |-> TRUE])]
       \/ child' = Ends(child)
    /\ UNCHANGED <<client, told, heedless, stuck, Books>>

DeadlinePasses ==
    /\ client.pending # None /\ ~client.late
    /\ client' = [client EXCEPT !.late = TRUE]
    /\ UNCHANGED <<Outside, Books>>

PolicyNext ==
    \/ Spawn \/ StartsUp
    \/ ActBlocked \/ ActDiscards \/ ActOutputs \/ ActFails \/ ActWaits \/ ActSubmits
    \/ NotifyInputsReleased \/ Reset
    \/ \E released \in BOOLEAN : Retire(released)
    \/ DrainReads \/ DrainEnds
    \/ WorkerWorks \/ DeadlinePasses

PolicySpec == PolicyInit /\ [][PolicyNext]_policyVars

-----------------------------------------------------------------------------
(***************************************************************************)
(* What the client holds or still has to send was predicted for a frame    *)
(* captured after the last release or reset: a slow answer, a restarted    *)
(* worker or a late record never presses what was let go                   *)
(* (policy_service.py:345-366, 949-1003).                                  *)
(***************************************************************************)
NoStaleMotion ==
    /\ client.held # None => client.held > fence
    /\ client.camera # None => client.camera > fence

(***************************************************************************)
(* The end of a worker.  A checkpoint is asked for once, and in a          *)
(* retirement only after a confirmed release; nothing follows a drain; and *)
(* a retirement that calls itself complete has left no process, now or     *)
(* later, and a native worker saved after everything it was asked          *)
(* (policy_service.py:567-645, 678-785).                                   *)
(***************************************************************************)
RetirementSound ==
    /\ ~heedless
    /\ \A i \in DOMAIN told : told[i] = "drain" => i = Len(told)
    /\ report = "complete" =>
          /\ ~client.process /\ ~child.up
          /\ told # <<>> /\ told[Len(told)] = "drain" => child.saved = child.last

(***************************************************************************)
(* What the client may still press and what it says of its worker are      *)
(* true, whatever the worker answers and however late.                     *)
(***************************************************************************)
ClientSound == NoStaleMotion /\ RetirementSound
=============================================================================

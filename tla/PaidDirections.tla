--------------------------- MODULE PaidDirections ---------------------------
(***************************************************************************)
(* A direction that somebody asks the player to carry out:                 *)
(* directions/gateway.py, the tick that executes it (directions/runtime.py)*)
(* and the dispatch of its input (runtime.py:2668-2713).                   *)
(*                                                                         *)
(* A receipt is a row of an SQLite database that clients, the dashboard    *)
(* and the agent write, each call in one immediate transaction.  The one   *)
(* direction admitted today opens the inventory, observes it and closes it *)
(* with two toggles of one key.  Each toggle goes out inside a transaction *)
(* of its own, so that a cancellation comes before it or after it.  The    *)
(* supervisor, the game and the camera are what the agent sees of them.    *)
(*                                                                         *)
(* `current` stands for the equality of the row's authority revision and   *)
(* the operator's, and the stamp of a capture for the number of pulses     *)
(* that the game had received by then.  What a stamp says depends on the   *)
(* source: the image source takes and stamps a picture in one call, so its *)
(* stamp is no later than the picture; a stream, of FFmpeg or of PipeWire, *)
(* is stamped when a picture has been read, which may be long after it was *)
(* taken.                                                                  *)
(***************************************************************************)
EXTENDS Integers, FiniteSets

CONSTANTS
  Requests,      \* request identities
  Callers,       \* concurrent submissions
  MaxLeases,     \* bound: motor leases, one per launched agent
  Streaming,     \* the leases of the agents that capture a stream
  MaxPulses      \* bound: toggles sent to the game

ASSUME PaidDirectionsAssumption ==
  MaxLeases \in Nat \ {0} /\ MaxPulses \in Nat /\ Streaming \subseteq 1 .. MaxLeases

CONSTANT NoRequest
ASSUME NoRequestAssumption == NoRequest \notin Requests

Skills == {"open", "close"}
Screens == {"world", "inventory"}     \* or anything but an open inventory
Expected(skill) == IF skill = "open" THEN "inventory" ELSE "world"

VARIABLES
  row,        \* paid_directions
  step,       \* paid_direction_steps
  writer,     \* the agent holds a write transaction open
  control,    \* the supervisor's status: lease, and whether it may be used
  calls,      \* submissions past their checks, not yet in their transaction
  ag,         \* the agent: its _active_direction, skill, and place in the tick
  screen,     \* the game
  under,      \* of a stream: what the picture shows that was taken and not read
  camera,     \* of a stream: the newest picture that was read
  seen,       \* last_capture
  pulses,     \* toggles the game has received
  pressed,    \* history: toggles per step
  taken,      \* history: steps whose effect is on a picture taken after their toggle, ...
  read,       \* ... on a picture of a stream that was read after it
  torn        \* history: requests whose agent died between toggle and commit

receipts == <<row, step>>
frames == <<under, camera, seen>>
game == <<screen, frames>>
history == <<pressed, taken, read, torn>>
vars == <<receipts, writer, control, calls, ag, game, pulses, history>>

NoRow == [state |-> "none", epoch |-> 0, lease |-> 0, current |-> FALSE, late |-> FALSE,
          count |-> 0]
NoStep == [at |-> "none", when |-> 0]
NoPicture == [screen |-> "none", stamp |-> 0]
NoCall == [r |-> NoRequest, epoch |-> 0]
Idle == [at |-> "tick", r |-> NoRequest, skill |-> "open", ok |-> FALSE]
Down == [Idle EXCEPT !.at = "down"]

Pending(r) == row[r].state \in {"queued", "running"}

\* _continuity_reason, but for the deadline.
Interrupted(r) == ~control.up \/ control.lease # row[r].lease \/ control.lease # row[r].epoch

\* Archiving or saving a message changes the operator revision.
Bumped(rows) == [r \in Requests |-> [rows[r] EXCEPT !.current = FALSE]]

\* Slip: an outcome replaces the one before it.
RevokedAgain(r, state) == Bumped([row EXCEPT ![r].state = state])

\* _revoke_conn
Revoked(r, state) == IF Pending(r) THEN Bumped([row EXCEPT ![r].state = state]) ELSE row

\* status, within its transaction
Reconciled(r) ==
  IF row[r].late THEN Revoked(r, "expired")
  ELSE IF Interrupted(r) THEN Revoked(r, "cancelled")
  ELSE row

\* _authorize_conn
Authorized(r) ==
  row[r].state = "running" /\ row[r].current /\ ~row[r].late /\ ~Interrupted(r)

-----------------------------------------------------------------------------
(* Clients and the dashboard *)

\* submit_qualification up to its transaction: control is there, and the
\* request names the session, server and epoch that are.
SubmitCheck ==
  \E c \in Callers, r \in Requests :
    /\ calls[c] = NoCall /\ row[r].state = "none"
    /\ control.up
    /\ calls' = [calls EXCEPT ![c] = [r |-> r, epoch |-> control.lease]]
    /\ UNCHANGED <<receipts, writer, control, ag, game, pulses, history>>

\* The receipt names the epoch of the request and the lease of this moment.
NewRow(epoch) == [state |-> "queued", epoch |-> epoch, lease |-> control.lease,
                  current |-> TRUE, late |-> FALSE, count |-> 0]

\* Slip: the receipts in progress are counted before the transaction only.
AdmitUncounted ==
  \E c \in Callers :
    LET r == calls[c].r IN
    /\ calls[c] # NoCall /\ writer = "free"
    /\ row' = IF row[r].state # "none" THEN row
              ELSE [Bumped(row) EXCEPT ![r] = NewRow(calls[c].epoch)]
    /\ calls' = [calls EXCEPT ![c] = NoCall]
    /\ UNCHANGED <<step, writer, control, ag, game, pulses, history>>

\* _admit_conn: a known request is answered with its receipt, a second owner of
\* the player is refused, and message and receipt are saved together.
Admit ==
  \E c \in Callers :
    LET r == calls[c].r IN
    /\ calls[c] # NoCall /\ writer = "free"
    /\ row' = IF row[r].state # "none" \/ \E s \in Requests : Pending(s) THEN row
              ELSE [Bumped(row) EXCEPT ![r] = NewRow(calls[c].epoch)]
    /\ calls' = [calls EXCEPT ![c] = NoCall]
    /\ UNCHANGED <<step, writer, control, ag, game, pulses, history>>

Status ==
  \E r \in Requests :
    /\ writer = "free" /\ row' = Reconciled(r) /\ row' # row
    /\ UNCHANGED <<step, writer, control, calls, ag, game, pulses, history>>

\* Slip: a cancellation does not wait for the transaction around a toggle.
CancelUnserialized ==
  \E r \in Requests :
    /\ row' = Revoked(r, "cancelled") /\ row' # row
    /\ UNCHANGED <<step, writer, control, calls, ag, game, pulses, history>>

Cancel ==
  \E r \in Requests :
    /\ writer = "free" /\ row' = Revoked(r, "cancelled") /\ row' # row
    /\ UNCHANGED <<step, writer, control, calls, ag, game, pulses, history>>

-----------------------------------------------------------------------------
(* The agent: tick_inventory_direction *)

At(place) == ag.at = place
Goto(place) == ag' = [ag EXCEPT !.at = place]
Write == writer = "free" /\ UNCHANGED <<writer, control, calls, game, pulses, history>>

\* next_pending.  An atomic owner that is still running, or a scene that is not
\* known to be playable, makes a queued direction wait.
Poll ==
  /\ At("tick")
  /\ \E r \in Requests :
       /\ Pending(r)
       /\ \/ ag' = [ag EXCEPT !.at = "claim", !.r = r]
          \/ row[r].state = "queued" /\ ag' = [ag EXCEPT !.at = "wait", !.r = r]
  /\ UNCHANGED <<receipts, writer, control, calls, game, pulses, history>>

\* Slip: a direction that waits is left as it is.
WaitIdly ==
  /\ At("wait") /\ Write
  /\ ag' = Idle
  /\ UNCHANGED receipts

Wait ==
  /\ At("wait") /\ Write
  /\ row' = Reconciled(ag.r)
  /\ ag' = Idle
  /\ UNCHANGED step

\* claim: a direction found running has been interrupted at an unknown point.
Claim ==
  LET r == ag.r IN
  /\ At("claim") /\ Write
  /\ \/ /\ row[r].state = "queued" /\ row[r].current /\ ~row[r].late /\ ~Interrupted(r)
        /\ row' = [row EXCEPT ![r].state = "running"]
        /\ Goto("begin")
     \/ /\ row[r].state = "queued" /\ (~row[r].current \/ row[r].late \/ Interrupted(r))
        /\ row' = Revoked(r, "cancelled")
        /\ ag' = Idle
     \/ /\ row[r].state # "queued"
        /\ row' = Revoked(r, "unknown")
        /\ ag' = Idle
  /\ UNCHANGED step

\* The agent stops what runs, and needs its inputs released.
Begin ==
  /\ At("begin")
  /\ ag' \in {[ag EXCEPT !.at = "start", !.skill = "open"], [ag EXCEPT !.at = "abort"]}
  /\ UNCHANGED <<receipts, writer, control, calls, game, pulses, history>>

\* start_step
InOrder(r, skill) ==
  /\ step[r][skill].at = "none"
  /\ skill = "close" => step[r]["open"].at = "verified"

StartStep ==
  LET r == ag.r IN
  /\ At("start") /\ Write
  /\ IF Authorized(r) /\ InOrder(r, ag.skill)
     THEN step' = [step EXCEPT ![r][ag.skill].at = "started"] /\ Goto("active")
     ELSE UNCHANGED step /\ Goto("abort")
  /\ UNCHANGED row

\* A later tick: the receipt is checked, danger comes first, and the executor
\* waits, proposes a toggle or ends its run.
ActiveStatus ==
  /\ At("active") /\ Write
  /\ row' = Reconciled(ag.r)
  /\ \/ row'[ag.r].state = "running" /\ Goto("execute")
     \/ Goto("abort")
  /\ UNCHANGED step

Execute ==
  /\ At("execute")
  /\ \E place \in {"active", "authorize", "finish"}, ok \in BOOLEAN :
       ag' = [ag EXCEPT !.at = place, !.ok = ok]
  /\ UNCHANGED <<receipts, writer, control, calls, game, pulses, history>>

\* Slip: the step does not remember its toggle.
AuthorizeAgain ==
  LET r == ag.r IN
  /\ At("authorize") /\ writer = "free"
  /\ \/ /\ Authorized(r) /\ step[r][ag.skill].at # "none" /\ seen # NoPicture
        /\ writer' = "dispatch" /\ Goto("dispatch")
     \/ Goto("abort") /\ UNCHANGED writer
  /\ UNCHANGED <<receipts, control, calls, game, pulses, history>>

\* motor_authority up to its yield: one toggle per step, over a recent frame.
Authorize ==
  LET r == ag.r IN
  /\ At("authorize") /\ writer = "free"
  /\ \/ /\ Authorized(r) /\ step[r][ag.skill].at = "started" /\ seen # NoPicture
        /\ writer' = "dispatch" /\ Goto("dispatch")
     \/ Goto("abort") /\ UNCHANGED writer
  /\ UNCHANGED <<receipts, control, calls, game, pulses, history>>

\* The scene or the operator's budget refuses at the last moment.
NotDispatched ==
  /\ At("dispatch")
  /\ writer' = "free" /\ Goto("active")
  /\ UNCHANGED <<receipts, control, calls, game, pulses, history>>

\* motor-action: the supervisor refuses, or accepts and its answer may be lost.
Toggled == IF screen = "world" THEN "inventory" ELSE "world"

Dispatch ==
  /\ At("dispatch")
  /\ \/ /\ control.up /\ pulses < MaxPulses
        /\ pulses' = pulses + 1
        /\ pressed' = [pressed EXCEPT ![ag.r][ag.skill] = @ + 1]
        /\ screen' \in {screen, Toggled}
        /\ \E ok \in BOOLEAN : ag' = [ag EXCEPT !.at = "sent", !.ok = ok]
     \/ /\ ag' = [ag EXCEPT !.at = "sent", !.ok = FALSE]
        /\ UNCHANGED <<pulses, pressed, screen>>
  /\ UNCHANGED <<receipts, writer, control, calls, frames, taken, read, torn>>

\* Slip: an action without an answer counts as not sent.
RecordOptimistic ==
  LET r == ag.r IN
  /\ At("sent")
  /\ IF ag.ok
     THEN /\ row' = [row EXCEPT ![r].count = @ + 1]
          /\ step' = [step EXCEPT ![r][ag.skill] = [at |-> "pressed", when |-> pulses]]
          /\ Goto("active")
     ELSE /\ UNCHANGED receipts
          /\ ag' \in {[ag EXCEPT !.at = "abort"], [ag EXCEPT !.at = "active"], Down}
  /\ writer' = "free"
  /\ UNCHANGED <<control, calls, game, pulses, history>>

\* The transaction ends: the accepted toggle is recorded, or the outcome is
\* uncertain.  The error then ends the direction or the agent, or is taken for
\* the pause that it came from.
Record ==
  LET r == ag.r IN
  /\ At("sent")
  /\ IF ag.ok
     THEN /\ row' = [row EXCEPT ![r].count = @ + 1]
          /\ step' = [step EXCEPT ![r][ag.skill] = [at |-> "pressed", when |-> pulses]]
          /\ Goto("active")
     ELSE /\ row' = Revoked(r, "unknown")
          /\ UNCHANGED step
          /\ ag' \in {[ag EXCEPT !.at = "abort"], [ag EXCEPT !.at = "active"], Down}
  /\ writer' = "free"
  /\ UNCHANGED <<control, calls, game, pulses, history>>

\* Slip: any frame that shows the expected screen is evidence.
VerifiedByAnyFrame(r, skill) ==
  ag.ok /\ step[r][skill].at = "pressed" /\ seen.screen = Expected(skill)

\* The observation finish_step accepts: the run succeeded, and the last capture
\* shows the effect of the toggle and has a stamp from after it.  Its frame_id
\* says no more: what is stamped after the toggle is newer than what preceded it.
Verified(r, skill) ==
  /\ ag.ok /\ step[r][skill].at = "pressed"
  /\ seen.stamp >= step[r][skill].when /\ seen.screen = Expected(skill)

FinishStep ==
  LET r == ag.r IN
  /\ At("finish") /\ Write
  /\ \/ /\ ~Authorized(r) /\ Goto("abort") /\ UNCHANGED receipts
     \/ /\ Authorized(r) /\ ~Verified(r, ag.skill)
        /\ row' = Revoked(r, "failed") /\ ag' = Idle /\ UNCHANGED step
     \/ /\ Authorized(r) /\ Verified(r, ag.skill) /\ ag.skill = "open"
        /\ step' = [step EXCEPT ![r]["open"].at = "verified"]
        /\ ag' = [ag EXCEPT !.at = "start", !.skill = "close"]
        /\ UNCHANGED row
     \/ /\ Authorized(r) /\ Verified(r, ag.skill) /\ ag.skill = "close"
        /\ step' = [step EXCEPT ![r]["close"].at = "verified"]
        /\ row' = Revoked(r, IF step[r]["open"].at = "verified" THEN "succeeded" ELSE "failed")
        /\ ag' = Idle

\* gateway.cancel, and _release
Abort ==
  /\ At("abort") /\ Write
  /\ row' = Revoked(ag.r, "cancelled")
  /\ ag' = Idle
  /\ UNCHANGED step

\* SQLite rolls an open transaction back.
Dies ==
  /\ ~At("down")
  /\ ag' = Down /\ writer' = "free"
  /\ torn' = IF At("sent") THEN torn \cup {ag.r} ELSE torn
  /\ UNCHANGED <<receipts, control, calls, game, pulses, pressed, taken, read>>

\* A launch arms the supervisor first: a new lease.  The new process has captured
\* nothing.
Launch ==
  /\ At("down") /\ control.lease < MaxLeases
  /\ control' = [lease |-> control.lease + 1, up |-> TRUE]
  /\ ag' = Idle
  /\ under' = "none" /\ camera' = NoPicture /\ seen' = NoPicture
  /\ UNCHANGED <<receipts, writer, calls, screen, pulses, history>>

-----------------------------------------------------------------------------
(* The operator, time and the game *)

OperatorWrites ==
  /\ writer = "free" /\ row' = Bumped(row) /\ row' # row
  /\ UNCHANGED <<step, writer, control, calls, ag, game, pulses, history>>

\* A pause, an emergency, an expired lease, a dead supervisor.
ControlLost ==
  /\ control.up /\ control' = [control EXCEPT !.up = FALSE]
  /\ UNCHANGED <<receipts, writer, calls, ag, game, pulses, history>>

DeadlinePasses ==
  \E r \in Requests :
    /\ Pending(r) /\ ~row[r].late
    /\ row' = [row EXCEPT ![r].late = TRUE]
    /\ UNCHANGED <<step, writer, control, calls, ag, game, pulses, history>>

GameChanges ==
  /\ screen' \in Screens \ {screen}
  /\ UNCHANGED <<receipts, writer, control, calls, ag, frames, pulses, history>>

\* The steps whose effect is on a picture, once their toggle has gone out.
Showing(picture) ==
  [r \in Requests |-> {s \in Skills : pressed[r][s] > 0 /\ picture = Expected(s)}]
Noted(steps, picture) == [r \in Requests |-> steps[r] \cup Showing(picture)[r]]

Streams == control.lease \in Streaming

\* The head of a tick, where capture_once is called; nothing is sent meanwhile.
Looking == ag.at \in {"tick", "active"}

\* The image source takes a picture and stamps it before it returns it.
CaptureNow ==
  /\ Looking /\ ~Streams
  /\ seen' = [screen |-> screen, stamp |-> pulses] /\ seen' # seen
  /\ taken' = Noted(taken, screen)
  /\ UNCHANGED <<receipts, writer, control, calls, ag, screen, under, camera, pulses, pressed,
                 read, torn>>

\* A stream takes pictures on its own: one enters the pipe ...
Grab ==
  /\ ~At("down") /\ Streams /\ under = "none"
  /\ under' = screen
  /\ UNCHANGED <<receipts, writer, control, calls, ag, screen, camera, seen, pulses, history>>

\* ... is stamped when it has been read, and kept until a newer one has ...
ReadFrame ==
  /\ ~At("down") /\ Streams /\ under # "none"
  /\ camera' = [screen |-> under, stamp |-> pulses] /\ under' = "none"
  /\ read' = Noted(read, under)
  /\ UNCHANGED <<receipts, writer, control, calls, ag, screen, seen, pulses, pressed, taken, torn>>

\* ... and returned with the stamp it has.
CaptureNewest ==
  /\ Looking /\ Streams
  /\ seen # camera /\ seen' = camera
  /\ UNCHANGED <<receipts, writer, control, calls, ag, screen, under, camera, pulses, history>>

-----------------------------------------------------------------------------
Init ==
  /\ row = [r \in Requests |-> NoRow]
  /\ step = [r \in Requests |-> [s \in Skills |-> NoStep]]
  /\ writer = "free"
  /\ control = [lease |-> 1, up |-> TRUE]
  /\ calls = [c \in Callers |-> NoCall]
  /\ ag = Idle
  /\ screen = "world" /\ under = "none" /\ camera = NoPicture /\ seen = NoPicture
  /\ pulses = 0
  /\ pressed = [r \in Requests |-> [s \in Skills |-> 0]]
  /\ taken = [r \in Requests |-> {}] /\ read = taken
  /\ torn = {}

Agent ==
  \/ Poll \/ Wait \/ Claim \/ Begin \/ StartStep \/ ActiveStatus \/ Execute
  \/ Authorize \/ NotDispatched \/ Dispatch \/ Record \/ FinishStep \/ Abort
Clients == SubmitCheck \/ Admit \/ Status \/ Cancel
Camera == CaptureNow \/ Grab \/ ReadFrame \/ CaptureNewest
World == OperatorWrites \/ ControlLost \/ DeadlinePasses \/ GameChanges \/ Camera

Next == Agent \/ Clients \/ World \/ Dies \/ Launch
Spec == Init /\ [][Next]_vars

\* The tick runs on, and deadlines pass.
FairSpec == Spec /\ WF_vars(Agent) /\ WF_vars(DeadlinePasses)

-----------------------------------------------------------------------------
(* Properties *)

States == {"none", "queued", "running", "succeeded", "failed", "cancelled", "expired", "unknown"}

\* Types; and whoever holds the database is about to send or has just sent.
TypeOK ==
  /\ \A r \in Requests : row[r].state \in States /\ row[r].count \in Nat
  /\ \A r \in Requests, s \in Skills :
       step[r][s].at \in {"none", "started", "pressed", "verified"}
  /\ writer \in {"free", "dispatch"}
  /\ control.lease \in 1 .. MaxLeases /\ control.up \in BOOLEAN
  /\ ag.r \in Requests \cup {NoRequest}
  /\ writer = "dispatch" <=> ag.at \in {"dispatch", "sent"}

\* One direction at most owns the player, however many submissions race
\* (gateway.py:377-395).
OneOwner == \A r, s \in Requests : Pending(r) /\ Pending(s) => r = s

(***************************************************************************)
(* A step's toggle reaches the game at most once: a retry of the skill, a  *)
(* lost answer, a dead agent and its successor never send it again         *)
(* (gateway.py:569-571, 667-668; directions/runtime.py:72-75).             *)
(***************************************************************************)
ToggledOnce == \A r \in Requests, s \in Skills : pressed[r][s] <= 1

(***************************************************************************)
(* A direction that succeeded was carried out: both toggles reached the    *)
(* game, once, and the effect of each was on a picture from after it.      *)
(* What that means is up to the source of the agent that carried it out:   *)
(* a picture of the image source was taken after the toggle; one of a      *)
(* stream was read after it, and may have been taken before                *)
(* (gateway.py:752-781, ffmpeg_x11_capture.py:166-178).                    *)
(***************************************************************************)
SuccessIsEarned ==
  \A r \in Requests, s \in Skills : row[r].state = "succeeded" =>
    /\ pressed[r][s] = 1
    /\ s \in IF row[r].lease \in Streaming THEN read[r] ELSE taken[r]

\* The receipt of an ended direction counts the toggles that were accepted,
\* unless it says that it does not know or the agent died around a toggle
\* (gateway.py:534-538).
CountTrue ==
  \A r \in Requests \ torn :
     row[r].state \in {"succeeded", "failed", "cancelled", "expired"} =>
        row[r].count = pressed[r]["open"] + pressed[r]["close"]

(***************************************************************************)
(* Input goes out only for a direction that is running under the operator  *)
(* revision and the lease it was admitted under: nothing is sent after a   *)
(* cancellation has returned (gateway.py:534-542, 615-632).                *)
(***************************************************************************)
InputIsAuthorized ==
  [][\A r \in Requests : pressed'[r] # pressed[r] =>
        row[r].state = "running" /\ row[r].current /\ row[r].lease = control.lease]_vars

\* An outcome is final.
OutcomeIsFinal ==
  [][\A r \in Requests : row[r].state \notin {"none", "queued", "running"} =>
        row'[r].state = row[r].state]_vars

\* While an agent runs, every admitted direction comes to an end.
DirectionsEnd == \A r \in Requests : Pending(r) ~> ~Pending(r) \/ At("down")
=============================================================================

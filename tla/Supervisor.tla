----------------------------- MODULE Supervisor -----------------------------
(***************************************************************************)
(* The supervisor process (supervisor.py): the only owner of the MotorGate *)
(* and so of every key and button.  Its actors are                         *)
(*   - the main thread: the watchdog loop of serve_forever, and the signal *)
(*     handler, which runs in that same thread;                            *)
(*   - one thread per IPC command, all of them under the RLock _lock;      *)
(*   - the operator, who writes the pause and emergency files and kills    *)
(*     processes without asking the supervisor;                            *)
(*   - time, which makes a lease expire.                                   *)
(*                                                                         *)
(* At most one command is inside _lock and at most one transaction inside  *)
(* the operator intent lock.  So each lock and the program counter of its  *)
(* holder are one variable, section and txn, with the value "free" when    *)
(* nobody holds the lock.  A command that nothing can interleave with is   *)
(* one step; one that lets the clock, the watchdog's expiry check or the   *)
(* operator's files in halfway is split there.                             *)
(***************************************************************************)
EXTENDS MotorGate

CONSTANTS Actions,      \* the motor actions clients send
          Commands,     \* the IPC commands clients send
          MaxLeases,    \* how many leases a behaviour issues
          SignalInside  \* a signal may interrupt the main thread inside _lock

ASSUME SupervisorAssumption ==
    /\ Actions \subseteq MotorAction
    /\ MaxLeases \in Nat
    /\ MaxSeq >= 1
    /\ SignalInside \in BOOLEAN

VARIABLES
    state,      \* SupervisorState
    gate,       \* self.motor with its backend
    live,       \* the backend is the X11 one, not the fake one
    origin,     \* world_camera_origin_calibrated
    faultCode,  \* fault_code has been set in this generation
    stopSet,    \* the event _stop
    issued,     \* leases issued so far; their ids are 1 .. issued
    section,    \* who holds _lock, and where
    client,     \* the lease id the holder of _lock presented
    saved,      \* what type_chat remembers of the held tokens
    wd,         \* where the main thread is
    flagged,    \* the main thread has decided to change the state
    sig,        \* progress of the signal handler
    txn,        \* who holds the intent lock, and where
    pause,      \* the OPERATOR_PAUSE file exists
    emergency,  \* the EMERGENCY_STOP file exists
    agentFile,  \* the agent descriptor exists
    stuck       \* tokens a dead generation left pressed on the display

vars == <<state, gate, live, origin, faultCode, stopSet, issued, section, client,
          saved, wd, flagged, sig, txn, pause, emergency, agentFile, stuck>>

core   == <<state, gate>>
books  == <<live, origin, faultCode, stopSet>>
thread == <<section, client, saved>>
main   == <<wd, flagged, sig>>
files  == <<pause, emergency, agentFile>>
others == <<main, txn, files, stuck>>      \* what a command inside _lock leaves alone

States == {"STOPPED", "SAFE_IDLE", "ARMED", "RUNNING", "PAUSED", "FAILSAFE"}

(***************************************************************************)
(* _ALLOWED_TRANSITIONS.  STARTING and STOPPING are entered and left       *)
(* inside one critical section, so the states seen between steps are the   *)
(* six above and stopping is the edge to STOPPED.                          *)
(***************************************************************************)
Allowed(s) ==
    CASE s = "STOPPED"   -> {"SAFE_IDLE"}
      [] s = "SAFE_IDLE" -> {"ARMED", "PAUSED", "STOPPED", "FAILSAFE"}
      [] s = "ARMED"     -> {"RUNNING", "PAUSED", "STOPPED", "FAILSAFE"}
      [] s = "RUNNING"   -> {"PAUSED", "STOPPED", "FAILSAFE"}
      [] s = "PAUSED"    -> {"SAFE_IDLE", "STOPPED", "FAILSAFE"}
      [] s = "FAILSAFE"  -> {"STOPPED"}

CameraSections == {"cal-home", "cal-return", "cal-settle", "cal-fault",
                   "cal-publish", "probe", "probe-settle"}
ChatSections   == {"chat-sweep", "chat-typing", "chat-renew", "chat-fault"}
Sections       == {"free", "main", "motor"} \cup CameraSections \cup ChatSections
Transactions   == {"free", "pause", "pause-agent", "stop", "stop-agent", "stop-final"}
MainSteps      == {"top", "disarm", "expiry", "fail-expired", "fail-emergency",
                   "stop-emergency", "close", "exited", "dead"}

Up        == wd # "dead"
Permitted == ~emergency /\ ~pause          \* _actuation_permitted
LockFree  == section = "free" /\ Up
Serves(c) == LockFree /\ c \in Commands
KnownId   == 0 .. issued

\* What is physically pressed on the game's display.
Physical == IF live THEN gate.held ELSE stuck

-----------------------------------------------------------------------------
(***************************************************************************)
(* The methods that move the state and revoke.  Each is the set of results *)
(* [state, gate, out] the call can have; out is "raised" when the release, *)
(* the clearing of the lease or the status write after them raised.        *)
(***************************************************************************)
Revoking(s, g) ==
    UNION {{[state |-> s, gate |-> r.gate, out |-> o] : o \in {r.out, "raised"}}
             : r \in Revokes(g)}

Unchanged(out) == {[state |-> state, gate |-> gate, out |-> out]}

Raising(results) == {[r EXCEPT !.out = "raised"] : r \in results}

FailFrom(s, g) ==
    IF s = "STOPPED" THEN {[state |-> s, gate |-> g, out |-> "ok"]}
    ELSE Revoking(IF "FAILSAFE" \in Allowed(s) THEN "FAILSAFE" ELSE s, g)

DisarmFrom(s, g) ==
    Revoking(IF s \in {"ARMED", "RUNNING"} THEN "PAUSED" ELSE s, g)

\* Slip: pause moves the state and leaves the capability out.
PauseLeavesLease(s, g) ==
    {[state |-> IF s \in {"STOPPED", "FAILSAFE"} THEN s ELSE "PAUSED", gate |-> g, out |-> "ok"]}

\* Slip: pause moves to PAUSED from wherever it is.
PauseUnguarded(s, g) == Revoking("PAUSED", g)

\* pause() leaves a PAUSED or STOPPED supervisor alone and only revokes in FAILSAFE.
PauseFrom(s, g) ==
    IF s \in {"PAUSED", "STOPPED"} THEN {[state |-> s, gate |-> g, out |-> "ok"]}
    ELSE Revoking(IF s = "FAILSAFE" THEN s ELSE "PAUSED", g)

StopFrom(s, g) == Revoking("STOPPED", g)

Fail   == FailFrom(state, gate)
Disarm == DisarmFrom(state, gate)

(***************************************************************************)
(* The interlock every motor command goes through first: an emergency      *)
(* fails the supervisor, a pause disarms it.                               *)
(***************************************************************************)
Interlock ==
    IF emergency THEN Raising(Fail)
    ELSE IF pause THEN Raising(Disarm)
    ELSE Unchanged("ok")

\* revoke() then fail(): when the revocation itself raises, fail is not reached.
RevokeThenFail ==
    UNION {IF r.out = "raised" THEN {[state |-> state, gate |-> r.gate, out |-> "raised"]}
                               ELSE FailFrom(state, r.gate)
             : r \in Revokes(gate)}

\* _require_running_lease
RunningLease(id) ==
    IF ~Permitted THEN Interlock
    ELSE IF state # "RUNNING" THEN Unchanged("raised")
    ELSE IF ~Holds(gate, id) \/ gate.expired THEN Raising(RevokeThenFail)
    ELSE Unchanged("ok")

Leaves(r) == state' = r.state /\ gate' = r.gate

-----------------------------------------------------------------------------
(***************************************************************************)
(* Commands that are one step: all they do happens under _lock and nothing *)
(* that another actor does in between can be told from its doing it before *)
(* or after.                                                               *)
(***************************************************************************)
Quiet == UNCHANGED <<thread, main, txn>>

\* arm: refuses under a latch, revoking for a pause; otherwise a fresh lease.
Arm ==
    /\ Serves("arm")
    /\ ~emergency
    /\ \/ /\ pause
          /\ \E r \in Revokes(gate) : gate' = r.gate
          /\ UNCHANGED <<state, issued>>
       \/ /\ ~pause /\ state = "SAFE_IDLE" /\ issued < MaxLeases
          /\ issued' = issued + 1
          /\ \E r \in Issues(gate, issued + 1, Kinds, 0) :
                /\ gate' = r.gate
                /\ state' = IF r.out = "ok" THEN "ARMED" ELSE state
    /\ Quiet
    /\ UNCHANGED <<books, files, stuck>>

\* activate: an ARMED supervisor whose lease is gone faults instead of running.
Activate ==
    /\ Serves("activate")
    /\ \/ ~Permitted /\ \E r \in Interlock : Leaves(r)
       \/ /\ Permitted /\ state = "ARMED"
          /\ gate.lease = NoLease \/ gate.expired
          /\ \E r \in RevokeThenFail : Leaves(r)
       \/ /\ Permitted /\ state = "ARMED"
          /\ gate.lease # NoLease /\ ~gate.expired
          /\ state' = "RUNNING" /\ UNCHANGED gate
    /\ Quiet
    /\ UNCHANGED <<books, issued, files, stuck>>

Renew ==
    /\ Serves("renew")
    /\ \/ ~Permitted /\ \E r \in Interlock : Leaves(r)
       \/ /\ Permitted /\ state \in {"ARMED", "RUNNING"}
          /\ \E id \in KnownId : \E r \in Renews(gate, id) : gate' = r.gate
          /\ UNCHANGED state
    /\ Quiet
    /\ UNCHANGED <<books, issued, files, stuck>>

\* release-inputs: a confirmed release refreshes the lease.
ReleaseInputs ==
    /\ Serves("release")
    /\ \E id \in KnownId : \E r \in RunningLease(id) :
          IF r.out = "raised" THEN Leaves(r)
          ELSE /\ \E q \in Releases(gate, id, TRUE) : gate' = q.gate
               /\ UNCHANGED state
    /\ Quiet
    /\ UNCHANGED <<books, issued, files, stuck>>

DisarmCommand ==
    /\ Serves("disarm")
    /\ \E r \in Disarm : Leaves(r)
    /\ Quiet
    /\ UNCHANGED <<books, issued, files, stuck>>

FaultCommand ==
    /\ Serves("fault")
    /\ \E r \in Fail : Leaves(r)
    /\ Quiet
    /\ UNCHANGED <<books, issued, files, stuck>>

(***************************************************************************)
(* attach-bedrock-x11: replace_backend revokes, releases and closes the    *)
(* old backend, then puts a new gate over the new one.  What an earlier    *)
(* generation left pressed on the display is now what this backend holds.  *)
(***************************************************************************)
Attach ==
    /\ Serves("attach")
    /\ ~emergency
    /\ state = "SAFE_IDLE"
    /\ \E r \in Revokes(gate), released \in BOOLEAN, sameTarget \in {FALSE, live} :
          IF r.out = "raised" \/ ~released
          THEN /\ gate' = r.gate
               /\ UNCHANGED <<live, origin, stuck>>
          ELSE /\ gate' = [NewGate EXCEPT !.held = stuck, !.unconfirmed = stuck # {}]
               /\ live' = TRUE
               /\ stuck' = {}
               /\ origin' = (origin /\ sameTarget)
    /\ Quiet
    /\ UNCHANGED <<state, faultCode, stopSet, issued, files>>

-----------------------------------------------------------------------------
(***************************************************************************)
(* motor-action: the check of the lease, then the gate.  In between the    *)
(* lease can expire, the watchdog can revoke it, a latch can be written.   *)
(* A malformed action fails the supervisor; a gate that rejects only       *)
(* revokes; a lost input route sets the fault code and fails.              *)
(***************************************************************************)
MotorCheck ==
    /\ Serves("motor")
    /\ \E id \in KnownId : \E r \in RunningLease(id) :
          /\ Leaves(r)
          /\ IF r.out = "ok" THEN section' = "motor" /\ client' = id
                             ELSE UNCHANGED <<section, client>>
    /\ UNCHANGED <<books, issued, saved, others>>

\* Slip: the backend relies on the check the supervisor made.
InterlockUnread == TRUE

(***************************************************************************)
(* The interlock the backend reads before every positive input; the fake   *)
(* one has none.  The read and the event it guards are one step here: a    *)
(* latch written between the two stops the next event, and nothing the     *)
(* program does tells it from a latch written right after the event.       *)
(***************************************************************************)
InterlockRead == ~live \/ Permitted

MotorMalformed ==
    /\ section = "motor" /\ Up
    /\ \E r \in Fail : Leaves(r)
    /\ section' = "free" /\ client' = NoLease
    /\ UNCHANGED <<books, issued, saved, others>>

MotorApply ==
    /\ section = "motor" /\ Up
    /\ \E a \in Actions : \E r \in Applies(gate, client, a, TRUE, InterlockRead) :
          IF r.out = "route"
          THEN /\ \E q \in FailFrom(state, r.gate) : Leaves(q)
               /\ faultCode' = TRUE
          ELSE gate' = r.gate /\ UNCHANGED <<state, faultCode>>
    /\ section' = "free" /\ client' = NoLease
    /\ UNCHANGED <<live, origin, stopSet, issued, saved, others>>

-----------------------------------------------------------------------------
(***************************************************************************)
(* chat: the lease is renewed, type_chat remembers what is held, releases  *)
(* it, types, and presses it again if the interlock is still clear.  The   *)
(* gate's own lock is free while it types, so the watchdog can revoke.     *)
(***************************************************************************)
ChatStart ==
    /\ Serves("chat")
    /\ live
    /\ \E id \in KnownId : \E r \in RunningLease(id) :
          IF r.out = "raised"
          THEN Leaves(r) /\ UNCHANGED thread
          ELSE /\ \E q \in Renews(gate, id) :
                     /\ gate' = q.gate
                     /\ section' = IF q.out = "ok" THEN "chat-sweep" ELSE "chat-fault"
               /\ client' = id
               /\ saved' = gate.held
               /\ UNCHANGED state
    /\ UNCHANGED <<books, issued, others>>

\* The backend sweeps before it types; a lost binding or a failed sweep ends the chat.
ChatSweep ==
    /\ section = "chat-sweep" /\ Up
    /\ \/ /\ gate' = [gate EXCEPT !.held = {}, !.unconfirmed = FALSE]
          /\ section' = IF gate.bound = NoLease \/ gate.expired
                        THEN "chat-fault" ELSE "chat-typing"
       \/ /\ \E left \in SUBSET gate.held :
                gate' = [gate EXCEPT !.held = left, !.unconfirmed = TRUE]
          /\ section' = "chat-fault"
    /\ UNCHANGED <<state, books, issued, client, saved, others>>

(***************************************************************************)
(* The finally of type_chat, typed or not: the saved tokens are pressed    *)
(* again when the interlock and the isolation of the display still allow   *)
(* it, whatever became of the lease meanwhile.  A press that raises makes  *)
(* it sweep once more, and that sweep may raise too.                       *)
(***************************************************************************)
ChatRestore ==
    /\ section = "chat-typing" /\ Up
    /\ \/ /\ section' \in {"chat-renew", "chat-fault"}
          /\ \/ UNCHANGED gate
             \/ Permitted /\ gate' = [gate EXCEPT !.held = @ \cup saved]
       \/ /\ Permitted
          /\ section' = "chat-fault"
          /\ \/ gate' = [gate EXCEPT !.held = {}, !.unconfirmed = FALSE]
             \/ \E left \in SUBSET saved :
                   gate' = [gate EXCEPT !.held = @ \cup left, !.unconfirmed = TRUE]
    /\ saved' = {}
    /\ UNCHANGED <<state, books, issued, client, others>>

ChatRenew ==
    /\ section = "chat-renew" /\ Up
    /\ IF ~Permitted
       THEN section' = "chat-fault" /\ UNCHANGED gate
       ELSE \E r \in Renews(gate, client) :
               /\ gate' = r.gate
               /\ section' = IF r.out = "ok" THEN "free" ELSE "chat-fault"
    /\ client' = IF section' = "free" THEN NoLease ELSE client
    /\ UNCHANGED <<state, books, issued, saved, others>>

\* The except of send_chat.
ChatFault ==
    /\ section = "chat-fault" /\ Up
    /\ \E r \in IF pause /\ ~emergency THEN Disarm ELSE Fail : Leaves(r)
    /\ section' = "free" /\ client' = NoLease /\ saved' = {}
    /\ UNCHANGED <<books, issued, others>>

-----------------------------------------------------------------------------
(***************************************************************************)
(* calibrate-world-camera and probe-world-camera: camera motion under a    *)
(* one-use lease that admits the mouse only, from SAFE_IDLE.  The number   *)
(* of chunks a phase is cut into is data; here each phase is one move.     *)
(* Between the moves the command sleeps inside _lock.                      *)
(***************************************************************************)
MouseMove(n) == [seq |-> n, down |-> {}, up |-> {}, mouse |-> TRUE, long |-> FALSE]

CameraStart(command, first) ==
    /\ Serves(command)
    /\ state = "SAFE_IDLE" /\ live /\ Permitted
    /\ issued < MaxLeases
    /\ origin' = FALSE
    /\ \/ UNCHANGED <<gate, issued, section, client>>      \* the status write raised
       \/ /\ issued' = issued + 1
          /\ \E r \in Issues(gate, issued + 1, {"mouse"}, 0) :
                /\ gate' = r.gate
                /\ IF r.out = "ok" THEN section' = first /\ client' = issued + 1
                   ELSE /\ section' = IF command = "calibrate" THEN "cal-fault" ELSE "free"
                        /\ client' = NoLease
    /\ UNCHANGED <<state, live, faultCode, stopSet, saved, others>>

CalibrateStart == CameraStart("calibrate", "cal-home")
ProbeStart     == CameraStart("probe", "probe")

\* One move: home, then return, or the only move of a probe.
CameraMove ==
    /\ section \in {"cal-home", "cal-return", "probe"} /\ Up
    /\ \/ /\ ~Permitted /\ section # "probe"
          /\ section' = "cal-fault"
          /\ UNCHANGED <<gate, faultCode>>
       \/ /\ Permitted \/ section = "probe"
          /\ \E r \in Applies(gate, client, MouseMove(gate.last + 1), FALSE, Permitted) :
                /\ gate' = r.gate
                /\ faultCode' = (faultCode \/ r.out = "route")
                /\ section' =
                      IF r.out # "ok" THEN "cal-fault"
                      ELSE CASE section = "cal-home"   -> "cal-return"
                             [] section = "cal-return" -> "cal-settle"
                             [] section = "probe"      -> "probe-settle"
    /\ UNCHANGED <<state, live, origin, stopSet, issued, client, saved, others>>

\* A long calibration renews its lease on the way.
CalibrateRenew ==
    /\ section \in {"cal-return", "cal-settle"} /\ Up
    /\ \E r \in Renews(gate, client) :
          /\ gate' = r.gate
          /\ section' = IF r.out = "ok" THEN section ELSE "cal-fault"
    /\ UNCHANGED <<state, books, issued, client, saved, others>>

\* The last check inside the try, and then its finally.
CameraSettle ==
    /\ section \in {"cal-settle", "probe-settle"} /\ Up
    /\ \/ ~Permitted /\ section' = "cal-fault" /\ UNCHANGED gate
       \/ /\ Permitted \/ section = "cal-settle"
          /\ \E r \in Revoking(state, gate) :
                /\ gate' = r.gate
                /\ section' = IF r.out = "ok" /\ section = "cal-settle"
                              THEN "cal-publish" ELSE "free"
    /\ client' = IF section' = "free" THEN NoLease ELSE client
    /\ UNCHANGED <<state, books, issued, saved, others>>

\* The except, which only revokes for a pause, and the finally, which revokes again.
CameraFault ==
    /\ section = "cal-fault" /\ Up
    /\ \E r \in IF pause /\ ~emergency THEN Revoking(state, gate) ELSE Fail :
          \E q \in Revokes(r.gate) : state' = r.state /\ gate' = q.gate
    /\ section' = "free" /\ client' = NoLease
    /\ UNCHANGED <<books, issued, saved, others>>

\* Slip: the success of the moves is taken for permission to publish.
CalibratePublishUnchecked ==
    /\ section = "cal-publish" /\ Up
    /\ origin' = TRUE
    /\ section' = "free" /\ client' = NoLease
    /\ UNCHANGED <<core, live, faultCode, stopSet, issued, saved, others>>

\* The origin is published only if nothing was latched up to now.
CalibratePublish ==
    /\ section = "cal-publish" /\ Up
    /\ \/ Permitted /\ origin' = TRUE /\ UNCHANGED core
       \/ emergency /\ (\E r \in Fail : Leaves(r)) /\ UNCHANGED origin
       \/ /\ pause /\ ~emergency
          /\ \E r \in Revokes(gate) : gate' = r.gate
          /\ UNCHANGED <<state, origin>>
    /\ section' = "free" /\ client' = NoLease
    /\ UNCHANGED <<live, faultCode, stopSet, issued, saved, others>>

-----------------------------------------------------------------------------
(***************************************************************************)
(* Operator transactions, each inside the intent lock from its first step  *)
(* to its last: pause and stop latch the pause file (which may fail: then  *)
(* the transaction goes on without it), pause the supervisor, stop the     *)
(* agent without holding _lock, and stop then retires the supervisor.  A   *)
(* revocation that raises abandons the rest.                               *)
(***************************************************************************)
Begin(command) ==
    /\ Up /\ txn = "free" /\ command \in Commands
    /\ txn' = command
    /\ UNCHANGED <<core, books, issued, thread, main,
                   emergency, agentFile, stuck>>

PauseBegin == Begin("pause") /\ pause' \in {pause, TRUE}

\* persistent_intent may be false: then stop latches nothing.
StopBegin == Begin("stop") /\ pause' \in {pause, TRUE}

TxnPause ==
    /\ txn \in {"pause", "stop"} /\ LockFree
    /\ \E r \in PauseFrom(state, gate) :
          /\ Leaves(r)
          /\ txn' = IF r.out = "raised" THEN "free"
                    ELSE IF txn = "pause" THEN "pause-agent" ELSE "stop-agent"
    /\ UNCHANGED <<books, issued, thread, main, files, stuck>>

\* stop_agent_process: bounded, so the agent may survive it.
TxnStopAgent ==
    /\ txn \in {"pause-agent", "stop-agent"} /\ Up
    /\ agentFile' \in {agentFile, FALSE}
    /\ txn' = IF txn = "pause-agent" THEN "free" ELSE "stop-final"
    /\ UNCHANGED <<core, books, issued, thread, main,
                   pause, emergency, stuck>>

\* Slip: the supervisor is retired only once the agent is gone.
TxnStopWaits ==
    /\ txn = "stop-final" /\ LockFree /\ ~agentFile
    /\ \E r \in StopFrom(state, gate) : Leaves(r)
    /\ stopSet' = TRUE
    /\ txn' = "free"
    /\ UNCHANGED <<live, origin, faultCode, issued, thread, main, files, stuck>>

TxnStop ==
    /\ txn = "stop-final" /\ LockFree
    /\ \E r \in StopFrom(state, gate) : Leaves(r)
    /\ stopSet' = TRUE
    /\ txn' = "free"
    /\ UNCHANGED <<live, origin, faultCode, issued, thread, main, files, stuck>>

(***************************************************************************)
(* resume, under both locks: PAUSED becomes SAFE_IDLE, a faulted           *)
(* generation retires, and then the pause file goes - unless its audit     *)
(* record could not be written.                                            *)
(***************************************************************************)
Resume ==
    /\ Serves("resume") /\ txn = "free"
    /\ ~emergency
    /\ \/ /\ state \in {"SAFE_IDLE", "PAUSED"}
          /\ state' = "SAFE_IDLE"
          /\ pause' \in {pause, FALSE}
          /\ UNCHANGED <<gate, stopSet>>
       \/ /\ state = "FAILSAFE"
          /\ stopSet' = TRUE
          /\ \E r \in StopFrom(state, gate) :
                /\ Leaves(r)
                /\ pause' \in IF r.out = "ok" THEN {pause, FALSE} ELSE {pause}
    /\ Quiet
    /\ UNCHANGED <<live, origin, faultCode, issued, emergency, agentFile, stuck>>

\* resume-for-agent-reload: never clears the operator's intent.
ResumeForAgentReload ==
    /\ Serves("reload") /\ txn = "free"
    /\ state = "PAUSED"
    /\ gate.lease = NoLease
    /\ ~agentFile
    /\ Permitted
    /\ state' = "SAFE_IDLE"
    /\ Quiet
    /\ UNCHANGED <<gate, books, issued, files, stuck>>

-----------------------------------------------------------------------------
(***************************************************************************)
(* The main thread: one turn of the watchdog loop reads the files and the  *)
(* lease without _lock, then takes it for what it decided.  An exception   *)
(* leaves the loop through _close_owned_runtime.                           *)
(***************************************************************************)
InLoop == wd \notin {"close", "exited", "dead"} /\ sig \in {"none", "raised"}

\* Slip: the loop does not look at the pause marker.
VerdictNoPause ==
    CASE stopSet                -> "close"
      [] ~stopSet /\ emergency  -> "fail-emergency"
      [] OTHER                  -> "expiry"

Verdict ==
    IF stopSet THEN "close"
    ELSE IF emergency THEN "fail-emergency"
    ELSE IF pause /\ (state # "PAUSED" \/ gate.lease # NoLease) THEN "disarm"
    ELSE "expiry"

WatchdogTop ==
    /\ wd = "top" /\ InLoop /\ section # "main"
    /\ wd' = Verdict
    /\ UNCHANGED <<core, books, issued, thread, flagged, sig,
                   txn, files, stuck>>

\* check_expiry takes the gate's lock only, so it does not wait for a command.
WatchdogExpiry ==
    /\ wd = "expiry" /\ InLoop
    /\ IF ExpiryDue(gate)
       THEN \E r \in Revokes(gate) :
               /\ gate' = r.gate
               /\ wd' = IF r.out = "ok" THEN "fail-expired" ELSE "close"
       ELSE wd' = "top" /\ UNCHANGED gate
    /\ UNCHANGED <<state, books, issued, thread, flagged, sig,
                   txn, files, stuck>>

AfterFail == IF wd = "fail-expired" THEN "top" ELSE "stop-emergency"

\* disarm and fail take _lock and decide from the state they see ...
WatchdogDecide ==
    /\ wd \in {"disarm", "fail-expired", "fail-emergency"} /\ InLoop
    /\ section = "free"
    /\ IF wd # "disarm" /\ state = "STOPPED"         \* fail returns at once
       THEN /\ wd' = AfterFail
            /\ UNCHANGED <<section, flagged>>
       ELSE /\ section' = "main"
            /\ flagged' = IF wd = "disarm" THEN state \in {"ARMED", "RUNNING"}
                          ELSE state # "FAILSAFE" /\ "FAILSAFE" \in Allowed(state)
            /\ UNCHANGED wd
    /\ UNCHANGED <<core, books, issued, client, saved, sig,
                   txn, files, stuck>>

\* ... assign it, revoke and let go; an emergency goes on to stop.
WatchdogAct ==
    /\ wd \in {"disarm", "fail-expired", "fail-emergency"} /\ InLoop
    /\ section = "main"
    /\ \E r \in Revoking(IF ~flagged THEN state
                          ELSE IF wd = "disarm" THEN "PAUSED" ELSE "FAILSAFE", gate) :
          /\ Leaves(r)
          /\ wd' = IF r.out = "raised" THEN "close"
                   ELSE IF wd = "disarm" THEN "expiry" ELSE AfterFail
    /\ section' = "free" /\ flagged' = FALSE
    /\ UNCHANGED <<books, issued, client, saved, sig, txn, files,
                   stuck>>

WatchdogStop ==
    /\ wd = "stop-emergency" /\ InLoop /\ section = "free"
    /\ \E r \in StopFrom(state, gate) : Leaves(r)
    /\ stopSet' = TRUE
    /\ wd' = "close"
    /\ UNCHANGED <<live, origin, faultCode, issued, thread, flagged, sig, txn, files, stuck>>

\* _close_owned_runtime: every cleanup is attempted, and the X11 backend sweeps again.
Close ==
    /\ wd = "close" /\ section = "free"
    /\ state' = "STOPPED" /\ stopSet' = TRUE
    /\ \E r \in Revokes(gate) :
          IF live THEN \E q \in Revokes(r.gate) : gate' = q.gate ELSE gate' = r.gate
    /\ wd' = "exited"
    /\ UNCHANGED <<live, origin, faultCode, issued, thread, flagged, sig, txn, files, stuck>>

(***************************************************************************)
(* SIGINT and SIGTERM: fail, then stop, in the main thread.  _lock is      *)
(* reentrant, so the handler can also run while the main thread is inside  *)
(* its own critical section, between the decision and the assignment.      *)
(***************************************************************************)
HandlerMayRun ==
    /\ wd \notin {"close", "exited", "dead"}
    /\ section \in IF SignalInside THEN {"free", "main"} ELSE {"free"}

Signal ==
    /\ Up /\ sig = "none"
    /\ sig' = "raised"
    /\ UNCHANGED <<core, books, issued, thread, wd, flagged,
                   txn, files, stuck>>

\* An exception of the handler surfaces in the loop and ends it.
HandlerFails(r, next) ==
    IF r.out = "raised"
    THEN /\ wd' = "close" /\ sig' = "none" /\ flagged' = FALSE
         /\ section' = "free"
    ELSE sig' = next /\ UNCHANGED <<wd, flagged, section>>

HandlerFail ==
    /\ sig = "raised" /\ HandlerMayRun
    /\ \E r \in Fail : Leaves(r) /\ HandlerFails(r, "stop")
    /\ UNCHANGED <<books, issued, client, saved, txn, files, stuck>>

HandlerStop ==
    /\ sig = "stop" /\ HandlerMayRun
    /\ \E r \in StopFrom(state, gate) : Leaves(r) /\ HandlerFails(r, "none")
    /\ stopSet' = TRUE
    /\ UNCHANGED <<live, origin, faultCode, issued, client, saved, txn, files, stuck>>

-----------------------------------------------------------------------------
(***************************************************************************)
(* The lifecycle of the process and the world around it.  A generation     *)
(* starts on the fake backend, PAUSED under a pause latch, and refuses to  *)
(* start under an emergency.  The process can be killed at any point; its  *)
(* threads and the lock files die with it, the X server keeps what it was  *)
(* told to press.                                                          *)
(***************************************************************************)
Start ==
    /\ wd = "dead" /\ ~emergency
    /\ state' = IF pause THEN "PAUSED" ELSE "SAFE_IDLE"
    /\ gate' = IF pause THEN [NewGate EXCEPT !.reason = "revoked"] ELSE NewGate
    /\ stopSet' = FALSE /\ faultCode' = FALSE
    /\ wd' = "top"
    /\ UNCHANGED <<live, origin, issued, thread, flagged, sig, txn, files, stuck>>

Dies ==
    /\ wd' = "dead" /\ flagged' = FALSE /\ sig' = "none"
    /\ state' = "STOPPED" /\ gate' = NewGate
    /\ stuck' = Physical
    /\ live' = FALSE /\ origin' = FALSE
    /\ section' = "free" /\ client' = NoLease /\ saved' = {}
    /\ txn' = "free"
    /\ UNCHANGED <<faultCode, stopSet, issued, files>>

Exit == wd = "exited" /\ Dies
Kill == wd \notin {"exited", "dead"} /\ Dies

Expire ==
    /\ gate.lease # NoLease /\ ~gate.expired
    /\ gate' = [gate EXCEPT !.expired = TRUE]
    /\ UNCHANGED <<state, books, issued, thread, others>>

Outside ==
    UNCHANGED <<core, books, issued, thread, main, txn, stuck>>

\* The CLI and the operator server write the files themselves; emergency-stop
\* takes no lock at all.
LatchPause     == ~pause /\ pause' = TRUE /\ UNCHANGED <<emergency, agentFile>> /\ Outside
LatchEmergency == ~emergency /\ emergency' = TRUE /\ UNCHANGED <<pause, agentFile>> /\ Outside

\* Without a live supervisor resume clears the pause by itself, and
\* reset-emergency-stop, which first latches the pause, clears the emergency.
ClearPause ==
    /\ ~Up /\ pause /\ pause' = FALSE
    /\ UNCHANGED <<emergency, agentFile>> /\ Outside

ResetEmergency ==
    /\ ~Up /\ emergency /\ ~agentFile
    /\ pause' = TRUE /\ emergency' = FALSE
    /\ UNCHANGED agentFile /\ Outside

\* The launch transaction publishes the descriptor under the intent lock.
AgentStarts ==
    /\ txn = "free" /\ ~agentFile /\ agentFile' = TRUE
    /\ UNCHANGED <<pause, emergency>> /\ Outside

AgentEnds ==
    /\ agentFile /\ agentFile' = FALSE
    /\ UNCHANGED <<pause, emergency>> /\ Outside

-----------------------------------------------------------------------------
Init ==
    /\ state = "STOPPED" /\ gate = NewGate /\ live = FALSE
    /\ origin = FALSE /\ faultCode = FALSE /\ stopSet = FALSE
    /\ issued = 0
    /\ section = "free" /\ client = NoLease /\ saved = {}
    /\ wd = "dead" /\ flagged = FALSE /\ sig = "none"
    /\ txn = "free"
    /\ pause \in BOOLEAN /\ emergency = FALSE /\ agentFile = FALSE
    /\ stuck = {}

Command ==
    \/ Arm \/ Activate \/ Renew \/ ReleaseInputs \/ DisarmCommand \/ FaultCommand \/ Attach
    \/ MotorCheck \/ ChatStart \/ CalibrateStart \/ ProbeStart
    \/ PauseBegin \/ StopBegin \/ Resume \/ ResumeForAgentReload

\* A command thread that is inside _lock, or inside a transaction, goes on.
InSection ==
    \/ MotorMalformed \/ MotorApply
    \/ ChatSweep \/ ChatRestore \/ ChatRenew \/ ChatFault
    \/ CameraMove \/ CameraSettle \/ CameraFault \/ CalibratePublish

InTransaction == TxnPause \/ TxnStopAgent \/ TxnStop

MainLoop ==
    \/ WatchdogTop \/ WatchdogExpiry \/ WatchdogDecide \/ WatchdogAct \/ WatchdogStop
    \/ Close \/ Exit

Handler == HandlerFail \/ HandlerStop

Environment ==
    \/ Start \/ Kill \/ Expire \/ Signal \/ LatchPause \/ LatchEmergency
    \/ ClearPause \/ ResetEmergency \/ AgentStarts \/ AgentEnds

Next == Command \/ InSection \/ CalibrateRenew \/ InTransaction
        \/ MainLoop \/ Handler \/ Environment

Spec == Init /\ [][Next]_vars

(***************************************************************************)
(* Threads inside a critical section run on.  The main thread waits for    *)
(* _lock on a semaphore and is woken when it is released, so it is not     *)
(* passed over for ever: strong fairness.                                  *)
(***************************************************************************)
Fairness ==
    /\ WF_vars(InSection)
    /\ SF_vars(InTransaction)
    /\ SF_vars(MainLoop)
    /\ SF_vars(Handler)

FairSpec == Spec /\ Fairness

-----------------------------------------------------------------------------
TypeOK ==
    /\ state \in States /\ gate \in GateState
    /\ live \in BOOLEAN /\ origin \in BOOLEAN /\ faultCode \in BOOLEAN /\ stopSet \in BOOLEAN
    /\ issued \in 0 .. MaxLeases
    /\ section \in Sections /\ client \in 0 .. MaxLeases /\ saved \subseteq Tokens
    /\ wd \in MainSteps /\ flagged \in BOOLEAN /\ sig \in {"none", "raised", "stop"}
    /\ txn \in Transactions
    /\ pause \in BOOLEAN /\ emergency \in BOOLEAN /\ agentFile \in BOOLEAN
    /\ stuck \subseteq Tokens

(***************************************************************************)
(* A capability exists only while the supervisor is ARMED or RUNNING, or   *)
(* while a camera command owns _lock in SAFE_IDLE.                         *)
(***************************************************************************)
LeaseState ==
    /\ TypeOK
    /\ gate.lease # NoLease =>
          \/ state \in {"ARMED", "RUNNING"}
          \/ state = "SAFE_IDLE" /\ section \in CameraSections

\* A cleanup that raised cannot leave the supervisor RUNNING.
FailedCleanupNotRunning ==
    gate.unconfirmed /\ section = "free" => state # "RUNNING"

\* The camera origin is never published after a latch, nor while the one-use
\* lease of the calibration could still move the view.
OriginPublishedInTheClear ==
    [][origin' /\ ~origin => Permitted /\ gate.lease = NoLease]_vars

\* _ALLOWED_TRANSITIONS: a STOPPED supervisor only starts again, in a new generation.
StoppedIsForGood ==
    [][state = "STOPPED" => state' = "STOPPED" \/ wd = "dead"]_vars

(***************************************************************************)
(* What must happen in the end.  An emergency ends the process; a pause    *)
(* and a missed heartbeat end the capability; input nobody holds a         *)
(* capability for does not stay pressed; no operator transaction waits for *)
(* ever on the agent, the watchdog or another command.                     *)
(***************************************************************************)
EmergencyEndsProcess == emergency /\ Up ~> ~Up
PauseEndsLease       == pause /\ gate.lease # NoLease ~> ~pause \/ gate.lease = NoLease
SilenceEndsLease     == gate.expired ~> ~gate.expired
AuthorityEnds        == EmergencyEndsProcess /\ PauseEndsLease /\ SilenceEndsLease

Orphaned        == gate.held # {} /\ gate.lease = NoLease /\ ~gate.unconfirmed
OrphansReleased == Orphaned ~> ~Orphaned

TransactionsEnd == txn # "free" ~> txn = "free"

(***************************************************************************)
(* What all this is for, InputAuthority: only a live backend gives         *)
(* authority over the game, and a chat keeps it to its end, because it     *)
(* presses again whatever became of the lease.                             *)
(***************************************************************************)
Phase ==
    CASE ~Up                                   -> "off"
      [] Up /\ state = "STOPPED"               -> "stopped"
      [] Up /\ state = "FAILSAFE"              -> "faulted"
      [] Up /\ state \notin {"STOPPED", "FAILSAFE"} -> "serving"

Promise == INSTANCE InputAuthority WITH
    Inputs     <- Tokens,
    Reentrant  <- SignalInside,
    permission <- Permitted,
    phase      <- Phase,
    authority  <- live /\ (gate.lease # NoLease \/ section \in ChatSections),
    pressed    <- Physical,
    confirmed  <- IF live THEN ~gate.unconfirmed ELSE stuck = {}

\* The supervisor implements the promise made to its operator.
KeepsPromise == Promise!Spec

=============================================================================

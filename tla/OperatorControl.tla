--------------------------- MODULE OperatorControl ---------------------------
(***************************************************************************)
(* The operator's control plane: the commands of cli.py and of the API     *)
(* (pause, resume, stop, emergency-stop, reset, run --live, bedrock launch *)
(* and stop, human takeover), the agent upgrade, and the persistent        *)
(* service that runs start.sh.  They are separate processes that share two *)
(* marker files, two file locks, the agent's descriptor, the Bedrock       *)
(* session and the supervisor.                                             *)
(*                                                                         *)
(* A command is a script: the sequence of the calls it makes, in order.    *)
(* Each call is an action, and what an exception leaves to be done         *)
(* replaces the rest of the script.  A supervisor in STOPPED is on its way *)
(* out and every command waits for it to be gone: it counts as absent.     *)
(***************************************************************************)
EXTENDS Naturals, Sequences, FiniteSets

CONSTANTS Clients,    \* processes that run operator commands
          Loop,       \* the persistent service, start.sh
          Nobody,     \* the owner of a free lock
          Commands,   \* the commands clients run
          MaxBegun,   \* how many commands clients run in a behaviour
          MaxLeases,  \* how many leases are issued
          MaxFaults   \* how many things go wrong that need not

ASSUME ControlAssumption ==
    /\ Loop \notin Clients /\ Nobody \notin Clients \cup {Loop}
    /\ Commands \subseteq {"pause", "stop", "takeover", "bed-stop", "bed", "resume", "emergency",
                        "reset", "run", "upgrade"}
    /\ MaxBegun \in Nat /\ MaxLeases \in Nat \ {0} /\ MaxFaults \in Nat

VARIABLES
    op,         \* what each process is doing
    intent,     \* who holds operator-intent.lock
    lifecycle,  \* who holds the Bedrock lifecycle lock
    pause,      \* the OPERATOR_PAUSE marker exists
    emergency,  \* the EMERGENCY_STOP marker exists
    sup,        \* the supervisor: where its state machine is, and its lease
    late,       \* a disarm whose sender has given up is still on its way
    issued,     \* leases issued so far; their ids are 1 .. issued
    agents,     \* the live agents, by the lease they were launched with
    record,     \* the lease of the agent the descriptor names, 0 without one
    lost,       \* leases whose launcher died before it recorded an agent for them
    session,    \* a managed Bedrock session exists
    service,    \* the persistent service: none installed, off, on, halting
    stage,      \* how far start.sh is
    begun,      \* commands begun
    faults,     \* faults so far
    promised,   \* what completed commands reported and no resume has lifted
    owed,       \* what the operator must run after an emergency stop
    engaged     \* the emergency stops under way whose markers nobody has lifted since

locks     == <<intent, lifecycle>>
markers   == <<pause, emergency>>
authority == <<sup, late, issued>>
players   == <<agents, record, lost>>
platform  == <<session, service, stage>>
bounds    == <<begun, faults>>
history   == <<promised, owed, engaged>>
vars == <<op, locks, markers, authority, players, platform, bounds, history>>

Procs   == Clients \cup {Loop}
NoLease == 0
Absent  == [at |-> "absent", lease |-> NoLease]
Alive   == sup.at # "absent"
Latched == pause \/ emergency

-----------------------------------------------------------------------------
(***************************************************************************)
(* The commands.  The IPC forms of pause, stop and resume run inside the   *)
(* supervisor, which takes the lock for them; the local forms are what the *)
(* CLI and the API fall back to.  They differ in the step that revokes.    *)
(***************************************************************************)
Pause    == <<"lock", "latch", "revoke", "contain", "confirm">>
Stop     == <<"lock", "latch", "revoke", "contain", "retire", "confirm">>
Takeover == <<"lock", "latch", "disarm", "contain", "confirm">>
BedStop  == <<"lock", "latch", "disarm", "contain", "reap", "close", "confirm">>
\* Slip: the operator lock is given back before the lifecycle lock is held.
BedStartGap == <<"lock", "permitted", "unlock", "claim", "open", "finish">>

BedStart == <<"lock", "permitted", "claim", "unlock", "open", "finish">>
ResumeInside == <<"lock", "reopen", "finish">>
ResumeLocal  == <<"lock", "alone", "serve", "clear", "finish">>
\* Slip: the emergency stop leaves the supervisor to its own watchdog.
EmergencyTrusts == <<"latch", "engage", "contain", "halt", "contain", "warned">>

Emergency == <<"latch", "engage", "terminate", "contain", "halt", "terminate", "contain", "warned">>
Reset     == <<"inspect", "latch", "disengage", "finish">>
Launch    == <<"arm", "activate", "recheck", "spawn", "record">>
Run       == <<"ready", "lock", "admit">> \o Launch \o <<"finish">>
Admission == <<"reload", "lock", "reserve">> \o Launch \o <<"unlock", "watch", "finish">>
Upgrade   == <<"claim", "qualify", "lock", "withdraw", "unlock", "drain">> \o Admission
Cleanup   == <<"examine", "lock", "disown", "unlock", "reclaim">>

\* stop --transient and bedrock stop --transient, which start.sh and its unit call.
Tidy    == <<"lock", "revoke", "contain", "retire", "confirm">>
Replace == <<"disarm", "contain", "reap", "close", "finish">>
Leave   == <<"lock", "revoke", "contain", "retire", "unlock", "disarm", "contain", "reap", "close", "exit">>

Script(c) ==
    CASE c = "pause"     -> Pause
      [] c = "stop"      -> Stop
      [] c = "takeover"  -> Takeover
      [] c = "bed-stop"  -> BedStop
      [] c = "bed"       -> BedStart
      [] c = "resume"    -> IF Alive THEN ResumeInside ELSE ResumeLocal
      [] c = "emergency" -> Emergency
      [] c = "reset"     -> Reset
      [] c = "run"       -> Run
      [] c = "upgrade"   -> Upgrade
      [] c = "tidy"      -> Tidy
      [] c = "replace"   -> Replace
      [] c = "leave"     -> Leave

Idle == [cmd |-> "none", todo |-> <<>>, inside |-> FALSE, torn |-> FALSE,
         lease |-> NoLease, old |-> NoLease, part |-> 0, admitted |-> FALSE, child |-> FALSE]

Begins(p, c) ==
    op' = [op EXCEPT ![p] = [Idle EXCEPT !.cmd = c, !.todo = Script(c),
              !.inside = c \in {"pause", "stop", "tidy", "leave", "resume"} /\ Alive]]

At(p, step) == op[p].todo # <<>> /\ Head(op[p].todo) = step

Goes(p)      == op' = [op EXCEPT ![p].todo = Tail(@)]
GoesWith(p, o) == op' = [op EXCEPT ![p] = [o EXCEPT !.todo = Tail(@)]]

Fault   == faults < MaxFaults /\ faults' = faults + 1
NoFault == faults' = faults

Freed(lock, p) == IF lock = p THEN Nobody ELSE lock
Ends(p) ==
    /\ op' = [op EXCEPT ![p] = Idle]
    /\ intent' = Freed(intent, p) /\ lifecycle' = Freed(lifecycle, p)

(***************************************************************************)
(* What an exception leaves to be done.  A launch disarms what it armed    *)
(* while it still has the lock.  An upgrade that has revoked the old agent *)
(* contains it unless it has tried to (part 1), cleans up what its first   *)
(* attempt admitted and rolls back (part 2), cleans up the rollback (part  *)
(* 3), and never cleans up twice (part 4).                                 *)
(***************************************************************************)
CleanupOf(o) == IF o.admitted THEN Cleanup ELSE <<>>

AfterUpgradeError(o) ==
    CASE o.part = 0 -> <<"abort">>
      [] o.part = 1 -> (IF Head(o.todo) = "drain" THEN <<>> ELSE <<"drain">>) \o <<"abort">>
      [] o.part = 2 -> CleanupOf(o) \o <<"roll-back">> \o Admission
      [] o.part = 3 -> CleanupOf(o) \o <<"abort">>
      [] o.part = 4 -> (IF o.child /\ Head(o.todo) \in {"lock", "disown"} THEN <<"reclaim">> ELSE <<>>)
                          \o <<"abort">>

Recovered(o) ==
    IF o.cmd = "upgrade" THEN [o EXCEPT !.todo = AfterUpgradeError(o), !.part = IF @ = 0 THEN 0 ELSE 4]
    ELSE [o EXCEPT !.todo =
            CASE o.lease # NoLease -> <<"disarm", "abort">>
              [] o.cmd = "leave" -> IF Len(o.todo) > 6 THEN SubSeq(Leave, 5, 10) ELSE <<"exit">>
              [] OTHER -> <<"abort">>]

Raises(p) ==
    /\ op' = [op EXCEPT ![p] = Recovered(@)]
    /\ intent' = IF op[p].cmd = "run" /\ op[p].lease # NoLease THEN intent ELSE Freed(intent, p)
    /\ UNCHANGED lifecycle

(***************************************************************************)
(* The supervisor is gone.  A command that ran inside it fails, and its    *)
(* client starts over with the local form; a resume is not retried.  The   *)
(* kernel frees the lock the dead process held.                            *)
(***************************************************************************)
FallBack(o) ==
    IF o.cmd = "resume" THEN [o EXCEPT !.todo = <<"abort">>, !.inside = FALSE]
    ELSE [o EXCEPT !.todo = Script(o.cmd), !.inside = FALSE, !.torn = FALSE]

SupervisorGone(p) ==
    /\ sup' = Absent /\ late' = FALSE
    /\ op' = [q \in Procs |->
                 IF q = p THEN [op[q] EXCEPT !.todo = Tail(@)]
                 ELSE IF Alive /\ op[q].inside THEN FallBack(op[q]) ELSE op[q]]
    /\ intent' = IF Alive /\ intent \in Procs \ {p} /\ op[intent].inside THEN Nobody ELSE intent
    /\ UNCHANGED <<lifecycle, issued>>

-----------------------------------------------------------------------------
(***************************************************************************)
(* The locks.  Both are polled with a deadline: a busy lock is an error    *)
(* after five seconds, and the Bedrock lock at once or after thirty.       *)
(***************************************************************************)
\* Slip: a command waits for a lock for as long as it takes.
LockWaits == FALSE

LockTimesOut == TRUE

Lock(p) ==
    /\ At(p, "lock")
    /\ \/ intent = Nobody /\ intent' = p /\ Goes(p) /\ UNCHANGED lifecycle
       \/ intent # Nobody /\ LockTimesOut /\ ~op[p].inside /\ Raises(p)
       \/ /\ intent # Nobody /\ LockTimesOut /\ op[p].inside   \* the client gets an error
          /\ op' = [op EXCEPT ![p] = FallBack(@)]
          /\ UNCHANGED locks
    /\ UNCHANGED <<markers, authority, players, platform, bounds, history>>

\* A stop that ran inside the supervisor is over when it gives its lock back.
Unlock(p) ==
    /\ At(p, "unlock")
    /\ GoesWith(p, [op[p] EXCEPT !.inside = FALSE])
    /\ intent' = Freed(intent, p)
    /\ UNCHANGED <<lifecycle, markers, authority, players, platform, bounds, history>>

\* A launch, an upgrade: the lifecycle lock now or not at all.
Claim(p) ==
    /\ At(p, "claim")
    /\ \/ lifecycle = Nobody /\ lifecycle' = p /\ Goes(p) /\ UNCHANGED intent
       \/ lifecycle # Nobody /\ Raises(p)
    /\ UNCHANGED <<markers, authority, players, platform, bounds, history>>

\* bedrock stop waits for a launch under way and then reaps what it published.
Reap(p) ==
    /\ At(p, "reap")
    /\ \/ lifecycle = Nobody /\ lifecycle' = p /\ Goes(p) /\ UNCHANGED intent
       \/ lifecycle # Nobody /\ LockTimesOut /\ Raises(p)
    /\ UNCHANGED <<markers, authority, players, platform, bounds, history>>

(***************************************************************************)
(* The markers.  The write of the pause marker may fail; then the command  *)
(* goes on, and in the end stops the service and reports an error.         *)
(***************************************************************************)
Latch(p) ==
    /\ At(p, "latch")
    /\ \/ pause' = TRUE /\ Goes(p) /\ NoFault /\ UNCHANGED locks
       \/ /\ Fault /\ UNCHANGED pause
          /\ IF op[p].cmd = "reset" THEN Raises(p)
             ELSE GoesWith(p, [op[p] EXCEPT !.torn = TRUE]) /\ UNCHANGED locks
    /\ UNCHANGED <<emergency, authority, players, platform, begun, history>>

Engage(p) ==
    /\ At(p, "engage")
    /\ \/ /\ emergency' = TRUE /\ Goes(p) /\ NoFault
          /\ owed' = {"reset", "resume"} /\ promised' = promised \ {"halted"}
          /\ engaged' = engaged \cup {p}
       \/ Fault /\ GoesWith(p, [op[p] EXCEPT !.torn = TRUE]) /\ UNCHANGED <<emergency, history>>
    /\ UNCHANGED <<locks, pause, authority, players, platform, begun>>

(***************************************************************************)
(* Revocation: through the supervisor, which revokes and stays, or by      *)
(* terminating the process when it does not answer.  The agent's disarm    *)
(* and the operator's are the same command.                                *)
(***************************************************************************)
Paused == [at |-> IF sup.at = "failed" THEN "failed" ELSE "paused", lease |-> NoLease]
Disarmed == [at |-> IF sup.at \in {"armed", "running"} THEN "paused" ELSE sup.at, lease |-> NoLease]

Revoke(p) ==
    /\ At(p, "revoke")
    /\ \/ /\ op[p].inside
          /\ sup' = Paused
          /\ Goes(p)
          /\ UNCHANGED <<locks, late, issued>>
       \/ ~op[p].inside /\ SupervisorGone(p)
    /\ UNCHANGED <<markers, players, platform, bounds, history>>

Terminate(p) ==
    /\ At(p, "terminate")
    /\ SupervisorGone(p)
    /\ UNCHANGED <<markers, players, platform, bounds, history>>

Retire(p) ==
    /\ At(p, "retire")
    /\ IF op[p].inside THEN SupervisorGone(p) ELSE Goes(p) /\ UNCHANGED <<authority, locks>>
    /\ UNCHANGED <<markers, players, platform, bounds, history>>

Disarm(p) ==
    /\ At(p, "disarm")
    /\ \/ /\ Goes(p) /\ NoFault
          /\ sup' = IF Alive THEN Disarmed ELSE sup
          /\ UNCHANGED <<locks, late, issued>>
       \/ /\ Fault                                          \* the IPC failed
          /\ Alive /\ op[p].cmd \in {"takeover", "bed-stop", "replace", "leave"}
          /\ SupervisorGone(p)
       \/ /\ Fault                                          \* a failed launch ignores that
          /\ Alive /\ op[p].cmd = "run"
          /\ op' = [op EXCEPT ![p].todo = <<"abort">>]
          /\ UNCHANGED <<locks, authority>>
    /\ UNCHANGED <<markers, players, platform, begun, history>>

(***************************************************************************)
(* stop_agent_process on what the descriptor names.  An agent that is      *)
(* asked to leave disarms on its way, with a timeout of its own.  The      *)
(* containment may not be confirmed: the descriptor then stays.            *)
(***************************************************************************)
Leaving(l) ==
    /\ agents' = agents \ {l}
    /\ \/ NoFault /\ UNCHANGED late
       \/ Fault /\ Alive /\ l \in agents /\ late' = TRUE

Contain(p) ==
    /\ At(p, "contain")
    /\ Goes(p)
    /\ \/ Leaving(record) /\ record' = NoLease
       \/ Fault /\ record # NoLease /\ UNCHANGED <<late, agents, record>>
    /\ UNCHANGED <<locks, markers, sup, issued, lost, platform, begun, history>>

\* The session is stopped under the lifecycle lock; its end may not be confirmed.
Close(p) ==
    /\ At(p, "close")
    /\ \/ session' = FALSE /\ Goes(p) /\ NoFault /\ lifecycle' = Nobody /\ UNCHANGED intent
       \/ Fault /\ Raises(p) /\ UNCHANGED session
    /\ UNCHANGED <<markers, authority, players, service, stage, begun, history>>

(***************************************************************************)
(* What the command reports.  Unless the marker could not be written or    *)
(* the agent's descriptor is still there, it reports that control is       *)
(* revoked; a bedrock stop also that the session is gone.                  *)
(***************************************************************************)
HaltService == service' = IF service = "on" THEN "halting" ELSE service

Durable == {"pause", "stop", "takeover", "bed-stop"}

Reported(o) ==
    IF o.cmd \notin Durable \/ o.torn \/ record # NoLease THEN {}
    ELSE {"revoked"} \cup (IF o.cmd = "bed-stop" THEN {"closed"} ELSE {})

Confirm(p) ==
    /\ At(p, "confirm")
    /\ IF op[p].inside /\ record # NoLease                  \* not confirmed: the local form
       THEN /\ op' = [op EXCEPT ![p] = FallBack(@)]
            /\ intent' = Freed(intent, p)
            /\ UNCHANGED <<lifecycle, promised, service, stage>>
       ELSE /\ Ends(p)
            /\ promised' = promised \cup Reported(op[p])
            /\ IF op[p].torn THEN HaltService ELSE UNCHANGED service
            /\ stage' = IF p # Loop THEN stage ELSE IF record = NoLease THEN "bed" ELSE "tidy"
    /\ UNCHANGED <<markers, authority, players, session, bounds, owed, engaged>>

\* The command returns; start.sh goes on to its next command.
Finish(p) ==
    /\ At(p, "finish")
    /\ Ends(p)
    /\ stage' = IF p # Loop THEN stage
                ELSE CASE op[p].cmd = "bed" -> "run" [] op[p].cmd = "run" -> "watch" [] OTHER -> "tidy"
    /\ UNCHANGED <<markers, authority, players, session, service, bounds, history>>

\* The command fails; start.sh contains the runtime and starts over.
Abort(p) ==
    /\ At(p, "abort")
    /\ Ends(p)
    /\ stage' = IF p = Loop THEN "tidy" ELSE stage
    /\ UNCHANGED <<markers, authority, players, session, service, bounds, history>>

-----------------------------------------------------------------------------
(***************************************************************************)
(* resume.  The supervisor leaves PAUSED, or retires from FAILSAFE, and    *)
(* lifts the marker under its own lock.  Without a supervisor the CLI      *)
(* starts the service first, which waits for the marker to go.             *)
(***************************************************************************)
\* Paid in full, a stop still under way promises nothing any more.
Pays(order) == /\ owed' = owed \ {order}
               /\ engaged' = IF owed' = {} THEN {} ELSE engaged

Lifts == /\ pause' = FALSE
         /\ promised' = promised \cap {"halted"}
         /\ Pays("resume")

Reopen(p) ==
    /\ At(p, "reopen")
    /\ IF emergency \/ sup.at \in {"armed", "running"}
       THEN Raises(p) /\ UNCHANGED <<authority, pause, history>>
       ELSE /\ Lifts
            /\ IF sup.at = "failed" THEN SupervisorGone(p)
               ELSE /\ sup' = [sup EXCEPT !.at = "idle"]
                    /\ Goes(p)
                    /\ UNCHANGED <<locks, late, issued>>
    /\ UNCHANGED <<emergency, players, platform, bounds>>

\* A supervisor that came up before the lock was taken is asked instead.
Alone(p) ==
    /\ At(p, "alone")
    /\ IF Alive THEN /\ op' = [op EXCEPT ![p].todo = ResumeInside, ![p].inside = TRUE]
                     /\ intent' = Freed(intent, p)
       ELSE Goes(p) /\ UNCHANGED intent
    /\ UNCHANGED <<lifecycle, markers, authority, players, platform, bounds, history>>

Serve(p) ==
    /\ At(p, "serve")
    /\ \/ service = "none" /\ Goes(p) /\ UNCHANGED <<locks, service, stage>>
       \/ /\ service \in {"off", "on"}
          /\ Goes(p)
          /\ service' = "on"
          /\ stage' = IF service = "off" THEN "tidy" ELSE stage
          /\ UNCHANGED locks
       \/ service = "halting" /\ Raises(p) /\ UNCHANGED <<service, stage>>
    /\ UNCHANGED <<markers, authority, players, session, bounds, history>>

\* The API asks once more for the emergency marker, the CLI does not.
Clear(p) ==
    /\ At(p, "clear")
    /\ \/ Lifts /\ Goes(p) /\ UNCHANGED locks
       \/ emergency /\ Raises(p) /\ UNCHANGED <<pause, history>>
    /\ UNCHANGED <<emergency, authority, players, platform, bounds>>

(***************************************************************************)
(* emergency-stop takes no lock, and so may come between any two steps of  *)
(* the others.  It waits for the service to be off, but not for ever, and  *)
(* terminates and contains once more after it.                             *)
(***************************************************************************)
Halt(p) ==
    /\ At(p, "halt")
    /\ \/ service = "on" /\ HaltService /\ UNCHANGED op
       \/ /\ service \in {"none", "off"} \/ (service = "halting" /\ LockTimesOut)
          /\ Goes(p)
          /\ UNCHANGED service
    /\ UNCHANGED <<locks, markers, authority, players, session, stage, bounds, history>>

Warned(p) ==
    /\ At(p, "warned")
    /\ Ends(p)
    /\ promised' = promised \cup (IF op[p].torn \/ p \notin engaged THEN {} ELSE {"halted"})
    /\ engaged' = engaged \ {p}
    /\ UNCHANGED <<markers, authority, players, platform, bounds, owed>>

(***************************************************************************)
(* reset-emergency-stop: with the service off and nobody alive, it writes  *)
(* the pause marker before it takes the emergency marker away.             *)
(***************************************************************************)
Inspect(p) ==
    /\ At(p, "inspect")
    /\ IF service \in {"none", "off"} /\ ~Alive /\ record \notin agents THEN Goes(p) /\ UNCHANGED locks
       ELSE Raises(p)
    /\ UNCHANGED <<markers, authority, players, platform, bounds, history>>

Disengage(p) ==
    /\ At(p, "disengage")
    /\ IF pause
       THEN /\ emergency' = FALSE
            /\ Pays("reset")
            /\ Goes(p) /\ UNCHANGED locks
       ELSE Raises(p) /\ UNCHANGED <<emergency, owed, engaged>>
    /\ UNCHANGED <<pause, authority, players, platform, bounds, promised>>

-----------------------------------------------------------------------------
(***************************************************************************)
(* bedrock launch: the markers are asked under the operator lock, which is *)
(* given back once the lifecycle lock is held, so that a stop need not     *)
(* wait for a slow launcher before it latches.                             *)
(***************************************************************************)
Permitted(p) ==
    /\ At(p, "permitted")
    /\ IF Latched THEN Raises(p) ELSE Goes(p) /\ UNCHANGED locks
    /\ UNCHANGED <<markers, authority, players, platform, bounds, history>>

Open(p) ==
    /\ At(p, "open")
    /\ \/ session' = TRUE /\ Goes(p) /\ NoFault /\ UNCHANGED locks
       \/ Fault /\ Raises(p) /\ UNCHANGED session
    /\ UNCHANGED <<markers, authority, players, service, stage, begun, history>>

(***************************************************************************)
(* run --live up to its transaction: the markers, a supervisor, no agent,  *)
(* a session.  Then, under the lock, everything once more; arm, activate,  *)
(* one last look at the pause marker, the child and its descriptor.        *)
(***************************************************************************)
Ready(p) ==
    /\ At(p, "ready")
    /\ IF Latched \/ ~session \/ record \in agents
       THEN Raises(p) /\ UNCHANGED sup
       ELSE /\ sup' = IF Alive THEN sup ELSE [Absent EXCEPT !.at = "idle"]
            /\ Goes(p) /\ UNCHANGED locks
    /\ UNCHANGED <<markers, late, issued, players, platform, bounds, history>>

Admit(p) ==
    /\ At(p, "admit")
    /\ IF Latched \/ record \in agents THEN Raises(p) ELSE Goes(p) /\ UNCHANGED locks
    /\ UNCHANGED <<markers, authority, players, platform, bounds, history>>

ArmRefused == Latched \/ sup.at # "idle" \/ issued = MaxLeases

Arm(p) ==
    /\ At(p, "arm")
    /\ IF ArmRefused THEN Raises(p) /\ UNCHANGED <<sup, issued>>
       ELSE /\ issued' = issued + 1
            /\ sup' = [at |-> "armed", lease |-> issued + 1]
            /\ GoesWith(p, [op[p] EXCEPT !.lease = issued + 1]) /\ UNCHANGED locks
    /\ UNCHANGED <<markers, late, players, platform, bounds, history>>

Activate(p) ==
    /\ At(p, "activate")
    /\ IF Latched \/ sup.at # "armed" THEN Raises(p) /\ UNCHANGED sup
       ELSE sup' = [sup EXCEPT !.at = "running"] /\ Goes(p) /\ UNCHANGED locks
    /\ UNCHANGED <<markers, late, issued, players, platform, bounds, history>>

\* The upgrade asks for both markers here, the launch for the pause only.
Recheck(p) ==
    /\ At(p, "recheck")
    /\ IF pause \/ (op[p].cmd = "upgrade" /\ emergency) THEN Raises(p) ELSE Goes(p) /\ UNCHANGED locks
    /\ UNCHANGED <<markers, authority, players, platform, bounds, history>>

Spawn(p) ==
    /\ At(p, "spawn")
    /\ IF record \in agents THEN Raises(p) /\ UNCHANGED <<agents, record>>
       ELSE /\ agents' = agents \cup {op[p].lease}
            /\ record' = NoLease
            /\ Goes(p) /\ UNCHANGED locks
    /\ UNCHANGED <<markers, authority, lost, platform, bounds, history>>

\* The descriptor; a child that has already left is cleaned up and reported.
Record(p) ==
    /\ At(p, "record")
    /\ IF op[p].lease \in agents
       THEN /\ record' = op[p].lease
            /\ GoesWith(p, [op[p] EXCEPT !.child = TRUE]) /\ UNCHANGED locks
       ELSE Raises(p) /\ UNCHANGED record
    /\ UNCHANGED <<markers, authority, agents, lost, platform, bounds, history>>

-----------------------------------------------------------------------------
(***************************************************************************)
(* The agent upgrade, under the Bedrock lifecycle lock from end to end,    *)
(* and under the operator lock only to revoke, to admit and to clean up.   *)
(***************************************************************************)
Environment == ~Latched /\ session /\ service \in {"none", "off"}

Qualify(p) ==
    /\ At(p, "qualify")
    /\ IF Environment /\ sup.at = "running" /\ record = sup.lease /\ record \in agents
       THEN GoesWith(p, [op[p] EXCEPT !.old = sup.lease]) /\ UNCHANGED locks
       ELSE Raises(p)
    /\ UNCHANGED <<markers, authority, players, platform, bounds, history>>

\* From here on the old agent must go, whether or not its revocation is confirmed.
Withdraw(p) ==
    /\ At(p, "withdraw")
    /\ IF ~(Environment /\ record = op[p].old /\ sup.lease = op[p].old)
       THEN Raises(p) /\ NoFault /\ UNCHANGED sup
       ELSE \/ /\ sup' = Disarmed
               /\ GoesWith(p, [op[p] EXCEPT !.part = 1])
               /\ NoFault /\ UNCHANGED locks
            \/ /\ Fault
               /\ sup' \in {sup, Disarmed}
               /\ op' = [op EXCEPT ![p] = Recovered([@ EXCEPT !.part = 1])]
               /\ intent' = Nobody /\ UNCHANGED lifecycle
    /\ UNCHANGED <<markers, late, issued, players, platform, begun, history>>

\* Slip: the descriptor goes although the agent's end is not confirmed.
ContainedHopes(p, l) ==
    /\ record' = IF record = l THEN NoLease ELSE record
    /\ \/ Leaving(l)
       \/ Fault /\ UNCHANGED <<agents, late>>

\* contain(process): this process, and then no descriptor at all.
Contained(p, l) ==
    \/ /\ Leaving(l)
       /\ record' = IF record = l THEN NoLease ELSE record
    \/ Fault /\ UNCHANGED <<agents, late, record>>

Drain(p) ==
    /\ At(p, "drain")
    /\ Contained(p, op[p].old)
    /\ IF record' # NoLease THEN Raises(p)
       ELSE /\ GoesWith(p, [op[p] EXCEPT !.part = IF @ = 1 THEN 2 ELSE @])
            /\ UNCHANGED locks
    /\ UNCHANGED <<markers, sup, issued, lost, platform, begun, history>>

(***************************************************************************)
(* resume-for-agent-reload: the supervisor takes the operator lock itself, *)
(* leaves PAUSED without touching the marker and gives the lock back, so   *)
(* that anybody may come before the upgrade takes it again.                *)
(***************************************************************************)
Reload(p) ==
    /\ At(p, "reload")
    /\ IF Environment /\ sup.at = "paused" /\ intent = Nobody /\ record = NoLease
       THEN sup' = [sup EXCEPT !.at = "idle"] /\ Goes(p) /\ UNCHANGED locks
       ELSE Raises(p) /\ UNCHANGED sup
    /\ UNCHANGED <<markers, late, issued, players, platform, bounds, history>>

Reserve(p) ==
    /\ At(p, "reserve")
    /\ IF Environment /\ sup.at = "idle" /\ record = NoLease
       THEN GoesWith(p, [op[p] EXCEPT !.admitted = TRUE]) /\ UNCHANGED locks
       ELSE Raises(p)
    /\ UNCHANGED <<markers, authority, players, platform, bounds, history>>

\* Until the new agent plays it must own the lease; it may fail to start in time.
Playing(p) ==
    /\ Environment /\ record = op[p].lease /\ record \in agents
    /\ sup = [at |-> "running", lease |-> op[p].lease]

Watch(p) ==
    /\ At(p, "watch")
    /\ \/ /\ Playing(p)
          /\ Goes(p) /\ NoFault /\ UNCHANGED locks
       \/ ~Playing(p) /\ NoFault /\ Raises(p)
       \/ Fault /\ Raises(p)
    /\ UNCHANGED <<markers, authority, players, platform, begun, history>>

Examine(p) ==
    /\ At(p, "examine")
    /\ IF record = NoLease \/ (op[p].child /\ record = op[p].lease)
       THEN GoesWith(p, [op[p] EXCEPT !.admitted = FALSE]) /\ UNCHANGED locks
       ELSE Raises(p)
    /\ UNCHANGED <<markers, authority, players, platform, bounds, history>>

Disown(p) ==
    /\ At(p, "disown")
    /\ IF Alive /\ sup.lease \in {NoLease, op[p].lease}
       THEN sup' = Disarmed /\ Goes(p) /\ UNCHANGED locks
       ELSE Raises(p) /\ UNCHANGED sup
    /\ UNCHANGED <<markers, late, issued, players, platform, bounds, history>>

Reclaim(p) ==
    /\ At(p, "reclaim")
    /\ IF op[p].child THEN Contained(p, op[p].lease) ELSE NoFault /\ UNCHANGED <<agents, late, record>>
    /\ IF ~op[p].child \/ record' # NoLease THEN Raises(p)
       ELSE GoesWith(p, [op[p] EXCEPT !.child = FALSE]) /\ UNCHANGED locks
    /\ UNCHANGED <<markers, sup, issued, lost, platform, begun, history>>

\* Once, and never past a broker hand-over the plan names.
RollBack(p) ==
    /\ At(p, "roll-back")
    /\ \/ /\ Environment
          /\ GoesWith(p, [op[p] EXCEPT !.part = 3]) /\ NoFault /\ UNCHANGED locks
       \/ ~Environment /\ NoFault /\ Raises(p)
       \/ Fault /\ Raises(p)
    /\ UNCHANGED <<markers, authority, players, platform, begun, history>>

-----------------------------------------------------------------------------
(***************************************************************************)
(* start.sh.  It waits while the pause is latched, leaves for good on an   *)
(* emergency, and otherwise keeps an agent playing.  A systemctl stop lets *)
(* its current command end; then the unit stops the runtime and Bedrock.   *)
(***************************************************************************)
Healthy == stage = "watch" /\ sup.at = "running" /\ record = sup.lease /\ record \in agents

LoopBegins ==
    /\ service = "on" /\ op[Loop] = Idle /\ ~Latched /\ ~Healthy
    /\ \E c \in CASE stage \in {"watch", "tidy"} -> {"tidy"} \cup (IF session THEN {"replace"} ELSE {})
                 [] stage = "bed" -> {"bed"}
                 [] stage = "run" -> {"run"} : Begins(Loop, c)
    /\ UNCHANGED <<locks, markers, authority, players, platform, bounds, history>>

LoopLeaves ==
    /\ op[Loop] = Idle
    /\ service = "halting" \/ (service = "on" /\ emergency)
    /\ Begins(Loop, "leave")
    /\ service' = "halting"
    /\ UNCHANGED <<locks, markers, authority, players, session, stage, bounds, history>>

Exit ==
    /\ At(Loop, "exit")
    /\ Ends(Loop)
    /\ service' = "off" /\ stage' = "tidy"
    /\ UNCHANGED <<markers, authority, players, session, bounds, history>>

\* A client runs a command; resume refuses under an emergency at once.
ClientBegins(p) ==
    /\ op[p] = Idle /\ begun < MaxBegun
    /\ \E c \in Commands : (c = "resume" => ~emergency) /\ Begins(p, c)
    /\ begun' = begun + 1
    /\ UNCHANGED <<locks, markers, authority, players, platform, faults, history>>

(***************************************************************************)
(* A launch or an upgrade is killed.  The kernel frees its locks; a lease  *)
(* it had armed, with or without a child, is on no descriptor.             *)
(***************************************************************************)
ClientDies(p) ==
    /\ Fault /\ op[p].cmd \in {"run", "upgrade"}
    /\ lost' = lost \cup ({op[p].lease} \ {NoLease, record})
    /\ Ends(p)
    /\ UNCHANGED <<markers, authority, agents, record, platform, begun, history>>

(***************************************************************************)
(* An agent leaves, by itself or because its lease is gone; its disarm may *)
(* arrive after it has stopped waiting for the answer, at whatever lease   *)
(* the supervisor has issued since.                                        *)
(***************************************************************************)
AgentLeaves ==
    /\ \E l \in agents :
          /\ agents' = agents \ {l}
          /\ IF l = sup.lease THEN Fault /\ late' \in {late, TRUE}
             ELSE NoFault /\ UNCHANGED late
    /\ UNCHANGED <<op, locks, markers, sup, issued, record, lost, platform, begun, history>>

DisarmArrives ==
    /\ late
    /\ late' = FALSE
    /\ sup' = Disarmed
    /\ UNCHANGED <<op, locks, markers, issued, players, platform, bounds, history>>

\* The watchdog: a lease nobody renews fails the supervisor, a marker ends the lease.
Expires ==
    /\ sup.lease # NoLease
    /\ IF sup.lease \in agents THEN Fault ELSE NoFault
    /\ sup' = [at |-> "failed", lease |-> NoLease]
    /\ UNCHANGED <<op, locks, markers, late, issued, players, platform, begun, history>>

SeesPause ==
    /\ pause /\ sup.lease # NoLease
    /\ sup' = Disarmed
    /\ UNCHANGED <<op, locks, markers, late, issued, players, platform, bounds, history>>

SeesEmergency ==
    /\ emergency /\ Alive
    /\ sup' = Absent /\ late' = FALSE
    /\ op' = [q \in Procs |-> IF op[q].inside THEN FallBack(op[q]) ELSE op[q]]
    /\ intent' = IF intent \in Procs /\ op[intent].inside THEN Nobody ELSE intent
    /\ UNCHANGED <<lifecycle, markers, issued, players, platform, bounds, history>>

-----------------------------------------------------------------------------
\* The service is off or not installed; nothing runs, or an agent plays.
Init ==
    /\ op = [p \in Procs |-> Idle]
    /\ intent = Nobody /\ lifecycle = Nobody
    /\ emergency = FALSE /\ late = FALSE
    /\ lost = {} /\ promised = {} /\ owed = {} /\ engaged = {}
    /\ begun \in 0 .. MaxBegun /\ faults \in 0 .. MaxFaults
    /\ \/ /\ pause \in BOOLEAN /\ session \in BOOLEAN
          /\ sup = Absent /\ issued = 0 /\ agents = {} /\ record = NoLease
          /\ service \in {"none", "off"} /\ stage = "tidy"
       \/ /\ pause = FALSE /\ session = TRUE
          /\ sup = [at |-> "running", lease |-> 1] /\ issued = 1 /\ agents = {1} /\ record = 1
          /\ service \in {"none", "off", "on"}
          /\ stage = IF service = "on" THEN "watch" ELSE "tidy"

Locking(p) == Lock(p) \/ Unlock(p) \/ Claim(p) \/ Reap(p)
Revoking(p) ==
    \/ Latch(p) \/ Engage(p) \/ Revoke(p) \/ Terminate(p) \/ Retire(p) \/ Disarm(p)
    \/ Contain(p) \/ Close(p) \/ Halt(p)
Ending(p) == Confirm(p) \/ Finish(p) \/ Abort(p) \/ Warned(p)
Resuming(p) == Reopen(p) \/ Alone(p) \/ Serve(p) \/ Clear(p) \/ Inspect(p) \/ Disengage(p)
Launching(p) ==
    \/ Permitted(p) \/ Open(p) \/ Ready(p) \/ Admit(p) \/ Arm(p) \/ Activate(p)
    \/ Recheck(p) \/ Spawn(p) \/ Record(p)
Upgrading(p) ==
    \/ Qualify(p) \/ Withdraw(p) \/ Drain(p) \/ Reload(p) \/ Reserve(p) \/ Watch(p)
    \/ Examine(p) \/ Disown(p) \/ Reclaim(p) \/ RollBack(p)

Step(p) == Locking(p) \/ Revoking(p) \/ Ending(p) \/ Resuming(p) \/ Launching(p) \/ Upgrading(p)
Service == LoopBegins \/ LoopLeaves \/ Exit
World   == AgentLeaves \/ DisarmArrives \/ Expires \/ SeesPause \/ SeesEmergency

Next ==
    \/ \E p \in Procs : Step(p)
    \/ \E p \in Clients : ClientBegins(p) \/ ClientDies(p)
    \/ Service
    \/ World

Spec == Init /\ [][Next]_vars /\ \A p \in Clients : WF_vars(Step(p))

-----------------------------------------------------------------------------
\* The state is well formed: an operation inside the supervisor has a supervisor.
TypeOK ==
    /\ intent \in Procs \cup {Nobody} /\ lifecycle \in Procs \cup {Nobody}
    /\ pause \in BOOLEAN /\ emergency \in BOOLEAN /\ late \in BOOLEAN /\ session \in BOOLEAN
    /\ sup.at \in {"absent", "idle", "armed", "running", "paused", "failed"}
    /\ sup.lease \in 0 .. issued /\ issued \in 0 .. MaxLeases
    /\ (sup.lease # NoLease) = (sup.at \in {"armed", "running"})
    /\ agents \subseteq 1 .. issued /\ lost \subseteq 1 .. issued /\ record \in 0 .. issued
    /\ service \in {"none", "off", "on", "halting"} /\ stage \in {"tidy", "bed", "run", "watch"}
    /\ \A p \in Procs : op[p] = Idle => intent # p /\ lifecycle # p

(***************************************************************************)
(* What a durable pause, stop, takeover or bedrock stop reported stays     *)
(* true until a resume: the marker is on disk, no lease is held, the agent *)
(* on record is gone, and no other runs but one whose launcher died; after *)
(* a bedrock stop the session is gone, a launch under way included.        *)
(***************************************************************************)
PauseHolds ==
    /\ "revoked" \in promised =>
          pause /\ sup.lease = NoLease /\ record = NoLease /\ agents \subseteq lost
    /\ "closed" \in promised => ~session

(***************************************************************************)
(* Once emergency-stop has returned with its marker on disk, no lease is   *)
(* held before both reset-emergency-stop and resume have run; until a      *)
(* resume has run, one marker at least is there, whoever resets.           *)
(***************************************************************************)
EmergencyHolds ==
    /\ "halted" \in promised /\ owed # {} => sup.lease = NoLease
    /\ "resume" \in owed => Latched

\* What a stop of either kind reported stays true until it is lifted.
StopsHold == PauseHolds /\ EmergencyHolds

\* At most one agent lives beside those whose launcher died unrecorded.
OneAgent == TypeOK /\ Cardinality(agents \ lost) <= 1

(***************************************************************************)
(* "The agent cannot restart until both `minecraft-ai                      *)
(* reset-emergency-stop` and `minecraft-ai resume` are run."  (cli.py)     *)
(***************************************************************************)
NoRestart == [][("halted" \in promised /\ owed # {}) => agents' \subseteq agents]_vars

(***************************************************************************)
(* Every command comes back to the operator, also when a bedrock stop, an  *)
(* upgrade and a launch wait for each other's locks: the upgrade takes the *)
(* lifecycle lock before the operator lock, the others after it.           *)
(***************************************************************************)
OperationsEnd == \A p \in Clients : op[p] # Idle ~> op[p] = Idle
=============================================================================

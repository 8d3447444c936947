# A TLA+ model of minecraft_ai

`minecraft_ai` plays Minecraft Bedrock through the keyboard and the mouse of a
private X display. A **supervisor** process owns every physical input; an
**agent** process perceives, plans and sends it motor actions; an **operator**
pauses, resumes and stops them through files, a CLI and an HTTP server. The
modules in this directory model what those parts promise each other, TLC checks
them on small instances, and TLAPS proves the main results for every instance.

Paths below are relative to the repository; `src/minecraft_ai/` is left out of
the paths of its Python files.

## 1. Inventory

| Component | State it keeps | Operations | What is hard |
|---|---|---|---|
| **Motor gate** `safety.py` | published lease, last sequence, revocation reason, the backend's binding, held keys | `issue renew apply release_inputs check_expiry revoke` under one RLock | concurrent callers, a backend that raises halfway, expiry against renewal, replays |
| **Supervisor** `supervisor.py` | lifecycle state, gate, backend, camera origin, fault code, `_stop` | 17 IPC commands on a thread each, watchdog loop, signal handler, owned shutdown | watchdog and commands around one lock, reentrant signals, operator files written by others, being killed |
| **X11 backend** `platforms/bedrock_x11.py` | held tokens, bound lease, display | `bind_lease apply type_chat release_all close` | the interlock read before each event, a chat that presses its holds again, errors in the middle of an action |
| **Operator latches** `emergency.py`, `supervisor.py:62-130` | `EMERGENCY_STOP`, `OPERATOR_PAUSE` files, audit log | latch, clear, terminate the registered supervisor | written without the supervisor's locks, must survive every process |
| **Operator control plane** `cli.py`, `operator/server.py`, `operator/service_control.py` | none of its own: files, services, processes | pause, resume, stop, emergency-stop, reset, launch, takeover | transactions over several processes, each step of which may fail |
| **Agent lifecycle** `agent/lifecycle.py` | the agent descriptor, a process group | launch, stop, terminate orphaned groups | PID reuse, a leader that dies before its group, ownership of the descriptor |
| **Agent upgrade** `agent/upgrade.py` | handover record, staged release | prepare, retire, start, roll back | two-phase handover, crash between phases |
| **Agent runtime** `runtime.py`, `agent/process.py`, `agent/factory.py` | lease, tick state, cognition futures, skill executor | the realtime tick, the lease heartbeat, asynchronous cognition | results applied after the world changed, a heartbeat that fails, cleanup order |
| **Daemon executor** `agent/daemon_executor.py` | a deque of work items, the running worker, shutdown flag | submit, cancel, run, shutdown, `is_idle` | a worker that outlives the shutdown, detached work that must still be seen |
| **Model requests** `model_requests.py` | one disposition per request, its attempts, deadline, authority binding, the discard notice | attempt, complete, reject, publish, take the notice | late answers, five places that settle the same request |
| **Resident broker** `resident_broker_model.py`, `resident_broker_transport.py` | bindings of requests to a shared model process | bind, cancel, fence | a reply matched to a replaced binding |
| **Cognition** `cognition/` | plan, repair history | decide, validate, repair | stale observations |
| **Policy service** `policy_service.py` | warm model, sessions | load, act, reset | one GPU, warmup races |
| **Perception** `perception/` | blackboard, VLM job queue, grounded facts | publish, query, admit jobs | freshness, queue limits |
| **Skill execution** `control/execution.py`, `control/mining.py`, `control/crafting.py`, `control/outcomes.py` | running skill, phase, budgets | start, tick, recover, finish | phases that time out or never verify |
| **Operator budget, request-only, standby** `control/operator_budget.py`, `control/request_only.py`, `operator/standby.py` | one bounded request | start, spend, end | limits and terminal states |
| **Directions** `directions/` | one receipt and two step rows per request, in SQLite | submit, poll, cancel, claim, start, send, finish | several processes on one receipt, toggles that must go out once, crashes around a toggle |
| **Memory** `memory/` | SQLite stores, trajectory writer queue | record, claim, seal | claims of two processes, a full queue, crash while sealing |
| **Stack lifecycle** `stack_lifecycle.py`, `start.sh` | services, display session | start, stop, roll back | partial starts |
| **Bedrock session, capture** `platforms/` | session descriptor, frames | launch, capture, cache | stale frames |
| **Bridge** `bridge/`, `java_bridge/` | sequence numbers, socket | connect, observe | reordering |
| **Worker drain** `worker_drain.py` | drain metadata | validate | stale metadata |
| **Menus** `operator/menu.py` | recognised screen | navigate | acting on an old frame |
| **Data and evaluation** `datasets/`, `eval/`, `knowledge/`, `skills/` | files | build, score, import, select | little concurrency |

What makes each modelled component correct, in one line:

- **Motor gate**: input needs a capability; a capability starts from neutral
  input; a sequence number is accepted once; what was revoked or has expired
  never comes back.
- **Supervisor**: a latch on file stops every press at once and the capability
  soon after; a fault is for the life of the process; nothing stays pressed
  that nobody is responsible for; operator transactions end.
- **Operator control plane, agent upgrade**: what a stop reported stays true
  until it is lifted; at most one agent lives; every command comes back.
- **Agent lifecycle**: signals reach the agent's own group only; a reported end
  is true; a live agent is always on record.
- **Agent runtime**: it knows what it holds, keeps a lease no longer than its
  heart beats, saves only what was sent in the clear, and its run ends.
- **Bound cognition, model requests, daemon executor**: a model decision is
  adopted only under the operator orders and the execution it was asked under;
  every request is settled once, and the adapter hears of each discarded one
  exactly once, after the model call has ended.
- **Directions**: one direction at a time; each toggle goes out once and under
  authority; success is earned by a picture taken after the toggle, or, where the
  agent captures a stream, read after it; the receipt's count is true and its
  outcome final.
- **Operator messages, request-only mode**: a request with a budget is attempted
  once, an answer is final; one literal request is served, once, under a fence
  that is compared again at each motion.
- **Policy service**: no motion from an inference that was asked for before a
  reset; a retired worker's checkpoint is of its last inference; one reader per
  worker; a retired expert is gone.
- **Vision worker**: nothing is published after `stop()` has fenced it.
- **Trajectory recorder**: whatever is on disk can be replayed, and what was
  sealed as complete is.
- **Skills, plans, crafts**: an attack strikes only what was verified; no step of
  a plan is given up for wood that was not gathered; what is reported as made
  was made.
- **Stack**: whatever it started and still runs is on record; it stops nothing of
  anybody else's.
- **Menus, pictures**: clicks are bounded and at most one goes out after the
  interlock closed; an action follows a picture taken after the last action.

## 2. How the parts interact

```
 operator (CLI, HTTP) --files--> EMERGENCY_STOP, OPERATOR_PAUSE
      |   |                          | read by the watchdog and before each input event
      |   +--pause, stop (IPC)--> Supervisor --calls--> MotorGate --> X11 backend --> game
      |                              ^  (motor-action, heartbeat, chat, calibration)    |
      +--launch, stop--> Agent ------+                                             frames
      |   (process group, descriptor)   runtime tick <------------------------- capture
      |                                   |  |  |  +--> policy worker, vision worker
      |                                   |  |  +-----> trajectory recorder
      |                                   |  +--------> daemon executor --> model
      +--SQLite: messages, directions-----+
```

The modules follow that picture. `Supervisor` composes `MotorGate`: each command
applies the gate's operators to its own copy of the gate. `GateClients` drives
the same operators alone, from any number of callers. `InputAuthority` is the
abstract specification that `Supervisor` implements. Every other module meets its
neighbours only in what it sees of them (a lease that may vanish, a reply that
may be lost, files that may appear), and has that as actions of its own; no module
assumes of a neighbour what the neighbour's module does not allow.

## 3. The modules

| Module | What it is | State in the code |
|---|---|---|
| `MotorGate` | the methods of `safety.MotorGate` and their backend calls, each an operator from a gate to its set of results `[gate, out]` | `_lease`, `_last_sequence`, `_revocation_reason`; the backend's bound lease and held tokens |
| `GateClients` | callers, stale clients and time around one gate | a gate, the ids handed out, and a history of acceptances |
| `InputAuthority` | the promise: no lease, no lock, only permission, authority, what is pressed, whether a release is known to have worked | |
| `Supervisor` | the process: command threads, the main loop with its watchdog, the signal handler, shutdown, restart, and the operator's files | `Supervisor.state`, `motor`, `backend`, `_stop`, `fault_code`, `world_camera_origin_calibrated`; `section` is the holder of `_lock`, `wd` the main thread's place, `txn` the operator transaction |
| `OperatorControl` | the operator's commands as scripts of calls, the upgrade, and the service that runs `start.sh` | the two marker files, the two file locks, descriptor, session, supervisor and agent processes |
| `AgentLifecycle` | launch, stop and probe, read by read and signal by signal, against a process table with PID reuse | `agent-process.json`, the process table, the operator intent lock |
| `StackLifecycle` | start, rollback, stop and restart of a plan of services | the manifest, the process table, the resources of one-shot commands |
| `AgentRuntime` | a run of the agent: heartbeat, the tick's input, the stop, the shutdown under one budget | the lease the runtime believes in, what it holds, the budget, the replies of the supervisor |
| `BoundCognition` | one model decision from submission to publication or discard, over three threads of control | `ModelRequestLifecycle`, futures, the executor's deque, `_bound_cognition_requests`, `_pending_decision`, `_last_decision` |
| `PaidDirections` | receipts as transactions, and the tick that carries out one direction | the tables `paid_directions` and `paid_direction_steps`, the supervisor's status, the game's screen, the stream's newest picture, the picture last captured |
| `OperatorInbox` | an operator's message from its row to its answer, and the skills it may start | `operator_messages`, the retry queue, the budget, the adopted plan |
| `RequestOnly` | the one request of the request-only mode | its record, the revision, the lock and the fence it is bound under |
| `SkillExecutor` | what the executor believes to hold and what is down, through ticks, nesting and refusals | `_held_keys`, `_held_buttons`, the stack of options, `_mining_guard` |
| `PlanProgress` | what the end of a skill does to the plan and to the gathering of wood | the plan's graph and streaks, the wood transaction, the logs seen |
| `PlankCraft` | the controller that turns a log into planks | its phase, the clocks of its key and click, what the last frames showed |
| `PolicyClient` | one learned policy's client and worker | the outstanding request, the epoch, warm-up, retirement, the worker process |
| `PolicyRouter` | several experts behind one route | `_warming`, the bound option, the table of workers, retirement |
| `VisionWorker` | the vision thread with its admission and retirement | the queued query, the fence, the thread |
| `TrajectoryRecorder` | the motor thread's queue, the writer, shards and manifest | queue, counters, shard, index, manifest, `close()` |
| `MenuNavigator` | the loop of `bedrock navigate` | stage, retries, deadlines, the interlock |
| `FrameCapture` | the image source, the ffmpeg stream, the shared picture and the fences of a tick | the newest frame, its stamp, the reader's failures |
| `GateClientsProofs`, `SupervisorProofs`, `PaidDirectionsProofs`, `AgentPartsProofs`, `LifecycleProofs`, `StackProofs`, `CognitionProofs`, `OperatorControlProofs` | the proofs (section 5) | |

An action is one critical section, one transaction, or one read or write of
something shared with another process. Which code it stands for is in
`PROJECT.json`, under `map`. Operators named in comments that begin with *Slip*
are wrong versions of the definition below them; each is a plausible bug, and
each property is known to fail under one of them.

Each component has one type invariant, which is a conjunct of a safety invariant
that says more (`LeaseState`, `LifecycleSound`, `DecisionSound`, ...), and the
properties of a part that ask one question are conjuncts of one invariant.

### MotorGate and GateClients

A method of the gate holds its `RLock` from beginning to end, so it is one step;
what is not decided is how the backend behaves. A sweep (`release_all`) may
raise and leave any part of what was pressed; `clear_lease` may raise and keep
the binding; `apply` may raise before, in the middle of, or after its events. A
renewal changes `deadline` and keeps the id; time is the step `Expire`.
`gate.unconfirmed` remembers that the last sweep raised. It is a history
variable of the model: the code keeps no such flag, but sweeps again before it
issues a lease and refuses when that sweep raises.
The X11 `release_all` ignores the errors of single keys and reports that of the
final sync, which is the one outcome `swept = FALSE` stands for.

### Supervisor

Every IPC command that changes state is here: arm, activate, heartbeat, motor
action, release, chat, calibrate, probe, attach, disarm, fault, pause, resume,
resume for a reload and stop. A command that sleeps or types inside `_lock` is
cut where another thread can still act without that lock: the watchdog revokes
under the gate's own lock, the operator writes files, the display is driven. The
main thread is a program counter over `_serve_forever_owned`; `disarm` and
`fail` are cut between the decision and the assignment, because that is where
the signal handler, which runs in the same thread and passes the reentrant lock,
can act. `Kill` ends the process anywhere and leaves what was pressed in
`stuck`, which the next generation finds when it attaches the display.

Simplifications, with their reasons. The interlock's read of the two files and
the event that follows it are one step: a latch between the read and the event
has the effect of one just after the event, since nothing else of the model
reads the files in between. A phase of camera motion is one move, whatever the
number of chunks. The handler is not run inside `close`, and signals do not
nest. A pitch estimate, key maps, window focus and geometry are data. `stop` is
left to the liveness run: in the state, its transaction does what the signal
handler's `stop` does. The proofs have all commands.

`SignalInside` says whether a signal may interrupt the main thread inside its own
critical section. The code allows it, and then `StoppedIsForGood` fails: `disarm`
and `fail` decide from the state and assign it afterwards (`supervisor.py:810`),
and a signal in between stops the supervisor, after which the assignment leaves
STOPPED, which `safety.py:25` rules out. So the run `authority` and the
refinement are checked and proved with such signals, and `StoppedIsForGood` without.

### InputAuthority

Authority is granted only with permission and over neutral input; nothing new is
pressed without permission; the end of authority releases the input or is known
not to have; a fault lasts until the process is gone. `Revive` is the one
caveat, and is enabled only when `Reentrant` is: it allows exactly what the
reentrant signal above breaks, and nothing more. What the refinement maps
authority to is `live` with a
lease, or a chat under way: `type_chat` presses its remembered keys again
whatever became of the lease meanwhile, and the command cleans up after it.

### OperatorControl

A command is a script, the sequence of its calls; a call is a step of its
process, and what an exception leaves to be done replaces the rest of the script.
The two file locks are taken and dropped by name, and two commands take them in
opposite orders, which only the time-out of one of them resolves. A supervisor in
STOPPED is on its way out and counts as absent, because every command waits for
it. `Loop` is the persistent service with its `start.sh`.

Simplifications. Terminating the supervisor always succeeds. A client falls back
to writing the files itself only after the supervisor's own thread failed (it
could not get the lock, could not confirm, or is gone), not after an IPC time-out
whose command still runs. The service's `ExecStop` runs
after `start.sh`'s current command has ended. The manual-owner launch, the GPU
preflight, the hold of the input route and the health counters are left out.
`MaxFaults` bounds the calls that fail.

### AgentLifecycle

A generation is one spawned agent: a leader, perhaps workers, a PID that is free
again when no process bears it and no group does. Every read of `/proc`, every
signal, every read and unlink of the descriptor is a step of its own; between
them leaders die, workers outlive them, PIDs go to foreign processes, callers
are killed (the kernel then drops their lock). `unlocked` is chosen at the
start: the operations that this behaviour's callers perform without the operator
intent lock. `agent_alive` really is called that way, by the dashboard.

Simplifications. A check of identity and the signal it permits are one step, and
a PID does not come back within the seconds in which the launch that spawned it
still waits for it (`SlowRecycling`). TERM asks: a process may exit at any time,
signalled or not, so the flag `planned` makes no difference. `launch`'s first
probe changes nothing that its own examination does not. Descriptors that cannot
be read, or carry no operating-system identity, are only ever refused. Foreign
zombies are not modelled.

One limit of the code is in the model and in no finding: `_group_signal_authorized`
(`agent/lifecycle.py:400`) accepts the verdict "dead", and a foreign group whose
leader took the agent's old PID and died before its own workers is "dead" too;
the kernel shows nothing that tells it from the agent's orphans. The invariant
is therefore `ForeignLeadersSpared`, and `hit` may contain `"orphans"`.


### StackLifecycle

One plan of services, each external, a daemon or a one-shot command. An
operation (`start` or `stop`) is a process of its own, takes the manifest's file
lock and may die anywhere; the next one finds what it left. Every spawn, every
write of the manifest, every TERM and every look at the process table is a step.
`Numbers` are process-group numbers and are used again, for this stack and for
others.

Simplifications. There is one plan and no Windows; the refusal of a manifest
that belongs to another plan is left out. The check of an identity and the TERM
that follows are one step, and the number of a group that was found empty is not
given to others between two polls of the same wait. A writer that cannot write
its manifest is one of `MaxFailures`.

### AgentRuntime

A run of the agent over its threads: the main thread's tick, the heartbeat, the
shutdown under its one budget. The supervisor is seen through its replies. Each
command arrives or not, is refused or not, and its answer is lost, late or in
time; `late` holds the commands that are still on their way after their caller
gave up, and they may arrive at any later step. Which action a tick proposes is a
free choice; where skills, decisions and messages come from is in other modules.

### BoundCognition

The runtime's steps are those of `runtime.py` between two points where another
thread can act: registering a request, attaching the callback, rejecting,
cancelling, preflight, the unlocked checks, admission under the locks, commit.
The worker's steps are those of `daemon_executor.py`, with the model call as one
step of any length. `Settle` and `Notify` are the done callback, in whichever
thread runs it.

Simplifications. The capture and the submission of a decision are one step. An
attempt is a number; which budget refused it and what a recovery decision
rewrites are left out, and so is the path of an unbound decision, which nothing
in the shipped configuration takes.

### PaidDirections

A transaction on the receipts is one step, because SQLite serialises them and
`BEGIN IMMEDIATE` takes the write lock first; a busy lock is the writer's free choice
to fail. `Agent` is the tick that drives one direction: claim, the two steps with
their toggles, verification by the last capture, finish. It may die anywhere and a successor finds its row.

A capture is stamped, and the tick compares the stamp with the moment of the
toggle. What a stamp says depends on the source of the agent (`Streaming` names
the leases of those that capture a stream). The image source takes a picture and
stamps it in one call (`CaptureNow`). A stream, FFmpeg's or PipeWire's, takes
pictures on its own (`Grab`), stamps one when it has been read (`ReadFrame`), and
hands out the newest with the stamp it has (`CaptureNewest`). One picture at a
time is under way in the stream; however long it stays there, it may have been
taken before a toggle and be stamped after it. The head of a tick is where the
code captures, so a capture comes neither between authorization and dispatch nor
between dispatch and commit.

`pressed`, `taken` and `read` are history: the toggles the supervisor accepted,
the steps whose effect was on a picture taken after their toggle, and those whose
effect was on a picture read after it. `SuccessIsEarned` demands `taken` of the
image source and only `read` of a stream, because that is all the code ensures.
`torn` marks the requests whose agent died between a toggle and the commit that
would have counted it. The actions without a key that pass `motor_authority` are
left out.

### OperatorInbox and RequestOnly

`OperatorInbox` follows a message from its row through delivery, the question to
the planner, the answer and the skills it may start, against a database writer
that may be busy, late planners, restarts, and lost owners. The target that the
operator points at and typed directions are left out. `RequestOnly` is the mode
in which one literal request is all the agent does: the fence is bound under the
operator's revision and compared again before each motion; crashes and restarts
are steps.

### PolicyClient, PolicyRouter, VisionWorker, TrajectoryRecorder

`PolicyClient` is one client with its worker process: starting, warming up,
asking, an answer that is late or belongs to an earlier epoch, reset, drain,
retirement. `PolicyRouter` is the routing table over several experts, with
loading in the background and retirement while loads are under way; its
`close()` is left out, being retirement without the report. What a network
infers is a free choice everywhere. `VisionWorker` is the thread of the active
vision model with its queue, admission, publication and fence.
`TrajectoryRecorder` is the motor thread's bounded queue, the writer and its
files, its shards being the samples of `disk.sealed` in their order (a failed index
takes the last shard away again); the count of dropped steps is updated in one
step, an error of the writer is known slightly before its thread sets the flag, and a raise of the writer that does not poison the recorder is left out.

### SkillExecutor, PlanProgress, PlankCraft

`SkillExecutor` has two views of the keyboard: `option` is what the executor and
its mining guard believe to hold, `body` what is really down. A tick proposes
anything; what is sent may be refused; a skill may end, be cancelled, expire, or
push a child. `PlanProgress` has the graph of the plan with its streaks of
failures, and the wood gathering of `runtime.py`; `Required = 2` stands for the
code's 3, and the headroom detour and the resumption of a nested parent are left
out. `PlankCraft` is the controller's phase against a game whose answers come
late, refused keys and clicks, and scans that look at an older picture.

### MenuNavigator and FrameCapture

`MenuNavigator` observes any stage at any look: what is recognised in pixels is
not modelled. Its checks for a stale frame are left out, because the shipped
capture always returns a newer one. The navigator holds the lifecycle lock of
Bedrock and not the operator's, so latches come in between its steps.
`FrameCapture` has the X11 image source, the ffmpeg stream, the shared picture
file, and the fences of the tick; PipeWire, which a desktop portal admits and
whose worker stamps a picture when it arrives, is not modelled there.

## 4. The runs

| Run | Module, instance | Shows |
|---|---|---|
| `parts` | `MC_AgentParts`: the gate, the runtime, the policy client, the router, the vision worker, the recorder | `GateAgrees NoReplay NoRevival`, `InputsAccounted RunEnds`, `ClientSound`, `RouterSound`, `VisionFenced`, `RecordingTrue` |
| `authority` | `MC_Supervisor`: one key, two leases, all commands but `stop`, signals anywhere | `LeaseState`, `OriginPublishedInTheClear`, and that `Supervisor` implements `InputAuthority` (`KeepsPromise`) |
| `supervisor_live` | the same, one press and one lease, with `stop`, signals outside the main thread's critical section, fairness | `StoppedIsForGood AuthorityEnds OrphansReleased TransactionsEnd` |
| `lifecycles` | `MC_Lifecycles`: agent, stack, menus, pictures, messages | `LifecycleSound StackSound MenuSound CaptureSound InboxSound AnswersStand` |
| `cognition` | `MC_Cognition`: decision, skill, plan, craft, request-only mode | `DecisionSound CommittedWhileCurrent SettledOnce AttackStands PlanSound CraftIsTrue RequestSound` |
| `requests` | `MC_Requests`: directions and model requests, with fairness | `ToggledOnce SuccessIsEarned CountTrue OneOwner InputIsAuthorized OutcomeIsFinal DirectionsEnd RequestsEnd` |
| `operator` | `MC_OperatorControl`: three commands of two clients, or two and a fault, or two beside the service | `StopsHold OneAgent OperationsEnd` |
| `cleanup_fails`, `agent_probe_races`, `emergency_respawn`, `skill_nesting`, `inbox_backlog` | violations | section 6 |

Four of the modules under `MC_` host several parts that share no state. A
behaviour picks a `part`, which never changes, and takes that part's steps only:
the state graph is the disjoint union of the parts' graphs, so each invariant is
checked on the part it is about exactly as in a run of its own, and the fairness
of the host is the parts' own fairness conditions, each conjoined with its
`part`. `CHECK_DEADLOCK FALSE` stands in the runs whose parts end: an agent, a
worker, a recording, a command, a navigation, a request. The supervisor's runs
check deadlock.

**Bounds.** What could be confused with itself comes at least twice: two leases,
two callers, two messages, two model requests, two generations with two PIDs, two
PIDs for three births of services; an operation that must not come twice may
come three times (`MaxPulses`, `MaxWorkerStarts`, `MaxOperations`). Sequence
numbers, revisions and attempts need one more than they start with, because the
code only compares them. One key and one button are enough, since the gate
treats tokens alike. In `requests`, one direction is submitted twice and
meets what the database remembers of an older one; `race` lets two callers
submit two directions at once, and there callers act only after the agent with
the last lease has died, because everything before is in the other part. There,
the first agent captures a stream and the second uses the image source
(`Streaming = {1}`), so that a direction is carried out, verified and taken over
under either.
The theorems of section 5 have none of these bounds.

**Fairness.** `Supervisor`: weak fairness of a thread inside a critical section,
strong fairness of whoever waits for `_lock` (the transaction, the main loop,
the handler), because Python's lock gives no order but every holder lets go and
threads come back to it. `BoundCognition`: the runtime loop keeps ticking and
the worker keeps running, since model calls are bounded by their transport's
timeout; nothing is assumed of the operator. `PaidDirections`: the agent's tick,
and the passing of deadlines. `AgentRuntime`: its main thread, its heartbeat,
the shutdown budget, and the watchdog of a supervisor that ends a lease nobody
renews. `VisionWorker`: its thread. `OperatorControl`: the commands'
own steps, not the service's, and nothing of the environment.

## 5. What is proved

TLAPS proves the following for every value of the constants, from the named
assumptions beside the constants (numbers are natural or positive, distinguished
values are not in the sets they are apart from). `PROJECT.json` lists each
theorem with the property it states.

**`GateClientsProofs`**: `GateAgrees`, `NoReplay`, `NoRevival`. One lemma for each
method of the gate says what is in its set of results; the invariant ties the
published lease to the backend's binding and the accepted numbers to
`_last_sequence`.

**`SupervisorProofs`**: `LeaseState`, `OriginPublishedInTheClear`, `StoppedIsForGood`
(assuming `~SignalInside`), and the refinement `KeepsPromise`. `LeaseState` is not
inductive: a thread inside `_lock` relies on the state it checked when it
entered, and the main thread, between a decision and its assignment, on the
state it decided from. The invariant is

    IInv == TypeOK /\ Backed /\ Placed /\ Adopted /\ AtRest /\ Deciding

`Backed` says in which states a lease may exist, `Placed` what a thread inside
`_lock` may rely on, `Adopted` that a display the process drives has no input
left over from another process, `AtRest` that a process which is down holds
nothing, and `Deciding` that only a signal changes the state the main thread
decided from. Each action is shown to be *good*: it keeps
`IInv` and is a step or a stutter of `InputAuthority`. Most follow from one of
five schemes: a calm step touches neither lease nor input, a use presses under a
lease, a grant creates one over neutral input, a strike ends one, a quiet step
changes bookkeeping.

**`PaidDirectionsProofs`**: `OneOwner`, `ToggledOnce`, `CountTrue`, `SuccessIsEarned`,
`InputIsAuthorized`, `OutcomeIsFinal`. The invariant says for each request, by the
state of its row, what its two steps may be, what was pressed, taken and read, and
what an agent in the middle of it knows: a capture that shows the expected screen
under a stamp from after the toggle is evidence of the kind that the source of
this agent can give.

**`AgentPartsProofs`**: `ClientSound`, `RouterSound`, `InputsAccounted`,
`RecordingTrue`, and the two safety parts of `VisionFenced`. The client's invariant says which outstanding
request is the current one, that what is on the books was sent, that epochs and
captures are ordered, and what a drain has saved. The router's says that an
expert is loaded once, that a bound option's experts are settled, and that a
load which comes in after a retirement is skipped. The runtime's says that a
dead lease holds nothing, what each reply still on its way would do, and that
saving comes last; the difficult case is a motor action that arrives after its
caller has given up. The recorder's

    RecorderIInv == RecorderTyped /\ WrittenReplays /\ LineWaits /\ Signalled /\ Counts

takes what is on disk, in the open shard, in the writer's hand and in the queue
as stretches of one recording: each `Replays` from the step and the action at
which the one before it ends, while any of it may still be written. `LineWaits`
also balances the books, written, dropped, held and waiting against counted, and
`Signalled` says that the end mark, of which there is one, is behind the last
sample. Four lemmas say what becomes of a stretch that is joined, lengthened,
begun or cut (`JoinedReplays`, `AppendedReplays`, `TailReplays`,
`PrefixReplays`); no induction over its length is needed, because `Replays` compares
neighbours only.

**`LifecycleProofs`**: `LifecycleSound`, `MenuSound`, `CaptureSound`, `InboxSound`,
`AnswersStand`. For the agent the
invariant adds: a PID goes to somebody else only when nothing of the agent that
had it is left (`Exclusive`); what each caller has read fits the process table
(`Fits`); and what it has concluded is so (`Knows`). For the pictures:
deeds are ordered in time, what is fresh is newer than the last deed, and a
stream's failures are counted against the allowance. For the operator's messages
the invariant `InboxIInv` follows each message through the places that remember it:
its row and the retry queue (`MessageSound`), the budget (`AttemptSound`), the
question the planner has (`AskedSound`) and the adopted plan (`PlannedSound`). Two
of its parts are not visible in the property: a correction that the planner is
asked about was not attempted yet, and a plan is never that of a correction; each
rests on who may be selected, which is why the proof needs that the newest of
several messages exists.

**`StackProofs`**: `StackSound`, from `StackAssumption` (a plan may name a service
twice; process numbers are recycled). At most one launcher is past the file lock
(`OnlyAtWork`); what it runs is on its own list before it is on the manifest
(`LauncherKnows`); every process and every one-shot resource of the stack is on the
manifest, with that launcher, or was lost (`KnownSomewhere`); while no step of a
rollback has failed, what still runs is on a record that is still to come
(`PendingStill`), so that nothing is left when a manifest without errors is
written (`NothingLeft`). Births are unique, which is what tells a recycled number
from the process that had it.

**`CognitionProofs`**: `RequestSound`, `AttackStands`, `CraftIsTrue`, `PlanSound`,
`DecisionSound`, `CommittedWhileCurrent`, `SettledOnce`. The decision's invariant is

    DecisionIInv == BoundTyped /\ Accounts /\ Queued /\ Working
                      /\ Turning /\ Publishing /\ Adopted

`Accounts` relates each request's disposition, notice and publication to its
future; `Queued` says that each request is in the deque once and that what is
queued or running is where `is_idle` can see it; `Working` and `Turning` tie the
two program counters to the futures they are about; `Publishing` says that a
commit in progress is of an open request under the current revisions, which is
where the locks of the operator come in; `Adopted`, that the decision in force
was committed or is being committed. Most steps of the runtime and the worker
only carry requests and futures forward (`Later`, `Further`), and one lemma for
each conjunct says so. The executor's invariant says that the guard remembers
all that is down, in every state of an action under way; it is void once a
skill is nested, which is the finding `skill_nesting`. The plan's invariant says
that what is blocked lies at or before the cursor and is never the method in force
(`GraphSound`), for plans of any length with any alternatives, and that what the
gathering of wood counts was picked up (`EarnedTrue`), so that a paid transaction
has its logs.

**`OperatorControlProofs`**: `OneAgent`, `StopsHold`, from `ControlAssumption` (which
processes, commands and bounds there are). A command is what is left of its
script, so nothing is left of the past but what lies ahead; the invariant

    ControlIInv == ControlTyped /\ Orders /\ Accounted /\ RevokedStands /\ OwedStands

is therefore first about scripts. `Ordered` says in which order the calls of a
command come, `Guarded` that the ones that launch, record, report or open a
session lie behind the lock they need and before its release, `Fresh` that both
are so of every script when it is taken up, those of the exceptions included;
what is true of a script is true of its rest. `Knows` is what a process may
rely on where it stands: a launch about to record finds no other descriptor, a
stop past its revocation finds no lease, a bedrock launch past its lock holds
the other one. `Accounted` says that every agent is on record, in the hands of
the one launch about to record it, or lost, from which `OneAgent` follows because the
operator lock has one owner; `RevokedStands` and `OwedStands`, that while a word
stands nobody is past the look that would have refused him. A step leaves a
script as it is (`Same`), takes the next call of it (`Onward`) or takes up
another one (`Anew`); one lemma for each action says which, and what it does to
the rest.

**Only model-checked.** What depends on liveness and fairness, which is beyond the
prover: `RunEnds`, the third part of `VisionFenced`,
`AuthorityEnds`, `OrphansReleased`, `TransactionsEnd`, `DirectionsEnd`,
`RequestsEnd`, `OperationsEnd`.

## 6. What the project found

Five runs expect a violation of what a document, a comment or a test says;
`PROJECT.json` quotes the lines.

- `cleanup_fails`: `_require_running_lease` revokes and then fails; when the
  release raises, `fail()` is never reached and the supervisor stays RUNNING
  without a lease (`supervisor.py:778`).
- `agent_probe_races`: `agent_alive()` without the operator's lock can unlink the
  descriptor of an agent launched meanwhile (`agent/lifecycle.py:255`).
- `emergency_respawn`: a launch past its last look at the marker spawns its agent
  after the emergency stop has swept and returned (`cli.py:478`).
- `skill_nesting`: a child that may not attack forgets the attack button its
  parent held (`control/execution.py:537`).
- `inbox_backlog`: the plan of an older request goes on after a correction
  without instruction text was answered (`runtime.py:4854`).

Seen while modelling or proving, with no run of their own because no line of the
repository says otherwise, or because the properties name the exception:

- A signal between the decision and the assignment of `disarm` or `fail` is
  overwritten (section 3, *Supervisor*).
- A receipt's count misses a toggle whose agent died before the commit; `CountTrue`
  excepts exactly these (`torn`).
- The third pickup of a gathering need not consume its plan node, as
  `runtime.py:1253` has it: a plan whose last decision names another goal, or
  whose step has another label, keeps the node (`runtime.py:4763-4784`).
- The ffmpeg stream stamps a picture when it has been read, not when it was
  taken (`platforms/ffmpeg_x11_capture.py:172`), so the first picture after a
  release may still show what was before it; only the second cannot. PipeWire's
  worker stamps late too (`platforms/_gnome_pipewire_worker.py:209`). With either, a
  direction can succeed on a picture from before its toggle, if the screen
  happened to be the expected one: `directions/gateway.py:769-776` means to refuse
  an older observation, and compares stamps.
- An agent that starts before its launcher has written its descriptor does not
  publish its pictures, although `agent/process.py:150` says that a spectator
  must reuse them.
- An acknowledgement that is lost to a busy writer, followed by a crash, lets a
  message with a budget be attempted twice; `InboxSound` excepts these (`unsure`).

Three corrections came from proofs. `AgentLifecycle!StateOf` was a `CASE` whose arms
overlapped, and so had no definite value; it is the chain of tests the code has.
What an emergency stop promises was not inductive: a reset and a resume beside a
stop still under way, for commands beyond the bound of the run, lift what it has
written before it gives its word, so `engaged` remembers which stops that happened to. And
a stop inside the supervisor kept its mark after it had given its lock back, so
that the end of a later supervisor would have started it over; `Unlock` drops it.

## 7. What is not modelled

Not modelled: the resident broker, the prompts and the validation of cognition,
the Bedrock session with its display, the native bridge, data, knowledge and
evaluation, and the numerical code of perception. Images, prompts, key maps,
geometry and wording are data everywhere; `PROJECT.json` gives each component's
reason. Memory is modelled for the recorder only.

--------------------------- MODULE AgentLifecycle ---------------------------
(***************************************************************************)
(* The agent process and its descriptor, agent/lifecycle.py.               *)
(*                                                                         *)
(* A launch spawns the agent as the leader of a process group of its own   *)
(* and writes a descriptor that names its PID, its start time and its      *)
(* command.  Everything that later stops or probes the agent starts from   *)
(* that file: it decides from /proc whether the PID still is the recorded  *)
(* agent, signals the group, waits, and removes the descriptor.  Between   *)
(* any two of those steps the agent may die, its workers may outlive it,   *)
(* the PID may go to somebody else, and another caller may act.            *)
(*                                                                         *)
(* A generation is one spawned agent.  The kernel hands out a PID only     *)
(* when no process has it and no process group bears it.                   *)
(***************************************************************************)
EXTENDS Integers, FiniteSets

CONSTANTS
  MaxGen,         \* bound: agents spawned
  Pids,           \* the PIDs that the kernel hands out here
  Callers,        \* processes that launch, stop and probe
  NoOne,          \* nobody holds the operator intent lock
  Unlocked        \* the operations that may be called without the operator intent lock

ASSUME GenAssumption == MaxGen \in Nat \ {0}
ASSUME CallerAssumption == NoOne \notin Callers
ASSUME UnlockedAssumption == Unlocked \subseteq {"stop", "probe"}

Gens == 1 .. MaxGen
NoGen == 0

VARIABLES
  leader,       \* the agent process of a generation
  workers,      \* does the generation's group hold live workers?
  pidOf,        \* the PID the generation was given
  other,        \* what a PID is to processes that are not agents
  desc,         \* the generation that agent-process.json names
  intent,       \* the holder of the operator intent lock
  unlocked,     \* the operations that are: fixed, a habit of the callers
  job,          \* what each caller is doing, and to which generation
  hit,          \* history: what a signal found a foreign group to be
  recorded,     \* history: generations that had a descriptor
  contained     \* history: generations whose end was reported

processes == <<leader, workers, pidOf, other>>
history == <<hit, recorded, contained>>
vars == <<processes, desc, intent, unlocked, job, history>>

Idle == [op |-> "none", at |-> "idle", agent |-> NoGen]

-----------------------------------------------------------------------------
(* What the kernel shows of a PID and of a group *)

\* Slip: workers that outlive the leader are not looked for.
LeaderAlive(p) ==
  \/ \E g \in Gens : pidOf[g] = p /\ leader[g] \in {"starting", "live"}
  \/ other[p] = "leader"

\* A group lives while a member is neither gone nor a zombie.
GroupAlive(p) ==
  \/ \E g \in Gens : pidOf[g] = p /\ (leader[g] \in {"starting", "live"} \/ workers[g])
  \/ other[p] \in {"leader", "orphans"}

\* The recorded leader is dead and only waits to be reaped.
OriginalZombie(g) == leader[g] = "zombie"

\* The verdict on the PID that the descriptor of generation g names.  An agent
\* whose command line cannot be read, or is not the recorded one, is nobody's.
StateOf(g) ==
  LET p == pidOf[g]
      Agent(h) == pidOf[h] = p /\ leader[h] \in {"starting", "live", "zombie"}
  IN  IF leader[g] = "live" THEN "verified-live"
      ELSE IF \E h \in Gens : Agent(h) THEN "unverifiable"
      ELSE IF other[p] \in {"leader", "member"} THEN "mismatch"
      ELSE "dead"

\* Slip: a PID that went to somebody else still gives authority over its group.
AuthorizedOnMismatch(g) == StateOf(g) # "unverifiable" \/ OriginalZombie(g)

Authorized(g) == StateOf(g) \in {"verified-live", "dead"} \/ OriginalZombie(g)

\* A PID can be handed out when nothing bears it.  SlowRecycling: it does not
\* return within the seconds in which the launch that spawned it cleans up.
Free(p) ==
  /\ other[p] = "none"
  /\ \A g \in Gens : pidOf[g] = p => leader[g] = "gone" /\ ~workers[g]
SlowRecycling(p) ==
  \A c \in Callers : job[c].op = "launch" /\ job[c].at \in {"identify", "persist", "settle", "term", "wait", "killwait"}
                        => pidOf[job[c].agent] # p

-----------------------------------------------------------------------------
(* The steps of a caller *)

At(c, op, step) == job[c].op = op /\ job[c].at = step
Goto(c, step) == job' = [job EXCEPT ![c].at = step] /\ UNCHANGED intent
Return(c) ==
  /\ job' = [job EXCEPT ![c] = Idle]
  /\ intent' = IF intent = c THEN NoOne ELSE intent

\* A signal to the group of g reaches whoever is in the group with that PID.
SignalGroup(g) == hit' = hit \cup ({other[pidOf[g]]} \cap {"leader", "orphans"})

\* Take the operator intent lock, unless called without it, and read the descriptor.
Enter(c, op, step) ==
  /\ job[c] = Idle
  /\ op \notin unlocked => intent = NoOne
  /\ intent' = IF op \in unlocked THEN intent ELSE c
  /\ job' = [job EXCEPT ![c] = [op |-> op, at |-> step, agent |-> desc]]
  /\ UNCHANGED <<processes, desc, history>>

ProbeLoad(c) == desc # NoGen /\ Enter(c, "probe", "examine")
StopLoad(c) == desc # NoGen /\ Enter(c, "stop", "examine")
LaunchLoad(c) == Enter(c, "launch", IF desc = NoGen THEN "spawn" ELSE "examine")

\* agent_alive: forget an agent that is gone with its whole group.
ProbeExamine(c) ==
  LET g == job[c].agent IN
  /\ At(c, "probe", "examine")
  /\ IF StateOf(g) \in {"dead", "mismatch"} /\ ~GroupAlive(pidOf[g])
     THEN Goto(c, "compare") ELSE Return(c)
  /\ UNCHANGED <<processes, desc, history>>

\* Slip: a dead leader is forgotten without a look at its group.
StopForgets(c) ==
  LET state == StateOf(job[c].agent) IN
  /\ At(c, "stop", "examine")
  /\ \/ state = "unverifiable" /\ ~OriginalZombie(job[c].agent) /\ Return(c)
     \/ (state \in {"dead", "mismatch"} \/ OriginalZombie(job[c].agent)) /\ Goto(c, "compare")
     \/ state = "verified-live" /\ Goto(c, "term")
  /\ UNCHANGED <<processes, desc, history>>

\* stop_agent_process up to its first signal.
StopExamine(c) ==
  LET g == job[c].agent
      state == StateOf(g)
      lost == state = "dead" \/ OriginalZombie(g)
  IN
  /\ At(c, "stop", "examine")
  /\ \/ state = "unverifiable" /\ ~lost /\ Return(c)
     \/ state = "mismatch" /\ Goto(c, "compare")
     \/ lost /\ ~GroupAlive(pidOf[g]) /\ Goto(c, "compare")
     \/ lost /\ GroupAlive(pidOf[g]) /\ Goto(c, "orphanterm")
     \/ state = "verified-live" /\ Goto(c, "term")
  /\ UNCHANGED <<processes, desc, history>>

\* TERM, to a leader whose identity still matches or to the group of a dead one.
\* It asks processes to exit, which they may do, or not, at any time.
StopTerm(c) ==
  LET g == job[c].agent
      permitted == \/ At(c, "stop", "term") /\ StateOf(g) = "verified-live"
                   \/ At(c, "stop", "orphanterm") /\ GroupAlive(pidOf[g]) /\ Authorized(g)
  IN
  /\ At(c, "stop", "term") \/ At(c, "stop", "orphanterm")
  /\ IF permitted THEN SignalGroup(g) /\ Goto(c, "grace") ELSE Return(c) /\ UNCHANGED hit
  /\ UNCHANGED <<processes, desc, recorded, contained>>

\* The bounded wait: it ends well only when it has seen the group dead.
GraceEnds(c) ==
  /\ At(c, "stop", "grace")
  /\ \/ ~GroupAlive(pidOf[job[c].agent]) /\ Goto(c, "confirm")
     \/ GroupAlive(pidOf[job[c].agent]) /\ Goto(c, "kill")
  /\ UNCHANGED <<processes, desc, history>>

\* KILL, after asking again whose group it is.
StopKill(c) ==
  LET g == job[c].agent IN
  /\ At(c, "stop", "kill")
  /\ IF Authorized(g)
     THEN SignalGroup(g) /\ Goto(c, "killwait")
     ELSE Return(c) /\ UNCHANGED hit
  /\ UNCHANGED <<processes, desc, recorded, contained>>

KillWaitEnds(c) ==
  /\ At(c, "stop", "killwait")
  /\ \/ ~GroupAlive(pidOf[job[c].agent]) /\ Goto(c, "confirm")
     \/ GroupAlive(pidOf[job[c].agent]) /\ Return(c)
  /\ UNCHANGED <<processes, desc, history>>

\* The stop is reported once the group is found dead again.
StopConfirm(c) ==
  LET g == job[c].agent IN
  /\ At(c, "stop", "confirm")
  /\ IF GroupAlive(pidOf[g])
     THEN Return(c) /\ UNCHANGED contained
     ELSE Goto(c, "compare") /\ contained' = contained \cup {g}
  /\ UNCHANGED <<processes, desc, hit, recorded>>

\* _remove_descriptor_if_owned reads the file, compares it and then unlinks
\* whatever bears the name.
AfterRemoval(c) == IF job[c].op = "launch" THEN Goto(c, "spawn") ELSE Return(c)

Compare(c) ==
  /\ job[c].at = "compare"
  /\ IF desc = job[c].agent THEN Goto(c, "unlink") ELSE AfterRemoval(c)
  /\ UNCHANGED <<processes, desc, history>>

Unlink(c) ==
  /\ job[c].at = "unlink"
  /\ desc' = NoGen
  /\ AfterRemoval(c)
  /\ UNCHANGED <<processes, history>>

-----------------------------------------------------------------------------
(* The steps of a launch; it always holds the operator intent lock *)

LaunchExamine(c) ==
  LET g == job[c].agent IN
  /\ At(c, "launch", "examine")
  /\ IF StateOf(g) \in {"verified-live", "unverifiable"} \/ GroupAlive(pidOf[g])
     THEN Return(c) ELSE Goto(c, "compare")
  /\ UNCHANGED <<processes, desc, history>>

Spawn(c) ==
  \E g \in Gens, p \in Pids :
    /\ At(c, "launch", "spawn")
    /\ leader[g] = "unborn" /\ \A h \in Gens : h < g => leader[h] # "unborn"
    /\ Free(p) /\ SlowRecycling(p)
    /\ leader' = [leader EXCEPT ![g] = "starting"]
    /\ pidOf' = [pidOf EXCEPT ![g] = p]
    /\ job' = [job EXCEPT ![c].at = "identify", ![c].agent = g]
    /\ UNCHANGED <<workers, other, desc, intent, history>>

\* Nothing is spawned: the error ends the launch.
SpawnFails(c) == At(c, "launch", "spawn") /\ Return(c) /\ UNCHANGED <<processes, desc, history>>

\* The parent reaps its dead child when it polls it.
Poll(g) == leader' = [leader EXCEPT ![g] = IF @ = "zombie" THEN "gone" ELSE @]

\* The identity read back from /proc is the command, or two seconds pass
\* without it, or the child is dead.
Identify(c) ==
  LET g == job[c].agent IN
  /\ At(c, "launch", "identify")
  /\ \/ leader[g] = "live" /\ Goto(c, "persist") /\ UNCHANGED leader
     \/ leader[g] # "live" /\ Goto(c, "term") /\ Poll(g)
  /\ UNCHANGED <<workers, pidOf, other, desc, history>>

Persist(c) ==
  /\ At(c, "launch", "persist")
  /\ \/ desc' = job[c].agent /\ recorded' = recorded \cup {desc'} /\ Goto(c, "settle")
     \/ UNCHANGED <<desc, recorded>> /\ Goto(c, "term")
  /\ UNCHANGED <<processes, hit, contained>>

Settle(c) ==
  LET g == job[c].agent IN
  /\ At(c, "launch", "settle")
  /\ Poll(g)
  /\ IF leader[g] \in {"zombie", "gone"} THEN Goto(c, "term") ELSE Return(c)
  /\ UNCHANGED <<workers, pidOf, other, desc, history>>

\* A failed launch contains what it spawned: TERM, a second, KILL, a second.
CleanupTerm(c) ==
  LET g == job[c].agent IN
  /\ At(c, "launch", "term")
  /\ SignalGroup(g)
  /\ Goto(c, "wait")
  /\ UNCHANGED <<processes, desc, recorded, contained>>

Contained(c) == Goto(c, "disown") /\ contained' = contained \cup {job[c].agent}

CleanupWait(c) ==
  LET g == job[c].agent IN
  /\ At(c, "launch", "wait")
  /\ Poll(g)
  /\ \/ ~GroupAlive(pidOf[g]) /\ Contained(c) /\ UNCHANGED hit
     \/ GroupAlive(pidOf[g]) /\ Goto(c, "killwait") /\ SignalGroup(g) /\ UNCHANGED contained
  /\ UNCHANGED <<workers, pidOf, other, desc, recorded>>

CleanupKillWait(c) ==
  LET g == job[c].agent IN
  /\ At(c, "launch", "killwait")
  /\ Poll(g)
  /\ \/ ~GroupAlive(pidOf[g]) /\ Contained(c)
     \/ GroupAlive(pidOf[g]) /\ Return(c) /\ UNCHANGED contained
  /\ UNCHANGED <<workers, pidOf, other, desc, hit, recorded>>

\* The descriptor of the failed launch goes, read and unlinked as in Compare
\* and Unlink; only then does the launch report its error.
Disown(c) ==
  /\ At(c, "launch", "disown")
  /\ IF desc = job[c].agent THEN Goto(c, "disowned") ELSE Return(c)
  /\ UNCHANGED <<processes, desc, history>>
Disowned(c) ==
  /\ At(c, "launch", "disowned")
  /\ desc' = NoGen
  /\ Return(c)
  /\ UNCHANGED <<processes, history>>

-----------------------------------------------------------------------------
(* The processes themselves *)

\* exec has replaced the forked interpreter: the command can be read.
Exec(g) == leader[g] = "starting" /\ leader' = [leader EXCEPT ![g] = "live"] /\ UNCHANGED <<workers, pidOf, other>>

Fork(g) == leader[g] = "live" /\ workers' = [workers EXCEPT ![g] = TRUE] /\ UNCHANGED <<leader, pidOf, other>>

\* The leader ends: by itself, by TERM or by KILL.  Its workers need not.
LeaderExits(g) ==
  /\ leader[g] \in {"starting", "live"}
  /\ leader' = [leader EXCEPT ![g] = "zombie"]
  /\ UNCHANGED <<workers, pidOf, other>>

Reaped(g) == leader[g] = "zombie" /\ leader' = [leader EXCEPT ![g] = "gone"] /\ UNCHANGED <<workers, pidOf, other>>

WorkersExit(g) == workers[g] /\ workers' = [workers EXCEPT ![g] = FALSE] /\ UNCHANGED <<leader, pidOf, other>>

\* A process that is no agent gets the PID, as a group leader or not.
ForeignStarts(p) ==
  /\ Free(p) /\ SlowRecycling(p)
  /\ \E kind \in {"leader", "member"} : other' = [other EXCEPT ![p] = kind]
  /\ UNCHANGED <<leader, workers, pidOf>>

ForeignEnds(p) ==
  /\ other[p] # "none"
  /\ \/ other' = [other EXCEPT ![p] = "none"]
     \/ other[p] = "leader" /\ other' = [other EXCEPT ![p] = "orphans"]
  /\ UNCHANGED <<leader, workers, pidOf>>

ProcessStep ==
  /\ \/ \E g \in Gens : Exec(g) \/ Fork(g) \/ LeaderExits(g) \/ Reaped(g) \/ WorkersExit(g)
     \/ \E p \in Pids : ForeignStarts(p) \/ ForeignEnds(p)
  /\ UNCHANGED <<desc, intent, job, history>>

\* The caller is killed between any two steps; the kernel releases its lock.
CallerDies(c) ==
  /\ job[c] # Idle
  /\ Return(c)
  /\ UNCHANGED <<processes, desc, history>>

-----------------------------------------------------------------------------
Init ==
  /\ leader = [g \in Gens |-> "unborn"]
  /\ workers = [g \in Gens |-> FALSE]
  /\ pidOf = [g \in Gens |-> 0]
  /\ other = [p \in Pids |-> "none"]
  /\ desc = NoGen
  /\ intent = NoOne
  /\ unlocked \in SUBSET Unlocked
  /\ job = [c \in Callers |-> Idle]
  /\ hit = {}
  /\ recorded = {} /\ contained = {}

Probe(c) == ProbeLoad(c) \/ ProbeExamine(c)
Stop(c) ==
  \/ StopLoad(c) \/ StopExamine(c) \/ StopTerm(c) \/ GraceEnds(c)
  \/ StopKill(c) \/ KillWaitEnds(c) \/ StopConfirm(c)
Launch(c) ==
  \/ LaunchLoad(c) \/ LaunchExamine(c) \/ Spawn(c) \/ SpawnFails(c) \/ Identify(c) \/ Persist(c)
  \/ Settle(c) \/ CleanupTerm(c) \/ CleanupWait(c) \/ CleanupKillWait(c) \/ Disown(c) \/ Disowned(c)
Remove(c) == Compare(c) \/ Unlink(c)

Next ==
  /\ \/ \E c \in Callers : Probe(c) \/ Stop(c) \/ Launch(c) \/ Remove(c) \/ CallerDies(c)
     \/ ProcessStep
  /\ UNCHANGED unlocked
Spec == Init /\ [][Next]_vars

-----------------------------------------------------------------------------
(* Properties *)

Groups == {g \in Gens : leader[g] \in {"starting", "live"} \/ workers[g]}

\* Types; the lock is held by a caller that is doing something; a launch that
\* has spawned names its generation.
TypeOK ==
  /\ leader \in [Gens -> {"unborn", "starting", "live", "zombie", "gone"}]
  /\ workers \in [Gens -> BOOLEAN]
  /\ pidOf \in [Gens -> Pids \cup {0}]
  /\ other \in [Pids -> {"none", "leader", "member", "orphans"}]
  /\ desc \in recorded \cup {NoGen}
  /\ recorded \subseteq Gens /\ contained \subseteq Gens
  /\ hit \subseteq {"leader", "orphans"}
  /\ intent \in Callers \cup {NoOne} /\ unlocked \subseteq Unlocked
  /\ \A c \in Callers :
        /\ intent = c => (job[c] # Idle)
        /\ (job[c].op = "launch") => (intent = c)
        /\ (job[c].op \in {"stop", "probe"}) => (job[c].agent \in recorded)

\* No signal of a stop or of a failed launch reaches a live process group that
\* is not the recorded agent's, although PIDs are used again and leaders die
\* while their workers are waited for (lifecycle.py:395-401, 413-426).  A
\* foreign group whose own leader is dead looks like the orphans of the agent.
ForeignLeadersSpared == "leader" \notin hit

\* When stop_agent_process returns True, or a failed launch reports that it is
\* contained, no process of that agent is left: neither the leader nor a
\* worker that outlived it (lifecycle.py:242-245, 512-569).
ReportedEndIsTrue == contained \cap Groups = {}

\* An agent that was recorded stays recorded while any process of its group
\* lives, so that status, pause and stop find it and a second launch is
\* refused (lifecycle.py:110-126, 248-257).
Tracked == \A g \in recorded \cap Groups : desc = g

\* That holds when every caller takes the lock.
TrackedUnderLock == unlocked = {} => Tracked

\* What a stop, a failed launch and a probe may be relied upon for: only the
\* agent's own processes are signalled, a reported end is one, and nobody who
\* lives is forgotten (lifecycle.py:205-260, 395-426).
LifecycleSound == TypeOK /\ ForeignLeadersSpared /\ ReportedEndIsTrue /\ TrackedUnderLock
=============================================================================

---------------------------- MODULE StackLifecycle ----------------------------
(***************************************************************************)
(* PortableStackLauncher of stack_lifecycle.py: it starts the services of  *)
(* a plan in dependency order, rolls back what it owns when one fails, and *)
(* leaves a manifest from which another process can stop or restart the    *)
(* stack.  Between two operations only the manifest, the processes and the *)
(* resources that one-shot commands created remain; a launcher may die     *)
(* between any two steps and a manifest may fail to be written.            *)
(*                                                                         *)
(* A process group is known by its number, which the kernel gives out      *)
(* again when the group is empty, and by a birth (start ticks and command  *)
(* line), which it never does.                                             *)
(***************************************************************************)
EXTENDS Naturals, Sequences, FiniteSets

CONSTANTS Launchers,     \* processes that run start() and stop()
          NoLauncher,    \* the owner of a free lifecycle lock
          Plan,          \* the services, in the order of ordered_services()
          Mode,          \* daemon, oneshot or external
          Numbers,       \* process (and group) numbers
          MaxOperations, \* operations begun in a behaviour
          MaxBirths,     \* processes ever born
          MaxFailures    \* failures that need not happen

ASSUME StackAssumption ==
    /\ Launchers # {} /\ NoLauncher \notin Launchers
    /\ Plan \in Seq({Plan[i] : i \in DOMAIN Plan})
    /\ Mode \in [{Plan[i] : i \in DOMAIN Plan} -> {"daemon", "oneshot", "external"}]
    /\ \A i \in DOMAIN Plan : Plan[i] \notin {"others", "none"}
    /\ Numbers \subseteq Nat \ {0}
    /\ MaxOperations \in Nat /\ MaxBirths \in Nat /\ MaxFailures \in Nat

VARIABLES
    manifest,   \* the file: a phase and the records, or NoManifest
    flock,      \* who holds lifecycle.lock
    run,        \* what each launcher is doing
    group,      \* the process groups
    births,     \* processes born so far
    resource,   \* what each one-shot service is to establish: none, ours, theirs, unclear
    helper,     \* one-shot commands that still run
    world,      \* external services that answer, and endpoints others serve
    lost,       \* what no manifest and no launcher names any more
    harmed,     \* what was stopped and was not ours to stop
    spent       \* operations and failures so far

machine   == <<group, births, resource, helper, world>>
stackVars == <<manifest, flock, run, machine, lost, harmed, spent>>

Services == {Plan[i] : i \in DOMAIN Plan}
Of(mode) == {s \in Services : Mode[s] = mode}
NoPid    == 0
NoManifest == [phase |-> "none", records |-> <<>>]
Others   == "others"
NoGroup  == [of |-> "none", birth |-> 0, leader |-> FALSE, rest |-> FALSE]
Resting  == [at |-> "rest", after |-> "none", i |-> 0, records |-> <<>>, pid |-> NoPid,
             children |-> {}, errors |-> FALSE]

Fails == spent.failures < MaxFailures /\ spent' = [spent EXCEPT !.failures = @ + 1]
Works == UNCHANGED spent

-----------------------------------------------------------------------------
(***************************************************************************)
(* What the launcher can find out.  A retained child that still runs is    *)
(* proof of ownership; otherwise the leader must have the recorded birth,  *)
(* or be gone while its group is not.                                      *)
(***************************************************************************)
GroupLives(p) == group[p].leader \/ group[p].rest

Matches(r) ==
    \/ group[r.pid].leader /\ group[r.pid].birth = r.birth
    \/ ~group[r.pid].leader /\ group[r.pid].rest /\ r.birth # 0

OwnChild(l, p) == \E c \in run[l].children : c.pid = p /\ group[p].leader /\ group[p].birth = c.birth

\* Slip: a living process with the recorded number is taken for the recorded one.
MaySignalByNumber(l, r) == GroupLives(r.pid)

MaySignal(l, r) == OwnChild(l, r.pid) \/ Matches(r)

\* Somebody answers for the service: one of its processes, the resource, the outside world.
Answers(s) ==
    \/ s \in world
    \/ \E p \in Numbers : group[p].of = s /\ group[p].leader
    \/ Mode[s] = "oneshot" /\ resource[s] # "none"

RecordHealthy(r) ==
    IF r.owned /\ r.pid # NoPid THEN group[r.pid].leader /\ group[r.pid].birth = r.birth
    ELSE Answers(r.of)

ManifestHealthy ==
    /\ {manifest.records[i].of : i \in DOMAIN manifest.records} = Services
    /\ \A i \in DOMAIN manifest.records : RecordHealthy(manifest.records[i])

-----------------------------------------------------------------------------
Released(records) ==
    [i \in DOMAIN records |-> [records[i] EXCEPT !.owned = FALSE, !.pid = NoPid, !.birth = 0]]

\* Slip: the records are released although a service would not stop.
KeptNever(o) == Released(o.records)

Kept(o) == IF o.errors THEN o.records ELSE Released(o.records)

Owned(records) == {records[i] : i \in {j \in DOMAIN records : records[j].owned}}
Births(records) == {r.birth : r \in {q \in Owned(records) : q.pid # NoPid}}
Oneshots(records) == {r.of : r \in {q \in Owned(records) : q.pid = NoPid}}

\* persist replaces the file as a whole or not at all.
Persists(phase, records) == manifest' = [phase |-> phase, records |-> records] /\ Works
PersistFails == Fails /\ UNCHANGED manifest

To(l, o)  == run' = [run EXCEPT ![l] = o]
Hold      == UNCHANGED flock
Leaves(l) == To(l, Resting) /\ flock' = NoLauncher

\* What this launcher alone knows of, processes and one-shot services.
OnlyBirths(l) ==
    (Births(run[l].records) \cup {c.birth : c \in run[l].children}) \ Births(manifest.records)
OnlyOneshots(l) ==
    (Oneshots(run[l].records)
        \cup (IF run[l].at = "announce" /\ run[l].pid = NoPid THEN {Plan[run[l].i]} ELSE {}))
      \ Oneshots(manifest.records)

\* Once it is gone, nobody knows of it.
Forgets(l) == lost' = [births |-> lost.births \cup OnlyBirths(l),
                       oneshots |-> lost.oneshots \cup OnlyOneshots(l)]

Raise(l) == To(l, [run[l] EXCEPT !.at = "unwind"]) /\ Hold

-----------------------------------------------------------------------------
\* The lock is never waited for: a second launcher is refused.
Begin(l) ==
    /\ run[l].at = "rest" /\ flock = NoLauncher
    /\ spent.operations < MaxOperations
    /\ spent' = [spent EXCEPT !.operations = @ + 1]
    /\ flock' = l
    /\ \E what \in {"start", "stop"} : To(l, [Resting EXCEPT !.at = "load", !.after = what])
    /\ UNCHANGED <<manifest, machine, lost, harmed>>

(***************************************************************************)
(* A running, healthy stack is left alone by start(); everything else on   *)
(* the manifest is rolled back first, by start() as by stop().             *)
(***************************************************************************)
Load(l) ==
    /\ run[l].at = "load"
    /\ \/ /\ manifest = NoManifest /\ UNCHANGED manifest /\ Works
          /\ IF run[l].after = "stop" THEN Leaves(l)
             ELSE To(l, [run[l] EXCEPT !.at = "fresh"]) /\ Hold
       \/ /\ run[l].after = "start" /\ manifest.phase = "running" /\ ManifestHealthy
          /\ Leaves(l) /\ UNCHANGED manifest /\ Works
       \/ /\ manifest # NoManifest
          /\ \/ /\ ~(run[l].after = "start" /\ manifest.phase = "running" /\ ManifestHealthy)
                /\ Persists(IF run[l].after = "stop" THEN "stopping" ELSE "rolling_back",
                            manifest.records)
                /\ To(l, [run[l] EXCEPT !.at = "roll", !.records = manifest.records,
                                        !.i = Len(manifest.records)])
                /\ Hold
             \/ PersistFails /\ Leaves(l)
    /\ UNCHANGED <<machine, lost, harmed>>

(***************************************************************************)
(* _rollback: the owned records in reverse, each to the end; an error is   *)
(* noted and the others still have their turn.                             *)
(***************************************************************************)
Rolling(l) == run[l].at = "roll" /\ run[l].i > 0
Item(l)    == run[l].records[run[l].i]
Rolled(l, failed) ==
    To(l, [run[l] EXCEPT !.at = "roll", !.i = @ - 1, !.errors = @ \/ failed]) /\ Hold

Skip(l) ==
    /\ Rolling(l)
    /\ ~Item(l).owned \/ (Item(l).pid # NoPid /\ ~GroupLives(Item(l).pid))
    /\ Rolled(l, FALSE)
    /\ UNCHANGED <<manifest, machine, lost, harmed, spent>>

\* The inverse command of a one-shot waits for a command that still runs.
Undo(l) ==
    /\ Rolling(l) /\ Item(l).owned /\ Item(l).pid = NoPid
    /\ LET s == Item(l).of IN
       \/ /\ ~helper[s]
          /\ resource' = [resource EXCEPT ![s] = "none"]
          /\ harmed' = IF resource[s] = "theirs" THEN harmed \cup {s} ELSE harmed
          /\ Rolled(l, FALSE) /\ Works
       \/ /\ Fails \/ (helper[s] /\ Works)
          /\ Rolled(l, TRUE) /\ UNCHANGED <<resource, harmed>>
    /\ UNCHANGED <<manifest, group, births, helper, world, lost>>

Foreign(p) == group[p].of = Others /\ group[p].leader

Signal(l, p) ==
    harmed' = IF Foreign(p) THEN harmed \cup {p} ELSE harmed

Term(l) ==
    /\ Rolling(l) /\ Item(l).owned /\ Item(l).pid # NoPid /\ GroupLives(Item(l).pid)
    /\ IF MaySignal(l, Item(l))
       THEN Signal(l, Item(l).pid) /\ To(l, [run[l] EXCEPT !.at = "grace"]) /\ Hold
       ELSE Rolled(l, TRUE) /\ UNCHANGED harmed
    /\ UNCHANGED <<manifest, machine, lost, spent>>

\* The grace period ends; the identity is looked at once more before SIGKILL.
Kill(l) ==
    /\ run[l].at = "grace"
    /\ LET r == Item(l) IN
       IF ~GroupLives(r.pid) THEN Rolled(l, FALSE) /\ Works /\ UNCHANGED <<group, harmed>>
       ELSE IF ~MaySignal(l, r) THEN Rolled(l, TRUE) /\ Works /\ UNCHANGED <<group, harmed>>
       ELSE /\ Signal(l, r.pid)
            /\ \/ group' = [group EXCEPT ![r.pid] = NoGroup] /\ Rolled(l, FALSE) /\ Works
               \/ Fails /\ UNCHANGED group /\ Rolled(l, TRUE)
    /\ UNCHANGED <<manifest, births, resource, helper, world, lost>>

\* What follows a rollback: a new start, or the end of a stop or of a failed start.
Conclude(l) ==
    /\ run[l].at = "roll" /\ run[l].i = 0
    /\ \/ /\ Persists(IF run[l].errors \/ run[l].after = "unwound" THEN "failed" ELSE "stopped",
                      Kept(run[l]))
          /\ IF run[l].after = "start" /\ ~run[l].errors
             THEN To(l, [run[l] EXCEPT !.at = "fresh"]) /\ Hold
             ELSE Leaves(l)
          /\ UNCHANGED lost
       \/ PersistFails /\ Leaves(l) /\ Forgets(l)
    /\ UNCHANGED <<machine, harmed>>

-----------------------------------------------------------------------------
Fresh(l) ==
    /\ run[l].at = "fresh"
    /\ \/ Persists("starting", <<>>)
          /\ To(l, [Resting EXCEPT !.at = "service", !.after = "start", !.i = 1]) /\ Hold
       \/ PersistFails /\ Leaves(l)
    /\ UNCHANGED <<machine, lost, harmed>>

Record(s, owned, pid, birth) == [of |-> s, owned |-> owned, pid |-> pid, birth |-> birth]
Starting(l) == run[l].at = "service" /\ run[l].i <= Len(Plan)
Service(l)  == Plan[run[l].i]
Onwards(l, records) ==
    To(l, [run[l] EXCEPT !.at = "service", !.i = @ + 1, !.pid = NoPid, !.records = records]) /\ Hold

\* A service that answers is used and not owned; an external one must answer.
Reuse(l) ==
    /\ Starting(l) /\ Answers(Service(l))
    /\ LET records == Append(run[l].records, Record(Service(l), FALSE, NoPid, 0)) IN
       \/ Persists("starting", records) /\ Onwards(l, records)
       \/ /\ PersistFails
          /\ To(l, [run[l] EXCEPT !.at = "unwind", !.records = records]) /\ Hold
    /\ UNCHANGED <<machine, lost, harmed>>

Missing(l) ==
    /\ Starting(l) /\ Mode[Service(l)] = "external"
    /\ (~Answers(Service(l)) /\ Works) \/ Fails
    /\ Raise(l)
    /\ UNCHANGED <<manifest, machine, lost, harmed>>

\* The child runs before anything on disk says so.
SpawnDaemon(l) ==
    /\ Starting(l) /\ Mode[Service(l)] = "daemon"
    /\ (~Answers(Service(l)) /\ Works) \/ Fails
    /\ births < MaxBirths /\ births' = births + 1
    /\ \E p \in {q \in Numbers : ~GroupLives(q)} :
          /\ group' = [group EXCEPT ![p] =
                          [of |-> Service(l), birth |-> births + 1, leader |-> TRUE, rest |-> FALSE]]
          /\ To(l, [run[l] EXCEPT !.at = "announce", !.pid = p,
                                  !.children = @ \cup {[pid |-> p, birth |-> births + 1]}])
    /\ Hold
    /\ UNCHANGED <<manifest, resource, helper, world, lost, harmed>>

\* From here on the launcher undoes the resource, also one whose health check failed.
SpawnOneshot(l) ==
    /\ Starting(l) /\ Mode[Service(l)] = "oneshot"
    /\ ~helper[Service(l)]
    /\ (~Answers(Service(l)) /\ Works) \/ Fails
    /\ helper' = [helper EXCEPT ![Service(l)] = TRUE]
    /\ resource' = [resource EXCEPT ![Service(l)] = IF @ = "none" THEN @ ELSE "unclear"]
    /\ To(l, [run[l] EXCEPT !.at = "announce"]) /\ Hold
    /\ UNCHANGED <<manifest, group, births, world, lost, harmed>>

\* The birth of the child just spawned; 0 for a one-shot, which has no process to keep.
NewestBirth(l) ==
    LET spawned == {c.birth : c \in {k \in run[l].children : k.pid = run[l].pid}} IN
    IF spawned = {} THEN 0 ELSE CHOOSE b \in spawned : \A a \in spawned : a <= b

(***************************************************************************)
(* record_started: the record is appended in memory and then written.  If  *)
(* that fails a one-shot helper is killed at once; the rollback knows the  *)
(* record all the same.  A daemon may have no identity to record (birth 0) *)
(* and the start then fails after the record.                              *)
(***************************************************************************)
Announce(l) ==
    /\ run[l].at = "announce"
    /\ LET s == Service(l)
           own == NewestBirth(l)
           records(b) == Append(run[l].records, Record(s, TRUE, run[l].pid, b)) IN
       \/ /\ Persists("starting", records(own))
          /\ To(l, [run[l] EXCEPT !.at = IF run[l].pid = NoPid THEN "wait" ELSE "ready",
                                  !.records = records(own)]) /\ Hold
          /\ UNCHANGED helper
       \/ /\ run[l].pid # NoPid /\ Fails
          /\ manifest' = [phase |-> "starting", records |-> records(0)]
          /\ To(l, [run[l] EXCEPT !.at = "unwind", !.records = records(0)]) /\ Hold
          /\ UNCHANGED helper
       \/ /\ PersistFails
          /\ helper' = IF run[l].pid = NoPid THEN [helper EXCEPT ![s] = FALSE] ELSE helper
          /\ To(l, [run[l] EXCEPT !.at = "unwind", !.records = records(own)]) /\ Hold
    /\ UNCHANGED <<group, births, resource, world, lost, harmed>>

\* The helper returns, fails, or is killed at the deadline; what it made may be there.
Await(l) ==
    /\ run[l].at = "wait"
    /\ helper' = [helper EXCEPT ![Service(l)] = FALSE]
    /\ \/ ~helper[Service(l)] /\ Works /\ To(l, [run[l] EXCEPT !.at = "ready"]) /\ Hold
       \/ helper[Service(l)] /\ Fails /\ Raise(l)
    /\ UNCHANGED <<manifest, group, births, resource, world, lost, harmed>>

Ready(l) ==
    /\ run[l].at = "ready"
    /\ \/ RecordHealthy(run[l].records[Len(run[l].records)]) /\ Works /\ Onwards(l, run[l].records)
       \/ (~RecordHealthy(run[l].records[Len(run[l].records)]) /\ Works) /\ Raise(l)
       \/ Fails /\ Raise(l)
    /\ UNCHANGED <<manifest, machine, lost, harmed>>

\* The last write is outside the try: the services stay, under "starting".
Finish(l) ==
    /\ run[l].at = "service" /\ run[l].i > Len(Plan)
    /\ Leaves(l)
    /\ Persists("running", run[l].records) \/ PersistFails
    /\ UNCHANGED <<machine, lost, harmed>>

Unwind(l) ==
    /\ run[l].at = "unwind"
    /\ Persists("rolling_back", run[l].records) \/ PersistFails
    /\ To(l, [run[l] EXCEPT !.at = "roll", !.after = "unwound", !.i = Len(run[l].records)]) /\ Hold
    /\ UNCHANGED <<machine, lost, harmed>>

-----------------------------------------------------------------------------
\* The launcher is killed; the kernel frees its lock, its children live on.
Dies(l) ==
    /\ run[l].at # "rest" /\ Fails
    /\ Forgets(l)
    /\ Leaves(l)
    /\ UNCHANGED <<manifest, machine, harmed>>

HelperWorks(s) ==
    /\ helper[s]
    /\ \/ /\ resource' = [resource EXCEPT ![s] = IF @ = "none" THEN "ours" ELSE "unclear"]
          /\ helper' = [helper EXCEPT ![s] = FALSE]
       \/ /\ resource[s] = "none" /\ resource' = [resource EXCEPT ![s] = "ours"]
          /\ UNCHANGED helper
    /\ UNCHANGED <<manifest, flock, run, group, births, world, lost, harmed, spent>>

\* A service ends or leaves descendants behind; a free number goes to others.
GroupChanges(p) ==
    /\ \/ /\ group[p].leader
          /\ \E rest \in {FALSE, group[p].of # Others} :
                group' = [group EXCEPT ![p] = IF rest THEN [@ EXCEPT !.leader = FALSE, !.rest = TRUE]
                                              ELSE NoGroup]
          /\ UNCHANGED births
       \/ /\ ~group[p].leader /\ group[p].rest
          /\ group' = [group EXCEPT ![p] = NoGroup] /\ UNCHANGED births
       \/ /\ ~GroupLives(p) /\ births < MaxBirths /\ births' = births + 1
          /\ group' = [group EXCEPT ![p] =
                          [of |-> Others, birth |-> births + 1, leader |-> TRUE, rest |-> FALSE]]
    /\ UNCHANGED <<manifest, flock, run, resource, helper, world, lost, harmed, spent>>

\* Others start or stop the resource by hand, and external services come and go.
OthersAct ==
    /\ \/ \E s \in Of("oneshot") :
             /\ ~helper[s]
             /\ resource' = [resource EXCEPT ![s] =
                   IF @ # "none" THEN "none"
                   ELSE IF s \in Oneshots(manifest.records) \cup UNION {OnlyOneshots(l) : l \in Launchers}
                        THEN "unclear" ELSE "theirs"]
             /\ UNCHANGED world
       \/ /\ \E s \in Of("external") : world' = (world \ {s}) \cup ({s} \ world)
          /\ UNCHANGED resource
    /\ UNCHANGED <<manifest, flock, run, group, births, helper, lost, harmed, spent>>

StackInit ==
    /\ manifest = NoManifest /\ flock = NoLauncher
    /\ run = [l \in Launchers |-> Resting]
    /\ group = [p \in Numbers |-> NoGroup] /\ births = 0
    /\ resource = [s \in Of("oneshot") |-> "none"]
    /\ helper = [s \in Of("oneshot") |-> FALSE]
    /\ world = Of("external")
    /\ lost = [births |-> {}, oneshots |-> {}] /\ harmed = {}
    /\ spent = [operations |-> 0, failures |-> 0]

Launching(l) ==
    \/ Fresh(l) \/ Reuse(l) \/ Missing(l) \/ SpawnDaemon(l) \/ SpawnOneshot(l)
    \/ Announce(l) \/ Await(l) \/ Ready(l) \/ Finish(l) \/ Unwind(l)
Stopping(l) == Skip(l) \/ Undo(l) \/ Term(l) \/ Kill(l) \/ Conclude(l)
Launcher(l) == Begin(l) \/ Load(l) \/ Launching(l) \/ Stopping(l)

StackNext ==
    \/ \E l \in Launchers : Launcher(l) \/ Dies(l)
    \/ \E s \in Of("oneshot") : HelperWorks(s)
    \/ \E p \in Numbers : GroupChanges(p)
    \/ OthersAct

StackSpec == StackInit /\ [][StackNext]_stackVars

-----------------------------------------------------------------------------
(***************************************************************************)
(* Whatever the stack started and still runs is on the manifest as owned,  *)
(* in the hands of a launcher at work, or was forgotten when a launcher    *)
(* died or the disk failed before it could be written.  So STOPPED, and    *)
(* FAILED with released records, mean that nothing of it runs.             *)
(***************************************************************************)
StackAccounted ==
    LET AtWork == {l \in Launchers : run[l].at # "rest"} IN
    /\ \A p \in Numbers : group[p].of \in Services =>
          \/ group[p].birth \in Births(manifest.records) \cup lost.births
          \/ \E l \in AtWork : group[p].birth \in OnlyBirths(l)
          \/ \E r \in Owned(manifest.records) : r.pid = p
    /\ \A s \in Of("oneshot") : resource[s] = "ours" \/ helper[s] =>
          \/ s \in Oneshots(manifest.records) \cup lost.oneshots
          \/ \E l \in AtWork : s \in OnlyOneshots(l)

(***************************************************************************)
(* No group with a living foreign leader is signalled, though its number   *)
(* was one of ours; and a resource that somebody established after the     *)
(* stack had released its own is never undone.                             *)
(***************************************************************************)
OthersSpared == harmed = {}

(***************************************************************************)
(* The stack answers for all of its own, and touches nothing else.         *)
(***************************************************************************)
StackSound == StackAccounted /\ OthersSpared
=============================================================================

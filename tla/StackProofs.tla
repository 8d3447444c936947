---------------------------- MODULE StackProofs ----------------------------
(***************************************************************************)
(* Proofs about the stack of services: for any plan, launchers, process    *)
(* numbers and operations, over crashes of launchers, a failing disk,      *)
(* recycled numbers and others who use the same resources.                 *)
(***************************************************************************)
EXTENDS StackLifecycle, TLAPS

(***************************************************************************)
(* The stack of services.  At most one launcher is at work, under the      *)
(* lifecycle lock; the invariant says what it knows, and where everything  *)
(* that still runs is written down.                                        *)
(***************************************************************************)
StackSteps == {"rest", "load", "roll", "grace", "fresh", "service", "announce", "wait", "ready",
               "unwind"}
StackPids == Numbers \cup {NoPid}
StackRecords == [of : Services, owned : BOOLEAN, pid : StackPids, birth : Nat]
StackGroups == [of : Services \cup {Others, "none"}, birth : Nat, leader : BOOLEAN, rest : BOOLEAN]
StackChildren == [pid : Numbers, birth : Nat]
StackRuns == [at : StackSteps, after : {"none", "start", "stop", "unwound"}, i : Nat,
              records : Seq(StackRecords), pid : StackPids, children : SUBSET StackChildren,
              errors : BOOLEAN]
StackPhases == {"none", "starting", "running", "rolling_back", "stopping", "stopped", "failed"}

StackTyped ==
  /\ manifest \in [phase : StackPhases, records : Seq(StackRecords)]
  /\ flock \in Launchers \cup {NoLauncher} /\ run \in [Launchers -> StackRuns]
  /\ group \in [Numbers -> StackGroups] /\ births \in Nat
  /\ resource \in [Of("oneshot") -> {"none", "ours", "theirs", "unclear"}]
  /\ helper \in [Of("oneshot") -> BOOLEAN]
  /\ lost \in [births : SUBSET Nat, oneshots : SUBSET Services]

\* A group that is empty has no name and no birth; every birth is given out once.
BirthsUnique ==
  \A p \in Numbers :
    /\ ~GroupLives(p) => group[p] = NoGroup
    /\ GroupLives(p) => group[p].of # "none" /\ group[p].birth \in 1 .. births
    /\ \A q \in Numbers : GroupLives(p) /\ GroupLives(q) /\ group[p].birth = group[q].birth => p = q

\* Birth b is none or was given to a process of the stack: who has it, has number p.
NamesOurs(p, b) ==
  /\ b <= births
  /\ \A q \in Numbers : GroupLives(q) /\ group[q].birth = b => q = p /\ group[q].of # Others

\* A record names a process of the stack, or a one-shot that nobody else established.
RecordOurs(r) ==
  /\ r.pid # NoPid => NamesOurs(r.pid, r.birth)
  /\ r.pid = NoPid => r.of \in Of("oneshot") /\ resource[r.of] # "theirs"

NamedOurs(o) ==
  /\ \A r \in Owned(manifest.records) \cup Owned(o.records) : RecordOurs(r)
  /\ \A c \in o.children : NamesOurs(c.pid, c.birth)

\* A one-shot runs, or is about to be, without a record of it yet.
Unannounced(o) == IF o.at = "announce" /\ o.pid = NoPid THEN {Plan[o.i]} ELSE {}

\* What a launcher knows at each step, and what the manifest says of it.
LauncherKnows(o) ==
  /\ o.at = "rest" => o = Resting
  /\ o.at = "load" => o.children = {} /\ o.records = <<>> /\ ~o.errors
  /\ o.at \in {"service", "announce", "wait", "ready", "unwind"} => ~o.errors
  /\ o.at = "fresh" => Owned(manifest.records) = {}
  /\ o.at \in {"service", "announce", "wait", "ready"} =>
        manifest.records = o.records /\ o.i \in 1 .. Len(Plan) + 1
  /\ o.at \in {"announce", "wait", "ready"} => o.i <= Len(Plan)
  /\ o.at \in {"wait", "ready"} => o.records # <<>>
  /\ o.at \in {"roll", "grace", "unwind"} => Owned(manifest.records) \subseteq Owned(o.records)
  /\ o.at \in {"roll", "grace"} => o.i <= Len(o.records)
  /\ o.at = "grace" => o.i > 0 /\ o.records[o.i].owned /\ o.records[o.i].pid # NoPid
  /\ o.at = "service" => o.pid = NoPid
  /\ o.at = "announce" /\ o.pid = NoPid =>
        Plan[o.i] \in Of("oneshot") /\ resource[Plan[o.i]] # "theirs"
  /\ o.at = "announce" /\ o.pid # NoPid =>
        \E c \in o.children : c.pid = o.pid /\ \A d \in o.children : d.birth <= c.birth
  /\ \A c \in o.children : \/ \E r \in Owned(o.records) : r.pid = c.pid
                           \/ o.at = "announce" /\ o.pid = c.pid

\* Every process and every one-shot of the stack is lost, on the manifest or known.
KnownSomewhere(o) ==
  /\ \A p \in Numbers : group[p].of \in Services =>
        \/ group[p].birth \in lost.births
        \/ \E r \in Owned(manifest.records) : r.pid = p
        \/ \E c \in o.children : c.birth = group[p].birth
  /\ \A s \in Of("oneshot") : resource[s] = "ours" \/ helper[s] =>
        s \in lost.oneshots \cup Oneshots(manifest.records) \cup Oneshots(o.records) \cup Unannounced(o)

\* While no step of a rollback has failed, whatever still runs is on a record to come.
PendingStill(o) ==
  o.at \in {"roll", "grace"} /\ ~o.errors =>
    /\ \A p \in Numbers : group[p].of \in Services =>
          \/ group[p].birth \in lost.births
          \/ \E j \in 1 .. o.i : o.records[j].owned /\ o.records[j].pid = p
    /\ \A s \in Of("oneshot") : resource[s] = "ours" \/ helper[s] =>
          \/ s \in lost.oneshots
          \/ \E j \in 1 .. o.i : o.records[j].owned /\ o.records[j].pid = NoPid /\ o.records[j].of = s

\* Before a new start nothing of an earlier one runs but what was lost.
NothingLeft(o) ==
  o.at = "fresh" =>
    /\ \A p \in Numbers : group[p].of \in Services => group[p].birth \in lost.births
    /\ \A s \in Of("oneshot") : resource[s] = "ours" \/ helper[s] => s \in lost.oneshots

OnlyAtWork(l) ==
  /\ \A k \in Launchers \ {l} : run[k] = Resting
  /\ run[l].at # "rest" => flock = l

StackIInv ==
  /\ StackTyped /\ BirthsUnique /\ OthersSpared
  /\ \E l \in Launchers :
       /\ OnlyAtWork(l) /\ NamedOurs(run[l]) /\ LauncherKnows(run[l]) /\ KnownSomewhere(run[l])
       /\ PendingStill(run[l]) /\ NothingLeft(run[l])

\* The invariant with the launcher at work named.
StackIInvAt(l) ==
  /\ StackTyped /\ BirthsUnique /\ OthersSpared
  /\ OnlyAtWork(l) /\ NamedOurs(run[l]) /\ LauncherKnows(run[l]) /\ KnownSomewhere(run[l])
  /\ PendingStill(run[l]) /\ NothingLeft(run[l])

\* What the assumption says of the services, the numbers and the plan.
LEMMA StackFacts ==
  /\ Plan \in Seq(Services) /\ Len(Plan) \in Nat /\ DOMAIN Plan = 1 .. Len(Plan)
  /\ Mode \in [Services -> {"daemon", "oneshot", "external"}]
  /\ Others \notin Services /\ "none" \notin Services /\ Others # "none"
  /\ \A p \in Numbers : p \in Nat /\ p # NoPid
  /\ \A mode : Of(mode) \subseteq Services
  /\ \A i \in 1 .. Len(Plan) : Plan[i] \in Services
<1>1. Plan \in Seq(Services)
  BY StackAssumption DEF Services
<1>2. Len(Plan) \in Nat /\ DOMAIN Plan = 1 .. Len(Plan)
  BY <1>1
<1>3. \A s \in Services : \E i \in DOMAIN Plan : s = Plan[i]
  BY DEF Services
<1>4. Others \notin Services /\ "none" \notin Services
  BY <1>3, StackAssumption DEF Others
<1> QED
  BY <1>1, <1>2, <1>3, <1>4, StackAssumption DEF Services, Of, Others, NoPid

\* What the owned records of a list are.
LEMMA OwnedRecords ==
  ASSUME NEW s \in Seq(StackRecords)
  PROVE  /\ \A r : r \in Owned(s) <=> \E j \in 1 .. Len(s) : s[j].owned /\ r = s[j]
         /\ \A r \in Owned(s) : r \in StackRecords /\ r.owned
<1>1. DOMAIN s = 1 .. Len(s) /\ \A j \in DOMAIN s : s[j] \in StackRecords
  OBVIOUS
<1>2. \A r : r \in Owned(s) <=> \E j \in {i \in DOMAIN s : s[i].owned} : r = s[j]
  BY DEF Owned
<1>3. \A r : r \in Owned(s) <=> \E j \in 1 .. Len(s) : s[j].owned /\ r = s[j]
  BY <1>1, <1>2
<1> QED
  BY <1>1, <1>3

\* The owned records after one more was written down.
LEMMA OwnedAppend ==
  ASSUME NEW s \in Seq(StackRecords), NEW r \in StackRecords
  PROVE  /\ Append(s, r) \in Seq(StackRecords)
         /\ Owned(Append(s, r)) = Owned(s) \cup (IF r.owned THEN {r} ELSE {})
<1>1. Append(s, r) \in Seq(StackRecords) /\ Len(Append(s, r)) = Len(s) + 1
      /\ \A j \in 1 .. Len(s) + 1 : Append(s, r)[j] = IF j = Len(s) + 1 THEN r ELSE s[j]
  OBVIOUS
<1>2. ASSUME NEW q PROVE q \in Owned(Append(s, r)) <=> q \in Owned(s) \cup (IF r.owned THEN {r} ELSE {})
  <2>1. Len(s) \in Nat
    OBVIOUS
  <2>2. q \in Owned(s) <=> \E j \in 1 .. Len(s) : s[j].owned /\ q = s[j]
    BY OwnedRecords
  <2>4. PICK t \in Seq(StackRecords) : t = Append(s, r)
    BY <1>1
  <2>5. q \in Owned(t) <=> \E j \in 1 .. Len(t) : t[j].owned /\ q = t[j]
    BY OwnedRecords
  <2>3. q \in Owned(Append(s, r)) <=>
              (\E j \in 1 .. Len(s) : s[j].owned /\ q = s[j]) \/ (r.owned /\ q = r)
    BY <1>1, <2>1, <2>4, <2>5
  <2> QED
    BY <2>2, <2>3
<1> QED
  BY <1>1, <1>2

\* A list without owned records: the empty one, and one that was released.
LEMMA OwnedNone ==
  /\ <<>> \in Seq(StackRecords) /\ Owned(<<>>) = {}
  /\ \A s \in Seq(StackRecords) : Released(s) \in Seq(StackRecords) /\ Owned(Released(s)) = {}
<1>1. <<>> \in Seq(StackRecords) /\ Len(<<>>) = 0
  OBVIOUS
<1>2. Owned(<<>>) = {}
  <2>1. {j \in DOMAIN <<>> : <<>>[j].owned} = {}
    BY <1>1
  <2> QED
    BY <2>1 DEF Owned
<1>3. ASSUME NEW s \in Seq(StackRecords) PROVE Released(s) \in Seq(StackRecords) /\ Owned(Released(s)) = {}
  <2>1. \A j \in DOMAIN s : s[j] \in StackRecords
    OBVIOUS
  <2>2. \A j \in DOMAIN s : /\ [s[j] EXCEPT !.owned = FALSE, !.pid = NoPid, !.birth = 0] \in StackRecords
                            /\ ~[s[j] EXCEPT !.owned = FALSE, !.pid = NoPid, !.birth = 0].owned
    BY <2>1 DEF StackRecords, StackPids
  <2>3. Released(s) = [j \in 1 .. Len(s) |->
                         [s[j] EXCEPT !.owned = FALSE, !.pid = NoPid, !.birth = 0]]
    BY DEF Released
  <2>4. Len(s) \in Nat /\ DOMAIN s = 1 .. Len(s)
    OBVIOUS
  <2>9. Released(s) \in [1 .. Len(s) -> StackRecords]
    BY <2>2, <2>3, <2>4
  <2>5. Released(s) \in Seq(StackRecords)
    BY <2>4, <2>9
  <2>6. DOMAIN Released(s) = 1 .. Len(s) /\ \A j \in 1 .. Len(s) : ~Released(s)[j].owned
    BY <2>2, <2>3, <2>4
  <2>7. \A j \in DOMAIN Released(s) : ~Released(s)[j].owned
    BY <2>6
  <2>8. {j \in DOMAIN Released(s) : Released(s)[j].owned} = {}
    BY <2>7
  <2> QED
    BY <2>5, <2>8 DEF Owned
<1> QED
  BY <1>1, <1>2, <1>3

\* A launcher that acts is the one at work, or nobody is.
LEMMA TheOneAtWork ==
  ASSUME StackIInv, NEW l \in Launchers, run[l].at # "rest" \/ flock = NoLauncher
  PROVE  StackIInvAt(l) /\ run[l] \in StackRuns
<1>1. PICK k \in Launchers :
       /\ OnlyAtWork(k) /\ NamedOurs(run[k]) /\ LauncherKnows(run[k]) /\ KnownSomewhere(run[k])
       /\ PendingStill(run[k]) /\ NothingLeft(run[k])
  BY DEF StackIInv
<1>2. Resting.at = "rest"
  BY DEF Resting
<1>3. k = l \/ (run[l] = Resting /\ run[k] = Resting)
  BY <1>1, <1>2, StackAssumption DEF OnlyAtWork, LauncherKnows
<1>4. OnlyAtWork(l)
  BY <1>1, <1>2, <1>3 DEF OnlyAtWork
<1>5. run[l] = run[k]
  BY <1>3
<1>6. NamedOurs(run[l]) /\ LauncherKnows(run[l]) /\ KnownSomewhere(run[l])
       /\ PendingStill(run[l]) /\ NothingLeft(run[l])
  BY <1>1, <1>5
<1> QED
  BY <1>4, <1>6 DEF StackIInv, StackIInvAt, StackTyped

\* Whoever is at work, the invariant holds of somebody.
LEMMA AtWorkSuffices == ASSUME NEW l \in Launchers, StackIInvAt(l)' PROVE StackIInv'
BY DEF StackIInv, StackIInvAt

\* What a step of a launcher leaves of the others.
LEMMA LauncherMoves ==
  ASSUME NEW l \in Launchers, StackIInvAt(l), NEW o \in StackRuns, run' = [run EXCEPT ![l] = o],
         o.at = "rest" \/ flock' = l
  PROVE  run'[l] = o /\ run' \in [Launchers -> StackRuns] /\ OnlyAtWork(l)'
<1>1. run'[l] = o /\ run' \in [Launchers -> StackRuns] /\ \A k \in Launchers \ {l} : run'[k] = run[k]
  BY DEF StackIInvAt, StackTyped
<1> QED
  BY <1>1 DEF StackIInvAt, OnlyAtWork

\* A step of a launcher that touches no process: what is left to show of it.
LEMMA LauncherKeeps ==
  ASSUME NEW l \in Launchers, StackIInvAt(l), NEW o \in StackRuns, run' = [run EXCEPT ![l] = o],
         o.at = "rest" \/ flock' = l, flock' \in Launchers \cup {NoLauncher},
         UNCHANGED machine, UNCHANGED harmed,
         manifest' \in [phase : StackPhases, records : Seq(StackRecords)],
         lost' \in [births : SUBSET Nat, oneshots : SUBSET Services],
         Owned(manifest'.records) \cup Owned(o.records)
            \subseteq Owned(manifest.records) \cup Owned(run[l].records),
         o.children \subseteq run[l].children,
         LauncherKnows(o)', KnownSomewhere(o)', PendingStill(o)', NothingLeft(o)'
  PROVE  StackIInvAt(l)'
<1>1. run'[l] = o /\ run' \in [Launchers -> StackRuns] /\ OnlyAtWork(l)'
  BY LauncherMoves
<1>2. StackTyped' /\ BirthsUnique' /\ OthersSpared'
  BY <1>1 DEF StackIInvAt, StackTyped, BirthsUnique, OthersSpared, machine, GroupLives
<1>3. \A p, b : NamesOurs(p, b) => NamesOurs(p, b)'
  BY DEF NamesOurs, GroupLives, machine
<1>4. \A r : RecordOurs(r) => RecordOurs(r)'
  BY <1>3 DEF RecordOurs, machine
<1>5. NamedOurs(run[l])
  BY DEF StackIInvAt
<1>6. NamedOurs(o)'
  BY <1>3, <1>4, <1>5 DEF NamedOurs
<1>7. NamedOurs(run[l])' /\ LauncherKnows(run[l])' /\ KnownSomewhere(run[l])'
       /\ PendingStill(run[l])' /\ NothingLeft(run[l])'
  BY <1>1, <1>6
<1> QED
  BY <1>1, <1>2, <1>7 DEF StackIInvAt

\* A launcher at rest knows of nothing.
LEMMA RestingFacts ==
  /\ Resting \in StackRuns /\ Resting.at = "rest" /\ Resting.children = {} /\ Resting.records = <<>>
  /\ Resting.pid = NoPid /\ Resting.i = 0 /\ ~Resting.errors
  /\ Owned(Resting.records) = {} /\ Oneshots(Resting.records) = {} /\ Unannounced(Resting) = {}
<1>1. <<>> \in Seq(StackRecords)
  BY OwnedNone
<1>2. Resting \in StackRuns
  BY <1>1 DEF Resting, StackRuns, StackSteps, StackPids
<1> QED
  BY <1>2, OwnedNone DEF Resting, Oneshots, Unannounced

\* A process of the stack that runs has a birth, and the number a child of that birth has.
LEMMA LiveService ==
  ASSUME StackTyped, BirthsUnique, NEW p \in Numbers, group[p].of \in Services
  PROVE  /\ GroupLives(p) /\ group[p].birth \in 1 .. births
         /\ \A q \in Numbers, b \in Nat : NamesOurs(q, b) /\ b = group[p].birth => q = p
BY StackFacts DEF BirthsUnique, NoGroup, NamesOurs

\* The one-shot services of a list are those of its owned records without a number.
LEMMA OneshotOf ==
  ASSUME NEW s PROVE \A x : x \in Oneshots(s) <=> \E r \in Owned(s) : r.pid = NoPid /\ x = r.of
BY DEF Oneshots

\* What is known stays known while no process is touched.
LEMMA KnownKept ==
  ASSUME StackTyped, BirthsUnique, NEW before \in StackRuns, NEW after \in StackRuns,
         NamedOurs(before), KnownSomewhere(before), UNCHANGED machine,
         lost.births \subseteq lost'.births, lost.oneshots \subseteq lost'.oneshots,
         Owned(manifest.records) \subseteq Owned(manifest'.records),
         \A c \in before.children : \/ c \in after.children \/ c.birth \in lost'.births
                                    \/ c.birth \in Births(manifest.records)
                                    \/ \E r \in Owned(manifest'.records) : r.pid = c.pid,
         Oneshots(before.records) \cup Unannounced(before) \subseteq
            lost'.oneshots \cup Oneshots(manifest'.records) \cup Oneshots(after.records)
              \cup Unannounced(after)
  PROVE  KnownSomewhere(after)'
<1>1. ASSUME NEW p \in Numbers, group[p].of \in Services
      PROVE  \/ group[p].birth \in lost'.births
             \/ \E r \in Owned(manifest'.records) : r.pid = p
             \/ \E c \in after.children : c.birth = group[p].birth
  <2>1. CASE \E c \in before.children : c.birth = group[p].birth
    <3>1. PICK c \in before.children : c.birth = group[p].birth
      BY <2>1
    <3>2. c.pid \in Numbers /\ c.birth \in Nat /\ NamesOurs(c.pid, c.birth)
      BY DEF StackRuns, StackChildren, NamedOurs
    <3>3. c.pid = p
      BY <1>1, <3>1, <3>2, LiveService
    <3>4. ASSUME c.birth \in Births(manifest.records)
          PROVE  \E r \in Owned(manifest'.records) : r.pid = p
      <4>1. PICK r \in Owned(manifest.records) : r.pid # NoPid /\ r.birth = c.birth
        BY <3>4 DEF Births
      <4>2. NamesOurs(r.pid, r.birth)
        BY <4>1 DEF NamedOurs, RecordOurs
      <4>3. r.pid = p
        BY <1>1, <3>1, <4>1, <4>2, LiveService DEF NamesOurs
      <4> QED
        BY <4>1, <4>3
    <3> QED
      BY <3>1, <3>3, <3>4
  <2> QED
    BY <1>1, <2>1 DEF KnownSomewhere
<1>2. ASSUME NEW s \in Of("oneshot"), resource[s] = "ours" \/ helper[s]
      PROVE  s \in lost'.oneshots \cup Oneshots(manifest'.records) \cup Oneshots(after.records)
                     \cup Unannounced(after)
  <2>1. Oneshots(manifest.records) \subseteq Oneshots(manifest'.records)
    BY OneshotOf
  <2> QED
    BY <1>2, <2>1 DEF KnownSomewhere
<1>3. Unannounced(after)' = Unannounced(after) /\ \A s : Oneshots(s)' = Oneshots(s)
  BY DEF Unannounced, Oneshots, Owned
<1> QED
  BY <1>1, <1>2, <1>3 DEF KnownSomewhere, machine

\* A launcher that gives up its lock leaves what it knew on the manifest, or lost.
LEMMA LeavingKeeps ==
  ASSUME NEW l \in Launchers, StackIInvAt(l), Leaves(l), UNCHANGED machine, UNCHANGED harmed,
         manifest' \in [phase : StackPhases, records : Seq(StackRecords)],
         lost' \in [births : SUBSET Nat, oneshots : SUBSET Services],
         Owned(manifest'.records) \subseteq Owned(manifest.records) \cup Owned(run[l].records),
         KnownSomewhere(Resting)'
  PROVE  StackIInvAt(l)'
<1>1. LauncherKnows(Resting)' /\ PendingStill(Resting)' /\ NothingLeft(Resting)'
  BY RestingFacts DEF LauncherKnows, PendingStill, NothingLeft
<1>2. run' = [run EXCEPT ![l] = Resting] /\ flock' = NoLauncher
  BY DEF Leaves, To
<1>3. Resting.children \subseteq run[l].children /\ Resting.at = "rest" /\ Resting \in StackRuns
      /\ Owned(manifest'.records) \cup Owned(Resting.records)
            \subseteq Owned(manifest.records) \cup Owned(run[l].records)
  BY RestingFacts
<1> QED
  BY <1>1, <1>2, <1>3, LauncherKeeps

\* A launcher takes the lock.
LEMMA BeginKeeps == ASSUME NEW l \in Launchers, StackIInvAt(l), Begin(l) PROVE StackIInvAt(l)'
<1>1. run[l] = Resting /\ flock' = l /\ UNCHANGED <<manifest, machine, lost, harmed>>
  BY DEF Begin, StackIInvAt, LauncherKnows
<1>2. PICK what \in {"start", "stop"} :
        run' = [run EXCEPT ![l] = [Resting EXCEPT !.at = "load", !.after = what]]
  BY DEF Begin, To
<1>3. PICK o : o = [Resting EXCEPT !.at = "load", !.after = what]
  OBVIOUS
<1>4. /\ o.at = "load" /\ o.records = <<>> /\ o.children = {} /\ ~o.errors /\ o \in StackRuns
      /\ Unannounced(o) = {}
  BY <1>3, OwnedNone DEF Resting, StackRuns, StackSteps, StackPids, Unannounced
<1>5. LauncherKnows(o)' /\ PendingStill(o)' /\ NothingLeft(o)'
  BY <1>4 DEF LauncherKnows, PendingStill, NothingLeft
<1>6. KnownSomewhere(o)'
  BY <1>1, <1>4, KnownKept, RestingFacts DEF StackIInvAt
<1>7. Owned(manifest'.records) \cup Owned(o.records) \subseteq Owned(manifest.records) \cup Owned(run[l].records)
  BY <1>1, <1>4, RestingFacts
<1> QED
  BY <1>1, <1>2, <1>3, <1>4, <1>5, <1>6, <1>7, LauncherKeeps, RestingFacts DEF StackIInvAt, StackTyped

\* What the manifest says goes into the hands of the launcher that rolls it back.
LEMMA LoadKeeps == ASSUME NEW l \in Launchers, StackIInvAt(l), Load(l) PROVE StackIInvAt(l)'
<1>1. /\ run[l].at = "load" /\ flock = l /\ UNCHANGED <<machine, lost, harmed>> /\ run[l] \in StackRuns
      /\ run[l].children = {} /\ run[l].records = <<>> /\ ~run[l].errors
      /\ Owned(run[l].records) = {} /\ Oneshots(run[l].records) = {} /\ Unannounced(run[l]) = {}
  BY OwnedNone DEF Load, StackIInvAt, OnlyAtWork, LauncherKnows, StackTyped, Oneshots, Unannounced
<1>2. /\ manifest \in [phase : StackPhases, records : Seq(StackRecords)]
      /\ lost \in [births : SUBSET Nat, oneshots : SUBSET Services]
  BY DEF StackIInvAt, StackTyped
<1>3. CASE Leaves(l) /\ UNCHANGED manifest
  <2>1. KnownSomewhere(Resting)'
    BY <1>1, <1>3, KnownKept, RestingFacts DEF StackIInvAt
  <2> QED
    BY <1>1, <1>2, <1>3, <2>1, LeavingKeeps
<1>4. CASE manifest = NoManifest /\ UNCHANGED manifest /\ Hold /\ To(l, [run[l] EXCEPT !.at = "fresh"])
  <2>1. PICK o : o = [run[l] EXCEPT !.at = "fresh"]
    OBVIOUS
  <2>2. /\ o.at = "fresh" /\ o.records = <<>> /\ o.children = {} /\ ~o.errors /\ o \in StackRuns
        /\ Unannounced(o) = {} /\ run' = [run EXCEPT ![l] = o] /\ flock' = l
    BY <1>1, <1>4, <2>1 DEF StackRuns, StackSteps, Unannounced, To, Hold
  <2>3. Owned(manifest.records) = {} /\ Oneshots(manifest.records) = {}
    BY <1>4, OwnedNone DEF NoManifest, Oneshots
  <2>4. NothingLeft(run[l]) /\ KnownSomewhere(run[l])
    BY DEF StackIInvAt
  <2>5. LauncherKnows(o)' /\ PendingStill(o)'
    BY <1>4, <2>2, <2>3 DEF LauncherKnows, PendingStill
  <2>6. NothingLeft(o)'
    BY <1>1, <2>2, <2>3, <2>4 DEF NothingLeft, KnownSomewhere, machine
  <2>7. KnownSomewhere(o)'
    BY <1>1, <1>4, <2>2, KnownKept DEF StackIInvAt
  <2> QED
    BY <1>1, <1>2, <1>4, <2>2, <2>3, <2>5, <2>6, <2>7, LauncherKeeps
<1>5. CASE /\ \E phase \in StackPhases : manifest' = [phase |-> phase, records |-> manifest.records]
           /\ To(l, [run[l] EXCEPT !.at = "roll", !.records = manifest.records,
                                   !.i = Len(manifest.records)])
           /\ Hold
  <2>1. PICK o : o = [run[l] EXCEPT !.at = "roll", !.records = manifest.records,
                                   !.i = Len(manifest.records)]
    OBVIOUS
  <2>2. /\ o.at = "roll" /\ o.records = manifest.records /\ o.children = {} /\ ~o.errors
        /\ o.i = Len(manifest.records) /\ o \in StackRuns
        /\ Unannounced(o) = {} /\ run' = [run EXCEPT ![l] = o] /\ flock' = l
    <3>1. manifest.records \in Seq(StackRecords) /\ Len(manifest.records) \in Nat
      BY <1>2
    <3>2. run' = [run EXCEPT ![l] = o] /\ flock' = l
      BY <1>1, <1>5, <2>1 DEF To, Hold
    <3>3. /\ o.at = "roll" /\ o.records = manifest.records /\ o.children = {} /\ ~o.errors
          /\ o.i = Len(manifest.records) /\ o \in StackRuns
      BY <1>1, <2>1, <3>1 DEF StackRuns, StackSteps
    <3> QED
      BY <3>2, <3>3 DEF Unannounced
  <2>3. manifest'.records = manifest.records
        /\ manifest' \in [phase : StackPhases, records : Seq(StackRecords)]
    BY <1>2, <1>5
  <2>4. KnownSomewhere(run[l])
    BY DEF StackIInvAt
  <2>5. LauncherKnows(o)' /\ NothingLeft(o)'
    BY <1>2, <2>2, <2>3 DEF LauncherKnows, NothingLeft
  <2>6. \A r \in Owned(manifest.records) :
          \E j \in 1 .. o.i : o.records[j].owned /\ r = o.records[j]
    BY <1>2, <2>2, OwnedRecords
  <2>7. \A p \in Numbers : group[p].of \in Services =>
          \/ group[p].birth \in lost.births
          \/ \E j \in 1 .. o.i : o.records[j].owned /\ o.records[j].pid = p
    BY <1>1, <2>4, <2>6 DEF KnownSomewhere
  <2>8. \A s \in Of("oneshot") : resource[s] = "ours" \/ helper[s] =>
          \/ s \in lost.oneshots
          \/ \E j \in 1 .. o.i : o.records[j].owned /\ o.records[j].pid = NoPid /\ o.records[j].of = s
    BY <1>1, <2>4, <2>6, OneshotOf DEF KnownSomewhere
  <2>9. PendingStill(o)'
    BY <1>1, <2>7, <2>8 DEF PendingStill, machine
  <2>10. KnownSomewhere(o)'
    BY <1>1, <2>2, <2>3, KnownKept DEF StackIInvAt
  <2> QED
    BY <1>1, <1>2, <2>2, <2>3, <2>5, <2>9, <2>10, LauncherKeeps
<1> QED
  BY <1>3, <1>4, <1>5 DEF Load, Persists, PersistFails, StackPhases

\* What the rollback is at, and what it makes of an item.
LEMMA RollingFacts ==
  ASSUME NEW l \in Launchers, StackIInvAt(l), run[l].at \in {"roll", "grace"}, run[l].i > 0
  PROVE  /\ flock = l /\ run[l] \in StackRuns /\ run[l].i \in 1 .. Len(run[l].records)
         /\ run[l].records \in Seq(StackRecords) /\ Item(l) \in StackRecords
         /\ Item(l) = run[l].records[run[l].i]
         /\ Item(l).owned => RecordOurs(Item(l)) /\ Item(l) \in Owned(run[l].records)
         /\ Unannounced(run[l]) = {}
<1>1. run[l] \in StackRuns /\ flock = l /\ run[l].i <= Len(run[l].records)
  BY DEF StackIInvAt, StackTyped, OnlyAtWork, LauncherKnows
<1>2. run[l].i \in Nat /\ run[l].records \in Seq(StackRecords) /\ Unannounced(run[l]) = {}
  BY <1>1 DEF StackRuns, Unannounced
<1>3. run[l].i \in 1 .. Len(run[l].records)
  BY <1>1, <1>2
<1>4. Item(l) \in StackRecords /\ Item(l) = run[l].records[run[l].i]
  BY <1>2, <1>3 DEF Item
<1>5. Item(l).owned => Item(l) \in Owned(run[l].records)
  BY <1>2, <1>3, <1>4, OwnedRecords
<1> QED
  BY <1>1, <1>2, <1>3, <1>4, <1>5 DEF StackIInvAt, NamedOurs

\* The launcher after an item of the rollback.
LEMMA RolledFacts ==
  ASSUME NEW l \in Launchers, StackIInvAt(l), run[l].at \in {"roll", "grace"}, run[l].i > 0,
         NEW failed \in BOOLEAN, Rolled(l, failed)
  PROVE  \E o \in StackRuns :
           /\ o.at = "roll" /\ o.i = run[l].i - 1 /\ o.records = run[l].records
           /\ o.children = run[l].children /\ o.errors = (run[l].errors \/ failed)
           /\ run' = [run EXCEPT ![l] = o] /\ flock' = l /\ Unannounced(o) = {}
<1>1. PICK o : o = [run[l] EXCEPT !.at = "roll", !.i = @ - 1, !.errors = @ \/ failed]
  OBVIOUS
<1>2. flock = l /\ run[l] \in StackRuns /\ run[l].i \in Nat /\ run[l].i - 1 \in Nat
  BY RollingFacts DEF StackRuns
<1>3. (run[l].errors \/ failed) \in BOOLEAN
  BY <1>2 DEF StackRuns
<1>4. /\ o.at = "roll" /\ o.i = run[l].i - 1 /\ o.records = run[l].records
      /\ o.children = run[l].children /\ o.errors = (run[l].errors \/ failed) /\ o \in StackRuns
  BY <1>1, <1>2, <1>3 DEF StackRuns, StackSteps
<1> QED
  BY <1>1, <1>2, <1>4 DEF Rolled, To, Hold, Unannounced

\* The item is dealt with, and no process was touched.
LEMMA RolledKeeps ==
  ASSUME NEW l \in Launchers, StackIInvAt(l), run[l].at \in {"roll", "grace"}, run[l].i > 0,
         NEW failed \in BOOLEAN, Rolled(l, failed), UNCHANGED <<manifest, machine, lost, harmed>>,
         \/ failed \/ ~Item(l).owned
         \/ Item(l).pid # NoPid /\ ~GroupLives(Item(l).pid)
  PROVE  StackIInvAt(l)'
<1>1. PICK o \in StackRuns :
           /\ o.at = "roll" /\ o.i = run[l].i - 1 /\ o.records = run[l].records
           /\ o.children = run[l].children /\ o.errors = (run[l].errors \/ failed)
           /\ run' = [run EXCEPT ![l] = o] /\ flock' = l /\ Unannounced(o) = {}
  BY RolledFacts
<1>2. /\ run[l] \in StackRuns /\ run[l].i \in 1 .. Len(run[l].records) /\ Item(l) = run[l].records[run[l].i]
      /\ Unannounced(run[l]) = {} /\ Item(l) \in StackRecords
  BY RollingFacts
<1>3. LauncherKnows(run[l]) /\ PendingStill(run[l]) /\ KnownSomewhere(run[l])
  BY DEF StackIInvAt
<1>4. LauncherKnows(o)' /\ NothingLeft(o)'
  BY <1>1, <1>2, <1>3 DEF LauncherKnows, NothingLeft
<1>5. KnownSomewhere(o)'
  BY <1>1, <1>2, KnownKept DEF StackIInvAt
<1>6. PendingStill(o)'
  <2>1. SUFFICES ASSUME ~o.errors PROVE PendingStill(o)'
    BY DEF PendingStill
  <2>2. ~failed /\ ~run[l].errors /\ (~Item(l).owned \/ (Item(l).pid # NoPid /\ ~GroupLives(Item(l).pid)))
    BY <1>1, <2>1
  <2>3. ASSUME NEW p \in Numbers, group[p].of \in Services
        PROVE  \/ group[p].birth \in lost.births
               \/ \E j \in 1 .. o.i : o.records[j].owned /\ o.records[j].pid = p
    <3>1. GroupLives(p) /\ p # NoPid
      BY <2>3, LiveService, StackFacts DEF StackIInvAt
    <3> QED
      BY <1>1, <1>2, <1>3, <2>2, <2>3, <3>1 DEF PendingStill
  <2>4. ASSUME NEW s \in Of("oneshot"), resource[s] = "ours" \/ helper[s]
        PROVE  \/ s \in lost.oneshots
               \/ \E j \in 1 .. o.i : o.records[j].owned /\ o.records[j].pid = NoPid /\ o.records[j].of = s
    BY <1>1, <1>2, <1>3, <2>2, <2>4 DEF PendingStill
  <2> QED
    BY <2>3, <2>4 DEF PendingStill, machine
<1> QED
  BY <1>1, <1>4, <1>5, <1>6, LauncherKeeps DEF StackIInvAt, StackTyped

\* What is not owned, or no longer runs, is passed over.
LEMMA SkipKeeps == ASSUME NEW l \in Launchers, StackIInvAt(l), Skip(l) PROVE StackIInvAt(l)'
BY RolledKeeps DEF Skip, Rolling

\* The groups after one of them lost a process, or is gone.
LEMMA GroupsFewer ==
  ASSUME StackTyped, BirthsUnique, NEW p \in Numbers, NEW g \in StackGroups,
         group' = [group EXCEPT ![p] = g], births' = births,
         \/ g = NoGroup
         \/ GroupLives(p) /\ g.of = group[p].of /\ g.birth = group[p].birth /\ (g.leader \/ g.rest)
  PROVE  /\ group' \in [Numbers -> StackGroups] /\ BirthsUnique'
         /\ \A q, b : NamesOurs(q, b) => NamesOurs(q, b)'
         /\ \A q \in Numbers : group'[q].of \in Services =>
               group'[q].of = group[q].of /\ group'[q].birth = group[q].birth
<1>1. group' \in [Numbers -> StackGroups] /\ group'[p] = g
      /\ \A q \in Numbers \ {p} : group'[q] = group[q]
  BY DEF StackTyped
<1>2. NoGroup.of \notin Services /\ ~NoGroup.leader /\ ~NoGroup.rest
  BY StackFacts DEF NoGroup
<1>3. \A q \in Numbers : /\ GroupLives(q)' => GroupLives(q) /\ group'[q].of = group[q].of
                                                /\ group'[q].birth = group[q].birth
                         /\ ~GroupLives(q)' => group'[q] = NoGroup
  BY <1>1, <1>2 DEF GroupLives, BirthsUnique
<1>4. BirthsUnique'
  BY <1>3 DEF BirthsUnique
<1>5. \A q, b : NamesOurs(q, b) => NamesOurs(q, b)'
  BY <1>3 DEF NamesOurs
<1>6. \A q \in Numbers : group'[q].of \in Services =>
               group'[q].of = group[q].of /\ group'[q].birth = group[q].birth
  BY <1>2, <1>3
<1> QED
  BY <1>1, <1>4, <1>5, <1>6

\* The groups after a birth.
LEMMA GroupBorn ==
  ASSUME StackTyped, BirthsUnique, NEW p \in Numbers, NEW g \in StackGroups, ~GroupLives(p),
         NEW birth \in Nat, birth = births + 1,
         group' = [group EXCEPT ![p] = g], births' = birth,
         g.of # "none", g.birth = birth, g.leader
  PROVE  /\ group' \in [Numbers -> StackGroups] /\ births' \in Nat /\ BirthsUnique'
         /\ \A q, b \in Nat : NamesOurs(q, b) => NamesOurs(q, b)'
         /\ g.of # Others => NamesOurs(p, birth)'
<1>1. group' \in [Numbers -> StackGroups] /\ group'[p] = g /\ births \in Nat
      /\ \A q \in Numbers \ {p} : group'[q] = group[q]
  BY DEF StackTyped
<1>2. /\ \A q \in Numbers \ {p} : /\ GroupLives(q)' <=> GroupLives(q)
                                  /\ GroupLives(q) => group'[q].birth \in 1 .. births
      /\ GroupLives(p)' /\ group'[p].birth = births + 1
  BY <1>1 DEF GroupLives, BirthsUnique
<1>3. BirthsUnique'
  BY <1>1, <1>2 DEF BirthsUnique
<1>4. \A q, b \in Nat : NamesOurs(q, b) => NamesOurs(q, b)'
  BY <1>1, <1>2 DEF NamesOurs
<1>5. g.of # Others => NamesOurs(p, birth)'
  BY <1>1, <1>2 DEF NamesOurs
<1> QED
  BY <1>1, <1>3, <1>4, <1>5

\* A foreign group is never taken for one of the stack's.
LEMMA SignalSpares ==
  ASSUME NEW l \in Launchers, StackIInvAt(l), run[l].at \in {"roll", "grace"}, run[l].i > 0,
         Item(l).owned, Item(l).pid # NoPid, MaySignal(l, Item(l)), Signal(l, Item(l).pid)
  PROVE  harmed' = harmed
<1>1. RecordOurs(Item(l)) /\ Item(l) \in StackRecords
  BY RollingFacts
<1>2. Item(l).pid \in Numbers /\ NamesOurs(Item(l).pid, Item(l).birth)
  BY <1>1 DEF RecordOurs, StackRecords, StackPids
<1>3. \A c \in run[l].children : NamesOurs(c.pid, c.birth)
  BY DEF StackIInvAt, NamedOurs
<1>4. ~Foreign(Item(l).pid)
  <2>1. CASE OwnChild(l, Item(l).pid)
    BY <1>2, <1>3, <2>1 DEF OwnChild, NamesOurs, Foreign, GroupLives
  <2>2. CASE Matches(Item(l))
    BY <1>2, <2>2 DEF Matches, NamesOurs, Foreign, GroupLives
  <2> QED
    BY <2>1, <2>2 DEF MaySignal
<1> QED
  BY <1>4 DEF Signal

\* SIGTERM, to a group that is known to be ours; or an error.
LEMMA TermKeeps == ASSUME NEW l \in Launchers, StackIInvAt(l), Term(l) PROVE StackIInvAt(l)'
<1>1. /\ run[l].at = "roll" /\ run[l].i > 0 /\ Item(l).owned /\ Item(l).pid # NoPid
      /\ UNCHANGED <<manifest, machine, lost>>
  BY DEF Term, Rolling
<1>2. CASE ~MaySignal(l, Item(l))
  BY <1>1, <1>2, RolledKeeps DEF Term
<1>3. CASE MaySignal(l, Item(l))
  <2>1. harmed' = harmed
    BY <1>1, <1>3, SignalSpares DEF Term
  <2>2. PICK o : o = [run[l] EXCEPT !.at = "grace"]
    OBVIOUS
  <2>3. /\ run[l] \in StackRuns /\ Item(l) = run[l].records[run[l].i] /\ flock = l
        /\ Unannounced(run[l]) = {}
    BY <1>1, RollingFacts
  <2>4. /\ o.at = "grace" /\ o.i = run[l].i /\ o.records = run[l].records /\ o.errors = run[l].errors
        /\ o.children = run[l].children /\ o \in StackRuns /\ o.pid = run[l].pid
    BY <2>2, <2>3 DEF StackRuns, StackSteps
  <2>5. run' = [run EXCEPT ![l] = o] /\ flock' = l /\ Unannounced(o) = {}
    BY <1>3, <2>2, <2>3, <2>4 DEF Term, To, Hold, Unannounced
  <2>6. LauncherKnows(run[l]) /\ PendingStill(run[l])
    BY DEF StackIInvAt
  <2>7. LauncherKnows(o)' /\ NothingLeft(o)'
    BY <1>1, <2>3, <2>4, <2>6 DEF LauncherKnows, NothingLeft
  <2>8. PendingStill(o)'
    BY <1>1, <2>4, <2>6 DEF PendingStill, machine
  <2>9. KnownSomewhere(o)'
    BY <1>1, <2>3, <2>4, <2>5, KnownKept DEF StackIInvAt
  <2> QED
    BY <1>1, <2>1, <2>4, <2>5, <2>7, <2>8, <2>9, LauncherKeeps DEF StackIInvAt, StackTyped
<1> QED
  BY <1>2, <1>3

\* The group is killed, or an error is noted.
LEMMA KillKeeps == ASSUME NEW l \in Launchers, StackIInvAt(l), Kill(l) PROVE StackIInvAt(l)'
<1>1. /\ run[l].at = "grace" /\ run[l].i > 0 /\ Item(l).owned /\ Item(l).pid # NoPid
      /\ UNCHANGED <<manifest, births, resource, helper, world, lost>>
  BY DEF Kill, StackIInvAt, LauncherKnows, Item
<1>2. /\ run[l] \in StackRuns /\ Item(l) = run[l].records[run[l].i] /\ flock = l
      /\ Unannounced(run[l]) = {} /\ Item(l) \in StackRecords /\ run[l].i \in 1 .. Len(run[l].records)
  BY <1>1, RollingFacts
<1>3. CASE /\ \/ ~GroupLives(Item(l).pid) /\ Rolled(l, FALSE)
              \/ Rolled(l, TRUE)
           /\ UNCHANGED <<group, harmed>>
  BY <1>1, <1>3, RolledKeeps DEF machine
<1>4. CASE /\ MaySignal(l, Item(l)) /\ Signal(l, Item(l).pid)
           /\ group' = [group EXCEPT ![Item(l).pid] = NoGroup] /\ Rolled(l, FALSE)
  <2>1. harmed' = harmed
    BY <1>1, <1>4, SignalSpares
  <2>2. PICK o \in StackRuns :
           /\ o.at = "roll" /\ o.i = run[l].i - 1 /\ o.records = run[l].records
           /\ o.children = run[l].children /\ o.errors = (run[l].errors \/ FALSE)
           /\ run' = [run EXCEPT ![l] = o] /\ flock' = l /\ Unannounced(o) = {}
    BY <1>1, <1>4, RolledFacts
  <2>3. run'[l] = o /\ run' \in [Launchers -> StackRuns] /\ OnlyAtWork(l)'
    BY <2>2, LauncherMoves
  <2>4. NoGroup \in StackGroups /\ NoGroup.of \notin Services
    BY StackFacts DEF NoGroup, StackGroups
  <2>5. Item(l).pid \in Numbers
    BY <1>1, <1>2 DEF StackRecords, StackPids
  <2>6. /\ group' \in [Numbers -> StackGroups] /\ BirthsUnique'
        /\ \A q, b : NamesOurs(q, b) => NamesOurs(q, b)'
        /\ \A q \in Numbers : group'[q].of \in Services =>
               group'[q].of = group[q].of /\ group'[q].birth = group[q].birth
    BY <1>1, <1>4, <2>4, <2>5, GroupsFewer DEF StackIInvAt
  <2>7. group'[Item(l).pid] = NoGroup
    BY <1>4, <2>5 DEF StackIInvAt, StackTyped
  <2>8. /\ LauncherKnows(run[l]) /\ PendingStill(run[l]) /\ KnownSomewhere(run[l])
        /\ NamedOurs(run[l]) /\ StackTyped /\ OthersSpared
    BY DEF StackIInvAt
  <2>9. LauncherKnows(o)' /\ NothingLeft(o)'
    BY <1>1, <1>2, <2>2, <2>8 DEF LauncherKnows, NothingLeft
  <2>10. NamedOurs(o)'
    BY <1>1, <2>2, <2>6, <2>8 DEF NamedOurs, RecordOurs
  <2>11. KnownSomewhere(o)'
    <3>1. Unannounced(o)' = {}
      BY <2>2 DEF Unannounced
    <3> QED
      BY <1>1, <1>2, <2>2, <2>6, <2>8, <3>1 DEF KnownSomewhere
  <2>12. PendingStill(o)'
    <3>0. ~o.errors => ~run[l].errors
      BY <2>2, Zenon
    <3>3. \A j \in 1 .. run[l].i : j # run[l].i => j \in 1 .. o.i
      BY <1>2, <2>2
    <3>1. ASSUME ~o.errors, NEW p \in Numbers, group'[p].of \in Services
          PROVE  \/ group'[p].birth \in lost.births
                 \/ \E j \in 1 .. o.i : o.records[j].owned /\ o.records[j].pid = p
      <4>1. CASE group[p].birth \in lost.births
        BY <2>6, <3>1, <4>1
      <4>2. CASE \E j \in 1 .. run[l].i : run[l].records[j].owned /\ run[l].records[j].pid = p
        <5>1. PICK j \in 1 .. run[l].i : run[l].records[j].owned /\ run[l].records[j].pid = p
          BY <4>2
        <5>2. j # run[l].i
          BY <1>2, <2>4, <2>7, <3>1, <5>1
        <5> QED
          BY <2>2, <3>3, <5>1, <5>2
      <4> QED
        BY <1>1, <2>6, <2>8, <3>0, <3>1, <4>1, <4>2 DEF PendingStill
    <3>2. ASSUME ~o.errors, NEW s \in Of("oneshot"), resource[s] = "ours" \/ helper[s]
          PROVE  \/ s \in lost.oneshots
                 \/ \E j \in 1 .. o.i : /\ o.records[j].owned /\ o.records[j].pid = NoPid
                                        /\ o.records[j].of = s
      BY <1>1, <1>2, <2>2, <2>8, <3>0, <3>2, <3>3 DEF PendingStill
    <3> QED
      BY <1>1, <3>1, <3>2 DEF PendingStill
  <2>13. StackTyped' /\ OthersSpared'
    BY <1>1, <2>1, <2>2, <2>3, <2>6, <2>8 DEF StackTyped, OthersSpared
  <2> QED
    BY <2>3, <2>6, <2>9, <2>10, <2>11, <2>12, <2>13 DEF StackIInvAt
<1>5. \/ ~GroupLives(Item(l).pid) /\ Rolled(l, FALSE) /\ UNCHANGED <<group, harmed>>
      \/ Rolled(l, TRUE) /\ UNCHANGED <<group, harmed>>
      \/ /\ MaySignal(l, Item(l)) /\ Signal(l, Item(l).pid)
         /\ group' = [group EXCEPT ![Item(l).pid] = NoGroup] /\ Rolled(l, FALSE)
      \/ /\ MaySignal(l, Item(l)) /\ Signal(l, Item(l).pid) /\ UNCHANGED group /\ Rolled(l, TRUE)
  BY DEF Kill
<1>6. MaySignal(l, Item(l)) /\ Signal(l, Item(l).pid) => harmed' = harmed
  BY <1>1, SignalSpares
<1> QED
  BY <1>3, <1>4, <1>5, <1>6

\* The inverse command of a one-shot ran, or an error is noted.
LEMMA UndoKeeps == ASSUME NEW l \in Launchers, StackIInvAt(l), Undo(l) PROVE StackIInvAt(l)'
<1>1. /\ run[l].at = "roll" /\ run[l].i > 0 /\ Item(l).owned /\ Item(l).pid = NoPid
      /\ UNCHANGED <<manifest, group, births, helper, world, lost>>
  BY DEF Undo, Rolling
<1>2. CASE Rolled(l, TRUE) /\ UNCHANGED <<resource, harmed>>
  BY <1>1, <1>2, RolledKeeps DEF machine
<1>3. CASE /\ ~helper[Item(l).of] /\ resource' = [resource EXCEPT ![Item(l).of] = "none"]
           /\ harmed' = IF resource[Item(l).of] = "theirs" THEN harmed \cup {Item(l).of} ELSE harmed
           /\ Rolled(l, FALSE)
  <2>1. PICK o \in StackRuns :
           /\ o.at = "roll" /\ o.i = run[l].i - 1 /\ o.records = run[l].records
           /\ o.children = run[l].children /\ o.errors = (run[l].errors \/ FALSE)
           /\ run' = [run EXCEPT ![l] = o] /\ flock' = l /\ Unannounced(o) = {}
    BY <1>1, <1>3, RolledFacts
  <2>2. run'[l] = o /\ run' \in [Launchers -> StackRuns] /\ OnlyAtWork(l)'
    BY <2>1, LauncherMoves
  <2>3. /\ run[l] \in StackRuns /\ Item(l) = run[l].records[run[l].i] /\ Unannounced(run[l]) = {}
        /\ run[l].i \in 1 .. Len(run[l].records) /\ RecordOurs(Item(l))
    BY <1>1, RollingFacts
  <2>4. Item(l).of \in Of("oneshot") /\ harmed' = harmed
    BY <1>1, <1>3, <2>3 DEF RecordOurs
  <2>5. /\ LauncherKnows(run[l]) /\ PendingStill(run[l]) /\ KnownSomewhere(run[l])
        /\ NamedOurs(run[l]) /\ StackTyped /\ OthersSpared /\ BirthsUnique
    BY DEF StackIInvAt
  <2>6. /\ resource' \in [Of("oneshot") -> {"none", "ours", "theirs", "unclear"}]
        /\ \A s \in Of("oneshot") : resource'[s] = IF s = Item(l).of THEN "none" ELSE resource[s]
    BY <1>3, <2>4, <2>5 DEF StackTyped
  <2>7. LauncherKnows(o)' /\ NothingLeft(o)'
    BY <1>1, <2>1, <2>3, <2>5 DEF LauncherKnows, NothingLeft
  <2>8. \A q, b : NamesOurs(q, b) => NamesOurs(q, b)'
    BY <1>1 DEF NamesOurs, GroupLives
  <2>9. NamedOurs(o)'
    BY <1>1, <2>1, <2>5, <2>6, <2>8 DEF NamedOurs, RecordOurs
  <2>10. KnownSomewhere(o)'
    <3>1. Unannounced(o)' = {}
      BY <2>1 DEF Unannounced
    <3> QED
      BY <1>1, <1>3, <2>1, <2>3, <2>5, <2>6, <3>1 DEF KnownSomewhere
  <2>11. PendingStill(o)'
    <3>0. ~o.errors => ~run[l].errors
      BY <2>1, Zenon
    <3>3. \A j \in 1 .. run[l].i : j # run[l].i => j \in 1 .. o.i
      BY <2>1, <2>3
    <3>1. ASSUME ~o.errors, NEW p \in Numbers, group[p].of \in Services
          PROVE  \/ group[p].birth \in lost.births
                 \/ \E j \in 1 .. o.i : o.records[j].owned /\ o.records[j].pid = p
      <4>1. p # NoPid
        BY StackFacts
      <4> QED
        BY <1>1, <2>1, <2>3, <2>5, <3>0, <3>1, <3>3, <4>1 DEF PendingStill
    <3>2. ASSUME ~o.errors, NEW s \in Of("oneshot"), resource'[s] = "ours" \/ helper[s]
          PROVE  \/ s \in lost.oneshots
                 \/ \E j \in 1 .. o.i : /\ o.records[j].owned /\ o.records[j].pid = NoPid
                                        /\ o.records[j].of = s
      <4>1. s # Item(l).of /\ (resource[s] = "ours" \/ helper[s])
        BY <1>3, <2>6, <3>2
      <4> QED
        <5>1. CASE s \in lost.oneshots
          BY <5>1
        <5>2. CASE \E j \in 1 .. run[l].i : /\ run[l].records[j].owned /\ run[l].records[j].pid = NoPid
                                            /\ run[l].records[j].of = s
          <6>1. PICK j \in 1 .. run[l].i : /\ run[l].records[j].owned /\ run[l].records[j].pid = NoPid
                                           /\ run[l].records[j].of = s
            BY <5>2
          <6>2. j # run[l].i
            BY <2>3, <4>1, <6>1
          <6> QED
            BY <2>1, <3>3, <6>1, <6>2
        <5> QED
          BY <1>1, <2>5, <3>0, <3>2, <4>1, <5>1, <5>2 DEF PendingStill
    <3> QED
      BY <1>1, <3>1, <3>2 DEF PendingStill
  <2>12. StackTyped' /\ OthersSpared' /\ BirthsUnique'
    BY <1>1, <2>1, <2>2, <2>4, <2>5, <2>6 DEF StackTyped, OthersSpared, BirthsUnique, GroupLives
  <2> QED
    BY <2>2, <2>7, <2>9, <2>10, <2>11, <2>12 DEF StackIInvAt
<1> QED
  BY <1>1, <1>2, <1>3 DEF Undo

\* What a launcher alone knew is lost with it.
LEMMA ForgetsFacts ==
  ASSUME NEW l \in Launchers, StackIInvAt(l), Forgets(l)
  PROVE  /\ lost' \in [births : SUBSET Nat, oneshots : SUBSET Services]
         /\ lost.births \subseteq lost'.births /\ lost.oneshots \subseteq lost'.oneshots
         /\ \A c \in run[l].children :
               c.birth \in lost'.births \/ c.birth \in Births(manifest.records)
         /\ Oneshots(run[l].records) \cup Unannounced(run[l])
               \subseteq lost'.oneshots \cup Oneshots(manifest.records)
<1>1. /\ lost \in [births : SUBSET Nat, oneshots : SUBSET Services]
      /\ run[l] \in StackRuns /\ LauncherKnows(run[l])
  BY DEF StackIInvAt, StackTyped
<1>2. lost' = [births |-> lost.births \cup OnlyBirths(l), oneshots |-> lost.oneshots \cup OnlyOneshots(l)]
  BY DEF Forgets
<1>3. \A r \in Owned(run[l].records) : r \in StackRecords
  BY <1>1, OwnedRecords DEF StackRuns
<1>4. Births(run[l].records) \subseteq Nat /\ Oneshots(run[l].records) \subseteq Services
  BY <1>3 DEF Births, Oneshots, StackRecords
<1>5. \A c \in run[l].children : c.birth \in Nat
  BY <1>1 DEF StackRuns, StackChildren
<1>6. Unannounced(run[l]) \subseteq Services
  BY <1>1, StackFacts DEF Unannounced, LauncherKnows
<1>7. /\ OnlyBirths(l) = (Births(run[l].records) \cup {c.birth : c \in run[l].children})
                            \ Births(manifest.records)
      /\ OnlyOneshots(l) = (Oneshots(run[l].records) \cup Unannounced(run[l]))
                              \ Oneshots(manifest.records)
  BY DEF OnlyBirths, OnlyOneshots, Unannounced, Service
<1>8. OnlyBirths(l) \subseteq Nat /\ OnlyOneshots(l) \subseteq Services
  BY <1>4, <1>5, <1>6, <1>7
<1>9. \A c \in run[l].children : c.birth \in OnlyBirths(l) \/ c.birth \in Births(manifest.records)
  BY <1>7
<1> QED
  BY <1>1, <1>2, <1>7, <1>8, <1>9

\* A launcher that goes without a word leaves what it alone knew among the lost.
LEMMA ForgettingKeeps ==
  ASSUME NEW l \in Launchers, StackIInvAt(l), Forgets(l), Leaves(l),
         UNCHANGED <<manifest, machine, harmed>>
  PROVE  StackIInvAt(l)'
<1>1. KnownSomewhere(Resting)'
  BY ForgetsFacts, KnownKept, RestingFacts DEF StackIInvAt, StackTyped
<1> QED
  BY <1>1, ForgetsFacts, LeavingKeeps DEF StackIInvAt, StackTyped

\* A launcher is killed at any step.
LEMMA DiesKeeps == ASSUME NEW l \in Launchers, StackIInvAt(l), Dies(l) PROVE StackIInvAt(l)'
BY ForgettingKeeps DEF Dies

\* Nothing runs but what was lost: then a manifest without owned records says enough.
LEMMA KnownWhenClean ==
  ASSUME NEW o, UNCHANGED machine, UNCHANGED lost,
         \A p \in Numbers : group[p].of \in Services => group[p].birth \in lost.births,
         \A s \in Of("oneshot") : resource[s] = "ours" \/ helper[s] => s \in lost.oneshots
  PROVE  KnownSomewhere(o)'
BY DEF KnownSomewhere, machine

\* A rollback without an error has left nothing; one with an error keeps its records.
LEMMA ConcludeKeeps == ASSUME NEW l \in Launchers, StackIInvAt(l), Conclude(l) PROVE StackIInvAt(l)'
<1>1. /\ run[l].at = "roll" /\ run[l].i = 0 /\ UNCHANGED <<machine, harmed>>
      /\ run[l] \in StackRuns /\ run[l].records \in Seq(StackRecords) /\ flock = l
      /\ LauncherKnows(run[l]) /\ PendingStill(run[l]) /\ StackTyped
  BY DEF Conclude, StackIInvAt, StackTyped, StackRuns, OnlyAtWork
<1>2. CASE PersistFails /\ Leaves(l) /\ Forgets(l)
  BY <1>1, <1>2, ForgettingKeeps DEF PersistFails
<1>3. CASE /\ Persists(IF run[l].errors \/ run[l].after = "unwound" THEN "failed" ELSE "stopped",
                       Kept(run[l]))
           /\ run[l].errors /\ Leaves(l) /\ UNCHANGED lost
  <2>1. manifest' \in [phase : StackPhases, records : Seq(StackRecords)]
        /\ manifest'.records = run[l].records
    BY <1>1, <1>3 DEF Persists, Kept, StackPhases
  <2>2. /\ Owned(manifest.records) \subseteq Owned(run[l].records)
        /\ \A c \in run[l].children : \E r \in Owned(run[l].records) : r.pid = c.pid
    BY <1>1 DEF LauncherKnows
  <2>3. Unannounced(run[l]) = {}
    BY <1>1 DEF Unannounced
  <2>4. KnownSomewhere(Resting)'
    BY <1>1, <1>3, <2>1, <2>2, <2>3, KnownKept, RestingFacts DEF StackIInvAt
  <2> QED
    BY <1>1, <1>3, <2>1, <2>2, <2>4, LeavingKeeps DEF StackTyped
<1>4. CASE /\ Persists(IF run[l].errors \/ run[l].after = "unwound" THEN "failed" ELSE "stopped",
                       Kept(run[l]))
           /\ ~run[l].errors /\ UNCHANGED lost
           /\ Leaves(l) \/ (To(l, [run[l] EXCEPT !.at = "fresh"]) /\ Hold)
  <2>1. /\ manifest' \in [phase : StackPhases, records : Seq(StackRecords)]
        /\ Owned(manifest'.records) = {}
    BY <1>1, <1>4, OwnedNone DEF Persists, Kept, StackPhases
  <2>2. /\ \A p \in Numbers : group[p].of \in Services => group[p].birth \in lost.births
        /\ \A s \in Of("oneshot") : resource[s] = "ours" \/ helper[s] => s \in lost.oneshots
    BY <1>1, <1>4 DEF PendingStill
  <2>3. \A o : KnownSomewhere(o)'
    BY <1>1, <1>4, <2>2, KnownWhenClean
  <2>4. CASE Leaves(l)
    BY <1>1, <1>4, <2>1, <2>3, <2>4, LeavingKeeps DEF StackTyped
  <2>5. CASE To(l, [run[l] EXCEPT !.at = "fresh"]) /\ Hold
    <3>1. PICK o : o = [run[l] EXCEPT !.at = "fresh"]
      OBVIOUS
    <3>2. /\ o.at = "fresh" /\ o.records = run[l].records /\ o.children = run[l].children
          /\ o \in StackRuns /\ run' = [run EXCEPT ![l] = o] /\ flock' = l
      BY <1>1, <2>5, <3>1 DEF StackRuns, StackSteps, To, Hold
    <3>3. LauncherKnows(o)' /\ PendingStill(o)'
      BY <1>1, <2>1, <3>2 DEF LauncherKnows, PendingStill
    <3>4. NothingLeft(o)'
      BY <1>1, <1>4, <2>2 DEF NothingLeft, machine
    <3> QED
      BY <1>1, <1>4, <2>1, <2>3, <3>2, <3>3, <3>4, LauncherKeeps DEF StackTyped
  <2> QED
    BY <1>4, <2>4, <2>5
<1> QED
  BY <1>2, <1>3, <1>4 DEF Conclude

\* A new start begins where nothing is left.
LEMMA FreshKeeps == ASSUME NEW l \in Launchers, StackIInvAt(l), Fresh(l) PROVE StackIInvAt(l)'
<1>1. /\ run[l].at = "fresh" /\ UNCHANGED <<machine, lost, harmed>> /\ flock = l
      /\ StackTyped /\ NothingLeft(run[l])
  BY DEF Fresh, StackIInvAt, OnlyAtWork
<1>2. \A o : KnownSomewhere(o)'
  BY <1>1, KnownWhenClean DEF NothingLeft
<1>3. CASE PersistFails /\ Leaves(l)
  BY <1>1, <1>2, <1>3, LeavingKeeps DEF PersistFails, StackTyped
<1>4. CASE /\ Persists("starting", <<>>)
           /\ To(l, [Resting EXCEPT !.at = "service", !.after = "start", !.i = 1]) /\ Hold
  <2>1. PICK o : o = [Resting EXCEPT !.at = "service", !.after = "start", !.i = 1]
    OBVIOUS
  <2>2. /\ o.at = "service" /\ o.i = 1 /\ o.records = <<>> /\ o.children = {} /\ ~o.errors
        /\ o.pid = NoPid /\ o \in StackRuns
    BY <2>1, OwnedNone DEF Resting, StackRuns, StackSteps, StackPids
  <2>3. /\ manifest' \in [phase : StackPhases, records : Seq(StackRecords)]
        /\ manifest'.records = <<>> /\ Owned(<<>>) = {}
    BY <1>4, OwnedNone DEF Persists, StackPhases
  <2>4. Len(Plan) \in Nat
    BY StackFacts
  <2>5. LauncherKnows(o)' /\ PendingStill(o)' /\ NothingLeft(o)'
    BY <2>2, <2>3, <2>4 DEF LauncherKnows, PendingStill, NothingLeft
  <2>6. run' = [run EXCEPT ![l] = o] /\ flock' = l
    BY <1>1, <1>4, <2>1 DEF To, Hold
  <2> QED
    BY <1>1, <1>2, <2>2, <2>3, <2>5, <2>6, LauncherKeeps DEF StackTyped
<1> QED
  BY <1>3, <1>4 DEF Fresh

\* While services are started the manifest says what the launcher has in memory.
LEMMA StartingFacts ==
  ASSUME NEW l \in Launchers, StackIInvAt(l), run[l].at \in {"service", "announce", "wait", "ready"}
  PROVE  /\ flock = l /\ run[l] \in StackRuns /\ run[l].records \in Seq(StackRecords)
         /\ manifest.records = run[l].records /\ ~run[l].errors
         /\ run[l].i \in 1 .. Len(Plan) + 1 /\ LauncherKnows(run[l])
         /\ run[l].i <= Len(Plan) => Service(l) \in Services /\ Service(l) = Plan[run[l].i]
         /\ manifest \in [phase : StackPhases, records : Seq(StackRecords)]
         /\ lost \in [births : SUBSET Nat, oneshots : SUBSET Services]
<1>1. /\ flock = l /\ run[l] \in StackRuns /\ manifest.records = run[l].records /\ ~run[l].errors
      /\ run[l].i \in 1 .. Len(Plan) + 1 /\ LauncherKnows(run[l])
      /\ manifest \in [phase : StackPhases, records : Seq(StackRecords)]
      /\ lost \in [births : SUBSET Nat, oneshots : SUBSET Services]
  BY DEF StackIInvAt, StackTyped, OnlyAtWork, LauncherKnows
<1>2. run[l].i <= Len(Plan) => run[l].i \in 1 .. Len(Plan)
  BY <1>1, StackFacts
<1> QED
  BY <1>1, <1>2, StackFacts DEF StackRuns, Service

\* A start that fails goes to its rollback with what it had.
LEMMA RaiseKeeps ==
  ASSUME NEW l \in Launchers, StackIInvAt(l), run[l].at \in {"service", "ready"}, Raise(l),
         UNCHANGED <<manifest, machine, lost, harmed>>
  PROVE  StackIInvAt(l)'
<1>1. PICK o : o = [run[l] EXCEPT !.at = "unwind"]
  OBVIOUS
<1>2. /\ flock = l /\ run[l] \in StackRuns /\ manifest.records = run[l].records /\ ~run[l].errors
      /\ LauncherKnows(run[l])
      /\ manifest \in [phase : StackPhases, records : Seq(StackRecords)]
      /\ lost \in [births : SUBSET Nat, oneshots : SUBSET Services]
  BY StartingFacts
<1>3. /\ o.at = "unwind" /\ o.records = run[l].records /\ o.children = run[l].children /\ ~o.errors
      /\ o \in StackRuns /\ run' = [run EXCEPT ![l] = o] /\ flock' = l
  BY <1>1, <1>2 DEF StackRuns, StackSteps, Raise, To, Hold
<1>4. LauncherKnows(o)' /\ PendingStill(o)' /\ NothingLeft(o)'
  BY <1>2, <1>3 DEF LauncherKnows, PendingStill, NothingLeft
<1>5. KnownSomewhere(o)'
  <2>1. Unannounced(run[l]) = {}
    BY DEF Unannounced
  <2> QED
    BY <1>2, <1>3, <2>1, KnownKept DEF StackIInvAt
<1> QED
  BY <1>2, <1>3, <1>4, <1>5, LauncherKeeps DEF StackTyped

\* A service that does not answer ends the start.
LEMMA MissingKeeps == ASSUME NEW l \in Launchers, StackIInvAt(l), Missing(l) PROVE StackIInvAt(l)'
BY RaiseKeeps DEF Missing, Starting

\* A service that answers already is written down as not owned.
LEMMA ReuseKeeps == ASSUME NEW l \in Launchers, StackIInvAt(l), Reuse(l) PROVE StackIInvAt(l)'
<1>1. /\ run[l].at = "service" /\ run[l].i <= Len(Plan) /\ UNCHANGED <<machine, lost, harmed>>
  BY DEF Reuse, Starting
<1>2. /\ flock = l /\ run[l] \in StackRuns /\ run[l].records \in Seq(StackRecords)
      /\ manifest.records = run[l].records /\ ~run[l].errors
      /\ run[l].i \in 1 .. Len(Plan) + 1 /\ LauncherKnows(run[l]) /\ Service(l) \in Services
      /\ manifest \in [phase : StackPhases, records : Seq(StackRecords)]
      /\ lost \in [births : SUBSET Nat, oneshots : SUBSET Services]
  BY <1>1, StartingFacts
<1>3. PICK r : r = Record(Service(l), FALSE, NoPid, 0)
  OBVIOUS
<1>4. r \in StackRecords /\ ~r.owned
  BY <1>2, <1>3 DEF Record, StackRecords, StackPids
<1>5. PICK records : records = Append(run[l].records, r)
  OBVIOUS
<1>6. records \in Seq(StackRecords) /\ Owned(records) = Owned(run[l].records)
  BY <1>2, <1>4, <1>5, OwnedAppend
<1>7. PICK o : /\ \/ /\ Persists("starting", records)
                     /\ o = [run[l] EXCEPT !.at = "service", !.i = @ + 1, !.pid = NoPid,
                                           !.records = records]
                  \/ PersistFails /\ o = [run[l] EXCEPT !.at = "unwind", !.records = records]
               /\ run' = [run EXCEPT ![l] = o] /\ flock' = flock
  BY <1>3, <1>5 DEF Reuse, Onwards, To, Hold
<1>8. /\ o.records = records /\ o.children = run[l].children /\ ~o.errors /\ o \in StackRuns
      /\ \/ /\ o.at = "service" /\ o.i = run[l].i + 1 /\ o.pid = NoPid
            /\ manifest' = [phase |-> "starting", records |-> records]
         \/ o.at = "unwind" /\ manifest' = manifest
  <2>1. run[l].i + 1 \in Nat
    BY <1>2, StackFacts
  <2>2. CASE /\ Persists("starting", records)
             /\ o = [run[l] EXCEPT !.at = "service", !.i = @ + 1, !.pid = NoPid, !.records = records]
    <3>1. /\ o.records = records /\ o.children = run[l].children /\ ~o.errors /\ o \in StackRuns
          /\ o.at = "service" /\ o.i = run[l].i + 1 /\ o.pid = NoPid
      BY <1>2, <1>6, <2>1, <2>2 DEF StackRuns, StackSteps, StackPids
    <3> QED
      BY <2>2, <3>1 DEF Persists
  <2>3. CASE PersistFails /\ o = [run[l] EXCEPT !.at = "unwind", !.records = records]
    <3>1. /\ o.records = records /\ o.children = run[l].children /\ ~o.errors /\ o \in StackRuns
          /\ o.at = "unwind"
      BY <1>2, <1>6, <2>3 DEF StackRuns, StackSteps
    <3> QED
      BY <2>3, <3>1 DEF PersistFails
  <2> QED
    BY <1>7, <2>2, <2>3
<1>9. /\ Owned(manifest'.records) = Owned(manifest.records)
      /\ manifest' \in [phase : StackPhases, records : Seq(StackRecords)]
  BY <1>2, <1>6, <1>8 DEF StackPhases
<1>10. LauncherKnows(o)'
  <2>1. Len(Plan) \in Nat
    BY StackFacts
  <2>2. CASE o.at = "service"
    BY <1>1, <1>2, <1>6, <1>8, <2>1, <2>2 DEF LauncherKnows
  <2>3. CASE o.at = "unwind"
    BY <1>1, <1>2, <1>6, <1>8, <2>3 DEF LauncherKnows
  <2> QED
    BY <1>8, <2>2, <2>3
<1>11. KnownSomewhere(o)'
  <2>1. Unannounced(run[l]) = {} /\ Oneshots(records) = Oneshots(run[l].records)
    BY <1>1, <1>6 DEF Unannounced, Oneshots
  <2> QED
    BY <1>1, <1>2, <1>8, <1>9, <2>1, KnownKept DEF StackIInvAt
<1>12. PendingStill(o)' /\ NothingLeft(o)'
  BY <1>8 DEF PendingStill, NothingLeft
<1> QED
  BY <1>1, <1>2, <1>6, <1>7, <1>8, <1>9, <1>10, <1>11, <1>12, LauncherKeeps

\* A service that answers lets the start go on.
LEMMA ReadyKeeps == ASSUME NEW l \in Launchers, StackIInvAt(l), Ready(l) PROVE StackIInvAt(l)'
<1>1. /\ run[l].at = "ready" /\ UNCHANGED <<manifest, machine, lost, harmed>>
  BY DEF Ready
<1>2. CASE Raise(l)
  BY <1>1, <1>2, RaiseKeeps
<1>3. CASE Onwards(l, run[l].records)
  <2>1. /\ flock = l /\ run[l] \in StackRuns /\ manifest.records = run[l].records /\ ~run[l].errors
        /\ LauncherKnows(run[l]) /\ run[l].i \in 1 .. Len(Plan) + 1 /\ run[l].i <= Len(Plan)
        /\ manifest \in [phase : StackPhases, records : Seq(StackRecords)]
        /\ lost \in [births : SUBSET Nat, oneshots : SUBSET Services]
    BY <1>1, StartingFacts DEF LauncherKnows
  <2>2. PICK o : o = [run[l] EXCEPT !.at = "service", !.i = @ + 1, !.pid = NoPid, !.records = run[l].records]
    OBVIOUS
  <2>3. /\ o.at = "service" /\ o.records = run[l].records /\ o.children = run[l].children /\ ~o.errors
        /\ o.i = run[l].i + 1 /\ o.pid = NoPid
        /\ o \in StackRuns /\ run' = [run EXCEPT ![l] = o] /\ flock' = l
    <3>1. run[l].i + 1 \in Nat
      BY <2>1, StackFacts
    <3>2. run' = [run EXCEPT ![l] = o] /\ flock' = l
      BY <1>3, <2>1, <2>2 DEF Onwards, To, Hold
    <3>3. /\ o.at = "service" /\ o.records = run[l].records /\ o.children = run[l].children /\ ~o.errors
          /\ o.i = run[l].i + 1 /\ o.pid = NoPid /\ o \in StackRuns
      BY <2>1, <2>2, <3>1 DEF StackRuns, StackSteps, StackPids
    <3> QED
      BY <3>2, <3>3
  <2>4. Len(Plan) \in Nat /\ o.i \in 1 .. Len(Plan) + 1
    BY <2>1, <2>3, StackFacts
  <2>5. LauncherKnows(o)' /\ PendingStill(o)' /\ NothingLeft(o)'
    BY <1>1, <2>1, <2>3, <2>4 DEF LauncherKnows, PendingStill, NothingLeft
  <2>6. KnownSomewhere(o)'
    <3>1. Unannounced(run[l]) = {}
      BY <1>1 DEF Unannounced
    <3> QED
      BY <1>1, <2>1, <2>3, <3>1, KnownKept DEF StackIInvAt
  <2> QED
    BY <1>1, <2>1, <2>3, <2>5, <2>6, LauncherKeeps
<1> QED
  BY <1>2, <1>3 DEF Ready

\* The start is over: all that was begun is on the manifest.
LEMMA FinishKeeps == ASSUME NEW l \in Launchers, StackIInvAt(l), Finish(l) PROVE StackIInvAt(l)'
<1>1. run[l].at = "service" /\ Leaves(l) /\ UNCHANGED <<machine, lost, harmed>>
  BY DEF Finish
<1>2. /\ flock = l /\ run[l] \in StackRuns /\ manifest.records = run[l].records
      /\ LauncherKnows(run[l]) /\ run[l].records \in Seq(StackRecords)
      /\ manifest \in [phase : StackPhases, records : Seq(StackRecords)]
      /\ lost \in [births : SUBSET Nat, oneshots : SUBSET Services]
  BY <1>1, StartingFacts
<1>3. /\ manifest'.records = manifest.records
      /\ manifest' \in [phase : StackPhases, records : Seq(StackRecords)]
  BY <1>2 DEF Finish, Persists, PersistFails, StackPhases
<1>4. /\ \A c \in run[l].children : \E r \in Owned(manifest.records) : r.pid = c.pid
      /\ Unannounced(run[l]) = {}
  BY <1>1, <1>2 DEF LauncherKnows, Unannounced
<1>5. KnownSomewhere(Resting)'
  BY <1>1, <1>2, <1>3, <1>4, KnownKept, RestingFacts DEF StackIInvAt
<1> QED
  BY <1>1, <1>2, <1>3, <1>5, LeavingKeeps

\* A failed start begins to roll back all that it had.
LEMMA UnwindKeeps == ASSUME NEW l \in Launchers, StackIInvAt(l), Unwind(l) PROVE StackIInvAt(l)'
<1>1. /\ run[l].at = "unwind" /\ UNCHANGED <<machine, lost, harmed>> /\ flock = l
      /\ run[l] \in StackRuns /\ run[l].records \in Seq(StackRecords) /\ ~run[l].errors
      /\ LauncherKnows(run[l]) /\ KnownSomewhere(run[l])
      /\ manifest \in [phase : StackPhases, records : Seq(StackRecords)]
      /\ lost \in [births : SUBSET Nat, oneshots : SUBSET Services]
  BY DEF Unwind, StackIInvAt, StackTyped, OnlyAtWork, StackRuns, LauncherKnows
<1>2. PICK n \in Nat : n = Len(run[l].records)
  BY <1>1
<1>3. PICK o : o = [run[l] EXCEPT !.at = "roll", !.after = "unwound", !.i = n]
  OBVIOUS
<1>4. /\ o.at = "roll" /\ o.records = run[l].records /\ o.children = run[l].children /\ ~o.errors
      /\ o.i = Len(run[l].records)
      /\ o \in StackRuns /\ run' = [run EXCEPT ![l] = o] /\ flock' = l
  BY <1>1, <1>2, <1>3 DEF StackRuns, StackSteps, Unwind, To, Hold
<1>5. /\ manifest'.records = run[l].records \/ manifest' = manifest
      /\ manifest' \in [phase : StackPhases, records : Seq(StackRecords)]
      /\ Owned(manifest.records) \subseteq Owned(manifest'.records)
      /\ Owned(manifest'.records) \subseteq Owned(run[l].records)
  BY <1>1 DEF Unwind, Persists, PersistFails, StackPhases, LauncherKnows
<1>6. /\ Unannounced(run[l]) = {} /\ Owned(manifest.records) \subseteq Owned(run[l].records)
      /\ \A c \in run[l].children : \E r \in Owned(run[l].records) : r.pid = c.pid
  BY <1>1 DEF Unannounced, LauncherKnows
<1>7. LauncherKnows(o)' /\ NothingLeft(o)'
  BY <1>1, <1>2, <1>4, <1>5, <1>6 DEF LauncherKnows, NothingLeft
<1>8. KnownSomewhere(o)'
  BY <1>1, <1>4, <1>5, <1>6, KnownKept DEF StackIInvAt
<1>9. \A r \in Owned(run[l].records) : \E j \in 1 .. o.i : o.records[j].owned /\ r = o.records[j]
  <2>1. \A r \in Owned(run[l].records) :
           \E j \in 1 .. Len(run[l].records) : run[l].records[j].owned /\ r = run[l].records[j]
    BY <1>1, OwnedRecords
  <2> QED
    BY <1>4, <2>1
<1>10. ASSUME NEW p \in Numbers, group[p].of \in Services
       PROVE  \/ group[p].birth \in lost.births
              \/ \E j \in 1 .. o.i : o.records[j].owned /\ o.records[j].pid = p
  <2>1. CASE \E c \in run[l].children : c.birth = group[p].birth
    <3>1. PICK c \in run[l].children : c.birth = group[p].birth
      BY <2>1
    <3>2. c.pid \in Numbers /\ c.birth \in Nat /\ NamesOurs(c.pid, c.birth)
      BY <1>1 DEF StackRuns, StackChildren, StackIInvAt, NamedOurs
    <3>3. c.pid = p
      BY <1>10, <3>1, <3>2, LiveService DEF StackIInvAt
    <3> QED
      BY <1>6, <1>9, <3>3
  <2>2. CASE \E r \in Owned(manifest.records) : r.pid = p
    BY <1>6, <1>9, <2>2
  <2> QED
    BY <1>1, <1>10, <2>1, <2>2 DEF KnownSomewhere
<1>11. ASSUME NEW s \in Of("oneshot"), resource[s] = "ours" \/ helper[s]
       PROVE  \/ s \in lost.oneshots
              \/ \E j \in 1 .. o.i : o.records[j].owned /\ o.records[j].pid = NoPid /\ o.records[j].of = s
  <2>1. s \in lost.oneshots \/ \E r \in Owned(run[l].records) : r.pid = NoPid /\ r.of = s
    BY <1>1, <1>6, <1>11, OneshotOf DEF KnownSomewhere
  <2> QED
    BY <1>9, <2>1
<1>12. PendingStill(o)'
  BY <1>1, <1>10, <1>11 DEF PendingStill, machine
<1> QED
  BY <1>1, <1>4, <1>5, <1>7, <1>8, <1>12, LauncherKeeps

\* A step of a launcher that touches a command of a one-shot, or makes a new record.
LEMMA HandlesKeep ==
  ASSUME NEW l \in Launchers, StackIInvAt(l), NEW o \in StackRuns, run' = [run EXCEPT ![l] = o],
         flock' = l, UNCHANGED <<group, births, resource, world, harmed, lost>>,
         helper' \in [Of("oneshot") -> BOOLEAN],
         manifest' \in [phase : StackPhases, records : Seq(StackRecords)],
         NamedOurs(o)', LauncherKnows(o)', KnownSomewhere(o)',
         o.at \notin {"roll", "grace", "fresh"}
  PROVE  StackIInvAt(l)'
<1>1. run'[l] = o /\ run' \in [Launchers -> StackRuns] /\ OnlyAtWork(l)'
  BY LauncherMoves
<1>2. StackTyped' /\ BirthsUnique' /\ OthersSpared'
  BY <1>1 DEF StackIInvAt, StackTyped, BirthsUnique, OthersSpared, GroupLives
<1>3. PendingStill(o)' /\ NothingLeft(o)'
  BY DEF PendingStill, NothingLeft
<1> QED
  BY <1>1, <1>2, <1>3 DEF StackIInvAt

\* What is known stays known: helpers only end, the manifest and the memory only grow.
LEMMA KnownGrows ==
  ASSUME StackTyped, NEW before \in StackRuns, NEW after \in StackRuns, KnownSomewhere(before),
         UNCHANGED <<group, births, resource, world, lost>>,
         \A s \in Of("oneshot") : helper'[s] => helper[s],
         Owned(manifest.records) \subseteq Owned(manifest'.records),
         before.children \subseteq after.children,
         Oneshots(before.records) \cup Unannounced(before) \subseteq
            Oneshots(manifest'.records) \cup Oneshots(after.records) \cup Unannounced(after)
  PROVE  KnownSomewhere(after)'
<1>1. Oneshots(manifest.records) \subseteq Oneshots(manifest'.records)
  BY OneshotOf
<1>2. Unannounced(after)' = Unannounced(after)
  BY DEF Unannounced
<1> QED
  BY <1>1, <1>2 DEF KnownSomewhere

\* The command of a one-shot ends or is killed.
LEMMA AwaitKeeps == ASSUME NEW l \in Launchers, StackIInvAt(l), Await(l) PROVE StackIInvAt(l)'
<1>1. /\ run[l].at = "wait" /\ helper' = [helper EXCEPT ![Service(l)] = FALSE]
      /\ UNCHANGED <<manifest, group, births, resource, world, lost, harmed>>
  BY DEF Await
<1>2. /\ flock = l /\ run[l] \in StackRuns /\ manifest.records = run[l].records /\ ~run[l].errors
      /\ LauncherKnows(run[l]) /\ run[l].i \in 1 .. Len(Plan) + 1 /\ run[l].i <= Len(Plan)
      /\ manifest \in [phase : StackPhases, records : Seq(StackRecords)]
  BY <1>1, StartingFacts DEF LauncherKnows
<1>3. PICK o : /\ o = [run[l] EXCEPT !.at = "ready"] \/ o = [run[l] EXCEPT !.at = "unwind"]
               /\ run' = [run EXCEPT ![l] = o] /\ flock' = l
  BY <1>2 DEF Await, Raise, To, Hold
<1>4. /\ o.at \in {"ready", "unwind"} /\ o.records = run[l].records /\ o.children = run[l].children
      /\ ~o.errors /\ o.i = run[l].i /\ o \in StackRuns
  BY <1>2, <1>3 DEF StackRuns, StackSteps
<1>5. StackTyped /\ NamedOurs(run[l]) /\ KnownSomewhere(run[l])
  BY DEF StackIInvAt
<1>6. /\ helper' \in [Of("oneshot") -> BOOLEAN]
      /\ \A s \in Of("oneshot") : helper'[s] => helper[s]
  BY <1>1, <1>5 DEF StackTyped
<1>7. LauncherKnows(o)'
  BY <1>1, <1>2, <1>4 DEF LauncherKnows
<1>8. NamedOurs(o)'
  BY <1>1, <1>4, <1>5 DEF NamedOurs, RecordOurs, NamesOurs, GroupLives
<1>9. KnownSomewhere(o)'
  <2>1. Unannounced(run[l]) = {}
    BY <1>1 DEF Unannounced
  <2> QED
    BY <1>1, <1>2, <1>4, <1>5, <1>6, <2>1, KnownGrows
<1> QED
  BY <1>1, <1>2, <1>3, <1>4, <1>6, <1>7, <1>8, <1>9, HandlesKeep

\* The birth written down for a daemon is that of one of its children.
LEMMA NewestIsAChild ==
  ASSUME NEW l \in Launchers, StackIInvAt(l), run[l].at = "announce", run[l].pid # NoPid
  PROVE  \E c \in run[l].children : c.pid = run[l].pid /\ c.birth = NewestBirth(l)
<1>1. /\ LauncherKnows(run[l]) /\ run[l] \in StackRuns
  BY DEF StackIInvAt, StackTyped
<1>2. PICK c \in run[l].children : c.pid = run[l].pid /\ \A d \in run[l].children : d.birth <= c.birth
  BY <1>1 DEF LauncherKnows
<1>3. PICK spawned : spawned = {k.birth : k \in {k \in run[l].children : k.pid = run[l].pid}}
  OBVIOUS
<1>4. c.birth \in spawned /\ \A a \in spawned : a <= c.birth
  BY <1>2, <1>3
<1>5. NewestBirth(l) = CHOOSE b \in spawned : \A a \in spawned : a <= b
  BY <1>3, <1>4 DEF NewestBirth
<1>6. NewestBirth(l) \in spawned
  BY <1>4, <1>5
<1> QED
  BY <1>3, <1>6

\* What was begun is written down, or at least remembered.
LEMMA AnnounceKeeps == ASSUME NEW l \in Launchers, StackIInvAt(l), Announce(l) PROVE StackIInvAt(l)'
<1>1. /\ run[l].at = "announce" /\ UNCHANGED <<group, births, resource, world, lost, harmed>>
  BY DEF Announce
<1>2. /\ flock = l /\ run[l] \in StackRuns /\ run[l].records \in Seq(StackRecords)
      /\ manifest.records = run[l].records /\ ~run[l].errors
      /\ run[l].i \in 1 .. Len(Plan) + 1 /\ run[l].i <= Len(Plan) /\ LauncherKnows(run[l])
      /\ Service(l) \in Services /\ Service(l) = Plan[run[l].i]
      /\ manifest \in [phase : StackPhases, records : Seq(StackRecords)]
  <2>1. LauncherKnows(run[l])
    BY DEF StackIInvAt
  <2>2. run[l].i <= Len(Plan)
    BY <1>1, <2>1 DEF LauncherKnows
  <2> QED
    BY <1>1, <2>2, StartingFacts
<1>3. StackTyped /\ NamedOurs(run[l]) /\ KnownSomewhere(run[l]) /\ BirthsUnique
  BY DEF StackIInvAt
<1>4. PICK b : /\ b = NewestBirth(l) \/ (b = 0 /\ run[l].pid # NoPid)
               /\ \/ /\ manifest' = [phase |-> "starting",
                                     records |-> Append(run[l].records, Record(Service(l), TRUE, run[l].pid, b))]
                     /\ \/ To(l, [run[l] EXCEPT !.at = IF run[l].pid = NoPid THEN "wait" ELSE "ready",
                                  !.records = Append(run[l].records, Record(Service(l), TRUE, run[l].pid, b))])
                        \/ To(l, [run[l] EXCEPT !.at = "unwind",
                                  !.records = Append(run[l].records, Record(Service(l), TRUE, run[l].pid, b))])
                     /\ UNCHANGED helper
                  \/ /\ manifest' = manifest
                     /\ To(l, [run[l] EXCEPT !.at = "unwind",
                               !.records = Append(run[l].records, Record(Service(l), TRUE, run[l].pid, b))])
                     /\ helper' = IF run[l].pid = NoPid THEN [helper EXCEPT ![Service(l)] = FALSE] ELSE helper
               /\ Hold
  BY DEF Announce, Persists, PersistFails
<1>5. /\ b \in Nat
      /\ run[l].pid # NoPid => NamesOurs(run[l].pid, b)
      /\ run[l].pid \in StackPids
  <2>1. run[l].pid \in StackPids
    BY <1>2 DEF StackRuns
  <2>2. CASE run[l].pid = NoPid
    <3>1. \A k \in run[l].children : k.pid # NoPid
      BY <1>2, StackFacts DEF StackRuns, StackChildren
    <3>2. {k \in run[l].children : k.pid = run[l].pid} = {}
      BY <2>2, <3>1
    <3>3. NewestBirth(l) = 0
      BY <3>2 DEF NewestBirth
    <3> QED
      BY <1>4, <2>1, <2>2, <3>3
  <2>3. CASE run[l].pid # NoPid /\ b = 0
    BY <1>3, <2>1, <2>3 DEF NamesOurs, BirthsUnique, StackTyped
  <2>4. CASE run[l].pid # NoPid /\ b = NewestBirth(l)
    <3>1. PICK c \in run[l].children : c.pid = run[l].pid /\ c.birth = b
      BY <1>1, <2>4, NewestIsAChild
    <3>2. c.birth \in Nat
      BY <1>2 DEF StackRuns, StackChildren
    <3> QED
      BY <1>3, <2>1, <3>1, <3>2 DEF NamedOurs
  <2> QED
    BY <1>4, <2>2, <2>3, <2>4
<1>6. PICK r : r = Record(Service(l), TRUE, run[l].pid, b)
  OBVIOUS
<1>7. r \in StackRecords /\ r.owned /\ r.pid = run[l].pid /\ r.of = Service(l) /\ r.birth = b
  BY <1>2, <1>5, <1>6 DEF Record, StackRecords
<1>8. PICK records : records = Append(run[l].records, r)
  OBVIOUS
<1>9. records \in Seq(StackRecords) /\ Owned(records) = Owned(run[l].records) \cup {r} /\ records # <<>>
  <2>1. records # <<>>
    BY <1>2, <1>8
  <2> QED
    BY <1>2, <1>7, <1>8, <2>1, OwnedAppend
<1>10. PICK at : /\ at \in {"wait", "ready", "unwind"}
                 /\ run' = [run EXCEPT ![l] = [run[l] EXCEPT !.at = at, !.records = records]]
                 /\ \/ manifest' = [phase |-> "starting", records |-> records] /\ UNCHANGED helper
                    \/ /\ manifest' = manifest /\ at = "unwind"
                       /\ helper' = IF run[l].pid = NoPid THEN [helper EXCEPT ![Service(l)] = FALSE]
                                    ELSE helper
  BY <1>4, <1>6, <1>8 DEF To
<1>11. flock' = l
  BY <1>2, <1>4 DEF Hold
<1>12. PICK o : o = [run[l] EXCEPT !.at = at, !.records = records]
  OBVIOUS
<1>13. /\ o.at = at /\ o.records = records /\ o.children = run[l].children /\ ~o.errors
       /\ o.i = run[l].i /\ o.pid = run[l].pid /\ o \in StackRuns
  BY <1>2, <1>9, <1>10, <1>12 DEF StackRuns, StackSteps
<1>14. /\ helper' \in [Of("oneshot") -> BOOLEAN]
       /\ \A s \in Of("oneshot") : helper'[s] => helper[s]
  BY <1>3, <1>10 DEF StackTyped
<1>15. /\ manifest' \in [phase : StackPhases, records : Seq(StackRecords)]
       /\ Owned(manifest.records) \subseteq Owned(manifest'.records)
       /\ Owned(manifest'.records) \subseteq Owned(records)
       /\ at # "unwind" => manifest'.records = records
  BY <1>2, <1>9, <1>10 DEF StackPhases
<1>16. LauncherKnows(o)'
  <2>1. \A c \in run[l].children : \E q \in Owned(records) : q.pid = c.pid
    BY <1>2, <1>7, <1>9 DEF LauncherKnows
  <2> QED
    BY <1>2, <1>9, <1>10, <1>13, <1>15, <2>1 DEF LauncherKnows
<1>17. NamedOurs(o)'
  <2>1. RecordOurs(r)
    BY <1>1, <1>2, <1>5, <1>7 DEF RecordOurs, LauncherKnows
  <2>2. \A q \in Owned(records) \cup Owned(manifest'.records) : RecordOurs(q)
    BY <1>3, <1>9, <1>15, <2>1 DEF NamedOurs
  <2>3. \A q : RecordOurs(q) => RecordOurs(q)'
    BY <1>1 DEF RecordOurs, NamesOurs, GroupLives
  <2>4. \A p, a : NamesOurs(p, a) => NamesOurs(p, a)'
    BY <1>1 DEF NamesOurs, GroupLives
  <2> QED
    BY <1>3, <1>13, <2>2, <2>3, <2>4 DEF NamedOurs
<1>18. KnownSomewhere(o)'
  <2>1. Oneshots(run[l].records) \cup Unannounced(run[l]) \subseteq Oneshots(o.records)
    BY <1>2, <1>7, <1>9, <1>13, OneshotOf DEF Unannounced
  <2> QED
    BY <1>1, <1>2, <1>3, <1>13, <1>14, <1>15, <2>1, KnownGrows
<1> QED
  BY <1>1, <1>10, <1>11, <1>12, <1>13, <1>14, <1>15, <1>16, <1>17, <1>18, HandlesKeep

\* A daemon is born, known only to the launcher until it is written down.
LEMMA SpawnDaemonKeeps == ASSUME NEW l \in Launchers, StackIInvAt(l), SpawnDaemon(l) PROVE StackIInvAt(l)'
<1>1. /\ run[l].at = "service" /\ run[l].i <= Len(Plan) /\ births' = births + 1
      /\ UNCHANGED <<manifest, resource, helper, world, lost, harmed>>
  BY DEF SpawnDaemon, Starting
<1>2. /\ flock = l /\ run[l] \in StackRuns /\ manifest.records = run[l].records /\ ~run[l].errors
      /\ LauncherKnows(run[l]) /\ run[l].i \in 1 .. Len(Plan) + 1 /\ Service(l) \in Services
      /\ manifest \in [phase : StackPhases, records : Seq(StackRecords)]
      /\ lost \in [births : SUBSET Nat, oneshots : SUBSET Services]
  BY <1>1, StartingFacts
<1>3. /\ StackTyped /\ BirthsUnique /\ NamedOurs(run[l]) /\ KnownSomewhere(run[l]) /\ births \in Nat
      /\ OthersSpared
  BY DEF StackIInvAt, StackTyped
<1>4. PICK birth \in Nat : birth = births + 1
  BY <1>3
<1>5. PICK p \in Numbers :
        /\ ~GroupLives(p)
        /\ group' = [group EXCEPT ![p] = [of |-> Service(l), birth |-> birth, leader |-> TRUE, rest |-> FALSE]]
        /\ run' = [run EXCEPT ![l] = [run[l] EXCEPT !.at = "announce", !.pid = p,
                                 !.children = @ \cup {[pid |-> p, birth |-> birth]}]]
        /\ flock' = flock
  BY <1>4 DEF SpawnDaemon, To, Hold
<1>6. PICK g \in StackGroups : /\ g.of = Service(l) /\ g.birth = birth /\ g.leader
                               /\ group' = [group EXCEPT ![p] = g]
  BY <1>2, <1>5 DEF StackGroups
<1>7. PICK child \in StackChildren : child.pid = p /\ child.birth = birth /\ child = [pid |-> p, birth |-> birth]
  BY DEF StackChildren
<1>8. PICK o : o = [run[l] EXCEPT !.at = "announce", !.pid = p, !.children = @ \cup {child}]
  OBVIOUS
<1>9. /\ o.at = "announce" /\ o.pid = p /\ o.children = run[l].children \cup {child} /\ ~o.errors
      /\ o.records = run[l].records /\ o.i = run[l].i /\ o \in StackRuns
  <2>1. run[l].children \cup {child} \subseteq StackChildren /\ p \in StackPids
    BY <1>2 DEF StackRuns, StackPids
  <2> QED
    BY <1>2, <1>8, <2>1 DEF StackRuns, StackSteps
<1>10. run' = [run EXCEPT ![l] = o] /\ flock' = l
  BY <1>2, <1>5, <1>7, <1>8
<1>11. run'[l] = o /\ run' \in [Launchers -> StackRuns] /\ OnlyAtWork(l)'
  BY <1>9, <1>10, LauncherMoves
<1>12. /\ group' \in [Numbers -> StackGroups] /\ births' \in Nat /\ BirthsUnique'
       /\ \A q, b \in Nat : NamesOurs(q, b) => NamesOurs(q, b)'
       /\ NamesOurs(p, birth)'
  <2>1. g.of # "none" /\ g.of # Others
    BY <1>2, <1>6, StackFacts
  <2> QED
    BY <1>1, <1>3, <1>4, <1>5, <1>6, <2>1, GroupBorn
<1>13. /\ p # NoPid
       /\ \A q \in Numbers : q # p => group'[q] = group[q]
       /\ group'[p] = g
  BY <1>3, <1>6, StackFacts DEF StackTyped
<1>14. NamedOurs(o)'
  <2>1. \A r \in Owned(manifest.records) \cup Owned(o.records) : r \in StackRecords
    BY <1>2, <1>9, OwnedRecords DEF StackRuns
  <2>2. \A r \in Owned(manifest.records) \cup Owned(o.records) : RecordOurs(r)'
    <3>1. SUFFICES ASSUME NEW r \in Owned(manifest.records) \cup Owned(o.records) PROVE RecordOurs(r)'
      OBVIOUS
    <3>2. RecordOurs(r) /\ r.pid \in Nat /\ r.birth \in Nat
      BY <1>3, <1>9, <2>1, StackFacts DEF NamedOurs, StackRecords, StackPids, NoPid
    <3> QED
      BY <1>1, <1>12, <3>2 DEF RecordOurs
  <2>3. \A c \in run[l].children : c.pid \in Nat /\ c.birth \in Nat /\ NamesOurs(c.pid, c.birth)
    BY <1>2, <1>3, StackFacts DEF NamedOurs, StackRuns, StackChildren
  <2>4. \A c \in o.children : NamesOurs(c.pid, c.birth)'
    BY <1>7, <1>9, <1>12, <2>3
  <2> QED
    BY <1>1, <2>2, <2>4 DEF NamedOurs
<1>15. LauncherKnows(o)'
  <2>1. \A d \in o.children : d.birth <= birth
    BY <1>2, <1>3, <1>4, <1>7, <1>9 DEF NamedOurs, NamesOurs, StackRuns, StackChildren
  <2>2. child \in o.children /\ child.pid = o.pid /\ \A d \in o.children : d.birth <= child.birth
    BY <1>7, <1>9, <2>1
  <2>3. \A c \in o.children : (\E r \in Owned(o.records) : r.pid = c.pid) \/ o.pid = c.pid
    BY <1>1, <1>2, <1>7, <1>9 DEF LauncherKnows
  <2> QED
    BY <1>1, <1>2, <1>9, <1>13, <2>2, <2>3 DEF LauncherKnows
<1>16. KnownSomewhere(o)'
  <2>1. Unannounced(run[l]) = {} /\ Oneshots(o.records) = Oneshots(run[l].records)
    BY <1>1, <1>9 DEF Unannounced
  <2>2. ASSUME NEW q \in Numbers, group'[q].of \in Services
        PROVE  \/ group'[q].birth \in lost.births
               \/ \E r \in Owned(manifest.records) : r.pid = q
               \/ \E c \in o.children : c.birth = group'[q].birth
    <3>1. CASE q = p
      BY <1>6, <1>7, <1>9, <1>13, <3>1
    <3>2. CASE q # p
      BY <1>3, <1>9, <1>13, <2>2, <3>2 DEF KnownSomewhere
    <3> QED
      BY <3>1, <3>2
  <2> QED
    BY <1>1, <1>3, <2>1, <2>2 DEF KnownSomewhere
<1>17. PendingStill(o)' /\ NothingLeft(o)'
  BY <1>9 DEF PendingStill, NothingLeft
<1>18. StackTyped' /\ OthersSpared'
  BY <1>1, <1>2, <1>3, <1>10, <1>11, <1>12 DEF StackTyped, OthersSpared
<1> QED
  BY <1>11, <1>12, <1>14, <1>15, <1>16, <1>17, <1>18 DEF StackIInvAt

\* The command of a one-shot begins.
LEMMA SpawnOneshotKeeps == ASSUME NEW l \in Launchers, StackIInvAt(l), SpawnOneshot(l) PROVE StackIInvAt(l)'
<1>1. /\ run[l].at = "service" /\ run[l].i <= Len(Plan) /\ Mode[Service(l)] = "oneshot"
      /\ helper' = [helper EXCEPT ![Service(l)] = TRUE]
      /\ resource' = [resource EXCEPT ![Service(l)] = IF @ = "none" THEN @ ELSE "unclear"]
      /\ run' = [run EXCEPT ![l] = [run[l] EXCEPT !.at = "announce"]] /\ flock' = flock
      /\ UNCHANGED <<manifest, group, births, world, lost, harmed>>
  BY DEF SpawnOneshot, Starting, To, Hold
<1>2. /\ flock = l /\ run[l] \in StackRuns /\ manifest.records = run[l].records /\ ~run[l].errors
      /\ LauncherKnows(run[l]) /\ run[l].i \in 1 .. Len(Plan) + 1
      /\ Service(l) \in Services /\ Service(l) = Plan[run[l].i]
      /\ manifest \in [phase : StackPhases, records : Seq(StackRecords)]
      /\ lost \in [births : SUBSET Nat, oneshots : SUBSET Services]
  BY <1>1, StartingFacts
<1>3. StackTyped /\ BirthsUnique /\ NamedOurs(run[l]) /\ KnownSomewhere(run[l]) /\ OthersSpared
  BY DEF StackIInvAt
<1>4. Service(l) \in Of("oneshot")
  BY <1>1, <1>2 DEF Of
<1>5. PICK o : o = [run[l] EXCEPT !.at = "announce"]
  OBVIOUS
<1>6. /\ o.at = "announce" /\ o.pid = NoPid /\ o.children = run[l].children /\ ~o.errors
      /\ o.records = run[l].records /\ o.i = run[l].i /\ o \in StackRuns
  BY <1>1, <1>2, <1>5 DEF StackRuns, StackSteps, LauncherKnows
<1>7. run' = [run EXCEPT ![l] = o] /\ flock' = l
  BY <1>1, <1>2, <1>5
<1>8. run'[l] = o /\ run' \in [Launchers -> StackRuns] /\ OnlyAtWork(l)'
  BY <1>6, <1>7, LauncherMoves
<1>9. /\ helper' \in [Of("oneshot") -> BOOLEAN]
      /\ resource' \in [Of("oneshot") -> {"none", "ours", "theirs", "unclear"}]
      /\ resource'[Service(l)] \in {"none", "unclear"}
      /\ \A s \in Of("oneshot") : s # Service(l) => resource'[s] = resource[s] /\ helper'[s] = helper[s]
  BY <1>1, <1>3, <1>4 DEF StackTyped
<1>10. \A q, b : NamesOurs(q, b) => NamesOurs(q, b)'
  BY <1>1 DEF NamesOurs, GroupLives
<1>11. NamedOurs(o)'
  BY <1>1, <1>3, <1>6, <1>9, <1>10 DEF NamedOurs, RecordOurs
<1>12. LauncherKnows(o)'
  BY <1>1, <1>2, <1>4, <1>6, <1>9 DEF LauncherKnows
<1>13. KnownSomewhere(o)'
  <2>1. Unannounced(run[l]) = {} /\ Unannounced(o)' = {Service(l)}
    BY <1>1, <1>2, <1>6 DEF Unannounced
  <2> QED
    BY <1>1, <1>3, <1>6, <1>9, <2>1 DEF KnownSomewhere
<1>14. PendingStill(o)' /\ NothingLeft(o)'
  BY <1>6 DEF PendingStill, NothingLeft
<1>15. StackTyped' /\ OthersSpared' /\ BirthsUnique'
  BY <1>1, <1>2, <1>3, <1>7, <1>8, <1>9 DEF StackTyped, OthersSpared, BirthsUnique, GroupLives
<1> QED
  BY <1>8, <1>11, <1>12, <1>13, <1>14, <1>15 DEF StackIInvAt

\* What the world does: no launcher takes a step.
LEMMA WorldKeeps ==
  ASSUME NEW l \in Launchers, StackIInvAt(l), UNCHANGED <<manifest, flock, run, lost, harmed>>,
         StackTyped', BirthsUnique',
         \A q, b \in Nat : NamesOurs(q, b) => NamesOurs(q, b)',
         \A q \in Numbers : group'[q].of \in Services =>
               group'[q].of = group[q].of /\ group'[q].birth = group[q].birth,
         \A s \in Of("oneshot") : /\ resource'[s] = "ours" \/ helper'[s] => resource[s] = "ours" \/ helper[s]
                                  /\ resource'[s] = "theirs" /\ resource[s] # "theirs" =>
                                       s \notin Oneshots(manifest.records) \cup Oneshots(run[l].records)
                                                  \cup Unannounced(run[l])
  PROVE  StackIInvAt(l)'
<1>1. PICK o \in StackRuns : o = run[l] /\ o = run'[l]
  BY DEF StackIInvAt, StackTyped
<1>2. /\ NamedOurs(o) /\ LauncherKnows(o) /\ KnownSomewhere(o) /\ PendingStill(o) /\ NothingLeft(o)
      /\ manifest.records \in Seq(StackRecords) /\ o.records \in Seq(StackRecords)
  BY <1>1 DEF StackIInvAt, StackTyped, StackRuns
<1>3. \A r \in Owned(manifest.records) \cup Owned(o.records) : r \in StackRecords
  BY <1>2, OwnedRecords
<1>4. NamedOurs(o)'
  <2>1. ASSUME NEW r \in Owned(manifest.records) \cup Owned(o.records) PROVE RecordOurs(r)'
    <3>1. RecordOurs(r) /\ r.pid \in Nat /\ r.birth \in Nat
      BY <1>2, <1>3, StackFacts DEF NamedOurs, StackRecords, StackPids, NoPid
    <3>2. r.pid = NoPid => r.of \in Oneshots(manifest.records) \cup Oneshots(o.records)
      BY OneshotOf
    <3> QED
      BY <1>1, <3>1, <3>2 DEF RecordOurs
  <2>2. \A c \in o.children : c.pid \in Nat /\ c.birth \in Nat /\ NamesOurs(c.pid, c.birth)
    BY <1>2, StackFacts DEF NamedOurs, StackRuns, StackChildren
  <2> QED
    BY <2>1, <2>2 DEF NamedOurs
<1>5. LauncherKnows(o)'
  <2>1. o.at = "announce" /\ o.pid = NoPid =>
          Plan[o.i] \in Of("oneshot") /\ resource'[Plan[o.i]] # "theirs"
    BY <1>1, <1>2 DEF LauncherKnows, Unannounced
  <2> QED
    BY <1>2, <2>1 DEF LauncherKnows
<1>6. KnownSomewhere(o)'
  <2>1. Unannounced(o)' = Unannounced(o)
    BY DEF Unannounced
  <2> QED
    BY <1>2, <2>1 DEF KnownSomewhere
<1>7. PendingStill(o)'
  <2>1. SUFFICES ASSUME o.at \in {"roll", "grace"} /\ ~o.errors PROVE PendingStill(o)'
    BY DEF PendingStill
  <2>2. /\ \A p \in Numbers : group[p].of \in Services =>
             \/ group[p].birth \in lost.births
             \/ \E j \in 1 .. o.i : o.records[j].owned /\ o.records[j].pid = p
        /\ \A s \in Of("oneshot") : resource[s] = "ours" \/ helper[s] =>
             \/ s \in lost.oneshots
             \/ \E j \in 1 .. o.i : o.records[j].owned /\ o.records[j].pid = NoPid /\ o.records[j].of = s
    BY <1>2, <2>1 DEF PendingStill
  <2> QED
    BY <2>2 DEF PendingStill
<1>8. NothingLeft(o)'
  BY <1>2 DEF NothingLeft
<1>9. OnlyAtWork(l)' /\ OthersSpared'
  BY DEF StackIInvAt, OnlyAtWork, OthersSpared
<1> QED
  BY <1>1, <1>4, <1>5, <1>6, <1>7, <1>8, <1>9 DEF StackIInvAt

\* The command of a one-shot does what it is there for.
LEMMA HelperWorksKeeps ==
  ASSUME NEW l \in Launchers, StackIInvAt(l), NEW s \in Of("oneshot"), HelperWorks(s) PROVE StackIInvAt(l)'
<1>1. StackTyped /\ BirthsUnique
  BY DEF StackIInvAt
<1>2. /\ UNCHANGED <<manifest, flock, run, group, births, world, lost, harmed>> /\ helper[s]
      /\ helper' \in [Of("oneshot") -> BOOLEAN]
      /\ resource' \in [Of("oneshot") -> {"none", "ours", "theirs", "unclear"}]
      /\ resource'[s] # "theirs"
      /\ \A t \in Of("oneshot") : /\ t # s => resource'[t] = resource[t]
                                  /\ helper'[t] => helper[t]
  BY <1>1 DEF HelperWorks, StackTyped
<1>3. StackTyped' /\ BirthsUnique' /\ \A q, b \in Nat : NamesOurs(q, b) => NamesOurs(q, b)'
  BY <1>1, <1>2 DEF StackTyped, BirthsUnique, NamesOurs, GroupLives
<1> QED
  BY <1>2, <1>3, WorldKeeps

\* Services end, leave descendants behind, and their numbers go to others.
LEMMA GroupChangesKeeps ==
  ASSUME NEW l \in Launchers, StackIInvAt(l), NEW p \in Numbers, GroupChanges(p) PROVE StackIInvAt(l)'
<1>1. /\ StackTyped /\ BirthsUnique /\ group[p] \in StackGroups /\ births \in Nat
      /\ UNCHANGED <<manifest, flock, run, resource, helper, world, lost, harmed>>
  BY DEF StackIInvAt, StackTyped, GroupChanges
<1>2. CASE \E g \in StackGroups :
             /\ group' = [group EXCEPT ![p] = g] /\ births' = births
             /\ \/ g = NoGroup
                \/ GroupLives(p) /\ g.of = group[p].of /\ g.birth = group[p].birth /\ (g.leader \/ g.rest)
  <2>1. PICK g \in StackGroups :
             /\ group' = [group EXCEPT ![p] = g] /\ births' = births
             /\ \/ g = NoGroup
                \/ GroupLives(p) /\ g.of = group[p].of /\ g.birth = group[p].birth /\ (g.leader \/ g.rest)
    BY <1>2
  <2>2. /\ group' \in [Numbers -> StackGroups] /\ BirthsUnique'
        /\ \A q, b : NamesOurs(q, b) => NamesOurs(q, b)'
        /\ \A q \in Numbers : group'[q].of \in Services =>
               group'[q].of = group[q].of /\ group'[q].birth = group[q].birth
    BY <1>1, <2>1, GroupsFewer
  <2>3. StackTyped'
    BY <1>1, <2>1, <2>2 DEF StackTyped
  <2> QED
    BY <1>1, <2>2, <2>3, WorldKeeps
<1>3. CASE /\ ~GroupLives(p) /\ births' = births + 1
           /\ group' = [group EXCEPT ![p] = [of |-> Others, birth |-> births + 1, leader |-> TRUE, rest |-> FALSE]]
  <2>1. PICK birth \in Nat : birth = births + 1
    BY <1>1
  <2>2. PICK g \in StackGroups : /\ g.of = Others /\ g.birth = birth /\ g.leader
                                 /\ group' = [group EXCEPT ![p] = g]
    BY <1>3, <2>1 DEF StackGroups
  <2>3. /\ group' \in [Numbers -> StackGroups] /\ births' \in Nat /\ BirthsUnique'
        /\ \A q, b \in Nat : NamesOurs(q, b) => NamesOurs(q, b)'
    BY <1>1, <1>3, <2>1, <2>2, GroupBorn, StackFacts
  <2>4. \A q \in Numbers : group'[q].of \in Services =>
               group'[q].of = group[q].of /\ group'[q].birth = group[q].birth
    BY <1>1, <2>2, StackFacts DEF StackTyped
  <2>5. StackTyped'
    BY <1>1, <2>3 DEF StackTyped
  <2> QED
    BY <1>1, <2>3, <2>4, <2>5, WorldKeeps
<1>4. NoGroup \in StackGroups
  BY DEF NoGroup, StackGroups
<1>5. ASSUME group[p].leader
      PROVE  /\ [group[p] EXCEPT !.leader = FALSE, !.rest = TRUE] \in StackGroups /\ GroupLives(p)
             /\ [group[p] EXCEPT !.leader = FALSE, !.rest = TRUE].of = group[p].of
             /\ [group[p] EXCEPT !.leader = FALSE, !.rest = TRUE].birth = group[p].birth
             /\ [group[p] EXCEPT !.leader = FALSE, !.rest = TRUE].rest
  BY <1>1, <1>5 DEF StackGroups, GroupLives
<1>6. \/ /\ group[p].leader /\ UNCHANGED births
         /\ \/ group' = [group EXCEPT ![p] = [group[p] EXCEPT !.leader = FALSE, !.rest = TRUE]]
            \/ group' = [group EXCEPT ![p] = NoGroup]
      \/ group' = [group EXCEPT ![p] = NoGroup] /\ UNCHANGED births
      \/ /\ ~GroupLives(p) /\ births' = births + 1
         /\ group' = [group EXCEPT ![p] = [of |-> Others, birth |-> births + 1, leader |-> TRUE, rest |-> FALSE]]
  BY <1>1 DEF GroupChanges, StackTyped
<1> QED
  BY <1>2, <1>3, <1>4, <1>5, <1>6

\* Others make or remove the resource of a one-shot by hand.
LEMMA OthersActKeeps == ASSUME NEW l \in Launchers, StackIInvAt(l), OthersAct PROVE StackIInvAt(l)'
<1>1. /\ StackTyped /\ BirthsUnique
      /\ UNCHANGED <<manifest, flock, run, group, births, helper, lost, harmed>>
  BY DEF StackIInvAt, OthersAct
<1>2. BirthsUnique' /\ \A q, b \in Nat : NamesOurs(q, b) => NamesOurs(q, b)'
  BY <1>1 DEF BirthsUnique, NamesOurs, GroupLives
<1>3. CASE UNCHANGED resource
  <2>1. StackTyped'
    BY <1>1, <1>3 DEF StackTyped
  <2> QED
    BY <1>1, <1>2, <1>3, <2>1, WorldKeeps
<1>4. CASE \E s \in Of("oneshot") :
             resource' = [resource EXCEPT ![s] =
                   IF @ # "none" THEN "none"
                   ELSE IF s \in Oneshots(manifest.records) \cup UNION {OnlyOneshots(k) : k \in Launchers}
                        THEN "unclear" ELSE "theirs"]
  <2>1. PICK s \in Of("oneshot") :
             resource' = [resource EXCEPT ![s] =
                   IF @ # "none" THEN "none"
                   ELSE IF s \in Oneshots(manifest.records) \cup UNION {OnlyOneshots(k) : k \in Launchers}
                        THEN "unclear" ELSE "theirs"]
    BY <1>4
  <2>2. /\ resource' \in [Of("oneshot") -> {"none", "ours", "theirs", "unclear"}]
        /\ \A t \in Of("oneshot") : t # s => resource'[t] = resource[t]
        /\ resource'[s] # "ours"
        /\ resource'[s] = "theirs" =>
             s \notin Oneshots(manifest.records) \cup UNION {OnlyOneshots(k) : k \in Launchers}
    BY <1>1, <2>1 DEF StackTyped
  <2>3. Oneshots(run[l].records) \cup Unannounced(run[l])
           \subseteq Oneshots(manifest.records) \cup UNION {OnlyOneshots(k) : k \in Launchers}
    BY DEF OnlyOneshots, Unannounced, Service
  <2>4. StackTyped'
    BY <1>1, <2>2 DEF StackTyped
  <2> QED
    BY <1>1, <1>2, <2>2, <2>3, <2>4, WorldKeeps
<1> QED
  BY <1>3, <1>4 DEF OthersAct

\* At the beginning nothing runs.
LEMMA StackStarts == StackInit => StackIInv
<1>1. SUFFICES ASSUME StackInit PROVE StackIInv
  OBVIOUS
<1>2. PICK l \in Launchers : TRUE
  BY StackAssumption
<1>3. /\ NoGroup \in StackGroups /\ NoGroup.of \notin Services /\ ~NoGroup.leader /\ ~NoGroup.rest
  BY StackFacts DEF NoGroup, StackGroups
<1>4. /\ manifest \in [phase : StackPhases, records : Seq(StackRecords)]
      /\ Owned(manifest.records) = {}
  BY <1>1, OwnedNone DEF StackInit, NoManifest, StackPhases
<1>5. StackTyped
  BY <1>1, <1>3, <1>4, RestingFacts DEF StackInit, StackTyped
<1>6. BirthsUnique /\ OthersSpared
  BY <1>1, <1>3 DEF StackInit, BirthsUnique, OthersSpared, GroupLives
<1>7. run[l] = Resting /\ OnlyAtWork(l)
  BY <1>1, RestingFacts DEF StackInit, OnlyAtWork
<1>8. NamedOurs(run[l]) /\ LauncherKnows(run[l]) /\ PendingStill(run[l]) /\ NothingLeft(run[l])
  BY <1>4, <1>7, RestingFacts DEF NamedOurs, LauncherKnows, PendingStill, NothingLeft
<1>9. KnownSomewhere(run[l])
  BY <1>1, <1>3 DEF StackInit, KnownSomewhere
<1> QED
  BY <1>5, <1>6, <1>7, <1>8, <1>9 DEF StackIInv

\* Every step keeps the invariant.
LEMMA StackKeeps == StackIInv /\ [StackNext]_stackVars => StackIInv'
<1>1. SUFFICES ASSUME StackIInv, [StackNext]_stackVars PROVE StackIInv'
  OBVIOUS
<1>2. ASSUME NEW l \in Launchers, Launcher(l) \/ Dies(l) PROVE StackIInv'
  <2>1. run[l].at # "rest" \/ flock = NoLauncher
    BY <1>2 DEF Launcher, Launching, Stopping, Begin, Load, Skip, Undo, Term, Kill, Conclude, Fresh,
       Reuse, Missing, SpawnDaemon, SpawnOneshot, Announce, Await, Ready, Finish, Unwind, Dies,
       Rolling, Starting
  <2>2. StackIInvAt(l)
    BY <1>1, <2>1, TheOneAtWork
  <2>3. StackIInvAt(l)'
    BY <1>2, <2>2, BeginKeeps, LoadKeeps, SkipKeeps, UndoKeeps, TermKeeps, KillKeeps, ConcludeKeeps,
       FreshKeeps, ReuseKeeps, MissingKeeps, SpawnDaemonKeeps, SpawnOneshotKeeps, AnnounceKeeps,
       AwaitKeeps, ReadyKeeps, FinishKeeps, UnwindKeeps, DiesKeeps DEF Launcher, Launching, Stopping
  <2> QED
    BY <2>3, AtWorkSuffices
<1>3. PICK l \in Launchers : StackIInvAt(l)
  BY <1>1 DEF StackIInv, StackIInvAt
<1>4. CASE OthersAct \/ (\E s \in Of("oneshot") : HelperWorks(s)) \/ (\E p \in Numbers : GroupChanges(p))
  BY <1>3, <1>4, AtWorkSuffices, OthersActKeeps, HelperWorksKeeps, GroupChangesKeeps
<1>5. CASE UNCHANGED stackVars
  <2>1. StackTyped' /\ BirthsUnique' /\ \A q, b \in Nat : NamesOurs(q, b) => NamesOurs(q, b)'
    BY <1>3, <1>5 DEF StackIInvAt, StackTyped, BirthsUnique, NamesOurs, GroupLives, stackVars, machine
  <2>2. UNCHANGED <<manifest, flock, run, lost, harmed>> /\ UNCHANGED <<group, resource, helper>>
    BY <1>5 DEF stackVars, machine
  <2> QED
    BY <1>3, <2>1, <2>2, WorldKeeps, AtWorkSuffices
<1> QED
  BY <1>1, <1>2, <1>4, <1>5 DEF StackNext

\* The invariant names a keeper for each process and each one-shot.
LEMMA StackImplied == StackIInv => StackSound
<1>1. SUFFICES ASSUME StackIInv PROVE StackAccounted
  BY DEF StackSound, StackIInv
<1>2. PICK l \in Launchers : StackIInvAt(l)
  BY <1>1 DEF StackIInv, StackIInvAt
<1>3. LauncherKnows(run[l]) /\ KnownSomewhere(run[l])
  BY <1>2 DEF StackIInvAt
<1>4. run[l].at = "rest" =>
        run[l].children = {} /\ Oneshots(run[l].records) = {} /\ Unannounced(run[l]) = {}
  BY <1>3, RestingFacts DEF LauncherKnows
<1>5. ASSUME NEW p \in Numbers, group[p].of \in Services
      PROVE  \/ group[p].birth \in Births(manifest.records) \cup lost.births
             \/ \E k \in {j \in Launchers : run[j].at # "rest"} : group[p].birth \in OnlyBirths(k)
             \/ \E r \in Owned(manifest.records) : r.pid = p
  BY <1>3, <1>4, <1>5 DEF KnownSomewhere, OnlyBirths
<1>6. ASSUME NEW s \in Of("oneshot"), resource[s] = "ours" \/ helper[s]
      PROVE  \/ s \in Oneshots(manifest.records) \cup lost.oneshots
             \/ \E k \in {j \in Launchers : run[j].at # "rest"} : s \in OnlyOneshots(k)
  BY <1>3, <1>4, <1>6 DEF KnownSomewhere, OnlyOneshots, Unannounced, Service
<1> QED
  BY <1>5, <1>6 DEF StackAccounted

(***************************************************************************)
(* The stack answers for all of its own and touches nothing else: for any  *)
(* plan, any number of launchers, operations, processes and failures,      *)
(* whatever runs is on the manifest, known to the launcher at work or      *)
(* lost, and no foreign group or resource was stopped (stack_lifecycle.py, *)
(* start, stop, _rollback).                                                *)
(***************************************************************************)
THEOREM StackSafety == StackSpec => []StackSound
<1>1. StackSpec => []StackIInv
  BY StackStarts, StackKeeps, PTL DEF StackSpec
<1> QED
  BY <1>1, StackImplied, PTL
=============================================================================

---------------------------- MODULE OperatorControlProofs ----------------------------
EXTENDS OperatorControl, FiniteSetTheorems, TLAPS

(***************************************************************************)
(* Proofs about the operator's control plane, for any number of clients,   *)
(* commands, leases and faults: at most one agent lives beside those whose *)
(* launcher died (OneAgent), and what a stop reported stays true until it  *)
(* is lifted (StopsHold).                                                  *)
(*                                                                         *)
(* A command is what is left of its script, so most of the invariant is    *)
(* about scripts: in which order the calls come, and that the dangerous    *)
(* ones lie behind a lock and before its release (Ordered, Guarded).       *)
(***************************************************************************)
CommandNames ==
  {"pause", "stop", "takeover", "bed-stop", "bed", "resume", "emergency", "reset", "run", "upgrade",
   "tidy", "replace", "leave"}

StepNames ==
  {"lock", "latch", "revoke", "contain", "confirm", "retire", "disarm", "reap", "close", "permitted",
   "claim", "unlock", "open", "finish", "reopen", "alone", "serve", "clear", "engage", "terminate",
   "halt", "warned", "inspect", "disengage", "arm", "activate", "recheck", "spawn", "record", "ready",
   "admit", "reload", "reserve", "watch", "qualify", "withdraw", "drain", "examine", "disown",
   "reclaim", "exit", "abort", "roll-back"}

\* The commands whose local and whose IPC form differ.
TwoForms == {"pause", "stop", "tidy", "leave", "resume"}

Operations ==
  [cmd : CommandNames \cup {"none"}, todo : Seq(StepNames), inside : BOOLEAN, torn : BOOLEAN,
   lease : Nat, old : Nat, part : 0 .. 4, admitted : BOOLEAN, child : BOOLEAN]

\* The steps that launch an agent once a lease is armed.
Raising == {"activate", "recheck", "spawn", "record"}

\* What is still to be done.
Left(s) == {s[i] : i \in 1 .. Len(s)}

\* Some step of B comes after the i-th.
Then(s, i, B) == \E j \in i + 1 .. Len(s) : s[j] \in B

\* The order of the calls of a command.
Ordered(s, c) ==
  /\ \A i \in 2 .. Len(s) :
       /\ s[i] = "activate" => s[i - 1] = "arm"
       /\ s[i] = "recheck" => s[i - 1] = "activate"
       /\ s[i] = "spawn" => s[i - 1] = "recheck"
       /\ s[i] = "record" => s[i - 1] = "spawn"
       /\ s[i] = "close" => s[i - 1] = "reap"
       /\ s[i] = "open" => s[i - 1] = "unlock"
       /\ s[i] = "claim" /\ c = "bed" => s[i - 1] = "permitted"
       /\ s[i] = "unlock" /\ c = "bed" => s[i - 1] = "claim"
       /\ s[i] = "confirm" /\ c = "bed-stop" => s[i - 1] = "close"
  /\ \A i \in 1 .. Len(s) :
       /\ s[i] = "spawn" => i < Len(s) /\ s[i + 1] = "record"
       /\ s[i] \in {"warned", "confirm"} => i = Len(s)
       /\ s[i] = "engage" => Then(s, i, {"terminate"})
       /\ s[i] = "lock" /\ c \in Durable => Then(s, i, {"latch"})
       /\ s[i] = "latch" /\ c \in Durable => Then(s, i, {"revoke", "disarm"})
       /\ s[i] \in {"arm"} \cup Raising => c \in {"run", "upgrade"}
       /\ s[i] = "open" => c = "bed"
       /\ s[i] \in {"alone", "reopen", "clear"} => c = "resume"

\* What is done under the operator's lock only.
Careful(c) ==
  {"confirm", "reopen", "clear", "withdraw", "arm"} \cup Raising
     \cup (IF c = "bed" THEN {"claim"} ELSE {})

Guarded(s, held, c) ==
  \A j \in 1 .. Len(s) : s[j] \in Careful(c) =>
     \/ held /\ \A k \in 1 .. j - 1 : s[k] # "unlock"
     \/ \E i \in 1 .. j - 1 : s[i] = "lock" /\ \A k \in i .. j - 1 : s[k] # "unlock"

\* What a script does not begin with.
Later(c) == Raising \cup {"close", "open", "confirm"} \cup (IF c = "bed" THEN {"claim", "unlock"} ELSE {})

\* A script as it is taken up.
Fresh(s, c) ==
  /\ s \in Seq(StepNames) /\ Ordered(s, c) /\ Guarded(s, FALSE, c)
  /\ s # <<>> => s[1] \notin Later(c)
  /\ "warned" \in Left(s) => "terminate" \in Left(s)
  /\ "confirm" \in Left(s) /\ c \in Durable => "latch" \in Left(s)

ControlTyped ==
  /\ intent \in Procs \cup {Nobody} /\ lifecycle \in Procs \cup {Nobody}
  /\ pause \in BOOLEAN /\ emergency \in BOOLEAN /\ late \in BOOLEAN /\ session \in BOOLEAN
  /\ sup \in [at : {"absent", "idle", "armed", "running", "paused", "failed"}, lease : Nat]
  /\ issued \in 0 .. MaxLeases /\ sup.lease <= issued
  /\ (sup.lease # NoLease) = (sup.at \in {"armed", "running"})
  /\ agents \subseteq 1 .. issued /\ lost \subseteq 1 .. issued /\ record \in 0 .. issued
  /\ service \in {"none", "off", "on", "halting"} /\ stage \in {"tidy", "bed", "run", "watch"}
  /\ op \in [Procs -> Operations]

\* Every process has the rest of a script left; who rests holds no lock.
ScriptOf(p) ==
  /\ Ordered(op[p].todo, op[p].cmd) /\ Guarded(op[p].todo, intent = p, op[p].cmd)
  /\ op[p].cmd = "none" => op[p] = Idle /\ intent # p /\ lifecycle # p
  /\ op[p].inside => op[p].cmd \in TwoForms
  /\ op[p].lease <= issued /\ (op[p].lease # NoLease => op[p].cmd \in {"run", "upgrade"})

BedAt(p, steps) == op[p].cmd = "bed" /\ \E x \in steps : At(p, x)

\* A durable stop that has latched and is not over.
Stopping(p) ==
  op[p].cmd \in Durable /\ "confirm" \in Left(op[p].todo) /\ "latch" \notin Left(op[p].todo)

\* An emergency stop that has terminated the supervisor for the last time.
Warning(p) == "warned" \in Left(op[p].todo) /\ "terminate" \notin Left(op[p].todo)

\* What a process knows where it is.
Knows(p) ==
  /\ \A x \in Raising : At(p, x) => op[p].lease # NoLease
  /\ At(p, "record") => record = NoLease
  /\ At(p, "close") \/ BedAt(p, {"unlock", "open"}) => lifecycle = p
  /\ Stopping(p) =>
       /\ ~op[p].torn => pause
       /\ Left(op[p].todo) \cap {"revoke", "disarm"} = {} => sup.lease = NoLease
  /\ op[p].cmd = "bed-stop" /\ At(p, "confirm") =>
       ~session /\ \A q \in Procs : ~BedAt(q, {"unlock", "open"})
  /\ p \in engaged /\ Warning(p) => sup.lease = NoLease

\* Whoever lives is on record, about to be recorded, or lost.
Accounted ==
  \A l \in agents \ lost : l = record \/ \E p \in Procs : At(p, "record") /\ op[p].lease = l

\* Nobody who could end what was reported is past the look at the markers.
RevokedStands ==
  /\ "revoked" \in promised =>
        /\ pause /\ sup.lease = NoLease /\ record = NoLease /\ agents \subseteq lost
        /\ \A p \in Procs : \A x \in Raising : ~At(p, x)
  /\ "closed" \in promised =>
        "revoked" \in promised /\ ~session /\ \A p \in Procs : ~BedAt(p, {"claim", "unlock", "open"})

OwedStands ==
  /\ owed \subseteq {"reset", "resume"} /\ (engaged # {} => owed # {})
  /\ "reset" \in owed => emergency
  /\ owed # {} => Latched
  /\ "halted" \in promised /\ owed # {} => sup.lease = NoLease

Orders == (\A p \in Procs : ScriptOf(p)) /\ (\A p \in Procs : Knows(p))

ControlIInv == ControlTyped /\ Orders /\ Accounted /\ RevokedStands /\ OwedStands

(***************************************************************************)
(* Scripts.                                                                *)
(***************************************************************************)

\* What is left after the first step of a script.
LEMMA TailFacts ==
  ASSUME NEW s \in Seq(StepNames), s # <<>>
  PROVE  /\ Tail(s) \in Seq(StepNames) /\ Len(s) \in Nat \ {0} /\ Len(Tail(s)) = Len(s) - 1
         /\ Head(s) = s[1] /\ Head(s) \in StepNames
         /\ \A i \in 1 .. Len(s) - 1 : Tail(s)[i] = s[i + 1]
         /\ Left(Tail(s)) \subseteq Left(s) /\ Left(s) \subseteq {Head(s)} \cup Left(Tail(s))
         /\ Head(s) \in Left(s)
         /\ Tail(s) # <<>> => Len(s) >= 2 /\ Head(Tail(s)) = s[2]
         /\ Tail(s) = <<>> => Len(s) = 1
<1>1. Tail(s) \in Seq(StepNames) /\ Len(s) \in Nat \ {0} /\ Len(Tail(s)) = Len(s) - 1
  OBVIOUS
<1>2. Head(s) = s[1] /\ s[1] \in StepNames
  OBVIOUS
<1>3. \A i \in 1 .. Len(s) - 1 : Tail(s)[i] = s[i + 1]
  OBVIOUS
<1>4. ASSUME NEW x \in Left(Tail(s)) PROVE x \in Left(s)
  <2>1. PICK i \in 1 .. Len(s) - 1 : x = s[i + 1]
    BY <1>1, <1>3, <1>4 DEF Left
  <2>2. i + 1 \in 1 .. Len(s)
    BY <1>1
  <2> QED
    BY <2>1, <2>2 DEF Left
<1>5. ASSUME NEW x \in Left(s), x # s[1] PROVE x \in Left(Tail(s))
  <2>1. PICK i \in 1 .. Len(s) : x = s[i]
    BY DEF Left
  <2>2. i - 1 \in 1 .. Len(s) - 1 /\ s[(i - 1) + 1] = s[i]
    BY <1>1, <1>5, <2>1
  <2>3. Tail(s)[i - 1] = s[i]
    BY <1>3, <2>2
  <2> QED
    BY <1>1, <2>1, <2>2, <2>3 DEF Left
<1>6. s[1] \in Left(s)
  BY <1>1 DEF Left
<1>7. Tail(s) # <<>> => Len(s) >= 2 /\ Head(Tail(s)) = s[2]
  OBVIOUS
<1>8. Tail(s) = <<>> => Len(s) = 1
  <2>1. Len(<<>>) = 0
    OBVIOUS
  <2>2. Tail(s) = <<>> => Len(s) - 1 = 0
    BY <1>1, <2>1
  <2> QED
    BY <1>1, <2>2
<1> QED
  BY <1>1, <1>2, <1>3, <1>4, <1>5, <1>6, <1>7, <1>8

\* The order survives a step.
LEMMA OrderedTail ==
  ASSUME NEW s \in Seq(StepNames), s # <<>>, NEW c, Ordered(s, c)
  PROVE  Ordered(Tail(s), c)
<1>1. /\ Len(s) \in Nat \ {0} /\ Len(Tail(s)) = Len(s) - 1
      /\ \A i \in 1 .. Len(s) - 1 : Tail(s)[i] = s[i + 1]
  BY TailFacts
<1>2. ASSUME NEW i \in 2 .. Len(Tail(s))
      PROVE  i + 1 \in 2 .. Len(s) /\ Tail(s)[i] = s[i + 1] /\ Tail(s)[i - 1] = s[(i + 1) - 1]
  BY <1>1
<1>3. ASSUME NEW i \in 1 .. Len(Tail(s)), NEW B, Then(s, i + 1, B)
      PROVE  Then(Tail(s), i, B)
  <2>1. PICK j \in (i + 1) + 1 .. Len(s) : s[j] \in B
    BY <1>3 DEF Then
  <2>2. j - 1 \in i + 1 .. Len(Tail(s)) /\ Tail(s)[j - 1] = s[j]
    BY <1>1
  <2> QED
    BY <2>1, <2>2 DEF Then
<1>4. ASSUME NEW i \in 1 .. Len(Tail(s))
      PROVE  /\ i + 1 \in 1 .. Len(s) /\ Tail(s)[i] = s[i + 1]
             /\ i + 1 < Len(s) => i < Len(Tail(s)) /\ Tail(s)[i + 1] = s[(i + 1) + 1]
             /\ i + 1 = Len(s) => i = Len(Tail(s))
  <2>1. i + 1 \in 1 .. Len(s) /\ i \in 1 .. Len(s) - 1
    BY <1>1
  <2>2. i + 1 < Len(s) => i < Len(Tail(s)) /\ i + 1 \in 1 .. Len(s) - 1
    BY <1>1
  <2>3. ASSUME i + 1 = Len(s) PROVE i = Len(Tail(s))
    <3>1. i \in Int /\ Len(s) \in Int
      BY <1>1, <2>1
    <3>2. i = Len(s) - 1
      BY <2>3, <3>1
    <3> QED
      BY <1>1, <3>2
  <2> QED
    BY <1>1, <2>1, <2>2, <2>3
<1>5. ASSUME NEW i \in 2 .. Len(Tail(s))
      PROVE  /\ Tail(s)[i] = "activate" => Tail(s)[i - 1] = "arm"
             /\ Tail(s)[i] = "recheck" => Tail(s)[i - 1] = "activate"
             /\ Tail(s)[i] = "spawn" => Tail(s)[i - 1] = "recheck"
             /\ Tail(s)[i] = "record" => Tail(s)[i - 1] = "spawn"
             /\ Tail(s)[i] = "close" => Tail(s)[i - 1] = "reap"
             /\ Tail(s)[i] = "open" => Tail(s)[i - 1] = "unlock"
             /\ Tail(s)[i] = "claim" /\ c = "bed" => Tail(s)[i - 1] = "permitted"
             /\ Tail(s)[i] = "unlock" /\ c = "bed" => Tail(s)[i - 1] = "claim"
             /\ Tail(s)[i] = "confirm" /\ c = "bed-stop" => Tail(s)[i - 1] = "close"
  BY <1>2 DEF Ordered
<1>6. ASSUME NEW i \in 1 .. Len(Tail(s))
      PROVE  /\ Tail(s)[i] = "spawn" => i < Len(Tail(s)) /\ Tail(s)[i + 1] = "record"
             /\ Tail(s)[i] \in {"warned", "confirm"} => i = Len(Tail(s))
             /\ Tail(s)[i] = "engage" => Then(Tail(s), i, {"terminate"})
             /\ Tail(s)[i] = "lock" /\ c \in Durable => Then(Tail(s), i, {"latch"})
             /\ Tail(s)[i] = "latch" /\ c \in Durable => Then(Tail(s), i, {"revoke", "disarm"})
             /\ Tail(s)[i] \in {"arm"} \cup Raising => c \in {"run", "upgrade"}
             /\ Tail(s)[i] = "open" => c = "bed"
             /\ Tail(s)[i] \in {"alone", "reopen", "clear"} => c = "resume"
  <2>1. /\ i + 1 \in 1 .. Len(s) /\ Tail(s)[i] = s[i + 1]
        /\ i + 1 < Len(s) => i < Len(Tail(s)) /\ Tail(s)[i + 1] = s[(i + 1) + 1]
        /\ i + 1 = Len(s) => i = Len(Tail(s))
    BY <1>4
  <2>2. /\ s[i + 1] = "engage" => Then(s, i + 1, {"terminate"})
        /\ s[i + 1] = "lock" /\ c \in Durable => Then(s, i + 1, {"latch"})
        /\ s[i + 1] = "latch" /\ c \in Durable => Then(s, i + 1, {"revoke", "disarm"})
    BY <2>1 DEF Ordered
  <2>3. /\ s[i + 1] = "spawn" => i + 1 < Len(s) /\ s[(i + 1) + 1] = "record"
        /\ s[i + 1] \in {"warned", "confirm"} => i + 1 = Len(s)
        /\ s[i + 1] \in {"arm"} \cup Raising => c \in {"run", "upgrade"}
        /\ s[i + 1] = "open" => c = "bed"
        /\ s[i + 1] \in {"alone", "reopen", "clear"} => c = "resume"
    BY <2>1 DEF Ordered
  <2> QED
    BY <1>3, <2>1, <2>2, <2>3
<1> QED
  BY <1>5, <1>6 DEF Ordered

\* What is still to come under the lock is, after any step: taking the lock begins it.
LEMMA GuardedTail ==
  ASSUME NEW s \in Seq(StepNames), s # <<>>, NEW c, NEW held \in BOOLEAN, Guarded(s, held, c),
         NEW holds \in BOOLEAN, held /\ Head(s) # "unlock" => holds, Head(s) = "lock" => holds
  PROVE  Guarded(Tail(s), holds, c)
<1>1. /\ Len(s) \in Nat \ {0} /\ Len(Tail(s)) = Len(s) - 1 /\ Head(s) = s[1]
      /\ \A i \in 1 .. Len(s) - 1 : Tail(s)[i] = s[i + 1]
  BY TailFacts
<1> SUFFICES ASSUME NEW j \in 1 .. Len(Tail(s)), Tail(s)[j] \in Careful(c)
             PROVE  \/ holds /\ \A k \in 1 .. j - 1 : Tail(s)[k] # "unlock"
                    \/ \E i \in 1 .. j - 1 :
                         Tail(s)[i] = "lock" /\ \A k \in i .. j - 1 : Tail(s)[k] # "unlock"
  BY DEF Guarded
<1>2. j + 1 \in 1 .. Len(s) /\ Tail(s)[j] = s[j + 1]
  BY <1>1
<1>3. CASE held /\ \A k \in 1 .. (j + 1) - 1 : s[k] # "unlock"
  <2>1. \A k \in 1 .. j - 1 : Tail(s)[k] = s[k + 1] /\ k + 1 \in 1 .. (j + 1) - 1
    BY <1>1
  <2>2. 1 \in 1 .. (j + 1) - 1
    OBVIOUS
  <2> QED
    BY <1>1, <1>3, <2>1, <2>2
<1>4. ASSUME NEW i \in 1 .. (j + 1) - 1, s[i] = "lock", \A k \in i .. (j + 1) - 1 : s[k] # "unlock"
      PROVE  \/ holds /\ \A k \in 1 .. j - 1 : Tail(s)[k] # "unlock"
             \/ \E h \in 1 .. j - 1 :
                  Tail(s)[h] = "lock" /\ \A k \in h .. j - 1 : Tail(s)[k] # "unlock"
  <2>1. CASE i = 1
    <3>1. \A k \in 1 .. j - 1 : Tail(s)[k] = s[k + 1] /\ k + 1 \in i .. (j + 1) - 1
      BY <1>1, <2>1
    <3> QED
      BY <1>1, <1>4, <2>1, <3>1
  <2>2. CASE i # 1
    <3>1. i - 1 \in 1 .. j - 1 /\ Tail(s)[i - 1] = s[i]
      BY <1>1, <2>2
    <3>2. \A k \in i - 1 .. j - 1 : Tail(s)[k] = s[k + 1] /\ k + 1 \in i .. (j + 1) - 1
      BY <1>1, <2>2
    <3> QED
      BY <1>4, <3>1, <3>2
  <2> QED
    BY <2>1, <2>2
<1> QED
  BY <1>2, <1>3, <1>4 DEF Guarded

\* What is guarded by locks of its own is so in any case.
LEMMA GuardedMore ==
  ASSUME NEW s, NEW c, NEW held, Guarded(s, FALSE, c) PROVE Guarded(s, held, c)
BY DEF Guarded

\* The careful steps are done by the holder of the lock.
LEMMA HeadIsHeld ==
  ASSUME NEW s \in Seq(StepNames), s # <<>>, NEW c, NEW held, Guarded(s, held, c), Head(s) \in Careful(c)
  PROVE  held
<1>1. Len(s) \in Nat \ {0} /\ Head(s) = s[1]
  BY TailFacts
<1>2. 1 \in 1 .. Len(s) /\ 1 .. 1 - 1 = {}
  BY <1>1
<1> QED
  BY <1>1, <1>2 DEF Guarded

\* Which step a step comes after, and what follows it.
LEMMA NextStep ==
  ASSUME NEW s \in Seq(StepNames), s # <<>>, NEW c, Ordered(s, c)
  PROVE  /\ Tail(s) # <<>> =>
              /\ Head(Tail(s)) = "activate" => Head(s) = "arm"
              /\ Head(Tail(s)) = "recheck" => Head(s) = "activate"
              /\ Head(Tail(s)) = "spawn" => Head(s) = "recheck"
              /\ Head(Tail(s)) = "record" => Head(s) = "spawn"
              /\ Head(Tail(s)) = "close" => Head(s) = "reap"
              /\ Head(Tail(s)) = "open" => Head(s) = "unlock"
              /\ Head(Tail(s)) = "claim" /\ c = "bed" => Head(s) = "permitted"
              /\ Head(Tail(s)) = "unlock" /\ c = "bed" => Head(s) = "claim"
              /\ Head(Tail(s)) = "confirm" /\ c = "bed-stop" => Head(s) = "close"
         /\ Head(s) = "spawn" => Tail(s) # <<>> /\ Head(Tail(s)) = "record"
         /\ Head(s) \in {"warned", "confirm"} => Tail(s) = <<>> /\ Left(s) = {Head(s)}
         /\ Head(s) = "engage" => "terminate" \in Left(Tail(s))
         /\ c \in Durable /\ Head(s) = "latch" => Left(Tail(s)) \cap {"revoke", "disarm"} # {}
         /\ Head(s) \in {"arm"} \cup Raising => c \in {"run", "upgrade"}
         /\ Head(s) = "open" => c = "bed"
         /\ Head(s) \in {"alone", "reopen", "clear"} => c = "resume"
<1>1. /\ Len(s) \in Nat \ {0} /\ Len(Tail(s)) = Len(s) - 1 /\ Head(s) = s[1]
      /\ \A i \in 1 .. Len(s) - 1 : Tail(s)[i] = s[i + 1]
      /\ Tail(s) # <<>> => Len(s) >= 2 /\ Head(Tail(s)) = s[2]
      /\ Tail(s) = <<>> => Len(s) = 1
  BY TailFacts
<1>2. Tail(s) # <<>> => 2 \in 2 .. Len(s) /\ s[2 - 1] = s[1]
  BY <1>1
<1>3. 1 \in 1 .. Len(s) /\ s[1 + 1] = s[2]
  BY <1>1
<1>4. ASSUME NEW B, Then(s, 1, B) PROVE Left(Tail(s)) \cap B # {}
  <2>1. PICK j \in 1 + 1 .. Len(s) : s[j] \in B
    BY <1>4 DEF Then
  <2>2. j - 1 \in 1 .. Len(Tail(s)) /\ Tail(s)[j - 1] = s[j]
    BY <1>1
  <2> QED
    BY <2>1, <2>2 DEF Left
<1>5. Tail(s) # <<>> =>
        /\ s[2] = "activate" => s[1] = "arm"
        /\ s[2] = "recheck" => s[1] = "activate"
        /\ s[2] = "spawn" => s[1] = "recheck"
        /\ s[2] = "record" => s[1] = "spawn"
        /\ s[2] = "close" => s[1] = "reap"
        /\ s[2] = "open" => s[1] = "unlock"
        /\ s[2] = "claim" /\ c = "bed" => s[1] = "permitted"
        /\ s[2] = "unlock" /\ c = "bed" => s[1] = "claim"
        /\ s[2] = "confirm" /\ c = "bed-stop" => s[1] = "close"
  BY <1>2 DEF Ordered
<1>6. /\ s[1] = "spawn" => 1 < Len(s) /\ s[2] = "record"
      /\ s[1] \in {"warned", "confirm"} => 1 = Len(s)
      /\ s[1] = "engage" => Then(s, 1, {"terminate"})
      /\ s[1] = "latch" /\ c \in Durable => Then(s, 1, {"revoke", "disarm"})
      /\ s[1] \in {"arm"} \cup Raising => c \in {"run", "upgrade"}
      /\ s[1] = "open" => c = "bed"
      /\ s[1] \in {"alone", "reopen", "clear"} => c = "resume"
  BY <1>3 DEF Ordered
<1>7. 1 < Len(s) => Tail(s) # <<>>
  BY <1>1
<1>8. Len(s) = 1 => Tail(s) = <<>> /\ Left(s) = {s[1]}
  BY <1>1 DEF Left
<1>9. s[1] = "engage" => "terminate" \in Left(Tail(s))
  BY <1>4, <1>6
<1>10. s[1] = "latch" /\ c \in Durable => Left(Tail(s)) \cap {"revoke", "disarm"} # {}
  BY <1>4, <1>6
<1> QED
  BY <1>1, <1>5, <1>6, <1>7, <1>8, <1>9, <1>10

\* A stop that has latched holds the lock.
LEMMA StopIsHeld ==
  ASSUME NEW s \in Seq(StepNames), NEW c \in Durable, NEW held, Ordered(s, c), Guarded(s, held, c),
         "confirm" \in Left(s), "latch" \notin Left(s)
  PROVE  held
<1>1. PICK j \in 1 .. Len(s) : s[j] = "confirm"
  BY DEF Left
<1>2. Len(s) \in Nat
  OBVIOUS
<1>3. ASSUME NEW i \in 1 .. j - 1, s[i] = "lock" PROVE FALSE
  <2>1. i \in 1 .. Len(s)
    BY <1>2
  <2>2. Then(s, i, {"latch"})
    BY <1>3, <2>1 DEF Ordered
  <2>3. PICK k \in i + 1 .. Len(s) : s[k] = "latch"
    BY <2>2 DEF Then
  <2>4. k \in 1 .. Len(s)
    BY <1>2
  <2> QED
    BY <2>3, <2>4 DEF Left
<1>4. s[j] \in Careful(c)
  BY <1>1 DEF Careful
<1> QED
  BY <1>3, <1>4 DEF Guarded

\* Two scripts, one after the other.
Both(s, t) == s \o t

\* What is where in them.
LEMMA Joined ==
  ASSUME NEW s \in Seq(StepNames), NEW t \in Seq(StepNames)
  PROVE  /\ Both(s, t) \in Seq(StepNames) /\ Len(Both(s, t)) = Len(s) + Len(t)
         /\ \A i \in 1 .. Len(s) : Both(s, t)[i] = s[i]
         /\ \A i \in 1 .. Len(t) : Both(s, t)[Len(s) + i] = t[i]
BY DEF Both

\* Three scripts, one after the other.
Threefold(a, l, d) == Both(Both(a, l), d)

\* A launch between what leads to it and what follows it.
LEMMA Around ==
  ASSUME NEW a \in Seq(StepNames), NEW l \in Seq(StepNames), NEW d \in Seq(StepNames),
         Len(a) = 3, Len(l) = 5
  PROVE  /\ Threefold(a, l, d) \in Seq(StepNames) /\ Len(Threefold(a, l, d)) = 8 + Len(d)
         /\ \A i \in 1 .. 3 : Threefold(a, l, d)[i] = a[i]
         /\ \A i \in 1 .. 5 : Threefold(a, l, d)[3 + i] = l[i]
         /\ \A i \in 1 .. Len(d) : Threefold(a, l, d)[8 + i] = d[i]
<1>1. PICK b : b = Both(a, l)
  OBVIOUS
<1>2. /\ b \in Seq(StepNames) /\ Len(b) = Len(a) + Len(l)
      /\ \A i \in 1 .. Len(a) : b[i] = a[i]
      /\ \A i \in 1 .. Len(l) : b[Len(a) + i] = l[i]
  BY <1>1, Joined
<1>3. /\ Both(b, d) \in Seq(StepNames) /\ Len(Both(b, d)) = Len(b) + Len(d)
      /\ \A i \in 1 .. Len(b) : Both(b, d)[i] = b[i]
      /\ \A i \in 1 .. Len(d) : Both(b, d)[Len(b) + i] = d[i]
  BY <1>2, Joined
<1>4. Len(b) = 8 /\ Threefold(a, l, d) = Both(b, d)
  BY <1>1, <1>2 DEF Threefold
<1>5. \A i \in 1 .. 3 : Both(b, d)[i] = a[i]
  BY <1>2, <1>3, <1>4
<1>6. \A i \in 1 .. 5 : Both(b, d)[3 + i] = l[i]
  BY <1>2, <1>3, <1>4
<1> QED
  BY <1>3, <1>4, <1>5, <1>6

\* The first part of an upgrade.
Withdrawal == <<"claim", "qualify", "lock", "withdraw", "unlock", "drain">>

\* The launch, written out.
LEMMA LaunchIs ==
  /\ Launch \in Seq(StepNames) /\ Len(Launch) = 5 /\ Launch[1] = "arm" /\ Launch[2] = "activate"
  /\ Launch[3] = "recheck" /\ Launch[4] = "spawn" /\ Launch[5] = "record"
BY DEF Launch, StepNames

\* The scripts with a launch in them, written out.
LEMMA RunIs ==
  /\ Run \in Seq(StepNames) /\ Len(Run) = 9
  /\ Run[1] = "ready" /\ Run[2] = "lock" /\ Run[3] = "admit" /\ Run[4] = "arm" /\ Run[5] = "activate"
  /\ Run[6] = "recheck" /\ Run[7] = "spawn" /\ Run[8] = "record" /\ Run[9] = "finish"
<1>1. PICK a : a = <<"ready", "lock", "admit">>
  OBVIOUS
<1>1a. a \in Seq(StepNames) /\ Len(a) = 3 /\ a[1] = "ready" /\ a[2] = "lock" /\ a[3] = "admit"
  BY <1>1 DEF StepNames
<1>2. PICK d : d = <<"finish">>
  OBVIOUS
<1>2a. d \in Seq(StepNames) /\ Len(d) = 1 /\ d[1] = "finish"
  BY <1>2 DEF StepNames
<1>3. Run = Threefold(a, Launch, d)
  BY <1>1, <1>2 DEF Run, Threefold, Both
<1>4. 1 \in 1 .. Len(d) /\ 8 + 1 = 9
  BY <1>2a
<1>5. /\ Run \in Seq(StepNames) /\ Len(Run) = 8 + Len(d)
      /\ \A i \in 1 .. 3 : Run[i] = a[i]
      /\ \A i \in 1 .. 5 : Run[3 + i] = Launch[i]
      /\ \A i \in 1 .. Len(d) : Run[8 + i] = d[i]
  <2>1. a \in Seq(StepNames) /\ d \in Seq(StepNames) /\ Launch \in Seq(StepNames)
    BY <1>1a, <1>2a, LaunchIs
  <2>2. Len(a) = 3 /\ Len(Launch) = 5
    BY <1>1a, LaunchIs
  <2>3. /\ Threefold(a, Launch, d) \in Seq(StepNames) /\ Len(Threefold(a, Launch, d)) = 8 + Len(d)
        /\ \A i \in 1 .. 3 : Threefold(a, Launch, d)[i] = a[i]
        /\ \A i \in 1 .. 5 : Threefold(a, Launch, d)[3 + i] = Launch[i]
        /\ \A i \in 1 .. Len(d) : Threefold(a, Launch, d)[8 + i] = d[i]
    BY ONLY <2>1, <2>2, Around
  <2> QED
    BY <1>3, <2>3
<1>6. Run[1] = a[1] /\ Run[2] = a[2] /\ Run[3] = a[3]
  BY <1>5
<1>7. /\ Run[3 + 1] = Launch[1] /\ Run[3 + 2] = Launch[2] /\ Run[3 + 3] = Launch[3]
      /\ Run[3 + 4] = Launch[4] /\ Run[3 + 5] = Launch[5]
  BY <1>5
<1> QED
  BY <1>1a, <1>2a, <1>4, <1>5, <1>6, <1>7, LaunchIs

\* The same of an upgrade's admission.
LEMMA AdmissionIs ==
  /\ Admission \in Seq(StepNames) /\ Len(Admission) = 11
  /\ Admission[1] = "reload" /\ Admission[2] = "lock" /\ Admission[3] = "reserve" /\ Admission[4] = "arm"
  /\ Admission[5] = "activate" /\ Admission[6] = "recheck" /\ Admission[7] = "spawn"
  /\ Admission[8] = "record" /\ Admission[9] = "unlock" /\ Admission[10] = "watch"
  /\ Admission[11] = "finish"
<1>1. PICK a : a = <<"reload", "lock", "reserve">>
  OBVIOUS
<1>1a. a \in Seq(StepNames) /\ Len(a) = 3 /\ a[1] = "reload" /\ a[2] = "lock" /\ a[3] = "reserve"
  BY <1>1 DEF StepNames
<1>2. PICK d : d = <<"unlock", "watch", "finish">>
  OBVIOUS
<1>2a. d \in Seq(StepNames) /\ Len(d) = 3 /\ d[1] = "unlock" /\ d[2] = "watch" /\ d[3] = "finish"
  BY <1>2 DEF StepNames
<1>3. Admission = Threefold(a, Launch, d)
  BY <1>1, <1>2 DEF Admission, Threefold, Both
<1>4. 1 \in 1 .. Len(d) /\ 2 \in 1 .. Len(d) /\ 3 \in 1 .. Len(d) /\ 8 + 1 = 9 /\ 8 + 2 = 10 /\ 8 + 3 = 11
  BY <1>2a
<1>5. /\ Admission \in Seq(StepNames) /\ Len(Admission) = 8 + Len(d)
      /\ \A i \in 1 .. 3 : Admission[i] = a[i]
      /\ \A i \in 1 .. 5 : Admission[3 + i] = Launch[i]
      /\ \A i \in 1 .. Len(d) : Admission[8 + i] = d[i]
  <2>1. a \in Seq(StepNames) /\ d \in Seq(StepNames) /\ Launch \in Seq(StepNames)
    BY <1>1a, <1>2a, LaunchIs
  <2>2. Len(a) = 3 /\ Len(Launch) = 5
    BY <1>1a, LaunchIs
  <2>3. /\ Threefold(a, Launch, d) \in Seq(StepNames) /\ Len(Threefold(a, Launch, d)) = 8 + Len(d)
        /\ \A i \in 1 .. 3 : Threefold(a, Launch, d)[i] = a[i]
        /\ \A i \in 1 .. 5 : Threefold(a, Launch, d)[3 + i] = Launch[i]
        /\ \A i \in 1 .. Len(d) : Threefold(a, Launch, d)[8 + i] = d[i]
    BY ONLY <2>1, <2>2, Around
  <2> QED
    BY <1>3, <2>3
<1>6. Admission[1] = a[1] /\ Admission[2] = a[2] /\ Admission[3] = a[3]
  BY <1>5
<1>7. /\ Admission[3 + 1] = Launch[1] /\ Admission[3 + 2] = Launch[2] /\ Admission[3 + 3] = Launch[3]
      /\ Admission[3 + 4] = Launch[4] /\ Admission[3 + 5] = Launch[5]
  BY <1>5
<1> QED
  BY <1>1a, <1>2a, <1>4, <1>5, <1>6, <1>7, LaunchIs

\* Each of the scripts can be taken up, at any time.
LEMMA PauseIsFresh == Fresh(Pause, "pause")
<1>1. /\ Pause \in Seq(StepNames) /\ Len(Pause) = 5
      /\ Pause[1] = "lock" /\ Pause[2] = "latch" /\ Pause[3] = "revoke"
      /\ Pause[4] = "contain" /\ Pause[5] = "confirm"
  BY DEF Pause, StepNames
<1>2. Then(Pause, 1, {"latch"}) /\ Then(Pause, 2, {"revoke", "disarm"})
  BY <1>1 DEF Then
<1>3. Ordered(Pause, "pause")
  BY <1>1, <1>2 DEF Ordered, Raising, Durable
<1>4. \A j \in 1 + 1 .. 5 : 1 \in 1 .. j - 1 /\ \A i \in 1 .. j - 1 : Pause[i] # "unlock"
  BY <1>1
<1>5. \A i \in 1 .. 5 : Pause[i] \in Careful("pause") => i \in 1 + 1 .. 5
  BY <1>1 DEF Careful, Raising
<1>6. Guarded(Pause, FALSE, "pause")
  BY <1>1, <1>4, <1>5 DEF Guarded
<1>7. "latch" \in Left(Pause) /\ "warned" \notin Left(Pause)
  BY <1>1 DEF Left
<1> QED
  BY <1>1, <1>3, <1>6, <1>7 DEF Fresh, Later, Raising, Durable

\* What Stop says of the steps of its script.
LEMMA StopIsFresh == Fresh(Stop, "stop")
<1>1. /\ Stop \in Seq(StepNames) /\ Len(Stop) = 6
      /\ Stop[1] = "lock" /\ Stop[2] = "latch" /\ Stop[3] = "revoke" /\ Stop[4] = "contain"
      /\ Stop[5] = "retire" /\ Stop[6] = "confirm"
  BY DEF Stop, StepNames
<1>2. Then(Stop, 1, {"latch"}) /\ Then(Stop, 2, {"revoke", "disarm"})
  BY <1>1 DEF Then
<1>3. Ordered(Stop, "stop")
  BY <1>1, <1>2 DEF Ordered, Raising, Durable
<1>4. \A j \in 1 + 1 .. 6 : 1 \in 1 .. j - 1 /\ \A i \in 1 .. j - 1 : Stop[i] # "unlock"
  BY <1>1
<1>5. \A i \in 1 .. 6 : Stop[i] \in Careful("stop") => i \in 1 + 1 .. 6
  BY <1>1 DEF Careful, Raising
<1>6. Guarded(Stop, FALSE, "stop")
  BY <1>1, <1>4, <1>5 DEF Guarded
<1>7. "latch" \in Left(Stop) /\ "warned" \notin Left(Stop)
  BY <1>1 DEF Left
<1> QED
  BY <1>1, <1>3, <1>6, <1>7 DEF Fresh, Later, Raising, Durable

\* What Takeover says of the steps of its script.
LEMMA TakeoverIsFresh == Fresh(Takeover, "takeover")
<1>1. /\ Takeover \in Seq(StepNames) /\ Len(Takeover) = 5
      /\ Takeover[1] = "lock" /\ Takeover[2] = "latch" /\ Takeover[3] = "disarm"
      /\ Takeover[4] = "contain" /\ Takeover[5] = "confirm"
  BY DEF Takeover, StepNames
<1>2. Then(Takeover, 1, {"latch"}) /\ Then(Takeover, 2, {"revoke", "disarm"})
  BY <1>1 DEF Then
<1>3. Ordered(Takeover, "takeover")
  BY <1>1, <1>2 DEF Ordered, Raising, Durable
<1>4. \A j \in 1 + 1 .. 5 : 1 \in 1 .. j - 1 /\ \A i \in 1 .. j - 1 : Takeover[i] # "unlock"
  BY <1>1
<1>5. \A i \in 1 .. 5 : Takeover[i] \in Careful("takeover") => i \in 1 + 1 .. 5
  BY <1>1 DEF Careful, Raising
<1>6. Guarded(Takeover, FALSE, "takeover")
  BY <1>1, <1>4, <1>5 DEF Guarded
<1>7. "latch" \in Left(Takeover) /\ "warned" \notin Left(Takeover)
  BY <1>1 DEF Left
<1> QED
  BY <1>1, <1>3, <1>6, <1>7 DEF Fresh, Later, Raising, Durable

\* What BedStop says of the steps of its script.
LEMMA BedStopIsFresh == Fresh(BedStop, "bed-stop")
<1>1. /\ BedStop \in Seq(StepNames) /\ Len(BedStop) = 7
      /\ BedStop[1] = "lock" /\ BedStop[2] = "latch" /\ BedStop[3] = "disarm"
      /\ BedStop[4] = "contain" /\ BedStop[5] = "reap" /\ BedStop[6] = "close"
      /\ BedStop[7] = "confirm"
  BY DEF BedStop, StepNames
<1>2. Then(BedStop, 1, {"latch"}) /\ Then(BedStop, 2, {"revoke", "disarm"})
  BY <1>1 DEF Then
<1>3. Ordered(BedStop, "bed-stop")
  BY <1>1, <1>2 DEF Ordered, Raising, Durable
<1>4. \A j \in 1 + 1 .. 7 : 1 \in 1 .. j - 1 /\ \A i \in 1 .. j - 1 : BedStop[i] # "unlock"
  BY <1>1
<1>5. \A i \in 1 .. 7 : BedStop[i] \in Careful("bed-stop") => i \in 1 + 1 .. 7
  BY <1>1 DEF Careful, Raising
<1>6. Guarded(BedStop, FALSE, "bed-stop")
  BY <1>1, <1>4, <1>5 DEF Guarded
<1>7. "latch" \in Left(BedStop) /\ "warned" \notin Left(BedStop)
  BY <1>1 DEF Left
<1> QED
  BY <1>1, <1>3, <1>6, <1>7 DEF Fresh, Later, Raising, Durable

\* What BedStart says of the steps of its script.
LEMMA BedStartIsFresh == Fresh(BedStart, "bed")
<1>1. /\ BedStart \in Seq(StepNames) /\ Len(BedStart) = 6
      /\ BedStart[1] = "lock" /\ BedStart[2] = "permitted" /\ BedStart[3] = "claim"
      /\ BedStart[4] = "unlock" /\ BedStart[5] = "open" /\ BedStart[6] = "finish"
  BY DEF BedStart, StepNames
<1>2. Ordered(BedStart, "bed")
  BY <1>1 DEF Ordered, Raising, Durable
<1>3. \A j \in 1 + 1 .. 3 : 1 \in 1 .. j - 1 /\ \A i \in 1 .. j - 1 : BedStart[i] # "unlock"
  BY <1>1
<1>4. \A i \in 1 .. 6 : BedStart[i] \in Careful("bed") => i \in 1 + 1 .. 3
  BY <1>1 DEF Careful, Raising
<1>5. Guarded(BedStart, FALSE, "bed")
  BY <1>1, <1>3, <1>4 DEF Guarded
<1>6. "warned" \notin Left(BedStart)
  BY <1>1 DEF Left
<1> QED
  BY <1>1, <1>2, <1>5, <1>6 DEF Fresh, Later, Raising, Durable

\* What ResumeInside says of the steps of its script.
LEMMA ResumeInsideIsFresh == Fresh(ResumeInside, "resume")
<1>1. /\ ResumeInside \in Seq(StepNames) /\ Len(ResumeInside) = 3
      /\ ResumeInside[1] = "lock" /\ ResumeInside[2] = "reopen"
      /\ ResumeInside[3] = "finish"
  BY DEF ResumeInside, StepNames
<1>2. Ordered(ResumeInside, "resume")
  BY <1>1 DEF Ordered, Raising, Durable
<1>3. \A j \in 1 + 1 .. 2 : 1 \in 1 .. j - 1 /\ \A i \in 1 .. j - 1 : ResumeInside[i] # "unlock"
  BY <1>1
<1>4. \A i \in 1 .. 3 : ResumeInside[i] \in Careful("resume") => i \in 1 + 1 .. 2
  BY <1>1 DEF Careful, Raising
<1>5. Guarded(ResumeInside, FALSE, "resume")
  BY <1>1, <1>3, <1>4 DEF Guarded
<1>6. "warned" \notin Left(ResumeInside)
  BY <1>1 DEF Left
<1> QED
  BY <1>1, <1>2, <1>5, <1>6 DEF Fresh, Later, Raising, Durable

\* What ResumeLocal says of the steps of its script.
LEMMA ResumeLocalIsFresh == Fresh(ResumeLocal, "resume")
<1>1. /\ ResumeLocal \in Seq(StepNames) /\ Len(ResumeLocal) = 5
      /\ ResumeLocal[1] = "lock" /\ ResumeLocal[2] = "alone" /\ ResumeLocal[3] = "serve"
      /\ ResumeLocal[4] = "clear" /\ ResumeLocal[5] = "finish"
  BY DEF ResumeLocal, StepNames
<1>2. Ordered(ResumeLocal, "resume")
  BY <1>1 DEF Ordered, Raising, Durable
<1>3. \A j \in 1 + 1 .. 4 : 1 \in 1 .. j - 1 /\ \A i \in 1 .. j - 1 : ResumeLocal[i] # "unlock"
  BY <1>1
<1>4. \A i \in 1 .. 5 : ResumeLocal[i] \in Careful("resume") => i \in 1 + 1 .. 4
  BY <1>1 DEF Careful, Raising
<1>5. Guarded(ResumeLocal, FALSE, "resume")
  BY <1>1, <1>3, <1>4 DEF Guarded
<1>6. "warned" \notin Left(ResumeLocal)
  BY <1>1 DEF Left
<1> QED
  BY <1>1, <1>2, <1>5, <1>6 DEF Fresh, Later, Raising, Durable

\* What Emergency says of the steps of its script.
LEMMA EmergencyIsFresh == Fresh(Emergency, "emergency")
<1>1. /\ Emergency \in Seq(StepNames) /\ Len(Emergency) = 8
      /\ Emergency[1] = "latch" /\ Emergency[2] = "engage" /\ Emergency[3] = "terminate"
      /\ Emergency[4] = "contain" /\ Emergency[5] = "halt" /\ Emergency[6] = "terminate"
      /\ Emergency[7] = "contain" /\ Emergency[8] = "warned"
  BY DEF Emergency, StepNames
<1>2. Then(Emergency, 2, {"terminate"})
  BY <1>1 DEF Then
<1>3. Ordered(Emergency, "emergency")
  BY <1>1, <1>2 DEF Ordered, Raising, Durable
<1>4. Guarded(Emergency, FALSE, "emergency")
  BY <1>1 DEF Guarded, Careful, Raising
<1>5. "terminate" \in Left(Emergency)
  BY <1>1 DEF Left
<1> QED
  BY <1>1, <1>3, <1>4, <1>5 DEF Fresh, Later, Raising, Durable

\* What Reset says of the steps of its script.
LEMMA ResetIsFresh == Fresh(Reset, "reset")
<1>1. /\ Reset \in Seq(StepNames) /\ Len(Reset) = 4
      /\ Reset[1] = "inspect" /\ Reset[2] = "latch" /\ Reset[3] = "disengage"
      /\ Reset[4] = "finish"
  BY DEF Reset, StepNames
<1>2. Ordered(Reset, "reset")
  BY <1>1 DEF Ordered, Raising, Durable
<1>3. Guarded(Reset, FALSE, "reset")
  BY <1>1 DEF Guarded, Careful, Raising
<1>4. "warned" \notin Left(Reset)
  BY <1>1 DEF Left
<1> QED
  BY <1>1, <1>2, <1>3, <1>4 DEF Fresh, Later, Raising, Durable

\* What Tidy says of the steps of its script.
LEMMA TidyIsFresh == Fresh(Tidy, "tidy")
<1>1. /\ Tidy \in Seq(StepNames) /\ Len(Tidy) = 5
      /\ Tidy[1] = "lock" /\ Tidy[2] = "revoke" /\ Tidy[3] = "contain"
      /\ Tidy[4] = "retire" /\ Tidy[5] = "confirm"
  BY DEF Tidy, StepNames
<1>2. Ordered(Tidy, "tidy")
  BY <1>1 DEF Ordered, Raising, Durable
<1>3. \A j \in 1 + 1 .. 5 : 1 \in 1 .. j - 1 /\ \A i \in 1 .. j - 1 : Tidy[i] # "unlock"
  BY <1>1
<1>4. \A i \in 1 .. 5 : Tidy[i] \in Careful("tidy") => i \in 1 + 1 .. 5
  BY <1>1 DEF Careful, Raising
<1>5. Guarded(Tidy, FALSE, "tidy")
  BY <1>1, <1>3, <1>4 DEF Guarded
<1>6. "warned" \notin Left(Tidy)
  BY <1>1 DEF Left
<1> QED
  BY <1>1, <1>2, <1>5, <1>6 DEF Fresh, Later, Raising, Durable

\* What Replace says of the steps of its script.
LEMMA ReplaceIsFresh == Fresh(Replace, "replace")
<1>1. /\ Replace \in Seq(StepNames) /\ Len(Replace) = 5
      /\ Replace[1] = "disarm" /\ Replace[2] = "contain" /\ Replace[3] = "reap"
      /\ Replace[4] = "close" /\ Replace[5] = "finish"
  BY DEF Replace, StepNames
<1>2. Ordered(Replace, "replace")
  BY <1>1 DEF Ordered, Raising, Durable
<1>3. Guarded(Replace, FALSE, "replace")
  BY <1>1 DEF Guarded, Careful, Raising
<1>4. "warned" \notin Left(Replace)
  BY <1>1 DEF Left
<1> QED
  BY <1>1, <1>2, <1>3, <1>4 DEF Fresh, Later, Raising, Durable

\* What Leave says of the steps of its script.
LEMMA LeaveIsFresh == Fresh(Leave, "leave")
<1>1. /\ Leave \in Seq(StepNames) /\ Len(Leave) = 10
      /\ Leave[1] = "lock" /\ Leave[2] = "revoke" /\ Leave[3] = "contain"
      /\ Leave[4] = "retire" /\ Leave[5] = "unlock" /\ Leave[6] = "disarm"
      /\ Leave[7] = "contain" /\ Leave[8] = "reap" /\ Leave[9] = "close"
      /\ Leave[10] = "exit"
  BY DEF Leave, StepNames
<1>2. Ordered(Leave, "leave")
  BY <1>1 DEF Ordered, Raising, Durable
<1>3. Guarded(Leave, FALSE, "leave")
  BY <1>1 DEF Guarded, Careful, Raising
<1>4. "warned" \notin Left(Leave)
  BY <1>1 DEF Left
<1> QED
  BY <1>1, <1>2, <1>3, <1>4 DEF Fresh, Later, Raising, Durable

\* What Withdrawal says of the steps of its script.
LEMMA WithdrawalIsFresh == Fresh(Withdrawal, "upgrade")
<1>1. /\ Withdrawal \in Seq(StepNames) /\ Len(Withdrawal) = 6
      /\ Withdrawal[1] = "claim" /\ Withdrawal[2] = "qualify" /\ Withdrawal[3] = "lock"
      /\ Withdrawal[4] = "withdraw" /\ Withdrawal[5] = "unlock" /\ Withdrawal[6] = "drain"
  BY DEF Withdrawal, StepNames
<1>2. Ordered(Withdrawal, "upgrade")
  BY <1>1 DEF Ordered, Raising, Durable
<1>3. \A j \in 3 + 1 .. 4 : 3 \in 1 .. j - 1 /\ \A i \in 3 .. j - 1 : Withdrawal[i] # "unlock"
  BY <1>1
<1>4. \A i \in 1 .. 6 : Withdrawal[i] \in Careful("upgrade") => i \in 3 + 1 .. 4
  BY <1>1 DEF Careful, Raising
<1>5. Guarded(Withdrawal, FALSE, "upgrade")
  BY <1>1, <1>3, <1>4 DEF Guarded
<1>6. "warned" \notin Left(Withdrawal)
  BY <1>1 DEF Left
<1> QED
  BY <1>1, <1>2, <1>5, <1>6 DEF Fresh, Later, Raising, Durable

\* What Cleanup says of the steps of its script.
LEMMA CleanupIsFresh == Fresh(Cleanup, "upgrade")
<1>1. /\ Cleanup \in Seq(StepNames) /\ Len(Cleanup) = 5
      /\ Cleanup[1] = "examine" /\ Cleanup[2] = "lock" /\ Cleanup[3] = "disown"
      /\ Cleanup[4] = "unlock" /\ Cleanup[5] = "reclaim"
  BY DEF Cleanup, StepNames
<1>2. Ordered(Cleanup, "upgrade")
  BY <1>1 DEF Ordered, Raising, Durable
<1>3. Guarded(Cleanup, FALSE, "upgrade")
  BY <1>1 DEF Guarded, Careful, Raising
<1>4. "warned" \notin Left(Cleanup)
  BY <1>1 DEF Left
<1> QED
  BY <1>1, <1>2, <1>3, <1>4 DEF Fresh, Later, Raising, Durable

\* What Run says of the steps of its script.
LEMMA RunIsFresh == Fresh(Run, "run")
<1>1. /\ Run \in Seq(StepNames) /\ Len(Run) = 9
      /\ Run[1] = "ready" /\ Run[2] = "lock" /\ Run[3] = "admit" /\ Run[4] = "arm"
      /\ Run[5] = "activate" /\ Run[6] = "recheck" /\ Run[7] = "spawn" /\ Run[8] = "record"
      /\ Run[9] = "finish"
  BY RunIs
<1>2. Ordered(Run, "run")
  BY <1>1 DEF Ordered, Raising, Durable
<1>3. \A j \in 2 + 1 .. 8 : 2 \in 1 .. j - 1 /\ \A i \in 2 .. j - 1 : Run[i] # "unlock"
  BY <1>1
<1>4. \A i \in 1 .. 9 : Run[i] \in Careful("run") => i \in 2 + 1 .. 8
  BY <1>1 DEF Careful, Raising
<1>5. Guarded(Run, FALSE, "run")
  BY <1>1, <1>3, <1>4 DEF Guarded
<1>6. "warned" \notin Left(Run)
  BY <1>1 DEF Left
<1> QED
  BY <1>1, <1>2, <1>5, <1>6 DEF Fresh, Later, Raising, Durable

\* What Admission says of the steps of its script.
LEMMA AdmissionIsFresh == Fresh(Admission, "upgrade")
<1>1. /\ Admission \in Seq(StepNames) /\ Len(Admission) = 11
      /\ Admission[1] = "reload" /\ Admission[2] = "lock" /\ Admission[3] = "reserve"
      /\ Admission[4] = "arm" /\ Admission[5] = "activate" /\ Admission[6] = "recheck"
      /\ Admission[7] = "spawn" /\ Admission[8] = "record" /\ Admission[9] = "unlock"
      /\ Admission[10] = "watch" /\ Admission[11] = "finish"
  BY AdmissionIs
<1>2. Ordered(Admission, "upgrade")
  BY <1>1 DEF Ordered, Raising, Durable
<1>3. \A j \in 2 + 1 .. 8 : 2 \in 1 .. j - 1 /\ \A i \in 2 .. j - 1 : Admission[i] # "unlock"
  BY <1>1
<1>4. \A i \in 1 .. 11 : Admission[i] \in Careful("upgrade") => i \in 2 + 1 .. 8
  BY <1>1 DEF Careful, Raising
<1>5. Guarded(Admission, FALSE, "upgrade")
  BY <1>1, <1>3, <1>4 DEF Guarded
<1>6. "warned" \notin Left(Admission)
  BY <1>1 DEF Left
<1> QED
  BY <1>1, <1>2, <1>5, <1>6 DEF Fresh, Later, Raising, Durable

\* What an exception leaves to be done, and holds no order.
Plain == {"abort", "disarm", "drain", "reclaim", "roll-back", "exit"}

\* Such a script can be taken up by any command.
LEMMA PlainIsFresh ==
  ASSUME NEW s \in Seq(Plain), NEW c
  PROVE  Fresh(s, c) /\ "warned" \notin Left(s) /\ "confirm" \notin Left(s)
<1>1. Len(s) \in Nat /\ \A i \in 1 .. Len(s) : s[i] \in Plain
  OBVIOUS
<1>2. s \in Seq(StepNames)
  BY DEF Plain, StepNames
<1>3. Ordered(s, c)
  BY <1>1 DEF Ordered, Plain, Raising
<1>4. Guarded(s, FALSE, c)
  BY <1>1 DEF Guarded, Careful, Plain, Raising
<1>5. "warned" \notin Left(s) /\ "confirm" \notin Left(s)
  BY <1>1 DEF Left, Plain
<1>6. s # <<>> => s[1] \notin Later(c)
  BY <1>1 DEF Later, Plain, Raising
<1> QED
  BY <1>2, <1>3, <1>4, <1>5, <1>6 DEF Fresh

\* What a script that follows another one finds before it.
LEMMA JoinedIsFresh ==
  ASSUME NEW s, NEW t, NEW c, Fresh(s, c), Fresh(t, c),
         "warned" \notin Left(s), "confirm" \notin Left(s), s # <<>>, t # <<>>,
         "warned" \notin Left(t), c \notin Durable
  PROVE  Fresh(Both(s, t), c) /\ "warned" \notin Left(Both(s, t)) /\ Both(s, t) # <<>>
<1> PICK r : r = Both(s, t)
  OBVIOUS
<1>1. s \in Seq(StepNames) /\ t \in Seq(StepNames) /\ Len(s) \in Nat \ {0} /\ Len(t) \in Nat \ {0}
  BY DEF Fresh
<1>2. /\ r \in Seq(StepNames) /\ Len(r) = Len(s) + Len(t)
      /\ \A i \in 1 .. Len(s) : r[i] = s[i]
      /\ \A i \in 1 .. Len(t) : r[Len(s) + i] = t[i]
  BY <1>1, Joined
<1>3. \A i \in 1 .. Len(r) : i \in 1 .. Len(s) \/ \E j \in 1 .. Len(t) : i = Len(s) + j
  <2> SUFFICES ASSUME NEW i \in 1 .. Len(r), i \notin 1 .. Len(s)
               PROVE  \E j \in 1 .. Len(t) : i = Len(s) + j
    OBVIOUS
  <2>1. i - Len(s) \in 1 .. Len(t) /\ i = Len(s) + (i - Len(s))
    BY <1>1, <1>2
  <2> QED
    BY <2>1
<1>4. t[1] \notin Later(c) /\ s[1] \notin Later(c)
  BY <1>1 DEF Fresh
<1>5. ASSUME NEW i \in 1 .. Len(s), NEW B, Then(s, i, B) PROVE Then(r, i, B)
  <2>1. PICK j \in i + 1 .. Len(s) : s[j] \in B
    BY <1>5 DEF Then
  <2>2. j \in i + 1 .. Len(r) /\ r[j] = s[j]
    BY <1>1, <1>2
  <2> QED
    BY <2>1, <2>2 DEF Then
<1>6. ASSUME NEW i \in 1 .. Len(t), NEW B, Then(t, i, B) PROVE Then(r, Len(s) + i, B)
  <2>1. PICK j \in i + 1 .. Len(t) : t[j] \in B
    BY <1>6 DEF Then
  <2>2. Len(s) + j \in (Len(s) + i) + 1 .. Len(r) /\ r[Len(s) + j] = t[j]
    BY <1>1, <1>2
  <2> QED
    BY <2>1, <2>2 DEF Then
<1>7. ASSUME NEW i \in 2 .. Len(r)
      PROVE  /\ r[i] = "activate" => r[i - 1] = "arm"
             /\ r[i] = "recheck" => r[i - 1] = "activate"
             /\ r[i] = "spawn" => r[i - 1] = "recheck"
             /\ r[i] = "record" => r[i - 1] = "spawn"
             /\ r[i] = "close" => r[i - 1] = "reap"
             /\ r[i] = "open" => r[i - 1] = "unlock"
             /\ r[i] = "claim" /\ c = "bed" => r[i - 1] = "permitted"
             /\ r[i] = "unlock" /\ c = "bed" => r[i - 1] = "claim"
             /\ r[i] = "confirm" /\ c = "bed-stop" => r[i - 1] = "close"
  <2>1. CASE i \in 1 .. Len(s)
    <3>1. i \in 2 .. Len(s) /\ r[i] = s[i] /\ r[i - 1] = s[i - 1]
      BY <1>1, <1>2, <2>1
    <3> QED
      BY <3>1 DEF Fresh, Ordered
  <2>2. ASSUME NEW j \in 1 .. Len(t), i = Len(s) + j, j # 1
        PROVE  j \in 2 .. Len(t) /\ r[i] = t[j] /\ r[i - 1] = t[j - 1]
    <3>1. j \in 2 .. Len(t) /\ j - 1 \in 1 .. Len(t) /\ i - 1 = Len(s) + (j - 1)
      BY <1>1, <2>2
    <3> QED
      BY <1>2, <2>2, <3>1
  <2>3. CASE i = Len(s) + 1
    <3>1. r[i] = t[1]
      BY <1>1, <1>2, <2>3
    <3> QED
      BY <1>4, <3>1 DEF Later, Raising
  <2>4. i \in 1 .. Len(r)
    OBVIOUS
  <2>5. i \in 1 .. Len(s) \/ \E j \in 1 .. Len(t) : i = Len(s) + j
    BY <1>3, <2>4
  <2>6. ASSUME NEW j \in 1 .. Len(t), i = Len(s) + j, j # 1
        PROVE  /\ r[i] = "activate" => r[i - 1] = "arm"
               /\ r[i] = "recheck" => r[i - 1] = "activate"
               /\ r[i] = "spawn" => r[i - 1] = "recheck"
               /\ r[i] = "record" => r[i - 1] = "spawn"
               /\ r[i] = "close" => r[i - 1] = "reap"
               /\ r[i] = "open" => r[i - 1] = "unlock"
               /\ r[i] = "claim" /\ c = "bed" => r[i - 1] = "permitted"
               /\ r[i] = "unlock" /\ c = "bed" => r[i - 1] = "claim"
               /\ r[i] = "confirm" /\ c = "bed-stop" => r[i - 1] = "close"
    <3>1. j \in 2 .. Len(t) /\ r[i] = t[j] /\ r[i - 1] = t[j - 1]
      BY <2>2, <2>6
    <3> QED
      BY <3>1 DEF Fresh, Ordered
  <2> QED
    BY <2>1, <2>3, <2>5, <2>6
<1>8. ASSUME NEW i \in 1 .. Len(r)
      PROVE  /\ r[i] = "spawn" => i < Len(r) /\ r[i + 1] = "record"
             /\ r[i] \in {"warned", "confirm"} => i = Len(r)
             /\ r[i] = "engage" => Then(r, i, {"terminate"})
             /\ r[i] \in {"arm"} \cup Raising => c \in {"run", "upgrade"}
             /\ r[i] = "open" => c = "bed"
             /\ r[i] \in {"alone", "reopen", "clear"} => c = "resume"
  <2>1. CASE i \in 1 .. Len(s)
    <3>1. r[i] = s[i] /\ s[i] \in Left(s)
      BY <1>2, <2>1 DEF Left
    <3>2. /\ s[i] = "spawn" => i < Len(s) /\ s[i + 1] = "record"
          /\ s[i] = "engage" => Then(s, i, {"terminate"})
          /\ s[i] \in {"arm"} \cup Raising => c \in {"run", "upgrade"}
          /\ s[i] = "open" => c = "bed"
          /\ s[i] \in {"alone", "reopen", "clear"} => c = "resume"
      BY <2>1 DEF Fresh, Ordered
    <3>3. i < Len(s) => i < Len(r) /\ r[i + 1] = s[i + 1]
      BY <1>1, <1>2, <2>1
    <3> QED
      BY <1>5, <2>1, <3>1, <3>2, <3>3
  <2>2. ASSUME NEW j \in 1 .. Len(t), i = Len(s) + j
        PROVE  /\ r[i] = "spawn" => i < Len(r) /\ r[i + 1] = "record"
               /\ r[i] \in {"warned", "confirm"} => i = Len(r)
               /\ r[i] = "engage" => Then(r, i, {"terminate"})
               /\ r[i] \in {"arm"} \cup Raising => c \in {"run", "upgrade"}
               /\ r[i] = "open" => c = "bed"
               /\ r[i] \in {"alone", "reopen", "clear"} => c = "resume"
    <3>1. r[i] = t[j]
      BY <1>2, <2>2
    <3>2. /\ t[j] = "spawn" => j < Len(t) /\ t[j + 1] = "record"
          /\ t[j] \in {"warned", "confirm"} => j = Len(t)
          /\ t[j] = "engage" => Then(t, j, {"terminate"})
          /\ t[j] \in {"arm"} \cup Raising => c \in {"run", "upgrade"}
          /\ t[j] = "open" => c = "bed"
          /\ t[j] \in {"alone", "reopen", "clear"} => c = "resume"
      BY DEF Fresh, Ordered
    <3>3. j < Len(t) => i < Len(r) /\ j + 1 \in 1 .. Len(t) /\ i + 1 = Len(s) + (j + 1)
      BY <1>1, <1>2, <2>2
    <3>4. j < Len(t) => r[i + 1] = t[j + 1]
      BY <1>2, <3>3
    <3>5. j = Len(t) => i = Len(r)
      BY <1>1, <1>2, <2>2
    <3> QED
      BY <1>6, <2>2, <3>1, <3>2, <3>3, <3>4, <3>5
  <2> QED
    BY <1>3, <2>1, <2>2
<1>9. Ordered(r, c)
  BY <1>7, <1>8 DEF Ordered
<1>10. Guarded(r, FALSE, c)
  <2> SUFFICES ASSUME NEW j \in 1 .. Len(r), r[j] \in Careful(c)
               PROVE  \E i \in 1 .. j - 1 : r[i] = "lock" /\ \A k \in i .. j - 1 : r[k] # "unlock"
    BY DEF Guarded
  <2>1. CASE j \in 1 .. Len(s)
    <3>1. s[j] \in Careful(c)
      BY <1>2, <2>1
    <3>2. PICK i \in 1 .. j - 1 : s[i] = "lock" /\ \A k \in i .. j - 1 : s[k] # "unlock"
      BY <2>1, <3>1 DEF Fresh, Guarded
    <3>3. \A k \in 1 .. Len(s) : r[k] = s[k]
      BY <1>2
    <3>4. i \in 1 .. Len(s) /\ \A k \in i .. j - 1 : k \in 1 .. Len(s)
      BY <1>1, <2>1
    <3> QED
      BY <3>2, <3>3, <3>4
  <2>2. ASSUME NEW h \in 1 .. Len(t), j = Len(s) + h
        PROVE  \E i \in 1 .. j - 1 : r[i] = "lock" /\ \A k \in i .. j - 1 : r[k] # "unlock"
    <3>1. t[h] \in Careful(c)
      BY <1>2, <2>2
    <3>2. PICK i \in 1 .. h - 1 : t[i] = "lock" /\ \A k \in i .. h - 1 : t[k] # "unlock"
      BY <3>1 DEF Fresh, Guarded
    <3>3. i \in 1 .. Len(t) /\ Len(s) + i \in 1 .. j - 1
      BY <1>1, <2>2
    <3>4. r[Len(s) + i] = "lock"
      BY <1>2, <3>2, <3>3
    <3>5. ASSUME NEW k \in Len(s) + i .. j - 1 PROVE r[k] # "unlock"
      <4>1. k - Len(s) \in i .. h - 1 /\ k - Len(s) \in 1 .. Len(t) /\ k = Len(s) + (k - Len(s))
        BY <1>1, <2>2, <3>3
      <4> QED
        BY <1>2, <3>2, <4>1
    <3> QED
      BY <3>3, <3>4, <3>5
  <2> QED
    BY <1>3, <2>1, <2>2
<1>11. "warned" \notin Left(r)
  <2> SUFFICES ASSUME NEW i \in 1 .. Len(r), r[i] = "warned" PROVE FALSE
    BY DEF Left
  <2>1. CASE i \in 1 .. Len(s)
    BY <1>2, <2>1 DEF Left
  <2>2. ASSUME NEW j \in 1 .. Len(t), i = Len(s) + j PROVE FALSE
    BY <1>2, <2>2 DEF Left
  <2> QED
    BY <1>3, <2>1, <2>2
<1>12. r[1] \notin Later(c)
  BY <1>1, <1>2, <1>4
<1>13. Len(<<>>) = 0 /\ Len(r) > 0
  BY <1>1, <1>2
<1>14. r # <<>>
  BY <1>13
<1> QED
  BY <1>2, <1>9, <1>10, <1>11, <1>12, <1>14 DEF Fresh

\* The rest of the unit's stop, and an upgrade as a whole.
LEMMA LeaveRest == SubSeq(Leave, 5, 10) \in Seq(StepNames) /\ Fresh(SubSeq(Leave, 5, 10), "leave")
<1>1. PICK s : s = SubSeq(Leave, 5, 10)
  OBVIOUS
<1>2. /\ Leave \in Seq(StepNames) /\ Len(Leave) = 10
      /\ Leave[5] = "unlock" /\ Leave[6] = "disarm" /\ Leave[7] = "contain" /\ Leave[8] = "reap"
      /\ Leave[9] = "close" /\ Leave[10] = "exit"
  BY DEF Leave, StepNames
<1>3. s \in Seq(StepNames) /\ Len(s) = 6 /\ \A i \in 1 .. 6 : s[i] = Leave[4 + i]
  <2>1. Leave \in Seq(StepNames) /\ Len(Leave) = 10
    BY <1>2
  <2>2. Len(SubSeq(Leave, 5, 10)) = 6 /\ \A i \in 1 .. 6 : SubSeq(Leave, 5, 10)[i] = Leave[4 + i]
    BY ONLY <2>1
  <2>3. SubSeq(Leave, 5, 10) \in Seq(StepNames)
    BY DEF Leave, StepNames
  <2> QED
    BY <1>1, <2>2, <2>3
<1>4. /\ s[1] = "unlock" /\ s[2] = "disarm" /\ s[3] = "contain" /\ s[4] = "reap" /\ s[5] = "close"
      /\ s[6] = "exit"
  BY <1>2, <1>3
<1>5. Ordered(s, "leave")
  BY <1>3, <1>4 DEF Ordered, Raising, Durable
<1>6. Guarded(s, FALSE, "leave")
  BY <1>3, <1>4 DEF Guarded, Careful, Raising
<1>7. "warned" \notin Left(s) /\ "confirm" \notin Left(s)
  BY <1>3, <1>4 DEF Left
<1>8. Fresh(s, "leave")
  BY <1>3, <1>4, <1>5, <1>6, <1>7 DEF Fresh, Later, Raising
<1> QED
  BY <1>1, <1>3, <1>8

\* A cleanup in front of what follows it, or not.
LEMMA CleanupFirst ==
  ASSUME NEW o \in Operations, NEW t, Fresh(t, "upgrade"), "warned" \notin Left(t), t # <<>>
  PROVE  /\ Fresh(Both(CleanupOf(o), t), "upgrade")
         /\ "warned" \notin Left(Both(CleanupOf(o), t)) /\ Both(CleanupOf(o), t) # <<>>
<1>1. CASE o.admitted
  <2>1. Cleanup # <<>> /\ "warned" \notin Left(Cleanup) /\ "confirm" \notin Left(Cleanup)
    <3>1. /\ Cleanup \in Seq(StepNames) /\ Len(Cleanup) = 5
          /\ Cleanup[1] = "examine" /\ Cleanup[2] = "lock" /\ Cleanup[3] = "disown"
          /\ Cleanup[4] = "unlock" /\ Cleanup[5] = "reclaim"
      BY DEF Cleanup, StepNames
    <3>2. Len(<<>>) = 0
      OBVIOUS
    <3> QED
      BY <3>1, <3>2 DEF Left
  <2>2. "upgrade" \notin Durable
    BY DEF Durable
  <2>3. CleanupOf(o) = Cleanup
    BY <1>1 DEF CleanupOf
  <2> QED
    BY <2>1, <2>2, <2>3, CleanupIsFresh, JoinedIsFresh
<1>2. CASE ~o.admitted
  <2>1. t \in Seq(StepNames)
    BY DEF Fresh
  <2>2. Both(CleanupOf(o), t) = t
    BY <1>2, <2>1 DEF CleanupOf, Both
  <2> QED
    BY <2>2
<1> QED
  BY <1>1, <1>2

\* What is left of an upgrade after an error.
LEMMA UpgradeErrorIsFresh ==
  ASSUME NEW o \in Operations PROVE Fresh(AfterUpgradeError(o), "upgrade")
<1>1. /\ <<"abort">> \in Seq(Plain) /\ <<"drain">> \o <<"abort">> \in Seq(Plain)
      /\ <<"reclaim">> \in Seq(Plain) /\ <<"roll-back">> \in Seq(Plain)
      /\ <<"reclaim">> \o <<"abort">> \in Seq(Plain) /\ <<>> \o <<"abort">> \in Seq(Plain)
  BY DEF Plain
<1>2. o.part \in 0 .. 4
  BY DEF Operations
<1>3. CASE o.part = 0
  <2>1. AfterUpgradeError(o) = <<"abort">>
    BY <1>3 DEF AfterUpgradeError
  <2> QED
    BY <1>1, <2>1, PlainIsFresh
<1>4. CASE o.part = 1
  <2>1. PICK w : w = IF Head(o.todo) = "drain" THEN <<>> ELSE <<"drain">>
    OBVIOUS
  <2>2. AfterUpgradeError(o) = w \o <<"abort">>
    BY <1>4, <2>1 DEF AfterUpgradeError
  <2>3. CASE Head(o.todo) = "drain"
    <3>1. w = <<>>
      BY <2>1, <2>3
    <3> QED
      BY <1>1, <2>2, <3>1, PlainIsFresh
  <2>4. CASE Head(o.todo) # "drain"
    <3>1. w = <<"drain">>
      BY <2>1, <2>4
    <3> QED
      BY <1>1, <2>2, <3>1, PlainIsFresh
  <2> QED
    BY <2>3, <2>4
<1>5. CASE o.part = 2
  <2>1. AfterUpgradeError(o) = Both(Both(CleanupOf(o), <<"roll-back">>), Admission)
    BY <1>5 DEF AfterUpgradeError, Both
  <2>2. <<"roll-back">> # <<>> /\ Fresh(<<"roll-back">>, "upgrade") /\ "warned" \notin Left(<<"roll-back">>)
    BY <1>1, PlainIsFresh
  <2>3. PICK r : r = <<"roll-back">>
    OBVIOUS
  <2>4. PICK s : s = Both(CleanupOf(o), r)
    OBVIOUS
  <2>5. Fresh(s, "upgrade") /\ "warned" \notin Left(s) /\ s # <<>>
    BY <2>2, <2>3, <2>4, CleanupFirst
  <2>6. "warned" \notin Left(Admission) /\ Admission # <<>>
    <3>1. Len(<<>>) = 0
      OBVIOUS
    <3>2. \A i \in 1 .. 11 : Admission[i] # "warned"
      BY AdmissionIs
    <3>3. Len(Admission) = 11
      BY AdmissionIs
    <3> QED
      BY <3>1, <3>2, <3>3 DEF Left
  <2>7. "confirm" \notin Left(s)
    <3>1. CASE o.admitted
      <4>1. /\ Cleanup \in Seq(StepNames) /\ Len(Cleanup) = 5
            /\ Cleanup[1] = "examine" /\ Cleanup[2] = "lock" /\ Cleanup[3] = "disown"
            /\ Cleanup[4] = "unlock" /\ Cleanup[5] = "reclaim"
        BY DEF Cleanup, StepNames
      <4>2. r \in Seq(StepNames) /\ Len(r) = 1 /\ r[1] = "roll-back"
        BY <2>3 DEF StepNames
      <4>3. s = Both(Cleanup, r)
        BY <2>4, <3>1 DEF CleanupOf
      <4>4. /\ Len(Both(Cleanup, r)) = 6
            /\ \A i \in 1 .. 5 : Both(Cleanup, r)[i] = Cleanup[i]
            /\ \A i \in 1 .. 1 : Both(Cleanup, r)[5 + i] = r[i]
        <5>1. Cleanup \in Seq(StepNames) /\ r \in Seq(StepNames) /\ Len(Cleanup) = 5 /\ Len(r) = 1
          BY <4>1, <4>2
        <5>2. /\ Len(Both(Cleanup, r)) = Len(Cleanup) + Len(r)
              /\ \A i \in 1 .. Len(Cleanup) : Both(Cleanup, r)[i] = Cleanup[i]
              /\ \A i \in 1 .. Len(r) : Both(Cleanup, r)[Len(Cleanup) + i] = r[i]
          BY ONLY <5>1, Joined
        <5> QED
          BY <5>1, <5>2
      <4>5. Both(Cleanup, r)[5 + 1] = r[1]
        BY <4>4
      <4>6. \A i \in 1 .. 6 : Both(Cleanup, r)[i] # "confirm"
        BY <4>1, <4>2, <4>4, <4>5
      <4> QED
        BY <4>3, <4>4, <4>6 DEF Left
    <3>2. CASE ~o.admitted
      <4>1. r \in Seq(Plain)
        BY <1>1, <2>3
      <4>2. Both(CleanupOf(o), r) = r
        BY <3>2, <4>1 DEF CleanupOf, Both
      <4> QED
        BY <2>4, <4>1, <4>2, PlainIsFresh
    <3> QED
      BY <3>1, <3>2
  <2>8. Fresh(Both(s, Admission), "upgrade")
    BY <2>5, <2>6, <2>7, AdmissionIsFresh, JoinedIsFresh DEF Durable
  <2> QED
    BY <2>1, <2>3, <2>4, <2>8
<1>6. CASE o.part = 3
  <2>1. AfterUpgradeError(o) = Both(CleanupOf(o), <<"abort">>)
    BY <1>6 DEF AfterUpgradeError, Both
  <2>2. <<"abort">> # <<>> /\ Fresh(<<"abort">>, "upgrade") /\ "warned" \notin Left(<<"abort">>)
    BY <1>1, PlainIsFresh
  <2>3. PICK r : r = <<"abort">>
    OBVIOUS
  <2>4. Fresh(Both(CleanupOf(o), r), "upgrade")
    BY <2>2, <2>3, CleanupFirst
  <2> QED
    BY <2>1, <2>3, <2>4
<1>7. CASE o.part = 4
  <2>1. CASE o.child /\ Head(o.todo) \in {"lock", "disown"}
    <3>1. AfterUpgradeError(o) = <<"reclaim">> \o <<"abort">>
      BY <1>7, <2>1 DEF AfterUpgradeError
    <3> QED
      BY <1>1, <3>1, PlainIsFresh
  <2>2. CASE ~(o.child /\ Head(o.todo) \in {"lock", "disown"})
    <3>1. PICK w : w = IF o.child /\ Head(o.todo) \in {"lock", "disown"} THEN <<"reclaim">> ELSE <<>>
      OBVIOUS
    <3>2. AfterUpgradeError(o) = w \o <<"abort">>
      BY <1>7, <3>1 DEF AfterUpgradeError
    <3>3. w = <<>>
      BY <2>2, <3>1
    <3> QED
      BY <1>1, <3>2, <3>3, PlainIsFresh
  <2> QED
    BY <2>1, <2>2
<1> QED
  BY <1>2, <1>3, <1>4, <1>5, <1>6, <1>7

\* What an exception leaves can be taken up, by the same command.
LEMMA RecoveredIsFresh ==
  ASSUME NEW o \in Operations, o.lease # NoLease => o.cmd \in {"run", "upgrade"}
  PROVE  /\ Fresh(Recovered(o).todo, o.cmd) /\ Recovered(o) \in Operations
         /\ Recovered(o).cmd = o.cmd /\ Recovered(o).inside = o.inside
         /\ Recovered(o).lease = o.lease
<1>1. /\ <<"abort">> \in Seq(Plain) /\ <<"disarm", "abort">> \in Seq(Plain) /\ <<"exit">> \in Seq(Plain)
  BY DEF Plain
<1>2. \A s \in Seq(Plain) : Fresh(s, o.cmd)
  BY PlainIsFresh
<1>3. \A s, c : Fresh(s, c) => s \in Seq(StepNames)
  BY DEF Fresh
<1>4. CASE o.cmd = "upgrade"
  <2>1. PICK part \in 0 .. 4 : part = IF o.part = 0 THEN 0 ELSE 4
    OBVIOUS
  <2>2. Recovered(o) = [o EXCEPT !.todo = AfterUpgradeError(o), !.part = part]
    BY <1>4, <2>1 DEF Recovered
  <2>3. Fresh(AfterUpgradeError(o), "upgrade") /\ AfterUpgradeError(o) \in Seq(StepNames)
    BY <1>3, UpgradeErrorIsFresh
  <2>4. /\ Recovered(o).todo = AfterUpgradeError(o) /\ Recovered(o).cmd = o.cmd
        /\ Recovered(o).inside = o.inside /\ Recovered(o).lease = o.lease
    BY <2>2 DEF Operations
  <2>5. Recovered(o) \in Operations
    BY <2>1, <2>2, <2>3 DEF Operations
  <2> QED
    BY <1>4, <2>3, <2>4, <2>5
<1>5. CASE o.cmd # "upgrade"
  <2>1. PICK s : /\ Recovered(o) = [o EXCEPT !.todo = s]
                 /\ \/ s \in Seq(Plain)
                    \/ o.cmd = "leave" /\ s = SubSeq(Leave, 5, 10)
    <3>1. CASE o.lease # NoLease /\ o.cmd # "leave"
      BY <1>1, <1>5, <3>1 DEF Recovered
    <3>2. CASE o.lease = NoLease /\ o.cmd = "leave"
      BY <1>1, <1>5, <3>2 DEF Recovered
    <3>3. CASE o.lease = NoLease /\ o.cmd # "leave"
      BY <1>1, <1>5, <3>3 DEF Recovered
    <3> QED
      BY <3>1, <3>2, <3>3
  <2>2. Fresh(s, o.cmd) /\ s \in Seq(StepNames)
    BY <1>2, <1>3, <2>1, LeaveRest
  <2> QED
    BY <2>1, <2>2 DEF Operations
<1> QED
  BY <1>4, <1>5

\* Every command's script can be taken up, with the supervisor there or not.
LEMMA ScriptIsFresh ==
  ASSUME NEW c \in CommandNames PROVE Fresh(Script(c), c) /\ Script(c) \in Seq(StepNames)
<1>1. \A s, d : Fresh(s, d) => s \in Seq(StepNames)
  BY DEF Fresh
<1>2. Fresh(Upgrade, "upgrade")
  <2>1. Upgrade = Both(Withdrawal, Admission)
    BY DEF Upgrade, Withdrawal, Both
  <2>2. "warned" \notin Left(Withdrawal) /\ "confirm" \notin Left(Withdrawal) /\ Withdrawal # <<>>
    <3>1. /\ Len(Withdrawal) = 6
          /\ Withdrawal[1] = "claim" /\ Withdrawal[2] = "qualify" /\ Withdrawal[3] = "lock"
          /\ Withdrawal[4] = "withdraw" /\ Withdrawal[5] = "unlock" /\ Withdrawal[6] = "drain"
      BY DEF Withdrawal
    <3>2. \A i \in 1 .. 6 : Withdrawal[i] \notin {"warned", "confirm"}
      BY <3>1
    <3>3. Len(<<>>) = 0
      OBVIOUS
    <3> QED
      BY <3>1, <3>2, <3>3 DEF Left
  <2>3. "warned" \notin Left(Admission) /\ Admission # <<>>
    <3>1. Len(<<>>) = 0
      OBVIOUS
    <3>2. \A i \in 1 .. 11 : Admission[i] # "warned"
      BY AdmissionIs
    <3>3. Len(Admission) = 11
      BY AdmissionIs
    <3> QED
      BY <3>1, <3>2, <3>3 DEF Left
  <2> QED
    BY <2>1, <2>2, <2>3, WithdrawalIsFresh, AdmissionIsFresh, JoinedIsFresh DEF Durable
<1>3. CASE c \in {"pause", "stop", "takeover", "bed-stop", "bed"}
  <2>1. Fresh(Script(c), c)
    BY <1>3, PauseIsFresh, StopIsFresh, TakeoverIsFresh, BedStopIsFresh, BedStartIsFresh DEF Script
  <2> QED
    BY <1>1, <2>1
<1>4. CASE c = "resume"
  <2>1. Script(c) = IF Alive THEN ResumeInside ELSE ResumeLocal
    BY <1>4 DEF Script
  <2>2. Fresh(Script(c), c)
    BY <1>4, <2>1, ResumeInsideIsFresh, ResumeLocalIsFresh
  <2> QED
    BY <1>1, <2>2
<1>5. CASE c \in {"emergency", "reset", "run", "upgrade"}
  <2>1. Fresh(Script(c), c)
    BY <1>2, <1>5, EmergencyIsFresh, ResetIsFresh, RunIsFresh DEF Script
  <2> QED
    BY <1>1, <2>1
<1>6. CASE c \in {"tidy", "replace", "leave"}
  <2>1. Fresh(Script(c), c)
    BY <1>6, TidyIsFresh, ReplaceIsFresh, LeaveIsFresh DEF Script
  <2> QED
    BY <1>1, <2>1
<1> QED
  BY <1>3, <1>4, <1>5, <1>6 DEF CommandNames

\* A command whose supervisor has gone starts over, outside.
LEMMA FallBackIsFresh ==
  ASSUME NEW o \in Operations, o.cmd \in TwoForms
  PROVE  /\ Fresh(FallBack(o).todo, o.cmd) /\ FallBack(o) \in Operations
         /\ FallBack(o).cmd = o.cmd /\ ~FallBack(o).inside /\ FallBack(o).lease = o.lease
<1>1. CASE o.cmd = "resume"
  <2>1. <<"abort">> \in Seq(Plain)
    BY DEF Plain
  <2>2. Fresh(<<"abort">>, o.cmd)
    BY ONLY <2>1, PlainIsFresh
  <2>3. <<"abort">> \in Seq(StepNames)
    BY DEF StepNames
  <2>4. FallBack(o) = [o EXCEPT !.todo = <<"abort">>, !.inside = FALSE]
    BY <1>1 DEF FallBack
  <2> QED
    BY <2>2, <2>3, <2>4 DEF Operations
<1>2. CASE o.cmd # "resume"
  <2>1. o.cmd \in CommandNames
    BY DEF TwoForms, CommandNames
  <2>2. PICK s \in Seq(StepNames) : s = Script(o.cmd) /\ Fresh(s, o.cmd)
    BY <2>1, ScriptIsFresh
  <2>3. FallBack(o) = [o EXCEPT !.todo = s, !.inside = FALSE, !.torn = FALSE]
    BY <1>2, <2>2 DEF FallBack
  <2> QED
    BY <2>2, <2>3 DEF Operations
<1> QED
  BY <1>1, <1>2

(***************************************************************************)
(* What a step does to the processes.  One of them goes on in its script   *)
(* or takes up another one; the others are left alone, or start over when  *)
(* the supervisor they run in has gone.                                    *)
(***************************************************************************)
Same(q) == op'[q] = op[q] /\ (intent' = q <=> intent = q) /\ (lifecycle' = q <=> lifecycle = q)

Onward(q) ==
  /\ op[q].todo # <<>> /\ op'[q].todo = Tail(op[q].todo) /\ op'[q].cmd = op[q].cmd
  /\ op'[q].inside => op[q].inside
  /\ (intent = q /\ ~At(q, "unlock")) \/ At(q, "lock") => intent' = q
  /\ (lifecycle = q /\ ~At(q, "close")) \/ At(q, "reap") \/ At(q, "claim") => lifecycle' = q
  /\ op[q].torn => op'[q].torn
  /\ ~At(q, "arm") => op'[q].lease = op[q].lease
  /\ op'[q].lease <= issued'

Anew(q) ==
  /\ Fresh(op'[q].todo, op'[q].cmd)
  /\ op'[q].cmd = "none" => op'[q] = Idle /\ intent' # q /\ lifecycle' # q
  /\ op'[q].inside => op'[q].cmd \in TwoForms
  /\ op'[q].lease # NoLease => op'[q].lease = op[q].lease /\ op'[q].cmd = op[q].cmd

\* What is at the head of a script after a step.
LEMMA HeadsAfter ==
  ASSUME ControlTyped, ControlTyped', NEW q \in Procs, ScriptOf(q), Onward(q)
  PROVE  /\ At(q, "activate")' => At(q, "arm")
         /\ At(q, "recheck")' => At(q, "activate")
         /\ At(q, "spawn")' => At(q, "recheck")
         /\ At(q, "record")' <=> At(q, "spawn")
         /\ At(q, "close")' => At(q, "reap")
         /\ At(q, "open")' => At(q, "unlock") /\ op[q].cmd = "bed"
         /\ At(q, "claim")' /\ op[q].cmd = "bed" => At(q, "permitted")
         /\ At(q, "unlock")' /\ op[q].cmd = "bed" => At(q, "claim") /\ intent = q
         /\ At(q, "confirm")' /\ op[q].cmd = "bed-stop" => At(q, "close")
         /\ \A x \in Left(op[q].todo) : x \in Left(op[q].todo)' \/ At(q, x)
         /\ Left(op[q].todo)' \subseteq Left(op[q].todo)
         /\ At(q, "engage") => "terminate" \in Left(op[q].todo)'
         /\ At(q, "latch") /\ op[q].cmd \in Durable =>
              Left(op[q].todo)' \cap {"revoke", "disarm"} # {}
<1> DEFINE s == op[q].todo
           c == op[q].cmd
<1>1. s \in Seq(StepNames) /\ s # <<>> /\ Ordered(s, c) /\ Guarded(s, intent = q, c)
  BY DEF ControlTyped, Operations, ScriptOf, Onward
<1>2. op'[q].todo = Tail(s)
  BY DEF Onward
<1>3. \A x : At(q, x)' <=> Tail(s) # <<>> /\ Head(Tail(s)) = x
  BY <1>2 DEF At
<1>4. \A x : At(q, x) <=> Head(s) = x
  BY <1>1 DEF At
<1>5. Left(op[q].todo)' = Left(Tail(s))
  BY <1>2 DEF Left
<1>6. PICK held \in BOOLEAN : held <=> intent = q
  <2>1. intent = q \/ intent # q
    OBVIOUS
  <2> QED
    BY <2>1
<1>7. Head(s) = "claim" /\ c = "bed" => intent = q
  <2>1. Head(s) = "claim" /\ c = "bed" => Head(s) \in Careful(c)
    BY DEF Careful
  <2> QED
    BY <1>1, <2>1, HeadIsHeld
<1> HIDE DEF s, c
<1>8. Left(Tail(s)) \subseteq Left(s) /\ Left(s) \subseteq {Head(s)} \cup Left(Tail(s))
  BY <1>1, TailFacts
<1>9. /\ Tail(s) # <<>> =>
           /\ Head(Tail(s)) = "activate" => Head(s) = "arm"
           /\ Head(Tail(s)) = "recheck" => Head(s) = "activate"
           /\ Head(Tail(s)) = "spawn" => Head(s) = "recheck"
           /\ Head(Tail(s)) = "record" => Head(s) = "spawn"
           /\ Head(Tail(s)) = "close" => Head(s) = "reap"
           /\ Head(Tail(s)) = "open" => Head(s) = "unlock"
           /\ Head(Tail(s)) = "claim" /\ c = "bed" => Head(s) = "permitted"
           /\ Head(Tail(s)) = "unlock" /\ c = "bed" => Head(s) = "claim"
           /\ Head(Tail(s)) = "confirm" /\ c = "bed-stop" => Head(s) = "close"
      /\ Head(s) = "spawn" => Tail(s) # <<>> /\ Head(Tail(s)) = "record"
      /\ Head(s) = "engage" => "terminate" \in Left(Tail(s))
      /\ c \in Durable /\ Head(s) = "latch" => Left(Tail(s)) \cap {"revoke", "disarm"} # {}
  BY <1>1, NextStep
<1>10. Ordered(Tail(s), c) /\ Tail(s) \in Seq(StepNames)
  BY <1>1, OrderedTail, TailFacts
<1>11. Tail(s) # <<>> /\ Head(Tail(s)) = "open" => c = "bed"
  BY <1>10, NextStep
<1>12. s = op[q].todo /\ c = op[q].cmd
  BY DEF s, c
<1> QED
  BY <1>3, <1>4, <1>5, <1>7, <1>8, <1>9, <1>11, <1>12

\* What is at the head of a script that is taken up.
LEMMA HeadsAnew ==
  ASSUME ControlTyped', NEW q \in Procs, Anew(q)
  PROVE  /\ \A x \in Raising \cup {"close", "open", "confirm"} : ~At(q, x)'
         /\ ~BedAt(q, {"claim", "unlock", "open"})' /\ ~BedAt(q, {"unlock", "open"})'
         /\ ~Stopping(q)' /\ ~Warning(q)'
<1>1. op'[q].todo # <<>> => Head(op'[q].todo) \notin Later(op'[q].cmd)
  <2>1. Fresh(op'[q].todo, op'[q].cmd)
    BY DEF Anew
  <2>2. op'[q].todo \in Seq(StepNames) /\ (op'[q].todo # <<>> => op'[q].todo[1] \notin Later(op'[q].cmd))
    BY <2>1 DEF Fresh
  <2> QED
    BY <2>2
<1>2. \A x \in Raising \cup {"close", "open", "confirm"} : ~At(q, x)'
  BY <1>1 DEF At, Later
<1>3. op'[q].cmd = "bed" => \A x \in {"claim", "unlock", "open"} : ~At(q, x)'
  BY <1>1 DEF At, Later
<1>4. ~BedAt(q, {"claim", "unlock", "open"})' /\ ~BedAt(q, {"unlock", "open"})'
  BY <1>3 DEF BedAt
<1>5. ~Stopping(q)' /\ ~Warning(q)'
  BY DEF Anew, Fresh, Stopping, Warning
<1> QED
  BY <1>2, <1>4, <1>5

\* The scripts are in order after a step.
LEMMA ScriptKeeps ==
  ASSUME ControlTyped, ControlTyped', NEW q \in Procs, ScriptOf(q), issued <= issued',
         Same(q) \/ Onward(q) \/ Anew(q)
  PROVE  ScriptOf(q)'
<1>1. op[q].lease \in Nat /\ op'[q].lease \in Nat /\ issued \in Nat /\ issued' \in Nat
      /\ op[q].todo \in Seq(StepNames) /\ op'[q].todo \in Seq(StepNames)
  <2>1. op[q] \in Operations /\ op'[q] \in Operations
    BY DEF ControlTyped
  <2>2. issued \in 0 .. MaxLeases /\ issued' \in 0 .. MaxLeases
    BY DEF ControlTyped
  <2>3. issued \in Nat /\ issued' \in Nat
    BY <2>2, ControlAssumption DEF ControlAssumption
  <2> QED
    BY <2>1, <2>3 DEF Operations
<1>2. CASE Same(q)
  <2>1. op[q].lease <= issued'
    BY <1>1 DEF ScriptOf
  <2> QED
    BY <1>2, <2>1 DEF ScriptOf, Same
<1>3. CASE Onward(q)
  <2>1. op[q].cmd # "none"
    BY <1>3 DEF Onward, ScriptOf, Idle
  <2>2. Ordered(op'[q].todo, op[q].cmd)
    BY <1>1, <1>3, OrderedTail DEF Onward, ScriptOf
  <2>3. PICK held \in BOOLEAN : held <=> intent = q
    <3>1. intent = q \/ intent # q
      OBVIOUS
    <3> QED
      BY <3>1
  <2>4. PICK holds \in BOOLEAN : holds <=> intent' = q
    <3>1. intent' = q \/ intent' # q
      OBVIOUS
    <3> QED
      BY <3>1
  <2>5. Guarded(op[q].todo, held, op[q].cmd)
    BY <2>3 DEF ScriptOf, Guarded
  <2>6. op[q].todo # <<>> /\ op'[q].todo = Tail(op[q].todo)
    BY <1>3 DEF Onward
  <2>7. (held /\ Head(op[q].todo) # "unlock" => holds) /\ (Head(op[q].todo) = "lock" => holds)
    BY <1>3, <2>3, <2>4, <2>6 DEF Onward, At
  <2>8. Guarded(op'[q].todo, holds, op[q].cmd)
    BY <1>1, <2>5, <2>6, <2>7, GuardedTail
  <2>9. Guarded(op'[q].todo, intent' = q, op[q].cmd)
    BY <2>4, <2>8 DEF Guarded
  <2>10. op'[q].lease # NoLease => op[q].cmd \in {"run", "upgrade"}
    <3>1. CASE At(q, "arm")
      BY <1>1, <2>6, <3>1, NextStep DEF At, ScriptOf
    <3>2. CASE ~At(q, "arm")
      BY <1>3, <3>2 DEF Onward, ScriptOf
    <3> QED
      BY <3>1, <3>2
  <2> QED
    BY <1>3, <2>1, <2>2, <2>9, <2>10 DEF Onward, ScriptOf
<1>4. CASE Anew(q)
  <2>1. Ordered(op'[q].todo, op'[q].cmd) /\ Guarded(op'[q].todo, FALSE, op'[q].cmd)
    BY <1>4 DEF Anew, Fresh
  <2>2. Guarded(op'[q].todo, intent' = q, op'[q].cmd)
    BY <2>1, GuardedMore
  <2>3. op'[q].lease <= issued'
    <3>1. CASE op'[q].lease = NoLease
      BY <1>1, <3>1 DEF NoLease
    <3>2. CASE op'[q].lease # NoLease
      BY <1>1, <1>4, <3>2 DEF Anew, ScriptOf
    <3> QED
      BY <3>1, <3>2
  <2>4. op'[q].lease # NoLease => op'[q].cmd \in {"run", "upgrade"}
    BY <1>4 DEF Anew, ScriptOf
  <2> QED
    BY <1>4, <2>1, <2>2, <2>3, <2>4 DEF Anew, ScriptOf
<1> QED
  BY <1>2, <1>3, <1>4

\* Who does a careful step holds the operator's lock; so does a durable stop once it has latched.
LEMMA HoldsTheLock ==
  ASSUME ControlTyped, NEW q \in Procs, ScriptOf(q)
  PROVE  /\ \A x \in {"confirm", "reopen", "clear", "withdraw", "arm"} \cup Raising :
              At(q, x) => intent = q
         /\ BedAt(q, {"claim"}) => intent = q
         /\ Stopping(q) => intent = q
<1>1. op[q].todo \in Seq(StepNames) /\ Ordered(op[q].todo, op[q].cmd)
      /\ Guarded(op[q].todo, intent = q, op[q].cmd)
  BY DEF ControlTyped, Operations, ScriptOf
<1>2. op[q].todo # <<>> /\ Head(op[q].todo) \in Careful(op[q].cmd) => intent = q
  BY <1>1, HeadIsHeld
<1>3. Stopping(q) => intent = q
  BY <1>1, StopIsHeld DEF Stopping
<1> QED
  BY <1>2, <1>3 DEF At, BedAt, Careful

\* Which commands launch, open and resume, and where a stop that confirms is.
LEMMA WhoDoesWhat ==
  ASSUME ControlTyped, NEW q \in Procs, ScriptOf(q)
  PROVE  /\ \A x \in {"arm"} \cup Raising : At(q, x) => op[q].cmd \in {"run", "upgrade"}
         /\ At(q, "open") => op[q].cmd = "bed"
         /\ \A x \in {"alone", "reopen", "clear"} : At(q, x) => op[q].cmd = "resume"
         /\ At(q, "confirm") => Left(op[q].todo) = {"confirm"}
         /\ At(q, "warned") => Left(op[q].todo) = {"warned"}
         /\ \A x : At(q, x) => op[q].cmd # "none"
         /\ \A x : At(q, x) => x \in Left(op[q].todo)
<1>1. op[q].todo \in Seq(StepNames) /\ Ordered(op[q].todo, op[q].cmd)
  BY DEF ControlTyped, Operations, ScriptOf
<1>2. CASE op[q].todo = <<>>
  BY <1>2 DEF At
<1>3. CASE op[q].todo # <<>>
  <2>1. /\ Head(op[q].todo) \in {"warned", "confirm"} => Left(op[q].todo) = {Head(op[q].todo)}
        /\ Head(op[q].todo) \in {"arm"} \cup Raising => op[q].cmd \in {"run", "upgrade"}
        /\ Head(op[q].todo) = "open" => op[q].cmd = "bed"
        /\ Head(op[q].todo) \in {"alone", "reopen", "clear"} => op[q].cmd = "resume"
    BY <1>1, <1>3, NextStep
  <2>2. op[q].cmd # "none"
    BY <1>3 DEF ScriptOf, Idle
  <2>3. Head(op[q].todo) \in Left(op[q].todo)
    BY <1>1, <1>3, TailFacts
  <2> QED
    BY <2>1, <2>2, <2>3 DEF At
<1> QED
  BY <1>2, <1>3

(***************************************************************************)
(* The parts the actions are made of: a process goes on, fails, ends,      *)
(* begins, and the supervisor goes.                                        *)
(***************************************************************************)
\* The locks that change hands are p's, before or after.
Mine(p) ==
  /\ intent' = intent \/ (intent \in {Nobody, p} /\ intent' \in {Nobody, p})
  /\ lifecycle' = lifecycle \/ (lifecycle \in {Nobody, p} /\ lifecycle' \in {Nobody, p})

Others(p) == \A q \in Procs \ {p} : Same(q) \/ (Anew(q) /\ op[q].inside)

Moves(p) == Others(p) /\ (Same(p) \/ Onward(p) \/ Anew(p))

\* What a process does to its own operation and its own locks leaves the others alone.
LEMMA OthersStay ==
  ASSUME NEW p \in Procs, Mine(p), \A q \in Procs \ {p} : op'[q] = op[q]
  PROVE  Others(p)
<1> SUFFICES ASSUME NEW q \in Procs \ {p} PROVE Same(q)
  BY DEF Others
<1>1. q # Nobody
  BY ControlAssumption DEF ControlAssumption, Procs
<1> QED
  BY <1>1 DEF Same, Mine

\* A process goes on in its script.
LEMMA GoesOn ==
  ASSUME ControlTyped, NEW p \in Procs, Mine(p), op[p].todo # <<>>,
         NEW o \in Operations, o.todo = op[p].todo, o.cmd = op[p].cmd, o.inside => op[p].inside,
         GoesWith(p, o),
         (intent = p /\ ~At(p, "unlock")) \/ At(p, "lock") => intent' = p,
         (lifecycle = p /\ ~At(p, "close")) \/ At(p, "reap") \/ At(p, "claim") => lifecycle' = p,
         op[p].torn => o.torn,
         ~At(p, "arm") => o.lease = op[p].lease, o.lease <= issued'
  PROVE  /\ Onward(p) /\ Others(p) /\ op' \in [Procs -> Operations]
         /\ op'[p].torn = o.torn /\ op'[p].lease = o.lease
<1>1. op \in [Procs -> Operations] /\ op' = [op EXCEPT ![p] = [o EXCEPT !.todo = Tail(@)]]
  BY DEF ControlTyped, GoesWith
<1>2. PICK t \in Seq(StepNames) : t = Tail(op[p].todo)
  <2>1. op[p].todo \in Seq(StepNames)
    BY <1>1 DEF Operations
  <2> QED
    BY <2>1, TailFacts
<1>3. PICK n \in Operations : n = [o EXCEPT !.todo = t]
  BY <1>2 DEF Operations
<1>4. /\ n.todo = t /\ n.cmd = o.cmd /\ n.inside = o.inside /\ n.torn = o.torn /\ n.lease = o.lease
  BY <1>3 DEF Operations
<1>5. op' = [op EXCEPT ![p] = n]
  BY <1>1, <1>2, <1>3
<1>6. op' \in [Procs -> Operations] /\ op'[p] = n /\ \A q \in Procs \ {p} : op'[q] = op[q]
  BY <1>1, <1>5
<1>7. Others(p)
  BY <1>6, OthersStay
<1>8. op'[p].todo = Tail(op[p].todo) /\ op'[p].cmd = op[p].cmd /\ (op'[p].inside => op[p].inside)
  BY <1>2, <1>4, <1>6
<1>9. op'[p].torn = o.torn /\ op'[p].lease = o.lease
  BY <1>4, <1>6
<1> QED
  BY <1>6, <1>7, <1>8, <1>9 DEF Onward

\* A process goes on in its script and changes nothing else about itself.
LEMMA JustGoesOn ==
  ASSUME ControlTyped, NEW p \in Procs, Mine(p), op[p].todo # <<>>, Goes(p), ~At(p, "arm"),
         (intent = p /\ ~At(p, "unlock")) \/ At(p, "lock") => intent' = p,
         (lifecycle = p /\ ~At(p, "close")) \/ At(p, "reap") \/ At(p, "claim") => lifecycle' = p,
         op[p].lease <= issued, issued' = issued
  PROVE  Onward(p) /\ Others(p) /\ op' \in [Procs -> Operations]
<1>1. op[p] \in Operations /\ op \in [Procs -> Operations]
  BY DEF ControlTyped
<1>2. GoesWith(p, op[p])
  BY <1>1 DEF Goes, GoesWith
<1>3. op[p].lease <= issued'
  OBVIOUS
<1> QED
  BY <1>1, <1>2, <1>3, GoesOn

\* A process fails.
LEMMA FailsAnew ==
  ASSUME ControlTyped, NEW p \in Procs, ScriptOf(p), op[p].cmd # "none", Mine(p),
         NEW o \in Operations, o.cmd = op[p].cmd, o.inside = op[p].inside, o.lease = op[p].lease,
         op' = [op EXCEPT ![p] = Recovered(o)]
  PROVE  Anew(p) /\ Others(p) /\ op' \in [Procs -> Operations] /\ op'[p].cmd # "none"
<1>1. op \in [Procs -> Operations]
  BY DEF ControlTyped
<1>2. o.lease # NoLease => o.cmd \in {"run", "upgrade"}
  BY DEF ScriptOf
<1>3. /\ Fresh(Recovered(o).todo, o.cmd) /\ Recovered(o) \in Operations
      /\ Recovered(o).cmd = o.cmd /\ Recovered(o).inside = o.inside
      /\ Recovered(o).lease = o.lease
  BY <1>2, RecoveredIsFresh
<1>4. op' \in [Procs -> Operations] /\ op'[p] = Recovered(o) /\ \A q \in Procs \ {p} : op'[q] = op[q]
  BY <1>1, <1>3
<1>5. Anew(p)
  BY <1>3, <1>4 DEF Anew, ScriptOf
<1>6. Others(p)
  BY <1>4, OthersStay
<1> QED
  BY <1>3, <1>4, <1>5, <1>6

\* A step that raises gives its process the script its exception leaves, and nobody else another one.
LEMMA RaisesAnew ==
  ASSUME ControlTyped, NEW p \in Procs, ScriptOf(p), op[p].cmd # "none", Raises(p)
  PROVE  /\ Anew(p) /\ Others(p) /\ op' \in [Procs -> Operations] /\ lifecycle' = lifecycle
         /\ intent' \in Procs \cup {Nobody}
<1>1. Mine(p)
  BY DEF Raises, Mine, Freed
<1>2. op \in [Procs -> Operations] /\ op[p] \in Operations /\ intent \in Procs \cup {Nobody}
  BY DEF ControlTyped
<1>3. op' = [op EXCEPT ![p] = Recovered(op[p])]
  BY DEF Raises
<1>4. Anew(p) /\ Others(p) /\ op' \in [Procs -> Operations]
  BY <1>1, <1>2, <1>3, FailsAnew
<1> QED
  BY <1>2, <1>4 DEF Raises, Freed

\* A process is through.
LEMMA EndsAnew ==
  ASSUME ControlTyped, NEW p \in Procs, Ends(p)
  PROVE  /\ Anew(p) /\ Others(p) /\ op' \in [Procs -> Operations] /\ op'[p] = Idle
         /\ intent' \in Procs \cup {Nobody} /\ lifecycle' \in Procs \cup {Nobody}
<1>1. op \in [Procs -> Operations] /\ intent \in Procs \cup {Nobody} /\ lifecycle \in Procs \cup {Nobody}
  BY DEF ControlTyped
<1>2. Idle \in Operations /\ Idle.todo = <<>> /\ Idle.cmd = "none" /\ ~Idle.inside /\ Idle.lease = NoLease
  BY DEF Idle, Operations, NoLease
<1>3. op' = [op EXCEPT ![p] = Idle]
  BY DEF Ends
<1>4. op' \in [Procs -> Operations] /\ op'[p] = Idle /\ \A q \in Procs \ {p} : op'[q] = op[q]
  BY <1>1, <1>2, <1>3
<1>5. Mine(p) /\ intent' # p /\ lifecycle' # p
  <2>1. p # Nobody
    BY ControlAssumption DEF ControlAssumption, Procs
  <2> QED
    BY <2>1 DEF Ends, Mine, Freed
<1>6. <<>> \in Seq(Plain)
  OBVIOUS
<1>7. Fresh(Idle.todo, "none")
  BY <1>2, <1>6, PlainIsFresh
<1>8. Anew(p)
  BY <1>2, <1>4, <1>5, <1>7 DEF Anew
<1>9. Others(p)
  BY <1>4, <1>5, OthersStay
<1> QED
  BY <1>1, <1>4, <1>8, <1>9 DEF Ends, Freed

\* A process takes a command up.
LEMMA BeginsAnew ==
  ASSUME ControlTyped, NEW p \in Procs, NEW c \in CommandNames, Begins(p, c), UNCHANGED locks
  PROVE  Anew(p) /\ Others(p) /\ op' \in [Procs -> Operations]
<1>1. op \in [Procs -> Operations]
  BY DEF ControlTyped
<1>2. PICK s \in Seq(StepNames) : s = Script(c) /\ Fresh(s, c)
  BY ScriptIsFresh
<1>3. PICK b \in BOOLEAN : b <=> c \in TwoForms /\ Alive
  <2>1. (c \in TwoForms /\ Alive) \/ ~(c \in TwoForms /\ Alive)
    OBVIOUS
  <2> QED
    BY <2>1
<1>4. PICK o \in Operations : o = [Idle EXCEPT !.cmd = c, !.todo = s, !.inside = b]
  <2>1. Idle \in Operations
    BY ONLY DEF Idle, Operations, NoLease
  <2>2. PICK i \in Operations : i = Idle
    BY <2>1
  <2>3. [i EXCEPT !.cmd = c, !.todo = s, !.inside = b] \in Operations
    BY <1>2, <2>2 DEF Operations
  <2> QED
    BY <2>2, <2>3
<1>5. op' = [op EXCEPT ![p] = o]
  <2>1. b = (c \in TwoForms /\ Alive)
    BY <1>3
  <2> QED
    BY <1>2, <1>4, <2>1 DEF Begins, TwoForms
<1>6. op' \in [Procs -> Operations] /\ op'[p] = o /\ \A q \in Procs \ {p} : op'[q] = op[q]
  BY <1>1, <1>5
<1>7. o.cmd = c /\ o.todo = s /\ o.inside = b /\ o.lease = NoLease
  BY <1>4 DEF Idle
<1>8. Anew(p)
  <2>1. c # "none"
    BY DEF CommandNames
  <2> QED
    BY <1>2, <1>3, <1>6, <1>7, <2>1 DEF Anew
<1>9. Mine(p)
  BY DEF Mine, locks
<1>10. Others(p)
  BY <1>6, <1>9, OthersStay
<1> QED
  BY <1>6, <1>8, <1>10

\* Whoever ran in the supervisor starts over.
LEMMA StartsOver ==
  ASSUME ControlTyped, NEW q \in Procs, ScriptOf(q), op[q].inside, op'[q] = FallBack(op[q])
  PROVE  Anew(q) /\ op'[q] \in Operations
<1>1. op[q] \in Operations /\ op[q].cmd \in TwoForms
  BY DEF ControlTyped, ScriptOf
<1>2. /\ Fresh(FallBack(op[q]).todo, op[q].cmd) /\ FallBack(op[q]) \in Operations
      /\ FallBack(op[q]).cmd = op[q].cmd /\ ~FallBack(op[q]).inside
      /\ FallBack(op[q]).lease = op[q].lease
  BY <1>1, FallBackIsFresh
<1>3. op[q].cmd # "none"
  BY <1>1 DEF TwoForms
<1> QED
  BY <1>2, <1>3 DEF Anew

\* The supervisor goes by the hand of p.
LEMMA GoneMoves ==
  ASSUME ControlTyped, \A q \in Procs : ScriptOf(q), NEW p \in Procs, SupervisorGone(p),
         op[p].todo # <<>>, ~At(p, "unlock"), ~At(p, "lock"), ~At(p, "close"), ~At(p, "reap"),
         ~At(p, "claim"), ~At(p, "arm")
  PROVE  /\ Onward(p) /\ Others(p) /\ op' \in [Procs -> Operations]
         /\ intent' \in Procs \cup {Nobody} /\ lifecycle' = lifecycle /\ issued' = issued
         /\ sup' = Absent /\ late' = FALSE
<1>1. op \in [Procs -> Operations] /\ intent \in Procs \cup {Nobody}
  BY DEF ControlTyped
<1>2. op' = [q \in Procs |->
               IF q = p THEN [op[q] EXCEPT !.todo = Tail(@)]
               ELSE IF Alive /\ op[q].inside THEN FallBack(op[q]) ELSE op[q]]
      /\ intent' = (IF Alive /\ intent \in Procs \ {p} /\ op[intent].inside THEN Nobody ELSE intent)
      /\ lifecycle' = lifecycle /\ issued' = issued /\ sup' = Absent /\ late' = FALSE
  BY DEF SupervisorGone
<1>3. PICK t \in Seq(StepNames) : t = Tail(op[p].todo)
  <2>1. op[p].todo \in Seq(StepNames)
    BY <1>1 DEF Operations
  <2> QED
    BY <2>1, TailFacts
<1>4. PICK n \in Operations : n = [op[p] EXCEPT !.todo = t]
  BY <1>1, <1>3 DEF Operations
<1>5. n.todo = t /\ n.cmd = op[p].cmd /\ n.inside = op[p].inside /\ n.torn = op[p].torn
      /\ n.lease = op[p].lease
  BY <1>1, <1>4 DEF Operations
<1>6. op'[p] = n
  BY <1>2, <1>3, <1>4
<1>7. Onward(p)
  <2>1. op[p].lease <= issued'
    BY <1>2 DEF ScriptOf
  <2>2. intent = p => intent' = p
    BY <1>2
  <2> QED
    BY <1>2, <1>3, <1>5, <1>6, <2>1, <2>2 DEF Onward
<1>8. ASSUME NEW q \in Procs \ {p}
      PROVE  op'[q] \in Operations /\ (Same(q) \/ (Anew(q) /\ op[q].inside))
  <2>1. CASE Alive /\ op[q].inside
    <3>1. op'[q] = FallBack(op[q])
      BY <1>2, <2>1
    <3> QED
      BY <2>1, <3>1, StartsOver
  <2>2. CASE ~(Alive /\ op[q].inside)
    <3>1. op'[q] = op[q]
      BY <1>2, <2>2
    <3>2. q # Nobody
      BY ControlAssumption DEF ControlAssumption, Procs
    <3>3. intent' = q <=> intent = q
      BY <1>2, <2>2, <3>2
    <3> QED
      BY <1>1, <1>2, <3>1, <3>3 DEF Same
  <2> QED
    BY <2>1, <2>2
<1>9. op' \in [Procs -> Operations]
  <2>1. \A q \in Procs : op'[q] \in Operations
    BY <1>6, <1>8
  <2>2. op' = [q \in Procs |-> op'[q]]
    BY <1>2
  <2> QED
    BY <2>1, <2>2
<1>10. Others(p)
  BY <1>8 DEF Others
<1>11. intent' \in Procs \cup {Nobody}
  BY <1>1, <1>2
<1> QED
  BY <1>2, <1>7, <1>9, <1>10, <1>11

\* The supervisor goes by itself.
LEMMA EmergencyMoves ==
  ASSUME ControlTyped, \A q \in Procs : ScriptOf(q), UNCHANGED lifecycle,
         op' = [q \in Procs |-> IF op[q].inside THEN FallBack(op[q]) ELSE op[q]],
         intent' = IF intent \in Procs /\ op[intent].inside THEN Nobody ELSE intent
  PROVE  /\ \A q \in Procs : Same(q) \/ (Anew(q) /\ op[q].inside)
         /\ op' \in [Procs -> Operations] /\ intent' \in Procs \cup {Nobody}
<1>1. op \in [Procs -> Operations] /\ intent \in Procs \cup {Nobody}
  BY DEF ControlTyped
<1>2. ASSUME NEW q \in Procs
      PROVE  op'[q] \in Operations /\ (Same(q) \/ (Anew(q) /\ op[q].inside))
  <2>1. CASE op[q].inside
    <3>1. op'[q] = FallBack(op[q])
      BY <2>1
    <3> QED
      BY <2>1, <3>1, StartsOver
  <2>2. CASE ~op[q].inside
    <3>1. op'[q] = op[q]
      BY <2>2
    <3>2. q # Nobody
      BY ControlAssumption DEF ControlAssumption, Procs
    <3>3. intent' = q <=> intent = q
      BY <2>2, <3>2
    <3> QED
      BY <1>1, <3>1, <3>3 DEF Same
  <2> QED
    BY <2>1, <2>2
<1>3. op' \in [Procs -> Operations]
  <2>1. \A q \in Procs : op'[q] \in Operations
    BY <1>2
  <2>2. op' = [q \in Procs |-> op'[q]]
    OBVIOUS
  <2> QED
    BY <2>1, <2>2
<1> QED
  BY <1>1, <1>2, <1>3

(***************************************************************************)
(* What a step must not do to the rest, for the invariant to stand.        *)
(***************************************************************************)
Proceeds(p) == Onward(p) /\ ~Anew(p)

Orderly(p) ==
  /\ issued <= issued'
  /\ Proceeds(p) =>
       /\ At(p, "arm") => op'[p].lease # NoLease
       /\ At(p, "spawn") => record' = NoLease
       /\ At(p, "latch") => pause' \/ op'[p].torn
       /\ At(p, "revoke") \/ At(p, "disarm") \/ At(p, "terminate") => sup'.lease = NoLease
       /\ At(p, "close") => ~session'
  /\ record' \in {record, NoLease} \/ (At(p, "record") /\ Onward(p))
  /\ pause => pause' \/ (intent = p /\ ~Stopping(p))
  /\ sup.lease = NoLease => sup'.lease = NoLease \/ (intent = p /\ ~Stopping(p) /\ engaged' = {})
  /\ session' => session \/ BedAt(p, {"open"})
  /\ engaged' \subseteq engaged \/ (engaged' \subseteq engaged \cup {p} /\ At(p, "engage") /\ Onward(p))

Accountable(p) ==
  /\ agents' \subseteq agents /\ lost \subseteq lost'
  /\ record' = record \/ (record' = NoLease /\ record \notin agents')
  /\ Proceeds(p) => ~At(p, "record")
  /\ Anew(p) /\ At(p, "record") => op[p].lease \notin agents' \ lost'

\* What a stop has reported.
Word == promised \cap {"revoked", "closed"}

Standing(p) ==
  /\ Word' = Word \/ Word' = {}
  /\ pause => pause' \/ Word' = {}
  /\ sup.lease = NoLease => sup'.lease = NoLease \/ ~pause
  /\ record' \in {record, NoLease} \/ At(p, "record")
  /\ agents' \subseteq agents \/ At(p, "spawn")
  /\ lost \subseteq lost'
  /\ session' => session \/ BedAt(p, {"open"})
  /\ Proceeds(p) /\ (At(p, "arm") \/ BedAt(p, {"permitted"})) => ~pause

Owing ==
  /\ owed' = owed /\ engaged' \subseteq engaged
  /\ emergency => emergency'
  /\ Latched => Latched'
  /\ "halted" \in promised' => "halted" \in promised
  /\ sup.lease = NoLease => sup'.lease = NoLease \/ ~Latched

\* A process is at one step only.
LEMMA OneStep ==
  ASSUME NEW q, NEW x, At(q, x) PROVE \A y : At(q, y) => y = x
BY DEF At

\* What a process knows that is left alone.
LEMMA KnowledgeStays ==
  ASSUME ControlTyped, ControlTyped', Orders, NEW p \in Procs, Moves(p), Orderly(p),
         NEW q \in Procs, Same(q), q # p \/ ~Onward(p)
  PROVE  Knows(q)'
<1>1. ScriptOf(p) /\ ScriptOf(q) /\ Knows(q) /\ (\A r \in Procs : Knows(r))
      /\ (\A r \in Procs : ScriptOf(r))
  BY DEF Orders
<1>2. op'[q] = op[q] /\ (intent' = q <=> intent = q) /\ (lifecycle' = q <=> lifecycle = q)
  BY DEF Same
<1>3. /\ \A x : At(q, x)' <=> At(q, x)
      /\ Stopping(q)' <=> Stopping(q)
      /\ Warning(q)' <=> Warning(q)
      /\ \A B : BedAt(q, B)' <=> BedAt(q, B)
  BY <1>2 DEF At, Stopping, Warning, BedAt, Left
<1>4. /\ \A x \in {"confirm", "record"} : At(q, x) => intent = q
      /\ Stopping(q) => intent = q
  BY <1>1, HoldsTheLock DEF Raising
<1>5. \A x \in Raising : At(q, x)' => op'[q].lease # NoLease
  BY <1>1, <1>2, <1>3 DEF Knows
<1>6. At(q, "record")' => record' = NoLease
  <2>1. SUFFICES ASSUME At(q, "record") PROVE record' = NoLease
    BY <1>3
  <2>2. record = NoLease /\ intent = q
    BY <1>1, <1>4, <2>1 DEF Knows
  <2>3. At(p, "record") => intent = p
    BY <1>1, HoldsTheLock DEF Raising
  <2> QED
    BY <2>2, <2>3 DEF Orderly
<1>7. At(q, "close")' \/ BedAt(q, {"unlock", "open"})' => lifecycle' = q
  BY <1>1, <1>2, <1>3 DEF Knows
<1>8. ASSUME Stopping(q)
      PROVE  /\ ~op'[q].torn => pause'
             /\ Left(op'[q].todo) \cap {"revoke", "disarm"} = {} => sup'.lease = NoLease
  <2>1. intent = q
    BY <1>4, <1>8
  <2>2. /\ ~op[q].torn => pause
        /\ Left(op[q].todo) \cap {"revoke", "disarm"} = {} => sup.lease = NoLease
    BY <1>1, <1>8 DEF Knows
  <2>3. (pause => pause') /\ (sup.lease = NoLease => sup'.lease = NoLease)
    BY <1>8, <2>1 DEF Orderly
  <2> QED
    BY <1>2, <2>2, <2>3
<1>9. ASSUME op[q].cmd = "bed-stop", At(q, "confirm")
      PROVE  ~session' /\ \A r \in Procs : ~BedAt(r, {"unlock", "open"})'
  <2>1. ~session /\ (\A r \in Procs : ~BedAt(r, {"unlock", "open"})) /\ intent = q
    BY <1>1, <1>4, <1>9 DEF Knows
  <2>2. ~session'
    BY <2>1 DEF Orderly, BedAt
  <2>3. ASSUME NEW r \in Procs, BedAt(r, {"unlock", "open"})' PROVE FALSE
    <3>1. ~Same(r)
      BY <2>1, <2>3 DEF Same, BedAt, At
    <3>2. ~Anew(r)
      BY <2>3, HeadsAnew
    <3>3. r = p /\ Onward(p)
      BY <3>1, <3>2 DEF Moves, Others
    <3>4. /\ At(p, "open")' => At(p, "unlock") /\ op[p].cmd = "bed"
          /\ At(p, "unlock")' /\ op[p].cmd = "bed" => At(p, "claim") /\ intent = p
      BY <1>1, <3>3, HeadsAfter
    <3>5. op[p].cmd = "bed"
      BY <2>3, <3>3 DEF BedAt, Onward
    <3>6. BedAt(p, {"unlock"}) \/ (At(p, "claim") /\ intent = p)
      BY <2>3, <3>3, <3>4, <3>5 DEF BedAt
    <3>7. ~BedAt(p, {"unlock"})
      BY <2>1 DEF BedAt
    <3> QED
      BY <1>9, <2>1, <3>6, <3>7, OneStep
  <2> QED
    BY <2>2, <2>3
<1>10. q \in engaged' /\ Warning(q) => sup'.lease = NoLease
  <2>1. SUFFICES ASSUME q \in engaged', Warning(q) PROVE sup'.lease = NoLease
    OBVIOUS
  <2>2. q \in engaged
    BY <2>1 DEF Orderly
  <2>3. sup.lease = NoLease
    BY <1>1, <2>1, <2>2 DEF Knows
  <2> QED
    BY <2>1, <2>3 DEF Orderly
<1> QED
  BY <1>2, <1>3, <1>5, <1>6, <1>7, <1>8, <1>9, <1>10 DEF Knows

\* What a process knows that goes on.
LEMMA KnowledgeGrows ==
  ASSUME ControlTyped, ControlTyped', Orders, NEW p \in Procs, Moves(p), Orderly(p), Proceeds(p)
  PROVE  Knows(p)'
<1>1. Onward(p) /\ ScriptOf(p) /\ Knows(p) /\ (\A r \in Procs : Knows(r)) /\ (\A r \in Procs : ScriptOf(r))
  BY DEF Orders, Proceeds
<1>2. /\ At(p, "activate")' => At(p, "arm")
      /\ At(p, "recheck")' => At(p, "activate")
      /\ At(p, "spawn")' => At(p, "recheck")
      /\ At(p, "record")' => At(p, "spawn")
      /\ At(p, "close")' => At(p, "reap")
      /\ At(p, "open")' => At(p, "unlock") /\ op[p].cmd = "bed"
      /\ At(p, "unlock")' /\ op[p].cmd = "bed" => At(p, "claim") /\ intent = p
      /\ At(p, "confirm")' /\ op[p].cmd = "bed-stop" => At(p, "close")
      /\ \A x \in Left(op[p].todo) : x \in Left(op'[p].todo) \/ At(p, x)
      /\ Left(op'[p].todo) \subseteq Left(op[p].todo)
      /\ At(p, "engage") => "terminate" \in Left(op'[p].todo)
      /\ At(p, "latch") /\ op[p].cmd \in Durable => Left(op'[p].todo) \cap {"revoke", "disarm"} # {}
  BY <1>1, HeadsAfter DEF Left
<1>3. op'[p].cmd = op[p].cmd
  BY <1>1 DEF Onward
<1>4. ASSUME NEW x \in Raising, At(p, x)' PROVE op'[p].lease # NoLease
  <2>1. At(p, "arm") \/ \E y \in Raising : At(p, y)
    BY <1>2, <1>4 DEF Raising
  <2>2. CASE At(p, "arm")
    BY <2>2 DEF Orderly
  <2>3. ASSUME NEW y \in Raising, At(p, y) PROVE op'[p].lease # NoLease
    <3>1. ~At(p, "arm")
      BY <2>3, OneStep DEF Raising
    <3>2. op[p].lease # NoLease
      BY <1>1, <2>3 DEF Knows
    <3> QED
      BY <1>1, <3>1, <3>2 DEF Onward
  <2> QED
    BY <2>1, <2>2, <2>3
<1>5. At(p, "record")' => record' = NoLease
  BY <1>2 DEF Orderly
<1>6. At(p, "close")' \/ BedAt(p, {"unlock", "open"})' => lifecycle' = p
  <2>1. At(p, "close")' => lifecycle' = p
    BY <1>1, <1>2 DEF Onward
  <2>2. ASSUME BedAt(p, {"unlock"})' PROVE lifecycle' = p
    BY <1>1, <1>2, <1>3, <2>2 DEF Onward, BedAt
  <2>3. ASSUME BedAt(p, {"open"})' PROVE lifecycle' = p
    <3>1. At(p, "unlock") /\ op[p].cmd = "bed"
      BY <1>2, <2>3 DEF BedAt
    <3>2. lifecycle = p
      BY <1>1, <3>1 DEF Knows, BedAt
    <3>3. ~At(p, "close")
      BY <3>1, OneStep
    <3> QED
      BY <1>1, <3>2, <3>3 DEF Onward
  <2> QED
    BY <2>1, <2>2, <2>3 DEF BedAt
<1>7. ASSUME Stopping(p)'
      PROVE  /\ ~op'[p].torn => pause'
             /\ Left(op'[p].todo) \cap {"revoke", "disarm"} = {} => sup'.lease = NoLease
  <2>1. op[p].cmd \in Durable /\ "confirm" \in Left(op[p].todo) /\ "latch" \notin Left(op'[p].todo)
    BY <1>2, <1>3, <1>7 DEF Stopping
  <2>2. CASE At(p, "latch")
    BY <1>2, <2>1, <2>2 DEF Orderly
  <2>3. CASE ~At(p, "latch")
    <3>1. Stopping(p)
      BY <1>2, <2>1, <2>3 DEF Stopping
    <3>2. /\ ~op[p].torn => pause
          /\ Left(op[p].todo) \cap {"revoke", "disarm"} = {} => sup.lease = NoLease
      BY <1>1, <3>1 DEF Knows
    <3>3. (pause => pause') /\ (sup.lease = NoLease => sup'.lease = NoLease)
      BY <3>1 DEF Orderly
    <3>4. op[p].torn => op'[p].torn
      BY <1>1 DEF Onward
    <3>5. ASSUME Left(op'[p].todo) \cap {"revoke", "disarm"} = {} PROVE sup'.lease = NoLease
      <4>1. At(p, "revoke") \/ At(p, "disarm") \/ Left(op[p].todo) \cap {"revoke", "disarm"} = {}
        BY <1>2, <3>5
      <4> QED
        BY <3>2, <3>3, <4>1 DEF Orderly
    <3> QED
      BY <3>2, <3>3, <3>4, <3>5
  <2> QED
    BY <2>2, <2>3
<1>8. ASSUME op'[p].cmd = "bed-stop", At(p, "confirm")'
      PROVE  ~session' /\ \A r \in Procs : ~BedAt(r, {"unlock", "open"})'
  <2>1. At(p, "close")
    BY <1>2, <1>3, <1>8
  <2>2. ~session'
    BY <2>1 DEF Orderly
  <2>3. lifecycle = p
    BY <1>1, <2>1 DEF Knows
  <2>4. ASSUME NEW r \in Procs, BedAt(r, {"unlock", "open"})' PROVE FALSE
    <3>1. r # p
      BY <1>8, <2>4 DEF BedAt
    <3>2. ~Anew(r)
      BY <2>4, HeadsAnew
    <3>3. Same(r)
      BY <3>1, <3>2 DEF Moves, Others
    <3>4. BedAt(r, {"unlock", "open"})
      BY <2>4, <3>3 DEF Same, BedAt, At
    <3>5. lifecycle = r
      BY <1>1, <3>4 DEF Knows
    <3> QED
      BY <2>3, <3>1, <3>5
  <2> QED
    BY <2>2, <2>4
<1>9. ASSUME p \in engaged', Warning(p)' PROVE sup'.lease = NoLease
  <2>1. "warned" \in Left(op[p].todo) /\ "terminate" \notin Left(op'[p].todo)
    BY <1>2, <1>9 DEF Warning
  <2>2. CASE At(p, "terminate")
    BY <2>2 DEF Orderly
  <2>3. CASE ~At(p, "terminate")
    <3>1. Warning(p)
      BY <1>2, <2>1, <2>3 DEF Warning
    <3>2. p \in engaged
      BY <1>2, <1>9, <2>1 DEF Orderly
    <3>3. sup.lease = NoLease
      BY <1>1, <3>1, <3>2 DEF Knows
    <3> QED
      BY <1>9, <3>3 DEF Orderly
  <2> QED
    BY <2>2, <2>3
<1> QED
  BY <1>4, <1>5, <1>6, <1>7, <1>8, <1>9 DEF Knows

\* Who takes up a script knows nothing yet.
LEMMA KnowledgeBegins ==
  ASSUME ControlTyped', NEW q \in Procs, Anew(q) PROVE Knows(q)'
<1>1. /\ \A x \in Raising \cup {"close", "open", "confirm"} : ~At(q, x)'
      /\ ~BedAt(q, {"unlock", "open"})' /\ ~Stopping(q)' /\ ~Warning(q)'
  BY HeadsAnew
<1> QED
  BY <1>1 DEF Knows, Raising

\* Orders holds after a step of p: its script and what it knows, and those of everybody else.
LEMMA OrdersKeep ==
  ASSUME ControlTyped, ControlTyped', Orders, NEW p \in Procs, Moves(p), Orderly(p)
  PROVE  Orders'
<1>1. ASSUME NEW q \in Procs PROVE ScriptOf(q)' /\ Knows(q)'
  <2>1. Same(q) \/ Onward(q) \/ Anew(q)
    BY DEF Moves, Others
  <2>2. ScriptOf(q)'
    BY <2>1, ScriptKeeps DEF Orders, Orderly
  <2>3. Knows(q)'
    <3>1. CASE Anew(q)
      BY <3>1, KnowledgeBegins
    <3>2. CASE q = p /\ Proceeds(p)
      BY <3>2, KnowledgeGrows
    <3>3. CASE Same(q) /\ (q # p \/ ~Onward(p))
      BY <3>3, KnowledgeStays
    <3> QED
      BY <3>1, <3>2, <3>3 DEF Moves, Others, Proceeds
  <2> QED
    BY <2>2, <2>3
<1> QED
  BY <1>1 DEF Orders

\* Nobody who runs in the supervisor launches.
LEMMA InsideLaunchesNot ==
  ASSUME ControlTyped, NEW q \in Procs, ScriptOf(q), op[q].inside
  PROVE  \A x \in {"arm"} \cup Raising : ~At(q, x)
BY WhoDoesWhat DEF ScriptOf, TwoForms

\* Every live agent stays on the descriptor or in the hands of the launch that spawned it.
LEMMA AccountedKeeps ==
  ASSUME ControlTyped, Orders, Accounted, NEW p \in Procs, Moves(p), Accountable(p)
  PROVE  Accounted'
<1> SUFFICES ASSUME NEW l \in agents' \ lost'
             PROVE  l = record' \/ \E q \in Procs : At(q, "record")' /\ op'[q].lease = l
  BY DEF Accounted
<1>1. l \in agents \ lost
  BY DEF Accountable
<1>2. CASE l = record
  BY <1>2 DEF Accountable
<1>3. ASSUME NEW q \in Procs, At(q, "record"), op[q].lease = l
      PROVE  At(q, "record")' /\ op'[q].lease = l
  <2>1. ~op[q].inside
    BY <1>3, InsideLaunchesNot DEF Orders, Raising
  <2>2. Same(q)
    BY <1>3, <2>1 DEF Moves, Others, Accountable, Proceeds
  <2> QED
    BY <1>3, <2>2 DEF Same, At
<1> QED
  BY <1>1, <1>2, <1>3 DEF Accounted

\* What the durable stops promised stands after a step of p that leaves the word, or gives it truly.
LEMMA RevokedKeeps ==
  ASSUME ControlTyped, ControlTyped', Orders, RevokedStands, NEW p \in Procs, Moves(p), Standing(p)
  PROVE  RevokedStands'
<1>1. ASSUME NEW q \in Procs, NEW x \in Raising, At(q, x)', pause
      PROVE  \E r \in Procs : \E y \in Raising : At(r, y)
  <2>1. ~Anew(q)
    BY <1>1, HeadsAnew
  <2>2. CASE Same(q)
    BY <1>1, <2>2 DEF Same, At
  <2>3. CASE q = p /\ Proceeds(p)
    <3>1. ScriptOf(p)
      BY DEF Orders
    <3>2. /\ At(p, "activate")' => At(p, "arm")
          /\ At(p, "recheck")' => At(p, "activate")
          /\ At(p, "spawn")' => At(p, "recheck")
          /\ At(p, "record")' => At(p, "spawn")
      BY <2>3, <3>1, HeadsAfter DEF Proceeds
    <3>3. At(p, "arm") => ~pause
      BY <2>3 DEF Standing
    <3> QED
      BY <1>1, <2>3, <3>2, <3>3 DEF Raising
  <2> QED
    BY <2>1, <2>2, <2>3 DEF Moves, Others, Proceeds
<1>2. ASSUME NEW q \in Procs, BedAt(q, {"claim", "unlock", "open"})', pause
      PROVE  \E r \in Procs : BedAt(r, {"claim", "unlock", "open"})
  <2>1. ~Anew(q)
    BY <1>2, HeadsAnew
  <2>2. CASE Same(q)
    BY <1>2, <2>2 DEF Same, At, BedAt
  <2>3. CASE q = p /\ Proceeds(p)
    <3>1. ScriptOf(p)
      BY DEF Orders
    <3>2. op[p].cmd = "bed"
      BY <1>2, <2>3 DEF BedAt, Onward, Proceeds
    <3>3. /\ At(p, "open")' => At(p, "unlock")
          /\ At(p, "claim")' => At(p, "permitted")
          /\ At(p, "unlock")' => At(p, "claim")
      BY <2>3, <3>1, <3>2, HeadsAfter DEF Proceeds
    <3>4. ~At(p, "permitted")
      BY <1>2, <2>3, <3>2 DEF Standing, BedAt
    <3> QED
      BY <1>2, <2>3, <3>2, <3>3, <3>4 DEF BedAt
  <2> QED
    BY <2>1, <2>2, <2>3 DEF Moves, Others, Proceeds
<1>3. ASSUME "revoked" \in promised'
      PROVE  /\ pause' /\ sup'.lease = NoLease /\ record' = NoLease /\ agents' \subseteq lost'
             /\ \A q \in Procs : \A x \in Raising : ~At(q, x)'
  <2>1. "revoked" \in promised /\ Word' # {}
    BY <1>3 DEF Standing, Word
  <2>2. /\ pause /\ sup.lease = NoLease /\ record = NoLease /\ agents \subseteq lost
        /\ \A q \in Procs : \A x \in Raising : ~At(q, x)
    BY <2>1 DEF RevokedStands
  <2>3. ~At(p, "record") /\ ~At(p, "spawn")
    BY <2>2 DEF Raising
  <2>4. pause' /\ sup'.lease = NoLease /\ record' = NoLease /\ agents' \subseteq lost'
    BY <2>1, <2>2, <2>3 DEF Standing
  <2> QED
    BY <1>1, <2>2, <2>4
<1>4. ASSUME "closed" \in promised'
      PROVE  /\ "revoked" \in promised' /\ ~session'
             /\ \A q \in Procs : ~BedAt(q, {"claim", "unlock", "open"})'
  <2>1. Word' = Word /\ "closed" \in promised
    BY <1>4 DEF Standing, Word
  <2>2. /\ "revoked" \in promised /\ ~session /\ pause
        /\ \A q \in Procs : ~BedAt(q, {"claim", "unlock", "open"})
    BY <2>1 DEF RevokedStands
  <2>3. "revoked" \in promised'
    BY <2>1, <2>2 DEF Word
  <2>4. ~session'
    BY <2>2 DEF Standing, BedAt
  <2> QED
    BY <1>2, <2>2, <2>3, <2>4
<1> QED
  BY <1>3, <1>4 DEF RevokedStands

\* What the operator owes after an emergency stop stands after a step of p.
LEMMA OwedKeeps ==
  ASSUME OwedStands, Owing PROVE OwedStands'
BY DEF OwedStands, Owing

\* The whole invariant from its parts: the form in which every action below uses it.
LEMMA StepKeeps ==
  ASSUME ControlIInv, ControlTyped', NEW p \in Procs, Moves(p), Orderly(p), Accountable(p),
         Standing(p), Owing
  PROVE  ControlIInv'
<1>1. ControlTyped /\ Orders /\ Accounted /\ RevokedStands /\ OwedStands
  BY DEF ControlIInv
<1>2. Orders'
  BY <1>1, OrdersKeep
<1>3. Accounted'
  BY <1>1, AccountedKeeps
<1>4. RevokedStands'
  BY <1>1, RevokedKeeps
<1>5. OwedStands'
  BY <1>1, OwedKeeps
<1> QED
  BY <1>2, <1>3, <1>4, <1>5 DEF ControlIInv

\* A process goes on, no lock changes hands.
LEMMA Going ==
  ASSUME ControlIInv, NEW p \in Procs, NEW x, At(p, x), x \notin {"lock", "reap", "claim", "arm"},
         Goes(p), UNCHANGED locks, issued' = issued
  PROVE  Onward(p) /\ Others(p) /\ Moves(p) /\ op' \in [Procs -> Operations]
<1>1. ControlTyped /\ ScriptOf(p)
  BY DEF ControlIInv, Orders
<1>2. Mine(p)
  BY DEF Mine, locks
<1>3. op[p].todo # <<>> /\ \A y \in {"lock", "reap", "claim", "arm"} : ~At(p, y)
  BY DEF At
<1>4. op[p].lease <= issued
  BY <1>1 DEF ScriptOf
<1> QED
  BY <1>1, <1>2, <1>3, <1>4, JustGoesOn DEF locks, Moves

\* A process goes on with another note in its record, no lock changes hands.
LEMMA GoingWith ==
  ASSUME ControlIInv, NEW p \in Procs, NEW x, At(p, x), x \notin {"lock", "reap", "claim", "arm"},
         NEW o \in Operations, o.todo = op[p].todo, o.cmd = op[p].cmd, o.inside = op[p].inside,
         op[p].torn => o.torn, o.lease = op[p].lease,
         GoesWith(p, o), UNCHANGED locks, issued' = issued
  PROVE  /\ Onward(p) /\ Others(p) /\ Moves(p) /\ op' \in [Procs -> Operations]
         /\ op'[p].torn = o.torn /\ op'[p].lease = o.lease
<1>1. ControlTyped /\ ScriptOf(p)
  BY DEF ControlIInv, Orders
<1>2. Mine(p)
  BY DEF Mine, locks
<1>3. op[p].todo # <<>> /\ \A y \in {"lock", "reap", "claim", "arm"} : ~At(p, y)
  BY DEF At
<1>4. o.lease <= issued'
  BY <1>1 DEF ScriptOf
<1>5. (intent = p => intent' = p) /\ (lifecycle = p => lifecycle' = p)
  BY DEF locks
<1>6. Onward(p) /\ Others(p) /\ op' \in [Procs -> Operations]
      /\ op'[p].torn = o.torn /\ op'[p].lease = o.lease
  BY <1>1, <1>2, <1>3, <1>4, <1>5, GoesOn
<1> QED
  BY <1>6 DEF Moves

\* A process that raises: its new script, and the others as they were.
LEMMA Failing ==
  ASSUME ControlIInv, NEW p \in Procs, NEW x, At(p, x), Raises(p)
  PROVE  /\ Anew(p) /\ Others(p) /\ Moves(p) /\ op' \in [Procs -> Operations]
         /\ lifecycle' = lifecycle /\ intent' \in Procs \cup {Nobody}
<1>1. ControlTyped /\ ScriptOf(p)
  BY DEF ControlIInv, Orders
<1>2. op[p].cmd # "none"
  BY <1>1, WhoDoesWhat
<1> QED
  BY <1>1, <1>2, RaisesAnew DEF Moves

(***************************************************************************)
(* The steps that touch nothing but operations, locks and start.sh.        *)
(***************************************************************************)
Quiet ==
  /\ UNCHANGED <<markers, authority, players, session, history>>
  /\ service' \in {"none", "off", "on", "halting"} /\ stage' \in {"tidy", "bed", "run", "watch"}

\* The steps that leave something behind.
Telling == {"arm", "spawn", "latch", "revoke", "disarm", "terminate", "close", "record"}

\* A quiet step of p keeps the invariant, unless it skips a step others rely on.
LEMMA QuietKeeps ==
  ASSUME ControlIInv, NEW p \in Procs, Moves(p), Quiet, op' \in [Procs -> Operations],
         intent' \in Procs \cup {Nobody}, lifecycle' \in Procs \cup {Nobody},
         Proceeds(p) => \A x \in Telling : ~At(p, x),
         Proceeds(p) /\ BedAt(p, {"permitted"}) => ~pause,
         Anew(p) /\ At(p, "record") => op[p].lease \notin agents \ lost
  PROVE  ControlIInv'
<1>1. /\ pause' = pause /\ emergency' = emergency /\ sup' = sup /\ late' = late /\ issued' = issued
      /\ agents' = agents /\ record' = record /\ lost' = lost /\ session' = session
      /\ promised' = promised /\ owed' = owed /\ engaged' = engaged
  BY DEF Quiet, markers, authority, players, history
<1>2. ControlTyped
  BY DEF ControlIInv
<1>3. ControlTyped'
  BY <1>1, <1>2 DEF ControlTyped, Quiet
<1>4. issued <= issued'
  <2>1. issued \in Nat
    BY <1>2, ControlAssumption DEF ControlTyped, ControlAssumption
  <2> QED
    BY <1>1, <2>1
<1>5. Orderly(p)
  BY <1>1, <1>4 DEF Orderly, Telling
<1>6. Accountable(p)
  BY <1>1 DEF Accountable, Telling
<1>7. Standing(p)
  BY <1>1 DEF Standing, Word, Telling
<1>8. Owing
  BY <1>1 DEF Owing, Latched
<1> QED
  BY <1>3, <1>5, <1>6, <1>7, <1>8, StepKeeps

\* A quiet step that goes on.
LEMMA QuietGoing ==
  ASSUME ControlIInv, NEW p \in Procs, NEW x, At(p, x), Goes(p), UNCHANGED locks, Quiet,
         x \notin {"lock", "reap", "claim", "permitted"} \cup Telling
  PROVE  ControlIInv'
<1>1. issued' = issued
  BY DEF Quiet, authority
<1>2. Onward(p) /\ Moves(p) /\ op' \in [Procs -> Operations]
  BY <1>1, Going DEF Telling
<1>3. intent' \in Procs \cup {Nobody} /\ lifecycle' \in Procs \cup {Nobody}
  BY DEF ControlIInv, ControlTyped, locks
<1>4. /\ \A y \in Telling : ~At(p, y)
      /\ ~BedAt(p, {"permitted"})
  BY DEF At, BedAt
<1>5. ~At(p, "record")
  BY <1>4 DEF Telling
<1> QED
  BY <1>2, <1>3, <1>4, <1>5, QuietKeeps

\* A quiet step that goes on with another note in its record.
LEMMA QuietGoingWith ==
  ASSUME ControlIInv, NEW p \in Procs, NEW x, At(p, x), UNCHANGED locks, Quiet,
         x \notin {"lock", "reap", "claim", "permitted"} \cup Telling,
         NEW o \in Operations, o.todo = op[p].todo, o.cmd = op[p].cmd, o.inside = op[p].inside,
         o.torn = op[p].torn, o.lease = op[p].lease, GoesWith(p, o)
  PROVE  ControlIInv'
<1>1. issued' = issued
  BY DEF Quiet, authority
<1>2. Onward(p) /\ Moves(p) /\ op' \in [Procs -> Operations]
  BY <1>1, GoingWith DEF Telling
<1>3. intent' \in Procs \cup {Nobody} /\ lifecycle' \in Procs \cup {Nobody}
  BY DEF ControlIInv, ControlTyped, locks
<1>4. /\ \A y \in Telling : ~At(p, y)
      /\ ~BedAt(p, {"permitted"})
  BY DEF At, BedAt
<1>5. ~At(p, "record")
  BY <1>4 DEF Telling
<1> QED
  BY <1>2, <1>3, <1>4, <1>5, QuietKeeps

\* A quiet step that raises.
LEMMA QuietFailing ==
  ASSUME ControlIInv, NEW p \in Procs, NEW x, At(p, x), Raises(p), Quiet,
         x = "record" => op[p].lease \notin agents
  PROVE  ControlIInv'
<1>1. ControlTyped
  BY DEF ControlIInv
<1>2. Anew(p) /\ Others(p) /\ op' \in [Procs -> Operations]
      /\ lifecycle' = lifecycle /\ intent' \in Procs \cup {Nobody}
  BY Failing
<1>3. lifecycle' \in Procs \cup {Nobody}
  BY <1>1, <1>2 DEF ControlTyped
<1>4. Moves(p)
  BY <1>2 DEF Moves
<1>5. At(p, "record") => op[p].lease \notin agents
  BY DEF At
<1>6. ~Proceeds(p)
  BY <1>2 DEF Proceeds
<1> QED
  BY <1>2, <1>3, <1>4, <1>5, <1>6, QuietKeeps

\* A quiet step that ends its command.
LEMMA QuietEnding ==
  ASSUME ControlIInv, NEW p \in Procs, NEW x, At(p, x), Ends(p), Quiet, x # "record"
  PROVE  ControlIInv'
<1>1. ControlTyped
  BY DEF ControlIInv
<1>2. Anew(p) /\ Others(p) /\ op' \in [Procs -> Operations]
      /\ intent' \in Procs \cup {Nobody} /\ lifecycle' \in Procs \cup {Nobody}
  BY <1>1, EndsAnew
<1>3. Moves(p) /\ ~Proceeds(p) /\ ~At(p, "record")
  BY <1>2 DEF Moves, Proceeds, At
<1> QED
  BY <1>2, <1>3, QuietKeeps

\* A quiet step that begins a command.
LEMMA QuietBeginning ==
  ASSUME ControlIInv, NEW p \in Procs, NEW c \in CommandNames, op[p] = Idle, Begins(p, c),
         UNCHANGED locks, Quiet
  PROVE  ControlIInv'
<1>1. ControlTyped
  BY DEF ControlIInv
<1>2. Anew(p) /\ Others(p) /\ op' \in [Procs -> Operations]
  BY <1>1, BeginsAnew
<1>3. intent' \in Procs \cup {Nobody} /\ lifecycle' \in Procs \cup {Nobody}
  BY <1>1 DEF ControlTyped, locks
<1>4. Moves(p) /\ ~Proceeds(p)
  BY <1>2 DEF Moves, Proceeds
<1>5. ~At(p, "record")
  BY DEF At, Idle
<1> QED
  BY <1>2, <1>3, <1>4, <1>5, QuietKeeps

(***************************************************************************)
(* One lemma for each action.  First those that leave the rest alone.      *)
(***************************************************************************)
LEMMA LockKeeps == ASSUME ControlIInv, NEW p \in Procs, Lock(p) PROVE ControlIInv'
<1>1. ControlTyped /\ ScriptOf(p) /\ At(p, "lock")
  BY DEF ControlIInv, Orders, Lock
<1>2. Quiet
  BY <1>1 DEF Lock, Quiet, platform, ControlTyped
<1>3. CASE intent = Nobody /\ intent' = p /\ Goes(p) /\ UNCHANGED lifecycle
  <2>1. Mine(p) /\ lifecycle' \in Procs \cup {Nobody}
    BY <1>1, <1>3 DEF Mine, ControlTyped
  <2>2. op[p].todo # <<>> /\ \A y : At(p, y) => y = "lock"
    BY <1>1 DEF At
  <2>3. issued' = issued /\ op[p].lease <= issued
    BY <1>1, <1>2 DEF Quiet, authority, ScriptOf
  <2>4. Onward(p) /\ Others(p) /\ op' \in [Procs -> Operations]
    BY <1>1, <1>3, <2>1, <2>2, <2>3, JustGoesOn
  <2>5. (\A x \in Telling : ~At(p, x)) /\ ~BedAt(p, {"permitted"}) /\ ~At(p, "record")
    BY <2>2 DEF Telling, BedAt
  <2> QED
    BY <1>2, <1>3, <2>1, <2>4, <2>5, QuietKeeps DEF Moves
<1>4. CASE Raises(p)
  BY <1>1, <1>2, <1>4, QuietFailing
<1>5. CASE op[p].inside /\ op' = [op EXCEPT ![p] = FallBack(@)] /\ UNCHANGED locks
  <2>1. op \in [Procs -> Operations] /\ intent' = intent /\ lifecycle' = lifecycle
    BY <1>1, <1>5 DEF ControlTyped, locks
  <2>2. op'[p] = FallBack(op[p]) /\ \A q \in Procs \ {p} : op'[q] = op[q]
    BY <1>5, <2>1
  <2>3. Anew(p) /\ op'[p] \in Operations
    BY <1>1, <1>5, <2>2, StartsOver
  <2>4. op' \in [Procs -> Operations]
    BY <1>5, <2>1, <2>2, <2>3
  <2>5. Mine(p) /\ intent' \in Procs \cup {Nobody} /\ lifecycle' \in Procs \cup {Nobody}
    BY <1>1, <2>1 DEF Mine, ControlTyped
  <2>6. Others(p)
    BY <2>2, <2>5, OthersStay
  <2>7. ~At(p, "record")
    BY <1>1, OneStep
  <2> QED
    BY <1>2, <2>3, <2>4, <2>5, <2>6, <2>7, QuietKeeps DEF Moves, Proceeds
<1> QED
  BY <1>3, <1>4, <1>5 DEF Lock

\* Unlock: the operator lock is given back, after the part of the script that needs it.
LEMMA UnlockKeeps == ASSUME ControlIInv, NEW p \in Procs, Unlock(p) PROVE ControlIInv'
<1>1. ControlTyped /\ ScriptOf(p) /\ At(p, "unlock")
  BY DEF ControlIInv, Orders, Unlock
<1>2. Quiet
  BY <1>1 DEF Unlock, Quiet, platform, ControlTyped
<1>3. Mine(p) /\ intent' \in Procs \cup {Nobody} /\ lifecycle' \in Procs \cup {Nobody}
      /\ lifecycle' = lifecycle
  BY <1>1 DEF Mine, ControlTyped, Unlock, Freed
<1>4. op[p].todo # <<>> /\ \A y : At(p, y) => y = "unlock"
  BY <1>1 DEF At
<1>5. issued' = issued /\ op[p].lease <= issued
  BY <1>1, <1>2 DEF Quiet, authority, ScriptOf
<1>6. PICK o \in Operations : o = [op[p] EXCEPT !.inside = FALSE]
  <2>1. op[p] \in Operations
    BY <1>1 DEF ControlTyped
  <2> QED
    BY <2>1 DEF Operations
<1>7. o.todo = op[p].todo /\ o.cmd = op[p].cmd /\ ~o.inside /\ o.torn = op[p].torn /\ o.lease = op[p].lease
  <2>1. op[p] \in Operations
    BY <1>1 DEF ControlTyped
  <2> QED
    BY <1>6, <2>1 DEF Operations
<1>8. GoesWith(p, o)
  BY <1>6 DEF Unlock
<1>9. Onward(p) /\ Others(p) /\ op' \in [Procs -> Operations]
  BY <1>1, <1>3, <1>4, <1>5, <1>7, <1>8, GoesOn
<1>10. (\A x \in Telling : ~At(p, x)) /\ ~BedAt(p, {"permitted"}) /\ ~At(p, "record")
  BY <1>4 DEF Telling, BedAt
<1> QED
  BY <1>2, <1>3, <1>9, <1>10, QuietKeeps DEF Moves

\* Claim: the lifecycle lock at once, or an exception.
LEMMA ClaimKeeps == ASSUME ControlIInv, NEW p \in Procs, Claim(p) PROVE ControlIInv'
<1>1. ControlTyped /\ ScriptOf(p) /\ At(p, "claim")
  BY DEF ControlIInv, Orders, Claim
<1>2. Quiet
  BY <1>1 DEF Claim, Quiet, platform, ControlTyped
<1>3. CASE lifecycle = Nobody /\ lifecycle' = p /\ Goes(p) /\ UNCHANGED intent
  <2>1. Mine(p) /\ intent' \in Procs \cup {Nobody}
    BY <1>1, <1>3 DEF Mine, ControlTyped
  <2>2. op[p].todo # <<>> /\ \A y : At(p, y) => y = "claim"
    BY <1>1 DEF At
  <2>3. issued' = issued /\ op[p].lease <= issued
    BY <1>1, <1>2 DEF Quiet, authority, ScriptOf
  <2>4. Onward(p) /\ Others(p) /\ op' \in [Procs -> Operations]
    BY <1>1, <1>3, <2>1, <2>2, <2>3, JustGoesOn
  <2>5. (\A y \in Telling : ~At(p, y)) /\ ~BedAt(p, {"permitted"}) /\ ~At(p, "record")
    BY <2>2 DEF Telling, BedAt
  <2> QED
    BY <1>2, <1>3, <2>1, <2>4, <2>5, QuietKeeps DEF Moves
<1>4. CASE Raises(p)
  BY <1>1, <1>2, <1>4, QuietFailing
<1> QED
  BY <1>3, <1>4 DEF Claim

\* Reap: the lifecycle lock, after a launch under way, or an exception.
LEMMA ReapKeeps == ASSUME ControlIInv, NEW p \in Procs, Reap(p) PROVE ControlIInv'
<1>1. ControlTyped /\ ScriptOf(p) /\ At(p, "reap")
  BY DEF ControlIInv, Orders, Reap
<1>2. Quiet
  BY <1>1 DEF Reap, Quiet, platform, ControlTyped
<1>3. CASE lifecycle = Nobody /\ lifecycle' = p /\ Goes(p) /\ UNCHANGED intent
  <2>1. Mine(p) /\ intent' \in Procs \cup {Nobody}
    BY <1>1, <1>3 DEF Mine, ControlTyped
  <2>2. op[p].todo # <<>> /\ \A y : At(p, y) => y = "reap"
    BY <1>1 DEF At
  <2>3. issued' = issued /\ op[p].lease <= issued
    BY <1>1, <1>2 DEF Quiet, authority, ScriptOf
  <2>4. Onward(p) /\ Others(p) /\ op' \in [Procs -> Operations]
    BY <1>1, <1>3, <2>1, <2>2, <2>3, JustGoesOn
  <2>5. (\A y \in Telling : ~At(p, y)) /\ ~BedAt(p, {"permitted"}) /\ ~At(p, "record")
    BY <2>2 DEF Telling, BedAt
  <2> QED
    BY <1>2, <1>3, <2>1, <2>4, <2>5, QuietKeeps DEF Moves
<1>4. CASE Raises(p)
  BY <1>1, <1>2, <1>4, QuietFailing
<1> QED
  BY <1>3, <1>4 DEF Reap

\* Serve: the service is started, or is on its way out and the resume raises.
LEMMA ServeKeeps == ASSUME ControlIInv, NEW p \in Procs, Serve(p) PROVE ControlIInv'
<1>1. ControlTyped /\ At(p, "serve")
  BY DEF ControlIInv, Serve
<1>2. Quiet
  BY <1>1 DEF Serve, Quiet, platform, ControlTyped
<1>3. "serve" \notin {"lock", "reap", "claim", "permitted"} \cup Telling
  BY DEF Telling
<1>4. (Goes(p) /\ UNCHANGED locks) \/ Raises(p)
  BY DEF Serve
<1> QED
  BY <1>1, <1>2, <1>3, <1>4, QuietGoing, QuietFailing

\* Inspect: a reset looks, and goes on or raises.
LEMMA InspectKeeps == ASSUME ControlIInv, NEW p \in Procs, Inspect(p) PROVE ControlIInv'
<1>1. ControlTyped /\ At(p, "inspect")
  BY DEF ControlIInv, Inspect
<1>2. Quiet
  BY <1>1 DEF Inspect, Quiet, platform, ControlTyped
<1>3. "inspect" \notin {"lock", "reap", "claim", "permitted"} \cup Telling
  BY DEF Telling
<1>4. (Goes(p) /\ UNCHANGED locks) \/ Raises(p)
  BY DEF Inspect
<1> QED
  BY <1>1, <1>2, <1>3, <1>4, QuietGoing, QuietFailing

\* Admit: a launch looks under the operator lock, and goes on or raises.
LEMMA AdmitKeeps == ASSUME ControlIInv, NEW p \in Procs, Admit(p) PROVE ControlIInv'
<1>1. ControlTyped /\ At(p, "admit")
  BY DEF ControlIInv, Admit
<1>2. Quiet
  BY <1>1 DEF Admit, Quiet, platform, ControlTyped
<1>3. "admit" \notin {"lock", "reap", "claim", "permitted"} \cup Telling
  BY DEF Telling
<1>4. (Goes(p) /\ UNCHANGED locks) \/ Raises(p)
  BY DEF Admit
<1> QED
  BY <1>1, <1>2, <1>3, <1>4, QuietGoing, QuietFailing

\* Recheck: the last look at the pause marker before the child.
LEMMA RecheckKeeps == ASSUME ControlIInv, NEW p \in Procs, Recheck(p) PROVE ControlIInv'
<1>1. ControlTyped /\ At(p, "recheck")
  BY DEF ControlIInv, Recheck
<1>2. Quiet
  BY <1>1 DEF Recheck, Quiet, platform, ControlTyped
<1>3. "recheck" \notin {"lock", "reap", "claim", "permitted"} \cup Telling
  BY DEF Telling
<1>4. (Goes(p) /\ UNCHANGED locks) \/ Raises(p)
  BY DEF Recheck
<1> QED
  BY <1>1, <1>2, <1>3, <1>4, QuietGoing, QuietFailing

\* Watch: the new agent plays, or the upgrade raises.
LEMMA WatchKeeps == ASSUME ControlIInv, NEW p \in Procs, Watch(p) PROVE ControlIInv'
<1>1. ControlTyped /\ At(p, "watch")
  BY DEF ControlIInv, Watch
<1>2. Quiet
  BY <1>1 DEF Watch, Quiet, platform, ControlTyped
<1>3. "watch" \notin {"lock", "reap", "claim", "permitted"} \cup Telling
  BY DEF Telling
<1>4. (Goes(p) /\ UNCHANGED locks) \/ Raises(p)
  BY DEF Watch
<1> QED
  BY <1>1, <1>2, <1>3, <1>4, QuietGoing, QuietFailing

\* Qualify: the upgrade notes the agent it replaces.
LEMMA QualifyKeeps == ASSUME ControlIInv, NEW p \in Procs, Qualify(p) PROVE ControlIInv'
<1>1. ControlTyped /\ At(p, "qualify") /\ op[p] \in Operations
  BY DEF ControlIInv, ControlTyped, Qualify
<1>2. Quiet
  BY <1>1 DEF Qualify, Quiet, platform, ControlTyped
<1>3. "qualify" \notin {"lock", "reap", "claim", "permitted"} \cup Telling
  BY DEF Telling
<1>4. (GoesWith(p, [op[p] EXCEPT !.old = sup.lease]) /\ UNCHANGED locks) \/ Raises(p)
  BY DEF Qualify
<1>5. PICK o \in Operations : o = [op[p] EXCEPT !.old = sup.lease]
  BY <1>1 DEF Operations, ControlTyped
<1>6. /\ o.todo = op[p].todo /\ o.cmd = op[p].cmd /\ o.inside = op[p].inside
      /\ o.torn = op[p].torn /\ o.lease = op[p].lease
  BY <1>1, <1>5 DEF Operations
<1> QED
  BY <1>1, <1>2, <1>3, <1>4, <1>5, <1>6, QuietGoingWith, QuietFailing

\* Reserve: the upgrade notes that it admits an agent.
LEMMA ReserveKeeps == ASSUME ControlIInv, NEW p \in Procs, Reserve(p) PROVE ControlIInv'
<1>1. ControlTyped /\ At(p, "reserve") /\ op[p] \in Operations
  BY DEF ControlIInv, ControlTyped, Reserve
<1>2. Quiet
  BY <1>1 DEF Reserve, Quiet, platform, ControlTyped
<1>3. "reserve" \notin {"lock", "reap", "claim", "permitted"} \cup Telling
  BY DEF Telling
<1>4. (GoesWith(p, [op[p] EXCEPT !.admitted = TRUE]) /\ UNCHANGED locks) \/ Raises(p)
  BY DEF Reserve
<1>5. PICK o \in Operations : o = [op[p] EXCEPT !.admitted = TRUE]
  BY <1>1 DEF Operations, ControlTyped
<1>6. /\ o.todo = op[p].todo /\ o.cmd = op[p].cmd /\ o.inside = op[p].inside
      /\ o.torn = op[p].torn /\ o.lease = op[p].lease
  BY <1>1, <1>5 DEF Operations
<1> QED
  BY <1>1, <1>2, <1>3, <1>4, <1>5, <1>6, QuietGoingWith, QuietFailing

\* Examine: the cleanup begins on what the attempt itself recorded, or raises.
LEMMA ExamineKeeps == ASSUME ControlIInv, NEW p \in Procs, Examine(p) PROVE ControlIInv'
<1>1. ControlTyped /\ At(p, "examine") /\ op[p] \in Operations
  BY DEF ControlIInv, ControlTyped, Examine
<1>2. Quiet
  BY <1>1 DEF Examine, Quiet, platform, ControlTyped
<1>3. "examine" \notin {"lock", "reap", "claim", "permitted"} \cup Telling
  BY DEF Telling
<1>4. (GoesWith(p, [op[p] EXCEPT !.admitted = FALSE]) /\ UNCHANGED locks) \/ Raises(p)
  BY DEF Examine
<1>5. PICK o \in Operations : o = [op[p] EXCEPT !.admitted = FALSE]
  BY <1>1 DEF Operations, ControlTyped
<1>6. /\ o.todo = op[p].todo /\ o.cmd = op[p].cmd /\ o.inside = op[p].inside
      /\ o.torn = op[p].torn /\ o.lease = op[p].lease
  BY <1>1, <1>5 DEF Operations
<1> QED
  BY <1>1, <1>2, <1>3, <1>4, <1>5, <1>6, QuietGoingWith, QuietFailing

\* RollBack: the upgrade notes its one rollback, or raises.
LEMMA RollBackKeeps == ASSUME ControlIInv, NEW p \in Procs, RollBack(p) PROVE ControlIInv'
<1>1. ControlTyped /\ At(p, "roll-back") /\ op[p] \in Operations
  BY DEF ControlIInv, ControlTyped, RollBack
<1>2. Quiet
  BY <1>1 DEF RollBack, Quiet, platform, ControlTyped
<1>3. "roll-back" \notin {"lock", "reap", "claim", "permitted"} \cup Telling
  BY DEF Telling
<1>4. (GoesWith(p, [op[p] EXCEPT !.part = 3]) /\ UNCHANGED locks) \/ Raises(p)
  BY DEF RollBack
<1>5. PICK o \in Operations : o = [op[p] EXCEPT !.part = 3]
  <2>1. [op[p] EXCEPT !.part = 3] \in Operations
    BY ONLY <1>1 DEF Operations
  <2> QED
    BY <2>1
<1>6. /\ o.todo = op[p].todo /\ o.cmd = op[p].cmd /\ o.inside = op[p].inside
      /\ o.torn = op[p].torn /\ o.lease = op[p].lease
  BY <1>1, <1>5 DEF Operations
<1> QED
  BY <1>1, <1>2, <1>3, <1>4, <1>5, <1>6, QuietGoingWith, QuietFailing

\* Finish: the command returns without a word on what stands.
LEMMA FinishKeeps == ASSUME ControlIInv, NEW p \in Procs, Finish(p) PROVE ControlIInv'
<1>1. ControlTyped /\ At(p, "finish") /\ Ends(p)
  BY DEF ControlIInv, Finish
<1>2. Quiet
  BY <1>1 DEF Finish, Quiet, platform, ControlTyped
<1> QED
  BY <1>1, <1>2, QuietEnding

\* Abort: the command fails without a word on what stands.
LEMMA AbortKeeps == ASSUME ControlIInv, NEW p \in Procs, Abort(p) PROVE ControlIInv'
<1>1. ControlTyped /\ At(p, "abort") /\ Ends(p)
  BY DEF ControlIInv, Abort
<1>2. Quiet
  BY <1>1 DEF Abort, Quiet, platform, ControlTyped
<1> QED
  BY <1>1, <1>2, QuietEnding

\* Permitted: a session launch goes on only where no marker is, which is what it knows from then on.
LEMMA PermittedKeeps == ASSUME ControlIInv, NEW p \in Procs, Permitted(p) PROVE ControlIInv'
<1>1. ControlTyped /\ At(p, "permitted")
  BY DEF ControlIInv, Permitted
<1>2. Quiet /\ issued' = issued
  BY <1>1 DEF Permitted, Quiet, platform, authority, ControlTyped
<1>3. CASE Raises(p)
  BY <1>1, <1>2, <1>3, QuietFailing
<1>4. CASE Goes(p) /\ UNCHANGED locks /\ ~pause
  <2>1. Moves(p) /\ op' \in [Procs -> Operations]
    BY <1>1, <1>2, <1>4, Going
  <2>2. intent' \in Procs \cup {Nobody} /\ lifecycle' \in Procs \cup {Nobody}
    BY <1>1, <1>4 DEF ControlTyped, locks
  <2>3. (\A x \in Telling : ~At(p, x)) /\ ~At(p, "record")
    BY <1>1 DEF At, Telling
  <2> QED
    BY <1>2, <1>4, <2>1, <2>2, <2>3, QuietKeeps
<1> QED
  BY <1>3, <1>4 DEF Permitted, Latched

\* What is not touched stays.
LEMMA Untouched ==
  ASSUME ControlIInv, UNCHANGED <<op, locks>>, NEW p \in Procs
  PROVE  /\ Others(p) /\ Same(p) /\ Moves(p) /\ op' \in [Procs -> Operations]
         /\ intent' \in Procs \cup {Nobody} /\ lifecycle' \in Procs \cup {Nobody}
BY DEF ControlIInv, ControlTyped, Others, Same, Moves, locks

\* Halt: an emergency stop asks the service to stop, or goes on.
LEMMA HaltKeeps == ASSUME ControlIInv, NEW p \in Procs, Halt(p) PROVE ControlIInv'
<1>1. ControlTyped /\ At(p, "halt")
  BY DEF ControlIInv, Halt
<1>2. Quiet
  BY <1>1 DEF Halt, HaltService, Quiet, ControlTyped
<1>3. "halt" \notin {"lock", "reap", "claim", "permitted"} \cup Telling
  BY DEF Telling
<1>4. CASE Goes(p)
  BY <1>1, <1>2, <1>3, <1>4, QuietGoing DEF Halt
<1>5. CASE UNCHANGED op
  <2>1. /\ Moves(p) /\ op' \in [Procs -> Operations]
        /\ intent' \in Procs \cup {Nobody} /\ lifecycle' \in Procs \cup {Nobody}
    BY <1>5, Untouched DEF Halt
  <2>2. (\A x \in Telling : ~At(p, x)) /\ ~BedAt(p, {"permitted"}) /\ ~At(p, "record")
    BY <1>1 DEF At, BedAt, Telling
  <2> QED
    BY <1>2, <2>1, <2>2, QuietKeeps
<1> QED
  BY <1>4, <1>5 DEF Halt

\* Alone: the local resume goes on, or takes up the script of the one inside the supervisor.
LEMMA AloneKeeps == ASSUME ControlIInv, NEW p \in Procs, Alone(p) PROVE ControlIInv'
<1>1. ControlTyped /\ ScriptOf(p) /\ At(p, "alone") /\ op[p] \in Operations
  BY DEF ControlIInv, ControlTyped, Orders, Alone
<1>2. Quiet
  BY <1>1 DEF Alone, Quiet, platform, ControlTyped
<1>3. "alone" \notin {"lock", "reap", "claim", "permitted"} \cup Telling
  BY DEF Telling
<1>4. CASE Goes(p) /\ UNCHANGED intent
  BY <1>1, <1>2, <1>3, <1>4, QuietGoing DEF Alone, locks
<1>5. CASE /\ op' = [op EXCEPT ![p].todo = ResumeInside, ![p].inside = TRUE]
           /\ intent' = Freed(intent, p)
  <2>1. op[p].cmd = "resume"
    BY <1>1, WhoDoesWhat
  <2>2. PICK s \in Seq(StepNames) : s = ResumeInside /\ Fresh(s, "resume")
    BY ResumeInsideIsFresh DEF Fresh
  <2>3. PICK o \in Operations : o = [op[p] EXCEPT !.todo = s, !.inside = TRUE]
    BY <1>1, <2>2 DEF Operations
  <2>4. o.todo = s /\ o.cmd = op[p].cmd /\ o.lease = op[p].lease
    BY <1>1, <2>3 DEF Operations
  <2>5. op' = [op EXCEPT ![p] = o]
    <3>1. op \in [Procs -> Operations]
      BY <1>1 DEF ControlTyped
    <3> QED
      BY <1>5, <2>2, <2>3, <3>1 DEF Operations
  <2>6. op' \in [Procs -> Operations] /\ op'[p] = o /\ \A q \in Procs \ {p} : op'[q] = op[q]
    <3>1. op \in [Procs -> Operations]
      BY <1>1 DEF ControlTyped
    <3> QED
      BY <2>5, <3>1
  <2>7. Mine(p) /\ intent' \in Procs \cup {Nobody} /\ lifecycle' \in Procs \cup {Nobody}
    BY <1>1, <1>5 DEF Mine, ControlTyped, Freed, Alone
  <2>8. Anew(p)
    BY <2>1, <2>2, <2>4, <2>6 DEF Anew, TwoForms
  <2>9. Others(p)
    BY <2>6, <2>7, OthersStay
  <2>10. Moves(p) /\ ~Proceeds(p) /\ ~At(p, "record")
    BY <1>1, <2>8, <2>9 DEF Moves, Proceeds, At
  <2> QED
    BY <1>2, <2>6, <2>7, <2>10, QuietKeeps
<1> QED
  BY <1>4, <1>5 DEF Alone

\* LoopBegins: start.sh begins its next command.
LEMMA LoopBeginsKeeps == ASSUME ControlIInv, LoopBegins PROVE ControlIInv'
<1>1. ControlTyped /\ Loop \in Procs
  BY DEF ControlIInv, Procs
<1>2. Quiet /\ UNCHANGED locks
  BY <1>1 DEF LoopBegins, Quiet, platform, ControlTyped
<1>3. PICK c \in {"tidy", "replace", "bed", "run"} : Begins(Loop, c)
  BY <1>1 DEF LoopBegins, ControlTyped
<1>4. c \in CommandNames
  BY DEF CommandNames
<1> QED
  BY <1>1, <1>2, <1>3, <1>4, QuietBeginning DEF LoopBegins

\* LoopLeaves: the unit of start.sh stops the runtime.
LEMMA LoopLeavesKeeps == ASSUME ControlIInv, LoopLeaves PROVE ControlIInv'
<1>1. ControlTyped /\ Loop \in Procs
  BY DEF ControlIInv, Procs
<1>2. Quiet /\ UNCHANGED locks
  BY <1>1 DEF LoopLeaves, Quiet, ControlTyped
<1>3. "leave" \in CommandNames
  BY DEF CommandNames
<1> QED
  BY <1>1, <1>2, <1>3, QuietBeginning DEF LoopLeaves

\* Exit: the service is off.
LEMMA ExitKeeps == ASSUME ControlIInv, Exit PROVE ControlIInv'
<1>1. ControlTyped /\ Loop \in Procs /\ At(Loop, "exit") /\ Ends(Loop)
  BY DEF ControlIInv, Procs, Exit
<1>2. Quiet
  BY <1>1 DEF Exit, Quiet, ControlTyped
<1> QED
  BY <1>1, <1>2, QuietEnding

\* ClientBegins: a client begins a command, knowing nothing.
LEMMA ClientBeginsKeeps ==
  ASSUME ControlIInv, NEW p \in Clients, ClientBegins(p) PROVE ControlIInv'
<1>1. ControlTyped /\ p \in Procs
  BY DEF ControlIInv, Procs
<1>2. Quiet /\ UNCHANGED locks
  BY <1>1 DEF ClientBegins, Quiet, platform, ControlTyped
<1>3. PICK c \in Commands : Begins(p, c)
  BY DEF ClientBegins
<1>4. c \in CommandNames
  BY ControlAssumption DEF ControlAssumption, CommandNames
<1> QED
  BY <1>1, <1>2, <1>3, <1>4, QuietBeginning DEF ClientBegins

(***************************************************************************)
(* The steps that take away: a lease, an agent, a session.                 *)
(***************************************************************************)
SupOK(n) ==
  /\ n \in [at : {"absent", "idle", "armed", "running", "paused", "failed"}, lease : Nat]
  /\ (n.lease # NoLease) = (n.at \in {"armed", "running"})

Milder ==
  /\ UNCHANGED <<emergency, issued, history>>
  /\ pause' \in BOOLEAN /\ (pause => pause')
  /\ late' \in BOOLEAN /\ SupOK(sup') /\ (sup'.lease = sup.lease \/ sup'.lease = NoLease)
  /\ agents' \subseteq agents /\ lost \subseteq lost' /\ lost' \subseteq 1 .. issued
  /\ record' = record \/ (record' = NoLease /\ record \notin agents')
  /\ session' \in BOOLEAN /\ (session' => session)
  /\ service' \in {"none", "off", "on", "halting"} /\ stage' \in {"tidy", "bed", "run", "watch"}

\* A milder step of p keeps the invariant, if what p is about to know of the step is so.
LEMMA MilderKeeps ==
  ASSUME ControlIInv, NEW p \in Procs, Moves(p), Milder, op' \in [Procs -> Operations],
         intent' \in Procs \cup {Nobody}, lifecycle' \in Procs \cup {Nobody},
         Proceeds(p) =>
           /\ \A x \in {"arm", "spawn", "record"} : ~At(p, x)
           /\ At(p, "latch") => pause' \/ op'[p].torn
           /\ At(p, "revoke") \/ At(p, "disarm") \/ At(p, "terminate") => sup'.lease = NoLease
           /\ At(p, "close") => ~session'
           /\ BedAt(p, {"permitted"}) => ~pause,
         Anew(p) /\ At(p, "record") => op[p].lease \notin agents' \ lost'
  PROVE  ControlIInv'
<1>1. ControlTyped
  BY DEF ControlIInv
<1>2. /\ emergency' = emergency /\ issued' = issued
      /\ promised' = promised /\ owed' = owed /\ engaged' = engaged
  BY DEF Milder, history
<1>3. issued \in Nat /\ sup.lease \in Nat /\ sup.lease <= issued /\ record \in 0 .. issued
  BY <1>1, ControlAssumption DEF ControlTyped, ControlAssumption
<1>4. sup'.lease <= issued' /\ issued <= issued' /\ record' \in 0 .. issued'
  BY <1>2, <1>3 DEF Milder, NoLease
<1>5. ControlTyped'
  BY <1>1, <1>2, <1>4 DEF ControlTyped, Milder, SupOK
<1>6. Orderly(p)
  BY <1>2, <1>4 DEF Orderly, Milder
<1>7. Accountable(p)
  BY DEF Accountable, Milder
<1>8. Standing(p)
  BY <1>2 DEF Standing, Word, Milder
<1>9. Owing
  BY <1>2 DEF Owing, Latched, Milder
<1> QED
  BY <1>5, <1>6, <1>7, <1>8, <1>9, StepKeeps

\* A milder step that goes on.
LEMMA MildGoing ==
  ASSUME ControlIInv, NEW p \in Procs, NEW x, At(p, x), Goes(p), UNCHANGED locks, Milder,
         x \notin {"lock", "reap", "claim", "permitted", "arm", "spawn", "record", "latch", "close"},
         x \in {"revoke", "disarm", "terminate"} => sup'.lease = NoLease
  PROVE  ControlIInv'
<1>1. issued' = issued
  BY DEF Milder
<1>2. Onward(p) /\ Moves(p) /\ op' \in [Procs -> Operations]
  BY <1>1, Going
<1>3. intent' \in Procs \cup {Nobody} /\ lifecycle' \in Procs \cup {Nobody}
  BY DEF ControlIInv, ControlTyped, locks
<1>4. \A y : At(p, y) => y = x
  BY OneStep
<1>5. /\ \A y \in {"arm", "spawn", "record", "latch", "close"} : ~At(p, y)
      /\ ~BedAt(p, {"permitted"})
      /\ At(p, "revoke") \/ At(p, "disarm") \/ At(p, "terminate") => sup'.lease = NoLease
  BY <1>4 DEF BedAt
<1> QED
  BY <1>2, <1>3, <1>5, MilderKeeps

\* A milder step that goes on with another note in its record.
LEMMA MildGoingWith ==
  ASSUME ControlIInv, NEW p \in Procs, NEW x, At(p, x), UNCHANGED locks, Milder,
         x \notin {"lock", "reap", "claim", "permitted", "arm", "spawn", "record", "latch", "close"},
         x \in {"revoke", "disarm", "terminate"} => sup'.lease = NoLease,
         NEW o \in Operations, o.todo = op[p].todo, o.cmd = op[p].cmd, o.inside = op[p].inside,
         o.torn = op[p].torn, o.lease = op[p].lease, GoesWith(p, o)
  PROVE  ControlIInv'
<1>1. issued' = issued
  BY DEF Milder
<1>2. Onward(p) /\ Moves(p) /\ op' \in [Procs -> Operations]
  BY <1>1, GoingWith
<1>3. intent' \in Procs \cup {Nobody} /\ lifecycle' \in Procs \cup {Nobody}
  BY DEF ControlIInv, ControlTyped, locks
<1>4. \A y : At(p, y) => y = x
  BY OneStep
<1>5. /\ \A y \in {"arm", "spawn", "record", "latch", "close"} : ~At(p, y)
      /\ ~BedAt(p, {"permitted"})
      /\ At(p, "revoke") \/ At(p, "disarm") \/ At(p, "terminate") => sup'.lease = NoLease
  BY <1>4 DEF BedAt
<1> QED
  BY <1>2, <1>3, <1>5, MilderKeeps

\* A milder step that raises.
LEMMA MildFailing ==
  ASSUME ControlIInv, NEW p \in Procs, NEW x, At(p, x), Raises(p), Milder, x # "record"
  PROVE  ControlIInv'
<1>1. ControlTyped
  BY DEF ControlIInv
<1>2. Anew(p) /\ Moves(p) /\ op' \in [Procs -> Operations]
      /\ lifecycle' = lifecycle /\ intent' \in Procs \cup {Nobody}
  BY Failing
<1>3. lifecycle' \in Procs \cup {Nobody} /\ ~Proceeds(p) /\ ~At(p, "record")
  BY <1>1, <1>2 DEF ControlTyped, Proceeds, At
<1> QED
  BY <1>2, <1>3, MilderKeeps

\* A script is never its own rest.
LEMMA TailDiffers == ASSUME NEW s \in Seq(StepNames), s # <<>>, NEW t, t = Tail(s) PROVE t # s
<1>1. Len(t) = Len(s) - 1 /\ Len(s) \in Nat \ {0}
  BY TailFacts
<1>2. SUFFICES ASSUME t = s PROVE FALSE
  OBVIOUS
<1>3. Len(t) = Len(s)
  BY ONLY <1>2
<1>4. Len(t) = Len(s) - 1 /\ Len(s) \in Int
  BY <1>1
<1> QED
  BY ONLY <1>3, <1>4

\* A process that is left alone does not go on.
LEMMA StillSame ==
  ASSUME ControlTyped, NEW p \in Procs, Same(p)
  PROVE  ~Onward(p) /\ ~(Anew(p) /\ At(p, "record"))
<1>1. ~Onward(p)
  <2>1. op[p].todo \in Seq(StepNames) /\ op'[p].todo = op[p].todo
    BY DEF ControlTyped, Operations, Same
  <2> QED
    BY <2>1, TailDiffers DEF Onward
<1>2. ~(Anew(p) /\ At(p, "record"))
  <2>1. SUFFICES ASSUME Anew(p), At(p, "record") PROVE FALSE
    OBVIOUS
  <2>2. Fresh(op[p].todo, op[p].cmd) /\ op[p].todo # <<>> /\ op[p].todo \in Seq(StepNames)
    BY <2>1 DEF Anew, Same, At, ControlTyped, Operations
  <2>3. op[p].todo[1] = "record"
    BY <2>1, <2>2, TailFacts DEF At
  <2> QED
    BY <2>2, <2>3 DEF Fresh, Later, Raising
<1> QED
  BY <1>1, <1>2

\* What the world does.
LEMMA MildWorld ==
  ASSUME ControlIInv, UNCHANGED <<op, locks>>, Milder PROVE ControlIInv'
<1>1. Loop \in Procs /\ ControlTyped
  BY DEF Procs, ControlIInv
<1>2. /\ Same(Loop) /\ Moves(Loop) /\ op' \in [Procs -> Operations]
      /\ intent' \in Procs \cup {Nobody} /\ lifecycle' \in Procs \cup {Nobody}
  BY <1>1, Untouched
<1>3. ~Proceeds(Loop) /\ ~(Anew(Loop) /\ At(Loop, "record"))
  BY <1>1, <1>2, StillSame DEF Proceeds
<1> QED
  BY <1>1, <1>2, <1>3, MilderKeeps

\* What a supervisor becomes that loses its lease.
LEMMA Leaseless ==
  ASSUME ControlTyped
  PROVE  /\ SupOK(Paused) /\ SupOK(Disarmed) /\ SupOK(Absent) /\ SupOK(sup)
         /\ Paused.lease = NoLease /\ Disarmed.lease = NoLease /\ Absent.lease = NoLease
         /\ SupOK([at |-> "failed", lease |-> NoLease]) /\ SupOK([Absent EXCEPT !.at = "idle"])
         /\ [Absent EXCEPT !.at = "idle"].lease = NoLease
         /\ sup.at = "armed" => SupOK([sup EXCEPT !.at = "running"])
         /\ sup.at \in {"paused", "absent", "idle"} => SupOK([sup EXCEPT !.at = "idle"])
         /\ \A a : [sup EXCEPT !.at = a].lease = sup.lease
<1>1. sup \in [at : {"absent", "idle", "armed", "running", "paused", "failed"}, lease : Nat]
      /\ (sup.lease # NoLease) = (sup.at \in {"armed", "running"})
  BY DEF ControlTyped
<1> QED
  BY <1>1 DEF SupOK, Paused, Disarmed, Absent, NoLease

\* The end of the supervisor: its lease goes with it, and who ran inside it starts over or fails.
LEMMA GoneKeeps ==
  ASSUME ControlIInv, NEW p \in Procs, NEW x \in {"revoke", "terminate", "retire", "disarm"}, At(p, x),
         SupervisorGone(p), UNCHANGED <<markers, players, platform, history>>
  PROVE  ControlIInv'
<1>1. ControlTyped /\ \A q \in Procs : ScriptOf(q)
  BY DEF ControlIInv, Orders
<1>2. op[p].todo # <<>> /\ \A y : At(p, y) => y = x
  BY DEF At
<1>3. /\ Onward(p) /\ Others(p) /\ op' \in [Procs -> Operations]
      /\ intent' \in Procs \cup {Nobody} /\ lifecycle' = lifecycle /\ issued' = issued
      /\ sup' = Absent /\ late' = FALSE
  BY <1>1, <1>2, GoneMoves
<1>4. SupOK(sup') /\ sup'.lease = NoLease
  BY <1>1, <1>3, Leaseless
<1>5. Milder
  BY <1>1, <1>3, <1>4 DEF Milder, markers, players, platform, ControlTyped
<1>6. lifecycle' \in Procs \cup {Nobody} /\ Moves(p)
  BY <1>1, <1>3 DEF ControlTyped, Moves
<1>7. /\ \A y \in {"arm", "spawn", "record", "latch", "close"} : ~At(p, y)
      /\ ~BedAt(p, {"permitted"})
  BY <1>2 DEF BedAt
<1> QED
  BY <1>3, <1>4, <1>5, <1>6, <1>7, MilderKeeps

\* Latch: the marker is there or the command is torn, and so reports nothing.
LEMMA LatchKeeps == ASSUME ControlIInv, NEW p \in Procs, Latch(p) PROVE ControlIInv'
<1>1. ControlTyped /\ At(p, "latch") /\ op[p] \in Operations
  BY DEF ControlIInv, ControlTyped, Latch
<1>2. /\ pause' \in BOOLEAN /\ (pause => pause') /\ SupOK(sup) /\ issued' = issued
  BY <1>1, Leaseless DEF Latch, ControlTyped, authority
<1>3. Milder
  BY <1>1, <1>2 DEF Latch, Milder, authority, players, platform, ControlTyped
<1>4. \A y : At(p, y) => y = "latch"
  BY <1>1, OneStep
<1>5. (\A y \in {"arm", "spawn", "record", "revoke", "disarm", "terminate", "close"} : ~At(p, y))
      /\ ~BedAt(p, {"permitted"})
  BY <1>4 DEF BedAt
<1>6. CASE pause' /\ Goes(p) /\ UNCHANGED locks
  <2>1. Onward(p) /\ Moves(p) /\ op' \in [Procs -> Operations]
    BY <1>1, <1>2, <1>6, Going
  <2>2. intent' \in Procs \cup {Nobody} /\ lifecycle' \in Procs \cup {Nobody}
    BY <1>1, <1>6 DEF ControlTyped, locks
  <2> QED
    BY <1>3, <1>5, <1>6, <2>1, <2>2, MilderKeeps
<1>7. CASE GoesWith(p, [op[p] EXCEPT !.torn = TRUE]) /\ UNCHANGED locks
  <2>1. PICK o \in Operations : o = [op[p] EXCEPT !.torn = TRUE]
    BY <1>1 DEF Operations
  <2>2. /\ o.todo = op[p].todo /\ o.cmd = op[p].cmd /\ o.inside = op[p].inside
        /\ o.torn = TRUE /\ o.lease = op[p].lease
    BY <1>1, <2>1 DEF Operations
  <2>3. Moves(p) /\ op' \in [Procs -> Operations] /\ op'[p].torn = TRUE
    BY <1>1, <1>2, <1>7, <2>1, <2>2, GoingWith
  <2>4. intent' \in Procs \cup {Nobody} /\ lifecycle' \in Procs \cup {Nobody}
    BY <1>1, <1>7 DEF ControlTyped, locks
  <2> QED
    BY <1>3, <1>5, <2>3, <2>4, MilderKeeps
<1>8. CASE Raises(p)
  BY <1>1, <1>3, <1>8, MildFailing
<1> QED
  BY <1>6, <1>7, <1>8 DEF Latch

\* Revoke: in the supervisor, or by its end, the lease is gone.
LEMMA RevokeKeeps == ASSUME ControlIInv, NEW p \in Procs, Revoke(p) PROVE ControlIInv'
<1>1. ControlTyped /\ At(p, "revoke")
  BY DEF ControlIInv, Revoke
<1>2. CASE sup' = Paused /\ Goes(p) /\ UNCHANGED <<locks, late, issued>>
  <2>1. SupOK(sup') /\ sup'.lease = NoLease
    BY <1>1, <1>2, Leaseless
  <2>2. Milder
    BY <1>1, <1>2, <2>1 DEF Revoke, Milder, markers, players, platform, ControlTyped
  <2> QED
    BY <1>1, <1>2, <2>1, <2>2, MildGoing
<1>3. CASE SupervisorGone(p)
  BY <1>1, <1>3, GoneKeeps DEF Revoke
<1> QED
  BY <1>2, <1>3 DEF Revoke

\* Terminate: the supervisor and its lease are gone.
LEMMA TerminateKeeps == ASSUME ControlIInv, NEW p \in Procs, Terminate(p) PROVE ControlIInv'
BY GoneKeeps DEF Terminate

\* Retire: a stop inside the supervisor ends it.
LEMMA RetireKeeps == ASSUME ControlIInv, NEW p \in Procs, Retire(p) PROVE ControlIInv'
<1>1. ControlTyped /\ At(p, "retire")
  BY DEF ControlIInv, Retire
<1>2. CASE Goes(p) /\ UNCHANGED <<authority, locks>>
  <2>1. Quiet /\ UNCHANGED locks
    BY <1>1, <1>2 DEF Retire, Quiet, platform, ControlTyped
  <2>2. "retire" \notin {"lock", "reap", "claim", "permitted"} \cup Telling
    BY DEF Telling
  <2> QED
    BY <1>1, <1>2, <2>1, <2>2, QuietGoing
<1>3. CASE SupervisorGone(p)
  BY <1>1, <1>3, GoneKeeps DEF Retire
<1> QED
  BY <1>2, <1>3 DEF Retire

\* A launch that ends with its disarm refused.
LEMMA GivesUp ==
  ASSUME ControlIInv, NEW p \in Procs, op[p].cmd = "run",
         op' = [op EXCEPT ![p].todo = <<"abort">>], UNCHANGED locks
  PROVE  /\ Moves(p) /\ Anew(p) /\ op' \in [Procs -> Operations]
         /\ intent' \in Procs \cup {Nobody} /\ lifecycle' \in Procs \cup {Nobody}
<1>1. /\ ControlTyped /\ ScriptOf(p) /\ op \in [Procs -> Operations]
      /\ intent' = intent /\ lifecycle' = lifecycle
  BY DEF ControlIInv, Orders, ControlTyped, locks
<1>2. <<"abort">> \in Seq(Plain)
  BY DEF Plain
<1>3. Fresh(<<"abort">>, "run")
  BY <1>2, PlainIsFresh
<1>4. <<"abort">> \in Seq(StepNames)
  BY <1>3 DEF Fresh
<1>5. PICK s \in Seq(StepNames) : s = <<"abort">>
  BY <1>4
<1>6. op'[p] = [op[p] EXCEPT !.todo = s] /\ op[p] \in Operations
  BY <1>1, <1>5
<1>7. /\ op'[p] \in Operations /\ op'[p].todo = s /\ op'[p].cmd = "run"
      /\ op'[p].inside = op[p].inside /\ op'[p].lease = op[p].lease
  <2>1. PICK o \in Operations : o = op[p]
    BY <1>6
  <2>2. PICK n : n = [o EXCEPT !.todo = s]
    OBVIOUS
  <2>3. n \in Operations /\ n.todo = s /\ n.cmd = o.cmd /\ n.inside = o.inside /\ n.lease = o.lease
    BY <2>1, <2>2 DEF Operations
  <2> QED
    BY <1>6, <2>1, <2>2, <2>3
<1>8. Anew(p)
  BY <1>1, <1>3, <1>5, <1>7 DEF Anew, ScriptOf
<1>9. \A q \in Procs \ {p} : op'[q] = op[q]
  BY <1>1
<1>10. op' \in [Procs -> Operations]
  BY <1>1, <1>5, <1>6, <1>7, <1>9
<1>11. Mine(p)
  BY <1>1 DEF Mine
<1>12. Others(p)
  BY <1>9, <1>11, OthersStay
<1> QED
  BY <1>1, <1>8, <1>10, <1>12 DEF Moves, ControlTyped

\* Disarm: the lease is gone, by the command or by the end of the supervisor.  A
\* launch whose disarm is refused ends without it.
LEMMA DisarmKeeps == ASSUME ControlIInv, NEW p \in Procs, Disarm(p) PROVE ControlIInv'
<1>1. ControlTyped /\ At(p, "disarm")
  BY DEF ControlIInv, Disarm
<1>2. CASE Goes(p) /\ sup' = (IF Alive THEN Disarmed ELSE sup) /\ UNCHANGED <<locks, late, issued>>
  <2>1. SupOK(sup') /\ sup'.lease = NoLease
    BY <1>1, <1>2, Leaseless DEF ControlTyped, Alive
  <2>2. Milder
    BY <1>1, <1>2, <2>1 DEF Disarm, Milder, markers, players, platform, ControlTyped
  <2> QED
    BY <1>1, <1>2, <2>1, <2>2, MildGoing
<1>3. CASE SupervisorGone(p)
  BY <1>1, <1>3, GoneKeeps DEF Disarm
<1>4. CASE /\ op[p].cmd = "run" /\ op' = [op EXCEPT ![p].todo = <<"abort">>]
           /\ UNCHANGED <<locks, authority>>
  <2>1. /\ Moves(p) /\ Anew(p) /\ op' \in [Procs -> Operations]
        /\ intent' \in Procs \cup {Nobody} /\ lifecycle' \in Procs \cup {Nobody}
    BY <1>4, GivesUp
  <2>2. Milder
    BY <1>1, <1>4, Leaseless DEF Disarm, Milder, markers, authority, players, platform, ControlTyped
  <2>3. ~Proceeds(p) /\ ~At(p, "record")
    BY <1>1, <2>1 DEF Proceeds, At
  <2> QED
    BY <2>1, <2>2, <2>3, MilderKeeps
<1> QED
  BY <1>2, <1>3, <1>4 DEF Disarm

\* Contain: the recorded agent is gone with its descriptor, or the descriptor stays.
LEMMA ContainKeeps == ASSUME ControlIInv, NEW p \in Procs, Contain(p) PROVE ControlIInv'
<1>1. ControlTyped /\ At(p, "contain") /\ SupOK(sup)
  BY Leaseless DEF ControlIInv, Contain
<1>2. /\ agents' \subseteq agents /\ late' \in BOOLEAN
      /\ record' = record \/ (record' = NoLease /\ record \notin agents')
  BY <1>1 DEF Contain, Leaving, ControlTyped
<1>3. Milder
  BY <1>1, <1>2 DEF Contain, Milder, markers, platform, ControlTyped
<1> QED
  BY <1>1, <1>3, MildGoing DEF Contain

\* Close: the session is gone, or the bedrock stop raises.
LEMMA CloseKeeps == ASSUME ControlIInv, NEW p \in Procs, Close(p) PROVE ControlIInv'
<1>1. ControlTyped /\ ScriptOf(p) /\ Knows(p) /\ At(p, "close") /\ SupOK(sup)
  BY Leaseless DEF ControlIInv, Orders, Close
<1>2. Milder
  <2>1. session' = FALSE \/ session' = session
    BY DEF Close
  <2>2. session' \in BOOLEAN /\ (session' => session)
    <3>1. CASE session' = FALSE
      BY <3>1
    <3>2. CASE session' = session
      <4>1. session \in BOOLEAN
        BY <1>1 DEF ControlTyped
      <4> QED
        BY <3>2, <4>1
    <3> QED
      BY <2>1, <3>1, <3>2
  <2> QED
    BY <1>1, <2>2 DEF Close, Milder, markers, authority, players, ControlTyped
<1>3. CASE session' = FALSE /\ Goes(p) /\ lifecycle' = Nobody /\ UNCHANGED intent
  <2>1. lifecycle = p
    BY <1>1 DEF Knows
  <2>2. Mine(p) /\ intent' \in Procs \cup {Nobody} /\ lifecycle' \in Procs \cup {Nobody}
    BY <1>1, <1>3, <2>1 DEF Mine, ControlTyped
  <2>3. op[p].todo # <<>> /\ \A y : At(p, y) => y = "close"
    BY <1>1 DEF At
  <2>4. issued' = issued /\ op[p].lease <= issued
    BY <1>1, <1>2 DEF Milder, ScriptOf
  <2>5. Onward(p) /\ Others(p) /\ op' \in [Procs -> Operations]
    BY <1>1, <1>3, <2>2, <2>3, <2>4, JustGoesOn
  <2>6. (\A y \in {"arm", "spawn", "record", "revoke", "disarm", "terminate", "latch"} : ~At(p, y))
        /\ ~BedAt(p, {"permitted"})
    BY <2>3 DEF BedAt
  <2> QED
    BY <1>2, <1>3, <2>2, <2>5, <2>6, MilderKeeps DEF Moves
<1>4. CASE Raises(p)
  BY <1>1, <1>2, <1>4, MildFailing
<1> QED
  BY <1>3, <1>4 DEF Close

\* Ready: a supervisor without a lease is there before the launch asks for the lock.
LEMMA ReadyKeeps == ASSUME ControlIInv, NEW p \in Procs, Ready(p) PROVE ControlIInv'
<1>1. ControlTyped /\ At(p, "ready")
  BY DEF ControlIInv, Ready
<1>2. SupOK(sup') /\ (sup'.lease = sup.lease \/ sup'.lease = NoLease)
  BY <1>1, Leaseless DEF Ready
<1>3. Milder
  BY <1>1, <1>2 DEF Ready, Milder, markers, authority, players, platform, ControlTyped
<1>4. (Goes(p) /\ UNCHANGED locks) \/ Raises(p)
  BY DEF Ready
<1> QED
  BY <1>1, <1>3, <1>4, MildGoing, MildFailing

\* Activate: the armed lease runs, the same lease.
LEMMA ActivateKeeps == ASSUME ControlIInv, NEW p \in Procs, Activate(p) PROVE ControlIInv'
<1>1. ControlTyped /\ At(p, "activate")
  BY DEF ControlIInv, Activate
<1>2. SupOK(sup') /\ (sup'.lease = sup.lease \/ sup'.lease = NoLease)
  BY <1>1, Leaseless DEF Activate, Latched
<1>3. Milder
  BY <1>1, <1>2 DEF Activate, Milder, markers, authority, players, platform, ControlTyped
<1>4. (Goes(p) /\ UNCHANGED locks) \/ Raises(p)
  BY DEF Activate
<1> QED
  BY <1>1, <1>3, <1>4, MildGoing, MildFailing

\* Reload: the supervisor leaves PAUSED, without a lease.
LEMMA ReloadKeeps == ASSUME ControlIInv, NEW p \in Procs, Reload(p) PROVE ControlIInv'
<1>1. ControlTyped /\ At(p, "reload")
  BY DEF ControlIInv, Reload
<1>2. SupOK(sup') /\ (sup'.lease = sup.lease \/ sup'.lease = NoLease)
  BY <1>1, Leaseless DEF Reload, Environment
<1>3. Milder
  BY <1>1, <1>2 DEF Reload, Milder, markers, authority, players, platform, ControlTyped
<1>4. (Goes(p) /\ UNCHANGED locks) \/ Raises(p)
  BY DEF Reload
<1> QED
  BY <1>1, <1>3, <1>4, MildGoing, MildFailing

\* Disown: the cleanup takes the lease away.
LEMMA DisownKeeps == ASSUME ControlIInv, NEW p \in Procs, Disown(p) PROVE ControlIInv'
<1>1. ControlTyped /\ At(p, "disown")
  BY DEF ControlIInv, Disown
<1>2. SupOK(sup') /\ (sup'.lease = sup.lease \/ sup'.lease = NoLease)
  BY <1>1, Leaseless DEF Disown
<1>3. Milder
  BY <1>1, <1>2 DEF Disown, Milder, markers, authority, players, platform, ControlTyped
<1>4. (Goes(p) /\ UNCHANGED locks) \/ Raises(p)
  BY DEF Disown
<1> QED
  BY <1>1, <1>3, <1>4, MildGoing, MildFailing

\* Withdraw: the upgrade revokes the old agent, confirmed or not.
LEMMA WithdrawKeeps == ASSUME ControlIInv, NEW p \in Procs, Withdraw(p) PROVE ControlIInv'
<1>1. ControlTyped /\ ScriptOf(p) /\ At(p, "withdraw") /\ op[p] \in Operations
  BY DEF ControlIInv, ControlTyped, Orders, Withdraw
<1>2. SupOK(sup') /\ (sup'.lease = sup.lease \/ sup'.lease = NoLease)
  BY <1>1, Leaseless DEF Withdraw
<1>3. Milder
  BY <1>1, <1>2 DEF Withdraw, Milder, markers, players, platform, ControlTyped
<1>4. PICK o \in Operations : o = [op[p] EXCEPT !.part = 1]
  <2>1. [op[p] EXCEPT !.part = 1] \in Operations
    BY ONLY <1>1 DEF Operations
  <2> QED
    BY <2>1
<1>5. /\ o.todo = op[p].todo /\ o.cmd = op[p].cmd /\ o.inside = op[p].inside
      /\ o.torn = op[p].torn /\ o.lease = op[p].lease
  BY <1>1, <1>4 DEF Operations
<1>6. CASE Raises(p)
  BY <1>1, <1>3, <1>6, MildFailing
<1>7. CASE GoesWith(p, [op[p] EXCEPT !.part = 1]) /\ UNCHANGED locks
  BY <1>1, <1>3, <1>4, <1>5, <1>7, MildGoingWith
<1>8. CASE /\ op' = [op EXCEPT ![p] = Recovered([@ EXCEPT !.part = 1])]
           /\ intent' = Nobody /\ UNCHANGED lifecycle
  <2>1. intent = p
    BY <1>1, HoldsTheLock
  <2>2. Mine(p) /\ intent' \in Procs \cup {Nobody} /\ lifecycle' \in Procs \cup {Nobody}
    BY <1>1, <1>8, <2>1 DEF Mine, ControlTyped
  <2>3. op[p].cmd # "none"
    BY <1>1, WhoDoesWhat
  <2>4. op' = [op EXCEPT ![p] = Recovered(o)]
    BY <1>4, <1>8
  <2>5. Anew(p) /\ Others(p) /\ op' \in [Procs -> Operations]
    BY <1>1, <1>5, <2>2, <2>3, <2>4, FailsAnew
  <2>6. Moves(p) /\ ~Proceeds(p) /\ ~At(p, "record")
    BY <1>1, <2>5 DEF Moves, Proceeds, At
  <2> QED
    BY <1>3, <2>2, <2>5, <2>6, MilderKeeps
<1> QED
  BY <1>6, <1>7, <1>8 DEF Withdraw

\* Drain: the old agent is gone with its descriptor, or the descriptor stays.
LEMMA DrainKeeps == ASSUME ControlIInv, NEW p \in Procs, Drain(p) PROVE ControlIInv'
<1>1. ControlTyped /\ At(p, "drain") /\ op[p] \in Operations /\ SupOK(sup)
  BY Leaseless DEF ControlIInv, ControlTyped, Drain
<1>2. /\ agents' \subseteq agents /\ late' \in BOOLEAN
      /\ record' = record \/ (record' = NoLease /\ record \notin agents')
  BY <1>1 DEF Drain, Contained, Leaving, ControlTyped
<1>3. Milder
  BY <1>1, <1>2 DEF Drain, Milder, markers, platform, ControlTyped
<1>4. CASE Raises(p)
  BY <1>1, <1>3, <1>4, MildFailing
<1>5. CASE GoesWith(p, [op[p] EXCEPT !.part = IF @ = 1 THEN 2 ELSE @]) /\ UNCHANGED locks
  <2>1. op[p].part \in 0 .. 4
    BY <1>1 DEF Operations
  <2>2. PICK n \in 0 .. 4 : n = IF op[p].part = 1 THEN 2 ELSE op[p].part
    BY <2>1
  <2>3. PICK o \in Operations : o = [op[p] EXCEPT !.part = n]
    <3>1. [op[p] EXCEPT !.part = n] \in Operations
      BY <1>1, <2>2 DEF Operations
    <3> QED
      BY <3>1
  <2>4. /\ o.todo = op[p].todo /\ o.cmd = op[p].cmd /\ o.inside = op[p].inside
        /\ o.torn = op[p].torn /\ o.lease = op[p].lease
    BY <1>1, <2>3 DEF Operations
  <2>5. GoesWith(p, o)
    BY <1>5, <2>2, <2>3
  <2> QED
    BY <1>1, <1>3, <1>5, <2>4, <2>5, MildGoingWith
<1> QED
  BY <1>4, <1>5 DEF Drain

\* Reclaim: the new agent is gone with its descriptor, or the descriptor stays.
LEMMA ReclaimKeeps == ASSUME ControlIInv, NEW p \in Procs, Reclaim(p) PROVE ControlIInv'
<1>1. ControlTyped /\ At(p, "reclaim") /\ op[p] \in Operations /\ SupOK(sup)
  BY Leaseless DEF ControlIInv, ControlTyped, Reclaim
<1>2. /\ agents' \subseteq agents /\ late' \in BOOLEAN
      /\ record' = record \/ (record' = NoLease /\ record \notin agents')
  BY <1>1 DEF Reclaim, Contained, Leaving, ControlTyped
<1>3. Milder
  BY <1>1, <1>2 DEF Reclaim, Milder, markers, platform, ControlTyped
<1>4. CASE Raises(p)
  BY <1>1, <1>3, <1>4, MildFailing
<1>5. CASE GoesWith(p, [op[p] EXCEPT !.child = FALSE]) /\ UNCHANGED locks
  <2>1. PICK o \in Operations : o = [op[p] EXCEPT !.child = FALSE]
    BY <1>1 DEF Operations
  <2>2. /\ o.todo = op[p].todo /\ o.cmd = op[p].cmd /\ o.inside = op[p].inside
        /\ o.torn = op[p].torn /\ o.lease = op[p].lease
    BY <1>1, <2>1 DEF Operations
  <2> QED
    BY <1>1, <1>3, <1>5, <2>1, <2>2, MildGoingWith
<1> QED
  BY <1>4, <1>5 DEF Reclaim

\* ClientDies: an agent that was not recorded yet is lost with its launcher.
LEMMA ClientDiesKeeps == ASSUME ControlIInv, NEW p \in Clients, ClientDies(p) PROVE ControlIInv'
<1>1. ControlTyped /\ p \in Procs /\ ScriptOf(p) /\ Knows(p) /\ SupOK(sup) /\ Ends(p)
  BY Leaseless DEF ControlIInv, Orders, Procs, ClientDies
<1>2. op[p].lease \in Nat /\ op[p].lease <= issued /\ issued \in Nat
  BY <1>1, ControlAssumption DEF ControlTyped, Operations, ScriptOf, ControlAssumption
<1>3. lost \subseteq lost' /\ lost' \subseteq 1 .. issued
  <2>1. lost' = lost \cup ({op[p].lease} \ {NoLease, record}) /\ lost \subseteq 1 .. issued
    BY <1>1 DEF ClientDies, ControlTyped
  <2>2. op[p].lease = NoLease \/ op[p].lease \in 1 .. issued
    BY <1>2 DEF NoLease
  <2> QED
    BY <2>1, <2>2
<1>4. Milder
  BY <1>1, <1>3 DEF ClientDies, Milder, markers, authority, platform, ControlTyped
<1>5. /\ Anew(p) /\ Others(p) /\ op' \in [Procs -> Operations]
      /\ intent' \in Procs \cup {Nobody} /\ lifecycle' \in Procs \cup {Nobody}
  BY <1>1, EndsAnew
<1>6. At(p, "record") => op[p].lease \in lost'
  BY <1>1 DEF Knows, Raising, ClientDies
<1> QED
  BY <1>1, <1>4, <1>5, <1>6, MilderKeeps DEF Moves, Proceeds

\* An agent that leaves, a late disarm, an expiry and the watchdog's look at the pause only take away.
LEMMA WorldKeeps ==
  ASSUME ControlIInv, AgentLeaves \/ DisarmArrives \/ Expires \/ SeesPause PROVE ControlIInv'
<1>1. ControlTyped /\ SupOK(sup)
  BY Leaseless DEF ControlIInv
<1>2. CASE AgentLeaves
  <2>1. agents' \subseteq agents /\ late' \in BOOLEAN
    BY <1>1, <1>2 DEF AgentLeaves, ControlTyped
  <2>2. Milder /\ UNCHANGED <<op, locks>>
    BY <1>1, <1>2, <2>1 DEF AgentLeaves, Milder, markers, platform, ControlTyped
  <2> QED
    BY <2>2, MildWorld
<1>3. CASE DisarmArrives
  <2>1. SupOK(sup') /\ sup'.lease = NoLease
    BY <1>1, <1>3, Leaseless DEF DisarmArrives
  <2>2. Milder /\ UNCHANGED <<op, locks>>
    BY <1>1, <1>3, <2>1 DEF DisarmArrives, Milder, markers, players, platform, ControlTyped
  <2> QED
    BY <2>2, MildWorld
<1>4. CASE Expires
  <2>1. SupOK(sup') /\ sup'.lease = NoLease
    BY <1>1, <1>4, Leaseless DEF Expires
  <2>2. Milder /\ UNCHANGED <<op, locks>>
    BY <1>1, <1>4, <2>1 DEF Expires, Milder, markers, players, platform, ControlTyped
  <2> QED
    BY <2>2, MildWorld
<1>5. CASE SeesPause
  <2>1. SupOK(sup') /\ sup'.lease = NoLease
    BY <1>1, <1>5, Leaseless DEF SeesPause
  <2>2. Milder /\ UNCHANGED <<op, locks>>
    BY <1>1, <1>5, <2>1 DEF SeesPause, Milder, markers, players, platform, ControlTyped
  <2> QED
    BY <2>2, MildWorld
<1> QED
  BY <1>2, <1>3, <1>4, <1>5

\* SeesEmergency: the supervisor leaves, and who ran inside it starts over or fails.
LEMMA SeesEmergencyKeeps == ASSUME ControlIInv, SeesEmergency PROVE ControlIInv'
<1>1. ControlTyped /\ (\A q \in Procs : ScriptOf(q)) /\ Loop \in Procs
  BY DEF ControlIInv, Orders, Procs
<1>2. /\ \A q \in Procs : Same(q) \/ (Anew(q) /\ op[q].inside)
      /\ op' \in [Procs -> Operations] /\ intent' \in Procs \cup {Nobody}
  BY <1>1, EmergencyMoves DEF SeesEmergency
<1>3. SupOK(sup') /\ sup'.lease = NoLease
  BY <1>1, Leaseless DEF SeesEmergency
<1>4. Milder
  BY <1>1, <1>3 DEF SeesEmergency, Milder, markers, players, platform, ControlTyped
<1>5. Moves(Loop)
  BY <1>1, <1>2 DEF Moves, Others
<1>6. ~Proceeds(Loop)
  BY <1>1, <1>2, StillSame DEF Proceeds
<1>7. ~(Anew(Loop) /\ At(Loop, "record"))
  <2>1. CASE Same(Loop)
    BY <1>1, <2>1, StillSame
  <2>2. CASE op[Loop].inside
    BY <1>1, <2>2, InsideLaunchesNot DEF Raising
  <2> QED
    BY <1>1, <1>2, <2>1, <2>2
<1>8. lifecycle' \in Procs \cup {Nobody}
  BY <1>1 DEF SeesEmergency, ControlTyped
<1> QED
  BY <1>1, <1>2, <1>4, <1>5, <1>6, <1>7, <1>8, MilderKeeps

(***************************************************************************)
(* The steps that report, lift, engage, arm and launch.                    *)
(***************************************************************************)
LEMMA EngageKeeps == ASSUME ControlIInv, NEW p \in Procs, Engage(p) PROVE ControlIInv'
<1>1. /\ ControlTyped /\ Orders /\ Accounted /\ RevokedStands /\ At(p, "engage")
      /\ op[p] \in Operations /\ SupOK(sup)
  BY Leaseless DEF ControlIInv, ControlTyped, Engage
<1>2. UNCHANGED locks /\ issued' = issued
  BY DEF Engage, authority
<1>3. intent' \in Procs \cup {Nobody} /\ lifecycle' \in Procs \cup {Nobody}
  BY <1>1, <1>2 DEF ControlTyped, locks
<1>4. \A y : At(p, y) => y = "engage"
  BY <1>1, OneStep
<1>5. (\A y \in {"arm", "spawn", "record", "latch", "revoke", "disarm", "terminate", "close"} : ~At(p, y))
      /\ ~BedAt(p, {"permitted"})
  BY <1>4 DEF BedAt
<1>6. CASE GoesWith(p, [op[p] EXCEPT !.torn = TRUE]) /\ UNCHANGED <<emergency, history>>
  <2>1. PICK o \in Operations : o = [op[p] EXCEPT !.torn = TRUE]
    BY <1>1 DEF Operations
  <2>2. /\ o.todo = op[p].todo /\ o.cmd = op[p].cmd /\ o.inside = op[p].inside
        /\ o.torn = TRUE /\ o.lease = op[p].lease
    BY <1>1, <2>1 DEF Operations
  <2>3. Moves(p) /\ op' \in [Procs -> Operations]
    BY <1>1, <1>2, <1>6, <2>1, <2>2, GoingWith
  <2>4. Milder
    BY <1>1, <1>6 DEF Engage, Milder, authority, players, platform, ControlTyped
  <2> QED
    BY <1>3, <1>5, <2>3, <2>4, MilderKeeps
<1>7. CASE /\ emergency' = TRUE /\ Goes(p)
           /\ owed' = {"reset", "resume"} /\ promised' = promised \ {"halted"}
           /\ engaged' = engaged \cup {p}
  <2>1. Onward(p) /\ Moves(p) /\ op' \in [Procs -> Operations]
    BY <1>1, <1>2, <1>7, Going
  <2>2. /\ pause' = pause /\ sup' = sup /\ late' = late
        /\ agents' = agents /\ record' = record /\ lost' = lost
        /\ session' = session /\ service' = service /\ stage' = stage
    BY DEF Engage, authority, players, platform
  <2>3. ControlTyped'
    BY <1>1, <1>2, <1>3, <1>7, <2>1, <2>2 DEF ControlTyped
  <2>4. issued <= issued'
    <3>1. issued \in Nat
      BY <1>1, ControlAssumption DEF ControlTyped, ControlAssumption
    <3> QED
      BY <1>2, <3>1
  <2>5. Orderly(p)
    BY <1>1, <1>5, <1>7, <2>1, <2>2, <2>4 DEF Orderly
  <2>6. Accountable(p)
    BY <1>5, <2>2 DEF Accountable
  <2>7. Word' = Word
    BY <1>7 DEF Word
  <2>8. Standing(p)
    BY <1>5, <2>2, <2>7 DEF Standing
  <2>9. OwedStands'
    BY <1>7 DEF OwedStands, Latched
  <2>10. Orders' /\ Accounted' /\ RevokedStands'
    BY <1>1, <2>1, <2>3, <2>5, <2>6, <2>8, OrdersKeep, AccountedKeeps, RevokedKeeps
  <2> QED
    BY <2>3, <2>9, <2>10 DEF ControlIInv
<1> QED
  BY <1>6, <1>7 DEF Engage

\* Warned: an emergency stop gives its word only while its markers have not been lifted.
LEMMA WarnedKeeps == ASSUME ControlIInv, NEW p \in Procs, Warned(p) PROVE ControlIInv'
<1>1. /\ ControlTyped /\ Orders /\ Accounted /\ RevokedStands /\ OwedStands /\ At(p, "warned")
      /\ ScriptOf(p) /\ Knows(p) /\ Ends(p)
  BY DEF ControlIInv, Orders, Warned
<1>2. /\ Anew(p) /\ Others(p) /\ op' \in [Procs -> Operations]
      /\ intent' \in Procs \cup {Nobody} /\ lifecycle' \in Procs \cup {Nobody}
  BY <1>1, EndsAnew
<1>3. Moves(p) /\ ~Proceeds(p) /\ ~At(p, "record")
  BY <1>1, <1>2 DEF Moves, Proceeds, At
<1>4. /\ pause' = pause /\ emergency' = emergency /\ sup' = sup /\ late' = late /\ issued' = issued
      /\ agents' = agents /\ record' = record /\ lost' = lost
      /\ session' = session /\ service' = service /\ stage' = stage /\ owed' = owed
      /\ engaged' = engaged \ {p}
      /\ promised' = promised \cup (IF op[p].torn \/ p \notin engaged THEN {} ELSE {"halted"})
  BY DEF Warned, markers, authority, players, platform
<1>5. ControlTyped'
  BY <1>1, <1>2, <1>4 DEF ControlTyped
<1>6. issued <= issued'
  <2>1. issued \in Nat
    BY <1>1, ControlAssumption DEF ControlTyped, ControlAssumption
  <2> QED
    BY <1>4, <2>1
<1>7. Orderly(p)
  BY <1>3, <1>4, <1>6 DEF Orderly
<1>8. Accountable(p)
  BY <1>3, <1>4 DEF Accountable
<1>9. Word' = Word
  BY <1>4 DEF Word
<1>10. Standing(p)
  BY <1>3, <1>4, <1>9 DEF Standing
<1>11. "halted" \in promised' /\ owed' # {} => sup'.lease = NoLease
  <2>1. p \in engaged => sup.lease = NoLease
    <3>1. Left(op[p].todo) = {"warned"}
      BY <1>1, WhoDoesWhat
    <3>2. Warning(p)
      BY <3>1 DEF Warning
    <3> QED
      BY <1>1, <3>2 DEF Knows
  <2> QED
    BY <1>1, <1>4, <2>1 DEF OwedStands
<1>12. OwedStands'
  BY <1>1, <1>4, <1>11 DEF OwedStands, Latched
<1>13. Orders' /\ Accounted' /\ RevokedStands'
  BY <1>1, <1>3, <1>5, <1>7, <1>8, <1>10, OrdersKeep, AccountedKeeps, RevokedKeeps
<1> QED
  BY <1>5, <1>12, <1>13 DEF ControlIInv

\* What lifting the pause does, whoever does it.
LEMMA LiftKeeps ==
  ASSUME ControlIInv, NEW p \in Procs, NEW x \in {"reopen", "clear"}, At(p, x), Moves(p), Lifts,
         op' \in [Procs -> Operations], intent' \in Procs \cup {Nobody},
         lifecycle' \in Procs \cup {Nobody}, SupOK(sup'),
         sup'.lease = sup.lease \/ sup'.lease = NoLease, late' \in BOOLEAN,
         UNCHANGED <<emergency, issued, players, platform>>
  PROVE  ControlIInv'
<1>1. /\ ControlTyped /\ Orders /\ Accounted /\ RevokedStands /\ OwedStands /\ ScriptOf(p)
  BY DEF ControlIInv, Orders
<1>2. \A y : At(p, y) => y = x
  BY OneStep
<1>3. (\A y \in {"arm", "spawn", "record", "latch", "revoke", "disarm", "terminate", "close", "engage"} :
           ~At(p, y)) /\ ~BedAt(p, {"permitted"})
  BY <1>2 DEF BedAt
<1>4. /\ pause' = FALSE /\ promised' = promised \cap {"halted"} /\ owed' = owed \ {"resume"}
      /\ engaged' = (IF owed' = {} THEN {} ELSE engaged)
      /\ emergency' = emergency /\ issued' = issued
      /\ agents' = agents /\ record' = record /\ lost' = lost
      /\ session' = session /\ service' = service /\ stage' = stage
  BY DEF Lifts, Pays, players, platform
<1>5. issued \in Nat /\ issued <= issued' /\ sup'.lease <= issued'
  <2>1. issued \in Nat /\ sup.lease \in Nat /\ sup.lease <= issued
    BY <1>1, ControlAssumption DEF ControlTyped, ControlAssumption
  <2> QED
    BY <1>4, <2>1 DEF NoLease
<1>6. ControlTyped'
  BY <1>1, <1>4, <1>5 DEF ControlTyped, SupOK
<1>7. intent = p /\ ~Stopping(p)
  <2>1. op[p].cmd = "resume"
    BY <1>1, WhoDoesWhat
  <2> QED
    BY <1>1, <2>1, HoldsTheLock DEF Stopping, Durable
<1>8. Orderly(p)
  BY <1>3, <1>4, <1>5, <1>7 DEF Orderly
<1>9. Accountable(p)
  BY <1>3, <1>4 DEF Accountable
<1>10. Word' = {}
  BY <1>4 DEF Word
<1>11. Standing(p)
  BY <1>3, <1>4, <1>10 DEF Standing
<1>12. OwedStands'
  <2>1. owed' \subseteq {"reset"} /\ owed' \subseteq owed
    BY <1>1, <1>4 DEF OwedStands
  <2>2. owed' # {} => emergency
    BY <1>1, <2>1 DEF OwedStands
  <2>3. "halted" \in promised' /\ owed' # {} => sup'.lease = NoLease
    BY <1>1, <1>4, <2>1 DEF OwedStands
  <2> QED
    BY <1>4, <2>1, <2>2, <2>3 DEF OwedStands, Latched
<1>13. Orders' /\ Accounted' /\ RevokedStands'
  BY <1>1, <1>6, <1>8, <1>9, <1>11, OrdersKeep, AccountedKeeps, RevokedKeeps
<1> QED
  BY <1>6, <1>12, <1>13 DEF ControlIInv

\* Reopen: a resume lifts the marker, and with it what the durable stops promised.
LEMMA ReopenKeeps == ASSUME ControlIInv, NEW p \in Procs, Reopen(p) PROVE ControlIInv'
<1>1. ControlTyped /\ (\A q \in Procs : ScriptOf(q)) /\ At(p, "reopen")
  BY DEF ControlIInv, Orders, Reopen
<1>2. UNCHANGED <<emergency, players, platform>>
  BY DEF Reopen
<1>3. CASE Raises(p) /\ UNCHANGED <<authority, pause, history>>
  <2>1. Quiet
    BY <1>1, <1>2, <1>3 DEF Quiet, markers, platform, ControlTyped
  <2> QED
    BY <1>1, <1>3, <2>1, QuietFailing
<1>4. CASE Lifts /\ SupervisorGone(p)
  <2>1. op[p].todo # <<>> /\ \A y : At(p, y) => y = "reopen"
    BY <1>1 DEF At
  <2>2. /\ Onward(p) /\ Others(p) /\ op' \in [Procs -> Operations]
        /\ intent' \in Procs \cup {Nobody} /\ lifecycle' = lifecycle /\ issued' = issued
        /\ sup' = Absent /\ late' = FALSE
    BY <1>1, <1>4, <2>1, GoneMoves
  <2>3. SupOK(sup') /\ sup'.lease = NoLease
    BY <1>1, <2>2, Leaseless
  <2>4. Moves(p) /\ lifecycle' \in Procs \cup {Nobody} /\ late' \in BOOLEAN
    BY <1>1, <2>2 DEF Moves, ControlTyped
  <2> QED
    BY <1>1, <1>2, <1>4, <2>2, <2>3, <2>4, LiftKeeps
<1>5. CASE /\ Lifts /\ sup.at \notin {"armed", "running", "failed"} /\ sup' = [sup EXCEPT !.at = "idle"]
           /\ Goes(p) /\ UNCHANGED <<locks, late, issued>>
  <2>1. Moves(p) /\ op' \in [Procs -> Operations]
    BY <1>1, <1>5, Going
  <2>2. sup.at \in {"paused", "absent", "idle"}
    BY <1>1, <1>5 DEF ControlTyped
  <2>3. SupOK(sup') /\ sup'.lease = sup.lease
    BY <1>1, <1>5, <2>2, Leaseless
  <2>4. /\ intent' \in Procs \cup {Nobody} /\ lifecycle' \in Procs \cup {Nobody}
        /\ late' \in BOOLEAN
    BY <1>1, <1>5 DEF ControlTyped, locks
  <2> QED
    BY <1>1, <1>2, <1>5, <2>1, <2>3, <2>4, LiftKeeps
<1> QED
  BY <1>3, <1>4, <1>5 DEF Reopen

\* Clear: the local resume lifts the marker, and with it what the durable stops promised.
LEMMA ClearKeeps == ASSUME ControlIInv, NEW p \in Procs, Clear(p) PROVE ControlIInv'
<1>1. ControlTyped /\ At(p, "clear") /\ SupOK(sup)
  BY Leaseless DEF ControlIInv, Clear
<1>2. /\ emergency' = emergency /\ sup' = sup /\ late' = late /\ issued' = issued
      /\ UNCHANGED <<players, platform>>
  BY DEF Clear, authority
<1>3. CASE Lifts /\ Goes(p) /\ UNCHANGED locks
  <2>1. Moves(p) /\ op' \in [Procs -> Operations]
    BY <1>1, <1>2, <1>3, Going
  <2>2. /\ intent' \in Procs \cup {Nobody} /\ lifecycle' \in Procs \cup {Nobody}
        /\ late' \in BOOLEAN /\ SupOK(sup')
    BY <1>1, <1>2, <1>3 DEF ControlTyped, locks
  <2> QED
    BY <1>1, <1>2, <1>3, <2>1, <2>2, LiftKeeps
<1>4. CASE Raises(p) /\ UNCHANGED <<pause, history>>
  <2>1. Quiet
    BY <1>1, <1>4 DEF Clear, Quiet, markers, platform, ControlTyped
  <2> QED
    BY <1>1, <1>4, <2>1, QuietFailing
<1> QED
  BY <1>3, <1>4 DEF Clear

\* Disengage: the emergency marker goes only where the pause marker is.
LEMMA DisengageKeeps == ASSUME ControlIInv, NEW p \in Procs, Disengage(p) PROVE ControlIInv'
<1>1. /\ ControlTyped /\ Orders /\ Accounted /\ RevokedStands /\ OwedStands /\ At(p, "disengage")
  BY DEF ControlIInv, Disengage
<1>2. CASE Raises(p) /\ UNCHANGED <<emergency, owed, engaged>>
  <2>1. Quiet
    BY <1>1, <1>2 DEF Disengage, Quiet, markers, platform, history, ControlTyped
  <2> QED
    BY <1>1, <1>2, <2>1, QuietFailing
<1>3. CASE pause /\ emergency' = FALSE /\ Pays("reset") /\ Goes(p) /\ UNCHANGED locks
  <2>1. /\ pause' = pause /\ sup' = sup /\ late' = late /\ issued' = issued
        /\ agents' = agents /\ record' = record /\ lost' = lost
        /\ session' = session /\ service' = service /\ stage' = stage /\ promised' = promised
        /\ owed' = owed \ {"reset"} /\ engaged' = (IF owed' = {} THEN {} ELSE engaged)
    BY <1>3 DEF Disengage, authority, players, platform, Pays
  <2>2. Onward(p) /\ Moves(p) /\ op' \in [Procs -> Operations]
    BY <1>1, <1>3, <2>1, Going
  <2>3. intent' \in Procs \cup {Nobody} /\ lifecycle' \in Procs \cup {Nobody}
    BY <1>1, <1>3 DEF ControlTyped, locks
  <2>4. ControlTyped'
    BY <1>1, <1>3, <2>1, <2>2, <2>3 DEF ControlTyped
  <2>5. issued <= issued'
    <3>1. issued \in Nat
      BY <1>1, ControlAssumption DEF ControlTyped, ControlAssumption
    <3> QED
      BY <2>1, <3>1
  <2>6. \A y : At(p, y) => y = "disengage"
    BY <1>1, OneStep
  <2>7. (\A y \in {"arm", "spawn", "record", "latch", "revoke", "disarm", "terminate", "close"} : ~At(p, y))
        /\ ~BedAt(p, {"permitted"})
    BY <2>6 DEF BedAt
  <2>8. Orderly(p)
    BY <2>1, <2>5, <2>7 DEF Orderly
  <2>9. Accountable(p)
    BY <2>1, <2>7 DEF Accountable
  <2>10. Word' = Word
    BY <2>1 DEF Word
  <2>11. Standing(p)
    BY <2>1, <2>7, <2>10 DEF Standing
  <2>12. OwedStands'
    BY <1>1, <1>3, <2>1 DEF OwedStands, Latched
  <2>13. Orders' /\ Accounted' /\ RevokedStands'
    BY <1>1, <2>2, <2>4, <2>8, <2>9, <2>11, OrdersKeep, AccountedKeeps, RevokedKeeps
  <2> QED
    BY <2>4, <2>12, <2>13 DEF ControlIInv
<1> QED
  BY <1>2, <1>3 DEF Disengage

\* Open: a session opens, and no word that it is closed stands while a launch is that far.
LEMMA OpenKeeps == ASSUME ControlIInv, NEW p \in Procs, Open(p) PROVE ControlIInv'
<1>1. /\ ControlTyped /\ ScriptOf(p) /\ At(p, "open") /\ SupOK(sup)
  BY Leaseless DEF ControlIInv, Orders, Open
<1>2. CASE Raises(p) /\ UNCHANGED session
  <2>1. Quiet
    BY <1>1, <1>2 DEF Open, Quiet, ControlTyped
  <2> QED
    BY <1>1, <1>2, <2>1, QuietFailing
<1>3. CASE session' = TRUE /\ Goes(p) /\ UNCHANGED locks
  <2>1. /\ pause' = pause /\ emergency' = emergency /\ sup' = sup /\ late' = late /\ issued' = issued
        /\ agents' = agents /\ record' = record /\ lost' = lost
        /\ service' = service /\ stage' = stage
        /\ promised' = promised /\ owed' = owed /\ engaged' = engaged
    BY DEF Open, markers, authority, players, history
  <2>2. Onward(p) /\ Moves(p) /\ op' \in [Procs -> Operations]
    BY <1>1, <1>3, <2>1, Going
  <2>3. intent' \in Procs \cup {Nobody} /\ lifecycle' \in Procs \cup {Nobody}
    BY <1>1, <1>3 DEF ControlTyped, locks
  <2>4. ControlTyped'
    BY <1>1, <1>3, <2>1, <2>2, <2>3 DEF ControlTyped
  <2>5. issued <= issued'
    <3>1. issued \in Nat
      BY <1>1, ControlAssumption DEF ControlTyped, ControlAssumption
    <3> QED
      BY <2>1, <3>1
  <2>6. \A y : At(p, y) => y = "open"
    BY <1>1, OneStep
  <2>7. (\A y \in {"arm", "spawn", "record", "latch", "revoke", "disarm", "terminate", "close"} : ~At(p, y))
        /\ ~BedAt(p, {"permitted"})
    BY <2>6 DEF BedAt
  <2>8. BedAt(p, {"open"})
    BY <1>1, WhoDoesWhat DEF BedAt
  <2>9. Orderly(p)
    BY <2>1, <2>5, <2>7, <2>8 DEF Orderly
  <2>10. Accountable(p)
    BY <2>1, <2>7 DEF Accountable
  <2>11. Standing(p)
    BY <2>1, <2>7, <2>8 DEF Standing, Word
  <2>12. Owing
    BY <2>1 DEF Owing, Latched
  <2> QED
    BY <2>2, <2>4, <2>9, <2>10, <2>11, <2>12, StepKeeps
<1> QED
  BY <1>2, <1>3 DEF Open

\* Arm: the lease is new, so no agent has it, and no marker is there.
LEMMA ArmKeeps == ASSUME ControlIInv, NEW p \in Procs, Arm(p) PROVE ControlIInv'
<1>1. /\ ControlTyped /\ ScriptOf(p) /\ OwedStands /\ At(p, "arm") /\ op[p] \in Operations
  BY DEF ControlIInv, ControlTyped, Orders, Arm
<1>2. CASE Raises(p) /\ UNCHANGED <<sup, issued>>
  <2>1. Quiet
    BY <1>1, <1>2 DEF Arm, Quiet, platform, authority, ControlTyped
  <2> QED
    BY <1>1, <1>2, <2>1, QuietFailing
<1>3. CASE /\ ~ArmRefused /\ issued' = issued + 1
           /\ sup' = [at |-> "armed", lease |-> issued + 1]
           /\ GoesWith(p, [op[p] EXCEPT !.lease = issued + 1]) /\ UNCHANGED locks
  <2>1. issued \in Nat /\ issued \in 0 .. MaxLeases /\ MaxLeases \in Nat
    BY <1>1, ControlAssumption DEF ControlTyped, ControlAssumption
  <2>2. issued # MaxLeases /\ ~pause /\ ~emergency
    BY <1>3 DEF ArmRefused, Latched
  <2>3. PICK n \in 1 .. MaxLeases : n = issued + 1
    BY <2>1, <2>2
  <2>4. issued <= n /\ n \in Nat /\ n # 0 /\ 1 .. issued \subseteq 1 .. n /\ 0 .. issued \subseteq 0 .. n
    BY <2>1, <2>3
  <2>5. /\ issued' = n /\ sup' = [at |-> "armed", lease |-> n]
        /\ pause' = pause /\ emergency' = emergency /\ late' = late
        /\ agents' = agents /\ record' = record /\ lost' = lost
        /\ session' = session /\ service' = service /\ stage' = stage
        /\ promised' = promised /\ owed' = owed /\ engaged' = engaged
        /\ UNCHANGED locks
    BY <1>3, <2>3 DEF Arm, markers, players, platform, history
  <2>6. PICK o \in Operations : o = [op[p] EXCEPT !.lease = n]
    BY <1>1, <2>4 DEF Operations
  <2>7. /\ o.todo = op[p].todo /\ o.cmd = op[p].cmd /\ o.inside = op[p].inside
        /\ o.torn = op[p].torn /\ o.lease = n
    BY <1>1, <2>6 DEF Operations
  <2>8. GoesWith(p, o)
    BY <1>3, <2>3, <2>6
  <2>9. Mine(p) /\ intent' \in Procs \cup {Nobody} /\ lifecycle' \in Procs \cup {Nobody}
    BY <1>1, <2>5 DEF Mine, ControlTyped, locks
  <2>10. op[p].todo # <<>> /\ \A y : At(p, y) => y = "arm"
    BY <1>1 DEF At
  <2>11. (intent = p => intent' = p) /\ (lifecycle = p => lifecycle' = p) /\ o.lease <= issued'
    BY <2>4, <2>5, <2>7 DEF locks
  <2>12. Onward(p) /\ Others(p) /\ op' \in [Procs -> Operations] /\ op'[p].lease = n
    BY <1>1, <2>7, <2>8, <2>9, <2>10, <2>11, GoesOn
  <2>13. sup' \in [at : {"absent", "idle", "armed", "running", "paused", "failed"}, lease : Nat]
         /\ sup'.lease = n /\ sup'.at = "armed"
    BY <2>4, <2>5
  <2>14. /\ sup'.lease <= issued' /\ issued' \in 0 .. MaxLeases
         /\ (sup'.lease # NoLease) = (sup'.at \in {"armed", "running"})
    BY <2>3, <2>4, <2>5, <2>13 DEF NoLease
  <2>15. ControlTyped'
    BY <1>1, <2>4, <2>5, <2>9, <2>12, <2>13, <2>14 DEF ControlTyped
  <2>16. intent = p /\ ~Stopping(p) /\ engaged' = {}
    <3>1. op[p].cmd \in {"run", "upgrade"} /\ intent = p
      BY <1>1, WhoDoesWhat, HoldsTheLock
    <3>2. engaged = {}
      BY <1>1, <2>2 DEF OwedStands, Latched
    <3> QED
      BY <2>5, <3>1, <3>2 DEF Stopping, Durable
  <2>17. (\A y \in {"spawn", "record", "latch", "revoke", "disarm", "terminate", "close"} : ~At(p, y))
         /\ ~BedAt(p, {"permitted"})
    BY <2>10 DEF BedAt
  <2>18. Orderly(p)
    BY <2>4, <2>5, <2>12, <2>16, <2>17 DEF Orderly, NoLease
  <2>19. Accountable(p)
    BY <2>5, <2>17 DEF Accountable
  <2>20. Standing(p)
    BY <2>2, <2>5, <2>17 DEF Standing, Word
  <2>21. Owing
    BY <2>2, <2>5 DEF Owing, Latched
  <2> QED
    BY <2>12, <2>15, <2>18, <2>19, <2>20, <2>21, StepKeeps DEF Moves
<1> QED
  BY <1>2, <1>3 DEF Arm

\* Spawn: the agent joins under the lock of the launch that will record it.
LEMMA SpawnKeeps == ASSUME ControlIInv, NEW p \in Procs, Spawn(p) PROVE ControlIInv'
<1>1. /\ ControlTyped /\ Orders /\ Accounted /\ RevokedStands /\ OwedStands /\ At(p, "spawn")
      /\ ScriptOf(p) /\ Knows(p)
  BY DEF ControlIInv, Orders, Spawn
<1>2. CASE Raises(p) /\ UNCHANGED <<agents, record>>
  <2>1. Quiet
    BY <1>1, <1>2 DEF Spawn, Quiet, players, platform, ControlTyped
  <2> QED
    BY <1>1, <1>2, <2>1, QuietFailing
<1>3. CASE /\ record \notin agents /\ agents' = agents \cup {op[p].lease} /\ record' = NoLease
           /\ Goes(p) /\ UNCHANGED locks
  <2>1. /\ pause' = pause /\ emergency' = emergency /\ sup' = sup /\ late' = late /\ issued' = issued
        /\ lost' = lost /\ session' = session /\ service' = service /\ stage' = stage
        /\ promised' = promised /\ owed' = owed /\ engaged' = engaged
    BY DEF Spawn, markers, authority, platform, history
  <2>2. Onward(p) /\ Moves(p) /\ op' \in [Procs -> Operations]
    BY <1>1, <1>3, <2>1, Going
  <2>3. intent' \in Procs \cup {Nobody} /\ lifecycle' \in Procs \cup {Nobody}
    BY <1>1, <1>3 DEF ControlTyped, locks
  <2>4. issued \in Nat /\ op[p].lease \in Nat /\ op[p].lease <= issued /\ op[p].lease # NoLease
    BY <1>1, ControlAssumption DEF ControlTyped, ControlAssumption, Operations, ScriptOf, Knows, Raising
  <2>5. op[p].lease \in 1 .. issued /\ NoLease \in 0 .. issued /\ issued <= issued'
    BY <2>1, <2>4 DEF NoLease
  <2>6. agents' \subseteq 1 .. issued'
    BY <1>1, <1>3, <2>1, <2>5 DEF ControlTyped
  <2>7. ControlTyped'
    BY <1>1, <1>3, <2>1, <2>2, <2>3, <2>5, <2>6 DEF ControlTyped
  <2>8. \A y : At(p, y) => y = "spawn"
    BY <1>1, OneStep
  <2>9. (\A y \in {"arm", "record", "latch", "revoke", "disarm", "terminate", "close"} : ~At(p, y))
        /\ ~BedAt(p, {"permitted"})
    BY <2>8 DEF BedAt
  <2>10. Orderly(p)
    BY <1>3, <2>1, <2>5, <2>9 DEF Orderly
  <2>11. Standing(p)
    BY <1>1, <1>3, <2>1, <2>9 DEF Standing, Word
  <2>12. Owing
    BY <2>1 DEF Owing, Latched
  <2>13. Accounted'
    <3> SUFFICES ASSUME NEW l \in agents' \ lost' PROVE At(p, "record")' /\ op'[p].lease = l
      BY DEF Accounted
    <3>1. At(p, "record")' /\ op'[p].lease = op[p].lease
      BY <1>1, <2>2, <2>7, <2>9, HeadsAfter DEF Onward
    <3>2. l = op[p].lease
      <4>1. SUFFICES ASSUME l \in agents \ lost PROVE FALSE
        BY <1>3, <2>1
      <4>2. l # record
        BY <1>3, <4>1
      <4>3. PICK q \in Procs : At(q, "record") /\ op[q].lease = l
        BY <1>1, <4>1, <4>2 DEF Accounted
      <4>4. intent = p /\ intent = q
        BY <1>1, <4>3, HoldsTheLock DEF Orders, Raising
      <4> QED
        BY <2>9, <4>3, <4>4
    <3> QED
      BY <3>1, <3>2
  <2>14. Orders' /\ RevokedStands' /\ OwedStands'
    BY <1>1, <2>2, <2>7, <2>10, <2>11, <2>12, OrdersKeep, RevokedKeeps, OwedKeeps
  <2> QED
    BY <2>7, <2>13, <2>14 DEF ControlIInv
<1> QED
  BY <1>2, <1>3 DEF Spawn

\* Record: the descriptor names the agent, which leaves the hands of its launch.
LEMMA RecordKeeps == ASSUME ControlIInv, NEW p \in Procs, Record(p) PROVE ControlIInv'
<1>1. /\ ControlTyped /\ Orders /\ Accounted /\ RevokedStands /\ OwedStands /\ At(p, "record")
      /\ ScriptOf(p) /\ Knows(p) /\ op[p] \in Operations
  BY DEF ControlIInv, ControlTyped, Orders, Record
<1>2. CASE op[p].lease \notin agents /\ Raises(p) /\ UNCHANGED record
  <2>1. Quiet
    BY <1>1, <1>2 DEF Record, Quiet, players, platform, ControlTyped
  <2> QED
    BY <1>1, <1>2, <2>1, QuietFailing
<1>3. CASE /\ op[p].lease \in agents /\ record' = op[p].lease
           /\ GoesWith(p, [op[p] EXCEPT !.child = TRUE]) /\ UNCHANGED locks
  <2>1. /\ pause' = pause /\ emergency' = emergency /\ sup' = sup /\ late' = late /\ issued' = issued
        /\ agents' = agents /\ lost' = lost
        /\ session' = session /\ service' = service /\ stage' = stage
        /\ promised' = promised /\ owed' = owed /\ engaged' = engaged
    BY DEF Record, markers, authority, platform, history
  <2>2. PICK o \in Operations : o = [op[p] EXCEPT !.child = TRUE]
    BY <1>1 DEF Operations
  <2>3. /\ o.todo = op[p].todo /\ o.cmd = op[p].cmd /\ o.inside = op[p].inside
        /\ o.torn = op[p].torn /\ o.lease = op[p].lease
    BY <1>1, <2>2 DEF Operations
  <2>4. Onward(p) /\ Moves(p) /\ op' \in [Procs -> Operations]
    BY <1>1, <1>3, <2>1, <2>2, <2>3, GoingWith
  <2>5. intent' \in Procs \cup {Nobody} /\ lifecycle' \in Procs \cup {Nobody}
    BY <1>1, <1>3 DEF ControlTyped, locks
  <2>6. issued \in Nat /\ op[p].lease \in 1 .. issued
    BY <1>1, <1>3, ControlAssumption DEF ControlTyped, ControlAssumption
  <2>7. op[p].lease \in 0 .. issued /\ issued <= issued'
    BY <2>1, <2>6
  <2>8. ControlTyped'
    BY <1>1, <1>3, <2>1, <2>4, <2>5, <2>7 DEF ControlTyped
  <2>9. \A y : At(p, y) => y = "record"
    BY <1>1, OneStep
  <2>10. (\A y \in {"arm", "spawn", "latch", "revoke", "disarm", "terminate", "close"} : ~At(p, y))
         /\ ~BedAt(p, {"permitted"})
    BY <2>9 DEF BedAt
  <2>11. Orderly(p)
    BY <1>1, <2>1, <2>4, <2>7, <2>10 DEF Orderly
  <2>12. Standing(p)
    BY <1>1, <2>1, <2>10 DEF Standing, Word
  <2>13. Owing
    BY <2>1 DEF Owing, Latched
  <2>14. Accounted'
    <3> SUFFICES ASSUME NEW l \in agents' \ lost' PROVE l = record'
      BY DEF Accounted
    <3>1. l \in agents \ lost /\ l \in 1 .. issued
      BY <1>1, <2>1 DEF ControlTyped
    <3>2. l # record
      BY <1>1, <2>6, <3>1 DEF Knows, NoLease
    <3>3. PICK q \in Procs : At(q, "record") /\ op[q].lease = l
      BY <1>1, <3>1, <3>2 DEF Accounted
    <3>4. intent = p /\ intent = q
      BY <1>1, <3>3, HoldsTheLock DEF Orders, Raising
    <3> QED
      BY <1>3, <3>3, <3>4
  <2>15. Orders' /\ RevokedStands' /\ OwedStands'
    BY <1>1, <2>4, <2>8, <2>11, <2>12, <2>13, OrdersKeep, RevokedKeeps, OwedKeeps
  <2> QED
    BY <2>8, <2>14, <2>15 DEF ControlIInv
<1> QED
  BY <1>2, <1>3 DEF Record

\* Confirm: the word is given, and what its command knows by then makes it true.
LEMMA ConfirmKeeps == ASSUME ControlIInv, NEW p \in Procs, Confirm(p) PROVE ControlIInv'
<1>1. /\ ControlTyped /\ Orders /\ Accounted /\ RevokedStands /\ OwedStands /\ At(p, "confirm")
      /\ ScriptOf(p) /\ Knows(p) /\ op[p] \in Operations /\ op \in [Procs -> Operations]
  BY DEF ControlIInv, ControlTyped, Orders, Confirm
<1>2. /\ pause' = pause /\ emergency' = emergency /\ sup' = sup /\ late' = late /\ issued' = issued
      /\ agents' = agents /\ record' = record /\ lost' = lost /\ session' = session
      /\ owed' = owed /\ engaged' = engaged
  BY DEF Confirm, markers, authority, players
<1>3. ~At(p, "record")
  BY <1>1, OneStep
<1>4. CASE /\ op[p].inside /\ op' = [op EXCEPT ![p] = FallBack(@)]
           /\ intent' = Freed(intent, p) /\ UNCHANGED <<lifecycle, promised, service, stage>>
  <2>1. Quiet
    BY <1>1, <1>2, <1>4 DEF Quiet, markers, authority, players, history, ControlTyped
  <2>2. op'[p] = FallBack(op[p]) /\ \A q \in Procs \ {p} : op'[q] = op[q]
    BY <1>1, <1>4
  <2>3. Anew(p) /\ op'[p] \in Operations
    BY <1>1, <1>4, <2>2, StartsOver
  <2>4. op' \in [Procs -> Operations]
    BY <1>1, <1>4, <2>2, <2>3
  <2>5. Mine(p) /\ intent' \in Procs \cup {Nobody} /\ lifecycle' \in Procs \cup {Nobody}
    BY <1>1, <1>4 DEF Mine, Freed, ControlTyped
  <2>6. Others(p)
    BY <2>2, <2>5, OthersStay
  <2> QED
    BY <1>3, <2>1, <2>3, <2>4, <2>5, <2>6, QuietKeeps DEF Moves, Proceeds
<1>5. CASE /\ Ends(p) /\ promised' = promised \cup Reported(op[p])
           /\ IF op[p].torn THEN HaltService ELSE UNCHANGED service
           /\ stage' = IF p # Loop THEN stage ELSE IF record = NoLease THEN "bed" ELSE "tidy"
  <2>1. /\ Anew(p) /\ Others(p) /\ op' \in [Procs -> Operations] /\ op'[p] = Idle
        /\ intent' \in Procs \cup {Nobody} /\ lifecycle' \in Procs \cup {Nobody}
    BY <1>1, <1>5, EndsAnew
  <2>2. Moves(p) /\ ~Proceeds(p)
    BY <2>1 DEF Moves, Proceeds
  <2>3. service' \in {"none", "off", "on", "halting"} /\ stage' \in {"tidy", "bed", "run", "watch"}
    BY <1>1, <1>5 DEF HaltService, ControlTyped
  <2>4. ControlTyped'
    BY <1>1, <1>2, <2>1, <2>3 DEF ControlTyped
  <2>5. issued <= issued'
    <3>1. issued \in Nat
      BY <1>1, ControlAssumption DEF ControlTyped, ControlAssumption
    <3> QED
      BY <1>2, <3>1
  <2>6. Orderly(p)
    BY <1>2, <2>2, <2>5 DEF Orderly
  <2>7. Accountable(p)
    BY <1>2, <1>3, <2>2 DEF Accountable
  <2>8. "halted" \in promised' => "halted" \in promised
    BY <1>5 DEF Reported
  <2>9. Owing
    BY <1>2, <2>8 DEF Owing, Latched
  <2>10. Orders' /\ Accounted' /\ OwedStands'
    BY <1>1, <2>2, <2>4, <2>6, <2>7, <2>9, OrdersKeep, AccountedKeeps, OwedKeeps
  <2>11. intent = p /\ (op[p].cmd \in Durable => Stopping(p))
         /\ Left(op[p].todo) \cap {"revoke", "disarm"} = {}
    <3>1. Left(op[p].todo) = {"confirm"} /\ intent = p
      BY <1>1, WhoDoesWhat, HoldsTheLock
    <3> QED
      BY <3>1 DEF Stopping
  <2>12. ASSUME NEW q \in Procs
         PROVE  /\ \A x \in Raising : ~At(q, x) => ~At(q, x)'
                /\ ~BedAt(q, {"claim", "unlock", "open"}) => ~BedAt(q, {"claim", "unlock", "open"})'
    <3>1. CASE Anew(q)
      BY <2>4, <3>1, HeadsAnew
    <3>2. CASE Same(q)
      BY <3>2 DEF Same, At, BedAt
    <3> QED
      BY <2>1, <3>1, <3>2 DEF Others
  <2>13. ASSUME NEW q \in Procs
         PROVE  (\A x \in Raising : ~At(q, x)) /\ ~BedAt(q, {"claim"})
    <3>1. ScriptOf(q)
      BY <1>1 DEF Orders
    <3>2. /\ \A x \in Raising : At(q, x) => intent = q
          /\ BedAt(q, {"claim"}) => intent = q
      BY <1>1, <3>1, HoldsTheLock
    <3>3. (\A x \in Raising : ~At(p, x)) /\ ~BedAt(p, {"claim"})
      BY <1>1, OneStep DEF Raising, BedAt
    <3> QED
      BY <2>11, <3>2, <3>3
  <2>14. ASSUME "revoked" \in promised'
         PROVE  pause /\ sup.lease = NoLease /\ record = NoLease /\ agents \subseteq lost
    <3>1. CASE "revoked" \in promised
      BY <1>1, <3>1 DEF RevokedStands
    <3>2. CASE "revoked" \in Reported(op[p])
      <4>1. op[p].cmd \in Durable /\ ~op[p].torn /\ record = NoLease
        BY <3>2 DEF Reported
      <4>2. pause /\ sup.lease = NoLease
        BY <1>1, <2>11, <4>1 DEF Knows
      <4>3. ASSUME NEW l \in agents \ lost PROVE FALSE
        <5>1. l # record
          BY <1>1, <4>1 DEF ControlTyped, NoLease
        <5>2. PICK q \in Procs : At(q, "record")
          BY <1>1, <5>1 DEF Accounted
        <5> QED
          BY <2>13, <5>2 DEF Raising
      <4> QED
        BY <4>1, <4>2, <4>3
    <3> QED
      BY <1>5, <2>14, <3>1, <3>2
  <2>15. ASSUME "closed" \in promised'
         PROVE  /\ "revoked" \in promised' /\ ~session
                /\ \A q \in Procs : ~BedAt(q, {"claim", "unlock", "open"})
    <3>1. CASE "closed" \in promised
      BY <1>1, <1>5, <3>1 DEF RevokedStands
    <3>2. CASE "closed" \in Reported(op[p])
      <4>1. op[p].cmd = "bed-stop" /\ "revoked" \in Reported(op[p])
        BY <3>2 DEF Reported
      <4>2. ~session /\ \A q \in Procs : ~BedAt(q, {"unlock", "open"})
        BY <1>1, <4>1 DEF Knows
      <4> QED
        BY <1>5, <2>13, <4>1, <4>2 DEF BedAt
    <3> QED
      BY <1>5, <2>15, <3>1, <3>2
  <2>16. RevokedStands'
    BY <1>2, <2>12, <2>13, <2>14, <2>15 DEF RevokedStands
  <2> QED
    BY <2>4, <2>10, <2>16 DEF ControlIInv
<1> QED
  BY <1>4, <1>5 DEF Confirm

(***************************************************************************)
(* The invariant holds, and what the runs check follows.                   *)
(***************************************************************************)
LEMMA ControlInit == Init => ControlIInv
<1> SUFFICES ASSUME Init PROVE ControlIInv
  OBVIOUS
<1>1. Idle \in Operations /\ Idle.todo = <<>> /\ Idle.cmd = "none" /\ ~Idle.inside /\ Idle.lease = NoLease
  BY DEF Idle, Operations, NoLease
<1>2. op \in [Procs -> Operations] /\ \A q \in Procs : op[q] = Idle
  BY <1>1 DEF Init
<1>3. MaxLeases \in Nat \ {0} /\ Nobody \notin Procs
  BY ControlAssumption DEF ControlAssumption, Procs
<1>4. /\ intent = Nobody /\ lifecycle = Nobody /\ emergency = FALSE /\ late = FALSE
      /\ lost = {} /\ promised = {} /\ owed = {} /\ engaged = {}
  BY DEF Init
<1>5. /\ pause \in BOOLEAN /\ session \in BOOLEAN
      /\ service \in {"none", "off", "on", "halting"} /\ stage \in {"tidy", "bed", "run", "watch"}
      /\ \/ sup = Absent /\ issued = 0 /\ agents = {} /\ record = NoLease
         \/ sup = [at |-> "running", lease |-> 1] /\ issued = 1 /\ agents = {1} /\ record = 1
  BY DEF Init
<1>6. ControlTyped
  <2>1. /\ sup \in [at : {"absent", "idle", "armed", "running", "paused", "failed"}, lease : Nat]
        /\ (sup.lease # NoLease) = (sup.at \in {"armed", "running"})
    <3>1. CASE sup = Absent
      BY <3>1 DEF Absent, NoLease
    <3>2. CASE sup = [at |-> "running", lease |-> 1]
      <4>1. sup.lease = 1 /\ sup.at = "running"
        BY <3>2
      <4>2. 1 \in Nat /\ 1 # NoLease
        BY DEF NoLease
      <4>3. (sup.lease # NoLease) = (sup.at \in {"armed", "running"})
        BY <4>1, <4>2
      <4> QED
        BY <3>2, <4>2, <4>3
    <3> QED
      BY <1>5, <3>1, <3>2
  <2>2. issued \in 0 .. MaxLeases /\ sup.lease <= issued
    <3>1. CASE sup = Absent /\ issued = 0
      BY <1>3, <3>1 DEF Absent, NoLease
    <3>2. CASE sup = [at |-> "running", lease |-> 1] /\ issued = 1
      BY <1>3, <3>2
    <3> QED
      BY <1>5, <3>1, <3>2
  <2>3. agents \subseteq 1 .. issued /\ record \in 0 .. issued
    <3>1. CASE issued = 0 /\ agents = {} /\ record = NoLease
      BY <3>1 DEF NoLease
    <3>2. CASE issued = 1 /\ agents = {1} /\ record = 1
      BY <3>2
    <3> QED
      BY <1>5, <3>1, <3>2
  <2>4. lost \subseteq 1 .. issued /\ emergency \in BOOLEAN /\ late \in BOOLEAN
    BY <1>4
  <2> QED
    BY <1>2, <1>4, <1>5, <2>1, <2>2, <2>3, <2>4 DEF ControlTyped
<1>7. issued \in Nat
  BY <1>5
<1>8. <<>> \in Seq(Plain) /\ Left(<<>>) = {}
  <2>1. Len(<<>>) = 0
    OBVIOUS
  <2> QED
    BY <2>1 DEF Left
<1>9. ASSUME NEW q \in Procs PROVE ScriptOf(q) /\ Knows(q)
  <2>1. Fresh(<<>>, "none")
    BY <1>8, PlainIsFresh
  <2>2. Ordered(<<>>, "none") /\ Guarded(<<>>, intent = q, "none")
    BY <2>1, GuardedMore DEF Fresh
  <2>3. ScriptOf(q)
    BY <1>1, <1>2, <1>3, <1>4, <1>7, <2>2 DEF ScriptOf, NoLease
  <2>4. \A x : ~At(q, x)
    BY <1>1, <1>2 DEF At
  <2>5. ~Stopping(q) /\ ~Warning(q) /\ \A B : ~BedAt(q, B)
    BY <1>1, <1>2, <1>8, <2>4 DEF Stopping, Warning, BedAt
  <2>6. Knows(q)
    BY <2>4, <2>5 DEF Knows
  <2> QED
    BY <2>3, <2>6
<1>10. Accounted
  BY <1>5 DEF Accounted
<1>11. RevokedStands /\ OwedStands
  BY <1>4 DEF RevokedStands, OwedStands
<1> QED
  BY <1>6, <1>9, <1>10, <1>11 DEF ControlIInv, Orders

\* No step breaks the invariant.
LEMMA ControlStep == ControlIInv /\ [Next]_vars => ControlIInv'
<1> SUFFICES ASSUME ControlIInv, [Next]_vars PROVE ControlIInv'
  OBVIOUS
<1>1. CASE UNCHANGED vars
  <2>1. /\ op' = op /\ intent' = intent /\ lifecycle' = lifecycle /\ pause' = pause
        /\ emergency' = emergency /\ sup' = sup /\ late' = late /\ issued' = issued
        /\ agents' = agents /\ record' = record /\ lost' = lost /\ session' = session
        /\ service' = service /\ stage' = stage
        /\ promised' = promised /\ owed' = owed /\ engaged' = engaged
    BY <1>1 DEF vars, locks, markers, authority, players, platform, history
  <2>2. UNCHANGED <<op, locks>>
    BY <2>1 DEF locks
  <2>3. ControlTyped /\ SupOK(sup)
    BY Leaseless DEF ControlIInv
  <2>4. Milder
    BY <2>1, <2>3 DEF Milder, history, ControlTyped
  <2> QED
    BY <2>2, <2>4, MildWorld
<1>2. ASSUME NEW p \in Procs, Locking(p) PROVE ControlIInv'
  BY <1>2, LockKeeps, UnlockKeeps, ClaimKeeps, ReapKeeps DEF Locking
<1>3. ASSUME NEW p \in Procs, Revoking(p) PROVE ControlIInv'
  BY <1>3, LatchKeeps, EngageKeeps, RevokeKeeps, TerminateKeeps, RetireKeeps, DisarmKeeps,
     ContainKeeps, CloseKeeps, HaltKeeps DEF Revoking
<1>4. ASSUME NEW p \in Procs, Ending(p) PROVE ControlIInv'
  BY <1>4, ConfirmKeeps, FinishKeeps, AbortKeeps, WarnedKeeps DEF Ending
<1>5. ASSUME NEW p \in Procs, Resuming(p) PROVE ControlIInv'
  BY <1>5, ReopenKeeps, AloneKeeps, ServeKeeps, ClearKeeps, InspectKeeps, DisengageKeeps DEF Resuming
<1>6. ASSUME NEW p \in Procs, Launching(p) PROVE ControlIInv'
  BY <1>6, PermittedKeeps, OpenKeeps, ReadyKeeps, AdmitKeeps, ArmKeeps, ActivateKeeps, RecheckKeeps,
     SpawnKeeps, RecordKeeps DEF Launching
<1>7. ASSUME NEW p \in Procs, Upgrading(p) PROVE ControlIInv'
  BY <1>7, QualifyKeeps, WithdrawKeeps, DrainKeeps, ReloadKeeps, ReserveKeeps, WatchKeeps,
     ExamineKeeps, DisownKeeps, ReclaimKeeps, RollBackKeeps DEF Upgrading
<1>8. ASSUME NEW p \in Clients, ClientBegins(p) \/ ClientDies(p) PROVE ControlIInv'
  BY <1>8, ClientBeginsKeeps, ClientDiesKeeps
<1>9. CASE Service
  BY <1>9, LoopBeginsKeeps, LoopLeavesKeeps, ExitKeeps DEF Service
<1>10. CASE World
  BY <1>10, WorldKeeps, SeesEmergencyKeeps DEF World
<1> QED
  BY <1>1, <1>2, <1>3, <1>4, <1>5, <1>6, <1>7, <1>8, <1>9, <1>10 DEF Next, Step

\* Scripts are in order and guarded, and every process knows what it needs to, in every state:
\* the commands of cli.py and of the API, the upgrade and start.sh, in any interleaving.
THEOREM ControlInvariant == Spec => []ControlIInv
<1>1. Init => ControlIInv
  BY ControlInit
<1>2. ControlIInv /\ [Next]_vars => ControlIInv'
  BY ControlStep
<1> QED
  BY <1>1, <1>2, PTL DEF Spec

\* At most one agent lives beside those whose launcher died: who spawns holds the operator's
\* lock and has seen that nobody on record lives.
THEOREM AgentSafety == Spec => []OneAgent
<1>1. ControlIInv => OneAgent
  <2> SUFFICES ASSUME ControlIInv PROVE OneAgent
    OBVIOUS
  <2>1. ControlTyped /\ Accounted /\ \A q \in Procs : ScriptOf(q) /\ Knows(q)
    BY DEF ControlIInv, Orders
  <2>2. TypeOK
    <3>1. \A q \in Procs : op[q] = Idle => intent # q /\ lifecycle # q
      BY <2>1 DEF ScriptOf, Idle
    <3>2. issued \in Nat /\ sup.lease \in 0 .. issued
      BY <2>1, ControlAssumption DEF ControlTyped, ControlAssumption
    <3> QED
      BY <2>1, <3>1, <3>2 DEF TypeOK, ControlTyped
  <2>3. ASSUME NEW l \in agents \ lost, NEW m \in agents \ lost PROVE l = m
    <3>1. /\ l = record \/ \E q \in Procs : At(q, "record") /\ op[q].lease = l
          /\ m = record \/ \E q \in Procs : At(q, "record") /\ op[q].lease = m
      BY <2>1 DEF Accounted
    <3>2. l # NoLease /\ m # NoLease
      BY <2>1 DEF ControlTyped, NoLease
    <3>3. \A q \in Procs : At(q, "record") => record = NoLease /\ intent = q
      BY <2>1, HoldsTheLock DEF Knows, Raising
    <3> QED
      BY <3>1, <3>2, <3>3
  <2>4. Cardinality(agents \ lost) <= 1
    <3>1. CASE agents \ lost = {}
      <4>1. Cardinality(agents \ lost) = 0
        BY <3>1, FS_EmptySet
      <4> QED
        BY <4>1
    <3>2. CASE agents \ lost # {}
      <4>1. PICK l \in agents \ lost : TRUE
        BY <3>2
      <4>2. agents \ lost = {l}
        BY <2>3, <4>1
      <4>3. Cardinality({l}) = 1
        BY FS_Singleton
      <4> QED
        BY <4>2, <4>3
    <3> QED
      BY <3>1, <3>2
  <2> QED
    BY <2>2, <2>4 DEF OneAgent
<1> QED
  BY <1>1, ControlInvariant, PTL

\* What a pause, a stop, a takeover, a bedrock stop or an emergency stop reported stays true
\* until it is lifted: whoever could end it is not past its look at the markers.
THEOREM StopSafety == Spec => []StopsHold
<1>1. ControlIInv => StopsHold
  <2> SUFFICES ASSUME ControlIInv PROVE StopsHold
    OBVIOUS
  <2>1. RevokedStands /\ OwedStands
    BY DEF ControlIInv
  <2>2. PauseHolds
    BY <2>1 DEF RevokedStands, PauseHolds
  <2>3. EmergencyHolds
    BY <2>1 DEF OwedStands, EmergencyHolds
  <2> QED
    BY <2>2, <2>3 DEF StopsHold
<1> QED
  BY <1>1, ControlInvariant, PTL
=============================================================================

----------------------- MODULE PaidDirectionsProofs -----------------------
(***************************************************************************)
(* Proofs about directions, for every set of requests and callers and      *)
(* every bound on leases and toggles.                                      *)
(***************************************************************************)
EXTENDS PaidDirections, TLAPS

Rows  == [state : States, epoch : Nat, lease : Nat, current : BOOLEAN, late : BOOLEAN, count : Nat]
Steps == [at : {"none", "started", "pressed", "verified"}, when : Nat]
Frames == [screen : Screens \cup {"none"}, stamp : Nat]
Places == {"tick", "wait", "claim", "begin", "start", "active", "execute", "authorize",
           "dispatch", "sent", "finish", "abort", "down"}

Ticks == [at : Places, r : Requests \cup {NoRequest}, skill : Skills, ok : BOOLEAN]
USE DEF Ticks

\* The places of the tick at which the claimed direction may still send.
Working == {"begin", "start", "active", "execute", "authorize", "dispatch", "finish"}

Shape ==
  /\ row \in [Requests -> Rows]
  /\ step \in [Requests -> [Skills -> Steps]]
  /\ writer \in {"free", "dispatch"}
  /\ control \in [lease : 1 .. MaxLeases, up : BOOLEAN]
  /\ calls \in [Callers -> [r : Requests \cup {NoRequest}, epoch : Nat]]
  /\ \A c \in Callers : calls[c] # NoCall => calls[c].r \in Requests
  /\ ag \in Ticks
  /\ ag.at \notin {"tick", "down"} => ag.r \in Requests
  /\ screen \in Screens /\ under \in Screens \cup {"none"}
  /\ camera \in Frames /\ seen \in Frames
  /\ pulses \in Nat
  /\ pressed \in [Requests -> [Skills -> {0, 1}]]
  /\ taken \in [Requests -> SUBSET Skills] /\ read \in [Requests -> SUBSET Skills]
  /\ torn \subseteq Requests

\* The agent holds the database open exactly around a dispatch.
Writing == writer = "dispatch" <=> ag.at \in {"dispatch", "sent"}

\* What was never claimed has sent nothing.
Untouched ==
  \A r \in Requests : row[r].state \in {"none", "queued"} =>
    \A s \in Skills : step[r][s].at = "none" /\ pressed[r][s] = 0

\* A step that the agent may still send for has sent nothing yet.
Unsent ==
  ag.at \in Working /\ row[ag.r].state = "running" =>
    \A s \in Skills : step[ag.r][s].at \in {"none", "started"} => pressed[ag.r][s] = 0

\* Around a dispatch nobody else changes the receipt.
Sending ==
  ag.at \in {"dispatch", "sent"} =>
    /\ row[ag.r].state = "running" /\ row[ag.r].current /\ row[ag.r].lease = control.lease
    /\ step[ag.r][ag.skill].at = "started"

\* Just after it, only the step that was sent may be ahead of its record.
Sent ==
  ag.at = "sent" =>
    /\ \A s \in Skills \ {ag.skill} :
         step[ag.r][s].at \in {"none", "started"} => pressed[ag.r][s] = 0
    /\ ag.ok => pressed[ag.r][ag.skill] = 1

\* The receipt's count is behind by the toggle under way, and by no other.
Counted ==
  \A r \in Requests \ torn : row[r].state # "unknown" =>
    LET sum == pressed[r]["open"] + pressed[r]["close"] IN
    IF ag.at = "sent" /\ ag.r = r THEN ag.ok => row[r].count + 1 = sum ELSE row[r].count = sum

\* A recorded toggle was sent.
Recorded ==
  \A r \in Requests, s \in Skills :
    step[r][s].at \in {"pressed", "verified"} => pressed[r][s] = 1

\* What the living agent has to show for a step, and what a lease leaves behind.
Evident(r, s) == s \in IF Streams THEN read[r] ELSE taken[r]
Proven(r, s) == s \in IF row[r].lease \in Streaming THEN read[r] ELSE taken[r]

\* A frame with a stamp from after a toggle that shows its effect is evidence.
Shows(f, r, s, when) == f.stamp >= when /\ f.screen = Expected(s) => Evident(r, s)
Evidence ==
  /\ camera.stamp <= pulses /\ seen.stamp <= pulses
  /\ \A r \in Requests, s \in Skills :
       /\ step[r][s].at = "pressed" =>
            Shows(camera, r, s, step[r][s].when) /\ Shows(seen, r, s, step[r][s].when)
       /\ step[r][s].at = "verified" => Proven(r, s)
  /\ ag.at = "sent" /\ ag.ok =>
       Shows(camera, ag.r, ag.skill, pulses) /\ Shows(seen, ag.r, ag.skill, pulses)

Earned ==
  \A r \in Requests : row[r].state = "succeeded" =>
    \A s \in Skills : step[r][s].at = "verified"

IInv ==
  /\ Shape /\ Writing /\ OneOwner /\ Untouched /\ Unsent /\ Sending /\ Sent
  /\ Counted /\ Recorded /\ Evidence /\ Earned

-----------------------------------------------------------------------------
(* What the operators of the gateway do to the receipts *)

\* Receipts keep what they counted and were admitted under; one in progress may end.
Ended == {"failed", "cancelled", "expired", "unknown"}
Settles(rows) ==
  /\ rows \in [Requests -> Rows]
  /\ \A q \in Requests :
       /\ rows[q].count = row[q].count /\ rows[q].lease = row[q].lease
       /\ rows[q].state = row[q].state \/ (Pending(q) /\ rows[q].state \in Ended)

\* An agent at rest is an agent.
LEMMA IdleTicks == Idle \in Ticks /\ Idle.at = "tick"
BY DEF Idle, Places, Skills

\* A change of one step's state leaves everything else alone.
LEMMA StepMarked ==
  ASSUME step \in [Requests -> [Skills -> Steps]],
         NEW r \in Requests, NEW s \in Skills, NEW mark \in {"started", "verified"},
         step' = [step EXCEPT ![r][s].at = mark]
  PROVE  /\ step' \in [Requests -> [Skills -> Steps]]
         /\ step'[r][s].at = mark
         /\ \A q \in Requests, k \in Skills : q # r \/ k # s => step'[q][k] = step[q][k]
<1> DEFINE marked == [step[r][s] EXCEPT !.at = mark]
           one == [step[r] EXCEPT ![s] = marked]
<1>1. marked \in Steps /\ marked.at = mark
  <2>1. step[r][s] \in Steps
    OBVIOUS
  <2> QED
    BY <2>1 DEF Steps
<1>2. step' = [step EXCEPT ![r] = one]
  OBVIOUS
<1> HIDE DEF marked
<1>3. /\ one \in [Skills -> Steps] /\ one[s] = marked
      /\ \A k \in Skills : k # s => one[k] = step[r][k]
  BY <1>1
<1> HIDE DEF one
<1> QED
  BY <1>1, <1>2, <1>3

\* A new operator revision ends no receipt and counts nothing.
LEMMA BumpedRows ==
  ASSUME NEW rows \in [Requests -> Rows]
  PROVE  /\ Bumped(rows) \in [Requests -> Rows]
         /\ \A q \in Requests : /\ Bumped(rows)[q].state = rows[q].state
                                /\ Bumped(rows)[q].count = rows[q].count
                                /\ Bumped(rows)[q].lease = rows[q].lease
BY DEF Bumped, Rows

\* _revoke_conn touches the receipt it is called for, and only one in progress.
LEMMA RevokedRows ==
  ASSUME row \in [Requests -> Rows], NEW r \in Requests, NEW state \in States
  PROVE  /\ Revoked(r, state) \in [Requests -> Rows]
         /\ \A q \in Requests : /\ Revoked(r, state)[q].count = row[q].count
                                /\ Revoked(r, state)[q].lease = row[q].lease
                                /\ q # r => Revoked(r, state)[q].state = row[q].state
         /\ Revoked(r, state)[r].state = IF Pending(r) THEN state ELSE row[r].state
<1> DEFINE rows == [row EXCEPT ![r].state = state]
<1>1. /\ rows \in [Requests -> Rows]
      /\ rows[r].state = state
      /\ \A q \in Requests : /\ rows[q].count = row[q].count
                             /\ rows[q].lease = row[q].lease
                             /\ q # r => rows[q].state = row[q].state
  BY DEF Rows
<1> HIDE DEF rows
<1>2. /\ Bumped(rows) \in [Requests -> Rows]
      /\ \A q \in Requests : /\ Bumped(rows)[q].state = rows[q].state
                             /\ Bumped(rows)[q].count = rows[q].count
                             /\ Bumped(rows)[q].lease = rows[q].lease
  BY <1>1, BumpedRows
<1>3. Revoked(r, state) = IF Pending(r) THEN Bumped(rows) ELSE row
  BY DEF Revoked, rows
<1> QED
  BY <1>1, <1>2, <1>3

\* A revocation settles ...
LEMMA RevokedSettles ==
  ASSUME row \in [Requests -> Rows], NEW r \in Requests, NEW state \in Ended
  PROVE  Settles(Revoked(r, state))
<1>1. state \in States
  BY DEF Ended, States
<1>2. /\ Revoked(r, state) \in [Requests -> Rows]
      /\ \A q \in Requests : /\ Revoked(r, state)[q].count = row[q].count
                             /\ Revoked(r, state)[q].lease = row[q].lease
                             /\ q # r => Revoked(r, state)[q].state = row[q].state
      /\ Revoked(r, state)[r].state = IF Pending(r) THEN state ELSE row[r].state
  BY <1>1, RevokedRows
<1> HIDE DEF Revoked, Pending
<1> QED
  BY <1>2 DEF Settles

\* ... and so does a poll ...
LEMMA ReconciledSettles ==
  ASSUME row \in [Requests -> Rows], NEW r \in Requests
  PROVE  Settles(Reconciled(r))
BY RevokedSettles DEF Settles, Reconciled, Ended

\* ... and a new revision.
LEMMA BumpedSettles ==
  ASSUME row \in [Requests -> Rows]
  PROVE  Settles(row) /\ Settles(Bumped(row))
BY BumpedRows DEF Settles
-----------------------------------------------------------------------------
(* The invariant is inductive *)

(***************************************************************************)
(* Most steps only move the tick and let receipts end: clients, the        *)
(* operator, and every refusal.  They keep the invariant when they leave   *)
(* no toggle behind unrecorded and do not make the tick work for another   *)
(* request.                                                                *)
(***************************************************************************)
Aside ==
  /\ Settles(row') /\ UNCHANGED <<step, control, calls, game, pulses, history>>
  /\ writer' = "free" /\ ag'.at \notin {"dispatch", "sent"}
  /\ ag' \in Ticks
  /\ ag'.at \notin {"tick", "down"} => ag'.r \in Requests
  /\ ag'.at \in Working => ag.at \in Working \cup {"sent"} /\ ag'.r = ag.r
  /\ ag.at = "sent" => row'[ag.r].state = "unknown"

\* Evidence stays evidence while pictures, toggles and what was recorded of them
\* stay, and nothing new has just been sent.
LEMMA EvidenceKept ==
  ASSUME Evidence, control'.lease = control.lease, UNCHANGED <<step, camera, seen, pulses, taken, read>>,
         \A r \in Requests, s \in Skills : step[r][s].at = "verified" => row'[r].lease = row[r].lease,
         ag'.at # "sent" \/ ag' = ag
  PROVE  Evidence'
BY DEF Evidence, Shows, Evident, Proven, Streams

\* Such a step keeps the invariant, whatever it does to the tick.
LEMMA AsideKeeps == ASSUME IInv, Aside PROVE IInv'
<1>1. /\ row \in [Requests -> Rows] /\ row' \in [Requests -> Rows]
      /\ step' = step /\ control' = control /\ calls' = calls /\ pulses' = pulses
      /\ screen' = screen /\ under' = under /\ camera' = camera /\ seen' = seen
      /\ pressed' = pressed /\ taken' = taken /\ read' = read /\ torn' = torn
  BY DEF IInv, Shape, Aside, Settles, game, frames, history
<1>2. \A q \in Requests :
        /\ row'[q].count = row[q].count
        /\ row'[q].state = row[q].state \/ (Pending(q) /\ row'[q].state \in Ended)
  BY DEF Aside, Settles
<1>3. Shape'
  BY <1>1 DEF IInv, Shape, Aside
<1>4. Writing' /\ Sending' /\ Sent'
  BY DEF Aside, Writing, Sending, Sent
<1>5. OneOwner'
  BY <1>2 DEF IInv, OneOwner, Pending, Ended
<1>6. Untouched'
  BY <1>1, <1>2 DEF IInv, Untouched, Ended
<1>7. Unsent'
  BY <1>1, <1>2 DEF IInv, Shape, Unsent, Aside, Ended, Pending, Working
<1>8. Counted'
  BY <1>1, <1>2 DEF IInv, Counted, Aside, Ended, Pending
<1>9. Recorded' /\ Evidence'
  <2>1. \A q \in Requests : row'[q].lease = row[q].lease
    BY DEF Aside, Settles
  <2> QED
    BY <1>1, <2>1, EvidenceKept DEF IInv, Recorded, Aside
<1>10. Earned'
  BY <1>1, <1>2 DEF IInv, Earned, Ended
<1> QED
  BY <1>3, <1>4, <1>5, <1>6, <1>7, <1>8, <1>9, <1>10 DEF IInv

\* Submissions, polls and cancellations; only an admission starts a receipt.
LEMMA ClientsKeep == ASSUME IInv, Clients PROVE IInv'
<1>1. CASE SubmitCheck
  <2>1. Shape'
    <3>1. PICK c \in Callers, r \in Requests :
            calls' = [calls EXCEPT ![c] = [r |-> r, epoch |-> control.lease]]
      BY <1>1 DEF SubmitCheck
    <3>2. /\ calls' \in [Callers -> [r : Requests \cup {NoRequest}, epoch : Nat]]
          /\ \A d \in Callers : calls'[d] # NoCall => calls'[d].r \in Requests
      BY <3>1 DEF IInv, Shape
    <3> QED
      BY <1>1, <3>2 DEF SubmitCheck, IInv, Shape, receipts, game, frames, history
  <2>2. /\ row' = row /\ step' = step /\ writer' = writer /\ control' = control /\ ag' = ag
        /\ under' = under /\ camera' = camera /\ seen' = seen /\ pulses' = pulses
        /\ pressed' = pressed /\ taken' = taken /\ read' = read /\ torn' = torn
    BY <1>1 DEF SubmitCheck, receipts, game, frames, history
  <2> QED
    BY <2>1, <2>2 DEF IInv, Writing, OneOwner, Pending, Untouched, Unsent, Sending, Sent,
                      Counted, Recorded, Evidence, Shows, Evident, Proven, Streams, Earned
<1>2. CASE Admit
  <2>1. PICK c \in Callers :
          /\ calls[c] # NoCall /\ writer = "free"
          /\ row' = IF row[calls[c].r].state # "none" \/ \E s \in Requests : Pending(s) THEN row
                    ELSE [Bumped(row) EXCEPT ![calls[c].r] = NewRow(calls[c].epoch)]
          /\ calls' = [calls EXCEPT ![c] = NoCall]
          /\ UNCHANGED <<step, writer, control, ag, game, pulses, history>>
    BY <1>2 DEF Admit
  <2> DEFINE r == calls[c].r
  <2>2. /\ step' = step /\ writer' = writer /\ control' = control /\ ag' = ag
        /\ screen' = screen /\ under' = under /\ camera' = camera /\ seen' = seen /\ pulses' = pulses
        /\ pressed' = pressed /\ taken' = taken /\ read' = read /\ torn' = torn
    BY <2>1 DEF game, frames, history
  <2>3. r \in Requests /\ row \in [Requests -> Rows]
    BY <2>1 DEF IInv, Shape
  <2>4. ag.at \notin {"dispatch", "sent"}
    BY <2>1 DEF IInv, Writing
  <2>5. /\ row' \in [Requests -> Rows]
        /\ \/ row' = row
           \/ /\ \A s \in Requests : ~Pending(s)
              /\ row[r].state = "none" /\ row'[r].state = "queued" /\ row'[r].count = 0
              /\ \A q \in Requests \ {r} : /\ row'[q].state = row[q].state
                                           /\ row'[q].count = row[q].count
                                           /\ row'[q].lease = row[q].lease
    <3>1. CASE row' = row
      BY <3>1, <2>3
    <3>2. CASE row' # row
      <4>1. /\ row[r].state = "none" /\ \A s \in Requests : ~Pending(s)
            /\ row' = [Bumped(row) EXCEPT ![r] = NewRow(calls[c].epoch)]
        BY <3>2, <2>1
      <4>2. /\ NewRow(calls[c].epoch) \in Rows
            /\ NewRow(calls[c].epoch).state = "queued" /\ NewRow(calls[c].epoch).count = 0
        BY DEF NewRow, Rows, States, IInv, Shape
      <4>3. /\ Bumped(row) \in [Requests -> Rows]
            /\ \A q \in Requests : /\ Bumped(row)[q].state = row[q].state
                                   /\ Bumped(row)[q].count = row[q].count
                                   /\ Bumped(row)[q].lease = row[q].lease
        BY <2>3, BumpedRows
      <4> HIDE DEF r
      <4> QED
        BY <4>1, <4>2, <4>3, <2>3
    <3> QED
      BY <3>1, <3>2
  <2> HIDE DEF r
  <2>6. /\ calls' \in [Callers -> [r : Requests \cup {NoRequest}, epoch : Nat]]
        /\ \A d \in Callers : calls'[d] # NoCall => calls'[d].r \in Requests
    BY <2>1 DEF IInv, Shape, NoCall
  <2>7. Shape'
    BY <2>2, <2>5, <2>6 DEF IInv, Shape
  <2>8. Writing' /\ Sending' /\ Sent' /\ Recorded' /\ Evidence'
    <3>1. Writing' /\ Sending' /\ Sent' /\ Recorded'
      BY <2>2, <2>4 DEF IInv, Writing, Sending, Sent, Recorded
    <3>2. \A q \in Requests, s \in Skills : step[q][s].at = "verified" => row'[q].lease = row[q].lease
      BY <2>3, <2>5 DEF IInv, Untouched
    <3> QED
      BY <2>2, <2>4, <3>1, <3>2, EvidenceKept DEF IInv
  <2>9. OneOwner' /\ Untouched' /\ Earned'
    BY <2>2, <2>3, <2>5 DEF IInv, OneOwner, Pending, Untouched, Earned
  <2>10. Unsent'
    BY <2>2, <2>3, <2>5 DEF IInv, Shape, Unsent, Pending, Working
  <2>11. Counted'
    BY <2>2, <2>3, <2>4, <2>5 DEF IInv, Shape, Counted, Untouched, Skills
  <2> QED
    BY <2>7, <2>8, <2>9, <2>10, <2>11 DEF IInv
<1>3. ASSUME NEW rows, Settles(rows), row' = rows, writer = "free",
             UNCHANGED <<step, writer, control, calls, ag, game, pulses, history>>
      PROVE  IInv'
  <2>1. Aside
    BY <1>3 DEF Aside, IInv, Shape, Writing
  <2> QED
    BY <2>1, AsideKeeps
<1>4. CASE Status
  BY <1>3, <1>4, ReconciledSettles DEF Status, IInv, Shape
<1>5. CASE Cancel
  BY <1>3, <1>5, RevokedSettles DEF Cancel, IInv, Shape, Ended
<1> QED
  BY <1>1, <1>2, <1>4, <1>5 DEF Clients

\* What the tick does besides letting receipts end: it claims, starts a step,
\* opens the transaction of a toggle, sends, records and verifies.
LEMMA ClaimKeeps == ASSUME IInv, Claim PROVE IInv'
<1> DEFINE r == ag.r
<1>1. /\ ag.at = "claim" /\ r \in Requests /\ writer = "free" /\ row \in [Requests -> Rows]
      /\ ag \in Ticks
      /\ UNCHANGED <<step, writer, control, calls, game, pulses, history>>
  BY DEF Claim, At, Write, IInv, Shape
<1>2. ASSUME NEW state \in Ended, row' = Revoked(r, state), ag' = Idle
      PROVE  IInv'
  <2>1. Settles(row')
    BY <1>1, <1>2, RevokedSettles
  <2>2. Aside
    BY <1>1, <1>2, <2>1 DEF Aside, Idle, Places, Skills, Working
  <2> QED
    BY <2>2, AsideKeeps
<1>3. ASSUME row[r].state = "queued", row' = [row EXCEPT ![r].state = "running"],
             Goto("begin")
      PROVE  IInv'
  <2>1. /\ row' \in [Requests -> Rows]
        /\ row'[r].state = "running"
        /\ \A q \in Requests : /\ row'[q].count = row[q].count /\ row'[q].lease = row[q].lease
                               /\ q # r => row'[q].state = row[q].state
    BY <1>1, <1>3 DEF Rows, States
  <2>2. ag' = [ag EXCEPT !.at = "begin"]
    BY <1>3 DEF Goto
  <2>3. /\ ag' \in Ticks
        /\ ag'.at = "begin" /\ ag'.r = r
    BY <1>1, <2>2 DEF Places
  <2>4. /\ step' = step /\ writer' = writer /\ control' = control /\ calls' = calls
        /\ screen' = screen /\ under' = under /\ camera' = camera /\ seen' = seen /\ pulses' = pulses
        /\ pressed' = pressed /\ taken' = taken /\ read' = read /\ torn' = torn
    BY <1>1 DEF game, frames, history
  <2> HIDE DEF r
  <2>5. Shape'
    BY <1>1, <2>1, <2>3, <2>4 DEF IInv, Shape
  <2>6. Writing' /\ Sending' /\ Sent' /\ Recorded' /\ Evidence'
    <3>1. Writing' /\ Sending' /\ Sent' /\ Recorded'
      BY <1>1, <2>3, <2>4 DEF IInv, Writing, Sending, Sent, Recorded
    <3> QED
      BY <1>1, <2>1, <2>3, <2>4, <3>1, EvidenceKept DEF IInv
  <2>7. OneOwner' /\ Untouched' /\ Earned'
    BY <1>1, <1>3, <2>1, <2>4 DEF IInv, OneOwner, Pending, Untouched, Earned
  <2>8. Unsent'
    BY <1>1, <1>3, <2>3, <2>4 DEF IInv, Untouched, Unsent
  <2>9. Counted'
    BY <1>1, <1>3, <2>1, <2>3, <2>4 DEF IInv, Counted
  <2> QED
    BY <2>5, <2>6, <2>7, <2>8, <2>9 DEF IInv
<1> QED
  BY <1>2, <1>3 DEF Claim, Ended

\* A step is started from nothing, in order.
LEMMA StartStepKeeps == ASSUME IInv, StartStep PROVE IInv'
<1> DEFINE r == ag.r
           s == ag.skill
<1>1. /\ ag.at = "start" /\ r \in Requests /\ s \in Skills /\ writer = "free"
      /\ row \in [Requests -> Rows] /\ step \in [Requests -> [Skills -> Steps]]
      /\ ag \in Ticks
      /\ row' = row /\ UNCHANGED <<writer, control, calls, game, pulses, history>>
  BY DEF StartStep, At, Write, IInv, Shape
<1>2. CASE UNCHANGED step /\ Goto("abort")
  <2>1. ag' \in Ticks
        /\ ag'.at = "abort" /\ ag'.r = ag.r
    BY <1>1, <1>2 DEF Goto, Places
  <2>2. Aside
    BY <1>1, <1>2, <2>1, BumpedSettles DEF Aside, Working
  <2> QED
    BY <2>2, AsideKeeps
<1>3. CASE /\ Authorized(r) /\ InOrder(r, s)
           /\ step' = [step EXCEPT ![r][s].at = "started"] /\ Goto("active")
  <2>1. /\ step' \in [Requests -> [Skills -> Steps]]
        /\ step'[r][s].at = "started" /\ step[r][s].at = "none"
        /\ \A q \in Requests, k \in Skills : q # r \/ k # s => step'[q][k] = step[q][k]
    BY <1>1, <1>3, StepMarked DEF InOrder
  <2>2. /\ ag' \in Ticks
        /\ ag'.at = "active" /\ ag'.r = r
    BY <1>1, <1>3 DEF Goto, Places
  <2>3. /\ row' = row /\ writer' = writer /\ control' = control /\ calls' = calls
        /\ screen' = screen /\ under' = under /\ camera' = camera /\ seen' = seen /\ pulses' = pulses
        /\ pressed' = pressed /\ taken' = taken /\ read' = read /\ torn' = torn
    BY <1>1 DEF game, frames, history
  <2>4. row[r].state = "running"
    BY <1>3 DEF Authorized
  <2> HIDE DEF r, s
  <2>5. Shape'
    BY <1>1, <2>1, <2>2, <2>3 DEF IInv, Shape
  <2>6. Writing' /\ Sending' /\ Sent' /\ OneOwner'
    BY <1>1, <2>2, <2>3 DEF IInv, Writing, Sending, Sent, OneOwner, Pending
  <2>7. Untouched' /\ Recorded' /\ Earned'
    <3>1. Untouched'
      BY <1>1, <2>1, <2>3, <2>4 DEF IInv, Untouched
    <3>2. Recorded'
      BY <1>1, <2>1, <2>3 DEF IInv, Recorded
    <3>3. Earned'
      BY <1>1, <2>1, <2>3, <2>4 DEF IInv, Earned
    <3> QED
      BY <3>1, <3>2, <3>3
  <2>8. Unsent'
    <3>1. \A k \in Skills : step[r][k].at \in {"none", "started"} => pressed[r][k] = 0
      BY <1>1, <2>4 DEF IInv, Unsent, Working, r
    <3> QED
      BY <1>1, <2>1, <2>2, <2>3, <3>1 DEF Unsent
  <2>9. Counted'
    BY <1>1, <2>2, <2>3 DEF IInv, Counted
  <2>10. Evidence'
    BY <1>1, <2>1, <2>2, <2>3 DEF IInv, Evidence, Shows, Evident, Proven, Streams
  <2> QED
    BY <2>5, <2>6, <2>7, <2>8, <2>9, <2>10 DEF IInv
<1> QED
  BY <1>2, <1>3 DEF StartStep

\* The transaction opens over a started step that has sent nothing.
LEMMA AuthorizeKeeps == ASSUME IInv, Authorize PROVE IInv'
<1> DEFINE r == ag.r
<1>1. /\ ag.at = "authorize" /\ r \in Requests /\ writer = "free"
      /\ row \in [Requests -> Rows] /\ row' = row
      /\ ag \in Ticks
      /\ UNCHANGED <<step, control, calls, game, pulses, history>>
  BY DEF Authorize, At, receipts, IInv, Shape
<1>2. CASE Goto("abort") /\ UNCHANGED writer
  <2>1. ag' \in Ticks
        /\ ag'.at = "abort" /\ ag'.r = ag.r
    BY <1>1, <1>2 DEF Goto, Places
  <2>2. Aside
    BY <1>1, <1>2, <2>1, BumpedSettles DEF Aside, Working
  <2> QED
    BY <2>2, AsideKeeps
<1>3. CASE /\ Authorized(r) /\ step[r][ag.skill].at = "started"
           /\ writer' = "dispatch" /\ Goto("dispatch")
  <2>1. /\ ag' \in Ticks
        /\ ag'.at = "dispatch" /\ ag'.r = r /\ ag'.skill = ag.skill
    BY <1>1, <1>3 DEF Goto, Places
  <2>2. /\ step' = step /\ control' = control /\ calls' = calls
        /\ screen' = screen /\ under' = under /\ camera' = camera /\ seen' = seen /\ pulses' = pulses
        /\ pressed' = pressed /\ taken' = taken /\ read' = read /\ torn' = torn
    BY <1>1 DEF game, frames, history
  <2>3. row[r].state = "running" /\ row[r].current /\ row[r].lease = control.lease
    BY <1>3 DEF Authorized, Interrupted
  <2> HIDE DEF r
  <2>4. Shape'
    BY <1>1, <1>3, <2>1, <2>2 DEF IInv, Shape
  <2>5. Writing' /\ Sending' /\ Sent'
    BY <1>1, <1>3, <2>1, <2>2, <2>3 DEF IInv, Writing, Sending, Sent
  <2>6. OneOwner' /\ Untouched' /\ Recorded' /\ Earned' /\ Evidence' /\ Counted'
    BY <1>1, <2>1, <2>2 DEF IInv, OneOwner, Pending, Untouched, Recorded, Earned, Evidence,
                            Shows, Evident, Proven, Streams, Counted
  <2>7. Unsent'
    BY <1>1, <2>1, <2>2 DEF IInv, Unsent, Working, r
  <2> QED
    BY <2>4, <2>5, <2>6, <2>7 DEF IInv
<1> QED
  BY <1>2, <1>3 DEF Authorize

\* The toggle goes out: the game is one ahead of the receipt.
LEMMA DispatchKeeps == ASSUME IInv, Dispatch PROVE IInv'
<1> DEFINE r == ag.r
           s == ag.skill
<1>1. /\ ag.at = "dispatch" /\ r \in Requests /\ s \in Skills
      /\ ag \in Ticks
      /\ row' = row /\ step' = step /\ writer' = writer /\ control' = control
      /\ calls' = calls /\ under' = under /\ camera' = camera /\ seen' = seen
      /\ taken' = taken /\ read' = read /\ torn' = torn
  BY DEF Dispatch, At, receipts, frames, IInv, Shape
<1>2. /\ row[r].state = "running" /\ row[r].current /\ row[r].lease = control.lease
      /\ step[r][s].at = "started"
  BY <1>1 DEF IInv, Sending
<1>3. \A k \in Skills : step[r][k].at \in {"none", "started"} => pressed[r][k] = 0
  BY <1>1, <1>2 DEF IInv, Unsent, Working
<1>4. /\ ag' \in Ticks
      /\ ag'.at = "sent" /\ ag'.r = r /\ ag'.skill = s
      /\ \/ /\ pulses' = pulses + 1
            /\ pressed' = [pressed EXCEPT ![r][s] = @ + 1]
         \/ ~ag'.ok /\ pulses' = pulses /\ pressed' = pressed
      /\ screen' \in Screens
  BY <1>1 DEF Dispatch, IInv, Shape, Places, Screens, Toggled
<1>5. /\ pressed' \in [Requests -> [Skills -> {0, 1}]]
      /\ \A q \in Requests, k \in Skills : q # r \/ k # s => pressed'[q][k] = pressed[q][k]
      /\ ag'.ok => pressed'[r][s] = 1
  <2>1. pressed \in [Requests -> [Skills -> {0, 1}]] /\ pressed[r][s] = 0
    BY <1>1, <1>2, <1>3 DEF IInv, Shape
  <2>2. CASE pressed' = [pressed EXCEPT ![r][s] = @ + 1]
    <3>1. pressed' = [pressed EXCEPT ![r] = [pressed[r] EXCEPT ![s] = 1]]
      BY <2>1, <2>2, <1>1
    <3> HIDE DEF r, s
    <3> QED
      BY <1>1, <2>1, <3>1
  <2>3. CASE ~ag'.ok /\ pressed' = pressed
    BY <2>1, <2>3
  <2> QED
    BY <1>4, <2>2, <2>3
<1>6. pulses \in Nat /\ pulses' \in Nat /\ pulses' >= pulses /\ (ag'.ok => pulses' = pulses + 1)
  BY <1>4 DEF IInv, Shape
<1> HIDE DEF r, s
<1>7. Shape'
  BY <1>1, <1>4, <1>5, <1>6 DEF IInv, Shape
<1>8. Writing' /\ Sending' /\ OneOwner' /\ Earned'
  BY <1>1, <1>2, <1>4 DEF IInv, Writing, Sending, OneOwner, Pending, Earned
<1>9. Unsent' /\ Sent'
  BY <1>1, <1>3, <1>4, <1>5 DEF Unsent, Sent, Working
<1>10. Untouched' /\ Recorded'
  <2>1. Untouched'
    BY <1>1, <1>2, <1>5 DEF IInv, Untouched
  <2>2. Recorded'
    BY <1>1, <1>2, <1>5 DEF IInv, Recorded
  <2> QED
    BY <2>1, <2>2
<1>11. Counted'
  <2> SUFFICES ASSUME NEW q \in Requests \ torn, row[q].state # "unknown"
               PROVE  LET sum == pressed'[q]["open"] + pressed'[q]["close"] IN
                      IF q = r THEN ag'.ok => row[q].count + 1 = sum ELSE row[q].count = sum
    BY <1>1, <1>4 DEF Counted
  <2>1. row[q].count = pressed[q]["open"] + pressed[q]["close"]
    BY <1>1 DEF IInv, Counted
  <2>2. CASE q # r
    BY <1>5, <2>1, <2>2 DEF Skills
  <2>3. CASE q = r
    <3>1. ASSUME ag'.ok
          PROVE  row[r].count + 1 = pressed'[r]["open"] + pressed'[r]["close"]
      <4>1. /\ pressed[r][s] = 0 /\ pressed'[r][s] = 1
            /\ \A k \in Skills : k # s => pressed'[r][k] = pressed[r][k]
        BY <1>1, <1>2, <1>3, <1>5, <3>1
      <4>2. s = "open" \/ s = "close"
        BY <1>1 DEF Skills
      <4>3. pressed[r] \in [Skills -> {0, 1}]
        BY <1>1 DEF IInv, Shape
      <4> QED
        BY <2>1, <2>3, <4>1, <4>2, <4>3 DEF Skills
    <3> QED
      BY <2>3, <3>1
  <2> QED
    BY <2>2, <2>3
<1>12. Evidence'
  BY <1>1, <1>4, <1>6 DEF IInv, Shape, Frames, Evidence, Shows, Evident, Proven, Streams
<1> QED
  BY <1>7, <1>8, <1>9, <1>10, <1>11, <1>12 DEF IInv

\* The record catches up, or the receipt says that it does not know.
LEMMA RecordKeeps == ASSUME IInv, Record PROVE IInv'
<1> DEFINE r == ag.r
           s == ag.skill
<1>1. /\ ag.at = "sent" /\ r \in Requests /\ s \in Skills /\ writer' = "free"
      /\ row \in [Requests -> Rows] /\ step \in [Requests -> [Skills -> Steps]]
      /\ ag \in Ticks
      /\ UNCHANGED <<control, calls, game, pulses, history>>
  BY DEF Record, At, IInv, Shape
<1>2. row[r].state = "running" /\ step[r][s].at = "started"
  BY <1>1 DEF IInv, Sending
<1>3. CASE ~ag.ok
  <2>1. /\ row' = Revoked(r, "unknown") /\ step' = step
        /\ ag' \in {[ag EXCEPT !.at = "abort"], [ag EXCEPT !.at = "active"], Down}
    BY <1>3 DEF Record
  <2>2. Settles(row') /\ row'[r].state = "unknown"
    <3>1. "unknown" \in Ended /\ "unknown" \in States /\ Pending(r)
      BY <1>2 DEF Ended, States, Pending
    <3> QED
      BY <1>1, <2>1, <3>1, RevokedSettles, RevokedRows
  <2>3. /\ ag' \in Ticks
        /\ ag'.at \in {"abort", "active", "down"} /\ (ag'.at # "down" => ag'.r = r)
    BY <1>1, <2>1 DEF Down, Idle, Places, Skills
  <2>4. Aside
    BY <1>1, <2>1, <2>2, <2>3 DEF Aside, Working
  <2> QED
    BY <2>4, AsideKeeps
<1>4. CASE ag.ok
  <2>1. /\ row' = [row EXCEPT ![r].count = @ + 1]
        /\ step' = [step EXCEPT ![r][s] = [at |-> "pressed", when |-> pulses]]
        /\ ag' = [ag EXCEPT !.at = "active"]
    BY <1>4 DEF Record, Goto
  <2>2. pulses \in Nat
    BY DEF IInv, Shape
  <2>3. /\ row' \in [Requests -> Rows]
        /\ row'[r].count = row[r].count + 1
        /\ \A q \in Requests : /\ row'[q].state = row[q].state
                               /\ q # r => row'[q].count = row[q].count
    BY <1>1, <2>1 DEF Rows
  <2>4. /\ step' \in [Requests -> [Skills -> Steps]]
        /\ step'[r][s].at = "pressed" /\ step'[r][s].when = pulses
        /\ \A q \in Requests, k \in Skills : q # r \/ k # s => step'[q][k] = step[q][k]
    BY <1>1, <2>1, <2>2 DEF Steps
  <2>5. /\ ag' \in Ticks
        /\ ag'.at = "active" /\ ag'.r = r
    BY <1>1, <2>1 DEF Places
  <2>6. /\ control' = control /\ calls' = calls
        /\ screen' = screen /\ under' = under /\ camera' = camera /\ seen' = seen /\ pulses' = pulses
        /\ pressed' = pressed /\ taken' = taken /\ read' = read /\ torn' = torn
    BY <1>1 DEF game, frames, history
  <2>7. /\ pressed[r][s] = 1
        /\ \A k \in Skills \ {s} : step[r][k].at \in {"none", "started"} => pressed[r][k] = 0
    BY <1>1, <1>4 DEF IInv, Sent
  <2> HIDE DEF r, s
  <2>8. Shape'
    BY <1>1, <2>3, <2>4, <2>5, <2>6 DEF IInv, Shape
  <2>9. Writing' /\ Sending' /\ Sent' /\ OneOwner'
    BY <1>1, <2>3, <2>5 DEF IInv, Writing, Sending, Sent, OneOwner, Pending
  <2>10. Unsent'
    BY <1>1, <2>4, <2>5, <2>6, <2>7 DEF Unsent
  <2>11. Untouched' /\ Recorded' /\ Earned'
    <3>1. Untouched'
      <4> SUFFICES ASSUME NEW q \in Requests, row[q].state \in {"none", "queued"},
                          NEW k \in Skills
                   PROVE  step[q][k].at = "none" /\ pressed[q][k] = 0 /\ q # r
        BY <2>3, <2>4, <2>6 DEF Untouched
      <4> QED
        BY <1>2 DEF IInv, Untouched
    <3>2. Recorded'
      BY <1>1, <2>4, <2>6, <2>7 DEF IInv, Recorded
    <3>3. Earned'
      BY <1>1, <1>2, <2>3, <2>4 DEF IInv, Earned
    <3> QED
      BY <3>1, <3>2, <3>3
  <2>12. Counted'
    BY <1>1, <1>4, <2>3, <2>5, <2>6 DEF IInv, Counted, r
  <2>13. Evidence'
    <3>1. Shows(camera, r, s, pulses) /\ Shows(seen, r, s, pulses)
      BY <1>1, <1>4 DEF IInv, Evidence, r, s
    <3>2. \A q \in Requests : row'[q].lease = row[q].lease
      BY <1>1, <2>1 DEF Rows, r
    <3>3. camera.stamp <= pulses /\ seen.stamp <= pulses /\ Streams' = Streams
      BY <2>6 DEF IInv, Evidence, Streams
    <3>4. \A q \in Requests, k \in Skills :
            /\ step'[q][k].at = "pressed" =>
                 /\ Shows(camera, q, k, step'[q][k].when) /\ Shows(seen, q, k, step'[q][k].when)
            /\ step'[q][k].at = "verified" => Proven(q, k)
      BY <1>1, <2>4, <3>1 DEF IInv, Evidence
    <3> QED
      BY <2>5, <2>6, <3>2, <3>3, <3>4 DEF Evidence, Shows, Evident, Proven
  <2> QED
    BY <2>8, <2>9, <2>10, <2>11, <2>12, <2>13 DEF IInv
<1> QED
  BY <1>1, <1>3, <1>4

\* A step is verified on a frame from after its toggle.
LEMMA FinishStepKeeps == ASSUME IInv, FinishStep PROVE IInv'
<1> DEFINE r == ag.r
           s == ag.skill
<1>1. /\ ag.at = "finish" /\ r \in Requests /\ s \in Skills /\ writer = "free"
      /\ row \in [Requests -> Rows] /\ step \in [Requests -> [Skills -> Steps]]
      /\ ag \in Ticks
      /\ UNCHANGED <<writer, control, calls, game, pulses, history>>
  BY DEF FinishStep, At, Write, IInv, Shape
<1>2. ASSUME Settles(row'), step' = step, ag' = Idle \/ Goto("abort")
      PROVE  IInv'
  <2>1. /\ ag' \in Ticks
        /\ ag'.at \in {"tick", "abort"} /\ (ag'.at = "abort" => ag'.r = ag.r)
    BY <1>1, <1>2, IdleTicks DEF Goto, Places
  <2>2. Aside
    BY <1>1, <1>2, <2>1 DEF Aside, Working
  <2> QED
    BY <2>2, AsideKeeps
<1>3. CASE ~Authorized(r) /\ Goto("abort") /\ UNCHANGED receipts
  BY <1>1, <1>2, <1>3, BumpedSettles DEF receipts
<1>4. CASE row' = Revoked(r, "failed") /\ ag' = Idle /\ UNCHANGED step
  BY <1>1, <1>2, <1>4, RevokedSettles DEF Ended
<1>5. ASSUME Authorized(r), Verified(r, s), NEW rows, rows \in [Requests -> Rows],
             step' = [step EXCEPT ![r][s].at = "verified"], row' = rows,
             \A q \in Requests : /\ rows[q].count = row[q].count /\ rows[q].lease = row[q].lease
                                 /\ rows[q].state = row[q].state \/ q = r,
             \/ /\ rows[r].state = "running" /\ ag' = [ag EXCEPT !.at = "start", !.skill = "close"]
             \/ /\ ag' = Idle
                /\ \/ rows[r].state = "failed"
                   \/ rows[r].state = "succeeded"
                      /\ \A k \in Skills : k = s \/ step[r][k].at = "verified"
      PROVE  IInv'
  <2>1. /\ row[r].state = "running" /\ step[r][s].at = "pressed"
        /\ seen.stamp >= step[r][s].when /\ seen.screen = Expected(s)
        /\ row[r].lease = control.lease
    BY <1>5 DEF Authorized, Interrupted, Verified
  <2>2. /\ step' \in [Requests -> [Skills -> Steps]]
        /\ step'[r][s].at = "verified"
        /\ \A q \in Requests, k \in Skills : q # r \/ k # s => step'[q][k] = step[q][k]
    <3>1. /\ step \in [Requests -> [Skills -> Steps]] /\ r \in Requests /\ s \in Skills
          /\ step' = [step EXCEPT ![r][s].at = "verified"]
      BY <1>1, <1>5
    <3> HIDE DEF r, s
    <3> QED
      BY <3>1, StepMarked
  <2>3. /\ ag' \in Ticks
        /\ \/ ag'.at = "start" /\ ag'.r = r
           \/ ag'.at = "tick" /\ rows[r].state # "running"
    <3>1. CASE rows[r].state = "running" /\ ag' = [ag EXCEPT !.at = "start", !.skill = "close"]
      BY <1>1, <3>1 DEF Places, Skills
    <3>2. CASE rows[r].state # "running" /\ ag' = Idle
      BY <3>2, IdleTicks
    <3> QED
      BY <1>5, <3>1, <3>2
  <2>4. /\ writer' = writer /\ control' = control /\ calls' = calls
        /\ screen' = screen /\ under' = under /\ camera' = camera /\ seen' = seen /\ pulses' = pulses
        /\ pressed' = pressed /\ taken' = taken /\ read' = read /\ torn' = torn
    BY <1>1 DEF game, frames, history
  <2>5. rows[r].state \in {"running", "failed", "succeeded"}
    BY <1>5
  <2>6. rows[r].state = "succeeded" => \A k \in Skills : step'[r][k].at = "verified"
    BY <1>1, <1>5, <2>2
  <2> HIDE DEF r, s
  <2>7. Shape'
    BY <1>1, <1>5, <2>2, <2>3, <2>4 DEF IInv, Shape
  <2>8. Writing' /\ Sending' /\ Sent'
    BY <1>1, <2>3, <2>4 DEF Writing, Sending, Sent
  <2>9. OneOwner'
    BY <1>1, <1>5, <2>1, <2>5 DEF IInv, OneOwner, Pending
  <2>10. Untouched'
    <3> SUFFICES ASSUME NEW q \in Requests, row'[q].state \in {"none", "queued"}, NEW k \in Skills
                 PROVE  q # r /\ step[q][k].at = "none" /\ pressed[q][k] = 0
      BY <2>2, <2>4 DEF Untouched
    <3> QED
      BY <1>5, <2>5 DEF IInv, Untouched
  <2>11. Unsent'
    <3>1. \A k \in Skills : step[r][k].at \in {"none", "started"} => pressed[r][k] = 0
      BY <1>1, <2>1 DEF IInv, Unsent, Working, r
    <3> QED
      BY <1>1, <1>5, <2>2, <2>3, <2>4, <3>1 DEF Unsent, Working
  <2>12. Counted'
    BY <1>1, <1>5, <2>1, <2>3, <2>4 DEF IInv, Counted
  <2>13. Recorded'
    BY <1>1, <2>1, <2>2, <2>4 DEF IInv, Recorded
  <2>14. Evidence'
    <3>1. Proven(r, s)
      BY <1>1, <2>1 DEF IInv, Evidence, Shows, Evident, Proven, Streams
    <3> QED
      BY <1>1, <1>5, <2>2, <2>3, <2>4, <3>1 DEF IInv, Evidence, Shows, Evident, Proven, Streams
  <2>15. Earned'
    <3> SUFFICES ASSUME NEW q \in Requests, row'[q].state = "succeeded", NEW k \in Skills
                 PROVE  step'[q][k].at = "verified"
      BY DEF Earned
    <3>1. CASE q = r
      BY <1>5, <2>6, <3>1
    <3>2. CASE q # r
      BY <1>5, <2>2, <3>2 DEF IInv, Earned
    <3> QED
      BY <3>1, <3>2
  <2> QED
    BY <2>7, <2>8, <2>9, <2>10, <2>11, <2>12, <2>13, <2>14, <2>15 DEF IInv
<1>6. CASE /\ Authorized(r) /\ Verified(r, s) /\ s = "open"
           /\ step' = [step EXCEPT ![r]["open"].at = "verified"]
           /\ ag' = [ag EXCEPT !.at = "start", !.skill = "close"]
           /\ UNCHANGED row
  <2>1. row[r].state = "running"
    BY <1>6 DEF Authorized
  <2> QED
    BY <1>1, <1>5, <1>6, <2>1
<1>7. CASE /\ Authorized(r) /\ Verified(r, s) /\ s = "close"
           /\ step' = [step EXCEPT ![r]["close"].at = "verified"]
           /\ row' = Revoked(r, IF step[r]["open"].at = "verified" THEN "succeeded" ELSE "failed")
           /\ ag' = Idle
  <2> DEFINE outcome == IF step[r]["open"].at = "verified" THEN "succeeded" ELSE "failed"
  <2>1. outcome \in States /\ Pending(r)
    BY <1>7 DEF Authorized, Pending, States
  <2>2. row' = Revoked(r, outcome)
    BY <1>7
  <2>3. outcome = "failed" \/
          (outcome = "succeeded" /\ \A k \in Skills : k = s \/ step[r][k].at = "verified")
    BY <1>7 DEF Skills
  <2> HIDE DEF outcome
  <2>4. /\ row' \in [Requests -> Rows]
        /\ \A q \in Requests : /\ row'[q].count = row[q].count /\ row'[q].lease = row[q].lease
                               /\ q # r => row'[q].state = row[q].state
        /\ row'[r].state = outcome
    BY <1>1, <2>1, <2>2, RevokedRows
  <2> QED
    BY <1>5, <1>7, <2>3, <2>4
<1> QED
  BY <1>3, <1>4, <1>6, <1>7 DEF FinishStep

\* The other steps of the tick.
LEMMA TickKeeps ==
  ASSUME IInv, Poll \/ Wait \/ Begin \/ ActiveStatus \/ Execute \/ NotDispatched \/ Abort
  PROVE  IInv'
<1>1. /\ row \in [Requests -> Rows] /\ ag \in Ticks
      /\ ag.at \notin {"tick", "down"} => ag.r \in Requests
      /\ writer = "free" \/ ag.at \in {"dispatch", "sent"}
  BY DEF IInv, Shape, Writing
<1>2. ASSUME Settles(row'), UNCHANGED <<step, control, calls, game, pulses, history>>,
             writer' = "free", ag.at # "sent",
             \/ ag' = Idle
             \/ /\ ag' \in Ticks /\ ag'.at \notin {"dispatch", "sent"} /\ ag'.r \in Requests
                /\ ag'.at \in Working => ag.at \in Working /\ ag'.r = ag.r
      PROVE  IInv'
  <2>1. Aside
    <3>1. CASE ag' = Idle
      BY <1>2, <3>1, IdleTicks DEF Aside, Working
    <3>2. CASE ag' # Idle
      BY <1>2, <3>2 DEF Aside
    <3> QED
      BY <3>1, <3>2
  <2> QED
    BY <2>1, AsideKeeps
<1>3. ASSUME NEW place \in Places, Goto(place)
      PROVE  ag' \in Ticks /\ ag'.at = place /\ ag'.r = ag.r
  BY <1>1, <1>3 DEF Goto
<1>4. Settles(row) /\ \A r \in Requests : Settles(Reconciled(r)) /\ Settles(Revoked(r, "cancelled"))
  BY <1>1, BumpedSettles, ReconciledSettles, RevokedSettles DEF Ended
<1>5. CASE Poll
  <2>1. /\ row' = row /\ writer' = writer /\ ag.at = "tick"
        /\ UNCHANGED <<step, control, calls, game, pulses, history>>
    BY <1>5 DEF Poll, At, receipts
  <2>2. PICK r \in Requests, place \in {"wait", "claim"} : ag' = [ag EXCEPT !.at = place, !.r = r]
    BY <1>5 DEF Poll
  <2>3. ag' \in Ticks /\ ag'.at = place /\ ag'.r = r
    BY <1>1, <2>2 DEF Places
  <2> QED
    BY <1>1, <1>2, <1>4, <2>1, <2>2, <2>3 DEF Working
<1>6. CASE Wait
  <2>1. /\ row' = Reconciled(ag.r) /\ ag' = Idle /\ ag.at = "wait" /\ writer' = "free"
        /\ UNCHANGED <<step, control, calls, game, pulses, history>>
    BY <1>6 DEF Wait, At, Write
  <2> QED
    BY <1>1, <1>2, <1>4, <2>1
<1>7. CASE Begin
  <2>1. /\ row' = row /\ writer' = writer /\ ag.at = "begin"
        /\ UNCHANGED <<step, control, calls, game, pulses, history>>
    BY <1>7 DEF Begin, At, receipts
  <2>2. ag' \in {[ag EXCEPT !.at = "start", !.skill = "open"], [ag EXCEPT !.at = "abort"]}
    BY <1>7 DEF Begin
  <2>3. ag' \in Ticks /\ ag'.at \in {"start", "abort"} /\ ag'.r = ag.r
    BY <1>1, <2>2 DEF Places, Skills
  <2> QED
    BY <1>1, <1>2, <1>4, <2>1, <2>3 DEF Working
<1>8. CASE ActiveStatus
  <2>1. /\ row' = Reconciled(ag.r) /\ ag.at = "active" /\ writer' = "free"
        /\ UNCHANGED <<step, control, calls, game, pulses, history>>
        /\ Goto("execute") \/ Goto("abort")
    BY <1>8 DEF ActiveStatus, At, Write
  <2>2. ag' \in Ticks /\ ag'.at \in {"execute", "abort"} /\ ag'.r = ag.r
    BY <1>3, <2>1 DEF Places
  <2> QED
    BY <1>1, <1>2, <1>4, <2>1, <2>2 DEF Working
<1>9. CASE Execute
  <2>1. /\ row' = row /\ writer' = writer /\ ag.at = "execute"
        /\ UNCHANGED <<step, control, calls, game, pulses, history>>
    BY <1>9 DEF Execute, At, receipts
  <2>2. PICK place \in {"active", "authorize", "finish"}, ok \in BOOLEAN :
          ag' = [ag EXCEPT !.at = place, !.ok = ok]
    BY <1>9 DEF Execute
  <2>3. ag' \in Ticks /\ ag'.at = place /\ ag'.r = ag.r
    BY <1>1, <2>2 DEF Places
  <2> QED
    BY <1>1, <1>2, <1>4, <2>1, <2>2, <2>3 DEF Working
<1>10. CASE NotDispatched
  <2>1. /\ row' = row /\ writer' = "free" /\ ag.at = "dispatch" /\ Goto("active")
        /\ UNCHANGED <<step, control, calls, game, pulses, history>>
    BY <1>10 DEF NotDispatched, At, receipts
  <2>2. ag' \in Ticks /\ ag'.at = "active" /\ ag'.r = ag.r
    BY <1>3, <2>1 DEF Places
  <2> QED
    BY <1>1, <1>2, <1>4, <2>1, <2>2 DEF Working
<1>11. CASE Abort
  <2>1. /\ row' = Revoked(ag.r, "cancelled") /\ ag' = Idle /\ ag.at = "abort" /\ writer' = "free"
        /\ UNCHANGED <<step, control, calls, game, pulses, history>>
    BY <1>11 DEF Abort, At, Write
  <2> QED
    BY <1>1, <1>2, <1>4, <2>1
<1> QED
  BY <1>5, <1>6, <1>7, <1>8, <1>9, <1>10, <1>11

\* The operator, time, the game and the camera.
LEMMA WorldKeeps == ASSUME IInv, World PROVE IInv'
<1>1. CASE OperatorWrites
  <2>1. Aside
    BY <1>1, BumpedSettles DEF OperatorWrites, Aside, IInv, Shape, Writing
  <2> QED
    BY <2>1, AsideKeeps
<1>2. CASE ControlLost
  <2>1. control' \in [lease : 1 .. MaxLeases, up : BOOLEAN] /\ control'.lease = control.lease
    BY <1>2 DEF ControlLost, IInv, Shape
  <2>2. /\ row' = row /\ step' = step /\ writer' = writer /\ calls' = calls /\ ag' = ag
        /\ screen' = screen /\ under' = under /\ camera' = camera /\ seen' = seen /\ pulses' = pulses
        /\ pressed' = pressed /\ taken' = taken /\ read' = read /\ torn' = torn
    BY <1>2 DEF ControlLost, receipts, game, frames, history
  <2> QED
    BY <2>1, <2>2 DEF IInv, Shape, Writing, OneOwner, Pending, Untouched, Unsent, Sending, Sent,
                      Counted, Recorded, Evidence, Shows, Evident, Proven, Streams, Earned
<1>3. CASE DeadlinePasses
  <2>1. /\ row \in [Requests -> Rows]
        /\ \E r \in Requests : row' = [row EXCEPT ![r].late = TRUE]
        /\ step' = step /\ writer' = writer /\ control' = control /\ calls' = calls /\ ag' = ag
        /\ screen' = screen /\ under' = under /\ camera' = camera /\ seen' = seen /\ pulses' = pulses
        /\ pressed' = pressed /\ taken' = taken /\ read' = read /\ torn' = torn
    BY <1>3 DEF DeadlinePasses, IInv, Shape, game, frames, history
  <2>2. /\ row' \in [Requests -> Rows]
        /\ \A q \in Requests : /\ row'[q].state = row[q].state /\ row'[q].count = row[q].count
                               /\ row'[q].current = row[q].current /\ row'[q].lease = row[q].lease
    <3>1. PICK r \in Requests : row' = [row EXCEPT ![r].late = TRUE]
      BY <2>1
    <3>2. row[r] \in Rows
      BY <2>1
    <3> QED
      BY <2>1, <3>1, <3>2 DEF Rows
  <2>3. Shape' /\ Writing'
    BY <2>1, <2>2 DEF IInv, Shape, Writing
  <2>4. ag.at \in {"dispatch", "sent"} \cup Working => ag.r \in Requests
    BY DEF IInv, Shape, Working
  <2>5. OneOwner' /\ Untouched' /\ Unsent' /\ Sending'
    BY <2>1, <2>2, <2>4 DEF IInv, OneOwner, Pending, Untouched, Unsent, Sending
  <2>6. Sent' /\ Counted' /\ Recorded' /\ Evidence' /\ Earned'
    BY <2>1, <2>2 DEF IInv, Sent, Counted, Recorded, Evidence, Shows, Evident, Proven, Streams, Earned
  <2> QED
    BY <2>3, <2>5, <2>6 DEF IInv
<1>4. CASE GameChanges \/ Grab \/ CaptureNewest
  <2>1. /\ row' = row /\ step' = step /\ writer' = writer /\ control' = control
        /\ calls' = calls /\ ag' = ag /\ camera' = camera /\ pulses' = pulses
        /\ pressed' = pressed /\ taken' = taken /\ read' = read /\ torn' = torn
        /\ screen' \in Screens /\ under' \in Screens \cup {"none"} /\ seen' \in {seen, camera}
    BY <1>4 DEF GameChanges, Grab, CaptureNewest, receipts, frames, history, IInv, Shape
  <2> QED
    BY <2>1 DEF IInv, Shape, Writing, OneOwner, Pending, Untouched, Unsent, Sending, Sent,
                Counted, Recorded, Evidence, Shows, Evident, Proven, Streams, Earned
<1>5. CASE CaptureNow \/ ReadFrame
  <2>1. /\ row' = row /\ step' = step /\ writer' = writer /\ control' = control
        /\ calls' = calls /\ ag' = ag /\ screen' = screen /\ pulses' = pulses
        /\ pressed' = pressed /\ torn' = torn
    BY <1>5 DEF CaptureNow, ReadFrame, receipts
  <2>2. PICK picture \in Screens :
          /\ \/ seen' = [screen |-> picture, stamp |-> pulses] /\ camera' = camera
             \/ camera' = [screen |-> picture, stamp |-> pulses] /\ seen' = seen
          /\ under' \in {under, "none"}
          /\ \/ taken' = Noted(taken, picture) /\ read' = read /\ ~Streams
             \/ read' = Noted(read, picture) /\ taken' = taken /\ Streams
    <3>1. CASE CaptureNow
      <4>1. screen \in Screens
        BY DEF IInv, Shape
      <4> QED
        BY <3>1, <4>1 DEF CaptureNow
    <3>2. CASE ReadFrame
      <4>1. under \in Screens
        BY <3>2 DEF ReadFrame, IInv, Shape
      <4> QED
        BY <3>2, <4>1 DEF ReadFrame
    <3> QED
      BY <1>5, <3>1, <3>2
  <2>3. /\ taken' \in [Requests -> SUBSET Skills] /\ read' \in [Requests -> SUBSET Skills]
        /\ \A r \in Requests, s \in Skills :
             /\ s \in taken[r] => s \in taken'[r]
             /\ s \in read[r] => s \in read'[r]
             /\ pressed[r][s] = 1 /\ picture = Expected(s) => Evident(r, s)'
    <3>1. ASSUME NEW steps \in [Requests -> SUBSET Skills]
          PROVE  /\ Noted(steps, picture) \in [Requests -> SUBSET Skills]
                 /\ \A r \in Requests, s \in Skills :
                      /\ s \in steps[r] => s \in Noted(steps, picture)[r]
                      /\ pressed[r][s] = 1 /\ picture = Expected(s) => s \in Noted(steps, picture)[r]
      BY DEF Noted, Showing
    <3>2. taken \in [Requests -> SUBSET Skills] /\ read \in [Requests -> SUBSET Skills]
      BY DEF IInv, Shape
    <3>3. Streams' <=> Streams
      BY <2>1 DEF Streams
    <3> QED
      BY <2>1, <2>2, <3>1, <3>2, <3>3 DEF Evident
  <2>4. /\ camera' \in Frames /\ seen' \in Frames /\ under' \in Screens \cup {"none"}
        /\ \/ seen'.stamp = pulses /\ seen'.screen = picture /\ camera' = camera
           \/ camera'.stamp = pulses /\ camera'.screen = picture /\ seen' = seen
    BY <2>2 DEF IInv, Shape, Frames
  <2>5. Shape'
    BY <2>1, <2>3, <2>4 DEF IInv, Shape
  <2>6. Evidence'
    <3>1. camera'.stamp <= pulses /\ seen'.stamp <= pulses
      BY <2>4 DEF IInv, Shape, Evidence
    <3>2. \A r \in Requests, s \in Skills :
            /\ Evident(r, s) => Evident(r, s)'
            /\ pressed[r][s] = 1 /\ picture = Expected(s) => Evident(r, s)'
      BY <2>1, <2>3 DEF Evident, Streams
    <3>3. \A r \in Requests, s \in Skills :
            step[r][s].at = "pressed" =>
              /\ Shows(camera, r, s, step[r][s].when)' /\ Shows(seen, r, s, step[r][s].when)'
      <4> SUFFICES ASSUME NEW r \in Requests, NEW s \in Skills, step[r][s].at = "pressed"
                   PROVE  /\ Shows(camera, r, s, step[r][s].when)'
                          /\ Shows(seen, r, s, step[r][s].when)'
        OBVIOUS
      <4>1. /\ pressed[r][s] = 1
            /\ Shows(camera, r, s, step[r][s].when) /\ Shows(seen, r, s, step[r][s].when)
        BY DEF IInv, Recorded, Evidence
      <4> QED
        BY <2>1, <2>4, <3>2, <4>1 DEF Shows
    <3>4. ASSUME ag.at = "sent", ag.ok
          PROVE  /\ Shows(camera, ag.r, ag.skill, pulses)'
                 /\ Shows(seen, ag.r, ag.skill, pulses)'
      <4>1. /\ ag.r \in Requests /\ ag.skill \in Skills /\ pressed[ag.r][ag.skill] = 1
            /\ Shows(camera, ag.r, ag.skill, pulses) /\ Shows(seen, ag.r, ag.skill, pulses)
        BY <3>4 DEF IInv, Shape, Sent, Evidence
      <4> QED
        BY <2>1, <2>4, <3>2, <4>1 DEF Shows
    <3>5. \A r \in Requests, s \in Skills : step[r][s].at = "verified" => Proven(r, s)'
      BY <2>1, <2>3 DEF IInv, Evidence, Proven
    <3> QED
      BY <2>1, <3>1, <3>3, <3>4, <3>5 DEF Evidence
  <2>7. Writing' /\ OneOwner' /\ Untouched' /\ Unsent' /\ Sending' /\ Sent'
    BY <2>1 DEF IInv, Writing, OneOwner, Pending, Untouched, Unsent, Sending, Sent
  <2>8. Counted' /\ Recorded' /\ Earned'
    BY <2>1 DEF IInv, Counted, Recorded, Earned
  <2> QED
    BY <2>5, <2>6, <2>7, <2>8 DEF IInv
<1> QED
  BY <1>1, <1>2, <1>3, <1>4, <1>5 DEF World, Camera

\* An agent that dies around its toggle leaves the receipt behind the game: the
\* one case that Counted leaves out.
LEMMA DiesKeeps == ASSUME IInv, Dies \/ Launch PROVE IInv'
<1>1. /\ row' = row /\ step' = step /\ calls' = calls
      /\ screen' = screen /\ under' \in {under, "none"} /\ pulses' = pulses
      /\ \/ camera' = camera /\ seen' = seen /\ control' = control
         \/ camera' = NoPicture /\ seen' = NoPicture
      /\ pressed' = pressed /\ taken' = taken /\ read' = read
      /\ writer' = "free" /\ ag' \in {Down, Idle}
      /\ torn' = IF ag.at = "sent" THEN torn \cup {ag.r} ELSE torn
      /\ control' \in [lease : 1 .. MaxLeases, up : BOOLEAN]
  <2>1. CASE Dies
    BY <2>1 DEF Dies, At, receipts, game, frames, IInv, Shape
  <2>2. CASE Launch
    <3>1. ag.at = "down" /\ control.lease \in 1 .. MaxLeases /\ writer = "free"
      BY <2>2 DEF Launch, At, IInv, Shape, Writing
    <3> QED
      BY <2>2, <3>1, PaidDirectionsAssumption DEF Launch, receipts, game, frames, history
  <2> QED
    BY <2>1, <2>2
<1>2. /\ ag' \in Ticks
      /\ ag'.at \in {"down", "tick"}
  BY <1>1, IdleTicks DEF Down, Idle, Places, Skills
<1>3. Shape'
  <2>1. NoPicture \in Frames
    BY DEF NoPicture, Frames
  <2> QED
    BY <1>1, <1>2, <2>1 DEF IInv, Shape
<1>4. Writing' /\ Unsent' /\ Sending' /\ Sent'
  BY <1>1, <1>2 DEF Writing, Unsent, Sending, Sent, Working
<1>5. OneOwner' /\ Untouched' /\ Recorded' /\ Earned'
  BY <1>1, <1>2 DEF IInv, OneOwner, Pending, Untouched, Recorded, Earned
<1>6. Evidence'
  <2>1. CASE camera' = camera /\ seen' = seen /\ control' = control
    BY <1>1, <1>2, <2>1, EvidenceKept DEF IInv
  <2>2. CASE camera' = NoPicture /\ seen' = NoPicture
    <3>1. NoPicture.stamp = 0 /\ \A s \in Skills : NoPicture.screen # Expected(s)
      BY DEF NoPicture, Expected
    <3>2. pulses \in Nat
      BY DEF IInv, Shape
    <3> QED
      BY <1>1, <1>2, <2>2, <3>1, <3>2 DEF IInv, Evidence, Shows, Proven
  <2> QED
    BY <1>1, <2>1, <2>2
<1>7. Counted'
  BY <1>1, <1>2 DEF IInv, Counted
<1> QED
  BY <1>3, <1>4, <1>5, <1>6, <1>7 DEF IInv

\* The invariant holds of empty tables and a fresh agent.
LEMMA InitIInv == ASSUME Init PROVE IInv
<1>1. NoRow \in Rows /\ NoRow.state = "none" /\ NoRow.count = 0
  BY DEF NoRow, Rows, States
<1>2. NoStep \in Steps /\ NoStep.at = "none"
  BY DEF NoStep, Steps
<1>3. Shape
  BY <1>1, <1>2, IdleTicks, PaidDirectionsAssumption DEF Init, Shape, NoCall, NoPicture, Screens, Frames, Skills
<1>4. Writing /\ Unsent /\ Sending /\ Sent
  BY IdleTicks DEF Init, Writing, Unsent, Sending, Sent, Working
<1>5. OneOwner /\ Untouched /\ Recorded /\ Earned
  BY <1>1, <1>2 DEF Init, OneOwner, Pending, Untouched, Recorded, Earned
<1>6. Counted
  BY <1>1, IdleTicks DEF Init, Counted, Skills
<1>7. Evidence
  BY <1>2, IdleTicks DEF Init, Evidence, NoPicture
<1> QED
  BY <1>3, <1>4, <1>5, <1>6, <1>7 DEF IInv

\* Every step keeps it.
LEMMA StepIInv == ASSUME IInv, [Next]_vars PROVE IInv'
<1>1. CASE Agent
  BY <1>1, TickKeeps, ClaimKeeps, StartStepKeeps, AuthorizeKeeps, DispatchKeeps, RecordKeeps,
     FinishStepKeeps DEF Agent
<1>2. CASE Clients
  BY <1>2, ClientsKeep
<1>3. CASE World
  BY <1>3, WorldKeeps
<1>4. CASE Dies \/ Launch
  BY <1>4, DiesKeeps
<1>5. CASE UNCHANGED vars
  BY <1>5 DEF vars, receipts, game, frames, history, IInv, Shape, Writing, OneOwner, Pending, Untouched,
              Unsent, Sending, Sent, Counted, Recorded, Evidence, Shows, Evident, Proven, Streams, Earned
<1> QED
  BY <1>1, <1>2, <1>3, <1>4, <1>5 DEF Next

\* In every reachable state of the receipts, the tick and the game (gateway.py).
THEOREM Invariance == Spec => []IInv
<1>1. Init => IInv
  BY InitIInv
<1>2. IInv /\ [Next]_vars => IInv'
  BY StepIInv
<1> QED
  BY <1>1, <1>2, PTL DEF Spec

\* However many submissions race, one direction at most owns the player: the
\* second check is inside the transaction that admits (gateway.py:377-395).
THEOREM OwnerIsAlone == Spec => [](TypeOK /\ OneOwner)
<1>1. IInv => TypeOK
  BY DEF IInv, Shape, TypeOK, Rows, Steps, Ticks, Writing
<1>2. IInv => OneOwner
  BY DEF IInv
<1> QED
  BY <1>1, <1>2, Invariance, PTL

\* No retry, lost answer or dead agent makes a step's toggle go out twice
\* (gateway.py:569-571, 667-668).
THEOREM TogglesAreSentOnce == Spec => []ToggledOnce
<1>1. IInv => ToggledOnce
  BY DEF IInv, Shape, ToggledOnce
<1> QED
  BY <1>1, Invariance, PTL

\* An ended receipt counts what was accepted, unless its agent died around a
\* toggle (gateway.py:534-538).
THEOREM ReceiptsCount == Spec => []CountTrue
<1>1. IInv => CountTrue
  <2> SUFFICES ASSUME IInv, NEW r \in Requests \ torn,
                      row[r].state \in {"succeeded", "failed", "cancelled", "expired"}
               PROVE  row[r].count = pressed[r]["open"] + pressed[r]["close"]
    BY DEF CountTrue
  <2>1. ~(ag.at = "sent" /\ ag.r = r)
    BY DEF IInv, Sending
  <2> QED
    BY <2>1 DEF IInv, Counted
<1> QED
  BY <1>1, Invariance, PTL

\* Success means that both toggles went out, once, and that a picture from after
\* each of them showed its effect: taken after it with the image source, read
\* after it with a stream (gateway.py:752-781, ffmpeg_x11_capture.py:166-178).
THEOREM SuccessWasSeen == Spec => []SuccessIsEarned
<1>1. IInv => SuccessIsEarned
  <2> SUFFICES ASSUME IInv, NEW r \in Requests, NEW s \in Skills, row[r].state = "succeeded"
               PROVE  pressed[r][s] = 1 /\ Proven(r, s)
    BY DEF SuccessIsEarned, Proven
  <2>1. step[r][s].at = "verified"
    BY DEF IInv, Earned
  <2> QED
    BY <2>1 DEF IInv, Recorded, Evidence
<1> QED
  BY <1>1, Invariance, PTL

(***************************************************************************)
(* A toggle goes out only for a running direction under the revision and   *)
(* the lease it was admitted under, because the transaction around it      *)
(* keeps every other writer of the receipt away (gateway.py:615-673).      *)
(***************************************************************************)
THEOREM DirectionsAuthorized == Spec => InputIsAuthorized
<1>1. ASSUME IInv, [Next]_vars, NEW r \in Requests, pressed'[r] # pressed[r]
      PROVE  row[r].state = "running" /\ row[r].current /\ row[r].lease = control.lease
  <2>1. Dispatch
    <3>1. pressed' # pressed
      BY <1>1
    <3> QED
      BY <1>1, <3>1 DEF Next, Agent, Clients, World, vars, history, Write, Poll, Wait, Claim, Begin,
         StartStep, ActiveStatus, Execute, Authorize, NotDispatched, Record, FinishStep, Abort,
         SubmitCheck, Admit, Status, Cancel, OperatorWrites, ControlLost, DeadlinePasses,
         Camera, GameChanges, CaptureNow, Grab, ReadFrame, CaptureNewest, Dies, Launch
  <2>2. ag.at = "dispatch"
    BY <2>1 DEF Dispatch, At
  <2>3. r = ag.r
    <3>1. pressed' = pressed \/ pressed' = [pressed EXCEPT ![ag.r][ag.skill] = @ + 1]
      BY <2>1 DEF Dispatch
    <3>2. pressed \in [Requests -> [Skills -> {0, 1}]]
      BY <1>1 DEF IInv, Shape
    <3> QED
      BY <1>1, <3>1, <3>2
  <2> QED
    BY <1>1, <2>2, <2>3 DEF IInv, Sending
<1>2. IInv /\ [Next]_vars =>
        [\A r \in Requests : pressed'[r] # pressed[r] =>
           row[r].state = "running" /\ row[r].current /\ row[r].lease = control.lease]_vars
  BY <1>1
<1> QED
  BY <1>2, Invariance, PTL DEF Spec, InputIsAuthorized

\* A receipt in progress may end; one that has ended keeps its outcome.
LEMMA RowsKeepOutcome ==
  ASSUME IInv, [Next]_vars, NEW r \in Requests, row[r].state \notin {"none", "queued", "running"}
  PROVE  row'[r].state = row[r].state
<1>1. row \in [Requests -> Rows] /\ (ag.at \notin {"tick", "down"} => ag.r \in Requests)
  BY DEF IInv, Shape
<1>2. ASSUME Settles(row') PROVE row'[r].state = row[r].state
  BY <1>2 DEF Settles, Pending
<1>3. CASE Agent
  <2>1. CASE Poll \/ Begin \/ Execute \/ Authorize \/ NotDispatched \/ Dispatch
    BY <2>1 DEF Poll, Begin, Execute, Authorize, NotDispatched, Dispatch, receipts
  <2>2. CASE Wait \/ ActiveStatus \/ Abort \/ StartStep
    <3>1. Settles(row')
      BY <1>1, <2>2, BumpedSettles, ReconciledSettles, RevokedSettles
         DEF Wait, ActiveStatus, Abort, StartStep, At, Ended
    <3> QED
      BY <1>2, <3>1
  <2>3. CASE Claim
    <3>1. CASE row[ag.r].state = "queued" /\ row' = [row EXCEPT ![ag.r].state = "running"]
      BY <1>1, <3>1
    <3>2. CASE row' = Revoked(ag.r, "cancelled") \/ row' = Revoked(ag.r, "unknown")
      <4>1. Settles(row')
        BY <1>1, <2>3, <3>2, RevokedSettles DEF Claim, At, Ended
      <4> QED
        BY <1>2, <4>1
    <3> QED
      BY <2>3, <3>1, <3>2 DEF Claim
  <2>4. CASE Record
    <3>1. CASE row' = [row EXCEPT ![ag.r].count = @ + 1]
      BY <1>1, <3>1
    <3>2. CASE row' = Revoked(ag.r, "unknown")
      <4>1. Settles(row')
        BY <1>1, <2>4, <3>2, RevokedSettles DEF Record, At, Ended
      <4> QED
        BY <1>2, <4>1
    <3> QED
      BY <2>4, <3>1, <3>2 DEF Record
  <2>5. CASE FinishStep
    <3>1. ag.r \in Requests
      BY <1>1, <2>5 DEF FinishStep, At
    <3>2. row' = row \/ \E state \in {"failed", "succeeded"} : row' = Revoked(ag.r, state)
      BY <2>5 DEF FinishStep, receipts
    <3>3. CASE row' = row
      BY <3>3
    <3>4. ASSUME NEW state \in {"failed", "succeeded"}, row' = Revoked(ag.r, state)
          PROVE  row'[r].state = row[r].state
      <4>1. state \in States
        BY DEF States
      <4> QED
        BY <1>1, <3>1, <3>4, <4>1, RevokedRows DEF Pending
    <3> QED
      BY <3>2, <3>3, <3>4
  <2> QED
    BY <1>3, <2>1, <2>2, <2>3, <2>4, <2>5 DEF Agent
<1>4. CASE Clients
  <2>1. CASE SubmitCheck
    BY <2>1 DEF SubmitCheck, receipts
  <2>2. CASE Admit
    <3>1. PICK c \in Callers :
            row' = IF row[calls[c].r].state # "none" \/ \E s \in Requests : Pending(s) THEN row
                   ELSE [Bumped(row) EXCEPT ![calls[c].r] = NewRow(calls[c].epoch)]
      BY <2>2 DEF Admit
    <3>2. Bumped(row) \in [Requests -> Rows] /\ Bumped(row)[r].state = row[r].state
      BY <1>1, BumpedRows
    <3> QED
      BY <3>1, <3>2
  <2>3. CASE Status \/ Cancel
    <3>1. Settles(row')
      BY <1>1, <2>3, ReconciledSettles, RevokedSettles DEF Status, Cancel, Ended
    <3> QED
      BY <1>2, <3>1
  <2> QED
    BY <1>4, <2>1, <2>2, <2>3 DEF Clients
<1>5. CASE World
  <2>1. CASE OperatorWrites
    BY <1>1, <1>2, <2>1, BumpedSettles DEF OperatorWrites
  <2>2. CASE DeadlinePasses
    <3>1. PICK q \in Requests : row' = [row EXCEPT ![q].late = TRUE]
      BY <2>2 DEF DeadlinePasses
    <3> QED
      BY <1>1, <3>1 DEF Rows
  <2>3. CASE ControlLost \/ GameChanges \/ Camera
    BY <2>3 DEF ControlLost, GameChanges, Camera, CaptureNow, Grab, ReadFrame, CaptureNewest,
                receipts
  <2> QED
    BY <1>5, <2>1, <2>2, <2>3 DEF World
<1>6. CASE Dies \/ Launch \/ UNCHANGED vars
  BY <1>6 DEF Dies, Launch, vars, receipts
<1> QED
  BY <1>3, <1>4, <1>5, <1>6 DEF Next

\* Whoever ends a direction, from whichever process, the outcome is final
\* (gateway.py:473-487).
THEOREM DirectionsFinal == Spec => OutcomeIsFinal
<1>1. IInv /\ [Next]_vars =>
        [\A r \in Requests : row[r].state \notin {"none", "queued", "running"} =>
           row'[r].state = row[r].state]_vars
  BY RowsKeepOutcome
<1> QED
  BY <1>1, Invariance, PTL DEF Spec, OutcomeIsFinal
=============================================================================

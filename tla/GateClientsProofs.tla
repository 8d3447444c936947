------------------------- MODULE GateClientsProofs -------------------------
(***************************************************************************)
(* Proofs about the concurrent callers of a MotorGate, for every set of    *)
(* tokens, every set of actions and every number of leases.                *)
(***************************************************************************)
EXTENDS GateClients, TLAPS

(***************************************************************************)
(* What one result of a gate method promises about the gate it leaves.     *)
(* Sound is the per-state part of the invariant; Revoked is what every     *)
(* revocation, successful or not, guarantees.                              *)
(***************************************************************************)
Sound(g) ==
    /\ g \in GateState
    /\ g.held # {} => g.lease # NoLease \/ g.unconfirmed
    /\ g.lease # NoLease =>
          /\ ~g.unconfirmed
          /\ "keyboard" \notin g.allowed => g.held \cap Keys = {}
          /\ "button" \notin g.allowed => g.held \cap Buttons = {}
          /\ g.bound = g.lease
          /\ g.reason = "active"

Revoked(g, h) ==
    /\ Sound(h)
    /\ h.lease = NoLease
    /\ h.last = g.last

\* A revocation leaves no lease; unless it raised, it leaves nothing held either.
LEMMA RevokesResult ==
    ASSUME NEW g \in GateState, NEW r \in Revokes(g)
    PROVE  /\ Revoked(g, r.gate)
           /\ r.out \in {"ok", "raised"}
           /\ r.out = "ok" => /\ ~r.gate.unconfirmed
                              /\ r.gate.held = {}
<1>1. PICK o \in RevokeOutcome(g) :
         r = [gate |-> [g EXCEPT !.lease = NoLease, !.expired = FALSE, !.allowed = {},
                                 !.reason = "revoked", !.bound = o.bound,
                                 !.held = o.left, !.unconfirmed = ~o.swept],
              out  |-> IF o.swept /\ o.bound = NoLease THEN "ok" ELSE "raised"]
  BY DEF Revokes
<1>2. /\ o.swept \in BOOLEAN
      /\ o.left \subseteq g.held
      /\ o.bound \in Nat
      /\ o.swept => o.left = {}
  BY DEF RevokeOutcome, GateState, NoLease
<1>3. r.gate \in GateState
  BY <1>1, <1>2 DEF GateState, NoLease
<1>4. /\ r.gate.lease = NoLease
      /\ r.gate.last = g.last
      /\ r.gate.held = o.left
      /\ r.gate.unconfirmed = ~o.swept
  BY <1>1, <1>2 DEF GateState
<1>5. r.out = (IF o.swept /\ o.bound = NoLease THEN "ok" ELSE "raised")
  BY <1>1
<1> QED
  BY <1>2, <1>3, <1>4, <1>5 DEF Revoked, Sound

\* A call that rejects leaves a revoked gate, like a revocation.
LEMMA RejectsResult ==
    ASSUME NEW g \in GateState, NEW out, NEW r \in Rejects(g, out)
    PROVE  Revoked(g, r.gate) /\ r.out = out
<1>1. PICK q \in Revokes(g) : r = [gate |-> q.gate, out |-> out]
  BY DEF Rejects
<1> QED
  BY <1>1, RevokesResult

(***************************************************************************)
(* A binding publishes h under id when it succeeds, and revokes otherwise. *)
(***************************************************************************)
LEMMA BindsResult ==
    ASSUME NEW g \in GateState, NEW h \in GateState, NEW id \in Nat,
           NEW r \in BindsAs(g, h, id)
    PROVE  \/ r = [gate |-> Published(h, id), out |-> "ok"]
           \/ Revoked(g, r.gate) /\ r.out = "raised"
<1> DEFINE b == [g EXCEPT !.bound = id]
<1>1. b \in GateState /\ b.last = g.last
  BY DEF GateState
<1>2. \/ r = [gate |-> Published(h, id), out |-> "ok"]
      \/ r \in Rejects(b, "raised")
  BY DEF BindsAs
<1> HIDE DEF b
<1>3. ASSUME r \in Rejects(b, "raised")
      PROVE  Revoked(b, r.gate) /\ r.out = "raised"
  BY <1>1, <1>3, RejectsResult
<1> QED
  BY <1>1, <1>2, <1>3 DEF Revoked

\* Publishing a gate whose input is confirmed and admitted gives a sound gate.
LEMMA PublishedSound ==
    ASSUME NEW h \in GateState, NEW id \in Nat,
           ~h.unconfirmed,
           "keyboard" \notin h.allowed => h.held \cap Keys = {},
           "button" \notin h.allowed => h.held \cap Buttons = {},
           id # NoLease
    PROVE  /\ Sound(Published(h, id))
           /\ Published(h, id).lease = id
           /\ Published(h, id).last = h.last
<1> DEFINE p == Published(h, id)
<1>1. /\ p \in GateState
      /\ p.lease = id
      /\ p.bound = id
      /\ p.reason = "active"
      /\ p.last = h.last
      /\ p.held = h.held
      /\ p.allowed = h.allowed
      /\ p.unconfirmed = h.unconfirmed
  BY DEF GateState, Published
<1> QED
  BY <1>1 DEF Sound

(***************************************************************************)
(* The result of each method on a sound gate.                              *)
(***************************************************************************)
LEMMA IssuesResult ==
    ASSUME NEW g, Sound(g), NEW id \in Nat, id # NoLease,
           NEW kinds \in SUBSET Kinds, NEW first \in Nat,
           NEW r \in Issues(g, id, kinds, first)
    PROVE  /\ Sound(r.gate)
           /\ r.gate.lease \in {NoLease, id}
<1> DEFINE Granted(h) == [h EXCEPT !.allowed = kinds, !.last = first - 1]
<1>1. g \in GateState
  BY DEF Sound
<1>2. PICK q \in Revokes(g) :
         r \in (IF q.out = "ok" THEN BindsAs(q.gate, Granted(q.gate), id) ELSE {q})
  BY DEF Issues
<1>3. /\ Revoked(g, q.gate)
      /\ q.out = "ok" => ~q.gate.unconfirmed /\ q.gate.held = {}
  BY <1>1, RevokesResult
<1>4. CASE q.out # "ok"
  BY <1>2, <1>3, <1>4 DEF Revoked
<1>5. CASE q.out = "ok"
  <2> DEFINE h == q.gate
  <2>1. /\ h \in GateState
        /\ ~h.unconfirmed
        /\ h.held = {}
    BY <1>3, <1>5 DEF Revoked, Sound
  <2> HIDE DEF h
  <2>5. /\ Granted(h) \in GateState
        /\ ~Granted(h).unconfirmed
        /\ Granted(h).held = {}
    <3>1. first - 1 \in Int
      OBVIOUS
    <3>2. [h EXCEPT !.allowed = kinds] \in GateState
      BY <2>1 DEF GateState
    <3> QED
      BY <2>1, <3>1, <3>2 DEF GateState
  <2> USE DEF h
  <2>2. r \in BindsAs(q.gate, Granted(q.gate), id)
    BY <1>2, <1>5
  <2>3. CASE r = [gate |-> Published(Granted(q.gate), id), out |-> "ok"]
    BY <2>5, <2>3, PublishedSound
  <2>4. CASE Revoked(q.gate, r.gate)
    BY <2>4 DEF Revoked
  <2> HIDE DEF Granted
  <2> QED
    BY <2>1, <2>2, <2>3, <2>4, <2>5, BindsResult
<1> QED
  BY <1>4, <1>5

\* renew keeps the lease it was given, or revokes.
LEMMA RenewsResult ==
    ASSUME NEW g, Sound(g), NEW id \in Nat, NEW r \in Renews(g, id)
    PROVE  \/ Revoked(g, r.gate)
           \/ /\ Sound(r.gate)
              /\ ~g.expired
              /\ r.gate.lease = g.lease
              /\ r.gate.last = g.last
<1>1. g \in GateState
  BY DEF Sound
<1>2. CASE ~Holds(g, id) \/ g.expired
  BY <1>1, <1>2, RejectsResult DEF Renews
<1>3. CASE Holds(g, id) /\ ~g.expired
  <2>1. r \in BindsAs(g, g, id)
    BY <1>3 DEF Renews, Binds
  <2>2. CASE r = [gate |-> Published(g, id), out |-> "ok"]
    BY <1>1, <1>3, <2>2, PublishedSound DEF Holds, Sound
  <2> QED
    BY <1>1, <2>1, <2>2, BindsResult
<1> QED
  BY <1>2, <1>3

\* apply accepts an action only in sequence and under an unexpired lease, or revokes.
LEMMA AppliesResult ==
    ASSUME NEW g, Sound(g), NEW id \in Nat, NEW a \in MotorAction,
           NEW refresh \in BOOLEAN, NEW permitted \in BOOLEAN,
           NEW r \in Applies(g, id, a, refresh, permitted)
    PROVE  \/ Revoked(g, r.gate) /\ r.out # "ok"
           \/ /\ Revoked(Emitted(g, a), r.gate)
              /\ r.out # "ok"
           \/ /\ Admissible(g, id, a)
              /\ Sound(r.gate)
              /\ r.gate.lease = g.lease
              /\ r.gate.last = a.seq
              /\ r.out = "ok"
<1>1. g \in GateState
  BY DEF Sound
<1>2. CASE ~Admissible(g, id, a)
  BY <1>1, <1>2, RejectsResult DEF Applies
<1>3. CASE Admissible(g, id, a) /\ r \in BackendFaults(g, a, permitted)
  <2> DEFINE t == [g EXCEPT !.held = IF permitted THEN @ \cup a.down ELSE @]
  <2>1. t \in GateState /\ t.last = g.last
    BY <1>1 DEF GateState, MotorAction
  <2>2. r \in Rejects(t, "raised") \/ r \in Rejects(t, "route")
    BY <1>3 DEF BackendFaults
  <2>3. Revoked(t, r.gate) /\ r.out \in {"raised", "route"}
    BY <2>1, <2>2, RejectsResult
  <2> QED
    BY <2>1, <2>3 DEF Revoked
<1>4. CASE Admissible(g, id, a) /\ r \notin BackendFaults(g, a, permitted)
  <2> DEFINE e == Emitted(g, a)
  <2>1. /\ e \in GateState
        /\ e.held = (g.held \cup a.down) \ a.up
        /\ e.last = a.seq
        /\ e.lease = g.lease
        /\ e.bound = g.bound
        /\ e.reason = g.reason
        /\ e.allowed = g.allowed
        /\ e.unconfirmed = g.unconfirmed
    <3>1. /\ a.seq \in Int
          /\ (g.held \cup a.down) \ a.up \in SUBSET Tokens
      BY <1>1 DEF GateState, MotorAction
    <3> QED
      BY <1>1, <3>1 DEF Emitted, GateState
  <2>2. /\ g.lease = id /\ id # NoLease
        /\ ActionKinds(a) \subseteq g.allowed
    BY <1>4 DEF Admissible, Holds
  <2>3. /\ "keyboard" \notin g.allowed => a.down \cap Keys = {}
        /\ "button" \notin g.allowed => a.down \cap Buttons = {}
    BY <2>2 DEF ActionKinds, Kinds
  <2>4. /\ ~e.unconfirmed
        /\ "keyboard" \notin e.allowed => e.held \cap Keys = {}
        /\ "button" \notin e.allowed => e.held \cap Buttons = {}
    BY <2>1, <2>2, <2>3 DEF Sound
  <2>5. Sound(e) /\ e.lease # NoLease
    BY <2>1, <2>2, <2>4 DEF Sound
  <2>6. \/ r \in BindsAs(e, e, id)
        \/ r = [gate |-> e, out |-> "ok"]
    BY <1>4 DEF Applies, Binds
  <2>7. CASE r = [gate |-> e, out |-> "ok"]
    BY <1>4, <2>1, <2>5, <2>7
  <2>8. CASE r = [gate |-> Published(e, id), out |-> "ok"]
    <3>1. /\ Sound(Published(e, id))
          /\ Published(e, id).lease = id
          /\ Published(e, id).last = e.last
      BY <2>1, <2>2, <2>4, PublishedSound
    <3> QED
      BY <1>4, <2>1, <2>2, <2>8, <3>1
  <2> HIDE DEF e
  <2>9. CASE Revoked(e, r.gate) /\ r.out = "raised"
    BY <2>9 DEF e
  <2> QED
    BY <2>1, <2>6, <2>7, <2>8, <2>9, BindsResult
<1> QED
  BY <1>2, <1>3, <1>4

\* release_inputs leaves neutral input under the same lease, or revokes.
LEMMA ReleasesResult ==
    ASSUME NEW g, Sound(g), NEW id \in Nat, NEW refresh \in BOOLEAN,
           NEW r \in Releases(g, id, refresh)
    PROVE  \/ Revoked(g, r.gate)
           \/ /\ Sound(r.gate)
              /\ ~g.expired
              /\ r.gate.lease = g.lease
              /\ r.gate.last = g.last
<1>1. g \in GateState
  BY DEF Sound
<1>2. CASE r \in Rejects(g, "raised")
  BY <1>1, <1>2, RejectsResult
<1>3. CASE r \notin Rejects(g, "raised")
  <2> DEFINE s == [g EXCEPT !.held = {}, !.unconfirmed = FALSE]
  <2>1. /\ s \in GateState
        /\ s.held = {}
        /\ ~s.unconfirmed
        /\ s.lease = g.lease
        /\ s.last = g.last
        /\ s.bound = g.bound
        /\ s.reason = g.reason
    BY <1>1 DEF GateState
  <2>2. /\ ~g.expired
        /\ g.lease = id /\ id # NoLease
        /\ r \in BindsAs(s, s, id) \/ r = [gate |-> s, out |-> "ok"]
    BY <1>3 DEF Releases, Holds, Binds
  <2> HIDE DEF s
  <2>3. CASE r = [gate |-> s, out |-> "ok"]
    BY <2>1, <2>2, <2>3 DEF Sound
  <2>4. CASE r = [gate |-> Published(s, id), out |-> "ok"]
    BY <2>1, <2>2, <2>4, PublishedSound
  <2>5. CASE Revoked(s, r.gate)
    BY <2>1, <2>5 DEF Revoked
  <2> QED
    BY <2>1, <2>2, <2>3, <2>4, <2>5, BindsResult
<1> QED
  BY <1>2, <1>3

-----------------------------------------------------------------------------
(***************************************************************************)
(* The inductive invariant.  NoReplay alone is not inductive: a sequence   *)
(* number accepted once must also be out of reach, either because its      *)
(* lease is no longer the published one (ids are never issued twice, so it *)
(* never will be again) or because _last_sequence has passed it.           *)
(***************************************************************************)
Consumed(id, s) ==
    /\ accepted[id][s] = 1
    /\ id <= issued
    /\ id = gate.lease => s <= gate.last

History ==
    \A id \in LeaseId, s \in 0 .. MaxSeq :
       accepted[id][s] = 0 \/ Consumed(id, s)

Inv ==
    /\ Sound(gate)
    /\ issued \in 0 .. MaxLeases
    /\ gate.lease <= issued
    /\ accepted \in [LeaseId -> [0 .. MaxSeq -> Nat]]
    /\ History

\* A gate nobody has called yet satisfies the inductive invariant.
LEMMA InvInit == Init => Inv
<1> SUFFICES ASSUME Init PROVE Inv
  OBVIOUS
<1>1. /\ gate = NewGate /\ issued = 0 /\ accepted = NoneYet
  BY DEF Init
<1>2. /\ gate \in GateState
      /\ gate.held = {} /\ gate.lease = 0
  BY <1>1 DEF NewGate, GateState, NoLease
<1>3. accepted \in [LeaseId -> [0 .. MaxSeq -> Nat]]
  BY <1>1 DEF NoneYet
<1>4. History
  BY <1>1 DEF History, NoneYet
<1> QED
  BY <1>1, <1>2, <1>3, <1>4, GateClientsAssumption DEF Inv, Sound, NoLease

(***************************************************************************)
(* A call that accepts no action keeps the history; what it must show is   *)
(* only where the lease it leaves comes from.                              *)
(***************************************************************************)
LEMMA HistoryKept ==
    ASSUME Inv, Sound(gate'), accepted' = accepted,
           issued' \in 0 .. MaxLeases, issued <= issued',
           \/ gate'.lease = NoLease
           \/ gate'.lease = issued' /\ issued < issued'
           \/ gate'.lease = gate.lease /\ gate'.last = gate.last
    PROVE  Inv'
<1>1. gate \in GateState /\ gate' \in GateState
  BY DEF Inv, Sound
<1>2. issued \in Nat /\ issued' \in Nat /\ gate.lease \in Nat /\ gate'.lease \in Nat
  BY <1>1 DEF Inv, GateState
<1>3. gate'.lease <= issued'
  BY <1>2 DEF Inv, NoLease
<1>4. ASSUME NEW id \in LeaseId, NEW s \in 0 .. MaxSeq
      PROVE  accepted'[id][s] = 0 \/ Consumed(id, s)'
  <2>1. accepted[id][s] = 0 \/ Consumed(id, s)
    BY DEF Inv, History
  <2> QED
    BY <1>2, <2>1 DEF Consumed, LeaseId, NoLease
<1> QED
  BY <1>3, <1>4 DEF Inv, History

\* Counting one more acceptance of sequence k under a lease.
LEMMA CountOne ==
    ASSUME NEW f \in [0 .. MaxSeq -> Nat], NEW k \in 0 .. MaxSeq
    PROVE  /\ [f EXCEPT ![k] = f[k] + 1] \in [0 .. MaxSeq -> Nat]
           /\ \A s \in 0 .. MaxSeq :
                 [f EXCEPT ![k] = f[k] + 1][s] = IF s = k THEN f[k] + 1 ELSE f[s]
<1>1. f[k] + 1 \in Nat
  OBVIOUS
<1> QED
  BY <1>1

\* Every call, and the passage of time, preserves the inductive invariant.
LEMMA InvNext == Inv /\ [Next]_vars => Inv'
<1> SUFFICES ASSUME Inv, [Next]_vars PROVE Inv'
  OBVIOUS
<1> USE GateClientsAssumption
<1>0. /\ Sound(gate) /\ gate \in GateState
      /\ issued \in 0 .. MaxLeases
      /\ gate.lease \in Nat
  BY DEF Inv, Sound, GateState
<1>1. CASE Issue
  <2>1. PICK kinds \in {Kinds, {"mouse"}}, first \in 0 .. MaxSeq :
           \E r \in Issues(gate, issued + 1, kinds, first) : gate' = r.gate
    BY <1>1 DEF Issue
  <2>2. /\ kinds \in SUBSET Kinds /\ first \in Nat
        /\ issued + 1 \in Nat /\ issued + 1 # NoLease
    BY <1>0, <2>1, MotorGateAssumption DEF Kinds, NoLease
  <2>3. Sound(gate') /\ gate'.lease \in {NoLease, issued + 1}
    BY <1>0, <2>1, <2>2, IssuesResult
  <2>4. /\ issued' = issued + 1 /\ issued' \in 0 .. MaxLeases /\ accepted' = accepted
    BY <1>0, <1>1 DEF Issue
  <2> QED
    BY <1>0, <2>3, <2>4, HistoryKept
<1>2. CASE Renew
  <2>1. PICK id \in KnownId : \E r \in Renews(gate, id) : gate' = r.gate
    BY <1>2 DEF Renew
  <2>2. id \in Nat
    BY <1>0 DEF KnownId
  <2>3. /\ Sound(gate')
        /\ gate'.lease = NoLease \/ (gate'.lease = gate.lease /\ gate'.last = gate.last)
    BY <1>0, <2>1, <2>2, RenewsResult DEF Revoked
  <2> QED
    BY <1>0, <1>2, <2>3, HistoryKept DEF Renew
<1>3. CASE Apply
  <2> DEFINE Counted(r, id, a) ==
                /\ gate' = r.gate
                /\ accepted' = IF r.out = "ok"
                               THEN [accepted EXCEPT ![id][a.seq] = accepted[id][a.seq] + 1]
                               ELSE accepted
  <2>0. PICK id \in KnownId, a \in Actions, refresh \in BOOLEAN, permitted \in BOOLEAN :
           \E r \in Applies(gate, id, a, refresh, permitted) : Counted(r, id, a)
    BY <1>3 DEF Apply
  <2>1. PICK r \in Applies(gate, id, a, refresh, permitted) : Counted(r, id, a)
    BY <2>0
  <2>2. id \in Nat /\ a \in MotorAction
    BY <1>0 DEF KnownId
  <2>3. \/ Sound(gate') /\ gate'.lease = NoLease /\ r.out # "ok"
        \/ /\ Admissible(gate, id, a)
           /\ Sound(gate')
           /\ gate'.lease = gate.lease
           /\ gate'.last = a.seq
           /\ r.out = "ok"
    BY <1>0, <2>1, <2>2, AppliesResult DEF Revoked
  <2>4. issued' = issued
    BY <1>3 DEF Apply
  <2>5. CASE r.out # "ok"
    BY <1>0, <2>1, <2>3, <2>4, <2>5, HistoryKept
  <2>6. CASE r.out = "ok"
    <3>1. /\ gate.lease = id /\ id \in LeaseId
          /\ gate.last < a.seq
          /\ a.seq \in 0 .. MaxSeq /\ gate.last \in Int
      BY <1>0, <2>2, <2>3, <2>6 DEF Admissible, Holds, Inv, LeaseId, NoLease, MotorAction, GateState
    <3>2. Sound(gate') /\ gate'.lease = id /\ gate'.last = a.seq
      BY <2>3, <2>6, <3>1
    <3>3. accepted' = [accepted EXCEPT ![id][a.seq] = accepted[id][a.seq] + 1]
      BY <2>1, <2>6
    <3> DEFINE row == [accepted[id] EXCEPT ![a.seq] = accepted[id][a.seq] + 1]
    <3>7. accepted \in [LeaseId -> [0 .. MaxSeq -> Nat]]
      BY DEF Inv
    <3>8. accepted[id] \in [0 .. MaxSeq -> Nat]
      BY <3>1, <3>7
    <3>9. row \in [0 .. MaxSeq -> Nat]
      BY <3>1, <3>8, CountOne
    <3>10. accepted' = [accepted EXCEPT ![id] = row]
      BY <3>3
    <3>4. accepted' \in [LeaseId -> [0 .. MaxSeq -> Nat]]
      <4> HIDE DEF row
      <4> QED
        BY <3>1, <3>7, <3>9, <3>10
    <3>5. accepted[id][a.seq] = 0
      BY <3>1 DEF Inv, History, Consumed
    <3>6. ASSUME NEW i \in LeaseId, NEW s \in 0 .. MaxSeq
          PROVE  accepted'[i][s] = 0 \/ Consumed(i, s)'
      <4>1. accepted[i][s] = 0 \/ Consumed(i, s)
        BY DEF Inv, History
      <4>2. CASE i = id /\ s = a.seq
        <5>1. accepted'[i][s] = row[s]
          BY <3>1, <3>7, <3>10, <4>2
        <5>2. row[s] = 1
          BY <3>1, <3>5, <3>8, <4>2, CountOne
        <5> QED
          BY <2>4, <3>1, <3>2, <4>2, <5>1, <5>2 DEF Consumed, Inv
      <4>3. CASE ~(i = id /\ s = a.seq)
        <5>1. accepted'[i][s] = accepted[i][s]
          BY <3>1, <3>3, <4>3 DEF Inv
        <5> QED
          BY <2>4, <3>1, <3>2, <4>1, <5>1 DEF Consumed
      <4> QED
        BY <4>2, <4>3
    <3> QED
      BY <1>0, <2>4, <3>1, <3>2, <3>4, <3>6 DEF Inv, History
  <2> QED
    BY <2>5, <2>6
<1>4. CASE ReleaseInputs
  <2>1. PICK id \in KnownId, refresh \in BOOLEAN :
           \E r \in Releases(gate, id, refresh) : gate' = r.gate
    BY <1>4 DEF ReleaseInputs
  <2>2. id \in Nat
    BY <1>0 DEF KnownId
  <2>3. /\ Sound(gate')
        /\ gate'.lease = NoLease \/ (gate'.lease = gate.lease /\ gate'.last = gate.last)
    BY <1>0, <2>1, <2>2, ReleasesResult DEF Revoked
  <2> QED
    BY <1>0, <1>4, <2>3, HistoryKept DEF ReleaseInputs
<1>5. CASE CheckExpiry \/ Revoke
  <2>1. Sound(gate') /\ gate'.lease = NoLease
    BY <1>0, <1>5, RevokesResult DEF CheckExpiry, Revoke, Revoked
  <2> QED
    BY <1>0, <1>5, <2>1, HistoryKept DEF CheckExpiry, Revoke
<1>6. CASE Expire
  <2>1. gate' = [gate EXCEPT !.expired = TRUE]
    BY <1>6 DEF Expire
  <2>2. Sound(gate') /\ gate'.lease = gate.lease /\ gate'.last = gate.last
    BY <1>0, <2>1 DEF Sound, GateState
  <2> QED
    BY <1>0, <1>6, <2>2, HistoryKept DEF Expire
<1>7. CASE UNCHANGED vars
  <2>1. gate' = gate /\ issued' = issued /\ accepted' = accepted
    BY <1>7 DEF vars
  <2> QED
    BY <1>0, <2>1, HistoryKept
<1> QED
  BY <1>1, <1>2, <1>3, <1>4, <1>5, <1>6, <1>7 DEF Next

\* The inductive invariant holds whatever the clients of the gate do.
THEOREM Invariance == Spec => []Inv
  BY InvInit, InvNext, PTL DEF Spec

(***************************************************************************)
(* The gate never presses input nobody holds a lease for, never issues a   *)
(* lease over unconfirmed input and never lets gate and backend disagree,  *)
(* whatever the callers do and whichever backend calls fail.               *)
(***************************************************************************)
THEOREM GateSafety ==
    Spec => [](TypeOK /\ GateAgrees)
<1>1. Inv => TypeOK /\ GateAgrees
  BY DEF Inv, Sound, TypeOK, GateAgrees, HeldNeedsLease, LeaseStartsNeutral, BackendAgrees
<1> QED
  BY <1>1, Invariance, PTL

\* A sequence number is accepted at most once under a lease.
THEOREM ReplaySafety == Spec => []NoReplay
<1>1. Inv => NoReplay
  BY DEF Inv, History, Consumed, NoReplay
<1> QED
  BY <1>1, Invariance, PTL

\* No step revives a revoked or an expired lease.
THEOREM RevivalSafety == Spec => NoRevival
<1> DEFINE Authority ==
       gate'.lease # NoLease =>
          \/ gate'.lease = issued + 1
          \/ gate'.lease = gate.lease /\ (gate.expired => gate'.expired)
<1>1. ASSUME Inv, Next PROVE Authority
  <2>1. Sound(gate) /\ issued \in Nat
    BY <1>1, GateClientsAssumption DEF Inv
  <2>2. CASE Issue
    <3>1. PICK kinds \in {Kinds, {"mouse"}}, first \in 0 .. MaxSeq :
             \E r \in Issues(gate, issued + 1, kinds, first) : gate' = r.gate
      BY <2>2 DEF Issue
    <3>2. /\ kinds \in SUBSET Kinds /\ first \in Nat
          /\ issued + 1 \in Nat /\ issued + 1 # NoLease
      BY <2>1, <3>1, MotorGateAssumption DEF Kinds, NoLease
    <3> QED
      BY <2>1, <3>1, <3>2, IssuesResult
  <2>3. CASE Renew
    <3>1. PICK id \in KnownId : \E r \in Renews(gate, id) : gate' = r.gate
      BY <2>3 DEF Renew
    <3> QED
      BY <2>1, <3>1, RenewsResult DEF Revoked, KnownId
  <2>4. CASE Apply
    <3>1. PICK id \in KnownId, a \in Actions, refresh \in BOOLEAN, permitted \in BOOLEAN :
             \E r \in Applies(gate, id, a, refresh, permitted) : gate' = r.gate
      BY <2>4 DEF Apply
    <3>2. id \in Nat /\ a \in MotorAction
      BY <2>1, GateClientsAssumption DEF KnownId
    <3> QED
      BY <2>1, <3>1, <3>2, AppliesResult DEF Revoked, Admissible
  <2>5. CASE ReleaseInputs
    <3>1. PICK id \in KnownId, refresh \in BOOLEAN :
             \E r \in Releases(gate, id, refresh) : gate' = r.gate
      BY <2>5 DEF ReleaseInputs
    <3> QED
      BY <2>1, <3>1, ReleasesResult DEF Revoked, KnownId
  <2>6. CASE CheckExpiry \/ Revoke
    BY <2>1, <2>6, RevokesResult DEF CheckExpiry, Revoke, Revoked, Sound
  <2>7. CASE Expire
    BY <2>1, <2>7 DEF Expire, Sound, GateState
  <2> QED
    BY <1>1, <2>2, <2>3, <2>4, <2>5, <2>6, <2>7 DEF Next
<1>2. Inv /\ [Next]_vars => [Authority]_vars
  BY <1>1
<1> QED
  BY <1>2, Invariance, PTL DEF Spec, NoRevival
=============================================================================

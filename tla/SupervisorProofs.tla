-------------------------- MODULE SupervisorProofs --------------------------
(***************************************************************************)
(* Proofs about the supervisor, for every set of keys, buttons, actions    *)
(* and commands and every number of leases: where a capability may exist,  *)
(* when the camera origin is published, that STOPPED is for good, and that *)
(* every step is a step, or a stutter, of what InputAuthority promises.    *)
(***************************************************************************)
EXTENDS Supervisor, TLAPS

-----------------------------------------------------------------------------
(***************************************************************************)
(* What a method of the gate promises, in the terms of the promise to the  *)
(* operator: it ended the capability and released what was pressed or is   *)
(* known not to have (Ended), it kept both (Kept), or it was a new or a    *)
(* used capability.                                                        *)
(***************************************************************************)
Swept(g, h) ==
    \/ h.held = {} /\ ~h.unconfirmed
    \/ h.held \subseteq g.held /\ h.unconfirmed

Ended(g, h) == h \in GateState /\ h.lease = NoLease /\ Swept(g, h)

Kept(g, h) ==
    /\ h \in GateState
    /\ h.lease = g.lease /\ h.held = g.held /\ h.unconfirmed = g.unconfirmed

\* A revocation ends the capability; if it does not raise, the input is neutral.
LEMMA RevokesEnds ==
    ASSUME NEW g \in GateState, NEW r \in Revokes(g)
    PROVE  /\ Ended(g, r.gate)
           /\ r.out \in {"ok", "raised"}
           /\ r.out = "ok" => r.gate.held = {} /\ ~r.gate.unconfirmed
<1>1. PICK o \in RevokeOutcome(g) :
         r = [gate |-> [g EXCEPT !.lease = NoLease, !.expired = FALSE, !.allowed = {},
                                 !.reason = "revoked", !.bound = o.bound,
                                 !.held = o.left, !.unconfirmed = ~o.swept],
              out  |-> IF o.swept /\ o.bound = NoLease THEN "ok" ELSE "raised"]
  BY DEF Revokes
<1>2. /\ o.swept \in BOOLEAN
      /\ o.left \subseteq g.held
      /\ o.bound \in Nat
      /\ o.swept => o.left = {}
  BY DEF RevokeOutcome, GateState, NoLease
<1>3. r.gate \in GateState
  BY <1>1, <1>2 DEF GateState, NoLease
<1>4. /\ r.gate.lease = NoLease
      /\ r.gate.held = o.left
      /\ r.gate.unconfirmed = ~o.swept
      /\ r.out = (IF o.swept /\ o.bound = NoLease THEN "ok" ELSE "raised")
  BY <1>1 DEF GateState
<1> QED
  BY <1>2, <1>3, <1>4 DEF Ended, Swept

\* A rejected call ends the capability and returns what it was told to.
LEMMA RejectsEnds ==
    ASSUME NEW g \in GateState, NEW out, NEW r \in Rejects(g, out)
    PROVE  Ended(g, r.gate) /\ r.out = out
<1>1. PICK q \in Revokes(g) : r = [gate |-> q.gate, out |-> out]
  BY DEF Rejects
<1> QED
  BY <1>1, RevokesEnds

\* A second revocation releases at least what the first one left.
LEMMA EndedAgain ==
    ASSUME NEW g, NEW h, NEW k, Ended(g, h), Ended(h, k)
    PROVE  Ended(g, k)
BY DEF Ended, Swept

\* Binding h publishes it under id, or ends what g was.
LEMMA BindsKeepsOrEnds ==
    ASSUME NEW g \in GateState, NEW h \in GateState, NEW id \in Nat,
           NEW r \in BindsAs(g, h, id)
    PROVE  \/ /\ r.out = "ok"
              /\ r.gate \in GateState
              /\ r.gate.lease = id
              /\ r.gate.held = h.held
              /\ r.gate.unconfirmed = h.unconfirmed
           \/ r.out = "raised" /\ Ended(g, r.gate)
<1> DEFINE b == [g EXCEPT !.bound = id]
<1>1. b \in GateState /\ b.held = g.held
  BY DEF GateState
<1>2. CASE r = [gate |-> Published(h, id), out |-> "ok"]
  BY <1>2 DEF Published, GateState
<1>3. CASE r \in Rejects(b, "raised")
  <2> HIDE DEF b
  <2>1. Ended(b, r.gate) /\ r.out = "raised"
    BY <1>1, <1>3, RejectsEnds
  <2> QED
    BY <1>1, <2>1 DEF Ended, Swept
<1> QED
  BY <1>2, <1>3 DEF BindsAs

\* issue: a lease over neutral, confirmed input, or none.
LEMMA IssuesGrantsOrEnds ==
    ASSUME NEW g \in GateState, NEW id \in Nat, NEW kinds \in SUBSET Kinds,
           NEW r \in Issues(g, id, kinds, 0)
    PROVE  \/ /\ r.out = "ok"
              /\ r.gate \in GateState
              /\ r.gate.lease = id
              /\ r.gate.held = {}
              /\ ~r.gate.unconfirmed
           \/ r.out = "raised" /\ Ended(g, r.gate)
<1> DEFINE Granted(h) == [h EXCEPT !.allowed = kinds, !.last = 0 - 1]
<1>1. PICK q \in Revokes(g) :
         r \in (IF q.out = "ok" THEN BindsAs(q.gate, Granted(q.gate), id) ELSE {q})
  BY DEF Issues
<1>2. /\ Ended(g, q.gate)
      /\ q.out \in {"ok", "raised"}
      /\ q.out = "ok" => q.gate.held = {} /\ ~q.gate.unconfirmed
  BY RevokesEnds
<1>3. CASE q.out # "ok"
  BY <1>1, <1>2, <1>3
<1>4. CASE q.out = "ok"
  <2> DEFINE h == q.gate
             k == Granted(h)
  <2>1. h \in GateState /\ h.held = {} /\ ~h.unconfirmed
    BY <1>2, <1>4 DEF Ended
  <2> HIDE DEF h
  <2>2. k \in GateState /\ k.held = {} /\ ~k.unconfirmed
    <3>1. [h EXCEPT !.allowed = kinds] \in GateState
      BY <2>1 DEF GateState
    <3>2. 0 - 1 \in Int
      OBVIOUS
    <3> QED
      BY <2>1, <3>1, <3>2 DEF GateState
  <2>3. r \in BindsAs(h, k, id)
    BY <1>1, <1>4 DEF h
  <2> HIDE DEF k
  <2>4. \/ /\ r.out = "ok"
           /\ r.gate \in GateState
           /\ r.gate.lease = id
           /\ r.gate.held = {}
           /\ ~r.gate.unconfirmed
        \/ r.out = "raised" /\ Ended(h, r.gate)
    BY <2>1, <2>2, <2>3, BindsKeepsOrEnds
  <2> QED
    BY <1>2, <2>4, EndedAgain DEF h
<1> QED
  BY <1>3, <1>4

\* renew keeps the capability as it is, or ends it.
LEMMA RenewsKeepsOrEnds ==
    ASSUME NEW g \in GateState, NEW id \in Nat, NEW r \in Renews(g, id)
    PROVE  \/ r.out = "ok" /\ Kept(g, r.gate) /\ g.lease # NoLease
           \/ r.out = "raised" /\ Ended(g, r.gate)
<1>1. CASE ~Holds(g, id) \/ g.expired
  BY <1>1, RejectsEnds DEF Renews
<1>2. CASE Holds(g, id) /\ ~g.expired
  BY <1>2, BindsKeepsOrEnds DEF Renews, Binds, Holds, Kept
<1> QED
  BY <1>1, <1>2

(***************************************************************************)
(* apply presses nothing new unless it is permitted, whether it succeeds,  *)
(* is refused, or fails in the middle.                                     *)
(***************************************************************************)
Used(g, h, permitted) ==
    /\ h \in GateState
    /\ g.lease # NoLease /\ h.lease = g.lease
    /\ permitted \/ h.held \subseteq g.held

Struck(g, h, permitted) ==
    \/ Ended(g, h)
    \/ /\ h \in GateState /\ h.lease = NoLease
       /\ g.lease # NoLease /\ permitted /\ h.unconfirmed

\* apply keeps the capability or ends it, and says which.
LEMMA AppliesUsesOrStrikes ==
    ASSUME NEW g \in GateState, NEW id \in Nat, NEW a,
           a.seq \in Int, a.down \in SUBSET Tokens, a.up \in SUBSET Tokens,
           NEW refresh \in BOOLEAN, NEW permitted \in BOOLEAN,
           NEW r \in Applies(g, id, a, refresh, permitted)
    PROVE  \/ r.out = "ok" /\ Used(g, r.gate, permitted)
           \/ r.out \in {"raised", "route"} /\ Struck(g, r.gate, permitted)
<1>1. CASE ~Admissible(g, id, a)
  BY <1>1, RejectsEnds DEF Applies, Struck
<1>2. CASE Admissible(g, id, a) /\ r \in BackendFaults(g, a, permitted)
  <2> DEFINE t == [g EXCEPT !.held = IF permitted THEN @ \cup a.down ELSE @]
  <2>1. /\ t \in GateState
        /\ ~permitted => t.held = g.held
    BY DEF GateState
  <2>2. r \in Rejects(t, "raised") \/ r \in Rejects(t, "route")
    BY <1>2 DEF BackendFaults
  <2> HIDE DEF t
  <2>3. Ended(t, r.gate) /\ r.out \in {"raised", "route"}
    BY <2>1, <2>2, RejectsEnds
  <2>4. g.lease # NoLease
    BY <1>2 DEF Admissible, Holds
  <2> QED
    BY <2>1, <2>3, <2>4 DEF Ended, Swept, Struck
<1>3. CASE Admissible(g, id, a) /\ r \notin BackendFaults(g, a, permitted)
  <2> DEFINE e == Emitted(g, a)
  <2>1. /\ e \in GateState
        /\ e.held = (g.held \cup a.down) \ a.up
        /\ e.lease = g.lease
    <3>1. (g.held \cup a.down) \ a.up \in SUBSET Tokens
      BY DEF GateState
    <3> QED
      BY <3>1 DEF Emitted, GateState
  <2>2. /\ g.lease = id /\ id # NoLease
        /\ permitted \/ e.held \subseteq g.held
    BY <1>3, <2>1 DEF Admissible, Holds, Applies, Positive
  <2>3. \/ r \in BindsAs(e, e, id)
        \/ r = [gate |-> e, out |-> "ok"]
    BY <1>3 DEF Applies, Binds
  <2> HIDE DEF e
  <2>4. CASE r = [gate |-> e, out |-> "ok"]
    BY <2>1, <2>2, <2>4 DEF Used
  <2>5. CASE r \in BindsAs(e, e, id)
    <3>1. \/ /\ r.out = "ok" /\ r.gate \in GateState
             /\ r.gate.lease = id /\ r.gate.held = e.held
          \/ r.out = "raised" /\ Ended(e, r.gate)
      BY <2>1, <2>5, BindsKeepsOrEnds
    <3> QED
      BY <2>1, <2>2, <3>1 DEF Used, Struck, Ended, Swept
  <2> QED
    BY <2>3, <2>4, <2>5
<1> QED
  BY <1>1, <1>2, <1>3

\* A revocation after a failed action leaves no more than the failure did.
LEMMA StruckAgain ==
    ASSUME NEW g, NEW h, NEW k, NEW permitted, Struck(g, h, permitted), Ended(h, k)
    PROVE  Struck(g, k, permitted)
BY DEF Struck, Ended, Swept

\* release_inputs leaves the capability over neutral input, or ends it.
LEMMA ReleasesKeepsOrEnds ==
    ASSUME NEW g \in GateState, NEW id \in Nat, NEW r \in Releases(g, id, TRUE)
    PROVE  \/ /\ r.out = "ok" /\ g.lease # NoLease
              /\ r.gate \in GateState /\ r.gate.lease = g.lease
              /\ r.gate.held = {} /\ ~r.gate.unconfirmed
           \/ r.out = "raised" /\ Ended(g, r.gate)
<1>1. CASE r \in Rejects(g, "raised")
  BY <1>1, RejectsEnds
<1>2. CASE r \notin Rejects(g, "raised")
  <2> DEFINE s == [g EXCEPT !.held = {}, !.unconfirmed = FALSE]
  <2>1. s \in GateState /\ s.held = {} /\ ~s.unconfirmed /\ s.lease = g.lease
    BY DEF GateState
  <2>2. /\ g.lease = id /\ id # NoLease
        /\ r \in BindsAs(s, s, id)
    BY <1>2 DEF Releases, Holds, Binds
  <2> HIDE DEF s
  <2>3. \/ /\ r.out = "ok" /\ r.gate \in GateState
           /\ r.gate.lease = id /\ r.gate.held = {} /\ ~r.gate.unconfirmed
        \/ r.out = "raised" /\ Ended(s, r.gate)
    BY <2>1, <2>2, BindsKeepsOrEnds
  <2> QED
    BY <2>1, <2>2, <2>3 DEF Ended, Swept
<1> QED
  BY <1>1, <1>2

-----------------------------------------------------------------------------
(***************************************************************************)
(* The inductive invariant.  LeaseState alone is not inductive: a command  *)
(* inside _lock relies on the state it checked when it entered, and the    *)
(* main thread, between its decision and its assignment, on the state it   *)
(* decided from.                                                           *)
(***************************************************************************)
Serving == {"SAFE_IDLE", "ARMED", "RUNNING", "PAUSED"}

Backed ==
    gate.lease # NoLease =>
       \/ state \in {"ARMED", "RUNNING"}
       \/ state = "SAFE_IDLE" /\ section \in CameraSections

\* What a thread inside _lock may rely on.
Placed ==
    /\ section \in {"motor"} \cup ChatSections => state = "RUNNING"
    /\ section \in CameraSections => state = "SAFE_IDLE"
    /\ section \in ChatSections \cup CameraSections => live
    /\ section = "cal-publish" => gate.lease = NoLease

\* A display the process drives has no input left over from another process.
Adopted == live => stuck = {}

AtRest ==
    ~Up => /\ state = "STOPPED" /\ gate.lease = NoLease /\ ~live
           /\ section = "free" /\ sig = "none"

\* Only a signal can change the state the main thread decided from.
Deciding ==
    /\ flagged => section = "main"
    /\ section = "main" => wd \in {"disarm", "fail-expired", "fail-emergency"}
    /\ flagged /\ sig # "stop" =>
          \/ SignalInside /\ state = "STOPPED"
          \/ wd = "disarm" /\ state \in {"ARMED", "RUNNING"}
          \/ wd # "disarm" /\ state \in Serving

IInv == TypeOK /\ Backed /\ Placed /\ Adopted /\ AtRest /\ Deciding

\* Before the first generation nothing runs and nothing is held.
LEMMA IInvInit == Init => IInv
<1> SUFFICES ASSUME Init PROVE IInv
  OBVIOUS
<1>1. gate \in GateState /\ gate.lease = NoLease
  BY DEF Init, NewGate, GateState, NoLease
<1>2. issued \in 0 .. MaxLeases /\ client \in 0 .. MaxLeases
  BY SupervisorAssumption DEF Init, NoLease
<1>3. TypeOK
  BY <1>1, <1>2 DEF Init, TypeOK, States, Sections, MainSteps, Transactions
<1> QED
  BY <1>1, <1>3
     DEF Init, IInv, Backed, Placed, Adopted, AtRest, Deciding, Up, ChatSections, CameraSections

-----------------------------------------------------------------------------
(***************************************************************************)
(* The methods that move the state and revoke.  Either nothing happens, or *)
(* the state goes down to where there is no capability, and the capability *)
(* ends.                                                                   *)
(***************************************************************************)
Demoted(s, t) ==
    \/ t = s
    \/ s \in Serving /\ t \in {"PAUSED", "FAILSAFE"}
    \/ t = "STOPPED"

Withdrawn(s, g, r) == Demoted(s, r.state) /\ Ended(g, r.gate)

Untouched(s, g, r) == r.state = s /\ r.gate = g

\* What such a method returns.
IsResult(r) == r = [state |-> r.state, gate |-> r.gate, out |-> r.out]

\* Every way to move the state ends the capability on its way.
LEMMA RevokingWithdraws ==
    ASSUME NEW s, NEW g \in GateState, NEW r \in Revoking(s, g)
    PROVE  /\ IsResult(r)
           /\ r.state = s
           /\ Ended(g, r.gate)
           /\ r.out = "ok" => r.gate.held = {} /\ ~r.gate.unconfirmed
<1>1. PICK q \in Revokes(g) :
         r \in {[state |-> s, gate |-> q.gate, out |-> o] : o \in {q.out, "raised"}}
  BY DEF Revoking
<1>2. PICK o \in {q.out, "raised"} : r = [state |-> s, gate |-> q.gate, out |-> o]
  BY <1>1
<1> QED
  BY <1>2, RevokesEnds DEF IsResult

\* fail() goes to FAILSAFE from everywhere but STOPPED, where it does nothing.
LEMMA FailWithdraws ==
    ASSUME NEW s \in States, NEW g \in GateState, NEW r \in FailFrom(s, g)
    PROVE  /\ IsResult(r)
           /\ \/ s = "STOPPED" /\ Untouched(s, g, r)
              \/ s # "STOPPED" /\ Withdrawn(s, g, r) /\ r.state = "FAILSAFE"
<1>1. CASE s = "STOPPED"
  BY <1>1 DEF FailFrom, Untouched, IsResult
<1>2. CASE s # "STOPPED"
  <2> DEFINE t == IF "FAILSAFE" \in Allowed(s) THEN "FAILSAFE" ELSE s
  <2>1. t = "FAILSAFE" /\ Demoted(s, t)
    BY <1>2 DEF States, Allowed, Demoted, Serving
  <2>2. r \in Revoking(t, g)
    BY <1>2 DEF FailFrom
  <2> HIDE DEF t
  <2> QED
    BY <1>2, <2>1, <2>2, RevokingWithdraws DEF Withdrawn
<1> QED
  BY <1>1, <1>2

\* disarm() goes to PAUSED only from where there may be a capability.
LEMMA DisarmWithdraws ==
    ASSUME NEW s \in States, NEW g \in GateState, NEW r \in DisarmFrom(s, g)
    PROVE  /\ IsResult(r)
           /\ Withdrawn(s, g, r)
           /\ r.state = IF s \in {"ARMED", "RUNNING"} THEN "PAUSED" ELSE s
<1> DEFINE t == IF s \in {"ARMED", "RUNNING"} THEN "PAUSED" ELSE s
<1>1. Demoted(s, t)
  BY DEF Demoted, Serving
<1>2. r \in Revoking(t, g)
  BY DEF DisarmFrom
<1> QED
  BY <1>1, <1>2, RevokingWithdraws DEF Withdrawn

\* pause() leaves PAUSED and STOPPED alone.
LEMMA PauseWithdraws ==
    ASSUME NEW s \in States, NEW g \in GateState, NEW r \in PauseFrom(s, g)
    PROVE  \/ s \in {"PAUSED", "STOPPED"} /\ Untouched(s, g, r)
           \/ Withdrawn(s, g, r) /\ r.state = IF s = "FAILSAFE" THEN s ELSE "PAUSED"
<1>1. CASE s \in {"PAUSED", "STOPPED"}
  BY <1>1 DEF PauseFrom, Untouched
<1>2. CASE s \notin {"PAUSED", "STOPPED"}
  <2> DEFINE t == IF s = "FAILSAFE" THEN s ELSE "PAUSED"
  <2>1. Demoted(s, t)
    BY <1>2 DEF States, Demoted, Serving
  <2>2. r \in Revoking(t, g)
    BY <1>2 DEF PauseFrom
  <2> QED
    BY <2>1, <2>2, RevokingWithdraws DEF Withdrawn
<1> QED
  BY <1>1, <1>2

\* stop() ends in STOPPED, without a capability.
LEMMA StopWithdraws ==
    ASSUME NEW s, NEW g \in GateState, NEW r \in StopFrom(s, g)
    PROVE  Withdrawn(s, g, r) /\ r.state = "STOPPED"
BY RevokingWithdraws DEF StopFrom, Withdrawn, Demoted

(***************************************************************************)
(* The checks in front of a command: nothing happens, or the capability    *)
(* ends; a STOPPED supervisor stays STOPPED.                               *)
(***************************************************************************)
Checked(r) == Untouched(state, gate, r) \/ Withdrawn(state, gate, r)

\* A method whose caller then raises has done all it did.
LEMMA RaisingKeeps ==
    ASSUME NEW q, IsResult(q), NEW r, r = [q EXCEPT !.out = "raised"]
    PROVE  IsResult(r) /\ r.state = q.state /\ r.gate = q.gate /\ r.out = "raised"
BY DEF IsResult

\* The interlock refuses under a latch, and then withdraws.
LEMMA InterlockChecks ==
    ASSUME TypeOK, NEW r \in Interlock
    PROVE  /\ Checked(r)
           /\ state = "STOPPED" => r.state = "STOPPED"
           /\ ~Permitted => r.out = "raised"
<1>1. state \in States /\ gate \in GateState
  BY DEF TypeOK
<1>2. CASE emergency
  <2>1. PICK q \in FailFrom(state, gate) : r = [q EXCEPT !.out = "raised"]
    BY <1>2 DEF Interlock, Raising, Fail
  <2>2. /\ IsResult(q)
        /\ \/ state = "STOPPED" /\ Untouched(state, gate, q)
           \/ state # "STOPPED" /\ Withdrawn(state, gate, q)
    BY <1>1, FailWithdraws
  <2>3. r.state = q.state /\ r.gate = q.gate /\ r.out = "raised"
    BY <2>1, <2>2, RaisingKeeps
  <2> QED
    BY <2>2, <2>3 DEF Checked, Withdrawn, Untouched
<1>3. CASE ~emergency /\ pause
  <2>1. PICK q \in DisarmFrom(state, gate) : r = [q EXCEPT !.out = "raised"]
    BY <1>3 DEF Interlock, Raising, Disarm
  <2>2. /\ IsResult(q) /\ Withdrawn(state, gate, q)
        /\ state = "STOPPED" => q.state = "STOPPED"
    BY <1>1, DisarmWithdraws
  <2>3. r.state = q.state /\ r.gate = q.gate /\ r.out = "raised"
    BY <2>1, <2>2, RaisingKeeps
  <2> QED
    BY <2>2, <2>3 DEF Checked, Withdrawn
<1>4. CASE ~emergency /\ ~pause
  BY <1>4 DEF Interlock, Unchanged, Checked, Untouched, Permitted
<1> QED
  BY <1>2, <1>3, <1>4

\* revoke() and fail(), with fail() not reached when revoke() raised.
LEMMA RevokeThenFailChecks ==
    ASSUME TypeOK, NEW r \in RevokeThenFail
    PROVE  /\ IsResult(r)
           /\ Withdrawn(state, gate, r)
           /\ state = "STOPPED" => r.state = "STOPPED"
<1>1. state \in States /\ gate \in GateState
  BY DEF TypeOK
<1>2. PICK q \in Revokes(gate) :
         r \in (IF q.out = "raised" THEN {[state |-> state, gate |-> q.gate, out |-> "raised"]}
                                    ELSE FailFrom(state, q.gate))
  BY DEF RevokeThenFail
<1>3. Ended(gate, q.gate) /\ q.gate \in GateState
  BY <1>1, RevokesEnds DEF Ended
<1>4. CASE q.out = "raised"
  BY <1>2, <1>3, <1>4 DEF Withdrawn, Demoted, IsResult
<1>5. CASE q.out # "raised"
  <2>1. r \in FailFrom(state, q.gate)
    BY <1>2, <1>5
  <2>2. /\ IsResult(r)
        /\ \/ state = "STOPPED" /\ Untouched(state, q.gate, r)
           \/ state # "STOPPED" /\ Withdrawn(state, q.gate, r)
    BY <1>1, <1>3, <2>1, FailWithdraws
  <2>3. CASE Untouched(state, q.gate, r)
    BY <1>3, <2>2, <2>3 DEF Withdrawn, Untouched, Demoted
  <2>4. CASE state # "STOPPED" /\ Withdrawn(state, q.gate, r)
    BY <1>3, <2>2, <2>4, EndedAgain DEF Withdrawn
  <2> QED
    BY <2>2, <2>3, <2>4
<1> QED
  BY <1>4, <1>5

\* _require_running_lease lets only the RUNNING holder of a lease through.
LEMMA RunningLeaseChecks ==
    ASSUME TypeOK, NEW id, NEW r \in RunningLease(id)
    PROVE  /\ Checked(r)
           /\ state = "STOPPED" => r.state = "STOPPED"
           /\ r.out # "raised" =>
                 /\ Untouched(state, gate, r) /\ Permitted
                 /\ state = "RUNNING" /\ gate.lease # NoLease
<1>1. CASE ~Permitted
  BY <1>1, InterlockChecks DEF RunningLease
<1>2. CASE Permitted /\ state # "RUNNING"
  BY <1>2 DEF RunningLease, Unchanged, Checked, Untouched
<1>3. CASE Permitted /\ state = "RUNNING" /\ (~Holds(gate, id) \/ gate.expired)
  <2>1. PICK q \in RevokeThenFail : r = [q EXCEPT !.out = "raised"]
    BY <1>3 DEF RunningLease, Raising
  <2>2. IsResult(q) /\ Withdrawn(state, gate, q)
    BY RevokeThenFailChecks
  <2>3. r.state = q.state /\ r.gate = q.gate /\ r.out = "raised"
    BY <2>1, <2>2, RaisingKeeps
  <2> QED
    BY <1>3, <2>2, <2>3 DEF Checked, Withdrawn
<1>4. CASE Permitted /\ state = "RUNNING" /\ Holds(gate, id) /\ ~gate.expired
  BY <1>4 DEF RunningLease, Unchanged, Checked, Untouched, Holds
<1> QED
  BY <1>1, <1>2, <1>3, <1>4

-----------------------------------------------------------------------------
(***************************************************************************)
(* The promise, step by step.  PromiseStep is what each action must be.    *)
(***************************************************************************)
Authority   == live /\ (gate.lease # NoLease \/ section \in ChatSections)
Confirmed   == IF live THEN ~gate.unconfirmed ELSE stuck = {}
PromiseStep == [Promise!Next]_Promise!vars

\* The phase of a process that is up is that of its state.
LEMMA PhaseOfState ==
    ASSUME state \in States, Up
    PROVE  /\ Phase = "stopped" <=> state = "STOPPED"
           /\ Phase = "faulted" <=> state = "FAILSAFE"
           /\ Phase = "serving" <=> state \in Serving
           /\ Phase \in {"stopped", "faulted", "serving"}
BY DEF Phase, States, Serving, Up

\* The same after a step.
LEMMA PhaseOfNextState ==
    ASSUME state' \in States, Up'
    PROVE  /\ Phase' = "stopped" <=> state' = "STOPPED"
           /\ Phase' = "faulted" <=> state' = "FAILSAFE"
           /\ Phase' = "serving" <=> state' \in Serving
           /\ Phase' \in {"stopped", "faulted", "serving"}
BY DEF Phase, States, Serving, Up

\* What leaves the state and the capability alone, or ends the capability.
Calms ==
    \/ UNCHANGED core
    \/ Demoted(state, state') /\ Ended(gate, gate')

\* A state that only goes down takes the phase with it.
LEMMA DemotedPhase ==
    ASSUME state \in States, Demoted(state, state'), Up, Up'
    PROVE  /\ state' \in States
           /\ Phase' \in {Phase, "stopped"} \cup
                         (IF Phase = "serving" THEN {"faulted"} ELSE {})
           /\ Phase # "off"
<1>1. state' \in States
  BY DEF Demoted, States
<1> QED
  BY <1>1, PhaseOfState, PhaseOfNextState DEF Demoted, Serving

\* Calming is a revocation, or nothing at all.
LEMMA CalmStep ==
    ASSUME IInv, Calms, Up, Up', section' \notin ChatSections,
           section \in ChatSections => Demoted(state, state') /\ Ended(gate, gate'),
           UNCHANGED <<live, stuck, pause, emergency>>
    PROVE  PromiseStep
<1>1. /\ state \in States /\ gate \in GateState
      /\ live \in BOOLEAN /\ stuck \subseteq Tokens
  BY DEF IInv, TypeOK
<1>2. CASE UNCHANGED core /\ section \notin ChatSections
  <2>1. Phase' = Phase
    BY <1>1, <1>2, PhaseOfState, PhaseOfNextState DEF core
  <2> QED
    BY <1>2, <2>1 DEF PromiseStep, Promise!vars, core, Permitted, Physical
<1>3. CASE Demoted(state, state') /\ Ended(gate, gate')
  <2>1. /\ Phase' \in {Phase, "stopped"} \cup
                        (IF Phase = "serving" THEN {"faulted"} ELSE {})
        /\ Phase # "off"
    BY <1>1, <1>3, DemotedPhase
  <2>2. Authority' = FALSE
    BY <1>3 DEF Authority, Ended
  <2>3. \/ Physical' = {} /\ Confirmed' = TRUE
        \/ Physical' \subseteq Physical /\ Confirmed' = FALSE
    <3>1. CASE live
      BY <1>1, <1>3, <3>1 DEF Ended, Swept, Physical, Confirmed
    <3>2. CASE ~live
      BY <1>1, <3>2 DEF Physical, Confirmed
    <3> QED
      BY <3>1, <3>2
  <2>4. Permitted' = Permitted
    BY DEF Permitted
  <2>5. Promise!Revoke
    BY <2>1, <2>2, <2>3, <2>4
       DEF Promise!Revoke, Promise!Released, Authority, Confirmed
  <2> QED
    BY <2>5 DEF PromiseStep, Promise!Next
<1> QED
  BY <1>2, <1>3 DEF Calms

\* Input under a capability that stays: nothing new without permission.
LEMMA UseStep ==
    ASSUME IInv, Up, Up', state \in Serving, gate' \in GateState,
           InterlockRead \/ gate'.held \subseteq gate.held,
           gate.lease # NoLease \/ section \in ChatSections,
           gate'.lease # NoLease \/ section' \in ChatSections,
           UNCHANGED <<state, live, stuck, pause, emergency>>
    PROVE  PromiseStep
<1>1. /\ state \in States /\ gate \in GateState
      /\ live \in BOOLEAN /\ stuck \subseteq Tokens
  BY DEF IInv, TypeOK
<1>2. Phase = "serving" /\ Phase' = "serving" /\ Permitted' = Permitted
  BY <1>1, PhaseOfState, PhaseOfNextState DEF Permitted
<1>3. CASE ~live
  BY <1>2, <1>3 DEF PromiseStep, Promise!vars, Physical
<1>4. CASE live
  <2>1. /\ Authority = TRUE /\ Authority' = TRUE
        /\ Physical' \subseteq Tokens
        /\ Permitted \/ Physical' \subseteq Physical
        /\ Confirmed' \in BOOLEAN
    BY <1>4, <1>1 DEF Authority, Physical, Confirmed, GateState, InterlockRead
  <2>2. Promise!Use
    BY <1>2, <2>1 DEF Promise!Use, Authority, Confirmed
  <2> QED
    BY <2>2 DEF PromiseStep, Promise!Next
<1> QED
  BY <1>1, <1>3, <1>4

\* A capability is given over neutral input, under permission.
LEMMA GrantStep ==
    ASSUME IInv, Up, Permitted, state \in Serving, state' \in Serving,
           gate.lease = NoLease, section \notin ChatSections,
           gate'.lease # NoLease, gate'.held = {}, ~gate'.unconfirmed,
           UNCHANGED <<wd, live, stuck, pause, emergency>>
    PROVE  PromiseStep
<1>1. /\ state \in States /\ state' \in States
      /\ live \in BOOLEAN /\ stuck \subseteq Tokens
  BY DEF IInv, TypeOK, Serving, States
<1>2. Phase = "serving" /\ Phase' = "serving" /\ Permitted' = Permitted
  BY <1>1, PhaseOfState, PhaseOfNextState DEF Up, Permitted
<1>3. CASE ~live
  BY <1>2, <1>3 DEF PromiseStep, Promise!vars, Physical
<1>4. CASE live
  <2>1. /\ Authority = FALSE /\ Authority' = TRUE
        /\ Physical' = {} /\ Confirmed' = TRUE
    BY <1>4 DEF Authority, Physical, Confirmed
  <2>2. Promise!Grant
    BY <1>2, <2>1 DEF Promise!Grant, Authority, Confirmed
  <2> QED
    BY <2>2 DEF PromiseStep, Promise!Next
<1> QED
  BY <1>1, <1>3, <1>4

(***************************************************************************)
(* A backend that fails in the middle of an action may have pressed what   *)
(* it was permitted to, and says that it cannot confirm the release.       *)
(***************************************************************************)
LEMMA StrikeStep ==
    ASSUME IInv, Up, Up', Demoted(state, state'), Struck(gate, gate', InterlockRead),
           section \notin ChatSections, section' \notin ChatSections,
           UNCHANGED <<live, stuck, pause, emergency>>
    PROVE  PromiseStep
<1>1. /\ state \in States /\ gate \in GateState
      /\ live \in BOOLEAN /\ stuck \subseteq Tokens
  BY DEF IInv, TypeOK
<1>2. CASE Ended(gate, gate')
  BY <1>2, CalmStep DEF Calms
<1>3. CASE /\ gate' \in GateState /\ gate'.lease = NoLease
           /\ gate.lease # NoLease /\ InterlockRead /\ gate'.unconfirmed
  <2>1. /\ Phase' \in {Phase, "stopped"} \cup
                        (IF Phase = "serving" THEN {"faulted"} ELSE {})
        /\ Phase # "off"
    BY <1>1, DemotedPhase
  <2>2. Authority' = FALSE /\ Permitted' = Permitted
    BY <1>3 DEF Authority, Permitted
  <2>3. \/ Physical' = {} /\ Confirmed' = TRUE
        \/ Physical' \subseteq Physical /\ Confirmed' = FALSE
        \/ Physical' \subseteq Tokens /\ Permitted /\ Authority /\ Confirmed' = FALSE
    <3>1. CASE live
      BY <1>1, <1>3, <3>1 DEF Physical, Confirmed, Authority, InterlockRead, GateState
    <3>2. CASE ~live
      BY <1>1, <3>2 DEF Physical, Confirmed
    <3> QED
      BY <3>1, <3>2
  <2>4. Promise!Revoke
    BY <2>1, <2>2, <2>3
       DEF Promise!Revoke, Promise!Released, Authority, Confirmed
  <2> QED
    BY <2>4 DEF PromiseStep, Promise!Next
<1> QED
  BY <1>2, <1>3 DEF Struck

\* Nothing the operator can tell.
LEMMA QuietStep ==
    ASSUME IInv, Up, Up', state' \in States,
           state' = state \/ {state, state'} \subseteq Serving,
           gate'.held = gate.held, gate'.unconfirmed = gate.unconfirmed,
           (gate'.lease # NoLease \/ section' \in ChatSections) <=>
              (gate.lease # NoLease \/ section \in ChatSections),
           UNCHANGED <<live, stuck, pause, emergency>>
    PROVE  PromiseStep
<1>1. Phase' = Phase
  <2>1. state \in States
    BY DEF IInv, TypeOK
  <2> QED
    BY <2>1, PhaseOfState, PhaseOfNextState
<1> QED
  BY <1>1 DEF PromiseStep, Promise!vars, Permitted, Physical

-----------------------------------------------------------------------------
(***************************************************************************)
(* The invariant, step by step: a command that leaves the main thread      *)
(* alone has to keep the types, the lease and what threads rely on.        *)
(***************************************************************************)
LEMMA CommandKeeps ==
    ASSUME IInv, Up, section # "main", section' # "main",
           UNCHANGED <<main, live, stuck>>,
           TypeOK', Backed', Placed'
    PROVE  IInv'
BY DEF IInv, Adopted, AtRest, Deciding, Up, main

\* A command that ends where it began, with _lock free, and calms.
LEMMA CalmKeeps ==
    ASSUME IInv, Up, Calms, section # "main", section' = "free",
           section = "free" \/ gate'.lease = NoLease,
           UNCHANGED <<main, live, stuck>>,
           TypeOK'
    PROVE  IInv'
<1>1. Backed'
  BY DEF IInv, Backed, Calms, Ended, core, CameraSections
<1>2. Placed'
  BY DEF IInv, Placed, CameraSections, ChatSections
<1> QED
  BY <1>1, <1>2, CommandKeeps

\* What a calming step leaves is typed.
LEMMA CalmTyped ==
    ASSUME TypeOK, Calms
    PROVE  state' \in States /\ gate' \in GateState
BY DEF TypeOK, Calms, Demoted, Ended, core, States

\* What the checks in front of a command do is calming.
LEMMA CheckedCalms ==
    ASSUME NEW r, Checked(r), Leaves(r)
    PROVE  Calms
BY DEF Checked, Leaves, Calms, Untouched, Withdrawn, core

-----------------------------------------------------------------------------
(***************************************************************************)
(* The commands.  Good is what has to be shown of each action.             *)
(***************************************************************************)
Good == IInv' /\ PromiseStep

\* A command that calms, under a free _lock that stays free.
LEMMA CalmCommand ==
    ASSUME IInv, LockFree, Calms, UNCHANGED <<thread, main, live, stuck, files>>,
           TypeOK'
    PROVE  Good
<1>1. Up' /\ section' = "free"
  BY DEF LockFree, Up, thread, main
<1>2. UNCHANGED <<main, live, stuck>>
  OBVIOUS
<1>3. section = "free" /\ Up
  BY DEF LockFree
<1>4. UNCHANGED <<live, stuck, pause, emergency>>
  BY DEF files
<1>5. IInv'
  BY <1>1, <1>2, <1>3, CalmKeeps
<1>6. PromiseStep
  BY <1>1, <1>3, <1>4, CalmStep DEF ChatSections
<1> QED
  BY <1>5, <1>6 DEF Good

\* arm grants under permission, over neutral input, from SAFE_IDLE.
LEMMA ArmGood ==
    ASSUME IInv, Arm
    PROVE  Good
<1>1. TypeOK /\ gate \in GateState /\ state \in States
  BY DEF IInv, TypeOK
<1>2. /\ LockFree /\ Quiet /\ ~emergency
      /\ UNCHANGED <<books, files, stuck>>
  BY DEF Arm, Serves
<1>3. CASE pause
  <2>1. PICK r \in Revokes(gate) : gate' = r.gate
    BY <1>3 DEF Arm
  <2>2. UNCHANGED <<state, issued>>
    BY <1>3 DEF Arm
  <2>3. Calms
    BY <1>1, <2>1, <2>2, RevokesEnds DEF Calms, Demoted
  <2>4. gate' \in GateState
    BY <1>1, <2>3, CalmTyped
  <2>5. TypeOK'
    BY <1>1, <1>2, <2>2, <2>4 DEF TypeOK, books, Quiet, thread, main, files
  <2> QED
    BY <1>2, <2>3, <2>5, CalmCommand DEF Quiet, books
<1>4. CASE ~pause
  <2>1. /\ state = "SAFE_IDLE" /\ issued < MaxLeases /\ issued' = issued + 1
        /\ issued \in 0 .. MaxLeases
    BY <1>1, <1>4 DEF Arm, TypeOK
  <2>2. PICK r \in Issues(gate, issued + 1, Kinds, 0) :
           /\ gate' = r.gate
           /\ state' = IF r.out = "ok" THEN "ARMED" ELSE state
    BY <1>4 DEF Arm
  <2>3. /\ issued + 1 \in Nat /\ issued + 1 # NoLease
        /\ issued' \in 0 .. MaxLeases
    BY <2>1, SupervisorAssumption DEF NoLease
  <2>4. \/ /\ r.out = "ok" /\ r.gate \in GateState /\ r.gate.lease = issued + 1
           /\ r.gate.held = {} /\ ~r.gate.unconfirmed
        \/ r.out = "raised" /\ Ended(gate, r.gate)
    BY <1>1, <2>2, <2>3, IssuesGrantsOrEnds
  <2>5. state' \in States /\ gate' \in GateState
    BY <2>1, <2>2, <2>4 DEF States, Ended
  <2>6. TypeOK'
    BY <1>1, <1>2, <2>3, <2>5 DEF TypeOK, books, Quiet, thread, main, files
  <2>7. CASE r.out = "raised"
    <3>1. Calms
      BY <2>2, <2>4, <2>7 DEF Calms, Demoted
    <3> QED
      BY <1>2, <2>6, <3>1, CalmCommand DEF Quiet, books
  <2>8. CASE r.out = "ok"
    <3>1. state' = "ARMED" /\ gate'.lease # NoLease /\ gate'.held = {} /\ ~gate'.unconfirmed
      BY <2>2, <2>3, <2>4, <2>8
    <3>2. gate.lease = NoLease /\ section = "free" /\ section' = "free" /\ Up
      BY <1>2, <2>1 DEF IInv, Backed, LockFree, Quiet, thread, CameraSections
    <3>3. PromiseStep
      BY <1>2, <1>4, <2>1, <3>1, <3>2, GrantStep
         DEF Serving, ChatSections, Permitted, Quiet, main, books, files
    <3>4. IInv'
      BY <1>2, <2>6, <3>1, <3>2, CommandKeeps
         DEF Backed, Placed, Quiet, books, CameraSections, ChatSections
    <3> QED
      BY <3>3, <3>4 DEF Good
  <2> QED
    BY <2>4, <2>7, <2>8
<1> QED
  BY <1>1, <1>3, <1>4 DEF TypeOK

\* The types after a command that is one step.
LEMMA QuietTyped ==
    ASSUME TypeOK, state' \in States, gate' \in GateState, Quiet,
           UNCHANGED <<books, issued, files, stuck>>
    PROVE  TypeOK'
BY DEF TypeOK, books, Quiet, thread, main, files

\* A command of one step that calms.
LEMMA CheckedCommand ==
    ASSUME IInv, LockFree, Quiet, UNCHANGED <<books, issued, files, stuck>>, Calms
    PROVE  Good
<1>1. TypeOK
  BY DEF IInv
<1>2. TypeOK'
  BY <1>1, CalmTyped, QuietTyped
<1> QED
  BY <1>2, CalmCommand DEF Quiet, books

\* activate goes on with a fresh lease, or faults.
LEMMA ActivateGood ==
    ASSUME IInv, Activate
    PROVE  Good
<1>1. TypeOK /\ gate \in GateState /\ state \in States
  BY DEF IInv, TypeOK
<1>2. /\ LockFree /\ Quiet
      /\ UNCHANGED <<books, issued, files, stuck>>
  BY DEF Activate, Serves
<1>3. ASSUME NEW r \in Interlock, Leaves(r)
      PROVE  Good
  BY <1>1, <1>2, <1>3, InterlockChecks, CheckedCalms, CheckedCommand
<1>4. ASSUME NEW r \in RevokeThenFail, Leaves(r)
      PROVE  Good
  BY <1>1, <1>2, <1>4, RevokeThenFailChecks, CheckedCalms, CheckedCommand DEF Checked
<1>5. CASE state = "ARMED" /\ state' = "RUNNING" /\ UNCHANGED gate
  <2>1. TypeOK'
    BY <1>1, <1>2, <1>5, QuietTyped DEF States
  <2>2. section = "free" /\ section' = "free" /\ Up /\ Up' /\ state' \in States
    BY <1>2, <1>5 DEF LockFree, Up, Quiet, thread, main, States
  <2>3. PromiseStep
    BY <1>2, <1>5, <2>2, QuietStep DEF Serving, books, files
  <2>4. IInv'
    BY <1>2, <1>5, <2>1, <2>2, CommandKeeps
       DEF Backed, Placed, Quiet, books, CameraSections, ChatSections
  <2> QED
    BY <2>3, <2>4 DEF Good
<1> QED
  BY <1>3, <1>4, <1>5 DEF Activate

\* A step that keeps the capability as it is and the state where it is.
LEMMA KeptStep ==
    ASSUME IInv, Up, Kept(gate, gate'), section \notin ChatSections, section' \notin ChatSections,
           UNCHANGED <<state, wd, live, stuck, pause, emergency>>
    PROVE  PromiseStep
<1>1. state' \in States /\ Up'
  BY DEF IInv, TypeOK, Up
<1> QED
  BY <1>1, QuietStep DEF Kept

\* renew keeps the capability, or ends it.
LEMMA RenewGood ==
    ASSUME IInv, Renew
    PROVE  Good
<1>1. TypeOK /\ gate \in GateState /\ state \in States /\ issued \in Nat
  BY DEF IInv, TypeOK
<1>2. /\ LockFree /\ Quiet
      /\ UNCHANGED <<books, issued, files, stuck>>
  BY DEF Renew, Serves
<1>3. ASSUME NEW r \in Interlock, Leaves(r)
      PROVE  Good
  BY <1>1, <1>2, <1>3, InterlockChecks, CheckedCalms, CheckedCommand
<1>4. ASSUME NEW id \in KnownId, NEW r \in Renews(gate, id), gate' = r.gate, UNCHANGED state
      PROVE  Good
  <2>1. \/ Kept(gate, gate')
        \/ Ended(gate, gate')
    BY <1>1, <1>4, RenewsKeepsOrEnds DEF KnownId
  <2>2. CASE Ended(gate, gate')
    BY <1>2, <1>4, <2>2, CheckedCommand DEF Calms, Demoted
  <2>3. CASE Kept(gate, gate')
    <3>1. TypeOK'
      BY <1>1, <1>2, <1>4, <2>3, QuietTyped DEF Kept
    <3>2. section = "free" /\ section' = "free" /\ Up
      BY <1>2 DEF LockFree, Quiet, thread
    <3>3. PromiseStep
      BY <1>2, <1>4, <2>3, <3>2, KeptStep DEF ChatSections, Quiet, main, books, files
    <3>4. Backed'
      BY <1>4, <2>3, <3>2 DEF IInv, Backed, Kept
    <3>5. IInv'
      BY <1>2, <3>1, <3>2, <3>4, CommandKeeps
         DEF Placed, Quiet, books, CameraSections, ChatSections
    <3> QED
      BY <3>3, <3>5 DEF Good
  <2> QED
    BY <2>1, <2>2, <2>3
<1> QED
  BY <1>3, <1>4 DEF Renew

\* release-inputs releases under the capability, or ends it.
LEMMA ReleaseInputsGood ==
    ASSUME IInv, ReleaseInputs
    PROVE  Good
<1>1. TypeOK /\ gate \in GateState /\ state \in States /\ issued \in Nat
  BY DEF IInv, TypeOK
<1>2. /\ LockFree /\ Quiet
      /\ UNCHANGED <<books, issued, files, stuck>>
  BY DEF ReleaseInputs, Serves
<1>3. PICK id \in KnownId : \E r \in RunningLease(id) :
          IF r.out = "raised" THEN Leaves(r)
          ELSE /\ \E q \in Releases(gate, id, TRUE) : gate' = q.gate
               /\ UNCHANGED state
  BY DEF ReleaseInputs
<1>4. PICK r \in RunningLease(id) :
          IF r.out = "raised" THEN Leaves(r)
          ELSE /\ \E q \in Releases(gate, id, TRUE) : gate' = q.gate
               /\ UNCHANGED state
  BY <1>3
<1>5. CASE r.out = "raised"
  BY <1>1, <1>2, <1>4, <1>5, RunningLeaseChecks, CheckedCalms, CheckedCommand
<1>6. CASE r.out # "raised"
  <2>1. state = "RUNNING" /\ gate.lease # NoLease
    BY <1>1, <1>6, RunningLeaseChecks
  <2>2. PICK q \in Releases(gate, id, TRUE) : gate' = q.gate
    BY <1>4, <1>6
  <2>3. \/ /\ gate' \in GateState /\ gate'.lease = gate.lease /\ gate'.held = {}
        \/ Ended(gate, gate')
    <3>1. id \in Nat
      BY <1>1 DEF KnownId
    <3>2. \/ /\ q.gate \in GateState /\ q.gate.lease = gate.lease /\ q.gate.held = {}
          \/ Ended(gate, q.gate)
      BY <1>1, <3>1, ReleasesKeepsOrEnds
    <3> QED
      BY <2>2, <3>2
  <2>4. UNCHANGED state
    BY <1>4, <1>6
  <2>5. CASE Ended(gate, gate')
    BY <1>2, <2>4, <2>5, CheckedCommand DEF Calms, Demoted
  <2>6. CASE gate' \in GateState /\ gate'.lease = gate.lease /\ gate'.held = {}
    <3>1. TypeOK'
      BY <1>1, <1>2, <2>4, <2>6, QuietTyped
    <3>2. section = "free" /\ section' = "free" /\ Up
      BY <1>2 DEF LockFree, Quiet, thread
    <3>3. PromiseStep
      BY <1>2, <2>1, <2>4, <2>6, <3>2, UseStep DEF Serving, Quiet, main, books, files, Up
    <3>4. IInv'
      BY <1>2, <2>1, <2>4, <3>1, <3>2, CommandKeeps
         DEF Backed, Placed, Quiet, books, CameraSections, ChatSections
    <3> QED
      BY <3>3, <3>4 DEF Good
  <2> QED
    BY <2>3, <2>5, <2>6
<1> QED
  BY <1>5, <1>6

\* disarm revokes.
LEMMA DisarmCommandGood ==
    ASSUME IInv, DisarmCommand
    PROVE  Good
<1>1. TypeOK /\ gate \in GateState /\ state \in States
  BY DEF IInv, TypeOK
<1>2. /\ LockFree /\ Quiet /\ UNCHANGED <<books, issued, files, stuck>>
  BY DEF DisarmCommand, Serves
<1>3. Calms
  BY <1>1, DisarmWithdraws DEF DisarmCommand, Disarm, Leaves, Withdrawn, Calms
<1> QED
  BY <1>2, <1>3, CheckedCommand

\* fault revokes.
LEMMA FaultCommandGood ==
    ASSUME IInv, FaultCommand
    PROVE  Good
<1>1. TypeOK /\ gate \in GateState /\ state \in States
  BY DEF IInv, TypeOK
<1>2. /\ LockFree /\ Quiet /\ UNCHANGED <<books, issued, files, stuck>>
  BY DEF FaultCommand, Serves
<1>3. Calms
  BY <1>1, FailWithdraws DEF FaultCommand, Fail, Leaves, Withdrawn, Untouched, Calms, core
<1> QED
  BY <1>2, <1>3, CheckedCommand

(***************************************************************************)
(* attach: the new backend holds what the display was left with, which     *)
(* nobody but a dead generation can have pressed.                          *)
(***************************************************************************)
LEMMA AttachGood ==
    ASSUME IInv, Attach
    PROVE  Good
<1>1. TypeOK /\ gate \in GateState /\ stuck \in SUBSET Tokens
  BY DEF IInv, TypeOK
<1>2. /\ LockFree /\ Quiet /\ state = "SAFE_IDLE"
      /\ UNCHANGED <<state, faultCode, stopSet, issued, files>>
  BY DEF Attach, Serves
<1>3. /\ section = "free" /\ section' = "free" /\ Up /\ Up'
      /\ gate.lease = NoLease
      /\ state' \in States
  BY <1>2 DEF IInv, Backed, LockFree, Up, Quiet, thread, main, CameraSections, States
<1>4. PICK r \in Revokes(gate), released \in BOOLEAN, sameTarget \in {FALSE, live} :
          IF r.out = "raised" \/ ~released
          THEN /\ gate' = r.gate
               /\ UNCHANGED <<live, origin, stuck>>
          ELSE /\ gate' = [NewGate EXCEPT !.held = stuck, !.unconfirmed = stuck # {}]
               /\ live' = TRUE
               /\ stuck' = {}
               /\ origin' = (origin /\ sameTarget)
  BY DEF Attach
<1>5. /\ Ended(gate, r.gate)
      /\ r.out \in {"ok", "raised"}
      /\ r.out = "ok" => r.gate.held = {} /\ ~r.gate.unconfirmed
  BY <1>1, RevokesEnds
<1>6. CASE r.out = "raised" \/ ~released
  <2>1. gate' = r.gate /\ UNCHANGED <<live, origin, stuck>>
    BY <1>4, <1>6
  <2>2. Calms
    BY <1>2, <1>5, <2>1 DEF Calms, Demoted
  <2> QED
    BY <1>2, <2>1, <2>2, CheckedCommand DEF books
<1>7. CASE ~(r.out = "raised" \/ ~released)
  <2>1. /\ gate' = [NewGate EXCEPT !.held = stuck, !.unconfirmed = stuck # {}]
        /\ live' = TRUE
        /\ stuck' = {}
        /\ origin' = (origin /\ sameTarget)
    BY <1>4, <1>7
  <2>2. /\ gate' \in GateState /\ gate'.lease = NoLease
        /\ gate'.held = stuck /\ gate'.unconfirmed = (stuck # {})
    <3>1. NewGate \in GateState
      BY DEF NewGate, GateState, NoLease
    <3>2. (stuck # {}) \in BOOLEAN
      OBVIOUS
    <3>3. NewGate.lease = NoLease
      BY DEF NewGate
    <3> QED
      BY <1>1, <2>1, <3>1, <3>2, <3>3 DEF GateState
  <2>3. TypeOK'
    BY <1>1, <1>2, <1>3, <2>1, <2>2 DEF TypeOK, Quiet, thread, main, files
  <2>4. IInv'
    BY <1>1, <1>2, <1>3, <2>1, <2>2, <2>3
       DEF IInv, Backed, Placed, Adopted, AtRest, Deciding, Quiet, main, Up,
           CameraSections, ChatSections
  <2>5. PromiseStep
    <3>1. Phase' = Phase
      BY <1>1, <1>2, <1>3, PhaseOfState, PhaseOfNextState DEF TypeOK
    <3>2. Authority = FALSE /\ Authority' = FALSE /\ Permitted' = Permitted
      BY <1>2, <1>3, <2>2 DEF Authority, Permitted, files, ChatSections
    <3>3. CASE ~live
      <4>1. Physical' = Physical /\ Confirmed' = Confirmed
        BY <2>1, <2>2, <3>3 DEF Physical, Confirmed
      <4> QED
        BY <3>1, <3>2, <4>1 DEF PromiseStep, Promise!vars, Authority, Confirmed
    <3>4. CASE live
      <4>1. stuck = {}
        BY <3>4 DEF IInv, Adopted
      <4>2. Physical' = {} /\ Confirmed' = TRUE
        BY <2>1, <2>2, <4>1 DEF Physical, Confirmed
      <4>3. Phase # "off"
        BY <1>1, <1>3, PhaseOfState DEF TypeOK
      <4>4. Promise!Revoke
        BY <3>1, <3>2, <4>2, <4>3
           DEF Promise!Revoke, Promise!Released, Authority, Confirmed
      <4> QED
        BY <4>4 DEF PromiseStep, Promise!Next
    <3> QED
      BY <1>1, <3>3, <3>4 DEF TypeOK
  <2> QED
    BY <2>4, <2>5 DEF Good
<1> QED
  BY <1>6, <1>7

-----------------------------------------------------------------------------
(***************************************************************************)
(* The commands that stay inside _lock for several steps.                  *)
(***************************************************************************)

\* A calming step of the holder of _lock, which lets go of it.
LEMMA LeaveCalmly ==
    ASSUME IInv, Up, section # "main", section' = "free",
           Demoted(state, state'), Ended(gate, gate'),
           UNCHANGED <<live, stuck, main, files>>,
           TypeOK'
    PROVE  Good
<1>1. Calms /\ Up' /\ gate'.lease = NoLease
  BY DEF Calms, Ended, Up, main
<1>2. UNCHANGED <<main, live, stuck>> /\ UNCHANGED <<live, stuck, pause, emergency>>
  BY DEF files
<1>3. IInv'
  BY <1>1, <1>2, CalmKeeps
<1>4. PromiseStep
  BY <1>1, <1>2, CalmStep DEF ChatSections
<1> QED
  BY <1>3, <1>4 DEF Good

\* The types after a step inside _lock that issues no lease.
LEMMA InsideTyped ==
    ASSUME TypeOK, state' \in States, gate' \in GateState, section' \in Sections,
           client' \in 0 .. MaxLeases, saved' \subseteq Tokens,
           origin' \in BOOLEAN, faultCode' \in BOOLEAN,
           UNCHANGED <<live, stopSet, issued, others>>
    PROVE  TypeOK'
BY DEF TypeOK, others, main, files

\* NoLease is a lease id nobody was given.
LEMMA NoLeaseTyped == NoLease \in 0 .. MaxLeases
BY SupervisorAssumption DEF NoLease

\* A step of the holder of _lock, after which a thread is still inside it.
LEMMA StayInside ==
    ASSUME IInv, Up, section # "main", section' \in CameraSections \cup ChatSections,
           section' \in ChatSections => state = "RUNNING",
           section' \in CameraSections => state = "SAFE_IDLE",
           section' = "cal-publish" => gate'.lease = NoLease,
           live, UNCHANGED <<state, main, live, stuck>>,
           TypeOK'
    PROVE  IInv'
<1>1. section' # "main" /\ section' # "motor"
  BY DEF CameraSections, ChatSections
<1>2. Backed' /\ Placed'
  BY <1>1 DEF Backed, Placed, CameraSections, ChatSections
<1> QED
  BY <1>1, <1>2, CommandKeeps

\* The holder of _lock fails in the middle of an action and lets go.
LEMMA LeaveStruck ==
    ASSUME IInv, Up, section \notin ChatSections \cup {"main"}, section' = "free",
           Demoted(state, state'), Struck(gate, gate', InterlockRead),
           UNCHANGED <<live, stuck, main, files>>,
           TypeOK'
    PROVE  Good
<1>1. Up' /\ gate'.lease = NoLease
  BY DEF Up, main, Struck, Ended
<1>2. UNCHANGED <<main, live, stuck>> /\ UNCHANGED <<live, stuck, pause, emergency>>
  BY DEF files
<1>3. IInv'
  <2>1. Backed' /\ Placed'
    BY <1>1 DEF Backed, Placed, CameraSections, ChatSections
  <2> QED
    BY <1>2, <2>1, CommandKeeps
<1>4. PromiseStep
  BY <1>1, <1>2, StrikeStep DEF ChatSections
<1> QED
  BY <1>3, <1>4 DEF Good

\* motor-action enters _lock with a lease over a RUNNING supervisor.
LEMMA MotorCheckGood ==
    ASSUME IInv, MotorCheck
    PROVE  Good
<1>1. TypeOK /\ gate \in GateState /\ state \in States
  BY DEF IInv, TypeOK
<1>2. LockFree /\ UNCHANGED <<books, issued, saved, others>>
  BY DEF MotorCheck, Serves
<1>3. PICK id \in KnownId : \E r \in RunningLease(id) :
          /\ Leaves(r)
          /\ IF r.out = "ok" THEN section' = "motor" /\ client' = id
                             ELSE UNCHANGED <<section, client>>
  BY DEF MotorCheck
<1>4. PICK r \in RunningLease(id) :
          /\ Leaves(r)
          /\ IF r.out = "ok" THEN section' = "motor" /\ client' = id
                             ELSE UNCHANGED <<section, client>>
  BY <1>3
<1>5. CASE r.out # "ok"
  <2>1. Calms
    BY <1>1, <1>4, RunningLeaseChecks, CheckedCalms
  <2>2. Quiet
    BY <1>2, <1>4, <1>5 DEF Quiet, thread, others, main
  <2> QED
    BY <1>2, <2>1, <2>2, CheckedCommand DEF others
<1>6. CASE r.out = "ok"
  <2>1. UNCHANGED core /\ state = "RUNNING"
    BY <1>1, <1>4, <1>6, RunningLeaseChecks DEF Untouched, Leaves, core
  <2>2. section = "free" /\ section' = "motor" /\ client' = id /\ Up /\ Up'
    BY <1>2, <1>4, <1>6 DEF LockFree, Up, others, main
  <2>3. client' \in 0 .. MaxLeases
    BY <1>1, <2>2, SupervisorAssumption DEF TypeOK, KnownId
  <2>4. TypeOK'
    BY <1>1, <1>2, <2>1, <2>2, <2>3 DEF TypeOK, core, books, others, main, files, Sections
  <2>5. IInv'
    BY <1>2, <2>1, <2>2, <2>4, CommandKeeps
       DEF IInv, Backed, Placed, core, books, others, CameraSections, ChatSections
  <2>6. PromiseStep
    BY <1>1, <1>2, <2>1, <2>2, CalmStep DEF Calms, ChatSections, books, others, files
  <2> QED
    BY <2>5, <2>6 DEF Good
<1> QED
  BY <1>5, <1>6

\* A malformed action fails the supervisor.
LEMMA MotorMalformedGood ==
    ASSUME IInv, MotorMalformed
    PROVE  Good
<1>1. /\ TypeOK /\ gate \in GateState /\ state \in States /\ saved \subseteq Tokens
      /\ origin \in BOOLEAN /\ faultCode \in BOOLEAN
  BY DEF IInv, TypeOK
<1>2. /\ section = "motor" /\ Up /\ section' = "free" /\ client' = NoLease
      /\ UNCHANGED <<books, issued, saved, others>>
      /\ state = "RUNNING"
  BY DEF MotorMalformed, IInv, Placed
<1>3. PICK r \in FailFrom(state, gate) : Leaves(r)
  BY DEF MotorMalformed, Fail
<1>4. Demoted(state, state') /\ Ended(gate, gate')
  BY <1>1, <1>2, <1>3, FailWithdraws DEF Leaves, Withdrawn
<1>5. state' \in States /\ gate' \in GateState
  BY <1>1, <1>4, CalmTyped DEF Calms
<1>6. TypeOK'
  BY <1>1, <1>2, <1>5, InsideTyped, NoLeaseTyped DEF Sections, books
<1> QED
  BY <1>2, <1>4, <1>6, LeaveCalmly DEF books, others

\* An action is a use of the capability, or ends it.
LEMMA MotorApplyGood ==
    ASSUME IInv, MotorApply
    PROVE  Good
<1>1. /\ TypeOK /\ gate \in GateState /\ state \in States /\ saved \subseteq Tokens
      /\ origin \in BOOLEAN /\ faultCode \in BOOLEAN /\ client \in Nat
  BY DEF IInv, TypeOK
<1>2. /\ section = "motor" /\ Up /\ section' = "free" /\ client' = NoLease
      /\ UNCHANGED <<live, origin, stopSet, issued, saved, others>>
      /\ state = "RUNNING"
  BY DEF MotorApply, IInv, Placed
<1>3. PICK a \in Actions : \E r \in Applies(gate, client, a, TRUE, InterlockRead) :
          IF r.out = "route"
          THEN /\ \E q \in FailFrom(state, r.gate) : Leaves(q)
               /\ faultCode' = TRUE
          ELSE gate' = r.gate /\ UNCHANGED <<state, faultCode>>
  BY DEF MotorApply
<1>4. PICK r \in Applies(gate, client, a, TRUE, InterlockRead) :
          IF r.out = "route"
          THEN /\ \E q \in FailFrom(state, r.gate) : Leaves(q)
               /\ faultCode' = TRUE
          ELSE gate' = r.gate /\ UNCHANGED <<state, faultCode>>
  BY <1>3
<1>5. /\ a.seq \in Int /\ a.down \in SUBSET Tokens /\ a.up \in SUBSET Tokens
      /\ InterlockRead \in BOOLEAN
  BY SupervisorAssumption, MotorGateAssumption DEF MotorAction, InterlockRead
<1>6. \/ r.out = "ok" /\ Used(gate, r.gate, InterlockRead)
      \/ r.out \in {"raised", "route"} /\ Struck(gate, r.gate, InterlockRead)
  BY <1>1, <1>5, AppliesUsesOrStrikes
<1>7. UNCHANGED <<main, live, stuck>> /\ UNCHANGED <<live, stuck, pause, emergency, wd>>
      /\ UNCHANGED files /\ Up'
  BY <1>2 DEF others, files, main, Up
<1>8. section \notin ChatSections \cup {"main"} /\ section # "main" /\ section' # "main"
  BY <1>2 DEF ChatSections
<1>9. CASE r.out = "ok"
  <2>1. /\ Used(gate, gate', InterlockRead)
        /\ UNCHANGED <<state, faultCode>>
    BY <1>4, <1>6, <1>9
  <2>2. TypeOK'
    BY <1>1, <1>2, <2>1, InsideTyped, NoLeaseTyped DEF Sections, Used
  <2>3. Backed' /\ Placed'
    BY <1>2, <2>1 DEF Backed, Placed, CameraSections, ChatSections
  <2>4. IInv'
    BY <1>2, <1>7, <1>8, <2>2, <2>3, CommandKeeps
  <2>5. PromiseStep
    BY <1>2, <1>7, <2>1, UseStep DEF Serving, Used
  <2> QED
    BY <2>4, <2>5 DEF Good
<1>10. CASE r.out = "raised"
  <2>1. /\ Struck(gate, gate', InterlockRead)
        /\ UNCHANGED <<state, faultCode>>
    BY <1>4, <1>6, <1>10
  <2>2. gate' \in GateState
    BY <2>1 DEF Struck, Ended
  <2>3. TypeOK'
    BY <1>1, <1>2, <2>1, <2>2, InsideTyped, NoLeaseTyped DEF Sections
  <2> QED
    BY <1>2, <1>7, <1>8, <2>1, <2>3, LeaveStruck DEF Demoted
<1>11. CASE r.out = "route"
  <2>1. PICK q \in FailFrom(state, r.gate) : Leaves(q)
    BY <1>4, <1>11
  <2>2. Struck(gate, r.gate, InterlockRead) /\ r.gate \in GateState
    BY <1>6, <1>11 DEF Struck, Ended
  <2>3. Withdrawn(state, r.gate, q)
    BY <1>1, <1>2, <2>2, FailWithdraws
  <2>4. Demoted(state, state') /\ Struck(gate, gate', InterlockRead)
    BY <2>1, <2>2, <2>3, StruckAgain DEF Withdrawn, Leaves
  <2>5. state' \in States /\ gate' \in GateState /\ faultCode' \in BOOLEAN
    BY <1>1, <1>4, <1>11, <2>4 DEF Struck, Ended, Demoted, States
  <2>6. TypeOK'
    BY <1>1, <1>2, <2>5, InsideTyped, NoLeaseTyped DEF Sections
  <2> QED
    BY <1>2, <1>7, <1>8, <2>4, <2>6, LeaveStruck
<1> QED
  BY <1>6, <1>9, <1>10, <1>11

-----------------------------------------------------------------------------
(***************************************************************************)
(* The chat.  It has authority from its start to its end, whatever becomes *)
(* of the lease, so each of its steps but the last is a use.               *)
(***************************************************************************)
LEMMA ChatUse ==
    ASSUME IInv, Up, live, state = "RUNNING", section # "main",
           gate.lease # NoLease \/ section \in ChatSections,
           section' \in ChatSections, gate' \in GateState,
           Permitted \/ gate'.held \subseteq gate.held,
           client' \in 0 .. MaxLeases, saved' \subseteq Tokens,
           UNCHANGED <<state, books, issued, others>>
    PROVE  Good
<1>1. TypeOK'
  <2>1. /\ TypeOK /\ state' \in States /\ section' \in Sections
        /\ origin' \in BOOLEAN /\ faultCode' \in BOOLEAN
    BY DEF IInv, TypeOK, Sections, books, States
  <2> QED
    BY <2>1, InsideTyped DEF books
<1>2. section' \notin CameraSections /\ section' # "cal-publish"
  BY DEF ChatSections, CameraSections
<1>3. UNCHANGED <<state, main, live, stuck>> /\ UNCHANGED <<state, live, stuck, pause, emergency>>
      /\ Up'
  BY DEF books, others, files, main, Up
<1>4. IInv'
  BY <1>1, <1>2, <1>3, StayInside
<1>5. PromiseStep
  BY <1>3, UseStep DEF Serving, InterlockRead
<1> QED
  BY <1>4, <1>5 DEF Good

\* A chat starts under a lease that is then renewed, or lost.
LEMMA ChatStartGood ==
    ASSUME IInv, ChatStart
    PROVE  Good
<1>1. TypeOK /\ gate \in GateState /\ state \in States /\ issued \in 0 .. MaxLeases
  BY DEF IInv, TypeOK
<1>2. LockFree /\ live /\ UNCHANGED <<books, issued, others>>
  BY DEF ChatStart, Serves
<1>3. PICK id \in KnownId : \E r \in RunningLease(id) :
          IF r.out = "raised"
          THEN Leaves(r) /\ UNCHANGED thread
          ELSE /\ \E q \in Renews(gate, id) :
                     /\ gate' = q.gate
                     /\ section' = IF q.out = "ok" THEN "chat-sweep" ELSE "chat-fault"
               /\ client' = id
               /\ saved' = gate.held
               /\ UNCHANGED state
  BY DEF ChatStart
<1>4. PICK r \in RunningLease(id) :
          IF r.out = "raised"
          THEN Leaves(r) /\ UNCHANGED thread
          ELSE /\ \E q \in Renews(gate, id) :
                     /\ gate' = q.gate
                     /\ section' = IF q.out = "ok" THEN "chat-sweep" ELSE "chat-fault"
               /\ client' = id
               /\ saved' = gate.held
               /\ UNCHANGED state
  BY <1>3
<1>5. CASE r.out = "raised"
  <2>1. Calms
    BY <1>1, <1>4, <1>5, RunningLeaseChecks, CheckedCalms
  <2>2. Quiet
    BY <1>2, <1>4, <1>5 DEF Quiet, others
  <2> QED
    BY <1>2, <2>1, <2>2, CheckedCommand DEF others
<1>6. CASE r.out # "raised"
  <2>1. state = "RUNNING" /\ gate.lease # NoLease
    BY <1>1, <1>6, RunningLeaseChecks
  <2>2. PICK q \in Renews(gate, id) :
           /\ gate' = q.gate
           /\ section' = IF q.out = "ok" THEN "chat-sweep" ELSE "chat-fault"
    BY <1>4, <1>6
  <2>3. id \in 0 .. MaxLeases /\ id \in Nat
    BY <1>1, SupervisorAssumption DEF KnownId
  <2>4. gate' \in GateState /\ gate'.held \subseteq gate.held
    BY <1>1, <2>2, <2>3, RenewsKeepsOrEnds DEF Kept, Ended, Swept
  <2>5. section = "free" /\ Up /\ section' \in ChatSections
    BY <1>2, <2>2 DEF LockFree, ChatSections
  <2>6. client' \in 0 .. MaxLeases /\ saved' \subseteq Tokens /\ UNCHANGED state
    BY <1>1, <1>4, <1>6, <2>3 DEF GateState
  <2> QED
    BY <1>2, <2>1, <2>4, <2>5, <2>6, ChatUse
<1> QED
  BY <1>5, <1>6

\* What a thread of the chat finds when it goes on.
LEMMA InChat ==
    ASSUME IInv, section \in ChatSections
    PROVE  /\ live /\ state = "RUNNING" /\ section # "main"
           /\ gate \in GateState /\ client \in 0 .. MaxLeases /\ saved \subseteq Tokens
BY DEF IInv, TypeOK, Placed, ChatSections

\* Before it types the chat releases.
LEMMA ChatSweepGood ==
    ASSUME IInv, ChatSweep
    PROVE  Good
<1>1. section \in ChatSections /\ Up /\ UNCHANGED <<state, books, issued, client, saved, others>>
  BY DEF ChatSweep, ChatSections
<1>2. /\ live /\ state = "RUNNING" /\ section # "main"
      /\ gate \in GateState /\ client \in 0 .. MaxLeases /\ saved \subseteq Tokens
  BY <1>1, InChat
<1>3. section' \in ChatSections
  BY DEF ChatSweep, ChatSections
<1>4. gate' \in GateState /\ gate'.held \subseteq gate.held
  <2>1. CASE gate' = [gate EXCEPT !.held = {}, !.unconfirmed = FALSE]
    BY <1>2, <2>1 DEF GateState
  <2>2. ASSUME NEW left \in SUBSET gate.held,
               gate' = [gate EXCEPT !.held = left, !.unconfirmed = TRUE]
        PROVE  gate' \in GateState /\ gate'.held \subseteq gate.held
    BY <1>2, <2>2 DEF GateState
  <2> QED
    BY <2>1, <2>2 DEF ChatSweep
<1> QED
  BY <1>1, <1>2, <1>3, <1>4, ChatUse

\* Presses again only under permission.
LEMMA ChatRestoreGood ==
    ASSUME IInv, ChatRestore
    PROVE  Good
<1>1. /\ section \in ChatSections /\ Up /\ saved' = {}
      /\ UNCHANGED <<state, books, issued, client, others>>
  BY DEF ChatRestore, ChatSections
<1>2. /\ live /\ state = "RUNNING" /\ section # "main"
      /\ gate \in GateState /\ client \in 0 .. MaxLeases /\ saved \subseteq Tokens
  BY <1>1, InChat
<1>3. section' \in ChatSections
  BY DEF ChatRestore, ChatSections
<1>4. gate' \in GateState /\ (Permitted \/ gate'.held \subseteq gate.held)
  <2>1. CASE UNCHANGED gate
    BY <1>2, <2>1
  <2>2. CASE Permitted /\ gate' = [gate EXCEPT !.held = @ \cup saved]
    BY <1>2, <2>2 DEF GateState
  <2>3. CASE Permitted /\ gate' = [gate EXCEPT !.held = {}, !.unconfirmed = FALSE]
    BY <1>2, <2>3 DEF GateState
  <2>4. ASSUME Permitted, NEW left \in SUBSET saved,
               gate' = [gate EXCEPT !.held = @ \cup left, !.unconfirmed = TRUE]
        PROVE  gate' \in GateState
    BY <1>2, <2>4 DEF GateState
  <2> QED
    BY <2>1, <2>2, <2>3, <2>4 DEF ChatRestore
<1> QED
  BY <1>1, <1>2, <1>3, <1>4, ChatUse

\* The end of a chat that worked renews the lease.
LEMMA ChatRenewGood ==
    ASSUME IInv, ChatRenew
    PROVE  Good
<1>1. /\ section \in ChatSections /\ Up
      /\ client' = IF section' = "free" THEN NoLease ELSE client
      /\ UNCHANGED <<state, books, issued, saved, others>>
  BY DEF ChatRenew, ChatSections
<1>2. /\ live /\ state = "RUNNING" /\ section # "main"
      /\ gate \in GateState /\ client \in 0 .. MaxLeases /\ saved \subseteq Tokens
  BY <1>1, InChat
<1>3. client' \in 0 .. MaxLeases
  BY <1>1, <1>2, NoLeaseTyped
<1>4. CASE ~Permitted
  <2>1. section' \in ChatSections /\ UNCHANGED gate
    BY <1>4 DEF ChatRenew, ChatSections
  <2> QED
    BY <1>1, <1>2, <1>3, <2>1, ChatUse
<1>5. CASE Permitted
  <2>1. PICK r \in Renews(gate, client) :
           /\ gate' = r.gate
           /\ section' = IF r.out = "ok" THEN "free" ELSE "chat-fault"
    BY <1>5 DEF ChatRenew
  <2>2. \/ r.out = "ok" /\ Kept(gate, gate') /\ gate.lease # NoLease
        \/ r.out = "raised" /\ Ended(gate, gate')
    BY <1>2, <2>1, RenewsKeepsOrEnds
  <2>3. CASE r.out = "raised"
    <3>1. /\ section' \in ChatSections /\ gate' \in GateState
          /\ gate'.held \subseteq gate.held
      BY <2>1, <2>2, <2>3 DEF ChatSections, Ended, Swept
    <3> QED
      BY <1>1, <1>2, <1>3, <3>1, ChatUse
  <2>4. CASE r.out = "ok"
    <3>1. section' = "free" /\ Kept(gate, gate') /\ gate.lease # NoLease
      BY <2>1, <2>2, <2>4
    <3>2. TypeOK /\ origin \in BOOLEAN /\ faultCode \in BOOLEAN /\ state \in States
      BY DEF IInv, TypeOK
    <3>3. TypeOK'
      BY <1>1, <1>2, <1>3, <3>1, <3>2, InsideTyped DEF Sections, books, Kept
    <3>4. UNCHANGED <<main, live, stuck>> /\ UNCHANGED <<state, live, stuck, pause, emergency>>
          /\ Up'
      BY <1>1 DEF books, others, files, main, Up
    <3>5. Backed' /\ Placed'
      BY <1>2, <3>1, <3>4 DEF Backed, Placed, CameraSections, ChatSections
    <3>6. IInv'
      BY <1>1, <1>2, <3>1, <3>3, <3>4, <3>5, CommandKeeps
    <3>7. PromiseStep
      BY <1>1, <1>2, <3>1, <3>4, UseStep DEF Serving, Kept
    <3> QED
      BY <3>6, <3>7 DEF Good
  <2> QED
    BY <2>2, <2>3, <2>4
<1> QED
  BY <1>4, <1>5

\* The end of a chat that failed disarms or faults.
LEMMA ChatFaultGood ==
    ASSUME IInv, ChatFault
    PROVE  Good
<1>1. /\ section \in ChatSections /\ Up /\ section' = "free"
      /\ client' = NoLease /\ saved' = {}
      /\ UNCHANGED <<books, issued, others>>
  BY DEF ChatFault, ChatSections
<1>2. /\ state = "RUNNING" /\ section # "main" /\ gate \in GateState
      /\ TypeOK /\ state \in States /\ origin \in BOOLEAN /\ faultCode \in BOOLEAN
  BY <1>1, InChat DEF IInv, TypeOK
<1>3. PICK r \in (IF pause /\ ~emergency THEN Disarm ELSE Fail) : Leaves(r)
  BY DEF ChatFault
<1>4. Withdrawn(state, gate, r)
  BY <1>2, <1>3, DisarmWithdraws, FailWithdraws DEF Disarm, Fail
<1>5. Demoted(state, state') /\ Ended(gate, gate')
  BY <1>3, <1>4 DEF Withdrawn, Leaves
<1>6. state' \in States /\ gate' \in GateState
  BY <1>2, <1>5, CalmTyped DEF Calms
<1>7. TypeOK'
  BY <1>1, <1>2, <1>6, InsideTyped, NoLeaseTyped DEF Sections, books
<1> QED
  BY <1>1, <1>2, <1>5, <1>7, LeaveCalmly DEF books, others

-----------------------------------------------------------------------------
(***************************************************************************)
(* The camera.  Its one-use lease is the only one of a SAFE_IDLE           *)
(* supervisor, and it is gone before the origin is published.              *)
(***************************************************************************)

\* A step of a camera command that stays inside _lock in a state SAFE_IDLE.
LEMMA CameraStays ==
    ASSUME IInv, Up, live, state = "SAFE_IDLE", section # "main",
           section' \in CameraSections,
           section' = "cal-publish" => gate'.lease = NoLease,
           UNCHANGED <<state, main, live, stuck>>,
           TypeOK'
    PROVE  IInv'
<1>1. section' \notin ChatSections
  BY DEF CameraSections, ChatSections
<1> QED
  BY <1>1, StayInside

\* The same for a step that ends the capability, or finds none and leaves it.
LEMMA CameraCalms ==
    ASSUME IInv, Up, live, state = "SAFE_IDLE", section \notin ChatSections \cup {"main"},
           section' \in CameraSections, Ended(gate, gate'),
           UNCHANGED <<state, live, others>>,
           TypeOK'
    PROVE  Good
<1>1. Up' /\ gate'.lease = NoLease /\ UNCHANGED <<state, main, live, stuck>>
      /\ UNCHANGED <<live, stuck, pause, emergency>>
  BY DEF others, main, files, Up, Ended
<1>2. Calms /\ section' \notin ChatSections
  BY <1>1 DEF Calms, Demoted, CameraSections, ChatSections
<1>3. IInv'
  BY <1>1, CameraStays
<1>4. PromiseStep
  BY <1>1, <1>2, CalmStep
<1> QED
  BY <1>3, <1>4 DEF Good

\* And for a step that keeps it.
LEMMA CameraKeeps ==
    ASSUME IInv, Up, live, state = "SAFE_IDLE", section \notin ChatSections \cup {"main"},
           section' \in CameraSections \ {"cal-publish"}, Kept(gate, gate'),
           UNCHANGED <<state, live, others>>,
           TypeOK'
    PROVE  Good
<1>1. UNCHANGED <<state, main, live, stuck>> /\ UNCHANGED <<state, wd, live, stuck, pause, emergency>>
  BY DEF others, main, files
<1>2. section' \notin ChatSections
  BY DEF CameraSections, ChatSections
<1>3. IInv'
  BY <1>1, CameraStays
<1>4. PromiseStep
  BY <1>1, <1>2, KeptStep
<1> QED
  BY <1>3, <1>4 DEF Good

\* Calibration and probe start under a one-use lease for the mouse.
LEMMA CameraStartGood ==
    ASSUME IInv, NEW command, NEW first \in {"cal-home", "probe"}, CameraStart(command, first)
    PROVE  Good
<1>1. /\ TypeOK /\ gate \in GateState /\ state \in States /\ saved \subseteq Tokens
      /\ faultCode \in BOOLEAN /\ issued \in 0 .. MaxLeases /\ client \in 0 .. MaxLeases
  BY DEF IInv, TypeOK
<1>2. /\ LockFree /\ state = "SAFE_IDLE" /\ live /\ Permitted
      /\ issued < MaxLeases /\ origin' = FALSE
      /\ UNCHANGED <<state, live, faultCode, stopSet, saved, others>>
  BY DEF CameraStart, Serves
<1>3. section = "free" /\ Up /\ gate.lease = NoLease /\ Up'
  BY <1>2 DEF LockFree, IInv, Backed, CameraSections, others, main, Up
<1>4. UNCHANGED <<state, main, live, stuck>> /\ UNCHANGED <<wd, live, stuck, pause, emergency>>
      /\ UNCHANGED files
  BY <1>2 DEF others, main, files
<1>5. section \notin ChatSections \cup {"main"}
  BY <1>3 DEF ChatSections
<1>6. CASE UNCHANGED <<gate, issued, section, client>>
  <2>1. TypeOK'
    BY <1>1, <1>2, <1>6 DEF TypeOK, others, main, files
  <2>2. Calms
    BY <1>2, <1>6 DEF Calms, core
  <2>3. UNCHANGED <<thread, main, live, stuck, files>>
    BY <1>2, <1>4, <1>6 DEF thread
  <2> QED
    BY <1>2, <2>1, <2>2, <2>3, CalmCommand
<1>7. ASSUME issued' = issued + 1, NEW r \in Issues(gate, issued + 1, {"mouse"}, 0),
             gate' = r.gate,
             IF r.out = "ok" THEN section' = first /\ client' = issued + 1
             ELSE /\ section' = IF command = "calibrate" THEN "cal-fault" ELSE "free"
                  /\ client' = NoLease
      PROVE  Good
  <2>1. /\ issued + 1 \in Nat /\ issued + 1 # NoLease
        /\ issued' \in 0 .. MaxLeases /\ client' \in 0 .. MaxLeases
    BY <1>1, <1>2, <1>7, SupervisorAssumption, NoLeaseTyped DEF NoLease
  <2>2. \/ /\ r.out = "ok" /\ r.gate \in GateState /\ r.gate.lease = issued + 1
           /\ r.gate.held = {} /\ ~r.gate.unconfirmed
        \/ r.out = "raised" /\ Ended(gate, r.gate)
    BY <1>1, <2>1, IssuesGrantsOrEnds DEF Kinds
  <2>3. gate' \in GateState
    BY <1>7, <2>2 DEF Ended
  <2>4. section' \in {"cal-home", "probe", "cal-fault", "free"}
    BY <1>7
  <2>5. TypeOK'
    BY <1>1, <1>2, <2>1, <2>3, <2>4
       DEF TypeOK, Sections, CameraSections, others, main, files
  <2>6. CASE r.out = "ok"
    <3>1. /\ section' \in {"cal-home", "probe"} /\ gate'.lease # NoLease
          /\ gate'.held = {} /\ ~gate'.unconfirmed
      BY <1>7, <2>1, <2>2, <2>6
    <3>2. section' \in CameraSections /\ section' # "cal-publish"
      BY <3>1 DEF CameraSections
    <3>3. IInv'
      BY <1>2, <1>3, <1>4, <1>5, <2>5, <3>2, CameraStays
    <3>4. PromiseStep
      BY <1>2, <1>3, <1>4, <1>5, <3>1, GrantStep DEF Serving
    <3> QED
      BY <3>3, <3>4 DEF Good
  <2>7. CASE r.out = "raised" /\ section' = "cal-fault"
    <3>1. Ended(gate, gate') /\ section' \in CameraSections
      BY <1>7, <2>2, <2>7 DEF CameraSections
    <3> QED
      BY <1>2, <1>3, <1>5, <2>5, <3>1, CameraCalms
  <2>8. CASE r.out = "raised" /\ section' = "free"
    <3>1. Ended(gate, gate') /\ Demoted(state, state')
      BY <1>2, <1>7, <2>2, <2>8 DEF Demoted
    <3> QED
      BY <1>3, <1>4, <1>5, <2>5, <2>8, <3>1, LeaveCalmly
  <2> QED
    BY <1>7, <2>2, <2>6, <2>7, <2>8
<1> QED
  BY <1>6, <1>7 DEF CameraStart

\* What a thread of a camera command finds when it goes on.
LEMMA InCamera ==
    ASSUME IInv, section \in CameraSections
    PROVE  /\ live /\ state = "SAFE_IDLE" /\ section \notin ChatSections \cup {"main"}
           /\ TypeOK /\ gate \in GateState /\ state \in States /\ saved \subseteq Tokens
           /\ client \in 0 .. MaxLeases /\ origin \in BOOLEAN /\ faultCode \in BOOLEAN
BY DEF IInv, TypeOK, Placed, CameraSections, ChatSections

\* One move of the camera uses that lease, or ends it.
LEMMA CameraMoveGood ==
    ASSUME IInv, CameraMove
    PROVE  Good
<1>1. /\ section \in {"cal-home", "cal-return", "probe"} /\ Up
      /\ UNCHANGED <<state, live, origin, stopSet, issued, client, saved, others>>
  BY DEF CameraMove
<1>2. /\ live /\ state = "SAFE_IDLE" /\ section \notin ChatSections \cup {"main"}
      /\ TypeOK /\ gate \in GateState /\ state \in States /\ saved \subseteq Tokens
      /\ client \in 0 .. MaxLeases /\ origin \in BOOLEAN /\ faultCode \in BOOLEAN
  BY <1>1, InCamera DEF CameraSections
<1>3. CASE section' = "cal-fault" /\ UNCHANGED <<gate, faultCode>>
  <2>1. Kept(gate, gate') /\ section' \in CameraSections \ {"cal-publish"}
        /\ section' \in Sections
    BY <1>2, <1>3 DEF Kept, CameraSections, Sections
  <2>2. TypeOK'
    BY <1>1, <1>2, <1>3, <2>1, InsideTyped
  <2> QED
    BY <1>1, <1>2, <2>1, <2>2, CameraKeeps
<1>4. ASSUME NEW r \in Applies(gate, client, MouseMove(gate.last + 1), FALSE, Permitted),
             gate' = r.gate,
             faultCode' = (faultCode \/ r.out = "route"),
             section' = IF r.out # "ok" THEN "cal-fault"
                        ELSE CASE section = "cal-home"   -> "cal-return"
                               [] section = "cal-return" -> "cal-settle"
                               [] section = "probe"      -> "probe-settle"
      PROVE  Good
  <2> DEFINE a == MouseMove(gate.last + 1)
  <2>1. /\ a.seq \in Int /\ a.down \in SUBSET Tokens /\ a.up \in SUBSET Tokens
        /\ Permitted \in BOOLEAN /\ client \in Nat
    BY <1>2 DEF MouseMove, GateState, Permitted
  <2>2. r \in Applies(gate, client, a, FALSE, Permitted)
    BY <1>4
  <2> HIDE DEF a
  <2>3. \/ r.out = "ok" /\ Used(gate, gate', Permitted)
        \/ r.out \in {"raised", "route"} /\ Struck(gate, gate', Permitted)
    BY <1>2, <1>4, <2>1, <2>2, AppliesUsesOrStrikes
  <2>4. section' \in {"cal-fault", "cal-return", "cal-settle", "probe-settle"}
    BY <1>1, <1>4
  <2>5. section' \in CameraSections /\ section' # "cal-publish" /\ section' \in Sections
        /\ section' \notin ChatSections
    BY <2>4 DEF CameraSections, ChatSections, Sections
  <2>6. gate' \in GateState /\ faultCode' \in BOOLEAN
    BY <1>2, <1>4, <2>3 DEF Used, Struck, Ended
  <2>7. TypeOK'
    BY <1>1, <1>2, <2>5, <2>6, InsideTyped
  <2>8. UNCHANGED <<state, main, live, stuck>> /\ UNCHANGED <<state, live, stuck, pause, emergency>>
        /\ Up'
    BY <1>1 DEF others, main, files, Up
  <2>9. IInv'
    BY <1>1, <1>2, <2>5, <2>7, <2>8, CameraStays
  <2>10. PromiseStep
    <3>1. CASE Used(gate, gate', Permitted)
      BY <1>1, <1>2, <2>6, <2>8, <3>1, UseStep DEF Used, Serving, InterlockRead
    <3>2. CASE Struck(gate, gate', Permitted)
      <4>1. Struck(gate, gate', InterlockRead)
        BY <3>2 DEF Struck, InterlockRead
      <4> QED
        BY <1>1, <1>2, <2>5, <2>8, <4>1, StrikeStep DEF Demoted
    <3> QED
      BY <2>3, <3>1, <3>2
  <2> QED
    BY <2>9, <2>10 DEF Good
<1> QED
  BY <1>3, <1>4 DEF CameraMove

\* A long calibration renews it, or ends it.
LEMMA CalibrateRenewGood ==
    ASSUME IInv, CalibrateRenew
    PROVE  Good
<1>1. /\ section \in {"cal-return", "cal-settle"} /\ Up
      /\ UNCHANGED <<state, books, issued, client, saved, others>>
  BY DEF CalibrateRenew
<1>2. /\ live /\ state = "SAFE_IDLE" /\ section \notin ChatSections \cup {"main"}
      /\ TypeOK /\ gate \in GateState /\ state \in States /\ saved \subseteq Tokens
      /\ client \in 0 .. MaxLeases /\ origin \in BOOLEAN /\ faultCode \in BOOLEAN
  BY <1>1, InCamera DEF CameraSections
<1>3. PICK r \in Renews(gate, client) :
          /\ gate' = r.gate
          /\ section' = IF r.out = "ok" THEN section ELSE "cal-fault"
  BY DEF CalibrateRenew
<1>4. Kept(gate, gate') \/ Ended(gate, gate')
  BY <1>2, <1>3, RenewsKeepsOrEnds
<1>5. section' \in CameraSections \ {"cal-publish"} /\ section' \in Sections
  BY <1>1, <1>3 DEF CameraSections, Sections
<1>6. TypeOK'
  BY <1>1, <1>2, <1>4, <1>5, InsideTyped DEF Kept, Ended, books
<1> QED
  BY <1>1, <1>2, <1>4, <1>5, <1>6, CameraKeeps, CameraCalms DEF books

\* The finally of a camera command revokes.
LEMMA CameraSettleGood ==
    ASSUME IInv, CameraSettle
    PROVE  Good
<1>1. /\ section \in {"cal-settle", "probe-settle"} /\ Up
      /\ client' = IF section' = "free" THEN NoLease ELSE client
      /\ UNCHANGED <<state, books, issued, saved, others>>
  BY DEF CameraSettle
<1>2. /\ live /\ state = "SAFE_IDLE" /\ section \notin ChatSections \cup {"main"}
      /\ TypeOK /\ gate \in GateState /\ state \in States /\ saved \subseteq Tokens
      /\ client \in 0 .. MaxLeases /\ origin \in BOOLEAN /\ faultCode \in BOOLEAN
  BY <1>1, InCamera DEF CameraSections
<1>3. client' \in 0 .. MaxLeases
  BY <1>1, <1>2, NoLeaseTyped
<1>4. CASE section' = "cal-fault" /\ UNCHANGED gate
  <2>1. Kept(gate, gate') /\ section' \in CameraSections \ {"cal-publish"}
        /\ section' \in Sections
    BY <1>2, <1>4 DEF Kept, CameraSections, Sections
  <2>2. TypeOK'
    BY <1>1, <1>2, <1>3, <1>4, <2>1, InsideTyped DEF books
  <2> QED
    BY <1>1, <1>2, <2>1, <2>2, CameraKeeps DEF books
<1>5. ASSUME NEW r \in Revoking(state, gate), gate' = r.gate,
             section' = IF r.out = "ok" /\ section = "cal-settle"
                        THEN "cal-publish" ELSE "free"
      PROVE  Good
  <2>1. Ended(gate, gate') /\ gate' \in GateState
    BY <1>2, <1>5, RevokingWithdraws DEF Ended
  <2>2. section' \in {"cal-publish", "free"}
    BY <1>5
  <2>3. section' \in Sections
    BY <2>2 DEF Sections, CameraSections
  <2>4. TypeOK'
    BY <1>1, <1>2, <1>3, <2>1, <2>3, InsideTyped DEF books
  <2>5. CASE section' = "free"
    BY <1>1, <1>2, <2>1, <2>4, <2>5, LeaveCalmly DEF Demoted, books, others
  <2>6. CASE section' = "cal-publish"
    BY <1>1, <1>2, <2>1, <2>4, <2>6, CameraCalms DEF CameraSections, books
  <2> QED
    BY <2>2, <2>5, <2>6
<1> QED
  BY <1>4, <1>5 DEF CameraSettle

\* Its except revokes twice.
LEMMA CameraFaultGood ==
    ASSUME IInv, CameraFault
    PROVE  Good
<1>1. /\ section = "cal-fault" /\ Up /\ section' = "free" /\ client' = NoLease
      /\ UNCHANGED <<books, issued, saved, others>>
  BY DEF CameraFault
<1>2. /\ live /\ state = "SAFE_IDLE" /\ section \notin ChatSections \cup {"main"}
      /\ TypeOK /\ gate \in GateState /\ state \in States /\ saved \subseteq Tokens
      /\ client \in 0 .. MaxLeases /\ origin \in BOOLEAN /\ faultCode \in BOOLEAN
  BY <1>1, InCamera DEF CameraSections
<1>3. PICK r \in (IF pause /\ ~emergency THEN Revoking(state, gate) ELSE Fail) :
          \E q \in Revokes(r.gate) : state' = r.state /\ gate' = q.gate
  BY DEF CameraFault
<1>4. Demoted(state, r.state) /\ Ended(gate, r.gate)
  <2>1. CASE r \in Revoking(state, gate)
    BY <1>2, <2>1, RevokingWithdraws DEF Demoted
  <2>2. CASE r \in Fail
    BY <1>2, <2>2, FailWithdraws DEF Fail, Withdrawn
  <2> QED
    BY <1>3, <2>1, <2>2
<1>5. Demoted(state, state') /\ Ended(gate, gate')
  <2>1. PICK q \in Revokes(r.gate) : state' = r.state /\ gate' = q.gate
    BY <1>3
  <2>2. Ended(r.gate, q.gate)
    BY <1>4, RevokesEnds DEF Ended
  <2> QED
    BY <1>4, <2>1, <2>2, EndedAgain
<1>6. state' \in States /\ gate' \in GateState
  BY <1>2, <1>5, CalmTyped DEF Calms
<1>7. TypeOK'
  BY <1>1, <1>2, <1>6, InsideTyped, NoLeaseTyped DEF Sections, books
<1> QED
  BY <1>1, <1>2, <1>5, <1>7, LeaveCalmly DEF books, others

\* Publication finds no lease and leaves none.
LEMMA CalibratePublishGood ==
    ASSUME IInv, CalibratePublish
    PROVE  Good
<1>1. /\ section = "cal-publish" /\ Up /\ section' = "free" /\ client' = NoLease
      /\ UNCHANGED <<live, faultCode, stopSet, issued, saved, others>>
  BY DEF CalibratePublish
<1>2. /\ live /\ state = "SAFE_IDLE" /\ section \notin ChatSections \cup {"main"}
      /\ TypeOK /\ gate \in GateState /\ state \in States /\ saved \subseteq Tokens
      /\ client \in 0 .. MaxLeases /\ origin \in BOOLEAN /\ faultCode \in BOOLEAN
  BY <1>1, InCamera DEF CameraSections
<1>3. gate.lease = NoLease
  BY <1>1 DEF IInv, Placed
<1>4. origin' \in BOOLEAN
  BY <1>2 DEF CalibratePublish
<1>5. UNCHANGED <<live, stuck, main, files>> /\ UNCHANGED <<live, stuck, pause, emergency>> /\ Up'
  BY <1>1 DEF others, files, main, Up
<1>6. Calms
  <2>1. CASE UNCHANGED core
    BY <2>1 DEF Calms
  <2>2. ASSUME NEW r \in Fail, Leaves(r)
        PROVE  Calms
    BY <1>2, <2>2, FailWithdraws DEF Fail, Withdrawn, Leaves, Calms
  <2>3. ASSUME NEW r \in Revokes(gate), gate' = r.gate, UNCHANGED state
        PROVE  Calms
    BY <1>2, <2>3, RevokesEnds DEF Calms, Demoted
  <2> QED
    BY <2>1, <2>2, <2>3 DEF CalibratePublish
<1>7. state' \in States /\ gate' \in GateState
  BY <1>2, <1>6, CalmTyped
<1>8. TypeOK'
  BY <1>1, <1>2, <1>4, <1>7, InsideTyped, NoLeaseTyped DEF Sections
<1>9. gate'.lease = NoLease
  BY <1>3, <1>6 DEF Calms, core, Ended
<1>10. IInv'
  BY <1>1, <1>2, <1>5, <1>6, <1>8, <1>9, CalmKeeps
<1>11. PromiseStep
  BY <1>1, <1>2, <1>5, <1>6, CalmStep DEF ChatSections
<1> QED
  BY <1>10, <1>11 DEF Good

-----------------------------------------------------------------------------
(***************************************************************************)
(* Steps of the operator, of other processes, and of the main thread while *)
(* it only looks: they leave the gate and _lock alone.                     *)
(***************************************************************************)
LEMMA AsideStep ==
    ASSUME IInv, Up <=> Up', UNCHANGED <<core, live, section, stuck>>,
           Permitted' = Permitted \/ ~Permitted'
    PROVE  PromiseStep
<1>1. Phase' = Phase
  BY DEF Phase, core
<1>2. /\ Physical' = Physical /\ Authority' = Authority /\ Confirmed' = Confirmed
  BY DEF Physical, Authority, Confirmed, core
<1>3. CASE Permitted' = Permitted
  BY <1>1, <1>2, <1>3 DEF PromiseStep, Promise!vars, Authority, Confirmed
<1>4. CASE ~Permitted'
  <2>1. Permitted' = FALSE
    BY <1>4 DEF Permitted
  <2>2. Promise!Withdraw
    BY <1>1, <1>2, <2>1 DEF Promise!Withdraw, Authority, Confirmed
  <2> QED
    BY <2>2 DEF PromiseStep, Promise!Next
<1> QED
  BY <1>3, <1>4

\* The invariant is about nothing such a step changes.
LEMMA AsideKeeps ==
    ASSUME IInv, TypeOK', UNCHANGED <<core, live, section, stuck, main>>
    PROVE  IInv'
BY DEF IInv, Backed, Placed, Adopted, AtRest, Deciding, Up, core, main

\* A step of another process, while the main thread rests.
LEMMA AsideGood ==
    ASSUME IInv, UNCHANGED <<core, books, issued, thread, main, stuck>>,
           txn' \in Transactions, pause' \in BOOLEAN, emergency' \in BOOLEAN,
           agentFile' \in BOOLEAN,
           Permitted' = Permitted \/ ~Permitted'
    PROVE  Good
<1>1. TypeOK'
  BY DEF IInv, TypeOK, core, books, thread, main
<1>2. UNCHANGED <<core, live, section, stuck, main>> /\ (Up <=> Up')
  BY DEF books, thread, main, Up
<1> QED
  BY <1>1, <1>2, AsideKeeps, AsideStep DEF Good

\* pause and stop begin by latching, or fail to.
LEMMA BeginGood ==
    ASSUME IInv, NEW command \in {"pause", "stop"}, Begin(command), pause' \in {pause, TRUE}
    PROVE  Good
<1>1. /\ UNCHANGED <<core, books, issued, thread, main, emergency, agentFile, stuck>>
      /\ txn' = command
  BY DEF Begin
<1>2. pause' \in BOOLEAN /\ emergency' \in BOOLEAN /\ agentFile' \in BOOLEAN
  BY <1>1 DEF IInv, TypeOK
<1>3. Permitted' = Permitted \/ ~Permitted'
  <2>1. CASE pause' = pause
    BY <1>1, <2>1 DEF Permitted
  <2>2. CASE pause' = TRUE
    BY <2>2 DEF Permitted
  <2> QED
    BY <2>1, <2>2
<1>4. txn' \in Transactions
  BY <1>1 DEF Transactions
<1> QED
  BY <1>1, <1>2, <1>3, <1>4, AsideGood

\* The agent may survive the attempt to stop it.
LEMMA TxnStopAgentGood ==
    ASSUME IInv, TxnStopAgent
    PROVE  Good
<1>1. UNCHANGED <<core, books, issued, thread, main, pause, emergency, stuck>>
  BY DEF TxnStopAgent
<1>2. pause' \in BOOLEAN /\ emergency' \in BOOLEAN /\ agentFile' \in BOOLEAN
  BY <1>1 DEF IInv, TypeOK, TxnStopAgent
<1>3. Permitted' = Permitted
  BY <1>1 DEF Permitted
<1>4. txn' \in Transactions
  BY DEF TxnStopAgent, Transactions
<1> QED
  BY <1>1, <1>2, <1>3, <1>4, AsideGood

\* The operator's files, written while nobody else moves; permission is not given.
LEMMA OutsideGood ==
    ASSUME IInv, Outside, pause' \in BOOLEAN, emergency' \in BOOLEAN, agentFile' \in BOOLEAN,
           Permitted' = Permitted \/ ~Permitted'
    PROVE  Good
<1>1. UNCHANGED <<core, books, issued, thread, main, stuck>> /\ txn' \in Transactions
  BY DEF Outside, IInv, TypeOK
<1> QED
  BY <1>1, AsideGood

\* The operator and the agent write files without asking the supervisor.
LEMMA LatchGood ==
    ASSUME IInv, LatchPause \/ LatchEmergency \/ AgentStarts \/ AgentEnds
    PROVE  Good
<1>1. Outside
  BY DEF LatchPause, LatchEmergency, AgentStarts, AgentEnds
<1>2. pause' \in BOOLEAN /\ emergency' \in BOOLEAN /\ agentFile' \in BOOLEAN
  BY DEF IInv, TypeOK, LatchPause, LatchEmergency, AgentStarts, AgentEnds
<1>3. Permitted' = Permitted \/ ~Permitted'
  BY DEF Permitted, LatchPause, LatchEmergency, AgentStarts, AgentEnds
<1> QED
  BY <1>1, <1>2, <1>3, OutsideGood

\* A latch is cleared only while there is no supervisor.
LEMMA ClearGood ==
    ASSUME IInv, ClearPause \/ ResetEmergency
    PROVE  Good
<1>1. ~Up /\ UNCHANGED <<core, books, issued, thread, main, txn, stuck>>
  BY DEF ClearPause, ResetEmergency, Outside
<1>2. pause' \in BOOLEAN /\ emergency' \in BOOLEAN /\ agentFile' \in BOOLEAN
  BY DEF IInv, TypeOK, ClearPause, ResetEmergency
<1>3. TypeOK'
  BY <1>1, <1>2 DEF IInv, TypeOK, core, books, thread, main
<1>4. UNCHANGED <<core, live, section, stuck, main>> /\ ~Up'
  BY <1>1 DEF books, thread, main, Up
<1>5. IInv'
  BY <1>3, <1>4, AsideKeeps
<1>6. PromiseStep
  <2>1. Phase = "off" /\ Phase' = "off"
    BY <1>1, <1>4 DEF Phase
  <2>2. Physical' = Physical /\ Confirmed' = Confirmed
    BY <1>4 DEF Physical, Confirmed, core
  <2>3. Authority = FALSE /\ Authority' = FALSE
    BY <1>1, <1>4 DEF IInv, AtRest, Authority
  <2>4. Permitted' \in BOOLEAN
    BY DEF Permitted
  <2>5. Promise!Permit
    BY <2>1, <2>2, <2>3, <2>4 DEF Promise!Permit, Authority, Confirmed
  <2> QED
    BY <2>5 DEF PromiseStep, Promise!Next
<1> QED
  BY <1>5, <1>6 DEF Good

\* A transaction pauses the supervisor.
LEMMA TxnPauseGood ==
    ASSUME IInv, TxnPause
    PROVE  Good
<1>1. /\ LockFree /\ txn \in {"pause", "stop"}
      /\ UNCHANGED <<books, issued, thread, main, files, stuck>>
  BY DEF TxnPause
<1>2. TypeOK /\ gate \in GateState /\ state \in States
  BY DEF IInv, TypeOK
<1>3. PICK r \in PauseFrom(state, gate) :
          /\ Leaves(r)
          /\ txn' = IF r.out = "raised" THEN "free"
                    ELSE IF txn = "pause" THEN "pause-agent" ELSE "stop-agent"
  BY DEF TxnPause
<1>4. Calms
  BY <1>2, <1>3, PauseWithdraws DEF Untouched, Withdrawn, Leaves, Calms, core
<1>5. state' \in States /\ gate' \in GateState
  BY <1>2, <1>4, CalmTyped
<1>6. txn' \in Transactions
  BY <1>3 DEF Transactions
<1>7. TypeOK'
  BY <1>1, <1>2, <1>5, <1>6 DEF TypeOK, books, thread, main, files
<1> QED
  BY <1>1, <1>4, <1>7, CalmCommand DEF books

\* A transaction stops it.
LEMMA TxnStopGood ==
    ASSUME IInv, TxnStop
    PROVE  Good
<1>1. /\ LockFree /\ txn' = "free" /\ stopSet' = TRUE
      /\ UNCHANGED <<live, origin, faultCode, issued, thread, main, files, stuck>>
  BY DEF TxnStop
<1>2. TypeOK /\ gate \in GateState /\ state \in States
  BY DEF IInv, TypeOK
<1>3. PICK r \in StopFrom(state, gate) : Leaves(r)
  BY DEF TxnStop
<1>4. Calms
  BY <1>2, <1>3, StopWithdraws DEF Withdrawn, Leaves, Calms
<1>5. state' \in States /\ gate' \in GateState
  BY <1>2, <1>4, CalmTyped
<1>6. TypeOK'
  BY <1>1, <1>2, <1>5 DEF TypeOK, thread, main, files, Transactions
<1> QED
  BY <1>1, <1>4, <1>6, CalmCommand

(***************************************************************************)
(* resume gives permission back, under _lock and without a capability; a   *)
(* faulted generation retires for it.                                      *)
(***************************************************************************)
LEMMA ResumeGood ==
    ASSUME IInv, Resume
    PROVE  Good
<1>1. /\ LockFree /\ Quiet /\ UNCHANGED <<live, origin, faultCode, issued, emergency, agentFile, stuck>>
  BY DEF Resume, Serves
<1>2. /\ TypeOK /\ gate \in GateState /\ state \in States /\ pause \in BOOLEAN
      /\ live \in BOOLEAN /\ stuck \subseteq Tokens
  BY DEF IInv, TypeOK
<1>3. /\ section = "free" /\ section' = "free" /\ Up /\ Up'
      /\ UNCHANGED <<main, live, stuck>>
  BY <1>1 DEF LockFree, Quiet, thread, main, Up
<1>4. Permitted' \in BOOLEAN
  BY DEF Permitted
<1>5. CASE /\ state \in {"SAFE_IDLE", "PAUSED"} /\ state' = "SAFE_IDLE"
           /\ pause' \in {pause, FALSE} /\ UNCHANGED <<gate, stopSet>>
  <2>1. gate.lease = NoLease /\ gate'.lease = NoLease
    BY <1>3, <1>5 DEF IInv, Backed, CameraSections
  <2>2. state' \in States /\ pause' \in BOOLEAN
    BY <1>2, <1>5 DEF States
  <2>3. TypeOK'
    BY <1>1, <1>2, <1>5, <2>2 DEF TypeOK, Quiet, thread, main
  <2>4. Backed' /\ Placed'
    BY <1>3, <2>1 DEF Backed, Placed, CameraSections, ChatSections
  <2>5. IInv'
    BY <1>3, <2>3, <2>4, CommandKeeps
  <2>6. PromiseStep
    <3>1. Phase' = Phase
      BY <1>2, <1>3, <1>5, <2>2, PhaseOfState, PhaseOfNextState DEF Serving
    <3>2. Authority = FALSE /\ Authority' = FALSE
      BY <1>3, <2>1 DEF Authority, ChatSections
    <3>3. Physical' = Physical /\ Confirmed' = Confirmed
      BY <1>1, <1>5 DEF Physical, Confirmed
    <3>4. Promise!Permit
      BY <1>4, <3>1, <3>2, <3>3 DEF Promise!Permit, Authority, Confirmed
    <3> QED
      BY <3>4 DEF PromiseStep, Promise!Next
  <2> QED
    BY <2>5, <2>6 DEF Good
<1>6. ASSUME state = "FAILSAFE", stopSet' = TRUE,
             NEW r \in StopFrom(state, gate), Leaves(r),
             pause' \in IF r.out = "ok" THEN {pause, FALSE} ELSE {pause}
      PROVE  Good
  <2>1. state' = "STOPPED" /\ Ended(gate, gate') /\ gate'.lease = NoLease
    BY <1>2, <1>6, StopWithdraws DEF Withdrawn, Leaves, Ended
  <2>2. gate.lease = NoLease
    BY <1>6 DEF IInv, Backed
  <2>3. state' \in States /\ gate' \in GateState /\ pause' \in BOOLEAN
    BY <1>2, <1>6, <2>1 DEF States, Ended
  <2>4. TypeOK'
    BY <1>1, <1>2, <1>6, <2>3 DEF TypeOK, Quiet, thread, main
  <2>5. Backed' /\ Placed'
    BY <1>3, <2>1 DEF Backed, Placed, CameraSections, ChatSections
  <2>6. IInv'
    BY <1>3, <2>4, <2>5, CommandKeeps
  <2>7. PromiseStep
    <3>1. Phase' = "stopped" /\ Phase = "faulted"
      BY <1>2, <1>3, <1>6, <2>1, <2>3, PhaseOfState, PhaseOfNextState
    <3>2. Authority = FALSE /\ Authority' = FALSE
      BY <1>3, <2>1, <2>2 DEF Authority, ChatSections
    <3>3. \/ Physical' = {} /\ Confirmed' = TRUE
          \/ Physical' \subseteq Physical /\ Confirmed' = FALSE
          \/ Physical' = Physical /\ Confirmed' = Confirmed
      BY <1>1, <2>1 DEF Ended, Swept, Physical, Confirmed
    <3>4. CASE live
      <4>1. \/ Physical' = {} /\ Confirmed' = TRUE
            \/ Physical' \subseteq Physical /\ Confirmed' = FALSE
        BY <1>1, <2>1, <3>4 DEF Ended, Swept, Physical, Confirmed
      <4>2. Promise!Permit
        BY <1>4, <3>1, <3>2, <4>1
           DEF Promise!Permit, Promise!Released, Authority, Confirmed
      <4> QED
        BY <4>2 DEF PromiseStep, Promise!Next
    <3>5. CASE ~live
      <4>1. \/ Physical' = {} /\ Confirmed' = TRUE
            \/ Physical' \subseteq Physical /\ Confirmed' = FALSE
        BY <1>1, <3>5 DEF Physical, Confirmed
      <4>2. Promise!Permit
        BY <1>4, <3>1, <3>2, <4>1
           DEF Promise!Permit, Promise!Released, Authority, Confirmed
      <4> QED
        BY <4>2 DEF PromiseStep, Promise!Next
    <3> QED
      BY <3>4, <3>5
  <2> QED
    BY <2>6, <2>7 DEF Good
<1> QED
  BY <1>5, <1>6 DEF Resume

\* A reload resumes without touching the operator's intent.
LEMMA ResumeForAgentReloadGood ==
    ASSUME IInv, ResumeForAgentReload
    PROVE  Good
<1>1. /\ LockFree /\ Quiet /\ UNCHANGED <<gate, books, issued, files, stuck>>
      /\ state = "PAUSED" /\ state' = "SAFE_IDLE" /\ gate.lease = NoLease
  BY DEF ResumeForAgentReload, Serves
<1>2. TypeOK /\ gate \in GateState
  BY DEF IInv, TypeOK
<1>3. /\ section = "free" /\ section' = "free" /\ Up /\ Up' /\ state' \in States
      /\ UNCHANGED <<main, live, stuck>>
  BY <1>1 DEF LockFree, Quiet, thread, main, Up, books, States
<1>4. TypeOK'
  BY <1>1, <1>2, <1>3, QuietTyped
<1>5. Backed' /\ Placed'
  BY <1>1, <1>3 DEF Backed, Placed, CameraSections, ChatSections
<1>6. IInv'
  BY <1>3, <1>4, <1>5, CommandKeeps
<1>7. PromiseStep
  BY <1>1, <1>3, QuietStep DEF Serving, files
<1> QED
  BY <1>6, <1>7 DEF Good

-----------------------------------------------------------------------------
(***************************************************************************)
(* The main thread.  It takes _lock for what it decided, and between the   *)
(* decision and the assignment only a signal can have moved the state.     *)
(***************************************************************************)

\* A step of the main thread that calms and leaves _lock free.
LEMMA MainCalms ==
    ASSUME IInv, Up, Up', section \notin ChatSections, section' = "free", ~flagged',
           Calms, gate'.lease = NoLease,
           UNCHANGED <<live, stuck, files>>,
           TypeOK'
    PROVE  Good
<1>1. IInv'
  BY DEF IInv, Backed, Placed, Adopted, AtRest, Deciding, CameraSections, ChatSections
<1>2. PromiseStep
  BY <1>1, CalmStep DEF ChatSections, files
<1> QED
  BY <1>1, <1>2 DEF Good

\* Outside its own critical section the main thread has decided nothing.
LEMMA Undecided ==
    ASSUME IInv, wd \notin {"disarm", "fail-expired", "fail-emergency"} \/ section # "main"
    PROVE  section # "main" /\ flagged = FALSE
BY DEF IInv, Deciding, TypeOK

\* Reading the files moves the main thread only.
LEMMA WatchdogTopGood ==
    ASSUME IInv, WatchdogTop
    PROVE  Good
<1>1. /\ wd = "top" /\ section # "main"
      /\ UNCHANGED <<core, books, issued, thread, flagged, sig, txn, files, stuck>>
  BY DEF WatchdogTop
<1>2. wd' \in {"close", "fail-emergency", "disarm", "expiry"}
  BY DEF WatchdogTop, Verdict
<1>3. Up /\ Up' /\ flagged = FALSE
  BY <1>1, <1>2, Undecided DEF Up
<1>4. UNCHANGED <<core, live, section, stuck>> /\ Permitted' = Permitted
  BY <1>1 DEF books, thread, files, Permitted
<1>5. TypeOK'
  BY <1>1, <1>2 DEF IInv, TypeOK, core, books, thread, files, MainSteps
<1>6. IInv'
  BY <1>1, <1>3, <1>4, <1>5
     DEF IInv, Backed, Placed, Adopted, AtRest, Deciding, core
<1>7. PromiseStep
  BY <1>3, <1>4, AsideStep
<1> QED
  BY <1>6, <1>7 DEF Good

\* check_expiry revokes under the gate's lock alone, even in the middle of a chat.
LEMMA WatchdogExpiryGood ==
    ASSUME IInv, WatchdogExpiry
    PROVE  Good
<1>1. /\ wd = "expiry"
      /\ UNCHANGED <<state, books, issued, thread, flagged, sig, txn, files, stuck>>
  BY DEF WatchdogExpiry
<1>2. TypeOK /\ gate \in GateState /\ state \in States
  BY DEF IInv, TypeOK
<1>3. section # "main" /\ flagged = FALSE
  BY <1>1, Undecided
<1>4. UNCHANGED <<live, section, stuck, flagged, pause, emergency, state>> /\ Permitted' = Permitted
      /\ UNCHANGED files
  BY <1>1 DEF books, thread, files, Permitted
<1>5. CASE wd' = "top" /\ UNCHANGED gate
  <2>1. UNCHANGED <<core, live, section, stuck>> /\ Up /\ Up'
    BY <1>1, <1>4, <1>5 DEF core, Up
  <2>2. TypeOK'
    BY <1>1, <1>2, <1>5 DEF TypeOK, books, thread, files, MainSteps
  <2>3. IInv'
    BY <1>3, <1>4, <2>1, <2>2 DEF IInv, Backed, Placed, Adopted, AtRest, Deciding, core
  <2>4. PromiseStep
    BY <1>4, <2>1, AsideStep
  <2> QED
    BY <2>3, <2>4 DEF Good
<1>6. ASSUME NEW r \in Revokes(gate), gate' = r.gate, wd' \in {"fail-expired", "close"}
      PROVE  Good
  <2>1. Ended(gate, gate') /\ gate' \in GateState /\ gate'.lease = NoLease
        /\ gate'.held \subseteq gate.held
    BY <1>2, <1>6, RevokesEnds DEF Ended, Swept
  <2>2. Up /\ Up' /\ Demoted(state, state') /\ Calms
    BY <1>1, <1>6, <2>1 DEF Up, Demoted, Calms
  <2>3. TypeOK'
    BY <1>1, <1>2, <1>6, <2>1 DEF TypeOK, books, thread, files, MainSteps
  <2>4. IInv'
    BY <1>3, <1>4, <2>1, <2>2, <2>3 DEF IInv, Backed, Placed, Adopted, AtRest, Deciding
  <2>5. CASE section \in ChatSections
    <3>1. state = "RUNNING"
      BY <2>5 DEF IInv, Placed
    <3>2. PromiseStep
      BY <1>4, <2>1, <2>2, <2>5, <3>1, UseStep DEF Serving
    <3> QED
      BY <2>4, <3>2 DEF Good
  <2>6. CASE section \notin ChatSections
    <3>1. PromiseStep
      BY <1>4, <2>2, <2>6, CalmStep
    <3> QED
      BY <2>4, <3>1 DEF Good
  <2> QED
    BY <2>5, <2>6
<1>7. ExpiryDue(gate) => \E r \in Revokes(gate) : gate' = r.gate /\ wd' \in {"fail-expired", "close"}
  BY DEF WatchdogExpiry
<1>8. ~ExpiryDue(gate) => wd' = "top" /\ UNCHANGED gate
  BY DEF WatchdogExpiry
<1> QED
  BY <1>5, <1>6, <1>7, <1>8

\* The decision remembers the state it was taken from.
LEMMA WatchdogDecideGood ==
    ASSUME IInv, WatchdogDecide
    PROVE  Good
<1>1. /\ wd \in {"disarm", "fail-expired", "fail-emergency"} /\ section = "free"
      /\ UNCHANGED <<core, books, issued, client, saved, sig, txn, files, stuck>>
  BY DEF WatchdogDecide
<1>2. flagged = FALSE /\ TypeOK /\ state \in States /\ Up
  BY <1>1, Undecided DEF IInv, TypeOK, Up
<1>3. CASE wd # "disarm" /\ wd' = AfterFail /\ UNCHANGED <<section, flagged>>
  <2>1. wd' \in {"top", "stop-emergency"} /\ Up'
    BY <1>3 DEF AfterFail, Up
  <2>2. TypeOK'
    BY <1>1, <1>2, <1>3, <2>1 DEF TypeOK, core, books, files, MainSteps
  <2>3. UNCHANGED <<core, live, section, stuck>> /\ Permitted' = Permitted
    BY <1>1, <1>3 DEF books, files, Permitted
  <2>4. IInv'
    BY <1>1, <1>2, <1>3, <2>1, <2>2, <2>3
       DEF IInv, Backed, Placed, Adopted, AtRest, Deciding, core
  <2>5. PromiseStep
    BY <1>2, <2>1, <2>3, AsideStep
  <2> QED
    BY <2>4, <2>5 DEF Good
<1>4. CASE /\ ~(wd # "disarm" /\ state = "STOPPED")
           /\ section' = "main" /\ UNCHANGED wd
           /\ flagged' = IF wd = "disarm" THEN state \in {"ARMED", "RUNNING"}
                         ELSE state # "FAILSAFE" /\ "FAILSAFE" \in Allowed(state)
  <2>1. /\ Up' /\ flagged' \in BOOLEAN
        /\ flagged' => \/ wd' = "disarm" /\ state' \in {"ARMED", "RUNNING"}
                       \/ wd' # "disarm" /\ state' \in Serving
    <3>1. state' = state /\ wd' = wd /\ Up'
      BY <1>1, <1>4 DEF Up, core
    <3>2. CASE wd = "disarm"
      <4>1. flagged' = (state \in {"ARMED", "RUNNING"})
        BY <1>4, <3>2
      <4>2. flagged' \in BOOLEAN
        BY <4>1
      <4>3. flagged' => state \in {"ARMED", "RUNNING"}
        BY <4>1
      <4> QED
        BY <3>1, <3>2, <4>2, <4>3
    <3>3. CASE wd # "disarm"
      <4> DEFINE armed == state \in {"ARMED", "RUNNING"}
                 faults == state # "FAILSAFE" /\ "FAILSAFE" \in Allowed(state)
      <4>1. flagged' = faults
        <5>1. flagged' = IF wd = "disarm" THEN armed ELSE faults
          BY <1>4
        <5> HIDE DEF armed, faults
        <5> QED
          BY <3>3, <5>1
      <4>2. state # "STOPPED"
        BY <1>4, <3>3
      <4>3. state \in Serving \/ state = "FAILSAFE"
        BY <1>2, <4>2 DEF States, Serving
      <4> QED
        BY <3>1, <3>3, <4>1, <4>3
    <3> QED
      BY <3>2, <3>3
  <2>2. TypeOK'
    BY <1>1, <1>2, <1>4, <2>1 DEF TypeOK, core, books, files, Sections
  <2>3. UNCHANGED <<core, live, stuck, pause, emergency, wd>>
    BY <1>1, <1>4 DEF books, files
  <2>4. Deciding'
    BY <1>1, <1>4, <2>1 DEF Deciding
  <2>5. IInv'
    BY <1>1, <1>2, <1>4, <2>1, <2>2, <2>3, <2>4
       DEF IInv, Backed, Placed, Adopted, AtRest, core, CameraSections, ChatSections
  <2>6. PromiseStep
    BY <1>1, <1>2, <1>4, <2>1, <2>3, QuietStep DEF core, ChatSections
  <2> QED
    BY <2>5, <2>6 DEF Good
<1> QED
  BY <1>3, <1>4 DEF WatchdogDecide

\* The assignment lowers the state, or brings back what a signal stopped.
LEMMA WatchdogActGood ==
    ASSUME IInv, WatchdogAct
    PROVE  Good
<1>1. /\ wd \in {"disarm", "fail-expired", "fail-emergency"} /\ InLoop /\ section = "main"
      /\ section' = "free" /\ flagged' = FALSE
      /\ UNCHANGED <<books, issued, client, saved, sig, txn, files, stuck>>
  BY DEF WatchdogAct
<1>2. /\ TypeOK /\ gate \in GateState /\ state \in States /\ flagged \in BOOLEAN
      /\ live \in BOOLEAN /\ stuck \subseteq Tokens
  BY DEF IInv, TypeOK
<1> DEFINE s == IF ~flagged THEN state
                ELSE IF wd = "disarm" THEN "PAUSED" ELSE "FAILSAFE"
<1>3. PICK r \in Revoking(s, gate) :
          /\ Leaves(r)
          /\ wd' = IF r.out = "raised" THEN "close"
                   ELSE IF wd = "disarm" THEN "expiry" ELSE AfterFail
  BY DEF WatchdogAct
<1>4. state' = s /\ Ended(gate, gate') /\ gate' \in GateState /\ gate'.lease = NoLease
  <2> HIDE DEF s
  <2> QED
    BY <1>2, <1>3, RevokingWithdraws DEF Leaves, Ended
<1>5. wd' \in {"close", "expiry", "top", "stop-emergency"}
  BY <1>3 DEF AfterFail
<1>6. Up /\ Up' /\ state' \in States
  BY <1>1, <1>2, <1>4, <1>5 DEF Up, States
<1>7. TypeOK'
  BY <1>1, <1>2, <1>4, <1>5, <1>6 DEF TypeOK, books, files, MainSteps, Sections
<1>8. UNCHANGED <<live, stuck, files, pause, emergency>>
  BY <1>1 DEF books, files
<1>9. section \notin ChatSections
  BY <1>1 DEF ChatSections
<1>10. \/ ~flagged
       \/ wd = "disarm" /\ state \in {"ARMED", "RUNNING"}
       \/ wd # "disarm" /\ state \in Serving
       \/ flagged /\ SignalInside /\ state = "STOPPED"
  BY <1>1, <1>2 DEF IInv, Deciding, InLoop
<1>11. CASE Demoted(state, state')
  <2>1. Calms
    BY <1>4, <1>11 DEF Calms
  <2> QED
    BY <1>1, <1>4, <1>6, <1>7, <1>8, <1>9, <2>1, MainCalms
<1>12. CASE flagged /\ SignalInside /\ state = "STOPPED"
  <2>1. state' \in {"PAUSED", "FAILSAFE"}
    BY <1>4, <1>12
  <2>2. IInv'
    BY <1>1, <1>4, <1>6, <1>7, <1>8
       DEF IInv, Backed, Placed, Adopted, AtRest, Deciding, CameraSections, ChatSections
  <2>3. Phase = "stopped" /\ Phase' \in {"serving", "faulted"}
    BY <1>2, <1>6, <1>12, <2>1, PhaseOfState, PhaseOfNextState DEF Serving
  <2>4. Authority = FALSE /\ Authority' = FALSE /\ Permitted' = Permitted
    <3>1. gate.lease = NoLease
      BY <1>12 DEF IInv, Backed
    <3> QED
      BY <1>1, <1>4, <1>8, <3>1 DEF Authority, ChatSections, Permitted
  <2>5. \/ Physical' = {} /\ Confirmed' = TRUE
        \/ Physical' \subseteq Physical /\ Confirmed' = FALSE
        \/ Physical' = Physical /\ Confirmed' = Confirmed
    <3>1. CASE live
      BY <1>4, <1>8, <3>1 DEF Ended, Swept, Physical, Confirmed
    <3>2. CASE ~live
      BY <1>8, <3>2 DEF Physical, Confirmed
    <3> QED
      BY <1>2, <3>1, <3>2
  <2>6. Promise!Revive
    BY <1>12, <2>3, <2>4, <2>5
       DEF Promise!Revive, Promise!Released, Authority, Confirmed
  <2>7. PromiseStep
    BY <2>6 DEF PromiseStep, Promise!Next
  <2> QED
    BY <2>2, <2>7 DEF Good
<1>13. \/ Demoted(state, state')
       \/ flagged /\ SignalInside /\ state = "STOPPED"
  BY <1>2, <1>4, <1>10 DEF Demoted, Serving
<1> QED
  BY <1>11, <1>12, <1>13

\* An emergency ends in STOPPED.
LEMMA WatchdogStopGood ==
    ASSUME IInv, WatchdogStop
    PROVE  Good
<1>1. /\ wd = "stop-emergency" /\ section = "free" /\ stopSet' = TRUE /\ wd' = "close"
      /\ UNCHANGED <<live, origin, faultCode, issued, thread, flagged, sig, txn, files, stuck>>
  BY DEF WatchdogStop
<1>2. TypeOK /\ gate \in GateState /\ state \in States /\ flagged = FALSE
  BY <1>1, Undecided DEF IInv, TypeOK
<1>3. PICK r \in StopFrom(state, gate) : Leaves(r)
  BY DEF WatchdogStop
<1>4. Calms /\ gate'.lease = NoLease
  BY <1>2, <1>3, StopWithdraws DEF Withdrawn, Leaves, Calms, Ended
<1>5. state' \in States /\ gate' \in GateState
  BY <1>2, <1>4, CalmTyped
<1>6. TypeOK'
  BY <1>1, <1>2, <1>5 DEF TypeOK, thread, files, MainSteps
<1>7. Up /\ Up' /\ section \notin ChatSections /\ section' = "free" /\ ~flagged'
  BY <1>1, <1>2 DEF Up, ChatSections, thread
<1> QED
  BY <1>1, <1>4, <1>6, <1>7, MainCalms

\* _close_owned_runtime sweeps once more over what it could not release.
LEMMA CloseGood ==
    ASSUME IInv, Close
    PROVE  Good
<1>1. /\ wd = "close" /\ section = "free" /\ stopSet' = TRUE /\ wd' = "exited"
      /\ state' = "STOPPED"
      /\ UNCHANGED <<live, origin, faultCode, issued, thread, flagged, sig, txn, files, stuck>>
  BY DEF Close
<1>2. TypeOK /\ gate \in GateState /\ state \in States /\ flagged = FALSE
  BY <1>1, Undecided DEF IInv, TypeOK
<1>3. PICK r \in Revokes(gate) :
          IF live THEN \E q \in Revokes(r.gate) : gate' = q.gate ELSE gate' = r.gate
  BY DEF Close
<1>4. Ended(gate, r.gate) /\ r.gate \in GateState
  BY <1>2, RevokesEnds DEF Ended
<1>5. Ended(gate, gate')
  BY <1>3, <1>4, RevokesEnds, EndedAgain
<1>6. Calms /\ gate'.lease = NoLease
  BY <1>1, <1>5 DEF Calms, Demoted, Ended
<1>7. state' \in States /\ gate' \in GateState
  BY <1>2, <1>6, CalmTyped
<1>8. TypeOK'
  BY <1>1, <1>2, <1>7 DEF TypeOK, thread, files, MainSteps
<1>9. Up /\ Up' /\ section \notin ChatSections /\ section' = "free" /\ ~flagged'
  BY <1>1, <1>2 DEF Up, ChatSections, thread
<1> QED
  BY <1>1, <1>6, <1>8, <1>9, MainCalms

(***************************************************************************)
(* The signal handler, possibly inside the critical section of the main    *)
(* thread: it ends the capability, and what it leaves undone of the        *)
(* decision it interrupted is what Revive is for.                          *)
(***************************************************************************)
LEMMA HandlerGood ==
    ASSUME IInv, HandlerMayRun, sig \in {"raised", "stop"},
           NEW next \in {"stop", "none"}, NEW r, Leaves(r), HandlerFails(r, next),
           Calms, gate'.lease = NoLease,
           next = "stop" \/ (SignalInside /\ state' = "STOPPED") \/ section = "free",
           stopSet' \in BOOLEAN,
           UNCHANGED <<live, origin, faultCode, issued, client, saved, txn, files, stuck>>
    PROVE  Good
<1>1. TypeOK /\ gate \in GateState /\ state \in States
  BY DEF IInv, TypeOK
<1>2. /\ Up /\ section \in {"free", "main"} /\ section \notin ChatSections
  BY DEF HandlerMayRun, Up, ChatSections
<1>3. state' \in States /\ gate' \in GateState
  BY <1>1, CalmTyped
<1>4. CASE r.out = "raised"
  <2>1. wd' = "close" /\ sig' = "none" /\ flagged' = FALSE /\ section' = "free"
    BY <1>4 DEF HandlerFails
  <2>2. TypeOK'
    BY <1>1, <1>3, <2>1 DEF TypeOK, files, MainSteps, Sections
  <2>3. Up'
    BY <2>1 DEF Up
  <2> QED
    BY <1>2, <2>1, <2>2, <2>3, MainCalms
<1>5. CASE r.out # "raised"
  <2>1. sig' = next /\ UNCHANGED <<wd, flagged, section>>
    BY <1>5 DEF HandlerFails
  <2>2. TypeOK'
    BY <1>1, <1>3, <2>1 DEF TypeOK, files
  <2>3. Up' /\ section' \notin ChatSections
    BY <1>2, <2>1 DEF Up
  <2>4. Deciding'
    BY <1>2, <2>1 DEF IInv, Deciding
  <2>5. IInv'
    BY <1>2, <2>1, <2>2, <2>3, <2>4
       DEF IInv, Backed, Placed, Adopted, AtRest, CameraSections, ChatSections
  <2>6. PromiseStep
    BY <1>2, <2>3, CalmStep DEF files
  <2> QED
    BY <2>5, <2>6 DEF Good
<1> QED
  BY <1>4, <1>5

\* The first half of the handler fails the supervisor.
LEMMA HandlerFailGood ==
    ASSUME IInv, HandlerFail
    PROVE  Good
<1>1. /\ sig = "raised" /\ HandlerMayRun
      /\ UNCHANGED <<books, issued, client, saved, txn, files, stuck>>
  BY DEF HandlerFail
<1>2. TypeOK /\ gate \in GateState /\ state \in States
  BY DEF IInv, TypeOK
<1>3. PICK r \in FailFrom(state, gate) : Leaves(r) /\ HandlerFails(r, "stop")
  BY DEF HandlerFail, Fail
<1>4. \/ state = "STOPPED" /\ Untouched(state, gate, r)
      \/ Withdrawn(state, gate, r)
  BY <1>2, FailWithdraws
<1>5. Calms /\ gate'.lease = NoLease
  <2>1. CASE state = "STOPPED" /\ Untouched(state, gate, r)
    BY <1>3, <2>1 DEF Untouched, Leaves, Calms, core, IInv, Backed
  <2>2. CASE Withdrawn(state, gate, r)
    BY <1>3, <2>2 DEF Withdrawn, Leaves, Calms, Ended
  <2> QED
    BY <1>4, <2>1, <2>2
<1>6. UNCHANGED <<live, origin, faultCode, issued, client, saved, txn, files, stuck>>
      /\ stopSet' \in BOOLEAN
  BY <1>1, <1>2 DEF books, TypeOK
<1> QED
  BY <1>1, <1>3, <1>5, <1>6, HandlerGood

\* The second half stops it.
LEMMA HandlerStopGood ==
    ASSUME IInv, HandlerStop
    PROVE  Good
<1>1. /\ sig = "stop" /\ HandlerMayRun /\ stopSet' = TRUE
      /\ UNCHANGED <<live, origin, faultCode, issued, client, saved, txn, files, stuck>>
  BY DEF HandlerStop
<1>2. TypeOK /\ gate \in GateState /\ state \in States
  BY DEF IInv, TypeOK
<1>3. PICK r \in StopFrom(state, gate) : Leaves(r) /\ HandlerFails(r, "none")
  BY DEF HandlerStop
<1>4. Calms /\ gate'.lease = NoLease /\ state' = "STOPPED"
  BY <1>2, <1>3, StopWithdraws DEF Withdrawn, Leaves, Calms, Ended
<1>5. SignalInside \/ section = "free"
  BY <1>1 DEF HandlerMayRun
<1> QED
  BY <1>1, <1>3, <1>4, <1>5, HandlerGood

\* A signal arrives.
LEMMA SignalGood ==
    ASSUME IInv, Signal
    PROVE  Good
<1>1. /\ Up /\ sig = "none" /\ sig' = "raised"
      /\ UNCHANGED <<core, books, issued, thread, wd, flagged, txn, files, stuck>>
  BY DEF Signal
<1>2. TypeOK'
  BY <1>1 DEF IInv, TypeOK, core, books, thread, files
<1>3. UNCHANGED <<core, live, section, stuck>> /\ Up' /\ Permitted' = Permitted
  BY <1>1 DEF books, thread, files, Permitted, Up
<1>4. IInv'
  BY <1>1, <1>2, <1>3 DEF IInv, Backed, Placed, Adopted, AtRest, Deciding, core
<1>5. PromiseStep
  BY <1>1, <1>3, AsideStep
<1> QED
  BY <1>4, <1>5 DEF Good

-----------------------------------------------------------------------------
(***************************************************************************)
(* The process begins and dies, and a lease grows old.                     *)
(***************************************************************************)
LEMMA StartGood ==
    ASSUME IInv, Start
    PROVE  Good
<1>1. /\ wd = "dead" /\ wd' = "top" /\ stopSet' = FALSE /\ faultCode' = FALSE
      /\ UNCHANGED <<live, origin, issued, thread, flagged, sig, txn, files, stuck>>
      /\ state' \in {"PAUSED", "SAFE_IDLE"}
  BY DEF Start
<1>2. gate' \in GateState /\ gate'.lease = NoLease
  <2>1. NewGate \in GateState /\ NewGate.lease = NoLease
    BY DEF NewGate, GateState, NoLease
  <2>2. [NewGate EXCEPT !.reason = "revoked"] \in GateState
        /\ [NewGate EXCEPT !.reason = "revoked"].lease = NoLease
    BY <2>1 DEF GateState
  <2> QED
    BY <2>1, <2>2 DEF Start
<1>3. ~Up /\ Up' /\ ~live /\ section = "free" /\ section' = "free"
      /\ UNCHANGED <<live, stuck, pause, emergency, flagged>>
  BY <1>1 DEF Up, IInv, AtRest, thread, files
<1>4. flagged = FALSE
  BY <1>3, Undecided
<1>5. state' \in States
  BY <1>1 DEF States
<1>6. TypeOK'
  BY <1>1, <1>2, <1>5 DEF IInv, TypeOK, thread, files, MainSteps
<1>7. IInv'
  BY <1>2, <1>3, <1>4, <1>6
     DEF IInv, Backed, Placed, Adopted, AtRest, Deciding, CameraSections, ChatSections
<1>8. PromiseStep
  <2>1. Phase = "off" /\ Phase' = "serving"
    <3>1. Phase' = "serving"
      BY <1>1, <1>3, <1>5, PhaseOfNextState DEF Serving
    <3> QED
      BY <1>3, <3>1 DEF Phase
  <2>2. /\ Authority = FALSE /\ Authority' = FALSE /\ Permitted' = Permitted
        /\ Physical' = Physical /\ Confirmed' = Confirmed
    BY <1>3 DEF Authority, Permitted, Physical, Confirmed
  <2>3. Promise!Boot
    BY <2>1, <2>2 DEF Promise!Boot, Authority, Confirmed
  <2> QED
    BY <2>3 DEF PromiseStep, Promise!Next
<1> QED
  BY <1>7, <1>8 DEF Good

\* A process that ends leaves pressed what it could not release.
LEMMA DiesGood ==
    ASSUME IInv, Dies
    PROVE  Good
<1>1. /\ wd' = "dead" /\ flagged' = FALSE /\ sig' = "none"
      /\ state' = "STOPPED" /\ gate' = NewGate
      /\ stuck' = Physical
      /\ live' = FALSE /\ origin' = FALSE
      /\ section' = "free" /\ client' = NoLease /\ saved' = {}
      /\ txn' = "free"
      /\ UNCHANGED <<faultCode, stopSet, issued, files>>
  BY DEF Dies
<1>2. NewGate \in GateState /\ NewGate.lease = NoLease
  BY DEF NewGate, GateState, NoLease
<1>3. stuck' \subseteq Tokens
  BY <1>1 DEF IInv, TypeOK, GateState, Physical
<1>4. TypeOK'
  BY <1>1, <1>2, <1>3, NoLeaseTyped
     DEF IInv, TypeOK, files, MainSteps, Sections, States, Transactions
<1>5. IInv'
  BY <1>1, <1>2, <1>4
     DEF IInv, Backed, Placed, Adopted, AtRest, Deciding, Up, CameraSections, ChatSections
<1>6. PromiseStep
  <2>1. Phase' = "off" /\ Authority' = FALSE /\ Permitted' = Permitted
    BY <1>1 DEF Phase, Up, Authority, Permitted, files
  <2>2. Physical' = Physical /\ Confirmed' = (Physical = {})
    BY <1>1 DEF Physical, Confirmed
  <2>3. Promise!Die
    BY <2>1, <2>2 DEF Promise!Die, Authority, Confirmed
  <2> QED
    BY <2>3 DEF PromiseStep, Promise!Next
<1> QED
  BY <1>5, <1>6 DEF Good

\* A lease expires; nobody has noticed yet.
LEMMA ExpireGood ==
    ASSUME IInv, Expire
    PROVE  Good
<1>1. /\ gate.lease # NoLease /\ gate' = [gate EXCEPT !.expired = TRUE]
      /\ UNCHANGED <<state, books, issued, thread, others>>
  BY DEF Expire
<1>2. TypeOK /\ gate \in GateState /\ state \in States /\ Up
  BY <1>1 DEF IInv, TypeOK, AtRest
<1>3. /\ gate' \in GateState /\ gate'.lease = gate.lease
      /\ gate'.held = gate.held /\ gate'.unconfirmed = gate.unconfirmed
  BY <1>1, <1>2 DEF GateState
<1>4. TypeOK'
  BY <1>1, <1>2, <1>3 DEF TypeOK, books, thread, others, main, files
<1>5. UNCHANGED <<state, live, section, stuck, wd, flagged, sig, pause, emergency>> /\ Up'
  BY <1>1, <1>2 DEF books, thread, others, main, files, Up
<1>6. IInv'
  BY <1>3, <1>4, <1>5 DEF IInv, Backed, Placed, Adopted, AtRest, Deciding, Up
<1>7. PromiseStep
  BY <1>2, <1>3, <1>5, QuietStep
<1> QED
  BY <1>6, <1>7 DEF Good

-----------------------------------------------------------------------------
(***************************************************************************)
(* Every step keeps the invariant and the promise.                         *)
(***************************************************************************)
LEMMA StepGood ==
    ASSUME IInv, [Next]_vars
    PROVE  Good
<1>1. CASE Command
  <2>1. CASE CalibrateStart \/ ProbeStart
    BY <2>1, CameraStartGood DEF CalibrateStart, ProbeStart
  <2>2. CASE PauseBegin \/ StopBegin
    BY <2>2, BeginGood DEF PauseBegin, StopBegin
  <2> QED
    BY <1>1, <2>1, <2>2, ArmGood, ActivateGood, RenewGood, ReleaseInputsGood,
       DisarmCommandGood, FaultCommandGood, AttachGood, MotorCheckGood, ChatStartGood,
       ResumeGood, ResumeForAgentReloadGood
       DEF Command
<1>2. CASE InSection \/ CalibrateRenew
  BY <1>2, MotorMalformedGood, MotorApplyGood, ChatSweepGood, ChatRestoreGood,
     ChatRenewGood, ChatFaultGood, CameraMoveGood, CameraSettleGood, CameraFaultGood,
     CalibratePublishGood, CalibrateRenewGood
     DEF InSection
<1>3. CASE InTransaction
  BY <1>3, TxnPauseGood, TxnStopAgentGood, TxnStopGood DEF InTransaction
<1>4. CASE MainLoop
  BY <1>4, WatchdogTopGood, WatchdogExpiryGood, WatchdogDecideGood, WatchdogActGood,
     WatchdogStopGood, CloseGood, DiesGood
     DEF MainLoop, Exit
<1>5. CASE Handler
  BY <1>5, HandlerFailGood, HandlerStopGood DEF Handler
<1>6. CASE Environment
  BY <1>6, StartGood, DiesGood, ExpireGood, SignalGood, LatchGood, ClearGood
     DEF Environment, Kill
<1>7. CASE UNCHANGED vars
  <2>1. UNCHANGED <<core, live, section, stuck, main, pause, emergency>>
    BY <1>7 DEF vars, core, main
  <2>2. TypeOK'
    BY <1>7 DEF IInv, TypeOK, vars
  <2>3. Permitted' = Permitted /\ (Up <=> Up')
    BY <2>1 DEF Permitted, Up, main
  <2> QED
    BY <2>1, <2>2, <2>3, AsideKeeps, AsideStep DEF Good
<1> QED
  BY <1>1, <1>2, <1>3, <1>4, <1>5, <1>6, <1>7 DEF Next

(***************************************************************************)
(* The inductive invariant holds in every reachable state.                 *)
(***************************************************************************)
THEOREM Invariance == Spec => []IInv
<1>1. IInv /\ [Next]_vars => IInv'
  BY StepGood DEF Good
<1> QED
  BY <1>1, IInvInit, PTL DEF Spec

(***************************************************************************)
(* LeaseState: types, and a capability exists only while the supervisor is *)
(* ARMED or RUNNING, or while a camera command owns _lock in SAFE_IDLE.    *)
(***************************************************************************)
THEOREM SupervisorSafety == Spec => []LeaseState
<1>1. IInv => LeaseState
  BY DEF IInv, Backed, LeaseState
<1> QED
  BY <1>1, Invariance, PTL

(***************************************************************************)
(* OriginPublishedInTheClear: finish of calibrate_world_camera publishes   *)
(* the origin under no latch, and after the one-use lease has gone.        *)
(***************************************************************************)
THEOREM OriginSafety == Spec => OriginPublishedInTheClear
<1>1. ASSUME IInv, Next
      PROVE  origin' /\ ~origin => Permitted /\ gate.lease = NoLease
  <2>1. CASE CalibratePublish
    BY <1>1, <2>1 DEF CalibratePublish, IInv, Placed
  <2>2. CASE Command
    BY <2>2
       DEF Command, Arm, Activate, Renew, ReleaseInputs, DisarmCommand, FaultCommand, Attach,
           MotorCheck, ChatStart, CalibrateStart, ProbeStart, CameraStart, PauseBegin,
           StopBegin, Begin, Resume, ResumeForAgentReload, books
  <2>3. CASE (InSection /\ ~CalibratePublish) \/ CalibrateRenew
    BY <2>3
       DEF InSection, MotorMalformed, MotorApply, ChatSweep, ChatRestore, ChatRenew, ChatFault,
           CameraMove, CameraSettle, CameraFault, CalibrateRenew, books
  <2>4. CASE InTransaction \/ MainLoop \/ Handler \/ Environment
    BY <2>4
       DEF InTransaction, TxnPause, TxnStopAgent, TxnStop, MainLoop, WatchdogTop,
           WatchdogExpiry, WatchdogDecide, WatchdogAct, WatchdogStop, Close, Exit, Dies,
           Handler, HandlerFail, HandlerStop, Environment, Start, Kill, Expire, Signal,
           LatchPause, LatchEmergency, ClearPause, ResetEmergency, AgentStarts, AgentEnds,
           Outside, books
  <2> QED
    BY <1>1, <2>1, <2>2, <2>3, <2>4 DEF Next
<1>2. IInv /\ [Next]_vars => [origin' /\ ~origin => Permitted /\ gate.lease = NoLease]_vars
  BY <1>1
<1> QED
  BY <1>2, Invariance, PTL DEF Spec, OriginPublishedInTheClear

(***************************************************************************)
(* StoppedIsForGood, when no signal interrupts the main thread inside its  *)
(* own critical section: a STOPPED supervisor only starts again in a new   *)
(* generation.  With such a signal it does not hold.                       *)
(***************************************************************************)
THEOREM StoppedStays == ASSUME ~SignalInside PROVE Spec => StoppedIsForGood
<1>1. ASSUME IInv, [Next]_vars, state = "STOPPED", wd # "dead"
      PROVE  state' = "STOPPED"
  <2>1. IInv' /\ PromiseStep
    BY <1>1, StepGood DEF Good
  <2>2. Phase = "stopped" /\ state \in States /\ state' \in States
    BY <1>1, <2>1, PhaseOfState DEF IInv, TypeOK, Up
  <2>3. Phase' \in {"stopped", "off"}
    BY <2>1, <2>2
       DEF PromiseStep, Promise!Next, Promise!vars, Promise!Boot, Promise!Withdraw,
           Promise!Permit, Promise!Grant, Promise!Use, Promise!Revoke, Promise!Die,
           Promise!Revive
  <2>4. CASE ~Up'
    BY <2>1, <2>4 DEF IInv, AtRest
  <2>5. CASE Up'
    BY <2>2, <2>3, <2>5, PhaseOfNextState
  <2> QED
    BY <2>4, <2>5
<1>2. IInv /\ [Next]_vars =>
         [state = "STOPPED" => state' = "STOPPED" \/ wd = "dead"]_vars
  BY <1>1
<1> QED
  BY <1>2, Invariance, PTL DEF Spec, StoppedIsForGood

(***************************************************************************)
(* KeepsPromise: the supervisor implements InputAuthority.  Input reaches  *)
(* the game only under an authority the operator's files permitted, and    *)
(* its end releases the input or is known not to have done so.             *)
(***************************************************************************)
THEOREM PromiseKept == Spec => KeepsPromise
<1>1. Init => Promise!Init
  <2> SUFFICES ASSUME Init PROVE Promise!Init
    OBVIOUS
  <2>1. Phase = "off"
    BY DEF Init, Phase, Up
  <2>2. Permitted \in BOOLEAN /\ Authority = FALSE /\ Physical = {} /\ Confirmed = TRUE
    BY DEF Init, Permitted, Authority, Physical, Confirmed
  <2> QED
    BY <2>1, <2>2 DEF Promise!Init, Authority, Confirmed
<1>2. IInv /\ [Next]_vars => [Promise!Next]_Promise!vars
  BY StepGood DEF Good, PromiseStep
<1> QED
  BY <1>1, <1>2, Invariance, PTL DEF Spec, KeepsPromise, Promise!Spec

=============================================================================

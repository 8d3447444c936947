----------------------------- MODULE GateClients ----------------------------
(***************************************************************************)
(* Concurrent callers of one MotorGate.  The command threads of the        *)
(* supervisor, its watchdog and stale clients that still remember an old   *)
(* lease id call the methods of the gate in any order; each call is one    *)
(* step because it holds the gate's RLock.  Time is the step Expire: the   *)
(* deadline of the published lease passes at a moment nobody controls.     *)
(***************************************************************************)
EXTENDS MotorGate

CONSTANTS MaxLeases,   \* how many leases a behaviour issues
          Actions      \* the motor actions clients send

ASSUME GateClientsAssumption ==
    /\ MaxLeases \in Nat
    /\ Actions \subseteq MotorAction

VARIABLES gate,      \* the gate and its backend
          issued,    \* lease ids handed out so far are 1 .. issued
          accepted   \* history: accepted[id][seq] times an action was accepted

vars == <<gate, issued, accepted>>

LeaseId   == 1 .. MaxLeases
KnownId   == 0 .. issued            \* ids a client can present, 0 is a wrong one
NoneYet   == [id \in LeaseId |-> [s \in 0 .. MaxSeq |-> 0]]

Init ==
    /\ gate = NewGate
    /\ issued = 0
    /\ accepted = NoneYet

(***************************************************************************)
(* The methods of the gate.                                                *)
(***************************************************************************)
Issue ==
    /\ issued < MaxLeases
    /\ issued' = issued + 1
    /\ \E kinds \in {Kinds, {"mouse"}}, first \in 0 .. MaxSeq :
          \E r \in Issues(gate, issued + 1, kinds, first) : gate' = r.gate
    /\ UNCHANGED accepted

Renew ==
    /\ \E id \in KnownId : \E r \in Renews(gate, id) : gate' = r.gate
    /\ UNCHANGED <<issued, accepted>>

\* An accepted action is what moves _last_sequence, so the history counts it there.
Apply ==
    /\ \E id \in KnownId, a \in Actions, refresh, permitted \in BOOLEAN :
          \E r \in Applies(gate, id, a, refresh, permitted) :
             /\ gate' = r.gate
             /\ accepted' = IF r.out = "ok"
                            THEN [accepted EXCEPT ![id][a.seq] = @ + 1]
                            ELSE accepted
    /\ UNCHANGED issued

ReleaseInputs ==
    /\ \E id \in KnownId, refresh \in BOOLEAN :
          \E r \in Releases(gate, id, refresh) : gate' = r.gate
    /\ UNCHANGED <<issued, accepted>>

CheckExpiry ==
    /\ ExpiryDue(gate)
    /\ \E r \in Revokes(gate) : gate' = r.gate
    /\ UNCHANGED <<issued, accepted>>

Revoke ==
    /\ \E r \in Revokes(gate) : gate' = r.gate
    /\ UNCHANGED <<issued, accepted>>

Expire ==
    /\ gate.lease # NoLease
    /\ gate' = [gate EXCEPT !.expired = TRUE]
    /\ UNCHANGED <<issued, accepted>>

Next ==
    \/ Issue
    \/ Renew
    \/ Apply
    \/ ReleaseInputs
    \/ CheckExpiry
    \/ Revoke
    \/ Expire

Spec == Init /\ [][Next]_vars

-----------------------------------------------------------------------------
TypeOK ==
    /\ gate \in GateState
    /\ issued \in 0 .. MaxLeases
    /\ accepted \in [LeaseId -> [0 .. MaxSeq -> Nat]]

(***************************************************************************)
(* Input is pressed only while some client holds the capability that       *)
(* pressed it.  The one exception is a backend whose release sweep raised: *)
(* safety.py says that this proves nothing about the keys.                 *)
(***************************************************************************)
HeldNeedsLease ==
    gate.held # {} => gate.lease # NoLease \/ gate.unconfirmed

(***************************************************************************)
(* No capability is ever out on a backend whose last release sweep failed, *)
(* and everything pressed under it is of a kind the lease admits: issue    *)
(* starts from a confirmed neutral backend.                                *)
(***************************************************************************)
LeaseStartsNeutral ==
    gate.lease # NoLease =>
        /\ ~gate.unconfirmed
        /\ "keyboard" \notin gate.allowed => gate.held \cap Keys = {}
        /\ "button" \notin gate.allowed => gate.held \cap Buttons = {}

\* The backend never enforces a different lease from the one the gate published.
BackendAgrees ==
    gate.lease # NoLease => gate.bound = gate.lease /\ gate.reason = "active"

(***************************************************************************)
(* Taken together: whatever clients and backend failures interleave, what  *)
(* is pressed, which lease is live and what the backend enforces agree.    *)
(***************************************************************************)
GateAgrees == HeldNeedsLease /\ LeaseStartsNeutral /\ BackendAgrees

\* No action sequence number is ever accepted twice under one lease.
NoReplay == \A id \in LeaseId, s \in 0 .. MaxSeq : accepted[id][s] <= 1

(***************************************************************************)
(* Authority never comes back: a lease id that was revoked, or whose       *)
(* deadline passed before the call that would refresh it, is dead.         *)
(***************************************************************************)
NoRevival ==
    [][gate'.lease # NoLease =>
          \/ gate'.lease = issued + 1
          \/ gate'.lease = gate.lease /\ (gate.expired => gate'.expired)]_vars

=============================================================================

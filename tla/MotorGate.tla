----------------------------- MODULE MotorGate -----------------------------
(***************************************************************************)
(* The capability gate between the runtime and the input backend           *)
(* (class MotorGate of safety.py).  Every public method of the class runs  *)
(* under the gate's own RLock, so one call is one indivisible change of    *)
(* the gate and of the backend it drives.  This module gives each method   *)
(* as an operator that maps a gate state to the SET OF RESULTS the call    *)
(* can have: [gate |-> the state it leaves, out |-> how it returned].      *)
(* A backend call that raises is one of the alternatives of that set.      *)
(*                                                                         *)
(* The gate and the backend are one record:                                *)
(*   lease       the published capability (NoLease: none)                  *)
(*   expired     the deadline of the published lease has passed            *)
(*   allowed     the action kinds the published lease admits               *)
(*   last        _last_sequence                                            *)
(*   reason      _revocation_reason, up to who wrote it                    *)
(*   bound       the lease the backend itself holds (bind_lease)           *)
(*   held        the keys and buttons physically pressed                   *)
(*   unconfirmed the latest release sweep of the backend raised, so the    *)
(*               backend may still hold input nobody will release          *)
(***************************************************************************)
EXTENDS Integers, FiniteSets

CONSTANTS Keys,      \* keyboard tokens the backend can press
          Buttons,   \* mouse buttons the backend can press
          MaxSeq     \* largest action sequence number a client sends

ASSUME MotorGateAssumption ==
    /\ IsFiniteSet(Keys)
    /\ IsFiniteSet(Buttons)
    /\ Keys \cap Buttons = {}
    /\ MaxSeq \in Nat

NoLease == 0
Tokens  == Keys \cup Buttons
Kinds   == {"keyboard", "button", "mouse"}

(***************************************************************************)
(* MotorAction: the tokens pressed and released, whether the pointer moves *)
(* and whether the duration exceeds the limit of the lease.                *)
(***************************************************************************)
MotorAction == [seq   : 0 .. MaxSeq,
                down  : SUBSET Tokens,
                up    : SUBSET Tokens,
                mouse : BOOLEAN,
                long  : BOOLEAN]

ActionKinds(a) ==
    {k \in Kinds :
        \/ k = "keyboard" /\ (a.down \cup a.up) \cap Keys # {}
        \/ k = "button"   /\ (a.down \cup a.up) \cap Buttons # {}
        \/ k = "mouse"    /\ a.mouse}

\* Input that can move the avatar, as opposed to a release.
Positive(a) == a.down # {} \/ a.mouse

GateState == [lease : Nat, expired : BOOLEAN, allowed : SUBSET Kinds,
              last : Int, reason : {"not-issued", "active", "revoked"},
              bound : Nat, held : SUBSET Tokens, unconfirmed : BOOLEAN]

\* A gate over a backend that has not been driven yet.
NewGate == [lease |-> NoLease, expired |-> FALSE, allowed |-> {}, last |-> -1,
            reason |-> "not-issued", bound |-> NoLease, held |-> {},
            unconfirmed |-> FALSE]

-----------------------------------------------------------------------------
(***************************************************************************)
(* _revoke_locked: the lease goes first, then release_all, then            *)
(* clear_lease whatever release_all did.  A sweep that raises leaves any   *)
(* part of the input pressed; a clear that raises leaves the binding.      *)
(***************************************************************************)
RevokeOutcome(g) ==
    {o \in [swept : BOOLEAN, left : SUBSET g.held, bound : {NoLease, g.bound}] :
        o.swept => o.left = {}}

\* Slip: without a lease there is nothing to release.
RevokesLeasedOnly(g) ==
    {[gate |-> IF g.lease = NoLease THEN g
               ELSE [g EXCEPT !.lease = NoLease, !.expired = FALSE, !.allowed = {},
                              !.reason = "revoked", !.bound = o.bound,
                              !.held = o.left, !.unconfirmed = ~o.swept],
      out  |-> IF o.swept /\ o.bound = NoLease THEN "ok" ELSE "raised"]
        : o \in RevokeOutcome(g)}

Revokes(g) ==
    {[gate |-> [g EXCEPT !.lease = NoLease, !.expired = FALSE, !.allowed = {},
                         !.reason = "revoked", !.bound = o.bound,
                         !.held = o.left, !.unconfirmed = ~o.swept],
      out  |-> IF o.swept /\ o.bound = NoLease THEN "ok" ELSE "raised"]
        : o \in RevokeOutcome(g)}

(***************************************************************************)
(* _revoke_after_failure_locked, and every rejecting branch: the gate is   *)
(* revoked and the call raises, whether or not the cleanup raised too.     *)
(***************************************************************************)
Rejects(g, out) ==
    {[gate |-> r.gate, out |-> out] : r \in Revokes(g)}

\* The lease authorises a caller that presents this id.
Holds(g, id) == g.lease # NoLease /\ g.lease = id

(***************************************************************************)
(* Publishing a lease the backend has just accepted (the end of issue and  *)
(* renew, and the refresh that follows an accepted action or release).     *)
(***************************************************************************)
Published(g, id) ==
    [g EXCEPT !.lease = id, !.bound = id, !.expired = FALSE, !.reason = "active"]

\* bind_lease either accepts, and h is published under id, or raises.
BindsAs(g, h, id) ==
    {[gate |-> Published(h, id), out |-> "ok"]}
        \cup Rejects([g EXCEPT !.bound = id], "raised")

Binds(g, id) == BindsAs(g, g, id)

(***************************************************************************)
(* issue: revoke whatever is out, then bind and publish a fresh lease.     *)
(* A revocation that raises ends the call with no lease.                   *)
(***************************************************************************)
\* Slip: a revocation that raised is taken for a successful one.
IssuesUnconfirmed(g, id, kinds, first) ==
    UNION {BindsAs(r.gate, [r.gate EXCEPT !.allowed = kinds, !.last = first - 1], id)
              : r \in Revokes(g)}

Issues(g, id, kinds, first) ==
    LET Granted(h) == [h EXCEPT !.allowed = kinds, !.last = first - 1]
    IN  UNION {IF r.out = "ok" THEN BindsAs(r.gate, Granted(r.gate), id) ELSE {r}
                  : r \in Revokes(g)}

\* Slip: the deadline is not looked at before the lease is extended.
RenewsExpired(g, id) ==
    IF ~Holds(g, id) THEN Rejects(g, "raised") ELSE Binds(g, id)

\* renew: a wrong id or an expired lease revokes; otherwise rebind in place.
Renews(g, id) ==
    IF ~Holds(g, id) \/ g.expired THEN Rejects(g, "raised") ELSE Binds(g, id)

(***************************************************************************)
(* apply.  The guards in the order of the code, each revoking when it      *)
(* fails; then the backend, which may raise after emitting part of the     *)
(* action (out "route" is InputRouteUnavailable, which the supervisor      *)
(* treats apart).  permitted is the interlock the live backend reads       *)
(* before each positive input; when it is clear nothing is pressed.        *)
(* refresh: accepted_action_ttl_ms was given.                              *)
(***************************************************************************)
Admissible(g, id, a) ==
    /\ Holds(g, id)
    /\ ~g.expired
    /\ a.seq > g.last
    /\ ~a.long
    /\ ActionKinds(a) \subseteq g.allowed

\* Slip: the sequence number of an accepted action is forgotten.
EmittedUnnumbered(g, a) ==
    [g EXCEPT !.held = (g.held \cup a.down) \ a.up]

Emitted(g, a) ==
    [g EXCEPT !.held = (g.held \cup a.down) \ a.up, !.last = a.seq]

BackendFaults(g, a, permitted) ==
    LET touched == [g EXCEPT !.held = IF permitted THEN @ \cup a.down ELSE @]
    IN  Rejects(touched, "raised") \cup Rejects(touched, "route")

Applies(g, id, a, refresh, permitted) ==
    IF ~Admissible(g, id, a) THEN Rejects(g, "raised")
    ELSE BackendFaults(g, a, permitted)
         \cup (IF Positive(a) /\ ~permitted THEN {}
               ELSE IF refresh THEN Binds(Emitted(g, a), id)
               ELSE {[gate |-> Emitted(g, a), out |-> "ok"]})

\* release_inputs: a confirmed release may refresh the lease, a failed one revokes it.
Releases(g, id, refresh) ==
    LET swept == [g EXCEPT !.held = {}, !.unconfirmed = FALSE]
    IN  IF ~Holds(g, id) \/ g.expired THEN Rejects(g, "raised")
        ELSE Rejects(g, "raised")
             \cup (IF refresh THEN Binds(swept, id)
                   ELSE {[gate |-> swept, out |-> "ok"]})

\* check_expiry, when it finds the published lease expired.
ExpiryDue(g) == g.lease # NoLease /\ g.expired

=============================================================================

--------------------------- MODULE InputAuthority ---------------------------
(***************************************************************************)
(* What the supervisor promises its operator, and docs/SAFETY.md asks of   *)
(* it: input reaches the game only under an authority, which needs the     *)
(* operator's permission to be granted, which a fault ends for the life of *)
(* the generation, and whose end releases the input or is known not to     *)
(* have done so.  Nothing here says how: no lease, no lock, no watchdog.   *)
(***************************************************************************)
CONSTANTS
    Inputs,      \* everything that can be pressed
    Reentrant    \* a signal may run inside the decision it interrupts

VARIABLES
    permission,   \* no stop, pause or emergency is on file
    phase,        \* "off", "serving", "faulted" or "stopped"
    authority,    \* somebody may press input
    pressed,      \* what is pressed in the game
    confirmed     \* the last release is known to have worked

vars == <<permission, phase, authority, pressed, confirmed>>

Init ==
    /\ permission \in BOOLEAN
    /\ phase = "off"
    /\ authority = FALSE
    /\ pressed = {}
    /\ confirmed = TRUE

Boot ==
    /\ phase = "off" /\ phase' = "serving"
    /\ UNCHANGED <<permission, authority, pressed, confirmed>>

\* Permission can be withdrawn at any moment, and comes back only to a
\* supervisor without authority, which may have to retire for it.
Withdraw ==
    /\ permission' = FALSE
    /\ UNCHANGED <<phase, authority, pressed, confirmed>>

Released ==
    \/ pressed' = {} /\ confirmed' = TRUE
    \/ pressed' \subseteq pressed /\ confirmed' = FALSE

Permit ==
    /\ ~authority
    /\ phase' \in {phase, "stopped"}
    /\ permission' \in BOOLEAN
    /\ UNCHANGED authority
    /\ IF phase' = phase THEN UNCHANGED <<pressed, confirmed>> ELSE Released

\* Authority is granted over neutral input.
Grant ==
    /\ permission /\ ~authority /\ phase = "serving"
    /\ authority' = TRUE
    /\ pressed' = {} /\ confirmed' = TRUE
    /\ UNCHANGED <<permission, phase>>

\* Nothing new is pressed without permission, even under an authority.
Use ==
    /\ authority /\ phase = "serving"
    /\ pressed' \subseteq Inputs
    /\ permission \/ pressed' \subseteq pressed
    /\ confirmed' \in BOOLEAN
    /\ UNCHANGED <<permission, phase, authority>>

\* An end of authority, or a release without one: a revocation.
Revoke ==
    /\ authority' = FALSE
    /\ \/ Released
       \/ pressed' \subseteq Inputs /\ permission /\ authority /\ confirmed' = FALSE
    /\ phase' \in {phase, "stopped"} \cup
                  (IF phase = "serving" THEN {"faulted"} ELSE {})
    /\ phase = "off" => phase' = "off"
    /\ UNCHANGED permission

\* The process dies: what is pressed stays pressed.
Die ==
    /\ phase' = "off" /\ authority' = FALSE
    /\ confirmed' = (pressed = {})
    /\ UNCHANGED <<permission, pressed>>

\* The caveat: what such a signal stopped, the interrupted decision brings
\* back, without authority, releasing once more if it was a fault.
Revive ==
    /\ Reentrant /\ phase = "stopped" /\ ~authority
    /\ phase' \in {"serving", "faulted"}
    /\ Released \/ UNCHANGED <<pressed, confirmed>>
    /\ UNCHANGED <<permission, authority>>

Next == Boot \/ Withdraw \/ Permit \/ Grant \/ Use \/ Revoke \/ Die \/ Revive

Spec == Init /\ [][Next]_vars
=============================================================================

-------------------------- MODULE MC_OperatorControl --------------------------
(***************************************************************************)
(* Three commands, or two and one fault, where the service is not          *)
(* installed; beside the service, which runs its own commands for ever,    *)
(* two.  The counters start where the bound leaves that much.              *)
(***************************************************************************)
EXTENDS OperatorControl

MCInit ==
    /\ Init
    /\ \/ service = "none" /\ begun = 0 /\ faults = MaxFaults
       \/ service = "none" /\ begun = 1 /\ faults = 0
       \/ service # "none" /\ begun = 1 /\ faults = MaxFaults

MCSpec == MCInit /\ [][Next]_vars /\ \A p \in Clients : WF_vars(Step(p))
=============================================================================

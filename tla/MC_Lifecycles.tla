---------------------------- MODULE MC_Lifecycles ----------------------------
(***************************************************************************)
(* Five parts that share nothing, each checked on its own: the agent       *)
(* process, the stack of services around it, the way through the menus,    *)
(* the pictures that are acted on, and the messages of the operator.  A    *)
(* behaviour picks one and runs its specification; the others rest in an   *)
(* initial state.  The agent's callers take the intent lock for every      *)
(* operation, or for none of those that may do without it: what they can   *)
(* do with a lock for some of them they can also do without.               *)
(***************************************************************************)
EXTENDS AgentLifecycle, StackLifecycle, MenuNavigator, FrameCapture,
        MC_OperatorInbox, TLC

VARIABLE part

MCPids    == {11, 12}
MCBoth    == {"stop", "probe"}
MCCallers == Permutations(Callers)

\* A service of each kind, in the order in which the shipped plan starts them.
MCPlan == <<"gate", "dashboard", "bedrock">>
MCMode == [s \in {"gate", "dashboard", "bedrock"} |->
             CASE s = "gate" -> "external" [] s = "dashboard" -> "daemon" [] s = "bedrock" -> "oneshot"]

LifecyclesInit ==
    /\ part \in {"agent", "stack", "menu", "capture", "inbox"}
    /\ Init /\ StackInit /\ MenuInit /\ CaptureInit /\ InboxInit
    /\ unlocked \in IF part = "agent" THEN {{}, Unlocked} ELSE {{}}

InAgent ==
    /\ part = "agent"
    /\ UNCHANGED <<part, stackVars, menuVars, captureVars, inboxVars>>
InStack ==
    /\ part = "stack"
    /\ UNCHANGED <<part, vars, menuVars, captureVars, inboxVars>>
InMenu ==
    /\ part = "menu"
    /\ UNCHANGED <<part, vars, stackVars, captureVars, inboxVars>>
InCapture ==
    /\ part = "capture"
    /\ UNCHANGED <<part, vars, stackVars, menuVars, inboxVars>>
InInbox ==
    /\ part = "inbox"
    /\ UNCHANGED <<part, vars, stackVars, menuVars, captureVars>>

LifecyclesNext ==
    \/ InAgent /\ Next
    \/ InStack /\ StackNext
    \/ InMenu /\ MenuNext
    \/ InCapture /\ CaptureNext
    \/ InInbox /\ InboxNext

allVars == <<part, vars, stackVars, menuVars, captureVars, inboxVars>>

LifecyclesSpec == LifecyclesInit /\ [][LifecyclesNext]_allVars
=============================================================================

--------------------------- MODULE MC_Supervisor ---------------------------
(* Small instances of Supervisor for TLC. *)
EXTENDS Supervisor, TLC

CONSTANT w      \* one key

MCKeys    == {w}
MCButtons == {}

\* A press, a release, and a release over the duration limit.
MCActions ==
    {a \in MotorAction :
        \/ a.seq = 0 /\ a.down = {w} /\ a.up = {} /\ ~a.mouse /\ ~a.long
        \/ a.seq = 1 /\ a.down = {} /\ a.up = {w} /\ ~a.mouse}

MCPress == {a \in MCActions : a.seq = 0}

\* All but "stop", which MC_SupervisorLive.cfg has: what its transaction does to
\* the state, the handler's stop does at the same places.
MCCommands ==
    {"arm", "activate", "renew", "release", "motor", "attach", "disarm", "fault",
     "chat", "calibrate", "probe", "pause", "resume", "reload"}
=============================================================================

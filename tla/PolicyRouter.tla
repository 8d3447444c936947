----------------------------- MODULE PolicyRouter -----------------------------
(***************************************************************************)
(* GroundedPolicyRouter of policy_service.py.  It binds one body expert to *)
(* an option episode, with an observer that only looks.  Experts load      *)
(* lazily: in the motor thread when an option needs one that nobody loads, *)
(* or in a thread of their own when a plan hints at them.  The loading     *)
(* thread is the sole reader of its worker until it leaves the table       *)
(* _warming.  retire() fences every route and ends the workers, but never  *)
(* one that a thread still loads when the time is up.                      *)
(*                                                                         *)
(* Everything but the loading threads runs in the one motor thread.        *)
(* Camera state, wire sequences and target tracks are left out, and        *)
(* close(), which only offline evaluation calls.                           *)
(***************************************************************************)
EXTENDS Naturals, Sequences

CONSTANTS Policies,    \* the distinct experts
          Levels,      \* action levels of options
          BodyOf,      \* _body_for_level: the expert that acts on a level
          WatcherOf,   \* the observer of a level, or NoPolicy
          Primary,     \* the semantic expert
          NoPolicy, NoLevel

ASSUME RouterAssumption ==
    /\ Primary \in Policies /\ NoPolicy \notin Policies /\ NoLevel \notin Levels
    /\ BodyOf \in [Levels -> Policies]
    /\ WatcherOf \in [Levels -> Policies \cup {NoPolicy}]

VARIABLES
    router,   \* the fields of the router
    owner,    \* _warming: who loads an expert, "none", "thread" or "motor"
    inside,   \* experts whose loading thread is inside warmup()
    worker,   \* the expert's worker: "none", "loading", "up" or "gone"
    motor     \* where the motor thread is

routerVars == <<router, owner, inside, worker, motor>>

Tick == [at |-> "tick", level |-> NoLevel, todo |-> <<>>]

\* The startup warmup loads the primary expert unless loading is deferred.
Warmup == [Tick EXCEPT !.at = "binds", !.todo = <<Primary>>]

RouterInit ==
    /\ \E deferred \in BOOLEAN :
          /\ router = [retiring |-> FALSE, deferred |-> deferred, warmed |-> {}, failed |-> {},
                       active |-> Primary, level |-> NoLevel, watching |-> FALSE,
                       skipped |-> {}, complete |-> TRUE]
          /\ motor = IF deferred THEN Tick ELSE Warmup
    /\ owner = [p \in Policies |-> "none"] /\ inside = {}
    /\ worker = [p \in Policies |-> "none"]

-----------------------------------------------------------------------------
Needed(l) == <<BodyOf[l]>> \o (IF WatcherOf[l] = NoPolicy THEN <<>> ELSE <<WatcherOf[l]>>)
Experts(l) == {Needed(l)[i] : i \in DOMAIN Needed(l)}
Warming(p) == owner[p] # "none"

\* _begin_warm starts a load unless one succeeded, failed or is under way.
Cold(p) == p \notin router.warmed \cup router.failed /\ ~Warming(p)

\* The non-blocking form, for every expert of a level.
Hinted(l) == [p \in Policies |-> IF p \in Experts(l) /\ Cold(p) THEN "thread" ELSE owner[p]]

RequestWarm(l) ==
    /\ motor = Tick /\ ~router.retiring /\ ~router.deferred
    /\ owner' = Hinted(l)
    /\ UNCHANGED <<router, inside, worker, motor>>

-----------------------------------------------------------------------------
\* Slip: an observer that still loads does not hold up its option.
BodyUnavailable(l, o) == o[BodyOf[l]] # "none" \/ BodyOf[l] \in router.failed

(***************************************************************************)
(* act() with a new episode.  What loads or failed makes the option wait,  *)
(* released; what is cold is loaded in place.                              *)
(***************************************************************************)
Unavailable(l, o) ==
    \/ o[BodyOf[l]] # "none" \/ BodyOf[l] \in router.failed
    \/ WatcherOf[l] # NoPolicy /\ o[WatcherOf[l]] # "none"

ActNew(l) ==
    /\ motor = Tick /\ ~router.retiring
    /\ owner' = IF router.deferred THEN Hinted(l) ELSE owner
    /\ IF Unavailable(l, owner')
       THEN /\ router' = [router EXCEPT !.level = NoLevel, !.watching = FALSE]
            /\ UNCHANGED motor
       ELSE /\ motor' = [at |-> "binds", level |-> l, todo |-> Needed(l)]
            /\ UNCHANGED router
    /\ UNCHANGED <<inside, worker>>

\* _ensure_warm of the first expert in the list.  It would wait for a thread
\* that loads the expert; OneReader says that it never has to.
Ensure ==
    /\ motor.at = "binds" /\ motor.todo # <<>>
    /\ LET p == Head(motor.todo) IN
       IF p \in router.warmed \cup router.failed
       THEN motor' = [motor EXCEPT !.todo = Tail(@)] /\ UNCHANGED <<owner, worker>>
       ELSE IF Warming(p)
       THEN motor' = [motor EXCEPT !.at = "waits"] /\ UNCHANGED <<owner, worker>>
       ELSE /\ motor' = [motor EXCEPT !.at = "loads"]
            /\ owner' = [owner EXCEPT ![p] = "motor"]
            /\ worker' = [worker EXCEPT ![p] = "loading"]
    /\ UNCHANGED <<router, inside>>

\* The end of _warm_policy: the result counts unless the router retires.
Noted(p, ok) ==
    IF router.retiring THEN router
    ELSE IF ok THEN [router EXCEPT !.warmed = @ \cup {p}]
    ELSE [router EXCEPT !.failed = @ \cup {p}]

\* A body that cannot load fails the option; an observer only degrades it.
MotorLoaded ==
    /\ motor.at = "loads"
    /\ LET p == Head(motor.todo) IN
       \E ok \in BOOLEAN :
          /\ router' = Noted(p, ok)
          /\ owner' = [owner EXCEPT ![p] = "none"]
          /\ worker' = [worker EXCEPT ![p] = IF ok THEN "up" ELSE "none"]
          /\ motor' = IF ok \/ (motor.level # NoLevel /\ p # BodyOf[motor.level])
                      THEN [motor EXCEPT !.at = "binds", !.todo = Tail(@)] ELSE Tick
    /\ UNCHANGED inside

\* The rest of _bind_episode, and the grounded target if one is seen.
Bind ==
    /\ motor.at = "binds" /\ motor.todo = <<>>
    /\ motor' = Tick
    /\ IF motor.level = NoLevel THEN UNCHANGED router
       ELSE \E seen \in BOOLEAN :
               router' = [router EXCEPT !.active = BodyOf[motor.level], !.level = motor.level,
                            !.watching = /\ seen /\ WatcherOf[motor.level] # NoPolicy
                                         /\ WatcherOf[motor.level] \notin router.failed]
    /\ UNCHANGED <<owner, inside, worker>>

\* _reset_scope: every body is released, one that loads included.
ResetScope ==
    /\ motor = Tick /\ ~router.retiring
    /\ router' = [router EXCEPT !.active = Primary, !.level = NoLevel, !.watching = FALSE]
    /\ UNCHANGED <<owner, inside, worker, motor>>

-----------------------------------------------------------------------------
\* The loading thread of an expert.
ThreadLoads(p) ==
    /\ owner[p] = "thread" /\ p \notin inside
    /\ inside' = inside \cup {p}
    /\ worker' = [worker EXCEPT ![p] = "loading"]
    /\ UNCHANGED <<router, owner, motor>>

ThreadEnds(p) ==
    /\ p \in inside
    /\ \E ok \in BOOLEAN :
          /\ router' = Noted(p, ok)
          /\ worker' = [worker EXCEPT ![p] = IF ok THEN "up" ELSE "none"]
    /\ owner' = [owner EXCEPT ![p] = "none"]
    /\ inside' = inside \ {p}
    /\ UNCHANGED motor

-----------------------------------------------------------------------------
(***************************************************************************)
(* retire(): fence, wait for each loading thread until the deadline, then  *)
(* retire the others one by one.  A worker's own retirement may fail.      *)
(***************************************************************************)
RouterRetires ==
    /\ motor = Tick /\ ~router.retiring
    /\ router' = [router EXCEPT !.retiring = TRUE]
    /\ motor' = [Tick EXCEPT !.at = "fenced"]
    /\ UNCHANGED <<owner, inside, worker>>

\* Slip: when the time is up, all are retired, loading or not.
LeftAlone(late) == {}

\* The experts a late retirement does not touch.
Skipped(late) == IF late THEN {p \in Policies : Warming(p)} ELSE {}

OwnersWaited(late) ==
    /\ motor.at = "fenced"
    /\ late \/ \A p \in Policies : ~Warming(p)
    /\ router' = [router EXCEPT !.skipped = Skipped(late)]
    /\ motor' = [motor EXCEPT !.at = "retires"]
    /\ UNCHANGED <<owner, inside, worker>>

Ending(p) ==
    /\ motor.at = "retires" /\ p \notin router.skipped /\ worker[p] # "gone"
    /\ worker' = [worker EXCEPT ![p] = "gone"]
    /\ UNCHANGED <<router, owner, inside, motor>>

\* An expert whose retirement failed is given up, and the report says so.
EndFails(p) ==
    /\ motor.at = "retires" /\ p \notin router.skipped /\ worker[p] # "gone"
    /\ router' = [router EXCEPT !.skipped = @ \cup {p}]
    /\ UNCHANGED <<owner, inside, worker, motor>>

RouterReports ==
    /\ motor.at = "retires"
    /\ \A p \in Policies : p \in router.skipped \/ worker[p] = "gone"
    /\ router' = [router EXCEPT !.complete = (router.skipped = {})]
    /\ motor' = [Tick EXCEPT !.at = "over"]
    /\ UNCHANGED <<owner, inside, worker>>

RouterNext ==
    \/ Ensure \/ MotorLoaded \/ Bind \/ ResetScope
    \/ \E l \in Levels : RequestWarm(l) \/ ActNew(l)
    \/ \E p \in Policies : ThreadLoads(p) \/ ThreadEnds(p) \/ Ending(p) \/ EndFails(p)
    \/ RouterRetires \/ RouterReports
    \/ \E late \in BOOLEAN : OwnersWaited(late)

RouterSpec == RouterInit /\ [][RouterNext]_routerVars

-----------------------------------------------------------------------------
(***************************************************************************)
(* A worker has one reader.  While a thread loads an expert, the motor     *)
(* thread neither acts with it nor observes through it nor retires it, and *)
(* binding an option never waits for such a thread                         *)
(* (policy_service.py:1450-1471, 1685-1691, 1877-1918).                    *)
(***************************************************************************)
OneReader ==
    /\ \A p \in inside : owner[p] = "thread" /\ worker[p] = "loading"
    /\ router.level # NoLevel /\ motor.at = "tick" =>
          /\ ~Warming(router.active)
          /\ router.watching => ~Warming(WatcherOf[router.level])
    /\ motor.at # "waits"

(***************************************************************************)
(* A retirement that calls itself complete has left nothing behind: no     *)
(* worker runs, and none comes up later from a load that was under way     *)
(* (policy_service.py:1685-1749, 1883-1884, 1939-1952).                    *)
(***************************************************************************)
CompleteMeansGone ==
    motor.at = "over" /\ router.complete =>
       inside = {} /\ \A p \in Policies : worker[p] = "gone" /\ ~Warming(p)

\* Both: loading threads, the motor thread and a retirement never meet in a worker.
RouterSound == OneReader /\ CompleteMeansGone
=============================================================================

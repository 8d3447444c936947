---------------------------- MODULE MenuNavigator ----------------------------
(***************************************************************************)
(* The way through the menus into the world: operator/menu.py:471-546 and  *)
(* 626-1080, as `minecraft-ai bedrock navigate` of cli.py runs it.         *)
(*                                                                         *)
(* The navigator looks, clicks what the recognised screen offers, and      *)
(* looks again until the screen has answered.  What the game shows next is *)
(* up to the game, and what is recognised may be nothing; so an            *)
(* observation is any stage.  Every observation shows pixels taken after   *)
(* the last click.  An interlock asks whether the navigator may go on:     *)
(* others set latches, start the agent or end the session at any time,     *)
(* because the command holds the lock of the session and not that of the   *)
(* operator's intent.                                                      *)
(***************************************************************************)
EXTENDS Integers, FiniteSets

CONSTANTS
  ActionBudget,   \* the number of actions after which no further one begins
  MaxRetries      \* max_retries

ASSUME NavigatorAssumption == ActionBudget \in Nat \ {0} /\ MaxRetries \in 1 .. 5

Tabs == {"play", "play-tabs", "play-servers"}
Clickable ==
  {"startup-popup", "update-notice", "title", "play-servers", "play", "bedrock-connect",
   "trust-server", "resource-pack", "content-log", "disconnected", "connection-failed", "death"}
Stages == Clickable \cup {"away", "play-tabs", "loading", "in-world", "error", "unknown"}

Obstacles == {"latch", "agent", "session"}

VARIABLES
  navigator,    \* its place in the code
  seen,         \* the stage of its last observation
  entered,      \* the stage its transition began in
  attempts,     \* clicks of this transition
  actions,      \* what the budget has counted
  resume,       \* where a wait for loading was called from
  clock,        \* deadlines that have passed: of the response, of the whole run
  patient,      \* response_deadline = deadline
  obstacles,    \* what closes the interlock
  clicks,       \* history: buttons pressed
  trespasses    \* history: buttons pressed since the interlock closed, two for more

menuVars == <<navigator, seen, entered, attempts, actions, resume, clock, patient,
              obstacles, clicks, trespasses>>

\* Slip: an agent that was started meanwhile is not noticed.
InterlockAtStart == obstacles \ {"agent"} = {}

\* input_permitted: no latch, no agent, and the session it was started for.
Interlock == obstacles = {}

Ended == navigator \in {"in-world", "failed"}

Late == "run" \in clock
Overdue == Late \/ ("response" \in clock /\ ~patient)

Is(place) == navigator = place
GoTo(place) == navigator' = place
Fail == GoTo("failed")

-----------------------------------------------------------------------------
(* Looking *)

\* _observe: the interlock is asked before the capture and after the text was read.
Observe(stage) == Interlock /\ seen' = stage

\* It is closed: nothing further is done.
Refused ==
  /\ navigator \in {"start", "wait", "click", "answer"} /\ ~Interlock
  /\ Fail
  /\ UNCHANGED <<seen, entered, attempts, actions, resume, clock, patient, obstacles,
                 clicks, trespasses>>

\* The first observation of run().
FirstLook ==
  \E stage \in Stages :
    /\ Is("start") /\ Observe(stage)
    /\ GoTo(IF stage = "loading" THEN "wait" ELSE "choose") /\ resume' = "choose"
    /\ UNCHANGED <<entered, attempts, actions, clock, patient, obstacles, clicks, trespasses>>

\* _wait_loading: until the screen is another one, or time is up.
WaitLoading ==
  LET waiting == IF resume = "tabs" THEN "play-tabs" ELSE "loading" IN
  /\ Is("wait")
  /\ \/ /\ ~Late
        /\ \E stage \in Stages :
             /\ Observe(stage)
             /\ IF stage = waiting THEN GoTo("wait") /\ UNCHANGED resume
                ELSE /\ GoTo(IF resume = "answer" THEN "loaded" ELSE "choose")
                     /\ resume' = "choose"
     \/ Late /\ Fail /\ UNCHANGED <<seen, resume>>
  /\ UNCHANGED <<entered, attempts, actions, clock, patient, obstacles, clicks, trespasses>>

-----------------------------------------------------------------------------
(* Choosing *)

\* The head of the loop of run().  A screen that loads is no longer waited for
\* here: there is no transition for it.
Choose ==
  /\ Is("choose")
  /\ CASE seen = "in-world" -> GoTo("in-world") /\ UNCHANGED <<entered, attempts, resume>>
       [] seen # "in-world" /\ (actions >= ActionBudget \/ Late) ->
            Fail /\ UNCHANGED <<entered, attempts, resume>>
       [] seen = "play-tabs" /\ actions < ActionBudget /\ ~Late ->
            GoTo("wait") /\ resume' = "tabs" /\ UNCHANGED <<entered, attempts>>
       [] seen \in Clickable \cup {"away"} /\ actions < ActionBudget /\ ~Late ->
            GoTo("click") /\ attempts' = 0 /\ UNCHANGED resume
            /\ entered' \in IF seen = "disconnected" THEN {seen, "reconnect"} ELSE {seen}
       [] OTHER -> Fail /\ UNCHANGED <<entered, attempts, resume>>
  /\ UNCHANGED <<seen, actions, clock, patient, obstacles, clicks, trespasses>>

\* A disconnected dialog without a readable way back offers to reconnect.
SourceOf(from) == IF from = "reconnect" THEN "disconnected" ELSE from

\* What _transition_for expects of a click, and _perform_transition accepts besides.
Destination(from) ==
  CASE from \in {"update-notice", "startup-popup", "connection-failed", "disconnected"} -> {"title"}
    [] from \in {"title", "play-servers"} -> {"play"}
    [] from = "play" -> {"bedrock-connect"}
    [] OTHER -> {"in-world"}

Accepted(from) ==
  Destination(from)
    \cup (IF from \in {"bedrock-connect", "trust-server"} THEN {"resource-pack"} ELSE {})
    \cup (IF from \in {"disconnected", "reconnect", "connection-failed", "update-notice"}
          THEN Tabs ELSE {})
    \cup ({"connection-failed"} \ {from})

Attempts(from) ==
  IF from \in {"update-notice", "content-log", "connection-failed", "away"} THEN 1 ELSE MaxRetries

\* _perform_transition up to the button, with the first checks of click(): the
\* control was found on the frame, or nothing is sent; a frame that is too old,
\* another geometry or another process refuses.
Aim ==
  /\ Is("click") /\ Interlock
  /\ IF Late THEN Fail ELSE navigator' \in {"press", "failed"}
  /\ UNCHANGED <<seen, entered, attempts, actions, resume, clock, patient, obstacles,
                 clicks, trespasses>>

\* click(): the interlock is asked once more before the button goes down.
Press ==
  /\ Is("press")
  /\ \/ /\ Interlock
        /\ GoTo("sent")
     \/ Fail
  /\ UNCHANGED <<seen, entered, attempts, actions, resume, clock, patient, obstacles,
                 clicks, trespasses>>

\* The button goes down and up; the response has a deadline of its own.
Sent ==
  /\ Is("sent")
  /\ GoTo("answer") /\ attempts' = attempts + 1
  /\ clicks' = clicks + 1
  /\ trespasses' = IF obstacles = {} THEN 0 ELSE IF trespasses = 0 THEN 1 ELSE 2
  /\ clock' = clock \ {"response"} /\ patient' = FALSE
  /\ UNCHANGED <<seen, entered, actions, resume, obstacles>>

\* Slip: what the transition clicked in vain is not counted.
ArriveOnce(count) == actions' = actions + 1 /\ GoTo("choose")

Arrive(count) == actions' = actions + count /\ GoTo("choose")

\* The same screen again: looked at until the response is overdue, then clicked
\* once more if an attempt is left.
Again(form) ==
  /\ UNCHANGED actions
  /\ GoTo(IF ~Overdue \/ form THEN "answer"
          ELSE IF attempts < Attempts(entered) THEN "click" ELSE "failed")

\* One observation after a click, in _perform_transition.  A server form that is
\* still there extends the deadline, never the clicks.
Answer ==
  /\ Is("answer") /\ entered # "away"
  /\ \/ Late /\ Fail /\ UNCHANGED <<seen, actions, resume, patient>>
     \/ /\ ~Late
        /\ \E stage \in Stages, form \in BOOLEAN :
             /\ Observe(stage)
             /\ form => entered = "bedrock-connect"
             /\ patient' = (patient \/ form)
             /\ IF stage \in Accepted(entered)
                THEN Arrive(attempts) /\ UNCHANGED resume
                ELSE IF stage = "play-tabs" /\ entered \in {"title", "play-servers"}
                THEN Arrive(attempts) /\ UNCHANGED resume
                ELSE IF stage = "loading"
                THEN GoTo("wait") /\ resume' = "answer" /\ UNCHANGED actions
                ELSE IF stage = SourceOf(entered) THEN Again(form) /\ UNCHANGED resume
                ELSE /\ IF stage = "unknown" /\ (~Overdue \/ form) THEN GoTo("answer") ELSE Fail
                     /\ UNCHANGED <<actions, resume>>
  /\ UNCHANGED <<entered, attempts, clock, obstacles, clicks, trespasses>>

\* The screen that follows the loading after a click.
Loaded ==
  /\ Is("loaded")
  /\ \E form \in BOOLEAN :
       /\ form => entered = "bedrock-connect" /\ seen = "unknown"
       /\ patient' = (patient \/ form)
       /\ IF seen \in Accepted(entered) THEN Arrive(attempts)
          ELSE /\ UNCHANGED actions
               /\ IF entered \in {"bedrock-connect", "trust-server"} /\ seen = "unknown"
                     /\ (form \/ ~Overdue)
                  THEN GoTo("answer") ELSE Fail
  /\ UNCHANGED <<seen, entered, attempts, resume, clock, obstacles, clicks, trespasses>>

\* _wake_away: one click, and only the world answers it.
AwayAnswer ==
  /\ Is("answer") /\ entered = "away"
  /\ \/ Overdue /\ Fail /\ UNCHANGED <<seen, actions>>
     \/ /\ ~Overdue
        /\ \E stage \in Stages :
             /\ Observe(stage)
             /\ CASE stage = "in-world" -> Arrive(1)
                  [] stage \in {"away", "unknown"} -> GoTo("answer") /\ UNCHANGED actions
                  [] OTHER -> Fail /\ UNCHANGED actions
  /\ UNCHANGED <<entered, attempts, resume, clock, patient, obstacles, clicks, trespasses>>

-----------------------------------------------------------------------------
TimeGoesOn ==
  /\ ~Ended
  /\ clock' \in {clock \cup {"response"}, clock \cup {"run"}} /\ clock' # clock
  /\ UNCHANGED <<navigator, seen, entered, attempts, actions, resume, patient, obstacles,
                 clicks, trespasses>>

Interfere ==
  \E obstacle \in Obstacles :
    /\ ~Ended
    /\ obstacles' \in {obstacles \cup {obstacle}, obstacles \ {obstacle}}
    /\ obstacles' # obstacles
    /\ trespasses' = IF obstacles' = {} THEN 0 ELSE trespasses
    /\ UNCHANGED <<navigator, seen, entered, attempts, actions, resume, clock, patient, clicks>>

MenuInit ==
  /\ navigator = "start" /\ seen = "unknown" /\ entered = "unknown"
  /\ attempts = 0 /\ actions = 0 /\ resume = "choose"
  /\ clock = {} /\ patient = FALSE /\ obstacles = {}
  /\ clicks = 0 /\ trespasses = 0

MenuNext ==
  \/ FirstLook \/ WaitLoading \/ Choose \/ Aim \/ Press \/ Sent \/ Answer \/ Loaded \/ AwayAnswer
  \/ Refused \/ TimeGoesOn \/ Interfere

MenuSpec == MenuInit /\ [][MenuNext]_menuVars

-----------------------------------------------------------------------------
(* Properties *)

MenuTypeOK ==
  /\ seen \in Stages /\ entered \in Stages \cup {"reconnect"}
  /\ attempts \in 0 .. MaxRetries /\ obstacles \subseteq Obstacles
  /\ clock \subseteq {"response", "run"}

\* However the screens go round, the last transition may only begin under the
\* budget, and what it clicks in vain counts.
ClicksBounded == clicks <= ActionBudget - 1 + MaxRetries

\* A latch, an agent or the end of the session stops the clicks, except for one
\* that had asked before.
OneTrespass == trespasses <= 1

MenuSound == MenuTypeOK /\ ClicksBounded /\ OneTrespass
=============================================================================

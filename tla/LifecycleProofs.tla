---------------------------- MODULE LifecycleProofs ----------------------------
(***************************************************************************)
(* Proofs about the parts around the agent: the way through the menus, the *)
(* pictures that are acted on, the operator's messages, the agent process  *)
(* and the stack of services; for every budget, every number of callers,   *)
(* agents, messages and operations.                                        *)
(***************************************************************************)
EXTENDS AgentLifecycle, StackLifecycle, MenuNavigator, FrameCapture, OperatorInbox, WellFoundedInduction, TLAPS

(***************************************************************************)
(* The way through the menus.                                              *)
(***************************************************************************)
MenuTyped ==
  /\ navigator \in {"start", "wait", "choose", "click", "press", "sent", "answer", "loaded",
                    "in-world", "failed"}
  /\ seen \in Stages /\ entered \in Stages \cup {"reconnect"}
  /\ attempts \in Nat /\ actions \in Nat /\ clicks \in Nat /\ trespasses \in Nat
  /\ resume \in {"choose", "tabs", "answer"}
  /\ clock \subseteq {"response", "run"} /\ patient \in BOOLEAN /\ obstacles \subseteq Obstacles

\* A transition is under way: it began, and its clicks are not yet counted.
InTransition ==
  \/ navigator \in {"click", "press", "sent", "answer", "loaded"}
  \/ navigator = "wait" /\ resume = "answer"

\* Between transitions the budget has counted every click; a transition begins
\* under the budget and has its own attempts.
Budgeted ==
  /\ InTransition => /\ actions <= ActionBudget - 1 /\ clicks <= actions + attempts
                     /\ attempts <= Attempts(entered)
  /\ navigator \in {"click", "press", "sent"} => attempts < Attempts(entered)
  /\ ~InTransition /\ ~Ended => clicks <= actions
  /\ attempts <= MaxRetries

\* While the interlock is open nothing counts, and the button that goes down
\* found it open.
OpenIsClean ==
  /\ obstacles = {} => trespasses = 0
  /\ navigator = "sent" => trespasses = 0

MenuIInv == MenuTyped /\ Budgeted /\ OpenIsClean /\ ClicksBounded /\ OneTrespass

\* Every transition has at least one attempt, and at most the allowed retries.
LEMMA AttemptsBounded == \A from : Attempts(from) \in 1 .. MaxRetries /\ Attempts("away") = 1
BY NavigatorAssumption DEF Attempts

\* Nothing is clicked and nothing counted in such a step.
LEMMA StillMenu ==
  ASSUME MenuIInv, MenuTyped', UNCHANGED <<entered, attempts, actions, clicks, obstacles, trespasses>>,
         navigator' # "sent", ~Ended,
         \/ Ended'
         \/ ~InTransition /\ ~InTransition'
         \/ InTransition /\ InTransition' /\ navigator' \in {"answer", "loaded", "wait"}
         \/ navigator \in {"click", "press"} /\ navigator' \in {"click", "press"}
  PROVE  MenuIInv'
BY DEF MenuIInv, Budgeted, OpenIsClean, ClicksBounded, OneTrespass, InTransition, Ended

\* A transition that arrives has its clicks counted.
LEMMA ArrivesCounted ==
  ASSUME MenuIInv, MenuTyped', InTransition, NEW count \in Nat, attempts <= count,
         count <= MaxRetries, actions' = actions + count, navigator' = "choose",
         UNCHANGED <<entered, attempts, clicks, obstacles, trespasses>>
  PROVE  MenuIInv'
BY NavigatorAssumption DEF MenuIInv, MenuTyped, Budgeted, OpenIsClean, ClicksBounded, OneTrespass,
   InTransition, Ended

\* Choosing begins a transition only under the budget.
LEMMA ChooseKeeps == ASSUME MenuIInv, Choose PROVE MenuIInv'
<1>1. /\ navigator = "choose" /\ ~InTransition /\ ~Ended
      /\ UNCHANGED <<seen, actions, clock, patient, obstacles, clicks, trespasses>>
  BY DEF Choose, Is, InTransition, Ended
<1>2. \/ navigator' \in {"in-world", "failed"} /\ UNCHANGED <<entered, attempts, resume>>
      \/ navigator' = "wait" /\ resume' = "tabs" /\ UNCHANGED <<entered, attempts>>
      \/ /\ navigator' = "click" /\ attempts' = 0 /\ UNCHANGED resume
         /\ actions < ActionBudget /\ entered' \in Stages \cup {"reconnect"}
  BY <1>1 DEF Choose, GoTo, Fail, Is, Stages
<1>3. CASE navigator' \in {"in-world", "failed"} /\ UNCHANGED <<entered, attempts, resume>>
  <2>1. MenuTyped'
    BY <1>1, <1>3 DEF MenuIInv, MenuTyped
  <2> QED
    BY <1>1, <1>3, <2>1, StillMenu DEF Ended
<1>4. CASE navigator' = "wait" /\ resume' = "tabs" /\ UNCHANGED <<entered, attempts>>
  <2>1. MenuTyped'
    BY <1>1, <1>4 DEF MenuIInv, MenuTyped
  <2> QED
    BY <1>1, <1>4, <2>1, StillMenu DEF InTransition, Ended
<1>5. CASE /\ navigator' = "click" /\ attempts' = 0 /\ UNCHANGED resume
           /\ actions < ActionBudget /\ entered' \in Stages \cup {"reconnect"}
  <2>1. MenuTyped'
    BY <1>1, <1>5 DEF MenuIInv, MenuTyped
  <2>2. Attempts(entered') \in 1 .. MaxRetries
    BY AttemptsBounded
  <2>3. actions <= ActionBudget - 1 /\ clicks <= actions /\ MaxRetries \in Nat
    BY <1>1, <1>5, NavigatorAssumption DEF MenuIInv, MenuTyped, Budgeted
  <2> QED
    BY <1>1, <1>5, <2>1, <2>2, <2>3 DEF MenuIInv, MenuTyped, Budgeted, OpenIsClean, ClicksBounded,
       OneTrespass, InTransition, Ended
<1> QED
  BY <1>2, <1>3, <1>4, <1>5

\* The button: asked for once more, pressed, and then counted.
LEMMA ClicksKeep == ASSUME MenuIInv, Aim \/ Press \/ Sent PROVE MenuIInv'
<1>1. CASE Aim
  <2>1. /\ navigator = "click" /\ navigator' \in {"press", "failed"}
        /\ UNCHANGED <<seen, entered, attempts, actions, resume, clock, patient, obstacles,
                       clicks, trespasses>>
    BY <1>1 DEF Aim, Is, Fail, GoTo
  <2>2. MenuTyped'
    BY <2>1 DEF MenuIInv, MenuTyped
  <2> QED
    BY <2>1, <2>2, StillMenu DEF Ended
<1>2. CASE Press
  <2>1. /\ navigator = "press"
        /\ navigator' = "failed" \/ (navigator' = "sent" /\ obstacles = {})
        /\ UNCHANGED <<seen, entered, attempts, actions, resume, clock, patient, obstacles,
                       clicks, trespasses>>
    BY <1>2 DEF Press, Is, Fail, GoTo, Interlock
  <2>2. MenuTyped'
    BY <2>1 DEF MenuIInv, MenuTyped
  <2>3. CASE navigator' = "failed"
    BY <2>1, <2>2, <2>3, StillMenu DEF Ended
  <2>4. CASE navigator' = "sent" /\ obstacles = {}
    BY <2>1, <2>2, <2>4 DEF MenuIInv, Budgeted, OpenIsClean, ClicksBounded, OneTrespass, InTransition,
       Ended
  <2> QED
    BY <2>1, <2>3, <2>4
<1>3. CASE Sent
  <2>1. /\ navigator = "sent" /\ navigator' = "answer" /\ attempts' = attempts + 1
        /\ clicks' = clicks + 1 /\ clock' \subseteq clock /\ patient' = FALSE
        /\ UNCHANGED <<seen, entered, actions, resume, obstacles>>
        /\ trespasses' = IF obstacles = {} THEN 0 ELSE IF trespasses = 0 THEN 1 ELSE 2
    BY <1>3 DEF Sent, Is, GoTo
  <2>2. trespasses = 0 /\ attempts < Attempts(entered) /\ Attempts(entered) \in 1 .. MaxRetries
    BY <2>1, AttemptsBounded DEF MenuIInv, OpenIsClean, Budgeted
  <2>7. trespasses' \in 0 .. 1
    BY <2>1, <2>2
  <2>8. attempts' \in Nat /\ clicks' \in Nat
    BY <2>1 DEF MenuIInv, MenuTyped
  <2>3. MenuTyped'
    BY <2>1, <2>7, <2>8 DEF MenuIInv, MenuTyped
  <2>4. actions <= ActionBudget - 1 /\ clicks <= actions + attempts
    BY <2>1 DEF MenuIInv, Budgeted, InTransition
  <2>5. clicks' <= ActionBudget - 1 + MaxRetries
    BY <2>1, <2>2, <2>4, NavigatorAssumption DEF MenuIInv, MenuTyped
  <2>6. Budgeted'
    BY <2>1, <2>2, <2>4, NavigatorAssumption DEF MenuIInv, MenuTyped, Budgeted, InTransition, Ended
  <2> QED
    BY <2>1, <2>3, <2>5, <2>6, <2>7 DEF MenuIInv, OpenIsClean, ClicksBounded, OneTrespass
<1> QED
  BY <1>1, <1>2, <1>3

\* Looking counts nothing: the places it may lead to, and what arrives.
LEMMA AnswerKeeps == ASSUME MenuIInv, Answer PROVE MenuIInv'
<1>1. /\ navigator = "answer" /\ InTransition /\ ~Ended
      /\ UNCHANGED <<entered, attempts, clock, obstacles, clicks, trespasses>>
  BY DEF Answer, Is, InTransition, Ended
<1>2. attempts \in Nat /\ attempts <= MaxRetries
  BY DEF MenuIInv, MenuTyped, Budgeted
<1>3. CASE Late /\ Fail /\ UNCHANGED <<seen, actions, resume, patient>>
  <2>1. MenuTyped' /\ Ended'
    BY <1>1, <1>3 DEF MenuIInv, MenuTyped, Fail, GoTo, Ended
  <2> QED
    BY <1>1, <1>3, <2>1, StillMenu DEF Ended, Fail, GoTo
<1>4. ASSUME NEW stage \in Stages, NEW form \in BOOLEAN, seen' = stage, patient' = (patient \/ form),
             Arrive(attempts), UNCHANGED resume
      PROVE  MenuIInv'
  <2>1. actions' = actions + attempts /\ navigator' = "choose"
    BY <1>4 DEF Arrive, GoTo
  <2>2. MenuTyped'
    BY <1>1, <1>2, <1>4, <2>1 DEF MenuIInv, MenuTyped
  <2> QED
    BY <1>1, <1>2, <2>1, <2>2, ArrivesCounted
<1>5. ASSUME NEW stage \in Stages, NEW form \in BOOLEAN, seen' = stage, patient' = (patient \/ form),
             UNCHANGED actions,
             \/ navigator' = "wait" /\ resume' = "answer"
             \/ navigator' \in {"answer", "failed"} /\ UNCHANGED resume
      PROVE  MenuIInv'
  <2>1. MenuTyped'
    BY <1>1, <1>5 DEF MenuIInv, MenuTyped
  <2> QED
    BY <1>1, <1>5, <2>1, StillMenu DEF Ended, InTransition
<1>6. ASSUME NEW stage \in Stages, NEW form \in BOOLEAN, seen' = stage, patient' = (patient \/ form),
             UNCHANGED <<actions, resume>>, navigator' = "click", attempts < Attempts(entered)
      PROVE  MenuIInv'
  <2>1. MenuTyped'
    BY <1>1, <1>6 DEF MenuIInv, MenuTyped
  <2> QED
    BY <1>1, <1>6, <2>1 DEF MenuIInv, Budgeted, OpenIsClean, ClicksBounded, OneTrespass, InTransition, Ended
<1>7. CASE ~(Late /\ Fail /\ UNCHANGED <<seen, actions, resume, patient>>)
  <2>1. PICK stage \in Stages, form \in BOOLEAN :
           /\ seen' = stage /\ patient' = (patient \/ form)
           /\ \/ Arrive(attempts) /\ UNCHANGED resume
              \/ GoTo("wait") /\ resume' = "answer" /\ UNCHANGED actions
              \/ Again(form) /\ UNCHANGED resume
              \/ (GoTo("answer") \/ Fail) /\ UNCHANGED <<actions, resume>>
    BY <1>7 DEF Answer, Observe
  <2>2. CASE Arrive(attempts) /\ UNCHANGED resume
    BY <1>4, <2>1, <2>2
  <2>3. CASE GoTo("wait") /\ resume' = "answer" /\ UNCHANGED actions
    BY <1>5, <2>1, <2>3 DEF GoTo
  <2>4. CASE Again(form) /\ UNCHANGED resume
    <3>1. /\ UNCHANGED actions
          /\ \/ navigator' \in {"answer", "failed"}
             \/ navigator' = "click" /\ attempts < Attempts(entered)
      BY <2>4 DEF Again, GoTo
    <3> QED
      BY <1>5, <1>6, <2>1, <2>4, <3>1
  <2>5. CASE (GoTo("answer") \/ Fail) /\ UNCHANGED <<actions, resume>>
    BY <1>5, <2>1, <2>5 DEF GoTo, Fail
  <2> QED
    BY <2>1, <2>2, <2>3, <2>4, <2>5
<1> QED
  BY <1>3, <1>7

\* The screen after loading either arrives or is looked at again.
LEMMA LoadedKeeps == ASSUME MenuIInv, Loaded PROVE MenuIInv'
<1>1. /\ navigator = "loaded" /\ InTransition /\ ~Ended
      /\ UNCHANGED <<seen, entered, attempts, resume, clock, obstacles, clicks, trespasses>>
      /\ attempts \in Nat /\ attempts <= MaxRetries
  BY DEF Loaded, Is, InTransition, Ended, MenuIInv, MenuTyped, Budgeted
<1>2. PICK form \in BOOLEAN :
         /\ patient' = (patient \/ form)
         /\ Arrive(attempts) \/ (UNCHANGED actions /\ (GoTo("answer") \/ Fail))
  BY DEF Loaded
<1>3. CASE Arrive(attempts)
  <2>1. actions' = actions + attempts /\ navigator' = "choose"
    BY <1>3 DEF Arrive, GoTo
  <2>2. MenuTyped'
    BY <1>1, <1>2, <2>1 DEF MenuIInv, MenuTyped
  <2> QED
    BY <1>1, <2>1, <2>2, ArrivesCounted
<1>4. CASE UNCHANGED actions /\ (GoTo("answer") \/ Fail)
  <2>1. navigator' \in {"answer", "failed"}
    BY <1>4 DEF GoTo, Fail
  <2>2. MenuTyped'
    BY <1>1, <1>2, <1>4, <2>1 DEF MenuIInv, MenuTyped
  <2> QED
    BY <1>1, <1>4, <2>1, <2>2, StillMenu DEF Ended, InTransition
<1> QED
  BY <1>2, <1>3, <1>4

\* One click wakes the player, and it is counted as one.
LEMMA AwayKeeps == ASSUME MenuIInv, AwayAnswer PROVE MenuIInv'
<1>1. /\ navigator = "answer" /\ InTransition /\ ~Ended
      /\ UNCHANGED <<entered, attempts, resume, clock, patient, obstacles, clicks, trespasses>>
      /\ attempts \in Nat
  BY DEF AwayAnswer, Is, InTransition, Ended, MenuIInv, MenuTyped
<1>2. attempts <= 1 /\ 1 <= MaxRetries
  BY <1>1, AttemptsBounded, NavigatorAssumption DEF AwayAnswer, MenuIInv, Budgeted
<1>3. /\ seen' \in Stages
      /\ Arrive(1) \/ (UNCHANGED actions /\ (GoTo("answer") \/ Fail))
  <2>1. CASE Overdue /\ Fail /\ UNCHANGED <<seen, actions>>
    BY <2>1 DEF MenuIInv, MenuTyped
  <2>2. CASE ~(Overdue /\ Fail /\ UNCHANGED <<seen, actions>>)
    <3>1. PICK stage \in Stages :
             /\ seen' = stage
             /\ CASE stage = "in-world" -> Arrive(1)
                  [] stage \in {"away", "unknown"} -> GoTo("answer") /\ UNCHANGED actions
                  [] OTHER -> Fail /\ UNCHANGED actions
      BY <2>2 DEF AwayAnswer, Observe
    <3> QED
      BY <3>1
  <2> QED
    BY <2>1, <2>2
<1>4. CASE Arrive(1)
  <2>1. actions' = actions + 1 /\ navigator' = "choose"
    BY <1>4 DEF Arrive, GoTo
  <2>2. MenuTyped'
    BY <1>1, <1>3, <2>1 DEF MenuIInv, MenuTyped
  <2> QED
    BY <1>1, <1>2, <2>1, <2>2, ArrivesCounted
<1>5. CASE UNCHANGED actions /\ (GoTo("answer") \/ Fail)
  <2>1. navigator' \in {"answer", "failed"}
    BY <1>5 DEF GoTo, Fail
  <2>2. MenuTyped'
    BY <1>1, <1>3, <1>5, <2>1 DEF MenuIInv, MenuTyped
  <2> QED
    BY <1>1, <1>5, <2>1, <2>2, StillMenu DEF Ended, InTransition
<1> QED
  BY <1>3, <1>4, <1>5

\* The first look, waiting for a screen to load, and a refusal.
LEMMA LooksKeep == ASSUME MenuIInv, FirstLook \/ WaitLoading \/ Refused PROVE MenuIInv'
<1>1. CASE FirstLook
  <2>1. /\ navigator = "start" /\ navigator' \in {"wait", "choose"} /\ resume' = "choose"
        /\ seen' \in Stages
        /\ UNCHANGED <<entered, attempts, actions, clock, patient, obstacles, clicks, trespasses>>
    BY <1>1 DEF FirstLook, Is, Observe, GoTo
  <2>2. MenuTyped'
    BY <2>1 DEF MenuIInv, MenuTyped
  <2> QED
    BY <2>1, <2>2, StillMenu DEF InTransition, Ended
<1>2. CASE WaitLoading
  <2>1. /\ navigator = "wait"
        /\ UNCHANGED <<entered, attempts, actions, clock, patient, obstacles, clicks, trespasses>>
        /\ seen' \in Stages
        /\ \/ navigator' = "wait" /\ UNCHANGED resume
           \/ resume = "answer" /\ navigator' = "loaded" /\ resume' = "choose"
           \/ resume # "answer" /\ navigator' = "choose" /\ resume' = "choose"
           \/ navigator' = "failed" /\ UNCHANGED resume
    BY <1>2 DEF WaitLoading, Is, Observe, GoTo, Fail, MenuIInv, MenuTyped
  <2>2. MenuTyped'
    BY <2>1 DEF MenuIInv, MenuTyped
  <2> QED
    BY <2>1, <2>2, StillMenu DEF InTransition, Ended
<1>3. CASE Refused
  <2>1. /\ navigator' = "failed" /\ navigator \in {"start", "wait", "click", "answer"}
        /\ UNCHANGED <<seen, entered, attempts, actions, resume, clock, patient, obstacles,
                       clicks, trespasses>>
    BY <1>3 DEF Refused, Fail, GoTo
  <2>2. MenuTyped'
    BY <2>1 DEF MenuIInv, MenuTyped
  <2> QED
    BY <2>1, <2>2, StillMenu DEF InTransition, Ended
<1> QED
  BY <1>1, <1>2, <1>3

\* Every step keeps what the way through the menus rests on.
LEMMA MenuStep == ASSUME MenuIInv, [MenuNext]_menuVars PROVE MenuIInv'
<1>1. CASE TimeGoesOn
  <2>1. /\ UNCHANGED <<navigator, seen, entered, attempts, actions, resume, patient, obstacles,
                       clicks, trespasses>>
        /\ clock' \subseteq {"response", "run"}
    BY <1>1 DEF TimeGoesOn, MenuIInv, MenuTyped
  <2> QED
    BY <2>1 DEF MenuIInv, MenuTyped, Budgeted, OpenIsClean, ClicksBounded, OneTrespass, InTransition, Ended
<1>2. CASE Interfere
  <2>1. /\ UNCHANGED <<navigator, seen, entered, attempts, actions, resume, clock, patient, clicks>>
        /\ obstacles' \subseteq Obstacles
        /\ trespasses' = IF obstacles' = {} THEN 0 ELSE trespasses
    BY <1>2 DEF Interfere, MenuIInv, MenuTyped
  <2>2. trespasses' = 0 \/ (trespasses' = trespasses /\ obstacles' # {})
    BY <2>1
  <2> QED
    BY <2>1, <2>2 DEF MenuIInv, MenuTyped, Budgeted, OpenIsClean, ClicksBounded, OneTrespass,
       InTransition, Ended
<1>3. CASE UNCHANGED menuVars
  BY <1>3 DEF menuVars, MenuIInv, MenuTyped, Budgeted, OpenIsClean, ClicksBounded, OneTrespass,
     InTransition, Ended
<1> QED
  BY <1>1, <1>2, <1>3, LooksKeep, ChooseKeeps, ClicksKeep, AnswerKeeps, LoadedKeeps, AwayKeeps DEF MenuNext

\* The budget bounds the clicks for every budget and number of retries, and no
\* second button is pressed once the interlock has closed (operator/menu.py).
THEOREM MenuSafety == MenuSpec => []MenuSound
<1>1. ASSUME MenuInit PROVE MenuIInv
  <2>1. MenuTyped
    BY <1>1 DEF MenuInit, MenuTyped, Stages
  <2>2. /\ navigator = "start" /\ attempts = 0 /\ actions = 0 /\ clicks = 0 /\ trespasses = 0
        /\ 0 <= ActionBudget - 1 + MaxRetries /\ 0 <= MaxRetries
    BY <1>1, NavigatorAssumption DEF MenuInit
  <2> QED
    BY <2>1, <2>2 DEF MenuIInv, Budgeted, OpenIsClean, ClicksBounded, OneTrespass, InTransition, Ended
<1>2. MenuIInv /\ [MenuNext]_menuVars => MenuIInv'
  BY MenuStep
<1>3. MenuIInv => MenuSound
  BY NavigatorAssumption DEF MenuIInv, MenuTyped, Budgeted, MenuSound, MenuTypeOK
<1> QED
  BY <1>1, <1>2, <1>3, PTL DEF MenuSpec

(***************************************************************************)
(* The pictures that are acted on.                                         *)
(***************************************************************************)
Pictures == [seen : Int, stamp : Int]
Sources ==
  [kind : {"image", "stream"}, owned : BOOLEAN, reader : {"ok", "broken", "failed"},
   reopen : BOOLEAN, streak : Nat]
Streams == [under : Pictures, newest : Pictures, fresh : BOOLEAN]
Ticks ==
  [at : {"capture", "timeout", "stale", "fences", "act", "chatted", "over"}, picture : Pictures,
   owes : BOOLEAN, chat : Int, stalls : Nat]

CaptureTyped ==
  /\ source \in Sources /\ stream \in Streams /\ tick \in Ticks
  /\ deeds \in [done : 0 .. MaxDeeds, last : Nat, before : Nat, spoke : Nat]
  /\ agent \in [now : Agents \cup {Nobody}, last : 0 .. MaxAgents]
  /\ cache \in [owner : Agents \cup {Nobody}, old : BOOLEAN]
  /\ spectator \in [for : Agents \cup {Nobody}, got : Agents \cup {Nobody}]

\* Without an agent there is no picture and no past.
NobodyRests == agent.now = Nobody => tick.at = "over" /\ deeds = NoDeeds /\ stream = NoStream

\* Only the stream has a picture that was read and not returned yet.
ImageHasNoStream == source.kind = "image" => ~stream.fresh

\* What the agent did is in order, and a chat line is waited for until a picture
\* came that is as new.
DeedsOrdered(d, t) ==
  /\ d.before <= d.last /\ d.last <= d.done /\ d.spoke <= d.done
  /\ t.chat >= 0 => t.chat = d.spoke
  /\ t.chat < 0 => d.spoke <= d.last

\* A picture that was not returned yet was read after the one before was.
FreshIsNew(s, d) == s.fresh => s.newest.stamp >= d.last

\* The picture a tick holds is the one that was returned last.
PictureCurrent(src, d, t) ==
  t.at \in {"fences", "act"} =>
    /\ d.last = d.done
    /\ t.picture.stamp >= d.before
    /\ src.kind = "image" => t.picture.seen = d.done
    /\ t.chat < 0 => t.picture.stamp >= d.spoke
    /\ t.at = "act" => t.chat < 0

CaptureIInv ==
  /\ CaptureTyped /\ NobodyRests /\ ImageHasNoStream
  /\ DeedsOrdered(deeds, tick) /\ FreshIsNew(stream, deeds)
  /\ PictureCurrent(source, deeds, tick) /\ RecoveryBounded /\ SpectatorSeesIts

\* The agent and what its capture is made of stay: the steps of the stream.
LEMMA StreamKeeps == ASSUME CaptureIInv, Grab \/ ReadFrame \/ StreamFails PROVE CaptureIInv'
<1>1. /\ UNCHANGED <<tick, deeds, agent, cache, spectator>> /\ tick.at # "over"
      /\ source \in Sources /\ stream \in Streams
      /\ deeds.done \in Nat /\ deeds.last \in Nat /\ deeds.last <= deeds.done
  BY CaptureAssumption DEF Grab, ReadFrame, StreamFails, CaptureIInv, CaptureTyped, DeedsOrdered
<1>2. CASE Grab
  <2>1. stream' = [stream EXCEPT !.under.seen = deeds.done] /\ UNCHANGED source
        /\ source.kind = "stream"
    BY <1>2 DEF Grab
  <2>2. stream' \in Streams /\ stream'.fresh = stream.fresh /\ stream'.newest = stream.newest
    BY <1>1, <2>1 DEF Streams, Pictures
  <2> QED
    BY <1>1, <2>1, <2>2 DEF CaptureIInv, CaptureTyped, NobodyRests, ImageHasNoStream, DeedsOrdered, FreshIsNew,
       PictureCurrent, RecoveryBounded, SpectatorSeesIts
<1>3. CASE ReadFrame
  <2>1. /\ stream' = [under |-> NoPicture, newest |-> [stream.under EXCEPT !.stamp = deeds.done],
                      fresh |-> TRUE]
        /\ UNCHANGED source /\ source.kind = "stream"
    BY <1>3 DEF ReadFrame
  <2>2. /\ [stream.under EXCEPT !.stamp = deeds.done] \in Pictures
        /\ [stream.under EXCEPT !.stamp = deeds.done].stamp = deeds.done
        /\ NoPicture \in Pictures
    BY <1>1 DEF Streams, Pictures, NoPicture
  <2>3. stream' \in Streams /\ stream'.newest.stamp = deeds.done
    BY <2>1, <2>2 DEF Streams
  <2> QED
    BY <1>1, <2>1, <2>3 DEF CaptureIInv, CaptureTyped, NobodyRests, ImageHasNoStream, DeedsOrdered, FreshIsNew,
       PictureCurrent, RecoveryBounded, SpectatorSeesIts
<1>4. CASE StreamFails
  <2>1. source' = [source EXCEPT !.reader = "failed"] /\ UNCHANGED stream
    BY <1>4 DEF StreamFails
  <2>2. source' \in Sources /\ source'.kind = source.kind /\ source'.streak = source.streak
    BY <1>1, <2>1 DEF Sources
  <2> QED
    BY <1>1, <2>1, <2>2 DEF CaptureIInv, CaptureTyped, NobodyRests, ImageHasNoStream, DeedsOrdered, FreshIsNew,
       PictureCurrent, RecoveryBounded, SpectatorSeesIts
<1> QED
  BY <1>2, <1>3, <1>4

\* A picture that is returned, late or in time.
LEMMA TakenKeeps ==
  ASSUME CaptureIInv, NEW picture \in Pictures, NEW aged \in BOOLEAN, Taken(picture, aged),
         tick.at = "capture", UNCHANGED <<agent, spectator>>, stream' \in Streams, ~stream'.fresh,
         picture.stamp >= deeds.last, source.kind = "image" => picture.seen = deeds.done
  PROVE  CaptureIInv'
<1>1. /\ source \in Sources /\ tick \in Ticks /\ agent.now # Nobody
      /\ deeds \in [done : 0 .. MaxDeeds, last : Nat, before : Nat, spoke : Nat]
      /\ deeds.last <= deeds.done /\ deeds.spoke <= deeds.done
      /\ tick.chat >= 0 => tick.chat = deeds.spoke
      /\ tick.chat < 0 => deeds.spoke <= deeds.last
  BY DEF CaptureIInv, CaptureTyped, NobodyRests, DeedsOrdered
<1>2. /\ tick' = [tick EXCEPT !.picture = picture, !.at = IF aged THEN "stale" ELSE "fences"]
      /\ source' = [source EXCEPT !.streak = IF aged THEN source.streak ELSE 0, !.reopen = FALSE,
                                  !.reader = "ok"]
      /\ deeds' = [deeds EXCEPT !.before = deeds.last, !.last = deeds.done]
      /\ cache' \in {cache} \cup
                (IF source.owned THEN {[owner |-> agent.now, old |-> aged]} ELSE {})
  BY DEF Taken
<1>3. /\ tick' \in Ticks /\ tick'.at \in {"stale", "fences"} /\ tick'.picture = picture
      /\ tick'.chat = tick.chat
  BY <1>1, <1>2 DEF Ticks
<1>4. source' \in Sources /\ source'.kind = source.kind /\ source'.streak \in {0, source.streak}
  BY <1>1, <1>2 DEF Sources
<1>5. /\ deeds' \in [done : 0 .. MaxDeeds, last : Nat, before : Nat, spoke : Nat]
      /\ deeds'.done = deeds.done /\ deeds'.last = deeds.done /\ deeds'.before = deeds.last
      /\ deeds'.spoke = deeds.spoke
  <2> DEFINE room == 0 .. MaxDeeds
  <2>1. deeds \in [done : room, last : Nat, before : Nat, spoke : Nat]
    BY <1>1
  <2>2. deeds.done \in Nat
    BY <1>1, CaptureAssumption
  <2> HIDE DEF room
  <2>3. deeds' \in [done : room, last : Nat, before : Nat, spoke : Nat]
    BY <1>2, <2>1, <2>2
  <2>4. /\ deeds'.done = deeds.done /\ deeds'.last = deeds.done /\ deeds'.before = deeds.last
        /\ deeds'.spoke = deeds.spoke
    BY <1>2, <2>1
  <2> QED
    BY <2>3, <2>4 DEF room
<1>6. cache' \in [owner : Agents \cup {Nobody}, old : BOOLEAN]
  BY <1>1, <1>2 DEF CaptureIInv, CaptureTyped
<1>7. CaptureTyped'
  BY <1>3, <1>4, <1>5, <1>6 DEF CaptureIInv, CaptureTyped
<1>8. deeds.done \in Nat /\ deeds.last \in Nat /\ deeds.spoke \in Nat /\ picture.stamp \in Int
      /\ tick.chat \in Int
  BY <1>1, CaptureAssumption DEF Ticks, Pictures
<1>9. DeedsOrdered(deeds', tick') /\ FreshIsNew(stream', deeds') /\ PictureCurrent(source', deeds', tick')
  BY <1>1, <1>3, <1>4, <1>5, <1>8 DEF DeedsOrdered, FreshIsNew, PictureCurrent
<1>10. NobodyRests' /\ ImageHasNoStream' /\ SpectatorSeesIts'
  BY <1>1 DEF CaptureIInv, NobodyRests, ImageHasNoStream, SpectatorSeesIts
<1>11. RecoveryBounded'
  BY <1>1, <1>4, CaptureAssumption DEF CaptureIInv, RecoveryBounded, Sources
<1> QED
  BY <1>7, <1>9, <1>10, <1>11 DEF CaptureIInv, DeedsOrdered, FreshIsNew, PictureCurrent

\* A call of capture(): a picture, a timeout that is forgiven or not, a failure.
LEMMA CaptureKeeps == ASSUME CaptureIInv, Capture PROVE CaptureIInv'
<1>1. /\ source \in Sources /\ tick \in Ticks /\ stream \in Streams /\ tick.at = "capture"
      /\ deeds.done \in Nat /\ deeds.last \in Nat /\ deeds.last <= deeds.done
      /\ UNCHANGED <<agent, spectator>> /\ agent.now # Nobody
  BY CaptureAssumption DEF Capture, CaptureIInv, CaptureTyped, DeedsOrdered, NobodyRests
<1>2. ASSUME source.kind = "image", UNCHANGED stream, NEW aged \in BOOLEAN,
             Taken([seen |-> deeds.done, stamp |-> deeds.done], aged)
      PROVE  CaptureIInv'
  <2> DEFINE picture == [seen |-> deeds.done, stamp |-> deeds.done]
  <2>1. picture \in Pictures /\ picture.stamp = deeds.done /\ picture.seen = deeds.done
    BY <1>1 DEF Pictures
  <2>2. Taken(picture, aged)
    BY <1>2
  <2>3. stream.fresh => FALSE
    BY <1>2 DEF CaptureIInv, ImageHasNoStream
  <2> HIDE DEF picture
  <2> QED
    BY <1>1, <1>2, <2>1, <2>2, <2>3, TakenKeeps
<1>3. ASSUME source.kind = "stream", stream.fresh, NEW aged \in BOOLEAN, Taken(stream.newest, aged),
             stream' = [stream EXCEPT !.fresh = FALSE]
      PROVE  CaptureIInv'
  <2>1. stream' \in Streams /\ stream'.fresh = FALSE /\ stream.newest \in Pictures
    BY <1>1, <1>3 DEF Streams
  <2>2. stream.newest.stamp >= deeds.last
    BY <1>3 DEF CaptureIInv, FreshIsNew
  <2> QED
    BY <1>1, <1>3, <2>1, <2>2, TakenKeeps
<1>4. ASSUME UNCHANGED <<stream, cache, deeds>>, source' \in Sources, source'.kind = source.kind,
             tick' \in Ticks, tick'.at \in {"timeout", "over"}, tick'.chat = tick.chat,
             source'.streak > Allowance => tick'.at = "over"
      PROVE  CaptureIInv'
  <2>1. CaptureTyped'
    BY <1>1, <1>4 DEF CaptureIInv, CaptureTyped
  <2> QED
    BY <1>1, <1>4, <2>1 DEF CaptureIInv, NobodyRests, ImageHasNoStream, DeedsOrdered, FreshIsNew, PictureCurrent,
       RecoveryBounded, SpectatorSeesIts
<1>5. ASSUME TimedOut, UNCHANGED <<stream, cache, deeds>> PROVE CaptureIInv'
  <2> DEFINE reader == IF source.kind = "image" THEN "broken" ELSE source.reader
             reopen == source.owned /\ source.kind = "image"
             streak == IF source.owned THEN source.streak + 1 ELSE source.streak
             at == IF source.owned /\ ~Forgiven THEN "over" ELSE "timeout"
  <2>1. /\ reader \in {"ok", "broken", "failed"} /\ reopen \in BOOLEAN /\ streak \in Nat
        /\ at \in {"timeout", "over"}
    BY <1>1 DEF Sources
  <2>2. /\ source' = [source EXCEPT !.reader = reader, !.reopen = reopen, !.streak = streak]
        /\ tick' = [tick EXCEPT !.at = at]
    BY <1>5 DEF TimedOut
  <2>3. streak > Allowance => at = "over"
    <3>1. source.streak <= Allowance
      BY <1>1, CaptureAssumption DEF CaptureIInv, RecoveryBounded, Sources
    <3> QED
      BY <1>1, <3>1, CaptureAssumption DEF Forgiven, Sources
  <2> HIDE DEF reader, reopen, streak, at
  <2>4. source' \in Sources /\ source'.kind = source.kind /\ source'.streak = streak
    BY <1>1, <2>1, <2>2 DEF Sources
  <2>5. tick' \in Ticks /\ tick'.at = at /\ tick'.chat = tick.chat
    BY <1>1, <2>1, <2>2 DEF Ticks
  <2> QED
    BY <1>4, <1>5, <2>1, <2>3, <2>4, <2>5
<1>6. ASSUME CaptureFails, UNCHANGED <<stream, cache, deeds>> PROVE CaptureIInv'
  <2>1. /\ source' = [source EXCEPT !.reopen = FALSE]
        /\ tick' = [tick EXCEPT !.at = "over"]
    BY <1>6 DEF CaptureFails, Ends
  <2>2. source' \in Sources /\ source'.kind = source.kind
    BY <1>1, <2>1 DEF Sources
  <2>3. tick' \in Ticks /\ tick'.at = "over" /\ tick'.chat = tick.chat
    BY <1>1, <2>1 DEF Ticks
  <2> QED
    BY <1>4, <1>6, <2>2, <2>3
<1> QED
  BY <1>2, <1>3, <1>5, <1>6 DEF Capture, NewFrame

\* The tick ends without a picture, and goes on, stops or is over: a release is
\* acknowledged or owed.
LEMMA LetGoKeeps ==
  ASSUME CaptureIInv, NEW next \in Ticks, LetGo(next), next.chat = tick.chat, tick.at # "over",
         next.at \in {"capture", "over"}, UNCHANGED <<source, stream, agent, cache, spectator>>,
         source.streak > Allowance => next.at = "over"
  PROVE  CaptureIInv'
<1>1. /\ tick \in Ticks /\ agent.now # Nobody
      /\ deeds \in [done : 0 .. MaxDeeds, last : Nat, before : Nat, spoke : Nat]
      /\ deeds.before <= deeds.last /\ deeds.last <= deeds.done /\ deeds.spoke <= deeds.done
      /\ tick.chat >= 0 => tick.chat = deeds.spoke
      /\ tick.chat < 0 => deeds.spoke <= deeds.last
  BY DEF CaptureIInv, CaptureTyped, NobodyRests, DeedsOrdered
<1>2. tick' = [next EXCEPT !.owes = TRUE] \/ tick' = [next EXCEPT !.owes = FALSE]
  BY DEF LetGo
<1>3. tick' \in Ticks /\ tick'.at = next.at /\ tick'.chat = tick.chat
  BY <1>2 DEF Ticks
<1>4. /\ deeds' \in [done : 0 .. MaxDeeds, last : Nat, before : Nat, spoke : Nat]
      /\ deeds'.done \in {deeds.done, deeds.done + 1} /\ deeds'.last = deeds.last
      /\ deeds'.before = deeds.before /\ deeds'.spoke = deeds.spoke
  <2>1. CASE UNCHANGED deeds
    BY <1>1, <2>1
  <2>2. CASE deeds.done < MaxDeeds /\ deeds' = [deeds EXCEPT !.done = deeds.done + 1]
    <3>1. deeds.done + 1 \in 0 .. MaxDeeds
      BY <1>1, <2>2, CaptureAssumption
    <3> QED
      BY <1>1, <2>2, <3>1
  <2> QED
    BY <2>1, <2>2 DEF LetGo
<1>5. deeds.done \in Nat /\ deeds.last \in Nat /\ deeds.before \in Nat /\ deeds.spoke \in Nat
  BY <1>1, CaptureAssumption
<1>6. CaptureTyped'
  BY <1>3, <1>4 DEF CaptureIInv, CaptureTyped
<1>7. DeedsOrdered(deeds', tick')
  BY <1>1, <1>3, <1>4, <1>5 DEF DeedsOrdered
<1>8. PictureCurrent(source', deeds', tick')
  BY <1>3 DEF PictureCurrent
<1> QED
  BY <1>1, <1>3, <1>4, <1>6, <1>7, <1>8
     DEF CaptureIInv, NobodyRests, ImageHasNoStream, DeedsOrdered, FreshIsNew, PictureCurrent,
         RecoveryBounded, SpectatorSeesIts

\* What a tick does with its picture, or without one.
LEMMA TickKeeps ==
  ASSUME CaptureIInv, Stalled \/ Fences \/ ActOnIt \/ Chatted PROVE CaptureIInv'
<1>1. /\ tick \in Ticks /\ tick.at # "over" /\ agent.now # Nobody
      /\ deeds \in [done : 0 .. MaxDeeds, last : Nat, before : Nat, spoke : Nat]
      /\ deeds.before <= deeds.last /\ deeds.last <= deeds.done /\ deeds.spoke <= deeds.done
      /\ tick.chat >= 0 => tick.chat = deeds.spoke
      /\ tick.chat < 0 => deeds.spoke <= deeds.last
      /\ UNCHANGED <<source, stream, agent, cache, spectator>>
      /\ source.streak <= Allowance
  <2>1. tick.at # "over" /\ UNCHANGED <<source, stream, agent, cache, spectator>>
    BY DEF Stalled, Fences, ActOnIt, Chatted
  <2>2. source.streak <= Allowance
    <3>1. source.streak \in Nat
      BY DEF CaptureIInv, CaptureTyped, Sources
    <3> QED
      BY <2>1, <3>1, CaptureAssumption DEF CaptureIInv, RecoveryBounded
  <2> QED
    BY <2>1, <2>2 DEF CaptureIInv, CaptureTyped, NobodyRests, DeedsOrdered
<1>2. source.streak > Allowance => FALSE
  <2>1. source.streak \in Nat
    BY DEF CaptureIInv, CaptureTyped, Sources
  <2> QED
    BY <1>1, <2>1, CaptureAssumption
<1>3. NoPicture \in Pictures
  BY DEF NoPicture, Pictures
<1>4. deeds.done \in Nat /\ deeds.last \in Nat /\ deeds.before \in Nat /\ deeds.spoke \in Nat
  BY <1>1, CaptureAssumption
<1>5. ASSUME tick' \in Ticks, CaptureTyped', tick'.at \notin {"fences", "act"},
             deeds'.last = deeds.last, deeds'.before = deeds.before, DeedsOrdered(deeds', tick')
      PROVE  CaptureIInv'
  BY <1>1, <1>2, <1>5 DEF CaptureIInv, NobodyRests, ImageHasNoStream, FreshIsNew,
     PictureCurrent, RecoveryBounded, SpectatorSeesIts
<1>6. CASE Stalled
  <2> DEFINE at == IF tick.stalls + 1 >= StallLimit THEN "over" ELSE "capture"
             more == tick.stalls + 1
             next == [tick EXCEPT !.stalls = more, !.picture = NoPicture, !.at = at]
  <2>1. at \in {"capture", "over"} /\ more \in Nat
    BY <1>1 DEF Ticks
  <2>2. LetGo(next)
    BY <1>6 DEF Stalled
  <2> HIDE DEF at, more
  <2>3. next \in Ticks /\ next.chat = tick.chat /\ next.at \in {"capture", "over"}
    BY <1>1, <1>3, <2>1 DEF Ticks
  <2> HIDE DEF next
  <2> QED
    BY <1>1, <1>2, <2>2, <2>3, LetGoKeeps
<1>7. CASE Fences /\ (tick.owes \/ BeforeChat)
  <2> DEFINE next == [tick EXCEPT !.at = "capture", !.picture = NoPicture, !.stalls = 0]
  <2>1. LetGo(next)
    BY <1>7 DEF Fences
  <2>2. next \in Ticks /\ next.chat = tick.chat /\ next.at \in {"capture", "over"}
    BY <1>1, <1>3 DEF Ticks
  <2> HIDE DEF next
  <2> QED
    BY <1>1, <1>2, <2>1, <2>2, LetGoKeeps
<1>8. CASE Fences /\ ~(tick.owes \/ BeforeChat)
  <2>1. /\ tick' = [tick EXCEPT !.at = "act", !.stalls = 0, !.chat = -1] /\ UNCHANGED deeds
        /\ tick.at = "fences"
    BY <1>8 DEF Fences
  <2>2. tick' \in Ticks /\ tick'.at = "act" /\ tick'.chat = -1 /\ tick'.picture = tick.picture
    <3> DEFINE none == -1
    <3>1. none \in Int /\ 0 \in Nat /\ tick' = [tick EXCEPT !.at = "act", !.stalls = 0, !.chat = none]
      BY <2>1
    <3> HIDE DEF none
    <3>2. tick' \in Ticks /\ tick'.at = "act" /\ tick'.chat = none /\ tick'.picture = tick.picture
      BY <1>1, <3>1 DEF Ticks
    <3> QED
      BY <3>2 DEF none
  <2>3. /\ deeds.last = deeds.done /\ tick.picture.stamp >= deeds.before
        /\ source.kind = "image" => tick.picture.seen = deeds.done
        /\ tick.chat < 0 => tick.picture.stamp >= deeds.spoke
    BY <2>1 DEF CaptureIInv, PictureCurrent
  <2>4. tick.chat \in Int /\ tick.picture.stamp \in Int
    BY <1>1 DEF Ticks, Pictures
  <2>5. tick.picture.stamp >= deeds.spoke
    BY <1>1, <1>4, <1>8, <2>3, <2>4 DEF BeforeChat
  <2>6. CaptureTyped'
    BY <1>1, <2>1, <2>2 DEF CaptureIInv, CaptureTyped
  <2>7. DeedsOrdered(deeds', tick')
    BY <1>1, <1>4, <2>1, <2>2, <2>3 DEF DeedsOrdered
  <2>8. PictureCurrent(source', deeds', tick')
    BY <1>1, <2>1, <2>2, <2>3, <2>5 DEF PictureCurrent
  <2> QED
    BY <1>1, <1>2, <2>1, <2>6, <2>7, <2>8 DEF CaptureIInv, NobodyRests, ImageHasNoStream,
       DeedsOrdered, FreshIsNew, PictureCurrent, RecoveryBounded, SpectatorSeesIts
<1>9. CASE ActOnIt /\ UNCHANGED deeds
  <2>1. CASE tick' = [tick EXCEPT !.at = "capture", !.picture = NoPicture]
    <3>1. tick' \in Ticks /\ tick'.at = "capture" /\ tick'.chat = tick.chat
      BY <1>1, <1>3, <2>1 DEF Ticks
    <3>2. CaptureTyped'
      BY <1>1, <1>9, <3>1 DEF CaptureIInv, CaptureTyped
    <3>3. DeedsOrdered(deeds', tick')
      BY <1>9, <3>1 DEF CaptureIInv, DeedsOrdered
    <3> QED
      BY <1>5, <1>9, <3>1, <3>2, <3>3
  <2>2. CASE deeds' = [deeds EXCEPT !.done = deeds.done + 1, !.spoke = deeds.done + 1]
    <3>1. deeds'.done = deeds.done + 1
      BY <1>1, <2>2
    <3> QED
      BY <1>4, <1>9, <3>1
  <2> QED
    BY <1>9, <2>1, <2>2 DEF ActOnIt
<1>10. CASE ActOnIt /\ ~ UNCHANGED deeds
  <2>1. /\ deeds.done < MaxDeeds
        /\ deeds' = [deeds EXCEPT !.done = deeds.done + 1, !.spoke = deeds.done + 1]
        /\ tick' = [tick EXCEPT !.at = "chatted", !.picture = NoPicture, !.chat = deeds.done + 1]
    BY <1>10 DEF ActOnIt
  <2>2. tick' \in Ticks /\ tick'.at = "chatted" /\ tick'.chat = deeds.done + 1
    <3> DEFINE more == deeds.done + 1
    <3>1. more \in Int /\ tick' = [tick EXCEPT !.at = "chatted", !.picture = NoPicture, !.chat = more]
      BY <1>4, <2>1
    <3> HIDE DEF more
    <3>2. tick' \in Ticks /\ tick'.at = "chatted" /\ tick'.chat = more
      BY <1>1, <1>3, <3>1 DEF Ticks
    <3> QED
      BY <3>2 DEF more
  <2>3. deeds.done + 1 \in 0 .. MaxDeeds /\ deeds.done + 1 \in Nat
    BY <1>4, <2>1, CaptureAssumption
  <2>4. /\ deeds' \in [done : 0 .. MaxDeeds, last : Nat, before : Nat, spoke : Nat]
        /\ deeds'.done = deeds.done + 1 /\ deeds'.spoke = deeds.done + 1
        /\ deeds'.last = deeds.last /\ deeds'.before = deeds.before
    <3> DEFINE more == deeds.done + 1
               room == 0 .. MaxDeeds
    <3>1. /\ deeds \in [done : room, last : Nat, before : Nat, spoke : Nat]
          /\ more \in room /\ more \in Nat
          /\ deeds' = [deeds EXCEPT !.done = more, !.spoke = more]
      BY <1>1, <2>1, <2>3
    <3> HIDE DEF more, room
    <3>2. /\ deeds' \in [done : room, last : Nat, before : Nat, spoke : Nat]
          /\ deeds'.done = more /\ deeds'.spoke = more
          /\ deeds'.last = deeds.last /\ deeds'.before = deeds.before
      BY <3>1
    <3> QED
      BY <3>2 DEF more, room
  <2>5. CaptureTyped'
    BY <1>1, <2>2, <2>4 DEF CaptureIInv, CaptureTyped
  <2>6. DeedsOrdered(deeds', tick')
    BY <1>1, <1>4, <2>2, <2>4 DEF DeedsOrdered
  <2> QED
    BY <1>5, <2>2, <2>4, <2>5, <2>6
<1>11. CASE Chatted
  <2> DEFINE next == [tick EXCEPT !.at = "capture"]
  <2>1. LetGo(next)
    BY <1>11 DEF Chatted
  <2>2. next \in Ticks /\ next.chat = tick.chat /\ next.at \in {"capture", "over"}
    BY <1>1 DEF Ticks
  <2> HIDE DEF next
  <2> QED
    BY <1>1, <1>2, <2>1, <2>2, LetGoKeeps
<1> QED
  BY <1>6, <1>7, <1>8, <1>9, <1>10, <1>11

\* Agents that come and go, and who looks at their pictures.
LEMMA AgentKeeps ==
  ASSUME CaptureIInv, AgentEnds \/ AgentBegins \/ PictureAges \/ LookFor \/ Show
  PROVE  CaptureIInv'
<1>1. /\ NoPicture \in Pictures /\ NoStream \in Streams /\ ~NoStream.fresh
      /\ \A at \in {"capture", "over"} :
            Tick(at) \in Ticks /\ Tick(at).at = at /\ Tick(at).chat = -1
      /\ \A kind \in {"image", "stream"}, owned \in BOOLEAN :
            Reader(kind, owned) \in Sources /\ Reader(kind, owned).streak = 0
      /\ NoDeeds \in [done : {0}, last : {0}, before : {0}, spoke : {0}]
  BY DEF NoPicture, Pictures, NoStream, Streams, Tick, Ticks, Reader, Sources, NoDeeds
<1>2. NoDeeds \in [done : 0 .. MaxDeeds, last : Nat, before : Nat, spoke : Nat]
  <2>1. 0 \in 0 .. MaxDeeds
    BY CaptureAssumption
  <2> QED
    BY <2>1 DEF NoDeeds
<1>3. ASSUME tick'.at \in {"capture", "over"}, tick'.chat = -1, source' \in Sources,
             tick' \in Ticks, source'.streak = 0, deeds' = NoDeeds, stream' = NoStream
      PROVE  /\ NobodyRests' <=> (agent'.now = Nobody => tick'.at = "over")
             /\ ImageHasNoStream' /\ DeedsOrdered(deeds', tick') /\ FreshIsNew(stream', deeds')
             /\ PictureCurrent(source', deeds', tick') /\ RecoveryBounded'
  BY <1>1, <1>3, CaptureAssumption DEF NobodyRests, ImageHasNoStream, DeedsOrdered, FreshIsNew,
     PictureCurrent, RecoveryBounded, NoDeeds
<1>4. CASE AgentEnds
  <2>1. /\ agent' = [agent EXCEPT !.now = Nobody]
        /\ cache' \in {cache} \cup
                (IF cache.owner = agent.now THEN {[owner |-> Nobody, old |-> FALSE]} ELSE {})
        /\ source' = Reader("image", TRUE) /\ stream' = NoStream /\ tick' = Tick("over")
        /\ deeds' = NoDeeds /\ UNCHANGED spectator
    BY <1>4 DEF AgentEnds
  <2>2. agent' \in [now : Agents \cup {Nobody}, last : 0 .. MaxAgents] /\ agent'.now = Nobody
    BY <2>1 DEF CaptureIInv, CaptureTyped
  <2>3. cache' \in [owner : Agents \cup {Nobody}, old : BOOLEAN]
    <3> DEFINE empty == [owner |-> Nobody, old |-> FALSE]
    <3>1. empty \in [owner : Agents \cup {Nobody}, old : BOOLEAN]
      OBVIOUS
    <3>2. cache' \in {cache} \cup (IF cache.owner = agent.now THEN {empty} ELSE {})
      BY <2>1
    <3> HIDE DEF empty
    <3>3. cache' = cache \/ cache' = empty
      BY <3>2
    <3> QED
      BY <3>1, <3>3 DEF CaptureIInv, CaptureTyped
  <2>4. source' \in Sources /\ tick' \in Ticks /\ tick'.at = "over" /\ tick'.chat = -1
        /\ source'.streak = 0
    BY <1>1, <2>1
  <2>5. CaptureTyped'
    BY <1>1, <1>2, <2>1, <2>2, <2>3, <2>4 DEF CaptureIInv, CaptureTyped
  <2> QED
    BY <1>3, <2>1, <2>2, <2>4, <2>5 DEF CaptureIInv, SpectatorSeesIts
<1>5. CASE AgentBegins
  <2>1. PICK kind \in {"image", "stream"}, owned \in BOOLEAN : source' = Reader(kind, owned)
    BY <1>5 DEF AgentBegins
  <2>2. /\ agent.now = Nobody /\ agent.last < MaxAgents
        /\ agent' = [now |-> agent.last + 1, last |-> agent.last + 1]
        /\ tick' = Tick("capture") /\ UNCHANGED <<stream, deeds, cache, spectator>>
        /\ agent.last \in 0 .. MaxAgents
    BY <1>5 DEF AgentBegins, CaptureIInv, CaptureTyped
  <2>3. agent.last + 1 \in Agents /\ agent.last + 1 \in 0 .. MaxAgents /\ agent.last + 1 # Nobody
    BY <2>2, CaptureAssumption DEF Agents, Nobody
  <2>4. agent' \in [now : Agents \cup {Nobody}, last : 0 .. MaxAgents] /\ agent'.now # Nobody
    BY <2>2, <2>3
  <2>5. source' \in Sources /\ source'.streak = 0 /\ tick' \in Ticks /\ tick'.at = "capture"
        /\ tick'.chat = -1
    BY <1>1, <2>1, <2>2
  <2>6. deeds' = NoDeeds /\ stream' = NoStream
    BY <2>2 DEF CaptureIInv, NobodyRests
  <2>7. CaptureTyped'
    BY <2>2, <2>4, <2>5 DEF CaptureIInv, CaptureTyped
  <2> QED
    BY <1>3, <2>2, <2>4, <2>5, <2>6, <2>7 DEF CaptureIInv, SpectatorSeesIts
<1>6. CASE PictureAges
  <2>1. cache' = [cache EXCEPT !.old = TRUE]
        /\ UNCHANGED <<source, stream, tick, deeds, agent, spectator>>
    BY <1>6 DEF PictureAges
  <2>2. cache' \in [owner : Agents \cup {Nobody}, old : BOOLEAN]
    BY <2>1 DEF CaptureIInv, CaptureTyped
  <2> QED
    BY <2>1, <2>2 DEF CaptureIInv, CaptureTyped, NobodyRests, ImageHasNoStream, DeedsOrdered,
       FreshIsNew, PictureCurrent, RecoveryBounded, SpectatorSeesIts
<1>7. CASE LookFor \/ Show
  <2>1. UNCHANGED <<source, stream, tick, deeds, agent, cache>>
    BY <1>7 DEF LookFor, Show
  <2>2. /\ spectator' \in [for : Agents \cup {Nobody}, got : Agents \cup {Nobody}]
        /\ SpectatorSeesIts'
    <3>1. /\ spectator \in [for : Agents \cup {Nobody}, got : Agents \cup {Nobody}]
          /\ agent.now \in Agents \cup {Nobody} /\ cache.owner \in Agents \cup {Nobody}
      BY DEF CaptureIInv, CaptureTyped
    <3>2. CASE LookFor
      BY <3>1, <3>2 DEF LookFor, SpectatorSeesIts
    <3>3. CASE Show
      <4> DEFINE got == IF Showable(spectator.for) THEN cache.owner ELSE Nobody
      <4>1. got \in {Nobody, spectator.for}
        BY DEF Showable
      <4>2. spectator' = [spectator EXCEPT !.got = got]
        BY <3>3 DEF Show
      <4> HIDE DEF got
      <4> QED
        BY <3>1, <4>1, <4>2 DEF SpectatorSeesIts
    <3> QED
      BY <1>7, <3>2, <3>3
  <2> QED
    BY <2>1, <2>2 DEF CaptureIInv, CaptureTyped, NobodyRests, ImageHasNoStream, DeedsOrdered,
       FreshIsNew, PictureCurrent, RecoveryBounded
<1> QED
  BY <1>4, <1>5, <1>6, <1>7

\* Nobody runs, and nothing was published.
LEMMA CaptureStarts == CaptureInit => CaptureIInv
<1> SUFFICES ASSUME CaptureInit PROVE CaptureIInv
  OBVIOUS
<1>1. /\ Reader("image", TRUE) \in Sources /\ Reader("image", TRUE).streak = 0
      /\ NoStream \in Streams /\ ~NoStream.fresh
      /\ Tick("over") \in Ticks /\ Tick("over").at = "over" /\ Tick("over").chat = -1
  BY DEF NoPicture, Pictures, NoStream, Streams, Tick, Ticks, Reader, Sources
<1>2. NoDeeds \in [done : 0 .. MaxDeeds, last : Nat, before : Nat, spoke : Nat]
  <2>1. 0 \in 0 .. MaxDeeds
    BY CaptureAssumption
  <2> QED
    BY <2>1 DEF NoDeeds
<1>3. 0 \in 0 .. MaxAgents
  BY CaptureAssumption
<1>4. CaptureTyped
  BY <1>1, <1>2, <1>3 DEF CaptureInit, CaptureTyped, Nobody
<1>5. NoDeeds.done = 0 /\ NoDeeds.last = 0 /\ NoDeeds.before = 0 /\ NoDeeds.spoke = 0
  BY DEF NoDeeds
<1>6. /\ source = Reader("image", TRUE) /\ stream = NoStream /\ tick = Tick("over")
      /\ deeds = NoDeeds /\ spectator.got = Nobody
  BY DEF CaptureInit
<1>7. DeedsOrdered(deeds, tick)
  BY <1>1, <1>5, <1>6 DEF DeedsOrdered
<1>8. FreshIsNew(stream, deeds) /\ PictureCurrent(source, deeds, tick)
  BY <1>1, <1>6 DEF FreshIsNew, PictureCurrent
<1> QED
  BY <1>1, <1>4, <1>6, <1>7, <1>8 DEF CaptureIInv, NobodyRests, ImageHasNoStream, RecoveryBounded,
     SpectatorSeesIts

\* The inductive invariant says what the run checks.
LEMMA CaptureIsSound == CaptureIInv => CaptureSound
<1> SUFFICES ASSUME CaptureIInv PROVE CaptureSound
  OBVIOUS
<1>1. CaptureTypeOK
  BY DEF CaptureIInv, CaptureTyped, CaptureTypeOK, Sources, Ticks
<1>2. ActsOnNews
  <2>1. tick.at = "act" => tick.chat < 0 /\ deeds.last = deeds.done
    BY DEF CaptureIInv, PictureCurrent
  <2> QED
    BY <2>1 DEF CaptureIInv, PictureCurrent, ActsOnNews
<1> QED
  BY <1>1, <1>2 DEF CaptureIInv, CaptureSound

\* FrameCapture: the runtime acts on pictures that show what it did, a broken
\* reader is opened again a bounded number of times in a row, and a spectator sees
\* the agent it looked for, for every bound on deeds and agents.
THEOREM CaptureSafety == CaptureSpec => []CaptureSound
<1>1. CaptureInit => CaptureIInv
  BY CaptureStarts
<1>2. CaptureIInv /\ [CaptureNext]_captureVars => CaptureIInv'
  <2> SUFFICES ASSUME CaptureIInv, [CaptureNext]_captureVars PROVE CaptureIInv'
    OBVIOUS
  <2>1. CASE UNCHANGED captureVars
    BY <2>1 DEF captureVars, CaptureIInv, CaptureTyped, NobodyRests, ImageHasNoStream,
       DeedsOrdered, FreshIsNew, PictureCurrent, RecoveryBounded, SpectatorSeesIts
  <2> QED
    BY <2>1, StreamKeeps, CaptureKeeps, TickKeeps, AgentKeeps DEF CaptureNext
<1> QED
  BY <1>1, <1>2, CaptureIsSound, PTL DEF CaptureSpec

(***************************************************************************)
(* The agent process and its descriptor.                                   *)
(***************************************************************************)
Lives == {"unborn", "starting", "live", "zombie", "gone"}
Kinds == {"none", "leader", "member", "orphans"}
Places ==
  {"idle", "examine", "compare", "unlink", "term", "orphanterm", "grace", "kill", "killwait",
   "confirm", "spawn", "identify", "persist", "settle", "wait", "disown", "disowned"}
Jobs == [op : {"none", "probe", "stop", "launch"}, at : Places, agent : Gens \cup {NoGen}]

\* While the launch is here, the PID it was given is nobody else's.
Spawned == {"identify", "persist", "settle", "term", "wait", "killwait"}

ProcessesTyped ==
  /\ leader \in [Gens -> Lives] /\ workers \in [Gens -> BOOLEAN]
  /\ pidOf \in [Gens -> Pids \cup {0}] /\ other \in [Pids -> Kinds]

\* A PID goes to somebody else only when nothing of the agent that had it is left.
Exclusive ==
  \A g \in Gens :
    /\ leader[g] = "unborn" => ~workers[g]
    /\ leader[g] # "unborn" => pidOf[g] \in Pids
    /\ leader[g] \in {"starting", "live", "zombie"} \/ workers[g] => other[pidOf[g]] = "none"

HistoryOK ==
  /\ desc \in recorded \cup {NoGen} /\ recorded \subseteq Gens /\ contained \subseteq Gens
  /\ \A g \in recorded \cup contained : leader[g] # "unborn"
  /\ contained \cap Groups = {}
  /\ hit \subseteq {"orphans"}

\* What a caller relies on after it has looked: the group is gone when the
\* descriptor is to go, and the PID of a child that was spawned is its own.
Fits(c) ==
  LET j == job[c] IN
  /\ intent = c => j # Idle
  /\ j.op = "launch" => intent = c
  /\ j.op = "none" => j = Idle
  /\ j.op \in {"stop", "probe"} \/ j.at \in {"examine", "compare", "unlink"} => j.agent \in recorded
  /\ j.at \in {"compare", "unlink"} => j.agent \notin Groups
  /\ j.op = "launch" /\ j.at \in Spawned =>
        /\ j.agent \in Gens /\ leader[j.agent] # "unborn"
        /\ other[pidOf[j.agent]] = "none"
  /\ j.at \in {"disown", "disowned"} => j.agent \in contained

\* What the descriptor is to a caller that holds the lock.
Knows(c) ==
  LET j == job[c] IN
  /\ j.op \in {"stop", "probe"} \/ j.at \in {"examine", "compare", "unlink"} => desc = j.agent
  /\ j.at \in {"spawn", "identify", "persist"} => desc = NoGen
  /\ j.op = "launch" /\ j.at \in {"settle", "term", "wait", "killwait", "disown", "disowned"} =>
        desc \in {NoGen, j.agent}

Locked ==
  unlocked = {} => Tracked /\ \A c \in Callers : job[c] # Idle => intent = c /\ Knows(c)

CallersOK ==
  /\ job \in [Callers -> Jobs] /\ intent \in Callers \cup {NoOne} /\ unlocked \subseteq Unlocked
  /\ \A c \in Callers : Fits(c)

LifecycleIInv == ProcessesTyped /\ Exclusive /\ HistoryOK /\ CallersOK /\ Locked

\* The processes as a step of a caller leaves them: nobody is born twice, what was
\* born keeps its PID, no group comes to life, and no foreign process comes or goes.
Steady ==
  /\ ProcessesTyped' /\ Exclusive' /\ other' = other
  /\ \A g \in Gens : leader[g] # "unborn" =>
        leader'[g] # "unborn" /\ pidOf'[g] = pidOf[g] /\ (g \in Groups' => g \in Groups)

\* What the lock may do in a step of c: it is kept, taken when free, or let go.
LockStep(c) ==
  \/ intent' = intent
  \/ intent = NoOne /\ intent' = c
  \/ intent = c /\ intent' = NoOne

\* A step that touches no process is steady.
LEMMA Untouched == ASSUME LifecycleIInv, UNCHANGED processes PROVE Steady
BY DEF LifecycleIInv, processes, Steady, ProcessesTyped, Exclusive, Groups

\* So is one that reaps a dead child.
LEMMA Reaping ==
  ASSUME LifecycleIInv, NEW g \in Gens, Poll(g) \/ leader' = leader, UNCHANGED <<workers, pidOf, other>>
  PROVE  Steady /\ Groups' = Groups
<1>1. leader' \in [Gens -> Lives] /\ \A h \in Gens :
          leader'[h] = leader[h] \/ (leader[h] = "zombie" /\ leader'[h] = "gone")
  BY DEF LifecycleIInv, ProcessesTyped, Poll, Lives
<1>2. Groups' = Groups
  BY <1>1 DEF Groups
<1>3. ProcessesTyped'
  BY <1>1 DEF LifecycleIInv, ProcessesTyped
<1>4. Exclusive'
  BY <1>1 DEF LifecycleIInv, Exclusive
<1> QED
  BY <1>1, <1>2, <1>3, <1>4 DEF Steady

\* What one caller does leaves what the others rely on.
LEMMA CallerKeeps ==
  ASSUME LifecycleIInv, NEW c \in Callers, NEW j \in Jobs, job' = [job EXCEPT ![c] = j],
         LockStep(c), Steady, HistoryOK', Fits(c)', UNCHANGED unlocked,
         recorded \subseteq recorded', contained \subseteq contained',
         unlocked = {} => intent \in {c, NoOne} /\ Tracked' /\ (j # Idle => intent' = c /\ Knows(c)')
  PROVE  LifecycleIInv'
<1>1. /\ job \in [Callers -> Jobs] /\ intent \in Callers \cup {NoOne} /\ NoOne \notin Callers
      /\ unlocked \subseteq Unlocked
  BY CallerAssumption DEF LifecycleIInv, CallersOK
<1>2. job' \in [Callers -> Jobs] /\ job'[c] = j /\ \A d \in Callers \ {c} : job'[d] = job[d]
  BY <1>1
<1>3. intent' \in Callers \cup {NoOne}
  BY <1>1 DEF LockStep
<1>4. ASSUME NEW d \in Callers \ {c} PROVE Fits(d)'
  <2>1. Fits(d) /\ job'[d] = job[d] /\ job[d] \in Jobs
    BY <1>1, <1>2 DEF LifecycleIInv, CallersOK
  <2>2. intent' = d <=> intent = d
    BY <1>1 DEF LockStep
  <2>3. \A g \in recorded : g \in Gens /\ leader[g] # "unborn"
    BY DEF LifecycleIInv, HistoryOK
  <2> QED
    BY <2>1, <2>2, <2>3 DEF Fits, Steady
<1>5. CallersOK'
  BY <1>1, <1>2, <1>3, <1>4 DEF CallersOK
<1>6. Locked'
  <2> SUFFICES ASSUME unlocked = {} PROVE \A d \in Callers : job'[d] # Idle => intent' = d /\ Knows(d)'
    BY DEF Locked
  <2>1. \A d \in Callers \ {c} : job[d] = Idle
    BY <1>1 DEF LifecycleIInv, Locked
  <2> QED
    BY <1>2, <2>1
<1> QED
  BY <1>5, <1>6 DEF LifecycleIInv, Steady

\* A caller that returns, killed or of its own accord.
LEMMA ReturnKeeps ==
  ASSUME LifecycleIInv, NEW c \in Callers, Return(c), Steady, HistoryOK', UNCHANGED unlocked,
         job[c] # Idle, recorded' = recorded, contained \subseteq contained',
         unlocked = {} => Tracked'
  PROVE  LifecycleIInv'
<1>1. job' = [job EXCEPT ![c] = Idle] /\ intent' = IF intent = c THEN NoOne ELSE intent
  BY DEF Return
<1>2. Idle \in Jobs /\ Idle.op = "none" /\ Idle.at = "idle" /\ job'[c] = Idle
  BY <1>1 DEF Idle, Jobs, Places, LifecycleIInv, CallersOK
<1>3. LockStep(c) /\ intent' # c
  BY <1>1, CallerAssumption DEF LockStep
<1>4. Fits(c)'
  BY <1>2, <1>3 DEF Fits
<1>5. unlocked = {} => intent = c
  BY DEF LifecycleIInv, Locked
<1> QED
  BY <1>1, <1>2, <1>3, <1>4, <1>5, CallerKeeps

\* A caller that goes on to its next step.
LEMMA GotoKeeps ==
  ASSUME LifecycleIInv, NEW c \in Callers, NEW step \in Places, Goto(c, step), Steady, HistoryOK',
         UNCHANGED unlocked, job[c] # Idle, step # "idle",
         recorded \subseteq recorded', contained \subseteq contained',
         step \in {"examine", "compare", "unlink"} => job[c].agent \in recorded,
         step \in {"compare", "unlink"} => job[c].agent \notin Groups',
         job[c].op = "launch" /\ step \in Spawned => job[c].at \in Spawned,
         step \in {"disown", "disowned"} => job[c].agent \in contained',
         unlocked = {} =>
            /\ Tracked'
            /\ step \in {"examine", "compare", "unlink"} => desc' = job[c].agent
            /\ job[c].op \in {"stop", "probe"} => desc' = desc
            /\ step \in {"spawn", "identify", "persist"} => desc' = NoGen
            /\ job[c].op = "launch" => desc' \in {NoGen, job[c].agent}
  PROVE  LifecycleIInv'
<1> DEFINE j == [job[c] EXCEPT !.at = step]
<1>1. job \in [Callers -> Jobs] /\ job[c] \in Jobs /\ Fits(c)
  BY DEF LifecycleIInv, CallersOK
<1>2. j \in Jobs /\ j.at = step /\ j.op = job[c].op /\ j.agent = job[c].agent
  BY <1>1 DEF Jobs
<1>3. job' = [job EXCEPT ![c] = j] /\ UNCHANGED intent
  BY <1>1 DEF Goto
<1> HIDE DEF j
<1>4. job'[c] = j
  BY <1>1, <1>3
<1>5. j # Idle /\ j.op # "none"
  BY <1>1, <1>2 DEF Fits, Idle
<1>6. \A g \in recorded : g \in Gens /\ leader[g] # "unborn"
  BY DEF LifecycleIInv, HistoryOK
<1>7. Fits(c)'
  BY <1>1, <1>2, <1>3, <1>4, <1>5, <1>6 DEF Fits, Steady
<1>8. unlocked = {} => intent = c /\ Knows(c)
  BY DEF LifecycleIInv, Locked
<1>9. unlocked = {} => Knows(c)'
  BY <1>2, <1>4, <1>8 DEF Knows
<1> QED
  BY <1>2, <1>3, <1>7, <1>8, <1>9, CallerKeeps DEF LockStep

\* A caller that begins, with the lock or without.
LEMMA EnterKeeps ==
  ASSUME LifecycleIInv, NEW c \in Callers, NEW op \in {"probe", "stop", "launch"},
         NEW step \in {"examine", "spawn"}, Enter(c, op, step), UNCHANGED unlocked,
         op = "launch" \/ desc # NoGen,
         step = (IF desc = NoGen THEN "spawn" ELSE "examine")
  PROVE  LifecycleIInv'
<1> DEFINE j == [op |-> op, at |-> step, agent |-> desc]
<1>1. /\ job \in [Callers -> Jobs] /\ job[c] = Idle /\ Fits(c)
      /\ op \notin unlocked => intent = NoOne
      /\ intent' = IF op \in unlocked THEN intent ELSE c
      /\ job' = [job EXCEPT ![c] = j] /\ UNCHANGED <<processes, desc, history>>
  BY DEF LifecycleIInv, CallersOK, Enter
<1>2. /\ j \in Jobs /\ j.op = op /\ j.at = step /\ j.agent = desc
      /\ desc # NoGen => desc \in recorded
  BY DEF Jobs, Places, LifecycleIInv, HistoryOK
<1>3. j # Idle
  BY <1>2 DEF Idle
<1>4. /\ recorded' = recorded /\ contained' = contained /\ hit' = hit /\ desc' = desc
      /\ Groups' = Groups /\ leader' = leader
  BY <1>1 DEF history, processes, Groups
<1>5. Steady
  BY <1>1, Untouched
<1>6. HistoryOK'
  BY <1>4 DEF LifecycleIInv, HistoryOK
<1>7. LockStep(c) /\ (op = "launch" => intent' = c)
  BY <1>1, UnlockedAssumption DEF LockStep, LifecycleIInv, CallersOK
<1> HIDE DEF j
<1>8. job'[c] = j
  BY <1>1
<1>9. Fits(c)'
  BY <1>2, <1>3, <1>4, <1>7, <1>8 DEF Fits, Spawned
<1>10. unlocked = {} => intent = NoOne /\ intent' = c /\ Tracked' /\ Knows(c)'
  BY <1>1, <1>2, <1>4, <1>8 DEF LifecycleIInv, Locked, Tracked, Knows
<1> QED
  BY <1>1, <1>2, <1>4, <1>5, <1>6, <1>7, <1>9, <1>10, CallerKeeps

\* A signal that is allowed reaches no group of somebody else that still has its leader.
LEMMA SignalSpares ==
  ASSUME LifecycleIInv, NEW g \in Gens, leader[g] # "unborn", SignalGroup(g),
         other[pidOf[g]] # "leader"
  PROVE  hit' \subseteq {"orphans"}
BY DEF LifecycleIInv, HistoryOK, SignalGroup

\* The verdicts the signals rest on: none of them is given about a PID that leads a
\* group of somebody else's, and a mismatch means that nothing of the agent is left.
LEMMA Verdicts ==
  ASSUME LifecycleIInv, NEW g \in Gens, leader[g] # "unborn"
  PROVE  /\ Authorized(g) => other[pidOf[g]] # "leader"
         /\ StateOf(g) = "mismatch" => g \notin Groups
         /\ ~GroupAlive(pidOf[g]) => g \notin Groups
         /\ StateOf(g) = "verified-live" => other[pidOf[g]] = "none"
<1>1. leader[g] \in {"starting", "live", "zombie"} \/ workers[g] => other[pidOf[g]] = "none"
  BY DEF LifecycleIInv, Exclusive
<1>2. CASE StateOf(g) = "verified-live"
  <2>1. leader[g] = "live"
    BY <1>2 DEF StateOf
  <2> QED
    BY <1>1, <1>2, <2>1 DEF Groups, GroupAlive
<1>3. CASE StateOf(g) = "mismatch"
  <2>1. other[pidOf[g]] \in {"leader", "member"} /\ leader[g] # "live"
    BY <1>3 DEF StateOf
  <2> QED
    BY <1>1, <1>3, <2>1 DEF Groups, Authorized, OriginalZombie
<1>4. CASE StateOf(g) = "dead"
  <2>1. other[pidOf[g]] \notin {"leader", "member"}
    BY <1>4 DEF StateOf
  <2> QED
    BY <1>1, <1>4, <2>1 DEF Groups, GroupAlive
<1>5. CASE StateOf(g) \notin {"verified-live", "mismatch", "dead"}
  <2>1. Authorized(g) => leader[g] = "zombie"
    BY <1>5 DEF Authorized, OriginalZombie
  <2> QED
    BY <1>1, <1>5, <2>1 DEF Groups, GroupAlive
<1> QED
  BY <1>2, <1>3, <1>4, <1>5

\* The histories, when a step reports nothing and records nothing.
LEMMA Unrecorded ==
  ASSUME LifecycleIInv, Steady, UNCHANGED <<recorded, contained>>, hit' \subseteq {"orphans"},
         desc' \in {desc, NoGen}
  PROVE  HistoryOK'
BY DEF LifecycleIInv, HistoryOK, Steady

\* And when it reports the end of a generation that it has seen dead.
LEMMA Reported ==
  ASSUME LifecycleIInv, Steady, NEW g \in Gens, leader[g] # "unborn", g \notin Groups',
         UNCHANGED <<recorded, hit, desc>>, contained' = contained \cup {g}
  PROVE  HistoryOK'
BY DEF LifecycleIInv, HistoryOK, Steady

\* Who is tracked stays tracked while the descriptor stays.
LEMMA StillTracked ==
  ASSUME LifecycleIInv, Steady, UNCHANGED <<recorded, desc>>, unlocked = {}
  PROVE  Tracked'
BY DEF LifecycleIInv, HistoryOK, Locked, Tracked, Steady

\* What a caller that stops, probes or is about to remove knows.
LEMMA OfAJob ==
  ASSUME LifecycleIInv, NEW c \in Callers
  PROVE  /\ job[c].op \in {"stop", "probe"} \/ job[c].at \in {"examine", "compare", "unlink"} =>
              /\ job[c].agent \in recorded /\ job[c].agent \in Gens
              /\ leader[job[c].agent] # "unborn" /\ job[c] # Idle
              /\ unlocked = {} => desc = job[c].agent
         /\ job[c].op = "launch" /\ job[c].at \in Spawned =>
              /\ job[c].agent \in Gens /\ leader[job[c].agent] # "unborn" /\ job[c] # Idle
              /\ other[pidOf[job[c].agent]] = "none"
<1>1. Fits(c)
  BY DEF LifecycleIInv, CallersOK
<1>2. Idle.op = "none" /\ Idle.at = "idle"
  BY DEF Idle
<1>3. unlocked = {} /\ job[c] # Idle => Knows(c)
  BY DEF LifecycleIInv, Locked
<1>4. \A g \in recorded : g \in Gens /\ leader[g] # "unborn"
  BY DEF LifecycleIInv, HistoryOK
<1> QED
  BY <1>1, <1>2, <1>3, <1>4 DEF Fits, Knows

\* A probe, the stop up to its first signal, and the waits: a look decides.
LEMMA VerdictsKeep ==
  ASSUME LifecycleIInv, NEW c \in Callers, UNCHANGED unlocked,
         \/ ProbeExamine(c) \/ StopExamine(c) \/ GraceEnds(c)
         \/ KillWaitEnds(c) \/ LaunchExamine(c) \/ Compare(c)
  PROVE  LifecycleIInv'
<1> DEFINE g == job[c].agent
<1>1. UNCHANGED <<processes, desc, history>>
  BY DEF ProbeExamine, StopExamine, GraceEnds, KillWaitEnds, LaunchExamine, Compare
<1>2. /\ Steady /\ UNCHANGED <<recorded, contained, hit, desc>> /\ Groups' = Groups
      /\ hit' \subseteq {"orphans"}
  BY <1>1, Untouched DEF history, processes, Groups, LifecycleIInv, HistoryOK
<1>3. HistoryOK' /\ (unlocked = {} => Tracked')
  BY <1>2, Unrecorded, StillTracked
<1>4. /\ job[c].op \in {"stop", "probe"} \/ job[c].at \in {"examine", "compare"}
      /\ g \in recorded /\ g \in Gens /\ leader[g] # "unborn" /\ job[c] # Idle
      /\ unlocked = {} => desc = g
  <2>1. job[c].op \in {"stop", "probe"} \/ job[c].at \in {"examine", "compare"}
    BY DEF ProbeExamine, StopExamine, GraceEnds, KillWaitEnds, LaunchExamine, Compare, At
  <2> QED
    BY <2>1, OfAJob
<1>5. CASE Return(c)
  BY <1>2, <1>3, <1>4, <1>5, ReturnKeeps
<1>6. ASSUME NEW step \in {"term", "orphanterm", "grace", "kill", "killwait", "confirm"},
             Goto(c, step), job[c].op = "stop"
      PROVE  LifecycleIInv'
  <2>1. step \in Places /\ step # "idle"
    BY DEF Places
  <2> QED
    BY <1>2, <1>3, <1>4, <1>6, <2>1, GotoKeeps
<1>7. ASSUME Goto(c, "compare"), g \notin Groups
      PROVE  LifecycleIInv'
  <2>1. "compare" \in Places /\ "compare" \notin Spawned
    BY DEF Places, Spawned
  <2> QED
    BY <1>2, <1>3, <1>4, <1>7, <2>1, GotoKeeps
<1>8. /\ StateOf(g) = "mismatch" => g \notin Groups
      /\ ~GroupAlive(pidOf[g]) => g \notin Groups
  BY <1>4, Verdicts
<1>9. CASE ProbeExamine(c)
  BY <1>5, <1>7, <1>8, <1>9 DEF ProbeExamine
<1>10. CASE StopExamine(c)
  <2>1. job[c].op = "stop"
    BY <1>10 DEF StopExamine, At
  <2> QED
    BY <1>5, <1>6, <1>7, <1>8, <1>10, <2>1 DEF StopExamine
<1>11. CASE GraceEnds(c) \/ KillWaitEnds(c)
  <2>1. job[c].op = "stop"
    BY <1>11 DEF GraceEnds, KillWaitEnds, At
  <2> QED
    BY <1>5, <1>6, <1>11, <2>1 DEF GraceEnds, KillWaitEnds
<1>12. CASE LaunchExamine(c)
  BY <1>5, <1>7, <1>8, <1>12 DEF LaunchExamine
<1>13. CASE Compare(c)
  <2>1. g \notin Groups
    BY <1>13 DEF Compare, LifecycleIInv, CallersOK, Fits
  <2>2. CASE Goto(c, "unlink")
    <3>1. "unlink" \in Places /\ "unlink" \notin Spawned
      BY DEF Places, Spawned
    <3> QED
      BY <1>2, <1>3, <1>4, <2>1, <2>2, <3>1, GotoKeeps
  <2>3. CASE desc # g /\ Goto(c, "spawn") /\ job[c].op = "launch"
    <3>1. "spawn" \in Places /\ "spawn" \notin Spawned /\ unlocked # {}
      BY <1>4, <2>3 DEF Places, Spawned
    <3> QED
      BY <1>2, <1>3, <1>4, <2>3, <3>1, GotoKeeps
  <2> QED
    BY <1>5, <1>13, <2>2, <2>3 DEF Compare, AfterRemoval
<1> QED
  BY <1>9, <1>10, <1>11, <1>12, <1>13

\* The signals of a stop.
LEMMA SignalsKeep ==
  ASSUME LifecycleIInv, NEW c \in Callers, UNCHANGED unlocked, StopTerm(c) \/ StopKill(c)
  PROVE  LifecycleIInv'
<1>1. /\ Steady /\ UNCHANGED <<recorded, contained, desc>> /\ Groups' = Groups
      /\ job[c].op = "stop"
  <2>1. UNCHANGED <<processes, desc, recorded, contained>> /\ job[c].op = "stop"
    BY DEF StopTerm, StopKill, At
  <2> QED
    BY <2>1, Untouched DEF processes, Groups
<1> DEFINE g == job[c].agent
<1>2. /\ g \in Gens /\ leader[g] # "unborn" /\ job[c] # Idle
      /\ hit \subseteq {"orphans"}
  BY <1>1, OfAJob DEF LifecycleIInv, HistoryOK
<1>3. hit' \subseteq {"orphans"}
  <2>1. CASE UNCHANGED hit
    BY <1>2, <2>1
  <2>2. CASE SignalGroup(g) /\ (StateOf(g) = "verified-live" \/ Authorized(g))
    BY <1>2, <2>2, SignalSpares, Verdicts
  <2> QED
    BY <2>1, <2>2 DEF StopTerm, StopKill
<1>4. HistoryOK' /\ (unlocked = {} => Tracked')
  BY <1>1, <1>3, Unrecorded, StillTracked
<1>5. CASE Return(c)
  BY <1>1, <1>2, <1>4, <1>5, ReturnKeeps
<1>6. ASSUME NEW step \in {"grace", "killwait"}, Goto(c, step) PROVE LifecycleIInv'
  <2>1. step \in Places /\ step # "idle"
    BY DEF Places
  <2> QED
    BY <1>1, <1>2, <1>4, <1>6, <2>1, GotoKeeps
<1> QED
  BY <1>5, <1>6 DEF StopTerm, StopKill

\* The stop reports that the group is dead when it finds it so a last time.
LEMMA ConfirmKeeps ==
  ASSUME LifecycleIInv, NEW c \in Callers, UNCHANGED unlocked, StopConfirm(c) PROVE LifecycleIInv'
<1> DEFINE g == job[c].agent
<1>1. /\ Steady /\ UNCHANGED <<recorded, hit, desc>> /\ Groups' = Groups /\ job[c].op = "stop"
  <2>1. UNCHANGED <<processes, desc, hit, recorded>> /\ job[c].op = "stop"
    BY DEF StopConfirm, At
  <2> QED
    BY <2>1, Untouched DEF processes, Groups
<1>2. /\ g \in recorded /\ g \in Gens /\ leader[g] # "unborn" /\ job[c] # Idle
      /\ unlocked = {} => desc = g
      /\ hit' \subseteq {"orphans"}
  BY <1>1, OfAJob DEF LifecycleIInv, HistoryOK
<1>3. unlocked = {} => Tracked'
  BY <1>1, StillTracked
<1>4. CASE Return(c) /\ UNCHANGED contained
  BY <1>1, <1>2, <1>3, <1>4, Unrecorded, ReturnKeeps
<1>5. CASE ~GroupAlive(pidOf[g]) /\ Goto(c, "compare") /\ contained' = contained \cup {g}
  <2>1. g \notin Groups
    BY <1>2, <1>5, Verdicts
  <2>2. HistoryOK'
    BY <1>1, <1>2, <1>5, <2>1, Reported
  <2>3. "compare" \in Places /\ "compare" \notin Spawned
    BY DEF Places, Spawned
  <2> QED
    BY <1>1, <1>2, <1>3, <1>5, <2>1, <2>2, <2>3, GotoKeeps
<1> QED
  BY <1>4, <1>5 DEF StopConfirm

\* The descriptor goes: what it named is dead, whoever wrote it.
LEMMA RemovalKeeps ==
  ASSUME LifecycleIInv, NEW c \in Callers, UNCHANGED unlocked, Unlink(c) \/ Disowned(c)
  PROVE  LifecycleIInv'
<1> DEFINE g == job[c].agent
<1>1. /\ Steady /\ UNCHANGED <<recorded, contained, hit>> /\ Groups' = Groups /\ desc' = NoGen
      /\ hit' \subseteq {"orphans"}
  <2>1. UNCHANGED <<processes, history>> /\ desc' = NoGen
    BY DEF Unlink, Disowned
  <2> QED
    BY <2>1, Untouched DEF processes, history, Groups, LifecycleIInv, HistoryOK
<1>2. HistoryOK'
  BY <1>1, Unrecorded
<1>3. job[c] # Idle
  <2>1. job[c].at \in {"unlink", "disowned"} /\ Idle.at = "idle"
    BY DEF Unlink, Disowned, At, Idle
  <2> QED
    BY <2>1
<1>4. unlocked = {} => Tracked'
  <2> SUFFICES ASSUME unlocked = {} PROVE Tracked'
    OBVIOUS
  <2>1. Tracked /\ Knows(c) /\ Fits(c) /\ contained \cap Groups = {}
    BY <1>3 DEF LifecycleIInv, Locked, CallersOK, HistoryOK
  <2>2. g \notin Groups /\ desc \in {NoGen, g}
    BY <2>1 DEF Unlink, Disowned, At, Fits, Knows
  <2>3. recorded \cap Groups = {}
    BY <2>1, <2>2 DEF Tracked, Groups, Gens, NoGen
  <2> QED
    BY <1>1, <2>3 DEF Tracked
<1>5. CASE Return(c)
  BY <1>1, <1>2, <1>3, <1>4, <1>5, ReturnKeeps
<1>6. CASE Goto(c, "spawn") /\ job[c].op = "launch"
  <2>1. "spawn" \in Places /\ "spawn" \notin Spawned
    BY DEF Places, Spawned
  <2> QED
    BY <1>1, <1>2, <1>3, <1>4, <1>6, <2>1, GotoKeeps
<1> QED
  BY <1>5, <1>6 DEF Unlink, Disowned, AfterRemoval

\* A launch that looks at its child: it reaps it when it is dead, and goes on.
LEMMA ChildKeeps ==
  ASSUME LifecycleIInv, NEW c \in Callers, UNCHANGED unlocked,
         Identify(c) \/ Settle(c) \/ CleanupTerm(c) \/ CleanupWait(c) \/ CleanupKillWait(c)
  PROVE  LifecycleIInv'
<1> DEFINE g == job[c].agent
<1>1. job[c].op = "launch" /\ job[c].at \in {"identify", "settle", "term", "wait", "killwait"}
  BY DEF Identify, Settle, CleanupTerm, CleanupWait, CleanupKillWait, At
<1>2. /\ g \in Gens /\ leader[g] # "unborn" /\ job[c] # Idle /\ other[pidOf[g]] = "none"
      /\ job[c].at \in Spawned
      /\ unlocked = {} => Knows(c)
  BY <1>1, OfAJob DEF Spawned, LifecycleIInv, Locked
<1>3. /\ Poll(g) \/ leader' = leader
      /\ UNCHANGED <<workers, pidOf, other, desc, recorded>>
  BY DEF Identify, Settle, CleanupTerm, CleanupWait, CleanupKillWait, processes, history
<1>4. Steady /\ Groups' = Groups
  BY <1>2, <1>3, Reaping
<1>5. hit' \subseteq {"orphans"}
  <2>1. SignalGroup(g) \/ hit' = hit
    BY DEF Identify, Settle, CleanupTerm, CleanupWait, CleanupKillWait, history
  <2> QED
    BY <1>2, <2>1, SignalSpares DEF LifecycleIInv, HistoryOK
<1>6. unlocked = {} => Tracked'
  BY <1>3, <1>4, StillTracked
<1>7. ~GroupAlive(pidOf[g]) => g \notin Groups
  BY <1>2, Verdicts
<1>8. ASSUME UNCHANGED contained PROVE HistoryOK'
  BY <1>3, <1>4, <1>5, <1>8, Unrecorded
<1>9. CASE Return(c) /\ UNCHANGED contained
  BY <1>2, <1>3, <1>4, <1>6, <1>8, <1>9, ReturnKeeps
<1>10. ASSUME Contained(c), ~GroupAlive(pidOf[g]), UNCHANGED hit, job[c].at \in {"wait", "killwait"}
       PROVE  LifecycleIInv'
  <2>1. Goto(c, "disown") /\ contained' = contained \cup {g}
    BY <1>10 DEF Contained
  <2>2. HistoryOK'
    BY <1>2, <1>3, <1>4, <1>7, <1>10, <2>1, Reported
  <2>3. "disown" \in Places /\ "disown" \notin Spawned
    BY DEF Places, Spawned
  <2>4. unlocked = {} => desc' \in {NoGen, g}
    BY <1>1, <1>2, <1>3, <2>1 DEF Knows
  <2> QED
    BY <1>1, <1>2, <1>3, <1>4, <1>6, <1>7, <1>10, <2>1, <2>2, <2>3, <2>4, GotoKeeps
<1>11. ASSUME NEW step \in {"persist", "term", "wait", "killwait"}, Goto(c, step), UNCHANGED contained,
              step = "persist" => job[c].at = "identify"
       PROVE  LifecycleIInv'
  <2>1. step \in Places /\ step # "idle"
    BY DEF Places
  <2>2. unlocked = {} => /\ desc' \in {NoGen, g}
                         /\ step = "persist" => desc' = NoGen
    BY <1>1, <1>2, <1>3, <1>11 DEF Knows
  <2> QED
    BY <1>1, <1>2, <1>3, <1>4, <1>6, <1>8, <1>11, <2>1, <2>2, GotoKeeps
<1>12. CASE Identify(c)
  <2>1. UNCHANGED contained /\ job[c].at = "identify"
    BY <1>12 DEF Identify, history, At
  <2> QED
    BY <1>11, <1>12, <2>1 DEF Identify
<1>13. CASE Settle(c)
  <2>1. UNCHANGED contained
    BY <1>13 DEF Settle, history
  <2> QED
    BY <1>9, <1>11, <1>13, <2>1 DEF Settle
<1>14. CASE CleanupTerm(c)
  BY <1>11, <1>14 DEF CleanupTerm
<1>15. CASE CleanupWait(c)
  BY <1>10, <1>11, <1>15 DEF CleanupWait, At
<1>16. CASE CleanupKillWait(c)
  BY <1>9, <1>10, <1>16 DEF CleanupKillWait, At
<1> QED
  BY <1>12, <1>13, <1>14, <1>15, <1>16

\* The descriptor of a new agent: nobody else who was recorded lives then.
LEMMA PersistKeeps ==
  ASSUME LifecycleIInv, NEW c \in Callers, UNCHANGED unlocked, Persist(c) PROVE LifecycleIInv'
<1> DEFINE g == job[c].agent
<1>1. /\ job[c].op = "launch" /\ job[c].at = "persist" /\ UNCHANGED <<processes, hit, contained>>
      /\ "settle" \in Places /\ "term" \in Places
  BY DEF Persist, At, Places
<1>2. /\ g \in Gens /\ leader[g] # "unborn" /\ job[c] # Idle /\ job[c].at \in Spawned
      /\ unlocked = {} => desc = NoGen /\ Tracked
  BY <1>1, OfAJob DEF Spawned, LifecycleIInv, Locked, Knows
<1>3. Steady /\ Groups' = Groups
  BY <1>1, Untouched DEF processes, Groups
<1>4. CASE desc' = g /\ recorded' = recorded \cup {desc'} /\ Goto(c, "settle")
  <2>1. HistoryOK'
    BY <1>1, <1>2, <1>3, <1>4 DEF LifecycleIInv, HistoryOK, Steady
  <2>2. unlocked = {} => recorded \cap Groups = {}
    BY <1>2 DEF Tracked, Groups, Gens, NoGen
  <2>3. unlocked = {} => Tracked'
    BY <1>3, <1>4, <2>2 DEF Tracked
  <2> QED
    BY <1>1, <1>2, <1>3, <1>4, <2>1, <2>3, GotoKeeps
<1>5. CASE UNCHANGED <<desc, recorded>> /\ Goto(c, "term")
  <2>1. HistoryOK'
    BY <1>1, <1>3, <1>5, Unrecorded DEF LifecycleIInv, HistoryOK
  <2>2. unlocked = {} => Tracked'
    BY <1>3, <1>5, StillTracked
  <2> QED
    BY <1>1, <1>2, <1>3, <1>5, <2>1, <2>2, GotoKeeps
<1> QED
  BY <1>4, <1>5 DEF Persist

\* The end of a launch that failed, before or after it spawned something; and a
\* caller that is killed.
LEMMA EndsKeep ==
  ASSUME LifecycleIInv, NEW c \in Callers, UNCHANGED unlocked,
         SpawnFails(c) \/ Disown(c) \/ CallerDies(c)
  PROVE  LifecycleIInv'
<1>1. UNCHANGED <<processes, desc, history>>
  BY DEF SpawnFails, Disown, CallerDies
<1>2. /\ Steady /\ UNCHANGED <<recorded, contained, hit, desc>>
      /\ hit' \subseteq {"orphans"}
  BY <1>1, Untouched DEF history, LifecycleIInv, HistoryOK
<1>3. HistoryOK' /\ (unlocked = {} => Tracked')
  BY <1>2, Unrecorded, StillTracked
<1>4. job[c] # Idle
  BY DEF SpawnFails, Disown, CallerDies, At, Idle
<1>5. CASE Return(c)
  BY <1>2, <1>3, <1>4, <1>5, ReturnKeeps
<1>6. CASE job[c].op = "launch" /\ job[c].at = "disown" /\ desc = job[c].agent /\ Goto(c, "disowned")
  <2>1. "disowned" \in Places /\ "disowned" \notin Spawned
    BY DEF Places, Spawned
  <2>2. job[c].agent \in contained
    BY <1>6 DEF LifecycleIInv, CallersOK, Fits
  <2> QED
    BY <1>2, <1>3, <1>4, <1>6, <2>1, <2>2, GotoKeeps
<1> QED
  BY <1>5, <1>6 DEF SpawnFails, Disown, CallerDies, At

\* A new agent gets a PID that nobody has, and that stays its own while it is looked at.
LEMMA SpawnKeeps ==
  ASSUME LifecycleIInv, NEW c \in Callers, UNCHANGED unlocked, Spawn(c) PROVE LifecycleIInv'
<1>1. PICK g \in Gens, p \in Pids :
         /\ job[c].op = "launch" /\ job[c].at = "spawn"
         /\ leader[g] = "unborn" /\ other[p] = "none"
         /\ leader' = [leader EXCEPT ![g] = "starting"]
         /\ pidOf' = [pidOf EXCEPT ![g] = p]
         /\ job' = [job EXCEPT ![c].at = "identify", ![c].agent = g]
         /\ UNCHANGED <<workers, other, desc, intent, history>>
  BY DEF Spawn, Free, At
<1>2. /\ leader \in [Gens -> Lives] /\ workers \in [Gens -> BOOLEAN]
      /\ pidOf \in [Gens -> Pids \cup {0}] /\ other \in [Pids -> Kinds]
      /\ \A h \in Gens : leader[h] = "unborn" => ~workers[h]
      /\ job \in [Callers -> Jobs] /\ Fits(c)
  BY DEF LifecycleIInv, ProcessesTyped, Exclusive, CallersOK
<1>3. /\ leader' \in [Gens -> Lives] /\ leader'[g] = "starting" /\ pidOf'[g] = p
      /\ \A h \in Gens \ {g} : leader'[h] = leader[h] /\ pidOf'[h] = pidOf[h]
      /\ pidOf' \in [Gens -> Pids \cup {0}]
  BY <1>1, <1>2 DEF Lives
<1>4. ProcessesTyped'
  BY <1>1, <1>2, <1>3 DEF ProcessesTyped
<1>5. Exclusive'
  BY <1>1, <1>3 DEF LifecycleIInv, Exclusive
<1>6. \A h \in Gens \ {g} : h \in Groups' <=> h \in Groups
  BY <1>1, <1>3 DEF Groups
<1>7. Steady
  BY <1>1, <1>3, <1>4, <1>5, <1>6 DEF Steady
<1>8. UNCHANGED <<recorded, contained, hit, desc>> /\ hit' \subseteq {"orphans"}
  BY <1>1 DEF history, LifecycleIInv, HistoryOK
<1>9. HistoryOK' /\ (unlocked = {} => Tracked')
  BY <1>7, <1>8, Unrecorded, StillTracked
<1> DEFINE j == [job[c] EXCEPT !.at = "identify", !.agent = g]
<1>10. j \in Jobs /\ j.op = "launch" /\ j.at = "identify" /\ j.agent = g
  BY <1>1, <1>2 DEF Jobs, Places
<1>11. job' = [job EXCEPT ![c] = j]
  BY <1>1, <1>2
<1> HIDE DEF j
<1>12. job'[c] = j /\ intent = c /\ intent' = c /\ j # Idle
  <2>1. j # Idle
    BY <1>10 DEF Idle
  <2>2. intent = c /\ intent' = c
    BY <1>1, <1>2 DEF Fits
  <2> QED
    BY <1>2, <1>11, <2>1, <2>2
<1>13. Fits(c)'
  BY <1>1, <1>3, <1>10, <1>12 DEF Fits, Spawned
<1>14. unlocked = {} => Knows(c)'
  <2>1. unlocked = {} => desc = NoGen
    BY <1>1, <1>12 DEF LifecycleIInv, Locked, Knows, Idle
  <2> QED
    BY <1>8, <1>10, <1>12, <2>1 DEF Knows
<1> QED
  BY <1>7, <1>8, <1>9, <1>10, <1>11, <1>12, <1>13, <1>14, CallerKeeps DEF LockStep

\* What processes do by themselves: no group comes to life, and a PID that a launch
\* has just been given goes to nobody else.
LEMMA WorldKeeps ==
  ASSUME LifecycleIInv, UNCHANGED unlocked, ProcessStep PROVE LifecycleIInv'
<1>1. /\ UNCHANGED <<desc, intent, job, hit, recorded, contained>>
      /\ leader \in [Gens -> Lives] /\ workers \in [Gens -> BOOLEAN]
      /\ pidOf \in [Gens -> Pids \cup {0}] /\ other \in [Pids -> Kinds]
  BY DEF ProcessStep, history, LifecycleIInv, ProcessesTyped
<1>2. ASSUME ProcessesTyped', Exclusive', UNCHANGED pidOf,
             \A g \in Gens : /\ leader[g] # "unborn" => leader'[g] # "unborn"
                             /\ g \in Groups' => g \in Groups,
             \A c \in Callers : job[c].op = "launch" /\ job[c].at \in Spawned =>
                                   other'[pidOf[job[c].agent]] = "none"
      PROVE  LifecycleIInv'
  <2>1. HistoryOK'
    BY <1>1, <1>2 DEF LifecycleIInv, HistoryOK
  <2>2. ASSUME NEW c \in Callers PROVE Fits(c)'
    <3>1. Fits(c) /\ \A g \in recorded : g \in Gens
      BY DEF LifecycleIInv, CallersOK, HistoryOK
    <3> QED
      BY <1>1, <1>2, <3>1 DEF Fits
  <2>3. CallersOK'
    BY <1>1, <2>2 DEF LifecycleIInv, CallersOK
  <2>4. Locked'
    <3>1. unlocked = {} => Tracked'
      BY <1>1, <1>2 DEF LifecycleIInv, Locked, Tracked, HistoryOK
    <3>2. \A c \in Callers : Knows(c)' <=> Knows(c)
      BY <1>1 DEF Knows
    <3> QED
      BY <1>1, <3>1, <3>2 DEF LifecycleIInv, Locked
  <2> QED
    BY <1>2, <2>1, <2>3, <2>4 DEF LifecycleIInv
<1>3. \A c \in Callers : job[c].op = "launch" /\ job[c].at \in Spawned =>
         /\ other[pidOf[job[c].agent]] = "none"
         /\ pidOf[job[c].agent] \in Pids
  BY OfAJob DEF LifecycleIInv, Exclusive
<1>4. ASSUME NEW g \in Gens, Exec(g) \/ Fork(g) \/ LeaderExits(g) \/ Reaped(g) \/ WorkersExit(g)
      PROVE  LifecycleIInv'
  <2>1. UNCHANGED <<pidOf, other>>
    BY <1>4 DEF Exec, Fork, LeaderExits, Reaped, WorkersExit
  <2>2. /\ leader' \in [Gens -> Lives] /\ workers' \in [Gens -> BOOLEAN]
        /\ \A h \in Gens \ {g} : leader'[h] = leader[h] /\ workers'[h] = workers[h]
    BY <1>1, <1>4 DEF Exec, Fork, LeaderExits, Reaped, WorkersExit, Lives
  <2>3. /\ leader'[g] # "unborn" <=> leader[g] # "unborn"
        /\ leader[g] = "unborn" => workers'[g] = FALSE
        /\ leader'[g] \in {"starting", "live", "zombie"} \/ workers'[g] =>
              leader[g] \in {"starting", "live", "zombie"} \/ workers[g]
        /\ leader'[g] \in {"starting", "live"} \/ workers'[g] =>
              leader[g] \in {"starting", "live"} \/ workers[g]
    <3>1. leader[g] = "unborn" => workers[g] = FALSE
      BY <1>1 DEF LifecycleIInv, Exclusive
    <3>2. CASE leader' = leader
      BY <1>1, <1>4, <3>1, <3>2 DEF Exec, Fork, LeaderExits, Reaped, WorkersExit
    <3>3. CASE workers' = workers
      BY <1>1, <1>4, <3>1, <3>3 DEF Exec, Fork, LeaderExits, Reaped, WorkersExit
    <3> QED
      BY <1>4, <3>2, <3>3 DEF Exec, Fork, LeaderExits, Reaped, WorkersExit
  <2>4. ProcessesTyped'
    BY <1>1, <2>1, <2>2 DEF ProcessesTyped
  <2>5. Exclusive'
    BY <2>1, <2>2, <2>3 DEF LifecycleIInv, Exclusive
  <2>6. \A h \in Gens : h \in Groups' => h \in Groups
    BY <2>2, <2>3 DEF Groups
  <2> QED
    BY <1>2, <1>3, <2>1, <2>2, <2>3, <2>4, <2>5, <2>6
<1>5. ASSUME NEW p \in Pids, ForeignStarts(p) \/ ForeignEnds(p) PROVE LifecycleIInv'
  <2>1. UNCHANGED <<leader, workers, pidOf>> /\ Groups' = Groups
    BY <1>5 DEF ForeignStarts, ForeignEnds, Groups
  <2>2. other' \in [Pids -> Kinds] /\ \A q \in Pids \ {p} : other'[q] = other[q]
    BY <1>1, <1>5 DEF ForeignStarts, ForeignEnds, Kinds
  <2>3. ProcessesTyped'
    BY <1>1, <2>1, <2>2 DEF ProcessesTyped
  <2>4. Exclusive'
    <3>1. CASE ForeignStarts(p)
      <4>1. \A g \in Gens : pidOf[g] = p => leader[g] = "gone" /\ ~workers[g]
        BY <3>1 DEF ForeignStarts, Free
      <4> QED
        BY <2>1, <2>2, <4>1 DEF LifecycleIInv, Exclusive
    <3>2. CASE ForeignEnds(p)
      <4>1. other[p] # "none"
        BY <3>2 DEF ForeignEnds
      <4> QED
        BY <2>1, <2>2, <4>1 DEF LifecycleIInv, Exclusive
    <3> QED
      BY <1>5, <3>1, <3>2
  <2>5. ASSUME NEW c \in Callers, job[c].op = "launch", job[c].at \in Spawned
        PROVE  other'[pidOf[job[c].agent]] = "none"
    <3>1. other[pidOf[job[c].agent]] = "none" /\ pidOf[job[c].agent] \in Pids
      BY <1>3, <2>5
    <3>2. pidOf[job[c].agent] # p
      BY <1>5, <2>5, <3>1 DEF ForeignStarts, ForeignEnds, SlowRecycling, Spawned
    <3> QED
      BY <2>2, <3>1, <3>2
  <2> QED
    BY <1>2, <2>1, <2>3, <2>4, <2>5
<1> QED
  BY <1>4, <1>5 DEF ProcessStep

\* Nothing runs, and nothing is recorded.
LEMMA LifecycleStarts == Init => LifecycleIInv
<1> SUFFICES ASSUME Init PROVE LifecycleIInv
  OBVIOUS
<1>1. ProcessesTyped /\ Exclusive /\ HistoryOK
  BY DEF Init, ProcessesTyped, Exclusive, HistoryOK, Lives, Kinds, Groups
<1>2. Idle \in Jobs /\ Idle.op = "none" /\ Idle.at = "idle"
  BY DEF Idle, Jobs, Places
<1>3. \A c \in Callers : Fits(c)
  BY <1>2, CallerAssumption DEF Init, Fits
<1>4. CallersOK
  BY <1>2, <1>3 DEF Init, CallersOK
<1> QED
  BY <1>1, <1>4 DEF LifecycleIInv, Init, Locked, Tracked

\* The inductive invariant says what the run checks.
LEMMA LifecycleIsSound == LifecycleIInv => LifecycleSound
<1> SUFFICES ASSUME LifecycleIInv PROVE LifecycleSound
  OBVIOUS
<1>1. TypeOK
  BY DEF LifecycleIInv, ProcessesTyped, HistoryOK, CallersOK, Fits, TypeOK, Lives, Kinds
<1>2. ForeignLeadersSpared /\ ReportedEndIsTrue /\ TrackedUnderLock
  BY DEF LifecycleIInv, HistoryOK, Locked, ForeignLeadersSpared, ReportedEndIsTrue, TrackedUnderLock
<1> QED
  BY <1>1, <1>2 DEF LifecycleSound

\* AgentLifecycle: whatever dies between two steps of whichever callers, no group
\* with a living foreign leader is signalled, a reported end is one, and an agent
\* that lives is not forgotten while every caller takes the lock; for any number of
\* agents, PIDs and callers.
THEOREM LifecycleSafety == Spec => []LifecycleSound
<1>1. Init => LifecycleIInv
  BY LifecycleStarts
<1>2. LifecycleIInv /\ [Next]_vars => LifecycleIInv'
  <2> SUFFICES ASSUME LifecycleIInv, [Next]_vars PROVE LifecycleIInv'
    OBVIOUS
  <2>1. CASE UNCHANGED vars
    BY <2>1 DEF vars, processes, history, LifecycleIInv, ProcessesTyped, Exclusive, HistoryOK,
       CallersOK, Fits, Locked, Knows, Tracked, Groups
  <2>2. ASSUME NEW c \in Callers, Probe(c) \/ Stop(c) \/ Launch(c) \/ Remove(c) \/ CallerDies(c),
               UNCHANGED unlocked
        PROVE  LifecycleIInv'
    <3>1. CASE ProbeLoad(c) \/ StopLoad(c) \/ LaunchLoad(c)
      BY <2>2, <3>1, EnterKeeps DEF ProbeLoad, StopLoad, LaunchLoad
    <3>2. CASE Probe(c) \/ Stop(c)
      BY <2>2, <3>1, <3>2, VerdictsKeep, SignalsKeep, ConfirmKeeps DEF Probe, Stop
    <3>3. CASE Launch(c)
      BY <2>2, <3>1, <3>3, VerdictsKeep, SpawnKeeps, EndsKeep, ChildKeeps, PersistKeeps,
         RemovalKeeps DEF Launch
    <3>4. CASE Remove(c) \/ CallerDies(c)
      BY <2>2, <3>4, VerdictsKeep, RemovalKeeps, EndsKeep DEF Remove
    <3> QED
      BY <2>2, <3>2, <3>3, <3>4
  <2> QED
    BY <2>1, <2>2, WorldKeeps DEF Next
<1> QED
  BY <1>1, <1>2, LifecycleIsSound, PTL DEF Spec

(***************************************************************************)
(* The messages of the operator.  A message that may be attempted once and *)
(* was, is answered; so is one that a plan carries out.                    *)
(***************************************************************************)
Bindings == [m : Messages \cup {Nothing}, lost : BOOLEAN]

Questions == [at : {"none", "asked", "staged"}, ids : SUBSET Messages, pending : BOOLEAN,
              stale : BOOLEAN, bind : Bindings]
Rows == [status : {"none", "queued", "delivered", "acknowledged", "refused"},
         kind : MessageKinds, high : BOOLEAN, bounded : BOOLEAN]

InboxTyped ==
  /\ inbox \in [Messages -> Rows]
  /\ retry \in [Messages -> {"none", "delivered", "acknowledged"}]
  /\ attempt \in [Messages -> {"none", "fresh", "used", "closed"}]
  /\ starts \in [Messages -> 0 .. 2]
  /\ late \subseteq Messages /\ unsure \subseteq Messages
  /\ plan \in Messages \cup {Nothing} /\ running \in Messages \cup {Nothing}
  /\ ask \in Questions /\ refusal \in Bindings

\* Only what may be attempted once is counted, and from its creation on; an answer is not retried as less.
MessageSound(m) ==
  /\ inbox[m].status = "none" \/ ~Once(m) => starts[m] = 0
  /\ inbox[m].status = "acknowledged" => retry[m] # "delivered"

\* What may be attempted once was answered when it was, or is unsure; only then a
\* fresh attempt was made before.
AttemptSound(m) ==
  Once(m) /\ m \notin unsure =>
    /\ starts[m] <= 1
    /\ starts[m] = 1 => inbox[m].status = "acknowledged"
    /\ inbox[m].bounded /\ attempt[m] = "fresh" => starts[m] = 0

\* What the planner was asked about was there and not refused; the standing
\* instruction is answered, a correction was not attempted, a request has its owner.
AskedSound(m) ==
  m \in ask.ids =>
    /\ inbox[m].status \notin {"none", "refused"}
    /\ ~ask.pending => inbox[m].status = "acknowledged" /\ inbox[m].kind # "correction"
    /\ inbox[m].bounded => attempt[m] # "none"
    /\ inbox[m].kind = "correction" /\ ~inbox[m].bounded /\ m \notin unsure => starts[m] = 0

\* A plan carries out what is answered and no correction.
PlannedSound(m) ==
  plan = m =>
    /\ inbox[m].status # "none" /\ inbox[m].kind # "correction"
    /\ inbox[m].bounded => attempt[m] # "none"
    /\ inbox[m].bounded /\ m \notin unsure => inbox[m].status = "acknowledged"

InboxIInv ==
  /\ InboxTyped
  /\ refusal.m # Nothing => ask.ids = {}
  /\ \A m \in Messages : MessageSound(m) /\ AttemptSound(m) /\ AskedSound(m) /\ PlannedSound(m)

\* What AnswersStand says of a step.
AnswersKept ==
  \A m \in Messages :
    /\ inbox[m].status = "acknowledged" => inbox'[m].status = "acknowledged"
    /\ inbox[m].status = "refused" =>
         /\ inbox'[m].status = "refused"
         /\ Once(m) /\ m \notin unsure => starts'[m] = starts[m]

\* A binding that is lost is of the same message.
LEMMA LoseFacts ==
  ASSUME NEW b \in Bindings PROVE Lose(b) \in Bindings /\ Lose(b).m = b.m
BY DEF Lose, Bindings

\* Neither no message nor the agent's own goal has a number of a message.
LEMMA InboxFacts ==
  /\ Nothing \notin Messages /\ Own \notin Messages /\ Own # Nothing /\ Messages \subseteq Nat
  /\ NoBinding \in Bindings /\ NoBinding.m = Nothing
  /\ NoAsk \in Questions /\ NoAsk.ids = {} /\ NoAsk.at = "none" /\ NoAsk.bind = NoBinding
<1>1. Nothing \notin Messages /\ Own \notin Messages /\ Own # Nothing /\ Messages \subseteq Nat
  BY InboxAssumption DEF Nothing, Own, Messages
<1>2. NoBinding \in Bindings /\ NoBinding.m = Nothing
  BY DEF NoBinding, Bindings
<1> QED
  BY <1>1, <1>2 DEF NoAsk, Questions

\* What moved since the planner was asked changes neither what it was asked about
\* nor whom a refusal is for.
LEMMA MovesFacts ==
  ASSUME InboxTyped, IntentMoves \/ ExecutionMoves
  PROVE  /\ ask' \in Questions /\ ask'.ids = ask.ids /\ ask'.pending = ask.pending
         /\ refusal' \in Bindings /\ refusal'.m = refusal.m
<1>1. ask \in Questions /\ refusal \in Bindings /\ ask.bind \in Bindings
  BY DEF InboxTyped, Questions
<1>2. Lose(ask.bind) \in Bindings /\ Lose(refusal) \in Bindings /\ Lose(refusal).m = refusal.m
  BY <1>1, LoseFacts
<1>3. CASE IntentMoves
  BY <1>1, <1>2, <1>3 DEF IntentMoves, Questions
<1>4. CASE ExecutionMoves
  <2>1. (ask.at # "none") \in BOOLEAN
    OBVIOUS
  <2> QED
    BY <1>1, <1>2, <1>4, <2>1 DEF ExecutionMoves, Questions
<1> QED
  BY <1>3, <1>4

\* A step that answers and starts nothing: attempts close, or go with the process.
LEMMA QuietKeeps ==
  ASSUME InboxIInv, InboxTyped', UNCHANGED <<inbox, starts, unsure>>,
         plan' = plan \/ plan' = Nothing,
         \A m \in Messages : retry'[m] = retry[m] \/ retry'[m] = "none",
         \A m \in Messages : \/ attempt'[m] = attempt[m] \/ attempt'[m] = "closed"
                             \/ attempt'[m] = "none" /\ m \notin ask'.ids /\ plan' # m,
         \/ ask'.ids = {}
         \/ ask'.ids = ask.ids /\ ask'.pending = ask.pending,
         refusal'.m # Nothing => ask'.ids = {}
  PROVE  InboxIInv' /\ AnswersKept
<1>1. ASSUME NEW m \in Messages
      PROVE  (MessageSound(m) /\ AttemptSound(m) /\ AskedSound(m) /\ PlannedSound(m))'
  <2>1. MessageSound(m) /\ AttemptSound(m) /\ AskedSound(m) /\ PlannedSound(m) /\ m # Nothing
    BY InboxFacts DEF InboxIInv
  <2>2. Once(m)' <=> Once(m)
    BY DEF Once
  <2>3. MessageSound(m)' /\ AttemptSound(m)'
    BY <2>1, <2>2 DEF MessageSound, AttemptSound
  <2>4. AskedSound(m)'
    BY <2>1 DEF AskedSound
  <2>5. PlannedSound(m)'
    BY <2>1 DEF PlannedSound
  <2> QED
    BY <2>3, <2>4, <2>5
<1>2. AnswersKept
  BY DEF AnswersKept
<1> QED
  BY <1>1, <1>2 DEF InboxIInv

\* Screens, ends of runs, deadlines, lost owners and restarts.
LEMMA OthersKeep ==
  ASSUME InboxIInv,
         Screen \/ RunEnds \/ OwnRunEnds \/ DeadlinePasses \/ ExpireAttempt \/ OwnerLost \/ Restart
  PROVE  InboxIInv' /\ AnswersKept
<1>1. InboxTyped /\ (refusal.m # Nothing => ask.ids = {}) /\ ask \in Questions /\ refusal \in Bindings
      /\ ask.bind \in Bindings
  BY DEF InboxIInv, InboxTyped, Questions
<1>2. CASE Screen
  <2>1. /\ UNCHANGED <<inbox, late, retry, attempt, plan, running, starts, unsure>>
        /\ \/ ask' = ask /\ refusal' = refusal
           \/ ask' = NoAsk /\ refusal' = refusal
           \/ ask' = NoAsk /\ refusal' = ask.bind
    BY <1>2 DEF Screen, inboxHistory
  <2>2. ask' \in Questions /\ refusal' \in Bindings /\ (ask'.ids = {} \/ (ask' = ask /\ refusal' = refusal))
    BY <1>1, <2>1, InboxFacts
  <2>3. InboxTyped'
    BY <1>1, <2>1, <2>2 DEF InboxTyped
  <2> QED
    BY <1>1, <2>1, <2>2, <2>3, QuietKeeps
<1>3. CASE RunEnds \/ OwnRunEnds
  <2>1. /\ UNCHANGED <<inbox, late, retry, attempt, starts, unsure>> /\ ExecutionMoves
        /\ plan' \in {plan, Nothing} /\ running' \in {running, Nothing}
    BY <1>3 DEF RunEnds, OwnRunEnds, inboxHistory
  <2>2. InboxTyped'
    BY <1>1, <2>1, MovesFacts DEF InboxTyped
  <2> QED
    BY <1>1, <2>1, <2>2, MovesFacts, QuietKeeps
<1>4. CASE DeadlinePasses
  <2>1. PICK m \in Messages :
          /\ late' = late \cup {m}
          /\ ask' = [ask EXCEPT !.bind = IF @.m = m THEN Lose(@) ELSE @]
          /\ refusal' = IF refusal.m = m THEN Lose(refusal) ELSE refusal
          /\ UNCHANGED <<inbox, retry, attempt, plan, running, starts, unsure>>
    BY <1>4 DEF DeadlinePasses, inboxHistory
  <2>2. Lose(ask.bind) \in Bindings /\ Lose(refusal) \in Bindings /\ Lose(refusal).m = refusal.m
    BY <1>1, LoseFacts
  <2>3. PICK b \in Bindings : ask' = [ask EXCEPT !.bind = b]
    BY <1>1, <2>1, <2>2
  <2>4. ask' \in Questions /\ ask'.ids = ask.ids /\ ask'.pending = ask.pending
    BY <1>1, <2>3 DEF Questions
  <2>5. refusal' \in Bindings /\ refusal'.m = refusal.m
    BY <1>1, <2>1, <2>2
  <2>6. InboxTyped'
    BY <1>1, <2>1, <2>4, <2>5 DEF InboxTyped
  <2> QED
    BY <1>1, <2>1, <2>4, <2>5, <2>6, QuietKeeps
<1>5. CASE ExpireAttempt
  <2>1. /\ running \in Messages /\ running' = Nothing
        /\ attempt' = [attempt EXCEPT ![running] = "closed"]
        /\ plan' \in {plan, Nothing} /\ ExecutionMoves
        /\ UNCHANGED <<inbox, late, retry, starts, unsure>>
    BY <1>1, <1>5 DEF ExpireAttempt, inboxHistory, InboxTyped
  <2>2. /\ attempt' \in [Messages -> {"none", "fresh", "used", "closed"}]
        /\ \A m \in Messages : attempt'[m] = attempt[m] \/ attempt'[m] = "closed"
    BY <1>1, <2>1 DEF InboxTyped
  <2>3. InboxTyped'
    BY <1>1, <2>1, <2>2, MovesFacts DEF InboxTyped
  <2> QED
    BY <1>1, <2>1, <2>2, <2>3, MovesFacts, QuietKeeps
<1>6. CASE OwnerLost
  <2>1. UNCHANGED <<inbox, late, retry, attempt, plan, running, starts, unsure>> /\ IntentMoves
    BY <1>6 DEF OwnerLost, inboxHistory
  <2>2. InboxTyped'
    BY <1>1, <2>1, MovesFacts DEF InboxTyped
  <2> QED
    BY <1>1, <2>1, <2>2, MovesFacts, QuietKeeps
<1>7. CASE Restart
  <2>1. /\ retry' = [m \in Messages |-> "none"] /\ attempt' = [m \in Messages |-> "none"]
        /\ ask' = NoAsk /\ refusal' = NoBinding /\ plan' = Nothing /\ running' = Nothing
        /\ UNCHANGED <<inbox, late, starts, unsure>>
    BY <1>7 DEF Restart, inboxHistory
  <2>2. InboxTyped'
    BY <1>1, <2>1, InboxFacts DEF InboxTyped
  <2> QED
    BY <1>1, <2>1, <2>2, InboxFacts, QuietKeeps
<1> QED
  BY <1>2, <1>3, <1>4, <1>5, <1>6, <1>7

\* A new message has no past.
LEMMA PostKeeps == ASSUME InboxIInv, Post PROVE InboxIInv' /\ AnswersKept
<1>1. InboxTyped /\ (refusal.m # Nothing => ask.ids = {}) /\ ask \in Questions /\ refusal \in Bindings
  BY DEF InboxIInv, InboxTyped
<1>2. PICK m \in Messages : \E sort \in Sorts[m] :
       /\ inbox[m].status = "none"
       /\ inbox' = [inbox EXCEPT ![m] = [status |-> "queued", kind |-> sort.kind,
                                         high |-> sort.high, bounded |-> sort.bounded]]
       /\ IntentMoves /\ UNCHANGED <<late, retry, attempt, plan, running, starts, unsure>>
  BY DEF Post, inboxHistory
<1>3. PICK sort \in Sorts[m] :
       /\ inbox[m].status = "none"
       /\ inbox' = [inbox EXCEPT ![m] = [status |-> "queued", kind |-> sort.kind,
                                         high |-> sort.high, bounded |-> sort.bounded]]
       /\ IntentMoves /\ UNCHANGED <<late, retry, attempt, plan, running, starts, unsure>>
  BY <1>2
<1>4. PICK row : row = [status |-> "queued", kind |-> sort.kind, high |-> sort.high,
                        bounded |-> sort.bounded]
  OBVIOUS
<1>5. row \in Rows /\ row.status = "queued"
  <2>1. sort \in [kind : MessageKinds, high : BOOLEAN, bounded : BOOLEAN]
    BY InboxAssumption DEF Messages
  <2> QED
    BY <1>4, <2>1 DEF Rows
<1>6. /\ inbox' \in [Messages -> Rows] /\ inbox'[m] = row
      /\ \A n \in Messages \ {m} : inbox'[n] = inbox[n]
  BY <1>1, <1>3, <1>4, <1>5 DEF InboxTyped
<1>7. InboxTyped'
  BY <1>1, <1>3, <1>6, MovesFacts DEF InboxTyped
<1>8. starts[m] = 0 /\ m \notin ask.ids /\ plan # m
  BY <1>3 DEF InboxIInv, MessageSound, AskedSound, PlannedSound
<1>9. ask'.ids = ask.ids /\ ask'.pending = ask.pending /\ refusal'.m = refusal.m
  BY <1>1, <1>3, MovesFacts
<1>10. ASSUME NEW n \in Messages
      PROVE  (MessageSound(n) /\ AttemptSound(n) /\ AskedSound(n) /\ PlannedSound(n))'
  <2>1. MessageSound(n) /\ AttemptSound(n) /\ AskedSound(n) /\ PlannedSound(n)
    BY DEF InboxIInv
  <2>2. CASE n = m
    BY <1>3, <1>5, <1>6, <1>8, <1>9, <2>2
       DEF MessageSound, AttemptSound, AskedSound, PlannedSound
  <2>3. CASE n # m
    <3>1. inbox'[n] = inbox[n] /\ (Once(n)' <=> Once(n))
      BY <1>6, <2>3 DEF Once
    <3>2. MessageSound(n)' /\ AttemptSound(n)'
      BY <1>3, <2>1, <3>1 DEF MessageSound, AttemptSound
    <3>3. AskedSound(n)' /\ PlannedSound(n)'
      BY <1>3, <1>9, <2>1, <3>1 DEF AskedSound, PlannedSound
    <3> QED
      BY <3>2, <3>3
  <2> QED
    BY <2>2, <2>3
<1>11. AnswersKept
  BY <1>3, <1>6 DEF AnswersKept
<1> QED
  BY <1>1, <1>7, <1>9, <1>10, <1>11 DEF InboxIInv

\* A status that was late does not bring an answer back.
LEMMA FlushKeeps == ASSUME InboxIInv, Flush PROVE InboxIInv' /\ AnswersKept
<1>1. InboxTyped /\ (refusal.m # Nothing => ask.ids = {}) /\ ask \in Questions /\ refusal \in Bindings
  BY DEF InboxIInv, InboxTyped
<1>2. PICK m \in Messages :
       /\ retry[m] # "none"
       /\ inbox' = [inbox EXCEPT ![m].status = Stored(@, m, retry[m])]
       /\ retry' = [retry EXCEPT ![m] = "none"]
       /\ IntentMoves \/ UNCHANGED <<ask, refusal>>
       /\ UNCHANGED <<late, attempt, plan, running, starts, unsure>>
  BY DEF Flush, inboxHistory
<1>3. PICK s : s = Stored(inbox[m].status, m, retry[m])
  OBVIOUS
<1>4. /\ s \in {"delivered", "acknowledged", "refused"}
      /\ inbox[m].status = "refused" <=> s = "refused"
      /\ inbox[m].status = "acknowledged" => s = "acknowledged"
  <2>1. MessageSound(m) /\ retry[m] \in {"delivered", "acknowledged"}
    BY <1>1, <1>2 DEF InboxIInv, InboxTyped
  <2> QED
    BY <1>3, <2>1 DEF Stored, MessageSound
<1>5. inbox' = [inbox EXCEPT ![m].status = s]
  BY <1>2, <1>3
<1>6. /\ inbox' \in [Messages -> Rows] /\ inbox'[m].status = s /\ inbox'[m].kind = inbox[m].kind
      /\ inbox'[m].bounded = inbox[m].bounded
      /\ \A n \in Messages \ {m} : inbox'[n] = inbox[n]
  BY <1>1, <1>4, <1>5 DEF InboxTyped, Rows
<1>7. /\ retry' \in [Messages -> {"none", "delivered", "acknowledged"}] /\ retry'[m] = "none"
      /\ \A n \in Messages \ {m} : retry'[n] = retry[n]
  BY <1>1, <1>2 DEF InboxTyped
<1>8. /\ ask' \in Questions /\ ask'.ids = ask.ids /\ ask'.pending = ask.pending
      /\ refusal' \in Bindings /\ refusal'.m = refusal.m
  BY <1>1, <1>2, MovesFacts
<1>9. InboxTyped'
  BY <1>1, <1>2, <1>6, <1>7, <1>8 DEF InboxTyped
<1>10. ASSUME NEW n \in Messages
       PROVE  (MessageSound(n) /\ AttemptSound(n) /\ AskedSound(n) /\ PlannedSound(n))'
  <2>1. MessageSound(n) /\ AttemptSound(n) /\ AskedSound(n) /\ PlannedSound(n)
    BY DEF InboxIInv
  <2>2. Once(n)' <=> Once(n)
    BY <1>6 DEF Once
  <2>3. MessageSound(n)' /\ AttemptSound(n)'
    BY <1>2, <1>4, <1>6, <1>7, <2>1, <2>2 DEF MessageSound, AttemptSound
  <2>4. AskedSound(n)'
    BY <1>2, <1>4, <1>6, <1>8, <2>1 DEF AskedSound
  <2>5. PlannedSound(n)'
    BY <1>2, <1>4, <1>6, <2>1 DEF PlannedSound
  <2> QED
    BY <2>3, <2>4, <2>5
<1>11. AnswersKept
  BY <1>2, <1>4, <1>6 DEF AnswersKept
<1> QED
  BY <1>1, <1>8, <1>9, <1>10, <1>11 DEF InboxIInv

\* What the look at the messages leaves behind, whatever becomes of the question.
Looked(marks, busy) ==
  LET live == Active(inbox)
      owned == {m \in live : inbox[m].bounded}
      over == UsedUp \cap PendingIn(inbox)
      fresh == IF marks THEN {m \in live \ UsedUp : inbox[m].status = "queued"} ELSE {}
      target(m) == IF m \in over THEN "acknowledged" ELSE "delivered"
  IN
  /\ busy \subseteq over \cup fresh
  /\ inbox' = [m \in Messages |->
                 IF m \in (over \cup fresh) \ busy
                 THEN [inbox[m] EXCEPT !.status = Stored(@, m, target(m))] ELSE inbox[m]]
  /\ retry' = [m \in Messages |->
                 IF m \in over \cup fresh THEN Unstored(m, target(m), m \in busy) ELSE retry[m]]
  /\ attempt' = [m \in Messages |-> IF m \in owned THEN Owner(m) ELSE attempt[m]]
  /\ plan' = IF plan \in UsedUp THEN Nothing ELSE plan
  /\ unsure' = unsure \cup (over \cap busy)
  /\ UNCHANGED <<late, refusal, running, starts>>

\* Who is active waits, or is the instruction that goes on.
LEMMA ActiveFacts ==
  ASSUME NEW m \in Active(inbox)
  PROVE  /\ m \in Messages
         /\ \/ inbox[m].status \in {"queued", "delivered"}
            \/ inbox[m].status = "acknowledged" /\ inbox[m].kind = "instruction"
BY DEF Active, Waiting, Standing, PendingIn, TerminalIn

\* One that is active has an owner once it was looked at.
LEMMA OwnerFacts ==
  ASSUME InboxTyped, NEW m \in Messages
  PROVE  /\ Owner(m) \in {"fresh", "used", "closed"}
         /\ Owner(m) = "fresh" /\ attempt[m] # "fresh" => inbox[m].status # "acknowledged"
BY DEF Owner, InboxTyped

\* Each row after a look.
LEMMA LookedFacts ==
  ASSUME InboxTyped, NEW marks \in BOOLEAN, NEW busy, Looked(marks, busy), NEW m \in Messages
  PROVE  /\ inbox'[m] \in Rows /\ inbox'[m].kind = inbox[m].kind
         /\ inbox'[m].bounded = inbox[m].bounded
         /\ retry'[m] \in {"none", "delivered", "acknowledged"}
         /\ \/ inbox'[m].status = inbox[m].status /\ retry'[m] = retry[m]
            \/ /\ inbox[m].status \in {"queued", "delivered"}
               /\ \/ inbox'[m].status = inbox[m].status
                  \/ inbox'[m].status = "delivered"
                  \/ inbox'[m].status = "acknowledged" /\ retry'[m] = "none"
<1>1. inbox[m] \in Rows /\ retry[m] \in {"none", "delivered", "acknowledged"}
  BY DEF InboxTyped
<1>2. PICK t \in {"acknowledged", "delivered"} :
        t = IF m \in UsedUp \cap PendingIn(inbox) THEN "acknowledged" ELSE "delivered"
  OBVIOUS
<1>3. PICK all : all = (UsedUp \cap PendingIn(inbox)) \cup
                    (IF marks THEN {n \in Active(inbox) \ UsedUp : inbox[n].status = "queued"} ELSE {})
  OBVIOUS
<1>4. PICK moved \in BOOLEAN : moved <=> m \in all
  <2>1. m \in all \/ m \notin all
    OBVIOUS
  <2> QED
    BY <2>1
<1>5. moved => inbox[m].status \in {"queued", "delivered"}
  BY <1>3, <1>4 DEF PendingIn
<1>6. /\ inbox'[m] = IF moved /\ m \notin busy THEN [inbox[m] EXCEPT !.status = Stored(@, m, t)] ELSE inbox[m]
      /\ retry'[m] = IF moved THEN Unstored(m, t, m \in busy) ELSE retry[m]
  BY <1>2, <1>3, <1>4 DEF Looked
<1>7. CASE ~moved
  BY <1>1, <1>6, <1>7
<1>8. CASE moved /\ m \in busy
  <2>1. inbox'[m] = inbox[m] /\ retry'[m] = t
    BY <1>6, <1>8 DEF Unstored
  <2> QED
    BY <1>1, <1>5, <1>8, <2>1
<1>9. CASE moved /\ m \notin busy
  <2>1. /\ inbox'[m] = [inbox[m] EXCEPT !.status = Stored(inbox[m].status, m, t)] /\ retry'[m] = "none"
    BY <1>6, <1>9 DEF Unstored
  <2>2. Stored(inbox[m].status, m, t) = t
    BY <1>5, <1>9 DEF Stored
  <2>3. inbox'[m] = [inbox[m] EXCEPT !.status = t]
    BY <2>1, <2>2
  <2>4. /\ inbox'[m] \in Rows /\ inbox'[m].kind = inbox[m].kind
        /\ inbox'[m].bounded = inbox[m].bounded /\ inbox'[m].status = t
    BY <1>1, <2>3 DEF Rows
  <2> QED
    BY <1>5, <1>9, <2>1, <2>4
<1> QED
  BY <1>7, <1>8, <1>9

\* A look keeps the invariant; what it asks about are active messages that are not used up.
LEMMA LookKeeps ==
  ASSUME InboxIInv, NEW marks \in BOOLEAN, NEW busy, Looked(marks, busy), ask' \in Questions,
         refusal.m # Nothing => ask'.ids = {},
         \/ ask'.ids = ask.ids /\ ask'.pending = ask.pending
         \/ /\ ask'.ids = Active(inbox) \ UsedUp
            /\ ask'.pending = (ask'.ids \cap PendingIn(inbox) # {})
  PROVE  InboxIInv' /\ AnswersKept
<1>1. InboxTyped /\ ask \in Questions /\ plan \in Messages \cup {Nothing}
  BY DEF InboxIInv, InboxTyped
<1>2. /\ UNCHANGED <<late, refusal, running, starts>> /\ unsure \subseteq unsure'
      /\ unsure' \subseteq Messages /\ plan' \in {plan, Nothing}
      /\ attempt' = [m \in Messages |->
                   IF m \in Active(inbox) /\ inbox[m].bounded THEN Owner(m) ELSE attempt[m]]
  BY <1>1 DEF Looked, InboxTyped, UsedUp, PendingIn
<1>3. DOMAIN inbox' = Messages /\ DOMAIN retry' = Messages
      /\ inbox' = [m \in Messages |-> inbox'[m]] /\ retry' = [m \in Messages |-> retry'[m]]
  BY DEF Looked
<1>4. InboxTyped'
  <2>1. inbox' \in [Messages -> Rows] /\ retry' \in [Messages -> {"none", "delivered", "acknowledged"}]
    BY <1>1, <1>3, LookedFacts
  <2>2. attempt' \in [Messages -> {"none", "fresh", "used", "closed"}]
    BY <1>1, <1>2, OwnerFacts DEF InboxTyped
  <2> QED
    BY <1>1, <1>2, <2>1, <2>2 DEF InboxTyped
<1>5. ASSUME NEW m \in Messages
      PROVE  (MessageSound(m) /\ AttemptSound(m) /\ AskedSound(m) /\ PlannedSound(m))'
  <2>1. MessageSound(m) /\ AttemptSound(m) /\ AskedSound(m) /\ PlannedSound(m)
    BY DEF InboxIInv
  <2>2. /\ inbox'[m].kind = inbox[m].kind /\ inbox'[m].bounded = inbox[m].bounded
        /\ \/ inbox'[m].status = inbox[m].status /\ retry'[m] = retry[m]
           \/ /\ inbox[m].status \in {"queued", "delivered"}
              /\ \/ inbox'[m].status = inbox[m].status
                 \/ inbox'[m].status = "delivered"
                 \/ inbox'[m].status = "acknowledged" /\ retry'[m] = "none"
    BY <1>1, LookedFacts
  <2>3. Once(m)' <=> Once(m)
    BY <2>2 DEF Once
  <2>4. MessageSound(m)'
    BY <1>2, <2>1, <2>2, <2>3 DEF MessageSound
  <2>5. /\ attempt'[m] = IF m \in Active(inbox) /\ inbox[m].bounded THEN Owner(m) ELSE attempt[m]
        /\ starts'[m] = starts[m] /\ starts[m] \in 0 .. 2
    BY <1>1, <1>2 DEF InboxTyped
  <2>6. AttemptSound(m)'
    <3>1. SUFFICES ASSUME Once(m), m \notin unsure'
                   PROVE  /\ starts[m] <= 1
                          /\ starts[m] = 1 => inbox'[m].status = "acknowledged"
                          /\ inbox[m].bounded /\ attempt'[m] = "fresh" => starts[m] = 0
      BY <2>2, <2>3, <2>5 DEF AttemptSound
    <3>2. /\ starts[m] <= 1 /\ (starts[m] = 1 => inbox[m].status = "acknowledged")
          /\ inbox[m].bounded /\ attempt[m] = "fresh" => starts[m] = 0
      BY <1>2, <2>1, <3>1 DEF AttemptSound
    <3>3. attempt'[m] = "fresh" => attempt[m] = "fresh" \/ inbox[m].status # "acknowledged"
      BY <1>1, <2>5, OwnerFacts
    <3> QED
      BY <2>2, <2>5, <3>2, <3>3
  <2>7. inbox[m].bounded /\ (attempt[m] # "none" \/ m \in Active(inbox)) => attempt'[m] # "none"
    BY <1>1, <2>5, OwnerFacts
  <2>8. PlannedSound(m)'
    BY <1>2, <2>1, <2>2, <2>7, InboxFacts DEF PlannedSound
  <2>9. AskedSound(m)'
    <3>1. CASE ask'.ids = ask.ids /\ ask'.pending = ask.pending
      BY <1>2, <2>1, <2>2, <2>5, <2>7, <3>1 DEF AskedSound
    <3>2. CASE /\ ask'.ids = Active(inbox) \ UsedUp
               /\ ask'.pending = (ask'.ids \cap PendingIn(inbox) # {})
      <4>1. SUFFICES ASSUME m \in ask'.ids PROVE AskedSound(m)'
        BY DEF AskedSound
      <4>2. /\ m \in Active(inbox)
            /\ \/ inbox[m].status \in {"queued", "delivered"}
               \/ inbox[m].status = "acknowledged" /\ inbox[m].kind = "instruction"
        BY <3>2, <4>1, ActiveFacts
      <4>3. ~ask'.pending => inbox[m].status = "acknowledged" /\ inbox[m].kind = "instruction"
        BY <3>2, <4>1, <4>2 DEF PendingIn
      <4>4. inbox[m].kind = "correction" /\ m \notin unsure => starts[m] = 0
        <5>1. inbox[m].kind = "correction" => inbox[m].status # "acknowledged" /\ Once(m)
          BY <4>2 DEF Once
        <5> QED
          BY <2>1, <2>5, <5>1 DEF AttemptSound
      <4> QED
        BY <1>2, <2>2, <2>5, <2>7, <4>2, <4>3, <4>4 DEF AskedSound
    <3> QED
      BY <3>1, <3>2
  <2> QED
    BY <2>4, <2>6, <2>8, <2>9
<1>6. AnswersKept
  <2>1. ASSUME NEW m \in Messages
        PROVE  /\ inbox[m].status = "acknowledged" => inbox'[m].status = "acknowledged"
               /\ inbox[m].status = "refused" => inbox'[m].status = "refused"
    BY <1>1, LookedFacts
  <2> QED
    BY <1>2, <2>1 DEF AnswersKept
<1> QED
  BY <1>2, <1>4, <1>5, <1>6 DEF InboxIInv

\* The message a planner's budget is bound to is one of those it was asked about.
LEMMA BindingFacts ==
  ASSUME NEW ids \in SUBSET Messages, NEW after PROVE Binding(ids, after) \in Bindings
<1>1. CASE Binding(ids, after) = NoBinding
  BY <1>1, InboxFacts
<1>2. CASE Binding(ids, after) # NoBinding
  <2>1. First(after) \in ids /\ Binding(ids, after) = [m |-> First(after), lost |-> FALSE]
    BY <1>2 DEF Binding
  <2> QED
    BY <2>1 DEF Bindings
<1> QED
  BY <1>1, <1>2

\* The messages are looked at: by the planner, by the fast path, or for nothing.
LEMMA InboxLooksKeep ==
  ASSUME InboxIInv, Ask \/ FastPath \/ Decline PROVE InboxIInv' /\ AnswersKept
<1>1. InboxTyped /\ (refusal.m # Nothing => ask.ids = {}) /\ ask \in Questions /\ ask.bind \in Bindings
  BY DEF InboxIInv, InboxTyped, Questions
<1>2. PICK ids \in SUBSET Messages : ids = Active(inbox) \ UsedUp
  BY ActiveFacts
<1>3. PICK pending \in BOOLEAN : pending = (ids \cap PendingIn(inbox) # {})
  OBVIOUS
<1>4. CASE Ask
  <2>1. PICK busy, after : Looked(TRUE, busy) /\ Asked(ids, after) /\ refusal.m = Nothing
    BY <1>2, <1>4 DEF Ask, Look, Looked
  <2>2. PICK b \in {NoBinding, Binding(ids, after)} :
          ask' = [NoAsk EXCEPT !.at = "asked", !.ids = ids, !.pending = pending, !.bind = b]
    BY <1>3, <2>1 DEF Asked
  <2>3. b \in Bindings
    BY <2>2, BindingFacts, InboxFacts
  <2>4. ask' \in Questions /\ ask'.ids = ids /\ ask'.pending = pending
    BY <2>2, <2>3, InboxFacts DEF Questions
  <2> QED
    BY <1>2, <1>3, <2>1, <2>4, LookKeeps
<1>5. CASE FastPath
  <2>1. PICK busy, after : Looked(TRUE, busy) /\ Staged(ids, after) /\ refusal.m = Nothing
    BY <1>2, <1>5 DEF FastPath, Look, Looked
  <2>2. pending /\ ask' = [NoAsk EXCEPT !.at = "staged", !.ids = ids, !.pending = TRUE]
    BY <1>3, <2>1 DEF Staged
  <2>3. ask' \in Questions /\ ask'.ids = ids /\ ask'.pending = pending
    BY <2>2, InboxFacts DEF Questions
  <2> QED
    BY <1>2, <1>3, <2>1, <2>3, LookKeeps
<1>6. CASE Decline
  <2>1. PICK busy : Looked(FALSE, busy)
    BY <1>6 DEF Decline, Look, Looked
  <2>2. ask' = ask \/ ask' = [ask EXCEPT !.bind = Lose(ask.bind)]
    BY <1>6 DEF Decline, Look, Declined
  <2>3. Lose(ask.bind) \in Bindings
    BY <1>1, LoseFacts
  <2>4. ask' \in Questions /\ ask'.ids = ask.ids /\ ask'.pending = ask.pending
    BY <1>1, <2>2, <2>3 DEF Questions
  <2> QED
    BY <1>1, <2>1, <2>4, LookKeeps
<1> QED
  BY <1>4, <1>5, <1>6
\* A set of numbers has a least one.
LEMMA LeastOfNat ==
  ASSUME NEW T, T \subseteq Nat, T # {}
  PROVE  \E x \in T : \A y \in T : x <= y
<1>1. PICK R : R = OpToRel(<, Nat)
  OBVIOUS
<1>2. IsWellFoundedOn(R, Nat)
  BY <1>1, NatLessThanWellFounded
<1>3. R = {ss \in Nat \X Nat : ss[1] < ss[2]}
  BY <1>1 DEF OpToRel
<1>4. PICK x \in T : \A y \in T : ~ (<<y, x>> \in R)
  BY <1>2, WFMin
<1>5. ASSUME NEW y \in T PROVE x <= y
  <2>1. y \in Nat /\ x \in Nat
    OBVIOUS
  <2>2. <<y, x>> \notin R
    BY <1>4
  <2>3. ~(y < x)
    BY <1>3, <2>1, <2>2
  <2> QED
    BY <2>1, <2>3
<1> QED
  BY <1>5


\* While a message waits there is one that is first, and it waits.
LEMMA FirstWaits ==
  ASSUME NEW box \in [Messages -> Rows], Waiting(box) # {}
  PROVE  First(box) \in Waiting(box) /\ First(box) \in PendingIn(box)
<1>1. Waiting(box) \subseteq Nat /\ Waiting(box) \subseteq PendingIn(box)
  BY InboxFacts DEF Waiting, PendingIn
<1>2. PICK T \in SUBSET Waiting(box) :
        /\ T # {}
        /\ \A m \in T, n \in Waiting(box) : ~Outranks(box[n], box[m])
        /\ \A m \in T, n \in Waiting(box) \ T : Outranks(box[m], box[n])
  <2>1. PICK high : high = {m \in Waiting(box) : box[m].high /\ box[m].kind = "correction"}
    OBVIOUS
  <2>2. PICK urgent : urgent = {m \in Waiting(box) : box[m].high}
    OBVIOUS
  <2>3. PICK corrects : corrects = {m \in Waiting(box) : box[m].kind = "correction"}
    OBVIOUS
  <2>4. \A m \in Waiting(box) : box[m].high \in BOOLEAN
    BY <1>1 DEF PendingIn, Rows
  <2>5. CASE urgent = {} /\ corrects = {}
    <3>1. \A m, n \in Waiting(box) : ~Outranks(box[n], box[m])
      BY <2>2, <2>3, <2>5 DEF Outranks
    <3> QED
      BY <3>1
  <2>6. CASE urgent = {} /\ corrects # {}
    <3>1. /\ corrects \in SUBSET Waiting(box)
          /\ \A m \in corrects, n \in Waiting(box) : ~Outranks(box[n], box[m])
          /\ \A m \in corrects, n \in Waiting(box) \ corrects : Outranks(box[m], box[n])
      BY <2>2, <2>3, <2>4, <2>6 DEF Outranks
    <3> QED
      BY <2>6, <3>1
  <2>7. CASE urgent # {} /\ high = {}
    <3>1. /\ urgent \in SUBSET Waiting(box)
          /\ \A m \in urgent, n \in Waiting(box) : ~Outranks(box[n], box[m])
          /\ \A m \in urgent, n \in Waiting(box) \ urgent : Outranks(box[m], box[n])
      BY <2>1, <2>2, <2>4, <2>7 DEF Outranks
    <3> QED
      BY <2>7, <3>1
  <2>8. CASE high # {}
    <3>1. /\ high \in SUBSET Waiting(box)
          /\ \A m \in high, n \in Waiting(box) : ~Outranks(box[n], box[m])
          /\ \A m \in high, n \in Waiting(box) \ high : Outranks(box[m], box[n])
      BY <2>1, <2>4, <2>8 DEF Outranks
    <3> QED
      BY <2>8, <3>1
  <2>9. high # {} => urgent # {}
    BY <2>1, <2>2
  <2> QED
    BY <2>5, <2>6, <2>7, <2>8, <2>9
<1>3. PICK m \in T : \A n \in T : n <= m
  <2>1. \A n \in T : n \in Nat /\ MaxMessages - n \in Nat /\ MaxMessages \in Nat
    BY <1>1, InboxAssumption DEF PendingIn, Messages
  <2>2. PICK R : R = {MaxMessages - n : n \in T}
    OBVIOUS
  <2>3. R \subseteq Nat /\ R # {}
    BY <1>2, <2>1, <2>2
  <2>4. PICK r \in R : \A s \in R : r <= s
    BY <2>3, LeastOfNat
  <2>5. PICK m \in T : r = MaxMessages - m
    BY <2>2
  <2>6. ASSUME NEW n \in T PROVE n <= m
    <3>1. MaxMessages - m <= MaxMessages - n
      BY <2>2, <2>4, <2>5
    <3> QED
      BY <2>1, <3>1
  <2> QED
    BY <2>6
<1>4. \A n \in Waiting(box) \ {m} :
        \/ Outranks(box[m], box[n])
        \/ ~Outranks(box[n], box[m]) /\ n < m
  <2>1. ASSUME NEW n \in Waiting(box) \ {m}, ~Outranks(box[m], box[n])
        PROVE  ~Outranks(box[n], box[m]) /\ n < m
    <3>1. n \in T
      BY <1>2, <2>1
    <3>2. n <= m /\ m # n /\ m \in Nat /\ n \in Nat
      BY <1>1, <1>3, <2>1, <3>1
    <3> QED
      BY <1>2, <2>1, <3>2
  <2> QED
    BY <2>1
<1>5. \E k \in Waiting(box) : \A n \in Waiting(box) \ {k} :
        \/ Outranks(box[k], box[n])
        \/ ~Outranks(box[n], box[k]) /\ n < k
  BY <1>4
<1>6. (CHOOSE k \in Waiting(box) : \A n \in Waiting(box) \ {k} :
         \/ Outranks(box[k], box[n])
         \/ ~Outranks(box[n], box[k]) /\ n < k) \in Waiting(box)
  BY <1>5
<1>7. First(box) \in Waiting(box)
  BY <1>6 DEF First
<1> QED
  BY <1>1, <1>7

\* Only a message that waits is refused, and nothing is asked meanwhile.
LEMMA RefusalKeeps == ASSUME InboxIInv, FlushRefusal PROVE InboxIInv' /\ AnswersKept
<1>1. InboxTyped /\ (refusal.m # Nothing => ask.ids = {}) /\ ask \in Questions /\ refusal \in Bindings
  BY DEF InboxIInv, InboxTyped
<1>2. /\ refusal.m # Nothing /\ UNCHANGED <<late, ask, attempt, plan, running, starts, unsure>>
      /\ ask.ids = {} /\ refusal.m \in Messages
  BY <1>1 DEF FlushRefusal, inboxHistory, Bindings
<1>3. CASE UNCHANGED <<inbox, retry>> /\ refusal' \in {NoBinding, refusal}
  <2>1. InboxTyped'
    BY <1>1, <1>2, <1>3, InboxFacts DEF InboxTyped
  <2> QED
    BY <1>1, <1>2, <1>3, <2>1, QuietKeeps
<1>4. CASE /\ Refuses(refusal.m) /\ inbox' = [inbox EXCEPT ![refusal.m].status = "refused"]
           /\ retry' = [retry EXCEPT ![refusal.m] = "none"] /\ refusal' = NoBinding
  <2>1. PICK m \in Messages : m = refusal.m
    BY <1>2
  <2>2. inbox[m].status \in {"queued", "delivered"}
    BY <1>1, <1>4, <2>1, FirstWaits DEF Refuses, PendingIn, InboxTyped
  <2>3. /\ inbox' \in [Messages -> Rows] /\ inbox'[m].status = "refused"
        /\ inbox'[m].kind = inbox[m].kind /\ inbox'[m].bounded = inbox[m].bounded
        /\ \A n \in Messages \ {m} : inbox'[n] = inbox[n]
    BY <1>1, <1>4, <2>1 DEF InboxTyped, Rows
  <2>4. /\ retry' \in [Messages -> {"none", "delivered", "acknowledged"}] /\ retry'[m] = "none"
        /\ \A n \in Messages \ {m} : retry'[n] = retry[n]
    BY <1>1, <1>4, <2>1 DEF InboxTyped
  <2>5. InboxTyped'
    BY <1>1, <1>2, <1>4, <2>3, <2>4, InboxFacts DEF InboxTyped
  <2>6. ASSUME NEW n \in Messages
        PROVE  (MessageSound(n) /\ AttemptSound(n) /\ AskedSound(n) /\ PlannedSound(n))'
    <3>1. /\ MessageSound(n) /\ AttemptSound(n) /\ AskedSound(n) /\ PlannedSound(n)
          /\ starts[n] \in 0 .. 2
      BY <1>1 DEF InboxIInv, InboxTyped
    <3>2. Once(n)' <=> Once(n)
      BY <2>3 DEF Once
    <3>3. MessageSound(n)'
      BY <1>2, <2>2, <2>3, <2>4, <3>1, <3>2 DEF MessageSound
    <3>4. AttemptSound(n)'
      BY <1>2, <2>2, <2>3, <3>1, <3>2 DEF AttemptSound
    <3>5. AskedSound(n)'
      BY <1>2 DEF AskedSound
    <3>6. PlannedSound(n)'
      BY <1>2, <2>2, <2>3, <3>1 DEF PlannedSound
    <3> QED
      BY <3>3, <3>4, <3>5, <3>6
  <2>7. AnswersKept
    BY <1>2, <2>2, <2>3 DEF AnswersKept
  <2> QED
    BY <1>2, <1>4, <2>5, <2>6, <2>7, InboxFacts DEF InboxIInv
<1> QED
  BY <1>3, <1>4 DEF FlushRefusal

\* A skill is begun for a message, or its attempt closes.
LEMMA BeginFacts ==
  ASSUME InboxTyped, NEW m \in Messages, NEW was \in Messages \cup {Nothing}, BeginSkill(m, was),
         inbox[m].bounded => attempt[m] # "none"
  PROVE  /\ running' \in Messages \cup {Nothing} /\ plan' \in {was, Nothing}
         /\ attempt' \in [Messages -> {"none", "fresh", "used", "closed"}]
         /\ starts' \in [Messages -> 0 .. 2]
         /\ \A n \in Messages \ {m} : attempt'[n] = attempt[n] /\ starts'[n] = starts[n]
         /\ inbox[m].bounded => attempt'[m] \in {"used", "closed"}
         /\ \/ starts'[m] = starts[m]
            \/ /\ inbox[m].bounded => attempt[m] = "fresh"
               /\ starts'[m] = IF ~Once(m) THEN 0 ELSE IF starts[m] = 0 THEN 1 ELSE 2
<1>1. m # Own
  BY InboxFacts
<1>2. CASE AdmitsStart(m)
  <2>1. /\ running' = m /\ plan' = was
        /\ attempt' = [attempt EXCEPT ![m] = IF @ = "fresh" THEN "used" ELSE @]
        /\ starts' = [starts EXCEPT ![m] = IF ~Once(m) THEN 0 ELSE IF @ = 0 THEN 1 ELSE 2]
        /\ attempt[m] = "none" \/ attempt[m] = "fresh"
    BY <1>1, <1>2 DEF BeginSkill, AdmitsStart
  <2> QED
    BY <2>1 DEF InboxTyped
<1>3. CASE ~AdmitsStart(m)
  <2>1. /\ attempt' = [attempt EXCEPT ![m] = "closed"] /\ UNCHANGED starts
        /\ running' = IF running = m THEN Nothing ELSE running
        /\ plan' = IF was = m THEN Nothing ELSE was
    BY <1>1, <1>3 DEF BeginSkill
  <2> QED
    BY <2>1 DEF InboxTyped
<1> QED
  BY <1>2, <1>3

\* The next step of a plan is begun: one that may be attempted once was answered.
LEMMA PlanStepKeeps == ASSUME InboxIInv, PlanStep PROVE InboxIInv' /\ AnswersKept
<1>1. InboxTyped /\ (refusal.m # Nothing => ask.ids = {})
  BY DEF InboxIInv
<1>2. PICK m \in Messages : m = plan
  BY <1>1 DEF PlanStep, InboxTyped
<1>3. BeginSkill(m, m) /\ UNCHANGED <<inbox, late, retry, ask, refusal, unsure>>
  BY <1>2 DEF PlanStep
<1>4. /\ MessageSound(m) /\ AttemptSound(m) /\ AskedSound(m) /\ PlannedSound(m)
      /\ starts[m] \in 0 .. 2 /\ m # Nothing
  BY <1>1, InboxFacts DEF InboxIInv, InboxTyped
<1>5. /\ inbox[m].status # "none" /\ (inbox[m].bounded => attempt[m] # "none")
      /\ Once(m) /\ m \notin unsure => inbox[m].bounded /\ inbox[m].status = "acknowledged"
      /\ inbox[m].kind # "correction"
  BY <1>2, <1>4 DEF PlannedSound, Once
<1>6. /\ running' \in Messages \cup {Nothing} /\ plan' \in {m, Nothing}
      /\ attempt' \in [Messages -> {"none", "fresh", "used", "closed"}]
      /\ starts' \in [Messages -> 0 .. 2]
      /\ \A n \in Messages \ {m} : attempt'[n] = attempt[n] /\ starts'[n] = starts[n]
      /\ inbox[m].bounded => attempt'[m] \in {"used", "closed"}
      /\ \/ starts'[m] = starts[m]
         \/ /\ inbox[m].bounded => attempt[m] = "fresh"
            /\ starts'[m] = IF ~Once(m) THEN 0 ELSE IF starts[m] = 0 THEN 1 ELSE 2
  BY <1>1, <1>3, <1>5, BeginFacts
<1>7. InboxTyped'
  BY <1>1, <1>3, <1>6 DEF InboxTyped
<1>8. ASSUME NEW n \in Messages
      PROVE  (MessageSound(n) /\ AttemptSound(n) /\ AskedSound(n) /\ PlannedSound(n))'
  <2>1. MessageSound(n) /\ AttemptSound(n) /\ AskedSound(n) /\ PlannedSound(n) /\ n # Nothing
    BY InboxFacts DEF InboxIInv
  <2>2. Once(n)' <=> Once(n)
    BY <1>3 DEF Once
  <2>3. MessageSound(n)'
    BY <1>3, <1>4, <1>5, <1>6, <2>1, <2>2 DEF MessageSound
  <2>4. AttemptSound(n)'
    <3>1. CASE n = m
      BY <1>3, <1>4, <1>5, <1>6, <2>2, <3>1 DEF AttemptSound
    <3>2. CASE n # m
      BY <1>3, <1>6, <2>1, <2>2, <3>2 DEF AttemptSound
    <3> QED
      BY <3>1, <3>2
  <2>5. AskedSound(n)'
    BY <1>3, <1>5, <1>6, <2>1 DEF AskedSound
  <2>6. PlannedSound(n)'
    BY <1>2, <1>3, <1>6, <2>1 DEF PlannedSound
  <2> QED
    BY <2>3, <2>4, <2>5, <2>6
<1>9. AnswersKept
  <2>1. ASSUME NEW n \in Messages, inbox[n].status = "refused", Once(n), n \notin unsure
        PROVE  starts'[n] = starts[n]
    BY <1>5, <1>6, <2>1
  <2> QED
    BY <1>3, <2>1 DEF AnswersKept
<1> QED
  BY <1>1, <1>3, <1>7, <1>8, <1>9 DEF InboxIInv

\* What a decision for a message answers: the message itself, now or unsure, unless it
\* was answered before.
DecisionAnswers(m, skill, steps) ==
  \E busy \in BOOLEAN :
    LET answers == m \in Sampled /\ (skill \/ steps \/ (inbox[m].kind = "question")) IN
    \/ /\ inbox' = [inbox EXCEPT ![m].status = IF busy THEN @ ELSE Stored(@, m, "acknowledged")]
       /\ retry' = [retry EXCEPT ![m] = Unstored(m, "acknowledged", busy)]
       /\ unsure' = IF busy /\ Once(m) THEN unsure \cup {m} ELSE unsure
       /\ m \in Sampled
    \/ /\ UNCHANGED <<inbox, retry, unsure>>
       /\ ~(m \in Sampled /\ (skill \/ steps))

\* What a decision for a message of its context does to the rows.
LEMMA AnswerFacts ==
  ASSUME InboxIInv, NEW m \in ask.ids, NEW skill \in BOOLEAN, NEW steps \in BOOLEAN,
         DecisionAnswers(m, skill, steps)
  PROVE  /\ m \in Messages
         /\ inbox' \in [Messages -> Rows] /\ inbox'[m].kind = inbox[m].kind
         /\ inbox'[m].bounded = inbox[m].bounded
         /\ inbox'[m].status = inbox[m].status \/ inbox'[m].status = "acknowledged"
         /\ retry' \in [Messages -> {"none", "delivered", "acknowledged"}]
         /\ inbox'[m].status = "acknowledged" => retry'[m] # "delivered"
         /\ \A n \in Messages \ {m} : inbox'[n] = inbox[n] /\ retry'[n] = retry[n]
         /\ unsure \subseteq unsure' /\ unsure' \subseteq unsure \cup {m}
         /\ skill \/ steps =>
              inbox'[m].status = "acknowledged" \/ (Once(m) => m \in unsure')
<1>1. /\ InboxTyped /\ m \in Messages /\ MessageSound(m) /\ AskedSound(m)
      /\ ask.pending \in BOOLEAN
  BY DEF InboxIInv, InboxTyped, Questions
<1>2. /\ inbox[m].status \notin {"none", "refused"} /\ (m \notin Sampled => inbox[m].status = "acknowledged")
  BY <1>1 DEF AskedSound, Sampled
<1>3. PICK busy \in BOOLEAN :
    \/ /\ inbox' = [inbox EXCEPT ![m].status = IF busy THEN @ ELSE Stored(@, m, "acknowledged")]
       /\ retry' = [retry EXCEPT ![m] = Unstored(m, "acknowledged", busy)]
       /\ unsure' = IF busy /\ Once(m) THEN unsure \cup {m} ELSE unsure
    \/ /\ UNCHANGED <<inbox, retry, unsure>>
       /\ ~(m \in Sampled /\ (skill \/ steps))
  BY DEF DecisionAnswers
<1>4. CASE UNCHANGED <<inbox, retry, unsure>> /\ ~(m \in Sampled /\ (skill \/ steps))
  BY <1>1, <1>2, <1>4 DEF InboxTyped, MessageSound, Rows
<1>5. CASE /\ inbox' = [inbox EXCEPT ![m].status = IF busy THEN @ ELSE Stored(@, m, "acknowledged")]
           /\ retry' = [retry EXCEPT ![m] = Unstored(m, "acknowledged", busy)]
           /\ unsure' = IF busy /\ Once(m) THEN unsure \cup {m} ELSE unsure
  <2>1. PICK s : s = IF busy THEN inbox[m].status ELSE "acknowledged"
    OBVIOUS
  <2>2. PICK r \in {"none", "acknowledged"} : r = Unstored(m, "acknowledged", busy)
    BY DEF Unstored
  <2>3. Stored(inbox[m].status, m, "acknowledged") = "acknowledged"
    BY <1>2 DEF Stored
  <2>4. inbox' = [inbox EXCEPT ![m].status = s] /\ retry' = [retry EXCEPT ![m] = r]
    BY <1>5, <2>1, <2>2, <2>3
  <2>5. s \in {"queued", "delivered", "acknowledged"}
    BY <1>1, <1>2, <2>1 DEF InboxTyped, Rows
  <2>6. /\ inbox' \in [Messages -> Rows] /\ inbox'[m].kind = inbox[m].kind
        /\ inbox'[m].bounded = inbox[m].bounded /\ inbox'[m].status = s
        /\ \A n \in Messages \ {m} : inbox'[n] = inbox[n]
    BY <1>1, <2>4, <2>5 DEF InboxTyped, Rows
  <2>7. /\ retry' \in [Messages -> {"none", "delivered", "acknowledged"}] /\ retry'[m] = r
        /\ \A n \in Messages \ {m} : retry'[n] = retry[n]
    BY <1>1, <2>2, <2>4 DEF InboxTyped
  <2> QED
    BY <1>1, <1>5, <2>1, <2>2, <2>6, <2>7
<1> QED
  BY <1>3, <1>4, <1>5

\* A decision: the question is gone, what it is about was answered before it begins.
LEMMA DecideKeeps ==
  ASSUME InboxIInv, NEW m \in ask.ids \cup {Own}, NEW does, Decide(m, does), ask' = NoAsk,
         UNCHANGED <<late, refusal>>
  PROVE  InboxIInv' /\ AnswersKept
<1>1. /\ InboxTyped /\ ask \in Questions /\ plan \in Messages \cup {Nothing}
      /\ ask.ids \subseteq Messages /\ ask' \in Questions /\ ask'.ids = {}
  BY InboxFacts DEF InboxIInv, InboxTyped, Questions
<1>2. PICK skill \in BOOLEAN : skill <=> does \in {"skill", "both"}
  <2>1. does \in {"skill", "both"} \/ does \notin {"skill", "both"}
    OBVIOUS
  <2> QED
    BY <2>1
<1>3. PICK steps \in BOOLEAN : steps <=> Steps(m, does)
  <2>1. Steps(m, does) \/ ~Steps(m, does)
    OBVIOUS
  <2> QED
    BY <2>1
<1>4. PICK begins \in BOOLEAN, was \in Adopted(m, Steps(m, does), does \in {"skill", "both"}) :
       /\ begins => skill
       /\ IF begins THEN BeginSkill(m, was) ELSE plan' = was /\ UNCHANGED <<attempt, running, starts>>
  BY <1>2 DEF Decide
<1>5. was \in {plan, Nothing} \/ (was = m /\ steps /\ m # Own)
  BY <1>3, <1>4 DEF Adopted
<1>6. CASE m = Own
  <2>1. m \notin Sampled
    BY <1>1, <1>6, InboxFacts DEF Sampled
  <2>2. UNCHANGED <<inbox, retry, unsure>>
    BY <2>1 DEF Decide
  <2>3. /\ UNCHANGED <<attempt, starts>> /\ plan' \in {plan, Nothing}
        /\ running' \in {running, Nothing}
    BY <1>4, <1>5, <1>6 DEF BeginSkill
  <2>4. InboxTyped'
    BY <1>1, <2>2, <2>3 DEF InboxTyped
  <2> QED
    BY <1>1, <2>2, <2>3, <2>4, QuietKeeps
<1>7. CASE m \in ask.ids
  <2>1. DecisionAnswers(m, skill, steps)
    BY <1>2, <1>3 DEF Decide, DecisionAnswers
  <2>2. /\ m \in Messages
        /\ inbox' \in [Messages -> Rows] /\ inbox'[m].kind = inbox[m].kind
        /\ inbox'[m].bounded = inbox[m].bounded
        /\ inbox'[m].status = inbox[m].status \/ inbox'[m].status = "acknowledged"
        /\ retry' \in [Messages -> {"none", "delivered", "acknowledged"}]
        /\ inbox'[m].status = "acknowledged" => retry'[m] # "delivered"
        /\ \A n \in Messages \ {m} : inbox'[n] = inbox[n] /\ retry'[n] = retry[n]
        /\ unsure \subseteq unsure' /\ unsure' \subseteq unsure \cup {m}
        /\ skill \/ steps =>
              inbox'[m].status = "acknowledged" \/ (Once(m) => m \in unsure')
    BY <1>7, <2>1, AnswerFacts
  <2>3. /\ MessageSound(m) /\ AttemptSound(m) /\ AskedSound(m) /\ PlannedSound(m)
        /\ starts[m] \in 0 .. 2 /\ attempt[m] \in {"none", "fresh", "used", "closed"}
        /\ m # Nothing /\ m # Own /\ ask.pending \in BOOLEAN
    BY <1>1, <2>2, InboxFacts DEF InboxIInv, InboxTyped, Questions
  <2>4. /\ inbox[m].status \notin {"none", "refused"} /\ (inbox[m].bounded => attempt[m] # "none")
        /\ inbox[m].kind = "correction" => m \in Sampled
    BY <1>7, <2>3 DEF AskedSound, Sampled
  <2>5. steps => inbox[m].kind # "correction"
    BY <1>3, <2>4 DEF Steps
  <2>6. was \in Messages \cup {Nothing}
    BY <1>1, <1>5, <2>2
  <2>7. /\ running' \in Messages \cup {Nothing} /\ plan' \in {was, Nothing}
        /\ attempt' \in [Messages -> {"none", "fresh", "used", "closed"}]
        /\ starts' \in [Messages -> 0 .. 2]
        /\ \A n \in Messages \ {m} : attempt'[n] = attempt[n] /\ starts'[n] = starts[n]
        /\ inbox[m].bounded => attempt'[m] # "none" /\ (attempt'[m] = "fresh" => attempt'[m] = attempt[m])
        /\ \/ starts'[m] = starts[m]
           \/ /\ skill /\ (inbox[m].bounded => attempt[m] = "fresh" /\ attempt'[m] # "fresh")
              /\ starts'[m] = IF ~Once(m) THEN 0 ELSE IF starts[m] = 0 THEN 1 ELSE 2
    <3>1. CASE begins
      <4>1. BeginSkill(m, was) /\ skill
        BY <1>4, <3>1
      <4> QED
        BY <1>1, <2>2, <2>4, <2>6, <4>1, BeginFacts
    <3>2. CASE ~begins
      BY <1>1, <1>4, <2>4, <2>6, <3>2 DEF InboxTyped
    <3> QED
      BY <3>1, <3>2
  <2>8. InboxTyped'
    BY <1>1, <2>2, <2>6, <2>7 DEF InboxTyped
  <2>9. ASSUME NEW n \in Messages
        PROVE  (MessageSound(n) /\ AttemptSound(n) /\ AskedSound(n) /\ PlannedSound(n))'
    <3>1. MessageSound(n) /\ AttemptSound(n) /\ PlannedSound(n) /\ n # Nothing
      BY InboxFacts DEF InboxIInv
    <3>2. inbox'[n].kind = inbox[n].kind /\ inbox'[n].bounded = inbox[n].bounded
      BY <2>2
    <3>3. Once(n)' <=> Once(n)
      BY <3>2 DEF Once
    <3>4. AskedSound(n)'
      BY <1>1 DEF AskedSound
    <3>5. CASE n # m
      <4>1. MessageSound(n)' /\ AttemptSound(n)'
        BY <2>2, <2>7, <3>1, <3>3, <3>5 DEF MessageSound, AttemptSound
      <4>2. plan' = n => plan = n
        BY <1>5, <2>7, <3>1, <3>5
      <4>3. PlannedSound(n)'
        BY <2>2, <2>7, <3>1, <3>5, <4>2 DEF PlannedSound
      <4> QED
        BY <3>4, <4>1, <4>3
    <3>6. CASE n = m
      <4>1. MessageSound(m)'
        BY <2>2, <2>3, <2>4, <2>7, <3>3, <3>6 DEF MessageSound
      <4>2. AttemptSound(m)'
        <5>1. SUFFICES ASSUME Once(m), m \notin unsure'
                       PROVE  /\ starts'[m] <= 1
                              /\ starts'[m] = 1 => inbox'[m].status = "acknowledged"
                              /\ inbox[m].bounded /\ attempt'[m] = "fresh" => starts'[m] = 0
          BY <3>2, <3>3, <3>6 DEF AttemptSound
        <5>2. /\ starts[m] <= 1 /\ (starts[m] = 1 => inbox[m].status = "acknowledged")
              /\ inbox[m].bounded /\ attempt[m] = "fresh" => starts[m] = 0
              /\ m \notin unsure
          BY <2>2, <2>3, <5>1 DEF AttemptSound
        <5>3. inbox[m].kind = "correction" /\ ~inbox[m].bounded => starts[m] = 0
          BY <1>7, <2>3, <5>2 DEF AskedSound
        <5>4. CASE starts'[m] = starts[m]
          BY <2>2, <2>3, <2>7, <5>2, <5>4
        <5>5. CASE /\ skill /\ (inbox[m].bounded => attempt[m] = "fresh" /\ attempt'[m] # "fresh")
                   /\ starts'[m] = IF ~Once(m) THEN 0 ELSE IF starts[m] = 0 THEN 1 ELSE 2
          <6>1. starts[m] = 0
            BY <5>1, <5>2, <5>3, <5>5 DEF Once
          <6>2. starts'[m] = 1 /\ inbox'[m].status = "acknowledged"
            BY <2>2, <5>1, <5>5, <6>1
          <6> QED
            BY <5>5, <6>2
        <5> QED
          BY <2>7, <5>4, <5>5
      <4>3. PlannedSound(m)'
        <5>1. SUFFICES ASSUME plan' = m PROVE PlannedSound(m)'
          BY DEF PlannedSound
        <5>2. plan = m \/ steps
          BY <1>5, <2>3, <2>7, <5>1
        <5>3. inbox'[m].kind # "correction"
          BY <2>2, <2>3, <2>5, <5>2 DEF PlannedSound
        <5>4. inbox[m].bounded /\ m \notin unsure' => inbox'[m].status = "acknowledged"
          BY <2>2, <2>3, <5>2 DEF PlannedSound, Once
        <5> QED
          BY <2>2, <2>4, <2>7, <5>3, <5>4 DEF PlannedSound
      <4> QED
        BY <3>4, <3>6, <4>1, <4>2, <4>3
    <3> QED
      BY <3>5, <3>6
  <2>10. AnswersKept
    BY <2>2, <2>4, <2>7 DEF AnswersKept
  <2> QED
    BY <1>1, <2>8, <2>9, <2>10 DEF InboxIInv
<1> QED
  BY <1>6, <1>7

\* Every step keeps the invariant and the answers.
LEMMA InboxKeeps ==
  ASSUME InboxIInv, [InboxNext]_inboxVars PROVE InboxIInv' /\ AnswersKept
<1>1. CASE Post \/ Flush
  BY <1>1, PostKeeps, FlushKeeps
<1>2. CASE Ask \/ FastPath \/ Decline
  BY <1>2, InboxLooksKeep
<1>3. CASE Apply
  <2>1. ask' = NoAsk /\ UNCHANGED <<late, refusal>>
    BY <1>3 DEF Apply
  <2>2. PICK m \in ask.ids \cup {Own}, does \in {"skill", "steps", "both", "reply"} : Decide(m, does)
    BY <1>3 DEF Apply, Sampled
  <2> QED
    BY <2>1, <2>2, DecideKeeps
<1>4. CASE FlushRefusal \/ PlanStep
  BY <1>4, RefusalKeeps, PlanStepKeeps
<1>5. CASE Screen \/ RunEnds \/ OwnRunEnds \/ DeadlinePasses \/ ExpireAttempt \/ OwnerLost \/ Restart
  BY <1>5, OthersKeep
<1>6. CASE UNCHANGED inboxVars
  <2>1. UNCHANGED <<inbox, late, retry, ask, refusal, attempt, plan, running, starts, unsure>>
    BY <1>6 DEF inboxVars, memory, inboxHistory
  <2>2. InboxTyped' /\ (refusal.m # Nothing => ask.ids = {})
    BY <2>1 DEF InboxIInv, InboxTyped
  <2> QED
    BY <2>1, <2>2, QuietKeeps
<1> QED
  BY <1>1, <1>2, <1>3, <1>4, <1>5, <1>6 DEF InboxNext

\* At the beginning there are no messages.
LEMMA InboxStarts == InboxInit => InboxIInv
<1> SUFFICES ASSUME InboxInit PROVE InboxIInv
  OBVIOUS
<1>1. NoMessage \in Rows /\ NoMessage.status = "none"
  BY DEF NoMessage, Rows, MessageKinds
<1>2. InboxTyped
  BY <1>1, InboxFacts DEF InboxInit, InboxTyped
<1>3. ASSUME NEW m \in Messages
      PROVE  MessageSound(m) /\ AttemptSound(m) /\ AskedSound(m) /\ PlannedSound(m)
  BY <1>1, InboxFacts DEF InboxInit, MessageSound, AttemptSound, AskedSound, PlannedSound
<1> QED
  BY <1>2, <1>3, InboxFacts DEF InboxInit, InboxIInv

\* The invariant says how often a message was attempted.
LEMMA InboxImplied == InboxIInv => InboxSound
<1> SUFFICES ASSUME InboxIInv PROVE InboxSound
  OBVIOUS
<1>1. InboxTypeOK
  BY DEF InboxIInv, InboxTyped, InboxTypeOK, Rows
<1>2. ASSUME NEW m \in Messages, starts[m] > 1 PROVE m \in unsure
  <2>1. AttemptSound(m) /\ MessageSound(m) /\ starts[m] \in 0 .. 2
    BY DEF InboxIInv, InboxTyped
  <2>2. Once(m)
    BY <1>2, <2>1 DEF MessageSound
  <2> QED
    BY <1>2, <2>1, <2>2 DEF AttemptSound
<1> QED
  BY <1>1, <1>2 DEF InboxSound, AttemptedOnce

(***************************************************************************)
(* A correction, and a request with a budget of one skill, is attempted    *)
(* once, over restarts and planners that answer late, unless its answer    *)
(* could not be stored at once (runtime.py, _consume_cognition_decision;   *)
(* memory/storage.py:845-981).                                             *)
(***************************************************************************)
THEOREM InboxSafety == InboxSpec => []InboxSound
<1>1. InboxSpec => []InboxIInv
  BY InboxStarts, InboxKeeps, PTL DEF InboxSpec
<1> QED
  BY <1>1, InboxImplied, PTL

\* An answer is final, whatever was late or retried, and what is refused starts nothing
\* (update_operator_message_status, _publish_planner_budget_refusal).
THEOREM AnswersFinal == InboxSpec => AnswersStand
<1>1. InboxSpec => []InboxIInv
  BY InboxStarts, InboxKeeps, PTL DEF InboxSpec
<1>2. InboxIInv /\ [InboxNext]_inboxVars => [AnswersKept]_inboxVars
  BY InboxKeeps
<1> QED
  BY <1>1, <1>2, PTL DEF InboxSpec, AnswersStand, AnswersKept
=============================================================================

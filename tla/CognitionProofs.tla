---------------------------- MODULE CognitionProofs ----------------------------
(***************************************************************************)
(* Proofs about what the model decides and what carries it out: the        *)
(* service of one literal request, the attack of a skill, a craft, and a   *)
(* decision on its way to the runtime; for every number of requests,       *)
(* skills, clicks, revisions and attempts.                                 *)
(***************************************************************************)
EXTENDS BoundCognition, SkillExecutor, PlankCraft, PlanProgress, RequestOnly,
        WellFoundedInduction, TLAPS

(***************************************************************************)
(* The service of one literal request.                                     *)
(***************************************************************************)
Steps == {"tick", "bind", "start", "check", "act", "authority", "send", "finish"}
Fences == [state : {"waiting", "running", "terminal"}, for : Surveys \cup {NoSurvey}, moved : BOOLEAN]

SurveyTyped ==
  /\ survey \in [Surveys -> {"none", "queued", "acknowledged"}]
  /\ served \in [Surveys -> 0 .. 2]
  /\ old \subseteq Surveys /\ overdue \subseteq Surveys /\ marks \subseteq {"pause", "emergency"}
  /\ fence \in Fences /\ task \in {"none", "running", "over"} /\ step \in Steps
  /\ held \in BOOLEAN /\ ending \in BOOLEAN

\* Between its admission and its binding a request is the only one that waits,
\* unless the operator has written since.
ToBeBound ==
  step = "bind" =>
    /\ fence.state = "waiting" /\ fence.for \in Surveys /\ fence.for \notin old
    /\ ~fence.moved => Unserved = {fence.for}

\* A running fence serves a request that was answered, and none other waits,
\* unless the operator has written since.
Bound ==
  fence.state = "running" /\ step # "finish" =>
    /\ fence.for \in Surveys /\ fence.for \notin old /\ survey[fence.for] = "acknowledged"
    /\ ~fence.moved => Unserved = {}

\* Where the tick stands, the fence stands: nothing moves before it runs or after it closed.
FenceInStep ==
  /\ step \in {"start", "check", "act", "authority", "send"} => fence.state = "running"
  /\ fence.state = "waiting" => task = "none"
  /\ fence.state = "terminal" /\ step # "finish" => task # "running"
  /\ step = "start" => served[fence.for] = 0
  /\ step = "send" => task = "running" /\ ~fence.moved /\ "pause" \notin marks

SurveyIInv == SurveyTyped /\ ToBeBound /\ Bound /\ FenceInStep /\ SurveyedOnce


\* No request is no request.
LEMMA SurveyVocabulary == Surveys \subseteq Nat \ {0} /\ NoSurvey = 0 /\ NoSurvey \notin Surveys
  BY RequestOnlyAssumption DEF Surveys, NoSurvey

\* The request's invariant holds at the start: every message is yet to be posted.
LEMMA SurveyStarts == SurveyInit => SurveyIInv
<1> SUFFICES ASSUME SurveyInit PROVE SurveyIInv
  OBVIOUS
<1>1. /\ survey \in [Surveys -> {"none", "queued", "acknowledged"}]
      /\ \A m \in Surveys : survey[m] = "none"
  BY DEF SurveyInit
<1>2. served \in [Surveys -> 0 .. 2] /\ \A m \in Surveys : served[m] = 0
  <2>1. \A m \in Surveys : 0 \in 0 .. 2
    OBVIOUS
  <2>2. served = [m \in Surveys |-> 0]
    BY DEF SurveyInit
  <2>3. served \in [Surveys -> 0 .. 2]
    BY <2>1, <2>2
  <2> QED
    BY <2>2, <2>3
<1>3. fence \in Fences /\ fence.state = "waiting"
  BY DEF SurveyInit, NewFence, Fences
<1>4. step = "tick" /\ task = "none" /\ old = {} /\ overdue = {} /\ marks = {}
      /\ held \in BOOLEAN /\ ending \in BOOLEAN
  BY DEF SurveyInit
<1>5. SurveyTyped
  BY <1>1, <1>2, <1>3, <1>4 DEF SurveyTyped, Steps
<1>6. ToBeBound /\ Bound /\ FenceInStep
  BY <1>3, <1>4 DEF ToBeBound, Bound, FenceInStep
<1>7. SurveyedOnce
  BY <1>2 DEF SurveyedOnce
<1> QED
  BY <1>5, <1>6, <1>7 DEF SurveyIInv

\* Every step of the tick, of the operator, of time and of a restart preserves it.
LEMMA SurveySteps == SurveyIInv /\ [SurveyNext]_surveyVars => SurveyIInv'
<1> SUFFICES ASSUME SurveyIInv, [SurveyNext]_surveyVars PROVE SurveyIInv'
  OBVIOUS
<1> USE SurveyVocabulary DEF SurveyIInv, SurveyTyped, ToBeBound, Bound, FenceInStep, SurveyedOnce,
        Unserved, Steps, Fences, Go
<1>1. CASE LetGoFirst
  BY <1>1 DEF LetGoFirst
<1>2. CASE GiveUp
  BY <1>2 DEF GiveUp
<1>3. CASE AdmitSurvey
  <2>1. PICK m \in Unserved :
          /\ step = "tick" /\ fence.state = "waiting" /\ Admitted(m)
          /\ \/ fence' = [fence EXCEPT !.state = "terminal"] /\ step' = "tick"
             \/ fence' = [fence EXCEPT !.for = m, !.moved = FALSE] /\ step' = "bind"
    BY <1>3 DEF AdmitSurvey
  <2>2. UNCHANGED <<survey, old, overdue, marks, task, held, ending, served>>
    BY <1>3 DEF AdmitSurvey
  <2>3. m \in Surveys /\ m \notin old /\ Unserved = {m}
    BY <2>1 DEF Admitted
  <2>4. CASE fence' = [fence EXCEPT !.state = "terminal"] /\ step' = "tick"
    BY <2>1, <2>2, <2>4
  <2>5. CASE fence' = [fence EXCEPT !.for = m, !.moved = FALSE] /\ step' = "bind"
    <3>1. fence' \in Fences /\ fence'.state = "waiting" /\ fence'.for = m
      BY <2>1, <2>3, <2>5
    <3> QED
      BY <2>1, <2>2, <2>3, <2>5, <3>1
  <2> QED
    BY <2>1, <2>4, <2>5
<1>4. CASE Bind
  BY <1>4 DEF Bind
<1>5. CASE StartSurvey
  BY <1>5 DEF StartSurvey, Latched
<1>6. CASE ContinueSurvey
  BY <1>6 DEF ContinueSurvey
<1>7. CASE Check
  BY <1>7 DEF Check, InForce
<1>8. CASE SurveyActs
  BY <1>8 DEF SurveyActs
<1>9. CASE Authority
  BY <1>9 DEF Authority, InForce, Latched
<1>10. CASE Send
  BY <1>10 DEF Send
<1>11. CASE FinishSurvey
  BY <1>11 DEF FinishSurvey
<1>12. CASE PostSurvey
  <2>1. PICK m \in Surveys : step # "send" /\ survey[m] = "none" /\ survey' = [survey EXCEPT ![m] = "queued"]
    BY <1>12 DEF PostSurvey, Writing
  <2>2. /\ fence.for = NoSurvey => fence' = fence
        /\ fence.for # NoSurvey => fence' = [fence EXCEPT !.moved = TRUE]
    BY <1>12 DEF PostSurvey
  <2>3. UNCHANGED <<old, overdue, marks, task, held, step, ending, served>>
    BY <1>12 DEF PostSurvey
  <2>4. fence' \in Fences /\ fence'.state = fence.state /\ fence'.for = fence.for
    BY <2>2
  <2>5. fence.for \in Surveys => fence'.moved
    BY <2>2
  <2>6. /\ survey' \in [Surveys -> {"none", "queued", "acknowledged"}]
        /\ \A n \in Surveys : survey[n] = "acknowledged" => survey'[n] = "acknowledged"
    BY <2>1
  <2>7. SurveyTyped' /\ SurveyedOnce'
    BY <2>3, <2>4, <2>6
  <2> QED
    BY <2>1, <2>3, <2>4, <2>5, <2>6, <2>7
<1>13. CASE Mark
  BY <1>13 DEF Mark, Locked
<1>14. CASE TimePasses
  BY <1>14 DEF TimePasses
<1>15. CASE NextProcess
  BY <1>15 DEF NextProcess, NewFence
<1>16. CASE UNCHANGED surveyVars
  BY <1>16 DEF surveyVars
<1> QED
  BY <1>1, <1>2, <1>3, <1>4, <1>5, <1>6, <1>7, <1>8, <1>9, <1>10, <1>11, <1>12, <1>13, <1>14, <1>15, <1>16 DEF SurveyNext

\* What the runs check of a literal request follows from the invariant.
LEMMA SurveySuffices == SurveyIInv => RequestSound
<1> SUFFICES ASSUME SurveyIInv PROVE RequestSound
  OBVIOUS
<1> USE SurveyVocabulary DEF SurveyIInv, SurveyTyped, Fences
<1>1. SurveyTypeOK
  BY DEF SurveyTypeOK
<1>2. MotionIsAuthorized
  BY DEF MotionIsAuthorized, Bound, FenceInStep
<1>3. ClosedIsStill
  BY DEF ClosedIsStill, FenceInStep
<1> QED
  BY <1>1, <1>2, <1>3 DEF RequestSound

(***************************************************************************)
(* For every number of posted requests: a motion leaves only for the one   *)
(* request that was bound, while nothing the operator wrote came after it  *)
(* and never under a pause; a request is served once, over crashes and     *)
(* restarts, and only after it was answered; and a closed fence leaves     *)
(* nothing running (request_only.py, runtime.py:724-955).                  *)
(***************************************************************************)
THEOREM RequestSafety == SurveySpec => []RequestSound
<1>1. SurveyIInv /\ [SurveyNext]_surveyVars => SurveyIInv'
  BY SurveySteps
<1> QED
  BY SurveyStarts, <1>1, SurveySuffices, PTL DEF SurveySpec

(***************************************************************************)
(* The attack of a skill.                                                  *)
(***************************************************************************)
Guards ==
  [held : SUBSET Inputs, lease : BOOLEAN, kept : BOOLEAN, wish : {"none", "latched", "settling"},
   fresh : BOOLEAN]
Options == [at : {"none", "new", "running", "verifying", "over"}, mines : BOOLEAN, guard : Guards]
Acts == [down : SUBSET Inputs, up : SUBSET Inputs, turn : BOOLEAN, last : BOOLEAN]

ExecutorTyped ==
  /\ option \in Options /\ out \in Acts
  /\ body \in [down : SUBSET Inputs, moved : BOOLEAN] /\ owed \in BOOLEAN

\* The guard remembers all that is down, or will be when the pending action is
\* out; unless a release is owed, which clears it.
Remembered == ~owed => Held(body.down, out) \subseteq option.guard.held
NotBoth == out # NoAction => ~owed

\* A skill that is over holds nothing, and one that may not attack holds no attack.
AtRestIsEmpty == ~OptionRuns /\ ~owed => option.guard.held = {} /\ ~option.guard.lease
ForbiddenNotHeld == option.at = "running" /\ ~option.mines => "left" \notin option.guard.held
OnlyMinersWish == ~option.mines => option.guard.wish = "none" /\ ~option.guard.lease

\* Whoever settles to attack has let go of the keys of motion; whoever attacks
\* holds the button, stands still, and sees what it saw.
SettlingStands == option.guard.wish = "settling" => "w" \notin option.guard.held
LeaseStands ==
  option.guard.lease /\ ~owed =>
    /\ option.guard.held = {"left"} /\ Held(body.down, out) = {"left"}
    /\ "w" \notin body.down /\ ~body.moved /\ ~out.turn

\* The invariant of a behaviour in which no skill is nested.
Single ==
  /\ stack = <<>> /\ Remembered /\ NotBoth /\ AtRestIsEmpty /\ ForbiddenNotHeld
  /\ OnlyMinersWish /\ SettlingStands /\ LeaseStands

\* The invariant; a nested skill may break any of it but the choice.
ExecutorIInv == nests \in BOOLEAN /\ (~nests => ExecutorTyped /\ Single)

\* What the operators on an action make of it.
LEMMA StillFacts ==
  ASSUME NEW a \in Acts, NEW h \in SUBSET Inputs
  PROVE  LET b == Still(a, h) IN
         /\ b \in Acts /\ ~b.turn /\ b.last = a.last
         /\ b.down = a.down \ {"w"}
         /\ b.up = a.up \cup ((h \cup a.down \cup a.up) \cap {"w"})
<1> DEFINE up == a.up \cup ((h \cup a.down \cup a.up) \cap {"w"})
           down == a.down \ {"w"}
<1>1. up \in SUBSET Inputs /\ down \in SUBSET Inputs
  BY DEF Acts, Inputs
<1>2. Still(a, h) = [a EXCEPT !.down = down, !.turn = FALSE, !.up = up]
  BY DEF Still, Acts
<1> HIDE DEF up, down
<1>3. LET b == Still(a, h) IN b \in Acts /\ ~b.turn /\ b.last = a.last /\ b.down = down /\ b.up = up
  BY <1>1, <1>2 DEF Acts
<1> QED
  BY <1>3 DEF up, down

\* No attack is pressed.
LEMMA UnpressedFacts ==
  ASSUME NEW a \in Acts
  PROVE  LET b == Unpressed(a) IN
         b \in Acts /\ b.turn = a.turn /\ b.last = a.last /\ b.down = a.down \ {"left"} /\ b.up = a.up
<1> DEFINE down == a.down \ {"left"}
<1>1. down \in SUBSET Inputs
  BY DEF Acts
<1>2. Unpressed(a) = [a EXCEPT !.down = down]
  BY DEF Unpressed, Acts
<1> HIDE DEF down
<1>3. LET b == Unpressed(a) IN
      b \in Acts /\ b.turn = a.turn /\ b.last = a.last /\ b.down = down /\ b.up = a.up
  BY <1>1, <1>2 DEF Acts
<1> QED
  BY <1>3 DEF down

\* An attack is pressed, and not lifted.
LEMMA PressedFacts ==
  ASSUME NEW a \in Acts
  PROVE  LET b == Pressed(a) IN
         /\ b \in Acts /\ b.turn = a.turn /\ b.last = a.last
         /\ b.down = a.down \cup {"left"} /\ b.up = a.up \ {"left"}
<1> DEFINE down == a.down \cup {"left"}
           up == a.up \ {"left"}
<1>1. down \in SUBSET Inputs /\ up \in SUBSET Inputs
  BY DEF Acts, Inputs
<1>2. Pressed(a) = [a EXCEPT !.down = down, !.up = up]
  BY DEF Pressed, Acts
<1> HIDE DEF down, up
<1>3. LET b == Pressed(a) IN
      b \in Acts /\ b.turn = a.turn /\ b.last = a.last /\ b.down = down /\ b.up = up
  BY <1>1, <1>2 DEF Acts
<1> QED
  BY <1>3 DEF down, up

\* Where an attack is forbidden none is pressed, and one that is held is lifted.
LEMMA ConstrainedFacts ==
  ASSUME option \in Options, NEW a \in Acts
  PROVE  LET b == Constrained(a) IN
         /\ b \in Acts /\ b.last = a.last
         /\ ~option.mines =>
              "left" \notin b.down /\ ("left" \in option.guard.held => "left" \in b.up)
<1>1. CASE option.mines
  BY <1>1 DEF Constrained
<1>2. CASE ~option.mines
  <2> DEFINE up == a.up \cup ((option.guard.held \cup a.down) \cap {"left"})
             down == a.down \ {"left"}
  <2>1. up \in SUBSET Inputs /\ down \in SUBSET Inputs /\ "left" \notin down
    BY DEF Acts, Inputs
  <2>2. "left" \in option.guard.held => "left" \in up
    OBVIOUS
  <2>3. Constrained(a) = [a EXCEPT !.down = down, !.up = up]
    BY <1>2 DEF Constrained, Acts
  <2> HIDE DEF up, down
  <2> QED
    BY <2>1, <2>2, <2>3 DEF Acts
<1> QED
  BY <1>1, <1>2 DEF Options

\* An emitted action is remembered, and changes nothing else of the guard.
LEMMA EmitsFacts ==
  ASSUME NEW g \in Guards, NEW a \in Acts
  PROVE  LET r == Emits(g, a) IN
         /\ r.action = a /\ r.guard \in Guards /\ r.guard.held = Held(g.held, a)
         /\ r.guard.wish = g.wish /\ r.guard.lease = g.lease
<1> DEFINE h == Held(g.held, a)
<1>1. h \in SUBSET Inputs
  BY DEF Held, Guards, Acts
<1>2. Emits(g, a) = [action |-> a, guard |-> [g EXCEPT !.held = h]]
  BY DEF Emits
<1> HIDE DEF h
<1>3. LET r == Emits(g, a) IN
      /\ r.action = a /\ r.guard \in Guards /\ r.guard.held = h
      /\ r.guard.wish = g.wish /\ r.guard.lease = g.lease
  BY <1>1, <1>2 DEF Guards
<1> QED
  BY <1>3 DEF h

\* What a tick may make of a proposal: the action is remembered; who may not
\* attack holds none; who settles has let go of the keys of motion; and a lease
\* presses the button, stands, and turns nowhere.
GoodResult(r) ==
  /\ r.action \in Acts /\ r.guard \in Guards
  /\ r.guard.held = Held(option.guard.held, r.action)
  /\ ~option.mines => "left" \notin r.guard.held /\ r.guard.wish = "none" /\ ~r.guard.lease
  /\ r.guard.wish = "settling" => "w" \notin r.guard.held
  /\ r.guard.lease =>
       /\ r.guard.held = {"left"} /\ Held(body.down, r.action) = {"left"}
       /\ "w" \notin body.down /\ ~body.moved /\ ~r.action.turn

\* The lease of a guard that sees the target, with the keys of motion up.
LEMMA AttackIsGood ==
  ASSUME NEW g \in Guards, NEW a \in Acts, option \in Options, option.mines,
         g.held = option.guard.held, body.down \subseteq option.guard.held, ~body.moved,
         "w" \notin option.guard.held, "w" \notin a.down, "left" \in a.down, "left" \notin a.up, ~a.turn,
         g.wish = "none"
  PROVE  GoodResult(Emits(g, a))
<1>1. option.guard.held \in SUBSET Inputs /\ a.down \in SUBSET Inputs
  BY DEF Options, Guards, Acts
<1>2. Held(option.guard.held, a) = {"left"} /\ Held(body.down, a) = {"left"}
  BY <1>1 DEF Held, Inputs
<1>3. "w" \notin body.down
  OBVIOUS
<1> QED
  BY EmitsFacts, <1>2, <1>3 DEF GoodResult

\* Without a lease there is little to say: a settling guard stands.
LEMMA CalmIsGood ==
  ASSUME NEW g \in Guards, NEW a \in Acts, option \in Options, g.held = option.guard.held, ~g.lease,
         ~option.mines => /\ g.wish = "none" /\ "left" \notin a.down
                          /\ "left" \in option.guard.held => "left" \in a.up,
         g.wish = "settling" => /\ "w" \notin a.down
                                /\ "w" \in option.guard.held => "w" \in a.up
  PROVE  GoodResult(Emits(g, a))
<1>1. ~option.mines => "left" \notin Held(g.held, a)
  BY DEF Held
<1>2. g.wish = "settling" => "w" \notin Held(g.held, a)
  BY DEF Held
<1> QED
  BY EmitsFacts, <1>1, <1>2 DEF GoodResult

\* Everything the guard makes of a proposal without a lease is good.
LEMMA WithoutLeaseIsGood ==
  ASSUME option \in Options, option.mines, ~option.guard.lease, body.down \subseteq option.guard.held,
         SettlingStands, NEW a \in Acts, NEW r \in WithoutLease(option.guard, a)
  PROVE  GoodResult(r)
<1> DEFINE g == option.guard
           left == a.up \ {"left"}
           b == [a EXCEPT !.up = left]
           wish == IF g.wish = "none" THEN "latched" ELSE g.wish
           seen == [g EXCEPT !.wish = wish]
           newer == seen.fresh /\ ~Moves(a)
           walking == [seen EXCEPT !.fresh = newer]
           stands == Still(b, g.held)
           settles == [seen EXCEPT !.wish = "settling", !.fresh = FALSE]
           turned == [Unpressed(stands) EXCEPT !.turn = TRUE]
           attacks == [seen EXCEPT !.wish = "none", !.lease = TRUE, !.kept = FALSE]
<1>1. g \in Guards /\ g.held \in SUBSET Inputs /\ ~g.lease
  BY DEF Options, Guards
<1>2. b \in Acts /\ b.turn = a.turn /\ b.down = a.down /\ b.up = a.up \ {"left"}
  <2>1. left \in SUBSET Inputs
    BY DEF Acts
  <2> HIDE DEF left
  <2>2. b \in Acts /\ b.turn = a.turn /\ b.down = a.down /\ b.up = left
    BY <2>1 DEF Acts
  <2> QED
    BY <2>2 DEF left
<1>3. seen \in Guards /\ seen.held = g.held /\ ~seen.lease /\ seen.wish \in {"latched", "settling"}
      /\ (g.wish # "settling" => seen.wish # "settling")
  <2>1. wish \in {"latched", "settling"} /\ (g.wish # "settling" => wish # "settling")
    BY <1>1 DEF Guards
  <2> HIDE DEF wish
  <2> QED
    BY <1>1, <2>1 DEF Guards
<1>4. walking \in Guards /\ walking.held = g.held /\ ~walking.lease /\ walking.wish = seen.wish
  <2>1. newer \in BOOLEAN
    BY <1>3 DEF Guards
  <2> HIDE DEF newer, seen
  <2> QED
    BY <1>3, <2>1 DEF Guards
<1>5. /\ settles \in Guards /\ settles.held = g.held /\ ~settles.lease
      /\ attacks \in Guards /\ attacks.held = g.held /\ attacks.wish = "none"
  <2> HIDE DEF seen
  <2> QED
    BY <1>3 DEF Guards
<1>6. /\ stands \in Acts /\ ~stands.turn /\ "w" \notin stands.down
      /\ "w" \in g.held => "w" \in stands.up
      /\ stands.up \subseteq Inputs /\ "left" \notin stands.up
  <2> HIDE DEF b
  <2> QED
    BY <1>1, <1>2, StillFacts DEF Acts
<1>7. /\ Unpressed(stands) \in Acts /\ "w" \notin Unpressed(stands).down
      /\ "w" \in g.held => "w" \in Unpressed(stands).up
  <2> HIDE DEF stands
  <2> QED
    BY <1>6, UnpressedFacts
<1>8. turned \in Acts /\ turned.down = Unpressed(stands).down /\ turned.up = Unpressed(stands).up
  <2> HIDE DEF stands
  <2> QED
    BY <1>7 DEF Acts
<1>9. /\ Unpressed(b) \in Acts /\ Unpressed(b).turn = a.turn /\ Unpressed(b).up = a.up \ {"left"}
      /\ Unpressed(b).down = a.down \ {"left"}
  <2> HIDE DEF b
  <2> QED
    BY <1>2, UnpressedFacts
<1> HIDE DEF g, b, wish, seen, newer, walking, stands, settles, turned, attacks
<1>10. GoodResult(Emits(settles, Unpressed(stands))) /\ GoodResult(Emits(settles, turned))
  BY <1>5, <1>7, <1>8, CalmIsGood DEF g
<1>11. ASSUME Verified(g), "w" \notin g.held PROVE GoodResult(Emits(attacks, Pressed(stands)))
  <2>1. /\ Pressed(stands) \in Acts /\ ~Pressed(stands).turn /\ "left" \in Pressed(stands).down
        /\ "left" \notin Pressed(stands).up /\ "w" \notin Pressed(stands).down
    BY <1>6, PressedFacts
  <2> QED
    BY <1>5, <1>11, <2>1, AttackIsGood DEF g, Verified
<1>12. ASSUME Verified(g), ~("w" \in a.down \cup Held(g.held, a)), ~Moves(b)
       PROVE  GoodResult(Emits(attacks, Pressed(Unpressed(b))))
  <2>1. "w" \notin a.down /\ "w" \notin b.up /\ ~a.turn
    BY <1>2, <1>12 DEF Moves
  <2>2. "w" \notin a.up
    BY <1>2, <2>1
  <2>3. "w" \notin g.held
    BY <1>12, <2>2 DEF Held
  <2>4. LET c == Pressed(Unpressed(b)) IN
        c \in Acts /\ ~c.turn /\ "left" \in c.down /\ "left" \notin c.up /\ "w" \notin c.down
    BY <1>9, <2>1, PressedFacts
  <2> QED
    BY <1>5, <1>12, <2>3, <2>4, AttackIsGood DEF g, Verified
<1>13. g.wish # "settling" => GoodResult(Emits(walking, Unpressed(b)))
  BY <1>3, <1>4, <1>9, CalmIsGood DEF g
<1>14. g.wish = "settling" => "w" \notin g.held /\ GoodResult(Emits(g, Unpressed(stands)))
  BY <1>1, <1>7, CalmIsGood DEF g, SettlingStands
<1>15. \/ r = Emits(settles, turned)
       \/ g.wish = "settling" /\ Verified(g) /\ r = Emits(attacks, Pressed(stands))
       \/ g.wish = "settling" /\ r = Emits(g, Unpressed(stands))
       \/ /\ Verified(g) /\ ~("w" \in a.down \cup Held(g.held, a)) /\ ~Moves(b)
          /\ r = Emits(attacks, Pressed(Unpressed(b)))
       \/ r = Emits(settles, Unpressed(stands))
       \/ g.wish # "settling" /\ r = Emits(walking, Unpressed(b))
  BY DEF WithoutLease, g, b, wish, seen, newer, walking, stands, settles, turned, attacks
<1> QED
  BY <1>10, <1>11, <1>12, <1>13, <1>14, <1>15

\* An attack goes on: the button stays down and nothing moves.
LEMMA WithLeaseIsGood ==
  ASSUME option \in Options, option.mines, option.guard.lease, option.guard.held = {"left"},
         body.down = {"left"}, ~body.moved, NEW a \in Acts
  PROVE  GoodResult(WithLease(option.guard, a))
<1> DEFINE g == option.guard
           b == Still(a, g.held)
           kept == g.kept \/ "left" \in a.up
           up == b.up \ {"left"}
           down == IF g.kept THEN b.down \ {"left"} ELSE b.down
           c == [b EXCEPT !.up = up, !.down = down]
           h == [g EXCEPT !.kept = kept]
<1>1. g \in Guards /\ g.held \in SUBSET Inputs
  BY DEF Options, Guards
<1>2. b \in Acts /\ ~b.turn /\ "w" \notin b.down
  <2> HIDE DEF g
  <2> QED
    BY <1>1, StillFacts
<1>3. up \in SUBSET Inputs /\ "left" \notin up /\ down \in SUBSET Inputs /\ "w" \notin down
  <2> HIDE DEF b, g
  <2> QED
    BY <1>2 DEF Acts
<1>4. c \in Acts /\ ~c.turn /\ c.up = up /\ c.down = down
  <2> HIDE DEF b, g, up, down
  <2> QED
    BY <1>2, <1>3 DEF Acts
<1>5. h \in Guards /\ h.held = {"left"} /\ h.lease
  <2>1. kept \in BOOLEAN
    BY <1>1 DEF Guards
  <2> HIDE DEF kept
  <2> QED
    BY <1>1, <2>1 DEF Guards
<1>6. WithLease(option.guard, a) = Emits(h, c)
  BY <1>1, <1>2 DEF WithLease, Acts, Guards
<1> HIDE DEF g, b, kept, up, down, c, h
<1>7. Held({"left"}, c) = {"left"}
  BY <1>3, <1>4 DEF Held, Inputs
<1>8. LET r == Emits(h, c) IN
      r.action = c /\ r.guard \in Guards /\ r.guard.held = {"left"} /\ "w" \notin r.guard.held
  <2>1. LET r == Emits(h, c) IN r.action = c /\ r.guard \in Guards /\ r.guard.held = Held(h.held, c)
    BY <1>4, <1>5, EmitsFacts
  <2>2. Held(h.held, c) = {"left"} /\ "w" \notin {"left"}
    BY <1>5, <1>7
  <2> HIDE DEF Emits
  <2> QED
    BY <2>1, <2>2
<1>9. "w" \notin body.down
  OBVIOUS
<1> HIDE DEF GoodResult
<1>10. GoodResult(Emits(h, c))
  BY <1>4, <1>7, <1>8, <1>9 DEF GoodResult
<1> QED
  BY <1>6, <1>10

\* Whatever a tick makes of a proposal is good.
LEMMA InspectedIsGood ==
  ASSUME option \in Options, body.down \subseteq option.guard.held,
         SettlingStands, OnlyMinersWish, LeaseStands, ~owed,
         body \in [down : SUBSET Inputs, moved : BOOLEAN], Held(body.down, out) = body.down,
         NEW a \in Acts, NEW r \in Inspected(Constrained(a))
  PROVE  GoodResult(r)
<1> DEFINE g == option.guard
           c == Constrained(a)
           newer == g.fresh /\ ~Moves(c)
           seeing == [g EXCEPT !.fresh = newer]
<1>1. g \in Guards /\ option.mines \in BOOLEAN
  BY DEF Options
<1>2. /\ c \in Acts
      /\ ~option.mines => "left" \notin c.down /\ ("left" \in option.guard.held => "left" \in c.up)
  BY ConstrainedFacts
<1>3. CASE g.lease
  <2>1. option.mines /\ g.held = {"left"} /\ body.down = {"left"} /\ ~body.moved
    BY <1>1, <1>3 DEF OnlyMinersWish, LeaseStands
  <2>3. r = WithLease(g, c)
    BY <1>3 DEF Inspected
  <2> QED
    BY <1>2, <1>3, <2>1, <2>3, WithLeaseIsGood
<1>4. CASE ~g.lease
  <2>1. seeing \in Guards /\ seeing.held = g.held /\ ~seeing.lease /\ seeing.wish = g.wish
    <3>1. newer \in BOOLEAN
      BY <1>1 DEF Guards
    <3> HIDE DEF newer
    <3> QED
      BY <1>1, <1>4, <3>1 DEF Guards
  <2>2. \/ g.wish = "none" /\ r = Emits(seeing, c)
        \/ option.mines /\ r \in WithoutLease(g, c)
    BY <1>1, <1>2, <1>4 DEF Inspected, OnlyMinersWish
  <2>3. CASE g.wish = "none" /\ r = Emits(seeing, c)
    <3> HIDE DEF seeing, c
    <3>1. seeing.wish # "settling"
      BY <2>1, <2>3
    <3>2. ~option.mines =>
            seeing.wish = "none" /\ "left" \notin c.down /\ ("left" \in option.guard.held => "left" \in c.up)
      <4>1. seeing.wish = "none"
        BY <2>1, <2>3
      <4> QED
        BY <1>2, <4>1, Zenon
    <3>3. GoodResult(Emits(seeing, c))
      BY <1>2, <2>1, <3>1, <3>2, CalmIsGood
    <3> QED
      BY <2>3, <3>3
  <2>4. CASE option.mines /\ r \in WithoutLease(g, c)
    BY <1>2, <1>4, <2>4, WithoutLeaseIsGood
  <2> QED
    BY <2>2, <2>3, <2>4
<1> QED
  BY <1>3, <1>4

\* The release of a skill lifts all the guard remembers, thus all that is down.
LEMMA ReleasesLift ==
  ASSUME option \in Options, body.down \subseteq option.guard.held, body.down \in SUBSET Inputs,
         NEW a \in Releases(option.guard)
  PROVE  /\ a \in Acts /\ [a EXCEPT !.last = TRUE] \in Acts
         /\ Held(body.down, a) = {} /\ Held(body.down, [a EXCEPT !.last = TRUE]) = {}
<1>1. PICK x \in SUBSET Inputs :
        a = [NoAction EXCEPT !.up = option.guard.held
                                      \cup (IF option.guard.lease THEN {"left"} ELSE {}) \cup x]
  BY DEF Releases
<1> DEFINE up == option.guard.held \cup (IF option.guard.lease THEN {"left"} ELSE {}) \cup x
<1>2. up \in SUBSET Inputs /\ body.down \subseteq up
  BY DEF Options, Guards, Inputs
<1> HIDE DEF up
<1>3. a = [down |-> {}, up |-> up, turn |-> FALSE, last |-> FALSE]
  BY <1>1 DEF NoAction, up
<1>4. a \in Acts /\ a.down = {} /\ a.up = up
  BY <1>2, <1>3 DEF Acts
<1>5. [a EXCEPT !.last = TRUE] \in Acts /\ [a EXCEPT !.last = TRUE].down = {}
      /\ [a EXCEPT !.last = TRUE].up = up
  BY <1>4 DEF Acts
<1> QED
  BY <1>2, <1>4, <1>5 DEF Held

\* An empty guard, and no action.
LEMMA AtRest ==
  /\ Guard0 \in Guards /\ Guard0.held = {} /\ ~Guard0.lease /\ Guard0.wish = "none"
  /\ NoAction \in Acts /\ NoOption \in Options /\ NoOption.at = "none" /\ NoOption.guard = Guard0
  /\ ~NoAction.turn
  /\ \A h : Held(h, NoAction) = h
<1>1. Guard0 \in Guards /\ NoAction \in Acts
  BY DEF Guard0, Guards, NoAction, Acts
<1> QED
  BY <1>1 DEF Guard0, Guards, NoAction, Acts, NoOption, Options, Held

\* What goes wrong with nothing: an option whose guard is empty.
LEMMA EmptyIsSound ==
  ASSUME stack' = <<>>, option'.guard.held = {}, ~option'.guard.lease, option'.guard.wish = "none",
         ~owed' => Held(body'.down, out') = {}, out' # NoAction => ~owed'
  PROVE  Single'
BY DEF Single, Remembered, NotBoth, AtRestIsEmpty, ForbiddenNotHeld, OnlyMinersWish, SettlingStands, LeaseStands

\* An acknowledged release empties the guard and what is down; another is owed.
LEMMA ReleasedOrOwed ==
  ASSUME NEW o \in Options, o.guard = option.guard, ReleaseInputs(o, option.guard), out' = NoAction,
         stack' = <<>>, option \in Options, body \in [down : SUBSET Inputs, moved : BOOLEAN],
         o.mines = option.mines, Single, o.at = option.at \/ o.at = "over"
  PROVE  /\ Single' /\ option' \in Options /\ body' \in [down : SUBSET Inputs, moved : BOOLEAN]
         /\ owed' \in BOOLEAN
<1>1. CASE body' = [body EXCEPT !.down = {}] /\ owed' = FALSE
           /\ option' = [o EXCEPT !.guard = ToldOfRelease(option.guard)]
  <2> DEFINE told == ToldOfRelease(option.guard)
  <2>1. told \in Guards /\ told.held = {} /\ ~told.lease /\ told.wish = "none"
    BY AtRest DEF ToldOfRelease, Options, Guards, Guard0
  <2> HIDE DEF told
  <2>2. option' \in Options /\ option'.guard = told
    BY <1>1, <2>1 DEF Options, told
  <2>3. body' \in [down : SUBSET Inputs, moved : BOOLEAN] /\ Held(body'.down, out') = {}
    BY <1>1, AtRest
  <2> QED
    BY <1>1, <2>1, <2>2, <2>3, EmptyIsSound
<1>2. CASE body' = body /\ owed' = TRUE /\ option' = [o EXCEPT !.guard = option.guard]
  <2>1. option' = o
    BY <1>2 DEF Options
  <2> QED
    BY <1>2, <2>1 DEF Single, Remembered, NotBoth, AtRestIsEmpty, ForbiddenNotHeld, OnlyMinersWish,
       SettlingStands, LeaseStands, OptionRuns
<1> QED
  BY <1>1, <1>2 DEF ReleaseInputs

\* A skill that ends on its own account releases all, and is over.
LEMMA FinishKeeps ==
  ASSUME option \in Options, body \in [down : SUBSET Inputs, moved : BOOLEAN], Single, ExecutorReady,
         FinishOption(<<>>)
  PROVE  Single' /\ option' \in Options /\ out' \in Acts /\ UNCHANGED <<body, owed>>
<1>1. body.down \subseteq option.guard.held
  BY AtRest DEF Single, Remembered, ExecutorReady
<1>2. PICK a \in Releases(option.guard) : out' = [a EXCEPT !.last = TRUE]
  BY DEF FinishOption
<1>3. out' \in Acts /\ Held(body.down, out') = {}
  BY <1>1, <1>2, ReleasesLift
<1>4. /\ option' = [option EXCEPT !.at = "over", !.guard = Guard0]
      /\ stack' = <<>> /\ UNCHANGED <<body, owed>>
  BY DEF FinishOption
<1>5. option' \in Options /\ option'.guard = Guard0
  BY <1>4, AtRest DEF Options
<1>6. Single'
  BY <1>3, <1>4, <1>5, AtRest, EmptyIsSound DEF ExecutorReady
<1> QED
  BY <1>3, <1>4, <1>5, <1>6

\* The executor's invariant holds at the start.
LEMMA ExecutorStarts == ExecutorInit => ExecutorIInv
<1> SUFFICES ASSUME ExecutorInit PROVE ExecutorIInv
  OBVIOUS
<1>1. /\ option = NoOption /\ stack = <<>> /\ out = NoAction /\ owed = FALSE /\ nests \in BOOLEAN
      /\ body = [down |-> {}, moved |-> TRUE]
  BY DEF ExecutorInit
<1>2. NoOption.guard = Guard0 /\ ~OptionRuns
  BY <1>1, AtRest DEF OptionRuns
<1>3. ExecutorTyped
  BY <1>1, <1>2, AtRest DEF ExecutorTyped
<1>4. Single
  BY <1>1, <1>2, AtRest DEF Single, Remembered, NotBoth, AtRestIsEmpty, ForbiddenNotHeld, OnlyMinersWish,
     SettlingStands, LeaseStands
<1> QED
  BY <1>1, <1>3, <1>4 DEF ExecutorIInv

\* A tick of a skill that is not nested keeps all of it.
LEMMA TickKeeps ==
  ASSUME ExecutorTyped, Single, TickActs
  PROVE  Single' /\ option' \in Options /\ out' \in Acts
<1>1. PICK a \in Proposals : \E r \in Inspected(Constrained(a)) :
        out' = r.action /\ option' = [option EXCEPT !.at = "running", !.guard = r.guard]
  BY DEF TickActs
<1>2. PICK r \in Inspected(Constrained(a)) :
        out' = r.action /\ option' = [option EXCEPT !.at = "running", !.guard = r.guard]
  BY <1>1
<1>3. /\ out = NoAction /\ ~owed /\ option.at \in {"new", "running"}
      /\ UNCHANGED <<stack, body, owed, nests>>
  BY DEF TickActs, ExecutorReady
<1>4. a \in Acts /\ option \in Options /\ body \in [down : SUBSET Inputs, moved : BOOLEAN]
  BY DEF Proposals, Acts, ExecutorTyped
<1>5. Held(body.down, out) = body.down /\ body.down \subseteq option.guard.held
  BY <1>3, AtRest DEF Single, Remembered
<1>6. GoodResult(r)
  BY <1>3, <1>4, <1>5, InspectedIsGood DEF Single
<1>7. /\ option' \in Options /\ option'.at = "running" /\ option'.mines = option.mines
      /\ option'.guard = r.guard /\ out' \in Acts
  BY <1>2, <1>4, <1>6 DEF GoodResult, Options
<1>8. Held(body'.down, out') \subseteq option'.guard.held
  <2>1. Held(body.down, r.action) \subseteq Held(option.guard.held, r.action)
    BY <1>5 DEF Held
  <2> QED
    BY <1>2, <1>3, <1>6, <1>7, <2>1 DEF GoodResult
<1>9. ~option'.mines => "left" \notin option'.guard.held /\ option'.guard.wish = "none" /\ ~option'.guard.lease
  BY <1>6, <1>7 DEF GoodResult
<1>10. option'.guard.wish = "settling" => "w" \notin option'.guard.held
  BY <1>6, <1>7 DEF GoodResult
<1>11. option'.guard.lease =>
         /\ option'.guard.held = {"left"} /\ Held(body'.down, out') = {"left"}
         /\ "w" \notin body'.down /\ ~body'.moved /\ ~out'.turn
  BY <1>2, <1>3, <1>6, <1>7 DEF GoodResult
<1>12. OptionRuns' /\ ~owed' /\ stack' = <<>>
  BY <1>3, <1>7 DEF OptionRuns, Single
<1>13. Single'
  BY <1>8, <1>9, <1>10, <1>11, <1>12 DEF Single, Remembered, NotBoth, AtRestIsEmpty, ForbiddenNotHeld,
     OnlyMinersWish, SettlingStands, LeaseStands
<1> QED
  BY <1>7, <1>13

\* So does the release of an attack that made progress.
LEMMA ReleaseKeeps ==
  ASSUME ExecutorTyped, Single, TickReleases
  PROVE  Single' /\ option' \in Options /\ out' \in Acts
<1>1. /\ out = NoAction /\ ~owed /\ UNCHANGED <<stack, body, owed, nests>>
      /\ option' = [option EXCEPT !.at = "verifying", !.guard = Guard0]
  BY DEF TickReleases, ExecutorReady
<1>2. body.down \subseteq option.guard.held
  BY <1>1, AtRest DEF Single, Remembered
<1>3. out' \in Acts /\ Held(body.down, out') = {}
  BY <1>2, ReleasesLift DEF TickReleases, ExecutorTyped
<1>4. option' \in Options /\ option'.guard = Guard0
  BY <1>1, AtRest DEF ExecutorTyped, Options
<1>5. Single'
  <2>1. stack' = <<>>
    BY <1>1 DEF Single
  <2> QED
    BY <1>1, <1>3, <1>4, <2>1, AtRest, EmptyIsSound
<1> QED
  BY <1>3, <1>4, <1>5

\* A new skill begins with an empty guard, after the last released all.
LEMMA BeginKeeps ==
  ASSUME ExecutorTyped, Single, StartSkill
  PROVE  Single' /\ option' \in Options
<1>1. PICK m \in BOOLEAN : option' = [at |-> "new", mines |-> m, guard |-> Guard0]
  BY DEF StartSkill, BeginOption
<1>2. out = NoAction /\ ~OptionRuns /\ UNCHANGED <<stack, out, body, owed, nests>>
  BY DEF StartSkill, BeginOption
<1>3. option' \in Options /\ option'.guard = Guard0
  BY <1>1, AtRest DEF Options
<1>4. ~owed => Held(body.down, out) = {}
  BY <1>2 DEF Single, Remembered, AtRestIsEmpty
<1>5. Single'
  <2>1. stack' = <<>> /\ out' = NoAction
    BY <1>2 DEF Single
  <2> QED
    BY <1>2, <1>3, <1>4, <2>1, AtRest, EmptyIsSound
<1> QED
  BY <1>3, <1>5

\* What was sent is down, as the guard remembers.
LEMMA SentKeeps ==
  ASSUME ExecutorTyped, Single, ActionSent
  PROVE  Single' /\ option' \in Options /\ body' \in [down : SUBSET Inputs, moved : BOOLEAN]
<1> DEFINE down == Held(body.down, out)
           moved == body.moved \/ out.turn
<1>1. /\ out # NoAction /\ out' = NoAction /\ UNCHANGED <<option, stack, owed, nests>>
      /\ body' = [down |-> down, moved |-> moved]
  BY DEF ActionSent, Single
<1>2. down \in SUBSET Inputs /\ moved \in BOOLEAN
  BY DEF ExecutorTyped, Held, Acts
<1> HIDE DEF down, moved
<1>3. body' \in [down : SUBSET Inputs, moved : BOOLEAN] /\ body'.down = down /\ body'.moved = moved
  BY <1>1, <1>2
<1>4. Held(body'.down, out') = Held(body.down, out)
  BY <1>1, <1>3, AtRest DEF down
<1>5. ~owed /\ ~owed'
  BY <1>1 DEF Single, NotBoth
<1>6. LeaseStands'
  <2>1. option.guard.lease => "w" \notin down /\ ~moved
    BY <1>5 DEF Single, LeaseStands, down, moved
  <2> QED
    BY <1>1, <1>3, <1>4, <1>5, <2>1, AtRest DEF Single, LeaseStands
<1>7. Remembered' /\ NotBoth'
  BY <1>1, <1>4, <1>5 DEF Single, Remembered, NotBoth
<1>8. AtRestIsEmpty' /\ ForbiddenNotHeld' /\ OnlyMinersWish' /\ SettlingStands'
  BY <1>1, <1>5 DEF Single, AtRestIsEmpty, ForbiddenNotHeld, OnlyMinersWish, SettlingStands, OptionRuns
<1> QED
  BY <1>1, <1>3, <1>6, <1>7, <1>8 DEF Single, ExecutorTyped

\* The world changes what is seen, never what is held; an attack is not walked with.
LEMMA WorldKeeps ==
  ASSUME ExecutorTyped, Single, Walks \/ Looks
  PROVE  Single' /\ option' \in Options /\ body' \in [down : SUBSET Inputs, moved : BOOLEAN] /\ out' \in Acts
<1> USE DEF Single, Remembered, NotBoth, AtRestIsEmpty, ForbiddenNotHeld, OnlyMinersWish, SettlingStands,
        LeaseStands, OptionRuns
<1>1. CASE Walks
  <2>1. /\ "w" \in body.down /\ body' = [body EXCEPT !.moved = TRUE]
        /\ UNCHANGED <<option, stack, out, owed, skills, nests>>
    BY <1>1 DEF Walks
  <2>2. body' \in [down : SUBSET Inputs, moved : BOOLEAN] /\ body'.down = body.down
    BY <2>1 DEF ExecutorTyped
  <2> QED
    BY <2>1, <2>2 DEF ExecutorTyped
<1>2. CASE Looks
  <2>1. /\ body' = [body EXCEPT !.moved = FALSE] /\ option' = [option EXCEPT !.guard.fresh = TRUE]
        /\ UNCHANGED <<stack, out, owed, skills, nests>>
    BY <1>2 DEF Looks
  <2>2. /\ body' \in [down : SUBSET Inputs, moved : BOOLEAN] /\ body'.down = body.down
        /\ ~body'.moved
    BY <2>1 DEF ExecutorTyped
  <2>3. /\ option' \in Options /\ option'.at = option.at /\ option'.mines = option.mines
        /\ option'.guard.held = option.guard.held /\ option'.guard.lease = option.guard.lease
        /\ option'.guard.wish = option.guard.wish
    BY <2>1 DEF ExecutorTyped, Options, Guards
  <2> QED
    BY <2>1, <2>2, <2>3 DEF ExecutorTyped
<1> QED
  BY <1>1, <1>2

\* Every step of the executor and of the runtime preserves it.
LEMMA ExecutorSteps == ExecutorIInv /\ [ExecutorNext]_executorVars => ExecutorIInv'
<1> SUFFICES ASSUME ExecutorIInv, [ExecutorNext]_executorVars PROVE ExecutorIInv'
  OBVIOUS
<1>1. UNCHANGED nests
  BY DEF ExecutorNext, executorVars, TickActs, TickReleases, LimitsEnd, GuardEnds, OutcomeEnds, JudgementEnds,
     FinishOption, StartSkill, PushChild, BeginOption, CancelSkill, Expire, ActionSent, ActionRefused,
     ReleaseOwed, Walks, Looks
<1> SUFFICES ASSUME ~nests PROVE (ExecutorTyped /\ Single)'
  BY <1>1 DEF ExecutorIInv
<1>2. ExecutorTyped /\ Single /\ stack = <<>>
  BY DEF ExecutorIInv, Single
<1> USE DEF ExecutorTyped
<1>3. CASE TickActs
  BY <1>2, <1>3, TickKeeps DEF TickActs
<1>4. CASE TickReleases
  BY <1>2, <1>4, ReleaseKeeps DEF TickReleases
<1>5. CASE LimitsEnd \/ GuardEnds \/ OutcomeEnds \/ JudgementEnds \/ CancelSkill
  <2>1. ExecutorReady /\ FinishOption(<<>>)
    BY <1>2, <1>5 DEF LimitsEnd, GuardEnds, OutcomeEnds, JudgementEnds, CancelSkill
  <2> QED
    BY <1>2, <2>1, FinishKeeps
<1>6. CASE StartSkill
  BY <1>2, <1>6, BeginKeeps DEF StartSkill, BeginOption
<1>7. CASE PushChild
  BY <1>7 DEF PushChild
<1>8. CASE Expire
  <2> DEFINE o == [option EXCEPT !.at = "over"]
  <2>1. o \in Options /\ o.guard = option.guard /\ o.mines = option.mines /\ o.at = "over"
    BY <1>2 DEF Options
  <2>2. ReleaseInputs(o, option.guard) /\ out' = NoAction /\ stack' = <<>>
    BY <1>8 DEF Expire
  <2> HIDE DEF o
  <2> QED
    BY <1>2, <2>1, <2>2, ReleasedOrOwed, AtRest
<1>9. CASE ActionSent
  BY <1>2, <1>9, SentKeeps, AtRest DEF ActionSent
<1>10. CASE ActionRefused
  <2>1. ReleaseInputs(option, option.guard) /\ out' = NoAction /\ stack' = <<>>
    BY <1>2, <1>10 DEF ActionRefused
  <2> QED
    BY <1>2, <2>1, ReleasedOrOwed, AtRest
<1>11. CASE ReleaseOwed
  <2>1. ReleaseInputs(option, option.guard) /\ out' = NoAction /\ stack' = <<>>
    BY <1>2, <1>11 DEF ReleaseOwed
  <2> QED
    BY <1>2, <2>1, ReleasedOrOwed, AtRest
<1>12. CASE Walks \/ Looks
  BY <1>2, <1>12, WorldKeeps DEF Walks, Looks
<1>13. CASE UNCHANGED executorVars
  BY <1>2, <1>13 DEF executorVars, Single, Remembered, NotBoth, AtRestIsEmpty, ForbiddenNotHeld,
     OnlyMinersWish, SettlingStands, LeaseStands, OptionRuns
<1> QED
  BY <1>3, <1>4, <1>5, <1>6, <1>7, <1>8, <1>9, <1>10, <1>11, <1>12, <1>13 DEF ExecutorNext

\* What the runs check of an attack follows from the invariant.
LEMMA ExecutorSuffices == ExecutorIInv => AttackStands
<1> SUFFICES ASSUME ExecutorIInv, ~nests, Settled PROVE
      /\ body.down \subseteq option.guard.held
      /\ ForbiddenAttackLifted
      /\ option.guard.lease => body.down = {"left"} /\ ~body.moved
  BY DEF AttackStands
<1>1. Single /\ ~owed /\ Held(body.down, out) = body.down
  BY AtRest DEF ExecutorIInv, Settled
<1> QED
  BY <1>1 DEF Single, Remembered, ForbiddenNotHeld, LeaseStands, ForbiddenAttackLifted

(***************************************************************************)
(* For every number of skills: as long as none is nested in another, the   *)
(* guard remembers all that is down; an attack is held by nobody who may   *)
(* not attack; and whoever the guard lets attack really holds the button,  *)
(* stands still, and sees what it saw, whatever policies propose and       *)
(* release, and whichever actions and releases fail (execution.py,         *)
(* mining.py, runtime.py).                                                 *)
(***************************************************************************)
THEOREM AttackSafety == ExecutorSpec => []AttackStands
<1>1. ExecutorIInv /\ [ExecutorNext]_executorVars => ExecutorIInv'
  BY ExecutorSteps
<1> QED
  BY ExecutorStarts, <1>1, ExecutorSuffices, PTL DEF ExecutorSpec

(***************************************************************************)
(* A craft.                                                                *)
(***************************************************************************)
SeenLooks == [at : {"never", "before", "opened", "clicked"}, logs : Nat, planks : BOOLEAN]
CraftTyped ==
  /\ craft \in [phase : {"none", "open", "locate", "verify", "close", "complete", "failed"},
                toggled : BOOLEAN, baseline : Nat]
  /\ closer \in {"none", "started", "pressed"} /\ key \in {"none", "toggle", "click"}
  /\ game \in [open : BOOLEAN, logs : Nat, planks : BOOLEAN]
  /\ glance \in {"none", "inventory", "world"} /\ scan \in SeenLooks /\ facts \in SeenLooks
  /\ crafted \in BOOLEAN /\ clicks \in Nat /\ startled \in BOOLEAN /\ nesting \in BOOLEAN

\* What the phases have behind them, and which key is under way in each.
PhaseAndKey ==
  /\ craft.phase \in {"locate", "verify", "close"} => craft.toggled
  /\ Crafting /\ craft.toggled => closer = "none"
  /\ Crafting /\ ~nesting => closer = "none"
  /\ craft.phase = "open" => craft.baseline = 0
  /\ craft.phase = "open" /\ craft.toggled => key # "click"
  /\ craft.phase = "locate" => key = "none"
  /\ craft.phase = "verify" => key # "toggle"
  /\ craft.phase = "close" => key # "click"

Opening == craft.phase \in {"open", "locate"} /\ craft.toggled
Watching == Opening \/ craft.phase = "verify"

\* Logs that were counted are still there, unless a click made planks of one, or
\* the planks are gone with the player, or the inventory is closed for the run.
StillThere(n) == crafted \/ n <= game.logs \/ ~game.planks \/ (~game.open /\ key # "toggle")

LooksTrue ==
  \A look \in {scan, facts} :
    /\ Opening => look.at # "clicked"
    /\ Watching /\ look.at = "opened" => StillThere(look.logs)
    /\ craft.phase = "verify" /\ look.at = "clicked" =>
          /\ crafted \/ look.logs >= craft.baseline \/ ~look.planks
          /\ ~nesting /\ ~startled => game.open
BaselineTrue == Watching => StillThere(craft.baseline)

ClickedOnce ==
  ~nesting =>
    /\ craft.phase \in {"open", "locate"} => clicks = 0
    /\ craft.phase \in {"verify", "close", "complete"} => clicks = 1

ClosesAgain ==
  /\ craft.phase \in {"close", "complete"} => crafted
  /\ ~nesting /\ ~startled =>
       /\ craft.phase = "close" => /\ key = "toggle" => game.open
                                   /\ glance = "world" => ~game.open /\ key = "none"
       /\ craft.phase = "complete" =>
            ~game.open /\ glance = "world" /\ closer = "none" /\ key = "none"

CraftIInv ==
  CraftTyped /\ PhaseAndKey /\ LooksTrue /\ BaselineTrue /\ ClickedOnce /\ ClosesAgain

\* A craft's invariant holds at the start.
LEMMA CraftStarts == CraftInit => CraftIInv
<1> SUFFICES ASSUME CraftInit PROVE CraftIInv
  OBVIOUS
<1>1. /\ craft = [phase |-> "none", toggled |-> FALSE, baseline |-> 0]
      /\ closer = "none" /\ key = "none" /\ glance = "none" /\ crafted = FALSE /\ clicks = 0
      /\ startled = FALSE /\ nesting \in BOOLEAN
      /\ game \in [open : BOOLEAN, logs : {MaxHeld}, planks : BOOLEAN]
  BY DEF CraftInit, Idle0
<1>2. scan = [at |-> "never", logs |-> 0, planks |-> FALSE] /\ facts = scan
  BY DEF CraftInit, Nothing
<1>3. scan \in SeenLooks /\ facts \in SeenLooks /\ scan.at = "never" /\ facts.at = "never"
  BY <1>2 DEF SeenLooks
<1>4. /\ craft \in [phase : {"none", "open", "locate", "verify", "close", "complete", "failed"},
                     toggled : BOOLEAN, baseline : Nat]
      /\ craft.phase = "none"
  BY <1>1
<1>5. game \in [open : BOOLEAN, logs : Nat, planks : BOOLEAN]
  BY <1>1, CraftAssumption
<1>6. CraftTyped
  BY <1>1, <1>3, <1>4, <1>5 DEF CraftTyped
<1>7. PhaseAndKey /\ ClickedOnce /\ ClosesAgain
  BY <1>1, <1>4 DEF PhaseAndKey, ClickedOnce, ClosesAgain, Crafting
<1>8. LooksTrue /\ BaselineTrue
  BY <1>3, <1>4 DEF LooksTrue, BaselineTrue, Opening, Watching
<1> QED
  BY <1>6, <1>7, <1>8 DEF CraftIInv

\* Every step of the craft, of what closes it, of the keys and of the game preserves it.
LEMMA CraftSteps == CraftIInv /\ [CraftNext]_craftVars => CraftIInv'
<1> SUFFICES ASSUME CraftIInv, [CraftNext]_craftVars PROVE CraftIInv'
  OBVIOUS
<1> USE DEF CraftIInv, CraftTyped, PhaseAndKey, LooksTrue, BaselineTrue, ClickedOnce, ClosesAgain, SeenLooks,
        Opening, Watching, StillThere, Crafting, Ticks, Told
<1>1. CASE StartCraft
  <2>1. craft' = [phase |-> "open", toggled |-> FALSE, baseline |-> 0]
    BY <1>1 DEF StartCraft, OpenInventory, Idle0
  <2>2. /\ closer = "none" /\ key = "none" /\ crafted' = FALSE /\ clicks' = 0 /\ startled' = FALSE
        /\ UNCHANGED <<closer, key, game, glance, scan, facts, nesting>>
    BY <1>1 DEF StartCraft
  <2>3. /\ craft' \in [phase : {"none", "open", "locate", "verify", "close", "complete", "failed"},
                        toggled : BOOLEAN, baseline : Nat]
        /\ craft'.phase = "open" /\ ~craft'.toggled /\ craft'.baseline = 0
    BY <2>1
  <2>4. 0 \in Nat
    OBVIOUS
  <2>5. CraftTyped' /\ PhaseAndKey'
    BY <2>2, <2>3, <2>4
  <2>6. LooksTrue' /\ BaselineTrue'
    BY <2>2, <2>3
  <2>7. ClickedOnce' /\ ClosesAgain'
    BY <2>2, <2>3
  <2> QED
    BY <2>5, <2>6, <2>7
<1>2. CASE Fail
  BY <1>2 DEF Fail
<1>3. CASE PressOpen
  <2>1. /\ craft.phase = "open" /\ closer = "none" /\ key = "none" /\ ~craft.toggled
        /\ craft' = [craft EXCEPT !.toggled = TRUE] /\ key' = "toggle" /\ glance' = "none"
        /\ scan' = Old(scan) /\ facts' = Old(facts)
        /\ UNCHANGED <<closer, game, crafted, clicks, startled, nesting>>
    BY <1>3 DEF PressOpen
  <2>2. \A look \in SeenLooks : Old(look) \in SeenLooks /\ Old(look).at \in {"never", "before"}
    BY DEF Old
  <2>3. /\ scan' \in SeenLooks /\ facts' \in SeenLooks
        /\ scan'.at \in {"never", "before"} /\ facts'.at \in {"never", "before"}
    BY <2>1, <2>2
  <2>4. /\ craft' \in [phase : {"none", "open", "locate", "verify", "close", "complete", "failed"},
                        toggled : BOOLEAN, baseline : Nat]
        /\ craft'.phase = "open" /\ craft'.toggled /\ craft'.baseline = craft.baseline
    BY <2>1
  <2>5. CraftTyped' /\ PhaseAndKey'
    BY <2>1, <2>3, <2>4
  <2>6. LooksTrue'
    BY <2>3, <2>4
  <2>7. BaselineTrue'
    BY <2>1, <2>4
  <2>8. ClickedOnce' /\ ClosesAgain'
    BY <2>1, <2>4
  <2> QED
    BY <2>5, <2>6, <2>7, <2>8
<1>4. CASE SeesOverlay
  BY <1>4 DEF SeesOverlay
<1>5. CASE ReadLogs
  BY <1>5 DEF ReadLogs, Shows
<1>6. CASE ClickRecipe
  <2> DEFINE more == clicks + 1
             first == Baseline
  <2>1. /\ craft.phase = "locate" /\ closer = "none" /\ key = "none" /\ facts.at = "opened"
        /\ craft' = [craft EXCEPT !.phase = "verify", !.baseline = first]
        /\ key' = "click" /\ clicks' = more
        /\ UNCHANGED <<closer, game, glance, scan, facts, crafted, startled, nesting>>
    BY <1>6 DEF ClickRecipe, Shows
  <2>2. more \in Nat /\ (clicks = 0 => more = 1)
    OBVIOUS
  <2>3. first \in Nat /\ StillThere(first)
    BY <2>1 DEF Baseline
  <2> HIDE DEF more, first
  <2>4. /\ craft' \in [phase : {"none", "open", "locate", "verify", "close", "complete", "failed"},
                        toggled : BOOLEAN, baseline : Nat]
        /\ craft'.phase = "verify" /\ craft'.toggled /\ craft'.baseline = first
    BY <2>1, <2>3
  <2>5. CraftTyped' /\ PhaseAndKey' /\ ClickedOnce' /\ ClosesAgain'
    BY <2>1, <2>2, <2>4
  <2>6. LooksTrue'
    BY <2>1, <2>4
  <2>7. BaselineTrue'
    BY <2>1, <2>3, <2>4
  <2> QED
    BY <2>5, <2>6, <2>7
<1>7. CASE VerifyOutput
  BY <1>7 DEF VerifyOutput, Delta
<1>8. CASE SeesWorld
  BY <1>8 DEF SeesWorld
<1>9. CASE StartClosing
  <2>1. /\ closer = "none" /\ key = "none" /\ closer' = "started" /\ glance = "inventory"
        /\ UNCHANGED <<key, game, glance, scan, facts, crafted, clicks, startled, nesting>>
        /\ \/ ~Crafting /\ craft' = craft
           \/ Crafting /\ nesting /\ craft' = OpenInventory
    BY <1>9 DEF StartClosing
  <2>2. CASE ~Crafting /\ craft' = craft
    BY <2>1, <2>2
  <2>3. CASE Crafting /\ nesting /\ craft' = OpenInventory
    <3>1. /\ craft' \in [phase : {"none", "open", "locate", "verify", "close", "complete", "failed"},
                          toggled : BOOLEAN, baseline : Nat]
          /\ craft'.phase = "open" /\ ~craft'.toggled /\ craft'.baseline = 0
      BY <2>3 DEF OpenInventory, Idle0
    <3>2. CraftTyped' /\ PhaseAndKey'
      BY <2>1, <3>1
    <3>3. LooksTrue' /\ BaselineTrue'
      BY <2>1, <3>1
    <3>4. ClickedOnce' /\ ClosesAgain'
      BY <2>1, <2>3, <3>1
    <3> QED
      BY <3>2, <3>3, <3>4
  <2> QED
    BY <2>1, <2>2, <2>3
<1>10. CASE PressClose
  BY <1>10 DEF PressClose
<1>11. CASE ClosingEnds
  BY <1>11 DEF ClosingEnds
<1>12. CASE InputSent
  <2>1. /\ key # "none" /\ key' = "none"
        /\ UNCHANGED <<craft, closer, glance, scan, facts, clicks, startled, nesting>>
    BY <1>12 DEF InputSent
  <2>2. \/ key = "toggle" /\ game' = [game EXCEPT !.open = ~@] /\ crafted' = crafted
        \/ /\ key = "click" /\ game.open /\ game.logs > 0
           /\ game' = [game EXCEPT !.logs = @ - 1, !.planks = TRUE] /\ crafted' = TRUE
        \/ key = "click" /\ game' = game /\ crafted' = crafted
        \/ /\ key = "click" /\ ~game.open /\ game.logs > 0
           /\ game' = [game EXCEPT !.logs = @ - 1] /\ crafted' = crafted
    BY <1>12 DEF InputSent, Crafts
  <2>3. CASE key = "toggle" /\ game' = [game EXCEPT !.open = ~@] /\ crafted' = crafted
    <3>1. /\ game' \in [open : BOOLEAN, logs : Nat, planks : BOOLEAN] /\ game'.open = ~game.open
          /\ game'.logs = game.logs /\ game'.planks = game.planks
      BY <2>3
    <3> QED
      BY <2>1, <2>3, <3>1
  <2>4. CASE /\ key = "click" /\ game.open /\ game.logs > 0
             /\ game' = [game EXCEPT !.logs = @ - 1, !.planks = TRUE] /\ crafted' = TRUE
    <3> DEFINE less == game.logs - 1
    <3>1. less \in Nat
      BY <2>4
    <3>2. game' = [game EXCEPT !.logs = less, !.planks = TRUE]
      BY <2>4
    <3> HIDE DEF less
    <3>3. game' \in [open : BOOLEAN, logs : Nat, planks : BOOLEAN] /\ game'.open = game.open
      BY <3>1, <3>2
    <3> QED
      BY <2>1, <2>4, <3>3
  <2>5. CASE key = "click" /\ game' = game /\ crafted' = crafted
    BY <2>1, <2>5
  <2>6. CASE /\ key = "click" /\ ~game.open /\ game.logs > 0
             /\ game' = [game EXCEPT !.logs = @ - 1] /\ crafted' = crafted
    <3> DEFINE less == game.logs - 1
    <3>1. less \in Nat
      BY <2>6
    <3>2. game' = [game EXCEPT !.logs = less]
      BY <2>6
    <3> HIDE DEF less
    <3>3. /\ game' \in [open : BOOLEAN, logs : Nat, planks : BOOLEAN] /\ game'.open = game.open
          /\ game'.planks = game.planks
      BY <3>1, <3>2
    <3> QED
      BY <2>1, <2>6, <3>3
  <2> QED
    BY <2>2, <2>3, <2>4, <2>5, <2>6
<1>13. CASE InputRefused
  BY <1>13 DEF InputRefused
<1>14. CASE Glance
  BY <1>14 DEF Glance
<1>15. CASE ScanBegins
  BY <1>15 DEF ScanBegins, Nothing
<1>16. CASE ScanEnds
  BY <1>16 DEF ScanEnds, Nothing
<1>17. CASE Meanwhile
  <2>1. UNCHANGED <<craft, closer, key, glance, scan, facts, crafted, clicks, nesting>>
    BY <1>17 DEF Meanwhile
  <2>2. \/ game' = [game EXCEPT !.logs = @ + 1] /\ startled' = startled
        \/ /\ ~Crafting /\ ~game.open /\ startled' = startled
           /\ game' \in [open : {FALSE}, logs : 0 .. MaxHeld, planks : BOOLEAN]
        \/ /\ game.open /\ startled' = TRUE
           /\ game' \in {[game EXCEPT !.open = FALSE], [open |-> FALSE, logs |-> 0, planks |-> FALSE]}
    BY <1>17 DEF Meanwhile
  <2>3. CASE game' = [game EXCEPT !.logs = @ + 1] /\ startled' = startled
    <3> DEFINE more == game.logs + 1
    <3>1. more \in Nat /\ \A n \in Nat : n <= game.logs => n <= more
      OBVIOUS
    <3>2. game' = [game EXCEPT !.logs = more]
      BY <2>3
    <3> HIDE DEF more
    <3>3. /\ game' \in [open : BOOLEAN, logs : Nat, planks : BOOLEAN] /\ game'.open = game.open
          /\ game'.planks = game.planks /\ game'.logs = more
      BY <3>1, <3>2
    <3> QED
      BY <2>1, <2>3, <3>1, <3>3
  <2>4. CASE /\ ~Crafting /\ ~game.open /\ startled' = startled
             /\ game' \in [open : {FALSE}, logs : 0 .. MaxHeld, planks : BOOLEAN]
    <3>1. 0 .. MaxHeld \subseteq Nat
      BY CraftAssumption
    <3>2. game' \in [open : BOOLEAN, logs : Nat, planks : BOOLEAN] /\ ~game'.open
      BY <2>4, <3>1
    <3>3. ~Watching /\ ~Watching' /\ Crafting' = Crafting
      BY <2>1, <2>4
    <3> QED
      BY <2>1, <2>4, <3>2, <3>3
  <2>5. CASE /\ game.open /\ startled' = TRUE
             /\ game' \in {[game EXCEPT !.open = FALSE], [open |-> FALSE, logs |-> 0, planks |-> FALSE]}
    <3>1. /\ game' \in [open : BOOLEAN, logs : Nat, planks : BOOLEAN] /\ ~game'.open
          /\ (game'.logs = game.logs /\ game'.planks = game.planks) \/ ~game'.planks
      <4>1. CASE game' = [game EXCEPT !.open = FALSE]
        BY <4>1
      <4>2. CASE game' = [open |-> FALSE, logs |-> 0, planks |-> FALSE]
        BY <4>2
      <4> QED
        BY <2>5, <4>1, <4>2
    <3> QED
      BY <2>1, <2>5, <3>1
  <2> QED
    BY <2>2, <2>3, <2>4, <2>5
<1>18. CASE UNCHANGED craftVars
  BY <1>18 DEF craftVars
<1> QED
  BY <1>1, <1>2, <1>3, <1>4, <1>5, <1>6, <1>7, <1>8, <1>9, <1>10, <1>11, <1>12, <1>13, <1>14, <1>15, <1>16, <1>17, <1>18 DEF CraftNext

\* What the runs check of a craft follows from the invariant.
LEMMA CraftSuffices == CraftIInv => CraftIsTrue
  BY DEF CraftIInv, CraftIsTrue, ClickedOnce, ClosesAgain

(***************************************************************************)
(* For every number of logs and clicks: a craft that is reported as done   *)
(* was made, by the one click of its run, and has closed the inventory     *)
(* again, whichever keys are refused and however late the looks at the     *)
(* inventory are (crafting.py:50-58, 351-430).                             *)
(***************************************************************************)
THEOREM CraftSafety == CraftSpec => []CraftIsTrue
<1>1. CraftIInv /\ [CraftNext]_craftVars => CraftIInv'
  BY CraftSteps
<1> QED
  BY CraftStarts, <1>1, CraftSuffices, PTL DEF CraftSpec

(***************************************************************************)
(* A decision on its way from the worker to the runtime.                   *)
(***************************************************************************)
Requests ==
  [oper : Nat, exec : Nat, late : BOOLEAN, complete : BOOLEAN,
   disposition : {"none", "pending", "accepted", "rejected", "publication_failed"}, noticed : BOOLEAN]
Futures ==
  [state : {"none", "queued", "running", "done", "failed", "cancelled"}, attached : BOOLEAN,
   result : {"none", "model", "fallback", "error"}]
WorkSteps == {"idle", "start", "attempt", "call", "complete", "set", "settle", "notify", "finish"}
Ends == {"idle", "cancel", "replace", "retire", "drain", "off"}
TurnSteps ==
  Ends \cup {"register", "settle", "reject", "notify", "preflight", "screen", "admit", "commit", "fault"}
Judging == {"preflight", "screen", "admit", "commit", "fault"}

BoundTyped ==
  /\ oper \in Nat /\ exec \in Nat /\ oper + exec <= MaxRevisions
  /\ latches \subseteq Latches /\ stopping \in BOOLEAN /\ closed \in BOOLEAN
  /\ request \in [Questions -> Requests] /\ future \in [Questions -> Futures]
  /\ queue \in Seq(Questions)
  /\ wk \in [at : WorkSteps, r : Questions \cup {NoQuestion}, tries : 0 .. MaxAttempts, active : BOOLEAN]
  /\ registry \subseteq Questions /\ shown \subseteq Questions
  /\ pending \in Questions \cup {NoQuestion}
  /\ last \in Questions \cup {NoQuestion, FastPath} /\ saved \in Questions \cup {NoQuestion, FastPath}
  /\ rt \in [at : TurnSteps, r : Questions \cup {NoQuestion}, then : Ends]
  /\ notices \in [Questions -> Nat]

\* The account of each request agrees with its future, its notice and its publication.
Accounts ==
  \A r \in Questions :
    /\ future[r].state = "none" <=> request[r].disposition = "none"
    /\ notices[r] <= 1 /\ (notices[r] = 1 <=> request[r].noticed)
    /\ request[r].noticed => Discarded(request[r])
    /\ r \in shown => future[r].state = "done"
    /\ request[r].disposition = "accepted" <=> r \in shown /\ future[r].result = "model"

Places == 1 .. Len(queue)

\* Each request is queued once, and what is queued or running is where it can be seen.
Queued ==
  /\ \A i, j \in Places : queue[i] = queue[j] => i = j
  /\ \A i \in Places : /\ future[queue[i]].state \in {"queued", "cancelled"}
                       /\ wk.at = "start" => wk.r # queue[i]
  /\ \A r \in Questions :
       /\ future[r].state = "queued" => (\E i \in Places : queue[i] = r) \/ (wk.at = "start" /\ wk.r = r)
       /\ future[r].state = "running" => wk.r = r /\ wk.at \in {"attempt", "call", "complete", "set"}

\* Where the worker stands, and the future of what it works on.
Working ==
  /\ wk.active <=> wk.at # "idle"
  /\ wk.at # "idle" => wk.r \in Questions
  /\ wk.at = "start" => future[wk.r].state \in {"queued", "cancelled"} /\ wk.tries = 0
  /\ wk.at \in {"attempt", "call", "complete", "set"} => future[wk.r].state = "running"
  /\ wk.at = "attempt" => wk.tries < MaxAttempts
  /\ wk.at = "settle" => Finished(wk.r)

\* The runtime has given the pending request up, or is about to end.
Leaving ==
  \/ rt.at \in Ends \ {"idle"}
  \/ rt.at \in {"reject", "settle", "notify"} /\ rt.then # "idle"

\* Where the runtime stands, and the future of what it decides on.
Turning ==
  /\ rt.at \in {"register", "settle", "reject", "notify", "cancel"} \cup Judging => rt.r \in Questions
  /\ rt.at \in {"register"} \cup Judging => rt.then = "idle"
  /\ rt.at = "register" => future[rt.r].state # "none"
  /\ rt.at = "settle" => Finished(rt.r)
  /\ rt.at \in Judging => future[rt.r].state = "done"
  /\ rt.at \in Judging \/ (rt.at = "reject" /\ rt.then = "idle") => pending = NoQuestion
  /\ pending # NoQuestion => pending \in registry \/ Leaving

\* A publication in progress is of an open request under the current revisions.
Publishing ==
  rt.at = "commit" =>
    /\ request[rt.r].disposition = "pending" /\ request[rt.r].oper = oper /\ request[rt.r].exec = exec
    /\ "pause" \notin latches
    /\ saved \in Questions => saved \in shown

Adopted == last \in Questions => last \in shown \/ (rt.at = "commit" /\ rt.r = last)

DecisionIInv == BoundTyped /\ Accounts /\ Queued /\ Working /\ Turning /\ Publishing /\ Adopted

\* What may become of a request between its submission and its publication.
Later(p, q) ==
  /\ q.oper = p.oper /\ q.exec = p.exec /\ q.noticed = p.noticed
  /\ p.complete => q.complete
  /\ \/ q.disposition = p.disposition
     \/ p.disposition = "pending" /\ q.disposition \in {"rejected", "publication_failed"}

\* What may become of a future once it was submitted.
Further(f, g) ==
  /\ f.state = "none" <=> g.state = "none"
  /\ f.state \in {"done", "failed", "cancelled"} => g.state = f.state /\ g.result = f.result

AllLater == \A r \in Questions : Later(request[r], request'[r])
AllFurther == \A r \in Questions : Further(future[r], future'[r])

\* The runtime only attaches a callback or cancels what is queued.
OnlyCancels ==
  \A r \in Questions :
    /\ future'[r].result = future[r].result
    /\ future'[r].state = future[r].state \/ (future[r].state = "queued" /\ future'[r].state = "cancelled")

\* The marks that are no request.
LEMMA DecisionVocabulary ==
  /\ Questions \subseteq Nat \ {0} /\ NoQuestion = 0 /\ NoQuestion \notin Questions
  /\ FastPath \notin Questions
<1>1. \A n \in 1 .. MaxRequests : n \in Nat /\ n # 0 /\ n # -1
  BY BoundAssumption
<1> QED
  BY <1>1 DEF Questions, NoQuestion, FastPath

\* Nothing is a step of everything.
LEMMA NothingIsLater ==
  /\ request' = request => AllLater
  /\ future' = future => AllFurther /\ OnlyCancels
  /\ OnlyCancels => AllFurther
BY DEF AllLater, Later, AllFurther, Further, OnlyCancels

\* Accounts stay right while requests and futures go their way.
LEMMA AccountsKept ==
  ASSUME BoundTyped, BoundTyped', Accounts, UNCHANGED <<notices, shown>>, AllLater, AllFurther
  PROVE  Accounts'
<1> SUFFICES ASSUME NEW r \in Questions
             PROVE  /\ future'[r].state = "none" <=> request'[r].disposition = "none"
                    /\ notices'[r] <= 1 /\ (notices'[r] = 1 <=> request'[r].noticed)
                    /\ request'[r].noticed => Discarded(request'[r])
                    /\ r \in shown' => future'[r].state = "done"
                    /\ request'[r].disposition = "accepted" <=> r \in shown' /\ future'[r].result = "model"
  BY DEF Accounts, Discarded
<1> DEFINE p == request[r]
           q == request'[r]
           f == future[r]
           g == future'[r]
<1>1. p \in Requests /\ q \in Requests /\ f \in Futures /\ g \in Futures
  BY DEF BoundTyped
<1>2. Later(p, q) /\ Further(f, g)
  BY DEF AllLater, AllFurther
<1>3. /\ f.state = "none" <=> p.disposition = "none"
      /\ notices[r] <= 1 /\ (notices[r] = 1 <=> p.noticed)
      /\ p.noticed => Discarded(p)
      /\ r \in shown => f.state = "done"
      /\ p.disposition = "accepted" <=> r \in shown /\ f.result = "model"
  BY DEF Accounts
<1> HIDE DEF p, q, f, g
<1>4. g.state = "none" <=> q.disposition = "none"
  BY <1>2, <1>3 DEF Later, Further
<1>5. q.noticed = p.noticed /\ (q.noticed => Discarded(q))
  BY <1>2, <1>3 DEF Later, Discarded
<1>6. r \in shown => g.state = "done" /\ g.result = f.result
  BY <1>2, <1>3 DEF Further
<1>7. q.disposition = "accepted" <=> p.disposition = "accepted"
  BY <1>2 DEF Later
<1> QED
  BY <1>3, <1>4, <1>5, <1>6, <1>7 DEF p, q, f, g

\* The worker and its queue stand still while the runtime cancels what is queued.
LEMMA WorkerStands ==
  ASSUME Queued, Working, UNCHANGED <<queue, wk>>, BoundTyped, OnlyCancels
  PROVE  Queued' /\ Working'
<1>1. Places' = Places /\ \A i \in Places : queue[i] \in Questions
  BY DEF Places, BoundTyped
<1>2. Queued'
  <2>1. \A i \in Places : /\ future'[queue[i]].state \in {"queued", "cancelled"}
                          /\ wk.at = "start" => wk.r # queue[i]
    BY <1>1 DEF Queued, OnlyCancels
  <2>2. \A r \in Questions :
          /\ future'[r].state = "queued" => (\E i \in Places : queue[i] = r) \/ (wk.at = "start" /\ wk.r = r)
          /\ future'[r].state = "running" => wk.r = r /\ wk.at \in {"attempt", "call", "complete", "set"}
    BY DEF Queued, OnlyCancels
  <2> QED
    BY <1>1, <2>1, <2>2 DEF Queued
<1>3. Working'
  <2>1. wk.at # "idle" => wk.r \in Questions
    BY DEF Working
  <2> QED
    BY <2>1 DEF Working, OnlyCancels, Finished
<1> QED
  BY <1>2, <1>3

\* The runtime stands still while futures go their way.
LEMMA RuntimeStands ==
  ASSUME Turning, UNCHANGED <<rt, pending, registry>>, AllFurther
  PROVE  Turning'
<1>1. rt.at \in {"register", "settle"} \cup Judging => rt.r \in Questions
  BY DEF Turning
<1>2. /\ rt.at = "register" => future'[rt.r].state # "none"
      /\ rt.at = "settle" => Finished(rt.r)'
      /\ rt.at \in Judging => future'[rt.r].state = "done"
  BY <1>1 DEF Turning, AllFurther, Further, Finished, Judging
<1> QED
  BY <1>2 DEF Turning, Leaving

\* A publication goes on while nobody settles its request and its authority stands.
LEMMA PublishingKept ==
  ASSUME Turning, Publishing, rt' = rt, UNCHANGED <<saved, shown>>,
         \A r \in Questions : request'[r].oper = request[r].oper /\ request'[r].exec = request[r].exec,
         rt.at = "commit" =>
           /\ request'[rt.r].disposition = request[rt.r].disposition
           /\ UNCHANGED <<oper, exec>> /\ ("pause" \in latches' => "pause" \in latches)
  PROVE  Publishing'
<1>1. rt.at = "commit" => rt.r \in Questions
  BY DEF Turning, Judging
<1> QED
  BY <1>1 DEF Publishing

\* One request changes: all of them are later.
LEMMA RequestUpdated ==
  ASSUME BoundTyped, NEW r \in Questions, NEW q \in Requests, Later(request[r], q),
         request' = [request EXCEPT ![r] = q]
  PROVE  /\ request' \in [Questions -> Requests] /\ AllLater
         /\ request'[r] = q /\ \A s \in Questions : s # r => request'[s] = request[s]
<1>1. request \in [Questions -> Requests]
  BY DEF BoundTyped
<1>2. /\ request' \in [Questions -> Requests] /\ request'[r] = q
      /\ \A s \in Questions : s # r => request'[s] = request[s]
  BY <1>1
<1>3. AllLater
  BY <1>2 DEF AllLater, Later
<1> QED
  BY <1>2, <1>3

\* A rejection is later than what it rejects.
LEMMA RejectedIsLater ==
  ASSUME NEW q \in Requests
  PROVE  /\ Rejected(q) \in Requests /\ Later(q, Rejected(q)) /\ [Rejected(q) EXCEPT !.complete = TRUE] \in Requests
         /\ Later(q, [Rejected(q) EXCEPT !.complete = TRUE])
         /\ q.disposition # "pending" => Rejected(q) = q
<1>1. CASE q.disposition = "pending"
  <2>1. Rejected(q) = [q EXCEPT !.disposition = "rejected"]
    BY <1>1 DEF Rejected
  <2> QED
    BY <1>1, <2>1 DEF Requests, Later
<1>2. CASE q.disposition # "pending"
  <2>1. Rejected(q) = q
    BY <1>2 DEF Rejected
  <2> QED
    BY <1>2, <2>1 DEF Requests, Later
<1> QED
  BY <1>1, <1>2

\* The done callback makes its request later, and leaves that of a result alone.
LEMMA SettleIsLater ==
  ASSUME BoundTyped, NEW r \in Questions, Finished(r), Settle(r)
  PROVE  /\ request' \in [Questions -> Requests] /\ AllLater
         /\ \A s \in Questions : future[s].state = "done" => request'[s] = request[s]
<1> DEFINE q == request[r]
<1>1. q \in Requests /\ future[r].state \in {"done", "failed", "cancelled"}
  BY DEF BoundTyped, Finished
<1>2. CASE future[r].state = "cancelled"
  <2>1. request' = [request EXCEPT ![r] = [Rejected(q) EXCEPT !.complete = TRUE]]
    BY <1>2 DEF Settle
  <2> QED
    BY <1>1, <1>2, <2>1, RejectedIsLater, RequestUpdated
<1>3. CASE future[r].state = "failed"
  <2>1. request' = [request EXCEPT ![r] = Rejected(q)]
    BY <1>3 DEF Settle
  <2> QED
    BY <1>1, <1>3, <2>1, RejectedIsLater, RequestUpdated
<1>4. CASE future[r].state = "done"
  <2>1. request' = [request EXCEPT ![r] = q]
    BY <1>4 DEF Settle
  <2>2. request' = request
    BY <2>1 DEF BoundTyped
  <2> QED
    BY <2>2, NothingIsLater DEF BoundTyped
<1> QED
  BY <1>1, <1>2, <1>3, <1>4

\* Cancelling touches what is queued only.
LEMMA CancelOnlyCancels ==
  ASSUME BoundTyped, NEW r \in Questions, future' = Cancelled(r)
  PROVE  /\ future' \in [Questions -> Futures] /\ OnlyCancels
         /\ future[r].state = "queued" => future'[r].state = "cancelled"
         /\ \A s \in Questions : s # r => future'[s] = future[s]
<1> DEFINE new == IF future[r].state = "queued" THEN "cancelled" ELSE future[r].state
<1>1. future \in [Questions -> Futures] /\ future[r] \in Futures
  BY DEF BoundTyped
<1>2. /\ new \in {"none", "queued", "running", "done", "failed", "cancelled"}
      /\ new = future[r].state \/ (future[r].state = "queued" /\ new = "cancelled")
      /\ future[r].state = "queued" => new = "cancelled"
  BY <1>1 DEF Futures
<1>3. future' = [future EXCEPT ![r].state = new]
  BY DEF Cancelled
<1> HIDE DEF new
<1>4. /\ future' \in [Questions -> Futures] /\ future'[r].state = new /\ future'[r].result = future[r].result
      /\ \A s \in Questions : s # r => future'[s] = future[s]
  BY <1>1, <1>2, <1>3 DEF Futures
<1> QED
  BY <1>2, <1>4 DEF OnlyCancels

\* A notice is given once, of what is discarded, and changes nothing else.
LEMMA NotifyKeeps ==
  ASSUME BoundTyped, Accounts, NEW r \in Questions, Notify(r), UNCHANGED <<future, shown>>
  PROVE  /\ request' \in [Questions -> Requests] /\ notices' \in [Questions -> Nat] /\ Accounts'
         /\ \A s \in Questions :
              /\ request'[s].oper = request[s].oper /\ request'[s].exec = request[s].exec
              /\ request'[s].disposition = request[s].disposition
<1>1. CASE ~NoticeDue(request[r])
  <2>1. UNCHANGED <<request, notices>>
    BY <1>1 DEF Notify
  <2> QED
    BY <2>1 DEF BoundTyped, Accounts, Discarded
<1>2. CASE NoticeDue(request[r])
  <2> DEFINE more == notices[r] + 1
  <2>1. /\ request' = [request EXCEPT ![r].noticed = TRUE]
        /\ notices' = [notices EXCEPT ![r] = more]
    BY <1>2 DEF Notify
  <2>2. request \in [Questions -> Requests] /\ request[r] \in Requests /\ notices \in [Questions -> Nat]
    BY DEF BoundTyped
  <2>3. ~request[r].noticed /\ Discarded(request[r])
    BY <1>2 DEF NoticeDue
  <2>4. more = 1
    <3>1. notices[r] \in Nat /\ notices[r] <= 1 /\ notices[r] # 1
      BY <2>2, <2>3 DEF Accounts
    <3> QED
      BY <3>1
  <2> HIDE DEF more
  <2>5. /\ request' \in [Questions -> Requests] /\ notices' \in [Questions -> Nat]
        /\ request'[r].noticed /\ notices'[r] = 1
        /\ \A s \in Questions :
             /\ request'[s].oper = request[s].oper /\ request'[s].exec = request[s].exec
             /\ request'[s].disposition = request[s].disposition
             /\ request'[s].complete = request[s].complete
             /\ s # r => request'[s] = request[s] /\ notices'[s] = notices[s]
    BY <2>1, <2>2, <2>4 DEF Requests
  <2>6. Accounts'
    <3> SUFFICES ASSUME NEW s \in Questions
                 PROVE  /\ future'[s].state = "none" <=> request'[s].disposition = "none"
                        /\ notices'[s] <= 1 /\ (notices'[s] = 1 <=> request'[s].noticed)
                        /\ request'[s].noticed => Discarded(request'[s])
                        /\ s \in shown' => future'[s].state = "done"
                        /\ request'[s].disposition = "accepted" <=> s \in shown' /\ future'[s].result = "model"
      BY DEF Accounts, Discarded
    <3>1. CASE s # r
      BY <2>5, <3>1 DEF Accounts, Discarded
    <3>2. CASE s = r
      BY <2>3, <2>5, <3>2 DEF Accounts, Discarded
    <3> QED
      BY <3>1, <3>2
  <2> QED
    BY <2>5, <2>6
<1> QED
  BY <1>1, <1>2

\* A decision that is not being published stays where it is.
LEMMA AdoptedKept ==
  ASSUME Adopted, last' = last, shown' = shown, rt.at # "commit" \/ rt' = rt
  PROVE  Adopted'
BY DEF Adopted

\* The steps of the runtime up to the judgement of a decision.
LEMMA TurnSteps1 ==
  ASSUME DecisionIInv,
         Register \/ RtSettle \/ Reject \/ RtNotify \/ Cancel \/ Replace \/ Consume \/ Abandon
  PROVE  DecisionIInv'
<1> USE DEF DecisionIInv, Goto, GoOn, Rt
<1>0. /\ BoundTyped /\ Accounts /\ Queued /\ Working /\ Turning /\ Publishing /\ Adopted
      /\ rt \in [at : TurnSteps, r : Questions \cup {NoQuestion}, then : Ends]
  BY DEF BoundTyped
<1>1. CASE Register
  <2>1. /\ rt.at = "register" /\ registry' = registry \cup {rt.r} /\ pending' = rt.r
        /\ UNCHANGED <<authority, request, executor, last, saved, history>>
    BY <1>1 DEF Register
  <2>2. rt.r \in Questions /\ rt.then = "idle"
    BY <1>0, <2>1 DEF Turning
  <2>3. CASE Finished(rt.r)
    <3>1. rt' = [rt EXCEPT !.at = "settle"] /\ future' = future
      BY <1>1, <2>3 DEF Register
    <3>2. /\ rt' \in [at : TurnSteps, r : Questions \cup {NoQuestion}, then : Ends]
          /\ rt'.at = "settle" /\ rt'.r = rt.r
      BY <1>0, <3>1 DEF TurnSteps
    <3>3. BoundTyped'
      BY <2>1, <2>2, <3>1, <3>2 DEF BoundTyped, authority, executor, history
    <3>4. Accounts' /\ Queued' /\ Working'
      BY <2>1, <3>1, <3>3, NothingIsLater, AccountsKept, WorkerStands DEF executor, history
    <3>5. Turning'
      BY <2>1, <2>2, <2>3, <3>1, <3>2 DEF Turning, Finished, Judging, Leaving
    <3>6. Publishing' /\ Adopted'
      BY <2>1, <3>2, AdoptedKept DEF Publishing, history
    <3> QED
      BY <3>3, <3>4, <3>5, <3>6
  <2>4. CASE ~Finished(rt.r)
    <3>1. rt' = [rt EXCEPT !.at = rt.then] /\ future' = [future EXCEPT ![rt.r].attached = TRUE]
      BY <1>1, <2>4 DEF Register
    <3>2. rt' \in [at : TurnSteps, r : Questions \cup {NoQuestion}, then : Ends] /\ rt'.at = "idle"
      BY <1>0, <2>2, <3>1 DEF TurnSteps, Ends
    <3>3. future' \in [Questions -> Futures] /\ OnlyCancels
      <4>1. future \in [Questions -> Futures]
        BY DEF BoundTyped
      <4>2. /\ future' \in [Questions -> Futures]
            /\ \A r \in Questions : future'[r].state = future[r].state /\ future'[r].result = future[r].result
        BY <2>2, <3>1, <4>1 DEF Futures
      <4> QED
        BY <4>2 DEF OnlyCancels
    <3>4. BoundTyped'
      BY <2>1, <2>2, <3>2, <3>3 DEF BoundTyped, authority, executor, history
    <3>5. Accounts' /\ Queued' /\ Working'
      BY <2>1, <3>3, <3>4, NothingIsLater, AccountsKept, WorkerStands DEF executor, history
    <3>6. Turning'
      BY <2>1, <3>2 DEF Turning, Judging
    <3>7. Publishing' /\ Adopted'
      BY <2>1, <3>2, AdoptedKept DEF Publishing, history
    <3> QED
      BY <3>4, <3>5, <3>6, <3>7
  <2> QED
    BY <2>3, <2>4
<1>2. CASE RtSettle
  <2>1. /\ rt.at = "settle" /\ Settle(rt.r) /\ rt' = [rt EXCEPT !.at = "notify"]
        /\ UNCHANGED <<authority, future, executor, registry, pending, last, saved, history>>
    BY <1>2 DEF RtSettle
  <2>2. rt.r \in Questions /\ Finished(rt.r)
    BY <1>0, <2>1 DEF Turning
  <2>3. /\ rt' \in [at : TurnSteps, r : Questions \cup {NoQuestion}, then : Ends]
        /\ rt'.at = "notify" /\ rt'.r = rt.r /\ rt'.then = rt.then
    BY <1>0, <2>1 DEF TurnSteps
  <2>4. request' \in [Questions -> Requests] /\ AllLater
    BY <2>1, <2>2, SettleIsLater
  <2>5. BoundTyped'
    BY <2>1, <2>3, <2>4 DEF BoundTyped, authority, executor, history
  <2>6. Accounts' /\ Queued' /\ Working'
    BY <2>1, <2>4, <2>5, NothingIsLater, AccountsKept, WorkerStands DEF executor, history
  <2>7. Turning'
    BY <2>1, <2>2, <2>3 DEF Turning, Judging, Leaving, Ends
  <2>8. Publishing' /\ Adopted'
    BY <2>1, <2>3, AdoptedKept DEF Publishing, history
  <2> QED
    BY <2>5, <2>6, <2>7, <2>8
<1>3. CASE Reject
  <2> DEFINE q == IF rt.r \in registry THEN Rejected(request[rt.r]) ELSE request[rt.r]
  <2>1. /\ rt.at = "reject" /\ rt' = [rt EXCEPT !.at = "notify"] /\ registry' = registry \ {rt.r}
        /\ request' = [request EXCEPT ![rt.r] = q]
        /\ UNCHANGED <<authority, future, executor, pending, last, saved, history>>
    BY <1>3 DEF Reject
  <2>2. rt.r \in Questions
    BY <1>0, <2>1 DEF Turning
  <2>3. q \in Requests /\ Later(request[rt.r], q)
    <3>1. request[rt.r] \in Requests
      BY <2>2 DEF BoundTyped
    <3> QED
      BY <3>1, RejectedIsLater DEF Later
  <2> HIDE DEF q
  <2>4. /\ rt' \in [at : TurnSteps, r : Questions \cup {NoQuestion}, then : Ends]
        /\ rt'.at = "notify" /\ rt'.r = rt.r /\ rt'.then = rt.then
    BY <1>0, <2>1 DEF TurnSteps
  <2>5. request' \in [Questions -> Requests] /\ AllLater
    BY <2>1, <2>2, <2>3, RequestUpdated
  <2>6. BoundTyped'
    BY <2>1, <2>4, <2>5 DEF BoundTyped, authority, executor, history
  <2>7. Accounts' /\ Queued' /\ Working'
    BY <2>1, <2>5, <2>6, NothingIsLater, AccountsKept, WorkerStands DEF executor, history
  <2>8. Turning'
    BY <2>1, <2>2, <2>4 DEF Turning, Judging, Leaving, Ends
  <2>9. Publishing' /\ Adopted'
    BY <2>1, <2>4, AdoptedKept DEF Publishing, history
  <2> QED
    BY <2>6, <2>7, <2>8, <2>9
<1>4. CASE RtNotify
  <2>1. /\ rt.at = "notify" /\ Notify(rt.r) /\ rt' = [rt EXCEPT !.at = rt.then]
        /\ UNCHANGED <<authority, future, executor, registry, pending, last, saved, shown>>
    BY <1>4 DEF RtNotify
  <2>2. rt.r \in Questions
    BY <1>0, <2>1 DEF Turning
  <2>3. /\ rt' \in [at : TurnSteps, r : Questions \cup {NoQuestion}, then : Ends]
        /\ rt'.at = rt.then /\ rt.then \in Ends /\ rt'.r = rt.r
    BY <1>0, <2>1 DEF TurnSteps
  <2>4. request' \in [Questions -> Requests] /\ notices' \in [Questions -> Nat] /\ Accounts'
    BY <1>0, <2>1, <2>2, NotifyKeeps
  <2>5. BoundTyped'
    BY <2>1, <2>3, <2>4 DEF BoundTyped, authority, executor
  <2>6. Queued' /\ Working'
    BY <2>1, NothingIsLater, WorkerStands DEF executor
  <2>7. Turning'
    BY <2>1, <2>2, <2>3 DEF Turning, Judging, Leaving, Ends
  <2>8. Publishing' /\ Adopted'
    BY <2>1, <2>3, AdoptedKept DEF Publishing, Ends
  <2> QED
    BY <2>4, <2>5, <2>6, <2>7, <2>8
<1>5. CASE Cancel
  <2>1. /\ rt.at = "cancel" /\ future' = Cancelled(rt.r)
        /\ UNCHANGED <<authority, request, executor, registry, pending, last, saved, history>>
        /\ \/ CallsBack(rt.r) /\ rt' = [at |-> "settle", r |-> rt.r, then |-> "replace"]
           \/ rt' = [at |-> "replace", r |-> rt.r, then |-> "idle"]
    BY <1>5 DEF Cancel
  <2>2. rt.r \in Questions
    BY <1>0, <2>1 DEF Turning
  <2>3. /\ future' \in [Questions -> Futures] /\ OnlyCancels
        /\ future[rt.r].state = "queued" => future'[rt.r].state = "cancelled"
    BY <2>1, <2>2, CancelOnlyCancels
  <2>4. rt' \in [at : TurnSteps, r : Questions \cup {NoQuestion}, then : Ends] /\ rt'.at # "commit"
    BY <2>1, <2>2 DEF TurnSteps, Ends
  <2>5. BoundTyped'
    BY <2>1, <2>3, <2>4 DEF BoundTyped, authority, executor, history
  <2>6. Accounts' /\ Queued' /\ Working'
    BY <2>1, <2>3, <2>5, NothingIsLater, AccountsKept, WorkerStands DEF executor, history
  <2>7. Turning'
    <3>1. CASE CallsBack(rt.r) /\ rt' = [at |-> "settle", r |-> rt.r, then |-> "replace"]
      <4>1. Finished(rt.r)'
        BY <2>3, <3>1 DEF CallsBack, Finished
      <4> QED
        BY <2>2, <3>1, <4>1 DEF Turning, Judging, Leaving, Ends, Finished
    <3>2. CASE rt' = [at |-> "replace", r |-> rt.r, then |-> "idle"]
      BY <3>2 DEF Turning, Judging, Leaving, Ends
    <3> QED
      BY <2>1, <3>1, <3>2
  <2>8. Publishing' /\ Adopted'
    BY <2>1, <2>4, AdoptedKept DEF Publishing, history
  <2> QED
    BY <2>5, <2>6, <2>7, <2>8
<1>6. CASE Replace
  <2>1. /\ rt.at = "replace" /\ pending' = NoQuestion /\ last' \in {last, FastPath}
        /\ rt' = [at |-> "idle", r |-> NoQuestion, then |-> "idle"]
        /\ UNCHANGED <<authority, request, future, executor, registry, saved, history>>
    BY <1>6 DEF Replace
  <2>2. rt' \in [at : TurnSteps, r : Questions \cup {NoQuestion}, then : Ends] /\ rt'.at = "idle"
    BY <2>1 DEF TurnSteps, Ends
  <2>3. BoundTyped'
    BY <2>1, <2>2 DEF BoundTyped, authority, executor, history
  <2>4. Accounts' /\ Queued' /\ Working'
    BY <2>1, <2>3, NothingIsLater, AccountsKept, WorkerStands DEF executor, history
  <2>5. Turning' /\ Publishing'
    BY <2>1, <2>2 DEF Turning, Judging, Publishing
  <2>6. Adopted'
    BY <2>1, DecisionVocabulary DEF Adopted, history
  <2> QED
    BY <2>3, <2>4, <2>5, <2>6
<1>7. CASE Consume
  <2>1. /\ rt.at = "idle" /\ pending # NoQuestion /\ Finished(pending) /\ pending' = NoQuestion
        /\ \/ /\ future[pending].state = "done"
              /\ rt' = [at |-> "preflight", r |-> pending, then |-> "idle"]
           \/ rt' = [at |-> "reject", r |-> pending, then |-> "idle"]
        /\ UNCHANGED <<authority, request, future, executor, registry, last, saved, history>>
    BY <1>7 DEF Consume
  <2>2. pending \in Questions
    BY <2>1 DEF BoundTyped
  <2>3. rt' \in [at : TurnSteps, r : Questions \cup {NoQuestion}, then : Ends] /\ rt'.at # "commit"
    BY <2>1, <2>2 DEF TurnSteps, Ends
  <2>4. BoundTyped'
    BY <2>1, <2>3 DEF BoundTyped, authority, executor, history
  <2>5. Accounts' /\ Queued' /\ Working'
    BY <2>1, <2>4, NothingIsLater, AccountsKept, WorkerStands DEF executor, history
  <2>6. Turning' /\ Publishing'
    BY <2>1, <2>2 DEF Turning, Judging, Publishing
  <2>7. Adopted'
    BY <2>1, AdoptedKept DEF history
  <2> QED
    BY <2>4, <2>5, <2>6, <2>7
<1>8. CASE Abandon
  <2>1. /\ rt.at = "idle" /\ pending # NoQuestion
        /\ rt' = [at |-> "reject", r |-> pending, then |-> "cancel"]
        /\ UNCHANGED <<authority, request, future, executor, registry, pending, last, saved, history>>
    BY <1>8 DEF Abandon
  <2>2. pending \in Questions
    BY <2>1 DEF BoundTyped
  <2>3. rt' \in [at : TurnSteps, r : Questions \cup {NoQuestion}, then : Ends] /\ rt'.at # "commit"
    BY <2>1, <2>2 DEF TurnSteps, Ends
  <2>4. BoundTyped'
    BY <2>1, <2>3 DEF BoundTyped, authority, executor, history
  <2>5. Accounts' /\ Queued' /\ Working'
    BY <2>1, <2>4, NothingIsLater, AccountsKept, WorkerStands DEF executor, history
  <2>6. Turning' /\ Publishing'
    BY <2>1, <2>2 DEF Turning, Judging, Publishing, Leaving, Ends
  <2>7. Adopted'
    BY <2>1, AdoptedKept DEF history
  <2> QED
    BY <2>4, <2>5, <2>6, <2>7
<1> QED
  BY <1>1, <1>2, <1>3, <1>4, <1>5, <1>6, <1>7, <1>8

\* What an element more or less makes of a queue.
LEMMA AppendFacts ==
  ASSUME NEW S, NEW s \in Seq(S), NEW x \in S
  PROVE  /\ Append(s, x) \in Seq(S) /\ Len(Append(s, x)) = Len(s) + 1 /\ Len(s) \in Nat
         /\ \A i \in 1 .. Len(s) : Append(s, x)[i] = s[i]
         /\ Append(s, x)[Len(s) + 1] = x
  OBVIOUS

\* What is left of a sequence without its head.
LEMMA TailFacts ==
  ASSUME NEW S, NEW s \in Seq(S), s # <<>>
  PROVE  /\ Head(s) = s[1] /\ s[1] \in S /\ Tail(s) \in Seq(S)
         /\ Len(s) \in Nat \ {0} /\ Len(Tail(s)) = Len(s) - 1
         /\ \A i \in 1 .. Len(Tail(s)) : Tail(s)[i] = s[i + 1] /\ i + 1 \in 2 .. Len(s)
  OBVIOUS

\* Whose first element is taken leaves the rest in order, and the rest is different.
LEMMA TakenFromQueue ==
  ASSUME BoundTyped, Queued, queue # <<>>, queue' = Tail(queue)
  PROVE  /\ Head(queue) \in Questions /\ queue' \in Seq(Questions)
         /\ future[Head(queue)].state \in {"queued", "cancelled"}
         /\ wk.at = "start" => wk.r # Head(queue)
         /\ \A i, j \in Places' : queue'[i] = queue'[j] => i = j
         /\ \A i \in Places' : /\ queue'[i] # Head(queue) /\ queue'[i] \in Questions
                               /\ future[queue'[i]].state \in {"queued", "cancelled"}
                               /\ wk.at = "start" => wk.r # queue'[i]
         /\ \A r \in Questions : (\E i \in Places : queue[i] = r) =>
                                  r = Head(queue) \/ \E i \in Places' : queue'[i] = r
<1>0. \A k, l \in Places : queue[k] = queue[l] => k = l
  BY DEF Queued
<1>1. /\ Head(queue) = queue[1] /\ queue[1] \in Questions /\ Tail(queue) \in Seq(Questions)
      /\ Len(queue) \in Nat \ {0} /\ Len(Tail(queue)) = Len(queue) - 1
      /\ \A i \in 1 .. Len(Tail(queue)) : Tail(queue)[i] = queue[i + 1] /\ i + 1 \in 2 .. Len(queue)
  BY TailFacts DEF BoundTyped
<1>2. 1 \in Places
  BY <1>1 DEF Places
<1>3. \A i \in Places' : queue'[i] = queue[i + 1] /\ i + 1 \in Places /\ i + 1 # 1 /\ i \in Nat
  BY <1>1 DEF Places
<1>4. \A i, j \in Places' : queue'[i] = queue'[j] => i = j
  <2> SUFFICES ASSUME NEW i \in Places', NEW j \in Places', queue'[i] = queue'[j] PROVE i = j
    OBVIOUS
  <2> DEFINE k == i + 1
             l == j + 1
  <2>1. queue'[i] = queue[k] /\ k \in Places /\ i \in Nat
    BY <1>3
  <2>2. queue'[j] = queue[l] /\ l \in Places /\ j \in Nat
    BY <1>3
  <2>3. k = l => i = j
    BY <2>1, <2>2
  <2> HIDE DEF k, l
  <2> QED
    BY <1>0, <2>1, <2>2, <2>3
<1>5. \A i \in Places' : queue'[i] # queue[1]
  <2> SUFFICES ASSUME NEW i \in Places' PROVE queue'[i] # queue[1]
    OBVIOUS
  <2> DEFINE k == i + 1
  <2>1. k \in Places /\ queue'[i] = queue[k] /\ k # 1
    BY <1>3
  <2> HIDE DEF k
  <2> QED
    BY <1>0, <1>2, <2>1
<1>6. \A i \in Places : i = 1 \/ \E j \in Places' : j + 1 = i
  <2> SUFFICES ASSUME NEW i \in Places, i # 1 PROVE \E j \in Places' : j + 1 = i
    OBVIOUS
  <2>1. i - 1 \in Places' /\ (i - 1) + 1 = i
    BY <1>1 DEF Places
  <2> QED
    BY <2>1
<1>7. \A i \in Places' : queue'[i] \in Questions
  BY <1>1 DEF Places
<1>8. \A r \in Questions : (\E i \in Places : queue[i] = r) =>
                             r = Head(queue) \/ \E i \in Places' : queue'[i] = r
  <2> SUFFICES ASSUME NEW i \in Places, i # 1 PROVE \E j \in Places' : queue'[j] = queue[i]
    BY <1>1
  <2>1. PICK j \in Places' : j + 1 = i
    BY <1>6
  <2>2. queue'[j] = queue[i]
    BY <1>3, <2>1
  <2> QED
    BY <2>2
<1>9. /\ future[queue[1]].state \in {"queued", "cancelled"} /\ (wk.at = "start" => wk.r # queue[1])
      /\ \A i \in Places' : /\ future[queue'[i]].state \in {"queued", "cancelled"}
                            /\ wk.at = "start" => wk.r # queue'[i]
  <2>1. \A k \in Places : /\ future[queue[k]].state \in {"queued", "cancelled"}
                          /\ wk.at = "start" => wk.r # queue[k]
    BY DEF Queued
  <2> QED
    BY <1>2, <1>3, <2>1
<1> QED
  BY <1>1, <1>4, <1>5, <1>7, <1>8, <1>9

\* The judgement of a decision.
LEMMA TurnSteps2 ==
  ASSUME DecisionIInv, Preflight \/ Screen \/ Admit \/ Commit \/ Fault \/ ExecutionChanges
  PROVE  DecisionIInv'
<1> USE DEF DecisionIInv, Goto, GoOn, Rt
<1>0. /\ BoundTyped /\ Accounts /\ Queued /\ Working /\ Turning /\ Publishing /\ Adopted
      /\ rt \in [at : TurnSteps, r : Questions \cup {NoQuestion}, then : Ends]
  BY DEF BoundTyped
<1>1. ASSUME rt.at \in Judging
      PROVE  rt.r \in Questions /\ future[rt.r].state = "done" /\ pending = NoQuestion
             /\ request[rt.r] \in Requests
  BY <1>0, <1>1 DEF Turning, BoundTyped
<1>2. CASE Preflight
  <2>1. /\ rt.at = "preflight"
        /\ \/ rt' = [at |-> "screen", r |-> rt.r, then |-> "idle"]
           \/ rt' = [at |-> "reject", r |-> rt.r, then |-> "idle"]
        /\ UNCHANGED <<authority, request, future, executor, registry, pending, last, saved, history>>
    BY <1>2 DEF Preflight
  <2>2. rt.r \in Questions /\ future[rt.r].state = "done" /\ pending = NoQuestion
    BY <1>1, <2>1 DEF Judging
  <2>3. rt' \in [at : TurnSteps, r : Questions \cup {NoQuestion}, then : Ends] /\ rt'.at # "commit"
    BY <2>1, <2>2 DEF TurnSteps, Ends
  <2>4. BoundTyped'
    BY <2>1, <2>3 DEF BoundTyped, authority, executor, history
  <2>5. Accounts' /\ Queued' /\ Working'
    BY <2>1, <2>4, NothingIsLater, AccountsKept, WorkerStands DEF executor, history
  <2>6. Turning' /\ Publishing'
    BY <2>1, <2>2 DEF Turning, Judging, Publishing
  <2>7. Adopted'
    BY <2>1, AdoptedKept DEF history
  <2> QED
    BY <2>4, <2>5, <2>6, <2>7
<1>3. CASE Screen
  <2>1. /\ rt.at = "screen"
        /\ \/ rt' = [at |-> "admit", r |-> rt.r, then |-> "idle"] /\ registry' = registry \ {rt.r}
           \/ rt' = [at |-> "reject", r |-> rt.r, then |-> "idle"] /\ registry' = registry
        /\ UNCHANGED <<authority, request, future, executor, pending, last, saved, history>>
    BY <1>3 DEF Screen
  <2>2. rt.r \in Questions /\ future[rt.r].state = "done" /\ pending = NoQuestion
    BY <1>1, <2>1 DEF Judging
  <2>3. rt' \in [at : TurnSteps, r : Questions \cup {NoQuestion}, then : Ends] /\ rt'.at # "commit"
    BY <2>1, <2>2 DEF TurnSteps, Ends
  <2>4. BoundTyped'
    BY <2>1, <2>3 DEF BoundTyped, authority, executor, history
  <2>5. Accounts' /\ Queued' /\ Working'
    BY <2>1, <2>4, NothingIsLater, AccountsKept, WorkerStands DEF executor, history
  <2>6. Turning' /\ Publishing'
    BY <2>1, <2>2 DEF Turning, Judging, Publishing
  <2>7. Adopted'
    BY <2>1, AdoptedKept DEF history
  <2> QED
    BY <2>4, <2>5, <2>6, <2>7
<1>4. CASE Admit
  <2> DEFINE q == request[rt.r]
             failed == IF future[rt.r].result = "model" THEN "publication_failed" ELSE "pending"
  <2>1. /\ rt.at = "admit"
        /\ UNCHANGED <<authority, future, executor, registry, pending, history>>
        /\ \/ /\ q.disposition = "pending" /\ Current(q) /\ last' = rt.r /\ saved' = last
              /\ rt' = [at |-> "commit", r |-> rt.r, then |-> "idle"] /\ request' = request
           \/ /\ q.disposition = "pending"
              /\ request' = [request EXCEPT ![rt.r].disposition = failed]
              /\ rt' = [at |-> "fault", r |-> rt.r, then |-> "idle"] /\ UNCHANGED <<last, saved>>
           \/ /\ rt' = [at |-> "notify", r |-> rt.r, then |-> "idle"]
              /\ UNCHANGED <<request, last, saved>>
    BY <1>4 DEF Admit
  <2>2. rt.r \in Questions /\ future[rt.r].state = "done" /\ pending = NoQuestion /\ q \in Requests
    BY <1>1, <2>1 DEF Judging
  <2>3. rt' \in [at : TurnSteps, r : Questions \cup {NoQuestion}, then : Ends] /\ rt'.r = rt.r
    BY <2>1, <2>2 DEF TurnSteps, Ends
  <2>4. Turning'
    BY <2>1, <2>2 DEF Turning, Judging
  <2>5. CASE /\ q.disposition = "pending" /\ Current(q) /\ last' = rt.r /\ saved' = last
             /\ rt' = [at |-> "commit", r |-> rt.r, then |-> "idle"] /\ request' = request
    <3>1. BoundTyped'
      BY <2>1, <2>2, <2>3, <2>5 DEF BoundTyped, authority, executor, history
    <3>2. Accounts' /\ Queued' /\ Working'
      BY <2>1, <2>5, <3>1, NothingIsLater, AccountsKept, WorkerStands DEF executor, history
    <3>3. last \in Questions => last \in shown
      BY <2>1 DEF Adopted
    <3>4. Publishing'
      BY <2>1, <2>5, <3>3 DEF Publishing, Current, authority, history
    <3>5. Adopted'
      BY <2>5 DEF Adopted
    <3> QED
      BY <2>4, <3>1, <3>2, <3>4, <3>5
  <2>6. CASE /\ q.disposition = "pending"
             /\ request' = [request EXCEPT ![rt.r].disposition = failed]
             /\ rt' = [at |-> "fault", r |-> rt.r, then |-> "idle"] /\ UNCHANGED <<last, saved>>
    <3> DEFINE new == [q EXCEPT !.disposition = failed]
    <3>1. failed \in {"pending", "publication_failed"}
      OBVIOUS
    <3>2. request' = [request EXCEPT ![rt.r] = new]
      BY <2>2, <2>6 DEF BoundTyped, Requests
    <3> HIDE DEF failed, q
    <3>3. new \in Requests /\ Later(q, new)
      BY <2>2, <2>6, <3>1 DEF Requests, Later
    <3> HIDE DEF new
    <3>4. request' \in [Questions -> Requests] /\ AllLater
      BY <2>2, <3>2, <3>3, RequestUpdated DEF q
    <3>5. BoundTyped'
      BY <2>1, <2>3, <2>6, <3>4 DEF BoundTyped, authority, executor, history
    <3>6. Accounts' /\ Queued' /\ Working'
      BY <2>1, <3>4, <3>5, NothingIsLater, AccountsKept, WorkerStands DEF executor, history
    <3>7. Publishing' /\ Adopted'
      BY <2>1, <2>6, AdoptedKept DEF Publishing, history
    <3> QED
      BY <2>4, <3>5, <3>6, <3>7
  <2>7. CASE /\ rt' = [at |-> "notify", r |-> rt.r, then |-> "idle"]
             /\ UNCHANGED <<request, last, saved>>
    <3>1. BoundTyped'
      BY <2>1, <2>3, <2>7 DEF BoundTyped, authority, executor, history
    <3>2. Accounts' /\ Queued' /\ Working'
      BY <2>1, <2>7, <3>1, NothingIsLater, AccountsKept, WorkerStands DEF executor, history
    <3>3. Publishing' /\ Adopted'
      BY <2>1, <2>7, AdoptedKept DEF Publishing, history
    <3> QED
      BY <2>4, <3>1, <3>2, <3>3
  <2> QED
    BY <2>1, <2>5, <2>6, <2>7
<1>5. CASE Commit
  <2> DEFINE q == request[rt.r]
             model == future[rt.r].result = "model"
             good == IF model THEN "accepted" ELSE "rejected"
             bad == IF model THEN "publication_failed" ELSE "pending"
  <2>1. /\ rt.at = "commit" /\ saved' = NoQuestion
        /\ UNCHANGED <<authority, future, executor, registry, pending, notices>>
        /\ \/ /\ request' = [request EXCEPT ![rt.r].disposition = good]
              /\ shown' = shown \cup {rt.r} /\ last' = last
              /\ rt' = [at |-> "notify", r |-> rt.r, then |-> "idle"]
           \/ /\ request' = [request EXCEPT ![rt.r].disposition = bad]
              /\ shown' = shown /\ last' = saved
              /\ rt' = [at |-> "fault", r |-> rt.r, then |-> "idle"]
    BY <1>5 DEF Commit
  <2>2. /\ rt.r \in Questions /\ future[rt.r].state = "done" /\ pending = NoQuestion
        /\ q \in Requests /\ q.disposition = "pending" /\ request \in [Questions -> Requests]
    BY <1>1, <2>1 DEF Judging, Publishing, BoundTyped
  <2>3. rt' \in [at : TurnSteps, r : Questions \cup {NoQuestion}, then : Ends] /\ rt'.r = rt.r /\ rt'.at # "commit"
    BY <2>1, <2>2 DEF TurnSteps, Ends
  <2>4. Turning' /\ Publishing'
    BY <2>1, <2>2 DEF Turning, Judging, Publishing
  <2>5. Queued' /\ Working'
    BY <2>1, NothingIsLater, WorkerStands DEF executor
  <2>6. CASE /\ request' = [request EXCEPT ![rt.r].disposition = good]
             /\ shown' = shown \cup {rt.r} /\ last' = last
             /\ rt' = [at |-> "notify", r |-> rt.r, then |-> "idle"]
    <3>1. good \in {"accepted", "rejected"} /\ (good = "accepted" <=> model)
      OBVIOUS
    <3> HIDE DEF good
    <3>2. /\ request' \in [Questions -> Requests]
          /\ request'[rt.r].disposition = good /\ request'[rt.r].noticed = q.noticed
          /\ \A s \in Questions : s # rt.r => request'[s] = request[s]
      BY <2>2, <2>6, <3>1 DEF Requests
    <3>3. BoundTyped'
      BY <2>1, <2>2, <2>3, <2>6, <3>2 DEF BoundTyped, authority, executor
    <3>4. ~q.noticed
      BY <2>2 DEF Accounts, Discarded
    <3>5. Accounts'
      <4> SUFFICES ASSUME NEW s \in Questions
                   PROVE  /\ future'[s].state = "none" <=> request'[s].disposition = "none"
                          /\ notices'[s] <= 1 /\ (notices'[s] = 1 <=> request'[s].noticed)
                          /\ request'[s].noticed => Discarded(request'[s])
                          /\ s \in shown' => future'[s].state = "done"
                          /\ request'[s].disposition = "accepted"
                               <=> s \in shown' /\ future'[s].result = "model"
        BY DEF Accounts, Discarded
      <4>1. CASE s = rt.r
        BY <2>1, <2>2, <2>6, <3>1, <3>2, <3>4, <4>1 DEF Accounts, Discarded
      <4>2. CASE s # rt.r
        BY <2>1, <2>6, <3>2, <4>2 DEF Accounts, Discarded
      <4> QED
        BY <4>1, <4>2
    <3>6. Adopted'
      BY <2>1, <2>6 DEF Adopted
    <3> QED
      BY <2>4, <2>5, <3>3, <3>5, <3>6
  <2>7. CASE /\ request' = [request EXCEPT ![rt.r].disposition = bad]
             /\ shown' = shown /\ last' = saved
             /\ rt' = [at |-> "fault", r |-> rt.r, then |-> "idle"]
    <3> DEFINE new == [q EXCEPT !.disposition = bad]
    <3>1. bad \in {"pending", "publication_failed"}
      OBVIOUS
    <3>2. request' = [request EXCEPT ![rt.r] = new]
      BY <2>2, <2>7 DEF Requests
    <3> HIDE DEF bad, q
    <3>3. new \in Requests /\ Later(q, new)
      BY <2>2, <3>1 DEF Requests, Later
    <3> HIDE DEF new
    <3>4. request' \in [Questions -> Requests] /\ AllLater
      BY <2>2, <3>2, <3>3, RequestUpdated DEF q
    <3>5. BoundTyped'
      BY <2>1, <2>3, <2>7, <3>4 DEF BoundTyped, authority, executor
    <3>6. Accounts'
      BY <2>1, <2>7, <3>4, <3>5, NothingIsLater, AccountsKept
    <3>7. Adopted'
      BY <2>1, <2>7 DEF Adopted, Publishing
    <3> QED
      BY <2>4, <2>5, <3>5, <3>6, <3>7
  <2> QED
    BY <2>1, <2>6, <2>7
<1>6. CASE Fault
  <2>1. /\ rt.at = "fault" /\ rt' = [rt EXCEPT !.at = "notify"]
        /\ request' = [request EXCEPT ![rt.r] = Rejected(request[rt.r])]
        /\ UNCHANGED <<authority, future, executor, registry, pending, last, saved, history>>
    BY <1>6 DEF Fault
  <2>2. rt.r \in Questions /\ request[rt.r] \in Requests /\ pending = NoQuestion /\ rt.then = "idle"
    BY <1>1, <2>1 DEF Judging, Turning
  <2>3. /\ rt' \in [at : TurnSteps, r : Questions \cup {NoQuestion}, then : Ends]
        /\ rt'.at = "notify" /\ rt'.r = rt.r /\ rt'.then = rt.then
    BY <1>0, <2>1 DEF TurnSteps
  <2>4. request' \in [Questions -> Requests] /\ AllLater
    BY <2>1, <2>2, RejectedIsLater, RequestUpdated
  <2>5. BoundTyped'
    BY <2>1, <2>3, <2>4 DEF BoundTyped, authority, executor, history
  <2>6. Accounts' /\ Queued' /\ Working'
    BY <2>1, <2>4, <2>5, NothingIsLater, AccountsKept, WorkerStands DEF executor, history
  <2>7. Turning' /\ Publishing'
    BY <2>1, <2>2, <2>3 DEF Turning, Judging, Publishing
  <2>8. Adopted'
    BY <2>1, AdoptedKept DEF history
  <2> QED
    BY <2>5, <2>6, <2>7, <2>8
<1>7. CASE ExecutionChanges
  <2> DEFINE more == exec + 1
  <2>1. /\ rt.at = "idle" /\ oper + exec < MaxRevisions /\ exec' = more
        /\ UNCHANGED <<oper, latches, stopping, request, future, executor, decision, history>>
    BY <1>7 DEF ExecutionChanges
  <2>2. more \in Nat /\ oper + more <= MaxRevisions
    BY <2>1, BoundAssumption DEF BoundTyped
  <2> HIDE DEF more
  <2>3. BoundTyped'
    BY <2>1, <2>2 DEF BoundTyped, executor, decision, history
  <2>4. Accounts' /\ Queued' /\ Working' /\ Turning'
    BY <2>1, <2>3, NothingIsLater, AccountsKept, WorkerStands, RuntimeStands DEF executor, history, decision
  <2>5. Publishing' /\ Adopted'
    BY <2>1, AdoptedKept DEF Publishing, decision, history
  <2> QED
    BY <2>3, <2>4, <2>5
<1> QED
  BY <1>2, <1>3, <1>4, <1>5, <1>6, <1>7

\* A worker that stands still stands where it stood.
LEMMA WorkingKept ==
  ASSUME Working, wk' = wk, OnlyCancels
  PROVE  Working'
<1>1. wk.at # "idle" => wk.r \in Questions
  BY DEF Working
<1> QED
  BY <1>1 DEF Working, OnlyCancels, Finished

\* A request that is submitted is the first of its number.
LEMMA SubmitKeeps ==
  ASSUME DecisionIInv, Submit
  PROVE  DecisionIInv'
<1> USE DEF DecisionIInv, Goto, Rt
<1>1. PICK r \in Questions :
        /\ rt.at = "idle" /\ pending = NoQuestion /\ future[r].state = "none"
        /\ request' = [request EXCEPT ![r] = [Unborn EXCEPT !.oper = oper, !.exec = exec,
                                                            !.disposition = "pending"]]
        /\ future' = [future EXCEPT ![r].state = "queued"]
        /\ queue' = Append(queue, r)
        /\ rt' = [at |-> "register", r |-> r, then |-> "idle"]
        /\ UNCHANGED <<authority, closed, wk, registry, pending, last, saved, history>>
  BY DEF Submit
<1> DEFINE new == [Unborn EXCEPT !.oper = oper, !.exec = exec, !.disposition = "pending"]
<1>2. new \in Requests /\ new.disposition = "pending" /\ ~new.noticed
  BY DEF BoundTyped, Unborn, Requests
<1> HIDE DEF new
<1>3. request \in [Questions -> Requests] /\ future \in [Questions -> Futures] /\ queue \in Seq(Questions)
  BY DEF BoundTyped
<1>4. /\ request' \in [Questions -> Requests] /\ request'[r] = new
      /\ \A s \in Questions : s # r => request'[s] = request[s]
  BY <1>1, <1>2, <1>3 DEF new
<1>5. /\ future' \in [Questions -> Futures] /\ future'[r].state = "queued"
      /\ future'[r].result = future[r].result
      /\ \A s \in Questions : s # r => future'[s] = future[s]
  BY <1>1, <1>3 DEF Futures
<1>6. rt' \in [at : TurnSteps, r : Questions \cup {NoQuestion}, then : Ends]
  BY <1>1 DEF TurnSteps, Ends
<1>7. /\ queue' \in Seq(Questions) /\ Len(queue') = Len(queue) + 1 /\ Len(queue) \in Nat
      /\ \A i \in 1 .. Len(queue) : queue'[i] = queue[i]
      /\ queue'[Len(queue) + 1] = r
  BY <1>1, <1>3, AppendFacts
<1>8. BoundTyped'
  BY <1>1, <1>4, <1>5, <1>6, <1>7 DEF BoundTyped, authority, history
<1>9. Accounts'
  <2> SUFFICES ASSUME NEW s \in Questions
               PROVE  /\ future'[s].state = "none" <=> request'[s].disposition = "none"
                      /\ notices'[s] <= 1 /\ (notices'[s] = 1 <=> request'[s].noticed)
                      /\ request'[s].noticed => Discarded(request'[s])
                      /\ s \in shown' => future'[s].state = "done"
                      /\ request'[s].disposition = "accepted"
                           <=> s \in shown' /\ future'[s].result = "model"
    BY DEF Accounts, Discarded
  <2>1. CASE s # r
    BY <1>1, <1>4, <1>5, <2>1 DEF Accounts, Discarded, history
  <2>2. CASE s = r
    <3>1. request[r].disposition = "none" /\ r \notin shown
      BY <1>1 DEF Accounts
    <3>2. notices[r] <= 1 /\ notices[r] # 1
      BY <3>1 DEF Accounts, Discarded
    <3> QED
      BY <1>1, <1>2, <1>4, <1>5, <2>2, <3>1, <3>2 DEF history
  <2> QED
    BY <2>1, <2>2
<1>10. /\ Places' = Places \cup {Len(queue) + 1} /\ Len(queue) + 1 \notin Places
       /\ \A i \in Places : queue'[i] = queue[i] /\ queue[i] \in Questions
  BY <1>3, <1>7 DEF Places
<1> DEFINE end == Len(queue) + 1
<1>11. Places' = Places \cup {end} /\ end \notin Places /\ queue'[end] = r
  BY <1>7, <1>10
<1> HIDE DEF end
<1>12. \A i \in Places : queue[i] # r /\ future[queue[i]].state \in {"queued", "cancelled"}
  BY <1>1 DEF Queued
<1>13. Queued'
  <2>1. \A i, j \in Places' : queue'[i] = queue'[j] => i = j
    <3>1. \A i, j \in Places : queue[i] = queue[j] => i = j
      BY DEF Queued
    <3> QED
      BY <1>10, <1>11, <1>12, <3>1
  <2>2. wk.at = "start" => wk.r # r
    BY <1>1 DEF Working
  <2>3. \A i \in Places' : /\ future'[queue'[i]].state \in {"queued", "cancelled"}
                           /\ wk'.at = "start" => wk'.r # queue'[i]
    <3> SUFFICES ASSUME NEW i \in Places'
                 PROVE  /\ future'[queue'[i]].state \in {"queued", "cancelled"}
                        /\ wk'.at = "start" => wk'.r # queue'[i]
      OBVIOUS
    <3>1. CASE i = end
      BY <1>1, <1>5, <1>11, <2>2, <3>1
    <3>2. CASE i \in Places
      <4>1. queue'[i] = queue[i] /\ queue[i] \in Questions /\ queue[i] # r
        BY <1>10, <1>12, <3>2
      <4>2. future'[queue[i]] = future[queue[i]] /\ wk' = wk
        BY <1>1, <1>5, <4>1
      <4>3. /\ future[queue[i]].state \in {"queued", "cancelled"}
            /\ wk.at = "start" => wk.r # queue[i]
        BY <3>2 DEF Queued
      <4> QED
        BY <4>1, <4>2, <4>3
    <3> QED
      BY <1>11, <3>1, <3>2
  <2>4. \A s \in Questions :
          /\ future'[s].state = "queued" =>
               (\E i \in Places' : queue'[i] = s) \/ (wk'.at = "start" /\ wk'.r = s)
          /\ future'[s].state = "running" =>
               wk'.r = s /\ wk'.at \in {"attempt", "call", "complete", "set"}
    <3> SUFFICES ASSUME NEW s \in Questions
                 PROVE  /\ future'[s].state = "queued" =>
                              (\E i \in Places' : queue'[i] = s) \/ (wk'.at = "start" /\ wk'.r = s)
                        /\ future'[s].state = "running" =>
                              wk'.r = s /\ wk'.at \in {"attempt", "call", "complete", "set"}
      OBVIOUS
    <3>1. CASE s = r
      BY <1>5, <1>11, <3>1
    <3>2. CASE s # r
      <4>1. future'[s] = future[s] /\ wk' = wk
        BY <1>1, <1>5, <3>2
      <4>2. (\E i \in Places : queue[i] = s) => \E i \in Places' : queue'[i] = s
        BY <1>10
      <4> QED
        BY <4>1, <4>2 DEF Queued
    <3> QED
      BY <3>1, <3>2
  <2> QED
    BY <2>1, <2>3, <2>4 DEF Queued
<1>14. Working'
  <2>1. wk' = wk
    BY <1>1
  <2>2. wk.at \in {"start", "attempt", "call", "complete", "set", "settle"} => wk.r \in Questions /\ wk.r # r
    BY <1>1 DEF Working, Finished
  <2> QED
    BY <1>5, <2>1, <2>2 DEF Working, Finished
<1>15. Turning' /\ Publishing'
  BY <1>1, <1>5 DEF Turning, Judging, Publishing
<1>16. Adopted'
  BY <1>1, AdoptedKept DEF history
<1> QED
  BY <1>8, <1>9, <1>13, <1>14, <1>15, <1>16

\* The end of the process.
LEMMA TurnSteps3 ==
  ASSUME DecisionIInv, Retire \/ Drain \/ Drained
  PROVE  DecisionIInv'
<1> USE DEF DecisionIInv, Goto, Rt
<1>1. CASE Retire
  <2>1. /\ rt.at \in {"idle", "retire"}
        /\ \/ \E r \in registry : rt' = [at |-> "reject", r |-> r, then |-> "retire"]
           \/ rt' = [at |-> "drain", r |-> NoQuestion, then |-> "drain"]
        /\ UNCHANGED <<authority, request, future, queue, wk, registry, pending, last, saved, history>>
    BY <1>1 DEF Retire
  <2>2. closed' \in BOOLEAN
    BY <1>1, Zenon DEF Retire
  <2>3. registry \subseteq Questions
    BY DEF BoundTyped
  <2>4. rt' \in [at : TurnSteps, r : Questions \cup {NoQuestion}, then : Ends] /\ rt'.at # "commit"
    BY <2>1, <2>3 DEF TurnSteps, Ends
  <2>5. BoundTyped'
    BY <2>1, <2>2, <2>4 DEF BoundTyped, authority, history
  <2>6. Accounts' /\ Queued' /\ Working'
    BY <2>1, <2>5, NothingIsLater, AccountsKept, WorkerStands DEF history
  <2>7. Turning' /\ Publishing'
    BY <2>1, <2>3 DEF Turning, Judging, Publishing, Leaving, Ends
  <2>8. Adopted'
    BY <2>1, AdoptedKept DEF history
  <2> QED
    BY <2>5, <2>6, <2>7, <2>8
<1>2. CASE Drain
  <2>0. PICK r : r = Head(queue)
    OBVIOUS
  <2>1. /\ rt.at = "drain" /\ queue # <<>> /\ queue' = Tail(queue) /\ future' = Cancelled(r)
        /\ \/ CallsBack(r) /\ rt' = [at |-> "settle", r |-> r, then |-> "drain"]
           \/ rt' = rt
        /\ UNCHANGED <<authority, request, closed, wk, registry, pending, last, saved, history>>
    BY <1>2, <2>0 DEF Drain
  <2>2. /\ r \in Questions /\ queue' \in Seq(Questions) /\ future[r].state \in {"queued", "cancelled"}
        /\ wk.at = "start" => wk.r # r
        /\ \A i, j \in Places' : queue'[i] = queue'[j] => i = j
        /\ \A i \in Places' : /\ queue'[i] # r /\ queue'[i] \in Questions
                              /\ future[queue'[i]].state \in {"queued", "cancelled"}
                              /\ wk.at = "start" => wk.r # queue'[i]
        /\ \A s \in Questions : (\E i \in Places : queue[i] = s) => s = r \/ \E i \in Places' : queue'[i] = s
    BY <2>0, <2>1, TakenFromQueue
  <2>11. \A i \in Places' : queue'[i] # r /\ queue'[i] \in Questions
    BY <2>2
  <2>12. \A i \in Places' : future[queue'[i]].state \in {"queued", "cancelled"}
    BY <2>2
  <2>13. \A i \in Places' : wk.at = "start" => wk.r # queue'[i]
    BY <2>2
  <2>3. /\ future' \in [Questions -> Futures] /\ OnlyCancels
        /\ future[r].state = "queued" => future'[r].state = "cancelled"
        /\ \A s \in Questions : s # r => future'[s] = future[s]
    BY <2>1, <2>2, CancelOnlyCancels
  <2>4. future'[r].state = "cancelled"
    BY <2>2, <2>3 DEF OnlyCancels
  <2>5. rt' \in [at : TurnSteps, r : Questions \cup {NoQuestion}, then : Ends] /\ rt'.at # "commit"
    BY <2>1, <2>2 DEF BoundTyped, TurnSteps, Ends
  <2>6. BoundTyped'
    BY <2>1, <2>2, <2>3, <2>5 DEF BoundTyped, authority, history
  <2>7. Accounts' /\ Working'
    BY <2>1, <2>3, <2>6, NothingIsLater, AccountsKept, WorkingKept DEF history
  <2>8. Queued'
    <3>1. \A i \in Places' : /\ future'[queue'[i]].state \in {"queued", "cancelled"}
                             /\ wk'.at = "start" => wk'.r # queue'[i]
      <4> SUFFICES ASSUME NEW i \in Places'
                   PROVE  /\ future'[queue'[i]].state \in {"queued", "cancelled"}
                          /\ wk'.at = "start" => wk'.r # queue'[i]
        OBVIOUS
      <4>1. /\ queue'[i] # r /\ queue'[i] \in Questions
            /\ future[queue'[i]].state \in {"queued", "cancelled"}
            /\ wk.at = "start" => wk.r # queue'[i]
        BY <2>11, <2>12, <2>13
      <4>2. future'[queue'[i]] = future[queue'[i]] /\ wk' = wk
        BY <2>1, <2>3, <4>1
      <4> QED
        BY <4>1, <4>2
    <3>2. \A s \in Questions :
            /\ future'[s].state = "queued" =>
                 (\E i \in Places' : queue'[i] = s) \/ (wk'.at = "start" /\ wk'.r = s)
            /\ future'[s].state = "running" =>
                 wk'.r = s /\ wk'.at \in {"attempt", "call", "complete", "set"}
      <4> SUFFICES ASSUME NEW s \in Questions, s # r
                   PROVE  /\ future'[s].state = "queued" =>
                                (\E i \in Places' : queue'[i] = s) \/ (wk'.at = "start" /\ wk'.r = s)
                          /\ future'[s].state = "running" =>
                                wk'.r = s /\ wk'.at \in {"attempt", "call", "complete", "set"}
        BY <2>4
      <4>1. future'[s] = future[s] /\ wk' = wk
        BY <2>1, <2>3
      <4>2. (\E i \in Places : queue[i] = s) => \E i \in Places' : queue'[i] = s
        BY <2>2
      <4> QED
        BY <4>1, <4>2 DEF Queued
    <3> QED
      BY <2>2, <3>1, <3>2 DEF Queued
  <2>9. Turning'
    <3>1. CASE CallsBack(r) /\ rt' = [at |-> "settle", r |-> r, then |-> "drain"]
      <4>1. Finished(r)'
        BY <2>4 DEF Finished
      <4> QED
        BY <2>2, <3>1, <4>1 DEF Turning, Judging, Leaving, Ends, Finished
    <3>2. CASE rt' = rt
      BY <2>1, <2>3, <3>2, NothingIsLater, RuntimeStands
    <3> QED
      BY <2>1, <3>1, <3>2
  <2>10. Publishing' /\ Adopted'
    BY <2>1, <2>5, AdoptedKept DEF Publishing, history
  <2> QED
    BY <2>6, <2>7, <2>8, <2>9, <2>10
<1>3. CASE Drained
  <2>1. /\ rt.at = "drain" /\ rt' = [at |-> "off", r |-> NoQuestion, then |-> "off"]
        /\ UNCHANGED <<authority, request, future, executor, registry, pending, last, saved, history>>
    BY <1>3 DEF Drained
  <2>2. rt' \in [at : TurnSteps, r : Questions \cup {NoQuestion}, then : Ends] /\ rt'.at # "commit"
    BY <2>1 DEF TurnSteps, Ends
  <2>3. BoundTyped'
    BY <2>1, <2>2 DEF BoundTyped, authority, executor, history
  <2>4. Accounts' /\ Queued' /\ Working'
    BY <2>1, <2>3, NothingIsLater, AccountsKept, WorkerStands DEF executor, history
  <2>5. Turning' /\ Publishing'
    BY <2>1 DEF Turning, Judging, Publishing, Leaving, Ends
  <2>6. Adopted'
    BY <2>1, AdoptedKept DEF history
  <2> QED
    BY <2>3, <2>4, <2>5, <2>6
<1> QED
  BY <1>1, <1>2, <1>3

Busy == {"attempt", "call", "complete", "set"}

\* A step of the worker alone leaves the runtime where it stood.
LEMMA WorkerAlone ==
  ASSUME DecisionIInv, UNCHANGED <<authority, closed, decision, shown>>,
         request' \in [Questions -> Requests], future' \in [Questions -> Futures],
         queue' \in Seq(Questions), wk' \in [at : WorkSteps, r : Questions \cup {NoQuestion}, tries : 0 .. MaxAttempts, active : BOOLEAN],
         notices' \in [Questions -> Nat], Accounts', Queued', Working', AllFurther,
         \A s \in Questions :
           /\ request'[s].oper = request[s].oper /\ request'[s].exec = request[s].exec
           /\ future[s].state = "done" => request'[s].disposition = request[s].disposition
  PROVE  DecisionIInv'
<1>1. BoundTyped'
  BY DEF DecisionIInv, BoundTyped, authority, decision
<1>2. Turning'
  BY RuntimeStands DEF DecisionIInv, decision
<1>3. rt.at = "commit" => rt.r \in Questions /\ future[rt.r].state = "done"
  BY DEF DecisionIInv, Turning, Judging
<1>4. Publishing'
  BY <1>3, PublishingKept DEF DecisionIInv, decision, authority
<1>5. Adopted'
  BY AdoptedKept DEF DecisionIInv, decision
<1> QED
  BY <1>1, <1>2, <1>4, <1>5 DEF DecisionIInv

\* Whoever moves within the work on a request, or outside of it, keeps the queue as it is.
LEMMA QueuedMoves ==
  ASSUME Queued, queue' = queue, BoundTyped, \A s \in Questions : future'[s].state = future[s].state,
         \/ wk.at \in Busy /\ wk'.at \in Busy /\ wk'.r = wk.r
         \/ wk.at \notin Busy /\ wk'.at \notin Busy \cup {"start"}
            /\ (wk.at = "start" => future[wk.r].state # "queued")
  PROVE  Queued'
<1>1. Places' = Places /\ \A i \in Places : queue[i] \in Questions
  BY DEF Places, BoundTyped
<1>2. \A i \in Places : future'[queue[i]].state \in {"queued", "cancelled"} /\ wk'.at # "start"
  BY <1>1 DEF Queued, Busy
<1>3. \A r \in Questions :
        /\ future'[r].state = "queued" => \E i \in Places : queue[i] = r
        /\ future'[r].state = "running" => wk'.r = r /\ wk'.at \in Busy
  BY DEF Queued, Busy
<1> QED
  BY <1>1, <1>2, <1>3 DEF Queued, Busy

\* Work is taken from the head of the queue.
LEMMA TakeKeeps ==
  ASSUME DecisionIInv, Take
  PROVE  DecisionIInv'
<1>0. PICK r : r = Head(queue)
  OBVIOUS
<1>1. /\ wk.at = "idle" /\ queue # <<>> /\ queue' = Tail(queue)
      /\ wk' = [at |-> "start", r |-> r, tries |-> 0, active |-> TRUE]
      /\ UNCHANGED <<authority, request, future, closed, decision, history>>
  BY <1>0 DEF Take, Wk
<1>2. /\ r \in Questions /\ queue' \in Seq(Questions) /\ future[r].state \in {"queued", "cancelled"}
      /\ \A i, j \in Places' : queue'[i] = queue'[j] => i = j
  BY <1>0, <1>1, TakenFromQueue DEF DecisionIInv
<1>3. \A i \in Places' : /\ queue'[i] # r /\ queue'[i] \in Questions
                         /\ future[queue'[i]].state \in {"queued", "cancelled"}
  BY <1>0, <1>1, TakenFromQueue DEF DecisionIInv
<1>4. \A s \in Questions : (\E i \in Places : queue[i] = s) => s = r \/ \E i \in Places' : queue'[i] = s
  BY <1>0, <1>1, TakenFromQueue DEF DecisionIInv
<1>5. wk' \in [at : WorkSteps, r : Questions \cup {NoQuestion}, tries : 0 .. MaxAttempts, active : BOOLEAN] /\ wk'.at = "start" /\ wk'.r = r /\ wk'.tries = 0 /\ wk'.active
  <2>1. 0 \in 0 .. MaxAttempts
    BY BoundAssumption
  <2> QED
    BY <1>1, <1>2, <2>1 DEF WorkSteps
<1>6. Queued'
  <2>1. \A i \in Places' : /\ future'[queue'[i]].state \in {"queued", "cancelled"}
                           /\ wk'.at = "start" => wk'.r # queue'[i]
    BY <1>1, <1>3, <1>5
  <2>2. \A s \in Questions :
          /\ future'[s].state = "queued" =>
               (\E i \in Places' : queue'[i] = s) \/ (wk'.at = "start" /\ wk'.r = s)
          /\ future'[s].state = "running" => wk'.r = s /\ wk'.at \in {"attempt", "call", "complete", "set"}
    <3> SUFFICES ASSUME NEW s \in Questions
                 PROVE  /\ future[s].state = "queued" => s = r \/ \E i \in Places' : queue'[i] = s
                        /\ future[s].state # "running"
      BY <1>1, <1>5
    <3> QED
      BY <1>1, <1>4 DEF DecisionIInv, Queued
  <2> QED
    BY <1>2, <2>1, <2>2 DEF Queued
<1>7. Working'
  BY <1>1, <1>2, <1>5 DEF Working
<1>8. Accounts'
  BY <1>1 DEF DecisionIInv, Accounts, Discarded, history
<1> QED
  BY <1>1, <1>2, <1>5, <1>6, <1>7, <1>8, NothingIsLater, WorkerAlone DEF DecisionIInv, BoundTyped, history

\* The future of one request changes.
LEMMA FutureUpdated ==
  ASSUME BoundTyped, NEW r \in Questions, NEW f \in Futures, future' = [future EXCEPT ![r] = f],
         Further(future[r], f)
  PROVE  /\ future' \in [Questions -> Futures] /\ future'[r] = f /\ AllFurther
         /\ \A s \in Questions : s # r => future'[s] = future[s]
<1>1. future \in [Questions -> Futures]
  BY DEF BoundTyped
<1>2. /\ future' \in [Questions -> Futures] /\ future'[r] = f
      /\ \A s \in Questions : s # r => future'[s] = future[s]
  BY <1>1
<1> QED
  BY <1>2 DEF AllFurther, Further

\* The worker begins a request, or passes over it.
LEMMA StartKeeps ==
  ASSUME DecisionIInv, Start
  PROVE  DecisionIInv'
<1> USE DEF Wk, WkGoto
<1>0. /\ BoundTyped /\ Accounts /\ Queued /\ Working
      /\ wk \in [at : WorkSteps, r : Questions \cup {NoQuestion}, tries : 0 .. MaxAttempts, active : BOOLEAN]
      /\ request \in [Questions -> Requests] /\ future \in [Questions -> Futures] /\ queue \in Seq(Questions)
      /\ notices \in [Questions -> Nat]
  BY DEF DecisionIInv, BoundTyped
<1>1. wk.at # "idle" => /\ wk.r \in Questions /\ wk.active
                        /\ request[wk.r] \in Requests /\ future[wk.r] \in Futures
  BY <1>0 DEF Working
<1>2. Start
  OBVIOUS
<1>3. DecisionIInv'
  <2> DEFINE r == wk.r
  <2>1. /\ wk.at = "start" /\ r \in Questions /\ wk.tries = 0 /\ wk.active
        /\ request[r] \in Requests /\ future[r] \in Futures
        /\ UNCHANGED <<authority, queue, closed, decision, history>>
    BY <1>0, <1>1, <1>2 DEF Start, Working
  <2>2. CASE future[r].state = "cancelled"
    <3>1. wk' = [wk EXCEPT !.at = "finish"] /\ UNCHANGED <<request, future>>
      BY <1>2, <2>2 DEF Start
    <3>2. wk' \in [at : WorkSteps, r : Questions \cup {NoQuestion}, tries : 0 .. MaxAttempts, active : BOOLEAN] /\ wk'.at = "finish" /\ wk'.r = r /\ wk'.active
      BY <1>0, <2>1, <3>1 DEF WorkSteps
    <3>3. Queued'
      BY <1>0, <2>1, <2>2, <3>1, <3>2, QueuedMoves DEF Busy
    <3>4. Working'
      BY <2>1, <3>2 DEF Working
    <3>5. Accounts'
      BY <1>0, <2>1, <3>1 DEF Accounts, Discarded, history
    <3> QED
      BY <1>0, <2>1, <3>1, <3>2, <3>3, <3>4, <3>5, NothingIsLater, WorkerAlone DEF history
  <2>3. CASE future[r].state = "queued"
    <3> DEFINE fine == [future[r] EXCEPT !.state = "running"]
               error == [future[r] EXCEPT !.state = "running", !.result = "error"]
    <3>1. PICK f \in Futures :
            /\ f.state = "running" /\ future' = [future EXCEPT ![r] = f]
            /\ \/ wk' = [wk EXCEPT !.at = "attempt"] /\ request' = request
               \/ /\ wk' = [wk EXCEPT !.at = "complete"]
                  /\ request' = [request EXCEPT ![r] = Rejected(request[r])]
      <4>1. fine \in Futures /\ error \in Futures /\ fine.state = "running" /\ error.state = "running"
        BY <2>1 DEF Futures
      <4>2. \/ /\ future' = [future EXCEPT ![r].state = "running"]
               /\ wk' = [wk EXCEPT !.at = "attempt"] /\ request' = request
            \/ /\ future' = [future EXCEPT ![r].state = "running", ![r].result = "error"]
               /\ request' = [request EXCEPT ![r] = Rejected(request[r])]
               /\ wk' = [wk EXCEPT !.at = "complete"]
        BY <1>2, <2>3 DEF Start
      <4>3. CASE /\ future' = [future EXCEPT ![r].state = "running"]
                 /\ wk' = [wk EXCEPT !.at = "attempt"] /\ request' = request
        <5>1. future' = [future EXCEPT ![r] = fine]
          BY <1>0, <2>1, <4>3 DEF Futures
        <5> HIDE DEF fine
        <5> QED
          BY <4>1, <4>3, <5>1
      <4>4. CASE /\ future' = [future EXCEPT ![r].state = "running", ![r].result = "error"]
                 /\ request' = [request EXCEPT ![r] = Rejected(request[r])]
                 /\ wk' = [wk EXCEPT !.at = "complete"]
        <5>1. future' = [future EXCEPT ![r] = error]
          BY <1>0, <2>1, <4>4 DEF Futures
        <5> HIDE DEF error
        <5> QED
          BY <4>1, <4>4, <5>1
      <4> QED
        BY <4>2, <4>3, <4>4
    <3> HIDE DEF r
    <3>2. Further(future[r], f)
      BY <2>3, <3>1 DEF Further
    <3>3. /\ future' \in [Questions -> Futures] /\ future'[r] = f /\ AllFurther
          /\ \A s \in Questions : s # r => future'[s] = future[s]
      BY <1>0, <2>1, <3>1, <3>2, FutureUpdated
    <3>4. /\ request' \in [Questions -> Requests] /\ AllLater
          /\ \A s \in Questions : s # r => request'[s] = request[s]
      BY <1>0, <2>1, <3>1, RejectedIsLater, RequestUpdated, NothingIsLater
    <3>5. /\ wk' \in [at : WorkSteps, r : Questions \cup {NoQuestion}, tries : 0 .. MaxAttempts, active : BOOLEAN] /\ wk'.r = r /\ wk'.active /\ wk'.tries = 0
          /\ wk'.at \in {"attempt", "complete"}
      BY <1>0, <2>1, <3>1 DEF WorkSteps, r
    <3>6. Accounts'
      <4>1. /\ request' \in [Questions -> Requests] /\ future' \in [Questions -> Futures]
            /\ wk' \in [at : WorkSteps, r : Questions \cup {NoQuestion}, tries : 0 .. MaxAttempts, active : BOOLEAN]
        BY <3>3, <3>4, <3>5
      <4>2. BoundTyped'
        BY <1>0, <2>1, <4>1 DEF BoundTyped, authority, decision, history
      <4> QED
        BY <1>0, <2>1, <3>3, <3>4, <4>2, AccountsKept DEF history
    <3>7. Places' = Places /\ \A i \in Places : queue'[i] = queue[i] /\ queue[i] \in Questions /\ queue[i] # r
      BY <1>0, <2>1 DEF Places, Queued, r
    <3>8. Queued'
      <4>1. \A i \in Places' : /\ future'[queue'[i]].state \in {"queued", "cancelled"}
                               /\ wk'.at = "start" => wk'.r # queue'[i]
        <5>1. \A i \in Places : /\ future'[queue'[i]] = future[queue[i]]
                                /\ future[queue[i]].state \in {"queued", "cancelled"}
          BY <1>0, <3>3, <3>7 DEF Queued
        <5>2. Places' = Places /\ wk'.at # "start"
          BY <3>5, <3>7
        <5> HIDE DEF Wk, WkGoto
        <5> QED
          BY <5>1, <5>2
      <4>2. \A i, j \in Places' : queue'[i] = queue'[j] => i = j
        BY <1>0, <3>7 DEF Queued
      <4>3. \A s \in Questions :
              /\ future'[s].state = "queued" =>
                   (\E i \in Places' : queue'[i] = s) \/ (wk'.at = "start" /\ wk'.r = s)
              /\ future'[s].state = "running" =>
                   wk'.r = s /\ wk'.at \in {"attempt", "call", "complete", "set"}
        <5> SUFFICES ASSUME NEW s \in Questions
                     PROVE  /\ future'[s].state = "queued" => \E i \in Places : queue[i] = s
                            /\ future'[s].state = "running" => s = r
          BY <3>5, <3>7
        <5>1. CASE s = r
          BY <3>1, <3>3, <5>1
        <5>2. CASE s # r
          BY <1>0, <2>1, <3>3, <5>2 DEF Queued, r
        <5> QED
          BY <5>1, <5>2
      <4> QED
        BY <4>1, <4>2, <4>3 DEF Queued
    <3>9. Working'
      <4>1. 0 < MaxAttempts
        BY BoundAssumption
      <4> QED
        BY <2>1, <3>1, <3>3, <3>5, <4>1 DEF Working
    <3>10. \A s \in Questions :
             /\ request'[s].oper = request[s].oper /\ request'[s].exec = request[s].exec
             /\ future[s].state = "done" => request'[s].disposition = request[s].disposition
      BY <2>3, <3>4 DEF AllLater, Later
    <3> QED
      BY <1>0, <2>1, <3>3, <3>4, <3>5, <3>6, <3>8, <3>9, <3>10, WorkerAlone DEF history
  <2> QED
    BY <1>0, <2>1, <2>2, <2>3 DEF Working
<1> QED
  BY <1>3

\* The worker goes about the request it has begun.
LEMMA BusyMoves ==
  ASSUME DecisionIInv, UNCHANGED <<authority, queue, closed, decision, history>>,
         wk.at \in Busy, wk' \in [at : WorkSteps, r : Questions \cup {NoQuestion}, tries : 0 .. MaxAttempts, active : BOOLEAN],
         wk'.at \in Busy, wk'.r = wk.r, wk'.active, wk'.at = "attempt" => wk'.tries < MaxAttempts,
         request' \in [Questions -> Requests], AllLater,
         \A s \in Questions : request'[s].disposition = request[s].disposition,
         future' \in [Questions -> Futures],
         \A s \in Questions : /\ future'[s].state = future[s].state
                              /\ s # wk.r => future'[s] = future[s]
  PROVE  DecisionIInv'
<1>1. /\ BoundTyped /\ Accounts /\ Queued /\ Working
      /\ wk.r \in Questions /\ future[wk.r].state = "running" /\ wk.at # "start"
  BY DEF DecisionIInv, Working, Busy
<1>2. BoundTyped'
  BY <1>1 DEF BoundTyped, authority, decision, history
<1>3. AllFurther
  <2> SUFFICES ASSUME NEW s \in Questions
               PROVE  Further(future[s], future'[s])
    BY DEF AllFurther
  <2>1. CASE s = wk.r
    BY <1>1, <2>1 DEF Further
  <2>2. CASE s # wk.r
    BY <2>2 DEF Further
  <2> QED
    BY <2>1, <2>2
<1>4. Accounts'
  BY <1>1, <1>2, <1>3, AccountsKept DEF history
<1>5. Queued'
  BY <1>1, QueuedMoves
<1>6. Working'
  BY <1>1 DEF Working, Busy
<1>7. \A s \in Questions : request'[s].oper = request[s].oper /\ request'[s].exec = request[s].exec
  BY DEF AllLater, Later
<1> QED
  BY <1>1, <1>3, <1>4, <1>5, <1>6, <1>7, WorkerAlone DEF BoundTyped, history

\* The worker asks, hears and completes.
LEMMA AskingKeeps ==
  ASSUME DecisionIInv, Attempt \/ Answer \/ Complete
  PROVE  DecisionIInv'
<1>0. /\ BoundTyped /\ Working
      /\ wk \in [at : WorkSteps, r : Questions \cup {NoQuestion}, tries : 0 .. MaxAttempts, active : BOOLEAN]
      /\ request \in [Questions -> Requests] /\ future \in [Questions -> Futures]
      /\ MaxAttempts \in Nat
  BY BoundAssumption DEF DecisionIInv, BoundTyped
<1>1. /\ wk.at \in Busy /\ UNCHANGED <<authority, queue, closed, decision, history>>
  BY DEF Attempt, Answer, Complete, Wk, Busy
<1> PICK r : r = wk.r
  OBVIOUS
<1>2. /\ r \in Questions /\ wk.active /\ request[r] \in Requests /\ future[r] \in Futures
      /\ wk.tries \in 0 .. MaxAttempts
  BY <1>0, <1>1 DEF Working, Busy
<1>3. ASSUME NEW result \in {"model", "fallback", "error"}, future' = [future EXCEPT ![r].result = result]
      PROVE  /\ future' \in [Questions -> Futures]
             /\ \A s \in Questions : /\ future'[s].state = future[s].state
                                     /\ s # r => future'[s] = future[s]
  <2> DEFINE f == [future[r] EXCEPT !.result = result]
  <2>1. f \in Futures /\ f.state = future[r].state
    BY <1>2 DEF Futures
  <2>2. future' = [future EXCEPT ![r] = f]
    BY <1>0, <1>2, <1>3 DEF Futures
  <2> HIDE DEF f
  <2> QED
    BY <1>0, <2>1, <2>2
<1>4. ASSUME future' = future
      PROVE  /\ future' \in [Questions -> Futures]
             /\ \A s \in Questions : /\ future'[s].state = future[s].state
                                     /\ s # r => future'[s] = future[s]
  BY <1>0, <1>4
<1>5. ASSUME request' = request
      PROVE  /\ request' \in [Questions -> Requests] /\ AllLater
             /\ \A s \in Questions : request'[s].disposition = request[s].disposition
  BY <1>0, <1>5, NothingIsLater
<1>6. ASSUME NEW at \in {"complete", "set"}, wk' = [wk EXCEPT !.at = at]
      PROVE  /\ wk' \in [at : WorkSteps, r : Questions \cup {NoQuestion}, tries : 0 .. MaxAttempts, active : BOOLEAN]
             /\ wk'.at \in Busy /\ wk'.r = r /\ wk'.active /\ wk'.at # "attempt"
  BY <1>0, <1>2, <1>6 DEF WorkSteps, Busy
<1>7. CASE Attempt
  <2>1. wk.at = "attempt" /\ wk.tries < MaxAttempts /\ request' = request
    BY <1>0, <1>7 DEF Attempt, Wk, Working
  <2>2. CASE wk' = [wk EXCEPT !.at = "call", !.tries = @ + 1] /\ future' = future
    <3> DEFINE more == wk.tries + 1
    <3>1. more \in 0 .. MaxAttempts
      BY <1>0, <1>2, <2>1
    <3>2. wk' = [wk EXCEPT !.at = "call", !.tries = more]
      BY <2>2
    <3> HIDE DEF more
    <3>3. /\ wk' \in [at : WorkSteps, r : Questions \cup {NoQuestion}, tries : 0 .. MaxAttempts, active : BOOLEAN]
          /\ wk'.at = "call" /\ wk'.r = r /\ wk'.active
      BY <1>0, <1>2, <3>1, <3>2 DEF WorkSteps
    <3>4. wk'.at \in Busy /\ wk'.at # "attempt"
      BY <3>3 DEF Busy
    <3> QED
      BY <1>1, <1>4, <1>5, <2>1, <2>2, <3>3, <3>4, BusyMoves
  <2>3. CASE wk' = [wk EXCEPT !.at = "complete"] /\ future' = [future EXCEPT ![r].result = "fallback"]
    BY <1>1, <1>3, <1>5, <1>6, <2>1, <2>3, BusyMoves
  <2> QED
    BY <1>7, <2>2, <2>3 DEF Attempt, WkGoto
<1>8. CASE Answer
  <2>1. wk.at = "call" /\ request' = request
    BY <1>8 DEF Answer, Wk
  <2>2. CASE /\ \E result \in {"model", "fallback", "error"} : future' = [future EXCEPT ![r].result = result]
             /\ wk' = [wk EXCEPT !.at = "complete"]
    BY <1>1, <1>3, <1>5, <1>6, <2>1, <2>2, BusyMoves
  <2>3. CASE wk.tries < MaxAttempts /\ wk' = [wk EXCEPT !.at = "attempt"] /\ future' = future
    <3>1. /\ wk' \in [at : WorkSteps, r : Questions \cup {NoQuestion}, tries : 0 .. MaxAttempts, active : BOOLEAN]
          /\ wk'.at = "attempt" /\ wk'.r = r /\ wk'.active /\ wk'.tries < MaxAttempts
      BY <1>0, <1>2, <2>3 DEF WorkSteps
    <3>2. wk'.at \in Busy
      BY <3>1 DEF Busy
    <3> QED
      BY <1>1, <1>4, <1>5, <2>1, <2>3, <3>1, <3>2, BusyMoves
  <2> QED
    BY <1>8, <2>2, <2>3 DEF Answer, WkGoto
<1>9. CASE Complete
  <2> DEFINE q == [request[r] EXCEPT !.complete = TRUE]
  <2>1. q \in Requests /\ Later(request[r], q) /\ q.disposition = request[r].disposition
    BY <1>2 DEF Requests, Later
  <2>2. request' = [request EXCEPT ![r] = q] /\ wk' = [wk EXCEPT !.at = "set"] /\ future' = future
    BY <1>0, <1>2, <1>9 DEF Complete, WkGoto, Requests
  <2> HIDE DEF q
  <2>3. /\ request' \in [Questions -> Requests] /\ AllLater
        /\ \A s \in Questions : request'[s].disposition = request[s].disposition
    BY <1>0, <1>2, <2>1, <2>2, RequestUpdated
  <2> QED
    BY <1>1, <1>4, <1>6, <2>2, <2>3, BusyMoves
<1> QED
  BY <1>7, <1>8, <1>9

\* The result is set, and its callback begins.
LEMMA SetResultKeeps ==
  ASSUME DecisionIInv, SetResult
  PROVE  DecisionIInv'
<1>0. /\ BoundTyped /\ Accounts /\ Queued /\ Working
      /\ wk \in [at : WorkSteps, r : Questions \cup {NoQuestion}, tries : 0 .. MaxAttempts, active : BOOLEAN]
      /\ request \in [Questions -> Requests] /\ future \in [Questions -> Futures]
  BY DEF DecisionIInv, BoundTyped
<1> PICK r : r = wk.r
  OBVIOUS
<1>1. /\ wk.at = "set" /\ r \in Questions /\ wk.active /\ future[r].state = "running"
      /\ future[r] \in Futures
      /\ UNCHANGED <<authority, request, queue, closed, decision, history>>
  BY <1>0 DEF SetResult, Wk, Working
<1>2. PICK state : state = IF future[r].result = "error" THEN "failed" ELSE "done"
  OBVIOUS
<1>3. PICK at : at = IF future[r].attached THEN "settle" ELSE "finish"
  OBVIOUS
<1>4. state \in {"failed", "done"} /\ at \in {"settle", "finish"}
  BY <1>2, <1>3, Zenon
<1>5. future' = [future EXCEPT ![r].state = state] /\ wk' = [wk EXCEPT !.at = at]
  BY <1>2, <1>3 DEF SetResult, WkGoto
<1> DEFINE f == [future[r] EXCEPT !.state = state]
<1>6. f \in Futures /\ f.state = state /\ Further(future[r], f)
  BY <1>1, <1>4 DEF Futures, Further
<1>7. future' = [future EXCEPT ![r] = f]
  BY <1>0, <1>1, <1>5 DEF Futures
<1> HIDE DEF f
<1>8. /\ future' \in [Questions -> Futures] /\ future'[r] = f /\ AllFurther
      /\ \A s \in Questions : s # r => future'[s] = future[s]
  BY <1>0, <1>1, <1>6, <1>7, FutureUpdated
<1>9. /\ wk' \in [at : WorkSteps, r : Questions \cup {NoQuestion}, tries : 0 .. MaxAttempts, active : BOOLEAN]
      /\ wk'.at = at /\ wk'.r = r /\ wk'.active
  BY <1>0, <1>1, <1>4, <1>5 DEF WorkSteps
<1>10. Accounts'
  <2>1. BoundTyped'
    BY <1>0, <1>1, <1>8, <1>9 DEF BoundTyped, authority, decision, history
  <2> QED
    BY <1>0, <1>1, <1>8, <2>1, NothingIsLater, AccountsKept DEF history
<1>11. /\ Places' = Places
       /\ \A i \in Places : /\ queue'[i] = queue[i] /\ future'[queue[i]] = future[queue[i]]
                            /\ future[queue[i]].state \in {"queued", "cancelled"}
  <2>1. \A i \in Places : /\ queue[i] \in Questions
                          /\ future[queue[i]].state \in {"queued", "cancelled"}
    BY <1>0 DEF Places, BoundTyped, Queued
  <2>2. Places' = Places /\ queue' = queue
    BY <1>1 DEF Places
  <2> QED
    BY <1>1, <1>8, <2>1, <2>2
<1>12. Queued'
  <2>1. \A i \in Places' : future'[queue'[i]].state \in {"queued", "cancelled"} /\ wk'.at # "start"
    BY <1>4, <1>9, <1>11
  <2>2. \A i, j \in Places' : queue'[i] = queue'[j] => i = j
    BY <1>0, <1>11 DEF Queued
  <2>3. \A s \in Questions : /\ future'[s].state = "queued" => \E i \in Places' : queue'[i] = s
                             /\ future'[s].state # "running"
    <3> SUFFICES ASSUME NEW s \in Questions
                 PROVE  /\ future'[s].state = "queued" => \E i \in Places : queue[i] = s
                        /\ future'[s].state # "running"
      BY <1>11
    <3>1. CASE s = r
      BY <1>4, <1>6, <1>8, <3>1
    <3>2. CASE s # r
      BY <1>0, <1>1, <1>8, <3>2 DEF Queued
    <3> QED
      BY <3>1, <3>2
  <2> QED
    BY <2>1, <2>2, <2>3 DEF Queued
<1>13. Working'
  BY <1>1, <1>4, <1>6, <1>8, <1>9 DEF Working, Finished
<1>14. \A s \in Questions :
         /\ request'[s].oper = request[s].oper /\ request'[s].exec = request[s].exec
         /\ future[s].state = "done" => request'[s].disposition = request[s].disposition
  BY <1>1
<1>15. notices' \in [Questions -> Nat] /\ queue' \in Seq(Questions)
  BY <1>0, <1>1 DEF BoundTyped, history
<1> QED
  BY <1>0, <1>1, <1>8, <1>9, <1>10, <1>12, <1>13, <1>14, <1>15, WorkerAlone DEF history

\* The callback of the worker settles and notifies, and the work is over.
LEMMA EndingKeeps ==
  ASSUME DecisionIInv, WkSettle \/ WkNotify \/ Finish
  PROVE  DecisionIInv'
<1>0. /\ BoundTyped /\ Accounts /\ Queued /\ Working
      /\ wk \in [at : WorkSteps, r : Questions \cup {NoQuestion}, tries : 0 .. MaxAttempts, active : BOOLEAN]
      /\ request \in [Questions -> Requests] /\ future \in [Questions -> Futures]
      /\ notices \in [Questions -> Nat] /\ queue \in Seq(Questions)
  BY DEF DecisionIInv, BoundTyped
<1>1. /\ wk.at \in {"settle", "notify", "finish"} /\ wk.r \in Questions /\ wk.active
      /\ UNCHANGED <<authority, future, queue, closed, decision, shown>>
  BY <1>0 DEF WkSettle, WkNotify, Finish, Wk, Working, history
<1>2. AllFurther
  BY <1>1, NothingIsLater
<1>3. ASSUME wk'.at \in {"notify", "finish", "idle"}
      PROVE  Queued'
  BY <1>0, <1>1, <1>3, QueuedMoves DEF Busy
<1>4. CASE WkSettle
  <2>1. Finished(wk.r) /\ Settle(wk.r) /\ wk' = [wk EXCEPT !.at = "notify"] /\ notices' = notices
    BY <1>0, <1>4 DEF WkSettle, Wk, WkGoto, Working, history
  <2>2. /\ request' \in [Questions -> Requests] /\ AllLater
        /\ \A s \in Questions : future[s].state = "done" => request'[s] = request[s]
    BY <1>0, <1>1, <2>1, SettleIsLater
  <2>3. /\ wk' \in [at : WorkSteps, r : Questions \cup {NoQuestion}, tries : 0 .. MaxAttempts, active : BOOLEAN]
        /\ wk'.at = "notify" /\ wk'.r = wk.r /\ wk'.active
    BY <1>0, <1>1, <2>1 DEF WorkSteps
  <2>4. Accounts'
    <3>1. BoundTyped'
      BY <1>0, <1>1, <2>1, <2>2, <2>3 DEF BoundTyped, authority, decision
    <3> QED
      BY <1>0, <1>1, <1>2, <2>1, <2>2, <3>1, AccountsKept
  <2>5. Working'
    BY <1>1, <2>3 DEF Working
  <2>6. \A s \in Questions : request'[s].oper = request[s].oper /\ request'[s].exec = request[s].exec
    BY <2>2 DEF AllLater, Later
  <2> QED
    BY <1>0, <1>1, <1>2, <1>3, <2>1, <2>2, <2>3, <2>4, <2>5, <2>6, WorkerAlone
<1>5. CASE WkNotify
  <2>1. Notify(wk.r) /\ wk' = [wk EXCEPT !.at = "finish"]
    BY <1>5 DEF WkNotify, WkGoto
  <2>2. /\ request' \in [Questions -> Requests] /\ notices' \in [Questions -> Nat] /\ Accounts'
        /\ \A s \in Questions :
             /\ request'[s].oper = request[s].oper /\ request'[s].exec = request[s].exec
             /\ request'[s].disposition = request[s].disposition
    BY <1>0, <1>1, <2>1, NotifyKeeps
  <2>3. /\ wk' \in [at : WorkSteps, r : Questions \cup {NoQuestion}, tries : 0 .. MaxAttempts, active : BOOLEAN]
        /\ wk'.at = "finish" /\ wk'.r = wk.r /\ wk'.active
    BY <1>0, <1>1, <2>1 DEF WorkSteps
  <2>4. Working'
    BY <1>1, <2>3 DEF Working
  <2> QED
    BY <1>0, <1>1, <1>2, <1>3, <2>2, <2>3, <2>4, WorkerAlone
<1>6. CASE Finish
  <2>1. wk' = NoWork /\ request' = request /\ notices' = notices
    BY <1>6 DEF Finish, history
  <2>2. /\ wk' \in [at : WorkSteps, r : Questions \cup {NoQuestion}, tries : 0 .. MaxAttempts, active : BOOLEAN]
        /\ wk'.at = "idle" /\ ~wk'.active
    <3>1. 0 \in 0 .. MaxAttempts
      BY BoundAssumption
    <3> QED
      BY <2>1, <3>1 DEF NoWork, WorkSteps
  <2>3. Working'
    BY <2>2 DEF Working
  <2>4. Accounts'
    BY <1>0, <1>1, <2>1 DEF Accounts, Discarded
  <2> QED
    BY <1>0, <1>1, <1>2, <1>3, <2>1, <2>2, <2>3, <2>4, WorkerAlone
<1> QED
  BY <1>4, <1>5, <1>6

\* The operator, time and the end of the process.
LEMMA EnvironmentKeeps ==
  ASSUME DecisionIInv, OperatorWrites \/ Latch \/ DeadlinePasses \/ StopRequested
  PROVE  DecisionIInv'
<1>0. /\ BoundTyped /\ Accounts /\ Queued /\ Working /\ Turning /\ Publishing /\ Adopted
      /\ UNCHANGED <<future, executor, decision, history>>
  BY DEF DecisionIInv, OperatorWrites, Latch, DeadlinePasses, StopRequested
<1>1. UNCHANGED <<queue, closed, wk, registry, pending, last, saved, rt, notices, shown>>
  BY <1>0 DEF executor, decision, history
<1>2. AllFurther /\ OnlyCancels
  BY <1>0, NothingIsLater
<1>3. Queued' /\ Working' /\ Turning' /\ Adopted'
  BY <1>0, <1>1, <1>2, WorkerStands, RuntimeStands, AdoptedKept
<1>4. CASE request' = request /\ (OperatorWrites \/ Latch \/ StopRequested)
  <2>1. Accounts'
    BY <1>0, <1>1, <1>4 DEF Accounts, Discarded
  <2>2. BoundTyped'
    <3>1. CASE OperatorWrites
      BY <1>0, <1>1, <1>4, <3>1, BoundAssumption DEF OperatorWrites, BoundTyped
    <3>2. CASE Latch
      BY <1>0, <1>1, <1>4, <3>2 DEF Latch, BoundTyped
    <3>3. CASE StopRequested
      BY <1>0, <1>1, <1>4, <3>3 DEF StopRequested, BoundTyped
    <3> QED
      BY <1>4, <3>1, <3>2, <3>3
  <2>3. rt.at = "commit" => UNCHANGED <<oper, exec>> /\ ("pause" \in latches' => "pause" \in latches)
    <3>1. CASE OperatorWrites
      BY <3>1 DEF OperatorWrites, Rt
    <3>2. CASE Latch
      BY <3>2 DEF Latch, Rt
    <3>3. CASE StopRequested
      BY <3>3 DEF StopRequested
    <3> QED
      BY <1>4, <3>1, <3>2, <3>3
  <2>4. Publishing'
    BY <1>0, <1>1, <1>4, <2>3 DEF Publishing
  <2> QED
    BY <1>3, <2>1, <2>2, <2>4 DEF DecisionIInv
<1>5. CASE DeadlinePasses
  <2>1. PICK r \in Questions : request' = [request EXCEPT ![r].late = TRUE] /\ UNCHANGED authority
    BY <1>5 DEF DeadlinePasses
  <2> DEFINE q == [request[r] EXCEPT !.late = TRUE]
  <2>2. request \in [Questions -> Requests] /\ request[r] \in Requests
    BY <1>0 DEF BoundTyped
  <2>3. q \in Requests /\ Later(request[r], q) /\ q.disposition = request[r].disposition
    BY <2>2 DEF Requests, Later
  <2>4. request' = [request EXCEPT ![r] = q]
    BY <2>1, <2>2 DEF Requests
  <2> HIDE DEF q
  <2>5. /\ request' \in [Questions -> Requests] /\ AllLater
        /\ request'[r] = q /\ \A s \in Questions : s # r => request'[s] = request[s]
    BY <1>0, <2>3, <2>4, RequestUpdated
  <2>6. BoundTyped'
    BY <1>0, <1>1, <2>1, <2>5 DEF BoundTyped, authority
  <2>7. Accounts'
    BY <1>0, <1>1, <1>2, <2>5, <2>6, AccountsKept
  <2>8. /\ \A s \in Questions : /\ request'[s].oper = request[s].oper /\ request'[s].exec = request[s].exec
                                /\ request'[s].disposition = request[s].disposition
    BY <2>3, <2>5 DEF AllLater, Later
  <2>9. Publishing'
    <3>1. rt.at = "commit" => rt.r \in Questions
      BY <1>0 DEF Turning, Judging
    <3> QED
      BY <1>0, <1>1, <2>1, <2>8, <3>1 DEF Publishing, authority
  <2> QED
    BY <1>3, <2>6, <2>7, <2>9 DEF DecisionIInv
<1>6. OperatorWrites \/ Latch \/ StopRequested => request' = request
  BY DEF OperatorWrites, Latch, StopRequested
<1> QED
  BY <1>4, <1>5, <1>6

\* The program begins with nothing asked.
LEMMA DecisionInit == Init => DecisionIInv
<1> SUFFICES ASSUME Init PROVE DecisionIInv
  OBVIOUS
<1>1. 0 \in 0 .. MaxAttempts /\ 0 + 0 <= MaxRevisions /\ 0 \in Nat
  BY BoundAssumption
<1>2. Unborn \in Requests /\ [state |-> "none", attached |-> FALSE, result |-> "none"] \in Futures
  BY <1>1 DEF Unborn, Requests, Futures
<1>3. <<>> \in Seq(Questions) /\ Len(<<>>) = 0
  OBVIOUS
<1>4. \A i \in Places : FALSE
  BY <1>3 DEF Places, Init
<1>5. /\ wk = [at |-> "idle", r |-> NoQuestion, tries |-> 0, active |-> FALSE]
      /\ rt = [at |-> "idle", r |-> NoQuestion, then |-> "idle"]
  BY DEF Init, NoWork, Idle
<1>6. wk \in [at : WorkSteps, r : Questions \cup {NoQuestion}, tries : 0 .. MaxAttempts, active : BOOLEAN] /\ rt \in [at : TurnSteps, r : Questions \cup {NoQuestion}, then : Ends]
  BY <1>1, <1>5 DEF WorkSteps, TurnSteps, Ends
<1>7. BoundTyped
  BY <1>1, <1>2, <1>3, <1>6 DEF Init, BoundTyped
<1>8. \A r \in Questions : /\ request[r] = Unborn /\ notices[r] = 0
                           /\ future[r] = [state |-> "none", attached |-> FALSE, result |-> "none"]
  BY DEF Init
<1>9. Accounts
  BY <1>8 DEF Init, Accounts, Unborn
<1>10. Queued
  BY <1>4, <1>8 DEF Queued
<1>11. Working /\ Turning /\ Publishing /\ Adopted
  BY <1>5, DecisionVocabulary DEF Init, Working, Turning, Publishing, Adopted, Judging
<1> QED
  BY <1>7, <1>9, <1>10, <1>11 DEF DecisionIInv

\* Every step keeps the invariant.
LEMMA DecisionStep == DecisionIInv /\ [Next]_vars => DecisionIInv'
<1> SUFFICES ASSUME DecisionIInv, [Next]_vars PROVE DecisionIInv'
  OBVIOUS
<1>1. CASE UNCHANGED vars
  BY <1>1 DEF vars, authority, executor, decision, history, DecisionIInv, BoundTyped, Accounts, Discarded,
     Queued, Places, Working, Finished, Turning, Leaving, Publishing, Adopted
<1>2. CASE Runtime
  BY <1>2, TurnSteps1, TurnSteps2, TurnSteps3 DEF Runtime
<1>3. CASE Submit \/ Abandon \/ ExecutionChanges
  BY <1>3, TurnSteps1, TurnSteps2, SubmitKeeps
<1>4. CASE Worker
  BY <1>4, TakeKeeps, StartKeeps, AskingKeeps, SetResultKeeps, EndingKeeps DEF Worker
<1>5. CASE Environment
  BY <1>5, EnvironmentKeeps DEF Environment
<1> QED
  BY <1>1, <1>2, <1>3, <1>4, <1>5 DEF Next

\* What the runtime, the account of a request, its adapter and the standby make
\* of one decision agrees wherever the invariant holds.
LEMMA DecisionSuffices == DecisionIInv => DecisionSound
<1> SUFFICES ASSUME DecisionIInv PROVE DecisionSound
  OBVIOUS
<1>1. BoundTyped /\ Accounts /\ Queued /\ Working /\ Turning /\ Adopted
  BY DEF DecisionIInv
<1>2. \A r \in Questions : request[r] \in Requests /\ future[r] \in Futures /\ notices[r] \in Nat
  BY <1>1 DEF BoundTyped
<1>3. \A r \in Questions :
        /\ request[r].disposition \in {"none", "pending", "accepted", "rejected", "publication_failed"}
        /\ future[r].state \in {"none", "queued", "running", "done", "failed", "cancelled"}
  BY <1>2 DEF Requests, Futures
<1>4. TypeOK
  <2>1. wk.tries \in 0 .. MaxAttempts
    BY <1>1 DEF BoundTyped
  <2>2. rt.at = "idle" /\ pending # NoQuestion => pending \in registry
    BY <1>1 DEF Turning, Leaving
  <2> QED
    BY <1>1, <1>2, <1>3, <2>1, <2>2 DEF BoundTyped, TypeOK
<1>5. AccountAgrees
  BY <1>1 DEF Adopted, Accounts, AccountAgrees, Rt
<1>6. OneTrueNotice
  BY <1>1 DEF Accounts, OneTrueNotice
<1>7. IdleMeansQuiet
  <2> SUFFICES ASSUME ~wk.active, queue = <<>>, NEW r \in Questions
               PROVE  future[r].state \notin {"queued", "running"}
    BY DEF IdleMeansQuiet
  <2>1. Len(queue) = 0
    OBVIOUS
  <2>2. wk.at = "idle" /\ \A i \in Places : FALSE
    BY <1>1, <2>1 DEF Working, Places
  <2> QED
    BY <1>1, <2>2 DEF Queued
<1> QED
  BY <1>4, <1>5, <1>6, <1>7 DEF DecisionSound

(***************************************************************************)
(* A decision of the model is acted on if and only if it is accounted as   *)
(* accepted; a discarded request is announced once and only when its work  *)
(* has ended; and an idle executor has nothing queued or running           *)
(* (runtime.py:3843-4166, model_requests.py:199-260,                       *)
(* daemon_executor.py:89-107).                                             *)
(***************************************************************************)
THEOREM DecisionSafety == Spec => []DecisionSound
<1> QED
  BY DecisionInit, DecisionStep, DecisionSuffices, PTL DEF Spec

\* What the runtime may do to an account; nobody else adds to what is shown.
LEMMA AccountsSettle ==
  ASSUME DecisionIInv, [Next]_vars
  PROVE  /\ \A r \in shown' \ shown :
              request[r].oper = oper /\ request[r].exec = exec /\ "pause" \notin latches
         /\ \A r \in Questions : request[r].disposition \notin {"none", "pending"}
              => request'[r].disposition = request[r].disposition
<1> DEFINE Stands(p, q) == p.disposition \notin {"none", "pending"} => q.disposition = p.disposition
<1>0. /\ BoundTyped /\ Turning /\ Publishing /\ Accounts /\ Working
      /\ request \in [Questions -> Requests]
  BY DEF DecisionIInv, BoundTyped
<1>1. ASSUME shown' = shown, request' = request
      PROVE  shown' \ shown = {} /\ \A r \in Questions : Stands(request[r], request'[r])
  BY <1>1
<1>2. ASSUME NEW r \in Questions, NEW q, request' = [request EXCEPT ![r] = q], Stands(request[r], q)
      PROVE  \A s \in Questions : Stands(request[s], request'[s])
  BY <1>0, <1>2
<1>3. \A q \in Requests : Stands(q, Rejected(q)) /\ Stands(q, [Rejected(q) EXCEPT !.complete = TRUE])
  BY DEF Rejected, Requests
<1>4. ASSUME NEW r \in Questions, Finished(r), Settle(r)
      PROVE  \A s \in Questions : Stands(request[s], request'[s])
  <2>1. AllLater
    BY <1>0, <1>4, SettleIsLater
  <2> QED
    BY <2>1 DEF AllLater, Later
<1>5. ASSUME NEW r \in Questions, Notify(r)
      PROVE  \A s \in Questions : Stands(request[s], request'[s])
  <2> DEFINE q == [request[r] EXCEPT !.noticed = TRUE]
  <2>1. request[r] \in Requests /\ (request' = request \/ request' = [request EXCEPT ![r] = q])
    BY <1>0, <1>5 DEF Notify, Requests
  <2>2. Stands(request[r], q)
    BY <2>1 DEF Requests
  <2> QED
    BY <1>2, <2>1, <2>2
<1>6. CASE Register \/ Cancel \/ Replace \/ Consume \/ Preflight \/ Screen \/ Retire \/ Drain \/ Drained
           \/ Abandon \/ ExecutionChanges \/ Take \/ Attempt \/ Answer \/ SetResult \/ Finish
           \/ OperatorWrites \/ Latch \/ StopRequested \/ UNCHANGED vars
  <2>1. shown' = shown /\ request' = request
    BY <1>6 DEF Register, Cancel, Replace, Consume, Preflight, Screen, Retire, Drain, Drained, Abandon,
       ExecutionChanges, Take, Attempt, Answer, SetResult, Finish, OperatorWrites, Latch, StopRequested,
       vars, history
  <2> QED
    BY <1>1, <2>1
<1>7. CASE RtSettle \/ WkSettle
  <2>1. PICK r \in Questions : Finished(r) /\ Settle(r)
    BY <1>0, <1>7 DEF RtSettle, WkSettle, Rt, Wk, Turning, Working
  <2>2. shown' = shown
    BY <1>7 DEF RtSettle, WkSettle, history
  <2> QED
    BY <1>4, <2>1, <2>2
<1>8. CASE RtNotify \/ WkNotify
  <2>1. PICK r \in Questions : Notify(r)
    BY <1>0, <1>8 DEF RtNotify, WkNotify, Rt, Wk, Turning, Working
  <2>2. shown' = shown
    BY <1>8 DEF RtNotify, WkNotify
  <2> QED
    BY <1>5, <2>1, <2>2
<1>9. CASE Submit
  <2>1. PICK r \in Questions :
          /\ future[r].state = "none"
          /\ request' = [request EXCEPT ![r] = [Unborn EXCEPT !.oper = oper, !.exec = exec,
                                                               !.disposition = "pending"]]
    BY <1>9 DEF Submit
  <2>2. request[r].disposition = "none" /\ shown' = shown
    BY <1>0, <1>9, <2>1 DEF Accounts, Submit, history
  <2>3. PICK q : q = [Unborn EXCEPT !.oper = oper, !.exec = exec, !.disposition = "pending"]
    OBVIOUS
  <2>4. Stands(request[r], q) /\ request' = [request EXCEPT ![r] = q]
    BY <2>1, <2>2, <2>3
  <2> QED
    BY <1>2, <2>2, <2>4
<1>10. CASE Reject \/ Fault
  <2>1. PICK r : r = rt.r
    OBVIOUS
  <2>2. r \in Questions /\ request[r] \in Requests /\ shown' = shown
    BY <1>0, <1>10, <2>1 DEF Reject, Fault, Rt, Turning, Judging, history
  <2>3. PICK q \in {request[r], Rejected(request[r])} : request' = [request EXCEPT ![r] = q]
    BY <1>0, <1>10, <2>1, <2>2 DEF Reject, Fault
  <2> QED
    BY <1>2, <1>3, <2>2, <2>3
<1>11. CASE Admit
  <2>1. PICK r : r = rt.r
    OBVIOUS
  <2>2. r \in Questions /\ request[r] \in Requests /\ shown' = shown
    BY <1>0, <1>11, <2>1 DEF Admit, Rt, Turning, Judging, history
  <2>3. CASE request' = request
    BY <1>1, <2>2, <2>3
  <2>4. CASE request' # request
    <3>1. PICK d : /\ request[r].disposition = "pending"
                   /\ request' = [request EXCEPT ![r].disposition = d]
      BY <1>11, <2>1, <2>4 DEF Admit
    <3>2. PICK q : q = [request[r] EXCEPT !.disposition = d]
      OBVIOUS
    <3>3. Stands(request[r], q) /\ request' = [request EXCEPT ![r] = q]
      BY <1>0, <2>2, <3>1, <3>2
    <3> QED
      BY <1>2, <2>2, <3>3
  <2> QED
    BY <2>3, <2>4
<1>12. CASE Commit
  <2>1. PICK r : r = rt.r
    OBVIOUS
  <2>2. /\ r \in Questions /\ request[r] \in Requests /\ request[r].disposition = "pending"
        /\ request[r].oper = oper /\ request[r].exec = exec /\ "pause" \notin latches
        /\ shown' \subseteq shown \cup {r}
    BY <1>0, <1>12, <2>1 DEF Commit, Rt, Turning, Judging, Publishing
  <2>3. PICK d : request' = [request EXCEPT ![r].disposition = d]
    BY <1>12, <2>1 DEF Commit
  <2>4. PICK q : q = [request[r] EXCEPT !.disposition = d]
    OBVIOUS
  <2>5. Stands(request[r], q) /\ request' = [request EXCEPT ![r] = q]
    BY <1>0, <2>2, <2>3, <2>4
  <2>6. \A s \in Questions : Stands(request[s], request'[s])
    BY <1>2, <2>2, <2>5
  <2> QED
    BY <2>2, <2>6
<1>13. CASE Start
  <2>1. wk.r \in Questions /\ request[wk.r] \in Requests /\ shown' = shown
    BY <1>0, <1>13 DEF Start, Wk, Working, history
  <2>2. request' = request \/ request' = [request EXCEPT ![wk.r] = Rejected(request[wk.r])]
    BY <1>13 DEF Start
  <2> QED
    BY <1>1, <1>2, <1>3, <2>1, <2>2
<1>14. CASE Complete
  <2>1. wk.r \in Questions /\ request[wk.r] \in Requests /\ shown' = shown
    BY <1>0, <1>14 DEF Complete, Wk, Working, history
  <2>2. PICK q : q = [request[wk.r] EXCEPT !.complete = TRUE]
    OBVIOUS
  <2>3. Stands(request[wk.r], q) /\ request' = [request EXCEPT ![wk.r] = q]
    BY <1>0, <1>14, <2>1, <2>2 DEF Complete, Requests
  <2> QED
    BY <1>2, <2>1, <2>3
<1>15. CASE DeadlinePasses
  <2>1. PICK r \in Questions : request' = [request EXCEPT ![r].late = TRUE]
    BY <1>15 DEF DeadlinePasses
  <2>2. PICK q : q = [request[r] EXCEPT !.late = TRUE]
    OBVIOUS
  <2>3. /\ Stands(request[r], q) /\ request' = [request EXCEPT ![r] = q] /\ shown' = shown
    BY <1>0, <1>15, <2>1, <2>2 DEF Requests, DeadlinePasses, history
  <2> QED
    BY <1>2, <2>3
<1>16. \/ Register \/ Cancel \/ Replace \/ Consume \/ Preflight \/ Screen \/ Retire \/ Drain \/ Drained
           \/ Abandon \/ ExecutionChanges \/ Take \/ Attempt \/ Answer \/ SetResult \/ Finish
           \/ OperatorWrites \/ Latch \/ StopRequested \/ UNCHANGED vars
       \/ RtSettle \/ WkSettle \/ RtNotify \/ WkNotify \/ Submit \/ Reject \/ Fault \/ Admit \/ Commit
           \/ Start \/ Complete \/ DeadlinePasses
  BY DEF Next, Runtime, Worker, Environment
<1> QED
  BY <1>6, <1>7, <1>8, <1>9, <1>10, <1>11, <1>12, <1>13, <1>14, <1>15, <1>16

(***************************************************************************)
(* A decision is committed only under the operator and execution revisions *)
(* it was asked under, with no operator pause, however long the model took *)
(* and whoever wrote meanwhile (runtime.py:3989-4037).                     *)
(***************************************************************************)
THEOREM CommitsAreCurrent == Spec => CommittedWhileCurrent
<1>1. DecisionIInv /\ [Next]_vars =>
        [\A r \in shown' \ shown :
            request[r].oper = oper /\ request[r].exec = exec /\ "pause" \notin latches]_vars
  BY AccountsSettle
<1> QED
  BY <1>1, DecisionInit, DecisionStep, PTL DEF Spec, CommittedWhileCurrent

(***************************************************************************)
(* A request is settled once: no late callback, rejection or retry         *)
(* rewrites its disposition (model_requests.py:199-260).                   *)
(***************************************************************************)
THEOREM AccountsStand == Spec => SettledOnce
<1>1. DecisionIInv /\ [Next]_vars =>
        [\A r \in Questions : request[r].disposition \notin {"none", "pending"}
           => request'[r].disposition = request[r].disposition]_vars
  BY AccountsSettle
<1> QED
  BY <1>1, DecisionInit, DecisionStep, PTL DEF Spec, SettledOnce

(***************************************************************************)
(* The plan and the gathering of wood.                                     *)
(***************************************************************************)
PlanMethods == Skills \cup {"prose"}
PlanNodes == {n \in Seq(Nat \cup PlanMethods) :
                Len(n) >= 2 /\ n[1] \in Nat /\ n[Len(n)] \in PlanMethods}
PlanGraphs == [order : Seq(PlanNodes), cursor : Nat \ {0}, blocked : SUBSET PlanNodes]

\* Every node is at its step; those to come are untouched; what was blocked was
\* blocked at or before the cursor, and never comes back at it.
GraphSound(p) ==
  /\ p \in PlanGraphs
  /\ \A i \in 1 .. Len(p.order) : p.order[i][1] = i /\ (i > p.cursor => Len(p.order[i]) = 2)
  /\ \A n \in p.blocked : n[1] <= p.cursor
  /\ p.cursor <= Len(p.order) => \A n \in p.blocked : n[1] = p.cursor =>
        Len(p.order[p.cursor]) # 2 /\ SkillOf(n) # SkillOf(p.order[p.cursor])

GatherRuns == [skill : Skills, at : {"none", "running", "failing", "over"}, ours : BOOLEAN,
               neutral : BOOLEAN, base : Nat, acted : BOOLEAN, candidate : BOOLEAN]
Continuations == [on : BOOLEAN, events : Nat, last : Nat, owned : BOOLEAN]

GatherTyped ==
  /\ attempt \in GatherRuns /\ cont \in Continuations
  /\ logs \in Nat /\ earned \in Nat /\ paidFor \in Nat

\* The logs that came into the hotbar since the last event were picked up, and so
\* was one for every event; and what was gained since the first attack was earned.
EarnedTrue ==
  /\ cont.on => \/ earned >= Required
                \/ earned >= cont.events /\ earned + cont.last >= cont.events + logs
  /\ attempt.skill = "gather" /\ attempt.acted /\ attempt.base # Unknown =>
        earned >= Required \/ earned + attempt.base >= logs

PlanIInv == GraphSound(plan) /\ GatherTyped /\ EarnedTrue /\ paidFor >= Required

\* A set of numbers has a least one.
LEMMA LeastOfNat ==
  ASSUME NEW T, T \subseteq Nat, T # {}
  PROVE  \E x \in T : \A y \in T : x <= y
<1>1. PICK R : R = OpToRel(<, Nat)
  OBVIOUS
<1>2. IsWellFoundedOn(R, Nat)
  BY <1>1, NatLessThanWellFounded
<1>3. R = {ss \in Nat \X Nat : ss[1] < ss[2]}
  BY <1>1 DEF OpToRel
<1>4. PICK x \in T : \A y \in T : ~ (<<y, x>> \in R)
  BY <1>2, WFMin
<1>5. ASSUME NEW y \in T PROVE x <= y
  <2>1. y \in Nat /\ x \in Nat
    OBVIOUS
  <2>2. <<y, x>> \notin R
    BY <1>4
  <2>3. ~(y < x)
    BY <1>3, <2>1, <2>2
  <2> QED
    BY <2>1, <2>3
<1> QED
  BY <1>5

\* A node, and a node with one more alternative.
LEMMA NodeFacts ==
  ASSUME NEW n \in PlanNodes
  PROVE  /\ n[1] \in Nat /\ SkillOf(n) \in PlanMethods /\ Len(n) \in Nat /\ Len(n) >= 2
         /\ \A s \in PlanMethods : /\ Append(n, s) \in PlanNodes /\ Append(n, s)[1] = n[1]
                                   /\ Len(Append(n, s)) = Len(n) + 1 /\ SkillOf(Append(n, s)) = s
<1>1. n \in Seq(Nat \cup PlanMethods) /\ Len(n) >= 2 /\ n[1] \in Nat /\ n[Len(n)] \in PlanMethods
  BY DEF PlanNodes
<1>2. Len(n) \in Nat
  BY <1>1
<1>3. ASSUME NEW s \in PlanMethods
      PROVE  /\ Append(n, s) \in Seq(Nat \cup PlanMethods) /\ Append(n, s)[1] = n[1]
             /\ Len(Append(n, s)) = Len(n) + 1 /\ Append(n, s)[Len(n) + 1] = s
  BY <1>1, <1>2
<1>4. ASSUME NEW s \in PlanMethods
      PROVE  /\ Append(n, s) \in PlanNodes /\ Append(n, s)[1] = n[1]
             /\ Len(Append(n, s)) = Len(n) + 1 /\ SkillOf(Append(n, s)) = s
  <2>1. PICK t : t = Append(n, s)
    OBVIOUS
  <2>2. /\ t \in Seq(Nat \cup PlanMethods) /\ t[1] = n[1] /\ Len(t) = Len(n) + 1
        /\ t[Len(n) + 1] = s
    BY <1>3, <2>1
  <2>3. t[Len(t)] = s /\ Len(t) >= 2 /\ t[1] \in Nat
    BY <1>1, <1>2, <2>2
  <2>4. t \in PlanNodes
    BY <2>2, <2>3 DEF PlanNodes
  <2> QED
    BY <2>1, <2>2, <2>3, <2>4 DEF SkillOf
<1> QED
  BY <1>1, <1>2, <1>4 DEF SkillOf

\* A new plan has a fresh node for every label.
LEMMA DraftedSound == GraphSound(NoPlan) /\ GraphSound(Drafted(Labels))
<1>1. Labels \in Seq(PlanMethods) /\ Len(Labels) \in Nat
  BY PlanAssumption DEF PlanMethods
<1>2. \A i \in 1 .. Len(Labels) : Labels[i] \in PlanMethods
  BY <1>1
<1>3. \A i \in 1 .. Len(Labels) : /\ <<i, Labels[i]>> \in PlanNodes
                                  /\ <<i, Labels[i]>>[1] = i /\ Len(<<i, Labels[i]>>) = 2
  <2>1. SUFFICES ASSUME NEW i \in 1 .. Len(Labels)
                 PROVE  /\ <<i, Labels[i]>> \in PlanNodes
                        /\ <<i, Labels[i]>>[1] = i /\ Len(<<i, Labels[i]>>) = 2
    OBVIOUS
  <2>2. i \in Nat /\ Labels[i] \in PlanMethods
    BY <1>1, <1>2
  <2>3. /\ <<i, Labels[i]>> \in Seq(Nat \cup PlanMethods) /\ Len(<<i, Labels[i]>>) = 2
        /\ <<i, Labels[i]>>[1] = i /\ <<i, Labels[i]>>[2] = Labels[i]
    BY <2>2
  <2> QED
    BY <2>2, <2>3 DEF PlanNodes
<1>4. PICK order : order = Labelled(Labels)
  OBVIOUS
<1>5. order \in [1 .. Len(Labels) -> PlanNodes] /\ \A i \in 1 .. Len(Labels) : order[i] = <<i, Labels[i]>>
  BY <1>3, <1>4 DEF Labelled
<1>6. order \in Seq(PlanNodes) /\ Len(order) = Len(Labels)
  BY <1>1, <1>5
<1>7. PICK p : p = Drafted(Labels)
  OBVIOUS
<1>8. p \in PlanGraphs /\ p.order = order /\ p.cursor = 1 /\ p.blocked = {}
  BY <1>4, <1>6, <1>7 DEF Drafted, PlanGraphs
<1>9. GraphSound(p)
  BY <1>3, <1>5, <1>6, <1>8 DEF GraphSound
<1>10. <<>> \in Seq(PlanNodes) /\ Len(<<>>) = 0
  OBVIOUS
<1>11. NoPlan \in PlanGraphs /\ NoPlan.order = <<>> /\ NoPlan.cursor = 1 /\ NoPlan.blocked = {}
  BY <1>10 DEF NoPlan, PlanGraphs
<1>12. GraphSound(NoPlan)
  BY <1>10, <1>11 DEF GraphSound
<1> QED
  BY <1>7, <1>9, <1>12

\* What is at the cursor of a sound graph.
LEMMA GraphFacts ==
  ASSUME NEW p, GraphSound(p)
  PROVE  /\ p \in PlanGraphs /\ p.order \in Seq(PlanNodes) /\ p.cursor \in Nat /\ p.cursor > 0
         /\ Len(p.order) \in Nat
         /\ Under(p) => /\ p.cursor \in 1 .. Len(p.order) /\ CurrentNode(p) \in PlanNodes
                        /\ CurrentNode(p)[1] = p.cursor
         /\ \A n \in p.blocked : n \in PlanNodes /\ n[1] \in Nat
<1>1. p \in PlanGraphs /\ p.order \in Seq(PlanNodes) /\ p.cursor \in Nat /\ p.cursor > 0
      /\ p.blocked \subseteq PlanNodes
  BY DEF GraphSound, PlanGraphs
<1>2. Len(p.order) \in Nat /\ \A i \in 1 .. Len(p.order) : p.order[i] \in PlanNodes
  BY <1>1
<1>3. Under(p) => p.cursor \in 1 .. Len(p.order)
  BY <1>1, <1>2 DEF Under
<1> QED
  BY <1>1, <1>2, <1>3, NodeFacts DEF CurrentNode, GraphSound

\* The cursor goes on to a node that nobody has touched.
LEMMA SucceededSound ==
  ASSUME NEW p, GraphSound(p), NEW blocked \in SUBSET PlanNodes,
         \A n \in blocked : n \in p.blocked \/ n[1] = p.cursor, NEW q \in PlanGraphs,
         q.order = p.order, q.cursor = p.cursor + 1, q.blocked = blocked
  PROVE  GraphSound(q)
<1>1. \A n \in blocked : n[1] \in Nat /\ n[1] <= p.cursor
  BY GraphFacts, NodeFacts DEF GraphSound
<1> QED
  BY <1>1, GraphFacts DEF GraphSound

\* A method that is blocked gives way to one that was not, or to the next step.
LEMMA BlockedSound ==
  ASSUME NEW p, GraphSound(p), Under(p), SkillOf(CurrentNode(p)) \in Skills
  PROVE  GraphSound(Blocked(p))
<1>1. PICK node \in PlanNodes : node = CurrentNode(p)
  BY GraphFacts
<1>2. /\ node[1] = p.cursor /\ p.cursor \in 1 .. Len(p.order) /\ node = p.order[p.cursor]
      /\ p.order \in Seq(PlanNodes) /\ p \in PlanGraphs /\ SkillOf(node) \in Skills
  BY <1>1, GraphFacts DEF CurrentNode
<1>3. PICK q : q = [p EXCEPT !.blocked = @ \cup {node}]
  OBVIOUS
<1>4. q \in PlanGraphs /\ q.order = p.order /\ q.cursor = p.cursor /\ q.blocked = p.blocked \cup {node}
  BY <1>1, <1>2, <1>3 DEF PlanGraphs
<1>5. PICK methods \in Seq(Skills) : methods = Alternatives[SkillOf(node)]
  BY <1>2, PlanAssumption DEF PlanMethods
<1>6. DOMAIN methods = 1 .. Len(methods) /\ Len(methods) \in Nat
      /\ \A i \in DOMAIN methods : methods[i] \in Skills /\ methods[i] # SkillOf(node)
  BY <1>2, <1>5, PlanAssumption
<1>7. PICK next : next = NextMethods(p, node)
  OBVIOUS
<1>8. next \subseteq DOMAIN methods
      /\ \A i \in next : Len(node) = 2 \/ methods[i] \notin Used(p, node)
  <2>0. Len(node) \in Nat /\ Len(node) >= 2
    BY NodeFacts
  <2>1. Len(node) > 2 \/ Len(node) = 2
    <3>1. PICK k \in Nat : k = Len(node)
      BY <2>0
    <3> QED
      BY <2>0, <3>1
  <2> QED
    BY <1>5, <1>7, <2>1 DEF NextMethods
<1>9. CASE next = {}
  <2>0. p.cursor + 1 \in Nat \ {0}
    BY <1>2, GraphFacts
  <2>1. PICK r : r = [q EXCEPT !.cursor = @ + 1]
    OBVIOUS
  <2>2. r \in PlanGraphs /\ r.order = p.order /\ r.cursor = p.cursor + 1 /\ r.blocked = p.blocked \cup {node}
    BY <1>2, <1>4, <2>0, <2>1 DEF PlanGraphs
  <2>3. Blocked(p) = r
    BY <1>1, <1>3, <1>7, <1>9, <2>1 DEF Blocked
  <2>4. p.blocked \cup {node} \in SUBSET PlanNodes
    BY <1>1, <1>2 DEF PlanGraphs
  <2> QED
    BY <1>2, <2>2, <2>3, <2>4, SucceededSound
<1>10. CASE next # {}
  <2>1. \E first \in next : \A j \in next : first <= j
    <3>1. next \subseteq Nat
      BY <1>6, <1>8
    <3> QED
      BY <1>10, <3>1, LeastOfNat
  <2>2. PICK first : first = CHOOSE i \in next : \A j \in next : i <= j
    OBVIOUS
  <2>3. first \in next
    BY <2>1, <2>2
  <2>4. PICK s \in Skills : s = methods[first]
    BY <1>6, <1>8, <2>3
  <2>5. s # SkillOf(node) /\ (Len(node) = 2 \/ s \notin Used(p, node)) /\ s \in PlanMethods
    BY <1>6, <1>8, <2>3, <2>4 DEF PlanMethods
  <2>6. PICK fresh \in PlanNodes : fresh = Append(node, s)
    BY <2>5, NodeFacts
  <2>7. fresh[1] = p.cursor /\ Len(fresh) # 2 /\ SkillOf(fresh) = s
    <3>1. Len(node) \in Nat /\ Len(node) >= 2 /\ Len(fresh) = Len(node) + 1
      BY <2>5, <2>6, NodeFacts
    <3>2. Len(fresh) # 2
      BY <3>1
    <3> QED
      BY <1>2, <2>5, <2>6, <3>2, NodeFacts
  <2>8. PICK order : order = [p.order EXCEPT ![p.cursor] = fresh]
    OBVIOUS
  <2>9. /\ order \in Seq(PlanNodes) /\ Len(order) = Len(p.order) /\ order[p.cursor] = fresh
        /\ \A i \in 1 .. Len(p.order) : i # p.cursor => order[i] = p.order[i]
    BY <1>2, <2>6, <2>8
  <2>10. PICK r : r = [q EXCEPT !.order[p.cursor] = fresh]
    OBVIOUS
  <2>11. r \in PlanGraphs /\ r.order = order /\ r.cursor = p.cursor /\ r.blocked = p.blocked \cup {node}
    BY <1>2, <1>4, <2>8, <2>9, <2>10 DEF PlanGraphs
  <2>12. Blocked(p) = r
    BY <1>1, <1>3, <1>5, <1>7, <1>10, <2>2, <2>4, <2>6, <2>10 DEF Blocked
  <2>13. \A n \in r.blocked : n[1] \in Nat /\ n[1] <= p.cursor /\ (n[1] = p.cursor => SkillOf(n) # s)
    <3>1. SUFFICES ASSUME NEW n \in p.blocked, n[1] = p.cursor PROVE SkillOf(n) # s
      BY <1>2, <2>5, <2>11, GraphFacts DEF GraphSound
    <3>2. Len(node) # 2
      BY <1>2, <3>1, GraphFacts DEF GraphSound
    <3> QED
      BY <2>5, <3>1, <3>2 DEF Used
  <2> QED
    BY <1>2, <2>7, <2>9, <2>11, <2>12, <2>13 DEF GraphSound
<1> QED
  BY <1>9, <1>10

\* What a new run begins with.
LEMMA BegunFacts ==
  ASSUME NEW skill \in Skills, NEW ours \in BOOLEAN
  PROVE  /\ Begun(skill, ours) \in GatherRuns /\ Begun(skill, ours).skill = skill
         /\ ~Begun(skill, ours).acted
<1>1. Unknown \in Nat
  BY PlanAssumption DEF Unknown
<1>2. NoRun \in GatherRuns /\ ~NoRun.acted
  BY <1>1 DEF NoRun, GatherRuns, Skills
<1> QED
  BY <1>2 DEF Begun, GatherRuns

\* What is left of a run that is over.
LEMMA OverFacts ==
  ASSUME GatherTyped
  PROVE  /\ Over \in GatherRuns /\ Over.skill = attempt.skill /\ Over.base = attempt.base
         /\ Over.acted = attempt.acted /\ attempt.ours \in BOOLEAN
BY DEF GatherTyped, GatherRuns, Over

\* What is left of a transaction that is gone.
LEMMA NoGatherFacts == NoGather \in Continuations /\ ~NoGather.on
BY DEF NoGather, Continuations

\* A step that leaves the wood where it is: the run is the same, over or new, and the
\* transaction the same or gone.
LEMMA WoodKept ==
  ASSUME GatherTyped, EarnedTrue, UNCHANGED <<logs, earned>>,
         attempt' \in GatherRuns,
         cont' \in Continuations,
         paidFor' \in Nat,
         \/ ~attempt'.acted \/ attempt'.skill # "gather"
         \/ attempt'.skill = attempt.skill /\ attempt'.base = attempt.base /\ attempt'.acted = attempt.acted,
         \/ ~cont'.on
         \/ cont'.on = cont.on /\ cont'.events = cont.events /\ cont'.last = cont.last
  PROVE  GatherTyped' /\ EarnedTrue'
BY DEF GatherTyped, EarnedTrue, Unknown, GatherRuns, Continuations

\* The transaction goes on without an owner.
LEMMA ContinuationDisowned ==
  ASSUME GatherTyped
  PROVE  /\ [cont EXCEPT !.owned = FALSE] \in Continuations
         /\ [cont EXCEPT !.owned = FALSE].on = cont.on /\ [cont EXCEPT !.owned = FALSE].events = cont.events
         /\ [cont EXCEPT !.owned = FALSE].last = cont.last
BY DEF GatherTyped, Continuations

\* Those that own the player in between.
LEMMA BetweenKeeps ==
  ASSUME PlanIInv,
         StartPlanSkill \/ KeepAlive \/ Decide \/ OperatorPreempts \/ AttemptCloses \/ SceneRecovers
  PROVE  PlanIInv'
<1>1. GatherTyped /\ EarnedTrue /\ GraphSound(plan) /\ paidFor >= Required /\ paidFor \in Nat
  BY DEF PlanIInv, GatherTyped
<1>2. CASE StartPlanSkill
  <2>1. SkillOf(CurrentNode(plan)) \in Skills /\ Under(plan)
    BY <1>1, <1>2, GraphFacts, NodeFacts DEF StartPlanSkill, PlanMethods
  <2>2. UNCHANGED <<logs, earned, paidFor>> /\ GraphSound(plan')
    BY <1>1, <1>2, <2>1, BlockedSound DEF StartPlanSkill, History
  <2>3. \/ attempt' = attempt /\ cont' = cont
        \/ /\ attempt' = Begun(SkillOf(CurrentNode(plan)), TRUE)
           /\ cont' = [cont EXCEPT !.owned = FALSE]
    BY <1>2 DEF StartPlanSkill
  <2>4. GatherTyped' /\ EarnedTrue'
    <3>1. CASE attempt' = attempt /\ cont' = cont
      BY <1>1, <2>2, <3>1, WoodKept DEF GatherTyped
    <3>2. CASE /\ attempt' = Begun(SkillOf(CurrentNode(plan)), TRUE)
               /\ cont' = [cont EXCEPT !.owned = FALSE]
      <4>1. PICK skill \in Skills : skill = SkillOf(CurrentNode(plan))
        BY <2>1
      <4>2. attempt' \in GatherRuns /\ ~attempt'.acted
        BY <3>2, <4>1, BegunFacts
      <4> QED
        BY <1>1, <2>2, <3>2, <4>2, ContinuationDisowned, WoodKept
    <3> QED
      BY <2>3, <3>1, <3>2
  <2> QED
    BY <1>1, <2>2, <2>4 DEF PlanIInv
<1>3. CASE KeepAlive
  <2>1. /\ attempt' = Begun("other", FALSE) /\ cont' = [cont EXCEPT !.owned = FALSE]
        /\ UNCHANGED <<plan, logs, earned, paidFor>> /\ "other" \in Skills
    BY <1>3 DEF KeepAlive, History, Skills
  <2>2. attempt' \in GatherRuns /\ ~attempt'.acted
    BY <2>1, BegunFacts
  <2>3. GatherTyped' /\ EarnedTrue'
    BY <1>1, <2>1, <2>2, ContinuationDisowned, WoodKept
  <2> QED
    BY <1>1, <2>1, <2>3 DEF PlanIInv
<1>4. CASE Decide
  <2>1. /\ cont' = NoGather /\ UNCHANGED <<logs, earned, paidFor>>
        /\ plan' = Drafted(Labels) \/ plan' = plan
        /\ \/ attempt' = attempt \/ attempt' = Over
           \/ \E s \in Skills : attempt' = Begun(s, TRUE)
    BY <1>4 DEF Decide, History
  <2>2. GatherTyped' /\ EarnedTrue'
    <3>1. CASE attempt' = attempt \/ attempt' = Over
      BY <1>1, <2>1, <3>1, BegunFacts, OverFacts, NoGatherFacts, WoodKept DEF GatherTyped, GatherRuns, Continuations
    <3>2. CASE \E s \in Skills : attempt' = Begun(s, TRUE)
      <4>1. attempt' \in GatherRuns /\ ~attempt'.acted
        BY <3>2, BegunFacts
      <4> QED
        BY <1>1, <2>1, <4>1, NoGatherFacts, WoodKept
    <3> QED
      BY <2>1, <3>1, <3>2
  <2>3. GraphSound(plan')
    BY <1>1, <2>1, DraftedSound
  <2> QED
    BY <1>1, <2>1, <2>2, <2>3 DEF PlanIInv
<1>5. CASE OperatorPreempts
  <2>1. /\ cont' = NoGather /\ attempt' \in {Over, attempt} /\ UNCHANGED <<plan, logs, earned, paidFor>>
    BY <1>5 DEF OperatorPreempts, History
  <2>2. GatherTyped' /\ EarnedTrue'
    BY <1>1, <2>1, BegunFacts, OverFacts, NoGatherFacts, WoodKept DEF GatherTyped, GatherRuns, Continuations
  <2> QED
    BY <1>1, <2>1, <2>2 DEF PlanIInv
<1>6. CASE AttemptCloses
  <2>1. /\ cont' \in {NoGather, cont} /\ attempt' \in {Over, attempt} /\ plan' \in {NoPlan, plan}
        /\ UNCHANGED <<logs, earned, paidFor>>
    BY <1>6 DEF AttemptCloses, History
  <2>2. GatherTyped' /\ EarnedTrue'
    BY <1>1, <2>1, BegunFacts, OverFacts, NoGatherFacts, WoodKept DEF GatherTyped, GatherRuns, Continuations
  <2>3. GraphSound(plan')
    BY <1>1, <2>1, DraftedSound
  <2> QED
    BY <1>1, <2>1, <2>2, <2>3 DEF PlanIInv
<1>7. CASE SceneRecovers
  <2>1. PICK b \in BOOLEAN : b = (RunLives /\ attempt.ours)
    OBVIOUS
  <2>2. PICK neutral \in BOOLEAN :
          neutral = (cont.on \/ (RunLives /\ (attempt.skill = "gather" \/ attempt.neutral)))
    OBVIOUS
  <2>3. /\ cont' = NoGather /\ UNCHANGED <<plan, logs, earned, paidFor>>
        /\ attempt' = [Begun("other", b) EXCEPT !.neutral = neutral] /\ "other" \in Skills
    BY <1>7, <2>1, <2>2 DEF SceneRecovers, History, Skills
  <2>4. attempt' \in GatherRuns /\ ~attempt'.acted
    <3>1. PICK o \in GatherRuns : o = Begun("other", b) /\ ~o.acted
      BY <2>3, BegunFacts
    <3> QED
      BY <2>3, <3>1 DEF GatherRuns
  <2>5. GatherTyped' /\ EarnedTrue'
    BY <1>1, <2>3, <2>4, BegunFacts, OverFacts, NoGatherFacts, WoodKept
  <2> QED
    BY <1>1, <2>3, <2>5 DEF PlanIInv
<1> QED
  BY <1>2, <1>3, <1>4, <1>5, <1>6, <1>7

\* The first attack takes the count; only a new transaction forgets what was earned.
LEMMA ExecutorKeeps ==
  ASSUME PlanIInv, FreezeBaseline \/ CollectMoves \/ ObserveCollection PROVE PlanIInv'
<1>1. GatherTyped /\ EarnedTrue /\ GraphSound(plan) /\ paidFor >= Required /\ paidFor \in Nat
  BY DEF PlanIInv, GatherTyped
<1>2. CASE FreezeBaseline
  <2>1. PICK count \in {logs, Unknown} :
         attempt' = [attempt EXCEPT !.acted = TRUE, !.base = count,
                                !.at = IF @ = "running" /\ attempt.skill = "gather" /\ count = Unknown
                                       THEN "failing" ELSE @]
    BY <1>2 DEF FreezeBaseline
  <2>2. /\ UNCHANGED <<plan, cont, logs, paidFor>>
        /\ earned' = IF attempt.skill = "gather" /\ ~cont.on THEN 0 ELSE earned
        /\ ~attempt.acted
    BY <1>2 DEF FreezeBaseline
  <2>3. count \in Nat
    BY <1>1, PlanAssumption DEF GatherTyped, GatherRuns, Continuations, Unknown
  <2>4. /\ attempt' \in GatherRuns
        /\ attempt'.skill = attempt.skill /\ attempt'.base = count
    BY <1>1, <2>1, <2>3 DEF GatherTyped, GatherRuns, Continuations
  <2>5. GatherTyped'
    BY <1>1, <2>2, <2>4 DEF GatherTyped, GatherRuns, Continuations
  <2>6. EarnedTrue'
    BY <1>1, <2>1, <2>2, <2>4, <2>5 DEF EarnedTrue, GatherTyped, GatherRuns, Continuations, Unknown
  <2> QED
    BY <1>1, <2>2, <2>5, <2>6 DEF PlanIInv
<1>3. CASE CollectMoves \/ ObserveCollection
  <2>1. /\ attempt.skill = "collect" /\ UNCHANGED <<plan, cont, logs, earned, paidFor>>
        /\ \/ attempt' = [attempt EXCEPT !.acted = TRUE]
           \/ \E sure \in BOOLEAN : attempt' = [attempt EXCEPT !.candidate = sure /\ Possession]
    BY <1>3 DEF CollectMoves, ObserveCollection, History
  <2>2. \A sure \in BOOLEAN : (sure /\ Possession) \in BOOLEAN
    OBVIOUS
  <2>3. /\ attempt' \in GatherRuns
        /\ attempt'.skill = "collect"
    <3>1. CASE attempt' = [attempt EXCEPT !.acted = TRUE]
      BY <1>1, <2>1, <3>1 DEF GatherTyped, GatherRuns, Continuations
    <3>2. CASE \E sure \in BOOLEAN : attempt' = [attempt EXCEPT !.candidate = sure /\ Possession]
      <4>1. PICK c \in BOOLEAN : attempt' = [attempt EXCEPT !.candidate = c]
        BY <2>2, <3>2
      <4> QED
        BY <1>1, <2>1, <4>1 DEF GatherTyped, GatherRuns, Continuations
    <3> QED
      BY <2>1, <3>1, <3>2
  <2>4. GatherTyped' /\ EarnedTrue'
    BY <1>1, <2>1, <2>3, WoodKept DEF GatherTyped, GatherRuns, Continuations
  <2> QED
    BY <1>1, <2>1, <2>4 DEF PlanIInv
<1> QED
  BY <1>2, <1>3

\* A log that is picked up is earned; one that is lost is not taken back.
LEMMA LogsKeep == ASSUME PlanIInv, PicksUp \/ Loses PROVE PlanIInv'
<1>1. GatherTyped /\ EarnedTrue /\ GraphSound(plan) /\ paidFor >= Required /\ paidFor \in Nat
  BY DEF PlanIInv, GatherTyped
<1>2. /\ UNCHANGED <<plan, attempt, cont, paidFor>> /\ Required \in Nat
      /\ \/ logs' = logs + 1 /\ earned' = IF earned < Required THEN earned + 1 ELSE earned
         \/ logs > 0 /\ logs' = logs - 1 /\ earned' = earned
  BY PlanAssumption DEF PicksUp, Loses, History
<1>3. GatherTyped'
  BY <1>1, <1>2 DEF GatherTyped, GatherRuns, Continuations
<1>4. EarnedTrue'
  BY <1>1, <1>2, PlanAssumption DEF EarnedTrue, GatherTyped, GatherRuns, Continuations, Unknown
<1> QED
  BY <1>1, <1>2, <1>3, <1>4 DEF PlanIInv

\* A step that is done moves the cursor on; one that keeps failing is blocked.
LEMMA AdvanceSound ==
  ASSUME GraphSound(plan), GatherTyped, NEW seen, NEW failures
  PROVE  GraphSound(Advance(seen)) /\ GraphSound(SkipStep(failures))
<1>1. GraphSound(Advance(seen))
  <2>1. CASE Advance(seen) = Succeeded(plan)
    <3>1. plan.cursor + 1 \in Nat \ {0} /\ plan.blocked \in SUBSET PlanNodes
      BY GraphFacts DEF PlanGraphs
    <3>2. PICK q : q = [plan EXCEPT !.cursor = @ + 1]
      OBVIOUS
    <3>3. /\ q \in PlanGraphs /\ q.order = plan.order /\ q.cursor = plan.cursor + 1
          /\ q.blocked = plan.blocked
      BY <3>1, <3>2, GraphFacts DEF PlanGraphs
    <3>4. GraphSound(q)
      BY <3>1, <3>3, SucceededSound
    <3> QED
      BY <2>1, <3>2, <3>4 DEF Succeeded
  <2>2. CASE Advance(seen) = plan
    BY <2>2
  <2> QED
    BY <2>1, <2>2 DEF Advance
<1>2. GraphSound(SkipStep(failures))
  <2>1. CASE /\ Under(plan) /\ attempt.ours
             /\ SkillOf(CurrentNode(plan)) = attempt.skill /\ failures >= Tolerance
    <3>1. attempt.skill \in Skills
      BY DEF GatherTyped, GatherRuns
    <3>2. GraphSound(Blocked(plan))
      BY <2>1, <3>1, BlockedSound
    <3> QED
      BY <2>1, <3>2 DEF SkipStep
  <2>2. CASE ~(/\ Under(plan) /\ attempt.ours
               /\ SkillOf(CurrentNode(plan)) = attempt.skill /\ failures >= Tolerance)
    BY <2>2 DEF SkipStep
  <2> QED
    BY <2>1, <2>2
<1> QED
  BY <1>1, <1>2

\* With the last event of a transaction as many logs as are required have been earned.
LEMMA AcquiredEarned ==
  ASSUME GatherTyped, EarnedTrue, NEW ok, NEW seen, Acquired(ok, seen)
  PROVE  /\ earned >= Required \/ earned >= cont.events + 1
         /\ GatherComplete(ok, seen) => earned >= Required
<1>1. /\ cont.on /\ logs = cont.last + 1
      /\ earned \in Nat /\ logs \in Nat /\ cont.events \in Nat /\ cont.last \in Nat
      /\ Required \in Nat \ {0}
  BY PlanAssumption DEF Acquired, GatherTyped, Continuations
<1>2. earned >= Required \/ earned >= cont.events + 1
  BY <1>1 DEF EarnedTrue
<1>3. cont.events = Required - 1 => earned >= Required
  BY <1>1, <1>2
<1> QED
  BY <1>2, <1>3 DEF GatherComplete

\* What the record of a run does to the plan and to its account.
LEMMA RecordKeeps ==
  ASSUME PlanIInv, NEW ok \in BOOLEAN, NEW seen, Recorded(ok, seen)
  PROVE  GraphSound(plan') /\ paidFor' \in Nat /\ paidFor' >= Required
<1>1. GatherTyped /\ EarnedTrue /\ GraphSound(plan) /\ paidFor >= Required
      /\ paidFor \in Nat /\ earned \in Nat
  BY DEF PlanIInv, GatherTyped
<1>2. PICK failures : failures = streak[attempt.skill] + 1
  OBVIOUS
<1>3. /\ plan' = IF ~(Advances(ok, seen) /\ ~attempt.neutral) THEN plan
                 ELSE IF ok THEN Advance(seen) ELSE SkipStep(failures)
      /\ paidFor' = IF Transaction /\ ok /\ plan' # plan THEN earned ELSE paidFor
  BY <1>2 DEF Recorded
<1>4. plan' = plan \/ plan' = Advance(seen) \/ plan' = SkipStep(failures)
  BY <1>3
<1>5. GraphSound(plan')
  <2>1. CASE plan' = plan
    BY <1>1, <2>1
  <2>2. CASE plan' = Advance(seen)
    <3>1. GraphSound(Advance(seen))
      BY <1>1, AdvanceSound
    <3> QED
      BY <2>2, <3>1
  <2>3. CASE plan' = SkipStep(failures)
    <3>1. GraphSound(SkipStep(failures))
      BY <1>1, AdvanceSound
    <3> QED
      BY <2>3, <3>1
  <2> QED
    BY <1>4, <2>1, <2>2, <2>3
<1>6. Transaction /\ ok /\ plan' # plan => earned >= Required
  <2>1. SUFFICES ASSUME Transaction, ok, plan' # plan PROVE earned >= Required
    OBVIOUS
  <2>2. GatherComplete(ok, seen)
    BY <1>3, <2>1 DEF Advances
  <2>3. Acquired(ok, seen)
    BY <2>2 DEF GatherComplete
  <2> QED
    BY <1>1, <2>2, <2>3, AcquiredEarned
<1> QED
  BY <1>1, <1>3, <1>5, <1>6

\* The drop is collected by a run that has not moved yet.
LEMMA CollectingFacts ==
  ASSUME GatherTyped
  PROVE  Collecting \in GatherRuns /\ Collecting.skill = "collect" /\ ~Collecting.acted
<1>1. attempt.ours \in BOOLEAN /\ attempt.base \in Nat /\ "collect" \in Skills
  BY DEF GatherTyped, GatherRuns, Skills
<1>2. PICK o \in GatherRuns : o = Begun("collect", attempt.ours) /\ o.skill = "collect" /\ ~o.acted
  BY <1>1, BegunFacts
<1> QED
  BY <1>1, <1>2 DEF Collecting, GatherRuns

\* What follows a run counts the wood as it is.
LEMMA FollowKeeps ==
  ASSUME GatherTyped, EarnedTrue, NEW ok \in BOOLEAN, NEW seen, Follow(ok, seen),
         UNCHANGED <<logs, earned>>, paidFor' \in Nat,
         ok => attempt.acted \/ attempt.skill # "gather"
  PROVE  GatherTyped' /\ EarnedTrue'
<1>1. /\ attempt.ours \in BOOLEAN /\ attempt.base \in Nat /\ "gather" \in Skills /\ "other" \in Skills
      /\ cont \in Continuations /\ cont.events \in Nat /\ logs \in Nat /\ earned \in Nat
  BY DEF GatherTyped, GatherRuns, Continuations, Skills
<1>2. CASE Handoff(ok, seen)
  <2>1. attempt' = Collecting /\ attempt' \in GatherRuns /\ attempt'.skill = "collect"
    BY <1>2, CollectingFacts DEF Follow
  <2>2. CASE cont.on
    <3>1. cont' = cont
      BY <1>2, <2>2 DEF Follow
    <3> QED
      BY <1>1, <2>1, <3>1, WoodKept
  <2>3. CASE ~cont.on
    <3>1. cont' = [on |-> TRUE, events |-> 0, last |-> attempt.base, owned |-> TRUE]
      BY <1>2, <2>3 DEF Follow
    <3>2. cont' \in Continuations /\ cont'.events = 0 /\ cont'.last = attempt.base
      BY <1>1, <3>1 DEF Continuations
    <3>3. earned >= Required \/ earned + attempt.base >= logs
      BY <1>2 DEF Handoff, EarnedTrue
    <3>4. GatherTyped'
      BY <1>1, <2>1, <3>2 DEF GatherTyped
    <3>5. earned' >= cont'.events /\ (earned >= Required \/ earned' + cont'.last >= cont'.events + logs')
      BY <1>1, <3>2, <3>3
    <3> QED
      BY <2>1, <3>4, <3>5 DEF EarnedTrue
  <2> QED
    BY <2>2, <2>3
<1>3. CASE ~Handoff(ok, seen) /\ Acquired(ok, seen) /\ GatherComplete(ok, seen)
  <2>1. attempt' = Over /\ cont' = NoGather
    BY <1>3 DEF Follow
  <2> QED
    BY <2>1, OverFacts, NoGatherFacts, WoodKept
<1>4. CASE ~Handoff(ok, seen) /\ Acquired(ok, seen) /\ ~GatherComplete(ok, seen)
  <2>1. /\ attempt' = Begun("gather", attempt.ours)
        /\ cont' = [cont EXCEPT !.events = @ + 1, !.last = logs]
    BY <1>4 DEF Follow
  <2>2. attempt' \in GatherRuns /\ ~attempt'.acted
    BY <1>1, <2>1, BegunFacts
  <2>3. cont.events + 1 \in Nat
    BY <1>1
  <2>4. /\ cont' \in Continuations /\ cont'.events = cont.events + 1 /\ cont'.last = logs
    BY <1>1, <2>1, <2>3 DEF Continuations
  <2>5. earned >= Required \/ earned >= cont.events + 1
    BY <1>4, AcquiredEarned
  <2>6. GatherTyped'
    BY <1>1, <2>2, <2>4 DEF GatherTyped
  <2>7. \/ earned' >= Required
        \/ earned' >= cont'.events /\ earned' + cont'.last >= cont'.events + logs'
    BY <1>1, <2>4, <2>5, PlanAssumption
  <2> QED
    BY <2>2, <2>6, <2>7 DEF EarnedTrue
<1>5. CASE ~Handoff(ok, seen) /\ ~Acquired(ok, seen)
  <2>1. PICK neutral \in BOOLEAN :
          neutral = (attempt.neutral \/ (Transaction /\ ~GatherComplete(ok, seen)))
    BY DEF GatherTyped, GatherRuns
  <2>2. /\ cont' = NoGather
        /\ \/ attempt' = Collecting \/ attempt' = Over
           \/ attempt' = [Begun("other", attempt.ours) EXCEPT !.neutral = neutral]
    BY <1>5, <2>1 DEF Follow
  <2>3. CASE attempt' = Collecting
    BY <2>2, <2>3, CollectingFacts, NoGatherFacts, WoodKept
  <2>4. CASE attempt' = Over
    BY <2>2, <2>4, OverFacts, NoGatherFacts, WoodKept
  <2>5. CASE attempt' = [Begun("other", attempt.ours) EXCEPT !.neutral = neutral]
    <3>1. PICK o \in GatherRuns : o = Begun("other", attempt.ours) /\ ~o.acted
      BY <1>1, BegunFacts
    <3>2. attempt' \in GatherRuns /\ ~attempt'.acted
      BY <2>5, <3>1 DEF GatherRuns
    <3> QED
      BY <2>2, <3>2, NoGatherFacts, WoodKept
  <2> QED
    BY <2>2, <2>3, <2>4, <2>5
<1> QED
  BY <1>2, <1>3, <1>4, <1>5

\* The end of a run, recorded or not.
LEMMA EndKeeps ==
  ASSUME PlanIInv, NEW ok \in BOOLEAN, NEW seen, SkillEnds(ok, seen),
         ok => attempt.acted \/ attempt.skill # "gather"
  PROVE  PlanIInv'
<1>1. GatherTyped /\ EarnedTrue /\ GraphSound(plan) /\ paidFor >= Required /\ paidFor \in Nat
  BY DEF PlanIInv, GatherTyped
<1>2. UNCHANGED <<logs, earned>>
  BY DEF SkillEnds
<1>3. CASE Recorded(ok, seen) /\ Follow(ok, seen)
  <2>1. GraphSound(plan') /\ paidFor' \in Nat /\ paidFor' >= Required
    BY <1>3, RecordKeeps
  <2>2. GatherTyped' /\ EarnedTrue'
    BY <1>1, <1>2, <1>3, <2>1, FollowKeeps
  <2> QED
    BY <2>1, <2>2 DEF PlanIInv
<1>4. CASE /\ attempt' = Over /\ cont' = IF ContinuationKept(ok, seen) THEN cont ELSE NoGather
           /\ UNCHANGED <<plan, streak, stop, paidFor>>
  <2>1. cont' = cont \/ cont' = NoGather
    BY <1>4
  <2>2. GatherTyped' /\ EarnedTrue'
    BY <1>1, <1>2, <1>4, <2>1, OverFacts, NoGatherFacts, WoodKept DEF GatherTyped
  <2> QED
    BY <1>1, <1>4, <2>2 DEF PlanIInv
<1>5. CASE Recorded(ok, seen) /\ attempt' = Over /\ cont' = NoGather
  <2>1. GraphSound(plan') /\ paidFor' \in Nat /\ paidFor' >= Required
    BY <1>5, RecordKeeps
  <2>2. GatherTyped' /\ EarnedTrue'
    BY <1>1, <1>2, <1>5, <2>1, OverFacts, NoGatherFacts, WoodKept
  <2> QED
    BY <2>1, <2>2 DEF PlanIInv
<1> QED
  BY <1>3, <1>4, <1>5 DEF SkillEnds

\* Every step keeps the invariant.
LEMMA PlanKeeps == PlanIInv /\ [PlanNext]_planVars => PlanIInv'
<1> SUFFICES ASSUME PlanIInv, [PlanNext]_planVars PROVE PlanIInv'
  OBVIOUS
<1>1. CASE StartPlanSkill \/ KeepAlive \/ Decide \/ OperatorPreempts \/ AttemptCloses \/ SceneRecovers
  BY <1>1, BetweenKeeps
<1>2. CASE FreezeBaseline \/ CollectMoves \/ ObserveCollection
  BY <1>2, ExecutorKeeps
<1>3. CASE BreakVerified
  <2>1. PICK seen : SkillEnds(TRUE, seen)
    BY <1>3 DEF BreakVerified
  <2>2. attempt.acted
    BY <1>3 DEF BreakVerified
  <2> QED
    BY <2>1, <2>2, EndKeeps
<1>4. CASE PickupVerified
  <2>1. attempt.skill # "gather" /\ SkillEnds(TRUE, "log")
    BY <1>4 DEF PickupVerified, Possession
  <2> QED
    BY <2>1, EndKeeps
<1>5. CASE OtherSucceeds
  <2>1. attempt.skill # "gather" /\ SkillEnds(TRUE, "none")
    BY <1>5 DEF OtherSucceeds
  <2> QED
    BY <2>1, EndKeeps
<1>6. CASE RunFails
  <2>1. SkillEnds(FALSE, "none")
    BY <1>6 DEF RunFails
  <2> QED
    BY <2>1, EndKeeps
<1>7. CASE PicksUp \/ Loses
  BY <1>7, LogsKeep
<1>8. CASE UNCHANGED planVars
  BY <1>8 DEF planVars, PlanIInv, GatherTyped, EarnedTrue
<1> QED
  BY <1>1, <1>2, <1>3, <1>4, <1>5, <1>6, <1>7, <1>8 DEF PlanNext

\* The runtime begins without a plan and without a run.
LEMMA PlanStarts == PlanInit => PlanIInv
<1> SUFFICES ASSUME PlanInit PROVE PlanIInv
  OBVIOUS
<1>1. /\ plan = NoPlan /\ attempt = NoRun /\ cont = NoGather
      /\ logs = 0 /\ earned = 0 /\ paidFor = Required /\ Required \in Nat
  BY PlanAssumption DEF PlanInit
<1>2. NoRun \in GatherRuns /\ ~NoRun.acted
  BY PlanAssumption DEF NoRun, GatherRuns, Skills, Unknown
<1>3. GraphSound(plan)
  BY <1>1, DraftedSound
<1>4. GatherTyped /\ EarnedTrue
  BY <1>1, <1>2, NoGatherFacts DEF GatherTyped, EarnedTrue
<1> QED
  BY <1>1, <1>3, <1>4 DEF PlanIInv

\* The invariant holds what the property says.
LEMMA PlanImplied == PlanIInv => PlanSound
<1> SUFFICES ASSUME PlanIInv PROVE PlanSound
  OBVIOUS
<1>1. GraphSound(plan) /\ paidFor >= Required
  BY DEF PlanIInv
<1>2. ASSUME Under(plan), NEW node \in plan.blocked, node[1] = plan.cursor
      PROVE  SkillOf(node) # SkillOf(CurrentNode(plan))
  BY <1>1, <1>2 DEF GraphSound, Under, CurrentNode
<1> QED
  BY <1>1, <1>2 DEF PlanSound

\* The property itself: a step that is given up for a transaction was earned, and a
\* blocked method does not come back (runtime.py:1160-1280, plan_graph.py:115-180).
THEOREM PlanSafety == PlanSpec => []PlanSound
<1>1. PlanSpec => []PlanIInv
  BY PlanStarts, PlanKeeps, PTL DEF PlanSpec
<1> QED
  BY <1>1, PlanImplied, PTL
=============================================================================

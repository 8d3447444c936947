--------------------------- MODULE AgentPartsProofs ---------------------------
(***************************************************************************)
(* Proofs about the parts of the agent that end with it: the client of the *)
(* learned policy, the router over several of them, the vision worker, the *)
(* trajectory recorder and the runtime that holds the lease; for every     *)
(* number of experts, inferences, offers, queries and late commands.       *)
(***************************************************************************)
EXTENDS PolicyClient, PolicyRouter, TrajectoryRecorder, VisionWorker, AgentRuntime, TLAPS

(***************************************************************************)
(* The client of the learned policy.                                       *)
(***************************************************************************)
Orders  == [do : {"infer", "drain"}, id : Nat]
Replies == [id : Nat, ok : BOOLEAN]
ClientStates ==
  [at : {"idle", "loading", "draining"}, process : BOOLEAN, verified : BOOLEAN,
   native : BOOLEAN, pending : Nat, late : BOOLEAN, discard : BOOLEAN, last : Nat,
   held : Nat, camera : Nat, draining : BOOLEAN, retiring : BOOLEAN, trusted : BOOLEAN,
   starts : Nat]
ChildStates ==
  [up : BOOLEAN, ready : BOOLEAN, native : BOOLEAN, inbox : Seq(Orders),
   outbox : Seq(Replies), last : Nat, saved : Nat, normal : BOOLEAN]

ClientTyped ==
  /\ client \in ClientStates /\ child \in ChildStates
  /\ sent \in Nat /\ fence \in 0 .. sent
  /\ told \in Seq({"stop", "drain"}) /\ heedless \in BOOLEAN
  /\ stuck \in Nat /\ report \in {"none", "complete", "incomplete"}

\* A request that may still act was sent after the last release.
RequestCurrent ==
  ~client.retiring /\ client.pending # None /\ ~client.discard => client.pending > fence

\* A worker that runs is on the client's books, and has not exited.
OnTheBooks == child.up => client.process /\ ~child.normal

\* A retirement starts while nothing loads, and a drain is part of one.
Ordered ==
  /\ client.at = "loading" => ~client.retiring
  /\ client.at = "draining" => client.draining
  /\ client.draining => client.retiring
  /\ report # "none" => client.retiring /\ client.at = "idle"

\* After a drain, a normal exit is the one that saved.
DrainSaves ==
  (\E i \in DOMAIN told : told[i] = "drain") =>
     client.draining /\ (child.normal => child.saved = child.last)

ClientIInv ==
  /\ ClientTyped /\ RequestCurrent /\ OnTheBooks /\ Ordered /\ DrainSaves
  /\ NoStaleMotion /\ RetirementSound


\* d is c, but for what is asked, held and known of the worker.
SameStage(d, c) ==
  /\ d \in ClientStates /\ d.at = c.at
  /\ d.process = c.process /\ d.draining = c.draining /\ d.retiring = c.retiring

\* Letting go of what is held keeps a client well formed.
LEMMA NeutralFields ==
  ASSUME NEW c \in ClientStates
  PROVE  /\ SameStage(Neutral(c), c) /\ Neutral(c).held = None /\ Neutral(c).camera = None
         /\ Neutral(c).pending = c.pending /\ Neutral(c).discard = c.discard
  BY DEF Neutral, SameStage, ClientStates, None

\* So does retiring the request that is out.
LEMMA RetiredFields ==
  ASSUME NEW c \in ClientStates
  PROVE  /\ SameStage(Retired(c), c) /\ Retired(c).pending = c.pending
         /\ Retired(c).pending # None => Retired(c).discard
         /\ Retired(c).held = c.held /\ Retired(c).camera = c.camera
  BY DEF Retired, SameStage, ClientStates

\* So does forgetting the worker.
LEMMA ClearedFields ==
  ASSUME NEW c \in ClientStates
  PROVE  /\ Cleared(c) \in ClientStates /\ ~Cleared(c).process
         /\ Cleared(c).pending = None /\ ~Cleared(c).discard
         /\ Cleared(c).held = c.held /\ Cleared(c).camera = None
         /\ Cleared(c).at = c.at /\ Cleared(c).starts = c.starts
         /\ Cleared(c).draining = c.draining /\ Cleared(c).retiring = c.retiring
  BY DEF Cleared, ClientStates, None

\* close() ends the worker and forgets it, or keeps it on the books unverified.
LEMMA ClosedOutcomes ==
  ASSUME NEW c, NEW o \in Closed(c)
  PROVE  \/ /\ o.client = Cleared(c) /\ o.raised = FALSE
            /\ \/ child.up /\ o.child = Ends(child)
               \/ child.up /\ AsksStop(c) /\ o.child = Exits(child)
               \/ ~child.up /\ o.child = child
         \/ /\ child.up /\ c.process /\ o.raised = TRUE
            /\ o.client = [c EXCEPT !.verified = FALSE] /\ o.child = child
<1> DEFINE Ways == IF child.up THEN {Ends(child)} \cup (IF AsksStop(c) THEN {Exits(child)} ELSE {})
                   ELSE {child}
<1>1. CASE \E w \in Ways : o = [client |-> Cleared(c), child |-> w, raised |-> FALSE]
  <2>1. PICK w \in Ways : o = [client |-> Cleared(c), child |-> w, raised |-> FALSE]
    BY <1>1
  <2>2. \/ child.up /\ w = Ends(child)
        \/ child.up /\ AsksStop(c) /\ w = Exits(child)
        \/ ~child.up /\ w = child
    BY <2>1
  <2> QED
    BY <2>1, <2>2
<1>2. CASE child.up /\ c.process
           /\ o = [client |-> [c EXCEPT !.verified = FALSE], child |-> child, raised |-> TRUE]
  BY <1>2
<1> QED
  BY <1>1, <1>2 DEF Closed

\* What close() does to the client.
LEMMA ClosedClient ==
  ASSUME NEW c \in ClientStates, NEW o \in Closed(c)
  PROVE  /\ o.client \in ClientStates /\ o.raised \in BOOLEAN
         /\ o.client.at = c.at /\ o.client.draining = c.draining /\ o.client.retiring = c.retiring
         /\ o.client.held = c.held /\ o.client.camera \in {c.camera, None}
         /\ o.raised => o.client.process = c.process
         /\ ~o.raised => ~o.client.process
<1>1. CASE o.raised = FALSE /\ o.client = Cleared(c)
  BY <1>1, ClearedFields
<1>2. CASE o.raised = TRUE /\ o.client = [c EXCEPT !.verified = FALSE]
  BY <1>2 DEF ClientStates
<1> QED
  BY <1>1, <1>2, ClosedOutcomes

\* The worker's end, by itself or asked for.
LEMMA EndsFields ==
  ASSUME NEW w \in ChildStates
  PROVE  /\ Ends(w) \in ChildStates /\ ~Ends(w).up /\ ~Ends(w).normal
         /\ Exits(w) \in ChildStates /\ ~Exits(w).up /\ Exits(w).normal
         /\ Exits(w).last = w.last /\ Exits(w).saved = w.saved
<1>1. <<>> \in Seq(Orders)
  OBVIOUS
<1>2. Ends(w) \in ChildStates /\ ~Ends(w).up /\ ~Ends(w).normal
      /\ Ends(w).last = w.last /\ Ends(w).saved = w.saved
  BY <1>1 DEF Ends, ChildStates
<1> QED
  BY <1>2 DEF Exits, ChildStates

\* A worker that is asked to stop is told so, and nothing else.
LEMMA StopTold ==
  ASSUME ClientTyped, ~\E i \in DOMAIN told : told[i] = "drain", told' = Append(told, "stop")
  PROVE  told' \in Seq({"stop", "drain"}) /\ ~\E i \in DOMAIN told' : told'[i] = "drain"
<1>1. told \in Seq({"stop", "drain"}) /\ DOMAIN told = 1 .. Len(told) /\ Len(told) \in Nat
  BY DEF ClientTyped
<1>2. /\ told' \in Seq({"stop", "drain"}) /\ DOMAIN told' = 1 .. Len(told) + 1
      /\ told'[Len(told) + 1] = "stop" /\ \A i \in 1 .. Len(told) : told'[i] = told[i]
  BY <1>1
<1> QED
  BY <1>1, <1>2

\* Before a retirement, close() never leaves anything that may act wrongly.
LEMMA ClosingKeeps ==
  ASSUME ClientIInv, ~client.retiring, NEW c, SameStage(c, client), NEW o \in Closed(c),
         NEW d, SameStage(d, o.client), 
         d.pending = o.client.pending, d.discard = o.client.discard, 
         d.held # None => d.held > fence', d.camera # None => d.camera > fence',
         client' \in {d, [d EXCEPT !.at = "idle"]}, child' = o.child,
         stuck' = IF o.raised THEN stuck + 1 ELSE stuck,
         IF AsksStop(c) THEN Told(c, "stop", FALSE) ELSE UNCHANGED <<told, heedless>>,
         c.pending # None /\ ~c.discard => c.pending > fence',
         fence' \in {fence, sent}, UNCHANGED <<sent, report>>
  PROVE  ClientIInv'
<1>1. c \in ClientStates /\ ~c.retiring /\ ~c.draining /\ c.at # "draining"
      /\ c.process = client.process /\ child \in ChildStates
      /\ report = "none" /\ ~\E i \in DOMAIN told : told[i] = "drain"
  BY DEF ClientIInv, ClientTyped, ClientStates, SameStage, Ordered, DrainSaves
<1>2. /\ told' \in Seq({"stop", "drain"}) /\ ~heedless' /\ heedless' \in BOOLEAN
      /\ ~\E i \in DOMAIN told' : told'[i] = "drain"
  BY <1>1, StopTold DEF ClientIInv, ClientTyped, Told, RetirementSound
<1>3. /\ o.client \in ClientStates /\ o.client.at = c.at
      /\ o.client.draining = c.draining /\ o.client.retiring = c.retiring
      /\ o.client.pending # None /\ ~o.client.discard => o.client.pending > fence'
      /\ child' \in ChildStates /\ (child'.up => o.client.process /\ ~child'.normal)
  <2>1. CASE o.client = Cleared(c) /\ o.raised = FALSE
    <3>0. \/ child' = Ends(child) \/ child' = Exits(child)
          \/ child' = child /\ ~child.up
      BY <2>1, ClosedOutcomes
    <3>1. child' \in ChildStates /\ ~child'.up
      BY <1>1, <3>0, EndsFields
    <3>2. Cleared(c) \in ClientStates /\ Cleared(c).at = c.at /\ Cleared(c).pending = None
          /\ Cleared(c).draining = c.draining /\ Cleared(c).retiring = c.retiring
      BY <1>1, ClearedFields
    <3> QED
      BY <2>1, <3>1, <3>2
  <2>2. CASE child.up /\ c.process /\ o.client = [c EXCEPT !.verified = FALSE] /\ o.child = child
    BY <1>1, <2>2 DEF ClientStates, ClientIInv, OnTheBooks
  <2> QED
    BY <2>1, <2>2, ClosedOutcomes
<1>4. /\ client' \in ClientStates /\ client'.process = o.client.process
      /\ ~client'.retiring /\ ~client'.draining /\ client'.at # "draining"
      /\ client'.pending = d.pending /\ client'.discard = d.discard
      /\ client'.held = d.held /\ client'.camera = d.camera
  <2>1. /\ d \in ClientStates /\ ~d.retiring /\ ~d.draining /\ d.at # "draining" 
        /\ d.process = o.client.process
    BY <1>1, <1>3 DEF SameStage, ClientStates
  <2>2. CASE client' = d
    BY <2>1, <2>2
  <2>3. CASE client' = [d EXCEPT !.at = "idle"]
    BY <2>1, <2>3 DEF ClientStates
  <2> QED
    BY <2>2, <2>3
<1>5. ClientTyped' /\ RequestCurrent' /\ OnTheBooks'
  <2>1. stuck' \in Nat
    BY ClosedOutcomes DEF ClientIInv, ClientTyped
  <2> QED
    BY <1>2, <1>3, <1>4, <2>1 DEF ClientIInv, ClientTyped, RequestCurrent, OnTheBooks
<1>6. Ordered' /\ DrainSaves' /\ NoStaleMotion' /\ RetirementSound'
  BY <1>1, <1>2, <1>4 DEF Ordered, DrainSaves, NoStaleMotion, RetirementSound
<1> QED
  BY <1>5, <1>6 DEF ClientIInv

\* Calls that touch neither the worker nor what it was told.
LEMMA QuietCallsKeep ==
  ASSUME ClientIInv, ActBlocked \/ NotifyInputsReleased \/ DeadlinePasses
  PROVE  ClientIInv'
<1>1. CASE ActBlocked
  BY <1>1, NeutralFields
  DEF ClientIInv, ClientTyped, RequestCurrent, OnTheBooks, Ordered, DrainSaves, NoStaleMotion,
     RetirementSound, ActBlocked, Outside, Books, SameStage
<1>2. CASE NotifyInputsReleased
  <2> DEFINE c == Retired(client)
  <2>1. c \in ClientStates
    BY RetiredFields DEF ClientIInv, ClientTyped, SameStage
  <2> QED
    BY <1>2, <2>1, RetiredFields, NeutralFields
    DEF ClientIInv, ClientTyped, RequestCurrent, OnTheBooks, Ordered, DrainSaves, NoStaleMotion,
       RetirementSound, NotifyInputsReleased, Outside, Books, SameStage
<1>3. CASE DeadlinePasses
  <2>1. /\ SameStage(client', client)
        /\ client'.pending = client.pending /\ client'.discard = client.discard
        /\ client'.held = client.held /\ client'.camera = client.camera
    BY <1>3 DEF DeadlinePasses, ClientIInv, ClientTyped, ClientStates, SameStage
  <2> QED
    BY <1>3, <2>1
    DEF ClientIInv, ClientTyped, RequestCurrent, OnTheBooks, Ordered, DrainSaves, NoStaleMotion,
       RetirementSound, DeadlinePasses, Outside, Books, SameStage
<1> QED
  BY <1>1, <1>2, <1>3

\* What an exception in act() leaves, and what the start of a worker does that
\* is on the books and not usable.
LEMMA RecoverKeeps ==
  ASSUME ClientIInv, ~client.retiring, NEW c, SameStage(c, client),
         c.pending # None /\ ~c.discard => c.pending > fence,
         c.held = client.held, c.camera = client.camera,
         Recover(c), UNCHANGED Books
  PROVE  ClientIInv'
<1>1. PICK o \in Closed(c) :
        /\ client' = (IF o.raised THEN o.client ELSE Neutral(o.client)) /\ child' = o.child
        /\ stuck' = IF o.raised THEN stuck + 1 ELSE stuck
  BY DEF Recover, Closing
<1>2. IF AsksStop(c) THEN Told(c, "stop", FALSE) ELSE UNCHANGED <<told, heedless>>
  BY DEF Recover, Closing
<1>3. c \in ClientStates /\ UNCHANGED <<sent, fence, report>>
  BY DEF SameStage, Books
<1>4. o.client \in ClientStates /\ o.client.held = c.held /\ o.client.camera \in {c.camera, None}
  BY <1>3, ClosedClient
<1>5. /\ SameStage(client', o.client)
      /\ client'.pending = o.client.pending /\ client'.discard = o.client.discard
      /\ client'.held # None => client'.held > fence
      /\ client'.camera # None => client'.camera > fence
  BY <1>1, <1>4, NeutralFields DEF SameStage, ClientIInv, NoStaleMotion
<1> QED
  BY <1>1, <1>2, <1>3, <1>5, ClosingKeeps

\* Spawning counts a start and begins with an empty pair of pipes.
LEMMA SpawnKeeps == ASSUME ClientIInv, Spawn PROVE ClientIInv'
<1> USE DEF None
<1>1. /\ client \in ClientStates /\ client.at = "idle" /\ ~client.draining /\ ~client.retiring
      /\ report = "none" /\ UNCHANGED <<sent, fence, report>>
  BY DEF Spawn, ClientIInv, ClientTyped, Ordered, Books
<1>2. CASE ~client.process /\ client.starts < MaxWorkerStarts /\ told' = <<>>
           /\ client' = [Cleared(client) EXCEPT !.at = "loading", !.process = TRUE, !.starts = @ + 1]
           /\ child' \in {[NoChild EXCEPT !.up = TRUE, !.native = n] : n \in BOOLEAN}
           /\ UNCHANGED <<heedless, stuck>>
  <2>1. child' \in ChildStates /\ ~child'.normal
    <3>1. PICK n \in BOOLEAN : child' = [NoChild EXCEPT !.up = TRUE, !.native = n]
      BY <1>2
    <3>2. <<>> \in Seq(Orders) /\ <<>> \in Seq(Replies)
      OBVIOUS
    <3> QED
      BY <3>1, <3>2 DEF NoChild, ChildStates
  <2>2. /\ client' \in ClientStates /\ client'.at = "loading" /\ client'.process
        /\ client'.pending = None /\ client'.held = client.held /\ client'.camera = None
        /\ client'.draining = client.draining /\ client'.retiring = client.retiring
    <3> DEFINE c == Cleared(client)
    <3>1. c \in ClientStates /\ c.pending = None /\ c.held = client.held /\ c.camera = None
          /\ c.draining = client.draining /\ c.retiring = client.retiring
      BY <1>1, ClearedFields
    <3> HIDE DEF c
    <3>2. client' = [c EXCEPT !.at = "loading", !.process = TRUE, !.starts = @ + 1]
      BY <1>2 DEF c
    <3>3. c.starts + 1 \in Nat
      BY <3>1 DEF ClientStates
    <3> QED
      BY <3>1, <3>2, <3>3 DEF ClientStates
  <2>3. told' \in Seq({"stop", "drain"}) /\ ~\E i \in DOMAIN told' : told'[i] = "drain"
    <3>1. told' = <<>>
      BY <1>2
    <3>2. <<>> \in Seq({"stop", "drain"}) /\ ~\E i \in DOMAIN <<>> : <<>>[i] = "drain"
      OBVIOUS
    <3> QED
      BY <3>1, <3>2
  <2>4. heedless' = heedless /\ stuck' = stuck
    BY <1>2
  <2>5. ClientTyped' /\ RequestCurrent' /\ OnTheBooks' /\ Ordered'
    BY <1>1, <2>1, <2>2, <2>3, <2>4 DEF ClientIInv, ClientTyped, RequestCurrent, OnTheBooks, Ordered
  <2>6. DrainSaves' /\ NoStaleMotion' /\ RetirementSound'
    BY <1>1, <2>2, <2>3, <2>4 DEF ClientIInv, DrainSaves, NoStaleMotion, RetirementSound
  <2> QED
    BY <2>5, <2>6 DEF ClientIInv
<1>3. CASE ~client.process /\ client' = Neutral(Cleared(client)) /\ UNCHANGED Outside
  <2>1. Cleared(client) \in ClientStates
    BY <1>1, ClearedFields
  <2> QED
    BY <1>1, <1>3, <2>1, ClearedFields, NeutralFields DEF ClientIInv, ClientTyped, RequestCurrent,
       OnTheBooks, Ordered, DrainSaves, NoStaleMotion, RetirementSound, Outside, SameStage
<1>4. CASE client.process /\ Recover(client)
  BY <1>1, <1>4, RecoverKeeps DEF Spawn, ClientIInv, RequestCurrent, SameStage
<1> QED
  BY <1>2, <1>3, <1>4 DEF Spawn, Recover

\* The first line of a worker verifies it; without one it is closed.
LEMMA StartsUpKeeps == ASSUME ClientIInv, StartsUp PROVE ClientIInv'
<1>1. /\ client \in ClientStates /\ client.at = "loading" /\ ~client.draining /\ ~client.retiring
      /\ UNCHANGED <<sent, fence, report>>
  BY DEF StartsUp, ClientIInv, ClientTyped, Ordered, Books
<1>2. CASE UNCHANGED Outside
           /\ client' \in {[client EXCEPT !.at = "idle"],
                           [client EXCEPT !.at = "idle", !.verified = TRUE, !.trusted = TRUE,
                                          !.native = child.native]}
  <2>1. /\ client' \in ClientStates /\ client'.at = "idle" /\ client'.process = client.process
        /\ client'.pending = client.pending /\ client'.discard = client.discard
        /\ client'.held = client.held /\ client'.camera = client.camera
        /\ client'.draining = client.draining /\ client'.retiring = client.retiring
    <3>1. child.native \in BOOLEAN
      BY DEF ClientIInv, ClientTyped, ChildStates
    <3> QED
      BY <1>1, <1>2, <3>1 DEF ClientStates
  <2> QED
    BY <1>1, <1>2, <2>1 DEF ClientIInv, ClientTyped, RequestCurrent, OnTheBooks, Ordered,
       DrainSaves, NoStaleMotion, RetirementSound, Outside
<1>3. CASE Closing(client, FALSE, LAMBDA o : [Neutral(o.client) EXCEPT !.at = "idle"])
  <2>1. PICK o \in Closed(client) :
          /\ client' = [Neutral(o.client) EXCEPT !.at = "idle"] /\ child' = o.child
          /\ stuck' = IF o.raised THEN stuck + 1 ELSE stuck
    BY <1>3 DEF Closing
  <2>2. IF AsksStop(client) THEN Told(client, "stop", FALSE) ELSE UNCHANGED <<told, heedless>>
    BY <1>3 DEF Closing
  <2>3. o.client \in ClientStates
    BY <1>1, ClosedClient
  <2>4. SameStage(Neutral(o.client), o.client) /\ SameStage(client, client)
        /\ Neutral(o.client).pending = o.client.pending /\ Neutral(o.client).discard = o.client.discard
        /\ Neutral(o.client).held = None /\ Neutral(o.client).camera = None
    BY <1>1, <2>3, NeutralFields DEF SameStage
  <2>5. client.pending # None /\ ~client.discard => client.pending > fence
    BY <1>1 DEF ClientIInv, RequestCurrent
  <2> QED
    BY <1>1, <2>1, <2>2, <2>4, <2>5, ClosingKeeps
<1> QED
  BY <1>2, <1>3 DEF StartsUp

\* An answer has been read.
LEMMA ConsumedFields ==
  ASSUME client \in ClientStates
  PROVE  /\ SameStage(Consumed, client) /\ Consumed.pending = None
         /\ Consumed.held = client.held /\ Consumed.camera = client.camera
  BY DEF Consumed, SameStage, ClientStates, None

\* What act() does with an answer, or without one, presses only what was asked
\* for after the last release.
LEMMA CalmActKeeps ==
  ASSUME ClientIInv, ~client.retiring, SameStage(client', client),
         client'.pending # None /\ ~client'.discard => client'.pending > fence,
         client'.held # None => client'.held > fence,
         client'.camera # None => client'.camera > fence,
         child' \in ChildStates, child'.up = child.up, child'.normal = child.normal,
         sent' \in {sent, sent + 1}, UNCHANGED <<told, heedless, stuck, fence, report>>
  PROVE  ClientIInv'
<1>1. ClientTyped' /\ RequestCurrent' /\ OnTheBooks'
  BY DEF ClientIInv, ClientTyped, RequestCurrent, OnTheBooks, SameStage
<1>2. Ordered' /\ DrainSaves' /\ NoStaleMotion' /\ RetirementSound'
  BY DEF ClientIInv, Ordered, DrainSaves, NoStaleMotion, RetirementSound, SameStage
<1> QED
  BY <1>1, <1>2 DEF ClientIInv

\* Reading a line leaves the worker as it is.
LEMMA ReadsFields ==
  ASSUME child \in ChildStates, child.outbox # <<>>, Reads
  PROVE  /\ child' \in ChildStates /\ child'.up = child.up /\ child'.normal = child.normal
         /\ child'.last = child.last /\ child'.saved = child.saved
         /\ UNCHANGED <<told, heedless, stuck>>
<1>1. Tail(child.outbox) \in Seq(Replies)
  BY DEF ChildStates
<1> QED
  BY <1>1 DEF Reads, ChildStates

\* An answer of a discarded request is read and thrown away.
LEMMA ActDiscardsKeeps == ASSUME ClientIInv, ActDiscards PROVE ClientIInv'
<1>1. client \in ClientStates /\ child \in ChildStates /\ ~client.retiring
  BY DEF ActDiscards, Acting, MayAct, ClientIInv, ClientTyped
<1>2. /\ SameStage(client', client) /\ client'.pending = None
      /\ client'.held = client.held /\ client'.camera = client.camera
  <2>1. client' = [Consumed EXCEPT !.discard = FALSE]
    BY DEF ActDiscards
  <2> QED
    BY <1>1, <2>1, ConsumedFields DEF SameStage, ClientStates
<1>3. UNCHANGED <<sent, fence, report>> /\ Reads /\ child.outbox # <<>>
  BY DEF ActDiscards, Books, Answered
<1> QED
  BY <1>1, <1>2, <1>3, ReadsFields, CalmActKeeps DEF ClientIInv, NoStaleMotion

\* An answer may press only if nothing was released since it was asked for.
LEMMA ActOutputsKeeps == ASSUME ClientIInv, ActOutputs PROVE ClientIInv'
<1>1. /\ client \in ClientStates /\ child \in ChildStates /\ ~client.retiring
      /\ client.pending # None /\ ~client.discard /\ client.pending > fence
  BY DEF ActOutputs, Acting, MayAct, Answered, ClientIInv, ClientTyped, RequestCurrent
<1>2. UNCHANGED <<sent, fence, report>> /\ Reads /\ child.outbox # <<>>
  BY DEF ActOutputs, Books, Answered
<1>3. Consumed \in ClientStates
  BY <1>1, ConsumedFields DEF SameStage
<1>4. CASE client' = Neutral(Consumed)
  BY <1>1, <1>2, <1>3, <1>4, ConsumedFields, NeutralFields, ReadsFields, CalmActKeeps DEF SameStage
<1>5. ASSUME NEW keys \in {None, client.pending}, NEW camera \in {None, client.pending},
             client' = [Consumed EXCEPT !.held = keys, !.camera = camera]
      PROVE  ClientIInv'
  <2>1. keys \in Nat /\ camera \in Nat
    BY <1>1 DEF ClientStates, None
  <2>2. /\ SameStage(client', client) /\ client'.pending = None
        /\ client'.held = keys /\ client'.camera = camera
    BY <1>1, <1>3, <1>5, <2>1, ConsumedFields DEF SameStage, ClientStates
  <2> QED
    BY <1>1, <1>2, <2>2, ReadsFields, CalmActKeeps
<1> QED
  BY <1>4, <1>5 DEF ActOutputs

\* A failed inference costs the worker or nothing, and presses nothing.
LEMMA ActFailsKeeps == ASSUME ClientIInv, ActFails PROVE ClientIInv'
<1>1. /\ client \in ClientStates /\ child \in ChildStates /\ ~client.retiring
      /\ child.outbox # <<>> /\ UNCHANGED Books
  BY DEF ActFails, Acting, MayAct, Answered, ClientIInv, ClientTyped
<1>2. SameStage(Consumed, client) /\ Consumed \in ClientStates /\ Consumed.pending = None
      /\ Consumed.held = client.held /\ Consumed.camera = client.camera
  BY <1>1, ConsumedFields DEF SameStage
<1>3. CASE client' = Neutral(Consumed) /\ Reads
  BY <1>1, <1>2, <1>3, NeutralFields, ReadsFields, CalmActKeeps DEF SameStage, Books
<1>4. CASE Recover(Consumed)
  BY <1>1, <1>2, <1>4, RecoverKeeps
<1> QED
  BY <1>3, <1>4 DEF ActFails

\* While it waits, it keeps what it holds or lets go.
LEMMA ActWaitsKeeps == ASSUME ClientIInv, ActWaits PROVE ClientIInv'
<1>1. /\ client \in ClientStates /\ child \in ChildStates /\ ~client.retiring
      /\ SameStage(client, client) /\ UNCHANGED Books
      /\ client.pending # None /\ ~client.discard => client.pending > fence
  BY DEF ActWaits, Acting, MayAct, ClientIInv, ClientTyped, RequestCurrent, SameStage
<1>2. ASSUME NEW keys \in {client.held, None}, NEW camera \in {client.camera, None},
             client' = [client EXCEPT !.held = keys, !.camera = camera], UNCHANGED Outside
      PROVE  ClientIInv'
  <2>1. keys \in Nat /\ camera \in Nat
    BY <1>1 DEF ClientStates, None
  <2>2. /\ SameStage(client', client) /\ client'.held = keys /\ client'.camera = camera
        /\ client'.pending = client.pending /\ client'.discard = client.discard
    BY <1>1, <1>2, <2>1 DEF SameStage, ClientStates
  <2> QED
    BY <1>1, <1>2, <2>2, CalmActKeeps DEF Outside, Books, ClientIInv, NoStaleMotion
<1>3. CASE client' = Neutral(client) /\ UNCHANGED Outside
  BY <1>1, <1>3, NeutralFields, CalmActKeeps DEF Outside, Books
<1>4. CASE Recover(client)
  BY <1>1, <1>4, RecoverKeeps
<1> QED
  BY <1>2, <1>3, <1>4 DEF ActWaits

\* A new request is newer than every release.
LEMMA ActSubmitsKeeps == ASSUME ClientIInv, ActSubmits PROVE ClientIInv'
<1>1. /\ client \in ClientStates /\ child \in ChildStates /\ ~client.retiring
      /\ client.pending = None /\ UNCHANGED <<fence, report>>
      /\ sent \in Nat /\ fence \in 0 .. sent
  BY DEF ActSubmits, Acting, MayAct, ClientIInv, ClientTyped
<1>2. ASSUME NEW keys \in {client.held, None},
             client' = [client EXCEPT !.camera = None, !.held = keys], UNCHANGED <<Outside, sent>>
      PROVE  ClientIInv'
  <2>1. keys \in Nat /\ None \in Nat
    BY <1>1 DEF ClientStates, None
  <2>2. /\ SameStage(client', client) /\ client'.held = keys /\ client'.camera = None
        /\ client'.pending = client.pending
    BY <1>1, <1>2, <2>1 DEF SameStage, ClientStates
  <2> QED
    BY <1>1, <1>2, <2>2, CalmActKeeps DEF Outside, ClientIInv, NoStaleMotion
<1>3. CASE /\ sent' = sent + 1
           /\ client' = [client EXCEPT !.pending = sent + 1, !.last = sent + 1, !.late = FALSE]
           /\ child' = [child EXCEPT !.inbox = Append(@, [do |-> "infer", id |-> sent + 1])]
           /\ UNCHANGED <<told, heedless, stuck>>
  <2>1. sent + 1 \in Nat /\ sent + 1 > fence
    BY <1>1
  <2>2. /\ SameStage(client', client) /\ client'.pending = sent + 1
        /\ client'.held = client.held /\ client'.camera = client.camera
    BY <1>1, <1>3, <2>1 DEF SameStage, ClientStates
  <2>3. Append(child.inbox, [do |-> "infer", id |-> sent + 1]) \in Seq(Orders)
    BY <1>1, <2>1 DEF ChildStates, Orders
  <2>4. child' \in ChildStates /\ child'.up = child.up /\ child'.normal = child.normal
    BY <1>1, <1>3, <2>3 DEF ChildStates
  <2> QED
    BY <1>1, <1>3, <2>1, <2>2, <2>4, CalmActKeeps DEF ClientIInv, NoStaleMotion
<1>4. CASE Recover([client EXCEPT !.trusted = FALSE]) /\ UNCHANGED sent
  <2> DEFINE c == [client EXCEPT !.trusted = FALSE]
  <2>1. SameStage(c, client) /\ c.pending = None /\ c.held = client.held /\ c.camera = client.camera
    BY <1>1 DEF SameStage, ClientStates
  <2> HIDE DEF c
  <2>2. Recover(c)
    BY <1>4 DEF c
  <2> QED
    BY <1>1, <1>4, <2>1, <2>2, RecoverKeeps DEF Books
<1> QED
  BY <1>2, <1>3, <1>4 DEF ActSubmits

\* A reset fences what was asked before it, also while the client retires.
LEMMA ResetKeeps == ASSUME ClientIInv, Reset PROVE ClientIInv'
<1>1. /\ client \in ClientStates /\ UNCHANGED <<sent, report>> /\ fence' = sent
      /\ sent \in Nat
  BY DEF Reset, ClientIInv, ClientTyped
<1> DEFINE c == Retired(client)
<1>2. /\ SameStage(c, client) /\ c \in ClientStates /\ (c.pending # None => c.discard)
      /\ c.held = client.held /\ c.camera = client.camera
  BY <1>1, RetiredFields DEF SameStage
<1>3. CASE (client.draining \/ client.retiring) /\ client' = Neutral(client) /\ UNCHANGED Outside
  <2>1. client.retiring
    BY <1>3 DEF ClientIInv, Ordered
  <2> QED
    BY <1>1, <1>3, <2>1, NeutralFields DEF SameStage, Outside, ClientIInv, ClientTyped,
       RequestCurrent, OnTheBooks, Ordered, DrainSaves, NoStaleMotion, RetirementSound
<1>4. CASE ~client.retiring /\ client' = Neutral(c) /\ UNCHANGED Outside
  BY <1>1, <1>2, <1>4, NeutralFields DEF SameStage, Outside, ClientIInv, ClientTyped,
     RequestCurrent, OnTheBooks, Ordered, DrainSaves, NoStaleMotion, RetirementSound
<1>5. CASE ~client.retiring /\ Closing([c EXCEPT !.trusted = FALSE], FALSE,
                                        LAMBDA o : Neutral(o.client))
  <2> DEFINE d == [c EXCEPT !.trusted = FALSE]
  <2>1. SameStage(d, client) /\ d \in ClientStates /\ (d.pending # None => d.discard)
    <3> HIDE DEF c
    <3> QED
      BY <1>2 DEF SameStage, ClientStates
  <2> HIDE DEF d
  <2>2. PICK o \in Closed(d) :
          /\ client' = Neutral(o.client) /\ child' = o.child
          /\ stuck' = IF o.raised THEN stuck + 1 ELSE stuck
    BY <1>5 DEF Closing, d
  <2>3. IF AsksStop(d) THEN Told(d, "stop", FALSE) ELSE UNCHANGED <<told, heedless>>
    BY <1>5 DEF Closing, d
  <2>4. /\ SameStage(client', o.client) /\ client'.held = None /\ client'.camera = None
        /\ client'.pending = o.client.pending /\ client'.discard = o.client.discard
    BY <2>1, <2>2, ClosedClient, NeutralFields
  <2> QED
    BY <1>1, <1>5, <2>1, <2>2, <2>3, <2>4, ClosingKeeps
<1> QED
  BY <1>3, <1>4, <1>5 DEF Reset

Drained == \E i \in DOMAIN told : told[i] = "drain"

\* However a retirement ends, what it says of the worker is so.
LEMMA FinishesKeep ==
  ASSUME ClientIInv, NEW c \in ClientStates, c.retiring, c.process = client.process,
         NEW released \in BOOLEAN, NEW clean \in BOOLEAN, Finishes(c, released, clean),
         AsksStop(c) => released, Drained => c.draining, clean /\ Drained => child.normal,
         c.held # None => c.held > fence', c.camera # None => c.camera > fence',
         fence' \in {fence, sent}, sent' = sent
  PROVE  ClientIInv'
<1>1. PICK o \in Closed(c) :
          /\ client' = [o.client EXCEPT !.at = "idle", !.draining = TRUE]
          /\ child' = o.child
          /\ stuck' = IF o.raised THEN stuck + 1 ELSE stuck
          /\ report' = IF clean /\ ~o.raised /\ (c.process => o.child.normal)
                       THEN "complete" ELSE "incomplete"
  BY DEF Finishes
<1>2. IF AsksStop(c) THEN Told(c, "stop", released) ELSE UNCHANGED <<told, heedless>>
  BY DEF Finishes
<1>3. /\ client' \in ClientStates /\ client'.at = "idle" /\ client'.draining /\ client'.retiring
      /\ client'.process = o.client.process
      /\ client'.held = c.held /\ client'.camera \in {c.camera, None}
  <2>1. o.client \in ClientStates /\ o.client.retiring /\ o.client.held = c.held
        /\ o.client.camera \in {c.camera, None}
    BY ClosedClient
  <2> QED
    BY <1>1, <2>1 DEF ClientStates
<1>4. child \in ChildStates /\ (child.up => ~child.normal)
  BY DEF ClientIInv, ClientTyped, OnTheBooks
<1>5. /\ child' \in ChildStates
      /\ child'.up => o.raised /\ client'.process /\ ~child'.normal
      /\ o.raised \/ ~client'.process
      /\ child'.normal => AsksStop(c) \/ child' = child
  <2>1. CASE child.up /\ o.child = Ends(child)
    BY <1>1, <1>3, <1>4, <2>1, EndsFields, ClosedClient
  <2>2. CASE child.up /\ AsksStop(c) /\ o.child = Exits(child)
    BY <1>1, <1>3, <1>4, <2>2, EndsFields, ClosedClient
  <2>3. CASE ~child.up /\ o.child = child
    BY <1>1, <1>3, <1>4, <2>3, ClosedClient
  <2>4. CASE child.up /\ c.process /\ o.raised = TRUE /\ o.child = child
    BY <1>1, <1>3, <1>4, <2>4, ClosedClient
  <2> QED
    BY <2>1, <2>2, <2>3, <2>4, ClosedOutcomes
<1>6. /\ told' \in Seq({"stop", "drain"}) /\ ~heedless' /\ heedless' \in BOOLEAN
      /\ AsksStop(c) => ~Drained'
      /\ ~AsksStop(c) => told' = told
  <2>1. CASE AsksStop(c)
    <3>1. ~Drained
      BY <2>1 DEF AsksStop
    <3>2. told' = Append(told, "stop") /\ heedless' = (heedless \/ (c.retiring /\ ~released))
      BY <1>2, <2>1 DEF Told
    <3> QED
      BY <2>1, <3>1, <3>2, StopTold DEF ClientIInv, ClientTyped, RetirementSound, Drained
  <2>2. CASE ~AsksStop(c)
    BY <1>2, <2>2 DEF ClientIInv, ClientTyped, RetirementSound
  <2> QED
    BY <2>1, <2>2
<1>7. stuck' \in Nat /\ fence' \in 0 .. sent /\ sent' \in Nat
  BY <1>1, ClosedClient DEF ClientIInv, ClientTyped
<1>8. ClientTyped' /\ RequestCurrent' /\ OnTheBooks' /\ Ordered' /\ NoStaleMotion'
  BY <1>1, <1>3, <1>5, <1>6, <1>7
  DEF ClientTyped, RequestCurrent, OnTheBooks, Ordered, NoStaleMotion
<1>9. Drained' /\ child'.normal => child'.saved = child'.last
  <2> SUFFICES ASSUME Drained', child'.normal PROVE child'.saved = child'.last
    OBVIOUS
  <2>1. child' = child /\ Drained
    BY <1>5, <1>6 DEF Drained
  <2> QED
    BY <2>1 DEF Drained, ClientIInv, DrainSaves
<1>10. DrainSaves'
  BY <1>3, <1>9 DEF DrainSaves, Drained
<1>11. RetirementSound'
  <2>1. \A i \in DOMAIN told' : told'[i] = "drain" => i = Len(told')
    BY <1>6 DEF Drained, ClientIInv, RetirementSound
  <2>2. ASSUME report' = "complete" PROVE ~client'.process /\ ~child'.up
    BY <1>1, <1>5, <2>2
  <2>3. ASSUME report' = "complete", told' # <<>>, told'[Len(told')] = "drain"
        PROVE  child'.saved = child'.last
    <3>1. Drained'
      BY <1>6, <2>3 DEF Drained
    <3>2. told' = told /\ Drained
      BY <1>6, <3>1 DEF Drained
    <3>3. child.normal /\ ~child.up
      BY <1>1, <1>4, <2>3, <3>2
    <3>4. child'.normal
      BY <1>1, <3>3, ClosedOutcomes
    <3> QED
      BY <1>9, <3>1, <3>4
  <2> QED
    BY <1>6, <2>1, <2>2, <2>3 DEF RetirementSound
<1> QED
  BY <1>8, <1>10, <1>11 DEF ClientIInv

\* The end of the client: at once, or after the worker has drained.
LEMMA RetireKeeps == ASSUME ClientIInv, NEW released \in BOOLEAN, Retire(released) PROVE ClientIInv'
<1> DEFINE c == [client EXCEPT !.retiring = TRUE]
           n == Neutral(Retired(c))
<1>1. /\ client \in ClientStates /\ child \in ChildStates /\ sent' = sent /\ sent \in Nat
      /\ ~client.retiring /\ ~client.draining /\ client.at = "idle" /\ report = "none"
      /\ ~Drained
  BY DEF Retire, ClientIInv, ClientTyped, Ordered, DrainSaves, Drained
<1>2. /\ c \in ClientStates /\ c.retiring /\ c.process = client.process /\ c.at = "idle"
      /\ c.held = client.held /\ c.camera = client.camera /\ c.draining = client.draining
      /\ c.last \in Nat
  BY <1>1 DEF ClientStates
<1> HIDE DEF c
<1>3. /\ n \in ClientStates /\ n.retiring /\ n.process = client.process /\ n.at = "idle"
      /\ n.held = None /\ n.camera = None
  BY <1>2, RetiredFields, NeutralFields DEF SameStage
<1> HIDE DEF n
<1>4. client.held # None => client.held > fence
  BY DEF ClientIInv, NoStaleMotion
<1>5. client.camera # None => client.camera > fence
  BY DEF ClientIInv, NoStaleMotion
<1>6. CASE ~c.process /\ Finishes(c, released, TRUE) /\ UNCHANGED fence
  BY <1>1, <1>2, <1>4, <1>5, <1>6, FinishesKeep DEF AsksStop
<1>7. CASE Finishes([c EXCEPT !.draining = TRUE], released, FALSE) /\ UNCHANGED fence
  <2> DEFINE d == [c EXCEPT !.draining = TRUE]
  <2>1. /\ d \in ClientStates /\ d.retiring /\ d.process = client.process /\ d.draining
        /\ d.held = client.held /\ d.camera = client.camera
    BY <1>2 DEF ClientStates
  <2>2. Finishes(d, released, FALSE)
    BY <1>7
  <2> HIDE DEF d
  <2> QED
    BY <1>1, <1>4, <1>5, <1>7, <2>1, <2>2, FinishesKeep DEF AsksStop
<1>8. CASE released /\ fence' = sent /\ Finishes(n, released, TRUE)
  BY <1>1, <1>3, <1>8, FinishesKeep
<1>9. CASE released /\ fence' = sent /\ Finishes([n EXCEPT !.draining = TRUE], released, FALSE)
  <2> DEFINE d == [n EXCEPT !.draining = TRUE]
  <2>1. /\ d \in ClientStates /\ d.retiring /\ d.process = client.process /\ d.draining
        /\ d.held = None /\ d.camera = None
    BY <1>3 DEF ClientStates
  <2>2. Finishes(d, released, FALSE)
    BY <1>9
  <2> HIDE DEF d
  <2> QED
    BY <1>1, <1>9, <2>1, <2>2, FinishesKeep
<1>10. CASE /\ released /\ fence' = sent /\ child.up
            /\ client' = [n EXCEPT !.at = "draining", !.draining = TRUE]
            /\ child' = [child EXCEPT !.inbox = Append(@, [do |-> "drain", id |-> c.last])]
            /\ Told(c, "drain", released)
            /\ UNCHANGED <<stuck, report>>
  <2>1. /\ client' \in ClientStates /\ client'.at = "draining" /\ client'.draining
        /\ client'.retiring /\ client'.process = client.process
        /\ client'.held = None /\ client'.camera = None
    BY <1>3, <1>10 DEF ClientStates
  <2>2. /\ child' \in ChildStates /\ child'.up = child.up /\ child'.normal = child.normal
    <3>1. Append(child.inbox, [do |-> "drain", id |-> c.last]) \in Seq(Orders)
      BY <1>1, <1>2 DEF ChildStates, Orders
    <3> QED
      BY <1>1, <1>10, <3>1 DEF ChildStates
  <2>3. ~child'.normal /\ (child'.up => client'.process)
    BY <1>10, <2>1, <2>2 DEF ClientIInv, OnTheBooks
  <2>4. /\ told' \in Seq({"stop", "drain"}) /\ ~heedless' /\ heedless' \in BOOLEAN
        /\ \A i \in DOMAIN told' : told'[i] = "drain" => i = Len(told')
    <3>1. told' = Append(told, "drain") /\ heedless' = (heedless \/ (c.retiring /\ ~released))
      BY <1>10 DEF Told
    <3>2. told \in Seq({"stop", "drain"}) /\ DOMAIN told = 1 .. Len(told) /\ Len(told) \in Nat
      BY DEF ClientIInv, ClientTyped
    <3>3. /\ told' \in Seq({"stop", "drain"}) /\ DOMAIN told' = 1 .. Len(told) + 1
          /\ Len(told') = Len(told) + 1
          /\ \A i \in 1 .. Len(told) : told'[i] = told[i]
      BY <3>1, <3>2
    <3>4. \A i \in DOMAIN told' : told'[i] = "drain" => i = Len(told')
      BY <1>1, <3>2, <3>3 DEF Drained
    <3>5. ~heedless
      BY DEF ClientIInv, RetirementSound
    <3> QED
      BY <1>10, <3>1, <3>3, <3>4, <3>5
  <2>5. ClientTyped' /\ RequestCurrent' /\ OnTheBooks' /\ Ordered' /\ NoStaleMotion'
    BY <1>1, <1>10, <2>1, <2>2, <2>3, <2>4
    DEF ClientIInv, ClientTyped, RequestCurrent, OnTheBooks, Ordered, NoStaleMotion
  <2>6. DrainSaves' /\ RetirementSound'
    BY <1>1, <1>10, <2>1, <2>3, <2>4 DEF DrainSaves, RetirementSound
  <2> QED
    BY <2>5, <2>6 DEF ClientIInv
<1> QED
  BY <1>1, <1>6, <1>7, <1>8, <1>9, <1>10 DEF Retire, c, n

\* While the worker drains, its last answer is only read.
LEMMA DrainReadsKeeps == ASSUME ClientIInv, DrainReads PROVE ClientIInv'
<1>1. /\ client \in ClientStates /\ child \in ChildStates /\ client.retiring
      /\ child.outbox # <<>> /\ client' = Consumed /\ Reads
      /\ UNCHANGED <<sent, fence, report>>
  BY DEF DrainReads, ClientIInv, ClientTyped, Ordered, Books
<1>2. /\ child' \in ChildStates /\ child'.up = child.up /\ child'.normal = child.normal
      /\ child'.last = child.last /\ child'.saved = child.saved
      /\ UNCHANGED <<told, heedless, stuck>>
  BY <1>1, ReadsFields
<1>3. SameStage(client', client) /\ client'.held = client.held /\ client'.camera = client.camera
  BY <1>1, ConsumedFields
<1>4. ClientTyped' /\ RequestCurrent' /\ OnTheBooks' /\ Ordered' /\ NoStaleMotion'
  BY <1>1, <1>2, <1>3 DEF ClientIInv, ClientTyped, RequestCurrent, OnTheBooks, Ordered,
     NoStaleMotion, SameStage
<1>5. DrainSaves' /\ RetirementSound'
  BY <1>1, <1>2, <1>3 DEF ClientIInv, DrainSaves, RetirementSound, SameStage
<1> QED
  BY <1>4, <1>5 DEF ClientIInv

\* The drain is over when the worker has exited by itself, or it failed.
LEMMA DrainEndsKeeps == ASSUME ClientIInv, DrainEnds PROVE ClientIInv'
<1>1. /\ client \in ClientStates /\ client.retiring /\ client.draining
      /\ UNCHANGED <<sent, fence>> /\ ~AsksStop(client)
      /\ client.held # None => client.held > fence
      /\ client.camera # None => client.camera > fence
  BY DEF DrainEnds, ClientIInv, ClientTyped, Ordered, NoStaleMotion, AsksStop
<1>2. CASE child.normal /\ Finishes(client, TRUE, TRUE)
  BY <1>1, <1>2, FinishesKeep
<1>3. CASE Finishes(client, TRUE, FALSE)
  BY <1>1, <1>3, FinishesKeep
<1> QED
  BY <1>2, <1>3 DEF DrainEnds

\* The worker answers, saves or dies; what it was told stays told.
LEMMA WorkerWorksKeeps == ASSUME ClientIInv, WorkerWorks PROVE ClientIInv'
<1>1. /\ client \in ClientStates /\ child \in ChildStates /\ child.up /\ ~child.normal
      /\ UNCHANGED <<client, told, heedless, stuck, sent, fence, report>>
  BY DEF WorkerWorks, ClientIInv, ClientTyped, OnTheBooks, Books
<1>2. child' \in ChildStates /\ (child'.normal => ~child'.up /\ child'.saved = child'.last)
  <2>1. CASE child' = [child EXCEPT !.ready = TRUE]
    BY <1>1, <2>1 DEF ChildStates
  <2>2. CASE child' = Ends(child)
    BY <1>1, <2>2, EndsFields
  <2>3. CASE child.inbox # <<>> /\ Head(child.inbox).do = "infer"
             /\ \E ok \in BOOLEAN : Answer(Head(child.inbox).id, ok)
    <3>1. PICK ok \in BOOLEAN : Answer(Head(child.inbox).id, ok)
      BY <2>3
    <3>2. Tail(child.inbox) \in Seq(Orders) /\ Head(child.inbox) \in Orders
      BY <1>1, <2>3 DEF ChildStates
    <3>3. Head(child.inbox).id \in Nat
      BY <3>2 DEF Orders
    <3>4. Append(child.outbox, [id |-> Head(child.inbox).id, ok |-> ok]) \in Seq(Replies)
      BY <1>1, <3>3 DEF ChildStates, Replies
    <3> QED
      BY <1>1, <3>1, <3>2, <3>3, <3>4 DEF Answer, ChildStates
  <2>4. CASE child' = [Exits(child) EXCEPT !.saved = child.last,
                          !.outbox = Append(@, [id |-> child.last, ok |-> TRUE])]
    <3> DEFINE w == Exits(child)
    <3>1. w \in ChildStates /\ ~w.up /\ w.normal /\ w.last = child.last
      BY <1>1, EndsFields
    <3>2. child.last \in Nat /\ w.outbox \in Seq(Replies)
      BY <1>1, <3>1 DEF ChildStates
    <3>3. child' = [w EXCEPT !.saved = child.last,
                             !.outbox = Append(@, [id |-> child.last, ok |-> TRUE])]
      BY <2>4
    <3> HIDE DEF w
    <3>4. Append(w.outbox, [id |-> child.last, ok |-> TRUE]) \in Seq(Replies)
      BY <3>2 DEF Replies
    <3> QED
      BY <3>1, <3>2, <3>3, <3>4 DEF ChildStates
  <2>5. child.inbox # <<>> => Head(child.inbox).do \in {"infer", "drain"}
    <3>1. child.inbox # <<>> => Head(child.inbox) \in Orders
      BY <1>1 DEF ChildStates
    <3> QED
      BY <3>1 DEF Orders
  <2> QED
    BY <2>1, <2>2, <2>3, <2>4, <2>5 DEF WorkerWorks
<1>3. report # "complete" /\ (child'.up => client.process)
  BY <1>1 DEF ClientIInv, OnTheBooks, RetirementSound
<1>4. ClientTyped' /\ RequestCurrent' /\ OnTheBooks' /\ Ordered' /\ NoStaleMotion'
  BY <1>1, <1>2, <1>3 DEF ClientIInv, ClientTyped, RequestCurrent, OnTheBooks, Ordered, NoStaleMotion
<1>5. DrainSaves' /\ RetirementSound'
  BY <1>1, <1>2, <1>3 DEF ClientIInv, DrainSaves, RetirementSound
<1> QED
  BY <1>4, <1>5 DEF ClientIInv

\* Before the first worker nothing is asked, held or told.
LEMMA ClientInit == ASSUME PolicyInit PROVE ClientIInv
<1>1. /\ client \in ClientStates /\ client.at = "idle" /\ client.held = None
      /\ client.camera = None /\ client.pending = None /\ ~client.draining /\ ~client.retiring
  BY DEF PolicyInit, Fresh, ClientStates, None
<1>2. child \in ChildStates /\ ~child.up
  <2>1. <<>> \in Seq(Orders) /\ <<>> \in Seq(Replies)
    OBVIOUS
  <2> QED
    BY <2>1 DEF PolicyInit, NoChild, ChildStates, None
<1>3. told \in Seq({"stop", "drain"}) /\ ~Drained
  <2>1. <<>> \in Seq({"stop", "drain"}) /\ ~\E i \in DOMAIN <<>> : <<>>[i] = "drain"
    OBVIOUS
  <2> QED
    BY <2>1 DEF PolicyInit, Drained
<1>4. /\ sent \in Nat /\ fence \in 0 .. sent /\ stuck \in Nat
      /\ report = "none" /\ fence = 0 /\ sent = 0
  BY DEF PolicyInit
<1>5. heedless = FALSE /\ heedless \in BOOLEAN
  BY Zenon DEF PolicyInit
<1>6. ClientTyped
  BY <1>1, <1>2, <1>3, <1>4, <1>5 DEF ClientTyped
<1>7. RequestCurrent /\ OnTheBooks /\ Ordered /\ NoStaleMotion
  BY <1>1, <1>2, <1>4 DEF RequestCurrent, OnTheBooks, Ordered, NoStaleMotion
<1>8. DrainSaves /\ RetirementSound
  BY <1>3, <1>4, <1>5 DEF DrainSaves, RetirementSound, Drained
<1> QED
  BY <1>6, <1>7, <1>8 DEF ClientIInv

\* Every step of the client and its worker keeps the invariant.
LEMMA ClientStep == ASSUME ClientIInv, [PolicyNext]_policyVars PROVE ClientIInv'
<1>1. CASE PolicyNext
  BY <1>1, SpawnKeeps, StartsUpKeeps, QuietCallsKeep, ActDiscardsKeeps, ActOutputsKeeps,
     ActFailsKeeps, ActWaitsKeeps, ActSubmitsKeeps, ResetKeeps, RetireKeeps, DrainReadsKeeps,
     DrainEndsKeeps, WorkerWorksKeeps DEF PolicyNext
<1>2. CASE UNCHANGED policyVars
  BY <1>2 DEF policyVars, ClientIInv, ClientTyped, RequestCurrent, OnTheBooks, Ordered, DrainSaves,
     NoStaleMotion, RetirementSound
<1> QED
  BY <1>1, <1>2

\* NoStaleMotion and RetirementSound hold for every number of inferences,
\* worker starts and workers that survive their SIGKILL (policy_service.py).
THEOREM ClientSafety == PolicySpec => []ClientSound
<1>1. PolicyInit => ClientIInv
  BY ClientInit
<1>2. ClientIInv /\ [PolicyNext]_policyVars => ClientIInv'
  BY ClientStep
<1>3. ClientIInv => ClientSound
  BY DEF ClientIInv, ClientSound
<1> QED
  BY <1>1, <1>2, <1>3, PTL DEF PolicySpec

(***************************************************************************)
(* The router.                                                             *)
(***************************************************************************)
RouterStates ==
  [retiring : BOOLEAN, deferred : BOOLEAN, warmed : SUBSET Policies, failed : SUBSET Policies,
   active : Policies, level : Levels \cup {NoLevel}, watching : BOOLEAN,
   skipped : SUBSET Policies, complete : BOOLEAN]
MotorStates ==
  [at : {"tick", "binds", "loads", "waits", "fenced", "retires", "over"},
   level : Levels \cup {NoLevel}, todo : Seq(Policies)]

RouterTyped ==
  /\ router \in RouterStates /\ motor \in MotorStates
  /\ owner \in [Policies -> {"none", "thread", "motor"}] /\ inside \subseteq Policies
  /\ worker \in [Policies -> {"none", "loading", "up", "gone"}]

Members(s) == {s[i] : i \in DOMAIN s}

\* What was loaded, or failed to, is never loaded again.
Settled(p) == p \in router.warmed \cup router.failed
LoadedOnce == \A p \in Policies : Warming(p) => ~Settled(p)

\* Who acts or observes has been loaded.
BoundIsSettled ==
  router.level # NoLevel =>
    /\ Settled(router.active)
    /\ router.watching => WatcherOf[router.level] # NoPolicy /\ Settled(WatcherOf[router.level])

\* While the motor thread binds, nobody else loads what it still needs, and
\* what it no longer needs is settled.
Binding ==
  motor.at \in {"binds", "loads"} =>
    /\ \A p \in Members(motor.todo) :
         owner[p] # "none" => motor.at = "loads" /\ p = Head(motor.todo) /\ owner[p] = "motor"
    /\ motor.level # NoLevel =>
         \A p \in Experts(motor.level) : p \in Members(motor.todo) \/ Settled(p)

\* The motor thread loads what it has marked as its own.
MotorOwns ==
  /\ motor.at = "loads" => motor.todo # <<>> /\ owner[Head(motor.todo)] = "motor"
  /\ router.retiring <=> motor.at \in {"fenced", "retires", "over"}

\* A retirement that went on leaves alone whoever is still loading.
LateAreSkipped ==
  motor.at \in {"retires", "over"} => \A p \in Policies : Warming(p) => p \in router.skipped

RouterIInv ==
  /\ RouterTyped /\ LoadedOnce /\ BoundIsSettled /\ Binding /\ MotorOwns /\ LateAreSkipped
  /\ \A p \in inside : owner[p] = "thread" /\ worker[p] = "loading"
  /\ motor.at # "waits"
  /\ CompleteMeansGone

\* The rest of a sequence and its head make up the sequence.
LEMMA HeadAndTail ==
  ASSUME NEW s \in Seq(Policies), s # <<>>
  PROVE  /\ Tail(s) \in Seq(Policies) /\ Head(s) \in Policies /\ Head(s) \in Members(s)
         /\ \A p : p \in Members(s) <=> p = Head(s) \/ p \in Members(Tail(s))
<1>1. /\ Len(s) \in Nat \ {0} /\ DOMAIN s = 1 .. Len(s)
      /\ Tail(s) \in Seq(Policies) /\ DOMAIN Tail(s) = 1 .. Len(s) - 1
      /\ \A i \in 1 .. Len(s) - 1 : Tail(s)[i] = s[i + 1]
      /\ Head(s) = s[1] /\ s[1] \in Policies
  OBVIOUS
<1>2. ASSUME NEW p, p \in Members(s) PROVE p = Head(s) \/ p \in Members(Tail(s))
  <2>1. PICK i \in 1 .. Len(s) : p = s[i]
    BY <1>1, <1>2 DEF Members
  <2>2. CASE i = 1
    BY <1>1, <2>1, <2>2
  <2>3. CASE i # 1
    <3>1. i - 1 \in 1 .. Len(s) - 1 /\ Tail(s)[i - 1] = s[i]
      BY <1>1, <2>1, <2>3
    <3> QED
      BY <1>1, <2>1, <3>1 DEF Members
  <2> QED
    BY <2>2, <2>3
<1>3. ASSUME NEW p, p = Head(s) \/ p \in Members(Tail(s)) PROVE p \in Members(s)
  <2>1. CASE p = Head(s)
    BY <1>1, <2>1 DEF Members
  <2>2. CASE p \in Members(Tail(s))
    <3>1. PICK i \in 1 .. Len(s) - 1 : p = Tail(s)[i]
      BY <1>1, <2>2 DEF Members
    <3>2. i + 1 \in 1 .. Len(s) /\ s[i + 1] = p
      BY <1>1, <3>1
    <3> QED
      BY <1>1, <3>2 DEF Members
  <2> QED
    BY <1>3, <2>1, <2>2
<1> QED
  BY <1>1, <1>2, <1>3

\* An option needs its body, and its observer if it has one.
LEMMA NeededExperts ==
  ASSUME NEW l \in Levels
  PROVE  /\ Needed(l) \in Seq(Policies) /\ Needed(l) # <<>> /\ Experts(l) = Members(Needed(l))
         /\ Experts(l) = {BodyOf[l]} \cup (IF WatcherOf[l] = NoPolicy THEN {} ELSE {WatcherOf[l]})
         /\ Experts(l) \subseteq Policies
<1>1. BodyOf[l] \in Policies /\ (WatcherOf[l] # NoPolicy => WatcherOf[l] \in Policies)
  BY RouterAssumption
<1>2. CASE WatcherOf[l] = NoPolicy
  <2>1. Needed(l) = <<BodyOf[l]>>
    BY <1>1, <1>2 DEF Needed
  <2> QED
    BY <1>1, <1>2, <2>1 DEF Experts, Members
<1>3. CASE WatcherOf[l] # NoPolicy
  <2>1. Needed(l) = <<BodyOf[l]>> \o <<WatcherOf[l]>>
    BY <1>3 DEF Needed
  <2>2. /\ Needed(l) \in Seq(Policies) /\ Len(Needed(l)) = 2
        /\ Needed(l)[1] = BodyOf[l] /\ Needed(l)[2] = WatcherOf[l]
    BY <1>1, <1>3, <2>1
  <2>3. Needed(l) # <<>>
    <3>1. \A s \in Seq(Policies) : Len(s) = 2 => s # <<>>
      OBVIOUS
    <3> QED
      BY <2>2, <3>1
  <2>4. DOMAIN Needed(l) = 1 .. 2
    BY <2>2
  <2> QED
    BY <1>1, <1>3, <2>2, <2>3, <2>4 DEF Experts, Members
<1> QED
  BY <1>2, <1>3

\* A hint begins a load only of what is cold.
LEMMA HintedOwners ==
  ASSUME RouterTyped, NEW l \in Levels
  PROVE  /\ Hinted(l) \in [Policies -> {"none", "thread", "motor"}]
         /\ \A p \in Policies : \/ Hinted(l)[p] = owner[p]
                                \/ owner[p] = "none" /\ ~Settled(p) /\ Hinted(l)[p] = "thread"
  BY DEF Hinted, Cold, Settled, Warming, RouterTyped

\* Loading threads that begin while the motor thread is at rest.
LEMMA HintsKeep ==
  ASSUME RouterIInv, motor.at = "tick", UNCHANGED <<inside, worker>>,
         owner' \in [Policies -> {"none", "thread", "motor"}],
         \A p \in Policies : \/ owner'[p] = owner[p]
                             \/ owner[p] = "none" /\ ~Settled(p) /\ owner'[p] = "thread",
         router' \in {router, [router EXCEPT !.level = NoLevel, !.watching = FALSE]},
         motor' \in MotorStates, motor'.at \in {"tick", "binds"}, Binding'
  PROVE  RouterIInv'
<1>1. /\ router' \in RouterStates /\ router'.warmed = router.warmed
      /\ router'.failed = router.failed /\ router'.retiring = router.retiring
      /\ router'.active = router.active
      /\ router'.level # NoLevel => router'.level = router.level /\ router'.watching = router.watching
  <2>1. CASE router' = router
    BY <2>1 DEF RouterIInv, RouterTyped
  <2>2. CASE router' = [router EXCEPT !.level = NoLevel, !.watching = FALSE]
    BY <2>2 DEF RouterIInv, RouterTyped, RouterStates
  <2> QED
    BY <2>1, <2>2
<1>2. RouterTyped' /\ LoadedOnce'
  BY <1>1 DEF RouterIInv, RouterTyped, LoadedOnce, Warming, Settled
<1>3. BoundIsSettled'
  BY <1>1 DEF RouterIInv, BoundIsSettled, Settled
<1>4. MotorOwns' /\ LateAreSkipped' /\ motor'.at # "waits" /\ CompleteMeansGone'
  BY <1>1 DEF RouterIInv, MotorOwns, LateAreSkipped, CompleteMeansGone
<1>5. \A p \in inside' : owner'[p] = "thread" /\ worker'[p] = "loading"
  BY DEF RouterIInv, RouterTyped
<1> QED
  BY <1>2, <1>3, <1>4, <1>5 DEF RouterIInv

\* A warm-up that is asked for adds to what is warmed.
LEMMA RequestWarmKeeps ==
  ASSUME RouterIInv, NEW l \in Levels, RequestWarm(l) PROVE RouterIInv'
<1>1. motor.at = "tick" /\ motor' = motor /\ router' = router /\ motor' \in MotorStates
  BY DEF RequestWarm, Tick, RouterIInv, RouterTyped
<1>2. Binding'
  BY <1>1 DEF Binding
<1> QED
  BY <1>1, <1>2, HintedOwners, HintsKeep DEF RequestWarm, RouterIInv

\* Binding begins only if nobody else loads what the option needs.
LEMMA ActNewKeeps ==
  ASSUME RouterIInv, NEW l \in Levels, ActNew(l) PROVE RouterIInv'
<1>1. motor.at = "tick" /\ UNCHANGED <<inside, worker>>
  BY DEF ActNew, Tick
<1>2. /\ owner' \in [Policies -> {"none", "thread", "motor"}]
      /\ \A p \in Policies : \/ owner'[p] = owner[p]
                             \/ owner[p] = "none" /\ ~Settled(p) /\ owner'[p] = "thread"
  BY HintedOwners DEF ActNew, RouterIInv, RouterTyped
<1>3. CASE Unavailable(l, owner')
  <2>1. motor' = motor /\ router' = [router EXCEPT !.level = NoLevel, !.watching = FALSE]
    BY <1>3 DEF ActNew
  <2>2. Binding' /\ motor' \in MotorStates
    BY <1>1, <2>1 DEF Binding, RouterIInv, RouterTyped
  <2> QED
    BY <1>1, <1>2, <2>1, <2>2, HintsKeep
<1>4. CASE ~Unavailable(l, owner')
  <2>1. motor' = [at |-> "binds", level |-> l, todo |-> Needed(l)] /\ router' = router
    BY <1>4 DEF ActNew
  <2>2. motor' \in MotorStates /\ motor'.at = "binds" /\ motor'.level = l /\ motor'.todo = Needed(l)
    BY <2>1, NeededExperts DEF MotorStates
  <2>3. \A p \in Experts(l) : owner'[p] = "none"
    BY <1>4, NeededExperts DEF Unavailable
  <2>4. Binding'
    BY <2>2, <2>3, NeededExperts DEF Binding
  <2> QED
    BY <1>1, <1>2, <2>1, <2>2, <2>4, HintsKeep
<1> QED
  BY <1>3, <1>4

\* The next expert is there, or the motor thread begins to load it: no thread
\* has it.
LEMMA EnsureKeeps == ASSUME RouterIInv, Ensure PROVE RouterIInv'
<1> DEFINE p == Head(motor.todo)
<1>1. /\ motor.at = "binds" /\ motor.todo # <<>> /\ motor.todo \in Seq(Policies)
      /\ motor \in MotorStates /\ UNCHANGED <<router, inside>>
      /\ ~router.retiring
  BY DEF Ensure, RouterIInv, RouterTyped, MotorStates, MotorOwns
<1>2. /\ p \in Policies /\ p \in Members(motor.todo) /\ Tail(motor.todo) \in Seq(Policies)
      /\ \A q : q \in Members(motor.todo) <=> q = p \/ q \in Members(Tail(motor.todo))
  BY <1>1, HeadAndTail
<1>3. ~Warming(p)
  BY <1>1, <1>2 DEF RouterIInv, Binding, Warming
<1> HIDE DEF p
<1>4. CASE Settled(p) /\ motor' = [motor EXCEPT !.todo = Tail(@)] /\ UNCHANGED <<owner, worker>>
  <2>1. /\ motor' \in MotorStates /\ motor'.at = "binds" /\ motor'.level = motor.level
        /\ motor'.todo = Tail(motor.todo)
    BY <1>1, <1>2, <1>4 DEF MotorStates
  <2>2. Binding'
    BY <1>1, <1>2, <1>4, <2>1 DEF RouterIInv, Binding, Settled
  <2> QED
    BY <1>1, <1>4, <2>1, <2>2 DEF RouterIInv, RouterTyped, LoadedOnce, BoundIsSettled, MotorOwns,
       LateAreSkipped, CompleteMeansGone, Warming, Settled
<1>5. CASE /\ ~Settled(p) /\ motor' = [motor EXCEPT !.at = "loads"]
           /\ owner' = [owner EXCEPT ![p] = "motor"]
           /\ worker' = [worker EXCEPT ![p] = "loading"]
  <2>1. /\ motor' \in MotorStates /\ motor'.at = "loads" /\ motor'.level = motor.level
        /\ motor'.todo = motor.todo
    BY <1>1, <1>5 DEF MotorStates
  <2>2. Binding'
    BY <1>1, <1>2, <1>5, <2>1 DEF RouterIInv, RouterTyped, Binding, Settled, p
  <2>3. RouterTyped' /\ LoadedOnce' /\ BoundIsSettled'
    BY <1>1, <1>2, <1>5, <2>1 DEF RouterIInv, RouterTyped, LoadedOnce, BoundIsSettled, Warming, Settled
  <2>4. MotorOwns' /\ LateAreSkipped' /\ CompleteMeansGone'
    BY <1>1, <1>2, <1>5, <2>1 DEF RouterIInv, RouterTyped, MotorOwns, LateAreSkipped, CompleteMeansGone, p
  <2>5. p \notin inside
    BY <1>3 DEF RouterIInv, Warming
  <2>6. \A q \in inside' : owner'[q] = "thread" /\ worker'[q] = "loading"
    BY <1>1, <1>5, <2>5 DEF RouterIInv, RouterTyped
  <2> QED
    BY <2>1, <2>2, <2>3, <2>4, <2>6 DEF RouterIInv
<1> QED
  BY <1>3, <1>4, <1>5 DEF Ensure, Settled, p

\* The motor thread has loaded an expert, or failed to.
LEMMA MotorLoadedKeeps == ASSUME RouterIInv, MotorLoaded PROVE RouterIInv'
<1> DEFINE p == Head(motor.todo)
<1>1. /\ motor.at = "loads" /\ motor.todo # <<>> /\ motor.todo \in Seq(Policies)
      /\ motor \in MotorStates /\ UNCHANGED inside /\ ~router.retiring /\ owner[p] = "motor"
  BY DEF MotorLoaded, RouterIInv, RouterTyped, MotorStates, MotorOwns
<1>2. /\ p \in Policies /\ p \in Members(motor.todo) /\ Tail(motor.todo) \in Seq(Policies)
      /\ \A q : q \in Members(motor.todo) <=> q = p \/ q \in Members(Tail(motor.todo))
  BY <1>1, HeadAndTail
<1>3. PICK ok \in BOOLEAN :
          /\ router' = Noted(p, ok)
          /\ owner' = [owner EXCEPT ![p] = "none"]
          /\ worker' = [worker EXCEPT ![p] = IF ok THEN "up" ELSE "none"]
          /\ motor' = IF ok \/ (motor.level # NoLevel /\ p # BodyOf[motor.level])
                      THEN [motor EXCEPT !.at = "binds", !.todo = Tail(@)] ELSE Tick
  BY DEF MotorLoaded
<1> HIDE DEF p
<1>4. /\ router' \in RouterStates /\ router'.warmed \cup router'.failed = router.warmed \cup router.failed \cup {p}
      /\ router'.retiring = router.retiring /\ router'.active = router.active
      /\ router'.level = router.level /\ router'.watching = router.watching
      /\ router'.skipped = router.skipped
  BY <1>1, <1>2, <1>3 DEF Noted, RouterStates, RouterIInv, RouterTyped
<1>5. motor' \in MotorStates /\ motor'.at \in {"tick", "binds"}
      /\ (motor'.at = "binds" => motor'.level = motor.level /\ motor'.todo = Tail(motor.todo))
  <2>1. CASE motor' = [motor EXCEPT !.at = "binds", !.todo = Tail(@)]
    BY <1>1, <1>2, <2>1 DEF MotorStates
  <2>2. CASE motor' = Tick
    BY <2>2 DEF Tick, MotorStates
  <2> QED
    BY <1>3, <2>1, <2>2
<1>6. RouterTyped' /\ LoadedOnce' /\ BoundIsSettled'
  BY <1>1, <1>2, <1>3, <1>4, <1>5 DEF RouterIInv, RouterTyped, LoadedOnce, BoundIsSettled, Warming, Settled
<1>7. Binding'
  BY <1>1, <1>2, <1>3, <1>4, <1>5 DEF RouterIInv, RouterTyped, Binding, Settled
<1>8. MotorOwns' /\ LateAreSkipped' /\ CompleteMeansGone' /\ motor'.at # "waits"
  BY <1>1, <1>4, <1>5 DEF RouterIInv, MotorOwns, LateAreSkipped, CompleteMeansGone
<1>9. \A q \in inside' : owner'[q] = "thread" /\ worker'[q] = "loading"
  BY <1>1, <1>3 DEF RouterIInv, RouterTyped
<1> QED
  BY <1>6, <1>7, <1>8, <1>9 DEF RouterIInv

\* The option is bound to experts that were loaded.
LEMMA BindKeeps == ASSUME RouterIInv, Bind PROVE RouterIInv'
<1>1. /\ motor.at = "binds" /\ motor.todo = <<>> /\ motor' = Tick /\ UNCHANGED <<owner, inside, worker>>
      /\ motor.level \in Levels \cup {NoLevel} /\ ~router.retiring
  BY DEF Bind, RouterIInv, RouterTyped, MotorStates, MotorOwns
<1>2. motor' \in MotorStates /\ motor'.at = "tick"
  BY <1>1 DEF Tick, MotorStates
<1>3. CASE router' = router
  BY <1>1, <1>2, <1>3 DEF RouterIInv, RouterTyped, LoadedOnce, BoundIsSettled, Binding, MotorOwns,
     LateAreSkipped, CompleteMeansGone, Warming, Settled
<1>4. ASSUME motor.level # NoLevel, NEW seen \in BOOLEAN,
             router' = [router EXCEPT !.active = BodyOf[motor.level], !.level = motor.level,
                            !.watching = /\ seen /\ WatcherOf[motor.level] # NoPolicy
                                         /\ WatcherOf[motor.level] \notin router.failed]
      PROVE  RouterIInv'
  <2>1. BodyOf[motor.level] \in Policies /\ motor.level \in Levels
    BY <1>1, <1>4, RouterAssumption
  <2> DEFINE w == /\ seen /\ WatcherOf[motor.level] # NoPolicy
                  /\ WatcherOf[motor.level] \notin router.failed
  <2>2. w \in BOOLEAN /\ (w => WatcherOf[motor.level] # NoPolicy)
    OBVIOUS
  <2>3. router' = [router EXCEPT !.active = BodyOf[motor.level], !.level = motor.level, !.watching = w]
    BY <1>4
  <2> HIDE DEF w
  <2>4. /\ router' \in RouterStates /\ router'.warmed = router.warmed
        /\ router'.failed = router.failed /\ router'.retiring = router.retiring
        /\ router'.active = BodyOf[motor.level] /\ router'.level = motor.level
        /\ router'.watching = w
    BY <2>1, <2>2, <2>3 DEF RouterStates, RouterIInv, RouterTyped
  <2>5. \A q \in Experts(motor.level) : Settled(q)
    <3>1. Members(motor.todo) = {}
      BY <1>1 DEF Members
    <3> QED
      BY <1>1, <1>4, <3>1 DEF RouterIInv, Binding
  <2>6. BoundIsSettled'
    BY <2>1, <2>2, <2>4, <2>5, NeededExperts DEF BoundIsSettled, Settled
  <2>7. RouterTyped' /\ LoadedOnce' /\ Binding'
    BY <1>1, <1>2, <2>4 DEF RouterIInv, RouterTyped, LoadedOnce, Binding, Warming, Settled
  <2>8. MotorOwns' /\ LateAreSkipped' /\ CompleteMeansGone' /\ motor'.at # "waits"
    BY <1>1, <1>2, <2>4 DEF RouterIInv, MotorOwns, LateAreSkipped, CompleteMeansGone
  <2>9. \A q \in inside' : owner'[q] = "thread" /\ worker'[q] = "loading"
    BY <1>1 DEF RouterIInv
  <2> QED
    BY <2>6, <2>7, <2>8, <2>9 DEF RouterIInv
<1> QED
  BY <1>1, <1>3, <1>4 DEF Bind

\* Steps that move no expert's owner and leave the motor thread off its bindings.
LEMMA RestedKeeps ==
  ASSUME RouterIInv, UNCHANGED <<owner, inside, motor>>, motor.at \notin {"binds", "loads"},
         router' \in RouterStates, router'.retiring = router.retiring,
         router'.warmed = router.warmed, router'.failed = router.failed,
         BoundIsSettled', CompleteMeansGone', router.skipped \subseteq router'.skipped,
         worker' \in [Policies -> {"none", "loading", "up", "gone"}],
         \A p \in inside : worker'[p] = worker[p]
  PROVE  RouterIInv'
<1>1. RouterTyped' /\ LoadedOnce' /\ Binding'
  BY DEF RouterIInv, RouterTyped, LoadedOnce, Binding, Warming, Settled
<1>2. MotorOwns' /\ LateAreSkipped' /\ motor'.at # "waits"
  BY DEF RouterIInv, MotorOwns, LateAreSkipped, Warming
<1>3. \A q \in inside' : owner'[q] = "thread" /\ worker'[q] = "loading"
  BY DEF RouterIInv
<1> QED
  BY <1>1, <1>2, <1>3 DEF RouterIInv

\* A new scope unbinds the option.
LEMMA ResetScopeKeeps == ASSUME RouterIInv, ResetScope PROVE RouterIInv'
<1>1. motor.at = "tick" /\ UNCHANGED <<owner, inside, worker, motor>> /\ router \in RouterStates
  BY DEF ResetScope, Tick, RouterIInv, RouterTyped
<1>2. /\ router' \in RouterStates /\ router'.retiring = router.retiring
      /\ router'.warmed = router.warmed /\ router'.failed = router.failed
      /\ router'.skipped = router.skipped /\ router'.level = NoLevel
  BY <1>1, RouterAssumption DEF ResetScope, RouterStates
<1>3. BoundIsSettled' /\ CompleteMeansGone'
  BY <1>1, <1>2 DEF BoundIsSettled, CompleteMeansGone
<1> QED
  BY <1>1, <1>2, <1>3, RestedKeeps DEF RouterIInv, RouterTyped

\* A loading thread enters its worker, and is its only reader.
LEMMA ThreadLoadsKeeps ==
  ASSUME RouterIInv, NEW p \in Policies, ThreadLoads(p) PROVE RouterIInv'
<1>1. /\ owner[p] = "thread" /\ inside' = inside \cup {p}
      /\ worker' = [worker EXCEPT ![p] = "loading"] /\ UNCHANGED <<router, owner, motor>>
  BY DEF ThreadLoads
<1>2. RouterTyped' /\ LoadedOnce' /\ BoundIsSettled' /\ Binding' /\ MotorOwns' /\ LateAreSkipped'
  BY <1>1 DEF RouterIInv, RouterTyped, LoadedOnce, BoundIsSettled, Binding, MotorOwns,
     LateAreSkipped, Warming, Settled
<1>3. \A q \in inside' : owner'[q] = "thread" /\ worker'[q] = "loading"
  BY <1>1 DEF RouterIInv, RouterTyped
<1>4. CompleteMeansGone'
  BY <1>1 DEF RouterIInv, CompleteMeansGone, Warming
<1> QED
  BY <1>1, <1>2, <1>3, <1>4 DEF RouterIInv

\* It leaves its result unless the router retires.
LEMMA ThreadEndsKeeps ==
  ASSUME RouterIInv, NEW p \in Policies, ThreadEnds(p) PROVE RouterIInv'
<1>1. PICK ok \in BOOLEAN :
          /\ router' = Noted(p, ok)
          /\ worker' = [worker EXCEPT ![p] = IF ok THEN "up" ELSE "none"]
  BY DEF ThreadEnds
<1>2. /\ p \in inside /\ owner[p] = "thread" /\ inside' = inside \ {p} /\ motor' = motor
      /\ owner' = [owner EXCEPT ![p] = "none"]
  BY DEF ThreadEnds, RouterIInv
<1>3. /\ router' \in RouterStates
      /\ router.warmed \subseteq router'.warmed /\ router.failed \subseteq router'.failed
      /\ router'.warmed \cup router'.failed \subseteq router.warmed \cup router.failed \cup {p}
      /\ router'.retiring = router.retiring /\ router'.active = router.active
      /\ router'.level = router.level /\ router'.watching = router.watching
      /\ router'.skipped = router.skipped /\ router'.complete = router.complete
  <2>1. CASE router' = router
    BY <2>1 DEF RouterIInv, RouterTyped
  <2>2. CASE router' = [router EXCEPT !.warmed = @ \cup {p}]
    BY <2>2 DEF RouterIInv, RouterTyped, RouterStates
  <2>3. CASE router' = [router EXCEPT !.failed = @ \cup {p}]
    BY <2>3 DEF RouterIInv, RouterTyped, RouterStates
  <2> QED
    BY <1>1, <2>1, <2>2, <2>3 DEF Noted
<1>4. RouterTyped' /\ LoadedOnce' /\ BoundIsSettled'
  BY <1>1, <1>2, <1>3 DEF RouterIInv, RouterTyped, LoadedOnce, BoundIsSettled, Warming, Settled
<1>5. Binding'
  BY <1>2, <1>3 DEF RouterIInv, RouterTyped, Binding, Settled
<1>6. MotorOwns' /\ LateAreSkipped'
  <2>1. motor.at = "loads" => Head(motor.todo) # p
    BY <1>2 DEF RouterIInv, MotorOwns
  <2> QED
    BY <1>2, <1>3, <2>1 DEF RouterIInv, RouterTyped, MotorOwns, LateAreSkipped, Warming
<1>7. \A q \in inside' : owner'[q] = "thread" /\ worker'[q] = "loading"
  BY <1>1, <1>2 DEF RouterIInv, RouterTyped
<1>8. CompleteMeansGone'
  BY <1>2, <1>3 DEF RouterIInv, CompleteMeansGone
<1> QED
  BY <1>2, <1>4, <1>5, <1>6, <1>7, <1>8 DEF RouterIInv

\* The fence: from here on nothing new is loaded.
LEMMA RouterRetiresKeeps == ASSUME RouterIInv, RouterRetires PROVE RouterIInv'
<1>1. UNCHANGED <<owner, inside, worker>> /\ router \in RouterStates
  BY DEF RouterRetires, RouterIInv, RouterTyped
<1>2. motor' \in MotorStates /\ motor'.at = "fenced"
  <2>1. <<>> \in Seq(Policies)
    OBVIOUS
  <2> QED
    BY <2>1 DEF RouterRetires, Tick, MotorStates
<1>3. /\ router' \in RouterStates /\ router'.retiring
      /\ router'.warmed = router.warmed /\ router'.failed = router.failed
      /\ router'.level = router.level /\ router'.active = router.active
      /\ router'.watching = router.watching
  BY <1>1 DEF RouterRetires, RouterStates
<1>4. RouterTyped' /\ LoadedOnce' /\ BoundIsSettled'
  BY <1>1, <1>2, <1>3 DEF RouterIInv, RouterTyped, LoadedOnce, BoundIsSettled, Warming, Settled
<1>5. Binding' /\ MotorOwns' /\ LateAreSkipped' /\ CompleteMeansGone' /\ motor'.at # "waits"
  BY <1>1, <1>2, <1>3 DEF RouterIInv, Binding, MotorOwns, LateAreSkipped, CompleteMeansGone
<1> QED
  BY <1>1, <1>4, <1>5 DEF RouterIInv

\* After the deadline, whoever still loads is left alone.
LEMMA OwnersWaitedKeeps ==
  ASSUME RouterIInv, NEW late_ \in BOOLEAN, OwnersWaited(late_) PROVE RouterIInv'
<1>1. /\ UNCHANGED <<owner, inside, worker>> /\ router \in RouterStates /\ motor.at = "fenced"
      /\ motor \in MotorStates /\ router.retiring
  BY DEF OwnersWaited, RouterIInv, RouterTyped, MotorOwns
<1>2. motor' \in MotorStates /\ motor'.at = "retires"
  BY <1>1 DEF OwnersWaited, MotorStates
<1>3. /\ router' \in RouterStates /\ router'.retiring = router.retiring
      /\ router'.warmed = router.warmed /\ router'.failed = router.failed
      /\ router'.level = router.level /\ router'.active = router.active
      /\ router'.watching = router.watching /\ router'.skipped = Skipped(late_)
  <2>1. Skipped(late_) \subseteq Policies
    BY DEF Skipped
  <2> QED
    BY <1>1, <2>1 DEF OwnersWaited, RouterStates
<1>4. RouterTyped' /\ LoadedOnce' /\ BoundIsSettled'
  BY <1>1, <1>2, <1>3 DEF RouterIInv, RouterTyped, LoadedOnce, BoundIsSettled, Warming, Settled
<1>5. LateAreSkipped'
  BY <1>1, <1>3 DEF OwnersWaited, LateAreSkipped, Skipped, Warming
<1>6. Binding' /\ MotorOwns' /\ CompleteMeansGone' /\ motor'.at # "waits"
  BY <1>1, <1>2, <1>3 DEF Binding, MotorOwns, CompleteMeansGone
<1> QED
  BY <1>1, <1>4, <1>5, <1>6 DEF RouterIInv

\* A worker is retired only when nobody loads it.
LEMMA EndingKeeps ==
  ASSUME RouterIInv, NEW p \in Policies, Ending(p) \/ EndFails(p) PROVE RouterIInv'
<1>1. /\ motor.at = "retires" /\ p \notin router.skipped /\ UNCHANGED <<owner, inside, motor>>
      /\ router \in RouterStates
  BY DEF Ending, EndFails, RouterIInv, RouterTyped
<1>2. p \notin inside
  BY <1>1 DEF RouterIInv, LateAreSkipped, Warming
<1>3. CASE Ending(p)
  <2>1. router' = router /\ worker' = [worker EXCEPT ![p] = "gone"]
    BY <1>3 DEF Ending
  <2>2. BoundIsSettled' /\ CompleteMeansGone'
    BY <1>1, <2>1 DEF BoundIsSettled, CompleteMeansGone, RouterIInv, Settled
  <2> QED
    BY <1>1, <1>2, <2>1, <2>2, RestedKeeps DEF RouterIInv, RouterTyped
<1>4. CASE EndFails(p)
  <2>1. worker' = worker /\ router' = [router EXCEPT !.skipped = @ \cup {p}]
    BY <1>4 DEF EndFails
  <2>2. /\ router' \in RouterStates /\ router'.retiring = router.retiring
        /\ router'.warmed = router.warmed /\ router'.failed = router.failed
        /\ router'.level = router.level /\ router'.active = router.active
        /\ router'.watching = router.watching /\ router.skipped \subseteq router'.skipped
    BY <1>1, <2>1 DEF RouterStates
  <2>3. BoundIsSettled' /\ CompleteMeansGone'
    BY <1>1, <2>2 DEF BoundIsSettled, CompleteMeansGone, RouterIInv, Settled
  <2> QED
    BY <1>1, <2>1, <2>2, <2>3, RestedKeeps DEF RouterIInv, RouterTyped
<1> QED
  BY <1>3, <1>4

\* The report is complete only if nobody was skipped.
LEMMA RouterReportsKeeps == ASSUME RouterIInv, RouterReports PROVE RouterIInv'
<1>1. /\ motor.at = "retires" /\ UNCHANGED <<owner, inside, worker>>
      /\ router \in RouterStates /\ router.retiring
      /\ \A p \in Policies : p \in router.skipped \/ worker[p] = "gone"
  BY DEF RouterReports, RouterIInv, RouterTyped, MotorOwns
<1>2. motor' \in MotorStates /\ motor'.at = "over"
  <2>1. <<>> \in Seq(Policies)
    OBVIOUS
  <2> QED
    BY <2>1 DEF RouterReports, Tick, MotorStates
<1> DEFINE all == router.skipped = {}
<1>3. router' = [router EXCEPT !.complete = all] /\ all \in BOOLEAN
  BY DEF RouterReports
<1> HIDE DEF all
<1>4. /\ router' \in RouterStates /\ router'.retiring
      /\ router'.warmed = router.warmed /\ router'.failed = router.failed
      /\ router'.level = router.level /\ router'.active = router.active
      /\ router'.watching = router.watching /\ router'.skipped = router.skipped
      /\ router'.complete = all
  BY <1>1, <1>3 DEF RouterStates
<1>5. RouterTyped' /\ LoadedOnce' /\ BoundIsSettled'
  BY <1>1, <1>2, <1>4 DEF RouterIInv, RouterTyped, LoadedOnce, BoundIsSettled, Warming, Settled
<1>6. Binding' /\ MotorOwns' /\ LateAreSkipped' /\ motor'.at # "waits"
  BY <1>1, <1>2, <1>4 DEF RouterIInv, Binding, MotorOwns, LateAreSkipped, Warming
<1>7. CompleteMeansGone'
  <2> SUFFICES ASSUME all PROVE inside' = {} /\ \A p \in Policies : worker'[p] = "gone" /\ ~Warming(p)'
    BY <1>4 DEF CompleteMeansGone
  <2>1. \A p \in Policies : worker[p] = "gone" /\ ~Warming(p)
    BY <1>1 DEF all, RouterIInv, LateAreSkipped
  <2>2. inside = {}
    BY <2>1 DEF RouterIInv, RouterTyped, Warming
  <2> QED
    BY <1>1, <2>1, <2>2 DEF Warming
<1> QED
  BY <1>1, <1>5, <1>6, <1>7 DEF RouterIInv

\* Before the first tick nothing is loaded and nothing is bound.
LEMMA RouterInitial == ASSUME RouterInit PROVE RouterIInv
<1>1. /\ router \in RouterStates /\ ~router.retiring /\ router.level = NoLevel
      /\ router.warmed = {} /\ router.failed = {}
  <2>1. PICK deferred \in BOOLEAN :
           router = [retiring |-> FALSE, deferred |-> deferred, warmed |-> {}, failed |-> {},
                     active |-> Primary, level |-> NoLevel, watching |-> FALSE,
                     skipped |-> {}, complete |-> TRUE]
    BY DEF RouterInit
  <2> QED
    BY <2>1, RouterAssumption DEF RouterStates
<1>2. motor \in MotorStates /\ motor.at \in {"tick", "binds"} /\ motor.level = NoLevel
  <2>1. <<>> \in Seq(Policies) /\ <<Primary>> \in Seq(Policies)
    BY RouterAssumption
  <2>2. Tick \in MotorStates /\ Tick.at = "tick" /\ Tick.level = NoLevel
    BY <2>1 DEF Tick, MotorStates
  <2>3. Warmup \in MotorStates /\ Warmup.at = "binds" /\ Warmup.level = NoLevel
    BY <2>1, <2>2 DEF Warmup, MotorStates
  <2>4. motor \in {Tick, Warmup}
    BY DEF RouterInit
  <2> QED
    BY <2>2, <2>3, <2>4
<1>3. /\ owner = [p \in Policies |-> "none"] /\ inside = {}
      /\ worker = [p \in Policies |-> "none"]
  BY DEF RouterInit
<1>4. Members(motor.todo) \subseteq Policies
  BY <1>2 DEF MotorStates, Members
<1> QED
  BY <1>1, <1>2, <1>3, <1>4 DEF RouterIInv, RouterTyped, LoadedOnce, BoundIsSettled, Binding, MotorOwns,
     LateAreSkipped, CompleteMeansGone, Warming

\* Every step of the router and its threads keeps the invariant.
LEMMA RouterStep == ASSUME RouterIInv, [RouterNext]_routerVars PROVE RouterIInv'
<1>1. CASE RouterNext
  BY <1>1, EnsureKeeps, MotorLoadedKeeps, BindKeeps, ResetScopeKeeps, RequestWarmKeeps, ActNewKeeps,
     ThreadLoadsKeeps, ThreadEndsKeeps, EndingKeeps, RouterRetiresKeeps, RouterReportsKeeps,
     OwnersWaitedKeeps DEF RouterNext
<1>2. CASE UNCHANGED routerVars
  BY <1>2 DEF routerVars, RouterIInv, RouterTyped, LoadedOnce, BoundIsSettled, Binding, MotorOwns,
     LateAreSkipped, CompleteMeansGone, Warming, Settled
<1> QED
  BY <1>1, <1>2

\* One reader per worker, no waiting for a loading thread, and no complete
\* report over a worker that runs or still comes up, for any number of experts
\* and levels and any assignment between them (policy_service.py).
THEOREM RouterSafety == RouterSpec => []RouterSound
<1>1. RouterInit => RouterIInv
  BY RouterInitial
<1>2. RouterIInv /\ [RouterNext]_routerVars => RouterIInv'
  BY RouterStep
<1>3. RouterIInv => RouterSound
  <2> SUFFICES ASSUME RouterIInv PROVE OneReader
    BY DEF RouterSound, RouterIInv
  <2>1. \A p \in inside : owner[p] = "thread" /\ worker[p] = "loading"
    BY DEF RouterIInv
  <2>2. ASSUME router.level # NoLevel
        PROVE  ~Warming(router.active) /\ (router.watching => ~Warming(WatcherOf[router.level]))
    <3>1. router.active \in Policies /\ router.level \in Levels
      BY <2>2 DEF RouterIInv, RouterTyped, RouterStates
    <3>2. router.watching => WatcherOf[router.level] \in Policies
      BY <2>2, <3>1, RouterAssumption DEF RouterIInv, BoundIsSettled
    <3> QED
      BY <2>2, <3>1, <3>2 DEF RouterIInv, BoundIsSettled, LoadedOnce
  <2> QED
    BY <2>1, <2>2 DEF RouterIInv, OneReader
<1> QED
  BY <1>1, <1>2, <1>3, PTL DEF RouterSpec

(***************************************************************************)
(* The vision worker.                                                      *)
(***************************************************************************)
Busy == {"holds", "inspects", "answers", "publishes", "published"}
EyeStates == [at : {"loop", "gets", "over"} \cup Busy, query : Nat]

VisionTyped ==
  /\ halted \in BOOLEAN /\ admitted \in BOOLEAN
  /\ asked \in Nat /\ eye \in EyeStates
  /\ jobs = <<>> \/ \E q \in Nat : jobs = <<q>>

Queued == \E i \in DOMAIN jobs : jobs[i] # Sentinel

\* The thread holds a query in the middle of its round and nowhere else, and
\* then none is queued behind it.
InHand ==
  /\ eye.query # NoQuery <=> eye.at \in Busy
  /\ eye.at \in Busy => ~Queued

VisionIInv == VisionTyped /\ InHand /\ AdmissionAgrees

\* What a queue of length one holds.
LEMMA QueueOfOne ==
  ASSUME VisionTyped
  PROVE  /\ jobs = <<>> => ~Queued /\ Len(jobs) < QueueSize
         /\ \A q \in Nat : jobs = <<q>> =>
              /\ Queued <=> q # Sentinel
              /\ ~(Len(jobs) < QueueSize) /\ Head(jobs) = q /\ Tail(jobs) = <<>>
         /\ \A q \in Nat : Append(<<>>, q) = <<q>>
<1>1. /\ Len(<<>>) = 0 /\ DOMAIN <<>> = {}
      /\ \A q \in Nat : /\ Len(<<q>>) = 1 /\ DOMAIN <<q>> = {1} /\ <<q>>[1] = q
                        /\ Head(<<q>>) = q /\ Tail(<<q>>) = <<>> /\ Append(<<>>, q) = <<q>>
  OBVIOUS
<1> QED
  BY <1>1 DEF Queued, QueueSize

\* The callers' steps: a query is submitted, the worker is told to stop.
LEMMA CallersKeep ==
  ASSUME VisionIInv, Submit \/ StopVision \/ WakeVision \/ Joined
  PROVE  VisionIInv'
<1> DEFINE q == asked + 1
<1>1. q \in Nat /\ q # 0 /\ 0 \in Nat
  BY DEF VisionIInv, VisionTyped
<1>2. Len(<<>>) = 0 /\ DOMAIN <<>> = {} /\ \A n \in Nat : DOMAIN <<n>> = {1} /\ <<n>>[1] = n
  OBVIOUS
<1>3. CASE Submit
  <2>1. CASE Len(jobs) < QueueSize
    <3>1. jobs = <<>> /\ jobs' = <<q>> /\ admitted' = TRUE
      BY <1>1, <1>3, <2>1, QueueOfOne DEF Submit, VisionIInv, VisionTyped
    <3>2. Queued' /\ ~Queued
      BY <1>1, <1>2, <3>1 DEF Queued, Sentinel
    <3>3. ~admitted /\ UNCHANGED <<halted, eye>> /\ asked' = q
      BY <1>3 DEF Submit
    <3>4. eye.at \notin Busy
      BY <3>3 DEF VisionIInv, InHand, AdmissionAgrees, Busy
    <3>5. VisionTyped'
      BY <1>1, <3>1, <3>3 DEF VisionIInv, VisionTyped
    <3> QED
      BY <3>1, <3>2, <3>3, <3>4, <3>5 DEF VisionIInv, InHand, AdmissionAgrees, Queued
  <2>2. CASE ~(Len(jobs) < QueueSize)
    BY <1>1, <1>3, <2>2 DEF Submit, VisionIInv, VisionTyped, InHand, AdmissionAgrees, Queued
  <2> QED
    BY <2>1, <2>2
<1>4. CASE StopVision
  BY <1>4 DEF StopVision, VisionIInv, VisionTyped, InHand, AdmissionAgrees, Queued
<1>5. CASE WakeVision
  <2>1. CASE Len(jobs) < QueueSize
    <3>1. jobs = <<>> /\ jobs' = <<0>>
      BY <1>1, <1>5, <2>1, QueueOfOne DEF WakeVision, VisionIInv, VisionTyped, Sentinel
    <3>2. ~Queued /\ ~Queued'
      BY <1>1, <1>2, <3>1 DEF Queued, Sentinel
    <3> QED
      BY <1>1, <1>5, <3>1, <3>2 DEF WakeVision, VisionIInv, VisionTyped, InHand, AdmissionAgrees, Queued
  <2>2. CASE ~(Len(jobs) < QueueSize)
    BY <1>5, <2>2 DEF WakeVision, VisionIInv, VisionTyped, InHand, AdmissionAgrees, Queued
  <2> QED
    BY <2>1, <2>2
<1>6. CASE Joined
  BY <1>6 DEF Joined, VisionIInv, VisionTyped, InHand, AdmissionAgrees, Queued
<1> QED
  BY <1>3, <1>4, <1>5, <1>6

\* Taking from the queue moves the query from the queue into the thread's hands.
LEMMA GetsKeeps == ASSUME VisionIInv, Gets PROVE VisionIInv'
<1>1. UNCHANGED <<admitted, published, halted, asked, stopping>>
  BY DEF Gets, Rest
<1>2. eye.at = "gets" /\ eye.query = NoQuery /\ eye \in EyeStates
  BY DEF Gets, VisionIInv, VisionTyped, InHand, Busy
<1>3. DOMAIN <<>> = {}
  OBVIOUS
<1>4. CASE jobs = <<>>
  <2>1. eye' = [eye EXCEPT !.at = "loop"] /\ jobs' = jobs
    BY <1>4 DEF Gets, Eye
  <2>2. eye' \in EyeStates /\ eye'.at = "loop" /\ eye'.query = NoQuery
    BY <1>2, <2>1 DEF EyeStates
  <2> QED
    BY <1>1, <1>2, <2>1, <2>2 DEF VisionIInv, VisionTyped, InHand, AdmissionAgrees, Queued, Busy
<1>5. ASSUME NEW q \in Nat, jobs = <<q>>
      PROVE  VisionIInv'
  <2>1. jobs # <<>> /\ Head(jobs) = q /\ jobs' = <<>> /\ (Queued <=> q # Sentinel)
    BY <1>5, QueueOfOne DEF Gets, VisionIInv, VisionTyped
  <2>2. ~Queued'
    BY <1>3, <2>1 DEF Queued
  <2>3. CASE q = Sentinel
    <3>1. eye' = [eye EXCEPT !.at = "over"]
      BY <2>1, <2>3 DEF Gets
    <3>2. eye' \in EyeStates /\ eye'.at = "over" /\ eye'.query = NoQuery
      BY <1>2, <3>1 DEF EyeStates
    <3> QED
      BY <1>1, <2>1, <2>2, <3>2 DEF VisionIInv, VisionTyped, InHand, AdmissionAgrees, Busy
  <2>4. CASE q # Sentinel
    <3>1. eye' = [at |-> "holds", query |-> q]
      BY <2>1, <2>4 DEF Gets
    <3>2. eye' \in EyeStates /\ eye'.at = "holds" /\ eye'.query = q /\ q # NoQuery
      BY <2>4, <3>1 DEF EyeStates, Busy, Sentinel, NoQuery
    <3>3. admitted
      BY <1>2, <2>1, <2>4 DEF VisionIInv, AdmissionAgrees, Queued
    <3> QED
      BY <1>1, <2>1, <2>2, <3>2, <3>3 DEF VisionIInv, VisionTyped, InHand, AdmissionAgrees, Busy, Queued
  <2> QED
    BY <2>3, <2>4
<1> QED
  BY <1>4, <1>5 DEF VisionIInv, VisionTyped

\* Giving the query up gives the admission back.
LEMMA LeavesKeeps ==
  ASSUME VisionIInv, eye.at \in Busy, NEW at \in {"loop", "over"}, Leaves(at)
  PROVE  VisionIInv'
<1>1. /\ eye' = [at |-> at, query |-> NoQuery] /\ admitted' = FALSE
      /\ UNCHANGED <<jobs, published, halted, asked, stopping>>
  BY DEF Leaves, Rest
<1>2. eye' \in EyeStates /\ eye'.at = at /\ eye'.query = NoQuery
  BY <1>1 DEF EyeStates, NoQuery
<1>3. ~Queued
  BY DEF VisionIInv, InHand
<1> QED
  BY <1>1, <1>2, <1>3 DEF VisionIInv, VisionTyped, InHand, AdmissionAgrees, Busy, Queued

\* A step of the thread that keeps what it holds keeps the account.
LEMMA EyeKeeps ==
  ASSUME VisionIInv, NEW at \in {"loop", "gets", "over"} \cup Busy, Eye(at),
         UNCHANGED <<jobs, admitted, halted, asked>>,
         at \in Busy <=> eye.at \in Busy, eye.at # "over"
  PROVE  VisionIInv'
<1>1. eye' \in EyeStates /\ eye'.at = at /\ eye'.query = eye.query
  BY DEF Eye, EyeStates, VisionIInv, VisionTyped
<1> QED
  BY <1>1 DEF VisionIInv, VisionTyped, InHand, AdmissionAgrees, Queued

\* Before the first query nothing is admitted.
LEMMA VisionInitial == ASSUME VisionInit PROVE VisionIInv
<1>1. DOMAIN <<>> = {}
  OBVIOUS
<1> QED
  BY <1>1 DEF VisionInit, VisionIInv, VisionTyped, InHand, AdmissionAgrees, Queued, EyeStates, Busy,
     NoQuery

\* Every step of the worker and its callers keeps the account.
LEMMA VisionStep == ASSUME VisionIInv, [VisionNext]_visionVars PROVE VisionIInv'
<1>1. CASE Submit \/ StopVision \/ WakeVision \/ Joined
  BY <1>1, CallersKeep
<1>2. CASE LooksAtStop
  <2>1. eye.at = "loop" /\ UNCHANGED <<jobs, admitted, halted, asked>>
    BY <1>2 DEF LooksAtStop, Rest
  <2>2. Eye("over") \/ Eye("gets")
    BY <1>2 DEF LooksAtStop
  <2>3. {"loop", "over", "gets"} \cap Busy = {}
    BY DEF Busy
  <2> QED
    BY <2>1, <2>2, <2>3, EyeKeeps
<1>3. CASE Gets
  BY <1>3, GetsKeeps
<1>4. CASE HoldsQuery \/ Inspects \/ Compares \/ Returns
  <2>1. eye.at \in Busy /\ {"inspects", "answers", "publishes"} \subseteq Busy /\ "over" \notin Busy
    BY <1>4 DEF HoldsQuery, Inspects, Compares, Returns, Busy
  <2>2. CASE Leaves("loop") \/ Leaves("over")
    BY <2>1, <2>2, LeavesKeeps
  <2>3. CASE ~(Leaves("loop") \/ Leaves("over"))
    <3>1. /\ Eye("inspects") \/ Eye("answers") \/ Eye("publishes")
          /\ UNCHANGED <<jobs, admitted, halted, asked>>
      BY <1>4, <2>3 DEF HoldsQuery, Inspects, Compares, Returns, Rest
    <3> QED
      BY <2>1, <3>1, EyeKeeps
  <2> QED
    BY <2>2, <2>3
<1>5. CASE Publishes
  <2>1. /\ eye.at \in Busy /\ "published" \in Busy /\ eye.at # "over" /\ Eye("published")
        /\ UNCHANGED <<jobs, admitted, halted, asked>>
    BY <1>5 DEF Publishes, Busy, Rest
  <2> QED
    BY <2>1, EyeKeeps
<1>6. CASE UNCHANGED visionVars
  BY <1>6 DEF visionVars, VisionIInv, VisionTyped, InHand, AdmissionAgrees, Queued
<1> QED
  BY <1>1, <1>2, <1>3, <1>4, <1>5, <1>6 DEF VisionNext, EyeThread

\* A query is admitted exactly while it is queued or in the thread's hands, for
\* any number of queries (perception/service.py:311-341).
THEOREM AdmissionSafety == VisionSpec => []AdmissionAgrees
<1>1. VisionInit => VisionIInv
  BY VisionInitial
<1>2. VisionIInv /\ [VisionNext]_visionVars => VisionIInv'
  BY VisionStep
<1>3. VisionIInv => AdmissionAgrees
  BY DEF VisionIInv
<1> QED
  BY <1>1, <1>2, <1>3, PTL DEF VisionSpec

\* Once stop() fenced the worker no answer reaches the blackboard, not even one
\* that was being computed (perception/service.py:645-655).
THEOREM FenceHolds == VisionSpec => [][halted => published' = published]_visionVars
<1>1. [VisionNext]_visionVars => [halted => published' = published]_visionVars
  <2> SUFFICES ASSUME VisionNext, halted PROVE published' = published
    OBVIOUS
  <2> QED
    BY DEF VisionNext, EyeThread, Submit, StopVision, WakeVision, Joined, LooksAtStop, Gets,
       HoldsQuery, Inspects, Compares, Publishes, Returns, Leaves, Rest, MayPublish
<1> QED
  BY <1>1, PTL DEF VisionSpec

(***************************************************************************)
(* The runtime that holds the lease.                                       *)
(***************************************************************************)
Stages == {"start", "assemble", "tick", "select", "chatted", "send", "fault", "disarm", "owners",
           "policy", "records", "over"}
RtStates ==
  [at : Stages, stop : BOOLEAN, budget : {"unset", "ample", "low", "gone"}, pending : BOOLEAN,
   believes : BOOLEAN, stale : Nat, released : BOOLEAN, policy : {"up", "bare", "saved"}]
SupStates == [lease : {"live", "dead"}, held : BOOLEAN]

RuntimeTyped ==
  /\ rt \in RtStates /\ beat \in [at : {"off", "loop", "asks", "over"}, missing : Nat]
  /\ sup \in SupStates /\ late \subseteq {"press", "release"} /\ lates \in Nat
  /\ pause \in BOOLEAN

\* A dead lease holds nothing.
DeadIsClear(s) == s.lease = "dead" => ~s.held

\* An input that outlives its caller is one of a run that ends.
LateEnds(c) == c.stop \/ c.at \in {"fault", "disarm", "owners", "policy", "records", "over"}

\* Where nothing is on its way, what is held is known.
KnownAt == {"start", "assemble", "tick", "select", "chatted"}
Known(c, s) == c.at \in KnownAt /\ ~c.stop /\ s.held => c.believes \/ c.pending

\* The lease is dead once the disarm was confirmed, which a save follows.
Confirmed(c, s) ==
  /\ c.released => s.lease = "dead"
  /\ c.policy = "saved" => c.released

\* The checkpoint is the last thing before the records are closed.
SavesLast(c) == c.policy = "saved" => c.at \in {"records", "over"}

RuntimeIInv ==
  /\ RuntimeTyped /\ DeadIsClear(sup) /\ Known(rt, sup) /\ Confirmed(rt, sup) /\ SavesLast(rt)
  /\ "press" \in late => LateEnds(rt)

\* What a command can come to, by its kind.
LEMMA OutcomeFacts ==
  ASSUME RuntimeTyped, DeadIsClear(sup),
         NEW command \in {"renew", "press", "quiet", "release", "fault", "disarm"},
         NEW o \in Outcomes(command)
  PROVE  /\ o.sup \in SupStates /\ o.ok \in BOOLEAN /\ DeadIsClear(o.sup)
         /\ sup.lease = "dead" => o.sup.lease = "dead"
         /\ o.left \subseteq {"press", "release"}
         /\ "press" \in o.left => command = "press" /\ ~o.ok
         /\ command # "press" /\ o.sup.held => sup.held
         /\ command \in {"quiet", "release"} /\ o.ok => ~o.sup.held
         /\ command \in {"fault", "disarm"} /\ o.ok => o.sup.lease = "dead"
<1> DEFINE e == Effect(command, sup)
           r == Obeyed(command, sup)
<1>1. sup \in SupStates
  BY DEF RuntimeTyped
<1>2. /\ e \in SupStates
      /\ command \in {"renew", "press", "quiet", "release"} => e.lease = sup.lease
      /\ command \in {"fault", "disarm"} => e.lease = "dead" /\ ~e.held
      /\ command \in {"quiet", "release"} => ~e.held
      /\ command = "renew" => e.held = sup.held
  BY <1>1 DEF Effect, Revoked, SupStates
<1>3. r = e \/ (Needs(command) /\ sup.lease = "dead" /\ r = sup)
  BY DEF Obeyed
<1>4. Needs(command) /\ sup.lease = "dead" => r = sup
  BY DEF Obeyed
<1>5. Needs(command) <=> command \in {"renew", "press", "quiet", "release"}
  BY DEF Needs
<1>6. \/ o.sup = sup /\ o.ok = FALSE /\ o.left = {}
      \/ o.sup = r /\ o.ok \in BOOLEAN /\ o.left = {}
         /\ (Needs(command) /\ sup.lease = "dead" => o.ok = FALSE)
      \/ o.sup = sup /\ o.ok = FALSE /\ o.left = {command} /\ command \in {"press", "release"}
  <2>1. CASE o = [sup |-> sup, ok |-> FALSE, left |-> {}]
    BY <2>1
  <2>2. CASE command \in {"press", "release"} /\ o = [sup |-> sup, ok |-> FALSE, left |-> {command}]
    BY <2>2
  <2>3. ASSUME NEW ok \in IF Needs(command) /\ sup.lease = "dead" THEN {FALSE} ELSE BOOLEAN,
               o = [sup |-> r, ok |-> ok, left |-> {}]
        PROVE  /\ o.sup = r /\ o.ok \in BOOLEAN /\ o.left = {}
               /\ Needs(command) /\ sup.lease = "dead" => o.ok = FALSE
    <3>1. ok \in BOOLEAN /\ (Needs(command) /\ sup.lease = "dead" => ok = FALSE)
      BY Zenon
    <3>2. o.sup = r /\ o.ok = ok /\ o.left = {}
      BY <2>3
    <3> QED
      BY <3>1, <3>2
  <2>4. \/ o = [sup |-> sup, ok |-> FALSE, left |-> {}]
        \/ command \in {"press", "release"} /\ o = [sup |-> sup, ok |-> FALSE, left |-> {command}]
        \/ \E ok \in IF Needs(command) /\ sup.lease = "dead" THEN {FALSE} ELSE BOOLEAN :
              o = [sup |-> r, ok |-> ok, left |-> {}]
    BY Zenon DEF Outcomes
  <2> QED
    BY <2>1, <2>2, <2>3, <2>4
<1> HIDE DEF e, r
<1>7. r \in SupStates /\ DeadIsClear(r) /\ (sup.lease = "dead" => r.lease = "dead")
      /\ (command # "press" /\ r.held => sup.held)
  BY <1>1, <1>2, <1>3, <1>4, <1>5 DEF DeadIsClear, SupStates
<1>8. CASE o.sup = r /\ o.ok \in BOOLEAN /\ o.left = {}
           /\ (Needs(command) /\ sup.lease = "dead" => o.ok = FALSE)
  BY <1>2, <1>3, <1>5, <1>7, <1>8
<1>9. CASE o.sup # r \/ o.left # {}
  BY <1>1, <1>6, <1>9
<1> QED
  BY <1>1, <1>6, <1>8, <1>9

\* A step of which the supervisor sees nothing.
LEMMA QuietStep ==
  ASSUME RuntimeIInv, rt' \in RtStates, UNCHANGED <<sup, late, lates>>,
         beat' \in [at : {"off", "loop", "asks", "over"}, missing : Nat], pause' \in BOOLEAN,
         Known(rt', sup), Confirmed(rt', sup), SavesLast(rt'), LateEnds(rt) => LateEnds(rt')
  PROVE  RuntimeIInv'
BY DEF RuntimeIInv, RuntimeTyped, DeadIsClear, Known, Confirmed, SavesLast, LateEnds

\* A step around a command of the main thread.
LEMMA CommandStep ==
  ASSUME RuntimeIInv,
         NEW command \in {"renew", "press", "quiet", "release", "fault", "disarm"},
         NEW o \in Outcomes(command),
         sup' = o.sup, late' = late \cup o.left,
         lates' = IF o.left = {} THEN lates ELSE lates + 1,
         rt' \in RtStates, pause' = pause,
         beat' \in [at : {"off", "loop", "asks", "over"}, missing : Nat],
         Known(rt', o.sup), Confirmed(rt', o.sup), SavesLast(rt'), LateEnds(rt) => LateEnds(rt'),
         "press" \in o.left => LateEnds(rt')
  PROVE  RuntimeIInv'
<1>1. o.sup \in SupStates /\ DeadIsClear(o.sup) /\ o.left \subseteq {"press", "release"}
  BY OutcomeFacts DEF RuntimeIInv
<1>2. lates' \in Nat
  BY DEF RuntimeIInv, RuntimeTyped
<1>3. RuntimeTyped'
  BY <1>1, <1>2 DEF RuntimeIInv, RuntimeTyped
<1>4. DeadIsClear(sup)' /\ Known(rt, sup)' /\ Confirmed(rt, sup)' /\ SavesLast(rt)'
  BY <1>1 DEF DeadIsClear, Known, Confirmed, SavesLast
<1>5. ("press" \in late => LateEnds(rt))'
  BY DEF RuntimeIInv, LateEnds
<1> QED
  BY <1>3, <1>4, <1>5 DEF RuntimeIInv

\* d is c further on: what the disarm confirmed stands, and a stop is never taken back.
Onward(d, c) ==
  /\ d \in RtStates /\ d.released = c.released /\ d.policy = c.policy
  /\ c.stop => d.stop

\* A release that was not confirmed is owed, so nothing is held unknown after it.
LEMMA ReleaseStep ==
  ASSUME RuntimeIInv, NEW o \in Outcomes("release"),
         sup' = o.sup, late' = late \cup o.left,
         lates' = IF o.left = {} THEN lates ELSE lates + 1, UNCHANGED <<beat, pause>>,
         Onward(rt', rt), o.ok \/ rt'.pending, LateEnds(rt) => LateEnds(rt'),
         rt.at \notin {"records", "over"}
  PROVE  RuntimeIInv'
<1>1. /\ sup.lease = "dead" => o.sup.lease = "dead"
      /\ "press" \notin o.left /\ (o.ok => ~o.sup.held) /\ o.ok \in BOOLEAN
  BY OutcomeFacts DEF RuntimeIInv
<1>2. Known(rt', o.sup)
  BY <1>1 DEF Known
<1>3. Confirmed(rt', o.sup) /\ SavesLast(rt')
  BY <1>1 DEF Confirmed, SavesLast, Onward, RuntimeIInv
<1>4. beat' \in [at : {"off", "loop", "asks", "over"}, missing : Nat]
  BY DEF RuntimeIInv, RuntimeTyped
<1> QED
  BY <1>1, <1>2, <1>3, <1>4, CommandStep DEF Onward

\* What reconciling does to the runtime's fields.
LEMMA ReconciledFields ==
  ASSUME NEW c \in RtStates, NEW ok \in BOOLEAN
  PROVE  /\ Reconciled(c, ok) \in RtStates /\ (ok \/ Reconciled(c, ok).pending)
         /\ Reconciled(c, ok).at = c.at /\ Reconciled(c, ok).stop = c.stop
         /\ Reconciled(c, ok).released = c.released /\ Reconciled(c, ok).policy = c.policy
         /\ Reconciled(c, ok).stale = c.stale
<1>1. CASE ok
  BY <1>1 DEF Reconciled, RtStates
<1>2. CASE ~ok
  BY <1>2 DEF Reconciled, RtStates
<1> QED
  BY <1>1, <1>2

\* Moving to another stage changes nothing else.
LEMMA MovedFields ==
  ASSUME NEW c \in RtStates, NEW at \in Stages
  PROVE  /\ [c EXCEPT !.at = at] \in RtStates /\ [c EXCEPT !.at = at].at = at
         /\ [c EXCEPT !.at = at].stop = c.stop /\ [c EXCEPT !.at = at].pending = c.pending
         /\ [c EXCEPT !.at = at].released = c.released /\ [c EXCEPT !.at = at].policy = c.policy
         /\ [c EXCEPT !.at = at].believes = c.believes
         /\ [c EXCEPT !.pending = TRUE, !.at = at] \in RtStates
         /\ [c EXCEPT !.pending = TRUE, !.at = at].pending
         /\ [c EXCEPT !.pending = TRUE, !.at = at].stop = c.stop
         /\ [c EXCEPT !.pending = TRUE, !.at = at].at = at
         /\ [c EXCEPT !.pending = TRUE, !.at = at].released = c.released
         /\ [c EXCEPT !.pending = TRUE, !.at = at].policy = c.policy
BY DEF RtStates

\* Stopping sets the event, and stop() starts the budget.
LEMMA StoppedFields ==
  ASSUME NEW c \in RtStates
  PROVE  /\ Stopping(c) \in RtStates /\ Stopped(c) \in RtStates
         /\ Stopping(c).stop /\ Stopped(c).stop
         /\ Stopping(c).at = c.at /\ Stopped(c).at = c.at
         /\ Stopping(c).pending = c.pending /\ Stopped(c).pending = c.pending
         /\ Stopping(c).released = c.released /\ Stopped(c).released = c.released
         /\ Stopping(c).policy = c.policy /\ Stopped(c).policy = c.policy
<1>1. /\ Stopping(c) \in RtStates /\ Stopping(c).stop /\ Stopping(c).at = c.at
      /\ Stopping(c).pending = c.pending /\ Stopping(c).released = c.released
      /\ Stopping(c).policy = c.policy
  BY DEF Stopping, RtStates
<1>2. Stopped(c) = [c EXCEPT !.stop = TRUE, !.budget = IF c.budget = "unset" THEN "ample" ELSE c.budget]
  BY DEF Stopped
<1>3. (IF c.budget = "unset" THEN "ample" ELSE c.budget) \in {"unset", "ample", "low", "gone"}
  BY DEF RtStates
<1> QED
  BY <1>1, <1>2, <1>3 DEF RtStates

\* Going on is transitive.
LEMMA OnwardOn ==
  ASSUME NEW b, NEW c, NEW d, Onward(d, c), Onward(c, b) PROVE Onward(d, b)
BY DEF Onward

\* What each of the updates does, as a whole.
LEMMA OnwardBy ==
  ASSUME NEW c \in RtStates
  PROVE  /\ \A at \in Stages :
              /\ Onward([c EXCEPT !.at = at], c)
              /\ Onward([c EXCEPT !.pending = TRUE, !.at = at], c)
              /\ [c EXCEPT !.pending = TRUE, !.at = at].pending
              /\ [c EXCEPT !.pending = TRUE, !.at = at].at = at
         /\ \A ok \in BOOLEAN :
              /\ Onward(Reconciled(c, ok), c)
              /\ \A at \in Stages :
                    /\ Onward([Reconciled(c, ok) EXCEPT !.at = at], c)
                    /\ ok \/ [Reconciled(c, ok) EXCEPT !.at = at].pending
<1>1. ASSUME NEW at \in Stages
      PROVE  /\ Onward([c EXCEPT !.at = at], c)
             /\ Onward([c EXCEPT !.pending = TRUE, !.at = at], c)
  BY DEF Onward, RtStates
<1>2. ASSUME NEW ok \in BOOLEAN
      PROVE  /\ Reconciled(c, ok) \in RtStates /\ Onward(Reconciled(c, ok), c)
             /\ ok \/ Reconciled(c, ok).pending
  BY ReconciledFields DEF Onward
<1>3. ASSUME NEW ok \in BOOLEAN, NEW at \in Stages
      PROVE  /\ Onward([Reconciled(c, ok) EXCEPT !.at = at], c)
             /\ ok \/ [Reconciled(c, ok) EXCEPT !.at = at].pending
  <2> DEFINE r == Reconciled(c, ok)
  <2>1. r \in RtStates /\ Onward(r, c) /\ (ok \/ r.pending)
    BY <1>2
  <2> HIDE DEF r
  <2>2. Onward([r EXCEPT !.at = at], r) /\ [r EXCEPT !.at = at].pending = r.pending
    BY <2>1 DEF Onward, RtStates
  <2>3. Onward([r EXCEPT !.at = at], c) /\ (ok \/ [r EXCEPT !.at = at].pending)
    BY <2>1, <2>2, OnwardOn
  <2> QED
    BY <2>3 DEF r
<1> QED
  BY <1>1, <1>2, <1>3, MovedFields

\* What a release leaves behind, whether or not the policy took note of it.
LEMMA ReleasedRt ==
  ASSUME RuntimeIInv, NEW c \in RtStates, Onward(c, rt), c.at = rt.at,
         NEW o \in Outcomes("release"), NEW noted \in BOOLEAN, NEW d,
         d = IF o.ok /\ ~noted THEN [c EXCEPT !.pending = TRUE, !.at = "fault"]
             ELSE Reconciled(c, o.ok)
  PROVE  /\ Onward(d, rt) /\ (o.ok \/ d.pending)
         /\ (~(o.ok /\ ~noted) => d.at = rt.at) /\ (o.ok /\ ~noted => d.at = "fault")
<1>1. o.ok \in BOOLEAN
  BY OutcomeFacts DEF RuntimeIInv
<1>2. "fault" \in Stages
  BY DEF Stages
<1>3. CASE o.ok /\ ~noted
  BY <1>2, <1>3, OnwardBy, OnwardOn
<1>4. CASE ~(o.ok /\ ~noted)
  BY <1>1, <1>4, ReconciledFields, OnwardBy, OnwardOn
<1> QED
  BY <1>3, <1>4

\* A release after which the run goes on at another stage.
LEMMA ReleasedOnward ==
  ASSUME RuntimeIInv, NEW c \in RtStates, Onward(c, rt), NEW at \in Stages,
         rt.at \in {"tick", "select", "chatted", "send"}, UNCHANGED <<beat, pause>>,
         NEW o \in Outcomes("release"), NEW noted \in BOOLEAN,
         sup' = o.sup, late' = late \cup o.left,
         lates' = IF o.left = {} THEN lates ELSE lates + 1,
         rt' = IF o.ok /\ ~noted THEN [c EXCEPT !.pending = TRUE, !.at = "fault"]
               ELSE [Reconciled(c, o.ok) EXCEPT !.at = at]
  PROVE  RuntimeIInv'
<1>1. o.ok \in BOOLEAN
  BY OutcomeFacts DEF RuntimeIInv
<1>2. "fault" \in Stages
  BY DEF Stages
<1>3. CASE o.ok /\ ~noted
  <2>1. Onward(rt', rt) /\ rt'.pending
    BY <1>2, <1>3, OnwardBy, OnwardOn
  <2> QED
    BY <2>1, ReleaseStep DEF LateEnds, Onward
<1>4. CASE ~(o.ok /\ ~noted)
  <2>1. rt' = [Reconciled(c, o.ok) EXCEPT !.at = at]
    BY <1>4
  <2>2. Onward(rt', rt) /\ (o.ok \/ rt'.pending)
    BY <1>1, <2>1, OnwardBy, OnwardOn
  <2> QED
    BY <2>2, ReleaseStep DEF LateEnds, Onward
<1> QED
  BY <1>3, <1>4

\* A release after which the run goes on where it was.
LEMMA ReleasedThere ==
  ASSUME RuntimeIInv, NEW c \in RtStates, Onward(c, rt), c.at = rt.at,
         rt.at \in {"tick", "select", "chatted", "send"}, UNCHANGED <<beat, pause>>,
         NEW o \in Outcomes("release"), NEW noted \in BOOLEAN,
         sup' = o.sup, late' = late \cup o.left,
         lates' = IF o.left = {} THEN lates ELSE lates + 1,
         rt' = IF o.ok /\ ~noted THEN [c EXCEPT !.pending = TRUE, !.at = "fault"]
               ELSE Reconciled(c, o.ok)
  PROVE  RuntimeIInv'
<1>1. Onward(rt', rt) /\ (o.ok \/ rt'.pending)
  BY ReleasedRt
<1> QED
  BY <1>1, ReleaseStep DEF LateEnds, Onward

\* A frame that is late or stale releases, and too many are a fault.
LEMMA StallsKeeps == ASSUME RuntimeIInv, Stalls PROVE RuntimeIInv'
<1> DEFINE c == [rt EXCEPT !.stale = @ + 1]
           at(r) == IF r.stale >= StaleLimit THEN "fault" ELSE "tick"
<1>1. c \in RtStates /\ Onward(c, rt) /\ {"fault", "tick"} \subseteq Stages
  BY DEF RuntimeIInv, RuntimeTyped, RtStates, Onward, Stages
<1>2. PICK noted \in BOOLEAN, o \in Outcomes("release") :
         /\ sup' = o.sup /\ late' = late \cup o.left
         /\ lates' = IF o.left = {} THEN lates ELSE lates + 1
         /\ rt' = IF o.ok /\ ~noted THEN [c EXCEPT !.pending = TRUE, !.at = "fault"]
                  ELSE [Reconciled(c, o.ok) EXCEPT !.at = at(Reconciled(c, o.ok))]
  BY DEF Stalls, ReleaseThen, Send
<1>3. rt.at = "tick" /\ UNCHANGED <<beat, pause>>
  BY DEF Stalls
<1>4. at(Reconciled(c, o.ok)) \in {"fault", "tick"}
  OBVIOUS
<1> HIDE DEF c, at
<1> QED
  BY <1>1, <1>2, <1>3, <1>4, ReleasedOnward

\* A frame that came goes on only when no release is owed.
LEMMA SeesKeeps == ASSUME RuntimeIInv, Sees PROVE RuntimeIInv'
<1> DEFINE c == [rt EXCEPT !.stale = 0]
<1>1. /\ c \in RtStates /\ Onward(c, rt) /\ c.at = rt.at /\ c.stop = rt.stop
      /\ c.believes = rt.believes /\ c.pending = rt.pending
  BY DEF RuntimeIInv, RuntimeTyped, RtStates, Onward
<1>2. rt.at = "tick" /\ UNCHANGED <<beat, pause>> /\ "select" \in Stages
  BY DEF Sees, Stages
<1>3. CASE rt.pending
  <2>1. PICK noted \in BOOLEAN, o \in Outcomes("release") :
           /\ sup' = o.sup /\ late' = late \cup o.left
           /\ lates' = IF o.left = {} THEN lates ELSE lates + 1
           /\ rt' = IF o.ok /\ ~noted THEN [c EXCEPT !.pending = TRUE, !.at = "fault"]
                    ELSE Reconciled(c, o.ok)
    BY <1>3 DEF Sees, ReleaseThen, Send
  <2> HIDE DEF c
  <2> QED
    BY <1>1, <1>2, <2>1, ReleasedThere
<1>4. ASSUME rt' = [c EXCEPT !.at = "select"], Quiet PROVE RuntimeIInv'
  <2> HIDE DEF c
  <2>1. /\ rt' \in RtStates /\ rt'.stop = rt.stop /\ rt'.believes = rt.believes
        /\ rt'.pending = rt.pending /\ rt'.released = rt.released /\ rt'.policy = rt.policy
    BY <1>1, <1>2, <1>4, MovedFields DEF Onward
  <2>2. Known(rt', sup) /\ Confirmed(rt', sup) /\ SavesLast(rt') /\ (LateEnds(rt) => LateEnds(rt'))
    BY <1>2, <2>1 DEF Known, Confirmed, SavesLast, LateEnds, RuntimeIInv, KnownAt
  <2> QED
    BY <1>2, <1>4, <2>1, <2>2, QuietStep DEF Quiet, RuntimeIInv, RuntimeTyped
<1>5. ASSUME NEW o \in Outcomes("release"), sup' = o.sup, late' = late \cup o.left,
             lates' = IF o.left = {} THEN lates ELSE lates + 1,
             rt' = Reconciled(Stopped(c), o.ok)
      PROVE  RuntimeIInv'
  <2> HIDE DEF c
  <2>1. o.ok \in BOOLEAN
    BY OutcomeFacts DEF RuntimeIInv
  <2>2. Stopped(c) \in RtStates /\ Stopped(c).stop /\ Stopped(c).released = c.released
        /\ Stopped(c).policy = c.policy
    BY <1>1, StoppedFields
  <2>3. Onward(rt', rt) /\ (o.ok \/ rt'.pending) /\ rt'.stop
    BY <1>1, <1>5, <2>1, <2>2, ReconciledFields DEF Onward
  <2> QED
    BY <1>2, <1>5, <2>3, ReleaseStep DEF LateEnds
<1>6. CASE ~rt.pending
  <2>1. \/ rt' = [c EXCEPT !.at = "select"] /\ Quiet
        \/ \E o \in Outcomes("release") :
              /\ sup' = o.sup /\ late' = late \cup o.left
              /\ lates' = IF o.left = {} THEN lates ELSE lates + 1
              /\ rt' = Reconciled(Stopped(c), o.ok)
    BY <1>6 DEF Sees, CaughtRelease, Send
  <2> HIDE DEF c
  <2> QED
    BY <1>4, <1>5, <2>1
<1> QED
  BY <1>3, <1>6

\* A standby or an expired attempt releases and ends the tick.
LEMMA YieldsKeeps == ASSUME RuntimeIInv, Yields PROVE RuntimeIInv'
<1>1. PICK noted \in BOOLEAN, o \in Outcomes("release") :
         /\ sup' = o.sup /\ late' = late \cup o.left
         /\ lates' = IF o.left = {} THEN lates ELSE lates + 1
         /\ rt' = IF o.ok /\ ~noted THEN [rt EXCEPT !.pending = TRUE, !.at = "fault"]
                  ELSE [Reconciled(rt, o.ok) EXCEPT !.at = "tick"]
  BY DEF Yields, ReleaseThen, Send
<1>2. rt.at \in {"select", "chatted"} /\ UNCHANGED <<beat, pause>> /\ "tick" \in Stages
  BY DEF Yields, Stages
<1>3. rt \in RtStates /\ Onward(rt, rt)
  BY DEF RuntimeIInv, RuntimeTyped, Onward
<1> QED
  BY <1>1, <1>2, <1>3, ReleasedOnward

\* A reply in the game's chat releases before it types.
LEMMA ChatsKeeps == ASSUME RuntimeIInv, Chats PROVE RuntimeIInv'
<1>1. PICK typed \in BOOLEAN, o \in Outcomes("release") :
         /\ sup' = o.sup /\ late' = late \cup o.left
         /\ lates' = IF o.left = {} THEN lates ELSE lates + 1
         /\ rt' = IF o.ok /\ typed THEN [Reconciled(rt, o.ok) EXCEPT !.at = "chatted"]
                  ELSE Reconciled(rt, o.ok)
  BY DEF Chats, CaughtRelease, Send
<1>2. rt.at = "select" /\ UNCHANGED <<beat, pause>> /\ "chatted" \in Stages /\ rt \in RtStates
  BY DEF Chats, Stages, RuntimeIInv, RuntimeTyped
<1>3. o.ok \in BOOLEAN
  BY OutcomeFacts DEF RuntimeIInv
<1>4. Onward(rt', rt) /\ (o.ok \/ rt'.pending)
  <2>1. CASE o.ok /\ typed
    BY <1>1, <1>2, <1>3, <2>1, OnwardBy
  <2>2. CASE ~(o.ok /\ typed)
    BY <1>1, <1>2, <1>3, <2>2, ReconciledFields DEF Onward
  <2> QED
    BY <2>1, <2>2
<1> QED
  BY <1>1, <1>2, <1>4, ReleaseStep DEF LateEnds, Onward

BeatStates == [at : {"off", "loop", "asks", "over"}, missing : Nat]

\* The first renewal: whatever its outcome, nothing is pressed by it.
LEMMA StartKeeps == ASSUME RuntimeIInv, Start PROVE RuntimeIInv'
<1>1. rt \in RtStates /\ rt.at = "start" /\ UNCHANGED pause /\ beat \in BeatStates
      /\ rt.policy # "saved"
  BY DEF Start, RuntimeIInv, RuntimeTyped, BeatStates, SavesLast
<1>2. {"disarm", "assemble", "fault", "start"} \subseteq Stages
  BY DEF Stages
<1>3. \A at \in {"disarm", "assemble", "fault"} : \A s :
         rt' = [rt EXCEPT !.at = at] /\ Known(rt, s) /\ Confirmed(rt, s) =>
            /\ rt' \in RtStates /\ Known(rt', s) /\ Confirmed(rt', s) /\ SavesLast(rt')
            /\ LateEnds(rt) => LateEnds(rt')
  <2> SUFFICES ASSUME NEW at \in {"disarm", "assemble", "fault"}, NEW s,
                      rt' = [rt EXCEPT !.at = at], Known(rt, s), Confirmed(rt, s)
               PROVE  /\ rt' \in RtStates /\ Known(rt', s) /\ Confirmed(rt', s) /\ SavesLast(rt')
                      /\ LateEnds(rt) => LateEnds(rt')
    OBVIOUS
  <2>1. /\ rt' \in RtStates /\ rt'.at = at /\ rt'.stop = rt.stop /\ rt'.believes = rt.believes
        /\ rt'.pending = rt.pending /\ rt'.released = rt.released /\ rt'.policy = rt.policy
    BY <1>1, <1>2 DEF RtStates
  <2> QED
    BY <1>1, <2>1 DEF Known, Confirmed, SavesLast, LateEnds, KnownAt
<1>4. CASE rt.stop
  <2>1. rt' = [rt EXCEPT !.at = "disarm"] /\ UNCHANGED <<sup, late, lates, beat>>
    BY <1>4 DEF Start
  <2> QED
    BY <1>1, <1>3, <2>1, QuietStep DEF RuntimeIInv, RuntimeTyped
<1>5. CASE ~rt.stop
  <2>1. PICK o \in Outcomes("renew") :
           /\ sup' = o.sup /\ late' = late \cup o.left
           /\ lates' = IF o.left = {} THEN lates ELSE lates + 1
           /\ rt' = IF o.ok THEN [rt EXCEPT !.at = "assemble"]
                    ELSE [rt EXCEPT !.at = IF rt.stop \/ pause THEN "disarm" ELSE "fault"]
    BY <1>5 DEF Start, Send
  <2>2. beat' = [beat EXCEPT !.at = "loop"] \/ beat' = beat
    BY <1>5 DEF Start
  <2>3. beat' \in BeatStates
    BY <1>1, <2>2 DEF BeatStates
  <2>4. /\ o.sup.held => sup.held
        /\ sup.lease = "dead" => o.sup.lease = "dead"
        /\ "press" \notin o.left
    BY OutcomeFacts DEF RuntimeIInv
  <2>5. Known(rt, o.sup) /\ Confirmed(rt, o.sup)
    BY <2>4 DEF RuntimeIInv, Known, Confirmed
  <2>6. \E at \in {"disarm", "assemble", "fault"} : rt' = [rt EXCEPT !.at = at]
    BY <2>1
  <2> QED
    BY <1>1, <1>3, <2>1, <2>3, <2>4, <2>5, <2>6, CommandStep DEF BeatStates
<1> QED
  BY <1>4, <1>5

\* A step that only moves the main thread, and perhaps stops it.
LEMMA MovesQuietly ==
  ASSUME RuntimeIInv, Onward(rt', rt), Quiet, UNCHANGED <<beat, pause>>,
         LateEnds(rt) => LateEnds(rt'), rt.at \notin {"records", "over"},
         \/ rt'.at \notin KnownAt \/ rt'.stop
         \/ rt.at \in KnownAt /\ rt'.believes = rt.believes /\ rt'.pending = rt.pending
  PROVE  RuntimeIInv'
<1>1. Known(rt', sup) /\ Confirmed(rt', sup) /\ SavesLast(rt')
  BY DEF RuntimeIInv, Known, Confirmed, SavesLast, Onward
<1> QED
  BY <1>1, QuietStep DEF RuntimeIInv, RuntimeTyped, Onward, Quiet

\* Assembling presses nothing.
LEMMA AssembleKeeps == ASSUME RuntimeIInv, Assemble PROVE RuntimeIInv'
<1>1. rt \in RtStates /\ rt.at = "assemble" /\ UNCHANGED <<beat, pause>>
  BY DEF Assemble, RuntimeIInv, RuntimeTyped
<1>2. {"disarm", "tick", "fault"} \subseteq Stages
  BY DEF Stages
<1>3. ASSUME NEW at \in {"disarm", "tick", "fault"}, rt' = [rt EXCEPT !.at = at], Quiet
      PROVE  RuntimeIInv'
  <2>1. Onward(rt', rt) /\ rt'.believes = rt.believes /\ rt'.pending = rt.pending /\ rt'.stop = rt.stop
    BY <1>1, <1>2, <1>3 DEF Onward, RtStates
  <2> QED
    BY <1>1, <1>3, <2>1, MovesQuietly DEF LateEnds, KnownAt
<1>4. ASSUME NEW o \in Outcomes("release"), sup' = o.sup, late' = late \cup o.left,
             lates' = IF o.left = {} THEN lates ELSE lates + 1,
             rt' = [Reconciled(Stopped(rt), o.ok) EXCEPT !.at = "disarm"]
      PROVE  RuntimeIInv'
  <2>1. o.ok \in BOOLEAN
    BY OutcomeFacts DEF RuntimeIInv
  <2>2. Stopped(rt) \in RtStates /\ Onward(Stopped(rt), rt)
    BY <1>1, StoppedFields DEF Onward
  <2>3. Onward(rt', rt) /\ (o.ok \/ rt'.pending)
    BY <1>2, <1>4, <2>1, <2>2, OnwardBy, OnwardOn
  <2> QED
    BY <1>1, <1>4, <2>3, ReleaseStep DEF LateEnds, Onward
<1> QED
  BY <1>3, <1>4 DEF Assemble, CaughtRelease, Send

\* What the executor proposes is not yet sent.
LEMMA ProposesKeeps == ASSUME RuntimeIInv, Proposes PROVE RuntimeIInv'
<1>1. rt \in RtStates /\ rt.at = "select" /\ Quiet /\ UNCHANGED <<beat, pause>>
  BY DEF Proposes, RuntimeIInv, RuntimeTyped
<1>2. {"send", "tick", "fault"} \subseteq Stages
  BY DEF Stages
<1>3. ASSUME NEW at \in {"tick", "fault"}, rt' = [rt EXCEPT !.at = at] PROVE RuntimeIInv'
  <2>1. Onward(rt', rt) /\ rt'.believes = rt.believes /\ rt'.pending = rt.pending /\ rt'.stop = rt.stop
    BY <1>1, <1>2, <1>3 DEF Onward, RtStates
  <2> QED
    BY <1>1, <2>1, MovesQuietly DEF LateEnds, KnownAt
<1>4. ASSUME NEW b \in BOOLEAN, rt' = [rt EXCEPT !.at = "send", !.believes = b] PROVE RuntimeIInv'
  <2>1. Onward(rt', rt) /\ rt'.at = "send" /\ rt'.stop = rt.stop
    BY <1>1, <1>2, <1>4 DEF Onward, RtStates
  <2> QED
    BY <1>1, <2>1, MovesQuietly DEF LateEnds, KnownAt
<1>5. \/ \E at \in {"tick", "fault"} : rt' = [rt EXCEPT !.at = at]
      \/ \E b \in BOOLEAN : rt' = [rt EXCEPT !.at = "send", !.believes = b]
  BY DEF Proposes
<1> QED
  BY <1>3, <1>4, <1>5

\* The motor action of a tick is sent, dropped with its holds, or ends the run.
LEMMA SendMotorKeeps == ASSUME RuntimeIInv, SendMotor PROVE RuntimeIInv'
<1>1. rt \in RtStates /\ rt.at = "send" /\ UNCHANGED <<beat, pause>>
  BY DEF SendMotor, RuntimeIInv, RuntimeTyped
<1>2. {"send", "tick", "fault"} \subseteq Stages
  BY DEF Stages
<1>3. ASSUME rt' = [Stopping(rt) EXCEPT !.at = "tick"], Quiet PROVE RuntimeIInv'
  <2>2. Onward(rt', rt) /\ rt'.stop
    BY <1>1, <1>2, <1>3 DEF Onward, RtStates, Stopping
  <2> QED
    BY <1>1, <1>3, <2>2, MovesQuietly DEF LateEnds
<1>4. ASSUME rt' = [rt EXCEPT !.at = "fault"], Quiet PROVE RuntimeIInv'
  <2>1. Onward(rt', rt) /\ rt'.at = "fault"
    BY <1>1, <1>2, <1>4, OnwardBy, MovedFields
  <2> QED
    BY <1>1, <1>4, <2>1, MovesQuietly DEF LateEnds, KnownAt
<1>5. ASSUME NEW noted \in BOOLEAN, NEW o \in Outcomes("release"),
             sup' = o.sup, late' = late \cup o.left,
             lates' = IF o.left = {} THEN lates ELSE lates + 1,
             NEW at \in {"tick", "fault"},
             rt' = IF o.ok /\ ~noted THEN [rt EXCEPT !.pending = TRUE, !.at = "fault"]
                   ELSE [Reconciled(rt, o.ok) EXCEPT !.at = at]
      PROVE  RuntimeIInv'
  <2>1. Onward(rt, rt) /\ at \in Stages
    BY <1>1, <1>2 DEF Onward
  <2> QED
    BY <1>1, <1>5, <2>1, ReleasedOnward
<1>6. ASSUME ~rt.stop, NEW o \in Outcomes(IF rt.believes THEN "press" ELSE "quiet"),
             sup' = o.sup, late' = late \cup o.left,
             lates' = IF o.left = {} THEN lates ELSE lates + 1,
             rt' = IF o.ok THEN [rt EXCEPT !.at = "tick"]
                   ELSE IF rt.stop \/ pause THEN [Stopping(rt) EXCEPT !.at = "tick"]
                   ELSE [rt EXCEPT !.at = "fault"]
      PROVE  RuntimeIInv'
  <2> DEFINE command == IF rt.believes THEN "press" ELSE "quiet"
  <2>1. /\ command \in {"press", "quiet"}
        /\ command = "press" => rt.believes
        /\ o \in Outcomes(command)
    BY <1>6
  <2> HIDE DEF command
  <2>2. /\ sup.lease = "dead" => o.sup.lease = "dead"
        /\ command = "quiet" /\ o.ok => ~o.sup.held
        /\ "press" \in o.left => ~o.ok
    BY <2>1, OutcomeFacts DEF RuntimeIInv
  <2>3. ASSUME Onward(rt', rt), Known(rt', o.sup), "press" \in o.left => LateEnds(rt'),
               LateEnds(rt) => LateEnds(rt')
        PROVE  RuntimeIInv'
    <3>1. Confirmed(rt', o.sup) /\ SavesLast(rt')
      BY <1>1, <2>2, <2>3 DEF Confirmed, SavesLast, Onward, RuntimeIInv
    <3>2. beat' \in BeatStates
      BY <1>1 DEF RuntimeIInv, RuntimeTyped, BeatStates
    <3> QED
      BY <1>1, <1>6, <2>1, <2>3, <3>1, <3>2, CommandStep DEF Onward, BeatStates
  <2>4. CASE o.ok
    <3>1. Onward(rt', rt) /\ rt'.believes = rt.believes /\ rt'.stop = rt.stop
      BY <1>1, <1>2, <1>6, <2>4, OnwardBy, MovedFields
    <3>2. Known(rt', o.sup)
      BY <2>1, <2>2, <2>4, <3>1 DEF Known
    <3> QED
      BY <1>1, <1>6, <2>2, <2>3, <2>4, <3>1, <3>2 DEF LateEnds
  <2>5. CASE ~o.ok /\ pause
    <3>1. rt' = [Stopping(rt) EXCEPT !.at = "tick"]
      BY <1>6, <2>5
    <3>2. Onward(rt', rt) /\ rt'.stop
      BY <1>1, <1>2, <3>1 DEF Onward, RtStates, Stopping
    <3> QED
      BY <2>3, <3>2 DEF LateEnds, Known
  <2>6. CASE ~o.ok /\ ~pause
    <3>1. Onward(rt', rt) /\ rt'.at = "fault"
      BY <1>1, <1>2, <1>6, <2>6, OnwardBy, MovedFields
    <3> QED
      BY <2>3, <3>1 DEF LateEnds, Known, KnownAt
  <2> QED
    BY <2>4, <2>5, <2>6
<1>7. CASE rt.stop \/ pause
  BY <1>3, <1>7 DEF SendMotor
<1>8. CASE ~(rt.stop \/ pause) /\ rt.pending
  BY <1>4, <1>8 DEF SendMotor
<1>9. CASE ~(rt.stop \/ pause) /\ ~rt.pending
  <2>1. \/ Drops
        \/ ReleaseThen(rt, LAMBDA c, ok : [c EXCEPT !.at = IF ok THEN "tick" ELSE "fault"])
        \/ Send(IF rt.believes THEN "press" ELSE "quiet",
                LAMBDA ok : IF ok THEN [rt EXCEPT !.at = "tick"]
                            ELSE IF rt.stop \/ pause THEN [Stopping(rt) EXCEPT !.at = "tick"]
                            ELSE [rt EXCEPT !.at = "fault"])
    BY <1>9 DEF SendMotor
  <2>2. CASE Drops
    BY <1>5, <2>2 DEF Drops, ReleaseThen, Send
  <2>3. CASE ReleaseThen(rt, LAMBDA c, ok : [c EXCEPT !.at = IF ok THEN "tick" ELSE "fault"])
    <3>1. PICK noted \in BOOLEAN, o \in Outcomes("release") :
             /\ sup' = o.sup /\ late' = late \cup o.left
             /\ lates' = IF o.left = {} THEN lates ELSE lates + 1
             /\ rt' = IF o.ok /\ ~noted THEN [rt EXCEPT !.pending = TRUE, !.at = "fault"]
                      ELSE [Reconciled(rt, o.ok) EXCEPT !.at = IF o.ok THEN "tick" ELSE "fault"]
      BY <2>3 DEF ReleaseThen, Send
    <3>2. CASE o.ok
      BY <1>5, <3>1, <3>2
    <3>3. CASE ~o.ok
      BY <1>5, <3>1, <3>3
    <3> QED
      BY <3>2, <3>3
  <2>4. CASE Send(IF rt.believes THEN "press" ELSE "quiet",
                  LAMBDA ok : IF ok THEN [rt EXCEPT !.at = "tick"]
                              ELSE IF rt.stop \/ pause THEN [Stopping(rt) EXCEPT !.at = "tick"]
                              ELSE [rt EXCEPT !.at = "fault"])
    BY <1>6, <1>9, <2>4 DEF Send
  <2> QED
    BY <2>1, <2>2, <2>3, <2>4
<1> QED
  BY <1>7, <1>8, <1>9

\* The failsafe and the disarm of the shutdown both kill the lease; only the
\* acknowledged disarm is taken for it.
LEMMA EndsTheLease == ASSUME RuntimeIInv, Failsafe \/ Disarm PROVE RuntimeIInv'
<1>1. rt \in RtStates /\ UNCHANGED <<beat, pause>> /\ beat \in BeatStates
  BY DEF Failsafe, Disarm, RuntimeIInv, RuntimeTyped, BeatStates
<1>2. {"disarm", "owners", "fault"} \subseteq Stages
  BY DEF Stages
<1>3. CASE Failsafe
  <2>1. rt.at = "fault"
    BY <1>3 DEF Failsafe
  <2>2. PICK o \in Outcomes("fault") :
           /\ sup' = o.sup /\ late' = late \cup o.left
           /\ lates' = IF o.left = {} THEN lates ELSE lates + 1
           /\ rt' = [rt EXCEPT !.at = "disarm"]
    BY <1>3 DEF Failsafe, Send
  <2>3. Onward(rt', rt) /\ rt'.at = "disarm"
    BY <1>1, <1>2, <2>2 DEF Onward, RtStates
  <2>4. (sup.lease = "dead" => o.sup.lease = "dead") /\ "press" \notin o.left
    BY OutcomeFacts DEF RuntimeIInv
  <2>5. Known(rt', o.sup) /\ Confirmed(rt', o.sup) /\ SavesLast(rt')
    BY <2>1, <2>3, <2>4 DEF Known, Confirmed, SavesLast, Onward, RuntimeIInv, KnownAt
  <2> QED
    BY <1>1, <2>2, <2>3, <2>4, <2>5, CommandStep DEF LateEnds, Onward, BeatStates
<1>4. CASE Disarm
  <2> DEFINE c == [Stopped(rt) EXCEPT !.at = "owners"]
  <2>1. rt.at = "disarm"
    BY <1>4 DEF Disarm
  <2>2. /\ c \in RtStates /\ c.at = "owners" /\ c.stop
        /\ c.released = rt.released /\ c.policy = rt.policy /\ Onward(c, rt)
    <3> DEFINE d == Stopped(rt)
    <3>1. d \in RtStates /\ d.stop /\ d.released = rt.released /\ d.policy = rt.policy
      BY <1>1, StoppedFields
    <3> HIDE DEF d
    <3>2. /\ [d EXCEPT !.at = "owners"] \in RtStates /\ [d EXCEPT !.at = "owners"].at = "owners"
          /\ [d EXCEPT !.at = "owners"].stop = d.stop
          /\ [d EXCEPT !.at = "owners"].released = d.released
          /\ [d EXCEPT !.at = "owners"].policy = d.policy
      BY <1>2, <3>1 DEF RtStates
    <3> QED
      BY <3>1, <3>2 DEF d, Onward
  <2>3. CASE c.budget = "gone"
    <3>1. rt' = c /\ Quiet
      BY <1>4, <2>3 DEF Disarm
    <3> HIDE DEF c
    <3> QED
      BY <1>1, <2>1, <2>2, <3>1, MovesQuietly DEF LateEnds
  <2>4. CASE c.budget # "gone"
    <3>1. PICK o \in Outcomes("disarm") :
             /\ sup' = o.sup /\ late' = late \cup o.left
             /\ lates' = IF o.left = {} THEN lates ELSE lates + 1
             /\ rt' = [c EXCEPT !.released = o.ok]
      BY <1>4, <2>4 DEF Disarm, Send
    <3> HIDE DEF c
    <3>2. /\ o.ok \in BOOLEAN /\ "press" \notin o.left
          /\ sup.lease = "dead" => o.sup.lease = "dead"
          /\ o.ok => o.sup.lease = "dead"
      BY OutcomeFacts DEF RuntimeIInv
    <3>3. /\ rt' \in RtStates /\ rt'.at = "owners" /\ rt'.stop = c.stop
          /\ rt'.released = o.ok /\ rt'.policy = c.policy
      BY <2>2, <3>1, <3>2 DEF RtStates
    <3>4. rt.policy # "saved"
      BY <2>1 DEF RuntimeIInv, SavesLast
    <3>5. Known(rt', o.sup) /\ Confirmed(rt', o.sup) /\ SavesLast(rt')
      BY <2>2, <3>2, <3>3, <3>4 DEF Known, Confirmed, SavesLast, KnownAt
    <3> QED
      BY <1>1, <2>2, <3>1, <3>2, <3>3, <3>5, CommandStep DEF LateEnds, BeatStates
  <2> QED
    BY <2>3, <2>4
<1> QED
  BY <1>3, <1>4

\* The rest of the shutdown: the owners, the policy and the records.
LEMMA ClosingStepsKeep ==
  ASSUME RuntimeIInv, TickStops \/ CaptureFails \/ Owners \/ RetirePolicy \/ Records
  PROVE  RuntimeIInv'
<1>1. rt \in RtStates /\ Quiet /\ UNCHANGED <<beat, pause>> /\ beat \in BeatStates /\ pause \in BOOLEAN
  BY DEF TickStops, CaptureFails, Owners, RetirePolicy, Records, RuntimeIInv, RuntimeTyped, BeatStates
<1>2. {"disarm", "fault", "policy", "records", "over"} \subseteq Stages
  BY DEF Stages
<1>3. CASE TickStops \/ CaptureFails \/ Owners
  <2>1. /\ rt.at \in {"tick", "owners"}
        /\ \E at \in {"disarm", "fault", "policy"} : rt' = [rt EXCEPT !.at = at]
    BY <1>3 DEF TickStops, CaptureFails, Owners
  <2>2. Onward(rt', rt) /\ rt'.at \in {"disarm", "fault", "policy"}
    BY <1>1, <1>2, <2>1 DEF Onward, RtStates
  <2> QED
    BY <1>1, <2>1, <2>2, MovesQuietly DEF LateEnds, KnownAt
<1>4. CASE RetirePolicy
  <2>1. PICK p \in {"bare", "saved"} :
           /\ rt' = [rt EXCEPT !.at = "records", !.policy = p]
           /\ p = "saved" => rt.released
    BY <1>4 DEF RetirePolicy, ToldReleased
  <2>2. /\ rt' \in RtStates /\ rt'.at = "records" /\ rt'.policy = p /\ rt'.released = rt.released
    BY <1>1, <1>2, <2>1 DEF RtStates
  <2>3. Known(rt', sup) /\ Confirmed(rt', sup) /\ SavesLast(rt') /\ LateEnds(rt')
    BY <2>1, <2>2 DEF Known, Confirmed, SavesLast, LateEnds, KnownAt, RuntimeIInv
  <2> QED
    BY <1>1, <2>2, <2>3, QuietStep DEF Quiet, BeatStates
<1>5. CASE Records
  <2>1. rt' = [rt EXCEPT !.at = "over"]
    BY <1>5 DEF Records
  <2>2. /\ rt' \in RtStates /\ rt'.at = "over" /\ rt'.policy = rt.policy /\ rt'.released = rt.released
    BY <1>1, <1>2, <2>1 DEF RtStates
  <2>3. Known(rt', sup) /\ Confirmed(rt', sup) /\ SavesLast(rt') /\ LateEnds(rt')
    BY <2>2 DEF Known, Confirmed, SavesLast, LateEnds, KnownAt, RuntimeIInv
  <2> QED
    BY <1>1, <2>2, <2>3, QuietStep DEF Quiet, BeatStates
<1> QED
  BY <1>3, <1>4, <1>5

\* The heartbeat may stop the run; it never revives a lease or presses a key.
LEMMA BeatKeeps == ASSUME RuntimeIInv, BeatThread PROVE RuntimeIInv'
<1>1. /\ rt \in RtStates /\ beat \in BeatStates /\ pause' = pause /\ UNCHANGED <<late, lates>>
      /\ RuntimeTyped
  BY DEF BeatThread, HeartbeatAsks, HeartbeatHears, HeartbeatEnds, RuntimeIInv, RuntimeTyped, BeatStates
<1>2. CASE HeartbeatAsks \/ HeartbeatEnds
  <2>1. UNCHANGED <<rt, sup>> /\ \E at \in {"asks", "over"} : beat' = [beat EXCEPT !.at = at]
    BY <1>2 DEF HeartbeatAsks, HeartbeatEnds
  <2>2. beat' \in BeatStates
    BY <1>1, <2>1 DEF BeatStates
  <2> QED
    BY <1>1, <2>1, <2>2, QuietStep DEF RuntimeIInv, RuntimeTyped, BeatStates
<1>3. CASE HeartbeatHears
  <2>1. PICK o \in Outcomes("renew") :
           /\ sup' = o.sup
           /\ IF o.ok THEN beat' = [BeatWait EXCEPT !.missing = 0] /\ UNCHANGED rt
              ELSE IF beat.missing + 1 < 2
                   THEN beat' = [BeatWait EXCEPT !.missing = @ + 1] /\ UNCHANGED rt
                   ELSE beat' = [beat EXCEPT !.at = "over"] /\ rt' = Stopping(rt)
    BY <1>3 DEF HeartbeatHears
  <2>2. /\ o.sup \in SupStates /\ DeadIsClear(o.sup)
        /\ o.sup.held => sup.held
        /\ sup.lease = "dead" => o.sup.lease = "dead"
    BY OutcomeFacts DEF RuntimeIInv
  <2>3. BeatWait \in BeatStates
    BY <1>1 DEF BeatWait, BeatStates
  <2>4. beat' \in BeatStates
    <3>1. \/ beat' = [BeatWait EXCEPT !.missing = 0]
          \/ beat' = [BeatWait EXCEPT !.missing = @ + 1]
          \/ beat' = [beat EXCEPT !.at = "over"]
      BY <2>1
    <3> HIDE DEF BeatWait
    <3> QED
      BY <1>1, <2>3, <3>1 DEF BeatStates
  <2>5. CASE rt' = rt
    <3>1. Known(rt', o.sup) /\ Confirmed(rt', o.sup) /\ SavesLast(rt')
      BY <2>2, <2>5 DEF RuntimeIInv, Known, Confirmed
    <3>2. RuntimeTyped'
      BY <1>1, <2>1, <2>2, <2>4, <2>5 DEF RuntimeTyped, BeatStates
    <3> QED
      BY <1>1, <2>1, <2>2, <2>5, <3>1, <3>2 DEF RuntimeIInv, LateEnds, DeadIsClear, Known, Confirmed
  <2>6. CASE rt' = Stopping(rt)
    <3>1. /\ rt' \in RtStates /\ rt'.stop /\ rt'.at = rt.at /\ rt'.released = rt.released
          /\ rt'.policy = rt.policy
      BY <1>1, <2>6, StoppedFields
    <3>2. Known(rt', o.sup) /\ Confirmed(rt', o.sup) /\ SavesLast(rt') /\ LateEnds(rt')
      BY <2>2, <3>1 DEF RuntimeIInv, Known, Confirmed, SavesLast, LateEnds
    <3>3. RuntimeTyped'
      BY <1>1, <2>1, <2>2, <2>4, <3>1 DEF RuntimeTyped, BeatStates
    <3> QED
      BY <1>1, <2>1, <2>2, <3>2, <3>3 DEF RuntimeIInv, LateEnds, DeadIsClear, Known, Confirmed, SavesLast
  <2> QED
    BY <2>1, <2>5, <2>6
<1> QED
  BY <1>2, <1>3 DEF BeatThread

\* Time, the operator and the supervisor: a lease dies, and an input that
\* outlived its caller is carried out.
LEMMA OutsideKeeps ==
  ASSUME RuntimeIInv, BudgetRuns \/ StopCalled \/ OperatorPauses \/ Lapses \/ LateCommand
  PROVE  RuntimeIInv'
<1>1. rt \in RtStates /\ beat' = beat /\ beat \in BeatStates /\ RuntimeTyped /\ sup \in SupStates
  BY DEF BudgetRuns, StopCalled, OperatorPauses, Lapses, LateCommand, RuntimeIInv, RuntimeTyped, BeatStates
<1>2. CASE BudgetRuns
  <2>1. rt' = [rt EXCEPT !.budget = IF rt.budget = "ample" THEN "low" ELSE "gone"]
        /\ Quiet /\ UNCHANGED pause
    BY <1>2 DEF BudgetRuns
  <2>2. /\ rt' \in RtStates /\ rt'.at = rt.at /\ rt'.stop = rt.stop /\ rt'.believes = rt.believes
        /\ rt'.pending = rt.pending /\ rt'.released = rt.released /\ rt'.policy = rt.policy
    BY <1>1, <2>1 DEF RtStates
  <2>3. Known(rt', sup) /\ Confirmed(rt', sup) /\ SavesLast(rt') /\ (LateEnds(rt) => LateEnds(rt'))
    BY <2>2 DEF RuntimeIInv, Known, Confirmed, SavesLast, LateEnds
  <2> QED
    BY <1>1, <2>1, <2>2, <2>3, QuietStep DEF Quiet, BeatStates, RuntimeTyped
<1>3. CASE StopCalled
  <2>1. rt' = Stopped(rt) /\ Quiet /\ UNCHANGED pause
    BY <1>3 DEF StopCalled
  <2>2. /\ rt' \in RtStates /\ rt'.at = rt.at /\ rt'.stop
        /\ rt'.released = rt.released /\ rt'.policy = rt.policy
    BY <1>1, <2>1, StoppedFields
  <2>3. Known(rt', sup) /\ Confirmed(rt', sup) /\ SavesLast(rt') /\ LateEnds(rt')
    BY <2>2 DEF RuntimeIInv, Known, Confirmed, SavesLast, LateEnds
  <2> QED
    BY <1>1, <2>1, <2>2, <2>3, QuietStep DEF Quiet, BeatStates, RuntimeTyped
<1>4. CASE OperatorPauses \/ Lapses
  <2>1. /\ sup' = Revoked(sup) /\ UNCHANGED <<rt, beat, late, lates>> /\ pause' \in BOOLEAN
    BY <1>1, <1>4 DEF OperatorPauses, Lapses, RuntimeTyped
  <2>2. sup' \in SupStates /\ sup'.lease = "dead" /\ ~sup'.held
    BY <2>1 DEF Revoked, SupStates
  <2> QED
    BY <1>1, <2>1, <2>2 DEF RuntimeIInv, RuntimeTyped, DeadIsClear, Known, Confirmed, SavesLast, LateEnds
<1>5. CASE LateCommand
  <2>1. PICK c \in late : late' = late \ {c} /\ sup' = Obeyed(c, sup)
    BY <1>5 DEF LateCommand
  <2>2. UNCHANGED <<rt, beat, lates, pause>> /\ c \in {"press", "release"}
    BY <1>1, <1>5, <2>1 DEF LateCommand, RuntimeTyped
  <2>3. CASE sup.lease = "dead"
    <3>1. sup' = sup
      BY <2>1, <2>2, <2>3 DEF Obeyed, Needs
    <3> QED
      BY <1>1, <2>1, <2>2, <3>1 DEF RuntimeIInv, RuntimeTyped, LateEnds
  <2>4. CASE sup.lease # "dead" /\ c = "press"
    <3>1. sup' = [sup EXCEPT !.held = TRUE]
      BY <2>1, <2>4 DEF Obeyed, Effect
    <3>2. sup' \in SupStates /\ sup'.lease = sup.lease
      BY <1>1, <3>1 DEF SupStates
    <3>3. LateEnds(rt)
      BY <2>1, <2>4 DEF RuntimeIInv
    <3>4. Known(rt', sup') /\ Confirmed(rt', sup') /\ DeadIsClear(sup')
      BY <2>2, <2>4, <3>2, <3>3 DEF RuntimeIInv, Known, Confirmed, DeadIsClear, LateEnds, KnownAt
    <3> QED
      BY <1>1, <2>1, <2>2, <3>2, <3>3, <3>4 DEF RuntimeIInv, RuntimeTyped, LateEnds, Known, Confirmed,
         DeadIsClear, SavesLast
  <2>5. CASE sup.lease # "dead" /\ c = "release"
    <3>1. sup' = [sup EXCEPT !.held = FALSE]
      BY <2>1, <2>5 DEF Obeyed, Effect
    <3>2. sup' \in SupStates /\ sup'.lease = sup.lease /\ ~sup'.held
      BY <1>1, <3>1 DEF SupStates
    <3> QED
      BY <1>1, <2>1, <2>2, <3>2 DEF RuntimeIInv, RuntimeTyped, LateEnds, Known, Confirmed, DeadIsClear,
         SavesLast
  <2> QED
    BY <2>2, <2>3, <2>4, <2>5
<1> QED
  BY <1>2, <1>3, <1>4, <1>5

\* Before the first tick nothing is held, owed or saved.
LEMMA RuntimeInitial == ASSUME RuntimeInit PROVE RuntimeIInv
<1>1. /\ rt \in RtStates /\ rt.at = "start" /\ ~rt.released /\ rt.policy = "up"
      /\ sup \in SupStates /\ sup.lease = "live" /\ ~sup.held
  BY DEF RuntimeInit, RtStates, SupStates, Stages
<1> QED
  BY <1>1 DEF RuntimeInit, RuntimeIInv, RuntimeTyped, DeadIsClear, Known, Confirmed, SavesLast, LateEnds

\* Every step of the run, its heartbeat and the world keeps the invariant.
LEMMA RuntimeStep == ASSUME RuntimeIInv, [RuntimeNext]_runtimeVars PROVE RuntimeIInv'
<1>1. CASE MainThread
  BY <1>1, StartKeeps, AssembleKeeps, StallsKeeps, SeesKeeps, YieldsKeeps, ChatsKeeps, ProposesKeeps,
     SendMotorKeeps, EndsTheLease, ClosingStepsKeep DEF MainThread
<1>2. CASE BeatThread
  BY <1>2, BeatKeeps
<1>3. CASE BudgetRuns \/ StopCalled \/ OperatorPauses \/ Lapses \/ LateCommand
  BY <1>3, OutsideKeeps
<1>4. CASE UNCHANGED runtimeVars
  BY <1>4 DEF runtimeVars, RuntimeIInv, RuntimeTyped, DeadIsClear, Known, Confirmed, SavesLast, LateEnds
<1> QED
  BY <1>1, <1>2, <1>3, <1>4 DEF RuntimeNext

\* No key is down between ticks without the agent's knowledge, and nothing is
\* saved before the inputs are released for good, whatever replies are lost and
\* however many commands are carried out after their caller gave up (runtime.py).
THEOREM InputsSafety == RuntimeSpec => []InputsAccounted
<1>1. RuntimeInit => RuntimeIInv
  BY RuntimeInitial
<1>2. RuntimeIInv /\ [RuntimeNext]_runtimeVars => RuntimeIInv'
  BY RuntimeStep
<1>3. RuntimeIInv => InputsAccounted
  BY DEF RuntimeIInv, InputsAccounted, HoldsKnown, SavedInTheClear, Known, KnownAt, Confirmed, DeadIsClear
<1> QED
  BY <1>1, <1>2, <1>3, PTL DEF RuntimeSpec

(***************************************************************************)
(* The trajectory recorder.  What is on disk, in the open shard, in the    *)
(* writer's hand and in the queue are stretches of one recording, each of  *)
(* which begins where the one before it ends.                              *)
(***************************************************************************)
SampleSet == [index : Nat, action : Nat \ {0}, previous : Nat, lost : Nat]

\* The stretch s begins with step n, after action a, and can be replayed.
Replays(s, n, a) ==
  \A i \in 1 .. Len(s) :
     /\ s[i].index = n + (i - 1)
     /\ s[i].action = s[i].previous + 1
     /\ s[i].previous = (IF i = 1 THEN a ELSE s[i - 1].action) + s[i].lost

\* The last action of the stretch s, which began after action a.
ActionAfter(s, a) == IF Len(s) = 0 THEN a ELSE s[Len(s)].action

Writing  == {"gets", "seals", "indexes", "appends"}
Carrying   == {"seals", "indexes", "appends"}
Indexing == {"indexes", "indexes last"}

\* Where what the writer has written ends: a shard that is being indexed is on disk.
WrittenLen == IF pen.at \in Indexing THEN Len(disk.sealed) ELSE Len(disk.sealed) + Len(pen.shard)
WrittenAct == IF pen.at \in Indexing THEN ActionAfter(disk.sealed, 0)
              ELSE ActionAfter(pen.shard, ActionAfter(disk.sealed, 0))

\* And with the sample it has in hand.
Held == IF pen.at \in Carrying THEN 1 ELSE 0
TakenLen == WrittenLen + Held
TakenAct == IF pen.at \in Carrying THEN pen.sample.action ELSE WrittenAct

Places ==
  {"gets", "seals", "indexes", "appends", "closes", "seals last", "indexes last", "ends", "over"}

RecSet ==
  [index : Nat, previous : Nat, lost : Nat, written : Nat, dropped : Nat,
   closed : BOOLEAN, signalled : BOOLEAN, error : BOOLEAN, disabled : BOOLEAN]
PenSet ==
  [at : Places,
   sample : SampleSet \cup {NoSample}, shard : Seq(SampleSet), poisoned : BOOLEAN]
DiskSet == [sealed : Seq(SampleSet), ended : BOOLEAN, accepted : Nat, dropped : Nat]

RecorderTyped ==
  /\ rec \in RecSet /\ pen \in PenSet /\ disk \in DiskSet
  /\ offers \in Nat /\ counted \in Nat
  /\ closing \in {"no", "signals", "joins", "timed out", "failed", "sealed"}

\* What is written can be replayed, and the sample in hand comes next.
WrittenReplays ==
  /\ Replays(disk.sealed, 0, 0)
  /\ IF pen.at \in Indexing THEN Len(pen.shard) <= Len(disk.sealed)
     ELSE Replays(pen.shard, Len(disk.sealed), ActionAfter(disk.sealed, 0))
  /\ pen.at \in Carrying =>
       /\ pen.sample \in SampleSet /\ pen.sample.index = WrittenLen
       /\ pen.sample.action = pen.sample.previous + 1
       /\ pen.sample.previous = WrittenAct + pen.sample.lost

\* What q says of the recording: the samples that wait come next, while any of
\* them may still be written, and nothing that was counted is missing.
Waiting(q) ==
  /\ line = q \/ (line = Append(q, EndMark) /\ rec.signalled)
  /\ pen.at \in Writing /\ ~rec.disabled =>
       /\ Replays(q, TakenLen, TakenAct)
       /\ rec.index = TakenLen + Len(q) /\ rec.previous = ActionAfter(q, TakenAct) + rec.lost
  /\ ~rec.error =>
       rec.written + rec.dropped + Held + Len(q) = counted

LineWaits == \E q \in Seq(SampleSet) : Waiting(q)

\* One end mark, after the last sample; and what is known once it was read.
Signalled ==
  /\ rec.signalled => rec.closed
  /\ closing = "signals" => rec.closed /\ ~rec.signalled
  /\ pen.at \notin Writing /\ ~rec.error => line = <<>> /\ rec.signalled
  /\ ~rec.disabled => rec.previous = offers

\* The count of the steps, up to the manifest.
Counts ==
  /\ pen.poisoned => pen.at \in {"closes", "over"} /\ pen.shard = <<>>
  /\ pen.at = "ends" => pen.shard = <<>>
  /\ ~pen.poisoned /\ pen.at # "over" => rec.written = WrittenLen
  /\ disk.ended => pen.at = "over" /\ disk.accepted = Len(disk.sealed)
  /\ pen.at = "over" /\ ~rec.error => disk.ended /\ disk.accepted + disk.dropped = counted
  /\ closing = "sealed" => pen.at = "over" /\ ~rec.error

RecorderIInv == RecorderTyped /\ WrittenReplays /\ LineWaits /\ Signalled /\ Counts

\* A stretch and one that continues it are one stretch.
LEMMA JoinedReplays ==
  ASSUME NEW s \in Seq(SampleSet), NEW t \in Seq(SampleSet), NEW n \in Nat, NEW a \in Nat,
         Replays(s, n, a), Replays(t, n + Len(s), ActionAfter(s, a))
  PROVE  /\ s \o t \in Seq(SampleSet) /\ Len(s \o t) = Len(s) + Len(t)
         /\ Replays(s \o t, n, a)
         /\ ActionAfter(s \o t, a) = ActionAfter(t, ActionAfter(s, a))
<1> DEFINE u == s \o t
<1>1. /\ u \in Seq(SampleSet) /\ Len(u) = Len(s) + Len(t) /\ Len(s) \in Nat /\ Len(t) \in Nat
      /\ \A i \in 1 .. Len(u) : u[i] = IF i <= Len(s) THEN s[i] ELSE t[i - Len(s)]
  OBVIOUS
<1>2. ASSUME NEW i \in 1 .. Len(u)
      PROVE  /\ u[i].index = n + (i - 1) /\ u[i].action = u[i].previous + 1
             /\ u[i].previous = (IF i = 1 THEN a ELSE u[i - 1].action) + u[i].lost
  <2>1. CASE i <= Len(s)
    <3>1. u[i] = s[i] /\ i \in 1 .. Len(s) /\ (i # 1 => u[i - 1] = s[i - 1])
      BY <1>1, <2>1
    <3> QED
      BY <3>1 DEF Replays
  <2>2. CASE i > Len(s)
    <3> DEFINE j == i - Len(s)
    <3>1. j \in 1 .. Len(t) /\ u[i] = t[j] /\ (j # 1 => u[i - 1] = t[j - 1] /\ i # 1)
      BY <1>1, <2>2
    <3>2. j = 1 => (IF i = 1 THEN a ELSE u[i - 1].action) = ActionAfter(s, a)
      <4>1. CASE j = 1 /\ Len(s) = 0
        BY <4>1, <1>1 DEF ActionAfter
      <4>2. CASE j = 1 /\ Len(s) # 0
        <5>1. i = Len(s) + 1 /\ Len(s) \in 1 .. Len(u) /\ u[Len(s)] = s[Len(s)]
          BY <4>2, <1>1, <2>2
        <5> QED
          BY <5>1, <4>2, <1>1 DEF ActionAfter
      <4> QED
        BY <4>1, <4>2
    <3>3. /\ t[j].index = n + Len(s) + (j - 1) /\ t[j].action = t[j].previous + 1
          /\ t[j].previous = (IF j = 1 THEN ActionAfter(s, a) ELSE t[j - 1].action) + t[j].lost
      BY <3>1 DEF Replays
    <3>4. n + Len(s) + (j - 1) = n + (i - 1)
      BY <1>1
    <3> QED
      BY <3>1, <3>2, <3>3, <3>4
  <2> QED
    BY <2>1, <2>2, <1>1
<1>3. Replays(u, n, a)
  BY <1>2 DEF Replays
<1>4. ActionAfter(u, a) = ActionAfter(t, ActionAfter(s, a))
  BY <1>1 DEF ActionAfter
<1> QED
  BY <1>1, <1>3, <1>4

\* A stretch and the sample that comes next.
LEMMA AppendedReplays ==
  ASSUME NEW s \in Seq(SampleSet), NEW n \in Nat, NEW a \in Nat, NEW x \in SampleSet,
         Replays(s, n, a), x.index = n + Len(s), x.action = x.previous + 1,
         x.previous = ActionAfter(s, a) + x.lost
  PROVE  /\ Append(s, x) \in Seq(SampleSet) /\ Len(Append(s, x)) = Len(s) + 1
         /\ Replays(Append(s, x), n, a) /\ ActionAfter(Append(s, x), a) = x.action
<1> DEFINE u == Append(s, x)
<1>1. /\ u \in Seq(SampleSet) /\ Len(u) = Len(s) + 1 /\ Len(s) \in Nat
      /\ \A i \in 1 .. Len(s) : u[i] = s[i]
      /\ u[Len(s) + 1] = x
  OBVIOUS
<1>2. ASSUME NEW i \in 1 .. Len(u)
      PROVE  /\ u[i].index = n + (i - 1) /\ u[i].action = u[i].previous + 1
             /\ u[i].previous = (IF i = 1 THEN a ELSE u[i - 1].action) + u[i].lost
  <2>1. CASE i \in 1 .. Len(s)
    <3>1. u[i] = s[i] /\ (i # 1 => u[i - 1] = s[i - 1])
      BY <1>1, <2>1
    <3> QED
      BY <3>1, <2>1 DEF Replays
  <2>2. CASE i = Len(s) + 1
    <3>1. u[i] = x /\ i - 1 = Len(s) /\ (IF i = 1 THEN a ELSE u[i - 1].action) = ActionAfter(s, a)
      BY <1>1, <2>2 DEF ActionAfter
    <3> QED
      BY <3>1
  <2> QED
    BY <2>1, <2>2, <1>1
<1>3. Replays(u, n, a)
  BY <1>2 DEF Replays
<1> QED
  BY <1>1, <1>3 DEF ActionAfter

\* What is left of a stretch when its first sample is taken from it.
LEMMA TailReplays ==
  ASSUME NEW s \in Seq(SampleSet), NEW n \in Nat, NEW a \in Nat, Replays(s, n, a), s # <<>>
  PROVE  /\ Tail(s) \in Seq(SampleSet) /\ Len(Tail(s)) = Len(s) - 1
         /\ Head(s) \in SampleSet /\ Head(s).index = n /\ Head(s).action = Head(s).previous + 1
         /\ Head(s).previous = a + Head(s).lost
         /\ Replays(Tail(s), n + 1, Head(s).action)
         /\ ActionAfter(Tail(s), Head(s).action) = ActionAfter(s, a)
<1> DEFINE t == Tail(s)
<1>1. /\ t \in Seq(SampleSet) /\ Len(t) = Len(s) - 1 /\ Len(s) \in Nat \ {0} /\ Head(s) = s[1]
      /\ s[1] \in SampleSet
      /\ \A i \in 1 .. Len(t) : t[i] = s[i + 1]
  OBVIOUS
<1>2. s[1].index = n /\ s[1].action = s[1].previous + 1 /\ s[1].previous = a + s[1].lost
  <2>1. 1 \in 1 .. Len(s) /\ n + (1 - 1) = n
    BY <1>1
  <2> QED
    BY <2>1 DEF Replays
<1>3. ASSUME NEW i \in 1 .. Len(t)
      PROVE  /\ t[i].index = n + 1 + (i - 1) /\ t[i].action = t[i].previous + 1
             /\ t[i].previous = (IF i = 1 THEN s[1].action ELSE t[i - 1].action) + t[i].lost
  <2>1. /\ i + 1 \in 1 .. Len(s) /\ t[i] = s[i + 1] /\ i + 1 # 1 /\ (i + 1) - 1 = i
        /\ (i # 1 => t[i - 1] = s[i]) /\ n + 1 + (i - 1) = n + ((i + 1) - 1)
    BY <1>1
  <2>2. /\ s[i + 1].index = n + ((i + 1) - 1) /\ s[i + 1].action = s[i + 1].previous + 1
        /\ s[i + 1].previous = s[i].action + s[i + 1].lost
    BY <2>1 DEF Replays
  <2> QED
    BY <2>1, <2>2
<1>4. Replays(t, n + 1, s[1].action)
  BY <1>3 DEF Replays
<1>5. ActionAfter(t, s[1].action) = ActionAfter(s, a)
  <2>1. CASE Len(t) = 0
    <3>1. Len(s) = 1
      BY <2>1, <1>1
    <3> QED
      BY <2>1, <3>1, <1>1 DEF ActionAfter
  <2>2. CASE Len(t) # 0
    <3>1. Len(t) \in 1 .. Len(t) /\ Len(t) + 1 = Len(s)
      BY <2>2, <1>1
    <3> QED
      BY <3>1, <2>2, <1>1 DEF ActionAfter
  <2> QED
    BY <2>1, <2>2
<1> QED
  BY <1>1, <1>2, <1>4, <1>5

\* What is left of a stretch when its end is taken away.
LEMMA PrefixReplays ==
  ASSUME NEW s \in Seq(SampleSet), NEW n \in Nat, NEW a \in Nat, Replays(s, n, a),
         NEW k \in 0 .. Len(s)
  PROVE  SubSeq(s, 1, k) \in Seq(SampleSet) /\ Replays(SubSeq(s, 1, k), n, a)
<1> DEFINE t == SubSeq(s, 1, k)
<1>1. t \in Seq(SampleSet) /\ Len(t) = k /\ \A i \in 1 .. k : t[i] = s[i]
  OBVIOUS
<1>2. ASSUME NEW i \in 1 .. k
      PROVE  /\ t[i].index = n + (i - 1) /\ t[i].action = t[i].previous + 1
             /\ t[i].previous = (IF i = 1 THEN a ELSE t[i - 1].action) + t[i].lost
  <2>1. t[i] = s[i] /\ i \in 1 .. Len(s) /\ (i # 1 => t[i - 1] = s[i - 1])
    BY <1>1
  <2> QED
    BY <2>1 DEF Replays
<1> QED
  BY <1>1, <1>2 DEF Replays

\* The types of the fields the proofs count with.
LEMMA FieldsTyped ==
  ASSUME RecorderTyped
  PROVE  /\ rec.index \in Nat /\ rec.previous \in Nat /\ rec.lost \in Nat /\ rec.written \in Nat
         /\ rec.dropped \in Nat /\ offers \in Nat /\ counted \in Nat /\ Held \in Nat
BY DEF RecorderTyped, RecSet, Held

\* What the proofs ask of sums and differences.
LEMMA Sums == /\ \A m, n \in Nat : m + n \in Nat /\ n <= m + n /\ (n <= m => m - n \in 0 .. m)
              /\ \A m, n \in Nat : m + (n + 1) = (m + n) + 1
              /\ \A m \in Nat : m + 1 \in Nat
OBVIOUS

\* The empty stretch.
LEMMA EmptyStretch == <<>> \in Seq(SampleSet)
OBVIOUS

\* Where a stretch ends is a number.
LEMMA PlacesTyped ==
  ASSUME RecorderTyped, WrittenReplays
  PROVE  /\ Len(disk.sealed) \in Nat /\ Len(pen.shard) \in Nat /\ disk.sealed \in Seq(SampleSet)
         /\ pen.shard \in Seq(SampleSet) /\ ActionAfter(disk.sealed, 0) \in Nat
         /\ WrittenLen \in Nat /\ WrittenAct \in Nat /\ TakenLen \in Nat /\ TakenAct \in Nat
<1>1. /\ disk.sealed \in Seq(SampleSet) /\ pen.shard \in Seq(SampleSet)
      /\ (pen.at \in Carrying => pen.sample \in SampleSet)
  BY DEF RecorderTyped, RecSet, PenSet, DiskSet, WrittenReplays
<1>2. Len(disk.sealed) \in Nat /\ Len(pen.shard) \in Nat
  BY <1>1
<1>3. ASSUME NEW s \in Seq(SampleSet), NEW a \in Nat PROVE ActionAfter(s, a) \in Nat
  <2>1. CASE Len(s) = 0
    BY <2>1 DEF ActionAfter
  <2>2. CASE Len(s) # 0
    <3>1. s[Len(s)] \in SampleSet
      BY <2>2
    <3> QED
      BY <3>1, <2>2 DEF ActionAfter, SampleSet
  <2> QED
    BY <2>1, <2>2
<1>4. ActionAfter(disk.sealed, 0) \in Nat /\ ActionAfter(pen.shard, ActionAfter(disk.sealed, 0)) \in Nat
  BY <1>1, <1>3
<1>5. WrittenLen \in Nat /\ WrittenAct \in Nat
  <2>1. WrittenLen \in Nat
    <3>1. Len(disk.sealed) + Len(pen.shard) \in Nat
      BY <1>2, Sums
    <3>2. CASE pen.at \in Indexing
      BY <1>2, <3>2 DEF WrittenLen
    <3>3. CASE pen.at \notin Indexing
      BY <3>1, <3>3 DEF WrittenLen
    <3> QED
      BY <3>2, <3>3
  <2>2. CASE pen.at \in Indexing
    <3>1. WrittenAct = ActionAfter(disk.sealed, 0)
      BY <2>2 DEF WrittenAct
    <3> QED
      BY <1>4, <2>1, <3>1
  <2>3. CASE pen.at \notin Indexing
    <3>1. WrittenAct = ActionAfter(pen.shard, ActionAfter(disk.sealed, 0))
      BY <2>3 DEF WrittenAct
    <3> QED
      BY <1>4, <2>1, <3>1
  <2> QED
    BY <2>2, <2>3
<1>6. pen.at \in Carrying => pen.sample.action \in Nat
  BY <1>1 DEF SampleSet
<1> QED
  BY <1>1, <1>2, <1>4, <1>5, <1>6 DEF TakenLen, TakenAct, Held

\* The end mark is no sample; it is read after the last one.
LEMMA LineHead ==
  ASSUME NEW q \in Seq(SampleSet), Waiting(q), line # <<>>
  PROVE  IF Head(line) = EndMark
         THEN q = <<>> /\ Tail(line) = <<>> /\ rec.signalled
         ELSE /\ q # <<>> /\ Head(line) = Head(q)
              /\ Tail(line) = Tail(q) \/ (Tail(line) = Append(Tail(q), EndMark) /\ rec.signalled)
<1>1. EndMark \notin SampleSet
  BY DEF EndMark, NoSample, SampleSet
<1>2. line = q \/ (line = Append(q, EndMark) /\ rec.signalled)
  BY DEF Waiting
<1>3. CASE line = q
  <2>1. q # <<>> /\ Head(q) \in SampleSet
    BY <1>3
  <2> QED
    BY <1>1, <1>3, <2>1
<1>4. CASE line = Append(q, EndMark) /\ rec.signalled /\ q = <<>>
  <2>1. line = <<EndMark>>
    BY <1>4
  <2>2. Head(line) = EndMark /\ Tail(line) = <<>>
    BY <2>1
  <2> QED
    BY <1>4, <2>2
<1>5. CASE line = Append(q, EndMark) /\ rec.signalled /\ q # <<>>
  <2> DEFINE E == SampleSet \cup {EndMark}
  <2>1. q \in Seq(E) /\ EndMark \in E /\ Head(q) \in SampleSet
    BY <1>5
  <2>2. Head(Append(q, EndMark)) = Head(q) /\ Tail(Append(q, EndMark)) = Append(Tail(q), EndMark)
    BY <2>1, <1>5
  <2> QED
    BY <1>1, <1>5, <2>1, <2>2
<1> QED
  BY <1>2, <1>3, <1>4, <1>5

\* A step of another thread leaves what is written where it is.
LEMMA WrittenStays ==
  ASSUME WrittenReplays, UNCHANGED <<pen, disk>>
  PROVE  /\ WrittenReplays' /\ WrittenLen' = WrittenLen /\ WrittenAct' = WrittenAct /\ Held' = Held
         /\ TakenLen' = TakenLen /\ TakenAct' = TakenAct
BY DEF WrittenReplays, WrittenLen, WrittenAct, TakenLen, TakenAct, Held

\* Nothing is written yet.
LEMMA RecorderInitial == RecorderInit => RecorderIInv
<1> SUFFICES ASSUME RecorderInit PROVE RecorderIInv
  OBVIOUS
<1>1. /\ rec.index = 0 /\ rec.previous = 0 /\ rec.lost = 0 /\ rec.written = 0 /\ rec.dropped = 0
      /\ rec.signalled = FALSE /\ rec.error = FALSE
      /\ pen.at = "gets" /\ pen.shard = <<>> /\ pen.poisoned = FALSE
      /\ disk.sealed = <<>> /\ disk.ended = FALSE
      /\ line = <<>> /\ offers = 0 /\ counted = 0 /\ closing = "no"
  BY DEF RecorderInit
<1>2. RecorderTyped
  BY DEF RecorderInit, RecorderTyped, RecSet, PenSet, DiskSet, Places
<1>3. Len(<<>>) = 0 /\ <<>> \in Seq(SampleSet) /\ \A n, a : Replays(<<>>, n, a) /\ ActionAfter(<<>>, a) = a
  BY DEF Replays, ActionAfter
<1>4. WrittenReplays
  BY <1>1, <1>3 DEF WrittenReplays, Indexing, Carrying
<1>5. TakenLen = 0 /\ TakenAct = 0 /\ WrittenLen = 0
  BY <1>1, <1>3 DEF TakenLen, TakenAct, Held, WrittenLen, WrittenAct, Carrying, Indexing
<1>6. Waiting(<<>>)
  <2>1. Held = 0 /\ ActionAfter(<<>>, TakenAct) = 0 /\ Replays(<<>>, TakenLen, TakenAct)
    BY <1>1, <1>3, <1>5 DEF Held, Carrying
  <2> QED
    BY <1>1, <1>3, <1>5, <2>1 DEF Waiting
<1>7. LineWaits
  BY <1>3, <1>6 DEF LineWaits
<1>8. Signalled /\ Counts
  BY <1>1, <1>5 DEF Signalled, Counts, Writing
<1> QED
  BY <1>2, <1>4, <1>7, <1>8 DEF RecorderIInv

\* An offer that is skipped or refused puts nothing into the queue.
LEMMA OfferIgnored == ASSUME RecorderIInv, RecordSkipped \/ RecordRefused PROVE RecorderIInv'
<1>1. RecorderTyped /\ WrittenReplays /\ LineWaits /\ Signalled /\ Counts
  BY DEF RecorderIInv
<1>2. /\ UNCHANGED <<pen, disk, closing, line>> /\ ~rec.closed /\ offers' = offers + 1
  BY DEF RecordSkipped, RecordRefused, Offer
<1>3. /\ rec'.disabled /\ rec'.written = rec.written /\ rec'.error = rec.error
      /\ rec'.signalled = rec.signalled /\ rec'.closed = rec.closed
      /\ \/ rec'.dropped = rec.dropped + 1 /\ counted' = counted + 1
         \/ rec'.dropped = rec.dropped /\ counted' = counted
  <2>1. CASE RecordSkipped
    BY <1>1, <2>1 DEF RecordSkipped, RecorderTyped, RecSet
  <2>2. CASE RecordRefused
    BY <1>1, <2>2 DEF RecordRefused, RecorderTyped, RecSet
  <2> QED
    BY <2>1, <2>2
<1>4. RecorderTyped'
  <2>1. rec' \in RecSet /\ counted' \in Nat /\ offers' \in Nat
    <3>1. /\ rec \in RecSet /\ counted \in Nat /\ offers \in Nat /\ rec.dropped + 1 \in Nat
          /\ counted + 1 \in Nat /\ offers + 1 \in Nat
      BY <1>1, FieldsTyped, Sums DEF RecorderTyped
    <3>2. CASE RecordSkipped
      <4>1. rec' = [rec EXCEPT !.dropped = @ + 1] /\ counted' = counted + 1
        BY <3>2 DEF RecordSkipped
      <4>2. rec' \in RecSet
        BY <3>1, <4>1 DEF RecSet
      <4> QED
        BY <1>2, <3>1, <4>1, <4>2
    <3>3. CASE RecordRefused
      <4>1. rec' = [rec EXCEPT !.disabled = TRUE] /\ counted' = counted
        BY <3>3 DEF RecordRefused
      <4>2. rec' \in RecSet
        BY <3>1, <4>1 DEF RecSet
      <4> QED
        BY <1>2, <3>1, <4>1, <4>2
    <3> QED
      BY <3>2, <3>3
  <2> QED
    BY <1>1, <1>2, <2>1 DEF RecorderTyped
<1>5. /\ WrittenReplays' /\ WrittenLen' = WrittenLen /\ TakenLen' = TakenLen /\ TakenAct' = TakenAct
      /\ Held' = Held
  BY <1>1, <1>2, WrittenStays
<1>6. LineWaits'
  <2>1. PICK q \in Seq(SampleSet) : Waiting(q)
    BY <1>1 DEF LineWaits
  <2>2. Len(q) \in Nat /\ rec.dropped \in Nat /\ counted \in Nat /\ rec.written \in Nat /\ Held \in Nat
    BY <1>1, <2>1, FieldsTyped
  <2>3. Waiting(q)'
    BY <2>1, <2>2, <1>2, <1>3, <1>5 DEF Waiting
  <2> QED
    BY <2>3 DEF LineWaits
<1>7. Signalled'
  BY <1>1, <1>2, <1>3 DEF Signalled
<1>8. ~(pen.at = "over" /\ ~rec.error)
  BY <1>1, <1>2 DEF Signalled, Writing
<1>9. Counts'
  BY <1>1, <1>2, <1>3, <1>5, <1>8 DEF Counts
<1> QED
  BY <1>4, <1>5, <1>6, <1>7, <1>9 DEF RecorderIInv

\* A sample that is queued comes next; one that is dropped is told of by the next.
LEMMA QueuedKeeps == ASSUME RecorderIInv, RecordQueued PROVE RecorderIInv'
<1>1. RecorderTyped /\ WrittenReplays /\ LineWaits /\ Signalled /\ Counts
  BY DEF RecorderIInv
<1>2. /\ UNCHANGED <<pen, disk, closing>> /\ ~rec.closed /\ ~rec.disabled /\ ~rec.error
      /\ offers' = offers + 1 /\ counted' = counted + 1
  BY DEF RecordQueued, Offer
<1>3. /\ WrittenReplays' /\ WrittenLen' = WrittenLen /\ TakenLen' = TakenLen /\ TakenAct' = TakenAct
      /\ Held' = Held
  BY <1>1, <1>2, WrittenStays
<1>4. pen.at \in Writing /\ pen.at # "over" /\ ~rec.signalled /\ rec.previous = offers
  BY <1>1, <1>2 DEF Signalled, Writing
<1>5. PICK q \in Seq(SampleSet) : Waiting(q)
  BY <1>1 DEF LineWaits
<1>6. /\ line = q /\ Replays(q, TakenLen, TakenAct) /\ rec.index = TakenLen + Len(q)
      /\ rec.previous = ActionAfter(q, TakenAct) + rec.lost
      /\ rec.written + rec.dropped + Held + Len(q) = counted
  BY <1>2, <1>4, <1>5 DEF Waiting
<1>7. TakenLen \in Nat /\ TakenAct \in Nat
  BY <1>1, PlacesTyped
<1>8. /\ rec.index \in Nat /\ rec.previous \in Nat /\ rec.lost \in Nat /\ offers \in Nat
      /\ rec.written \in Nat /\ rec.dropped \in Nat /\ counted \in Nat /\ Len(q) \in Nat /\ Held \in Nat
  BY <1>1, <1>5, FieldsTyped
<1>9. CASE Len(line) < QueueRoom
  <2>1. PICK x \in SampleSet :
          x = [index |-> rec.index, action |-> offers + 1, previous |-> rec.previous, lost |-> rec.lost]
    <3>1. offers + 1 \in Nat \ {0}
      BY <1>8
    <3> QED
      BY <1>8, <3>1 DEF SampleSet
  <2>2. /\ line' = Append(q, x)
        /\ rec' = [rec EXCEPT !.index = @ + 1, !.lost = 0, !.previous = offers']
        /\ x.index = rec.index /\ x.action = x.previous + 1
        /\ x.previous = rec.previous /\ x.lost = rec.lost /\ x.action = offers + 1
    BY <1>2, <1>4, <1>6, <1>9, <2>1 DEF RecordQueued
  <2>3. /\ Append(q, x) \in Seq(SampleSet) /\ Len(Append(q, x)) = Len(q) + 1
        /\ Replays(Append(q, x), TakenLen, TakenAct) /\ ActionAfter(Append(q, x), TakenAct) = x.action
    BY <1>6, <1>7, <2>2, AppendedReplays
  <2>4. /\ rec'.index = rec.index + 1 /\ rec'.lost = 0 /\ rec'.previous = offers + 1
        /\ rec'.written = rec.written /\ rec'.dropped = rec.dropped /\ rec'.closed = rec.closed
        /\ rec'.signalled = rec.signalled /\ rec'.error = rec.error /\ rec'.disabled = rec.disabled
    BY <1>1, <1>2, <2>2 DEF RecorderTyped, RecSet, PenSet, DiskSet
  <2>5. RecorderTyped'
    <3>1. rec' \in RecSet /\ counted' \in Nat /\ offers' \in Nat
      <4>1. offers' \in Nat /\ counted' \in Nat
        BY <1>2, <1>8
      <4>2. rec \in RecSet /\ rec.index + 1 \in Nat /\ 0 \in Nat
        BY <1>1, <1>8, Sums DEF RecorderTyped
      <4>3. rec' \in RecSet
        BY <2>2, <4>1, <4>2 DEF RecSet
      <4> QED
        BY <4>1, <4>3
    <3> QED
      BY <1>1, <1>2, <3>1 DEF RecorderTyped
  <2>6. Waiting(Append(q, x))'
    <3>1. line' = Append(q, x)
      BY <2>2
    <3>2. rec'.written + rec'.dropped + Held' + Len(Append(q, x)) = counted'
      BY <1>2, <1>3, <1>6, <1>8, <2>3, <2>4
    <3>3. /\ Replays(Append(q, x), TakenLen', TakenAct') /\ rec'.index = TakenLen' + Len(Append(q, x))
          /\ rec'.previous = ActionAfter(Append(q, x), TakenAct') + rec'.lost
      BY <1>3, <1>6, <1>7, <1>8, <2>2, <2>3, <2>4
    <3> QED
      BY <3>1, <3>2, <3>3 DEF Waiting
  <2>7. LineWaits'
    BY <2>3, <2>6 DEF LineWaits
  <2>8. Signalled' /\ Counts'
    BY <1>1, <1>2, <1>3, <1>4, <1>8, <2>4 DEF Signalled, Counts
  <2> QED
    BY <1>3, <2>5, <2>7, <2>8 DEF RecorderIInv
<1>10. CASE ~(Len(line) < QueueRoom)
  <2>1. line' = line /\ rec' = [rec EXCEPT !.dropped = @ + 1, !.lost = @ + 1, !.previous = offers']
    BY <1>10 DEF RecordQueued, Dropped
  <2>2. /\ rec'.index = rec.index /\ rec'.lost = rec.lost + 1 /\ rec'.previous = offers + 1
        /\ rec'.written = rec.written /\ rec'.dropped = rec.dropped + 1 /\ rec'.closed = rec.closed
        /\ rec'.signalled = rec.signalled /\ rec'.error = rec.error /\ rec'.disabled = rec.disabled
    BY <1>1, <1>2, <2>1 DEF RecorderTyped, RecSet, PenSet, DiskSet
  <2>3. RecorderTyped'
    <3>1. rec' \in RecSet /\ counted' \in Nat /\ offers' \in Nat
      <4>1. offers' \in Nat /\ counted' \in Nat
        BY <1>2, <1>8
      <4>2. rec \in RecSet /\ rec.dropped + 1 \in Nat /\ rec.lost + 1 \in Nat
        BY <1>1, <1>8, Sums DEF RecorderTyped
      <4>3. rec' \in RecSet
        BY <2>1, <4>1, <4>2 DEF RecSet
      <4> QED
        BY <4>1, <4>3
    <3> QED
      BY <1>1, <1>2, <3>1 DEF RecorderTyped
  <2>4. Waiting(q)'
    <3>1. rec'.written + rec'.dropped + Held' + Len(q) = counted'
      <4>1. rec.written + (rec.dropped + 1) + Held + Len(q) = counted + 1
        BY <1>6, <1>8
      <4> QED
        BY <1>2, <1>3, <2>2, <4>1
    <3>2. /\ Replays(q, TakenLen', TakenAct') /\ rec'.index = TakenLen' + Len(q)
      BY <1>3, <1>6, <2>2
    <3>3. rec'.previous = ActionAfter(q, TakenAct') + rec'.lost
      <4>1. ActionAfter(q, TakenAct) + rec.lost = offers /\ ActionAfter(q, TakenAct) \in Nat
        <5>1. ActionAfter(q, TakenAct) \in Nat
          <6>1. Len(q) # 0 => q[Len(q)] \in SampleSet
            BY <1>8
          <6> QED
            BY <6>1, <1>7 DEF ActionAfter, SampleSet
        <5> QED
          BY <5>1, <1>4, <1>6
      <4> QED
        BY <4>1, <1>3, <1>8, <2>2
    <3> QED
      BY <1>6, <2>1, <3>1, <3>2, <3>3 DEF Waiting
  <2>5. LineWaits'
    BY <2>4 DEF LineWaits
  <2>6. Signalled' /\ Counts'
    BY <1>1, <1>2, <1>3, <1>4, <1>8, <2>2 DEF Signalled, Counts
  <2> QED
    BY <1>3, <2>3, <2>5, <2>6 DEF RecorderIInv
<1> QED
  BY <1>9, <1>10

\* The writer takes the next sample, or the end mark after the last one.
LEMMA TakesKeeps == ASSUME RecorderIInv, GetsSample PROVE RecorderIInv'
<1>1. RecorderTyped /\ WrittenReplays /\ LineWaits /\ Signalled /\ Counts
  BY DEF RecorderIInv
<1>2. /\ pen.at = "gets" /\ line # <<>> /\ line' = Tail(line)
      /\ UNCHANGED <<disk, offers, counted, closing>>
  BY DEF GetsSample
<1>3. PICK q \in Seq(SampleSet) : Waiting(q)
  BY <1>1 DEF LineWaits
<1>4. /\ pen.at \in Writing /\ pen.at \notin Carrying /\ pen.at \notin Indexing
  BY <1>2 DEF Writing, Carrying, Indexing
<1>5. TakenLen = WrittenLen /\ TakenAct = WrittenAct /\ WrittenLen \in Nat /\ WrittenAct \in Nat
  BY <1>1, <1>4, PlacesTyped DEF TakenLen, TakenAct, Held
<1>6. /\ rec.written \in Nat /\ rec.dropped \in Nat /\ counted \in Nat /\ Len(q) \in Nat
      /\ (~rec.error => rec.written + rec.dropped + Len(q) = counted)
  BY <1>1, <1>3, <1>4, FieldsTyped DEF Waiting, Held
<1>7. ~pen.poisoned /\ rec.written = WrittenLen /\ ~disk.ended
  BY <1>1, <1>2 DEF Counts
<1>8. CASE Head(line) = EndMark
  <2>1. pen' = [pen EXCEPT !.at = "closes"] /\ rec' = rec
    BY <1>8 DEF GetsSample
  <2>2. pen'.at = "closes" /\ pen'.shard = pen.shard /\ pen'.poisoned = pen.poisoned
    BY <1>1, <2>1 DEF RecorderTyped, RecSet, PenSet, DiskSet
  <2>3. q = <<>> /\ line' = <<>> /\ rec.signalled
    BY <1>2, <1>3, <1>8, LineHead
  <2>4. RecorderTyped'
    BY <1>1, <1>2, <2>1 DEF RecorderTyped, RecSet, PenSet, DiskSet, Places
  <2>5. "closes" \notin Indexing /\ "closes" \notin Carrying /\ "closes" \notin Writing
    BY DEF Indexing, Carrying, Writing
  <2>6. WrittenLen' = WrittenLen
    BY <1>2, <1>4, <2>2, <2>5 DEF WrittenLen
  <2>7. WrittenReplays'
    BY <1>1, <1>2, <1>4, <2>2, <2>5 DEF WrittenReplays
  <2>8. Waiting(<<>>)'
    <3>1. ~rec'.error => rec'.written + rec'.dropped + Held' + Len(<<>>) = counted'
      BY <1>2, <1>6, <2>1, <2>2, <2>3, <2>5 DEF Held
    <3> QED
      BY <2>2, <2>3, <2>5, <3>1 DEF Waiting
  <2>9. LineWaits'
    BY <2>8, <2>3 DEF LineWaits
  <2>10. Signalled' /\ Counts'
    BY <1>1, <1>2, <1>7, <2>1, <2>2, <2>3, <2>6 DEF Signalled, Counts
  <2> QED
    BY <2>4, <2>7, <2>9, <2>10 DEF RecorderIInv
<1>9. CASE Head(line) # EndMark /\ rec.disabled
  <2>1. pen' = pen /\ rec' = [rec EXCEPT !.dropped = @ + 1]
    BY <1>9 DEF GetsSample
  <2>2. /\ rec'.dropped = rec.dropped + 1 /\ rec'.written = rec.written /\ rec'.error = rec.error
        /\ rec'.signalled = rec.signalled /\ rec'.disabled = rec.disabled /\ rec'.closed = rec.closed
        /\ rec'.previous = rec.previous
    BY <1>1, <2>1 DEF RecorderTyped, RecSet, PenSet, DiskSet
  <2>3. q # <<>> /\ (line' = Tail(q) \/ (line' = Append(Tail(q), EndMark) /\ rec.signalled))
    BY <1>2, <1>3, <1>9, LineHead
  <2>4. Tail(q) \in Seq(SampleSet) /\ Len(Tail(q)) = Len(q) - 1 /\ Len(q) # 0
    BY <1>3, <2>3
  <2>5. RecorderTyped'
    <3>1. rec \in RecSet
      BY <1>1 DEF RecorderTyped
    <3>2. rec' \in RecSet
      BY <2>1, <3>1 DEF RecSet
    <3> QED
      BY <1>1, <1>2, <2>1, <3>2 DEF RecorderTyped
  <2>6. WrittenReplays' /\ WrittenLen' = WrittenLen
    BY <1>1, <1>2, <2>1, WrittenStays
  <2>7. Waiting(Tail(q))'
    <3>1. ~rec'.error => rec'.written + rec'.dropped + Held' + Len(Tail(q)) = counted'
      <4>1. Held' = 0 /\ counted' = counted
        BY <1>2, <1>4, <2>1 DEF Held
      <4>2. ~rec.error => rec.written + (rec.dropped + 1) + 0 + (Len(q) - 1) = counted
        BY <1>6
      <4> QED
        BY <2>2, <2>4, <4>1, <4>2
    <3> QED
      BY <1>9, <2>2, <2>3, <3>1 DEF Waiting
  <2>8. LineWaits'
    BY <2>4, <2>7 DEF LineWaits
  <2>9. Signalled' /\ Counts'
    BY <1>1, <1>2, <1>4, <1>7, <2>1, <2>2, <2>6 DEF Signalled, Counts
  <2> QED
    BY <2>5, <2>6, <2>8, <2>9 DEF RecorderIInv
<1>10. CASE Head(line) # EndMark /\ ~rec.disabled
  <2>1. rec' = rec /\ pen' = [pen EXCEPT !.sample = Head(line),
                                !.at = IF Len(pen.shard) >= ShardSteps THEN "seals" ELSE "appends"]
    BY <1>10 DEF GetsSample
  <2>2. /\ pen'.at \in {"seals", "appends"} /\ pen'.sample = Head(line)
        /\ pen'.shard = pen.shard /\ pen'.poisoned = pen.poisoned
    BY <1>1, <2>1 DEF RecorderTyped, RecSet, PenSet, DiskSet
  <2>3. /\ q # <<>> /\ Head(line) = Head(q)
        /\ line' = Tail(q) \/ (line' = Append(Tail(q), EndMark) /\ rec.signalled)
    BY <1>2, <1>3, <1>10, LineHead
  <2>4. /\ Replays(q, WrittenLen, WrittenAct) /\ rec.index = WrittenLen + Len(q)
        /\ rec.previous = ActionAfter(q, WrittenAct) + rec.lost
    BY <1>3, <1>4, <1>5, <1>10 DEF Waiting
  <2>5. /\ Tail(q) \in Seq(SampleSet) /\ Len(Tail(q)) = Len(q) - 1
        /\ Head(q) \in SampleSet /\ Head(q).index = WrittenLen /\ Head(q).action = Head(q).previous + 1
        /\ Head(q).previous = WrittenAct + Head(q).lost
        /\ Replays(Tail(q), WrittenLen + 1, Head(q).action)
        /\ ActionAfter(Tail(q), Head(q).action) = ActionAfter(q, WrittenAct)
    BY <1>5, <2>3, <2>4, TailReplays
  <2>6. RecorderTyped'
    <3>1. pen' \in PenSet
      BY <1>1, <2>1, <2>3, <2>5 DEF RecorderTyped, RecSet, PenSet, DiskSet, Places
    <3> QED
      BY <1>1, <1>2, <2>1, <3>1 DEF RecorderTyped, RecSet, PenSet, DiskSet
  <2>7. pen'.at \in Carrying /\ pen'.at \notin Indexing /\ pen'.at \in Writing /\ pen'.at # "over"
        /\ pen'.at # "ends"
    BY <2>2 DEF Carrying, Indexing, Writing
  <2>8. WrittenLen' = WrittenLen /\ WrittenAct' = WrittenAct
    BY <1>2, <1>4, <2>2, <2>7 DEF WrittenLen, WrittenAct
  <2>9. TakenLen' = WrittenLen + 1 /\ TakenAct' = Head(q).action
    BY <2>2, <2>3, <2>7, <2>8 DEF TakenLen, TakenAct, Held
  <2>10. WrittenReplays'
    BY <1>1, <1>2, <1>4, <2>2, <2>3, <2>5, <2>7, <2>8 DEF WrittenReplays
  <2>11. Waiting(Tail(q))'
    <3>1. ~rec'.error => rec'.written + rec'.dropped + Held' + Len(Tail(q)) = counted'
      BY <1>2, <1>6, <2>1, <2>5, <2>7 DEF Held
    <3>2. /\ rec'.index = TakenLen' + Len(Tail(q))
          /\ rec'.previous = ActionAfter(Tail(q), TakenAct') + rec'.lost
          /\ Replays(Tail(q), TakenLen', TakenAct')
      BY <1>5, <1>6, <2>1, <2>4, <2>5, <2>9
    <3> QED
      BY <2>1, <2>3, <2>7, <3>1, <3>2 DEF Waiting
  <2>12. LineWaits'
    BY <2>5, <2>11 DEF LineWaits
  <2>13. Signalled' /\ Counts'
    BY <1>1, <1>2, <1>4, <1>7, <2>1, <2>2, <2>7, <2>8 DEF Signalled, Counts
  <2> QED
    BY <2>6, <2>10, <2>12, <2>13 DEF RecorderIInv
<1> QED
  BY <1>8, <1>9, <1>10

\* The sample in hand goes into the open shard, or is lost with the recording.
LEMMA AppendsKeeps == ASSUME RecorderIInv, AppendsSample PROVE RecorderIInv'
<1>1. RecorderTyped /\ WrittenReplays /\ LineWaits /\ Signalled /\ Counts
  BY DEF RecorderIInv
<1>2. pen.at = "appends" /\ UNCHANGED <<line, disk, offers, counted, closing>>
  BY DEF AppendsSample
<1>3. PICK q \in Seq(SampleSet) : Waiting(q)
  BY <1>1 DEF LineWaits
<1>4. /\ pen.at \in Writing /\ pen.at \in Carrying /\ pen.at \notin Indexing
      /\ "gets" \in Writing /\ "gets" \notin Carrying /\ "gets" \notin Indexing
      /\ "closes" \notin Writing /\ "closes" \notin Carrying /\ "closes" \notin Indexing
  BY <1>2 DEF Writing, Carrying, Indexing
<1>5. /\ TakenLen = WrittenLen + 1 /\ TakenAct = pen.sample.action
      /\ WrittenLen = Len(disk.sealed) + Len(pen.shard)
      /\ WrittenAct = ActionAfter(pen.shard, ActionAfter(disk.sealed, 0))
  BY <1>4 DEF TakenLen, TakenAct, Held, WrittenLen, WrittenAct
<1>6. /\ rec.written \in Nat /\ rec.dropped \in Nat /\ counted \in Nat /\ Len(q) \in Nat
      /\ (~rec.error => rec.written + rec.dropped + 1 + Len(q) = counted)
  BY <1>1, <1>3, <1>4, FieldsTyped DEF Waiting, Held
<1>7. ~pen.poisoned /\ rec.written = WrittenLen /\ ~disk.ended
  BY <1>1, <1>2 DEF Counts
<1>8. CASE pen' = [pen EXCEPT !.at = "gets", !.shard = Append(@, pen.sample)]
           /\ rec' = [rec EXCEPT !.written = @ + 1]
  <2>1. /\ pen'.at = "gets" /\ pen'.shard = Append(pen.shard, pen.sample)
        /\ pen'.poisoned = pen.poisoned
        /\ rec'.written = rec.written + 1 /\ rec'.dropped = rec.dropped /\ rec'.error = rec.error
        /\ rec'.signalled = rec.signalled /\ rec'.disabled = rec.disabled /\ rec'.closed = rec.closed
        /\ rec'.previous = rec.previous /\ rec'.index = rec.index /\ rec'.lost = rec.lost
    BY <1>1, <1>8 DEF RecorderTyped, RecSet, PenSet, DiskSet
  <2>2. /\ Append(pen.shard, pen.sample) \in Seq(SampleSet)
        /\ Len(Append(pen.shard, pen.sample)) = Len(pen.shard) + 1
        /\ Replays(Append(pen.shard, pen.sample), Len(disk.sealed), ActionAfter(disk.sealed, 0))
        /\ ActionAfter(Append(pen.shard, pen.sample), ActionAfter(disk.sealed, 0)) = pen.sample.action
    <3>1. /\ pen.shard \in Seq(SampleSet) /\ Len(disk.sealed) \in Nat
          /\ ActionAfter(disk.sealed, 0) \in Nat
          /\ Replays(pen.shard, Len(disk.sealed), ActionAfter(disk.sealed, 0))
      BY <1>1, <1>4, PlacesTyped DEF WrittenReplays
    <3>2. /\ pen.sample \in SampleSet /\ pen.sample.index = Len(disk.sealed) + Len(pen.shard)
          /\ pen.sample.action = pen.sample.previous + 1
          /\ pen.sample.previous = ActionAfter(pen.shard, ActionAfter(disk.sealed, 0)) + pen.sample.lost
      BY <1>1, <1>4, <1>5 DEF WrittenReplays
    <3> QED
      BY <3>1, <3>2, AppendedReplays
  <2>3. RecorderTyped'
    <3>1. rec \in RecSet /\ pen \in PenSet
      BY <1>1 DEF RecorderTyped
    <3>2. rec' \in RecSet
      BY <1>8, <3>1 DEF RecSet
    <3>3. "gets" \in Places
      BY DEF Places
    <3>4. pen' \in PenSet
      BY <1>8, <2>2, <3>1, <3>3 DEF PenSet
    <3> QED
      BY <1>1, <1>2, <3>2, <3>4 DEF RecorderTyped
  <2>4. WrittenReplays'
    BY <1>1, <1>2, <1>4, <2>1, <2>2 DEF WrittenReplays
  <2>5. WrittenLen' = WrittenLen + 1 /\ WrittenAct' = pen.sample.action
    <3>1. Len(disk.sealed) \in Nat /\ Len(pen.shard) \in Nat
      BY <1>1, PlacesTyped
    <3>2. WrittenLen' = Len(disk.sealed) + (Len(pen.shard) + 1)
      BY <1>2, <1>4, <2>1, <2>2 DEF WrittenLen
    <3>3. WrittenAct' = pen.sample.action
      BY <1>2, <1>4, <2>1, <2>2 DEF WrittenAct
    <3> QED
      BY <1>5, <3>1, <3>2, <3>3, Sums
  <2>6. TakenLen' = TakenLen /\ TakenAct' = TakenAct
    BY <1>1, <1>4, <1>5, <2>1, <2>5, PlacesTyped DEF TakenLen, TakenAct, Held
  <2>7. Waiting(q)'
    <3>1. ~rec'.error => rec'.written + rec'.dropped + Held' + Len(q) = counted'
      BY <1>2, <1>4, <1>6, <2>1 DEF Held
    <3> QED
      BY <1>2, <1>3, <1>4, <2>1, <2>6, <3>1 DEF Waiting
  <2>8. LineWaits'
    BY <2>7 DEF LineWaits
  <2>9. Signalled' /\ Counts'
    BY <1>1, <1>2, <1>4, <1>7, <2>1, <2>5 DEF Signalled, Counts
  <2> QED
    BY <2>3, <2>4, <2>8, <2>9 DEF RecorderIInv
<1>9. CASE pen' = [pen EXCEPT !.at = "gets"] /\ rec' = [rec EXCEPT !.disabled = TRUE, !.dropped = @ + 1]
  <2>1. /\ pen'.at = "gets" /\ pen'.shard = pen.shard /\ pen'.poisoned = pen.poisoned
        /\ rec'.written = rec.written /\ rec'.dropped = rec.dropped + 1 /\ rec'.error = rec.error
        /\ rec'.signalled = rec.signalled /\ rec'.disabled /\ rec'.closed = rec.closed
    BY <1>1, <1>9 DEF RecorderTyped, RecSet, PenSet, DiskSet
  <2>2. RecorderTyped'
    <3>1. rec \in RecSet /\ pen \in PenSet /\ rec.dropped + 1 \in Nat /\ "gets" \in Places
      BY <1>1, <1>6, Sums DEF RecorderTyped, Places
    <3>2. rec' \in RecSet
      BY <1>9, <3>1 DEF RecSet
    <3>3. pen' \in PenSet
      BY <1>9, <3>1 DEF PenSet
    <3> QED
      BY <1>1, <1>2, <3>2, <3>3 DEF RecorderTyped
  <2>3. WrittenReplays' /\ WrittenLen' = WrittenLen
    BY <1>1, <1>2, <1>4, <2>1 DEF WrittenReplays, WrittenLen
  <2>4. Waiting(q)'
    <3>1. ~rec'.error => rec'.written + rec'.dropped + Held' + Len(q) = counted'
      BY <1>2, <1>4, <1>6, <2>1 DEF Held
    <3> QED
      BY <1>2, <1>3, <2>1, <3>1 DEF Waiting
  <2>5. LineWaits'
    BY <2>4 DEF LineWaits
  <2>6. Signalled' /\ Counts'
    BY <1>1, <1>2, <1>4, <1>7, <2>1, <2>3 DEF Signalled, Counts
  <2> QED
    BY <2>2, <2>3, <2>5, <2>6 DEF RecorderIInv
<1>10. CASE /\ pen' \in {[pen EXCEPT !.at = "closes", !.poisoned = p,
                             !.shard = IF p THEN <<>> ELSE @] : p \in BOOLEAN}
            /\ rec' = [rec EXCEPT !.error = TRUE]
  <2>1. /\ pen'.at = "closes" /\ pen'.poisoned \in BOOLEAN
        /\ pen'.shard = IF pen'.poisoned THEN <<>> ELSE pen.shard
        /\ rec'.written = rec.written /\ rec'.error /\ rec'.disabled = rec.disabled
        /\ rec'.signalled = rec.signalled /\ rec'.closed = rec.closed /\ rec'.previous = rec.previous
    BY <1>1, <1>10 DEF RecorderTyped, RecSet, PenSet, DiskSet
  <2>2. RecorderTyped'
    <3>1. rec \in RecSet /\ pen \in PenSet
      BY <1>1 DEF RecorderTyped
    <3>2. rec' \in RecSet
      BY <1>10, <3>1 DEF RecSet
    <3>3. PICK p \in BOOLEAN : pen' = [pen EXCEPT !.at = "closes", !.poisoned = p,
                                           !.shard = IF p THEN <<>> ELSE @]
      BY <1>10
    <3>4. pen' \in PenSet
      <4>1. "closes" \in Places /\ <<>> \in Seq(SampleSet) /\ pen.shard \in Seq(SampleSet)
        BY <3>1, EmptyStretch DEF PenSet, Places
      <4>2. (IF p THEN <<>> ELSE pen.shard) \in Seq(SampleSet)
        BY <4>1
      <4> QED
        BY <3>1, <3>3, <4>1, <4>2 DEF PenSet
    <3> QED
      BY <1>1, <1>2, <3>2, <3>4 DEF RecorderTyped
  <2>3. \A n, a : Replays(<<>>, n, a)
    BY DEF Replays
  <2>4. WrittenReplays' /\ (~pen'.poisoned => WrittenLen' = WrittenLen)
    BY <1>1, <1>2, <1>4, <2>1, <2>3 DEF WrittenReplays, WrittenLen
  <2>5. Waiting(q)'
    BY <1>2, <1>3, <1>4, <2>1 DEF Waiting
  <2>6. LineWaits'
    BY <2>5 DEF LineWaits
  <2>7. Signalled' /\ Counts'
    BY <1>1, <1>2, <1>4, <1>7, <2>1, <2>4 DEF Signalled, Counts
  <2> QED
    BY <2>2, <2>4, <2>6, <2>7 DEF RecorderIInv
<1> QED
  BY <1>8, <1>9, <1>10 DEF AppendsSample

\* A shard that is renamed is on disk, where it was to come.
LEMMA RenamesKeeps == ASSUME RecorderIInv, Renames PROVE RecorderIInv'
<1>1. RecorderTyped /\ WrittenReplays /\ LineWaits /\ Signalled /\ Counts
  BY DEF RecorderIInv
<1>2. /\ pen.at \in {"seals", "seals last"} /\ UNCHANGED <<rec, line, offers, counted, closing>>
      /\ disk' = [disk EXCEPT !.sealed = @ \o pen.shard]
      /\ pen' = [pen EXCEPT !.at = IF @ = "seals" THEN "indexes" ELSE "indexes last"]
  BY DEF Renames
<1>3. /\ pen'.at = (IF pen.at = "seals" THEN "indexes" ELSE "indexes last")
      /\ pen'.shard = pen.shard /\ pen'.sample = pen.sample /\ pen'.poisoned = pen.poisoned
      /\ disk'.sealed = disk.sealed \o pen.shard /\ disk'.ended = disk.ended
  BY <1>1, <1>2 DEF RecorderTyped, RecSet, PenSet, DiskSet
<1>4. /\ pen.at \notin Indexing /\ pen'.at \in Indexing /\ (pen'.at \in Carrying <=> pen.at \in Carrying)
      /\ (pen'.at \in Writing <=> pen.at \in Writing) /\ pen'.at \notin {"over", "ends", "closes"}
  <2>1. \/ pen.at = "seals" /\ pen'.at = "indexes"
        \/ pen.at = "seals last" /\ pen'.at = "indexes last"
    BY <1>2, <1>3
  <2> QED
    BY <2>1 DEF Indexing, Carrying, Writing
<1>5. /\ disk'.sealed \in Seq(SampleSet) /\ Len(disk'.sealed) = Len(disk.sealed) + Len(pen.shard)
      /\ Replays(disk'.sealed, 0, 0)
      /\ ActionAfter(disk'.sealed, 0) = ActionAfter(pen.shard, ActionAfter(disk.sealed, 0))
  <2>1. /\ Replays(disk.sealed, 0, 0) /\ Replays(pen.shard, Len(disk.sealed), ActionAfter(disk.sealed, 0))
        /\ disk.sealed \in Seq(SampleSet) /\ pen.shard \in Seq(SampleSet)
    BY <1>1, <1>4, PlacesTyped DEF WrittenReplays
  <2>2. 0 \in Nat /\ 0 + Len(disk.sealed) = Len(disk.sealed)
    BY <2>1
  <2>3. /\ disk.sealed \o pen.shard \in Seq(SampleSet)
        /\ Len(disk.sealed \o pen.shard) = Len(disk.sealed) + Len(pen.shard)
        /\ Replays(disk.sealed \o pen.shard, 0, 0)
        /\ ActionAfter(disk.sealed \o pen.shard, 0) = ActionAfter(pen.shard, ActionAfter(disk.sealed, 0))
    <3>1. Replays(pen.shard, 0 + Len(disk.sealed), ActionAfter(disk.sealed, 0))
      BY <2>1, <2>2
    <3> QED
      BY <2>1, <2>2, <3>1, JoinedReplays
  <2> QED
    BY <1>3, <2>3
<1>6. WrittenLen' = WrittenLen /\ WrittenAct' = WrittenAct
  BY <1>3, <1>4, <1>5 DEF WrittenLen, WrittenAct
<1>7. TakenLen' = TakenLen /\ TakenAct' = TakenAct
  BY <1>3, <1>4, <1>6 DEF TakenLen, TakenAct, Held
<1>8. RecorderTyped'
  <2>1. rec \in RecSet /\ pen \in PenSet /\ disk \in DiskSet
    BY <1>1 DEF RecorderTyped
  <2>2. (IF pen.at = "seals" THEN "indexes" ELSE "indexes last") \in Places
    BY DEF Places
  <2>3. pen' \in PenSet
    BY <1>2, <2>1, <2>2 DEF PenSet
  <2>4. disk.sealed \o pen.shard \in Seq(SampleSet)
    BY <1>3, <1>5
  <2>5. disk' \in DiskSet
    BY <1>2, <2>1, <2>4 DEF DiskSet
  <2> QED
    BY <1>1, <1>2, <2>3, <2>5 DEF RecorderTyped
<1>9. WrittenReplays'
  <2>1. Len(pen'.shard) <= Len(disk'.sealed)
    <3>1. Len(disk.sealed) \in Nat /\ Len(pen.shard) \in Nat
      BY <1>1, PlacesTyped
    <3>2. Len(pen.shard) <= Len(disk.sealed) + Len(pen.shard)
      BY <3>1, Sums
    <3> QED
      BY <1>3, <1>5, <3>2
  <2> QED
    BY <1>1, <1>3, <1>4, <1>5, <1>6, <2>1 DEF WrittenReplays
<1>10. LineWaits'
  BY <1>1, <1>2, <1>4, <1>7 DEF LineWaits, Waiting, Held
<1>11. Signalled' /\ Counts'
  BY <1>1, <1>2, <1>3, <1>4, <1>6 DEF Signalled, Counts
<1> QED
  BY <1>8, <1>9, <1>10, <1>11 DEF RecorderIInv

\* The index takes the shard in, or the shard goes again and the writer is poisoned.
LEMMA IndexesKeeps == ASSUME RecorderIInv, Indexes PROVE RecorderIInv'
<1>1. RecorderTyped /\ WrittenReplays /\ LineWaits /\ Signalled /\ Counts
  BY DEF RecorderIInv
<1>2. /\ pen.at \in {"indexes", "indexes last"} /\ UNCHANGED <<line, offers, counted, closing>>
  BY DEF Indexes
<1>3. pen.at \in Indexing /\ pen.at # "over" /\ ~pen.poisoned /\ ~disk.ended
  BY <1>1, <1>2 DEF Indexing, Counts
<1>4. \A n, a : Replays(<<>>, n, a) /\ ActionAfter(<<>>, a) = a
  BY DEF Replays, ActionAfter
<1>5. CASE /\ pen' = [pen EXCEPT !.shard = <<>>, !.at = IF @ = "indexes" THEN "appends" ELSE "ends"]
           /\ UNCHANGED <<rec, disk>>
  <2>1. /\ pen'.at = (IF pen.at = "indexes" THEN "appends" ELSE "ends")
        /\ pen'.shard = <<>> /\ pen'.sample = pen.sample /\ pen'.poisoned = pen.poisoned
    BY <1>1, <1>5 DEF RecorderTyped, RecSet, PenSet, DiskSet
  <2>2. /\ pen'.at \notin Indexing /\ (pen'.at \in Carrying <=> pen.at \in Carrying)
        /\ (pen'.at \in Writing <=> pen.at \in Writing) /\ pen'.at # "over"
    BY <1>2, <2>1 DEF Indexing, Carrying, Writing
  <2>3. WrittenLen' = WrittenLen /\ WrittenAct' = WrittenAct
    BY <1>1, <1>3, <1>4, <1>5, <2>1, <2>2, PlacesTyped DEF WrittenLen, WrittenAct
  <2>4. TakenLen' = TakenLen /\ TakenAct' = TakenAct
    BY <2>1, <2>2, <2>3 DEF TakenLen, TakenAct, Held
  <2>5. RecorderTyped'
    <3>1. pen \in PenSet /\ <<>> \in Seq(SampleSet)
      BY <1>1, EmptyStretch DEF RecorderTyped
    <3>2. (IF pen.at = "indexes" THEN "appends" ELSE "ends") \in Places
      BY DEF Places
    <3>3. pen' \in PenSet
      BY <1>5, <3>1, <3>2 DEF PenSet
    <3> QED
      BY <1>1, <1>2, <1>5, <3>3 DEF RecorderTyped
  <2>6. WrittenReplays'
    BY <1>1, <1>4, <1>5, <2>1, <2>2, <2>3 DEF WrittenReplays
  <2>7. LineWaits'
    BY <1>1, <1>2, <1>5, <2>2, <2>4 DEF LineWaits, Waiting, Held
  <2>8. Signalled' /\ Counts'
    BY <1>1, <1>2, <1>3, <1>5, <2>1, <2>2, <2>3 DEF Signalled, Counts
  <2> QED
    BY <2>5, <2>6, <2>7, <2>8 DEF RecorderIInv
<1>6. CASE /\ pen' = [Poisoned EXCEPT !.at = IF pen.at = "indexes" THEN "closes" ELSE "over"]
           /\ rec' = [rec EXCEPT !.error = TRUE]
           /\ disk' = [disk EXCEPT !.sealed = SubSeq(@, 1, Len(@) - Len(pen.shard))]
  <2>1. /\ pen'.at \in {"closes", "over"} /\ pen'.shard = <<>> /\ pen'.poisoned
        /\ rec'.error /\ rec'.signalled = rec.signalled /\ rec'.closed = rec.closed
        /\ rec'.previous = rec.previous /\ rec'.disabled = rec.disabled /\ disk'.ended = disk.ended
        /\ disk'.sealed = SubSeq(disk.sealed, 1, Len(disk.sealed) - Len(pen.shard))
    BY <1>1, <1>6 DEF RecorderTyped, RecSet, PenSet, DiskSet, Poisoned
  <2>2. Len(disk.sealed) - Len(pen.shard) \in 0 .. Len(disk.sealed)
    <3>1. Len(pen.shard) <= Len(disk.sealed)
      BY <1>1, <1>3 DEF WrittenReplays
    <3>2. Len(disk.sealed) \in Nat /\ Len(pen.shard) \in Nat
      BY <1>1, PlacesTyped
    <3> QED
      BY <3>1, <3>2, Sums
  <2>3. disk'.sealed \in Seq(SampleSet) /\ Replays(disk'.sealed, 0, 0)
    BY <1>1, <2>1, <2>2, PlacesTyped, PrefixReplays DEF WrittenReplays
  <2>4. pen'.at \notin Indexing /\ pen'.at \notin Carrying /\ pen'.at \notin Writing /\ pen'.at # "ends"
    BY <2>1 DEF Indexing, Carrying, Writing
  <2>5. RecorderTyped'
    <3>1. rec \in RecSet /\ pen \in PenSet /\ disk \in DiskSet /\ <<>> \in Seq(SampleSet)
      BY <1>1, EmptyStretch DEF RecorderTyped
    <3>2. "closes" \in Places /\ (IF pen.at = "indexes" THEN "closes" ELSE "over") \in Places
      BY DEF Places
    <3>3. pen' \in PenSet
      BY <1>6, <3>1, <3>2 DEF PenSet, Poisoned
    <3>4. rec' \in RecSet
      BY <1>6, <3>1 DEF RecSet
    <3>5. disk' \in DiskSet
      <4>1. SubSeq(disk.sealed, 1, Len(disk.sealed) - Len(pen.shard)) \in Seq(SampleSet)
        BY <2>1, <2>3
      <4> QED
        BY <1>6, <3>1, <4>1 DEF DiskSet
    <3> QED
      BY <1>1, <1>2, <3>3, <3>4, <3>5 DEF RecorderTyped
  <2>6. WrittenReplays'
    BY <1>4, <2>1, <2>3, <2>4 DEF WrittenReplays
  <2>7. LineWaits'
    BY <1>1, <1>2, <2>1, <2>4 DEF LineWaits, Waiting, Held
  <2>8. Signalled' /\ Counts'
    BY <1>1, <1>2, <1>3, <2>1, <2>4 DEF Signalled, Counts
  <2> QED
    BY <2>5, <2>6, <2>7, <2>8 DEF RecorderIInv
<1> QED
  BY <1>5, <1>6 DEF Indexes

\* A shard that cannot be sealed is not on disk, and the writer is poisoned.
LEMMA SealFailsKeeps == ASSUME RecorderIInv, SealFails PROVE RecorderIInv'
<1>1. RecorderTyped /\ WrittenReplays /\ LineWaits /\ Signalled /\ Counts
  BY DEF RecorderIInv
<1>2. /\ pen.at \in {"seals", "seals last"} /\ UNCHANGED <<line, disk, offers, counted, closing>>
      /\ pen' = [Poisoned EXCEPT !.at = IF pen.at = "seals" THEN "closes" ELSE "over"]
      /\ rec' = [rec EXCEPT !.error = TRUE]
  BY DEF SealFails
<1>3. /\ pen'.at \in {"closes", "over"} /\ pen'.shard = <<>> /\ pen'.poisoned
      /\ rec'.error /\ rec'.signalled = rec.signalled /\ rec'.closed = rec.closed
      /\ rec'.previous = rec.previous /\ rec'.disabled = rec.disabled
  BY <1>1, <1>2 DEF RecorderTyped, RecSet, PenSet, DiskSet, Poisoned
<1>4. pen'.at \notin Indexing /\ pen'.at \notin Carrying /\ pen'.at \notin Writing /\ pen'.at # "ends"
  BY <1>3 DEF Indexing, Carrying, Writing
<1>5. ~disk.ended /\ pen.at # "over"
  BY <1>1, <1>2 DEF Counts
<1>6. \A n, a : Replays(<<>>, n, a)
  BY DEF Replays
<1>7. RecorderTyped'
  <2>1. rec \in RecSet /\ pen \in PenSet /\ <<>> \in Seq(SampleSet)
    BY <1>1, EmptyStretch DEF RecorderTyped
  <2>2. "closes" \in Places /\ (IF pen.at = "seals" THEN "closes" ELSE "over") \in Places
    BY DEF Places
  <2>3. pen' \in PenSet
    BY <1>2, <2>1, <2>2 DEF PenSet, Poisoned
  <2>4. rec' \in RecSet
    BY <1>2, <2>1 DEF RecSet
  <2> QED
    BY <1>1, <1>2, <2>3, <2>4 DEF RecorderTyped
<1>8. WrittenReplays'
  BY <1>1, <1>2, <1>3, <1>4, <1>6 DEF WrittenReplays
<1>9. LineWaits'
  BY <1>1, <1>2, <1>3, <1>4 DEF LineWaits, Waiting, Held
<1>10. Signalled' /\ Counts'
  BY <1>1, <1>2, <1>3, <1>4, <1>5 DEF Signalled, Counts
<1> QED
  BY <1>7, <1>8, <1>9, <1>10 DEF RecorderIInv

\* The last close seals what is open, unless an earlier write failed.
LEMMA ClosesKeeps == ASSUME RecorderIInv, ClosesWriter PROVE RecorderIInv'
<1>1. RecorderTyped /\ WrittenReplays /\ LineWaits /\ Signalled /\ Counts
  BY DEF RecorderIInv
<1>2. /\ pen.at = "closes" /\ UNCHANGED <<line, disk, offers, counted, closing>>
      /\ pen' = [pen EXCEPT !.at = IF pen.poisoned THEN "over"
                                   ELSE IF pen.shard # <<>> THEN "seals last" ELSE "ends"]
      /\ rec' = [rec EXCEPT !.error = @ \/ pen.poisoned]
  BY DEF ClosesWriter, Finalizes
<1>3. /\ pen'.at = (IF pen.poisoned THEN "over" ELSE IF pen.shard # <<>> THEN "seals last" ELSE "ends")
      /\ pen'.shard = pen.shard /\ pen'.poisoned = pen.poisoned
      /\ rec'.error = (rec.error \/ pen.poisoned) /\ rec'.written = rec.written
      /\ rec'.dropped = rec.dropped /\ rec'.signalled = rec.signalled /\ rec'.closed = rec.closed
      /\ rec'.previous = rec.previous /\ rec'.disabled = rec.disabled
  BY <1>1, <1>2 DEF RecorderTyped, RecSet, PenSet, DiskSet
<1>4. /\ pen'.at \notin Indexing /\ pen'.at \notin Carrying /\ pen'.at \notin Writing
      /\ pen.at \notin Indexing /\ pen.at \notin Carrying /\ pen.at \notin Writing
  <2>1. pen.at = "closes" /\ pen'.at \in {"over", "seals last", "ends"}
    BY <1>2, <1>3
  <2> QED
    BY <2>1 DEF Indexing, Carrying, Writing
<1>5. ~disk.ended /\ pen.at # "over"
  BY <1>1, <1>2 DEF Counts
<1>6. RecorderTyped'
  <2>1. rec \in RecSet /\ pen \in PenSet
    BY <1>1 DEF RecorderTyped
  <2>2. (IF pen.poisoned THEN "over" ELSE IF pen.shard # <<>> THEN "seals last" ELSE "ends") \in Places
    BY DEF Places
  <2>3. pen' \in PenSet
    BY <1>2, <2>1, <2>2 DEF PenSet
  <2>4. rec' \in RecSet
    <3>1. (rec.error \/ pen.poisoned) \in BOOLEAN
      OBVIOUS
    <3> QED
      BY <1>2, <2>1, <3>1 DEF RecSet
  <2> QED
    BY <1>1, <1>2, <2>3, <2>4 DEF RecorderTyped
<1>7. WrittenReplays' /\ WrittenLen' = WrittenLen
  <2>1. WrittenLen' = WrittenLen
    <3>1. WrittenLen = Len(disk.sealed) + Len(pen.shard)
      BY <1>4 DEF WrittenLen
    <3>2. WrittenLen' = Len(disk'.sealed) + Len(pen'.shard)
      BY <1>4 DEF WrittenLen
    <3> QED
      BY <1>2, <1>3, <3>1, <3>2
  <2>2. Replays(disk.sealed, 0, 0) /\ Replays(pen.shard, Len(disk.sealed), ActionAfter(disk.sealed, 0))
    BY <1>1, <1>4 DEF WrittenReplays
  <2>3. WrittenReplays'
    BY <1>2, <1>3, <1>4, <2>2 DEF WrittenReplays
  <2> QED
    BY <2>1, <2>3
<1>8. LineWaits'
  BY <1>1, <1>2, <1>3, <1>4 DEF LineWaits, Waiting, Held
<1>9. Signalled'
  BY <1>1, <1>2, <1>3, <1>4 DEF Signalled
<1>10. Counts'
  <2>1. closing # "sealed"
    BY <1>1, <1>5 DEF Counts
  <2>2. CASE pen.poisoned
    <3>1. pen'.at = "over" /\ pen'.poisoned /\ pen'.shard = <<>> /\ rec'.error
      BY <1>1, <1>3, <2>2 DEF Counts
    <3> QED
      BY <1>2, <1>5, <2>1, <3>1 DEF Counts
  <2>3. CASE ~pen.poisoned
    <3>1. /\ pen'.at = (IF pen.shard # <<>> THEN "seals last" ELSE "ends") /\ ~pen'.poisoned
          /\ pen'.at # "over" /\ (pen'.at = "ends" => pen'.shard = <<>>)
      BY <1>3, <2>3
    <3>2. rec'.written = WrittenLen'
      BY <1>1, <1>3, <1>5, <1>7, <2>3 DEF Counts
    <3> QED
      BY <1>2, <1>5, <2>1, <3>1, <3>2 DEF Counts
  <2> QED
    BY <2>2, <2>3
<1> QED
  BY <1>6, <1>7, <1>8, <1>9, <1>10 DEF RecorderIInv

\* The final manifest counts what is on disk, and nothing that waits is left.
LEMMA EndsKeeps == ASSUME RecorderIInv, EndsManifest PROVE RecorderIInv'
<1>1. RecorderTyped /\ WrittenReplays /\ LineWaits /\ Signalled /\ Counts
  BY DEF RecorderIInv
<1>2. /\ pen.at = "ends" /\ UNCHANGED <<line, offers, counted, closing>>
      /\ pen' = [pen EXCEPT !.at = "over"]
      /\ rec' = rec \/ rec' = [rec EXCEPT !.error = TRUE]
      /\ disk' = [disk EXCEPT !.ended = TRUE, !.accepted = rec.written, !.dropped = rec.dropped]
         \/ (disk' = disk /\ rec' = [rec EXCEPT !.error = TRUE])
  BY DEF EndsManifest
<1>3. /\ pen'.at = "over" /\ pen'.shard = pen.shard /\ pen'.poisoned = pen.poisoned
      /\ rec'.written = rec.written /\ rec'.signalled = rec.signalled /\ rec'.closed = rec.closed
      /\ rec'.previous = rec.previous /\ rec'.disabled = rec.disabled /\ (rec.error => rec'.error)
      /\ disk'.sealed = disk.sealed
      /\ \/ disk'.ended /\ disk'.accepted = rec.written /\ disk'.dropped = rec.dropped
         \/ disk' = disk /\ rec'.error
  BY <1>1, <1>2 DEF RecorderTyped, RecSet, PenSet, DiskSet
<1>4. /\ pen'.at \notin Indexing /\ pen'.at \notin Carrying /\ pen'.at \notin Writing /\ pen'.at # "ends"
      /\ pen.at \notin Indexing /\ pen.at \notin Carrying /\ pen.at \notin Writing
  BY <1>2, <1>3 DEF Indexing, Carrying, Writing
<1>5. ~disk.ended /\ pen.at # "over" /\ ~pen.poisoned /\ pen.shard = <<>> /\ rec.written = WrittenLen
  BY <1>1, <1>2 DEF Counts
<1>6. WrittenLen = Len(disk.sealed)
  BY <1>1, <1>4, <1>5, PlacesTyped DEF WrittenLen
<1>7. RecorderTyped'
  <2>1. /\ rec \in RecSet /\ pen \in PenSet /\ disk \in DiskSet /\ "over" \in Places
        /\ rec.written \in Nat /\ rec.dropped \in Nat
    BY <1>1, FieldsTyped DEF RecorderTyped, Places
  <2>2. pen' \in PenSet
    BY <1>2, <2>1 DEF PenSet
  <2>3. rec' \in RecSet
    BY <1>2, <2>1 DEF RecSet
  <2>4. disk' \in DiskSet
    BY <1>2, <2>1 DEF DiskSet
  <2> QED
    BY <1>1, <1>2, <2>2, <2>3, <2>4 DEF RecorderTyped
<1>8. WrittenReplays'
  BY <1>1, <1>3, <1>4 DEF WrittenReplays
<1>9. LineWaits' /\ (~rec.error => rec.written + rec.dropped = counted)
  <2>1. PICK q \in Seq(SampleSet) : Waiting(q)
    BY <1>1 DEF LineWaits
  <2>2. CASE ~rec.error
    <3>1. line = <<>>
      BY <1>1, <1>4, <2>2 DEF Signalled
    <3>2. Append(q, EndMark) # <<>>
      <4>1. q \in Seq(SampleSet \cup {EndMark})
        BY <2>1
      <4> QED
        BY <4>1
    <3>3. q = <<>>
      BY <2>1, <3>1, <3>2 DEF Waiting
    <3>4. rec.written + rec.dropped + 0 + 0 = counted
      <4>1. rec.written + rec.dropped + Held + Len(q) = counted
        BY <2>1, <2>2 DEF Waiting
      <4>2. Held = 0 /\ Len(q) = 0
        BY <1>4, <3>3 DEF Held
      <4> QED
        BY <4>1, <4>2
    <3>5. rec.written + rec.dropped = counted
      <4>1. rec.written \in Nat /\ rec.dropped \in Nat
        BY <1>1, FieldsTyped
      <4> QED
        BY <3>4, <4>1
    <3>6. Waiting(q)'
      <4>1. rec'.dropped = rec.dropped
        BY <1>1, <1>2 DEF RecorderTyped, RecSet, PenSet, DiskSet
      <4>2. Held' = Held
        BY <1>4 DEF Held
      <4> QED
        BY <1>2, <1>3, <1>4, <2>1, <2>2, <4>1, <4>2 DEF Waiting
    <3> QED
      BY <3>5, <3>6 DEF LineWaits
  <2>3. CASE rec.error
    <3>1. Waiting(q)'
      BY <1>2, <1>3, <1>4, <2>1, <2>3 DEF Waiting
    <3> QED
      BY <2>3, <3>1 DEF LineWaits
  <2> QED
    BY <2>2, <2>3
<1>10. Signalled'
  BY <1>1, <1>2, <1>3, <1>4 DEF Signalled
<1>11. Counts'
  BY <1>1, <1>2, <1>3, <1>5, <1>6, <1>9 DEF Counts
<1> QED
  BY <1>7, <1>8, <1>9, <1>10, <1>11 DEF RecorderIInv

\* close(), at its first call or at a retry: one end mark, and the verdict at the end.
LEMMA CallerKeeps == ASSUME RecorderIInv, Close \/ Signals \/ JoinsWriter PROVE RecorderIInv'
<1>1. RecorderTyped /\ WrittenReplays /\ LineWaits /\ Signalled /\ Counts
  BY DEF RecorderIInv
<1>2. UNCHANGED <<pen, disk, offers, counted>>
  BY DEF Close, Signals, JoinsWriter
<1>3. WrittenReplays' /\ WrittenLen' = WrittenLen /\ TakenLen' = TakenLen /\ TakenAct' = TakenAct
      /\ Held' = Held
  BY <1>1, <1>2, WrittenStays
<1>4. PICK q \in Seq(SampleSet) : Waiting(q)
  BY <1>1 DEF LineWaits
<1>5. /\ rec'.index = rec.index /\ rec'.previous = rec.previous /\ rec'.lost = rec.lost
      /\ rec'.written = rec.written /\ rec'.dropped = rec.dropped /\ rec'.error = rec.error
      /\ rec'.disabled = rec.disabled /\ (rec.signalled => rec'.signalled) /\ (rec.closed => rec'.closed)
  BY <1>1 DEF RecorderTyped, RecSet, PenSet, DiskSet, Close, Signals, JoinsWriter
<1>6. RecorderTyped'
  BY <1>1, <1>2 DEF RecorderTyped, RecSet, PenSet, DiskSet, Close, Signals, JoinsWriter
<1>7. CASE line' = line
  <2>1. Waiting(q)'
    BY <1>2, <1>3, <1>4, <1>5, <1>7 DEF Waiting
  <2>2. LineWaits'
    BY <2>1 DEF LineWaits
  <2>3. Signalled'
    <3>1. CASE Close
      <4>1. rec'.closed = TRUE /\ rec'.signalled = rec.signalled
            /\ closing' = IF rec.signalled THEN "joins" ELSE "signals"
        BY <1>1, <3>1 DEF Close, RecorderTyped, RecSet, PenSet, DiskSet
      <4> QED
        BY <1>1, <1>2, <1>5, <1>7, <4>1 DEF Signalled
    <3>2. CASE Signals
      <4>1. rec' = rec /\ closing' # "signals"
        <5>1. rec.error \/ pen.at = "over" \/ ~(Len(line) < QueueRoom) \/ line' = Append(line, EndMark)
          BY <3>2 DEF Signals
        <5>2. Append(line, EndMark) # line
          <6>1. line = q \/ line = Append(q, EndMark)
            BY <1>4 DEF Waiting
          <6>2. line \in Seq(SampleSet \cup {EndMark})
            BY <6>1
          <6> QED
            BY <6>2
        <5> QED
          BY <1>7, <3>2, <5>1, <5>2 DEF Signals
      <4> QED
        BY <1>1, <1>2, <1>7, <4>1 DEF Signalled
    <3>3. CASE JoinsWriter
      <4>1. rec' = rec /\ closing' # "signals"
        BY <3>3 DEF JoinsWriter
      <4> QED
        BY <1>1, <1>2, <1>7, <4>1 DEF Signalled
    <3> QED
      BY <3>1, <3>2, <3>3
  <2>4. closing' = "sealed" => pen.at = "over" /\ ~rec.error
    BY <1>1 DEF Close, Signals, JoinsWriter, Counts
  <2>5. Counts'
    BY <1>1, <1>2, <1>3, <1>5, <2>4 DEF Counts
  <2> QED
    BY <1>3, <1>6, <2>2, <2>3, <2>5 DEF RecorderIInv
<1>8. CASE /\ closing = "signals" /\ ~rec.error /\ pen.at # "over" /\ line' = Append(line, EndMark)
           /\ rec' = [rec EXCEPT !.signalled = TRUE] /\ closing' = "joins"
  <2>1. rec'.signalled /\ rec'.closed = rec.closed
    BY <1>1, <1>8 DEF RecorderTyped, RecSet, PenSet, DiskSet
  <2>2. rec.closed /\ ~rec.signalled /\ pen.at \in Writing
    BY <1>1, <1>8 DEF Signalled
  <2>3. line' = Append(q, EndMark)
    BY <1>4, <1>8, <2>2 DEF Waiting
  <2>4. Waiting(q)'
    BY <1>2, <1>3, <1>4, <1>5, <2>1, <2>3 DEF Waiting
  <2>5. LineWaits'
    BY <2>4 DEF LineWaits
  <2>6. Signalled' /\ Counts'
    BY <1>1, <1>2, <1>3, <1>5, <1>8, <2>1, <2>2 DEF Signalled, Counts
  <2> QED
    BY <1>3, <1>6, <2>5, <2>6 DEF RecorderIInv
<1> QED
  BY <1>7, <1>8 DEF Close, Signals, JoinsWriter

\* No step breaks the invariant of the recorder.
LEMMA RecorderStep == ASSUME RecorderIInv, [RecorderNext]_recorderVars PROVE RecorderIInv'
<1>1. CASE RecorderNext
  BY <1>1, OfferIgnored, QueuedKeeps, TakesKeeps, AppendsKeeps, RenamesKeeps, IndexesKeeps,
     SealFailsKeeps, ClosesKeeps, EndsKeeps, CallerKeeps DEF RecorderNext
<1>2. CASE UNCHANGED recorderVars
  <2>1. UNCHANGED <<pen, disk>> /\ UNCHANGED <<rec, line, offers, counted, closing>>
    BY <1>2 DEF recorderVars
  <2>2. RecorderTyped /\ WrittenReplays /\ LineWaits /\ Signalled /\ Counts
    BY DEF RecorderIInv
  <2>3. /\ WrittenReplays' /\ WrittenLen' = WrittenLen /\ Held' = Held
        /\ TakenLen' = TakenLen /\ TakenAct' = TakenAct
    BY <2>1, <2>2, WrittenStays
  <2>4. RecorderTyped'
    BY <2>1, <2>2 DEF RecorderTyped
  <2>5. LineWaits'
    <3>1. PICK q \in Seq(SampleSet) : Waiting(q)
      BY <2>2 DEF LineWaits
    <3>2. Waiting(q)'
      BY <2>1, <2>3, <3>1 DEF Waiting
    <3> QED
      BY <3>2 DEF LineWaits
  <2>6. Signalled' /\ Counts'
    BY <2>1, <2>2, <2>3 DEF Signalled, Counts
  <2> QED
    BY <2>3, <2>4, <2>5, <2>6 DEF RecorderIInv
<1> QED
  BY <1>1, <1>2

\* What is on disk can be replayed at any moment and tells of every action that
\* was dropped, and a recording that was sealed counts all that was offered,
\* whatever fails or times out (memory/trajectory.py, datasets/shards.py).
THEOREM RecorderSafety == RecorderSpec => []RecordingTrue
<1>1. RecorderInit => RecorderIInv
  BY RecorderInitial
<1>2. RecorderIInv /\ [RecorderNext]_recorderVars => RecorderIInv'
  BY RecorderStep
<1>3. RecorderIInv => RecordingTrue
  <2> SUFFICES ASSUME RecorderIInv PROVE RecordingTrue
    OBVIOUS
  <2>1. RecorderTyped /\ WrittenReplays /\ LineWaits /\ Signalled /\ Counts
    BY DEF RecorderIInv
  <2>2. ShardsReplay
    <3>1. Replays(Replay, 0, 0) /\ Replay \in Seq(SampleSet)
      BY <2>1 DEF Replay, WrittenReplays, RecorderTyped, RecSet, PenSet, DiskSet
    <3>2. ASSUME NEW i \in DOMAIN Replay
          PROVE  /\ Replay[i].index = i - 1 /\ Replay[i].action = Replay[i].previous + 1
                 /\ Replay[i].previous = (IF i = 1 THEN 0 ELSE Replay[i - 1].action) + Replay[i].lost
      <4>1. i \in 1 .. Len(Replay) /\ 0 + (i - 1) = i - 1
        BY <3>1
      <4> QED
        BY <3>1, <4>1 DEF Replays
    <3> QED
      BY <3>2 DEF ShardsReplay
  <2>3. ASSUME NEW i \in DOMAIN line, NEW j \in DOMAIN line, line[i] = EndMark, line[j] = EndMark
        PROVE  i = j
    <3>1. PICK q \in Seq(SampleSet) : Waiting(q)
      BY <2>1 DEF LineWaits
    <3>2. EndMark \notin SampleSet
      BY DEF EndMark, NoSample, SampleSet
    <3>3. CASE line = q
      BY <2>3, <3>2, <3>3
    <3>4. CASE line = Append(q, EndMark)
      <4>1. \A k \in DOMAIN line : k = Len(q) + 1 \/ line[k] \in SampleSet
        BY <3>4
      <4> QED
        BY <2>3, <3>2, <4>1
    <3> QED
      BY <3>1, <3>3, <3>4 DEF Waiting
  <2>4. SealedIsTrue
    BY <2>1, <2>3 DEF SealedIsTrue, Counts, Replay
  <2> QED
    BY <2>2, <2>4 DEF RecordingTrue
<1> QED
  BY <1>1, <1>2, <1>3, PTL DEF RecorderSpec
=============================================================================

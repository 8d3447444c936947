---------------------------- MODULE FrameCapture ----------------------------
(***************************************************************************)
(* The pixels the runtime acts on: platforms/ffmpeg_x11_capture.py, the    *)
(* image capture of platforms/bedrock_x11.py, platforms/frame_cache.py,    *)
(* and the head of a tick in runtime.py.                                   *)
(*                                                                         *)
(* A picture of the game is taken at one moment, stamped at another and    *)
(* used at a third.  The image source takes, stamps and returns it in one  *)
(* call.  The stream has a process that takes pictures on its own and a    *)
(* thread that reads, stamps and keeps the newest; a call returns the      *)
(* newest that was not returned.  Time is counted in what the agent itself *)
(* did to its body: an acknowledged release and a chat line each make a    *)
(* picture that was taken before obsolete.                                 *)
(*                                                                         *)
(* The pictures are published for spectators in one file, which outlives   *)
(* an agent that dies.                                                     *)
(***************************************************************************)
EXTENDS Integers, FiniteSets

CONSTANTS
  Allowance,       \* MAX_CONSECUTIVE_IMAGE_RECONNECTS
  StallLimit,      \* stale_frame_consecutive_limit
  MaxDeeds,        \* bound: releases and chat lines
  MaxAgents        \* bound: agents, one after the other

ASSUME CaptureAssumption ==
  /\ Allowance \in Nat /\ StallLimit \in Nat \ {0}
  /\ MaxDeeds \in Nat /\ MaxAgents \in Nat \ {0}

Agents == 1 .. MaxAgents
Nobody == 0

VARIABLES
  source,     \* the capture: its kind, whether PublishedFrameCapture owns it, its state
  stream,     \* of the stream: the picture under way, the newest one read, what was returned
  tick,       \* the runtime: its place, its picture, what it owes and counts
  deeds,      \* history: releases acknowledged and chat lines sent, how many there were
              \* when a picture was last returned, and the one before, and at the last chat
  agent,      \* which agent runs, and the last one there was
  cache,      \* FRAME_CACHE_FILE: whose picture it is, or nobody's, and its age
  spectator   \* the dashboard: whom it looks for, what it has read

captureVars == <<source, stream, tick, deeds, agent, cache, spectator>>

NoPicture == [seen |-> -1, stamp |-> -1]

Reader(kind, owned) ==
  [kind |-> kind, owned |-> owned, reader |-> "ok", reopen |-> FALSE, streak |-> 0]
NoStream == [under |-> NoPicture, newest |-> NoPicture, fresh |-> FALSE]
Tick(place) == [at |-> place, picture |-> NoPicture, owes |-> FALSE, chat |-> -1, stalls |-> 0]
NoDeeds == [done |-> 0, last |-> 0, before |-> 0, spoke |-> 0]

Ends == tick' = [tick EXCEPT !.at = "over"]

-----------------------------------------------------------------------------
(* The stream *)

\* The process takes a picture, and sends it down the pipe.
Grab ==
  /\ source.kind = "stream" /\ source.reader = "ok" /\ stream.under = NoPicture
  /\ tick.at # "over"
  /\ stream' = [stream EXCEPT !.under.seen = deeds.done]
  /\ UNCHANGED <<source, tick, deeds, agent, cache, spectator>>

\* _read_frames: stamped when it has been read, and kept if it is the newest.
ReadFrame ==
  /\ source.kind = "stream" /\ source.reader = "ok" /\ stream.under # NoPicture
  /\ tick.at # "over"
  /\ stream' = [under |-> NoPicture, newest |-> [stream.under EXCEPT !.stamp = deeds.done],
                fresh |-> TRUE]
  /\ UNCHANGED <<source, tick, deeds, agent, cache, spectator>>

\* The process ends, or the stream breaks off within a frame.
StreamFails ==
  /\ source.kind = "stream" /\ source.reader = "ok" /\ tick.at # "over"
  /\ source' = [source EXCEPT !.reader = "failed"]
  /\ UNCHANGED <<stream, tick, deeds, agent, cache, spectator>>

-----------------------------------------------------------------------------
(* One call of capture() *)

\* Slip: a frame that was returned is returned again.
AnyFrame == stream.newest # NoPicture

\* FfmpegX11Capture.capture waits for a frame it has not returned.
NewFrame == stream.fresh

\* A picture, with its age when the tick looks at it: `late` is stale() and the
\* age for which nothing is published, or reset, in PublishedFrameCapture.
Taken(picture, late) ==
  /\ tick' = [tick EXCEPT !.picture = picture, !.at = IF late THEN "stale" ELSE "fences"]
  /\ source' = [source EXCEPT !.streak = IF late THEN @ ELSE 0, !.reopen = FALSE, !.reader = "ok"]
  /\ deeds' = [deeds EXCEPT !.before = deeds.last, !.last = deeds.done]
  /\ cache' \in {cache} \cup
                (IF source.owned THEN {[owner |-> agent.now, old |-> late]} ELSE {})

\* Slip: the reader is opened again as often as it takes.
Unbounded == TRUE

\* The count of timeouts in a row that is forgiven.
Forgiven == source.streak < Allowance

\* ImageCaptureTimeout, which only PublishedFrameCapture survives for long: an
\* image reader is broken by it, and opened again before the next picture.
TimedOut ==
  /\ source' = [source EXCEPT !.reader = IF source.kind = "image" THEN "broken" ELSE @,
                              !.reopen = source.owned /\ source.kind = "image",
                              !.streak = IF source.owned THEN @ + 1 ELSE @]
  /\ tick' = [tick EXCEPT !.at = IF source.owned /\ ~Forgiven THEN "over" ELSE "timeout"]

\* Another failure, of a reader that was not opened again in particular, ends the agent.
CaptureFails == Ends /\ source' = [source EXCEPT !.reopen = FALSE]

Readable == source.reader = "ok" \/ source.reopen

Capture ==
  /\ tick.at = "capture"
  /\ \/ /\ source.kind = "image" /\ Readable
        /\ \E late \in BOOLEAN : Taken([seen |-> deeds.done, stamp |-> deeds.done], late)
        /\ UNCHANGED stream
     \/ /\ source.kind = "stream" /\ NewFrame
        /\ \E late \in BOOLEAN : Taken(stream.newest, late)
        /\ stream' = [stream EXCEPT !.fresh = FALSE]
     \/ /\ Readable /\ (source.kind = "stream" => ~NewFrame)
        /\ TimedOut
        /\ UNCHANGED <<stream, cache, deeds>>
     \/ /\ CaptureFails
        /\ UNCHANGED <<stream, cache, deeds>>
  /\ UNCHANGED <<agent, spectator>>

-----------------------------------------------------------------------------
(* What a tick does with it *)

\* _release_and_reconcile_inputs, acknowledged or not; `next` is the tick then.
LetGo(next) ==
  \/ /\ deeds.done < MaxDeeds
     /\ deeds' = [deeds EXCEPT !.done = @ + 1]
     /\ tick' = [next EXCEPT !.owes = FALSE]
  \/ tick' = [next EXCEPT !.owes = TRUE] /\ UNCHANGED deeds

\* Too late, or none: inputs are released, and too many in a row end the agent.
Stalled ==
  /\ tick.at \in {"timeout", "stale"}
  /\ LetGo([tick EXCEPT !.stalls = @ + 1,
                          !.picture = NoPicture,
                          !.at = IF tick.stalls + 1 >= StallLimit THEN "over" ELSE "capture"])
  /\ UNCHANGED <<source, stream, agent, cache, spectator>>

\* Slip: a chat line leaves nothing to wait for.
NeverBefore == FALSE

\* _await_post_chat_capture: a picture stamped before the chat ended is not used.
BeforeChat == tick.chat >= 0 /\ tick.picture.stamp < tick.chat

\* A picture in time: a release that is owed comes first and takes the tick, and
\* so does a picture that is older than the last chat line.
Fences ==
  /\ tick.at = "fences"
  /\ IF tick.owes \/ BeforeChat
     THEN LetGo([tick EXCEPT !.at = "capture", !.picture = NoPicture, !.stalls = 0])
     ELSE tick' = [tick EXCEPT !.at = "act", !.stalls = 0, !.chat = -1] /\ UNCHANGED deeds
  /\ UNCHANGED <<source, stream, agent, cache, spectator>>

\* The tick decides on its picture and acts; a chat line takes the rest of the tick.
ActOnIt ==
  /\ tick.at = "act"
  /\ \/ tick' = [tick EXCEPT !.at = "capture", !.picture = NoPicture] /\ UNCHANGED deeds
     \/ /\ deeds.done < MaxDeeds /\ deeds' = [deeds EXCEPT !.done = @ + 1, !.spoke = deeds.done + 1]
        /\ tick' = [tick EXCEPT !.at = "chatted", !.picture = NoPicture, !.chat = deeds.done + 1]
  /\ UNCHANGED <<source, stream, agent, cache, spectator>>

Chatted ==
  /\ tick.at = "chatted"
  /\ LetGo([tick EXCEPT !.at = "capture"])
  /\ UNCHANGED <<source, stream, agent, cache, spectator>>

-----------------------------------------------------------------------------
(* Agents and spectators *)

\* close(): its own picture is removed; a process that is killed leaves it.
AgentEnds ==
  /\ agent.now # Nobody
  /\ agent' = [agent EXCEPT !.now = Nobody]
  /\ cache' \in {cache} \cup
                (IF cache.owner = agent.now THEN {[owner |-> Nobody, old |-> FALSE]} ELSE {})
  /\ source' = Reader("image", TRUE) /\ stream' = NoStream /\ tick' = Tick("over")
  /\ deeds' = NoDeeds
  /\ UNCHANGED spectator

\* An agent that reads its descriptor before the launcher has written it is no owner.
AgentBegins ==
  /\ agent.now = Nobody /\ agent.last < MaxAgents
  /\ agent' = [now |-> agent.last + 1, last |-> agent.last + 1]
  /\ \E kind \in {"image", "stream"}, owned \in BOOLEAN : source' = Reader(kind, owned)
  /\ tick' = Tick("capture")
  /\ UNCHANGED <<stream, deeds, cache, spectator>>

PictureAges ==
  /\ cache.owner # Nobody /\ ~cache.old
  /\ cache' = [cache EXCEPT !.old = TRUE]
  /\ UNCHANGED <<source, stream, tick, deeds, agent, spectator>>

\* Slip: whatever is in the file is shown.
AnybodysPicture(for) == cache.owner # Nobody

\* read_agent_frame: only what this very process published, and only if it is new.
Showable(for) == cache.owner = for /\ ~cache.old

\* _capture_live_bedrock_frame: the agent that lives is looked for; while there is
\* one its pictures are the only ones.
LookFor ==
  /\ agent.now # Nobody
  /\ spectator' = [for |-> agent.now, got |-> Nobody]
  /\ UNCHANGED <<source, stream, tick, deeds, agent, cache>>

Show ==
  /\ spectator.for # Nobody
  /\ spectator' = [spectator EXCEPT !.got = IF Showable(spectator.for) THEN cache.owner ELSE Nobody]
  /\ UNCHANGED <<source, stream, tick, deeds, agent, cache>>

CaptureInit ==
  /\ source = Reader("image", TRUE) /\ stream = NoStream /\ tick = Tick("over")
  /\ deeds = NoDeeds /\ agent = [now |-> Nobody, last |-> Nobody]
  /\ cache = [owner |-> Nobody, old |-> FALSE]
  /\ spectator = [for |-> Nobody, got |-> Nobody]

CaptureNext ==
  \/ Grab \/ ReadFrame \/ StreamFails \/ Capture \/ Stalled \/ Fences \/ ActOnIt \/ Chatted
  \/ AgentEnds \/ AgentBegins \/ PictureAges \/ LookFor \/ Show

CaptureSpec == CaptureInit /\ [][CaptureNext]_captureVars
-----------------------------------------------------------------------------
(* Properties *)

CaptureTypeOK ==
  /\ source.kind \in {"image", "stream"} /\ source.reader \in {"ok", "broken", "failed"}
  /\ tick.at \in {"capture", "timeout", "stale", "fences", "act", "chatted", "over"}
  /\ agent.now \in Agents \cup {Nobody} /\ cache.owner \in Agents \cup {Nobody}
  /\ deeds.done \in 0 .. MaxDeeds

\* The runtime decides on a picture that shows what it did itself: taken after
\* every release and chat line with the image source; with the stream, stamped
\* after the last chat line, and read after the picture before was returned, so
\* that no release is missed twice.
ActsOnNews ==
  tick.at = "act" =>
    /\ source.kind = "image" => tick.picture.seen = deeds.done
    /\ tick.picture.stamp >= deeds.before
    /\ tick.picture.stamp >= deeds.spoke

\* What is forgiven in a row is bounded by pictures in time alone: nothing that is
\* old, and no reader that is opened again, starts the count anew.
RecoveryBounded ==
  source.streak > Allowance => tick.at = "over"

\* A spectator sees the agent it looked for, whatever file a dead one has left.
SpectatorSeesIts == spectator.got \in {Nobody, spectator.for}

CaptureSound == CaptureTypeOK /\ ActsOnNews /\ RecoveryBounded /\ SpectatorSeesIts
=============================================================================

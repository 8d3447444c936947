-------------------------- MODULE TrajectoryRecorder --------------------------
(***************************************************************************)
(* TrajectoryRecorder of memory/trajectory.py and TrajectoryShardWriter of *)
(* datasets/shards.py.  The motor thread offers every action that the      *)
(* supervisor accepted to a bounded queue; a writer thread packs samples   *)
(* into shards and seals each shard by a rename and an index transaction.  *)
(* A full queue drops, a full disk ends the recording, any other failure   *)
(* poisons the writer.  close() may time out and be tried again.           *)
(*                                                                         *)
(* An action is known by the number of its offer.  Frames, hashes and the  *)
(* rest of a sample are left out; the count of drops is taken to be atomic.*)
(***************************************************************************)
EXTENDS Naturals, Sequences

CONSTANTS QueueRoom,    \* queue_size
          ShardSteps,   \* shard_steps
          MaxOffers     \* bound: actions offered

ASSUME RecorderAssumption ==
    QueueRoom \in Nat \ {0} /\ ShardSteps \in Nat \ {0} /\ MaxOffers \in Nat

VARIABLES
    rec,       \* the recorder's fields
    line,      \* the queue
    pen,       \* the writer thread and its open shard
    disk,      \* the samples of the sealed shards, in order, and the manifest
    offers,    \* history: actions offered
    counted,   \* history: those that were recorded or counted as dropped
    closing    \* the caller of close()

recorderVars == <<rec, line, pen, disk, offers, counted, closing>>

NoSample == [index |-> 0, action |-> 0, previous |-> 0, lost |-> 0]
EndMark == NoSample    \* None in the code: no sample is about action 0

RecorderInit ==
    /\ rec = [index |-> 0, previous |-> 0, lost |-> 0, written |-> 0, dropped |-> 0,
              closed |-> FALSE, signalled |-> FALSE, error |-> FALSE, disabled |-> FALSE]
    /\ line = <<>>
    /\ pen = [at |-> "gets", sample |-> NoSample, shard |-> <<>>, poisoned |-> FALSE]
    /\ disk = [sealed |-> <<>>, ended |-> FALSE, accepted |-> 0, dropped |-> 0]
    /\ offers = 0 /\ counted = 0
    /\ closing = "no"

Replay == disk.sealed

-----------------------------------------------------------------------------
\* record_accepted in the motor thread, until the runtime closes the recorder.
Offer ==
    /\ offers < MaxOffers /\ ~rec.closed
    /\ offers' = offers + 1
    /\ UNCHANGED <<pen, disk, closing>>

RecordSkipped ==
    /\ Offer /\ rec.disabled
    /\ rec' = [rec EXCEPT !.dropped = @ + 1] /\ counted' = counted + 1
    /\ UNCHANGED line

\* It raises (a failed writer, a bad provenance): the runtime disables it.
RecordRefused ==
    /\ Offer /\ ~rec.disabled
    /\ rec' = [rec EXCEPT !.disabled = TRUE]
    /\ UNCHANGED <<line, counted>>

\* Slip: a drop is counted, but the next sample does not tell of it.
DroppedQuietly(c, a) == [c EXCEPT !.dropped = @ + 1, !.previous = a]

\* What a full queue does: the next sample starts from this action.
Dropped(c, a) == [c EXCEPT !.dropped = @ + 1, !.lost = @ + 1, !.previous = a]

RecordQueued ==
    /\ Offer /\ ~rec.disabled /\ ~rec.error
    /\ IF Len(line) < QueueRoom
       THEN /\ line' = Append(line, [index |-> rec.index, action |-> offers',
                                     previous |-> rec.previous, lost |-> rec.lost])
            /\ rec' = [rec EXCEPT !.index = @ + 1, !.lost = 0, !.previous = offers']
       ELSE rec' = Dropped(rec, offers') /\ UNCHANGED line
    /\ counted' = counted + 1

-----------------------------------------------------------------------------
\* The writer thread.  A failure goes through its last close.
GetsSample ==
    /\ pen.at = "gets" /\ line # <<>>
    /\ line' = Tail(line)
    /\ IF Head(line) = EndMark
       THEN pen' = [pen EXCEPT !.at = "closes"] /\ UNCHANGED rec
       ELSE IF rec.disabled
       THEN rec' = [rec EXCEPT !.dropped = @ + 1] /\ UNCHANGED pen
       ELSE /\ pen' = [pen EXCEPT !.sample = Head(line),
                          !.at = IF Len(pen.shard) >= ShardSteps THEN "seals" ELSE "appends"]
            /\ UNCHANGED rec
    /\ UNCHANGED <<disk, offers, counted, closing>>

AppendsSample ==
    /\ pen.at = "appends"
    /\ \/ /\ pen' = [pen EXCEPT !.at = "gets", !.shard = Append(@, pen.sample)]
          /\ rec' = [rec EXCEPT !.written = @ + 1]
       \/ /\ pen' = [pen EXCEPT !.at = "gets"]
          /\ rec' = [rec EXCEPT !.disabled = TRUE, !.dropped = @ + 1]
       \/ /\ pen' \in {[pen EXCEPT !.at = "closes", !.poisoned = p,
                           !.shard = IF p THEN <<>> ELSE @] : p \in BOOLEAN}
          /\ rec' = [rec EXCEPT !.error = TRUE]
    /\ UNCHANGED <<line, disk, offers, counted, closing>>

\* _seal_shard: the rename publishes, the index transaction may still fail.
Renames ==
    /\ pen.at \in {"seals", "seals last"}
    /\ disk' = [disk EXCEPT !.sealed = @ \o pen.shard]
    /\ pen' = [pen EXCEPT !.at = IF @ = "seals" THEN "indexes" ELSE "indexes last"]
    /\ UNCHANGED <<rec, line, offers, counted, closing>>

Poisoned == [pen EXCEPT !.at = "closes", !.poisoned = TRUE, !.shard = <<>>]

Indexes ==
    /\ pen.at \in {"indexes", "indexes last"}
    /\ \/ /\ pen' = [pen EXCEPT !.shard = <<>>,
                                !.at = IF @ = "indexes" THEN "appends" ELSE "ends"]
          /\ UNCHANGED <<rec, disk>>
       \/ /\ pen' = [Poisoned EXCEPT !.at = IF pen.at = "indexes" THEN "closes" ELSE "over"]
          /\ rec' = [rec EXCEPT !.error = TRUE]
          /\ disk' = [disk EXCEPT !.sealed = SubSeq(@, 1, Len(@) - Len(pen.shard))]
    /\ UNCHANGED <<line, offers, counted, closing>>

SealFails ==
    /\ pen.at \in {"seals", "seals last"}
    /\ pen' = [Poisoned EXCEPT !.at = IF pen.at = "seals" THEN "closes" ELSE "over"]
    /\ rec' = [rec EXCEPT !.error = TRUE]
    /\ UNCHANGED <<line, disk, offers, counted, closing>>

\* Slip: the last close forgets that an earlier write failed.
FinalizesAlways(p) == TRUE

Finalizes(p) == ~p.poisoned

ClosesWriter ==
    /\ pen.at = "closes"
    /\ pen' = [pen EXCEPT !.at = IF ~Finalizes(pen) THEN "over"
                                 ELSE IF pen.shard # <<>> THEN "seals last" ELSE "ends"]
    /\ rec' = [rec EXCEPT !.error = @ \/ ~Finalizes(pen)]
    /\ UNCHANGED <<line, disk, offers, counted, closing>>

\* The final manifest, on disk first and then in the database.
EndsManifest ==
    /\ pen.at = "ends"
    /\ pen' = [pen EXCEPT !.at = "over"]
    /\ \/ /\ disk' = [disk EXCEPT !.ended = TRUE, !.accepted = rec.written, !.dropped = rec.dropped]
          /\ rec' \in {rec, [rec EXCEPT !.error = TRUE]}
       \/ rec' = [rec EXCEPT !.error = TRUE] /\ UNCHANGED disk
    /\ UNCHANGED <<line, offers, counted, closing>>

-----------------------------------------------------------------------------
\* close(): a full queue, and later a slow writer, may use up its time.
Close ==
    /\ closing \in {"no", "timed out"}
    /\ rec' = [rec EXCEPT !.closed = TRUE]
    /\ closing' = IF rec.signalled THEN "joins" ELSE "signals"
    /\ UNCHANGED <<line, pen, disk, offers, counted>>

Signals ==
    /\ closing = "signals"
    /\ \/ (rec.error \/ pen.at = "over") /\ closing' = "failed" /\ UNCHANGED <<rec, line>>
       \/ /\ ~rec.error /\ pen.at # "over"
          /\ IF Len(line) < QueueRoom
             THEN /\ line' = Append(line, EndMark)
                  /\ rec' = [rec EXCEPT !.signalled = TRUE] /\ closing' = "joins"
             ELSE closing' = "timed out" /\ UNCHANGED <<rec, line>>
    /\ UNCHANGED <<pen, disk, offers, counted>>

JoinsWriter ==
    /\ closing = "joins"
    /\ closing' = IF pen.at # "over" THEN "timed out" ELSE IF rec.error THEN "failed" ELSE "sealed"
    /\ UNCHANGED <<rec, line, pen, disk, offers, counted>>

RecorderNext ==
    \/ RecordSkipped \/ RecordRefused \/ RecordQueued
    \/ GetsSample \/ AppendsSample \/ Renames \/ Indexes \/ SealFails
    \/ ClosesWriter \/ EndsManifest
    \/ Close \/ Signals \/ JoinsWriter

RecorderSpec == RecorderInit /\ [][RecorderNext]_recorderVars

-----------------------------------------------------------------------------
(***************************************************************************)
(* What is on disk can be replayed at any moment, as if the agent died     *)
(* there: steps follow each other from zero, and each names the action     *)
(* physically before it, or how many were dropped in between               *)
(* (memory/trajectory.py:212-260, 505-609; datasets/shards.py:64-207).     *)
(***************************************************************************)
ShardsReplay ==
    \A i \in DOMAIN Replay :
       /\ Replay[i].index = i - 1
       /\ Replay[i].action = Replay[i].previous + 1
       /\ Replay[i].previous = (IF i = 1 THEN 0 ELSE Replay[i - 1].action) + Replay[i].lost

(***************************************************************************)
(* A manifest that ended counts exactly the steps in its shards, and after *)
(* a close() that succeeded, at the first attempt or at a retry, recorded  *)
(* and dropped steps together are all that were offered and not refused;   *)
(* the retry never queues a second end mark (memory/trajectory.py:611-672).*)
(***************************************************************************)
SealedIsTrue ==
    /\ disk.ended => disk.accepted = Len(Replay)
    /\ closing = "sealed" => disk.ended /\ disk.accepted + disk.dropped = counted
    /\ \A i, j \in DOMAIN line : line[i] = EndMark /\ line[j] = EndMark => i = j

\* Both: what is on disk is what was done, at any moment and at the end.
RecordingTrue == ShardsReplay /\ SealedIsTrue
=============================================================================

----------------------------- MODULE VisionWorker -----------------------------
(***************************************************************************)
(* ActiveVLMWorker of perception/service.py: one thread that asks a slow   *)
(* vision model about a frame and publishes the answer to the blackboard.  *)
(* The runtime thread submits, and never waits: a query is refused while   *)
(* another one is queued or under way.  stop() fences both ends under the  *)
(* admission lock and waits for the thread as long as it is allowed to.    *)
(*                                                                         *)
(* What the model sees is left out, and how far a scene may change before  *)
(* its answer is stale.  The worker is started once per agent.             *)
(***************************************************************************)
EXTENDS Naturals, Sequences

CONSTANT MaxQueries     \* bound: queries asked

ASSUME VisionAssumption == MaxQueries \in Nat

VARIABLES
    halted,      \* _stop
    admitted,   \* _work_admitted
    jobs,       \* the queue, of length one
    eye,        \* the worker thread and the query it holds
    asked,      \* queries submitted
    published,  \* history: queries whose answer is on the blackboard
    stopping    \* stop(): "no", "called", "gone" or "left" (what it returned)

visionVars == <<halted, admitted, jobs, eye, asked, published, stopping>>

Sentinel == 0
NoQuery == 0
QueueSize == 1

VisionInit ==
    /\ halted = FALSE /\ admitted = FALSE /\ jobs = <<>>
    /\ eye = [at |-> "loop", query |-> NoQuery]
    /\ asked = 0 /\ published = {}
    /\ stopping = "no"

-----------------------------------------------------------------------------
\* submit(), under the admission lock; a refusal changes nothing.
Submit ==
    /\ asked < MaxQueries /\ ~halted /\ ~admitted
    /\ asked' = asked + 1
    /\ IF Len(jobs) < QueueSize
       THEN jobs' = Append(jobs, asked + 1) /\ admitted' = TRUE
       ELSE UNCHANGED <<jobs, admitted>>
    /\ UNCHANGED <<halted, eye, published, stopping>>

\* stop(): halted, then wake the thread if there is room for the sentinel.
StopVision ==
    /\ stopping = "no"
    /\ halted' = TRUE /\ stopping' = "called"
    /\ UNCHANGED <<admitted, jobs, eye, asked, published>>

WakeVision ==
    /\ stopping = "called"
    /\ jobs' = IF Len(jobs) < QueueSize THEN Append(jobs, Sentinel) ELSE jobs
    /\ stopping' = "joins"
    /\ UNCHANGED <<halted, admitted, eye, asked, published>>

\* The join returns when the thread is over or the deadline has passed.
Joined ==
    /\ stopping = "joins"
    /\ stopping' \in (IF eye.at = "over" THEN {"gone"} ELSE {"left"})
    /\ UNCHANGED <<halted, admitted, jobs, eye, asked, published>>

-----------------------------------------------------------------------------
\* The thread.  Each look at the stop event and each use of the lock is a step.
Eye(at) == eye' = [eye EXCEPT !.at = at]
Rest == UNCHANGED <<halted, asked, stopping>>

LooksAtStop ==
    /\ eye.at = "loop"
    /\ Eye(IF halted THEN "over" ELSE "gets")
    /\ UNCHANGED <<admitted, jobs, published>> /\ Rest

Gets ==
    /\ eye.at = "gets"
    /\ \/ /\ jobs # <<>>
          /\ eye' = IF Head(jobs) = Sentinel THEN [eye EXCEPT !.at = "over"]
                    ELSE [at |-> "holds", query |-> Head(jobs)]
          /\ jobs' = Tail(jobs)
       \/ jobs = <<>> /\ Eye("loop") /\ UNCHANGED jobs
    /\ UNCHANGED <<admitted, published>> /\ Rest

\* The finally clause gives the admission back, also on the way out.
Leaves(at) ==
    /\ eye' = [at |-> at, query |-> NoQuery] /\ admitted' = FALSE
    /\ UNCHANGED <<jobs, published>> /\ Rest

HoldsQuery == eye.at = "holds" /\ (IF halted THEN Leaves("over")
                              ELSE Eye("inspects") /\ UNCHANGED <<admitted, jobs, published>> /\ Rest)

\* The model answers, or fails, or notices that it is cancelled.
Inspects ==
    /\ eye.at = "inspects"
    /\ \/ Leaves("loop")
       \/ Eye("answers") /\ UNCHANGED <<admitted, jobs, published>> /\ Rest

\* _publish: a first look, the comparison with the current frame, and the lock.
Compares ==
    /\ eye.at = "answers"
    /\ \/ Leaves("loop")
       \/ ~halted /\ Eye("publishes") /\ UNCHANGED <<admitted, jobs, published>> /\ Rest

\* Slip: the first look at the stop event is enough.
MayPublishAnyway == TRUE

MayPublish == ~halted

Publishes ==
    /\ eye.at = "publishes"
    /\ published' = IF MayPublish THEN published \cup {eye.query} ELSE published
    /\ Eye("published")
    /\ UNCHANGED <<admitted, jobs>> /\ Rest

Returns == eye.at = "published" /\ Leaves("loop")

EyeThread == LooksAtStop \/ Gets \/ HoldsQuery \/ Inspects \/ Compares \/ Publishes \/ Returns

VisionNext == Submit \/ StopVision \/ WakeVision \/ Joined \/ EyeThread

\* The thread goes on and the model answers.
VisionFairness == WF_visionVars(EyeThread)

VisionSpec == VisionInit /\ [][VisionNext]_visionVars /\ VisionFairness

-----------------------------------------------------------------------------
\* A query is admitted exactly while it is queued or in the thread's hands.
AdmissionAgrees ==
    eye.at # "over" => (admitted <=> eye.query # NoQuery \/ \E i \in DOMAIN jobs : jobs[i] # Sentinel)

(***************************************************************************)
(* Retirement of the vision worker.  Admission is exact, so that one query *)
(* at most is under way and none is lost; an answer that was being         *)
(* computed when stop() fenced is never published; and the thread ends     *)
(* although its queue may have had no room for the sentinel                *)
(* (perception/service.py:311-341, 343-401, 645-655).                      *)
(***************************************************************************)
VisionFenced ==
    /\ []AdmissionAgrees
    /\ [][halted => published' = published]_visionVars
    /\ halted ~> eye.at = "over"
=============================================================================

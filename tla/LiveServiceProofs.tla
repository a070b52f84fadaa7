--------------------------- MODULE LiveServiceProofs ---------------------------
(***************************************************************************)
(* Proof that the live service has at most one worker, the published one,  *)
(* and that its queue always has a reader, for every number of jobs,       *)
(* updates and pauses and every length of the queue; then, of the parts of *)
(* MCEstimation that share no state with it, that the allocation of tasks  *)
(* keeps every task and that the rolling mission plans from what is.       *)
(***************************************************************************)
EXTENDS LiveService, MCEstimation, SequenceTheorems, FiniteSetTheorems, WellFoundedInduction, TLAPS

Answers == {"finished", "refused", "error"}
Points == {"none", "running", "reported", "pausing", "waiting", "resumed", "next", "completing",
           "closed", "exiting", "exited", "dead"}

CollectorStates ==
  [step : {"none", "done", "fail"}]
  \cup [step : {"get", "empty", "end"}, terminal : BOOLEAN]
  \cup [step : {"check"}, terminal : BOOLEAN, event : Events]
  \cup [step : {"publish"}, terminal : BOOLEAN, event : Events, paused : BOOLEAN]

Operations ==
  [step : {"free", "start", "reset", "spawn"}]
  \cup [step : {"close", "cancel"}, kind : {"free", "start", "reset"}, alive : BOOLEAN,
        terminal : BOOLEAN]
  \cup [step : {"pause"}, wanted : BOOLEAN]

\* What a worker reports is one of the events, also when it reports a result.
Types ==
  /\ worker \in [Jobs -> Points]
  /\ result \in [Jobs -> Answers \cup {None}]
  /\ \A j \in Jobs : worker[j] = "closed" => result[j] \in Answers
  /\ messages \in [Jobs -> Seq(Events)]
  /\ collector \in [Jobs -> CollectorStates]
  /\ op \in Operations /\ paused \in BOOLEAN

Quiet == \A j \in Jobs : ~Alive(j)

\* The process an operation has looked at stays dead until the operation ends,
\* and a new one is spawned only where there is none.
Stopped ==
  /\ op.step \in {"start", "reset", "spawn", "cancel"} => Quiet
  /\ op.step = "close" /\ ~op.alive => Quiet

\* A collector gives its job up when it is cancelled: no live one ever is.
Wanted == status \in {"cancelled", "idle"} => Quiet /\ op.step # "spawn"

\* The inductive invariant.
Inv == Types /\ Stopped /\ Wanted /\ OneDrainedWorker

-----------------------------------------------------------------------------
(* Lemmas about the parts of a step                                        *)

\* An event that is put in a queue is one of the events.
LEMMA PutTypes ==
  ASSUME NEW j \in Jobs, NEW e \in Events, messages \in [Jobs -> Seq(Events)], Put(j, e)
  PROVE  messages' \in [Jobs -> Seq(Events)]
<1>1. Append(messages[j], e) \in Seq(Events)
  OBVIOUS
<1> QED
  BY <1>1 DEF Put

\* A queue that is read from or cut keeps its events.
LEMMA Shorter ==
  ASSUME NEW q \in Seq(Events)
  PROVE  /\ q # <<>> => Head(q) \in Events /\ Tail(q) \in Seq(Events)
         /\ \A n \in 0..Len(q) : SubSeq(q, 1, n) \in Seq(Events)
<1>1. q # <<>> => Head(q) \in Events /\ Tail(q) \in Seq(Events)
  OBVIOUS
<1>2. ASSUME NEW n \in 0..Len(q) PROVE SubSeq(q, 1, n) \in Seq(Events)
  <2>1. \A i \in 1..n : q[i] \in Events
    OBVIOUS
  <2>2. SubSeq(q, 1, n) = [i \in 1..n |-> q[i]]
    OBVIOUS
  <2> QED
    BY <2>1, <2>2
<1> QED
  BY <1>1, <1>2

\* What the collector publishes is never a cancelled or an idle job.
LEMMA PublishedStatus ==
  ASSUME NEW e \in Events, NEW pz \in BOOLEAN
  PROVE  EventStatus(e, pz) \notin {"cancelled", "idle"}
  BY DEF EventStatus, Events


-----------------------------------------------------------------------------
(* The steps of a worker                                                   *)

\* A step of a live worker only moves its own program point, result and queue.
LEMMA WorkerShape ==
  ASSUME Inv, NEW j \in Jobs, WorkerStep(j) \/ WorkerCrash(j)
  PROVE  /\ OnlyWorker /\ Alive(j)
         /\ \E p \in Points \ {"none"} : worker' = [worker EXCEPT ![j] = p]
<1> USE DEF Inv, Types, Goto, Alive, Points, OnlyWorker
<1>1. CASE WorkerReport(j)
  BY <1>1 DEF WorkerReport
<1>2. CASE WorkerCheckPause(j)
  BY <1>2 DEF WorkerCheckPause
<1>3. CASE WorkerWait(j)
  BY <1>3 DEF WorkerWait
<1>4. CASE WorkerResume(j)
  BY <1>4 DEF WorkerResume
<1>5. CASE WorkerAdvance(j)
  BY <1>5 DEF WorkerAdvance
<1>6. CASE WorkerClose(j)
  BY <1>6 DEF WorkerClose
<1>7. CASE WorkerFinish(j)
  BY <1>7 DEF WorkerFinish
<1>8. CASE WorkerExit(j)
  BY <1>8 DEF WorkerExit
<1>9. CASE WorkerCrash(j)
  BY <1>9 DEF WorkerCrash, Kill
<1> QED
  BY <1>1, <1>2, <1>3, <1>4, <1>5, <1>6, <1>7, <1>8, <1>9 DEF WorkerStep

LEMMA WorkerTypes ==
  ASSUME Inv, NEW j \in Jobs, WorkerStep(j) \/ WorkerCrash(j)
  PROVE  Types'
<1>1. PICK p \in Points \ {"none"} : worker' = [worker EXCEPT ![j] = p]
  BY WorkerShape
<1>2. worker' \in [Jobs -> Points] /\ collector' = collector /\ op' = op /\ paused' = paused
  BY <1>1, WorkerShape DEF Inv, Types, OnlyWorker, published
<1>3. messages' \in [Jobs -> Seq(Events)]
  <2>1. CASE messages' = messages
    BY <2>1 DEF Inv, Types
  <2>2. CASE \E e \in Events : Put(j, e)
    BY <2>2, PutTypes DEF Inv, Types
  <2>3. CASE \E n \in 0..Len(messages[j]) : messages' = [messages EXCEPT ![j] = SubSeq(@, 1, n)]
    <3>1. PICK n \in 0..Len(messages[j]) : messages' = [messages EXCEPT ![j] = SubSeq(@, 1, n)]
      BY <2>3
    <3>2. messages[j] \in Seq(Events) /\ messages \in [Jobs -> Seq(Events)]
      BY DEF Inv, Types
    <3>3. SubSeq(messages[j], 1, n) \in Seq(Events)
      BY <3>2, Shorter
    <3> QED
      BY <3>1, <3>2, <3>3
  <2>4. \/ messages' = messages
        \/ \E e \in Events : Put(j, e)
        \/ \E n \in 0..Len(messages[j]) : messages' = [messages EXCEPT ![j] = SubSeq(@, 1, n)]
    <3>1. worker[j] = "closed" => result[j] \in Events
      BY DEF Inv, Types, Answers, Events
    <3>2. \A e \in {"committed", "paused", "running", "stage"} : e \in Events
      BY DEF Events
    <3> QED
      BY <3>1, <3>2 DEF WorkerStep, WorkerReport, WorkerCheckPause, WorkerWait, WorkerResume,
            WorkerAdvance, WorkerClose, WorkerFinish, WorkerExit, WorkerCrash, Kill
  <2> QED
    BY <2>1, <2>2, <2>3, <2>4
<1>4. /\ result' \in [Jobs -> Answers \cup {None}]
      /\ \A i \in Jobs : worker'[i] = "closed" => result'[i] \in Answers
  <2>1. CASE WorkerClose(j)
    BY <2>1, <1>1 DEF Inv, Types, WorkerClose, Goto, Answers
  <2>2. CASE result' = result /\ worker'[j] # "closed"
    BY <2>2, <1>1 DEF Inv, Types
  <2>3. WorkerClose(j) \/ (result' = result /\ worker'[j] # "closed")
    BY <1>1 DEF WorkerStep, WorkerReport, WorkerCheckPause, WorkerWait, WorkerResume,
          WorkerAdvance, WorkerFinish, WorkerExit, WorkerCrash, Kill, Goto, Inv, Types
  <2> QED
    BY <2>1, <2>2, <2>3
<1>5. op \in Operations /\ paused \in BOOLEAN /\ collector \in [Jobs -> CollectorStates]
  BY DEF Inv, Types
<1> QED
  BY <1>2, <1>3, <1>4, <1>5 DEF Types

LEMMA WorkerInv ==
  ASSUME Inv, NEW j \in Jobs, WorkerStep(j) \/ WorkerCrash(j)
  PROVE  Inv'
<1>1. Types'
  BY WorkerTypes
<1>2. PICK p \in Points \ {"none"} : worker' = [worker EXCEPT ![j] = p]
  BY WorkerShape
<1>3. /\ collector' = collector /\ op' = op /\ job_id' = job_id /\ status' = status
      /\ process' = process /\ Alive(j)
  BY WorkerShape DEF OnlyWorker, published
<1>4. \A i \in Jobs : Alive(i)' => Alive(i)
  BY <1>2, <1>3 DEF Alive, Inv, Types
<1>5. Stopped' /\ Wanted'
  BY <1>3, <1>4 DEF Inv, Stopped, Wanted, Quiet
<1>6. OneDrainedWorker'
  BY <1>3, <1>4 DEF Inv, OneDrainedWorker, OneWorker, WorkerIsDrained
<1> QED
  BY <1>1, <1>5, <1>6 DEF Inv

-----------------------------------------------------------------------------
(* The steps of a collector                                                *)

\* Whatever a collector publishes, the worker it serves and the operation stay.
LEMMA CollectorShape ==
  ASSUME Inv, NEW j \in Jobs, CollectorStep(j)
  PROVE  /\ OnlyCollector /\ job_id' = job_id /\ paused' \in BOOLEAN
         /\ status' \in {"cancelled", "idle"} => status' = status
<1> USE DEF Inv, Types, published
<1>1. CASE CollectorPublish(j)
  <2>1. collector[j] \in CollectorStates /\ collector[j].step = "publish"
    BY <1>1 DEF CollectorPublish
  <2>2. collector[j].event \in Events /\ collector[j].paused \in BOOLEAN
    BY <2>1 DEF CollectorStates
  <2>3. EventStatus(collector[j].event, collector[j].paused) \notin {"cancelled", "idle"}
    BY <2>2, PublishedStatus
  <2> QED
    BY <1>1, <2>3 DEF CollectorPublish, Publish
<1>2. CASE CollectorFail(j)
  BY <1>2 DEF CollectorFail, Publish
<1>3. CASE CollectorGet(j) \/ CollectorTimeout(j) \/ CollectorPoll(j) \/ CollectorCheck(j)
           \/ CollectorEnd(j)
  BY <1>3 DEF CollectorGet, CollectorTimeout, CollectorPoll, CollectorCheck, CollectorEnd
<1> QED
  BY <1>1, <1>2, <1>3 DEF CollectorStep

LEMMA CollectorTypes ==
  ASSUME Inv, NEW j \in Jobs, CollectorStep(j)
  PROVE  /\ collector' \in [Jobs -> CollectorStates] /\ messages' \in [Jobs -> Seq(Events)]
         /\ \A i \in Jobs \ {j} : collector'[i] = collector[i]
<1>0. /\ messages \in [Jobs -> Seq(Events)] /\ collector \in [Jobs -> CollectorStates]
      /\ paused \in BOOLEAN
  BY DEF Inv, Types
<1>1. CASE CollectorGet(j)
  <2>1. Head(messages[j]) \in Events /\ Tail(messages[j]) \in Seq(Events)
    BY <1>0, <1>1, Shorter DEF CollectorGet
  <2>2. collector[j].terminal \in BOOLEAN
    BY <1>0, <1>1 DEF CollectorGet, CollectorStates
  <2>3. [step |-> "check", terminal |-> collector[j].terminal, event |-> Head(messages[j])]
          \in CollectorStates
    BY <2>1, <2>2 DEF CollectorStates
  <2> QED
    BY <1>0, <1>1, <2>1, <2>3 DEF CollectorGet, Collect
<1>2. CASE CollectorTimeout(j)
  <2>1. [step |-> "empty", terminal |-> collector[j].terminal] \in CollectorStates
    BY <1>0, <1>2 DEF CollectorTimeout, CollectorStates
  <2> QED
    BY <1>0, <1>2, <2>1 DEF CollectorTimeout, Collect
<1>3. CASE CollectorPoll(j)
  <2>1. \A s \in {"get", "end"} : [step |-> s, terminal |-> collector[j].terminal] \in CollectorStates
    BY <1>0, <1>3 DEF CollectorPoll, CollectorStates
  <2> QED
    BY <1>0, <1>3, <2>1 DEF CollectorPoll, Collect
<1>4. CASE CollectorCheck(j)
  <2>1. collector[j].event \in Events /\ collector[j].terminal \in BOOLEAN
    BY <1>0, <1>4 DEF CollectorCheck, CollectorStates
  <2>2. [step |-> "end", terminal |-> collector[j].terminal] \in CollectorStates
    BY <2>1 DEF CollectorStates
  <2>3. [step |-> "publish", event |-> collector[j].event, paused |-> paused,
         terminal |-> \/ collector[j].terminal
                      \/ collector[j].event \in {"finished", "refused", "error"}]
          \in CollectorStates
    BY <1>0, <2>1 DEF CollectorStates
  <2> QED
    BY <1>0, <1>4, <2>2, <2>3 DEF CollectorCheck, Collect
<1>5. CASE CollectorPublish(j)
  <2>1. [step |-> "get", terminal |-> collector[j].terminal] \in CollectorStates
    BY <1>0, <1>5 DEF CollectorPublish, CollectorStates
  <2> QED
    BY <1>0, <1>5, <2>1 DEF CollectorPublish, Collect
<1>6. CASE CollectorEnd(j) \/ CollectorFail(j)
  <2>1. [step |-> "fail"] \in CollectorStates /\ [step |-> "done"] \in CollectorStates
    BY DEF CollectorStates
  <2>2. <<>> \in Seq(Events)
    OBVIOUS
  <2> QED
    BY <1>0, <1>6, <2>1, <2>2 DEF CollectorEnd, CollectorFail, Collect, Leave
<1> QED
  BY <1>1, <1>2, <1>3, <1>4, <1>5, <1>6 DEF CollectorStep

\* A collector whose worker is alive goes on reading: it would only stop for a
\* dead process, or for a job that is no longer wanted.
LEMMA CollectorReads ==
  ASSUME Inv, NEW j \in Jobs, CollectorStep(j), Alive(j)
  PROVE  collector'[j].step \in {"get", "empty", "check", "publish"}
<1>1. /\ collector[j].step \in {"get", "empty", "check", "publish"} /\ job_id = j
      /\ status \notin {"cancelled", "idle"} /\ collector \in [Jobs -> CollectorStates]
  BY DEF Inv, OneDrainedWorker, OneWorker, WorkerIsDrained, Wanted, Quiet, Types
<1>2. CASE CollectorGet(j) \/ CollectorTimeout(j)
  BY <1>1, <1>2 DEF CollectorGet, CollectorTimeout, Collect
<1>3. CASE CollectorPoll(j)
  BY <1>1, <1>3 DEF CollectorPoll, Collect
<1>4. CASE CollectorCheck(j)
  BY <1>1, <1>4 DEF CollectorCheck, Collect
<1>5. CASE CollectorPublish(j)
  BY <1>1, <1>5 DEF CollectorPublish, Collect
<1> QED
  BY <1>1, <1>2, <1>3, <1>4, <1>5 DEF CollectorStep, CollectorEnd, CollectorFail

LEMMA CollectorInv ==
  ASSUME Inv, NEW j \in Jobs, CollectorStep(j)
  PROVE  Inv'
<1>1. Types'
  BY CollectorShape, CollectorTypes DEF Inv, Types, OnlyCollector
<1>2. /\ worker' = worker /\ op' = op /\ process' = process /\ job_id' = job_id
      /\ status' \in {"cancelled", "idle"} => status' = status
  BY CollectorShape DEF OnlyCollector
<1>3. \A i \in Jobs : Alive(i)' <=> Alive(i)
  BY <1>2 DEF Alive
<1>4. Stopped' /\ Wanted'
  BY <1>2, <1>3 DEF Inv, Stopped, Wanted, Quiet
<1>5. OneWorker'
  BY <1>2, <1>3 DEF Inv, OneDrainedWorker, OneWorker
<1>6. WorkerIsDrained'
  BY <1>3, CollectorReads, CollectorTypes DEF Inv, OneDrainedWorker, WorkerIsDrained
<1> QED
  BY <1>1, <1>4, <1>5, <1>6 DEF Inv, OneDrainedWorker

-----------------------------------------------------------------------------
(* The operations                                                          *)

LEMMA RequestInv ==
  ASSUME Inv, Start \/ Reset \/ Close
  PROVE  Inv'
<1>1. PICK kind \in {"start", "reset", "free"} : Request(kind)
  BY DEF Start, Reset, Close
<1>2. UNCHANGED <<published, process, workers, collector, pauses>> /\ op.step = "free"
  BY <1>1 DEF Request, Free
<1>3. \A i \in Jobs : Alive(i)' <=> Alive(i)
  BY <1>2 DEF Alive, workers
<1>4. process = None => Quiet
  BY NoneAssumption DEF Inv, OneDrainedWorker, OneWorker, Quiet
<1>5. CASE process = None
  <2>1. op' = [step |-> kind]
    BY <1>1, <1>5 DEF Request
  <2>2. op' \in Operations
    BY <2>1 DEF Operations
  <2>3. Types'
    BY <1>2, <2>2 DEF Inv, Types, workers, published
  <2>4. Stopped' /\ Wanted'
    BY <1>2, <1>3, <1>4, <1>5, <2>1 DEF Inv, Stopped, Wanted, Quiet, published
  <2> QED
    BY <1>2, <1>3, <2>3, <2>4
    DEF Inv, OneDrainedWorker, OneWorker, WorkerIsDrained, published, workers
<1>6. CASE process # None
  <2>1. op' = [step |-> "close", kind |-> kind, alive |-> Alive(process),
               terminal |-> status \in Terminal]
    BY <1>1, <1>6 DEF Request
  <2>2. Alive(process) \in BOOLEAN /\ (status \in Terminal) \in BOOLEAN
    BY DEF Alive
  <2>3. op' \in Operations
    BY <2>1, <2>2 DEF Operations
  <2>4. Types'
    BY <1>2, <2>3 DEF Inv, Types, workers, published
  <2>5. ~Alive(process) => Quiet
    BY DEF Inv, OneDrainedWorker, OneWorker, Quiet
  <2>6. Stopped' /\ Wanted'
    BY <1>2, <1>3, <2>1, <2>5 DEF Inv, Stopped, Wanted, Quiet, published
  <2> QED
    BY <1>2, <1>3, <2>4, <2>6
    DEF Inv, OneDrainedWorker, OneWorker, WorkerIsDrained, published, workers
<1> QED
  BY <1>5, <1>6


LEMMA CloseTreeInv ==
  ASSUME Inv, CloseTree
  PROVE  Inv'
<1>1. /\ UNCHANGED <<published, process, updates, run_event, result, collector, pauses>>
      /\ op.step = "close" /\ op' = [op EXCEPT !.step = "cancel"]
      /\ op \in [step : {"close", "cancel"}, kind : {"free", "start", "reset"}, alive : BOOLEAN,
                 terminal : BOOLEAN]
  BY DEF CloseTree, Inv, Types, Operations
<1>2. op' \in Operations /\ op'.step = "cancel"
  BY <1>1 DEF Operations
<1>3. /\ worker' \in [Jobs -> Points] /\ messages' \in [Jobs -> Seq(Events)]
      /\ \A i \in Jobs : worker'[i] = worker[i] \/ worker'[i] = "dead"
      /\ Quiet'
  <2>0. worker \in [Jobs -> Points] /\ messages \in [Jobs -> Seq(Events)]
    BY DEF Inv, Types
  <2>1. CASE op.alive /\ Alive(process)
    <3>1. worker' = [worker EXCEPT ![process] = "dead"]
      BY <2>1 DEF CloseTree, Kill, Goto
    <3>2. PICK n \in 0..Len(messages[process]) :
            messages' = [messages EXCEPT ![process] = SubSeq(@, 1, n)]
      BY <2>1 DEF CloseTree, Kill
    <3>3. process \in Jobs => SubSeq(messages[process], 1, n) \in Seq(Events)
      BY <2>0, Shorter
    <3>4. messages' \in [Jobs -> Seq(Events)]
      BY <2>0, <3>2, <3>3
    <3>5. worker' \in [Jobs -> Points]
      BY <2>0, <3>1 DEF Points
    <3>6. \A i \in Jobs : worker'[i] = worker[i] \/ worker'[i] = "dead"
      BY <2>0, <3>1
    <3>7. \A i \in Jobs : Alive(i) => i = process
      BY DEF Inv, OneDrainedWorker, OneWorker
    <3>8. Quiet'
      BY <2>0, <3>1, <3>7 DEF Quiet, Alive
    <3> QED
      BY <3>4, <3>5, <3>6, <3>8
  <2>2. CASE ~(op.alive /\ Alive(process))
    <3>1. worker' = worker /\ messages' = messages
      BY <2>2 DEF CloseTree
    <3>2. Quiet
      <4>1. CASE ~op.alive
        BY <4>1, <1>1 DEF Inv, Stopped
      <4>2. CASE ~Alive(process)
        BY <4>2 DEF Inv, OneDrainedWorker, OneWorker, Quiet
      <4> QED
        BY <2>2, <4>1, <4>2
    <3>3. Quiet'
      BY <3>1, <3>2 DEF Quiet, Alive
    <3> QED
      BY <2>0, <3>1, <3>3
  <2> QED
    BY <2>1, <2>2
<1>4. Types'
  <2>1. \A j \in Jobs : worker'[j] = "closed" => result'[j] \in Answers
    BY <1>1, <1>3 DEF Inv, Types
  <2> QED
    BY <1>1, <1>2, <1>3, <2>1 DEF Inv, Types, published
<1>5. Stopped' /\ Wanted' /\ OneDrainedWorker'
  BY <1>2, <1>3 DEF Stopped, Wanted, OneDrainedWorker, OneWorker, WorkerIsDrained, Quiet
<1> QED
  BY <1>4, <1>5 DEF Inv

\* The operations that move no worker and no collector.
LEMMA PublishInv ==
  ASSUME Inv, Cancel \/ ResetState \/ StartRefused \/ PublishStart \/ SpawnFails \/ PausePublish
  PROVE  Inv'
<1>1. /\ UNCHANGED <<workers, collector>>
      /\ \A i \in Jobs : Alive(i)' <=> Alive(i)
  BY DEF Cancel, ResetState, StartRefused, PublishStart, SpawnFails, PausePublish, workers, Alive
<1>2. op \in Operations /\ paused \in BOOLEAN
  BY DEF Inv, Types
<1>3. op' \in Operations /\ paused' \in BOOLEAN
  <2>1. CASE Cancel
    <3>1. op.kind \in {"free", "start", "reset"}
      BY <1>2, <2>1 DEF Cancel, Operations
    <3>2. op' \in Operations
      BY <2>1, <3>1 DEF Cancel, Operations
    <3> QED
      BY <1>2, <2>1, <3>2 DEF Cancel, Publish, published
  <2>2. CASE PausePublish
    <3>1. op.wanted \in BOOLEAN
      BY <1>2, <2>2 DEF PausePublish, Operations
    <3> QED
      BY <2>2, <3>1 DEF PausePublish, Publish, Operations, Free
  <2>3. CASE ResetState \/ StartRefused \/ PublishStart \/ SpawnFails
    <3>1. op' = [step |-> "free"] \/ op' = [step |-> "spawn"]
      BY <2>3 DEF ResetState, StartRefused, PublishStart, SpawnFails, Free
    <3>2. op' \in Operations
      BY <3>1 DEF Operations
    <3> QED
      BY <1>2, <2>3, <3>2 DEF ResetState, StartRefused, PublishStart, SpawnFails, Publish
  <2> QED
    BY <2>1, <2>2, <2>3
<1>4. Types'
  BY <1>1, <1>3 DEF Inv, Types, workers
<1>5. /\ op.step \in {"cancel", "reset", "start", "spawn"} => Quiet
      /\ Quiet => Quiet'
  BY <1>1 DEF Inv, Stopped, Quiet
<1>6. CASE ~PausePublish
  <2>1. Quiet'
    BY <1>5, <1>6 DEF Cancel, ResetState, StartRefused, PublishStart, SpawnFails
  <2>2. Wanted'
    <3>1. CASE PublishStart
      BY <2>1, <3>1 DEF Wanted, PublishStart, Publish
    <3>2. CASE Cancel \/ ResetState \/ StartRefused \/ SpawnFails
      <4>1. op'.step # "spawn"
        <5>1. CASE Cancel
          <6>1. op.kind \in {"free", "start", "reset"}
            BY <1>2, <5>1 DEF Cancel, Operations
          <6>2. op' = [step |-> op.kind]
            BY <5>1 DEF Cancel
          <6>3. op'.step = op.kind
            BY <6>2
          <6> QED
            BY <6>1, <6>3
        <5>2. CASE ResetState \/ StartRefused \/ SpawnFails
          <6>1. op' = Free
            BY <5>2 DEF ResetState, StartRefused, SpawnFails
          <6> QED
            BY <6>1 DEF Free
        <5> QED
          BY <3>2, <5>1, <5>2
      <4> QED
        BY <2>1, <4>1 DEF Wanted
    <3> QED
      BY <1>6, <3>1, <3>2
  <2>3. Stopped' /\ OneDrainedWorker'
    BY <2>1 DEF Stopped, OneDrainedWorker, OneWorker, WorkerIsDrained, Quiet
  <2> QED
    BY <1>4, <2>2, <2>3 DEF Inv
<1>7. CASE PausePublish
  <2>1. process' = process /\ job_id' = job_id /\ op'.step = "free"
        /\ status' \notin {"cancelled", "idle"} /\ collector' = collector
    BY <1>7 DEF PausePublish, Publish, Free
  <2> QED
    BY <1>1, <1>4, <2>1 DEF Inv, Stopped, Wanted, OneDrainedWorker, OneWorker, WorkerIsDrained
<1> QED
  BY <1>6, <1>7

\* The new worker is the only one: there was none when its job was published.
LEMMA SpawnInv ==
  ASSUME Inv, Spawn
  PROVE  Inv'
<1>1. /\ op.step = "spawn" /\ op' = Free /\ process' = job_id /\ job_id' = job_id
      /\ status' = status /\ paused' = paused /\ result' = result /\ messages' = messages
      /\ worker' = [worker EXCEPT ![job_id] = "running"]
      /\ collector' = [collector EXCEPT ![job_id] = [step |-> "get", terminal |-> FALSE]]
  BY DEF Spawn, published, Goto, Collect
<1>2. Quiet /\ status \notin {"cancelled", "idle"} /\ Types
  BY <1>1 DEF Inv, Stopped, Wanted
<1>3. [step |-> "get", terminal |-> FALSE] \in CollectorStates /\ Free \in Operations
  BY DEF CollectorStates, Operations, Free
<1>4. collector' \in [Jobs -> CollectorStates] /\ worker' \in [Jobs -> Points]
  BY <1>1, <1>2, <1>3 DEF Types, Points
<1>5. \A j \in Jobs : worker'[j] = "closed" => result'[j] \in Answers
  BY <1>1, <1>2 DEF Types
<1>6. Types'
  BY <1>1, <1>2, <1>3, <1>4, <1>5 DEF Types
<1>7. \A j \in Jobs : Alive(j)' => j = job_id
  BY <1>1, <1>2 DEF Alive, Quiet, Types
<1>8. OneDrainedWorker'
  <2>1. \A j \in Jobs : j = job_id => collector'[j].step = "get"
    BY <1>1, <1>2 DEF Types
  <2> QED
    BY <1>1, <1>7, <2>1 DEF OneDrainedWorker, OneWorker, WorkerIsDrained
<1>9. Stopped' /\ Wanted'
  BY <1>1, <1>2 DEF Stopped, Wanted, Free
<1> QED
  BY <1>6, <1>8, <1>9 DEF Inv

LEMMA PauseRequestInv ==
  ASSUME Inv, PauseRequest
  PROVE  Inv'
<1>1. PICK wanted \in BOOLEAN :
        /\ op' = [step |-> "pause", wanted |-> wanted]
        /\ worker' = [worker EXCEPT ![process] =
                        IF @ = "waiting" /\ ~wanted THEN "resumed" ELSE @]
  BY DEF PauseRequest
<1>2. UNCHANGED <<published, process, updates, result, messages, collector>>
  BY DEF PauseRequest
<1>3. op' \in Operations /\ op'.step = "pause"
  BY <1>1 DEF Operations
<1>4. /\ worker' \in [Jobs -> Points]
      /\ \A i \in Jobs : Alive(i)' <=> Alive(i)
      /\ \A i \in Jobs : worker'[i] = "closed" <=> worker[i] = "closed"
  BY <1>1 DEF Inv, Types, Points, Alive
<1>5. Types'
  BY <1>2, <1>3, <1>4 DEF Inv, Types, published
<1>6. Stopped' /\ Wanted' /\ OneDrainedWorker'
  BY <1>2, <1>3, <1>4 DEF Inv, Stopped, Wanted, OneDrainedWorker, OneWorker, WorkerIsDrained,
        Quiet, published
<1> QED
  BY <1>5, <1>6 DEF Inv

-----------------------------------------------------------------------------
LEMMA InitInv == Init => Inv
<1> SUFFICES ASSUME Init PROVE Inv
  OBVIOUS
<1>1. \A j \in Jobs : ~Alive(j)
  BY DEF Init, Alive
<1>2. Types
  <2>1. [step |-> "none"] \in CollectorStates /\ Free \in Operations /\ <<>> \in Seq(Events)
    BY DEF CollectorStates, Operations, Free
  <2>2. worker \in [Jobs -> Points] /\ result \in [Jobs -> Answers \cup {None}]
    BY DEF Init, Points
  <2> QED
    BY <2>1, <2>2 DEF Init, Types
<1> QED
  BY <1>1, <1>2 DEF Init, Inv, Stopped, Wanted, Quiet, OneDrainedWorker, OneWorker,
        WorkerIsDrained, Free

LEMMA NextInv == Inv /\ [Next]_vars => Inv'
<1> SUFFICES ASSUME Inv, [Next]_vars PROVE Inv'
  OBVIOUS
<1>1. CASE \E j \in Jobs : WorkerStep(j) \/ WorkerCrash(j) \/ CollectorStep(j)
  BY <1>1, WorkerInv, CollectorInv
<1>2. CASE Start \/ Reset \/ Close \/ PauseRequest
  BY <1>2, RequestInv, PauseRequestInv
<1>3. CASE OpStep
  BY <1>3, CloseTreeInv, PublishInv, SpawnInv DEF OpStep
<1>4. CASE UNCHANGED vars
  BY <1>4 DEF vars, published, workers, Inv, Types, Stopped, Wanted, Quiet, Alive,
        OneDrainedWorker, OneWorker, WorkerIsDrained
<1> QED
  BY <1>1, <1>2, <1>3, <1>4 DEF Next

\* The service keeps its types.
THEOREM TypeCorrect == Spec => []Types
<1>1. Inv => Types
  BY DEF Inv
<1> QED
  BY <1>1, InitInv, NextInv, PTL DEF Spec

\* "One replaceable worker" (session.py:20): whatever is started, reset, closed,
\* paused or killed, a live worker is the one the service holds and has
\* published, and its bounded queue has a reader.
THEOREM OneWorkerAlways == Spec => []OneDrainedWorker
<1>1. Inv => OneDrainedWorker
  BY DEF Inv
<1> QED
  BY <1>1, InitInv, NextInv, PTL DEF Spec

\* A job that is alive is never published as cancelled, and nobody reports for
\* a job that was reset away (LiveSimulationService._stop).
THEOREM LiveJobIsWanted == Spec => [](status \in {"cancelled", "idle"} => Quiet)
<1>1. Inv => (status \in {"cancelled", "idle"} => Quiet)
  BY DEF Inv, Wanted
<1> QED
  BY <1>1, InitInv, NextInv, PTL DEF Spec

-----------------------------------------------------------------------------
(* Task allocation, for every number of agents                             *)

LEMMA Least ==
  ASSUME NEW failing, failing \subseteq Nat, failing # {}
  PROVE  \E m \in failing : \A k \in failing : m <= k
  <1>1. \E m \in failing : \A k \in failing : ~(<<k, m>> \in OpToRel(<, Nat))
    <2>1. failing # {} /\ failing \subseteq Nat
      OBVIOUS
    <2>. QED
      BY ONLY <2>1, WFMin, NatLessThanWellFounded
  <1>2. PICK m \in failing : \A k \in failing : ~(k < m)
    BY <1>1 DEF OpToRel
  <1>. QED
    BY <1>2

\* Induction up to n, over the set of the places where the claim holds.
LEMMA UpTo ==
  ASSUME NEW n \in Nat, NEW holds, 0 \in holds, \A i \in 1..n : i - 1 \in holds => i \in holds
  PROVE  \A i \in 0..n : i \in holds
  <1>. DEFINE failing == {i \in 0..n : i \notin holds}
  <1>. SUFFICES ASSUME failing # {} PROVE FALSE
    OBVIOUS
  <1>1. failing \subseteq Nat
    OBVIOUS
  <1>2. PICK i \in failing : \A k \in failing : i <= k
    <2>. HIDE DEF failing
    <2>. QED
      BY <1>1, Least
  <1>3. i \in 1..n /\ i - 1 \in 0..n /\ i - 1 < i
    BY <1>2
  <1>4. i - 1 \in holds
    BY <1>2, <1>3
  <1>. QED
    BY <1>2, <1>3, <1>4

\* A value that is carried from place to place stays in its set.
Steps(step, n, S) == \A i \in 1..n, x \in S : step[i][x] \in S
Follows(f, n, S, first, step) ==
  f \in [0..n -> S] /\ f[0] = first /\ \A i \in 1..n : f[i] = step[i][f[i - 1]]

LEMMA CarriedFunction ==
  ASSUME NEW n \in Nat, NEW S, NEW first \in S, NEW step, Steps(step, n, S)
  PROVE  \E f : Follows(f, n, S, first, step)
  <1>. DEFINE holds == {m \in 0..n : \E f : Follows(f, m, S, first, step)}
  <1>1. 0 \in holds
    <2>. DEFINE f == [i \in 0..0 |-> first]
    <2>1. f \in [0..0 -> S] /\ f[0] = first
      OBVIOUS
    <2>. HIDE DEF f
    <2>. QED
      BY <2>1 DEF Follows
  <1>2. ASSUME NEW m \in 1..n, m - 1 \in holds PROVE m \in holds
    <2>1. PICK f : Follows(f, m - 1, S, first, step)
      BY <1>2
    <2>. DEFINE g == [i \in 0..m |-> IF i = m THEN step[m][f[m - 1]] ELSE f[i]]
    <2>2. m - 1 \in 0..m - 1 /\ 0 \in 0..m - 1 /\ \A i \in 0..m : i # m => i \in 0..m - 1
      OBVIOUS
    <2>3. f[m - 1] \in S /\ step[m][f[m - 1]] \in S
      BY <2>1, <2>2 DEF Follows, Steps
    <2>4. g \in [0..m -> S]
      BY <2>1, <2>2, <2>3 DEF Follows
    <2>5. g[0] = first
      BY <2>1, <2>2 DEF Follows
    <2>6. ASSUME NEW i \in 1..m PROVE g[i] = step[i][g[i - 1]]
      <3>1. i - 1 \in 0..m /\ i - 1 # m /\ i \in 0..m
        OBVIOUS
      <3>2. g[i - 1] = f[i - 1]
        BY <3>1
      <3>3. CASE i = m
        BY <3>1, <3>2, <3>3
      <3>4. CASE i # m
        <4>1. i \in 1..m - 1
          BY <3>4
        <4>2. f[i] = step[i][f[i - 1]]
          BY <2>1, <4>1 DEF Follows
        <4>. QED
          BY <3>1, <3>2, <3>4, <4>2
      <3>. QED
        BY <3>3, <3>4
    <2>. HIDE DEF g
    <2>7. Follows(g, m, S, first, step)
      BY <2>4, <2>5, <2>6 DEF Follows
    <2>. QED
      BY <2>7
  <1>3. n \in 0..n
    OBVIOUS
  <1>4. n \in holds
    <2>. HIDE DEF holds
    <2>. QED
      BY <1>1, <1>2, <1>3, UpTo
  <1>. QED
    BY <1>4

\* A finite set of integers that is not empty has a largest one.
LEMMA LargestExists ==
  ASSUME NEW values, values \subseteq Int, IsFiniteSet(values), values # {}
  PROVE  \E m \in values : \A x \in values : x <= m
  <1>. DEFINE Fails(n) == \E S : /\ S \subseteq Int /\ IsFiniteSet(S) /\ S # {} /\ Cardinality(S) = n
                                 /\ ~\E m \in S : \A x \in S : x <= m
              failing == {n \in Nat : Fails(n)}
  <1>. SUFFICES ASSUME ~\E m \in values : \A x \in values : x <= m PROVE FALSE
    OBVIOUS
  <1>1. Cardinality(values) \in Nat
    BY FS_CardinalityType
  <1>2. failing \subseteq Nat /\ failing # {}
    BY <1>1
  <1>3. PICK n \in failing : \A k \in failing : n <= k
    <2>. HIDE DEF failing
    <2>. QED
      BY <1>2, Least
  <1>4. PICK S : /\ S \subseteq Int /\ IsFiniteSet(S) /\ S # {} /\ Cardinality(S) = n
                 /\ ~\E m \in S : \A x \in S : x <= m
    BY <1>3
  <1>5. PICK x \in S : TRUE
    BY <1>4
  <1>6. /\ IsFiniteSet(S \ {x}) /\ Cardinality(S \ {x}) = n - 1
        /\ Cardinality(S \ {x}) \in Nat
    BY <1>4, <1>5, FS_RemoveElement, FS_CardinalityType
  <1>7. n - 1 \notin failing
    BY <1>3, <1>6
  <1>8. S \ {x} # {}
    BY <1>4, <1>5
  <1>9. PICK y \in S \ {x} : \A z \in S \ {x} : z <= y
    BY <1>4, <1>6, <1>7, <1>8
  <1>10. CASE x <= y
    BY <1>4, <1>9, <1>10
  <1>11. CASE ~(x <= y)
    <2>1. \A z \in S : z <= x
      BY <1>4, <1>5, <1>9, <1>11
    <2>. QED
      BY <1>4, <1>5, <2>1
  <1>. QED
    BY <1>10, <1>11

\* Max of such a set is its largest.
LEMMA MaxIs ==
  ASSUME NEW values, values \subseteq Int, IsFiniteSet(values), values # {}
  PROVE  A!Max(values) \in values /\ \A x \in values : x <= A!Max(values)
  <1>1. PICK m \in values : \A x \in values : m >= x
    BY LargestExists
  <1>2. A!Max(values) \in values /\ \A x \in values : A!Max(values) >= x
    BY <1>1 DEF A!Max
  <1>. QED
    BY <1>2

-----------------------------------------------------------------------------
(* Task allocation                                                         *)

Bijective(goals) == goals \in [A!Agents -> A!Agents] /\ \A a, b \in A!Agents : goals[a] = goals[b] => a = b

AllocationInv ==
  /\ policy \in Policies /\ start \in [A!Agents -> Int]
  /\ neighbors \in [A!Agents -> Seq(A!Agents)]
  /\ goal \in [A!Agents -> A!Agents] /\ assignment \in [A!Agents -> A!Agents]
  /\ prices \in [A!Agents -> [A!Agents -> Int]]
  /\ winners \in [A!Agents -> [A!Agents -> Int]]
  /\ policy \in {"greedy", "hungarian"} => Bijective(goal)

\* No task is missing where no two agents share one.
LEMMA EveryTask ==
  ASSUME A!AllocationAssumption, NEW goals, Bijective(goals)
  PROVE  {goals[agent] : agent \in A!Agents} = A!Agents
  <1>1. IsFiniteSet(A!Agents)
    BY FS_Interval DEF A!AllocationAssumption, A!Agents
  <1>2. goals \in Injection(A!Agents, A!Agents)
    BY DEF Bijective, Injection, IsInjective
  <1>3. goals \in Surjection(A!Agents, A!Agents)
    BY <1>1, <1>2, FS_Injection
  <1>. QED
    BY <1>3 DEF Surjection, Bijective

LEMMA SwapKeeps ==
  ASSUME NEW goals, Bijective(goals), NEW agent \in A!Agents, NEW other \in A!Agents
  PROVE  Bijective(A!Swapped(goals, agent, other))
  <1>. DEFINE swapped == A!Swapped(goals, agent, other)
  <1>1. swapped \in [A!Agents -> A!Agents]
    BY DEF A!Swapped, Bijective
  <1>2. \A a \in A!Agents : swapped[a] = IF a = other THEN goals[agent]
                                        ELSE IF a = agent THEN goals[other] ELSE goals[a]
    BY DEF A!Swapped, Bijective
  <1>. HIDE DEF swapped
  <1>3. ASSUME NEW a \in A!Agents, NEW b \in A!Agents, swapped[a] = swapped[b] PROVE a = b
    BY <1>2, <1>3 DEF Bijective
  <1>. QED
    BY <1>1, <1>3 DEF Bijective, swapped

\* Whoever swaps with whichever neighbours, no goal is lost.
LEMMA GreedyKeeps ==
  ASSUME AllocationInv, Bijective(goal), NEW agent \in A!Agents
  PROVE  Bijective(A!GreedyGoals(agent))
  <1>. DEFINE list == neighbors[agent]
              n == Len(list)
              Goals == {g \in [A!Agents -> A!Agents] : Bijective(g)}
              Taken(i, goals) == /\ A!Intersects(agent, list[i], goal)
                                 /\ \E other \in A!ToSet(list) : A!Intersects(agent, other, goals)
              After(i, goals) == IF Taken(i, goals) THEN A!Swapped(goals, agent, list[i]) ELSE goals
              step == [i \in 1..n |-> [goals \in Goals |-> After(i, goals)]]
              Is(f) == f = [i \in 0..n |-> IF i = 0 THEN goal ELSE After(i, f[i - 1])]
              after == CHOOSE f : Is(f)
  <1>1. n \in Nat /\ \A i \in 1..n : list[i] \in A!Agents
    BY DEF AllocationInv
  <1>2. \A i \in 1..n, g \in Goals : After(i, g) \in Goals
    <2>. TAKE i \in 1..n, g \in Goals
    <2>1. Bijective(A!Swapped(g, agent, list[i]))
      BY <1>1, SwapKeeps
    <2>. HIDE DEF n, list
    <2>. QED
      BY <2>1 DEF Bijective
  <1>3. goal \in Goals
    BY DEF AllocationInv
  <1>4. Steps(step, n, Goals)
    <2>. HIDE DEF After, n, Goals
    <2>. QED
      BY <1>2 DEF Steps
  <1>5. PICK f : Follows(f, n, Goals, goal, step)
    <2>1. n \in Nat
      BY <1>1
    <2>. HIDE DEF step, n, Goals
    <2>. QED
      BY <2>1, <1>3, <1>4, CarriedFunction
  <1>6. Is(f)
    <2>1. \A i \in 1..n : f[i] = After(i, f[i - 1])
      <3>. TAKE i \in 1..n
      <3>1. i - 1 \in 0..n
        BY <1>1
      <3>. HIDE DEF After, n, Goals
      <3>2. f[i - 1] \in Goals
        BY <1>5, <3>1 DEF Follows
      <3>. QED
        BY <1>5, <3>2 DEF Follows
    <2>2. \A i \in 0..n : i # 0 => i \in 1..n
      BY <1>1
    <2>. HIDE DEF After, n, Goals
    <2>. QED
      BY <1>5, <2>1, <2>2 DEF Follows
  <1>7. Is(after)
    <2>. HIDE DEF Is
    <2>. QED
      BY <1>6
  <1>8. \A i \in 0..n : after[i] \in Goals
    <2>. DEFINE holds == {i \in 0..n : after[i] \in Goals}
    <2>. HIDE DEF after
    <2>1. after[0] = goal /\ \A i \in 1..n : after[i] = After(i, after[i - 1])
      <3>1. 0 \in 0..n /\ \A i \in 1..n : i \in 0..n /\ i # 0
        BY <1>1
      <3>. HIDE DEF After, n
      <3>. QED
        BY <1>7, <3>1
    <2>2. 0 \in holds
      BY <1>1, <1>3, <2>1
    <2>3. \A i \in 1..n : i - 1 \in holds => i \in holds
      <3>. TAKE i \in 1..n
      <3>1. i \in 0..n
        BY <1>1
      <3>. HIDE DEF After, n, Goals
      <3>. QED
        BY <1>2, <2>1, <3>1
    <2>4. \A i \in 0..n : i \in holds
      <3>. HIDE DEF holds, n
      <3>. QED
        BY <1>1, <2>2, <2>3, UpTo
    <2>. QED
      BY <2>4
  <1>9. A!GreedyGoals(agent) = after[n]
    BY DEF A!GreedyGoals
  <1>10. n \in 0..n
    BY <1>1
  <1>. QED
    BY <1>8, <1>9, <1>10

\* A local reassignment permutes the goals of its cluster.
LEMMA HungarianKeeps ==
  ASSUME Bijective(goal), NEW cluster, cluster \subseteq A!Agents, NEW column \in A!Assignments(cluster)
  PROVE  Bijective(A!Reassigned(cluster, column))
  <1>. DEFINE new == A!Reassigned(cluster, column)
  <1>1. /\ \A a \in cluster : column[a] \in cluster
        /\ \A a, b \in cluster : column[a] = column[b] => a = b
    <2>1. column \in [cluster -> cluster] /\ DOMAIN column = cluster
      BY DEF A!Assignments
    <2>. QED
      BY <2>1 DEF A!Assignments, A!IsInjective
  <1>2. \A a \in A!Agents : new[a] = IF a \in cluster THEN goal[column[a]] ELSE goal[a]
    BY DEF A!Reassigned
  <1>3. new \in [A!Agents -> A!Agents]
    BY <1>1 DEF A!Reassigned, Bijective
  <1>. HIDE DEF new
  <1>4. ASSUME NEW a \in A!Agents, NEW b \in A!Agents, new[a] = new[b] PROVE a = b
    <2>1. CASE a \in cluster /\ b \in cluster
      <3>1. column[a] = column[b]
        BY <1>1, <1>2, <1>4, <2>1 DEF Bijective
      <3>. QED
        BY <1>1, <2>1, <3>1
    <2>2. CASE a \in cluster /\ b \notin cluster
      BY <1>1, <1>2, <1>4, <2>2 DEF Bijective
    <2>3. CASE a \notin cluster /\ b \in cluster
      BY <1>1, <1>2, <1>4, <2>3 DEF Bijective
    <2>4. CASE a \notin cluster /\ b \notin cluster
      BY <1>2, <1>4, <2>4 DEF Bijective
    <2>. QED
      BY <2>1, <2>2, <2>3, <2>4
  <1>. QED
    BY <1>3, <1>4 DEF Bijective, new

\* The largest value of a function on a finite set.
NumbersOn(g, S) == \A s \in S : g[s] \in Int
ImageOf(values, g, S) == values = {g[s] : s \in S}
LargestOn(m, g, S) == m \in Int /\ (\E s \in S : m = g[s]) /\ \A s \in S : g[s] <= m

LEMMA LargestOf ==
  ASSUME NEW S, IsFiniteSet(S), S # {}, NEW g, NumbersOn(g, S), NEW values, ImageOf(values, g, S)
  PROVE  LargestOn(A!Max(values), g, S)
  <1>0. values = {g[s] : s \in S} /\ \A s \in S : g[s] \in Int
    BY DEF ImageOf, NumbersOn
  <1>. DEFINE f == [s \in S |-> g[s]]
  <1>1. f \in Surjection(S, values)
    <2>1. f \in [S -> values]
      BY <1>0
    <2>2. \A v \in values : \E s \in S : f[s] = v
      BY <1>0
    <2>. QED
      BY <2>1, <2>2 DEF Surjection
  <1>2. IsFiniteSet(values)
    <2>. HIDE DEF f
    <2>. QED
      BY <1>1, FS_Surjection
  <1>3. values \subseteq Int /\ values # {}
    BY <1>0
  <1>4. A!Max(values) \in values /\ \A x \in values : x <= A!Max(values)
    BY <1>2, <1>3, MaxIs
  <1>. QED
    BY <1>0, <1>3, <1>4 DEF LargestOn

\* What an agent hears is the best price around it, and the largest of the
\* winners known at that price.
LEMMA HeardIs ==
  ASSUME A!AllocationAssumption, AllocationInv, NEW agent \in A!Agents, NEW task \in A!Agents
  PROVE  LET heard == A!Heard(agent, task)
         IN  /\ heard.price \in Int /\ heard.winner \in Int
             /\ \A o \in A!Cluster(agent) : prices[o][task] <= heard.price
             /\ \A o \in A!Cluster(agent) : prices[o][task] = heard.price => winners[o][task] <= heard.winner
  <1>. DEFINE cluster == A!Cluster(agent)
              best == A!BestPrice(agent, task)
              asking == {o \in cluster : prices[o][task] = best}
              priceOf == [o \in A!Agents |-> prices[o][task]]
              winnerOf == [o \in A!Agents |-> winners[o][task]]
  <1>1. cluster \subseteq A!Agents /\ agent \in cluster
    <2>1. A!ToSet(neighbors[agent]) \subseteq A!Agents
      BY DEF AllocationInv, A!ToSet
    <2>. QED
      BY <2>1 DEF A!Cluster
  <1>2. IsFiniteSet(cluster) /\ IsFiniteSet(asking)
    <2>1. IsFiniteSet(A!Agents)
      BY FS_Interval DEF A!AllocationAssumption, A!Agents
    <2>2. cluster \in SUBSET A!Agents /\ asking \in SUBSET A!Agents
      BY <1>1
    <2>. HIDE DEF cluster, asking
    <2>. QED
      BY <2>1, <2>2, FS_Subset
  <1>3. \A o \in A!Agents : /\ priceOf[o] = prices[o][task] /\ priceOf[o] \in Int
                            /\ winnerOf[o] = winners[o][task] /\ winnerOf[o] \in Int
    BY DEF AllocationInv
  <1>4. {prices[o][task] : o \in cluster} = {priceOf[o] : o \in cluster}
    BY <1>1, <1>3
  <1>5. /\ best \in Int /\ \E o \in cluster : best = prices[o][task]
        /\ \A o \in cluster : prices[o][task] <= best
    <2>. DEFINE asked == {prices[o][task] : o \in cluster}
    <2>1. best = A!Max(asked)
      BY DEF A!BestPrice
    <2>2. ImageOf(asked, priceOf, cluster)
      BY <1>4 DEF ImageOf
    <2>3. cluster # {} /\ IsFiniteSet(cluster) /\ NumbersOn(priceOf, cluster)
      BY <1>1, <1>2, <1>3 DEF NumbersOn
    <2>. HIDE DEF priceOf, best, cluster, asked
    <2>4. /\ best \in Int /\ \E o \in cluster : best = priceOf[o]
          /\ \A o \in cluster : priceOf[o] <= best
      BY <2>1, <2>2, <2>3, LargestOf DEF LargestOn
    <2>5. \A o \in cluster : priceOf[o] = prices[o][task]
      BY <1>1, <1>3
    <2>. QED
      BY ONLY <2>4, <2>5
  <1>6. asking # {} /\ asking \subseteq A!Agents
    BY <1>1, <1>5
  <1>7. A!WinnersAt(agent, task, best) = {winnerOf[o] : o \in asking}
    BY <1>3, <1>6 DEF A!WinnersAt
  <1>8. /\ A!Max(A!WinnersAt(agent, task, best)) \in Int
        /\ \A o \in asking : winnerOf[o] <= A!Max(A!WinnersAt(agent, task, best))
    <2>1. ImageOf(A!WinnersAt(agent, task, best), winnerOf, asking)
      BY <1>7 DEF ImageOf
    <2>2. NumbersOn(winnerOf, asking)
      BY <1>3, <1>6 DEF NumbersOn
    <2>. HIDE DEF winnerOf, asking, best
    <2>. QED
      BY <1>2, <1>6, <2>1, <2>2, LargestOf DEF LargestOn
  <1>9. /\ A!Heard(agent, task).price = best
        /\ A!Heard(agent, task).winner = A!Max(A!WinnersAt(agent, task, best))
    BY DEF A!Heard
  <1>10. \A o \in cluster : prices[o][task] = best => winners[o][task] <= A!Heard(agent, task).winner
    <2>. TAKE o \in cluster
    <2>. HAVE prices[o][task] = best
    <2>1. o \in asking /\ winnerOf[o] = winners[o][task]
      BY <1>1, <1>3
    <2>. HIDE DEF asking, best, winnerOf
    <2>. QED
      BY <1>8, <1>9, <2>1
  <1>. HIDE DEF best, asking
  <1>. QED
    BY <1>5, <1>8, <1>9, <1>10

\* A set that holds an agent and the neighbours of all its own holds whatever
\* that agent reaches.
LEMMA ReachedWithin ==
  ASSUME A!AllocationAssumption, AllocationInv, NEW first \in A!Agents, NEW U,
         first \in U, \A a \in U : a \in A!Agents => A!ToSet(neighbors[a]) \subseteq U
  PROVE  A!Reached(neighbors, first) \subseteq U
  <1>. DEFINE More(known) == known \cup UNION {A!ToSet(neighbors[agent]) : agent \in known}
              Groups == SUBSET (U \cap A!Agents)
              step == [i \in 1..LastAgent |-> [known \in Groups |-> More(known)]]
              Is(f) == f = [n \in 0..LastAgent |-> IF n = 0 THEN {first} ELSE More(f[n - 1])]
              more == CHOOSE f : Is(f)
  <1>1. LastAgent \in Nat
    BY DEF A!AllocationAssumption
  <1>2. \A a \in A!Agents : A!ToSet(neighbors[a]) \subseteq A!Agents
    BY DEF AllocationInv, A!ToSet
  <1>3. \A known \in Groups : More(known) \in Groups
    BY <1>2
  <1>4. {first} \in Groups
    OBVIOUS
  <1>5. Steps(step, LastAgent, Groups)
    <2>. HIDE DEF More, Groups
    <2>. QED
      BY <1>3 DEF Steps
  <1>6. PICK f : Follows(f, LastAgent, Groups, {first}, step)
    <2>. HIDE DEF step, Groups
    <2>. QED
      BY <1>1, <1>4, <1>5, CarriedFunction
  <1>7. Is(f)
    <2>1. \A i \in 1..LastAgent : f[i] = More(f[i - 1])
      <3>. TAKE i \in 1..LastAgent
      <3>1. i - 1 \in 0..LastAgent
        BY <1>1
      <3>. HIDE DEF More, Groups
      <3>2. f[i - 1] \in Groups
        BY <1>6, <3>1 DEF Follows
      <3>. QED
        BY <1>6, <3>2 DEF Follows
    <2>2. \A i \in 0..LastAgent : i # 0 => i \in 1..LastAgent
      BY <1>1
    <2>. HIDE DEF More, Groups
    <2>. QED
      BY <1>6, <2>1, <2>2 DEF Follows
  <1>8. Is(more)
    <2>. HIDE DEF Is
    <2>. QED
      BY <1>7
  <1>9. \A i \in 0..LastAgent : more[i] \in Groups
    <2>. DEFINE holds == {i \in 0..LastAgent : more[i] \in Groups}
    <2>. HIDE DEF more
    <2>1. more[0] = {first} /\ \A i \in 1..LastAgent : more[i] = More(more[i - 1])
      <3>1. 0 \in 0..LastAgent /\ \A i \in 1..LastAgent : i \in 0..LastAgent /\ i # 0
        BY <1>1
      <3>. HIDE DEF More
      <3>. QED
        BY <1>8, <3>1
    <2>2. 0 \in holds
      BY <1>1, <1>4, <2>1
    <2>3. \A i \in 1..LastAgent : i - 1 \in holds => i \in holds
      <3>. TAKE i \in 1..LastAgent
      <3>1. i \in 0..LastAgent
        BY <1>1
      <3>. HIDE DEF More, Groups
      <3>. QED
        BY <1>3, <2>1, <3>1
    <2>4. \A i \in 0..LastAgent : i \in holds
      <3>. HIDE DEF holds
      <3>. QED
        BY <1>1, <2>2, <2>3, UpTo
    <2>. QED
      BY <2>4
  <1>10. A!Reached(neighbors, first) = more[LastAgent]
    BY DEF A!Reached
  <1>11. LastAgent \in 0..LastAgent
    BY <1>1
  <1>. QED
    BY <1>9, <1>10, <1>11

\* At rest everybody knows one price and one winner of every task.
LEMMA RestHolds ==
  ASSUME A!AllocationAssumption, AllocationInv
  PROVE  A!RestIsAssignment
  <1>. SUFFICES ASSUME A!MutuallyConnected, A!Quiet
                PROVE  A!IsInjective(assignment)
    BY DEF A!RestIsAssignment
  <1>1. ASSUME NEW agent \in A!Agents, NEW task \in A!Agents
        PROVE  /\ prices[agent][task] = A!Heard(agent, task).price
               /\ winners[agent][task] = A!Heard(agent, task).winner
    <2>1. A!HeardPrices(agent) = prices[agent] /\ A!HeardWinners(agent) = winners[agent]
      BY DEF A!Quiet
    <2>2. /\ A!HeardPrices(agent)[task] = A!Heard(agent, task).price
          /\ A!HeardWinners(agent)[task] = A!Heard(agent, task).winner
      BY DEF A!HeardPrices, A!HeardWinners
    <2>. QED
      BY <2>1, <2>2
  <1>2. ASSUME NEW agent \in A!Agents, NEW task \in A!Agents, NEW o \in A!ToSet(neighbors[agent])
        PROVE  /\ o \in A!Agents
               /\ prices[o][task] <= prices[agent][task]
               /\ prices[o][task] = prices[agent][task] => winners[o][task] <= winners[agent][task]
    <2>1. o \in A!Agents
      BY DEF AllocationInv, A!ToSet
    <2>2. o \in A!Cluster(agent)
      BY DEF A!Cluster
    <2>. QED
      BY <1>1, <2>1, <2>2, HeardIs
  <1>3. \A o, a, t \in A!Agents : prices[o][t] \in Int /\ winners[o][t] \in Int
    BY DEF AllocationInv
  <1>4. ASSUME NEW agent \in A!Agents, NEW other \in A!Agents, NEW task \in A!Agents
        PROVE  prices[other][task] <= prices[agent][task]
    <2>. DEFINE U == {o \in A!Agents : prices[o][task] <= prices[agent][task]}
    <2>1. agent \in U
      BY <1>3
    <2>2. \A a \in U : a \in A!Agents => A!ToSet(neighbors[a]) \subseteq U
      BY <1>2, <1>3
    <2>3. A!Reached(neighbors, agent) \subseteq U
      <3>. HIDE DEF U
      <3>. QED
        BY <2>1, <2>2, ReachedWithin
    <2>. QED
      BY <2>3 DEF A!MutuallyConnected
  <1>5. ASSUME NEW agent \in A!Agents, NEW other \in A!Agents, NEW task \in A!Agents
        PROVE  prices[other][task] = prices[agent][task]
    BY <1>3, <1>4
  <1>6. ASSUME NEW agent \in A!Agents, NEW other \in A!Agents, NEW task \in A!Agents
        PROVE  winners[other][task] <= winners[agent][task]
    <2>. DEFINE U == {o \in A!Agents : winners[o][task] <= winners[agent][task]}
    <2>1. agent \in U
      BY <1>3
    <2>2. \A a \in U : a \in A!Agents => A!ToSet(neighbors[a]) \subseteq U
      BY <1>2, <1>3, <1>5
    <2>3. A!Reached(neighbors, agent) \subseteq U
      <3>. HIDE DEF U
      <3>. QED
        BY <2>1, <2>2, ReachedWithin
    <2>. QED
      BY <2>3 DEF A!MutuallyConnected
  <1>7. ASSUME NEW a \in A!Agents, NEW b \in A!Agents, assignment[a] = assignment[b]
        PROVE  a = b
    <2>1. assignment[a] \in A!Agents
      BY DEF AllocationInv
    <2>2. winners[a][assignment[a]] = winners[b][assignment[a]]
      BY <1>3, <1>6, <2>1
    <2>. QED
      BY <1>7, <2>2 DEF A!Quiet
  <1>. QED
    BY <1>7 DEF A!IsInjective, AllocationInv

\* The task an agent would bid for exists: the first of the best.
LEMMA PreferredIs ==
  ASSUME A!AllocationAssumption, AllocationInv, NEW agent \in A!Agents
  PROVE  A!Preferred(agent) \in A!Agents
  <1>. DEFINE net == [task \in A!Agents |-> A!Net(agent, task)]
              values == {net[task] : task \in A!Agents}
  <1>1. \A task \in A!Agents : net[task] \in Int
    <2>. TAKE task \in A!Agents
    <2>1. A!Heard(agent, task).price \in Int
      BY HeardIs
    <2>2. A!Travel(agent, task) \in Int
      <3>1. start[agent] \in Int /\ TaskAt[task] \in Int
        BY DEF AllocationInv, A!AllocationAssumption
      <3>. QED
        BY <3>1 DEF A!Travel, A!Distance
    <2>. QED
      BY <2>1, <2>2 DEF A!Net
  <1>2. IsFiniteSet(A!Agents) /\ A!Agents # {} /\ A!Agents \subseteq Nat
    <2>1. IsFiniteSet(A!Agents)
      BY FS_Interval DEF A!AllocationAssumption, A!Agents
    <2>2. 0 \in A!Agents /\ A!Agents \subseteq Nat
      BY DEF A!AllocationAssumption, A!Agents
    <2>. QED
      BY <2>1, <2>2
  <1>3. PICK best \in A!Agents : \A task \in A!Agents : net[task] <= net[best]
    <2>. DEFINE m == A!Max(values)
    <2>1. /\ \E task \in A!Agents : m = net[task]
          /\ \A task \in A!Agents : net[task] <= m
      <3>1. ImageOf(values, net, A!Agents)
        BY DEF ImageOf
      <3>2. NumbersOn(net, A!Agents)
        BY <1>1 DEF NumbersOn
      <3>. HIDE DEF net, values
      <3>. QED
        BY <1>2, <3>1, <3>2, LargestOf DEF LargestOn
    <2>. HIDE DEF m, net
    <2>. QED
      BY <2>1
  <1>. DEFINE ties == {task \in A!Agents : net[task] = net[best]}
  <1>4. PICK task \in ties : \A other \in ties : task <= other
    <2>1. ties \subseteq Nat /\ ties # {}
      BY <1>2
    <2>. HIDE DEF ties
    <2>. QED
      BY <2>1, Least
  <1>5. \A other \in A!Agents :
          \/ A!Net(agent, task) > A!Net(agent, other)
          \/ (A!Net(agent, task) = A!Net(agent, other) /\ task <= other)
    <2>. TAKE other \in A!Agents
    <2>1. /\ net[task] = net[best] /\ net[other] <= net[best]
          /\ net[task] = A!Net(agent, task) /\ net[other] = A!Net(agent, other)
          /\ net[task] \in Int /\ net[other] \in Int
      BY <1>1, <1>3, <1>4
    <2>2. net[other] = net[best] => task <= other
      BY <1>4
    <2>. HIDE DEF net
    <2>. QED
      BY <2>1, <2>2
  <1>6. task \in A!Agents
    BY <1>4
  <1>. QED
    BY <1>5, <1>6 DEF A!Preferred

LEMMA AllocationStart ==
  ASSUME A!AllocationAssumption, A!Init
  PROVE  AllocationInv
  <1>1. A!Agents \subseteq Int /\ A!None \in Int
    BY DEF A!Agents, A!None
  <1>2. \A list \in A!Lists : list \in Seq(A!Agents)
    <2>. SUFFICES ASSUME NEW n \in 0..LastAgent, NEW list \in [1..n -> A!Agents]
                  PROVE  list \in Seq(A!Agents)
      BY DEF A!Lists
    <2>1. n \in Nat
      BY DEF A!AllocationAssumption
    <2>. QED
      BY <2>1
  <1>3. neighbors \in [A!Agents -> Seq(A!Agents)]
    BY <1>2 DEF A!Init, A!Networks
  <1>4. Bijective(goal)
    BY DEF A!Init, Bijective
  <1>5. policy \in Policies /\ start \in [A!Agents -> Int] /\ goal \in [A!Agents -> A!Agents] /\ assignment \in [A!Agents -> A!Agents]
    BY DEF A!Init, A!AllocationAssumption
  <1>6. prices \in [A!Agents -> [A!Agents -> Int]] /\ winners \in [A!Agents -> [A!Agents -> Int]]
    BY <1>1 DEF A!Init
  <1>. QED
    BY <1>3, <1>4, <1>5, <1>6 DEF AllocationInv

LEMMA AllocationStep ==
  ASSUME A!AllocationAssumption, AllocationInv, A!Next
  PROVE  AllocationInv'
  <1>1. PICK agent \in A!Agents : A!GreedyStep(agent) \/ A!HungarianStep(agent) \/ A!AuctionStep(agent)
    BY DEF A!Next
  <1>2. UNCHANGED <<policy, neighbors, start>>
    BY DEF A!Next
  <1>3. CASE A!GreedyStep(agent)
    <2>1. Bijective(A!GreedyGoals(agent))
      BY <1>3, GreedyKeeps DEF A!GreedyStep, AllocationInv
    <2>. QED
      BY <1>2, <1>3, <2>1 DEF A!GreedyStep, AllocationInv, Bijective
  <1>4. CASE A!HungarianStep(agent)
    <2>1. PICK column \in A!Optimal(A!Cluster(agent)) : goal' = A!Reassigned(A!Cluster(agent), column)
      BY <1>4 DEF A!HungarianStep
    <2>2. A!Cluster(agent) \subseteq A!Agents
      BY DEF A!Cluster, AllocationInv, A!ToSet
    <2>3. column \in A!Assignments(A!Cluster(agent))
      BY <2>1 DEF A!Optimal
    <2>4. Bijective(goal)
      BY <1>4 DEF A!HungarianStep, AllocationInv
    <2>5. Bijective(goal')
      BY <2>1, <2>2, <2>3, <2>4, HungarianKeeps
    <2>. QED
      BY <1>2, <1>4, <2>5 DEF A!HungarianStep, AllocationInv, Bijective
  <1>5. CASE A!AuctionStep(agent)
    <2>1. \A task \in A!Agents : A!Heard(agent, task).price \in Int /\ A!Heard(agent, task).winner \in Int
      BY HeardIs
    <2>2. /\ A!HeardPrices(agent) \in [A!Agents -> Int] /\ A!HeardWinners(agent) \in [A!Agents -> Int]
      BY <2>1 DEF A!HeardPrices, A!HeardWinners
    <2>3. /\ prices' \in [A!Agents -> [A!Agents -> Int]] /\ winners' \in [A!Agents -> [A!Agents -> Int]]
          /\ assignment' \in [A!Agents -> A!Agents]
      <3>1. CASE A!Heard(agent, assignment[agent]).winner = agent
        <4>1. /\ prices' = [prices EXCEPT ![agent] = A!HeardPrices(agent)]
              /\ winners' = [winners EXCEPT ![agent] = A!HeardWinners(agent)]
              /\ UNCHANGED assignment
          BY <1>5, <3>1 DEF A!AuctionStep
        <4>. QED
          BY <2>2, <4>1 DEF AllocationInv
      <3>2. CASE \E noise \in Noise : A!Bid(agent, noise)
        <4>1. PICK noise \in Noise : A!Bid(agent, noise)
          BY <3>2
        <4>. DEFINE task == A!Preferred(agent)
                    price == A!Heard(agent, task).price + A!Net(agent, task) - A!SecondBest(agent) + noise
        <4>0. price \in Int /\ agent \in Int
          <5>1. price \in Prices
            BY <4>1 DEF A!Bid
          <5>. HIDE DEF price
          <5>. QED
            BY <5>1 DEF A!AllocationAssumption, A!Agents
        <4>2. /\ assignment' = [assignment EXCEPT ![agent] = task]
              /\ winners' = [winners EXCEPT ![agent] = [A!HeardWinners(agent) EXCEPT ![task] = agent]]
              /\ prices' = [prices EXCEPT ![agent] = [A!HeardPrices(agent) EXCEPT ![task] = price]]
          BY <4>1 DEF A!Bid
        <4>3. task \in A!Agents
          BY PreferredIs
        <4>. HIDE DEF task, price
        <4>. QED
          BY <2>2, <4>0, <4>2, <4>3 DEF AllocationInv
      <3>. QED
        BY <1>5, <3>1, <3>2 DEF A!AuctionStep
    <2>4. goal' \in [A!Agents -> A!Agents] /\ policy = "auction"
      BY <1>5, <2>3 DEF A!AuctionStep, AllocationInv
    <2>. QED
      BY <1>2, <2>3, <2>4 DEF AllocationInv
  <1>. QED
    BY <1>1, <1>3, <1>4, <1>5

\* Whatever policy, network and order of steps, swaps and local reassignments
\* keep exactly one agent for every task, and an auction at rest over a network in
\* which everybody hears from everybody is an assignment (allocation/policies).
THEOREM TasksAreKept == EstimationSpec => []EveryTaskKeepsItsAgent
<1>. DEFINE Kept == part = "allocation" => AllocationInv
<1>1. A!AllocationAssumption
  BY EstimationInstances
<1>2. EstimationInit => Kept
  BY <1>1, AllocationStart DEF EstimationInit
<1>3. ASSUME Kept, [EstimationNext]_estimationVars
      PROVE  Kept'
  <2>. SUFFICES ASSUME part' = "allocation" PROVE AllocationInv'
    OBVIOUS
  <2>1. CASE Allocate
    BY <1>1, <1>3, <2>1, AllocationStep DEF Allocate
  <2>2. CASE UNCHANGED estimationVars
    BY <1>3, <2>2 DEF estimationVars, allocation, AllocationInv, Bijective
  <2>3. CASE Navigate \/ Observe \/ Identify \/ Adapt \/ RunMission
    BY <2>3 DEF Navigate, Observe, Identify, Adapt, RunMission
  <2>. QED
    BY <1>3, <2>1, <2>2, <2>3 DEF EstimationNext
<1>4. Kept => EveryTaskKeepsItsAgent
  <2>. SUFFICES ASSUME AllocationInv PROVE A!EveryTaskKeepsItsAgent /\ A!RestIsAssignment
    BY DEF EveryTaskKeepsItsAgent
  <2>1. A!EveryTaskKeepsItsAgent
    BY <1>1, EveryTask DEF A!EveryTaskKeepsItsAgent, AllocationInv
  <2>. QED
    BY <1>1, <2>1, RestHolds
<1>. QED
  BY <1>2, <1>3, <1>4, PTL DEF EstimationSpec

-----------------------------------------------------------------------------
(* The rolling mission and its adaptation                                  *)

\* A set of integers between two bounds has a least and a largest one.
LEMMA EndsAre ==
  ASSUME NEW S, NEW a \in Int, NEW b \in Int, S \subseteq a..b, S # {}
  PROVE  /\ M!Min(S) \in S /\ \A x \in S : M!Min(S) <= x
         /\ M!Max(S) \in S /\ \A x \in S : x <= M!Max(S)
  <1>1. \E m \in S : \A x \in S : m <= x
    <2>. DEFINE above == {x - a : x \in S}
    <2>1. above \subseteq Nat /\ above # {}
      <3>1. \A x \in S : x \in a..b /\ x - a \in Nat
        OBVIOUS
      <3>. QED
        BY <3>1
    <2>2. PICK k \in above : \A x \in above : k <= x
      <3>. HIDE DEF above
      <3>. QED
        BY <2>1, Least
    <2>3. PICK m \in S : k = m - a
      BY <2>2
    <2>4. \A x \in S : m <= x
      <3>. TAKE x \in S
      <3>1. x - a \in above /\ x \in Int /\ m \in Int
        OBVIOUS
      <3>2. k <= x - a
        BY <2>2, <3>1
      <3>. QED
        BY <2>3, <3>1, <3>2
    <2>. QED
      BY <2>4
  <1>2. \E m \in S : \A x \in S : m >= x
    <2>. DEFINE below == {b - x : x \in S}
    <2>1. below \subseteq Nat /\ below # {}
      <3>1. \A x \in S : x \in a..b /\ b - x \in Nat
        OBVIOUS
      <3>. QED
        BY <3>1
    <2>2. PICK k \in below : \A x \in below : k <= x
      <3>. HIDE DEF below
      <3>. QED
        BY <2>1, Least
    <2>3. PICK m \in S : k = b - m
      BY <2>2
    <2>4. \A x \in S : m >= x
      <3>. TAKE x \in S
      <3>1. b - x \in below /\ x \in Int /\ m \in Int
        OBVIOUS
      <3>2. k <= b - x
        BY <2>2, <3>1
      <3>. QED
        BY <2>3, <3>1, <3>2
    <2>. QED
      BY <2>4
  <1>3. M!Min(S) \in S /\ \A x \in S : M!Min(S) <= x
    BY <1>1 DEF M!Min
  <1>4. M!Max(S) \in S /\ \A x \in S : M!Max(S) >= x
    BY <1>2 DEF M!Max
  <1>5. S \subseteq Int
    OBVIOUS
  <1>. QED
    BY <1>3, <1>4, <1>5

LEMMA OfTwo ==
  ASSUME NEW a \in Int, NEW b \in Int
  PROVE  /\ M!Min({a, b}) = IF a <= b THEN a ELSE b
         /\ M!Max({a, b}) = IF a <= b THEN b ELSE a
  <1>. DEFINE S == {a, b}
              low == IF a <= b THEN a ELSE b
              high == IF a <= b THEN b ELSE a
  <1>1. S \subseteq low..high /\ S # {} /\ low \in Int /\ high \in Int
    OBVIOUS
  <1>2. /\ M!Min(S) \in S /\ \A x \in S : M!Min(S) <= x
        /\ M!Max(S) \in S /\ \A x \in S : x <= M!Max(S)
    <2>. HIDE DEF S, low, high
    <2>. QED
      BY <1>1, EndsAre
  <1>3. a \in S /\ b \in S
    OBVIOUS
  <1>. QED
    BY <1>2, <1>3

Ranges == [FreeParameters -> Int \X Int]
Estimates == [FreeParameters -> Int]

LoopStates == {"planning", "solving", "flying", "adapting", "done", "failed", "raised"}
AdaptorStates == {"resting", "reading", "bounding", "estimating"}

Loops ==
  [state : LoopStates, n : Nat, goal : Nat, solves : Nat, plan : Int, flown : Nat, at : Int,
   adaptive : BOOLEAN, threaded : BOOLEAN, guess : GuessLength, init : Ranges,
   model : Estimates]
Problems == [start : Int, goal : Int]
Adaptors ==
  [state : AdaptorStates, data : Nat, ranges : Ranges,
   window : [states : Seq(Int), inputs : Seq(Int)],
   feasible : [FreeParameters -> SUBSET Grades], before : Ranges,
   running : SUBSET M!Operations, answers : Seq(M!Operations \X Int), lost : BOOLEAN,
   estimate : Estimates]

RollingTypes == rolling \in Loops /\ problem \in Problems /\ adaptor \in Adaptors

\* A state of the data stands beside the input that led to it.
Aligned(data) ==
  \A i \in DOMAIN data.states : i > 1 \/ data.states[i] > 0 => data.inputs[i] = data.states[i]

PlansFit ==
  /\ rolling.goal = rolling.n
  /\ rolling.state = "solving" => problem = [start |-> rolling.n, goal |-> rolling.n]
  /\ rolling.state = "flying" => rolling.n = rolling.at + rolling.flown
  /\ Aligned(adaptor.window)

\* While bounds are optimised, every operation that has ended has answered unless
\* one was lost, and every answer is one its operation may give.
AnswersFit ==
  adaptor.state = "bounding" =>
    /\ adaptor.before = adaptor.ranges
    /\ \A p \in FreeParameters : adaptor.feasible[p] \subseteq M!Interval(adaptor.ranges[p])
    /\ \A i \in DOMAIN adaptor.answers : adaptor.answers[i][2] \in M!BoundAnswers(adaptor.answers[i][1])
    /\ ~adaptor.lost => \A operation \in M!Operations \ adaptor.running :
                          \E i \in DOMAIN adaptor.answers : adaptor.answers[i][1] = operation

RollingInv == RollingTypes /\ PlansFit /\ AnswersFit /\ M!RangesKeepTheFeasible

LEMMA RollingFacts ==
  ASSUME M!RollingAssumption
  PROVE  /\ PlanSteps \in Nat /\ ActSteps \in Nat /\ DataRange \in Nat \ {0} /\ AdaptationRange \in Nat \ {0}
         /\ FreeParameters \subseteq Nat /\ Grades \subseteq Int
         /\ \A p \in FreeParameters : /\ 2 * p \in M!Operations /\ 2 * p + 1 \in M!Operations
                                      /\ M!ParameterOf(2 * p) = p /\ M!ParameterOf(2 * p + 1) = p
                                      /\ M!Side(2 * p) = 0 /\ M!Side(2 * p + 1) = 1
         /\ \A o \in M!Operations : o \in Nat /\ M!ParameterOf(o) \in FreeParameters /\ M!Side(o) \in 0..1
  <1>. DEFINE k == Cardinality(FreeParameters)
  <1>0. /\ M!Cardinality(FreeParameters) = Cardinality(FreeParameters)
        /\ M!IsFiniteSet(FreeParameters) = IsFiniteSet(FreeParameters)
    BY DEF M!Cardinality, Cardinality, M!IsFiniteSet, IsFiniteSet
  <1>1. k \in Nat /\ FreeParameters = 0..k - 1
    BY <1>0, FS_CardinalityType DEF M!RollingAssumption
  <1>2. M!Operations = 0..2 * k - 1
    BY <1>0 DEF M!Operations
  <1>. HIDE DEF k
  <1>3. ASSUME NEW p \in FreeParameters
        PROVE  /\ 2 * p \in M!Operations /\ 2 * p + 1 \in M!Operations
               /\ M!ParameterOf(2 * p) = p /\ M!ParameterOf(2 * p + 1) = p
               /\ M!Side(2 * p) = 0 /\ M!Side(2 * p + 1) = 1
    <2>1. p \in Nat /\ p <= k - 1
      BY <1>1
    <2>2. /\ (2 * p) \div 2 = p /\ (2 * p + 1) \div 2 = p
          /\ (2 * p) % 2 = 0 /\ (2 * p + 1) % 2 = 1
      BY ONLY <2>1
    <2>3. 2 * p \in 0..2 * k - 1 /\ 2 * p + 1 \in 0..2 * k - 1
      BY ONLY <1>1, <2>1
    <2>. QED
      BY <1>2, <2>2, <2>3 DEF M!ParameterOf, M!Side
  <1>4. ASSUME NEW o \in M!Operations
        PROVE  o \in Nat /\ M!ParameterOf(o) \in FreeParameters /\ M!Side(o) \in 0..1
    <2>1. o \in Nat /\ o <= 2 * k - 1
      BY <1>1, <1>2
    <2>2. o \div 2 \in 0..k - 1 /\ o % 2 \in 0..1
      BY ONLY <1>1, <2>1
    <2>. QED
      BY <1>1, <2>1, <2>2 DEF M!ParameterOf, M!Side
  <1>5. /\ PlanSteps \in Nat /\ ActSteps \in Nat /\ DataRange \in Nat \ {0} /\ AdaptationRange \in Nat \ {0}
        /\ Grades \subseteq Int
    BY DEF M!RollingAssumption
  <1>. QED
    BY <1>1, <1>3, <1>4, <1>5

\* Neither bound an optimisation may answer cuts off a feasible value.
LEMMA BoundsAre ==
  ASSUME M!RollingAssumption, RollingTypes, NEW p \in FreeParameters,
         adaptor.feasible[p] \subseteq M!Interval(adaptor.ranges[p])
  PROVE  /\ M!BoundAnswers(2 * p) \subseteq Int /\ M!BoundAnswers(2 * p + 1) \subseteq Int
         /\ \A v \in adaptor.feasible[p] : v \in Int /\ adaptor.ranges[p][1] <= v /\ v <= adaptor.ranges[p][2]
         /\ \A x \in M!BoundAnswers(2 * p), v \in adaptor.feasible[p] : x <= v
         /\ \A y \in M!BoundAnswers(2 * p + 1), v \in adaptor.feasible[p] : v <= y
  <1>. DEFINE feasible == adaptor.feasible[p]
              low == adaptor.ranges[p][1]
              high == adaptor.ranges[p][2]
  <1>1. low \in Int /\ high \in Int /\ feasible \subseteq low..high
    BY DEF RollingTypes, Adaptors, Ranges, M!Interval
  <1>2. feasible # {} => /\ M!Min(feasible) \in feasible /\ \A x \in feasible : M!Min(feasible) <= x
                         /\ M!Max(feasible) \in feasible /\ \A x \in feasible : x <= M!Max(feasible)
    <2>. HIDE DEF feasible, low, high
    <2>. QED
      BY <1>1, EndsAre
  <1>3. M!BoundAnswers(2 * p) = {low} \cup (IF feasible = {} THEN {} ELSE {M!Min(feasible)})
    BY RollingFacts DEF M!BoundAnswers, M!Lower
  <1>4. M!BoundAnswers(2 * p + 1) = {high} \cup (IF feasible = {} THEN {} ELSE {M!Max(feasible)})
    BY RollingFacts DEF M!BoundAnswers, M!Lower
  <1>. HIDE DEF feasible, low, high
  <1>5. \A v \in feasible : v \in Int /\ low <= v /\ v <= high
    BY <1>1
  <1>6. /\ M!BoundAnswers(2 * p) \subseteq Int
        /\ \A x \in M!BoundAnswers(2 * p), v \in feasible : x <= v
    BY <1>1, <1>2, <1>3, <1>5
  <1>7. /\ M!BoundAnswers(2 * p + 1) \subseteq Int
        /\ \A y \in M!BoundAnswers(2 * p + 1), v \in feasible : v <= y
    BY <1>1, <1>2, <1>4, <1>5
  <1>. QED
    BY <1>5, <1>6, <1>7 DEF feasible, low, high
LEMMA RestingIs ==
  ASSUME M!RollingAssumption
  PROVE  /\ M!Resting \in Adaptors
         /\ M!Resting.state = "resting" /\ Aligned(M!Resting.window)
  <1>1. [p \in FreeParameters |-> <<0, 0>>] \in Ranges
    BY DEF Ranges
  <1>2. [states |-> <<>>, inputs |-> <<>>] \in [states : Seq(Int), inputs : Seq(Int)]
    OBVIOUS
  <1>3. /\ [p \in FreeParameters |-> {}] \in [FreeParameters -> SUBSET Grades]
        /\ [p \in FreeParameters |-> 0] \in Estimates
        /\ <<>> \in Seq(M!Operations \X Int) /\ {} \in SUBSET M!Operations
    BY DEF Estimates
  <1>4. Aligned(M!Resting.window)
    BY DEF M!Resting, Aligned
  <1>. HIDE DEF Ranges
  <1>. QED
    BY <1>1, <1>2, <1>3, <1>4 DEF M!Resting, Adaptors, AdaptorStates

LEMMA RollingStart ==
  ASSUME M!RollingAssumption, M!RollingInit
  PROVE  RollingInv
  <1>1. PICK init \in InitialRanges, b \in BOOLEAN, t \in BOOLEAN, guess \in GuessLength :
          rolling = [state |-> "planning", n |-> 0, goal |-> 0, solves |-> 0, plan |-> 0,
                     flown |-> 0, at |-> 0, adaptive |-> b, threaded |-> t, guess |-> guess,
                     init |-> init, model |-> [p \in FreeParameters |-> 0]]
    BY DEF M!RollingInit
  <1>2. init \in Ranges /\ [p \in FreeParameters |-> 0] \in Estimates
    BY DEF M!RollingAssumption, Ranges, Estimates
  <1>3. adaptor = M!Resting /\ problem = [start |-> -1, goal |-> -1]
    BY DEF M!RollingInit, M!NoProblem
  <1>4. RollingTypes
    BY <1>1, <1>2, <1>3, RestingIs DEF LoopStates, Loops, Problems, RollingTypes
  <1>5. PlansFit
    BY <1>1, <1>3, RestingIs DEF PlansFit
  <1>6. AnswersFit /\ M!RangesKeepTheFeasible
    BY <1>3, RestingIs DEF AnswersFit, M!RangesKeepTheFeasible
  <1>. QED
    BY <1>4, <1>5, <1>6 DEF RollingInv

\* Where the bounds are left alone, what fits them still does.
SameAdaptor == adaptor' = adaptor \/ adaptor' = M!Resting

LEMMA AdaptorStays ==
  ASSUME M!RollingAssumption, RollingInv, SameAdaptor
  PROVE  AnswersFit' /\ M!RangesKeepTheFeasible'
  <1>1. CASE adaptor' = adaptor
    <2>1. \A o : M!BoundAnswers(o)' = M!BoundAnswers(o)
      BY <1>1 DEF M!BoundAnswers
    <2>2. AnswersFit'
      BY <1>1, <2>1 DEF RollingInv, AnswersFit
    <2>3. M!RangesKeepTheFeasible'
      BY <1>1 DEF RollingInv, M!RangesKeepTheFeasible
    <2>. QED
      BY <2>2, <2>3
  <1>2. CASE adaptor' = M!Resting
    BY <1>2, RestingIs DEF AnswersFit, M!RangesKeepTheFeasible
  <1>. QED
    BY <1>1, <1>2 DEF SameAdaptor

LEMMA NextPlanKeeps ==
  ASSUME M!RollingAssumption, RollingInv, NEW init \in Ranges, NEW model \in Estimates,
         M!NextPlan(init, model), UNCHANGED problem, SameAdaptor
  PROVE  RollingInv'
  <1>1. RollingTypes'
    <2>. DEFINE then == IF rolling.solves < MissionSteps THEN "planning" ELSE "done"
    <2>0. then \in LoopStates /\ rolling \in Loops
      BY DEF LoopStates, RollingInv, RollingTypes
    <2>2. rolling' = [rolling EXCEPT !.state = then, !.plan = 0, !.flown = 0, !.at = 0,
                                     !.init = init, !.model = model]
      BY DEF M!NextPlan
    <2>1. rolling' \in Loops
      <3>1. [rolling EXCEPT !.state = then, !.plan = 0, !.flown = 0, !.at = 0] \in Loops
        <4>. DEFINE none == 0
        <4>1. none \in Nat /\ none \in Int
          OBVIOUS
        <4>. HIDE DEF then, none
        <4>2. [rolling EXCEPT !.state = then, !.plan = none, !.flown = none, !.at = none] \in Loops
          BY <2>0, <4>1 DEF Loops
        <4>. QED
          BY <4>2 DEF none
      <3>2. \A loop \in Loops : [loop EXCEPT !.init = init, !.model = model] \in Loops
        BY DEF Loops
      <3>. HIDE DEF then
      <3>3. rolling' = [[rolling EXCEPT !.state = then, !.plan = 0, !.flown = 0, !.at = 0]
                          EXCEPT !.init = init, !.model = model]
        BY <2>0, <2>2 DEF Loops
      <3>. QED
        BY <3>1, <3>2, <3>3
    <2>. QED
      BY <2>1, RestingIs DEF RollingInv, RollingTypes, SameAdaptor
  <1>2. PlansFit'
    BY RestingIs DEF LoopStates, Loops, Problems, Adaptors, AdaptorStates, RollingInv, RollingTypes, PlansFit, M!NextPlan, SameAdaptor, Aligned
  <1>. QED
    BY <1>1, <1>2, AdaptorStays DEF RollingInv

LEMMA SetUpKeeps == ASSUME M!RollingAssumption, RollingInv, M!SetUp PROVE RollingInv'
  <1>1. AnswersFit' /\ M!RangesKeepTheFeasible'
    BY AdaptorStays DEF M!SetUp, SameAdaptor
  <1>2. RollingTypes'
    <2>0. {"solving", "raised"} \subseteq LoopStates /\ rolling \in Loops
      BY DEF LoopStates, RollingInv, RollingTypes
    <2>3. \/ rolling' = [rolling EXCEPT !.state = "solving", !.solves = @ + 1]
          \/ rolling' = [rolling EXCEPT !.state = "raised"]
      BY DEF M!SetUp
    <2>1. rolling' \in Loops
      <3>. DEFINE more == rolling.solves + 1
      <3>1. more \in Nat
        BY <2>0 DEF Loops
      <3>2. \/ rolling' = [rolling EXCEPT !.state = "solving", !.solves = more]
            \/ rolling' = [rolling EXCEPT !.state = "raised"]
        BY <2>3
      <3>. HIDE DEF more
      <3>. QED
        BY <2>0, <3>1, <3>2 DEF Loops
    <2>2. problem' \in Problems
      BY DEF Loops, Problems, RollingInv, RollingTypes, M!SetUp
    <2>. QED
      BY <2>1, <2>2 DEF RollingInv, RollingTypes, M!SetUp
  <1>3. PlansFit'
    <2>1. CASE rolling.guess = "fits"
      <3>1. rolling' = [rolling EXCEPT !.state = "solving", !.solves = @ + 1]
        BY <2>1 DEF M!SetUp
      <3>2. rolling'.state = "solving" /\ rolling'.n = rolling.n /\ rolling'.goal = rolling.goal
        BY <3>1 DEF Loops, RollingInv, RollingTypes
      <3>3. problem' = [start |-> rolling.n, goal |-> rolling.goal] /\ adaptor' = adaptor
        BY <2>1 DEF M!SetUp
      <3>. QED
        BY <3>2, <3>3 DEF RollingInv, PlansFit, Aligned
    <2>2. CASE rolling.guess # "fits"
      BY <2>2 DEF Loops, RollingInv, RollingTypes, PlansFit, M!SetUp, Aligned
    <2>. QED
      BY <2>1, <2>2
  <1>. QED
    BY <1>1, <1>2, <1>3 DEF RollingInv

LEMMA SolveKeeps == ASSUME M!RollingAssumption, RollingInv, M!Solve PROVE RollingInv'
  <1>1. AnswersFit' /\ M!RangesKeepTheFeasible'
    BY AdaptorStays DEF M!Solve, SameAdaptor
  <1>2. PICK intervals \in {0, 1, PlanSteps - 1} :
          rolling' = [rolling EXCEPT
            !.state = IF intervals = 0 THEN "failed" ELSE "flying",
            !.plan = M!Min({ActSteps, intervals}), !.flown = 0, !.at = problem.start]
    BY DEF M!Solve
  <1>3. M!Min({ActSteps, intervals}) \in Int
    BY OfTwo, RollingFacts
  <1>4. problem' \in Problems /\ problem.start \in Int /\ UNCHANGED adaptor
    BY DEF M!Solve, M!NoProblem, RollingInv, RollingTypes, Problems
  <1>8. rolling' \in Loops
    <2>. DEFINE then == IF intervals = 0 THEN "failed" ELSE "flying"
                length == M!Min({ActSteps, intervals})
    <2>1. then \in LoopStates /\ rolling \in Loops
      BY DEF LoopStates, RollingInv, RollingTypes
    <2>2. rolling' = [rolling EXCEPT !.state = then, !.plan = length, !.flown = 0, !.at = problem.start]
      BY <1>2
    <2>. HIDE DEF then, length
    <2>. QED
      BY <2>1, <2>2, <1>3, <1>4 DEF Loops, length
  <1>5. RollingTypes'
    BY <1>4, <1>8 DEF RollingInv, RollingTypes
  <1>6. rolling.state = "solving" /\ problem.start = rolling.n
    BY DEF M!Solve, RollingInv, PlansFit
  <1>7. PlansFit'
    BY <1>2, <1>4, <1>6 DEF LoopStates, Loops, Problems, Adaptors, AdaptorStates, RollingInv, RollingTypes, PlansFit, Aligned
  <1>. QED
    BY <1>1, <1>5, <1>7 DEF RollingInv

LEMMA ActuateKeeps == ASSUME M!RollingAssumption, RollingInv, M!Actuate PROVE RollingInv'
  <1>1. AnswersFit' /\ M!RangesKeepTheFeasible'
    BY AdaptorStays DEF M!Actuate, SameAdaptor
  <1>2. RollingTypes'
    <2>0. rolling \in Loops
      BY DEF RollingInv, RollingTypes
    <2>3. rolling' = [rolling EXCEPT !.n = @ + 1, !.flown = @ + 1, !.goal = rolling.n + 1]
      BY DEF M!Actuate, M!GoalAt
    <2>1. rolling' \in Loops
      <3>. DEFINE clock == rolling.n + 1
                  flown == rolling.flown + 1
      <3>1. clock \in Nat /\ flown \in Nat
        BY <2>0 DEF Loops
      <3>2. rolling' = [rolling EXCEPT !.n = clock, !.flown = flown, !.goal = clock]
        BY <2>3
      <3>. HIDE DEF clock, flown
      <3>. QED
        BY <2>0, <3>1, <3>2 DEF Loops
    <2>. QED
      BY <2>1 DEF RollingInv, RollingTypes, M!Actuate
  <1>3. PlansFit'
    BY DEF LoopStates, Loops, Problems, Adaptors, AdaptorStates, RollingInv, RollingTypes, PlansFit, M!Actuate, M!GoalAt, Aligned
  <1>. QED
    BY <1>1, <1>2, <1>3 DEF RollingInv

LEMMA AdaptKeeps == ASSUME M!RollingAssumption, RollingInv, M!Adapt PROVE RollingInv'
  <1>. DEFINE middle == [p \in FreeParameters |-> (rolling.init[p][1] + rolling.init[p][2]) \div 2]
  <1>1. /\ rolling' = [rolling EXCEPT !.state = "adapting"]
        /\ adaptor' = [M!Resting EXCEPT !.state = "reading", !.ranges = rolling.init, !.estimate = middle]
        /\ UNCHANGED problem
    BY DEF M!Adapt
  <1>2. middle \in Estimates
    <2>1. \A p \in FreeParameters : rolling.init[p][1] \in Int /\ rolling.init[p][2] \in Int
      BY DEF LoopStates, Loops, Problems, Adaptors, AdaptorStates, RollingInv, RollingTypes, Ranges
    <2>2. \A p \in FreeParameters : (rolling.init[p][1] + rolling.init[p][2]) \div 2 \in Int
      BY <2>1
    <2>. QED
      BY <2>2 DEF Estimates
  <1>. HIDE DEF middle
  <1>3. RollingTypes'
    BY <1>1, <1>2, RestingIs DEF LoopStates, Loops, Problems, Adaptors, AdaptorStates, RollingInv, RollingTypes
  <1>4. PlansFit'
    BY <1>1, RestingIs DEF LoopStates, Loops, Problems, Adaptors, AdaptorStates, RollingInv, RollingTypes, PlansFit, Aligned
  <1>5. AnswersFit' /\ M!RangesKeepTheFeasible'
    BY <1>1, RestingIs DEF AnswersFit, M!RangesKeepTheFeasible
  <1>. QED
    BY <1>3, <1>4, <1>5 DEF RollingInv

\* What was recorded last: the input that is repeated in front stands beside the
\* first state of all only.
LEMMA RecordedIs ==
  ASSUME M!RollingAssumption, RollingTypes
  PROVE  /\ M!Available \in Nat
         /\ M!RecentStates \in [1..M!Available -> Int] /\ M!RecentInputs \in [1..M!Available -> Int]
         /\ \A i \in 1..M!Available : i > 1 \/ M!RecentStates[i] > 0 => M!RecentInputs[i] = M!RecentStates[i]
  <1>. DEFINE n == rolling.n
              given == M!Min({M!Available, n})
  <1>1. n \in Nat /\ DataRange \in Nat \ {0}
    BY RollingFacts DEF RollingTypes, Loops, Problems, Adaptors
  <1>2. M!Available = IF DataRange <= n + 1 THEN DataRange ELSE n + 1
    BY <1>1, OfTwo DEF M!Available
  <1>3. M!Available \in Nat
    BY <1>1, <1>2
  <1>4. given = IF M!Available <= n THEN M!Available ELSE n
    BY <1>1, <1>3, OfTwo
  <1>5. \A i \in 1..M!Available : M!RecentStates[i] = n - M!Available + i
    BY DEF M!RecentStates
  <1>6. \A i \in 1..M!Available :
          M!RecentInputs[i] = n - given + (IF i - (M!Available - given) <= 1 THEN 1 ELSE i - (M!Available - given))
    <2>. TAKE i \in 1..M!Available
    <2>1. i - (M!Available - given) \in Int
      BY <1>1, <1>3, <1>4
    <2>2. M!Max({i - (M!Available - given), 1})
            = IF i - (M!Available - given) <= 1 THEN 1 ELSE i - (M!Available - given)
      <3>. HIDE DEF given
      <3>. QED
        BY <2>1, OfTwo
    <2>3. M!RecentInputs[i] = n - given + M!Max({i - (M!Available - given), 1})
      BY DEF M!RecentInputs
    <2>. QED
      BY <2>2, <2>3
  <1>7. M!RecentStates \in [1..M!Available -> Int]
    <2>1. \A i \in 1..M!Available : n - M!Available + i \in Int
      BY <1>1, <1>3
    <2>. QED
      BY <2>1 DEF M!RecentStates
  <1>8. M!RecentInputs \in [1..M!Available -> Int]
    <2>1. \A i \in 1..M!Available : M!RecentInputs[i] \in Int
      <3>. HIDE DEF n, given
      <3>. QED
        BY <1>1, <1>3, <1>4, <1>6
    <2>2. M!RecentInputs = [i \in 1..M!Available |-> M!RecentInputs[i]]
      BY DEF M!RecentInputs
    <2>. QED
      BY <2>1, <2>2
  <1>9. ASSUME NEW i \in 1..M!Available, i > 1 \/ M!RecentStates[i] > 0
        PROVE  M!RecentInputs[i] = M!RecentStates[i]
    <2>. HIDE DEF n, given
    <2>1. CASE M!Available <= n
      BY <1>1, <1>2, <1>3, <1>4, <1>5, <1>6, <1>9, <2>1
    <2>2. CASE ~(M!Available <= n)
      <3>1. M!Available = n + 1 /\ given = n
        BY <1>1, <1>2, <1>4, <2>2
      <3>2. M!RecentStates[i] = i - 1 /\ M!RecentInputs[i] = IF i - 1 <= 1 THEN 1 ELSE i - 1
        BY <1>1, <1>5, <1>6, <3>1
      <3>. QED
        BY <1>9, <3>2
    <2>. QED
      BY <2>1, <2>2
  <1>. QED
    BY <1>3, <1>7, <1>8, <1>9

LEMMA LaunchKeeps == ASSUME M!RollingAssumption, RollingInv, M!Launch PROVE RollingInv'
  <1>. DEFINE data == adaptor.data + AdaptationRange
              first == data - AdaptationRange + 1
              states == SubSeq(M!RecentStates, first, data)
              inputs == SubSeq(M!RecentInputs, first, data)
              recent == [states |-> states, inputs |-> inputs]
  <1>1. PICK feasible \in [FreeParameters -> SUBSET Grades] :
          /\ \A p \in FreeParameters : feasible[p] \subseteq M!Interval(adaptor.ranges[p])
          /\ adaptor' = [adaptor EXCEPT
               !.state = "bounding", !.data = data, !.before = adaptor.ranges, !.window = recent,
               !.feasible = feasible, !.running = M!Operations, !.answers = <<>>]
    BY DEF M!Launch
  <1>2. adaptor \in Adaptors /\ rolling \in Loops /\ UNCHANGED <<rolling, problem>>
    BY DEF M!Launch, RollingInv, RollingTypes
  <1>3. data \in Nat /\ first \in 1..data /\ data < M!Available /\ M!Available \in Nat
    <2>1. adaptor.data \in Nat
      BY <1>2 DEF Adaptors
    <2>2. data < M!Available /\ M!Available \in Nat
      BY RecordedIs DEF M!Launch, RollingInv
    <2>. QED
      BY <2>1, <2>2, RollingFacts
  <1>. HIDE DEF data, first
  <1>4. /\ states \in Seq(Int) /\ Len(states) = data - first + 1
        /\ \A i \in 1..data - first + 1 : states[i] = M!RecentStates[first + i - 1]
    <2>1. \A i \in first..data : M!RecentStates[i] \in Int
      BY <1>3, RecordedIs DEF RollingInv
    <2>. QED
      BY <1>3, <2>1, SubSeqProperties
  <1>5. /\ inputs \in Seq(Int) /\ Len(inputs) = data - first + 1
        /\ \A i \in 1..data - first + 1 : inputs[i] = M!RecentInputs[first + i - 1]
    <2>1. \A i \in first..data : M!RecentInputs[i] \in Int
      BY <1>3, RecordedIs DEF RollingInv
    <2>. QED
      BY <1>3, <2>1, SubSeqProperties
  <1>6. Aligned(recent)
    <2>1. DOMAIN states = 1..data - first + 1
      BY <1>3, <1>4
    <2>2. ASSUME NEW i \in 1..data - first + 1, i > 1 \/ states[i] > 0
          PROVE  inputs[i] = states[i]
      <3>1. first + i - 1 \in 1..M!Available /\ (i > 1 => first + i - 1 > 1)
        BY <1>3
      <3>2. states[i] = M!RecentStates[first + i - 1] /\ inputs[i] = M!RecentInputs[first + i - 1]
        BY <1>4, <1>5
      <3>. HIDE DEF states, inputs
      <3>. QED
        BY <2>2, <3>1, <3>2, RecordedIs DEF RollingInv
    <2>. HIDE DEF states, inputs
    <2>. QED
      BY <2>1, <2>2 DEF Aligned
  <1>7. recent \in [states : Seq(Int), inputs : Seq(Int)]
    BY <1>4, <1>5
  <1>. HIDE DEF recent
  <1>8. /\ adaptor'.state = "bounding" /\ adaptor'.before = adaptor.ranges /\ adaptor'.window = recent
        /\ adaptor'.ranges = adaptor.ranges /\ adaptor'.feasible = feasible
        /\ adaptor'.running = M!Operations /\ adaptor'.answers = <<>>
    BY <1>1, <1>2 DEF Adaptors
  <1>9. adaptor' \in Adaptors
    <2>1. adaptor.ranges \in Ranges /\ "bounding" \in AdaptorStates /\ M!Operations \in SUBSET M!Operations
      BY <1>2 DEF Adaptors, AdaptorStates
    <2>2. <<>> \in Seq(M!Operations \X Int)
      OBVIOUS
    <2>. QED
      BY <1>1, <1>2, <1>3, <1>7, <2>1, <2>2 DEF Adaptors
  <1>10. RollingTypes'
    BY <1>2, <1>9 DEF RollingInv, RollingTypes
  <1>11. PlansFit'
    BY <1>2, <1>6, <1>8 DEF RollingInv, PlansFit, Aligned
  <1>12. AnswersFit'
    <2>1. \A p \in FreeParameters : adaptor'.feasible[p] \subseteq M!Interval(adaptor'.ranges[p])
      BY <1>1, <1>8
    <2>. QED
      BY <1>8, <2>1 DEF AnswersFit, M!Interval
  <1>13. M!RangesKeepTheFeasible'
    BY <1>8 DEF M!RangesKeepTheFeasible
  <1>. QED
    BY <1>10, <1>11, <1>12, <1>13 DEF RollingInv

\* An operation that has ended leaves the others and their answers.
LEMMA BoundAnswersAre ==
  ASSUME M!RollingAssumption, RollingTypes, NEW operation \in M!Operations,
         \A p \in FreeParameters : adaptor.feasible[p] \subseteq M!Interval(adaptor.ranges[p])
  PROVE  M!BoundAnswers(operation) \subseteq Int
  <1>. DEFINE p == M!ParameterOf(operation)
              bound == adaptor.ranges[p][M!Side(operation) + 1]
              feasible == adaptor.feasible[p]
  <1>1. p \in FreeParameters /\ M!Side(operation) \in 0..1
    BY RollingFacts
  <1>2. adaptor.ranges[p][1] \in Int /\ adaptor.ranges[p][2] \in Int
    BY <1>1 DEF RollingTypes, Adaptors, Ranges
  <1>3. bound \in Int
    <2>1. M!Side(operation) = 0 \/ M!Side(operation) = 1
      BY <1>1
    <2>. QED
      BY <1>2, <2>1
  <1>4. feasible \subseteq adaptor.ranges[p][1]..adaptor.ranges[p][2]
    BY <1>1 DEF M!Interval
  <1>5. feasible # {} => M!Min(feasible) \in Int /\ M!Max(feasible) \in Int
    <2>. DEFINE low == adaptor.ranges[p][1]
                high == adaptor.ranges[p][2]
    <2>1. feasible \subseteq Int
      BY <1>2, <1>4
    <2>. HIDE DEF feasible, p
    <2>. QED
      BY <1>2, <1>4, <2>1, EndsAre
  <1>6. M!BoundAnswers(operation)
          = {bound} \cup (IF feasible = {} THEN {}
                          ELSE {IF M!Side(operation) = M!Lower THEN M!Min(feasible) ELSE M!Max(feasible)})
    BY DEF M!BoundAnswers
  <1>. HIDE DEF bound, feasible
  <1>. QED
    BY <1>3, <1>5, <1>6

LEMMA OperationEndsKeeps ==
  ASSUME M!RollingAssumption, RollingInv, NEW operation \in M!Operations, M!OperationEnds(operation)
  PROVE  RollingInv'
  <1>1. PICK value \in M!BoundAnswers(operation) :
          adaptor' = [adaptor EXCEPT !.running = @ \ {operation}, !.answers = Append(@, <<operation, value>>)]
    BY DEF M!OperationEnds
  <1>2. adaptor \in Adaptors /\ UNCHANGED <<rolling, problem>> /\ adaptor.state = "bounding"
    BY DEF M!OperationEnds, RollingInv, RollingTypes
  <1>. DEFINE answer == <<operation, value>>
              answers == Append(adaptor.answers, answer)
              running == adaptor.running \ {operation}
  <1>3. value \in Int /\ answer \in M!Operations \X Int
    BY <1>2, BoundAnswersAre DEF RollingInv, AnswersFit
  <1>4. answer[1] = operation /\ answer[2] = value
    OBVIOUS
  <1>. HIDE DEF answer
  <1>5. /\ adaptor.answers \in Seq(M!Operations \X Int) /\ answers \in Seq(M!Operations \X Int)
        /\ Len(answers) = Len(adaptor.answers) + 1
        /\ \A i \in 1..Len(adaptor.answers) : answers[i] = adaptor.answers[i]
        /\ answers[Len(adaptor.answers) + 1] = answer
    <2>1. adaptor.answers \in Seq(M!Operations \X Int)
      BY <1>2 DEF Adaptors
    <2>. HIDE DEF answers
    <2>. QED
      BY <1>3, <2>1, AppendProperties DEF answers
  <1>. DEFINE length == Len(adaptor.answers)
  <1>6. length \in Nat /\ DOMAIN adaptor.answers = 1..length /\ DOMAIN answers = 1..length + 1
    BY <1>5
  <1>7. running \in SUBSET M!Operations
    BY <1>2 DEF Adaptors
  <1>8. adaptor' = [adaptor EXCEPT !.running = running, !.answers = answers]
    BY <1>1 DEF answer
  <1>. HIDE DEF answers, length, running
  <1>9. /\ adaptor' \in Adaptors
        /\ adaptor'.state = "bounding" /\ adaptor'.window = adaptor.window
        /\ adaptor'.before = adaptor.before /\ adaptor'.ranges = adaptor.ranges
        /\ adaptor'.feasible = adaptor.feasible /\ adaptor'.lost = adaptor.lost
        /\ adaptor'.running = running /\ adaptor'.answers = answers
    BY <1>2, <1>5, <1>7, <1>8 DEF Adaptors
  <1>10. RollingTypes' /\ PlansFit'
    BY <1>2, <1>9 DEF RollingInv, RollingTypes, PlansFit, Aligned
  <1>11. M!RangesKeepTheFeasible'
    BY <1>9 DEF M!RangesKeepTheFeasible
  <1>12. AnswersFit'
    <2>1. /\ adaptor.before = adaptor.ranges
          /\ \A p \in FreeParameters : adaptor.feasible[p] \subseteq M!Interval(adaptor.ranges[p])
          /\ \A i \in DOMAIN adaptor.answers : adaptor.answers[i][2] \in M!BoundAnswers(adaptor.answers[i][1])
          /\ ~adaptor.lost => \A o \in M!Operations \ adaptor.running :
                                \E i \in DOMAIN adaptor.answers : adaptor.answers[i][1] = o
      BY <1>2 DEF RollingInv, AnswersFit
    <2>2. \A o : M!BoundAnswers(o)' = M!BoundAnswers(o)
      BY <1>9 DEF M!BoundAnswers
    <2>3. \A i \in 1..length + 1 : answers[i][2] \in M!BoundAnswers(answers[i][1])
      <3>. TAKE i \in 1..length + 1
      <3>1. CASE i \in 1..length
        BY <1>5, <1>6, <2>1, <3>1 DEF length
      <3>2. CASE i = length + 1
        BY <1>1, <1>4, <1>5, <3>2 DEF length
      <3>. QED
        BY <1>6, <3>1, <3>2
    <2>4. ASSUME ~adaptor.lost, NEW o \in M!Operations \ running
          PROVE  \E i \in 1..length + 1 : answers[i][1] = o
      <3>1. CASE o = operation
        BY <1>4, <1>5, <1>6, <3>1 DEF length
      <3>2. CASE o # operation
        <4>1. o \in M!Operations \ adaptor.running
          BY <2>4, <3>2 DEF running
        <4>2. PICK i \in 1..length : adaptor.answers[i][1] = o
          BY <1>6, <2>1, <2>4, <4>1
        <4>3. i \in 1..length + 1 /\ answers[i][1] = o
          BY <1>5, <1>6, <4>2 DEF length
        <4>. QED
          BY <4>3
      <3>. QED
        BY <3>1, <3>2
    <2>5. \A p \in FreeParameters : adaptor'.feasible[p] \subseteq M!Interval(adaptor'.ranges[p])
      BY <1>9, <2>1
    <2>. QED
      BY <1>6, <1>9, <2>1, <2>2, <2>3, <2>4, <2>5 DEF AnswersFit, M!Interval
  <1>. QED
    BY <1>10, <1>11, <1>12 DEF RollingInv

LEMMA OperationRaisesKeeps ==
  ASSUME M!RollingAssumption, RollingInv, NEW operation \in M!Operations, M!OperationRaises(operation)
  PROVE  RollingInv'
  <1>1. CASE ~rolling.threaded
    <2>1. rolling.init \in Ranges /\ rolling.model \in Estimates
      BY DEF RollingInv, RollingTypes, Loops
    <2>2. M!NextPlan(rolling.init, rolling.model) /\ UNCHANGED problem /\ SameAdaptor
      BY <1>1 DEF M!OperationRaises, SameAdaptor
    <2>. QED
      BY <2>1, <2>2, NextPlanKeeps
  <1>2. CASE rolling.threaded
    <2>. DEFINE running == adaptor.running \ {operation}
    <2>1. /\ adaptor' = [adaptor EXCEPT !.running = running, !.lost = TRUE]
          /\ UNCHANGED <<rolling, problem>> /\ adaptor \in Adaptors /\ adaptor.state = "bounding"
      BY <1>2 DEF M!OperationRaises, RollingInv, RollingTypes
    <2>2. running \in SUBSET M!Operations
      BY <2>1 DEF Adaptors
    <2>. HIDE DEF running
    <2>3. /\ adaptor' \in Adaptors
          /\ adaptor'.state = "bounding" /\ adaptor'.window = adaptor.window
          /\ adaptor'.before = adaptor.before /\ adaptor'.ranges = adaptor.ranges
          /\ adaptor'.feasible = adaptor.feasible /\ adaptor'.lost = TRUE
          /\ adaptor'.answers = adaptor.answers
      BY <2>1, <2>2 DEF Adaptors
    <2>4. RollingTypes' /\ PlansFit'
      BY <2>1, <2>3 DEF RollingInv, RollingTypes, PlansFit, Aligned
    <2>5. M!RangesKeepTheFeasible'
      BY <2>3 DEF M!RangesKeepTheFeasible
    <2>6. \A o : M!BoundAnswers(o)' = M!BoundAnswers(o)
      BY <2>3 DEF M!BoundAnswers
    <2>7. AnswersFit'
      <3>1. /\ adaptor.before = adaptor.ranges
            /\ \A p \in FreeParameters : adaptor.feasible[p] \subseteq M!Interval(adaptor.ranges[p])
            /\ \A i \in DOMAIN adaptor.answers : adaptor.answers[i][2] \in M!BoundAnswers(adaptor.answers[i][1])
        BY <2>1 DEF RollingInv, AnswersFit
      <3>. QED
        BY <2>3, <2>6, <3>1 DEF AnswersFit, M!Interval
    <2>. QED
      BY <2>4, <2>5, <2>7 DEF RollingInv
  <1>. QED
    BY <1>1, <1>2

\* What is assembled keeps every value the data admit, if nothing was lost, and
\* widens no range.
LEMMA AnswerIs ==
  ASSUME M!RollingAssumption, RollingInv, adaptor.state = "bounding", NEW operation \in M!Operations
  PROVE  /\ M!AnswerOf(operation) \in Int
         /\ ~adaptor.lost /\ adaptor.running = {} => M!AnswerOf(operation) \in M!BoundAnswers(operation)
  <1>. DEFINE answers == adaptor.answers
              given == {i \in DOMAIN answers : answers[i][1] = operation}
  <1>1. /\ \A i \in DOMAIN answers : answers[i][2] \in M!BoundAnswers(answers[i][1])
        /\ ~adaptor.lost => \A o \in M!Operations \ adaptor.running :
                              \E i \in DOMAIN answers : answers[i][1] = o
    BY DEF RollingInv, AnswersFit
  <1>2. answers \in Seq(M!Operations \X Int)
    BY DEF RollingInv, RollingTypes, Adaptors
  <1>3. given \subseteq 1..Len(answers) /\ Len(answers) \in Int
    BY <1>2
  <1>4. M!AnswerOf(operation) = IF given = {} THEN 0 ELSE answers[M!Min(given)][2]
    BY DEF M!AnswerOf
  <1>5. given # {} => M!Min(given) \in given
    <2>. DEFINE first == 1
                last == Len(answers)
    <2>1. given \subseteq first..last /\ first \in Int /\ last \in Int
      BY <1>3
    <2>. HIDE DEF given, first, last
    <2>. QED
      BY <2>1, EndsAre
  <1>6. ASSUME given # {}
        PROVE  M!AnswerOf(operation) \in Int /\ M!AnswerOf(operation) \in M!BoundAnswers(operation)
    <2>. DEFINE first == M!Min(given)
    <2>1. first \in DOMAIN answers /\ answers[first][1] = operation /\ M!AnswerOf(operation) = answers[first][2]
      BY <1>4, <1>5, <1>6
    <2>. HIDE DEF first
    <2>2. answers[first] \in M!Operations \X Int
      BY <1>2, <2>1
    <2>. QED
      BY <1>1, <2>1, <2>2
  <1>7. given = {} => M!AnswerOf(operation) = 0
    BY <1>4
  <1>8. ~adaptor.lost /\ adaptor.running = {} => given # {}
    BY <1>1
  <1>. HIDE DEF given
  <1>. QED
    BY <1>6, <1>7, <1>8

\* The range that is assembled for one parameter.
Assembled(p) ==
  LET answered == {M!AnswerOf(2 * p), M!AnswerOf(2 * p + 1)}
  IN  <<M!Max({M!Min(answered), adaptor.ranges[p][1]}), M!Min({M!Max(answered), adaptor.ranges[p][2]})>>

LEMMA AssembledIs ==
  ASSUME M!RollingAssumption, RollingInv, adaptor.state = "bounding", adaptor.running = {},
         NEW p \in FreeParameters
  PROVE  /\ Assembled(p) \in Int \X Int
         /\ Assembled(p)[1] >= adaptor.ranges[p][1] /\ Assembled(p)[2] <= adaptor.ranges[p][2]
         /\ ~adaptor.lost => \A v \in adaptor.feasible[p] : v \in Assembled(p)[1]..Assembled(p)[2]
  <1>. DEFINE a == M!AnswerOf(2 * p)
              b == M!AnswerOf(2 * p + 1)
              low == adaptor.ranges[p][1]
              high == adaptor.ranges[p][2]
              least == M!Min({a, b})
              largest == M!Max({a, b})
  <1>1. 2 * p \in M!Operations /\ 2 * p + 1 \in M!Operations
    BY RollingFacts
  <1>2. /\ a \in Int /\ b \in Int
        /\ ~adaptor.lost => a \in M!BoundAnswers(2 * p) /\ b \in M!BoundAnswers(2 * p + 1)
    BY <1>1, AnswerIs
  <1>3. adaptor.feasible[p] \subseteq M!Interval(adaptor.ranges[p])
    BY DEF RollingInv, AnswersFit
  <1>4. /\ \A v \in adaptor.feasible[p] : v \in Int /\ low <= v /\ v <= high
        /\ \A x \in M!BoundAnswers(2 * p), v \in adaptor.feasible[p] : x <= v
        /\ \A y \in M!BoundAnswers(2 * p + 1), v \in adaptor.feasible[p] : v <= y
    BY <1>3, BoundsAre DEF RollingInv
  <1>5. low \in Int /\ high \in Int
    BY DEF RollingInv, RollingTypes, Adaptors, Ranges
  <1>6. Assembled(p) = <<M!Max({least, low}), M!Min({largest, high})>>
    BY DEF Assembled
  <1>. HIDE DEF a, b, low, high
  <1>7. least = (IF a <= b THEN a ELSE b) /\ largest = IF a <= b THEN b ELSE a
    BY <1>2, OfTwo
  <1>8. least \in Int /\ largest \in Int /\ least <= a /\ b <= largest
    BY <1>2, <1>7
  <1>. HIDE DEF least, largest
  <1>9. /\ M!Max({least, low}) = IF least <= low THEN low ELSE least
        /\ M!Min({largest, high}) = IF largest <= high THEN largest ELSE high
    BY <1>5, <1>8, OfTwo
  <1>10. Assembled(p) = <<IF least <= low THEN low ELSE least, IF largest <= high THEN largest ELSE high>>
    BY <1>6, <1>9
  <1>11. /\ Assembled(p) \in Int \X Int
         /\ Assembled(p)[1] = (IF least <= low THEN low ELSE least)
         /\ Assembled(p)[2] = IF largest <= high THEN largest ELSE high
    BY <1>5, <1>8, <1>10
  <1>12. Assembled(p)[1] >= low /\ Assembled(p)[2] <= high
    BY <1>5, <1>8, <1>11
  <1>13. ASSUME ~adaptor.lost, NEW v \in adaptor.feasible[p]
         PROVE  v \in Assembled(p)[1]..Assembled(p)[2]
    <2>1. v \in Int /\ low <= v /\ v <= high /\ a <= v /\ v <= b
      BY <1>2, <1>4, <1>13
    <2>2. Assembled(p)[1] <= v /\ v <= Assembled(p)[2]
      BY <1>2, <1>5, <1>8, <1>11, <2>1
    <2>3. Assembled(p)[1] \in Int /\ Assembled(p)[2] \in Int
      BY <1>11
    <2>. QED
      BY <2>1, <2>2, <2>3
  <1>. QED
    BY <1>11, <1>12, <1>13 DEF low, high

LEMMA AssembleKeeps == ASSUME M!RollingAssumption, RollingInv, M!Assemble PROVE RollingInv'
  <1>. DEFINE ranges == [p \in FreeParameters |-> Assembled(p)]
  <1>1. /\ adaptor' = [adaptor EXCEPT !.state = "estimating", !.answers = <<>>, !.ranges = ranges]
        /\ UNCHANGED <<rolling, problem>>
        /\ adaptor.state = "bounding" /\ adaptor.running = {} /\ adaptor \in Adaptors
    BY DEF M!Assemble, Assembled, RollingInv, RollingTypes
  <1>2. ranges \in Ranges
    BY <1>1, AssembledIs DEF Ranges
  <1>3. \A p \in FreeParameters : ranges[p] = Assembled(p)
    OBVIOUS
  <1>. HIDE DEF ranges
  <1>4. /\ adaptor'.state = "estimating" /\ adaptor'.window = adaptor.window
        /\ adaptor'.before = adaptor.before /\ adaptor'.ranges = ranges
        /\ adaptor'.feasible = adaptor.feasible /\ adaptor'.lost = adaptor.lost
    BY <1>1 DEF Adaptors
  <1>5. adaptor' \in Adaptors
    <2>1. "estimating" \in AdaptorStates /\ <<>> \in Seq(M!Operations \X Int)
      BY DEF AdaptorStates
    <2>. QED
      BY <1>1, <1>2, <2>1 DEF Adaptors
  <1>6. RollingTypes' /\ PlansFit'
    BY <1>1, <1>4, <1>5 DEF RollingInv, RollingTypes, PlansFit, Aligned
  <1>7. AnswersFit'
    BY <1>4 DEF AnswersFit
  <1>8. M!RangesKeepTheFeasible'
    <2>1. adaptor.before = adaptor.ranges
      BY <1>1 DEF RollingInv, AnswersFit
    <2>2. ASSUME NEW p \in FreeParameters
          PROVE  /\ ~adaptor.lost => adaptor.feasible[p] \subseteq M!Interval(ranges[p])
                 /\ ranges[p][1] >= adaptor.before[p][1] /\ ranges[p][2] <= adaptor.before[p][2]
      BY <1>1, <1>3, <2>1, AssembledIs DEF M!Interval
    <2>. QED
      BY <1>4, <2>2 DEF M!RangesKeepTheFeasible, M!Interval
  <1>. QED
    BY <1>6, <1>7, <1>8 DEF RollingInv

LEMMA EstimateKeeps == ASSUME M!RollingAssumption, RollingInv, M!Estimate PROVE RollingInv'
  <1>1. PICK fit \in {[p \in FreeParameters |-> v] : v \in Grades \cup {0}} :
          adaptor' = [adaptor EXCEPT
            !.state = "reading", !.feasible = M!Resting.feasible, !.before = M!Resting.before,
            !.lost = FALSE,
            !.estimate = IF \A p \in FreeParameters : fit[p] \in M!Interval(adaptor.ranges[p])
                         THEN fit ELSE @]
    BY DEF M!Estimate
  <1>2. adaptor \in Adaptors /\ UNCHANGED <<rolling, problem>>
    BY DEF M!Estimate, RollingInv, RollingTypes
  <1>. DEFINE best == IF \A p \in FreeParameters : fit[p] \in M!Interval(adaptor.ranges[p])
                      THEN fit ELSE adaptor.estimate
              feasible == M!Resting.feasible
              before == M!Resting.before
  <1>3. best \in Estimates
    <2>1. PICK v \in Grades \cup {0} : fit = [p \in FreeParameters |-> v]
      BY <1>1
    <2>2. v \in Int
      BY RollingFacts
    <2>3. fit \in Estimates
      BY <2>1, <2>2 DEF Estimates
    <2>. QED
      BY <1>2, <2>3 DEF Adaptors
  <1>4. before \in Ranges /\ feasible \in [FreeParameters -> SUBSET Grades]
    <2>1. M!Resting \in Adaptors
      BY RestingIs
    <2>. QED
      BY ONLY <2>1 DEF Adaptors
  <1>5. adaptor' = [adaptor EXCEPT !.state = "reading", !.feasible = feasible, !.before = before,
                                   !.lost = FALSE, !.estimate = best]
    BY <1>1
  <1>. HIDE DEF best, feasible, before
  <1>6. adaptor'.state = "reading" /\ adaptor'.window = adaptor.window
    BY <1>2, <1>5 DEF Adaptors
  <1>7. adaptor' \in Adaptors
    <2>1. "reading" \in AdaptorStates
      BY DEF AdaptorStates
    <2>. QED
      BY <1>2, <1>3, <1>4, <1>5, <2>1 DEF Adaptors
  <1>8. RollingTypes' /\ PlansFit'
    BY <1>2, <1>6, <1>7 DEF RollingInv, RollingTypes, PlansFit, Aligned
  <1>9. AnswersFit' /\ M!RangesKeepTheFeasible'
    BY <1>6 DEF AnswersFit, M!RangesKeepTheFeasible
  <1>. QED
    BY <1>8, <1>9 DEF RollingInv

LEMMA PlanEndsKeeps ==
  ASSUME M!RollingAssumption, RollingInv, M!PlanAgain \/ M!EstimateRaises \/ M!Adapted
  PROVE  RollingInv'
  <1>1. /\ rolling.init \in Ranges /\ rolling.model \in Estimates
        /\ adaptor.ranges \in Ranges /\ adaptor.estimate \in Estimates
    BY DEF RollingInv, RollingTypes, Loops, Adaptors
  <1>2. CASE M!PlanAgain
    BY <1>1, <1>2, NextPlanKeeps DEF M!PlanAgain, SameAdaptor
  <1>3. CASE M!EstimateRaises
    BY <1>1, <1>3, NextPlanKeeps DEF M!EstimateRaises, SameAdaptor
  <1>4. CASE M!Adapted
    BY <1>1, <1>4, NextPlanKeeps DEF M!Adapted, SameAdaptor
  <1>. QED
    BY <1>2, <1>3, <1>4

LEMMA RollingStep == ASSUME M!RollingAssumption, RollingInv, M!RollingNext PROVE RollingInv'
  <1>1. CASE \E operation \in M!Operations : M!OperationEnds(operation) \/ M!OperationRaises(operation)
    BY <1>1, OperationEndsKeeps, OperationRaisesKeeps
  <1>. QED
    BY <1>1, SetUpKeeps, SolveKeeps, ActuateKeeps, PlanEndsKeeps, AdaptKeeps, LaunchKeeps,
       AssembleKeeps, EstimateKeeps DEF M!RollingNext

\* Whatever windows of data are recorded, and in whatever order the bounds of an
\* adaptation answer or raise, every plan is made for the state and the target it is
\* flown from, every state of the data stands beside the input that led to it, and
\* no range loses a value its data admit (controller.py, batch.py).
THEOREM RollingPlansAlwaysFit == EstimationSpec => []RollingPlansFit
<1>. DEFINE Fit == part = "rolling" => RollingInv
<1>1. M!RollingAssumption
  BY EstimationInstances
<1>2. EstimationInit => Fit
  BY <1>1, RollingStart DEF EstimationInit
<1>3. ASSUME Fit, [EstimationNext]_estimationVars
      PROVE  Fit'
  <2>. SUFFICES ASSUME part' = "rolling" PROVE RollingInv'
    OBVIOUS
  <2>1. CASE RunMission
    BY <1>1, <1>3, <2>1, RollingStep DEF RunMission
  <2>2. CASE UNCHANGED estimationVars
    <3>1. RollingInv /\ UNCHANGED rollingMission
      BY <1>3, <2>2 DEF estimationVars
    <3>2. \A o : M!BoundAnswers(o)' = M!BoundAnswers(o)
      BY <3>1 DEF M!BoundAnswers, rollingMission
    <3>. QED
      BY <3>1, <3>2 DEF rollingMission, RollingInv, RollingTypes, PlansFit, Aligned, AnswersFit,
                        M!RangesKeepTheFeasible
  <2>3. CASE Navigate \/ Observe \/ Identify \/ Adapt \/ Allocate
    BY <2>3 DEF Navigate, Observe, Identify, Adapt, Allocate
  <2>. QED
    BY <1>3, <2>1, <2>2, <2>3 DEF EstimationNext
<1>4. Fit => RollingPlansFit
  <2>. SUFFICES ASSUME RollingInv PROVE M!PlansAndWindowsAlign /\ M!RangesKeepTheFeasible
    BY DEF RollingPlansFit
  <2>1. M!PlansAndWindowsAlign
    BY DEF M!PlansAndWindowsAlign, RollingInv, PlansFit, Aligned
  <2>. QED
    BY <2>1 DEF RollingInv
<1>. QED
  BY <1>2, <1>3, <1>4, PTL DEF EstimationSpec

=============================================================================

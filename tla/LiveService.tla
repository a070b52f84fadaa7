----------------------------- MODULE LiveService -----------------------------
(***************************************************************************)
(* The live simulation service (scripts/simulation/service): HTTP threads  *)
(* start, pause and reset one replaceable worker process, a collector      *)
(* thread per job turns the events of its bounded queue into published     *)
(* states, and each published state is also written to the job-status.json *)
(* of the job's directory.                                                 *)
(*                                                                         *)
(* The operations hold the _operation lock from first to last step; the    *)
(* collectors do not.  A step of this module ends where a thread releases  *)
(* the condition or calls something that may block.                        *)
(* Events that only carry solver text, projections or progress change none *)
(* of the state kept here and are left out.                                *)
(***************************************************************************)
EXTENDS Integers, Sequences

CONSTANTS MaxJobs,      \* bound: jobs started
          MaxUpdates,   \* committed outer updates of one mission
          QueueLimit,   \* size of the event queue (8 in the code)
          MaxPauses,    \* bound: pause and resume requests
          Crashes,      \* the worker process may be killed from outside
          None

ASSUME ServiceAssumption ==
  /\ MaxJobs \in Nat \ {0} /\ MaxUpdates \in Nat
  /\ QueueLimit \in Nat \ {0} /\ MaxPauses \in Nat /\ Crashes \in BOOLEAN

Jobs == 1..MaxJobs

ASSUME NoneAssumption == None \notin Jobs

VARIABLES
  job_id, status, paused, \* the published state
  message,                \* whether it blames a missing completion result
  job_status,             \* last status written to each job's directory
  process,                \* the job whose process the service holds, or None
  op,                     \* the operation holding the lock, and its next step
  worker,                 \* program point of each worker process
  updates,                \* updates each worker has committed
  run_event,              \* each worker may go on
  result,                 \* worker-result.json of each job
  messages,               \* the event queue of each job
  collector,              \* program point and locals of each collector
  pauses                  \* pause requests so far

published == <<job_id, status, paused, message, job_status>>
workers == <<worker, updates, run_event, result, messages>>
vars == <<published, process, op, workers, collector, pauses>>

Terminal == {"completed", "stopped", "failed"}
Events == {"committed", "paused", "running", "stage", "finished", "refused", "error"}
Alive(j) == worker[j] \notin {"none", "exited", "dead"}

Free == [step |-> "free"]

Init ==
  /\ job_id = None /\ status = "idle" /\ paused = FALSE /\ message = "other"
  /\ job_status = [j \in Jobs |-> None]
  /\ process = None /\ op = Free
  /\ worker = [j \in Jobs |-> "none"]
  /\ updates = [j \in Jobs |-> 0]
  /\ run_event = [j \in Jobs |-> TRUE]
  /\ result = [j \in Jobs |-> None]
  /\ messages = [j \in Jobs |-> <<>>]
  /\ collector = [j \in Jobs |-> [step |-> "none"]]
  /\ pauses = 0

\* _publish: the new state is visible and, with a job, in its directory.
Publish(job, st, pz, msg) ==
  /\ job_id' = job /\ status' = st /\ paused' = pz /\ message' = msg
  /\ job_status' = IF job = None THEN job_status ELSE [job_status EXCEPT ![job] = st]

-----------------------------------------------------------------------------
(* The worker process                                                      *)

\* Queue.put waits for room.
Put(j, event) ==
  /\ Len(messages[j]) < QueueLimit
  /\ messages' = [messages EXCEPT ![j] = Append(@, event)]

Goto(j, point) == worker' = [worker EXCEPT ![j] = point]
OnlyWorker == UNCHANGED <<published, process, op, collector, pauses>>

\* The initial state and every committed update is reported ...
WorkerReport(j) ==
  /\ worker[j] = "running"
  /\ Put(j, "committed") /\ Goto(j, "reported")
  /\ UNCHANGED <<updates, run_event, result>> /\ OnlyWorker

\* ... and a pause request is looked at after each report only.
WorkerCheckPause(j) ==
  /\ worker[j] = "reported"
  /\ IF run_event[j]
     THEN UNCHANGED messages /\ Goto(j, "next")
     ELSE Put(j, "paused") /\ Goto(j, "pausing")
  /\ UNCHANGED <<updates, run_event, result>> /\ OnlyWorker

\* Mutant: a wake-up that comes before the wait is lost.
WorkerWaitLosingWakeup(j) ==
  /\ worker[j] = "pausing"
  /\ Goto(j, "waiting")
  /\ UNCHANGED <<updates, run_event, result, messages>> /\ OnlyWorker

\* run_event.wait() returns at once when the event is set.
WorkerWait(j) ==
  /\ worker[j] = "pausing"
  /\ Goto(j, IF run_event[j] THEN "resumed" ELSE "waiting")
  /\ UNCHANGED <<updates, run_event, result, messages>> /\ OnlyWorker

WorkerResume(j) ==
  /\ worker[j] = "resumed"
  /\ Put(j, "running") /\ Goto(j, "next")
  /\ UNCHANGED <<updates, run_event, result>> /\ OnlyWorker

\* Another update, or the approach ends and the completion stages run.
WorkerAdvance(j) ==
  /\ worker[j] = "next"
  /\ \/ /\ updates[j] < MaxUpdates
        /\ updates' = [updates EXCEPT ![j] = @ + 1]
        /\ Goto(j, "running")
        /\ UNCHANGED messages
     \/ /\ Put(j, "stage") /\ Goto(j, "completing")
        /\ UNCHANGED updates
  /\ UNCHANGED <<run_event, result>> /\ OnlyWorker

\* The result is closed on disk before it is put in the queue.
WorkerClose(j) ==
  /\ \/ worker[j] = "completing" /\ \E r \in {"finished", "refused"} : result' = [result EXCEPT ![j] = r]
     \/ worker[j] \in {"running", "next", "completing"} /\ result' = [result EXCEPT ![j] = "error"]
  /\ Goto(j, "closed")
  /\ UNCHANGED <<updates, run_event, messages>> /\ OnlyWorker

WorkerFinish(j) ==
  /\ worker[j] = "closed"
  /\ Put(j, result[j]) /\ Goto(j, "exiting")
  /\ UNCHANGED <<updates, run_event, result>> /\ OnlyWorker

\* The interpreter flushes its queue and exits.
WorkerExit(j) ==
  /\ worker[j] = "exiting" /\ Goto(j, "exited")
  /\ UNCHANGED <<updates, run_event, result, messages>> /\ OnlyWorker

WorkerStep(j) == WorkerReport(j) \/ WorkerCheckPause(j) \/ WorkerWait(j) \/ WorkerResume(j)
                 \/ WorkerAdvance(j) \/ WorkerClose(j) \/ WorkerFinish(j) \/ WorkerExit(j)

\* A killed process loses what its feeder thread has not written yet.
Kill(j) ==
  /\ Goto(j, "dead")
  /\ \E n \in 0..Len(messages[j]) : messages' = [messages EXCEPT ![j] = SubSeq(@, 1, n)]

WorkerCrash(j) ==
  /\ Crashes /\ Alive(j) /\ worker[j] # "exiting"
  /\ Kill(j)
  /\ UNCHANGED <<updates, run_event, result>> /\ OnlyWorker

-----------------------------------------------------------------------------
(* The collector thread of a job                                           *)

Collect(j, c) == collector' = [collector EXCEPT ![j] = c]
OnlyCollector == UNCHANGED <<process, op, worker, updates, run_event, result, pauses>>

CollectorGet(j) ==
  /\ collector[j].step = "get" /\ messages[j] # <<>>
  /\ messages' = [messages EXCEPT ![j] = Tail(@)]
  /\ Collect(j, [step |-> "check", terminal |-> collector[j].terminal, event |-> Head(messages[j])])
  /\ UNCHANGED published /\ OnlyCollector

\* The get timed out; the process is looked at afterwards.
CollectorTimeout(j) ==
  /\ collector[j].step = "get" /\ messages[j] = <<>>
  /\ Collect(j, [step |-> "empty", terminal |-> collector[j].terminal])
  /\ UNCHANGED <<published, messages>> /\ OnlyCollector

\* Mutant: the first quiet interval ends the collector.
CollectorGivesUp(j) ==
  /\ collector[j].step = "empty"
  /\ Collect(j, [step |-> "end", terminal |-> collector[j].terminal])
  /\ UNCHANGED <<published, messages>> /\ OnlyCollector

\* Mutant: the collector never looks at the process.
CollectorWaitsForever(j) ==
  /\ collector[j].step = "empty"
  /\ Collect(j, [step |-> "get", terminal |-> collector[j].terminal])
  /\ UNCHANGED <<published, messages>> /\ OnlyCollector

CollectorPoll(j) ==
  /\ collector[j].step = "empty"
  /\ Collect(j, [step |-> IF Alive(j) THEN "get" ELSE "end", terminal |-> collector[j].terminal])
  /\ UNCHANGED <<published, messages>> /\ OnlyCollector

\* Under the condition: is this job still the published one?  The condition
\* is released before the event is published.
CollectorCheck(j) ==
  /\ collector[j].step = "check"
  /\ Collect(j, IF job_id # j \/ status \in {"cancelled", "idle"}
                THEN [step |-> "end", terminal |-> collector[j].terminal]
                ELSE [step |-> "publish", event |-> collector[j].event, paused |-> paused,
                      terminal |-> \/ collector[j].terminal
                                   \/ collector[j].event \in {"finished", "refused", "error"}])
  /\ UNCHANGED <<published, messages>> /\ OnlyCollector

EventStatus(event, pz) ==
  CASE event \in {"committed", "running"} -> IF pz THEN "pausing" ELSE "running"
    [] event = "paused" -> "paused"
    [] event = "stage" -> "completing"
    [] event = "finished" -> "completed"
    [] event = "refused" -> "stopped"
    [] event = "error" -> "failed"

CollectorPublish(j) ==
  /\ collector[j].step = "publish"
  /\ LET event == collector[j].event IN
     Publish(job_id, EventStatus(event, collector[j].paused),
             paused /\ event \notin {"finished", "refused", "error"}, "other")
  /\ Collect(j, [step |-> "get", terminal |-> collector[j].terminal])
  /\ UNCHANGED messages /\ OnlyCollector

\* Mutant: only a job that never reported anything is failed.
UnansweredIfStarting(j) == job_id = j /\ ~collector[j].terminal /\ status = "starting"

\* finally: a job that is still published and brought no result has failed.
\* The queue is closed last.
Unanswered(j) ==
  job_id = j /\ ~collector[j].terminal /\ status \notin {"cancelled", "idle"}

Leave(j) == /\ Collect(j, [step |-> "done"])
            /\ messages' = [messages EXCEPT ![j] = <<>>]

CollectorEnd(j) ==
  /\ collector[j].step = "end"
  /\ IF Unanswered(j) THEN Collect(j, [step |-> "fail"]) /\ UNCHANGED messages
                      ELSE Leave(j)
  /\ UNCHANGED published /\ OnlyCollector

CollectorFail(j) ==
  /\ collector[j].step = "fail"
  /\ Publish(job_id, "failed", FALSE, "no closed result")
  /\ Leave(j)
  /\ OnlyCollector

CollectorStep(j) == CollectorGet(j) \/ CollectorTimeout(j) \/ CollectorPoll(j) \/ CollectorCheck(j)
                    \/ CollectorPublish(j) \/ CollectorEnd(j) \/ CollectorFail(j)

-----------------------------------------------------------------------------
(* start, reset and close                                                  *)

NextJob == 1 + Len(SelectSeq([j \in Jobs |-> job_status[j]], LAMBDA s : s # None))

\* _stop reads the process and the status without the condition.
Request(kind) ==
  /\ op = Free
  /\ op' = IF process = None
           THEN [step |-> kind]
           ELSE [step |-> "close", kind |-> kind, alive |-> Alive(process),
                 terminal |-> status \in Terminal]
  /\ UNCHANGED <<published, process, workers, collector, pauses>>

Start == NextJob <= MaxJobs /\ Request("start")
Reset == job_id # None /\ Request("reset")
Close == process # None /\ Request("free")

\* Mutant: the process tree is not waited for.
CloseTreeDetached ==
  /\ op.step = "close"
  /\ op' = [op EXCEPT !.step = "cancel"]
  /\ UNCHANGED <<published, process, workers, collector, pauses>>

\* The process tree is terminated, and killed when it outlives the join.
CloseTree ==
  /\ op.step = "close"
  /\ IF op.alive /\ Alive(process) THEN Kill(process) ELSE UNCHANGED <<worker, messages>>
  /\ op' = [op EXCEPT !.step = "cancel"]
  /\ UNCHANGED <<published, process, updates, run_event, result, collector, pauses>>

Cancel ==
  /\ op.step = "cancel"
  /\ IF op.alive /\ ~op.terminal
     THEN Publish(job_id, "cancelled", FALSE, "other") ELSE UNCHANGED published
  /\ process' = None
  /\ op' = [step |-> op.kind]
  /\ UNCHANGED <<workers, collector, pauses>>

ResetState ==
  /\ op.step = "reset"
  /\ Publish(None, "idle", FALSE, "other")
  /\ op' = Free
  /\ UNCHANGED <<process, workers, collector, pauses>>

\* The frozen copy of the sources may fail before the job is published.
StartRefused ==
  /\ op.step = "start"
  /\ job_status' = [job_status EXCEPT ![NextJob] = "failed"]
  /\ op' = Free
  /\ UNCHANGED <<job_id, status, paused, message, process, workers, collector, pauses>>

PublishStart ==
  /\ op.step = "start"
  /\ Publish(NextJob, "starting", FALSE, "other")
  /\ op' = [step |-> "spawn"]
  /\ UNCHANGED <<process, workers, collector, pauses>>

SpawnFails ==
  /\ op.step = "spawn"
  /\ Publish(job_id, "failed", paused, "other")
  /\ op' = Free
  /\ UNCHANGED <<process, workers, collector, pauses>>

\* The worker waits for launch_event, set once its collector runs.
Spawn ==
  /\ op.step = "spawn"
  /\ process' = job_id
  /\ Goto(job_id, "running")
  /\ Collect(job_id, [step |-> "get", terminal |-> FALSE])
  /\ op' = Free
  /\ UNCHANGED <<published, updates, run_event, result, messages, pauses>>

-----------------------------------------------------------------------------
(* pause                                                                   *)

\* The event is set or cleared as soon as the process was seen alive; a
\* waiting worker is woken by the set.
PauseRequest ==
  /\ op = Free /\ pauses < MaxPauses
  /\ process # None /\ Alive(process)
  /\ \E wanted \in BOOLEAN :
       /\ run_event' = [run_event EXCEPT ![process] = ~wanted]
       /\ worker' = [worker EXCEPT ![process] =
                       IF @ = "waiting" /\ ~wanted THEN "resumed" ELSE @]
       /\ op' = [step |-> "pause", wanted |-> wanted]
  /\ pauses' = pauses + 1
  /\ UNCHANGED <<published, process, updates, result, messages, collector>>

PausePublish ==
  /\ op.step = "pause"
  /\ Publish(job_id, IF op.wanted THEN "pausing" ELSE "running", op.wanted, "other")
  /\ op' = Free
  /\ UNCHANGED <<process, workers, collector, pauses>>

OpStep == CloseTree \/ Cancel \/ ResetState \/ StartRefused \/ PublishStart \/ SpawnFails
          \/ Spawn \/ PausePublish

Next ==
  \/ Start \/ Reset \/ Close \/ PauseRequest \/ OpStep
  \/ \E j \in Jobs : WorkerStep(j) \/ WorkerCrash(j) \/ CollectorStep(j)

\* Threads and processes are scheduled; clients promise nothing.
Fairness ==
  /\ WF_vars(OpStep)
  /\ \A j \in Jobs : WF_vars(WorkerStep(j)) /\ WF_vars(CollectorStep(j))

Spec == Init /\ [][Next]_vars /\ Fairness

-----------------------------------------------------------------------------
(* Properties                                                              *)

\* "One replaceable worker" (session.py:20): a live worker process is the one
\* the service holds and the one of the published job, whatever is started,
\* reset or closed while it runs.
OneWorker == \A j \in Jobs : Alive(j) => process = j /\ job_id = j

\* The bounded queue of a live worker always has a reader: a collector only
\* leaves its loop when its worker is dead, so no put blocks for ever.
WorkerIsDrained ==
  \A j \in Jobs : Alive(j) => collector[j].step \in {"get", "empty", "check", "publish"}

\* At most one worker, and one that never blocks on its queue.
OneDrainedWorker == OneWorker /\ WorkerIsDrained

\* A directory that reports completion holds a closed successful result: the
\* record a later reader trusts is written before it is announced
\* (service/jobs/nonlinear.py:118-120).
DirectoryReportsOwnJob ==
  \A j \in Jobs : job_status[j] = "completed" => result[j] = "finished"

\* A late "paused" event does not outlive the resume it raced with.
PausedSettles ==
  \A j \in Jobs : (status = "paused" /\ job_id = j /\ run_event[j]) ~> ~(status = "paused" /\ job_id = j)

\* As long as nobody pauses, every published job reaches an end or is replaced,
\* and the collectors of dead workers end and release their queues
\* (LiveSimulationService._collect).
JobSettles ==
  \A j \in Jobs :
    /\ (job_id = j /\ pauses = 0) ~>
         (job_id # j \/ pauses > 0 \/ status \in Terminal \cup {"cancelled"})
    /\ worker[j] \in {"exited", "dead"} ~> collector[j].step = "done"

=============================================================================

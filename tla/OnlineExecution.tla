---------------------------- MODULE OnlineExecution ----------------------------
(***************************************************************************)
(* Finite feedback with a detached planner (scripts/simulation/online):    *)
(* OnlineFiniteExecutor.step runs one released hold of stored feedback and *)
(* may first switch to a plan a separate process prepared for exactly this *)
(* clock.  ProcessPlanningWorker owns that process: one active slot, a     *)
(* shared buffer published by a completed flag, and retired processes that *)
(* are still tearing down.                                                 *)
(*                                                                         *)
(* Wall-clock time passes between any two steps.  The planner is submitted *)
(* to between holds by the owner of the executor.  A plan is named by the  *)
(* request that produced it; 0 is the plan installed at the start.  The    *)
(* admission runtime is FleetAdmission; here it is its clock, its          *)
(* installed plan and its pending decision.                                *)
(***************************************************************************)
EXTENDS Integers, Sequences

CONSTANTS MaxRequests,  \* bound: planning requests submitted
          Widths,       \* exact widths of the scheduled holds
          LastQ,        \* bound: end of the schedule
          MaxNow,       \* bound: wall clock
          None

ASSUME OnlineAssumption ==
  /\ MaxRequests \in Nat /\ LastQ \in Nat /\ MaxNow \in Nat
  /\ Widths \subseteq Nat \ {0}

PlanningRequest == [id : Nat, context : Nat, activation : Nat, width : Nat, deadline : Nat]
HeldDecision == [start : Nat, end : Nat, plan : Nat]

ASSUME NoneAssumption == None \notin PlanningRequest \cup HeldDecision

VARIABLES
  now,             \* monotonic wall clock
  request_count,
  slot,            \* the request of the active slot, or None
  buffer,          \* result bytes in the shared buffer, or None
  completed,       \* the completed flag of the active slot
  child,           \* the process of the active slot
  retired,         \* processes released by poll and still alive
  answered,        \* requests whose worker has set its flag
  at, window, old_plan, candidate,  \* step() in progress and its locals
  gated_ns,        \* wall clock the last activation gate has read
  receipt,         \* wall clocks of dispatch and acknowledgement
  ready,           \* the buffered product
  failed,
  q, active_fallback, pending,      \* the admission runtime
  truth_q,         \* how far the fleet really moved
  journal          \* events the sink has taken

planner == <<request_count, slot, buffer, completed, child, retired, answered>>
locals == <<window, old_plan, candidate, gated_ns, receipt>>
runtime == <<q, active_fallback, pending>>
vars == <<now, planner, at, locals, ready, failed, runtime, truth_q, journal>>

Alive(c) == c \in {"working", "written", "exiting"}

Init ==
  /\ now = 0 /\ request_count = 0
  /\ slot = None /\ buffer = None /\ completed = FALSE /\ child = "none"
  /\ retired = 0 /\ answered = {}
  /\ at = "IDLE" /\ window = None /\ old_plan = 0 /\ candidate = None
  /\ gated_ns = 0 /\ receipt = None
  /\ ready = None /\ failed = FALSE
  /\ q = 0 /\ active_fallback = 0 /\ pending = None
  /\ truth_q = 0 /\ journal = <<>>

Tick ==
  /\ now < MaxNow /\ now' = now + 1
  /\ UNCHANGED <<planner, at, locals, ready, failed, runtime, truth_q, journal>>

-----------------------------------------------------------------------------
(* The planning worker                                                     *)

OnlyPlanner == UNCHANGED <<now, at, locals, ready, failed, runtime, truth_q, journal>>

\* Mutant: a process that is still tearing down is not waited for.
MaySubmitOverRetired == at = "IDLE" /\ ~failed /\ request_count < MaxRequests /\ slot = None

\* One request at a time, and only when the last process is gone.  The owner
\* of a failed executor asks for no more plans.
MaySubmit ==
  /\ at = "IDLE" /\ ~failed /\ request_count < MaxRequests
  /\ retired = 0 /\ slot = None

\* The context is the plan of the snapshot, which may be an old one.
Submit ==
  /\ MaySubmit
  /\ \E activation \in q..LastQ, width \in Widths, deadline \in now..MaxNow,
        context \in {0, active_fallback} :
       slot' = [id |-> request_count + 1, context |-> context, activation |-> activation,
                width |-> width, deadline |-> deadline]
  /\ request_count' = request_count + 1
  /\ buffer' = None /\ completed' = FALSE /\ child' = "working"
  /\ UNCHANGED <<retired, answered>> /\ OnlyPlanner

\* start() raised; a child that exists all the same is kept to be reaped.
SubmitFails ==
  /\ MaySubmit
  /\ request_count' = request_count + 1
  /\ retired' \in {retired, retired + 1}
  /\ UNCHANGED <<slot, buffer, completed, child, answered>> /\ OnlyPlanner

\* _execute: the bytes of a product or of a refusal, or none when not even a
\* refusal fits the buffer.
WriteResult ==
  /\ child = "working"
  /\ child' = "written"
  /\ \/ \E s \in {"READY", "REFUSED", "UNDECODABLE"} : buffer' = [status |-> s, completed_ns |-> now]
     \/ UNCHANGED buffer
  /\ UNCHANGED <<request_count, slot, completed, retired, answered>> /\ OnlyPlanner

SetCompleted ==
  /\ child = "written"
  /\ completed' = TRUE /\ child' = "exiting"
  /\ answered' = answered \cup {slot.id}
  /\ UNCHANGED <<request_count, slot, buffer, retired>> /\ OnlyPlanner

\* The process is gone, by itself or killed from outside.
ChildExits ==
  /\ Alive(child) /\ child' = "gone"
  /\ UNCHANGED <<request_count, slot, buffer, completed, retired, answered>> /\ OnlyPlanner

RetiredExits ==
  /\ retired > 0 /\ retired' = retired - 1
  /\ UNCHANGED <<request_count, slot, buffer, completed, child, answered>> /\ OnlyPlanner

-----------------------------------------------------------------------------
(* step(): release, poll and judge                                         *)

NoLocals == /\ window' = None /\ candidate' = None /\ receipt' = None
            /\ old_plan' = 0 /\ gated_ns' = 0

\* The owner declares a released window at the clock it believes in.
StepCall ==
  /\ at = "IDLE" /\ ~failed
  /\ \E start \in {q, truth_q}, width \in Widths, dispatch \in now..MaxNow :
       \E acknowledgement \in dispatch..MaxNow :
       /\ start + width <= LastQ
       /\ window' = [start |-> start, width |-> width, dispatch |-> dispatch,
                     acknowledgement |-> acknowledgement]
  /\ at' = "RELEASED"
  /\ UNCHANGED <<now, planner, old_plan, candidate, gated_ns, receipt, ready, failed, runtime,
                 truth_q, journal>>

\* A step of the executor that only changes what is named in it.
To(from, to) == at = from /\ at' = to
OnlyLocals == UNCHANGED <<now, planner, ready, failed, runtime, truth_q, journal>>

Observe ==
  /\ To("RELEASED", "POLL") /\ window.start = q
  /\ UNCHANGED locals /\ OnlyLocals

\* Mutant: poll waits for the planner.
PollJoins ==
  /\ \/ slot = None /\ To("POLL", "JUDGE")
     \/ slot # None /\ completed /\ To("POLL", "TAKE")
  /\ UNCHANGED locals /\ OnlyLocals

\* poll reads the flag, then the process, then the flag again, and the
\* planner runs on between the three reads.
PollFlag ==
  /\ \/ slot = None /\ To("POLL", "JUDGE")
     \/ slot # None /\ completed /\ To("POLL", "TAKE")
     \/ slot # None /\ ~completed /\ To("POLL", "POLL_ALIVE")
  /\ UNCHANGED locals /\ OnlyLocals

PollAlive ==
  /\ To("POLL_ALIVE", IF Alive(child) THEN "JUDGE" ELSE "TAKE")
  /\ UNCHANGED locals /\ OnlyLocals

\* Mutant: an empty buffer is taken for a dead worker.
ResultStatusByBuffer == IF buffer = None THEN "WORKER_EXITED" ELSE buffer.status

ResultStatus ==
  IF ~completed THEN "WORKER_EXITED"
  ELSE IF buffer = None THEN "INVALID_RESULT" ELSE buffer.status

\* Whatever the result, the slot is released and a live process is retired.
\* A result that cannot be decoded raises, and the kept product waits.
Take ==
  /\ IF ResultStatus = "UNDECODABLE"
     THEN To("TAKE", "DECIDE") /\ UNCHANGED ready
     ELSE /\ To("TAKE", "JUDGE")
          /\ ready' = [request |-> slot, status |-> ResultStatus,
                       completed_ns |-> IF completed /\ buffer # None THEN buffer.completed_ns ELSE now,
                       received_ns |-> now]
  /\ retired' = IF Alive(child) THEN retired + 1 ELSE retired
  /\ slot' = None /\ buffer' = None /\ completed' = FALSE /\ child' = "none"
  /\ UNCHANGED <<now, request_count, answered, locals, failed, runtime, truth_q, journal>>

Timely(result) ==
  /\ result.completed_ns <= result.request.deadline
  /\ result.received_ns <= result.request.deadline
  /\ now <= result.request.deadline /\ now <= window.dispatch

Usable(result) ==
  /\ result.status = "READY"
  /\ result.request.activation = window.start
  /\ result.request.width = window.width /\ result.request.context = active_fallback
  /\ Timely(result)

\* A product for a later clock stays buffered; any other one is taken out of
\* the buffer, used or not.
Judge ==
  /\ at = "JUDGE"
  /\ IF ready # None /\ Usable(ready)
     THEN at' = "DECODE" /\ candidate' = ready
     ELSE at' = "DECIDE" /\ UNCHANGED candidate
  /\ ready' = IF ready # None /\ ready.status = "READY" /\ ready.request.activation > window.start
              THEN ready ELSE None
  /\ UNCHANGED <<now, planner, window, old_plan, gated_ns, receipt, failed, runtime,
                 truth_q, journal>>

\* The product may still not be a prepared replacement for its request.
Decode ==
  /\ \/ To("DECODE", "ACTIVATE") /\ now <= candidate.request.deadline /\ now <= window.dispatch
     \/ To("DECODE", "DECIDE")
  /\ UNCHANGED locals /\ OnlyLocals

-----------------------------------------------------------------------------
(* step(): activate, decide, move and commit                               *)

\* activate_fleet_replacement admits the plan against its parent, or refuses
\* and changes nothing.
Activate ==
  /\ old_plan' = active_fallback
  /\ \/ /\ To("ACTIVATE", "GATE")
        /\ pending = None /\ candidate.request.context = active_fallback
        /\ active_fallback' = candidate.request.id
     \/ To("ACTIVATE", "DECIDE") /\ UNCHANGED active_fallback
  /\ UNCHANGED <<now, planner, window, candidate, gated_ns, receipt, ready, failed, q, pending,
                 truth_q, journal>>

\* Mutant: the gate only reports that it was late.
GateWithoutRollback ==
  /\ To("GATE", "DECIDE")
  /\ gated_ns' = now
  /\ UNCHANGED <<now, planner, window, old_plan, candidate, receipt, ready, failed, runtime,
                 truth_q, journal>>

\* A slow gate cannot turn a late product into the active policy.
Gate ==
  /\ To("GATE", "DECIDE")
  /\ gated_ns' = now
  /\ IF now > candidate.request.deadline
     THEN active_fallback' = old_plan /\ pending' = None
     ELSE UNCHANGED <<active_fallback, pending>>
  /\ UNCHANGED <<now, planner, window, old_plan, candidate, receipt, ready, failed, q, truth_q,
                 journal>>

Decide ==
  /\ To("DECIDE", "EMIT") /\ pending = None
  /\ pending' = [start |-> q, end |-> q + window.width, plan |-> active_fallback]
  /\ UNCHANGED <<now, planner, locals, ready, failed, q, active_fallback, truth_q, journal>>

\* Mutant: the admitted decision is not emitted.
EmitNothing == To("EMIT", "DISPATCH") /\ UNCHANGED locals /\ OnlyLocals

Emit ==
  /\ To("EMIT", "DISPATCH")
  /\ journal' = Append(journal, [kind |-> "ADMITTED_BEFORE_MOTION", hold |-> pending])
  /\ UNCHANGED <<now, planner, locals, ready, failed, runtime, truth_q>>

\* The dispatch deadline is checked by the executor, and by the adapter after
\* its sensing preflight.
Dispatch ==
  /\ To("DISPATCH", "PREFLIGHT") /\ now <= window.dispatch
  /\ UNCHANGED locals /\ OnlyLocals

Preflight ==
  /\ To("PREFLIGHT", "ACTUATE") /\ now <= window.dispatch
  /\ UNCHANGED locals /\ OnlyLocals

Actuate ==
  /\ To("ACTUATE", "ACKNOWLEDGE")
  /\ truth_q' = pending.end
  /\ receipt' = [dispatched |-> now, acknowledged |-> None]
  /\ UNCHANGED <<now, planner, window, old_plan, candidate, gated_ns, ready, failed, runtime,
                 journal>>

Acknowledge ==
  /\ To("ACKNOWLEDGE", "COMMIT")
  /\ receipt' = [receipt EXCEPT !.acknowledged = now]
  /\ UNCHANGED <<window, old_plan, candidate, gated_ns>> /\ OnlyLocals

TimelyReceipt ==
  receipt.dispatched <= window.dispatch /\ receipt.acknowledged <= window.acknowledgement

\* Motion is committed first and judged on its timing afterwards.
Commit ==
  /\ To("COMMIT", IF TimelyReceipt THEN "EMIT_COMMIT" ELSE "OVERRUN")
  /\ q' = pending.end /\ pending' = None
  /\ UNCHANGED <<now, planner, locals, ready, failed, active_fallback, truth_q, journal>>

EmitCommit ==
  /\ To("EMIT_COMMIT", "IDLE")
  /\ journal' = Append(journal, [kind |-> "COMMITTED", hold |->
                   [start |-> window.start, end |-> q, plan |-> active_fallback]])
  /\ NoLocals
  /\ UNCHANGED <<now, planner, ready, failed, runtime, truth_q>>

\* Where step() itself raises: another clock, a missed dispatch, an overrun.
Raises ==
  \/ at = "RELEASED" /\ window.start # q
  \/ at \in {"DISPATCH", "PREFLIGHT"} /\ now > window.dispatch
  \/ at = "OVERRUN"

\* _failure: every call may raise; the event itself may fail to persist.
Fail ==
  /\ at # "IDLE" /\ at' = "IDLE"
  /\ failed' = TRUE
  /\ journal' \in {journal, Append(journal, [kind |-> "ASSUMPTION_VIOLATION", hold |-> pending])}
  /\ NoLocals
  /\ UNCHANGED <<now, planner, ready, runtime, truth_q>>

Step == \/ Observe \/ PollFlag \/ PollAlive \/ Take \/ Judge \/ Decode \/ Activate \/ Gate
        \/ Decide \/ Emit \/ Dispatch \/ Preflight \/ Actuate \/ Acknowledge \/ Commit
        \/ EmitCommit

Planner == Submit \/ SubmitFails \/ WriteResult \/ SetCompleted \/ ChildExits \/ RetiredExits

Next == Tick \/ Planner \/ StepCall \/ Step \/ Fail

\* The executor is scheduled and its adapters return or raise; nothing is
\* promised of the planner.
Spec == Init /\ [][Next]_vars /\ WF_vars(Step \/ (Raises /\ Fail))

-----------------------------------------------------------------------------
(* Properties                                                              *)

\* However requests fail, die or linger, one process at a time computes for
\* this executor (worker.py:196-202, 253-261).
OneChild == retired + (IF Alive(child) THEN 1 ELSE 0) <= 1

\* A worker that published its result is never reported to have exited
\* without one, even when it exits between the two reads of poll.
AnswerIsNotLost ==
  ready # None /\ ready.status = "WORKER_EXITED" => ready.request.id \notin answered

\* A plan that replaced the installed one moves the fleet only if its product
\* was prepared from that plan, for this very clock and width, and the last
\* look at the clock was before its deadline: "a slow final exact gate cannot
\* turn a late product into an active policy" (execution.py:261-262).
OnlyTimelyPolicyMoves ==
  at \in {"DECIDE", "EMIT", "DISPATCH", "PREFLIGHT", "ACTUATE", "ACKNOWLEDGE", "COMMIT"}
  /\ candidate # None /\ active_fallback = candidate.request.id =>
    /\ candidate.request.activation = window.start /\ window.start = q
    /\ candidate.request.width = window.width
    /\ candidate.request.context = old_plan
    /\ gated_ns <= candidate.request.deadline /\ candidate.completed_ns <= gated_ns

\* Whatever the fleet has moved was emitted as an admitted hold of the plan in
\* force, before it moved.
MotionWasEmitted ==
  /\ \A t \in 0..truth_q - 1 : \E i \in 1..Len(journal) :
       /\ journal[i].kind = "ADMITTED_BEFORE_MOTION"
       /\ journal[i].hold.start <= t /\ t < journal[i].hold.end
  /\ pending # None => pending.plan = active_fallback

\* Between steps of an executor that has not failed, the fleet, the runtime
\* and the committed events stand at the same clock; a failure leaves at most
\* the one admitted hold uncommitted.
OneHoldUncommitted ==
  /\ at = "IDLE" /\ ~failed =>
       /\ truth_q = q /\ pending = None
       /\ q > 0 => \E i \in 1..Len(journal) : journal[i].kind = "COMMITTED" /\ journal[i].hold.end = q
  /\ truth_q # q => pending # None /\ pending.start = q /\ truth_q = pending.end

\* The emitted events and the committed clock account for all motion.
MotionIsAccounted == MotionWasEmitted /\ OneHoldUncommitted

\* However late, lost or dead a planner is, it costs no second process, no
\* published answer, and no motion of the fleet that was not admitted in time.
PlanningIsHarmless == OneChild /\ AnswerIsNotLost /\ OnlyTimelyPolicyMoves /\ MotionIsAccounted

\* "Planning is never joined or awaited here" (execution.py:227): a step
\* returns or raises whatever the planner does.
StepReturns == at # "IDLE" ~> at = "IDLE"

=============================================================================

------------------------ MODULE OnlineExecutionProofs ------------------------
(***************************************************************************)
(* What a detached planner cannot do to the fleet, for every schedule of   *)
(* widths and every bound.  The checked properties are not inductive by    *)
(* themselves: the invariant adds who owns which request number, what the  *)
(* locals of step() hold at each of its program points, and where the      *)
(* fleet, the runtime and the journal stand there.                         *)
(***************************************************************************)
EXTENDS OnlineExecution, SequenceTheorems, TLAPS

BeforeJudge == {"RELEASED", "POLL", "POLL_ALIVE", "TAKE", "JUDGE"}
Judged == {"DECODE", "ACTIVATE", "GATE"}
Holding == {"EMIT", "DISPATCH", "PREFLIGHT", "ACTUATE", "ACKNOWLEDGE", "COMMIT"}
Committed == {"OVERRUN", "EMIT_COMMIT"}
Points == {"IDLE", "DECIDE"} \cup BeforeJudge \cup Judged \cup Holding \cup Committed

Window == [start : Nat, width : Nat, dispatch : Nat, acknowledgement : Nat]
Result == [status : {"READY", "REFUSED", "UNDECODABLE"}, completed_ns : Nat]
Product ==
  [request : PlanningRequest, status : {"READY", "REFUSED", "WORKER_EXITED", "INVALID_RESULT"},
   completed_ns : Nat, received_ns : Nat]
Event ==
  [kind : {"ADMITTED_BEFORE_MOTION", "COMMITTED", "ASSUMPTION_VIOLATION"},
   hold : HeldDecision \cup {None}]

TypeOK ==
  /\ now \in Nat /\ request_count \in Nat
  /\ slot \in PlanningRequest \cup {None}
  /\ buffer \in Result \cup {None} /\ completed \in BOOLEAN
  /\ child \in {"none", "working", "written", "exiting", "gone"}
  /\ retired \in Nat /\ answered \subseteq Nat
  /\ at \in Points
  /\ at # "IDLE" => window \in Window
  /\ old_plan \in Nat /\ candidate \in Product \cup {None} /\ gated_ns \in Nat
  /\ ready \in Product \cup {None} /\ failed \in BOOLEAN
  /\ q \in Nat /\ active_fallback \in Nat /\ pending \in HeldDecision \cup {None}
  /\ truth_q \in Nat /\ journal \in Seq(Event)

\* The slot holds the last request; it is alone in that until poll takes it.
Worker ==
  /\ slot = None => child = "none"
  /\ slot # None => slot.id = request_count
  /\ slot # None /\ ~completed => slot.id \notin answered
  /\ \A id \in answered : id <= request_count
  /\ at \in {"POLL_ALIVE", "TAKE"} => slot # None

\* Requests are numbered in order: no plan in force or in hand carries the
\* number of the request in the slot, none in hand that of the plan in force.
Numbering ==
  /\ active_fallback <= request_count /\ old_plan <= request_count
  /\ slot # None => active_fallback < slot.id /\ old_plan < slot.id
  /\ ready # None =>
       /\ active_fallback < ready.request.id /\ ready.request.id <= request_count
       /\ slot # None => ready.request.id < slot.id
  /\ candidate # None =>
       /\ candidate.request.id <= request_count
       /\ slot # None => candidate.request.id < slot.id

\* No product was completed in the future.
CompletedBefore ==
  /\ buffer # None => buffer.completed_ns <= now
  /\ ready # None => ready.completed_ns <= now
  /\ candidate # None => candidate.completed_ns <= now

\* The candidate judged usable is the one product step() has in hand.
CandidateMatches ==
  /\ at \in BeforeJudge \cup {"IDLE"} => candidate = None
  /\ candidate # None => ready = None
  /\ at \in Judged =>
       /\ candidate # None
       /\ candidate.request.activation = window.start
       /\ candidate.request.width = window.width
  /\ at \in {"DECODE", "ACTIVATE"} =>
       candidate.request.context = active_fallback /\ active_fallback < candidate.request.id
  /\ at = "GATE" =>
       candidate.request.context = old_plan /\ old_plan < candidate.request.id

\* Where the executor, the runtime, the fleet and the journal stand.
Standing ==
  /\ at # "IDLE" => ~failed
  /\ ~failed /\ at \notin Holding => pending = None
  /\ at \in Holding =>
       pending = [start |-> q, end |-> q + window.width, plan |-> active_fallback]
  /\ at \in (BeforeJudge \ {"RELEASED"}) \cup Judged \cup {"DECIDE"} \cup Holding => window.start = q
  /\ ~failed => truth_q = IF at \in {"ACKNOWLEDGE", "COMMIT"} THEN pending.end ELSE q
  /\ at \in Holding \ {"EMIT"} =>
       \E i \in 1..Len(journal) : journal[i] = [kind |-> "ADMITTED_BEFORE_MOTION", hold |-> pending]
  /\ ~failed /\ at \notin Committed /\ q > 0 =>
       \E i \in 1..Len(journal) : journal[i].kind = "COMMITTED" /\ journal[i].hold.end = q

Inv ==
  /\ TypeOK /\ Worker /\ Numbering /\ CompletedBefore /\ CandidateMatches /\ Standing
  /\ PlanningIsHarmless


-----------------------------------------------------------------------------
(* Helpers                                                                 *)

\* Appended events leave the earlier ones where they are.
LEMMA AppendKeeps ==
  ASSUME NEW s \in Seq(Event), NEW e \in Event
  PROVE  /\ Append(s, e) \in Seq(Event) /\ Len(Append(s, e)) = Len(s) + 1
         /\ Len(s) \in Nat
         /\ \A i \in 1..Len(s) : i \in 1..Len(s)+1 /\ Append(s, e)[i] = s[i]
         /\ Len(s) + 1 \in 1..Len(s)+1 /\ Append(s, e)[Len(s) + 1] = e
  <1>1. Len(s) \in Nat
    BY LenProperties
  <1>2. /\ Append(s, e) \in Seq(Event) /\ Len(Append(s, e)) = Len(s) + 1
        /\ \A i \in 1..Len(s) : Append(s, e)[i] = s[i]
        /\ Append(s, e)[Len(s) + 1] = e
    BY AppendProperties
  <1>. QED
    BY <1>1, <1>2

\* A process that is not alive adds none to the retired ones.
LEMMA NoneAdded == \A n \in Nat : n <= 1 => n + 0 <= 1
  OBVIOUS

\* The records of the module are told apart from None.
LEMMA RecordsAreSome ==
  /\ \A r \in PlanningRequest : r # None
  /\ \A d \in HeldDecision : d # None
  BY NoneAssumption

LEMMA InitInv == Init => Inv
  <1>. SUFFICES ASSUME Init PROVE Inv
    OBVIOUS
  <1>0. <<>> \in Seq(Event)
    BY EmptySeq
  <1>1. TypeOK
    BY <1>0 DEF Init, TypeOK, Points
  <1>2. Worker /\ Numbering /\ CompletedBefore /\ CandidateMatches
    BY DEF Init, Worker, Numbering, CompletedBefore, CandidateMatches, Judged
  <1>3. Standing
    BY DEF Init, Standing, BeforeJudge, Judged, Holding, Committed
  <1>4. PlanningIsHarmless
    BY DEF Init, PlanningIsHarmless, OneChild, Alive, AnswerIsNotLost, OnlyTimelyPolicyMoves,
           MotionIsAccounted, MotionWasEmitted, OneHoldUncommitted
  <1>. QED
    BY <1>1, <1>2, <1>3, <1>4 DEF Inv

-----------------------------------------------------------------------------
(* The planning worker: nothing of the executor changes                    *)

\* What the executor alone decides is as it was.
LEMMA PlannerLeavesExecutor ==
  ASSUME Inv, OnlyPlanner
  PROVE  /\ CandidateMatches' /\ Standing'
         /\ OnlyTimelyPolicyMoves' /\ MotionIsAccounted'
  <1>1. CandidateMatches'
    BY DEF Inv, OnlyPlanner, CandidateMatches, locals, runtime
  <1>2. Standing'
    BY DEF Inv, OnlyPlanner, Standing, locals, runtime
  <1>3. OnlyTimelyPolicyMoves'
    BY DEF Inv, PlanningIsHarmless, OnlyPlanner, OnlyTimelyPolicyMoves, locals, runtime
  <1>4. MotionIsAccounted'
    BY DEF Inv, PlanningIsHarmless, OnlyPlanner, MotionIsAccounted, MotionWasEmitted,
           OneHoldUncommitted, runtime
  <1>. QED
    BY <1>1, <1>2, <1>3, <1>4

LEMMA SubmitInv == Inv /\ (Submit \/ SubmitFails) => Inv'
  <1>. SUFFICES ASSUME Inv, Submit \/ SubmitFails PROVE Inv'
    OBVIOUS
  <1>1. /\ at = "IDLE" /\ retired = 0 /\ slot = None /\ child = "none"
        /\ request_count \in Nat /\ request_count' = request_count + 1
        /\ UNCHANGED answered /\ OnlyPlanner
    BY DEF Submit, SubmitFails, MaySubmit, Inv, TypeOK, Worker
  <1>2. \/ /\ slot' \in PlanningRequest /\ slot'.id = request_count + 1
           /\ buffer' = None /\ completed' = FALSE /\ child' = "working" /\ retired' = retired
        \/ UNCHANGED <<slot, buffer, completed, child>> /\ retired' \in {retired, retired + 1}
    <2>1. CASE Submit
      <3>1. PICK activation \in q..LastQ, width \in Widths, deadline \in now..MaxNow,
                 context \in {0, active_fallback} :
              slot' = [id |-> request_count + 1, context |-> context, activation |-> activation,
                       width |-> width, deadline |-> deadline]
        BY <2>1 DEF Submit
      <3>2. /\ activation \in Nat /\ width \in Nat /\ deadline \in Nat /\ context \in Nat
            /\ request_count + 1 \in Nat
        BY OnlineAssumption DEF Inv, TypeOK
      <3>3. slot' \in PlanningRequest /\ slot'.id = request_count + 1
        BY <3>1, <3>2 DEF PlanningRequest
      <3>. QED
        BY <2>1, <3>3 DEF Submit
    <2>2. CASE SubmitFails
      BY <2>2 DEF SubmitFails
    <2>. QED
      BY <2>1, <2>2
  <1>3. TypeOK'
    <2>1. /\ request_count' \in Nat /\ retired' \in Nat /\ answered' \subseteq Nat
          /\ slot' \in PlanningRequest \cup {None} /\ buffer' \in Result \cup {None}
          /\ child' \in {"none", "working", "written", "exiting", "gone"}
      BY <1>1, <1>2 DEF Inv, TypeOK
    <2>2. completed' \in BOOLEAN
      BY <1>2 DEF Inv, TypeOK
    <2>. QED
      BY <1>1, <2>1, <2>2 DEF Inv, TypeOK, OnlyPlanner, locals, runtime
  <1>4. Worker'
    BY <1>1, <1>2, RecordsAreSome DEF Inv, TypeOK, Worker, OnlyPlanner
  <1>5. Numbering'
    <2>1. /\ active_fallback \in Nat /\ old_plan \in Nat
          /\ ready # None => ready.request.id \in Nat
          /\ candidate # None => candidate.request.id \in Nat
      BY DEF Inv, TypeOK, Product, PlanningRequest
    <2>2. UNCHANGED <<active_fallback, old_plan, ready, candidate>>
      BY <1>1 DEF OnlyPlanner, locals, runtime
    <2>3. slot' # None => slot'.id = request_count + 1
      BY <1>1, <1>2
    <2>. QED
      BY <1>1, <2>1, <2>2, <2>3 DEF Inv, Numbering
  <1>6. CompletedBefore'
    BY <1>1, <1>2 DEF Inv, CompletedBefore, OnlyPlanner, locals
  <1>7. OneChild'
    BY <1>1, <1>2 DEF OneChild, Alive
  <1>8. AnswerIsNotLost'
    BY <1>1 DEF Inv, PlanningIsHarmless, AnswerIsNotLost, OnlyPlanner
  <1>. QED
    BY <1>1, <1>3, <1>4, <1>5, <1>6, <1>7, <1>8, PlannerLeavesExecutor DEF Inv, PlanningIsHarmless

\* What the process does by itself: write, answer, exit.
LEMMA ProcessInv ==
  Inv /\ (WriteResult \/ SetCompleted \/ ChildExits \/ RetiredExits) => Inv'
  <1>. SUFFICES ASSUME Inv, WriteResult \/ SetCompleted \/ ChildExits \/ RetiredExits PROVE Inv'
    OBVIOUS
  <1>1. OnlyPlanner /\ UNCHANGED <<request_count, slot>>
    BY DEF WriteResult, SetCompleted, ChildExits, RetiredExits
  <1>2. UNCHANGED <<now, at, old_plan, candidate, gated_ns, window, ready, failed, q,
                    active_fallback, pending, truth_q, journal>>
    BY <1>1 DEF OnlyPlanner, locals, runtime
  <1>3. buffer' \in Result \cup {None} /\ (buffer' # None => buffer'.completed_ns <= now)
    <2>1. ASSUME NEW s \in {"READY", "REFUSED", "UNDECODABLE"},
                 buffer' = [status |-> s, completed_ns |-> now]
          PROVE  buffer' \in Result /\ buffer'.completed_ns <= now
      BY <2>1 DEF Inv, TypeOK, Result
    <2>2. \/ \E s \in {"READY", "REFUSED", "UNDECODABLE"} :
               buffer' = [status |-> s, completed_ns |-> now]
          \/ UNCHANGED buffer
      BY DEF WriteResult, SetCompleted, ChildExits, RetiredExits
    <2>. QED
      BY <2>1, <2>2 DEF Inv, TypeOK, CompletedBefore
  <1>4. /\ child' \in {"written", "exiting", "gone", child}
        /\ child = "none" => child' = "none"
        /\ Alive(child') => Alive(child)
        /\ retired' \in Nat /\ retired' <= retired
    BY DEF WriteResult, SetCompleted, ChildExits, RetiredExits, Alive, Inv, TypeOK
  <1>5. \/ UNCHANGED <<completed, answered>>
        \/ slot # None /\ completed' = TRUE /\ answered' = answered \cup {slot.id}
    BY DEF WriteResult, SetCompleted, ChildExits, RetiredExits, Inv, Worker
  <1>6. slot # None => slot.id \in Nat
    BY DEF Inv, TypeOK, PlanningRequest
  <1>7. TypeOK'
    BY <1>1, <1>2, <1>3, <1>4, <1>5, <1>6 DEF Inv, TypeOK
  <1>8. Worker'
    <2>1. CASE UNCHANGED <<completed, answered>>
      BY <1>1, <1>2, <1>4, <2>1 DEF Inv, Worker
    <2>2. CASE slot # None /\ completed' = TRUE /\ answered' = answered \cup {slot.id}
      <3>1. \A id \in answered' : id <= request_count'
        BY <1>1, <1>6, <2>2 DEF Inv, Worker
      <3>. QED
        BY <1>1, <1>2, <2>2, <3>1 DEF Inv, Worker
    <2>. QED
      BY <1>5, <2>1, <2>2
  <1>9. Numbering'
    BY <1>1, <1>2 DEF Inv, Numbering
  <1>10. CompletedBefore'
    BY <1>2, <1>3 DEF Inv, CompletedBefore
  <1>11. OneChild'
    <2>1. retired \in Nat /\ retired + (IF Alive(child) THEN 1 ELSE 0) <= 1
      BY DEF Inv, TypeOK, PlanningIsHarmless, OneChild
    <2>2. CASE child' \in {"working", "written", "exiting"}
      <3>1. retired' = 0
        BY <1>4, <2>1, <2>2 DEF Alive
      <3>. QED
        BY <2>2, <3>1 DEF OneChild, Alive
    <2>3. CASE child' \notin {"working", "written", "exiting"}
      <3>1. retired <= 1
        BY <2>1
      <3>2. retired' \in Nat /\ retired' <= 1
        BY <1>4, <2>1, <3>1
      <3>3. ~Alive(child')
        BY <2>3 DEF Alive
      <3>. QED
        BY <3>2, <3>3, NoneAdded, Zenon DEF OneChild
    <2>. QED
      BY <2>2, <2>3
  <1>12. AnswerIsNotLost'
    <2>1. ready # None /\ slot # None => ready.request.id # slot.id
      <3>1. ready # None => ready.request.id \in Nat
        BY DEF Inv, TypeOK, Product, PlanningRequest
      <3>. QED
        BY <1>6, <3>1 DEF Inv, Numbering
    <2>. QED
      BY <1>2, <1>5, <2>1 DEF Inv, PlanningIsHarmless, AnswerIsNotLost
  <1>. QED
    BY <1>1, <1>7, <1>8, <1>9, <1>10, <1>11, <1>12, PlannerLeavesExecutor
    DEF Inv, PlanningIsHarmless

-----------------------------------------------------------------------------
(* step(): release, poll and judge                                         *)

\* What a step that only moves on leaves alone.
LEMMA LocalsLeavePlanner ==
  ASSUME Inv, OnlyLocals, UNCHANGED <<old_plan, candidate, gated_ns>>
  PROVE  /\ Numbering' /\ CompletedBefore' /\ OneChild' /\ AnswerIsNotLost' /\ MotionWasEmitted'
         /\ (truth_q # q => pending # None /\ pending.start = q /\ truth_q = pending.end)'
  <1>1. Numbering' /\ CompletedBefore'
    BY DEF Inv, OnlyLocals, planner, runtime, Numbering, CompletedBefore
  <1>2. OneChild'
    BY DEF Inv, PlanningIsHarmless, OnlyLocals, planner, OneChild
  <1>3. AnswerIsNotLost'
    BY DEF Inv, PlanningIsHarmless, OnlyLocals, planner, AnswerIsNotLost
  <1>4. MotionWasEmitted'
    BY DEF Inv, PlanningIsHarmless, MotionIsAccounted, OnlyLocals, runtime, MotionWasEmitted
  <1>5. (truth_q # q => pending # None /\ pending.start = q /\ truth_q = pending.end)'
    BY DEF Inv, PlanningIsHarmless, MotionIsAccounted, OneHoldUncommitted, OnlyLocals, runtime
  <1>. QED
    BY <1>1, <1>2, <1>3, <1>4, <1>5

LEMMA StepCallInv == Inv /\ StepCall => Inv'
  <1>. SUFFICES ASSUME Inv, StepCall PROVE Inv'
    OBVIOUS
  <1>1. PICK start \in {q, truth_q}, width \in Widths, dispatch \in now..MaxNow :
          \E acknowledgement \in dispatch..MaxNow :
            window' = [start |-> start, width |-> width, dispatch |-> dispatch,
                       acknowledgement |-> acknowledgement]
    BY DEF StepCall
  <1>2. PICK acknowledgement \in dispatch..MaxNow :
          window' = [start |-> start, width |-> width, dispatch |-> dispatch,
                     acknowledgement |-> acknowledgement]
    BY <1>1
  <1>3. start \in Nat /\ width \in Nat /\ dispatch \in Nat
    BY OnlineAssumption DEF Inv, TypeOK
  <1>4. acknowledgement \in Nat
    BY <1>3, OnlineAssumption
  <1>5. window' \in Window
    BY <1>2, <1>3, <1>4 DEF Window
  <1>6. /\ at = "IDLE" /\ at' = "RELEASED" /\ ~failed
        /\ OnlyLocals /\ UNCHANGED <<old_plan, candidate, gated_ns>>
    BY DEF StepCall, OnlyLocals
  <1>7. TypeOK'
    BY <1>5, <1>6 DEF Inv, TypeOK, OnlyLocals, planner, runtime, Points, BeforeJudge
  <1>8. Worker'
    BY <1>6 DEF Inv, OnlyLocals, planner, Worker
  <1>9. CandidateMatches'
    BY <1>6 DEF Inv, OnlyLocals, runtime, CandidateMatches, BeforeJudge, Judged
  <1>10. Standing'
    BY <1>6 DEF Inv, OnlyLocals, runtime, Standing, BeforeJudge, Judged, Holding, Committed
  <1>11. OnlyTimelyPolicyMoves' /\ (at = "IDLE" => FALSE)'
    BY <1>6 DEF OnlyTimelyPolicyMoves
  <1>. QED
    BY <1>6, <1>7, <1>8, <1>9, <1>10, <1>11, LocalsLeavePlanner
    DEF Inv, PlanningIsHarmless, MotionIsAccounted, OneHoldUncommitted

\* Release and poll only look: neither the runtime nor the fleet changes.
LEMMA PollInv == Inv /\ (Observe \/ PollFlag \/ PollAlive) => Inv'
  <1>. SUFFICES ASSUME Inv, Observe \/ PollFlag \/ PollAlive PROVE Inv'
    OBVIOUS
  <1>1. /\ at \in {"RELEASED", "POLL", "POLL_ALIVE"}
        /\ at' \in {"POLL", "POLL_ALIVE", "TAKE", "JUDGE"}
        /\ UNCHANGED <<window, old_plan, candidate, gated_ns>> /\ OnlyLocals
    BY DEF Observe, PollFlag, PollAlive, To, locals
  <1>2. at' \in {"POLL_ALIVE", "TAKE"} => slot # None
    BY DEF Observe, PollFlag, PollAlive, To, Inv, Worker
  <1>3. window.start = q
    BY DEF Observe, PollFlag, PollAlive, To, Inv, Standing, BeforeJudge
  <1>4. TypeOK'
    BY <1>1 DEF Inv, TypeOK, OnlyLocals, planner, runtime, Points, BeforeJudge
  <1>5. Worker'
    BY <1>1, <1>2 DEF Inv, OnlyLocals, planner, Worker
  <1>6. CandidateMatches'
    BY <1>1 DEF Inv, OnlyLocals, runtime, CandidateMatches, BeforeJudge, Judged
  <1>7. Standing'
    BY <1>1, <1>3 DEF Inv, OnlyLocals, runtime, Standing, BeforeJudge, Judged, Holding, Committed
  <1>8. OnlyTimelyPolicyMoves' /\ (at = "IDLE" => FALSE)'
    BY <1>1 DEF OnlyTimelyPolicyMoves
  <1>. QED
    BY <1>1, <1>4, <1>5, <1>6, <1>7, <1>8, LocalsLeavePlanner
    DEF Inv, PlanningIsHarmless, MotionIsAccounted, OneHoldUncommitted

\* A product enters the buffer with the number of its request, and with the
\* answer the worker gave before poll took it.
LEMMA TakeInv == Inv /\ Take => Inv'
  <1>. SUFFICES ASSUME Inv, Take PROVE Inv'
    OBVIOUS
  <1>1. /\ at = "TAKE" /\ at' \in {"DECIDE", "JUDGE"}
        /\ slot # None /\ slot' = None /\ buffer' = None /\ completed' = FALSE /\ child' = "none"
        /\ UNCHANGED <<now, request_count, answered, window, old_plan, candidate, gated_ns, failed,
                       q, active_fallback, pending, truth_q, journal>>
    BY DEF Take, To, locals, runtime, Inv, Worker
  <1>2. slot \in PlanningRequest /\ slot.id \in Nat
    BY <1>1 DEF Inv, TypeOK, PlanningRequest
  <1>3. \/ ready' = ready
        \/ /\ ready' \in Product /\ ready'.request = slot
           /\ ready'.completed_ns <= now
           /\ ready'.status = "WORKER_EXITED" => ~completed
    <2> DEFINE at_ns == IF completed /\ buffer # None THEN buffer.completed_ns ELSE now
    <2>1. CASE ResultStatus = "UNDECODABLE"
      BY <2>1 DEF Take
    <2>2. CASE ResultStatus # "UNDECODABLE"
      <3>1. ready' = [request |-> slot, status |-> ResultStatus, completed_ns |-> at_ns,
                      received_ns |-> now]
        BY <2>2 DEF Take
      <3>2. /\ ResultStatus \in {"READY", "REFUSED", "WORKER_EXITED", "INVALID_RESULT"}
            /\ ResultStatus = "WORKER_EXITED" => ~completed
        BY <2>2 DEF ResultStatus, Inv, TypeOK, Result
      <3>3. at_ns \in Nat /\ at_ns <= now /\ now \in Nat
        BY DEF Inv, TypeOK, CompletedBefore, Result
      <3>. HIDE DEF at_ns
      <3>4. ready' \in Product
        BY <1>2, <3>1, <3>2, <3>3 DEF Product
      <3>5. /\ ready'.request = slot /\ ready'.completed_ns = at_ns
            /\ ready'.status = ResultStatus
        BY <3>1
      <3>. QED
        BY <3>2, <3>3, <3>4, <3>5
    <2>. QED
      BY <2>1, <2>2
  <1>4. retired' \in Nat /\ OneChild'
    <2>1. retired \in Nat /\ retired + (IF Alive(child) THEN 1 ELSE 0) <= 1
      BY DEF Inv, TypeOK, PlanningIsHarmless, OneChild
    <2>2. retired' = IF Alive(child) THEN retired + 1 ELSE retired
      BY DEF Take
    <2>3. retired' \in Nat /\ retired' <= 1
      <3>1. CASE Alive(child)
        BY <2>1, <2>2, <3>1
      <3>2. CASE ~Alive(child)
        <4>1. retired <= 1 /\ retired' = retired
          BY <2>1, <2>2, <3>2
        <4>. QED
          BY <2>1, <4>1
      <3>. QED
        BY <3>1, <3>2
    <2>4. ~Alive(child')
      BY <1>1 DEF Alive
    <2>. QED
      BY <2>3, <2>4, NoneAdded, Zenon DEF OneChild
  <1>5. TypeOK'
    BY <1>1, <1>3, <1>4 DEF Inv, TypeOK, Points, BeforeJudge
  <1>6. Worker'
    BY <1>1 DEF Inv, Worker
  <1>7. Numbering'
    <2>1. active_fallback < slot.id /\ slot.id <= request_count
      BY <1>1, <1>2 DEF Inv, TypeOK, Worker, Numbering
    <2>2. /\ UNCHANGED <<active_fallback, old_plan, request_count, candidate>> /\ slot' = None
          /\ ready' = ready \/ ready'.request = slot
      BY <1>1, <1>3
    <2>. QED
      BY <2>1, <2>2 DEF Inv, Numbering
  <1>8. CompletedBefore'
    BY <1>1, <1>3 DEF Inv, CompletedBefore
  <1>9. CandidateMatches'
    BY <1>1 DEF Inv, CandidateMatches, BeforeJudge, Judged
  <1>10. Standing'
    BY <1>1 DEF Inv, Standing, BeforeJudge, Judged, Holding, Committed
  <1>11. AnswerIsNotLost'
    BY <1>1, <1>3 DEF Inv, PlanningIsHarmless, AnswerIsNotLost, Worker
  <1>12. OnlyTimelyPolicyMoves'
    BY <1>1 DEF OnlyTimelyPolicyMoves, Inv, CandidateMatches, BeforeJudge
  <1>13. MotionIsAccounted'
    BY <1>1 DEF Inv, PlanningIsHarmless, MotionIsAccounted, MotionWasEmitted, OneHoldUncommitted
  <1>. QED
    BY <1>4, <1>5, <1>6, <1>7, <1>8, <1>9, <1>10, <1>11, <1>12, <1>13 DEF Inv, PlanningIsHarmless

\* The product judged usable leaves the buffer: it cannot be used twice.
LEMMA JudgeInv == Inv /\ Judge => Inv'
  <1>. SUFFICES ASSUME Inv, Judge PROVE Inv'
    OBVIOUS
  <1>1. /\ at = "JUDGE" /\ at' \in {"DECODE", "DECIDE"}
        /\ UNCHANGED <<now, request_count, slot, buffer, completed, child, retired, answered,
                       window, old_plan, gated_ns, failed, q, active_fallback, pending, truth_q,
                       journal>>
    BY DEF Judge, planner, runtime
  <1>2. candidate = None
    BY <1>1 DEF Inv, CandidateMatches, BeforeJudge
  <1>3. ready' \in {ready, None}
    BY DEF Judge
  <1>4. \/ /\ at' = "DECODE" /\ candidate' = ready /\ ready # None /\ Usable(ready)
           /\ ready' = None
        \/ at' = "DECIDE" /\ candidate' = None
    <2>1. CASE ready # None /\ Usable(ready)
      <3>1. ready.request.activation = window.start /\ window.start = q /\ q \in Nat
        BY <1>1, <2>1 DEF Usable, Inv, Standing, BeforeJudge, TypeOK
      <3>2. ~(ready.request.activation > window.start)
        BY <3>1
      <3>. QED
        BY <2>1, <3>2 DEF Judge
    <2>2. CASE ~(ready # None /\ Usable(ready))
      BY <1>2, <2>2 DEF Judge
    <2>. QED
      BY <2>1, <2>2
  <1>5. TypeOK'
    BY <1>1, <1>3, <1>4 DEF Inv, TypeOK, Points, Judged
  <1>6. Worker'
    BY <1>1 DEF Inv, Worker
  <1>7. Numbering'
    BY <1>1, <1>3, <1>4 DEF Inv, Numbering
  <1>8. CompletedBefore'
    BY <1>1, <1>3, <1>4 DEF Inv, CompletedBefore
  <1>9. CandidateMatches'
    <2>1. CASE at' = "DECIDE"
      BY <1>4, <2>1 DEF CandidateMatches, BeforeJudge, Judged
    <2>2. CASE at' = "DECODE"
      <3>1. candidate' = ready /\ ready # None /\ Usable(ready) /\ ready' = None
        BY <1>4, <2>2
      <3>2. active_fallback < ready.request.id
        BY <3>1 DEF Inv, Numbering
      <3>. QED
        BY <1>1, <2>2, <3>1, <3>2 DEF CandidateMatches, Usable, BeforeJudge, Judged
    <2>. QED
      BY <1>1, <2>1, <2>2
  <1>10. Standing'
    BY <1>1 DEF Inv, Standing, BeforeJudge, Judged, Holding, Committed
  <1>11. OneChild' /\ AnswerIsNotLost'
    BY <1>1, <1>3 DEF Inv, PlanningIsHarmless, OneChild, AnswerIsNotLost
  <1>12. OnlyTimelyPolicyMoves'
    BY <1>1, <1>4 DEF OnlyTimelyPolicyMoves
  <1>13. MotionIsAccounted'
    BY <1>1 DEF Inv, PlanningIsHarmless, MotionIsAccounted, MotionWasEmitted, OneHoldUncommitted
  <1>. QED
    BY <1>5, <1>6, <1>7, <1>8, <1>9, <1>10, <1>11, <1>12, <1>13 DEF Inv, PlanningIsHarmless

\* A product that cannot be decoded has changed nothing.
LEMMA DecodeInv == Inv /\ Decode => Inv'
  <1>. SUFFICES ASSUME Inv, Decode PROVE Inv'
    OBVIOUS
  <1>1. /\ at = "DECODE" /\ at' \in {"ACTIVATE", "DECIDE"}
        /\ UNCHANGED <<window, old_plan, candidate, gated_ns>> /\ OnlyLocals
    BY DEF Decode, To, locals
  <1>2. active_fallback < candidate.request.id
    BY <1>1 DEF Inv, CandidateMatches
  <1>3. TypeOK'
    BY <1>1 DEF Inv, TypeOK, OnlyLocals, planner, runtime, Points, Judged
  <1>4. Worker'
    BY <1>1 DEF Inv, OnlyLocals, planner, Worker
  <1>5. CandidateMatches'
    BY <1>1 DEF Inv, OnlyLocals, runtime, CandidateMatches, BeforeJudge, Judged
  <1>6. Standing'
    BY <1>1 DEF Inv, OnlyLocals, runtime, Standing, BeforeJudge, Judged, Holding, Committed
  <1>7. active_fallback' # candidate'.request.id
    <2>1. active_fallback \in Nat /\ (candidate # None => candidate.request.id \in Nat)
      BY DEF Inv, TypeOK, Product, PlanningRequest
    <2>2. active_fallback # candidate.request.id
      BY <1>1, <1>2, <2>1 DEF Inv, CandidateMatches, Judged
    <2>. QED
      BY <1>1, <2>2 DEF OnlyLocals, runtime
  <1>8. OnlyTimelyPolicyMoves' /\ (at = "IDLE" => FALSE)'
    BY <1>1, <1>7 DEF OnlyTimelyPolicyMoves
  <1>. QED
    BY <1>1, <1>3, <1>4, <1>5, <1>6, <1>8, LocalsLeavePlanner
    DEF Inv, PlanningIsHarmless, MotionIsAccounted, OneHoldUncommitted

-----------------------------------------------------------------------------
(* step(): activate and gate                                               *)

\* What the activation and its gate leave alone.
LEMMA SwitchLeaves ==
  ASSUME Inv, UNCHANGED <<now, planner, window, candidate, ready, failed, q, truth_q, journal>>,
         pending = None, pending' = None
  PROVE  /\ CompletedBefore' /\ OneChild' /\ AnswerIsNotLost' /\ MotionWasEmitted'
         /\ (truth_q # q => pending # None /\ pending.start = q /\ truth_q = pending.end)'
  <1>1. CompletedBefore' /\ OneChild' /\ AnswerIsNotLost'
    BY DEF Inv, PlanningIsHarmless, CompletedBefore, OneChild, AnswerIsNotLost, planner
  <1>2. MotionWasEmitted'
    BY DEF Inv, PlanningIsHarmless, MotionIsAccounted, MotionWasEmitted
  <1>3. (truth_q # q => pending # None /\ pending.start = q /\ truth_q = pending.end)'
    BY DEF Inv, PlanningIsHarmless, MotionIsAccounted, OneHoldUncommitted
  <1>. QED
    BY <1>1, <1>2, <1>3

\* An activation puts the request's own plan in force and remembers its parent.
LEMMA ActivateInv == Inv /\ Activate => Inv'
  <1>. SUFFICES ASSUME Inv, Activate PROVE Inv'
    OBVIOUS
  <1>1. /\ at = "ACTIVATE" /\ at' \in {"GATE", "DECIDE"} /\ old_plan' = active_fallback
        /\ UNCHANGED <<now, planner, window, candidate, gated_ns, ready, failed, q, pending,
                       truth_q, journal>>
        /\ at' = "GATE" => active_fallback' = candidate.request.id
        /\ at' = "DECIDE" => active_fallback' = active_fallback
    BY DEF Activate, To
  <1>2. /\ pending = None /\ candidate # None /\ ready = None /\ window.start = q
        /\ candidate.request.context = active_fallback
        /\ candidate.request.activation = window.start /\ candidate.request.width = window.width
        /\ active_fallback < candidate.request.id
    BY <1>1 DEF Inv, Standing, CandidateMatches, BeforeJudge, Judged, Holding
  <1>3. /\ candidate \in Product /\ candidate.request.id \in Nat /\ active_fallback \in Nat
    BY <1>2 DEF Inv, TypeOK, Product, PlanningRequest
  <1>4. active_fallback' \in Nat /\ old_plan' \in Nat
    BY <1>1, <1>3
  <1>5. TypeOK'
    BY <1>1, <1>4 DEF Inv, TypeOK, planner, Points, Judged
  <1>6. Worker'
    BY <1>1 DEF Inv, Worker, planner
  <1>7. Numbering'
    <2>1. /\ active_fallback <= request_count /\ candidate.request.id <= request_count
          /\ slot # None => active_fallback < slot.id /\ candidate.request.id < slot.id
      BY <1>2 DEF Inv, Numbering
    <2>2. active_fallback' \in {active_fallback, candidate.request.id}
      BY <1>1
    <2>. QED
      BY <1>1, <1>2, <2>1, <2>2 DEF Inv, Numbering, planner
  <1>8. CandidateMatches'
    BY <1>1, <1>2 DEF CandidateMatches, BeforeJudge, Judged
  <1>9. Standing'
    BY <1>1 DEF Inv, Standing, BeforeJudge, Judged, Holding, Committed
  <1>10. OnlyTimelyPolicyMoves'
    BY <1>1, <1>2, <1>3 DEF OnlyTimelyPolicyMoves
  <1>11. (at = "IDLE" => FALSE)' /\ pending' = None
    BY <1>1, <1>2
  <1>. QED
    BY <1>1, <1>2, <1>5, <1>6, <1>7, <1>8, <1>9, <1>10, <1>11, SwitchLeaves
    DEF Inv, PlanningIsHarmless, MotionIsAccounted, OneHoldUncommitted

\* A late gate puts the parent back; an early one has read its clock in time.
LEMMA GateInv == Inv /\ Gate => Inv'
  <1>. SUFFICES ASSUME Inv, Gate PROVE Inv'
    OBVIOUS
  <1>1. /\ at = "GATE" /\ at' = "DECIDE" /\ gated_ns' = now
        /\ UNCHANGED <<now, planner, window, old_plan, candidate, ready, failed, q, truth_q, journal>>
    BY DEF Gate, To
  <1>2. /\ pending = None /\ candidate # None /\ ready = None /\ window.start = q
        /\ candidate.request.context = old_plan
        /\ candidate.request.activation = window.start /\ candidate.request.width = window.width
        /\ old_plan < candidate.request.id
    BY <1>1 DEF Inv, Standing, CandidateMatches, BeforeJudge, Judged, Holding
  <1>3. /\ candidate.request.id \in Nat /\ candidate.request.deadline \in Nat
        /\ active_fallback \in Nat /\ old_plan \in Nat /\ now \in Nat
    BY <1>2 DEF Inv, TypeOK, Product, PlanningRequest
  <1>4. /\ pending' = None
        /\ \/ active_fallback' = old_plan
           \/ active_fallback' = active_fallback /\ now <= candidate.request.deadline
    BY <1>2, <1>3 DEF Gate
  <1>5. TypeOK'
    BY <1>1, <1>3, <1>4 DEF Inv, TypeOK, planner, Points
  <1>6. Worker'
    BY <1>1 DEF Inv, Worker, planner
  <1>7. Numbering'
    BY <1>1, <1>2, <1>4 DEF Inv, Numbering, planner
  <1>8. CandidateMatches'
    BY <1>1, <1>2 DEF CandidateMatches, BeforeJudge, Judged
  <1>9. Standing'
    BY <1>1, <1>4 DEF Inv, Standing, BeforeJudge, Judged, Holding, Committed
  <1>10. candidate.completed_ns <= now
    BY <1>2 DEF Inv, CompletedBefore
  <1>11. OnlyTimelyPolicyMoves'
    <2>1. old_plan # candidate.request.id
      BY <1>2, <1>3
    <2>. QED
      BY <1>1, <1>2, <1>4, <1>10, <2>1 DEF OnlyTimelyPolicyMoves
  <1>. QED
    BY <1>1, <1>2, <1>4, <1>5, <1>6, <1>7, <1>8, <1>9, <1>11, SwitchLeaves
    DEF Inv, PlanningIsHarmless, MotionIsAccounted, OneHoldUncommitted

-----------------------------------------------------------------------------
(* step(): decide, move and commit                                         *)

\* What no step of the hold touches.
LEMMA HoldLeaves ==
  ASSUME Inv, UNCHANGED <<now, planner, window, old_plan, candidate, gated_ns, ready, failed,
                          active_fallback>>
  PROVE  Numbering' /\ CompletedBefore' /\ OneChild' /\ AnswerIsNotLost'
  <1>1. Numbering' /\ CompletedBefore'
    BY DEF Inv, Numbering, CompletedBefore, planner
  <1>2. OneChild' /\ AnswerIsNotLost'
    BY DEF Inv, PlanningIsHarmless, OneChild, AnswerIsNotLost, planner
  <1>. QED
    BY <1>1, <1>2

LEMMA DecideInv == Inv /\ Decide => Inv'
  <1>. SUFFICES ASSUME Inv, Decide PROVE Inv'
    OBVIOUS
  <1>1. /\ at = "DECIDE" /\ at' = "EMIT"
        /\ pending' = [start |-> q, end |-> q + window.width, plan |-> active_fallback]
        /\ UNCHANGED <<now, planner, window, old_plan, candidate, gated_ns, ready, failed, q,
                       active_fallback, truth_q, journal>>
    BY DEF Decide, To, locals
  <1>2. /\ q \in Nat /\ active_fallback \in Nat /\ window.width \in Nat
        /\ window.start = q /\ truth_q = q
    BY <1>1 DEF Inv, TypeOK, Standing, Window, Holding
  <1>3. pending' \in HeldDecision /\ pending'.plan = active_fallback
    BY <1>1, <1>2 DEF HeldDecision
  <1>4. TypeOK'
    BY <1>1, <1>3 DEF Inv, TypeOK, planner, Points, Holding
  <1>5. Worker'
    BY <1>1 DEF Inv, Worker, planner
  <1>6. CandidateMatches'
    BY <1>1 DEF Inv, CandidateMatches, BeforeJudge, Judged
  <1>7. Standing'
    BY <1>1, <1>2 DEF Inv, Standing, BeforeJudge, Judged, Holding, Committed
  <1>8. OnlyTimelyPolicyMoves'
    BY <1>1 DEF Inv, PlanningIsHarmless, OnlyTimelyPolicyMoves
  <1>9. MotionIsAccounted'
    BY <1>1, <1>2, <1>3 DEF Inv, PlanningIsHarmless, MotionIsAccounted, MotionWasEmitted,
                            OneHoldUncommitted
  <1>. QED
    BY <1>1, <1>4, <1>5, <1>6, <1>7, <1>8, <1>9, HoldLeaves DEF Inv, PlanningIsHarmless

\* An event more keeps all that was said before.
LEMMA MoreEvents ==
  ASSUME Inv, NEW e \in Event, journal' = Append(journal, e)
  PROVE  /\ journal' \in Seq(Event)
         /\ \A i \in 1..Len(journal) : i \in 1..Len(journal') /\ journal'[i] = journal[i]
         /\ \E i \in 1..Len(journal') : journal'[i] = e
  <1>1. journal \in Seq(Event)
    BY DEF Inv, TypeOK
  <1>. QED
    BY <1>1, AppendKeeps

LEMMA MoreMotionEmitted ==
  ASSUME Inv, NEW e \in Event, journal' = Append(journal, e), UNCHANGED <<truth_q, runtime>>
  PROVE  MotionWasEmitted'
  <1>1. UNCHANGED <<truth_q, pending, active_fallback>>
    BY DEF runtime
  <1>. QED
    BY <1>1, MoreEvents DEF Inv, PlanningIsHarmless, MotionIsAccounted, MotionWasEmitted

LEMMA EmitInv == Inv /\ Emit => Inv'
  <1>. SUFFICES ASSUME Inv, Emit PROVE Inv'
    OBVIOUS
  <1> DEFINE e == [kind |-> "ADMITTED_BEFORE_MOTION", hold |-> pending]
  <1>1. /\ at = "EMIT" /\ at' = "DISPATCH" /\ journal' = Append(journal, e)
        /\ UNCHANGED <<now, planner, window, old_plan, candidate, gated_ns, ready, failed, q,
                       active_fallback, pending, truth_q>>
    BY DEF Emit, To, locals, runtime
  <1>2. e \in Event
    BY DEF Event, Inv, TypeOK
  <1>3. e = [kind |-> "ADMITTED_BEFORE_MOTION", hold |-> pending']
    BY <1>1
  <1>. HIDE DEF e
  <1>4. MotionWasEmitted'
    BY <1>1, <1>2, MoreMotionEmitted DEF runtime
  <1>5. TypeOK'
    BY <1>1, <1>2, MoreEvents DEF Inv, TypeOK, planner, Points, Holding
  <1>6. Worker'
    BY <1>1 DEF Inv, Worker, planner
  <1>7. CandidateMatches'
    BY <1>1 DEF Inv, CandidateMatches, BeforeJudge, Judged
  <1>8. Standing'
    <2>1. \E i \in 1..Len(journal') : journal'[i] = e
      BY <1>1, <1>2, MoreEvents
    <2>2. q > 0 => \E i \in 1..Len(journal') :
                     journal'[i].kind = "COMMITTED" /\ journal'[i].hold.end = q
      BY <1>1, <1>2, MoreEvents DEF Inv, Standing, Committed
    <2>. QED
      BY <1>1, <1>3, <2>1, <2>2 DEF Inv, Standing, BeforeJudge, Judged, Holding, Committed
  <1>9. OnlyTimelyPolicyMoves'
    BY <1>1 DEF Inv, PlanningIsHarmless, OnlyTimelyPolicyMoves
  <1>10. OneHoldUncommitted'
    BY <1>1 DEF Inv, PlanningIsHarmless, MotionIsAccounted, OneHoldUncommitted
  <1>. QED
    BY <1>1, <1>4, <1>5, <1>6, <1>7, <1>8, <1>9, <1>10, HoldLeaves
    DEF Inv, PlanningIsHarmless, MotionIsAccounted

\* The deadline checks and the acknowledgement change nothing but receipts.
LEMMA DispatchInv == Inv /\ (Dispatch \/ Preflight \/ Acknowledge) => Inv'
  <1>. SUFFICES ASSUME Inv, Dispatch \/ Preflight \/ Acknowledge PROVE Inv'
    OBVIOUS
  <1>1. /\ \/ at = "DISPATCH" /\ at' = "PREFLIGHT"
           \/ at = "PREFLIGHT" /\ at' = "ACTUATE"
           \/ at = "ACKNOWLEDGE" /\ at' = "COMMIT"
        /\ UNCHANGED <<window, old_plan, candidate, gated_ns>> /\ OnlyLocals
    BY DEF Dispatch, Preflight, Acknowledge, To, locals
  <1>2. TypeOK'
    BY <1>1 DEF Inv, TypeOK, OnlyLocals, planner, runtime, Points, Holding
  <1>3. Worker'
    BY <1>1 DEF Inv, OnlyLocals, planner, Worker
  <1>4. CandidateMatches'
    BY <1>1 DEF Inv, OnlyLocals, runtime, CandidateMatches, BeforeJudge, Judged
  <1>5. Standing'
    BY <1>1 DEF Inv, OnlyLocals, runtime, Standing, BeforeJudge, Judged, Holding, Committed
  <1>6. OnlyTimelyPolicyMoves' /\ (at = "IDLE" => FALSE)'
    BY <1>1 DEF Inv, PlanningIsHarmless, OnlyLocals, runtime, OnlyTimelyPolicyMoves
  <1>. QED
    BY <1>1, <1>2, <1>3, <1>4, <1>5, <1>6, LocalsLeavePlanner
    DEF Inv, PlanningIsHarmless, MotionIsAccounted, OneHoldUncommitted

\* The fleet moves exactly along the hold that was emitted.
LEMMA ActuateInv == Inv /\ Actuate => Inv'
  <1>. SUFFICES ASSUME Inv, Actuate PROVE Inv'
    OBVIOUS
  <1>1. /\ at = "ACTUATE" /\ at' = "ACKNOWLEDGE" /\ truth_q' = pending.end
        /\ UNCHANGED <<now, planner, window, old_plan, candidate, gated_ns, ready, failed, q,
                       active_fallback, pending, journal>>
    BY DEF Actuate, To, runtime
  <1>2. /\ pending = [start |-> q, end |-> q + window.width, plan |-> active_fallback]
        /\ truth_q = q /\ ~failed
        /\ \E i \in 1..Len(journal) :
             journal[i] = [kind |-> "ADMITTED_BEFORE_MOTION", hold |-> pending]
    BY <1>1 DEF Inv, Standing, Holding
  <1>3. q \in Nat /\ active_fallback \in Nat /\ window.width \in Nat
    BY <1>1 DEF Inv, TypeOK, Window
  <1>4. pending \in HeldDecision /\ pending # None /\ pending.start = q /\ pending.end \in Nat
    <2>1. pending \in HeldDecision
      BY <1>2, <1>3 DEF HeldDecision
    <2>. QED
      BY <1>2, <1>3, <2>1, RecordsAreSome
  <1>5. TypeOK'
    BY <1>1, <1>4 DEF Inv, TypeOK, planner, Points, Holding
  <1>6. Worker'
    BY <1>1 DEF Inv, Worker, planner
  <1>7. CandidateMatches'
    BY <1>1 DEF Inv, CandidateMatches, BeforeJudge, Judged
  <1>8. Standing'
    BY <1>1 DEF Inv, Standing, BeforeJudge, Judged, Holding, Committed
  <1>9. OnlyTimelyPolicyMoves'
    BY <1>1 DEF Inv, PlanningIsHarmless, OnlyTimelyPolicyMoves
  <1>10. MotionWasEmitted'
    <2>1. SUFFICES ASSUME NEW t \in 0..pending.end - 1
                   PROVE  \E i \in 1..Len(journal) :
                            /\ journal[i].kind = "ADMITTED_BEFORE_MOTION"
                            /\ journal[i].hold.start <= t /\ t < journal[i].hold.end
      BY <1>1 DEF MotionWasEmitted, Inv, PlanningIsHarmless, MotionIsAccounted
    <2>2. CASE t < q
      <3>1. t \in 0..truth_q - 1
        BY <1>2, <1>3, <2>2
      <3>. QED
        BY <3>1 DEF Inv, PlanningIsHarmless, MotionIsAccounted, MotionWasEmitted
    <2>3. CASE ~(t < q)
      <3>1. q <= t /\ t < pending.end
        BY <1>3, <1>4, <2>3
      <3>2. PICK i \in 1..Len(journal) :
              journal[i] = [kind |-> "ADMITTED_BEFORE_MOTION", hold |-> pending]
        BY <1>2
      <3>3. journal[i].kind = "ADMITTED_BEFORE_MOTION" /\ journal[i].hold = pending
        BY <3>2
      <3>. QED
        BY <1>4, <3>1, <3>3
    <2>. QED
      BY <2>2, <2>3
  <1>11. OneHoldUncommitted'
    BY <1>1, <1>4 DEF OneHoldUncommitted
  <1>. QED
    BY <1>1, <1>5, <1>6, <1>7, <1>8, <1>9, <1>10, <1>11, HoldLeaves
    DEF Inv, PlanningIsHarmless, MotionIsAccounted

\* The commit brings the runtime's clock to where the fleet stands.
LEMMA CommitInv == Inv /\ Commit => Inv'
  <1>. SUFFICES ASSUME Inv, Commit PROVE Inv'
    OBVIOUS
  <1>1. /\ at = "COMMIT" /\ at' \in {"EMIT_COMMIT", "OVERRUN"}
        /\ q' = pending.end /\ pending' = None
        /\ UNCHANGED <<now, planner, window, old_plan, candidate, gated_ns, ready, failed,
                       active_fallback, truth_q, journal>>
    BY DEF Commit, To, locals
  <1>2. /\ pending = [start |-> q, end |-> q + window.width, plan |-> active_fallback]
        /\ truth_q = pending.end /\ ~failed
    BY <1>1 DEF Inv, Standing, Holding
  <1>3. q' \in Nat
    BY <1>1, <1>2 DEF Inv, TypeOK
  <1>4. TypeOK'
    BY <1>1, <1>3 DEF Inv, TypeOK, planner, Points, Committed
  <1>5. Worker'
    BY <1>1 DEF Inv, Worker, planner
  <1>6. CandidateMatches'
    BY <1>1 DEF Inv, CandidateMatches, BeforeJudge, Judged
  <1>7. Standing'
    BY <1>1, <1>2 DEF Standing, BeforeJudge, Judged, Holding, Committed
  <1>8. OnlyTimelyPolicyMoves'
    BY <1>1 DEF OnlyTimelyPolicyMoves
  <1>9. MotionIsAccounted'
    BY <1>1, <1>2 DEF Inv, PlanningIsHarmless, MotionIsAccounted, MotionWasEmitted,
                      OneHoldUncommitted
  <1>. QED
    BY <1>1, <1>4, <1>5, <1>6, <1>7, <1>8, <1>9, HoldLeaves DEF Inv, PlanningIsHarmless

\* With no candidate in hand there is nothing to say of one.
LEMMA NoCandidate ==
  ASSUME Inv, NoLocals, at' = "IDLE", UNCHANGED <<now, planner, ready, active_fallback>>
  PROVE  /\ Worker' /\ Numbering' /\ CompletedBefore' /\ CandidateMatches'
         /\ OneChild' /\ AnswerIsNotLost' /\ OnlyTimelyPolicyMoves'
  <1>1. Worker' /\ CompletedBefore'
    BY DEF Inv, Worker, CompletedBefore, NoLocals, planner
  <1>2. Numbering'
    <2>1. active_fallback \in Nat /\ request_count \in Nat /\ (slot # None => slot.id \in Nat)
      BY DEF Inv, TypeOK, PlanningRequest
    <2>2. 0 <= request_count /\ (slot # None => 0 < slot.id)
      BY <2>1 DEF Inv, Numbering
    <2>. QED
      BY <2>2 DEF Inv, Numbering, NoLocals, planner
  <1>3. CandidateMatches'
    BY DEF CandidateMatches, Judged, NoLocals
  <1>4. OneChild' /\ AnswerIsNotLost' /\ OnlyTimelyPolicyMoves'
    BY DEF Inv, PlanningIsHarmless, OneChild, AnswerIsNotLost, OnlyTimelyPolicyMoves, planner
  <1>. QED
    BY <1>1, <1>2, <1>3, <1>4

LEMMA EmitCommitInv == Inv /\ EmitCommit => Inv'
  <1>. SUFFICES ASSUME Inv, EmitCommit PROVE Inv'
    OBVIOUS
  <1> DEFINE hold == [start |-> window.start, end |-> q, plan |-> active_fallback]
             e == [kind |-> "COMMITTED", hold |-> hold]
  <1>1. /\ at = "EMIT_COMMIT" /\ at' = "IDLE" /\ journal' = Append(journal, e) /\ NoLocals
        /\ UNCHANGED <<now, planner, ready, failed, q, active_fallback, pending, truth_q>>
    BY DEF EmitCommit, To, runtime
  <1>2. /\ q \in Nat /\ active_fallback \in Nat /\ window.start \in Nat
        /\ ~failed /\ pending = None /\ truth_q = q
    BY <1>1 DEF Inv, TypeOK, Standing, Window, Holding
  <1>3. hold \in HeldDecision
    BY <1>2 DEF HeldDecision
  <1>4. e \in Event /\ e.kind = "COMMITTED" /\ e.hold.end = q
    <2>. HIDE DEF hold
    <2>1. e \in Event /\ e.kind = "COMMITTED" /\ e.hold = hold
      BY <1>3 DEF Event
    <2>2. hold.end = q
      BY DEF hold
    <2>. QED
      BY <2>1, <2>2
  <1>. HIDE DEF hold, e
  <1>5. MotionWasEmitted'
    BY <1>1, <1>4, MoreMotionEmitted DEF runtime
  <1>6. TypeOK'
    BY <1>1, <1>4, MoreEvents DEF Inv, TypeOK, planner, Points, NoLocals
  <1>7. \E i \in 1..Len(journal') : journal'[i].kind = "COMMITTED" /\ journal'[i].hold.end = q
    BY <1>1, <1>4, MoreEvents
  <1>8. Standing'
    BY <1>1, <1>2, <1>7 DEF Standing, BeforeJudge, Judged, Holding, Committed
  <1>9. OneHoldUncommitted'
    BY <1>1, <1>2, <1>7 DEF OneHoldUncommitted
  <1>. QED
    BY <1>1, <1>5, <1>6, <1>8, <1>9, NoCandidate DEF Inv, PlanningIsHarmless, MotionIsAccounted

\* A failure leaves the clocks as they stand, and says so if it can.
LEMMA FailInv == Inv /\ Fail => Inv'
  <1>. SUFFICES ASSUME Inv, Fail PROVE Inv'
    OBVIOUS
  <1> DEFINE e == [kind |-> "ASSUMPTION_VIOLATION", hold |-> pending]
  <1>1. /\ at' = "IDLE" /\ failed' = TRUE /\ journal' \in {journal, Append(journal, e)} /\ NoLocals
        /\ UNCHANGED <<now, planner, ready, q, active_fallback, pending, truth_q>>
    BY DEF Fail, runtime
  <1>2. e \in Event
    BY DEF Event, Inv, TypeOK
  <1>. HIDE DEF e
  <1>3. journal' \in Seq(Event)
    BY <1>1, <1>2, MoreEvents DEF Inv, TypeOK
  <1>4. TypeOK'
    BY <1>1, <1>3 DEF Inv, TypeOK, planner, Points, NoLocals
  <1>5. MotionWasEmitted'
    <2>1. CASE journal' = journal
      BY <1>1, <2>1 DEF Inv, PlanningIsHarmless, MotionIsAccounted, MotionWasEmitted
    <2>2. CASE journal' = Append(journal, e)
      BY <1>1, <1>2, <2>2, MoreMotionEmitted DEF runtime
    <2>. QED
      BY <1>1, <2>1, <2>2
  <1>6. Standing'
    BY <1>1 DEF Standing, BeforeJudge, Judged, Holding, Committed
  <1>7. OneHoldUncommitted'
    BY <1>1 DEF Inv, PlanningIsHarmless, MotionIsAccounted, OneHoldUncommitted
  <1>. QED
    BY <1>1, <1>4, <1>5, <1>6, <1>7, NoCandidate DEF Inv, PlanningIsHarmless, MotionIsAccounted

-----------------------------------------------------------------------------
(* The invariant and the results                                           *)

\* Time passing, or nothing, changes no more than what is still in the future.
LEMMA TickInv == Inv /\ (Tick \/ UNCHANGED vars) => Inv'
  <1>. SUFFICES ASSUME Inv, Tick \/ UNCHANGED vars PROVE Inv'
    OBVIOUS
  <1>1. now' \in {now, now + 1} /\ now \in Nat
    BY DEF Tick, vars, Inv, TypeOK
  <1>2. UNCHANGED <<request_count, slot, buffer, completed, child, retired, answered, at, window,
                    old_plan, candidate, gated_ns, receipt, ready, failed, q, active_fallback,
                    pending, truth_q, journal>>
    BY DEF Tick, vars, planner, locals, runtime
  <1>3. TypeOK'
    BY <1>1, <1>2 DEF Inv, TypeOK
  <1>4. CompletedBefore'
    <2>1. /\ buffer # None => buffer.completed_ns \in Nat
          /\ ready # None => ready.completed_ns \in Nat
          /\ candidate # None => candidate.completed_ns \in Nat
      BY DEF Inv, TypeOK, Result, Product
    <2>. QED
      BY <1>1, <1>2, <2>1 DEF Inv, CompletedBefore
  <1>5. Worker' /\ Numbering' /\ CandidateMatches' /\ Standing'
    BY <1>2 DEF Inv, Worker, Numbering, CandidateMatches, Standing
  <1>6. OneChild' /\ AnswerIsNotLost' /\ OnlyTimelyPolicyMoves' /\ MotionIsAccounted'
    BY <1>2 DEF Inv, PlanningIsHarmless, OneChild, AnswerIsNotLost, OnlyTimelyPolicyMoves,
                MotionIsAccounted, MotionWasEmitted, OneHoldUncommitted
  <1>. QED
    BY <1>3, <1>4, <1>5, <1>6 DEF Inv, PlanningIsHarmless

LEMMA NextInv == Inv /\ [Next]_vars => Inv'
  BY TickInv, SubmitInv, ProcessInv, StepCallInv, PollInv, TakeInv, JudgeInv, DecodeInv,
     ActivateInv, GateInv, DecideInv, EmitInv, DispatchInv, ActuateInv, CommitInv, EmitCommitInv,
     FailInv
  DEF Next, Planner, Step

\* Planner, executor, runtime and journal keep their types, and the locals of
\* step() are there whenever a program point reads them.
THEOREM TypeCorrect == Spec => []TypeOK
  <1>1. Inv => TypeOK
    BY DEF Inv
  <1>. QED
    BY <1>1, InitInv, NextInv, PTL DEF Spec

\* However late, lost or dead a planner is, for any schedule and any number of
\* requests, it costs no second process, no published answer, and no motion of
\* the fleet that was not admitted in time (execution.py:226-330,
\* worker.py:196-261).
THEOREM PlannersAreHarmless == Spec => []PlanningIsHarmless
  <1>1. Inv => PlanningIsHarmless
    BY DEF Inv
  <1>. QED
    BY <1>1, InitInv, NextInv, PTL DEF Spec

=============================================================================

--------------------------- MODULE ApproachMission ---------------------------
(***************************************************************************)
(* The coupled approach mission (approach/runner.py): every outer update   *)
(* selects the phase, plans the whole fleet, fixes the arrival deadline,   *)
(* commits the fleet hold by hold under the continuous guard, contracts    *)
(* the belief and judges the terminal set.  A run ends in a saved record,  *)
(* from which a later run resumes or crosses into an arrival policy.       *)
(*                                                                         *)
(* Any call may raise and the process may die: an unfinished run leaves    *)
(* the last saved record, and in the same process a used guard.            *)
(*                                                                         *)
(* Its record: what MissionRecorder (approach/records/recorder.py) appends *)
(* while the fleet moves, what a checkpoint of the saved result must       *)
(* satisfy before it is believed (records/checkpoint.py), what is taken    *)
(* over from it, and the guard that carries its continuous proof           *)
(* (physical/admission.py).                                                *)
(*                                                                         *)
(* The first part is the fixed arrival deadline (arrival/policy.py): what  *)
(* ArrivalRuntime remembers, which planning context it hands out, what it  *)
(* writes into its event ledger, and which ledgers a reload accepts.       *)
(* Exact anomalies are integers that count held inputs; an outer update is *)
(* Substeps of them.  A candidate is known by the planning cycle that      *)
(* solved it: its payload and fingerprint are functions of that cycle.     *)
(*                                                                         *)
(* A planning cycle has a number; a proposal, a tube profile, a solve      *)
(* attempt or an applied input is known by the cycle it comes from.        *)
(***************************************************************************)
EXTENDS Integers, Sequences, FiniteSets

CONSTANTS Horizon,    \* prediction nodes of a plan
          Substeps,   \* feedback_substeps of an outer update
          None

\* An ArrivalRuntime enabled at an update and its exact anomaly; seam tells
\* whether a policy transition enabled it.
ArrivalRuntime(update, clock, seam) ==
  [enabled |-> update, origin |-> clock, seam |-> seam, commitment |-> None,
   events |-> <<>>, first |-> None, latest |-> None]

\* ArrivalCommitment.check_clock
CheckClock(commitment, update, clock) ==
  /\ update >= commitment.update
  /\ clock = commitment.start + (update - commitment.update) * Substeps

OnEnabledGrid(rt, update, clock) ==
  update >= rt.enabled /\ clock = rt.origin + (update - rt.enabled) * Substeps

Suffix(deadline, update) == IF deadline > update THEN deadline - update ELSE 0

\* The context of a docking update: a fresh deadline at the end of the
\* horizon, or the one already accepted.
ArrivalPlanningStep(rt, at, q) ==
  LET deadline == IF rt.commitment = None THEN at + Horizon - 1 ELSE rt.commitment.deadline
  IN  [update |-> at, clock |-> q, deadline |-> deadline,
       due |-> IF rt.commitment = None THEN q + (Horizon - 1) * Substeps ELSE rt.commitment.due,
       suffix |-> Suffix(deadline, at)]

\* planning_step raises off the grid, or when the deadline left the horizon.
StepAllowed(rt, at, q) ==
  /\ OnEnabledGrid(rt, at, q)
  /\ rt.commitment # None => CheckClock(rt.commitment, at, q)
  /\ ArrivalPlanningStep(rt, at, q).suffix < Horizon

Logged(rt, status, step, detail) ==
  [rt EXCEPT !.events = Append(@, [status |-> status, step |-> step, detail |-> detail])]

\* Mutant: the retained candidate is only set with the commitment.
AcceptOnce(rt, step, cycle) ==
  LET artifact == [id |-> cycle, step |-> step]
  IN  Logged(IF rt.commitment # None THEN rt
             ELSE [rt EXCEPT !.commitment = [update |-> step.update, deadline |-> step.deadline,
                                             start |-> step.clock, due |-> step.due, id |-> cycle],
                             !.first = artifact, !.latest = artifact],
             "ACCEPTED", step, cycle)

\* Mutant: every accepted candidate anchors the arrival anew.
AcceptAnew(rt, step, cycle) ==
  LET artifact == [id |-> cycle, step |-> step]
  IN  Logged([rt EXCEPT !.commitment = [update |-> step.update, deadline |-> step.deadline,
                                        start |-> step.clock, due |-> step.due, id |-> cycle],
                        !.first = artifact, !.latest = artifact], "ACCEPTED", step, cycle)

\* accept_candidate: the first accepted fleet anchors the deadline.
AcceptCandidate(rt, step, cycle) ==
  LET artifact == [id |-> cycle, step |-> step]
      anchored ==
        IF rt.commitment # None THEN rt
        ELSE [rt EXCEPT !.commitment = [update |-> step.update, deadline |-> step.deadline,
                                        start |-> step.clock, due |-> step.due, id |-> cycle],
                        !.first = artifact]
  IN  Logged([anchored EXCEPT !.latest = artifact], "ACCEPTED", step, cycle)

RefuseCandidate(rt, step) == Logged(rt, "REFUSED", step, None)

\* record_execution with the exact clock the guard stands at.
RecordArrivalExecution(rt, step, end) == Logged(rt, "EXECUTION", step, end)

\* The required endpoint region is screened at the executed endpoint.
ScreenEndpoint(rt, clock) == Logged(rt, "SCREEN", None, clock)

\* Planning was refused before any solve.
RefusePolicy(rt, update) == Logged(rt, "POLICY_REFUSED", None, update)

-----------------------------------------------------------------------------
(* What a reload demands                                                   *)

SavedStep(rt, step) ==
  /\ OnEnabledGrid(rt, step.update, step.clock)
  /\ step.suffix = Suffix(step.deadline, step.update)
  /\ step.due = step.clock + (step.deadline - step.update) * Substeps

Earlier(rt, i, statuses) == {j \in 1..(i - 1) : rt.events[j].status \in statuses}

Latest(indices) == CHOOSE j \in indices : \A k \in indices : k <= j

\* The update an event is about; a screen has none.
EventUpdate(rt, i) ==
  IF rt.events[i].status = "POLICY_REFUSED" THEN rt.events[i].detail ELSE rt.events[i].step.update

Ordered(rt, i) ==
  LET dated == Earlier(rt, i, {"POLICY_REFUSED", "ACCEPTED", "REFUSED", "EXECUTION"})
  IN  EventUpdate(rt, i) >= IF dated = {} THEN rt.enabled ELSE EventUpdate(rt, Latest(dated))

\* The deadline in an event after the first acceptance is the accepted one.
KeepsDeadline(rt, step) ==
  /\ rt.commitment # None
  /\ CheckClock(rt.commitment, step.update, step.clock)
  /\ step.deadline = rt.commitment.deadline /\ step.due = rt.commitment.due

\* One event of _validate_events, given all those before it.
EventHolds(rt, i) ==
  LET event == rt.events[i]
      accepted == Earlier(rt, i, {"ACCEPTED"})
      executed == {j \in Earlier(rt, i, {"EXECUTION"}) :
                     accepted # {} /\ j > Latest(accepted)}
  IN  CASE event.status = "POLICY_REFUSED" -> Ordered(rt, i)
        [] event.status = "SCREEN" ->
             executed # {} /\ event.detail = rt.events[Latest(executed)].detail
        [] OTHER ->
             /\ SavedStep(rt, event.step) /\ Ordered(rt, i)
             /\ accepted # {} => KeepsDeadline(rt, event.step)
             /\ event.status = "ACCEPTED" => rt.commitment # None
             /\ event.status = "EXECUTION" =>
                  /\ accepted # {} /\ event.step = rt.events[Latest(accepted)].step
                  /\ event.step.clock <= event.detail
                  /\ event.detail <= event.step.clock + Substeps

\* The accepted events, the retained candidates and the commitment agree.
CandidatesHold(rt) ==
  LET accepted == {i \in 1..Len(rt.events) : rt.events[i].status = "ACCEPTED"}
      first == CHOOSE i \in accepted : \A k \in accepted : i <= k
      Matches(i, artifact) ==
        rt.events[i].detail = artifact.id /\ rt.events[i].step = artifact.step
  IN  IF rt.commitment = None THEN rt.first = None /\ rt.latest = None
      ELSE /\ accepted # {} /\ rt.first # None /\ rt.latest # None
           /\ Matches(first, rt.first) /\ Matches(Latest(accepted), rt.latest)
           /\ KeepsDeadline(rt, rt.latest.step)
           /\ rt.first.id = rt.commitment.id
           /\ rt.first.step.update = rt.commitment.update
           /\ rt.first.step.clock = rt.commitment.start
           /\ rt.first.step.suffix = rt.commitment.deadline - rt.commitment.update

\* ArrivalRuntime.from_metadata accepts what a run has saved.
ReloadsArrival(rt) ==
  /\ rt.commitment # None =>
       /\ OnEnabledGrid(rt, rt.commitment.update, rt.commitment.start)
       /\ rt.commitment.due = rt.commitment.start
            + (rt.commitment.deadline - rt.commitment.update) * Substeps
  /\ CandidatesHold(rt)
  /\ \A i \in 1..Len(rt.events) : EventHolds(rt, i)

-----------------------------------------------------------------------------
(* The record                                                              *)

CONSTANTS Chasers   \* the fleet, in its planning order

Fleet == 1..Len(Chasers)

-----------------------------------------------------------------------------
(* CertifiedExecutionGuard                                                 *)

FreshGuard == [end |-> None, holds |-> 0, pending |-> FALSE]

\* The proof clock of prepare(): a hold starts where the last one ended.
Contiguous(guard, clock) == guard.end = None \/ guard.end = clock

\* commit() of the pending hold.
GuardCommits(guard, end) == [end |-> end, holds |-> guard.holds + 1, pending |-> FALSE]

\* exact_mission_clock
ExactClock(guard) == IF guard.end = None THEN 0 ELSE guard.end

\* restore(): only into a fresh guard, and only at the state it has proved.
GuardRestores(guard, saved, clock) ==
  /\ guard = FreshGuard
  /\ IF saved.holds > 0 THEN saved.end = clock ELSE saved.end = None /\ clock = 0

\* as_metadata does not carry a pending hold.
GuardMetadata(guard) == [guard EXCEPT !.pending = FALSE]

-----------------------------------------------------------------------------
(* MissionRecorder                                                         *)

Recorder ==
  [clocks |-> <<0>>, samples |-> <<"rendezvous">>, phases |-> <<>>,
   tries |-> [c \in Fleet |-> <<>>], nominal |-> [c \in Fleet |-> <<>>],
   controls |-> <<>>, clear |-> <<>>, bound |-> <<>>, beliefs |-> <<0>>,
   safe |-> TRUE, archive |-> <<>>, seams |-> <<>>]

CommittedUpdates(rec) == Len(rec.clocks) - 1

\* The phase of an update; a changed phase relabels the last sample.
RecordPhase(rec, phase, relabel) ==
  [rec EXCEPT !.phases = Append(@, phase),
              !.samples = IF relabel THEN [@ EXCEPT ![Len(@)] = phase] ELSE @]

\* record_planning: the first `solved` chasers have a plan, the next one tried.
RecordPlanning(rec, cycle, solved) ==
  [rec EXCEPT
     !.tries = [c \in Fleet |-> IF c > solved + 1 THEN @[c]
                                 ELSE Append(@[c], [cycle |-> cycle, success |-> c <= solved])],
     !.nominal = [c \in Fleet |-> IF c <= solved THEN Append(@[c], cycle) ELSE @[c]]]

\* record_execution, record_belief and record_terminal_bounds of one update.
RecordExecution(rec, cycle, clock, phase, clear, belief, within) ==
  [rec EXCEPT !.clocks = Append(@, clock), !.samples = Append(@, phase),
              !.controls = Append(@, cycle), !.clear = Append(@, clear),
              !.safe = @ /\ clear, !.beliefs = Append(@, belief),
              !.bound = Append(@, within)]

\* Mutant: the proposals of a failed cycle are archived and stay in the histories.
FromCheckpointKeepingAll(source) ==
  LET rec == source.rec
      count == CommittedUpdates(rec)
  IN  [rec EXCEPT
         !.phases = SubSeq(@, 1, count),
         !.archive = Append(@, [c \in Fleet |-> SubSeq(rec.nominal[c], count + 1, Len(rec.nominal[c]))])]

\* from_checkpoint: the committed prefix, with the rest archived.
FromCheckpoint(source) ==
  LET rec == source.rec
      count == CommittedUpdates(rec)
      Unused(s) == SubSeq(s, count + 1, Len(s))
  IN  [rec EXCEPT
         !.nominal = [c \in Fleet |-> SubSeq(@[c], 1, count)],
         !.phases = SubSeq(@, 1, count),
         !.archive = Append(@, [c \in Fleet |-> Unused(rec.nominal[c])])]

-----------------------------------------------------------------------------
(* MissionCheckpoint                                                       *)

Docked(rec, from) == \E i \in (from + 1)..CommittedUpdates(rec) : rec.phases[i] = "docking"

\* arrival_runtime: the policy state is there exactly with its policy, starts
\* at the mission's origin or at a recorded seam, and is not ahead of the fleet.
ArrivalReloads(s) ==
  IF s.arrival = None THEN ~s.mode.arrival
  ELSE /\ s.mode.arrival /\ ReloadsArrival(s.arrival)
       /\ LET origin == <<s.arrival.enabled, s.arrival.origin>>
              matches == {i \in 1..Len(s.rec.seams) : s.rec.seams[i] = origin}
          IN  IF s.arrival.seam THEN \E i \in matches : matches = {i} ELSE origin = <<0, 0>>
       /\ s.arrival.enabled <= CommittedUpdates(s.rec)
       /\ s.arrival.commitment = None => ~Docked(s.rec, s.arrival.enabled)
       /\ s.arrival.latest # None => s.arrival.latest.step.update <= CommittedUpdates(s.rec)

\* _validate_record: ordered clock, complete histories, the last belief, and
\* no fewer proposals than committed intervals.
ValidRecord(s) ==
  LET rec == s.rec
      intervals == CommittedUpdates(rec)
  IN  /\ \A i \in 1..intervals : rec.clocks[i] < rec.clocks[i + 1]
      /\ Len(rec.samples) = intervals + 1 /\ Len(rec.phases) >= intervals
      /\ s.dwell \in 0..intervals
      /\ Len(rec.beliefs) = intervals + 1 /\ rec.beliefs[intervals + 1] = s.belief
      /\ {Len(rec.controls), Len(rec.clear), Len(rec.bound)} = {intervals}
      /\ \A c \in Fleet : Len(rec.nominal[c]) >= intervals /\ Len(rec.tries[c]) >= intervals
      /\ ArrivalReloads(s)

\* Mutant: the admitted holds are not counted.
OnOuterGridUncounted(s) ==
  s.arrival # None /\ s.arrival.commitment # None =>
     CheckClock(s.arrival.commitment, CommittedUpdates(s.rec), ExactClock(s.guard))

\* An arrival restart needs the complete outer grid behind it.
OnOuterGrid(s) ==
  /\ s.guard.end # None \/ CommittedUpdates(s.rec) = 0
  /\ s.guard.holds = CommittedUpdates(s.rec) * Substeps
  /\ s.arrival # None /\ s.arrival.commitment # None =>
       CheckClock(s.arrival.commitment, CommittedUpdates(s.rec), ExactClock(s.guard))

\* validate_scenario: the same unfinished mission under the same policy.
ValidScenario(s, mode) ==
  /\ ValidRecord(s) /\ ~s.complete /\ mode = s.mode
  /\ mode.arrival => OnOuterGrid(s)

\* _restore_validated: the fleet is in its tube and the guard takes over.
Restores(s, guard) ==
  s.fleet.contained /\ (s.mode.guarded => GuardRestores(guard, s.guard, s.fleet.clock))

IsPrefixOf(s, t) == Len(s) <= Len(t) /\ SubSeq(t, 1, Len(s)) = s

\* validate_result_prefix of a policy transition: facts before the seam stay.
PrefixKept(source, rec) ==
  LET old == source.rec
      count == CommittedUpdates(old)
      last == rec.archive[Len(rec.archive)]
  IN  /\ IsPrefixOf(old.clocks, rec.clocks) /\ IsPrefixOf(old.samples, rec.samples)
      /\ IsPrefixOf(old.controls, rec.controls) /\ IsPrefixOf(old.beliefs, rec.beliefs)
      /\ IsPrefixOf(old.bound, rec.bound) /\ IsPrefixOf(old.clear, rec.clear)
      /\ \A c \in Fleet :
           /\ IsPrefixOf(old.tries[c], rec.tries[c])
           /\ IsPrefixOf(SubSeq(old.nominal[c], 1, count), rec.nominal[c])
           /\ last[c] = SubSeq(old.nominal[c], count + 1, Len(old.nominal[c]))

-----------------------------------------------------------------------------
(* The mission                                                             *)

CONSTANTS Dwell,          \* terminal_dwell_updates
          MaxCycles,      \* bound on planning cycles
          MaxScenarios    \* bound on scenarios built

\* What the mission is made of.
Steps == [update : Nat, clock : Nat, deadline : Nat, due : Nat, suffix : Nat]
Commitments == [update : Nat, deadline : Nat, start : Nat, due : Nat, id : Nat]
Artifacts == [id : Nat, step : Steps]
Statuses == {"POLICY_REFUSED", "ACCEPTED", "REFUSED", "EXECUTION", "SCREEN"}
Runtimes ==
  [enabled : Nat, origin : Nat, seam : BOOLEAN, commitment : Commitments \cup {None},
   events : Seq([status : Statuses, step : Steps \cup {None}, detail : Nat \cup {None}]),
   first : Artifacts \cup {None}, latest : Artifacts \cup {None}]

MissionPhases == {"rendezvous", "docking"}
Records ==
  [clocks : Seq(Nat), samples : Seq(MissionPhases), phases : Seq(MissionPhases),
   tries : [Fleet -> Seq([cycle : Nat, success : BOOLEAN])], nominal : [Fleet -> Seq(Nat)],
   controls : Seq(Nat), clear : Seq(BOOLEAN), bound : Seq(BOOLEAN), beliefs : Seq(Nat),
   safe : BOOLEAN, archive : Seq([Fleet -> Seq(Nat)]), seams : Seq(Nat \X Nat)]

Guards == [end : Nat \cup {None}, holds : Nat, pending : BOOLEAN]
Fleets == [clock : Nat, contained : BOOLEAN, goal : BOOLEAN]
Runs ==
  [seam : BOOLEAN, offset : Nat, index : Nat, phase : MissionPhases, dwell : Nat, valid : BOOLEAN,
   completed : BOOLEAN, step : Steps \cup {None}, from : Nat, hold : Nat, good : BOOLEAN,
   clear : BOOLEAN]

\* MissionScenario refuses an arrival policy without a guard.
Modes == {m \in [guarded : BOOLEAN, arrival : BOOLEAN] : m.arrival => m.guarded}

Results ==
  [rec : Records, fleet : Fleets, mode : Modes, guard : Guards, arrival : Runtimes \cup {None},
   belief : Nat, dwell : Nat, complete : BOOLEAN, success : BOOLEAN]
Transitions == [source : Results, guard : Guards, used : BOOLEAN]

ApproachAssumption ==
  /\ Horizon \in Nat \ {0, 1} /\ Substeps \in Nat \ {0} /\ Dwell \in Nat \ {0}
  /\ MaxCycles \in Nat /\ MaxScenarios \in Nat
  /\ None \notin Nat /\ None \notin Steps /\ None \notin Commitments /\ None \notin Artifacts
  /\ None \notin Runtimes /\ None \notin Results /\ None \notin Transitions

VARIABLES
  mode,      \* what the scenario enables: guarded, arrival
  guard,     \* its execution guard
  seam,      \* the prepared policy transition, or None
  store,     \* the saved record, or None
  stage,     \* program point of run()
  run,       \* its locals
  fleet,     \* CoupledMissionState
  rec,       \* the recorder
  arr,       \* the arrival runtime, or None
  belief,    \* the cycle that last changed the parameter belief
  cycle,     \* planning cycles so far
  scenarios  \* scenarios built so far

scenario == <<mode, guard, seam>>
mission == <<run, fleet, rec, arr, belief>>
vars == <<scenario, store, stage, mission, cycle, scenarios>>

TypeOK ==
  /\ mode \in Modes /\ guard \in Guards /\ seam \in Transitions \cup {None}
  /\ store \in Results \cup {None} /\ stage \in {"idle", "plan", "hold", "record", "finish"}
  /\ run \in Runs /\ fleet \in Fleets /\ rec \in Records /\ arr \in Runtimes \cup {None}
  /\ belief \in Nat /\ cycle \in Nat /\ scenarios \in Nat

\* goal: the state satisfies the goal of its phase - the rendezvous shell, then
\* the terminal bounds of the whole tube.
InitialFleet == [clock |-> 0, contained |-> TRUE, goal |-> FALSE]

Idle == [seam |-> FALSE, offset |-> 0, index |-> 0, phase |-> "rendezvous", dwell |-> 0,
         valid |-> TRUE, completed |-> FALSE, step |-> None, from |-> 0, hold |-> 0,
         good |-> TRUE, clear |-> TRUE]

Init ==
  /\ mode \in Modes /\ guard = FreshGuard /\ seam = None /\ store = None
  /\ stage = "idle" /\ run = Idle /\ fleet = InitialFleet /\ rec = Recorder
  /\ arr = None /\ belief = 0 /\ cycle = 0 /\ scenarios = 1

\* Another scenario, with a guard of its own, perhaps in another process.
NewScenario ==
  /\ stage = "idle" /\ scenarios < MaxScenarios
  /\ scenarios' = scenarios + 1
  /\ mode' \in Modes /\ guard' = FreshGuard /\ seam' = None
  /\ UNCHANGED <<store, stage, mission, cycle>>

-----------------------------------------------------------------------------
(* The three ways into run()                                               *)

Begins ==
  /\ stage = "idle" /\ cycle < MaxCycles
  /\ stage' = "plan"
  /\ UNCHANGED <<mode, store, cycle, scenarios>>

StartFresh ==
  /\ Begins
  /\ run' = Idle /\ fleet' = InitialFleet /\ rec' = Recorder /\ belief' = 0
  /\ arr' = IF mode.arrival THEN ArrivalRuntime(0, 0, FALSE) ELSE None
  /\ UNCHANGED <<guard, seam>>

\* Everything a later run takes from a saved record.
TakesOver(source, crossing, runtime, recorder) ==
  /\ run' = [Idle EXCEPT !.seam = crossing, !.offset = CommittedUpdates(source.rec),
                         !.phase = source.rec.samples[Len(source.rec.samples)],
                         !.dwell = source.dwell]
  /\ fleet' = source.fleet /\ belief' = source.belief
  /\ rec' = recorder /\ arr' = runtime

\* resume: checkpoint.validate_scenario and restore.
StartResume ==
  /\ Begins /\ store # None
  /\ ValidScenario(store, mode) /\ Restores(store, guard)
  /\ guard' = IF mode.guarded THEN store.guard ELSE guard
  /\ TakesOver(store, FALSE, store.arrival, FromCheckpoint(store))
  /\ UNCHANGED seam

\* MissionPolicyTransition.prepare: an unfinished guarded record without a
\* policy, with its complete outer grid, restores the guard of a new scenario.
PrepareTransition ==
  /\ stage = "idle" /\ store # None /\ seam = None
  /\ ValidScenario(store, [mode EXCEPT !.arrival = FALSE]) /\ mode.arrival
  /\ OnOuterGrid(store) /\ Restores(store, guard)
  /\ guard' = store.guard
  /\ seam' = [source |-> store, guard |-> store.guard, used |-> FALSE]
  /\ UNCHANGED <<mode, store, stage, mission, cycle, scenarios>>

\* consume: once, with the guard as it was prepared.
StartTransition ==
  /\ Begins /\ seam # None
  /\ ~seam.used /\ GuardMetadata(guard) = seam.guard
  /\ seam' = [seam EXCEPT !.used = TRUE]
  /\ LET at == CommittedUpdates(seam.source.rec)
         clock == ExactClock(seam.guard)
         recorder == FromCheckpoint(seam.source)
     IN  TakesOver(seam.source, TRUE, ArrivalRuntime(at, clock, TRUE),
                   [recorder EXCEPT !.seams = Append(@, <<at, clock>>)])
  /\ UNCHANGED guard

-----------------------------------------------------------------------------
(* Planning                                                                *)

Update == run.offset + run.index

\* select_phase
Phase == IF run.phase = "rendezvous" /\ fleet.goal THEN "docking" ELSE run.phase

Docking == mode.arrival /\ Phase = "docking"

\* Mutant: the sample before the seam is relabelled too.
RelabelsEverywhere == Phase # run.phase

Relabels == Phase # run.phase /\ (~run.seam \/ run.index > 0)

Phased == RecordPhase(rec, Phase, Relabels)

PlanStep == ArrivalPlanningStep(arr, Update, ExactClock(guard))

\* The policy refuses before any solve, or planning raises.
RefusePlanning ==
  /\ stage = "plan" /\ Docking
  /\ stage' = "finish"
  /\ rec' = Phased /\ arr' = RefusePolicy(arr, Update)
  /\ run' = [run EXCEPT !.phase = Phase, !.valid = FALSE]
  /\ UNCHANGED <<scenario, store, fleet, belief, cycle, scenarios>>

\* The chasers are solved one after the other up to the first failure; the
\* plans must be apart, and under an arrival policy the accepted candidate
\* must carry its read back suffix.
PlanFleet ==
  /\ stage = "plan" /\ cycle < MaxCycles
  /\ Docking => StepAllowed(arr, Update, ExactClock(guard))
  /\ cycle' = cycle + 1
  /\ \E solved \in 0..Len(Chasers), apart, kept \in BOOLEAN :
       LET step == IF Docking THEN PlanStep ELSE None
           valid == solved = Len(Chasers) /\ apart /\ (Docking => kept)
       IN  /\ rec' = RecordPlanning(Phased, cycle', solved)
           /\ run' = [run EXCEPT !.phase = Phase, !.valid = valid, !.step = step,
                                 !.from = fleet.clock, !.hold = 0, !.good = TRUE, !.clear = TRUE]
           /\ stage' = IF valid THEN "hold" ELSE "finish"
           /\ arr' = IF step = None THEN arr
                     ELSE IF valid THEN AcceptCandidate(arr, step, cycle')
                     ELSE RefuseCandidate(arr, step)
  /\ UNCHANGED <<scenario, store, fleet, belief, scenarios>>

-----------------------------------------------------------------------------
(* DenseFeedbackExecutor.advance                                           *)

\* A hold is not committed: preflight, reserve, saturation, the guard, or,
\* after the guard has admitted it, an envelope above its stage peak.
RefuseHold ==
  /\ stage = "hold"
  /\ stage' = "record" /\ run' = [run EXCEPT !.good = FALSE]
  /\ guard' \in {guard} \cup {[guard EXCEPT !.pending = mode.guarded /\ admitted] :
                                admitted \in {FALSE, Contiguous(guard, fleet.clock)}}
  /\ UNCHANGED <<mode, seam, store, fleet, rec, arr, belief, cycle, scenarios>>

\* The whole fleet moves by one held input; containment, clearance and spacing
\* are judged after the commit.
CommitHold ==
  /\ stage = "hold"
  /\ mode.guarded => Contiguous(guard, fleet.clock)
  /\ guard' = IF mode.guarded THEN GuardCommits(guard, fleet.clock + 1) ELSE guard
  /\ \E contained, clear, goal \in BOOLEAN :
       LET good == contained /\ clear
       IN  /\ fleet' = [clock |-> fleet.clock + 1, contained |-> contained, goal |-> goal]
           /\ run' = [run EXCEPT !.hold = @ + 1, !.good = good, !.clear = @ /\ clear]
           /\ stage' = IF good /\ run.hold + 1 < Substeps THEN "hold" ELSE "record"
  /\ UNCHANGED <<mode, seam, store, rec, arr, belief, cycle, scenarios>>

-----------------------------------------------------------------------------
(* After the motion                                                        *)

Moved == fleet.clock # run.from

\* The arrival events of the update: the execution, and the screened endpoint.
Executed ==
  IF run.step = None THEN arr
  ELSE LET told == RecordArrivalExecution(arr, run.step, ExactClock(guard))
       IN  IF Moved THEN ScreenEndpoint(told, ExactClock(guard)) ELSE told

\* Nothing was committed: the update leaves no interval and ends the run.
RecordNothing ==
  /\ stage = "record" /\ ~Moved
  /\ stage' = "finish" /\ arr' = Executed /\ run' = [run EXCEPT !.valid = FALSE]
  /\ UNCHANGED <<scenario, store, fleet, rec, belief, cycle, scenarios>>

\* Mutant: an admissible endpoint counts although the update was interrupted.
NextDwellAnyway(within, valid) == IF within THEN run.dwell + 1 ELSE 0

\* Consecutive valid updates that end inside the terminal bounds.
NextDwell(within, valid) == IF within /\ valid THEN run.dwell + 1 ELSE 0

\* record_execution, adaptation.update and record_terminal_bounds; the loop
\* goes on while the update was valid, the dwell is short and steps are left.
RecordUpdate ==
  /\ stage = "record" /\ Moved
  /\ arr' = Executed
  /\ \E consistent, learned, more \in BOOLEAN :
       LET within == run.phase = "docking" /\ fleet.goal
           valid == run.good /\ consistent
           dwell == NextDwell(within, valid)
       IN  /\ ~run.good => consistent /\ ~learned
           /\ belief' = IF learned THEN cycle ELSE belief
           /\ rec' = RecordExecution(rec, cycle, fleet.clock, run.phase, run.clear, belief', within)
           /\ run' = [run EXCEPT !.dwell = dwell, !.valid = valid, !.completed = dwell >= Dwell,
                                 !.index = @ + 1, !.step = None]
           /\ stage' = IF valid /\ dwell < Dwell /\ more THEN "plan" ELSE "finish"
  /\ UNCHANGED <<scenario, store, fleet, cycle, scenarios>>

\* The record of the run, as saved.
Result ==
  [rec |-> rec, fleet |-> fleet, mode |-> mode, guard |-> GuardMetadata(guard), arrival |-> arr,
   belief |-> belief, dwell |-> run.dwell, complete |-> run.completed,
   success |-> run.valid /\ run.completed /\ rec.safe]

\* Nothing of the run outlives it but the guard of its scenario.
Ended ==
  /\ stage' = "idle" /\ run' = Idle /\ fleet' = InitialFleet /\ rec' = Recorder
  /\ arr' = None /\ belief' = 0
  /\ UNCHANGED <<scenario, cycle, scenarios>>

Finish ==
  /\ stage = "finish"
  /\ run.seam => PrefixKept(seam.source, rec)
  /\ store' = Result
  /\ Ended

\* A call raises, or the process dies: the run leaves nothing behind.
LoseRun ==
  /\ stage # "idle"
  /\ Ended
  /\ UNCHANGED store

Next ==
  \/ NewScenario \/ StartFresh \/ StartResume \/ PrepareTransition \/ StartTransition
  \/ RefusePlanning \/ PlanFleet \/ RefuseHold \/ CommitHold
  \/ RecordNothing \/ RecordUpdate \/ Finish \/ LoseRun

Spec == Init /\ [][Next]_vars

-----------------------------------------------------------------------------
(* Properties                                                              *)

\* Every record a run saves can be loaded again: its histories, its clock, its
\* last belief and the whole ledger of its arrival policy agree
\* (checkpoint._validate_record and ArrivalRuntime.from_metadata).
EveryRecordReloads == store # None => ValidRecord(store)

\* After failed cycles, interruptions and restarts the i-th proposal of every
\* chaser is the one that drove interval i, and every other proposal that was
\* ever solved is archived (docs/mission-checkpoint.md: the committed histories
\* "remain aligned with executed intervals").
Entries(s) == {s[i] : i \in 1..Len(s)}
Solved(c) == {try.cycle : try \in {t \in Entries(rec.tries[c]) : t.success}}
Archived(c) == UNION {Entries(rec.archive[i][c]) : i \in 1..Len(rec.archive)}

ProposalsDroveTheirIntervals ==
  stage # "idle" =>
    \A c \in Fleet :
      /\ \A i \in 1..CommittedUpdates(rec) : rec.nominal[c][i] = rec.controls[i]
      /\ Solved(c) = Entries(rec.nominal[c]) \cup Archived(c)

\* An accepted deadline stays what it is: through later updates, failed solves,
\* interrupted execution, the saved record and every resumption of it.
Accepted(rt) == IF rt = None THEN None ELSE rt.commitment

DeadlineIsFixed ==
  [][/\ (stage # "idle" /\ stage' # "idle" /\ Accepted(arr) # None) => Accepted(arr') = Accepted(arr)
     /\ (store' # store) => Accepted(store'.arrival) = Accepted(arr)
     /\ (stage = "idle" /\ stage' # "idle" /\ run'.offset > 0 /\ store # None
           /\ Accepted(store.arrival) # None) => Accepted(arr') = Accepted(store.arrival)]_vars

\* Success over any chain of runs means: no committed hold of any of them was
\* unsafe, and the last updates were all executed as a whole and ended in the
\* terminal bounds while docking.
SuccessIsEarned ==
  store # None /\ store.success =>
    LET n == CommittedUpdates(store.rec)
    IN  /\ n >= Dwell /\ store.fleet.contained
        /\ \A i \in 1..n : store.rec.clear[i]
        /\ \A i \in (n - Dwell + 1)..n :
             /\ store.rec.bound[i] /\ store.rec.phases[i] = "docking"
             /\ store.rec.clocks[i + 1] - store.rec.clocks[i] = Substeps

\* An unfinished record is a dead end only if its fleet left the tube, its
\* guard was not the mission's own, or an arrival policy was interrupted inside
\* an update: otherwise a fresh scenario of the same kind resumes it.
UnfinishedResumes ==
  (store # None /\ ~store.complete) =>
    LET whole == \A i \in 1..CommittedUpdates(store.rec) :
                   store.rec.clocks[i + 1] - store.rec.clocks[i] = Substeps
        own == ~store.mode.guarded \/ store.guard.holds = store.fleet.clock
    IN  (ValidScenario(store, store.mode) /\ Restores(store, FreshGuard))
          <=> (store.fleet.contained /\ own /\ (store.mode.arrival => whole))

\* Crossing into an arrival policy never loses the run: what was recorded
\* before the seam is still there when the result is checked.
SeamKeepsHistory == (stage # "idle" /\ run.seam) => PrefixKept(seam.source, rec)

=============================================================================

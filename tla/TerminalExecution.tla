-------------------------- MODULE TerminalExecution ---------------------------
(***************************************************************************)
(* The finite terminal stage: PhysicalTerminalRunner and its fleet of      *)
(* controllers (simulation/approach/terminal/execution.py and              *)
(* control/terminal/physical.py).  From the endpoint of an approach, every *)
(* hold is admitted by membership, a proved flow and its swept separation  *)
(* before the plant moves; the plant's endpoint must lie in the flow and   *)
(* the next observation refines it.                                        *)
(*                                                                         *)
(* The validated flow of a held input (control/certification/              *)
(* reachability.py) is built of Picard substeps of an exact rational width,*)
(* halved until the inclusion proves and regrown afterwards, that cover the*)
(* whole hold within a budget of substeps; the swept guard checks its      *)
(* segments again.                                                         *)
(*                                                                         *)
(* The fleet is one state and one box of states; whether an inclusion or a *)
(* separation proves is a choice.  Widths are rationals <<n, d>> in lowest *)
(* terms.  The caller supplies the observations, and the sink that receives*)
(* every record before the run goes on; what the run raises leaves only the*)
(* sink's journal.                                                         *)
(***************************************************************************)
EXTENDS Integers, Sequences, FiniteSets, FiniteSetsExt, SequencesExt

CONSTANTS MaxStep, MinStep,  \* ReachabilityConfig: steps, as rationals
          MaxSubsteps

-----------------------------------------------------------------------------
(* Exact rationals                                                         *)

Divides(k, n) == n % k = 0
Lowest(n, d) ==
  LET k == CHOOSE k \in 1..d : /\ Divides(k, n) /\ Divides(k, d)
                               /\ \A j \in (k + 1)..d : ~(Divides(j, n) /\ Divides(j, d))
  IN  <<n \div k, d \div k>>

Leq(a, b) == a[1] * b[2] <= b[1] * a[2]
Plus(a, b) == Lowest(a[1] * b[2] + b[1] * a[2], a[2] * b[2])
Minus(a, b) == Lowest(a[1] * b[2] - b[1] * a[2], a[2] * b[2])
Times(a, n, d) == Lowest(a[1] * n, a[2] * d)
Least(a, b) == IF Leq(a, b) THEN a ELSE b
\* The least integer that is no less than a / b.
Pieces(a, b) == (a[1] * b[2] + b[1] * a[2] - 1) \div (b[1] * a[2])

\* ReachabilityConfig.__post_init__
ReachabilityConfig ==
  /\ MaxStep \in (Nat \ {0}) \X (Nat \ {0}) /\ MinStep \in (Nat \ {0}) \X (Nat \ {0})
  /\ Leq(MinStep, MaxStep) /\ MaxSubsteps \in Nat \ {0}

ASSUME FlowAssumption == ReachabilityConfig

-----------------------------------------------------------------------------
(* ValidatedFlowEncloser._integrate                                        *)

\* Mutant: the largest step, and whatever is left at the end.
Greedy(remaining, proposed) == Least(remaining, proposed)

\* The remaining duration is divided evenly.
Partition(remaining, proposed) == Times(remaining, 1, Pieces(remaining, proposed))

Whole(hold) == <<hold, 1>>

BeginFlow(hold) ==
  [offset |-> <<0, 1>>, width |-> Partition(Whole(hold), Least(MaxStep, Whole(hold))),
   halved |-> FALSE, segments |-> <<>>]

Unfinished(flow, hold) == flow.offset # Whole(hold)

\* max_substeps, or a width below min_step.
Exhausted(flow) == Len(flow.segments) >= MaxSubsteps \/ ~Leq(MinStep, flow.width)

\* _picard found no inclusion, or a coefficient is not finite.
Halved(flow) == [flow EXCEPT !.width = Times(@, 1, 2), !.halved = TRUE]

Advanced(flow, hold) ==
  LET offset == Plus(flow.offset, flow.width)
      proposed == Least(MaxStep, Times(flow.width, 2, 1))
  IN  [offset |-> offset,
       width |-> IF offset = Whole(hold) THEN flow.width
                 ELSE Partition(Minus(Whole(hold), offset), proposed),
       halved |-> FALSE,
       segments |-> Append(flow.segments, <<flow.offset, offset>>)]

-----------------------------------------------------------------------------
(* SweptCollisionGuard                                                     *)

\* What the guard checks of a flow before its geometry: the segments partition
\* the hold without a gap.
Covers(segments, hold) ==
  /\ segments # <<>>
  /\ segments[1][1] = <<0, 1>> /\ segments[Len(segments)][2] = Whole(hold)
  /\ \A i \in 1..(Len(segments) - 1) : segments[i][2] = segments[i + 1][1]

-----------------------------------------------------------------------------
(* The terminal runner                                                     *)

CONSTANTS States,      \* of the fleet, relative to its references
          Inside,      \* those in the robust terminal set
          Bandwidths,  \* number of candidate bandwidths
          MaximumHold,
          Window,      \* length of the certified window
          Nothing

ASSUME TerminalAssumption ==
  /\ Inside \subseteq States /\ Bandwidths \in Nat \ {0}
  /\ MaximumHold \in Nat \ {0} /\ Window \in Nat \ {0}
  /\ 2 * MinStep[1] * MaxStep[2] <= MaxStep[1] * MinStep[2]

VARIABLES
  exe,      \* the run in progress, or Nothing
  journal,  \* what the record sink has written
  result    \* the saved result of a run, or Nothing

terminal == <<exe, journal, result>>

Boxes == SUBSET States \ {{}}

\* robust_contains for every member and every reference of its box.
Robust(box) == box \subseteq Inside

-----------------------------------------------------------------------------
(* Construction: the global bounds of the window                           *)

\* _derive: the first candidate that satisfies every terminal inequality; no
\* fleet exists without one.
Certificates(proved) == {bandwidth \in proved : \A other \in proved : bandwidth <= other}

\* The caller starts at the clock of an approach record, from its endpoint or
\* from a state of its own, for the whole window or a part of it, into a new
\* journal or the one that is there.
StartTerminal(approach) ==
  /\ exe = Nothing
  /\ \E proved \in SUBSET (1..Bandwidths), x \in States, box \in Boxes,
        width \in 1..Window, kept \in BOOLEAN :
       \E bandwidth \in Certificates(proved) :
         /\ exe' = [stage |-> "admit", source |-> approach, bandwidth |-> bandwidth,
                    q |-> approach.end, last |-> approach.end + width, x |-> x,
                    first |-> box, seen |-> box, seenAt |-> approach.end,
                    path |-> <<x>>, clocks |-> <<approach.end>>, records |-> <<>>,
                    hold |-> 0, flow |-> Nothing, proved |-> Nothing, status |-> "running"]
         /\ journal' = IF kept THEN journal ELSE <<>>
  /\ UNCHANGED result

\* The status of a finished run: the reasons of a refusal are one here.
Complete == "COMPLETED_FINITE_WINDOW"
Refused == "REFUSED"

\* What a run continues, what it records of a hold and what it leaves behind.
ApproachEnd == [end : Nat, state : States, box : Boxes, complete : BOOLEAN]

TerminalHold ==
  [stage : Nat, start : Int, width : Int, seen : SUBSET States, executed : BOOLEAN,
   state : States \cup {Nothing}, endpoint : Boxes \cup {Nothing}]

CompletedRun ==
  [source : ApproachEnd, status : {Complete}, bandwidth : 1..Bandwidths,
   first : Boxes, seen : SUBSET States, seenAt : Int,
   path : Seq(States), clocks : Seq(Int), records : Seq(TerminalHold)]

RefusedRun == [status : {Refused}]

\* "Nothing" is not taken for a result.
ASSUME NothingAssumption == Nothing \notin CompletedRun \cup RefusedRun

\* run() returns: status, reason, histories and the last observation taken in.
Finishes(run, status) == exe' = [run EXCEPT !.stage = "done", !.status = status, !.flow = Nothing,
                                            !.hold = 0]

\* An event is appended to the records, then handed to the sink.
Recorded(event) ==
  /\ journal' = Append(journal, event)
  /\ UNCHANGED result

Unrecorded == UNCHANGED <<journal, result>>

-----------------------------------------------------------------------------
(* Admission                                                               *)

\* The references raise, the observation is not valid - incomplete, over the
\* sensor budget, or without the actual state - or it is not in the set.
RefuseInitial ==
  /\ exe # Nothing /\ exe.stage = "admit"
  /\ Finishes(exe, Refused)
  /\ Unrecorded

Admit ==
  /\ exe # Nothing /\ exe.stage = "admit"
  /\ exe.x \in exe.seen /\ Robust(exe.seen)
  /\ exe' = [exe EXCEPT !.stage = "propose"]
  /\ Unrecorded

-----------------------------------------------------------------------------
(* One held command                                                        *)

Hold(run) == Min({run.last - run.q, MaximumHold})

\* The clock does not convert, a reference raises or breaks its contract, or
\* the command leaves the set, the sensor budget or the input limits: no
\* record is made.
RefuseProposal ==
  /\ exe # Nothing /\ exe.stage = "propose"
  /\ Finishes(exe, Refused)
  /\ Unrecorded

Propose ==
  /\ exe # Nothing /\ exe.stage = "propose" /\ Robust(exe.seen)
  /\ exe' = [exe EXCEPT !.stage = "enclose", !.hold = Hold(exe), !.flow = BeginFlow(Hold(exe))]
  /\ Unrecorded

\* The event of the proposed hold.
Event(run, executed, endpoint, box) ==
  [stage |-> Len(run.records), start |-> run.q, width |-> run.hold, seen |-> run.seen,
   executed |-> executed, state |-> endpoint, endpoint |-> box]

RefusesHold ==
  LET event == Event(exe, FALSE, Nothing, Nothing)
  IN  /\ Finishes([exe EXCEPT !.records = Append(@, event)], Refused)
      /\ Recorded(event)

HalveSubstep ==
  /\ exe # Nothing /\ exe.stage = "enclose"
  /\ Unfinished(exe.flow, exe.hold) /\ ~Exhausted(exe.flow)
  /\ exe' = [exe EXCEPT !.flow = Halved(exe.flow)]
  /\ Unrecorded

ProveSubstep ==
  /\ exe # Nothing /\ exe.stage = "enclose"
  /\ Unfinished(exe.flow, exe.hold) /\ ~Exhausted(exe.flow)
  /\ exe' = [exe EXCEPT !.flow = Advanced(exe.flow, exe.hold)]
  /\ Unrecorded

\* UNRESOLVED, or UNAVAILABLE where the interval library is missing.
RefuseFlow ==
  /\ exe # Nothing /\ exe.stage = "enclose"
  /\ Unfinished(exe.flow, exe.hold)
  /\ Exhausted(exe.flow) \/ exe.flow = BeginFlow(exe.hold)
  /\ RefusesHold

\* The swept guard over the finished flow, then the conversion of the command,
\* either of which refuses.
GuardFlow ==
  /\ exe # Nothing /\ exe.stage = "enclose"
  /\ ~Unfinished(exe.flow, exe.hold)
  /\ \/ RefusesHold
     \/ /\ Covers(exe.flow.segments, exe.hold)
        /\ exe' = [exe EXCEPT !.stage = "move", !.flow = Nothing]
        /\ Unrecorded

\* The acceleration source or the integrator fails: the plant stays.
RefusePropagation ==
  /\ exe # Nothing /\ exe.stage = "move"
  /\ RefusesHold

\* The plant moves and the hold is recorded, also when its endpoint is not in
\* the proved box.
Move ==
  /\ exe # Nothing /\ exe.stage = "move"
  /\ \E x \in States, box \in Boxes :
       LET event == Event(exe, TRUE, x, box)
           moved == [exe EXCEPT !.q = @ + exe.hold, !.x = x, !.path = Append(@, x),
                                !.clocks = Append(@, exe.q + exe.hold),
                                !.records = Append(@, event), !.proved = box, !.hold = 0]
       IN  /\ Recorded(event)
           /\ IF x \in box THEN exe' = [moved EXCEPT !.stage = "observe"]
              ELSE Finishes(moved, Refused)

\* Mutant: the new observation replaces what the flow has proved.
RefinesAlone(seen, proved) == seen

\* The observation and the proved endpoint, together.
Refines(seen, proved) == seen \cap proved

\* The source raises, or its observation is not valid.
RefuseObservation ==
  /\ exe # Nothing /\ exe.stage = "observe"
  /\ Finishes([exe EXCEPT !.proved = Nothing], Refused)
  /\ Unrecorded

\* Both boxes hold the actual state, so that they are never disjoint.
Observe ==
  /\ exe # Nothing /\ exe.stage = "observe"
  /\ \E box \in Boxes :
       /\ exe.x \in box
       /\ exe' = [exe EXCEPT !.seen = Refines(box, exe.proved), !.seenAt = exe.q, !.proved = Nothing,
                             !.stage = IF exe.q < exe.last THEN "propose" ELSE "final"]
  /\ Unrecorded

\* Mutant: the last observation is not admitted again.
FinalAdmissionSkipped(box) == TRUE

FinalAdmission(box) == Robust(box)

FinishWindow ==
  /\ exe # Nothing /\ exe.stage = "final"
  /\ \/ Finishes(exe, Refused)
     \/ FinalAdmission(exe.seen) /\ Finishes(exe, Complete)
  /\ Unrecorded

-----------------------------------------------------------------------------
(* The caller                                                              *)

\* The result file replaces the one before; the journal is beside it.  Nobody
\* reads more of a refused result than its status.
SaveResult ==
  /\ exe # Nothing /\ exe.stage = "done"
  /\ result' = IF exe.status = Complete
               THEN [source |-> exe.source, status |-> exe.status, bandwidth |-> exe.bandwidth,
                     first |-> exe.first, seen |-> exe.seen, seenAt |-> exe.seenAt,
                     path |-> exe.path, clocks |-> exe.clocks, records |-> exe.records]
               ELSE [status |-> exe.status]
  /\ exe' = Nothing
  /\ UNCHANGED journal

\* The sink, the encloser or the guard raises, or the process dies.
LoseTerminal ==
  /\ exe # Nothing
  /\ exe' = Nothing
  /\ UNCHANGED <<journal, result>>

\* The run once more, for its first hold only: the same proofs, another file.
RerunShorter ==
  /\ exe = Nothing /\ result # Nothing /\ result.status = Complete /\ Len(result.records) > 1
  /\ result' = [result EXCEPT !.seen = result.records[2].seen, !.seenAt = result.clocks[2],
                              !.path = SubSeq(@, 1, 2), !.clocks = SubSeq(@, 1, 2),
                              !.records = SubSeq(@, 1, 1)]
  /\ journal' = SubSeq(result.records, 1, 1)
  /\ UNCHANGED exe

TerminalNext ==
  \/ RefuseInitial \/ Admit \/ RefuseProposal \/ Propose
  \/ HalveSubstep \/ ProveSubstep \/ RefuseFlow \/ GuardFlow
  \/ RefusePropagation \/ Move \/ RefuseObservation \/ Observe \/ FinishWindow
  \/ SaveResult \/ RerunShorter \/ LoseTerminal

=============================================================================

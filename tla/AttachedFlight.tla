---------------------------- MODULE AttachedFlight ----------------------------
(***************************************************************************)
(* Held flight of the rigid assembly and its two stages,                   *)
(* DetumblingSimulator.run (attached/detumbling.py) and DeorbitSimulator.run*)
(* (attached/disposal/simulator.py).  A hold is observed, allocated with the*)
(* loads of every pad over the whole of it, proved (assembly/flow.py),     *)
(* integrated (assembly/model.py) and audited at its endpoint; everything  *)
(* before the integration leaves the state alone.  The descent is the coast*)
(* to apoapsis, the alignment and the finite burn, and the coast to the    *)
(* entry interface with EntryInterfaceMonitor (entry.py).                  *)
(*                                                                         *)
(* The orbit is kept as where the whole set lies against the interface; what*)
(* the estimate of it predicts is chosen.  One tick is one coast hold.     *)
(***************************************************************************)
EXTENDS FiniteCapture

CONSTANTS DetumblingStep,   \* control_step_s
          DetumblingDwell,  \* dwell_s
          MaxDetumbling,    \* max_duration_s
          FullCommand       \* bound: magnitudes of the common nozzle command, 0 is none

ASSUME DetumblingAssumption ==
  /\ FullCommand \in Nat
  /\ DetumblingStep \in Nat \ {0} /\ DetumblingDwell \in Nat \ {0} /\ MaxDetumbling \in Nat

\* "No loads" is not taken for the loads of a hold.
ASSUME LoadsAssumption == Never \notin [command : Nat, to : Nat]

VARIABLES flight,      \* where the attached flight stands
          began,       \* time at which the stage began
          hold,        \* duration of the hold in hand
          command,     \* its command
          loads,       \* the whole-hold loads proved: for which command, until when
          turns,       \* the holds of the detumbling: rate at the end, and throughout
          quiet_dwell  \* observed_dwell_s

held == <<hold, command, loads>>
detumbling_run == <<began, held, turns, quiet_dwell>>
upstream == <<contact, contact_run, capture_vars>>

DetumblingIdle == began = 0 /\ hold = 0 /\ command = 0 /\ loads = Never /\ turns = <<>> /\ quiet_dwell = 0

FlightStep(here, there) == flight = here /\ flight' = there

\* A refusal before the integration: no motion, and nothing proved ahead.
Still == proved' = clock /\ UNCHANGED clock

AtMost(a, b) == IF a < b THEN a ELSE b

-----------------------------------------------------------------------------
(* A held flight                                                           *)

\* allocate: least squares within the nozzle limits and the tanks; without
\* fuel only a request for nothing succeeds.
Solved(here, there, refused) ==
  /\ UNCHANGED loads
  /\ \/ FlightStep(here, there) /\ command' \in 0..FullCommand
     \/ FlightStep(here, refused) /\ UNCHANGED command

\* _attachment_preflight: the joint loads of this moment bound the command;
\* without any command they have to be within their reserve.
Dilated(here, there, refused) ==
  /\ UNCHANGED loads
  /\ \/ FlightStep(here, there) /\ command' \in 0..command
     \/ FlightStep(here, refused) /\ command' = 0

\* The loads of every state of the set, over all of the hold.
LoadsProven(magnitude, duration) == [command |-> magnitude, to |-> clock + duration]

\* Mutant: when no scaled command can be proved, the zero command goes.
ZeroGoes(here, there, refused) ==
  \/ \E scaled \in 0..command :
       FlightStep(here, there) /\ command' = scaled /\ loads' = LoadsProven(scaled, hold)
  \/ FlightStep(here, there) /\ command' = 0 /\ UNCHANGED loads

\* _whole_hold_preflight: the first declared scale whose loads are proved over
\* the whole hold; not even a zero command goes without that proof.
BackedOff(here, there, refused) ==
  \/ \E scaled \in 0..command :
       FlightStep(here, there) /\ command' = scaled /\ loads' = LoadsProven(scaled, hold)
  \/ FlightStep(here, refused) /\ command' = 0 /\ UNCHANGED loads

\* advance_with_audit up to the certificate of the whole-state flow.
FlowProved(here, there, refused) ==
  \/ FlightStep(here, there) /\ proved' = clock + hold /\ UNCHANGED clock
  \/ FlightStep(here, refused) /\ Still

\* Mutant: the hold that is flown is not the one that was cut and proved.
FlownUncut(here, there) ==
  FlightStep(here, there) /\ clock' = clock + DetumblingStep /\ UNCHANGED proved

\* The integration and the successor of the carried set.
Flown(here, there) == FlightStep(here, there) /\ clock' = proved /\ UNCHANGED proved

\* What was proved for a hold is spent with it.
HoldSpent == command' = 0 /\ loads' = Never

-----------------------------------------------------------------------------
(* Detumbling                                                              *)

Authority ==
  /\ flight = "authority" /\ flight' \in {"observe", "not_detumbled"}
  /\ UNCHANGED <<clock, proved, detumbling_run>>

\* BoundedAssemblyObserver.update; a hold begins while there is time left.
Observe ==
  /\ UNCHANGED <<clock, proved, began, command, loads, turns, quiet_dwell>>
  /\ \/ /\ FlightStep("observe", "torque") /\ clock < began + MaxDetumbling
        /\ hold' = AtMost(DetumblingStep, began + MaxDetumbling - clock)
     \/ FlightStep("observe", "not_detumbled") /\ UNCHANGED hold

\* The rate damping policy, and the command for its torque.
AllocateTorque ==
  /\ Solved("torque", "preflight", "not_detumbled")
  /\ UNCHANGED <<clock, proved, began, hold, turns, quiet_dwell>>

PreflightTorque ==
  /\ Dilated("preflight", "backoff", "not_detumbled")
  /\ UNCHANGED <<clock, proved, began, hold, turns, quiet_dwell>>

BackOffTorque ==
  /\ BackedOff("backoff", "turn", "not_detumbled")
  /\ UNCHANGED <<clock, proved, began, hold, turns, quiet_dwell>>

ProveTurn ==
  /\ FlowProved("turn", "turning", "not_detumbled")
  /\ UNCHANGED detumbling_run

\* A swept set that is quiet throughout has a quiet end.
Turn ==
  \E end \in BOOLEAN, swept \in BOOLEAN :
    /\ swept => end
    /\ Flown("turning", "turned")
    /\ turns' = Append(turns, [from |-> clock, to |-> proved, end |-> end, swept |-> swept])
    /\ UNCHANGED <<began, held, quiet_dwell>>

\* Mutant: the rate at the end of the hold speaks for all of it.
QuietAtEnd == Last(turns).end

\* The rate before the hold, at its end and in the whole swept set.
Quiet == Last(turns).swept

\* attachment_load_audit of the endpoint, then the dwell, then the tanks.
Turned ==
  /\ UNCHANGED <<clock, proved, began, hold, turns>> /\ HoldSpent
  /\ \/ /\ flight = "turned"
        /\ quiet_dwell' = IF Quiet THEN quiet_dwell + hold ELSE 0
        /\ flight' \in IF quiet_dwell' >= DetumblingDwell THEN {"detumbled"}
                       ELSE {"observe", "not_detumbled"}
     \/ FlightStep("turned", "not_detumbled") /\ UNCHANGED quiet_dwell

DetumblingNext ==
  /\ \/ Authority \/ Observe \/ AllocateTorque \/ PreflightTorque \/ BackOffTorque
     \/ ProveTurn \/ Turn \/ Turned
  /\ UNCHANGED upstream

-----------------------------------------------------------------------------
(* Properties                                                              *)

\* Nothing is about to be integrated unless the joint loads of exactly this
\* command were proved from this moment to the end of the hold or later
\* ("The zero command also needs its own proof", docs/attached-flight.md:57).
HeldLoadsAreProven ==
  flight \in {"turning", "coasting", "burning"} =>
    loads # Never /\ loads.command = command /\ proved <= loads.to

\* Detumbling ends in success only after consecutive holds, as long as the
\* dwell, whose whole swept sets were quiet, not just their endpoints ("An
\* interval that is not wholly quiet resets quiet time",
\* docs/attached-flight.md:74).
QuietDwellIsWhole ==
  flight = "detumbled" =>
    \E first \in 1..Len(turns) :
      /\ Last(turns).to = clock /\ clock - turns[first].from >= DetumblingDwell
      /\ \A i \in first..Len(turns) : turns[i].swept
      /\ \A i \in first..(Len(turns) - 1) : turns[i + 1].from = turns[i].to

-----------------------------------------------------------------------------
(* The descent                                                             *)

CONSTANTS ControlStep,   \* control_step_s
          AlignmentLead, \* alignment_lead_s
          MaxAlignment,  \* max_alignment_s
          MaxBurn,       \* max_burn_s
          MaxCoast,      \* the coast limit, max_coast_orbits periods
          ApoapsisDelays \* bound: the times to apoapsis considered

ASSUME DeorbitAssumption ==
  /\ ControlStep \in Nat \ {0} /\ AlignmentLead \in Nat /\ MaxAlignment \in Nat
  /\ MaxBurn \in Nat /\ MaxCoast \in Nat /\ ApoapsisDelays \subseteq Nat

VARIABLES status,      \* of the whole set: above, across or below the interface
          goal,        \* where the present coast leads to
          limit,       \* time at which the coast ends
          apoapsis,    \* apo_time
          aligning,    \* alignment_start
          burning,     \* burn_start_clock, or Never
          cutoff,      \* the hold in hand ends at the target perigee
          anchor,      \* the monitor holds a whole set above the interface
          certified,   \* its certificate
          fall         \* where the holds of the free fall that is under way began

orbit_run == <<goal, limit, apoapsis, aligning, burning>>
monitor == <<anchor, certified>>
deorbit_run == <<status, orbit_run, cutoff, monitor, fall>>

DeorbitIdle ==
  /\ status = "above" /\ goal = "interface" /\ limit = 0 /\ apoapsis = 0 /\ aligning = 0
  /\ burning = Never /\ cutoff = FALSE
  /\ anchor = FALSE /\ certified = FALSE /\ fall = <<>>

Later(a, b) == IF a > b THEN a ELSE b

\* An observation narrows the carried set; what lies across may turn out not to.
Observed ==
  \/ UNCHANGED status
  \/ status = "across" /\ status' \in {"above", "below"}

Fail(here) == FlightStep(here, "not_deorbited") /\ UNCHANGED status

-----------------------------------------------------------------------------
(* The entry interface                                                     *)

\* Mutant: a hold that does not descend leaves the bracket as it was.
BracketRegardless(down, finish) ==
  /\ anchor' = (anchor \/ status = "above")
  /\ certified' = (certified \/ (anchor' /\ finish = "below"))

\* EntryInterfaceMonitor.interval over a hold without fuel flow, `down' if
\* all of its swept set descends; it collects intervals while it has an anchor.
Bracket(down, finish) ==
  /\ anchor' = (down /\ (anchor \/ status = "above"))
  /\ certified' = (certified \/ (anchor' /\ finish = "below"))

ResetMonitor == anchor' = FALSE /\ certified' = FALSE

\* Where a hold that begins at `status' can end.
Ends(down) == IF down /\ status # "above" THEN {"across", "below"}
              ELSE {"above", "across", "below"}

\* A hold that consumes fuel moves the center of mass: the bracket starts anew.
FlyHold ==
  \E down \in BOOLEAN : \E finish \in Ends(down) :
    /\ status' = finish
    /\ fall' = IF down /\ command = 0 THEN Append(fall, status) ELSE <<>>
    /\ IF command > 0 THEN ResetMonitor ELSE Bracket(down, finish)

-----------------------------------------------------------------------------
(* Planning and coasting                                                   *)

\* The rate, the interface, the orbit, the propellant and the authority are
\* looked at first; an orbit that meets the interface is left to fall.
Plan ==
  /\ UNCHANGED <<clock, proved, detumbling_run, aligning, burning, cutoff, monitor, fall>>
  /\ \/ /\ Observed /\ status' = "above" /\ flight = "plan" /\ flight' = "coast"
        /\ \/ goal' = "interface" /\ limit' = clock + MaxCoast /\ UNCHANGED apoapsis
           \/ \E delay \in ApoapsisDelays :
                /\ apoapsis' = clock + delay /\ goal' = "apoapsis"
                /\ limit' = clock + Later(0, delay - AlignmentLead)
     \/ Fail("plan") /\ UNCHANGED <<goal, limit, apoapsis>>

\* A coast hold begins with an observation.
ObserveCoast ==
  /\ clock < limit
  /\ \/ Observed /\ FlightStep("coast", "coast_loads") /\ hold' = 1
     \/ Fail("coast") /\ UNCHANGED hold
  /\ UNCHANGED <<clock, proved, began, command, loads, turns, quiet_dwell, orbit_run, cutoff,
                 monitor, fall>>

\* Its zero command has to be proved like any other, and is not scaled.
CoastLoads ==
  /\ BackedOff("coast_loads", "coast_proof", "not_deorbited")
  /\ UNCHANGED <<clock, proved, began, hold, turns, quiet_dwell, deorbit_run>>

ProveCoast ==
  /\ FlowProved("coast_proof", "coasting", "not_deorbited")
  /\ UNCHANGED <<detumbling_run, deorbit_run>>

Coast ==
  /\ flight = "coasting" /\ clock' = proved /\ FlyHold /\ HoldSpent
  /\ flight' = IF certified' THEN "deorbited" ELSE "coast"
  /\ UNCHANGED <<proved, began, hold, turns, quiet_dwell, orbit_run, cutoff>>

\* Out of the coast: on to the alignment with an observation and the support
\* of the planning state, or the interface was not reached.
CoastOver ==
  /\ clock >= limit /\ flight = "coast"
  /\ \/ goal = "apoapsis" /\ Observed /\ flight' = "axis" /\ aligning' = clock
     \/ Fail("coast") /\ UNCHANGED aligning
  /\ UNCHANGED <<clock, proved, detumbling_run, goal, limit, apoapsis, burning, cutoff, monitor,
                 fall>>

\* The axis of the burn and its throttle are chosen from previews alone.
SelectAxis ==
  /\ flight = "axis" /\ flight' \in {"throttle", "not_deorbited"}
  /\ UNCHANGED <<clock, proved, detumbling_run, deorbit_run>>

SelectThrottle ==
  /\ flight = "throttle" /\ flight' \in {"window", "not_deorbited"}
  /\ UNCHANGED <<clock, proved, detumbling_run, deorbit_run>>

-----------------------------------------------------------------------------
(* The powered phase                                                       *)

AlignmentEnd == aligning + MaxAlignment + Later(0, apoapsis - aligning)

\* Mutant: the hold is not cut to what is left of the burn.
UncutHold(start) ==
  IF start = Never \/ clock < start + MaxBurn THEN ControlStep ELSE 0

\* bounded_hold_duration: what is left of the burn bounds the hold, firing or not.
HoldDuration(start) ==
  IF start = Never THEN ControlStep ELSE AtMost(ControlStep, start + MaxBurn - clock)

\* Observation, pointing and burn window; the burn starts at the first aligned
\* moment after apoapsis.  Alignment, body rate and burn time are limited.
OpenWindow ==
  /\ UNCHANGED <<clock, proved, began, command, loads, turns, quiet_dwell, goal, limit, apoapsis,
                 aligning, cutoff, monitor, fall>>
  /\ \/ \E aligned \in BOOLEAN :
          /\ FlightStep("window", "thrust") /\ Observed
          /\ burning' = IF burning = Never /\ clock >= apoapsis /\ aligned THEN clock ELSE burning
          /\ burning' = Never => clock <= AlignmentEnd
          /\ hold' = HoldDuration(burning') /\ hold' > 0
     \/ Fail("window") /\ UNCHANGED <<burning, hold>>

\* Thrust if the nozzles point along the window, and the torque to keep there.
AllocateThrust ==
  /\ Solved("thrust", "thrust_preflight", "not_deorbited")
  /\ UNCHANGED <<clock, proved, began, hold, turns, quiet_dwell, deorbit_run>>

PreflightThrust ==
  /\ Dilated("thrust_preflight", "thrust_backoff", "not_deorbited")
  /\ UNCHANGED <<clock, proved, began, hold, turns, quiet_dwell, deorbit_run>>

BackOffThrust ==
  /\ BackedOff("thrust_backoff", "preview", "not_deorbited")
  /\ UNCHANGED <<clock, proved, began, hold, turns, quiet_dwell, deorbit_run>>

\* The complete hold is proved and predicted; the predicted target perigee
\* cuts it, and if it is reached already nothing is flown.
Preview ==
  /\ UNCHANGED <<clock, proved, began, turns, quiet_dwell, status, orbit_run, monitor, fall>>
  /\ \/ /\ FlightStep("preview", "burn_proof") /\ UNCHANGED <<command, loads>>
        /\ \/ cutoff' = FALSE /\ UNCHANGED hold
           \/ burning # Never /\ cutoff' = TRUE /\ hold' \in 1..hold
     \/ /\ FlightStep("preview", "to_interface") /\ burning # Never
        /\ HoldSpent /\ UNCHANGED <<hold, cutoff>>
     \/ FlightStep("preview", "not_deorbited") /\ UNCHANGED <<held, cutoff>>

ProveBurn ==
  /\ FlowProved("burn_proof", "burning", "not_deorbited")
  /\ UNCHANGED <<detumbling_run, deorbit_run>>

Burn ==
  /\ Flown("burning", "burned") /\ FlyHold
  /\ UNCHANGED <<detumbling_run, orbit_run, cutoff>>

\* Endpoint loads of the flown hold; a bracket ends the flight, a numerical
\* entry, the perigee or empty tanks end the burn.
Burned ==
  /\ flight = "burned" /\ HoldSpent
  /\ flight' \in IF certified THEN {"deorbited", "not_deorbited"}
                 ELSE IF cutoff THEN {"to_interface", "not_deorbited"}
                 ELSE {"window", "to_interface", "not_deorbited"}
  /\ UNCHANGED <<clock, proved, began, hold, turns, quiet_dwell, deorbit_run>>

\* The last coast, one coast limit long.
FallToInterface ==
  /\ FlightStep("to_interface", "coast")
  /\ goal' = "interface" /\ limit' = clock + MaxCoast
  /\ UNCHANGED <<clock, proved, detumbling_run, status, apoapsis, aligning, burning, cutoff,
                 monitor, fall>>

DeorbitNext ==
  /\ \/ Plan \/ ObserveCoast \/ CoastLoads \/ ProveCoast \/ Coast \/ CoastOver
     \/ SelectAxis \/ SelectThrottle \/ OpenWindow
     \/ AllocateThrust \/ PreflightThrust \/ BackOffThrust
     \/ Preview \/ ProveBurn \/ Burn \/ Burned \/ FallToInterface
  /\ UNCHANGED upstream

-----------------------------------------------------------------------------
(* Properties                                                              *)

\* A deorbit that succeeds has flown, at its very end, from a whole set above
\* the interface to one at or below it, in holds without any fuel flow whose
\* swept sets all descend ("The descending entry interface likewise needs a
\* whole-set event bracket", docs/attached-flight.md:77).
EntryIsBracketed ==
  flight = "deorbited" =>
    status = "below" /\ \E i \in 1..Len(fall) : fall[i] = "above"

\* No hold of the powered phase outlasts the burn limit counted from the
\* first thrust, whether it fires or waits for the window, and the wait for
\* that moment is limited too.
BurnIsBounded ==
  flight \in {"burning", "burned"} =>
    IF burning # Never THEN proved <= burning + MaxBurn
    ELSE proved <= AlignmentEnd + ControlStep

=============================================================================

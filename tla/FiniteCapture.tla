---------------------------- MODULE FiniteCapture -----------------------------
(***************************************************************************)
(* The capture of the target by finite contact and lock:                   *)
(* FiniteContactSimulator.run (contact/simulator.py) with its controller,  *)
(* guards, digital bond events and whole-step certificates; then, from the *)
(* settled contact to the rigid assembly, the gates of SurfaceCapture.capture*)
(* (contact/capture.py) and FiniteLockTransition (contact/lock/            *)
(* transition.py), which proves the complete braking profile before it     *)
(* carries out the first step of it.                                       *)
(*                                                                         *)
(* One tick of `clock' is one contact step.  What a step proves about the  *)
(* whole set of states is a record of the pads whose preload holds, whether*)
(* the bonds are fully active and whether everything is quiet; what the    *)
(* numerical representative shows is chosen within it.                     *)
(***************************************************************************)
EXTENDS Naturals, SequencesExt

CONSTANTS Members,         \* the chasers, each with one pad
          Never,           \* no time, no record
          PreloadDwell,    \* preload_dwell_s
          BondEngagement,  \* bond_engagement_s
          SettlingDwell,   \* settling_dwell_s
          MaxContact,      \* max_duration_s
          MaxHalvings      \* bound: the halvings of the proof step that max_substeps allows

ASSUME ContactAssumption ==
  /\ Never \notin Nat
  /\ PreloadDwell \in Nat \ {0} /\ BondEngagement \in Nat \ {0}
  /\ SettlingDwell \in Nat \ {0} /\ MaxContact \in Nat /\ MaxHalvings \in Nat

VARIABLES clock,           \* exact time since the contact began
          proved,          \* end of the interval whose flow has been proved
          contact,         \* where the run stands
          rule,            \* options.handoff_rule
          steps,           \* step_records
          halvings,        \* refinements tried for the coming step
          certificate,     \* its ContactStepCertificate, or Never
          proven_preload,  \* of each pad, from completed steps only
          engaged,         \* when the bond of a pad was formed, or Never
          dwell            \* proved_dwell

contact_run == <<rule, steps, halvings, certificate, proven_preload, engaged, dwell>>
contact_vars == <<clock, proved, contact, contact_run>>

Rules == {"settled_passive", "load_bounded_finite_lock"}

ContactIdle ==
  /\ rule = "none" /\ steps = <<>> /\ halvings = 0 /\ certificate = Never
  /\ proven_preload = [m \in Members |-> 0] /\ engaged = [m \in Members |-> Never]
  /\ dwell = 0

\* The lists a new run starts with, and the rule of its options.
ContactFresh(rules) ==
  /\ rule' \in rules /\ steps' = <<>> /\ halvings' = 0 /\ certificate' = Never
  /\ proven_preload' = [m \in Members |-> 0] /\ engaged' = [m \in Members |-> Never]
  /\ dwell' = 0

ContactStep(here, there) == contact = here /\ contact' = there

\* finish(False, ...) and the handler of run(): nothing more is moved.
ContactRefused(here) ==
  /\ ContactStep(here, "failed") /\ proved' = clock
  /\ UNCHANGED <<clock, rule, steps, halvings, certificate, proven_preload, engaged, dwell>>

\* The bond of a pad carries its full load from this moment on.
FullyActive(m, time) == engaged[m] # Never /\ time >= engaged[m] + BondEngagement

-----------------------------------------------------------------------------
(* Before a step                                                           *)

\* The transferred set has to contain the representative it starts from.
BuildInitialSet ==
  \/ ContactStep("begin", "guard") /\ UNCHANGED <<clock, proved, contact_run>>
  \/ ContactRefused("begin")

\* ContactGuards.check on the representative, while there is time left.
Guard ==
  \/ ContactStep("guard", "command") /\ clock < MaxContact /\ UNCHANGED <<clock, proved, contact_run>>
  \/ ContactRefused("guard")

\* ContactController.command: an observation of this moment and of this fleet.
Command ==
  \/ ContactStep("command", "condition") /\ UNCHANGED <<clock, proved, contact_run>>
  \/ ContactRefused("command")

\* The observation may only narrow the carried set, and never past the plant.
ConditionSet ==
  \/ ContactStep("condition", "events") /\ UNCHANGED <<clock, proved, contact_run>>
  \/ ContactRefused("condition")

\* The pads whose preload all states of the set have (event_support), and
\* those the representative and its sensors show pressed (advance_engagement).
EventSupport == SUBSET Members
SensedPreload == SUBSET Members

\* Mutant: the support of the present moment stands for the dwell.
EngageOnTouch(m, supported, sensed) ==
  engaged[m] = Never /\ supported /\ sensed

\* advance_engagement with the preload the run has just written: a dwell only
\* if completed proved steps make one and the whole set supports it now.
Engages(m, supported, sensed) ==
  engaged[m] = Never /\ supported /\ proven_preload[m] >= PreloadDwell /\ sensed

\* The digital bond events at the boundary of the step.
BondEvents ==
  \/ \E supported \in EventSupport, sensed \in SensedPreload :
       /\ ContactStep("events", "strain")
       /\ engaged' = [m \in Members |->
                        IF Engages(m, m \in supported, m \in sensed) THEN clock ELSE engaged[m]]
       /\ UNCHANGED <<clock, proved, rule, steps, halvings, certificate, proven_preload, dwell>>
  \/ ContactRefused("events")

\* The strain of the bonds there are, from the same observation.
ConditionStrain ==
  \/ ContactStep("strain", "prove") /\ UNCHANGED <<clock, proved, contact_run>>
  \/ ContactRefused("strain") /\ \E m \in Members : engaged[m] # Never

\* _checks over the whole step: a set is quiet only with every bond active.
StepChecks ==
  {checks \in [preload : SUBSET Members, ready : BOOLEAN, quiet : BOOLEAN] :
     /\ checks.ready = \A m \in Members : FullyActive(m, clock)
     /\ checks.quiet => checks.ready /\ rule = "settled_passive"}

\* bound: the flow of the set and its guards, proved for the whole step.
Bound ==
  \E checks \in StepChecks :
    /\ ContactStep("prove", "move")
    /\ certificate' = checks /\ proved' = clock + 1 /\ halvings' = 0
    /\ UNCHANGED <<clock, rule, steps, proven_preload, engaged, dwell>>

\* refined_bound halves the proof step while it is unresolved and substeps are
\* left; without a certificate that passed there is no motion.
RefinedBound ==
  \/ /\ ContactStep("prove", "prove") /\ halvings < MaxHalvings /\ halvings' = halvings + 1
     /\ UNCHANGED <<clock, proved, rule, steps, certificate, proven_preload, engaged, dwell>>
  \/ ContactRefused("prove")

-----------------------------------------------------------------------------
(* The step itself                                                         *)

\* A step without support takes back all of the preload that was proved.
PreloadAfter(m) == IF m \in certificate.preload THEN proven_preload[m] + 1 ELSE 0

\* The subdivided Runge-Kutta step moves the packed state in place.
Move ==
  /\ ContactStep("move", "settle")
  /\ clock' = proved
  /\ steps' = Append(steps, [start |-> clock, checks |-> certificate])
  /\ proven_preload' = [m \in Members |-> PreloadAfter(m)]
  /\ UNCHANGED <<proved, rule, halvings, certificate, engaged, dwell>>

\* Too many numerical substeps, a state that is not finite, an exception.
MoveFails == ContactRefused("move")

\* Mutant: the bonds need to be active at the end of the step only.
EligibleAtEnd(quiet) ==
  IF rule = "settled_passive" THEN quiet
  ELSE \A m \in Members : FullyActive(m, clock)

\* What the step contributes to the settling dwell.
Eligible(quiet) ==
  /\ \A m \in Members : FullyActive(m, clock)
  /\ IF rule = "settled_passive" THEN quiet /\ certificate.quiet ELSE certificate.ready

\* settling_state of the representative.
SettlingState == IF rule = "settled_passive" THEN BOOLEAN ELSE {FALSE}

\* The guards once more, then the dwell; the balance of momentum and energy
\* has the last word on success.
Settle ==
  \/ \E quiet \in SettlingState :
       /\ contact = "settle"
       /\ dwell' = IF Eligible(quiet) THEN dwell + 1 ELSE 0
       /\ contact' \in IF dwell' >= SettlingDwell THEN {"succeeded", "failed"} ELSE {"guard"}
       /\ certificate' = Never
       /\ UNCHANGED <<clock, proved, rule, steps, halvings, proven_preload, engaged>>
  \/ ContactRefused("settle")

ContactNext ==
  \/ BuildInitialSet \/ Guard \/ Command \/ ConditionSet \/ BondEvents \/ ConditionStrain
  \/ Bound \/ RefinedBound \/ Move \/ MoveFails \/ Settle

-----------------------------------------------------------------------------
(* Properties                                                              *)

Supports(m, first, last) ==
  \A i \in 1..Len(steps) : steps[i].start \in first..last => m \in steps[i].checks.preload

\* A bond is formed only after a full preload dwell that whole-set proofs of
\* completed and contiguous steps cover, the last one ending at the event
\* ("A boundary must not credit a future step", contact/simulator.py:153).
BondsFollowProvenPreload ==
  contact # "off" =>
    \A m \in Members : engaged[m] # Never =>
      /\ engaged[m] >= PreloadDwell /\ engaged[m] <= Len(steps)
      /\ Supports(m, engaged[m] - PreloadDwell, engaged[m] - 1)

\* The contact reports success only if its proved steps cover it without a
\* gap and the last of them, for a whole settling dwell, had every bond at
\* its full load and, under the passive rule, the whole set at rest.
SettlingIsProven ==
  contact = "succeeded" =>
    /\ Len(steps) <= clock
    /\ \A i \in 1..Len(steps) : steps[i].start = i - 1
    /\ \A i \in (Len(steps) - SettlingDwell + 1)..Len(steps) :
         /\ steps[i].checks.ready
         /\ rule = "settled_passive" => steps[i].checks.quiet

-----------------------------------------------------------------------------
(* The lock                                                                *)

CONSTANTS LockSteps,      \* steps of the braking profile
          MaxChanges      \* bound: changes of the declaration during a lock

ASSUME LockAssumption == LockSteps \in Nat \ {0} /\ MaxChanges \in Nat

VARIABLES capture,      \* where capture() stands
          declaration,  \* what declaration() would return now
          frozen,       \* what the preflight was made for, or Never
          plan,         \* ends of the steps the preflight has proved
          whole,        \* the preflight proved the complete profile
          executed,     \* the steps replayed: their end, and the declaration at the time
          carried       \* exact time of the carried assembly state, or Never

lock_run == <<declaration, frozen, plan, whole, executed, carried>>
capture_vars == <<capture, lock_run>>

LockIdle ==
  /\ declaration = 0 /\ frozen = Never /\ plan = <<>> /\ whole = FALSE /\ executed = <<>>
  /\ carried = Never

LockReset ==
  /\ declaration' = 0 /\ frozen' = Never /\ plan' = <<>> /\ whole' = FALSE /\ executed' = <<>>
  /\ carried' = Never

CaptureStep(here, there) == capture = here /\ capture' = there

\* A gate moves nothing: the first that does not pass refuses the capture.
Gate(here, there) ==
  /\ capture = here /\ capture' \in {there, "refused"}
  /\ UNCHANGED <<contact_vars, lock_run>>

\* The approach is qualified, the attitudes of the chasers are declared.
Qualification == Gate("gates", "truth")

\* The recorded truth, or the terminal handoff verified against the approach.
Truth == Gate("truth", "target")

\* Geometry, mass and inertia of the target, and the assignments of the fleet.
Target == Gate("target", "chasers")

\* Reach, speed, pose, clearance and the contact segment of every chaser.
Chasers == Gate("chasers", "pairs")

\* The envelopes of every pair; then the contact runs.
Pairs ==
  /\ UNCHANGED <<clock, proved, lock_run>>
  /\ \/ CaptureStep("pairs", "contact") /\ contact' = "begin" /\ ContactFresh(Rules)
     \/ CaptureStep("pairs", "refused") /\ UNCHANGED <<contact, contact_run>>

Contact ==
  /\ capture = "contact" /\ ContactNext
  /\ UNCHANGED capture_vars

ContactReturned ==
  /\ contact \in {"succeeded", "failed"}
  /\ CaptureStep("contact", IF contact = "succeeded" THEN "declare" ELSE "refused")
  /\ UNCHANGED <<contact_vars, lock_run>>

-----------------------------------------------------------------------------
(* The lock                                                                *)

\* A source file of the lock or the record of the contact changes meanwhile.
DeclarationChanges ==
  /\ capture \in {"preflight", "replay"} /\ declaration < MaxChanges
  /\ declaration' = declaration + 1
  /\ UNCHANGED <<contact_vars, capture, frozen, plan, whole, executed, carried>>

\* The history of the contact is sealed; clocks, chain and inventory that do
\* not agree raise before there is a plan.
Declare ==
  /\ \/ CaptureStep("declare", "preflight") /\ frozen' = declaration
     \/ CaptureStep("declare", "refused") /\ UNCHANGED frozen
  /\ UNCHANGED <<contact_vars, declaration, plan, whole, executed, carried>>

\* One held step of the profile: the flow and every load, reach, power and
\* clearance over it.
PreflightStep ==
  /\ Len(plan) < LockSteps
  /\ \/ /\ CaptureStep("preflight", "preflight")
        /\ plan' = Append(plan, clock + Len(plan) + 1)
     \/ CaptureStep("preflight", "refused") /\ UNCHANGED plan
  /\ UNCHANGED <<contact_vars, declaration, frozen, whole, executed, carried>>

\* The payload of the rigid assembly ends the preflight.
PreflightDone ==
  /\ capture = "preflight" /\ Len(plan) = LockSteps
  /\ \/ capture' = "replay" /\ whole' = TRUE /\ proved' = Last(plan)
     \/ capture' = "refused" /\ UNCHANGED <<whole, proved>>
  /\ UNCHANGED <<clock, contact, contact_run, declaration, frozen, plan, executed, carried>>

\* Mutant: the declaration is compared before the first step only.
ReplayUnchecked ==
  /\ capture = "replay" /\ Len(executed) < Len(plan)
  /\ executed # <<>> \/ declaration = frozen
  /\ executed' = Append(executed, [end |-> plan[Len(executed) + 1], under |-> declaration])
  /\ clock' = plan[Len(executed) + 1]
  /\ UNCHANGED <<proved, contact, contact_run, capture, declaration, frozen, plan, whole, carried>>

\* The declaration is compared before every step, the endpoint with the plan.
ReplayStep ==
  /\ capture = "replay" /\ Len(executed) < Len(plan)
  /\ declaration = frozen
  /\ executed' = Append(executed, [end |-> plan[Len(executed) + 1], under |-> declaration])
  /\ clock' = plan[Len(executed) + 1]
  /\ UNCHANGED <<proved, contact, contact_run, capture, declaration, frozen, plan, whole, carried>>

\* A changed declaration or endpoint, or an exception of the field: the
\* executed prefix is what is reported, without a rigid coordinate change.
ReplayRefused ==
  /\ CaptureStep("replay", "refused") /\ Len(executed) < Len(plan)
  /\ proved' = clock
  /\ UNCHANGED <<clock, contact, contact_run, lock_run>>

\* _finite_handoff: the recorded truth, the accepted contact and the lock.
Handoff ==
  /\ capture = "replay" /\ Len(executed) = Len(plan)
  /\ \/ capture' = "captured" /\ carried' = Len(steps) + Len(executed)
     \/ capture' = "refused" /\ UNCHANGED carried
  /\ UNCHANGED <<contact_vars, declaration, frozen, plan, whole, executed>>

\* What capture() does not expect leaves it: an unreadable source file, say.
CaptureRaises ==
  /\ capture \in {"truth", "declare", "preflight", "replay"} /\ capture' = "raised"
  /\ proved' = clock
  /\ UNCHANGED <<clock, contact, contact_run, lock_run>>

CaptureNext ==
  \/ Qualification \/ Truth \/ Target \/ Chasers \/ Pairs \/ Contact \/ ContactReturned \/ DeclarationChanges
  \/ Declare \/ PreflightStep \/ PreflightDone \/ ReplayStep \/ ReplayRefused \/ Handoff
  \/ CaptureRaises

-----------------------------------------------------------------------------
(* Properties                                                              *)

\* The lock moves only along a profile it has proved to its end, from one
\* declaration that is still the same before every step; a capture that
\* succeeds has carried out all of it, and its state carries the exact time
\* of everything that was moved ("A later preflight refusal therefore starts
\* no lock motion", docs/finite-contact.md:101).
LockFollowsItsPlan ==
  /\ executed # <<>> => whole /\ contact = "succeeded" /\ Len(plan) = LockSteps
  /\ Len(executed) <= Len(plan)
  /\ \A i \in 1..Len(executed) : executed[i].end = plan[i] /\ executed[i].under = frozen
  /\ carried # Never =>
       Len(executed) = LockSteps /\ carried = clock /\ clock = plan[LockSteps]

=============================================================================

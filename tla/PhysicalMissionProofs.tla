------------------------ MODULE PhysicalMissionProofs ------------------------
(***************************************************************************)
(* The physical lifecycle moves nothing that was not proved, captures and  *)
(* locks only as its certificates say, and ends a mission in success only  *)
(* below the interface: for every fleet, dwell, step and limit.            *)
(*                                                                         *)
(* The checked properties speak of a few program points; the invariant     *)
(* says what led there.  CaptureInv: where the clock stands against the    *)
(* completed steps, the preload and the settling dwell that those steps    *)
(* cover, and the plan.  FlightInv: what is in hand of a hold between its  *)
(* observation and its end, and what the quiet dwell, the bracket and the  *)
(* burn have counted.  LifecycleInv: what the stages hand to each other.   *)
(***************************************************************************)
EXTENDS PhysicalMission, SequenceTheorems, TLAPS

-----------------------------------------------------------------------------
(* The capture                                                             *)

Checks == [preload : SUBSET Members, ready : BOOLEAN, quiet : BOOLEAN]
ContactRecord == [start : Nat, checks : Checks]
LockRecord == [end : Nat, under : Nat]

Gates == {"gates", "truth", "target", "chasers", "pairs"}
Locking == {"declare", "preflight", "replay", "captured"}
ContactPoints == {"begin", "guard", "command", "condition", "events", "strain", "prove", "move",
                  "settle", "succeeded", "failed"}

CaptureTypes ==
  /\ clock \in Nat /\ proved \in Nat
  /\ contact \in ContactPoints \cup {"off"}
  /\ capture \in Gates \cup Locking \cup {"contact", "refused", "raised"}
  /\ steps \in Seq(ContactRecord) /\ dwell \in Nat
  /\ contact \in {"move", "settle"} => certificate \in Checks
  /\ proven_preload \in [Members -> Nat] /\ engaged \in [Members -> Nat \cup {Never}]
  /\ plan \in Seq(Nat) /\ executed \in Seq(LockRecord) /\ declaration \in Nat

\* Where the contact and the lock stand in each step of the capture.
CapturePoint ==
  /\ capture \in Gates => contact = "off" /\ steps = <<>> /\ plan = <<>>
  /\ contact = "off" => capture \in Gates \cup {"refused", "raised"} /\ plan = <<>>
  /\ capture = "contact" => plan = <<>>
  /\ capture \in Locking => contact = "succeeded"
  /\ capture \in Gates \cup {"contact", "declare", "preflight"} => executed = <<>>
  /\ capture = "declare" => plan = <<>>
  /\ capture = "replay" => whole /\ Len(plan) = LockSteps
  /\ carried # Never => capture = "captured"

\* The clock counts the completed steps of the contact and of the lock, and
\* what is proved ahead of it is the step or the profile in progress.
CaptureClock ==
  /\ clock = Len(steps) + Len(executed)
  /\ proved = IF capture = "replay" THEN Len(steps) + LockSteps
              ELSE IF capture = "contact" /\ contact = "move" THEN clock + 1 ELSE clock
  /\ \A i \in 1..Len(steps) : steps[i].start = i - 1
  /\ \A i \in 1..Len(plan) : plan[i] = Len(steps) + i

\* What was proved of a pad without a break, up to now.
PreloadCovered ==
  \A m \in Members :
    /\ proven_preload[m] <= Len(steps)
    /\ \A i \in 1..Len(steps) : i > Len(steps) - proven_preload[m] => m \in steps[i].checks.preload
    /\ engaged[m] # Never => engaged[m] <= Len(steps)

\* A step that counts for the settling dwell.
Settled(i) ==
  /\ steps[i].checks.ready
  /\ rule = "settled_passive" => steps[i].checks.quiet

\* The completed steps that the dwell has counted.
DwellCovered ==
  /\ contact \notin {"settle", "failed"} =>
       /\ dwell <= Len(steps)
       /\ \A i \in 1..Len(steps) : i > Len(steps) - dwell => Settled(i)
  /\ contact = "settle" =>
       /\ dwell < Len(steps)
       /\ \A i \in 1..Len(steps) - 1 : i > Len(steps) - 1 - dwell => Settled(i)
       /\ steps[Len(steps)].checks = certificate
  /\ contact \in {"move", "settle"} => (certificate.quiet => certificate.ready)
  /\ contact = "succeeded" => dwell >= SettlingDwell

AtCapture ==
  /\ CaptureTypes /\ CapturePoint /\ CaptureClock /\ PreloadCovered /\ DwellCovered
  /\ BondsFollowProvenPreload /\ LockFollowsItsPlan

CaptureInv ==
  IF stage = "attachment" THEN AtCapture
  ELSE contact = "off" /\ plan = <<>> /\ executed = <<>> /\ carried = Never

-----------------------------------------------------------------------------
(* The attached flight                                                     *)

TurnRecord == [from : Nat, to : Nat, end : BOOLEAN, swept : BOOLEAN]
LoadsRecord == [command : Nat, to : Nat]
Interface == {"above", "across", "below"}

Proving == {"turn", "coast_proof", "preview", "burn_proof"}
Moving == {"turning", "coasting", "burning"}
TurnCounted == {"observe", "torque", "preflight", "backoff", "turn", "turning", "detumbled"}
DetumblingPoints == {"authority", "turned", "not_detumbled"} \cup TurnCounted
ThrustPoints == {"thrust", "thrust_preflight", "thrust_backoff", "preview", "burn_proof"}
DeorbitPoints ==
  {"plan", "coast", "coast_loads", "coast_proof", "coasting", "axis", "throttle", "window",
   "burning", "burned", "to_interface", "deorbited", "not_deorbited"} \cup ThrustPoints
\* Where a hold is in hand that has not ended yet.
HoldPoints ==
  {"torque", "preflight", "backoff", "coast_loads"} \cup Proving \cup Moving \cup ThrustPoints

FlightTypes ==
  /\ clock \in Nat /\ proved \in Nat
  /\ flight \in {"off"} \cup DetumblingPoints \cup DeorbitPoints
  /\ began \in Nat /\ hold \in Nat /\ command \in Nat
  /\ loads \in LoadsRecord \cup {Never}
  /\ turns \in Seq(TurnRecord) /\ quiet_dwell \in Nat
  /\ status \in Interface /\ apoapsis \in Nat /\ aligning \in Nat
  /\ burning \in Nat \cup {Never}
  /\ anchor \in BOOLEAN /\ certified \in BOOLEAN /\ fall \in Seq(Interface)

\* The hold in hand: how far its proofs have come, and what they cover.
HoldInHand ==
  /\ flight \in HoldPoints => hold > 0
  /\ flight \in Proving =>
       loads # Never /\ loads.command = command /\ clock + hold <= loads.to
  /\ flight \in Moving => proved = clock + hold
  /\ flight \notin {"off"} \cup Moving => proved = clock

\* The holds of the detumbling follow each other, and the dwell has counted
\* the last of them that were quiet throughout.
TurnsFollow ==
  flight \in TurnCounted \cup {"authority", "turned"} =>
    /\ \A i \in 1..Len(turns) - 1 : turns[i + 1].from = turns[i].to
    /\ turns # <<>> => turns[Len(turns)].to = clock

DwellOf(n) ==
  \/ quiet_dwell = 0
  \/ \E first \in 1..n :
       /\ \A i \in first..n : turns[i].swept
       /\ quiet_dwell = turns[n].to - turns[first].from

DwellCounted ==
  /\ flight = "authority" => turns = <<>> /\ quiet_dwell = 0
  /\ flight \in TurnCounted => DwellOf(Len(turns))
  /\ flight = "turned" =>
       /\ turns # <<>> /\ DwellOf(Len(turns) - 1)
       /\ hold = turns[Len(turns)].to - turns[Len(turns)].from
  /\ flight = "detumbled" => quiet_dwell >= DetumblingDwell

\* A free fall from above the interface is in progress while there is an
\* anchor, and a certificate ends the flight.
FallIsBracketed ==
  /\ anchor => \E i \in 1..Len(fall) : fall[i] = "above"
  /\ certified =>
       /\ flight \in {"burned", "deorbited", "not_deorbited"} /\ status = "below"
       /\ \E i \in 1..Len(fall) : fall[i] = "above"
  /\ flight = "deorbited" => certified

WindowIsOpen ==
  flight \in ThrustPoints =>
    IF burning # Never THEN clock + hold <= burning + MaxBurn
    ELSE clock <= AlignmentEnd /\ hold <= ControlStep

FlightInv ==
  /\ FlightTypes /\ HoldInHand /\ TurnsFollow /\ DwellCounted /\ FallIsBracketed /\ WindowIsOpen
  /\ HeldLoadsAreProven /\ QuietDwellIsWhole /\ EntryIsBracketed /\ BurnIsBounded

-----------------------------------------------------------------------------
(* The lifecycle                                                           *)

AfterCapture == {"propulsion", "detumbling", "detumbling_loads", "deorbit", "deorbit_loads"}

LifecycleInv ==
  /\ stage \in {"attachment", "record_lifecycle", "returned", "raised"} \cup AfterCapture
  /\ stage \in {"attachment", "propulsion"} => flight = "off"
  /\ stage \in {"attachment", "propulsion"} => turns = <<>> /\ quiet_dwell = 0
  /\ stage = "propulsion" => proved = clock
  /\ stage \in {"detumbling", "detumbling_loads"} => flight \in DetumblingPoints
  /\ stage \in {"attachment", "propulsion", "detumbling", "detumbling_loads"} =>
       fall = <<>> /\ ~anchor /\ ~certified /\ burning = Never
  /\ stage = "deorbit_loads" => flight \in {"plan", "deorbited", "not_deorbited"}
  /\ stage \in AfterCapture => capture = "captured"
  /\ stage # "returned" => result = None
  /\ stage = "record_lifecycle" =>
       (lifecycle.success =>
         capture = "captured" /\ flight = "deorbited" /\ lifecycle.keeps = Attached)
  /\ SuccessIsPhysical

Inv == CaptureInv /\ FlightInv /\ LifecycleInv


-----------------------------------------------------------------------------
(* The contact                                                             *)

\* Every step of the lifecycle proves, moves or refuses, or leaves both
\* moments alone.
Admitted == Flight!Next \/ UNCHANGED <<clock, proved>>

\* What a proof says of a pad it says of steps that are completed.
LEMMA PreloadSupports ==
  ASSUME AtCapture, capture = "contact", NEW m \in Members,
         proven_preload[m] >= PreloadDwell
  PROVE  /\ clock >= PreloadDwell /\ clock = Len(steps)
         /\ Supports(m, clock - PreloadDwell, clock - 1)
<1>1. executed = <<>> /\ clock = Len(steps) /\ Len(steps) \in Nat /\ clock \in Nat
  BY EmptySeq, LenProperties DEF AtCapture, CapturePoint, CaptureClock, CaptureTypes
<1>2. proven_preload[m] \in Nat /\ proven_preload[m] <= Len(steps) /\ PreloadDwell \in Nat
  BY ContactAssumption DEF AtCapture, CaptureTypes, PreloadCovered
<1>3. ASSUME NEW i \in 1..Len(steps), steps[i].start \in (clock - PreloadDwell)..(clock - 1)
      PROVE  m \in steps[i].checks.preload
  <2>1. steps[i].start = i - 1
    BY DEF AtCapture, CaptureClock
  <2>2. i > Len(steps) - proven_preload[m]
    BY <1>1, <1>2, <1>3, <2>1
  <2> QED
    BY <2>2 DEF AtCapture, PreloadCovered
<1> QED
  BY <1>1, <1>2, <1>3 DEF Supports

\* A refusal of the contact, and a step of it that looks but does not move.
LEMMA ContactLooks ==
  ASSUME AtCapture, capture = "contact", contact \in ContactPoints,
         UNCHANGED <<clock, rule, steps, certificate, proven_preload, engaged, dwell, capture_vars>>,
         \/ contact' = "failed" /\ proved' = clock
         \/ /\ contact \notin {"move", "settle", "failed"} /\ UNCHANGED proved
            /\ contact' \in ContactPoints \ {"move", "settle", "succeeded"}
  PROVE  AtCapture'
<1> USE DEF contact_run, capture_vars, lock_run
<1>1. CaptureTypes'
  BY DEF AtCapture, CaptureTypes, ContactPoints
<1>2. CapturePoint'
  BY DEF AtCapture, CapturePoint, ContactPoints, Gates, Locking
<1>3. CaptureClock'
  BY DEF AtCapture, CaptureClock
<1>4. PreloadCovered'
  BY DEF AtCapture, PreloadCovered
<1>5. DwellCovered'
  BY DEF AtCapture, DwellCovered, Settled
<1>6. BondsFollowProvenPreload'
  BY DEF AtCapture, BondsFollowProvenPreload, Supports, ContactPoints
<1>7. LockFollowsItsPlan'
  BY DEF AtCapture, LockFollowsItsPlan, CapturePoint
<1> QED
  BY <1>1, <1>2, <1>3, <1>4, <1>5, <1>6, <1>7 DEF AtCapture

LEMMA RefusedIsAdmitted ==
  ASSUME UNCHANGED clock, proved' = clock
  PROVE  Admitted
  BY DEF Admitted, Flight!Next, Flight!Refuse

\* The bonds form at the present boundary, after a dwell that is covered.
LEMMA BondEventsCapture ==
  ASSUME AtCapture, capture = "contact", BondEvents, UNCHANGED capture_vars
  PROVE  AtCapture' /\ Admitted
<1>1. CASE ContactRefused("events")
  BY <1>1, ContactLooks, RefusedIsAdmitted
     DEF ContactRefused, ContactStep, ContactPoints, contact_run
<1>2. ASSUME NEW supported \in EventSupport, NEW sensed \in SensedPreload,
             ContactStep("events", "strain"),
             engaged' = [m \in Members |->
                           IF Engages(m, m \in supported, m \in sensed) THEN clock
                           ELSE engaged[m]],
             UNCHANGED <<clock, proved, rule, steps, halvings, certificate, proven_preload, dwell>>
      PROVE  AtCapture' /\ Admitted
  <2> USE DEF capture_vars, lock_run, ContactStep
  <2>0. clock \in Nat /\ clock = Len(steps)
    BY <1>2, EmptySeq DEF AtCapture, CaptureTypes, CapturePoint, CaptureClock
  <2>1. CaptureTypes'
    BY <1>2 DEF AtCapture, CaptureTypes, ContactPoints
  <2>2. CapturePoint'
    BY <1>2 DEF AtCapture, CapturePoint, Gates, Locking
  <2>3. CaptureClock'
    BY <1>2 DEF AtCapture, CaptureClock
  <2>4. PreloadCovered'
    <3>1. ASSUME NEW m \in Members
          PROVE  (engaged[m] # Never => engaged[m] <= Len(steps))'
      BY <1>2, <2>0 DEF AtCapture, PreloadCovered
    <3> QED
      BY <1>2, <3>1 DEF AtCapture, PreloadCovered
  <2>5. DwellCovered'
    BY <1>2 DEF AtCapture, DwellCovered, Settled
  <2>6. BondsFollowProvenPreload'
    <3>1. ASSUME NEW m \in Members, engaged'[m] # Never
          PROVE  /\ engaged'[m] >= PreloadDwell /\ engaged'[m] <= Len(steps)
                 /\ Supports(m, engaged'[m] - PreloadDwell, engaged'[m] - 1)
      <4>1. CASE Engages(m, m \in supported, m \in sensed)
        <5>1. proven_preload[m] >= PreloadDwell /\ engaged'[m] = clock
          BY <1>2, <4>1 DEF Engages
        <5> QED
          BY <5>1, <2>0, PreloadSupports
      <4>2. CASE ~Engages(m, m \in supported, m \in sensed)
        <5>1. engaged'[m] = engaged[m]
          BY <1>2, <4>2
        <5> QED
          BY <1>2, <3>1, <5>1 DEF AtCapture, BondsFollowProvenPreload
      <4> QED
        BY <4>1, <4>2
    <3> QED
      BY <1>2, <3>1 DEF BondsFollowProvenPreload, Supports
  <2>7. LockFollowsItsPlan'
    BY <1>2 DEF AtCapture, LockFollowsItsPlan, CapturePoint
  <2> QED
    BY <1>2, <2>1, <2>2, <2>3, <2>4, <2>5, <2>6, <2>7 DEF AtCapture, Admitted
<1> QED
  BY <1>1, <1>2 DEF BondEvents

\* A certificate is made for the whole of the coming step.
LEMMA BoundCapture ==
  ASSUME AtCapture, capture = "contact", Bound, UNCHANGED capture_vars
  PROVE  AtCapture' /\ Admitted
<1> USE DEF capture_vars, lock_run, ContactStep
<1>1. PICK checks \in StepChecks :
        /\ ContactStep("prove", "move")
        /\ certificate' = checks /\ proved' = clock + 1 /\ halvings' = 0
        /\ UNCHANGED <<clock, rule, steps, proven_preload, engaged, dwell>>
  BY DEF Bound
<1>2. checks \in Checks /\ (checks.quiet => checks.ready)
  BY <1>1 DEF StepChecks, Checks
<1>3. clock \in Nat /\ proved = clock
  BY <1>1 DEF AtCapture, CaptureTypes, CaptureClock
<1>4. CaptureTypes'
  BY <1>1, <1>2, <1>3 DEF AtCapture, CaptureTypes, ContactPoints
<1>5. CapturePoint'
  BY <1>1 DEF AtCapture, CapturePoint, Gates, Locking
<1>6. CaptureClock'
  BY <1>1 DEF AtCapture, CaptureClock
<1>7. PreloadCovered'
  BY <1>1 DEF AtCapture, PreloadCovered
<1>8. DwellCovered'
  BY <1>1, <1>2 DEF AtCapture, DwellCovered, Settled
<1>9. BondsFollowProvenPreload'
  BY <1>1 DEF AtCapture, BondsFollowProvenPreload, Supports
<1>10. LockFollowsItsPlan'
  BY <1>1 DEF AtCapture, LockFollowsItsPlan, CapturePoint
<1>11. Admitted
  BY <1>1, <1>3 DEF Admitted, Flight!Next, Flight!Prove
<1> QED
  BY <1>4, <1>5, <1>6, <1>7, <1>8, <1>9, <1>10, <1>11 DEF AtCapture

\* A completed step: what was certified of it is now on record.
LEMMA MoveCapture ==
  ASSUME AtCapture, capture = "contact", Move, UNCHANGED capture_vars
  PROVE  AtCapture' /\ Admitted
<1> USE DEF capture_vars, lock_run, ContactStep, Move
<1> DEFINE record == [start |-> clock, checks |-> certificate]
<1>1. /\ clock \in Nat /\ clock = Len(steps) /\ executed = <<>> /\ plan = <<>> /\ carried = Never
      /\ proved = clock + 1 /\ clock' = clock + 1
  BY EmptySeq DEF AtCapture, CaptureTypes, CapturePoint, CaptureClock
<1>2. certificate \in Checks /\ steps \in Seq(ContactRecord) /\ record \in ContactRecord
  BY <1>1 DEF AtCapture, CaptureTypes, ContactRecord
<1>3. steps' = Append(steps, record)
  OBVIOUS
<1> HIDE DEF record
<1>4. /\ steps' \in Seq(ContactRecord) /\ Len(steps') = Len(steps) + 1
      /\ \A i \in 1..Len(steps) : steps'[i] = steps[i]
      /\ steps'[Len(steps) + 1] = record
  BY <1>2, <1>3, AppendProperties
<1>5. record.start = clock /\ record.checks = certificate
  BY DEF record
<1>6. Len(steps) \in Nat
  BY <1>1
<1>7. CaptureTypes'
  <2>1. proven_preload' \in [Members -> Nat]
    BY DEF AtCapture, CaptureTypes, PreloadAfter
  <2> QED
    BY <1>1, <1>2, <1>4, <2>1 DEF AtCapture, CaptureTypes, ContactPoints
<1>8. CapturePoint'
  BY DEF AtCapture, CapturePoint, Gates, Locking
<1>9. CaptureClock'
  <2>1. ASSUME NEW i \in 1..Len(steps') PROVE steps'[i].start = i - 1
    <3>1. CASE i \in 1..Len(steps)
      BY <3>1, <1>4 DEF AtCapture, CaptureClock
    <3>2. CASE i = Len(steps) + 1
      BY <3>2, <1>1, <1>4, <1>5
    <3> QED
      BY <1>4, <1>6, <3>1, <3>2
  <2>2. (clock = Len(steps) + Len(executed))'
    BY <1>1, <1>4, EmptySeq
  <2>3. (\A i \in 1..Len(plan) : plan[i] = Len(steps) + i)'
    BY <1>1, EmptySeq
  <2> QED
    BY <1>1, <2>1, <2>2, <2>3 DEF CaptureClock
<1>10. PreloadCovered'
  <2>1. ASSUME NEW m \in Members
        PROVE  /\ proven_preload'[m] <= Len(steps')
               /\ \A i \in 1..Len(steps') :
                    i > Len(steps') - proven_preload'[m] => m \in steps'[i].checks.preload
               /\ engaged'[m] # Never => engaged'[m] <= Len(steps')
    <3>0. proven_preload[m] \in Nat /\ engaged[m] \in Nat \cup {Never}
      BY DEF AtCapture, CaptureTypes
    <3>1. proven_preload'[m] = PreloadAfter(m) /\ engaged' = engaged
      OBVIOUS
    <3>2. engaged'[m] # Never => engaged'[m] <= Len(steps')
      BY <1>4, <1>6, <3>0, <3>1 DEF AtCapture, PreloadCovered
    <3>3. CASE m \in certificate.preload
      <4>1. proven_preload'[m] = proven_preload[m] + 1
        BY <3>1, <3>3 DEF PreloadAfter
      <4>2. ASSUME NEW i \in 1..Len(steps'), i > Len(steps') - proven_preload'[m]
            PROVE  m \in steps'[i].checks.preload
        <5>1. CASE i \in 1..Len(steps)
          BY <5>1, <1>4, <1>6, <3>0, <4>1, <4>2 DEF AtCapture, PreloadCovered
        <5>2. CASE i = Len(steps) + 1
          BY <5>2, <1>4, <1>5, <3>3
        <5> QED
          BY <1>4, <1>6, <5>1, <5>2
      <4> QED
        BY <1>4, <1>6, <3>0, <3>2, <4>1, <4>2 DEF AtCapture, PreloadCovered
    <3>4. CASE m \notin certificate.preload
      <4>1. proven_preload'[m] = 0
        BY <3>1, <3>4 DEF PreloadAfter
      <4> QED
        BY <1>4, <1>6, <3>2, <4>1
    <3> QED
      BY <3>3, <3>4
  <2> QED
    BY <2>1 DEF PreloadCovered
<1>11. DwellCovered'
  <2>1. dwell \in Nat /\ dwell <= Len(steps) /\ contact = "move" /\ contact' = "settle"
    BY DEF AtCapture, CaptureTypes, DwellCovered
  <2>2. dwell' < Len(steps')
    BY <1>4, <1>6, <2>1
  <2>3. ASSUME NEW i \in 1..Len(steps') - 1, i > Len(steps') - 1 - dwell'
        PROVE  Settled(i)'
    <3>1. i \in 1..Len(steps) /\ i > Len(steps) - dwell
      BY <1>4, <1>6, <2>1, <2>3
    <3>2. Settled(i) /\ steps'[i] = steps[i]
      BY <1>4, <2>1, <3>1 DEF AtCapture, DwellCovered
    <3> QED
      BY <3>2 DEF Settled
  <2>4. steps'[Len(steps')].checks = certificate'
    BY <1>4, <1>5
  <2>5. certificate'.quiet => certificate'.ready
    BY <2>1 DEF AtCapture, DwellCovered
  <2> QED
    BY <2>1, <2>2, <2>3, <2>4, <2>5 DEF DwellCovered
<1>12. BondsFollowProvenPreload'
  <2>1. ASSUME NEW m \in Members, engaged[m] # Never
        PROVE  /\ engaged[m] >= PreloadDwell /\ engaged[m] <= Len(steps')
               /\ Supports(m, engaged[m] - PreloadDwell, engaged[m] - 1)'
    <3>1. /\ engaged[m] \in Nat /\ engaged[m] >= PreloadDwell /\ engaged[m] <= Len(steps)
          /\ Supports(m, engaged[m] - PreloadDwell, engaged[m] - 1)
      BY <2>1 DEF AtCapture, CaptureTypes, BondsFollowProvenPreload
    <3>2. ASSUME NEW i \in 1..Len(steps'),
                 steps'[i].start \in (engaged[m] - PreloadDwell)..(engaged[m] - 1)
          PROVE  m \in steps'[i].checks.preload
      <4>1. CASE i \in 1..Len(steps)
        BY <4>1, <1>4, <3>1, <3>2 DEF Supports
      <4>2. CASE i = Len(steps) + 1
        BY <4>2, <1>1, <1>4, <1>5, <3>1, <3>2
      <4> QED
        BY <1>4, <1>6, <4>1, <4>2
    <3> QED
      BY <1>4, <1>6, <3>1, <3>2 DEF Supports
  <2> QED
    BY <2>1 DEF BondsFollowProvenPreload, Supports
<1>13. LockFollowsItsPlan'
  BY <1>1, EmptySeq DEF LockFollowsItsPlan
<1>14. Admitted
  <2>1. clock < proved /\ clock < clock' /\ clock' <= proved /\ clock' \in Nat
    BY <1>1
  <2> QED
    BY <2>1 DEF Admitted, Flight!Next, Flight!Move
<1> QED
  BY <1>7, <1>8, <1>9, <1>10, <1>11, <1>12, <1>13, <1>14 DEF AtCapture

\* The dwell counts a step only if the certificate that carried it allows.
LEMMA SettleCapture ==
  ASSUME AtCapture, capture = "contact", Settle, UNCHANGED capture_vars
  PROVE  AtCapture' /\ Admitted
<1>1. CASE ContactRefused("settle")
  BY <1>1, ContactLooks, RefusedIsAdmitted
     DEF ContactRefused, ContactStep, ContactPoints, contact_run
<1>2. ASSUME NEW quiet \in SettlingState,
             contact = "settle",
             dwell' = IF Eligible(quiet) THEN dwell + 1 ELSE 0,
             contact' \in IF dwell' >= SettlingDwell THEN {"succeeded", "failed"} ELSE {"guard"},
             certificate' = Never,
             UNCHANGED <<clock, proved, rule, steps, halvings, proven_preload, engaged>>
      PROVE  AtCapture' /\ Admitted
  <2> USE DEF capture_vars, lock_run
  <2>1. /\ dwell \in Nat /\ dwell < Len(steps) /\ steps \in Seq(ContactRecord)
        /\ certificate \in Checks /\ (certificate.quiet => certificate.ready)
        /\ steps[Len(steps)].checks = certificate
        /\ \A i \in 1..Len(steps) - 1 : i > Len(steps) - 1 - dwell => Settled(i)
    BY <1>2 DEF AtCapture, CaptureTypes, DwellCovered
  <2>2. Len(steps) \in Nat
    BY <2>1, LenProperties
  <2>3. dwell' \in Nat /\ dwell' <= Len(steps)
    <3>1. CASE Eligible(quiet)
      BY <1>2, <2>1, <2>2, <3>1
    <3>2. CASE ~Eligible(quiet)
      BY <1>2, <2>1, <2>2, <3>2
    <3> QED
      BY <3>1, <3>2
  <2>4. ASSUME NEW i \in 1..Len(steps), i > Len(steps) - dwell'
        PROVE  Settled(i)
    <3>1. Eligible(quiet) /\ dwell' = dwell + 1
      <4>1. dwell' # 0
        BY <2>2, <2>3, <2>4
      <4> QED
        BY <1>2, <4>1
    <3>2. CASE i \in 1..Len(steps) - 1
      BY <2>1, <2>2, <2>4, <3>1, <3>2
    <3>3. CASE i = Len(steps)
      <4>1. IF rule = "settled_passive" THEN certificate.quiet ELSE certificate.ready
        BY <3>1 DEF Eligible
      <4>2. steps[i].checks = certificate
        BY <2>1, <3>3
      <4> QED
        BY <2>1, <4>1, <4>2 DEF Settled
    <3> QED
      BY <2>2, <3>2, <3>3
  <2>5. contact' \in {"succeeded", "failed", "guard"}
    BY <1>2
  <2>6. contact' = "succeeded" => dwell' >= SettlingDwell
    BY <1>2
  <2>7. CaptureTypes'
    BY <1>2, <2>3, <2>5 DEF AtCapture, CaptureTypes, ContactPoints
  <2>8. CapturePoint'
    BY <1>2, <2>5 DEF AtCapture, CapturePoint, Gates, Locking
  <2>9. CaptureClock'
    BY <1>2, <2>5 DEF AtCapture, CaptureClock
  <2>10. PreloadCovered'
    BY <1>2 DEF AtCapture, PreloadCovered
  <2>11. DwellCovered'
    BY <1>2, <2>3, <2>4, <2>5, <2>6 DEF DwellCovered, Settled
  <2>12. BondsFollowProvenPreload'
    BY <1>2 DEF AtCapture, BondsFollowProvenPreload, Supports
  <2>13. LockFollowsItsPlan'
    BY <1>2 DEF AtCapture, LockFollowsItsPlan, CapturePoint
  <2> QED
    BY <1>2, <2>7, <2>8, <2>9, <2>10, <2>11, <2>12, <2>13 DEF AtCapture, Admitted
<1> QED
  BY <1>1, <1>2 DEF Settle

LEMMA ContactCapture ==
  ASSUME AtCapture, Contact
  PROVE  AtCapture' /\ Admitted
<1>1. capture = "contact" /\ UNCHANGED capture_vars /\ ContactNext
  BY DEF Contact
<1>2. ASSUME BuildInitialSet \/ Guard \/ Command \/ ConditionSet \/ ConditionStrain \/ RefinedBound
             \/ MoveFails
      PROVE  AtCapture' /\ Admitted
  <2>1. /\ contact \in ContactPoints /\ UNCHANGED clock
        /\ \/ contact' = "failed" /\ proved' = clock
           \/ /\ contact \notin {"move", "settle", "failed"} /\ UNCHANGED proved
              /\ contact' \in ContactPoints \ {"move", "settle", "succeeded"}
    BY <1>2 DEF BuildInitialSet, Guard, Command, ConditionSet, ConditionStrain, RefinedBound,
                MoveFails, ContactRefused, ContactStep, ContactPoints
  <2>2. UNCHANGED <<rule, steps, certificate, proven_preload, engaged, dwell>>
    BY <1>2 DEF BuildInitialSet, Guard, Command, ConditionSet, ConditionStrain, RefinedBound,
                MoveFails, ContactRefused, ContactStep, contact_run
  <2>3. Admitted
    BY <2>1, RefusedIsAdmitted DEF Admitted
  <2> QED
    BY <1>1, <2>1, <2>2, <2>3, ContactLooks
<1> QED
  BY <1>1, <1>2, BondEventsCapture, BoundCapture, MoveCapture, SettleCapture DEF ContactNext

-----------------------------------------------------------------------------
(* The gates and the lock                                                  *)

\* Nothing of the contact or of the profile changes, and nothing moves.
LEMMA GatesCapture ==
  ASSUME AtCapture, Qualification \/ Truth \/ Target \/ Chasers
  PROVE  AtCapture' /\ Admitted
<1>1. /\ capture \in Gates /\ capture' \in Gates \cup {"refused"}
      /\ UNCHANGED <<contact_vars, lock_run>>
  BY DEF Qualification, Truth, Target, Chasers, Gate, Gates
<1> USE <1>1 DEF contact_vars, contact_run, lock_run
<1>2. CaptureTypes'
  BY DEF AtCapture, CaptureTypes
<1>3. CapturePoint'
  BY DEF AtCapture, CapturePoint, Gates, Locking
<1>4. CaptureClock'
  BY DEF AtCapture, CaptureClock, Gates
<1>5. PreloadCovered' /\ DwellCovered'
  BY DEF AtCapture, PreloadCovered, DwellCovered, Settled
<1>6. BondsFollowProvenPreload' /\ LockFollowsItsPlan'
  BY DEF AtCapture, BondsFollowProvenPreload, Supports, LockFollowsItsPlan
<1> QED
  BY <1>2, <1>3, <1>4, <1>5, <1>6 DEF AtCapture, Admitted

\* The contact begins with lists of its own.
LEMMA PairsCapture ==
  ASSUME AtCapture, Pairs
  PROVE  AtCapture' /\ Admitted
<1> USE DEF lock_run, CaptureStep
<1>1. capture = "pairs" /\ UNCHANGED <<clock, proved, lock_run>>
  BY DEF Pairs
<1>2. /\ contact = "off" /\ steps = <<>> /\ plan = <<>> /\ executed = <<>> /\ carried = Never
      /\ proved = clock /\ clock = 0
  BY <1>1, EmptySeq DEF AtCapture, CapturePoint, CaptureClock, Gates
<1>3. CASE capture' = "refused" /\ UNCHANGED <<contact, contact_run>>
  <2>1. CaptureTypes'
    BY <1>1, <1>3 DEF AtCapture, CaptureTypes, contact_run
  <2>2. CapturePoint'
    BY <1>1, <1>2, <1>3 DEF AtCapture, CapturePoint, Gates, Locking
  <2>3. CaptureClock'
    BY <1>1, <1>3 DEF AtCapture, CaptureClock, contact_run
  <2>4. PreloadCovered' /\ DwellCovered'
    BY <1>3 DEF AtCapture, PreloadCovered, DwellCovered, Settled, contact_run
  <2>5. BondsFollowProvenPreload' /\ LockFollowsItsPlan'
    BY <1>1, <1>3 DEF AtCapture, BondsFollowProvenPreload, Supports, LockFollowsItsPlan, contact_run
  <2> QED
    BY <1>1, <2>1, <2>2, <2>3, <2>4, <2>5 DEF AtCapture, Admitted
<1>4. CASE capture' = "contact" /\ contact' = "begin" /\ ContactFresh(Rules)
  <2>1. /\ steps' = <<>> /\ dwell' = 0
        /\ proven_preload' = [m \in Members |-> 0] /\ engaged' = [m \in Members |-> Never]
    BY <1>4 DEF ContactFresh
  <2>2. steps' \in Seq(ContactRecord) /\ Len(steps') = 0
    BY <2>1, EmptySeq
  <2>3. CaptureTypes'
    BY <1>1, <1>4, <2>1, <2>2 DEF AtCapture, CaptureTypes, ContactPoints
  <2>4. CapturePoint'
    BY <1>1, <1>2, <1>4 DEF AtCapture, CapturePoint, Gates, Locking
  <2>5. CaptureClock'
    BY <1>1, <1>2, <1>4, <2>1, <2>2, EmptySeq DEF CaptureClock
  <2>6. PreloadCovered' /\ DwellCovered'
    BY <1>4, <2>1, <2>2 DEF PreloadCovered, DwellCovered
  <2>7. BondsFollowProvenPreload'
    BY <2>1 DEF BondsFollowProvenPreload
  <2>8. LockFollowsItsPlan'
    BY <1>1, <1>2, EmptySeq DEF LockFollowsItsPlan
  <2> QED
    BY <1>1, <2>3, <2>4, <2>5, <2>6, <2>7, <2>8 DEF AtCapture, Admitted
<1> QED
  BY <1>3, <1>4 DEF Pairs

\* The lock begins where the contact ended; a contact that failed ends it all.
LEMMA ReturnedCapture ==
  ASSUME AtCapture, ContactReturned
  PROVE  AtCapture' /\ Admitted
<1> USE DEF contact_vars, contact_run, lock_run, CaptureStep, ContactReturned
<1>1. capture = "contact" /\ plan = <<>> /\ executed = <<>> /\ carried = Never
  BY DEF AtCapture, CapturePoint
<1>2. CaptureTypes'
  BY DEF AtCapture, CaptureTypes, Locking
<1>3. CapturePoint'
  BY <1>1 DEF AtCapture, CapturePoint, Gates, Locking
<1>4. CaptureClock'
  BY DEF AtCapture, CaptureClock
<1>5. PreloadCovered' /\ DwellCovered'
  BY DEF AtCapture, PreloadCovered, DwellCovered, Settled
<1>6. BondsFollowProvenPreload' /\ LockFollowsItsPlan'
  BY DEF AtCapture, BondsFollowProvenPreload, Supports, LockFollowsItsPlan
<1> QED
  BY <1>2, <1>3, <1>4, <1>5, <1>6 DEF AtCapture, Admitted

\* A step of the lock keeps all there is of the contact.
LEMMA ContactKept ==
  ASSUME AtCapture, UNCHANGED <<contact, contact_run>>
  PROVE  PreloadCovered' /\ DwellCovered' /\ BondsFollowProvenPreload'
  BY DEF AtCapture, PreloadCovered, DwellCovered, Settled, BondsFollowProvenPreload, Supports,
         contact_run

\* What was declared is a number; a plan is made for the one that is frozen.
LEMMA DeclaredCapture ==
  ASSUME AtCapture, DeclarationChanges \/ Declare
  PROVE  AtCapture' /\ Admitted
<1>1. /\ UNCHANGED <<contact_vars, plan, whole, executed, carried>>
      /\ declaration' \in {declaration, declaration + 1}
      /\ \/ capture \in {"preflight", "replay"} /\ capture' = capture /\ frozen' = frozen
         \/ capture = "declare" /\ capture' \in {"preflight", "refused"}
  BY DEF DeclarationChanges, Declare, CaptureStep
<1> USE DEF contact_vars, contact_run
<1>2. CaptureTypes'
  BY <1>1 DEF AtCapture, CaptureTypes, Locking
<1>3. CapturePoint'
  BY <1>1 DEF AtCapture, CapturePoint, Gates, Locking
<1>4. CaptureClock'
  BY <1>1 DEF AtCapture, CaptureClock
<1>5. LockFollowsItsPlan'
  <2>1. CASE capture = "declare"
    <3>1. executed = <<>> /\ carried = Never /\ plan = <<>>
      BY <2>1 DEF AtCapture, CapturePoint
    <3> QED
      BY <1>1, <3>1, EmptySeq DEF LockFollowsItsPlan
  <2>2. CASE capture # "declare"
    BY <1>1, <2>2 DEF AtCapture, LockFollowsItsPlan
  <2> QED
    BY <2>1, <2>2
<1> QED
  BY <1>1, <1>2, <1>3, <1>4, <1>5, ContactKept DEF AtCapture, Admitted

\* A refusal of the lock, and an exception of the capture.
LEMMA LockRefused ==
  ASSUME AtCapture, UNCHANGED <<clock, contact, contact_run, lock_run>>, proved' = clock,
         capture # "captured", capture' \in {"refused", "raised"}
  PROVE  AtCapture' /\ Admitted
<1> USE DEF contact_run, lock_run
<1>0. carried = Never
  BY DEF AtCapture, CapturePoint
<1>1. CaptureTypes'
  BY DEF AtCapture, CaptureTypes
<1>2. CapturePoint'
  BY <1>0 DEF AtCapture, CapturePoint, Gates, Locking
<1>3. CaptureClock'
  BY DEF AtCapture, CaptureClock
<1>4. LockFollowsItsPlan'
  BY DEF AtCapture, LockFollowsItsPlan
<1> QED
  BY <1>1, <1>2, <1>3, <1>4, ContactKept, RefusedIsAdmitted DEF AtCapture

\* The plan grows by the end of the next step of the profile.
LEMMA PreflightCapture ==
  ASSUME AtCapture, PreflightStep
  PROVE  AtCapture' /\ Admitted
<1> USE DEF CaptureStep, contact_vars
<1>1. /\ UNCHANGED <<clock, proved, contact, contact_run, declaration, frozen, whole, executed,
                     carried>>
      /\ capture = "preflight" /\ Len(plan) < LockSteps
  BY DEF PreflightStep
<1>2. /\ executed = <<>> /\ carried = Never /\ proved = clock /\ clock \in Nat
      /\ clock = Len(steps) /\ plan \in Seq(Nat)
  BY <1>1, EmptySeq DEF AtCapture, CapturePoint, CaptureClock, CaptureTypes
<1>3. CASE capture' = "refused" /\ UNCHANGED plan
  BY <1>1, <1>2, <1>3, LockRefused DEF lock_run
<1>4. CASE capture' = "preflight" /\ plan' = Append(plan, clock + Len(plan) + 1)
  <2>0. Len(plan) \in Nat
    BY <1>2, LenProperties
  <2>1. clock + Len(plan) + 1 \in Nat
    BY <1>2, <2>0
  <2> DEFINE end == clock + Len(plan) + 1
  <2>2. plan' = Append(plan, end) /\ end \in Nat
    BY <1>4, <2>1
  <2>3. end = Len(steps) + (Len(plan) + 1)
    BY <1>2, <2>0
  <2> HIDE DEF end
  <2>4. /\ plan' \in Seq(Nat) /\ Len(plan') = Len(plan) + 1
        /\ \A i \in 1..Len(plan) : plan'[i] = plan[i]
        /\ plan'[Len(plan) + 1] = end
    BY <1>2, <2>2, AppendProperties
  <2>5. CaptureTypes'
    BY <1>1, <1>4, <2>4 DEF AtCapture, CaptureTypes, contact_run
  <2>6. CapturePoint'
    BY <1>1, <1>2, <1>4 DEF AtCapture, CapturePoint, Gates, Locking
  <2>7. CaptureClock'
    <3>1. ASSUME NEW i \in 1..Len(plan') PROVE plan'[i] = Len(steps) + i
      <4>1. CASE i \in 1..Len(plan)
        BY <4>1, <2>4 DEF AtCapture, CaptureClock
      <4>2. CASE i = Len(plan) + 1
        BY <4>2, <2>3, <2>4
      <4> QED
        BY <2>0, <2>4, <4>1, <4>2
    <3> QED
      BY <1>1, <1>4, <3>1 DEF AtCapture, CaptureClock, contact_run
  <2>8. LockFollowsItsPlan'
    BY <1>1, <1>2, <2>0, <2>4, EmptySeq DEF LockFollowsItsPlan
  <2> QED
    BY <1>1, <2>5, <2>6, <2>7, <2>8, ContactKept DEF AtCapture, Admitted
<1> QED
  BY <1>1, <1>3, <1>4 DEF PreflightStep

\* What is proved ahead is all of the profile.
LEMMA PreflightDoneCapture ==
  ASSUME AtCapture, PreflightDone
  PROVE  AtCapture' /\ Admitted
<1>1. /\ UNCHANGED <<clock, contact, contact_run, declaration, frozen, plan, executed, carried>>
      /\ capture = "preflight" /\ Len(plan) = LockSteps
  BY DEF PreflightDone
<1>2. /\ executed = <<>> /\ carried = Never /\ proved = clock /\ clock \in Nat
      /\ clock = Len(steps) /\ plan \in Seq(Nat)
  BY <1>1, EmptySeq DEF AtCapture, CapturePoint, CaptureClock, CaptureTypes
<1>3. CASE capture' = "refused" /\ UNCHANGED <<whole, proved>>
  BY <1>1, <1>2, <1>3, LockRefused DEF lock_run
<1>4. CASE capture' = "replay" /\ whole' = TRUE /\ proved' = Last(plan)
  <2>1. proved' = Len(steps) + LockSteps
    BY <1>1, <1>2, <1>4, LockAssumption DEF AtCapture, CaptureClock, Last
  <2>2. proved' \in Nat /\ proved' > clock
    BY <1>2, <2>1, LockAssumption
  <2>3. CaptureTypes'
    BY <1>1, <1>4, <2>2 DEF AtCapture, CaptureTypes, Locking, contact_run
  <2>4. CapturePoint'
    BY <1>1, <1>2, <1>4 DEF AtCapture, CapturePoint, Gates, Locking
  <2>5. CaptureClock'
    BY <1>1, <1>4, <2>1 DEF AtCapture, CaptureClock, contact_run
  <2>6. LockFollowsItsPlan'
    BY <1>1, <1>2, EmptySeq DEF AtCapture, LockFollowsItsPlan
  <2>7. Admitted
    BY <1>1, <1>2, <2>2 DEF Admitted, Flight!Next, Flight!Prove
  <2> QED
    BY <1>1, <2>3, <2>4, <2>5, <2>6, <2>7, ContactKept DEF AtCapture
<1> QED
  BY <1>1, <1>3, <1>4 DEF PreflightDone

\* Each step of the replay is the next one of the plan.
LEMMA ReplayCapture ==
  ASSUME AtCapture, ReplayStep
  PROVE  AtCapture' /\ Admitted
<1> USE DEF ReplayStep
<1> DEFINE done == [end |-> plan[Len(executed) + 1], under |-> declaration]
<1>1. /\ whole /\ Len(plan) = LockSteps /\ contact = "succeeded" /\ carried = Never
      /\ proved = Len(steps) + LockSteps /\ clock = Len(steps) + Len(executed)
      /\ clock \in Nat /\ proved \in Nat /\ declaration \in Nat
      /\ plan \in Seq(Nat) /\ executed \in Seq(LockRecord)
  BY DEF AtCapture, CapturePoint, CaptureClock, CaptureTypes, Locking
<1>2. Len(executed) \in Nat /\ Len(executed) < LockSteps /\ Len(steps) \in Nat /\ LockSteps \in Nat
  BY <1>1, LenProperties, LockAssumption DEF AtCapture, CaptureTypes
<1>3. Len(executed) + 1 \in 1..Len(plan)
  BY <1>1, <1>2
<1>4. plan[Len(executed) + 1] = clock + 1
  <2>1. plan[Len(executed) + 1] = Len(steps) + (Len(executed) + 1)
    BY <1>3 DEF AtCapture, CaptureClock
  <2> QED
    BY <1>1, <1>2, <2>1
<1>5. clock' = clock + 1 /\ done \in LockRecord
  BY <1>1, <1>4 DEF LockRecord
<1>6. done.end = plan[Len(executed) + 1] /\ done.under = frozen
  OBVIOUS
<1>7. executed' = Append(executed, done)
  OBVIOUS
<1> HIDE DEF done
<1>8. /\ executed' \in Seq(LockRecord) /\ Len(executed') = Len(executed) + 1
      /\ \A i \in 1..Len(executed) : executed'[i] = executed[i]
      /\ executed'[Len(executed) + 1] = done
  BY <1>1, <1>5, <1>7, AppendProperties
<1>9. CaptureTypes'
  BY <1>1, <1>5, <1>8 DEF AtCapture, CaptureTypes, contact_run
<1>10. CapturePoint'
  BY <1>1 DEF AtCapture, CapturePoint, Gates, Locking, contact_run
<1>11. CaptureClock'
  BY <1>1, <1>2, <1>5, <1>8 DEF AtCapture, CaptureClock, contact_run
<1>12. LockFollowsItsPlan'
  <2>1. ASSUME NEW i \in 1..Len(executed')
        PROVE  executed'[i].end = plan[i] /\ executed'[i].under = frozen
    <3>1. CASE i \in 1..Len(executed)
      BY <3>1, <1>8 DEF AtCapture, LockFollowsItsPlan
    <3>2. CASE i = Len(executed) + 1
      BY <3>2, <1>6, <1>8
    <3> QED
      BY <1>2, <1>8, <3>1, <3>2
  <2>2. Len(executed') <= Len(plan)
    BY <1>1, <1>2, <1>8
  <2> QED
    BY <1>1, <2>1, <2>2 DEF LockFollowsItsPlan
<1>13. Admitted
  <2>1. clock < proved /\ clock < clock' /\ clock' <= proved /\ clock' \in Nat
    BY <1>1, <1>2, <1>5
  <2> QED
    BY <2>1 DEF Admitted, Flight!Next, Flight!Move
<1> QED
  BY <1>9, <1>10, <1>11, <1>12, <1>13, ContactKept DEF AtCapture

\* The state that is handed on carries the time of all that was moved.
LEMMA HandoffCapture ==
  ASSUME AtCapture, Handoff
  PROVE  AtCapture' /\ Admitted
<1>1. /\ UNCHANGED <<clock, proved, contact, contact_run, declaration, frozen, plan, whole, executed>>
      /\ capture = "replay" /\ Len(executed) = Len(plan)
  BY DEF Handoff, contact_vars
<1>2. /\ Len(plan) = LockSteps /\ clock = Len(steps) + Len(executed)
      /\ proved = Len(steps) + LockSteps /\ proved = clock
      /\ LockSteps \in 1..Len(plan) /\ plan[LockSteps] = clock
  BY <1>1, LockAssumption DEF AtCapture, CapturePoint, CaptureClock
<1>3. CASE capture' = "refused" /\ UNCHANGED carried
  BY <1>1, <1>2, <1>3, LockRefused DEF lock_run
<1>4. CASE capture' = "captured" /\ carried' = Len(steps) + Len(executed)
  <2>1. CaptureTypes'
    BY <1>1, <1>4 DEF AtCapture, CaptureTypes, Locking, contact_run
  <2>2. CapturePoint'
    BY <1>1, <1>4 DEF AtCapture, CapturePoint, Gates, Locking
  <2>3. CaptureClock'
    BY <1>1, <1>2, <1>4 DEF AtCapture, CaptureClock, contact_run
  <2>4. LockFollowsItsPlan'
    BY <1>1, <1>2, <1>4 DEF AtCapture, LockFollowsItsPlan
  <2> QED
    BY <1>1, <2>1, <2>2, <2>3, <2>4, ContactKept DEF AtCapture, Admitted
<1> QED
  BY <1>1, <1>3, <1>4 DEF Handoff

LEMMA CaptureSteps ==
  ASSUME AtCapture, CaptureNext
  PROVE  AtCapture' /\ Admitted
<1>1. CASE ReplayRefused \/ CaptureRaises
  BY <1>1, LockRefused DEF ReplayRefused, CaptureRaises, CaptureStep
<1> QED
  BY <1>1, GatesCapture, PairsCapture, ContactCapture, ReturnedCapture, DeclaredCapture,
     PreflightCapture, PreflightDoneCapture, ReplayCapture, HandoffCapture DEF CaptureNext

\* The settling that is reported is the dwell that was counted.
LEMMA SettlingCovered == AtCapture => SettlingIsProven
<1> SUFFICES ASSUME AtCapture, contact = "succeeded"
             PROVE  /\ Len(steps) <= clock
                    /\ \A i \in 1..Len(steps) : steps[i].start = i - 1
                    /\ \A i \in (Len(steps) - SettlingDwell + 1)..Len(steps) : Settled(i)
  BY DEF SettlingIsProven, Settled
<1>1. Len(steps) \in Nat /\ Len(executed) \in Nat /\ dwell \in Nat /\ SettlingDwell \in Nat
  BY LenProperties, ContactAssumption DEF AtCapture, CaptureTypes
<1>2. /\ dwell <= Len(steps) /\ dwell >= SettlingDwell
      /\ \A i \in 1..Len(steps) : i > Len(steps) - dwell => Settled(i)
  BY DEF AtCapture, DwellCovered
<1>3. ASSUME NEW i \in (Len(steps) - SettlingDwell + 1)..Len(steps) PROVE Settled(i)
  <2>1. i \in 1..Len(steps) /\ i > Len(steps) - dwell
    BY <1>1, <1>2, <1>3
  <2> QED
    BY <1>2, <2>1
<1> QED
  BY <1>1, <1>3 DEF AtCapture, CaptureClock

-----------------------------------------------------------------------------
(* The detumbling                                                          *)

\* A detumbling step leaves the descent where it was.
LEMMA DescentKept ==
  ASSUME FlightInv, flight \in DetumblingPoints, flight' \in DetumblingPoints,
         UNCHANGED deorbit_run
  PROVE  FallIsBracketed' /\ WindowIsOpen' /\ EntryIsBracketed' /\ BurnIsBounded'
<1>1. ~certified
  BY DEF FlightInv, FallIsBracketed, DetumblingPoints, TurnCounted
<1>2. flight' \notin ThrustPoints \cup {"burning", "burned", "deorbited"}
  BY DEF DetumblingPoints, TurnCounted, ThrustPoints
<1> QED
  BY <1>1, <1>2
     DEF FlightInv, FallIsBracketed, WindowIsOpen, EntryIsBracketed, BurnIsBounded, deorbit_run,
         monitor

\* Before a hold is flown the turns and their dwell are as they were.
LEMMA TurnsKept ==
  ASSUME FlightInv, UNCHANGED <<clock, turns, quiet_dwell>>,
         flight \in {"authority", "observe", "torque", "preflight", "backoff", "turn"},
         flight' \in {"observe", "torque", "preflight", "backoff", "turn", "turning",
                      "not_detumbled"}
  PROVE  TurnsFollow' /\ DwellCounted' /\ QuietDwellIsWhole'
<1>1. TurnsFollow'
  BY DEF FlightInv, TurnsFollow, TurnCounted
<1>2. DwellCounted'
  <2>1. DwellOf(Len(turns))
    BY DEF FlightInv, DwellCounted, TurnCounted, DwellOf
  <2>2. DwellOf(Len(turns))'
    BY <2>1 DEF DwellOf
  <2> QED
    BY <2>2 DEF DwellCounted
<1>3. QuietDwellIsWhole'
  BY DEF QuietDwellIsWhole
<1> QED
  BY <1>1, <1>2, <1>3

LEMMA AuthorityFlight ==
  ASSUME FlightInv, Authority, UNCHANGED deorbit_run
  PROVE  FlightInv' /\ flight' \in DetumblingPoints /\ Admitted
<1> USE DEF Authority
<1>1. flight \in DetumblingPoints /\ flight' \in DetumblingPoints /\ flight' \notin HoldPoints
  BY DEF DetumblingPoints, TurnCounted, HoldPoints, Proving, Moving, ThrustPoints
<1>2. FlightTypes'
  BY <1>1 DEF FlightInv, FlightTypes, deorbit_run, detumbling_run, orbit_run, monitor, held
<1>3. HoldInHand' /\ HeldLoadsAreProven'
  BY <1>1 DEF FlightInv, HoldInHand, HeldLoadsAreProven, HoldPoints, Proving, Moving
<1> QED
  BY <1>1, <1>2, <1>3, DescentKept, TurnsKept DEF FlightInv, detumbling_run, Admitted

\* A hold that begins has a duration.
LEMMA ObserveFlight ==
  ASSUME FlightInv, Observe, UNCHANGED deorbit_run
  PROVE  FlightInv' /\ flight' \in DetumblingPoints /\ Admitted
<1> USE DEF Observe, FlightStep
<1>1. flight \in DetumblingPoints /\ flight' \in DetumblingPoints
  BY DEF DetumblingPoints, TurnCounted
<1>2. hold' \in Nat /\ (flight' = "torque" => hold' > 0)
  <2>1. clock \in Nat /\ began \in Nat /\ hold \in Nat
    BY DEF FlightInv, FlightTypes
  <2>2. CASE hold' = AtMost(DetumblingStep, began + MaxDetumbling - clock)
             /\ clock < began + MaxDetumbling
    <3>1. began + MaxDetumbling - clock \in Nat \ {0}
      BY <2>1, <2>2, DetumblingAssumption
    <3> QED
      BY <2>2, <3>1, DetumblingAssumption DEF AtMost
  <2> QED
    BY <2>1, <2>2
<1>3. FlightTypes'
  BY <1>1, <1>2 DEF FlightInv, FlightTypes, deorbit_run, orbit_run, monitor
<1>4. HoldInHand' /\ HeldLoadsAreProven'
  BY <1>2 DEF FlightInv, HoldInHand, HeldLoadsAreProven, HoldPoints, Proving, Moving, ThrustPoints
<1> QED
  BY <1>1, <1>3, <1>4, DescentKept, TurnsKept DEF FlightInv, Admitted

\* The allocation and the loads of this moment choose the command.
LEMMA CommandFlight ==
  ASSUME FlightInv, AllocateTorque \/ PreflightTorque, UNCHANGED deorbit_run
  PROVE  FlightInv' /\ flight' \in DetumblingPoints /\ Admitted
<1> USE DEF AllocateTorque, PreflightTorque, Solved, Dilated, FlightStep
<1>1. /\ flight \in {"torque", "preflight"} /\ flight' \in {"preflight", "backoff", "not_detumbled"}
      /\ UNCHANGED <<clock, proved, began, hold, loads, turns, quiet_dwell>>
  OBVIOUS
<1>2. command' \in Nat
  <2>1. command \in Nat /\ FullCommand \in Nat
    BY DetumblingAssumption DEF FlightInv, FlightTypes
  <2> QED
    BY <2>1
<1> HIDE DEF AllocateTorque, PreflightTorque, Solved, Dilated, FlightStep
<1>3. flight \in DetumblingPoints /\ flight' \in DetumblingPoints
  BY <1>1 DEF DetumblingPoints, TurnCounted
<1>4. FlightTypes'
  BY <1>1, <1>2, <1>3 DEF FlightInv, FlightTypes, deorbit_run, orbit_run, monitor
<1>5. HoldInHand' /\ HeldLoadsAreProven'
  BY <1>1 DEF FlightInv, HoldInHand, HeldLoadsAreProven, HoldPoints, Proving, Moving, ThrustPoints
<1> QED
  BY <1>1, <1>3, <1>4, <1>5, DescentKept, TurnsKept DEF FlightInv, Admitted

\* The command that goes on has its loads proved to the end of the hold.
LEMMA LoadsInHand ==
  ASSUME FlightInv, NEW scaled \in 0..command, loads' = LoadsProven(scaled, hold)
  PROVE  /\ loads' \in LoadsRecord /\ loads' # Never /\ scaled \in Nat
         /\ loads'.command = scaled /\ loads'.to = clock + hold
<1>1. clock \in Nat /\ hold \in Nat /\ command \in Nat
  BY DEF FlightInv, FlightTypes
<1>2. loads' = [command |-> scaled, to |-> clock + hold] /\ scaled \in Nat /\ clock + hold \in Nat
  BY <1>1 DEF LoadsProven
<1>3. loads' \in LoadsRecord
  BY <1>2 DEF LoadsRecord
<1> QED
  BY <1>2, <1>3, LoadsAssumption DEF LoadsRecord

\* What BackedOff leaves at the two points it can lead to.
LEMMA BackedOffHold ==
  ASSUME FlightInv, NEW here, NEW there, NEW refused, BackedOff(here, there, refused),
         UNCHANGED <<clock, hold>>
  PROVE  /\ flight = here /\ flight' \in {there, refused}
         /\ command' \in Nat /\ loads' \in LoadsRecord \cup {Never}
         /\ flight' = refused \/ (loads' # Never /\ loads'.command = command'
                                   /\ clock + hold <= loads'.to)
<1>1. CASE FlightStep(here, refused) /\ command' = 0 /\ UNCHANGED loads
  BY <1>1 DEF FlightStep, FlightInv, FlightTypes
<1>2. ASSUME NEW scaled \in 0..command, FlightStep(here, there), command' = scaled,
             loads' = LoadsProven(scaled, hold)
      PROVE  /\ flight = here /\ flight' = there
             /\ command' \in Nat /\ loads' \in LoadsRecord
             /\ loads' # Never /\ loads'.command = command' /\ clock + hold <= loads'.to
  <2>1. clock + hold \in Nat
    BY DEF FlightInv, FlightTypes
  <2> QED
    BY <1>2, <2>1, LoadsInHand DEF FlightStep
<1> QED
  BY <1>1, <1>2 DEF BackedOff

LEMMA BackOffFlight ==
  ASSUME FlightInv, BackOffTorque, UNCHANGED deorbit_run
  PROVE  FlightInv' /\ flight' \in DetumblingPoints /\ Admitted
<1>1. UNCHANGED <<clock, proved, began, hold, turns, quiet_dwell>>
  BY DEF BackOffTorque
<1>2. /\ flight = "backoff" /\ flight' \in {"turn", "not_detumbled"}
      /\ command' \in Nat /\ loads' \in LoadsRecord \cup {Never}
      /\ flight' = "not_detumbled" \/ (loads' # Never /\ loads'.command = command'
                                         /\ clock + hold <= loads'.to)
  BY <1>1, BackedOffHold DEF BackOffTorque
<1>3. flight \in DetumblingPoints /\ flight' \in DetumblingPoints
  BY <1>2 DEF DetumblingPoints, TurnCounted
<1>4. FlightTypes'
  BY <1>1, <1>2, <1>3 DEF FlightInv, FlightTypes, deorbit_run, orbit_run, monitor
<1>5. HoldInHand' /\ HeldLoadsAreProven'
  BY <1>1, <1>2
     DEF FlightInv, HoldInHand, HeldLoadsAreProven, HoldPoints, Proving, Moving, ThrustPoints
<1> QED
  BY <1>1, <1>2, <1>3, <1>4, <1>5, DescentKept, TurnsKept DEF FlightInv, Admitted

\* The flow of a hold is proved from the present moment to its end, which lies
\* ahead.
LEMMA FlowAhead ==
  ASSUME FlightInv, NEW here \in Proving, NEW there \in Moving, NEW refused,
         refused \notin HoldPoints,
         FlowProved(here, there, refused), UNCHANGED <<hold, command, loads>>
  PROVE  /\ flight = here /\ flight' \in {there, refused} /\ UNCHANGED clock
         /\ HoldInHand' /\ HeldLoadsAreProven' /\ Admitted /\ proved' \in Nat
         /\ flight' = there => proved' = clock + hold
<1> USE DEF FlowProved, FlightStep, Still
<1>1. flight = here /\ flight' \in {there, refused} /\ UNCHANGED clock
  OBVIOUS
<1>2. clock \in Nat /\ hold \in Nat /\ hold > 0 /\ proved = clock
  BY <1>1 DEF FlightInv, FlightTypes, HoldInHand, HoldPoints, Proving, Moving
<1>3. loads # Never /\ loads.command = command /\ clock + hold <= loads.to
  BY <1>1 DEF FlightInv, HoldInHand
<1>4. CASE flight' = there /\ proved' = clock + hold
  <2>1. HoldInHand' /\ HeldLoadsAreProven'
    BY <1>1, <1>2, <1>3, <1>4 DEF HoldInHand, HeldLoadsAreProven, HoldPoints, Proving, Moving
  <2>2. proved' \in Nat /\ proved' > clock
    BY <1>2, <1>4
  <2> QED
    BY <1>1, <1>2, <1>4, <2>1, <2>2 DEF Admitted, Flight!Next, Flight!Prove
<1>5. CASE flight' = refused /\ proved' = clock
  <2>1. HoldInHand' /\ HeldLoadsAreProven'
    BY <1>1, <1>2, <1>5 DEF HoldInHand, HeldLoadsAreProven, HoldPoints, Proving, Moving
  <2>2. flight' # there
    BY <1>5 DEF HoldPoints, Moving
  <2> QED
    BY <1>1, <1>2, <1>5, <2>1, <2>2, RefusedIsAdmitted
<1> QED
  BY <1>4, <1>5

LEMMA ProveTurnFlight ==
  ASSUME FlightInv, ProveTurn, UNCHANGED deorbit_run
  PROVE  FlightInv' /\ flight' \in DetumblingPoints /\ Admitted
<1>1. FlowProved("turn", "turning", "not_detumbled") /\ UNCHANGED detumbling_run
  BY DEF ProveTurn
<1>2. /\ flight = "turn" /\ flight' \in {"turning", "not_detumbled"} /\ UNCHANGED clock
      /\ HoldInHand' /\ HeldLoadsAreProven' /\ Admitted /\ proved' \in Nat
  BY <1>1, FlowAhead DEF Proving, Moving, HoldPoints, ThrustPoints, detumbling_run, held
<1>3. flight \in DetumblingPoints /\ flight' \in DetumblingPoints
  BY <1>2 DEF DetumblingPoints, TurnCounted
<1>4. FlightTypes'
  BY <1>1, <1>2, <1>3
     DEF FlightInv, FlightTypes, deorbit_run, orbit_run, monitor, detumbling_run, held
<1> QED
  BY <1>1, <1>2, <1>3, <1>4, DescentKept, TurnsKept DEF FlightInv, detumbling_run

\* A turn is recorded for the interval that was flown.
LEMMA TurnFlight ==
  ASSUME FlightInv, Turn, UNCHANGED deorbit_run
  PROVE  FlightInv' /\ flight' \in DetumblingPoints /\ Admitted
<1>1. PICK end \in BOOLEAN, swept \in BOOLEAN :
        /\ swept => end
        /\ Flown("turning", "turned")
        /\ turns' = Append(turns, [from |-> clock, to |-> proved, end |-> end, swept |-> swept])
        /\ UNCHANGED <<began, held, quiet_dwell>>
  BY DEF Turn
<1> DEFINE turn == [from |-> clock, to |-> proved, end |-> end, swept |-> swept]
<1>2. /\ flight = "turning" /\ flight' = "turned" /\ clock' = proved /\ UNCHANGED proved
      /\ UNCHANGED <<began, hold, command, loads, quiet_dwell>>
  BY <1>1 DEF Flown, FlightStep, held
<1>3. clock \in Nat /\ proved \in Nat /\ hold \in Nat /\ hold > 0 /\ proved = clock + hold
  BY <1>2 DEF FlightInv, FlightTypes, HoldInHand, HoldPoints, Moving
<1>4. turn \in TurnRecord /\ turn.from = clock /\ turn.to = proved /\ turns \in Seq(TurnRecord)
  BY <1>3 DEF TurnRecord, FlightInv, FlightTypes
<1>5. turns' = Append(turns, turn)
  BY <1>1
<1> HIDE DEF turn
<1>6. /\ turns' \in Seq(TurnRecord) /\ Len(turns') = Len(turns) + 1 /\ Len(turns) \in Nat
      /\ \A i \in 1..Len(turns) : turns'[i] = turns[i]
      /\ turns'[Len(turns) + 1] = turn
  BY <1>4, <1>5, AppendProperties, LenProperties
<1>7. flight \in DetumblingPoints /\ flight' \in DetumblingPoints
  BY <1>2 DEF DetumblingPoints, TurnCounted
<1>8. FlightTypes'
  BY <1>2, <1>3, <1>6, <1>7 DEF FlightInv, FlightTypes, deorbit_run, orbit_run, monitor
<1>9. HoldInHand' /\ HeldLoadsAreProven'
  BY <1>2 DEF HoldInHand, HeldLoadsAreProven, HoldPoints, Proving, Moving, ThrustPoints
<1>10. TurnsFollow'
  <2>1. /\ \A i \in 1..Len(turns) - 1 : turns[i + 1].from = turns[i].to
        /\ turns # <<>> => turns[Len(turns)].to = clock
    BY <1>2 DEF FlightInv, TurnsFollow, TurnCounted
  <2>2. ASSUME NEW i \in 1..Len(turns') - 1 PROVE turns'[i + 1].from = turns'[i].to
    <3>1. i \in 1..Len(turns)
      BY <1>6, <2>2
    <3>2. CASE i \in 1..Len(turns) - 1
      <4>1. i + 1 \in 1..Len(turns)
        BY <1>6, <3>2
      <4> QED
        BY <1>6, <2>1, <3>1, <3>2, <4>1
    <3>3. CASE i = Len(turns)
      <4>1. turns # <<>>
        BY <1>6, <3>1, <3>3, EmptySeq
      <4> QED
        BY <1>4, <1>6, <2>1, <3>1, <3>3, <4>1
    <3> QED
      BY <1>6, <3>1, <3>2, <3>3
  <2>3. turns'[Len(turns')].to = clock'
    BY <1>2, <1>4, <1>6
  <2> QED
    BY <2>2, <2>3 DEF TurnsFollow
<1>11. DwellCounted'
  <2>1. DwellOf(Len(turns))
    BY <1>2 DEF FlightInv, DwellCounted, TurnCounted
  <2>2. DwellOf(Len(turns) - 1)'
    <3>1. CASE quiet_dwell = 0
      BY <1>2, <3>1 DEF DwellOf
    <3>2. ASSUME NEW first \in 1..Len(turns), \A i \in first..Len(turns) : turns[i].swept,
                 quiet_dwell = turns[Len(turns)].to - turns[first].from
          PROVE  DwellOf(Len(turns) - 1)'
      <4>1. Len(turns') - 1 = Len(turns) /\ Len(turns) \in 1..Len(turns)
        BY <1>6
      <4>2. \A i \in first..Len(turns) : turns'[i] = turns[i]
        BY <1>6
      <4>3. quiet_dwell' = turns'[Len(turns)].to - turns'[first].from
        BY <1>2, <3>2, <4>1, <4>2
      <4>4. \A i \in first..Len(turns) : turns'[i].swept
        BY <3>2, <4>2
      <4> QED
        BY <4>1, <4>3, <4>4 DEF DwellOf
    <3> QED
      BY <2>1, <3>1, <3>2 DEF DwellOf
  <2>3. turns' # <<>>
    BY <1>6, EmptySeq
  <2>4. hold' = turns'[Len(turns')].to - turns'[Len(turns')].from
    BY <1>2, <1>3, <1>4, <1>6
  <2> QED
    BY <1>2, <2>2, <2>3, <2>4 DEF DwellCounted, TurnCounted
<1>12. QuietDwellIsWhole'
  BY <1>2 DEF QuietDwellIsWhole
<1>13. Admitted
  BY <1>2, <1>3 DEF Admitted, Flight!Next, Flight!Move
<1> QED
  BY <1>7, <1>8, <1>9, <1>10, <1>11, <1>12, <1>13, DescentKept DEF FlightInv

\* A hold that was quiet throughout extends the dwell by all of it.
LEMMA DwellGrows ==
  ASSUME FlightInv, flight = "turned", Quiet, UNCHANGED turns, quiet_dwell' = quiet_dwell + hold
  PROVE  DwellOf(Len(turns))'
<1>1. /\ turns # <<>> /\ DwellOf(Len(turns) - 1) /\ turns \in Seq(TurnRecord)
      /\ hold = turns[Len(turns)].to - turns[Len(turns)].from
      /\ \A i \in 1..Len(turns) - 1 : turns[i + 1].from = turns[i].to
  BY DEF FlightInv, FlightTypes, DwellCounted, TurnsFollow
<1>2. Len(turns) \in Nat \ {0}
  BY <1>1, EmptySeq, LenProperties
<1>3. turns[Len(turns)].swept
  BY DEF Quiet, Last
<1>4. \A i \in 1..Len(turns) : turns[i].from \in Nat /\ turns[i].to \in Nat
  <2>1. \A i \in 1..Len(turns) : turns[i] \in TurnRecord
    BY <1>1, ElementOfSeq
  <2> QED
    BY <2>1 DEF TurnRecord
<1>5. CASE quiet_dwell = 0
  <2>1. quiet_dwell' = turns[Len(turns)].to - turns[Len(turns)].from
    BY <1>1, <1>2, <1>4, <1>5
  <2>2. \A i \in Len(turns)..Len(turns) : turns[i].swept
    BY <1>2, <1>3
  <2>3. Len(turns) \in 1..Len(turns)
    BY <1>2
  <2> QED
    BY <2>1, <2>2, <2>3 DEF DwellOf
<1>6. ASSUME NEW first \in 1..Len(turns) - 1, \A i \in first..Len(turns) - 1 : turns[i].swept,
             quiet_dwell = turns[Len(turns) - 1].to - turns[first].from
      PROVE  DwellOf(Len(turns))'
  <2>1. Len(turns) - 1 \in 1..Len(turns) - 1 /\ first \in 1..Len(turns)
    BY <1>2, <1>6
  <2>2. turns[Len(turns)].from = turns[Len(turns) - 1].to
    BY <1>1, <1>2, <2>1
  <2>3. /\ turns[Len(turns)].to \in Nat /\ turns[Len(turns)].from \in Nat
        /\ turns[first].from \in Nat
    BY <1>2, <1>4, <2>1
  <2>4. quiet_dwell' = turns[Len(turns)].to - turns[first].from
    <3>1. \A a, b, c \in Nat : (b - a) + (c - b) = c - a
      OBVIOUS
    <3>2. quiet_dwell = turns[Len(turns)].from - turns[first].from
      BY <1>6, <2>2
    <3>3. quiet_dwell' = (turns[Len(turns)].from - turns[first].from)
                           + (turns[Len(turns)].to - turns[Len(turns)].from)
      BY <1>1, <3>2, Zenon
    <3> QED
      BY <2>3, <3>1, <3>3, Zenon
  <2>5. \A i \in first..Len(turns) : turns[i].swept
    BY <1>2, <1>3, <1>6
  <2> QED
    BY <2>1, <2>4, <2>5 DEF DwellOf
<1> QED
  BY <1>1, <1>5, <1>6 DEF DwellOf

LEMMA TurnedFlight ==
  ASSUME FlightInv, Turned, UNCHANGED deorbit_run
  PROVE  FlightInv' /\ flight' \in DetumblingPoints /\ Admitted
<1>1. /\ UNCHANGED <<clock, proved, began, hold, turns>> /\ command' = 0 /\ loads' = Never
      /\ flight = "turned" /\ flight' \in {"observe", "detumbled", "not_detumbled"}
  BY DEF Turned, HoldSpent, FlightStep
<1>2. /\ flight' # "not_detumbled" => quiet_dwell' = IF Quiet THEN quiet_dwell + hold ELSE 0
      /\ flight' = "detumbled" => quiet_dwell' >= DetumblingDwell
      /\ quiet_dwell' \in {quiet_dwell, quiet_dwell + hold, 0}
  BY DEF Turned, FlightStep
<1>3. flight \in DetumblingPoints /\ flight' \in DetumblingPoints
  BY <1>1 DEF DetumblingPoints, TurnCounted
<1>4. FlightTypes'
  <2>1. quiet_dwell' \in Nat
    BY <1>2 DEF FlightInv, FlightTypes
  <2> QED
    BY <1>1, <1>3, <2>1 DEF FlightInv, FlightTypes, deorbit_run, orbit_run, monitor
<1>5. HoldInHand' /\ HeldLoadsAreProven'
  BY <1>1 DEF FlightInv, HoldInHand, HeldLoadsAreProven, HoldPoints, Proving, Moving, ThrustPoints
<1>6. TurnsFollow'
  BY <1>1 DEF FlightInv, TurnsFollow
<1>7. flight' # "not_detumbled" => DwellOf(Len(turns))'
  <2>1. CASE Quiet
    BY <1>1, <1>2, <2>1, DwellGrows
  <2>2. CASE ~Quiet
    BY <1>2, <2>2 DEF DwellOf
  <2> QED
    BY <2>1, <2>2
<1>8. DwellCounted'
  BY <1>1, <1>2, <1>7 DEF DwellCounted, TurnCounted
<1>9. QuietDwellIsWhole'
  <2> SUFFICES ASSUME flight' = "detumbled"
               PROVE  \E first \in 1..Len(turns) :
                        /\ turns[Len(turns)].to = clock
                        /\ clock - turns[first].from >= DetumblingDwell
                        /\ \A i \in first..Len(turns) : turns[i].swept
                        /\ \A i \in first..(Len(turns) - 1) : turns[i + 1].from = turns[i].to
    BY <1>1 DEF QuietDwellIsWhole, Last
  <2>1. quiet_dwell' >= DetumblingDwell /\ quiet_dwell' # 0
    BY <1>2, <1>4, DetumblingAssumption DEF FlightTypes
  <2>2. PICK first \in 1..Len(turns) :
          /\ \A i \in first..Len(turns) : turns[i].swept
          /\ quiet_dwell' = turns[Len(turns)].to - turns[first].from
    BY <1>1, <1>7, <2>1 DEF DwellOf
  <2>3. /\ turns # <<>> /\ turns[Len(turns)].to = clock
        /\ \A i \in 1..Len(turns) - 1 : turns[i + 1].from = turns[i].to
    BY <1>1 DEF FlightInv, TurnsFollow, DwellCounted
  <2>4. \A i \in first..(Len(turns) - 1) : turns[i + 1].from = turns[i].to
    BY <2>3
  <2> QED
    BY <2>1, <2>2, <2>3, <2>4
<1> QED
  BY <1>1, <1>3, <1>4, <1>5, <1>6, <1>8, <1>9, DescentKept DEF FlightInv, Admitted

LEMMA DetumblingSteps ==
  ASSUME FlightInv, DetumblingNext, UNCHANGED deorbit_run
  PROVE  FlightInv' /\ flight' \in DetumblingPoints /\ Admitted
  BY AuthorityFlight, ObserveFlight, CommandFlight, BackOffFlight, ProveTurnFlight, TurnFlight,
     TurnedFlight DEF DetumblingNext

-----------------------------------------------------------------------------
(* The descent                                                             *)

\* A step of the descent is not one of the detumbling.
LEMMA TurnsOver ==
  ASSUME flight' \in DeorbitPoints
  PROVE  TurnsFollow' /\ DwellCounted' /\ QuietDwellIsWhole'
<1>1. flight' \notin TurnCounted \cup {"authority", "turned", "detumbled"}
  BY DEF DeorbitPoints, ThrustPoints, TurnCounted
<1> QED
  BY <1>1 DEF TurnsFollow, DwellCounted, QuietDwellIsWhole, TurnCounted

\* While no hold is flown the bracket stays as it is, and there is none yet.
LEMMA FallKept ==
  ASSUME FlightInv, flight \notin {"burned", "deorbited", "not_deorbited"},
         flight' # "deorbited", UNCHANGED <<monitor, fall>>
  PROVE  FallIsBracketed' /\ EntryIsBracketed'
  BY DEF FlightInv, FallIsBracketed, EntryIsBracketed, monitor

\* No thrust is in hand and no hold of the powered phase under way.
LEMMA NoThrust ==
  ASSUME flight' \in DeorbitPoints \ (ThrustPoints \cup {"burning", "burned"})
  PROVE  WindowIsOpen' /\ BurnIsBounded'
  BY DEF WindowIsOpen, BurnIsBounded

\* Where nothing is in hand, the moment is all that the hold has to say.
LEMMA NoHold ==
  ASSUME FlightInv, flight \in DeorbitPoints \ Moving, UNCHANGED <<clock, proved>>,
         flight' \notin HoldPoints
  PROVE  HoldInHand' /\ HeldLoadsAreProven' /\ Admitted
  BY DEF FlightInv, HoldInHand, HeldLoadsAreProven, HoldPoints, Moving, Proving, Admitted,
         DeorbitPoints, ThrustPoints

LEMMA ObservedStatus ==
  ASSUME FlightInv, Observed \/ UNCHANGED status
  PROVE  status' \in Interface
  BY DEF FlightInv, FlightTypes, Observed, Interface

\* The steps that plan: no motion, and nothing in hand after them.
LEMMA PlanningFlight ==
  ASSUME FlightInv, Plan \/ CoastOver \/ SelectAxis \/ SelectThrottle \/ FallToInterface
  PROVE  FlightInv' /\ flight' \in DeorbitPoints /\ Admitted
<1> USE DEF Plan, CoastOver, SelectAxis, SelectThrottle, FallToInterface, FlightStep, Fail
<1>1. /\ flight \in {"plan", "coast", "axis", "throttle", "to_interface"}
      /\ flight' \in {"coast", "axis", "throttle", "window", "not_deorbited"}
  OBVIOUS
<1>2. UNCHANGED <<clock, proved, began, hold, command, loads, turns, quiet_dwell, burning,
                  anchor, certified, fall>>
  BY DEF detumbling_run, deorbit_run, orbit_run, monitor, held
<1>3. status' \in Interface
  BY ObservedStatus DEF deorbit_run
<1>4. apoapsis' \in Nat /\ aligning' \in Nat
  <2>1. apoapsis \in Nat /\ aligning \in Nat /\ clock \in Nat /\ ApoapsisDelays \subseteq Nat
    BY DeorbitAssumption DEF FlightInv, FlightTypes
  <2> QED
    BY <2>1 DEF deorbit_run, orbit_run
<1> HIDE DEF Plan, CoastOver, SelectAxis, SelectThrottle, FallToInterface, FlightStep, Fail
<1>5. /\ flight \in DeorbitPoints \ Moving /\ flight' \notin HoldPoints
      /\ flight' \in DeorbitPoints \ (ThrustPoints \cup {"burning", "burned"})
  BY <1>1 DEF DeorbitPoints, ThrustPoints, HoldPoints, Proving, Moving
<1>6. FlightTypes'
  BY <1>2, <1>3, <1>4, <1>5 DEF FlightInv, FlightTypes
<1> QED
  BY <1>1, <1>2, <1>5, <1>6, TurnsOver, FallKept, NoThrust, NoHold DEF FlightInv, monitor

LEMMA ObserveCoastFlight ==
  ASSUME FlightInv, ObserveCoast
  PROVE  FlightInv' /\ flight' \in DeorbitPoints /\ Admitted
<1> USE DEF ObserveCoast, FlightStep, Fail
<1>1. /\ flight = "coast" /\ flight' \in {"coast_loads", "not_deorbited"}
      /\ UNCHANGED <<clock, proved, began, command, loads, turns, quiet_dwell, orbit_run, monitor,
                     fall>>
      /\ hold' \in {hold, 1} /\ (flight' = "coast_loads" => hold' = 1)
  OBVIOUS
<1>2. status' \in Interface
  BY ObservedStatus
<1> HIDE DEF ObserveCoast, FlightStep, Fail
<1>3. flight' \in DeorbitPoints \ (ThrustPoints \cup {"burning", "burned"})
  BY <1>1 DEF DeorbitPoints, ThrustPoints
<1>4. FlightTypes'
  BY <1>1, <1>2, <1>3 DEF FlightInv, FlightTypes, orbit_run, monitor
<1>5. HoldInHand' /\ HeldLoadsAreProven'
  BY <1>1 DEF FlightInv, HoldInHand, HeldLoadsAreProven, HoldPoints, Moving, Proving, ThrustPoints
<1> QED
  BY <1>1, <1>3, <1>4, <1>5, TurnsOver, FallKept, NoThrust DEF FlightInv, Admitted

LEMMA CoastLoadsFlight ==
  ASSUME FlightInv, CoastLoads
  PROVE  FlightInv' /\ flight' \in DeorbitPoints /\ Admitted
<1>1. UNCHANGED <<clock, proved, began, hold, turns, quiet_dwell, deorbit_run>>
  BY DEF CoastLoads
<1>2. /\ flight = "coast_loads" /\ flight' \in {"coast_proof", "not_deorbited"}
      /\ command' \in Nat /\ loads' \in LoadsRecord \cup {Never}
      /\ flight' = "not_deorbited" \/ (loads' # Never /\ loads'.command = command'
                                         /\ clock + hold <= loads'.to)
  BY <1>1, BackedOffHold DEF CoastLoads
<1>3. flight' \in DeorbitPoints \ (ThrustPoints \cup {"burning", "burned"})
  BY <1>2 DEF DeorbitPoints, ThrustPoints
<1>4. FlightTypes'
  BY <1>1, <1>2, <1>3 DEF FlightInv, FlightTypes, deorbit_run, orbit_run, monitor
<1>5. HoldInHand' /\ HeldLoadsAreProven'
  BY <1>1, <1>2
     DEF FlightInv, HoldInHand, HeldLoadsAreProven, HoldPoints, Proving, Moving, ThrustPoints
<1> QED
  BY <1>1, <1>2, <1>3, <1>4, <1>5, TurnsOver, FallKept, NoThrust
     DEF FlightInv, Admitted, deorbit_run

LEMMA ProveCoastFlight ==
  ASSUME FlightInv, ProveCoast
  PROVE  FlightInv' /\ flight' \in DeorbitPoints /\ Admitted
<1>1. FlowProved("coast_proof", "coasting", "not_deorbited")
      /\ UNCHANGED <<detumbling_run, deorbit_run>>
  BY DEF ProveCoast
<1>2. /\ flight = "coast_proof" /\ flight' \in {"coasting", "not_deorbited"} /\ UNCHANGED clock
      /\ HoldInHand' /\ HeldLoadsAreProven' /\ Admitted /\ proved' \in Nat
  BY <1>1, FlowAhead DEF Proving, Moving, HoldPoints, ThrustPoints, detumbling_run, held
<1>3. flight' \in DeorbitPoints \ (ThrustPoints \cup {"burning", "burned"})
  BY <1>2 DEF DeorbitPoints, ThrustPoints
<1>4. FlightTypes'
  BY <1>1, <1>2, <1>3
     DEF FlightInv, FlightTypes, deorbit_run, orbit_run, monitor, detumbling_run, held
<1> QED
  BY <1>1, <1>2, <1>3, <1>4, TurnsOver, FallKept, NoThrust DEF FlightInv, deorbit_run

\* What flying a hold does to the bracket.
LEMMA FlyHoldBracket ==
  ASSUME FlightInv, FlyHold, flight \in Moving
  PROVE  /\ status' \in Interface /\ anchor' \in BOOLEAN /\ certified' \in BOOLEAN
         /\ fall' \in Seq(Interface)
         /\ anchor' => \E i \in 1..Len(fall') : fall'[i] = "above"
         /\ certified' => status' = "below" /\ \E i \in 1..Len(fall') : fall'[i] = "above"
<1>1. /\ status \in Interface /\ fall \in Seq(Interface) /\ command \in Nat
      /\ anchor \in BOOLEAN /\ ~certified
      /\ anchor => \E i \in 1..Len(fall) : fall[i] = "above"
  BY DEF FlightInv, FlightTypes, FallIsBracketed, Moving
<1>0. PICK down \in BOOLEAN :
        \E finish \in Ends(down) :
          /\ status' = finish
          /\ fall' = IF down /\ command = 0 THEN Append(fall, status) ELSE <<>>
          /\ IF command > 0 THEN ResetMonitor ELSE Bracket(down, finish)
  BY DEF FlyHold
<1>2. PICK finish \in Ends(down) :
        /\ status' = finish
        /\ fall' = IF down /\ command = 0 THEN Append(fall, status) ELSE <<>>
        /\ IF command > 0 THEN ResetMonitor ELSE Bracket(down, finish)
  BY <1>0
<1>3. status' \in Interface /\ <<>> \in Seq(Interface)
  BY <1>2, EmptySeq DEF Ends, Interface
<1>4. CASE command > 0
  <2>1. anchor' = FALSE /\ certified' = FALSE
    BY <1>2, <1>4 DEF ResetMonitor
  <2>2. fall' = <<>>
    BY <1>1, <1>2, <1>4
  <2> QED
    BY <1>3, <2>1, <2>2
<1>5. CASE command = 0 /\ ~down
  <2>1. /\ anchor' = (down /\ (anchor \/ status = "above"))
        /\ certified' = (certified \/ (anchor' /\ finish = "below"))
    BY <1>2, <1>5 DEF Bracket
  <2>2. anchor' = FALSE
    BY <1>5, <2>1, Zenon
  <2>3. certified' = FALSE
    BY <1>1, <2>1, <2>2, Zenon
  <2>4. fall' = <<>>
    BY <1>2, <1>5
  <2> QED
    BY <1>3, <2>2, <2>3, <2>4
<1>6. CASE command = 0 /\ down
  <2>1. /\ anchor' = (down /\ (anchor \/ status = "above"))
        /\ certified' = (certified \/ (anchor' /\ finish = "below"))
    BY <1>2, <1>6 DEF Bracket
  <2>2. anchor' = (anchor \/ status = "above") /\ anchor' \in BOOLEAN
    BY <1>6, <2>1, Zenon
  <2>3. certified' = (anchor' /\ finish = "below") /\ certified' \in BOOLEAN
    BY <1>1, <2>1, Zenon
  <2>4. fall' = Append(fall, status)
    BY <1>2, <1>6
  <2>5. /\ fall' \in Seq(Interface) /\ Len(fall') = Len(fall) + 1 /\ Len(fall) \in Nat
        /\ \A i \in 1..Len(fall) : fall'[i] = fall[i]
        /\ fall'[Len(fall) + 1] = status
    BY <1>1, <2>4, AppendProperties, LenProperties
  <2>6. anchor' => \E i \in 1..Len(fall') : fall'[i] = "above"
    <3>1. CASE status = "above"
      <4>1. Len(fall) + 1 \in 1..Len(fall') /\ fall'[Len(fall) + 1] = "above"
        BY <2>5, <3>1
      <4> QED
        BY <4>1
    <3>2. CASE status # "above" /\ anchor
      <4>1. PICK i \in 1..Len(fall) : fall[i] = "above"
        BY <1>1, <3>2
      <4>2. i \in 1..Len(fall') /\ fall'[i] = "above"
        BY <2>5, <4>1
      <4> QED
        BY <4>2
    <3>3. CASE status # "above" /\ ~anchor
      BY <2>2, <3>3, Zenon
    <3> QED
      BY <3>1, <3>2, <3>3
  <2>7. certified' => status' = "below" /\ anchor'
    BY <1>2, <2>3, Zenon
  <2> QED
    BY <1>3, <2>2, <2>3, <2>5, <2>6, <2>7
<1> QED
  BY <1>1, <1>4, <1>5, <1>6

\* A hold in flight moves to the end of what was proved for it.
LEMMA FlownIsAdmitted ==
  ASSUME FlightInv, flight \in Moving, clock' = proved, UNCHANGED proved
  PROVE  Admitted /\ clock' \in Nat /\ proved' = clock'
<1>1. clock \in Nat /\ proved \in Nat /\ hold \in Nat /\ hold > 0 /\ proved = clock + hold
  BY DEF FlightInv, FlightTypes, HoldInHand, HoldPoints
<1>2. clock < proved /\ clock < clock' /\ clock' <= proved
  BY <1>1
<1> QED
  BY <1>1, <1>2 DEF Admitted, Flight!Next, Flight!Move

LEMMA CoastFlight ==
  ASSUME FlightInv, Coast
  PROVE  FlightInv' /\ flight' \in DeorbitPoints /\ Admitted
<1>1. /\ flight = "coasting" /\ clock' = proved /\ FlyHold /\ command' = 0 /\ loads' = Never
      /\ flight' = IF certified' THEN "deorbited" ELSE "coast"
      /\ UNCHANGED <<proved, began, hold, turns, quiet_dwell, orbit_run>>
  BY DEF Coast, HoldSpent
<1>2. /\ status' \in Interface /\ anchor' \in BOOLEAN /\ certified' \in BOOLEAN
      /\ fall' \in Seq(Interface)
      /\ anchor' => \E i \in 1..Len(fall') : fall'[i] = "above"
      /\ certified' => status' = "below" /\ \E i \in 1..Len(fall') : fall'[i] = "above"
  BY <1>1, FlyHoldBracket DEF Moving
<1>3. Admitted /\ clock' \in Nat /\ proved' = clock' /\ proved' \in Nat
  BY <1>1, FlownIsAdmitted DEF Moving
<1>4. /\ flight' \in {"deorbited", "coast"}
      /\ certified' => flight' = "deorbited"
      /\ flight' = "deorbited" => certified'
  BY <1>1
<1>5. flight' \in DeorbitPoints \ (ThrustPoints \cup {"burning", "burned"})
  BY <1>4 DEF DeorbitPoints, ThrustPoints
<1>6. FlightTypes'
  BY <1>1, <1>2, <1>3, <1>5 DEF FlightInv, FlightTypes, orbit_run
<1>7. HoldInHand' /\ HeldLoadsAreProven'
  BY <1>3, <1>4 DEF HoldInHand, HeldLoadsAreProven, HoldPoints, Moving, Proving, ThrustPoints
<1>8. FallIsBracketed' /\ EntryIsBracketed'
  BY <1>2, <1>4 DEF FallIsBracketed, EntryIsBracketed
<1> QED
  BY <1>3, <1>5, <1>6, <1>7, <1>8, TurnsOver, NoThrust DEF FlightInv

-----------------------------------------------------------------------------
(* The powered phase                                                       *)

\* What is left of the burn bounds the hold.
LEMMA HoldFits ==
  ASSUME NEW start \in Nat \cup {Never}, NEW now \in Nat, clock = now,
         hold' = HoldDuration(start), hold' > 0
  PROVE  /\ hold' \in Nat /\ hold' <= ControlStep
         /\ start # Never => clock + hold' <= start + MaxBurn
<1>1. ControlStep \in Nat /\ MaxBurn \in Nat /\ Never \notin Nat
  BY DeorbitAssumption, ContactAssumption
<1>2. CASE start = Never
  BY <1>1, <1>2 DEF HoldDuration
<1>3. CASE start \in Nat
  <2>1. hold' = IF ControlStep < start + MaxBurn - now THEN ControlStep
                ELSE start + MaxBurn - now
    BY <1>1, <1>3 DEF HoldDuration, AtMost
  <2>2. start + MaxBurn - now \in Int
    BY <1>1, <1>3
  <2> QED
    BY <1>1, <1>3, <2>1, <2>2
<1> QED
  BY <1>2, <1>3

\* The window opens a hold that the limits of the burn or of the wait contain.
LEMMA OpenWindowFlight ==
  ASSUME FlightInv, OpenWindow
  PROVE  FlightInv' /\ flight' \in DeorbitPoints /\ Admitted
<1>1. /\ UNCHANGED <<clock, proved, began, command, loads, turns, quiet_dwell, goal, limit,
                     apoapsis, aligning, cutoff, monitor, fall>>
      /\ flight = "window"
  BY DEF OpenWindow, FlightStep, Fail
<1>2. flight \in DeorbitPoints \ Moving
  BY <1>1 DEF DeorbitPoints, Moving
<1>3. CASE Fail("window") /\ UNCHANGED <<burning, hold>>
  <2>1. flight' = "not_deorbited" /\ status' \in Interface /\ UNCHANGED <<burning, hold>>
    BY <1>3, ObservedStatus DEF Fail, FlightStep
  <2>2. /\ flight' \in DeorbitPoints \ (ThrustPoints \cup {"burning", "burned"})
        /\ flight' \notin HoldPoints
    BY <2>1 DEF DeorbitPoints, ThrustPoints, HoldPoints, Proving, Moving
  <2>3. FlightTypes'
    BY <1>1, <2>1, <2>2 DEF FlightInv, FlightTypes, monitor
  <2> QED
    BY <1>1, <1>2, <2>1, <2>2, <2>3, TurnsOver, FallKept, NoThrust, NoHold DEF FlightInv
<1>4. ASSUME NEW aligned \in BOOLEAN,
             FlightStep("window", "thrust"), Observed,
             burning' = IF burning = Never /\ clock >= apoapsis /\ aligned THEN clock ELSE burning,
             burning' = Never => clock <= AlignmentEnd,
             hold' = HoldDuration(burning'), hold' > 0
      PROVE  FlightInv' /\ flight' \in DeorbitPoints /\ Admitted
  <2>1. flight' = "thrust" /\ status' \in Interface
    BY <1>4, ObservedStatus DEF FlightStep
  <2>2. flight' \in DeorbitPoints /\ flight' \in ThrustPoints
    BY <2>1 DEF DeorbitPoints, ThrustPoints
  <2>3. clock \in Nat /\ burning' \in Nat \cup {Never}
    BY <1>4 DEF FlightInv, FlightTypes
  <2>4. /\ hold' \in Nat /\ hold' <= ControlStep
        /\ burning' # Never => clock + hold' <= burning' + MaxBurn
    BY <1>4, <2>3, HoldFits
  <2>5. FlightTypes'
    BY <1>1, <2>1, <2>2, <2>3, <2>4 DEF FlightInv, FlightTypes, monitor
  <2>6. HoldInHand' /\ HeldLoadsAreProven'
    BY <1>1, <1>4, <2>1
       DEF FlightInv, HoldInHand, HeldLoadsAreProven, HoldPoints, Moving, Proving, ThrustPoints
  <2>7. WindowIsOpen'
    BY <1>1, <1>4, <2>4 DEF WindowIsOpen, AlignmentEnd
  <2>8. BurnIsBounded'
    BY <2>1 DEF BurnIsBounded
  <2> QED
    BY <1>1, <2>1, <2>2, <2>5, <2>6, <2>7, <2>8, TurnsOver, FallKept DEF FlightInv, Admitted
<1> QED
  BY <1>3, <1>4 DEF OpenWindow

\* The window and its hold are kept from one step of the allocation to the next.
LEMMA WindowKept ==
  ASSUME FlightInv, UNCHANGED <<clock, hold, apoapsis, aligning, burning>>,
         flight \in ThrustPoints, flight' \in ThrustPoints \cup {"not_deorbited"}
  PROVE  WindowIsOpen' /\ BurnIsBounded'
<1>1. flight' \notin {"burning", "burned"}
  BY DEF ThrustPoints
<1>2. WindowIsOpen'
  BY DEF FlightInv, WindowIsOpen, AlignmentEnd, ThrustPoints
<1> QED
  BY <1>1, <1>2 DEF BurnIsBounded

LEMMA ThrustFlight ==
  ASSUME FlightInv, AllocateThrust \/ PreflightThrust
  PROVE  FlightInv' /\ flight' \in DeorbitPoints /\ Admitted
<1> USE DEF AllocateThrust, PreflightThrust, Solved, Dilated, FlightStep
<1>1. /\ flight \in {"thrust", "thrust_preflight"}
      /\ flight' \in {"thrust_preflight", "thrust_backoff", "not_deorbited"}
      /\ UNCHANGED <<clock, proved, began, hold, loads, turns, quiet_dwell, deorbit_run>>
  OBVIOUS
<1>2. command' \in Nat
  <2>1. command \in Nat /\ FullCommand \in Nat
    BY DetumblingAssumption DEF FlightInv, FlightTypes
  <2> QED
    BY <2>1
<1> HIDE DEF AllocateThrust, PreflightThrust, Solved, Dilated, FlightStep
<1>3. /\ flight' \in DeorbitPoints /\ flight \in ThrustPoints
      /\ flight' \in ThrustPoints \cup {"not_deorbited"}
  BY <1>1 DEF DeorbitPoints, ThrustPoints
<1>4. FlightTypes'
  BY <1>1, <1>2, <1>3 DEF FlightInv, FlightTypes, deorbit_run, orbit_run, monitor
<1>5. HoldInHand' /\ HeldLoadsAreProven'
  BY <1>1 DEF FlightInv, HoldInHand, HeldLoadsAreProven, HoldPoints, Moving, Proving, ThrustPoints
<1> QED
  BY <1>1, <1>3, <1>4, <1>5, TurnsOver, FallKept, WindowKept
     DEF FlightInv, Admitted, deorbit_run, orbit_run

LEMMA BackOffThrustFlight ==
  ASSUME FlightInv, BackOffThrust
  PROVE  FlightInv' /\ flight' \in DeorbitPoints /\ Admitted
<1>1. UNCHANGED <<clock, proved, began, hold, turns, quiet_dwell, deorbit_run>>
  BY DEF BackOffThrust
<1>2. /\ flight = "thrust_backoff" /\ flight' \in {"preview", "not_deorbited"}
      /\ command' \in Nat /\ loads' \in LoadsRecord \cup {Never}
      /\ flight' = "not_deorbited" \/ (loads' # Never /\ loads'.command = command'
                                         /\ clock + hold <= loads'.to)
  BY <1>1, BackedOffHold DEF BackOffThrust
<1>3. /\ flight' \in DeorbitPoints /\ flight \in ThrustPoints
      /\ flight' \in ThrustPoints \cup {"not_deorbited"}
  BY <1>2 DEF DeorbitPoints, ThrustPoints
<1>4. FlightTypes'
  BY <1>1, <1>2, <1>3 DEF FlightInv, FlightTypes, deorbit_run, orbit_run, monitor
<1>5. HoldInHand' /\ HeldLoadsAreProven'
  BY <1>1, <1>2
     DEF FlightInv, HoldInHand, HeldLoadsAreProven, HoldPoints, Proving, Moving, ThrustPoints
<1> QED
  BY <1>1, <1>2, <1>3, <1>4, <1>5, TurnsOver, FallKept, WindowKept
     DEF FlightInv, Admitted, deorbit_run, orbit_run

\* The predicted cutoff can only shorten the hold.
LEMMA PreviewFlight ==
  ASSUME FlightInv, Preview
  PROVE  FlightInv' /\ flight' \in DeorbitPoints /\ Admitted
<1>1. /\ UNCHANGED <<clock, proved, began, turns, quiet_dwell, status, orbit_run, monitor, fall>>
      /\ flight = "preview" /\ flight' \in {"burn_proof", "to_interface", "not_deorbited"}
  BY DEF Preview, FlightStep
<1>2. flight' = "burn_proof" => UNCHANGED <<command, loads>> /\ hold' \in {hold} \cup 1..hold
  BY DEF Preview, FlightStep
<1>3. flight' # "burn_proof" => UNCHANGED hold
  BY DEF Preview, FlightStep, held
<1>4. <<command', loads'>> \in {<<command, loads>>, <<0, Never>>}
  BY DEF Preview, HoldSpent, held
<1>5. /\ clock \in Nat /\ hold \in Nat /\ hold > 0 /\ command \in Nat
      /\ loads \in LoadsRecord \cup {Never}
      /\ loads # Never /\ loads.command = command /\ clock + hold <= loads.to
      /\ burning \in Nat \cup {Never}
  BY <1>1 DEF FlightInv, FlightTypes, HoldInHand, HoldPoints, Proving
<1>6. loads.to \in Nat /\ hold' \in Nat /\ hold' > 0 /\ hold' <= hold
  BY <1>2, <1>3, <1>5 DEF LoadsRecord
<1>7. flight' \in DeorbitPoints
  BY <1>1 DEF DeorbitPoints, ThrustPoints
<1>8. FlightTypes'
  BY <1>1, <1>4, <1>5, <1>6, <1>7 DEF FlightInv, FlightTypes, orbit_run, monitor
<1>9. HoldInHand' /\ HeldLoadsAreProven'
  <2>1. flight' = "burn_proof" => clock + hold' <= loads.to
    BY <1>5, <1>6
  <2> QED
    BY <1>1, <1>2, <1>5, <1>6, <2>1
       DEF FlightInv, HoldInHand, HeldLoadsAreProven, HoldPoints, Proving, Moving, ThrustPoints
<1>10. WindowIsOpen' /\ BurnIsBounded'
  <2>1. IF burning # Never THEN clock + hold <= burning + MaxBurn
        ELSE clock <= AlignmentEnd /\ hold <= ControlStep
    BY <1>1 DEF FlightInv, WindowIsOpen, ThrustPoints
  <2>2. IF burning # Never THEN clock + hold' <= burning + MaxBurn
        ELSE clock <= AlignmentEnd /\ hold' <= ControlStep
    <3>1. CASE burning \in Nat /\ burning # Never
      <4>1. clock + hold <= burning + MaxBurn
        BY <2>1, <3>1
      <4>2. \A n \in Nat : n <= hold => clock + n <= burning + MaxBurn
        BY <1>5, <3>1, <4>1, DeorbitAssumption
      <4>3. clock + hold' <= burning + MaxBurn
        BY <1>6, <4>2, Zenon
      <4> QED
        BY <3>1, <4>3
    <3>2. CASE burning = Never
      BY <1>5, <1>6, <2>1, <3>2, DeorbitAssumption
    <3> QED
      BY <1>5, <3>1, <3>2
  <2>3. AlignmentEnd' = AlignmentEnd /\ UNCHANGED <<clock, burning>>
    BY <1>1 DEF AlignmentEnd, orbit_run
  <2> QED
    BY <1>1, <2>2, <2>3 DEF WindowIsOpen, BurnIsBounded
<1> QED
  BY <1>1, <1>7, <1>8, <1>9, <1>10, TurnsOver, FallKept DEF FlightInv, Admitted

\* What is flown of the burn ends within its limit.
LEMMA ProveBurnFlight ==
  ASSUME FlightInv, ProveBurn
  PROVE  FlightInv' /\ flight' \in DeorbitPoints /\ Admitted
<1>1. FlowProved("burn_proof", "burning", "not_deorbited")
      /\ UNCHANGED <<detumbling_run, deorbit_run>>
  BY DEF ProveBurn
<1>2. /\ flight = "burn_proof" /\ flight' \in {"burning", "not_deorbited"} /\ UNCHANGED clock
      /\ HoldInHand' /\ HeldLoadsAreProven' /\ Admitted /\ proved' \in Nat
      /\ flight' = "burning" => proved' = clock + hold
  BY <1>1, FlowAhead DEF Proving, Moving, HoldPoints, ThrustPoints, detumbling_run, held
<1>3. flight' \in DeorbitPoints /\ flight' \notin ThrustPoints
  BY <1>2 DEF DeorbitPoints, ThrustPoints
<1>4. FlightTypes'
  BY <1>1, <1>2, <1>3
     DEF FlightInv, FlightTypes, deorbit_run, orbit_run, monitor, detumbling_run, held
<1>5. BurnIsBounded'
  <2>1. IF burning # Never THEN clock + hold <= burning + MaxBurn
        ELSE clock <= AlignmentEnd /\ hold <= ControlStep
    BY <1>2 DEF FlightInv, WindowIsOpen, ThrustPoints
  <2>2. AlignmentEnd \in Int /\ clock \in Nat /\ hold \in Nat /\ ControlStep \in Nat
    BY DeorbitAssumption DEF FlightInv, FlightTypes, AlignmentEnd, Later
  <2>3. flight' = "burning" =>
          IF burning # Never THEN proved' <= burning + MaxBurn
          ELSE proved' <= AlignmentEnd + ControlStep
    BY <1>2, <2>1, <2>2
  <2>4. AlignmentEnd' = AlignmentEnd /\ UNCHANGED burning
    BY <1>1 DEF AlignmentEnd, deorbit_run, orbit_run
  <2> QED
    BY <1>2, <2>3, <2>4 DEF BurnIsBounded
<1>6. WindowIsOpen'
  BY <1>3 DEF WindowIsOpen
<1> QED
  BY <1>1, <1>2, <1>3, <1>4, <1>5, <1>6, TurnsOver, FallKept DEF FlightInv, deorbit_run

LEMMA BurnFlight ==
  ASSUME FlightInv, Burn
  PROVE  FlightInv' /\ flight' \in DeorbitPoints /\ Admitted
<1>1. /\ flight = "burning" /\ flight' = "burned" /\ clock' = proved /\ UNCHANGED proved /\ FlyHold
      /\ UNCHANGED <<detumbling_run, orbit_run>>
  BY DEF Burn, Flown, FlightStep
<1>2. /\ status' \in Interface /\ anchor' \in BOOLEAN /\ certified' \in BOOLEAN
      /\ fall' \in Seq(Interface)
      /\ anchor' => \E i \in 1..Len(fall') : fall'[i] = "above"
      /\ certified' => status' = "below" /\ \E i \in 1..Len(fall') : fall'[i] = "above"
  BY <1>1, FlyHoldBracket DEF Moving
<1>3. Admitted /\ clock' \in Nat /\ proved' = clock' /\ proved' \in Nat
  BY <1>1, FlownIsAdmitted DEF Moving
<1>4. flight' \in DeorbitPoints
  BY <1>1 DEF DeorbitPoints
<1>5. FlightTypes'
  BY <1>1, <1>2, <1>3, <1>4 DEF FlightInv, FlightTypes, orbit_run, detumbling_run, held
<1>6. HoldInHand' /\ HeldLoadsAreProven'
  BY <1>1, <1>3 DEF HoldInHand, HeldLoadsAreProven, HoldPoints, Moving, Proving, ThrustPoints
<1>7. FallIsBracketed' /\ EntryIsBracketed'
  BY <1>1, <1>2 DEF FallIsBracketed, EntryIsBracketed
<1>8. WindowIsOpen'
  BY <1>1 DEF WindowIsOpen, ThrustPoints
<1>9. BurnIsBounded'
  BY <1>1 DEF FlightInv, BurnIsBounded, AlignmentEnd, orbit_run
<1> QED
  BY <1>3, <1>4, <1>5, <1>6, <1>7, <1>8, <1>9, TurnsOver DEF FlightInv

LEMMA BurnedFlight ==
  ASSUME FlightInv, Burned
  PROVE  FlightInv' /\ flight' \in DeorbitPoints /\ Admitted
<1>1. /\ flight = "burned" /\ command' = 0 /\ loads' = Never
      /\ flight' \in {"window", "to_interface", "deorbited", "not_deorbited"}
      /\ flight' = "deorbited" => certified
      /\ certified => flight' \in {"deorbited", "not_deorbited"}
      /\ UNCHANGED <<clock, proved, began, hold, turns, quiet_dwell, deorbit_run>>
  BY DEF Burned, HoldSpent
<1>2. /\ flight \in DeorbitPoints \ Moving /\ flight' \notin HoldPoints
      /\ flight' \in DeorbitPoints \ (ThrustPoints \cup {"burning", "burned"})
  BY <1>1 DEF DeorbitPoints, ThrustPoints, HoldPoints, Proving, Moving
<1>3. FlightTypes'
  BY <1>1, <1>2 DEF FlightInv, FlightTypes, deorbit_run, orbit_run, monitor
<1>4. FallIsBracketed' /\ EntryIsBracketed'
  BY <1>1 DEF FlightInv, FallIsBracketed, EntryIsBracketed, deorbit_run, monitor
<1> QED
  BY <1>1, <1>2, <1>3, <1>4, TurnsOver, NoThrust, NoHold DEF FlightInv

LEMMA DeorbitSteps ==
  ASSUME FlightInv, DeorbitNext
  PROVE  FlightInv' /\ flight' \in DeorbitPoints /\ Admitted
  BY PlanningFlight, ObserveCoastFlight, CoastLoadsFlight, ProveCoastFlight, CoastFlight,
     OpenWindowFlight, ThrustFlight, BackOffThrustFlight, PreviewFlight, ProveBurnFlight,
     BurnFlight, BurnedFlight DEF DeorbitNext

-----------------------------------------------------------------------------
(* The lifecycle                                                           *)

LEMMA InitInv == Init => Inv
<1> SUFFICES ASSUME Init PROVE Inv
  OBVIOUS
<1> USE DEF Init, ContactIdle, LockIdle, DetumblingIdle, DeorbitIdle
<1>1. /\ Len(steps) = 0 /\ steps \in Seq(ContactRecord) /\ Len(plan) = 0 /\ plan \in Seq(Nat)
      /\ Len(executed) = 0 /\ executed \in Seq(LockRecord) /\ turns \in Seq(TurnRecord)
      /\ fall \in Seq(Interface)
  BY EmptySeq
<1>2. CaptureTypes
  BY <1>1 DEF CaptureTypes, Gates
<1>3. CapturePoint /\ CaptureClock /\ PreloadCovered /\ DwellCovered
  BY <1>1 DEF CapturePoint, CaptureClock, PreloadCovered, DwellCovered, Gates, Locking
<1>4. BondsFollowProvenPreload /\ LockFollowsItsPlan
  BY <1>1 DEF BondsFollowProvenPreload, LockFollowsItsPlan
<1>5. CaptureInv
  BY <1>2, <1>3, <1>4 DEF CaptureInv, AtCapture
<1>6. FlightTypes /\ HoldInHand /\ HeldLoadsAreProven
  BY <1>1 DEF FlightTypes, HoldInHand, HeldLoadsAreProven, HoldPoints, Proving, Moving,
              ThrustPoints, Interface
<1>7. /\ TurnsFollow /\ DwellCounted /\ FallIsBracketed /\ WindowIsOpen
      /\ QuietDwellIsWhole /\ EntryIsBracketed /\ BurnIsBounded
  BY DEF TurnsFollow, DwellCounted, FallIsBracketed, WindowIsOpen, QuietDwellIsWhole,
         EntryIsBracketed, BurnIsBounded, TurnCounted, ThrustPoints
<1>8. LifecycleInv
  BY DEF LifecycleInv, AfterCapture, SuccessIsPhysical
<1> QED
  BY <1>5, <1>6, <1>7, <1>8 DEF Inv, FlightInv

\* The capture works while the flight has not begun.
LEMMA CapturingStep ==
  ASSUME Inv, Capturing
  PROVE  Inv' /\ Admitted
<1>1. /\ stage = "attachment" /\ CaptureNext /\ UNCHANGED <<completion, flight_vars>>
      /\ flight = "off" /\ AtCapture
  BY DEF Capturing, Inv, LifecycleInv, CaptureInv
<1>2. AtCapture' /\ Admitted
  BY <1>1, CaptureSteps
<1>3. CaptureInv'
  BY <1>1, <1>2 DEF CaptureInv, completion
<1>4. FlightTypes'
  <2>1. clock' \in Nat /\ proved' \in Nat
    BY <1>2 DEF AtCapture, CaptureTypes
  <2> QED
    BY <1>1, <2>1 DEF Inv, FlightInv, FlightTypes, flight_vars, detumbling_run, deorbit_run,
                      orbit_run, monitor, held
<1>5. /\ flight' = "off" /\ UNCHANGED <<anchor, certified, fall, status, turns, quiet_dwell, burning>>
  BY <1>1 DEF flight_vars, detumbling_run, deorbit_run, orbit_run, monitor
<1>6. HoldInHand' /\ HeldLoadsAreProven'
  BY <1>5 DEF HoldInHand, HeldLoadsAreProven, HoldPoints, Proving, Moving, ThrustPoints
<1>7. TurnsFollow' /\ DwellCounted' /\ WindowIsOpen' /\ QuietDwellIsWhole' /\ BurnIsBounded'
  BY <1>5 DEF TurnsFollow, DwellCounted, WindowIsOpen, QuietDwellIsWhole, BurnIsBounded,
              TurnCounted, ThrustPoints
<1>8. FallIsBracketed' /\ EntryIsBracketed'
  BY <1>1, <1>5 DEF Inv, FlightInv, FallIsBracketed, EntryIsBracketed
<1>9. LifecycleInv'
  BY <1>1, <1>5 DEF Inv, LifecycleInv, SuccessIsPhysical, completion, locals, AfterCapture
<1> QED
  BY <1>2, <1>3, <1>4, <1>6, <1>7, <1>8, <1>9 DEF Inv, FlightInv

\* What a lifecycle step between the stages leaves alone.
LEMMA FlightKept ==
  ASSUME FlightInv, UNCHANGED <<clock, proved, flight_vars>>
  PROVE  FlightInv'
<1> USE DEF flight_vars, detumbling_run, held, deorbit_run, orbit_run, monitor
<1>1. FlightTypes' /\ HoldInHand' /\ HeldLoadsAreProven'
  BY DEF FlightInv, FlightTypes, HoldInHand, HeldLoadsAreProven
<1>2. TurnsFollow' /\ QuietDwellIsWhole'
  BY DEF FlightInv, TurnsFollow, QuietDwellIsWhole
<1>3. DwellCounted'
  BY DEF FlightInv, DwellCounted, DwellOf
<1>4. FallIsBracketed' /\ EntryIsBracketed'
  BY DEF FlightInv, FallIsBracketed, EntryIsBracketed
<1>5. WindowIsOpen' /\ BurnIsBounded'
  BY DEF FlightInv, WindowIsOpen, BurnIsBounded, AlignmentEnd
<1> QED
  BY <1>1, <1>2, <1>3, <1>4, <1>5 DEF FlightInv

\* Only a capture that succeeded leads on, and its moment is all proved.
LEMMA CaptureReturnsStep ==
  ASSUME Inv, CaptureReturns
  PROVE  Inv' /\ Admitted
<1>1. /\ stage = "attachment" /\ flight = "off" /\ AtCapture
      /\ UNCHANGED <<clock, proved, capture, flight_vars>>
      /\ capture \in {"captured", "refused", "raised"}
  BY DEF CaptureReturns, Attach, At, Inv, LifecycleInv, CaptureInv
<1>2. stage' \in {"propulsion", "record_lifecycle", "raised"} /\ UNCHANGED result
  BY DEF CaptureReturns, Attach, Go, Deliver, Raises, Escape
<1>3. stage' = "propulsion" => capture = "captured"
  <2> SUFFICES ASSUME stage' = "propulsion" PROVE "attachment" \in passed'
    BY DEF CaptureReturns
  <2>1. Perform("attachment", TRUE)
    BY DEF CaptureReturns, Attach, Go, Deliver, Raises, Escape
  <2> QED
    BY <2>1 DEF Perform
<1>4. stage' = "record_lifecycle" => lifecycle'.success = FALSE
  <2> SUFFICES ASSUME stage' = "record_lifecycle" PROVE lifecycle'.success = FALSE
    OBVIOUS
  <2>1. \/ lifecycle' = [success |-> FALSE, keeps |-> {"attachment"}, failure |-> "none"]
        \/ lifecycle' = [success |-> FALSE, keeps |-> {}, failure |-> "attachment"]
    BY DEF CaptureReturns, Attach, Go, Deliver, Raises, Escape
  <2> QED
    BY <2>1
<1>5. contact' = "off" /\ plan' = <<>> /\ executed' = <<>> /\ carried' = Never
  BY DEF CaptureReturns, LockReset
<1>6. CaptureInv'
  BY <1>2, <1>5 DEF CaptureInv
<1>7. FlightInv'
  BY <1>1, FlightKept DEF Inv
<1>8. proved = clock
  BY <1>1 DEF AtCapture, CaptureClock
<1>9. LifecycleInv'
  <2>1. UNCHANGED <<flight, turns, quiet_dwell, fall, anchor, certified, burning, status>>
    BY <1>1 DEF flight_vars, detumbling_run, deorbit_run, orbit_run, monitor
  <2>2. /\ turns = <<>> /\ quiet_dwell = 0 /\ fall = <<>> /\ ~anchor /\ ~certified
        /\ burning = Never /\ result = None
    BY <1>1 DEF Inv, LifecycleInv
  <2>3. (stage = "record_lifecycle" => ~lifecycle.success)'
    BY <1>4
  <2>4. (stage \in AfterCapture => stage = "propulsion")' /\ stage' \notin {"attachment", "returned"}
    BY <1>2 DEF AfterCapture
  <2>5. SuccessIsPhysical'
    BY <1>2, <2>2 DEF SuccessIsPhysical
  <2> QED
    BY <1>1, <1>2, <1>3, <1>8, <2>1, <2>2, <2>3, <2>4, <2>5 DEF LifecycleInv, AfterCapture
<1> QED
  BY <1>1, <1>6, <1>7, <1>9 DEF Inv, Admitted

\* After the capture nothing of it is left to change but where it stands.
LEMMA CaptureGone ==
  ASSUME Inv, stage # "attachment", stage' # "attachment", UNCHANGED upstream
  PROVE  CaptureInv'
  BY DEF Inv, CaptureInv, upstream, capture_vars, lock_run

\* The detumbling begins with a dwell of its own.
LEMMA PropulsionStep ==
  ASSUME Inv, PropulsionReady
  PROVE  Inv' /\ Admitted
<1>1. /\ stage = "propulsion" /\ stage' \in {"detumbling", "record_lifecycle", "raised"}
      /\ UNCHANGED <<clock, proved, upstream, hold, command, loads, turns, quiet_dwell, deorbit_run,
                     result>>
      /\ IF stage' = "detumbling" THEN flight' = "authority" /\ began' = clock
         ELSE UNCHANGED <<flight, began>>
  BY DEF PropulsionReady, SetUpPropulsion, At, Go, Raises, Deliver, Escape, held
<1>2. stage' = "record_lifecycle" => lifecycle'.success = FALSE
  <2> SUFFICES ASSUME stage' = "record_lifecycle" PROVE lifecycle'.success = FALSE
    OBVIOUS
  <2>1. lifecycle' = [success |-> FALSE, keeps |-> {"attachment"}, failure |-> "propulsion_setup"]
    BY DEF PropulsionReady, SetUpPropulsion, Go, Deliver, Raises, Escape
  <2> QED
    BY <2>1
<1>3. /\ flight = "off" /\ proved = clock /\ turns = <<>> /\ quiet_dwell = 0 /\ capture = "captured"
      /\ fall = <<>> /\ ~anchor /\ ~certified /\ burning = Never /\ result = None
  BY <1>1 DEF Inv, LifecycleInv, AfterCapture
<1>4. CaptureInv'
  BY <1>1, CaptureGone
<1>5. FlightInv'
  <2>1. CASE stage' # "detumbling"
    BY <1>1, <2>1, FlightKept DEF Inv, flight_vars, detumbling_run, held
  <2>2. CASE stage' = "detumbling"
    <3>1. flight' = "authority" /\ began' = clock
      BY <1>1, <2>2
    <3>2. FlightTypes'
      BY <1>1, <3>1 DEF Inv, FlightInv, FlightTypes, deorbit_run, orbit_run, monitor,
                        DetumblingPoints
    <3>3. HoldInHand' /\ HeldLoadsAreProven'
      BY <1>1, <1>3, <3>1 DEF HoldInHand, HeldLoadsAreProven, HoldPoints, Proving, Moving,
                              ThrustPoints
    <3>4. TurnsFollow' /\ QuietDwellIsWhole'
      BY <1>1, <1>3, <3>1, EmptySeq DEF TurnsFollow, QuietDwellIsWhole
    <3>5. DwellCounted'
      BY <1>1, <1>3, <3>1 DEF DwellCounted, TurnCounted
    <3>6. FallIsBracketed' /\ EntryIsBracketed'
      BY <1>1, <1>3, <3>1 DEF FallIsBracketed, EntryIsBracketed, deorbit_run, monitor
    <3>7. WindowIsOpen' /\ BurnIsBounded'
      BY <3>1 DEF WindowIsOpen, BurnIsBounded, ThrustPoints
    <3> QED
      BY <3>2, <3>3, <3>4, <3>5, <3>6, <3>7 DEF FlightInv
  <2> QED
    BY <2>1, <2>2
<1>6. LifecycleInv'
  <2>1. stage' = "detumbling" => flight' \in DetumblingPoints
    BY <1>1 DEF DetumblingPoints
  <2>2. SuccessIsPhysical'
    BY <1>1, <1>3 DEF SuccessIsPhysical
  <2>3. capture' = "captured" /\ UNCHANGED <<fall, anchor, certified, burning>>
    BY <1>1, <1>3 DEF upstream, capture_vars, deorbit_run, orbit_run, monitor
  <2> QED
    BY <1>1, <1>2, <1>3, <2>1, <2>2, <2>3 DEF LifecycleInv, AfterCapture
<1> QED
  BY <1>1, <1>4, <1>5, <1>6 DEF Inv, Admitted

LEMMA DetumblingWorks ==
  ASSUME Inv, Detumbling
  PROVE  Inv' /\ Admitted
<1>1. /\ stage = "detumbling" /\ DetumblingNext
      /\ UNCHANGED <<completion, deorbit_run, upstream>>
  BY DEF Detumbling, DetumblingNext
<1>2. FlightInv' /\ flight' \in DetumblingPoints /\ Admitted
  BY <1>1, DetumblingSteps DEF Inv
<1>3. stage' = stage /\ UNCHANGED <<result, capture, fall, anchor, certified, burning>>
  BY <1>1 DEF completion, upstream, capture_vars, deorbit_run, orbit_run, monitor
<1>4. CaptureInv'
  BY <1>1, <1>3, CaptureGone
<1>5. LifecycleInv'
  BY <1>1, <1>2, <1>3 DEF Inv, LifecycleInv, AfterCapture, SuccessIsPhysical
<1> QED
  BY <1>2, <1>4, <1>5 DEF Inv

LEMMA DetumblingReturnsStep ==
  ASSUME Inv, DetumblingReturns
  PROVE  Inv' /\ Admitted
<1>1. /\ stage = "detumbling" /\ stage' \in {"detumbling_loads", "record_lifecycle", "raised"}
      /\ UNCHANGED <<clock, proved, upstream, flight_vars, result>>
  BY DEF DetumblingReturns, Detumble, At, Go, Raises, Deliver, Escape
<1>2. stage' = "record_lifecycle" => lifecycle'.success = FALSE
  <2> SUFFICES ASSUME stage' = "record_lifecycle" PROVE lifecycle'.success = FALSE
    OBVIOUS
  <2>1. lifecycle' = [success |-> FALSE, keeps |-> {"attachment"}, failure |-> "detumbling"]
    BY DEF DetumblingReturns, Detumble, Go, Deliver, Raises, Escape
  <2> QED
    BY <2>1
<1>3. CaptureInv' /\ FlightInv'
  BY <1>1, CaptureGone, FlightKept DEF Inv
<1>4. UNCHANGED <<flight, capture, fall, anchor, certified, burning>>
  BY <1>1 DEF upstream, capture_vars, flight_vars, deorbit_run, orbit_run, monitor
<1>5. LifecycleInv'
  BY <1>1, <1>2, <1>4 DEF Inv, LifecycleInv, AfterCapture, SuccessIsPhysical
<1> QED
  BY <1>1, <1>3, <1>5 DEF Inv, Admitted

\* Only a fleet that was brought to rest goes on, and keeps none of its holds.
LEMMA DetumblingAuditedStep ==
  ASSUME Inv, DetumblingAudited
  PROVE  Inv' /\ Admitted
<1>1. /\ stage = "detumbling_loads" /\ stage' \in {"deorbit", "record_lifecycle", "raised"}
      /\ UNCHANGED <<clock, proved, upstream, deorbit_run, result>>
      /\ stage' = "deorbit" => flight = "detumbled"
  BY DEF DetumblingAudited, AuditDetumbling, At, Go, Raises, Deliver, Escape
<1>2. IF stage' = "deorbit"
      THEN /\ flight' = "plan" /\ began' = 0 /\ UNCHANGED <<command, loads>>
           /\ hold' = 0 /\ turns' = <<>> /\ quiet_dwell' = 0
      ELSE UNCHANGED <<flight, detumbling_run>>
  BY DEF DetumblingAudited
<1>3. stage' = "record_lifecycle" => lifecycle'.success = FALSE
  <2> SUFFICES ASSUME stage' = "record_lifecycle" PROVE lifecycle'.success = FALSE
    OBVIOUS
  <2>1. \E failure \in {"none", "detumbling"} :
          lifecycle' = [success |-> FALSE, keeps |-> lifecycle'.keeps, failure |-> failure]
    BY DEF DetumblingAudited, AuditDetumbling, Go, Deliver, Raises, Escape
  <2> QED
    BY <2>1
<1>4. CaptureInv'
  BY <1>1, CaptureGone
<1>5. ~certified /\ ~anchor /\ fall = <<>> /\ capture = "captured" /\ result = None
  BY <1>1 DEF Inv, LifecycleInv, AfterCapture
<1>6. FlightInv'
  <2>1. CASE stage' # "deorbit"
    BY <1>1, <1>2, <2>1, FlightKept DEF Inv, flight_vars
  <2>2. CASE stage' = "deorbit"
    <3>1. /\ flight = "detumbled" /\ flight' = "plan" /\ began' = 0 /\ UNCHANGED <<command, loads>>
          /\ hold' = 0 /\ turns' = <<>> /\ quiet_dwell' = 0
      BY <1>1, <1>2, <2>2
    <3>2. FlightTypes'
      <4>1. <<>> \in Seq(TurnRecord)
        BY EmptySeq
      <4> QED
        BY <1>1, <3>1, <4>1 DEF Inv, FlightInv, FlightTypes, deorbit_run, orbit_run, monitor,
                                DeorbitPoints
    <3>3. HoldInHand' /\ HeldLoadsAreProven'
      BY <1>1, <3>1 DEF Inv, FlightInv, HoldInHand, HeldLoadsAreProven, HoldPoints, Proving,
                        Moving, ThrustPoints
    <3>4. FallIsBracketed' /\ EntryIsBracketed'
      BY <1>1, <1>5, <3>1 DEF FallIsBracketed, EntryIsBracketed, deorbit_run, monitor
    <3>5. flight' \in DeorbitPoints \ (ThrustPoints \cup {"burning", "burned"})
      BY <3>1 DEF DeorbitPoints, ThrustPoints
    <3> QED
      BY <3>2, <3>3, <3>4, <3>5, TurnsOver, NoThrust DEF FlightInv
  <2> QED
    BY <2>1, <2>2
<1>7. LifecycleInv'
  <2>1. stage' = "deorbit" => flight' \in DeorbitPoints
    BY <1>2 DEF DeorbitPoints
  <2>2. SuccessIsPhysical'
    BY <1>1, <1>5 DEF SuccessIsPhysical
  <2>3. capture' = "captured"
    BY <1>1, <1>5 DEF upstream, capture_vars
  <2> QED
    BY <1>1, <1>3, <1>5, <2>1, <2>2, <2>3 DEF LifecycleInv, AfterCapture
<1> QED
  BY <1>1, <1>4, <1>6, <1>7 DEF Inv, Admitted

LEMMA DeorbitingStep ==
  ASSUME Inv, Deorbiting
  PROVE  Inv' /\ Admitted
<1>1. stage = "deorbit" /\ DeorbitNext /\ UNCHANGED <<completion, upstream>>
  BY DEF Deorbiting, DeorbitNext
<1>2. FlightInv' /\ flight' \in DeorbitPoints /\ Admitted
  BY <1>1, DeorbitSteps DEF Inv
<1>3. stage' = stage /\ UNCHANGED <<result, capture>>
  BY <1>1 DEF completion, upstream, capture_vars
<1>4. CaptureInv'
  BY <1>1, <1>3, CaptureGone
<1>5. LifecycleInv'
  BY <1>1, <1>2, <1>3 DEF Inv, LifecycleInv, AfterCapture, SuccessIsPhysical
<1> QED
  BY <1>2, <1>4, <1>5 DEF Inv

LEMMA DeorbitReturnsStep ==
  ASSUME Inv, DeorbitReturns
  PROVE  Inv' /\ Admitted
<1>1. /\ stage = "deorbit" /\ stage' \in {"deorbit_loads", "record_lifecycle", "raised"}
      /\ UNCHANGED <<clock, proved, upstream, flight_vars, result>>
      /\ flight \in {"deorbited", "not_deorbited", "plan"}
  BY DEF DeorbitReturns, Deorbit, At, Go, Raises, Deliver, Escape
<1>2. stage' = "record_lifecycle" => lifecycle'.success = FALSE
  <2> SUFFICES ASSUME stage' = "record_lifecycle" PROVE lifecycle'.success = FALSE
    OBVIOUS
  <2>1. lifecycle' = [success |-> FALSE, keeps |-> {"attachment", "detumbling"},
                      failure |-> "deorbit"]
    BY DEF DeorbitReturns, Deorbit, Go, Deliver, Raises, Escape
  <2> QED
    BY <2>1
<1>3. CaptureInv' /\ FlightInv'
  BY <1>1, CaptureGone, FlightKept DEF Inv
<1>4. UNCHANGED <<flight, capture>>
  BY <1>1 DEF upstream, capture_vars, flight_vars
<1>5. LifecycleInv'
  BY <1>1, <1>2, <1>4 DEF Inv, LifecycleInv, AfterCapture, SuccessIsPhysical
<1> QED
  BY <1>1, <1>3, <1>5 DEF Inv, Admitted

\* The lifecycle counts as a success only what the flight has certified.
LEMMA DeorbitAuditedStep ==
  ASSUME Inv, DeorbitAudited
  PROVE  Inv' /\ Admitted
<1>1. /\ stage = "deorbit_loads" /\ stage' \in {"record_lifecycle", "raised"}
      /\ UNCHANGED <<clock, proved, upstream, flight_vars, result>>
  BY DEF DeorbitAudited, AuditDeorbit, At, Raises, Deliver, Escape
<1>2. CASE Perform("deorbit", TRUE) /\ Deliver(TRUE, Attached, "none")
  <2>1. flight = "deorbited"
    BY <1>2 DEF DeorbitAudited, Perform
  <2>2. lifecycle' = [success |-> TRUE, keeps |-> Attached, failure |-> "none"]
    BY <1>2 DEF Deliver
  <2>3. lifecycle'.keeps = Attached
    BY <2>2
  <2> QED
    <3>1. CaptureInv' /\ FlightInv'
      BY <1>1, CaptureGone, FlightKept DEF Inv
    <3>2. UNCHANGED <<flight, capture>> /\ capture = "captured" /\ result = None
      BY <1>1 DEF upstream, capture_vars, flight_vars, Inv, LifecycleInv, AfterCapture
    <3>3. LifecycleInv'
      BY <1>1, <2>1, <2>3, <3>2 DEF LifecycleInv, AfterCapture, SuccessIsPhysical
    <3> QED
      BY <1>1, <3>1, <3>3 DEF Inv, Admitted
<1>3. CASE ~(Perform("deorbit", TRUE) /\ Deliver(TRUE, Attached, "none"))
  <2>1. stage' = "record_lifecycle" => lifecycle'.success = FALSE
    <3> SUFFICES ASSUME stage' = "record_lifecycle" PROVE lifecycle'.success = FALSE
      OBVIOUS
    <3>1. \E keeps \in {Attached, {"attachment", "detumbling"}}, failure \in {"none", "deorbit"} :
            lifecycle' = [success |-> FALSE, keeps |-> keeps, failure |-> failure]
      BY <1>3 DEF DeorbitAudited, AuditDeorbit, Deliver, Raises, Escape
    <3> QED
      BY <3>1
  <2>2. CaptureInv' /\ FlightInv'
    BY <1>1, CaptureGone, FlightKept DEF Inv
  <2>3. result = None
    BY <1>1 DEF Inv, LifecycleInv
  <2>4. LifecycleInv'
    BY <1>1, <2>1, <2>3 DEF LifecycleInv, AfterCapture, SuccessIsPhysical
  <2> QED
    BY <1>1, <2>2, <2>4 DEF Inv, Admitted
<1> QED
  BY <1>2, <1>3

\* What is returned is what the lifecycle delivered.
LEMMA RetainStep ==
  ASSUME Inv, Retain
  PROVE  Inv' /\ Admitted
<1>1. /\ stage = "record_lifecycle" /\ stage' \in {"returned", "raised"}
      /\ UNCHANGED <<clock, proved, upstream, flight_vars, lifecycle>>
      /\ result' = IF stage' = "returned"
                   THEN [success |-> lifecycle.success, budget |-> TRUE, attitude |-> TRUE,
                         lifecycle |-> lifecycle]
                   ELSE result
  BY DEF Retain, RecordLifecycle, At, locals
<1>2. CaptureInv' /\ FlightInv'
  BY <1>1, CaptureGone, FlightKept DEF Inv
<1>3. result = None
  BY <1>1 DEF Inv, LifecycleInv
<1>4. SuccessIsPhysical'
  <2> SUFFICES ASSUME result' # None, result'.success
               PROVE  /\ capture' = "captured" /\ status' = "below" /\ certified' /\ proved' = clock'
                      /\ lifecycle'.keeps = Attached
    BY DEF SuccessIsPhysical
  <2>1. stage' = "returned" /\ result'.success = lifecycle.success
    BY <1>1, <1>3
  <2>2. lifecycle.success
    BY <2>1
  <2>3. capture = "captured" /\ flight = "deorbited" /\ lifecycle.keeps = Attached
    BY <1>1, <2>2 DEF Inv, LifecycleInv
  <2>4. status = "below" /\ certified /\ proved = clock
    BY <2>3 DEF Inv, FlightInv, FallIsBracketed, HoldInHand, Moving
  <2> QED
    BY <1>1, <2>3, <2>4 DEF upstream, capture_vars, flight_vars, deorbit_run, monitor
<1>5. LifecycleInv'
  BY <1>1, <1>3, <1>4 DEF LifecycleInv, AfterCapture
<1> QED
  BY <1>1, <1>2, <1>5 DEF Inv, Admitted

LEMMA StutterStep ==
  ASSUME Inv, UNCHANGED vars
  PROVE  Inv'
<1> USE DEF vars, contact_run, capture_vars, lock_run
<1>1. CaptureInv'
  <2>1. CASE stage = "attachment"
    <3>1. CaptureTypes' /\ CapturePoint' /\ CaptureClock'
      BY <2>1 DEF Inv, CaptureInv, AtCapture, CaptureTypes, CapturePoint, CaptureClock
    <3>2. PreloadCovered' /\ DwellCovered' /\ BondsFollowProvenPreload'
      BY <2>1, ContactKept DEF Inv, CaptureInv
    <3>3. LockFollowsItsPlan'
      BY <2>1 DEF Inv, CaptureInv, AtCapture, LockFollowsItsPlan
    <3> QED
      BY <2>1, <3>1, <3>2, <3>3 DEF CaptureInv, AtCapture, completion
  <2>2. CASE stage # "attachment"
    BY <2>2 DEF Inv, CaptureInv, completion
  <2> QED
    BY <2>1, <2>2
<1>2. FlightInv'
  BY FlightKept DEF Inv, flight_vars
<1>3. LifecycleInv'
  BY DEF Inv, LifecycleInv, SuccessIsPhysical, completion, locals, detumbling_run, deorbit_run,
         orbit_run, monitor
<1> QED
  BY <1>1, <1>2, <1>3 DEF Inv

LEMMA NextInv == Inv /\ [Next]_vars => Inv' /\ (Admitted \/ UNCHANGED vars)
<1> SUFFICES ASSUME Inv, [Next]_vars PROVE Inv' /\ (Admitted \/ UNCHANGED vars)
  OBVIOUS
<1>1. CASE UNCHANGED vars
  BY <1>1, StutterStep
<1>2. CASE Next
  BY <1>2, CapturingStep, CaptureReturnsStep, PropulsionStep, DetumblingWorks,
     DetumblingReturnsStep, DetumblingAuditedStep, DeorbitingStep, DeorbitReturnsStep,
     DeorbitAuditedStep, RetainStep DEF Next
<1> QED
  BY <1>1, <1>2

\* All three parts of the invariant hold in every state of the physical
\* mission, its types among them.
THEOREM InvariantHolds == Spec => []Inv
<1>1. Inv /\ [Next]_vars => Inv'
  BY NextInv
<1> QED
  BY <1>1, InitInv, PTL DEF Spec

\* The target is captured on proved contact and locked along a plan proved to
\* its end, from one declaration, whatever the dwells, the fleet and the number
\* of steps (contact/simulator.py, contact/lock/transition.py).
THEOREM CaptureAlwaysProven == Spec => []CaptureIsProven
<1>1. Inv => CaptureIsProven
  <2>1. CASE Inv /\ stage = "attachment"
    BY <2>1, SettlingCovered DEF Inv, CaptureInv, AtCapture, CaptureIsProven
  <2>2. CASE Inv /\ stage # "attachment"
    <3>1. contact = "off" /\ executed = <<>> /\ carried = Never /\ plan = <<>>
      BY <2>2 DEF Inv, CaptureInv
    <3> QED
      BY <3>1, EmptySeq
         DEF CaptureIsProven, BondsFollowProvenPreload, SettlingIsProven, LockFollowsItsPlan
  <2> QED
    BY <2>1, <2>2
<1> QED
  BY <1>1, InvariantHolds, PTL

\* Every held flight has its loads proved, a detumbling its whole dwell, a
\* burn its limits, and a success is a fall through the interface that was
\* bracketed, whatever the limits, the delays and the steps
\* (attached/detumbling.py, attached/disposal/simulator.py).
THEOREM DescentAlwaysProven == Spec => []DescentIsProven
<1>1. Inv => DescentIsProven
  BY DEF Inv, FlightInv, LifecycleInv, DescentIsProven
<1> QED
  BY <1>1, InvariantHolds, PTL

\* The mission implements the abstract flight: nothing moves except along an
\* interval proved before, from the state it leaves.
THEOREM MovesAreAdmitted == Spec => MovesOnlyAsProved
<1>1. Init => Flight!Init
  BY DEF Init, Flight!Init
<1>2. Inv /\ [Next]_vars => [Flight!Next]_<<clock, proved>>
  BY NextInv DEF Admitted, vars
<1> QED
  BY <1>1, <1>2, InvariantHolds, PTL DEF Spec, MovesOnlyAsProved, Flight!Spec

=============================================================================

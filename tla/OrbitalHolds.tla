----------------------------- MODULE OrbitalHolds -----------------------------
(***************************************************************************)
(* Analytical orbital holds (control/certification/orbital.py): a service  *)
(* owns its proof from end to end, keeps a separate endpoint next to the   *)
(* swept flow, and relies on saved evidence only after proving it again.   *)
(*                                                                         *)
(* One coordinate moves by a coefficient of the model, an unknown constant *)
(* input and two varying errors.  The flow is one Picard step over the     *)
(* whole hold, from an entry that may be larger than the requested one.    *)
(***************************************************************************)
EXTENDS Integers, FiniteSetsExt

CONSTANTS Contexts,   \* [disturbance, authority, domain]: retained assumptions
          Coefficient,\* the model's affine coefficient lies within it of 0
          Requests,   \* [initial, entry, input, delivery, start, width]
          Sources     \* versions of the proof's own source files

Boxes == {box \in [lo : Int, hi : Int] : box.lo <= box.hi}

OrbitalAssumption ==
  /\ Coefficient \in Nat
  /\ Contexts \subseteq [disturbance : Nat, authority : Nat, domain : Nat]
  /\ Requests \subseteq [initial : Boxes, entry : Boxes, input : Boxes,
                         delivery : Nat, start : Int, width : Nat \ {0}]

VARIABLES service,   \* an OrbitalHoldProofService: its context and loaded source
          sourceFile,\* what the source files hold now
          savedHold, \* an evidence record on file
          heldFlow,  \* the flow a caller relies on
          orbit      \* the motion through that hold
orbitalVars == <<service, sourceFile, savedHold, heldFlow, orbit>>

None == [status |-> "none"]

-----------------------------------------------------------------------------
Span(lo, hi) == [lo |-> lo, hi |-> hi]
Widen(box, by) == Span(box.lo - by, box.hi + by)
Holds(outer, box) == outer.lo <= box.lo /\ box.hi <= outer.hi
Common(a, b) == Span(Max({a.lo, b.lo}), Min({a.hi, b.hi}))
Moved(box, width, f) == Span(box.lo + width * f.lo, box.hi + width * f.hi)

\* The disturbance of the context and the delivery error of the request.
TotalError(context, request) == context.disturbance + request.delivery

\* _validate: the source, the clock's domain, the authority, the larger entry.
Allowed(request) ==
  /\ sourceFile = service.source
  /\ 0 <= request.start /\ request.start + request.width <= service.context.domain
  /\ Holds(Span(-service.context.authority, service.context.authority),
           Widen(request.input, request.delivery))
  /\ Holds(request.entry, request.initial)

\* What moves the state: coefficient, constant input, both varying errors.
HeldField(context, request) ==
  Widen(request.input, Coefficient + TotalError(context, request))

PicardEndpoint(context, request) ==
  Moved(request.entry, request.width, HeldField(context, request))
PicardSwept(context, request) ==
  LET end == PicardEndpoint(context, request)
  IN  Span(Min({request.entry.lo, end.lo}), Max({request.entry.hi, end.hi}))

\* Mutant: the delivery error is left to the input box.
EndpointWithoutDelivery(context, request) ==
  Widen(Moved(request.initial, request.width, request.input),
        request.width * (Coefficient + context.disturbance))

\* Variation of constants from the requested entry: the constant input moves
\* the box, the residual around the frozen coefficient widens it.
VocEndpoint(context, request) ==
  Widen(Moved(request.initial, request.width, request.input),
        request.width * (Coefficient + TotalError(context, request)))

\* _refine: both endpoints hold.
Refined(context, request) ==
  Common(VocEndpoint(context, request), PicardEndpoint(context, request))

HoldRecord(context, request, status) ==
  [status |-> status, context |-> context, implementation |-> service.source,
   request |-> request, swept |-> PicardSwept(context, request),
   endpoint |-> Refined(context, request)]

\* A proof in this service's own context; the inclusion may stay unresolved.
Proofs(request) ==
  IF Allowed(request)
  THEN {HoldRecord(service.context, request, "proven"), [status |-> "unresolved"]}
  ELSE {[status |-> "refused"]}

\* Mutant: the flags and identities of the record are enough.
RebuiltOnFlags(saved) ==
  IF /\ saved.status = "proven" /\ saved.context = service.context
     /\ saved.implementation = service.source /\ sourceFile = service.source
  THEN {saved} ELSE {[status |-> "refused"]}

\* The record names this context and implementation, and the proof that is
\* made again from its request and entry is the same record.
Rebuilt(saved) ==
  IF /\ saved.status = "proven" /\ saved.context = service.context
     /\ saved.implementation = service.source /\ sourceFile = service.source
  THEN {IF proof = saved THEN proof ELSE [status |-> "refused"] : proof \in Proofs(saved.request)}
  ELSE {[status |-> "refused"]}

-----------------------------------------------------------------------------
OrbitalInit ==
  /\ service \in [context : Contexts, source : Sources]
  /\ sourceFile = service.source
  /\ savedHold = None /\ heldFlow = None /\ orbit = None

Prove(request) ==
  /\ orbit = None
  /\ heldFlow' \in Proofs(request)
  /\ UNCHANGED <<service, sourceFile, savedHold, orbit>>

SaveEvidence ==
  /\ heldFlow.status = "proven" /\ orbit = None
  /\ savedHold' = heldFlow
  /\ UNCHANGED <<service, sourceFile, heldFlow, orbit>>

\* The saved record comes back with another endpoint, or was made for another
\* request than it says.
EvidenceDiffers ==
  /\ savedHold.status = "proven"
  /\ savedHold.endpoint = Refined(savedHold.context, savedHold.request)
  /\ \/ savedHold' = [savedHold EXCEPT !.endpoint = Span(@.lo + 1, @.hi)]
     \/ \E request \in Requests : savedHold' = [savedHold EXCEPT !.request = request]
  /\ UNCHANGED <<service, sourceFile, heldFlow, orbit>>

\* Another process: its context, its loaded source.
Restart ==
  /\ service' \in [context : Contexts, source : {sourceFile}]
  /\ heldFlow' = None /\ orbit' = None
  /\ UNCHANGED <<sourceFile, savedHold>>

SourceEdited ==
  /\ sourceFile' \in Sources \ {sourceFile}
  /\ UNCHANGED <<service, savedHold, heldFlow, orbit>>

Rebuild ==
  /\ orbit = None
  /\ savedHold # None
  /\ heldFlow' \in Rebuilt(savedHold)
  /\ UNCHANGED <<service, sourceFile, savedHold, orbit>>

\* The hold is flown from the requested entry with one constant input.
EnterHold ==
  /\ orbit = None /\ heldFlow.status = "proven"
  /\ \E at \in {heldFlow.request.initial.lo, heldFlow.request.initial.hi},
        input \in {heldFlow.request.input.lo, heldFlow.request.input.hi} :
       orbit' = [status |-> "flying", at |-> at, input |-> input, tick |-> 0]
  /\ UNCHANGED <<service, sourceFile, savedHold, heldFlow>>

Coast ==
  /\ orbit # None /\ orbit.tick < heldFlow.request.width
  /\ LET most == Coefficient + TotalError(service.context, heldFlow.request)
     IN  \E error \in {-most, 0, most} :
           orbit' = [orbit EXCEPT !.at = @ + orbit.input + error, !.tick = @ + 1]
  /\ UNCHANGED <<service, sourceFile, savedHold, heldFlow>>

OrbitalNext ==
  \/ \E request \in Requests : Prove(request)
  \/ SaveEvidence \/ EvidenceDiffers \/ Restart \/ SourceEdited \/ Rebuild
  \/ EnterHold \/ Coast

OrbitalSpec == OrbitalInit /\ [][OrbitalNext]_orbitalVars

-----------------------------------------------------------------------------
\* A flow a caller may rely on, fresh or rebuilt from evidence that was saved
\* under another context, edited, or outlived its source, keeps the actual
\* motion in its swept box throughout and in its endpoint at the end.
ReliedFlowsKeepTheMotion ==
  orbit # None =>
    /\ heldFlow.swept.lo <= orbit.at /\ orbit.at <= heldFlow.swept.hi
    /\ orbit.tick = heldFlow.request.width =>
         heldFlow.endpoint.lo <= orbit.at /\ orbit.at <= heldFlow.endpoint.hi

=============================================================================

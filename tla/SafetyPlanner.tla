---------------------------- MODULE SafetyPlanner ----------------------------
(***************************************************************************)
(* The finite refuge search of NonlinearSafetyPlanner                      *)
(* (simulation/nonlinear/safety/planner.py, candidates.py) around the      *)
(* admission transaction it serves.  The mission runner retains or         *)
(* replaces the runtime at the start of an update; the executor asks for a *)
(* successor of each performance hold that the stored route cannot take    *)
(* over.  Both walk a finite list of candidate routes, each of which is    *)
(* proved or refused as a whole, under one forecast of the target and, for *)
(* close fleets, of its attitude.                                          *)
(*                                                                         *)
(* One proved route is one of the Plans; what the interval proofs refuse   *)
(* is left open.  A search runs inside one call: the clock, the plan in    *)
(* force and the ledger stand still until it answers.                      *)
(***************************************************************************)
EXTENDS FleetAdmission

CONSTANTS FarProfiles,   \* braking profiles in the order they are tried
          NearWidths,    \* retreat durations close to the target
          NearExtra,     \* near_refuge_extra_holds, tried when all refuse
          NearProfiles,  \* tracking shapes tried close to the target
          HoldingWidth,  \* holding duration at the end of every route
          UpdateWidth,   \* scope a retained runtime has to cover
          ClockEnd,      \* end of the declared clock domain
          Contingency,   \* an acceleration-prefix proposal is configured
          NoSearch

\* "prefix" is the acceleration prefix and its braking, "coordinated" a
\* common braking, "shared" an independent route along the references drawn
\* once for the search, "own" one along references of its own.
Kinds == {"prefix", "coordinated", "shared", "own"}

ASSUME ProfileAssumption ==
  /\ FarProfiles \in Seq([kind : Kinds, width : Nat \ {0}])
  /\ NearWidths \in Seq(Nat \ {0}) /\ NearExtra \in Seq(Nat \ {0})
  /\ NearProfiles \in Nat \ {0}
  /\ HoldingWidth \in Nat \ {0} /\ UpdateWidth \in Nat \ {0}
  /\ ClockEnd \in Nat /\ Contingency \in BOOLEAN

VARIABLES turn,    \* "refuge", "propose", "decide" or "hold"
          search   \* the search in progress, or NoSearch

runtime == <<active_fallback, q, remaining_fuel_kg, pending, moved, truth, tank>>
svars == <<runtime, turn, search>>

-----------------------------------------------------------------------------
(* The candidate routes of a search                                        *)

\* Close fleets try every duration under every tracking shape; the tangent
\* offsets of one duration share its route length.
NearRoutes(s) ==
  LET widths == IF s.extra THEN NearExtra ELSE NearWidths IN
  [i \in 1..(NearProfiles * Len(widths)) |->
     [kind |-> "own", width |-> widths[1 + ((i - 1) % Len(widths))]]]

FarRoutes(s) == SelectSeq(FarProfiles, LAMBDA r : r.kind # "prefix" \/ s.prefix)

Routes(s) == IF s.regime = "near" THEN NearRoutes(s) ELSE FarRoutes(s)

FitsClock(s, width) == s.at + width + HoldingWidth <= ClockEnd

Eligible(s) ==
  {Routes(s)[i].width : i \in {j \in DOMAIN Routes(s) : FitsClock(s, Routes(s)[j].width)}}

Longest(widths) == CHOOSE w \in widths : \A v \in widths : v <= w

\* What the same search would forecast without its acceleration prefix.
Legacy(s) == [s EXCEPT !.prefix = FALSE]

ExtendedForecast(s) ==
  s.prefix /\ Eligible(Legacy(s)) # {} /\ s.forecast > Longest(Eligible(Legacy(s)))

\* A route along the shared references holds until the end of the forecast.
RouteEnd(s, r) ==
  s.at + HoldingWidth + (IF r.kind = "shared" THEN s.forecast ELSE r.width)

\* A coordinated duration that was tried is not tried again.
Repeated(s) ==
  LET r == Routes(s)[s.next] IN
  r.kind = "coordinated" /\ \E i \in 1..(s.next - 1) : Routes(s)[i] = r

\* construct_refuge_plan: force, tracking, target and peer proofs hold for
\* every window of the route, or the whole route is refused.  Proofs are
\* drawn for the declared disturbance and clearance.
Constructed(s, r) ==
  {p \in Plans : p.start = s.at /\ PlanEnd(p) = RouteEnd(s, r) /\ Valid(p)}

\* A successor is chosen against what its own hold leaves in the tanks.
FuelBudget(s) ==
  [a \in Agents |-> remaining_fuel_kg[a] - s.charge[a]]

Selected(s, p) ==
  /\ contains(p, s.entry, s.at)
  /\ \A a \in Agents : remaining_fuel(p, s.at)[a] <= FuelBudget(s)[a]

-----------------------------------------------------------------------------
(* The start of an update                                                  *)

Regimes == {"far", "mixed", "near"}

Begin(s) == search' = s /\ UNCHANGED <<runtime, turn>>

\* retain_runtime: the same route still covers the whole update and its
\* ledger; nothing is installed, and no fresh entry is granted.
Retainable ==
  /\ active_fallback.start <= q /\ q + UpdateWidth <= PlanEnd(active_fallback)
  /\ Affords(remaining_fuel_kg, NoCharge, active_fallback, q)

RetainRuntime ==
  /\ turn = "refuge" /\ search = NoSearch /\ Retainable
  /\ turn' = "propose"
  /\ UNCHANGED <<runtime, search>>

\* prepare: what is not retained is searched afresh from the complete current
\* observation.  Reuse is also refused to an observation that exceeds the
\* certified measurement error or contradicts the tube.
Prepare ==
  /\ turn = "refuge" /\ search = NoSearch
  /\ \E entry \in SUBSET Cells, regime \in Regimes :
       /\ truth \in entry
       /\ Begin([task |-> "install", at |-> q, entry |-> entry, charge |-> NoCharge, width |-> 0,
                 regime |-> regime, prefix |-> FALSE, extra |-> FALSE,
                 forecast |-> 0, step |-> "target", next |-> 1, plan |-> NoSearch])

-----------------------------------------------------------------------------
(* A performance hold and its successor                                    *)

Suits(p, h, endpoints, c) ==
  contains(p, endpoints, q + h) /\ Affords(remaining_fuel_kg, c, p, q + h)

Proposals == [h : Holds, endpoints : SUBSET Cells \ {{}}, c : [Agents -> 0..MaxCharge]]

\* No plan arrived, or its flow, geometry or sources were refused.
NoProposal ==
  /\ turn = "propose" /\ search = NoSearch
  /\ turn' = "decide"
  /\ UNCHANGED <<runtime, search>>

\* The stored suffix is preferred when it takes over the endpoints and its
\* reserve is still there.
ProposeSuffix ==
  /\ turn = "propose" /\ search = NoSearch
  /\ \E x \in Proposals :
       /\ HoldFits(active_fallback, q, x.h) /\ HasSuffix(active_fallback, q + x.h)
       /\ LET p == suffix(active_fallback, q + x.h) IN
          /\ Suits(p, x.h, x.endpoints, x.c)
          /\ search' = [task |-> "successor", at |-> q + x.h, entry |-> x.endpoints,
                        charge |-> x.c, width |-> x.h, regime |-> "far", prefix |-> FALSE,
                        extra |-> FALSE, forecast |-> 0, step |-> "ready", next |-> 1, plan |-> p]
  /\ turn' = "decide"
  /\ UNCHANGED runtime

\* Otherwise a successor is searched from the complete projected endpoints.
PrepareSuccessor ==
  /\ turn = "propose" /\ search = NoSearch
  /\ \E x \in Proposals, regime \in Regimes :
       /\ HoldFits(active_fallback, q, x.h) /\ HasSuffix(active_fallback, q + x.h)
       /\ ~Suits(suffix(active_fallback, q + x.h), x.h, x.endpoints, x.c)
       /\ \A a \in Agents : x.c[a] <= remaining_fuel_kg[a]
       /\ Begin([task |-> "successor", at |-> q + x.h, entry |-> x.endpoints, charge |-> x.c,
                 width |-> x.h, regime |-> regime, prefix |-> Contingency /\ regime # "near",
                 extra |-> FALSE, forecast |-> 0, step |-> "target", next |-> 1, plan |-> NoSearch])

-----------------------------------------------------------------------------
(* The search                                                              *)

At(step) == search # NoSearch /\ search.step = step
Continue(s) == search' = s /\ UNCHANGED <<runtime, turn>>

\* A refused preparation leaves the runtime alone: the update goes on under
\* it, and a hold without a successor is a hold without a proposal.
Refuse ==
  /\ search' = NoSearch
  /\ turn' = IF search.task = "install" THEN "propose" ELSE "decide"
  /\ UNCHANGED runtime

\* "An optional proposal must not suppress the shorter, previously available
\* finite search": once, without the prefix.
Abandon ==
  IF search.task = "successor" /\ ExtendedForecast(search)
  THEN Continue([Legacy(search) EXCEPT !.step = "target"])
  ELSE Refuse

\* One forecast reaches to the end of the longest route that fits the clock.
ChooseForecast ==
  /\ At("target")
  /\ IF Eligible(search) = {} THEN Refuse
     ELSE Continue([search EXCEPT !.forecast = Longest(Eligible(search)), !.step = "forecast"])

TargetForecast ==
  /\ At("forecast")
  /\ \/ Continue([search EXCEPT !.step = IF search.regime = "far" THEN "route" ELSE "pose"])
     \/ Abandon

\* One close member suffices for the observed attitude to be carried along.
PoseForecast ==
  /\ At("pose")
  /\ \/ Continue([search EXCEPT !.step = "route"])
     \/ Abandon

Candidate == Routes(search)[search.next]
More == search.next <= Len(Routes(search))
NextRoute == Continue([search EXCEPT !.next = @ + 1])

SkipRoute ==
  /\ At("route") /\ More
  /\ ~FitsClock(search, Candidate.width) \/ Repeated(search)
  /\ NextRoute

\* A refused candidate is recorded and the next one is tried.
RefuseRoute ==
  /\ At("route") /\ More
  /\ FitsClock(search, Candidate.width) /\ ~Repeated(search)
  /\ NextRoute

AcceptRoute ==
  /\ At("route") /\ More
  /\ FitsClock(search, Candidate.width) /\ ~Repeated(search)
  /\ \E p \in Constructed(search, Candidate) :
       /\ Selected(search, p)
       /\ Continue([search EXCEPT !.plan = p, !.step = "witness"])

\* Mutant: the extended search forgets that it is the extended one.
ExhaustedForgetful ==
  /\ At("route") /\ ~More
  /\ IF search.regime = "near" /\ ~search.extra /\ NearExtra # <<>>
     THEN Continue([search EXCEPT !.step = "target", !.next = 1])
     ELSE Continue([search EXCEPT !.step = "exhausted"])

\* Only an exhausted valid search may ask for extra maneuver time, once.
Exhausted ==
  /\ At("route") /\ ~More
  /\ IF search.regime = "near" /\ ~search.extra /\ NearExtra # <<>>
     THEN Continue([search EXCEPT !.extra = TRUE, !.step = "target", !.next = 1])
     ELSE Continue([search EXCEPT !.step = "exhausted"])

RefuseAll == At("exhausted") /\ Refuse

\* The complete witness is acknowledged before the plan is handed out.
PublishWitness ==
  /\ At("witness")
  /\ \/ search.task = "install" /\ Continue([search EXCEPT !.step = "ready"])
     \/ /\ search.task = "successor"
        /\ search' = [search EXCEPT !.step = "ready"] /\ turn' = "decide"
        /\ UNCHANGED runtime
     \/ Refuse

\* The runtime built on the new plan is checked once more and installed.
InstallPrepared ==
  /\ At("ready") /\ search.task = "install"
  /\ IF Installable(search.plan)
     THEN active_fallback' = search.plan ELSE UNCHANGED active_fallback
  /\ search' = NoSearch /\ turn' = "propose"
  /\ UNCHANGED <<q, remaining_fuel_kg, pending, moved, truth, tank>>

SearchStep ==
  \/ ChooseForecast \/ TargetForecast \/ PoseForecast
  \/ SkipRoute \/ RefuseRoute \/ AcceptRoute \/ Exhausted \/ RefuseAll
  \/ PublishWitness \/ InstallPrepared

-----------------------------------------------------------------------------
(* The hold                                                                *)

\* Mutant: a prepared successor is admitted without a second look.
DecidePreparedTrusting ==
  /\ turn = "decide" /\ At("ready") /\ search.task = "successor"
  /\ pending' = [source |-> "PERFORMANCE", start |-> q, hold_width |-> search.width,
                 charged_fuel |-> search.charge, successor |-> search.plan,
                 endpoints |-> search.entry]
  /\ search' = NoSearch /\ turn' = "hold"
  /\ UNCHANGED <<active_fallback, q, remaining_fuel_kg, moved, truth, tank>>

\* decide with a proposal: stored feedback is evaluated first, and admission
\* looks at the prepared successor again.
DecidePrepared ==
  /\ turn = "decide" /\ At("ready") /\ search.task = "successor"
  /\ \E c \in FallbackCharges(search.width) : FallbackCharge(search.width, c)
  /\ Admissible(search.width, search.plan, search.entry, search.charge)
  /\ pending' = [source |-> "PERFORMANCE", start |-> q, hold_width |-> search.width,
                 charged_fuel |-> search.charge, successor |-> search.plan,
                 endpoints |-> search.entry]
  /\ search' = NoSearch /\ turn' = "hold"
  /\ UNCHANGED <<active_fallback, q, remaining_fuel_kg, moved, truth, tank>>

\* No proposal, or one that admission refuses.
DecideStored ==
  /\ turn = "decide"
  /\ search # NoSearch =>
       ~Admissible(search.width, search.plan, search.entry, search.charge)
  /\ DecideFallback
  /\ search' = NoSearch /\ turn' = "hold"

PlannedApply == ApplyHold /\ UNCHANGED <<turn, search>>

\* The next hold belongs to the same update, or the next update begins.
PlannedCommit ==
  /\ Commit
  /\ turn' \in {"propose", "refuge"}
  /\ UNCHANGED search

\* An online executor may activate a replacement between two holds.
PlannedReplacement ==
  /\ turn = "propose" /\ search = NoSearch
  /\ ActivateReplacement
  /\ UNCHANGED <<turn, search>>

PlannerInit == Init /\ turn = "propose" /\ search = NoSearch

HoldStep == DecidePrepared \/ DecideStored \/ PlannedApply \/ PlannedCommit

PlannerNext ==
  \/ RetainRuntime \/ Prepare
  \/ NoProposal \/ ProposeSuffix \/ PrepareSuccessor
  \/ SearchStep \/ HoldStep \/ PlannedReplacement

\* One thread plans, decides, applies and commits: it never stops halfway.
PlannerSpec ==
  /\ PlannerInit /\ [][PlannerNext]_svars
  /\ WF_svars(SearchStep) /\ WF_svars(HoldStep)
  /\ WF_svars(NoProposal \/ ProposeSuffix \/ PrepareSuccessor)
  /\ WF_svars(RetainRuntime \/ Prepare)

-----------------------------------------------------------------------------
(* Properties                                                              *)

\* Whatever the searches propose, the runtime makes only the steps of the
\* admission transaction: the planner prepares, it never installs a plan,
\* moves the clock or touches the ledger on its own (planner.py:416-423).
ImplementsAdmission == Init /\ [][Next]_vars

\* While the plan in force still admits a hold, a hold is decided: a search
\* that retries, once without its prefix or once with extra maneuver time,
\* ends, and a refused one never costs the fleet its hold.
HoldIsDecided ==
  (turn = "propose" /\ \E h \in Holds : HoldFits(active_fallback, q, h))
    ~> pending # None

=============================================================================

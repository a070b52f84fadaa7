------------------------- MODULE TerminalHandoffProofs -------------------------
(***************************************************************************)
(* The terminal stage moves the fleet only out of boxes that were proved,  *)
(* what it calls completed is accepted by the handoff, and a budget debits *)
(* one unbroken history: for every set of states, window, hold and number  *)
(* of runs; and no substep is too short to be tried, for all rational steps*)
(* and every hold.                                                         *)
(*                                                                         *)
(* History is what both the run in progress and the saved result promise of*)
(* the holds that were executed; RunInv says where the run stands after    *)
(* them, ResultInv what of it is saved, and CompleterInv what the completer*)
(* has verified and debited at each of its points.                         *)
(***************************************************************************)
EXTENDS TerminalHandoff, SequenceTheorems, FiniteSetTheorems, WellFoundedInduction, TLAPS

RunFields ==
  {"stage", "source", "bandwidth", "q", "last", "x", "first", "seen", "seenAt", "path", "clocks",
   "records", "hold", "flow", "proved", "status"}

\* A run between its admission and its last one.
Admitted == {"propose", "enclose", "move", "final"}
RunPoints == {"admit", "observe", "done"} \cup Admitted

\* The holds that were executed.
Moved(e) == Len(e.clocks) - 1

HoldFollows(e, i) ==
  /\ e.records[i].executed /\ e.records[i].stage = i - 1
  /\ e.records[i].start = e.clocks[i] /\ e.records[i].width = e.clocks[i + 1] - e.clocks[i]
  /\ e.records[i].state = e.path[i + 1]
  /\ e.path[i] \in e.records[i].seen /\ Robust(e.records[i].seen)
  /\ i = 1 => e.records[i].seen = e.first
  /\ i > 1 => e.records[i].seen \subseteq e.records[i - 1].endpoint
  /\ i < Moved(e) => e.path[i + 1] \in e.records[i].endpoint

History(e) ==
  /\ e.source \in ApproachEnd /\ e.bandwidth \in 1..Bandwidths /\ e.first \in Boxes
  /\ e.path \in Seq(States) /\ e.clocks \in Seq(Int) /\ e.records \in Seq(TerminalHold)
  /\ Len(e.clocks) > 0 /\ Len(e.path) = Len(e.clocks) /\ Len(e.records) >= Moved(e)
  /\ \A i \in 1..Moved(e) : HoldFollows(e, i)

RunTypes(e) ==
  /\ DOMAIN e = RunFields
  /\ e.stage \in RunPoints /\ e.status \in {"running", Complete, Refused}
  /\ e.last \in Int /\ e.hold \in Int /\ e.seen \in SUBSET States /\ e.seenAt \in Int

\* The box in hand: of this moment, with the plant in it, and refined.
InHand(e) ==
  /\ Len(e.records) = Moved(e)
  /\ e.x \in e.seen /\ e.seenAt = e.q /\ Robust(e.first)
  /\ Moved(e) = 0 => e.seen = e.first
  /\ Moved(e) > 0 => e.seen \subseteq e.records[Moved(e)].endpoint

Completed(e) == e.stage = "done" /\ e.status = Complete

RunStands(e) ==
  /\ e.q = e.clocks[Len(e.clocks)] /\ e.x = e.path[Len(e.path)]
  /\ e.stage = "admit" =>
       Moved(e) = 0 /\ Len(e.records) = 0 /\ e.seen = e.first /\ e.seenAt = e.q
  /\ e.stage \in Admitted \/ Completed(e) => InHand(e)
  /\ e.stage \in {"enclose", "move"} \/ Completed(e) => Robust(e.seen)
  /\ e.stage = "observe" =>
       /\ Len(e.records) = Moved(e) /\ Moved(e) > 0 /\ Robust(e.first)
       /\ e.proved = e.records[Moved(e)].endpoint /\ e.x \in e.proved
  /\ e.stage = "done" =>
       /\ e.status \in {Complete, Refused}
       /\ Len(e.records) <= Moved(e) + 1
       /\ Len(e.records) = Moved(e) + 1 => ~e.records[Len(e.records)].executed

RunInv == exe # Nothing => History(exe) /\ RunTypes(exe) /\ RunStands(exe)

\* What a completed run leaves behind.
KeptRun(r) ==
  /\ History(r) /\ Len(r.records) = Moved(r)
  /\ r.seenAt = r.clocks[Len(r.clocks)] /\ r.path[Len(r.path)] \in r.seen
  /\ Moved(r) > 0 => r.seen \subseteq r.records[Moved(r)].endpoint
  /\ Robust(r.first) /\ Robust(r.seen)

ResultInv ==
  result # Nothing =>
    /\ result \in CompletedRun \cup RefusedRun
    /\ result \in CompletedRun => KeptRun(result)

FilesInv ==
  /\ approach \in ApproachEnd /\ approach.end > 0
  /\ guarded.holds \in Nat \ {0} /\ guarded.box \in Entries

Verifying == {"journal", "verified", "budget", "replay", "tail", "again", "done"}
Budgeting == {"budget", "replay", "tail", "again", "done"}

Debited == Steps(0, loaded.end) \o TailHolds(handoff.exe)

CompleterInv ==
  /\ stage \in {"idle", "read"} \cup Verifying
  /\ stage # "idle" => loaded \in ApproachEnd /\ loaded.end > 0
  /\ stage = "read" => result # Nothing
  /\ stage \in Verifying =>
       handoff.exe \in CompletedRun /\ Verified(handoff.approach, handoff.exe)
  /\ stage \in Budgeting => handoff.approach = loaded
  /\ stage \in {"replay", "tail", "again"} => bound # Nothing
  /\ stage = "tail" => ledger = Steps(0, loaded.end)
  /\ stage = "again" => ledger = Debited
  /\ stage = "done" =>
       ledger = IF bound = Nothing THEN <<<<0, Last(handoff.exe.clocks)>>>> ELSE Debited

Inv == RunInv /\ ResultInv /\ FilesInv /\ CompleterInv

-----------------------------------------------------------------------------
(* Histories                                                               *)

LEMMA Typed ==
  ASSUME NEW e, History(e)
  PROVE  /\ Len(e.clocks) \in Nat \ {0} /\ Moved(e) \in Nat /\ Len(e.records) \in Nat
         /\ Len(e.path) = Len(e.clocks) /\ Len(e.clocks) = Moved(e) + 1
         /\ \A i \in 1..Len(e.clocks) : e.clocks[i] \in Int /\ e.path[i] \in States
         /\ \A i \in 1..Len(e.records) : e.records[i] \in TerminalHold
  BY ElementOfSeq, LenProperties DEF History, Moved

\* t is s with v behind it.
Longer(S, t, s, v) ==
  /\ t \in Seq(S) /\ Len(t) = Len(s) + 1
  /\ \A i \in 1..Len(s) : t[i] = s[i]
  /\ t[Len(s) + 1] = v

LEMMA Appended ==
  ASSUME NEW S, NEW s \in Seq(S), NEW v \in S
  PROVE  Longer(S, Append(s, v), s, v)
  BY AppendProperties DEF Longer

\* A run goes on from the same approach, within the same bounds.
Continued(e, f) == f.source = e.source /\ f.bandwidth = e.bandwidth /\ f.first = e.first

\* f is e with one record more, and with one hold more.
OneRecordMore(e, f, event) ==
  /\ Continued(e, f) /\ f.path = e.path /\ f.clocks = e.clocks
  /\ Longer(TerminalHold, f.records, e.records, event)

OneHoldMore(e, f, event, x, clock) ==
  /\ Continued(e, f) /\ Longer(TerminalHold, f.records, e.records, event)
  /\ Longer(States, f.path, e.path, x) /\ Longer(Int, f.clocks, e.clocks, clock)

\* A hold of e to x that starts where e stands, out of a box that is proved.
MovesOn(e, event, x, clock) ==
  /\ event.executed /\ event.stage = Moved(e) /\ event.state = x
  /\ event.start = e.clocks[Len(e.clocks)] /\ event.width = clock - e.clocks[Len(e.clocks)]
  /\ e.path[Len(e.path)] \in event.seen /\ Robust(event.seen)
  /\ Moved(e) = 0 => event.seen = e.first
  /\ Moved(e) > 0 => event.seen \subseteq e.records[Moved(e)].endpoint

\* A run that keeps its history keeps what it promises.
LEMMA SameHistory ==
  ASSUME NEW e, NEW f, History(e), f.source = e.source, f.bandwidth = e.bandwidth,
         f.first = e.first, f.path = e.path, f.clocks = e.clocks, f.records = e.records
  PROVE  History(f) /\ Moved(f) = Moved(e)
  <1>1. Moved(f) = Moved(e)
    BY DEF Moved
  <1>2. ASSUME NEW i \in 1..Moved(e), HoldFollows(e, i) PROVE HoldFollows(f, i)
    BY <1>1, <1>2 DEF HoldFollows
  <1>. QED
    BY <1>1, <1>2 DEF History

\* A record that moves nothing is added behind the holds.
LEMMA RecordAdded ==
  ASSUME NEW e, NEW f, NEW event \in TerminalHold, History(e), Len(e.records) = Moved(e),
         OneRecordMore(e, f, event)
  PROVE  /\ History(f) /\ Moved(f) = Moved(e)
         /\ Len(f.records) = Moved(f) + 1 /\ f.records[Len(f.records)] = event
  <1>0. e.path \in Seq(States) /\ e.clocks \in Seq(Int) /\ e.records \in Seq(TerminalHold)
    BY DEF History
  <1>1. /\ f.records \in Seq(TerminalHold) /\ Len(f.records) = Len(e.records) + 1
        /\ \A i \in 1..Len(e.records) : f.records[i] = e.records[i]
        /\ f.records[Len(e.records) + 1] = event
    BY <1>0 DEF OneRecordMore, Longer
  <1>2. Moved(f) = Moved(e) /\ Moved(e) \in Nat
    BY Typed DEF OneRecordMore, Moved
  <1>3. ASSUME NEW i \in 1..Moved(f) PROVE HoldFollows(f, i)
    <2>1. HoldFollows(e, i) /\ f.records[i] = e.records[i]
      BY <1>1, <1>2 DEF History
    <2>2. i > 1 => f.records[i - 1] = e.records[i - 1]
      BY <1>1, <1>2
    <2>. QED
      BY <1>2, <2>1, <2>2 DEF OneRecordMore, Continued, HoldFollows
  <1>4. History(f)
    BY <1>1, <1>2, <1>3 DEF OneRecordMore, Continued, History
  <1>. QED
    BY <1>1, <1>2, <1>4

\* A hold that starts where the history ends, from a box that is proved, is one more.
LEMMA HoldAdded ==
  ASSUME NEW e, NEW f, NEW event \in TerminalHold, NEW x \in States, NEW clock \in Int,
         History(e), Len(e.records) = Moved(e),
         OneHoldMore(e, f, event, x, clock), MovesOn(e, event, x, clock)
  PROVE  /\ History(f) /\ Moved(f) = Moved(e) + 1 /\ Len(f.records) = Moved(f)
         /\ f.records[Moved(f)] = event
         /\ f.clocks[Len(f.clocks)] = clock /\ f.path[Len(f.path)] = x
  <1> DEFINE n == Moved(e)
  <1>1. /\ n \in Nat /\ Len(e.clocks) = n + 1 /\ Len(e.path) = n + 1 /\ Len(e.records) = n
        /\ \A i \in 1..n : HoldFollows(e, i)
    BY Typed DEF History
  <1>0. /\ event.executed /\ event.stage = n /\ event.state = x
        /\ event.start = e.clocks[n + 1] /\ event.width = clock - e.clocks[n + 1]
        /\ e.path[n + 1] \in event.seen /\ Robust(event.seen)
        /\ n = 0 => event.seen = e.first
        /\ n > 0 => event.seen \subseteq e.records[n].endpoint
    BY <1>1 DEF MovesOn
  <1>. HIDE DEF n
  <1>2. /\ f.records \in Seq(TerminalHold) /\ Len(f.records) = n + 1
        /\ \A i \in 1..n : f.records[i] = e.records[i]
        /\ f.records[n + 1] = event
    BY <1>1 DEF OneHoldMore, Longer
  <1>3. /\ f.path \in Seq(States) /\ Len(f.path) = n + 2
        /\ \A i \in 1..(n + 1) : f.path[i] = e.path[i]
        /\ f.path[n + 2] = x
    BY <1>1 DEF OneHoldMore, Longer
  <1>4. /\ f.clocks \in Seq(Int) /\ Len(f.clocks) = n + 2
        /\ \A i \in 1..(n + 1) : f.clocks[i] = e.clocks[i]
        /\ f.clocks[n + 2] = clock
    BY <1>1 DEF OneHoldMore, Longer
  <1>5. Moved(f) = n + 1 /\ n = Moved(e)
    BY <1>1, <1>4 DEF Moved, n
  <1>6. ASSUME NEW i \in 1..n PROVE HoldFollows(f, i)
    <2>1. i \in 1..n /\ i \in 1..(n + 1) /\ i + 1 \in 1..(n + 1)
      BY <1>1
    <2>2. /\ f.records[i] = e.records[i]
          /\ f.clocks[i] = e.clocks[i] /\ f.clocks[i + 1] = e.clocks[i + 1]
          /\ f.path[i] = e.path[i] /\ f.path[i + 1] = e.path[i + 1]
      BY <1>2, <1>3, <1>4, <2>1, Zenon
    <2>3. HoldFollows(e, i)
      BY <1>1
    <2>4. i > 1 => f.records[i - 1] = e.records[i - 1]
      <3>1. i > 1 => i - 1 \in 1..n
        BY <1>1
      <3>. QED
        BY <1>2, <3>1, Zenon
    <2>5. e.path[i + 1] \in e.records[i].endpoint
      <3>1. CASE i < n
        BY <1>5, <2>3, <3>1 DEF HoldFollows
      <3>2. CASE i = n
        BY <1>0, <1>1, <3>2
      <3>. QED
        BY <1>1, <3>1, <3>2
    <2>. QED
      BY <1>5, <2>2, <2>3, <2>4, <2>5 DEF OneHoldMore, Continued, HoldFollows
  <1>7. HoldFollows(f, n + 1)
    <2>1. n + 1 \in 1..(n + 1) /\ (n + 1) + 1 = n + 2 /\ (n + 1) - 1 = n
      BY <1>1
    <2>2. /\ f.records[n + 1] = event
          /\ f.clocks[n + 1] = e.clocks[n + 1] /\ f.clocks[n + 2] = clock
          /\ f.path[n + 1] = e.path[n + 1] /\ f.path[n + 2] = x
      BY <1>2, <1>3, <1>4, <2>1, Zenon
    <2>3. n > 0 => event.seen \subseteq f.records[n].endpoint
      <3>1. n > 0 => n \in 1..n
        BY <1>1
      <3>. QED
        BY <1>0, <1>2, <3>1, Zenon
    <2>4. /\ event.stage = n /\ event.start = e.clocks[n + 1]
          /\ event.width = clock - e.clocks[n + 1] /\ e.path[n + 1] \in event.seen
      BY <1>0
    <2>5. /\ n + 1 = 1 => event.seen = f.first
          /\ n + 1 > 1 => n > 0
          /\ ~(n + 1 < Moved(f))
      BY <1>0, <1>1, <1>5 DEF OneHoldMore, Continued
    <2>. QED
      BY <1>0, <2>1, <2>2, <2>3, <2>4, <2>5 DEF HoldFollows
  <1>8. \A i \in 1..(n + 1) : HoldFollows(f, i)
    <2>1. \A i \in 1..(n + 1) : i \in 1..n \/ i = n + 1
      BY <1>1
    <2>. QED
      BY <1>6, <1>7, <2>1, Zenon
  <1>9. History(f)
    BY <1>1, <1>2, <1>3, <1>4, <1>5, <1>8 DEF OneHoldMore, Continued, History
  <1>. QED
    BY <1>1, <1>2, <1>3, <1>4, <1>5, <1>9

-----------------------------------------------------------------------------
(* The run in progress                                                     *)

LEMMA Running ==
  ASSUME Inv, exe # Nothing
  PROVE  History(exe) /\ RunTypes(exe) /\ RunStands(exe)
  BY DEF Inv, RunInv

\* What a run does leaves the files and the completer alone.
LEMMA RunInvSuffices ==
  ASSUME Inv, UNCHANGED <<result, files, completer>>, RunInv'
  PROVE  Inv'
  <1>1. UNCHANGED <<result, approach, guarded, runs, stage, loaded, handoff, bound, ledger>>
    BY DEF files, completer
  <1>2. ResultInv' /\ FilesInv'
    BY <1>1 DEF Inv, ResultInv, FilesInv
  <1>3. CompleterInv'
    BY <1>1 DEF Inv, CompleterInv, Debited, TailHolds, Steps, Verified, SameEntry, HoldsReproduce
  <1>. QED
    BY <1>2, <1>3 DEF Inv

LEMMA EventTyped ==
  ASSUME NEW e, History(e), RunTypes(e), e.q = e.clocks[Len(e.clocks)], NEW executed \in BOOLEAN,
         NEW x \in States \cup {Nothing}, NEW box \in Boxes \cup {Nothing}
  PROVE  /\ Event(e, executed, x, box) \in TerminalHold
         /\ Event(e, executed, x, box).executed = executed
  <1>1. Len(e.records) \in Nat /\ e.q \in Int /\ e.hold \in Int /\ e.seen \in SUBSET States
    <2>1. Len(e.clocks) \in 1..Len(e.clocks)
      BY Typed
    <2>. QED
      BY <2>1, Typed DEF RunTypes
  <1>. QED
    BY <1>1 DEF Event, TerminalHold

\* A run that is refused ends, with its history as it is.
LEMMA RefusedStands ==
  ASSUME NEW e, DOMAIN e = RunFields, History(e), Finishes(e, Refused),
         e.last \in Int, e.seen \in SUBSET States, e.seenAt \in Int,
         e.q = e.clocks[Len(e.clocks)], e.x = e.path[Len(e.path)],
         Len(e.records) <= Moved(e) + 1,
         Len(e.records) = Moved(e) + 1 => ~e.records[Len(e.records)].executed
  PROVE  RunInv'
  <1>1. /\ DOMAIN exe' = RunFields /\ exe'.stage = "done" /\ exe'.status = Refused /\ exe'.hold = 0
        /\ exe'.source = e.source /\ exe'.bandwidth = e.bandwidth /\ exe'.first = e.first
        /\ exe'.path = e.path /\ exe'.clocks = e.clocks /\ exe'.records = e.records
        /\ exe'.q = e.q /\ exe'.x = e.x /\ exe'.last = e.last
        /\ exe'.seen = e.seen /\ exe'.seenAt = e.seenAt
    BY DEF Finishes, RunFields
  <1>2. History(exe') /\ Moved(exe') = Moved(e)
    BY <1>1, SameHistory
  <1>3. RunTypes(exe')
    BY <1>1 DEF RunTypes, RunPoints
  <1>4. RunStands(exe')
    BY <1>1, <1>2 DEF RunStands, Admitted, Completed, Complete, Refused
  <1>. QED
    BY <1>2, <1>3, <1>4 DEF RunInv

\* A run refused between two holds, or before the first, has no record of it.
LEMMA RefusedBetween ==
  ASSUME Inv, exe # Nothing, exe.stage \in {"admit", "propose", "final"}, Finishes(exe, Refused)
  PROVE  RunInv'
  <1>1. History(exe) /\ RunTypes(exe) /\ RunStands(exe)
    BY Running
  <1>2. Moved(exe) \in Nat /\ Len(exe.records) = Moved(exe)
    BY <1>1, Typed DEF RunStands, InHand, Admitted
  <1>3. Len(exe.records) <= Moved(exe) + 1 /\ Len(exe.records) # Moved(exe) + 1
    BY <1>2
  <1>. QED
    BY <1>1, <1>3, RefusedStands DEF RunTypes, RunStands

\* A hold that is refused is the last record, and moved nothing.
LEMMA RefusedHold ==
  ASSUME Inv, exe # Nothing, exe.stage \in {"enclose", "move"}, RefusesHold
  PROVE  RunInv'
  <1>1. History(exe) /\ RunTypes(exe) /\ RunStands(exe)
    BY Running
  <1>2. PICK event : event = Event(exe, FALSE, Nothing, Nothing)
    OBVIOUS
  <1>3. PICK run : run = [exe EXCEPT !.records = Append(@, event)]
    OBVIOUS
  <1>4. event \in TerminalHold /\ event.executed = FALSE
    BY <1>1, <1>2, EventTyped DEF RunStands
  <1>5. Moved(exe) \in Nat /\ Len(exe.records) = Moved(exe) /\ exe.records \in Seq(TerminalHold)
    BY <1>1, Typed DEF RunStands, InHand, Admitted, History
  <1>6. /\ DOMAIN run = RunFields /\ run.records = Append(exe.records, event)
        /\ run.source = exe.source /\ run.bandwidth = exe.bandwidth /\ run.first = exe.first
        /\ run.path = exe.path /\ run.clocks = exe.clocks
        /\ run.q = exe.q /\ run.x = exe.x /\ run.last = exe.last
        /\ run.seen = exe.seen /\ run.seenAt = exe.seenAt
    BY <1>1, <1>3 DEF RunTypes, RunFields
  <1>7. Longer(TerminalHold, run.records, exe.records, event)
    BY <1>4, <1>5, <1>6, Appended, Zenon
  <1>8. /\ History(run) /\ Moved(run) = Moved(exe)
        /\ Len(run.records) = Moved(run) + 1 /\ run.records[Len(run.records)] = event
    <2>1. OneRecordMore(exe, run, event)
      BY <1>6, <1>7 DEF OneRecordMore, Continued
    <2>. QED
      BY <1>1, <1>4, <1>5, <2>1, RecordAdded
  <1>9. Finishes(run, Refused)
    BY <1>2, <1>3 DEF RefusesHold
  <1>10. Len(run.records) <= Moved(run) + 1
    BY <1>5, <1>8
  <1>11. /\ run.last \in Int /\ run.seen \in SUBSET States /\ run.seenAt \in Int
         /\ run.q = run.clocks[Len(run.clocks)] /\ run.x = run.path[Len(run.path)]
    BY <1>1, <1>6 DEF RunTypes, RunStands
  <1>. QED
    BY <1>4, <1>6, <1>8, <1>9, <1>10, <1>11, RefusedStands

\* An action that keeps the history keeps where the run stands.
LEMMA SameRun ==
  ASSUME Inv, exe # Nothing, DOMAIN exe' = RunFields,
         exe'.source = exe.source, exe'.bandwidth = exe.bandwidth, exe'.first = exe.first,
         exe'.path = exe.path, exe'.clocks = exe.clocks, exe'.records = exe.records,
         exe'.q = exe.q, exe'.x = exe.x, exe'.last = exe.last
  PROVE  /\ History(exe') /\ Moved(exe') = Moved(exe)
         /\ exe'.q = exe'.clocks[Len(exe'.clocks)] /\ exe'.x = exe'.path[Len(exe'.path)]
         /\ exe'.last \in Int
  BY Running, SameHistory DEF RunStands, RunTypes

LEMMA StartRun == Inv /\ StartExecution => RunInv'
  <1>. SUFFICES ASSUME Inv, StartExecution PROVE RunInv'
    OBVIOUS
  <1>1. approach \in ApproachEnd /\ approach.end \in Nat
    BY DEF Inv, FilesInv, ApproachEnd
  <1>2. PICK proved \in SUBSET (1..Bandwidths), x \in States, box \in Boxes, width \in 1..Window :
          \E bandwidth \in Certificates(proved) :
            exe' = [stage |-> "admit", source |-> approach, bandwidth |-> bandwidth,
                    q |-> approach.end, last |-> approach.end + width, x |-> x,
                    first |-> box, seen |-> box, seenAt |-> approach.end,
                    path |-> <<x>>, clocks |-> <<approach.end>>, records |-> <<>>,
                    hold |-> 0, flow |-> Nothing, proved |-> Nothing, status |-> "running"]
    BY DEF StartExecution, StartTerminal
  <1>3. PICK bandwidth \in Certificates(proved) :
            exe' = [stage |-> "admit", source |-> approach, bandwidth |-> bandwidth,
                    q |-> approach.end, last |-> approach.end + width, x |-> x,
                    first |-> box, seen |-> box, seenAt |-> approach.end,
                    path |-> <<x>>, clocks |-> <<approach.end>>, records |-> <<>>,
                    hold |-> 0, flow |-> Nothing, proved |-> Nothing, status |-> "running"]
    BY <1>2
  <1>4. bandwidth \in 1..Bandwidths /\ box \in SUBSET States
    BY <1>3 DEF Certificates, Boxes
  <1>5. /\ DOMAIN exe' = RunFields /\ exe'.stage = "admit" /\ exe'.source = approach
        /\ exe'.bandwidth = bandwidth /\ exe'.q = approach.end /\ exe'.last = approach.end + width
        /\ exe'.x = x /\ exe'.first = box /\ exe'.seen = box /\ exe'.seenAt = approach.end
        /\ exe'.path = <<x>> /\ exe'.clocks = <<approach.end>> /\ exe'.records = <<>>
        /\ exe'.hold = 0 /\ exe'.status = "running"
    BY <1>3 DEF RunFields
  <1>6. /\ Len(exe'.clocks) = 1 /\ Len(exe'.path) = 1 /\ Len(exe'.records) = 0 /\ Moved(exe') = 0
        /\ exe'.clocks[1] = approach.end /\ exe'.path[1] = x
    BY <1>5 DEF Moved
  <1>7. /\ exe'.path \in Seq(States) /\ exe'.clocks \in Seq(Int)
        /\ exe'.records \in Seq(TerminalHold)
    BY <1>1, <1>5
  <1>8. History(exe')
    BY <1>1, <1>4, <1>5, <1>6, <1>7 DEF History
  <1>9. RunTypes(exe')
    <2>1. approach.end + width \in Int /\ approach.end \in Int
      BY <1>1
    <2>. QED
      BY <1>4, <1>5, <2>1 DEF RunTypes, RunPoints
  <1>10. RunStands(exe')
    BY <1>5, <1>6 DEF RunStands, Admitted, Completed
  <1>. QED
    BY <1>8, <1>9, <1>10 DEF RunInv

LEMMA AdmitRun == Inv /\ Admit => RunInv'
  <1>. SUFFICES ASSUME Inv, Admit PROVE RunInv'
    OBVIOUS
  <1>1. History(exe) /\ RunTypes(exe) /\ RunStands(exe) /\ exe # Nothing
    BY Running DEF Admit
  <1>2. /\ DOMAIN exe' = RunFields /\ exe'.stage = "propose"
        /\ exe'.source = exe.source /\ exe'.bandwidth = exe.bandwidth /\ exe'.first = exe.first
        /\ exe'.path = exe.path /\ exe'.clocks = exe.clocks /\ exe'.records = exe.records
        /\ exe'.q = exe.q /\ exe'.x = exe.x /\ exe'.last = exe.last /\ exe'.hold = exe.hold
        /\ exe'.seen = exe.seen /\ exe'.seenAt = exe.seenAt /\ exe'.status = exe.status
    BY <1>1 DEF Admit, RunTypes, RunFields
  <1>3. /\ History(exe') /\ Moved(exe') = Moved(exe) /\ exe'.last \in Int
        /\ exe'.q = exe'.clocks[Len(exe'.clocks)] /\ exe'.x = exe'.path[Len(exe'.path)]
    BY <1>1, <1>2, SameRun
  <1>4. /\ Moved(exe) = 0 /\ Len(exe.records) = 0 /\ exe.seen = exe.first /\ exe.seenAt = exe.q
        /\ exe.x \in exe.seen /\ Robust(exe.seen)
    BY <1>1 DEF Admit, RunStands
  <1>5. InHand(exe')
    <2>1. Moved(exe') = 0 /\ Len(exe'.records) = 0
      BY <1>2, <1>3, <1>4
    <2>2. exe'.x \in exe'.seen /\ exe'.seenAt = exe'.q /\ exe'.seen = exe'.first
      BY <1>2, <1>4
    <2>3. Robust(exe'.first)
      BY <1>2, <1>4 DEF Robust
    <2>. QED
      BY <2>1, <2>2, <2>3 DEF InHand
  <1>. QED
    BY <1>1, <1>2, <1>3, <1>5 DEF RunInv, RunTypes, RunPoints, RunStands, Admitted, Completed

\* The rest of a hold, before the fleet moves, keeps the box in hand.
LEMMA StillInHand ==
  ASSUME Inv, exe # Nothing, exe.stage \in Admitted,
         exe'.seen = exe.seen, exe'.seenAt = exe.seenAt, exe'.first = exe.first, exe'.q = exe.q,
         exe'.x = exe.x, exe'.records = exe.records, Moved(exe') = Moved(exe)
  PROVE  InHand(exe')
  BY Running DEF RunStands, InHand

LEMMA HoldIsShort ==
  ASSUME NEW p \in Int, NEW r \in Int
  PROVE  Min({p, r}) \in Int
  <1>1. \E v \in {p, r} : \A w \in {p, r} : v =< w
    <2>1. CASE p =< r
      BY <2>1
    <2>2. CASE r =< p
      BY <2>2
    <2>. QED
      BY <2>1, <2>2
  <1>2. Min({p, r}) \in {p, r}
    BY <1>1 DEF Min
  <1>. QED
    BY <1>2

LEMMA ProposeRun == Inv /\ Propose => RunInv'
  <1>. SUFFICES ASSUME Inv, Propose PROVE RunInv'
    OBVIOUS
  <1>1. /\ History(exe) /\ RunTypes(exe) /\ RunStands(exe) /\ exe # Nothing /\ exe.stage = "propose"
        /\ Robust(exe.seen)
    BY Running DEF Propose
  <1>2. /\ DOMAIN exe' = RunFields /\ exe'.stage = "enclose" /\ exe'.hold = Hold(exe)
        /\ exe'.source = exe.source /\ exe'.bandwidth = exe.bandwidth /\ exe'.first = exe.first
        /\ exe'.path = exe.path /\ exe'.clocks = exe.clocks /\ exe'.records = exe.records
        /\ exe'.q = exe.q /\ exe'.x = exe.x /\ exe'.last = exe.last
        /\ exe'.seen = exe.seen /\ exe'.seenAt = exe.seenAt /\ exe'.status = exe.status
    BY <1>1 DEF Propose, RunTypes, RunFields
  <1>3. /\ History(exe') /\ Moved(exe') = Moved(exe) /\ exe'.last \in Int
        /\ exe'.q = exe'.clocks[Len(exe'.clocks)] /\ exe'.x = exe'.path[Len(exe'.path)]
    BY <1>1, <1>2, SameRun
  <1>4. exe'.hold \in Int
    <2>1. exe.q \in Int /\ exe.last \in Int /\ MaximumHold \in Int
      BY <1>1, Typed, TerminalAssumption DEF RunStands, RunTypes
    <2>2. exe.last - exe.q \in Int
      BY <2>1
    <2>. QED
      BY <1>2, <2>1, <2>2, HoldIsShort DEF Hold
  <1>5. InHand(exe')
    BY <1>1, <1>2, <1>3, StillInHand DEF Admitted
  <1>. QED
    BY <1>1, <1>2, <1>3, <1>4, <1>5
    DEF RunInv, RunTypes, RunPoints, RunStands, Admitted, Completed

\* Substeps of the flow, proved or halved, and the guard over all of them.
LEMMA EnclosedRun ==
  ASSUME Inv, exe # Nothing, exe.stage = "enclose",
         \/ \E flow : exe' = [exe EXCEPT !.flow = flow]
         \/ exe' = [exe EXCEPT !.stage = "move", !.flow = Nothing]
  PROVE  RunInv'
  <1>1. History(exe) /\ RunTypes(exe) /\ RunStands(exe)
    BY Running
  <1>2. /\ DOMAIN exe' = RunFields /\ exe'.stage \in {"enclose", "move"} /\ exe'.hold = exe.hold
        /\ exe'.source = exe.source /\ exe'.bandwidth = exe.bandwidth /\ exe'.first = exe.first
        /\ exe'.path = exe.path /\ exe'.clocks = exe.clocks /\ exe'.records = exe.records
        /\ exe'.q = exe.q /\ exe'.x = exe.x /\ exe'.last = exe.last
        /\ exe'.seen = exe.seen /\ exe'.seenAt = exe.seenAt /\ exe'.status = exe.status
    BY <1>1 DEF RunTypes, RunFields
  <1>3. /\ History(exe') /\ Moved(exe') = Moved(exe) /\ exe'.last \in Int
        /\ exe'.q = exe'.clocks[Len(exe'.clocks)] /\ exe'.x = exe'.path[Len(exe'.path)]
    BY <1>1, <1>2, SameRun
  <1>4. Robust(exe'.seen)
    BY <1>1, <1>2 DEF RunStands
  <1>5. InHand(exe')
    BY <1>1, <1>2, <1>3, StillInHand DEF Admitted
  <1>. QED
    BY <1>1, <1>2, <1>3, <1>4, <1>5
    DEF RunInv, RunTypes, RunPoints, RunStands, Admitted, Completed

\* A hold of the plant: from the box in hand, into the box that was proved for
\* it, or the run ends.
LEMMA MoveRun == Inv /\ Move => RunInv'
  <1>. SUFFICES ASSUME Inv, Move PROVE RunInv'
    OBVIOUS
  <1>1. History(exe) /\ RunTypes(exe) /\ RunStands(exe) /\ exe # Nothing /\ exe.stage = "move"
    BY Running DEF Move
  <1>2. InHand(exe) /\ Robust(exe.seen)
    BY <1>1 DEF RunStands, Admitted
  <1>3. PICK x \in States : \E b \in Boxes :
          LET event == Event(exe, TRUE, x, b)
              moved == [exe EXCEPT !.q = @ + exe.hold, !.x = x, !.path = Append(@, x),
                                   !.clocks = Append(@, exe.q + exe.hold),
                                   !.records = Append(@, event), !.proved = b, !.hold = 0]
          IN  IF x \in b THEN exe' = [moved EXCEPT !.stage = "observe"]
              ELSE Finishes(moved, Refused)
    BY DEF Move
  <1>4. PICK b \in Boxes :
          LET event == Event(exe, TRUE, x, b)
              moved == [exe EXCEPT !.q = @ + exe.hold, !.x = x, !.path = Append(@, x),
                                   !.clocks = Append(@, exe.q + exe.hold),
                                   !.records = Append(@, event), !.proved = b, !.hold = 0]
          IN  IF x \in b THEN exe' = [moved EXCEPT !.stage = "observe"]
              ELSE Finishes(moved, Refused)
    BY <1>3
  <1>5. PICK event : event = Event(exe, TRUE, x, b)
    OBVIOUS
  <1>6. PICK clock : clock = exe.q + exe.hold
    OBVIOUS
  <1>7. PICK run : run = [exe EXCEPT !.q = @ + exe.hold, !.x = x, !.path = Append(@, x),
                                     !.clocks = Append(@, exe.q + exe.hold),
                                     !.records = Append(@, event), !.proved = b, !.hold = 0]
    OBVIOUS
  <1>8. IF x \in b THEN exe' = [run EXCEPT !.stage = "observe"] ELSE Finishes(run, Refused)
    BY <1>4, <1>5, <1>7
  <1>9. /\ event \in TerminalHold /\ event.executed = TRUE
        /\ event.stage = Len(exe.records) /\ event.start = exe.q /\ event.width = exe.hold
        /\ event.seen = exe.seen /\ event.state = x /\ event.endpoint = b
    BY <1>1, <1>5, EventTyped DEF RunStands, Event
  <1>10. /\ exe.path \in Seq(States) /\ exe.clocks \in Seq(Int) /\ exe.records \in Seq(TerminalHold)
         /\ Len(exe.clocks) \in 1..Len(exe.clocks) /\ Len(exe.records) = Moved(exe)
         /\ Moved(exe) \in Nat
    BY <1>1, <1>2, Typed DEF History, InHand
  <1>11. /\ exe.q = exe.clocks[Len(exe.clocks)] /\ exe.x = exe.path[Len(exe.path)]
         /\ exe.q \in Int /\ exe.hold \in Int /\ exe.last \in Int
         /\ exe.seen \in SUBSET States /\ exe.seenAt \in Int /\ DOMAIN exe = RunFields
    BY <1>1, Typed DEF RunStands, RunTypes
  <1>12. clock \in Int /\ clock - exe.q = exe.hold
    BY <1>6, <1>11
  <1>13. /\ DOMAIN run = RunFields
         /\ run.q = clock /\ run.x = x /\ run.path = Append(exe.path, x)
         /\ run.clocks = Append(exe.clocks, clock) /\ run.records = Append(exe.records, event)
         /\ run.proved = b /\ run.hold = 0
         /\ run.source = exe.source /\ run.bandwidth = exe.bandwidth /\ run.first = exe.first
         /\ run.last = exe.last /\ run.seen = exe.seen /\ run.seenAt = exe.seenAt
         /\ run.status = exe.status
    BY <1>6, <1>7, <1>11 DEF RunFields
  <1>14. OneHoldMore(exe, run, event, x, clock)
    <2>1. /\ Longer(TerminalHold, run.records, exe.records, event)
          /\ Longer(States, run.path, exe.path, x) /\ Longer(Int, run.clocks, exe.clocks, clock)
      BY <1>9, <1>10, <1>12, <1>13, Appended, Zenon
    <2>. QED
      BY <1>13, <2>1 DEF OneHoldMore, Continued
  <1>15. MovesOn(exe, event, x, clock)
    <2>1. /\ event.executed /\ event.stage = Moved(exe)
          /\ event.start = exe.clocks[Len(exe.clocks)]
          /\ event.width = clock - exe.clocks[Len(exe.clocks)]
          /\ exe.path[Len(exe.path)] \in event.seen
      BY <1>2, <1>9, <1>10, <1>11, <1>12 DEF InHand
    <2>2. /\ Robust(event.seen)
          /\ Moved(exe) = 0 => event.seen = exe.first
          /\ Moved(exe) > 0 => event.seen \subseteq exe.records[Moved(exe)].endpoint
      BY <1>2, <1>9 DEF InHand
    <2>. QED
      BY <1>9, <2>1, <2>2 DEF MovesOn
  <1>16. /\ History(run) /\ Moved(run) = Moved(exe) + 1 /\ Len(run.records) = Moved(run)
         /\ run.records[Moved(run)] = event
         /\ run.clocks[Len(run.clocks)] = clock /\ run.path[Len(run.path)] = x
    BY <1>1, <1>9, <1>10, <1>12, <1>14, <1>15, HoldAdded
  <1>17. CASE x \in b
    <2>1. /\ DOMAIN exe' = RunFields /\ exe'.stage = "observe" /\ exe'.status = exe.status
          /\ exe'.source = run.source /\ exe'.bandwidth = run.bandwidth /\ exe'.first = exe.first
          /\ exe'.path = run.path /\ exe'.clocks = run.clocks /\ exe'.records = run.records
          /\ exe'.q = clock /\ exe'.x = x /\ exe'.last = exe.last /\ exe'.proved = b
          /\ exe'.hold = 0 /\ exe'.seen = exe.seen /\ exe'.seenAt = exe.seenAt
      BY <1>8, <1>13, <1>17 DEF RunFields
    <2>2. History(exe') /\ Moved(exe') = Moved(run)
      BY <1>13, <1>16, <2>1, SameHistory
    <2>3. RunTypes(exe')
      BY <1>1, <1>11, <2>1 DEF RunTypes, RunPoints
    <2>4. /\ exe'.q = exe'.clocks[Len(exe'.clocks)] /\ exe'.x = exe'.path[Len(exe'.path)]
          /\ Len(exe'.records) = Moved(exe') /\ Moved(exe') > 0
          /\ exe'.records[Moved(exe')] = event
      BY <1>10, <1>16, <2>1, <2>2
    <2>5. Robust(exe'.first)
      BY <1>2, <2>1 DEF InHand
    <2>6. RunStands(exe')
      BY <1>9, <1>17, <2>1, <2>4, <2>5 DEF RunStands, Admitted, Completed
    <2>. QED
      BY <2>2, <2>3, <2>6 DEF RunInv
  <1>18. CASE x \notin b
    <2>1. Finishes(run, Refused)
      BY <1>8, <1>18
    <2>2. Len(run.records) <= Moved(run) + 1 /\ Len(run.records) # Moved(run) + 1
      BY <1>10, <1>16
    <2>3. /\ run.q = run.clocks[Len(run.clocks)] /\ run.x = run.path[Len(run.path)]
          /\ run.last \in Int /\ run.seen \in SUBSET States /\ run.seenAt \in Int
      BY <1>11, <1>13, <1>16
    <2>. QED
      BY <1>13, <1>16, <2>1, <2>2, <2>3, RefusedStands
  <1>. QED
    BY <1>17, <1>18

\* The source raises after a hold that moved the plant.
LEMMA UnobservedRun == Inv /\ RefuseObservation => RunInv'
  <1>. SUFFICES ASSUME Inv, RefuseObservation PROVE RunInv'
    OBVIOUS
  <1>1. History(exe) /\ RunTypes(exe) /\ RunStands(exe) /\ exe # Nothing /\ exe.stage = "observe"
    BY Running DEF RefuseObservation
  <1>2. PICK run : run = [exe EXCEPT !.proved = Nothing]
    OBVIOUS
  <1>3. Finishes(run, Refused)
    BY <1>2 DEF RefuseObservation
  <1>4. /\ DOMAIN run = RunFields
        /\ run.source = exe.source /\ run.bandwidth = exe.bandwidth /\ run.first = exe.first
        /\ run.path = exe.path /\ run.clocks = exe.clocks /\ run.records = exe.records
        /\ run.q = exe.q /\ run.x = exe.x /\ run.last = exe.last
        /\ run.seen = exe.seen /\ run.seenAt = exe.seenAt
    BY <1>1, <1>2 DEF RunTypes, RunFields
  <1>5. History(run) /\ Moved(run) = Moved(exe)
    BY <1>1, <1>4, SameHistory
  <1>6. Len(run.records) <= Moved(run) + 1 /\ Len(run.records) # Moved(run) + 1
    BY <1>1, <1>4, <1>5, Typed DEF RunStands
  <1>7. /\ run.q = run.clocks[Len(run.clocks)] /\ run.x = run.path[Len(run.path)]
        /\ run.last \in Int /\ run.seen \in SUBSET States /\ run.seenAt \in Int
    BY <1>1, <1>4 DEF RunTypes, RunStands
  <1>. QED
    BY <1>3, <1>4, <1>5, <1>6, <1>7, RefusedStands

\* The next observation refines what the hold proved.
LEMMA ObserveRun == Inv /\ Observe => RunInv'
  <1>. SUFFICES ASSUME Inv, Observe PROVE RunInv'
    OBVIOUS
  <1>1. History(exe) /\ RunTypes(exe) /\ RunStands(exe) /\ exe # Nothing /\ exe.stage = "observe"
    BY Running DEF Observe
  <1>2. PICK b \in Boxes :
          /\ exe.x \in b
          /\ exe' = [exe EXCEPT !.seen = Refines(b, exe.proved), !.seenAt = exe.q, !.proved = Nothing,
                                !.stage = IF exe.q < exe.last THEN "propose" ELSE "final"]
    BY DEF Observe
  <1>3. /\ DOMAIN exe' = RunFields /\ exe'.stage \in {"propose", "final"}
        /\ exe'.source = exe.source /\ exe'.bandwidth = exe.bandwidth /\ exe'.first = exe.first
        /\ exe'.path = exe.path /\ exe'.clocks = exe.clocks /\ exe'.records = exe.records
        /\ exe'.q = exe.q /\ exe'.x = exe.x /\ exe'.last = exe.last /\ exe'.hold = exe.hold
        /\ exe'.seen = b \cap exe.proved /\ exe'.seenAt = exe.q /\ exe'.status = exe.status
    BY <1>1, <1>2 DEF RunTypes, RunFields, Refines
  <1>4. /\ History(exe') /\ Moved(exe') = Moved(exe) /\ exe'.last \in Int
        /\ exe'.q = exe'.clocks[Len(exe'.clocks)] /\ exe'.x = exe'.path[Len(exe'.path)]
    BY <1>1, <1>3, SameRun
  <1>5. /\ Len(exe.records) = Moved(exe) /\ Moved(exe) > 0 /\ Robust(exe.first)
        /\ exe.proved = exe.records[Moved(exe)].endpoint /\ exe.x \in exe.proved
    BY <1>1 DEF RunStands
  <1>6. exe'.seen \in SUBSET States /\ exe.q \in Int
    BY <1>1, <1>3, Typed DEF Boxes, RunStands
  <1>7. InHand(exe')
    <2>1. Moved(exe) \in Nat
      BY <1>1, Typed
    <2>2. exe'.x \in exe'.seen /\ exe'.seenAt = exe'.q /\ Len(exe'.records) = Moved(exe')
      BY <1>2, <1>3, <1>4, <1>5
    <2>3. Moved(exe') # 0 /\ exe'.seen \subseteq exe'.records[Moved(exe')].endpoint
      BY <1>3, <1>4, <1>5, <2>1
    <2>4. Robust(exe'.first)
      BY <1>3, <1>5
    <2>. QED
      BY <2>2, <2>3, <2>4 DEF InHand
  <1>8. RunTypes(exe')
    BY <1>1, <1>3, <1>4, <1>6 DEF RunTypes, RunPoints, Admitted
  <1>9. RunStands(exe')
    BY <1>3, <1>4, <1>7 DEF RunStands, Admitted, Completed
  <1>. QED
    BY <1>4, <1>8, <1>9 DEF RunInv

\* The window ends with an observation that is admitted again.
LEMMA FinishRun == Inv /\ FinishWindow => RunInv'
  <1>. SUFFICES ASSUME Inv, FinishWindow PROVE RunInv'
    OBVIOUS
  <1>1. History(exe) /\ RunTypes(exe) /\ RunStands(exe) /\ exe # Nothing /\ exe.stage = "final"
    BY Running DEF FinishWindow
  <1>2. CASE Finishes(exe, Refused)
    BY <1>1, <1>2, RefusedBetween
  <1>3. CASE FinalAdmission(exe.seen) /\ Finishes(exe, Complete)
    <2>1. /\ DOMAIN exe' = RunFields /\ exe'.stage = "done" /\ exe'.status = Complete /\ exe'.hold = 0
          /\ exe'.source = exe.source /\ exe'.bandwidth = exe.bandwidth /\ exe'.first = exe.first
          /\ exe'.path = exe.path /\ exe'.clocks = exe.clocks /\ exe'.records = exe.records
          /\ exe'.q = exe.q /\ exe'.x = exe.x /\ exe'.last = exe.last
          /\ exe'.seen = exe.seen /\ exe'.seenAt = exe.seenAt
      BY <1>1, <1>3 DEF Finishes, RunTypes, RunFields
    <2>2. /\ History(exe') /\ Moved(exe') = Moved(exe) /\ exe'.last \in Int
          /\ exe'.q = exe'.clocks[Len(exe'.clocks)] /\ exe'.x = exe'.path[Len(exe'.path)]
      BY <1>1, <2>1, SameRun
    <2>3. InHand(exe')
      BY <1>1, <2>1, <2>2, StillInHand DEF Admitted
    <2>4. Robust(exe'.seen)
      BY <1>3, <2>1 DEF FinalAdmission
    <2>5. Len(exe'.records) = Moved(exe') /\ Moved(exe') \in Nat
      BY <2>2, <2>3, Typed DEF InHand
    <2>6. Len(exe'.records) <= Moved(exe') + 1 /\ Len(exe'.records) # Moved(exe') + 1
      BY <2>5
    <2>7. RunTypes(exe')
      BY <1>1, <2>1, <2>2 DEF RunTypes, RunPoints
    <2>8. RunStands(exe')
      BY <2>1, <2>2, <2>3, <2>4, <2>6 DEF RunStands, Admitted, Completed
    <2>. QED
      BY <2>2, <2>7, <2>8 DEF RunInv
  <1>. QED
    BY <1>2, <1>3 DEF FinishWindow

-----------------------------------------------------------------------------
(* What a run leaves behind                                                *)

\* The completer and its files do not depend on the result but where it waits
\* for one.
LEMMA ResultInvSuffices ==
  ASSUME Inv, UNCHANGED <<files, completer>>, result' # Nothing \/ result' = result,
         RunInv', ResultInv'
  PROVE  Inv'
  BY DEF Inv, FilesInv, CompleterInv, files, completer, Debited, TailHolds, Steps,
         Verified, SameEntry, HoldsReproduce

LEMMA SaveInv == Inv /\ SaveResult /\ UNCHANGED <<files, completer>> => Inv'
  <1>. SUFFICES ASSUME Inv, SaveResult, UNCHANGED <<files, completer>> PROVE Inv'
    OBVIOUS
  <1>1. /\ History(exe) /\ RunTypes(exe) /\ RunStands(exe) /\ exe # Nothing /\ exe.stage = "done"
        /\ exe' = Nothing
    BY Running DEF SaveResult
  <1>2. RunInv'
    BY <1>1 DEF RunInv
  <1>3. CASE exe.status = Complete
    <2>1. result' = [source |-> exe.source, status |-> exe.status, bandwidth |-> exe.bandwidth,
                     first |-> exe.first, seen |-> exe.seen, seenAt |-> exe.seenAt,
                     path |-> exe.path, clocks |-> exe.clocks, records |-> exe.records]
      BY <1>3 DEF SaveResult
    <2>2. InHand(exe) /\ Robust(exe.seen) /\ exe.q = exe.clocks[Len(exe.clocks)]
          /\ exe.x = exe.path[Len(exe.path)]
      BY <1>1, <1>3 DEF RunStands, Completed
    <2>3. result' \in CompletedRun
      BY <1>1, <1>3, <2>1 DEF CompletedRun, History, RunTypes
    <2>4. /\ result'.source = exe.source /\ result'.bandwidth = exe.bandwidth
          /\ result'.first = exe.first /\ result'.path = exe.path /\ result'.clocks = exe.clocks
          /\ result'.records = exe.records /\ result'.seen = exe.seen /\ result'.seenAt = exe.seenAt
      BY <2>1
    <2>5. History(result') /\ Moved(result') = Moved(exe)
      BY <1>1, <2>4, SameHistory
    <2>6. KeptRun(result')
      BY <2>2, <2>4, <2>5 DEF KeptRun, InHand
    <2>7. result' # Nothing
      BY <2>3, NothingAssumption
    <2>8. ResultInv'
      BY <2>3, <2>6 DEF ResultInv
    <2>. QED
      BY <1>2, <2>7, <2>8, ResultInvSuffices
  <1>4. CASE exe.status = Refused
    <2>1. result' = [status |-> Refused]
      BY <1>4 DEF SaveResult, Complete, Refused
    <2>2. result' \in RefusedRun
      BY <2>1 DEF RefusedRun
    <2>3. result' \notin CompletedRun
      <3>1. result'.status = Refused
        BY <2>1
      <3>2. \A r \in CompletedRun : r.status = Complete
        BY DEF CompletedRun
      <3>. QED
        BY <3>1, <3>2 DEF Complete, Refused
    <2>4. result' # Nothing
      BY <2>2, NothingAssumption
    <2>5. ResultInv'
      BY <2>2, <2>3 DEF ResultInv
    <2>. QED
      BY <1>2, <2>4, <2>5, ResultInvSuffices
  <1>. QED
    BY <1>1, <1>3, <1>4 DEF RunStands

\* A result that says completed is one.
LEMMA CompletedResult ==
  ASSUME Inv, result # Nothing, result.status = Complete
  PROVE  result \in CompletedRun /\ KeptRun(result)
  <1>1. \A r \in RefusedRun : r.status = Refused
    BY DEF RefusedRun
  <1>. QED
    BY <1>1 DEF Inv, ResultInv, Complete, Refused

\* The first hold of a completed run is a completed run of one hold.
LEMMA RerunInv == Inv /\ RerunShorter /\ UNCHANGED <<files, completer>> => Inv'
  <1>. SUFFICES ASSUME Inv, RerunShorter, UNCHANGED <<files, completer>> PROVE Inv'
    OBVIOUS
  <1>1. result \in CompletedRun /\ KeptRun(result) /\ Len(result.records) > 1 /\ exe = Nothing
    BY CompletedResult DEF RerunShorter
  <1>2. /\ History(result) /\ Moved(result) \in Nat /\ Moved(result) > 1
        /\ Len(result.records) = Moved(result)
        /\ Len(result.clocks) = Moved(result) + 1 /\ Len(result.path) = Moved(result) + 1
    BY <1>1, Typed DEF KeptRun
  <1>3. HoldFollows(result, 1) /\ HoldFollows(result, 2)
    BY <1>2 DEF History
  <1>4. /\ result' = [result EXCEPT !.seen = result.records[2].seen, !.seenAt = result.clocks[2],
                                    !.path = SubSeq(@, 1, 2), !.clocks = SubSeq(@, 1, 2),
                                    !.records = SubSeq(@, 1, 1)]
        /\ exe' = Nothing
    BY <1>1 DEF RerunShorter
  <1>5. /\ \A i \in 1..2 : result.path[i] \in States
        /\ \A i \in 1..2 : result.clocks[i] \in Int
        /\ \A i \in 1..2 : result.records[i] \in TerminalHold
    BY <1>2, Typed
  <1>6. /\ SubSeq(result.path, 1, 2) \in Seq(States) /\ Len(SubSeq(result.path, 1, 2)) = 2
        /\ SubSeq(result.path, 1, 2)[1] = result.path[1]
        /\ SubSeq(result.path, 1, 2)[2] = result.path[2]
    BY <1>5, SubSeqProperties
  <1>7. /\ SubSeq(result.clocks, 1, 2) \in Seq(Int) /\ Len(SubSeq(result.clocks, 1, 2)) = 2
        /\ SubSeq(result.clocks, 1, 2)[1] = result.clocks[1]
        /\ SubSeq(result.clocks, 1, 2)[2] = result.clocks[2]
    BY <1>5, SubSeqProperties
  <1>8. /\ SubSeq(result.records, 1, 1) \in Seq(TerminalHold)
        /\ Len(SubSeq(result.records, 1, 1)) = 1
        /\ SubSeq(result.records, 1, 1)[1] = result.records[1]
    BY <1>5, SubSeqProperties
  <1>9. /\ DOMAIN result = {"source", "status", "bandwidth", "first", "seen", "seenAt", "path",
                            "clocks", "records"}
        /\ result.source \in ApproachEnd /\ result.status = Complete
        /\ result.bandwidth \in 1..Bandwidths /\ result.first \in Boxes
    BY <1>1 DEF CompletedRun
  <1>10. /\ result'.source = result.source /\ result'.status = result.status
         /\ result'.bandwidth = result.bandwidth /\ result'.first = result.first
         /\ result'.seen = result.records[2].seen /\ result'.seenAt = result.clocks[2]
         /\ result'.path = SubSeq(result.path, 1, 2)
         /\ result'.clocks = SubSeq(result.clocks, 1, 2)
         /\ result'.records = SubSeq(result.records, 1, 1)
    BY <1>4, <1>9
  <1>11. result.records[2].seen \in SUBSET States /\ result.clocks[2] \in Int
    BY <1>5 DEF TerminalHold
  <1>12. result' \in CompletedRun
    BY <1>1, <1>4, <1>6, <1>7, <1>8, <1>11 DEF CompletedRun
  <1>13. Moved(result') = 1
    BY <1>7, <1>10 DEF Moved
  <1>14. HoldFollows(result', 1)
    BY <1>3, <1>6, <1>7, <1>8, <1>10, <1>13 DEF HoldFollows
  <1>15. History(result')
    BY <1>6, <1>7, <1>8, <1>9, <1>10, <1>13, <1>14 DEF History
  <1>16. KeptRun(result')
    <2>1. Robust(result'.first)
      BY <1>1, <1>10 DEF KeptRun
    <2>2. /\ result.records[2].seen \subseteq result.records[1].endpoint
          /\ result.path[2] \in result.records[2].seen /\ Robust(result.records[2].seen)
      BY <1>3 DEF HoldFollows
    <2>3. Robust(result'.seen)
      BY <1>10, <2>2
    <2>4. /\ result'.seenAt = result'.clocks[2] /\ result'.path[2] \in result'.seen
          /\ result'.seen \subseteq result'.records[1].endpoint
          /\ Len(result'.clocks) = 2 /\ Len(result'.path) = 2 /\ Len(result'.records) = 1
      BY <1>6, <1>7, <1>8, <1>10, <2>2
    <2>. QED
      BY <1>13, <1>15, <2>1, <2>3, <2>4 DEF KeptRun
  <1>17. RunInv' /\ ResultInv' /\ result' # Nothing
    BY <1>4, <1>12, <1>16, NothingAssumption DEF RunInv, ResultInv
  <1>. QED
    BY <1>17, ResultInvSuffices

\* Every step of the terminal stage.
LEMMA ExecuteInv == Inv /\ Execute => Inv'
  <1>. SUFFICES ASSUME Inv, TerminalNext, UNCHANGED <<files, completer>> PROVE Inv'
    BY DEF Execute
  <1>1. CASE RefuseInitial \/ RefuseProposal
    BY <1>1, RefusedBetween, RunInvSuffices DEF RefuseInitial, RefuseProposal, Unrecorded
  <1>2. CASE Admit
    BY <1>2, AdmitRun, RunInvSuffices DEF Admit, Unrecorded
  <1>3. CASE Propose
    BY <1>3, ProposeRun, RunInvSuffices DEF Propose, Unrecorded
  <1>4. CASE HalveSubstep \/ ProveSubstep
    <2>1. exe # Nothing /\ exe.stage = "enclose" /\ \E flow : exe' = [exe EXCEPT !.flow = flow]
      BY <1>4 DEF HalveSubstep, ProveSubstep
    <2>2. RunInv'
      BY <2>1, EnclosedRun
    <2>. QED
      BY <1>4, <2>2, RunInvSuffices DEF HalveSubstep, ProveSubstep, Unrecorded
  <1>5. CASE RefuseFlow \/ RefusePropagation
    <2>1. exe # Nothing /\ exe.stage \in {"enclose", "move"} /\ RefusesHold
      BY <1>5 DEF RefuseFlow, RefusePropagation
    <2>2. RunInv' /\ result' = result
      BY <2>1, RefusedHold DEF RefusesHold, Recorded
    <2>. QED
      BY <2>2, RunInvSuffices
  <1>6. CASE GuardFlow
    <2>1. exe # Nothing /\ exe.stage = "enclose"
      BY <1>6 DEF GuardFlow
    <2>2. CASE RefusesHold
      BY <2>1, <2>2, RefusedHold, RunInvSuffices DEF RefusesHold, Recorded
    <2>3. CASE exe' = [exe EXCEPT !.stage = "move", !.flow = Nothing] /\ Unrecorded
      BY <2>1, <2>3, EnclosedRun, RunInvSuffices DEF Unrecorded
    <2>. QED
      BY <1>6, <2>2, <2>3 DEF GuardFlow
  <1>7. CASE Move
    BY <1>7, MoveRun, RunInvSuffices DEF Move, Recorded
  <1>8. CASE RefuseObservation
    BY <1>8, UnobservedRun, RunInvSuffices DEF RefuseObservation, Unrecorded
  <1>9. CASE Observe
    BY <1>9, ObserveRun, RunInvSuffices DEF Observe, Unrecorded
  <1>10. CASE FinishWindow
    BY <1>10, FinishRun, RunInvSuffices DEF FinishWindow, Unrecorded
  <1>11. CASE SaveResult
    BY <1>11, SaveInv
  <1>12. CASE RerunShorter
    BY <1>12, RerunInv
  <1>13. CASE LoseTerminal
    BY <1>13, RunInvSuffices DEF LoseTerminal, RunInv
  <1>. QED
    BY <1>1, <1>2, <1>3, <1>4, <1>5, <1>6, <1>7, <1>8, <1>9, <1>10, <1>11, <1>12, <1>13
    DEF TerminalNext

-----------------------------------------------------------------------------
(* The producers and the completer                                         *)

LEMMA InitInv == Init => Inv
  <1>. SUFFICES ASSUME Init PROVE Inv
    OBVIOUS
  <1>1. RunInv /\ ResultInv
    BY DEF Init, RunInv, ResultInv
  <1>2. PICK box \in Entries : guarded = [holds |-> 1, box |-> box]
    BY DEF Init
  <1>3. PICK x \in box, done \in BOOLEAN :
          approach = [end |-> 1, state |-> x, box |-> box, complete |-> done]
    BY <1>2 DEF Init
  <1>4. box \in Boxes /\ x \in States
    BY HandoffAssumption DEF Boxes
  <1>5. FilesInv
    BY <1>2, <1>3, <1>4 DEF FilesInv, ApproachEnd
  <1>6. CompleterInv
    BY DEF Init, Away, CompleterInv, Verifying, Budgeting
  <1>. QED
    BY <1>1, <1>5, <1>6 DEF Inv

LEMMA ProducersInv == Inv /\ (WriteGuardJournal \/ SaveApproach \/ StartExecution) => Inv'
  <1>. SUFFICES ASSUME Inv, WriteGuardJournal \/ SaveApproach \/ StartExecution PROVE Inv'
    OBVIOUS
  <1>1. UNCHANGED <<completer, result>>
    BY DEF WriteGuardJournal, SaveApproach, StartExecution, StartTerminal, terminal
  <1>2. ResultInv' /\ CompleterInv'
    BY <1>1 DEF Inv, ResultInv, CompleterInv, completer, Debited, TailHolds, Steps,
                Verified, SameEntry, HoldsReproduce
  <1>3. CASE WriteGuardJournal
    <2>1. PICK box \in Entries : guarded' = [holds |-> guarded.holds + 1, box |-> box]
      BY <1>3 DEF WriteGuardJournal
    <2>2. guarded.holds + 1 \in Nat \ {0}
      BY DEF Inv, FilesInv
    <2>3. approach' = approach /\ exe' = exe
      BY <1>3 DEF WriteGuardJournal, terminal
    <2>. QED
      BY <1>2, <2>1, <2>2, <2>3 DEF Inv, FilesInv, RunInv
  <1>4. CASE SaveApproach
    <2>1. /\ guarded.holds \in Nat \ {0} /\ guarded.box \in Boxes
          /\ \A x \in guarded.box : x \in States
      BY HandoffAssumption DEF Inv, FilesInv, Boxes
    <2>2. PICK x \in guarded.box, done \in BOOLEAN :
            approach' = [end |-> guarded.holds, state |-> x, box |-> guarded.box, complete |-> done]
      BY <1>4 DEF SaveApproach
    <2>3. approach' \in ApproachEnd /\ approach'.end > 0
      BY <2>1, <2>2 DEF ApproachEnd
    <2>4. guarded' = guarded /\ exe' = exe
      BY <1>4 DEF SaveApproach, terminal
    <2>. QED
      BY <1>2, <2>3, <2>4 DEF Inv, FilesInv, RunInv
  <1>5. CASE StartExecution
    <2>1. approach' = approach /\ guarded' = guarded
      BY <1>5 DEF StartExecution
    <2>. QED
      BY <1>2, <1>5, <2>1, StartRun DEF Inv, FilesInv
  <1>. QED
    BY <1>3, <1>4, <1>5

LEMMA LeaveInv ==
  ASSUME Inv, Leave
  PROVE  CompleterInv'
  BY DEF Leave, CompleterInv, Verifying, Budgeting

\* What is verified is a completed run, of the approach that was read with it.
LEMMA VerifyInv == Inv /\ (LoadApproach \/ ReadHandoff) => CompleterInv'
  <1>. SUFFICES ASSUME Inv, LoadApproach \/ ReadHandoff PROVE CompleterInv'
    OBVIOUS
  <1>1. UNCHANGED <<approach, result>> /\ approach \in ApproachEnd /\ approach.end > 0
    BY DEF LoadApproach, ReadHandoff, Kept, terminal, files, Inv, FilesInv
  <1>2. CASE LoadApproach
    BY <1>1, <1>2 DEF LoadApproach, CompleterInv, Verifying, Budgeting
  <1>3. CASE ReadHandoff
    <2>1. stage = "read" /\ result # Nothing /\ loaded \in ApproachEnd /\ loaded.end > 0
      BY <1>3 DEF ReadHandoff, Inv, CompleterInv
    <2>2. CASE Verified(approach, result)
      <3>1. result \in CompletedRun
        BY <2>1, <2>2, CompletedResult DEF Verified
      <3>2. /\ stage' = "journal" /\ loaded' = loaded
            /\ handoff'.approach = approach /\ handoff'.exe = result
        BY <1>3, <2>2 DEF ReadHandoff
      <3>3. handoff'.exe \in CompletedRun /\ Verified(handoff'.approach, handoff'.exe)
        BY <2>2, <3>1, <3>2
      <3>. QED
        BY <2>1, <3>2, <3>3 DEF CompleterInv, Verifying, Budgeting
    <2>3. CASE ~Verified(approach, result)
      BY <1>3, <2>3, LeaveInv DEF ReadHandoff
    <2>. QED
      BY <2>2, <2>3
  <1>. QED
    BY <1>2, <1>3

\* What the completer holds from its verification on.
LEMMA VerifiedStays ==
  ASSUME Inv, stage \in Verifying, UNCHANGED <<loaded, handoff>>
  PROVE  /\ loaded' \in ApproachEnd /\ loaded'.end > 0
         /\ handoff'.exe \in CompletedRun /\ Verified(handoff'.approach, handoff'.exe)
         /\ stage \in Budgeting => handoff'.approach = loaded'
  <1>1. stage # "idle"
    BY DEF Verifying
  <1>. QED
    BY <1>1 DEF Inv, CompleterInv

LEMMA DebitInv ==
  Inv /\ (CheckJournal \/ BindAccountant \/ BeginCompletion \/ BudgetFromHistory
          \/ DebitApproach \/ ReplayJournal \/ DebitTail \/ AuthenticateAgain) => CompleterInv'
  <1>. SUFFICES ASSUME Inv,
                       CheckJournal \/ BindAccountant \/ BeginCompletion \/ BudgetFromHistory
                         \/ DebitApproach \/ ReplayJournal \/ DebitTail \/ AuthenticateAgain,
                       ~Leave
                PROVE  CompleterInv'
    BY LeaveInv
  <1>1. stage \in Verifying /\ UNCHANGED <<loaded, handoff>>
    BY DEF CheckJournal, BindAccountant, BeginCompletion, BudgetFromHistory, DebitApproach,
           ReplayJournal, DebitTail, AuthenticateAgain, Verifying
  <1>2. /\ loaded' \in ApproachEnd /\ loaded'.end > 0
        /\ handoff'.exe \in CompletedRun /\ Verified(handoff'.approach, handoff'.exe)
        /\ stage \in Budgeting => handoff'.approach = loaded'
    BY <1>1, VerifiedStays
  <1>3. CASE CheckJournal \/ BindAccountant
    <2>1. stage' = "verified"
      BY <1>3 DEF CheckJournal, BindAccountant
    <2>. QED
      BY <1>2, <2>1 DEF CompleterInv, Verifying, Budgeting
  <1>4. CASE BeginCompletion
    <2>1. stage' = "budget" /\ handoff'.approach = loaded'
      BY <1>1, <1>4 DEF BeginCompletion
    <2>. QED
      BY <1>2, <2>1 DEF CompleterInv, Verifying, Budgeting
  <1>5. CASE BudgetFromHistory
    <2>1. /\ stage = "budget" /\ stage' = "done" /\ bound' = Nothing
          /\ ledger' = <<<<0, Last(handoff'.exe.clocks)>>>>
      BY <1>1, <1>5 DEF BudgetFromHistory
    <2>. QED
      BY <1>2, <2>1 DEF CompleterInv, Verifying, Budgeting
  <1>6. CASE DebitApproach
    <2>1. stage = "budget" /\ stage' = "replay" /\ bound' # Nothing
      BY <1>6 DEF DebitApproach
    <2>. QED
      BY <1>2, <2>1 DEF CompleterInv, Verifying, Budgeting
  <1>7. CASE ReplayJournal
    <2>1. stage = "replay" /\ stage' = "tail" /\ bound' = bound /\ ledger' = Steps(0, loaded'.end)
      BY <1>1, <1>7 DEF ReplayJournal
    <2>2. bound' # Nothing
      BY <2>1 DEF Inv, CompleterInv
    <2>. QED
      BY <1>2, <2>1, <2>2 DEF CompleterInv, Verifying, Budgeting
  <1>8. CASE DebitTail
    <2>1. /\ stage = "tail" /\ stage' = "again" /\ bound' = bound
          /\ ledger' = ledger \o TailHolds(handoff.exe)
      BY <1>8 DEF DebitTail, SameTail
    <2>2. bound' # Nothing /\ ledger = Steps(0, loaded.end)
      BY <2>1 DEF Inv, CompleterInv
    <2>3. ledger' = Debited'
      BY <1>1, <2>1, <2>2 DEF Debited
    <2>. QED
      BY <1>2, <2>1, <2>2, <2>3 DEF CompleterInv, Verifying, Budgeting
  <1>9. CASE AuthenticateAgain
    <2>1. stage = "again" /\ stage' = "done" /\ UNCHANGED <<bound, ledger, loaded, handoff>>
      BY <1>9 DEF AuthenticateAgain
    <2>2. bound' # Nothing /\ ledger = Debited
      BY <2>1 DEF Inv, CompleterInv
    <2>3. ledger' = Debited'
      BY <2>1, <2>2 DEF Debited
    <2>. QED
      BY <1>2, <2>1, <2>2, <2>3 DEF CompleterInv, Verifying, Budgeting
  <1>. QED
    BY <1>3, <1>4, <1>5, <1>6, <1>7, <1>8, <1>9

LEMMA CompleteStepInv == Inv /\ CompleteStep => Inv'
  <1>. SUFFICES ASSUME Inv, CompleteStep PROVE Inv'
    OBVIOUS
  <1>1. CompleterInv'
    BY VerifyInv, DebitInv, LeaveInv DEF CompleteStep, EndCompletion
  <1>2. UNCHANGED <<terminal, files>>
    BY DEF CompleteStep, LoadApproach, ReadHandoff, CheckJournal, BindAccountant, BeginCompletion,
           BudgetFromHistory, DebitApproach, ReplayJournal, DebitTail, AuthenticateAgain,
           EndCompletion, Kept
  <1>3. RunInv' /\ ResultInv' /\ FilesInv'
    BY <1>2 DEF Inv, RunInv, ResultInv, FilesInv, terminal, files
  <1>. QED
    BY <1>1, <1>3 DEF Inv

LEMMA NextInv == Inv /\ [Next]_vars => Inv'
  <1>. SUFFICES ASSUME Inv, [Next]_vars PROVE Inv'
    OBVIOUS
  <1>1. CASE UNCHANGED vars
    <2>1. UNCHANGED <<result, files, completer>> /\ RunInv'
      BY <1>1 DEF vars, terminal, Inv, RunInv
    <2>. QED
      BY <2>1, RunInvSuffices
  <1>. QED
    BY <1>1, ProducersInv, ExecuteInv, CompleteStepInv DEF Next

-----------------------------------------------------------------------------
(* What the invariant says                                                 *)

\* The executed records are the first ones, one for each step of the clock.
LEMMA HoldsAreCounted ==
  ASSUME NEW e, History(e), Len(e.records) <= Moved(e) + 1,
         Len(e.records) = Moved(e) + 1 => ~e.records[Len(e.records)].executed
  PROVE  MovesAreProved(e)
  <1> DEFINE n == Moved(e)
             executed == {i \in 1..Len(e.records) : e.records[i].executed}
  <1>1. /\ n \in Nat /\ Len(e.records) \in Nat /\ Len(e.records) >= n
        /\ Len(e.clocks) = n + 1 /\ Len(e.path) = n + 1
        /\ \A i \in 1..n : HoldFollows(e, i)
        /\ \A i \in 1..n : e.clocks[i] \in Int /\ e.clocks[i + 1] \in Int
    <2>1. /\ n \in Nat /\ Len(e.records) \in Nat /\ Len(e.records) >= n
          /\ Len(e.clocks) = n + 1 /\ Len(e.path) = n + 1
          /\ \A i \in 1..n : HoldFollows(e, i)
      BY Typed DEF History
    <2>2. \A i \in 1..n : i \in 1..Len(e.clocks) /\ i + 1 \in 1..Len(e.clocks)
      BY <2>1
    <2>. QED
      BY <2>1, <2>2, Typed
  <1>. HIDE DEF n
  <1>2. Len(e.records) <= n + 1 /\ (Len(e.records) = n + 1 => ~e.records[n + 1].executed)
    BY DEF n
  <1>3. executed = 1..n
    <2>1. \A i \in 1..n : i \in 1..Len(e.records) /\ e.records[i].executed
      BY <1>1 DEF HoldFollows
    <2>2. \A i \in 1..Len(e.records) : i \in 1..n \/ (i = n + 1 /\ Len(e.records) = n + 1)
      BY <1>1, <1>2
    <2>. QED
      BY <1>2, <2>1, <2>2
  <1>. HIDE DEF executed
  <1>4. Cardinality(executed) = n
    <2>1. 1 \in Int /\ n \in Int /\ (IF 1 > n THEN 0 ELSE n - 1 + 1) = n
      BY <1>1
    <2>. QED
      BY <1>3, <2>1, FS_Interval
  <1>5. ASSUME NEW i \in 1..n
        PROVE  /\ e.records[i].executed /\ Robust(e.records[i].seen)
               /\ e.path[i] \in e.records[i].seen
               /\ i > 1 => e.records[i].seen \subseteq e.records[i - 1].endpoint
               /\ i < n => e.records[i].state \in e.records[i].endpoint
               /\ e.records[i].start = e.clocks[i]
               /\ e.records[i].start + e.records[i].width = e.clocks[i + 1]
    <2>1. HoldFollows(e, i) /\ e.clocks[i] \in Int /\ e.clocks[i + 1] \in Int
      BY <1>1
    <2>. QED
      BY <2>1 DEF HoldFollows, n
  <1>. QED
    BY <1>1, <1>2, <1>4, <1>5 DEF MovesAreProved, executed

LEMMA EveryMoveHolds == Inv => EveryMoveIsProved
  <1>. SUFFICES ASSUME Inv, exe # Nothing PROVE MovesAreProved(exe)
    BY DEF EveryMoveIsProved
  <1>1. History(exe) /\ RunTypes(exe) /\ RunStands(exe) /\ Moved(exe) \in Nat
    BY Running, Typed
  <1>2. Len(exe.records) = Moved(exe) \/ exe.stage = "done"
    BY <1>1 DEF RunTypes, RunPoints, RunStands, InHand
  <1>3. /\ Len(exe.records) <= Moved(exe) + 1
        /\ Len(exe.records) = Moved(exe) + 1 => ~exe.records[Len(exe.records)].executed
    BY <1>1, <1>2 DEF RunStands
  <1>. QED
    BY <1>1, <1>3, HoldsAreCounted

\* The handoff accepts what the runner calls completed.
LEMMA CompletedVerifies == Inv => CompletedRunsVerify
  <1>. SUFFICES ASSUME Inv, result # Nothing, result.status = Complete, result.source.complete,
                       SameEntry(result.source, result),
                       Last(result.clocks) = result.clocks[1] + Window
                PROVE  Verified(result.source, result)
    BY DEF CompletedRunsVerify
  <1> DEFINE n == Len(result.clocks)
  <1>1. KeptRun(result)
    BY CompletedResult
  <1>2. /\ History(result) /\ n \in Nat /\ n > 0 /\ Moved(result) = n - 1
        /\ Len(result.records) = n - 1 /\ Len(result.path) = n
        /\ result.clocks[1] \in Int
        /\ \A i \in 1..(n - 1) : HoldFollows(result, i)
    BY <1>1, Typed DEF KeptRun, History
  <1>3. result.clocks[n] = result.clocks[1] + Window
    BY DEF Last
  <1>4. n > 1
    BY <1>2, <1>3, TerminalAssumption
  <1>5. /\ result.seenAt = result.clocks[n] /\ result.path[n] \in result.seen
        /\ result.seen \subseteq result.records[n - 1].endpoint
        /\ Robust(result.first) /\ Robust(result.seen)
    BY <1>1, <1>2, <1>4 DEF KeptRun
  <1>6. HoldsReproduce(result)
    <2>1. ASSUME NEW i \in 1..(n - 1)
          PROVE  /\ result.records[i].seen \subseteq
                      IF i = 1 THEN result.first ELSE result.records[i - 1].endpoint
                 /\ result.path[i + 1] \in result.records[i].endpoint
      <3>1. HoldFollows(result, i)
        BY <1>2
      <3>2. result.path[i + 1] \in result.records[i].endpoint
        <4>1. CASE i < n - 1
          BY <1>2, <3>1, <4>1 DEF HoldFollows
        <4>2. CASE i = n - 1
          <5>1. i + 1 = n /\ result.path[n] \in result.records[n - 1].endpoint
            BY <1>2, <1>5, <4>2
          <5>. QED
            BY <4>2, <5>1
        <4>3. i < n - 1 \/ i = n - 1
          BY <1>2
        <4>. QED
          BY <4>1, <4>2, <4>3
      <3>. QED
        BY <1>2, <3>1, <3>2 DEF HoldFollows
    <2>. QED
      BY <1>2, <2>1 DEF HoldsReproduce, HoldFollows
  <1>. QED
    BY <1>2, <1>3, <1>5, <1>6 DEF Verified

DebitOf(d, a, e) == d = Steps(0, a.end) \o TailHolds(e)

\* The debited holds: first those of the approach, then those of the tail.
LEMMA DebitedHistory ==
  ASSUME NEW a \in ApproachEnd, NEW e \in CompletedRun, a.end > 0, Verified(a, e),
         NEW d, DebitOf(d, a, e)
  PROVE  /\ d[1][1] = 0 /\ Last(d)[2] = Last(e.clocks)
         /\ Len(d) = a.end + Len(e.records)
         /\ \A i \in 1..(Len(d) - 1) : d[i][2] = d[i + 1][1]
  <1> DEFINE m == a.end
             k == Len(e.records)
  <1>1. /\ m \in Nat /\ m > 0 /\ k \in Nat /\ Len(e.clocks) \in Nat
        /\ \A i \in 1..k : e.records[i] \in TerminalHold
        /\ \A i \in 1..Len(e.clocks) : e.clocks[i] \in Int
    BY ElementOfSeq, LenProperties DEF ApproachEnd, CompletedRun
  <1>2. Len(e.clocks) = k + 1 /\ e.clocks[1] = m /\ e.clocks[k + 1] = e.clocks[1] + Window
    BY <1>1 DEF Verified, SameEntry
  <1>3. k > 0
    BY <1>1, <1>2, TerminalAssumption
  <1>4. \A i \in 1..k : /\ e.records[i].start = e.clocks[i]
                        /\ e.records[i].width = e.clocks[i + 1] - e.clocks[i]
    BY DEF Verified, HoldsReproduce
  <1>. HIDE DEF m, k
  <1>5. \A i \in 1..k : e.records[i].start + e.records[i].width = e.clocks[i + 1]
    <2>1. \A i \in 1..k : i \in 1..Len(e.clocks) /\ i + 1 \in 1..Len(e.clocks)
      BY <1>1, <1>2
    <2>2. \A i \in 1..k : e.clocks[i] \in Int /\ e.clocks[i + 1] \in Int
      BY <1>1, <2>1
    <2>. QED
      BY <1>4, <2>2
  <1>6. /\ Steps(0, m) \in Seq(Int \X Int) /\ Len(Steps(0, m)) = m
        /\ \A i \in 1..m : Steps(0, m)[i] = <<i - 1, i>>
    <2>1. \A i \in 1..m : 0 + i - 1 = i - 1 /\ 0 + i = i /\ <<i - 1, i>> \in Int \X Int
      BY <1>1
    <2>2. Steps(0, m) = [i \in 1..m |-> <<i - 1, i>>]
      BY <2>1 DEF Steps
    <2>. QED
      BY <1>1, <2>1, <2>2
  <1>7. /\ TailHolds(e) \in Seq(Int \X Int) /\ Len(TailHolds(e)) = k
        /\ \A i \in 1..k : TailHolds(e)[i] = <<e.clocks[i], e.clocks[i + 1]>>
    <2>1. \A i \in 1..k : e.clocks[i] \in Int /\ e.clocks[i + 1] \in Int
      <3>1. \A i \in 1..k : i \in 1..Len(e.clocks) /\ i + 1 \in 1..Len(e.clocks)
        BY <1>1, <1>2
      <3>. QED
        BY <1>1, <3>1
    <2>2. TailHolds(e) = [i \in 1..k |-> <<e.clocks[i], e.clocks[i + 1]>>]
      BY <1>4, <1>5 DEF TailHolds, k
    <2>. QED
      BY <1>1, <2>1, <2>2
  <1>8. /\ Len(d) = m + k
        /\ \A i \in 1..(m + k) : d[i] = IF i <= m THEN Steps(0, m)[i] ELSE TailHolds(e)[i - m]
    <2>1. /\ Len(Steps(0, m) \o TailHolds(e)) = Len(Steps(0, m)) + Len(TailHolds(e))
          /\ \A i \in 1..(Len(Steps(0, m)) + Len(TailHolds(e))) :
               (Steps(0, m) \o TailHolds(e))[i] =
                 IF i <= Len(Steps(0, m)) THEN Steps(0, m)[i]
                 ELSE TailHolds(e)[i - Len(Steps(0, m))]
      BY <1>6, <1>7, ConcatProperties, Zenon
    <2>2. d = Steps(0, m) \o TailHolds(e)
      BY DEF DebitOf, m
    <2>. QED
      BY <1>6, <1>7, <2>1, <2>2
  <1>9. \A i \in 1..m : d[i] = <<i - 1, i>>
    <2>1. \A i \in 1..m : i \in 1..(m + k) /\ i <= m
      BY <1>1
    <2>. QED
      BY <1>6, <1>8, <2>1
  <1>10. \A j \in 1..k : d[m + j] = <<e.clocks[j], e.clocks[j + 1]>>
    <2>1. \A j \in 1..k : m + j \in 1..(m + k) /\ ~(m + j <= m) /\ (m + j) - m = j
      BY <1>1
    <2>. QED
      BY <1>7, <1>8, <2>1
  <1>11. d[1][1] = 0
    BY <1>1, <1>9
  <1>12. Last(d)[2] = Last(e.clocks)
    <2>1. d[m + k] = <<e.clocks[k], e.clocks[k + 1]>>
      <3>1. k \in 1..k
        BY <1>1, <1>3
      <3>. QED
        BY <1>10, <3>1
    <2>. QED
      BY <1>2, <1>8, <2>1 DEF Last
  <1>13. ASSUME NEW i \in 1..(m + k - 1) PROVE d[i][2] = d[i + 1][1]
    <2>1. CASE i < m
      <3>1. i \in 1..m /\ i + 1 \in 1..m
        BY <1>1, <2>1
      <3>2. d[i] = <<i - 1, i>> /\ d[i + 1] = <<(i + 1) - 1, i + 1>>
        BY <1>9, <3>1
      <3>. QED
        BY <3>1, <3>2
    <2>2. CASE i = m
      <3>1. d[m] = <<m - 1, m>> /\ d[m + 1] = <<e.clocks[1], e.clocks[1 + 1]>>
        BY <1>1, <1>3, <1>9, <1>10
      <3>. QED
        BY <1>2, <2>2, <3>1
    <2>3. CASE i > m
      <3>1. PICK j \in 1..k : i = m + j /\ j + 1 \in 1..k
        <4>1. i - m \in 1..k /\ i = m + (i - m) /\ (i - m) + 1 \in 1..k
          BY <1>1, <2>3
        <4>. QED
          BY <4>1
      <3>2. d[i] = <<e.clocks[j], e.clocks[j + 1]>>
        BY <1>10, <3>1
      <3>3. d[m + (j + 1)] = <<e.clocks[j + 1], e.clocks[(j + 1) + 1]>> /\ i + 1 = m + (j + 1)
        <4>1. i + 1 = m + (j + 1)
          BY <1>1, <3>1
        <4>. QED
          BY <1>10, <3>1, <4>1
      <3>. QED
        BY <3>2, <3>3
    <2>. QED
      BY <1>1, <2>1, <2>2, <2>3
  <1>14. Len(d) = a.end + Len(e.records) /\ \A i \in 1..(Len(d) - 1) : d[i][2] = d[i + 1][1]
    <2>1. Len(d) - 1 = m + k - 1
      BY <1>1, <1>8
    <2>2. \A i \in 1..(Len(d) - 1) : d[i][2] = d[i + 1][1]
      BY <1>13, <2>1
    <2>. QED
      BY <1>8, <2>2 DEF m, k
  <1>. QED
    BY <1>11, <1>12, <1>14

LEMMA BudgetIsWhole == Inv => BudgetCoversBothStages
  <1>. SUFFICES ASSUME Inv, stage = "done"
                PROVE  /\ ledger[1][1] = 0 /\ Last(ledger)[2] = Last(handoff.exe.clocks)
                       /\ \A i \in 1..(Len(ledger) - 1) : ledger[i][2] = ledger[i + 1][1]
                       /\ handoff.approach = loaded /\ handoff.exe.source = loaded
                       /\ bound # Nothing => Len(ledger) = loaded.end + Len(handoff.exe.records)
    BY DEF BudgetCoversBothStages
  <1>1. /\ loaded \in ApproachEnd /\ loaded.end > 0 /\ handoff.exe \in CompletedRun
        /\ Verified(loaded, handoff.exe) /\ handoff.approach = loaded
        /\ ledger = IF bound = Nothing THEN <<<<0, Last(handoff.exe.clocks)>>>> ELSE Debited
    BY DEF Inv, CompleterInv, Verifying, Budgeting
  <1>2. handoff.exe.source = loaded
    BY <1>1 DEF Verified, SameEntry
  <1>3. CASE bound = Nothing
    <2>1. ledger = <<<<0, Last(handoff.exe.clocks)>>>>
      BY <1>1, <1>3
    <2>2. Len(ledger) = 1 /\ ledger[1] = <<0, Last(handoff.exe.clocks)>>
      BY <2>1
    <2>3. Last(ledger)[2] = Last(handoff.exe.clocks)
      BY <2>2 DEF Last
    <2>. QED
      BY <1>1, <1>2, <1>3, <2>2, <2>3
  <1>4. CASE bound # Nothing
    <2>1. DebitOf(ledger, loaded, handoff.exe)
      BY <1>1, <1>4 DEF Debited, DebitOf
    <2>2. /\ ledger[1][1] = 0 /\ Last(ledger)[2] = Last(handoff.exe.clocks)
          /\ Len(ledger) = loaded.end + Len(handoff.exe.records)
          /\ \A i \in 1..(Len(ledger) - 1) : ledger[i][2] = ledger[i + 1][1]
      BY <1>1, <2>1, DebitedHistory
    <2>. QED
      BY <1>1, <1>2, <2>2
  <1>. QED
    BY <1>3, <1>4

-----------------------------------------------------------------------------
(* Rationals                                                               *)

Positive(a) == a[1] \in Nat \ {0} /\ a[2] \in Nat \ {0}
Rational(a) == a[1] \in Int /\ a[2] \in Nat \ {0}

\* a is n / d.
Equals(a, n, d) == Rational(a) /\ a[1] * d = n * a[2]

LEMMA Product == ASSUME NEW a \in Nat \ {0}, NEW b \in Nat \ {0} PROVE a * b \in Nat \ {0}
  OBVIOUS

LEMMA Cancelled == ASSUME NEW a \in Int, NEW b \in Int, NEW c \in Nat \ {0}, a * c = b * c PROVE a = b
  OBVIOUS

LEMMA CancelledOrder ==
  ASSUME NEW a \in Int, NEW b \in Int, NEW c \in Nat \ {0}, a * c <= b * c PROVE a <= b
  OBVIOUS

LEMMA CancelledStrictly ==
  ASSUME NEW a \in Int, NEW b \in Int, NEW c \in Nat \ {0}, a * c < b * c PROVE a < b
  OBVIOUS

LEMMA Scaled == ASSUME NEW a \in Int, NEW b \in Int, NEW c \in Nat \ {0}, a <= b PROVE a * c <= b * c
  OBVIOUS

LEMMA ScaledStrictly ==
  ASSUME NEW a \in Int, NEW b \in Int, NEW c \in Nat \ {0}, a < b PROVE a * c < b * c
  OBVIOUS

LEMMA Divided ==
  ASSUME NEW n \in Int, NEW k \in Nat \ {0}, Divides(k, n)
  PROVE  n \div k \in Int /\ n = k * (n \div k)
  <1>1. n % k = 0 /\ k > 0
    BY DEF Divides
  <1>. QED
    BY <1>1

\* A greatest common divisor of n and d.
Greatest(k, n, d) ==
  /\ k \in 1..d /\ Divides(k, n) /\ Divides(k, d)
  /\ \A j \in (k + 1)..d : ~(Divides(j, n) /\ Divides(j, d))

\* There is one, for the cofactor d - k of the largest common divisor k is least.
LEMMA GreatestExists ==
  ASSUME NEW n \in Int, NEW d \in Nat \ {0}
  PROVE  \E k \in 1..d : Greatest(k, n, d)
  <1>. DEFINE T == {m \in Nat : d - m \in 1..d /\ Divides(d - m, n) /\ Divides(d - m, d)}
  <1>1. d - 1 \in T
    <2>1. n % 1 = 0 /\ d % 1 = 0
      OBVIOUS
    <2>. QED
      BY <2>1 DEF Divides
  <1>2. \E m \in T : \A k \in T : ~(<<k, m>> \in OpToRel(<, Nat))
    <2>1. T # {} /\ T \subseteq Nat
      BY <1>1
    <2>. HIDE DEF T
    <2>. QED
      BY <2>1, WFMin, NatLessThanWellFounded
  <1>3. PICK m \in T : \A k \in T : ~(k < m)
    BY <1>2 DEF OpToRel
  <1>4. m \in Nat /\ d - m \in 1..d /\ Divides(d - m, n) /\ Divides(d - m, d)
    BY <1>3
  <1>5. ASSUME NEW j \in (d - m + 1)..d, Divides(j, n), Divides(j, d) PROVE FALSE
    <2>1. PICK l \in Int : l = d - j
      OBVIOUS
    <2>2. l \in Nat /\ l < m /\ d - l = j /\ j \in 1..d
      BY <1>4, <2>1
    <2>3. l \in T
      BY <1>5, <2>2
    <2>. QED
      BY <1>3, <2>2, <2>3
  <1>6. Greatest(d - m, n, d)
    BY <1>4, <1>5 DEF Greatest
  <1>. QED
    BY <1>4, <1>6

\* Lowest keeps the value.
LEMMA LowestIs ==
  ASSUME NEW n \in Int, NEW d \in Nat \ {0}
  PROVE  Equals(Lowest(n, d), n, d)
  <1>. DEFINE P(k) == /\ Divides(k, n) /\ Divides(k, d)
                      /\ \A j \in (k + 1)..d : ~(Divides(j, n) /\ Divides(j, d))
  <1>1. \E k \in 1..d : P(k)
    BY GreatestExists DEF Greatest
  <1>2. PICK k : k = CHOOSE i \in 1..d : P(i)
    OBVIOUS
  <1>3. k \in 1..d /\ Divides(k, n) /\ Divides(k, d)
    <2>1. k \in 1..d /\ P(k)
      <3>. HIDE DEF P
      <3>. QED
        BY <1>1, <1>2
    <2>. QED
      BY <2>1
  <1>4. Lowest(n, d) = <<n \div k, d \div k>>
    BY <1>2 DEF Lowest
  <1>5. PICK a \in Int : a = n \div k
    BY <1>3
  <1>6. PICK b \in Int : b = d \div k
    BY <1>3
  <1>7. n = k * a /\ d = k * b /\ k \in Nat \ {0}
    BY <1>3, <1>5, <1>6, Divided
  <1>8. b \in Nat \ {0}
    BY <1>7
  <1>9. a * d = n * b
    BY <1>7
  <1>10. Lowest(n, d)[1] = a /\ Lowest(n, d)[2] = b
    BY <1>4, <1>5, <1>6
  <1>. QED
    BY <1>8, <1>9, <1>10 DEF Equals, Rational

\* A whole number has one form.
LEMMA LowestWhole ==
  ASSUME NEW n \in Int, NEW h \in Int, NEW d \in Nat \ {0}, n = h * d
  PROVE  Lowest(n, d) = <<h, 1>>
  <1>. DEFINE P(k) == /\ Divides(k, n) /\ Divides(k, d)
                      /\ \A j \in (k + 1)..d : ~(Divides(j, n) /\ Divides(j, d))
  <1>1. Divides(d, n) /\ Divides(d, d)
    BY DEF Divides
  <1>2. \E k \in 1..d : P(k)
    BY GreatestExists DEF Greatest
  <1>3. PICK k : k = CHOOSE i \in 1..d : P(i)
    OBVIOUS
  <1>4. k \in 1..d /\ P(k)
    <2>. HIDE DEF P
    <2>. QED
      BY <1>2, <1>3
  <1>5. k = d
    <2>1. ~(d \in (k + 1)..d)
      BY <1>1, <1>4
    <2>. QED
      BY <1>4, <2>1
  <1>6. Lowest(n, d) = <<n \div k, d \div k>>
    BY <1>3 DEF Lowest
  <1>7. (h * d) \div d = h /\ d \div d = 1
    OBVIOUS
  <1>. QED
    BY <1>5, <1>6, <1>7

\* Positive numerators stay positive.
LEMMA EqualsPositive ==
  ASSUME NEW a, NEW n \in Nat \ {0}, NEW d \in Nat \ {0}, Equals(a, n, d)
  PROVE  Positive(a)
  <1>1. a[1] \in Int /\ a[2] \in Nat \ {0} /\ a[1] * d = n * a[2]
    BY DEF Equals, Rational
  <1>2. n * a[2] \in Nat \ {0}
    BY <1>1, Product
  <1>3. PICK x \in Int : x = a[1]
    BY <1>1
  <1>4. x * d > 0
    BY <1>1, <1>2, <1>3
  <1>5. x > 0
    BY <1>4
  <1>. QED
    BY <1>1, <1>3, <1>5 DEF Positive

\* r in pieces no longer than p: m of them, and m - 1 do not suffice.
LEMMA PiecesAre ==
  ASSUME NEW r, Positive(r), NEW p, Positive(p)
  PROVE  /\ Pieces(r, p) \in Nat \ {0}
         /\ (Pieces(r, p) - 1) * (p[1] * r[2]) < r[1] * p[2]
  <1>1. PICK a \in Nat \ {0} : a = r[1] * p[2]
    BY Product DEF Positive
  <1>2. PICK b \in Nat \ {0} : b = p[1] * r[2]
    BY Product DEF Positive
  <1>3. PICK m : m = (a + b - 1) \div b
    OBVIOUS
  <1>4. m \in Int /\ m * b <= a + b - 1 /\ a + b - 1 < m * b + b
    BY <1>3
  <1>5. m * b >= 1
    BY <1>4
  <1>6. m >= 1
    BY <1>4, <1>5
  <1>7. (m - 1) * b = m * b - b
    BY <1>4
  <1>8. (m - 1) * b < a
    BY <1>4, <1>7
  <1>9. Pieces(r, p) = m
    BY <1>1, <1>2, <1>3 DEF Pieces
  <1>. QED
    BY <1>1, <1>2, <1>4, <1>6, <1>8, <1>9

LEMMA PartitionIs ==
  ASSUME NEW r, Positive(r), NEW p, Positive(p)
  PROVE  /\ Equals(Partition(r, p), r[1], r[2] * Pieces(r, p))
         /\ Positive(Partition(r, p))
  <1>1. PICK m \in Nat \ {0} : m = Pieces(r, p)
    BY PiecesAre
  <1>2. r[1] \in Nat \ {0} /\ r[2] * m \in Nat \ {0} /\ r[1] * 1 = r[1]
    BY <1>1, Product DEF Positive
  <1>3. Partition(r, p) = Lowest(r[1], r[2] * m)
    BY <1>1, <1>2 DEF Partition, Times
  <1>4. Equals(Partition(r, p), r[1], r[2] * m)
    BY <1>2, <1>3, LowestIs
  <1>. QED
    BY <1>1, <1>2, <1>4, EqualsPositive

\* Pieces of a whole are no shorter than a least width, if the whole is not and
\* the longest piece is twice as long.
LEMMA PiecesAreUsable ==
  ASSUME NEW least, Positive(least), NEW r, Positive(r), NEW p, Positive(p),
         Pieces(r, p) = 1 => Leq(least, r),
         Pieces(r, p) # 1 => 2 * least[1] * p[2] <= p[1] * least[2]
  PROVE  Leq(least, Partition(r, p))
  <1>1. PICK u \in Nat \ {0}, v \in Nat \ {0} : u = least[1] /\ v = least[2]
    BY DEF Positive
  <1>2. PICK r1 \in Nat \ {0}, r2 \in Nat \ {0} : r1 = r[1] /\ r2 = r[2]
    BY DEF Positive
  <1>3. PICK p1 \in Nat \ {0}, p2 \in Nat \ {0} : p1 = p[1] /\ p2 = p[2]
    BY DEF Positive
  <1>4. PICK m \in Nat \ {0} : m = Pieces(r, p)
    BY PiecesAre
  <1>5. (m - 1) * (p1 * r2) < r1 * p2
    BY <1>2, <1>3, <1>4, PiecesAre
  <1>6. PICK w : w = Partition(r, p)
    OBVIOUS
  <1>7. Equals(w, r1, r2 * m) /\ Positive(w)
    BY <1>2, <1>4, <1>6, PartitionIs
  <1>8. PICK w1 \in Nat \ {0}, w2 \in Nat \ {0} : w1 = w[1] /\ w2 = w[2]
    BY <1>7 DEF Positive
  <1>9. w1 * (r2 * m) = r1 * w2
    BY <1>7, <1>8 DEF Equals
  \* least <= r / m
  <1>10. u * (r2 * m) <= r1 * v
    <2>1. CASE m = 1
      <3>1. u * r2 <= r1 * v
        BY <1>1, <1>2, <1>4, <2>1 DEF Leq
      <3>. QED
        BY <2>1, <3>1
    <2>2. CASE m # 1
      <3>1. 2 * u * p2 <= p1 * v
        BY <1>1, <1>3, <1>4, <2>2
      <3>2. PICK x \in Nat \ {0} : x = p1 * v
        BY Product
      <3>3. PICK y \in Nat \ {0} : y = u * p2
        BY Product
      <3>4. 2 * y <= x
        BY <3>1, <3>2, <3>3
      <3>5. m <= 2 * (m - 1) /\ m - 1 \in Nat \ {0}
        BY <2>2
      <3>6. m * (2 * y) <= (m - 1) * (2 * x)
        <4>1. (2 * y) * m <= x * m
          BY <3>4, Scaled
        <4>2. m * x <= (2 * (m - 1)) * x
          BY <3>5, Scaled
        <4>3. (2 * y) * m = m * (2 * y) /\ x * m = m * x /\ (2 * (m - 1)) * x = (m - 1) * (2 * x)
          OBVIOUS
        <4>. QED
          BY <4>1, <4>2, <4>3
      <3>7. m * y <= (m - 1) * x
        <4>1. PICK k \in Int : k = m * y
          OBVIOUS
        <4>2. PICK l \in Int : l = (m - 1) * x
          OBVIOUS
        <4>3. m * (2 * y) = 2 * k /\ (m - 1) * (2 * x) = 2 * l
          BY <4>1, <4>2
        <4>. QED
          BY <3>6, <4>1, <4>2, <4>3
      <3>8. ((m - 1) * (p1 * r2)) * v < (r1 * p2) * v
        BY <1>5, ScaledStrictly
      <3>9. ((m - 1) * x) * r2 < (r1 * p2) * v
        <4>1. ((m - 1) * (p1 * r2)) * v = ((m - 1) * (p1 * v)) * r2
          OBVIOUS
        <4>. QED
          BY <3>2, <3>8, <4>1
      <3>10. (m * y) * r2 <= ((m - 1) * x) * r2
        BY <3>7, Scaled
      <3>11. (u * (r2 * m)) * p2 <= (r1 * v) * p2
        <4>1. (m * y) * r2 = (u * (r2 * m)) * p2
          BY <3>3
        <4>2. (r1 * p2) * v = (r1 * v) * p2
          OBVIOUS
        <4>. QED
          BY <3>9, <3>10, <4>1, <4>2
      <3>. QED
        BY <3>11, CancelledOrder
    <2>. QED
      BY <2>1, <2>2
  <1>11. (u * (r2 * m)) * w2 <= (r1 * v) * w2
    BY <1>10, Scaled
  <1>12. (r1 * v) * w2 = (w1 * v) * (r2 * m)
    <2>1. (r1 * v) * w2 = (r1 * w2) * v /\ (w1 * v) * (r2 * m) = (w1 * (r2 * m)) * v
      OBVIOUS
    <2>. QED
      BY <1>9, <2>1
  <1>13. (u * w2) * (r2 * m) <= (w1 * v) * (r2 * m)
    <2>1. (u * (r2 * m)) * w2 = (u * w2) * (r2 * m)
      OBVIOUS
    <2>. QED
      BY <1>11, <1>12, <2>1
  <1>14. r2 * m \in Nat \ {0}
    BY Product
  <1>15. u * w2 <= w1 * v
    BY <1>13, <1>14, CancelledOrder
  <1>. QED
    BY <1>1, <1>6, <1>8, <1>15 DEF Leq

-----------------------------------------------------------------------------
(* The substeps of a flow                                                  *)

\* What is left of the hold is a whole number of widths, and no width that was
\* not halved is shorter than the least step.
FlowLeft(flow, hold, m) ==
  (hold * flow.offset[2] - flow.offset[1]) * flow.width[2] = (m * flow.width[1]) * flow.offset[2]

FlowFits(flow, hold) ==
  /\ Rational(flow.offset) /\ Positive(flow.width)
  /\ Unfinished(flow, hold) =>
       /\ \E m \in Nat \ {0} : FlowLeft(flow, hold, m)
       /\ ~flow.halved /\ Leq(MinStep, Whole(hold)) => Leq(MinStep, flow.width)

LEMMA StepsArePositive ==
  /\ Positive(MaxStep) /\ Positive(MinStep) /\ MinStep[1] \in Nat \ {0} /\ MinStep[2] \in Nat \ {0}
  /\ 2 * MinStep[1] * MaxStep[2] <= MaxStep[1] * MinStep[2]
  BY FlowAssumption, TerminalAssumption DEF ReachabilityConfig, Positive

LEMMA LeastIs ==
  ASSUME NEW p, Positive(p), NEW t, Positive(t)
  PROVE  Positive(Least(p, t)) /\ (Least(p, t) = p \/ Least(p, t) = t)
  BY DEF Least

LEMMA BeginsFit == ASSUME NEW hold \in Nat \ {0} PROVE FlowFits(BeginFlow(hold), hold)
  <1>1. PICK r : r = Whole(hold)
    OBVIOUS
  <1>2. r[1] = hold /\ r[2] = 1 /\ Positive(r)
    BY <1>1 DEF Whole, Positive
  <1>3. PICK p : p = Least(MaxStep, r)
    OBVIOUS
  <1>4. Positive(p) /\ (p = MaxStep \/ p = r)
    BY <1>2, <1>3, LeastIs, StepsArePositive
  <1>5. PICK w : w = Partition(r, p)
    OBVIOUS
  <1>6. PICK m \in Nat \ {0} : m = Pieces(r, p)
    BY <1>2, <1>4, PiecesAre
  <1>7. Equals(w, r[1], r[2] * m) /\ Positive(w)
    BY <1>2, <1>4, <1>5, <1>6, PartitionIs
  <1>8. PICK flow : flow = BeginFlow(hold)
    OBVIOUS
  <1>9. flow.offset = <<0, 1>> /\ flow.width = w /\ flow.halved = FALSE
    BY <1>1, <1>3, <1>5, <1>8 DEF BeginFlow
  <1>10. flow.offset[1] = 0 /\ flow.offset[2] = 1
    BY <1>9
  <1>11. PICK w1 \in Nat \ {0}, w2 \in Nat \ {0} : w1 = w[1] /\ w2 = w[2]
    BY <1>7 DEF Positive
  <1>12. FlowLeft(flow, hold, m)
    <2>1. w1 * (1 * m) = hold * w2
      BY <1>2, <1>7, <1>11 DEF Equals
    <2>2. (hold * 1 - 0) * w2 = (m * w1) * 1
      BY <2>1
    <2>. QED
      BY <1>9, <1>10, <1>11, <2>2 DEF FlowLeft
  <1>13. ASSUME Leq(MinStep, Whole(hold)) PROVE Leq(MinStep, w)
    <2>1. m # 1 => p = MaxStep
      <3>1. SUFFICES ASSUME p = r PROVE m = 1
        BY <1>4
      <3>2. (m - 1) * (hold * 1) < hold * 1
        BY <1>2, <1>4, <1>6, <3>1, PiecesAre
      <3>3. (m - 1) * hold < 1 * hold
        BY <3>2
      <3>4. m - 1 < 1
        BY <3>3, CancelledStrictly
      <3>. QED
        BY <3>4
    <2>2. m # 1 => 2 * MinStep[1] * p[2] <= p[1] * MinStep[2]
      BY <2>1, StepsArePositive
    <2>. QED
      BY <1>1, <1>2, <1>4, <1>5, <1>6, <1>13, <2>2, StepsArePositive, PiecesAreUsable
  <1>14. Rational(flow.offset)
    BY <1>10 DEF Rational
  <1>. QED
    BY <1>7, <1>8, <1>9, <1>12, <1>13, <1>14 DEF FlowFits

LEMMA HalvedFits ==
  ASSUME NEW flow, NEW hold \in Nat \ {0}, DOMAIN flow = {"offset", "width", "halved", "segments"},
         FlowFits(flow, hold), Unfinished(flow, hold)
  PROVE  FlowFits(Halved(flow), hold)
  <1>1. PICK next : next = Halved(flow)
    OBVIOUS
  <1>2. next.offset = flow.offset /\ next.width = Times(flow.width, 1, 2) /\ next.halved = TRUE
    BY <1>1 DEF Halved
  <1>3. PICK m \in Nat \ {0} : FlowLeft(flow, hold, m)
    BY DEF FlowFits
  <1>4. PICK w1 \in Nat \ {0}, w2 \in Nat \ {0} : w1 = flow.width[1] /\ w2 = flow.width[2]
    BY DEF FlowFits, Positive
  <1>5. PICK w : w = Lowest(w1, w2 * 2)
    OBVIOUS
  <1>6. Equals(w, w1, w2 * 2) /\ Positive(w)
    <2>1. w2 * 2 \in Nat \ {0}
      OBVIOUS
    <2>2. Equals(w, w1, w2 * 2)
      BY <1>5, <2>1, LowestIs
    <2>. QED
      BY <2>1, <2>2, EqualsPositive
  <1>7. next.width = w
    BY <1>2, <1>4, <1>5 DEF Times
  <1>8. PICK n1 \in Nat \ {0}, n2 \in Nat \ {0} : n1 = w[1] /\ n2 = w[2]
    BY <1>6 DEF Positive
  <1>9. PICK o1 \in Int, o2 \in Nat \ {0} : o1 = flow.offset[1] /\ o2 = flow.offset[2]
    BY DEF FlowFits, Rational
  <1>10. PICK left \in Int : left = hold * o2 - o1
    BY <1>9
  <1>11. left * w2 = (m * w1) * o2
    BY <1>3, <1>4, <1>9, <1>10 DEF FlowLeft
  <1>12. n1 * (w2 * 2) = w1 * n2
    BY <1>6, <1>8 DEF Equals
  <1>13. left * n2 = ((2 * m) * n1) * o2
    <2>1. (left * n2) * w2 = (((2 * m) * n1) * o2) * w2
      <3>1. (left * n2) * w2 = (left * w2) * n2
        OBVIOUS
      <3>2. ((m * w1) * o2) * n2 = (w1 * n2) * (m * o2)
        OBVIOUS
      <3>3. (n1 * (w2 * 2)) * (m * o2) = (((2 * m) * n1) * o2) * w2
        OBVIOUS
      <3>. QED
        BY <1>11, <1>12, <3>1, <3>2, <3>3
    <2>. QED
      BY <2>1, Cancelled
  <1>14. 2 * m \in Nat \ {0} /\ FlowLeft(next, hold, 2 * m)
    BY <1>2, <1>7, <1>8, <1>9, <1>10, <1>13 DEF FlowLeft
  <1>. QED
    BY <1>1, <1>2, <1>6, <1>7, <1>14 DEF FlowFits

LEMMA AdvancedFits ==
  ASSUME NEW flow, NEW hold \in Nat \ {0}, FlowFits(flow, hold), Unfinished(flow, hold),
         Leq(MinStep, flow.width)
  PROVE  FlowFits(Advanced(flow, hold), hold)
  <1>1. PICK m \in Nat \ {0} : FlowLeft(flow, hold, m)
    BY DEF FlowFits
  <1>2. PICK w1 \in Nat \ {0}, w2 \in Nat \ {0} : w1 = flow.width[1] /\ w2 = flow.width[2]
    BY DEF FlowFits, Positive
  <1>3. PICK o1 \in Int, o2 \in Nat \ {0} : o1 = flow.offset[1] /\ o2 = flow.offset[2]
    BY DEF FlowFits, Rational
  <1>4. (hold * o2 - o1) * w2 = (m * w1) * o2
    BY <1>1, <1>2, <1>3 DEF FlowLeft
  <1>5. PICK n \in Int, d \in Nat \ {0} : n = o1 * w2 + w1 * o2 /\ d = o2 * w2
    BY Product
  <1>6. PICK offset : offset = Lowest(n, d)
    OBVIOUS
  <1>7. Equals(offset, n, d)
    BY <1>5, <1>6, LowestIs
  <1>8. Plus(flow.offset, flow.width) = offset
    BY <1>2, <1>3, <1>5, <1>6 DEF Plus
  <1>9. PICK q1 \in Int, q2 \in Nat \ {0} : q1 = offset[1] /\ q2 = offset[2]
    BY <1>7 DEF Equals, Rational
  <1>10. q1 * d = n * q2
    BY <1>7, <1>9 DEF Equals
  \* one piece less is left
  <1>11. (hold * q2 - q1) * w2 = ((m - 1) * w1) * q2
    <2>1. ((hold * q2 - q1) * w2) * o2 = (hold * d - n) * q2
      <3>1. ((hold * q2 - q1) * w2) * o2 = (hold * q2) * (o2 * w2) - q1 * (o2 * w2)
        OBVIOUS
      <3>2. (hold * q2) * d - n * q2 = (hold * d - n) * q2
        OBVIOUS
      <3>. QED
        BY <1>5, <1>10, <3>1, <3>2
    <2>2. hold * d - n = (hold * o2 - o1) * w2 - w1 * o2
      BY <1>5
    <2>3. (m * w1) * o2 - w1 * o2 = ((m - 1) * w1) * o2
      OBVIOUS
    <2>4. hold * d - n = ((m - 1) * w1) * o2
      BY <1>4, <2>2, <2>3
    <2>5. ((hold * q2 - q1) * w2) * o2 = (((m - 1) * w1) * q2) * o2
      <3>1. (((m - 1) * w1) * o2) * q2 = (((m - 1) * w1) * q2) * o2
        OBVIOUS
      <3>. QED
        BY <2>1, <2>4, <3>1
    <2>. QED
      BY <2>5, Cancelled
  <1>12. PICK next : next = Advanced(flow, hold)
    OBVIOUS
  <1>13. PICK p : p = Least(MaxStep, Times(flow.width, 2, 1))
    OBVIOUS
  <1>14. PICK r : r = Minus(Whole(hold), offset)
    OBVIOUS
  <1>15. /\ next.offset = offset /\ next.halved = FALSE
         /\ next.width = IF offset = Whole(hold) THEN flow.width ELSE Partition(r, p)
    BY <1>8, <1>12, <1>13, <1>14 DEF Advanced
  <1>16. CASE offset = Whole(hold)
    <2>1. Positive(next.width) /\ Rational(next.offset) /\ ~Unfinished(next, hold)
      BY <1>7, <1>15, <1>16 DEF FlowFits, Equals, Unfinished
    <2>. QED
      BY <1>12, <2>1 DEF FlowFits
  <1>17. CASE offset # Whole(hold)
    \* a last piece ends at the hold
    <2>1. m # 1
      <3>1. SUFFICES ASSUME m = 1 PROVE FALSE
        OBVIOUS
      <3>2. n = hold * d
        <4>1. (hold * o2 - o1) * w2 = w1 * o2
          BY <1>4, <3>1
        <4>2. (hold * o2 - o1) * w2 = hold * (o2 * w2) - o1 * w2
          OBVIOUS
        <4>. QED
          BY <1>5, <4>1, <4>2
      <3>3. offset = <<hold, 1>>
        <4>1. hold \in Int
          OBVIOUS
        <4>. QED
          BY <1>6, <3>2, <4>1, LowestWhole
      <3>. QED
        BY <1>17, <3>3 DEF Whole
    <2>2. PICK left \in Int : left = hold * q2 - q1
      OBVIOUS
    <2>3. left * w2 = ((m - 1) * w1) * q2
      BY <1>11, <2>2
    <2>4. m - 1 \in Nat \ {0} /\ m - 1 >= 1
      BY <2>1
    <2>5. left \in Nat \ {0}
      <3>1. (m - 1) * w1 \in Nat \ {0}
        BY <2>4, Product
      <3>2. ((m - 1) * w1) * q2 \in Nat \ {0}
        BY <3>1, Product
      <3>3. 0 * w2 < left * w2
        BY <2>3, <3>2
      <3>4. 0 < left
        BY <3>3, CancelledStrictly
      <3>. QED
        BY <3>4
    <2>6. r = Lowest(left, q2)
      <3>1. Whole(hold)[1] = hold /\ Whole(hold)[2] = 1
        BY DEF Whole
      <3>2. hold * q2 - q1 * 1 = left /\ 1 * q2 = q2
        BY <2>2
      <3>. QED
        BY <1>9, <1>14, <3>1, <3>2 DEF Minus
    <2>7. Equals(r, left, q2) /\ Positive(r)
      BY <2>5, <2>6, LowestIs, EqualsPositive
    <2>8. PICK r1 \in Nat \ {0}, r2 \in Nat \ {0} : r1 = r[1] /\ r2 = r[2]
      BY <2>7 DEF Positive
    <2>9. r1 * q2 = left * r2
      BY <2>7, <2>8 DEF Equals
    \* r is m - 1 widths
    <2>10. r1 * w2 = ((m - 1) * w1) * r2
      <3>1. (r1 * w2) * q2 = (((m - 1) * w1) * r2) * q2
        <4>1. (r1 * w2) * q2 = (r1 * q2) * w2
          OBVIOUS
        <4>2. (left * r2) * w2 = (left * w2) * r2
          OBVIOUS
        <4>3. (((m - 1) * w1) * q2) * r2 = (((m - 1) * w1) * r2) * q2
          OBVIOUS
        <4>. QED
          BY <2>3, <2>9, <4>1, <4>2, <4>3
      <3>. QED
        BY <3>1, Cancelled
    <2>11. PICK t : t = Times(flow.width, 2, 1)
      OBVIOUS
    <2>12. Equals(t, w1 * 2, w2) /\ Positive(t)
      <3>1. w1 * 2 \in Nat \ {0} /\ w2 * 1 = w2
        OBVIOUS
      <3>2. t = Lowest(w1 * 2, w2)
        BY <1>2, <2>11, <3>1 DEF Times
      <3>. QED
        BY <3>1, <3>2, LowestIs, EqualsPositive
    <2>13. Positive(p) /\ (p = MaxStep \/ p = t)
      BY <1>13, <2>11, <2>12, LeastIs, StepsArePositive
    <2>14. PICK w : w = Partition(r, p)
      OBVIOUS
    <2>15. PICK k \in Nat \ {0} : k = Pieces(r, p)
      BY <2>7, <2>13, PiecesAre
    <2>16. Equals(w, r1, r2 * k) /\ Positive(w)
      BY <2>7, <2>8, <2>13, <2>14, <2>15, PartitionIs
    <2>17. PICK z1 \in Nat \ {0}, z2 \in Nat \ {0} : z1 = w[1] /\ z2 = w[2]
      BY <2>16 DEF Positive
    <2>18. z1 * (r2 * k) = r1 * z2
      BY <2>16, <2>17 DEF Equals
    <2>19. FlowLeft(next, hold, k)
      <3>1. (left * z2) * r2 = ((k * z1) * q2) * r2
        <4>1. (left * z2) * r2 = (left * r2) * z2
          OBVIOUS
        <4>2. (r1 * q2) * z2 = (r1 * z2) * q2
          OBVIOUS
        <4>3. (z1 * (r2 * k)) * q2 = ((k * z1) * q2) * r2
          OBVIOUS
        <4>. QED
          BY <2>9, <2>18, <4>1, <4>2, <4>3
      <3>2. left * z2 = (k * z1) * q2
        BY <3>1, Cancelled
      <3>. QED
        BY <1>9, <1>15, <1>17, <2>2, <2>14, <2>17, <3>2 DEF FlowLeft
    <2>20. PICK u \in Nat \ {0}, v \in Nat \ {0} : u = MinStep[1] /\ v = MinStep[2]
      BY StepsArePositive
    <2>21. u * w2 <= w1 * v
      BY <1>2, <2>20 DEF Leq
    <2>22. Leq(MinStep, r)
      <3>1. (u * r2) * w2 <= (w1 * v) * r2
        <4>1. (u * w2) * r2 <= (w1 * v) * r2
          BY <2>21, Scaled
        <4>. QED
          BY <4>1
      <3>2. 1 * ((w1 * v) * r2) <= (m - 1) * ((w1 * v) * r2)
        <4>1. PICK c \in Nat \ {0} : c = (w1 * v) * r2
          <5>1. w1 * v \in Nat \ {0}
            BY Product
          <5>. QED
            BY <5>1, Product
        <4>2. 1 * c <= (m - 1) * c
          BY <2>4, Scaled
        <4>. QED
          BY <4>1, <4>2
      <3>3. (m - 1) * ((w1 * v) * r2) = (r1 * v) * w2
        <4>1. (m - 1) * ((w1 * v) * r2) = (((m - 1) * w1) * r2) * v
          OBVIOUS
        <4>2. (r1 * w2) * v = (r1 * v) * w2
          OBVIOUS
        <4>. QED
          BY <2>10, <4>1, <4>2
      <3>4. (u * r2) * w2 <= (r1 * v) * w2
        BY <3>1, <3>2, <3>3
      <3>5. u * r2 <= r1 * v
        BY <3>4, CancelledOrder
      <3>. QED
        BY <2>8, <2>20, <3>5 DEF Leq
    <2>23. 2 * MinStep[1] * p[2] <= p[1] * MinStep[2]
      <3>1. CASE p = MaxStep
        BY <3>1, StepsArePositive
      <3>2. CASE p = t
        <4>1. PICK t1 \in Nat \ {0}, t2 \in Nat \ {0} : t1 = t[1] /\ t2 = t[2]
          BY <2>12 DEF Positive
        <4>2. t1 * w2 = (w1 * 2) * t2
          BY <2>12, <4>1 DEF Equals
        <4>3. (u * w2) * (2 * t2) <= (w1 * v) * (2 * t2)
          <5>1. 2 * t2 \in Nat \ {0}
            OBVIOUS
          <5>. QED
            BY <2>21, <5>1, Scaled
        <4>4. (2 * u * t2) * w2 <= (t1 * v) * w2
          <5>1. (u * w2) * (2 * t2) = (2 * u * t2) * w2
            OBVIOUS
          <5>2. (w1 * v) * (2 * t2) = ((w1 * 2) * t2) * v /\ (t1 * w2) * v = (t1 * v) * w2
            OBVIOUS
          <5>. QED
            BY <4>2, <4>3, <5>1, <5>2
        <4>5. 2 * u * t2 <= t1 * v
          BY <4>4, CancelledOrder
        <4>. QED
          BY <2>20, <3>2, <4>1, <4>5
      <3>. QED
        BY <2>13, <3>1, <3>2
    <2>24. Leq(MinStep, w)
      BY <2>7, <2>13, <2>14, <2>22, <2>23, StepsArePositive, PiecesAreUsable
    <2>25. next.width = w /\ Rational(next.offset)
      BY <1>7, <1>15, <1>17, <2>14 DEF Equals
    <2>. QED
      BY <1>12, <2>15, <2>16, <2>19, <2>24, <2>25 DEF FlowFits
  <1>. QED
    BY <1>16, <1>17

\* What the run in progress knows of its flow.
FlowFields == {"offset", "width", "halved", "segments"}

FlowStands(e) ==
  /\ e.stage \in {"admit", "propose"} => e.q < e.last
  /\ e.stage = "enclose" =>
       e.hold \in Nat \ {0} /\ DOMAIN e.flow = FlowFields /\ FlowFits(e.flow, e.hold)
  /\ e.stage # "enclose" => e.flow = Nothing

FlowInv == exe # Nothing => FlowStands(exe)

\* A run that ended, or never began, encloses nothing.
LEMMA FinishedFlow ==
  ASSUME NEW e, NEW t, NEW status, DOMAIN e = RunFields,
         t = [e EXCEPT !.stage = "done", !.status = status, !.flow = Nothing, !.hold = 0]
  PROVE  FlowStands(t)
  <1>1. t.stage = "done" /\ t.flow = Nothing
    BY DEF RunFields
  <1>. QED
    BY <1>1 DEF FlowStands

LEMMA HoldIsPositive ==
  ASSUME Inv, exe # Nothing, exe.q < exe.last
  PROVE  Hold(exe) \in Nat \ {0}
  <1>1. exe.q \in Int /\ exe.last \in Int /\ MaximumHold \in Nat \ {0}
    BY Running, Typed, TerminalAssumption DEF RunStands, RunTypes
  <1>2. PICK p \in Nat \ {0} : p = exe.last - exe.q
    BY <1>1
  <1>3. \E v \in {p, MaximumHold} : \A w \in {p, MaximumHold} : v =< w
    BY <1>1
  <1>4. Min({p, MaximumHold}) \in {p, MaximumHold}
    BY <1>3 DEF Min
  <1>. QED
    BY <1>1, <1>2, <1>4 DEF Hold

LEMMA FlowKept == Inv /\ FlowInv /\ TerminalNext => FlowInv'
  <1>. SUFFICES ASSUME Inv, FlowInv, TerminalNext, exe' # Nothing PROVE FlowStands(exe')
    BY DEF FlowInv
  <1>1. CASE RerunShorter \/ SaveResult \/ LoseTerminal
    BY <1>1 DEF RerunShorter, SaveResult, LoseTerminal
  <1>2. SUFFICES ASSUME exe # Nothing PROVE FlowStands(exe')
    BY <1>1 DEF TerminalNext, RefuseInitial, Admit, RefuseProposal, Propose, HalveSubstep, ProveSubstep,
                RefuseFlow, GuardFlow, RefusePropagation, Move, RefuseObservation, Observe, FinishWindow
  <1>3. RunTypes(exe) /\ DOMAIN exe = RunFields /\ FlowStands(exe)
    BY <1>2, Running DEF RunTypes, FlowInv
  <1>4. ASSUME NEW e, DOMAIN e = RunFields, NEW status, Finishes(e, status) PROVE FlowStands(exe')
    BY <1>4, FinishedFlow DEF Finishes
  <1>5. CASE RefuseInitial \/ RefuseProposal
    BY <1>3, <1>4, <1>5 DEF RefuseInitial, RefuseProposal
  <1>6. ASSUME RefusesHold PROVE FlowStands(exe')
    <2>1. PICK event : Finishes([exe EXCEPT !.records = Append(@, event)], Refused)
      BY <1>6 DEF RefusesHold
    <2>2. PICK e : e = [exe EXCEPT !.records = Append(@, event)]
      OBVIOUS
    <2>3. DOMAIN e = RunFields
      BY <1>3, <2>2
    <2>. QED
      BY <1>4, <2>1, <2>2, <2>3
  <1>7. CASE RefuseFlow \/ RefusePropagation
    BY <1>6, <1>7 DEF RefuseFlow, RefusePropagation
  <1>8. CASE Admit
    <2>1. exe'.stage = "propose" /\ exe'.flow = exe.flow /\ exe'.q = exe.q /\ exe'.last = exe.last
          /\ exe.stage = "admit"
      BY <1>3, <1>8 DEF Admit, RunFields
    <2>. QED
      BY <1>3, <2>1 DEF FlowStands
  <1>9. CASE Propose
    <2>1. exe.stage = "propose" /\ Hold(exe) \in Nat \ {0}
      BY <1>2, <1>3, <1>9, HoldIsPositive DEF Propose, FlowStands
    <2>2. exe'.stage = "enclose" /\ exe'.hold = Hold(exe) /\ exe'.flow = BeginFlow(Hold(exe))
      BY <1>3, <1>9 DEF Propose, RunFields
    <2>3. FlowFits(BeginFlow(Hold(exe)), Hold(exe))
      BY <2>1, BeginsFit
    <2>4. DOMAIN BeginFlow(Hold(exe)) = FlowFields
      BY DEF BeginFlow, FlowFields
    <2>. QED
      BY <2>1, <2>2, <2>3, <2>4 DEF FlowStands
  <1>10. CASE HalveSubstep
    <2>1. exe.stage = "enclose" /\ Unfinished(exe.flow, exe.hold)
      BY <1>10 DEF HalveSubstep
    <2>2. exe'.stage = "enclose" /\ exe'.hold = exe.hold /\ exe'.flow = Halved(exe.flow)
      BY <1>3, <1>10, <2>1 DEF HalveSubstep, RunFields
    <2>3. exe.hold \in Nat \ {0} /\ DOMAIN exe.flow = FlowFields /\ FlowFits(exe.flow, exe.hold)
      BY <1>3, <2>1 DEF FlowStands
    <2>4. FlowFits(Halved(exe.flow), exe.hold)
      BY <2>1, <2>3, HalvedFits DEF FlowFields
    <2>5. DOMAIN Halved(exe.flow) = FlowFields
      BY <2>3 DEF Halved
    <2>. QED
      BY <2>2, <2>3, <2>4, <2>5 DEF FlowStands
  <1>11. CASE ProveSubstep
    <2>1. exe.stage = "enclose" /\ Unfinished(exe.flow, exe.hold) /\ Leq(MinStep, exe.flow.width)
      BY <1>11 DEF ProveSubstep, Exhausted
    <2>2. exe'.stage = "enclose" /\ exe'.hold = exe.hold /\ exe'.flow = Advanced(exe.flow, exe.hold)
      BY <1>3, <1>11, <2>1 DEF ProveSubstep, RunFields
    <2>3. exe.hold \in Nat \ {0} /\ FlowFits(exe.flow, exe.hold)
      BY <1>3, <2>1 DEF FlowStands
    <2>4. FlowFits(Advanced(exe.flow, exe.hold), exe.hold)
      BY <2>1, <2>3, AdvancedFits
    <2>5. DOMAIN Advanced(exe.flow, exe.hold) = FlowFields
      BY DEF Advanced, FlowFields
    <2>. QED
      BY <2>2, <2>3, <2>4, <2>5 DEF FlowStands
  <1>12. CASE GuardFlow
    <2>1. CASE exe' = [exe EXCEPT !.stage = "move", !.flow = Nothing]
      <3>1. exe'.stage = "move" /\ exe'.flow = Nothing
        BY <1>3, <2>1 DEF RunFields
      <3>. QED
        BY <3>1 DEF FlowStands
    <2>. QED
      BY <1>6, <1>12, <2>1 DEF GuardFlow
  <1>13. CASE Move
    <2>1. exe.flow = Nothing
      BY <1>3, <1>13 DEF Move, FlowStands
    <2>2. PICK x \in States, box \in Boxes :
            LET event == Event(exe, TRUE, x, box)
                moved == [exe EXCEPT !.q = @ + exe.hold, !.x = x, !.path = Append(@, x),
                                     !.clocks = Append(@, exe.q + exe.hold),
                                     !.records = Append(@, event), !.proved = box, !.hold = 0]
            IN  IF x \in box THEN exe' = [moved EXCEPT !.stage = "observe"]
                ELSE Finishes(moved, Refused)
      BY <1>13 DEF Move
    <2>3. PICK moved : moved = [exe EXCEPT !.q = @ + exe.hold, !.x = x, !.path = Append(@, x),
                                     !.clocks = Append(@, exe.q + exe.hold),
                                     !.records = Append(@, Event(exe, TRUE, x, box)), !.proved = box,
                                     !.hold = 0]
      OBVIOUS
    <2>4. exe' = [moved EXCEPT !.stage = "observe"] \/ Finishes(moved, Refused)
      BY <2>2, <2>3
    <2>5. DOMAIN moved = RunFields /\ moved.flow = Nothing
      BY <1>3, <2>1, <2>3 DEF RunFields
    <2>6. CASE exe' = [moved EXCEPT !.stage = "observe"]
      <3>1. exe'.stage = "observe" /\ exe'.flow = Nothing
        BY <2>5, <2>6 DEF RunFields
      <3>. QED
        BY <3>1 DEF FlowStands
    <2>. QED
      BY <1>4, <2>4, <2>5, <2>6
  <1>14. CASE RefuseObservation
    <2>1. PICK e : e = [exe EXCEPT !.proved = Nothing]
      OBVIOUS
    <2>2. Finishes(e, Refused) /\ DOMAIN e = RunFields
      BY <1>3, <1>14, <2>1 DEF RefuseObservation
    <2>. QED
      BY <1>4, <2>2
  <1>15. CASE Observe
    <2>1. exe.flow = Nothing
      BY <1>3, <1>15 DEF Observe, FlowStands
    <2>2. PICK box \in Boxes :
            exe' = [exe EXCEPT !.seen = Refines(box, exe.proved), !.seenAt = exe.q, !.proved = Nothing,
                               !.stage = IF exe.q < exe.last THEN "propose" ELSE "final"]
      BY <1>15 DEF Observe
    <2>3. /\ exe'.stage = (IF exe.q < exe.last THEN "propose" ELSE "final") /\ exe'.flow = Nothing
          /\ exe'.q = exe.q /\ exe'.last = exe.last
      BY <1>3, <2>1, <2>2 DEF RunFields
    <2>. QED
      BY <2>3 DEF FlowStands
  <1>16. CASE FinishWindow
    BY <1>3, <1>4, <1>16 DEF FinishWindow
  <1>. QED
    BY <1>1, <1>5, <1>7, <1>8, <1>9, <1>10, <1>11, <1>12, <1>13, <1>14, <1>15, <1>16 DEF TerminalNext

LEMMA FlowStep == Inv /\ FlowInv /\ [Next]_vars => FlowInv'
  <1>. SUFFICES ASSUME Inv, FlowInv, [Next]_vars PROVE FlowInv'
    OBVIOUS
  <1>1. CASE StartExecution
    <2>1. PICK width \in 1..Window : exe'.q = approach.end /\ exe'.last = approach.end + width
                                     /\ exe'.stage = "admit" /\ exe'.flow = Nothing
      BY <1>1 DEF StartExecution, StartTerminal
    <2>2. approach.end \in Nat
      BY DEF Inv, FilesInv, ApproachEnd
    <2>3. exe'.q < exe'.last
      BY <2>1, <2>2, TerminalAssumption
    <2>. QED
      BY <2>1, <2>3 DEF FlowInv, FlowStands
  <1>2. CASE Execute
    BY <1>2, FlowKept DEF Execute
  <1>3. CASE exe' = exe
    BY <1>3 DEF FlowInv
  <1>4. CASE WriteGuardJournal \/ SaveApproach
    BY <1>3, <1>4 DEF WriteGuardJournal, SaveApproach, terminal
  <1>5. CASE CompleteStep
    <2>1. exe' = exe
      BY <1>5 DEF CompleteStep, LoadApproach, ReadHandoff, CheckJournal, BindAccountant, BeginCompletion,
                  BudgetFromHistory, DebitApproach, ReplayJournal, DebitTail, AuthenticateAgain,
                  EndCompletion, Leave, Kept, terminal
    <2>. QED
      BY <1>3, <2>1
  <1>6. CASE UNCHANGED vars
    BY <1>3, <1>6 DEF vars, terminal
  <1>. QED
    BY <1>1, <1>2, <1>4, <1>5, <1>6 DEF Next

LEMMA TailsFit == FlowInv => TailsAreUsable
  <1>. SUFFICES ASSUME FlowInv, exe # Nothing, exe.flow # Nothing, Unfinished(exe.flow, exe.hold),
                       ~exe.flow.halved, Leq(MinStep, Whole(exe.hold))
                PROVE  Leq(MinStep, exe.flow.width)
    BY DEF TailsAreUsable
  <1>1. FlowFits(exe.flow, exe.hold)
    BY DEF FlowInv, FlowStands
  <1>. QED
    BY <1>1 DEF FlowFits

-----------------------------------------------------------------------------
(* Theorems                                                                *)

\* The invariant holds of every state.
THEOREM InvariantHolds == Spec => []Inv
  BY InitInv, NextInv, PTL DEF Spec

\* PhysicalTerminalRunner.run: over a whole run the plant moves only out of a
\* box that held it, that lay in the terminal set and that the flow before it
\* had proved, and its histories and records stay in step.
THEOREM MovesAlwaysProved == Spec => []EveryMoveIsProved
  BY InvariantHolds, EveryMoveHolds, PTL

\* PhysicalTerminalRunner.run and ValidatedFlowEncloser._integrate: over a whole
\* run the plant moves only as proved, and only a failed inclusion takes a
\* substep below min_step: whatever the steps are, dividing what is left of a
\* hold evenly never leaves a tail too short to be tried.
THEOREM TerminalMovesHold == Spec => []TerminalMovesAreProved
  <1>1. Init => FlowInv
    BY DEF Init, FlowInv
  <1>2. Inv /\ FlowInv => TerminalMovesAreProved
    BY EveryMoveHolds, TailsFit DEF TerminalMovesAreProved
  <1>. QED
    BY <1>1, <1>2, InvariantHolds, FlowStep, PTL DEF Spec

\* PhysicalTerminalHandoff.from_files and the propellant accountant: whatever
\* is written to the files meanwhile, a run the runner completed is accepted,
\* and a budget debits every hold of both stages, in one unbroken history.
THEOREM HandoffAlwaysWhole == Spec => []HandoffIsWhole
  <1>1. Inv => HandoffIsWhole
    BY CompletedVerifies, BudgetIsWhole DEF HandoffIsWhole
  <1>. QED
    BY <1>1, InvariantHolds, PTL

=============================================================================

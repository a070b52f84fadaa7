----------------------------- MODULE ProofArchive -----------------------------
(***************************************************************************)
(* NonlinearProofArchive under the mission that writes it: append writes a *)
(* line, flushes, syncs and only then counts and acknowledges it; close ends*)
(* the compressed frame, publishes a manifest and the reader.  Writes fail *)
(* half-way, the process or the machine dies at any point, and the executor*)
(* reacts to what an append has raised.  NonlinearHoldArchive (scripts/    *)
(* simulation/nonlinear/records/archive.py) walks a closed archive line by *)
(* line, binds every completed hold to the staged witness before it, and   *)
(* compares counts and identities with what the writer published.          *)
(*                                                                         *)
(* The bytes of a line live in the stream (lost with the process), in the  *)
(* file (lost with the machine, unless synced) or in its synced prefix.  A *)
(* line is [sequence, kind, hold]; TORN stands for bytes of a line that were*)
(* cut, alone or glued to the next line.  A digest is the value it is taken*)
(* of.                                                                     *)
(***************************************************************************)
EXTENDS Integers, Sequences, FiniteSets

-----------------------------------------------------------------------------
(* The reader                                                              *)

CONSTANT TORN

\* payload: what the producer handed over, without its place in the archive.
Payload(line) == [kind |-> line.kind, hold |-> line.hold]

Payloads(lines) == [i \in 1..Len(lines) |-> Payload(lines[i])]

\* No line is cut, and each carries its place.
Readable(lines) ==
  \A i \in 1..Len(lines) : lines[i] # TORN /\ lines[i].sequence = i - 1

Staging(line) == line.kind \in {"ADMITTED_BEFORE_MOTION", "APPLIED_HOLD_COMPLETE"}

Places(lines, kind) == {i \in 1..Len(lines) : lines[i].kind = kind}

Completions(lines) == Places(lines, "APPLIED_HOLD_COMPLETE")

\* The completion at i meets its own witness, the one at w, still pending.
Closes(lines, w, i) ==
  /\ w < i /\ lines[w].hold = lines[i].hold
  /\ \A j \in (w + 1)..(i - 1) : ~Staging(lines[j])

\* Mutant: a witness that is still pending at the end is accepted.
PairedSoFar(lines) ==
  LET admitted == Places(lines, "ADMITTED_BEFORE_MOTION") IN
  /\ \A i \in Completions(lines) : \E w \in admitted : Closes(lines, w, i)
  /\ \A w \in admitted : \/ \E i \in Completions(lines) : Closes(lines, w, i)
                         \/ \A j \in (w + 1)..Len(lines) : ~Staging(lines[j])

\* Every completed hold is bound to the staged witness before it, and every
\* witness is taken by a completion before the next one and before the end.
Paired(lines) ==
  LET admitted == Places(lines, "ADMITTED_BEFORE_MOTION") IN
  /\ \A i \in Completions(lines) : \E w \in admitted : Closes(lines, w, i)
  /\ \A w \in admitted : \E i \in Completions(lines) : Closes(lines, w, i)

\* One complete iteration that ends without an error.
Verifies(lines, expected) ==
  /\ lines = expected.raw
  /\ Readable(lines)
  /\ \A i \in 1..Len(lines) : lines[i].kind # "ASSUMPTION_VIOLATION"
  /\ Paired(lines)
  /\ Len(lines) = expected.entries
  /\ Cardinality(Completions(lines)) = expected.completed_holds
  /\ Payloads(lines) = expected.payload_identities

\* Such an iteration yields these holds, in the order of their lines.
Yields(lines, yielded) ==
  \E place \in [1..Len(yielded) -> Completions(lines)] :
    /\ \A i \in Completions(lines) : \E k \in 1..Len(yielded) : place[k] = i
    /\ \A k \in 1..Len(yielded) : lines[place[k]].hold = yielded[k]
    /\ \A k, m \in 1..Len(yielded) : k < m => place[k] < place[m]

-----------------------------------------------------------------------------
(* The writer                                                              *)

CONSTANTS MaxHolds,      \* holds of the mission
          MaxWitnesses,  \* bound: planning witnesses it streams
          None

Kinds == {"WITNESS", "ADMITTED_BEFORE_MOTION", "APPLIED_HOLD_COMPLETE", "ASSUMPTION_VIOLATION"}
Lines == [sequence : Nat, kind : Kinds, hold : Nat]

ArchiveAssumption ==
  MaxHolds \in Nat \ {0} /\ MaxWitnesses \in Nat /\ TORN \notin Lines

VARIABLES
  at,         \* program point of the append or close in progress, or "open"
  call,       \* the payload being appended
  stream,     \* lines written to the text stream and not flushed
  file,       \* lines in the file
  synced,     \* length of the prefix that survives the machine
  framed,     \* the compressed frame has been ended
  entries, holds, rolling,   \* counters and identities of acknowledged lines
  manifest,   \* the published manifest, or None
  source,     \* the reader close() returned, or None
  stage,      \* of the producer: "idle", "admitted", "moved", "completed", ...
  witnesses,  \* planning witnesses offered so far
  moved,      \* holds the plant has applied
  recorded,   \* holds in the compact index of the recorder
  outcome     \* "running", "returned", "failed", "raised" or "killed"

counters == <<entries, holds, rolling>>
storage == <<stream, file, synced, framed>>
published == <<manifest, source>>
producer == <<stage, witnesses, moved, recorded, outcome>>
vars == <<at, call, storage, counters, published, producer>>

Init ==
  /\ at = "open" /\ call = None
  /\ stream = <<>> /\ file = <<>> /\ synced = 0 /\ framed = FALSE
  /\ entries = 0 /\ holds = 0 /\ rolling = <<>>
  /\ manifest = None /\ source = None
  /\ stage = "idle" /\ witnesses = 0 /\ moved = 0 /\ recorded = <<>> /\ outcome = "running"

-----------------------------------------------------------------------------
(* The producer: planning, the hold executor and the recorder              *)

Offer(kind, hold) ==
  /\ at' = "write" /\ call' = [kind |-> kind, hold |-> hold]
  /\ UNCHANGED <<storage, counters, published>>

\* Planning streams witnesses between holds.
OfferWitness ==
  /\ at = "open" /\ stage = "idle" /\ outcome = "running" /\ witnesses < MaxWitnesses
  /\ Offer("WITNESS", 0)
  /\ witnesses' = witnesses + 1
  /\ UNCHANGED <<stage, moved, recorded, outcome>>

\* The staged record goes out before the motion.
Admit ==
  /\ at = "open" /\ stage = "idle" /\ outcome = "running" /\ moved < MaxHolds
  /\ Offer("ADMITTED_BEFORE_MOTION", moved + 1)
  /\ stage' = "staging"
  /\ UNCHANGED <<witnesses, moved, recorded, outcome>>

\* The plant moves once the append has returned.
Move ==
  /\ at = "open" /\ stage = "admitted"
  /\ moved' = moved + 1 /\ stage' = "moved"
  /\ UNCHANGED <<at, call, storage, counters, published, witnesses, recorded, outcome>>

Complete ==
  /\ at = "open" /\ stage = "moved"
  /\ Offer("APPLIED_HOLD_COMPLETE", moved)
  /\ stage' = "completing"
  /\ UNCHANGED <<witnesses, moved, recorded, outcome>>

\* The recorder indexes an acknowledged completion.
RecordHold ==
  /\ at = "open" /\ stage = "completed"
  /\ recorded' = Append(recorded, moved) /\ stage' = "idle"
  /\ UNCHANGED <<at, call, storage, counters, published, witnesses, moved, outcome>>

\* Anything but the archive raises inside a hold: the failure is streamed.
HoldRaises ==
  /\ at = "open" /\ stage \in {"admitted", "moved", "completed"}
  /\ Offer("ASSUMPTION_VIOLATION", moved)
  /\ stage' = "failing"
  /\ UNCHANGED <<witnesses, moved, recorded, outcome>>

\* The run returns its result after some holds; one that raised closes the
\* archive on its way out.
RunReturns ==
  /\ at = "open" /\ stage = "idle" /\ outcome = "running"
  /\ outcome' = "returned" /\ at' = "close"
  /\ UNCHANGED <<call, storage, counters, published, stage, witnesses, moved, recorded>>

-----------------------------------------------------------------------------
(* append                                                                  *)

\* Mutant: the hold index counts the holds, the sequence does not.
LineBySeenHolds == [sequence |-> holds, kind |-> call.kind, hold |-> call.hold]

\* The line carries its place among the acknowledged ones.
Line == [sequence |-> entries, kind |-> call.kind, hold |-> call.hold]

Write ==
  /\ at = "write"
  /\ stream' = Append(stream, Line)
  /\ at' = "flush"
  /\ UNCHANGED <<call, file, synced, framed, counters, published, producer>>

\* Mutant: flushing the stream is taken for durability.
FlushUnsynced ==
  /\ at = "flush"
  /\ file' = file \o stream /\ stream' = <<>>
  /\ at' = "acknowledge"
  /\ UNCHANGED <<call, synced, framed, counters, published, producer>>

Flush ==
  /\ at = "flush"
  /\ file' = file \o stream /\ stream' = <<>>
  /\ at' = "sync"
  /\ UNCHANGED <<call, synced, framed, counters, published, producer>>

Sync ==
  /\ at = "sync"
  /\ synced' = Len(file)
  /\ at' = "acknowledge"
  /\ UNCHANGED <<call, stream, file, framed, counters, published, producer>>

\* What the producer does when its append returns.
Proceed(kind) ==
  CASE kind = "WITNESS"                -> UNCHANGED <<stage, outcome>>
    [] kind = "ADMITTED_BEFORE_MOTION" -> stage' = "admitted" /\ UNCHANGED outcome
    [] kind = "APPLIED_HOLD_COMPLETE"  -> stage' = "completed" /\ UNCHANGED outcome
    [] kind = "ASSUMPTION_VIOLATION"   -> stage' = "idle" /\ outcome' = "failed"

Count ==
  /\ entries' = entries + 1
  /\ holds' = IF call.kind = "APPLIED_HOLD_COMPLETE" THEN holds + 1 ELSE holds
  /\ rolling' = Append(rolling, call)

Acknowledge ==
  /\ at = "acknowledge"
  /\ Count
  /\ Proceed(call.kind)
  /\ call' = None
  /\ at' = IF call.kind = "ASSUMPTION_VIOLATION" THEN "close" ELSE "open"
  /\ UNCHANGED <<storage, published, witnesses, moved, recorded>>

\* Mutant: a staged witness that could not be written does not stop the hold.
GoOnUnstaged(kind) ==
  /\ call' = None /\ UNCHANGED outcome
  /\ IF kind = "ASSUMPTION_VIOLATION" THEN at' = "close" /\ stage' = "idle"
     ELSE /\ at' = "open"
          /\ stage' = IF kind = "ADMITTED_BEFORE_MOTION" THEN "admitted" ELSE "idle"

\* What the producer does when its append raises.  Inside a hold the failure
\* is streamed, a failed failure record is given up, and both end the run
\* with a result; elsewhere the error leaves the run, or ends it with a
\* result when it was met in the recovery of navigation.
GiveUp(kind) ==
  CASE kind = "WITNESS" ->
         outcome' \in {"raised", "failed"} /\ at' = "close" /\ call' = None /\ UNCHANGED stage
    [] kind = "ASSUMPTION_VIOLATION" ->
         outcome' = "failed" /\ at' = "close" /\ call' = None /\ stage' = "idle"
    [] OTHER ->
         /\ call' = [kind |-> "ASSUMPTION_VIOLATION", hold |-> moved]
         /\ at' = "write" /\ stage' = "failing" /\ UNCHANGED outcome

\* A payload that cannot be encoded, or not within the byte budget of the
\* reader, is refused before anything is written.  A planner takes the
\* refusal of its witness for a refused plan and goes on.
AppendRefused ==
  /\ at = "write"
  /\ \/ /\ call.kind = "WITNESS"
        /\ at' = "open" /\ call' = None /\ UNCHANGED <<stage, outcome>>
     \/ GiveUp(call.kind)
  /\ UNCHANGED <<storage, counters, published, witnesses, moved, recorded>>

\* The write, the flush or the sync fails; bytes of the line may be in the
\* stream or in the file.
AppendFails ==
  /\ \/ at = "write" /\ stream' \in {stream, Append(stream, TORN)} /\ UNCHANGED file
     \/ /\ at = "flush"
        /\ \/ UNCHANGED <<stream, file>>
           \/ stream' = <<>> /\ file' \in {file, Append(file, TORN), file \o stream}
     \/ at = "sync" /\ UNCHANGED <<stream, file>>
  /\ GiveUp(call.kind)
  /\ UNCHANGED <<synced, framed, counters, published, witnesses, moved, recorded>>

-----------------------------------------------------------------------------
(* close                                                                   *)

\* The stream is flushed and the frame ended.
CloseStream ==
  /\ at = "close"
  /\ file' = file \o stream /\ stream' = <<>> /\ framed' = TRUE
  /\ at' = "hash"
  /\ UNCHANGED <<call, synced, counters, published, producer>>

\* That fails, what was in the stream may be lost and the frame may lack its
\* end.  When the run itself had not raised, the with statement closes once
\* more, over a stream already closed.
CloseStreamFails ==
  /\ at = "close"
  /\ file' \in {file, file \o stream} /\ stream' = <<>> /\ framed' \in BOOLEAN
  /\ at' = IF outcome = "raised" THEN "unpublished" ELSE "hash"
  /\ outcome' = "raised"
  /\ UNCHANGED <<call, synced, counters, published, stage, witnesses, moved, recorded>>

\* What the manifest and the reader are given.
Expected == [raw |-> file, entries |-> entries, completed_holds |-> holds,
             payload_identities |-> rolling]

\* The file is synced, and the manifest replaces its temporary file at once.
PublishManifest ==
  /\ at = "hash"
  /\ synced' = Len(file)
  /\ manifest' = Expected
  /\ at' = "closed"
  /\ UNCHANGED <<call, stream, file, framed, counters, source, producer>>

\* close returns the reader only to a run that is not already raising.
ReturnSource ==
  /\ at = "closed" /\ source = None /\ outcome \in {"returned", "failed"}
  /\ source' = manifest
  /\ UNCHANGED <<at, call, storage, counters, manifest, producer>>

\* The hash or the manifest fails: the archive is closed and has no manifest.
CloseFails ==
  /\ at = "hash"
  /\ at' = "unpublished" /\ outcome' = "raised"
  /\ UNCHANGED <<call, storage, counters, published, stage, witnesses, moved, recorded>>

-----------------------------------------------------------------------------

\* The machine dies: the stream is gone, the file keeps its synced prefix
\* and perhaps more.  A killed process is the case that keeps all of it.
\* Once the archive is closed nothing of it is unsynced.
Kill ==
  /\ outcome # "killed" /\ at \notin {"closed", "unpublished"}
  /\ outcome' = "killed" /\ at' = "unpublished" /\ call' = None
  /\ \E n \in synced..Len(file), torn \in BOOLEAN :
       file' = IF torn /\ n < Len(file) THEN Append(SubSeq(file, 1, n), TORN)
               ELSE SubSeq(file, 1, n)
  /\ stream' = <<>>
  /\ UNCHANGED <<synced, framed, counters, published, stage, witnesses, moved, recorded>>

Next ==
  \/ OfferWitness \/ Admit \/ Move \/ Complete \/ RecordHold \/ HoldRaises \/ RunReturns
  \/ Write \/ Flush \/ Sync \/ Acknowledge \/ AppendRefused \/ AppendFails
  \/ CloseStream \/ CloseStreamFails \/ PublishManifest \/ ReturnSource \/ CloseFails
  \/ Kill

Spec == Init /\ [][Next]_vars

-----------------------------------------------------------------------------
(* Properties                                                              *)

\* Every acknowledged event is in the synced file, in order and unchanged,
\* also after the process or the machine has died.  Only the record of a
\* failure may be glued to the cut line of the append that failed.
AcknowledgedIsDurable ==
  /\ synced >= entries
  /\ \A i \in 1..entries :
       rolling[i].kind # "ASSUMPTION_VIOLATION" =>
         file[i] # TORN /\ Payload(file[i]) = rolling[i]

\* Motion is never ahead of the durable archive: each applied hold has its
\* staged witness in the synced file.
MotionIsStaged ==
  \A n \in 1..moved : \E i \in 1..synced :
    file[i] # TORN /\ file[i].kind = "ADMITTED_BEFORE_MOTION" /\ file[i].hold = n

\* A reader that gets through a published archive has seen every hold the
\* plant applied, exactly once and in order: a lost or half-written
\* completion or a second line for one place never goes unnoticed, even when
\* the record of the failure could not be written either.
VerifiedIsTheMotion ==
  manifest # None /\ framed /\ Verifies(file, manifest) => Yields(file, [n \in 1..moved |-> n])

\* A run that returned without a failure hands over an archive that verifies
\* and yields exactly the holds of the recorder's compact index.
ReturnedRunVerifies ==
  source # None /\ outcome = "returned" =>
    framed /\ Verifies(file, source) /\ Yields(file, recorded)

=============================================================================

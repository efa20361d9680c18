----------------------------- MODULE LanePipeline -----------------------------
(***************************************************************************)
(* The lanes of one workbook tracker: completion in canonical order, the   *)
(* recording of a failure, its archival, the invalidation that starts a    *)
(* repair, and the transitions that need the complete readiness proof      *)
(* (clear, resume, enqueue, promoted).                                     *)
(*                                                                         *)
(* Each action is one committed mutation; that mutations of one tracker    *)
(* are serialised, fenced by lease and compare-and-swapped is the subject  *)
(* of TrackerLeases.  What an owning validator accepts is an input: a gate *)
(* may pass or fail at any time for the generation it is given.            *)
(*                                                                         *)
(* A binding is a version number, 0 when the step bound nothing yet.  Only *)
(* steps of Binders write a binding.  "Pair" are the steps whose binding   *)
(* every later gate compares with the tracker (pair_and_audit).            *)
(***************************************************************************)
EXTENDS Integers, Sequences

CONSTANTS
    Steps,        \* the canonical invocations, in order
    LaneOf,       \* the lane that owns each step
    Phase1, Profile, Phase2,  \* steps around the two-phase normalization lane
    Pair,         \* steps whose generations are pinned: source, segmentation
    Contexts,     \* upstream steps a later gate may find at fault
    Exhaustible,  \* steps whose validator can establish a terminal failure
    Binders,      \* steps that bind artifacts in the tracker
    Stage,        \* the step that binds the staged bundle: environment
    MaxVersion,   \* bound of the model on artifact generations
    MaxFailures,  \* bound of the model on recorded failures
    Signatures,   \* diagnostic signatures
    None          \* no failure, no snapshot, no confidence

Kinds == {Steps[i] : i \in DOMAIN Steps}
Lanes == {LaneOf[k] : k \in Kinds}
Norm == LaneOf[Phase1]
Index(k) == CHOOSE i \in DOMAIN Steps : Steps[i] = k

ASSUME StepsAssumption ==
    /\ Steps \in Seq(Kinds)
    /\ \A i, j \in DOMAIN Steps : Steps[i] = Steps[j] => i = j
    /\ {Phase1, Profile, Phase2, Stage} \subseteq Kinds
    /\ Index(Profile) = Index(Phase1) + 1 /\ Index(Phase2) = Index(Profile) + 1
    /\ LaneOf[Phase2] = Norm
    /\ \A k, m \in Kinds : LaneOf[k] = LaneOf[m] => k = m \/ {k, m} = {Phase1, Phase2}
    /\ Pair \subseteq Contexts /\ Contexts \subseteq Kinds /\ Pair \subseteq Binders
    /\ Pair \cap {Phase1, Phase2, Stage} = {}
ASSUME VersionsAssumption == MaxVersion \in Nat /\ MaxFailures \in Nat

VARIABLES
    exec,       \* tracker["execution_state"]
    state,      \* lane_state[lane]["state"]
    confidence, \* lane_state[lane]["current_confidence"]
    phase,      \* lane_state[normalization]["phase"]
    bound,      \* tracker["bindings"], per step
    basis,      \* the pair generations the last pass of each lane was checked on
    failure,    \* tracker["promotion_failure"]
    snapshot,   \* the last failure-snapshot hand-off
    repair,     \* the failure under repair, until its owning gate passes again
    observed    \* number of failures recorded, bounded by MaxFailures

vars == <<exec, state, confidence, phase, bound, basis, failure, snapshot,
          repair, observed>>

Terminal == {"STOPPED", "PROMOTED"}
Failure == [gate : Kinds, sig : Signatures, terminal : BOOLEAN, seen : Nat,
            archived : BOOLEAN]

ASSUME NoneAssumption ==
    None \notin Failure \cup {"phase1_complete", "phase2_complete", "medium", "high"}

-----------------------------------------------------------------------------
Before(k) == {Steps[i] : i \in 1..(Index(k) - 1)}
\* Mutant: the invalidation stops one step too early.
FromShort(k) == {LaneOf[Steps[i]] : i \in Index(k)..(Len(Steps) - 1)} \cup {LaneOf[k]}

From(k) == {LaneOf[Steps[i]] : i \in Index(k)..Len(Steps)}

\* Lanes invoked after step k, its own excepted.
Downstream(k) ==
    {LaneOf[Steps[i]] : i \in (Index(k) + 1)..Len(Steps)} \ {LaneOf[k]}

StepDone(k) ==
    IF k = Phase1 THEN phase \in {"phase1_complete", "phase2_complete"}
    ELSE state[LaneOf[k]] = "passed"

Predecessors(k) ==
    /\ \A p \in Before(k) : StepDone(p)
    /\ k = Phase2 => phase = "phase1_complete"

\* The source gate has no predecessor check; the segmentation gate asks for
\* the source lane only, which is all that precedes it.
MayEvaluate(k) == k = Steps[1] \/ Predecessors(k)

\* Mutant: it is enough that no later lane is being worked on.
NoDependentActive(k) == \A l \in Downstream(k) : state[l] \notin {"running", "repairing"}

PendingDependents(k) ==
    \A l \in Downstream(k) :
        \/ state[l] = "pending"
        \/ k = Profile /\ l = Norm /\ state[l] = "running" /\ phase = "phase1_complete"

\* A pass is of high confidence; that of the profile is medium when some of
\* the public sources could not be captured.
Levels(l) == IF l = LaneOf[Profile] THEN {"medium", "high"} ELSE {"high"}

AllPassed ==
    \A l \in Lanes : state[l] = "passed" /\ confidence[l] \in Levels(l)

Generations == [Pair -> 0..MaxVersion]
PairBound == [p \in Pair |-> bound[p]]

-----------------------------------------------------------------------------
\* Mutant: lanes start in a state the lane schema does not know.
InitQueued ==
    /\ exec = "queued"
    /\ state = [l \in Lanes |-> "queued"]
    /\ confidence = [l \in Lanes |-> None]
    /\ phase = None
    /\ bound = [k \in Kinds |-> 0]
    /\ basis = [l \in Lanes |-> [p \in Pair |-> 0]]
    /\ failure = None /\ snapshot = None /\ repair = None
    /\ observed = 0

Init ==
    /\ exec = "queued"
    /\ state = [l \in Lanes |-> "pending"]
    /\ confidence = [l \in Lanes |-> None]
    /\ phase = None
    /\ bound = [k \in Kinds |-> 0]
    /\ basis = [l \in Lanes |-> [p \in Pair |-> 0]]
    /\ failure = None
    /\ snapshot = None
    /\ repair = None
    /\ observed = 0

\* LaneNotes.complete: the gate of step k passed for version v of its artifact,
\* with the confidence given.
Complete(k, v, level) ==
    /\ level \in Levels(LaneOf[k])
    /\ k \notin Binders => v = bound[k]
    /\ k \in Binders => v # 0
    /\ exec \notin Terminal
    /\ MayEvaluate(k)
    /\ v # bound[k] => PendingDependents(k)
    /\ bound' = [bound EXCEPT ![k] = v]
    /\ basis' = [basis EXCEPT ![LaneOf[k]] = PairBound]
    /\ state' = [state EXCEPT ![LaneOf[k]] = IF k = Phase1 THEN "running" ELSE "passed"]
    /\ confidence' = [confidence EXCEPT ![LaneOf[k]] = level]
    /\ phase' = CASE k = Phase1 -> "phase1_complete"
                  [] k = Phase2 -> "phase2_complete"
                  [] OTHER -> phase
    /\ exec' = "running"
    /\ repair' = IF repair # None /\ repair.gate = k THEN None ELSE repair
    /\ UNCHANGED <<failure, snapshot, observed>>

\* Mutant: the qualification of a queued publication is not validated.
RecordableWhenQueued(t) == exec \notin Terminal

\* validate_tracker refuses a failure on a queued publication, unless it is a
\* terminal one (t), which stops the tracker.
Recordable(t) == exec \notin Terminal /\ (exec = "publication_queued" => t)

\* LaneNotes.record_failure: the gate of step k, or the upstream gate g it
\* re-entered, was found failing.
RecordFailure(k, g, s, t) ==
    /\ observed < MaxFailures
    /\ t => g = k /\ k \in Exhaustible
    /\ Recordable(t)
    /\ g = k \/ (k \notin Pair /\ g \in Contexts \cap Before(k))
    /\ k # Steps[1] /\ Predecessors(k)
    /\ observed' = observed + 1
    /\ failure' = [gate |-> g, sig |-> s, terminal |-> t, seen |-> observed + 1,
                   archived |-> FALSE]
    /\ state' = [state EXCEPT ![LaneOf[g]] = IF t THEN "terminal" ELSE "repairing"]
    /\ confidence' = [confidence EXCEPT ![LaneOf[g]] = "low"]
    /\ exec' = IF t THEN "STOPPED" ELSE exec
    /\ repair' = None
    /\ UNCHANGED <<phase, bound, basis, snapshot>>

\* FailureSnapshots.snapshot_failure: the exact failed evidence is archived and
\* the archive becomes part of the evidence of the current failure.
SnapshotFailure ==
    /\ failure # None
    /\ snapshot' = failure
    /\ failure' = [failure EXCEPT !.archived = TRUE]
    /\ UNCHANGED <<exec, state, confidence, phase, bound, basis, repair, observed>>

\* Mutant: an archive of any earlier observation of the signature will do.
ArchivedOnce(f) == snapshot # None /\ snapshot.sig = f.sig /\ snapshot.gate = f.gate

\* The archive must carry the signature of the current failure and be bound in
\* the evidence of its latest observation.
Archived(f) ==
    /\ snapshot # None
    /\ snapshot.sig = f.sig /\ snapshot.gate = f.gate
    /\ f.archived

\* FailureSnapshots.begin_repair: the owning and all later lanes are invalidated.
BeginRepair ==
    /\ exec = "running"
    /\ failure # None
    /\ Archived(failure)
    /\ LET owner == LaneOf[failure.gate]
           affected == From(failure.gate)
           i == Index(failure.gate)
           frozen == Index(Phase1) < i /\ i <= Index(Phase2)
       IN  /\ state' = [l \in Lanes |->
                 IF l = Norm /\ frozen THEN "running"
                 ELSE IF l \notin affected THEN state[l]
                 ELSE IF l = owner THEN "repairing" ELSE "pending"]
           /\ confidence' = [l \in Lanes |->
                 IF l \notin affected THEN confidence[l]
                 ELSE IF l = owner THEN "low" ELSE None]
           /\ phase' = CASE i <= Index(Phase1) -> None
                         [] frozen -> "phase1_complete"
                         [] OTHER -> phase
    /\ repair' = failure
    /\ UNCHANGED <<exec, bound, basis, failure, snapshot, observed>>

\* The complete readiness proof re-enters every gate in order on one selection,
\* whose pair must be the one the tracker binds; the staged bundle v of that
\* selection is bound by each of the four transitions, the other bindings of
\* the selection are not.
Ready(v) ==
    /\ v # 0
    /\ \A p \in Pair : bound[p] # 0
    /\ bound' = [bound EXCEPT ![Stage] = v]
    /\ UNCHANGED <<snapshot, observed>>

\* The marker of skipped profiles names the artifacts that the tracker binds.
Marked(level) == level = "medium" => bound[Phase1] # 0 /\ bound[Profile] # 0

\* ReadyTransitions "clear" and "resume"; the proof finds the profile at the
\* confidence given.
AllLanesReady(v, level) ==
    /\ Ready(v)
    /\ failure # None
    /\ level \in Levels(LaneOf[Profile]) /\ Marked(level)
    /\ state' = [l \in Lanes |-> "passed"]
    /\ confidence' = [l \in Lanes |-> IF l = LaneOf[Profile] THEN level ELSE "high"]
    /\ phase' = "phase2_complete"
    /\ basis' = [l \in Lanes |-> PairBound]
    /\ failure' = None
    /\ repair' = None
    /\ exec' = "running"

Clear(v, level) == exec \notin Terminal /\ AllLanesReady(v, level)

Resume(v, level) == exec = "STOPPED" /\ AllLanesReady(v, level)

Enqueue(v) ==
    /\ exec \notin Terminal
    /\ failure = None
    /\ AllPassed /\ Marked(confidence[LaneOf[Profile]])
    /\ Ready(v)
    /\ exec' = "publication_queued"
    /\ UNCHANGED <<state, confidence, phase, basis, failure, repair>>

Promoted(v) ==
    /\ exec = "publication_queued"
    /\ failure = None
    /\ AllPassed /\ Marked(confidence[LaneOf[Profile]])
    /\ Ready(v)
    /\ exec' = "PROMOTED"
    /\ UNCHANGED <<state, confidence, phase, basis, failure, repair>>

Next ==
    \/ \E k \in Kinds, v \in 0..MaxVersion, level \in {"medium", "high"} : Complete(k, v, level)
    \/ \E k, g \in Kinds, s \in Signatures, t \in BOOLEAN : RecordFailure(k, g, s, t)
    \/ SnapshotFailure
    \/ BeginRepair
    \/ \E v \in 0..MaxVersion, level \in {"medium", "high"} : Clear(v, level) \/ Resume(v, level)
    \/ \E v \in 0..MaxVersion : Enqueue(v) \/ Promoted(v)

Spec == Init /\ [][Next]_vars

-----------------------------------------------------------------------------
\* Every lane, binding and repair record has one of the values validate_tracker
\* accepts, and no recorded failure is newer than the last observation.
TypeOK ==
    /\ exec \in {"queued", "running", "publication_queued"} \cup Terminal
    /\ state \in [Lanes -> {"pending", "running", "repairing", "passed", "terminal"}]
    /\ confidence \in [Lanes -> {"low", "medium", "high", None}]
    /\ phase \in {"phase1_complete", "phase2_complete", None}
    /\ bound \in [Kinds -> 0..MaxVersion]
    /\ basis \in [Lanes -> Generations]
    /\ failure \in Failure \cup {None}
    /\ snapshot \in Failure \cup {None}
    /\ repair \in Failure \cup {None}
    /\ observed \in 0..MaxFailures

\* No stale pass: whatever was re-completed, failed, repaired or cleared since,
\* a passed lane was checked against the pair of generations the tracker binds
\* now (a changed upstream leaves no populated downstream lane current).
Upstream(l) == {p \in Pair : \E k \in Kinds : LaneOf[k] = l /\ p \in Before(k)}
PassedOnCurrentPair ==
    \A l \in Lanes : state[l] = "passed" =>
        \A p \in Upstream(l) : basis[l][p] = bound[p]

\* What waits for publication or is published has every lane passed, with high
\* confidence but for a profile whose skipped sources are marked, no failure,
\* and both phases of the normalization done.
QualifiedForPublication ==
    exec \in {"publication_queued", "PROMOTED"} =>
        AllPassed /\ failure = None /\ phase = "phase2_complete"

\* A lane stays passed ahead of an upstream step that is not done only while
\* the reason is on record: a current failure, or a phase 1 that was frozen again
\* on unchanged bindings and waits for its phase 2.
Refrozen(p) == p = Phase2 /\ state[Norm] = "running" /\ phase = "phase1_complete"
PassedInOrder ==
    failure = None =>
        \A k \in Kinds : state[LaneOf[k]] = "passed" =>
            \A p \in Before(k) : StepDone(p) \/ Refrozen(p)

\* What passed is neither stale nor ahead of what it was built from
\* (LaneNotes.complete and pending_dependents).
PassedStands == PassedOnCurrentPair /\ PassedInOrder

\* A started repair can always be finished: until its owning gate has passed
\* again, nothing upstream of that gate is missing (but a phase 2 that can be
\* re-recorded) and a changed binding is not refused because of a lane the
\* invalidation missed.
RepairCanFinish ==
    repair # None =>
        /\ repair.seen = failure.seen
        /\ \A p \in Before(repair.gate) : StepDone(p) \/ Refrozen(p)
        /\ PendingDependents(repair.gate)

\* Mutable evidence is archived before it may be overwritten: a repair starts
\* only from an archive of the latest observation of the failure, however often
\* the same signature came back.
RepairFromCurrentArchive ==
    [][repair' # repair /\ repair' # None =>
          snapshot # None /\ snapshot.seen = failure.seen]_vars
=============================================================================

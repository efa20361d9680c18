------------------------- MODULE LanePipeline_proofs -------------------------
(***************************************************************************)
(* Proofs about the lanes of a tracker, for any pipeline of the canonical  *)
(* shape, any number of generations and failures: what passed stands, what *)
(* is queued is qualified, and a started repair can be finished.           *)
(*                                                                         *)
(* The invariant adds to the properties what they rest on: everything      *)
(* before the gate of the recorded failure is done (FailureStands), its    *)
(* archive is of its latest observation (ArchiveStands), and the step      *)
(* under repair is not done, so that no later one can pass (RepairStands). *)
(***************************************************************************)
EXTENDS LanePipeline, TLAPS

\* The normalization has passed only with both of its phases.
BothPhases == state[Norm] = "passed" => phase = "phase2_complete"

\* Everything before a step is done, but for a phase 2 that waits to be re-recorded.
Ahead(k) == \A p \in Before(k) : StepDone(p) \/ Refrozen(p)

FailureStands == failure # None => Ahead(failure.gate)

ArchiveStands ==
    failure # None /\ failure.archived => snapshot # None /\ snapshot.seen = failure.seen

\* The step under repair is not done, and nothing after it has been done again.
RepairStands ==
    repair # None =>
        /\ failure # None
        /\ repair.gate = failure.gate /\ repair.seen = failure.seen
        /\ ~StepDone(repair.gate)
        /\ repair.gate \in {Phase1, Phase2} => state[Norm] # "passed"
        /\ repair.gate \in {Profile, Phase2} => phase = "phase1_complete" /\ state[Norm] = "running"
        /\ PendingDependents(repair.gate)

IInv ==
    /\ TypeOK /\ BothPhases /\ FailureStands /\ ArchiveStands /\ RepairStands
    /\ PassedOnCurrentPair /\ PassedInOrder /\ QualifiedForPublication
-----------------------------------------------------------------------------
(* The order of the steps. *)

\* A step has one place.
LEMMA Placed == \A k \in Kinds : Index(k) \in DOMAIN Steps /\ Steps[Index(k)] = k
    BY DEF Kinds, Index

\* What the sets of steps are, by their places.
LEMMA Places ==
    /\ \A k \in Kinds : Index(k) \in Nat /\ LaneOf[k] \in Lanes
    /\ \A k, m \in Kinds : Index(k) = Index(m) => k = m
    /\ \A k \in Kinds : Before(k) = {p \in Kinds : Index(p) < Index(k)}
    /\ \A k \in Kinds : From(k) = {LaneOf[p] : p \in {p \in Kinds : Index(p) >= Index(k)}}
    /\ \A k \in Kinds :
          Downstream(k) = {LaneOf[p] : p \in {p \in Kinds : Index(p) > Index(k)}} \ {LaneOf[k]}
    /\ \A k \in Kinds : k = Steps[1] => Before(k) = {}
<1> DEFINE n == Len(Steps)
<1>1. n \in Nat /\ DOMAIN Steps = 1..n
    BY StepsAssumption
<1>2. \A i \in 1..n : Steps[i] \in Kinds /\ Index(Steps[i]) = i
  <2> SUFFICES ASSUME NEW i \in 1..n PROVE Steps[i] \in Kinds /\ Index(Steps[i]) = i
    OBVIOUS
  <2>1. Steps[i] \in Kinds
    BY <1>1 DEF Kinds
  <2>2. Index(Steps[i]) \in DOMAIN Steps /\ Steps[Index(Steps[i])] = Steps[i]
    BY <2>1, Placed
  <2> QED
    BY <1>1, <2>1, <2>2, StepsAssumption
<1> HIDE DEF n
<1>3. \A k \in Kinds : Index(k) \in 1..n /\ Steps[Index(k)] = k
    BY <1>1, Placed
<1>4. ASSUME NEW k \in Kinds PROVE Before(k) = {p \in Kinds : Index(p) < Index(k)}
    BY <1>1, <1>2, <1>3 DEF Before
<1>5. ASSUME NEW k \in Kinds
      PROVE  /\ From(k) = {LaneOf[p] : p \in {p \in Kinds : Index(p) >= Index(k)}}
             /\ Downstream(k) = {LaneOf[p] : p \in {p \in Kinds : Index(p) > Index(k)}} \ {LaneOf[k]}
  <2>1. /\ From(k) = {LaneOf[Steps[i]] : i \in Index(k)..n}
        /\ Downstream(k) = {LaneOf[Steps[i]] : i \in (Index(k) + 1)..n} \ {LaneOf[k]}
    BY DEF From, Downstream, n
  <2>2. Index(k) \in 1..n
    BY <1>3
  <2>3. {Steps[i] : i \in Index(k)..n} = {p \in Kinds : Index(p) >= Index(k)}
    BY <1>1, <1>2, <1>3, <2>2
  <2>4. {Steps[i] : i \in (Index(k) + 1)..n} = {p \in Kinds : Index(p) > Index(k)}
    BY <1>1, <1>2, <1>3, <2>2
  <2>5. /\ {LaneOf[Steps[i]] : i \in Index(k)..n} = {LaneOf[p] : p \in {Steps[i] : i \in Index(k)..n}}
        /\ {LaneOf[Steps[i]] : i \in (Index(k) + 1)..n}
              = {LaneOf[p] : p \in {Steps[i] : i \in (Index(k) + 1)..n}}
    BY Zenon
  <2> QED
    BY <2>1, <2>3, <2>4, <2>5
<1>6. ASSUME NEW k \in Kinds, k = Steps[1] PROVE Before(k) = {}
  <2>1. Index(k) = 1
    BY <1>2, <1>3, <1>6, <1>1
  <2> QED
    BY <1>3, <1>4, <2>1
<1>7. \A k, m \in Kinds : Index(k) = Index(m) => k = m
    BY <1>3
<1> QED
    BY <1>1, <1>3, <1>4, <1>5, <1>6, <1>7 DEF Lanes

\* The normalization and its neighbours.
LEMMA Shape ==
    /\ Phase1 \in Kinds /\ Profile \in Kinds /\ Phase2 \in Kinds /\ Stage \in Kinds
    /\ Index(Phase1) \in Nat /\ Index(Profile) = Index(Phase1) + 1
    /\ Index(Phase2) = Index(Phase1) + 2
    /\ Phase1 # Phase2 /\ Phase1 # Profile /\ Phase2 # Profile
    /\ LaneOf[Phase1] = Norm /\ LaneOf[Phase2] = Norm /\ Norm \in Lanes
    /\ \A k, m \in Kinds : LaneOf[k] = LaneOf[m] =>
          k = m \/ (k = Phase1 /\ m = Phase2) \/ (k = Phase2 /\ m = Phase1)
    /\ \A k \in Kinds : LaneOf[k] = Norm => k \in {Phase1, Phase2}
    /\ \A k \in Kinds : Index(Phase1) < Index(k) /\ Index(k) <= Index(Phase2) => k \in {Profile, Phase2}
<1>1. /\ Phase1 \in Kinds /\ Profile \in Kinds /\ Phase2 \in Kinds /\ Stage \in Kinds
      /\ Index(Phase1) \in Nat /\ Index(Profile) = Index(Phase1) + 1
      /\ Index(Phase2) = Index(Phase1) + 2
    BY StepsAssumption, Places
<1>2. Phase1 # Phase2 /\ Phase1 # Profile /\ Phase2 # Profile
    BY <1>1
<1>3. LaneOf[Phase1] = Norm /\ LaneOf[Phase2] = Norm /\ Norm \in Lanes
    BY <1>1, StepsAssumption, Places DEF Norm
<1>4. \A k, m \in Kinds : LaneOf[k] = LaneOf[m] =>
          k = m \/ (k = Phase1 /\ m = Phase2) \/ (k = Phase2 /\ m = Phase1)
  <2> SUFFICES ASSUME NEW k \in Kinds, NEW m \in Kinds, LaneOf[k] = LaneOf[m], k # m
               PROVE  (k = Phase1 /\ m = Phase2) \/ (k = Phase2 /\ m = Phase1)
    OBVIOUS
  <2>1. {k, m} = {Phase1, Phase2}
    BY StepsAssumption
  <2> QED
    BY <2>1
<1>5. \A k \in Kinds : LaneOf[k] = Norm => k \in {Phase1, Phase2}
    BY <1>1, <1>3, <1>4
<1>6. \A k \in Kinds : Index(Phase1) < Index(k) /\ Index(k) <= Index(Phase2) => k \in {Profile, Phase2}
    BY <1>1, Places
<1> QED
    BY <1>1, <1>2, <1>3, <1>4, <1>5, <1>6

\* The pinned steps are not of the normalization and do not bind the stage.
LEMMA Pinned == Pair \subseteq Kinds /\ Phase1 \notin Pair /\ Phase2 \notin Pair /\ Stage \notin Pair
    BY StepsAssumption

\* The generations of the pair, as the tracker binds them.
LEMMA PairTyped == ASSUME TypeOK PROVE PairBound \in Generations
    BY Pinned DEF TypeOK, PairBound, Generations

-----------------------------------------------------------------------------
(* Steps. *)

Done(p) == StepDone(p) \/ Refrozen(p)

\* A completion undoes nothing.
LEMMA DoneKept ==
    ASSUME TypeOK, NEW k \in Kinds, NEW v, NEW level, Complete(k, v, level), NEW p \in Kinds, Done(p)
    PROVE  Done(p)'
<1> USE DEF Done, StepDone, Refrozen
<1>1. /\ state' = [state EXCEPT ![LaneOf[k]] = IF k = Phase1 THEN "running" ELSE "passed"]
      /\ LaneOf[k] \in Lanes /\ LaneOf[p] \in Lanes /\ DOMAIN state = Lanes
      /\ phase' = IF k = Phase1 THEN "phase1_complete"
                  ELSE IF k = Phase2 THEN "phase2_complete" ELSE phase
    BY Places, Shape DEF Complete, TypeOK
<1>2. CASE p = Phase1
    BY <1>1, <1>2, Shape
<1>3. CASE p = Phase2
  <2>1. LaneOf[p] = Norm
    BY <1>3, Shape
  <2>2. CASE k = Phase1
    BY <1>1, <1>3, <2>1, <2>2, Shape
  <2>3. CASE k = Phase2
    BY <1>1, <1>3, <2>1, <2>3, Shape
  <2>4. CASE k \notin {Phase1, Phase2}
    <3>1. LaneOf[k] # Norm
      BY <2>4, Shape
    <3> QED
      BY <1>1, <1>3, <2>1, <2>4, <3>1, Shape
  <2> QED
    BY <2>2, <2>3, <2>4
<1>4. CASE p \notin {Phase1, Phase2}
  <2>1. LaneOf[p] # Norm /\ state[LaneOf[p]] = "passed"
    BY <1>4, Shape
  <2> QED
    BY <1>1, <1>4, <2>1, Shape
<1> QED
    BY <1>2, <1>3, <1>4

\* What a gate that was evaluated had before it.
LEMMA Evaluated ==
    ASSUME NEW k \in Kinds, MayEvaluate(k)
    PROVE  \A p \in Before(k) : p \in Kinds /\ StepDone(p)
    BY Places DEF MayEvaluate, Predecessors

\* A gate that has passed.
LEMMA CompleteStep ==
    ASSUME IInv, NEW k \in Kinds, NEW v \in 0..MaxVersion, NEW level, Complete(k, v, level)
    PROVE  IInv'
<1> USE DEF IInv
<1>a. /\ state' = [state EXCEPT ![LaneOf[k]] = IF k = Phase1 THEN "running" ELSE "passed"]
      /\ LaneOf[k] \in Lanes /\ state \in [Lanes -> {"pending", "running", "repairing", "passed", "terminal"}]
      /\ phase' = IF k = Phase1 THEN "phase1_complete"
                  ELSE IF k = Phase2 THEN "phase2_complete" ELSE phase
    BY Places, Shape DEF Complete, TypeOK
<1>b. /\ basis' = [basis EXCEPT ![LaneOf[k]] = PairBound] /\ PairBound \in Generations
      /\ bound' = [bound EXCEPT ![k] = v]
      /\ basis \in [Lanes -> Generations] /\ bound \in [Kinds -> 0..MaxVersion]
    BY PairTyped DEF Complete, TypeOK
<1>c. /\ failure' = failure /\ snapshot' = snapshot /\ observed' = observed /\ exec' = "running"
      /\ repair' = IF repair # None /\ repair.gate = k THEN None ELSE repair
    BY DEF Complete
<1>d. \A p \in Before(k) : p \in Kinds /\ StepDone(p)
    BY Evaluated DEF Complete
<1>1. TypeOK'
  <2>1. confidence' \in [Lanes -> {"low", "medium", "high", None}]
    BY DEF Complete, Levels, TypeOK
  <2> QED
    BY <1>a, <1>b, <1>c, <2>1 DEF TypeOK
<1>2. BothPhases'
    BY <1>a, Shape DEF BothPhases
<1>3. ASSUME NEW g \in Kinds, Ahead(g) PROVE Ahead(g)'
  <2>1. ASSUME NEW p \in Before(g) PROVE StepDone(p)' \/ Refrozen(p)'
    <3>1. p \in Kinds /\ Done(p)
      BY <1>3, Places DEF Ahead, Done
    <3>2. Done(p)'
      BY <3>1, DoneKept
    <3> QED
      BY <3>2 DEF Done
  <2> QED
    BY <2>1 DEF Ahead, Before
<1>4. FailureStands'
    BY <1>3, <1>c, NoneAssumption DEF FailureStands, TypeOK, Failure
<1>5. ArchiveStands'
    BY <1>c DEF ArchiveStands
<1>6. RepairStands'
  <2> SUFFICES ASSUME repair' # None PROVE RepairStands'
    BY DEF RepairStands
  <2>1. /\ repair' = repair /\ repair # None /\ repair.gate \in Kinds /\ repair.gate # k
        /\ failure # None /\ repair.gate = failure.gate /\ repair.seen = failure.seen
    BY <1>c DEF RepairStands, TypeOK, Failure
  <2>g. PICK g \in Kinds : g = repair.gate
    BY <2>1
  <2>2. /\ ~StepDone(g)
        /\ g \in {Phase1, Phase2} => state[Norm] # "passed"
        /\ g \in {Profile, Phase2} => phase = "phase1_complete" /\ state[Norm] = "running"
        /\ PendingDependents(g)
    BY <2>1, <2>g DEF RepairStands
  <2>3. g \in Kinds /\ k # g /\ Index(k) < Index(g)
    <3>1. g \notin Before(k)
      BY <1>d, <2>2
    <3> QED
      BY <2>1, <2>g, <3>1, Places
  <2>4. k # Phase2 \/ g \notin {Phase1, Profile}
    BY <2>3, Shape
  <2>5. LaneOf[k] = LaneOf[g] => k = Phase1 /\ g = Phase2
    BY <2>3, Shape
  <2>6. ~StepDone(g)'
    <3>1. CASE g = Phase1
      BY <1>a, <2>2, <2>3, <2>4, <3>1, Shape DEF StepDone
    <3>2. CASE g # Phase1 /\ LaneOf[k] # LaneOf[g]
      BY <1>a, <2>2, <2>3, <3>2, Places DEF StepDone
    <3>3. CASE g # Phase1 /\ LaneOf[k] = LaneOf[g]
      BY <1>a, <2>5, <3>3 DEF StepDone
    <3> QED
      BY <3>1, <3>2, <3>3
  <2>7. g \in {Phase1, Phase2} => state'[Norm] # "passed"
    BY <1>a, <2>2, <2>3, <2>4, <2>5, Shape
  <2>8. g \in {Profile, Phase2} => phase' = "phase1_complete" /\ state'[Norm] = "running"
    BY <1>a, <2>2, <2>3, <2>4, Shape
  <2>9. PendingDependents(g)'
    <3> SUFFICES ASSUME NEW l \in Downstream(g)
                 PROVE  \/ state'[l] = "pending"
                        \/ g = Profile /\ l = Norm /\ state'[l] = "running" /\ phase' = "phase1_complete"
      BY DEF PendingDependents, Downstream
    <3>1. PICK m \in Kinds : l = LaneOf[m] /\ Index(m) > Index(g) /\ l # LaneOf[g]
      BY <2>3, Places
    <3>2. \/ state[l] = "pending"
          \/ g = Profile /\ l = Norm /\ state[l] = "running" /\ phase = "phase1_complete"
      BY <2>2 DEF PendingDependents
    <3>3. LaneOf[k] = l => k = Phase1 /\ m = Phase2
      BY <2>3, <3>1, Shape, Places
    <3>4. CASE LaneOf[k] = l
      <4>1. k = Phase1 /\ m = Phase2 /\ g # Phase2
        BY <3>1, <3>3, <3>4
      <4>2. g = Profile
        BY <2>3, <3>1, <4>1, Shape, Places
      <4> QED
        BY <2>8, <3>1, <4>1, <4>2, Shape
    <3>5. CASE LaneOf[k] # l
      BY <1>a, <2>8, <3>1, <3>2, <3>5, Places
    <3> QED
      BY <3>4, <3>5
  <2> QED
    BY <1>c, <2>1, <2>g, <2>6, <2>7, <2>8, <2>9 DEF RepairStands
<1>7. PassedOnCurrentPair'
  <2> SUFFICES ASSUME NEW l \in Lanes, state'[l] = "passed", NEW p \in Upstream(l)
               PROVE  basis'[l][p] = bound'[p]
    BY DEF PassedOnCurrentPair, Upstream
  <2>1. p \in Pair /\ p \in Kinds
    BY Pinned DEF Upstream
  <2>2. PICK m \in Kinds : LaneOf[m] = l /\ p \in Before(m)
    BY DEF Upstream
  <2>3. Index(p) < Index(m)
    BY <2>1, <2>2, Places
  <2>4. CASE l = LaneOf[k]
    <3>1. p # k
      <4>1. p = k => p = m \/ {p, m} = {Phase1, Phase2}
        BY <2>1, <2>2, <2>4, Shape
      <4> QED
        BY <2>1, <2>3, <4>1, Pinned, Places
    <3> QED
      BY <1>b, <2>1, <2>4, <3>1 DEF PairBound
  <2>5. CASE l # LaneOf[k]
    <3>1. state[l] = "passed"
      BY <1>a, <2>5
    <3>2. basis[l][p] = bound[p]
      BY <3>1 DEF PassedOnCurrentPair
    <3>3. p = k => v = bound[k]
      <4> SUFFICES ASSUME p = k, v # bound[k] PROVE FALSE
        OBVIOUS
      <4>1. l \in Downstream(k)
        BY <2>1, <2>2, <2>3, <2>5, Places
      <4>2. PendingDependents(k)
        BY DEF Complete
      <4> QED
        BY <3>1, <4>1, <4>2 DEF PendingDependents
    <3> QED
      BY <1>b, <2>1, <2>5, <3>2, <3>3
  <2> QED
    BY <2>4, <2>5
<1>8. PassedInOrder'
  <2> SUFFICES ASSUME failure = None, NEW m \in Kinds, state'[LaneOf[m]] = "passed", NEW p \in Before(m)
               PROVE  Done(p)'
    BY <1>c DEF PassedInOrder, Before, Done
  <2>0. p \in Kinds /\ Index(p) < Index(m)
    BY Places
  <2>1. Done(p)
    <3>1. CASE LaneOf[m] = LaneOf[k]
      <4>1. k # Phase1
        BY <1>a, <3>1
      <4>2. m = k \/ (m = Phase1 /\ k = Phase2)
        BY <3>1, <4>1, Shape
      <4>3. p \in Before(k)
        BY <2>0, <4>2, Shape, Places
      <4> QED
        BY <1>d, <4>3 DEF Done
    <3>2. CASE LaneOf[m] # LaneOf[k]
      <4>1. state[LaneOf[m]] = "passed"
        BY <1>a, <3>2, Places
      <4> QED
        BY <4>1 DEF PassedInOrder, Done
    <3> QED
      BY <3>1, <3>2
  <2> QED
    BY <2>0, <2>1, DoneKept
<1>9. QualifiedForPublication'
    BY <1>c DEF QualifiedForPublication
<1> QED
    BY <1>1, <1>2, <1>4, <1>5, <1>6, <1>7, <1>8, <1>9

\* A failing gate.
LEMMA RecordFailureStep ==
    ASSUME IInv, NEW k \in Kinds, NEW g \in Kinds, NEW s \in Signatures, NEW t \in BOOLEAN,
           RecordFailure(k, g, s, t)
    PROVE  IInv'
<1> USE DEF IInv
<1>a. /\ failure' = [gate |-> g, sig |-> s, terminal |-> t, seen |-> observed + 1, archived |-> FALSE]
      /\ state' = [state EXCEPT ![LaneOf[g]] = IF t THEN "terminal" ELSE "repairing"]
      /\ confidence' = [confidence EXCEPT ![LaneOf[g]] = "low"]
      /\ exec' = IF t THEN "STOPPED" ELSE exec
      /\ exec # "publication_queued" \/ t
      /\ exec \notin Terminal
      /\ repair' = None /\ observed' = observed + 1 /\ observed < MaxFailures
      /\ phase' = phase /\ bound' = bound /\ basis' = basis /\ snapshot' = snapshot
    BY DEF RecordFailure, Recordable
<1>b. state \in [Lanes -> {"pending", "running", "repairing", "passed", "terminal"}] /\ LaneOf[g] \in Lanes
    BY Places DEF TypeOK
<1>c. failure' \in Failure /\ failure' # None
  <2>1. observed + 1 \in Nat
    BY VersionsAssumption DEF TypeOK
  <2>2. failure' \in Failure
    BY <1>a, <2>1 DEF Failure
  <2> QED
    BY <2>2, NoneAssumption
<1>1. TypeOK'
  <2>1. exec' \in {"queued", "running", "publication_queued"} \cup Terminal
    BY <1>a DEF TypeOK, Terminal
  <2>2. state' \in [Lanes -> {"pending", "running", "repairing", "passed", "terminal"}]
    BY <1>a, <1>b
  <2>3. observed' \in 0..MaxFailures
    BY <1>a, VersionsAssumption DEF TypeOK
  <2>4. confidence' \in [Lanes -> {"low", "medium", "high", None}]
    BY <1>a DEF TypeOK
  <2> QED
    BY <1>a, <1>c, <2>1, <2>2, <2>3, <2>4 DEF TypeOK
<1>2. BothPhases'
    BY <1>a, <1>b DEF BothPhases
<1>3. FailureStands'
  <2> SUFFICES ASSUME NEW p \in Before(g) PROVE Done(p)'
    BY <1>a DEF FailureStands, Ahead, Before, Done
  <2>1. p \in Kinds /\ Index(p) < Index(g)
    BY Places
  <2>2. StepDone(p)
    <3>1. Predecessors(k) /\ (g = k \/ g \in Before(k))
      BY DEF RecordFailure
    <3>2. p \in Before(k)
      BY <2>1, <3>1, Places
    <3> QED
      BY <3>1, <3>2 DEF Predecessors
  <2>3. p = Phase1 \/ LaneOf[p] # LaneOf[g]
    <3>1. LaneOf[p] = LaneOf[g] => p = g \/ p = Phase1 \/ (p = Phase2 /\ g = Phase1)
      BY <2>1, Shape
    <3>2. p # g /\ ~(p = Phase2 /\ g = Phase1)
      BY <2>1, Shape, Places
    <3> QED
      BY <3>1, <3>2
  <2>4. StepDone(p)'
    BY <1>a, <1>b, <2>1, <2>2, <2>3, Places DEF StepDone
  <2> QED
    BY <2>4 DEF Done
<1>4. ArchiveStands' /\ RepairStands'
    BY <1>a DEF ArchiveStands, RepairStands
<1>5. PassedOnCurrentPair'
    BY <1>a, <1>b DEF PassedOnCurrentPair, Upstream
<1>6. PassedInOrder'
    BY <1>c DEF PassedInOrder
<1>7. QualifiedForPublication'
    BY <1>a DEF QualifiedForPublication, Terminal
<1> QED
    BY <1>1, <1>2, <1>3, <1>4, <1>5, <1>6, <1>7

\* The archival of the failed evidence.
LEMMA SnapshotStep ==
    ASSUME IInv, SnapshotFailure
    PROVE  IInv'
<1> USE DEF IInv
<1>a. /\ failure \in Failure /\ failure # None /\ snapshot' = failure
      /\ failure' = [failure EXCEPT !.archived = TRUE]
      /\ exec' = exec /\ state' = state /\ confidence' = confidence /\ phase' = phase
      /\ bound' = bound /\ basis' = basis /\ repair' = repair /\ observed' = observed
    BY DEF SnapshotFailure, TypeOK
<1>b. /\ failure' \in Failure /\ failure' # None /\ failure'.gate = failure.gate
      /\ failure'.seen = failure.seen
    BY <1>a, NoneAssumption DEF Failure
<1>1. TypeOK'
    BY <1>a, <1>b DEF TypeOK
<1>2. BothPhases' /\ FailureStands'
    BY <1>a, <1>b DEF BothPhases, FailureStands, Ahead, Before, StepDone, Refrozen
<1>3. ArchiveStands'
    BY <1>a, <1>b, NoneAssumption DEF ArchiveStands
<1>4. RepairStands'
    BY <1>a, <1>b DEF RepairStands, StepDone, PendingDependents
<1>5. PassedOnCurrentPair' /\ PassedInOrder'
    BY <1>a, <1>b DEF PassedOnCurrentPair, Upstream, PassedInOrder
<1>6. QualifiedForPublication'
    BY <1>a DEF QualifiedForPublication
<1> QED
    BY <1>1, <1>2, <1>3, <1>4, <1>5, <1>6

\* The invalidation that starts a repair.
LEMMA BeginRepairStep ==
    ASSUME IInv, BeginRepair
    PROVE  IInv'
<1> USE DEF IInv
<1>0. PICK g \in Kinds : g = failure.gate
    BY DEF BeginRepair, TypeOK, Failure
<1> DEFINE frozen == Index(Phase1) < Index(g) /\ Index(g) <= Index(Phase2)
<1>a. /\ failure \in Failure /\ failure # None /\ g = failure.gate
      /\ exec = "running" /\ exec' = exec /\ bound' = bound /\ basis' = basis
      /\ failure' = failure /\ snapshot' = snapshot /\ observed' = observed /\ repair' = failure
    BY <1>0 DEF BeginRepair, TypeOK
<1>b. /\ state' = [l \in Lanes |->
                 IF l = Norm /\ frozen THEN "running"
                 ELSE IF l \notin From(g) THEN state[l]
                 ELSE IF l = LaneOf[g] THEN "repairing" ELSE "pending"]
      /\ confidence' = [l \in Lanes |->
                 IF l \notin From(g) THEN confidence[l]
                 ELSE IF l = LaneOf[g] THEN "low" ELSE None]
      /\ phase' = CASE Index(g) <= Index(Phase1) -> None
                    [] frozen -> "phase1_complete"
                    [] OTHER -> phase
    BY <1>0 DEF BeginRepair
<1>c. frozen <=> g \in {Profile, Phase2}
    BY <1>a, Shape
<1>d. Index(g) \in Nat /\ LaneOf[g] \in Lanes /\ LaneOf[g] \in From(g)
    BY <1>a, Places
<1> HIDE DEF frozen
<1>e. ASSUME NEW l \in Lanes
      PROVE  /\ l = Norm /\ frozen => state'[l] = "running"
             /\ ~(l = Norm /\ frozen) /\ l \notin From(g) => state'[l] = state[l]
             /\ ~(l = Norm /\ frozen) /\ l \in From(g) =>
                   state'[l] = IF l = LaneOf[g] THEN "repairing" ELSE "pending"
    BY <1>b
<1>f. /\ Index(g) <= Index(Phase1) => phase' = None
      /\ frozen => phase' = "phase1_complete"
      /\ ~frozen /\ Index(Phase1) < Index(g) => phase' = phase
    BY <1>b, <1>d, Shape DEF frozen
<1>g. Index(g) <= Index(Phase1) => Norm \in From(g) /\ ~frozen
    BY <1>a, <1>d, Shape, Places DEF frozen
<1>h. \A l \in Lanes : state'[l] = "passed" => state[l] = "passed" /\ l \notin From(g)
    BY <1>e
<1>1. TypeOK'
  <2>1. state' \in [Lanes -> {"pending", "running", "repairing", "passed", "terminal"}]
    BY <1>b DEF TypeOK
  <2>2. confidence' \in [Lanes -> {"low", "medium", "high", None}]
    BY <1>b DEF TypeOK
  <2>3. phase' \in {"phase1_complete", "phase2_complete", None}
    BY <1>b DEF TypeOK
  <2> QED
    BY <1>a, <2>1, <2>2, <2>3 DEF TypeOK
<1>2. BothPhases'
  <2> SUFFICES ASSUME state'[Norm] = "passed" PROVE phase' = "phase2_complete"
    BY DEF BothPhases
  <2>1. state[Norm] = "passed" /\ Norm \notin From(g) /\ ~frozen
    BY <1>e, <1>h, Shape
  <2>2. Index(Phase1) < Index(g)
    BY <1>d, <1>g, <2>1, Shape
  <2> QED
    BY <1>f, <2>1, <2>2 DEF BothPhases
<1>3. FailureStands'
  <2> SUFFICES ASSUME NEW p \in Before(g) PROVE Done(p)'
    BY <1>a DEF FailureStands, Ahead, Before, Done
  <2>1. p \in Kinds /\ Index(p) < Index(g)
    BY <1>a, Places
  <2>2. Done(p)
    BY <1>a DEF FailureStands, Ahead, Done
  <2>3. CASE p = Phase1
    <3>1. StepDone(p)
      BY <2>2, <2>3, Shape DEF Done, Refrozen
    <3>2. StepDone(p)'
      BY <1>f, <2>1, <2>3, <3>1 DEF StepDone
    <3> QED
      BY <3>2 DEF Done
  <2>4. CASE p # Phase1
    <3>1. LaneOf[p] \notin From(g) /\ LaneOf[p] \in Lanes
      <4>1. ASSUME NEW m \in Kinds, Index(m) >= Index(g), LaneOf[m] = LaneOf[p] PROVE FALSE
        BY <1>a, <2>1, <2>4, <4>1, Shape, Places
      <4> QED
        BY <1>a, <2>1, <4>1, Places
    <3>2. ~frozen \/ LaneOf[p] # Norm
      BY <1>c, <2>1, <2>4, Shape
    <3>3. state'[LaneOf[p]] = state[LaneOf[p]]
      BY <1>e, <3>1, <3>2
    <3>4. p = Phase2 => phase' = phase
      BY <1>d, <1>f, <2>1, <3>2, Shape
    <3> QED
      BY <2>2, <2>4, <3>3, <3>4, Shape DEF Done, StepDone, Refrozen
  <2> QED
    BY <2>3, <2>4
<1>4. ArchiveStands'
    BY <1>a DEF ArchiveStands
<1>5. RepairStands'
  <2>1. ~StepDone(g)'
    <3>1. CASE g = Phase1
      <4>1. phase' = None
        BY <1>f, <3>1, Shape
      <4> QED
        BY <3>1, <4>1, NoneAssumption DEF StepDone
    <3>2. CASE g # Phase1
      <4>1. state'[LaneOf[g]] # "passed"
        BY <1>d, <1>e
      <4> QED
        BY <3>2, <4>1 DEF StepDone
    <3> QED
      BY <3>1, <3>2
  <2>2. g \in {Phase1, Phase2} => state'[Norm] # "passed"
    BY <1>d, <1>e, Shape
  <2>3. g \in {Profile, Phase2} => phase' = "phase1_complete" /\ state'[Norm] = "running"
    BY <1>c, <1>e, <1>f, Shape
  <2>4. PendingDependents(g)'
    <3> SUFFICES ASSUME NEW l \in Downstream(g)
                 PROVE  \/ state'[l] = "pending"
                        \/ g = Profile /\ l = Norm /\ state'[l] = "running" /\ phase' = "phase1_complete"
      BY <1>a DEF PendingDependents, Downstream
    <3>1. PICK m \in Kinds : l = LaneOf[m] /\ Index(m) > Index(g) /\ l # LaneOf[g]
      BY <1>a, Places
    <3>2. l \in From(g) /\ l \in Lanes
      BY <1>a, <1>d, <3>1, Places
    <3>3. CASE l = Norm /\ frozen
      <4>1. g = Profile
        BY <1>c, <3>1, <3>3, Shape
      <4> QED
        BY <2>3, <3>3, <4>1
    <3>4. CASE ~(l = Norm /\ frozen)
      BY <1>e, <3>1, <3>2, <3>4
    <3> QED
      BY <3>3, <3>4
  <2> QED
    BY <1>a, <2>1, <2>2, <2>3, <2>4 DEF RepairStands
<1>6. PassedOnCurrentPair'
    BY <1>a, <1>h DEF PassedOnCurrentPair, Upstream
<1>7. PassedInOrder'
    BY <1>a DEF PassedInOrder
<1>8. QualifiedForPublication'
    BY <1>a DEF QualifiedForPublication
<1> QED
    BY <1>1, <1>2, <1>3, <1>4, <1>5, <1>6, <1>7, <1>8

\* The stage that a complete proof binds does not concern the pair.
LEMMA StageBound ==
    ASSUME TypeOK, NEW v \in 0..MaxVersion, Ready(v)
    PROVE  /\ bound' \in [Kinds -> 0..MaxVersion]
           /\ \A p \in Pair : bound'[p] = bound[p]
           /\ snapshot' = snapshot /\ observed' = observed
    BY Shape, Pinned DEF TypeOK, Ready

\* The transitions that find every lane ready.
LEMMA AllLanesReadyStep ==
    ASSUME IInv, NEW v \in 0..MaxVersion, NEW level, AllLanesReady(v, level)
    PROVE  IInv'
<1> USE DEF IInv
<1>a. /\ bound' \in [Kinds -> 0..MaxVersion] /\ \A p \in Pair : bound'[p] = bound[p]
      /\ snapshot' = snapshot /\ observed' = observed
    BY StageBound DEF AllLanesReady
<1>b. /\ state' = [l \in Lanes |-> "passed"] 
      /\ level \in Levels(LaneOf[Profile])
      /\ confidence' = [l \in Lanes |-> IF l = LaneOf[Profile] THEN level ELSE "high"]
      /\ phase' = "phase2_complete" /\ basis' = [l \in Lanes |-> PairBound]
      /\ failure' = None /\ repair' = None /\ exec' = "running"
    BY DEF AllLanesReady
<1>1. TypeOK'
  <2>1. confidence' \in [Lanes -> {"low", "medium", "high", None}]
    BY <1>b DEF Levels
  <2> QED
    BY <1>a, <1>b, <2>1, PairTyped DEF TypeOK
<1>2. BothPhases' /\ FailureStands' /\ ArchiveStands' /\ RepairStands'
    BY <1>b DEF BothPhases, FailureStands, ArchiveStands, RepairStands
<1>3. PassedOnCurrentPair'
    BY <1>a, <1>b DEF PassedOnCurrentPair, Upstream, PairBound
<1>4. PassedInOrder'
  <2>1. ASSUME NEW k \in Kinds, NEW p \in Before(k) PROVE StepDone(p)'
    <3>1. LaneOf[p] \in Lanes
      BY Places
    <3> QED
      BY <1>b, <3>1 DEF StepDone
  <2> QED
    BY <2>1 DEF PassedInOrder, Before
<1>5. QualifiedForPublication'
    BY <1>b DEF QualifiedForPublication
<1> QED
    BY <1>1, <1>2, <1>3, <1>4, <1>5

\* The transitions of a qualified tracker.
LEMMA QualifiedStep ==
    ASSUME IInv, NEW v \in 0..MaxVersion, Enqueue(v) \/ Promoted(v)
    PROVE  IInv'
<1> USE DEF IInv
<1>a. /\ bound' \in [Kinds -> 0..MaxVersion] /\ \A p \in Pair : bound'[p] = bound[p]
      /\ snapshot' = snapshot /\ observed' = observed
    BY StageBound DEF Enqueue, Promoted
<1>b. /\ state' = state /\ confidence' = confidence /\ phase' = phase /\ basis' = basis
      /\ failure' = failure /\ repair' = repair /\ exec' \in {"publication_queued", "PROMOTED"}
      /\ failure = None /\ AllPassed
    BY DEF Enqueue, Promoted
<1>1. TypeOK'
    BY <1>a, <1>b DEF TypeOK, Terminal
<1>2. BothPhases' /\ FailureStands' /\ ArchiveStands'
    BY <1>b DEF BothPhases, FailureStands, ArchiveStands
<1>3. RepairStands'
    BY <1>b DEF RepairStands
<1>4. PassedOnCurrentPair'
    BY <1>a, <1>b DEF PassedOnCurrentPair, Upstream
<1>5. PassedInOrder'
    BY <1>b DEF PassedInOrder, StepDone, Refrozen, Before
<1>6. QualifiedForPublication'
  <2>1. state[Norm] = "passed"
    BY <1>b, Shape DEF AllPassed
  <2> QED
    BY <1>b, <2>1 DEF QualifiedForPublication, AllPassed, Levels, BothPhases
<1> QED
    BY <1>1, <1>2, <1>3, <1>4, <1>5, <1>6

-----------------------------------------------------------------------------
(* Theorems. *)

\* The invariant holds in every reachable state.
THEOREM InvariantCorrect == Spec => []IInv
<1>1. Init => IInv
  <2> SUFFICES ASSUME Init PROVE IInv
    OBVIOUS
  <2> USE DEF Init
  <2>1. TypeOK
    <3>1. 0 \in 0..MaxVersion /\ 0 \in 0..MaxFailures
      BY VersionsAssumption
    <3>2. basis \in [Lanes -> Generations]
      BY <3>1 DEF Generations
    <3> QED
      BY <3>1, <3>2 DEF TypeOK
  <2>2. BothPhases
    BY Shape DEF BothPhases
  <2>3. FailureStands /\ ArchiveStands /\ RepairStands
    BY DEF FailureStands, ArchiveStands, RepairStands
  <2>4. PassedOnCurrentPair
    BY DEF PassedOnCurrentPair
  <2>5. PassedInOrder
    BY Places DEF PassedInOrder
  <2>6. QualifiedForPublication
    BY DEF QualifiedForPublication
  <2> QED
    BY <2>1, <2>2, <2>3, <2>4, <2>5, <2>6 DEF IInv
<1>2. IInv /\ [Next]_vars => IInv'
  <2> SUFFICES ASSUME IInv, [Next]_vars PROVE IInv'
    OBVIOUS
  <2>1. CASE UNCHANGED vars
    BY <2>1 DEF IInv, vars, TypeOK, BothPhases, FailureStands, Ahead, ArchiveStands, RepairStands,
                PassedOnCurrentPair, PassedInOrder, QualifiedForPublication, AllPassed, Levels, StepDone,
                Refrozen, PendingDependents, Upstream, Before, Downstream
  <2>2. CASE Next
    BY <2>2, CompleteStep, RecordFailureStep, SnapshotStep, BeginRepairStep, AllLanesReadyStep,
       QualifiedStep DEF Next, Clear, Resume
  <2> QED
    BY <2>1, <2>2
<1> QED
  BY <1>1, <1>2, PTL DEF Spec

\* Every reachable tracker has the values that validate_tracker accepts.
THEOREM TypeCorrect == Spec => []TypeOK
<1>1. IInv => TypeOK
  BY DEF IInv
<1> QED
  BY <1>1, InvariantCorrect, PTL

\* Whatever was completed again, failed, repaired or cleared: what passed is not
\* stale, and not ahead of what it was built from (LaneNotes.complete).
THEOREM PassedCorrect == Spec => []PassedStands
<1>1. IInv => PassedStands
  BY DEF IInv, PassedStands
<1> QED
  BY <1>1, InvariantCorrect, PTL

\* Only a fully qualified tracker waits for publication or is promoted
\* (validate_tracker, ReadyTransitions).
THEOREM QualifiedCorrect == Spec => []QualifiedForPublication
<1>1. IInv => QualifiedForPublication
  BY DEF IInv
<1> QED
  BY <1>1, InvariantCorrect, PTL

\* The invalidation that begins a repair lets its gate pass again, whatever
\* comes before it passes again meanwhile (FailureSnapshots.begin_repair).
THEOREM RepairCorrect == Spec => []RepairCanFinish
<1>1. IInv => RepairCanFinish
  <2> SUFFICES ASSUME IInv, repair # None PROVE RepairCanFinish
    BY DEF RepairCanFinish
  <2>1. /\ failure # None /\ repair.gate = failure.gate /\ repair.seen = failure.seen
        /\ PendingDependents(repair.gate)
    BY DEF IInv, RepairStands
  <2>2. Ahead(repair.gate)
    BY <2>1 DEF IInv, FailureStands
  <2> QED
    BY <2>1, <2>2 DEF RepairCanFinish, Ahead
<1> QED
  BY <1>1, InvariantCorrect, PTL

\* A repair begins only from an archive of the latest observation of its failure,
\* however often its signature came back (begin_repair).
THEOREM ArchiveCorrect == Spec => RepairFromCurrentArchive
<1>1. IInv /\ [Next]_vars =>
        [repair' # repair /\ repair' # None =>
          snapshot # None /\ snapshot.seen = failure.seen]_vars
  <2> SUFFICES ASSUME IInv, Next, repair' # repair, repair' # None
               PROVE  snapshot # None /\ snapshot.seen = failure.seen
    BY DEF vars
  <2>1. BeginRepair
    BY DEF Next, Complete, RecordFailure, SnapshotFailure, Clear, Resume, AllLanesReady, Enqueue,
           Promoted
  <2> QED
    BY <2>1 DEF IInv, ArchiveStands, BeginRepair, Archived
<1> QED
  BY <1>1, InvariantCorrect, PTL DEF Spec, RepairFromCurrentArchive
=============================================================================

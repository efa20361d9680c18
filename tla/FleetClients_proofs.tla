------------------------- MODULE FleetClients_proofs -------------------------
(***************************************************************************)
(* Proofs about the programs under the ledger, for any jobs, strays and    *)
(* reconciliations: every step of theirs is a step of the ledger or none,  *)
(* so that what holds of the ledger holds of them; a child lives only      *)
(* under its claim, and the ledger tells the truth about what runs.        *)
(*                                                                         *)
(* The invariant adds where a job's controller and its child may be at the *)
(* same time (Stage) and what the sending of a request implies for as long *)
(* as it may be served, its sender dead or not (Sent).                     *)
(***************************************************************************)
EXTENDS FleetClients, FleetCoordinator_proofs

USE DEF Operations, history, Collected

Request ==
    [job : Jobs, by : {"controller", "child", "gone"}, name : Controller,
     stale : BOOLEAN, op : Operations \cup {None}]

\* The requests that a child waits for.
Asking == {"begin", "status", "heartbeat", "end", "uncertain"}

\* Where the controller and the child of job j may be at the same time.
Stage(j) ==
    /\ phase[j] \in {"absent", "queued", "claim", "begin", "wait", "hold"} => child[j] = "none"
    /\ j \in Workers => phase[j] \notin {"begin", "wait", "end", "uncertain", "hold"}
    /\ phase[j] = "run" \/ (j \in Workers /\ phase[j] \in {"heartbeat", "status"})
        => child[j] # "none"
    /\ phase[j] \in {"end", "uncertain", "finish"} => ~ChildAlive(j)
    /\ j \notin Workers /\ phase[j] \in {"end", "finish"} => child[j] = "exited"
    /\ j \notin Workers /\ child[j] = "exited" => OperationsOf[j] \subseteq persisted
    /\ child[j] \in Asking \cup {"dispatch"} => j \in Workers /\ call[j] \in OperationsOf[j]
    /\ child[j] \in {"dispatch", "end", "uncertain"} => operations[call[j]] # None

Stages == \A j \in Jobs : Stage(j)

\* What holds of a request until it is served, whoever still waits for it.
Sent(r) ==
    /\ r.name \in {"begin", "end", "uncertain"} => r.op \in OperationsOf[r.job]
    /\ r.by = "child" =>
        /\ r.name = child[r.job] /\ r.name \in Asking
        /\ r.op = call[r.job] /\ r.op # None /\ r.stale = FALSE
    /\ r.name = "end" =>
        /\ r.op \in persisted /\ r.op \notin inflight
        /\ r.op \in ModelOps => operations[r.op] # None
        /\ r.job \notin Workers => child[r.job] = "exited"
    /\ r.name = "finish" /\ r.job \in Collectors => child[r.job] = "exited"

AllSent == \A r \in requests : Sent(r)

\* A claim was granted for the workbook of its job.
GrantedToJob ==
    \A j \in Jobs : claims[ClaimOf[j]] # None => claims[ClaimOf[j]].workbook = WorkbookOf[j]

Truth == GrantedToJob /\ ChildHoldsClaim /\ EffectsCounted /\ ConfirmedIsRetained

ClientsInv ==
    /\ TypeInv /\ EffectsInv
    /\ ClientsTypeOK /\ Stages /\ AllSent
    /\ Truth
-----------------------------------------------------------------------------
(* Jobs and their operations. *)

LEMMA JobTypes ==
    /\ \A j \in Jobs : ClaimOf[j] \in Claims /\ WorkbookOf[j] \in Workbooks /\ OwnerOf[j] \in Owners
    /\ \A j \in Jobs : OperationsOf[j] \subseteq Operations
    /\ \A j \in Workers : OperationsOf[j] \subseteq ModelOps
    /\ \A j \in Jobs \ Workers : PublicationOf(j) \in PublicationOps /\ OperationsOf[j] = {PublicationOf(j)}
    /\ Workers \subseteq Jobs /\ Collectors \subseteq Jobs /\ Workers \cap Collectors = {}
<1>1. ASSUME NEW j \in Jobs \ Workers
      PROVE  PublicationOf(j) \in PublicationOps /\ OperationsOf[j] = {PublicationOf(j)}
  <2>1. PICK p \in PublicationOps : OperationsOf[j] = {p}
    BY ClientsAssumption
  <2>2. PublicationOf(j) = p
    BY <2>1 DEF PublicationOf
  <2> QED
    BY <2>1, <2>2
<1>2. \A j \in Jobs : ClaimOf[j] \in Claims /\ WorkbookOf[j] \in Workbooks /\ OwnerOf[j] \in Owners
  BY ClientsAssumption
<1>3. \A j \in Workers : OperationsOf[j] \subseteq ModelOps
  BY ClientsAssumption
<1>4. Workers \subseteq Jobs /\ Collectors \subseteq Jobs /\ Workers \cap Collectors = {}
  BY ClientsAssumption DEF Jobs
<1>5. \A j \in Jobs : OperationsOf[j] \subseteq Operations
  <2>1. ASSUME NEW j \in Jobs PROVE OperationsOf[j] \subseteq Operations
    <3>1. CASE j \in Workers
      BY <1>3, <3>1
    <3>2. CASE j \notin Workers
      BY <1>1, <3>2
    <3> QED
      BY <3>1, <3>2
  <2> QED
    BY <2>1
<1> QED
  BY <1>1, <1>2, <1>3, <1>4, <1>5

\* The coordinator's answer, by the name of the request.
LEMMA Asked ==
    ASSUME NEW r
    PROVE  /\ r.name = "claim" =>
                /\ Accepts(r) = Claimable(ClaimOf[r.job], WorkbookOf[r.job], OwnerOf[r.job])
                /\ Apply(r) = Claim(ClaimOf[r.job], WorkbookOf[r.job], OwnerOf[r.job])
           /\ r.name = "heartbeat" =>
                /\ Accepts(r) = Owned(ClaimOf[r.job]) /\ Apply(r) = Heartbeat(ClaimOf[r.job])
           /\ r.name = "begin" =>
                /\ Accepts(r) = (Admitted(ClaimOf[r.job], r.op) /\ Unconsumed(r.op)
                                    /\ ~Busy(ClaimOf[r.job], r.op))
                /\ Apply(r) = Begin(ClaimOf[r.job], r.op)
           /\ r.name = "end" => Apply(r) = End(ClaimOf[r.job], r.op, "confirmed")
           /\ r.name = "uncertain" => Apply(r) = End(ClaimOf[r.job], r.op, "uncertain")
           /\ r.name \in {"finish", "hold"} => Apply(r) = Finish(ClaimOf[r.job], Disposition(r))
           /\ r.name = "status" => Apply(r) = UNCHANGED ledger
BY DEF Accepts, Apply
-----------------------------------------------------------------------------
(* The steps of the programs. *)

\* What a step leaves of the operations, the results and the late answers.
Forward ==
    /\ persisted \subseteq persisted'
    /\ \A p \in Operations : operations[p] # None => operations'[p] # None
    /\ \A r \in requests : r.name = "end" => r.op \notin inflight'

\* Requests that were sent before; a caller may have given up.
Known(these) ==
    \A r \in these :
        /\ r \in Request
        /\ r.by = "child" => r \in requests
        /\ \E q \in requests : q.job = r.job /\ q.name = r.name /\ q.op = r.op

Programs ==
    /\ phase \in [Jobs -> Controller \cup Idle \cup {"run", "wait"}]
    /\ child \in [Jobs -> Child \cup {"none", "exited", "failed", "killed"}]
    /\ call \in [Jobs -> ModelOps \cup {None}]
    /\ requests \subseteq Request

Tidy == Programs /\ Stages /\ AllSent

LEMMA KnownRest ==
    ASSUME Programs, NEW these \in SUBSET requests
    PROVE  Known(these)
BY DEF Programs, Known

LEMMA KnownLeft ==
    ASSUME NEW these, Known(these), NEW j, NEW callers \in SUBSET {"controller", "child"},
           NEW left \in Abandoned(j, callers, these)
    PROVE  /\ Known(left)
           /\ \A r \in left : ~(r.job = j /\ r.by \in callers)
           /\ \A r \in left : r.by = "child" => r \in these
<1> DEFINE own == {r \in these : r.job = j /\ r.by \in callers}
<1>1. PICK late \in SUBSET own : left = (these \ own) \cup {[r EXCEPT !.by = "gone"] : r \in late}
  BY DEF Abandoned
<1>2. ASSUME NEW r \in left
      PROVE  r \in these \ own \/ \E q \in these : r = [q EXCEPT !.by = "gone"]
  BY <1>1
<1>3. ASSUME NEW q \in these
      PROVE  LET r == [q EXCEPT !.by = "gone"] IN
                r \in Request /\ r.by = "gone" /\ r.job = q.job /\ r.name = q.name /\ r.op = q.op
  BY DEF Known, Request
<1>4. ASSUME NEW r \in left
      PROVE  /\ r \in Request /\ (r.by = "child" => r \in these) /\ ~(r.job = j /\ r.by \in callers)
             /\ \E q \in these : q.job = r.job /\ q.name = r.name /\ q.op = r.op
  <2>1. CASE r \in these \ own
    BY <2>1 DEF Known
  <2>2. CASE \E q \in these : r = [q EXCEPT !.by = "gone"]
    BY <1>3, <2>2
  <2> QED
    BY <1>2, <2>1, <2>2
<1> QED
  BY <1>4 DEF Known

LEMMA KnownStale ==
    ASSUME NEW these, Known(these), AllSent, NEW left,
           \A r \in left : \E q \in these : \E stale \in BOOLEAN :
                r = [q EXCEPT !.stale = stale] /\ (q.op # None => r = q)
    PROVE  Known(left) /\ \A r \in left : r.by = "child" => r \in these
<1>1. ASSUME NEW r \in left
      PROVE  /\ r \in Request /\ (r.by = "child" => r \in these)
             /\ \E q \in these : q.job = r.job /\ q.name = r.name /\ q.op = r.op
  <2>1. PICK q \in these, stale \in BOOLEAN : r = [q EXCEPT !.stale = stale] /\ (q.op # None => r = q)
    OBVIOUS
  <2>2. /\ q \in Request /\ r \in Request
        /\ r.by = q.by /\ r.job = q.job /\ r.name = q.name /\ r.op = q.op
    BY <2>1 DEF Known, Request
  <2>3. q.by = "child" => q.op # None
    BY DEF Known, AllSent, Sent
  <2> QED
    BY <2>1, <2>2, <2>3
<1> QED
  BY <1>1 DEF Known

\* A request keeps its meaning while its job's child does, whatever else happens.
LEMMA Carried ==
    ASSUME AllSent, Forward, NEW rest, Known(rest), NEW q \in rest,
           q.by = "child" => child'[q.job] = child[q.job] /\ call'[q.job] = call[q.job],
           child[q.job] = "exited" => child'[q.job] = "exited"
    PROVE  q \in Request /\ Sent(q)'
<1>1. PICK p \in requests : p.job = q.job /\ p.name = q.name /\ p.op = q.op
  BY DEF Known
<1>2. Sent(p) /\ q \in Request
  BY DEF AllSent, Known
<1>3. q.by = "child" => Sent(q)
  BY DEF AllSent, Known
<1>4. q.name = "end" =>
        /\ q.op \in persisted' /\ q.op \notin inflight'
        /\ q.op \in ModelOps => operations'[q.op] # None
        /\ q.job \notin Workers => child'[q.job] = "exited"
  BY <1>1, <1>2 DEF Sent, Forward
<1> QED
  BY <1>1, <1>2, <1>3, <1>4 DEF Sent

LEMMA StageCarried ==
    ASSUME Programs, Stages, Forward, NEW i \in Jobs,
           phase'[i] = phase[i], child'[i] = child[i], call'[i] = call[i]
    PROVE  Stage(i)'
<1>1. Stage(i)
  BY DEF Stages
<1>2. call[i] \in OperationsOf[i] => call[i] \in Operations
  BY JobTypes
<1> QED
  BY <1>1, <1>2 DEF Stage, Forward, ChildAlive, Child, Asking

\* What a step changes of job j, and where the requests come from that it leaves.
Moves(j) ==
    /\ phase'[j] \in Controller \cup Idle \cup {"run", "wait"}
    /\ child'[j] \in Child \cup {"none", "exited", "failed", "killed"}
    /\ call'[j] \in ModelOps \cup {None}
    /\ phase' = [phase EXCEPT ![j] = phase'[j]]
    /\ child' = [child EXCEPT ![j] = child'[j]]
    /\ call' = [call EXCEPT ![j] = call'[j]]
    /\ child[j] = "exited" => child'[j] = "exited"

Leaves(j, rest) ==
    /\ Known(rest)
    /\ \A q \in requests' : q \in rest \/ (q \in Request /\ Sent(q)')
    /\ \A q \in rest : q.by = "child" /\ q.job = j => child'[j] = child[j] /\ call'[j] = call[j]

\* A step of one job.
LEMMA JobStep ==
    ASSUME Tidy, Forward, NEW j \in Jobs, Moves(j), Stage(j)', NEW rest, Leaves(j, rest)
    PROVE  Tidy'
<1>1. \A i \in Jobs \ {j} : phase'[i] = phase[i] /\ child'[i] = child[i] /\ call'[i] = call[i]
  BY DEF Moves, Tidy, Programs
<1>2. Stages'
  BY <1>1, StageCarried DEF Tidy, Stages
<1>3. ASSUME NEW q \in rest
      PROVE  q \in Request /\ Sent(q)'
  <2>1. q.job \in Jobs
    BY DEF Leaves, Known, Request
  <2>2. CASE q.job = j
    BY <2>2, Carried DEF Tidy, Leaves, Moves
  <2>3. CASE q.job # j
    BY <1>1, <2>1, <2>3, Carried DEF Tidy, Leaves
  <2> QED
    BY <2>2, <2>3
<1>4. AllSent' /\ requests' \subseteq Request
  BY <1>3 DEF AllSent, Leaves
<1>5. Programs'
  BY <1>4 DEF Moves, Tidy, Programs
<1> QED
  BY <1>2, <1>4, <1>5 DEF Tidy

\* When a controller may ask for what.
MaySend(j, name) ==
    /\ name \in Controller
    /\ name \in {"claim", "begin", "hold"} => child[j] = "none"
    /\ name \in {"begin", "end", "uncertain", "hold"} => j \notin Workers
    /\ name \in {"heartbeat", "status"} /\ j \in Workers => child[j] # "none"
    /\ name \in {"end", "uncertain", "finish"} => ~ChildAlive(j)
    /\ name \in {"end", "finish"} /\ j \notin Workers => child[j] = "exited"

LEMMA ByControllerSent ==
    ASSUME NEW j \in Jobs, NEW name \in Controller,
           name \in {"begin", "end", "uncertain"} => j \notin Workers,
           name \in {"end", "finish"} /\ j \notin Workers => child'[j] = "exited",
           name = "end" => OperationsOf[j] \subseteq persisted', inflight' \subseteq ModelOps,
           NEW r, r = ByController(j, name)
    PROVE  r \in Request /\ Sent(r)'
<1>1. /\ r.job = j /\ r.by = "controller" /\ r.name = name /\ r.stale = FALSE
      /\ name \in {"begin", "end", "uncertain"} => r.op = PublicationOf(j)
      /\ name \notin {"begin", "end", "uncertain"} => r.op = None
  BY DEF ByController
<1>2. name \in {"begin", "end", "uncertain"} =>
        r.op \in OperationsOf[j] /\ r.op \in PublicationOps /\ r.op \notin ModelOps
  BY <1>1, JobTypes, LedgerAssumption
<1>3. r \in Request
  BY <1>1, <1>2 DEF ByController, Request
<1>4. name = "finish" /\ j \in Collectors => child'[j] = "exited"
  BY JobTypes
<1>5. name = "end" => r.op \in persisted' /\ r.op \notin inflight'
  BY <1>2
<1>6. Sent(r)'
  BY <1>1, <1>2, <1>4, <1>5 DEF Sent
<1> QED
  BY <1>3, <1>6

LEMMA SendsStep ==
    ASSUME Tidy, Forward, inflight' \subseteq ModelOps, NEW j \in Jobs, NEW name, MaySend(j, name),
           call' = call, NEW rest, Known(rest), ControllerSends(j, name, rest)
    PROVE  Tidy' /\ child' = child
<1>1. PICK r : r = ByController(j, name) /\ requests' = rest \cup {r}
  BY DEF ControllerSends
<1>2. /\ phase' = [phase EXCEPT ![j] = name] /\ child' = child /\ phase'[j] = name
      /\ Stage(j) /\ name \in Controller
  BY DEF ControllerSends, Tidy, Programs, Stages, MaySend
<1>3. name = "end" => OperationsOf[j] \subseteq persisted'
  BY <1>2 DEF MaySend, Stage, Forward
<1>4. r \in Request /\ Sent(r)'
  BY <1>1, <1>2, <1>3, ByControllerSent DEF MaySend
<1>5. Stage(j)'
  <2>1. call[j] \in OperationsOf[j] => call[j] \in Operations
    BY JobTypes
  <2> QED
    BY <1>2, <2>1 DEF MaySend, Stage, ChildAlive, Forward, Controller, Child, Asking
<1>6. Moves(j)
  BY <1>2 DEF Moves, Tidy, Programs
<1>7. Leaves(j, rest)
  BY <1>1, <1>2, <1>4 DEF Leaves
<1>8. Tidy'
  BY <1>5, <1>6, <1>7, JobStep
<1> QED
  BY <1>2, <1>8

LEMMA BeatsStep ==
    ASSUME Tidy, Forward, inflight' \subseteq ModelOps, NEW j \in Jobs, j \in Workers => child[j] # "none",
           call' = call, NEW rest, Known(rest), Beats(j, rest)
    PROVE  Tidy' /\ child' = child
<1>1. PICK left : /\ left = {[q EXCEPT !.stale = @ \/ (q.job = j /\ q.name = "heartbeat" /\ q.op = None)] : q \in rest}
                  /\ ControllerSends(j, "heartbeat", left)
  BY DEF Beats
<1>2. ASSUME NEW l \in left
      PROVE  \E q \in rest : \E stale \in BOOLEAN :
                  l = [q EXCEPT !.stale = stale] /\ (q.op # None => l = q)
  <2>1. PICK q \in rest : l = [q EXCEPT !.stale = @ \/ (q.job = j /\ q.name = "heartbeat" /\ q.op = None)]
    BY <1>1
  <2>2. q \in Request
    BY DEF Known
  <2>3. q.op # None => l = q
    BY <2>1, <2>2 DEF Request
  <2> QED
    BY <2>1, <2>2, <2>3 DEF Request
<1>3. Known(left)
  BY <1>2, KnownStale DEF Tidy
<1>4. MaySend(j, "heartbeat")
  BY DEF MaySend, Controller
<1> QED
  BY <1>1, <1>3, <1>4, SendsStep

\* The child of a job that fails is terminated.
LEMMA FailsStep ==
    ASSUME Tidy, Forward, inflight' \subseteq ModelOps, NEW j \in Jobs,
           call' = call, NEW rest, Known(rest), Fails(j, rest)
    PROVE  Tidy' /\ \A i \in Jobs : ChildAlive(i)' => ChildAlive(i)
<1> DEFINE name == LastRequest(j)
           y == IF ChildAlive(j) THEN "killed" ELSE child[j]
<1>1. PICK left, r : left \in Abandoned(j, {"child"}, rest) /\
        r = ByController(j, name) /\ requests' = left \cup {r}
  BY DEF Fails
<1>2. /\ phase' = [phase EXCEPT ![j] = name] /\ child' = [child EXCEPT ![j] = y]
      /\ phase'[j] = name /\ child'[j] = y
      /\ \A i \in Jobs \ {j} : child'[i] = child[i]
  BY DEF Fails, Tidy, Programs
<1>3. /\ Stage(j) /\ child[j] \in Child \cup {"none", "exited", "failed", "killed"}
      /\ call[j] \in ModelOps \cup {None}
  BY DEF Tidy, Stages, Programs
<1>4. /\ y \in {"none", "exited", "failed", "killed"}
      /\ child[j] = "exited" => y = "exited"
      /\ y = "exited" => child[j] = "exited"
      /\ y = "none" => child[j] = "none"
      /\ child[j] = "none" => y = "none"
  BY <1>3 DEF ChildAlive, Child
<1>5. /\ j \in Workers => name = "finish"
      /\ j \notin Workers /\ y = "none" => name = "hold"
      /\ j \notin Workers /\ y # "none" => name = "uncertain"
  BY <1>4 DEF LastRequest
<1> HIDE DEF name, y
<1>6. Stage(j)'
  BY <1>2, <1>3, <1>4, <1>5 DEF Stage, ChildAlive, Child, Asking, Forward
<1>7. r \in Request /\ Sent(r)'
  <2>1. name \in Controller /\ name # "end"
    BY <1>5 DEF Controller
  <2> QED
    BY <1>1, <1>5, <2>1, ByControllerSent
<1>8. Leaves(j, left)
  <2>1. Known(left) /\ \A q \in left : ~(q.job = j /\ q.by = "child")
    BY <1>1, KnownLeft
  <2> QED
    BY <1>1, <1>7, <2>1 DEF Leaves
<1>9. Tidy'
  <2>1. Moves(j)
    BY <1>2, <1>3, <1>4, <1>5 DEF Moves, Tidy, Programs, Controller
  <2> QED
    BY <1>6, <1>8, <2>1, JobStep
<1>10. ~ChildAlive(j)'
  BY <1>2, <1>4 DEF ChildAlive, Child
<1>11. ASSUME NEW i \in Jobs, ChildAlive(i)'
       PROVE  ChildAlive(i)
  BY <1>2, <1>10, <1>11 DEF ChildAlive
<1> QED
  BY <1>9, <1>11

LEMMA RaisesStep ==
    ASSUME Tidy, Forward, inflight' \subseteq ModelOps, NEW j \in Jobs, NEW by,
           by = "child" => child[j] \in Asking,
           call' = call \/ (by = "child" /\ call' = [call EXCEPT ![j] = None]),
           NEW rest, Known(rest), Raises(j, by, rest),
           by = "child" => \A q \in rest : ~(q.job = j /\ q.by = "child")
    PROVE  Tidy' /\ \A i \in Jobs : ChildAlive(i)' => ChildAlive(i)
<1>0. /\ Stage(j) /\ child[j] \in Child \cup {"none", "exited", "failed", "killed"}
      /\ call[j] \in ModelOps \cup {None} /\ phase[j] \in Controller \cup Idle \cup {"run", "wait"}
  BY DEF Tidy, Stages, Programs
<1>1. CASE by = "child"
  <2>1. /\ child' = [child EXCEPT ![j] = "failed"] /\ requests' = rest /\ phase' = phase
        /\ child'[j] = "failed"
        /\ \A i \in Jobs \ {j} : child'[i] = child[i]
    BY <1>1 DEF Raises, Tidy, Programs
  <2>2. ChildAlive(j) /\ child[j] # "exited" /\ child[j] # "none"
    BY <1>1 DEF ChildAlive, Child, Asking
  <2>3. Stage(j)'
    BY <1>0, <2>1, <2>2 DEF Stage, ChildAlive, Child, Asking
  <2>4. Moves(j)
    BY <1>0, <2>1, <2>2 DEF Moves, Tidy, Programs
  <2>5. Leaves(j, rest)
    BY <1>1, <2>1 DEF Leaves
  <2>6. Tidy'
    BY <2>3, <2>4, <2>5, JobStep
  <2> QED
    BY <2>1, <2>2, <2>6 DEF ChildAlive
<1>2. CASE by # "child" /\ (phase[j] \in {"claim", "uncertain", "hold"} \/ (phase[j] = "finish" /\ j \in Workers))
  <2>1. /\ phase' = [phase EXCEPT ![j] = "done"] /\ requests' = rest
        /\ child' = child /\ phase'[j] = "done" /\ call' = call
    BY <1>2 DEF Raises, Tidy, Programs
  <2>2. Stage(j)'
    <3>1. call[j] \in OperationsOf[j] => call[j] \in Operations
      BY JobTypes
    <3> QED
      BY <1>0, <2>1, <3>1 DEF Stage, ChildAlive, Forward, Asking
  <2>3. Moves(j) /\ Leaves(j, rest)
    BY <1>0, <2>1 DEF Moves, Leaves, Tidy, Programs, Idle
  <2>4. Tidy'
    BY <2>2, <2>3, JobStep
  <2> QED
    BY <2>1, <2>4 DEF ChildAlive
<1>3. CASE by # "child" /\ ~(phase[j] \in {"claim", "uncertain", "hold"} \/ (phase[j] = "finish" /\ j \in Workers))
  BY <1>3, FailsStep DEF Raises
<1> QED
  BY <1>1, <1>2, <1>3

LEMMA ChildSendsStep ==
    ASSUME Tidy, Forward, NEW j \in Jobs, NEW name \in Asking, child[j] \in Asking \cup {"dispatch"},
           name = "end" => call[j] \in persisted' /\ call[j] \notin inflight',
           name \in {"end", "uncertain"} => operations'[call[j]] # None,
           call' = call, NEW rest, Known(rest), ChildSends(j, name, rest),
           \A q \in rest : ~(q.job = j /\ q.by = "child")
    PROVE  Tidy' /\ \A i \in Jobs : ChildAlive(i)' => ChildAlive(i)
<1>0. PICK r : r = ByChild(j, name) /\ requests' = rest \cup {r}
  BY DEF ChildSends
<1>1. /\ child' = [child EXCEPT ![j] = name] /\ phase' = phase /\ child'[j] = name
      /\ \A i \in Jobs \ {j} : child'[i] = child[i]
  BY DEF ChildSends, Tidy, Programs
<1>2. /\ Stage(j) /\ call[j] \in ModelOps \cup {None}
      /\ phase[j] \in Controller \cup Idle \cup {"run", "wait"}
  BY DEF Tidy, Stages, Programs
<1>3. j \in Workers /\ call[j] \in OperationsOf[j] /\ call[j] \in ModelOps /\ call[j] # None
  BY <1>2, JobTypes, ClientsAssumption DEF Stage
<1>4. ChildAlive(j) /\ name \in Child /\ name \in Controller
  BY DEF ChildAlive, Child, Asking, Controller
<1>5. Stage(j)'
  BY <1>1, <1>2, <1>3, <1>4 DEF Stage, ChildAlive, Child, Asking
<1>6. /\ r.job = j /\ r.by = "child" /\ r.name = name /\ r.stale = FALSE /\ r.op = call[j]
      /\ r \in Request
  BY <1>0, <1>3, <1>4 DEF ByChild, Request
<1>7. Sent(r)'
  BY <1>1, <1>3, <1>6 DEF Sent, Asking
<1>8. Leaves(j, rest)
  BY <1>0, <1>6, <1>7 DEF Leaves
<1>9. Moves(j)
  BY <1>1, <1>2, <1>4 DEF Moves, Tidy, Programs, ChildAlive, Child
<1>10. Tidy'
  BY <1>5, <1>8, <1>9, JobStep
<1> QED
  BY <1>1, <1>4, <1>10 DEF ChildAlive
-----------------------------------------------------------------------------
(* What the calls do to rows and operations. *)

RowKept(w) ==
    /\ workbooks'[w].claim = workbooks[w].claim
    /\ workbooks[w].state \in {"active", "hold"} => workbooks'[w].state \in {"active", "hold"}
    /\ workbooks'[w].state = "complete" => workbooks[w].state = "complete"

OperationKept(p) ==
    /\ Occupied(p) => Occupied(p)'
    /\ (operations'[p] # None /\ operations'[p].state = "confirmed")
        => (operations[p] # None /\ operations[p].state = "confirmed")

LedgerKept ==
    /\ claims' = claims
    /\ \A w \in Workbooks : RowKept(w)
    /\ \A p \in Operations : OperationKept(p)

LEMMA SameKept == UNCHANGED <<claims, workbooks, operations>> => LedgerKept
BY DEF LedgerKept, RowKept, OperationKept, Occupied

\* Rows by fields, operations by fields.
LEMMA FieldsKept ==
    ASSUME TypeOK, TypeOK', claims' = claims,
           \A w \in Workbooks :
                \/ workbooks'[w] = workbooks[w]
                \/ /\ workbooks'[w].claim = workbooks[w].claim
                   /\ workbooks'[w].state \in {workbooks[w].state, "hold"},
           \A p \in Operations :
                \/ operations'[p] = operations[p]
                \/ operations[p] = None /\ operations'[p].state = "active"
                \/ operations[p] # None /\ operations'[p] # None
                    /\ operations'[p].state = operations[p].state
                \/ operations[p] # None /\ operations'[p] # None
                    /\ operations[p].state \in {"active", "hold"} /\ operations'[p].state = "hold"
    PROVE  LedgerKept
<1>1. ASSUME NEW w \in Workbooks PROVE RowKept(w)
  BY DEF RowKept
<1>2. ASSUME NEW p \in Operations PROVE OperationKept(p)
  BY DEF OperationKept, Occupied
<1> QED
  BY <1>1, <1>2 DEF LedgerKept

LEMMA TimeKept == TypeOK /\ TypeOK' /\ (Tick \/ Sweep) => LedgerKept
<1> SUFFICES ASSUME TypeOK, TypeOK', Tick \/ Sweep PROVE LedgerKept
  OBVIOUS
<1>1. CASE Tick
  <2>1. ASSUME NEW w \in Workbooks
        PROVE  workbooks'[w].claim = workbooks[w].claim /\ workbooks'[w].state = workbooks[w].state
    BY <1>1 DEF Tick, TypeOK, Row
  <2>2. ASSUME NEW p \in Operations
        PROVE  \/ operations'[p] = operations[p]
               \/ operations[p] # None /\ operations'[p] # None
                    /\ operations'[p].state = operations[p].state
    <3>1. CASE operations[p] = None
      BY <1>1, <3>1 DEF Tick
    <3>2. CASE operations[p] # None
      <4>1. operations[p] \in OperationRow /\ operations'[p] = [operations[p] EXCEPT !.left = Sooner(@)]
        BY <1>1, <3>2 DEF Tick, TypeOK
      <4>2. operations'[p].state = operations[p].state
        BY <4>1 DEF OperationRow
      <4>3. operations'[p] # None
        BY <4>1, SoonerType, LedgerAssumption DEF OperationRow
      <4> QED
        BY <3>2, <4>2, <4>3
    <3> QED
      BY <3>1, <3>2
  <2> QED
    BY <1>1, <2>1, <2>2, FieldsKept DEF Tick
<1>2. CASE Sweep
  <2>1. ASSUME NEW w \in Workbooks
        PROVE  /\ workbooks'[w].claim = workbooks[w].claim
               /\ workbooks'[w].state \in {workbooks[w].state, "hold"}
    BY <1>2 DEF Sweep, SweptWorkbooks, Leave, TypeOK, Row
  <2>2. ASSUME NEW p \in Operations
        PROVE  \/ operations'[p] = operations[p]
               \/ operations[p] # None /\ operations'[p] # None
                    /\ operations[p].state \in {"active", "hold"} /\ operations'[p].state = "hold"
    <3>1. CASE operations[p] # None /\ Expired(operations[p])
      <4>1. operations[p] \in OperationRow /\ operations'[p] = Leave(operations[p], "hold")
        BY <1>2, <3>1 DEF Sweep, TypeOK
      <4>2. operations'[p] \in OperationRow /\ operations'[p].state = "hold"
        BY <4>1, LeaveOperationType, LeftOperation
      <4> QED
        BY <3>1, <4>2, LedgerAssumption DEF Expired
    <3>2. CASE ~(operations[p] # None /\ Expired(operations[p]))
      BY <1>2, <3>2 DEF Sweep
    <3> QED
      BY <3>1, <3>2
  <2> QED
    BY <1>2, <2>1, <2>2, FieldsKept DEF Sweep
<1> QED
  BY <1>1, <1>2

LEMMA HeartbeatKept ==
    ASSUME TypeOK, TypeOK', NEW c \in Claims, Heartbeat(c)
    PROVE  LedgerKept
<1>1. claims[c].workbook \in Workbooks /\ claims' = claims
  BY OwnedType DEF Heartbeat
<1>2. ASSUME NEW w \in Workbooks
      PROVE  workbooks'[w].claim = workbooks[w].claim /\ workbooks'[w].state = workbooks[w].state
  BY <1>1 DEF Heartbeat, TypeOK, Row
<1>3. ASSUME NEW p \in Operations
      PROVE  \/ operations'[p] = operations[p]
             \/ operations[p] # None /\ operations'[p] # None
                  /\ operations'[p].state = operations[p].state
  <2>1. \/ operations'[p] = operations[p]
        \/ operations[p] # None /\ operations'[p] = [operations[p] EXCEPT !.left = Lease]
    BY DEF Heartbeat
  <2>2. ASSUME operations[p] # None, operations'[p] = [operations[p] EXCEPT !.left = Lease]
        PROVE  operations'[p] # None /\ operations'[p].state = operations[p].state
    <3>1. operations[p] \in OperationRow
      BY <2>2 DEF TypeOK
    <3>2. operations'[p] \in OperationRow
      BY <2>2, <3>1, ZeroLeft DEF OperationRow
    <3> QED
      BY <2>2, <3>1, <3>2, LedgerAssumption DEF OperationRow
  <2> QED
    BY <2>1, <2>2
<1> QED
  BY <1>1, <1>2, <1>3, FieldsKept

LEMMA BeginKept ==
    ASSUME TypeOK, TypeOK', NEW c \in Claims, NEW p \in Operations, Begin(c, p)
    PROVE  LedgerKept /\ Occupied(p)'
<1>1. operations[p] = None /\ operations'[p] # None /\ operations'[p].state = "active"
  BY BeginMoves
<1>2. /\ claims' = claims /\ workbooks' = workbooks
      /\ \A q \in Operations \ {p} : operations'[q] = operations[q]
  BY DEF Begin, TypeOK, lease
<1> QED
  BY <1>1, <1>2, FieldsKept DEF Occupied

\* An end changes nothing but that operation, and the row to hold.
LEMMA EndKept ==
    ASSUME TypeOK, TypeOK', NEW c \in Claims, NEW p \in Operations, NEW outcome, End(c, p, outcome)
    PROVE  /\ claims' = claims
           /\ \A w \in Workbooks : RowKept(w)
           /\ \A q \in Operations \ {p} : OperationKept(q)
           /\ outcome = "uncertain" => OperationKept(p)
<1>1. /\ claims[c].workbook \in Workbooks /\ claims' = claims
      /\ operations[p] \in OperationRow /\ operations[p].state = "active"
  BY OwnedType DEF End, Ends, Endable, TypeOK
<1>2. ASSUME NEW w \in Workbooks PROVE RowKept(w)
  BY <1>1 DEF RowKept, End, Leave, TypeOK, Row
<1>3. ASSUME NEW q \in Operations \ {p} PROVE OperationKept(q)
  BY DEF OperationKept, Occupied, End, TypeOK
<1>4. ASSUME outcome = "uncertain" PROVE OperationKept(p)
  <2>1. operations'[p] = Leave(operations[p], "hold")
    BY <1>4 DEF End, TypeOK
  <2>2. operations'[p] \in OperationRow /\ operations'[p].state = "hold"
    BY <1>1, <2>1, LeaveOperationType, LeftOperation
  <2> QED
    BY <2>2, LedgerAssumption DEF OperationKept, Occupied
<1> QED
  BY <1>1, <1>2, <1>3, <1>4

\* A finish leaves what is outstanding in hold.
LEMMA FinishKept ==
    ASSUME TypeOK, TypeOK', NEW c \in Claims, NEW d, Finish(c, d)
    PROVE  /\ claims' = claims
           /\ \A p \in Operations : OperationKept(p)
           /\ \A w \in Workbooks \ {claims[c].workbook} : RowKept(w)
           /\ d = "hold" => RowKept(claims[c].workbook)
           /\ Owned(c) /\ claims[c].workbook \in Workbooks
<1>1. Owned(c) /\ claims[c].workbook \in Workbooks /\ claims' = claims
  BY OwnedType DEF Finish, Finishes
<1>2. ASSUME NEW p \in Operations PROVE OperationKept(p)
  <2>1. CASE operations'[p] = operations[p]
    BY <2>1 DEF OperationKept, Occupied
  <2>2. CASE operations'[p] # operations[p]
    <3>1. operations'[p] = Leave(operations[p], "hold") /\ operations[p] \in OperationRow
      BY <2>2 DEF Finish, TypeOK
    <3>2. operations'[p] \in OperationRow /\ operations'[p].state = "hold"
      BY <3>1, LeaveOperationType, LeftOperation
    <3> QED
      BY <3>2, LedgerAssumption DEF OperationKept, Occupied
  <2> QED
    BY <2>1, <2>2
<1>3. ASSUME NEW w \in Workbooks \ {claims[c].workbook} PROVE RowKept(w)
  BY <1>1 DEF RowKept, Finish, TypeOK
<1>4. ASSUME d = "hold" PROVE RowKept(claims[c].workbook)
  BY <1>1, <1>4 DEF RowKept, Finish, Leave, TypeOK, Row
<1> QED
  BY <1>1, <1>2, <1>3, <1>4

LEMMA ClaimKept ==
    ASSUME TypeOK, TypeOK', NEW c \in Claims, NEW w \in Workbooks, NEW o \in Owners, Claim(c, w, o)
    PROVE  /\ \A d \in Claims \ {c} : claims'[d] = claims[d]
           /\ claims'[c].workbook = w
           /\ \A p \in Operations : OperationKept(p)
           /\ \A v \in Workbooks \ {w} : RowKept(v)
           /\ workbooks[w].state = "ready"
           /\ workbooks'[w].state = "active" /\ workbooks'[w].claim = c
BY DEF Claim, Claimable, RowKept, OperationKept, Occupied, TypeOK

\* What the roots do.
LEMMA EnrollKept ==
    ASSUME TypeOK, TypeOK', NEW w \in Workbooks, Enroll(w)
    PROVE  LedgerKept
<1>1. ASSUME NEW v \in Workbooks
      PROVE  /\ workbooks'[v].claim = workbooks[v].claim
             /\ workbooks'[v].state \in {workbooks[v].state, "hold"}
  BY DEF Enroll, TypeOK, Row
<1> QED
  BY <1>1, FieldsKept DEF Enroll

LEMMA ReconcileKept ==
    ASSUME TypeOK, TypeOK', NEW w \in Workbooks, NEW d, Reconcile(w, d)
    PROVE  /\ claims' = claims
           /\ \A p \in Operations : OperationKept(p)
           /\ \A v \in Workbooks \ {w} : RowKept(v)
           /\ workbooks'[w].state = d
BY DEF Reconcile, RowKept, OperationKept, Occupied, TypeOK, Row

LEMMA ReconcileOperationKept ==
    ASSUME TypeOK, TypeOK', NEW p \in Operations, NEW d, ReconcileOperation(p, d)
    PROVE  /\ claims' = claims
           /\ \A q \in Operations \ {p} : OperationKept(q)
           /\ \A w \in Workbooks : RowKept(w)
           /\ operations'[p].state = d
<1>1. operations[p] \in OperationRow
  BY DEF ReconcileOperation, TypeOK
<1> QED
  BY <1>1 DEF ReconcileOperation, RowKept, OperationKept, Occupied, TypeOK, OperationRow, lease
-----------------------------------------------------------------------------
(* Every step of the programs is a step of the ledger or none. *)

LEMMA ServeMoves ==
    ASSUME ClientsTypeOK, AllSent, NEW r \in requests, Serve(r)
    PROVE  [Next]_vars
<1>1. /\ r.job \in Jobs /\ r.name \in Controller /\ Sent(r)
      /\ Apply(r) \/ UNCHANGED vars
  BY DEF Serve, ClientsTypeOK, AllSent, ledger
<1>2. /\ ClaimOf[r.job] \in Claims /\ WorkbookOf[r.job] \in Workbooks /\ OwnerOf[r.job] \in Owners
      /\ r.name \in {"begin", "end", "uncertain"} => r.op \in Operations
  BY <1>1, JobTypes DEF Sent
<1>3. CASE Apply(r)
  <2>1. CASE r.name = "claim"
    BY <1>2, <1>3, <2>1, Asked DEF Next, Claimants
  <2>2. CASE r.name = "heartbeat"
    BY <1>2, <1>3, <2>2, Asked DEF Next, Claimants
  <2>3. CASE r.name = "begin"
    BY <1>2, <1>3, <2>3, Asked DEF Next, Claimants
  <2>4. CASE r.name = "end"
    BY <1>2, <1>3, <2>4, Asked DEF Next, Claimants
  <2>5. CASE r.name = "uncertain"
    BY <1>2, <1>3, <2>5, Asked DEF Next, Claimants
  <2>6. CASE r.name \in {"finish", "hold"}
    <3>1. Finish(ClaimOf[r.job], Disposition(r)) /\ Disposition(r) \in {"complete", "hold"}
      BY <1>3, <2>6, Asked DEF Disposition
    <3> QED
      BY <1>2, <3>1 DEF Next, Claimants
  <2>7. CASE r.name = "status"
    BY <1>3, <2>7, Asked DEF ledger
  <2> QED
    BY <1>1, <2>1, <2>2, <2>3, <2>4, <2>5, <2>6, <2>7 DEF Controller
<1> QED
  BY <1>1, <1>3

LEMMA AdministerMoves == ASSUME Administer PROVE Next
<1>1. ASSUME NEW j \in Present, Enroll(WorkbookOf[j])
      PROVE  Next
  BY <1>1, JobTypes DEF Present, Next, Administrators
<1>2. ASSUME NEW j \in Present, NEW d \in {"ready", "complete", "hold"},
             Reconcile(WorkbookOf[j], d)
      PROVE  Next
  BY <1>2, JobTypes DEF Present, Next, Administrators
<1>3. ASSUME NEW j \in Present, AbandonClaim(ClaimOf[j])
      PROVE  Next
  BY <1>3, JobTypes DEF Present, Next, Administrators
<1>4. ASSUME NEW p \in Operations, NEW d \in {"confirmed", "abandoned"}, ReconcileOperation(p, d)
      PROVE  Next
  BY <1>4 DEF Next, Administrators
<1> QED
  BY <1>1, <1>2, <1>3, <1>4 DEF Administer

\* The steps of a job's controller and child, which leave the ledger alone.
JobSteps(j) ==
    \/ \E by \in {"controller", "child"} : TimesOut(j, by)
    \/ Start(j) \/ HeartbeatDue(j) \/ GuardTrips(j) \/ ChildEnded(j)
    \/ WaitOver(j) \/ WaitLimit(j)
    \/ Crash(j) \/ GuardianKills(j)
    \/ \E p \in Operations : Ask(j, p)
    \/ Return(j) \/ Exit(j) \/ ChildCrashes(j)

LEMMA JobLedger == ASSUME NEW j, JobSteps(j) PROVE UNCHANGED vars
BY DEF JobSteps, TimesOut, Start, HeartbeatDue, GuardTrips, ChildEnded, WaitOver, WaitLimit,
       Crash, GuardianKills, Ask, Return, Exit, ChildCrashes, ledger

LEMMA LedgerStep ==
    ASSUME ClientsTypeOK, AllSent, [ClientsNext]_all
    PROVE  [Next]_vars
<1>1. CASE (Tick \/ Sweep) /\ UNCHANGED clients
  BY <1>1 DEF Next
<1>2. CASE Administer
  BY <1>2, AdministerMoves
<1>3. CASE \E r \in requests : Serve(r)
  BY <1>3, ServeMoves
<1>4. CASE \E j \in Jobs : JobSteps(j)
  BY <1>4, JobLedger
<1>5. CASE \E p \in Operations : ProviderEnds(p)
  BY <1>5 DEF ProviderEnds, ledger
<1>6. CASE UNCHANGED all
  BY <1>6 DEF all, ledger
<1> QED
  BY <1>1, <1>2, <1>3, <1>4, <1>5, <1>6 DEF ClientsNext, JobSteps
-----------------------------------------------------------------------------
(* The truth of the ledger, by what a step does. *)

\* What an operation that is settled, and a row that is given up, must leave behind.
Settles(p) ==
    /\ p \notin inflight'
    /\ \A j \in Jobs \ Workers : ChildAlive(j)' => PublicationOf(j) # p
    /\ (operations'[p] # None /\ operations'[p].state = "confirmed") => p \in persisted'

GivesUp(w) ==
    /\ \A j \in Jobs : ChildAlive(j)' => WorkbookOf[j] # w
    /\ workbooks'[w].state = "complete" =>
        \E j \in Collectors : WorkbookOf[j] = w /\ OperationsOf[j] \subseteq persisted'

LEMMA TruthMoves ==
    ASSUME Truth, claims' = claims, persisted \subseteq persisted', inflight \subseteq ModelOps,
           \A w \in Workbooks : RowKept(w) \/ GivesUp(w),
           \A p \in Operations : OperationKept(p) \/ Settles(p),
           \A j \in Jobs : ChildAlive(j)' => ChildAlive(j),
           inflight' \subseteq inflight
    PROVE  Truth'
<1>1. GrantedToJob'
  BY DEF Truth, GrantedToJob
<1>2. ChildHoldsClaim'
  <2>1. ASSUME NEW j \in Jobs, ChildAlive(j)'
        PROVE  /\ workbooks'[WorkbookOf[j]].claim = ClaimOf[j]
               /\ workbooks'[WorkbookOf[j]].state \in {"active", "hold"}
    BY <2>1, JobTypes DEF Truth, ChildHoldsClaim, RowKept, GivesUp
  <2> QED
    BY <2>1 DEF ChildHoldsClaim
<1>3. EffectsCounted'
  <2>1. ASSUME NEW p \in inflight' PROVE Occupied(p)'
    BY DEF Truth, EffectsCounted, OperationKept, Settles
  <2>2. ASSUME NEW j \in Jobs \ Workers, ChildAlive(j)' PROVE Occupied(PublicationOf(j))'
    <3>1. Occupied(PublicationOf(j)) /\ PublicationOf(j) \in Operations
      BY <2>2, JobTypes DEF Truth, EffectsCounted
    <3> QED
      BY <2>2, <3>1 DEF OperationKept, Settles
  <2>3. \A j \in Jobs : PublicationOf(j)' = PublicationOf(j)
    BY DEF PublicationOf
  <2> QED
    BY <2>1, <2>2, <2>3 DEF EffectsCounted
<1>4. ConfirmedIsRetained'
  <2>1. ASSUME NEW p \in Operations, operations'[p] # None, operations'[p].state = "confirmed"
        PROVE  p \in persisted'
    BY <2>1 DEF Truth, OperationKept, ConfirmedIsRetained, Settles
  <2>2. ASSUME NEW w \in Workbooks, workbooks'[w].state = "complete"
        PROVE  \E j \in Collectors : WorkbookOf[j] = w /\ OperationsOf[j] \subseteq persisted'
    <3>1. CASE GivesUp(w)
      BY <2>2, <3>1 DEF GivesUp
    <3>2. CASE RowKept(w)
      <4>1. workbooks[w].state = "complete"
        BY <2>2, <3>2 DEF RowKept
      <4>2. PICK j \in Collectors : WorkbookOf[j] = w /\ OperationsOf[j] \subseteq persisted
        BY <4>1 DEF Truth, ConfirmedIsRetained
      <4> QED
        BY <4>2
    <3> QED
      BY <3>1, <3>2
  <2> QED
    BY <2>1, <2>2 DEF ConfirmedIsRetained
<1> QED
  BY <1>1, <1>2, <1>3, <1>4 DEF Truth

LEMMA TruthKept ==
    ASSUME Truth, LedgerKept, persisted \subseteq persisted', inflight \subseteq ModelOps,
           \A j \in Jobs : ChildAlive(j)' => ChildAlive(j),
           inflight' \subseteq inflight
    PROVE  Truth'
BY TruthMoves DEF LedgerKept
-----------------------------------------------------------------------------
(* An answered request. *)

LEMMA ServeForward ==
    ASSUME TypeOK, EffectsInv, ClientsTypeOK, AllSent, NEW r \in requests, Serve(r)
    PROVE  Forward /\ inflight' \subseteq ModelOps
<1>1. persisted' = persisted
  BY DEF Serve
<1>2. \A p \in Operations : operations[p] # None => operations'[p] # None
  BY ServeMoves, SettleStep
<1>3. \/ inflight' = inflight
      \/ inflight' = inflight \cup ({r.op} \cap ModelOps) /\ r.name = "begin" /\ Accepts(r)
  BY DEF Serve
<1>4. r.name = "begin" /\ Accepts(r) => operations[r.op] = None
  BY Asked DEF Unconsumed
<1>5. ASSUME NEW q \in requests, q.name = "end"
      PROVE  q.op \notin inflight'
  <2>1. q.op \notin inflight /\ (q.op \in ModelOps => operations[q.op] # None)
    BY <1>5 DEF AllSent, Sent
  <2> QED
    BY <1>3, <1>4, <2>1
<1> QED
  BY <1>1, <1>2, <1>3, <1>5 DEF Forward, ClientsTypeOK

\* A child is born by the answer that admits it.
Born(r, j) ==
    /\ j = r.job /\ Accepts(r) /\ Apply(r)
    /\ (j \in Workers /\ r.name = "claim") \/ (j \notin Workers /\ r.name = "begin")

Births(r) == \A j \in Jobs : ChildAlive(j)' => ChildAlive(j) \/ Born(r, j)

\* The answer of an accepted request to a controller.
LEMMA ControllerAnsweredStep ==
    ASSUME Tidy, Forward, inflight' \subseteq ModelOps, call' = call,
           NEW r \in requests, NEW rest, rest = requests \ {r},
           phase[r.job] = r.name, Accepts(r), Apply(r), ControllerAnswered(r.job, r.name, rest)
    PROVE  Tidy' /\ Births(r)
<1> DEFINE j == r.job
<1>1. /\ j \in Jobs /\ r.name \in Controller /\ Known(rest) /\ Stage(j)
      /\ \A q \in rest : q \in requests
      /\ child[j] \in Child \cup {"none", "exited", "failed", "killed"}
      /\ call[j] \in ModelOps \cup {None}
  <2>1. j \in Jobs /\ r.name \in Controller
    BY DEF Tidy, Programs, Request
  <2> QED
    BY <2>1, KnownRest DEF Tidy, Stages, Programs
<1>2. ASSUME ControllerSends(j, "heartbeat", rest), j \in Workers => child[j] # "none"
      PROVE  Tidy' /\ Births(r)
  <2>1. MaySend(j, "heartbeat")
    BY <1>2 DEF MaySend, Controller
  <2> QED
    BY <1>1, <1>2, <2>1, SendsStep DEF Births, ChildAlive
<1>3. ASSUME Beats(j, rest), j \in Workers => child[j] # "none"
      PROVE  Tidy' /\ Births(r)
  BY <1>1, <1>3, BeatsStep DEF Births, ChildAlive
<1>4. ASSUME Fails(j, rest) PROVE Tidy' /\ Births(r)
  BY <1>1, <1>4, FailsStep DEF Births
<1>5. ASSUME phase' = [phase EXCEPT ![j] = "run"], child' = [child EXCEPT ![j] = "running"],
             requests' = rest, Born(r, j), child[j] = "none"
      PROVE  Tidy' /\ Births(r)
  <2>1. phase'[j] = "run" /\ child'[j] = "running" /\ \A i \in Jobs \ {j} : child'[i] = child[i]
    BY <1>1, <1>5 DEF Tidy, Programs
  <2>2. Stage(j)'
    BY <2>1 DEF Stage, Asking
  <2>3. Moves(j)
    BY <1>1, <1>5, <2>1 DEF Moves, Tidy, Programs, Child
  <2>4. Leaves(j, rest)
    <3>1. ASSUME NEW q \in rest, q.by = "child", q.job = j PROVE FALSE
      BY <1>1, <1>5, <3>1 DEF Tidy, AllSent, Sent, Asking
    <3> QED
      BY <1>1, <1>5, <3>1 DEF Leaves
  <2>5. Tidy'
    BY <1>1, <2>2, <2>3, <2>4, JobStep
  <2>6. Births(r)
    BY <1>5, <2>1 DEF Births, ChildAlive
  <2> QED
    BY <2>5, <2>6
<1>6. ASSUME NEW x \in {"run", "done"}, phase' = [phase EXCEPT ![j] = x], requests' = rest, child' = child,
             x = "run" => child[j] # "none"
      PROVE  Tidy' /\ Births(r)
  <2>1. phase'[j] = x
    BY <1>1, <1>6 DEF Tidy, Programs
  <2>2. Stage(j)'
    <3>1. call[j] \in OperationsOf[j] => call[j] \in Operations
      BY <1>1, JobTypes
    <3> QED
      BY <1>1, <1>6, <2>1, <3>1 DEF Stage, ChildAlive, Forward, Asking
  <2>3. Moves(j)
    BY <1>1, <1>6, <2>1 DEF Moves, Tidy, Programs, Idle
  <2>4. Leaves(j, rest)
    BY <1>1, <1>6 DEF Leaves
  <2> QED
    BY <1>1, <1>6, <2>2, <2>3, <2>4, JobStep DEF Births, ChildAlive
<1>7. CASE r.name = "claim"
  <2>1. child[j] = "none"
    BY <1>1, <1>7 DEF Stage
  <2>2. CASE /\ j \in Workers
             /\ phase' = [phase EXCEPT ![j] = "run"]
             /\ child' = [child EXCEPT ![j] = "running"]
             /\ requests' = rest
    <3>0. j \in Workers
      BY <2>2
    <3>1. Born(r, j)
      BY <1>7, <3>0 DEF Born
    <3> QED
      BY <1>5, <2>1, <2>2, <3>1
  <2> QED
    BY <1>3, <1>4, <1>7, <2>2 DEF ControllerAnswered
<1>8. CASE r.name = "heartbeat" /\ child[j] = "none"
  <2>1. ControllerSends(j, "begin", rest)
    BY <1>8 DEF ControllerAnswered
  <2>2. MaySend(j, "begin")
    BY <1>1, <1>8 DEF MaySend, Stage, Controller
  <2> QED
    BY <1>1, <2>1, <2>2, SendsStep DEF Births, ChildAlive
<1>9. CASE r.name = "heartbeat" /\ child[j] # "none"
  BY <1>6, <1>9 DEF ControllerAnswered
<1>10. CASE r.name = "status"
  <2>1. j \in Workers => child[j] # "none"
    BY <1>1, <1>10 DEF Stage
  <2> QED
    BY <1>3, <1>4, <1>10, <2>1 DEF ControllerAnswered
<1>11. CASE r.name = "begin"
  <2>1. child[j] = "none" /\ j \notin Workers
    BY <1>1, <1>11 DEF Stage
  <2>2. /\ phase' = [phase EXCEPT ![j] = "run"]
        /\ child' = [child EXCEPT ![j] = "running"]
        /\ requests' = rest
    BY <1>11 DEF ControllerAnswered
  <2> QED
    BY <1>5, <1>11, <2>1, <2>2 DEF Born
<1>12. CASE r.name = "end"
  <2>1. ControllerSends(j, "finish", rest)
    BY <1>12 DEF ControllerAnswered
  <2>2. MaySend(j, "finish")
    BY <1>1, <1>12 DEF MaySend, Stage, Controller
  <2> QED
    BY <1>1, <2>1, <2>2, SendsStep DEF Births, ChildAlive
<1>13. CASE r.name \in {"uncertain", "finish", "hold"}
  BY <1>6, <1>13 DEF ControllerAnswered
<1> QED
  BY <1>1, <1>7, <1>8, <1>9, <1>10, <1>11, <1>12, <1>13 DEF Controller

\* A child has one request at most.
LEMMA OneAsked ==
    ASSUME Tidy, NEW r \in requests, r.by = "child", NEW q \in requests, q.by = "child", q.job = r.job
    PROVE  q = r
<1>1. q \in Request /\ r \in Request /\ Sent(q) /\ Sent(r)
  BY DEF Tidy, AllSent, Programs
<1>2. q.name = r.name /\ q.op = r.op /\ q.stale = r.stale
  BY <1>1 DEF Sent
<1> QED
  BY <1>1, <1>2 DEF Request

\* The answer of an accepted request to a child.
LEMMA ChildAnsweredStep ==
    ASSUME Tidy, Forward, inflight' \subseteq ModelOps,
           NEW r \in requests, r.by = "child", NEW rest, rest = requests \ {r},
           r.name = "begin" => operations'[r.op] # None,
           r.name \in {"begin", "status", "heartbeat"} => call' = call,
           r.name \in {"end", "uncertain"} => call' = [call EXCEPT ![r.job] = None],
           ChildAnswered(r.job, r.name, rest)
    PROVE  Tidy' /\ \A i \in Jobs : ChildAlive(i)' => ChildAlive(i)
<1> DEFINE j == r.job
<1>1. /\ j \in Jobs /\ r.name \in Asking /\ child[j] = r.name /\ call[j] = r.op /\ Stage(j)
      /\ phase[j] \in Controller \cup Idle \cup {"run", "wait"} /\ call[j] \in ModelOps \cup {None}
      /\ Known(rest) /\ \A q \in rest : ~(q.job = j /\ q.by = "child")
  <2>1. r \in Request /\ Sent(r)
    BY DEF Tidy, Programs, AllSent
  <2>2. \A q \in rest : ~(q.job = j /\ q.by = "child")
    BY OneAsked
  <2>3. Known(rest)
    BY KnownRest DEF Tidy
  <2>4. j \in Jobs
    BY <2>1 DEF Request
  <2> QED
    BY <2>1, <2>2, <2>3, <2>4 DEF Tidy, Stages, Sent, Programs
<1>2. child[j] \in Child /\ ChildAlive(j)
  BY <1>1 DEF Asking, Child, ChildAlive
<1>3. ASSUME NEW name \in {"heartbeat", "begin"}, ChildSends(j, name, rest), call' = call
      PROVE  Tidy' /\ \A i \in Jobs : ChildAlive(i)' => ChildAlive(i)
  BY <1>1, <1>3, ChildSendsStep DEF Asking
<1>4. CASE r.name = "begin"
  <2>1. /\ child' = [child EXCEPT ![j] = "dispatch"] /\ requests' = rest /\ phase' = phase
        /\ child'[j] = "dispatch" /\ call' = call
        /\ \A i \in Jobs \ {j} : child'[i] = child[i]
    BY <1>1, <1>4 DEF ChildAnswered, Tidy, Programs
  <2>2. Stage(j)'
    BY <1>1, <1>2, <1>4, <2>1 DEF Stage, ChildAlive, Child, Asking
  <2>3. Moves(j) /\ Leaves(j, rest)
    BY <1>1, <1>2, <2>1 DEF Moves, Leaves, Tidy, Programs, Child
  <2>4. Tidy'
    BY <1>1, <2>2, <2>3, JobStep
  <2> QED
    BY <1>2, <2>1, <2>4 DEF ChildAlive
<1>5. CASE r.name = "status"
  <2>1. CASE Raises(j, "child", rest)
    BY <1>1, <1>5, <2>1, RaisesStep
  <2> QED
    BY <1>3, <1>5, <2>1 DEF ChildAnswered
<1>6. CASE r.name = "heartbeat"
  BY <1>3, <1>6 DEF ChildAnswered
<1>7. CASE r.name \in {"end", "uncertain"}
  <2>1. /\ child' = [child EXCEPT ![j] = "running"] /\ requests' = rest /\ phase' = phase
        /\ child'[j] = "running" /\ call'[j] = None /\ call' = [call EXCEPT ![j] = None]
        /\ \A i \in Jobs \ {j} : child'[i] = child[i]
    BY <1>1, <1>7 DEF ChildAnswered, Tidy, Programs
  <2>2. Stage(j)'
    BY <1>1, <1>2, <2>1 DEF Stage, ChildAlive, Child, Asking
  <2>3. Moves(j) /\ Leaves(j, rest)
    BY <1>1, <1>2, <2>1 DEF Moves, Leaves, Tidy, Programs, Child
  <2>4. Tidy'
    BY <1>1, <2>2, <2>3, JobStep
  <2> QED
    BY <1>2, <2>1, <2>4 DEF ChildAlive
<1> QED
  BY <1>1, <1>4, <1>5, <1>6, <1>7 DEF Asking

\* A begin that has to wait.
LEMMA WaitingStep ==
    ASSUME Tidy, Forward, inflight' \subseteq ModelOps, call' = call,
           NEW r \in requests, r.name = "begin", Awaited(r), NEW rest, rest = requests \ {r},
           Waiting(r, rest)
    PROVE  Tidy' /\ \A i \in Jobs : ChildAlive(i)' => ChildAlive(i)
<1> DEFINE j == r.job
<1>1. /\ j \in Jobs /\ Known(rest) /\ Stage(j) /\ Sent(r) /\ (r.by = "child" \/ r.by = "controller")
      /\ child[j] \in Child \cup {"none", "exited", "failed", "killed"}
      /\ call[j] \in ModelOps \cup {None}
  <2>1. r \in Request
    BY DEF Tidy, Programs
  <2>2. j \in Jobs
    BY <2>1 DEF Request
  <2>3. Known(rest)
    BY KnownRest DEF Tidy
  <2> QED
    BY <2>2, <2>3 DEF Awaited, Tidy, Stages, Programs, AllSent
<1>2. CASE r.by = "child"
  <2>1. \A q \in rest : ~(q.job = j /\ q.by = "child")
    BY <1>2, OneAsked
  <2>2. child[j] \in Asking
    BY <1>1, <1>2 DEF Sent
  <2>3. ASSUME NEW name \in {"status", "heartbeat", "begin"}, ChildSends(j, name, rest)
        PROVE  Tidy' /\ \A i \in Jobs : ChildAlive(i)' => ChildAlive(i)
    BY <1>1, <2>1, <2>2, <2>3, ChildSendsStep DEF Asking
  <2>4. \E name \in {"status", "heartbeat", "begin"} : ChildSends(j, name, rest)
    <3>1. CASE BusyHeld(r.op)
      BY <1>2, <3>1 DEF Waiting
    <3>2. CASE ~BusyHeld(r.op)
      BY <1>2, <3>2 DEF Waiting
    <3> QED
      BY <3>1, <3>2
  <2> QED
    BY <2>3, <2>4
<1>3. CASE r.by = "controller" /\ BusyHeld(r.op)
  <2>1. Fails(j, rest)
    BY <1>3 DEF Waiting
  <2> QED
    BY <1>1, <2>1, FailsStep
<1>4. CASE r.by = "controller" /\ ~BusyHeld(r.op)
  <2>1. phase' = [phase EXCEPT ![j] = "wait"] /\ requests' = rest /\ child' = child
    BY <1>4 DEF Waiting
  <2>2. phase'[j] = "wait" /\ phase[j] = "begin"
    BY <1>1, <1>4, <2>1 DEF Awaited, Tidy, Programs
  <2>3. child[j] = "none" /\ j \notin Workers
    BY <1>1, <2>2 DEF Stage
  <2>4. Stage(j)'
    BY <2>1, <2>2, <2>3 DEF Stage, Asking
  <2>5. Moves(j) /\ Leaves(j, rest)
    BY <1>1, <2>1, <2>2 DEF Moves, Leaves, Tidy, Programs
  <2> QED
    BY <1>1, <2>1, <2>4, <2>5, JobStep DEF ChildAlive
<1> QED
  BY <1>1, <1>2, <1>3, <1>4

\* Serving a request, answered or not.
LEMMA ServeTidy ==
    ASSUME TypeOK, TypeOK', EffectsInv, ClientsTypeOK, Tidy, NEW r \in requests, Serve(r)
    PROVE  Tidy' /\ Births(r)
<1> DEFINE rest == requests \ {r}
<1>1. Forward /\ inflight' \subseteq ModelOps
  BY ServeForward DEF Tidy
<1>2. /\ r.job \in Jobs /\ r.name \in Controller /\ Sent(r) /\ Known(rest) /\ Stage(r.job)
  <2>1. r \in Request /\ Sent(r)
    BY DEF Tidy, Programs, AllSent
  <2>2. r.job \in Jobs /\ r.name \in Controller
    BY <2>1 DEF Request
  <2> QED
    BY <2>1, <2>2, KnownRest DEF Tidy, Stages
<1>3. PICK answered \in BOOLEAN :
        /\ answered => Awaited(r)
        /\ IF answered THEN Answered(r, Accepts(r), rest)
           ELSE requests' = rest /\ UNCHANGED <<phase, child>>
        /\ call' = IF answered /\ r.by = "child" /\ r.name \in {"end", "uncertain"}
                   THEN [call EXCEPT ![r.job] = None] ELSE call
  BY DEF Serve
<1>4. Accepts(r) => Apply(r)
  BY DEF Serve
<1>5. CASE ~answered
  <2>1. requests' = rest /\ phase' = phase /\ child' = child /\ call' = call
    BY <1>3, <1>5
  <2>2. Stage(r.job)'
    BY <1>1, <1>2, <2>1, StageCarried DEF Tidy
  <2>3. Moves(r.job) /\ Leaves(r.job, rest)
    BY <1>2, <2>1 DEF Moves, Leaves, Tidy, Programs
  <2> QED
    BY <1>1, <1>2, <2>1, <2>2, <2>3, JobStep DEF Births, ChildAlive
<1>6. CASE answered /\ Accepts(r) /\ r.by = "child"
  <2>1. /\ ChildAnswered(r.job, r.name, rest)
        /\ call' = IF r.name \in {"end", "uncertain"} THEN [call EXCEPT ![r.job] = None] ELSE call
    BY <1>3, <1>6 DEF Answered
  <2>2. r.name = "begin" => operations'[r.op] # None
    <3>1. ASSUME r.name = "begin" PROVE Begin(ClaimOf[r.job], r.op) /\ r.op \in Operations
      BY <1>2, <1>4, <1>6, <3>1, Asked, JobTypes DEF Sent
    <3> QED
      BY <1>2, <3>1, BeginMoves, JobTypes
  <2> QED
    BY <1>1, <1>6, <2>1, <2>2, ChildAnsweredStep DEF Births
<1>7. CASE answered /\ Accepts(r) /\ r.by # "child"
  <2>1. /\ ControllerAnswered(r.job, r.name, rest) /\ call' = call /\ phase[r.job] = r.name
    BY <1>3, <1>7 DEF Answered, Awaited
  <2> QED
    BY <1>1, <1>4, <1>7, <2>1, ControllerAnsweredStep
<1>8. CASE answered /\ ~Accepts(r) /\ MustWait(r)
  <2>1. Waiting(r, rest) /\ r.name = "begin" /\ call' = call /\ Awaited(r)
    BY <1>3, <1>8 DEF Answered, MustWait
  <2> QED
    BY <1>1, <2>1, WaitingStep DEF Births
<1>9. CASE answered /\ ~Accepts(r) /\ ~MustWait(r)
  <2>1. /\ Raises(r.job, r.by, rest) /\ Awaited(r)
        /\ call' = call \/ (r.by = "child" /\ call' = [call EXCEPT ![r.job] = None])
    BY <1>3, <1>9 DEF Answered
  <2>2. r.by = "child" => /\ child[r.job] \in Asking
                          /\ \A q \in rest : ~(q.job = r.job /\ q.by = "child")
    BY <1>2, OneAsked DEF Sent
  <2> QED
    BY <1>1, <1>2, <2>1, <2>2, RaisesStep DEF Births
<1> QED
  BY <1>5, <1>6, <1>7, <1>8, <1>9
-----------------------------------------------------------------------------
(* The steps of a controller and a child. *)

\* The types of what is marked of the programs, beside where they are.
Marked ==
    /\ view \in [Jobs -> {"previous", "attempted", "other"}]
    /\ reconciliations \in [Jobs -> 0..MaxReconciliations]
    /\ intents \subseteq ModelOps /\ inflight \subseteq ModelOps
    /\ persisted \subseteq Operations

LEMMA ClientsTypes == ClientsTypeOK <=> Programs /\ Marked
BY DEF ClientsTypeOK, Programs, Marked, Request

\* What a step of a job leads to, when the ledger stays as it is.
JobDone ==
    /\ Tidy' /\ Marked'
    /\ persisted \subseteq persisted' /\ inflight' \subseteq inflight
    /\ \A i \in Jobs : ChildAlive(i)' => ChildAlive(i)

LEMMA StillForward ==
    ASSUME Tidy, Marked, operations' = operations, persisted \subseteq persisted', inflight' \subseteq inflight
    PROVE  Forward /\ inflight' \subseteq ModelOps
<1>1. \A r \in requests : r.name = "end" => r.op \notin inflight
  BY DEF Tidy, AllSent, Sent
<1> QED
  BY <1>1 DEF Forward, Marked

LEMMA TimesOutStep ==
    ASSUME Tidy, Marked, NEW j \in Jobs, NEW by \in {"controller", "child"}, TimesOut(j, by)
    PROVE  JobDone
<1>1. PICK rest \in Abandoned(j, {by}, requests) :
        IF by = "controller" /\ phase[j] = "heartbeat" /\ MayReconcile(j)
        THEN /\ reconciliations' = [reconciliations EXCEPT ![j] = @ + 1]
             /\ ControllerSends(j, "status", rest)
        ELSE Raises(j, by, rest) /\ UNCHANGED reconciliations
  BY DEF TimesOut
<1>2. Known(rest) /\ \A q \in rest : ~(q.job = j /\ q.by \in {by})
  <2>1. Known(requests)
    BY KnownRest DEF Tidy
  <2> QED
    BY <2>1, KnownLeft
<1>3. /\ operations' = operations /\ persisted' = persisted /\ inflight' = inflight
      /\ call' = call /\ view' = view /\ intents' = intents
  BY DEF TimesOut, ledger, vars, effects
<1>4. Forward /\ inflight' \subseteq ModelOps
  BY <1>3, StillForward
<1>5. CASE by = "controller" /\ phase[j] = "heartbeat" /\ MayReconcile(j)
  <2>1. reconciliations' \in [Jobs -> 0..MaxReconciliations]
    <3>1. reconciliations[j] + 1 \in 0..MaxReconciliations
      BY <1>5, ClientsAssumption DEF MayReconcile, Marked
    <3> QED
      BY <1>1, <1>5, <3>1 DEF Marked
  <2>2. MaySend(j, "status")
    BY <1>5 DEF MaySend, Controller, Tidy, Stages, Stage
  <2>3. Tidy' /\ child' = child
    BY <1>1, <1>2, <1>3, <1>4, <1>5, <2>2, SendsStep
  <2> QED
    BY <1>3, <2>1, <2>3 DEF JobDone, Marked, ChildAlive
<1>6. CASE ~(by = "controller" /\ phase[j] = "heartbeat" /\ MayReconcile(j))
  <2>1. by = "child" => child[j] \in Asking
    BY DEF TimesOut, Waits, Child, Asking
  <2>2. Tidy' /\ \A i \in Jobs : ChildAlive(i)' => ChildAlive(i)
    BY <1>1, <1>2, <1>3, <1>4, <1>6, <2>1, RaisesStep
  <2> QED
    BY <1>1, <1>3, <1>6, <2>2 DEF JobDone, Marked
<1> QED
  BY <1>5, <1>6

\* The steps of a controller.
LEMMA ControllerStep ==
    ASSUME Tidy, Marked, NEW j \in Jobs,
           \/ Start(j) \/ HeartbeatDue(j) \/ WaitOver(j) \/ ChildEnded(j)
           \/ GuardTrips(j) \/ WaitLimit(j) \/ Crash(j)
    PROVE  JobDone
<1>1. /\ operations' = operations /\ persisted' = persisted /\ inflight' = inflight
      /\ call' = call /\ Marked'
  BY DEF Start, HeartbeatDue, WaitOver, ChildEnded, GuardTrips, WaitLimit, Crash, ledger, vars,
         effects, beats, Marked
<1>2. Forward /\ inflight' \subseteq ModelOps
  BY <1>1, StillForward
<1>3. Known(requests) /\ Stage(j)
  BY KnownRest DEF Tidy, Stages
<1>4. ASSUME NEW name, ControllerSends(j, name, requests), MaySend(j, name)
      PROVE  Tidy' /\ \A i \in Jobs : ChildAlive(i)' => ChildAlive(i)
  BY <1>1, <1>2, <1>3, <1>4, SendsStep DEF ChildAlive
<1>5. ASSUME Beats(j, requests), j \in Workers => child[j] # "none"
      PROVE  Tidy' /\ \A i \in Jobs : ChildAlive(i)' => ChildAlive(i)
  BY <1>1, <1>2, <1>3, <1>5, BeatsStep DEF ChildAlive
<1>6. ASSUME Fails(j, requests)
      PROVE  Tidy' /\ \A i \in Jobs : ChildAlive(i)' => ChildAlive(i)
  BY <1>1, <1>2, <1>3, <1>6, FailsStep
<1>7. CASE Start(j)
  <2>1. MaySend(j, "claim")
    BY <1>3, <1>7 DEF Start, MaySend, Stage, Controller
  <2> QED
    BY <1>1, <1>4, <1>7, <2>1 DEF Start, JobDone
<1>8. CASE HeartbeatDue(j) \/ WaitOver(j)
  <2>1. j \in Workers => child[j] # "none"
    BY <1>3, <1>8 DEF HeartbeatDue, WaitOver, Stage
  <2> QED
    BY <1>1, <1>5, <1>8, <2>1 DEF HeartbeatDue, WaitOver, JobDone
<1>9. CASE GuardTrips(j) \/ WaitLimit(j)
  BY <1>1, <1>6, <1>9 DEF GuardTrips, WaitLimit, JobDone
<1>10. CASE ChildEnded(j)
  <2>1. CASE j \in Workers
    <3>1. ControllerSends(j, "finish", requests) /\ child[j] \in {"exited", "failed"}
      BY <1>10, <2>1 DEF ChildEnded
    <3>2. MaySend(j, "finish")
      BY <2>1, <3>1 DEF MaySend, Controller, ChildAlive, Child
    <3> QED
      BY <1>1, <1>4, <3>1, <3>2 DEF JobDone
  <2>2. CASE j \notin Workers /\ Succeeded(j)
    <3>1. ControllerSends(j, "end", requests) /\ child[j] = "exited"
      BY <1>10, <2>2 DEF ChildEnded, Succeeded
    <3>2. MaySend(j, "end")
      BY <2>2, <3>1 DEF MaySend, Controller, ChildAlive, Child
    <3> QED
      BY <1>1, <1>4, <3>1, <3>2 DEF JobDone
  <2>3. CASE j \notin Workers /\ ~Succeeded(j)
    <3>1. Fails(j, requests)
      BY <1>10, <2>3 DEF ChildEnded
    <3> QED
      BY <1>1, <1>6, <3>1 DEF JobDone
  <2> QED
    BY <2>1, <2>2, <2>3
<1>11. CASE Crash(j)
  <2>1. phase' = [phase EXCEPT ![j] = "crashed"] /\ child' = child /\ phase'[j] = "crashed"
    BY <1>11 DEF Crash, Tidy, Programs
  <2>2. PICK left \in Abandoned(j, {"controller"}, requests) : requests' = left
    BY <1>11 DEF Crash
  <2>3. Stage(j)'
    <3>1. call[j] \in OperationsOf[j] => call[j] \in Operations
      BY JobTypes
    <3> QED
      BY <1>1, <1>3, <2>1, <3>1 DEF Stage, ChildAlive, Asking
  <2>4. Known(left)
    BY <1>3, KnownLeft
  <2>5. Moves(j) /\ Leaves(j, left)
    BY <1>1, <2>1, <2>2, <2>4 DEF Moves, Leaves, Tidy, Programs, Idle
  <2>6. Tidy'
    BY <1>2, <2>3, <2>5, JobStep
  <2> QED
    BY <1>1, <2>1, <2>6 DEF JobDone, ChildAlive
<1> QED
  BY <1>7, <1>8, <1>9, <1>10, <1>11

\* The steps of a child, and its end by its guardian.
LEMMA ChildStep ==
    ASSUME Tidy, Marked, NEW j \in Jobs,
           \/ GuardianKills(j) \/ (\E p \in Operations : Ask(j, p))
           \/ Return(j) \/ Exit(j) \/ ChildCrashes(j)
    PROVE  JobDone
<1>1. /\ operations' = operations /\ view' = view /\ reconciliations' = reconciliations /\ phase' = phase
  BY DEF GuardianKills, Ask, Return, Exit, ChildCrashes, ChildSends, ledger, vars, beats
<1>2. /\ Known(requests) /\ Stage(j)
      /\ child[j] \in Child \cup {"none", "exited", "failed", "killed"}
      /\ call[j] \in ModelOps \cup {None} /\ phase[j] \in Controller \cup Idle \cup {"run", "wait"}
  BY KnownRest DEF Tidy, Stages, Programs
<1>3. ASSUME child[j] \in {"running", "dispatch"}
      PROVE  /\ \A q \in requests : ~(q.job = j /\ q.by = "child")
             /\ phase[j] \notin {"absent", "queued", "claim", "begin", "wait", "hold", "end", "uncertain", "finish"}
  BY <1>2, <1>3 DEF Tidy, AllSent, Sent, Asking, Stage, ChildAlive, Child
<1>4. CASE GuardianKills(j) \/ ChildCrashes(j)
  <2>1. PICK y \in {"killed", "failed"} :
            child' = [child EXCEPT ![j] = y] /\ requests' \in Abandoned(j, {"child"}, requests)
    BY <1>4 DEF GuardianKills, ChildCrashes
  <2>2. /\ child'[j] = y /\ \A i \in Jobs \ {j} : child'[i] = child[i]
        /\ ChildAlive(j) /\ call' = call /\ persisted' = persisted /\ inflight' = inflight /\ intents' = intents
    BY <1>4, <2>1 DEF GuardianKills, ChildCrashes, Tidy, Programs, effects
  <2>3. PICK left \in Abandoned(j, {"child"}, requests) : requests' = left
    BY <2>1
  <2>4. Forward
    BY <1>1, <2>2, StillForward
  <2>5. Stage(j)'
    BY <1>1, <1>2, <2>1, <2>2 DEF Stage, ChildAlive, Child, Asking
  <2>6. Known(left) /\ \A q \in left : ~(q.job = j /\ q.by = "child")
    BY <1>2, KnownLeft
  <2>7. Moves(j) /\ Leaves(j, left)
    BY <1>1, <1>2, <2>1, <2>2, <2>3, <2>6 DEF Moves, Leaves, ChildAlive, Child, Tidy, Programs
  <2>8. Tidy'
    BY <2>4, <2>5, <2>7, JobStep
  <2> QED
    BY <1>1, <2>2, <2>8 DEF JobDone, Marked, ChildAlive
<1>5. ASSUME NEW p \in Operations, Ask(j, p) PROVE JobDone
  <2>1. /\ j \in Workers /\ child[j] = "running" /\ p \in OperationsOf[j] /\ p \in ModelOps /\ p # None
        /\ persisted' = persisted /\ inflight' = inflight
    BY <1>5, JobTypes, ClientsAssumption DEF Ask
  <2>2. Forward
    BY <1>1, <2>1, StillForward
  <2>3. CASE p \notin intents
    <3>1. PICK r : /\ r = [job |-> j, by |-> "child", name |-> "begin", stale |-> FALSE, op |-> p]
                   /\ requests' = requests \cup {r}
      BY <1>5, <2>3 DEF Ask
    <3>2. /\ intents' = intents \cup {p} /\ call' = [call EXCEPT ![j] = p]
          /\ child' = [child EXCEPT ![j] = "begin"] /\ child'[j] = "begin" /\ call'[j] = p
          /\ \A i \in Jobs \ {j} : child'[i] = child[i]
      BY <1>5, <2>3 DEF Ask, Tidy, Programs
    <3>3. r \in Request /\ Sent(r)'
      BY <2>1, <3>1, <3>2 DEF Request, Sent, Asking, Controller
    <3>4. Stage(j)'
      BY <1>1, <1>2, <1>3, <2>1, <3>2 DEF Stage, Asking
    <3>5. Moves(j) /\ Leaves(j, requests)
      BY <1>1, <1>2, <1>3, <2>1, <3>1, <3>2, <3>3 DEF Moves, Leaves, Child, Tidy, Programs
    <3>6. Tidy'
      BY <2>2, <3>4, <3>5, JobStep
    <3> QED
      BY <1>1, <2>1, <3>2, <3>6 DEF JobDone, Marked, ChildAlive, Child
  <2>4. CASE p \in intents
    <3>1. /\ child' = [child EXCEPT ![j] = "failed"] /\ child'[j] = "failed"
          /\ call' = call /\ requests' = requests /\ intents' = intents
          /\ \A i \in Jobs \ {j} : child'[i] = child[i]
      BY <1>5, <2>4 DEF Ask, Tidy, Programs
    <3>2. Stage(j)'
      BY <1>1, <1>2, <1>3, <2>1, <3>1 DEF Stage, ChildAlive, Child, Asking
    <3>3. Moves(j) /\ Leaves(j, requests)
      BY <1>1, <1>2, <1>3, <2>1, <3>1 DEF Moves, Leaves, Tidy, Programs
    <3>4. Tidy'
      BY <2>2, <3>2, <3>3, JobStep
    <3> QED
      BY <1>1, <2>1, <3>1, <3>4 DEF JobDone, Marked, ChildAlive, Child
  <2> QED
    BY <2>3, <2>4
<1>6. CASE Return(j)
  <2>1. PICK answered \in BOOLEAN, retained \in BOOLEAN :
            /\ retained => answered
            /\ inflight' = IF answered THEN inflight \ {call[j]} ELSE inflight
            /\ persisted' = IF retained THEN persisted \cup {call[j]} ELSE persisted
            /\ ChildSends(j, IF Confirms(retained) THEN "end" ELSE "uncertain", requests)
    BY <1>6 DEF Return
  <2>2. /\ child[j] = "dispatch" /\ call' = call /\ intents' = intents
        /\ j \in Workers /\ call[j] \in OperationsOf[j] /\ operations[call[j]] # None
        /\ call[j] \in ModelOps
    BY <1>2, <1>6, JobTypes DEF Return, Stage
  <2>3. persisted \subseteq persisted' /\ inflight' \subseteq inflight
    BY <2>1
  <2>4. Forward
    BY <1>1, <2>3, StillForward
  <2>5. retained => call[j] \in persisted' /\ call[j] \notin inflight'
    BY <2>1
  <2>6. Tidy' /\ \A i \in Jobs : ChildAlive(i)' => ChildAlive(i)
    <3>1. CASE retained
      <4>1. ChildSends(j, "end", requests)
        BY <2>1, <3>1 DEF Confirms
      <4> QED
        BY <1>1, <1>2, <1>3, <2>2, <2>4, <2>5, <3>1, <4>1, ChildSendsStep DEF Asking
    <3>2. CASE ~retained
      <4>1. ChildSends(j, "uncertain", requests)
        BY <2>1, <3>2 DEF Confirms
      <4> QED
        BY <1>1, <1>2, <1>3, <2>2, <2>4, <4>1, ChildSendsStep DEF Asking
    <3> QED
      BY <3>1, <3>2
  <2> QED
    BY <1>1, <2>1, <2>2, <2>3, <2>6 DEF JobDone, Marked
<1>7. CASE Exit(j)
  <2>1. /\ child[j] = "running" /\ child' = [child EXCEPT ![j] = "exited"] /\ child'[j] = "exited"
        /\ \A i \in Jobs \ {j} : child'[i] = child[i]
        /\ call' = call /\ requests' = requests /\ intents' = intents /\ inflight' = inflight
        /\ persisted' = IF j \in Workers THEN persisted ELSE persisted \cup OperationsOf[j]
    BY <1>7 DEF Exit, Tidy, Programs
  <2>2. persisted \subseteq persisted' /\ persisted' \subseteq Operations
    BY <2>1, JobTypes DEF Marked
  <2>3. Forward
    BY <1>1, <2>1, <2>2, StillForward
  <2>4. Stage(j)'
    BY <1>1, <1>2, <1>3, <2>1 DEF Stage, ChildAlive, Child, Asking
  <2>5. Moves(j) /\ Leaves(j, requests)
    BY <1>1, <1>2, <1>3, <2>1 DEF Moves, Leaves, Tidy, Programs
  <2>6. Tidy'
    BY <2>3, <2>4, <2>5, JobStep
  <2> QED
    BY <1>1, <2>1, <2>2, <2>6 DEF JobDone, Marked, ChildAlive, Child
<1> QED
  BY <1>4, <1>5, <1>6, <1>7

LEMMA JobStepsDone ==
    ASSUME Tidy, Marked, NEW j \in Jobs, JobSteps(j)
    PROVE  JobDone
<1>1. CASE \E by \in {"controller", "child"} : TimesOut(j, by)
  BY <1>1, TimesOutStep
<1>2. CASE \/ Start(j) \/ HeartbeatDue(j) \/ WaitOver(j) \/ ChildEnded(j)
           \/ GuardTrips(j) \/ WaitLimit(j) \/ Crash(j)
  BY <1>2, ControllerStep
<1>3. CASE \/ GuardianKills(j) \/ (\E p \in Operations : Ask(j, p))
           \/ Return(j) \/ Exit(j) \/ ChildCrashes(j)
  BY <1>3, ChildStep
<1> QED
  BY <1>1, <1>2, <1>3 DEF JobSteps

\* The steps of time, of administrators and of the provider.
LEMMA OthersStep ==
    ASSUME Tidy, Forward, UNCHANGED <<phase, child, call, requests>>
    PROVE  Tidy'
<1>1. Stages'
  BY StageCarried DEF Tidy, Stages
<1>2. Known(requests)
  BY KnownRest DEF Tidy
<1>3. AllSent'
  BY <1>2, Carried DEF Tidy, AllSent
<1> QED
  BY <1>1, <1>3 DEF Tidy, Programs
-----------------------------------------------------------------------------
(* The truth of the ledger, step by step. *)

\* The operations of two jobs differ.
LEMMA OwnOperation ==
    ASSUME NEW i \in Jobs, NEW j \in Jobs, NEW p \in OperationsOf[i], p \in OperationsOf[j]
    PROVE  i = j
BY ClientsAssumption

LEMMA ServeTruth ==
    ASSUME TypeOK, TypeOK', Tidy, Marked, Truth, NEW r \in requests, Serve(r), Births(r)
    PROVE  Truth'
<1> DEFINE j == r.job
           c == ClaimOf[r.job]
<1>1. /\ j \in Jobs /\ r.name \in Controller /\ Sent(r) /\ Stage(j)
      /\ c \in Claims /\ WorkbookOf[j] \in Workbooks /\ OwnerOf[j] \in Owners
      /\ inflight \subseteq ModelOps
  <2>1. r \in Request /\ Sent(r)
    BY DEF Tidy, Programs, AllSent
  <2>2. j \in Jobs /\ r.name \in Controller
    BY <2>1 DEF Request
  <2> QED
    BY <2>1, <2>2, JobTypes DEF Tidy, Stages, Marked
<1>2. /\ persisted' = persisted
      /\ Accepts(r) => Apply(r)
      /\ ~Accepts(r) => UNCHANGED vars
      /\ inflight' = inflight \/ (r.name = "begin" /\ Accepts(r))
      /\ inflight' \subseteq inflight \cup ({r.op} \cap ModelOps)
  BY DEF Serve, ledger
<1>3. ASSUME LedgerKept, ~Accepts(r) \/ r.name \notin {"claim", "begin"}
      PROVE  Truth'
  <2>1. \A i \in Jobs : ChildAlive(i)' => ChildAlive(i)
    BY <1>3 DEF Births, Born
  <2>2. inflight' = inflight
    BY <1>2, <1>3
  <2> QED
    BY <1>1, <1>2, <1>3, <2>1, <2>2, TruthKept
<1>4. CASE ~Accepts(r)
  <2>1. LedgerKept
    BY <1>2, <1>4, SameKept DEF vars, lease
  <2> QED
    BY <1>3, <1>4, <2>1
<1>5. CASE Accepts(r) /\ r.name = "status"
  <2>1. LedgerKept
    BY <1>2, <1>5, Asked, SameKept DEF ledger, vars, lease
  <2> QED
    BY <1>3, <1>5, <2>1
<1>6. CASE Accepts(r) /\ r.name = "heartbeat"
  <2>1. Heartbeat(c)
    BY <1>2, <1>6, Asked
  <2> QED
    BY <1>1, <1>3, <1>6, <2>1, HeartbeatKept
<1>7. CASE Accepts(r) /\ r.name = "uncertain"
  <2>1. End(c, r.op, "uncertain") /\ r.op \in Operations
    BY <1>1, <1>2, <1>7, Asked, JobTypes DEF Sent
  <2>2. LedgerKept
    BY <1>1, <2>1, EndKept DEF LedgerKept
  <2> QED
    BY <1>3, <1>7, <2>2
<1>8. CASE Accepts(r) /\ r.name = "end"
  <2>1. End(c, r.op, "confirmed") /\ r.op \in Operations /\ r.op \in OperationsOf[j]
    BY <1>1, <1>2, <1>8, Asked, JobTypes DEF Sent
  <2>2. /\ claims' = claims
        /\ \A w \in Workbooks : RowKept(w)
        /\ \A q \in Operations \ {r.op} : OperationKept(q)
    BY <1>1, <2>1, EndKept
  <2>3. \A i \in Jobs : ChildAlive(i)' => ChildAlive(i)
    BY <1>8 DEF Births, Born
  <2>4. inflight' = inflight /\ r.op \in persisted /\ r.op \notin inflight
    BY <1>1, <1>2, <1>8 DEF Sent
  <2>5. ASSUME NEW i \in Jobs \ Workers, ChildAlive(i)'
        PROVE  PublicationOf(i) # r.op
    <3>1. ASSUME PublicationOf(i) = r.op PROVE FALSE
      <4>1. i = j
        BY <1>1, <2>1, <3>1, JobTypes, OwnOperation
      <4>2. child[j] = "exited"
        BY <1>1, <1>8, <2>5, <4>1 DEF Sent
      <4> QED
        BY <2>3, <2>5, <4>1, <4>2 DEF ChildAlive, Child
    <3> QED
      BY <3>1
  <2>6. Settles(r.op)
    BY <1>2, <2>4, <2>5 DEF Settles
  <2> QED
    BY <1>1, <1>2, <2>2, <2>3, <2>4, <2>6, TruthMoves
<1>9. CASE Accepts(r) /\ r.name \in {"finish", "hold"}
  <2> DEFINE d == Disposition(r)
             w == claims[c].workbook
  <2>1. Finish(c, d)
    BY <1>2, <1>9, Asked
  <2>2. /\ claims' = claims
        /\ \A p \in Operations : OperationKept(p)
        /\ \A v \in Workbooks \ {w} : RowKept(v)
        /\ d = "hold" => RowKept(w)
        /\ Owned(c) /\ w \in Workbooks
    BY <1>1, <2>1, FinishKept
  <2>3. \A i \in Jobs : ChildAlive(i)' => ChildAlive(i)
    BY <1>9 DEF Births, Born
  <2>4. inflight' = inflight
    BY <1>2, <1>9
  <2>5. CASE d = "hold"
    <3>1. LedgerKept
      BY <2>2, <2>5 DEF LedgerKept
    <3> QED
      BY <1>3, <1>9, <3>1
  <2>6. CASE d # "hold"
    <3>1. r.name = "finish" /\ j \in Collectors
      BY <2>6 DEF Disposition
    <3>2. child[j] = "exited" /\ j \notin Workers /\ OperationsOf[j] \subseteq persisted
      BY <1>1, <3>1, JobTypes DEF Sent, Stage
    <3>3. claims[c] # None /\ w = WorkbookOf[j] /\ workbooks[w].claim = c
      BY <1>1, <2>2 DEF Owned, Truth, GrantedToJob
    <3>4. ASSUME NEW i \in Jobs, ChildAlive(i)'
          PROVE  WorkbookOf[i] # w
      <4>1. ASSUME WorkbookOf[i] = w PROVE FALSE
        <5>1. ChildAlive(i) /\ ClaimOf[i] = c
          BY <2>3, <3>3, <3>4, <4>1 DEF Truth, ChildHoldsClaim
        <5>2. i = j
          BY <1>1, <5>1, ClientsAssumption
        <5> QED
          BY <3>2, <5>1, <5>2 DEF ChildAlive, Child
      <4> QED
        BY <4>1
    <3>5. GivesUp(w)
      BY <1>2, <3>1, <3>2, <3>3, <3>4 DEF GivesUp
    <3> QED
      BY <1>1, <1>2, <2>2, <2>3, <2>4, <3>5, TruthMoves
  <2> QED
    BY <2>5, <2>6
<1>10. CASE Accepts(r) /\ r.name = "claim"
  <2> DEFINE w == WorkbookOf[r.job]
  <2>1. Claim(c, w, OwnerOf[j])
    BY <1>2, <1>10, Asked
  <2>2. /\ \A e \in Claims \ {c} : claims'[e] = claims[e]
        /\ claims'[c].workbook = w
        /\ \A p \in Operations : OperationKept(p)
        /\ \A v \in Workbooks \ {w} : RowKept(v)
        /\ workbooks[w].state = "ready"
        /\ workbooks'[w].state = "active" /\ workbooks'[w].claim = c
    BY <1>1, <2>1, ClaimKept
  <2>3. inflight' = inflight
    BY <1>2, <1>10
  <2>4. GrantedToJob'
    <3>1. ASSUME NEW i \in Jobs, claims'[ClaimOf[i]] # None
          PROVE  claims'[ClaimOf[i]].workbook = WorkbookOf[i]
      <4>1. CASE ClaimOf[i] = c
        BY <1>1, <2>2, <4>1, ClientsAssumption
      <4>2. CASE ClaimOf[i] # c
        BY <2>2, <3>1, <4>2, JobTypes DEF Truth, GrantedToJob
      <4> QED
        BY <4>1, <4>2
    <3> QED
      BY <3>1 DEF GrantedToJob
  <2>5. ChildHoldsClaim'
    <3>1. ASSUME NEW i \in Jobs, ChildAlive(i)'
          PROVE  /\ workbooks'[WorkbookOf[i]].claim = ClaimOf[i]
                 /\ workbooks'[WorkbookOf[i]].state \in {"active", "hold"}
      <4>1. CASE ChildAlive(i)
        <5>1. /\ workbooks[WorkbookOf[i]].claim = ClaimOf[i]
              /\ workbooks[WorkbookOf[i]].state \in {"active", "hold"}
          BY <4>1 DEF Truth, ChildHoldsClaim
        <5> QED
          BY <2>2, <5>1, JobTypes DEF RowKept
      <4>2. CASE ~ChildAlive(i)
        <5>1. i = j
          BY <3>1, <4>2 DEF Births, Born
        <5> QED
          BY <2>2, <5>1
      <4> QED
        BY <4>1, <4>2
    <3> QED
      BY <3>1 DEF ChildHoldsClaim
  <2>6. EffectsCounted'
    <3>1. ASSUME NEW i \in Jobs \ Workers, ChildAlive(i)' PROVE Occupied(PublicationOf(i))'
      <4>1. ChildAlive(i)
        BY <1>10, <3>1 DEF Births, Born
      <4>2. Occupied(PublicationOf(i)) /\ PublicationOf(i) \in Operations
        BY <4>1, JobTypes DEF Truth, EffectsCounted
      <4> QED
        BY <2>2, <4>2 DEF OperationKept
    <3>2. \A p \in inflight' : Occupied(p)'
      BY <1>1, <2>2, <2>3 DEF Truth, EffectsCounted, OperationKept
    <3>3. \A i \in Jobs : PublicationOf(i)' = PublicationOf(i)
      BY DEF PublicationOf
    <3> QED
      BY <3>1, <3>2, <3>3 DEF EffectsCounted
  <2>7. ConfirmedIsRetained'
    <3>1. ASSUME NEW v \in Workbooks, workbooks'[v].state = "complete"
          PROVE  workbooks[v].state = "complete"
      BY <2>2, <3>1 DEF RowKept
    <3> QED
      BY <1>2, <2>2, <3>1 DEF Truth, ConfirmedIsRetained, OperationKept
  <2> QED
    BY <2>4, <2>5, <2>6, <2>7 DEF Truth
<1>11. CASE Accepts(r) /\ r.name = "begin"
  <2>1. Begin(c, r.op) /\ r.op \in OperationsOf[j] /\ r.op \in Operations
    BY <1>1, <1>2, <1>11, Asked, JobTypes DEF Sent
  <2>2. LedgerKept /\ Occupied(r.op)'
    BY <1>1, <2>1, BeginKept
  <2>3. workbooks' = workbooks /\ Owned(c)
    BY <2>1 DEF Begin, Admitted, lease
  <2>4. /\ workbooks[WorkbookOf[j]].claim = c /\ workbooks[WorkbookOf[j]].state = "active"
    BY <1>1, <2>3 DEF Owned, Truth, GrantedToJob
  <2>5. GrantedToJob'
    BY <2>2 DEF Truth, LedgerKept, GrantedToJob
  <2>6. ChildHoldsClaim'
    <3>1. ASSUME NEW i \in Jobs, ChildAlive(i)'
          PROVE  /\ workbooks'[WorkbookOf[i]].claim = ClaimOf[i]
                 /\ workbooks'[WorkbookOf[i]].state \in {"active", "hold"}
      <4>1. CASE ChildAlive(i)
        BY <2>3, <4>1 DEF Truth, ChildHoldsClaim
      <4>2. CASE ~ChildAlive(i)
        <5>1. i = j
          BY <3>1, <4>2 DEF Births, Born
        <5> QED
          BY <2>3, <2>4, <5>1
      <4> QED
        BY <4>1, <4>2
    <3> QED
      BY <3>1 DEF ChildHoldsClaim
  <2>7. EffectsCounted'
    <3>1. ASSUME NEW i \in Jobs \ Workers, ChildAlive(i)' PROVE Occupied(PublicationOf(i))'
      <4>1. CASE ChildAlive(i)
        <5>1. Occupied(PublicationOf(i)) /\ PublicationOf(i) \in Operations
          BY <4>1, JobTypes DEF Truth, EffectsCounted
        <5> QED
          BY <2>2, <5>1 DEF LedgerKept, OperationKept
      <4>2. CASE ~ChildAlive(i)
        <5>1. i = j
          BY <3>1, <4>2 DEF Births, Born
        <5>2. PublicationOf(i) = r.op
          BY <2>1, <5>1, JobTypes
        <5> QED
          BY <2>2, <5>2
      <4> QED
        BY <4>1, <4>2
    <3>2. ASSUME NEW p \in inflight' PROVE Occupied(p)'
      <4>1. CASE p = r.op
        BY <2>2, <4>1
      <4>2. CASE p # r.op
        BY <1>1, <1>2, <2>2, <4>2 DEF Truth, EffectsCounted, LedgerKept, OperationKept
      <4> QED
        BY <4>1, <4>2
    <3>3. \A i \in Jobs : PublicationOf(i)' = PublicationOf(i)
      BY DEF PublicationOf
    <3> QED
      BY <3>1, <3>2, <3>3 DEF EffectsCounted
  <2>8. ConfirmedIsRetained'
    BY <1>2, <2>2, <2>3 DEF Truth, ConfirmedIsRetained, LedgerKept, OperationKept
  <2> QED
    BY <2>5, <2>6, <2>7, <2>8 DEF Truth
<1> QED
  BY <1>1, <1>4, <1>5, <1>6, <1>7, <1>8, <1>9, <1>10, <1>11 DEF Controller

LEMMA AdministerTruth ==
    ASSUME TypeOK, TypeOK', Marked, Truth, Administer
    PROVE  Truth'
<1>1. /\ persisted' = persisted /\ inflight' = inflight /\ inflight \subseteq ModelOps
      /\ \A i \in Jobs : ChildAlive(i)' => ChildAlive(i)
  BY DEF Administer, clients, effects, ChildAlive, Marked
<1>2. LedgerKept => Truth'
  BY <1>1, TruthKept
<1>3. ASSUME NEW j \in Present, Enroll(WorkbookOf[j]) PROVE Truth'
  BY <1>2, <1>3, EnrollKept, JobTypes DEF Present
<1>4. ASSUME NEW j \in Present, NEW d \in {"ready", "complete", "hold"},
             OwnerStopped(WorkbookOf[j]), d = "complete" => Collected(WorkbookOf[j]),
             Reconcile(WorkbookOf[j], d)
      PROVE  Truth'
  <2> DEFINE w == WorkbookOf[j]
  <2>1. /\ w \in Workbooks /\ claims' = claims
        /\ \A p \in Operations : OperationKept(p)
        /\ \A v \in Workbooks \ {w} : RowKept(v)
        /\ workbooks'[w].state = d
    BY <1>4, ReconcileKept, JobTypes DEF Present
  <2>2. ASSUME NEW i \in Jobs, ChildAlive(i)' PROVE WorkbookOf[i] # w
    BY <1>1, <1>4, <2>2 DEF OwnerStopped, Truth, ChildHoldsClaim
  <2>3. GivesUp(w)
    BY <1>1, <1>4, <2>1, <2>2 DEF GivesUp
  <2> QED
    BY <1>1, <2>1, <2>3, TruthMoves
<1>5. ASSUME NEW j \in Present, AbandonClaim(ClaimOf[j]) PROVE Truth'
  BY <1>2, <1>5, SameKept DEF AbandonClaim
<1>6. ASSUME NEW p \in Operations, NEW d \in {"confirmed", "abandoned"},
             EffectOver(p), (d = "confirmed") = (p \in persisted), ReconcileOperation(p, d)
      PROVE  Truth'
  <2>1. /\ claims' = claims
        /\ \A q \in Operations \ {p} : OperationKept(q)
        /\ \A w \in Workbooks : RowKept(w)
        /\ operations'[p].state = d
    BY <1>6, ReconcileOperationKept
  <2>2. ASSUME NEW i \in Jobs \ Workers, ChildAlive(i)' PROVE PublicationOf(i) # p
    BY <1>1, <1>6, <2>2, JobTypes DEF EffectOver
  <2>3. Settles(p)
    BY <1>1, <1>6, <2>1, <2>2 DEF Settles, EffectOver
  <2> QED
    BY <1>1, <2>1, <2>3, TruthMoves
<1> QED
  BY <1>3, <1>4, <1>5, <1>6 DEF Administer
-----------------------------------------------------------------------------
(* The invariant, and what follows from it. *)

LEMMA ClientsInvInit == ClientsInit => ClientsInv
<1> SUFFICES ASSUME ClientsInit PROVE ClientsInv
  OBVIOUS
<1>1. Init
  BY DEF ClientsInit
<1>2. TypeInv
  BY <1>1, InitType DEF TypeInv, Init, Unenrolled, RowsNamed
<1>3. EffectsInv
  BY <1>1 DEF Init, EffectsInv, SettledSpent, OneExecution
<1>4. \A j \in Jobs : phase[j] \in {"queued", "absent"} /\ child[j] = "none"
  BY DEF ClientsInit
<1>5. Programs /\ Marked
  <2>1. Programs
    BY DEF ClientsInit, Programs, Idle
  <2>2. Marked
    BY ClientsAssumption DEF ClientsInit, Marked
  <2> QED
    BY <2>1, <2>2
<1>6. Stages
  BY <1>4 DEF Stages, Stage, ChildAlive, Child, Asking
<1>7. AllSent
  BY DEF ClientsInit, AllSent
<1>8. Truth
  <2>1. GrantedToJob
    BY <1>1, JobTypes DEF GrantedToJob, Init
  <2>2. ChildHoldsClaim
    BY <1>4 DEF ChildHoldsClaim, ChildAlive, Child
  <2>3. EffectsCounted
    BY <1>4 DEF EffectsCounted, ChildAlive, Child, ClientsInit
  <2>4. ConfirmedIsRetained
    BY <1>1 DEF ConfirmedIsRetained, Init, Unenrolled
  <2> QED
    BY <2>1, <2>2, <2>3, <2>4 DEF Truth
<1> QED
  BY <1>2, <1>3, <1>5, <1>6, <1>7, <1>8, ClientsTypes DEF ClientsInv

LEMMA ServeMarked ==
    ASSUME Marked, NEW r, Serve(r)
    PROVE  Marked'
<1>1. view' \in [Jobs -> {"previous", "attempted", "other"}]
  <2>1. PICK answered \in BOOLEAN : Checkpoint(r, Accepts(r), answered)
    BY DEF Serve
  <2> QED
    BY <2>1 DEF Checkpoint, Marked
<1> QED
  BY <1>1 DEF Marked, Serve

LEMMA ClientsStep == ClientsInv /\ [ClientsNext]_all => ClientsInv'
<1> SUFFICES ASSUME ClientsInv, [ClientsNext]_all PROVE ClientsInv'
  OBVIOUS
<1>1. /\ TypeOK /\ RowsNamed /\ EffectsInv /\ Tidy /\ Marked /\ Truth
      /\ ClientsTypeOK /\ AllSent /\ inflight \subseteq ModelOps
  BY ClientsTypes DEF ClientsInv, TypeInv, Tidy, Marked
<1>2. [Next]_vars
  BY <1>1, LedgerStep
<1>3. TypeOK' /\ RowsNamed' /\ EffectsInv'
  BY <1>1, <1>2, TypeStep, RowsNamedStep, EffectsStep
<1>4. Tidy' /\ Marked' /\ Truth'
  <2>0. \A p \in Operations : operations[p] # None => operations'[p] # None
    BY <1>1, <1>2, SettleStep
  <2>1. ASSUME UNCHANGED clients PROVE Tidy' /\ Marked'
    <3>1. /\ UNCHANGED <<phase, child, call, requests>> /\ persisted' = persisted /\ inflight' = inflight
          /\ UNCHANGED <<view, reconciliations, intents>>
      BY <2>1 DEF clients, beats, effects
    <3>2. Forward
      BY <1>1, <2>0, <3>1 DEF Forward, AllSent, Sent
    <3> QED
      BY <1>1, <3>1, <3>2, OthersStep DEF Marked
  <2>2. ASSUME LedgerKept, UNCHANGED clients PROVE Truth'
    <3>1. child' = child /\ persisted' = persisted /\ inflight' = inflight
      BY <2>2 DEF clients, effects
    <3> QED
      BY <1>1, <2>2, <3>1, TruthKept DEF ChildAlive
  <2>3. CASE (Tick \/ Sweep) /\ UNCHANGED clients
    BY <1>1, <1>3, <2>1, <2>2, <2>3, TimeKept
  <2>4. CASE Administer
    <3>1. UNCHANGED clients
      BY <2>4 DEF Administer
    <3> QED
      BY <1>1, <1>3, <2>1, <2>4, <3>1, AdministerTruth
  <2>5. ASSUME NEW r \in requests, Serve(r) PROVE Tidy' /\ Marked' /\ Truth'
    <3>1. Tidy' /\ Births(r)
      BY <1>1, <1>3, <2>5, ServeTidy
    <3> QED
      BY <1>1, <1>3, <2>5, <3>1, ServeTruth, ServeMarked
  <2>6. ASSUME NEW j \in Jobs, JobSteps(j) PROVE Tidy' /\ Marked' /\ Truth'
    <3>1. JobDone
      BY <1>1, <2>6, JobStepsDone
    <3>2. LedgerKept
      BY <2>6, JobLedger, SameKept DEF vars, lease
    <3> QED
      BY <1>1, <3>1, <3>2, TruthKept DEF JobDone
  <2>7. ASSUME NEW p \in Operations, ProviderEnds(p) PROVE Tidy' /\ Marked' /\ Truth'
    <3>1. /\ UNCHANGED vars /\ UNCHANGED <<phase, child, call, requests>>
          /\ UNCHANGED <<view, reconciliations, intents>> /\ persisted' = persisted
          /\ inflight' \subseteq inflight
      BY <2>7 DEF ProviderEnds, ledger, beats
    <3>2. operations' = operations /\ LedgerKept
      BY <3>1, SameKept DEF vars, lease
    <3>3. Forward
      BY <1>1, <3>1, <3>2, StillForward
    <3>4. Tidy'
      BY <1>1, <3>1, <3>3, OthersStep
    <3> QED
      BY <1>1, <3>1, <3>2, <3>4, TruthKept DEF Marked, ChildAlive
  <2>8. CASE UNCHANGED all
    <3>1. UNCHANGED clients /\ UNCHANGED vars
      BY <2>8 DEF all, ledger
    <3>2. LedgerKept
      BY <3>1, SameKept DEF vars, lease
    <3> QED
      BY <2>1, <2>2, <3>1, <3>2
  <2> QED
    BY <2>3, <2>4, <2>5, <2>6, <2>7, <2>8 DEF ClientsNext, JobSteps
<1>5. ClientsTypeOK'
  BY <1>4 DEF ClientsTypeOK, Tidy, Programs, Marked, Request
<1> QED
  BY <1>3, <1>4, <1>5 DEF ClientsInv, TypeInv, Tidy

LEMMA ClientsInvariant == ClientsSpec => []ClientsInv
BY ClientsInvInit, ClientsStep, PTL DEF ClientsSpec

\* Every reachable state of the programs is well typed, and no job reconciles
\* more heartbeats than its policy permits (heartbeat_reconciliation.py).
THEOREM ClientsTypeCorrect == ClientsSpec => []ClientsTypeOK
<1>1. ClientsInv => ClientsTypeOK
  BY DEF ClientsInv
<1> QED
  BY <1>1, ClientsInvariant, PTL

\* A child lives only under a row that still names its job's claim: through
\* lost replies, late requests, crashes and reconciliations, no two children
\* ever work on one workbook (worker.py, publish.py).
THEOREM CustodyCorrect == ClientsSpec => []ChildHoldsClaim
<1>1. ClientsInv => ChildHoldsClaim
  BY DEF ClientsInv, Truth
<1> QED
  BY <1>1, ClientsInvariant, PTL

\* Whatever runs is counted, and whatever is confirmed was retained: the reply
\* to a begin may be lost or late and its sender dead (model_gate.py, publish.py).
THEOREM TruthCorrect == ClientsSpec => []LedgerTruthful
<1>1. ClientsInv => LedgerTruthful
  BY DEF ClientsInv, Truth, LedgerTruthful
<1> QED
  BY <1>1, ClientsInvariant, PTL

\* The programs implement the ledger: with their own administrators and the
\* requests that they really send, every step of theirs is a step that the
\* ledger allows, or none.
THEOREM LedgerCorrect == ClientsSpec => Spec
<1>1. ClientsInit => Init
  BY DEF ClientsInit
<1>2. ClientsInv /\ [ClientsNext]_all => [Next]_vars
  BY LedgerStep DEF ClientsInv
<1> QED
  BY <1>1, <1>2, ClientsInvariant, PTL DEF ClientsSpec, Spec

\* So they keep the promise of WorkbookCustody: with late requests, lost
\* replies and dead senders, an effect is started once and by the custodian.
THEOREM ClientsPromise == ClientsSpec => KeepsCustody
BY LedgerCorrect, PromiseCorrect, PTL

\* The fleet's limits on what really runs, not on what the ledger counts: one
\* child on a workbook, one publication in the fleet, one model call of a
\* workbook and no more than the limit of all at the provider, whether or not
\* anyone still waits for them.
RealLimits ==
    /\ \A i, j \in Jobs :
        ChildAlive(i) /\ ChildAlive(j) /\ WorkbookOf[i] = WorkbookOf[j] => i = j
    /\ \A i, j \in Jobs \ Workers : ChildAlive(i) /\ ChildAlive(j) => i = j
    /\ \A p, q \in inflight : operations[p].workbook = operations[q].workbook => p = q
    /\ modelPolicy.limit # NoCap => Cardinality(inflight) <= modelPolicy.limit

LEMMA RealLimitsHold ==
    ASSUME TypeOK, ClientsInv, CapacityInv
    PROVE  RealLimits
<1>1. ASSUME NEW i \in Jobs, NEW j \in Jobs, ChildAlive(i), ChildAlive(j),
             WorkbookOf[i] = WorkbookOf[j]
      PROVE  i = j
  BY <1>1, ClientsAssumption DEF ClientsInv, Truth, ChildHoldsClaim
<1>2. ASSUME NEW i \in Jobs \ Workers, NEW j \in Jobs \ Workers, ChildAlive(i), ChildAlive(j)
      PROVE  i = j
  <2>1. /\ PublicationOf(i) \in OperationsOf[i] /\ PublicationOf(i) \in PublicationOps
        /\ PublicationOf(j) \in OperationsOf[j] /\ PublicationOf(j) \in PublicationOps
    BY JobTypes
  <2>2. Occupied(PublicationOf(i)) /\ Occupied(PublicationOf(j))
    BY <1>2 DEF ClientsInv, Truth, EffectsCounted
  <2>3. PublicationOf(i) = PublicationOf(j)
    BY <2>1, <2>2 DEF CapacityInv, OneEach
  <2> QED
    BY <2>1, <2>3, ClientsAssumption
<1>3. inflight \subseteq OccupiedModels
  BY DEF ClientsInv, ClientsTypeOK, Truth, EffectsCounted, OccupiedModels
<1>4. \A p, q \in inflight : operations[p].workbook = operations[q].workbook => p = q
  BY <1>3 DEF CapacityInv, OneEach, OccupiedModels
<1>5. modelPolicy.limit # NoCap => Cardinality(inflight) <= modelPolicy.limit
  <2>1. /\ IsFiniteSet(OccupiedModels) /\ IsFiniteSet(inflight)
        /\ Cardinality(inflight) <= Cardinality(OccupiedModels)
    BY <1>3, FS_Subset DEF CapacityInv, WithinLimit
  <2>2. /\ Cardinality(inflight) \in Nat /\ Cardinality(OccupiedModels) \in Nat
        /\ modelPolicy.limit # NoCap => modelPolicy.limit \in Nat
    BY <2>1, FS_CardinalityType, LedgerAssumption DEF TypeOK
  <2> QED
    BY <2>1, <2>2 DEF CapacityInv, WithinLimit
<1> QED
  BY <1>1, <1>2, <1>4, <1>5 DEF RealLimits

\* The limits hold of children and of the provider, through lost replies, late
\* requests, crashes and reconciliations.
THEOREM FleetBounded == ClientsSpec => []RealLimits
<1>1. ClientsSpec => []CapacityInv
  BY LedgerCorrect, CapacityInvariant, PTL
<1>2. ClientsInv => TypeOK
  BY DEF ClientsInv, TypeInv
<1> QED
  BY <1>1, <1>2, RealLimitsHold, ClientsInvariant, PTL

\* Real work begins only in the step in which the ledger grants it: a model
\* call and a publication with the begin of their identifier, an author's
\* child with its claim.  As no identifier is granted twice, none of it is
\* ever done twice, however often a request arrives or a machine dies.
WorkOnce ==
    [][/\ \A p \in ModelOps :
            p \in inflight' /\ p \notin inflight => operations[p] = None /\ operations'[p] # None
       /\ \A j \in Workers :
            ChildAlive(j)' /\ ~ChildAlive(j)
                => claims[ClaimOf[j]] = None /\ claims'[ClaimOf[j]] # None
       /\ \A j \in Jobs \ Workers :
            ChildAlive(j)' /\ ~ChildAlive(j)
                => operations[PublicationOf(j)] = None /\ operations'[PublicationOf(j)] # None]_all

\* The answer to a claim or a begin is given by the step that grants it.
LEMMA GrantedNow ==
    ASSUME TypeOK, TypeOK', ClientsTypeOK, AllSent, NEW r \in requests, Accepts(r), Apply(r)
    PROVE  /\ r.name = "claim" => claims[ClaimOf[r.job]] = None /\ claims'[ClaimOf[r.job]] # None
           /\ r.name = "begin" =>
                r.op \in OperationsOf[r.job] /\ operations[r.op] = None /\ operations'[r.op] # None
<1>1. /\ r.job \in Jobs /\ Sent(r) /\ ClaimOf[r.job] \in Claims
      /\ WorkbookOf[r.job] \in Workbooks /\ OwnerOf[r.job] \in Owners
  BY JobTypes DEF ClientsTypeOK, AllSent
<1>2. CASE r.name = "claim"
  <2>1. /\ Claimable(ClaimOf[r.job], WorkbookOf[r.job], OwnerOf[r.job])
        /\ Claim(ClaimOf[r.job], WorkbookOf[r.job], OwnerOf[r.job])
    BY <1>2, Asked
  <2>2. claims' = [claims EXCEPT ![ClaimOf[r.job]] =
            [workbook |-> WorkbookOf[r.job], owner |-> OwnerOf[r.job],
             fence |-> workbooks[WorkbookOf[r.job]].fence + 1]]
    BY <2>1 DEF Claim, NextFence
  <2>3. [workbook |-> WorkbookOf[r.job], owner |-> OwnerOf[r.job],
         fence |-> workbooks[WorkbookOf[r.job]].fence + 1] \in Grant
    BY <1>1 DEF TypeOK, Grant, Row
  <2> QED
    BY <1>1, <1>2, <2>1, <2>2, <2>3, LedgerAssumption DEF Claimable, Grantable, TypeOK
<1>3. CASE r.name = "begin"
  <2>1. r.op \in OperationsOf[r.job] /\ r.op \in Operations
    BY <1>1, <1>3, JobTypes DEF Sent
  <2> QED
    BY <1>1, <1>3, <2>1, Asked, BeginMoves
<1> QED
  BY <1>2, <1>3

LEMMA WorkOnceStep ==
    ASSUME ClientsInv, [ClientsNext]_all
    PROVE  /\ \A p \in ModelOps :
                p \in inflight' /\ p \notin inflight
                    => operations[p] = None /\ operations'[p] # None
           /\ \A j \in Workers :
                ChildAlive(j)' /\ ~ChildAlive(j)
                    => claims[ClaimOf[j]] = None /\ claims'[ClaimOf[j]] # None
           /\ \A j \in Jobs \ Workers :
                ChildAlive(j)' /\ ~ChildAlive(j)
                    => operations[PublicationOf(j)] = None /\ operations'[PublicationOf(j)] # None
<1>1. /\ TypeOK /\ EffectsInv /\ Tidy /\ Marked /\ ClientsTypeOK /\ AllSent /\ TypeOK'
  BY ClientsTypes, ClientsStep DEF ClientsInv, TypeInv, Tidy, Marked
<1>2. CASE \E r \in requests : Serve(r)
  <2>1. PICK r \in requests : Serve(r)
    BY <1>2
  <2>2. Births(r)
    BY <1>1, <2>1, ServeTidy
  <2>3. r.job \in Jobs
    BY <1>1 DEF ClientsTypeOK
  <2>4. \/ inflight' = inflight
        \/ inflight' = inflight \cup ({r.op} \cap ModelOps) /\ r.name = "begin"
            /\ Accepts(r) /\ Apply(r)
    BY <2>1 DEF Serve
  <2>5. ASSUME NEW p \in ModelOps, p \in inflight', p \notin inflight
        PROVE  operations[p] = None /\ operations'[p] # None
    BY <1>1, <2>4, <2>5, GrantedNow
  <2>6. ASSUME NEW j \in Workers, ChildAlive(j)', ~ChildAlive(j)
        PROVE  claims[ClaimOf[j]] = None /\ claims'[ClaimOf[j]] # None
    <3>1. Born(r, j)
      BY <2>2, <2>6, JobTypes DEF Births
    <3> QED
      BY <1>1, <2>6, <3>1, GrantedNow DEF Born
  <2>7. ASSUME NEW j \in Jobs \ Workers, ChildAlive(j)', ~ChildAlive(j)
        PROVE  operations[PublicationOf(j)] = None /\ operations'[PublicationOf(j)] # None
    <3>1. Born(r, j)
      BY <2>2, <2>7 DEF Births
    <3> QED
      BY <1>1, <2>7, <3>1, GrantedNow, JobTypes DEF Born
  <2> QED
    BY <2>5, <2>6, <2>7
<1>3. CASE \E j \in Jobs : JobSteps(j)
  BY <1>1, <1>3, JobStepsDone, JobTypes DEF JobDone
<1>4. CASE UNCHANGED clients \/ \E p \in Operations : ProviderEnds(p)
  BY <1>4 DEF clients, effects, ProviderEnds, ChildAlive, Jobs
<1> QED
  BY <1>2, <1>3, <1>4 DEF ClientsNext, JobSteps, Administer, all

\* Nothing is done twice: work begins with its grant and nowhere else.
THEOREM WorkDoneOnce == ClientsSpec => WorkOnce
BY ClientsInvariant, WorkOnceStep, PTL DEF ClientsSpec, WorkOnce
=============================================================================

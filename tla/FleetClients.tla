---------------------------- MODULE FleetClients ----------------------------
(***************************************************************************)
(* The programs that work under the coordinator's ledger: the worker of    *)
(* scripts/fleet/worker.py with the model calls of model_gate.py that its  *)
(* child makes, the publications of publish.py, and the heartbeats of      *)
(* heartbeat_reconciliation.py.                                            *)
(*                                                                         *)
(* A call is a request; its caller waits for the reply or times out.  The  *)
(* request may be served in time, served and its reply lost, served after  *)
(* its caller has given up or died, or never.  No caller sends a request   *)
(* again.  A controller may die at any moment, and its guardian then kills *)
(* the child; a model call that the provider has accepted goes on whether  *)
(* or not anyone waits for it.                                             *)
(***************************************************************************)
EXTENDS FleetCoordinator

CONSTANTS
    Workers,            \* authoring jobs
    Remotes,            \* publications on a worker's machine
    Collectors,         \* collections of a published output on the root machine
    ClaimOf,            \* ClaimOf[j]: the claim identifier in the job's intent
    WorkbookOf,         \* WorkbookOf[j]: the workbook of the job
    OwnerOf,            \* OwnerOf[j]: the owner that the job runs as
    OperationsOf,       \* OperationsOf[j]: the model calls of a worker, the one publication of another
    Fleets,             \* bound: sets of jobs that are ever started together
    Patient,            \* jobs with a heartbeat reconciliation policy
    MaxStrays,          \* bound: requests that are on their way though nobody waits for them
    Straying,           \* bound: jobs whose requests may be
    MaxReconciliations  \* failed heartbeats that a policy lets a job reconcile (2 in the code)

Jobs == Workers \cup Remotes \cup Collectors

ASSUME ClientsAssumption ==
    /\ Workers \cap (Remotes \cup Collectors) = {} /\ Remotes \cap Collectors = {}
    /\ ClaimOf \in [Jobs -> Claims]
    /\ \A i, j \in Jobs : ClaimOf[i] = ClaimOf[j] => i = j
    /\ WorkbookOf \in [Jobs -> Workbooks]
    /\ OwnerOf \in [Jobs -> Owners]
    /\ \A i, j \in Jobs : i # j => OperationsOf[i] \cap OperationsOf[j] = {}
    /\ \A j \in Workers : OperationsOf[j] \subseteq ModelOps
    /\ \A j \in Jobs \ Workers : \E p \in PublicationOps : OperationsOf[j] = {p}
    /\ Fleets \subseteq SUBSET Jobs
    /\ Patient \subseteq Workers /\ Straying \subseteq Jobs
    /\ MaxStrays \in Nat /\ MaxReconciliations \in Nat
    /\ None \notin Operations

VARIABLES
    phase,          \* where the job's controller is; the name of a request it waits for
    child,          \* where its guarded child is, likewise
    call,           \* the model call that the child is on
    requests,       \* requests that may still reach the coordinator
    view,           \* the last checkpoint of the job's claim, as its heartbeats know it
    reconciliations,\* heartbeats of the job that were reconciled
    intents,        \* model calls whose intent is retained
    inflight,       \* model calls that the provider is executing
    persisted       \* operations whose result is retained and verified

ledger == vars
beats == <<view, reconciliations>>
effects == <<intents, inflight, persisted>>
clients == <<phase, child, call, requests, beats, effects>>
all == <<ledger, clients>>

Controller == {"claim", "heartbeat", "status", "begin", "end", "uncertain", "finish", "hold"}
Child == {"running", "dispatch", "begin", "status", "heartbeat", "end", "uncertain"}

Idle == {"absent", "queued", "done", "crashed"}

ChildAlive(j) == child[j] \in Child

\* Mutant: the last request of a job has no time limit.
WaitsForLast(j, by) ==
    IF by = "controller" THEN phase[j] \in Controller \ {"finish", "hold", "uncertain"}
    ELSE child[j] \in Child \ {"running", "dispatch"}

Waits(j, by) ==
    IF by = "controller" THEN phase[j] \in Controller
    ELSE child[j] \in Child \ {"running", "dispatch"}

\* The publication of a job that is not a worker.
PublicationOf(j) == CHOOSE p \in OperationsOf[j] : TRUE

ClientsInit ==
    /\ Init
    /\ \E present \in Fleets : phase = [j \in Jobs |-> IF j \in present THEN "queued" ELSE "absent"]
    /\ child = [j \in Jobs |-> "none"]
    /\ call = [j \in Jobs |-> None]
    /\ requests = {}
    /\ view = [j \in Jobs |-> "previous"]
    /\ reconciliations = [j \in Jobs |-> 0]
    /\ intents = {} /\ inflight = {} /\ persisted = {}

-----------------------------------------------------------------------------
(* Requests and what becomes of their callers.  An "end" confirms, an      *)
(* "uncertain" ends an operation whose outcome is not known, and a "hold"  *)
(* is the finish of a publication that was not admitted.                   *)

ByController(j, name) ==
    [job |-> j, by |-> "controller", name |-> name, stale |-> FALSE,
     op |-> IF name \in {"begin", "end", "uncertain"} THEN PublicationOf(j) ELSE None]

ByChild(j, name) ==
    [job |-> j, by |-> "child", name |-> name, stale |-> FALSE, op |-> call[j]]

Awaited(r) ==
    \/ r.by = "controller" /\ phase[r.job] = r.name
    \/ r.by = "child" /\ child[r.job] = r.name

\* The requests that may be left when these callers of job j no longer wait:
\* their own are lost or, up to the bound, still on their way.
Abandoned(j, callers, these) ==
    LET own == {r \in these : r.job = j /\ r.by \in callers}
        strays == {r \in these : r.by = "gone"}
        Late == {late \in SUBSET {r \in own : j \in Straying} :
                    Cardinality(strays) + Cardinality(late) <= MaxStrays}
    IN {(these \ own) \cup {[r EXCEPT !.by = "gone"] : r \in late} : late \in Late}

ControllerSends(j, name, rest) ==
    /\ phase' = [phase EXCEPT ![j] = name]
    /\ requests' = rest \cup {ByController(j, name)}
    /\ UNCHANGED child

ChildSends(j, name, rest) ==
    /\ child' = [child EXCEPT ![j] = name]
    /\ requests' = rest \cup {ByChild(j, name)}
    /\ UNCHANGED phase

\* A controller's heartbeat carries a new checkpoint; what an earlier one of
\* its own carries is out of date from then on.
Beats(j, rest) ==
    ControllerSends(j, "heartbeat",
        {[r EXCEPT !.stale = @ \/ (r.job = j /\ r.name = "heartbeat" /\ r.op = None)] : r \in rest})

\* What the handler of an exception asks for: an admitted publication is
\* uncertain from then on.
LastRequest(j) ==
    IF j \in Workers THEN "finish" ELSE IF child[j] = "none" THEN "hold" ELSE "uncertain"

\* An exception in the controller; leaving the guarded block kills the child.
Fails(j, rest) ==
    /\ phase' = [phase EXCEPT ![j] = LastRequest(j)]
    /\ child' = [child EXCEPT ![j] = IF ChildAlive(j) THEN "killed" ELSE @]
    /\ \E left \in Abandoned(j, {"child"}, rest) :
        requests' = left \cup {ByController(j, LastRequest(j))}

\* A request raises an exception in its caller.  Nothing is asked again.
Raises(j, by, rest) ==
    IF by = "child"
    THEN /\ child' = [child EXCEPT ![j] = "failed"]
         /\ requests' = rest
         /\ UNCHANGED phase
    ELSE IF \/ phase[j] \in {"claim", "uncertain", "hold"}
            \/ phase[j] = "finish" /\ j \in Workers
    THEN /\ phase' = [phase EXCEPT ![j] = "done"]
         /\ requests' = rest
         /\ UNCHANGED child
    ELSE Fails(j, rest)

-----------------------------------------------------------------------------
(* The coordinator serves a request. *)

Disposition(r) == IF r.name = "finish" /\ r.job \in Collectors THEN "complete" ELSE "hold"

Accepts(r) ==
    LET c == ClaimOf[r.job] IN
    CASE r.name = "claim" -> Claimable(c, WorkbookOf[r.job], OwnerOf[r.job])
      [] r.name = "heartbeat" -> Owned(c)
      [] r.name = "begin" -> Admitted(c, r.op) /\ Unconsumed(r.op) /\ ~Busy(c, r.op)
      [] r.name \in {"end", "uncertain"} -> Ends(c, r.op)
      [] r.name \in {"finish", "hold"} -> Finishes(c, Disposition(r))
      [] OTHER -> TRUE

Apply(r) ==
    LET c == ClaimOf[r.job] IN
    CASE r.name = "claim" -> Claim(c, WorkbookOf[r.job], OwnerOf[r.job])
      [] r.name = "heartbeat" -> Heartbeat(c)
      [] r.name = "begin" -> Begin(c, r.op)
      [] r.name = "end" -> End(c, r.op, "confirmed")
      [] r.name = "uncertain" -> End(c, r.op, "uncertain")
      [] r.name \in {"finish", "hold"} -> Finish(c, Disposition(r))
      [] OTHER -> UNCHANGED ledger

\* The operation that makes p wait is itself in hold.
BusyHeld(p) ==
    \E u \in Operations : /\ (u \in ModelOps) = (p \in ModelOps)
                          /\ operations[u] # None /\ operations[u].state = "hold"

\* Begin was refused for now: wait, unless a publication in the way needs
\* reconciliation; a child first looks at the holds in its way.
Waiting(r, rest) ==
    LET j == r.job IN
    CASE r.by = "child" /\ BusyHeld(r.op) -> ChildSends(j, "status", rest)
      [] r.by = "child" /\ ~BusyHeld(r.op) ->
            \E next \in {"heartbeat", "begin"} : ChildSends(j, next, rest)
      [] r.by = "controller" /\ BusyHeld(r.op) -> Fails(j, rest)
      [] r.by = "controller" /\ ~BusyHeld(r.op) ->
            /\ phase' = [phase EXCEPT ![j] = "wait"]
            /\ requests' = rest
            /\ UNCHANGED child

\* Every held model call is another workbook's, under the claim that its row
\* still names: only then does a child go on waiting.
OthersHeld(j, p) ==
    \A u \in ModelOps : (operations[u] # None /\ operations[u].state = "hold") =>
        /\ operations[u].workbook # WorkbookOf[j] /\ u # p
        /\ LET row == workbooks[operations[u].workbook] IN
            row.state = "hold" /\ row.owner = operations[u].owner
                /\ row.fence = operations[u].fence

\* After a failed heartbeat the job goes on only in exact active custody.
InCustody(j) ==
    /\ Owned(ClaimOf[j]) /\ workbooks[WorkbookOf[j]].left > 0
    /\ view[j] \in {"previous", "attempted"}

ControllerAnswered(j, name, rest) ==
    CASE name = "claim" ->
            \/ /\ j \in Workers
               /\ phase' = [phase EXCEPT ![j] = "run"]
               /\ child' = [child EXCEPT ![j] = "running"]
               /\ requests' = rest
            \/ j \notin Workers /\ Beats(j, rest)
            \/ Fails(j, rest)            \* the claimed original differs
      [] name = "heartbeat" /\ child[j] = "none" -> ControllerSends(j, "begin", rest)
      [] name = "heartbeat" /\ child[j] # "none" ->
            /\ phase' = [phase EXCEPT ![j] = "run"]
            /\ requests' = rest
            /\ UNCHANGED child
      [] name = "status" -> IF InCustody(j) THEN Beats(j, rest) ELSE Fails(j, rest)
      [] name = "begin" ->
            /\ phase' = [phase EXCEPT ![j] = "run"]
            /\ child' = [child EXCEPT ![j] = "running"]
            /\ requests' = rest
      [] name = "end" -> ControllerSends(j, "finish", rest)
      [] OTHER ->
            /\ phase' = [phase EXCEPT ![j] = "done"]
            /\ requests' = rest
            /\ UNCHANGED child

ChildAnswered(j, name, rest) ==
    CASE name = "begin" ->
            /\ child' = [child EXCEPT ![j] = "dispatch"]
            /\ requests' = rest
            /\ UNCHANGED phase
      [] name = "status" ->
            IF OthersHeld(j, call[j])
            THEN \E next \in {"heartbeat", "begin"} : ChildSends(j, next, rest)
            ELSE Raises(j, "child", rest)
      [] name = "heartbeat" -> ChildSends(j, "begin", rest)
      [] OTHER ->
            /\ child' = [child EXCEPT ![j] = "running"]
            /\ requests' = rest
            /\ UNCHANGED phase

MustWait(r) ==
    /\ r.name = "begin" /\ Admitted(ClaimOf[r.job], r.op)
    /\ Unconsumed(r.op) /\ Busy(ClaimOf[r.job], r.op)

Answered(r, accepted, rest) ==
    IF accepted
    THEN IF r.by = "child" THEN ChildAnswered(r.job, r.name, rest)
         ELSE ControllerAnswered(r.job, r.name, rest)
    ELSE IF MustWait(r) THEN Waiting(r, rest) ELSE Raises(r.job, r.by, rest)

\* The checkpoint that the row holds, against the ones that the job expects.
Checkpoint(r, accepted, answered) ==
    IF accepted /\ r.job \in Patient /\ r.op = None /\ r.name \in {"heartbeat", "status"}
    THEN view' = [view EXCEPT ![r.job] =
            IF r.name = "status" THEN IF answered /\ InCustody(r.job) THEN "previous" ELSE @
            ELSE IF answered THEN "previous"
            ELSE IF r.stale THEN "other" ELSE "attempted"]
    ELSE UNCHANGED view

\* The reply to a begin is what permits the effect; the reply may be lost.
Serve(r) ==
    /\ InCall
    /\ LET accepted == Accepts(r)  rest == requests \ {r} IN
        /\ IF accepted THEN Apply(r) ELSE UNCHANGED ledger
        /\ \E answered \in BOOLEAN :
            /\ answered => Awaited(r)
            /\ IF answered THEN Answered(r, accepted, rest)
               ELSE requests' = rest /\ UNCHANGED <<phase, child>>
            /\ Checkpoint(r, accepted, answered)
            /\ inflight' = IF answered /\ accepted /\ r.name = "begin"
                           THEN inflight \cup ({r.op} \cap ModelOps) ELSE inflight
            /\ call' = IF answered /\ r.by = "child" /\ r.name \in {"end", "uncertain"}
                       THEN [call EXCEPT ![r.job] = None] ELSE call
    /\ UNCHANGED <<reconciliations, intents, persisted>>

-----------------------------------------------------------------------------
(* Callers. *)

\* Mutant: one reconciliation too many.
MayReconcileOnce(j) == j \in Patient /\ reconciliations[j] <= MaxReconciliations

MayReconcile(j) == j \in Patient /\ reconciliations[j] < MaxReconciliations

\* The caller gets no reply in time.
TimesOut(j, by) ==
    /\ Waits(j, by)
    /\ \E rest \in Abandoned(j, {by}, requests) :
        IF by = "controller" /\ phase[j] = "heartbeat" /\ MayReconcile(j)
        THEN /\ reconciliations' = [reconciliations EXCEPT ![j] = @ + 1]
             /\ ControllerSends(j, "status", rest)
        ELSE Raises(j, by, rest) /\ UNCHANGED reconciliations
    /\ UNCHANGED <<ledger, call, view, effects>>

\* An attempt starts once: its directory must not exist.
Start(j) ==
    /\ phase[j] = "queued"
    /\ ControllerSends(j, "claim", requests)
    /\ UNCHANGED <<ledger, call, beats, effects>>

HeartbeatDue(j) ==
    /\ phase[j] = "run"
    /\ Beats(j, requests)
    /\ UNCHANGED <<ledger, call, beats, effects>>

WaitOver(j) ==
    /\ phase[j] = "wait"
    /\ Beats(j, requests)
    /\ UNCHANGED <<ledger, call, beats, effects>>

\* A publication has waited too long to be admitted.
WaitLimit(j) ==
    /\ phase[j] = "wait"
    /\ Fails(j, requests)
    /\ UNCHANGED <<ledger, call, beats, effects>>

\* Memory, time or disk.
GuardTrips(j) ==
    /\ phase[j] = "run"
    /\ Fails(j, requests)
    /\ UNCHANGED <<ledger, call, beats, effects>>

Succeeded(j) == child[j] = "exited"

\* The child has ended; a worker's finish says hold whatever came of it.
ChildEnded(j) ==
    /\ phase[j] = "run"
    /\ child[j] \in {"exited", "failed"}
    /\ IF j \in Workers \/ Succeeded(j)
       THEN ControllerSends(j, IF j \in Workers THEN "finish" ELSE "end", requests)
       ELSE Fails(j, requests)
    /\ UNCHANGED <<ledger, call, beats, effects>>

Crash(j) ==
    /\ phase[j] \notin Idle
    /\ phase' = [phase EXCEPT ![j] = "crashed"]
    /\ requests' \in Abandoned(j, {"controller"}, requests)
    /\ UNCHANGED <<ledger, child, call, beats, effects>>

GuardianKills(j) ==
    /\ phase[j] = "crashed" /\ ChildAlive(j)
    /\ child' = [child EXCEPT ![j] = "killed"]
    /\ requests' \in Abandoned(j, {"child"}, requests)
    /\ UNCHANGED <<ledger, phase, call, beats, effects>>

-----------------------------------------------------------------------------
(* Children: a worker's makes model calls, a publication's publishes. *)

Ask(j, p) ==
    /\ j \in Workers /\ child[j] = "running"
    /\ p \in OperationsOf[j]
    /\ IF p \notin intents
       THEN /\ intents' = intents \cup {p}
            /\ call' = [call EXCEPT ![j] = p]
            /\ child' = [child EXCEPT ![j] = "begin"]
            /\ requests' = requests \cup
                {[job |-> j, by |-> "child", name |-> "begin", stale |-> FALSE, op |-> p]}
       ELSE child' = [child EXCEPT ![j] = "failed"] /\ UNCHANGED <<intents, call, requests>>
    /\ UNCHANGED <<ledger, phase, beats, inflight, persisted>>

\* Mutant: a call that returned is confirmed, retained or not.
ConfirmsAny(retained) == TRUE

\* Only a retained response confirms.
Confirms(retained) == retained

\* The call returns, with or without the provider's answer and with or
\* without its response retained.
Return(j) ==
    /\ child[j] = "dispatch"
    /\ \E answered, retained \in BOOLEAN :
        /\ retained => answered
        /\ inflight' = IF answered THEN inflight \ {call[j]} ELSE inflight
        /\ persisted' = IF retained THEN persisted \cup {call[j]} ELSE persisted
        /\ ChildSends(j, IF Confirms(retained) THEN "end" ELSE "uncertain", requests)
    /\ UNCHANGED <<ledger, call, beats, intents>>

\* The provider is done with a call that nobody waits for.
ProviderEnds(p) ==
    /\ p \in inflight
    /\ \A j \in Jobs : ~(call[j] = p /\ child[j] = "dispatch")
    /\ inflight' = inflight \ {p}
    /\ UNCHANGED <<ledger, phase, child, call, requests, beats, intents, persisted>>

\* The child ends; a publication's with its result retained and verified.
Exit(j) ==
    /\ child[j] = "running"
    /\ child' = [child EXCEPT ![j] = "exited"]
    /\ persisted' = IF j \in Workers THEN persisted ELSE persisted \cup OperationsOf[j]
    /\ UNCHANGED <<ledger, phase, call, requests, beats, intents, inflight>>

ChildCrashes(j) ==
    /\ ChildAlive(j)
    /\ child' = [child EXCEPT ![j] = "failed"]
    /\ requests' \in Abandoned(j, {"child"}, requests)
    /\ UNCHANGED <<ledger, phase, call, beats, effects>>

-----------------------------------------------------------------------------
(* Administrators, with what their evidence must show. *)

Present == {j \in Jobs : phase[j] # "absent"}

\* Mutant: a controller that is gone is taken for a stopped owner.
OwnerStoppedUnguarded(w) ==
    \A j \in Jobs : workbooks[w].claim = ClaimOf[j] => phase[j] \in {"done", "crashed"}

\* The claim that the row names has neither a controller nor a child.
OwnerStopped(w) ==
    \A j \in Jobs : workbooks[w].claim = ClaimOf[j] =>
        phase[j] \in {"done", "crashed"} /\ ~ChildAlive(j)

\* The attempt is over, and the provider's part of it.
EffectOver(p) ==
    /\ p \notin inflight
    /\ \A j \in Jobs : p \in OperationsOf[j] =>
        ~ChildAlive(j) \/ (j \in Workers /\ call[j] # p)

\* The output of the workbook was collected.
Collected(w) == \E j \in Collectors : WorkbookOf[j] = w /\ OperationsOf[j] \subseteq persisted

Administer ==
    /\ \/ \E j \in Present : Enroll(WorkbookOf[j])
       \/ \E j \in Present, d \in {"ready", "complete", "hold"} :
            /\ OwnerStopped(WorkbookOf[j])
            /\ d = "complete" => Collected(WorkbookOf[j])
            /\ Reconcile(WorkbookOf[j], d)
       \/ \E j \in Present : phase[j] # "queued" /\ AbandonClaim(ClaimOf[j])
       \/ \E p \in Operations, d \in {"confirmed", "abandoned"} :
            /\ EffectOver(p)
            /\ (d = "confirmed") = (p \in persisted)
            /\ ReconcileOperation(p, d)
    /\ UNCHANGED clients

ClientsNext ==
    \/ (Tick \/ Sweep) /\ UNCHANGED clients
    \/ Administer
    \/ \E r \in requests : Serve(r)
    \/ \E j \in Jobs :
        \/ \E by \in {"controller", "child"} : TimesOut(j, by)
        \/ Start(j) \/ HeartbeatDue(j) \/ GuardTrips(j) \/ ChildEnded(j)
        \/ WaitOver(j) \/ WaitLimit(j)
        \/ Crash(j) \/ GuardianKills(j)
        \/ \E p \in Operations : Ask(j, p)
        \/ Return(j) \/ Exit(j) \/ ChildCrashes(j)
    \/ \E p \in Operations : ProviderEnds(p)

ClientsSpec == ClientsInit /\ [][ClientsNext]_all

\* A wait ends: the caller is answered or its time is up.
WaitEnds(j, by) ==
    TimesOut(j, by) \/ \E r \in requests : r.job = j /\ r.by = by /\ Serve(r)

\* The time limits of a job are checked between its heartbeats, not during
\* one; whoever asks for the status of the fleet sweeps.
ClientsFairness ==
    /\ WF_all(Tick /\ UNCHANGED clients) /\ WF_all(Sweep /\ UNCHANGED clients)
    /\ \A j \in Jobs :
        /\ WF_all(WaitEnds(j, "controller"))
        /\ SF_all(GuardTrips(j)) /\ SF_all(WaitLimit(j)) /\ WF_all(WaitOver(j))
        /\ WF_all(ChildEnded(j)) /\ WF_all(GuardianKills(j))

ClientsFairSpec == ClientsSpec /\ ClientsFairness
-----------------------------------------------------------------------------
ClientsTypeOK ==
    /\ phase \in [Jobs -> Controller \cup Idle \cup {"run", "wait"}]
    /\ child \in [Jobs -> Child \cup {"none", "exited", "failed", "killed"}]
    /\ call \in [Jobs -> ModelOps \cup {None}]
    /\ requests \subseteq
        [job : Jobs, by : {"controller", "child", "gone"}, name : Controller,
         stale : BOOLEAN, op : Operations \cup {None}]
    /\ view \in [Jobs -> {"previous", "attempted", "other"}]
    /\ reconciliations \in [Jobs -> 0..MaxReconciliations]
    /\ intents \subseteq ModelOps /\ inflight \subseteq ModelOps
    /\ persisted \subseteq Operations

\* A child lives only under a row that still names its claim, active or in
\* hold: no workbook ever has two, and none is ready while one lives.
ChildHoldsClaim ==
    \A j \in Jobs : ChildAlive(j) =>
        /\ workbooks[WorkbookOf[j]].claim = ClaimOf[j]
        /\ workbooks[WorkbookOf[j]].state \in {"active", "hold"}

\* Whatever the provider executes and whatever a child publishes occupies the
\* ledger, through lost replies, crashes and late requests: the limits on what
\* the ledger counts are limits on what really runs.
EffectsCounted ==
    /\ \A p \in inflight : Occupied(p)
    /\ \A j \in Jobs \ Workers : ChildAlive(j) => Occupied(PublicationOf(j))

\* The ledger confirms only what was retained and verified, and a completed
\* workbook has its output collected.
ConfirmedIsRetained ==
    /\ \A p \in Operations :
        (operations[p] # None /\ operations[p].state = "confirmed") => p \in persisted
    /\ \A w \in Workbooks : workbooks[w].state = "complete" => Collected(w)

\* The ledger neither misses an effect nor confirms one that was not retained.
LedgerTruthful == EffectsCounted /\ ConfirmedIsRetained

\* A job never goes on after a heartbeat that it could not prove: every
\* started job comes to an end, and its child before it.
JobsEnd ==
    \A j \in Jobs : phase[j] \notin Idle ~> phase[j] \in {"done", "crashed"} /\ ~ChildAlive(j)

Active(p) == operations[p] # None /\ operations[p].state = "active"

\* No claim stays active for ever on the strength of late heartbeats, and no
\* operation: what was not confirmed comes to light as a hold.
ClaimsEnd ==
    /\ \A w \in Workbooks : workbooks[w].state = "active" ~> workbooks[w].state # "active"
    /\ \A p \in Operations :
        Active(p) ~> ~Active(p)

\* Whoever crashes or stays silent, every job ends and so does its hold on the
\* ledger (worker.py, publish.py, and sweep of coordinator.py).
EverythingEnds == JobsEnd /\ ClaimsEnd
=============================================================================

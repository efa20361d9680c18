-------------------------- MODULE FleetCoordinator --------------------------
(***************************************************************************)
(* The ledger of scripts/fleet/coordinator.py: which claim holds which     *)
(* workbook, and which model calls and publications are outstanding.       *)
(*                                                                         *)
(* The coordinator is one SQLite file; every call is two transactions      *)
(* that exclude each other.  The first (Sweep) turns what has expired      *)
(* into holds and commits; the second does the call's work.  A call may    *)
(* wait for the lock between the two, at most Wait, so a lease can run     *)
(* out after the sweep that the call made.  A refused call changes         *)
(* nothing but the sweep, so an action is the branch of its handler that   *)
(* succeeds.  Expiry times are kept as the time left until them, which is  *)
(* all that the code compares.                                             *)
(*                                                                         *)
(* Clients retry nothing, but a request may arrive late, arrive after its  *)
(* sender is dead, or be sent again by hand: a request that carries the    *)
(* credentials of any claim ever granted may come at any time.             *)
(***************************************************************************)
EXTENDS Integers, FiniteSets

CONSTANTS
    Workbooks,          \* workbooks of the inventory
    Owners,             \* names under which workers and publishers claim
    Hosts,              \* hosts an owner's name can begin with
    HostOf,             \* HostOf[o]: the host named by owner o
    Local,              \* the host that local collection identities name
    Publishers,         \* owners named for the publication of the workbook they claim
    Claims,             \* claim identifiers; the random token of a grant is named by its claim
    ModelOps,           \* identifiers of model calls
    PublicationOps,     \* identifiers of publications
    Limits,             \* model limits an administrator may set (NoCap among them)
    NoCap,              \* no fleet-wide model limit
    None,               \* an absent row or field
    AuthorsPerHost,     \* author slots of a host (2 in the code)
    ExtendedAuthors,    \* author slots under an extension (3 in the code)
    ModelsPerHost,      \* model calls of a host under the author policy (2 in the code)
    Lease,              \* time a claim or heartbeat buys
    Wait,               \* longest wait between the two transactions of a call
    Window,             \* longest time an exception to a policy lasts
    MaxPolicies,        \* bound: changes of the model limit
    MaxExtensions,      \* bound: author capacity extensions
    MaxQuarantines      \* bound: quarantines of unknown effects

Operations == ModelOps \cup PublicationOps

\* Rows of the tables workbooks, claims, operations and author_reservations.
State == {"absent", "hold", "ready", "active", "complete"}
Row == [state : State, owner : Owners \cup {None}, fence : Nat,
        claim : Claims \cup {None}, left : 0..Lease]
Grant == [workbook : Workbooks, owner : Owners, fence : Nat]
OperationRow ==
    [workbook : Workbooks, owner : Owners, claim : Claims, fence : Nat,
     state : {"active", "hold", "confirmed", "abandoned"}, left : 0..Lease]
Slot == [workbook : Workbooks, owner : Owners, fence : Nat, host : Hosts,
         state : {"active", "hold", "released"}]

ASSUME LedgerAssumption ==
    /\ HostOf \in [Owners -> Hosts]
    /\ Publishers \subseteq Owners
    /\ ModelOps \cap PublicationOps = {}
    /\ None \notin Workbooks \cup Owners \cup Claims \cup Hosts
    /\ None \notin Grant /\ None \notin OperationRow /\ None \notin Slot
    /\ NoCap \notin Nat
    /\ Limits \subseteq (Nat \ {0}) \cup {NoCap}
    /\ AuthorsPerHost \in Nat /\ ExtendedAuthors \in Nat /\ ModelsPerHost \in Nat
    /\ AuthorsPerHost <= ExtendedAuthors
    /\ Lease \in Nat \ {0} /\ Wait \in Nat /\ Window \in Nat
    /\ MaxPolicies \in Nat /\ MaxExtensions \in Nat /\ MaxQuarantines \in Nat
ASSUME InventoryAssumption == IsFiniteSet(Workbooks)

VARIABLES
    waited,         \* time since a call last committed its sweep, up to Wait + 1
    workbooks,      \* table workbooks: state, owner, fence, claim, lease time left
    claims,         \* table claims: what each granted identifier was granted
    abandoned,      \* table abandoned_claims: identifiers retired ungranted
    operations,     \* table operations
    modelPolicy,    \* table model_policy: revision and limit
    authorPolicy,   \* table author_capacity_policy: is there a row
    reservations,   \* table author_reservations
    extensions,     \* table author_capacity_extensions
    quarantines,    \* table model_quarantines
    capacities,     \* table quarantine_host_capacity
    physical,       \* table physical_capacity_extensions
    granted,        \* history: times each operation was told to execute
    stopped         \* history: claims whose owner's end was reported or attested

lease == <<workbooks, claims, abandoned>>
policy == <<modelPolicy, authorPolicy, extensions>>
exceptions == <<quarantines, capacities, physical>>
history == <<granted, stopped>>
vars == <<waited, lease, operations, policy, reservations, exceptions, history>>

Unenrolled ==
    [state |-> "absent", owner |-> None, fence |-> 0, claim |-> None, left |-> 0]

Init ==
    /\ waited = Wait + 1
    /\ workbooks = [w \in Workbooks |-> Unenrolled]
    /\ claims = [c \in Claims |-> None]
    /\ abandoned = {}
    /\ operations = [p \in Operations |-> None]
    /\ modelPolicy = [revision |-> 0, limit |-> 1]
    /\ authorPolicy = FALSE
    /\ reservations = [c \in Claims |-> None]
    /\ extensions = {}
    /\ quarantines = [p \in ModelOps |-> None]
    /\ capacities = [h \in Hosts |-> None]
    /\ physical = [h \in Hosts |-> None]
    /\ granted = [p \in Operations |-> 0]
    /\ stopped = {}

-----------------------------------------------------------------------------
(* Queries. *)

\* Mutant: what is in hold takes no capacity.
OccupiedActive(p) == operations[p] # None /\ operations[p].state = "active"

\* An operation whose effect may still happen or is not known to have ended.
Occupied(p) == operations[p] # None /\ operations[p].state \in {"active", "hold"}
OccupiedModels == {p \in ModelOps : Occupied(p)}

\* Mutant: an operation in hold counts as settled.
UnsettledActive(w) ==
    \E p \in Operations : operations[p] # None /\ operations[p].workbook = w
                            /\ operations[p].state = "active"

\* A workbook has an operation that is not settled.
Unsettled(w) == \E p \in Operations : Occupied(p) /\ operations[p].workbook = w

\* Mutant: an operation that was abandoned may be asked for again.
UnconsumedAbandoned(p) == operations[p] # None => operations[p].state = "abandoned"

\* The identifier p has never been used.
Unconsumed(p) == operations[p] = None

\* Mutant: only an operation in hold needs reconciliation.
EndableUnheld(p) == operations[p].state # "hold"

\* An operation that its owner may still report on.
Endable(p) == operations[p].state = "active"

\* The host slot an owner takes as an author; a publication owner takes none.
AuthorHost(o) == IF o \in Publishers THEN None ELSE HostOf[o]

\* The claim c is the exact active fenced owner of its workbook.
Owned(c) ==
    /\ claims[c] # None
    /\ LET row == workbooks[claims[c].workbook] IN
        /\ row.state = "active"
        /\ row.claim = c
        /\ row.owner = claims[c].owner
        /\ row.fence = claims[c].fence

AuthorLimit(h) ==
    IF \E e \in extensions : e.host = h /\ e.left > 0
    THEN ExtendedAuthors ELSE AuthorsPerHost

Authors(h) ==
    {c \in Claims : /\ reservations[c] # None
                    /\ reservations[c].host = h
                    /\ reservations[c].state \in {"active", "hold"}}

\* Mutant: one author too many.
SlotFreeInclusive(h) == Cardinality(Authors(h)) <= AuthorLimit(h)

SlotFree(h) == Cardinality(Authors(h)) < AuthorLimit(h)

\* The unknown effect recorded by the quarantine of p is exactly as it was.
StillHeld(p) ==
    LET q == quarantines[p] IN
        /\ operations[p] = q.operation
        /\ workbooks[q.operation.workbook].state = "hold"
        /\ workbooks[q.operation.workbook].owner = q.operation.owner
        /\ workbooks[q.operation.workbook].fence = q.operation.fence

QuarantinedOn(h) ==
    {p \in ModelOps : quarantines[p] # None /\ quarantines[p].host = h}

\* A host exception holds only inside its own window, inside its quarantine's
\* window and while the quarantined effect is untouched.
HostCapacity(h) ==
    /\ capacities[h] # None
    /\ capacities[h].left > 0
    /\ LET p == capacities[h].quarantine IN
        quarantines[p].left > 0 /\ StillHeld(p)

PhysicalLimit(h) ==
    IF /\ physical[h] # None
       /\ physical[h].left > 0
       /\ HostCapacity(h)
       /\ QuarantinedOn(h) = physical[h].quarantines
       /\ \A p \in QuarantinedOn(h) : StillHeld(p) /\ quarantines[p].left > 0
    THEN ModelsPerHost + 1 ELSE ModelsPerHost

\* Mutant: the isolation ends with the quarantine.
CustodyAllowsExpired(w, o) ==
    \A p \in ModelOps : (quarantines[p] # None /\ quarantines[p].left > 0) =>
        /\ quarantines[p].operation.workbook # w
        /\ quarantines[p].host = HostOf[o] => HostCapacity(HostOf[o])

\* A quarantined workbook, and its host without an exception, admit nothing.
CustodyAllows(w, o) ==
    \A p \in ModelOps : quarantines[p] # None =>
        /\ quarantines[p].operation.workbook # w
        /\ quarantines[p].host = HostOf[o] => HostCapacity(HostOf[o])

\* A held model call that does not stop owner o's work on workbook w.
QuarantinedHold(p, w, o) ==
    /\ quarantines[p] # None
    /\ StillHeld(p)
    /\ quarantines[p].left > 0
    /\ w # quarantines[p].operation.workbook
    /\ HostOf[o] = quarantines[p].host => HostCapacity(HostOf[o])

\* No work is active on host h.
Quiet(h) ==
    /\ \A w \in Workbooks :
        workbooks[w].state = "active" => HostOf[workbooks[w].owner] # h
    /\ \A p \in Operations :
        (operations[p] # None /\ operations[p].state = "active")
            => HostOf[operations[p].owner] # h

\* Mutant: a row gets a state that the ledger does not know.
LeaveExpired(row, state) == [row EXCEPT !.state = "expired", !.left = 0]

\* A row that leaves state active; its expiry is read of active rows only.
Leave(row, state) == [row EXCEPT !.state = state, !.left = 0]

\* The second transaction of a call starts within Wait of its first.
InCall == waited <= Wait

-----------------------------------------------------------------------------
(* Time and the first transaction of every call. *)

Sooner(left) == IF left = 0 THEN 0 ELSE left - 1

Tick ==
    /\ waited' = IF waited > Wait THEN waited ELSE waited + 1
    /\ workbooks' = [w \in Workbooks |-> [workbooks[w] EXCEPT !.left = Sooner(@)]]
    /\ operations' = [p \in Operations |-> IF operations[p] = None THEN None
            ELSE [operations[p] EXCEPT !.left = Sooner(@)]]
    /\ extensions' = {[e EXCEPT !.left = Sooner(@)] : e \in extensions}
    /\ quarantines' = [p \in ModelOps |-> IF quarantines[p] = None THEN None
            ELSE [quarantines[p] EXCEPT !.left = Sooner(@)]]
    /\ capacities' = [h \in Hosts |-> IF capacities[h] = None THEN None
            ELSE [capacities[h] EXCEPT !.left = Sooner(@)]]
    /\ physical' = [h \in Hosts |-> IF physical[h] = None THEN None
            ELSE [physical[h] EXCEPT !.left = Sooner(@)]]
    /\ UNCHANGED <<claims, abandoned, modelPolicy, authorPolicy, reservations, history>>

Expired(row) == row.state = "active" /\ row.left = 0

SweptWorkbooks ==
    [w \in Workbooks |-> IF Expired(workbooks[w])
        THEN Leave(workbooks[w], "hold") ELSE workbooks[w]]

\* Mutant: the slot of a claim that expired is free.
WithholdReleased(slot) == [slot EXCEPT !.state = "released"]

\* The author may still run: its slot is held until its end is reconciled.
Withhold(slot) == [slot EXCEPT !.state = "hold"]

Sweep ==
    /\ waited' = 0
    /\ workbooks' = SweptWorkbooks
    /\ operations' = [p \in Operations |->
        IF operations[p] # None /\ Expired(operations[p])
        THEN Leave(operations[p], "hold") ELSE operations[p]]
    /\ reservations' = [c \in Claims |->
        IF /\ reservations[c] # None /\ reservations[c].state = "active"
           /\ \E w \in Workbooks :
                SweptWorkbooks[w].state = "hold" /\ SweptWorkbooks[w].claim = c
        THEN Withhold(reservations[c]) ELSE reservations[c]]
    /\ UNCHANGED <<claims, abandoned, policy, exceptions, history>>

-----------------------------------------------------------------------------
(* Inventory, claims and leases. *)

Enroll(w) ==
    /\ InCall
    /\ workbooks[w].state = "absent"
    /\ workbooks' = [workbooks EXCEPT ![w].state = "hold"]
    /\ UNCHANGED <<waited, claims, abandoned, operations, policy, reservations,
                   exceptions, history>>

\* Releases the author slot of the claim that a workbook's row still names,
\* whose owner has stopped.
ReleaseAuthor(w) ==
    LET row == workbooks[w] IN
    /\ stopped' = stopped \cup ({row.claim} \ {None})
    /\ reservations' = [c \in Claims |->
        IF /\ c = row.claim /\ reservations[c] # None
           /\ reservations[c].workbook = w
           /\ reservations[c].owner = row.owner /\ reservations[c].fence = row.fence
           /\ reservations[c].state \in {"active", "hold"}
        THEN [reservations[c] EXCEPT !.state = "released"] ELSE reservations[c]]

\* An administrator attests that the old owner has stopped.
Reconcile(w, disposition) ==
    /\ InCall
    /\ disposition \in {"ready", "complete", "hold"}
    /\ workbooks[w].state \notin {"absent", "active"}
    /\ ~Unsettled(w)
    /\ ReleaseAuthor(w)
    /\ workbooks' = [workbooks EXCEPT ![w].state = disposition, ![w].owner = None,
                                      ![w].claim = None, ![w].left = 0]
    /\ UNCHANGED <<waited, claims, abandoned, operations, policy, exceptions, granted>>

\* An administrator retires an identifier that was never granted.
AbandonClaim(c) ==
    /\ InCall
    /\ claims[c] = None
    /\ c \notin abandoned
    /\ abandoned' = abandoned \cup {c}
    /\ UNCHANGED <<waited, workbooks, claims, operations, policy, reservations,
                   exceptions, history>>

\* The identifier was neither granted nor retired.
Grantable(c) == c \notin abandoned /\ claims[c] = None

NextFence(w) == workbooks[w].fence + 1

\* Under the author policy an author needs a slot of its host.
Counted(o) == authorPolicy /\ AuthorHost(o) # None

Claimable(c, w, o) ==
    /\ Grantable(c)
    /\ CustodyAllows(w, o)
    /\ workbooks[w].state = "ready"
    /\ Counted(o) => SlotFree(AuthorHost(o))

Claim(c, w, o) ==
    /\ InCall
    /\ Claimable(c, w, o)
    /\ LET fence == NextFence(w) IN
        /\ workbooks' = [workbooks EXCEPT ![w] =
            [state |-> "active", owner |-> o, fence |-> fence, claim |-> c,
             left |-> Lease]]
        /\ claims' = [claims EXCEPT ![c] = [workbook |-> w, owner |-> o, fence |-> fence]]
        /\ reservations' = IF ~Counted(o) THEN reservations ELSE
            [reservations EXCEPT ![c] =
                [workbook |-> w, owner |-> o, fence |-> fence, host |-> AuthorHost(o),
                 state |-> "active"]]
    /\ UNCHANGED <<waited, abandoned, operations, policy, exceptions, history>>

Heartbeat(c) ==
    /\ InCall
    /\ Owned(c)
    /\ LET w == claims[c].workbook IN
        /\ workbooks' = [workbooks EXCEPT ![w].left = Lease]
        /\ operations' = [p \in Operations |->
            IF /\ operations[p] # None /\ operations[p].state = "active"
               /\ operations[p].workbook = w
               /\ operations[p].owner = claims[c].owner
               /\ operations[p].fence = claims[c].fence
            THEN [operations[p] EXCEPT !.left = Lease] ELSE operations[p]]
    /\ UNCHANGED <<waited, claims, abandoned, policy, reservations, exceptions, history>>

Finishes(c, disposition) ==
    /\ Owned(c)
    /\ disposition = "complete" => ~Unsettled(claims[c].workbook)

Finish(c, disposition) ==
    /\ InCall
    /\ Finishes(c, disposition)
    /\ disposition \in {"complete", "hold"}
    /\ LET w == claims[c].workbook IN
        /\ workbooks' = [workbooks EXCEPT ![w] = Leave(@, disposition)]
        /\ operations' = [p \in Operations |->
            IF /\ operations[p] # None /\ operations[p].state = "active"
               /\ operations[p].workbook = w
            THEN Leave(operations[p], "hold") ELSE operations[p]]
        /\ ReleaseAuthor(w)
    /\ UNCHANGED <<waited, claims, abandoned, policy, exceptions, granted>>

-----------------------------------------------------------------------------
(* Model calls and publications. *)

\* What keeps owner o's model call on workbook w from starting.
ModelBusy(w, o) ==
    \/ \E p \in OccupiedModels :
        operations[p].state = "hold" /\ ~QuarantinedHold(p, w, o)
    \/ \E p \in OccupiedModels : operations[p].workbook = w
    \/ /\ authorPolicy
       /\ Cardinality({p \in OccupiedModels : AuthorHost(operations[p].owner) = AuthorHost(o)})
            >= PhysicalLimit(AuthorHost(o))
    \/ /\ HostCapacity(HostOf[o])
       /\ Cardinality({p \in OccupiedModels : HostOf[operations[p].owner] = HostOf[o]})
            >= PhysicalLimit(HostOf[o])
    \/ /\ modelPolicy.limit # NoCap
       /\ Cardinality(OccupiedModels) >= modelPolicy.limit

PublicationBusy == \E p \in PublicationOps : Occupied(p)

\* The claim may ask for p; a refusal is a conflict, not a busy reply.
Admitted(c, p) ==
    /\ Owned(c)
    /\ (p \in ModelOps /\ authorPolicy) => AuthorHost(claims[c].owner) # None
    /\ (p \in ModelOps /\ \E q \in ModelOps : quarantines[q] # None)
            => HostOf[claims[c].owner] # Local
    /\ CustodyAllows(claims[c].workbook, claims[c].owner)

Busy(c, p) ==
    IF p \in ModelOps THEN ModelBusy(claims[c].workbook, claims[c].owner) ELSE PublicationBusy

\* The reply of a begin that succeeds is the only permission to execute p.
Begin(c, p) ==
    /\ InCall
    /\ Admitted(c, p)
    /\ Unconsumed(p)
    /\ ~Busy(c, p)
    /\ operations' = [operations EXCEPT ![p] =
            [workbook |-> claims[c].workbook, owner |-> claims[c].owner, claim |-> c,
             fence |-> claims[c].fence, state |-> "active",
             left |-> workbooks[claims[c].workbook].left]]
    /\ granted' = [granted EXCEPT ![p] = @ + 1]
    /\ UNCHANGED <<waited, lease, policy, reservations, exceptions, stopped>>

Ends(c, p) ==
    /\ Owned(c)
    /\ operations[p] # None
    /\ operations[p].claim = c
    /\ operations[p].workbook = claims[c].workbook
    /\ operations[p].owner = claims[c].owner
    /\ operations[p].fence = claims[c].fence
    /\ Endable(p)

\* The owner reports a persisted outcome, or that it cannot know the outcome.
End(c, p, outcome) ==
    /\ InCall
    /\ Ends(c, p)
    /\ outcome \in {"confirmed", "uncertain"}
    /\ operations' = [operations EXCEPT ![p] =
            Leave(@, IF outcome = "confirmed" THEN "confirmed" ELSE "hold")]
    /\ workbooks' = IF outcome = "confirmed" THEN workbooks
                    ELSE [workbooks EXCEPT ![claims[c].workbook] = Leave(@, "hold")]
    /\ UNCHANGED <<waited, claims, abandoned, policy, reservations, exceptions, history>>

\* An administrator settles an unknown effect; its identifier stays consumed.
ReconcileOperation(p, disposition) ==
    /\ InCall
    /\ disposition \in {"confirmed", "abandoned"}
    /\ operations[p] # None
    /\ operations[p].state = "hold"
    /\ operations' = [operations EXCEPT ![p].state = disposition]
    /\ UNCHANGED <<waited, lease, policy, reservations, exceptions, history>>

-----------------------------------------------------------------------------
(* Administrators' policies. *)

SetModelLimit(limit) ==
    /\ InCall
    /\ modelPolicy.revision < MaxPolicies
    /\ limit # NoCap => Cardinality(OccupiedModels) <= limit
    /\ modelPolicy' = [revision |-> modelPolicy.revision + 1, limit |-> limit]
    /\ UNCHANGED <<waited, lease, operations, authorPolicy, reservations, extensions,
                   exceptions, history>>

\* The authors that hold a claim when the policy is activated.
ActiveAuthors ==
    {w \in Workbooks : workbooks[w].state = "active" /\ AuthorHost(workbooks[w].owner) # None}

SetAuthorCapacity ==
    /\ InCall
    /\ ~authorPolicy
    /\ \A h \in Hosts :
        Cardinality({w \in ActiveAuthors : AuthorHost(workbooks[w].owner) = h})
            <= AuthorsPerHost
    /\ authorPolicy' = TRUE
    /\ reservations' = [c \in Claims |->
        IF \E w \in ActiveAuthors : workbooks[w].claim = c
        THEN [workbook |-> claims[c].workbook, owner |-> claims[c].owner,
              fence |-> claims[c].fence, host |-> AuthorHost(claims[c].owner),
              state |-> "active"]
        ELSE None]
    /\ UNCHANGED <<waited, lease, operations, modelPolicy, extensions, exceptions, history>>

PermitAuthorExtension(h, time) ==
    /\ InCall
    /\ Cardinality(extensions) < MaxExtensions
    /\ authorPolicy
    /\ QuarantinedOn(h) = {}
    /\ \A c \in Authors(h) : reservations[c].state # "hold"
    /\ Cardinality(Authors(h)) <= ExtendedAuthors
    /\ extensions' = extensions \cup {[host |-> h, left |-> time]}
    /\ UNCHANGED <<waited, lease, operations, modelPolicy, authorPolicy, reservations,
                   exceptions, history>>

\* Isolates the host and workbook of one unknown effect for some time.
QuarantineModel(p, time) ==
    /\ InCall
    /\ operations[p] # None
    /\ operations[p].state = "hold"
    /\ Cardinality({q \in ModelOps : quarantines[q] # None}) < MaxQuarantines
    /\ LET w == operations[p].workbook  h == HostOf[operations[p].owner] IN
        /\ \A other \in ModelOps : quarantines[other] # None =>
            other # p /\ quarantines[other].operation.workbook # w
        /\ h # Local
        /\ workbooks[w].state = "hold"
        /\ workbooks[w].owner = operations[p].owner
        /\ workbooks[w].fence = operations[p].fence
        /\ Quiet(h)
        /\ quarantines' = [quarantines EXCEPT ![p] =
            [operation |-> operations[p], host |-> h, left |-> time]]
    /\ UNCHANGED <<waited, lease, operations, policy, reservations, capacities, physical, history>>

\* Extends the isolation of an unknown effect, also after it has run out.
RenewQuarantine(p, time) ==
    /\ InCall
    /\ quarantines[p] # None
    /\ quarantines[p].left < time
    /\ StillHeld(p)
    /\ Quiet(quarantines[p].host)
    /\ capacities[quarantines[p].host] = None
    /\ quarantines' = [quarantines EXCEPT ![p].left = time]
    /\ UNCHANGED <<waited, lease, operations, policy, reservations, capacities, physical, history>>

PermitHostCapacity(p, time) ==
    /\ InCall
    /\ quarantines[p] # None
    /\ capacities[quarantines[p].host] = None
    /\ time <= quarantines[p].left
    /\ StillHeld(p)
    /\ Quiet(quarantines[p].host)
    /\ capacities' = [capacities EXCEPT ![quarantines[p].host] =
            [quarantine |-> p, left |-> time]]
    /\ UNCHANGED <<waited, lease, operations, policy, reservations, quarantines, physical, history>>

\* Two retained unknown effects and one fresh call on the same host.
PermitPhysicalExtension(h, time) ==
    /\ InCall
    /\ physical[h] = None
    /\ authorPolicy
    /\ HostCapacity(h)
    /\ Cardinality(QuarantinedOn(h)) = ModelsPerHost
    /\ time <= capacities[h].left
    /\ \A p \in QuarantinedOn(h) : time <= quarantines[p].left /\ StillHeld(p)
    /\ {p \in OccupiedModels : HostOf[operations[p].owner] = h} = QuarantinedOn(h)
    /\ \A w \in Workbooks : workbooks[w].state = "active" => HostOf[workbooks[w].owner] # h
    /\ physical' = [physical EXCEPT ![h] =
            [quarantines |-> QuarantinedOn(h), left |-> time]]
    /\ UNCHANGED <<waited, lease, operations, policy, reservations, quarantines, capacities, history>>

-----------------------------------------------------------------------------
Claimants ==
    \/ \E c \in Claims, w \in Workbooks, o \in Owners : Claim(c, w, o)
    \/ \E c \in Claims : Heartbeat(c)
    \/ \E c \in Claims, d \in {"complete", "hold"} : Finish(c, d)
    \/ \E c \in Claims, p \in Operations : Begin(c, p)
    \/ \E c \in Claims, p \in Operations, r \in {"confirmed", "uncertain"} : End(c, p, r)

Administrators ==
    \/ \E w \in Workbooks : Enroll(w)
    \/ \E w \in Workbooks, d \in {"ready", "complete", "hold"} : Reconcile(w, d)
    \/ \E c \in Claims : AbandonClaim(c)
    \/ \E p \in Operations, d \in {"confirmed", "abandoned"} : ReconcileOperation(p, d)
    \/ \E limit \in Limits : SetModelLimit(limit)
    \/ SetAuthorCapacity
    \/ \E h \in Hosts, time \in 1..Window : PermitAuthorExtension(h, time)
    \/ \E p \in ModelOps, time \in 1..Window : QuarantineModel(p, time)
    \/ \E p \in ModelOps, time \in 1..Window : RenewQuarantine(p, time)
    \/ \E p \in ModelOps, time \in 1..Window : PermitHostCapacity(p, time)
    \/ \E h \in Hosts, time \in 1..Window : PermitPhysicalExtension(h, time)

Next == Tick \/ Sweep \/ Claimants \/ Administrators

Spec == Init /\ [][Next]_vars
-----------------------------------------------------------------------------
(* Types. *)

TypeOK ==
    /\ waited \in 0..(Wait + 1)
    /\ workbooks \in [Workbooks -> Row]
    /\ claims \in [Claims -> Grant \cup {None}]
    /\ abandoned \subseteq Claims
    /\ operations \in [Operations -> OperationRow \cup {None}]
    /\ modelPolicy \in [revision : 0..MaxPolicies, limit : Limits \cup {1}]
    /\ authorPolicy \in BOOLEAN
    /\ reservations \in [Claims -> Slot \cup {None}]
    /\ extensions \subseteq [host : Hosts, left : 0..Window]
    /\ quarantines \in [ModelOps ->
            [operation : OperationRow, host : Hosts, left : 0..Window] \cup {None}]
    /\ capacities \in [Hosts ->
            [quarantine : ModelOps, left : 0..Window] \cup {None}]
    /\ physical \in [Hosts ->
            [quarantines : SUBSET ModelOps, left : 0..Window] \cup {None}]
    /\ granted \in [Operations -> Nat]
    /\ stopped \subseteq Claims

-----------------------------------------------------------------------------
(* Safety. *)

\* Everything outstanding belongs to the claim that its workbook's row names:
\* no reconciliation, expiry or finish hands a workbook to another claim, or
\* calls it ready or complete, over an effect that may still happen.
OutstandingHeld ==
    \A p \in Operations : Occupied(p) =>
        LET row == workbooks[operations[p].workbook] IN
            /\ row.state \in {"active", "hold"}
            /\ row.claim = operations[p].claim
            /\ row.fence = operations[p].fence
            /\ operations[p].state = "hold" => row.state = "hold"

\* An identifier is told to execute once and stays consumed, whatever is
\* expired, held, abandoned, finished or asked again after it.
OneExecution ==
    \A p \in Operations : granted[p] = IF operations[p] = None THEN 0 ELSE 1

\* Two claims of a workbook never have the same fence, and none is ahead of
\* the workbook's: a stale owner's fence cannot become current again.
FencesOrdered ==
    \A c \in Claims : claims[c] # None =>
        /\ claims[c].fence <= workbooks[claims[c].workbook].fence
        /\ \A d \in Claims \ {c} :
            (claims[d] # None /\ claims[d].workbook = claims[c].workbook)
                => claims[d].fence # claims[c].fence

\* A retired claim identifier is never granted, however late its request
\* comes and whichever of the two requests reaches the file first.
RetiredStaysUngranted == \A c \in abandoned : claims[c] = None

\* Identifiers are spent once: an operation's by its execution, a fence by its
\* claim, a claim's by its retirement (claim, begin and abandon_claim of
\* coordinator.py).
IdentifiersSpent == OneExecution /\ FencesOrdered /\ RetiredStaysUngranted

\* An author that holds a workbook under the policy has its slot; a slot, once
\* taken, is occupied until the owner's end is reported or attested, however its
\* lease or its calls end, and free from then on; and the workbook of an
\* occupied slot is its claim's: an expired author that may still run is counted,
\* and one that has ended is not (sweep, finish and reconcile of coordinator.py).
SlotsMatchHolders ==
    \A c \in Claims :
        /\ (authorPolicy /\ Owned(c) /\ AuthorHost(claims[c].owner) # None)
                => reservations[c] # None /\ reservations[c].state = "active"
        /\ reservations[c] # None =>
            /\ (reservations[c].state = "released") = (c \in stopped)
            /\ c \notin stopped =>
                LET row == workbooks[reservations[c].workbook] IN
                    row.claim = c /\ row.state \in {"active", "hold"}

\* The fleet's limits hold at every moment, through expiry, uncertain ends,
\* quarantines and changes of policy, not just when a call asks.
CapacityKept ==
    /\ Cardinality({p \in PublicationOps : Occupied(p)}) <= 1
    /\ \A w \in Workbooks :
        Cardinality({p \in OccupiedModels : operations[p].workbook = w}) <= 1
    /\ modelPolicy.limit # NoCap => Cardinality(OccupiedModels) <= modelPolicy.limit
    /\ \A h \in Hosts :
        /\ Cardinality(Authors(h)) <= ExtendedAuthors
        /\ Cardinality(Authors(h)) > AuthorsPerHost => \E e \in extensions : e.host = h

\* A workbook whose effect was quarantined never becomes active again, even
\* after the quarantine has run out and the effect has been settled.
QuarantinedWorkbookStops ==
    \A p \in ModelOps : quarantines[p] # None =>
        workbooks[quarantines[p].operation.workbook].state # "active"

\* While an unknown effect is held, no model call starts, on any host, except
\* within a quarantine of that effect that has not run out; then not on its
\* workbook, nor on its host but under an exception that has not run out.
UnknownBlocks ==
    [][\A p, u \in ModelOps :
        (/\ operations[p] = None /\ operations'[p] # None
         /\ operations[u] # None /\ operations[u].state = "hold")
            => /\ quarantines[u] # None
               /\ quarantines[u].left > 0
               /\ operations'[p].workbook # operations[u].workbook
               /\ HostOf[operations'[p].owner] = HostOf[operations[u].owner] =>
                    /\ capacities[quarantines[u].host] # None
                    /\ capacities[quarantines[u].host].left > 0]_vars

\* What WorkbookCustody calls the state of an operation.
Outcome(p) ==
    CASE operations[p] = None -> "none"
      [] operations[p] # None /\ operations[p].state = "active" -> "running"
      [] operations[p] # None /\ operations[p].state = "hold" -> "unknown"
      [] OTHER -> "settled"

Origin(p) ==
    IF operations[p] = None THEN None
    ELSE [workbook |-> operations[p].workbook, claim |-> operations[p].claim,
          fence |-> operations[p].fence]

Custody == INSTANCE WorkbookCustody WITH
    ModelCalls <- ModelOps,
    Publications <- PublicationOps,
    custodian <- [w \in Workbooks |-> workbooks[w].claim],
    fence <- [w \in Workbooks |-> workbooks[w].fence],
    working <- {w \in Workbooks : workbooks[w].state = "active"},
    spent <- {c \in Claims : claims[c] # None},
    outcome <- [p \in Operations |-> Outcome(p)],
    origin <- [p \in Operations |-> Origin(p)]

\* Whichever of a late end, a heartbeat, an expiry, a finish or an
\* administrator comes second, the coordinator keeps the promise of
\* WorkbookCustody: an effect is started once, by the custodian of its
\* workbook, only ever settles, and outlives no change of custodian.
KeepsCustody == Custody!Spec
=============================================================================

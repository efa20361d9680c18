----------------------- MODULE FleetCoordinator_proofs -----------------------
(***************************************************************************)
(* Proofs about the coordinator's ledger, for any workbooks, owners, hosts,*)
(* claims, operations, limits, durations and bounds.                       *)
(***************************************************************************)
EXTENDS FleetCoordinator, FiniteSetTheorems, TLAPS

USE DEF Operations, history

-----------------------------------------------------------------------------
(* Types.  An action is taken apart into what it does to each variable.    *)

\* A row names the claim that was granted it, with its owner and its fence.
RowsNamed ==
    \A w \in Workbooks :
        /\ workbooks[w].state = "active" => workbooks[w].claim # None
        /\ workbooks[w].claim # None =>
            /\ claims[workbooks[w].claim] # None
            /\ claims[workbooks[w].claim].workbook = w
            /\ claims[workbooks[w].claim].owner = workbooks[w].owner
            /\ claims[workbooks[w].claim].fence = workbooks[w].fence

LEMMA SoonerType ==
    ASSUME NEW n \in Nat, NEW left \in 0..n
    PROVE  Sooner(left) \in 0..n
BY DEF Sooner

LEMMA ZeroLeft == 0 \in 0..Lease /\ Lease \in 0..Lease
BY LedgerAssumption

LEMMA LeaveType ==
    ASSUME NEW row \in Row, NEW s \in State
    PROVE  Leave(row, s) \in Row
BY ZeroLeft DEF Leave, Row

LEMMA LeaveOperationType ==
    ASSUME NEW p \in OperationRow, NEW s \in {"hold", "confirmed"}
    PROVE  Leave(p, s) \in OperationRow
BY ZeroLeft DEF Leave, OperationRow

LEMMA OwnedType ==
    ASSUME TypeOK, NEW c \in Claims, Owned(c)
    PROVE  /\ claims[c] \in Grant
           /\ claims[c].workbook \in Workbooks
           /\ workbooks[claims[c].workbook] \in Row
           /\ workbooks[claims[c].workbook].state = "active"
           /\ workbooks[claims[c].workbook].claim = c
           /\ workbooks[claims[c].workbook].owner = claims[c].owner
           /\ workbooks[claims[c].workbook].fence = claims[c].fence
BY DEF TypeOK, Owned, Grant, Row

LEMMA ReleaseAuthorType ==
    ASSUME TypeOK, NEW w \in Workbooks, ReleaseAuthor(w)
    PROVE  /\ reservations' \in [Claims -> Slot \cup {None}]
           /\ stopped' \subseteq Claims
<1>1. reservations' \in [Claims -> Slot \cup {None}]
  BY DEF TypeOK, ReleaseAuthor, Slot
<1>2. workbooks[w].claim \in Claims \cup {None} /\ stopped \subseteq Claims
  BY DEF TypeOK, Row
<1>3. stopped' = stopped \cup ({workbooks[w].claim} \ {None})
  BY DEF ReleaseAuthor
<1> QED
  BY <1>1, <1>2, <1>3

LEMMA TickType == TypeOK /\ Tick => TypeOK'
<1> SUFFICES ASSUME TypeOK, Tick PROVE TypeOK'
  OBVIOUS
<1>1. waited' \in 0..(Wait + 1)
  BY LedgerAssumption DEF TypeOK, Tick
<1>2. workbooks' \in [Workbooks -> Row]
  <2>1. ASSUME NEW w \in Workbooks
        PROVE  [workbooks[w] EXCEPT !.left = Sooner(@)] \in Row
    <3>1. workbooks[w] \in Row
      BY DEF TypeOK, Row
    <3>2. Sooner(workbooks[w].left) \in 0..Lease
      BY <3>1, LedgerAssumption, SoonerType DEF Row
    <3> QED
      BY <3>1, <3>2 DEF Row
  <2> QED
    BY <2>1 DEF Tick
<1>3. operations' \in [Operations -> OperationRow \cup {None}]
  <2>1. ASSUME NEW p \in Operations, operations[p] # None
        PROVE  [operations[p] EXCEPT !.left = Sooner(@)] \in OperationRow
    <3>1. operations[p] \in OperationRow
      BY <2>1 DEF TypeOK
    <3>2. Sooner(operations[p].left) \in 0..Lease
      BY <3>1, LedgerAssumption, SoonerType DEF OperationRow
    <3> QED
      BY <3>1, <3>2 DEF OperationRow
  <2> QED
    BY <2>1 DEF Tick
<1>4. extensions' \subseteq [host : Hosts, left : 0..Window]
  <2>1. ASSUME NEW e \in extensions
        PROVE  [e EXCEPT !.left = Sooner(@)] \in [host : Hosts, left : 0..Window]
    <3>1. e \in [host : Hosts, left : 0..Window]
      BY DEF TypeOK
    <3>2. Sooner(e.left) \in 0..Window
      BY <3>1, LedgerAssumption, SoonerType
    <3> QED
      BY <3>1, <3>2
  <2> QED
    BY <2>1 DEF Tick
<1>5. quarantines' \in [ModelOps ->
            [operation : OperationRow, host : Hosts, left : 0..Window] \cup {None}]
  <2> DEFINE Q == [operation : OperationRow, host : Hosts, left : 0..Window]
  <2>1. ASSUME NEW p \in ModelOps, quarantines[p] # None
        PROVE  [quarantines[p] EXCEPT !.left = Sooner(@)] \in Q
    <3>1. quarantines[p] \in Q
      BY <2>1 DEF TypeOK
    <3>2. Sooner(quarantines[p].left) \in 0..Window
      BY <3>1, LedgerAssumption, SoonerType
    <3> QED
      BY <3>1, <3>2
  <2> QED
    BY <2>1 DEF Tick
<1>6. capacities' \in [Hosts -> [quarantine : ModelOps, left : 0..Window] \cup {None}]
  <2> DEFINE C == [quarantine : ModelOps, left : 0..Window]
  <2>1. ASSUME NEW h \in Hosts, capacities[h] # None
        PROVE  [capacities[h] EXCEPT !.left = Sooner(@)] \in C
    <3>1. capacities[h] \in C
      BY <2>1 DEF TypeOK
    <3>2. Sooner(capacities[h].left) \in 0..Window
      BY <3>1, LedgerAssumption, SoonerType
    <3> QED
      BY <3>1, <3>2
  <2> QED
    BY <2>1 DEF Tick
<1>7. physical' \in [Hosts -> [quarantines : SUBSET ModelOps, left : 0..Window] \cup {None}]
  <2> DEFINE P == [quarantines : SUBSET ModelOps, left : 0..Window]
  <2>1. ASSUME NEW h \in Hosts, physical[h] # None
        PROVE  [physical[h] EXCEPT !.left = Sooner(@)] \in P
    <3>1. physical[h] \in P
      BY <2>1 DEF TypeOK
    <3>2. Sooner(physical[h].left) \in 0..Window
      BY <3>1, LedgerAssumption, SoonerType
    <3> QED
      BY <3>1, <3>2
  <2> QED
    BY <2>1 DEF Tick
<1> QED
  BY <1>1, <1>2, <1>3, <1>4, <1>5, <1>6, <1>7 DEF TypeOK, Tick, Row

LEMMA SweepType == TypeOK /\ Sweep => TypeOK'
<1> SUFFICES ASSUME TypeOK, Sweep PROVE TypeOK'
  OBVIOUS
<1>1. workbooks' \in [Workbooks -> Row]
  BY LeaveType DEF TypeOK, Sweep, SweptWorkbooks, Row, State
<1>2. operations' \in [Operations -> OperationRow \cup {None}]
  BY LeaveOperationType DEF TypeOK, Sweep
<1>3. reservations' \in [Claims -> Slot \cup {None}]
  BY DEF TypeOK, Sweep, Withhold, Slot
<1> QED
  BY <1>1, <1>2, <1>3, LedgerAssumption
  DEF TypeOK, Sweep, policy, exceptions

LEMMA InitType == Init => TypeOK
<1> SUFFICES ASSUME Init PROVE TypeOK
  OBVIOUS
<1>1. Unenrolled \in Row
  BY ZeroLeft DEF Unenrolled, Row, State
<1>2. waited \in 0..(Wait + 1) /\ modelPolicy \in [revision : 0..MaxPolicies, limit : Limits \cup {1}]
  BY LedgerAssumption DEF Init
<1> QED
  BY <1>1, <1>2 DEF Init, TypeOK, Row

LEMMA EnrollType ==
    ASSUME TypeOK, NEW w \in Workbooks, Enroll(w)
    PROVE  TypeOK'
<1>1. workbooks' \in [Workbooks -> Row]
  <2>1. [workbooks[w] EXCEPT !.state = "hold"] \in Row
    <3>1. workbooks[w] \in Row /\ "hold" \in State
      BY DEF TypeOK, Row, State
    <3> QED
      BY <3>1 DEF Row
  <2> QED
    BY <2>1 DEF TypeOK, Enroll, Row
<1> QED
  BY <1>1 DEF TypeOK, Enroll, policy, exceptions

LEMMA ReconcileType ==
    ASSUME TypeOK, NEW w \in Workbooks, NEW d \in {"ready", "complete", "hold"},
           Reconcile(w, d)
    PROVE  TypeOK'
<1>1. workbooks' \in [Workbooks -> Row]
  <2>1. [workbooks[w] EXCEPT !.state = d, !.owner = None, !.claim = None, !.left = 0] \in Row
    <3>1. workbooks[w] \in Row /\ d \in State
      BY DEF TypeOK, Row, State
    <3> QED
      BY <3>1, ZeroLeft DEF Row
  <2>2. workbooks' = [workbooks EXCEPT ![w] =
            [@ EXCEPT !.state = d, !.owner = None, !.claim = None, !.left = 0]]
    BY DEF TypeOK, Reconcile
  <2> QED
    BY <2>1, <2>2 DEF TypeOK, Row
<1>2. reservations' \in [Claims -> Slot \cup {None}] /\ stopped' \subseteq Claims
  BY ReleaseAuthorType DEF Reconcile
<1> QED
  BY <1>1, <1>2 DEF TypeOK, Reconcile, policy, exceptions

LEMMA AbandonClaimType ==
    ASSUME TypeOK, NEW c \in Claims, AbandonClaim(c)
    PROVE  TypeOK'
BY DEF TypeOK, AbandonClaim, policy, exceptions

LEMMA ClaimType ==
    ASSUME TypeOK, NEW c \in Claims, NEW w \in Workbooks, NEW o \in Owners, Claim(c, w, o)
    PROVE  TypeOK'
<1>1. NextFence(w) \in Nat
  BY DEF TypeOK, NextFence, Row
<1>2. workbooks' \in [Workbooks -> Row]
  BY <1>1, LedgerAssumption DEF TypeOK, Claim, Row, State
<1>3. claims' \in [Claims -> Grant \cup {None}]
  BY <1>1 DEF TypeOK, Claim, Grant
<1>4. reservations' \in [Claims -> Slot \cup {None}]
  BY <1>1, LedgerAssumption DEF TypeOK, Claim, Counted, AuthorHost, Slot
<1> QED
  BY <1>2, <1>3, <1>4 DEF TypeOK, Claim, policy, exceptions

LEMMA HeartbeatType ==
    ASSUME TypeOK, NEW c \in Claims, Heartbeat(c)
    PROVE  TypeOK'
<1>1. Owned(c)
  BY DEF Heartbeat
<1>2. workbooks' \in [Workbooks -> Row]
  <2>1. [workbooks[claims[c].workbook] EXCEPT !.left = Lease] \in Row
    BY <1>1, OwnedType, ZeroLeft DEF Row
  <2> QED
    BY <1>1, <2>1, OwnedType DEF TypeOK, Heartbeat, Row
<1>3. operations' \in [Operations -> OperationRow \cup {None}]
  <2>1. ASSUME NEW p \in Operations, operations[p] # None
        PROVE  [operations[p] EXCEPT !.left = Lease] \in OperationRow
    BY <2>1, ZeroLeft DEF TypeOK, OperationRow
  <2> QED
    BY <2>1 DEF TypeOK, Heartbeat
<1> QED
  BY <1>2, <1>3 DEF TypeOK, Heartbeat, policy, exceptions

LEMMA FinishType ==
    ASSUME TypeOK, NEW c \in Claims, NEW d \in {"complete", "hold"}, Finish(c, d)
    PROVE  TypeOK'
<1>1. Owned(c)
  BY DEF Finish, Finishes
<1>2. workbooks' \in [Workbooks -> Row]
  BY <1>1, OwnedType, LeaveType DEF TypeOK, Finish, Row, State
<1>3. operations' \in [Operations -> OperationRow \cup {None}]
  BY LeaveOperationType DEF TypeOK, Finish
<1>4. reservations' \in [Claims -> Slot \cup {None}] /\ stopped' \subseteq Claims
  BY <1>1, OwnedType, ReleaseAuthorType DEF Finish
<1> QED
  BY <1>2, <1>3, <1>4 DEF TypeOK, Finish, policy, exceptions

LEMMA BeginType ==
    ASSUME TypeOK, NEW c \in Claims, NEW p \in Operations, Begin(c, p)
    PROVE  TypeOK'
<1>1. Owned(c)
  BY DEF Begin, Admitted
<1>2. operations' \in [Operations -> OperationRow \cup {None}]
  BY <1>1, OwnedType DEF TypeOK, Begin, OperationRow, Grant, Row
<1>3. granted' \in [Operations -> Nat]
  BY DEF TypeOK, Begin
<1> QED
  BY <1>2, <1>3 DEF TypeOK, Begin, lease, policy, exceptions

LEMMA EndType ==
    ASSUME TypeOK, NEW c \in Claims, NEW p \in Operations,
           NEW outcome \in {"confirmed", "uncertain"}, End(c, p, outcome)
    PROVE  TypeOK'
<1>1. Owned(c)
  BY DEF End, Ends
<1>2. operations[p] \in OperationRow
  BY DEF TypeOK, End, Ends
<1>3. operations' \in [Operations -> OperationRow \cup {None}]
  BY <1>2, LeaveOperationType DEF TypeOK, End
<1>4. workbooks' \in [Workbooks -> Row]
  BY <1>1, OwnedType, LeaveType DEF TypeOK, End, Row, State
<1> QED
  BY <1>3, <1>4 DEF TypeOK, End, policy, exceptions

LEMMA ReconcileOperationType ==
    ASSUME TypeOK, NEW p \in Operations, NEW d \in {"confirmed", "abandoned"},
           ReconcileOperation(p, d)
    PROVE  TypeOK'
<1>1. operations' \in [Operations -> OperationRow \cup {None}]
  BY DEF TypeOK, ReconcileOperation, OperationRow
<1> QED
  BY <1>1 DEF TypeOK, ReconcileOperation, lease, policy, exceptions

LEMMA SetModelLimitType ==
    ASSUME TypeOK, NEW limit \in Limits, SetModelLimit(limit)
    PROVE  TypeOK'
<1>1. modelPolicy' \in [revision : 0..MaxPolicies, limit : Limits \cup {1}]
  BY LedgerAssumption DEF TypeOK, SetModelLimit
<1> QED
  BY <1>1 DEF TypeOK, SetModelLimit, lease, exceptions

LEMMA SetAuthorCapacityType ==
    ASSUME TypeOK, RowsNamed, SetAuthorCapacity
    PROVE  TypeOK'
<1>1. ASSUME NEW c \in Claims, NEW w \in ActiveAuthors, workbooks[w].claim = c
      PROVE  [workbook |-> claims[c].workbook, owner |-> claims[c].owner,
              fence |-> claims[c].fence, host |-> AuthorHost(claims[c].owner),
              state |-> "active"] \in Slot
  <2>1. /\ w \in Workbooks /\ workbooks[w].state = "active"
        /\ AuthorHost(workbooks[w].owner) # None
    BY <1>1 DEF ActiveAuthors
  <2>2. claims[c] \in Grant /\ claims[c].owner = workbooks[w].owner
    BY <1>1, <2>1 DEF RowsNamed, TypeOK, Grant
  <2>3. AuthorHost(claims[c].owner) \in Hosts
    BY <2>1, <2>2, LedgerAssumption DEF AuthorHost, Grant
  <2> QED
    BY <2>2, <2>3 DEF Grant, Slot
<1>2. reservations' \in [Claims -> Slot \cup {None}]
  BY <1>1 DEF SetAuthorCapacity
<1> QED
  BY <1>2 DEF TypeOK, SetAuthorCapacity, lease, exceptions, Slot

LEMMA PermitAuthorExtensionType ==
    ASSUME TypeOK, NEW h \in Hosts, NEW time \in 1..Window, PermitAuthorExtension(h, time)
    PROVE  TypeOK'
<1>1. [host |-> h, left |-> time] \in [host : Hosts, left : 0..Window]
  BY LedgerAssumption
<1>2. extensions' \subseteq [host : Hosts, left : 0..Window]
  BY <1>1 DEF TypeOK, PermitAuthorExtension
<1> QED
  BY <1>2 DEF TypeOK, PermitAuthorExtension, lease, exceptions

LEMMA QuarantineModelType ==
    ASSUME TypeOK, NEW p \in ModelOps, NEW time \in 1..Window, QuarantineModel(p, time)
    PROVE  TypeOK'
<1> DEFINE Q == [operation : OperationRow, host : Hosts, left : 0..Window]
<1>1. operations[p] \in OperationRow
  BY DEF TypeOK, QuarantineModel
<1>2. HostOf[operations[p].owner] \in Hosts /\ time \in 0..Window
  BY <1>1, LedgerAssumption DEF OperationRow
<1>3. [operation |-> operations[p], host |-> HostOf[operations[p].owner], left |-> time] \in Q
  BY <1>1, <1>2
<1>4. quarantines' \in [ModelOps -> Q \cup {None}]
  BY <1>3 DEF TypeOK, QuarantineModel
<1> QED
  BY <1>4 DEF TypeOK, QuarantineModel, lease, policy

LEMMA RenewQuarantineType ==
    ASSUME TypeOK, NEW p \in ModelOps, NEW time \in 1..Window, RenewQuarantine(p, time)
    PROVE  TypeOK'
<1> DEFINE Q == [operation : OperationRow, host : Hosts, left : 0..Window]
<1>1. quarantines[p] \in Q /\ time \in 0..Window
  BY DEF TypeOK, RenewQuarantine
<1>2. quarantines' \in [ModelOps -> Q \cup {None}]
  BY <1>1 DEF TypeOK, RenewQuarantine
<1> QED
  BY <1>2 DEF TypeOK, RenewQuarantine, lease, policy

LEMMA PermitHostCapacityType ==
    ASSUME TypeOK, NEW p \in ModelOps, NEW time \in 1..Window, PermitHostCapacity(p, time)
    PROVE  TypeOK'
<1> DEFINE C == [quarantine : ModelOps, left : 0..Window]
<1>1. [quarantine |-> p, left |-> time] \in C
  BY LedgerAssumption
<1>2. capacities' \in [Hosts -> C \cup {None}]
  BY <1>1 DEF TypeOK, PermitHostCapacity
<1> QED
  BY <1>2 DEF TypeOK, PermitHostCapacity, lease, policy

LEMMA PermitPhysicalExtensionType ==
    ASSUME TypeOK, NEW h \in Hosts, NEW time \in 1..Window, PermitPhysicalExtension(h, time)
    PROVE  TypeOK'
<1> DEFINE P == [quarantines : SUBSET ModelOps, left : 0..Window]
<1>1. [quarantines |-> QuarantinedOn(h), left |-> time] \in P
  BY LedgerAssumption DEF QuarantinedOn
<1>2. physical' \in [Hosts -> P \cup {None}]
  BY <1>1 DEF TypeOK, PermitPhysicalExtension
<1> QED
  BY <1>2 DEF TypeOK, PermitPhysicalExtension, lease, policy

-----------------------------------------------------------------------------
(* What a row says of its claim is what the claim was granted.             *)

LEMMA RowsKept ==
    ASSUME RowsNamed, claims' = claims,
           \A w \in Workbooks :
                /\ workbooks'[w].claim = workbooks[w].claim
                /\ workbooks'[w].owner = workbooks[w].owner
                /\ workbooks'[w].fence = workbooks[w].fence
                /\ workbooks'[w].state = "active" => workbooks[w].state = "active"
    PROVE  RowsNamed'
BY DEF RowsNamed

LEMMA RowsNamedStep == TypeOK /\ RowsNamed /\ [Next]_vars => RowsNamed'
<1> SUFFICES ASSUME TypeOK, RowsNamed, [Next]_vars PROVE RowsNamed'
  OBVIOUS
<1>1. CASE Tick
  BY <1>1, RowsKept DEF Tick, TypeOK, Row
<1>2. CASE Sweep
  BY <1>2, RowsKept DEF Sweep, SweptWorkbooks, Leave, TypeOK, Row
<1>3. ASSUME NEW c \in Claims, NEW w \in Workbooks, NEW o \in Owners, Claim(c, w, o)
      PROVE  RowsNamed'
  <2>1. /\ claims[c] = None
        /\ workbooks' = [workbooks EXCEPT ![w] =
            [state |-> "active", owner |-> o, fence |-> NextFence(w), claim |-> c,
             left |-> Lease]]
        /\ claims' = [claims EXCEPT ![c] = [workbook |-> w, owner |-> o, fence |-> NextFence(w)]]
    BY <1>3 DEF Claim, Claimable, Grantable
  <2>2. NextFence(w) \in Nat
    BY DEF NextFence, TypeOK, Row
  <2>3. [workbook |-> w, owner |-> o, fence |-> NextFence(w)] # None
    BY <2>2, LedgerAssumption DEF Grant
  <2> QED
    BY <2>1, <2>3, LedgerAssumption DEF RowsNamed, TypeOK
<1>4. ASSUME NEW c \in Claims, Heartbeat(c)
      PROVE  RowsNamed'
  BY <1>4, RowsKept DEF Heartbeat, TypeOK, Row
<1>5. ASSUME NEW c \in Claims, NEW d \in {"complete", "hold"}, Finish(c, d)
      PROVE  RowsNamed'
  <2> DEFINE own == claims[c].workbook
  <2>1. own \in Workbooks
    BY <1>5, OwnedType DEF Finish, Finishes
  <2>2. /\ claims' = claims
        /\ workbooks' = [workbooks EXCEPT ![own] = Leave(@, d)]
    BY <1>5 DEF Finish
  <2>3. d # "active"
    OBVIOUS
  <2>4. ASSUME NEW w \in Workbooks
        PROVE  /\ workbooks'[w].claim = workbooks[w].claim
               /\ workbooks'[w].owner = workbooks[w].owner
               /\ workbooks'[w].fence = workbooks[w].fence
               /\ workbooks'[w].state = "active" => workbooks[w].state = "active"
    BY <2>1, <2>2, <2>3 DEF Leave, TypeOK, Row
  <2> QED
    BY <2>2, <2>4, RowsKept
<1>6. ASSUME NEW c \in Claims, NEW p \in Operations,
             NEW r \in {"confirmed", "uncertain"}, End(c, p, r)
      PROVE  RowsNamed'
  BY <1>6, RowsKept DEF End, Leave, TypeOK, Row
<1>7. ASSUME NEW w \in Workbooks, Enroll(w)
      PROVE  RowsNamed'
  BY <1>7, RowsKept DEF Enroll, TypeOK, Row
<1>8. ASSUME NEW w \in Workbooks, NEW d \in {"ready", "complete", "hold"}, Reconcile(w, d)
      PROVE  RowsNamed'
  BY <1>8 DEF Reconcile, RowsNamed, TypeOK
<1>9. ASSUME UNCHANGED <<workbooks, claims>>
      PROVE  RowsNamed'
  BY <1>9 DEF RowsNamed
<1>10. ASSUME NEW c \in Claims, NEW p \in Operations, Begin(c, p)
       PROVE  RowsNamed'
  BY <1>9, <1>10 DEF Begin, lease
<1>11. CASE Administrators
  BY <1>7, <1>8, <1>9, <1>11
  DEF Administrators, AbandonClaim, ReconcileOperation, SetModelLimit, SetAuthorCapacity,
      PermitAuthorExtension, QuarantineModel, RenewQuarantine, PermitHostCapacity,
      PermitPhysicalExtension, lease
<1>12. CASE UNCHANGED vars
  BY <1>9, <1>12 DEF vars, lease
<1> QED
  BY <1>1, <1>2, <1>3, <1>4, <1>5, <1>6, <1>10, <1>11, <1>12 DEF Next, Claimants

LEMMA TypeStep == TypeOK /\ RowsNamed /\ [Next]_vars => TypeOK'
<1> SUFFICES ASSUME TypeOK, RowsNamed, [Next]_vars PROVE TypeOK'
  OBVIOUS
<1>1. CASE Tick \/ Sweep
  BY <1>1, TickType, SweepType
<1>2. CASE Claimants
  BY <1>2, ClaimType, HeartbeatType, FinishType, BeginType, EndType DEF Claimants
<1>3. CASE Administrators
  BY <1>3, EnrollType, ReconcileType, AbandonClaimType, ReconcileOperationType,
     SetModelLimitType, SetAuthorCapacityType, PermitAuthorExtensionType,
     QuarantineModelType, RenewQuarantineType, PermitHostCapacityType, PermitPhysicalExtensionType
  DEF Administrators
<1>4. CASE UNCHANGED vars
  BY <1>4 DEF TypeOK, vars, lease, policy, exceptions
<1> QED
  BY <1>1, <1>2, <1>3, <1>4 DEF Next

TypeInv == TypeOK /\ RowsNamed

LEMMA TypeInvariant == Spec => []TypeInv
<1>1. Init => TypeInv
  BY InitType DEF TypeInv, Init, Unenrolled, RowsNamed
<1>2. TypeInv /\ [Next]_vars => TypeInv'
  BY TypeStep, RowsNamedStep DEF TypeInv
<1> QED
  BY <1>1, <1>2, PTL DEF Spec

\* Every reachable ledger is well typed: its tables hold rows of their kind,
\* times never exceed what was bought, revisions their bound.
THEOREM TypeCorrect == Spec => []TypeOK
BY TypeInvariant, PTL DEF TypeInv
-----------------------------------------------------------------------------
(* What every step does to the fields that the invariants relate.          *)

\* Only a claim changes what was granted or a workbook's fence.
LEMMA FencesKept ==
    TypeOK /\ [Next]_vars =>
        \/ \E c \in Claims, w \in Workbooks, o \in Owners : Claim(c, w, o)
        \/ /\ claims' = claims
           /\ \A w \in Workbooks : workbooks'[w].fence = workbooks[w].fence
<1> SUFFICES ASSUME TypeOK, [Next]_vars,
                    ~ \E c \in Claims, w \in Workbooks, o \in Owners : Claim(c, w, o)
             PROVE  /\ claims' = claims
                    /\ \A w \in Workbooks : workbooks'[w].fence = workbooks[w].fence
  OBVIOUS
<1>1. CASE Tick \/ Sweep
  <2>1. CASE Tick
    BY <2>1 DEF Tick, TypeOK, Row
  <2>2. CASE Sweep
    BY <2>2 DEF Sweep, SweptWorkbooks, Leave, TypeOK, Row
  <2> QED
    BY <1>1, <2>1, <2>2
<1>2. ASSUME NEW c \in Claims, Owned(c), claims' = claims, NEW s,
             \/ workbooks' = [workbooks EXCEPT ![claims[c].workbook] = Leave(@, s)]
             \/ workbooks' = [workbooks EXCEPT ![claims[c].workbook].left = Lease]
      PROVE  /\ claims' = claims
             /\ \A w \in Workbooks : workbooks'[w].fence = workbooks[w].fence
  <2>1. CASE workbooks' = [workbooks EXCEPT ![claims[c].workbook] = Leave(@, s)]
    BY <1>2, <2>1 DEF Leave, TypeOK, Row
  <2>2. CASE workbooks' = [workbooks EXCEPT ![claims[c].workbook].left = Lease]
    BY <1>2, <2>2 DEF TypeOK, Row
  <2> QED
    BY <1>2, <2>1, <2>2
<1>3. CASE Claimants
  <2>1. ASSUME NEW c \in Claims, Heartbeat(c)
        PROVE  /\ claims' = claims
               /\ \A w \in Workbooks : workbooks'[w].fence = workbooks[w].fence
    BY <1>2, <2>1 DEF Heartbeat
  <2>2. ASSUME NEW c \in Claims, NEW d \in {"complete", "hold"}, Finish(c, d)
        PROVE  /\ claims' = claims
               /\ \A w \in Workbooks : workbooks'[w].fence = workbooks[w].fence
    BY <1>2, <2>2 DEF Finish, Finishes
  <2>3. ASSUME NEW c \in Claims, NEW p \in Operations, Begin(c, p)
        PROVE  /\ claims' = claims
               /\ \A w \in Workbooks : workbooks'[w].fence = workbooks[w].fence
    BY <2>3 DEF Begin, lease
  <2>4. ASSUME NEW c \in Claims, NEW p \in Operations, NEW r \in {"confirmed", "uncertain"},
               End(c, p, r)
        PROVE  /\ claims' = claims
               /\ \A w \in Workbooks : workbooks'[w].fence = workbooks[w].fence
    BY <1>2, <2>4 DEF End, Ends
  <2> QED
    BY <1>3, <2>1, <2>2, <2>3, <2>4 DEF Claimants
<1>4. CASE Administrators
  <2>1. ASSUME NEW w \in Workbooks, Enroll(w)
        PROVE  /\ claims' = claims
               /\ \A v \in Workbooks : workbooks'[v].fence = workbooks[v].fence
    BY <2>1 DEF Enroll, TypeOK, Row
  <2>2. ASSUME NEW w \in Workbooks, NEW d \in {"ready", "complete", "hold"}, Reconcile(w, d)
        PROVE  /\ claims' = claims
               /\ \A v \in Workbooks : workbooks'[v].fence = workbooks[v].fence
    BY <2>2 DEF Reconcile, TypeOK, Row
  <2> QED
    BY <1>4, <2>1, <2>2
    DEF Administrators, AbandonClaim, ReconcileOperation, SetModelLimit, SetAuthorCapacity,
        PermitAuthorExtension, QuarantineModel, RenewQuarantine, PermitHostCapacity,
        PermitPhysicalExtension, lease
<1>5. CASE UNCHANGED vars
  BY <1>5 DEF vars, lease
<1> QED
  BY <1>1, <1>3, <1>4, <1>5 DEF Next

LEMMA FencesStep == TypeOK /\ FencesOrdered /\ [Next]_vars => FencesOrdered'
<1> SUFFICES ASSUME TypeOK, FencesOrdered, [Next]_vars PROVE FencesOrdered'
  OBVIOUS
<1>1. CASE \E c \in Claims, w \in Workbooks, o \in Owners : Claim(c, w, o)
  <2>1. PICK c \in Claims, w \in Workbooks, o \in Owners : Claim(c, w, o)
    BY <1>1
  <2>2. /\ workbooks'[w].fence = workbooks[w].fence + 1
        /\ \A v \in Workbooks \ {w} : workbooks'[v] = workbooks[v]
        /\ claims'[c] = [workbook |-> w, owner |-> o, fence |-> workbooks[w].fence + 1]
        /\ \A d \in Claims \ {c} : claims'[d] = claims[d]
    BY <2>1 DEF Claim, NextFence, TypeOK, Row
  <2>3. ASSUME NEW d \in Claims \ {c}, claims[d] # None
        PROVE  /\ claims[d].workbook \in Workbooks /\ claims[d].fence \in Nat
               /\ claims[d].fence <= workbooks[claims[d].workbook].fence
    BY <2>3 DEF TypeOK, Grant, FencesOrdered
  <2>4. workbooks[w].fence \in Nat
    BY DEF TypeOK, Row
  <2>5. ASSUME NEW d \in Claims, claims'[d] # None
        PROVE  /\ claims'[d].fence <= workbooks'[claims'[d].workbook].fence
               /\ \A e \in Claims \ {d} :
                    (claims'[e] # None /\ claims'[e].workbook = claims'[d].workbook)
                        => claims'[e].fence # claims'[d].fence
    <3>1. CASE d = c
      BY <2>2, <2>3, <2>4, <3>1
    <3>2. CASE d # c
      <4>1. claims'[d] = claims[d] /\ claims[d] # None
        BY <2>2, <2>5, <3>2
      <4>2. claims'[d].fence <= workbooks'[claims'[d].workbook].fence
        BY <2>2, <2>3, <2>4, <3>2, <4>1
      <4>3. ASSUME NEW e \in Claims \ {d}, claims'[e] # None,
                   claims'[e].workbook = claims'[d].workbook
            PROVE  claims'[e].fence # claims'[d].fence
        <5>1. CASE e = c
          BY <2>2, <2>3, <2>4, <3>2, <4>1, <4>3, <5>1
        <5>2. CASE e # c
          BY <2>2, <4>1, <4>3, <5>2 DEF FencesOrdered
        <5> QED
          BY <5>1, <5>2
      <4> QED
        BY <4>2, <4>3
    <3> QED
      BY <3>1, <3>2
  <2> QED
    BY <2>5 DEF FencesOrdered
<1>2. CASE /\ claims' = claims
           /\ \A w \in Workbooks : workbooks'[w].fence = workbooks[w].fence
  BY <1>2 DEF FencesOrdered, TypeOK, Grant
<1> QED
  BY <1>1, <1>2, FencesKept

\* A stale owner's fence never becomes current again: the fences of a
\* workbook's claims are all different and none is ahead of the workbook's.
THEOREM Fences == Spec => []FencesOrdered
<1>1. Init => FencesOrdered
  BY DEF Init, FencesOrdered
<1> QED
  BY <1>1, FencesStep, TypeInvariant, PTL DEF TypeInv, Spec

LEMMA RetiredStep == RetiredStaysUngranted /\ [Next]_vars => RetiredStaysUngranted'
<1> SUFFICES ASSUME RetiredStaysUngranted, [Next]_vars PROVE RetiredStaysUngranted'
  OBVIOUS
<1>1. ASSUME NEW c \in Claims, NEW w \in Workbooks, NEW o \in Owners, Claim(c, w, o)
      PROVE  RetiredStaysUngranted'
  <2>1. c \notin abandoned /\ abandoned' = abandoned
    BY <1>1 DEF Claim, Claimable, Grantable
  <2>2. ASSUME NEW d \in abandoned
        PROVE  claims'[d] = claims[d]
    BY <1>1, <2>1 DEF Claim
  <2> QED
    BY <2>1, <2>2 DEF RetiredStaysUngranted
<1>2. ASSUME NEW c \in Claims, AbandonClaim(c)
      PROVE  RetiredStaysUngranted'
  BY <1>2 DEF AbandonClaim, RetiredStaysUngranted
<1>3. ASSUME UNCHANGED <<claims, abandoned>>
      PROVE  RetiredStaysUngranted'
  BY <1>3 DEF RetiredStaysUngranted
<1>4. CASE Tick \/ Sweep
  BY <1>3, <1>4 DEF Tick, Sweep
<1>5. CASE Claimants
  BY <1>1, <1>3, <1>5 DEF Claimants, Heartbeat, Finish, Begin, End, lease
<1>6. CASE Administrators
  BY <1>2, <1>3, <1>6
  DEF Administrators, Enroll, Reconcile, ReconcileOperation, SetModelLimit,
      SetAuthorCapacity, PermitAuthorExtension, QuarantineModel, RenewQuarantine, PermitHostCapacity,
      PermitPhysicalExtension, lease
<1>7. CASE UNCHANGED vars
  BY <1>3, <1>7 DEF vars, lease
<1> QED
  BY <1>4, <1>5, <1>6, <1>7 DEF Next

\* An identifier that was retired before it was granted is never granted.
THEOREM Retired == Spec => []RetiredStaysUngranted
<1>1. Init => RetiredStaysUngranted
  BY DEF Init, RetiredStaysUngranted
<1> QED
  BY <1>1, RetiredStep, PTL DEF Spec
-----------------------------------------------------------------------------
(* Identifiers and effects. *)

\* Only what is active has lease time left.
SettledSpent ==
    \A p \in Operations :
        (operations[p] # None /\ operations[p].state # "active") => operations[p].left = 0

\* What a step other than its begin may do to the row of an operation.
OperationMoves(p) ==
    /\ granted'[p] = granted[p]
    /\ operations[p] = None => operations'[p] = None
    /\ operations[p] # None =>
        /\ operations'[p] # None
        /\ operations'[p].claim = operations[p].claim
        /\ operations'[p].workbook = operations[p].workbook
        /\ operations'[p].fence = operations[p].fence
        /\ operations'[p].state # "active" => operations'[p].left = 0
        /\ operations[p].state = "hold" => operations'[p].state # "active"
        /\ operations[p].state \in {"confirmed", "abandoned"}
            => operations'[p] = operations[p]

\* A row that is renewed or closed while active, or left, moves as it should.
LEMMA ActiveMoves ==
    ASSUME TypeOK, SettledSpent, NEW p \in Operations, granted' = granted,
           \/ operations'[p] = operations[p]
           \/ /\ operations[p] # None /\ operations[p].state = "active"
              /\ \/ operations'[p] = [operations[p] EXCEPT !.left = Lease]
                 \/ \E s \in {"hold", "confirmed"} : operations'[p] = Leave(operations[p], s)
    PROVE  OperationMoves(p)
<1>1. CASE operations'[p] = operations[p]
  BY <1>1 DEF OperationMoves, SettledSpent
<1>2. CASE /\ operations[p] # None /\ operations[p].state = "active"
           /\ operations'[p] = [operations[p] EXCEPT !.left = Lease]
  <2>1. operations[p] \in OperationRow
    BY <1>2 DEF TypeOK
  <2>2. operations'[p] \in OperationRow
    BY <1>2, <2>1, ZeroLeft DEF OperationRow
  <2> QED
    BY <1>2, <2>1, <2>2, LedgerAssumption DEF OperationMoves, OperationRow
<1>3. ASSUME NEW s \in {"hold", "confirmed"},
             operations[p] # None, operations[p].state = "active",
             operations'[p] = Leave(operations[p], s)
      PROVE  OperationMoves(p)
  <2>1. operations[p] \in OperationRow
    BY <1>3 DEF TypeOK
  <2>2. operations'[p] \in OperationRow
    BY <1>3, <2>1, LeaveOperationType
  <2> QED
    BY <1>3, <2>1, <2>2, LedgerAssumption DEF OperationMoves, OperationRow, Leave
<1> QED
  BY <1>1, <1>2, <1>3

LEMMA TickMoves ==
    ASSUME TypeOK, SettledSpent, NEW p \in Operations, Tick
    PROVE  OperationMoves(p)
<1>1. CASE operations[p] = None
  BY <1>1 DEF Tick, OperationMoves
<1>2. CASE operations[p] # None
  <2>1. /\ operations'[p] = [operations[p] EXCEPT !.left = Sooner(@)]
        /\ operations[p] \in OperationRow
        /\ granted' = granted
    BY <1>2 DEF Tick, TypeOK
  <2>2. /\ operations'[p] \in OperationRow
        /\ operations'[p].claim = operations[p].claim
        /\ operations'[p].workbook = operations[p].workbook
        /\ operations'[p].fence = operations[p].fence
        /\ operations'[p].state = operations[p].state
        /\ operations'[p].left = Sooner(operations[p].left)
    BY <2>1, LedgerAssumption, SoonerType DEF OperationRow
  <2>3. operations[p].state # "active" => operations'[p] = operations[p]
    BY <1>2, <2>1, <2>2 DEF SettledSpent, Sooner, OperationRow
  <2> QED
    BY <1>2, <2>1, <2>2, <2>3, LedgerAssumption DEF OperationMoves, SettledSpent, OperationRow
<1> QED
  BY <1>1, <1>2

LEMMA ReconcileMoves ==
    ASSUME TypeOK, SettledSpent, NEW p \in Operations, NEW q \in Operations,
           NEW d \in {"confirmed", "abandoned"}, ReconcileOperation(q, d)
    PROVE  OperationMoves(p)
<1>1. CASE p # q
  BY <1>1, ActiveMoves DEF ReconcileOperation, TypeOK
<1>2. CASE p = q
  <2>1. /\ operations[p] # None /\ operations[p].state = "hold"
        /\ operations[p] \in OperationRow
        /\ operations'[p] = [operations[p] EXCEPT !.state = d]
        /\ granted' = granted
    BY <1>2 DEF ReconcileOperation, TypeOK
  <2>2. operations'[p] \in OperationRow /\ operations'[p].left = operations[p].left
    BY <2>1 DEF OperationRow
  <2> QED
    BY <2>1, <2>2, LedgerAssumption DEF OperationMoves, OperationRow, SettledSpent
<1> QED
  BY <1>1, <1>2

LEMMA OperationsStep ==
    TypeOK /\ SettledSpent /\ [Next]_vars =>
        \A p \in Operations : OperationMoves(p) \/ \E c \in Claims : Begin(c, p)
<1> SUFFICES ASSUME TypeOK, SettledSpent, [Next]_vars, NEW p \in Operations,
                    ~ \E c \in Claims : Begin(c, p)
             PROVE  OperationMoves(p)
  OBVIOUS
<1>1. ASSUME UNCHANGED <<operations, granted>>
      PROVE  OperationMoves(p)
  BY <1>1, ActiveMoves
<1>2. CASE Sweep
  BY <1>2, ActiveMoves DEF Sweep, Expired
<1>3. ASSUME NEW c \in Claims, NEW q \in Operations, Begin(c, q)
      PROVE  OperationMoves(p)
  BY <1>3, ActiveMoves DEF Begin, TypeOK, OperationMoves, SettledSpent
<1>4. ASSUME NEW c \in Claims, Heartbeat(c)
      PROVE  OperationMoves(p)
  BY <1>4, ActiveMoves DEF Heartbeat
<1>5. ASSUME NEW c \in Claims, NEW d \in {"complete", "hold"}, Finish(c, d)
      PROVE  OperationMoves(p)
  BY <1>5, ActiveMoves DEF Finish
<1>6. ASSUME NEW c \in Claims, NEW q \in Operations, NEW r \in {"confirmed", "uncertain"},
             End(c, q, r)
      PROVE  OperationMoves(p)
  BY <1>6, ActiveMoves DEF End, Ends, Endable, TypeOK
<1>7. CASE Claimants
  BY <1>1, <1>3, <1>4, <1>5, <1>6, <1>7 DEF Claimants, Claim
<1>8. CASE Administrators
  BY <1>1, <1>8, ReconcileMoves
  DEF Administrators, Enroll, Reconcile, AbandonClaim, SetModelLimit, SetAuthorCapacity,
      PermitAuthorExtension, QuarantineModel, RenewQuarantine, PermitHostCapacity,
      PermitPhysicalExtension
<1>9. CASE UNCHANGED vars
  BY <1>1, <1>9 DEF vars
<1> QED
  BY <1>2, <1>7, <1>8, <1>9, TickMoves DEF Next

\* A begin puts an active row where there was none.
LEMMA BeginMoves ==
    ASSUME TypeOK, NEW c \in Claims, NEW p \in Operations, Begin(c, p)
    PROVE  /\ operations[p] = None
           /\ operations'[p] # None /\ operations'[p].state = "active"
           /\ granted'[p] = granted[p] + 1
<1>1. operations'[p] \in OperationRow \cup {None} /\ operations'[p].state = "active"
  BY BeginType DEF Begin, TypeOK
<1>2. operations'[p] \in OperationRow
  <2>1. Owned(c)
    BY DEF Begin, Admitted
  <2> QED
    BY <2>1, OwnedType DEF Begin, TypeOK, OperationRow, Grant, Row
<1> QED
  BY <1>1, <1>2, LedgerAssumption DEF Begin, Unconsumed, TypeOK

EffectsInv == SettledSpent /\ OneExecution

LEMMA EffectsStep == TypeOK /\ EffectsInv /\ [Next]_vars => EffectsInv'
<1> SUFFICES ASSUME TypeOK, EffectsInv, [Next]_vars PROVE EffectsInv'
  OBVIOUS
<1>1. ASSUME NEW p \in Operations
      PROVE  /\ (operations'[p] # None /\ operations'[p].state # "active") => operations'[p].left = 0
             /\ granted'[p] = IF operations'[p] = None THEN 0 ELSE 1
  <2>1. CASE OperationMoves(p)
    BY <2>1 DEF OperationMoves, EffectsInv, OneExecution
  <2>2. CASE \E c \in Claims : Begin(c, p)
    BY <2>2, BeginMoves DEF EffectsInv, OneExecution
  <2> QED
    BY <2>1, <2>2, OperationsStep DEF EffectsInv
<1> QED
  BY <1>1 DEF EffectsInv, SettledSpent, OneExecution

LEMMA EffectsInvariant == Spec => [](TypeOK /\ EffectsInv)
<1>1. Init => EffectsInv
  BY DEF Init, EffectsInv, SettledSpent, OneExecution
<1> QED
  BY <1>1, EffectsStep, TypeInvariant, PTL DEF TypeInv, Spec

\* An identifier is told to execute at most once, ever.
THEOREM OneExecutionCorrect == Spec => []OneExecution
BY EffectsInvariant, PTL DEF EffectsInv

\* Every identifier is spent once: of an operation, of a fence, of a claim.
THEOREM IdentifiersCorrect == Spec => []IdentifiersSpent
BY OneExecutionCorrect, Fences, Retired, PTL DEF IdentifiersSpent

LEMMA SettleStep ==
    ASSUME TypeOK, EffectsInv, [Next]_vars
    PROVE  \A p \in Operations : operations[p] # None =>
            /\ operations'[p] # None
            /\ operations'[p].claim = operations[p].claim
            /\ operations[p].state = "hold" => operations'[p].state # "active"
            /\ operations[p].state \in {"confirmed", "abandoned"}
                => operations'[p] = operations[p]
BY OperationsStep, BeginMoves DEF OperationMoves, EffectsInv
-----------------------------------------------------------------------------
(* What is outstanding belongs to the present claim of its workbook.       *)

\* The row of an operation agrees with the row of its workbook.  The lease of
\* an active operation is that of its workbook, so that one sweep holds both.
Agrees(op, row) ==
    /\ row.state \in {"active", "hold"}
    /\ row.claim = op.claim /\ row.owner = op.owner /\ row.fence = op.fence
    /\ op.state = "hold" => row.state = "hold"
    /\ (op.state = "active" /\ row.state = "active") => op.left = row.left

Outstanding ==
    \A p \in Operations :
        Occupied(p) => Agrees(operations[p], workbooks[operations[p].workbook])

LEMMA LeftRow ==
    ASSUME NEW row \in Row, NEW s
    PROVE  /\ Leave(row, s).state = s /\ Leave(row, s).left = 0
           /\ Leave(row, s).claim = row.claim /\ Leave(row, s).owner = row.owner
           /\ Leave(row, s).fence = row.fence
BY DEF Row, Leave

LEMMA LeftOperation ==
    ASSUME NEW op \in OperationRow, NEW s
    PROVE  /\ Leave(op, s).state = s /\ Leave(op, s).left = 0
           /\ Leave(op, s).claim = op.claim /\ Leave(op, s).owner = op.owner
           /\ Leave(op, s).fence = op.fence /\ Leave(op, s).workbook = op.workbook
BY DEF OperationRow, Leave

LEMMA OutstandingTick == TypeOK /\ Outstanding /\ Tick => Outstanding'
<1> SUFFICES ASSUME TypeOK, Outstanding, Tick, NEW p \in Operations, Occupied(p)'
             PROVE  Agrees(operations[p], workbooks[operations[p].workbook])'
  BY DEF Outstanding
<1>1. operations[p] # None /\ operations[p] \in OperationRow
  BY DEF Tick, TypeOK, Occupied
<1>2. operations[p].workbook \in Workbooks
  BY <1>1 DEF OperationRow
<1>3. /\ operations'[p] = [operations[p] EXCEPT !.left = Sooner(@)]
      /\ workbooks'[operations[p].workbook] =
            [workbooks[operations[p].workbook] EXCEPT !.left = Sooner(@)]
  BY <1>1, <1>2 DEF Tick
<1>4. workbooks[operations[p].workbook] \in Row
  BY <1>2 DEF TypeOK
<1>5. Occupied(p)
  BY <1>1, <1>3 DEF Occupied, OperationRow
<1>6. Agrees(operations[p], workbooks[operations[p].workbook])
  BY <1>5 DEF Outstanding
<1> QED
  BY <1>1, <1>3, <1>4, <1>6 DEF Agrees, OperationRow, Row

LEMMA OutstandingSweep == TypeOK /\ Outstanding /\ Sweep => Outstanding'
<1> SUFFICES ASSUME TypeOK, Outstanding, Sweep, NEW p \in Operations, Occupied(p)'
             PROVE  Agrees(operations[p], workbooks[operations[p].workbook])'
  BY DEF Outstanding
<1>1. operations[p] # None /\ operations[p] \in OperationRow
  BY DEF Sweep, TypeOK, Occupied
<1>2. operations[p].workbook \in Workbooks
  BY <1>1 DEF OperationRow
<1> DEFINE op == operations[p]  row == workbooks[operations[p].workbook]
<1>3. /\ operations'[p] = IF Expired(op) THEN Leave(op, "hold") ELSE op
      /\ workbooks'[op.workbook] = IF Expired(row) THEN Leave(row, "hold") ELSE row
  BY <1>1, <1>2 DEF Sweep, SweptWorkbooks
<1>4. row \in Row
  BY <1>2 DEF TypeOK
<1>5. Occupied(p)
  BY <1>1, <1>3 DEF Occupied, OperationRow, Leave, Expired
<1>6. Agrees(op, row)
  BY <1>5 DEF Outstanding
<1> QED
  BY <1>1, <1>3, <1>4, <1>6, LeftRow, LeftOperation DEF Agrees, Expired

\* A step that touches no operation keeps Outstanding if it leaves alone every
\* workbook that has one outstanding.
LEMMA OutstandingKept ==
    ASSUME TypeOK, Outstanding, operations' = operations,
           \A w \in Workbooks : workbooks'[w] = workbooks[w] \/ ~Unsettled(w)
    PROVE  Outstanding'
<1> SUFFICES ASSUME NEW p \in Operations, Occupied(p)'
             PROVE  Agrees(operations[p], workbooks[operations[p].workbook])'
  BY DEF Outstanding
<1>1. Occupied(p) /\ operations[p] \in OperationRow
  BY DEF Occupied, TypeOK
<1>2. operations[p].workbook \in Workbooks /\ Unsettled(operations[p].workbook)
  BY <1>1 DEF OperationRow, Unsettled
<1> QED
  BY <1>1, <1>2 DEF Outstanding

\* A workbook without a live row has nothing outstanding.
LEMMA DeadRow ==
    ASSUME TypeOK, Outstanding, NEW w \in Workbooks, workbooks[w].state \notin {"active", "hold"}
    PROVE  ~Unsettled(w)
BY DEF Outstanding, Unsettled, Agrees

LEMMA OutstandingHeartbeat ==
    ASSUME TypeOK, Outstanding, NEW c \in Claims, Heartbeat(c)
    PROVE  Outstanding'
<1> SUFFICES ASSUME NEW p \in Operations, Occupied(p)'
             PROVE  Agrees(operations[p], workbooks[operations[p].workbook])'
  BY DEF Outstanding
<1> DEFINE w == claims[c].workbook
<1>1. /\ w \in Workbooks /\ workbooks[w] \in Row /\ workbooks[w].state = "active"
      /\ workbooks[w].owner = claims[c].owner /\ workbooks[w].fence = claims[c].fence
  BY OwnedType DEF Heartbeat
<1>2. operations[p] # None /\ operations[p] \in OperationRow /\ operations[p].workbook \in Workbooks
  BY DEF Heartbeat, TypeOK, Occupied, OperationRow
<1>3. Occupied(p)
  BY <1>2 DEF Heartbeat, Occupied, OperationRow
<1>4. Agrees(operations[p], workbooks[operations[p].workbook])
  BY <1>3 DEF Outstanding
<1>5. workbooks' = [workbooks EXCEPT ![w].left = Lease]
  BY DEF Heartbeat
<1>6. operations'[p] = IF operations[p].state = "active" /\ operations[p].workbook = w
                            /\ operations[p].owner = claims[c].owner
                            /\ operations[p].fence = claims[c].fence
                       THEN [operations[p] EXCEPT !.left = Lease] ELSE operations[p]
  BY <1>2 DEF Heartbeat
<1>7. CASE operations[p].workbook # w
  BY <1>1, <1>2, <1>4, <1>5, <1>6, <1>7 DEF TypeOK
<1>8. CASE operations[p].workbook = w
  <2>1. operations[p].state = "active"
    BY <1>1, <1>3, <1>4, <1>8 DEF Agrees, Occupied
  <2>2. operations'[p] = [operations[p] EXCEPT !.left = Lease]
    BY <1>1, <1>4, <1>6, <1>8, <2>1 DEF Agrees
  <2>3. workbooks'[w] = [workbooks[w] EXCEPT !.left = Lease]
    BY <1>1, <1>5 DEF TypeOK
  <2> QED
    BY <1>1, <1>2, <1>4, <1>8, <2>1, <2>2, <2>3 DEF Agrees, OperationRow, Row
<1> QED
  BY <1>7, <1>8

LEMMA OutstandingFinish ==
    ASSUME TypeOK, Outstanding, NEW c \in Claims, NEW d \in {"complete", "hold"}, Finish(c, d)
    PROVE  Outstanding'
<1> SUFFICES ASSUME NEW p \in Operations, Occupied(p)'
             PROVE  Agrees(operations[p], workbooks[operations[p].workbook])'
  BY DEF Outstanding
<1> DEFINE w == claims[c].workbook
<1>1. w \in Workbooks /\ workbooks[w] \in Row
  BY OwnedType DEF Finish, Finishes
<1>2. operations[p] # None /\ operations[p] \in OperationRow /\ operations[p].workbook \in Workbooks
  BY DEF Finish, TypeOK, Occupied, OperationRow
<1>3. operations'[p] = IF operations[p].state = "active" /\ operations[p].workbook = w
                       THEN Leave(operations[p], "hold") ELSE operations[p]
  BY <1>2 DEF Finish
<1>4. workbooks' = [workbooks EXCEPT ![w] = Leave(@, d)]
  BY DEF Finish
<1>5. Occupied(p)
  BY <1>2, <1>3 DEF Occupied, OperationRow
<1>6. Agrees(operations[p], workbooks[operations[p].workbook])
  BY <1>5 DEF Outstanding
<1>7. CASE operations[p].workbook # w
  BY <1>1, <1>2, <1>3, <1>4, <1>6, <1>7 DEF TypeOK
<1>8. CASE operations[p].workbook = w
  <2>1. d = "hold"
    BY <1>5, <1>8 DEF Finish, Finishes, Unsettled
  <2>2. workbooks'[w] = Leave(workbooks[w], "hold")
    BY <1>1, <1>4, <2>1 DEF TypeOK
  <2> QED
    BY <1>1, <1>2, <1>3, <1>6, <1>8, <2>2, LeftRow, LeftOperation DEF Agrees
<1> QED
  BY <1>7, <1>8

LEMMA OutstandingBegin ==
    ASSUME TypeOK, Outstanding, NEW c \in Claims, NEW q \in Operations, Begin(c, q)
    PROVE  Outstanding'
<1> SUFFICES ASSUME NEW p \in Operations, Occupied(p)'
             PROVE  Agrees(operations[p], workbooks[operations[p].workbook])'
  BY DEF Outstanding
<1>1. workbooks' = workbooks
  BY DEF Begin, lease
<1>2. CASE p # q
  <2>1. operations'[p] = operations[p]
    BY <1>2 DEF Begin, TypeOK
  <2> QED
    BY <1>1, <2>1 DEF Outstanding, Occupied
<1>3. CASE p = q
  <2>1. Owned(c)
    BY DEF Begin, Admitted
  <2>2. operations'[p] =
            [workbook |-> claims[c].workbook, owner |-> claims[c].owner, claim |-> c,
             fence |-> claims[c].fence, state |-> "active",
             left |-> workbooks[claims[c].workbook].left]
    BY <1>3 DEF Begin, TypeOK
  <2> QED
    BY <1>1, <2>1, <2>2, OwnedType DEF Agrees
<1> QED
  BY <1>2, <1>3

LEMMA OutstandingEnd ==
    ASSUME TypeOK, Outstanding, NEW c \in Claims, NEW q \in Operations,
           NEW r \in {"confirmed", "uncertain"}, End(c, q, r)
    PROVE  Outstanding'
<1> SUFFICES ASSUME NEW p \in Operations, Occupied(p)'
             PROVE  Agrees(operations[p], workbooks[operations[p].workbook])'
  BY DEF Outstanding
<1> DEFINE w == claims[c].workbook
<1>1. w \in Workbooks /\ workbooks[w] \in Row
  BY OwnedType DEF End, Ends
<1>2. /\ operations[q] # None /\ operations[q] \in OperationRow
      /\ operations[q].workbook = w /\ operations[q].state = "active"
      /\ operations'[q] = Leave(operations[q], IF r = "confirmed" THEN "confirmed" ELSE "hold")
      /\ \A p1 \in Operations \ {q} : operations'[p1] = operations[p1]
  BY DEF End, Ends, Endable, TypeOK
<1>3. Occupied(p) /\ operations[p] \in OperationRow
  BY <1>2 DEF Occupied, TypeOK
<1>4. Agrees(operations[p], workbooks[operations[p].workbook])
  BY <1>3 DEF Outstanding
<1>5. CASE r = "confirmed"
  <2>1. p # q
    BY <1>2, <1>5 DEF Occupied, Leave, OperationRow
  <2>2. workbooks' = workbooks /\ operations'[p] = operations[p]
    BY <1>2, <1>5, <2>1 DEF End
  <2> QED
    BY <1>4, <2>2
<1>6. CASE r = "uncertain"
  <2>1. workbooks' = [workbooks EXCEPT ![w] = Leave(@, "hold")]
    BY <1>6 DEF End
  <2>2. operations'[q] = Leave(operations[q], "hold")
    BY <1>2, <1>6
  <2>3. workbooks'[w] = Leave(workbooks[w], "hold")
    BY <1>1, <2>1 DEF TypeOK
  <2>4. operations[p].workbook \in Workbooks
    BY <1>3 DEF OperationRow
  <2>5. CASE p = q
    BY <1>1, <1>2, <1>4, <2>2, <2>3, <2>5, LeftRow, LeftOperation DEF Agrees
  <2>6. CASE p # q /\ operations[p].workbook = w
    BY <1>1, <1>2, <1>4, <2>3, <2>6, LeftRow DEF Agrees
  <2>7. CASE p # q /\ operations[p].workbook # w
    BY <1>1, <1>2, <1>4, <2>1, <2>4, <2>7 DEF TypeOK
  <2> QED
    BY <2>5, <2>6, <2>7
<1> QED
  BY <1>5, <1>6

LEMMA OutstandingSettled ==
    ASSUME TypeOK, Outstanding, NEW q \in Operations, NEW d \in {"confirmed", "abandoned"},
           ReconcileOperation(q, d)
    PROVE  Outstanding'
<1> SUFFICES ASSUME NEW p \in Operations, Occupied(p)'
             PROVE  Agrees(operations[p], workbooks[operations[p].workbook])'
  BY DEF Outstanding
<1>1. /\ workbooks' = workbooks
      /\ operations[q] \in OperationRow
      /\ operations' = [operations EXCEPT ![q].state = d]
  BY DEF ReconcileOperation, lease, TypeOK
<1>2. p # q
  BY <1>1 DEF Occupied, TypeOK, OperationRow
<1>3. operations'[p] = operations[p]
  BY <1>1, <1>2 DEF TypeOK
<1> QED
  BY <1>1, <1>3 DEF Outstanding, Occupied

LEMMA OutstandingStep == TypeOK /\ Outstanding /\ [Next]_vars => Outstanding'
<1> SUFFICES ASSUME TypeOK, Outstanding, [Next]_vars PROVE Outstanding'
  OBVIOUS
<1>1. ASSUME UNCHANGED <<workbooks, operations>>
      PROVE  Outstanding'
  BY <1>1, OutstandingKept
<1>2. ASSUME NEW c \in Claims, NEW w \in Workbooks, NEW o \in Owners, Claim(c, w, o)
      PROVE  Outstanding'
  <2>1. /\ workbooks[w].state = "ready" /\ operations' = operations
        /\ \A v \in Workbooks \ {w} : workbooks'[v] = workbooks[v]
    BY <1>2 DEF Claim, Claimable, TypeOK
  <2> QED
    BY <2>1, DeadRow, OutstandingKept
<1>3. ASSUME NEW w \in Workbooks, Enroll(w)
      PROVE  Outstanding'
  <2>1. /\ workbooks[w].state = "absent" /\ operations' = operations
        /\ \A v \in Workbooks \ {w} : workbooks'[v] = workbooks[v]
    BY <1>3 DEF Enroll, TypeOK
  <2> QED
    BY <2>1, DeadRow, OutstandingKept
<1>4. ASSUME NEW w \in Workbooks, NEW d \in {"ready", "complete", "hold"}, Reconcile(w, d)
      PROVE  Outstanding'
  <2>1. /\ ~Unsettled(w) /\ operations' = operations
        /\ \A v \in Workbooks \ {w} : workbooks'[v] = workbooks[v]
    BY <1>4 DEF Reconcile, TypeOK
  <2> QED
    BY <2>1, OutstandingKept
<1>5. CASE Claimants
  BY <1>2, <1>5, OutstandingHeartbeat, OutstandingFinish, OutstandingBegin, OutstandingEnd
  DEF Claimants
<1>6. CASE Administrators
  BY <1>1, <1>3, <1>4, <1>6, OutstandingSettled
  DEF Administrators, AbandonClaim, SetModelLimit, SetAuthorCapacity, PermitAuthorExtension,
      QuarantineModel, RenewQuarantine, PermitHostCapacity,
      PermitPhysicalExtension, lease
<1>7. CASE UNCHANGED vars
  BY <1>1, <1>7 DEF vars, lease
<1> QED
  BY <1>5, <1>6, <1>7, OutstandingTick, OutstandingSweep DEF Next

\* No expiry, finish or reconciliation hands a workbook on over an effect that
\* may still happen.
THEOREM OutstandingCorrect == Spec => []OutstandingHeld
<1>1. Init => Outstanding
  BY DEF Init, Outstanding, Occupied
<1>2. Outstanding => OutstandingHeld
  BY DEF Outstanding, OutstandingHeld, Agrees
<1> QED
  BY <1>1, <1>2, OutstandingStep, TypeInvariant, PTL DEF TypeInv, Spec
-----------------------------------------------------------------------------
(* Quarantines. *)

\* A quarantine is on its operation's host and its workbook is not active.
Isolated ==
    \A p \in ModelOps : quarantines[p] # None =>
        /\ quarantines[p].host = HostOf[quarantines[p].operation.owner]
        /\ workbooks[quarantines[p].operation.workbook].state # "active"

\* A step that makes no workbook active and no quarantine keeps Isolated.
LEMMA IsolatedKept ==
    ASSUME TypeOK, Isolated,
           \A p \in ModelOps : quarantines'[p] # None =>
                /\ quarantines[p] # None
                /\ quarantines'[p].host = quarantines[p].host
                /\ quarantines'[p].operation = quarantines[p].operation,
           \A w \in Workbooks : workbooks'[w].state = "active" => workbooks[w].state = "active"
    PROVE  Isolated'
<1>1. \A p \in ModelOps : quarantines[p] # None => quarantines[p].operation.workbook \in Workbooks
  BY DEF TypeOK, OperationRow
<1> QED
  BY <1>1 DEF Isolated

LEMMA IsolatedStep == TypeOK /\ Isolated /\ [Next]_vars => Isolated'
<1> SUFFICES ASSUME TypeOK, Isolated, [Next]_vars PROVE Isolated'
  OBVIOUS
<1>1. ASSUME UNCHANGED quarantines,
             \A w \in Workbooks : workbooks'[w].state = "active" => workbooks[w].state = "active"
      PROVE  Isolated'
  BY <1>1, IsolatedKept
<1>2. CASE Tick
  <2>1. ASSUME NEW p \in ModelOps, quarantines'[p] # None
        PROVE  /\ quarantines[p] # None
               /\ quarantines'[p].host = quarantines[p].host
               /\ quarantines'[p].operation = quarantines[p].operation
    BY <1>2, <2>1 DEF Tick, TypeOK
  <2>2. \A w \in Workbooks : workbooks'[w].state = workbooks[w].state
    BY <1>2 DEF Tick, TypeOK, Row
  <2> QED
    BY <2>1, <2>2, IsolatedKept
<1>3. CASE Sweep
  <2>1. \A w \in Workbooks : workbooks'[w] = workbooks[w] \/ workbooks'[w].state = "hold"
    BY <1>3, LeftRow DEF Sweep, SweptWorkbooks, TypeOK
  <2> QED
    BY <1>1, <1>3, <2>1 DEF Sweep, exceptions
<1>4. ASSUME NEW c \in Claims, NEW w \in Workbooks, NEW o \in Owners, Claim(c, w, o)
      PROVE  Isolated'
  <2>1. /\ quarantines' = quarantines
        /\ \A p \in ModelOps : quarantines[p] # None => quarantines[p].operation.workbook # w
        /\ \A v \in Workbooks \ {w} : workbooks'[v] = workbooks[v]
    BY <1>4 DEF Claim, Claimable, CustodyAllows, TypeOK, exceptions
  <2>2. \A p \in ModelOps : quarantines[p] # None => quarantines[p].operation.workbook \in Workbooks
    BY DEF TypeOK, OperationRow
  <2> QED
    BY <2>1, <2>2 DEF Isolated
<1>5. ASSUME NEW c \in Claims, Owned(c), quarantines' = quarantines,
             \/ workbooks' = workbooks
             \/ workbooks' = [workbooks EXCEPT ![claims[c].workbook].left = Lease]
             \/ \E s \in {"hold", "complete"} :
                    workbooks' = [workbooks EXCEPT ![claims[c].workbook] = Leave(@, s)]
      PROVE  Isolated'
  <2>1. claims[c].workbook \in Workbooks /\ workbooks[claims[c].workbook] \in Row
    BY <1>5, OwnedType
  <2>2. CASE workbooks' = [workbooks EXCEPT ![claims[c].workbook].left = Lease]
    BY <1>1, <1>5, <2>1, <2>2 DEF TypeOK, Row
  <2>3. ASSUME NEW s \in {"hold", "complete"},
               workbooks' = [workbooks EXCEPT ![claims[c].workbook] = Leave(@, s)]
        PROVE  Isolated'
    <3>1. \A w \in Workbooks : workbooks'[w] = workbooks[w] \/ workbooks'[w].state = s
      BY <2>1, <2>3, LeftRow DEF TypeOK
    <3> QED
      BY <1>1, <1>5, <3>1
  <2> QED
    BY <1>1, <1>5, <2>2, <2>3
<1>6. CASE Claimants
  BY <1>4, <1>5, <1>6
  DEF Claimants, Heartbeat, Finish, Finishes, Begin, Admitted, End, Ends, lease, exceptions
<1>7. ASSUME NEW w \in Workbooks, Enroll(w) \/ \E d \in {"ready", "complete", "hold"} : Reconcile(w, d)
      PROVE  Isolated'
  BY <1>1, <1>7 DEF Enroll, Reconcile, TypeOK, Row, exceptions
<1>8. ASSUME NEW p \in ModelOps, NEW time \in 1..Window, QuarantineModel(p, time)
      PROVE  Isolated'
  <2>1. /\ workbooks[operations[p].workbook].state = "hold"
        /\ workbooks' = workbooks
        /\ quarantines'[p] = [operation |-> operations[p], host |-> HostOf[operations[p].owner],
                              left |-> time]
        /\ \A q \in ModelOps \ {p} : quarantines'[q] = quarantines[q]
    BY <1>8 DEF QuarantineModel, TypeOK, lease
  <2> QED
    BY <2>1 DEF Isolated
<1>9. ASSUME NEW p \in ModelOps, NEW time \in 1..Window, RenewQuarantine(p, time)
      PROVE  Isolated'
  <2>1. /\ workbooks' = workbooks /\ quarantines[p] # None
        /\ quarantines'[p].operation = quarantines[p].operation
        /\ quarantines'[p].host = quarantines[p].host
        /\ \A q \in ModelOps \ {p} : quarantines'[q] = quarantines[q]
    BY <1>9 DEF RenewQuarantine, TypeOK, lease
  <2> QED
    BY <2>1 DEF Isolated
<1>10. CASE Administrators
  BY <1>1, <1>7, <1>8, <1>9, <1>10
  DEF Administrators, AbandonClaim, ReconcileOperation, SetModelLimit, SetAuthorCapacity,
      PermitAuthorExtension, PermitHostCapacity, PermitPhysicalExtension, lease, exceptions
<1>11. CASE UNCHANGED vars
  BY <1>1, <1>11 DEF vars, lease, exceptions
<1> QED
  BY <1>2, <1>3, <1>6, <1>10, <1>11 DEF Next

LEMMA IsolatedInvariant == Spec => [](TypeOK /\ SettledSpent /\ Isolated)
<1>1. Init => Isolated
  BY DEF Init, Isolated
<1> QED
  BY <1>1, IsolatedStep, TypeInvariant, EffectsInvariant, PTL DEF TypeInv, EffectsInv, Spec

\* A workbook whose effect was quarantined is never active again.
THEOREM QuarantinedStops == Spec => []QuarantinedWorkbookStops
<1>1. Isolated => QuarantinedWorkbookStops
  BY DEF Isolated, QuarantinedWorkbookStops
<1> QED
  BY <1>1, IsolatedInvariant, PTL

LEMMA UnknownStep ==
    ASSUME TypeOK, SettledSpent, Isolated, [Next]_vars
    PROVE  \A p, u \in ModelOps :
            (/\ operations[p] = None /\ operations'[p] # None
             /\ operations[u] # None /\ operations[u].state = "hold")
                => /\ quarantines[u] # None
                   /\ quarantines[u].left > 0
                   /\ operations'[p].workbook # operations[u].workbook
                   /\ HostOf[operations'[p].owner] = HostOf[operations[u].owner] =>
                        /\ capacities[quarantines[u].host] # None
                        /\ capacities[quarantines[u].host].left > 0
<1> SUFFICES ASSUME NEW p \in ModelOps, NEW u \in ModelOps,
                    operations[p] = None, operations'[p] # None,
                    operations[u] # None, operations[u].state = "hold"
             PROVE  /\ quarantines[u] # None
                    /\ quarantines[u].left > 0
                    /\ operations'[p].workbook # operations[u].workbook
                    /\ HostOf[operations'[p].owner] = HostOf[operations[u].owner] =>
                         /\ capacities[quarantines[u].host] # None
                         /\ capacities[quarantines[u].host].left > 0
  OBVIOUS
<1>1. PICK c \in Claims : Begin(c, p)
  BY OperationsStep DEF OperationMoves
<1>2. /\ operations'[p].workbook = claims[c].workbook
      /\ operations'[p].owner = claims[c].owner
  BY <1>1 DEF Begin, TypeOK
<1>3. ~ModelBusy(claims[c].workbook, claims[c].owner)
  BY <1>1 DEF Begin, Busy
<1>4. QuarantinedHold(u, claims[c].workbook, claims[c].owner)
  BY <1>3 DEF ModelBusy, OccupiedModels, Occupied
<1>5. operations[u] = quarantines[u].operation
  BY <1>4 DEF QuarantinedHold, StillHeld
<1>6. quarantines[u] # None /\ quarantines[u].host = HostOf[operations[u].owner]
  BY <1>4, <1>5 DEF QuarantinedHold, Isolated
<1> QED
  BY <1>2, <1>4, <1>5, <1>6 DEF QuarantinedHold, HostCapacity

\* Nothing starts beside an unknown effect, except within its quarantine.
THEOREM UnknownStops == Spec => UnknownBlocks
BY IsolatedInvariant, UnknownStep, PTL DEF Spec, UnknownBlocks
-----------------------------------------------------------------------------
(* Author slots. *)

\* A slot repeats what its claim was granted.
SlotsNamed ==
    \A c \in Claims : reservations[c] # None =>
        /\ claims[c] # None
        /\ claims[c].workbook = reservations[c].workbook
        /\ claims[c].owner = reservations[c].owner
        /\ claims[c].fence = reservations[c].fence

\* A claim whose owner stopped was granted and is active no more.
StoppedEnded ==
    /\ \A c \in stopped : claims[c] # None
    /\ \A w \in Workbooks : workbooks[w].state = "active" => workbooks[w].claim \notin stopped

SlotsInv == SlotsNamed /\ StoppedEnded /\ SlotsMatchHolders

\* What a step does to the slots when it takes no workbook from anyone.
LEMMA SlotsKept ==
    ASSUME TypeOK, RowsNamed, SlotsInv,
           UNCHANGED <<claims, authorPolicy, reservations, stopped>>,
           \A w \in Workbooks :
                /\ workbooks'[w].claim = workbooks[w].claim
                /\ workbooks'[w].owner = workbooks[w].owner
                /\ workbooks'[w].fence = workbooks[w].fence
                /\ workbooks'[w].state = "active" => workbooks[w].state = "active"
                /\ workbooks[w].state \in {"active", "hold"} =>
                        workbooks'[w].state \in {"active", "hold"}
    PROVE  SlotsInv'
<1>1. \A c \in Claims : claims[c] # None => claims[c].workbook \in Workbooks
  BY DEF TypeOK, Grant
<1>2. \A c \in Claims : Owned(c)' => Owned(c)
  BY <1>1 DEF Owned
<1>3. \A c \in Claims : reservations[c] # None => reservations[c].workbook \in Workbooks
  BY <1>1 DEF SlotsInv, SlotsNamed
<1>4. SlotsNamed' /\ StoppedEnded'
  BY DEF SlotsInv, SlotsNamed, StoppedEnded
<1> QED
  BY <1>2, <1>3, <1>4 DEF SlotsInv, SlotsMatchHolders, AuthorHost

\* A step that releases the slot of a workbook whose row stops being active.
LEMMA SlotsReleased ==
    ASSUME TypeOK, RowsNamed, SlotsInv, NEW w \in Workbooks, ReleaseAuthor(w),
           UNCHANGED <<claims, authorPolicy>>, workbooks'[w].state # "active",
           \A v \in Workbooks \ {w} : workbooks'[v] = workbooks[v]
    PROVE  SlotsInv'
<1>1. \A c \in Claims : reservations'[c] =
        IF /\ c = workbooks[w].claim /\ reservations[c] # None
           /\ reservations[c].workbook = w
           /\ reservations[c].owner = workbooks[w].owner
           /\ reservations[c].fence = workbooks[w].fence
           /\ reservations[c].state \in {"active", "hold"}
        THEN [reservations[c] EXCEPT !.state = "released"] ELSE reservations[c]
  BY DEF ReleaseAuthor
<1>2. \A c \in Claims : reservations[c] # None => reservations[c] \in Slot
  BY DEF TypeOK
<1>3. ASSUME NEW c \in Claims, reservations'[c] # None
      PROVE  /\ reservations[c] # None
             /\ reservations'[c].workbook = reservations[c].workbook
             /\ reservations'[c].owner = reservations[c].owner
             /\ reservations'[c].fence = reservations[c].fence
             /\ reservations'[c].state # "released" => reservations'[c] = reservations[c]
  BY <1>1, <1>2, <1>3 DEF Slot
<1>4. SlotsNamed'
  BY <1>3 DEF SlotsInv, SlotsNamed
<1> DEFINE holder == workbooks[w].claim
<1>5. stopped' = stopped \cup ({holder} \ {None})
  BY DEF ReleaseAuthor
<1>6. StoppedEnded'
  <2>1. ASSUME NEW v \in Workbooks \ {w}, workbooks[v].state = "active"
        PROVE  workbooks[v].claim # holder
    BY <2>1 DEF RowsNamed
  <2>2. holder # None => claims[holder] # None
    BY DEF RowsNamed
  <2> QED
    BY <1>5, <2>1, <2>2 DEF SlotsInv, StoppedEnded, RowsNamed
<1>7. ASSUME NEW c \in Claims, authorPolicy', Owned(c)', (AuthorHost(claims[c].owner) # None)'
      PROVE  reservations'[c] # None /\ reservations'[c].state = "active"
  <2>1. claims[c] # None /\ claims[c].workbook \in Workbooks \ {w}
    BY <1>7 DEF Owned, TypeOK, Grant
  <2>2. Owned(c)
    BY <1>7, <2>1 DEF Owned
  <2>3. c # workbooks[w].claim
    BY <2>1, LedgerAssumption DEF RowsNamed
  <2> QED
    BY <1>1, <1>7, <2>2, <2>3 DEF SlotsInv, SlotsMatchHolders, AuthorHost
<1>8. ASSUME NEW c \in Claims, reservations'[c] # None
      PROVE  /\ (reservations'[c].state = "released") = (c \in stopped')
             /\ c \notin stopped' =>
                    LET row == workbooks'[reservations'[c].workbook] IN
                        row.claim = c /\ row.state \in {"active", "hold"}
  <2>1. reservations[c] # None /\ reservations[c] \in Slot /\ reservations[c].workbook \in Workbooks
    BY <1>2, <1>3, <1>8 DEF Slot
  <2>2. CASE c = holder
    <3>1. /\ c \in stopped'
          /\ reservations[c].workbook = w
          /\ reservations[c].owner = workbooks[w].owner
          /\ reservations[c].fence = workbooks[w].fence
      BY <1>5, <2>1, <2>2, LedgerAssumption DEF SlotsInv, SlotsNamed, RowsNamed
    <3>2. reservations[c].state # "released" =>
            reservations'[c] = [reservations[c] EXCEPT !.state = "released"]
      BY <1>1, <2>1, <2>2, <3>1 DEF Slot
    <3>3. reservations[c].state = "released" => reservations'[c] = reservations[c]
      BY <1>1
    <3>4. reservations'[c].state = "released"
      BY <2>1, <3>2, <3>3 DEF Slot
    <3> QED
      BY <3>1, <3>4
  <2>3. CASE c # holder
    <3>1. reservations'[c] = reservations[c]
      BY <1>1, <2>3
    <3>2. c \in stopped' <=> c \in stopped
      BY <1>5, <2>3
    <3>3. /\ (reservations[c].state = "released") = (c \in stopped)
          /\ c \notin stopped => workbooks[reservations[c].workbook].claim = c
          /\ c \notin stopped => workbooks[reservations[c].workbook].state \in {"active", "hold"}
      BY <2>1 DEF SlotsInv, SlotsMatchHolders
    <3>4. c \notin stopped => reservations[c].workbook # w
      BY <2>3, <3>3
    <3> QED
      BY <2>1, <3>1, <3>2, <3>3, <3>4
  <2> QED
    BY <2>2, <2>3
<1> QED
  BY <1>4, <1>7, <1>8, <1>6 DEF SlotsInv, SlotsMatchHolders

LEMMA SlotsSweep == TypeOK /\ RowsNamed /\ SlotsInv /\ Sweep => SlotsInv'
<1> SUFFICES ASSUME TypeOK, RowsNamed, SlotsInv, Sweep PROVE SlotsInv'
  OBVIOUS
<1>1. UNCHANGED <<claims, authorPolicy, stopped>> /\ workbooks' = SweptWorkbooks
  BY DEF Sweep, policy
<1>2. ASSUME NEW w \in Workbooks
      PROVE  /\ workbooks'[w].claim = workbooks[w].claim
             /\ workbooks'[w].owner = workbooks[w].owner
             /\ workbooks'[w].fence = workbooks[w].fence
             /\ workbooks'[w].state = "active" => workbooks[w].state = "active"
             /\ workbooks[w].state \in {"active", "hold"} =>
                    workbooks'[w].state \in {"active", "hold"}
  BY <1>1, LeftRow DEF SweptWorkbooks, TypeOK
<1>3. ASSUME NEW c \in Claims
      PROVE  \/ reservations'[c] = reservations[c]
             \/ /\ reservations[c] # None /\ reservations[c].state = "active"
                /\ \E w \in Workbooks : workbooks'[w].state = "hold" /\ workbooks'[w].claim = c
                /\ reservations'[c] = [reservations[c] EXCEPT !.state = "hold"]
  BY <1>1 DEF Sweep, Withhold
<1>4. ASSUME NEW c \in Claims, reservations'[c] # None
      PROVE  /\ reservations[c] # None
             /\ reservations'[c].workbook = reservations[c].workbook
             /\ reservations'[c].owner = reservations[c].owner
             /\ reservations'[c].fence = reservations[c].fence
             /\ (reservations'[c].state = "released") = (reservations[c].state = "released")
  <2>1. CASE reservations'[c] = reservations[c]
    BY <1>4, <2>1
  <2>2. CASE /\ reservations[c] # None /\ reservations[c].state = "active"
             /\ reservations'[c] = [reservations[c] EXCEPT !.state = "hold"]
    <3>1. reservations[c] \in Slot
      BY <2>2 DEF TypeOK
    <3> QED
      BY <2>2, <3>1 DEF Slot
  <2> QED
    BY <1>3, <2>1, <2>2
<1>5. SlotsNamed' /\ StoppedEnded'
  BY <1>1, <1>2, <1>4 DEF SlotsInv, SlotsNamed, StoppedEnded
<1>6. ASSUME NEW c \in Claims, authorPolicy', Owned(c)', (AuthorHost(claims[c].owner) # None)'
      PROVE  reservations'[c] # None /\ reservations'[c].state = "active"
  <2>1. claims[c] # None /\ claims[c].workbook \in Workbooks
    BY <1>1, <1>6 DEF Owned, TypeOK, Grant
  <2>2. Owned(c) /\ workbooks'[claims[c].workbook].state = "active"
    BY <1>1, <1>2, <1>6, <2>1 DEF Owned
  <2>3. ASSUME NEW w \in Workbooks, workbooks'[w].claim = c
        PROVE  workbooks'[w].state # "hold"
    <3>1. claims[c].workbook = w
      BY <1>2, <2>3, LedgerAssumption DEF RowsNamed
    <3> QED
      BY <2>2, <3>1
  <2>4. reservations[c] # None /\ reservations[c].state = "active"
    BY <1>1, <1>6, <2>2 DEF SlotsInv, SlotsMatchHolders, AuthorHost
  <2>5. reservations'[c] = reservations[c]
    <3>1. ~ \E w \in Workbooks : workbooks'[w].state = "hold" /\ workbooks'[w].claim = c
      BY <2>3
    <3>2. \/ reservations'[c] = reservations[c]
          \/ \E w \in Workbooks : workbooks'[w].state = "hold" /\ workbooks'[w].claim = c
      BY <1>3
    <3> QED
      BY <3>1, <3>2
  <2> QED
    BY <2>4, <2>5
<1>7. ASSUME NEW c \in Claims, reservations'[c] # None
      PROVE  /\ (reservations'[c].state = "released") = (c \in stopped')
             /\ c \notin stopped' =>
                    LET row == workbooks'[reservations'[c].workbook] IN
                        row.claim = c /\ row.state \in {"active", "hold"}
  <2>1. /\ reservations[c] # None
        /\ reservations'[c].workbook = reservations[c].workbook
        /\ reservations[c].workbook \in Workbooks
    BY <1>4, <1>7 DEF TypeOK, Slot
  <2> QED
    BY <1>1, <1>2, <1>4, <1>7, <2>1 DEF SlotsInv, SlotsMatchHolders
<1> QED
  BY <1>5, <1>6, <1>7 DEF SlotsInv, SlotsMatchHolders

LEMMA SlotsClaim ==
    ASSUME TypeOK, RowsNamed, SlotsInv,
           NEW k \in Claims, NEW w \in Workbooks, NEW o \in Owners, Claim(k, w, o)
    PROVE  SlotsInv'
<1> DEFINE fence == NextFence(w)
<1>1. /\ claims[k] = None /\ workbooks[w].state = "ready" /\ authorPolicy' = authorPolicy
      /\ stopped' = stopped
      /\ workbooks'[w] = [state |-> "active", owner |-> o, fence |-> fence, claim |-> k,
                          left |-> Lease]
      /\ \A v \in Workbooks \ {w} : workbooks'[v] = workbooks[v]
      /\ claims'[k] = [workbook |-> w, owner |-> o, fence |-> fence]
      /\ \A c \in Claims \ {k} : claims'[c] = claims[c] /\ reservations'[c] = reservations[c]
  BY DEF Claim, Claimable, Grantable, TypeOK, policy
<1>2. fence \in Nat
  BY DEF NextFence, TypeOK, Row
<1>3. claims'[k] # None
  BY <1>1, <1>2, LedgerAssumption DEF Grant
<1>4. reservations[k] = None
  BY <1>1 DEF SlotsInv, SlotsNamed
<1>5. reservations'[k] = IF ~Counted(o) THEN None ELSE
        [workbook |-> w, owner |-> o, fence |-> fence, host |-> AuthorHost(o), state |-> "active"]
  BY <1>4 DEF Claim, TypeOK
<1>6. Counted(o) => reservations'[k] # None
  <2>1. Counted(o) => AuthorHost(o) \in Hosts
    BY LedgerAssumption DEF Counted, AuthorHost
  <2> QED
    BY <1>2, <1>5, <2>1, LedgerAssumption DEF Slot
<1>7. SlotsNamed' /\ StoppedEnded'
  <2>1. SlotsNamed'
    BY <1>1, <1>3, <1>5 DEF SlotsInv, SlotsNamed
  <2>2. k \notin stopped
    BY <1>1 DEF SlotsInv, StoppedEnded
  <2>3. \A c \in stopped : c \in Claims
    BY DEF TypeOK
  <2>4. ASSUME NEW v \in Workbooks, workbooks'[v].state = "active"
        PROVE  workbooks'[v].claim \notin stopped
    BY <1>1, <2>2, <2>4 DEF SlotsInv, StoppedEnded
  <2> QED
    BY <1>1, <1>3, <2>1, <2>3, <2>4 DEF SlotsInv, StoppedEnded
<1>8. ASSUME NEW c \in Claims, authorPolicy', Owned(c)', (AuthorHost(claims[c].owner) # None)'
      PROVE  reservations'[c] # None /\ reservations'[c].state = "active"
  <2>1. CASE c = k
    BY <1>1, <1>5, <1>6, <1>8, <2>1 DEF Counted, AuthorHost
  <2>2. CASE c # k
    <3>1. claims'[c] = claims[c] /\ claims[c] # None /\ claims[c].workbook \in Workbooks
      BY <1>1, <1>8, <2>2 DEF Owned, TypeOK, Grant
    <3>2. claims[c].workbook # w
      BY <1>1, <1>8, <2>2, <3>1 DEF Owned
    <3>3. Owned(c)
      BY <1>1, <1>8, <3>1, <3>2 DEF Owned
    <3> QED
      BY <1>1, <1>8, <2>2, <3>1, <3>3 DEF SlotsInv, SlotsMatchHolders, AuthorHost
  <2> QED
    BY <2>1, <2>2
<1>9. ASSUME NEW c \in Claims, reservations'[c] # None
      PROVE  /\ (reservations'[c].state = "released") = (c \in stopped')
             /\ c \notin stopped' =>
                    LET row == workbooks'[reservations'[c].workbook] IN
                        row.claim = c /\ row.state \in {"active", "hold"}
  <2>1. CASE c = k
    <3>1. k \notin stopped
      BY <1>1 DEF SlotsInv, StoppedEnded
    <3>2. /\ reservations'[c].state = "active" /\ reservations'[c].workbook = w
      BY <1>5, <1>9, <2>1
    <3> QED
      BY <1>1, <2>1, <3>1, <3>2
  <2>2. CASE c # k
    <3>1. reservations'[c] = reservations[c] /\ reservations[c].workbook \in Workbooks
      BY <1>1, <1>9, <2>2 DEF TypeOK, Slot
    <3>2. /\ (reservations[c].state = "released") = (c \in stopped)
          /\ c \notin stopped => workbooks[reservations[c].workbook].claim = c
          /\ c \notin stopped => workbooks[reservations[c].workbook].state \in {"active", "hold"}
      BY <1>9, <3>1 DEF SlotsInv, SlotsMatchHolders
    <3>3. c \notin stopped => reservations[c].workbook # w
      BY <1>1, <3>2
    <3> QED
      BY <1>1, <3>1, <3>2, <3>3
  <2> QED
    BY <2>1, <2>2
<1> QED
  BY <1>7, <1>8, <1>9 DEF SlotsInv, SlotsMatchHolders

LEMMA SlotsActivate == TypeOK /\ RowsNamed /\ SlotsInv /\ SetAuthorCapacity => SlotsInv'
<1> SUFFICES ASSUME TypeOK, RowsNamed, SlotsInv, SetAuthorCapacity PROVE SlotsInv'
  OBVIOUS
<1>1. UNCHANGED <<claims, workbooks, stopped>>
  BY DEF SetAuthorCapacity, lease
<1>2. ASSUME NEW c \in Claims
      PROVE  reservations'[c] =
        IF \E w \in ActiveAuthors : workbooks[w].claim = c
        THEN [workbook |-> claims[c].workbook, owner |-> claims[c].owner,
              fence |-> claims[c].fence, host |-> AuthorHost(claims[c].owner),
              state |-> "active"]
        ELSE None
  BY DEF SetAuthorCapacity
<1>3. ASSUME NEW c \in Claims, reservations'[c] # None
      PROVE  /\ claims[c] # None
             /\ reservations'[c].workbook = claims[c].workbook
             /\ reservations'[c].owner = claims[c].owner
             /\ reservations'[c].fence = claims[c].fence
             /\ workbooks[claims[c].workbook].claim = c
             /\ workbooks[claims[c].workbook].state = "active"
             /\ reservations'[c].state = "active"
             /\ c \notin stopped
  <2>1. PICK w \in ActiveAuthors : workbooks[w].claim = c
    BY <1>2, <1>3
  <2>2. w \in Workbooks /\ workbooks[w].state = "active"
    BY <2>1 DEF ActiveAuthors
  <2>3. claims[c] # None /\ claims[c].workbook = w
    BY <2>1, <2>2 DEF RowsNamed
  <2>4. reservations'[c] =
            [workbook |-> claims[c].workbook, owner |-> claims[c].owner,
             fence |-> claims[c].fence, host |-> AuthorHost(claims[c].owner),
             state |-> "active"]
    BY <1>2, <2>1
  <2>5. c \notin stopped
    BY <2>1, <2>2 DEF SlotsInv, StoppedEnded
  <2> QED
    BY <2>1, <2>2, <2>3, <2>4, <2>5
<1>4. ASSUME NEW c \in Claims, Owned(c), AuthorHost(claims[c].owner) # None
      PROVE  reservations'[c] # None /\ reservations'[c].state = "active"
  <2>1. claims[c].workbook \in ActiveAuthors /\ workbooks[claims[c].workbook].claim = c
    BY <1>4, OwnedType DEF ActiveAuthors
  <2>2. reservations'[c] =
            [workbook |-> claims[c].workbook, owner |-> claims[c].owner,
             fence |-> claims[c].fence, host |-> AuthorHost(claims[c].owner),
             state |-> "active"]
    BY <1>2, <2>1
  <2>3. claims[c] \in Grant /\ AuthorHost(claims[c].owner) \in Hosts
    BY <1>4, OwnedType, LedgerAssumption DEF AuthorHost, Grant
  <2> QED
    BY <2>2, <2>3, LedgerAssumption DEF Grant, Slot
<1>5. SlotsNamed' /\ StoppedEnded'
  BY <1>1, <1>3 DEF SlotsInv, SlotsNamed, StoppedEnded
<1>6. \A c \in Claims : Owned(c)' => Owned(c)
  BY <1>1 DEF Owned
<1> QED
  BY <1>1, <1>3, <1>4, <1>5, <1>6 DEF SlotsInv, SlotsMatchHolders, AuthorHost

LEMMA SlotsStep == TypeOK /\ RowsNamed /\ SlotsInv /\ [Next]_vars => SlotsInv'
<1> SUFFICES ASSUME TypeOK, RowsNamed, SlotsInv, [Next]_vars PROVE SlotsInv'
  OBVIOUS
<1>1. ASSUME UNCHANGED <<workbooks, claims, authorPolicy, reservations, stopped>>
      PROVE  SlotsInv'
  BY <1>1, SlotsKept
<1>2. CASE Tick
  BY <1>2, SlotsKept DEF Tick, TypeOK, Row
<1>3. ASSUME NEW c \in Claims, Heartbeat(c)
      PROVE  SlotsInv'
  <2>1. \A w \in Workbooks :
            \/ workbooks'[w] = workbooks[w]
            \/ workbooks'[w] = [workbooks[w] EXCEPT !.left = Lease]
    BY <1>3 DEF Heartbeat, TypeOK
  <2> QED
    BY <1>3, <2>1, SlotsKept DEF Heartbeat, TypeOK, Row, policy
<1>4. ASSUME NEW c \in Claims, NEW d \in {"complete", "hold"}, Finish(c, d)
      PROVE  SlotsInv'
  <2> DEFINE w == claims[c].workbook
  <2>1. w \in Workbooks /\ workbooks[w] \in Row
    BY <1>4, OwnedType DEF Finish, Finishes
  <2>2. /\ ReleaseAuthor(w) /\ UNCHANGED <<claims, authorPolicy>>
        /\ workbooks' = [workbooks EXCEPT ![w] = Leave(@, d)]
    BY <1>4 DEF Finish, policy
  <2>3. workbooks'[w].state = d /\ \A v \in Workbooks \ {w} : workbooks'[v] = workbooks[v]
    BY <2>1, <2>2, LeftRow DEF TypeOK
  <2> QED
    BY <2>1, <2>2, <2>3, SlotsReleased
<1>5. ASSUME NEW c \in Claims, NEW p \in Operations, NEW r \in {"confirmed", "uncertain"},
             End(c, p, r)
      PROVE  SlotsInv'
  <2>1. /\ claims[c].workbook \in Workbooks
        /\ workbooks[claims[c].workbook].state = "active"
    BY <1>5, OwnedType DEF End, Ends
  <2>2. \A w \in Workbooks :
            \/ workbooks'[w] = workbooks[w]
            \/ /\ workbooks[w].state = "active"
               /\ workbooks'[w] = Leave(workbooks[w], "hold")
    BY <1>5, <2>1 DEF End, TypeOK
  <2> QED
    BY <1>5, <2>2, SlotsKept, LeftRow DEF End, TypeOK, policy
<1>6. ASSUME NEW w \in Workbooks, Enroll(w)
      PROVE  SlotsInv'
  <2>1. /\ workbooks[w].state = "absent" /\ UNCHANGED <<claims, authorPolicy, reservations, stopped>>
        /\ workbooks' = [workbooks EXCEPT ![w].state = "hold"]
    BY <1>6 DEF Enroll, policy
  <2> QED
    BY <2>1, SlotsKept DEF TypeOK, Row
<1>7. ASSUME NEW w \in Workbooks, NEW d \in {"ready", "complete", "hold"}, Reconcile(w, d)
      PROVE  SlotsInv'
  <2>1. /\ ReleaseAuthor(w) /\ UNCHANGED <<claims, authorPolicy>>
        /\ workbooks'[w].state = d
        /\ \A v \in Workbooks \ {w} : workbooks'[v] = workbooks[v]
    BY <1>7 DEF Reconcile, TypeOK, Row, policy
  <2> QED
    BY <2>1, SlotsReleased
<1>8. CASE Claimants
  BY <1>1, <1>3, <1>4, <1>5, <1>8, SlotsClaim DEF Claimants, Begin, lease, policy
<1>9. CASE Administrators
  BY <1>1, <1>6, <1>7, <1>9, SlotsActivate
  DEF Administrators, AbandonClaim, ReconcileOperation, SetModelLimit, PermitAuthorExtension,
      QuarantineModel, RenewQuarantine, PermitHostCapacity,
      PermitPhysicalExtension, lease, policy
<1>10. CASE UNCHANGED vars
  BY <1>1, <1>10 DEF vars, lease, policy
<1> QED
  BY <1>2, <1>8, <1>9, <1>10, SlotsSweep DEF Next

\* Slots are neither lost while an author may run nor kept after its end.
THEOREM SlotsCorrect == Spec => []SlotsMatchHolders
<1>1. Init => SlotsInv
  BY DEF Init, Unenrolled, SlotsInv, SlotsNamed, StoppedEnded, SlotsMatchHolders
<1> QED
  BY <1>1, SlotsStep, TypeInvariant, PTL DEF TypeInv, SlotsInv, Spec
-----------------------------------------------------------------------------
(* Capacity. *)

\* The slots of a host are within what the policy and its extensions allow.
WithinHost(h) ==
    /\ Cardinality(Authors(h)) <= ExtendedAuthors
    /\ Cardinality(Authors(h)) > AuthorsPerHost => \E e \in extensions : e.host = h

OneEach ==
    /\ \A p, q \in PublicationOps : Occupied(p) /\ Occupied(q) => p = q
    /\ \A p, q \in ModelOps :
        Occupied(p) /\ Occupied(q) /\ operations[p].workbook = operations[q].workbook => p = q

WithinLimit ==
    /\ IsFiniteSet(OccupiedModels)
    /\ modelPolicy.limit # NoCap => Cardinality(OccupiedModels) <= modelPolicy.limit

WithinHosts == \A h \in Hosts : IsFiniteSet(Authors(h)) /\ WithinHost(h)

CapacityInv == OneEach /\ WithinLimit /\ WithinHosts

\* Nothing is occupied anew but by a begin.
LEMMA OccupiedStep ==
    ASSUME TypeOK, SettledSpent, [Next]_vars, NEW p \in Operations,
           ~ \E c \in Claims : Begin(c, p), Occupied(p)'
    PROVE  Occupied(p) /\ operations'[p].workbook = operations[p].workbook
<1>1. OperationMoves(p)
  BY OperationsStep
<1>2. operations[p] # None /\ operations[p] \in OperationRow
  BY <1>1 DEF OperationMoves, Occupied, TypeOK
<1> QED
  BY <1>1, <1>2 DEF OperationMoves, Occupied, OperationRow

\* A begin occupies one operation.
LEMMA BeginOccupies ==
    ASSUME TypeOK, NEW c \in Claims, NEW p \in Operations, Begin(c, p)
    PROVE  /\ ~Occupied(p) /\ operations'[p].workbook = claims[c].workbook
           /\ \A q \in Operations \ {p} : operations'[q] = operations[q]
           /\ \A q \in Operations : Occupied(q)' => Occupied(q) \/ q = p
           /\ ~Busy(c, p) /\ modelPolicy' = modelPolicy
<1>1. /\ operations' = [operations EXCEPT ![p] =
            [workbook |-> claims[c].workbook, owner |-> claims[c].owner, claim |-> c,
             fence |-> claims[c].fence, state |-> "active",
             left |-> workbooks[claims[c].workbook].left]]
      /\ operations[p] = None /\ ~Busy(c, p) /\ modelPolicy' = modelPolicy
  BY DEF Begin, Unconsumed, policy
<1> QED
  BY <1>1 DEF Occupied, TypeOK

LEMMA OneEachStep == TypeOK /\ SettledSpent /\ OneEach /\ [Next]_vars => OneEach'
<1> SUFFICES ASSUME TypeOK, SettledSpent, OneEach, [Next]_vars PROVE OneEach'
  OBVIOUS
<1>1. ASSUME NEW c \in Claims, NEW p \in Operations, Begin(c, p) PROVE OneEach'
  <2>1. /\ operations'[p].workbook = claims[c].workbook
        /\ \A q \in Operations \ {p} : operations'[q] = operations[q]
        /\ \A q \in Operations : Occupied(q)' => Occupied(q) \/ q = p
        /\ ~Busy(c, p)
    BY <1>1, BeginOccupies
  <2>2. CASE p \in ModelOps
    <3>1. /\ p \notin PublicationOps
          /\ \A q \in ModelOps : Occupied(q) => operations[q].workbook # claims[c].workbook
      BY <2>1, <2>2, LedgerAssumption DEF Busy, ModelBusy, OccupiedModels
    <3> QED
      BY <2>1, <2>2, <3>1 DEF OneEach
  <2>3. CASE p \in PublicationOps
    <3>1. p \notin ModelOps /\ \A q \in PublicationOps : ~Occupied(q)
      BY <2>1, <2>3, LedgerAssumption DEF Busy, PublicationBusy
    <3> QED
      BY <2>1, <2>3, <3>1 DEF OneEach
  <2> QED
    BY <2>2, <2>3
<1>2. CASE ~ \E c \in Claims, p \in Operations : Begin(c, p)
  <2>1. \A p \in Operations : Occupied(p)' =>
            Occupied(p) /\ operations'[p].workbook = operations[p].workbook
    BY <1>2, OccupiedStep
  <2> QED
    BY <2>1 DEF OneEach
<1> QED
  BY <1>1, <1>2

LEMMA WithinLimitStep == TypeOK /\ SettledSpent /\ WithinLimit /\ [Next]_vars => WithinLimit'
<1> SUFFICES ASSUME TypeOK, SettledSpent, WithinLimit, [Next]_vars PROVE WithinLimit'
  OBVIOUS
<1>0. modelPolicy.limit # NoCap => modelPolicy.limit \in Nat
  BY LedgerAssumption DEF TypeOK
<1>1. Cardinality(OccupiedModels) \in Nat
  BY FS_CardinalityType DEF WithinLimit
<1>2. ASSUME NEW c \in Claims, NEW p \in Operations, Begin(c, p) PROVE WithinLimit'
  <2>1. /\ \A q \in Operations : Occupied(q)' => Occupied(q) \/ q = p
        /\ ~Busy(c, p) /\ modelPolicy' = modelPolicy
    BY <1>2, BeginOccupies
  <2>2. CASE p \in ModelOps
    <3>1. OccupiedModels' \subseteq OccupiedModels \cup {p}
      BY <2>1 DEF OccupiedModels
    <3>2. /\ IsFiniteSet(OccupiedModels \cup {p})
          /\ Cardinality(OccupiedModels \cup {p}) <= Cardinality(OccupiedModels) + 1
      BY <1>1, FS_AddElement DEF WithinLimit
    <3>3. /\ IsFiniteSet(OccupiedModels') /\ Cardinality(OccupiedModels') \in Nat
          /\ Cardinality(OccupiedModels \cup {p}) \in Nat
          /\ Cardinality(OccupiedModels') <= Cardinality(OccupiedModels \cup {p})
      BY <3>1, <3>2, FS_Subset, FS_CardinalityType
    <3>4. modelPolicy.limit # NoCap => ~(Cardinality(OccupiedModels) >= modelPolicy.limit)
      BY <2>1, <2>2 DEF Busy, ModelBusy
    <3> QED
      BY <1>0, <1>1, <2>1, <3>2, <3>3, <3>4 DEF WithinLimit
  <2>3. CASE p \notin ModelOps
    <3>1. OccupiedModels' \subseteq OccupiedModels
      BY <2>1, <2>3 DEF OccupiedModels
    <3>2. /\ IsFiniteSet(OccupiedModels') /\ Cardinality(OccupiedModels') \in Nat
          /\ Cardinality(OccupiedModels') <= Cardinality(OccupiedModels)
      BY <3>1, FS_Subset, FS_CardinalityType DEF WithinLimit
    <3> QED
      BY <1>0, <1>1, <2>1, <3>2 DEF WithinLimit
  <2> QED
    BY <2>2, <2>3
<1>3. CASE ~ \E c \in Claims, p \in Operations : Begin(c, p)
  <2>1. OccupiedModels' \subseteq OccupiedModels
    BY <1>3, OccupiedStep DEF OccupiedModels
  <2>2. /\ IsFiniteSet(OccupiedModels') /\ Cardinality(OccupiedModels') \in Nat
        /\ Cardinality(OccupiedModels') <= Cardinality(OccupiedModels)
    BY <2>1, FS_Subset, FS_CardinalityType DEF WithinLimit
  <2>3. CASE modelPolicy' = modelPolicy
    BY <1>0, <1>1, <2>2, <2>3 DEF WithinLimit
  <2>4. ASSUME NEW limit \in Limits, SetModelLimit(limit) PROVE WithinLimit'
    <3>1. /\ modelPolicy'.limit = limit
          /\ limit # NoCap => Cardinality(OccupiedModels) <= limit /\ limit \in Nat
      BY <2>4, LedgerAssumption DEF SetModelLimit
    <3> QED
      BY <1>1, <2>2, <3>1 DEF WithinLimit
  <2>5. modelPolicy' = modelPolicy \/ \E limit \in Limits : SetModelLimit(limit)
    BY DEF Next, vars, policy, Tick, Sweep, Claimants, Claim, Heartbeat, Finish, Begin, End,
           Administrators, Enroll, Reconcile, AbandonClaim, ReconcileOperation, SetAuthorCapacity,
           PermitAuthorExtension, QuarantineModel, RenewQuarantine, PermitHostCapacity,
      PermitPhysicalExtension
  <2> QED
    BY <2>3, <2>4, <2>5
<1> QED
  BY <1>2, <1>3

\* Extensions stay on record.
LEMMA ExtensionsKept ==
    ASSUME TypeOK, [Next]_vars, NEW h \in Hosts, \E e \in extensions : e.host = h
    PROVE  \E e \in extensions' : e.host = h
<1>1. CASE Tick
  <2>1. PICK e \in extensions : e.host = h
    OBVIOUS
  <2>2. [e EXCEPT !.left = Sooner(@)] \in extensions' /\ [e EXCEPT !.left = Sooner(@)].host = h
    BY <1>1, <2>1 DEF Tick, TypeOK
  <2> QED
    BY <2>2
<1>2. CASE ~Tick
  <2>1. extensions \subseteq extensions'
    BY <1>2 DEF Next, vars, policy, Sweep, Claimants, Claim, Heartbeat, Finish, Begin, End,
           Administrators, Enroll, Reconcile, AbandonClaim, ReconcileOperation, SetModelLimit,
           SetAuthorCapacity, PermitAuthorExtension, QuarantineModel, RenewQuarantine, PermitHostCapacity,
           PermitPhysicalExtension
  <2> QED
    BY <2>1
<1> QED
  BY <1>1, <1>2

\* No new author on a host.
LEMMA AuthorsShrink ==
    ASSUME TypeOK, [Next]_vars, NEW h \in Hosts, IsFiniteSet(Authors(h)), WithinHost(h),
           Authors(h)' \subseteq Authors(h)
    PROVE  IsFiniteSet(Authors(h)') /\ WithinHost(h)'
<1>1. /\ IsFiniteSet(Authors(h)') /\ Cardinality(Authors(h)') \in Nat
      /\ Cardinality(Authors(h)') <= Cardinality(Authors(h)) /\ Cardinality(Authors(h)) \in Nat
  BY FS_Subset, FS_CardinalityType
<1> QED
  BY <1>1, ExtensionsKept, LedgerAssumption DEF WithinHost

\* A claim takes a free slot.
LEMMA AuthorsClaim ==
    ASSUME TypeOK, [Next]_vars, WithinHosts, NEW c \in Claims, NEW w \in Workbooks, NEW o \in Owners,
           Claim(c, w, o)
    PROVE  WithinHosts'
<1> SUFFICES ASSUME NEW h \in Hosts PROVE IsFiniteSet(Authors(h)') /\ WithinHost(h)'
  BY DEF WithinHosts
<1>0. IsFiniteSet(Authors(h)) /\ WithinHost(h) /\ Cardinality(Authors(h)) \in Nat
  BY FS_CardinalityType DEF WithinHosts
<1>1. CASE Counted(o) /\ AuthorHost(o) = h
  <2>1. SlotFree(h)
    BY <1>1 DEF Claim, Claimable
  <2>2. Authors(h)' \subseteq Authors(h) \cup {c}
    BY <1>1 DEF Claim, Authors, TypeOK
  <2>3. /\ IsFiniteSet(Authors(h) \cup {c})
        /\ Cardinality(Authors(h) \cup {c}) <= Cardinality(Authors(h)) + 1
    <3>1. CASE c \in Authors(h)
      <4>1. Authors(h) \cup {c} = Authors(h)
        BY <3>1
      <4>2. Cardinality(Authors(h)) <= Cardinality(Authors(h)) + 1
        BY <1>0
      <4> QED
        BY <1>0, <4>1, <4>2
    <3>2. CASE c \notin Authors(h)
      <4>1. /\ IsFiniteSet(Authors(h) \cup {c})
            /\ Cardinality(Authors(h) \cup {c}) = Cardinality(Authors(h)) + 1
        BY <1>0, <3>2, FS_AddElement
      <4>2. Cardinality(Authors(h)) + 1 <= Cardinality(Authors(h)) + 1
        BY <1>0
      <4> QED
        BY <4>1, <4>2
    <3> QED
      BY <3>1, <3>2
  <2>4. /\ IsFiniteSet(Authors(h)') /\ Cardinality(Authors(h)') \in Nat
        /\ Cardinality(Authors(h) \cup {c}) \in Nat
        /\ Cardinality(Authors(h)') <= Cardinality(Authors(h) \cup {c})
    BY <2>2, <2>3, FS_Subset, FS_CardinalityType
  <2>5. Cardinality(Authors(h)') <= AuthorLimit(h) /\ AuthorLimit(h) \in {AuthorsPerHost, ExtendedAuthors}
    BY <1>0, <2>1, <2>3, <2>4, LedgerAssumption DEF SlotFree, AuthorLimit
  <2>6. AuthorLimit(h) # AuthorsPerHost => \E e \in extensions : e.host = h
    BY DEF AuthorLimit
  <2> QED
    BY <2>4, <2>5, <2>6, ExtensionsKept, LedgerAssumption DEF WithinHost
<1>2. CASE ~(Counted(o) /\ AuthorHost(o) = h)
  <2>1. Authors(h)' \subseteq Authors(h)
    BY <1>2 DEF Claim, Authors, TypeOK
  <2> QED
    BY <1>0, <2>1, AuthorsShrink
<1> QED
  BY <1>1, <1>2

\* The policy begins with the authors that hold a claim, within its limit.
LEMMA AuthorsActivate ==
    ASSUME TypeOK, RowsNamed, SetAuthorCapacity
    PROVE  WithinHosts'
<1> SUFFICES ASSUME NEW h \in Hosts PROVE IsFiniteSet(Authors(h)') /\ WithinHost(h)'
  BY DEF WithinHosts
<1> DEFINE S == {w \in ActiveAuthors : AuthorHost(workbooks[w].owner) = h}
           f == [w \in S |-> workbooks[w].claim]
<1>1. IsFiniteSet(S) /\ Cardinality(S) \in Nat /\ Cardinality(S) <= AuthorsPerHost
  <2>1. S \subseteq Workbooks
    BY DEF ActiveAuthors
  <2>2. IsFiniteSet(S)
    BY <2>1, InventoryAssumption, FS_Subset
  <2> QED
    BY <2>2, FS_CardinalityType DEF SetAuthorCapacity
<1>2. ASSUME NEW c \in Authors(h)' PROVE \E w \in S : f[w] = c
  <2>1. c \in Claims /\ reservations'[c] # None /\ reservations'[c].host = h
    BY DEF Authors
  <2>2. PICK w \in ActiveAuthors : workbooks[w].claim = c
    BY <2>1 DEF SetAuthorCapacity
  <2>3. AuthorHost(claims[c].owner) = h
    BY <2>1, <2>2 DEF SetAuthorCapacity
  <2>4. claims[c].owner = workbooks[w].owner
    BY <2>1, <2>2, LedgerAssumption DEF RowsNamed, ActiveAuthors
  <2> QED
    BY <2>2, <2>3, <2>4
<1>3. ASSUME NEW w \in S PROVE f[w] \in Authors(h)'
  <2>1. w \in Workbooks /\ workbooks[w].state = "active" /\ AuthorHost(workbooks[w].owner) = h
    BY DEF ActiveAuthors
  <2>2. /\ workbooks[w].claim \in Claims
        /\ claims[workbooks[w].claim].owner = workbooks[w].owner
    BY <2>1 DEF TypeOK, RowsNamed, Row
  <2>3. reservations'[workbooks[w].claim] =
            [workbook |-> claims[workbooks[w].claim].workbook,
             owner |-> claims[workbooks[w].claim].owner,
             fence |-> claims[workbooks[w].claim].fence,
             host |-> AuthorHost(claims[workbooks[w].claim].owner), state |-> "active"]
    BY <2>2 DEF SetAuthorCapacity
  <2>4. reservations'[workbooks[w].claim] # None
    <3>1. reservations'[workbooks[w].claim].host = h
      BY <2>1, <2>2, <2>3
    <3>2. /\ claims[workbooks[w].claim] \in Grant
      BY <2>1, <2>2 DEF RowsNamed, TypeOK
    <3>3. reservations'[workbooks[w].claim] \in Slot
      BY <2>1, <2>2, <2>3, <3>2 DEF Slot, Grant
    <3> QED
      BY <3>3, LedgerAssumption
  <2> QED
    BY <2>1, <2>2, <2>3, <2>4 DEF Authors
<1> HIDE DEF S
<1>4. f \in Surjection(S, Authors(h)')
  BY <1>2, <1>3 DEF Surjection
<1> HIDE DEF f
<1>5. /\ IsFiniteSet(Authors(h)') /\ Cardinality(Authors(h)') \in Nat
      /\ Cardinality(Authors(h)') <= Cardinality(S)
  BY <1>1, <1>4, FS_Surjection, FS_CardinalityType
<1> QED
  BY <1>1, <1>5, LedgerAssumption DEF WithinHost

LEMMA WithinHostsStep == TypeOK /\ RowsNamed /\ WithinHosts /\ [Next]_vars => WithinHosts'
<1> SUFFICES ASSUME TypeOK, RowsNamed, WithinHosts, [Next]_vars PROVE WithinHosts'
  OBVIOUS
<1>1. ASSUME \A h \in Hosts : Authors(h)' \subseteq Authors(h) PROVE WithinHosts'
  BY <1>1, AuthorsShrink DEF WithinHosts
<1>2. CASE reservations' = reservations
  BY <1>1, <1>2 DEF Authors
<1>3. ASSUME NEW w \in Workbooks, ReleaseAuthor(w) PROVE WithinHosts'
  <2>1. \A c \in Claims : reservations'[c] \in {reservations[c], [reservations[c] EXCEPT !.state = "released"]}
    BY <1>3 DEF ReleaseAuthor
  <2>2. \A c \in Claims : reservations[c] # None => reservations[c] \in Slot
    BY DEF TypeOK
  <2>3. \A h \in Hosts : Authors(h)' \subseteq Authors(h)
    BY <1>3, <2>2 DEF ReleaseAuthor, Authors, Slot
  <2> QED
    BY <1>1, <2>3
<1>4. CASE Sweep
  <2>1. \A c \in Claims : reservations[c] # None => reservations[c] \in Slot
    BY DEF TypeOK
  <2>2. \A c \in Claims :
            \/ reservations'[c] = reservations[c]
            \/ /\ reservations[c] # None /\ reservations[c].state = "active"
               /\ reservations'[c] = [reservations[c] EXCEPT !.state = "hold"]
    BY <1>4 DEF Sweep, Withhold
  <2>3. \A h \in Hosts : Authors(h)' \subseteq Authors(h)
    BY <2>1, <2>2 DEF Authors, Slot
  <2> QED
    BY <1>1, <2>3
<1>5. CASE Claimants
  BY <1>2, <1>3, <1>5, AuthorsClaim, OwnedType DEF Claimants, Heartbeat, Finish, Finishes, Begin, End
<1>6. CASE Administrators
  BY <1>2, <1>3, <1>6, AuthorsActivate
  DEF Administrators, Enroll, Reconcile, AbandonClaim, ReconcileOperation, SetModelLimit,
      PermitAuthorExtension, QuarantineModel, RenewQuarantine, PermitHostCapacity,
      PermitPhysicalExtension
<1>7. CASE Tick \/ UNCHANGED vars
  BY <1>2, <1>7 DEF Tick, vars
<1> QED
  BY <1>4, <1>5, <1>6, <1>7 DEF Next

LEMMA CapacityInvariant == Spec => []CapacityInv
<1>1. Init => CapacityInv
  <2> SUFFICES ASSUME Init PROVE CapacityInv
    OBVIOUS
  <2>1. OneEach
    BY DEF Init, OneEach, Occupied
  <2>2. OccupiedModels = {} /\ \A h \in Hosts : Authors(h) = {}
    BY DEF Init, OccupiedModels, Occupied, Authors
  <2> QED
    <3>0. IsFiniteSet({}) /\ Cardinality({}) = 0
      BY FS_EmptySet
    <3>1. WithinLimit
      BY <2>2, <3>0 DEF Init, WithinLimit
    <3>2. WithinHosts
      BY <2>2, <3>0, LedgerAssumption DEF WithinHosts, WithinHost
    <3> QED
      BY <2>1, <3>1, <3>2 DEF CapacityInv
<1>2. TypeOK /\ RowsNamed /\ SettledSpent /\ CapacityInv /\ [Next]_vars => CapacityInv'
  BY OneEachStep, WithinLimitStep, WithinHostsStep DEF CapacityInv
<1> QED
  BY <1>1, <1>2, TypeInvariant, EffectsInvariant, PTL DEF TypeInv, EffectsInv, Spec

\* The limits hold at every moment, whatever expires, ends in doubt, is isolated
\* or is asked by an administrator (begin_model_call, begin_publication, claim,
\* set_model_limit, set_author_capacity), for any number of identifiers.
THEOREM CapacityCorrect == Spec => []CapacityKept
<1>1. CapacityInv => CapacityKept
  <2> SUFFICES ASSUME CapacityInv PROVE CapacityKept
    OBVIOUS
  <2>0. ASSUME NEW S, \A p, q \in S : p = q PROVE Cardinality(S) <= 1
    <3>1. CASE S = {}
      BY <3>1, FS_EmptySet
    <3>2. CASE S # {}
      <4>1. PICK x \in S : TRUE
        BY <3>2
      <4>2. S = {x}
        BY <2>0, <4>1
      <4> QED
        BY <4>2, FS_Singleton
    <3> QED
      BY <3>1, <3>2
  <2>1. Cardinality({p \in PublicationOps : Occupied(p)}) <= 1
    BY <2>0 DEF CapacityInv, OneEach
  <2>2. ASSUME NEW w \in Workbooks
        PROVE  Cardinality({p \in OccupiedModels : operations[p].workbook = w}) <= 1
    <3>1. \A p, q \in {p \in OccupiedModels : operations[p].workbook = w} : p = q
      BY DEF CapacityInv, OneEach, OccupiedModels
    <3> QED
      BY <2>0, <3>1
  <2> QED
    BY <2>1, <2>2 DEF CapacityInv, WithinLimit, WithinHosts, WithinHost, CapacityKept
<1> QED
  BY <1>1, CapacityInvariant, PTL
-----------------------------------------------------------------------------
(* The promise of WorkbookCustody: every step is one of its steps, or none *)
(* that it sees.                                                           *)

\* No claim answers for a workbook that may be claimed.
Unclaimed ==
    \A w \in Workbooks :
        workbooks[w].state \in {"absent", "ready"} => workbooks[w].claim = None

\* A step that opens no workbook and changes no claim keeps Unclaimed.
LEMMA UnclaimedKept ==
    ASSUME Unclaimed,
           \A w \in Workbooks :
                \/ workbooks'[w].state \notin {"absent", "ready"}
                \/ workbooks'[w].claim = None
                \/ /\ workbooks'[w].state = workbooks[w].state
                   /\ workbooks'[w].claim = workbooks[w].claim
    PROVE  Unclaimed'
BY DEF Unclaimed

LEMMA UnclaimedStep == TypeOK /\ Unclaimed /\ [Next]_vars => Unclaimed'
<1> SUFFICES ASSUME TypeOK, Unclaimed, [Next]_vars PROVE Unclaimed'
  OBVIOUS
<1>r. \A w \in Workbooks : workbooks[w] \in Row
  BY DEF TypeOK
<1>1. ASSUME UNCHANGED workbooks PROVE Unclaimed'
  BY <1>1, UnclaimedKept
<1>2. CASE Tick
  BY <1>2, <1>r, UnclaimedKept DEF Tick, Row
<1>3. CASE Sweep
  BY <1>3, <1>r, UnclaimedKept DEF Sweep, SweptWorkbooks, Leave, Row
<1>4. ASSUME NEW w \in Workbooks, Enroll(w) PROVE Unclaimed'
  BY <1>4, <1>r, UnclaimedKept DEF Enroll, TypeOK, Row
<1>5. ASSUME NEW w \in Workbooks, NEW d \in {"ready", "complete", "hold"}, Reconcile(w, d)
      PROVE  Unclaimed'
  BY <1>5, <1>r, UnclaimedKept DEF Reconcile, TypeOK, Row
<1>6. ASSUME NEW c \in Claims, NEW w \in Workbooks, NEW o \in Owners, Claim(c, w, o)
      PROVE  Unclaimed'
  BY <1>6, <1>r, UnclaimedKept DEF Claim, TypeOK
<1>7. ASSUME NEW c \in Claims, Heartbeat(c) PROVE Unclaimed'
  BY <1>7, <1>r, UnclaimedKept DEF Heartbeat, TypeOK, Row
<1>8. ASSUME NEW c \in Claims, NEW d \in {"complete", "hold"}, Finish(c, d)
      PROVE  Unclaimed'
  BY <1>8, <1>r, UnclaimedKept DEF Finish, Leave, TypeOK, Row
<1>9. ASSUME NEW c \in Claims, NEW p \in Operations, NEW r \in {"confirmed", "uncertain"},
             End(c, p, r)
      PROVE  Unclaimed'
  BY <1>9, <1>r, UnclaimedKept DEF End, Leave, TypeOK, Row
<1>10. CASE Claimants
  BY <1>1, <1>6, <1>7, <1>8, <1>9, <1>10 DEF Claimants, Begin, lease
<1>11. CASE Administrators
  BY <1>1, <1>4, <1>5, <1>11
  DEF Administrators, AbandonClaim, ReconcileOperation, SetModelLimit, SetAuthorCapacity,
      PermitAuthorExtension, QuarantineModel, RenewQuarantine, PermitHostCapacity,
      PermitPhysicalExtension, lease
<1>12. CASE UNCHANGED vars
  BY <1>1, <1>12 DEF vars, lease
<1> QED
  BY <1>2, <1>3, <1>10, <1>11, <1>12 DEF Next

\* What is needed of a state to map the steps that leave it.
CustodyInv == TypeOK /\ EffectsInv /\ Outstanding /\ Unclaimed

\* The abstract ledger sees the claim, the fence and the activity of a row.
LEMMA HoldingKept ==
    ASSUME claims' = claims,
           \A w \in Workbooks :
                /\ workbooks'[w].claim = workbooks[w].claim
                /\ workbooks'[w].fence = workbooks[w].fence
                /\ workbooks'[w].state = "active" <=> workbooks[w].state = "active"
    PROVE  UNCHANGED Custody!holding
BY DEF Custody!holding

\* No step but a begin rewrites where an effect was started.
LEMMA OriginKept ==
    ASSUME NEW p \in Operations, OperationMoves(p)
    PROVE  Origin(p)' = Origin(p)
BY DEF OperationMoves, Origin

\* An operation keeps its outcome while its row keeps its state.
LEMMA OutcomeKept ==
    ASSUME NEW p \in Operations, operations[p] = None <=> operations'[p] = None,
           operations[p] # None => operations'[p].state = operations[p].state
    PROVE  Outcome(p)' = Outcome(p)
BY DEF Outcome

\* The abstract outcomes are the states of the rows.
LEMMA OutcomeStates ==
    ASSUME NEW p \in Operations
    PROVE  /\ Outcome(p) = "none" <=> operations[p] = None
           /\ Outcome(p) = "running" <=> operations[p] # None /\ operations[p].state = "active"
           /\ Outcome(p) = "unknown" <=> operations[p] # None /\ operations[p].state = "hold"
           /\ Outcome(p) \in {"running", "unknown"} <=> Occupied(p)
BY DEF Outcome, Occupied

LEMMA CustodyUnseen ==
    ASSUME UNCHANGED Custody!holding,
           \A p \in Operations : Outcome(p)' = Outcome(p) /\ Origin(p)' = Origin(p)
    PROVE  UNCHANGED Custody!vars
BY DEF Custody!vars

\* A step of which the abstract ledger sees that work stops on the workbooks
\* of W and that the outcome of the operations of P becomes unknown.
LEMMA CustodyStop ==
    ASSUME NEW W \in SUBSET Workbooks, NEW P \in SUBSET Operations,
           claims' = claims,
           \A w \in Workbooks :
                /\ workbooks'[w].claim = workbooks[w].claim
                /\ workbooks'[w].fence = workbooks[w].fence
                /\ workbooks'[w].state = "active" <=> workbooks[w].state = "active" /\ w \notin W,
           \A p \in Operations : Origin(p)' = Origin(p),
           \A p \in P : /\ operations[p] # None /\ operations[p].state = "active"
                        /\ operations[p].workbook \in Workbooks
                        /\ workbooks'[operations[p].workbook].state # "active"
                        /\ operations'[p] # None /\ operations'[p].state = "hold",
           \A p \in Operations \ P : Outcome(p)' = Outcome(p)
    PROVE  Custody!Next
<1>1. \A p \in P : /\ Outcome(p) = "running"
                    /\ Outcome(p)' = "unknown"
                    /\ Origin(p).workbook = operations[p].workbook
  BY DEF Outcome, Origin
<1>2. Custody!Stop(W, P)
  <2>1. {w \in Workbooks : workbooks[w].state = "active"}'
            = {w \in Workbooks : workbooks[w].state = "active"} \ W
    OBVIOUS
  <2>2. \A p \in P : /\ [q \in Operations |-> Outcome(q)][p] = "running"
                      /\ [q \in Operations |-> Origin(q)][p].workbook
                            \notin {w \in Workbooks : workbooks[w].state = "active"}'
    BY <1>1
  <2>3. [p \in Operations |-> Outcome(p)]' =
            [p \in Operations |-> IF p \in P THEN "unknown"
                                  ELSE [q \in Operations |-> Outcome(q)][p]]
    BY <1>1
  <2>4. UNCHANGED <<[w \in Workbooks |-> workbooks[w].claim],
                    [w \in Workbooks |-> workbooks[w].fence],
                    {c \in Claims : claims[c] # None},
                    [p \in Operations |-> Origin(p)]>>
    OBVIOUS
  <2> QED
    BY <2>1, <2>2, <2>3, <2>4 DEF Custody!Stop, Custody!Effects
<1> QED
  BY <1>2 DEF Custody!Next, Custody!Effects

LEMMA CustodyTick == CustodyInv /\ Tick => UNCHANGED Custody!vars
<1> SUFFICES ASSUME CustodyInv, Tick PROVE UNCHANGED Custody!vars
  OBVIOUS
<1>1. UNCHANGED Custody!holding
  <2>1. \A w \in Workbooks : /\ workbooks[w] \in Row
                            /\ workbooks'[w] = [workbooks[w] EXCEPT !.left = Sooner(@)]
    BY DEF CustodyInv, TypeOK, Tick
  <2> QED
    BY <2>1, HoldingKept DEF Row, Tick
<1>2. ASSUME NEW p \in Operations
      PROVE  Outcome(p)' = Outcome(p) /\ Origin(p)' = Origin(p)
  <2>1. OperationMoves(p)
    BY TickMoves DEF CustodyInv, EffectsInv
  <2>2. operations[p] # None => operations'[p].state = operations[p].state
    BY DEF CustodyInv, TypeOK, Tick, OperationRow
  <2> QED
    BY <2>1, <2>2, OriginKept, OutcomeKept DEF OperationMoves
<1> QED
  BY <1>1, <1>2, CustodyUnseen

\* The sweep stops every workbook and makes every effect unknown whose lease
\* ran out; the lease of an effect is that of its workbook.
LEMMA CustodySweep == CustodyInv /\ Sweep => Custody!Next
<1> SUFFICES ASSUME CustodyInv, Sweep PROVE Custody!Next
  OBVIOUS
<1> DEFINE W == {w \in Workbooks : Expired(workbooks[w])}
           P == {p \in Operations : operations[p] # None /\ Expired(operations[p])}
<1>1. ASSUME NEW w \in Workbooks
      PROVE  /\ workbooks'[w].claim = workbooks[w].claim
             /\ workbooks'[w].fence = workbooks[w].fence
             /\ workbooks'[w].state = "active" <=> workbooks[w].state = "active" /\ w \notin W
  <2>1. workbooks[w] \in Row
    BY DEF CustodyInv, TypeOK
  <2>2. workbooks'[w] = IF Expired(workbooks[w]) THEN Leave(workbooks[w], "hold") ELSE workbooks[w]
    BY DEF Sweep, SweptWorkbooks
  <2> QED
    BY <2>1, <2>2 DEF Leave, Row, Expired
<1>2. ASSUME NEW p \in Operations
      PROVE  /\ OperationMoves(p)
             /\ p \in P => operations'[p] = Leave(operations[p], "hold")
             /\ p \notin P => operations'[p] = operations[p]
  BY ActiveMoves DEF CustodyInv, EffectsInv, Sweep, Expired
<1>3. ASSUME NEW p \in P
      PROVE  /\ operations[p] # None /\ operations[p].state = "active"
             /\ operations[p].workbook \in Workbooks
             /\ workbooks'[operations[p].workbook].state # "active"
             /\ operations'[p] # None /\ operations'[p].state = "hold"
  <2>1. operations[p] # None /\ operations[p] \in OperationRow /\ Expired(operations[p])
    BY DEF CustodyInv, TypeOK
  <2>2. Agrees(operations[p], workbooks[operations[p].workbook])
    BY <2>1 DEF CustodyInv, Outstanding, Occupied, Expired
  <2>3. workbooks[operations[p].workbook].state = "active"
            => operations[p].workbook \in W
    BY <2>1, <2>2 DEF Agrees, Expired, OperationRow
  <2>4. operations'[p].state = "hold"
    BY <1>2, <2>1 DEF Leave, OperationRow
  <2> QED
    BY <1>1, <1>2, <2>1, <2>3, <2>4 DEF OperationMoves, OperationRow, Expired
<1>4. \A p \in Operations : Origin(p)' = Origin(p)
  BY <1>2, OriginKept
<1>5. \A p \in Operations \ P : Outcome(p)' = Outcome(p)
  BY <1>2, OutcomeKept
<1> QED
  <2> HIDE DEF W, P
  <2>1. W \in SUBSET Workbooks /\ P \in SUBSET Operations
    BY DEF W, P
  <2>2. claims' = claims
    BY DEF Sweep
  <2> QED
    BY <1>1, <1>3, <1>4, <1>5, <2>1, <2>2, CustodyStop

\* A claim takes a workbook that nobody answers for.
LEMMA CustodyClaim ==
    ASSUME CustodyInv, NEW c \in Claims, NEW w \in Workbooks, NEW o \in Owners, Claim(c, w, o)
    PROVE  Custody!Next
<1>1. workbooks[w].claim = None /\ claims[c] = None
  BY DEF CustodyInv, Unclaimed, Claim, Claimable, Grantable
<1>2. /\ workbooks' = [workbooks EXCEPT ![w] =
            [state |-> "active", owner |-> o, fence |-> workbooks[w].fence + 1, claim |-> c,
             left |-> Lease]]
      /\ claims' = [claims EXCEPT ![c] =
            [workbook |-> w, owner |-> o, fence |-> workbooks[w].fence + 1]]
      /\ operations' = operations
  BY DEF Claim, NextFence
<1>3. /\ workbooks \in [Workbooks -> Row] /\ claims \in [Claims -> Grant \cup {None}]
      /\ [workbook |-> w, owner |-> o, fence |-> workbooks[w].fence + 1] \in Grant
  BY DEF CustodyInv, TypeOK, Row, Grant
<1>4. Custody!Take(w, c)
  <2>1. [v \in Workbooks |-> workbooks[v].claim]'
            = [[v \in Workbooks |-> workbooks[v].claim] EXCEPT ![w] = c]
    BY <1>2, <1>3
  <2>2. [v \in Workbooks |-> workbooks[v].fence]'
            = [[v \in Workbooks |-> workbooks[v].fence] EXCEPT ![w] = @ + 1]
    BY <1>2, <1>3
  <2>3. {v \in Workbooks : workbooks[v].state = "active"}'
            = {v \in Workbooks : workbooks[v].state = "active"} \cup {w}
    BY <1>2, <1>3
  <2>4. {d \in Claims : claims[d] # None}' = {d \in Claims : claims[d] # None} \cup {c}
    BY <1>2, <1>3, LedgerAssumption
  <2>5. UNCHANGED <<[p \in Operations |-> Outcome(p)], [p \in Operations |-> Origin(p)]>>
    BY <1>2 DEF Outcome, Origin
  <2> QED
    BY <1>1, <2>1, <2>2, <2>3, <2>4, <2>5 DEF Custody!Take
<1> QED
  BY <1>4 DEF Custody!Next

LEMMA CustodyHeartbeat ==
    ASSUME CustodyInv, NEW c \in Claims, Heartbeat(c)
    PROVE  UNCHANGED Custody!vars
<1>1. UNCHANGED Custody!holding
  BY HoldingKept DEF CustodyInv, TypeOK, Heartbeat, Row
<1>2. ASSUME NEW p \in Operations
      PROVE  Outcome(p)' = Outcome(p) /\ Origin(p)' = Origin(p)
  <2>1. OperationMoves(p)
    BY ActiveMoves DEF CustodyInv, EffectsInv, Heartbeat
  <2>2. operations[p] # None => operations'[p].state = operations[p].state
    BY DEF CustodyInv, TypeOK, Heartbeat, OperationRow
  <2> QED
    BY <2>1, <2>2, OriginKept, OutcomeKept DEF OperationMoves
<1> QED
  BY <1>1, <1>2, CustodyUnseen

\* A finish stops its workbook and makes what still ran of it unknown.
LEMMA CustodyFinish ==
    ASSUME CustodyInv, NEW c \in Claims, NEW d \in {"complete", "hold"}, Finish(c, d)
    PROVE  Custody!Next
<1> DEFINE w == claims[c].workbook
           P == {p \in Operations : /\ operations[p] # None /\ operations[p].state = "active"
                                    /\ operations[p].workbook = w}
<1>1. w \in Workbooks /\ workbooks[w].state = "active"
  BY OwnedType DEF CustodyInv, Finish, Finishes, Owned, Grant
<1>2. ASSUME NEW v \in Workbooks
      PROVE  /\ workbooks'[v].claim = workbooks[v].claim
             /\ workbooks'[v].fence = workbooks[v].fence
             /\ workbooks'[v].state = "active" <=> workbooks[v].state = "active" /\ v \notin {w}
  BY <1>1 DEF CustodyInv, TypeOK, Finish, Leave, Row
<1>3. ASSUME NEW p \in Operations
      PROVE  /\ OperationMoves(p)
             /\ p \in P => operations'[p] = Leave(operations[p], "hold")
             /\ p \notin P => operations'[p] = operations[p]
  BY ActiveMoves DEF CustodyInv, EffectsInv, Finish
<1>4. ASSUME NEW p \in P
      PROVE  /\ operations[p] # None /\ operations[p].state = "active"
             /\ operations[p].workbook \in Workbooks
             /\ workbooks'[operations[p].workbook].state # "active"
             /\ operations'[p] # None /\ operations'[p].state = "hold"
  <2>1. operations[p] \in OperationRow
    BY DEF CustodyInv, TypeOK
  <2> QED
    BY <1>1, <1>2, <1>3, <2>1 DEF OperationMoves, OperationRow, Leave
<1>5. \A p \in Operations : Origin(p)' = Origin(p)
  BY <1>3, OriginKept
<1>6. \A p \in Operations \ P : Outcome(p)' = Outcome(p)
  BY <1>3, OutcomeKept
<1> QED
  <2> HIDE DEF w, P
  <2>1. {w} \in SUBSET Workbooks /\ P \in SUBSET Operations
    BY <1>1 DEF P
  <2>2. claims' = claims
    BY DEF Finish
  <2> QED
    BY <1>2, <1>4, <1>5, <1>6, <2>1, <2>2, CustodyStop

\* Only the custodian of a workbook starts an effect of it, within the limits.
LEMMA CustodyBegin ==
    ASSUME CustodyInv, NEW c \in Claims, NEW p \in Operations, Begin(c, p)
    PROVE  Custody!Next
<1> DEFINE w == claims[c].workbook
<1>1. /\ w \in Workbooks /\ workbooks[w].state = "active"
      /\ workbooks[w].claim = c /\ workbooks[w].fence = claims[c].fence
  BY OwnedType DEF CustodyInv, Begin, Admitted, Owned, Grant
<1>2. /\ operations[p] = None /\ operations'[p] # None
      /\ operations'[p] = [workbook |-> w, owner |-> claims[c].owner, claim |-> c,
                           fence |-> claims[c].fence, state |-> "active",
                           left |-> workbooks[w].left]
      /\ \A q \in Operations \ {p} : operations'[q] = operations[q]
      /\ UNCHANGED <<workbooks, claims>>
  BY BeginMoves DEF CustodyInv, Begin, TypeOK, lease
<1>3. p \in PublicationOps => \A q \in PublicationOps : ~Occupied(q)
  BY LedgerAssumption DEF Begin, Busy, PublicationBusy
<1>4. p \in ModelOps => \A q \in ModelOps : Occupied(q) => operations[q].workbook # w
  BY DEF Begin, Busy, ModelBusy, OccupiedModels
<1>5. Custody!Start(w, p)
  <2>1. w \in {v \in Workbooks : workbooks[v].state = "active"}
    BY <1>1
  <2>2. /\ [q \in Operations |-> Outcome(q)][p] = "none"
        /\ \A q \in Operations :
                [x \in Operations |-> Outcome(x)][q] \in {"running", "unknown"} <=> Occupied(q)
        /\ \A q \in Operations : Occupied(q) =>
                [x \in Operations |-> Origin(x)][q].workbook = operations[q].workbook
    BY <1>2, OutcomeStates DEF Origin, Occupied
  <2>3. [q \in Operations |-> Outcome(q)]'
            = [[q \in Operations |-> Outcome(q)] EXCEPT ![p] = "running"]
    <3>1. \A q \in Operations : Outcome(q)' = IF q = p THEN "running" ELSE Outcome(q)
      BY <1>2 DEF Outcome
    <3> QED
      BY <3>1
  <2>4. [q \in Operations |-> Origin(q)]'
            = [[q \in Operations |-> Origin(q)] EXCEPT ![p] =
                [workbook |-> w, claim |-> [v \in Workbooks |-> workbooks[v].claim][w],
                 fence |-> [v \in Workbooks |-> workbooks[v].fence][w]]]
    <3>1. \A q \in Operations : Origin(q)' = IF q = p
            THEN [workbook |-> w, claim |-> workbooks[w].claim, fence |-> workbooks[w].fence]
            ELSE Origin(q)
      BY <1>1, <1>2 DEF Origin
    <3> QED
      BY <1>1, <3>1
  <2>5. UNCHANGED Custody!holding
    BY <1>2 DEF Custody!holding
  <2>6. /\ p \in PublicationOps => \A q \in PublicationOps : ~Custody!Outstanding(q)
        /\ p \in ModelOps => \A q \in ModelOps : Custody!Outstanding(q) =>
                [x \in Operations |-> Origin(x)][q].workbook # w
    BY <1>3, <1>4, <2>2 DEF Custody!Outstanding
  <2> HIDE DEF w
  <2> QED
    BY <2>1, <2>2, <2>3, <2>4, <2>5, <2>6 DEF Custody!Start
<1> QED
  BY <1>1, <1>5 DEF Custody!Next, Custody!Effects

\* The outcome of an operation whose row alone changes its state.
LEMMA OutcomeSettled ==
    ASSUME NEW p \in Operations, operations[p] # None, operations'[p] # None,
           operations'[p].state \in {"confirmed", "abandoned"},
           \A q \in Operations \ {p} : operations'[q] = operations[q]
    PROVE  [q \in Operations |-> Outcome(q)]'
                = [[q \in Operations |-> Outcome(q)] EXCEPT ![p] = "settled"]
<1>1. \A q \in Operations : Outcome(q)' = IF q = p THEN "settled" ELSE Outcome(q)
  BY DEF Outcome
<1> QED
  BY <1>1

\* Only the custodian reports an outcome, and while it may still act; an
\* uncertain end stops the workbook.
LEMMA CustodyEnd ==
    ASSUME CustodyInv, NEW c \in Claims, NEW p \in Operations,
           NEW r \in {"confirmed", "uncertain"}, End(c, p, r)
    PROVE  Custody!Next
<1> DEFINE w == claims[c].workbook
           s == IF r = "confirmed" THEN "confirmed" ELSE "hold"
<1>1. /\ w \in Workbooks /\ workbooks[w].state = "active" /\ workbooks[w].claim = c
      /\ operations[p] # None /\ operations[p] \in OperationRow
      /\ operations[p].state = "active" /\ operations[p].workbook = w
      /\ operations[p].claim = c /\ claims' = claims
  BY OwnedType DEF CustodyInv, TypeOK, End, Ends, Endable, Owned, Grant
<1>2. ASSUME NEW q \in Operations
      PROVE  /\ OperationMoves(q)
             /\ q = p => operations'[q] = Leave(operations[q], s)
             /\ q # p => operations'[q] = operations[q]
  BY <1>1, ActiveMoves DEF CustodyInv, TypeOK, EffectsInv, End
<1>3. operations'[p] # None /\ operations'[p].state = s
  BY <1>1, <1>2 DEF OperationMoves, Leave, OperationRow
<1>4. \A q \in Operations : Origin(q)' = Origin(q)
  BY <1>2, OriginKept
<1>5. CASE r = "confirmed"
  <2>1. UNCHANGED Custody!holding
    BY <1>1, <1>5 DEF End, Custody!holding
  <2>2. [q \in Operations |-> Outcome(q)]'
            = [[q \in Operations |-> Outcome(q)] EXCEPT ![p] = "settled"]
    BY <1>1, <1>2, <1>3, <1>5, OutcomeSettled
  <2>3. /\ [q \in Operations |-> Outcome(q)][p] = "running"
        /\ [q \in Operations |-> Origin(q)][p].workbook = w
        /\ [q \in Operations |-> Origin(q)][p].claim = c
        /\ w \in {v \in Workbooks : workbooks[v].state = "active"}
        /\ [v \in Workbooks |-> workbooks[v].claim][w] = c
    BY <1>1, OutcomeStates DEF Origin
  <2>4. UNCHANGED [q \in Operations |-> Origin(q)]
    BY <1>4
  <2>5. Custody!Report(p)
    <3> HIDE DEF w
    <3> QED
      BY <2>1, <2>2, <2>3, <2>4 DEF Custody!Report
  <2> QED
    BY <2>5 DEF Custody!Next, Custody!Effects
<1>6. CASE r = "uncertain"
  <2>1. ASSUME NEW v \in Workbooks
        PROVE  /\ workbooks'[v].claim = workbooks[v].claim
               /\ workbooks'[v].fence = workbooks[v].fence
               /\ workbooks'[v].state = "active"
                    <=> workbooks[v].state = "active" /\ v \notin {w}
    BY <1>1, <1>6 DEF CustodyInv, TypeOK, End, Leave, Row
  <2>2. \A q \in Operations \ {p} : Outcome(q)' = Outcome(q)
    BY <1>2, OutcomeKept
  <2>3. \A q \in {p} : /\ operations[q] # None /\ operations[q].state = "active"
                       /\ operations[q].workbook \in Workbooks
                       /\ workbooks'[operations[q].workbook].state # "active"
                       /\ operations'[q] # None /\ operations'[q].state = "hold"
    BY <1>1, <1>3, <1>6, <2>1
  <2>4. {w} \in SUBSET Workbooks /\ {p} \in SUBSET Operations /\ claims' = claims
    BY <1>1
  <2> HIDE DEF w
  <2> QED
    BY <1>4, <2>1, <2>2, <2>3, <2>4, CustodyStop
<1> QED
  BY <1>5, <1>6

\* A person settles an unknown effect.
LEMMA CustodyReconcileOperation ==
    ASSUME CustodyInv, NEW p \in Operations, NEW d \in {"confirmed", "abandoned"},
           ReconcileOperation(p, d)
    PROVE  Custody!Next
<1>1. /\ operations[p] # None /\ operations[p].state = "hold"
      /\ operations[p] \in OperationRow
      /\ operations' = [operations EXCEPT ![p].state = d]
      /\ UNCHANGED <<workbooks, claims>>
  BY DEF CustodyInv, TypeOK, ReconcileOperation, lease
<1>2. \A q \in Operations : OperationMoves(q)
  BY ReconcileMoves DEF CustodyInv, EffectsInv
<1>3. operations'[p] # None /\ operations'[p].state = d
  BY <1>1, <1>2 DEF OperationMoves, CustodyInv, TypeOK, OperationRow
<1>4. \A q \in Operations \ {p} : operations'[q] = operations[q]
  BY <1>1 DEF CustodyInv, TypeOK
<1>5. [q \in Operations |-> Outcome(q)]'
        = [[q \in Operations |-> Outcome(q)] EXCEPT ![p] = "settled"]
  BY <1>1, <1>3, <1>4, OutcomeSettled
<1>6. UNCHANGED [q \in Operations |-> Origin(q)]
  BY <1>2, OriginKept
<1>7. [q \in Operations |-> Outcome(q)][p] = "unknown"
  BY <1>1, OutcomeStates
<1>8. UNCHANGED Custody!holding
  BY <1>1 DEF Custody!holding
<1>9. Custody!Settle(p)
  BY <1>5, <1>6, <1>7, <1>8 DEF Custody!Settle
<1> QED
  BY <1>9 DEF Custody!Next, Custody!Effects

\* A reconciliation releases a workbook nothing of which is outstanding.
LEMMA CustodyReconcile ==
    ASSUME CustodyInv, NEW w \in Workbooks, NEW d \in {"ready", "complete", "hold"},
           Reconcile(w, d)
    PROVE  Custody!Next
<1>1. /\ workbooks \in [Workbooks -> Row]
      /\ workbooks[w].state # "active" /\ ~Unsettled(w)
      /\ workbooks' = [workbooks EXCEPT ![w].state = d, ![w].owner = None,
                                        ![w].claim = None, ![w].left = 0]
      /\ UNCHANGED <<claims, operations>>
  BY DEF CustodyInv, TypeOK, Reconcile
<1>2. /\ workbooks'[w].claim = None /\ workbooks'[w].fence = workbooks[w].fence
      /\ workbooks'[w].state # "active"
      /\ \A v \in Workbooks \ {w} : workbooks'[v] = workbooks[v]
  BY <1>1 DEF Row
<1>3. [v \in Workbooks |-> workbooks[v].claim]'
        = [[v \in Workbooks |-> workbooks[v].claim] EXCEPT ![w] = None]
  BY <1>2
<1>4. UNCHANGED <<[v \in Workbooks |-> workbooks[v].fence],
                  {v \in Workbooks : workbooks[v].state = "active"},
                  {c \in Claims : claims[c] # None},
                  [p \in Operations |-> Outcome(p)], [p \in Operations |-> Origin(p)]>>
  BY <1>1, <1>2 DEF Outcome, Origin
<1>5. \A p \in Operations : Custody!Outstanding(p) =>
        [q \in Operations |-> Origin(q)][p].workbook # w
  BY <1>1, OutcomeStates DEF Custody!Outstanding, Unsettled, Origin, Occupied
<1>6. Custody!Release(w)
  BY <1>1, <1>3, <1>4, <1>5 DEF Custody!Release, Custody!Effects
<1> QED
  BY <1>6 DEF Custody!Next

LEMMA CustodyStep == CustodyInv /\ [Next]_vars => [Custody!Next]_(Custody!vars)
<1> SUFFICES ASSUME CustodyInv, [Next]_vars
             PROVE  Custody!Next \/ UNCHANGED Custody!vars
  OBVIOUS
<1>1. ASSUME UNCHANGED <<workbooks, claims, operations>>
      PROVE  UNCHANGED Custody!vars
  <2>1. UNCHANGED Custody!holding
    BY <1>1 DEF Custody!holding
  <2>2. \A p \in Operations : Outcome(p)' = Outcome(p) /\ Origin(p)' = Origin(p)
    BY <1>1 DEF Outcome, Origin
  <2> QED
    BY <2>1, <2>2, CustodyUnseen
<1>2. ASSUME NEW w \in Workbooks, Enroll(w)
      PROVE  UNCHANGED Custody!vars
  <2>1. UNCHANGED Custody!holding
    BY <1>2, HoldingKept DEF CustodyInv, TypeOK, Enroll, Row
  <2>2. \A p \in Operations : Outcome(p)' = Outcome(p) /\ Origin(p)' = Origin(p)
    BY <1>2 DEF Enroll, Outcome, Origin
  <2> QED
    BY <2>1, <2>2, CustodyUnseen
<1>3. CASE Claimants
  BY <1>3, CustodyClaim, CustodyHeartbeat, CustodyFinish, CustodyBegin, CustodyEnd DEF Claimants
<1>4. CASE Administrators
  BY <1>1, <1>2, <1>4, CustodyReconcile, CustodyReconcileOperation
  DEF Administrators, AbandonClaim, SetModelLimit, SetAuthorCapacity, PermitAuthorExtension,
      QuarantineModel, RenewQuarantine, PermitHostCapacity,
      PermitPhysicalExtension, lease
<1>5. CASE UNCHANGED vars
  BY <1>1, <1>5 DEF vars, lease
<1> QED
  BY <1>3, <1>4, <1>5, CustodyTick, CustodySweep DEF Next

LEMMA CustodyInvariant == Spec => []CustodyInv
<1>1. Init => Outstanding /\ Unclaimed
  BY DEF Init, Outstanding, Occupied, Unclaimed, Unenrolled
<1>2. TypeOK /\ Outstanding /\ [Next]_vars => Outstanding'
  BY OutstandingStep
<1> QED
  BY <1>1, <1>2, UnclaimedStep, EffectsInvariant, PTL DEF CustodyInv, Spec

\* The coordinator's ledger implements WorkbookCustody: initial states map to
\* initial states and every call, expiry and decision of an administrator to a
\* step of it or to none.
THEOREM PromiseCorrect == Spec => KeepsCustody
<1>1. Init => Custody!Init
  BY DEF Init, Unenrolled, Custody!Init, Custody!Effects, Outcome, Origin
<1>2. Spec => [][Custody!Next]_(Custody!vars)
  BY CustodyInvariant, CustodyStep, PTL DEF Spec
<1> QED
  BY <1>1, <1>2, PTL DEF Spec, KeepsCustody, Custody!Spec

\* Work is resumed by a new claim only.
LEMMA FreshOnly ==
    ASSUME TypeOK, RowsNamed, [Custody!Next]_(Custody!vars), NEW w \in Workbooks,
           workbooks'[w].state = "active", workbooks'[w].claim \in Claims
    PROVE  \/ claims[workbooks'[w].claim] = None
           \/ workbooks[w].state = "active" /\ workbooks[w].claim = workbooks'[w].claim
<1> DEFINE custodian == [v \in Workbooks |-> workbooks[v].claim]
           working == {v \in Workbooks : workbooks[v].state = "active"}
           spent == {c \in Claims : claims[c] # None}
<1>1. w \in working' /\ custodian'[w] = workbooks'[w].claim
  OBVIOUS
<1>2. ASSUME UNCHANGED <<custodian, working>>
      PROVE  w \in working /\ custodian[w] = workbooks'[w].claim
  BY <1>1, <1>2
<1>3. ASSUME NEW v \in Workbooks, NEW c \in Claims, Custody!Take(v, c)
      PROVE  \/ workbooks'[w].claim \notin spent
             \/ w \in working /\ custodian[w] = workbooks'[w].claim
  <2>1. /\ c \notin spent /\ custodian' = [custodian EXCEPT ![v] = c]
        /\ working' = working \cup {v}
    BY <1>3 DEF Custody!Take
  <2> QED
    BY <1>1, <2>1
<1>4. ASSUME NEW W, NEW P, Custody!Stop(W, P)
      PROVE  w \in working /\ custodian[w] = workbooks'[w].claim
  <2>1. working' = working \ W /\ custodian' = custodian
    BY <1>4 DEF Custody!Stop
  <2> QED
    BY <1>1, <2>1
<1>5. ASSUME NEW v \in Workbooks, Custody!Release(v)
      PROVE  w \in working /\ custodian[w] = workbooks'[w].claim
  <2>1. v \notin working /\ working' = working /\ custodian' = [custodian EXCEPT ![v] = None]
    BY <1>5 DEF Custody!Release
  <2> QED
    BY <1>1, <2>1
<1>6. \/ workbooks'[w].claim \notin spent
      \/ w \in working /\ custodian[w] = workbooks'[w].claim
  BY <1>2, <1>3, <1>4, <1>5
  DEF Custody!Next, Custody!vars, Custody!holding, Custody!Start, Custody!Report, Custody!Settle
<1> QED
  BY <1>6

\* A claim that lost its workbook, by expiry, an uncertain end, a finish or a
\* reconciliation, never owns it again, whatever its late requests carry:
\* nothing that it sends from then on is served (heartbeat, begin, end and
\* finish of coordinator.py ask for Owned).
StaleStaysOut ==
    [][\A c \in Claims : claims[c] # None /\ ~Owned(c) => ~Owned(c)']_vars

LEMMA StaleStep ==
    ASSUME TypeOK, RowsNamed, CustodyInv, [Next]_vars,
           NEW c \in Claims, claims[c] # None, Owned(c)'
    PROVE  Owned(c)
<1>1. claims'[c] = claims[c] /\ claims[c].workbook \in Workbooks
  <2>1. claims[c] \in Grant
    BY DEF TypeOK
  <2>2. CASE claims' = claims
    BY <2>1, <2>2 DEF Grant
  <2>3. ASSUME NEW d \in Claims, NEW w \in Workbooks, NEW o \in Owners, Claim(d, w, o)
        PROVE  claims'[c] = claims[c]
    BY <2>3 DEF Claim, Claimable, Grantable, TypeOK
  <2> QED
    BY <2>1, <2>2, <2>3, FencesKept DEF Grant
<1> DEFINE w == claims[c].workbook
<1>2. workbooks'[w].state = "active" /\ workbooks'[w].claim = c
  BY <1>1 DEF Owned
<1>3. workbooks[w].state = "active" /\ workbooks[w].claim = c
  BY <1>1, <1>2, FreshOnly, CustodyStep
<1> QED
  BY <1>1, <1>3, LedgerAssumption DEF RowsNamed, Owned

\* So fences hold for good: what a claim lost, it does not get back.
THEOREM StaleOwners == Spec => StaleStaysOut
<1>1. TypeInv /\ CustodyInv /\ [Next]_vars
        => [\A c \in Claims : claims[c] # None /\ ~Owned(c) => ~Owned(c)']_vars
  BY StaleStep DEF TypeInv
<1> QED
  BY <1>1, TypeInvariant, CustodyInvariant, PTL DEF Spec, StaleStaysOut
=============================================================================

------------------------- MODULE TrackerLeases_proofs -------------------------
(***************************************************************************)
(* Proofs about TrackerLeases, for any owners, durations, bounds and clock *)
(* adjustments.                                                            *)
(*                                                                         *)
(* TypeOK alone is not inductive: a renewal or a heartbeat is well typed   *)
(* only if the slot it refreshes is occupied, which was checked when the   *)
(* operation was admitted.  OpAdmitted carries what admission established  *)
(* to the commit: it survives because only a commit changes the document,  *)
(* and because a stopped owner cannot restart during its takeover.         *)
(***************************************************************************)
EXTENDS TrackerLeases, TLAPS, FiniteSetTheorems, SequenceTheorems

Grants == {"acquire", "replace_expired", "renew"}

\* What the checks made at admission say of the operation that holds the lock.
OpAdmitted ==
    op # NoOp =>
        /\ op.name \in LeaseOps => op.to = exec
        /\ op.name \in Grants => exec \notin Terminal /\ op.duration \in Durations
        /\ op.name = "acquire" => leases[op.kind] = NoLease
        /\ op.name = "replace_expired" =>
              /\ op.kind = "task_agent"
              /\ leases["task_agent"] # NoLease
              /\ leases["task_agent"].expires <= op.at
              /\ leases["task_agent"].owner \notin alive
              /\ Cardinality(Replaced(handoffs)) < MaxReplacements
        /\ op.name \in Presented => Held(leases[op.kind], op.owner, op.token)
        /\ op.name = "release" /\ leases[op.kind].expires <= op.at =>
              leases[op.kind].owner \notin alive
        /\ op.name \in Writes =>
              /\ op.kind = LeaseKindOf(op.name)
              /\ LiveAt(leases[op.kind], op.at) /\ Leads(op.name, op.to)
        /\ op.name = "renew" =>
              /\ leases[op.kind].heartbeat <= op.at
              /\ op.at < leases[op.kind].expires
              /\ leases[op.kind].expires < op.at + op.duration
        /\ op.name = "resume" =>
              /\ exec = "STOPPED" /\ op.to = "running"
              /\ \A k \in Kinds : leases[k] = NoLease

TypeInv == TypeOK /\ OpAdmitted

-----------------------------------------------------------------------------
(* The lease and the event that an admitted operation writes are well typed. *)
LEMMA NewLeaseType ==
    ASSUME TypeInv, op # NoOp
    PROVE  NewLease(op) \in Slot
<1> USE DEF TypeInv
<1>1. /\ op \in Operation
      /\ op.owner \in Owners /\ op.kind \in Kinds /\ op.at \in Nat
      /\ op.name \in LeaseOps \cup Writes \cup {"resume"}
      /\ leases[op.kind] \in Slot
      /\ minted \in Nat /\ revision \in Nat
  BY DEF TypeOK, Operation
<1>2. CASE op.name \in {"acquire", "replace_expired"}
  <2>1. op.duration \in Nat
    BY <1>2, DurationsAssumption DEF OpAdmitted, Grants
  <2>2. NewLease(op) =
            [owner |-> op.owner, token |-> minted + 1, acquired |-> op.at,
             heartbeat |-> op.at, expires |-> op.at + op.duration,
             revision |-> revision + 1]
    BY <1>2 DEF NewLease, Heartbeats
  <2> QED
    BY <1>1, <2>1, <2>2 DEF Slot, Lease
<1>3. CASE op.name = "renew"
  <2>1. op.duration \in Nat
    BY <1>3, DurationsAssumption DEF OpAdmitted, Grants
  <2>2. leases[op.kind] \in Lease
    BY <1>1, <1>3 DEF OpAdmitted, Presented, Held, Slot
  <2>3. NewLease(op) = [Refreshed(leases[op.kind], op.at) EXCEPT
                            !.expires = op.at + op.duration]
    BY <1>3 DEF NewLease, Heartbeats
  <2>4. Refreshed(leases[op.kind], op.at) \in Lease
    BY <1>1, <2>2 DEF Refreshed, Lease
  <2> QED
    BY <1>1, <2>1, <2>3, <2>4 DEF Slot, Lease
<1>4. CASE op.name \in Heartbeats
  <2>1. leases[op.kind] \in Lease
    BY <1>1, <1>4 DEF OpAdmitted, Presented, Writes, Heartbeats, Held, Slot
  <2> QED
    BY <1>1, <1>4, <2>1 DEF NewLease, Refreshed, Slot, Lease, Heartbeats
<1>5. CASE op.name \notin {"acquire", "replace_expired", "renew"} \cup Heartbeats
  BY <1>1, <1>5 DEF NewLease, Slot
<1> QED
  BY <1>2, <1>3, <1>4, <1>5

\* The history with the event of an admitted operation is a history.
LEMMA EventType ==
    ASSUME TypeInv, op # NoOp
    PROVE  HandoffsAfter(op) \in Seq(Event)
<1>1. handoffs \in Seq(Event) /\ revision \in Nat /\ op \in Operation
      /\ leases \in [Kinds -> Slot]
  BY DEF TypeInv, TypeOK
<1>2. CASE op.name \in LeaseOps
  <2>1. [operation |-> op.name, kind |-> op.kind, revision |-> revision + 1,
         at |-> op.at, before |-> leases[op.kind], after |-> NewLease(op)] \in Event
    BY <1>1, <1>2, NewLeaseType DEF Event, Operation
  <2> QED
    BY <1>1, <1>2, <2>1 DEF HandoffsAfter
<1>3. CASE op.name \notin LeaseOps
  BY <1>1, <1>3 DEF HandoffsAfter
<1> QED
  BY <1>2, <1>3

(* What a commit changes, and what holds of it whoever learns of it.        *)
LEMMA ReplaceType ==
    ASSUME TypeInv, Replace
    PROVE  /\ clock' \in Nat /\ revision' \in Nat /\ exec' \in ExecStates
           /\ leases' \in [Kinds -> Slot] /\ handoffs' \in Seq(Event)
           /\ minted' \in Nat /\ alive' \subseteq Owners
           /\ op' = NoOp
<1>1. op # NoOp /\ op \in Operation /\ clock \in Nat /\ revision \in Nat
      /\ leases \in [Kinds -> Slot] /\ minted \in Nat /\ alive \subseteq Owners
  BY DEF TypeInv, TypeOK, Replace
<1>2. NewLease(op) \in Slot /\ HandoffsAfter(op) \in Seq(Event)
  BY <1>1, NewLeaseType, EventType
<1>3. op.to \in ExecStates
  BY <1>1 DEF Operation
<1>4. /\ revision' = revision + 1 /\ exec' = op.to /\ leases' = LeasesAfter(op)
      /\ handoffs' = HandoffsAfter(op) /\ minted' \in {minted, minted + 1}
      /\ op' = NoOp /\ clock' = clock /\ alive' = alive
  BY DEF Replace
<1>5. LeasesAfter(op) \in [Kinds -> Slot]
  BY <1>1, <1>2 DEF LeasesAfter
<1> QED
  BY <1>1, <1>2, <1>3, <1>4, <1>5

(* Admission establishes OpAdmitted. *)
LEMMA AdmitAdmits ==
    ASSUME TypeInv, NEW w \in Owners, Admit(w)
    PROVE  TypeInv'
<1> DEFINE o == op'
<1>1. /\ Requested(w, o) /\ Admissible(o)
      /\ UNCHANGED <<clock, tracker, minted, alive, current, known>>
  BY DEF Admit
<1>2. o \in Operation
  <2>1. /\ known \in [Owners -> [Kinds -> Nat]] /\ clock \in Nat /\ exec \in ExecStates
        /\ leases \in [Kinds -> Slot]
    BY DEF TypeInv, TypeOK
  <2>2. \A name \in LeaseOps \cup Writes \cup {"resume"}, kind \in Kinds,
           d \in Durations \cup {0}, to \in ExecStates :
              Request(w, name, kind, d, to) \in Operation
    BY <2>1 DEF Request, Operation
  <2>3. \A kind \in Kinds : leases[kind] # NoLease => ReleaseFor(w, kind) \in Operation
    BY <2>1 DEF ReleaseFor, Operation, Slot, Lease, LeaseOps
  <2>4. \A name : LeaseKindOf(name) \in Kinds
    BY DEF LeaseKindOf, Kinds
  <2>5. CASE \E name \in LeaseOps, kind \in Kinds, d \in Durations \cup {0} :
                 o = Request(w, name, kind, d, exec)
    BY <2>1, <2>2, <2>5
  <2>6. CASE \E name \in Writes \cup {"resume"}, to \in ExecStates :
                 o = Request(w, name, LeaseKindOf(name), 0, to)
    BY <2>2, <2>4, <2>6
  <2>7. CASE \E kind \in Kinds :
                 leases[kind] # NoLease /\ Ended(kind) /\ o = ReleaseFor(w, kind)
    BY <2>3, <2>7
  <2> QED
    BY <1>1, <2>5, <2>6, <2>7 DEF Requested
<1>3. TypeOK'
  BY <1>1, <1>2 DEF TypeInv, TypeOK, tracker
<1>4. UNCHANGED <<exec, leases, handoffs, alive>>
  BY <1>1 DEF tracker
<1>5. OpAdmitted'
  <2>1. CASE o.to = exec /\ AdmitAcquire(o)
    BY <1>1, <1>4, <2>1 DEF AdmitAcquire, OpAdmitted, Grants, Presented, Writes, LeaseOps
  <2>2. CASE o.to = exec /\ AdmitReplace(o)
    BY <1>1, <1>4, <2>2
       DEF AdmitReplace, ProvedStopped, OpAdmitted, Grants, Presented, Writes, LeaseOps, Replaced
  <2>3. CASE o.to = exec /\ AdmitRenew(o)
    BY <1>1, <1>4, <2>3 DEF AdmitRenew, OpAdmitted, Grants, Presented, Writes, LeaseOps, Held
  <2>4. CASE o.to = exec /\ AdmitRelease(o)
    BY <1>1, <1>4, <2>4 DEF AdmitRelease, ProvedStopped, OpAdmitted, Grants, Presented, Writes, LeaseOps, Held
  <2>5. CASE AdmitWrite(o)
    BY <1>1, <1>4, <2>5
       DEF AdmitWrite, OpAdmitted, Grants, Presented, Writes, LeaseOps, Held, LiveAt, Leads
  <2>6. CASE AdmitResume(o)
    BY <1>1, <1>4, <2>6 DEF AdmitResume, OpAdmitted, Grants, Presented, Writes, LeaseOps
  <2> QED
    BY <1>1, <2>1, <2>2, <2>3, <2>4, <2>5, <2>6 DEF Admissible
<1> QED
  BY <1>3, <1>5 DEF TypeInv

\* A new tracker is well formed, and no operation is in flight.
LEMMA TypeInit == Init => TypeInv
<1>1. SUFFICES ASSUME Init PROVE TypeInv
  OBVIOUS
<1>2. <<>> \in Seq(Event)
  OBVIOUS
<1> QED
  BY <1>1, <1>2 DEF Init, TypeInv, TypeOK, OpAdmitted, Slot, ExecStates

\* Well-formedness, and what admission established, survive every step.
LEMMA TypeNext == TypeInv /\ [Next]_vars => TypeInv'
<1> SUFFICES ASSUME TypeInv, [Next]_vars PROVE TypeInv'
  OBVIOUS
<1>1. ASSUME NEW w \in Owners, NEW adopt \in BOOLEAN, ReadTracker(w, adopt)
      PROVE  TypeInv'
  <2>1. UNCHANGED <<clock, revision, exec, leases, handoffs, minted, alive, op>>
    BY <1>1 DEF ReadTracker, tracker
  <2>2. current' \subseteq Owners
    BY <1>1 DEF ReadTracker, TypeInv, TypeOK
  <2>3. \A k \in Kinds : (IF adopt /\ leases[k] # NoLease /\ leases[k].owner = w
                           THEN leases[k].token ELSE known[w][k]) \in Nat
    BY DEF TypeInv, TypeOK, Slot, Lease
  <2>4. known' \in [Owners -> [Kinds -> Nat]]
    BY <1>1, <2>3 DEF ReadTracker, TypeInv, TypeOK
  <2>5. OpAdmitted'
    BY <2>1 DEF TypeInv, OpAdmitted, Held, LiveAt, Leads, Replaced
  <2> QED
    BY <2>1, <2>2, <2>4, <2>5 DEF TypeInv, TypeOK
<1>2. ASSUME NEW w \in Owners, Admit(w) PROVE TypeInv'
  BY <1>2, AdmitAdmits
<1>3. ASSUME NEW w \in Owners, Crash(w) PROVE TypeInv'
  <2>1. UNCHANGED <<clock, revision, exec, leases, handoffs, minted, known>>
        /\ alive' = alive \ {w} /\ current' = current \ {w} /\ op' \in {op, NoOp}
    BY <1>3 DEF Crash, tracker
  <2>2. OpAdmitted'
    BY <2>1 DEF TypeInv, OpAdmitted, Held, LiveAt, Leads, Replaced
  <2> QED
    BY <2>1, <2>2 DEF TypeInv, TypeOK
<1>4. ASSUME NEW w \in Owners, Restart(w) PROVE TypeInv'
  <2>1. UNCHANGED <<clock, revision, exec, leases, handoffs, minted, current, known, op>>
        /\ alive' = alive \cup {w}
    BY <1>4 DEF Restart, tracker
  <2>2. /\ op # NoOp /\ op.name = "replace_expired" => leases["task_agent"].owner # w
        /\ op # NoOp /\ op.name = "release" /\ leases[op.kind].expires <= op.at
              => leases[op.kind].owner # w
    <3>1. CASE op = NoOp
      BY <3>1
    <3>2. CASE op # NoOp /\ op.name = "replace_expired"
      BY <1>4, <3>2 DEF Restart, Displaces, TypeInv, OpAdmitted
    <3>3. CASE op # NoOp /\ op.name = "release"
      BY <1>4, <3>3 DEF Restart, Displaces, TypeInv, OpAdmitted
    <3>4. CASE op # NoOp /\ op.name \notin {"replace_expired", "release"}
      BY <3>4
    <3> QED
      BY <3>1, <3>2, <3>3, <3>4
  <2>3. OpAdmitted'
    BY <2>1, <2>2 DEF TypeInv, OpAdmitted, Held, LiveAt, Leads, Replaced
  <2> QED
    BY <2>1, <2>3 DEF TypeInv, TypeOK
<1>5. CASE Commit
  <2>1. op \in Operation /\ op # NoOp
    BY <1>5 DEF Commit, Replace, TypeInv, TypeOK
  <2>2. op.by \in Owners /\ op.kind \in Kinds
    BY <2>1 DEF Operation
  <2>3. current' \subseteq Owners /\ known' \in [Owners -> [Kinds -> Nat]]
    BY <1>5, <2>2 DEF Commit, TypeInv, TypeOK
  <2> QED
    BY <1>5, <2>3, ReplaceType DEF Commit, TypeInv, TypeOK, OpAdmitted
<1>6. CASE CommitUnacknowledged
  BY <1>6, ReplaceType DEF CommitUnacknowledged, TypeInv, TypeOK, OpAdmitted
<1>7. CASE Abort
  BY <1>7 DEF Abort, tracker, TypeInv, TypeOK, OpAdmitted
<1>8. CASE ClockMoves
  <2>1. UNCHANGED <<revision, exec, leases, handoffs, minted, alive, current, known, op>>
        /\ clock' \in Nat
    BY <1>8, BoundsAssumption DEF ClockMoves, tracker
  <2>2. OpAdmitted'
    BY <2>1 DEF TypeInv, OpAdmitted, Held, LiveAt, Leads, Replaced
  <2> QED
    BY <2>1, <2>2 DEF TypeInv, TypeOK
<1>9. CASE UNCHANGED vars
  BY <1>9 DEF vars, TypeInv, TypeOK, OpAdmitted, Held, LiveAt, Leads, Replaced
<1> QED
  BY <1>1, <1>2, <1>3, <1>4, <1>5, <1>6, <1>7, <1>8, <1>9 DEF Next

(* Every reachable tracker, and the operation in flight, is well formed. *)
THEOREM TypeCorrect == Spec => []TypeOK
<1>1. TypeInv => TypeOK
  BY DEF TypeInv
<1> QED
  BY <1>1, TypeInit, TypeNext, PTL DEF Spec

-----------------------------------------------------------------------------
(* Fencing.  Tokens are minted in order, so a token that was ever retired   *)
(* differs from every later one; the current lease's token was not retired, *)
(* because the only operations that retire it also replace or remove it.    *)

Retires(e, k) == e.kind = k /\ e.operation \in {"release", "replace_expired"}

FenceInv ==
    /\ \A k \in Kinds : leases[k] # NoLease =>
          /\ leases[k].token <= minted
          /\ \A i \in DOMAIN handoffs :
                Retires(handoffs[i], k) => handoffs[i].before.token # leases[k].token
    /\ \A i \in DOMAIN handoffs, k \in Kinds :
          Retires(handoffs[i], k) => handoffs[i].before.token \in 0..minted

\* A commit leaves the history alone or appends one event, that of the operation.
LEMMA HandoffsGrow ==
    ASSUME TypeInv, Replace
    PROVE  \/ op.name \notin LeaseOps /\ handoffs' = handoffs
           \/ /\ op.name \in LeaseOps
              /\ Len(handoffs) \in Nat /\ DOMAIN handoffs = 1..Len(handoffs)
              /\ DOMAIN handoffs' = 1..(Len(handoffs) + 1)
              /\ \A i \in DOMAIN handoffs : handoffs'[i] = handoffs[i]
              /\ handoffs'[Len(handoffs) + 1] =
                    [operation |-> op.name, kind |-> op.kind, revision |-> revision + 1,
                     at |-> op.at, before |-> leases[op.kind], after |-> NewLease(op)]
<1> DEFINE e == [operation |-> op.name, kind |-> op.kind, revision |-> revision + 1,
                 at |-> op.at, before |-> leases[op.kind], after |-> NewLease(op)]
<1>1. handoffs \in Seq(Event) /\ handoffs' = HandoffsAfter(op)
  BY DEF TypeInv, TypeOK, Replace
<1>2. CASE op.name \notin LeaseOps
  BY <1>1, <1>2 DEF HandoffsAfter
<1>3. CASE op.name \in LeaseOps
  <2>1. handoffs' = Append(handoffs, e)
    BY <1>1, <1>3 DEF HandoffsAfter
  <2> HIDE DEF e
  <2>2. /\ Len(handoffs) \in Nat /\ DOMAIN handoffs = 1..Len(handoffs)
        /\ DOMAIN handoffs' = 1..(Len(handoffs) + 1)
        /\ \A i \in DOMAIN handoffs : handoffs'[i] = handoffs[i]
        /\ handoffs'[Len(handoffs) + 1] = e
    BY <1>1, <2>1
  <2> QED
    BY <1>3, <2>2 DEF e
<1> QED
  BY <1>2, <1>3

(* How the token of the written lease relates to the one before.            *)
LEMMA NewToken ==
    ASSUME TypeInv, op # NoOp
    PROVE  /\ op.name \in {"acquire", "replace_expired"} => NewLease(op).token = minted + 1
           /\ op.name = "release" => NewLease(op) = NoLease
           /\ op.name \notin {"acquire", "replace_expired", "release"} =>
                 /\ NewLease(op) # NoLease => leases[op.kind] # NoLease
                 /\ NewLease(op) # NoLease => NewLease(op).token = leases[op.kind].token
<1>0. op \in Operation /\ leases[op.kind] \in Slot
      /\ op.name \in LeaseOps \cup Writes \cup {"resume"}
  BY DEF TypeInv, TypeOK, Operation
<1>1. CASE op.name \in {"acquire", "replace_expired"}
  BY <1>1 DEF NewLease, Heartbeats
<1>2. CASE op.name = "release"
  BY <1>2 DEF NewLease, Heartbeats
<1>3. CASE op.name \in {"renew"} \cup Heartbeats
  <2>1. leases[op.kind] \in Lease
    BY <1>0, <1>3 DEF TypeInv, OpAdmitted, Presented, Writes, Heartbeats, Held, Slot
  <2>2. Refreshed(leases[op.kind], op.at).token = leases[op.kind].token
        /\ Refreshed(leases[op.kind], op.at) \in Lease
    BY <1>0, <2>1 DEF Refreshed, Lease, Operation
  <2>3. NewLease(op) \in { Refreshed(leases[op.kind], op.at),
            [Refreshed(leases[op.kind], op.at) EXCEPT !.expires = op.at + op.duration]}
    BY <1>3 DEF NewLease, Heartbeats
  <2>4. NewLease(op).token = leases[op.kind].token
    BY <2>2, <2>3 DEF Lease
  <2> QED
    BY <1>3, <2>1, <2>4, NamesAssumption DEF Heartbeats
<1>4. CASE op.name \in {"snapshot", "clear", "enqueue", "promoted", "resume"}
  BY <1>4 DEF NewLease, Heartbeats
<1> QED
  BY <1>0, <1>1, <1>2, <1>3, <1>4 DEF LeaseOps, Writes, Heartbeats

\* A commit retires at most the token it replaces or releases, which is not the
\* one it leaves in the slot, and minted tokens are new.
LEMMA FenceReplace ==
    ASSUME TypeInv, FenceInv, Replace
    PROVE  FenceInv'
<1>1. /\ op # NoOp /\ op \in Operation /\ op.kind \in Kinds /\ minted \in Nat
      /\ leases \in [Kinds -> Slot] /\ handoffs \in Seq(Event)
      /\ leases' = [leases EXCEPT ![op.kind] = NewLease(op)]
      /\ minted' = IF op.name \in {"acquire", "replace_expired"} THEN minted + 1 ELSE minted
  BY DEF TypeInv, TypeOK, Operation, Replace, LeasesAfter
<1>2. \A k \in Kinds : leases[k] # NoLease => leases[k].token \in Nat
  BY <1>1 DEF Slot, Lease
<1>3. op.name \in {"release", "replace_expired"} => leases[op.kind] # NoLease
  BY <1>1 DEF TypeInv, OpAdmitted, Presented, Held
\* Tokens retired so far, the one this commit retires included.
<1>5. ASSUME NEW i \in DOMAIN handoffs', NEW k \in Kinds, Retires(handoffs'[i], k)
      PROVE  handoffs'[i].before.token \in 0..minted
  <2>1. CASE i \in DOMAIN handoffs /\ handoffs'[i] = handoffs[i]
    BY <1>5, <2>1 DEF FenceInv
  <2>2. CASE op.name \in LeaseOps /\ i = Len(handoffs) + 1
    <3>1. handoffs'[i].operation = op.name /\ handoffs'[i].before = leases[op.kind]
      BY <2>2, HandoffsGrow
    <3>2. leases[op.kind] # NoLease
      BY <1>3, <1>5, <3>1 DEF Retires
    <3>3. leases[op.kind].token \in Nat /\ leases[op.kind].token <= minted
      BY <1>1, <1>2, <3>2 DEF FenceInv
    <3> QED
      BY <1>1, <3>1, <3>3
  <2> QED
    BY <1>1, <2>1, <2>2, HandoffsGrow
<1>7. ASSUME NEW k \in Kinds, leases'[k] # NoLease
      PROVE  /\ leases'[k].token <= minted'
             /\ \A i \in DOMAIN handoffs' :
                   Retires(handoffs'[i], k) => handoffs'[i].before.token # leases'[k].token
  <2>1. CASE k # op.kind
    <3>1. leases'[k] = leases[k] /\ leases[k].token \in Nat
      BY <1>1, <1>2, <1>7, <2>1
    <3>2. \A i \in DOMAIN handoffs' : Retires(handoffs'[i], k) =>
              i \in DOMAIN handoffs /\ handoffs'[i] = handoffs[i]
      BY <2>1, HandoffsGrow DEF Retires
    <3> QED
      BY <1>1, <1>7, <3>1, <3>2 DEF FenceInv
  <2>2. CASE k = op.kind /\ op.name \in {"acquire", "replace_expired"}
    <3>1. leases'[k].token = minted + 1 /\ minted' = minted + 1
      BY <1>1, <2>2, NewToken
    <3> QED
      BY <1>1, <1>5, <3>1
  <2>3. CASE k = op.kind /\ op.name \notin {"acquire", "replace_expired"}
    <3>1. op.name # "release"
      BY <1>1, <1>7, <2>3, NewToken
    <3>2. leases[k] # NoLease /\ leases'[k].token = leases[k].token /\ minted' = minted
      BY <1>1, <1>7, <2>3, <3>1, NewToken
    <3>3. \A i \in DOMAIN handoffs' : Retires(handoffs'[i], k) =>
              i \in DOMAIN handoffs /\ handoffs'[i] = handoffs[i]
      BY <2>3, <3>1, HandoffsGrow DEF Retires
    <3> QED
      BY <3>2, <3>3 DEF FenceInv
  <2> QED
    BY <2>1, <2>2, <2>3
<1>8. ASSUME NEW i \in DOMAIN handoffs', NEW k \in Kinds, Retires(handoffs'[i], k)
      PROVE  handoffs'[i].before.token \in 0..minted'
  BY <1>1, <1>5, <1>8
<1> QED
  BY <1>7, <1>8 DEF FenceInv

(* Nothing but a commit changes the document.                               *)
LEMMA OnlyReplaceChanges ==
    [Next]_vars => Replace \/ UNCHANGED <<revision, exec, leases, handoffs, minted>>
<1> SUFFICES ASSUME [Next]_vars
             PROVE  Replace \/ UNCHANGED <<revision, exec, leases, handoffs, minted>>
  OBVIOUS
<1>1. ASSUME NEW w \in Owners, Admit(w) PROVE UNCHANGED <<revision, exec, leases, handoffs, minted>>
  BY <1>1 DEF Admit, tracker
<1>2. ASSUME NEW w \in Owners,
             (\E adopt \in BOOLEAN : ReadTracker(w, adopt)) \/ Crash(w) \/ Restart(w)
      PROVE  UNCHANGED <<revision, exec, leases, handoffs, minted>>
  BY <1>2 DEF ReadTracker, Crash, Restart, tracker
<1>3. CASE Abort \/ ClockMoves \/ UNCHANGED vars
  BY <1>3 DEF Abort, ClockMoves, vars, tracker
<1>4. CASE Commit \/ CommitUnacknowledged
  BY <1>4 DEF Commit, CommitUnacknowledged
<1> QED
  BY <1>1, <1>2, <1>3, <1>4 DEF Next

\* No token was retired before the first event.
LEMMA FenceInit == Init => FenceInv
  BY DEF Init, FenceInv

\* No step puts a retired token back into its slot.
LEMMA FenceNext == TypeInv /\ FenceInv /\ [Next]_vars => FenceInv'
<1> SUFFICES ASSUME TypeInv, FenceInv, [Next]_vars PROVE FenceInv'
  OBVIOUS
<1>1. CASE Replace
  BY <1>1, FenceReplace
<1>2. CASE UNCHANGED <<leases, handoffs, minted>>
  BY <1>2 DEF FenceInv, Retires
<1> QED
  BY <1>1, <1>2, OnlyReplaceChanges

(* No operation in flight presents a token that was released or taken over: *)
(* whatever processes crash, restart and keep, and however the clock moves. *)
THEOREM FencedCorrect == Spec => []Fenced
<1>1. TypeInv /\ FenceInv => Fenced
  <2> SUFFICES ASSUME TypeInv, FenceInv, op # NoOp, op.name \in Presented
               PROVE  op.token \notin Retired(op.kind)
    BY DEF Fenced
  <2>1. op.kind \in Kinds
    BY DEF TypeInv, TypeOK, Operation
  <2>2. leases[op.kind] # NoLease /\ leases[op.kind].token = op.token
    BY DEF TypeInv, OpAdmitted, Held
  <2> QED
    BY <2>1, <2>2 DEF FenceInv, Retired, Retires
<1> QED
  BY <1>1, TypeInit, TypeNext, FenceInit, FenceNext, PTL DEF Spec

(* An expired lease is taken over, or released, only while its owner is     *)
(* stopped.                                                                 *)
THEOREM TakeoverCorrect == Spec => []NoTakeoverFromRunningOwner
<1>1. TypeInv => NoTakeoverFromRunningOwner
  BY DEF TypeInv, OpAdmitted, NoTakeoverFromRunningOwner, Displaces, Presented, Held
<1> QED
  BY <1>1, TypeInit, TypeNext, PTL DEF Spec

-----------------------------------------------------------------------------
(* Terminal states: only a commit changes the document, and what admission  *)
(* established about it is still true then.                                 *)
THEOREM TerminalCorrect == Spec => TerminalFrozen
<1> DEFINE Frozen ==
        /\ exec = "PROMOTED" => exec' = "PROMOTED"
        /\ exec = "STOPPED" /\ exec' # exec =>
              exec' = "running" /\ \A k \in Kinds : leases[k] = NoLease
        /\ exec \in Terminal => \A k \in Kinds :
              leases'[k] # NoLease =>
                  leases[k] # NoLease /\ leases'[k].token = leases[k].token
                  /\ leases'[k].expires = leases[k].expires
<1>1. TypeInv /\ [Next]_vars => [Frozen]_vars
  <2> SUFFICES ASSUME TypeInv, [Next]_vars PROVE Frozen
    OBVIOUS
  <2>1. CASE UNCHANGED <<exec, leases>>
    BY <2>1 DEF TypeInv, TypeOK
  <2>2. CASE Replace
    <3>1. /\ op # NoOp /\ op.kind \in Kinds /\ leases \in [Kinds -> Slot]
          /\ op.name \in LeaseOps \cup Writes \cup {"resume"}
          /\ exec' = op.to /\ leases' = [leases EXCEPT ![op.kind] = NewLease(op)]
      BY <2>2 DEF Replace, LeasesAfter, TypeInv, TypeOK, Operation
    <3>2. CASE op.name \in LeaseOps
      <4>1. exec' = exec
        BY <3>1, <3>2 DEF TypeInv, OpAdmitted
      <4>2. exec \in Terminal => op.name = "release"
        BY <3>1, <3>2 DEF TypeInv, OpAdmitted, LeaseOps, Grants
      <4>3. exec \in Terminal => NewLease(op) = NoLease
        BY <3>1, <4>2, NewToken
      <4> QED
        BY <3>1, <4>1, <4>3
    <3>3. CASE op.name \in Writes
      <4>1. Leads(op.name, op.to)
        BY <3>1, <3>3 DEF TypeInv, OpAdmitted
      <4>2. exec \in Terminal => op.name = "snapshot" /\ op.to = exec /\ exec = "STOPPED"
        BY <3>3, <4>1 DEF Leads, Terminal, Writes
      <4>3. exec \in Terminal => NewLease(op) = leases[op.kind]
        BY <4>2 DEF NewLease, Heartbeats
      <4> QED
        BY <3>1, <4>2, <4>3 DEF Terminal
    <3>4. CASE op.name = "resume"
      <4>1. exec = "STOPPED" /\ op.to = "running" /\ \A k \in Kinds : leases[k] = NoLease
        BY <3>1, <3>4 DEF TypeInv, OpAdmitted
      <4>2. NewLease(op) = leases[op.kind]
        BY <3>4 DEF NewLease, Heartbeats
      <4> QED
        BY <3>1, <4>1, <4>2
    <3> QED
      BY <3>1, <3>2, <3>3, <3>4
  <2> QED
    BY <2>1, <2>2, OnlyReplaceChanges
<1> QED
  BY <1>1, TypeInit, TypeNext, PTL DEF Spec, TerminalFrozen

-----------------------------------------------------------------------------
(* The retained history.                                                    *)

(* What the history leaves in a slot is a lease or nothing.                 *)
LEMMA RecordedType ==
    ASSUME NEW hs \in Seq(Event), NEW n \in 0..Len(hs), NEW k \in Kinds
    PROVE  Recorded(hs, n, k) \in Slot
<1>1. CASE \E i \in 1..n : LastOn(hs, n, k, i)
  <2>1. (CHOOSE i \in 1..n : LastOn(hs, n, k, i)) \in 1..Len(hs)
    BY <1>1
  <2>2. \A i \in 1..Len(hs) : hs[i] \in Event
    OBVIOUS
  <2>3. \A i \in 1..Len(hs) : hs[i].after \in Slot
    BY <2>2 DEF Event
  <2> QED
    BY <1>1, <2>1, <2>3 DEF Recorded
<1>2. CASE ~ \E i \in 1..n : LastOn(hs, n, k, i)
  BY <1>2 DEF Recorded, Slot
<1> QED
  BY <1>1, <1>2

(* An event appended to the history does not change what was recorded       *)
(* before it, is what is recorded for its own slot, and leaves the others.  *)
LEMMA RecordedPrefix ==
    ASSUME NEW hs \in Seq(Event), NEW e \in Event, NEW n \in 0..Len(hs), NEW k \in Kinds
    PROVE  Recorded(Append(hs, e), n, k) = Recorded(hs, n, k)
<1>1. \A i \in 1..n : Append(hs, e)[i] = hs[i]
  OBVIOUS
<1>2. \A i \in 1..n : LastOn(Append(hs, e), n, k, i) <=> LastOn(hs, n, k, i)
  BY <1>1 DEF LastOn
<1>3. (CHOOSE i \in 1..n : LastOn(Append(hs, e), n, k, i))
         = (CHOOSE i \in 1..n : LastOn(hs, n, k, i))
  BY <1>2
<1>4. CASE \E i \in 1..n : LastOn(hs, n, k, i)
  BY <1>1, <1>2, <1>3, <1>4 DEF Recorded
<1>5. CASE ~ \E i \in 1..n : LastOn(hs, n, k, i)
  BY <1>2, <1>5 DEF Recorded
<1> QED
  BY <1>4, <1>5

\* The last event of the longer history decides its own slot.
LEMMA RecordedAppend ==
    ASSUME NEW hs \in Seq(Event), NEW e \in Event, NEW k \in Kinds
    PROVE  Recorded(Append(hs, e), Len(hs) + 1, k) =
              IF k = e.kind THEN e.after ELSE Recorded(hs, Len(hs), k)
<1> DEFINE n == Len(hs)
           gs == Append(hs, e)
<1>1. n \in Nat /\ gs[n + 1] = e /\ \A i \in 1..n : gs[i] = hs[i]
  OBVIOUS
<1> HIDE DEF n, gs
<1>2. CASE k = e.kind
  <2>1. LastOn(gs, n + 1, k, n + 1)
    BY <1>1, <1>2 DEF LastOn
  <2>2. \A i \in 1..(n + 1) : LastOn(gs, n + 1, k, i) => i = n + 1
    BY <1>1, <1>2 DEF LastOn
  <2>3. (CHOOSE i \in 1..(n + 1) : LastOn(gs, n + 1, k, i)) = n + 1
    BY <1>1, <2>1, <2>2
  <2>4. \E i \in 1..(n + 1) : LastOn(gs, n + 1, k, i)
    BY <1>1, <2>1
  <2>5. Recorded(gs, n + 1, k) = gs[n + 1].after
    BY <2>3, <2>4 DEF Recorded
  <2> QED
    BY <1>1, <1>2, <2>5 DEF n, gs
<1>3. CASE k # e.kind
  <2>1. \A i : (i \in 1..(n + 1) /\ LastOn(gs, n + 1, k, i))
                 <=> (i \in 1..n /\ LastOn(hs, n, k, i))
    BY <1>1, <1>3 DEF LastOn
  <2>2. (CHOOSE i \in 1..(n + 1) : LastOn(gs, n + 1, k, i))
           = (CHOOSE i \in 1..n : LastOn(hs, n, k, i))
    BY <2>1
  <2>3. CASE \E i \in 1..n : LastOn(hs, n, k, i)
    <3>1. (CHOOSE i \in 1..n : LastOn(hs, n, k, i)) \in 1..n
      BY <2>3
    <3> QED
      BY <1>1, <2>1, <2>2, <2>3, <3>1, <1>3 DEF Recorded, n, gs
  <2>4. CASE ~ \E i \in 1..n : LastOn(hs, n, k, i)
    BY <2>1, <2>4, <1>3 DEF Recorded, n, gs
  <2> QED
    BY <2>3, <2>4
<1> QED
  BY <1>2, <1>3

(* The event of an admitted lease operation, and the slots after a commit.  *)
EventOf == [operation |-> op.name, kind |-> op.kind, revision |-> revision + 1,
            at |-> op.at, before |-> leases[op.kind], after |-> NewLease(op)]

(* A heartbeat keeps a lease the one that the history recorded.             *)
LEMMA HeartbeatSameLease ==
    ASSUME NEW r \in Slot, NEW l \in Lease, NEW t \in Nat, SameLease(r, l), LiveAt(l, t)
    PROVE  SameLease(r, Refreshed(l, t))
<1>1. r \in Lease
  BY NamesAssumption DEF SameLease, Slot
<1>2. /\ Refreshed(l, t) \in Lease
      /\ Refreshed(l, t).heartbeat = t
      /\ Refreshed(l, t).owner = l.owner /\ Refreshed(l, t).token = l.token
      /\ Refreshed(l, t).acquired = l.acquired /\ Refreshed(l, t).expires = l.expires
      /\ Refreshed(l, t).revision = l.revision
  BY DEF Refreshed, Lease
<1>3. r # NoLease /\ l # NoLease /\ Refreshed(l, t) # NoLease
  BY <1>1, <1>2, NamesAssumption
<1>4. r.heartbeat \in Nat /\ l.heartbeat \in Nat
  BY <1>1 DEF Lease
<1> QED
  BY <1>2, <1>3, <1>4 DEF SameLease, LiveAt

(* cas_mutate does not replay the history: writes that refresh a heartbeat  *)
(* or leave the leases alone keep it bound all the same.                    *)
LEMMA WritesKeepHistory ==
    ASSUME TypeInv, op # NoOp, op.name \notin LeaseOps,
           HistoryBinds(leases, handoffs, revision)
    PROVE  HistoryBinds(LeasesAfter(op), handoffs, revision + 1)
<1>1. /\ op \in Operation /\ op.kind \in Kinds /\ op.at \in Nat /\ revision \in Nat
      /\ leases \in [Kinds -> Slot] /\ handoffs \in Seq(Event)
      /\ op.name \in Writes \cup {"resume"}
  BY DEF TypeInv, TypeOK, Operation
<1>2. \A i \in DOMAIN handoffs : handoffs[i].revision \in Nat
  <2>1. \A i \in DOMAIN handoffs : handoffs[i] \in Event
    BY <1>1
  <2> QED
    BY <2>1 DEF Event
<1>3. ASSUME NEW k \in Kinds
      PROVE  SameLease(Recorded(handoffs, Len(handoffs), k), LeasesAfter(op)[k])
  <2>1. SameLease(Recorded(handoffs, Len(handoffs), k), leases[k])
    BY DEF HistoryBinds
  <2>2. CASE k = op.kind /\ op.name \in Heartbeats
    <3>1. leases[k] \in Lease /\ LiveAt(leases[k], op.at)
      BY <1>1, <2>2 DEF TypeInv, OpAdmitted, Presented, Writes, Heartbeats, Held, Slot
    <3>2. LeasesAfter(op)[k] = Refreshed(leases[k], op.at)
      BY <1>1, <2>2 DEF LeasesAfter, NewLease, Heartbeats
    <3>3. Recorded(handoffs, Len(handoffs), k) \in Slot
      BY <1>1, RecordedType
    <3> QED
      BY <1>1, <2>1, <3>1, <3>2, <3>3, HeartbeatSameLease
  <2>3. CASE k # op.kind \/ op.name \notin Heartbeats
    <3>1. LeasesAfter(op)[k] = leases[k]
      BY <1>1, <2>3 DEF LeasesAfter, NewLease, Writes
    <3> QED
      BY <2>1, <3>1
  <2> QED
    BY <2>2, <2>3
<1>4. \A i \in DOMAIN handoffs : handoffs[i].revision <= revision + 1
  BY <1>1, <1>2 DEF HistoryBinds
<1> QED
  BY <1>3, <1>4 DEF HistoryBinds

\* The empty history binds the empty slots of a new tracker.
LEMMA LifecycleInit == Init => LifecycleValid
<1> SUFFICES ASSUME Init PROVE LifecycleValid
  OBVIOUS
<1>1. handoffs = <<>> /\ Len(handoffs) = 0 /\ DOMAIN handoffs = {}
      /\ \A k \in Kinds : leases[k] = NoLease
  BY DEF Init
<1>2. \A k \in Kinds : Recorded(handoffs, 0, k) = NoLease
  BY DEF Recorded
<1>3. Replaced(handoffs) = {}
  BY <1>1 DEF Replaced
<1>4. Cardinality(Replaced(handoffs)) <= MaxReplacements
  BY <1>3, FS_EmptySet, BoundsAssumption
<1>5. \A k \in Kinds : SameLease(Recorded(handoffs, Len(handoffs), k), leases[k])
  BY <1>1, <1>2 DEF SameLease
<1> QED
  BY <1>1, <1>4, <1>5 DEF LifecycleValid, ValidLeases, HistoryBinds

\* A commit writes only what the final validation accepted, or what
\* WritesKeepHistory covers; nothing else changes the document.
LEMMA LifecycleNext == TypeInv /\ LifecycleValid /\ [Next]_vars => LifecycleValid'
<1> SUFFICES ASSUME TypeInv, LifecycleValid, [Next]_vars PROVE LifecycleValid'
  OBVIOUS
<1>1. CASE UNCHANGED <<revision, leases, handoffs>>
  BY <1>1 DEF LifecycleValid, ValidLeases, HistoryBinds
<1>2. CASE Replace
  <2>1. /\ leases' = LeasesAfter(op) /\ handoffs' = HandoffsAfter(op)
        /\ revision' = revision + 1 /\ op # NoOp
        /\ ValidLeases(LeasesAfter(op), revision + 1)
    BY <1>2 DEF Replace
  <2>2. HistoryBinds(LeasesAfter(op), HandoffsAfter(op), revision + 1)
    <3>1. CASE op.name \in LeaseOps
      BY <1>2, <3>1 DEF Replace
    <3>2. CASE op.name \notin LeaseOps
      BY <2>1, <3>2, WritesKeepHistory DEF HandoffsAfter, LifecycleValid
    <3> QED
      BY <3>1, <3>2
  <2> QED
    BY <2>1, <2>2 DEF LifecycleValid
<1> QED
  BY <1>1, <1>2, OnlyReplaceChanges

(* The tracker never reaches a document that validate_lifecycle refuses.    *)
THEOREM LifecycleCorrect == Spec => []LifecycleValid
  BY TypeInit, TypeNext, LifecycleInit, LifecycleNext, PTL DEF Spec

-----------------------------------------------------------------------------
(* What was admitted is accepted by the final validation of the document it *)
(* builds.                                                                  *)
LEMMA AdmittedLeasesValid ==
    ASSUME TypeInv, LifecycleValid, op # NoOp
    PROVE  ValidLeases(LeasesAfter(op), revision + 1)
<1>1. /\ op \in Operation /\ op.kind \in Kinds /\ op.at \in Nat /\ revision \in Nat
      /\ leases \in [Kinds -> Slot] /\ minted \in Nat
      /\ op.name \in LeaseOps \cup Writes \cup {"resume"}
  BY DEF TypeInv, TypeOK, Operation
<1>2. ASSUME NEW k \in Kinds, leases[k] # NoLease
      PROVE  /\ leases[k] \in Lease
             /\ leases[k].acquired <= leases[k].heartbeat
             /\ leases[k].heartbeat < leases[k].expires
             /\ leases[k].revision <= revision + 1
  <2>1. leases[k] \in Lease
    BY <1>1, <1>2 DEF Slot
  <2>2. leases[k].revision \in Nat
    BY <2>1 DEF Lease
  <2> QED
    BY <1>1, <1>2, <2>1, <2>2 DEF LifecycleValid, ValidLeases
<1>3. LeasesAfter(op) = [leases EXCEPT ![op.kind] = NewLease(op)]
  BY DEF LeasesAfter
<1>4. ASSUME NewLease(op) # NoLease
      PROVE  /\ NewLease(op).acquired <= NewLease(op).heartbeat
             /\ NewLease(op).heartbeat < NewLease(op).expires
             /\ NewLease(op).revision <= revision + 1
  <2>1. CASE op.name \in {"acquire", "replace_expired"}
    <3>1. op.duration \in Nat \ {0}
      BY <2>1, DurationsAssumption DEF TypeInv, OpAdmitted, Grants
    <3>2. /\ NewLease(op).acquired = op.at /\ NewLease(op).heartbeat = op.at
          /\ NewLease(op).expires = op.at + op.duration
          /\ NewLease(op).revision = revision + 1
      BY <2>1 DEF NewLease, Heartbeats
    <3> QED
      BY <1>1, <3>1, <3>2
  <2>2. CASE op.name = "renew"
    <3>1. /\ op.duration \in Nat \ {0} /\ leases[op.kind] # NoLease
          /\ leases[op.kind].heartbeat <= op.at
      BY <2>2, DurationsAssumption DEF TypeInv, OpAdmitted, Grants, Presented, Held
    <3>2. leases[op.kind] \in Lease
      BY <1>1, <1>2, <3>1
    <3>3. /\ NewLease(op).acquired = leases[op.kind].acquired
          /\ NewLease(op).heartbeat = op.at
          /\ NewLease(op).expires = op.at + op.duration
          /\ NewLease(op).revision = leases[op.kind].revision
      BY <1>1, <2>2, <3>2 DEF NewLease, Heartbeats, Refreshed, Lease
    <3>4. leases[op.kind].acquired \in Nat /\ leases[op.kind].heartbeat \in Nat
      BY <3>2 DEF Lease
    <3> QED
      BY <1>1, <1>2, <3>1, <3>3, <3>4
  <2>3. CASE op.name \in Heartbeats
    <3>1. leases[op.kind] # NoLease /\ LiveAt(leases[op.kind], op.at)
      BY <2>3 DEF TypeInv, OpAdmitted, Presented, Writes, Heartbeats, Held
    <3>2. leases[op.kind] \in Lease
      BY <1>1, <1>2, <3>1
    <3>3. /\ NewLease(op).acquired = leases[op.kind].acquired
          /\ NewLease(op).heartbeat = op.at
          /\ NewLease(op).expires = leases[op.kind].expires
          /\ NewLease(op).revision = leases[op.kind].revision
      BY <1>1, <2>3, <3>2 DEF NewLease, Heartbeats, Refreshed, Lease
    <3>4. leases[op.kind].acquired \in Nat /\ leases[op.kind].heartbeat \in Nat
      BY <3>2 DEF Lease
    <3> QED
      BY <1>1, <1>2, <3>1, <3>3, <3>4 DEF LiveAt
  <2>4. CASE op.name = "release"
    BY <1>4, <2>4, NewToken
  <2>5. CASE op.name \in {"snapshot", "clear", "enqueue", "promoted", "resume"}
    <3>1. NewLease(op) = leases[op.kind]
      BY <2>5 DEF NewLease, Heartbeats
    <3> QED
      BY <1>1, <1>2, <1>4, <3>1
  <2> QED
    BY <1>1, <2>1, <2>2, <2>3, <2>4, <2>5 DEF LeaseOps, Writes, Heartbeats
<1> QED
  BY <1>1, <1>2, <1>3, <1>4 DEF ValidLeases

\* The event of an admitted lease operation is one that the replay accepts.
LEMMA EventValid ==
    ASSUME TypeInv, op # NoOp, op.name \in LeaseOps
    PROVE  EventOf \in Event /\ ValidEvent(EventOf)
<1>1. /\ op \in Operation /\ op.kind \in Kinds /\ op.at \in Nat /\ revision \in Nat
      /\ leases \in [Kinds -> Slot] /\ NewLease(op) \in Slot
  BY NewLeaseType DEF TypeInv, TypeOK, Operation
<1>2. /\ EventOf.operation = op.name /\ EventOf.kind = op.kind /\ EventOf.at = op.at
      /\ EventOf.before = leases[op.kind] /\ EventOf.after = NewLease(op)
      /\ EventOf \in Event
  BY <1>1 DEF EventOf, Event
<1>3. CASE op.name = "acquire"
  BY <1>2, <1>3 DEF TypeInv, OpAdmitted, ValidEvent
<1>4. CASE op.name = "renew"
  <2>1. leases[op.kind] # NoLease
    BY <1>4 DEF TypeInv, OpAdmitted, Presented, Held
  <2>2. leases[op.kind] \in Lease
    BY <1>1, <2>1 DEF Slot
  <2>3. NewLease(op) = [Refreshed(leases[op.kind], op.at) EXCEPT
                           !.expires = op.at + op.duration]
    BY <1>4 DEF NewLease, Heartbeats
  <2>4. op.duration \in Nat
    BY <1>4, DurationsAssumption DEF TypeInv, OpAdmitted, Grants
  <2>5. /\ NewLease(op) \in Lease
        /\ NewLease(op).owner = leases[op.kind].owner
        /\ NewLease(op).token = leases[op.kind].token
        /\ NewLease(op).acquired = leases[op.kind].acquired
        /\ NewLease(op).revision = leases[op.kind].revision
    <3> DEFINE l == Refreshed(leases[op.kind], op.at)
    <3>1. /\ l \in Lease
          /\ l.owner = leases[op.kind].owner /\ l.token = leases[op.kind].token
          /\ l.acquired = leases[op.kind].acquired
          /\ l.revision = leases[op.kind].revision
      BY <1>1, <2>2 DEF Refreshed, Lease
    <3> HIDE DEF l
    <3>2. NewLease(op) = [l EXCEPT !.expires = op.at + op.duration]
      BY <2>3 DEF l
    <3> QED
      BY <1>1, <2>4, <3>1, <3>2 DEF Lease
  <2>6. NewLease(op) # NoLease
    BY <2>5, NamesAssumption
  <2> QED
    BY <1>2, <1>4, <2>1, <2>5, <2>6 DEF ValidEvent
<1>5. CASE op.name = "release"
  <2>1. leases[op.kind] # NoLease /\ NewLease(op) = NoLease
    BY <1>5, NewToken DEF TypeInv, OpAdmitted, Presented, Held
  <2> QED
    BY <1>2, <1>5, <2>1 DEF ValidEvent
<1>6. CASE op.name = "replace_expired"
  <2>1. /\ op.kind = "task_agent" /\ leases[op.kind] # NoLease
        /\ leases[op.kind].expires <= op.at
    BY <1>6 DEF TypeInv, OpAdmitted
  <2>2. op.duration \in Nat
    BY <1>6, DurationsAssumption DEF TypeInv, OpAdmitted, Grants
  <2>3. NewLease(op) \in Lease
    <3>1. NewLease(op) = [owner |-> op.owner, token |-> minted + 1, acquired |-> op.at,
             heartbeat |-> op.at, expires |-> op.at + op.duration,
             revision |-> revision + 1]
      BY <1>6 DEF NewLease, Heartbeats
    <3>2. op.owner \in Owners /\ minted \in Nat
      BY <1>1 DEF Operation, TypeInv, TypeOK
    <3> QED
      BY <1>1, <2>2, <3>1, <3>2 DEF Lease
  <2>4. NewLease(op) # NoLease
    BY <2>3, NamesAssumption
  <2> QED
    BY <1>2, <1>6, <2>1, <2>4 DEF ValidEvent
<1> QED
  BY <1>2, <1>3, <1>4, <1>5, <1>6 DEF LeaseOps

\* An admitted takeover stays within the number the authority allows.
LEMMA AdmittedReplacements ==
    ASSUME TypeInv, LifecycleValid, op # NoOp, op.name \in LeaseOps
    PROVE  Cardinality(Replaced(Append(handoffs, EventOf))) <= MaxReplacements
<1> DEFINE gs == Append(handoffs, EventOf)
           n == Len(handoffs)
<1>1. /\ handoffs \in Seq(Event) /\ n \in Nat /\ DOMAIN gs = 1..(n + 1)
      /\ DOMAIN handoffs = 1..n /\ gs[n + 1] = EventOf
      /\ \A i \in 1..n : gs[i] = handoffs[i]
  BY DEF TypeInv, TypeOK
<1>2. EventOf.operation = op.name
  BY DEF EventOf
<1>3. Replaced(handoffs) \in SUBSET (1..n) /\ IsFiniteSet(1..n)
  BY <1>1, FS_Interval DEF Replaced
<1>4. IsFiniteSet(Replaced(handoffs)) /\ Cardinality(Replaced(handoffs)) \in Nat
  BY <1>3, FS_Subset, FS_CardinalityType
<1>5. Cardinality(Replaced(handoffs)) <= MaxReplacements
  BY DEF LifecycleValid, HistoryBinds
<1> HIDE DEF gs, n
<1>6. CASE op.name = "replace_expired"
  <2>1. Replaced(gs) = Replaced(handoffs) \cup {n + 1}
    BY <1>1, <1>2, <1>6 DEF Replaced
  <2>2. n + 1 \notin Replaced(handoffs)
    BY <1>1, <1>3
  <2>3. Cardinality(Replaced(gs)) = Cardinality(Replaced(handoffs)) + 1
    BY <1>4, <2>1, <2>2, FS_AddElement
  <2>4. Cardinality(Replaced(handoffs)) < MaxReplacements
    BY <1>6 DEF TypeInv, OpAdmitted
  <2> QED
    BY <1>4, <2>3, <2>4, BoundsAssumption DEF gs
<1>7. CASE op.name # "replace_expired"
  <2>1. Replaced(gs) = Replaced(handoffs)
    BY <1>1, <1>2, <1>7 DEF Replaced
  <2> QED
    BY <1>5, <2>1 DEF gs
<1> QED
  BY <1>6, <1>7

\* The history with the event of an admitted lease operation binds the leases
\* that the operation leaves.
LEMMA AdmittedHistoryBinds ==
    ASSUME TypeInv, LifecycleValid, op # NoOp, op.name \in LeaseOps
    PROVE  HistoryBinds(LeasesAfter(op), Append(handoffs, EventOf), revision + 1)
<1> DEFINE gs == Append(handoffs, EventOf)
           n == Len(handoffs)
<1>1. /\ handoffs \in Seq(Event) /\ n \in Nat /\ DOMAIN gs = 1..(n + 1)
      /\ DOMAIN handoffs = 1..n /\ gs[n + 1] = EventOf
      /\ \A i \in 1..n : gs[i] = handoffs[i]
      /\ Len(gs) = n + 1
  BY DEF TypeInv, TypeOK
<1>2. /\ op \in Operation /\ op.kind \in Kinds /\ revision \in Nat
      /\ leases \in [Kinds -> Slot]
      /\ LeasesAfter(op) = [leases EXCEPT ![op.kind] = NewLease(op)]
  BY DEF TypeInv, TypeOK, Operation, LeasesAfter
<1>3. /\ EventOf.kind = op.kind /\ EventOf.revision = revision + 1
      /\ EventOf.before = leases[op.kind] /\ EventOf.after = NewLease(op)
      /\ EventOf \in Event /\ ValidEvent(EventOf)
  BY EventValid DEF EventOf
<1>4. \A i \in 1..n : handoffs[i] \in Event
  BY <1>1
<1>5. \A i \in 1..n : handoffs[i].revision \in Nat /\ handoffs[i].kind \in Kinds
  BY <1>4 DEF Event
<1>6. /\ \A i \in 1..n :
            /\ ValidEvent(handoffs[i])
            /\ SameLease(Recorded(handoffs, i - 1, handoffs[i].kind), handoffs[i].before)
            /\ handoffs[i].revision <= revision
            /\ \A j \in 1..(i - 1) : handoffs[j].revision < handoffs[i].revision
      /\ \A k \in Kinds : SameLease(Recorded(handoffs, n, k), leases[k])
  BY <1>1 DEF LifecycleValid, HistoryBinds
<1>7. \A m \in 0..n, k \in Kinds : Recorded(gs, m, k) = Recorded(handoffs, m, k)
  BY <1>1, <1>3, RecordedPrefix
<1>8. \A k \in Kinds : Recorded(gs, n + 1, k) =
                           IF k = op.kind THEN NewLease(op) ELSE Recorded(handoffs, n, k)
  BY <1>1, <1>3, RecordedAppend
<1> HIDE DEF gs, n
<1>9. ASSUME NEW i \in DOMAIN gs
      PROVE  /\ ValidEvent(gs[i])
             /\ SameLease(Recorded(gs, i - 1, gs[i].kind), gs[i].before)
             /\ gs[i].revision <= revision + 1
             /\ \A j \in 1..(i - 1) : gs[j].revision < gs[i].revision
  <2>1. CASE i \in 1..n
    <3>1. gs[i] = handoffs[i] /\ i - 1 \in 0..n /\ \A j \in 1..(i - 1) : gs[j] = handoffs[j]
      BY <1>1, <2>1
    <3>2. Recorded(gs, i - 1, gs[i].kind) = Recorded(handoffs, i - 1, handoffs[i].kind)
      BY <1>5, <1>7, <2>1, <3>1
    <3> QED
      BY <1>2, <1>5, <1>6, <2>1, <3>1, <3>2
  <2>2. CASE i = n + 1
    <3>1. gs[i] = EventOf /\ i - 1 = n /\ n \in 0..n
      BY <1>1, <2>2
    <3>2. SameLease(Recorded(gs, n, op.kind), leases[op.kind])
      BY <1>2, <1>6, <1>7, <3>1
    <3>3. \A j \in 1..n : gs[j].revision < revision + 1
      BY <1>1, <1>2, <1>5, <1>6
    <3> QED
      BY <1>2, <1>3, <3>1, <3>2, <3>3
  <2> QED
    BY <1>1, <2>1, <2>2
<1>10. ASSUME NEW k \in Kinds
       PROVE  SameLease(Recorded(gs, Len(gs), k), LeasesAfter(op)[k])
  <2>1. CASE k = op.kind
    <3>1. Recorded(gs, Len(gs), k) = NewLease(op) /\ LeasesAfter(op)[k] = NewLease(op)
      BY <1>1, <1>2, <1>8, <2>1
    <3>2. NewLease(op) # NoLease => NewLease(op).heartbeat < NewLease(op).expires
      BY <3>1, AdmittedLeasesValid DEF ValidLeases
    <3>3. NewLease(op) # NoLease => NewLease(op).heartbeat \in Nat
      BY NewLeaseType DEF Slot, Lease
    <3> QED
      BY <3>1, <3>2, <3>3 DEF SameLease
  <2>2. CASE k # op.kind
    BY <1>1, <1>2, <1>6, <1>8, <2>2
  <2> QED
    BY <2>1, <2>2
<1>11. Cardinality(Replaced(gs)) <= MaxReplacements
  BY AdmittedReplacements DEF gs
<1> QED
  BY <1>9, <1>10, <1>11 DEF HistoryBinds, gs

(* The guards made before a document is built imply that its validation and *)
(* the replay of its history accept it: neither ever stops what was         *)
(* admitted.                                                                *)
THEOREM ReplayCorrect == Spec => []AdmittedReplays
<1>1. TypeInv /\ LifecycleValid => AdmittedReplays
  <2> SUFFICES ASSUME TypeInv, LifecycleValid, op # NoOp
               PROVE  /\ ValidLeases(LeasesAfter(op), revision + 1)
                      /\ op.name \in LeaseOps =>
                            HistoryBinds(LeasesAfter(op), HandoffsAfter(op), revision + 1)
    BY DEF AdmittedReplays
  <2>1. op.name \in LeaseOps => HandoffsAfter(op) = Append(handoffs, EventOf)
    BY DEF HandoffsAfter, EventOf
  <2> QED
    BY <2>1, AdmittedLeasesValid, AdmittedHistoryBinds
<1> QED
  BY <1>1, TypeInit, TypeNext, LifecycleInit, LifecycleNext, PTL DEF Spec

(* Both at once: no write, admitted or made, is refused by a replay of the  *)
(* history.                                                                 *)
THEOREM HistoryCorrect == Spec => []HistoryReplays
BY LifecycleCorrect, ReplayCorrect, PTL DEF HistoryReplays

-----------------------------------------------------------------------------
(* The lifecycle that every write keeps.                                    *)

\* A lease bears the revision that granted it, and no lease was granted in
\* the revision of creation.
GrantedInv == \A k \in Kinds : leases[k] # NoLease => leases[k].revision # 0

\* What the slot of an admitted operation holds after it: a grant of the next
\* revision, nothing, or what it held before.
LEMMA NewGrant ==
    ASSUME TypeInv, op # NoOp
    PROVE  /\ op.name \in {"acquire", "replace_expired"} =>
                 NewLease(op) # NoLease /\ NewLease(op).revision = revision + 1
           /\ op.name = "release" => NewLease(op) = NoLease
           /\ op.name \notin {"acquire", "replace_expired", "release"} =>
                 /\ NewLease(op) = NoLease <=> leases[op.kind] = NoLease
                 /\ NewLease(op) # NoLease => NewLease(op).revision = leases[op.kind].revision
<1>0. op \in Operation /\ leases[op.kind] \in Slot
      /\ op.name \in LeaseOps \cup Writes \cup {"resume"}
  BY DEF TypeInv, TypeOK, Operation
<1>1. CASE op.name \in {"acquire", "replace_expired"}
  <2>1. NewLease(op).revision = revision + 1 /\ NewLease(op).token = minted + 1
    BY <1>1 DEF NewLease, Heartbeats
  <2>2. NewLease(op) \in Lease
    <3>1. op.duration \in Nat /\ minted \in Nat /\ revision \in Nat
      BY <1>1, DurationsAssumption DEF TypeInv, TypeOK, OpAdmitted, Grants
    <3>2. NewLease(op) =
            [owner |-> op.owner, token |-> minted + 1, acquired |-> op.at,
             heartbeat |-> op.at, expires |-> op.at + op.duration,
             revision |-> revision + 1]
      BY <1>1 DEF NewLease, Heartbeats
    <3> QED
      BY <1>0, <3>1, <3>2 DEF Lease, Operation
  <2> QED
    BY <1>1, <2>1, <2>2, NamesAssumption
<1>2. CASE op.name = "release"
  BY <1>2 DEF NewLease, Heartbeats
<1>3. CASE op.name \in {"renew"} \cup Heartbeats
  <2>1. leases[op.kind] \in Lease
    BY <1>0, <1>3 DEF TypeInv, OpAdmitted, Presented, Writes, Heartbeats, Held, Slot
  <2>2. Refreshed(leases[op.kind], op.at).revision = leases[op.kind].revision
        /\ Refreshed(leases[op.kind], op.at) \in Lease
    BY <1>0, <2>1 DEF Refreshed, Lease, Operation
  <2>3. NewLease(op) \in { Refreshed(leases[op.kind], op.at),
            [Refreshed(leases[op.kind], op.at) EXCEPT !.expires = op.at + op.duration]}
    BY <1>3 DEF NewLease, Heartbeats
  <2>4. NewLease(op).revision = leases[op.kind].revision
    BY <2>2, <2>3 DEF Lease
  <2>5. NewLease(op) # NoLease
    <3>1. NewLease(op) \in Slot /\ DOMAIN NewLease(op) = DOMAIN leases[op.kind]
      BY <2>1, <2>2, <2>3, NewLeaseType DEF Lease
    <3>2. CASE op.name = "renew"
      <4>1. op.duration \in Nat
        BY <3>2, DurationsAssumption DEF TypeInv, OpAdmitted, Grants
      <4>2. [Refreshed(leases[op.kind], op.at) EXCEPT !.expires = op.at + op.duration] \in Lease
        BY <1>0, <2>2, <4>1 DEF Lease, Operation
      <4> QED
        BY <2>2, <2>3, <4>2, NamesAssumption
    <3>3. CASE op.name \in Heartbeats
      <4>1. NewLease(op) = Refreshed(leases[op.kind], op.at)
        BY <3>3 DEF NewLease, Heartbeats
      <4> QED
        BY <2>2, <4>1, NamesAssumption
    <3> QED
      BY <1>3, <3>2, <3>3
  <2> QED
    BY <1>3, <2>1, <2>4, <2>5, NamesAssumption DEF Heartbeats
<1>4. CASE op.name \in {"snapshot", "clear", "enqueue", "promoted", "resume"}
  BY <1>4 DEF NewLease, Heartbeats
<1> QED
  BY <1>0, <1>1, <1>2, <1>3, <1>4 DEF LeaseOps, Writes, Heartbeats

\* No commit leaves a lease that was never granted.
LEMMA GrantedNext == TypeInv /\ GrantedInv /\ [Next]_vars => GrantedInv'
<1> SUFFICES ASSUME TypeInv, GrantedInv, [Next]_vars PROVE GrantedInv'
  OBVIOUS
<1>1. CASE Replace
  <2>1. /\ op # NoOp /\ op.kind \in Kinds /\ leases \in [Kinds -> Slot] /\ revision \in Nat
        /\ leases' = [leases EXCEPT ![op.kind] = NewLease(op)]
    BY <1>1 DEF Replace, LeasesAfter, TypeInv, TypeOK, Operation
  <2>2. NewLease(op) # NoLease => NewLease(op).revision # 0
    BY <2>1, NewGrant DEF GrantedInv
  <2> QED
    BY <2>1, <2>2 DEF GrantedInv
<1>2. CASE UNCHANGED leases
  BY <1>2 DEF GrantedInv
<1> QED
  BY <1>1, <1>2, OnlyReplaceChanges

\* The commit of an admitted operation is one step of the lifecycle, by the
\* kind of lease that the operation is about.
LEMMA LifecycleReplace ==
    ASSUME TypeInv, GrantedInv, Replace
    PROVE  Lifecycle!Next
<1> DEFINE lease == [k \in Kinds |-> Granted(k)]
           k == op.kind
<1>1. /\ op # NoOp /\ k \in Kinds /\ leases \in [Kinds -> Slot] /\ revision \in Nat
      /\ op.name \in LeaseOps \cup Writes \cup {"resume"}
      /\ revision' = revision + 1 /\ exec' = op.to
      /\ leases' = [leases EXCEPT ![k] = NewLease(op)]
  BY DEF Replace, LeasesAfter, TypeInv, TypeOK, Operation
<1>2. /\ \A j \in Kinds : lease[j] = 0 <=> leases[j] = NoLease
      /\ \A j \in Kinds \ {k} : lease'[j] = lease[j]
      /\ lease'[k] = IF NewLease(op) = NoLease THEN 0 ELSE NewLease(op).revision
  BY <1>1 DEF Granted, GrantedInv
<1>3. lease' = [lease EXCEPT ![k] = lease'[k]]
  BY <1>1, <1>2
<1>4. Lifecycle!Kinds = Kinds /\ Lifecycle!Terminal = Terminal
  BY DEF Lifecycle!Kinds, Kinds, Lifecycle!Terminal, Terminal
<1>5. Lifecycle!Advance
  BY <1>1 DEF Lifecycle!Advance
<1>6. ASSUME op.name \notin {"acquire", "replace_expired", "release"}
      PROVE  lease' = lease
  <2>1. lease'[k] = lease[k]
    BY <1>1, <1>2, <1>6, NewGrant DEF Granted
  <2> QED
    BY <1>3, <2>1
<1>7. CASE op.name \in {"acquire", "replace_expired"}
  <2>1. exec' = exec /\ exec \notin Terminal
    BY <1>1, <1>7 DEF TypeInv, OpAdmitted, LeaseOps, Grants
  <2>2. lease'[k] = revision + 1
    BY <1>1, <1>2, <1>7, NewGrant
  <2>3. lease[k] = 0 \/ k \in {"task_agent"}
    BY <1>1, <1>2, <1>7 DEF TypeInv, OpAdmitted
  <2>4. lease' = [lease EXCEPT ![k] = revision + 1]
    BY <1>3, <2>2
  <2>5. Lifecycle!Grant(k)
    BY <1>4, <1>5, <2>1, <2>3, <2>4 DEF Lifecycle!Grant
  <2> QED
    BY <1>5, <1>1, <1>4, <2>5 DEF Lifecycle!Next
<1>8. CASE op.name = "renew"
  <2>1. exec' = exec /\ exec \notin Terminal /\ leases[k] # NoLease
    BY <1>1, <1>8 DEF TypeInv, OpAdmitted, LeaseOps, Grants, Presented, Held
  <2>2. lease' = lease /\ lease[k] # 0
    BY <1>1, <1>2, <1>6, <1>8, <2>1
  <2>3. Lifecycle!Renew(k)
    BY <1>4, <1>5, <2>1, <2>2 DEF Lifecycle!Renew
  <2> QED
    BY <1>5, <1>1, <1>4, <2>3 DEF Lifecycle!Next
<1>9. CASE op.name = "release"
  <2>1. exec' = exec /\ leases[k] # NoLease
    BY <1>1, <1>9 DEF TypeInv, OpAdmitted, LeaseOps, Presented, Held
  <2>2. lease'[k] = 0 /\ lease[k] # 0
    BY <1>1, <1>2, <1>9, <2>1, NewGrant
  <2>3. lease' = [lease EXCEPT ![k] = 0]
    BY <1>3, <2>2
  <2>4. Lifecycle!Release(k)
    BY <1>5, <2>1, <2>2, <2>3 DEF Lifecycle!Release
  <2> QED
    BY <1>5, <1>1, <1>4, <2>4 DEF Lifecycle!Next
<1>10. CASE op.name \in Writes
  <2>1. /\ leases[k] # NoLease /\ Leads(op.name, op.to) /\ k = LeaseKindOf(op.name)
    BY <1>1, <1>10 DEF TypeInv, OpAdmitted, Presented, Held
  <2>2. lease' = lease /\ lease[k] # 0
    BY <1>1, <1>2, <1>6, <1>10, <2>1 DEF Writes
  <2>3. CASE op.name = "promoted"
    <3>1. /\ exec = "publication_queued" /\ exec' = "PROMOTED" /\ k \in {"publication"}
      BY <1>1, <2>1, <2>3 DEF Leads, LeaseKindOf
    <3>2. Lifecycle!Promote(k)
      BY <1>5, <2>2, <3>1 DEF Lifecycle!Promote
    <3> QED
      BY <1>5, <1>1, <1>4, <3>2 DEF Lifecycle!Next
  <2>4. CASE op.name # "promoted"
    <3>1. k \in {"task_agent"}
      BY <2>1, <2>4 DEF LeaseKindOf
    <3>2. Lifecycle!Leads(op.to) /\ op.to \in {"running", "publication_queued", "STOPPED"}
      BY <1>10, <2>1, <2>4 DEF Leads, Writes, Lifecycle!Leads, Lifecycle!Terminal, Terminal
    <3>3. Lifecycle!Write(k, op.to)
      BY <1>1, <1>5, <2>2, <3>1, <3>2 DEF Lifecycle!Write
    <3> QED
      BY <1>5, <1>1, <1>4, <3>2, <3>3 DEF Lifecycle!Next
  <2> QED
    BY <2>3, <2>4
<1>11. CASE op.name = "resume"
  <2>1. exec = "STOPPED" /\ exec' = "running" /\ \A j \in Kinds : leases[j] = NoLease
    BY <1>1, <1>11 DEF TypeInv, OpAdmitted
  <2>2. lease' = lease /\ \A j \in Kinds : lease[j] = 0
    BY <1>2, <1>6, <1>11, <2>1
  <2>3. Lifecycle!Resume
    BY <1>4, <1>5, <2>1, <2>2 DEF Lifecycle!Resume
  <2> QED
    BY <1>5, <2>3 DEF Lifecycle!Next
<1> QED
  BY <1>1, <1>7, <1>8, <1>9, <1>10, <1>11 DEF LeaseOps

(* The tracker of this module implements TrackerLifecycle: its admissions,  *)
(* aborts, crashes and clock steps are stutters, and every replacement of   *)
(* the file, acknowledged or not, is one step of it.                        *)
THEOREM PromiseCorrect == Spec => KeepsLifecycle
<1>1. Init => GrantedInv /\ Lifecycle!Init
  BY DEF Init, GrantedInv, Granted, Lifecycle!Init, Lifecycle!Kinds, Kinds
<1>2. TypeInv /\ GrantedInv /\ [Next]_vars => [Lifecycle!Next]_(Lifecycle!vars)
  <2> SUFFICES ASSUME TypeInv, GrantedInv, [Next]_vars, ~ Lifecycle!Next
               PROVE  UNCHANGED Lifecycle!vars
    OBVIOUS
  <2>1. UNCHANGED <<revision, exec, leases>>
    BY LifecycleReplace, OnlyReplaceChanges
  <2> QED
    BY <2>1 DEF Lifecycle!vars, Granted
<1> QED
  BY <1>1, <1>2, TypeInit, TypeNext, GrantedNext, PTL DEF Spec, KeepsLifecycle, Lifecycle!Spec

=============================================================================

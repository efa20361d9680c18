---------------------------- MODULE TrackerLeases ----------------------------
(***************************************************************************)
(* One workbook tracker: its revision, its execution state, its leases and *)
(* the retained history of lease operations.                               *)
(*                                                                         *)
(* Every mutation runs under an exclusive flock on "<tracker>.lock",       *)
(* compares the caller's expected revision and hash with the bytes on      *)
(* disk, checks the caller's lease, builds the new document, and replaces  *)
(* the file only if a second reading of the clock is before the deadline.  *)
(* An operation is therefore two steps here: its admission (the lock is    *)
(* taken and every check passes) and its commit.  Between them the clock   *)
(* moves and the process may die, but no other operation runs.             *)
(*                                                                         *)
(* A revision stands for the exact bytes of that revision: no file is ever *)
(* replaced without increasing it, so the revision and hash comparisons of *)
(* the code are one comparison here.  The lanes, bindings and notes of the *)
(* document are the subject of LanePipeline and NotesTransactions.         *)
(***************************************************************************)
EXTENDS Integers, Sequences, FiniteSets

CONSTANTS
    Owners,           \* processes that operate on the tracker
    Durations,        \* lease durations the root policy accepts
    MaxReplacements,  \* expired task-agent replacements the authority allows
    StepBack,         \* how far time.time_ns may be set back in one step
    MaxClock,         \* bound of the model on the clock
    MaxRevision,      \* bound of the model on the tracker's revision
    MaxEvents,        \* bound of the model on the retained lease operations
    NoLease,          \* an unoccupied lease slot
    NoOp              \* nobody holds the tracker's lock

ASSUME DurationsAssumption == Durations \subseteq Nat \ {0}
ASSUME BoundsAssumption ==
    /\ MaxReplacements \in Nat
    /\ StepBack \in Nat
    /\ MaxClock \in Nat
    /\ MaxRevision \in Nat
    /\ MaxEvents \in Nat

Kinds == {"task_agent", "publication"}
Terminal == {"STOPPED", "PROMOTED"}
ExecStates == {"queued", "running", "publication_queued"} \cup Terminal

LeaseOps == {"acquire", "renew", "release", "replace_expired"}
Writes == {"complete", "begin_repair", "record_failure", "snapshot",
           "clear", "enqueue", "promoted"}
\* The writes that go through cas_mutate or _failure_after refresh the heartbeat.
Heartbeats == {"complete", "begin_repair", "record_failure"}

Lease == [owner : Owners, token : Nat, acquired : Nat, heartbeat : Nat,
          expires : Nat, revision : Nat]
Slot == Lease \cup {NoLease}
Event == [operation : LeaseOps, kind : Kinds, revision : Nat, at : Nat,
          before : Slot, after : Slot]
\* Who asks for an operation, and whose lease it presents or will have.
Operation == [by : Owners, owner : Owners, name : LeaseOps \cup Writes \cup {"resume"},
              kind : Kinds, token : Nat, duration : Durations \cup {0},
              at : Nat, to : ExecStates]

ASSUME NamesAssumption == NoLease \notin Lease /\ NoOp \notin Operation

VARIABLES
    clock,      \* wall clock, read by every operation
    revision,   \* tracker["revision"]
    exec,       \* tracker["execution_state"]
    leases,     \* tracker["leases"]
    handoffs,   \* the lease events of tracker["handoffs"]
    minted,     \* number of random lease tokens minted so far
    alive,      \* owners whose process runs (and holds its worker locks)
    current,    \* owners whose last reading is of the tracker as it is
    known,      \* the lease tokens each owner was handed
    op          \* the operation that holds the tracker's lock

tracker == <<revision, exec, leases, handoffs>>
vars == <<clock, revision, exec, leases, handoffs, minted, alive, current, known, op>>

-----------------------------------------------------------------------------
(* Leases and their retained history.                                       *)

\* Mutant: the token is not compared.
HeldByName(l, w, tok) == l # NoLease /\ l.owner = w

Held(l, w, tok) == l # NoLease /\ l.owner = w /\ l.token = tok

LiveAt(l, t) == l.acquired <= l.heartbeat /\ l.heartbeat <= t /\ t < l.expires

\* A recorded lease and the live one differ at most in a later heartbeat.
SameLease(recorded, live) ==
    IF recorded = NoLease \/ live = NoLease
    THEN recorded = live
    ELSE /\ recorded.owner = live.owner
         /\ recorded.token = live.token
         /\ recorded.acquired = live.acquired
         /\ recorded.expires = live.expires
         /\ recorded.revision = live.revision
         /\ recorded.heartbeat <= live.heartbeat
         /\ live.heartbeat < live.expires

\* Event i is the last of the first n that is about slot k.
LastOn(hs, n, k, i) == hs[i].kind = k /\ \A j \in (i + 1)..n : hs[j].kind # k

\* What the first n events leave in slot k.
Recorded(hs, n, k) ==
    IF \E i \in 1..n : LastOn(hs, n, k, i)
    THEN hs[CHOOSE i \in 1..n : LastOn(hs, n, k, i)].after
    ELSE NoLease

Replaced(hs) == {i \in DOMAIN hs : hs[i].operation = "replace_expired"}

ValidEvent(e) ==
    CASE e.operation = "acquire" -> e.before = NoLease
      [] e.operation = "renew" ->
            /\ e.before # NoLease /\ e.after # NoLease
            /\ e.before.owner = e.after.owner
            /\ e.before.token = e.after.token
            /\ e.before.acquired = e.after.acquired
            /\ e.before.revision = e.after.revision
      [] e.operation = "release" -> e.before # NoLease /\ e.after = NoLease
      [] e.operation = "replace_expired" ->
            /\ e.kind = "task_agent"
            /\ e.before # NoLease /\ e.after # NoLease
            /\ e.before.expires <= e.at

\* The replay of validate_lifecycle: it accepts history hs for leases ls.
HistoryBinds(ls, hs, rev) ==
    /\ \A i \in DOMAIN hs :
          /\ ValidEvent(hs[i])
          /\ SameLease(Recorded(hs, i - 1, hs[i].kind), hs[i].before)
          /\ hs[i].revision <= rev
          /\ \A j \in 1..(i - 1) : hs[j].revision < hs[i].revision
    /\ Cardinality(Replaced(hs)) <= MaxReplacements
    /\ \A k \in Kinds : SameLease(Recorded(hs, Len(hs), k), ls[k])

\* validate_tracker on the leases of a document of revision rev.
ValidLeases(ls, rev) ==
    \A k \in Kinds : ls[k] # NoLease =>
        /\ ls[k].acquired <= ls[k].heartbeat
        /\ ls[k].heartbeat < ls[k].expires
        /\ ls[k].revision <= rev

-----------------------------------------------------------------------------
(* The document an admitted operation writes.                               *)

Refreshed(l, t) == [l EXCEPT !.heartbeat = t]

NewLease(o) ==
    CASE o.name \in {"acquire", "replace_expired"} ->
            [owner |-> o.owner, token |-> minted + 1, acquired |-> o.at,
             heartbeat |-> o.at, expires |-> o.at + o.duration,
             revision |-> revision + 1]
      [] o.name = "renew" ->
            [Refreshed(leases[o.kind], o.at) EXCEPT !.expires = o.at + o.duration]
      [] o.name \in Heartbeats -> Refreshed(leases[o.kind], o.at)
      [] o.name = "release" -> NoLease
      [] OTHER -> leases[o.kind]

LeasesAfter(o) == [leases EXCEPT ![o.kind] = NewLease(o)]

HandoffsAfter(o) ==
    IF o.name \in LeaseOps
    THEN Append(handoffs,
                [operation |-> o.name, kind |-> o.kind, revision |-> revision + 1,
                 at |-> o.at, before |-> leases[o.kind], after |-> NewLease(o)])
    ELSE handoffs

-----------------------------------------------------------------------------
(* Admission: the checks made under the lock before anything is written.    *)

LeaseKindOf(name) == IF name = "promoted" THEN "publication" ELSE "task_agent"

\* Mutant: a terminal tracker can be worked on again.
LeadsOutOfStopped(name, to) ==
    \/ name = "complete" /\ exec # "PROMOTED" /\ to = "running"
    \/ name = "record_failure" /\ exec \notin Terminal /\ to = "STOPPED"

\* Which execution state each owned write may leave behind.
Leads(name, to) ==
    CASE name = "complete" -> exec \notin Terminal /\ to = "running"
      [] name = "begin_repair" -> exec = "running" /\ to = "running"
      [] name = "record_failure" ->
            \/ exec = "running" /\ to = "running"
            \/ exec \in {"running", "publication_queued"} /\ to = "STOPPED"
      [] name = "snapshot" -> exec \in {"running", "STOPPED"} /\ to = exec
      [] name = "clear" -> exec = "running" /\ to = "running"
      [] name = "enqueue" ->
            exec \in {"running", "publication_queued"} /\ to = "publication_queued"
      [] name = "promoted" -> exec = "publication_queued" /\ to = "PROMOTED"

\* The stopped-owner validator needs the slot and worker locks of the old owner.
ProvedStopped(l) == l.owner \notin alive

AdmitAcquire(o) ==
    /\ o.name = "acquire"
    /\ exec \notin Terminal
    /\ leases[o.kind] = NoLease
    /\ o.duration \in Durations
    /\ HistoryBinds(leases, handoffs, revision)

\* Mutant: the lease need not have expired.
AdmitReplaceActive(o) ==
    LET old == leases["task_agent"]
    IN  /\ o.name = "replace_expired" /\ o.kind = "task_agent"
        /\ exec \notin Terminal
        /\ old # NoLease
        /\ Cardinality(Replaced(handoffs)) < MaxReplacements
        /\ ProvedStopped(old)
        /\ o.duration \in Durations

AdmitReplace(o) ==
    LET old == leases["task_agent"]
    IN  /\ o.name = "replace_expired" /\ o.kind = "task_agent"
        /\ exec \notin Terminal
        /\ old # NoLease
        /\ old.expires <= o.at
        /\ Cardinality(Replaced(handoffs)) < MaxReplacements
        /\ ProvedStopped(old)
        /\ o.duration \in Durations
        /\ HistoryBinds(leases, handoffs, revision)

AdmitRenew(o) ==
    LET old == leases[o.kind]
    IN  /\ o.name = "renew"
        /\ exec \notin Terminal
        /\ Held(old, o.owner, o.token)
        /\ old.heartbeat <= o.at /\ o.at < old.expires
        /\ o.duration \in Durations
        /\ old.expires < o.at + o.duration
        /\ HistoryBinds(leases, handoffs, revision)

\* The work under a lease is over: an expired one may be released here, and one
\* that has not expired is released in place of its owner only here.
Ended(kind) == exec = "PROMOTED" \/ (kind = "task_agent" /\ exec = "STOPPED")

AdmitRelease(o) ==
    LET old == leases[o.kind]
    IN  /\ o.name = "release" /\ o.duration = 0
        /\ Held(old, o.owner, o.token)
        /\ old.heartbeat <= o.at
        /\ old.expires <= o.at => Ended(o.kind) /\ ProvedStopped(old)
        /\ HistoryBinds(leases, handoffs, revision)

AdmitWrite(o) ==
    /\ o.name \in Writes /\ o.duration = 0
    /\ o.kind = LeaseKindOf(o.name)
    /\ Held(leases[o.kind], o.owner, o.token)
    /\ LiveAt(leases[o.kind], o.at)
    /\ Leads(o.name, o.to)

AdmitResume(o) ==
    /\ o.name = "resume" /\ o.kind = "task_agent" /\ o.duration = 0
    /\ exec = "STOPPED" /\ o.to = "running"
    /\ \A k \in Kinds : leases[k] = NoLease
    /\ HistoryBinds(leases, handoffs, revision)

Admissible(o) ==
    \/ o.to = exec /\ (AdmitAcquire(o) \/ AdmitReplace(o) \/ AdmitRenew(o) \/ AdmitRelease(o))
    \/ AdmitWrite(o)
    \/ AdmitResume(o)

\* The clock reading just before the replacement of the file.
InTime(o) ==
    CASE o.name \in {"acquire", "replace_expired"} -> clock < o.at + o.duration
      [] o.name = "resume" -> TRUE
      [] o.name = "release" ->
            o.at < leases[o.kind].expires => clock < leases[o.kind].expires
      [] OTHER -> clock < leases[o.kind].expires

-----------------------------------------------------------------------------
\* Mutant: a new tracker gets the initial state of a lane.
InitPending ==
    /\ clock = 0 /\ revision = 0 /\ minted = 0
    /\ exec = "pending"
    /\ leases = [k \in Kinds |-> NoLease]
    /\ handoffs = <<>>
    /\ alive = Owners
    /\ current = Owners
    /\ known = [w \in Owners |-> [k \in Kinds |-> 0]]
    /\ op = NoOp

Init ==
    /\ clock = 0
    /\ revision = 0
    /\ exec = "queued"
    /\ leases = [k \in Kinds |-> NoLease]
    /\ handoffs = <<>>
    /\ minted = 0
    /\ alive = Owners
    /\ current = Owners
    /\ known = [w \in Owners |-> [k \in Kinds |-> 0]]
    /\ op = NoOp

\* A process reads the tracker for its revision; one that recovers a lease in
\* its own name (adopt) takes the token from there, one that goes on working
\* keeps the token of its checkpoint.
ReadTracker(w, adopt) ==
    /\ w \in alive
    /\ op # NoOp => op.by # w
    /\ current' = current \cup {w}
    /\ known' = [known EXCEPT ![w] = [k \in Kinds |->
                    IF adopt /\ leases[k] # NoLease /\ leases[k].owner = w
                    THEN leases[k].token ELSE known[w][k]]]
    /\ UNCHANGED <<clock, tracker, minted, alive, op>>

\* What w asks for, with the token that it has.
Request(w, name, kind, d, to) ==
    [by |-> w, owner |-> w, name |-> name, kind |-> kind, token |-> known[w][kind],
     duration |-> d, at |-> clock, to |-> to]

\* The release of a lease by w in place of its owner, with the token of the
\* tracker: that of a worker's live lease by the coordinator of its publication
\* or by the root that stopped it, or of an expired one.
ReleaseFor(w, kind) ==
    [by |-> w, owner |-> leases[kind].owner, name |-> "release", kind |-> kind,
     token |-> leases[kind].token, duration |-> 0, at |-> clock, to |-> exec]

\* The requests that w can make now.
Requested(w, o) ==
    \/ \E name \in LeaseOps, kind \in Kinds, d \in Durations \cup {0} :
          o = Request(w, name, kind, d, exec)
    \/ \E name \in Writes \cup {"resume"}, to \in ExecStates :
          o = Request(w, name, LeaseKindOf(name), 0, to)
    \/ \E kind \in Kinds : leases[kind] # NoLease /\ Ended(kind) /\ o = ReleaseFor(w, kind)

\* The lock is taken, the expected revision matches, every check passes.
Admit(w) ==
    /\ op = NoOp
    /\ w \in alive \cap current
    /\ revision < MaxRevision
    /\ Requested(w, op')
    /\ op'.name \in LeaseOps => Len(handoffs) < MaxEvents
    /\ Admissible(op')
    /\ UNCHANGED <<clock, tracker, minted, alive, current, known>>

Replace ==
    /\ op # NoOp
    /\ InTime(op)
    /\ ValidLeases(LeasesAfter(op), revision + 1)
    /\ op.name \in LeaseOps =>
          HistoryBinds(LeasesAfter(op), HandoffsAfter(op), revision + 1)
    /\ revision' = revision + 1
    /\ exec' = op.to
    /\ leases' = LeasesAfter(op)
    /\ handoffs' = HandoffsAfter(op)
    /\ minted' = IF op.name \in {"acquire", "replace_expired"} THEN minted + 1 ELSE minted
    /\ op' = NoOp
    /\ UNCHANGED <<clock, alive>>

\* The caller gets the new revision back, and the token when one was minted.
Commit ==
    /\ Replace
    /\ current' = {op.by}
    /\ known' = IF op.name \in {"acquire", "replace_expired"}
                THEN [known EXCEPT ![op.by][op.kind] = minted + 1]
                ELSE known

\* An exception after os.replace: the write is there, the caller was not told.
CommitUnacknowledged ==
    /\ Replace
    /\ current' = {}
    /\ UNCHANGED known

\* Any exception before os.replace, the missed deadline included.
Abort ==
    /\ op # NoOp
    /\ op' = NoOp
    /\ UNCHANGED <<clock, tracker, minted, alive, current, known>>

\* Death of a process releases its locks and forgets what it read and was doing.
Crash(w) ==
    /\ w \in alive
    /\ alive' = alive \ {w}
    /\ current' = current \ {w}
    /\ op' = IF op # NoOp /\ op.by = w THEN NoOp ELSE op
    /\ UNCHANGED <<clock, tracker, minted, known>>

\* An operation that ends an expired lease.
Displaces(o) ==
    o.name \in {"replace_expired", "release"} /\ leases[o.kind].expires <= o.at

\* Mutant: the worker locks are released once the owner was seen stopped.
RestartUnlocked(w) ==
    /\ w \notin alive
    /\ alive' = alive \cup {w}
    /\ UNCHANGED <<clock, tracker, minted, current, known, op>>

\* A restarted process has the tokens of its checkpoint files, and needs its
\* locks, which a takeover or the release of its expired lease holds while it is
\* made.
Restart(w) ==
    /\ w \notin alive
    /\ ~ (op # NoOp /\ Displaces(op) /\ leases[op.kind].owner = w)
    /\ alive' = alive \cup {w}
    /\ UNCHANGED <<clock, tracker, minted, current, known, op>>

ClockMoves ==
    /\ \E t \in 0..MaxClock :
          /\ clock - StepBack <= t /\ t <= clock + 1 /\ t # clock
          /\ clock' = t
    /\ UNCHANGED <<tracker, minted, alive, current, known, op>>

Next ==
    \/ \E w \in Owners :
          \/ \E adopt \in BOOLEAN : ReadTracker(w, adopt)
          \/ Admit(w) \/ Crash(w) \/ Restart(w)
    \/ Commit
    \/ CommitUnacknowledged
    \/ Abort
    \/ ClockMoves

Spec == Init /\ [][Next]_vars

-----------------------------------------------------------------------------
\* The tracker has the values validate_tracker accepts, and what is in flight is
\* a lease operation, a write or a resumption.
TypeOK ==
    /\ clock \in Nat
    /\ revision \in Nat
    /\ exec \in ExecStates
    /\ leases \in [Kinds -> Slot]
    /\ handoffs \in Seq(Event)
    /\ minted \in Nat
    /\ alive \subseteq Owners
    /\ current \subseteq Owners
    /\ known \in [Owners -> [Kinds -> Nat]]
    /\ op \in Operation \cup {NoOp}

\* Heartbeats change a lease without an event, and cas_mutate does not replay
\* the history: whatever the writes, the tracker never reaches a document that
\* validate_lifecycle refuses (every later lease operation would then fail).
LifecycleValid ==
    /\ ValidLeases(leases, revision)
    /\ HistoryBinds(leases, handoffs, revision)

\* The document is validated, and its history replayed, as the last check.  The
\* guards made before building it already imply that both accept it: nothing
\* that was admitted is refused for the document it builds.
AdmittedReplays ==
    op # NoOp =>
        /\ ValidLeases(LeasesAfter(op), revision + 1)
        /\ op.name \in LeaseOps =>
              HistoryBinds(LeasesAfter(op), HandoffsAfter(op), revision + 1)

Retired(k) ==
    {handoffs[i].before.token : i \in {j \in DOMAIN handoffs :
        handoffs[j].kind = k /\ handoffs[j].operation \in {"release", "replace_expired"}}}

Presented == Writes \cup {"renew", "release"}

\* No write, whatever was admitted before it, leaves a tracker that the next
\* operation refuses (lease_operation of harbor_tracker_lifecycle.py, cas_mutate
\* of harbor_tracker.py).
HistoryReplays == LifecycleValid /\ AdmittedReplays

\* Fencing.  A process that kept the token of a lease that was released or
\* taken over (a crashed worker that restarts, a caller that never learned of
\* its new lease) changes nothing with it, even when the current lease is in
\* its own name again.
Fenced ==
    op # NoOp /\ op.name \in Presented => op.token \notin Retired(op.kind)

\* An expired lease is taken over or released only while its owner holds its
\* worker or publication locks no longer, and that owner cannot come back
\* between the proof and the commit (prior_owner_stopped_validator).
NoTakeoverFromRunningOwner ==
    op # NoOp /\ Displaces(op) =>
        leases[op.kind] # NoLease /\ leases[op.kind].owner \notin alive

\* Terminal states: a promoted tracker stays promoted, no lease is granted or
\* extended on a terminal one, and a stopped one resumes only when every lease
\* was released.
TerminalFrozen ==
    [][/\ exec = "PROMOTED" => exec' = "PROMOTED"
       /\ exec = "STOPPED" /\ exec' # exec =>
             exec' = "running" /\ \A k \in Kinds : leases[k] = NoLease
       /\ exec \in Terminal => \A k \in Kinds :
             leases'[k] # NoLease =>
                 leases[k] # NoLease /\ leases'[k].token = leases[k].token
                 /\ leases'[k].expires = leases[k].expires]_vars

\* A lease is known by the revision it was granted in, which its renewals keep.
Granted(k) == IF leases[k] = NoLease THEN 0 ELSE leases[k].revision

Lifecycle == INSTANCE TrackerLifecycle WITH
    WorkLeases <- {"task_agent"},
    PublicationLeases <- {"publication"},
    lease <- [k \in Kinds |-> Granted(k)]

\* Though every operation is admitted in one step and committed in another,
\* with crashes, clock steps and late callers in between, what is on disk
\* changes as TrackerLifecycle promises: a lease that was checked at admission
\* is still there when the document is replaced.
KeepsLifecycle == Lifecycle!Spec
=============================================================================

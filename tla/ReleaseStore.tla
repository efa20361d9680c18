----------------------------- MODULE ReleaseStore -----------------------------
(***************************************************************************)
(* The release store of one workbook and the publication requests that     *)
(* write it: publish_or_resume, publish_release, the freezing of the       *)
(* legacy state before the first release, and the compatibility copy of    *)
(* the current task at the output path.                                    *)
(*                                                                         *)
(* Readings of the pointer outside the store's flock, the steps under it   *)
(* and the file replacements are separate actions; a request may die after *)
(* any of them and is resumed by hand from its journal.  What a request    *)
(* publishes (source, segmentation and task generation) is named by the    *)
(* request; a release is the sequence of requests that led to it, as its   *)
(* hash covers the release before it.                                      *)
(***************************************************************************)
EXTENDS Integers, Sequences, FiniteSets

CONSTANTS
    Requests,    \* publication requests, each with a tuple of its own
    MaxStarts,   \* bound of the model on the starts of a request
    Nobody,      \* nobody holds the store's lock
    Absent,      \* nothing at the output path
    Original     \* what was at the output path before any of the requests

ASSUME NamesAssumption ==
    /\ {Absent, Original} \cap Requests = {}
    /\ Absent # Original /\ Nobody \notin Requests
ASSUME MaxStartsAssumption == MaxStarts \in Nat

VARIABLES
    pointer,    \* current-release.json
    releases,   \* the directories of releases/
    snapshot,   \* the legacy snapshot: nothing, its directory, its pointer
    holder,     \* who holds .current-release.lock
    output,     \* the compatibility copy at the output path
    backups,    \* what was moved aside from the output path
    pc,         \* where each request is
    expected,   \* the current release the request was qualified against
    initial,    \* what was at the output path then
    intended,   \* the request's release-intent.json exists
    resuming,   \* it existed when this start read it
    copied,     \* the coordinator's own backup name is taken
    starts,     \* how often the request was started
    overlapped, \* history: a request was started while another one ran
    compared,   \* history: the output that the coordinator compared last
    overtaken   \* history: what was moved aside was not what was compared

vars == <<pointer, releases, snapshot, holder, output, backups, pc, expected,
          initial, intended, resuming, copied, starts, overlapped, compared, overtaken>>
store == <<pointer, releases, snapshot, output, backups>>
history == <<compared, overtaken>>
journal == <<expected, initial, intended, resuming, copied, starts, overlapped, history>>

Steps == {"new", "intent", "look", "freeze", "freezing", "lock", "check", "stage",
          "point", "backup", "copy", "unlock", "deliver", "displace", "redeliver",
          "report", "done", "refused", "down"}
Idle == {"new", "done", "refused", "down"}

Release == Seq(Requests)
Output == Requests \cup {Original, Absent}

Goto(r, from, to) == pc[r] = from /\ pc' = [pc EXCEPT ![r] = to]
Refuse(r, from) == Goto(r, from, "refused")
Moved == IF output = Absent THEN backups ELSE backups \cup {output}

-----------------------------------------------------------------------------
\* Mutant: the snapshot is not among those the freezing knows.
InitUnknown ==
    /\ pointer = <<>> /\ releases = {} /\ snapshot = "absent" /\ holder = Nobody
    /\ output \in {Original, Absent} /\ backups = {}
    /\ pc = [r \in Requests |-> "new"]
    /\ expected = [r \in Requests |-> <<>>]
    /\ initial = [r \in Requests |-> Absent]
    /\ intended = [r \in Requests |-> FALSE]
    /\ resuming = [r \in Requests |-> FALSE]
    /\ copied = [r \in Requests |-> FALSE]
    /\ starts = [r \in Requests |-> 0]
    /\ overlapped = FALSE
    /\ compared = [r \in Requests |-> Absent]
    /\ overtaken = FALSE

Init ==
    /\ pointer = <<>>
    /\ releases = {}
    /\ snapshot = "none"
    /\ holder = Nobody
    /\ output \in {Original, Absent}
    /\ backups = {}
    /\ pc = [r \in Requests |-> "new"]
    /\ expected = [r \in Requests |-> <<>>]
    /\ initial = [r \in Requests |-> Absent]
    /\ intended = [r \in Requests |-> FALSE]
    /\ resuming = [r \in Requests |-> FALSE]
    /\ copied = [r \in Requests |-> FALSE]
    /\ starts = [r \in Requests |-> 0]
    /\ overlapped = FALSE
    /\ compared = [r \in Requests |-> Absent]
    /\ overtaken = FALSE

\* A request holds the lock of its own queue for its whole run; requests of
\* two queues may run at the same time.
MayStart(r) ==
    /\ starts[r] < MaxStarts
    /\ overlapped' = (overlapped \/ \E q \in Requests : pc[q] \notin Idle)

\* A fresh invocation: the queued tracker names the release to succeed.
Begin(r) ==
    /\ Goto(r, "new", "intent")
    /\ MayStart(r)
    /\ starts' = [starts EXCEPT ![r] = @ + 1]
    /\ expected' = [expected EXCEPT ![r] = pointer]
    /\ initial' = [initial EXCEPT ![r] = output]
    /\ UNCHANGED <<store, holder, intended, resuming, copied, history>>

\* An explicit resume of the retained intent.
Resume(r) ==
    /\ Goto(r, "down", "intent") \/ Goto(r, "refused", "intent")
    /\ MayStart(r)
    /\ starts' = [starts EXCEPT ![r] = @ + 1]
    /\ UNCHANGED <<store, holder, expected, initial, intended, resuming, copied, history>>

\* The task generation and the release intent are written before anything is
\* published, and the output must be as it was or as it will be.
WriteIntent(r) ==
    /\ pc[r] = "intent"
    /\ IF intended[r] \/ output = initial[r]
       THEN /\ resuming' = [resuming EXCEPT ![r] = intended[r]]
            /\ intended' = [intended EXCEPT ![r] = TRUE]
       ELSE UNCHANGED <<resuming, intended>>
    /\ pc' = [pc EXCEPT ![r] =
            IF output = initial[r] \/ (intended[r] /\ output = r) THEN "look" ELSE "refused"]
    /\ UNCHANGED <<store, holder, expected, initial, copied, starts, overlapped, history>>

\* Mutant: the release and the one before it are compared the wrong way round.
OwnReleaseSwapped(r) == expected[r] = Append(pointer, r)

\* The current release is the one an earlier start of r published.
OwnRelease(r) == pointer = Append(expected[r], r)

\* publish_or_resume reads the pointer without the lock.
Look(r) ==
    /\ pc[r] = "look"
    /\ pc' = [pc EXCEPT ![r] =
            IF pointer = expected[r]
            THEN IF pointer = <<>> THEN "freeze" ELSE "lock"
            ELSE IF resuming[r] /\ OwnRelease(r) THEN "deliver"
            ELSE "refused"]
    /\ UNCHANGED <<store, holder, journal>>

\* Freezing the legacy state: refused after the first release, nothing to do
\* when the snapshot has its pointer.
Freeze(r) ==
    /\ pc[r] = "freeze" /\ holder = Nobody
    /\ IF pointer # <<>> \/ snapshot = "directory"
       THEN pc' = [pc EXCEPT ![r] = "refused"] /\ UNCHANGED <<snapshot, holder>>
       ELSE IF snapshot = "frozen"
       THEN pc' = [pc EXCEPT ![r] = "lock"] /\ UNCHANGED <<snapshot, holder>>
       ELSE /\ pc' = [pc EXCEPT ![r] = "freezing"]
            /\ snapshot' = "directory"
            /\ holder' = r
    /\ UNCHANGED <<pointer, releases, output, backups, journal>>

FreezePointer(r) ==
    /\ Goto(r, "freezing", "lock")
    /\ snapshot' = "frozen"
    /\ holder' = Nobody
    /\ UNCHANGED <<pointer, releases, output, backups, journal>>

Lock(r) ==
    /\ Goto(r, "lock", "check")
    /\ holder = Nobody
    /\ holder' = r
    /\ UNCHANGED <<store, journal>>

\* Mutant: the pointer read before the lock was taken is trusted.
CheckNothing(r) ==
    /\ Goto(r, "check", "stage")
    /\ UNCHANGED <<store, holder, journal>>

\* The predecessor is validated and compared with the expected release; the
\* first release binds the frozen legacy snapshot.
Check(r) ==
    /\ pc[r] = "check"
    /\ IF /\ pointer = expected[r]
          /\ pointer # <<>> => pointer \in releases
          /\ pointer = <<>> => snapshot = "frozen"
       THEN pc' = [pc EXCEPT ![r] = "stage"] /\ UNCHANGED holder
       ELSE pc' = [pc EXCEPT ![r] = "refused"] /\ holder' = Nobody
    /\ UNCHANGED <<store, journal>>

\* The immutable release; the same one may be there from an earlier start.
Stage(r) ==
    /\ Goto(r, "stage", "point")
    /\ releases' = releases \cup {Append(pointer, r)}
    /\ UNCHANGED <<pointer, snapshot, output, backups, holder, journal>>

\* The release is validated again and the pointer atomically replaced.
Point(r) ==
    /\ Goto(r, "point", "backup")
    /\ Append(pointer, r) \in releases
    /\ pointer' = Append(pointer, r)
    /\ UNCHANGED <<releases, snapshot, output, backups, holder, journal>>

\* _materialize_compatibility: the old copy is moved aside, the new one in.
Backup(r) ==
    /\ Goto(r, "backup", "copy")
    /\ backups' = Moved
    /\ output' = Absent
    /\ UNCHANGED <<pointer, releases, snapshot, holder, journal>>

\* os.replace of a directory fails when another one has come to the output.
Copy(r) ==
    /\ pc[r] = "copy"
    /\ IF output = Absent
       THEN /\ pc' = [pc EXCEPT ![r] = "unlock"] /\ output' = r
            /\ UNCHANGED holder
       ELSE /\ pc' = [pc EXCEPT ![r] = "refused"] /\ holder' = Nobody
            /\ UNCHANGED output
    /\ UNCHANGED <<pointer, releases, snapshot, backups, journal>>

Unlock(r) ==
    /\ Goto(r, "unlock", "deliver")
    /\ holder' = Nobody
    /\ UNCHANGED <<store, journal>>

\* Mutant: the coordinator does not compare the output with its initial state.
DeliverAnyway(r) ==
    /\ pc[r] = "deliver"
    /\ pc' = [pc EXCEPT ![r] = IF output = r THEN "report" ELSE "displace"]
    /\ compared' = [compared EXCEPT ![r] = output]
    /\ UNCHANGED <<store, holder, expected, initial, intended, resuming, copied, starts,
                   overlapped, overtaken>>

\* _output of the coordinator, outside the store's lock: the copy is there, or
\* it is to be made over what was there in the beginning, or the request stops.
Deliver(r) ==
    /\ pc[r] = "deliver"
    /\ pc' = [pc EXCEPT ![r] =
            IF output = r THEN "report"
            ELSE IF output = initial[r] /\ ~copied[r] THEN "displace"
            ELSE "refused"]
    /\ compared' = [compared EXCEPT ![r] = output]
    /\ UNCHANGED <<store, holder, expected, initial, intended, resuming, copied, starts,
                   overlapped, overtaken>>

\* The tree was copied beside the output in the meantime: what is at the output
\* by now is moved aside, and the tree moved in.
Displace(r) ==
    /\ Goto(r, "displace", "redeliver")
    /\ backups' = Moved
    /\ copied' = [copied EXCEPT ![r] = output # Absent]
    /\ output' = Absent
    /\ overtaken' = (overtaken \/ output # compared[r])
    /\ UNCHANGED <<pointer, releases, snapshot, holder, expected, initial, intended,
                   resuming, starts, overlapped, compared>>

Redeliver(r) ==
    /\ pc[r] = "redeliver"
    /\ IF output = Absent
       THEN pc' = [pc EXCEPT ![r] = "report"] /\ output' = r
       ELSE pc' = [pc EXCEPT ![r] = "refused"] /\ UNCHANGED output
    /\ UNCHANGED <<pointer, releases, snapshot, backups, holder, journal>>

\* The tracker is promoted and its leases released; the output is compared
\* once more before the result is written.
Report(r) ==
    /\ pc[r] = "report"
    /\ pc' = [pc EXCEPT ![r] = IF output = r THEN "done" ELSE "refused"]
    /\ UNCHANGED <<store, holder, journal>>

\* The process dies; the store's flock goes with it.
Crash(r) ==
    /\ pc[r] \notin Idle
    /\ pc' = [pc EXCEPT ![r] = "down"]
    /\ holder' = IF holder = r THEN Nobody ELSE holder
    /\ UNCHANGED <<store, journal>>

Work(r) ==
    \/ WriteIntent(r) \/ Look(r) \/ Freeze(r) \/ FreezePointer(r) \/ Lock(r) \/ Check(r)
    \/ Stage(r) \/ Point(r) \/ Backup(r) \/ Copy(r) \/ Unlock(r)
    \/ Deliver(r) \/ Displace(r) \/ Redeliver(r) \/ Report(r)

Next == \E r \in Requests : Begin(r) \/ Resume(r) \/ Work(r) \/ Crash(r)

Spec == Init /\ [][Next]_vars

-----------------------------------------------------------------------------
\* The pointer names a history of requests, and each request is at a point of
\* its program.
TypeOK ==
    /\ pointer \in Release
    /\ releases \subseteq Release
    /\ snapshot \in {"none", "directory", "frozen"}
    /\ holder \in Requests \cup {Nobody}
    /\ output \in Output
    /\ backups \subseteq Output \ {Absent}
    /\ pc \in [Requests -> Steps]
    /\ expected \in [Requests -> Release]
    /\ initial \in [Requests -> Output]
    /\ intended \in [Requests -> BOOLEAN]
    /\ resuming \in [Requests -> BOOLEAN]
    /\ copied \in [Requests -> BOOLEAN]
    /\ starts \in [Requests -> Nat]
    /\ overlapped \in BOOLEAN
    /\ compared \in [Requests -> Output]
    /\ overtaken \in BOOLEAN

Abstract == INSTANCE ReleasePointer WITH
    current <- pointer,
    basis <- expected,
    qualified <- {r \in Requests : pc[r] # "new"},
    reported <- {r \in Requests : pc[r] = "done"}

\* Whatever the interleaving of readings outside the lock, crashes and
\* resumptions, the store keeps the promise of ReleasePointer: a request
\* succeeds only the release it was qualified against, at most once, and is
\* reported only when it did.
KeepsThePromise == Abstract!Spec

\* A request that reported left its task at the output, where it stays until
\* a later release is current.
CurrentDelivered ==
    \A r \in Requests :
        pc[r] = "done" /\ pointer[Len(pointer)] = r => output = r

\* Nothing that was ever at the output is lost, the state before the first
\* request included: it is there still or it was moved aside.
OutputKept ==
    \A t \in Requests \cup {Original} :
        (IF t = Original THEN \E r \in Requests : initial[r] = Original ELSE pc[t] = "done")
            => output = t \/ t \in backups

\* The output is the task of the current release once that was reported, and
\* nothing it ever was is lost (_materialize_compatibility and _output).  The
\* store's lock does not cover a delivery of the coordinator: it puts an older
\* task back if another one comes to the output between its comparison and its
\* replacement, which the queue's lock is there to exclude (overtaken), and in
\* no other interleaving of requests, deaths and resumptions.
OutputSound == (overtaken \/ CurrentDelivered) /\ OutputKept

\* r moved the old output aside and its own task is not in yet.
HalfReplaced(r) ==
    pointer = Append(expected[r], r) /\ output = Absent /\ initial[r] # Absent

\* Another release became current, or something else came to the output.
Causes(r) ==
    \/ pointer \notin {expected[r], Append(expected[r], r)}
    \/ output \notin {initial[r], r} /\ ~HalfReplaced(r)

\* "Publish ... with an explicit prior-release CAS and safe resume"
\* (scripts/qualified_publication.py:1): a request is refused only because
\* another release became current or because something else is at the output,
\* never because an earlier start of it was interrupted.
RefusedForCause ==
    [][\A r \in Requests : pc[r] # "refused" /\ pc'[r] = "refused" => Causes(r)]_vars

\* So it is while requests run one after the other, but for two interruptions
\* that publish_or_resume and _output do not resume: that of the freezing of
\* the legacy state, and that of the replacement of the output, between the old
\* tree's move aside and the new one's move in.  Whatever other step died,
\* resuming it works.
SafeResume ==
    [][\A r \in Requests : pc[r] # "refused" /\ pc'[r] = "refused" =>
            \/ Causes(r)
            \/ overlapped
            \/ snapshot = "directory"
            \/ HalfReplaced(r)]_vars
=============================================================================

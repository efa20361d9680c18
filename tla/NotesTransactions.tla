--------------------------- MODULE NotesTransactions ---------------------------
(***************************************************************************)
(* The pair of files a workbook's state is kept in: the tracker and the    *)
(* agent notes rendered from it.  The writes that need both (a failure, a  *)
(* snapshot of its evidence, clear, resume, enqueue, promoted) prepare a   *)
(* journal entry, replace the notes, replace the tracker and write a       *)
(* completion marker, each step a crash may separate from the next.  The   *)
(* other writes replace the tracker alone.  Every writer holds the same    *)
(* flock, which a crash releases.                                          *)
(*                                                                         *)
(* A notes text is the pair of what render_notes reads: the execution      *)
(* state, and the revision of the last event that rebuilt the notes, which *)
(* fixes failure, history and evidence.  Evidence is the version of the    *)
(* mutable artifacts an event bound, 0 when there are none or when they    *)
(* were archived.  The publication and the task-agent lease are one lease  *)
(* here; TrackerLeases tells them apart.                                   *)
(***************************************************************************)
EXTENDS Integers, Sequences, FiniteSets

CONSTANTS
    MaxRevision,  \* bound of the model on the tracker's revision
    MaxEntries,   \* bound of the model on journal entries
    MaxVersion,   \* bound of the model on evidence versions
    MaxCrashes,   \* bound of the model on crashes inside a transaction
    NoText,       \* no notes file, no notes hash
    Idle          \* nobody holds the lock across steps

ASSUME BoundsAssumption ==
    /\ MaxRevision \in Nat /\ MaxEntries \in Nat
    /\ MaxVersion \in Nat \ {0} /\ MaxCrashes \in Nat

ASSUME TextAssumption ==
    NoText \notin {"queued", "running", "publication_queued", "STOPPED", "PROMOTED"} \X Nat

VARIABLES
    tracker,   \* the document on disk
    notes,     \* the text of the notes file
    journal,   \* entries of "<workbook>-notes-transactions", oldest first
    work,      \* the transaction or recovery that holds the lock
    live,      \* the current lease has not expired
    version,   \* version of the mutable evidence on disk
    crashes,
    disturbed  \* history: a journal file was torn, the lease of an interrupted
               \* pair was moved, or bound evidence was edited

vars == <<tracker, notes, journal, work, live, version, crashes, disturbed>>

Terminal == {"STOPPED", "PROMOTED"}
ExecStates == {"queued", "running", "publication_queued"} \cup Terminal
Kinds == {"failure", "stop", "snapshot", "clear", "resume", "enqueue", "promoted"}

Texts == (ExecStates \X Nat) \cup {NoText}
Doc == [rev : Nat, exec : ExecStates, failing : BOOLEAN, event : Nat,
        evidence : 0..MaxVersion, noted : Texts, lease : Nat]
Entry == [kind : Kinds, before : Doc, after : Doc, prior : Texts,
          whole : BOOLEAN, marker : {"none", "torn", "yes"}]
Work == [entry : Nat, step : {"prepared", "notes", "tracker"}, recovering : BOOLEAN]

ASSUME IdleAssumption == Idle \notin Work

-----------------------------------------------------------------------------
\* render_notes
Text(d) == <<d.exec, d.event>>

Intact(d) == d.evidence \in {0, version}

\* validate_notes_pair
ValidPair(d, text) == text = Text(d) /\ d.noted = Text(d) /\ Intact(d)

Pending == {i \in DOMAIN journal : journal[i].marker # "yes"}

\* require_synchronized
Synchronized == Pending = {} /\ (tracker.noted # NoText => ValidPair(tracker, notes))

Held == tracker.lease # 0 /\ live

-----------------------------------------------------------------------------
(* The document each transaction derives.                                   *)

Admits(kind) ==
    CASE kind = "failure" -> Held /\ tracker.exec = "running"
      [] kind = "stop" -> Held /\ tracker.exec \in {"running", "publication_queued"}
      [] kind = "snapshot" -> Held /\ tracker.failing
      [] kind = "clear" -> Held /\ tracker.failing /\ tracker.exec = "running"
      [] kind = "resume" ->
            tracker.lease = 0 /\ tracker.failing /\ tracker.exec = "STOPPED"
      [] kind = "enqueue" ->
            Held /\ ~tracker.failing /\ tracker.exec \in {"running", "publication_queued"}
      [] kind = "promoted" -> Held /\ tracker.exec = "publication_queued"

ExecAfter(kind) ==
    CASE kind = "stop" -> "STOPPED"
      [] kind \in {"clear", "resume"} -> "running"
      [] kind = "enqueue" -> "publication_queued"
      [] kind = "promoted" -> "PROMOTED"
      [] OTHER -> tracker.exec

\* Mutant: the notes hash is taken before the new status is set.
AfterHashedEarly(kind) ==
    [tracker EXCEPT
        !.rev = @ + 1,
        !.exec = ExecAfter(kind),
        !.failing = kind \in {"failure", "stop", "snapshot"},
        !.event = tracker.rev + 1,
        !.evidence = IF kind = "snapshot" THEN 0 ELSE version,
        !.noted = <<tracker.exec, tracker.rev + 1>>]

After(kind) ==
    [tracker EXCEPT
        !.rev = @ + 1,
        !.exec = ExecAfter(kind),
        !.failing = kind \in {"failure", "stop", "snapshot"},
        !.event = tracker.rev + 1,
        !.evidence = IF kind = "snapshot" THEN 0 ELSE version,
        !.noted = <<ExecAfter(kind), tracker.rev + 1>>]

\* What the second reading of the gates, of the readiness proof or of the
\* evidence records compares.
EvidenceHolds(e) ==
    IF e.kind = "snapshot" THEN Intact(e.before) ELSE Intact(e.before) /\ Intact(e.after)

EvidenceRecovers(e) ==
    CASE e.kind = "snapshot" -> TRUE
      [] e.kind \in {"failure", "stop"} -> Intact(e.after)
      [] OTHER -> Intact(e.before) /\ Intact(e.after)

-----------------------------------------------------------------------------
\* Mutant: a new tracker gets the initial state of a lane.
InitPending ==
    /\ tracker = [rev |-> 0, exec |-> "pending", failing |-> FALSE, event |-> 0,
                  evidence |-> 0, noted |-> NoText, lease |-> 0]
    /\ notes = NoText
    /\ journal = <<>>
    /\ work = Idle
    /\ live = FALSE
    /\ version = 1
    /\ crashes = 0
    /\ disturbed = FALSE

Init ==
    /\ tracker = [rev |-> 0, exec |-> "queued", failing |-> FALSE, event |-> 0,
                  evidence |-> 0, noted |-> NoText, lease |-> 0]
    /\ notes = NoText
    /\ journal = <<>>
    /\ work = Idle
    /\ live = FALSE
    /\ version = 1
    /\ crashes = 0
    /\ disturbed = FALSE

\* The writer found the pair synchronized and its lease live; the journal entry
\* with both documents and both texts is on disk.
Prepare(kind) ==
    /\ work = Idle
    /\ Len(journal) < MaxEntries /\ tracker.rev < MaxRevision
    /\ Synchronized
    /\ Admits(kind)
    /\ journal' = Append(journal,
            [kind |-> kind, before |-> tracker, after |-> After(kind), prior |-> notes,
             whole |-> TRUE, marker |-> "none"])
    /\ work' = [entry |-> Len(journal) + 1, step |-> "prepared", recovering |-> FALSE]
    /\ UNCHANGED <<tracker, notes, live, version, crashes, disturbed>>

\* transaction.json is created in place and filled afterwards.
CrashInPrepare(kind) ==
    /\ disturbed' = TRUE
    /\ crashes < MaxCrashes /\ crashes' = crashes + 1
    /\ work = Idle
    /\ Len(journal) < MaxEntries /\ tracker.rev < MaxRevision
    /\ Synchronized
    /\ Admits(kind)
    /\ journal' = Append(journal,
            [kind |-> kind, before |-> tracker, after |-> After(kind), prior |-> notes,
             whole |-> FALSE, marker |-> "none"])
    /\ UNCHANGED <<tracker, notes, work, live, version>>

Current == journal[work.entry]

\* The second check of the lease, which a recovery and a resume do without.
Timely == work.recovering \/ Current.kind = "resume" \/ live

At(step) == work # Idle /\ work.step = step

MayReplaceNotes == Timely /\ (work.recovering \/ EvidenceHolds(Current))

\* Only the failure transaction validates the pair before it writes the marker.
MayMark == Current.kind \in {"failure", "stop"} => ValidPair(Current.after, notes)

ReplaceNotes ==
    /\ At("prepared") /\ MayReplaceNotes
    /\ notes' = Text(Current.after)
    /\ work' = [work EXCEPT !.step = "notes"]
    /\ UNCHANGED <<tracker, journal, live, version, crashes, disturbed>>

ReplaceTracker ==
    /\ At("notes") /\ Timely
    /\ tracker' = Current.after
    /\ work' = [work EXCEPT !.step = "tracker"]
    /\ UNCHANGED <<notes, journal, live, version, crashes, disturbed>>

WriteMarker ==
    /\ At("tracker") /\ MayMark
    /\ journal' = [journal EXCEPT ![work.entry].marker = "yes"]
    /\ work' = Idle
    /\ UNCHANGED <<tracker, notes, live, version, crashes, disturbed>>

\* A check that fails raises and gives the lock back; the entry stays.
Refuse ==
    /\ \/ At("prepared") /\ ~MayReplaceNotes
       \/ At("notes") /\ ~Timely
       \/ At("tracker") /\ ~MayMark
    /\ work' = Idle
    /\ UNCHANGED <<tracker, notes, journal, live, version, crashes, disturbed>>

\* The process dies, or an I/O error ends it, between two steps.
Crash ==
    /\ work # Idle
    /\ crashes < MaxCrashes /\ crashes' = crashes + 1
    /\ work' = Idle
    /\ UNCHANGED <<tracker, notes, journal, live, version, disturbed>>

CrashInMarker ==
    /\ disturbed' = TRUE
    /\ crashes < MaxCrashes /\ crashes' = crashes + 1
    /\ At("tracker") /\ MayMark
    /\ Current.marker = "none"
    /\ journal' = [journal EXCEPT ![work.entry].marker = "torn"]
    /\ work' = Idle
    /\ UNCHANGED <<tracker, notes, live, version>>

\* Mutant: the tracker on disk is not compared with the entry.
RecoverableOver(e) ==
    /\ e.whole /\ e.marker # "torn"
    /\ notes \in {e.prior, Text(e.after)}
    /\ EvidenceRecovers(e)

\* Mutant: a recovery needs a live lease, like the transaction.
RecoverableWhileLive(e) ==
    /\ e.whole /\ e.marker # "torn"
    /\ e.kind # "resume" => live
    /\ tracker \in {e.before, e.after}
    /\ notes \in {e.prior, Text(e.after)}
    /\ EvidenceRecovers(e)

\* recover, recover_snapshot and recover_ready accept entry e.
Recoverable(e) ==
    /\ e.whole /\ e.marker # "torn"
    /\ tracker \in {e.before, e.after}
    /\ notes \in {e.prior, Text(e.after)}
    /\ EvidenceRecovers(e)

\* The recovery needs the lease identity of the entry, not a live lease.
Recover(i) ==
    /\ work = Idle
    /\ Recoverable(journal[i])
    /\ work' = [entry |-> i, step |-> "prepared", recovering |-> TRUE]
    /\ UNCHANGED <<tracker, notes, journal, live, version, crashes, disturbed>>

\* Mutant: the journal is checked before the lock is taken, not under it.
CompleteLaneUnsynchronized ==
    /\ work = Idle
    /\ tracker.rev < MaxRevision
    /\ Held /\ tracker.exec \notin Terminal
    /\ tracker' = [tracker EXCEPT !.rev = @ + 1, !.exec = "running"]
    /\ UNCHANGED <<notes, journal, work, live, version, crashes, disturbed>>

\* LaneNotes.complete: one compare-and-swap of the tracker; the notes stay.
CompleteLane ==
    /\ work = Idle
    /\ tracker.rev < MaxRevision
    /\ Synchronized
    /\ Held /\ tracker.exec \notin Terminal
    /\ tracker' = [tracker EXCEPT !.rev = @ + 1, !.exec = "running"]
    /\ UNCHANGED <<notes, journal, work, live, version, crashes, disturbed>>

\* FailureSnapshots.begin_repair, which needs an archived failure.
BeginRepair ==
    /\ work = Idle
    /\ tracker.rev < MaxRevision
    /\ Synchronized
    /\ Held /\ tracker.exec = "running" /\ tracker.failing /\ tracker.evidence = 0
    /\ tracker' = [tracker EXCEPT !.rev = @ + 1]
    /\ UNCHANGED <<notes, journal, work, live, version, crashes, disturbed>>

\* lease_operation reads neither the notes nor their journal.
LeaseOperation(name) ==
    /\ work = Idle
    /\ tracker.rev < MaxRevision
    /\ disturbed' = (disturbed \/ Pending # {})
    /\ CASE name = "acquire" -> tracker.lease = 0 /\ tracker.exec \notin Terminal
         [] name = "renew" -> Held /\ tracker.exec \notin Terminal
         [] name = "replace_expired" ->
               tracker.lease # 0 /\ ~live /\ tracker.exec \notin Terminal
         [] name = "release" -> tracker.lease # 0 /\ (live \/ tracker.exec \in Terminal)
    /\ tracker' = [tracker EXCEPT
            !.rev = @ + 1,
            !.lease = CASE name = "renew" -> @
                        [] name = "release" -> 0
                        [] OTHER -> tracker.rev + 1]
    /\ live' = (name # "release")
    /\ UNCHANGED <<notes, journal, work, version, crashes>>

Expire ==
    /\ live
    /\ live' = FALSE
    /\ UNCHANGED <<tracker, notes, journal, work, version, crashes, disturbed>>

\* A producer rewrites the mutable artifacts of the workbook.
EvidenceChanges ==
    /\ version < MaxVersion
    /\ disturbed' = (disturbed \/ Pending # {} \/ tracker.evidence # 0)
    /\ version' = version + 1
    /\ UNCHANGED <<tracker, notes, journal, work, live, crashes>>

Next ==
    \/ \E kind \in Kinds : Prepare(kind) \/ CrashInPrepare(kind)
    \/ ReplaceNotes \/ ReplaceTracker \/ WriteMarker
    \/ Refuse \/ Crash \/ CrashInMarker
    \/ \E i \in DOMAIN journal : Recover(i)
    \/ CompleteLane \/ BeginRepair
    \/ \E name \in {"acquire", "renew", "release", "replace_expired"} : LeaseOperation(name)
    \/ Expire \/ EvidenceChanges

Spec == Init /\ [][Next]_vars

\* A started transaction or recovery ends, and somebody recovers a pending
\* entry: flock hands the lock on, so a waiting recovery is not passed over.
FairSpec ==
    /\ Spec
    /\ WF_vars(ReplaceNotes \/ ReplaceTracker \/ WriteMarker \/ Refuse)
    /\ SF_vars(\E i \in Pending : Recover(i))

-----------------------------------------------------------------------------
\* The tracker, the notes and every journal entry are documents of their schemas.
TypeOK ==
    /\ tracker \in Doc
    /\ notes \in Texts
    /\ journal \in Seq(Entry)
    /\ work \in Work \cup {Idle}
    /\ live \in BOOLEAN
    /\ version \in 1..MaxVersion
    /\ crashes \in 0..MaxCrashes
    /\ disturbed \in BOOLEAN

\* Whatever was interrupted, recovered or refused: when no entry is pending the
\* notes file is the one whose hash the tracker records.
RecordedPair == Pending = {} => notes = tracker.noted

\* No two transactions are ever open on one pair (their recoveries could not
\* both be applied), whatever crashed in between.
OnePending == Cardinality(Pending) <= 1

\* A completion marker tells the truth for ever: the tracker reached the
\* document of the entry, and what it is now was derived from it.
MarkerTruthful ==
    \A i \in DOMAIN journal : journal[i].marker = "yes" =>
        /\ tracker.rev >= journal[i].after.rev
        /\ tracker.rev = journal[i].after.rev => tracker = journal[i].after
        /\ tracker.event >= journal[i].after.event

\* The journal can be believed at every moment: what is open is alone, what is
\* marked was done, and nothing open means a pair in step (notes transactions
\* of harbor_lane_notes.py, harbor_ready_transitions.py).
JournalSound == RecordedPair /\ OnePending /\ MarkerTruthful

\* No committed write is lost: a late recovery never puts back a document over
\* a lease operation, a lane completion or another transaction that came after.
NoLostUpdate == [][tracker' # tracker => tracker'.rev = tracker.rev + 1]_tracker

\* Entries nobody is working on.
Interrupted == {i \in Pending : work = Idle \/ work.entry # i}

\* SKILL.md of the orchestrator: "If interrupted between replaces, retain the
\* lease and recover the pair": whatever step was interrupted, the entry can be
\* recovered as long as lease, evidence and journal were left as they were.
InterruptedRecoverable == ~disturbed => \A i \in Interrupted : Recoverable(journal[i])

\* A test of the completed-lane adapter asserts that the pair is synchronized
\* after a lane completion: so it is whenever no entry is pending.
PairSynchronized == Pending = {} => Synchronized

\* An interrupted pair that is left as it was is eventually completed.
PendingResolved == Pending # {} ~> (Pending = {} \/ disturbed)

\* The one lease of this module stands for both kinds.
Lifecycle == INSTANCE TrackerLifecycle WITH
    WorkLeases <- {"lease"},
    PublicationLeases <- {"lease"},
    revision <- tracker.rev,
    exec <- tracker.exec,
    lease <- [k \in {"lease"} |-> tracker.lease]

\* Interrupted transactions and late recoveries keep the tracker on the
\* lifecycle that its plain writes have (TrackerLeases): a recovery makes the
\* one step that the interrupted transaction would have made, or none, and so
\* never revives a lease, a promotion or a failure that is past.
KeepsLifecycle == Lifecycle!Spec
=============================================================================

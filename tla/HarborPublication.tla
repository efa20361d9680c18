-------------------------- MODULE HarborPublication --------------------------
(***************************************************************************)
(* One publication of a queued workbook by scripts/harbor_publish.py.      *)
(*                                                                         *)
(* Each invocation runs execute from its beginning in a guarded child,     *)
(* under the queue lock and the workbook's slot lock, so that no two run   *)
(* at once.  execute keeps a receipt of every mutation in its journal and  *)
(* recognizes one that was made before it could be kept.  A child may die  *)
(* between any two steps; a root resumes the retained intent.  Meanwhile   *)
(* leases run out, the worker writes its tracker, the release pointer is   *)
(* moved by others and an operator cleans up.                              *)
(*                                                                         *)
(* A tracker document is the sequence of what happened to it since it was  *)
(* queued: "acquire" and "promoted" by the coordinator, "foreign" by       *)
(* anyone else; "publication" and "task_agent" are the releases of the     *)
(* leases of these names, as are the receipts and steps so called.  The    *)
(* release store is one step here, but for its compatibility copy;         *)
(* ReleaseStore has its own steps.                                         *)
(***************************************************************************)
EXTENDS Naturals, Sequences

CONSTANT MaxInvocations     \* bound: starts and resumptions; the last of them is not interrupted

ASSUME InvocationsAssumption == MaxInvocations \in Nat \ {0}

VARIABLES
    tracker,        \* the document, as the events since it was queued
    expired,        \* leases that have run out
    pointer,        \* the current release: the one before, ours, or another
    initial,        \* what was at the output when the intent was retained
    output,         \* what is at the output
    aside,          \* the coordinator's own backup of the output exists
    transaction,    \* the notes transaction of the promotion
    kept,           \* receipts in the journal
    pc,             \* the next step of the running child
    resuming,       \* the child found a release intent
    invocations,    \* starts and resumptions so far
    disturbed       \* history: a lease ran out, somebody else wrote the tracker or moved the
                    \* pointer, or a death left the output or a file of the transaction
                    \* half written

files == <<tracker, pointer, output, aside, transaction, kept>>
world == <<expired, initial, invocations, disturbed>>
vars == <<files, pc, resuming, world>>

Leases == {"publication", "task_agent"}
Live(kind) == kind \notin expired
Wrote(event) == \E i \in DOMAIN tracker : tracker[i] = event

Acquired == <<"acquire">>
Promoted == <<"acquire", "promoted">>

\* The document from which the coordinator releases a lease.
Before(kind) == IF kind = "publication" THEN Promoted ELSE Append(Promoted, "publication")
Released == Append(Before("task_agent"), "task_agent")

Stopped == pc \in {"none", "refused"}
TrackerLocked ==
    pc \in {"prepare", "replace notes", "replace tracker", "restore notes", "restore tracker",
            "mark", "close"}
StoreLocked == pc \in {"move aside", "move in"}

\* Mutant: no step of the child is known.
InitUnknown ==
    /\ tracker = <<>> /\ expired = {} /\ pointer = "prior"
    /\ initial = "old" /\ output = "old" /\ aside = FALSE
    /\ transaction = "none" /\ kept = {} /\ pc = "unknown" /\ resuming = FALSE
    /\ invocations = 0 /\ disturbed = FALSE

Init ==
    /\ tracker = <<>>
    /\ expired = {}
    /\ pointer = "prior"
    /\ initial \in {"old", "absent"} /\ output = initial /\ aside = FALSE
    /\ transaction = "none"
    /\ kept = {}
    /\ pc = "none" /\ resuming = FALSE
    /\ invocations = 0
    /\ disturbed = FALSE

-----------------------------------------------------------------------------
(* The checks of execute, in its order.  A failed one ends the child.      *)

\* Mutant: an acquisition whose receipt is missing is not recognized.
MayAcquireAnew == "acquired" \in kept \/ (Live("task_agent") /\ tracker = <<>>)

MayAcquire == "acquired" \in kept \/ (Live("task_agent") /\ tracker \in {<<>>, Acquired})

\* Until the promotion is retained, both leases that were acquired are live.
BothLive == "promoted" \in kept \/ \A kind \in Leases : Live(kind)

MayStageTask == "task" \in kept \/ (tracker = Acquired /\ output = initial)

OutputKnown == output \in {initial, "task"}

\* Mutant: an interrupted promotion is not recognized.
TrackerUnchanged == tracker = Acquired \/ "promoted" \in kept

\* The document is the acquired one, the promoted one with some leases
\* released, or what an interrupted promotion has written.
TrackerKnown ==
    \/ tracker = Acquired
    \/ "promoted" \in kept /\ Len(tracker) >= 2 /\ SubSeq(tracker, 1, 2) = Promoted
    \/ transaction \notin {"none", "torn"} /\ tracker = Promoted

\* Only before the retained promotion may the release become current; after
\* it, it must be.  Between the promoted tracker and its receipt a pointer
\* that was rolled back is published again.
MayPublish ==
    \/ pointer = "prior" /\ "promoted" \notin kept
    \/ pointer = "ours" /\ ("promoted" \in kept \/ resuming)

MayDeliver == output = "task" \/ (output = initial /\ ~aside)

MayPromote ==
    \/ "promoted" \in kept
    \/ /\ pointer = "ours"
       /\ \/ transaction = "none" /\ tracker = Acquired /\ Live("publication")
          \/ transaction \in {"prepared", "complete"} /\ tracker \in {Acquired, Promoted}

\* The independent qualification of a promoted workbook.
Qualified ==
    /\ Len(tracker) >= 2 /\ SubSeq(tracker, 1, 2) = Promoted
    /\ transaction = "complete" /\ pointer = "ours"

\* A release is made on the document before it, by a live lease, or was made.
MayRelease(kind) ==
    \/ kind \in kept
    \/ tracker = Before(kind) /\ Live(kind)
    \/ tracker = Append(Before(kind), kind)

Passes ==
    CASE pc = "execute" -> MayAcquire
      [] pc = "check leases" -> BothLive
      [] pc = "stage task" -> MayStageTask
      [] pc = "check output" -> OutputKnown
      [] pc = "check tracker" -> TrackerKnown
      [] pc = "publish" -> MayPublish
      [] pc = "deliver" -> MayDeliver
      [] pc = "promote" -> MayPromote
      [] pc = "replace notes" -> Live("publication") /\ pointer = "ours"
      [] pc = "replace tracker" -> Live("publication")
      [] pc = "qualify" -> Qualified
      [] pc \in Leases -> MayRelease(pc)
      [] pc = "report" -> output = "task" /\ Qualified /\ tracker = Released
      [] OTHER -> TRUE

Refuse ==
    /\ ~Stopped /\ ~Passes
    /\ pc' = "refused"
    /\ UNCHANGED <<files, resuming, world>>

-----------------------------------------------------------------------------
(* The steps of execute. *)

\* The child passes the check at this step.
At(step) == pc = step /\ Passes /\ UNCHANGED world

Goes(next) == pc' = next /\ UNCHANGED resuming

Keeps(receipt, next) ==
    /\ Goes(next)
    /\ kept' = kept \cup {receipt}
    /\ UNCHANGED <<tracker, pointer, output, aside, transaction>>

Writes(event, next) ==
    /\ Goes(next)
    /\ tracker' = Append(tracker, event)
    /\ UNCHANGED <<pointer, output, aside, kept>>

Enters(state, next) ==
    /\ Goes(next)
    /\ transaction' = state
    /\ UNCHANGED <<tracker, pointer, output, aside, kept>>

AcquireLease ==
    \/ /\ At("execute") /\ tracker = <<>>
       /\ Writes("acquire", "execute") /\ UNCHANGED transaction
    \/ At("execute") /\ tracker # <<>> /\ Keeps("acquired", "check leases")
    \/ At("check leases") /\ Goes("stage task") /\ UNCHANGED files

StageTask == At("stage task") /\ Keeps("task", "intend")

\* The release intent is kept before anything of the release is written.
Intend ==
    /\ At("intend")
    /\ resuming' = ("release intent" \in kept)
    /\ kept' = kept \cup {"release intent"} /\ pc' = "check output"
    /\ UNCHANGED <<tracker, pointer, output, aside, transaction>>

CheckRelease ==
    \/ At("check output") /\ Goes("check tracker") /\ UNCHANGED files
    \/ At("check tracker") /\ Goes("publish") /\ UNCHANGED files

\* The compare-and-swap of the pointer, then the two steps of its copy.
Publish ==
    \/ At("publish") /\ pointer = "ours" /\ Keeps("release", "deliver")
    \/ /\ At("publish") /\ pointer = "prior" /\ pointer' = "ours"
       /\ Goes(IF output = "absent" THEN "move in" ELSE "move aside")
       /\ UNCHANGED <<tracker, output, aside, transaction, kept>>
    \/ /\ At("move aside") /\ output' = "absent" /\ Goes("move in")
       /\ UNCHANGED <<tracker, pointer, aside, transaction, kept>>
    \/ /\ At("move in") /\ output' = "task" /\ Goes("publish again")
       /\ UNCHANGED <<tracker, pointer, aside, transaction, kept>>
    \/ At("publish again") /\ Keeps("release", "deliver")

\* Mutant: what is at the output is not compared.
DeliverAnything == At("deliver") /\ Keeps("output", "promote")

\* Delivers the release again if its copy did not come to the output.
Deliver ==
    \/ At("deliver") /\ output = "task" /\ Keeps("output", "promote")
    \/ /\ At("deliver") /\ output # "task" /\ Goes("redeliver")
       /\ aside' = (initial # "absent")
       /\ output' = "absent"
       /\ UNCHANGED <<tracker, pointer, transaction, kept>>
    \/ /\ At("redeliver") /\ output' = "task" /\ Goes("deliver")
       /\ UNCHANGED <<tracker, pointer, aside, transaction, kept>>

\* The promotion's notes transaction, or the recovery of an interrupted one.
Promote ==
    \/ At("promote") /\ "promoted" \in kept /\ Goes("qualify") /\ UNCHANGED files
    \/ /\ At("promote") /\ "promoted" \notin kept
       /\ IF transaction = "none" THEN Enters("torn", "prepare")
          ELSE Goes("restore notes") /\ UNCHANGED files
    \/ At("prepare") /\ Enters("prepared", "replace notes")
    \/ At("replace notes") /\ Goes("replace tracker") /\ UNCHANGED files
    \/ At("restore notes") /\ Goes("restore tracker") /\ UNCHANGED files
    \/ /\ At("replace tracker") \/ (At("restore tracker") /\ tracker = Acquired)
       /\ Writes("promoted", "mark") /\ UNCHANGED transaction
    \/ At("restore tracker") /\ tracker = Promoted /\ Goes("mark") /\ UNCHANGED files
    \/ At("mark") /\ transaction = "complete" /\ Goes("keep promotion") /\ UNCHANGED files
    \/ At("mark") /\ transaction # "complete" /\ Enters("torn marker", "close")
    \/ At("close") /\ Enters("complete", "keep promotion")
    \/ At("keep promotion") /\ Keeps("promoted", "qualify")
    \/ At("qualify") /\ Goes("publication") /\ UNCHANGED files

ReleaseLease(kind, next) ==
    \/ At(kind) /\ kind \in kept /\ Goes(next) /\ UNCHANGED files
    \/ /\ At(kind) /\ kind \notin kept /\ tracker = Before(kind)
       /\ Writes(kind, kind) /\ UNCHANGED transaction
    \/ At(kind) /\ kind \notin kept /\ tracker # Before(kind) /\ Keeps(kind, next)

Report == At("report") /\ Keeps("result", "none")

Execute ==
    \/ AcquireLease \/ StageTask \/ Intend \/ CheckRelease \/ Publish \/ Deliver \/ Promote
    \/ ReleaseLease("publication", "task_agent")
    \/ ReleaseLease("task_agent", "report")
    \/ Report \/ Refuse

-----------------------------------------------------------------------------
(* Invocations, deaths, and what others do. *)

Invoke ==
    /\ Stopped /\ invocations < MaxInvocations
    /\ pc' = "execute" /\ resuming' = FALSE
    /\ invocations' = invocations + 1
    /\ UNCHANGED <<tracker, pointer, output, aside, transaction, expired, initial, disturbed>>

Start ==
    /\ "intent" \notin kept
    /\ tracker = <<>> /\ Live("task_agent")
    /\ Invoke /\ kept' = {"intent"}

Resume == "intent" \in kept /\ Invoke /\ UNCHANGED kept

\* A death between the two replacements leaves nothing at the output; one
\* while the descriptor or the marker is written leaves a torn file.
HalfWritten ==
    \/ output = "absent" /\ initial # "absent"
    \/ transaction \in {"torn", "torn marker"}

Die ==
    /\ ~Stopped /\ invocations < MaxInvocations
    /\ pc' = "none"
    /\ disturbed' = (disturbed \/ HalfWritten)
    /\ UNCHANGED <<files, resuming, expired, initial, invocations>>

Disturbs == disturbed' = TRUE /\ UNCHANGED <<initial, invocations, resuming, pc>>

Expire(kind) ==
    /\ Live(kind)
    /\ kind = "publication" => Wrote("acquire")
    /\ Disturbs /\ expired' = expired \cup {kind}
    /\ UNCHANGED files

\* The worker renews or releases its live lease, or records a failure.
WriteTracker ==
    /\ ~TrackerLocked /\ Live("task_agent")
    /\ ~Wrote("promoted") /\ ~Wrote("foreign")
    /\ Disturbs /\ tracker' = Append(tracker, "foreign")
    /\ UNCHANGED <<expired, pointer, output, aside, transaction, kept>>

\* Another release is published, or ours is rolled back.
MovePointer ==
    /\ ~StoreLocked
    /\ \/ pointer \in {"prior", "ours"} /\ pointer' = "other"
       \/ pointer = "ours" /\ pointer' = "prior"
    /\ Disturbs
    /\ UNCHANGED <<expired, tracker, output, aside, transaction, kept>>

\* An operator puts the old output back, or copies it back.
RestoreOutput ==
    /\ Stopped /\ output = "absent" /\ initial # "absent"
    /\ output' = initial /\ aside' \in {aside, FALSE}
    /\ Disturbs
    /\ UNCHANGED <<expired, tracker, pointer, transaction, kept>>

\* The release of an expired lease of a promoted workbook, whose owner is
\* proved to be stopped.
CleanUp(kind) ==
    /\ ~TrackerLocked /\ (kind = "publication" => Stopped)
    /\ Wrote("promoted") /\ ~Wrote(kind) /\ ~Live(kind)
    /\ Disturbs /\ tracker' = Append(tracker, kind)
    /\ UNCHANGED <<expired, pointer, output, aside, transaction, kept>>

Others ==
    \/ \E kind \in Leases : Expire(kind) \/ CleanUp(kind)
    \/ WriteTracker \/ MovePointer \/ RestoreOutput

Next == Execute \/ Start \/ Resume \/ Die \/ Others

Spec == Init /\ [][Next]_vars

\* The machine runs a child that was started; a root resumes an interrupted one.
FairSpec == Spec /\ WF_vars(Execute) /\ WF_vars(Resume)

-----------------------------------------------------------------------------
(* Properties. *)

Receipts == {"intent", "acquired", "task", "release intent", "release", "output", "promoted",
             "result"} \cup Leases
Steps == Leases \cup
    {"none", "refused", "execute", "check leases", "stage task", "intend", "check output",
     "check tracker", "publish", "move aside", "move in", "publish again", "deliver",
     "redeliver", "promote", "replace notes", "replace tracker", "restore notes",
     "restore tracker", "prepare", "mark", "close", "keep promotion", "qualify", "report"}

\* Types: at most one event of every kind is in the document.
PublicationTypeOK ==
    /\ tracker \in Seq({"acquire", "promoted", "foreign"} \cup Leases)
    /\ \A i, j \in DOMAIN tracker : tracker[i] = tracker[j] => i = j
    /\ expired \subseteq Leases /\ kept \subseteq Receipts
    /\ pointer \in {"prior", "ours", "other"} /\ initial \in {"old", "absent"}
    /\ output \in {"old", "absent", "task"} /\ aside \in BOOLEAN
    /\ transaction \in {"none", "torn", "prepared", "torn marker", "complete"}
    /\ pc \in Steps /\ resuming \in BOOLEAN /\ disturbed \in BOOLEAN
    /\ invocations \in 0..MaxInvocations

\* A tracker says promoted only when every step before it is kept and, if
\* nothing intervened, the task is at the output and its release current; a
\* kept result stands for a completed promotion and two released leases
\* (execute, harbor_publish.py:275).
PromotionHolds ==
    /\ Wrote("promoted") =>
        /\ {"intent", "acquired", "task", "release intent", "release", "output"} \subseteq kept
        /\ transaction \notin {"none", "torn"}
        /\ disturbed \/ (output = "task" /\ pointer = "ours")
    /\ "promoted" \in kept => transaction = "complete"
    /\ "result" \in kept => tracker = Released /\ output = "task"

\* However often the child dies, execute refuses only after a lease ran out,
\* somebody else wrote the tracker or the pointer, or a death left a file
\* half written.
RefusedForCause == [][pc' = "refused" /\ pc # "refused" => disturbed]_vars

\* A retained intent that nobody disturbs comes to its result, over any
\* number of deaths that ends.
Publishes == "intent" \in kept ~> ("result" \in kept \/ disturbed)
=============================================================================

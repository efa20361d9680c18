----------------------- MODULE NotesTransactions_proofs -----------------------
(***************************************************************************)
(* Proofs about the transactions of a tracker and its notes, for any       *)
(* number of entries, evidence versions and crashes: the journal can be    *)
(* believed, no late recovery undoes a later write, and an interruption    *)
(* that nothing disturbed can be recovered.                                *)
(*                                                                         *)
(* The invariant says what an entry records (Formed), that only the last   *)
(* one can be open (Ordered), what the transaction at work has done so far *)
(* (Working), and that what is open is recoverable while nothing disturbed *)
(* it (Safe).                                                              *)
(***************************************************************************)
EXTENDS NotesTransactions, FiniteSetTheorems, TLAPS

\* What an entry records: the next document and the text that was on disk.
Formed(e) ==
    /\ e.after.rev = e.before.rev + 1
    /\ e.after.event = e.after.rev
    /\ e.after.noted = Text(e.after)
    /\ e.prior = e.before.noted

\* Only the last entry is open, and each was made after the ones before it.
Ordered ==
    \A i \in DOMAIN journal :
        /\ Formed(journal[i])
        /\ journal[i].marker # "yes" => i = Len(journal)
        /\ \A j \in DOMAIN journal : j < i => journal[j].after.rev <= journal[i].before.rev

Basics ==
    /\ tracker.event <= tracker.rev
    /\ tracker.noted = NoText => tracker.evidence = 0

\* How far the transaction or recovery that holds the lock has come.
Working ==
    work # Idle =>
        /\ work.entry \in DOMAIN journal
        /\ Current.whole /\ Current.marker # "torn"
        /\ tracker \in {Current.before, Current.after}
        /\ notes \in {Current.prior, Text(Current.after)}
        /\ work.step \in {"notes", "tracker"} => notes = Text(Current.after)
        /\ work.step = "tracker" => tracker = Current.after

Safe == ~disturbed => \A i \in Pending : Recoverable(journal[i])

Types ==
    /\ tracker \in Doc
    /\ notes \in Texts
    /\ journal \in Seq(Entry)
    /\ work \in Work \cup {Idle}
    /\ version \in 1..MaxVersion
    /\ crashes \in 0..MaxCrashes

Flags == live \in BOOLEAN /\ disturbed \in BOOLEAN

IInv ==
    Types /\ Flags /\ Basics /\ Ordered /\ Working /\ RecordedPair /\ MarkerTruthful /\ Safe
-----------------------------------------------------------------------------
(* Documents and entries. *)

\* The text of a document is never the missing one.
LEMMA TextTyped ==
    ASSUME NEW d \in Doc
    PROVE  Text(d) \in Texts /\ Text(d) # NoText
    BY TextAssumption DEF Doc, Text, Texts, ExecStates, Terminal

\* Membership is a truth value.
LEMMA Truth == ASSUME NEW x, NEW S PROVE (x \in S) \in BOOLEAN
<1>1. CASE x \in S
    BY <1>1
<1>2. CASE x \notin S
  <2>1. (x \in S) = FALSE
    BY <1>2
  <2> QED
    BY <2>1
<1> QED
    BY <1>1, <1>2

\* The document that a transaction derives.
LEMMA AfterTyped ==
    ASSUME Types, NEW kind \in Kinds
    PROVE  /\ After(kind) \in Doc
           /\ After(kind).rev = tracker.rev + 1 /\ After(kind).event = tracker.rev + 1
           /\ After(kind).noted = Text(After(kind)) /\ After(kind).noted # NoText
           /\ After(kind).evidence = IF kind = "snapshot" THEN 0 ELSE version
<1>1. tracker \in Doc /\ version \in 1..MaxVersion
    BY DEF Types
<1>2. ExecAfter(kind) \in ExecStates
    BY <1>1 DEF ExecAfter, Doc, ExecStates, Terminal
<1>3. /\ tracker.rev + 1 \in Nat
      /\ (IF kind = "snapshot" THEN 0 ELSE version) \in 0..MaxVersion
    BY <1>1, BoundsAssumption DEF Doc
<1>0. (kind \in {"failure", "stop", "snapshot"}) \in BOOLEAN
    BY Truth
<1>4. <<ExecAfter(kind), tracker.rev + 1>> \in Texts
    BY <1>2, <1>3 DEF Texts
<1>5. After(kind) \in Doc
  <2>1. ASSUME NEW r \in Nat, NEW x \in ExecStates, NEW f \in BOOLEAN, NEW e \in Nat,
               NEW v \in 0..MaxVersion, NEW n \in Texts
        PROVE  [tracker EXCEPT !.rev = r, !.exec = x, !.failing = f, !.event = e,
                               !.evidence = v, !.noted = n] \in Doc
    BY <1>1 DEF Doc
  <2> QED
    BY <1>0, <1>2, <1>3, <1>4, <2>1 DEF After
<1>6. /\ After(kind).rev = tracker.rev + 1 /\ After(kind).event = tracker.rev + 1
      /\ After(kind).exec = ExecAfter(kind)
      /\ After(kind).noted = <<ExecAfter(kind), tracker.rev + 1>>
      /\ After(kind).evidence = IF kind = "snapshot" THEN 0 ELSE version
    BY <1>1 DEF After, Doc
<1>7. After(kind).noted = Text(After(kind))
    BY <1>6 DEF Text
<1> QED
    BY <1>5, <1>6, <1>7, TextTyped

\* A new entry.
LEMMA Appended ==
    ASSUME journal \in Seq(Entry), NEW e \in Entry, journal' = Append(journal, e)
    PROVE  /\ journal' \in Seq(Entry) /\ Len(journal') = Len(journal) + 1
           /\ DOMAIN journal = 1..Len(journal) /\ DOMAIN journal' = 1..(Len(journal) + 1)
           /\ \A i \in DOMAIN journal : journal'[i] = journal[i]
           /\ journal'[Len(journal) + 1] = e
    OBVIOUS

\* A marker.
LEMMA Marked ==
    ASSUME journal \in Seq(Entry), NEW k \in DOMAIN journal, NEW m \in {"torn", "yes"},
           journal' = [journal EXCEPT ![k].marker = m]
    PROVE  /\ journal' \in Seq(Entry) /\ Len(journal') = Len(journal)
           /\ DOMAIN journal' = DOMAIN journal /\ DOMAIN journal = 1..Len(journal)
           /\ \A i \in DOMAIN journal : i # k => journal'[i] = journal[i]
           /\ journal'[k] = [journal[k] EXCEPT !.marker = m]
<1>1. journal[k] \in Entry
    OBVIOUS
<1>2. [journal[k] EXCEPT !.marker = m] \in Entry
    BY <1>1 DEF Entry
<1> QED
    BY <1>2

\* What the entries are, one by one.
LEMMA Entries ==
    ASSUME journal \in Seq(Entry), NEW i \in DOMAIN journal
    PROVE  /\ journal[i] \in Entry /\ journal[i].before \in Doc /\ journal[i].after \in Doc
           /\ journal[i].prior \in Texts /\ journal[i].kind \in Kinds
           /\ journal[i].before.rev \in Nat /\ journal[i].after.rev \in Nat
           /\ journal[i].before.event \in Nat /\ journal[i].after.event \in Nat
           /\ i \in 1..Len(journal) /\ Len(journal) \in Nat
<1>1. journal[i] \in Entry /\ i \in 1..Len(journal) /\ Len(journal) \in Nat
    OBVIOUS
<1> QED
    BY <1>1 DEF Entry, Doc

\* A completed entry that a recovery finds at its place is where the tracker is.
LEMMA DoneEntry ==
    ASSUME Types, Ordered, MarkerTruthful, NEW i \in DOMAIN journal,
           journal[i].marker = "yes", tracker \in {journal[i].before, journal[i].after}
    PROVE  tracker = journal[i].after
<1>1. journal[i].after.rev = journal[i].before.rev + 1
    BY DEF Ordered, Formed
<1>2. tracker.rev >= journal[i].after.rev
    BY DEF MarkerTruthful
<1>3. journal[i].before.rev \in Nat
    BY Entries DEF Types
<1> QED
    BY <1>1, <1>2, <1>3
-----------------------------------------------------------------------------
(* Steps. *)

\* A transaction begins: everything before it is done.
LEMMA PrepareStep ==
    ASSUME IInv, NEW kind \in Kinds, Prepare(kind)
    PROVE  IInv'
<1> USE DEF IInv, Prepare
<1> DEFINE e == [kind |-> kind, before |-> tracker, after |-> After(kind), prior |-> notes,
                 whole |-> TRUE, marker |-> "none"]
<1>a. e \in Entry /\ Formed(e)
  <2>1. tracker \in Doc /\ notes \in Texts /\ journal \in Seq(Entry)
    BY DEF Types
  <2>2. notes = tracker.noted
    BY DEF RecordedPair, Synchronized
  <2> QED
    BY <2>1, <2>2, AfterTyped DEF Entry, Formed
<1>b. journal' = Append(journal, e) /\ journal \in Seq(Entry)
    BY DEF Types
<1>c. /\ journal' \in Seq(Entry) /\ Len(journal') = Len(journal) + 1
      /\ DOMAIN journal = 1..Len(journal) /\ DOMAIN journal' = 1..(Len(journal) + 1)
      /\ \A i \in DOMAIN journal : journal'[i] = journal[i]
      /\ journal'[Len(journal) + 1] = e /\ Len(journal) \in Nat
    BY <1>a, <1>b, Appended
<1>d. \A i \in DOMAIN journal : journal[i].marker = "yes"
    BY DEF Synchronized, Pending
<1> HIDE DEF e
<1>e. /\ e.kind = kind /\ e.before = tracker /\ e.after = After(kind) /\ e.prior = notes
      /\ e.whole = TRUE /\ e.marker = "none"
    BY DEF e
<1>1. Types'
    BY <1>c DEF Types, Work
<1>2. Flags'
    BY Zenon DEF Flags
<1>3. Basics'
    BY DEF Basics
<1>4. Ordered'
  <2>1. ASSUME NEW i \in DOMAIN journal' PROVE Formed(journal'[i])
    <3>1. CASE i \in DOMAIN journal
      <4>1. Formed(journal[i]) /\ journal'[i] = journal[i]
        BY <1>c, <3>1 DEF Ordered
      <4> QED
        BY <4>1
    <3>2. CASE i = Len(journal) + 1
      <4>1. journal'[i] = e
        BY <1>c, <3>2
      <4> QED
        BY <1>a, <4>1
    <3> QED
      BY <1>c, <3>1, <3>2
  <2>2. ASSUME NEW i \in DOMAIN journal', journal'[i].marker # "yes" PROVE i = Len(journal')
    BY <1>c, <1>d, <2>2
  <2>3. ASSUME NEW i \in DOMAIN journal', NEW j \in DOMAIN journal', j < i
        PROVE  journal'[j].after.rev <= journal'[i].before.rev
    <3>1. j \in DOMAIN journal /\ journal'[j] = journal[j]
      BY <1>c, <2>3
    <3>2. CASE i \in DOMAIN journal
      BY <1>c, <2>3, <3>1, <3>2 DEF Ordered
    <3>3. CASE i = Len(journal) + 1
      <4>1. journal[j].after.rev <= tracker.rev
        BY <1>d, <3>1, Entries DEF MarkerTruthful, Types, Doc
      <4> QED
        BY <1>c, <1>e, <3>1, <3>3, <4>1
    <3> QED
      BY <1>c, <3>2, <3>3
  <2> QED
    BY <2>1, <2>2, <2>3, Zenon DEF Ordered
<1>5. Working'
    BY <1>c, <1>e DEF Working, Current, Work
<1>6. RecordedPair'
    BY <1>c, <1>e DEF RecordedPair, Pending
<1>7. MarkerTruthful'
    BY <1>c, <1>e DEF MarkerTruthful
<1>8. Safe'
  <2>1. ASSUME NEW i \in Pending', ~disturbed' PROVE Recoverable(journal[i])'
    <3>1. i = Len(journal) + 1 /\ journal'[i] = e
      BY <1>c, <1>d, <2>1 DEF Pending
    <3>2. EvidenceRecovers(e)
      BY <1>e, AfterTyped DEF EvidenceRecovers, Synchronized, Intact, ValidPair, Basics
    <3> QED
      BY <1>e, <3>1, <3>2 DEF Recoverable, EvidenceRecovers, Intact
  <2> QED
    BY <2>1 DEF Safe
<1> QED
    BY <1>1, <1>2, <1>3, <1>4, <1>5, <1>6, <1>7, <1>8

\* A torn entry is one that nothing recovers.
LEMMA CrashInPrepareStep ==
    ASSUME IInv, NEW kind \in Kinds, CrashInPrepare(kind)
    PROVE  IInv'
<1> USE DEF IInv, CrashInPrepare
<1> DEFINE e == [kind |-> kind, before |-> tracker, after |-> After(kind), prior |-> notes,
                 whole |-> FALSE, marker |-> "none"]
<1>a. e \in Entry /\ Formed(e)
  <2>1. tracker \in Doc /\ notes \in Texts /\ journal \in Seq(Entry)
    BY DEF Types
  <2>2. notes = tracker.noted
    BY DEF RecordedPair, Synchronized
  <2> QED
    BY <2>1, <2>2, AfterTyped DEF Entry, Formed
<1>b. journal' = Append(journal, e) /\ journal \in Seq(Entry)
    BY DEF Types
<1>c. /\ journal' \in Seq(Entry) /\ Len(journal') = Len(journal) + 1
      /\ DOMAIN journal = 1..Len(journal) /\ DOMAIN journal' = 1..(Len(journal) + 1)
      /\ \A i \in DOMAIN journal : journal'[i] = journal[i]
      /\ journal'[Len(journal) + 1] = e /\ Len(journal) \in Nat
    BY <1>a, <1>b, Appended
<1>d. \A i \in DOMAIN journal : journal[i].marker = "yes"
    BY DEF Synchronized, Pending
<1> HIDE DEF e
<1>e. /\ e.kind = kind /\ e.before = tracker /\ e.after = After(kind) /\ e.prior = notes
      /\ e.whole = FALSE /\ e.marker = "none"
    BY DEF e
<1>1. Types'
    BY <1>c, BoundsAssumption DEF Types, Work
<1>2. Flags'
    BY Zenon DEF Flags
<1>3. Basics'
    BY DEF Basics
<1>4. Ordered'
  <2>1. ASSUME NEW i \in DOMAIN journal' PROVE Formed(journal'[i])
    <3>1. CASE i \in DOMAIN journal
      <4>1. Formed(journal[i]) /\ journal'[i] = journal[i]
        BY <1>c, <3>1 DEF Ordered
      <4> QED
        BY <4>1
    <3>2. CASE i = Len(journal) + 1
      <4>1. journal'[i] = e
        BY <1>c, <3>2
      <4> QED
        BY <1>a, <4>1
    <3> QED
      BY <1>c, <3>1, <3>2
  <2>2. ASSUME NEW i \in DOMAIN journal', journal'[i].marker # "yes" PROVE i = Len(journal')
    BY <1>c, <1>d, <2>2
  <2>3. ASSUME NEW i \in DOMAIN journal', NEW j \in DOMAIN journal', j < i
        PROVE  journal'[j].after.rev <= journal'[i].before.rev
    <3>1. j \in DOMAIN journal /\ journal'[j] = journal[j]
      BY <1>c, <2>3
    <3>2. CASE i \in DOMAIN journal
      BY <1>c, <2>3, <3>1, <3>2 DEF Ordered
    <3>3. CASE i = Len(journal) + 1
      <4>1. journal[j].after.rev <= tracker.rev
        BY <1>d, <3>1, Entries DEF MarkerTruthful, Types, Doc
      <4> QED
        BY <1>c, <1>e, <3>1, <3>3, <4>1
    <3> QED
      BY <1>c, <3>2, <3>3
  <2> QED
    BY <2>1, <2>2, <2>3, Zenon DEF Ordered
<1>5. Working'
    BY DEF Working
<1>6. RecordedPair'
    BY <1>c, <1>e DEF RecordedPair, Pending
<1>7. MarkerTruthful'
    BY <1>c, <1>e DEF MarkerTruthful
<1>8. Safe'
    BY DEF Safe
<1> QED
    BY <1>1, <1>2, <1>3, <1>4, <1>5, <1>6, <1>7, <1>8

\* The notes are replaced.
LEMMA ReplaceNotesStep ==
    ASSUME IInv, ReplaceNotes
    PROVE  IInv'
<1> USE DEF IInv, ReplaceNotes, At
<1>a. work.entry \in DOMAIN journal /\ Current = journal[work.entry] /\ Current \in Entry
    BY Entries DEF Working, Current, Types
<1>b. Current' = Current /\ notes' = Text(Current.after) /\ work'.entry = work.entry
    BY DEF Current, Types, Work
<1>1. Types'
    BY <1>a, Entries, TextTyped DEF Types, Work
<1>2. Flags'
    BY Zenon DEF Flags
<1>3. Basics'
    BY DEF Basics
<1>4. Ordered'
    BY DEF Ordered
<1>5. Working'
    BY <1>a, <1>b DEF Working, Types, Work
<1>6. RecordedPair'
  <2>1. ASSUME Pending = {} PROVE Text(Current.after) = tracker.noted
    BY <1>a, <2>1, DoneEntry DEF Pending, Working, Ordered, Formed
  <2> QED
    BY <1>b, <2>1 DEF RecordedPair, Pending
<1>7. MarkerTruthful'
    BY DEF MarkerTruthful
<1>8. Safe'
  <2>1. ASSUME ~disturbed', NEW i \in Pending'
        PROVE  notes' \in {journal[i].prior, Text(journal[i].after)}
    <3>1. i \in DOMAIN journal /\ journal[i].marker # "yes" /\ Recoverable(journal[i])
      BY <2>1 DEF Safe, Pending
    <3>2. CASE i = work.entry
      BY <1>a, <1>b, <3>2
    <3>3. CASE i # work.entry
      <4>1. /\ work.entry < i /\ Current.marker = "yes"
            /\ Current.after.rev <= journal[i].before.rev /\ Formed(journal[i])
        BY <1>a, <3>1, <3>3, Entries DEF Ordered, Types
      <4>2. tracker = Current.after
        BY <1>a, <4>1, DoneEntry DEF Working
      <4>3. tracker.rev # journal[i].after.rev
        BY <4>1, <4>2, <3>1, Entries DEF Formed, Types
      <4>4. tracker = journal[i].before
        BY <3>1, <4>3 DEF Recoverable
      <4>5. Formed(Current)
        BY <1>a DEF Ordered
      <4>6. Text(Current.after) = journal[i].prior
        BY <4>1, <4>2, <4>4, <4>5 DEF Formed
      <4> QED
        BY <1>b, <4>6
    <3> QED
      BY <3>2, <3>3
  <2> QED
    BY <2>1 DEF Safe, Pending, Recoverable, EvidenceRecovers, Intact
<1> QED
    BY <1>1, <1>2, <1>3, <1>4, <1>5, <1>6, <1>7, <1>8

\* The tracker is replaced.
LEMMA ReplaceTrackerStep ==
    ASSUME IInv, ReplaceTracker
    PROVE  IInv'
<1> USE DEF IInv, ReplaceTracker, At
<1>a. work.entry \in DOMAIN journal /\ Current = journal[work.entry] /\ Current \in Entry
    BY Entries DEF Working, Current, Types
<1>b. Current' = Current /\ tracker' = Current.after /\ work'.entry = work.entry
    BY DEF Current, Types, Work
<1>c. tracker = Current.before \/ tracker = Current.after
    BY DEF Working
<1>d. /\ Current.after.rev = Current.before.rev + 1 /\ Current.after.event = Current.after.rev
      /\ Current.before \in Doc /\ Current.after \in Doc
    BY <1>a, Entries DEF Ordered, Formed, Types
<1>1. Types'
    BY <1>a, <1>d DEF Types, Work
<1>2. Flags'
    BY Zenon DEF Flags
<1>3. Basics'
    BY <1>a, <1>b, <1>d, TextTyped DEF Basics, Ordered, Formed, Doc
<1>4. Ordered'
    BY DEF Ordered
<1>5. Working'
    BY <1>a, <1>b DEF Working, Types, Work
<1>6. RecordedPair'
    BY <1>a, <1>b DEF RecordedPair, Pending, Working, Ordered, Formed, Types, Work
<1>7. MarkerTruthful'
  <2>1. ASSUME NEW i \in DOMAIN journal, journal[i].marker = "yes"
        PROVE  /\ tracker'.rev >= journal[i].after.rev
               /\ tracker'.rev = journal[i].after.rev => tracker' = journal[i].after
               /\ tracker'.event >= journal[i].after.event
    <3>1. /\ tracker.rev >= journal[i].after.rev
          /\ tracker.rev = journal[i].after.rev => tracker = journal[i].after
          /\ tracker.event >= journal[i].after.event
      BY <2>1 DEF MarkerTruthful
    <3>2. CASE tracker = Current.after
      BY <1>b, <3>1, <3>2
    <3>3. CASE tracker = Current.before
      <4>1. /\ journal[i].after.rev \in Nat /\ journal[i].after.event \in Nat
            /\ tracker.rev \in Nat /\ tracker.event \in Nat /\ tracker.event <= tracker.rev
        BY <2>1, Entries DEF Types, Doc, Basics
      <4> QED
        BY <1>b, <1>d, <3>1, <3>3, <4>1
    <3> QED
      BY <1>c, <3>2, <3>3
  <2> QED
    BY <2>1 DEF MarkerTruthful
<1>8. Safe'
  <2>1. ASSUME ~disturbed', NEW i \in Pending'
        PROVE  tracker' \in {journal[i].before, journal[i].after}
    <3>1. i \in DOMAIN journal /\ journal[i].marker # "yes" /\ Recoverable(journal[i])
      BY <2>1 DEF Safe, Pending
    <3>2. CASE i = work.entry
      BY <1>a, <1>b, <3>2
    <3>3. CASE i # work.entry
      <4>1. work.entry < i /\ Current.marker = "yes"
        BY <1>a, <3>1, <3>3, Entries DEF Ordered, Types
      <4>2. tracker = Current.after
        BY <1>a, <4>1, DoneEntry DEF Working
      <4> QED
        BY <1>b, <3>1, <4>2 DEF Recoverable
    <3> QED
      BY <3>2, <3>3
  <2> QED
    BY <2>1 DEF Safe, Pending, Recoverable, EvidenceRecovers, Intact
<1> QED
    BY <1>1, <1>2, <1>3, <1>4, <1>5, <1>6, <1>7, <1>8

\* The transaction is complete.
LEMMA WriteMarkerStep ==
    ASSUME IInv, WriteMarker
    PROVE  IInv'
<1> USE DEF IInv, WriteMarker, At
<1>a. work.entry \in DOMAIN journal /\ Current = journal[work.entry] /\ Current \in Entry
    BY Entries DEF Working, Current, Types
<1>b. /\ journal' \in Seq(Entry) /\ Len(journal') = Len(journal)
      /\ DOMAIN journal' = DOMAIN journal /\ DOMAIN journal = 1..Len(journal)
      /\ \A i \in DOMAIN journal : i # work.entry => journal'[i] = journal[i]
      /\ journal'[work.entry] = [journal[work.entry] EXCEPT !.marker = "yes"]
    BY <1>a, Marked DEF Types
<1>c. \A i \in DOMAIN journal :
        /\ journal'[i].kind = journal[i].kind /\ journal'[i].before = journal[i].before
        /\ journal'[i].after = journal[i].after /\ journal'[i].prior = journal[i].prior
        /\ journal'[i].whole = journal[i].whole
        /\ journal'[i].marker = IF i = work.entry THEN "yes" ELSE journal[i].marker
    BY <1>a, <1>b DEF Entry
<1>d. tracker = Current.after /\ notes = Text(Current.after)
    BY DEF Working
<1>1. Types'
    BY <1>b DEF Types
<1>2. Flags'
    BY Zenon DEF Flags
<1>3. Basics'
    BY DEF Basics
<1>4. Ordered'
    BY <1>b, <1>c DEF Ordered, Formed
<1>5. Working'
    BY DEF Working
<1>6. RecordedPair'
    BY <1>a, <1>d DEF RecordedPair, Ordered, Formed
<1>7. MarkerTruthful'
    BY <1>a, <1>b, <1>c, <1>d, Entries DEF MarkerTruthful, Types
<1>8. Safe'
  <2>1. ASSUME ~disturbed', NEW i \in Pending' PROVE Recoverable(journal[i])'
    <3>1. i \in Pending /\ journal'[i] = journal[i]
      BY <1>b, <1>c, <2>1 DEF Pending
    <3> QED
      BY <2>1, <3>1 DEF Safe, Recoverable, EvidenceRecovers, Intact
  <2> QED
    BY <2>1 DEF Safe
<1> QED
    BY <1>1, <1>2, <1>3, <1>4, <1>5, <1>6, <1>7, <1>8

\* A torn marker is one that nothing recovers.
LEMMA CrashInMarkerStep ==
    ASSUME IInv, CrashInMarker
    PROVE  IInv'
<1> USE DEF IInv, CrashInMarker, At
<1>a. work.entry \in DOMAIN journal /\ Current = journal[work.entry] /\ Current \in Entry
    BY Entries DEF Working, Current, Types
<1>b. /\ journal' \in Seq(Entry) /\ Len(journal') = Len(journal)
      /\ DOMAIN journal' = DOMAIN journal /\ DOMAIN journal = 1..Len(journal)
      /\ \A i \in DOMAIN journal : i # work.entry => journal'[i] = journal[i]
      /\ journal'[work.entry] = [journal[work.entry] EXCEPT !.marker = "torn"]
    BY <1>a, Marked DEF Types
<1>c. \A i \in DOMAIN journal :
        /\ journal'[i].kind = journal[i].kind /\ journal'[i].before = journal[i].before
        /\ journal'[i].after = journal[i].after /\ journal'[i].prior = journal[i].prior
        /\ journal'[i].whole = journal[i].whole
        /\ journal'[i].marker = IF i = work.entry THEN "torn" ELSE journal[i].marker
    BY <1>a, <1>b DEF Entry
<1>d. tracker = Current.after /\ notes = Text(Current.after)
    BY DEF Working
<1>1. Types'
    BY <1>b, BoundsAssumption DEF Types
<1>2. Flags'
    BY Zenon DEF Flags
<1>3. Basics'
    BY DEF Basics
<1>4. Ordered'
    BY <1>a, <1>b, <1>c DEF Ordered, Formed
<1>5. Working'
    BY DEF Working
<1>6. RecordedPair'
    BY <1>a, <1>b, <1>c DEF RecordedPair, Pending
<1>7. MarkerTruthful'
    BY <1>b, <1>c DEF MarkerTruthful
<1>8. Safe'
    BY DEF Safe
<1> QED
    BY <1>1, <1>2, <1>3, <1>4, <1>5, <1>6, <1>7, <1>8

\* A check fails: the entry stays.
LEMMA RefuseStep ==
    ASSUME IInv, Refuse
    PROVE  IInv'
<1> USE DEF IInv, Refuse, At
<1>1. Types'
    BY BoundsAssumption DEF Types
<1>2. Flags'
    BY Zenon DEF Flags
<1>3. Basics'
    BY DEF Basics
<1>4. Ordered'
    BY DEF Ordered
<1>5. Working'
    BY DEF Working
<1>6. RecordedPair'
    BY DEF RecordedPair, Pending
<1>7. MarkerTruthful'
    BY DEF MarkerTruthful
<1>8. Safe'
    BY DEF Safe, Pending, Recoverable, EvidenceRecovers, Intact
<1> QED
    BY <1>1, <1>2, <1>3, <1>4, <1>5, <1>6, <1>7, <1>8

\* A death: the entry stays.
LEMMA CrashStep ==
    ASSUME IInv, Crash
    PROVE  IInv'
<1> USE DEF IInv, Crash
<1>1. Types'
    BY BoundsAssumption DEF Types
<1>2. Flags'
    BY Zenon DEF Flags
<1>3. Basics'
    BY DEF Basics
<1>4. Ordered'
    BY DEF Ordered
<1>5. Working'
    BY DEF Working
<1>6. RecordedPair'
    BY DEF RecordedPair, Pending
<1>7. MarkerTruthful'
    BY DEF MarkerTruthful
<1>8. Safe'
    BY DEF Safe, Pending, Recoverable, EvidenceRecovers, Intact
<1> QED
    BY <1>1, <1>2, <1>3, <1>4, <1>5, <1>6, <1>7, <1>8

\* A recovery begins.
LEMMA RecoverStep ==
    ASSUME IInv, NEW i \in DOMAIN journal, Recover(i)
    PROVE  IInv'
<1> USE DEF IInv, Recover
<1>1. Types'
    BY DEF Types, Work
<1>2. Flags'
    BY Zenon DEF Flags
<1>3. Basics'
    BY DEF Basics
<1>4. Ordered'
    BY DEF Ordered
<1>5. Working'
    BY DEF Working, Current, Work, Recoverable
<1>6. RecordedPair'
    BY DEF RecordedPair, Pending
<1>7. MarkerTruthful'
    BY DEF MarkerTruthful
<1>8. Safe'
    BY DEF Safe, Pending, Recoverable, EvidenceRecovers, Intact
<1> QED
    BY <1>1, <1>2, <1>3, <1>4, <1>5, <1>6, <1>7, <1>8

\* A lane completes: the notes stay.
LEMMA CompleteLaneStep ==
    ASSUME IInv, CompleteLane
    PROVE  IInv'
<1> USE DEF IInv, CompleteLane
<1>a. tracker \in Doc
    BY DEF Types
<1>b. ASSUME NEW r \in Nat, NEW x \in ExecStates, NEW l \in Nat
      PROVE  /\ [tracker EXCEPT !.rev = r, !.exec = x] \in Doc
             /\ [tracker EXCEPT !.rev = r] \in Doc
             /\ [tracker EXCEPT !.rev = r, !.lease = l] \in Doc
    BY <1>a DEF Doc
<1>c. /\ tracker.rev \in Nat /\ tracker.rev + 1 \in Nat /\ "running" \in ExecStates
      /\ tracker.event \in Nat /\ tracker.lease \in Nat /\ 0 \in Nat
    BY <1>a DEF Doc, ExecStates
<1>d. tracker' \in Doc
    BY <1>b, <1>c
<1>e. /\ tracker'.rev = tracker.rev + 1 /\ tracker'.event = tracker.event
      /\ tracker'.noted = tracker.noted /\ tracker'.evidence = tracker.evidence
    BY <1>a DEF Doc
<1>1. Types'
    BY <1>d DEF Types
<1>2. Flags'
    BY Zenon DEF Flags
<1>3. Basics'
    BY <1>c, <1>e DEF Basics
<1>4. Ordered'
    BY DEF Ordered
<1>5. Working'
    BY DEF Working
<1>6. RecordedPair'
    BY <1>e DEF RecordedPair, Pending
<1>7. MarkerTruthful'
  <2>1. ASSUME NEW i \in DOMAIN journal, journal[i].marker = "yes"
        PROVE  /\ tracker'.rev >= journal[i].after.rev /\ tracker'.rev # journal[i].after.rev
               /\ tracker'.event >= journal[i].after.event
    <3>1. /\ tracker.rev >= journal[i].after.rev /\ tracker.event >= journal[i].after.event
          /\ journal[i].after.rev \in Nat
      BY <2>1, Entries DEF MarkerTruthful, Types
    <3> QED
      BY <1>c, <1>e, <3>1
  <2> QED
    BY <2>1 DEF MarkerTruthful
<1>8. Safe'
    BY DEF Safe, Synchronized, Pending
<1> QED
    BY <1>1, <1>2, <1>3, <1>4, <1>5, <1>6, <1>7, <1>8

\* A repair begins: the notes stay.
LEMMA BeginRepairStep ==
    ASSUME IInv, BeginRepair
    PROVE  IInv'
<1> USE DEF IInv, BeginRepair
<1>a. tracker \in Doc
    BY DEF Types
<1>b. ASSUME NEW r \in Nat, NEW x \in ExecStates, NEW l \in Nat
      PROVE  /\ [tracker EXCEPT !.rev = r, !.exec = x] \in Doc
             /\ [tracker EXCEPT !.rev = r] \in Doc
             /\ [tracker EXCEPT !.rev = r, !.lease = l] \in Doc
    BY <1>a DEF Doc
<1>c. /\ tracker.rev \in Nat /\ tracker.rev + 1 \in Nat /\ "running" \in ExecStates
      /\ tracker.event \in Nat /\ tracker.lease \in Nat /\ 0 \in Nat
    BY <1>a DEF Doc, ExecStates
<1>d. tracker' \in Doc
    BY <1>b, <1>c
<1>e. /\ tracker'.rev = tracker.rev + 1 /\ tracker'.event = tracker.event
      /\ tracker'.noted = tracker.noted /\ tracker'.evidence = tracker.evidence
    BY <1>a DEF Doc
<1>1. Types'
    BY <1>d DEF Types
<1>2. Flags'
    BY Zenon DEF Flags
<1>3. Basics'
    BY <1>c, <1>e DEF Basics
<1>4. Ordered'
    BY DEF Ordered
<1>5. Working'
    BY DEF Working
<1>6. RecordedPair'
    BY <1>e DEF RecordedPair, Pending
<1>7. MarkerTruthful'
  <2>1. ASSUME NEW i \in DOMAIN journal, journal[i].marker = "yes"
        PROVE  /\ tracker'.rev >= journal[i].after.rev /\ tracker'.rev # journal[i].after.rev
               /\ tracker'.event >= journal[i].after.event
    <3>1. /\ tracker.rev >= journal[i].after.rev /\ tracker.event >= journal[i].after.event
          /\ journal[i].after.rev \in Nat
      BY <2>1, Entries DEF MarkerTruthful, Types
    <3> QED
      BY <1>c, <1>e, <3>1
  <2> QED
    BY <2>1 DEF MarkerTruthful
<1>8. Safe'
    BY DEF Safe, Synchronized, Pending
<1> QED
    BY <1>1, <1>2, <1>3, <1>4, <1>5, <1>6, <1>7, <1>8

\* A lease operation moves the tracker under an open entry.
LEMMA LeaseOperationStep ==
    ASSUME IInv, NEW name \in {"acquire", "renew", "release", "replace_expired"},
           LeaseOperation(name)
    PROVE  IInv'
<1> USE DEF IInv, LeaseOperation
<1>a. tracker \in Doc
    BY DEF Types
<1>b. ASSUME NEW r \in Nat, NEW x \in ExecStates, NEW l \in Nat
      PROVE  /\ [tracker EXCEPT !.rev = r, !.exec = x] \in Doc
             /\ [tracker EXCEPT !.rev = r] \in Doc
             /\ [tracker EXCEPT !.rev = r, !.lease = l] \in Doc
    BY <1>a DEF Doc
<1>c. /\ tracker.rev \in Nat /\ tracker.rev + 1 \in Nat /\ "running" \in ExecStates
      /\ tracker.event \in Nat /\ tracker.lease \in Nat /\ 0 \in Nat
    BY <1>a DEF Doc, ExecStates
<1>d. tracker' \in Doc
    BY <1>b, <1>c
<1>e. /\ tracker'.rev = tracker.rev + 1 /\ tracker'.event = tracker.event
      /\ tracker'.noted = tracker.noted /\ tracker'.evidence = tracker.evidence
    BY <1>a DEF Doc
<1>1. Types'
    BY <1>d DEF Types
<1>2. Flags'
    BY Zenon DEF Flags
<1>3. Basics'
    BY <1>c, <1>e DEF Basics
<1>4. Ordered'
    BY DEF Ordered
<1>5. Working'
    BY DEF Working
<1>6. RecordedPair'
    BY <1>e DEF RecordedPair, Pending
<1>7. MarkerTruthful'
  <2>1. ASSUME NEW i \in DOMAIN journal, journal[i].marker = "yes"
        PROVE  /\ tracker'.rev >= journal[i].after.rev /\ tracker'.rev # journal[i].after.rev
               /\ tracker'.event >= journal[i].after.event
    <3>1. /\ tracker.rev >= journal[i].after.rev /\ tracker.event >= journal[i].after.event
          /\ journal[i].after.rev \in Nat
      BY <2>1, Entries DEF MarkerTruthful, Types
    <3> QED
      BY <1>c, <1>e, <3>1
  <2> QED
    BY <2>1 DEF MarkerTruthful
<1>8. Safe'
    BY DEF Safe, Synchronized, Pending
<1> QED
    BY <1>1, <1>2, <1>3, <1>4, <1>5, <1>6, <1>7, <1>8

\* The lease runs out.
LEMMA ExpireStep ==
    ASSUME IInv, Expire
    PROVE  IInv'
<1> USE DEF IInv, Expire
<1>1. Types'
    BY DEF Types, Work
<1>2. Flags'
    BY Zenon DEF Flags
<1>3. Basics'
    BY DEF Basics
<1>4. Ordered'
    BY DEF Ordered
<1>5. Working'
    BY DEF Working, Current, Work
<1>6. RecordedPair'
    BY DEF RecordedPair, Pending
<1>7. MarkerTruthful'
    BY DEF MarkerTruthful
<1>8. Safe'
    BY DEF Safe, Pending, Recoverable, EvidenceRecovers, Intact
<1> QED
    BY <1>1, <1>2, <1>3, <1>4, <1>5, <1>6, <1>7, <1>8

\* Evidence that nothing bound is rewritten.
LEMMA EvidenceChangesStep ==
    ASSUME IInv, EvidenceChanges
    PROVE  IInv'
<1> USE DEF IInv, EvidenceChanges
<1>1. Types'
    BY BoundsAssumption DEF Types
<1>2. Flags'
    BY Zenon DEF Flags
<1>3. Basics'
    BY DEF Basics
<1>4. Ordered'
    BY DEF Ordered
<1>5. Working'
    BY DEF Working, Current, Work
<1>6. RecordedPair'
    BY DEF RecordedPair, Pending
<1>7. MarkerTruthful'
    BY DEF MarkerTruthful
<1>8. Safe'
    BY DEF Safe, Pending
<1> QED
    BY <1>1, <1>2, <1>3, <1>4, <1>5, <1>6, <1>7, <1>8

-----------------------------------------------------------------------------
(* The invariant and what follows from it. *)

\* A new tracker has no notes and no journal.
LEMMA Initially == Init => IInv
<1> SUFFICES ASSUME Init PROVE IInv
    OBVIOUS
<1> USE DEF Init
<1>1. journal \in Seq(Entry) /\ DOMAIN journal = {}
  <2>1. journal = <<>>
    OBVIOUS
  <2> QED
    BY <2>1
<1>2. Types
    BY <1>1, BoundsAssumption DEF Types, Doc, Texts, ExecStates, Terminal
<1>3. Flags
    BY Zenon DEF Flags
<1>4. Basics /\ Working /\ RecordedPair
    BY DEF Basics, Working, RecordedPair
<1>5. Ordered /\ MarkerTruthful /\ Safe
    BY <1>1 DEF Ordered, MarkerTruthful, Safe, Pending
<1> QED
    BY <1>2, <1>3, <1>4, <1>5 DEF IInv

\* A step that changes nothing.
LEMMA Stuttering == IInv /\ UNCHANGED vars => IInv'
<1> SUFFICES ASSUME IInv, UNCHANGED vars PROVE IInv'
    OBVIOUS
<1> USE DEF vars, IInv
<1>1. Types' /\ Basics' /\ Ordered' /\ MarkerTruthful'
    BY DEF Types, Basics, Ordered, MarkerTruthful
<1>2. Flags'
    BY Zenon DEF Flags
<1>3. Working' /\ RecordedPair'
    BY DEF Working, Current, RecordedPair, Pending
<1>4. Safe'
    BY DEF Safe, Pending, Recoverable, EvidenceRecovers, Intact
<1> QED
    BY <1>1, <1>2, <1>3, <1>4

\* Every step keeps the invariant.
LEMMA Inductive == IInv /\ [Next]_vars => IInv'
<1> SUFFICES ASSUME IInv, [Next]_vars PROVE IInv'
    OBVIOUS
<1>1. ASSUME NEW kind \in Kinds, Prepare(kind) \/ CrashInPrepare(kind) PROVE IInv'
    BY <1>1, PrepareStep, CrashInPrepareStep
<1>2. CASE ReplaceNotes \/ ReplaceTracker \/ WriteMarker
    BY <1>2, ReplaceNotesStep, ReplaceTrackerStep, WriteMarkerStep
<1>3. CASE Refuse \/ Crash \/ CrashInMarker
    BY <1>3, RefuseStep, CrashStep, CrashInMarkerStep
<1>4. ASSUME NEW i \in DOMAIN journal, Recover(i) PROVE IInv'
    BY <1>4, RecoverStep
<1>5. CASE CompleteLane \/ BeginRepair
    BY <1>5, CompleteLaneStep, BeginRepairStep
<1>6. ASSUME NEW name \in {"acquire", "renew", "release", "replace_expired"},
             LeaseOperation(name)
      PROVE  IInv'
    BY <1>6, LeaseOperationStep
<1>7. CASE Expire \/ EvidenceChanges
    BY <1>7, ExpireStep, EvidenceChangesStep
<1>8. CASE UNCHANGED vars
    BY <1>8, Stuttering
<1> QED
    BY <1>1, <1>2, <1>3, <1>4, <1>5, <1>6, <1>7, <1>8 DEF Next

\* The invariant holds through every interruption.
THEOREM InvariantCorrect == Spec => []IInv
    BY Initially, Inductive, PTL DEF Spec

\* The tracker, the notes and the journal keep their schemas.
THEOREM TypeCorrect == Spec => []TypeOK
<1>1. IInv => TypeOK
    BY DEF IInv, Types, Flags, TypeOK
<1> QED
    BY <1>1, InvariantCorrect, PTL

\* What is open is alone, what is marked was done, and nothing open means a
\* pair in step (notes transactions of harbor_lane_notes.py,
\* harbor_ready_transitions.py).
THEOREM JournalCorrect == Spec => []JournalSound
<1>1. IInv => OnePending
  <2> SUFFICES ASSUME IInv PROVE OnePending
    OBVIOUS
  <2>1. Pending \subseteq {Len(journal)}
    BY DEF IInv, Ordered, Pending
  <2>2. IsFiniteSet({Len(journal)}) /\ Cardinality({Len(journal)}) = 1
    BY FS_Singleton
  <2>3. Cardinality(Pending) <= Cardinality({Len(journal)})
    BY <2>1, <2>2, FS_Subset
  <2> QED
    BY <2>2, <2>3 DEF OnePending
<1>2. IInv => JournalSound
    BY <1>1 DEF IInv, JournalSound
<1> QED
    BY <1>2, InvariantCorrect, PTL

\* An interruption that nothing disturbed can be recovered ("retain the lease
\* and recover the pair", SKILL.md of the orchestrator).
THEOREM RecoveryCorrect == Spec => []InterruptedRecoverable
<1>1. IInv => InterruptedRecoverable
    BY DEF IInv, Safe, InterruptedRecoverable, Interrupted
<1> QED
    BY <1>1, InvariantCorrect, PTL

\* No late recovery puts a document back over a later one: every change of the
\* tracker is its next revision (recover, recover_snapshot, recover_ready).
THEOREM UpdateCorrect == Spec => NoLostUpdate
<1>1. IInv /\ [Next]_vars => [tracker' # tracker => tracker'.rev = tracker.rev + 1]_tracker
  <2> SUFFICES ASSUME IInv, Next, tracker' # tracker PROVE tracker'.rev = tracker.rev + 1
    BY DEF vars
  <2>1. tracker \in Doc
    BY DEF IInv, Types
  <2>2. CASE ReplaceTracker
    <3>1. /\ work.entry \in DOMAIN journal /\ Current = journal[work.entry]
          /\ tracker \in {Current.before, Current.after} /\ tracker' = Current.after
      BY <2>2 DEF ReplaceTracker, At, IInv, Working, Current
    <3> QED
      BY <3>1 DEF IInv, Ordered, Formed
  <2>3. CASE CompleteLane \/ BeginRepair
    BY <2>1, <2>3 DEF CompleteLane, BeginRepair, Doc
  <2>4. ASSUME NEW name \in {"acquire", "renew", "release", "replace_expired"},
               LeaseOperation(name)
        PROVE  tracker'.rev = tracker.rev + 1
    BY <2>1, <2>4 DEF LeaseOperation, Doc
  <2> QED
    BY <2>2, <2>3, <2>4 DEF Next, Prepare, CrashInPrepare, ReplaceNotes, WriteMarker, Refuse,
        Crash, CrashInMarker, Recover, Expire, EvidenceChanges
<1> QED
    BY <1>1, InvariantCorrect, PTL DEF Spec, NoLostUpdate
-----------------------------------------------------------------------------
(* The lifecycle, through interruptions and recoveries. *)

\* A failure is recorded only on a tracker that is running or stopped by it.
FailingStands(d) == d.failing => d.exec \in {"running", "STOPPED"}

\* What the two documents of an entry are to each other, at whatever time the
\* second one reaches the disk.
Turns(e) ==
    /\ e.after.lease = e.before.lease
    /\ \/ /\ e.before.lease # 0 /\ e.before.exec = "running"
          /\ e.after.exec \in {"running", "STOPPED", "publication_queued"}
       \/ /\ e.before.lease # 0 /\ e.before.exec = "publication_queued"
          /\ e.after.exec \in {"STOPPED", "publication_queued", "PROMOTED"}
       \/ e.before.lease # 0 /\ e.before.exec = "STOPPED" /\ e.after.exec = "STOPPED"
       \/ e.before.lease = 0 /\ e.before.exec = "STOPPED" /\ e.after.exec = "running"

Lives ==
    /\ FailingStands(tracker)
    /\ \A i \in DOMAIN journal : Turns(journal[i]) /\ FailingStands(journal[i].after)

\* What a transaction admits it derives.
LEMMA DerivedTurns ==
    ASSUME Types, Lives, NEW kind \in Kinds, Admits(kind),
           NEW e \in Entry, e.before = tracker, e.after = After(kind)
    PROVE  Turns(e) /\ FailingStands(e.after)
<1>1. /\ e.after.lease = tracker.lease /\ e.after.exec = ExecAfter(kind)
      /\ e.after.failing = (kind \in {"failure", "stop", "snapshot"})
    BY DEF After, Types, Doc
<1>2. tracker.failing => tracker.exec \in {"running", "STOPPED"}
    BY DEF Lives, FailingStands
<1>3. CASE kind \in {"failure", "snapshot"}
    BY <1>1, <1>2, <1>3 DEF Admits, ExecAfter, Held, Turns, FailingStands
<1>4. CASE kind \in {"stop", "enqueue"}
    BY <1>1, <1>4 DEF Admits, ExecAfter, Held, Turns, FailingStands
<1>5. CASE kind \in {"clear", "resume"}
    BY <1>1, <1>5 DEF Admits, ExecAfter, Held, Turns, FailingStands
<1>6. CASE kind = "promoted"
    BY <1>1, <1>6 DEF Admits, ExecAfter, Held, Turns, FailingStands
<1> QED
    BY <1>3, <1>4, <1>5, <1>6 DEF Kinds

\* A new entry, complete or torn.
LEMMA LivesPrepared ==
    ASSUME IInv, Lives, NEW kind \in Kinds, Prepare(kind) \/ CrashInPrepare(kind)
    PROVE  Lives'
<1>1. PICK whole \in BOOLEAN :
        journal' = Append(journal,
            [kind |-> kind, before |-> tracker, after |-> After(kind), prior |-> notes,
             whole |-> whole, marker |-> "none"])
    BY DEF Prepare, CrashInPrepare
<1> DEFINE e == [kind |-> kind, before |-> tracker, after |-> After(kind), prior |-> notes,
                 whole |-> whole, marker |-> "none"]
<1>2. Types /\ Admits(kind) /\ tracker' = tracker /\ journal \in Seq(Entry)
    BY DEF IInv, Types, Prepare, CrashInPrepare
<1>3. e \in Entry
    BY <1>2, AfterTyped DEF Types, Entry
<1>4. Turns(e) /\ FailingStands(e.after)
    BY <1>2, <1>3, DerivedTurns
<1>5. journal' = Append(journal, e)
    BY <1>1
<1> HIDE DEF e
<1>6. /\ DOMAIN journal = 1..Len(journal) /\ DOMAIN journal' = 1..(Len(journal) + 1)
      /\ \A i \in DOMAIN journal : journal'[i] = journal[i]
      /\ journal'[Len(journal) + 1] = e
    BY <1>2, <1>3, <1>5, Appended
<1>7. ASSUME NEW i \in DOMAIN journal'
      PROVE  Turns(journal'[i]) /\ FailingStands(journal'[i].after)
  <2>1. i \in DOMAIN journal \/ i = Len(journal) + 1
    BY <1>2, <1>6
  <2> QED
    BY <1>4, <1>6, <2>1 DEF Lives
<1> QED
    BY <1>2, <1>7 DEF Lives, FailingStands, Turns

\* A marker changes neither document of its entry.
LEMMA LivesMarked ==
    ASSUME IInv, Lives, WriteMarker \/ CrashInMarker
    PROVE  Lives'
<1>1. PICK m \in {"torn", "yes"} : journal' = [journal EXCEPT ![work.entry].marker = m]
    BY DEF WriteMarker, CrashInMarker
<1>2. journal \in Seq(Entry) /\ work.entry \in DOMAIN journal /\ tracker' = tracker
    BY DEF WriteMarker, CrashInMarker, At, IInv, Types, Working
<1>3. /\ DOMAIN journal' = DOMAIN journal
      /\ \A i \in DOMAIN journal : i # work.entry => journal'[i] = journal[i]
      /\ journal'[work.entry] = [journal[work.entry] EXCEPT !.marker = m]
    BY <1>1, <1>2, Marked
<1>4. ASSUME NEW i \in DOMAIN journal
      PROVE  journal'[i].before = journal[i].before /\ journal'[i].after = journal[i].after
  <2>1. journal[i] \in Entry
    BY <1>2
  <2> QED
    BY <1>3, <2>1 DEF Entry
<1> QED
    BY <1>2, <1>3, <1>4 DEF Lives, Turns, FailingStands

LEMMA LivesNext == IInv /\ Lives /\ [Next]_vars => Lives'
<1> SUFFICES ASSUME IInv, Lives, [Next]_vars PROVE Lives'
    OBVIOUS
<1>0. tracker \in Doc
    BY DEF IInv, Types
<1>1. ASSUME NEW kind \in Kinds, Prepare(kind) \/ CrashInPrepare(kind) PROVE Lives'
    BY <1>1, LivesPrepared
<1>2. CASE WriteMarker \/ CrashInMarker
    BY <1>2, LivesMarked
<1>3. CASE ReplaceTracker
  <2>1. /\ work.entry \in DOMAIN journal /\ tracker' = journal[work.entry].after
        /\ journal' = journal
    BY <1>3 DEF ReplaceTracker, At, IInv, Working, Current
  <2> QED
    BY <2>1 DEF Lives, FailingStands
<1>4. CASE CompleteLane \/ BeginRepair
  <2>1. /\ journal' = journal
        /\ tracker'.exec = "running"
    BY <1>0, <1>4 DEF CompleteLane, BeginRepair, Doc
  <2> QED
    BY <2>1 DEF Lives, FailingStands
<1>5. ASSUME NEW name \in {"acquire", "renew", "release", "replace_expired"},
             LeaseOperation(name)
      PROVE  Lives'
  <2>1. /\ journal' = journal
        /\ tracker'.exec = tracker.exec /\ tracker'.failing = tracker.failing
    BY <1>0, <1>5 DEF LeaseOperation, Doc
  <2> QED
    BY <2>1 DEF Lives, FailingStands
<1>6. CASE UNCHANGED <<tracker, journal>>
    BY <1>6 DEF Lives
<1> QED
    BY <1>1, <1>2, <1>3, <1>4, <1>5, <1>6 DEF Next, vars, ReplaceNotes, Refuse, Crash,
        Recover, Expire, EvidenceChanges

\* What a transaction or a recovery replaces, it replaces in one step of the
\* lifecycle, or it finds it done.
LEMMA LifecycleReplace ==
    ASSUME IInv, Lives, ReplaceTracker
    PROVE  Lifecycle!Next \/ UNCHANGED Lifecycle!vars
<1> DEFINE e == journal[work.entry]
           lease == [k \in {"lease"} |-> tracker.lease]
<1>1. /\ work.entry \in DOMAIN journal /\ tracker \in {e.before, e.after} /\ tracker' = e.after
    BY DEF ReplaceTracker, At, IInv, Working, Current
<1>2. CASE tracker = e.after
    BY <1>1, <1>2 DEF Lifecycle!vars
<1>3. CASE tracker = e.before
  <2>1. Turns(e)
    BY <1>1 DEF Lives
  <2>2. Lifecycle!Advance
    BY <1>1, <1>3 DEF Lifecycle!Advance, IInv, Ordered, Formed
  <2>3. lease' = lease /\ Lifecycle!Kinds = {"lease"} /\ lease["lease"] = tracker.lease
    BY <1>1, <1>3, <2>1 DEF Turns, Lifecycle!Kinds
  <2>4. CASE tracker.lease # 0 /\ e.after.exec \in {"running", "STOPPED", "publication_queued"}
    <3>1. Lifecycle!Leads(e.after.exec)
      BY <1>3, <2>1, <2>4 DEF Turns, Lifecycle!Leads, Lifecycle!Terminal
    <3>2. Lifecycle!Write("lease", e.after.exec)
      BY <1>1, <2>2, <2>3, <2>4, <3>1 DEF Lifecycle!Write
    <3> QED
      BY <2>2, <2>3, <2>4, <3>2 DEF Lifecycle!Next
  <2>5. CASE tracker.lease # 0 /\ e.after.exec = "PROMOTED"
    <3>1. tracker.exec = "publication_queued" /\ tracker'.exec = "PROMOTED"
      BY <1>1, <1>3, <2>1, <2>5 DEF Turns
    <3>2. Lifecycle!Promote("lease")
      BY <2>2, <2>3, <2>5, <3>1 DEF Lifecycle!Promote
    <3> QED
      BY <2>2, <2>3, <3>2 DEF Lifecycle!Next
  <2>6. CASE tracker.lease = 0
    <3>1. tracker.exec = "STOPPED" /\ tracker'.exec = "running"
      BY <1>1, <1>3, <2>1, <2>6 DEF Turns
    <3>2. Lifecycle!Resume
      BY <2>2, <2>3, <2>6, <3>1 DEF Lifecycle!Resume
    <3> QED
      BY <2>2, <3>2 DEF Lifecycle!Next
  <2> QED
    BY <1>3, <2>1, <2>4, <2>5, <2>6 DEF Turns
<1> QED
    BY <1>1, <1>2, <1>3

\* The writes that touch the tracker alone.
LEMMA LifecyclePlain ==
    ASSUME tracker \in Doc,
           \/ CompleteLane \/ BeginRepair
           \/ \E name \in {"acquire", "renew", "release", "replace_expired"} : LeaseOperation(name)
    PROVE  Lifecycle!Next
<1> DEFINE lease == [k \in {"lease"} |-> tracker.lease]
<1>1. Lifecycle!Kinds = {"lease"} /\ lease["lease"] = tracker.lease
    BY DEF Lifecycle!Kinds
<1>2. Lifecycle!Terminal = Terminal
    BY DEF Lifecycle!Terminal, Terminal
<1>3. CASE CompleteLane \/ BeginRepair
  <2>1. /\ tracker'.rev = tracker.rev + 1 /\ tracker'.exec = "running"
        /\ tracker'.lease = tracker.lease /\ tracker.lease # 0
        /\ tracker.exec \notin Terminal
    BY <1>3 DEF CompleteLane, BeginRepair, Held, Doc, Terminal
  <2>2. lease' = lease
    BY <2>1
  <2>3. Lifecycle!Write("lease", "running")
    BY <1>1, <1>2, <2>1, <2>2 DEF Lifecycle!Write, Lifecycle!Leads
  <2> QED
    BY <2>1, <1>1, <2>3 DEF Lifecycle!Next, Lifecycle!Advance
<1>4. ASSUME NEW name \in {"acquire", "renew", "release", "replace_expired"},
             LeaseOperation(name)
      PROVE  Lifecycle!Next
  <2>1. tracker'.rev = tracker.rev + 1 /\ tracker'.exec = tracker.exec
    BY <1>4 DEF LeaseOperation, Doc
  <2>2. tracker'.lease = IF name = "renew" THEN tracker.lease
                         ELSE IF name = "release" THEN 0 ELSE tracker.rev + 1
    BY <1>4 DEF LeaseOperation, Doc
  <2>3. CASE name \in {"acquire", "replace_expired"}
    <3>1. tracker.exec \notin Terminal
      BY <1>4, <2>3 DEF LeaseOperation
    <3>2. lease' = [lease EXCEPT !["lease"] = tracker.rev + 1]
      BY <2>2, <2>3
    <3>3. Lifecycle!Grant("lease")
      BY <1>1, <1>2, <2>1, <3>1, <3>2 DEF Lifecycle!Grant
    <3> QED
      BY <2>1, <1>1, <3>3 DEF Lifecycle!Next, Lifecycle!Advance
  <2>4. CASE name = "renew"
    <3>1. tracker.exec \notin Terminal /\ tracker.lease # 0
      BY <1>4, <2>4 DEF LeaseOperation, Held
    <3>2. lease' = lease
      BY <2>2, <2>4
    <3>3. Lifecycle!Renew("lease")
      BY <1>1, <1>2, <2>1, <3>1, <3>2 DEF Lifecycle!Renew
    <3> QED
      BY <2>1, <1>1, <3>3 DEF Lifecycle!Next, Lifecycle!Advance
  <2>5. CASE name = "release"
    <3>1. tracker.lease # 0
      BY <1>4, <2>5 DEF LeaseOperation
    <3>2. lease' = [lease EXCEPT !["lease"] = 0]
      BY <2>2, <2>5
    <3>3. Lifecycle!Release("lease")
      BY <1>1, <2>1, <3>1, <3>2 DEF Lifecycle!Release
    <3> QED
      BY <2>1, <1>1, <3>3 DEF Lifecycle!Next, Lifecycle!Advance
  <2> QED
    BY <2>3, <2>4, <2>5
<1> QED
    BY <1>3, <1>4

\* The pair's tracker implements TrackerLifecycle: a transaction, however it
\* is interrupted, and its recovery, however late, make one step of it between
\* them (ReadyTransitions.transition and the three recoveries).
THEOREM PromiseCorrect == Spec => KeepsLifecycle
<1>1. Init => Lives /\ Lifecycle!Init
    BY DEF Init, Lives, FailingStands, Lifecycle!Init, Lifecycle!Kinds
<1>2. IInv /\ Lives /\ [Next]_vars => [Lifecycle!Next]_(Lifecycle!vars)
  <2> SUFFICES ASSUME IInv, Lives, [Next]_vars
               PROVE  Lifecycle!Next \/ UNCHANGED Lifecycle!vars
    OBVIOUS
  <2>0. tracker \in Doc
    BY DEF IInv, Types
  <2>1. CASE ReplaceTracker
    BY <2>1, LifecycleReplace
  <2>2. CASE \/ CompleteLane \/ BeginRepair
             \/ \E name \in {"acquire", "renew", "release", "replace_expired"} :
                    LeaseOperation(name)
    BY <2>0, <2>2, LifecyclePlain
  <2>3. CASE UNCHANGED tracker
    BY <2>3 DEF Lifecycle!vars
  <2> QED
    BY <2>1, <2>2, <2>3 DEF Next, vars, Prepare, CrashInPrepare, ReplaceNotes, WriteMarker,
        Refuse, Crash, CrashInMarker, Recover, Expire, EvidenceChanges
<1> QED
    BY <1>1, <1>2, LivesNext, InvariantCorrect, PTL DEF Spec, KeepsLifecycle, Lifecycle!Spec
-----------------------------------------------------------------------------
(* Towards the end of an interruption.  That a pending entry is resolved is *)
(* checked on small instances (PendingResolved).  What makes it so, for any *)
(* number of entries, versions and crashes, is proved here: while nothing   *)
(* disturbs it, an open entry that nobody works on can be recovered         *)
(* (RecoveryCorrect), every step of its transaction or recovery leaves less *)
(* to do, and no other step leaves more.                                    *)

OnPending == work # Idle /\ work.entry \in Pending

\* How far the open entry is from its marker; a recovery that is under way is
\* nearer than a transaction, whose lease may run out.
Stage ==
    IF ~OnPending THEN 4
    ELSE (IF work.recovering THEN 0 ELSE 4)
         + (CASE work.step = "prepared" -> 3 [] work.step = "notes" -> 2 [] OTHER -> 1)

Left == IF Pending = {} THEN 0 ELSE 8 * (MaxCrashes - crashes) + Stage

StepsOn == ReplaceNotes \/ ReplaceTracker \/ WriteMarker \/ Refuse

\* An interruption is not undone by time, crashes, or recoveries of entries
\* that were complete: each recovery of it, and each step of one, brings it
\* nearer to its end (recover, recover_snapshot, recover_ready).
RecoveryAdvances ==
    [][Pending # {} /\ ~disturbed' =>
        /\ Left' <= Left
        /\ (\E i \in Pending : Recover(i)) => Left' < Left
        /\ StepsOn /\ OnPending => Left' < Left]_vars

\* One entry at most is open.
LEMMA OneOpen ==
    ASSUME IInv, NEW i \in Pending
    PROVE  Pending = {i}
    BY DEF IInv, Ordered, Pending

LEMMA StageBounds ==
    ASSUME IInv, Pending # {}
    PROVE  /\ Stage \in 1..7 /\ MaxCrashes - crashes \in Nat
           /\ Left = 8 * (MaxCrashes - crashes) + Stage
<1>1. MaxCrashes - crashes \in Nat
    BY BoundsAssumption DEF IInv, Types
<1> QED
    BY <1>1 DEF Stage, Left

\* What neither begins nor ends work on the open entry leaves the distance.
LEMMA SameStage ==
    ASSUME IInv, Pending # {}, Pending' = Pending, crashes' = crashes,
           \/ work' = work
           \/ ~OnPending /\ ~OnPending'
    PROVE  Left' = Left
    BY DEF Left, Stage, OnPending

\* A recovery at its beginning is not the absence of one.
LEMMA RecoveringTyped ==
    ASSUME NEW i \in Nat
    PROVE  [entry |-> i, step |-> "prepared", recovering |-> TRUE] # Idle
<1>1. [entry |-> i, step |-> "prepared", recovering |-> TRUE] \in Work
    BY DEF Work
<1> QED
    BY <1>1, IdleAssumption

LEMMA RecoverNearer ==
    ASSUME IInv, Pending # {}, NEW i \in DOMAIN journal, Recover(i)
    PROVE  Left' <= Left /\ (i \in Pending => Left' < Left)
<1>1. /\ work = Idle /\ Pending' = Pending /\ crashes' = crashes
      /\ work' = [entry |-> i, step |-> "prepared", recovering |-> TRUE]
    BY DEF Recover, Pending
<1>2. Stage = 4 /\ Stage' \in {3, 4} /\ (i \in Pending => Stage' = 3)
  <2>1. ~OnPending
    BY <1>1 DEF OnPending
  <2>2. CASE OnPending'
    BY <1>1, <2>1, <2>2 DEF Stage
  <2>3. CASE ~OnPending'
    <3>1. i \in Nat
      BY DEF IInv, Types
    <3>2. work' # Idle /\ work'.entry = i
      BY <1>1, <3>1, RecoveringTyped
    <3>3. i \notin Pending
      BY <1>1, <2>3, <3>2 DEF OnPending
    <3> QED
      BY <2>1, <2>3, <3>3 DEF Stage
  <2> QED
    BY <2>2, <2>3
<1> QED
    BY <1>1, <1>2, StageBounds DEF Left

\* A recovery that nothing disturbed is not refused.
LEMMA RecoveryNotRefused ==
    ASSUME IInv, ~disturbed, OnPending, Refuse
    PROVE  ~work.recovering
<1> SUFFICES ASSUME work.recovering PROVE FALSE
    OBVIOUS
<1>1. /\ work.step = "tracker" /\ ~MayMark
    BY DEF Refuse, At, Timely, MayReplaceNotes
<1>2. /\ Current.kind \in {"failure", "stop"} /\ ~ValidPair(Current.after, notes)
    BY <1>1 DEF MayMark
<1>3. /\ work.entry \in DOMAIN journal /\ Current = journal[work.entry]
      /\ notes = Text(Current.after)
    BY <1>1 DEF OnPending, IInv, Working, Current
<1>4. Formed(Current) /\ Recoverable(Current)
    BY <1>3 DEF OnPending, IInv, Ordered, Safe
<1> QED
    BY <1>2, <1>3, <1>4 DEF ValidPair, Formed, Recoverable, EvidenceRecovers

LEMMA StepNearer ==
    ASSUME IInv, ~disturbed, OnPending, StepsOn
    PROVE  Left' < Left
<1>1. /\ work \in Work /\ work.entry \in DOMAIN journal /\ journal \in Seq(Entry)
      /\ crashes' = crashes /\ work.recovering \in BOOLEAN
      /\ Pending = {work.entry}
    BY OneOpen DEF OnPending, IInv, Types, Pending, StepsOn, ReplaceNotes, ReplaceTracker,
        WriteMarker, Refuse, Work
<1>2. CASE ReplaceNotes \/ ReplaceTracker
  <2>1. /\ journal' = journal /\ Pending' = Pending
        /\ work'.entry = work.entry /\ work'.recovering = work.recovering
        /\ \/ work.step = "prepared" /\ work'.step = "notes"
           \/ work.step = "notes" /\ work'.step = "tracker"
    BY <1>1, <1>2 DEF ReplaceNotes, ReplaceTracker, At, Pending, Work
  <2>2. CASE OnPending'
    <3>1. Stage' = Stage - 1 /\ Stage \in Nat
      BY <1>1, <2>1, <2>2 DEF Stage
    <3>2. Left = 8 * (MaxCrashes - crashes) + Stage /\ MaxCrashes - crashes \in Nat
      BY <1>1, StageBounds
    <3>3. Left' = 8 * (MaxCrashes - crashes) + Stage'
      BY <1>1, <2>1 DEF Left
    <3> QED
      BY <3>1, <3>2, <3>3
  <2>3. CASE ~OnPending'
    <3>1. work' \in Work
      BY <1>1, <1>2 DEF ReplaceNotes, ReplaceTracker, Work
    <3>2. work' # Idle
      BY <3>1, IdleAssumption
    <3> QED
      BY <1>1, <2>1, <2>3, <3>2 DEF OnPending
  <2> QED
    BY <2>2, <2>3
<1>3. CASE WriteMarker
  <2>1. /\ DOMAIN journal' = DOMAIN journal /\ journal'[work.entry].marker = "yes"
        /\ \A i \in DOMAIN journal : i # work.entry => journal'[i] = journal[i]
    <3>1. journal' = [journal EXCEPT ![work.entry].marker = "yes"]
      BY <1>3 DEF WriteMarker
    <3>2. journal[work.entry] \in Entry
      BY <1>1
    <3> QED
      BY <1>1, <3>1, <3>2, Marked DEF Entry
  <2>2. Pending' = {}
    BY <1>1, <2>1 DEF Pending
  <2>3. Left' = 0
    BY <2>2 DEF Left
  <2>4. /\ Left = 8 * (MaxCrashes - crashes) + Stage /\ Stage \in 1..7
        /\ MaxCrashes - crashes \in Nat
    BY <1>1, StageBounds
  <2> QED
    BY <2>3, <2>4
<1>4. CASE Refuse
  <2>1. ~work.recovering /\ work' = Idle /\ Pending' = Pending
    BY <1>4, RecoveryNotRefused DEF Refuse, Pending
  <2>2. Stage \in 5..7 /\ Stage' = 4
    BY <1>1, <2>1 DEF Stage, OnPending
  <2>3. Left = 8 * (MaxCrashes - crashes) + Stage /\ MaxCrashes - crashes \in Nat
    BY <1>1, StageBounds
  <2>4. Left' = 8 * (MaxCrashes - crashes) + 4
    BY <1>1, <2>1, <2>2 DEF Left
  <2> QED
    BY <2>2, <2>3, <2>4
<1> QED
    BY <1>2, <1>3, <1>4 DEF StepsOn

\* A step of a recovery of an entry that was complete already.
LEMMA StepElsewhere ==
    ASSUME IInv, Pending # {}, ~OnPending, StepsOn
    PROVE  Left' = Left
<1>1. /\ work \in Work /\ work # Idle /\ work.entry \in DOMAIN journal /\ journal \in Seq(Entry)
      /\ crashes' = crashes /\ work.entry \notin Pending
    BY DEF OnPending, IInv, Types, Working, StepsOn, ReplaceNotes, ReplaceTracker,
        WriteMarker, Refuse, At
<1>2. CASE ReplaceNotes \/ ReplaceTracker
  <2>1. Pending' = Pending /\ work'.entry = work.entry
    BY <1>1, <1>2 DEF ReplaceNotes, ReplaceTracker, Pending, Work
  <2> QED
    BY <1>1, <2>1, SameStage DEF OnPending
<1>3. CASE WriteMarker
  <2>1. /\ DOMAIN journal' = DOMAIN journal /\ journal'[work.entry].marker = "yes"
        /\ \A i \in DOMAIN journal : i # work.entry => journal'[i] = journal[i]
        /\ work' = Idle
    <3>1. journal' = [journal EXCEPT ![work.entry].marker = "yes"] /\ work' = Idle
      BY <1>3 DEF WriteMarker
    <3>2. journal[work.entry] \in Entry
      BY <1>1
    <3> QED
      BY <1>1, <3>1, <3>2, Marked DEF Entry
  <2>2. Pending' = Pending
    BY <1>1, <2>1 DEF Pending
  <2> QED
    BY <1>1, <2>1, <2>2, SameStage DEF OnPending
<1>4. CASE Refuse
    BY <1>1, <1>4, SameStage DEF Refuse, OnPending, Pending
<1> QED
    BY <1>2, <1>3, <1>4 DEF StepsOn

\* A crash brings its work back to the recovery, and there is one crash less.
LEMMA CrashNearer ==
    ASSUME IInv, Pending # {}, Crash
    PROVE  Left' < Left
<1>1. /\ Pending' = Pending /\ crashes' = crashes + 1 /\ crashes < MaxCrashes /\ work' = Idle
    BY DEF Crash, Pending
<1>2. Stage' = 4 /\ crashes \in Nat
    BY <1>1 DEF Stage, OnPending, IInv, Types
<1> QED
    BY <1>1, <1>2, StageBounds, BoundsAssumption DEF Left

\* Fewer crashes happened than may happen.
LEMMA CrashesRemain ==
    ASSUME NEW c \in Nat, NEW m \in Nat, c <= m
    PROVE  m - c \in Nat
BY SMT

\* Recovery of an interruption only advances.
THEOREM RecoveryProgress == Spec => RecoveryAdvances
<1>1. ASSUME IInv, [Next]_vars, Pending # {}, ~disturbed'
      PROVE  /\ Left' <= Left
             /\ (\E i \in Pending : Recover(i)) => Left' < Left
             /\ StepsOn /\ OnPending => Left' < Left
  <2>0. Left \in Nat /\ IInv'
    BY <1>1, StageBounds, Inductive
  <2>00. Left' \in Nat
    <3>1. Left' = IF Pending' = {} THEN 0 ELSE 8 * (MaxCrashes - crashes') + Stage'
      BY DEF Left
    <3>2. MaxCrashes - crashes' \in Nat
      <4>1. crashes' \in 0..MaxCrashes
        BY <2>0 DEF IInv, Types
      <4>2. crashes' \in Nat /\ crashes' <= MaxCrashes /\ MaxCrashes \in Nat
        BY <4>1, BoundsAssumption
      <4> QED
        BY <4>2, CrashesRemain
    <3>3. Stage' \in Nat
      BY DEF Stage
    <3> QED
      BY <3>1, <3>2, <3>3
  <2>1. CASE StepsOn /\ OnPending
    <3>1. ~disturbed /\ work # Idle
      BY <1>1, <2>1 DEF StepsOn, ReplaceNotes, ReplaceTracker, WriteMarker, Refuse, OnPending
    <3>2. Left' < Left
      BY <1>1, <2>1, <3>1, StepNearer
    <3>4. Left' <= Left
      BY <2>0, <2>00, <3>2
    <3> QED
      BY <3>2, <3>4
  <2>2. CASE StepsOn /\ ~OnPending
    <3>1. Left' = Left
      BY <1>1, <2>2, StepElsewhere
    <3>2. work # Idle
      BY <2>2 DEF StepsOn, ReplaceNotes, ReplaceTracker, WriteMarker, Refuse, At
    <3> QED
      BY <2>0, <2>2, <3>1, <3>2 DEF Recover
  <2>3. ASSUME NEW i \in DOMAIN journal, Recover(i)
        PROVE  /\ Left' <= Left /\ (i \in Pending => Left' < Left)
               /\ ~OnPending
    BY <1>1, <2>3, RecoverNearer DEF Recover, OnPending
  <2>4. CASE Crash
    <3>1. Left' < Left /\ work # Idle
      BY <1>1, <2>4, CrashNearer DEF Crash
    <3> QED
      BY <2>0, <2>00, <3>1
  <2>5. CASE UNCHANGED <<journal, work, crashes>> /\ ~StepsOn
    <3>1. Pending' = Pending
      BY <2>5 DEF Pending
    <3>2. Left' = Left
      BY <1>1, <2>5, <3>1, SameStage
    <3>3. ASSUME NEW i \in Pending PROVE ~Recover(i)
      <4>1. i \in Nat
        BY <1>1 DEF Pending, IInv, Types
      <4>2. Recover(i) => work = Idle /\ work' # Idle
        BY <4>1, RecoveringTyped DEF Recover
      <4> QED
        BY <2>5, <4>2
    <3> QED
      BY <2>0, <2>5, <3>2, <3>3
  <2>6. ASSUME NEW kind \in Kinds PROVE ~Prepare(kind) /\ ~CrashInPrepare(kind)
    BY <1>1 DEF Prepare, CrashInPrepare, Synchronized
  <2>7. ~CompleteLane /\ ~BeginRepair /\ ~CrashInMarker
    BY <1>1 DEF CompleteLane, BeginRepair, CrashInMarker, Synchronized
  <2>8. CASE UNCHANGED <<journal, work, crashes>> /\ StepsOn
    BY <2>1, <2>2, <2>8
  <2>9. CASE \E i \in DOMAIN journal : Recover(i)
    <3>1. work = Idle
      BY <2>9 DEF Recover
    <3>2. ~OnPending
      BY <3>1 DEF OnPending
    <3>3. (\E i \in Pending : Recover(i)) => Left' < Left
      BY <2>3 DEF Pending
    <3> QED
      BY <2>3, <2>9, <3>2, <3>3
  <2> QED
    BY <1>1, <2>1, <2>2, <2>4, <2>5, <2>6, <2>7, <2>8, <2>9 DEF Next, vars, StepsOn,
        LeaseOperation, Expire, EvidenceChanges
<1>2. IInv /\ [Next]_vars =>
        [Pending # {} /\ ~disturbed' =>
            /\ Left' <= Left
            /\ (\E i \in Pending : Recover(i)) => Left' < Left
            /\ StepsOn /\ OnPending => Left' < Left]_vars
    BY <1>1
<1> QED
    BY <1>2, InvariantCorrect, PTL DEF Spec, RecoveryAdvances
=============================================================================

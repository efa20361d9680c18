---------------------- MODULE HarborPublication_proofs ----------------------
(***************************************************************************)
(* Proofs about one publication, for any number of invocations: its types, *)
(* what a promoted tracker and a kept result stand for, that a release is  *)
(* not published again, that execute refuses only for a cause, and that    *)
(* every step of an undisturbed publication brings it nearer to its end.   *)
(*                                                                         *)
(* The invariant has three parts: the receipts come in the order of the    *)
(* steps (Journal), the promotion's transaction is where its step says     *)
(* (Promotion), and as long as nothing intervened the files are exactly    *)
(* what the receipts say, give or take the step that was interrupted       *)
(* (Undisturbed).                                                          *)
(***************************************************************************)
EXTENDS HarborPublication, TLAPS

\* The document after the first of the two releases.
Halfway == Append(Promoted, "publication")

Closing == {"qualify", "report"} \cup Leases
Promoting ==
    {"prepare", "replace notes", "replace tracker", "restore notes", "restore tracker", "mark",
     "close", "keep promotion"}
Delivered == {"promote"} \cup Promoting \cup Closing
Published == {"deliver", "redeliver"} \cup Delivered
Intended ==
    {"check output", "check tracker", "publish", "move aside", "move in", "publish again"}
        \cup Published

\* Receipts are kept in the order of the steps.
Journal ==
    /\ kept # {} => "intent" \in kept
    /\ "task" \in kept => "acquired" \in kept
    /\ "release intent" \in kept => "task" \in kept
    /\ "release" \in kept => "release intent" \in kept
    /\ "output" \in kept => "release" \in kept
    /\ "promoted" \in kept => "output" \in kept
    /\ "publication" \in kept => "promoted" \in kept
    /\ "task_agent" \in kept => "publication" \in kept
    /\ "result" \in kept => "task_agent" \in kept
    /\ ~Stopped => "intent" \in kept
    /\ ~Stopped /\ pc # "execute" => "acquired" \in kept
    /\ pc = "intend" => "task" \in kept
    /\ pc \in Intended => "release intent" \in kept
    /\ pc \in Published => "release" \in kept
    /\ pc \in Delivered => "output" \in kept
    /\ pc \in Closing => "promoted" \in kept
    /\ pc \in {"task_agent", "report"} => "publication" \in kept
    /\ pc = "report" => "task_agent" \in kept
    /\ pc \in Promoting \cup {"move aside", "move in"} => "promoted" \notin kept

\* The transaction of the promotion, against the step that is in it.
Promotion ==
    /\ pc = "prepare" => transaction = "torn"
    /\ pc \in {"replace notes", "replace tracker"} => transaction = "prepared"
    /\ pc \in {"restore notes", "restore tracker", "mark"} =>
        transaction \in {"prepared", "complete"}
    /\ pc = "close" => transaction = "torn marker"
    /\ pc = "keep promotion" => transaction = "complete"
    /\ "promoted" \in kept => transaction = "complete"
    /\ pc \in {"prepare", "replace notes", "replace tracker"} => tracker = Acquired
    /\ pc \in {"restore notes", "restore tracker"} => tracker \in {Acquired, Promoted}
    /\ pc \in {"mark", "close"} => tracker = Promoted
    /\ Wrote("promoted") => "output" \in kept /\ transaction \notin {"none", "torn"}
    /\ "result" \in kept => tracker = Released /\ output = "task"

\* What the files are while nothing has intervened.
Calm ==
    /\ expired = {}
    /\ pointer \in {"prior", "ours"}
    /\ tracker \in {<<>>, Acquired, Promoted, Halfway, Released}
    /\ tracker = <<>> => "acquired" \notin kept
    /\ "promoted" \in kept => tracker \in {Promoted, Halfway, Released}
    /\ tracker \in {Halfway, Released} => "promoted" \in kept
    /\ "publication" \in kept => tracker \in {Halfway, Released}
    /\ tracker = Released => "publication" \in kept
    /\ "task_agent" \in kept => tracker = Released
    /\ pc = "keep promotion" => tracker = Promoted
    /\ pointer = "prior" =>
        output = initial /\ ~aside /\ "release" \notin kept
            /\ pc \notin {"move aside", "move in", "publish again"}
    /\ pointer = "ours" => "release intent" \in kept
    /\ pointer = "ours" /\ pc \in {"check output", "check tracker", "publish"} => resuming
    /\ output \in {initial, "task"} \/ pc \in {"move in", "redeliver"}
    /\ aside => output = "task" \/ (pc = "redeliver" /\ initial # "absent")
    /\ pc \in {"move aside", "move in", "redeliver"} => "output" \notin kept
    /\ pc \in {"move in", "redeliver"} => output = "absent"
    /\ pc = "move aside" => ~aside
    /\ "output" \in kept => output = "task"
    /\ transaction = "torn" => pc = "prepare"
    /\ transaction = "torn marker" => pc = "close"

Undisturbed == ~disturbed => Calm

Events == {"acquire", "promoted", "foreign"} \cup Leases

\* Every kind of event is in the document at most once.
Once(s) == \A i, j \in DOMAIN s : s[i] = s[j] => i = j

Documented == tracker \in Seq(Events) /\ Once(tracker)

Fields ==
    /\ expired \subseteq Leases /\ kept \subseteq Receipts
    /\ pointer \in {"prior", "ours", "other"} /\ initial \in {"old", "absent"}
    /\ output \in {"old", "absent", "task"}
    /\ transaction \in {"none", "torn", "prepared", "torn marker", "complete"}
    /\ pc \in Steps /\ invocations \in 0..MaxInvocations

Flags == aside \in BOOLEAN /\ resuming \in BOOLEAN /\ disturbed \in BOOLEAN

IInv == Documented /\ Fields /\ Flags /\ Journal /\ Promotion /\ Undisturbed
-----------------------------------------------------------------------------
(* Documents. *)

\* Document t is document s and one more event.
Extends(s, e, t) == t = Append(s, e)

Within(s, x) == \E i \in DOMAIN s : s[i] = x

\* A document with one more event.
LEMMA Extension ==
    ASSUME NEW s \in Seq(Events), NEW e \in Events, NEW t, Extends(s, e, t)
    PROVE  /\ t \in Seq(Events) /\ Len(t) = Len(s) + 1
           /\ \A x : Within(t, x) <=> Within(s, x) \/ x = e
           /\ Once(s) /\ ~Within(s, e) => Once(t)
<1>1. /\ t \in Seq(Events) /\ Len(t) = Len(s) + 1 /\ Len(s) \in Nat
      /\ DOMAIN s = 1..Len(s) /\ DOMAIN t = 1..(Len(s) + 1)
      /\ \A i \in 1..Len(s) : t[i] = s[i]
      /\ t[Len(s) + 1] = e
    BY DEF Extends
<1>2. ASSUME NEW x PROVE Within(t, x) <=> Within(s, x) \/ x = e
    BY <1>1 DEF Within
<1>3. Once(s) /\ ~Within(s, e) => Once(t)
    BY <1>1 DEF Within, Once
<1> QED
    BY <1>1, <1>2, <1>3

\* The undisturbed documents, each made from the one before it.
LEMMA Made ==
    /\ Extends(<<>>, "acquire", Acquired) /\ Extends(Acquired, "promoted", Promoted)
    /\ Extends(Promoted, "publication", Halfway) /\ Extends(Halfway, "task_agent", Released)
    /\ Before("publication") = Promoted /\ Before("task_agent") = Halfway
    /\ "acquire" \in Events /\ "promoted" \in Events /\ "foreign" \in Events
    /\ "publication" \in Events /\ "task_agent" \in Events
<1>1. Extends(<<>>, "acquire", Acquired) /\ Extends(Acquired, "promoted", Promoted)
    BY DEF Extends, Acquired, Promoted
<1>2. Extends(Promoted, "publication", Halfway)
    BY DEF Extends, Halfway
<1>3. Extends(Halfway, "task_agent", Released)
    BY DEF Extends, Halfway, Released, Before
<1>4. Before("publication") = Promoted /\ Before("task_agent") = Halfway
    BY DEF Before, Halfway
<1>5. /\ "acquire" \in Events /\ "promoted" \in Events /\ "foreign" \in Events
      /\ "publication" \in Events /\ "task_agent" \in Events
    BY DEF Events, Leases
<1> QED
    BY <1>1, <1>2, <1>3, <1>4, <1>5

\* A document of n events.
Document(s, n) == s \in Seq(Events) /\ Len(s) = n

\* How long they are.
LEMMA Shapes ==
    /\ Document(<<>>, 0) /\ Document(Acquired, 1) /\ Document(Promoted, 2)
    /\ Document(Halfway, 3) /\ Document(Released, 4)
<1>1. ASSUME NEW s, NEW n \in Nat, Document(s, n), NEW e \in Events, NEW t, Extends(s, e, t)
      PROVE  Document(t, n + 1)
    BY <1>1, Extension DEF Document
<1>2. Document(<<>>, 0)
    BY DEF Document
<1>3. Document(Acquired, 0 + 1)
    BY <1>1, <1>2, Made
<1>4. Document(Promoted, 1 + 1)
    BY <1>1, <1>3, Made
<1>5. Document(Halfway, 2 + 1)
    BY <1>1, <1>4, Made
<1>6. Document(Released, 3 + 1)
    BY <1>1, <1>5, Made
<1> QED
    BY <1>2, <1>3, <1>4, <1>5, <1>6

\* No two of them are the same.
LEMMA Different ==
    /\ <<>> \notin {Acquired, Promoted, Halfway, Released}
    /\ Acquired \notin {Promoted, Halfway, Released}
    /\ Promoted \notin {Halfway, Released}
    /\ Halfway # Released
<1>1. ASSUME NEW s, NEW t, NEW m, NEW n, Document(s, m), Document(t, n), m # n
      PROVE  s # t
    BY <1>1 DEF Document
<1> QED
    BY <1>1, Shapes

\* What is in them.
LEMMA Contents ==
    /\ \A x : ~Within(<<>>, x)
    /\ \A x : Within(Acquired, x) <=> x = "acquire"
    /\ \A x : Within(Promoted, x) <=> x \in {"acquire", "promoted"}
    /\ \A x : Within(Halfway, x) <=> x \in {"acquire", "promoted", "publication"}
    /\ \A x : Within(Released, x) <=> x \in {"acquire", "promoted", "publication", "task_agent"}
<1>1. \A x : ~Within(<<>>, x)
    BY DEF Within
<1>2. \A x : Within(Acquired, x) <=> x = "acquire"
    BY <1>1, Made, Shapes, Extension DEF Document
<1>3. \A x : Within(Promoted, x) <=> x \in {"acquire", "promoted"}
    BY <1>2, Made, Shapes, Extension DEF Document
<1>4. \A x : Within(Halfway, x) <=> x \in {"acquire", "promoted", "publication"}
    BY <1>3, Made, Shapes, Extension DEF Document
<1>5. \A x : Within(Released, x) <=> x \in {"acquire", "promoted", "publication", "task_agent"}
    BY <1>4, Made, Shapes, Extension DEF Document
<1> QED
    BY <1>1, <1>2, <1>3, <1>4, <1>5

\* The documents after the promotion begin with it.
LEMMA Beginnings ==
    ASSUME NEW s \in {Promoted, Halfway, Released}
    PROVE  Len(s) >= 2 /\ SubSeq(s, 1, 2) = Promoted
<1> DEFINE Begins(t) == Len(t) >= 2 /\ SubSeq(t, 1, 2) = Promoted
<1>1. Begins(Promoted)
    BY Shapes DEF Document
<1>2. ASSUME NEW t \in Seq(Events), Begins(t), NEW e \in Events, NEW u, Extends(t, e, u)
      PROVE  Begins(u)
    BY <1>2 DEF Extends
<1> HIDE DEF Begins
<1>3. Begins(Halfway)
    BY <1>1, <1>2, Made, Shapes DEF Document
<1>4. Begins(Released)
    BY <1>2, <1>3, Made, Shapes DEF Document
<1> QED
    BY <1>1, <1>3, <1>4 DEF Begins
-----------------------------------------------------------------------------
(* Steps. *)

\* What a step has checked.
LEMMA Checked ==
    ASSUME Passes
    PROVE  /\ pc = "execute" => MayAcquire
           /\ pc = "stage task" => MayStageTask
           /\ pc = "publish" => MayPublish
           /\ pc = "deliver" => MayDeliver
           /\ pc = "promote" => MayPromote
           /\ pc = "qualify" => Qualified
           /\ pc \in Leases => MayRelease(pc)
           /\ pc = "report" => output = "task" /\ tracker = Released
    BY DEF Passes, Leases

LEMMA Unwritten ==
    ASSUME UNCHANGED tracker
    PROVE  (Documented => Documented') /\ \A x : Wrote(x)' <=> Wrote(x)
    BY DEF Documented, Once, Wrote

\* An event that is new to the document.
LEMMA Writing ==
    ASSUME Documented, NEW e \in Events, ~Wrote(e), tracker' = Append(tracker, e)
    PROVE  Documented' /\ \A x : Wrote(x)' <=> Wrote(x) \/ x = e
<1>1. tracker \in Seq(Events) /\ Once(tracker) /\ ~Within(tracker, e)
    BY DEF Documented, Wrote, Within
<1>2. Extends(tracker, e, tracker')
    BY DEF Extends
<1>3. /\ tracker' \in Seq(Events) /\ Once(tracker')
      /\ \A x : Within(tracker', x) <=> Within(tracker, x) \/ x = e
    BY <1>1, <1>2, Extension
<1> QED
    BY <1>3 DEF Documented, Once, Wrote, Within

LEMMA NextShape ==
    ASSUME NEW e, tracker' = Append(tracker, e)
    PROVE  /\ tracker = <<>> /\ e = "acquire" => tracker' = Acquired
           /\ tracker = Acquired /\ e = "promoted" => tracker' = Promoted
           /\ tracker = Promoted /\ e = "publication" => tracker' = Halfway
           /\ tracker = Halfway /\ e = "task_agent" => tracker' = Released
    BY Made DEF Extends

\* What was written to the documents that nothing disturbed.
LEMMA WroteShapes ==
    /\ tracker \in {<<>>, Acquired} => ~Wrote("promoted")
    /\ tracker \in {Promoted, Halfway, Released} => Wrote("promoted")
    /\ tracker = <<>> => ~Wrote("acquire")
    /\ tracker = Promoted => ~Wrote("publication")
    /\ tracker = Halfway => ~Wrote("task_agent")
    /\ tracker = Released => Wrote("publication") /\ Wrote("task_agent")
    BY Contents DEF Wrote, Within

\* The type invariant, in the parts that are proved.
LEMMA Typed == PublicationTypeOK <=> Documented /\ Fields /\ Flags
    BY DEF PublicationTypeOK, Documented, Fields, Flags, Once, Events

\* One more invocation within the bound.
LEMMA Counted ==
    ASSUME invocations \in 0..MaxInvocations, invocations < MaxInvocations,
           invocations' = invocations + 1
    PROVE  invocations' \in 0..MaxInvocations
    BY InvocationsAssumption

\* Whether the release intent was found is a flag.
LEMMA Flagged ==
    ASSUME aside \in BOOLEAN, disturbed \in BOOLEAN, UNCHANGED <<aside, disturbed>>,
           NEW x, NEW S, resuming' = (x \in S)
    PROVE  Flags'
<1>1. CASE x \in S
    BY <1>1, Zenon DEF Flags
<1>2. CASE x \notin S
  <2>1. (x \in S) = FALSE
    BY <1>2
  <2>2. resuming' = FALSE
    BY <2>1, Zenon
  <2> QED
    BY <2>2, Zenon DEF Flags
<1> QED
    BY <1>1, <1>2

\* As long as nothing has intervened, a running child passes every check.
LEMMA CalmPasses ==
    ASSUME IInv, ~disturbed, ~Stopped
    PROVE  Passes
<1> USE DEF IInv, Stopped
<1>1. Calm
    BY DEF Undisturbed
<1>2. pc = "execute" => MayAcquire
    BY <1>1, WroteShapes, Different DEF MayAcquire, Calm, Live, Journal, Promotion
<1>3. pc = "check leases" => BothLive
    BY <1>1 DEF BothLive, Calm, Live, Leases
<1>4. pc = "stage task" => MayStageTask
    BY <1>1, WroteShapes DEF MayStageTask, Calm, Journal, Promotion
<1>5. pc = "check output" => OutputKnown
    BY <1>1 DEF OutputKnown, Calm
<1>6. pc = "check tracker" => TrackerKnown
    BY <1>1, WroteShapes, Beginnings DEF TrackerKnown, Calm, Journal, Promotion, Intended
<1>7. pc = "publish" => MayPublish
    BY <1>1 DEF MayPublish, Calm, Journal
<1>8. pc = "deliver" => MayDeliver
    BY <1>1 DEF MayDeliver, Calm
<1>9. pc = "promote" => MayPromote
    BY <1>1, WroteShapes, Different DEF MayPromote, Calm, Journal, Promotion, Intended,
        Published, Delivered, Live, Fields
<1>10. pc \in {"replace notes", "replace tracker"} => Live("publication") /\ pointer = "ours"
    BY <1>1 DEF Calm, Journal, Intended, Published, Delivered, Promoting, Live
<1>11. pc \in {"qualify", "report"} => Qualified
    BY <1>1, Beginnings DEF Qualified, Calm, Journal, Promotion, Intended, Published,
        Delivered, Closing
<1>12. pc \in Leases => MayRelease(pc)
    BY <1>1, Made, Different DEF MayRelease, Calm, Journal, Closing, Leases, Live, Extends
<1>13. pc = "report" => output = "task" /\ tracker = Released
    BY <1>1 DEF Calm, Journal, Intended, Published, Delivered, Closing
<1> QED
    BY <1>2, <1>3, <1>4, <1>5, <1>6, <1>7, <1>8, <1>9, <1>10, <1>11, <1>12, <1>13
    DEF Passes, Leases

\* The receipt of an acquisition is kept once the document shows it.
LEMMA AcquireKeptStep ==
    ASSUME IInv, At("execute") /\ tracker # <<>> /\ Keeps("acquired", "check leases")
    PROVE  IInv'
<1> USE DEF IInv, At, Goes, Keeps, Writes, Enters, files, world, Stopped, TrackerLocked,
    StoreLocked, Invoke, Disturbs
<1>1. UNCHANGED tracker
    OBVIOUS
<1>2. Documented'
    BY <1>1, Unwritten
<1>3. Fields'
    BY DEF Fields, Steps, Receipts, Leases
<1>4. Flags'
    BY Zenon DEF Flags
<1>5. Journal'
    BY Checked DEF Journal, Intended, Published, Delivered, Promoting, Closing, Leases
<1>6. Promotion'
    BY <1>1, Unwritten, Checked DEF Promotion, Journal, Intended, Published, Delivered,
        Promoting, Closing, Leases
<1>7. ASSUME ~disturbed' PROVE Calm'
  <2>1. ~disturbed /\ Calm
    BY <1>7 DEF Undisturbed
  <2> QED
    BY <1>7, <2>1, Checked, Different DEF Calm, Fields, Journal, Intended, Published,
        Delivered, Promoting, Closing, Leases
<1> QED
    BY <1>2, <1>3, <1>4, <1>5, <1>6, <1>7 DEF Undisturbed

\* Both leases are found live.
LEMMA LeasesCheckedStep ==
    ASSUME IInv, At("check leases") /\ Goes("stage task") /\ UNCHANGED files
    PROVE  IInv'
<1> USE DEF IInv, At, Goes, Keeps, Writes, Enters, files, world, Stopped, TrackerLocked,
    StoreLocked, Invoke, Disturbs
<1>1. UNCHANGED tracker
    OBVIOUS
<1>2. Documented'
    BY <1>1, Unwritten
<1>3. Fields'
    BY DEF Fields, Steps, Receipts, Leases
<1>4. Flags'
    BY Zenon DEF Flags
<1>5. Journal'
    BY Checked DEF Journal, Intended, Published, Delivered, Promoting, Closing, Leases
<1>6. Promotion'
    BY <1>1, Unwritten, Checked DEF Promotion, Journal, Intended, Published, Delivered,
        Promoting, Closing, Leases
<1>7. ASSUME ~disturbed' PROVE Calm'
  <2>1. ~disturbed /\ Calm
    BY <1>7 DEF Undisturbed
  <2> QED
    BY <1>7, <2>1, Checked, Different DEF Calm, Fields, Journal, Intended, Published,
        Delivered, Promoting, Closing, Leases
<1> QED
    BY <1>2, <1>3, <1>4, <1>5, <1>6, <1>7 DEF Undisturbed

\* The staged task is retained.
LEMMA StageTaskStep ==
    ASSUME IInv, StageTask
    PROVE  IInv'
<1> USE DEF IInv, At, Goes, Keeps, Writes, Enters, files, world, Stopped, TrackerLocked,
    StoreLocked, Invoke, Disturbs, StageTask
<1>1. UNCHANGED tracker
    OBVIOUS
<1>2. Documented'
    BY <1>1, Unwritten
<1>3. Fields'
    BY DEF Fields, Steps, Receipts, Leases
<1>4. Flags'
    BY Zenon DEF Flags
<1>5. Journal'
    BY Checked DEF Journal, Intended, Published, Delivered, Promoting, Closing, Leases
<1>6. Promotion'
    BY <1>1, Unwritten, Checked DEF Promotion, Journal, Intended, Published, Delivered,
        Promoting, Closing, Leases
<1>7. ASSUME ~disturbed' PROVE Calm'
  <2>1. ~disturbed /\ Calm
    BY <1>7 DEF Undisturbed
  <2> QED
    BY <1>7, <2>1, Checked, Different DEF Calm, Fields, Journal, Intended, Published,
        Delivered, Promoting, Closing, Leases
<1> QED
    BY <1>2, <1>3, <1>4, <1>5, <1>6, <1>7 DEF Undisturbed

\* The release intent is retained, or found from an earlier invocation.
LEMMA IntendStep ==
    ASSUME IInv, Intend
    PROVE  IInv'
<1> USE DEF IInv, At, Goes, Keeps, Writes, Enters, files, world, Stopped, TrackerLocked,
    StoreLocked, Invoke, Disturbs, Intend
<1>1. UNCHANGED tracker
    OBVIOUS
<1>2. Documented'
    BY <1>1, Unwritten
<1>3. Fields'
    BY DEF Fields, Steps, Receipts, Leases
<1>4. Flags'
    BY Flagged DEF Flags
<1>5. Journal'
    BY Checked DEF Journal, Intended, Published, Delivered, Promoting, Closing, Leases
<1>6. Promotion'
    BY <1>1, Unwritten, Checked DEF Promotion, Journal, Intended, Published, Delivered,
        Promoting, Closing, Leases
<1>7. ASSUME ~disturbed' PROVE Calm'
  <2>1. ~disturbed /\ Calm
    BY <1>7 DEF Undisturbed
  <2> QED
    BY <1>7, <2>1, Checked, Different DEF Calm, Fields, Journal, Intended, Published,
        Delivered, Promoting, Closing, Leases
<1> QED
    BY <1>2, <1>3, <1>4, <1>5, <1>6, <1>7 DEF Undisturbed

\* The output is one that execute knows.
LEMMA OutputCheckedStep ==
    ASSUME IInv, At("check output") /\ Goes("check tracker") /\ UNCHANGED files
    PROVE  IInv'
<1> USE DEF IInv, At, Goes, Keeps, Writes, Enters, files, world, Stopped, TrackerLocked,
    StoreLocked, Invoke, Disturbs
<1>1. UNCHANGED tracker
    OBVIOUS
<1>2. Documented'
    BY <1>1, Unwritten
<1>3. Fields'
    BY DEF Fields, Steps, Receipts, Leases
<1>4. Flags'
    BY Zenon DEF Flags
<1>5. Journal'
    BY Checked DEF Journal, Intended, Published, Delivered, Promoting, Closing, Leases
<1>6. Promotion'
    BY <1>1, Unwritten, Checked DEF Promotion, Journal, Intended, Published, Delivered,
        Promoting, Closing, Leases
<1>7. ASSUME ~disturbed' PROVE Calm'
  <2>1. ~disturbed /\ Calm
    BY <1>7 DEF Undisturbed
  <2> QED
    BY <1>7, <2>1, Checked, Different DEF Calm, Fields, Journal, Intended, Published,
        Delivered, Promoting, Closing, Leases
<1> QED
    BY <1>2, <1>3, <1>4, <1>5, <1>6, <1>7 DEF Undisturbed

\* The document is one that execute knows.
LEMMA TrackerCheckedStep ==
    ASSUME IInv, At("check tracker") /\ Goes("publish") /\ UNCHANGED files
    PROVE  IInv'
<1> USE DEF IInv, At, Goes, Keeps, Writes, Enters, files, world, Stopped, TrackerLocked,
    StoreLocked, Invoke, Disturbs
<1>1. UNCHANGED tracker
    OBVIOUS
<1>2. Documented'
    BY <1>1, Unwritten
<1>3. Fields'
    BY DEF Fields, Steps, Receipts, Leases
<1>4. Flags'
    BY Zenon DEF Flags
<1>5. Journal'
    BY Checked DEF Journal, Intended, Published, Delivered, Promoting, Closing, Leases
<1>6. Promotion'
    BY <1>1, Unwritten, Checked DEF Promotion, Journal, Intended, Published, Delivered,
        Promoting, Closing, Leases
<1>7. ASSUME ~disturbed' PROVE Calm'
  <2>1. ~disturbed /\ Calm
    BY <1>7 DEF Undisturbed
  <2> QED
    BY <1>7, <2>1, Checked, Different DEF Calm, Fields, Journal, Intended, Published,
        Delivered, Promoting, Closing, Leases
<1> QED
    BY <1>2, <1>3, <1>4, <1>5, <1>6, <1>7 DEF Undisturbed

\* The release is found current.
LEMMA PublishedBeforeStep ==
    ASSUME IInv, At("publish") /\ pointer = "ours" /\ Keeps("release", "deliver")
    PROVE  IInv'
<1> USE DEF IInv, At, Goes, Keeps, Writes, Enters, files, world, Stopped, TrackerLocked,
    StoreLocked, Invoke, Disturbs
<1>1. UNCHANGED tracker
    OBVIOUS
<1>2. Documented'
    BY <1>1, Unwritten
<1>3. Fields'
    BY DEF Fields, Steps, Receipts, Leases
<1>4. Flags'
    BY Zenon DEF Flags
<1>5. Journal'
    BY Checked DEF Journal, Intended, Published, Delivered, Promoting, Closing, Leases
<1>6. Promotion'
    BY <1>1, Unwritten, Checked DEF Promotion, Journal, Intended, Published, Delivered,
        Promoting, Closing, Leases
<1>7. ASSUME ~disturbed' PROVE Calm'
  <2>1. ~disturbed /\ Calm
    BY <1>7 DEF Undisturbed
  <2> QED
    BY <1>7, <2>1, Checked, Different DEF Calm, Fields, Journal, Intended, Published,
        Delivered, Promoting, Closing, Leases
<1> QED
    BY <1>2, <1>3, <1>4, <1>5, <1>6, <1>7 DEF Undisturbed

\* The pointer is swapped.
LEMMA PublishPointerStep ==
    ASSUME IInv, 
           /\ At("publish") /\ pointer = "prior" /\ pointer' = "ours"
           /\ Goes(IF output = "absent" THEN "move in" ELSE "move aside")
           /\ UNCHANGED <<tracker, output, aside, transaction, kept>>
    PROVE  IInv'
<1> USE DEF IInv, At, Goes, Keeps, Writes, Enters, files, world, Stopped, TrackerLocked,
    StoreLocked, Invoke, Disturbs
<1>1. UNCHANGED tracker
    OBVIOUS
<1>2. Documented'
    BY <1>1, Unwritten
<1>3. Fields'
    BY DEF Fields, Steps, Receipts, Leases
<1>4. Flags'
    BY Zenon DEF Flags
<1>5. Journal'
    BY Checked DEF MayPublish, Journal, Intended, Published, Delivered, Promoting, Closing,
        Leases
<1>6. Promotion'
    BY <1>1, Unwritten, Checked DEF Promotion, Journal, Intended, Published, Delivered,
        Promoting, Closing, Leases
<1>7. ASSUME ~disturbed' PROVE Calm'
  <2>1. ~disturbed /\ Calm
    BY <1>7 DEF Undisturbed
  <2> QED
    BY <1>7, <2>1, Checked, Different DEF Calm, Fields, Journal, Intended, Published,
        Delivered, Promoting, Closing, Leases
<1> QED
    BY <1>2, <1>3, <1>4, <1>5, <1>6, <1>7 DEF Undisturbed

\* The compatibility copy moves the old output aside.
LEMMA MoveAsideStep ==
    ASSUME IInv, 
           /\ At("move aside") /\ output' = "absent" /\ Goes("move in")
           /\ UNCHANGED <<tracker, pointer, aside, transaction, kept>>
    PROVE  IInv'
<1> USE DEF IInv, At, Goes, Keeps, Writes, Enters, files, world, Stopped, TrackerLocked,
    StoreLocked, Invoke, Disturbs
<1>1. UNCHANGED tracker
    OBVIOUS
<1>2. Documented'
    BY <1>1, Unwritten
<1>3. Fields'
    BY DEF Fields, Steps, Receipts, Leases
<1>4. Flags'
    BY Zenon DEF Flags
<1>5. Journal'
    BY Checked DEF Journal, Intended, Published, Delivered, Promoting, Closing, Leases
<1>6. Promotion'
    BY <1>1, Unwritten, Checked DEF Promotion, Journal, Intended, Published, Delivered,
        Promoting, Closing, Leases
<1>7. ASSUME ~disturbed' PROVE Calm'
  <2>1. ~disturbed /\ Calm
    BY <1>7 DEF Undisturbed
  <2> QED
    BY <1>7, <2>1, Checked, Different DEF Calm, Fields, Journal, Intended, Published,
        Delivered, Promoting, Closing, Leases
<1> QED
    BY <1>2, <1>3, <1>4, <1>5, <1>6, <1>7 DEF Undisturbed

\* The compatibility copy moves the task in.
LEMMA MoveInStep ==
    ASSUME IInv, 
           /\ At("move in") /\ output' = "task" /\ Goes("publish again")
           /\ UNCHANGED <<tracker, pointer, aside, transaction, kept>>
    PROVE  IInv'
<1> USE DEF IInv, At, Goes, Keeps, Writes, Enters, files, world, Stopped, TrackerLocked,
    StoreLocked, Invoke, Disturbs
<1>1. UNCHANGED tracker
    OBVIOUS
<1>2. Documented'
    BY <1>1, Unwritten
<1>3. Fields'
    BY DEF Fields, Steps, Receipts, Leases
<1>4. Flags'
    BY Zenon DEF Flags
<1>5. Journal'
    BY Checked DEF Journal, Intended, Published, Delivered, Promoting, Closing, Leases
<1>6. Promotion'
    BY <1>1, Unwritten, Checked DEF Promotion, Journal, Intended, Published, Delivered,
        Promoting, Closing, Leases
<1>7. ASSUME ~disturbed' PROVE Calm'
  <2>1. ~disturbed /\ Calm
    BY <1>7 DEF Undisturbed
  <2> QED
    BY <1>7, <2>1, Checked, Different DEF Calm, Fields, Journal, Intended, Published,
        Delivered, Promoting, Closing, Leases
<1> QED
    BY <1>2, <1>3, <1>4, <1>5, <1>6, <1>7 DEF Undisturbed

\* The receipt of the release is kept.
LEMMA PublishedAgainStep ==
    ASSUME IInv, At("publish again") /\ Keeps("release", "deliver")
    PROVE  IInv'
<1> USE DEF IInv, At, Goes, Keeps, Writes, Enters, files, world, Stopped, TrackerLocked,
    StoreLocked, Invoke, Disturbs
<1>1. UNCHANGED tracker
    OBVIOUS
<1>2. Documented'
    BY <1>1, Unwritten
<1>3. Fields'
    BY DEF Fields, Steps, Receipts, Leases
<1>4. Flags'
    BY Zenon DEF Flags
<1>5. Journal'
    BY Checked DEF Journal, Intended, Published, Delivered, Promoting, Closing, Leases
<1>6. Promotion'
    BY <1>1, Unwritten, Checked DEF Promotion, Journal, Intended, Published, Delivered,
        Promoting, Closing, Leases
<1>7. ASSUME ~disturbed' PROVE Calm'
  <2>1. ~disturbed /\ Calm
    BY <1>7 DEF Undisturbed
  <2> QED
    BY <1>7, <2>1, Checked, Different DEF Calm, Fields, Journal, Intended, Published,
        Delivered, Promoting, Closing, Leases
<1> QED
    BY <1>2, <1>3, <1>4, <1>5, <1>6, <1>7 DEF Undisturbed

\* The task is found at the output.
LEMMA OutputKeptStep ==
    ASSUME IInv, At("deliver") /\ output = "task" /\ Keeps("output", "promote")
    PROVE  IInv'
<1> USE DEF IInv, At, Goes, Keeps, Writes, Enters, files, world, Stopped, TrackerLocked,
    StoreLocked, Invoke, Disturbs
<1>1. UNCHANGED tracker
    OBVIOUS
<1>2. Documented'
    BY <1>1, Unwritten
<1>3. Fields'
    BY DEF Fields, Steps, Receipts, Leases
<1>4. Flags'
    BY Zenon DEF Flags
<1>5. Journal'
    BY Checked DEF Journal, Intended, Published, Delivered, Promoting, Closing, Leases
<1>6. Promotion'
    BY <1>1, Unwritten, Checked DEF Promotion, Journal, Intended, Published, Delivered,
        Promoting, Closing, Leases
<1>7. ASSUME ~disturbed' PROVE Calm'
  <2>1. ~disturbed /\ Calm
    BY <1>7 DEF Undisturbed
  <2> QED
    BY <1>7, <2>1, Checked, Different DEF Calm, Fields, Journal, Intended, Published,
        Delivered, Promoting, Closing, Leases
<1> QED
    BY <1>2, <1>3, <1>4, <1>5, <1>6, <1>7 DEF Undisturbed

\* A delivery that was interrupted is begun again.
LEMMA TakeAsideStep ==
    ASSUME IInv, 
           /\ At("deliver") /\ output # "task" /\ Goes("redeliver")
           /\ aside' = (initial # "absent")
           /\ output' = "absent"
           /\ UNCHANGED <<tracker, pointer, transaction, kept>>
    PROVE  IInv'
<1> USE DEF IInv, At, Goes, Keeps, Writes, Enters, files, world, Stopped, TrackerLocked,
    StoreLocked, Invoke, Disturbs
<1>1. UNCHANGED tracker
    OBVIOUS
<1>2. Documented'
    BY <1>1, Unwritten
<1>3. Fields'
    BY DEF Fields, Steps, Receipts, Leases
<1>4. Flags'
    BY Zenon DEF Flags
<1>5. Journal'
    BY Checked DEF Journal, Intended, Published, Delivered, Promoting, Closing, Leases
<1>6. Promotion'
    BY <1>1, Unwritten, Checked DEF Promotion, Journal, Intended, Published, Delivered,
        Promoting, Closing, Leases
<1>7. ASSUME ~disturbed' PROVE Calm'
  <2>1. ~disturbed /\ Calm
    BY <1>7 DEF Undisturbed
  <2> QED
    BY <1>7, <2>1, Checked, Different DEF Calm, Fields, Journal, Intended, Published,
        Delivered, Promoting, Closing, Leases
<1> QED
    BY <1>2, <1>3, <1>4, <1>5, <1>6, <1>7 DEF Undisturbed

\* It is completed.
LEMMA RedeliverStep ==
    ASSUME IInv, 
           /\ At("redeliver") /\ output' = "task" /\ Goes("deliver")
           /\ UNCHANGED <<tracker, pointer, aside, transaction, kept>>
    PROVE  IInv'
<1> USE DEF IInv, At, Goes, Keeps, Writes, Enters, files, world, Stopped, TrackerLocked,
    StoreLocked, Invoke, Disturbs
<1>1. UNCHANGED tracker
    OBVIOUS
<1>2. Documented'
    BY <1>1, Unwritten
<1>3. Fields'
    BY DEF Fields, Steps, Receipts, Leases
<1>4. Flags'
    BY Zenon DEF Flags
<1>5. Journal'
    BY Checked DEF Journal, Intended, Published, Delivered, Promoting, Closing, Leases
<1>6. Promotion'
    BY <1>1, Unwritten, Checked DEF Promotion, Journal, Intended, Published, Delivered,
        Promoting, Closing, Leases
<1>7. ASSUME ~disturbed' PROVE Calm'
  <2>1. ~disturbed /\ Calm
    BY <1>7 DEF Undisturbed
  <2> QED
    BY <1>7, <2>1, Checked, Different DEF Calm, Fields, Journal, Intended, Published,
        Delivered, Promoting, Closing, Leases
<1> QED
    BY <1>2, <1>3, <1>4, <1>5, <1>6, <1>7 DEF Undisturbed

\* The result is retained.
LEMMA ReportStep ==
    ASSUME IInv, Report
    PROVE  IInv'
<1> USE DEF IInv, At, Goes, Keeps, Writes, Enters, files, world, Stopped, TrackerLocked,
    StoreLocked, Invoke, Disturbs, Report
<1>1. UNCHANGED tracker
    OBVIOUS
<1>2. Documented'
    BY <1>1, Unwritten
<1>3. Fields'
    BY DEF Fields, Steps, Receipts, Leases
<1>4. Flags'
    BY Zenon DEF Flags
<1>5. Journal'
    BY Checked DEF Journal, Intended, Published, Delivered, Promoting, Closing, Leases
<1>6. Promotion'
    BY <1>1, Unwritten, Checked DEF Promotion, Journal, Intended, Published, Delivered,
        Promoting, Closing, Leases
<1>7. ASSUME ~disturbed' PROVE Calm'
  <2>1. ~disturbed /\ Calm
    BY <1>7 DEF Undisturbed
  <2> QED
    BY <1>7, <2>1, Checked, Different DEF Calm, Fields, Journal, Intended, Published,
        Delivered, Promoting, Closing, Leases
<1> QED
    BY <1>2, <1>3, <1>4, <1>5, <1>6, <1>7 DEF Undisturbed

\* A check fails: something has intervened.
LEMMA RefuseStep ==
    ASSUME IInv, Refuse
    PROVE  IInv'
<1> USE DEF IInv, At, Goes, Keeps, Writes, Enters, files, world, Stopped, TrackerLocked,
    StoreLocked, Invoke, Disturbs, Refuse
<1>1. UNCHANGED tracker
    OBVIOUS
<1>2. Documented'
    BY <1>1, Unwritten
<1>3. Fields'
    BY DEF Fields, Steps, Receipts, Leases
<1>4. Flags'
    BY Zenon DEF Flags
<1>5. Journal'
    BY Checked DEF Journal, Intended, Published, Delivered, Promoting, Closing, Leases
<1>6. Promotion'
    BY <1>1, Unwritten, Checked DEF Promotion, Journal, Intended, Published, Delivered,
        Promoting, Closing, Leases
<1>7. ASSUME ~disturbed' PROVE Calm'
    BY <1>7, CalmPasses
<1> QED
    BY <1>2, <1>3, <1>4, <1>5, <1>6, <1>7 DEF Undisturbed

\* The first invocation.
LEMMA StartStep ==
    ASSUME IInv, Start
    PROVE  IInv'
<1> USE DEF IInv, At, Goes, Keeps, Writes, Enters, files, world, Stopped, TrackerLocked,
    StoreLocked, Invoke, Disturbs, Start
<1>1. UNCHANGED tracker
    OBVIOUS
<1>2. Documented'
    BY <1>1, Unwritten
<1>3. Fields'
  <2>1. invocations' \in 0..MaxInvocations
    BY Counted DEF Fields
  <2> QED
    BY <2>1 DEF Fields, Steps, Receipts
<1>4. Flags'
    BY Zenon DEF Flags
<1>5. Journal'
    BY Checked DEF Journal, Intended, Published, Delivered, Promoting, Closing, Leases
<1>6. Promotion'
    BY <1>1, Unwritten, Checked DEF Promotion, Journal, Intended, Published, Delivered,
        Promoting, Closing, Leases
<1>7. ASSUME ~disturbed' PROVE Calm'
  <2>1. ~disturbed /\ Calm
    BY <1>7 DEF Undisturbed
  <2> QED
    BY <1>7, <2>1, Checked, Different DEF Calm, Fields, Journal, Intended, Published,
        Delivered, Promoting, Closing, Leases
<1> QED
    BY <1>2, <1>3, <1>4, <1>5, <1>6, <1>7 DEF Undisturbed

\* A later one, of the retained intent.
LEMMA ResumeStep ==
    ASSUME IInv, Resume
    PROVE  IInv'
<1> USE DEF IInv, At, Goes, Keeps, Writes, Enters, files, world, Stopped, TrackerLocked,
    StoreLocked, Invoke, Disturbs, Resume
<1>1. UNCHANGED tracker
    OBVIOUS
<1>2. Documented'
    BY <1>1, Unwritten
<1>3. Fields'
  <2>1. invocations' \in 0..MaxInvocations
    BY Counted DEF Fields
  <2> QED
    BY <2>1 DEF Fields, Steps, Receipts
<1>4. Flags'
    BY Zenon DEF Flags
<1>5. Journal'
    BY Checked DEF Journal, Intended, Published, Delivered, Promoting, Closing, Leases
<1>6. Promotion'
    BY <1>1, Unwritten, Checked DEF Promotion, Journal, Intended, Published, Delivered,
        Promoting, Closing, Leases
<1>7. ASSUME ~disturbed' PROVE Calm'
  <2>1. ~disturbed /\ Calm
    BY <1>7 DEF Undisturbed
  <2> QED
    BY <1>7, <2>1, Checked, Different DEF Calm, Fields, Journal, Intended, Published,
        Delivered, Promoting, Closing, Leases
<1> QED
    BY <1>2, <1>3, <1>4, <1>5, <1>6, <1>7 DEF Undisturbed

\* A death, which may leave a file half written.
LEMMA DieStep ==
    ASSUME IInv, Die
    PROVE  IInv'
<1> USE DEF IInv, At, Goes, Keeps, Writes, Enters, files, world, Stopped, TrackerLocked,
    StoreLocked, Invoke, Disturbs, Die, HalfWritten
<1>1. UNCHANGED tracker
    OBVIOUS
<1>2. Documented'
    BY <1>1, Unwritten
<1>3. Fields'
    BY DEF Fields, Steps, Receipts, Leases
<1>4. Flags'
    BY Zenon DEF Flags
<1>5. Journal'
    BY Checked DEF Journal, Intended, Published, Delivered, Promoting, Closing, Leases
<1>6. Promotion'
    BY <1>1, Unwritten, Checked DEF Promotion, Journal, Intended, Published, Delivered,
        Promoting, Closing, Leases
<1>7. ASSUME ~disturbed' PROVE Calm'
  <2>1. ~disturbed /\ Calm
    BY <1>7 DEF Undisturbed
  <2> QED
    BY <1>7, <2>1, Checked, Different DEF HalfWritten, Calm, Fields, Journal, Intended,
        Published, Delivered, Promoting, Closing, Leases
<1> QED
    BY <1>2, <1>3, <1>4, <1>5, <1>6, <1>7 DEF Undisturbed

\* Somebody else moves the pointer.
LEMMA MovePointerStep ==
    ASSUME IInv, MovePointer
    PROVE  IInv'
<1> USE DEF IInv, At, Goes, Keeps, Writes, Enters, files, world, Stopped, TrackerLocked,
    StoreLocked, Invoke, Disturbs, MovePointer
<1>1. UNCHANGED tracker
    OBVIOUS
<1>2. Documented'
    BY <1>1, Unwritten
<1>3. Fields'
    BY DEF Fields, Steps, Receipts, Leases
<1>4. Flags'
    BY Zenon DEF Flags
<1>5. Journal'
    BY Checked DEF Journal, Intended, Published, Delivered, Promoting, Closing, Leases
<1>6. Promotion'
    BY <1>1, Unwritten, Checked DEF Promotion, Journal, Intended, Published, Delivered,
        Promoting, Closing, Leases
<1>7. ASSUME ~disturbed' PROVE Calm'
  <2>1. ~disturbed /\ Calm
    BY <1>7 DEF Undisturbed
  <2> QED
    BY <1>7, <2>1, Checked, Different DEF Calm, Fields, Journal, Intended, Published,
        Delivered, Promoting, Closing, Leases
<1> QED
    BY <1>2, <1>3, <1>4, <1>5, <1>6, <1>7 DEF Undisturbed

\* An operator puts the old output back.
LEMMA RestoreOutputStep ==
    ASSUME IInv, RestoreOutput
    PROVE  IInv'
<1> USE DEF IInv, At, Goes, Keeps, Writes, Enters, files, world, Stopped, TrackerLocked,
    StoreLocked, Invoke, Disturbs, RestoreOutput
<1>1. UNCHANGED tracker
    OBVIOUS
<1>2. Documented'
    BY <1>1, Unwritten
<1>3. Fields'
    BY DEF Fields, Steps, Receipts, Leases
<1>4. Flags'
    BY Zenon DEF Flags
<1>5. Journal'
    BY Checked DEF Journal, Intended, Published, Delivered, Promoting, Closing, Leases
<1>6. Promotion'
    BY <1>1, Unwritten, Checked DEF Promotion, Journal, Intended, Published, Delivered,
        Promoting, Closing, Leases
<1>7. ASSUME ~disturbed' PROVE Calm'
  <2>1. ~disturbed /\ Calm
    BY <1>7 DEF Undisturbed
  <2> QED
    BY <1>7, <2>1, Checked, Different DEF Calm, Fields, Journal, Intended, Published,
        Delivered, Promoting, Closing, Leases
<1> QED
    BY <1>2, <1>3, <1>4, <1>5, <1>6, <1>7 DEF Undisturbed

\* The lease is acquired.
LEMMA AcquireWrittenStep ==
    ASSUME IInv, At("execute"), tracker = <<>>, Writes("acquire", "execute"), UNCHANGED transaction
    PROVE  IInv'
<1> USE DEF IInv, At, Goes, Keeps, Writes, Enters, files, world, Stopped, TrackerLocked,
    StoreLocked, Invoke, Disturbs
<1>1. tracker' = Append(tracker, "acquire") /\ "acquire" \in Events /\ ~Wrote("acquire")
    BY Checked, WroteShapes, Made DEF Promotion, Events, Leases
<1>2. Documented' /\ \A x : Wrote(x)' <=> Wrote(x) \/ x = "acquire"
    BY <1>1, Writing
<1>3. Fields'
    BY DEF Fields, Steps, Receipts, Leases
<1>4. Flags'
    BY Zenon DEF Flags
<1>5. Journal'
    BY Checked DEF Journal, Intended, Published, Delivered, Promoting, Closing, Leases
<1>6. Promotion'
    BY <1>1, <1>2, Checked, NextShape, WroteShapes, Different DEF Promotion, Journal,
        Intended, Published, Delivered, Promoting, Closing, Leases
<1>7. ASSUME ~disturbed' PROVE Calm'
  <2>1. ~disturbed /\ Calm
    BY <1>7 DEF Undisturbed
  <2> QED
    BY <1>1, <1>7, <2>1, Checked, NextShape, WroteShapes, Different, Made DEF Calm, Fields,
        Journal, Intended, Published, Delivered, Promoting, Closing, Leases
<1> QED
    BY <1>2, <1>3, <1>4, <1>5, <1>6, <1>7 DEF Undisturbed

\* The promotion is found retained.
LEMMA PromotedBeforeStep ==
    ASSUME IInv, "promoted" \in kept, At("promote"), Goes("qualify"), UNCHANGED files
    PROVE  IInv'
<1> USE DEF IInv, At, Goes, Keeps, Writes, Enters, files, world, Stopped, TrackerLocked,
    StoreLocked, Invoke, Disturbs
<1>1. UNCHANGED tracker
    OBVIOUS
<1>2. Documented'
    BY <1>1, Unwritten
<1>3. Fields'
    BY DEF Fields, Steps, Receipts, Leases
<1>4. Flags'
    BY Zenon DEF Flags
<1>5. Journal'
    BY Checked DEF Journal, Intended, Published, Delivered, Promoting, Closing, Leases
<1>6. Promotion'
    BY <1>1, Unwritten, Checked DEF Promotion, Journal, Intended, Published, Delivered,
        Promoting, Closing, Leases
<1>7. ASSUME ~disturbed' PROVE Calm'
  <2>1. ~disturbed /\ Calm
    BY <1>7 DEF Undisturbed
  <2> QED
    BY <1>7, <2>1, Checked, Different DEF Calm, Fields, Journal, Intended, Published,
        Delivered, Promoting, Closing, Leases
<1> QED
    BY <1>2, <1>3, <1>4, <1>5, <1>6, <1>7 DEF Undisturbed

\* The promotion opens a transaction.
LEMMA OpenTransactionStep ==
    ASSUME IInv, At("promote"), "promoted" \notin kept, transaction = "none",
           Enters("torn", "prepare")
    PROVE  IInv'
<1> USE DEF IInv, At, Goes, Keeps, Writes, Enters, files, world, Stopped, TrackerLocked,
    StoreLocked, Invoke, Disturbs
<1>1. UNCHANGED tracker
    OBVIOUS
<1>2. Documented'
    BY <1>1, Unwritten
<1>3. Fields'
    BY DEF Fields, Steps, Receipts, Leases
<1>4. Flags'
    BY Zenon DEF Flags
<1>5. Journal'
    BY Checked DEF MayPromote, Journal, Intended, Published, Delivered, Promoting, Closing,
        Leases
<1>6. Promotion'
    BY <1>1, Unwritten, Checked DEF MayPromote, Promotion, Journal, Intended, Published,
        Delivered, Promoting, Closing, Leases
<1>7. ASSUME ~disturbed' PROVE Calm'
  <2>1. ~disturbed /\ Calm
    BY <1>7 DEF Undisturbed
  <2> QED
    BY <1>7, <2>1, Checked, Different DEF MayPromote, Calm, Fields, Journal, Intended,
        Published, Delivered, Promoting, Closing, Leases
<1> QED
    BY <1>2, <1>3, <1>4, <1>5, <1>6, <1>7 DEF Undisturbed

\* A later invocation finds one that was interrupted.
LEMMA RecoverTransactionStep ==
    ASSUME IInv, "promoted" \notin kept, transaction # "none",
           At("promote"), Goes("restore notes"), UNCHANGED files
    PROVE  IInv'
<1> USE DEF IInv, At, Goes, Keeps, Writes, Enters, files, world, Stopped, TrackerLocked,
    StoreLocked, Invoke, Disturbs
<1>1. UNCHANGED tracker
    OBVIOUS
<1>2. Documented'
    BY <1>1, Unwritten
<1>3. Fields'
    BY DEF Fields, Steps, Receipts, Leases
<1>4. Flags'
    BY Zenon DEF Flags
<1>5. Journal'
    BY Checked DEF MayPromote, Journal, Intended, Published, Delivered, Promoting, Closing,
        Leases
<1>6. Promotion'
    BY <1>1, Unwritten, Checked DEF MayPromote, Promotion, Journal, Intended, Published,
        Delivered, Promoting, Closing, Leases
<1>7. ASSUME ~disturbed' PROVE Calm'
  <2>1. ~disturbed /\ Calm
    BY <1>7 DEF Undisturbed
  <2> QED
    BY <1>7, <2>1, Checked, Different DEF MayPromote, Calm, Fields, Journal, Intended,
        Published, Delivered, Promoting, Closing, Leases
<1> QED
    BY <1>2, <1>3, <1>4, <1>5, <1>6, <1>7 DEF Undisturbed

\* Its descriptor is complete.
LEMMA PreparedStep ==
    ASSUME IInv, At("prepare"), Enters("prepared", "replace notes")
    PROVE  IInv'
<1> USE DEF IInv, At, Goes, Keeps, Writes, Enters, files, world, Stopped, TrackerLocked,
    StoreLocked, Invoke, Disturbs
<1>1. UNCHANGED tracker
    OBVIOUS
<1>2. Documented'
    BY <1>1, Unwritten
<1>3. Fields'
    BY DEF Fields, Steps, Receipts, Leases
<1>4. Flags'
    BY Zenon DEF Flags
<1>5. Journal'
    BY Checked DEF Journal, Intended, Published, Delivered, Promoting, Closing, Leases
<1>6. Promotion'
    BY <1>1, Unwritten, Checked DEF Promotion, Journal, Intended, Published, Delivered,
        Promoting, Closing, Leases
<1>7. ASSUME ~disturbed' PROVE Calm'
  <2>1. ~disturbed /\ Calm
    BY <1>7 DEF Undisturbed
  <2> QED
    BY <1>7, <2>1, Checked, Different DEF Calm, Fields, Journal, Intended, Published,
        Delivered, Promoting, Closing, Leases
<1> QED
    BY <1>2, <1>3, <1>4, <1>5, <1>6, <1>7 DEF Undisturbed

\* It replaces the notes.
LEMMA ReplaceNotesStep ==
    ASSUME IInv, At("replace notes"), Goes("replace tracker"), UNCHANGED files
    PROVE  IInv'
<1> USE DEF IInv, At, Goes, Keeps, Writes, Enters, files, world, Stopped, TrackerLocked,
    StoreLocked, Invoke, Disturbs
<1>1. UNCHANGED tracker
    OBVIOUS
<1>2. Documented'
    BY <1>1, Unwritten
<1>3. Fields'
    BY DEF Fields, Steps, Receipts, Leases
<1>4. Flags'
    BY Zenon DEF Flags
<1>5. Journal'
    BY Checked DEF Journal, Intended, Published, Delivered, Promoting, Closing, Leases
<1>6. Promotion'
    BY <1>1, Unwritten, Checked DEF Promotion, Journal, Intended, Published, Delivered,
        Promoting, Closing, Leases
<1>7. ASSUME ~disturbed' PROVE Calm'
  <2>1. ~disturbed /\ Calm
    BY <1>7 DEF Undisturbed
  <2> QED
    BY <1>7, <2>1, Checked, Different DEF Calm, Fields, Journal, Intended, Published,
        Delivered, Promoting, Closing, Leases
<1> QED
    BY <1>2, <1>3, <1>4, <1>5, <1>6, <1>7 DEF Undisturbed

\* The recovery restores the notes.
LEMMA RestoreNotesStep ==
    ASSUME IInv, At("restore notes"), Goes("restore tracker"), UNCHANGED files
    PROVE  IInv'
<1> USE DEF IInv, At, Goes, Keeps, Writes, Enters, files, world, Stopped, TrackerLocked,
    StoreLocked, Invoke, Disturbs
<1>1. UNCHANGED tracker
    OBVIOUS
<1>2. Documented'
    BY <1>1, Unwritten
<1>3. Fields'
    BY DEF Fields, Steps, Receipts, Leases
<1>4. Flags'
    BY Zenon DEF Flags
<1>5. Journal'
    BY Checked DEF Journal, Intended, Published, Delivered, Promoting, Closing, Leases
<1>6. Promotion'
    BY <1>1, Unwritten, Checked DEF Promotion, Journal, Intended, Published, Delivered,
        Promoting, Closing, Leases
<1>7. ASSUME ~disturbed' PROVE Calm'
  <2>1. ~disturbed /\ Calm
    BY <1>7 DEF Undisturbed
  <2> QED
    BY <1>7, <2>1, Checked, Different DEF Calm, Fields, Journal, Intended, Published,
        Delivered, Promoting, Closing, Leases
<1> QED
    BY <1>2, <1>3, <1>4, <1>5, <1>6, <1>7 DEF Undisturbed

\* It, or its recovery, replaces the tracker.
LEMMA PromoteTrackerStep ==
    ASSUME IInv, 
           At("replace tracker") \/ (At("restore tracker") /\ tracker = Acquired),
           Writes("promoted", "mark"), UNCHANGED transaction
    PROVE  IInv'
<1> USE DEF IInv, At, Goes, Keeps, Writes, Enters, files, world, Stopped, TrackerLocked,
    StoreLocked, Invoke, Disturbs
<1>1. tracker' = Append(tracker, "promoted") /\ "promoted" \in Events /\ ~Wrote("promoted")
    BY Checked, WroteShapes, Made DEF Promotion, Events, Leases
<1>2. Documented' /\ \A x : Wrote(x)' <=> Wrote(x) \/ x = "promoted"
    BY <1>1, Writing
<1>3. Fields'
    BY DEF Fields, Steps, Receipts, Leases
<1>4. Flags'
    BY Zenon DEF Flags
<1>5. Journal'
    BY Checked DEF Journal, Intended, Published, Delivered, Promoting, Closing, Leases
<1>6. Promotion'
    BY <1>1, <1>2, Checked, NextShape, WroteShapes, Different DEF Promotion, Journal,
        Intended, Published, Delivered, Promoting, Closing, Leases
<1>7. ASSUME ~disturbed' PROVE Calm'
  <2>1. UNCHANGED disturbed
    OBVIOUS
  <2>2. ~disturbed /\ Calm
    BY <1>7, <2>1, Zenon DEF Undisturbed
  <2> QED
    BY <1>1, <1>7, <2>2, Checked, NextShape, WroteShapes, Different, Made DEF Calm, Fields,
        Journal, Intended, Published, Delivered, Promoting, Closing, Leases
<1> QED
    BY <1>2, <1>3, <1>4, <1>5, <1>6, <1>7 DEF Undisturbed

\* The recovery finds the tracker replaced.
LEMMA PromotedTrackerStep ==
    ASSUME IInv, tracker = Promoted, At("restore tracker"), Goes("mark"), UNCHANGED files
    PROVE  IInv'
<1> USE DEF IInv, At, Goes, Keeps, Writes, Enters, files, world, Stopped, TrackerLocked,
    StoreLocked, Invoke, Disturbs
<1>1. UNCHANGED tracker
    OBVIOUS
<1>2. Documented'
    BY <1>1, Unwritten
<1>3. Fields'
    BY DEF Fields, Steps, Receipts, Leases
<1>4. Flags'
    BY Zenon DEF Flags
<1>5. Journal'
    BY Checked DEF Journal, Intended, Published, Delivered, Promoting, Closing, Leases
<1>6. Promotion'
    BY <1>1, Unwritten, Checked DEF Promotion, Journal, Intended, Published, Delivered,
        Promoting, Closing, Leases
<1>7. ASSUME ~disturbed' PROVE Calm'
  <2>1. ~disturbed /\ Calm
    BY <1>7 DEF Undisturbed
  <2> QED
    BY <1>7, <2>1, Checked, Different DEF Calm, Fields, Journal, Intended, Published,
        Delivered, Promoting, Closing, Leases
<1> QED
    BY <1>2, <1>3, <1>4, <1>5, <1>6, <1>7 DEF Undisturbed

\* The marker of a completed transaction is found.
LEMMA MarkedStep ==
    ASSUME IInv, transaction = "complete", At("mark"), Goes("keep promotion"), UNCHANGED files
    PROVE  IInv'
<1> USE DEF IInv, At, Goes, Keeps, Writes, Enters, files, world, Stopped, TrackerLocked,
    StoreLocked, Invoke, Disturbs
<1>1. UNCHANGED tracker
    OBVIOUS
<1>2. Documented'
    BY <1>1, Unwritten
<1>3. Fields'
    BY DEF Fields, Steps, Receipts, Leases
<1>4. Flags'
    BY Zenon DEF Flags
<1>5. Journal'
    BY Checked DEF Journal, Intended, Published, Delivered, Promoting, Closing, Leases
<1>6. Promotion'
    BY <1>1, Unwritten, Checked DEF Promotion, Journal, Intended, Published, Delivered,
        Promoting, Closing, Leases
<1>7. ASSUME ~disturbed' PROVE Calm'
  <2>1. ~disturbed /\ Calm
    BY <1>7 DEF Undisturbed
  <2> QED
    BY <1>7, <2>1, Checked, Different DEF Calm, Promotion, Fields, Journal, Intended,
        Published, Delivered, Promoting, Closing, Leases
<1> QED
    BY <1>2, <1>3, <1>4, <1>5, <1>6, <1>7 DEF Undisturbed

\* The marker is begun.
LEMMA MarkStep ==
    ASSUME IInv, At("mark"), transaction # "complete", Enters("torn marker", "close")
    PROVE  IInv'
<1> USE DEF IInv, At, Goes, Keeps, Writes, Enters, files, world, Stopped, TrackerLocked,
    StoreLocked, Invoke, Disturbs
<1>1. UNCHANGED tracker
    OBVIOUS
<1>2. Documented'
    BY <1>1, Unwritten
<1>3. Fields'
    BY DEF Fields, Steps, Receipts, Leases
<1>4. Flags'
    BY Zenon DEF Flags
<1>5. Journal'
    BY Checked DEF Journal, Intended, Published, Delivered, Promoting, Closing, Leases
<1>6. Promotion'
    BY <1>1, Unwritten, Checked DEF Promotion, Journal, Intended, Published, Delivered,
        Promoting, Closing, Leases
<1>7. ASSUME ~disturbed' PROVE Calm'
  <2>1. ~disturbed /\ Calm
    BY <1>7 DEF Undisturbed
  <2> QED
    BY <1>7, <2>1, Checked, Different DEF Calm, Fields, Journal, Intended, Published,
        Delivered, Promoting, Closing, Leases
<1> QED
    BY <1>2, <1>3, <1>4, <1>5, <1>6, <1>7 DEF Undisturbed

\* The marker is complete.
LEMMA CloseStep ==
    ASSUME IInv, At("close"), Enters("complete", "keep promotion")
    PROVE  IInv'
<1> USE DEF IInv, At, Goes, Keeps, Writes, Enters, files, world, Stopped, TrackerLocked,
    StoreLocked, Invoke, Disturbs
<1>1. UNCHANGED tracker
    OBVIOUS
<1>2. Documented'
    BY <1>1, Unwritten
<1>3. Fields'
    BY DEF Fields, Steps, Receipts, Leases
<1>4. Flags'
    BY Zenon DEF Flags
<1>5. Journal'
    BY Checked DEF Journal, Intended, Published, Delivered, Promoting, Closing, Leases
<1>6. Promotion'
    BY <1>1, Unwritten, Checked DEF Promotion, Journal, Intended, Published, Delivered,
        Promoting, Closing, Leases
<1>7. ASSUME ~disturbed' PROVE Calm'
  <2>1. ~disturbed /\ Calm
    BY <1>7 DEF Undisturbed
  <2> QED
    BY <1>7, <2>1, Checked, Different DEF Calm, Promotion, Fields, Journal, Intended,
        Published, Delivered, Promoting, Closing, Leases
<1> QED
    BY <1>2, <1>3, <1>4, <1>5, <1>6, <1>7 DEF Undisturbed

\* The receipt of the promotion is kept.
LEMMA PromotionKeptStep ==
    ASSUME IInv, At("keep promotion"), Keeps("promoted", "qualify")
    PROVE  IInv'
<1> USE DEF IInv, At, Goes, Keeps, Writes, Enters, files, world, Stopped, TrackerLocked,
    StoreLocked, Invoke, Disturbs
<1>1. UNCHANGED tracker
    OBVIOUS
<1>2. Documented'
    BY <1>1, Unwritten
<1>3. Fields'
    BY DEF Fields, Steps, Receipts, Leases
<1>4. Flags'
    BY Zenon DEF Flags
<1>5. Journal'
    BY Checked DEF Journal, Intended, Published, Delivered, Promoting, Closing, Leases
<1>6. Promotion'
    BY <1>1, Unwritten, Checked DEF Promotion, Journal, Intended, Published, Delivered,
        Promoting, Closing, Leases
<1>7. ASSUME ~disturbed' PROVE Calm'
  <2>1. ~disturbed /\ Calm
    BY <1>7 DEF Undisturbed
  <2> QED
    BY <1>7, <2>1, Checked, Different DEF Calm, Fields, Journal, Intended, Published,
        Delivered, Promoting, Closing, Leases
<1> QED
    BY <1>2, <1>3, <1>4, <1>5, <1>6, <1>7 DEF Undisturbed

\* The promoted workbook qualifies.
LEMMA QualifyStep ==
    ASSUME IInv, At("qualify"), Goes("publication"), UNCHANGED files
    PROVE  IInv'
<1> USE DEF IInv, At, Goes, Keeps, Writes, Enters, files, world, Stopped, TrackerLocked,
    StoreLocked, Invoke, Disturbs
<1>1. UNCHANGED tracker
    OBVIOUS
<1>2. Documented'
    BY <1>1, Unwritten
<1>3. Fields'
    BY DEF Fields, Steps, Receipts, Leases
<1>4. Flags'
    BY Zenon DEF Flags
<1>5. Journal'
    BY Checked DEF Qualified, Journal, Intended, Published, Delivered, Promoting, Closing,
        Leases
<1>6. Promotion'
    BY <1>1, Unwritten, Checked DEF Qualified, Promotion, Journal, Intended, Published,
        Delivered, Promoting, Closing, Leases
<1>7. ASSUME ~disturbed' PROVE Calm'
  <2>1. ~disturbed /\ Calm
    BY <1>7 DEF Undisturbed
  <2> QED
    BY <1>7, <2>1, Checked, Different DEF Qualified, Calm, Fields, Journal, Intended,
        Published, Delivered, Promoting, Closing, Leases
<1> QED
    BY <1>2, <1>3, <1>4, <1>5, <1>6, <1>7 DEF Undisturbed

\* The release of the publication lease is found retained.
LEMMA PublicationReleasedBeforeStep ==
    ASSUME IInv, "publication" \in kept, At("publication"), Goes("task_agent"), UNCHANGED files
    PROVE  IInv'
<1> USE DEF IInv, At, Goes, Keeps, Writes, Enters, files, world, Stopped, TrackerLocked,
    StoreLocked, Invoke, Disturbs
<1>1. UNCHANGED tracker
    OBVIOUS
<1>2. Documented'
    BY <1>1, Unwritten
<1>3. Fields'
    BY DEF Fields, Steps, Receipts, Leases
<1>4. Flags'
    BY Zenon DEF Flags
<1>5. Journal'
    BY Checked DEF Journal, Intended, Published, Delivered, Promoting, Closing, Leases
<1>6. Promotion'
    BY <1>1, Unwritten, Checked DEF Promotion, Journal, Intended, Published, Delivered,
        Promoting, Closing, Leases
<1>7. ASSUME ~disturbed' PROVE Calm'
  <2>1. ~disturbed /\ Calm
    BY <1>7 DEF Undisturbed
  <2> QED
    BY <1>7, <2>1, Checked, Different DEF Calm, Fields, Journal, Intended, Published,
        Delivered, Promoting, Closing, Leases
<1> QED
    BY <1>2, <1>3, <1>4, <1>5, <1>6, <1>7 DEF Undisturbed

\* The publication lease is released.
LEMMA PublicationReleaseStep ==
    ASSUME IInv, At("publication"), "publication" \notin kept, tracker = Before("publication"),
           Writes("publication", "publication"), UNCHANGED transaction
    PROVE  IInv'
<1> USE DEF IInv, At, Goes, Keeps, Writes, Enters, files, world, Stopped, TrackerLocked,
    StoreLocked, Invoke, Disturbs
<1>1. tracker' = Append(tracker, "publication") /\ "publication" \in Events /\ ~Wrote("publication")
    BY Checked, WroteShapes, Made DEF Promotion, Events, Leases
<1>2. Documented' /\ \A x : Wrote(x)' <=> Wrote(x) \/ x = "publication"
    BY <1>1, Writing
<1>3. Fields'
    BY DEF Fields, Steps, Receipts, Leases
<1>4. Flags'
    BY Zenon DEF Flags
<1>5. Journal'
    BY Checked DEF Journal, Intended, Published, Delivered, Promoting, Closing, Leases
<1>6. Promotion'
    BY <1>1, <1>2, Checked, NextShape, WroteShapes, Different DEF Promotion, Journal,
        Intended, Published, Delivered, Promoting, Closing, Leases
<1>7. ASSUME ~disturbed' PROVE Calm'
  <2>1. ~disturbed /\ Calm
    BY <1>7 DEF Undisturbed
  <2> QED
    BY <1>1, <1>7, <2>1, Checked, NextShape, WroteShapes, Different, Made DEF Calm, Fields,
        Journal, Intended, Published, Delivered, Promoting, Closing, Leases
<1> QED
    BY <1>2, <1>3, <1>4, <1>5, <1>6, <1>7 DEF Undisturbed

\* The receipt of that is kept.
LEMMA PublicationKeptStep ==
    ASSUME IInv, At("publication"), "publication" \notin kept, tracker # Before("publication"),
           Keeps("publication", "task_agent")
    PROVE  IInv'
<1> USE DEF IInv, At, Goes, Keeps, Writes, Enters, files, world, Stopped, TrackerLocked,
    StoreLocked, Invoke, Disturbs
<1>1. UNCHANGED tracker
    OBVIOUS
<1>2. Documented'
    BY <1>1, Unwritten
<1>3. Fields'
    BY DEF Fields, Steps, Receipts, Leases
<1>4. Flags'
    BY Zenon DEF Flags
<1>5. Journal'
    BY Checked DEF MayRelease, Journal, Intended, Published, Delivered, Promoting, Closing,
        Leases
<1>6. Promotion'
    BY <1>1, Unwritten, Checked DEF MayRelease, Promotion, Journal, Intended, Published,
        Delivered, Promoting, Closing, Leases
<1>7. ASSUME ~disturbed' PROVE Calm'
  <2>1. ~disturbed /\ Calm
    BY <1>7 DEF Undisturbed
  <2> QED
    BY <1>7, <2>1, Checked, Different, Made DEF MayRelease, Extends, Calm, Fields, Journal,
        Intended, Published, Delivered, Promoting, Closing, Leases
<1> QED
    BY <1>2, <1>3, <1>4, <1>5, <1>6, <1>7 DEF Undisturbed

\* The release of the task lease is found retained.
LEMMA TaskAgentReleasedBeforeStep ==
    ASSUME IInv, "task_agent" \in kept, At("task_agent"), Goes("report"), UNCHANGED files
    PROVE  IInv'
<1> USE DEF IInv, At, Goes, Keeps, Writes, Enters, files, world, Stopped, TrackerLocked,
    StoreLocked, Invoke, Disturbs
<1>1. UNCHANGED tracker
    OBVIOUS
<1>2. Documented'
    BY <1>1, Unwritten
<1>3. Fields'
    BY DEF Fields, Steps, Receipts, Leases
<1>4. Flags'
    BY Zenon DEF Flags
<1>5. Journal'
    BY Checked DEF Journal, Intended, Published, Delivered, Promoting, Closing, Leases
<1>6. Promotion'
    BY <1>1, Unwritten, Checked DEF Promotion, Journal, Intended, Published, Delivered,
        Promoting, Closing, Leases
<1>7. ASSUME ~disturbed' PROVE Calm'
  <2>1. ~disturbed /\ Calm
    BY <1>7 DEF Undisturbed
  <2> QED
    BY <1>7, <2>1, Checked, Different DEF Calm, Fields, Journal, Intended, Published,
        Delivered, Promoting, Closing, Leases
<1> QED
    BY <1>2, <1>3, <1>4, <1>5, <1>6, <1>7 DEF Undisturbed

\* The task lease is released.
LEMMA TaskAgentReleaseStep ==
    ASSUME IInv, At("task_agent"), "task_agent" \notin kept, tracker = Before("task_agent"),
           Writes("task_agent", "task_agent"), UNCHANGED transaction
    PROVE  IInv'
<1> USE DEF IInv, At, Goes, Keeps, Writes, Enters, files, world, Stopped, TrackerLocked,
    StoreLocked, Invoke, Disturbs
<1>1. tracker' = Append(tracker, "task_agent") /\ "task_agent" \in Events /\ ~Wrote("task_agent")
    BY Checked, WroteShapes, Made DEF Promotion, Events, Leases
<1>2. Documented' /\ \A x : Wrote(x)' <=> Wrote(x) \/ x = "task_agent"
    BY <1>1, Writing
<1>3. Fields'
    BY DEF Fields, Steps, Receipts, Leases
<1>4. Flags'
    BY Zenon DEF Flags
<1>5. Journal'
    BY Checked DEF Journal, Intended, Published, Delivered, Promoting, Closing, Leases
<1>6. Promotion'
    BY <1>1, <1>2, Checked, NextShape, WroteShapes, Different DEF Promotion, Journal,
        Intended, Published, Delivered, Promoting, Closing, Leases
<1>7. ASSUME ~disturbed' PROVE Calm'
  <2>1. ~disturbed /\ Calm
    BY <1>7 DEF Undisturbed
  <2> QED
    BY <1>1, <1>7, <2>1, Checked, NextShape, WroteShapes, Different, Made DEF Calm, Fields,
        Journal, Intended, Published, Delivered, Promoting, Closing, Leases
<1> QED
    BY <1>2, <1>3, <1>4, <1>5, <1>6, <1>7 DEF Undisturbed

\* The receipt of that is kept.
LEMMA TaskAgentKeptStep ==
    ASSUME IInv, At("task_agent"), "task_agent" \notin kept, tracker # Before("task_agent"),
           Keeps("task_agent", "report")
    PROVE  IInv'
<1> USE DEF IInv, At, Goes, Keeps, Writes, Enters, files, world, Stopped, TrackerLocked,
    StoreLocked, Invoke, Disturbs
<1>1. UNCHANGED tracker
    OBVIOUS
<1>2. Documented'
    BY <1>1, Unwritten
<1>3. Fields'
    BY DEF Fields, Steps, Receipts, Leases
<1>4. Flags'
    BY Zenon DEF Flags
<1>5. Journal'
    BY Checked DEF MayRelease, Journal, Intended, Published, Delivered, Promoting, Closing,
        Leases
<1>6. Promotion'
    BY <1>1, Unwritten, Checked DEF MayRelease, Promotion, Journal, Intended, Published,
        Delivered, Promoting, Closing, Leases
<1>7. ASSUME ~disturbed' PROVE Calm'
  <2>1. ~disturbed /\ Calm
    BY <1>7 DEF Undisturbed
  <2> QED
    BY <1>7, <2>1, Checked, Different, Made DEF MayRelease, Extends, Calm, Fields, Journal,
        Intended, Published, Delivered, Promoting, Closing, Leases
<1> QED
    BY <1>2, <1>3, <1>4, <1>5, <1>6, <1>7 DEF Undisturbed

\* A lease runs out.
LEMMA ExpireStep ==
    ASSUME IInv, NEW kind \in Leases, Expire(kind)
    PROVE  IInv'
<1> USE DEF IInv, At, Goes, Keeps, Writes, Enters, files, world, Stopped, TrackerLocked,
    StoreLocked, Invoke, Disturbs, Expire
<1>1. UNCHANGED tracker
    OBVIOUS
<1>2. Documented'
    BY <1>1, Unwritten
<1>3. Fields'
    BY DEF Fields
<1>4. Flags'
    BY Zenon DEF Flags
<1>5. Journal'
    BY Checked DEF Journal, Intended, Published, Delivered, Promoting, Closing, Leases
<1>6. Promotion'
    BY <1>1, Unwritten, Checked DEF Promotion, Journal, Intended, Published, Delivered,
        Promoting, Closing, Leases
<1>7. ASSUME ~disturbed' PROVE Calm'
  <2>1. ~disturbed /\ Calm
    BY <1>7 DEF Undisturbed
  <2> QED
    BY <1>7, <2>1, Checked, Different DEF Calm, Fields, Journal, Intended, Published,
        Delivered, Promoting, Closing, Leases
<1> QED
    BY <1>2, <1>3, <1>4, <1>5, <1>6, <1>7 DEF Undisturbed

\* An operator releases a lease that ran out.
LEMMA CleanUpStep ==
    ASSUME IInv, NEW kind \in Leases, CleanUp(kind)
    PROVE  IInv'
<1> USE DEF IInv, At, Goes, Keeps, Writes, Enters, files, world, Stopped, TrackerLocked,
    StoreLocked, Invoke, Disturbs, CleanUp
<1>1. tracker' = Append(tracker, kind) /\ kind \in Events /\ ~Wrote(kind)
    BY Checked, WroteShapes, Made DEF Promotion, Events, Leases
<1>2. Documented' /\ \A x : Wrote(x)' <=> Wrote(x) \/ x = kind
    BY <1>1, Writing
<1>3. Fields'
    BY DEF Fields, Steps, Receipts, Leases
<1>4. Flags'
    BY Zenon DEF Flags
<1>5. Journal'
    BY Checked DEF Journal, Intended, Published, Delivered, Promoting, Closing, Leases
<1>6. Promotion'
    BY <1>1, <1>2, Checked, NextShape, WroteShapes, Different DEF Promotion, Journal,
        Intended, Published, Delivered, Promoting, Closing, Leases
<1>7. ASSUME ~disturbed' PROVE Calm'
  <2>1. ~disturbed /\ Calm
    BY <1>7 DEF Undisturbed
  <2> QED
    BY <1>1, <1>7, <2>1, Checked, NextShape, WroteShapes, Different, Made DEF Calm, Fields,
        Journal, Intended, Published, Delivered, Promoting, Closing, Leases
<1> QED
    BY <1>2, <1>3, <1>4, <1>5, <1>6, <1>7 DEF Undisturbed

\* The worker writes its tracker.
LEMMA WriteTrackerStep ==
    ASSUME IInv, WriteTracker
    PROVE  IInv'
<1> USE DEF IInv, At, Goes, Keeps, Writes, Enters, files, world, Stopped, TrackerLocked,
    StoreLocked, Invoke, Disturbs, WriteTracker
<1>1. tracker' = Append(tracker, "foreign") /\ "foreign" \in Events /\ ~Wrote("foreign")
    BY Checked, WroteShapes, Made DEF Promotion, Events, Leases
<1>2. Documented' /\ \A x : Wrote(x)' <=> Wrote(x) \/ x = "foreign"
    BY <1>1, Writing
<1>3. Fields'
    BY DEF Fields, Steps, Receipts, Leases
<1>4. Flags'
    BY Zenon DEF Flags
<1>5. Journal'
    BY Checked DEF Journal, Intended, Published, Delivered, Promoting, Closing, Leases
<1>6. Promotion'
    BY <1>1, <1>2, Checked, NextShape, WroteShapes, Different DEF Promotion, Journal,
        Intended, Published, Delivered, Promoting, Closing, Leases
<1>7. ASSUME ~disturbed' PROVE Calm'
  <2>1. ~disturbed /\ Calm
    BY <1>7 DEF Undisturbed
  <2> QED
    BY <1>1, <1>7, <2>1, Checked, NextShape, WroteShapes, Different, Made DEF Calm, Fields,
        Journal, Intended, Published, Delivered, Promoting, Closing, Leases
<1> QED
    BY <1>2, <1>3, <1>4, <1>5, <1>6, <1>7 DEF Undisturbed

-----------------------------------------------------------------------------
(* The invariant and what follows from it. *)

\* Before the first invocation.
LEMMA Initially == Init => IInv
<1> SUFFICES ASSUME Init PROVE IInv
    OBVIOUS
<1> USE DEF Init
<1>1. Documented
  <2>1. tracker = <<>>
    OBVIOUS
  <2> QED
    BY <2>1 DEF Documented, Once
<1>2. Fields
    BY InvocationsAssumption DEF Fields, Steps
<1>3. Flags
    BY Zenon DEF Flags
<1>4. Journal
    BY DEF Stopped, Journal, Intended, Published, Delivered, Promoting, Closing, Leases
<1>5. Promotion
    BY WroteShapes DEF Promotion, Promoting
<1>6. Calm
    BY Different DEF Calm
<1> QED
    BY <1>1, <1>2, <1>3, <1>4, <1>5, <1>6 DEF IInv, Undisturbed

\* A step that changes nothing.
LEMMA Stuttering == IInv /\ UNCHANGED vars => IInv'
<1> SUFFICES ASSUME IInv, UNCHANGED vars PROVE IInv'
    OBVIOUS
<1> USE DEF vars, files, world, IInv
<1>1. Documented' /\ \A x : Wrote(x)' <=> Wrote(x)
    BY Unwritten
<1>2. Fields'
    BY DEF Fields
<1>3. Flags'
    BY Zenon DEF Flags
<1>4. Journal'
    BY DEF Journal, Stopped, Intended, Published, Delivered, Promoting, Closing, Leases
<1>5. Promotion'
    BY <1>1 DEF Promotion
<1>6. ASSUME ~disturbed' PROVE Calm'
    BY <1>6 DEF Undisturbed, Calm
<1> QED
    BY <1>1, <1>2, <1>3, <1>4, <1>5, <1>6 DEF Undisturbed

\* The two releases of leases.
LEMMA ReleaseStep ==
    ASSUME IInv,
           ReleaseLease("publication", "task_agent") \/ ReleaseLease("task_agent", "report")
    PROVE  IInv'
<1>1. CASE ReleaseLease("publication", "task_agent")
    BY <1>1, PublicationReleasedBeforeStep, PublicationReleaseStep, PublicationKeptStep
    DEF ReleaseLease
<1>2. CASE ReleaseLease("task_agent", "report")
    BY <1>2, TaskAgentReleasedBeforeStep, TaskAgentReleaseStep, TaskAgentKeptStep
    DEF ReleaseLease
<1> QED
    BY <1>1, <1>2

\* Every step keeps the invariant.
LEMMA Inductive == IInv /\ [Next]_vars => IInv'
<1> SUFFICES ASSUME IInv, [Next]_vars PROVE IInv'
    OBVIOUS
<1>1. CASE AcquireLease
    BY <1>1, AcquireWrittenStep, AcquireKeptStep, LeasesCheckedStep DEF AcquireLease
<1>2. CASE StageTask \/ Intend
    BY <1>2, StageTaskStep, IntendStep
<1>3. CASE CheckRelease
    BY <1>3, OutputCheckedStep, TrackerCheckedStep DEF CheckRelease
<1>4. CASE Publish
    BY <1>4, PublishedBeforeStep, PublishPointerStep, MoveAsideStep, MoveInStep,
        PublishedAgainStep DEF Publish
<1>5. CASE Deliver
    BY <1>5, OutputKeptStep, TakeAsideStep, RedeliverStep DEF Deliver
<1>6. CASE Promote
    BY <1>6, PromotedBeforeStep, OpenTransactionStep, RecoverTransactionStep, PreparedStep,
        ReplaceNotesStep, RestoreNotesStep, PromoteTrackerStep, PromotedTrackerStep,
        MarkedStep, MarkStep, CloseStep, PromotionKeptStep, QualifyStep DEF Promote
<1>7. CASE ReleaseLease("publication", "task_agent") \/ ReleaseLease("task_agent", "report")
    BY <1>7, ReleaseStep
<1>8. CASE Report \/ Refuse \/ Start \/ Resume \/ Die
    BY <1>8, ReportStep, RefuseStep, StartStep, ResumeStep, DieStep
<1>9. CASE Others
    BY <1>9, ExpireStep, CleanUpStep, WriteTrackerStep, MovePointerStep, RestoreOutputStep
    DEF Others
<1>10. CASE UNCHANGED vars
    BY <1>10, Stuttering
<1> QED
    BY <1>1, <1>2, <1>3, <1>4, <1>5, <1>6, <1>7, <1>8, <1>9, <1>10 DEF Next, Execute

\* Through every invocation, death and intervention the three parts of the
\* invariant hold.
THEOREM InvariantCorrect == Spec => []IInv
    BY Initially, Inductive, PTL DEF Spec

\* At most one event of every kind is in a document, and every variable stays
\* within its type, whatever is interrupted and resumed.
THEOREM TypeCorrect == Spec => []PublicationTypeOK
<1>1. IInv => PublicationTypeOK
    BY Typed DEF IInv
<1> QED
    BY <1>1, InvariantCorrect, PTL

\* A promoted tracker and a kept result stand for all the steps before them
\* (execute, harbor_publish.py:275).
THEOREM PromotionCorrect == Spec => []PromotionHolds
<1>1. IInv => PromotionHolds
  <2> SUFFICES ASSUME IInv PROVE PromotionHolds
    OBVIOUS
  <2>1. ASSUME Wrote("promoted")
        PROVE  /\ {"intent", "acquired", "task", "release intent", "release", "output"}
                    \subseteq kept
               /\ transaction \notin {"none", "torn"}
    BY <2>1 DEF IInv, Journal, Promotion
  <2>2. ASSUME Wrote("promoted"), ~disturbed PROVE output = "task" /\ pointer = "ours"
    BY <2>2 DEF IInv, Journal, Promotion, Undisturbed, Calm
  <2>3. /\ "promoted" \in kept => transaction = "complete"
        /\ "result" \in kept => tracker = Released /\ output = "task"
    BY DEF IInv, Promotion
  <2> QED
    BY <2>1, <2>2, <2>3 DEF PromotionHolds
<1> QED
    BY <1>1, InvariantCorrect, PTL

\* Only a check that fails ends a child with a refusal.
LEMMA OnlyRefuse ==
    ASSUME [Next]_vars, pc' = "refused", pc # "refused"
    PROVE  Refuse
<1> USE DEF At, Goes, Keeps, Writes, Enters, Disturbs
<1>1. ASSUME AcquireLease \/ StageTask \/ Intend \/ CheckRelease PROVE FALSE
    BY <1>1 DEF AcquireLease, StageTask, Intend, CheckRelease
<1>2. ASSUME Publish \/ Deliver PROVE FALSE
    BY <1>2 DEF Publish, Deliver
<1>3. ASSUME Promote PROVE FALSE
    BY <1>3 DEF Promote
<1>4. ASSUME ReleaseLease("publication", "task_agent") \/ ReleaseLease("task_agent", "report")
             \/ Report
      PROVE  FALSE
    BY <1>4 DEF ReleaseLease, Report
<1>5. ASSUME Start \/ Resume \/ Die PROVE FALSE
    BY <1>5 DEF Start, Resume, Die, Invoke
<1>6. ASSUME Others PROVE FALSE
    BY <1>6 DEF Others, Expire, CleanUp, WriteTracker, MovePointer, RestoreOutput
<1>7. ASSUME UNCHANGED vars PROVE FALSE
    BY <1>7 DEF vars
<1> QED
    BY <1>1, <1>2, <1>3, <1>4, <1>5, <1>6, <1>7 DEF Next, Execute

\* However often the child dies, execute refuses only after something
\* intervened (the checks of execute, harbor_publish.py:275).
THEOREM RefusalCorrect == Spec => RefusedForCause
<1>1. IInv /\ [Next]_vars => [pc' = "refused" /\ pc # "refused" => disturbed]_vars
    BY OnlyRefuse, CalmPasses DEF Refuse
<1> QED
    BY <1>1, InvariantCorrect, PTL DEF Spec, RefusedForCause

-----------------------------------------------------------------------------
(* The way to the result.  That a publication which nobody disturbs comes   *)
(* to its result is checked on a small instance (Publishes); what brings it *)
(* there, for any number of invocations, is proved here: until the result   *)
(* is kept there is a step to take, and every step leaves less to do.       *)

\* The steps that execute has before it at most, from its next one.
StepsLeft ==
    CASE pc = "execute" -> IF tracker = <<>> THEN 27 ELSE 26
      [] pc = "check leases" -> 25
      [] pc = "stage task" -> 24
      [] pc = "intend" -> 23
      [] pc = "check output" -> 22
      [] pc = "check tracker" -> 21
      [] pc = "publish" -> 20
      [] pc = "move aside" -> 19
      [] pc = "move in" -> 18
      [] pc = "publish again" -> 17
      [] pc = "deliver" -> IF output = "task" THEN 14 ELSE 16
      [] pc = "redeliver" -> 15
      [] pc = "promote" -> 13
      [] pc = "prepare" -> 12
      [] pc \in {"replace notes", "restore notes"} -> 11
      [] pc \in {"replace tracker", "restore tracker"} -> 10
      [] pc = "mark" -> 9
      [] pc = "close" -> 8
      [] pc = "keep promotion" -> 7
      [] pc = "qualify" -> 6
      [] pc = "publication" -> IF tracker = Promoted THEN 5 ELSE 4
      [] pc = "task_agent" -> IF tracker = Halfway THEN 3 ELSE 2
      [] pc = "report" -> 1
      [] OTHER -> 0

\* A resumption runs execute from its beginning.
Left == 28 * (MaxInvocations - invocations) + StepsLeft

\* An intent that nobody disturbed and that has no result yet.
Underway == "intent" \in kept /\ "result" \notin kept /\ ~disturbed

\* The guard of a resumption, or of the child's next step.
MayGoOn ==
    IF Stopped THEN invocations < MaxInvocations
    ELSE Passes /\ (pc = "restore tracker" => tracker \in {Acquired, Promoted})

\* Wherever a child died, a publication that nobody disturbed can be resumed,
\* and its child passes every check that execute makes.
PublicationPossible == Underway => MayGoOn

\* Every step of a child, its death and its resumption bring an undisturbed
\* publication nearer to its end (execute, _run_publication).
PublicationAdvances == [][~disturbed' => Left' < Left]_vars

\* Only a report ends a child that passes its checks.
LEMMA RunsOn ==
    ASSUME Execute, ~Report, ~Refuse
    PROVE  ~Stopped'
<1> USE DEF At, Goes, Keeps, Writes, Enters, Stopped
<1>1. ASSUME AcquireLease \/ StageTask \/ Intend \/ CheckRelease PROVE ~Stopped'
    BY <1>1 DEF AcquireLease, StageTask, Intend, CheckRelease
<1>2. ASSUME Publish \/ Deliver PROVE ~Stopped'
    BY <1>2 DEF Publish, Deliver
<1>3. ASSUME Promote PROVE ~Stopped'
    BY <1>3 DEF Promote
<1>4. ASSUME ReleaseLease("publication", "task_agent") \/ ReleaseLease("task_agent", "report")
      PROVE  ~Stopped'
    BY <1>4 DEF ReleaseLease
<1> QED
    BY <1>1, <1>2, <1>3, <1>4 DEF Execute

\* Who steps in is remembered.
LEMMA OthersDisturb ==
    ASSUME Others
    PROVE  disturbed'
    BY DEF Others, Expire, CleanUp, WriteTracker, MovePointer, RestoreOutput, Disturbs

\* A publication stops before its last invocation, or with its result.
Resumable == Underway /\ Stopped => invocations < MaxInvocations

LEMMA ResumableNext == IInv /\ Resumable /\ [Next]_vars => Resumable'
<1> SUFFICES ASSUME IInv, Resumable, [Next]_vars, Underway', Stopped'
             PROVE  invocations' < MaxInvocations
    BY DEF Resumable
<1>1. CASE Report
    BY <1>1 DEF Report, At, Keeps, Underway
<1>2. CASE Refuse
    BY <1>2, CalmPasses DEF Refuse, Underway, world
<1>3. CASE Execute /\ ~Report /\ ~Refuse
    BY <1>3, RunsOn
<1>4. CASE Start \/ Resume
    BY <1>4 DEF Start, Resume, Invoke, Stopped
<1>5. CASE Die
    BY <1>5 DEF Die
<1>6. CASE Others
    BY <1>6, OthersDisturb DEF Underway
<1>7. CASE UNCHANGED vars
    BY <1>7 DEF vars, world, files, Resumable, Underway, Stopped
<1> QED
    BY <1>1, <1>2, <1>3, <1>4, <1>5, <1>6, <1>7 DEF Next

\* The publication is never stuck before its result.
THEOREM NeverStuck == Spec => []PublicationPossible
<1>1. Init => Resumable
    BY DEF Init, Resumable, Underway
<1>2. IInv /\ Resumable => PublicationPossible
  <2> SUFFICES ASSUME IInv, Resumable, Underway PROVE MayGoOn
    BY DEF PublicationPossible
  <2>1. CASE Stopped
    BY <2>1 DEF Resumable, MayGoOn
  <2>2. CASE ~Stopped
    <3>1. Passes
      BY <2>2, CalmPasses DEF Underway
    <3>2. pc = "restore tracker" => tracker \in {Acquired, Promoted}
      BY DEF IInv, Promotion
    <3> QED
      BY <2>2, <3>1, <3>2 DEF MayGoOn
  <2> QED
    BY <2>1, <2>2
<1> QED
    BY <1>1, <1>2, ResumableNext, InvariantCorrect, PTL DEF Spec

\* The numbers of the steps, one by one, before and after a step.
Listed ==
    /\ pc = "execute" => StepsLeft = (IF tracker = <<>> THEN 27 ELSE 26)
    /\ pc = "check leases" => StepsLeft = 25
    /\ pc = "stage task" => StepsLeft = 24
    /\ pc = "intend" => StepsLeft = 23
    /\ pc = "check output" => StepsLeft = 22
    /\ pc = "check tracker" => StepsLeft = 21
    /\ pc = "publish" => StepsLeft = 20
    /\ pc = "move aside" => StepsLeft = 19
    /\ pc = "move in" => StepsLeft = 18
    /\ pc = "publish again" => StepsLeft = 17
    /\ pc = "deliver" => StepsLeft = (IF output = "task" THEN 14 ELSE 16)
    /\ pc = "redeliver" => StepsLeft = 15
    /\ pc = "promote" => StepsLeft = 13
    /\ pc = "prepare" => StepsLeft = 12
    /\ pc = "mark" => StepsLeft = 9
    /\ pc = "close" => StepsLeft = 8
    /\ pc = "keep promotion" => StepsLeft = 7
    /\ pc = "qualify" => StepsLeft = 6
    /\ pc = "publication" => StepsLeft = (IF tracker = Promoted THEN 5 ELSE 4)
    /\ pc = "task_agent" => StepsLeft = (IF tracker = Halfway THEN 3 ELSE 2)
    /\ pc = "report" => StepsLeft = 1
    /\ pc \in {"replace notes", "restore notes"} => StepsLeft = 11
    /\ pc \in {"replace tracker", "restore tracker"} => StepsLeft = 10
    /\ pc \in {"none", "refused"} => StepsLeft = 0

LEMMA Listing == Listed /\ Listed'
    BY Zenon DEF Listed, StepsLeft

\* An invocation has fewer steps than are counted for it, and none when it
\* stopped.
Bounded ==
    StepsLeft \in 0..27 /\ (~Stopped => StepsLeft > 0) /\ (Stopped => StepsLeft = 0)

LEMMA StepsBounded == (IInv => Bounded) /\ (IInv' => Bounded')
<1>1. ASSUME IInv PROVE Bounded
  <2>1. pc \in Steps
    BY <1>1 DEF IInv, Fields
  <2>2. Stopped => StepsLeft = 0
    BY Listing, Zenon DEF Listed, Stopped
  <2>3. ~Stopped =>
          StepsLeft \in {1, 2, 3, 4, 5, 6, 7, 8, 9, 10, 11, 12, 13, 14, 15, 16, 17, 18, 19,
                        20, 21, 22, 23, 24, 25, 26, 27}
    BY <2>1, Listing, Zenon DEF Listed, Steps, Leases, Stopped
  <2> QED
    BY <2>2, <2>3 DEF Bounded
<1>2. ASSUME IInv' PROVE Bounded'
  <2>1. pc' \in Steps
    BY <1>2 DEF IInv, Fields
  <2>2. Stopped' => StepsLeft' = 0
    BY Listing, Zenon DEF Listed, Stopped
  <2>3. ~Stopped' =>
          StepsLeft' \in {1, 2, 3, 4, 5, 6, 7, 8, 9, 10, 11, 12, 13, 14, 15, 16, 17, 18, 19,
                        20, 21, 22, 23, 24, 25, 26, 27}
    BY <2>1, Listing, Zenon DEF Listed, Steps, Leases, Stopped
  <2> QED
    BY <2>2, <2>3 DEF Bounded
<1> QED
    BY <1>1, <1>2

\* Fewer steps, or a later invocation.
LEMMA Sooner ==
    ASSUME NEW k \in Nat, NEW n \in Nat, k <= n, NEW l \in 0..27, NEW m \in 0..27
    PROVE  /\ l < m => 28 * (n - k) + l < 28 * (n - k) + m
           /\ k < n => 28 * (n - (k + 1)) + l < 28 * (n - k) + m
    BY SMT

\* A document with one more event is another one.
LEMMA Longer ==
    ASSUME NEW s \in Seq(Events), NEW e \in Events
    PROVE  Append(s, e) # s /\ Append(s, e) # <<>>
    OBVIOUS

Falls(m, n) == StepsLeft = m /\ StepsLeft' = n

\* Each step of execute is one of those that were left.
LEMMA StepTaken ==
    ASSUME IInv, Execute
    PROVE  StepsLeft' < StepsLeft
<1> USE DEF At, Goes, Keeps, Writes, Enters, files
<1>0. \A e \in Events : Append(tracker, e) # tracker /\ Append(tracker, e) # <<>>
    BY Longer DEF IInv, Documented
<1>00. "acquire" \in Events /\ "publication" \in Events /\ "task_agent" \in Events
    BY Made
<1>1. CASE AcquireLease
  <2>0. Append(tracker, "acquire") # <<>>
    BY <1>0, <1>00
  <2>1. \/ Falls(27, 26) \/ Falls(26, 25) \/ Falls(25, 24)
    BY <1>1, <2>0, Listing, Zenon DEF AcquireLease, Listed, Falls
  <2> QED
    BY <2>1 DEF Falls
<1>2. CASE StageTask \/ Intend \/ CheckRelease
  <2>1. \/ Falls(24, 23) \/ Falls(23, 22) \/ Falls(22, 21) \/ Falls(21, 20)
    BY <1>2, Listing, Zenon DEF StageTask, Intend, CheckRelease, Listed, Falls
  <2> QED
    BY <2>1 DEF Falls
<1>3. CASE Publish
  <2>1. \/ Falls(20, 14) \/ Falls(20, 16) \/ Falls(20, 18) \/ Falls(20, 19)
         \/ Falls(19, 18) \/ Falls(18, 17) \/ Falls(17, 14) \/ Falls(17, 16)
    BY <1>3, Listing, Zenon DEF Publish, Listed, Falls
  <2> QED
    BY <2>1 DEF Falls
<1>4. CASE Deliver
  <2>1. \/ Falls(16, 15) \/ Falls(15, 14) \/ Falls(14, 13)
    BY <1>4, Listing, Zenon DEF Deliver, Listed, Falls
  <2> QED
    BY <2>1 DEF Falls
<1>5. CASE Promote
  <2>1. \/ Falls(13, 6) \/ Falls(13, 12) \/ Falls(13, 11) \/ Falls(12, 11)
         \/ Falls(11, 10) \/ Falls(10, 9) \/ Falls(9, 7) \/ Falls(9, 8)
         \/ Falls(8, 7) \/ Falls(7, 6) \/ Falls(6, 5) \/ Falls(6, 4)
    BY <1>5, Listing, Zenon DEF Promote, Listed, Falls
  <2> QED
    BY <2>1 DEF Falls
<1>6. CASE ReleaseLease("publication", "task_agent")
  <2>1. \/ Falls(5, 4) \/ Falls(5, 3) \/ Falls(5, 2) \/ Falls(4, 3)
         \/ Falls(4, 2)
    BY <1>6, <1>0, <1>00, Made, Listing, Zenon DEF ReleaseLease, Listed, Falls
  <2> QED
    BY <2>1 DEF Falls
<1>7. CASE ReleaseLease("task_agent", "report")
  <2>1. \/ Falls(3, 2) \/ Falls(3, 1) \/ Falls(2, 1)
    BY <1>7, <1>0, <1>00, Made, Listing, Zenon DEF ReleaseLease, Listed, Falls
  <2> QED
    BY <2>1 DEF Falls
<1>8. CASE Report
  <2>1. \/ Falls(1, 0)
    BY <1>8, Listing, Zenon DEF Report, Listed, Falls
  <2> QED
    BY <2>1 DEF Falls
<1>9. CASE Refuse
  <2>1. ~Stopped /\ StepsLeft' = 0
    BY <1>9, Listing, Zenon DEF Refuse, Listed
  <2> QED
    BY <2>1, StepsBounded DEF Bounded
<1> QED
    BY <1>1, <1>2, <1>3, <1>4, <1>5, <1>6, <1>7, <1>8, <1>9 DEF Execute

\* A child starts no other one.
LEMMA Unhurried ==
    ASSUME Execute
    PROVE  invocations' = invocations
    BY DEF Execute, AcquireLease, StageTask, Intend, CheckRelease, Publish, Deliver, Promote,
           ReleaseLease, Report, Refuse, At, world

\* Where execute is, and how many invocations are left, only decreases.
THEOREM PublicationProgress == Spec => PublicationAdvances
<1>1. ASSUME IInv, Next, ~disturbed' PROVE Left' < Left
  <2>1. IInv'
    BY <1>1, Inductive
  <2>2. invocations \in Nat /\ MaxInvocations \in Nat /\ invocations <= MaxInvocations
    <3>1. invocations \in 0..MaxInvocations
      BY <1>1 DEF IInv, Fields
    <3> QED
      BY <3>1, InvocationsAssumption
  <2>3. StepsLeft \in 0..27 /\ StepsLeft' \in 0..27
    BY <1>1, <2>1, StepsBounded DEF Bounded
  <2>4. CASE Execute
    <3>1. invocations' = invocations /\ StepsLeft' < StepsLeft
      BY <1>1, <2>4, Unhurried, StepTaken
    <3> QED
      BY <2>2, <2>3, <3>1, Sooner DEF Left
  <2>5. CASE Start \/ Resume
    <3>1. invocations' = invocations + 1 /\ invocations < MaxInvocations /\ Stopped
      BY <2>5 DEF Start, Resume, Invoke
    <3> QED
      BY <2>2, <2>3, <3>1, Sooner DEF Left
  <2>6. CASE Die
    <3>1. invocations' = invocations /\ ~Stopped /\ Stopped'
      BY <2>6, Zenon DEF Die, Stopped
    <3>2. StepsLeft > 0 /\ StepsLeft' = 0
      BY <1>1, <2>1, <3>1, StepsBounded DEF Bounded
    <3> QED
      BY <2>2, <2>3, <3>1, <3>2, Sooner DEF Left
  <2>7. CASE Others
    BY <1>1, <2>7, OthersDisturb
  <2> QED
    BY <1>1, <2>4, <2>5, <2>6, <2>7 DEF Next
<1>2. IInv /\ [Next]_vars => [~disturbed' => Left' < Left]_vars
    BY <1>1
<1> QED
    BY <1>2, InvariantCorrect, PTL DEF Spec, PublicationAdvances
=============================================================================

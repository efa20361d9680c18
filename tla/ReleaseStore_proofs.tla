------------------------- MODULE ReleaseStore_proofs -------------------------
(***************************************************************************)
(* Proofs about the release store, for any number of requests and starts:  *)
(* it implements ReleasePointer, the output is sound, and a resumption is  *)
(* refused only for a cause while requests run one after the other.        *)
(*                                                                         *)
(* The refinement needs that what was compared under the lock still holds  *)
(* when the pointer is replaced (Holding, Progress).  The output needs the *)
(* order in which requests became current: a request that finds its        *)
(* initial output again has become current after whoever made it (Request, *)
(* NotLatest).  Safe resumption adds what a request that runs alone may    *)
(* rely on from one of its steps to the next (Alone).                      *)
(***************************************************************************)
EXTENDS ReleaseStore, TLAPS

In(r, s) == \E i \in DOMAIN s : s[i] = r
Distinct(s) == \A i, j \in DOMAIN s : s[i] = s[j] => i = j
Prefix(s, t) == Len(s) <= Len(t) /\ \A i \in 1..Len(s) : s[i] = t[i]
Latest(r, s) == s # <<>> /\ s[Len(s)] = r

\* The store's lock is held at these steps.
Locked == {"freezing", "check", "stage", "point", "backup", "copy", "unlock"}
\* Before and after the request's release became current.
Unpublished == {"look", "freeze", "freezing", "lock", "check", "stage", "point"}
AfterPoint == {"backup", "copy", "unlock", "deliver", "displace", "redeliver",
               "report", "done"}

\* Who is at a step under the lock holds it.
Holding == \A r \in Requests : pc[r] \in Locked => holder = r

\* A request becomes current once, and only such a request is at the output.
Pointer ==
    /\ Distinct(pointer)
    /\ pointer # <<>> => pointer \in releases
    /\ output \in Requests => In(output, pointer)

\* A request that became current did so over what it was qualified against.
Request ==
    \A r \in Requests :
        /\ ~In(r, expected[r])
        /\ initial[r] \in Requests => In(initial[r], expected[r])
        /\ In(r, pointer) => intended[r] /\ Prefix(Append(expected[r], r), pointer)

\* What a request has done so far.
Progress ==
    \A r \in Requests :
        /\ pc[r] = "new" => ~In(r, pointer)
        /\ pc[r] \in Unpublished /\ ~resuming[r] => ~In(r, pointer)
        /\ pc[r] \in Unpublished => intended[r]
        /\ pc[r] \in {"stage", "point"} => pointer = expected[r]
        /\ pc[r] \in {"backup", "copy", "unlock"} => pointer = Append(expected[r], r)
        /\ pc[r] \in AfterPoint => In(r, pointer)
        /\ pc[r] \in {"lock", "check"} => snapshot = "frozen" \/ pointer # <<>>
        /\ copied[r] => In(r, pointer)
        /\ pc[r] = "displace" => compared[r] = initial[r]

\* Requests that run one after the other.
Alone == ~overlapped => \A r, q \in Requests : pc[r] \notin Idle /\ pc[q] \notin Idle => r = q

\* What nobody else changes while requests run one after the other.
Undisturbed ==
    ~overlapped =>
        \A r \in Requests :
            /\ pc[r] = "freeze" => pointer = <<>>
            /\ pc[r] \in {"freeze", "freezing", "lock", "check"} => pointer = expected[r]
            /\ pc[r] \in AfterPoint \ {"done"} => pointer = Append(expected[r], r)
            /\ pc[r] \in {"copy", "redeliver"} => output = Absent
            /\ pc[r] = "displace" => output = initial[r]
            /\ pc[r] = "report" => output = r

\* What the coordinator moved aside does not come back.
MovedAside ==
    ~overlapped => \A r \in Requests : copied[r] => output # initial[r] /\ initial[r] # Absent

\* The two parts of OutputSound.
Delivered ==
    ~overtaken => \A r \in Requests : pc[r] = "done" /\ Latest(r, pointer) => output = r

Kept ==
    /\ \A r \in Requests : initial[r] = Original => output = Original \/ Original \in backups
    /\ \A r \in Requests : pc[r] = "done" => output = r \/ r \in backups

IInv == TypeOK /\ Holding /\ Pointer /\ Request /\ Progress /\ Alone /\ Undisturbed /\ MovedAside
        /\ Delivered /\ Kept
-----------------------------------------------------------------------------
(* Sequences of requests. *)

\* A release and its successor.
LEMMA Successor ==
    ASSUME NEW s \in Release, NEW r \in Requests
    PROVE  /\ Append(s, r) \in Release /\ Append(s, r) # <<>> /\ Append(s, r) # s
           /\ Latest(r, Append(s, r)) /\ In(r, Append(s, r))
           /\ \A q : Latest(q, Append(s, r)) => q = r
           /\ \A q : In(q, Append(s, r)) <=> In(q, s) \/ q = r
           /\ Prefix(s, s) /\ Prefix(Append(s, r), Append(s, r))
<1>1. /\ Len(s) \in Nat /\ Append(s, r) \in Release /\ Len(Append(s, r)) = Len(s) + 1
      /\ DOMAIN s = 1..Len(s) /\ DOMAIN Append(s, r) = 1..(Len(s) + 1)
      /\ Append(s, r)[Len(s) + 1] = r
      /\ \A i \in 1..Len(s) : Append(s, r)[i] = s[i]
    BY DEF Release
<1>2. Append(s, r) # s
  <2>1. \A n \in Nat : n + 1 # n
    OBVIOUS
  <2> QED
    BY <1>1, <2>1, Zenon
<1>3. Append(s, r) # <<>>
  <2>1. Len(<<>>) = 0
    OBVIOUS
  <2>2. Len(Append(s, r)) # 0
    BY <1>1
  <2> QED
    BY <2>1, <2>2
<1>4. \A q : In(q, Append(s, r)) <=> In(q, s) \/ q = r
    BY <1>1 DEF In
<1>5. Latest(r, Append(s, r)) /\ \A q : Latest(q, Append(s, r)) => q = r
    BY <1>1, <1>3 DEF Latest
<1>6. Prefix(s, s) /\ Prefix(Append(s, r), Append(s, r))
    BY <1>1 DEF Prefix
<1> QED
    BY <1>1, <1>2, <1>3, <1>4, <1>5, <1>6

\* A new request keeps releases free of repetitions.
LEMMA DistinctAppend ==
    ASSUME NEW s \in Release, NEW r \in Requests, Distinct(s), ~In(r, s)
    PROVE  Distinct(Append(s, r))
<1>1. /\ Len(s) \in Nat
      /\ DOMAIN s = 1..Len(s) /\ DOMAIN Append(s, r) = 1..(Len(s) + 1)
      /\ Append(s, r)[Len(s) + 1] = r
      /\ \A i \in 1..Len(s) : Append(s, r)[i] = s[i]
    BY DEF Release
<1> QED
    BY <1>1 DEF Distinct, In

\* What a release succeeded, its successors succeed.
LEMMA PrefixAppend ==
    ASSUME NEW s \in Release, NEW t \in Release, NEW r \in Requests, Prefix(t, s)
    PROVE  Prefix(t, Append(s, r))
<1>1. /\ Len(s) \in Nat /\ Len(t) \in Nat /\ Len(Append(s, r)) = Len(s) + 1
      /\ \A i \in 1..Len(s) : Append(s, r)[i] = s[i]
    BY DEF Release
<1> QED
    BY <1>1 DEF Prefix

\* Whoever is in what q succeeded is not the last one to have become current.
LEMMA NotLatest ==
    ASSUME NEW e \in Release, NEW p \in Release, NEW q \in Requests, NEW t,
           Distinct(p), Prefix(Append(e, q), p), In(t, e)
    PROVE  ~Latest(t, p)
<1>1. /\ Len(e) \in Nat /\ Len(p) \in Nat /\ Len(Append(e, q)) = Len(e) + 1
      /\ DOMAIN e = 1..Len(e) /\ DOMAIN p = 1..Len(p)
      /\ \A i \in 1..Len(e) : Append(e, q)[i] = e[i]
    BY DEF Release
<1>2. PICK i \in 1..Len(e) : e[i] = t
    BY <1>1 DEF In
<1>3. Len(e) + 1 <= Len(p) /\ p[i] = t
    BY <1>1, <1>2 DEF Prefix
<1>4. Len(e) \in Nat /\ Len(p) \in Nat /\ i \in Nat /\ 1 <= i /\ i <= Len(e)
    BY <1>1, <1>2
<1>5. i \in 1..Len(p) /\ Len(p) \in 1..Len(p) /\ i # Len(p)
    BY <1>3, <1>4
<1> QED
    BY <1>1, <1>3, <1>5 DEF Distinct, Latest

\* There is no request in the absence of a release.
LEMMA NobodyInNothing == ASSUME NEW r PROVE ~In(r, <<>>)
    BY DEF In

-----------------------------------------------------------------------------
(* Steps. *)

\* A fresh invocation.
LEMMA BeginStep ==
    ASSUME IInv, NEW r \in Requests, Begin(r)
    PROVE  IInv'
<1> USE NamesAssumption DEF IInv, Begin, MayStart, Goto, store, history
<1>1. TypeOK'
    BY DEF TypeOK, Steps, Output, Moved
<1>2. Holding'
    BY DEF TypeOK, Holding, Locked, Idle
<1>3. Pointer'
    BY DEF Pointer
<1>4. Request'
    BY NobodyInNothing DEF TypeOK, Request, Pointer, Progress
<1>5. Progress'
    BY DEF TypeOK, Progress, AfterPoint, Unpublished
<1>6. Alone'
    BY DEF TypeOK, Alone, Idle
<1>7. Undisturbed'
    BY DEF TypeOK, Alone, Undisturbed, Idle, AfterPoint
<1>8. MovedAside'
    BY DEF TypeOK, MovedAside, Progress
<1>9. Delivered'
    BY DEF TypeOK, Delivered
<1>10. Kept'
    BY DEF TypeOK, Kept, Moved
<1> QED
    BY <1>1, <1>2, <1>3, <1>4, <1>5, <1>6, <1>7, <1>8, <1>9, <1>10

\* A resumption by hand.
LEMMA ResumeStep ==
    ASSUME IInv, NEW r \in Requests, Resume(r)
    PROVE  IInv'
<1> USE NamesAssumption DEF IInv, Resume, MayStart, Goto, store, history
<1>1. TypeOK'
    BY DEF TypeOK, Steps, Output, Moved
<1>2. Holding'
    BY DEF TypeOK, Holding, Locked, Idle
<1>3. Pointer'
    BY DEF Pointer
<1>4. Request'
    BY DEF TypeOK, Request
<1>5. Progress'
    BY DEF TypeOK, Progress, AfterPoint, Unpublished
<1>6. Alone'
    BY DEF TypeOK, Alone, Idle
<1>7. Undisturbed'
    BY DEF TypeOK, Alone, Undisturbed, Idle, AfterPoint
<1>8. MovedAside'
    BY DEF TypeOK, MovedAside, Progress
<1>9. Delivered'
    BY DEF TypeOK, Delivered
<1>10. Kept'
    BY DEF TypeOK, Kept, Moved
<1> QED
    BY <1>1, <1>2, <1>3, <1>4, <1>5, <1>6, <1>7, <1>8, <1>9, <1>10

\* The release intent is written or found.
LEMMA WriteIntentStep ==
    ASSUME IInv, NEW r \in Requests, WriteIntent(r)
    PROVE  IInv'
<1> USE NamesAssumption DEF IInv, WriteIntent, store, history
<1>1. TypeOK'
    BY DEF TypeOK, Steps, Output, Moved
<1>2. Holding'
    BY DEF TypeOK, Holding, Locked, Idle
<1>3. Pointer'
    BY DEF Pointer
<1>4. Request'
    BY DEF TypeOK, Request
<1>5. Progress'
    BY DEF TypeOK, Progress, Request, AfterPoint, Unpublished
<1>6. Alone'
    BY DEF TypeOK, Alone, Idle
<1>7. Undisturbed'
    BY DEF TypeOK, Alone, Undisturbed, Idle, AfterPoint
<1>8. MovedAside'
    BY DEF TypeOK, MovedAside, Progress
<1>9. Delivered'
    BY DEF TypeOK, Delivered
<1>10. Kept'
    BY DEF TypeOK, Kept, Moved
<1> QED
    BY <1>1, <1>2, <1>3, <1>4, <1>5, <1>6, <1>7, <1>8, <1>9, <1>10

\* The pointer is read without the lock.
LEMMA LookStep ==
    ASSUME IInv, NEW r \in Requests, Look(r)
    PROVE  IInv'
<1> USE NamesAssumption DEF IInv, Look, OwnRelease, store, journal, history
<1>t. /\ pointer \in Release /\ expected \in [Requests -> Release] /\ expected[r] \in Release
      /\ initial[r] \in Output /\ output \in Output
    BY DEF TypeOK
<1>a. pointer = Append(expected[r], r) => In(r, pointer)
    BY <1>t, Successor
<1>1. TypeOK'
    BY DEF TypeOK, Steps, Output, Moved
<1>2. Holding'
    BY DEF TypeOK, Holding, Locked, Idle
<1>3. Pointer'
    BY DEF Pointer
<1>4. Request'
    BY DEF TypeOK, Request
<1>5. Progress'
    BY <1>a DEF TypeOK, Progress, AfterPoint, Unpublished
<1>6. Alone'
    BY DEF TypeOK, Alone, Idle
<1>7. Undisturbed'
    BY DEF TypeOK, Alone, Undisturbed, Idle, AfterPoint
<1>8. MovedAside'
    BY DEF TypeOK, MovedAside, Progress
<1>9. Delivered'
    BY DEF TypeOK, Delivered
<1>10. Kept'
    BY DEF TypeOK, Kept, Moved
<1> QED
    BY <1>1, <1>2, <1>3, <1>4, <1>5, <1>6, <1>7, <1>8, <1>9, <1>10

\* The freezing of the legacy state begins, or there is nothing to freeze.
LEMMA FreezeStep ==
    ASSUME IInv, NEW r \in Requests, Freeze(r)
    PROVE  IInv'
<1> USE NamesAssumption DEF IInv, Freeze, journal, history
<1>1. TypeOK'
    BY DEF TypeOK, Steps, Output, Moved
<1>2. Holding'
    BY DEF TypeOK, Holding, Locked, Idle
<1>3. Pointer'
    BY DEF Pointer
<1>4. Request'
    BY DEF TypeOK, Request
<1>5. Progress'
    BY DEF TypeOK, Progress, AfterPoint, Unpublished
<1>6. Alone'
    BY DEF TypeOK, Alone, Idle
<1>7. Undisturbed'
    BY DEF TypeOK, Alone, Undisturbed, Idle, AfterPoint
<1>8. MovedAside'
    BY DEF TypeOK, MovedAside, Progress
<1>9. Delivered'
    BY DEF TypeOK, Delivered
<1>10. Kept'
    BY DEF TypeOK, Kept, Moved
<1> QED
    BY <1>1, <1>2, <1>3, <1>4, <1>5, <1>6, <1>7, <1>8, <1>9, <1>10

\* The legacy snapshot gets its pointer.
LEMMA FreezePointerStep ==
    ASSUME IInv, NEW r \in Requests, FreezePointer(r)
    PROVE  IInv'
<1> USE NamesAssumption DEF IInv, FreezePointer, Goto, journal, history
<1>1. TypeOK'
    BY DEF TypeOK, Steps, Output, Moved
<1>2. Holding'
    BY DEF TypeOK, Holding, Locked, Idle
<1>3. Pointer'
    BY DEF Pointer
<1>4. Request'
    BY DEF TypeOK, Request
<1>5. Progress'
    BY DEF TypeOK, Progress, AfterPoint, Unpublished
<1>6. Alone'
    BY DEF TypeOK, Alone, Idle
<1>7. Undisturbed'
    BY DEF TypeOK, Alone, Undisturbed, Idle, AfterPoint
<1>8. MovedAside'
    BY DEF TypeOK, MovedAside, Progress
<1>9. Delivered'
    BY DEF TypeOK, Delivered
<1>10. Kept'
    BY DEF TypeOK, Kept, Moved
<1> QED
    BY <1>1, <1>2, <1>3, <1>4, <1>5, <1>6, <1>7, <1>8, <1>9, <1>10

\* The lock of the store.
LEMMA LockStep ==
    ASSUME IInv, NEW r \in Requests, Lock(r)
    PROVE  IInv'
<1> USE NamesAssumption DEF IInv, Lock, Goto, store, journal, history
<1>1. TypeOK'
    BY DEF TypeOK, Steps, Output, Moved
<1>2. Holding'
    BY DEF TypeOK, Holding, Locked, Idle
<1>3. Pointer'
    BY DEF Pointer
<1>4. Request'
    BY DEF TypeOK, Request
<1>5. Progress'
    BY DEF TypeOK, Progress, AfterPoint, Unpublished
<1>6. Alone'
    BY DEF TypeOK, Alone, Idle
<1>7. Undisturbed'
    BY DEF TypeOK, Alone, Undisturbed, Idle, AfterPoint
<1>8. MovedAside'
    BY DEF TypeOK, MovedAside, Progress
<1>9. Delivered'
    BY DEF TypeOK, Delivered
<1>10. Kept'
    BY DEF TypeOK, Kept, Moved
<1> QED
    BY <1>1, <1>2, <1>3, <1>4, <1>5, <1>6, <1>7, <1>8, <1>9, <1>10

\* The comparison under the lock.
LEMMA CheckStep ==
    ASSUME IInv, NEW r \in Requests, Check(r)
    PROVE  IInv'
<1> USE NamesAssumption DEF IInv, Check, store, journal, history
<1>1. TypeOK'
    BY DEF TypeOK, Steps, Output, Moved
<1>2. Holding'
    BY DEF TypeOK, Holding, Locked, Idle
<1>3. Pointer'
    BY DEF Pointer
<1>4. Request'
    BY DEF TypeOK, Request
<1>5. Progress'
    BY DEF TypeOK, Progress, AfterPoint, Unpublished
<1>6. Alone'
    BY DEF TypeOK, Alone, Idle
<1>7. Undisturbed'
    BY DEF TypeOK, Alone, Undisturbed, Idle, AfterPoint
<1>8. MovedAside'
    BY DEF TypeOK, MovedAside, Progress
<1>9. Delivered'
    BY DEF TypeOK, Delivered
<1>10. Kept'
    BY DEF TypeOK, Kept, Moved
<1> QED
    BY <1>1, <1>2, <1>3, <1>4, <1>5, <1>6, <1>7, <1>8, <1>9, <1>10

\* The immutable release.
LEMMA StageStep ==
    ASSUME IInv, NEW r \in Requests, Stage(r)
    PROVE  IInv'
<1> USE NamesAssumption DEF IInv, Stage, Goto, journal, history
<1>t. /\ pointer \in Release /\ expected \in [Requests -> Release] /\ expected[r] \in Release
      /\ initial[r] \in Output /\ output \in Output
    BY DEF TypeOK
<1>a. Append(pointer, r) \in Release
    BY <1>t, Successor
<1>1. TypeOK'
    BY <1>a DEF TypeOK, Steps
<1>2. Holding'
    BY DEF TypeOK, Holding, Locked, Idle
<1>3. Pointer'
    BY DEF Pointer
<1>4. Request'
    BY DEF TypeOK, Request
<1>5. Progress'
    BY DEF TypeOK, Progress, AfterPoint, Unpublished
<1>6. Alone'
    BY DEF TypeOK, Alone, Idle
<1>7. Undisturbed'
    BY DEF TypeOK, Alone, Undisturbed, Idle, AfterPoint
<1>8. MovedAside'
    BY DEF TypeOK, MovedAside, Progress
<1>9. Delivered'
    BY DEF TypeOK, Delivered
<1>10. Kept'
    BY DEF TypeOK, Kept, Moved
<1> QED
    BY <1>1, <1>2, <1>3, <1>4, <1>5, <1>6, <1>7, <1>8, <1>9, <1>10

\* The request becomes current.
LEMMA PointStep ==
    ASSUME IInv, NEW r \in Requests, Point(r)
    PROVE  IInv'
<1> USE NamesAssumption DEF IInv, Point, Goto, journal, history
<1>t. /\ pointer \in Release /\ expected \in [Requests -> Release] /\ expected[r] \in Release
      /\ initial[r] \in Output /\ output \in Output
    BY DEF TypeOK
<1>a. pointer = expected[r] /\ pointer' = Append(pointer, r) /\ ~In(r, pointer) /\ pc[r] = "point"
    BY DEF Progress, Request
<1>b. /\ pointer' \in Release /\ pointer' # <<>> /\ Prefix(pointer', pointer') /\ In(r, pointer')
      /\ \A q : Latest(q, pointer') => q = r
      /\ \A q : In(q, pointer') <=> In(q, pointer) \/ q = r
    BY <1>t, <1>a, Successor
<1>c. pc' = [pc EXCEPT ![r] = "backup"]
    OBVIOUS
<1>1. TypeOK'
    BY <1>t, <1>a, <1>b DEF TypeOK, Steps
<1>2. Holding'
    BY DEF TypeOK, Holding, Locked, Idle
<1>3. Pointer'
    BY <1>t, <1>a, <1>b, DistinctAppend DEF Pointer, TypeOK
<1>4. Request'
  <2>1. ASSUME NEW q \in Requests, In(q, pointer') PROVE intended[q] /\ Prefix(Append(expected[q], q), pointer')
    <3>1. CASE q = r
      BY <1>a, <1>b, <3>1 DEF Progress, Unpublished
    <3>2. CASE q # r
      <4>1. In(q, pointer) /\ Append(expected[q], q) \in Release
        BY <1>t, <1>a, <1>b, <2>1, <3>2, Successor
      <4>2. intended[q] /\ Prefix(Append(expected[q], q), pointer)
        BY <4>1 DEF Request
      <4> QED
        BY <1>t, <1>a, <4>1, <4>2, PrefixAppend
    <3> QED
      BY <3>1, <3>2
  <2> QED
    BY <2>1 DEF Request
<1>5. Progress'
  <2> SUFFICES ASSUME NEW q \in Requests
               PROVE  /\ pc'[q] = "new" => ~In(q, pointer')
                      /\ pc'[q] \in Unpublished => intended[q]
                      /\ pc'[q] \in Unpublished /\ ~resuming[q] => ~In(q, pointer')
                      /\ pc'[q] \in {"stage", "point"} => pointer' = expected[q]
                      /\ pc'[q] \in {"backup", "copy", "unlock"} => pointer' = Append(expected[q], q)
                      /\ pc'[q] \in AfterPoint => In(q, pointer')
                      /\ pc'[q] \in {"lock", "check"} => snapshot = "frozen" \/ pointer' # <<>>
                      /\ copied[q] => In(q, pointer')
                      /\ pc'[q] = "displace" => compared[q] = initial[q]
    BY DEF Progress
  <2>1. CASE q = r
    BY <1>a, <1>b, <1>c, <2>1 DEF TypeOK, Progress, AfterPoint, Unpublished
  <2>2. CASE q # r
    <3>1. pc'[q] = pc[q] /\ pc[q] \notin Locked /\ (In(q, pointer') <=> In(q, pointer))
      BY <1>b, <1>c, <2>2 DEF TypeOK, Holding, Locked
    <3> QED
      BY <1>b, <3>1 DEF Progress, Locked
  <2> QED
    BY <2>1, <2>2
<1>6. Alone'
    BY DEF TypeOK, Alone, Idle
<1>7. Undisturbed'
    BY <1>a, <1>b DEF TypeOK, Alone, Undisturbed, Idle, AfterPoint
<1>8. MovedAside'
    BY DEF TypeOK, MovedAside, Progress
<1>9. Delivered'
    BY <1>a, <1>b, <1>c DEF TypeOK, Delivered
<1>10. Kept'
    BY DEF TypeOK, Kept, Moved
<1> QED
    BY <1>1, <1>2, <1>3, <1>4, <1>5, <1>6, <1>7, <1>8, <1>9, <1>10

\* The old copy is moved aside.
LEMMA BackupStep ==
    ASSUME IInv, NEW r \in Requests, Backup(r)
    PROVE  IInv'
<1> USE NamesAssumption DEF IInv, Backup, Goto, Moved, journal, history
<1>t. /\ pointer \in Release /\ expected \in [Requests -> Release] /\ expected[r] \in Release
      /\ initial[r] \in Output /\ output \in Output
    BY DEF TypeOK
<1>a. pc[r] = "backup" /\ pointer = Append(expected[r], r)
    BY DEF Progress
<1>1. TypeOK'
    BY DEF TypeOK, Steps, Output, Moved
<1>2. Holding'
    BY DEF TypeOK, Holding, Locked, Idle
<1>3. Pointer'
    BY DEF Pointer
<1>4. Request'
    BY DEF TypeOK, Request
<1>5. Progress'
    BY DEF TypeOK, Progress, AfterPoint, Unpublished
<1>6. Alone'
    BY DEF TypeOK, Alone, Idle
<1>7. Undisturbed'
    BY DEF TypeOK, Alone, Undisturbed, Idle, AfterPoint
<1>8. MovedAside'
    BY DEF TypeOK, MovedAside, Progress
<1>9. Delivered'
    BY <1>t, <1>a, Successor DEF TypeOK, Delivered
<1>10. Kept'
    BY DEF TypeOK, Kept, Moved
<1> QED
    BY <1>1, <1>2, <1>3, <1>4, <1>5, <1>6, <1>7, <1>8, <1>9, <1>10

\* The new copy is moved in.
LEMMA CopyStep ==
    ASSUME IInv, NEW r \in Requests, Copy(r)
    PROVE  IInv'
<1> USE NamesAssumption DEF IInv, Copy, journal, history
<1>t. /\ pointer \in Release /\ expected \in [Requests -> Release] /\ expected[r] \in Release
      /\ initial[r] \in Output /\ output \in Output
    BY DEF TypeOK
<1>1. TypeOK'
    BY DEF TypeOK, Steps, Output, Moved
<1>2. Holding'
    BY DEF TypeOK, Holding, Locked, Idle
<1>3. Pointer'
    BY DEF TypeOK, Pointer, Progress, AfterPoint
<1>4. Request'
    BY DEF TypeOK, Request
<1>5. Progress'
    BY DEF TypeOK, Progress, AfterPoint, Unpublished
<1>6. Alone'
    BY DEF TypeOK, Alone, Idle
<1>7. Undisturbed'
    BY DEF TypeOK, Alone, Undisturbed, Idle, AfterPoint
<1>8. MovedAside'
  <2> SUFFICES ASSUME ~overlapped, NEW q \in Requests, copied'[q],
                      output' = initial[q] \/ initial[q] = Absent
               PROVE  FALSE
    BY DEF MovedAside
  <2>1. copied[q] /\ output' = r /\ initial[q] = r
    BY NamesAssumption DEF MovedAside
  <2>2. In(q, pointer) /\ Prefix(Append(expected[q], q), pointer) /\ In(r, expected[q])
    BY <2>1 DEF Progress, Request
  <2>3. pointer = Append(expected[r], r)
    BY DEF Undisturbed, AfterPoint
  <2>4. Latest(r, pointer)
    BY <1>t, <2>3, Successor
  <2>5. expected[q] \in Release
    BY DEF TypeOK
  <2> QED
    BY <1>t, <2>2, <2>4, <2>5, NotLatest DEF Pointer
<1>9. Delivered'
    BY DEF TypeOK, Delivered
<1>10. Kept'
    BY DEF TypeOK, Kept, Moved
<1> QED
    BY <1>1, <1>2, <1>3, <1>4, <1>5, <1>6, <1>7, <1>8, <1>9, <1>10

\* The lock is given back.
LEMMA UnlockStep ==
    ASSUME IInv, NEW r \in Requests, Unlock(r)
    PROVE  IInv'
<1> USE NamesAssumption DEF IInv, Unlock, Goto, store, journal, history
<1>1. TypeOK'
    BY DEF TypeOK, Steps, Output, Moved
<1>2. Holding'
    BY DEF TypeOK, Holding, Locked, Idle
<1>3. Pointer'
    BY DEF Pointer
<1>4. Request'
    BY DEF TypeOK, Request
<1>5. Progress'
    BY DEF TypeOK, Progress, AfterPoint, Unpublished
<1>6. Alone'
    BY DEF TypeOK, Alone, Idle
<1>7. Undisturbed'
    BY DEF TypeOK, Alone, Undisturbed, Idle, AfterPoint
<1>8. MovedAside'
    BY DEF TypeOK, MovedAside, Progress
<1>9. Delivered'
    BY DEF TypeOK, Delivered
<1>10. Kept'
    BY DEF TypeOK, Kept, Moved
<1> QED
    BY <1>1, <1>2, <1>3, <1>4, <1>5, <1>6, <1>7, <1>8, <1>9, <1>10

\* The coordinator looks at the output.
LEMMA DeliverStep ==
    ASSUME IInv, NEW r \in Requests, Deliver(r)
    PROVE  IInv'
<1> USE NamesAssumption DEF IInv, Deliver, store
<1>1. TypeOK'
    BY DEF TypeOK, Steps, Output, Moved
<1>2. Holding'
    BY DEF TypeOK, Holding, Locked, Idle
<1>3. Pointer'
    BY DEF Pointer
<1>4. Request'
    BY DEF TypeOK, Request
<1>5. Progress'
    BY DEF TypeOK, Progress, AfterPoint, Unpublished
<1>6. Alone'
    BY DEF TypeOK, Alone, Idle
<1>7. Undisturbed'
    BY DEF TypeOK, Alone, Undisturbed, Idle, AfterPoint
<1>8. MovedAside'
    BY DEF TypeOK, MovedAside, Progress
<1>9. Delivered'
    BY DEF TypeOK, Delivered
<1>10. Kept'
    BY DEF TypeOK, Kept, Moved
<1> QED
    BY <1>1, <1>2, <1>3, <1>4, <1>5, <1>6, <1>7, <1>8, <1>9, <1>10

\* The coordinator moves aside what is at the output by now.
LEMMA DisplaceStep ==
    ASSUME IInv, NEW r \in Requests, Displace(r)
    PROVE  IInv'
<1> USE NamesAssumption DEF IInv, Displace, Goto
<1>t. /\ pointer \in Release /\ expected \in [Requests -> Release] /\ expected[r] \in Release
      /\ initial[r] \in Output /\ output \in Output
    BY DEF TypeOK
<1>1. TypeOK'
  <2>1. pc' \in [Requests -> Steps] /\ output' \in Output /\ backups' \subseteq Output \ {Absent}
    BY DEF TypeOK, Steps, Output, Moved
  <2>2. copied' \in [Requests -> BOOLEAN] /\ overtaken' \in BOOLEAN
    <3>1. (output # Absent) \in BOOLEAN
      BY Zenon
    <3>2. (overtaken \/ output # compared[r]) \in BOOLEAN
      BY Zenon
    <3> QED
      BY <3>1, <3>2 DEF TypeOK
  <2> QED
    BY <2>1, <2>2 DEF TypeOK
<1>2. Holding'
    BY DEF TypeOK, Holding, Locked, Idle
<1>3. Pointer'
    BY DEF Pointer
<1>4. Request'
    BY DEF TypeOK, Request
<1>5. Progress'
    BY DEF TypeOK, Progress, AfterPoint, Unpublished
<1>6. Alone'
    BY DEF TypeOK, Alone, Idle
<1>7. Undisturbed'
    BY DEF TypeOK, Alone, Undisturbed, Idle, AfterPoint
<1>8. MovedAside'
    BY DEF TypeOK, MovedAside, Undisturbed, AfterPoint
<1>9. Delivered'
  <2> SUFFICES ASSUME ~overtaken', NEW q \in Requests, pc'[q] = "done", Latest(q, pointer')
               PROVE  output' = q
    BY DEF Delivered
  <2>1. ~overtaken /\ output = compared[r] /\ compared[r] = initial[r]
    BY DEF Progress
  <2>2. q # r /\ pc[q] = "done" /\ Latest(q, pointer) /\ output = q
    BY <2>1 DEF TypeOK, Delivered
  <2>3. In(r, pointer) /\ Prefix(Append(expected[r], r), pointer)
    BY DEF Progress, Request, AfterPoint
  <2>4. output # initial[r]
    BY <1>t, <2>2, <2>3, NotLatest DEF Request, Pointer
  <2> QED
    BY <2>1, <2>4
<1>10. Kept'
    BY DEF TypeOK, Kept, Moved
<1> QED
    BY <1>1, <1>2, <1>3, <1>4, <1>5, <1>6, <1>7, <1>8, <1>9, <1>10

\* The coordinator makes the copy.
LEMMA RedeliverStep ==
    ASSUME IInv, NEW r \in Requests, Redeliver(r)
    PROVE  IInv'
<1> USE NamesAssumption DEF IInv, Redeliver, journal, history
<1>t. /\ pointer \in Release /\ expected \in [Requests -> Release] /\ expected[r] \in Release
      /\ initial[r] \in Output /\ output \in Output
    BY DEF TypeOK
<1>1. TypeOK'
    BY DEF TypeOK, Steps, Output, Moved
<1>2. Holding'
    BY DEF TypeOK, Holding, Locked, Idle
<1>3. Pointer'
    BY DEF TypeOK, Pointer, Progress, AfterPoint
<1>4. Request'
    BY DEF TypeOK, Request
<1>5. Progress'
    BY DEF TypeOK, Progress, AfterPoint, Unpublished
<1>6. Alone'
    BY DEF TypeOK, Alone, Idle
<1>7. Undisturbed'
    BY DEF TypeOK, Alone, Undisturbed, Idle, AfterPoint
<1>8. MovedAside'
  <2> SUFFICES ASSUME ~overlapped, NEW q \in Requests, copied'[q],
                      output' = initial[q] \/ initial[q] = Absent
               PROVE  FALSE
    BY DEF MovedAside
  <2>1. copied[q] /\ output' = r /\ initial[q] = r
    BY NamesAssumption DEF MovedAside
  <2>2. In(q, pointer) /\ Prefix(Append(expected[q], q), pointer) /\ In(r, expected[q])
    BY <2>1 DEF Progress, Request
  <2>3. pointer = Append(expected[r], r)
    BY DEF Undisturbed, AfterPoint
  <2>4. Latest(r, pointer)
    BY <1>t, <2>3, Successor
  <2>5. expected[q] \in Release
    BY DEF TypeOK
  <2> QED
    BY <1>t, <2>2, <2>4, <2>5, NotLatest DEF Pointer
<1>9. Delivered'
    BY DEF TypeOK, Delivered
<1>10. Kept'
    BY DEF TypeOK, Kept, Moved
<1> QED
    BY <1>1, <1>2, <1>3, <1>4, <1>5, <1>6, <1>7, <1>8, <1>9, <1>10

\* The result.
LEMMA ReportStep ==
    ASSUME IInv, NEW r \in Requests, Report(r)
    PROVE  IInv'
<1> USE NamesAssumption DEF IInv, Report, store, journal, history
<1>1. TypeOK'
    BY DEF TypeOK, Steps, Output, Moved
<1>2. Holding'
    BY DEF TypeOK, Holding, Locked, Idle
<1>3. Pointer'
    BY DEF Pointer
<1>4. Request'
    BY DEF TypeOK, Request
<1>5. Progress'
    BY DEF TypeOK, Progress, AfterPoint, Unpublished
<1>6. Alone'
    BY DEF TypeOK, Alone, Idle
<1>7. Undisturbed'
    BY DEF TypeOK, Alone, Undisturbed, Idle, AfterPoint
<1>8. MovedAside'
    BY DEF TypeOK, MovedAside, Progress
<1>9. Delivered'
    BY DEF TypeOK, Delivered
<1>10. Kept'
    BY DEF TypeOK, Kept, Moved
<1> QED
    BY <1>1, <1>2, <1>3, <1>4, <1>5, <1>6, <1>7, <1>8, <1>9, <1>10

\* The process dies.
LEMMA CrashStep ==
    ASSUME IInv, NEW r \in Requests, Crash(r)
    PROVE  IInv'
<1> USE NamesAssumption DEF IInv, Crash, store, journal, history
<1>1. TypeOK'
    BY DEF TypeOK, Steps, Output, Moved
<1>2. Holding'
    BY DEF TypeOK, Holding, Locked, Idle
<1>3. Pointer'
    BY DEF Pointer
<1>4. Request'
    BY DEF TypeOK, Request
<1>5. Progress'
    BY DEF TypeOK, Progress, AfterPoint, Unpublished
<1>6. Alone'
    BY DEF TypeOK, Alone, Idle
<1>7. Undisturbed'
    BY DEF TypeOK, Alone, Undisturbed, Idle, AfterPoint
<1>8. MovedAside'
    BY DEF TypeOK, MovedAside, Progress
<1>9. Delivered'
    BY DEF TypeOK, Delivered
<1>10. Kept'
    BY DEF TypeOK, Kept, Moved
<1> QED
    BY <1>1, <1>2, <1>3, <1>4, <1>5, <1>6, <1>7, <1>8, <1>9, <1>10
-----------------------------------------------------------------------------
(* Theorems. *)

\* The invariant holds in every reachable state.
THEOREM InvariantCorrect == Spec => []IInv
<1>1. Init => IInv
  <2> SUFFICES ASSUME Init PROVE IInv
    OBVIOUS
  <2> USE NamesAssumption DEF Init
  <2>1. TypeOK
    <3>1. <<>> \in Release
      BY DEF Release
    <3> QED
      BY <3>1, Zenon DEF TypeOK, Output, Steps
  <2>2. Holding /\ Alone /\ Undisturbed /\ MovedAside
    BY DEF Holding, Locked, Alone, Undisturbed, AfterPoint, Idle, MovedAside
  <2>3. Pointer /\ Request
    BY NobodyInNothing DEF Pointer, Request, Distinct, Output
  <2>4. Progress /\ Delivered /\ Kept
    BY NobodyInNothing DEF Progress, AfterPoint, Unpublished, Delivered, Kept
  <2> QED
    BY <2>1, <2>2, <2>3, <2>4 DEF IInv
<1>2. IInv /\ [Next]_vars => IInv'
  <2> SUFFICES ASSUME IInv, [Next]_vars PROVE IInv'
    OBVIOUS
  <2>1. CASE UNCHANGED vars
    BY <2>1 DEF IInv, vars, TypeOK, Holding, Pointer, Request, Progress, Alone, Undisturbed,
                MovedAside, Delivered, Kept
  <2>2. ASSUME NEW r \in Requests, Work(r) PROVE IInv'
    BY <2>2, WriteIntentStep, LookStep, FreezeStep, FreezePointerStep, LockStep, CheckStep,
       StageStep, PointStep, BackupStep, CopyStep, UnlockStep, DeliverStep, DisplaceStep,
       RedeliverStep, ReportStep DEF Work
  <2> QED
    BY <2>1, <2>2, BeginStep, ResumeStep, CrashStep DEF Next
<1> QED
  BY <1>1, <1>2, PTL DEF Spec

\* Every reachable state is well typed (the schema of pointer and journal in
\* xl_release_publication.py and harbor_publish.py).
THEOREM TypeCorrect == Spec => []TypeOK
<1>1. IInv => TypeOK
  BY DEF IInv
<1> QED
  BY <1>1, InvariantCorrect, PTL

\* The output is the task of the current release once that was reported, and
\* nothing that was at the output is lost (_materialize_compatibility, _output).
THEOREM OutputCorrect == Spec => []OutputSound
<1>1. IInv => OutputSound
  <2> SUFFICES ASSUME IInv PROVE OutputSound
    OBVIOUS
  <2>1. overtaken \/ CurrentDelivered
    <3> SUFFICES ASSUME ~overtaken, NEW r \in Requests, pc[r] = "done", pointer[Len(pointer)] = r
                 PROVE  output = r
      BY DEF CurrentDelivered
    <3>1. pointer # <<>>
      BY NobodyInNothing DEF IInv, Progress, AfterPoint
    <3> QED
      BY <3>1 DEF IInv, Delivered, Latest
  <2>2. OutputKept
    BY NamesAssumption DEF IInv, Kept, OutputKept
  <2> QED
    BY <2>1, <2>2 DEF OutputSound
<1> QED
  BY <1>1, InvariantCorrect, PTL

\* The release store implements ReleasePointer: whatever its requests read
\* outside the lock, wherever they die and however often they are resumed, one
\* becomes current only over the release it was qualified against, and is
\* reported only when it did.
THEOREM PromiseCorrect == Spec => KeepsThePromise
<1> DEFINE qualified == {r \in Requests : pc[r] # "new"}
           reported == {r \in Requests : pc[r] = "done"}
<1>1. Init => Abstract!Init
  BY DEF Init, Abstract!Init
<1>2. IInv /\ [Next]_vars =>
        [Abstract!Next]_<<pointer, expected, qualified, reported>>
  <2> SUFFICES ASSUME IInv, [Next]_vars
               PROVE  Abstract!Next \/ UNCHANGED <<pointer, expected, qualified, reported>>
    OBVIOUS
  <2>1. CASE UNCHANGED vars
    BY <2>1 DEF vars
  <2>2. ASSUME NEW r \in Requests, Begin(r) PROVE Abstract!Qualify(r)
    BY <2>2 DEF Begin, Goto, store, IInv, TypeOK, Abstract!Qualify
  <2>3. ASSUME NEW r \in Requests, Point(r) PROVE Abstract!Publish(r)
    BY <2>3 DEF Point, Goto, journal, IInv, TypeOK, Progress, Abstract!Publish
  <2>4. ASSUME NEW r \in Requests, Report(r), output = r PROVE Abstract!Report(r)
    <3>1. \E i \in DOMAIN pointer : pointer[i] = r
      BY <2>4 DEF Report, IInv, Progress, AfterPoint, In
    <3> QED
      BY <2>4, <3>1 DEF Report, store, journal, IInv, TypeOK, Abstract!Report,
                        Abstract!Published
  <2>5. ASSUME NEW r \in Requests,
               Resume(r) \/ Crash(r) \/ WriteIntent(r) \/ Look(r) \/ Freeze(r) \/ FreezePointer(r)
        PROVE  UNCHANGED <<pointer, expected, qualified, reported>>
    BY <2>5 DEF Resume, Crash, WriteIntent, Look, Freeze, FreezePointer, Goto, store, journal,
                history, IInv, TypeOK, Idle
  <2>6. ASSUME NEW r \in Requests,
               \/ Lock(r) \/ Check(r) \/ Stage(r) \/ Backup(r) \/ Copy(r) \/ Unlock(r)
               \/ Deliver(r) \/ Displace(r) \/ Redeliver(r) \/ (Report(r) /\ output # r)
        PROVE  UNCHANGED <<pointer, expected, qualified, reported>>
    BY <2>6 DEF Lock, Check, Stage, Backup, Copy, Unlock, Deliver, Displace, Redeliver,
                Report, Goto, store, journal, history, IInv, TypeOK
  <2> QED
    BY <2>1, <2>2, <2>3, <2>4, <2>5, <2>6 DEF Next, Work, Abstract!Next
<1> QED
  BY <1>1, <1>2, InvariantCorrect, PTL DEF Spec, KeepsThePromise, Abstract!Spec

\* While requests run one after the other, a request is refused only because of
\* another release or another output (publish_or_resume, _output), unless a death
\* interrupted the freezing of the legacy state or the replacement of the output:
\* every other interruption can be resumed.
THEOREM ResumeCorrect == Spec => SafeResume
<1>1. IInv /\ [Next]_vars =>
        [\A r \in Requests : pc[r] # "refused" /\ pc'[r] = "refused" =>
            \/ Causes(r)
            \/ overlapped
            \/ snapshot = "directory"
            \/ HalfReplaced(r)]_vars
  <2> SUFFICES ASSUME IInv, [Next]_vars, NEW r \in Requests, pc[r] # "refused",
                      pc'[r] = "refused", snapshot # "directory", ~overlapped,
                      ~HalfReplaced(r)
               PROVE  Causes(r)
    BY DEF vars
  <2> USE DEF IInv
  <2>t. /\ pointer \in Release /\ expected[r] \in Release /\ pc[r] \in Steps
        /\ pc \in [Requests -> Steps]
    BY DEF TypeOK
  <2>1. Work(r)
    <3>1. ASSUME NEW q \in Requests, Begin(q) \/ Resume(q) \/ Crash(q) PROVE FALSE
      BY <2>t, <3>1 DEF Begin, Resume, Crash, Goto
    <3>2. PICK q \in Requests : Work(q)
      BY <3>1 DEF Next, vars
    <3>3. q = r
      BY <2>t, <3>2 DEF Work, WriteIntent, Look, Freeze, FreezePointer, Lock, Check, Stage, Point,
                  Backup, Copy, Unlock, Deliver, Displace, Redeliver, Report,
                  Goto
    <3> QED
      BY <3>2, <3>3
  <2>2. pointer = Append(expected[r], r) => In(r, pointer) /\ pointer # expected[r]
    BY <2>t, Successor
  <2>3. output = r => In(r, pointer) /\ intended[r]
    BY DEF Pointer, Request
  <2>4. CASE WriteIntent(r)
    BY <2>t, <2>3, <2>4 DEF WriteIntent, Causes
  <2>5. CASE Look(r)
    BY <2>t, <2>2, <2>5 DEF Look, OwnRelease, Causes, Progress, Unpublished
  <2>6. CASE Freeze(r)
    BY <2>t, <2>6 DEF Freeze, Undisturbed
  <2>7. CASE Check(r)
    BY <2>t, <2>7 DEF Check, Undisturbed, Pointer, Progress
  <2>8. CASE Copy(r) \/ Redeliver(r) \/ Report(r)
    BY <2>t, <2>8 DEF Copy, Redeliver, Report, Undisturbed
  <2>9. CASE Deliver(r)
    BY <2>t, <2>9 DEF Deliver, MovedAside, Causes
  <2>10. CASE FreezePointer(r) \/ Lock(r) \/ Stage(r) \/ Point(r) \/ Backup(r) \/ Unlock(r)
    BY <2>t, <2>10 DEF FreezePointer, Lock, Stage, Point, Backup, Unlock, Goto
  <2>11. CASE Displace(r)
    BY <2>t, <2>11 DEF Displace, Goto
  <2> QED
    BY <2>1, <2>4, <2>5, <2>6, <2>7, <2>8, <2>9, <2>10, <2>11 DEF Work
<1> QED
  BY <1>1, InvariantCorrect, PTL DEF Spec, SafeResume
=============================================================================

------------------------ MODULE ProcessGuardian_proofs ------------------------
(***************************************************************************)
(* Proofs about ProcessGuardian, for any number of runs.                   *)
(*                                                                         *)
(* The chain that gives mutual exclusion: a working group passed an open   *)
(* gate, the gate was opened for an acknowledged registration, a guardian  *)
(* that acknowledged stays armed as long as the group lives, an armed      *)
(* guardian has the lock's file open, and only the run whose file is open  *)
(* has the lock.                                                           *)
(***************************************************************************)
EXTENDS ProcessGuardian, SequenceTheorems, TLAPS

Early == {"idle", "holding", "guarded", "spawned"}
OnDuty == {"armed", "terminating"}
Over == {"none", "killed", "ended"}

\* What has been written to the liveness pipe, as far as the controller got.
PipeInv(r) ==
    /\ live[r] \in {<<>>, <<"pid">>, <<"pid", "D">>, <<"D">>}
    /\ ctl[r] \in Early => live[r] = <<>> /\ ~acked[r] /\ gate[r] = "shut"
    /\ ctl[r] \in {"registered", "running", "stopping"} => live[r] \in {<<>>, <<"pid">>}
    /\ live[r] \in {<<"pid", "D">>, <<"D">>} => group[r] \in Over
    /\ ctl[r] = "disarming" => group[r] \in Over

\* What the registration and the gate say of the guardian and the group.
GuardInv(r) ==
    /\ guardian[r] \in OnDuty => acked[r] /\ live[r] \in {<<>>, <<"D">>}
    /\ acked[r] /\ group[r] \notin Over => guardian[r] \in OnDuty
    /\ gate[r] = "go" => acked[r]
    /\ group[r] = "working" => gate[r] = "go"

\* The lock belongs to the run whose file is open, unless it was given up
\* explicitly.
LockInv(r) == Open(r) => locked = r \/ ExplicitUnlock

IInv == TypeOK /\ \A r \in Runs : PipeInv(r) /\ GuardInv(r) /\ LockInv(r)

-----------------------------------------------------------------------------
\* The few contents a liveness pipe ever has: a registration, a disarming byte,
\* both, or nothing.
LEMMA PipeFacts ==
    /\ Append(<<>>, "pid") = <<"pid">> /\ Append(<<>>, "D") = <<"D">>
    /\ Append(<<"pid">>, "D") = <<"pid", "D">>
    /\ Tail(<<"pid">>) = <<>> /\ Tail(<<"pid", "D">>) = <<"D">> /\ Tail(<<"D">>) = <<>>
    /\ Head(<<"pid">>) = "pid" /\ Head(<<"pid", "D">>) = "pid" /\ Head(<<"D">>) = "D"
    /\ <<>> # <<"pid">> /\ <<>> # <<"D">> /\ <<>> # <<"pid", "D">>
    /\ <<"D">> # <<"pid">> /\ <<"D">> # <<"pid", "D">> /\ <<"pid">> # <<"pid", "D">>
    /\ {<<>>, <<"pid">>, <<"pid", "D">>, <<"D">>} \subseteq Seq({"pid", "D"})
<1>1. /\ Append(<<>>, "pid") = <<"pid">> /\ Append(<<>>, "D") = <<"D">>
      /\ Append(<<"pid">>, "D") = <<"pid", "D">>
  <2>1. Append(<<>>, "pid") = <<"pid">>
    OBVIOUS
  <2>2. Append(<<>>, "D") = <<"D">>
    OBVIOUS
  <2>3. Append(<<"pid">>, "D") = <<"pid", "D">>
    <3> DEFINE s == Append(<<"pid">>, "D")
               t == <<"pid", "D">>
               u == <<"pid">>
    <3>1. u \in Seq({"pid", "D"}) /\ t \in Seq({"pid", "D"}) /\ Len(u) = 1 /\ u[1] = "pid"
      OBVIOUS
    <3>2. Len(t) = 2 /\ t[1] = "pid" /\ t[2] = "D"
      OBVIOUS
    <3>3. s \in Seq({"pid", "D"}) /\ Len(s) = 2 /\ s[1] = "pid" /\ s[2] = "D"
      BY <3>1, AppendProperties
    <3> HIDE DEF s, t, u
    <3>4. s = t
      BY <3>1, <3>2, <3>3, SeqEqual
    <3> QED
      BY <3>4 DEF s, t
  <2> QED
    BY <2>1, <2>2, <2>3
<1>2. /\ Tail(<<"pid">>) = <<>> /\ Tail(<<"D">>) = <<>>
  OBVIOUS
<1>3. Tail(<<"pid", "D">>) = <<"D">>
  OBVIOUS
<1>4. /\ Head(<<"pid">>) = "pid" /\ Head(<<"pid", "D">>) = "pid" /\ Head(<<"D">>) = "D"
  OBVIOUS
<1>5. /\ <<>> # <<"pid">> /\ <<>> # <<"D">> /\ <<>> # <<"pid", "D">>
      /\ <<"D">> # <<"pid">> /\ <<"D">> # <<"pid", "D">> /\ <<"pid">> # <<"pid", "D">>
  OBVIOUS
<1>6. {<<>>, <<"pid">>, <<"pid", "D">>, <<"D">>} \subseteq Seq({"pid", "D"})
  OBVIOUS
<1> QED
  BY <1>1, <1>2, <1>3, <1>4, <1>5, <1>6

\* Before anything ran, pipes are empty, gates shut and nobody has the lock.
LEMMA InvInit == Init => IInv
<1> SUFFICES ASSUME Init PROVE IInv
  OBVIOUS
<1>1. TypeOK
  BY PipeFacts DEF Init, TypeOK, Controller, Guardian, Group
<1>2. \A r \in Runs : PipeInv(r) /\ GuardInv(r) /\ LockInv(r)
  BY PipeFacts DEF Init, PipeInv, GuardInv, LockInv, Open, HasFile, OnDuty, Over
<1> QED
  BY <1>1, <1>2 DEF IInv

(* A step concerns one run; what it leaves alone of the others is all that  *)
(* their invariant speaks of, the lock excepted.                            *)
LEMMA OtherRuns ==
    ASSUME TypeOK, NEW q \in Runs,
           PipeInv(q), GuardInv(q), LockInv(q),
           ctl'[q] = ctl[q], guardian'[q] = guardian[q], group'[q] = group[q],
           live'[q] = live[q], acked'[q] = acked[q], gate'[q] = gate[q],
           Open(q) => locked' = locked \/ ExplicitUnlock
    PROVE  PipeInv(q)' /\ GuardInv(q)' /\ LockInv(q)'
  BY DEF PipeInv, GuardInv, LockInv, Open

\* Every step of a controller, its death included, keeps the invariant of all
\* runs: of its own by the case of each action, of the others by OtherRuns.
LEMMA ControllerStepInv ==
    ASSUME IInv, NEW r \in Runs, ControllerStep(r)
    PROVE  IInv'
<1> USE PipeFacts DEF IInv
<1>t. TypeOK'
  <2>0. live \in [Runs -> Seq({"pid", "D"})]
    BY DEF TypeOK
  <2>1. \A c \in {"pid", "D"} : Append(live[r], c) \in Seq({"pid", "D"})
    BY <2>0, AppendProperties
  <2>2. \/ live' = live
        \/ live' = [live EXCEPT ![r] = Append(@, "pid")]
        \/ live' = [live EXCEPT ![r] = Append(@, "D")]
    BY DEF ControllerStep, TakeLock, SpawnGuardian, SpawnLauncher,
           Register, Go, Finish, KillGroup, Disarm, AwaitGuardian, Interrupted, Unlock, Die
  <2>3. live' \in [Runs -> Seq({"pid", "D"})]
    BY <2>0, <2>1, <2>2
  <2> QED
    BY <2>3 DEF TypeOK, Controller, Guardian, Group, Control, Guard, Groups,
           ControllerStep, TakeLock, SpawnGuardian, SpawnLauncher, Register, Go,
           Finish, KillGroup, Disarm, AwaitGuardian, Interrupted, Unlock, Die
<1>o. ASSUME NEW q \in Runs, q # r
      PROVE  PipeInv(q)' /\ GuardInv(q)' /\ LockInv(q)'
  <2>1. /\ ctl'[q] = ctl[q] /\ guardian'[q] = guardian[q] /\ group'[q] = group[q]
        /\ live'[q] = live[q] /\ acked'[q] = acked[q] /\ gate'[q] = gate[q]
    BY <1>o DEF TypeOK, Control, Guard, Groups,
           ControllerStep, TakeLock, SpawnGuardian, SpawnLauncher, Register, Go,
           Finish, KillGroup, Disarm, AwaitGuardian, Interrupted, Unlock, Die
  <2>2. Open(q) => locked' = locked \/ ExplicitUnlock
    <3>1. CASE TakeLock(r)
      BY <3>1, NobodyAssumption DEF TakeLock, LockInv
    <3>2. CASE Unlock(r)
      BY <3>2 DEF Unlock
    <3> QED
      BY <3>1, <3>2 DEF ControllerStep, SpawnGuardian, SpawnLauncher, Register, Go,
           Finish, KillGroup, Disarm, AwaitGuardian, Interrupted, Die
  <2> QED
    BY <1>o, <2>1, <2>2, OtherRuns
<1>r. PipeInv(r)' /\ GuardInv(r)' /\ LockInv(r)'
  <2> USE DEF TypeOK, PipeInv, GuardInv, LockInv, Open, Control, Guard, Groups, Early, OnDuty,
              Over, HasFile, Controller, Group, Guardian
  <2>1. CASE TakeLock(r)
    BY <2>1 DEF TakeLock
  <2>2. CASE SpawnGuardian(r)
    BY <2>2 DEF SpawnGuardian
  <2>3. CASE SpawnLauncher(r)
    BY <2>3 DEF SpawnLauncher
  <2>4. CASE Register(r)
    BY <2>4 DEF Register
  <2>5. CASE Go(r)
    BY <2>5 DEF Go
  <2>6. CASE Finish(r)
    BY <2>6 DEF Finish
  <2>7. CASE KillGroup(r)
    BY <2>7 DEF KillGroup
  <2>8. CASE Disarm(r)
    BY <2>8 DEF Disarm
  <2>9. CASE AwaitGuardian(r)
    BY <2>9 DEF AwaitGuardian
  <2>10. CASE Interrupted(r)
    BY <2>10 DEF Interrupted
  <2>11. CASE Unlock(r)
    BY <2>11 DEF Unlock
  <2>12. CASE Die(r)
    BY <2>12 DEF Die
  <2> QED
    BY <2>1, <2>2, <2>3, <2>4, <2>5, <2>6, <2>7, <2>8, <2>9, <2>10, <2>11, <2>12
       DEF ControllerStep
<1> QED
  BY <1>t, <1>o, <1>r

\* So does every step of a guardian, a launcher or a command.
LEMMA OtherStepInv ==
    ASSUME IInv, NEW r \in Runs,
           GuardianStep(r) \/ Launch(r) \/ GateClosed(r) \/ GroupEnds(r) \/ Reaped(r)
    PROVE  IInv'
<1> USE PipeFacts DEF IInv
<1>1. ctl' = ctl /\ gate' = gate /\ locked' = locked
  BY DEF GuardianStep, ReadRegistration, AcknowledgesNobody, GiveUp, Disarmed, EndOfFile, Terminate, GroupGone,
         Launch, GateClosed, GroupEnds, Reaped
<1>t. TypeOK'
  <2>0. live \in [Runs -> Seq({"pid", "D"})]
    BY DEF TypeOK
  <2>1. live[r] # <<>> => Tail(live[r]) \in Seq({"pid", "D"})
    BY <2>0, HeadTailProperties
  <2>2. \/ live' = live
        \/ live[r] # <<>> /\ live' = [live EXCEPT ![r] = Tail(@)]
    BY DEF GuardianStep, ReadRegistration, AcknowledgesNobody, GiveUp, Disarmed, EndOfFile,
           Terminate, GroupGone, Launch, GateClosed, GroupEnds, Reaped
  <2>3. live' \in [Runs -> Seq({"pid", "D"})]
    BY <2>0, <2>1, <2>2
  <2> QED
    BY <1>1, <2>3 DEF TypeOK, Guardian, Group, Guard, Groups, GuardianStep, ReadRegistration,
           AcknowledgesNobody, GiveUp, Disarmed, EndOfFile, Terminate, GroupGone, Launch, GateClosed, GroupEnds, Reaped
<1>o. ASSUME NEW q \in Runs, q # r
      PROVE  PipeInv(q)' /\ GuardInv(q)' /\ LockInv(q)'
  <2>1. /\ ctl'[q] = ctl[q] /\ guardian'[q] = guardian[q] /\ group'[q] = group[q]
        /\ live'[q] = live[q] /\ acked'[q] = acked[q] /\ gate'[q] = gate[q]
    BY <1>1, <1>o DEF TypeOK, Guard, Groups, GuardianStep, ReadRegistration,
           AcknowledgesNobody, GiveUp, Disarmed, EndOfFile, Terminate, GroupGone, Launch, GateClosed, GroupEnds, Reaped
  <2> QED
    BY <1>1, <1>o, <2>1, OtherRuns
<1>r. PipeInv(r)' /\ GuardInv(r)' /\ LockInv(r)'
  <2> USE <1>1 DEF TypeOK, PipeInv, GuardInv, LockInv, Open, Guard, Groups, Early, OnDuty, Over,
                   Controller, Group, Guardian
  <2>1. CASE ReadRegistration(r)
    BY <2>1 DEF ReadRegistration
  <2>2. CASE GiveUp(r)
    BY <2>2 DEF GiveUp
  <2>3. CASE Disarmed(r)
    BY <2>3 DEF Disarmed
  <2>4. CASE EndOfFile(r)
    BY <2>4 DEF EndOfFile
  <2>5. CASE Terminate(r)
    BY <2>5 DEF Terminate
  <2>6. CASE GroupGone(r)
    BY <2>6 DEF GroupGone
  <2>7. CASE Launch(r)
    BY <2>7 DEF Launch
  <2>8. CASE GateClosed(r)
    BY <2>8 DEF GateClosed
  <2>9. CASE GroupEnds(r)
    BY <2>9 DEF GroupEnds
  <2>10. CASE Reaped(r)
    BY <2>10 DEF Reaped
  <2>11. CASE AcknowledgesNobody(r)
    BY <2>11 DEF AcknowledgesNobody
  <2> QED
    BY <2>1, <2>2, <2>3, <2>4, <2>5, <2>6, <2>7, <2>8, <2>9, <2>10, <2>11 DEF GuardianStep
<1> QED
  BY <1>t, <1>o, <1>r

\* The invariant is inductive.
LEMMA InvNext == IInv /\ [Next]_vars => IInv'
<1> SUFFICES ASSUME IInv, [Next]_vars PROVE IInv'
  OBVIOUS
<1>1. CASE UNCHANGED vars
  BY <1>1 DEF vars, IInv, TypeOK, PipeInv, GuardInv, LockInv, Open
<1>2. ASSUME NEW r \in Runs, ControllerStep(r) PROVE IInv'
  BY <1>2, ControllerStepInv
<1>3. ASSUME NEW r \in Runs,
             GuardianStep(r) \/ Launch(r) \/ GateClosed(r) \/ GroupEnds(r) \/ Reaped(r)
      PROVE  IInv'
  BY <1>3, OtherStepInv
<1> QED
  BY <1>1, <1>2, <1>3 DEF Next

(* The launch protocol's state is well formed in every run.                 *)
THEOREM TypeCorrect == Spec => []TypeOK
<1>1. IInv => TypeOK
  BY DEF IInv
<1> QED
  BY <1>1, InvInit, InvNext, PTL DEF Spec

(* No command executes without an armed guardian, wherever the controller   *)
(* or the handshake fails.                                                  *)
THEOREM GuardCorrect == Spec => []WorkingUnderGuard
<1>1. IInv => WorkingUnderGuard
  BY DEF IInv, GuardInv, OnDuty, Over, WorkingUnderGuard
<1> QED
  BY <1>1, InvInit, InvNext, PTL DEF Spec

(* Where the caller only closes its lock file, two runs of a workbook never *)
(* execute their commands at the same time.                                 *)
THEOREM ExclusionCorrect ==
    ASSUME ~ExplicitUnlock
    PROVE  Spec => []AtMostOneWorking
<1>1. IInv => AtMostOneWorking
  <2> SUFFICES ASSUME IInv, NEW r \in Runs, NEW q \in Runs,
                      group[r] = "working", group[q] = "working"
               PROVE  r = q
    BY DEF AtMostOneWorking
  <2>1. guardian[r] \in OnDuty /\ guardian[q] \in OnDuty
    BY DEF IInv, GuardInv, Over
  <2>2. Open(r) /\ Open(q)
    BY <2>1 DEF Open, OnDuty
  <2> QED
    BY <2>2 DEF IInv, LockInv
<1> QED
  BY <1>1, InvInit, InvNext, PTL DEF Spec

-----------------------------------------------------------------------------
(* The cleanup after a death.  That it comes to its end is checked on small *)
(* instances (DeathCleanedUp); what makes it end, for any number of runs,   *)
(* is proved here: until it has, the guardian or the launcher has a step to *)
(* take, each of which leaves less to do, and no other step of any process  *)
(* leaves more.  What is cleaned up stays so.                               *)

CleanedUp(r) == group[r] \in {"none", "ended"} /\ ~Open(r)

\* The steps that guardian, launcher and kernel have before them at most for a
\* dead run.
Left(r) ==
    (CASE guardian[r] = "waiting" -> 3
       [] guardian[r] = "armed" -> 2
       [] guardian[r] = "terminating" -> 1
       [] OTHER -> 0)
    + (IF group[r] \in {"none", "ended"} THEN 0 ELSE 1)

\* The guard of some step of the guardian, of the launcher at its gate, or of the
\* kernel at a killed group.
MayCleanUp(r) ==
    \/ guardian[r] = "waiting"
       /\ IF live[r] = <<>> THEN Closed(r) ELSE Head(live[r]) \in {"pid", "D"}
    \/ guardian[r] = "armed" /\ (live[r] # <<>> \/ Closed(r))
    \/ guardian[r] = "terminating"
    \/ group[r] = "gated" /\ gate[r] = "closed"
    \/ group[r] = "killed"

\* A death shuts the gate for good, unless it was opened before.
DeadInv == \A r \in Runs : ctl[r] = "dead" => gate[r] # "shut"

\* Wherever in the handshake a controller died, somebody can act until its
\* group has ended and its lock's file is closed (guard of
\* process_guardian.py).
CleanupPossible == \A r \in Runs : ctl[r] = "dead" /\ ~CleanedUp(r) => MayCleanUp(r)

\* Every act of the guardian, the launcher or the kernel comes closer to that end, and
\* nothing that a command, another run or a resumption does leads away from it.
CleanupAdvances ==
    [][\A r \in Runs : ctl[r] = "dead" =>
        /\ Left(r)' <= Left(r)
        /\ GuardianStep(r) \/ GateClosed(r) \/ Reaped(r) => Left(r)' < Left(r)
        /\ CleanedUp(r) => CleanedUp(r)']_vars

\* Nothing shuts a gate again.
LEMMA DeadNext == TypeOK /\ DeadInv /\ [Next]_vars => DeadInv'
<1> SUFFICES ASSUME TypeOK, DeadInv, [Next]_vars, NEW q \in Runs, ctl'[q] = "dead"
             PROVE  gate'[q] # "shut"
  BY DEF DeadInv
<1>1. CASE ctl[q] = "dead" /\ gate'[q] = gate[q]
  BY <1>1 DEF DeadInv
<1>2. ASSUME NEW r \in Runs, ControllerStep(r) PROVE gate'[q] # "shut"
  BY <1>2 DEF TypeOK, DeadInv, ControllerStep, TakeLock, SpawnGuardian, SpawnLauncher, Register,
     Go, Finish, KillGroup, Disarm, AwaitGuardian, Interrupted, Unlock, Die, Control
<1>3. CASE UNCHANGED <<ctl, gate>>
  BY <1>3 DEF DeadInv
<1> QED
  BY <1>2, <1>3 DEF Next, vars, GuardianStep, ReadRegistration, AcknowledgesNobody, GiveUp, Disarmed, EndOfFile,
     Terminate, GroupGone, Launch, GateClosed, GroupEnds, Reaped

\* A dead controller takes no step, and what others do is not of its run.
LEMMA DeadRunStep ==
    ASSUME IInv, [Next]_vars, NEW r \in Runs, ctl[r] = "dead"
    PROVE  \/ GuardianStep(r) \/ GateClosed(r) \/ Launch(r) \/ GroupEnds(r) \/ Reaped(r)
           \/ /\ ctl'[r] = ctl[r] /\ guardian'[r] = guardian[r] /\ group'[r] = group[r]
              /\ live'[r] = live[r]
<1> USE DEF IInv, TypeOK
<1>1. CASE UNCHANGED vars
  BY <1>1 DEF vars
<1>2. ASSUME NEW q \in Runs, ControllerStep(q)
      PROVE  /\ ctl'[r] = ctl[r] /\ guardian'[r] = guardian[r] /\ group'[r] = group[r]
             /\ live'[r] = live[r]
  <2>1. q # r
    BY <1>2 DEF ControllerStep, TakeLock, SpawnGuardian, SpawnLauncher, Register,
       Go, Finish, KillGroup, Disarm, AwaitGuardian, Interrupted, Unlock, Die, Control
  <2> QED
    BY <1>2, <2>1 DEF ControllerStep, TakeLock, SpawnGuardian, SpawnLauncher, Register,
       Go, Finish, KillGroup, Disarm, AwaitGuardian, Interrupted, Unlock, Die, Control, Guard, Groups
<1>3. ASSUME NEW q \in Runs, q # r,
             GuardianStep(q) \/ Launch(q) \/ GateClosed(q) \/ GroupEnds(q) \/ Reaped(q)
      PROVE  /\ ctl'[r] = ctl[r] /\ guardian'[r] = guardian[r] /\ group'[r] = group[r]
             /\ live'[r] = live[r]
  BY <1>3 DEF GuardianStep, ReadRegistration, AcknowledgesNobody, GiveUp, Disarmed, EndOfFile, Terminate,
     GroupGone, Launch, GateClosed, GroupEnds, Reaped, Guard, Groups
<1> QED
  BY <1>1, <1>2, <1>3 DEF Next

(* The cleanup after a death is never stuck.                                *)
THEOREM CleanupNeverStuck == Spec => []CleanupPossible
<1>1. IInv /\ DeadInv => CleanupPossible
  <2> SUFFICES ASSUME IInv, DeadInv, NEW r \in Runs, ctl[r] = "dead", ~CleanedUp(r)
               PROVE  MayCleanUp(r)
    BY DEF CleanupPossible
  <2>1. CASE guardian[r] \in {"waiting", "armed", "terminating"}
    BY <2>1, PipeFacts DEF MayCleanUp, Closed, IInv, PipeInv
  <2>2. CASE guardian[r] \in {"none", "gone"}
    <3>1. ~Open(r)
      BY <2>2 DEF Open, HasFile
    <3>2. group[r] \in {"gated", "working", "killed"}
      BY <3>1 DEF CleanedUp, IInv, TypeOK, Group
    <3>3. group[r] # "killed" => gate[r] = "closed" /\ group[r] = "gated"
      BY <2>2, <3>2 DEF IInv, DeadInv, GuardInv, OnDuty, Over, TypeOK
    <3> QED
      BY <3>3 DEF MayCleanUp
  <2> QED
    BY <2>1, <2>2 DEF IInv, TypeOK, Guardian
<1>2. Init => DeadInv
  BY DEF Init, DeadInv
<1>3. IInv => TypeOK
  BY DEF IInv
<1> QED
  BY <1>1, <1>2, <1>3, InvInit, InvNext, DeadNext, PTL DEF Spec

(* The cleanup after a death only advances, and is not undone.              *)
THEOREM CleanupCorrect == Spec => CleanupAdvances
<1>1. ASSUME IInv, [Next]_vars, NEW r \in Runs, ctl[r] = "dead"
      PROVE  /\ Left(r)' <= Left(r)
             /\ GuardianStep(r) \/ GateClosed(r) \/ Reaped(r) => Left(r)' < Left(r)
             /\ CleanedUp(r) => CleanedUp(r)'
  <2> USE DEF IInv, TypeOK
  <2>1. CASE GuardianStep(r)
    <3>1. /\ ctl'[r] = "dead"
          /\ \/ guardian[r] = "waiting" /\ guardian'[r] \in {"armed", "gone"}
                /\ group'[r] = group[r]
             \/ guardian[r] = "armed" /\ guardian'[r] \in {"terminating", "gone"}
                /\ group'[r] = group[r]
             \/ guardian[r] = "terminating" /\ guardian'[r] = "gone"
                /\ \/ group'[r] = group[r]
                   \/ group[r] \in {"gated", "working"} /\ group'[r] = "killed"
      BY <1>1, <2>1 DEF GuardianStep, ReadRegistration, AcknowledgesNobody, GiveUp, Disarmed, EndOfFile, Terminate,
         GroupGone, Guard
    <3>2. Left(r)' < Left(r)
      BY <3>1 DEF Left
    <3>3. ~CleanedUp(r)
      BY <3>1 DEF CleanedUp, Open
    <3>4. Left(r) \in Nat /\ Left(r)' \in Nat
      BY DEF Left
    <3> QED
      BY <3>2, <3>3, <3>4
  <2>2. CASE GateClosed(r) \/ Reaped(r)
    <3>1. /\ group[r] \in {"gated", "killed"} /\ group'[r] = "ended" /\ guardian'[r] = guardian[r]
      BY <1>1, <2>2 DEF GateClosed, Reaped, Groups
    <3> QED
      BY <3>1 DEF Left, CleanedUp
  <2>3. CASE (Launch(r) \/ GroupEnds(r)) /\ ~GuardianStep(r) /\ ~GateClosed(r) /\ ~Reaped(r)
    <3>1. /\ group[r] \in {"gated", "working"} /\ group'[r] \in {"working", "ended"}
          /\ guardian'[r] = guardian[r]
      BY <1>1, <2>3 DEF Launch, GroupEnds, Groups
    <3> QED
      BY <2>3, <3>1 DEF Left, CleanedUp
  <2>4. CASE /\ ctl'[r] = ctl[r] /\ guardian'[r] = guardian[r] /\ group'[r] = group[r]
             /\ ~GuardianStep(r) /\ ~GateClosed(r) /\ ~Reaped(r)
    BY <2>4 DEF Left, CleanedUp, Open
  <2> QED
    BY <1>1, <2>1, <2>2, <2>3, <2>4, DeadRunStep
<1>2. IInv /\ [Next]_vars =>
        [\A r \in Runs : ctl[r] = "dead" =>
            /\ Left(r)' <= Left(r)
            /\ GuardianStep(r) \/ GateClosed(r) \/ Reaped(r) => Left(r)' < Left(r)
            /\ CleanedUp(r) => CleanedUp(r)']_vars
  BY <1>1
<1> QED
  BY <1>2, InvInit, InvNext, PTL DEF Spec, CleanupAdvances

=============================================================================

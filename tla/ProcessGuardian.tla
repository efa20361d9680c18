--------------------------- MODULE ProcessGuardian ---------------------------
(***************************************************************************)
(* The launch of a worker command under an independent guardian, and the   *)
(* workbook's flock that the guardian inherits.                            *)
(*                                                                         *)
(* Every run has a controller (_run_in_process_group in the process that   *)
(* took the lock), a guardian process, and a process group that begins as  *)
(* a launcher waiting at a gate and becomes the command.  Three pipes join *)
(* them: the liveness pipe (the controller's end is closed by its death),  *)
(* the acknowledgement, and the gate.  The runs of one workbook, among     *)
(* them the resumption right after a controller died, contend for its      *)
(* lock, which belongs to an open file: it is free when no process has     *)
(* that file open any more, or when it was explicitly unlocked.            *)
(***************************************************************************)
EXTENDS Naturals, Sequences, FiniteSets

CONSTANTS
    Runs,            \* attempts on one workbook, each with a controller of its own
    ExplicitUnlock,  \* the caller unlocks (convert_and_publish), or only closes
    Nobody           \* no run's file holds the lock

ASSUME ExplicitUnlockAssumption == ExplicitUnlock \in BOOLEAN
ASSUME NobodyAssumption == Nobody \notin Runs

VARIABLES
    locked,    \* the run whose open file has the lock
    ctl,       \* the controller of each run
    guardian,  \* its guardian
    group,     \* its process group
    live,      \* unread content of the liveness pipe
    acked,     \* the guardian acknowledged the registration
    gate       \* the launcher's gate

vars == <<locked, ctl, guardian, group, live, acked, gate>>

Controller == {"idle", "holding", "guarded", "spawned", "registered", "running",
               "stopping", "disarming", "leaving", "returned", "dead"}
Guardian == {"none", "waiting", "armed", "terminating", "gone"}
\* A killed group executes nothing of its own any more; it ends when the kernel
\* is done with its processes.
Group == {"none", "gated", "working", "killed", "ended"}

\* The controller still has the lock's file open.
HasFile == Controller \ {"idle", "returned", "dead"}
\* The controller's end of the liveness pipe is closed.
Closed(r) == ctl[r] = "dead"
\* The controller's end of the acknowledgement is open.
AckOpen(r) == ctl[r] \notin {"disarming", "dead"}

\* Mutant: the lock's descriptor is not passed to the guardian.
OpenInController(r) == ctl[r] \in HasFile

Open(r) == ctl[r] \in HasFile \/ guardian[r] \in {"waiting", "armed", "terminating"}

Control(r, from, to) == ctl[r] = from /\ ctl' = [ctl EXCEPT ![r] = to]
Guard(r, from, to) == guardian[r] = from /\ guardian' = [guardian EXCEPT ![r] = to]
Groups(r, from, to) == group[r] \in from /\ group' = [group EXCEPT ![r] = to]

-----------------------------------------------------------------------------
\* Mutant: the gate is born in a state the launcher does not know.
InitUnknown ==
    /\ locked = Nobody
    /\ ctl = [r \in Runs |-> "idle"]
    /\ guardian = [r \in Runs |-> "none"]
    /\ group = [r \in Runs |-> "none"]
    /\ live = [r \in Runs |-> <<>>]
    /\ acked = [r \in Runs |-> FALSE]
    /\ gate = [r \in Runs |-> "open"]

Init ==
    /\ locked = Nobody
    /\ ctl = [r \in Runs |-> "idle"]
    /\ guardian = [r \in Runs |-> "none"]
    /\ group = [r \in Runs |-> "none"]
    /\ live = [r \in Runs |-> <<>>]
    /\ acked = [r \in Runs |-> FALSE]
    /\ gate = [r \in Runs |-> "shut"]

TakeLock(r) ==
    /\ Control(r, "idle", "holding")
    /\ locked # Nobody => ~Open(locked)
    /\ locked' = r
    /\ UNCHANGED <<guardian, group, live, acked, gate>>

SpawnGuardian(r) ==
    /\ Control(r, "holding", "guarded")
    /\ Guard(r, "none", "waiting")
    /\ UNCHANGED <<locked, group, live, acked, gate>>

SpawnLauncher(r) ==
    /\ Control(r, "guarded", "spawned")
    /\ Groups(r, {"none"}, "gated")
    /\ UNCHANGED <<locked, guardian, live, acked, gate>>

Register(r) ==
    /\ Control(r, "spawned", "registered")
    /\ live' = [live EXCEPT ![r] = Append(@, "pid")]
    /\ UNCHANGED <<locked, guardian, group, acked, gate>>

\* The acknowledgement opens the gate.
Go(r) ==
    /\ Control(r, "registered", "running")
    /\ acked[r]
    /\ gate' = [gate EXCEPT ![r] = "go"]
    /\ UNCHANGED <<locked, guardian, group, live, acked>>

\* Return of the command, its timeout, the memory limit, or a failure of the
\* handshake (fifteen seconds without an acknowledgement among them).
Finish(r) ==
    /\ ctl[r] \in {"holding", "guarded", "spawned", "registered", "running"}
    /\ ctl' = [ctl EXCEPT ![r] = "stopping"]
    /\ UNCHANGED <<locked, guardian, group, live, acked, gate>>

\* _terminate_process_group: what is left after the grace period is killed.
KillGroup(r) ==
    /\ ctl[r] = "stopping" /\ Groups(r, {"gated", "working"}, "killed")
    /\ UNCHANGED <<locked, ctl, guardian, live, acked, gate>>

\* Never disarm a live group; every descriptor is closed.
Disarm(r) ==
    /\ Control(r, "stopping", "disarming")
    /\ group[r] \notin {"gated", "working"}
    /\ live' = [live EXCEPT ![r] = Append(@, "D")]
    /\ gate' = [gate EXCEPT ![r] = IF @ = "shut" THEN "closed" ELSE @]
    /\ UNCHANGED <<locked, guardian, group, acked>>

\* guardian.wait, and its kill when it does not end in time.
AwaitGuardian(r) ==
    /\ Control(r, "disarming", "leaving")
    /\ guardian' = [guardian EXCEPT ![r] = IF @ = "none" THEN @ ELSE "gone"]
    /\ UNCHANGED <<locked, group, live, acked, gate>>

\* A KeyboardInterrupt in _terminate_process_group leaves the cleanup, the
\* liveness pipe open.
Interrupted(r) ==
    /\ Control(r, "stopping", "leaving")
    /\ UNCHANGED <<locked, guardian, group, live, acked, gate>>

\* The caller gives up the lock.
Unlock(r) ==
    /\ Control(r, "leaving", "returned")
    /\ locked' = IF ExplicitUnlock /\ locked = r THEN Nobody ELSE locked
    /\ UNCHANGED <<guardian, group, live, acked, gate>>

\* Death of the controller closes its ends of all pipes.
Die(r) ==
    /\ ctl[r] \notin {"idle", "dead"}
    /\ ctl' = [ctl EXCEPT ![r] = "dead"]
    /\ gate' = [gate EXCEPT ![r] = IF @ = "shut" THEN "closed" ELSE @]
    /\ UNCHANGED <<locked, guardian, group, live, acked>>

-----------------------------------------------------------------------------
(* The guardian: guard(), and terminate().                                  *)

ReadRegistration(r) ==
    /\ Guard(r, "waiting", "armed")
    /\ live[r] # <<>> /\ Head(live[r]) = "pid"
    /\ AckOpen(r)
    /\ live' = [live EXCEPT ![r] = Tail(@)]
    /\ acked' = [acked EXCEPT ![r] = TRUE]
    /\ UNCHANGED <<locked, ctl, group, gate>>

\* The acknowledgement finds its pipe broken, and the guardian ends by that.
AcknowledgesNobody(r) ==
    /\ Guard(r, "waiting", "gone")
    /\ live[r] # <<>> /\ Head(live[r]) = "pid"
    /\ ~AckOpen(r)
    /\ live' = [live EXCEPT ![r] = Tail(@)]
    /\ UNCHANGED <<locked, ctl, group, acked, gate>>

\* No registration will come: end of file, or the disarming of a run that
\* failed before it registered.
GiveUp(r) ==
    /\ Guard(r, "waiting", "gone")
    /\ IF live[r] = <<>> THEN Closed(r) ELSE Head(live[r]) = "D"
    /\ UNCHANGED <<locked, ctl, group, live, acked, gate>>

Disarmed(r) ==
    /\ Guard(r, "armed", "gone")
    /\ live[r] # <<>>
    /\ live' = [live EXCEPT ![r] = Tail(@)]
    /\ UNCHANGED <<locked, ctl, group, acked, gate>>

\* Mutant: the guardian leaves at end of file.
EndOfFileReturns(r) ==
    /\ Guard(r, "armed", "gone")
    /\ live[r] = <<>> /\ Closed(r)
    /\ UNCHANGED <<locked, ctl, group, live, acked, gate>>

EndOfFile(r) ==
    /\ Guard(r, "armed", "terminating")
    /\ live[r] = <<>> /\ Closed(r)
    /\ UNCHANGED <<locked, ctl, group, live, acked, gate>>

\* SIGTERM, the grace period, SIGKILL; it does not wait for the group's end.
Terminate(r) ==
    /\ Guard(r, "terminating", "gone")
    /\ group' = [group EXCEPT ![r] = IF @ \in {"gated", "working"} THEN "killed" ELSE @]
    /\ UNCHANGED <<locked, ctl, live, acked, gate>>

\* The group was seen dead between two readings of the pipe.
GroupGone(r) ==
    /\ Guard(r, "armed", "gone")
    /\ live[r] = <<>> /\ group[r] = "ended"
    /\ UNCHANGED <<locked, ctl, group, live, acked, gate>>

-----------------------------------------------------------------------------
(* The process group.                                                       *)

\* Mutant: end of file at the gate is taken for permission.
LaunchAnyway(r) ==
    /\ Groups(r, {"gated"}, "working")
    /\ gate[r] # "shut"
    /\ UNCHANGED <<locked, ctl, guardian, live, acked, gate>>

Launch(r) ==
    /\ Groups(r, {"gated"}, "working")
    /\ gate[r] = "go"
    /\ UNCHANGED <<locked, ctl, guardian, live, acked, gate>>

GateClosed(r) ==
    /\ Groups(r, {"gated"}, "ended")
    /\ gate[r] = "closed"
    /\ UNCHANGED <<locked, ctl, guardian, live, acked, gate>>

\* The command and its descendants end, of their own or by a signal.
GroupEnds(r) ==
    /\ Groups(r, {"working"}, "ended")
    /\ UNCHANGED <<locked, ctl, guardian, live, acked, gate>>

\* The kernel is done with a killed group.
Reaped(r) ==
    /\ Groups(r, {"killed"}, "ended")
    /\ UNCHANGED <<locked, ctl, guardian, live, acked, gate>>

ControllerStep(r) ==
    \/ TakeLock(r) \/ SpawnGuardian(r) \/ SpawnLauncher(r) \/ Register(r) \/ Go(r)
    \/ Finish(r) \/ KillGroup(r) \/ Disarm(r) \/ AwaitGuardian(r)
    \/ Interrupted(r) \/ Unlock(r) \/ Die(r)

GuardianStep(r) ==
    \/ ReadRegistration(r) \/ AcknowledgesNobody(r) \/ GiveUp(r)
    \/ Disarmed(r) \/ EndOfFile(r) \/ Terminate(r) \/ GroupGone(r)

Next ==
    \E r \in Runs :
        \/ ControllerStep(r) \/ GuardianStep(r)
        \/ Launch(r) \/ GateClosed(r) \/ GroupEnds(r) \/ Reaped(r)

Spec == Init /\ [][Next]_vars

\* The system schedules the guardian and the launcher and carries out a kill;
\* controllers and commands may do nothing for ever.
FairSpec ==
    Spec /\ \A r \in Runs :
        WF_vars(GuardianStep(r)) /\ WF_vars(GateClosed(r)) /\ WF_vars(Reaped(r))

-----------------------------------------------------------------------------
\* Controllers, guardians and groups are at points of their programs, and pipes
\* hold only registrations and disarmings.
TypeOK ==
    /\ locked \in Runs \cup {Nobody}
    /\ ctl \in [Runs -> Controller]
    /\ guardian \in [Runs -> Guardian]
    /\ group \in [Runs -> Group]
    /\ live \in [Runs -> Seq({"pid", "D"})]
    /\ acked \in [Runs -> BOOLEAN]
    /\ gate \in [Runs -> {"shut", "go", "closed"}]

\* "It retains the workbook lock through cleanup so an immediate resume cannot
\* race the previous worker's termination grace period" (README.md:455): no two
\* runs of a workbook execute their commands at the same time, whatever
\* controllers die and whenever.
AtMostOneWorking ==
    \A r, q \in Runs : group[r] = "working" /\ group[q] = "working" => r = q

\* "An independent guardian is armed before each command executes"
\* (README.md:453), and it stays until the whole group has ended.
WorkingUnderGuard ==
    \A r \in Runs : group[r] = "working" => guardian[r] \in {"armed", "terminating"}

\* "If its controller dies unexpectedly, the guardian terminates that worker
\* process group" (README.md:453), wherever in the handshake it died, and the
\* lock becomes free.
DeathCleanedUp ==
    \A r \in Runs :
        ctl[r] = "dead" ~> (group[r] \in {"none", "ended"} /\ ~Open(r))
=============================================================================

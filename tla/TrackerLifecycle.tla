--------------------------- MODULE TrackerLifecycle ---------------------------
(***************************************************************************)
(* What the tracker of a workbook promises, whoever writes it and however  *)
(* often a writer dies: it is one register that is replaced one revision   *)
(* at a time.  A lease is the right of its holder to replace it; it is     *)
(* named here by the revision in which it was granted, so that no two are  *)
(* the same.  Who works on the workbook moves it between running, queued   *)
(* for publication and stopped; only the holder of a publication lease     *)
(* promotes it, and only when it is queued; nothing is granted on a        *)
(* terminal tracker, and a stopped one resumes when nobody holds a lease.  *)
(***************************************************************************)
EXTENDS Naturals

CONSTANTS
    WorkLeases,         \* kinds of lease under which lanes are worked on
    PublicationLeases   \* kinds of lease under which a workbook is promoted

Kinds == WorkLeases \cup PublicationLeases
Terminal == {"STOPPED", "PROMOTED"}

VARIABLES
    revision,   \* of the document
    exec,       \* its execution state
    lease       \* of each kind: the revision that granted it, 0 when free

vars == <<revision, exec, lease>>

Init ==
    /\ revision = 0
    /\ exec = "queued"
    /\ lease = [k \in Kinds |-> 0]

Advance == revision' = revision + 1

\* A lease that was not free is taken over from an owner whose lease ran out.
Grant(k) ==
    /\ exec \notin Terminal
    /\ lease[k] = 0 \/ k \in WorkLeases
    /\ lease' = [lease EXCEPT ![k] = revision + 1]
    /\ UNCHANGED exec

Renew(k) ==
    /\ exec \notin Terminal /\ lease[k] # 0
    /\ UNCHANGED <<exec, lease>>

Release(k) ==
    /\ lease[k] # 0
    /\ lease' = [lease EXCEPT ![k] = 0]
    /\ UNCHANGED exec

\* Where the holder of a work lease may lead the tracker; a stopped one is
\* written only to archive what it stopped for.
Leads(to) ==
    \/ exec \notin Terminal /\ to = "running"
    \/ exec \in {"running", "publication_queued"} /\ to \in {"publication_queued", "STOPPED"}
    \/ exec = "STOPPED" /\ to = "STOPPED"

Write(k, to) ==
    /\ k \in WorkLeases /\ lease[k] # 0
    /\ Leads(to)
    /\ exec' = to
    /\ UNCHANGED lease

Promote(k) ==
    /\ k \in PublicationLeases /\ lease[k] # 0
    /\ exec = "publication_queued"
    /\ exec' = "PROMOTED"
    /\ UNCHANGED lease

Resume ==
    /\ exec = "STOPPED" /\ \A k \in Kinds : lease[k] = 0
    /\ exec' = "running"
    /\ UNCHANGED lease

Next ==
    /\ Advance
    /\ \/ \E k \in Kinds : Grant(k) \/ Renew(k) \/ Release(k) \/ Promote(k)
       \/ \E k \in Kinds, to \in {"running", "publication_queued", "STOPPED"} : Write(k, to)
       \/ Resume

Spec == Init /\ [][Next]_vars
=============================================================================

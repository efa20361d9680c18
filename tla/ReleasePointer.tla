---------------------------- MODULE ReleasePointer ----------------------------
(***************************************************************************)
(* What the release store of one workbook promises: a single current       *)
(* release; each publication request becomes current at most once,         *)
(* however often it is retried, and only as the successor of the release   *)
(* it was qualified against; no request is reported that did not.          *)
(*                                                                         *)
(* A release is named by a hash of its tuple and of the release before it: *)
(* here it is the sequence of the requests that led to it, <<>> being the  *)
(* absence of any release.                                                 *)
(***************************************************************************)
EXTENDS Sequences

CONSTANT Requests

VARIABLES
    current,     \* the current release
    basis,       \* the release each request was qualified to succeed
    qualified,   \* requests that were qualified
    reported     \* requests whose publication was reported as successful

Published(r) == \E i \in DOMAIN current : current[i] = r

Init ==
    /\ current = <<>>
    /\ basis = [r \in Requests |-> <<>>]
    /\ qualified = {} /\ reported = {}

Qualify(r) ==
    /\ r \notin qualified
    /\ qualified' = qualified \cup {r}
    /\ basis' = [basis EXCEPT ![r] = current]
    /\ UNCHANGED <<current, reported>>

Publish(r) ==
    /\ r \in qualified /\ current = basis[r]
    /\ current' = Append(current, r)
    /\ UNCHANGED <<basis, qualified, reported>>

Report(r) ==
    /\ Published(r)
    /\ reported' = reported \cup {r}
    /\ UNCHANGED <<current, basis, qualified>>

Next == \E r \in Requests : Qualify(r) \/ Publish(r) \/ Report(r)

Spec == Init /\ [][Next]_<<current, basis, qualified, reported>>
=============================================================================

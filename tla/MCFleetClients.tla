--------------------------- MODULE MCFleetClients ---------------------------
(* Small fleets: worker i1 and collection i2 of the same workbook, two       *)
(* workers i3 and i4 that want the one model slot, two publications i2 and   *)
(* i5 that want the one publication slot, and worker i6 that may reconcile   *)
(* a heartbeat.                                                              *)
EXTENDS FleetClients

CONSTANTS i1, i2, i3, i4, i5, i6, c1, c2, c3, c4, c5, c6, m1, m3, m4, m6, x2, x5,
          w1, w3, w4, w5, a1, a3, a4, d, h1

OneHost == [o \in Owners |-> h1]
TheClaims == [j \in Jobs |->
    CASE j = i1 -> c1 [] j = i2 -> c2 [] j = i3 -> c3 [] j = i4 -> c4 [] j = i5 -> c5
      [] j = i6 -> c6]
TheWorkbooks == [j \in Jobs |-> CASE j \in {i1, i2, i6} -> w1 [] j = i3 -> w3 [] j = i4 -> w4 [] j = i5 -> w5]
TheOwners == [j \in Jobs |-> CASE j \in {i1, i6} -> a1 [] j = i3 -> a3 [] j = i4 -> a4 [] j \in {i2, i5} -> d]
TheOperations == [j \in Jobs |->
    CASE j = i1 -> {m1} [] j = i2 -> {x2} [] j = i3 -> {m3} [] j = i4 -> {m4} [] j = i5 -> {x5}
      [] j = i6 -> {m6}]

\* Workers i3 and i4 differ in nothing but their names.
Twins == {[v \in {i3, i4, c3, c4, m3, m4, w3, w4, a3, a4} |->
    CASE v = i3 -> i4 [] v = i4 -> i3 [] v = c3 -> c4 [] v = c4 -> c3 [] v = m3 -> m4
      [] v = m4 -> m3 [] v = w3 -> w4 [] v = w4 -> w3 [] v = a3 -> a4 [] v = a4 -> a3]}
=============================================================================

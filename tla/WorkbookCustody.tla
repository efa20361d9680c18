--------------------------- MODULE WorkbookCustody ---------------------------
(***************************************************************************)
(* What the fleet coordinator promises about who answers for what.  A      *)
(* workbook has at most one custodian, a claim that is granted once and    *)
(* bears a fence one higher than its predecessor's.  Only the custodian of *)
(* a workbook that is being worked on starts effects (model calls and      *)
(* publications), each once, and only it reports their outcome.  When the  *)
(* work stops, for whatever reason, what was running may become unknown    *)
(* and never runs again; what is unknown is settled by hand; and the       *)
(* workbook passes on only when nothing of it is outstanding.  At any time *)
(* the fleet has one publication outstanding and a workbook one model call.*)
(***************************************************************************)
EXTENDS Naturals

CONSTANTS Workbooks, Claims, ModelCalls, Publications, None

VARIABLES
    custodian,   \* the claim that answers for a workbook, None between two
    fence,       \* how many custodians a workbook has had
    working,     \* workbooks whose custodian may act
    spent,       \* claims that were ever granted
    outcome,     \* of an effect: none, running, unknown or settled
    origin       \* where an effect was started: its workbook, claim and fence

Effects == ModelCalls \cup Publications
holding == <<custodian, fence, working, spent>>
vars == <<holding, outcome, origin>>

Outstanding(p) == outcome[p] \in {"running", "unknown"}

Init ==
    /\ custodian = [w \in Workbooks |-> None]
    /\ fence = [w \in Workbooks |-> 0]
    /\ working = {} /\ spent = {}
    /\ outcome = [p \in Effects |-> "none"]
    /\ origin = [p \in Effects |-> None]

\* A workbook nobody answers for is given to a claim that never had one.
Take(w, c) ==
    /\ custodian[w] = None /\ c \notin spent
    /\ custodian' = [custodian EXCEPT ![w] = c]
    /\ fence' = [fence EXCEPT ![w] = @ + 1]
    /\ working' = working \cup {w} /\ spent' = spent \cup {c}
    /\ UNCHANGED <<outcome, origin>>

Start(w, p) ==
    /\ w \in working /\ outcome[p] = "none"
    /\ p \in Publications => \A q \in Publications : ~Outstanding(q)
    /\ p \in ModelCalls => \A q \in ModelCalls : Outstanding(q) => origin[q].workbook # w
    /\ outcome' = [outcome EXCEPT ![p] = "running"]
    /\ origin' = [origin EXCEPT ![p] =
            [workbook |-> w, claim |-> custodian[w], fence |-> fence[w]]]
    /\ UNCHANGED holding

\* The custodian knows the outcome while it may still act.
Report(p) ==
    /\ outcome[p] = "running"
    /\ origin[p].workbook \in working
    /\ origin[p].claim = custodian[origin[p].workbook]
    /\ outcome' = [outcome EXCEPT ![p] = "settled"]
    /\ UNCHANGED <<holding, origin>>

\* Work stops on the workbooks of W; nobody will learn the outcome of the
\* effects of P, which are of workbooks that are not worked on any more.
Stop(W, P) ==
    /\ working' = working \ W
    /\ \A p \in P : outcome[p] = "running" /\ origin[p].workbook \notin working'
    /\ outcome' = [p \in Effects |-> IF p \in P THEN "unknown" ELSE outcome[p]]
    /\ UNCHANGED <<custodian, fence, spent, origin>>

\* A person found out what became of an unknown effect.
Settle(p) ==
    /\ outcome[p] = "unknown"
    /\ outcome' = [outcome EXCEPT ![p] = "settled"]
    /\ UNCHANGED <<holding, origin>>

Release(w) ==
    /\ w \notin working
    /\ \A p \in Effects : Outstanding(p) => origin[p].workbook # w
    /\ custodian' = [custodian EXCEPT ![w] = None]
    /\ UNCHANGED <<fence, working, spent, outcome, origin>>

Next ==
    \/ \E w \in Workbooks, c \in Claims : Take(w, c)
    \/ \E w \in Workbooks, p \in Effects : Start(w, p)
    \/ \E p \in Effects : Report(p) \/ Settle(p)
    \/ \E W \in SUBSET Workbooks, P \in SUBSET Effects : Stop(W, P)
    \/ \E w \in Workbooks : Release(w)

Spec == Init /\ [][Next]_vars
=============================================================================

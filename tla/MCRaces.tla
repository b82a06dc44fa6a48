------------------------------- MODULE MCRaces --------------------------------
(***************************************************************************)
(* TLC instance of the three specifications of requests that overlap.      *)
(* They share nothing: from the one initial state the pages of two issues  *)
(* overlap, or the requests on a part, or the postings to the ledger of a  *)
(* work order that has a card from before the ledger and of one, filed on  *)
(* a component, that has none.                                             *)
(***************************************************************************)
EXTENDS Issues, Contention, CostLedger, TLC

CONSTANTS x1, x2, i1, i2, l1, l2, w1, w2, none,
          issued, repair, rag, extra, old, older

TwoSessions == {x1, x2}
TwoIssues == {i1, i2}
TwoLines == {l1, l2}
Waiting == <<l1, l2>>
Wanted == l1 :> 2 @@ l2 :> 1

TwoOrders == {w1, w2}
Rows == {issued, repair, rag, extra, old, older}
Kinds == issued :> "part_issue_line" @@ repair :> "external_repair_order"
           @@ rag :> "stock_movement" @@ extra :> "cost_adjustment"
           @@ old :> "migration_backfill" @@ older :> "migration_backfill"
OldCategories == [s \in Rows |-> IF s = older THEN "vendor_repair" ELSE "material"]

\* The rag was used on no machine.
OrderOf == issued :> w1 @@ repair :> w2 @@ rag :> none
             @@ extra :> w2 @@ old :> w1 @@ older :> w1

OldCosts == w1 :> [ZeroSums EXCEPT !["material"] = 1, !["vendor_repair"] = 2] @@ w2 :> ZeroSums
TypedCosts == [w \in TwoOrders |-> [ZeroSums EXCEPT !["material"] = 2]]
ComponentOrders == {w2}
Prices == {0, 2}

Alike == Permutations(TwoSessions) \cup Permutations(TwoIssues)

-------------------------------------------------------------------------------
RacesInit == IssuesInit /\ ContentionInit /\ LedgerInit

RacesNext ==
    \/ ContentionInit /\ LedgerInit /\ IssuesNext /\ UNCHANGED <<svars, cvars>>
    \/ IssuesInit /\ LedgerInit /\ ContentionNext /\ UNCHANGED <<ivars, cvars>>
    \/ IssuesInit /\ ContentionInit /\ LedgerNext /\ UNCHANGED <<ivars, svars>>

RacesSpec == RacesInit /\ [][RacesNext]_<<ivars, svars, cvars>>
===============================================================================

---------------------------- MODULE MCPartPipeline ----------------------------
(***************************************************************************)
(* TLC instances of PartPipeline; two work orders meet in MCProcurement.   *)
(***************************************************************************)
EXTENDS PartPipeline

CONSTANT w1

OneWorkOrder == {w1}
NoEmergency == {}

Single(row, columns) == \A c \in columns : row[c] <= 1

\* Quantities of two units for one line and one report, or a second request
\* and a second report with single units.
OneRequestOrSingleUnits ==
    \/ Len(line) <= 1 /\ Len(report) <= 1
    \/ /\ available <= 1
       /\ \A w \in WO : legacy[w] = 0
       /\ \A l \in Lines : Single(line[l], {"quantity", "requested", "approved", "allocated",
                                          "issued", "shortage", "reserved"})
       /\ \A r \in Reports : Single(report[r], {"requested", "qtyIssued", "issue", "procure",
                                              "refused", "prQty"})
===============================================================================

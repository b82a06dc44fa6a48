-------------------------- MODULE PartPipelineProofs --------------------------
(***************************************************************************)
(* Theorems about the part pipeline, for any number of work orders, rows   *)
(* and units.                                                              *)
(***************************************************************************)
EXTENDS PartPipeline, TotalsProofs, SequenceTheorems

-------------------------------------------------------------------------------
(***************************************************************************)
(* Tables.                                                                 *)
(***************************************************************************)
\* A table of n rows of the right type is a sequence.
LEMMA TableIsSeq ==
    ASSUME NEW T, NEW n \in Nat, NEW g \in [1..n -> T]
    PROVE  g \in Seq(T)
OBVIOUS

\* What the provers need to know of a table.
LEMMA TableProps ==
    ASSUME NEW T, NEW s \in Seq(T)
    PROVE  /\ Len(s) \in Nat
           /\ DOMAIN s = 1..Len(s)
           /\ s \in [1..Len(s) -> T]
           /\ IsFiniteSet(DOMAIN s)
           /\ \A i \in DOMAIN s : s[i] \in T
<1>1. Len(s) \in Nat /\ DOMAIN s = 1..Len(s) /\ s \in [1..Len(s) -> T]
    BY LenProperties
<1>2. IsFiniteSet(1..Len(s))
    BY <1>1, FS_Interval
<1> QED BY <1>1, <1>2

\* Overwriting one row.
LEMMA UpdateRow ==
    ASSUME NEW T, NEW s \in Seq(T), NEW i \in DOMAIN s, NEW e \in T
    PROVE  [s EXCEPT ![i] = e] \in Seq(T)
<1>1. i \in 1..Len(s) BY TableProps
<1> QED BY <1>1, ExceptSeq

\* Rewriting every row.
LEMMA MapRows ==
    ASSUME NEW T, NEW s \in Seq(T), NEW g \in [DOMAIN s -> T]
    PROVE  g \in Seq(T)
<1>1. Len(s) \in Nat /\ DOMAIN s = 1..Len(s) BY TableProps
<1> QED BY <1>1, TableIsSeq

\* Adding a row.
LEMMA AddRow ==
    ASSUME NEW T, NEW s \in Seq(T), NEW e \in T
    PROVE  Append(s, e) \in Seq(T)
OBVIOUS

-------------------------------------------------------------------------------
(***************************************************************************)
(* Rows.                                                                   *)
(***************************************************************************)
\* compute_quantity_reserved is a natural number.
LEMMA ReservedInType ==
    ASSUME NEW lines \in Seq(LineRow), NEW leg \in [WO -> Nat]
    PROVE  ReservedIn(lines, leg) \in Nat
<1> DEFINE held == [l \in DOMAIN lines |-> lines[l].reserved]
<1>1. IsFiniteSet(DOMAIN lines) /\ \A l \in DOMAIN lines : lines[l] \in LineRow
    BY TableProps
<1>2. held \in [DOMAIN lines -> Nat]
    BY <1>1 DEF LineRow
<1>3. Total(held) \in Nat
    <2> HIDE DEF held
    <2> QED BY <1>1, <1>2, TotalType
<1>4. Total(leg) \in Nat
    BY TotalType, ConstantsAssumption
<1> QED BY <1>3, <1>4 DEF ReservedIn

\* Reserved, usable and free quantities are numbers, the free one never negative.
LEMMA StockTypes ==
    ASSUME TypeOK
    PROVE  Usable \in Int /\ Usable <= available /\ FreeStock \in Nat
<1>1. QuantityReserved \in Nat
    BY ReservedInType DEF TypeOK, QuantityReserved
<1> QED BY <1>1 DEF TypeOK, Usable, FreeStock, AtLeastZero

\* What allocate_one gives is a number of units, never more than is free.
LEMMA GrantType ==
    ASSUME NEW x \in LineRow, NEW free \in Nat
    PROVE  Grant(x, free) \in Nat
BY DEF Grant, MinOf, LineRow

\* A line stays a well-typed row through allocate_one.
LEMMA AllocateOneType ==
    ASSUME NEW x \in LineRow, NEW free \in Nat
    PROVE  AllocateOne(x, free) \in LineRow
<1> DEFINE give == Grant(x, free)
           total == x.allocated + give
           status == IF total >= x.approved THEN "allocated"
                     ELSE IF x.status = "pending" THEN "approved" ELSE x.status
<1>1. give \in Nat BY GrantType
<1>2. total \in Nat /\ x.reserved + give \in Nat BY <1>1 DEF LineRow
<1>3. status \in LineStatus BY DEF LineRow, LineStatus
<1>4. ASSUME NEW a \in Nat, NEW r \in Nat, NEW s \in LineStatus
      PROVE  [x EXCEPT !.allocated = a, !.reserved = r, !.status = s] \in LineRow
    BY DEF LineRow
<1> HIDE DEF give, total, status
<1>5. [x EXCEPT !.allocated = total, !.reserved = x.reserved + give, !.status = status]
        \in LineRow
    BY <1>2, <1>3, <1>4
<1> QED BY <1>5 DEF AllocateOne, give, total, status

-------------------------------------------------------------------------------
(***************************************************************************)
(* The inductive invariant.  The properties of single rows are inductive   *)
(* only together with the types and with two facts about reports that wait *)
(* for a decision: they have none, and no quantities.                      *)
(***************************************************************************)
LineSound(x) ==
    /\ x.status \in {"pending", "rejected"} => x.reserved = 0
    /\ x.blocker = "open" => x.status \in ActiveStatus
    /\ x.reserved <= x.allocated

GoodLine == {x \in LineRow : LineSound(x)}

ReportSound(p) ==
    /\ p.blocker = "open" => p.status \in {"approved", "in_fulfillment", "blocked"}
    /\ p.status = "pending" => p.decision = "none"
    /\ p.decision = "none" => p.issue = 0 /\ p.procure = 0
    /\ p.decision # "none" => p.issue + p.procure + p.refused = p.requested

GoodReport == {p \in ReportRow : ReportSound(p)}

IInv ==
    /\ available \in Nat
    /\ legacy \in [WO -> Nat]
    /\ line \in Seq(GoodLine)
    /\ report \in Seq(GoodReport)
    /\ lifecycle \in [WO -> Lifecycle]
    /\ opStatus \in [WO -> OpStatus]

\* The invariant contains the types.
LEMMA InvTypes ==
    ASSUME IInv
    PROVE  TypeOK
<1>1. line \in Seq(LineRow)
    BY SeqMonotonic DEF IInv, GoodLine
<1>2. report \in Seq(ReportRow)
    BY SeqMonotonic DEF IInv, GoodReport
<1> QED BY <1>1, <1>2 DEF IInv, TypeOK

\* Every row of either table is good.
LEMMA InvRows ==
    ASSUME IInv
    PROVE  /\ \A l \in Lines : line[l] \in GoodLine
           /\ \A r \in Reports : report[r] \in GoodReport
BY TableProps DEF IInv, Lines, Reports

\* Allocation keeps a line good: what it reserves it also counts as allocated,
\* and a line that gains something is no longer PENDING.
LEMMA AllocateOneGood ==
    ASSUME NEW x \in GoodLine, NEW free \in Nat
    PROVE  AllocateOne(x, free) \in GoodLine
<1> DEFINE give == Grant(x, free)
           y == AllocateOne(x, free)
<1>1. x \in LineRow /\ give \in Nat /\ y \in LineRow
    BY GrantType, AllocateOneType DEF GoodLine
<1>2. CASE give = 0
    BY <1>2 DEF AllocateOne
<1>3. CASE give # 0
    <2>1. x.status \in ActiveStatus BY <1>3 DEF Grant
    <2>2. /\ y.status \in {"approved", "allocated"}
          /\ y.blocker = x.blocker
          /\ y.reserved = x.reserved + give
          /\ y.allocated = x.allocated + give
        BY <1>1, <1>3, <2>1 DEF AllocateOne, LineRow, ActiveStatus
    <2>3. x.reserved <= x.allocated /\ x.reserved \in Nat /\ x.allocated \in Nat
        BY DEF GoodLine, LineSound, LineRow
    <2>4. LineSound(y)
        <3> HIDE DEF y
        <3> QED BY <1>1, <2>2, <2>3 DEF LineSound, ActiveStatus
    <2> QED BY <1>1, <2>4 DEF GoodLine
<1> QED BY <1>2, <1>3

\* The rows a handler creates.
LEMMA NewLineGood ==
    ASSUME NEW w \in WO, NEW q \in Nat, NEW s \in Nat, NEW r \in Nat
    PROVE  /\ NewLine(w, q) \in GoodLine
           /\ [NewLine(w, q) EXCEPT !.status = "approved", !.approved = q, !.issued = q]
                \in GoodLine
           /\ [NewLine(w, q) EXCEPT !.shortage = s, !.blocker = "open"] \in GoodLine
           /\ [[NewLine(w, q) EXCEPT !.shortage = s, !.blocker = "open"]
                  EXCEPT !.report = r] \in GoodLine
<1> DEFINE x == NewLine(w, q)
           issued == [x EXCEPT !.status = "approved", !.approved = q, !.issued = q]
           short == [x EXCEPT !.shortage = s, !.blocker = "open"]
           linked == [short EXCEPT !.report = r]
<1>1. /\ x \in LineRow
      /\ x.status = "pending" /\ x.blocker = "none"
      /\ x.reserved = 0 /\ x.allocated = 0
    BY DEF NewLine, LineRow, LineStatus, BlockerStatus
<1>2. x \in GoodLine
    <2> HIDE DEF x
    <2> QED BY <1>1 DEF GoodLine, LineSound
<1>3. issued \in GoodLine
    <2> HIDE DEF x
    <2>1. issued \in LineRow BY <1>1 DEF LineRow, LineStatus
    <2>2. LineSound(issued) BY <1>1 DEF LineRow, LineSound
    <2> QED BY <2>1, <2>2 DEF GoodLine
<1>4. short \in GoodLine
    <2> HIDE DEF x
    <2>1. short \in LineRow BY <1>1 DEF LineRow, BlockerStatus
    <2>2. LineSound(short) BY <1>1 DEF LineRow, LineSound, ActiveStatus
    <2> QED BY <2>1, <2>2 DEF GoodLine
<1>5. linked \in GoodLine
    <2> HIDE DEF short
    <2>1. linked \in LineRow BY <1>4 DEF GoodLine, LineRow
    <2>2. LineSound(linked) BY <1>4 DEF GoodLine, LineRow, LineSound
    <2> QED BY <2>1, <2>2 DEF GoodLine
<1> QED BY <1>2, <1>3, <1>4, <1>5

\* The report request_part_on_wo creates is sound.
LEMMA NewReportGood ==
    ASSUME NEW w \in WO, NEW q \in Nat
    PROVE  NewReport(w, q) \in GoodReport
BY DEF NewReport, GoodReport, ReportSound, ReportRow, ReportStatus, BlockerStatus, PRStatus

\* What the manager and the warehouse make of a line.
LEMMA ApprovedGood ==
    ASSUME NEW x \in GoodLine, x.status = "pending"
    PROVE  [x EXCEPT !.status = "approved", !.approved = x.quantity,
                     !.shortage = AtLeastZero(x.requested - x.quantity)] \in GoodLine
<1> DEFINE y == [x EXCEPT !.status = "approved", !.approved = x.quantity,
                          !.shortage = AtLeastZero(x.requested - x.quantity)]
<1>1. AtLeastZero(x.requested - x.quantity) \in Nat /\ x.quantity \in Nat
    BY DEF GoodLine, LineRow, AtLeastZero
<1>2. y \in LineRow BY <1>1 DEF GoodLine, LineRow, LineStatus
<1>3. LineSound(y) BY DEF GoodLine, LineSound, LineRow, ActiveStatus
<1> QED BY <1>2, <1>3 DEF GoodLine

\* edit_part_request_qty keeps a PENDING line sound.
LEMMA EditedGood ==
    ASSUME NEW x \in GoodLine, NEW q \in Nat
    PROVE  [x EXCEPT !.quantity = q, !.shortage = AtLeastZero(x.requested - q)] \in GoodLine
<1> DEFINE y == [x EXCEPT !.quantity = q, !.shortage = AtLeastZero(x.requested - q)]
<1>1. AtLeastZero(x.requested - q) \in Nat
    BY DEF GoodLine, LineRow, AtLeastZero
<1>2. y \in LineRow BY <1>1 DEF GoodLine, LineRow
<1>3. LineSound(y) BY DEF GoodLine, LineSound, LineRow
<1> QED BY <1>2, <1>3 DEF GoodLine

\* Writing approved_qty, as the decision handlers do first, keeps a line sound.
LEMMA WithApprovedGood ==
    ASSUME NEW x \in GoodLine, NEW q \in Nat
    PROVE  [x EXCEPT !.approved = q] \in GoodLine
<1> DEFINE y == [x EXCEPT !.approved = q]
<1>1. y \in LineRow BY DEF GoodLine, LineRow
<1>2. LineSound(y) BY DEF GoodLine, LineSound, LineRow
<1> QED BY <1>1, <1>2 DEF GoodLine

\* Linking a line to its report keeps it sound.
LEMMA LinkedGood ==
    ASSUME NEW x \in GoodLine, NEW r \in Nat
    PROVE  [x EXCEPT !.report = r] \in GoodLine
<1> DEFINE y == [x EXCEPT !.report = r]
<1>1. y \in LineRow BY DEF GoodLine, LineRow
<1>2. LineSound(y) BY DEF GoodLine, LineSound, LineRow
<1> QED BY <1>1, <1>2 DEF GoodLine

\* reject_part_request leaves a sound line: a PENDING one held nothing.
LEMMA RejectedLineGood ==
    ASSUME NEW x \in GoodLine, x.status = "pending"
    PROVE  RejectedLine(x) \in GoodLine
<1>1. RejectedLine(x) \in LineRow
    BY DEF GoodLine, LineRow, LineStatus, BlockerStatus, RejectedLine, Cancelled
<1>2. LineSound(RejectedLine(x))
    BY DEF GoodLine, LineRow, LineSound, RejectedLine, Cancelled
<1> QED BY <1>1, <1>2 DEF GoodLine

\* A cancelled line may have held stock: it must give it back.
LEMMA CancelledLineGood ==
    ASSUME NEW x \in GoodLine
    PROVE  CancelledLine(x) \in GoodLine
<1> DEFINE z == RejectedLine(x)
           y == [z EXCEPT !.approved = 0, !.issued = 0, !.reserved = 0]
<1>1. z \in LineRow /\ z.blocker # "open"
    BY DEF GoodLine, LineRow, LineStatus, BlockerStatus, RejectedLine, Cancelled
<1> HIDE DEF z
<1>2. y \in LineRow BY <1>1 DEF LineRow
<1>3. LineSound(y) BY <1>1 DEF LineRow, LineSound
<1> QED BY <1>2, <1>3 DEF GoodLine, CancelledLine, z

\* Releasing a line's reservation keeps it sound.
LEMMA UnreservedGood ==
    ASSUME NEW x \in GoodLine
    PROVE  [x EXCEPT !.reserved = 0] \in GoodLine
<1> DEFINE y == [x EXCEPT !.reserved = 0]
<1>1. y \in LineRow BY DEF GoodLine, LineRow
<1>2. LineSound(y) BY DEF GoodLine, LineSound, LineRow
<1> QED BY <1>1, <1>2 DEF GoodLine

\* Cancelling a line's PART blocker keeps it sound.
LEMMA UnblockedGood ==
    ASSUME NEW x \in GoodLine
    PROVE  [x EXCEPT !.blocker = Cancelled(@)] \in GoodLine
<1> DEFINE y == [x EXCEPT !.blocker = Cancelled(@)]
<1>1. y \in LineRow BY DEF GoodLine, LineRow, Cancelled, BlockerStatus
<1>2. LineSound(y) BY DEF GoodLine, LineSound, LineRow, Cancelled
<1> QED BY <1>1, <1>2 DEF GoodLine

\* execute_warehouse_issue leaves a sound line.
LEMMA IssuedLineGood ==
    ASSUME NEW x \in GoodLine, NEW q \in Nat, NEW own \in Nat, own <= x.reserved
    PROVE  IssuedLine(x, q, own) \in GoodLine
<1>1. /\ x.issued + q \in Nat /\ x.reserved - own \in Nat
      /\ Resolved(x.blocker) \in BlockerStatus /\ "issued" \in LineStatus
    BY DEF GoodLine, LineRow, Resolved, BlockerStatus, LineStatus
<1>2. IssuedLine(x, q, own) \in LineRow
    BY <1>1 DEF GoodLine, LineRow, IssuedLine
<1>3. LineSound(IssuedLine(x, q, own))
    BY DEF GoodLine, LineRow, LineSound, IssuedLine, Resolved
<1> QED BY <1>2, <1>3 DEF GoodLine

\* The line part of an approve decision.
LEMMA DecideLineGood ==
    ASSUME NEW x \in GoodLine, NEW issue \in Nat, NEW procure \in Nat, FreeStock \in Nat
    PROVE  AllocatedFor(x, issue) \in GoodLine /\ DecideLine(x, issue, procure) \in GoodLine
<1> DEFINE given == AllocatedFor(x, issue)
           y == [given EXCEPT !.status = "approved", !.approved = issue, !.shortage = procure]
<1>1. given \in GoodLine
    BY WithApprovedGood, AllocateOneGood DEF AllocatedFor
<1>2. ASSUME given.status = "pending" PROVE y \in GoodLine
    <2> HIDE DEF given
    <2>1. y \in LineRow BY <1>1 DEF GoodLine, LineRow, LineStatus
    <2>2. LineSound(y) BY <1>1, <1>2 DEF GoodLine, LineRow, LineSound, ActiveStatus
    <2> QED BY <2>1, <2>2 DEF GoodLine
<1> QED BY <1>1, <1>2 DEF DecideLine

\* The status a recompute writes.
LEMMA RecomputedType ==
    ASSUME NEW w \in WO, opStatus \in [WO -> OpStatus]
    PROVE  Recomputed(w) \in [WO -> OpStatus]
BY DEF Recomputed, DerivedStatus, OpStatus

\* The SHORTAGE blocker is closed with its report, and only then.
LEMMA ClosedReportGood ==
    ASSUME NEW p \in GoodReport, p.status # "pending", NEW c \in PRStatus
    PROVE  /\ [p EXCEPT !.status = "closed", !.pr = c, !.blocker = Resolved(@)] \in GoodReport
           /\ Fulfilled(p) \in GoodReport
<1> DEFINE y == [p EXCEPT !.status = "closed", !.pr = c, !.blocker = Resolved(@)]
           z == Fulfilled(p)
<1>1. y \in ReportRow /\ z \in ReportRow
    BY DEF GoodReport, ReportRow, ReportStatus, BlockerStatus, Resolved, Fulfilled
<1>2. ReportSound(y)
    BY DEF GoodReport, ReportRow, ReportSound, Resolved
<1>3. ReportSound(z)
    BY DEF GoodReport, ReportRow, ReportSound, Resolved, Fulfilled
<1> QED BY <1>1, <1>2, <1>3 DEF GoodReport

\* A report moved to BLOCKED stays sound.
LEMMA BlockedReportGood ==
    ASSUME NEW p \in GoodReport, p.status # "pending"
    PROVE  [p EXCEPT !.status = "blocked"] \in GoodReport
<1> DEFINE y == [p EXCEPT !.status = "blocked"]
<1>1. y \in ReportRow BY DEF GoodReport, ReportRow, ReportStatus
<1>2. ReportSound(y) BY DEF GoodReport, ReportRow, ReportSound
<1> QED BY <1>1, <1>2 DEF GoodReport

\* repair_part_lines moves an APPROVED report.
LEMMA RepairedReportGood ==
    ASSUME NEW p \in GoodReport, p.status = "approved", NEW b \in BlockerStatus
    PROVE  [[p EXCEPT !.status = "in_fulfillment"] EXCEPT !.blocker = b] \in GoodReport
<1> DEFINE z == [p EXCEPT !.status = "in_fulfillment"]
           y == [z EXCEPT !.blocker = b]
<1>1. z \in ReportRow /\ z.status = "in_fulfillment" /\ ReportSound(z)
    BY DEF GoodReport, ReportRow, ReportStatus, ReportSound
<1> HIDE DEF z
<1>2. y \in ReportRow BY <1>1 DEF ReportRow
<1>3. ReportSound(y) BY <1>1 DEF ReportRow, ReportSound
<1>4. y \in GoodReport BY <1>2, <1>3 DEF GoodReport
<1> QED BY <1>4 DEF z

\* Raising the shortage again rewrites a report that has no decision yet.
LEMMA RaisedReportGood ==
    ASSUME NEW p \in GoodReport, p.status = "pending", NEW q \in Nat, NEW i \in Nat
    PROVE  /\ [p EXCEPT !.requested = q, !.qtyIssued = i] \in GoodReport
           /\ [p EXCEPT !.qtyIssued = i] \in GoodReport
<1> DEFINE y == [p EXCEPT !.requested = q, !.qtyIssued = i]
           z == [p EXCEPT !.qtyIssued = i]
<1>1. y \in ReportRow /\ z \in ReportRow BY DEF GoodReport, ReportRow
<1>2. ReportSound(y) BY DEF GoodReport, ReportRow, ReportSound
<1>3. ReportSound(z) BY DEF GoodReport, ReportRow, ReportSound
<1> QED BY <1>1, <1>2, <1>3 DEF GoodReport

\* The decision a manager records, with the purchase request it creates.
LEMMA ApprovedReportGood ==
    ASSUME NEW p \in GoodReport, p.status = "pending",
           NEW issue \in Nat, NEW procure \in Nat, issue + procure <= p.requested
    PROVE  WithRequest([p EXCEPT !.status = "approved", !.decision = "approve",
                                 !.issue = issue, !.procure = procure,
                                 !.refused = Refused(p, issue, procure)], procure)
             \in GoodReport
<1> DEFINE d == [p EXCEPT !.status = "approved", !.decision = "approve",
                          !.issue = issue, !.procure = procure,
                          !.refused = Refused(p, issue, procure)]
           y == [d EXCEPT !.pr = "pending", !.prQty = procure, !.blocker = "open"]
<1>1. /\ Refused(p, issue, procure) \in Nat
      /\ issue + procure + Refused(p, issue, procure) = p.requested
    BY DEF GoodReport, ReportRow, Refused
<1>2. d \in ReportRow
    BY <1>1 DEF GoodReport, ReportRow, ReportStatus
<1>3. ReportSound(d) /\ d.status = "approved"
    BY <1>1 DEF GoodReport, ReportRow, ReportSound
<1> HIDE DEF d
<1>4. y \in ReportRow
    BY <1>2 DEF ReportRow, PRStatus, BlockerStatus
<1>5. ReportSound(y)
    BY <1>2, <1>3 DEF ReportRow, ReportSound
<1>6. WithRequest(d, procure) \in GoodReport
    BY <1>2, <1>3, <1>4, <1>5 DEF WithRequest, GoodReport
<1> QED BY <1>6 DEF d

\* A refused report is sound: all it asked for is refused.
LEMMA RejectedReportGood ==
    ASSUME NEW p \in GoodReport, p.status = "pending"
    PROVE  [p EXCEPT !.status = "rejected", !.decision = "reject", !.refused = p.requested]
             \in GoodReport
<1> DEFINE y == [p EXCEPT !.status = "rejected", !.decision = "reject",
                          !.refused = p.requested]
<1>1. y \in ReportRow BY DEF GoodReport, ReportRow, ReportStatus
<1>2. ReportSound(y) BY DEF GoodReport, ReportRow, ReportSound
<1> QED BY <1>1, <1>2 DEF GoodReport

\* edit_shortage_decision keeps the quantities of a decision balanced.
LEMMA EditedReportGood ==
    ASSUME NEW p \in GoodReport, p.decision # "none",
           NEW issue \in Nat, NEW procure \in Nat, issue + procure <= p.requested,
           NEW q \in Nat
    PROVE  [p EXCEPT !.issue = issue, !.procure = procure,
                     !.refused = Refused(p, issue, procure), !.prQty = q] \in GoodReport
<1> DEFINE y == [p EXCEPT !.issue = issue, !.procure = procure,
                          !.refused = Refused(p, issue, procure), !.prQty = q]
<1>1. /\ Refused(p, issue, procure) \in Nat
      /\ issue + procure + Refused(p, issue, procure) = p.requested
    BY DEF GoodReport, ReportRow, Refused
<1>2. y \in ReportRow BY <1>1 DEF GoodReport, ReportRow
<1>3. ReportSound(y) BY <1>1 DEF GoodReport, ReportRow, ReportSound
<1> QED BY <1>2, <1>3 DEF GoodReport

\* An issue moves a report only along an edge of the transition table.
LEMMA IssuedAgainstGood ==
    ASSUME NEW p \in GoodReport, NEW q \in Nat, NEW first \in BOOLEAN
    PROVE  IssuedAgainst(p, q, first) \in GoodReport
<1> DEFINE s == IF first /\ "in_fulfillment" \in ValidShortageTransitions[p.status]
                THEN "in_fulfillment" ELSE p.status
           y == [p EXCEPT !.qtyIssued = @ + q, !.status = s]
<1>1. p.qtyIssued + q \in Nat /\ p.status \in ReportStatus
    BY DEF GoodReport, ReportRow
<1>2. s \in {p.status, "in_fulfillment"} /\ s \in ReportStatus
    BY <1>1 DEF ReportStatus
<1>3. s = "pending" => p.status = "pending"
    BY <1>2
<1>4. s = p.status \/ s = "in_fulfillment"
    BY <1>2
<1> HIDE DEF s
<1>5. y \in ReportRow BY <1>1, <1>2 DEF GoodReport, ReportRow
<1>6. ReportSound(y) BY <1>4 DEF GoodReport, ReportRow, ReportSound
<1> QED BY <1>5, <1>6 DEF GoodReport, IssuedAgainst, s
-------------------------------------------------------------------------------
(***************************************************************************)
(* Every handler keeps the invariant.                                      *)
(***************************************************************************)
\* A quantity from a form is a natural number.
LEMMA QtyType == Qty \subseteq Nat /\ 0..MaxQty \subseteq Nat /\ 0..MaxStock \subseteq Nat
BY ConstantsAssumption DEF Qty

\* stock_in, part_adjust and the consumables touch no row.
LEMMA StockStep ==
    ASSUME IInv, Stock
    PROVE  IInv'
<1>1. ASSUME NEW q \in Qty, StockIn(q) PROVE IInv'
    BY <1>1, QtyType DEF IInv, StockIn
<1>2. ASSUME NEW q \in Qty, ConsumableUse(q) PROVE IInv'
    BY <1>2, QtyType DEF IInv, ConsumableUse
<1>3. ASSUME NEW q \in 0..MaxStock, PartAdjust(q) PROVE IInv'
    BY <1>3, QtyType DEF IInv, PartAdjust
<1> QED BY <1>1, <1>2, <1>3 DEF Stock

\* issue_part_to_work_order preserves the invariant.
LEMMA DirectIssueStep ==
    ASSUME IInv, NEW w \in WO, NEW q \in Qty, DirectIssue(w, q)
    PROVE  IInv'
<1> DEFINE take == MinOf(q, Usable)
           row == [NewLine(w, take) EXCEPT !.status = "approved",
                                           !.approved = take, !.issued = take]
<1>1. Usable \in Int /\ Usable <= available
    BY InvTypes, StockTypes
<1>2. take \in Nat /\ available - take \in Nat
    BY <1>1, QtyType DEF DirectIssue, MinOf, IInv
<1>3. row \in GoodLine
    <2> HIDE DEF take
    <2> QED BY <1>2, NewLineGood
<1>4. Append(line, row) \in Seq(GoodLine)
    <2> HIDE DEF row
    <2> QED BY <1>3, AddRow DEF IInv
<1> HIDE DEF row, take
<1>5. /\ available' = available - take
      /\ line' = Append(line, row)
      /\ UNCHANGED <<legacy, report, lifecycle, opStatus>>
    BY DEF DirectIssue, row, take
<1> QED BY <1>2, <1>4, <1>5 DEF IInv

\* request_part_on_wo preserves the invariant.
LEMMA RequestPartStep ==
    ASSUME IInv, NEW w \in WO, NEW q \in Qty, RequestPart(w, q)
    PROVE  IInv'
<1> DEFINE short == IF Usable >= q THEN 0 ELSE q - Usable
           row == [NewLine(w, q) EXCEPT !.shortage = short, !.blocker = "open"]
           linked == [row EXCEPT !.report = Len(report) + 1]
<1>1. q \in Nat /\ short \in Nat
    BY InvTypes, StockTypes, QtyType
<1>2. Len(report) + 1 \in Nat
    BY TableProps DEF IInv
<1>3. row \in GoodLine /\ linked \in GoodLine
    <2> HIDE DEF short
    <2> QED BY <1>1, <1>2, NewLineGood
<1>4. NewReport(w, q) \in GoodReport
    BY <1>1, NewReportGood
<1> HIDE DEF row, linked, short
<1>5. /\ Append(line, row) \in Seq(GoodLine)
      /\ Append(line, linked) \in Seq(GoodLine)
      /\ Append(report, NewReport(w, q)) \in Seq(GoodReport)
    BY <1>3, <1>4, AddRow DEF IInv
<1>6. line' \in Seq(GoodLine) /\ report' \in Seq(GoodReport)
    BY <1>5 DEF RequestPart, IInv, row, linked, short
<1>7. opStatus' \in [WO -> OpStatus]
    BY RecomputedType DEF RequestPart, Recompute, IInv
<1> QED BY <1>6, <1>7 DEF RequestPart, IInv

\* work_order_request_part_re_review preserves the invariant.
LEMMA ReReviewStep ==
    ASSUME IInv, NEW l \in Lines, NEW q \in Qty, ReReview(l, q)
    PROVE  IInv'
<1>1. line[l].wo \in WO
    BY InvRows DEF GoodLine, LineRow
<1>2. NewLine(line[l].wo, q) \in GoodLine
    BY <1>1, QtyType, NewLineGood
<1>3. Append(line, NewLine(line[l].wo, q)) \in Seq(GoodLine)
    BY <1>2, AddRow DEF IInv
<1> QED BY <1>3 DEF ReReview, IInv

\* raise_shortage_request preserves the invariant, also when it rewrites a pending report.
LEMMA RaiseShortageStep ==
    ASSUME IInv, NEW w \in WO, RaiseShortage(w)
    PROVE  IInv'
<1> DEFINE waiting == {l \in LinesOf(w) : line[l].status = "pending"}
<1>1. ASSUME NEW l \in Lines, NEW r \in Nat, LinkReport(l, r)
      PROVE  line' \in Seq(GoodLine)
    <2>1. [line[l] EXCEPT !.report = r] \in GoodLine
        BY InvRows, LinkedGood
    <2>2. [line EXCEPT ![l] = [line[l] EXCEPT !.report = r]] \in Seq(GoodLine)
        BY <2>1, UpdateRow DEF IInv, Lines
    <2> QED BY <1>1, <2>2 DEF LinkReport, IInv
<1>2. ASSUME NEW l \in Lines
      PROVE  line[l].quantity \in Nat /\ line[l].issued \in Nat
    BY InvRows DEF GoodLine, LineRow
<1>3. ASSUME NEW r \in PendingReportsOf(w), NEW q \in Nat, NEW i \in Nat
      PROVE  /\ [report EXCEPT ![r] = [report[r] EXCEPT !.requested = q, !.qtyIssued = i]]
                   \in Seq(GoodReport)
             /\ [report EXCEPT ![r] = [report[r] EXCEPT !.qtyIssued = i]] \in Seq(GoodReport)
             /\ r \in Nat
    <2>1. r \in Reports /\ report[r].status = "pending"
        BY DEF PendingReportsOf
    <2>2. report[r] \in GoodReport
        BY <2>1, InvRows
    <2>3. /\ [report[r] EXCEPT !.requested = q, !.qtyIssued = i] \in GoodReport
          /\ [report[r] EXCEPT !.qtyIssued = i] \in GoodReport
        BY <2>1, <2>2, RaisedReportGood
    <2>4. r \in Nat
        BY <2>1, TableProps DEF IInv, Reports
    <2> QED BY <2>1, <2>3, <2>4, UpdateRow DEF IInv, Reports
<1>4. waiting \subseteq Lines
    BY DEF LinesOf
<1>5. CASE \E r \in PendingReportsOf(w), l \in waiting :
            /\ report' = [report EXCEPT ![r].requested = line[l].quantity,
                                        ![r].qtyIssued = line[l].issued]
            /\ LinkReport(l, r)
    <2> PICK r \in PendingReportsOf(w), l \in waiting :
            /\ report' = [report EXCEPT ![r].requested = line[l].quantity,
                                        ![r].qtyIssued = line[l].issued]
            /\ LinkReport(l, r)
        BY <1>5
    <2>1. l \in Lines /\ r \in Nat BY <1>3, <1>4
    <2>2. line' \in Seq(GoodLine) BY <1>1, <2>1
    <2>3. report' = [report EXCEPT ![r] = [report[r] EXCEPT !.requested = line[l].quantity,
                                                            !.qtyIssued = line[l].issued]]
        OBVIOUS
    <2>4. line[l].quantity \in Nat /\ line[l].issued \in Nat BY <1>2, <2>1
    <2>5. report' \in Seq(GoodReport)
        <3> DEFINE q == line[l].quantity
                   i == line[l].issued
        <3>1. q \in Nat /\ i \in Nat BY <2>4
        <3>2. report' = [report EXCEPT ![r] = [report[r] EXCEPT !.requested = q, !.qtyIssued = i]]
            BY <2>3
        <3> HIDE DEF q, i
        <3>3. [report EXCEPT ![r] = [report[r] EXCEPT !.requested = q, !.qtyIssued = i]]
                \in Seq(GoodReport)
            BY <1>3, <3>1
        <3> QED BY <3>2, <3>3
    <2> QED BY <2>2, <2>5 DEF RaiseShortage, IInv
<1>6. CASE \E r \in PendingReportsOf(w) :
            report' = [report EXCEPT ![r].qtyIssued = 0] /\ UNCHANGED line
    <2> PICK r \in PendingReportsOf(w) :
            report' = [report EXCEPT ![r].qtyIssued = 0] /\ UNCHANGED line
        BY <1>6
    <2>1. report' = [report EXCEPT ![r] = [report[r] EXCEPT !.qtyIssued = 0]]
        OBVIOUS
    <2>2. report' \in Seq(GoodReport)
        BY <1>3, <2>1, 0 \in Nat
    <2> QED BY <2>2 DEF RaiseShortage, IInv
<1>7. CASE \E l \in waiting :
            /\ report' = Append(report, NewReport(w, line[l].quantity))
            /\ LinkReport(l, Len(report) + 1)
    <2> PICK l \in waiting : /\ report' = Append(report, NewReport(w, line[l].quantity))
                             /\ LinkReport(l, Len(report) + 1)
        BY <1>7
    <2>1. l \in Lines BY <1>4
    <2>2. NewReport(w, line[l].quantity) \in GoodReport BY <1>2, <2>1, NewReportGood
    <2>3. report' \in Seq(GoodReport) BY <2>2, AddRow DEF IInv
    <2>4. Len(report) + 1 \in Nat BY TableProps DEF IInv
    <2>5. line' \in Seq(GoodLine) BY <1>1, <2>1, <2>4
    <2> QED BY <2>3, <2>5 DEF RaiseShortage, IInv
<1> HIDE DEF waiting
<1> QED BY <1>5, <1>6, <1>7 DEF RaiseShortage, waiting

\* The technician's handlers preserve the invariant.
LEMMA TechnicianStep ==
    ASSUME IInv, Technician
    PROVE  IInv'
BY DirectIssueStep, RequestPartStep, ReReviewStep, RaiseShortageStep DEF Technician

\* approve_part_request preserves the invariant.
LEMMA ApprovePartStep ==
    ASSUME IInv, NEW l \in Lines, ApprovePart(l)
    PROVE  IInv'
<1> DEFINE x == line[l]
           granted == [x EXCEPT !.status = "approved", !.approved = x.quantity,
                                !.shortage = AtLeastZero(x.requested - x.quantity)]
<1>1. x \in GoodLine /\ x.wo \in WO /\ FreeStock \in Nat
    BY InvRows, InvTypes, StockTypes DEF GoodLine, LineRow
<1>2. granted \in GoodLine
    BY <1>1, ApprovedGood DEF ApprovePart
<1>3. AllocateOne(granted, FreeStock) \in GoodLine
    <2> HIDE DEF granted
    <2> QED BY <1>1, <1>2, AllocateOneGood
<1>4. [line EXCEPT ![l] = AllocateOne(granted, FreeStock)] \in Seq(GoodLine)
    <2> HIDE DEF granted
    <2> QED BY <1>3, UpdateRow DEF IInv, Lines
<1>5. opStatus' \in [WO -> OpStatus]
    BY <1>1, RecomputedType DEF ApprovePart, Recompute, IInv
<1> QED BY <1>4, <1>5 DEF ApprovePart, IInv

\* reject_part_request preserves the invariant.
LEMMA RejectPartStep ==
    ASSUME IInv, NEW l \in Lines, RejectPart(l)
    PROVE  IInv'
<1>1. line[l] \in GoodLine /\ line[l].wo \in WO
    BY InvRows DEF GoodLine, LineRow
<1>2. RejectedLine(line[l]) \in GoodLine
    BY <1>1, RejectedLineGood DEF RejectPart
<1>3. [line EXCEPT ![l] = RejectedLine(line[l])] \in Seq(GoodLine)
    BY <1>2, UpdateRow DEF IInv, Lines
<1>4. opStatus' \in [WO -> OpStatus]
    BY <1>1, RecomputedType DEF RejectPart, Recompute, IInv
<1> QED BY <1>3, <1>4 DEF RejectPart, IInv

\* edit_part_request_qty preserves the invariant.
LEMMA EditPartQtyStep ==
    ASSUME IInv, NEW l \in Lines, NEW q \in Qty, EditPartQty(l, q)
    PROVE  IInv'
<1> DEFINE y == [line[l] EXCEPT !.quantity = q,
                                !.shortage = AtLeastZero(line[l].requested - q)]
<1>1. y \in GoodLine
    BY InvRows, QtyType, EditedGood
<1>2. [line EXCEPT ![l] = y] \in Seq(GoodLine)
    <2> HIDE DEF y
    <2> QED BY <1>1, UpdateRow DEF IInv, Lines
<1> QED BY <1>2 DEF EditPartQty, IInv

\* cancel_approved_part_request preserves the invariant.
LEMMA CancelApprovedStep ==
    ASSUME IInv, NEW l \in Lines, CancelApproved(l)
    PROVE  IInv'
<1>1. line[l] \in GoodLine /\ line[l].wo \in WO
    BY InvRows DEF GoodLine, LineRow
<1>2. CancelledLine(line[l]) \in GoodLine
    BY <1>1, CancelledLineGood
<1>3. [line EXCEPT ![l] = CancelledLine(line[l])] \in Seq(GoodLine)
    BY <1>2, UpdateRow DEF IInv, Lines
<1>4. opStatus' \in [WO -> OpStatus]
    BY <1>1, RecomputedType DEF CancelApproved, Recompute, IInv
<1>5. legacy' \in [WO -> Nat]
    BY DEF CancelApproved, IInv
<1> QED BY <1>3, <1>4, <1>5 DEF CancelApproved, IInv

\* The manager's decisions on a line preserve the invariant.
LEMMA LineDecisionStep ==
    ASSUME IInv, LineDecision
    PROVE  IInv'
BY ApprovePartStep, RejectPartStep, EditPartQtyStep, CancelApprovedStep DEF LineDecision

\* create_shortage_decision, approving, preserves the invariant.
LEMMA ApproveShortageStep ==
    ASSUME IInv, NEW r \in Reports, NEW issue \in 0..MaxQty, NEW procure \in 0..MaxQty,
           ApproveShortage(r, issue, procure)
    PROVE  IInv'
<1> DEFINE p == report[r]
           d == [p EXCEPT !.status = "approved", !.decision = "approve",
                          !.issue = issue, !.procure = procure,
                          !.refused = Refused(p, issue, procure)]
<1>1. p \in GoodReport /\ p.wo \in WO /\ FreeStock \in Nat
    BY InvRows, InvTypes, StockTypes DEF GoodReport, ReportRow
<1>2. issue \in Nat /\ procure \in Nat
    BY QtyType
<1>3. WithRequest(d, procure) \in GoodReport
    BY <1>1, <1>2, ApprovedReportGood DEF ApproveShortage
<1>4. report' \in Seq(GoodReport)
    <2>1. [report EXCEPT ![r] = WithRequest(d, procure)] \in Seq(GoodReport)
        <3> HIDE DEF d
        <3> QED BY <1>3, UpdateRow DEF IInv, Reports
    <2> QED BY <2>1 DEF ApproveShortage
<1>5. line' \in Seq(GoodLine)
    <2>1. ASSUME NEW l \in Lines
          PROVE  [line EXCEPT ![l] = DecideLine(line[l], issue, procure)] \in Seq(GoodLine)
        <3>1. DecideLine(line[l], issue, procure) \in GoodLine
            BY <1>1, <1>2, InvRows, DecideLineGood
        <3> QED BY <3>1, UpdateRow DEF IInv, Lines
    <2> QED BY <2>1 DEF ApproveShortage, IInv
<1>6. opStatus' \in [WO -> OpStatus]
    BY <1>1, RecomputedType DEF ApproveShortage, IInv
<1> QED BY <1>4, <1>5, <1>6 DEF ApproveShortage, IInv

\* create_shortage_decision, refusing, preserves the invariant.
LEMMA RejectShortageStep ==
    ASSUME IInv, NEW r \in Reports, RejectShortage(r)
    PROVE  IInv'
<1> DEFINE y == [report[r] EXCEPT !.status = "rejected", !.decision = "reject",
                                  !.refused = report[r].requested]
<1>1. report[r] \in GoodReport /\ report[r].wo \in WO
    BY InvRows DEF GoodReport, ReportRow
<1>2. y \in GoodReport
    BY <1>1, RejectedReportGood DEF RejectShortage
<1>3. report' \in Seq(GoodReport)
    <2>1. [report EXCEPT ![r] = y] \in Seq(GoodReport)
        <3> HIDE DEF y
        <3> QED BY <1>2, UpdateRow DEF IInv, Reports
    <2> QED BY <2>1 DEF RejectShortage
<1>4. line' \in Seq(GoodLine)
    <2>1. ASSUME NEW l \in Lines
          PROVE  [line EXCEPT ![l] = [line[l] EXCEPT !.blocker = Cancelled(@)]] \in Seq(GoodLine)
        <3>1. [line[l] EXCEPT !.blocker = Cancelled(@)] \in GoodLine
            BY InvRows, UnblockedGood
        <3> QED BY <3>1, UpdateRow DEF IInv, Lines
    <2>2. ASSUME NEW l \in Lines, line' = [line EXCEPT ![l].blocker = Cancelled(@)]
          PROVE  line' \in Seq(GoodLine)
        <3>1. line' = [line EXCEPT ![l] = [line[l] EXCEPT !.blocker = Cancelled(@)]]
            BY <2>2
        <3> QED BY <2>1, <3>1
    <2> QED BY <2>2 DEF RejectShortage, IInv
<1>5. opStatus' \in [WO -> OpStatus]
    BY <1>1, RecomputedType DEF RejectShortage, Recompute, IInv
<1> QED BY <1>3, <1>4, <1>5 DEF RejectShortage, IInv

\* edit_shortage_decision preserves the invariant.
LEMMA EditShortageStep ==
    ASSUME IInv, NEW r \in Reports, NEW issue \in 0..MaxQty, NEW procure \in 0..MaxQty,
           EditShortage(r, issue, procure)
    PROVE  IInv'
<1> DEFINE p == report[r]
           less == p.issue - issue
           q == IF p.pr # "none" THEN procure ELSE p.prQty
           y == [p EXCEPT !.issue = issue, !.procure = procure,
                          !.refused = Refused(p, issue, procure), !.prQty = q]
<1>1. p \in GoodReport /\ p.wo \in WO /\ p.prQty \in Nat /\ p.issue \in Nat /\ FreeStock \in Nat
    BY InvRows, InvTypes, StockTypes DEF GoodReport, ReportRow
<1>2. issue \in Nat /\ procure \in Nat /\ q \in Nat
    BY <1>1, QtyType
<1>3. y \in GoodReport
    <2> HIDE DEF q
    <2> QED BY <1>1, <1>2, EditedReportGood DEF EditShortage
<1>4. report' \in Seq(GoodReport)
    <2>1. [report EXCEPT ![r] = y] \in Seq(GoodReport)
        <3> HIDE DEF y
        <3> QED BY <1>3, UpdateRow DEF IInv, Reports
    <2> QED BY <2>1 DEF EditShortage
<1>5. line' \in Seq(GoodLine)
    <2>1. ASSUME NEW l \in Lines
          PROVE  /\ [line EXCEPT ![l] = [line[l] EXCEPT !.approved = issue]] \in Seq(GoodLine)
                 /\ [line EXCEPT ![l] = AllocateOne([line[l] EXCEPT !.approved = issue], FreeStock)]
                      \in Seq(GoodLine)
        <3> DEFINE x == [line[l] EXCEPT !.approved = issue]
        <3>1. x \in GoodLine BY <1>2, InvRows, WithApprovedGood
        <3> HIDE DEF x
        <3>2. AllocateOne(x, FreeStock) \in GoodLine BY <1>1, <3>1, AllocateOneGood
        <3>3. [line EXCEPT ![l] = x] \in Seq(GoodLine)
            BY <3>1, UpdateRow DEF IInv, Lines
        <3>4. [line EXCEPT ![l] = AllocateOne(x, FreeStock)] \in Seq(GoodLine)
            BY <3>2, UpdateRow DEF IInv, Lines
        <3> QED BY <3>3, <3>4 DEF x
    <2>2. \/ UNCHANGED line
          \/ \E l \in Lines :
                \/ line' = [line EXCEPT ![l] = [line[l] EXCEPT !.approved = issue]]
                \/ line' = [line EXCEPT ![l] =
                              AllocateOne([line[l] EXCEPT !.approved = issue], FreeStock)]
        BY DEF EditShortage
    <2> QED BY <2>1, <2>2 DEF IInv
<1>6. legacy' \in [WO -> Nat]
    <2>1. legacy \in [WO -> Nat] BY DEF IInv
    <2>2. legacy' = IF less > 0 /\ legacy[p.wo] >= less
                    THEN [legacy EXCEPT ![p.wo] = @ - less]
                    ELSE legacy
        BY DEF EditShortage
    <2>3. less \in Int BY <1>1, <1>2
    <2>4. p.wo \in WO BY <1>1
    <2> HIDE DEF less, p
    <2> QED BY <2>1, <2>2, <2>3, <2>4
<1> QED BY <1>4, <1>5, <1>6 DEF EditShortage, IInv

\* transition_shortage_status to CLOSED preserves the invariant.
LEMMA CloseShortageStep ==
    ASSUME IInv, NEW r \in Reports, CloseShortage(r)
    PROVE  IInv'
<1> DEFINE p == report[r]
           c == IF p.pr = "pending" THEN "cancelled" ELSE p.pr
           y == [p EXCEPT !.status = "closed", !.pr = c, !.blocker = Resolved(@)]
           g == [l \in Lines |-> IF line[l].report = r
                                 THEN [line[l] EXCEPT !.reserved = 0] ELSE line[l]]
<1>1. p \in GoodReport /\ p.wo \in WO /\ p.status \in ReportStatus /\ c \in PRStatus
    BY InvRows DEF GoodReport, ReportRow, PRStatus
<1>2. p.status # "pending"
    BY <1>1 DEF CloseShortage, ValidShortageTransitions
<1>3. y \in GoodReport
    <2> HIDE DEF c
    <2> QED BY <1>1, <1>2, ClosedReportGood
<1>4. report' \in Seq(GoodReport)
    <2>1. [report EXCEPT ![r] = y] \in Seq(GoodReport)
        <3> HIDE DEF y
        <3> QED BY <1>3, UpdateRow DEF IInv, Reports
    <2> QED BY <2>1 DEF CloseShortage
<1>5. g \in [DOMAIN line -> GoodLine]
    BY InvRows, UnreservedGood DEF Lines
<1>6. line' \in Seq(GoodLine)
    <2>1. g \in Seq(GoodLine)
        <3> HIDE DEF g
        <3> QED BY <1>5, MapRows DEF IInv
    <2> QED BY <2>1 DEF CloseShortage
<1>7. legacy' \in [WO -> Nat]
    BY DEF CloseShortage, IInv
<1>8. opStatus' \in [WO -> OpStatus]
    BY <1>1, RecomputedType DEF CloseShortage, IInv
<1> QED BY <1>4, <1>6, <1>7, <1>8 DEF CloseShortage, IInv

\* transition_shortage_status to BLOCKED preserves the invariant.
LEMMA BlockShortageStep ==
    ASSUME IInv, NEW r \in Reports, BlockShortage(r)
    PROVE  IInv'
<1>1. report[r] \in GoodReport /\ report[r].status \in ReportStatus
    BY InvRows DEF GoodReport, ReportRow
<1>2. report[r].status # "pending"
    BY <1>1 DEF BlockShortage, ValidShortageTransitions
<1>3. [report[r] EXCEPT !.status = "blocked"] \in GoodReport
    BY <1>1, <1>2, BlockedReportGood
<1>4. [report EXCEPT ![r] = [report[r] EXCEPT !.status = "blocked"]] \in Seq(GoodReport)
    BY <1>3, UpdateRow DEF IInv, Reports
<1>5. report' = [report EXCEPT ![r] = [report[r] EXCEPT !.status = "blocked"]]
    BY DEF BlockShortage
<1> QED BY <1>4, <1>5 DEF BlockShortage, IInv

\* mark_shortage_fulfilled preserves the invariant.
LEMMA MarkFulfilledStep ==
    ASSUME IInv, NEW r \in Reports, MarkFulfilled(r)
    PROVE  IInv'
<1>1. report[r] \in GoodReport /\ report[r].wo \in WO /\ "none" \in PRStatus
    BY InvRows DEF GoodReport, ReportRow, PRStatus
<1>2. report[r].status # "pending"
    BY DEF MarkFulfilled, CanBeFulfilled
<1>3. Fulfilled(report[r]) \in GoodReport
    BY <1>1, <1>2, ClosedReportGood
<1>4. [report EXCEPT ![r] = Fulfilled(report[r])] \in Seq(GoodReport)
    BY <1>3, UpdateRow DEF IInv, Reports
<1>5. opStatus' \in [WO -> OpStatus]
    BY <1>1, RecomputedType DEF MarkFulfilled, IInv
<1> QED BY <1>4, <1>5 DEF MarkFulfilled, IInv

\* The manager's decisions on a report preserve the invariant.
LEMMA ShortageDecisionStep ==
    ASSUME IInv, ShortageDecision
    PROVE  IInv'
BY ApproveShortageStep, RejectShortageStep, EditShortageStep, CloseShortageStep,
   BlockShortageStep, MarkFulfilledStep DEF ShortageDecision

\* An issue takes no more than is on hand, reserved or kept as legacy.
LEMMA ExecuteIssueStep ==
    ASSUME IInv, NEW l \in Lines, NEW q \in Nat, ExecuteIssue(l, q)
    PROVE  IInv'
<1> DEFINE x == line[l]
           own == MinOf(x.reserved, q)
           fromLegacy == MinOf(legacy[x.wo], q - own)
<1>1. x \in GoodLine /\ x.wo \in WO /\ x.reserved \in Nat /\ x.issued \in Nat
    BY InvRows DEF GoodLine, LineRow
<1>2. own \in Nat /\ own <= x.reserved /\ own <= q
    BY <1>1 DEF MinOf
<1>3. fromLegacy \in Nat /\ fromLegacy <= legacy[x.wo]
    BY <1>1, <1>2 DEF MinOf, IInv
<1>4. available - q \in Nat
    BY DEF ExecuteIssue, CanIssue, Db, IInv
<1>5. [legacy EXCEPT ![x.wo] = @ - fromLegacy] \in [WO -> Nat]
    BY <1>1, <1>3 DEF IInv
<1>6. [line EXCEPT ![l] = IssuedLine(x, q, own)] \in Seq(GoodLine)
    <2>1. IssuedLine(x, q, own) \in GoodLine
        BY <1>1, <1>2, IssuedLineGood
    <2> QED BY <2>1, UpdateRow DEF IInv, Lines
<1>7. ASSUME x.report \in DOMAIN report
      PROVE  [report EXCEPT ![x.report] = IssuedAgainst(@, q, x.issued = 0)] \in Seq(GoodReport)
    <2>1. report[x.report] \in GoodReport
        BY <1>7, InvRows DEF Reports
    <2>2. (x.issued = 0) \in BOOLEAN OBVIOUS
    <2>3. IssuedAgainst(report[x.report], q, x.issued = 0) \in GoodReport
        BY <2>1, <2>2, IssuedAgainstGood
    <2> QED BY <1>7, <2>3, UpdateRow DEF IInv
<1>8. opStatus' \in [WO -> OpStatus]
    BY <1>1, RecomputedType DEF ExecuteIssue, Recompute, IInv
<1> HIDE DEF fromLegacy, own
<1>9. /\ available' = available - q
      /\ legacy' = [legacy EXCEPT ![x.wo] = @ - fromLegacy]
      /\ line' = [line EXCEPT ![l] = IssuedLine(x, q, own)]
      /\ report' = IF x.report \in DOMAIN report
                   THEN [report EXCEPT ![x.report] = IssuedAgainst(@, q, x.issued = 0)]
                   ELSE report
      /\ UNCHANGED lifecycle
    BY DEF ExecuteIssue, IssueFrom, Db, own, fromLegacy
<1>10. report' \in Seq(GoodReport)
    BY <1>7, <1>9 DEF IInv
<1> QED BY <1>4, <1>5, <1>6, <1>8, <1>9, <1>10 DEF IInv

\* The report half of repair_part_lines preserves the invariant.
LEMMA RepairReportStep ==
    ASSUME IInv, NEW r \in Reports, RepairReport(r)
    PROVE  IInv'
<1> DEFINE p == report[r]
           b == IF p.qtyIssued >= p.issue THEN Resolved(p.blocker) ELSE p.blocker
           y == [[p EXCEPT !.status = "in_fulfillment"] EXCEPT !.blocker = b]
<1>1. p \in GoodReport /\ p.wo \in WO /\ b \in BlockerStatus
    BY InvRows DEF GoodReport, ReportRow, Resolved, BlockerStatus
<1>2. y \in GoodReport
    <2> HIDE DEF b
    <2> QED BY <1>1, RepairedReportGood DEF RepairReport
<1>3. [report EXCEPT ![r] = y] \in Seq(GoodReport)
    <2> HIDE DEF y
    <2> QED BY <1>2, UpdateRow DEF IInv, Reports
<1>4. report' = [report EXCEPT ![r] = y]
    BY <1>1 DEF RepairReport, GoodReport, ReportRow
<1>5. opStatus' \in [WO -> OpStatus]
    BY <1>1, RecomputedType DEF RepairReport, Recompute, IInv
<1> QED BY <1>3, <1>4, <1>5 DEF RepairReport, IInv

\* The warehouse and the maintenance commands preserve the invariant.
LEMMA WarehouseStep ==
    ASSUME IInv, Warehouse
    PROVE  IInv'
<1>1. ASSUME NEW l \in Lines, RepairLine(l) PROVE IInv'
    <2>1. line[l].quantity \in Nat BY InvRows DEF GoodLine, LineRow
    <2> QED BY <1>1, <2>1, ExecuteIssueStep DEF RepairLine
<1>2. ASSUME NEW l \in Lines, NEW q \in Qty, WarehouseIssue(l, q) PROVE IInv'
    BY <1>2, QtyType, ExecuteIssueStep DEF WarehouseIssue
<1>3. ASSUME NEW w \in WO, ReconcileLegacy(w) PROVE IInv'
    BY <1>3 DEF ReconcileLegacy, IInv
<1> QED BY <1>1, <1>2, <1>3, RepairReportStep DEF Warehouse

\* transition_work_order preserves the invariant.
LEMMA WorkOrdersStep ==
    ASSUME IInv, WorkOrders
    PROVE  IInv'
<1> SUFFICES ASSUME NEW w \in WO, NEW to \in Lifecycle, TransitionWorkOrder(w, to)
             PROVE  IInv'
    BY DEF WorkOrders
<1> DEFINE g == [l \in Lines |-> ReleaseStale(line[l], w)]
<1>1. g \in [DOMAIN line -> GoodLine]
    BY InvRows, UnreservedGood DEF ReleaseStale, Lines
<1>2. g \in Seq(GoodLine)
    <2> HIDE DEF g
    <2> QED BY <1>1, MapRows DEF IInv
<1>3. line' \in Seq(GoodLine) /\ legacy' \in [WO -> Nat]
    BY <1>2 DEF TransitionWorkOrder, IInv
<1>4. lifecycle' \in [WO -> Lifecycle]
    BY DEF TransitionWorkOrder, IInv
<1>5. opStatus' \in [WO -> OpStatus]
    BY RecomputedType DEF TransitionWorkOrder, Recompute, IInv
<1> QED BY <1>3, <1>4, <1>5 DEF TransitionWorkOrder, IInv

-------------------------------------------------------------------------------
(***************************************************************************)
(* The theorems.                                                           *)
(***************************************************************************)
\* The invariant holds at the start, with any legacy reservations.
LEMMA InitInv == Init => IInv
BY ConstantsAssumption, EmptySeq DEF Init, IInv, Lifecycle, OpStatus

\* Every request handler, job and command preserves the invariant.
LEMMA NextInv == IInv /\ [Next]_vars => IInv'
<1> SUFFICES ASSUME IInv, [Next]_vars PROVE IInv'
    OBVIOUS
<1>1. CASE UNCHANGED vars
    BY <1>1 DEF vars, IInv
<1>2. CASE Next
    BY <1>2, StockStep, TechnicianStep, LineDecisionStep, ShortageDecisionStep,
       WarehouseStep, WorkOrdersStep DEF Next
<1> QED BY <1>1, <1>2

\* The rows of inventory/services.py's tables stay well typed and sound in every
\* reachable state: the inductive invariant all the theorems below follow from.
THEOREM Invariance == Spec => []IInv
BY InitInv, NextInv, PTL DEF Spec

\* The tables keep their types and on-hand stock never goes negative, for any
\* number of work orders, rows and units.
THEOREM TypeCorrect == Spec => []TypeOK
<1>1. IInv => TypeOK BY InvTypes
<1> QED BY <1>1, Invariance, PTL

\* A PENDING or REJECTED line never holds stock back.
THEOREM RefusedHoldNothing == Spec => []RefusedHoldsNothing
<1>1. IInv => RefusedHoldsNothing
    BY InvRows DEF RefusedHoldsNothing, GoodLine, LineSound
<1> QED BY <1>1, Invariance, PTL

\* An open PART blocker belongs to a line that can still be issued or refused.
THEOREM PartBlockersHaveLines == Spec => []NoOrphanPartBlocker
<1>1. IInv => NoOrphanPartBlocker
    BY InvRows DEF NoOrphanPartBlocker, GoodLine, LineSound
<1> QED BY <1>1, Invariance, PTL

\* An open SHORTAGE blocker belongs to a report still being procured.
THEOREM ShortageBlockersHaveReports == Spec => []NoOrphanShortageBlocker
<1>1. IInv => NoOrphanShortageBlocker
    BY InvRows DEF NoOrphanShortageBlocker, GoodReport, ReportSound
<1> QED BY <1>1, Invariance, PTL

\* A line's reservation never exceeds what allocation granted it.
THEOREM ReservationsWereAllocated == Spec => []ReservedWasAllocated
<1>1. IInv => ReservedWasAllocated
    BY InvRows DEF ReservedWasAllocated, GoodLine, LineSound
<1> QED BY <1>1, Invariance, PTL

\* The quantities of a decision add up to the quantity requested.
THEOREM DecisionsBalance == Spec => []BooksBalance
<1>1. IInv => BooksBalance
    BY InvRows DEF BooksBalance, GoodReport, ReportSound
<1> QED BY <1>1, Invariance, PTL

-------------------------------------------------------------------------------
(***************************************************************************)
(* What a step does to whole tables: sums of a column, the rows a work     *)
(* order waits for, and the links between lines and reports.               *)
(***************************************************************************)
\* The ACTIVE reservations of the lines.
Held(lines) == Total([l \in DOMAIN lines |-> lines[l].reserved])

\* The rows with an open blocker of work order v.
Waits(rows, v) == {i \in DOMAIN rows : rows[i].wo = v /\ rows[i].blocker = "open"}

\* A report keeps its work order and moves along the transition table only.
Moved(p, q) ==
    /\ q.wo = p.wo
    /\ q.status = p.status \/ q.status \in ValidShortageTransitions[p.status]

Advances(before, after) ==
    /\ DOMAIN before \subseteq DOMAIN after
    /\ \A r \in DOMAIN before : Moved(before[r], after[r])

\* A line is linked to a report of its own work order.
LinkRight(x, reports) ==
    x.report # 0 => x.report \in DOMAIN reports /\ x.wo = reports[x.report].wo

LinksRight == \A l \in Lines : LinkRight(line[l], report)

\* Each line of after keeps its work order and link, or is linked rightly.
LinksKept(before, after, reports) ==
    \A l \in DOMAIN after :
        \/ /\ l \in DOMAIN before
           /\ after[l].wo = before[l].wo
           /\ after[l].report = before[l].report
        \/ LinkRight(after[l], reports)

\* Both columns of a table of lines are tables of numbers.
LEMMA Columns ==
    ASSUME NEW s \in Seq(LineRow)
    PROVE  /\ [l \in DOMAIN s |-> s[l].reserved] \in [DOMAIN s -> Nat]
           /\ [l \in DOMAIN s |-> s[l].issued] \in [DOMAIN s -> Nat]
           /\ IsFiniteSet(DOMAIN s)
           /\ Held(s) \in Nat /\ UnitsIssued(s) \in Nat
<1> DEFINE h == [l \in DOMAIN s |-> s[l].reserved]
           u == [l \in DOMAIN s |-> s[l].issued]
<1>1. IsFiniteSet(DOMAIN s) /\ \A l \in DOMAIN s : s[l] \in LineRow
    BY TableProps
<1>2. h \in [DOMAIN s -> Nat] /\ u \in [DOMAIN s -> Nat]
    BY <1>1 DEF LineRow
<1>3. Total(h) \in Nat /\ Total(u) \in Nat
    <2> HIDE DEF h, u
    <2> QED BY <1>1, <1>2, TotalType
<1> QED BY <1>1, <1>2, <1>3 DEF Held, UnitsIssued

\* Overwriting one line changes the sums by the difference.
LEMMA LineUpdated ==
    ASSUME NEW s \in Seq(LineRow), NEW i \in DOMAIN s, NEW e \in LineRow,
           NEW t, t = [s EXCEPT ![i] = e]
    PROVE  /\ Held(t) + s[i].reserved = Held(s) + e.reserved
           /\ UnitsIssued(t) + s[i].issued = UnitsIssued(s) + e.issued
<1> DEFINE hs == [l \in DOMAIN s |-> s[l].reserved]
           us == [l \in DOMAIN s |-> s[l].issued]
           ht == [l \in DOMAIN t |-> t[l].reserved]
           ut == [l \in DOMAIN t |-> t[l].issued]
<1>1. t \in Seq(LineRow) /\ DOMAIN t = DOMAIN s BY UpdateRow
<1>2. /\ hs \in [DOMAIN s -> Nat] /\ us \in [DOMAIN s -> Nat] /\ IsFiniteSet(DOMAIN s)
    BY Columns
<1>3. /\ ht \in [DOMAIN s -> Nat] /\ ut \in [DOMAIN s -> Nat]
    <2>1. ht \in [DOMAIN t -> Nat] /\ ut \in [DOMAIN t -> Nat] BY <1>1, Columns
    <2> QED BY <1>1, <2>1
<1>4. /\ \A l \in DOMAIN s \ {i} : ht[l] = hs[l]
      /\ \A l \in DOMAIN s \ {i} : ut[l] = us[l]
      /\ ht[i] = e.reserved /\ ut[i] = e.issued
      /\ hs[i] = s[i].reserved /\ us[i] = s[i].issued
    BY <1>1
<1>5. Held(t) = Total(ht) /\ Held(s) = Total(hs)
    BY DEF Held
<1>6. UnitsIssued(t) = Total(ut) /\ UnitsIssued(s) = Total(us)
    BY DEF UnitsIssued
<1> DEFINE S == DOMAIN s
<1> HIDE DEF hs, us, ht, ut
<1>7. Total(ht) + hs[i] = Total(hs) + ht[i] /\ Total(ut) + us[i] = Total(us) + ut[i]
    <2>1. IsFiniteSet(S) /\ i \in S
        BY <1>2
    <2>2. hs \in [S -> Nat] /\ ht \in [S -> Nat] /\ AgreeOn(hs, ht, S \ {i})
        BY <1>2, <1>3, <1>4 DEF AgreeOn
    <2>3. us \in [S -> Nat] /\ ut \in [S -> Nat] /\ AgreeOn(us, ut, S \ {i})
        BY <1>2, <1>3, <1>4 DEF AgreeOn
    <2> HIDE DEF S
    <2>4. Total(ht) + hs[i] = Total(hs) + ht[i]
        BY <2>1, <2>2, TotalUpdate
    <2>5. Total(ut) + us[i] = Total(us) + ut[i]
        BY <2>1, <2>3, TotalUpdate
    <2> QED BY <2>4, <2>5
<1> QED BY <1>4, <1>5, <1>6, <1>7

\* A new line adds what it holds.
LEMMA LineAdded ==
    ASSUME NEW s \in Seq(LineRow), NEW e \in LineRow, NEW t, t = Append(s, e)
    PROVE  /\ Held(t) = Held(s) + e.reserved
           /\ UnitsIssued(t) = UnitsIssued(s) + e.issued
<1> DEFINE hs == [l \in DOMAIN s |-> s[l].reserved]
           us == [l \in DOMAIN s |-> s[l].issued]
           ht == [l \in DOMAIN t |-> t[l].reserved]
           ut == [l \in DOMAIN t |-> t[l].issued]
           k == Len(s) + 1
<1>1. t \in Seq(LineRow) BY AddRow
<1>2. /\ DOMAIN s = 1..Len(s) /\ Len(s) \in Nat /\ DOMAIN t = 1..k
      /\ t[k] = e /\ \A l \in DOMAIN s : t[l] = s[l]
    BY TableProps
<1>3. k \notin DOMAIN s /\ DOMAIN t = DOMAIN s \cup {k}
    BY <1>2
<1>4. /\ hs \in [DOMAIN s -> Nat] /\ us \in [DOMAIN s -> Nat] /\ IsFiniteSet(DOMAIN s)
      /\ ht \in [DOMAIN t -> Nat] /\ ut \in [DOMAIN t -> Nat]
    BY <1>1, Columns
<1>5. /\ \A l \in DOMAIN s : ht[l] = hs[l]
      /\ \A l \in DOMAIN s : ut[l] = us[l]
      /\ ht[k] = e.reserved /\ ut[k] = e.issued
    BY <1>2, <1>3
<1>6. Held(t) = Total(ht) /\ Held(s) = Total(hs)
    BY DEF Held
<1>7. UnitsIssued(t) = Total(ut) /\ UnitsIssued(s) = Total(us)
    BY DEF UnitsIssued
<1>8. OneMoreRow(hs, ht, k, Nat) /\ OneMoreRow(us, ut, k, Nat)
    <2>1. DOMAIN hs = DOMAIN s /\ DOMAIN us = DOMAIN s /\ DOMAIN ht = DOMAIN t /\ DOMAIN ut = DOMAIN t
        OBVIOUS
    <2> HIDE DEF hs, us, ht, ut, k
    <2> QED BY <1>3, <1>4, <1>5, <2>1 DEF OneMoreRow, AgreeOn
<1> HIDE DEF hs, us, ht, ut, k
<1>9. Total(ht) = Total(hs) + ht[k] /\ Total(ut) = Total(us) + ut[k]
    BY <1>8, TotalAdd
<1> QED BY <1>5, <1>6, <1>7, <1>9

\* Releasing reservations on some lines lowers one sum and keeps the other.
LEMMA LinesReleased ==
    ASSUME NEW s \in Seq(LineRow), NEW t \in Seq(LineRow), DOMAIN t = DOMAIN s,
           \A l \in DOMAIN s : t[l].reserved <= s[l].reserved /\ t[l].issued = s[l].issued
    PROVE  Held(t) <= Held(s) /\ UnitsIssued(t) = UnitsIssued(s)
<1> DEFINE hs == [l \in DOMAIN s |-> s[l].reserved]
           ht == [l \in DOMAIN t |-> t[l].reserved]
<1>1. /\ hs \in [DOMAIN s -> Nat] /\ IsFiniteSet(DOMAIN s)
      /\ ht \in [DOMAIN s -> Nat]
    <2>1. ht \in [DOMAIN t -> Nat] BY Columns
    <2> QED BY <2>1, Columns
<1>2. \A l \in DOMAIN s : ht[l] <= hs[l]
    OBVIOUS
<1>3. Total(ht) <= Total(hs)
    <2> HIDE DEF hs, ht
    <2> QED BY <1>1, <1>2, TotalLess
<1>4. [l \in DOMAIN t |-> t[l].issued] = [l \in DOMAIN s |-> s[l].issued]
    OBVIOUS
<1> QED BY <1>3, <1>4 DEF Held, UnitsIssued

-------------------------------------------------------------------------------
(***************************************************************************)
(* What every handler guarantees of the step it takes.                     *)
(***************************************************************************)
\* The actions of AllocationIsBacked and UnitsConserved.
Backed == QuantityReserved' > QuantityReserved => QuantityReserved' <= available'

Conserved ==
    <<line, report>>' # <<line, report>> =>
      available' + UnitsIssued(line') = available + UnitsIssued(line)

\* Nothing that the operational status of v is derived from changes.
Steady(v) ==
    /\ Waits(line', v) = Waits(line, v)
    /\ Waits(report', v) = Waits(report, v)
    /\ lifecycle'[v] = lifecycle[v]

\* A handler recomputes the one work order it disturbs.
StatusFollows ==
    \/ opStatus' = opStatus /\ \A v \in WO : Steady(v)
    \/ \E w \in WO : opStatus' = Recomputed(w) /\ \A v \in WO \ {w} : Steady(v)

HandlerSound ==
    /\ Advances(report, report')
    /\ LinksKept(line, line', report')
    /\ Backed
    /\ Conserved
    /\ StatusFollows

\* Sums in terms of the two tables that hold reservations.
LEMMA ReservedSum ==
    ASSUME IInv, IInv'
    PROVE  /\ QuantityReserved = Held(line) + Total(legacy)
           /\ QuantityReserved' = Held(line') + Total(legacy')
           /\ Held(line) \in Nat /\ Held(line') \in Nat
           /\ Total(legacy) \in Nat /\ Total(legacy') \in Nat
           /\ UnitsIssued(line) \in Nat /\ UnitsIssued(line') \in Nat
           /\ available \in Nat /\ available' \in Nat
<1>1. /\ line \in Seq(LineRow) /\ line' \in Seq(LineRow)
      /\ legacy \in [WO -> Nat] /\ legacy' \in [WO -> Nat]
      /\ available \in Nat /\ available' \in Nat
    BY SeqMonotonic DEF IInv, GoodLine
<1>2. /\ Held(line) \in Nat /\ Held(line') \in Nat
      /\ UnitsIssued(line) \in Nat /\ UnitsIssued(line') \in Nat
    BY <1>1, Columns
<1>3. Total(legacy) \in Nat /\ Total(legacy') \in Nat
    BY <1>1, TotalType, ConstantsAssumption
<1>4. /\ QuantityReserved = Held(line) + Total(legacy)
      /\ QuantityReserved' = Held(line') + Total(legacy')
    BY DEF QuantityReserved, ReservedIn, Held
<1> QED BY <1>1, <1>2, <1>3, <1>4

\* Legacy reservations that only shrink shrink together.
LEMMA LegacyLowered ==
    ASSUME IInv, IInv', \A w \in WO : legacy'[w] <= legacy[w]
    PROVE  Total(legacy') <= Total(legacy)
<1>1. legacy \in [WO -> Nat] /\ legacy' \in [WO -> Nat]
    BY DEF IInv
<1> QED BY <1>1, TotalLess, ConstantsAssumption

\* A handler that reserves nothing new.
LEMMA NothingGranted ==
    ASSUME IInv, IInv', Held(line') <= Held(line), \A w \in WO : legacy'[w] <= legacy[w]
    PROVE  Backed
BY ReservedSum, LegacyLowered DEF Backed

\* A handler that reserves what allocate_one grants out of the free stock.
LEMMA GrantedFromFree ==
    ASSUME IInv, IInv', UNCHANGED <<available, legacy>>,
           NEW give \in Nat, give <= FreeStock, Held(line') = Held(line) + give
    PROVE  Backed
<1>1. /\ QuantityReserved \in Nat /\ available \in Nat
      /\ QuantityReserved' = QuantityReserved + give /\ available' = available
    BY ReservedSum
<1>2. CASE give = 0
    BY <1>1, <1>2 DEF Backed
<1>3. CASE give > 0
    <2>1. give <= available - QuantityReserved
        BY <1>1, <1>3 DEF FreeStock, Usable, AtLeastZero
    <2> QED BY <1>1, <2>1 DEF Backed
<1> QED BY <1>2, <1>3

\* One line is overwritten, keeps its work order, and its link or gets a right one.
LEMMA OneLine ==
    ASSUME IInv, NEW l \in Lines, NEW e \in GoodLine, line' = [line EXCEPT ![l] = e],
           e.wo = line[l].wo, e.report = line[l].report \/ LinkRight(e, report')
    PROVE  /\ Held(line') + line[l].reserved = Held(line) + e.reserved
           /\ UnitsIssued(line') + line[l].issued = UnitsIssued(line) + e.issued
           /\ LinksKept(line, line', report')
           /\ \A v : v # e.wo \/ (e.blocker = "open" <=> line[l].blocker = "open")
                       => Waits(line', v) = Waits(line, v)
<1>1. line \in Seq(LineRow) /\ l \in DOMAIN line /\ e \in LineRow
    BY SeqMonotonic DEF IInv, GoodLine, Lines
<1>2. /\ Held(line') + line[l].reserved = Held(line) + e.reserved
      /\ UnitsIssued(line') + line[l].issued = UnitsIssued(line) + e.issued
    BY <1>1, LineUpdated
<1>3. LinksKept(line, line', report')
    BY <1>1 DEF LinksKept
<1>4. \A v : v # e.wo \/ (e.blocker = "open" <=> line[l].blocker = "open")
                => Waits(line', v) = Waits(line, v)
    <2> SUFFICES ASSUME NEW v, v # e.wo \/ (e.blocker = "open" <=> line[l].blocker = "open")
                 PROVE  Waits(line', v) = Waits(line, v)
        OBVIOUS
    <2>1. \A i \in DOMAIN line :
            line'[i].wo = v /\ line'[i].blocker = "open" <=> line[i].wo = v /\ line[i].blocker = "open"
        BY <1>1
    <2> QED BY <1>1, <2>1 DEF Waits
<1> QED BY <1>2, <1>3, <1>4

\* One line is added.
LEMMA AnotherLine ==
    ASSUME IInv, NEW e \in GoodLine, line' = Append(line, e), LinkRight(e, report')
    PROVE  /\ Held(line') = Held(line) + e.reserved
           /\ UnitsIssued(line') = UnitsIssued(line) + e.issued
           /\ LinksKept(line, line', report')
           /\ \A v : v # e.wo \/ e.blocker # "open" => Waits(line', v) = Waits(line, v)
<1>1. line \in Seq(LineRow) /\ e \in LineRow
    BY SeqMonotonic DEF IInv, GoodLine
<1>2. /\ Held(line') = Held(line) + e.reserved
      /\ UnitsIssued(line') = UnitsIssued(line) + e.issued
    BY <1>1, LineAdded
<1>3. /\ DOMAIN line' = DOMAIN line \cup {Len(line) + 1}
      /\ line'[Len(line) + 1] = e /\ \A i \in DOMAIN line : line'[i] = line[i]
    <2>1. /\ DOMAIN line = 1..Len(line) /\ Len(line) \in Nat
          /\ DOMAIN line' = 1..(Len(line) + 1)
          /\ line'[Len(line) + 1] = e /\ \A i \in DOMAIN line : line'[i] = line[i]
        BY <1>1, TableProps
    <2> QED BY <2>1
<1>4. LinksKept(line, line', report')
    BY <1>3 DEF LinksKept
<1>5. \A v : v # e.wo \/ e.blocker # "open" => Waits(line', v) = Waits(line, v)
    BY <1>3 DEF Waits
<1> QED BY <1>2, <1>4, <1>5

\* One report is overwritten and moves along the table.
LEMMA OneReport ==
    ASSUME IInv, NEW r \in Reports, NEW e, report' = [report EXCEPT ![r] = e],
           Moved(report[r], e)
    PROVE  /\ Advances(report, report')
           /\ \A v : v # e.wo \/ (e.blocker = "open" <=> report[r].blocker = "open")
                       => Waits(report', v) = Waits(report, v)
<1>1. report \in Seq(GoodReport) /\ r \in DOMAIN report /\ e.wo = report[r].wo
    BY DEF IInv, Reports, Moved
<1>2. Advances(report, report')
    BY <1>1 DEF Advances, Moved
<1>3. ASSUME NEW v, v # e.wo \/ (e.blocker = "open" <=> report[r].blocker = "open")
      PROVE  Waits(report', v) = Waits(report, v)
    <2>1. \A i \in DOMAIN report :
            report'[i].wo = v /\ report'[i].blocker = "open"
              <=> report[i].wo = v /\ report[i].blocker = "open"
        BY <1>1, <1>3
    <2> QED BY <1>1, <2>1 DEF Waits
<1> QED BY <1>2, <1>3

\* One report is added, without a blocker yet.
LEMMA AnotherReport ==
    ASSUME IInv, NEW e \in GoodReport, report' = Append(report, e), e.blocker # "open"
    PROVE  /\ Advances(report, report')
           /\ \A v : Waits(report', v) = Waits(report, v)
<1>1. /\ DOMAIN report' = DOMAIN report \cup {Len(report) + 1}
      /\ report'[Len(report) + 1] = e /\ \A i \in DOMAIN report : report'[i] = report[i]
    <2>1. /\ DOMAIN report = 1..Len(report) /\ Len(report) \in Nat
          /\ DOMAIN report' = 1..(Len(report) + 1)
          /\ report'[Len(report) + 1] = e /\ \A i \in DOMAIN report : report'[i] = report[i]
        BY TableProps DEF IInv
    <2> QED BY <2>1
<1>2. Advances(report, report')
    BY <1>1 DEF Advances, Moved
<1>3. \A v : Waits(report', v) = Waits(report, v)
    BY <1>1 DEF Waits
<1> QED BY <1>2, <1>3

\* A line table left alone.
LEMMA SameLines ==
    ASSUME UNCHANGED line
    PROVE  /\ Held(line') = Held(line) /\ UnitsIssued(line') = UnitsIssued(line)
           /\ LinksKept(line, line', report')
           /\ \A v : Waits(line', v) = Waits(line, v)
BY DEF LinksKept

\* A report table left alone.
LEMMA SameReports ==
    ASSUME UNCHANGED report
    PROVE  /\ Advances(report, report')
           /\ \A v : Waits(report', v) = Waits(report, v)
BY DEF Advances, Moved

\* allocate_one touches only the quantities and the status.
LEMMA AllocatedRow ==
    ASSUME NEW x \in LineRow, NEW free \in Nat, NEW y, y = AllocateOne(x, free)
    PROVE  /\ y.wo = x.wo /\ y.report = x.report /\ y.issued = x.issued /\ y.blocker = x.blocker
           /\ y.reserved = x.reserved + Grant(x, free)
           /\ Grant(x, free) \in Nat /\ Grant(x, free) <= free
<1>1. Grant(x, free) \in Nat /\ Grant(x, free) <= free
    BY DEF Grant, MinOf, LineRow
<1>2. CASE Grant(x, free) = 0
    BY <1>1, <1>2 DEF AllocateOne, LineRow
<1>3. CASE Grant(x, free) # 0
    BY <1>1, <1>3 DEF AllocateOne, LineRow
<1> QED BY <1>1, <1>2, <1>3

\* Stock movements leave every table alone.
LEMMA StockSound ==
    ASSUME IInv, IInv', Stock
    PROVE  HandlerSound
<1>1. UNCHANGED <<legacy, line, report, lifecycle, opStatus>>
    BY DEF Stock, StockIn, ConsumableUse, PartAdjust
<1>2. Advances(report, report') /\ LinksKept(line, line', report') /\ Conserved
    BY <1>1, SameLines, SameReports DEF Conserved
<1>3. Backed
    BY <1>1, ReservedSum DEF Backed
<1>4. StatusFollows
    BY <1>1, SameLines, SameReports DEF StatusFollows, Steady
<1> QED BY <1>2, <1>3, <1>4 DEF HandlerSound

\* issue_part_to_work_order puts on the new line what it takes off the shelf.
LEMMA DirectIssueSound ==
    ASSUME IInv, IInv', NEW w \in WO, NEW q \in Qty, DirectIssue(w, q)
    PROVE  HandlerSound
<1> DEFINE take == MinOf(q, Usable)
           row == [NewLine(w, take) EXCEPT !.status = "approved",
                                           !.approved = take, !.issued = take]
<1>1. Usable \in Int /\ take \in Nat
    BY InvTypes, StockTypes, QtyType DEF DirectIssue, MinOf
<1>2. /\ row \in GoodLine
      /\ row.reserved = 0 /\ row.issued = take /\ row.report = 0 /\ row.blocker = "none"
    <2> HIDE DEF take
    <2> QED BY <1>1, NewLineGood DEF NewLine
<1> HIDE DEF row, take
<1>3. /\ available' = available - take
      /\ line' = Append(line, row)
      /\ UNCHANGED <<legacy, report, lifecycle, opStatus>>
    BY DEF DirectIssue, row, take
<1>4. LinkRight(row, report')
    BY <1>2 DEF LinkRight
<1>5. /\ Held(line') = Held(line) + row.reserved
      /\ UnitsIssued(line') = UnitsIssued(line) + row.issued
      /\ LinksKept(line, line', report')
      /\ \A v : v # row.wo \/ row.blocker # "open" => Waits(line', v) = Waits(line, v)
    BY <1>2, <1>3, <1>4, AnotherLine
<1>6. \A v : Waits(line', v) = Waits(line, v)
    BY <1>2, <1>5
<1>7. Backed
    BY <1>2, <1>3, <1>5, ReservedSum DEF Backed
<1>8. Conserved
    BY <1>1, <1>2, <1>3, <1>5, ReservedSum DEF Conserved
<1>9. StatusFollows
    BY <1>3, <1>6, SameReports DEF StatusFollows, Steady
<1> QED BY <1>3, <1>5, <1>7, <1>8, <1>9, SameReports DEF HandlerSound

\* request_part_on_wo links a short line to the report it creates with it.
LEMMA RequestPartSound ==
    ASSUME IInv, IInv', NEW w \in WO, NEW q \in Qty, RequestPart(w, q)
    PROVE  HandlerSound
<1> DEFINE short == IF Usable >= q THEN 0 ELSE q - Usable
           row == [NewLine(w, q) EXCEPT !.shortage = short, !.blocker = "open"]
           linked == [row EXCEPT !.report = Len(report) + 1]
           new == NewReport(w, q)
<1>1. q \in Nat /\ short \in Nat
    BY InvTypes, StockTypes, QtyType
<1>2. /\ Len(report) + 1 \in Nat
      /\ new \in GoodReport /\ new.wo = w /\ new.blocker = "none"
    BY <1>1, TableProps, NewReportGood DEF IInv, NewReport
<1>3. /\ row \in GoodLine /\ row.wo = w /\ row.reserved = 0 /\ row.issued = 0 /\ row.report = 0
      /\ linked \in GoodLine /\ linked.wo = w /\ linked.reserved = 0 /\ linked.issued = 0
      /\ linked.report = Len(report) + 1
    <2> HIDE DEF short
    <2> QED BY <1>1, <1>2, NewLineGood DEF NewLine
<1>4. \/ line' = Append(line, row) /\ UNCHANGED report
      \/ line' = Append(line, linked) /\ report' = Append(report, new)
    BY DEF RequestPart
<1>5. UNCHANGED <<available, legacy, lifecycle>> /\ opStatus' = Recomputed(w)
    BY DEF RequestPart, Recompute
<1> HIDE DEF row, linked, new, short
<1>6. PICK e \in GoodLine : /\ line' = Append(line, e) /\ LinkRight(e, report')
                            /\ e.wo = w /\ e.reserved = 0 /\ e.issued = 0
    <2>1. CASE line' = Append(line, row) /\ UNCHANGED report
        BY <1>3, <2>1 DEF LinkRight
    <2>2. CASE line' = Append(line, linked) /\ report' = Append(report, new)
        <3>1. Len(report) + 1 \in DOMAIN report' /\ report'[Len(report) + 1] = new
            BY <1>2, <2>2, TableProps DEF IInv
        <3>2. LinkRight(linked, report')
            BY <1>2, <1>3, <3>1 DEF LinkRight
        <3> QED BY <1>3, <2>2, <3>2
    <2> QED BY <1>4, <2>1, <2>2
<1>7. Advances(report, report') /\ \A v : Waits(report', v) = Waits(report, v)
    <2>1. CASE UNCHANGED report BY <2>1, SameReports
    <2>2. CASE report' = Append(report, new)
        BY <1>2, <2>2, AnotherReport
    <2> QED BY <1>4, <2>1, <2>2
<1>8. /\ Held(line') = Held(line) + e.reserved
      /\ UnitsIssued(line') = UnitsIssued(line) + e.issued
      /\ LinksKept(line, line', report')
      /\ \A v : v # e.wo \/ e.blocker # "open" => Waits(line', v) = Waits(line, v)
    BY <1>6, AnotherLine
<1>9. Backed /\ Conserved
    BY <1>5, <1>6, <1>8, ReservedSum DEF Backed, Conserved
<1>10. StatusFollows
    BY <1>5, <1>6, <1>7, <1>8 DEF StatusFollows, Steady
<1> QED BY <1>7, <1>8, <1>9, <1>10 DEF HandlerSound

\* work_order_request_part_re_review adds a bare row.
LEMMA ReReviewSound ==
    ASSUME IInv, IInv', NEW l \in Lines, NEW q \in Qty, ReReview(l, q)
    PROVE  HandlerSound
<1> DEFINE e == NewLine(line[l].wo, q)
<1>1. line[l].wo \in WO
    BY InvRows DEF GoodLine, LineRow
<1>2. /\ e \in GoodLine /\ e.reserved = 0 /\ e.issued = 0 /\ e.report = 0 /\ e.blocker = "none"
    BY <1>1, QtyType, NewLineGood DEF NewLine
<1>3. line' = Append(line, e) /\ UNCHANGED <<available, legacy, report, lifecycle, opStatus>>
    BY DEF ReReview
<1> HIDE DEF e
<1>4. LinkRight(e, report')
    BY <1>2 DEF LinkRight
<1>5. /\ Held(line') = Held(line) + e.reserved
      /\ UnitsIssued(line') = UnitsIssued(line) + e.issued
      /\ LinksKept(line, line', report')
      /\ \A v : v # e.wo \/ e.blocker # "open" => Waits(line', v) = Waits(line, v)
    BY <1>2, <1>3, <1>4, AnotherLine
<1>6. \A v : Waits(line', v) = Waits(line, v)
    BY <1>2, <1>5
<1>7. Backed /\ Conserved
    BY <1>2, <1>3, <1>5, ReservedSum DEF Backed, Conserved
<1>8. StatusFollows
    BY <1>3, <1>6, SameReports DEF StatusFollows, Steady
<1> QED BY <1>3, <1>5, <1>7, <1>8, SameReports DEF HandlerSound

\* raise_shortage_request links a waiting line to the report of its work order.
LEMMA RaiseShortageSound ==
    ASSUME IInv, IInv', NEW w \in WO, RaiseShortage(w)
    PROVE  HandlerSound
<1> DEFINE waiting == {l \in LinesOf(w) : line[l].status = "pending"}
<1>1. UNCHANGED <<available, legacy, lifecycle, opStatus>>
    BY DEF RaiseShortage
<1>2. ASSUME NEW r \in PendingReportsOf(w), NEW e, report' = [report EXCEPT ![r] = e],
             e.wo = report[r].wo, e.status = report[r].status, e.blocker = report[r].blocker
      PROVE  /\ Advances(report, report') /\ \A v : Waits(report', v) = Waits(report, v)
             /\ r \in DOMAIN report' /\ report'[r].wo = w /\ r \in Nat
    <2>1. r \in Reports /\ report[r].wo = w
        BY DEF PendingReportsOf
    <2>2. Moved(report[r], e)
        BY <1>2 DEF Moved
    <2>3. /\ Advances(report, report')
          /\ \A v : v # e.wo \/ (e.blocker = "open" <=> report[r].blocker = "open")
                      => Waits(report', v) = Waits(report, v)
        BY <1>2, <2>1, <2>2, OneReport
    <2>4. r \in DOMAIN report' /\ report'[r] = e
        BY <1>2, <2>1 DEF Reports
    <2>5. r \in Nat
        BY <2>1, TableProps DEF IInv, Reports
    <2> QED BY <1>2, <2>1, <2>3, <2>4, <2>5
<1>3. ASSUME NEW l \in waiting, NEW r \in Nat, r \in DOMAIN report', report'[r].wo = w,
             LinkReport(l, r)
      PROVE  /\ Held(line') = Held(line) /\ UnitsIssued(line') = UnitsIssued(line)
             /\ LinksKept(line, line', report') /\ \A v : Waits(line', v) = Waits(line, v)
    <2>1. CASE UNCHANGED line
        BY <2>1, SameLines
    <2>2. CASE line' = [line EXCEPT ![l].report = r]
        <3> DEFINE e == [line[l] EXCEPT !.report = r]
        <3>1. l \in Lines /\ line[l].wo = w
            BY DEF LinesOf
        <3>2. line[l] \in GoodLine
            BY <3>1, InvRows
        <3>3. /\ e.wo = w /\ e.report = r /\ e.reserved = line[l].reserved
              /\ e.issued = line[l].issued /\ e.blocker = line[l].blocker
              /\ line[l].reserved \in Nat /\ line[l].issued \in Nat
            BY <3>1, <3>2 DEF GoodLine, LineRow
        <3>4. e \in GoodLine
            BY <3>2, LinkedGood
        <3>5. line' = [line EXCEPT ![l] = e]
            BY <2>2
        <3> HIDE DEF e
        <3>6. LinkRight(e, report')
            BY <1>3, <3>3 DEF LinkRight
        <3>7. /\ Held(line') + line[l].reserved = Held(line) + e.reserved
              /\ UnitsIssued(line') + line[l].issued = UnitsIssued(line) + e.issued
              /\ LinksKept(line, line', report')
              /\ \A v : v # e.wo \/ (e.blocker = "open" <=> line[l].blocker = "open")
                          => Waits(line', v) = Waits(line, v)
            BY <3>1, <3>3, <3>4, <3>5, <3>6, OneLine
        <3> QED BY <3>3, <3>7, ReservedSum
    <2> QED BY <1>3, <2>1, <2>2 DEF LinkReport
<1>4. /\ Held(line') = Held(line) /\ UnitsIssued(line') = UnitsIssued(line)
      /\ LinksKept(line, line', report') /\ \A v : Waits(line', v) = Waits(line, v)
      /\ Advances(report, report') /\ \A v : Waits(report', v) = Waits(report, v)
    <2>1. CASE \E r \in PendingReportsOf(w), l \in waiting :
                /\ report' = [report EXCEPT ![r].requested = line[l].quantity,
                                            ![r].qtyIssued = line[l].issued]
                /\ LinkReport(l, r)
        <3> PICK r \in PendingReportsOf(w), l \in waiting :
                /\ report' = [report EXCEPT ![r].requested = line[l].quantity,
                                            ![r].qtyIssued = line[l].issued]
                /\ LinkReport(l, r)
            BY <2>1
        <3> DEFINE e == [report[r] EXCEPT !.requested = line[l].quantity,
                                          !.qtyIssued = line[l].issued]
        <3>1. report[r] \in GoodReport
            BY InvRows DEF PendingReportsOf
        <3>2. e.wo = report[r].wo /\ e.status = report[r].status /\ e.blocker = report[r].blocker
            BY <3>1 DEF GoodReport, ReportRow
        <3>3. report' = [report EXCEPT ![r] = e]
            OBVIOUS
        <3> HIDE DEF e
        <3>4. /\ Advances(report, report') /\ \A v : Waits(report', v) = Waits(report, v)
              /\ r \in DOMAIN report' /\ report'[r].wo = w /\ r \in Nat
            BY <1>2, <3>2, <3>3
        <3> QED BY <1>3, <3>4
    <2>2. CASE \E r \in PendingReportsOf(w) :
                report' = [report EXCEPT ![r].qtyIssued = 0] /\ UNCHANGED line
        <3> PICK r \in PendingReportsOf(w) :
                report' = [report EXCEPT ![r].qtyIssued = 0] /\ UNCHANGED line
            BY <2>2
        <3> DEFINE e == [report[r] EXCEPT !.qtyIssued = 0]
        <3>1. report[r] \in GoodReport
            BY InvRows DEF PendingReportsOf
        <3>2. e.wo = report[r].wo /\ e.status = report[r].status /\ e.blocker = report[r].blocker
            BY <3>1 DEF GoodReport, ReportRow
        <3>3. report' = [report EXCEPT ![r] = e]
            OBVIOUS
        <3> HIDE DEF e
        <3> QED BY <1>2, <3>2, <3>3, SameLines
    <2>3. CASE \E l \in waiting :
                /\ report' = Append(report, NewReport(w, line[l].quantity))
                /\ LinkReport(l, Len(report) + 1)
        <3> PICK l \in waiting : /\ report' = Append(report, NewReport(w, line[l].quantity))
                                 /\ LinkReport(l, Len(report) + 1)
            BY <2>3
        <3> DEFINE e == NewReport(w, line[l].quantity)
        <3>1. line[l].quantity \in Nat
            BY InvRows DEF LinesOf, GoodLine, LineRow
        <3>2. e \in GoodReport /\ e.blocker = "none" /\ e.wo = w
            BY <3>1, NewReportGood DEF NewReport
        <3>3. report' = Append(report, e)
            OBVIOUS
        <3> HIDE DEF e
        <3>4. Advances(report, report') /\ \A v : Waits(report', v) = Waits(report, v)
            BY <3>2, <3>3, AnotherReport
        <3>5. /\ Len(report) + 1 \in Nat
              /\ Len(report) + 1 \in DOMAIN report' /\ report'[Len(report) + 1].wo = w
            BY <3>2, <3>3, TableProps DEF IInv
        <3> QED BY <1>3, <3>4, <3>5
    <2> HIDE DEF waiting
    <2> QED BY <2>1, <2>2, <2>3 DEF RaiseShortage, waiting
<1>5. Backed /\ Conserved
    BY <1>1, <1>4, ReservedSum DEF Backed, Conserved
<1>6. StatusFollows
    BY <1>1, <1>4 DEF StatusFollows, Steady
<1> QED BY <1>4, <1>5, <1>6 DEF HandlerSound

\* The technician's handlers.
LEMMA TechnicianSound ==
    ASSUME IInv, IInv', Technician
    PROVE  HandlerSound
BY DirectIssueSound, RequestPartSound, ReReviewSound, RaiseShortageSound DEF Technician

\* One line is overwritten without changing its issued quantity, and nothing
\* else but legacy reservations that are cancelled.
LEMMA OneLineOnly ==
    ASSUME IInv, IInv', NEW l \in Lines, NEW e \in GoodLine, line' = [line EXCEPT ![l] = e],
           e.wo = line[l].wo, e.report = line[l].report, e.issued = line[l].issued,
           UNCHANGED <<available, report, lifecycle>>
    PROVE  /\ Advances(report, report') /\ LinksKept(line, line', report') /\ Conserved
           /\ Held(line') + line[l].reserved = Held(line) + e.reserved
           /\ opStatus' = Recomputed(line[l].wo) => StatusFollows
           /\ opStatus' = opStatus /\ e.blocker = line[l].blocker => StatusFollows
<1>1. line[l].wo \in WO /\ line[l].issued \in Nat
    BY InvRows DEF GoodLine, LineRow
<1>2. /\ Held(line') + line[l].reserved = Held(line) + e.reserved
      /\ UnitsIssued(line') + line[l].issued = UnitsIssued(line) + e.issued
      /\ LinksKept(line, line', report')
      /\ \A v : v # e.wo \/ (e.blocker = "open" <=> line[l].blocker = "open")
                  => Waits(line', v) = Waits(line, v)
    BY OneLine
<1>3. Advances(report, report') /\ \A v : Waits(report', v) = Waits(report, v)
    BY SameReports
<1>4. Conserved
    BY <1>1, <1>2, ReservedSum DEF Conserved
<1>5. ASSUME opStatus' = Recomputed(line[l].wo) PROVE StatusFollows
    BY <1>1, <1>2, <1>3, <1>5 DEF StatusFollows, Steady
<1>6. ASSUME opStatus' = opStatus, e.blocker = line[l].blocker PROVE StatusFollows
    BY <1>2, <1>3, <1>6 DEF StatusFollows, Steady
<1> QED BY <1>2, <1>3, <1>4, <1>5, <1>6

\* approve_part_request reserves no more than is free.
LEMMA ApprovePartSound ==
    ASSUME IInv, IInv', NEW l \in Lines, ApprovePart(l)
    PROVE  HandlerSound
<1> DEFINE x == line[l]
           granted == [x EXCEPT !.status = "approved", !.approved = x.quantity,
                                !.shortage = AtLeastZero(x.requested - x.quantity)]
           e == AllocateOne(granted, FreeStock)
<1>1. x \in GoodLine /\ x.reserved \in Nat /\ FreeStock \in Nat
    BY InvRows, InvTypes, StockTypes DEF GoodLine, LineRow
<1>2. /\ granted \in GoodLine /\ granted \in LineRow
      /\ granted.wo = x.wo /\ granted.report = x.report /\ granted.issued = x.issued
      /\ granted.blocker = x.blocker /\ granted.reserved = x.reserved
    BY <1>1, ApprovedGood DEF ApprovePart, GoodLine, LineRow
<1>3. /\ line' = [line EXCEPT ![l] = e] /\ opStatus' = Recomputed(line[l].wo)
      /\ UNCHANGED <<available, legacy, report, lifecycle>>
    BY DEF ApprovePart, Recompute
<1> HIDE DEF granted
<1>4. /\ e.wo = granted.wo /\ e.report = granted.report /\ e.issued = granted.issued
      /\ e.reserved = granted.reserved + Grant(granted, FreeStock)
      /\ Grant(granted, FreeStock) \in Nat /\ Grant(granted, FreeStock) <= FreeStock
    BY <1>1, <1>2, AllocatedRow
<1>5. e \in GoodLine
    BY <1>1, <1>2, AllocateOneGood
<1> HIDE DEF e
<1>6. /\ Advances(report, report') /\ LinksKept(line, line', report') /\ Conserved
      /\ Held(line') + line[l].reserved = Held(line) + e.reserved
      /\ StatusFollows
    BY <1>2, <1>3, <1>4, <1>5, OneLineOnly
<1>7. Held(line') = Held(line) + Grant(granted, FreeStock)
    BY <1>1, <1>2, <1>4, <1>6, ReservedSum
<1>8. Backed
    BY <1>3, <1>4, <1>7, GrantedFromFree
<1> QED BY <1>6, <1>8 DEF HandlerSound

\* reject_part_request touches one row and the work order it belongs to.
LEMMA RejectPartSound ==
    ASSUME IInv, IInv', NEW l \in Lines, RejectPart(l)
    PROVE  HandlerSound
<1> DEFINE x == line[l]
           e == RejectedLine(x)
<1>1. x \in GoodLine /\ x.reserved \in Nat
    BY InvRows DEF GoodLine, LineRow
<1>2. /\ e \in GoodLine /\ e.wo = x.wo /\ e.report = x.report /\ e.issued = x.issued
      /\ e.reserved = x.reserved
    BY <1>1, RejectedLineGood DEF RejectPart, RejectedLine, GoodLine, LineRow
<1>3. /\ line' = [line EXCEPT ![l] = e] /\ opStatus' = Recomputed(line[l].wo)
      /\ UNCHANGED <<available, legacy, report, lifecycle>>
    BY DEF RejectPart, Recompute
<1> HIDE DEF e
<1>4. /\ Advances(report, report') /\ LinksKept(line, line', report') /\ Conserved
      /\ Held(line') + line[l].reserved = Held(line) + e.reserved
      /\ StatusFollows
    BY <1>2, <1>3, OneLineOnly
<1>5. Backed
    BY <1>1, <1>2, <1>3, <1>4, ReservedSum DEF Backed
<1> QED BY <1>4, <1>5 DEF HandlerSound

\* edit_part_request_qty moves no stock and no blocker.
LEMMA EditPartQtySound ==
    ASSUME IInv, IInv', NEW l \in Lines, NEW q \in Qty, EditPartQty(l, q)
    PROVE  HandlerSound
<1> DEFINE x == line[l]
           e == [x EXCEPT !.quantity = q, !.shortage = AtLeastZero(x.requested - q)]
<1>1. x \in GoodLine /\ x.reserved \in Nat
    BY InvRows DEF GoodLine, LineRow
<1>2. /\ e \in GoodLine /\ e.wo = x.wo /\ e.report = x.report /\ e.issued = x.issued
      /\ e.reserved = x.reserved /\ e.blocker = x.blocker
    BY <1>1, QtyType, EditedGood DEF GoodLine, LineRow
<1>3. /\ line' = [line EXCEPT ![l] = e]
      /\ UNCHANGED <<available, legacy, report, lifecycle, opStatus>>
    BY DEF EditPartQty
<1> HIDE DEF e
<1>4. /\ Advances(report, report') /\ LinksKept(line, line', report') /\ Conserved
      /\ Held(line') + line[l].reserved = Held(line) + e.reserved
      /\ StatusFollows
    BY <1>2, <1>3, OneLineOnly
<1>5. Backed
    BY <1>1, <1>2, <1>3, <1>4, ReservedSum DEF Backed
<1> QED BY <1>4, <1>5 DEF HandlerSound

\* cancel_approved_part_request only gives stock back, and refuses a line that
\* has issued units it would have to forget.
LEMMA CancelApprovedSound ==
    ASSUME IInv, IInv', NEW l \in Lines, CancelApproved(l)
    PROVE  HandlerSound
<1> DEFINE x == line[l]
           e == CancelledLine(x)
<1>1. x \in GoodLine /\ x.reserved \in Nat /\ x.wo \in WO
    BY InvRows DEF GoodLine, LineRow
<1>2. /\ e \in GoodLine /\ e.wo = x.wo /\ e.report = x.report /\ e.issued = x.issued
      /\ e.reserved = 0
    BY <1>1, CancelledLineGood DEF CancelApproved, CancelledLine, RejectedLine, GoodLine, LineRow
<1>3. /\ line' = [line EXCEPT ![l] = e] /\ opStatus' = Recomputed(line[l].wo)
      /\ UNCHANGED <<available, report, lifecycle>>
      /\ legacy' = [legacy EXCEPT ![x.wo] = 0]
    BY DEF CancelApproved, Recompute
<1> HIDE DEF e
<1>4. /\ Advances(report, report') /\ LinksKept(line, line', report') /\ Conserved
      /\ Held(line') + line[l].reserved = Held(line) + e.reserved
      /\ StatusFollows
    BY <1>2, <1>3, OneLineOnly
<1>5. Held(line') <= Held(line)
    BY <1>1, <1>2, <1>4, ReservedSum
<1>6. \A w \in WO : legacy'[w] <= legacy[w]
    BY <1>1, <1>3 DEF IInv
<1>7. Backed
    BY <1>5, <1>6, NothingGranted
<1> QED BY <1>4, <1>7 DEF HandlerSound

\* The manager's decisions on a line.
LEMMA LineDecisionSound ==
    ASSUME IInv, IInv', LineDecision
    PROVE  HandlerSound
BY ApprovePartSound, RejectPartSound, EditPartQtySound, CancelApprovedSound DEF LineDecision

\* One report moves, and perhaps one line, without a change of issued units.
LEMMA ReportAndLine ==
    ASSUME IInv, IInv', NEW r \in Reports, NEW p, report' = [report EXCEPT ![r] = p],
           Moved(report[r], p), UNCHANGED <<available, lifecycle>>,
           \/ UNCHANGED line
           \/ \E l \in Lines, e \in GoodLine :
                /\ line' = [line EXCEPT ![l] = e]
                /\ e.report = line[l].report /\ e.issued = line[l].issued /\ e.wo = line[l].wo
                /\ e.blocker = line[l].blocker
    PROVE  /\ Advances(report, report') /\ LinksKept(line, line', report') /\ Conserved
           /\ opStatus' = Recomputed(report[r].wo) => StatusFollows
           /\ opStatus' = opStatus /\ p.blocker = report[r].blocker => StatusFollows
<1>1. report[r].wo \in WO /\ p.wo = report[r].wo
    BY InvRows DEF GoodReport, ReportRow, Moved
<1>2. /\ Advances(report, report')
      /\ \A v : v # p.wo \/ (p.blocker = "open" <=> report[r].blocker = "open")
                  => Waits(report', v) = Waits(report, v)
    BY OneReport
<1>3. /\ UnitsIssued(line') = UnitsIssued(line)
      /\ LinksKept(line, line', report') /\ \A v : Waits(line', v) = Waits(line, v)
    <2>1. CASE UNCHANGED line
        BY <2>1, SameLines
    <2>2. ASSUME NEW l \in Lines, NEW e \in GoodLine, line' = [line EXCEPT ![l] = e],
                 e.report = line[l].report, e.issued = line[l].issued, e.wo = line[l].wo,
                 e.blocker = line[l].blocker
          PROVE  /\ UnitsIssued(line') = UnitsIssued(line)
                 /\ LinksKept(line, line', report') /\ \A v : Waits(line', v) = Waits(line, v)
        <3>1. line[l].issued \in Nat
            BY InvRows DEF GoodLine, LineRow
        <3>2. /\ UnitsIssued(line') + line[l].issued = UnitsIssued(line) + e.issued
              /\ LinksKept(line, line', report')
              /\ \A v : v # e.wo \/ (e.blocker = "open" <=> line[l].blocker = "open")
                          => Waits(line', v) = Waits(line, v)
            BY <2>2, OneLine
        <3>3. UnitsIssued(line') = UnitsIssued(line)
            BY <2>2, <3>1, <3>2, ReservedSum
        <3>4. \A v : Waits(line', v) = Waits(line, v)
            BY <2>2, <3>2
        <3> QED BY <3>2, <3>3, <3>4
    <2> QED BY <2>1, <2>2
<1>4. Conserved
    BY <1>3 DEF Conserved
<1>5. ASSUME opStatus' = Recomputed(report[r].wo) PROVE StatusFollows
    BY <1>1, <1>2, <1>3, <1>5 DEF StatusFollows, Steady
<1>6. ASSUME opStatus' = opStatus, p.blocker = report[r].blocker PROVE StatusFollows
    BY <1>2, <1>3, <1>6 DEF StatusFollows, Steady
<1> QED BY <1>2, <1>3, <1>4, <1>5, <1>6

\* create_shortage_decision, approving: the line gets no more than is free, and
\* the work order is recomputed when a purchase request opens a blocker.
LEMMA ApproveShortageSound ==
    ASSUME IInv, IInv', NEW r \in Reports, NEW issue \in 0..MaxQty, NEW procure \in 0..MaxQty,
           ApproveShortage(r, issue, procure)
    PROVE  HandlerSound
<1> DEFINE p == report[r]
           d == [p EXCEPT !.status = "approved", !.decision = "approve",
                          !.issue = issue, !.procure = procure,
                          !.refused = Refused(p, issue, procure)]
           y == WithRequest(d, procure)
<1>1. p \in ReportRow /\ FreeStock \in Nat /\ issue \in Nat /\ procure \in Nat
    BY InvRows, InvTypes, StockTypes, QtyType DEF GoodReport
<1>2. /\ report' = [report EXCEPT ![r] = y] /\ UNCHANGED <<available, legacy, lifecycle>>
      /\ p.status = "pending"
    BY DEF ApproveShortage
<1>3. y.wo = p.wo /\ y.status = "approved" /\ (procure = 0 => y.blocker = p.blocker)
    BY <1>1 DEF WithRequest, ReportRow
<1>4. Moved(p, y)
    BY <1>2, <1>3 DEF Moved, ValidShortageTransitions, ReportStatus
<1>5. ASSUME NEW l \in Lines
      PROVE  LET e == DecideLine(line[l], issue, procure)
             IN  /\ e \in GoodLine
                 /\ e.wo = line[l].wo /\ e.report = line[l].report
                 /\ e.issued = line[l].issued /\ e.blocker = line[l].blocker
                 /\ \E give \in Nat : give <= FreeStock /\ e.reserved = line[l].reserved + give
    <2> DEFINE x == line[l]
               z == [x EXCEPT !.approved = issue]
               given == AllocatedFor(x, issue)
               e == DecideLine(x, issue, procure)
    <2>1. x \in GoodLine /\ x \in LineRow /\ x.reserved \in Nat
        BY InvRows DEF GoodLine, LineRow
    <2>2. /\ z \in LineRow /\ z.wo = x.wo /\ z.report = x.report /\ z.issued = x.issued
          /\ z.blocker = x.blocker /\ z.reserved = x.reserved
        BY <1>1, <2>1 DEF LineRow
    <2>3. /\ given.wo = x.wo /\ given.report = x.report /\ given.issued = x.issued
          /\ given.blocker = x.blocker
          /\ \E give \in Nat : give <= FreeStock /\ given.reserved = x.reserved + give
        <3>1. CASE issue > 0
            <4>1. given = AllocateOne(z, FreeStock) BY <3>1 DEF AllocatedFor
            <4> HIDE DEF z, given
            <4> QED BY <1>1, <2>2, <4>1, AllocatedRow
        <3>2. CASE ~(issue > 0)
            <4>1. given = x BY <3>2 DEF AllocatedFor
            <4>2. 0 \in Nat /\ 0 <= FreeStock /\ x.reserved = x.reserved + 0 BY <1>1, <2>1
            <4> HIDE DEF given
            <4> QED BY <4>1, <4>2
        <3> QED BY <3>1, <3>2
    <2>4. given \in GoodLine /\ e \in GoodLine
        BY <1>1, <2>1, DecideLineGood
    <2>5. /\ e.wo = given.wo /\ e.report = given.report /\ e.issued = given.issued
          /\ e.blocker = given.blocker /\ e.reserved = given.reserved
        <3>1. given \in LineRow BY <2>4 DEF GoodLine
        <3> HIDE DEF given
        <3> QED BY <3>1 DEF DecideLine, given, LineRow
    <2> QED BY <2>3, <2>4, <2>5
<1>6. \/ UNCHANGED line
      \/ \E l \in Lines : line' = [line EXCEPT ![l] = DecideLine(line[l], issue, procure)]
    BY DEF ApproveShortage
<1>7. opStatus' = Recomputed(report[r].wo) \/ (opStatus' = opStatus /\ procure = 0)
    <2>1. CASE procure > 0
        BY <2>1 DEF ApproveShortage
    <2>2. CASE procure = 0
        BY <2>2 DEF ApproveShortage
    <2> QED BY <1>1, <2>1, <2>2
<1> HIDE DEF y
<1>8. /\ Advances(report, report') /\ LinksKept(line, line', report') /\ Conserved
      /\ StatusFollows
    <2>1. \/ UNCHANGED line
          \/ \E l \in Lines, e \in GoodLine :
               /\ line' = [line EXCEPT ![l] = e]
               /\ e.report = line[l].report /\ e.issued = line[l].issued /\ e.wo = line[l].wo
               /\ e.blocker = line[l].blocker
        BY <1>5, <1>6
    <2>2. /\ Advances(report, report') /\ LinksKept(line, line', report') /\ Conserved
          /\ opStatus' = Recomputed(report[r].wo) => StatusFollows
          /\ opStatus' = opStatus /\ y.blocker = report[r].blocker => StatusFollows
        BY <1>2, <1>4, <2>1, ReportAndLine
    <2> QED BY <1>3, <1>7, <2>2
<1>9. Backed
    <2>1. CASE UNCHANGED line
        BY <1>2, <2>1, SameLines, ReservedSum DEF Backed
    <2>2. ASSUME NEW l \in Lines, line' = [line EXCEPT ![l] = DecideLine(line[l], issue, procure)]
          PROVE  Backed
        <3> DEFINE e == DecideLine(line[l], issue, procure)
        <3>1. /\ e \in GoodLine /\ e.wo = line[l].wo /\ e.report = line[l].report
              /\ line' = [line EXCEPT ![l] = e]
            BY <1>5, <2>2
        <3>2. PICK give \in Nat : give <= FreeStock /\ e.reserved = line[l].reserved + give
            BY <1>5
        <3> HIDE DEF e
        <3>3. Held(line') + line[l].reserved = Held(line) + e.reserved
            BY <3>1, OneLine
        <3>4. line[l].reserved \in Nat
            BY InvRows DEF GoodLine, LineRow
        <3>5. Held(line') = Held(line) + give
            BY <3>2, <3>3, <3>4, ReservedSum
        <3> QED BY <1>2, <3>2, <3>5, GrantedFromFree
    <2> QED BY <1>6, <2>1, <2>2
<1> QED BY <1>8, <1>9 DEF HandlerSound

\* create_shortage_decision, refusing: the line whose blocker it cancels is a
\* line of the work order it recomputes, because links are right.
LEMMA RejectShortageSound ==
    ASSUME IInv, IInv', LinksRight, NEW r \in Reports, RejectShortage(r)
    PROVE  HandlerSound
<1> DEFINE p == report[r]
           y == [p EXCEPT !.status = "rejected", !.decision = "reject", !.refused = p.requested]
<1>1. p \in ReportRow /\ p.wo \in WO /\ r # 0
    <2>1. r \in 1..Len(report) /\ Len(report) \in Nat BY TableProps DEF IInv, Reports
    <2> QED BY <2>1, InvRows DEF GoodReport, ReportRow
<1>2. /\ report' = [report EXCEPT ![r] = y] /\ UNCHANGED <<available, legacy, lifecycle>>
      /\ opStatus' = Recomputed(p.wo) /\ p.status = "pending"
    BY DEF RejectShortage, Recompute
<1>3. y.wo = p.wo /\ y.status = "rejected"
    BY <1>1 DEF ReportRow
<1>4. Moved(p, y)
    BY <1>2, <1>3 DEF Moved, ValidShortageTransitions, ReportStatus
<1> HIDE DEF y
<1>5. /\ Advances(report, report')
      /\ \A v : v # p.wo => Waits(report', v) = Waits(report, v)
    BY <1>2, <1>3, <1>4, OneReport
<1>6. /\ Held(line') = Held(line) /\ UnitsIssued(line') = UnitsIssued(line)
      /\ LinksKept(line, line', report')
      /\ \A v : v # p.wo => Waits(line', v) = Waits(line, v)
    <2>1. CASE UNCHANGED line
        BY <2>1, SameLines
    <2>2. ASSUME NEW l \in Lines, IsRelatedLine(l, r),
                 line' = [line EXCEPT ![l].blocker = Cancelled(@)]
          PROVE  /\ Held(line') = Held(line) /\ UnitsIssued(line') = UnitsIssued(line)
                 /\ LinksKept(line, line', report')
                 /\ \A v : v # p.wo => Waits(line', v) = Waits(line, v)
        <3> DEFINE x == line[l]
                   e == [x EXCEPT !.blocker = Cancelled(@)]
        <3>1. x \in GoodLine /\ x.reserved \in Nat /\ x.issued \in Nat
            BY InvRows DEF GoodLine, LineRow
        <3>2. /\ e \in GoodLine /\ e.wo = x.wo /\ e.report = x.report
              /\ e.reserved = x.reserved /\ e.issued = x.issued
            BY <3>1, UnblockedGood DEF GoodLine, LineRow
        <3>3. line' = [line EXCEPT ![l] = e]
            BY <2>2
        <3>4. x.wo = p.wo
            BY <1>1, <2>2 DEF LinksRight, LinkRight, IsRelatedLine
        <3> HIDE DEF e
        <3>5. /\ Held(line') + line[l].reserved = Held(line) + e.reserved
              /\ UnitsIssued(line') + line[l].issued = UnitsIssued(line) + e.issued
              /\ LinksKept(line, line', report')
              /\ \A v : v # e.wo \/ (e.blocker = "open" <=> line[l].blocker = "open")
                          => Waits(line', v) = Waits(line, v)
            BY <3>2, <3>3, OneLine
        <3>6. Held(line') = Held(line) /\ UnitsIssued(line') = UnitsIssued(line)
            BY <3>1, <3>2, <3>5, ReservedSum
        <3>7. \A v : v # p.wo => Waits(line', v) = Waits(line, v)
            BY <3>2, <3>4, <3>5
        <3> QED BY <3>5, <3>6, <3>7
    <2> QED BY <2>1, <2>2 DEF RejectShortage
<1>7. Backed /\ Conserved
    BY <1>2, <1>6, ReservedSum DEF Backed, Conserved
<1>8. StatusFollows
    BY <1>1, <1>2, <1>5, <1>6 DEF StatusFollows, Steady
<1> QED BY <1>5, <1>6, <1>7, <1>8 DEF HandlerSound

\* edit_shortage_decision reserves out of free stock or releases legacy rows.
LEMMA EditShortageSound ==
    ASSUME IInv, IInv', NEW r \in Reports, NEW issue \in 0..MaxQty, NEW procure \in 0..MaxQty,
           EditShortage(r, issue, procure)
    PROVE  HandlerSound
<1> DEFINE p == report[r]
           less == p.issue - issue
           q == IF p.pr # "none" THEN procure ELSE p.prQty
           y == [p EXCEPT !.issue = issue, !.procure = procure,
                          !.refused = Refused(p, issue, procure), !.prQty = q]
           z(l) == [line[l] EXCEPT !.approved = issue]
<1>1. p \in ReportRow /\ p.wo \in WO /\ p.issue \in Nat /\ FreeStock \in Nat /\ issue \in Nat
    BY InvRows, InvTypes, StockTypes, QtyType DEF GoodReport, ReportRow
<1>2. less \in Int
    BY <1>1
<1>3. report' = [report EXCEPT ![r] = y] /\ UNCHANGED <<available, lifecycle, opStatus>>
    BY DEF EditShortage
<1>4. y.wo = p.wo /\ y.status = p.status /\ y.blocker = p.blocker
    <2> HIDE DEF q
    <2> QED BY <1>1 DEF ReportRow
<1>5. Moved(p, y)
    BY <1>4 DEF Moved
<1>6. ASSUME NEW l \in Lines
      PROVE  /\ line[l].reserved \in Nat /\ line[l].wo \in WO
             /\ z(l) \in GoodLine /\ z(l) \in LineRow
             /\ z(l).wo = line[l].wo /\ z(l).report = line[l].report
             /\ z(l).issued = line[l].issued
             /\ z(l).blocker = line[l].blocker /\ z(l).reserved = line[l].reserved
    BY <1>1, InvRows, WithApprovedGood DEF GoodLine, LineRow
<1>7. \/ UNCHANGED line
      \/ \E l \in Lines : line' = [line EXCEPT ![l] = z(l)]
      \/ /\ less < 0
         /\ \E l \in Lines : line' = [line EXCEPT ![l] = AllocateOne(z(l), FreeStock)]
    BY DEF EditShortage
<1>8. legacy' = IF less > 0 /\ legacy[p.wo] >= less
                THEN [legacy EXCEPT ![p.wo] = @ - less]
                ELSE legacy
    BY DEF EditShortage
<1> HIDE DEF y, z
<1>9. ASSUME NEW l \in Lines
      PROVE  /\ AllocateOne(z(l), FreeStock) \in GoodLine
             /\ AllocateOne(z(l), FreeStock).wo = line[l].wo
             /\ AllocateOne(z(l), FreeStock).report = line[l].report
             /\ AllocateOne(z(l), FreeStock).issued = line[l].issued
             /\ AllocateOne(z(l), FreeStock).blocker = line[l].blocker
             /\ AllocateOne(z(l), FreeStock).reserved = line[l].reserved + Grant(z(l), FreeStock)
             /\ Grant(z(l), FreeStock) \in Nat /\ Grant(z(l), FreeStock) <= FreeStock
    <2>1. AllocateOne(z(l), FreeStock) \in GoodLine
        BY <1>1, <1>6, AllocateOneGood
    <2> QED BY <1>1, <1>6, <2>1, AllocatedRow
<1>10. \/ UNCHANGED line
       \/ \E l \in Lines, e \in GoodLine :
            /\ line' = [line EXCEPT ![l] = e]
            /\ e.report = line[l].report /\ e.issued = line[l].issued /\ e.wo = line[l].wo
            /\ e.blocker = line[l].blocker
    BY <1>6, <1>7, <1>9
<1>11. /\ Advances(report, report') /\ LinksKept(line, line', report') /\ Conserved
       /\ StatusFollows
    BY <1>3, <1>4, <1>5, <1>10, ReportAndLine
<1>12. \A w \in WO : legacy'[w] <= legacy[w]
    <2> HIDE DEF less
    <2> QED BY <1>1, <1>2, <1>8 DEF IInv
<1>13. Backed
    <2>1. CASE UNCHANGED line
        BY <1>12, <2>1, SameLines, ReservedSum, NothingGranted
    <2>2. ASSUME NEW l \in Lines, line' = [line EXCEPT ![l] = z(l)] PROVE Backed
        <3>1. Held(line') + line[l].reserved = Held(line) + z(l).reserved
            BY <1>6, <2>2, OneLine
        <3>2. Held(line') <= Held(line)
            BY <1>6, <3>1, ReservedSum
        <3> QED BY <1>12, <3>2, NothingGranted
    <2>3. ASSUME less < 0, NEW l \in Lines,
                 line' = [line EXCEPT ![l] = AllocateOne(z(l), FreeStock)]
          PROVE  Backed
        <3>1. Held(line') + line[l].reserved = Held(line) + AllocateOne(z(l), FreeStock).reserved
            BY <1>9, <2>3, OneLine
        <3>2. Held(line') = Held(line) + Grant(z(l), FreeStock)
            BY <1>6, <1>9, <3>1, ReservedSum
        <3>3. UNCHANGED <<available, legacy>>
            BY <1>2, <1>3, <1>8, <2>3
        <3> QED BY <1>9, <3>2, <3>3, GrantedFromFree
    <2> QED BY <1>7, <2>1, <2>2, <2>3
<1> QED BY <1>11, <1>13 DEF HandlerSound

\* Every line keeps its row but for a reservation that may be released.
LEMMA OnlyReleased ==
    ASSUME IInv, IInv', DOMAIN line' = DOMAIN line,
           \A l \in Lines : \/ line'[l] = line[l]
                            \/ line'[l] = [line[l] EXCEPT !.reserved = 0]
    PROVE  /\ Held(line') <= Held(line) /\ UnitsIssued(line') = UnitsIssued(line)
           /\ LinksKept(line, line', report') /\ \A v : Waits(line', v) = Waits(line, v)
<1>1. line \in Seq(LineRow) /\ line' \in Seq(LineRow)
    BY SeqMonotonic DEF IInv, GoodLine
<1>2. ASSUME NEW l \in DOMAIN line
      PROVE  /\ line'[l].wo = line[l].wo /\ line'[l].report = line[l].report
             /\ line'[l].blocker = line[l].blocker
             /\ line'[l].reserved <= line[l].reserved /\ line'[l].issued = line[l].issued
    <2>1. line[l] \in LineRow BY InvRows DEF GoodLine, Lines
    <2>2. CASE line'[l] = line[l] BY <2>1, <2>2 DEF LineRow
    <2>3. CASE line'[l] = [line[l] EXCEPT !.reserved = 0] BY <2>1, <2>3 DEF LineRow
    <2> QED BY <2>2, <2>3 DEF Lines
<1>3. Held(line') <= Held(line) /\ UnitsIssued(line') = UnitsIssued(line)
    <2>1. \A l \in DOMAIN line :
            line'[l].reserved <= line[l].reserved /\ line'[l].issued = line[l].issued
        BY <1>2
    <2> QED BY <1>1, <2>1, LinesReleased
<1>4. LinksKept(line, line', report')
    BY <1>2 DEF LinksKept
<1>5. \A v : Waits(line', v) = Waits(line, v)
    BY <1>2 DEF Waits
<1> QED BY <1>3, <1>4, <1>5

\* transition_shortage_status to CLOSED only gives stock back.
LEMMA CloseShortageSound ==
    ASSUME IInv, IInv', NEW r \in Reports, CloseShortage(r)
    PROVE  HandlerSound
<1> DEFINE p == report[r]
           y == [p EXCEPT !.status = "closed", !.pr = IF @ = "pending" THEN "cancelled" ELSE @,
                          !.blocker = Resolved(@)]
<1>1. p \in ReportRow /\ p.wo \in WO
    BY InvRows DEF GoodReport, ReportRow
<1>2. /\ report' = [report EXCEPT ![r] = y] /\ UNCHANGED <<available, lifecycle>>
      /\ legacy' = [legacy EXCEPT ![p.wo] = 0]
      /\ "closed" \in ValidShortageTransitions[p.status]
      /\ opStatus' = IF p.blocker = "open" THEN Recomputed(p.wo) ELSE opStatus
    BY DEF CloseShortage
<1>3. y.wo = p.wo /\ y.status = "closed" /\ (p.blocker # "open" => y.blocker = p.blocker)
    BY <1>1 DEF ReportRow, Resolved
<1>4. Moved(p, y)
    BY <1>2, <1>3 DEF Moved
<1> HIDE DEF y
<1>5. /\ Advances(report, report')
      /\ \A v : v # y.wo \/ (y.blocker = "open" <=> report[r].blocker = "open")
                  => Waits(report', v) = Waits(report, v)
    BY <1>2, <1>4, OneReport
<1>6. /\ Held(line') <= Held(line) /\ UnitsIssued(line') = UnitsIssued(line)
      /\ LinksKept(line, line', report') /\ \A v : Waits(line', v) = Waits(line, v)
    <2>1. /\ DOMAIN line' = DOMAIN line
          /\ \A l \in Lines : \/ line'[l] = line[l]
                              \/ line'[l] = [line[l] EXCEPT !.reserved = 0]
        BY DEF CloseShortage, Lines
    <2> QED BY <2>1, OnlyReleased
<1>7. \A w \in WO : legacy'[w] <= legacy[w]
    BY <1>1, <1>2 DEF IInv
<1>8. Backed /\ Conserved
    BY <1>2, <1>6, <1>7, NothingGranted DEF Conserved
<1>9. StatusFollows
    <2>1. CASE p.blocker = "open"
        BY <1>1, <1>2, <1>3, <1>5, <1>6, <2>1 DEF StatusFollows, Steady
    <2>2. CASE p.blocker # "open"
        BY <1>2, <1>3, <1>5, <1>6, <2>2 DEF StatusFollows, Steady
    <2> QED BY <2>1, <2>2
<1> QED BY <1>5, <1>6, <1>8, <1>9 DEF HandlerSound

\* A handler that moves a report and touches no line and no stock.
LEMMA ReportOnly ==
    ASSUME IInv, IInv', NEW r \in Reports, NEW p, report' = [report EXCEPT ![r] = p],
           Moved(report[r], p), UNCHANGED <<available, legacy, line, lifecycle>>,
           \/ opStatus' = Recomputed(report[r].wo)
           \/ opStatus' = opStatus /\ p.blocker = report[r].blocker
    PROVE  HandlerSound
<1>1. /\ Advances(report, report') /\ LinksKept(line, line', report') /\ Conserved
      /\ StatusFollows
    BY ReportAndLine
<1>2. Backed
    BY SameLines, ReservedSum DEF Backed
<1> QED BY <1>1, <1>2 DEF HandlerSound

\* transition_shortage_status to BLOCKED.
LEMMA BlockShortageSound ==
    ASSUME IInv, IInv', NEW r \in Reports, BlockShortage(r)
    PROVE  HandlerSound
<1> DEFINE p == report[r]
           y == [p EXCEPT !.status = "blocked"]
<1>1. p \in ReportRow
    BY InvRows DEF GoodReport
<1>2. /\ report' = [report EXCEPT ![r] = y]
      /\ UNCHANGED <<available, legacy, line, lifecycle, opStatus>>
      /\ "blocked" \in ValidShortageTransitions[p.status]
    BY DEF BlockShortage
<1>3. y.wo = p.wo /\ y.status = "blocked" /\ y.blocker = p.blocker
    BY <1>1 DEF ReportRow
<1>4. Moved(p, y)
    BY <1>2, <1>3 DEF Moved
<1> HIDE DEF y
<1> QED BY <1>2, <1>3, <1>4, ReportOnly

\* mark_shortage_fulfilled.
LEMMA MarkFulfilledSound ==
    ASSUME IInv, IInv', NEW r \in Reports, MarkFulfilled(r)
    PROVE  HandlerSound
<1> DEFINE p == report[r]
           y == Fulfilled(p)
<1>1. p \in ReportRow
    BY InvRows DEF GoodReport
<1>2. /\ report' = [report EXCEPT ![r] = y]
      /\ UNCHANGED <<available, legacy, line, lifecycle>>
      /\ p.status = "in_fulfillment"
      /\ opStatus' = IF p.blocker = "open" THEN Recomputed(p.wo) ELSE opStatus
    BY DEF MarkFulfilled, CanBeFulfilled
<1>3. y.wo = p.wo /\ y.status = "fulfilled" /\ (p.blocker # "open" => y.blocker = p.blocker)
    BY <1>1 DEF ReportRow, Fulfilled, Resolved
<1>4. Moved(p, y)
    BY <1>2, <1>3 DEF Moved, ValidShortageTransitions, ReportStatus
<1> HIDE DEF y
<1> QED BY <1>2, <1>3, <1>4, ReportOnly

\* The manager's decisions on a report.
LEMMA ShortageDecisionSound ==
    ASSUME IInv, IInv', LinksRight, ShortageDecision
    PROVE  HandlerSound
BY ApproveShortageSound, RejectShortageSound, EditShortageSound, CloseShortageSound,
   BlockShortageSound, MarkFulfilledSound DEF ShortageDecision

\* The report half of repair_part_lines.
LEMMA RepairReportSound ==
    ASSUME IInv, IInv', NEW r \in Reports, RepairReport(r)
    PROVE  HandlerSound
<1> DEFINE p == report[r]
           b == IF p.qtyIssued >= p.issue THEN Resolved(p.blocker) ELSE p.blocker
           y == [[p EXCEPT !.status = "in_fulfillment"] EXCEPT !.blocker = b]
<1>1. p \in ReportRow
    BY InvRows DEF GoodReport
<1>2. /\ report' = [report EXCEPT ![r] = y]
      /\ UNCHANGED <<available, legacy, line, lifecycle>>
      /\ p.status = "approved" /\ opStatus' = Recomputed(p.wo)
    BY <1>1 DEF RepairReport, Recompute, ReportRow
<1>3. y.wo = p.wo /\ y.status = "in_fulfillment"
    <2> HIDE DEF b
    <2> QED BY <1>1 DEF ReportRow
<1>4. Moved(p, y)
    BY <1>2, <1>3 DEF Moved, ValidShortageTransitions, ReportStatus
<1> HIDE DEF y
<1> QED BY <1>2, <1>4, ReportOnly

\* execute_warehouse_issue puts on the line what it takes off the shelf, and
\* starts the fulfilment of a report only where the table allows it.
LEMMA ExecuteIssueSound ==
    ASSUME IInv, IInv', NEW l \in Lines, NEW q \in Nat, ExecuteIssue(l, q)
    PROVE  HandlerSound
<1> DEFINE x == line[l]
           own == MinOf(x.reserved, q)
           fromLegacy == MinOf(legacy[x.wo], q - own)
           e == IssuedLine(x, q, own)
           y == IssuedAgainst(report[x.report], q, x.issued = 0)
<1>1. x \in GoodLine /\ x \in LineRow /\ x.wo \in WO /\ x.reserved \in Nat /\ x.issued \in Nat
    BY InvRows DEF GoodLine, LineRow
<1>2. own \in Nat /\ own <= x.reserved /\ own <= q
    BY <1>1 DEF MinOf
<1>3. fromLegacy \in Nat
    BY <1>1, <1>2 DEF MinOf, IInv
<1>4. /\ e \in GoodLine /\ e.wo = x.wo /\ e.report = x.report
      /\ e.issued = x.issued + q /\ e.reserved = x.reserved - own
    <2> HIDE DEF own
    <2> QED BY <1>1, <1>2, IssuedLineGood DEF IssuedLine, LineRow
<1>5. /\ available' = available - q
      /\ legacy' = [legacy EXCEPT ![x.wo] = @ - fromLegacy]
      /\ line' = [line EXCEPT ![l] = e]
      /\ report' = IF x.report \in DOMAIN report
                   THEN [report EXCEPT ![x.report] = y]
                   ELSE report
      /\ UNCHANGED lifecycle
      /\ opStatus' = Recomputed(x.wo)
    BY DEF ExecuteIssue, IssueFrom, Db, Recompute
<1>6. ASSUME x.report \in DOMAIN report
      PROVE  Moved(report[x.report], y) /\ y.blocker = report[x.report].blocker
    <2>1. report[x.report] \in ReportRow
        BY <1>6, InvRows DEF Reports, GoodReport
    <2> QED BY <2>1 DEF IssuedAgainst, ReportRow, Moved
<1> HIDE DEF own, fromLegacy, e, y
<1>7. Advances(report, report') /\ \A v : Waits(report', v) = Waits(report, v)
    <2>1. CASE x.report \in DOMAIN report
        <3>1. x.report \in Reports /\ report' = [report EXCEPT ![x.report] = y]
            BY <1>5, <2>1 DEF Reports
        <3>2. /\ Advances(report, report')
              /\ \A v : v # y.wo \/ (y.blocker = "open" <=> report[x.report].blocker = "open")
                          => Waits(report', v) = Waits(report, v)
            BY <1>6, <2>1, <3>1, OneReport
        <3> QED BY <1>6, <2>1, <3>2
    <2>2. CASE x.report \notin DOMAIN report
        BY <1>5, <2>2, SameReports
    <2> QED BY <2>1, <2>2
<1>8. /\ Held(line') + line[l].reserved = Held(line) + e.reserved
      /\ UnitsIssued(line') + line[l].issued = UnitsIssued(line) + e.issued
      /\ LinksKept(line, line', report')
      /\ \A v : v # e.wo \/ (e.blocker = "open" <=> line[l].blocker = "open")
                  => Waits(line', v) = Waits(line, v)
    BY <1>4, <1>5, OneLine
<1>9. Held(line') <= Held(line)
    BY <1>1, <1>2, <1>4, <1>8, ReservedSum
<1>10. \A w \in WO : legacy'[w] <= legacy[w]
    BY <1>1, <1>3, <1>5 DEF IInv
<1>11. Backed
    BY <1>9, <1>10, NothingGranted
<1>12. Conserved
    <2>1. available' + UnitsIssued(line') = available + UnitsIssued(line)
        BY <1>1, <1>4, <1>5, <1>8, ReservedSum
    <2> QED BY <2>1 DEF Conserved
<1>13. StatusFollows
    BY <1>1, <1>4, <1>5, <1>7, <1>8 DEF StatusFollows, Steady
<1> QED BY <1>7, <1>8, <1>11, <1>12, <1>13 DEF HandlerSound

\* The warehouse and the maintenance commands.
LEMMA WarehouseSound ==
    ASSUME IInv, IInv', Warehouse
    PROVE  HandlerSound
<1>1. ASSUME NEW l \in Lines, RepairLine(l) PROVE HandlerSound
    <2>1. line[l].quantity \in Nat BY InvRows DEF GoodLine, LineRow
    <2> QED BY <1>1, <2>1, ExecuteIssueSound DEF RepairLine
<1>2. ASSUME NEW l \in Lines, NEW q \in Qty, WarehouseIssue(l, q) PROVE HandlerSound
    BY <1>2, QtyType, ExecuteIssueSound DEF WarehouseIssue
<1>3. ASSUME NEW w \in WO, ReconcileLegacy(w) PROVE HandlerSound
    <2>1. /\ UNCHANGED <<available, line, report, lifecycle, opStatus>>
          /\ \A v \in WO : legacy'[v] <= legacy[v]
        BY <1>3 DEF ReconcileLegacy, IInv
    <2>2. Backed
        BY <2>1, SameLines, ReservedSum, NothingGranted
    <2>3. StatusFollows
        BY <2>1, SameLines, SameReports DEF StatusFollows, Steady
    <2> QED BY <2>1, <2>2, <2>3, SameLines, SameReports DEF HandlerSound, Conserved
<1> QED BY <1>1, <1>2, <1>3, RepairReportSound DEF Warehouse

\* transition_work_order recomputes the work order it moves and releases what
\* its lines no longer need.
LEMMA WorkOrdersSound ==
    ASSUME IInv, IInv', WorkOrders
    PROVE  HandlerSound
<1> SUFFICES ASSUME NEW w \in WO, NEW to \in Lifecycle, TransitionWorkOrder(w, to)
             PROVE  HandlerSound
    BY DEF WorkOrders
<1>1. /\ UNCHANGED <<available, report>> /\ opStatus' = Recomputed(w)
      /\ \A v \in WO \ {w} : lifecycle'[v] = lifecycle[v]
    BY DEF TransitionWorkOrder, Recompute, IInv
<1>2. /\ Held(line') <= Held(line) /\ UnitsIssued(line') = UnitsIssued(line)
      /\ LinksKept(line, line', report') /\ \A v : Waits(line', v) = Waits(line, v)
    <2>1. /\ DOMAIN line' = DOMAIN line
          /\ \A l \in Lines : \/ line'[l] = line[l]
                              \/ line'[l] = [line[l] EXCEPT !.reserved = 0]
        BY DEF TransitionWorkOrder, ReleaseStale, Lines
    <2> QED BY <2>1, OnlyReleased
<1>3. \A v \in WO : legacy'[v] <= legacy[v]
    <2>1. legacy \in [WO -> Nat]
        BY DEF IInv
    <2>2. legacy' = [legacy EXCEPT ![w] = 0] \/ legacy' = legacy
        BY DEF TransitionWorkOrder
    <2> QED BY <2>1, <2>2
<1>4. Backed /\ Conserved
    BY <1>1, <1>2, <1>3, NothingGranted DEF Conserved
<1>5. StatusFollows
    BY <1>1, <1>2, SameReports DEF StatusFollows, Steady
<1> QED BY <1>1, <1>2, <1>4, <1>5, SameReports DEF HandlerSound

\* Every step is sound in this sense, wherever the links are right.
LEMMA NextSound ==
    ASSUME IInv, LinksRight, [Next]_vars
    PROVE  HandlerSound
<1>1. IInv' BY NextInv
<1>2. CASE UNCHANGED vars
    <2>1. UNCHANGED <<available, legacy, line, report, lifecycle, opStatus>>
        BY <1>2 DEF vars
    <2>2. Advances(report, report') /\ LinksKept(line, line', report') /\ Conserved
        BY <2>1, SameLines, SameReports DEF Conserved
    <2>3. Backed
        BY <1>1, <2>1, ReservedSum DEF Backed
    <2>4. StatusFollows
        BY <2>1, SameLines, SameReports DEF StatusFollows, Steady
    <2> QED BY <2>2, <2>3, <2>4 DEF HandlerSound
<1>3. CASE Next
    BY <1>1, <1>3, StockSound, TechnicianSound, LineDecisionSound, ShortageDecisionSound,
       WarehouseSound, WorkOrdersSound DEF Next
<1> QED BY <1>2, <1>3

-------------------------------------------------------------------------------
(***************************************************************************)
(* Links and operational status.                                           *)
(***************************************************************************)
\* A work order waits for parts exactly when a row with an open blocker is its own.
LEMMA WaitsAwaits ==
    ASSUME NEW w, NEW lines, NEW reports
    PROVE  AwaitsParts(w, lines, reports) <=> Waits(lines, w) # {} \/ Waits(reports, w) # {}
BY DEF AwaitsParts, Waits

\* The status of a work order is derived from nothing else.
LEMMA SteadyStatus ==
    ASSUME NEW v \in WO, Steady(v)
    PROVE  DerivedStatus(v, lifecycle', line', report') = DerivedStatus(v, lifecycle, line, report)
<1>1. AwaitsParts(v, line', report') <=> AwaitsParts(v, line, report)
    BY WaitsAwaits DEF Steady
<1>2. lifecycle'[v] = lifecycle[v]
    BY DEF Steady
<1>3. CASE AwaitsParts(v, line, report)
    BY <1>1, <1>3 DEF DerivedStatus
<1>4. CASE ~AwaitsParts(v, line, report)
    BY <1>1, <1>2, <1>4 DEF DerivedStatus
<1> QED BY <1>3, <1>4

\* The status is right after every step if it was before.
LEMMA StatusKept ==
    ASSUME IInv, StatusFollows, StatusMatchesBlockers
    PROVE  StatusMatchesBlockers'
<1> SUFFICES ASSUME NEW v \in WO, lifecycle'[v] # "closed"
             PROVE  opStatus'[v] = DerivedStatus(v, lifecycle', line', report')
    BY DEF StatusMatchesBlockers
<1>1. ASSUME Steady(v), opStatus'[v] = opStatus[v]
      PROVE  opStatus'[v] = DerivedStatus(v, lifecycle', line', report')
    <2>1. lifecycle[v] # "closed"
        BY <1>1 DEF Steady
    <2>2. opStatus[v] = DerivedStatus(v, lifecycle, line, report)
        BY <2>1 DEF StatusMatchesBlockers
    <2> QED BY <1>1, <2>2, SteadyStatus
<1>2. CASE opStatus' = opStatus /\ \A u \in WO : Steady(u)
    BY <1>1, <1>2
<1>3. ASSUME NEW w \in WO, opStatus' = Recomputed(w), \A u \in WO \ {w} : Steady(u)
      PROVE  opStatus'[v] = DerivedStatus(v, lifecycle', line', report')
    <2>1. CASE v = w
        BY <1>3, <2>1 DEF Recomputed, IInv
    <2>2. CASE v # w
        <3>1. opStatus'[v] = opStatus[v]
            BY <1>3, <2>2 DEF Recomputed, IInv
        <3> QED BY <1>1, <1>3, <2>2, <3>1
    <2> QED BY <2>1, <2>2
<1> QED BY <1>2, <1>3 DEF StatusFollows

\* Links stay right: reports keep their work order and never disappear.
LEMMA LinksStay ==
    ASSUME LinksRight, Advances(report, report'), LinksKept(line, line', report')
    PROVE  LinksRight'
<1> SUFFICES ASSUME NEW l \in DOMAIN line' PROVE LinkRight(line'[l], report')
    BY DEF LinksRight, Lines
<1>1. CASE LinkRight(line'[l], report')
    BY <1>1
<1>2. CASE /\ l \in DOMAIN line
           /\ line'[l].wo = line[l].wo /\ line'[l].report = line[l].report
    <2>1. LinkRight(line[l], report)
        BY <1>2 DEF LinksRight, Lines
    <2> QED BY <1>2, <2>1 DEF LinkRight, Advances, Moved
<1> QED BY <1>1, <1>2 DEF LinksKept

\* The inductive invariant of the status: the rows are sound, the links right,
\* and the stored status is the derived one.
StatusIInv == IInv /\ LinksRight /\ StatusMatchesBlockers

\* Nobody waits for parts at the start.
LEMMA StatusInit == Init => StatusIInv
<1> SUFFICES ASSUME Init PROVE StatusIInv
    OBVIOUS
<1>1. Lines = {} /\ Reports = {}
    BY DEF Init, Lines, Reports
<1>2. LinksRight
    BY <1>1 DEF LinksRight
<1>3. ASSUME NEW w \in WO PROVE opStatus[w] = DerivedStatus(w, lifecycle, line, report)
    <2>1. ~AwaitsParts(w, line, report)
        BY <1>1 DEF AwaitsParts, Lines, Reports
    <2>2. lifecycle[w] = "assigned" /\ opStatus[w] = "paused"
        BY DEF Init
    <2> QED BY <2>1, <2>2 DEF DerivedStatus
<1> QED BY <1>2, <1>3, InitInv DEF StatusIInv, StatusMatchesBlockers

\* Every handler leaves the links right and the stored status the derived one.
THEOREM StatusInvariance == Spec => []StatusIInv
<1>1. StatusIInv /\ [Next]_vars => StatusIInv'
    <2> SUFFICES ASSUME IInv, LinksRight, StatusMatchesBlockers, [Next]_vars PROVE StatusIInv'
        BY DEF StatusIInv
    <2>1. HandlerSound /\ IInv'
        BY NextSound, NextInv
    <2>2. LinksRight' BY <2>1, LinksStay DEF HandlerSound
    <2>3. StatusMatchesBlockers' BY <2>1, StatusKept DEF HandlerSound
    <2> QED BY <2>1, <2>2, <2>3 DEF StatusIInv
<1> QED BY StatusInit, <1>1, PTL DEF Spec

\* The operational status on screen is the one the open blockers imply, in every
\* state, for any number of work orders, lines and reports.
THEOREM StatusIsCurrent == Spec => []StatusMatchesBlockers
BY StatusInvariance, PTL DEF StatusIInv

\* The actions of the properties below.
FollowsTable ==
    \A r \in Reports :
         report'[r].status = report[r].status
         \/ report'[r].status \in ValidShortageTransitions[report[r].status]

\* Every status change of a report is an edge of the transition table, whichever
\* handler makes it.
THEOREM ReportsFollowTable == Spec => ShortageFollowsTable
<1>1. StatusIInv /\ [Next]_vars => FollowsTable
    BY NextSound DEF StatusIInv, HandlerSound, Advances, Moved, FollowsTable, Reports
<1>2. ShortageFollowsTable <=> [][FollowsTable]_vars
    BY PTL DEF ShortageFollowsTable, FollowsTable
<1> QED BY <1>1, <1>2, StatusInvariance, PTL DEF Spec

\* allocate_one never reserves stock that somebody else holds.
THEOREM AllocationsAreBacked == Spec => AllocationIsBacked
<1>1. StatusIInv /\ [Next]_vars => Backed
    BY NextSound DEF StatusIInv, HandlerSound
<1>2. AllocationIsBacked <=> [][Backed]_vars
    BY PTL DEF AllocationIsBacked, Backed
<1> QED BY <1>1, <1>2, StatusInvariance, PTL DEF Spec

\* Requests, decisions and issues neither create nor lose units.
THEOREM UnitsAreConserved == Spec => UnitsConserved
<1>1. StatusIInv /\ [Next]_vars => Conserved
    BY NextSound DEF StatusIInv, HandlerSound
<1>2. UnitsConserved <=> [][Conserved]_vars
    BY PTL DEF UnitsConserved, Conserved
<1> QED BY <1>1, <1>2, StatusInvariance, PTL DEF Spec
===============================================================================

--------------------------- MODULE ProcurementProofs --------------------------
(***************************************************************************)
(* Theorems about procurement and the pipeline it feeds, for any number of *)
(* work orders, rows, orders and units.                                    *)
(***************************************************************************)
EXTENDS Procurement, PartPipelineProofs

-------------------------------------------------------------------------------
(***************************************************************************)
(* Walks through a table, row by row.                                      *)
(***************************************************************************)
\* What holds before the first row and is carried over every row holds throughout.
LEMMA RowByRow ==
    ASSUME NEW n \in Nat, NEW S, 0 \in S, \A k \in 1..n : k - 1 \in S => k \in S
    PROVE  0..n \subseteq S
<1> SUFFICES ASSUME NEW m \in 0..n, m \notin S PROVE FALSE
    OBVIOUS
<1> DEFINE T == {k \in 0..n : k \notin S}
<1>1. T \in SUBSET Nat /\ T # {}
    OBVIOUS
<1>2. PICK k \in T : \A j \in T : k <= j
    <2> HIDE DEF T
    <2> QED BY <1>1, Smallest
<1>3. k \in 1..n /\ k - 1 \in 0..n
    BY <1>2
<1>4. k - 1 \in S
    <2>1. ~ (k <= k - 1)
        BY <1>3
    <2> QED BY <1>2, <1>3, <2>1
<1> QED BY <1>2, <1>3, <1>4

\* The value after k rows of a walk that starts from db.
Served(db, W, n, f) ==
    f = [l \in 0..n |->
           IF l = 0 THEN db
           ELSE IF line[l].status \in ActiveStatus /\ line[l].wo \in W
                THEN AllocateNext(f[l - 1], l)
                ELSE f[l - 1]]

ServedNext(db, W, l) ==
    IF line[l].status \in ActiveStatus /\ line[l].wo \in W THEN AllocateNext(db, l) ELSE db

LEMMA ServedSteps ==
    ASSUME NEW db, NEW W, NEW n \in Nat, NEW f
    PROVE  Served(db, W, n, f) <=>
             f = [k \in 0..n |-> IF k = 0 THEN db ELSE ServedNext(f[k - 1], W, k)]
<1>1. \A k \in 0..n :
        (IF k = 0 THEN db
         ELSE IF line[k].status \in ActiveStatus /\ line[k].wo \in W
              THEN AllocateNext(f[k - 1], k)
              ELSE f[k - 1])
          = IF k = 0 THEN db ELSE ServedNext(f[k - 1], W, k)
    BY DEF ServedNext
<1> QED BY <1>1 DEF Served

\* Each step of the walk follows from the one before.
LEMMA ServedOnward ==
    ASSUME NEW db, NEW W, NEW n \in Nat, NEW f, Served(db, W, n, f)
    PROVE  f[0] = db /\ \A k \in 1..n : f[k] = ServedNext(f[k - 1], W, k)
<1> DEFINE g == [k \in 0..n |-> IF k = 0 THEN db ELSE ServedNext(f[k - 1], W, k)]
<1>1. f = g BY ServedSteps
<1>2. g[0] = db /\ \A k \in 1..n : g[k] = ServedNext(f[k - 1], W, k)
    OBVIOUS
<1> HIDE DEF g
<1> QED BY <1>1, <1>2

\* The walk exists.
LEMMA ServedExists ==
    ASSUME NEW db, NEW W, NEW n \in Nat
    PROVE  \E f : Served(db, W, n, f)
<1> DEFINE S == {k \in 0..n : \E f : Served(db, W, k, f)}
<1>1. 0 \in S
    <2> DEFINE g == [k \in 0..0 |-> db]
    <2>1. g = [k \in 0..0 |-> IF k = 0 THEN db ELSE ServedNext(g[k - 1], W, k)]
        OBVIOUS
    <2>2. Served(db, W, 0, g)
        <3> HIDE DEF g
        <3> QED BY <2>1, ServedSteps
    <2> QED BY <2>2
<1>2. ASSUME NEW k \in 1..n, k - 1 \in S PROVE k \in S
    <2>0. k - 1 \in Nat OBVIOUS
    <2>1. PICK f : Served(db, W, k - 1, f)
        BY <1>2
    <2> DEFINE e == ServedNext(f[k - 1], W, k)
               g == [j \in 0..k |-> IF j = k THEN e ELSE f[j]]
    <2>2. \A j \in 1..k : g[j - 1] = f[j - 1]
        OBVIOUS
    <2>3. f[0] = db /\ \A j \in 1..(k - 1) : f[j] = ServedNext(f[j - 1], W, j)
        BY <2>0, <2>1, ServedOnward
    <2>4. g[0] = db /\ g[k] = e /\ \A j \in 1..(k - 1) : g[j] = f[j]
        BY <2>3
    <2>5. g = [j \in 0..k |-> g[j]]
        OBVIOUS
    <2> HIDE DEF g
    <2>6. \A j \in 0..k : g[j] = IF j = 0 THEN db ELSE ServedNext(g[j - 1], W, j)
        BY <2>2, <2>3, <2>4
    <2>7. g = [j \in 0..k |-> IF j = 0 THEN db ELSE ServedNext(g[j - 1], W, j)]
        BY <2>5, <2>6
    <2>8. Served(db, W, k, g)
        BY <2>7, ServedSteps
    <2> QED BY <2>8
<1> HIDE DEF S
<1>3. 0..n \subseteq S
    BY <1>1, <1>2, RowByRow
<1> QED BY <1>3 DEF S

\* Taking turns is such a walk.
LEMMA InTurnServed ==
    ASSUME NEW db, NEW W, Len(line) \in Nat
    PROVE  \E f : Served(db, W, Len(line), f) /\ InTurn(db, W) = f[Len(line)]
<1> DEFINE F == CHOOSE f : Served(db, W, Len(line), f)
<1>1. Served(db, W, Len(line), F)
    BY ServedExists
<1>2. InTurn(db, W) = F[Len(line)]
    BY DEF InTurn, Served
<1> QED BY <1>1, <1>2

\* The value after k linked requests of a walk that starts from db.
Filled(db, o, total, n, f) ==
    f = [k \in 0..n |->
           LET r == Len(report) + 1 - k
           IN  IF k = 0 THEN db
               ELSE IF r \in LinkedTo(o) THEN AutoFulfil(f[k - 1], report[r].wo, total)
                    ELSE f[k - 1]]

FilledNext(db, o, total, k) ==
    LET r == Len(report) + 1 - k
    IN  IF r \in LinkedTo(o) THEN AutoFulfil(db, report[r].wo, total) ELSE db

LEMMA FilledSteps ==
    ASSUME NEW db, NEW o, NEW total, NEW n \in Nat, NEW f
    PROVE  Filled(db, o, total, n, f) <=>
             f = [k \in 0..n |-> IF k = 0 THEN db ELSE FilledNext(f[k - 1], o, total, k)]
<1>1. \A k \in 0..n :
        (LET r == Len(report) + 1 - k
         IN  IF k = 0 THEN db
             ELSE IF r \in LinkedTo(o) THEN AutoFulfil(f[k - 1], report[r].wo, total)
                  ELSE f[k - 1])
          = IF k = 0 THEN db ELSE FilledNext(f[k - 1], o, total, k)
    BY DEF FilledNext
<1> QED BY <1>1 DEF Filled

FilledInSteps(db, o, total, n, f) ==
    f[0] = db /\ \A k \in 1..n : f[k] = FilledNext(f[k - 1], o, total, k)

\* Each step of the walk follows from the one before.
LEMMA FilledOnward ==
    ASSUME NEW db, NEW o, NEW total, NEW n \in Nat, NEW f, Filled(db, o, total, n, f)
    PROVE  FilledInSteps(db, o, total, n, f)
<1> DEFINE g == [k \in 0..n |-> IF k = 0 THEN db ELSE FilledNext(f[k - 1], o, total, k)]
<1>1. f = g BY FilledSteps
<1>2. g[0] = db /\ \A k \in 1..n : g[k] = FilledNext(f[k - 1], o, total, k)
    OBVIOUS
<1> HIDE DEF g
<1> QED BY <1>1, <1>2 DEF FilledInSteps

\* The walk exists.
LEMMA FilledExists ==
    ASSUME NEW db, NEW o, NEW total, NEW n \in Nat
    PROVE  \E f : Filled(db, o, total, n, f)
<1> DEFINE S == {k \in 0..n : \E f : Filled(db, o, total, k, f)}
<1>1. 0 \in S
    <2> DEFINE g == [k \in 0..0 |-> db]
    <2>1. g = [k \in 0..0 |-> IF k = 0 THEN db ELSE FilledNext(g[k - 1], o, total, k)]
        OBVIOUS
    <2>2. Filled(db, o, total, 0, g)
        <3> HIDE DEF g
        <3> QED BY <2>1, FilledSteps
    <2> QED BY <2>2
<1>2. ASSUME NEW k \in 1..n, k - 1 \in S PROVE k \in S
    <2>0. k - 1 \in Nat OBVIOUS
    <2>1. PICK f : Filled(db, o, total, k - 1, f)
        BY <1>2
    <2> DEFINE e == FilledNext(f[k - 1], o, total, k)
               g == [j \in 0..k |-> IF j = k THEN e ELSE f[j]]
    <2>2. \A j \in 1..k : g[j - 1] = f[j - 1]
        OBVIOUS
    <2>3. f[0] = db /\ \A j \in 1..(k - 1) : f[j] = FilledNext(f[j - 1], o, total, j)
        BY <2>0, <2>1, FilledOnward DEF FilledInSteps
    <2>4. g[0] = db /\ g[k] = e /\ \A j \in 1..(k - 1) : g[j] = f[j]
        BY <2>3
    <2>5. g = [j \in 0..k |-> g[j]]
        OBVIOUS
    <2> HIDE DEF g
    <2>6. \A j \in 0..k : g[j] = IF j = 0 THEN db ELSE FilledNext(g[j - 1], o, total, j)
        BY <2>2, <2>3, <2>4
    <2>7. g = [j \in 0..k |-> IF j = 0 THEN db ELSE FilledNext(g[j - 1], o, total, j)]
        BY <2>5, <2>6
    <2>8. Filled(db, o, total, k, g)
        BY <2>7, FilledSteps
    <2> QED BY <2>8
<1> HIDE DEF S
<1>3. 0..n \subseteq S
    BY <1>1, <1>2, RowByRow
<1> QED BY <1>3 DEF S

\* Serving the linked requests is such a walk.
LEMMA IssueLinkedFilled ==
    ASSUME NEW db, NEW o, NEW total, Len(report) \in Nat
    PROVE  \E f : Filled(db, o, total, Len(report), f) /\ IssueLinked(db, o, total) = f[Len(report)]
<1> DEFINE F == CHOOSE f : Filled(db, o, total, Len(report), f)
<1>1. Filled(db, o, total, Len(report), F)
    BY FilledExists
<1>2. IssueLinked(db, o, total) = F[Len(report)]
    BY DEF IssueLinked, Filled
<1> QED BY <1>1, <1>2

-------------------------------------------------------------------------------
(***************************************************************************)
(* What a receipt does to the tables of the pipeline.                      *)
(***************************************************************************)
GoodDb == [available: Nat, legacy: [WO -> Nat], line: Seq(GoodLine), report: Seq(GoodReport)]

\* From d to e lines keep their work order and report, are issued more or keep
\* their blocker, and units move from the shelf to lines.
Carries(d, e) ==
    /\ e \in GoodDb
    /\ DOMAIN e.line = DOMAIN d.line /\ DOMAIN e.report = DOMAIN d.report
    /\ \A l \in DOMAIN d.line :
         /\ e.line[l].wo = d.line[l].wo /\ e.line[l].report = d.line[l].report
         /\ e.line[l].issued >= d.line[l].issued
         /\ e.line[l].issued = d.line[l].issued => e.line[l].blocker = d.line[l].blocker
    /\ \A r \in DOMAIN d.report : e.report[r].wo = d.report[r].wo
    /\ e.available + UnitsIssued(e.line) = d.available + UnitsIssued(d.line)

\* An issue leaves what was granted to the lines alone.
SameGrants(d, e) ==
    \A l \in DOMAIN d.line : e.line[l].allocated = d.line[l].allocated

Issues(d, e) == Carries(d, e) /\ SameGrants(d, e)

\* What the provers need to know of such tables.
LEMMA DbRows ==
    ASSUME NEW d \in GoodDb
    PROVE  /\ d.available \in Nat /\ d.legacy \in [WO -> Nat]
           /\ d.line \in Seq(GoodLine) /\ d.line \in Seq(LineRow)
           /\ d.report \in Seq(GoodReport)
           /\ \A l \in DOMAIN d.line : d.line[l] \in GoodLine /\ d.line[l] \in LineRow
           /\ \A r \in DOMAIN d.report : d.report[r] \in GoodReport /\ d.report[r] \in ReportRow
           /\ UnitsIssued(d.line) \in Nat /\ Held(d.line) \in Nat
<1>1. /\ d.available \in Nat /\ d.legacy \in [WO -> Nat]
      /\ d.line \in Seq(GoodLine) /\ d.report \in Seq(GoodReport)
    BY DEF GoodDb
<1>2. d.line \in Seq(LineRow)
    BY <1>1, SeqMonotonic DEF GoodLine
<1>3. \A l \in DOMAIN d.line : d.line[l] \in GoodLine /\ d.line[l] \in LineRow
    BY <1>1, <1>2, TableProps
<1>4. \A r \in DOMAIN d.report : d.report[r] \in GoodReport /\ d.report[r] \in ReportRow
    BY <1>1, TableProps DEF GoodReport
<1>5. UnitsIssued(d.line) \in Nat /\ Held(d.line) \in Nat
    BY <1>2, Columns
<1> QED BY <1>1, <1>2, <1>3, <1>4, <1>5

LEMMA CarriesSelf ==
    ASSUME NEW d \in GoodDb
    PROVE  Carries(d, d)
BY DbRows DEF Carries, LineRow

LEMMA CarriesOn ==
    ASSUME NEW c \in GoodDb, NEW d, NEW e, Carries(c, d), Carries(d, e)
    PROVE  Carries(c, e)
<1>1. d \in GoodDb /\ e \in GoodDb
    BY DEF Carries
<1>2. \A l \in DOMAIN c.line : /\ c.line[l].issued \in Nat
                               /\ d.line[l].issued \in Nat
                               /\ e.line[l].issued \in Nat
    <2>1. \A l \in DOMAIN c.line : c.line[l] \in LineRow /\ d.line[l] \in LineRow /\ e.line[l] \in LineRow
        BY <1>1, DbRows DEF Carries
    <2> QED BY <2>1 DEF LineRow
<1> QED BY <1>1, <1>2 DEF Carries

LEMMA IssuesSelf ==
    ASSUME NEW d \in GoodDb
    PROVE  Issues(d, d)
BY CarriesSelf DEF Issues, SameGrants

LEMMA IssuesOn ==
    ASSUME NEW c \in GoodDb, NEW d, NEW e, Issues(c, d), Issues(d, e)
    PROVE  Issues(c, e)
<1>1. Carries(c, e)
    BY CarriesOn DEF Issues
<1>2. SameGrants(c, e)
    BY DEF Issues, SameGrants, Carries
<1> QED BY <1>1, <1>2 DEF Issues

\* allocate_one for one line of the queue.
LEMMA AllocateNextCarries ==
    ASSUME NEW d \in GoodDb, NEW l \in DOMAIN d.line
    PROVE  Carries(d, AllocateNext(d, l))
<1>1. CASE ~ CanAllocate(d.line[l], FreeIn(d))
    BY <1>1, CarriesSelf DEF AllocateNext
<1>2. CASE CanAllocate(d.line[l], FreeIn(d))
    <2> DEFINE x == d.line[l]
               y == AllocateOne(x, FreeIn(d))
               e == AllocateNext(d, l)
               t == [d.line EXCEPT ![l] = y]
    <2>1. FreeIn(d) \in Nat
        BY DbRows, ReservedInType DEF FreeIn, AtLeastZero
    <2>2. /\ x \in GoodLine /\ x \in LineRow /\ y \in GoodLine /\ y \in LineRow
          /\ y.wo = x.wo /\ y.report = x.report /\ y.issued = x.issued /\ y.blocker = x.blocker
        <3>1. x \in GoodLine /\ x \in LineRow BY DbRows
        <3>2. y \in GoodLine BY <2>1, <3>1, AllocateOneGood
        <3> QED BY <2>1, <3>1, <3>2, AllocatedRow DEF GoodLine
    <2>3. /\ e.available = d.available /\ e.legacy = d.legacy /\ e.report = d.report
          /\ e.line = t
          /\ e = [available |-> d.available, legacy |-> d.legacy, line |-> t, report |-> d.report]
        BY <1>2 DEF AllocateNext, GoodDb
    <2> HIDE DEF x, y, e
    <2>4. t \in Seq(GoodLine)
        BY <2>2, DbRows, UpdateRow
    <2>5. e \in GoodDb
        BY <2>3, <2>4, DbRows DEF GoodDb
    <2>6. UnitsIssued(t) + x.issued = UnitsIssued(d.line) + y.issued
        BY <2>2, DbRows, LineUpdated DEF x
    <2>7. UnitsIssued(t) = UnitsIssued(d.line)
        <3>1. UnitsIssued(t) \in Nat
            BY <2>3, <2>5, DbRows
        <3> QED BY <2>2, <2>6, <3>1, DbRows DEF LineRow
    <2>8. DOMAIN t = DOMAIN d.line /\ \A k \in DOMAIN d.line : t[k] = IF k = l THEN y ELSE d.line[k]
        BY DbRows
    <2>9. \A k \in DOMAIN d.line : d.line[k].issued \in Nat
        BY DbRows DEF LineRow
    <2> HIDE DEF t
    <2> QED BY <2>2, <2>3, <2>5, <2>7, <2>8, <2>9 DEF Carries, e, x
<1> QED BY <1>1, <1>2

\* A queue of lines.
LEMMA InTurnCarries ==
    ASSUME NEW d \in GoodDb, NEW W, line \in Seq(GoodLine), DOMAIN d.line = DOMAIN line
    PROVE  Carries(d, InTurn(d, W))
<1> DEFINE n == Len(line)
<1>1. n \in Nat /\ DOMAIN line = 1..n
    BY TableProps
<1>2. PICK f : Served(d, W, n, f) /\ InTurn(d, W) = f[n]
    BY <1>1, InTurnServed
<1> DEFINE S == {k \in 0..n : Carries(d, f[k])}
<1>3. f[0] = d /\ \A k \in 1..n : f[k] = AllocateNext(f[k - 1], k) \/ f[k] = f[k - 1]
    <2>1. f[0] = d /\ \A k \in 1..n : f[k] = ServedNext(f[k - 1], W, k)
        <3>1. n \in Nat /\ Served(d, W, n, f)
            BY <1>1, <1>2
        <3> HIDE DEF n, S
        <3> QED BY <3>1, ServedOnward
    <2> QED BY <2>1 DEF ServedNext
<1>4. 0 \in S
    BY <1>1, <1>3, CarriesSelf
<1>5. ASSUME NEW k \in 1..n, k - 1 \in S PROVE k \in S
    <2>1. Carries(d, f[k - 1]) /\ k \in 0..n
        BY <1>1, <1>5
    <2>2. f[k - 1] \in GoodDb /\ k \in DOMAIN f[k - 1].line
        BY <1>1, <2>1 DEF Carries
    <2>3. CASE f[k] = AllocateNext(f[k - 1], k)
        BY <2>1, <2>2, <2>3, AllocateNextCarries, CarriesOn
    <2>4. CASE f[k] = f[k - 1]
        BY <2>1, <2>4
    <2> QED BY <1>3, <2>3, <2>4
<1> HIDE DEF S
<1>6. 0..n \subseteq S
    BY <1>1, <1>4, <1>5, RowByRow
<1> QED BY <1>1, <1>2, <1>6 DEF S

\* One issue from the warehouse, as a receipt makes it.
LEMMA IssueFromIssues ==
    ASSUME NEW d \in GoodDb, NEW l \in DOMAIN d.line, NEW q \in Nat, q > 0, q <= d.available
    PROVE  Issues(d, IssueFrom(d, l, q))
<1> DEFINE x == d.line[l]
           own == MinOf(x.reserved, q)
           fromLegacy == MinOf(d.legacy[x.wo], q - own)
           y == IssuedLine(x, q, own)
           t == [d.line EXCEPT ![l] = y]
           leg == [d.legacy EXCEPT ![x.wo] = @ - fromLegacy]
           z == IssuedAgainst(d.report[x.report], q, x.issued = 0)
           rows == IF x.report \in DOMAIN d.report
                   THEN [d.report EXCEPT ![x.report] = z] ELSE d.report
           e == IssueFrom(d, l, q)
<1>1. /\ x \in GoodLine /\ x \in LineRow /\ x.wo \in WO
      /\ x.reserved \in Nat /\ x.issued \in Nat
    BY DbRows DEF LineRow
<1>2. own \in Nat /\ own <= x.reserved /\ own <= q
    BY <1>1 DEF MinOf
<1>3. fromLegacy \in Nat /\ fromLegacy <= d.legacy[x.wo]
    BY <1>1, <1>2, DbRows DEF MinOf
<1>4. leg \in [WO -> Nat]
    BY <1>1, <1>3, DbRows
<1>5. /\ y \in GoodLine /\ y.wo = x.wo /\ y.report = x.report /\ y.issued = x.issued + q
      /\ y.allocated = x.allocated
    <2> HIDE DEF own
    <2> QED BY <1>1, <1>2, IssuedLineGood DEF IssuedLine, LineRow
<1> HIDE DEF fromLegacy, y
<1>6. t \in Seq(GoodLine)
    BY <1>5, DbRows, UpdateRow
<1>7. ASSUME x.report \in DOMAIN d.report
      PROVE  /\ z \in GoodReport /\ z.wo = d.report[x.report].wo
             /\ rows \in Seq(GoodReport)
    <2>1. d.report[x.report] \in GoodReport /\ d.report[x.report] \in ReportRow
        BY <1>7, DbRows
    <2>2. z \in GoodReport
        <3>1. (x.issued = 0) \in BOOLEAN OBVIOUS
        <3> QED BY <2>1, <3>1, IssuedAgainstGood
    <2>3. z.wo = d.report[x.report].wo
        BY <2>1 DEF IssuedAgainst, ReportRow
    <2> HIDE DEF z
    <2>4. [d.report EXCEPT ![x.report] = z] \in Seq(GoodReport)
        BY <1>7, <2>2, DbRows, UpdateRow
    <2> QED BY <1>7, <2>2, <2>3, <2>4
<1>8. /\ rows \in Seq(GoodReport) /\ DOMAIN rows = DOMAIN d.report
      /\ \A r \in DOMAIN d.report : rows[r].wo = d.report[r].wo
    <2> HIDE DEF z
    <2>1. CASE x.report \in DOMAIN d.report
        BY <1>7, <2>1
    <2>2. CASE x.report \notin DOMAIN d.report
        BY <2>2, DbRows
    <2> QED BY <2>1, <2>2
<1>9. e = [available |-> d.available - q, legacy |-> leg, line |-> t, report |-> rows]
    BY DEF IssueFrom, y, fromLegacy
<1> HIDE DEF own, leg, t, rows, e, z
<1>10. /\ e.available = d.available - q /\ e.line = t /\ e.report = rows
       /\ d.available - q \in Nat /\ e \in GoodDb
    BY <1>4, <1>6, <1>8, <1>9, DbRows DEF GoodDb
<1>11. UnitsIssued(t) = UnitsIssued(d.line) + q
    <2>1. UnitsIssued(t) + x.issued = UnitsIssued(d.line) + y.issued
        BY <1>5, DbRows, LineUpdated DEF t, x, GoodLine
    <2>2. UnitsIssued(t) \in Nat /\ UnitsIssued(d.line) \in Nat
        BY <1>10, DbRows
    <2> QED BY <1>1, <1>5, <2>1, <2>2
<1>12. DOMAIN t = DOMAIN d.line /\ \A k \in DOMAIN d.line : t[k] = IF k = l THEN y ELSE d.line[k]
    BY DbRows DEF t
<1>13. \A k \in DOMAIN d.line : d.line[k].issued \in Nat
    BY DbRows DEF LineRow
<1>14. /\ \A k \in DOMAIN d.line :
           /\ t[k].wo = d.line[k].wo /\ t[k].report = d.line[k].report
           /\ t[k].issued >= d.line[k].issued
           /\ t[k].issued = d.line[k].issued => t[k].blocker = d.line[k].blocker
    BY <1>1, <1>5, <1>12, <1>13 DEF x
<1>15. d.available \in Nat BY DbRows
<1>16. Carries(d, e)
    BY <1>8, <1>10, <1>11, <1>12, <1>14, <1>15, DbRows DEF Carries
<1>17. SameGrants(d, e)
    BY <1>5, <1>10, <1>12 DEF SameGrants, x
<1> QED BY <1>16, <1>17 DEF Issues, e

\* The report of the line that was served may be complete.
LEMMA TryFulfilIssues ==
    ASSUME NEW d \in GoodDb, NEW r
    PROVE  Issues(d, TryFulfil(d, r))
<1>1. CASE ~ (r \in DOMAIN d.report /\ CanBeFulfilled(d.report[r]))
    BY <1>1, IssuesSelf DEF TryFulfil
<1>2. CASE r \in DOMAIN d.report /\ CanBeFulfilled(d.report[r])
    <2> DEFINE p == d.report[r]
               rows == [d.report EXCEPT ![r] = Fulfilled(p)]
               e == TryFulfil(d, r)
    <2>1. p \in GoodReport /\ p \in ReportRow /\ p.status # "pending"
        BY <1>2, DbRows DEF CanBeFulfilled
    <2>2. Fulfilled(p) \in GoodReport
        <3>1. "closed" \in PRStatus \/ "none" \in PRStatus BY DEF PRStatus
        <3> QED BY <2>1, <3>1, ClosedReportGood
    <2>3. Fulfilled(p).wo = p.wo
        BY <2>1 DEF Fulfilled, ReportRow
    <2>4. rows \in Seq(GoodReport)
        BY <1>2, <2>2, DbRows, UpdateRow
    <2>5. /\ e = [available |-> d.available, legacy |-> d.legacy, line |-> d.line, report |-> rows]
        BY <1>2 DEF TryFulfil, GoodDb
    <2>6. DOMAIN rows = DOMAIN d.report /\ \A k \in DOMAIN d.report : rows[k].wo = d.report[k].wo
        BY <1>2, <2>3, DbRows
    <2> HIDE DEF rows, p
    <2>7. /\ e.available = d.available /\ e.line = d.line /\ e.report = rows /\ e \in GoodDb
        BY <2>4, <2>5, DbRows DEF GoodDb
    <2>8. \A k \in DOMAIN d.line : d.line[k].issued \in Nat
        BY DbRows DEF LineRow
    <2> HIDE DEF e
    <2>9. Carries(d, e)
        BY <2>6, <2>7, <2>8 DEF Carries
    <2> QED BY <2>7, <2>9 DEF Issues, SameGrants, e
<1> QED BY <1>1, <1>2

\* auto_fulfill_wo_lines_from_po for one work order: it issues something or nothing.
LEMMA AutoFulfilIssues ==
    ASSUME NEW d \in GoodDb, NEW w, NEW received \in Nat
    PROVE  Issues(d, AutoFulfil(d, w, received))
<1> DEFINE l == CHOOSE m \in OpenLinesOf(d, w) : \A n \in OpenLinesOf(d, w) : m <= n
           q == MinOf(received, d.line[l].approved - d.line[l].issued)
           e == IssueFrom(d, l, q)
<1>1. CASE received = 0 \/ OpenLinesOf(d, w) = {}
    BY <1>1, IssuesSelf DEF AutoFulfil
<1>2. CASE received # 0 /\ OpenLinesOf(d, w) # {} /\ ~ CanIssue(d, l, q)
    BY <1>2, IssuesSelf DEF AutoFulfil
<1>3. CASE received # 0 /\ OpenLinesOf(d, w) # {} /\ CanIssue(d, l, q)
    <2>1. OpenLinesOf(d, w) \in SUBSET Nat
        BY DbRows, TableProps DEF OpenLinesOf
    <2>2. l \in OpenLinesOf(d, w)
        BY <1>3, <2>1, Smallest
    <2>3. l \in DOMAIN d.line /\ d.line[l].approved > d.line[l].issued /\ d.line[l] \in LineRow
        BY <2>2, DbRows DEF OpenLinesOf
    <2> HIDE DEF l
    <2>4. q \in Nat /\ q > 0
        BY <1>3, <2>3 DEF MinOf, LineRow
    <2>5. q <= d.available
        BY <1>3 DEF CanIssue
    <2> HIDE DEF q
    <2>6. Issues(d, e)
        BY <2>3, <2>4, <2>5, IssueFromIssues
    <2>7. Issues(e, TryFulfil(e, d.line[l].report))
        BY <2>6, TryFulfilIssues DEF Issues, Carries
    <2>8. AutoFulfil(d, w, received) = TryFulfil(e, d.line[l].report)
        BY <1>3 DEF AutoFulfil, l, q
    <2> HIDE DEF e
    <2> QED BY <2>6, <2>7, <2>8, IssuesOn
<1> QED BY <1>1, <1>2, <1>3

\* All linked requests.
LEMMA IssueLinkedIssues ==
    ASSUME NEW d \in GoodDb, NEW o, NEW total \in Nat, report \in Seq(GoodReport)
    PROVE  Issues(d, IssueLinked(d, o, total))
<1> DEFINE n == Len(report)
<1>1. n \in Nat
    BY TableProps
<1>2. PICK f : Filled(d, o, total, n, f) /\ IssueLinked(d, o, total) = f[n]
    BY <1>1, IssueLinkedFilled
<1> DEFINE S == {k \in 0..n : Issues(d, f[k])}
<1>3. f[0] = d /\ \A k \in 1..n : f[k] = FilledNext(f[k - 1], o, total, k)
    <2>1. n \in Nat /\ Filled(d, o, total, n, f)
        BY <1>1, <1>2
    <2> HIDE DEF n, S
    <2>2. FilledInSteps(d, o, total, n, f)
        BY <2>1, FilledOnward
    <2> QED BY <2>2 DEF FilledInSteps
<1>4. 0 \in S
    BY <1>1, <1>3, IssuesSelf
<1>5. ASSUME NEW k \in 1..n, k - 1 \in S PROVE k \in S
    <2>1. Issues(d, f[k - 1]) /\ k \in 0..n /\ f[k - 1] \in GoodDb
        BY <1>1, <1>5 DEF Issues, Carries
    <2>2. \/ f[k] = f[k - 1]
          \/ \E w : f[k] = AutoFulfil(f[k - 1], w, total)
        BY <1>3 DEF FilledNext
    <2>3. ASSUME NEW w, f[k] = AutoFulfil(f[k - 1], w, total) PROVE Issues(d, f[k])
        BY <2>1, <2>3, AutoFulfilIssues, IssuesOn
    <2> QED BY <2>1, <2>2, <2>3
<1> HIDE DEF S
<1>6. 0..n \subseteq S
    BY <1>1, <1>4, <1>5, RowByRow
<1> QED BY <1>1, <1>2, <1>6 DEF S

\* Both queues.
LEMMA ReallocateCarries ==
    ASSUME NEW d \in GoodDb, line \in Seq(GoodLine), DOMAIN d.line = DOMAIN line
    PROVE  /\ Carries(d, InTurn(d, Emergency))
           /\ Carries(InTurn(d, Emergency), Reallocate(d))
           /\ Carries(d, Reallocate(d))
<1> DEFINE a == InTurn(d, Emergency)
<1>1. Carries(d, a)
    BY InTurnCarries
<1>2. a \in GoodDb /\ DOMAIN a.line = DOMAIN line
    BY <1>1 DEF Carries
<1> HIDE DEF a
<1>3. Carries(a, InTurn(a, WO \ Emergency))
    BY <1>2, InTurnCarries
<1>4. Reallocate(d) = InTurn(a, WO \ Emergency)
    BY DEF Reallocate, a
<1> QED BY <1>1, <1>3, <1>4, CarriesOn DEF a

\* The tables before a receipt, and with its good units on the shelf.
LEMMA StockedGood ==
    ASSUME IInv, NEW good \in Nat, NEW damaged
    PROVE  /\ Stocked(good, damaged) \in GoodDb
           /\ Stocked(good, damaged).available = available + good
           /\ Stocked(good, damaged).legacy = legacy
           /\ Stocked(good, damaged).line = line
           /\ Stocked(good, damaged).report = report
<1> DEFINE d == Stocked(good, damaged)
<1>1. d = [available |-> available + good, legacy |-> legacy, line |-> line, report |-> report]
    BY DEF Stocked, Db
<1> QED BY <1>1 DEF IInv, GoodDb

\* All that a receipt does to the tables before the reports are finished.
LEMMA ReceivedCarries ==
    ASSUME IInv, NEW o, NEW good \in Nat, NEW damaged \in Nat, NEW total \in Nat
    PROVE  Carries(Stocked(good, damaged), Received(o, good, damaged, total))
<1> DEFINE d == Stocked(good, damaged)
           b == IF good + damaged > 0 THEN Reallocate(d) ELSE d
<1>1. d \in GoodDb /\ d.line = line /\ line \in Seq(GoodLine) /\ report \in Seq(GoodReport)
    BY StockedGood DEF IInv
<1> HIDE DEF d
<1>2. Carries(d, b)
    BY <1>1, ReallocateCarries, CarriesSelf
<1>3. b \in GoodDb
    BY <1>2 DEF Carries
<1>4. Received(o, good, damaged, total) = IssueLinked(b, o, total)
    BY DEF Received, d
<1> HIDE DEF b
<1>5. Carries(b, IssueLinked(b, o, total))
    BY <1>1, <1>3, IssueLinkedIssues DEF Issues
<1> QED BY <1>1, <1>2, <1>4, <1>5, CarriesOn DEF d

-------------------------------------------------------------------------------
(***************************************************************************)
(* The orders.                                                             *)
(***************************************************************************)
\* An order that can still be received lacks something, a complete one has at most
\* the unit rounding can add, and one that is not complete lacks something as long
\* as nobody closes it.
Open == {"draft", "sent", "partial"}

OrderSound(x) ==
    /\ x.ordered > 0 => x.received <= x.ordered + 1
    /\ x.ordered > 0 /\ x.status # "received" => x.received < x.ordered
    /\ x.damaged <= x.received

GoodOrder == {x \in PORow : OrderSound(x)}

\* Two shares of a whole, each rounded to the nearest unit, exceed it by at most
\* one.
LEMMA SharesOfAll ==
    ASSUME NEW g \in Nat, NEW h \in Nat, NEW r \in Nat, NEW a \in Nat, a > 0,
           NEW m \in Nat, NEW n \in Nat, m + n = a * r,
           2 * g * a <= 2 * m + a, 2 * h * a <= 2 * n + a
    PROVE  g + h <= r + 1
<1> DEFINE ga == g * a
           ha == h * a
           ra == a * r
<1>1. ga \in Nat /\ ha \in Nat /\ ra \in Nat
    OBVIOUS
<1>2. 2 * g * a = 2 * ga /\ 2 * h * a = 2 * ha
    OBVIOUS
<1>3. (g + h) * a = ga + ha /\ (r + 2) * a = ra + 2 * a
    OBVIOUS
<1>4. m + n = ra
    OBVIOUS
<1>5. (g + h) * a <= ra + a
    <2> HIDE DEF ga, ha, ra
    <2> QED BY <1>1, <1>2, <1>3, <1>4
<1>6. CASE g + h >= r + 2
    <2>1. (g + h) * a >= (r + 2) * a
        BY <1>6
    <2> HIDE DEF ga, ha, ra
    <2> QED BY <1>1, <1>3, <1>5, <2>1
<1> QED BY <1>6

\* A scaled receipt books what remained but for a unit, any other what arrived.
LEMMA CappedBounds ==
    ASSUME NEW x \in GoodOrder, x.status \in Open,
           NEW good \in Nat, NEW damaged \in Nat,
           NEW c \in Capped(x, good, damaged)
    PROVE  /\ c.good \in Nat /\ c.damaged \in Nat
           /\ x.ordered > 0 => x.received + c.good + c.damaged <= x.ordered + 1
<1> DEFINE arrived == good + damaged
           remaining == x.ordered - x.received
<1>1. x.ordered \in Nat /\ x.received \in Nat /\ arrived \in Nat
    BY DEF GoodOrder, PORow
<1>2. x.ordered > 0 => remaining > 0
    BY <1>1 DEF GoodOrder, OrderSound, Open
<1>3. CASE arrived > remaining /\ remaining > 0
    <2>1. remaining \in Nat /\ arrived > 0
        BY <1>1, <1>3
    <2>2. PICK g \in Nearest(good * remaining, arrived), h \in Nearest(damaged * remaining, arrived) :
            c = Booking(g, h)
        BY <1>3 DEF Capped
    <2> DEFINE m == good * remaining
               n == damaged * remaining
    <2>3. m \in Nat /\ n \in Nat
        BY <2>1
    <2>4. m + n = arrived * remaining
        BY <2>1
    <2>5. /\ g \in 0..m /\ 2 * g * arrived <= 2 * m + arrived
          /\ h \in 0..n /\ 2 * h * arrived <= 2 * n + arrived
        BY <2>2 DEF Nearest
    <2>6. c.good = g /\ c.damaged = h
        BY <2>2 DEF Booking
    <2> HIDE DEF m, n, arrived, remaining
    <2>7. g \in Nat /\ h \in Nat
        BY <2>3, <2>5
    <2>8. g + h <= remaining + 1
        BY <1>1, <2>1, <2>3, <2>4, <2>5, <2>7, SharesOfAll
    <2> QED BY <1>1, <2>6, <2>7, <2>8 DEF remaining
<1>4. CASE ~ (arrived > remaining /\ remaining > 0)
    <2>1. c = Booking(good, damaged)
        BY <1>4 DEF Capped
    <2> QED BY <1>1, <1>2, <1>4, <2>1 DEF Booking
<1> QED BY <1>3, <1>4

\* What the officers and a receipt make of an order.
LEMMA NewOrderGood ==
    ASSUME NEW q \in Nat
    PROVE  NewOrder(q) \in GoodOrder
BY DEF NewOrder, GoodOrder, PORow, OrderSound, POStatus

LEMMA EditedOrderGood ==
    ASSUME NEW x \in GoodOrder, NEW s \in POStatus,
           x.status \in Open
    PROVE  [x EXCEPT !.status = s] \in GoodOrder
<1> DEFINE y == [x EXCEPT !.status = s]
<1>1. y \in PORow /\ y.ordered = x.ordered /\ y.received = x.received /\ y.damaged = x.damaged
      /\ y.status = s
    BY DEF GoodOrder, PORow
<1> HIDE DEF y
<1>2. OrderSound(y)
    BY <1>1 DEF GoodOrder, OrderSound, Open
<1> QED BY <1>1, <1>2 DEF GoodOrder, y

LEMMA ShortOrderGood ==
    ASSUME NEW x \in GoodOrder, x.status \in Open
    PROVE  [x EXCEPT !.status = "closed_short", !.backordered = 0] \in GoodOrder
<1> DEFINE y == [x EXCEPT !.status = "closed_short", !.backordered = 0]
<1>1. y \in PORow /\ y.ordered = x.ordered /\ y.received = x.received /\ y.damaged = x.damaged
      /\ y.status = "closed_short"
    BY DEF GoodOrder, PORow, POStatus
<1> HIDE DEF y
<1>2. OrderSound(y)
    BY <1>1 DEF GoodOrder, OrderSound, Open
<1> QED BY <1>1, <1>2 DEF GoodOrder, y

\* The row a receipt writes.
ReceivedRow(row, booked, back) ==
    LET total == row.received + booked.good + booked.damaged
    IN  [row EXCEPT !.received = total,
                    !.damaged = @ + booked.damaged,
                    !.backordered = back,
                    !.status = IF total >= row.ordered THEN "received" ELSE "partial"]

LEMMA ReceivedRowGood ==
    ASSUME NEW x \in GoodOrder, x.status \in Open,
           NEW good \in Nat, NEW damaged \in Nat, NEW back \in Nat,
           NEW c \in Capped(x, good, damaged)
    PROVE  ReceivedRow(x, c, back) \in GoodOrder
<1> DEFINE total == x.received + c.good + c.damaged
           st == IF total >= x.ordered THEN "received" ELSE "partial"
           y == ReceivedRow(x, c, back)
<1>1. /\ c.good \in Nat /\ c.damaged \in Nat
      /\ x.ordered > 0 => total <= x.ordered + 1
    BY CappedBounds
<1>2. /\ x \in PORow /\ x.ordered \in Nat /\ x.received \in Nat /\ x.damaged \in Nat
      /\ x.damaged <= x.received
    BY DEF GoodOrder, OrderSound, PORow
<1>3. total \in Nat /\ x.damaged + c.damaged \in Nat /\ x.damaged + c.damaged <= total
    BY <1>1, <1>2
<1>4. st \in POStatus /\ (st # "received" => total < x.ordered)
    BY <1>2, <1>3 DEF POStatus
<1>5. y = [x EXCEPT !.received = total, !.damaged = x.damaged + c.damaged,
                    !.backordered = back, !.status = st]
    BY DEF ReceivedRow
<1> HIDE DEF y, st, total
<1>6. /\ y \in PORow /\ y.ordered = x.ordered /\ y.received = total
      /\ y.damaged = x.damaged + c.damaged /\ y.status = st
    BY <1>2, <1>3, <1>4, <1>5 DEF PORow
<1>7. OrderSound(y)
    BY <1>1, <1>3, <1>4, <1>6 DEF OrderSound, total
<1> QED BY <1>6, <1>7 DEF GoodOrder, y

\* What they make of a shortage report.
LEMMA RelabelledGood ==
    ASSUME NEW p \in GoodReport, NEW s \in PRStatus, NEW n \in Nat
    PROVE  /\ [p EXCEPT !.pr = s] \in GoodReport
           /\ [p EXCEPT !.pr = s, !.po = n] \in GoodReport
           /\ [p EXCEPT !.pr = s, !.blocker = Resolved(@)] \in GoodReport
<1> DEFINE a == [p EXCEPT !.pr = s]
           b == [p EXCEPT !.pr = s, !.po = n]
           c == [p EXCEPT !.pr = s, !.blocker = Resolved(@)]
<1>1. a \in ReportRow /\ b \in ReportRow /\ c \in ReportRow
    BY DEF GoodReport, ReportRow, Resolved, BlockerStatus
<1>2. /\ a.blocker = p.blocker /\ b.blocker = p.blocker /\ c.blocker # "open"
      /\ \A q \in {a, b, c} : /\ q.status = p.status /\ q.decision = p.decision
                              /\ q.issue = p.issue /\ q.procure = p.procure
                              /\ q.refused = p.refused /\ q.requested = p.requested
    BY DEF GoodReport, ReportRow, Resolved
<1> HIDE DEF a, b, c
<1>3. ReportSound(p) BY DEF GoodReport
<1>4. ReportSound(a) /\ ReportSound(b) /\ ReportSound(c)
    BY <1>2, <1>3 DEF ReportSound
<1> QED BY <1>1, <1>4 DEF GoodReport, a, b, c

LEMMA FinishedGood ==
    ASSUME NEW p \in GoodReport, NEW s \in PRStatus
    PROVE  FinishReport(p, s) \in GoodReport /\ FinishReport(p, s).wo = p.wo
<1> DEFINE told == [p EXCEPT !.pr = s]
<1>1. told \in GoodReport /\ told.wo = p.wo /\ told.status = p.status
    BY RelabelledGood DEF GoodReport, ReportRow
<1>2. CASE p.status = "in_fulfillment"
    <2> HIDE DEF told
    <2>1. Fulfilled(told) \in GoodReport
        <3>1. told.status # "pending" BY <1>1, <1>2
        <3>2. "closed" \in PRStatus \/ "none" \in PRStatus BY DEF PRStatus
        <3> QED BY <1>1, <3>1, <3>2, ClosedReportGood
    <2>2. Fulfilled(told).wo = told.wo
        BY <1>1 DEF Fulfilled, GoodReport, ReportRow
    <2>3. FinishReport(p, s) = Fulfilled(told)
        BY <1>2 DEF FinishReport, told
    <2> QED BY <1>1, <2>1, <2>2, <2>3
<1>3. CASE p.status # "in_fulfillment"
    BY <1>1, <1>3 DEF FinishReport
<1> QED BY <1>2, <1>3

-------------------------------------------------------------------------------
(***************************************************************************)
(* The inductive invariant.                                                *)
(***************************************************************************)
\* The pipeline's own invariant with the links and the status, and sound orders.
PIInv == IInv /\ LinksRight /\ StatusMatchesBlockers /\ po \in Seq(GoodOrder)

\* Several work orders are recomputed, all that were disturbed among them.
LEMMA StatusRecomputed ==
    ASSUME IInv, StatusMatchesBlockers, NEW W, RecomputeAll(W),
           \A v \in WO \ W : Steady(v)
    PROVE  StatusMatchesBlockers' /\ opStatus' \in [WO -> OpStatus]
<1>1. opStatus \in [WO -> OpStatus]
    BY DEF IInv
<1>2. \A v \in WO : opStatus'[v] = IF v \in W THEN Recomputed(v)[v] ELSE opStatus[v]
    BY DEF RecomputeAll
<1>3. opStatus' \in [WO -> OpStatus]
    <2>1. \A v \in WO : Recomputed(v) \in [WO -> OpStatus]
        BY <1>1, RecomputedType
    <2>2. \A v \in WO : (IF v \in W THEN Recomputed(v)[v] ELSE opStatus[v]) \in OpStatus
        BY <1>1, <2>1
    <2> QED BY <2>2 DEF RecomputeAll
<1>4. ASSUME NEW v \in WO, lifecycle'[v] # "closed"
      PROVE  opStatus'[v] = DerivedStatus(v, lifecycle', line', report')
    <2>1. CASE v \in W
        BY <1>1, <1>2, <1>4, <2>1 DEF Recomputed
    <2>2. CASE v \notin W
        <3>1. Steady(v) /\ opStatus'[v] = opStatus[v]
            BY <1>2, <2>2
        <3>2. lifecycle[v] # "closed"
            BY <1>4, <3>1 DEF Steady
        <3>3. opStatus[v] = DerivedStatus(v, lifecycle, line, report)
            BY <3>2 DEF StatusMatchesBlockers
        <3> QED BY <3>1, <3>3, SteadyStatus
    <2> QED BY <2>1, <2>2
<1> QED BY <1>3, <1>4 DEF StatusMatchesBlockers

\* The rows of v with an open blocker stay the same.
LEMMA WaitsKept ==
    ASSUME NEW before, NEW after, NEW v, DOMAIN after = DOMAIN before,
           \A i \in DOMAIN before :
             /\ after[i].wo = before[i].wo
             /\ before[i].wo = v => (after[i].blocker = "open" <=> before[i].blocker = "open")
    PROVE  Waits(after, v) = Waits(before, v)
BY DEF Waits

\* Work that leaves the lines alone and relabels reports.
LEMMA OrderingKeeps ==
    ASSUME PIInv, UNCHANGED <<available, legacy, line, lifecycle>>,
           po' \in Seq(GoodOrder), report' \in Seq(GoodReport),
           DOMAIN report' = DOMAIN report,
           \A r \in DOMAIN report : report'[r].wo = report[r].wo,
           NEW W, RecomputeAll(W),
           \A r \in DOMAIN report : report[r].wo \notin W =>
             (report'[r].blocker = "open" <=> report[r].blocker = "open")
    PROVE  PIInv'
<1>1. IInv /\ LinksRight /\ StatusMatchesBlockers
    BY DEF PIInv
<1>2. ASSUME NEW v \in WO \ W PROVE Steady(v)
    <2>1. Waits(report', v) = Waits(report, v)
        BY WaitsKept
    <2> QED BY <2>1 DEF Steady
<1>3. StatusMatchesBlockers' /\ opStatus' \in [WO -> OpStatus]
    BY <1>1, <1>2, StatusRecomputed
<1>4. LinksRight'
    <2> SUFFICES ASSUME NEW l \in DOMAIN line PROVE LinkRight(line[l], report')
        BY DEF LinksRight, Lines
    <2>1. LinkRight(line[l], report)
        BY <1>1 DEF LinksRight, Lines
    <2> QED BY <2>1 DEF LinkRight
<1>5. IInv'
    BY <1>1, <1>3 DEF IInv
<1> QED BY <1>3, <1>4, <1>5 DEF PIInv

\* Nothing to recompute.
LEMMA NobodyTold ==
    ASSUME IInv, opStatus' = opStatus
    PROVE  RecomputeAll({})
<1>1. opStatus = [w \in WO |-> opStatus[w]]
    BY DEF IInv
<1> QED BY <1>1 DEF RecomputeAll

\* Work on the orders alone.
LEMMA OrdersOnly ==
    ASSUME PIInv, UNCHANGED vars, po' \in Seq(GoodOrder)
    PROVE  PIInv'
<1>1. UNCHANGED <<available, legacy, line, report, lifecycle, opStatus>>
    BY DEF vars
<1>2. IInv /\ LinksRight /\ StatusMatchesBlockers /\ report' \in Seq(GoodReport)
    BY <1>1 DEF PIInv, IInv
<1>3. RecomputeAll({})
    BY <1>1, <1>2, NobodyTold
<1> QED BY <1>1, <1>2, <1>3, OrderingKeeps

\* What the provers need to know of the rows.
LEMMA PInvRows ==
    ASSUME PIInv
    PROVE  /\ IInv /\ po \in Seq(GoodOrder) /\ report \in Seq(GoodReport)
           /\ \A o \in Orders : po[o] \in GoodOrder /\ po[o] \in PORow
           /\ \A r \in Reports : report[r] \in GoodReport /\ report[r] \in ReportRow
           /\ Len(po) \in Nat
<1>1. IInv /\ po \in Seq(GoodOrder) /\ report \in Seq(GoodReport)
    BY DEF PIInv, IInv
<1>2. \A o \in Orders : po[o] \in GoodOrder
    BY <1>1, TableProps DEF Orders
<1>3. \A r \in Reports : report[r] \in GoodReport
    BY <1>1, TableProps DEF Reports
<1>4. Len(po) \in Nat
    BY <1>1, TableProps
<1> QED BY <1>1, <1>2, <1>3, <1>4 DEF GoodOrder, GoodReport

\* The create form.
LEMMA CreateOrderStep ==
    ASSUME PIInv, NEW q \in 0..MaxQty, NEW S \in SUBSET Reports, CreateOrder(q, S)
    PROVE  PIInv'
<1> DEFINE n == Len(po) + 1
           want == [r \in S |-> report[r].prQty]
           g == [r \in Reports |-> IF r \in S
                                   THEN [report[r] EXCEPT !.pr = "converted_to_po", !.po = n]
                                   ELSE report[r]]
<1>1. IInv /\ Len(po) \in Nat /\ po \in Seq(GoodOrder) /\ report \in Seq(GoodReport)
    BY PInvRows
<1>2. q + Total(want) \in Nat
    <2>1. IsFiniteSet(S)
        BY <1>1, TableProps, FS_Subset DEF Reports
    <2>2. want \in [S -> Nat]
        BY PInvRows DEF ReportRow
    <2>3. Total(want) \in Nat
        BY <2>1, <2>2, TotalType
    <2>4. q \in Nat
        BY QtyType
    <2> QED BY <2>3, <2>4
<1>3. po' = Append(po, NewOrder(q + Total(want))) /\ report' = g
      /\ UNCHANGED <<available, legacy, line, lifecycle, opStatus>>
    BY DEF CreateOrder
<1> HIDE DEF want
<1>4. po' \in Seq(GoodOrder)
    BY <1>1, <1>2, <1>3, NewOrderGood, AddRow
<1>5. ASSUME NEW r \in Reports
      PROVE  /\ g[r] \in GoodReport /\ g[r].wo = report[r].wo
             /\ g[r].blocker = report[r].blocker
    <2>1. report[r] \in GoodReport /\ report[r] \in ReportRow /\ n \in Nat
        BY <1>1, PInvRows
    <2>2. "converted_to_po" \in PRStatus
        BY DEF PRStatus
    <2>3. [report[r] EXCEPT !.pr = "converted_to_po", !.po = n] \in GoodReport
        BY <2>1, <2>2, RelabelledGood
    <2> QED BY <2>1, <2>3 DEF ReportRow
<1>6. g \in [DOMAIN report -> GoodReport]
    BY <1>5 DEF Reports
<1>7. g \in Seq(GoodReport) /\ DOMAIN g = DOMAIN report
    BY <1>1, <1>6, MapRows
<1> HIDE DEF g
<1>8. RecomputeAll({})
    BY <1>1, <1>3, NobodyTold
<1> QED BY <1>3, <1>4, <1>5, <1>7, <1>8, OrderingKeeps DEF Reports

\* One report is relabelled and nobody told.
LEMMA OneReportRelabelled ==
    ASSUME PIInv, NEW r \in Reports, NEW e \in GoodReport, report' = [report EXCEPT ![r] = e],
           e.wo = report[r].wo, e.blocker = report[r].blocker, po' \in Seq(GoodOrder),
           UNCHANGED <<available, legacy, line, lifecycle, opStatus>>
    PROVE  PIInv'
<1>1. IInv /\ report \in Seq(GoodReport) /\ r \in DOMAIN report
    BY PInvRows DEF Reports
<1>2. report' \in Seq(GoodReport)
    BY <1>1, UpdateRow
<1>3. DOMAIN report' = DOMAIN report
      /\ \A i \in DOMAIN report : report'[i] = IF i = r THEN e ELSE report[i]
    BY <1>1, TableProps
<1>4. RecomputeAll({})
    BY <1>1, NobodyTold
<1> QED BY <1>2, <1>3, <1>4, OrderingKeeps

\* An order from one request, and the officer's edit of a request.
LEMMA OneRequestStep ==
    ASSUME PIInv, NEW r \in Reports,
           \/ CreateOrderFromRequest(r)
           \/ \E s \in PRStatus \ {"none"} : OfficerEdit(r, s)
    PROVE  PIInv'
<1> DEFINE p == report[r]
<1>1. /\ p \in GoodReport /\ p \in ReportRow /\ po \in Seq(GoodOrder) /\ Len(po) + 1 \in Nat
      /\ report \in Seq(GoodReport) /\ r \in DOMAIN report
    BY PInvRows DEF Reports
<1>2. CASE CreateOrderFromRequest(r)
    <2> DEFINE e == [p EXCEPT !.pr = "converted_to_po", !.po = Len(po) + 1]
    <2>1. e \in GoodReport /\ e.wo = p.wo /\ e.blocker = p.blocker
        <3>1. "converted_to_po" \in PRStatus BY DEF PRStatus
        <3> QED BY <1>1, <3>1, RelabelledGood DEF ReportRow
    <2>2. report' = [report EXCEPT ![r] = e]
        BY <1>1, <1>2 DEF CreateOrderFromRequest
    <2>3. po' \in Seq(GoodOrder)
        <3>1. p.prQty \in Nat BY <1>1 DEF ReportRow
        <3> QED BY <1>1, <1>2, <3>1, NewOrderGood, AddRow DEF CreateOrderFromRequest
    <2>4. UNCHANGED <<available, legacy, line, lifecycle, opStatus>>
        BY <1>2 DEF CreateOrderFromRequest
    <2> HIDE DEF e
    <2> QED BY <2>1, <2>2, <2>3, <2>4, OneReportRelabelled
<1>3. ASSUME NEW s \in PRStatus, OfficerEdit(r, s) PROVE PIInv'
    <2> DEFINE e == [p EXCEPT !.pr = s]
    <2>1. e \in GoodReport /\ e.wo = p.wo /\ e.blocker = p.blocker
        BY <1>1, RelabelledGood DEF ReportRow
    <2>2. /\ report' = [report EXCEPT ![r] = e] /\ po' = po
          /\ UNCHANGED <<available, legacy, line, lifecycle, opStatus>>
        BY <1>3 DEF OfficerEdit
    <2> HIDE DEF e
    <2> QED BY <1>1, <2>1, <2>2, OneReportRelabelled
<1> QED BY <1>2, <1>3

\* A finished order is cloned, an open one edited.
LEMMA OneOrderStep ==
    ASSUME PIInv, NEW o \in Orders,
           Reorder(o) \/ \E s \in POStatus : EditOrder(o, s)
    PROVE  PIInv'
<1>1. po[o] \in GoodOrder /\ po[o] \in PORow /\ po \in Seq(GoodOrder) /\ o \in DOMAIN po
    BY PInvRows DEF Orders
<1>2. CASE Reorder(o)
    <2>1. po[o].ordered \in Nat
        BY <1>1 DEF PORow
    <2>2. po' \in Seq(GoodOrder)
        BY <1>1, <1>2, <2>1, NewOrderGood, AddRow DEF Reorder
    <2> QED BY <1>2, <2>2, OrdersOnly DEF Reorder
<1>3. ASSUME NEW s \in POStatus, EditOrder(o, s) PROVE PIInv'
    <2> DEFINE e == [po[o] EXCEPT !.status = s]
    <2>1. po[o].status \in Open
        BY <1>1, <1>3 DEF EditOrder, IsLocked, PORow, POStatus, Open
    <2>2. e \in GoodOrder
        BY <1>1, <2>1, EditedOrderGood
    <2>3. po' = [po EXCEPT ![o] = e] /\ UNCHANGED vars
        BY <1>3 DEF EditOrder
    <2> HIDE DEF e
    <2>4. po' \in Seq(GoodOrder)
        BY <1>1, <2>2, <2>3, UpdateRow
    <2> QED BY <2>3, <2>4, OrdersOnly
<1> QED BY <1>2, <1>3

\* Requests whose reports lose their blocker, and the work orders that are told.
LEMMA ReleaseStep ==
    ASSUME PIInv, NEW S \in SUBSET Reports, NEW s \in PRStatus,
           UNCHANGED <<available, legacy, line, lifecycle>>, po' \in Seq(GoodOrder),
           report' = [r \in Reports |->
                        IF r \in S THEN [report[r] EXCEPT !.pr = s, !.blocker = Resolved(@)]
                        ELSE report[r]],
           ReleaseAll(S)
    PROVE  PIInv'
<1>1. IInv /\ report \in Seq(GoodReport)
    BY PInvRows
<1>2. ASSUME NEW r \in Reports
      PROVE  /\ report'[r] \in GoodReport /\ report'[r].wo = report[r].wo
             /\ report[r].wo \notin Released(S) =>
                  (report'[r].blocker = "open" <=> report[r].blocker = "open")
    <2>1. report[r] \in GoodReport /\ report[r] \in ReportRow
        BY PInvRows
    <2>2. CASE r \in S
        <3> DEFINE e == [report[r] EXCEPT !.pr = s, !.blocker = Resolved(@)]
        <3>1. report'[r] = e
            BY <2>2
        <3>2. e \in GoodReport
            BY <2>1, RelabelledGood
        <3>3. e.wo = report[r].wo /\ e.blocker = Resolved(report[r].blocker)
            BY <2>1 DEF ReportRow
        <3>4. report[r].wo \notin Released(S) => report[r].blocker # "open"
            BY <2>2 DEF Released
        <3> HIDE DEF e
        <3> QED BY <3>1, <3>2, <3>3, <3>4 DEF Resolved
    <2>3. CASE r \notin S
        BY <2>1, <2>3
    <2> QED BY <2>2, <2>3
<1>3. report' \in [DOMAIN report -> GoodReport]
    <2>1. report' = [r \in Reports |-> report'[r]]
        OBVIOUS
    <2> QED BY <1>2, <2>1 DEF Reports
<1>4. report' \in Seq(GoodReport) /\ DOMAIN report' = DOMAIN report
    BY <1>1, <1>3, MapRows
<1>5. RecomputeAll(Released(S))
    BY DEF ReleaseAll
<1> QED BY <1>2, <1>4, <1>5, OrderingKeeps DEF Reports

\* An order is closed short or cancelled.
LEMMA CloseShortStep ==
    ASSUME PIInv, NEW o \in Orders, CloseShort(o)
    PROVE  PIInv'
<1> DEFINE told == {r \in LinkedTo(o) : report[r].pr \in {"pending", "partially_fulfilled"}}
           e == [po[o] EXCEPT !.status = "closed_short", !.backordered = 0]
<1>1. told \in SUBSET Reports /\ "partially_fulfilled" \in PRStatus
    BY DEF LinkedTo, PRStatus
<1>2. po[o] \in GoodOrder /\ po[o] \in PORow /\ po \in Seq(GoodOrder) /\ o \in DOMAIN po
    BY PInvRows DEF Orders
<1>3. e \in GoodOrder
    BY <1>2, ShortOrderGood DEF CloseShort, Open
<1>4. /\ po' = [po EXCEPT ![o] = e]
      /\ report' = [r \in Reports |->
                        IF r \in told
                        THEN [report[r] EXCEPT !.pr = "partially_fulfilled", !.blocker = Resolved(@)]
                        ELSE report[r]]
      /\ UNCHANGED <<available, legacy, line, lifecycle>> /\ ReleaseAll(told)
    BY DEF CloseShort
<1> HIDE DEF e, told
<1>5. po' \in Seq(GoodOrder)
    BY <1>2, <1>3, <1>4, UpdateRow
<1> QED BY <1>1, <1>4, <1>5, ReleaseStep

LEMMA CancelOrderStep ==
    ASSUME PIInv, NEW o \in Orders, CancelOrder(o)
    PROVE  PIInv'
<1> DEFINE told == {r \in LinkedTo(o) : report[r].pr \notin {"fulfilled", "cancelled"}}
           e == [po[o] EXCEPT !.status = "cancelled"]
<1>1. told \in SUBSET Reports /\ "pending" \in PRStatus
    BY DEF LinkedTo, PRStatus
<1>2. po[o] \in GoodOrder /\ po[o] \in PORow /\ po \in Seq(GoodOrder) /\ o \in DOMAIN po
    BY PInvRows DEF Orders
<1>3. e \in GoodOrder
    BY <1>2, EditedOrderGood DEF CancelOrder, Open, POStatus
<1>4. /\ po' = [po EXCEPT ![o] = e]
      /\ report' = [r \in Reports |->
                        IF r \in told
                        THEN [report[r] EXCEPT !.pr = "pending", !.blocker = Resolved(@)]
                        ELSE report[r]]
      /\ UNCHANGED <<available, legacy, line, lifecycle>> /\ ReleaseAll(told)
    BY DEF CancelOrder
<1> HIDE DEF e, told
<1>5. po' \in Seq(GoodOrder)
    BY <1>2, <1>3, <1>4, UpdateRow
<1> QED BY <1>1, <1>4, <1>5, ReleaseStep

LEMMA OrderingStep ==
    ASSUME PIInv, Ordering
    PROVE  PIInv'
BY CreateOrderStep, OneRequestStep, OneOrderStep, CloseShortStep, CancelOrderStep DEF Ordering

-------------------------------------------------------------------------------
(***************************************************************************)
(* A receipt.                                                              *)
(***************************************************************************)
\* A receipt with what it books, c.
Books(o, good, damaged, c) ==
    ~ IsLocked(o) /\ c \in Capped(po[o], good, damaged) /\ \E touched \in BOOLEAN : Book(o, c, touched)

LEMMA ReceiptBooks ==
    ASSUME NEW o \in Orders, NEW good \in Nat, NEW damaged \in Nat, NEW rejected \in Nat,
           Receive(o, good, damaged, rejected)
    PROVE  \E c : Books(o, good, damaged, c)
<1> DEFINE touched == good + damaged + rejected > 0
<1>1. PICK c \in Capped(po[o], good, damaged) : Book(o, c, touched)
    BY DEF Receive
<1>2. ~ IsLocked(o) /\ touched \in BOOLEAN
    BY DEF Receive
<1> HIDE DEF touched
<1>3. Books(o, good, damaged, c)
    BY <1>1, <1>2, Zenon DEF Books
<1> QED BY <1>3

TotalAfter(o, c) == po[o].received + c.good + c.damaged

Tables(o, c) == Received(o, c.good, c.damaged, TotalAfter(o, c))

\* What it books and what it makes of the tables.
LEMMA ReceiptTables ==
    ASSUME PIInv, NEW o \in Orders, NEW good \in Nat, NEW damaged \in Nat,
           NEW c, Books(o, good, damaged, c)
    PROVE  /\ c.good \in Nat /\ c.damaged \in Nat /\ TotalAfter(o, c) \in Nat
           /\ Carries(Stocked(c.good, c.damaged), Tables(o, c))
           /\ Tables(o, c) \in GoodDb
           /\ available' = Tables(o, c).available /\ legacy' = Tables(o, c).legacy
           /\ line' = Tables(o, c).line /\ UNCHANGED lifecycle
           /\ DOMAIN line' = DOMAIN line
           /\ \E back \in Nat : po' = [po EXCEPT ![o] = ReceivedRow(po[o], c, back)]
<1> PICK touched \in BOOLEAN : Book(o, c, touched)
    BY DEF Books
<1> DEFINE row == po[o]
           total == TotalAfter(o, c)
           back == IF touched THEN AtLeastZero(row.ordered - total)
                   ELSE row.backordered
<1>1. /\ row \in GoodOrder /\ row.ordered \in Nat /\ row.received \in Nat /\ row.backordered \in Nat
      /\ IInv
    BY PInvRows DEF PORow
<1>2. row.status \in Open
    BY <1>1 DEF Books, IsLocked, GoodOrder, PORow, POStatus, Open
<1>3. c.good \in Nat /\ c.damaged \in Nat
    BY <1>1, <1>2, CappedBounds DEF Books
<1>4. total \in Nat
    BY <1>1, <1>3 DEF TotalAfter
<1>5. Carries(Stocked(c.good, c.damaged), Tables(o, c))
    BY <1>1, <1>3, <1>4, ReceivedCarries DEF Tables
<1>6. Tables(o, c) \in GoodDb /\ DOMAIN Tables(o, c).line = DOMAIN line
    BY <1>1, <1>3, <1>5, StockedGood DEF Carries
<1>7. /\ available' = Tables(o, c).available /\ legacy' = Tables(o, c).legacy
      /\ line' = Tables(o, c).line /\ UNCHANGED lifecycle
    BY DEF Book, Tables, TotalAfter
<1>8. back \in Nat
    BY <1>1, <1>4 DEF AtLeastZero
<1>9. po' = [po EXCEPT ![o] = ReceivedRow(row, c, back)]
    BY DEF Book, ReceivedRow, TotalAfter
<1> QED BY <1>3, <1>4, <1>5, <1>6, <1>7, <1>8, <1>9

\* What it makes of the reports.
LEMMA ReceiptReports ==
    ASSUME PIInv, NEW o \in Orders, NEW good \in Nat, NEW damaged \in Nat,
           NEW c, Books(o, good, damaged, c)
    PROVE  /\ report' \in Seq(GoodReport) /\ DOMAIN report' = DOMAIN report
           /\ \A r \in DOMAIN report : report'[r].wo = report[r].wo
<1> DEFINE rows == Tables(o, c).report
<1>1. IInv /\ report \in Seq(GoodReport)
    BY PInvRows
<1>2. PICK s \in PRStatus :
        report' = [r \in Reports |-> IF report[r].po = o THEN FinishReport(rows[r], s) ELSE rows[r]]
    <2> DEFINE s == IF TotalAfter(o, c) >= po[o].ordered THEN "fulfilled" ELSE "partially_fulfilled"
    <2>1. s \in PRStatus BY DEF PRStatus
    <2>2. report' = [r \in Reports |-> IF report[r].po = o THEN FinishReport(rows[r], s) ELSE rows[r]]
        BY DEF Books, Book, Tables, TotalAfter
    <2> QED BY <2>1, <2>2
<1>3. /\ Carries(Stocked(c.good, c.damaged), Tables(o, c)) /\ Tables(o, c) \in GoodDb
      /\ c.good \in Nat
    BY ReceiptTables
<1>4. ASSUME NEW r \in DOMAIN report
      PROVE  rows[r] \in GoodReport /\ rows[r].wo = report[r].wo
    <2>1. Stocked(c.good, c.damaged).report = report
        BY <1>1, <1>3, StockedGood
    <2>2. DOMAIN rows = DOMAIN report /\ rows[r].wo = report[r].wo
        BY <1>3, <2>1 DEF Carries
    <2> QED BY <1>3, <2>2, DbRows
<1> HIDE DEF rows
<1>5. ASSUME NEW r \in DOMAIN report
      PROVE  report'[r] \in GoodReport /\ report'[r].wo = report[r].wo
    BY <1>2, <1>4, <1>5, FinishedGood DEF Reports
<1>6. report' \in [DOMAIN report -> GoodReport]
    <2>1. report' = [r \in DOMAIN report |-> report'[r]]
        BY <1>2 DEF Reports
    <2> QED BY <1>5, <2>1
<1>7. report' \in Seq(GoodReport) /\ DOMAIN report' = DOMAIN report
    BY <1>1, <1>6, MapRows
<1> QED BY <1>5, <1>7

\* purchase_order_receive preserves the invariant.
LEMMA ReceiveStep ==
    ASSUME PIInv, NEW o \in Orders, NEW good \in Nat, NEW damaged \in Nat,
           NEW c, Books(o, good, damaged, c)
    PROVE  PIInv'
<1> DEFINE W == {line[l].wo : l \in {m \in Lines : line'[m].issued # line[m].issued}}
                        \cup {report[r].wo : r \in {q \in Reports :
                                 report'[q].blocker # report[q].blocker}}
<1>1. /\ IInv /\ LinksRight /\ StatusMatchesBlockers /\ po \in Seq(GoodOrder)
      /\ po[o] \in GoodOrder /\ o \in DOMAIN po
    BY PInvRows DEF PIInv, Orders
<1>2. /\ c.good \in Nat /\ c.damaged \in Nat
      /\ Carries(Stocked(c.good, c.damaged), Tables(o, c))
      /\ Tables(o, c) \in GoodDb
      /\ available' = Tables(o, c).available /\ legacy' = Tables(o, c).legacy
      /\ line' = Tables(o, c).line /\ UNCHANGED lifecycle
      /\ DOMAIN line' = DOMAIN line
    BY ReceiptTables
<1>3. /\ report' \in Seq(GoodReport) /\ DOMAIN report' = DOMAIN report
      /\ \A r \in DOMAIN report : report'[r].wo = report[r].wo
    BY ReceiptReports
<1>4. po' \in Seq(GoodOrder)
    <2>1. PICK back \in Nat : po' = [po EXCEPT ![o] = ReceivedRow(po[o], c, back)]
        BY ReceiptTables
    <2>2. po[o].status \in Open
        BY <1>1 DEF Books, IsLocked, GoodOrder, PORow, POStatus, Open
    <2>3. ReceivedRow(po[o], c, back) \in GoodOrder
        BY <1>1, <2>2, ReceivedRowGood DEF Books
    <2> QED BY <1>1, <2>1, <2>3, UpdateRow
<1>5. ASSUME NEW l \in DOMAIN line
      PROVE  /\ line'[l].wo = line[l].wo /\ line'[l].report = line[l].report
             /\ line'[l].issued = line[l].issued => line'[l].blocker = line[l].blocker
    BY <1>1, <1>2, StockedGood DEF Carries
<1>6. RecomputeAll(W)
    BY DEF Books, Book
<1>7. ASSUME NEW v \in WO \ W PROVE Steady(v)
    <2>1. ASSUME NEW l \in DOMAIN line, line[l].wo = v
          PROVE  line'[l].blocker = line[l].blocker
        <3>1. line'[l].issued = line[l].issued
            BY <1>7, <2>1 DEF Lines
        <3> QED BY <1>5, <3>1
    <2>2. ASSUME NEW r \in DOMAIN report, report[r].wo = v
          PROVE  report'[r].blocker = report[r].blocker
        BY <1>7, <2>2 DEF Reports
    <2> HIDE DEF W
    <2>3. Waits(line', v) = Waits(line, v)
        BY <1>2, <1>5, <2>1, WaitsKept
    <2>4. Waits(report', v) = Waits(report, v)
        BY <1>3, <2>2, WaitsKept
    <2> QED BY <1>2, <2>3, <2>4 DEF Steady
<1> HIDE DEF W
<1>8. StatusMatchesBlockers' /\ opStatus' \in [WO -> OpStatus]
    BY <1>1, <1>6, <1>7, StatusRecomputed
<1>9. LinksRight'
    <2> SUFFICES ASSUME NEW l \in DOMAIN line PROVE LinkRight(line'[l], report')
        BY <1>2 DEF LinksRight, Lines
    <2>1. LinkRight(line[l], report)
        BY <1>1 DEF LinksRight, Lines
    <2> QED BY <1>3, <1>5, <2>1 DEF LinkRight
<1>10. IInv'
    <2>1. available' \in Nat /\ legacy' \in [WO -> Nat] /\ line' \in Seq(GoodLine)
        BY <1>2, DbRows
    <2> QED BY <1>1, <1>2, <1>3, <1>8, <2>1 DEF IInv
<1> QED BY <1>4, <1>8, <1>9, <1>10 DEF PIInv

LEMMA ReceivingStep ==
    ASSUME PIInv, Receiving
    PROVE  PIInv'
<1>1. PICK o \in Orders, good \in 0..MaxQty, damaged \in 0..MaxQty, rejected \in 0..1 :
        Receive(o, good, damaged, rejected)
    BY DEF Receiving
<1>2. good \in Nat /\ damaged \in Nat /\ rejected \in Nat
    BY QtyType
<1> QED BY <1>1, <1>2, ReceiptBooks, ReceiveStep

\* The pipeline's own handlers.
LEMMA PipelineStep ==
    ASSUME PIInv, [Next]_vars, UNCHANGED po
    PROVE  PIInv'
<1>1. IInv /\ LinksRight /\ StatusMatchesBlockers /\ po \in Seq(GoodOrder)
    BY DEF PIInv
<1>2. HandlerSound /\ IInv'
    BY <1>1, NextSound, NextInv
<1>3. LinksRight'
    BY <1>1, <1>2, LinksStay DEF HandlerSound
<1>4. StatusMatchesBlockers'
    BY <1>1, <1>2, StatusKept DEF HandlerSound
<1> QED BY <1>1, <1>2, <1>3, <1>4 DEF PIInv

\* Every step of procurement and of the pipeline preserves the invariant.
LEMMA PNextInv == PIInv /\ [PNext]_pvars => PIInv'
<1> SUFFICES ASSUME PIInv, [PNext]_pvars PROVE PIInv'
    OBVIOUS
<1>1. CASE UNCHANGED pvars
    <2>1. UNCHANGED vars /\ UNCHANGED po
        BY <1>1 DEF pvars, vars
    <2> QED BY <2>1, PipelineStep
<1>2. CASE Next /\ UNCHANGED po
    BY <1>2, PipelineStep
<1>3. CASE Ordering
    BY <1>3, OrderingStep
<1>4. CASE Receiving
    BY <1>4, ReceivingStep
<1> QED BY <1>1, <1>2, <1>3, <1>4 DEF PNext

-------------------------------------------------------------------------------
(***************************************************************************)
(* Units booked.                                                           *)
(***************************************************************************)
\* The good units of one order, and of a table of orders row by row.
Net(x) == x.received - x.damaged

NetColumn(s) == [o \in DOMAIN s |-> Net(s[o])]

LEMMA NetColumns ==
    ASSUME NEW s \in Seq(GoodOrder)
    PROVE  /\ NetColumn(s) \in [DOMAIN s -> Nat] /\ IsFiniteSet(DOMAIN s)
           /\ GoodUnits(s) = Total(NetColumn(s)) /\ GoodUnits(s) \in Nat
<1>1. IsFiniteSet(DOMAIN s) /\ \A o \in DOMAIN s : s[o] \in GoodOrder
    BY TableProps
<1>2. \A x \in GoodOrder : Net(x) \in Nat
    BY DEF Net, GoodOrder, OrderSound, PORow
<1>3. NetColumn(s) \in [DOMAIN s -> Nat]
    BY <1>1, <1>2 DEF NetColumn
<1>4. GoodUnits(s) = Total(NetColumn(s))
    BY DEF GoodUnits, NetColumn, Net
<1>5. Total(NetColumn(s)) \in Nat
    BY <1>1, <1>3, TotalType
<1> QED BY <1>1, <1>3, <1>4, <1>5

\* Overwriting one order changes the sum by the difference.
LEMMA OrderUpdated ==
    ASSUME NEW s \in Seq(GoodOrder), NEW i \in DOMAIN s, NEW e \in GoodOrder,
           NEW t, t = [s EXCEPT ![i] = e]
    PROVE  GoodUnits(t) + Net(s[i]) = GoodUnits(s) + Net(e)
<1> DEFINE S == DOMAIN s
<1>1. t \in Seq(GoodOrder) /\ DOMAIN t = S
    BY UpdateRow
<1>2. /\ NetColumn(s) \in [S -> Nat] /\ NetColumn(t) \in [S -> Nat] /\ IsFiniteSet(S)
      /\ GoodUnits(s) = Total(NetColumn(s)) /\ GoodUnits(t) = Total(NetColumn(t))
    BY <1>1, NetColumns
<1>3. /\ AgreeOn(NetColumn(s), NetColumn(t), S \ {i})
      /\ NetColumn(s)[i] = Net(s[i]) /\ NetColumn(t)[i] = Net(e)
    BY <1>1 DEF AgreeOn, NetColumn
<1> HIDE DEF S
<1>4. i \in S BY DEF S
<1>5. Total(NetColumn(t)) + NetColumn(s)[i] = Total(NetColumn(s)) + NetColumn(t)[i]
    BY <1>2, <1>3, <1>4, TotalUpdate
<1> QED BY <1>2, <1>3, <1>5

\* A new order has received nothing.
LEMMA OrderAdded ==
    ASSUME NEW s \in Seq(GoodOrder), NEW q \in Nat, NEW t, t = Append(s, NewOrder(q))
    PROVE  GoodUnits(t) = GoodUnits(s)
<1> DEFINE k == Len(s) + 1
           hs == NetColumn(s)
           ht == NetColumn(t)
<1>1. t \in Seq(GoodOrder)
    BY NewOrderGood, AddRow
<1>2. /\ DOMAIN s = 1..Len(s) /\ Len(s) \in Nat /\ DOMAIN t = 1..k
      /\ t[k] = NewOrder(q) /\ \A o \in DOMAIN s : t[o] = s[o]
    BY TableProps
<1>3. k \notin DOMAIN s /\ DOMAIN t = DOMAIN s \cup {k}
    BY <1>2
<1>4. /\ hs \in [DOMAIN s -> Nat] /\ ht \in [DOMAIN t -> Nat] /\ IsFiniteSet(DOMAIN s)
      /\ GoodUnits(s) = Total(hs) /\ GoodUnits(t) = Total(ht)
      /\ GoodUnits(s) \in Nat
    BY <1>1, NetColumns
<1>5. ht[k] = 0 /\ \A o \in DOMAIN s : ht[o] = hs[o]
    BY <1>2, <1>3 DEF NetColumn, Net, NewOrder
<1>6. OneMoreRow(hs, ht, k, Nat)
    <2>1. DOMAIN hs = DOMAIN s /\ DOMAIN ht = DOMAIN t
        BY DEF NetColumn
    <2> HIDE DEF hs, ht, k
    <2> QED BY <1>3, <1>4, <1>5, <2>1 DEF OneMoreRow, AgreeOn
<1> HIDE DEF hs, ht, k
<1>7. Total(ht) = Total(hs) + ht[k]
    BY <1>6, TotalAdd
<1> QED BY <1>4, <1>5, <1>7

\* The step condition of the property.
BookedOnce ==
    po' # po =>
      available' + UnitsIssued(line') - GoodUnits(po')
        = available + UnitsIssued(line) - GoodUnits(po)

\* Work on the orders moves no unit.
LEMMA OrderingBooks ==
    ASSUME PIInv, Ordering
    PROVE  BookedOnce
<1>1. po \in Seq(GoodOrder) /\ IInv
    BY PInvRows
<1>2. /\ UNCHANGED <<available, line>>
      /\ \/ UNCHANGED po
         \/ \E q \in Nat : po' = Append(po, NewOrder(q))
         \/ \E o \in Orders, e \in GoodOrder : po' = [po EXCEPT ![o] = e] /\ Net(e) = Net(po[o])
    <2>1. ASSUME NEW q \in 0..MaxQty, NEW S \in SUBSET Reports, CreateOrder(q, S)
          PROVE  /\ UNCHANGED <<available, line>>
                 /\ \E n \in Nat : po' = Append(po, NewOrder(n))
        <3> DEFINE want == [r \in S |-> report[r].prQty]
        <3>1. IsFiniteSet(S)
            BY <1>1, TableProps, FS_Subset DEF Reports, IInv
        <3>2. want \in [S -> Nat]
            BY PInvRows DEF ReportRow
        <3>3. po' = Append(po, NewOrder(q + Total(want))) /\ UNCHANGED <<available, line>>
            BY <2>1 DEF CreateOrder
        <3> HIDE DEF want
        <3>4. q + Total(want) \in Nat
            BY <3>1, <3>2, TotalType, QtyType
        <3> QED BY <3>3, <3>4
    <2>2. ASSUME NEW r \in Reports, CreateOrderFromRequest(r)
          PROVE  /\ UNCHANGED <<available, line>>
                 /\ \E n \in Nat : po' = Append(po, NewOrder(n))
        BY <2>2, PInvRows DEF CreateOrderFromRequest, ReportRow
    <2>3. ASSUME NEW r \in Reports, NEW s \in PRStatus \ {"none"}, OfficerEdit(r, s)
          PROVE  UNCHANGED <<available, line, po>>
        BY <2>3 DEF OfficerEdit
    <2>4. ASSUME NEW o \in Orders
          PROVE  /\ po[o] \in GoodOrder /\ po[o].ordered \in Nat
                 /\ \A s \in POStatus : Net([po[o] EXCEPT !.status = s]) = Net(po[o])
                 /\ Net([po[o] EXCEPT !.status = "closed_short", !.backordered = 0]) = Net(po[o])
        BY PInvRows DEF PORow, Net
    <2>5. ASSUME NEW o \in Orders, Reorder(o)
          PROVE  /\ UNCHANGED <<available, line>>
                 /\ \E n \in Nat : po' = Append(po, NewOrder(n))
        BY <2>4, <2>5 DEF Reorder, vars
    <2>6. ASSUME NEW o \in Orders, CloseShort(o)
          PROVE  /\ UNCHANGED <<available, line>>
                 /\ \E e \in GoodOrder : po' = [po EXCEPT ![o] = e] /\ Net(e) = Net(po[o])
        <3>1. UNCHANGED <<available, line>>
              /\ po' = [po EXCEPT ![o] = [po[o] EXCEPT !.status = "closed_short", !.backordered = 0]]
              /\ po[o].status \in Open
            BY <2>6 DEF CloseShort, Open
        <3> QED BY <2>4, <3>1, ShortOrderGood
    <2>7. ASSUME NEW o \in Orders, CancelOrder(o)
          PROVE  /\ UNCHANGED <<available, line>>
                 /\ \E e \in GoodOrder : po' = [po EXCEPT ![o] = e] /\ Net(e) = Net(po[o])
        <3>1. UNCHANGED <<available, line>>
              /\ po' = [po EXCEPT ![o] = [po[o] EXCEPT !.status = "cancelled"]]
              /\ po[o].status \in Open
            BY <2>7 DEF CancelOrder, Open
        <3>2. [po[o] EXCEPT !.status = "cancelled"] \in GoodOrder /\ "cancelled" \in POStatus
            BY <2>4, <3>1, EditedOrderGood DEF POStatus
        <3> QED BY <2>4, <3>1, <3>2
    <2>8. ASSUME NEW o \in Orders, NEW s \in POStatus, EditOrder(o, s)
          PROVE  /\ UNCHANGED <<available, line>>
                 /\ \E e \in GoodOrder : po' = [po EXCEPT ![o] = e] /\ Net(e) = Net(po[o])
        <3>1. UNCHANGED <<available, line>> /\ po' = [po EXCEPT ![o] = [po[o] EXCEPT !.status = s]]
            BY <2>8 DEF EditOrder, vars
        <3>2. po[o].status \in Open
            BY <2>4, <2>8 DEF EditOrder, IsLocked, GoodOrder, PORow, POStatus, Open
        <3>3. [po[o] EXCEPT !.status = s] \in GoodOrder
            BY <2>4, <3>2, EditedOrderGood
        <3> QED BY <2>4, <3>1, <3>3
    <2> QED BY <2>1, <2>2, <2>3, <2>5, <2>6, <2>7, <2>8 DEF Ordering
<1>3. GoodUnits(po') = GoodUnits(po)
    <2>1. CASE UNCHANGED po
        BY <2>1
    <2>2. ASSUME NEW q \in Nat, po' = Append(po, NewOrder(q)) PROVE GoodUnits(po') = GoodUnits(po)
        BY <1>1, <2>2, OrderAdded
    <2>3. ASSUME NEW o \in Orders, NEW e \in GoodOrder, po' = [po EXCEPT ![o] = e],
                 Net(e) = Net(po[o])
          PROVE  GoodUnits(po') = GoodUnits(po)
        <3>1. o \in DOMAIN po /\ Net(e) \in Nat
            BY <1>1 DEF Orders, Net, GoodOrder, OrderSound, PORow
        <3>2. GoodUnits(po') + Net(po[o]) = GoodUnits(po) + Net(e)
            <4>1. po \in Seq(GoodOrder) /\ o \in DOMAIN po /\ po' = [po EXCEPT ![o] = e]
                BY <1>1, <2>3, <3>1
            <4> QED BY ONLY <4>1, e \in GoodOrder, OrderUpdated
        <3>3. po' \in Seq(GoodOrder)
            BY <1>1, <2>3, <3>1, UpdateRow
        <3>4. GoodUnits(po') \in Nat /\ GoodUnits(po) \in Nat
            BY <1>1, <3>3, NetColumns
        <3> QED BY <2>3, <3>1, <3>2, <3>4
    <2> QED BY <1>2, <2>1, <2>2, <2>3
<1> QED BY <1>2, <1>3 DEF BookedOnce

\* A receipt puts the good units on the shelf or on lines, once.
LEMMA ReceiveBooks ==
    ASSUME PIInv, NEW o \in Orders, NEW good \in Nat, NEW damaged \in Nat,
           NEW c, Books(o, good, damaged, c)
    PROVE  BookedOnce
<1> DEFINE d == Stocked(c.good, c.damaged)
<1>1. /\ c.good \in Nat /\ c.damaged \in Nat
      /\ Carries(d, Tables(o, c))
      /\ available' = Tables(o, c).available /\ line' = Tables(o, c).line
      /\ Tables(o, c) \in GoodDb
    BY ReceiptTables
<1>2. PICK back \in Nat : po' = [po EXCEPT ![o] = ReceivedRow(po[o], c, back)]
    BY ReceiptTables
<1>3. /\ IInv /\ po \in Seq(GoodOrder) /\ po[o] \in GoodOrder /\ po[o] \in PORow
      /\ o \in DOMAIN po
    BY PInvRows DEF Orders
<1>4. ReceivedRow(po[o], c, back) \in GoodOrder
    <2>1. po[o].status \in Open
        BY <1>3 DEF Books, IsLocked, PORow, POStatus, Open
    <2> QED BY <1>3, <2>1, ReceivedRowGood DEF Books
<1>5. d \in GoodDb /\ d.available = available + c.good /\ d.line = line
    BY <1>1, <1>3, StockedGood
<1>6. /\ available' + UnitsIssued(line') = available + c.good + UnitsIssued(line)
    BY <1>1, <1>5 DEF Carries
<1>7. Net(ReceivedRow(po[o], c, back)) = Net(po[o]) + c.good
    BY <1>1, <1>3 DEF Net, ReceivedRow, PORow
<1>8. GoodUnits(po') + Net(po[o]) = GoodUnits(po) + Net(ReceivedRow(po[o], c, back))
    <2> DEFINE e == ReceivedRow(po[o], c, back)
    <2>1. e \in GoodOrder /\ po' = [po EXCEPT ![o] = e]
        BY <1>2, <1>4
    <2> HIDE DEF e
    <2>2. GoodUnits(po') + Net(po[o]) = GoodUnits(po) + Net(e)
        BY <1>3, <2>1, OrderUpdated
    <2> QED BY <2>2 DEF e
<1>9. po' \in Seq(GoodOrder)
    BY <1>2, <1>3, <1>4, UpdateRow
<1>10. /\ GoodUnits(po') \in Nat /\ GoodUnits(po) \in Nat /\ Net(po[o]) \in Nat
       /\ UnitsIssued(line) \in Nat /\ UnitsIssued(line') \in Nat
       /\ available \in Nat /\ available' \in Nat
    <2>1. Net(po[o]) \in Nat
        BY <1>3 DEF Net, GoodOrder, OrderSound, PORow
    <2> QED BY <1>1, <1>3, <1>5, <1>9, <2>1, NetColumns, DbRows DEF IInv
<1>11. GoodUnits(po') = GoodUnits(po) + c.good
    BY <1>1, <1>7, <1>8, <1>10
<1> QED BY <1>1, <1>6, <1>10, <1>11 DEF BookedOnce

-------------------------------------------------------------------------------
(***************************************************************************)
(* The theorems.                                                           *)
(***************************************************************************)
\* Every order, receipt and handler of the pipeline preserves the invariant.
THEOREM PInvariance == PSpec => []PIInv
<1>1. PInit => PIInv
    BY StatusInit, EmptySeq DEF PInit, StatusIInv, PIInv
<1> QED BY <1>1, PNextInv, PTL DEF PSpec

\* The two narrowed instances that TLC explores take steps of procurement only.
THEOREM NarrowerSpecs == (CompetingSpec => PSpec) /\ (ShortSpec => PSpec)
<1>1. Competing => Next
    BY DEF Competing, Next, Technician, LineDecision, Warehouse, ShortageDecision
<1>2. Short => Next
    BY DEF Short, Next, Technician, ShortageDecision
<1>3. Shortened => Ordering
    BY DEF Shortened, Ordering
<1>4. [CompetingNext]_pvars => [PNext]_pvars
    BY <1>1 DEF CompetingNext, PNext
<1>5. [ShortNext]_pvars => [PNext]_pvars
    BY <1>2, <1>3 DEF ShortNext, PNext
<1> QED BY <1>4, <1>5, PTL DEF CompetingSpec, ShortSpec, PSpec

\* The rows keep their types, and no sequence of partial receipts, edits, closings
\* and clones books more than was ordered and the one unit that rounding good and
\* damaged quantities apart adds to the receipt that completes the order.
THEOREM OrdersNeverOverReceived == PSpec => []ProcurementInv
<1>1. PIInv => ProcurementInv
    <2> SUFFICES ASSUME PIInv PROVE ProcurementInv
        OBVIOUS
    <2>1. TypeOK
        BY InvTypes DEF PIInv
    <2>2. po \in Seq(PORow)
        BY PInvRows, SeqMonotonic DEF GoodOrder
    <2>3. NeverOverReceived
        <3>1. \A o \in Orders : po[o] \in PORow /\ OrderSound(po[o])
            BY PInvRows DEF GoodOrder
        <3> QED BY <3>1 DEF NeverOverReceived, OrderSound, PORow
    <2> QED BY <2>1, <2>2, <2>3 DEF ProcurementInv
<1> QED BY <1>1, PInvariance, PTL

\* The displayed status stays the derived one through receipts and releases, which
\* recompute several work orders at once.
THEOREM StatusIsCurrentThroughReceipts == PSpec => []StatusMatchesBlockers
BY PInvariance, PTL DEF PIInv

\* A receipt, a cancelled or shortened order leaves no SHORTAGE blocker open on a
\* finished report.
THEOREM ReceiptsLeaveNoOrphans == PSpec => []NoOrphanShortageBlocker
<1>1. PIInv => NoOrphanShortageBlocker
    BY PInvRows DEF NoOrphanShortageBlocker, GoodReport, ReportSound
<1> QED BY <1>1, PInvariance, PTL

\* What the pipeline guarantees on its own it keeps with procurement next to it:
\* refused lines hold nothing, open PART blockers wait for live lines, reservations
\* stay within what was granted and decisions add up.
THEOREM PipelineSoundWithProcurement ==
    PSpec => [](RefusedHoldsNothing /\ NoOrphanPartBlocker /\ ReservedWasAllocated /\ BooksBalance)
<1>1. PIInv => RefusedHoldsNothing /\ NoOrphanPartBlocker /\ ReservedWasAllocated /\ BooksBalance
    <2> SUFFICES ASSUME PIInv
                 PROVE  /\ RefusedHoldsNothing /\ NoOrphanPartBlocker
                        /\ ReservedWasAllocated /\ BooksBalance
        OBVIOUS
    <2>1. IInv BY DEF PIInv
    <2>2. RefusedHoldsNothing /\ NoOrphanPartBlocker /\ ReservedWasAllocated
        BY <2>1, InvRows
           DEF RefusedHoldsNothing, NoOrphanPartBlocker, ReservedWasAllocated, GoodLine, LineSound
    <2>3. BooksBalance
        BY <2>1, InvRows DEF BooksBalance, GoodReport, ReportSound
    <2> QED BY <2>2, <2>3
<1> QED BY <1>1, PInvariance, PTL

\* A receipt's good units are booked once, on the shelf or on the lines.
THEOREM ReceiptsAreBookedOnce == PSpec => ReceiptConserved
<1>1. ASSUME PIInv, PNext PROVE BookedOnce
    <2>1. CASE Next /\ UNCHANGED po
        BY <2>1 DEF BookedOnce
    <2>2. CASE Ordering
        BY <1>1, <2>2, OrderingBooks
    <2>3. ASSUME NEW o \in Orders, NEW good \in 0..MaxQty, NEW damaged \in 0..MaxQty,
                 NEW rejected \in 0..1, Receive(o, good, damaged, rejected)
          PROVE  BookedOnce
        <3>1. good \in Nat /\ damaged \in Nat /\ rejected \in Nat
            BY QtyType
        <3> QED BY <1>1, <2>3, <3>1, ReceiptBooks, ReceiveBooks
    <2> QED BY <1>1, <2>1, <2>2, <2>3 DEF PNext, Receiving
<1>2. PIInv /\ [PNext]_pvars => BookedOnce
    <2>1. UNCHANGED pvars => BookedOnce
        BY DEF pvars, BookedOnce
    <2> QED BY <1>1, <2>1
<1>3. ReceiptConserved <=> [][BookedOnce]_pvars
    BY PTL DEF ReceiptConserved, BookedOnce
<1> QED BY <1>2, <1>3, PInvariance, PTL DEF PSpec

-------------------------------------------------------------------------------
(***************************************************************************)
(* The queue.                                                              *)
(***************************************************************************)
\* What a line gets is what it lacks or all that is free, and nothing else moves.
LEMMA TurnTaken ==
    ASSUME NEW d \in GoodDb, NEW l \in DOMAIN d.line, NEW e, e = AllocateNext(d, l)
    PROVE  /\ FreeIn(d) \in Nat /\ FreeIn(e) \in Nat /\ FreeIn(e) <= FreeIn(d)
           /\ \A k \in DOMAIN d.line \ {l} : e.line[k] = d.line[k]
           /\ FreeIn(d) = 0 => e.line[l].allocated = d.line[l].allocated
           /\ d.line[l].status \in ActiveStatus /\ d.line[l].reserved = 0 =>
                e.line[l].allocated >= d.line[l].approved \/ FreeIn(e) = 0
<1> DEFINE x == d.line[l]
           free == FreeIn(d)
           give == Grant(x, free)
           y == AllocateOne(x, free)
           t == [d.line EXCEPT ![l] = y]
<1>1. /\ d.available \in Nat /\ d.legacy \in [WO -> Nat] /\ d.line \in Seq(LineRow)
      /\ x \in LineRow /\ x \in GoodLine
      /\ x.allocated \in Nat /\ x.approved \in Nat /\ x.reserved \in Nat
    BY DbRows DEF LineRow
<1>2. /\ free \in Nat /\ free = AtLeastZero(d.available - (Held(d.line) + Total(d.legacy)))
      /\ Held(d.line) \in Nat /\ Total(d.legacy) \in Nat
    <2>1. ReservedIn(d.line, d.legacy) \in Nat
        BY <1>1, ReservedInType
    <2>2. ReservedIn(d.line, d.legacy) = Held(d.line) + Total(d.legacy)
        BY DEF ReservedIn, Held
    <2>3. Held(d.line) \in Nat
        BY DbRows
    <2>4. Total(d.legacy) \in Nat
        BY <1>1, ConstantsAssumption, TotalType
    <2> QED BY <1>1, <2>1, <2>2, <2>3, <2>4 DEF FreeIn, AtLeastZero
<1>3. CASE ~ CanAllocate(x, free)
    <2>1. e = d
        BY <1>3 DEF AllocateNext
    <2>2. x.reserved # 0
        BY <1>3 DEF CanAllocate
    <2> QED BY <1>2, <2>1, <2>2
<1>4. CASE CanAllocate(x, free)
    <2> HIDE DEF free
    <2>1. /\ y \in LineRow /\ give \in Nat /\ give <= free
          /\ y.reserved = x.reserved + give
        <3> HIDE DEF x
        <3>1. y \in GoodLine
            BY <1>1, <1>2, AllocateOneGood
        <3>2. give \in Nat /\ give <= free /\ y.reserved = x.reserved + give
            <4>1. /\ y = AllocateOne(x, free) /\ give = Grant(x, free)
                  /\ x \in LineRow /\ free \in Nat
                BY <1>1, <1>2
            <4> HIDE DEF y, give, t
            <4>2. /\ y.reserved = x.reserved + Grant(x, free)
                  /\ Grant(x, free) \in Nat /\ Grant(x, free) <= free
                BY <4>1, AllocatedRow
            <4> QED BY <4>1, <4>2
        <3> QED BY <3>1, <3>2 DEF GoodLine
    <2>2. y.allocated = x.allocated + give
        <3>1. give = 0 => y = x
            BY DEF AllocateOne
        <3>2. give # 0 => y.allocated = x.allocated + give
            BY <1>1 DEF AllocateOne, LineRow
        <3> QED BY <1>1, <3>1, <3>2
    <2>3. x.status \in ActiveStatus => x.allocated + give >= x.approved \/ give = free
        BY <1>1, <1>2 DEF Grant, MinOf
    <2>4. /\ e.line = t /\ e.available = d.available /\ e.legacy = d.legacy
        BY <1>4 DEF AllocateNext, GoodDb, free
    <2> HIDE DEF x, y, give
    <2>5. Held(t) = Held(d.line) + give
        <3>1. Held(t) + d.line[l].reserved = Held(d.line) + y.reserved
            BY <1>1, <2>1, LineUpdated
        <3>2. Held(t) \in Nat
            BY <1>1, <2>1, UpdateRow, Columns
        <3>3. d.line[l].reserved = x.reserved
            BY DEF x
        <3> HIDE DEF t
        <3>4. x.reserved \in Nat /\ give \in Nat /\ Held(d.line) \in Nat
            BY <1>1, <1>2, <2>1
        <3>5. Held(t) + x.reserved = Held(d.line) + (x.reserved + give)
            BY <2>1, <3>1, <3>3
        <3> QED BY ONLY <3>2, <3>4, <3>5
    <2>6. FreeIn(e) = free - give
        <3>1. ReservedIn(e.line, e.legacy) = Held(t) + Total(d.legacy)
            BY <2>4 DEF ReservedIn, Held
        <3>2. FreeIn(e) = AtLeastZero(d.available - (Held(d.line) + give + Total(d.legacy)))
            BY <2>4, <2>5, <3>1 DEF FreeIn
        <3> QED BY <1>1, <1>2, <2>1, <3>2 DEF AtLeastZero
    <2>7. e.line[l] = y /\ \A k \in DOMAIN d.line \ {l} : e.line[k] = d.line[k]
        BY <1>1, <2>4
    <2> HIDE DEF t
    <2> QED BY <1>1, <1>2, <2>1, <2>2, <2>3, <2>6, <2>7 DEF free, x
<1> QED BY <1>3, <1>4

\* The lines that take their turn in a pass over the work orders in W.
Eligible(W, k) == line[k].status \in ActiveStatus /\ line[k].wo \in W

Waiting(x) == x.status \in ActiveStatus /\ x.reserved = 0

\* After the first n rows of a pass from d to e: the others are untouched, and a
\* line that waited has all it was approved for or nothing was left behind it.
QueueKept(d, W, e, n) ==
    /\ \A k \in DOMAIN d.line : ~Eligible(W, k) \/ k > n => e.line[k] = d.line[k]
    /\ FreeIn(e) \in Nat /\ FreeIn(e) <= FreeIn(d)
    /\ FreeIn(d) = 0 => SameGrants(d, e)
    /\ \A m \in DOMAIN d.line : Eligible(W, m) /\ m <= n /\ Waiting(d.line[m]) =>
         \/ e.line[m].allocated >= d.line[m].approved
         \/ /\ FreeIn(e) = 0
            /\ \A l \in DOMAIN d.line : l > m => e.line[l].allocated = d.line[l].allocated

LEMMA QueueStart ==
    ASSUME NEW d \in GoodDb, NEW W
    PROVE  QueueKept(d, W, d, 0)
<1>1. d.available \in Nat /\ ReservedIn(d.line, d.legacy) \in Nat
    BY DbRows, ReservedInType
<1>2. FreeIn(d) \in Nat
    BY <1>1 DEF FreeIn, AtLeastZero
<1>3. \A m \in DOMAIN d.line : m \in Nat /\ ~(m <= 0)
    BY DbRows, TableProps
<1> QED BY <1>2, <1>3 DEF QueueKept, SameGrants

LEMMA QueueNext ==
    ASSUME NEW d \in GoodDb, NEW W, NEW n \in Nat, n + 1 \in DOMAIN d.line,
           NEW c, Carries(d, c), QueueKept(d, W, c, n),
           NEW e, e = ServedNext(c, W, n + 1)
    PROVE  QueueKept(d, W, e, n + 1)
<1> DEFINE j == n + 1
           D == DOMAIN d.line
<1>0. /\ c \in GoodDb /\ DOMAIN c.line = D /\ j \in DOMAIN c.line
      /\ \A k \in D : k \in Nat
      /\ FreeIn(d) \in Nat
    <2>1. \A k \in D : k \in Nat
        BY DbRows, TableProps
    <2>2. FreeIn(d) \in Nat
        BY QueueStart DEF QueueKept
    <2> QED BY <2>1, <2>2 DEF Carries
<1>1. CASE ~Eligible(W, j)
    <2>1. e = c
        BY <1>1 DEF ServedNext, Eligible
    <2>2. \A k \in D : (k > j => k > n) /\ (k <= j /\ Eligible(W, k) => k <= n)
        BY <1>0, <1>1
    <2> HIDE DEF j, D
    <2> QED BY <2>1, <2>2 DEF QueueKept, j, D
<1>2. CASE Eligible(W, j)
    <2>1. e = AllocateNext(c, j)
        BY <1>2 DEF ServedNext, Eligible
    <2> HIDE DEF j
    <2>2. /\ FreeIn(c) \in Nat /\ FreeIn(e) \in Nat /\ FreeIn(e) <= FreeIn(c)
          /\ \A k \in D \ {j} : e.line[k] = c.line[k]
          /\ FreeIn(c) = 0 => e.line[j].allocated = c.line[j].allocated
          /\ Waiting(c.line[j]) => e.line[j].allocated >= c.line[j].approved \/ FreeIn(e) = 0
        BY <1>0, <2>1, TurnTaken DEF Waiting
    <2>3. FreeIn(c) = 0 => SameGrants(c, e)
        BY <1>0, <2>2 DEF SameGrants
    <2>4. \A k \in D : /\ k > j => k > n /\ k # j
                       /\ k <= j => k <= n \/ k = j
        BY <1>0 DEF j
    <2>5. j > n /\ j \in D
        BY <1>0 DEF j
    <2> HIDE DEF D
    <2>6. \A k \in D : ~Eligible(W, k) \/ k > j => e.line[k] = d.line[k]
        BY <1>2, <2>2, <2>4 DEF QueueKept, D
    <2>7. FreeIn(e) \in Nat /\ FreeIn(e) <= FreeIn(d)
        BY <1>0, <2>2 DEF QueueKept
    <2>8. FreeIn(d) = 0 => SameGrants(d, e)
        <3>1. FreeIn(d) = 0 => FreeIn(c) = 0 /\ SameGrants(d, c)
            BY <1>0, <2>2 DEF QueueKept
        <3> QED BY <1>0, <2>3, <3>1 DEF SameGrants, D
    <2>9. ASSUME NEW m \in D, Eligible(W, m), m <= j, Waiting(d.line[m])
          PROVE  \/ e.line[m].allocated >= d.line[m].approved
                 \/ /\ FreeIn(e) = 0
                    /\ \A l \in D : l > m => e.line[l].allocated = d.line[l].allocated
        <3>1. CASE m = j
            <4>1. c.line[j] = d.line[j]
                BY <2>5 DEF QueueKept, D
            <4>2. \A l \in D : l > j => e.line[l] = d.line[l]
                BY <2>6
            <4> QED BY <2>2, <2>9, <3>1, <4>1, <4>2
        <3>2. CASE m <= n /\ m # j
            <4>1. \/ c.line[m].allocated >= d.line[m].approved
                  \/ /\ FreeIn(c) = 0
                     /\ \A l \in D : l > m => c.line[l].allocated = d.line[l].allocated
                BY <2>9, <3>2 DEF QueueKept, D
            <4>2. e.line[m] = c.line[m]
                BY <2>2, <3>2
            <4>3. FreeIn(c) = 0 => FreeIn(e) = 0
                BY <2>2
            <4> QED BY <1>0, <2>3, <4>1, <4>2, <4>3 DEF SameGrants
        <3> QED BY <2>4, <2>9, <3>1, <3>2
    <2> QED BY <2>6, <2>7, <2>8, <2>9 DEF QueueKept, D, j
<1> QED BY <1>1, <1>2

\* A whole pass.
LEMMA QueuePass ==
    ASSUME NEW d \in GoodDb, NEW W, line \in Seq(GoodLine), DOMAIN d.line = DOMAIN line
    PROVE  QueueKept(d, W, InTurn(d, W), Len(line))
<1> DEFINE n == Len(line)
<1>1. n \in Nat /\ DOMAIN line = 1..n
    BY TableProps
<1>2. PICK f : Served(d, W, n, f) /\ InTurn(d, W) = f[n]
    BY <1>1, InTurnServed
<1> DEFINE S == {k \in 0..n : Carries(d, f[k]) /\ QueueKept(d, W, f[k], k)}
<1>3. f[0] = d /\ \A k \in 1..n : f[k] = ServedNext(f[k - 1], W, k)
    <2>1. n \in Nat /\ Served(d, W, n, f)
        BY <1>1, <1>2
    <2> HIDE DEF n, S
    <2> QED BY <2>1, ServedOnward
<1>4. 0 \in S
    BY <1>1, <1>3, CarriesSelf, QueueStart
<1>5. ASSUME NEW k \in 1..n, k - 1 \in S PROVE k \in S
    <2> DEFINE i == k - 1
    <2>1. /\ Carries(d, f[i]) /\ QueueKept(d, W, f[i], i) /\ k \in 0..n /\ i \in Nat
          /\ f[k] = ServedNext(f[i], W, k) /\ k = i + 1
        BY <1>1, <1>3, <1>5
    <2>2. f[i] \in GoodDb /\ k \in DOMAIN f[i].line /\ k \in DOMAIN d.line
        BY <1>1, <2>1 DEF Carries
    <2> HIDE DEF i
    <2>3. Carries(d, f[k])
        <3>1. CASE f[k] = AllocateNext(f[i], k)
            BY <2>1, <2>2, <3>1, AllocateNextCarries, CarriesOn
        <3>2. CASE f[k] = f[i]
            BY <2>1, <3>2
        <3> QED BY <2>1, <3>1, <3>2 DEF ServedNext
    <2>4. QueueKept(d, W, f[k], i + 1)
        <3> DEFINE c == f[i]
                   e == f[k]
        <3>1. /\ i \in Nat /\ i + 1 \in DOMAIN d.line /\ Carries(d, c) /\ QueueKept(d, W, c, i)
              /\ e = ServedNext(c, W, i + 1)
            BY <2>1, <2>2
        <3> HIDE DEF c, e
        <3>2. QueueKept(d, W, e, i + 1)
            BY <3>1, QueueNext
        <3> QED BY <3>2 DEF e
    <2> QED BY <2>1, <2>3, <2>4
<1> HIDE DEF S
<1>6. 0..n \subseteq S
    BY <1>1, <1>4, <1>5, RowByRow
<1> QED BY <1>1, <1>2, <1>6 DEF S

\* Two passes respect the queue.
LEMMA TwoPasses ==
    ASSUME NEW d \in GoodDb, line \in Seq(GoodLine), d.line = line,
           NEW b, b = Reallocate(d),
           NEW l \in Lines, NEW m \in Lines,
           b.line[l].allocated # line[l].allocated, Ahead(m, l), Waiting(line[m])
    PROVE  b.line[m].allocated >= line[m].approved
<1> DEFINE a == InTurn(d, Emergency)
           n == Len(line)
           R == WO \ Emergency
<1>1. Carries(d, a) /\ QueueKept(d, Emergency, a, n)
    BY ReallocateCarries, QueuePass
<1>2. a \in GoodDb /\ DOMAIN a.line = DOMAIN line
    BY <1>1 DEF Carries
<1>3. QueueKept(a, R, b, n)
    <2>1. b = InTurn(a, R)
        BY DEF Reallocate
    <2> HIDE DEF a, R
    <2> QED BY <1>2, <2>1, QueuePass
<1>4. /\ l \in DOMAIN line /\ m \in DOMAIN line /\ m <= n /\ l <= n
      /\ ~(l > n) /\ ~(m > n) /\ line[l].wo \in WO /\ line[m].wo \in WO
      /\ line[m].status \in ActiveStatus
    <2>1. \A k \in DOMAIN line : line[k] \in GoodLine
        BY TableProps
    <2>2. line[l].wo \in WO /\ line[m].wo \in WO
        BY <2>1 DEF Lines, GoodLine, LineRow
    <2> QED BY <2>2, TableProps DEF Lines, Waiting
<1> HIDE DEF a, n
<1>5. CASE line[m].wo \in Emergency /\ line[l].wo \notin Emergency
    <2>1. Eligible(Emergency, m) /\ ~Eligible(Emergency, l) /\ ~Eligible(R, m)
        BY <1>4, <1>5 DEF Eligible
    <2>2. a.line[l] = line[l] /\ b.line[m] = a.line[m]
        BY <1>1, <1>2, <1>3, <1>4, <2>1 DEF QueueKept
    <2>3. FreeIn(a) # 0
        BY <1>2, <1>3, <1>4, <2>2 DEF QueueKept, SameGrants
    <2>4. a.line[m].allocated >= line[m].approved
        BY <1>1, <1>4, <2>1, <2>3 DEF QueueKept
    <2> QED BY <2>2, <2>4
<1>6. CASE line[m].wo \in Emergency /\ line[l].wo \in Emergency /\ m < l
    <2>1. Eligible(Emergency, m) /\ ~Eligible(R, l) /\ ~Eligible(R, m)
        BY <1>4, <1>6 DEF Eligible
    <2>2. b.line[l] = a.line[l] /\ b.line[m] = a.line[m]
        BY <1>2, <1>3, <1>4, <2>1 DEF QueueKept
    <2>3. l > m
        BY <1>4, <1>6, TableProps
    <2>4. a.line[m].allocated >= line[m].approved
        BY <1>1, <1>4, <2>1, <2>2, <2>3 DEF QueueKept
    <2> QED BY <2>2, <2>4
<1>7. CASE line[m].wo \notin Emergency /\ line[l].wo \notin Emergency /\ m < l
    <2>1. Eligible(R, m) /\ ~Eligible(Emergency, l) /\ ~Eligible(Emergency, m)
        BY <1>4, <1>7 DEF Eligible
    <2>2. a.line[l] = line[l] /\ a.line[m] = line[m]
        BY <1>1, <1>4, <2>1 DEF QueueKept
    <2>3. l > m
        BY <1>4, <1>7, TableProps
    <2> QED BY <1>2, <1>3, <1>4, <2>1, <2>2, <2>3 DEF QueueKept
<1> QED BY <1>5, <1>6, <1>7 DEF Ahead

\* The step condition of the property.
InQueueOrder ==
    po' # po =>
      \A l, m \in Lines :
         /\ line'[l].allocated > line[l].allocated
         /\ Ahead(m, l)
         /\ line[m].status \in ActiveStatus
         /\ line[m].reserved = 0
         => line'[m].allocated >= line[m].approved

LEMMA ReceiveInOrder ==
    ASSUME PIInv, NEW o \in Orders, NEW good \in Nat, NEW damaged \in Nat,
           NEW c, Books(o, good, damaged, c)
    PROVE  InQueueOrder
<1>1. /\ c.good \in Nat /\ c.damaged \in Nat /\ TotalAfter(o, c) \in Nat
      /\ Carries(Stocked(c.good, c.damaged), Tables(o, c))
      /\ line' = Tables(o, c).line
    BY ReceiptTables
<1> DEFINE d == Stocked(c.good, c.damaged)
           b == IF c.good + c.damaged > 0 THEN Reallocate(d) ELSE d
<1> SUFFICES ASSUME NEW l \in Lines, NEW m \in Lines,
                    line'[l].allocated > line[l].allocated, Ahead(m, l),
                    line[m].status \in ActiveStatus, line[m].reserved = 0
             PROVE  line'[m].allocated >= line[m].approved
    BY DEF InQueueOrder
<1>2. IInv /\ line \in Seq(GoodLine) /\ report \in Seq(GoodReport)
    BY PInvRows DEF IInv
<1>3. d \in GoodDb /\ d.line = line
    BY <1>1, <1>2, StockedGood
<1>4. Tables(o, c) = IssueLinked(b, o, TotalAfter(o, c))
    BY DEF Tables, Received
<1> HIDE DEF d
<1>5. Carries(d, b)
    BY <1>2, <1>3, ReallocateCarries, CarriesSelf
<1>6. b \in GoodDb /\ DOMAIN b.line = DOMAIN line
    BY <1>3, <1>5 DEF Carries
<1>7. \A k \in Lines : line'[k].allocated = b.line[k].allocated
    <2> HIDE DEF b
    <2>1. SameGrants(b, IssueLinked(b, o, TotalAfter(o, c)))
        BY <1>1, <1>2, <1>6, IssueLinkedIssues DEF Issues
    <2> QED BY <1>1, <1>4, <1>6, <2>1 DEF SameGrants, Lines
<1>8. line[l].allocated \in Nat
    BY <1>2, TableProps DEF Lines, GoodLine, LineRow
<1>9. b.line[l].allocated # line[l].allocated
    <2>1. line'[l].allocated = b.line[l].allocated
        BY <1>7
    <2>2. line'[l].allocated \in Nat
        <3>1. b.line[l] \in LineRow
            BY <1>6, DbRows DEF Lines
        <3> QED BY <2>1, <3>1 DEF LineRow
    <2> QED BY <1>8, <2>1, <2>2
<1>10. b = Reallocate(d)
    BY <1>3, <1>9
<1> HIDE DEF b
<1>11. b.line[m].allocated >= line[m].approved
    BY <1>2, <1>3, <1>9, <1>10, TwoPasses DEF Waiting
<1> QED BY <1>7, <1>11

\* Reallocation serves the queue in order: nobody gains in a receipt over a waiting
\* line ahead of it that still lacks something.
THEOREM ReceiptsRespectQueue == PSpec => QueueRespected
<1>1. ASSUME PIInv, PNext PROVE InQueueOrder
    <2>1. CASE Next /\ UNCHANGED po
        BY <2>1 DEF InQueueOrder
    <2>2. CASE Ordering
        <3>1. UNCHANGED line
            BY <2>2 DEF Ordering, CreateOrder, CreateOrderFromRequest, OfficerEdit, Reorder,
               EditOrder, CloseShort, CancelOrder, vars
        <3>2. \A l \in Lines : line[l].allocated \in Nat
            BY <1>1, InvRows DEF PIInv, GoodLine, LineRow
        <3> QED BY <3>1, <3>2 DEF InQueueOrder
    <2>3. ASSUME NEW o \in Orders, NEW good \in 0..MaxQty, NEW damaged \in 0..MaxQty,
                 NEW rejected \in 0..1, Receive(o, good, damaged, rejected)
          PROVE  InQueueOrder
        <3>1. good \in Nat /\ damaged \in Nat /\ rejected \in Nat
            BY QtyType
        <3> QED BY <1>1, <2>3, <3>1, ReceiptBooks, ReceiveInOrder
    <2> QED BY <1>1, <2>1, <2>2, <2>3 DEF PNext, Receiving
<1>2. PIInv /\ [PNext]_pvars => InQueueOrder
    <2>1. UNCHANGED pvars => InQueueOrder
        BY DEF pvars, InQueueOrder
    <2> QED BY <1>1, <2>1
<1>3. QueueRespected <=> [][InQueueOrder]_pvars
    BY PTL DEF QueueRespected, InQueueOrder
<1> QED BY <1>2, <1>3, PInvariance, PTL DEF PSpec
===============================================================================

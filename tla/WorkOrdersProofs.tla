--------------------------- MODULE WorkOrdersProofs ---------------------------
(***************************************************************************)
(* The invariants of WorkOrders, for every set of work orders, technicians *)
(* and bounds.  A handler threads one value of Db through its steps, so the*)
(* lemmas speak of such values: Good(d, S) is the invariant with the       *)
(* operational status of the work orders in S still to be recomputed.      *)
(***************************************************************************)
EXTENDS WorkOrders, TLAPS

DbType == [wo: [WO -> WORow], pause: [WO -> WO \cup {"none", "own"}],
           parts: [WO -> BOOLEAN], repair: Seq(RepairRow)]

ClocksOK(row) ==
    /\ row.lifecycle \in {"in_progress", "pending_review"} => row.downtime = "open"
    /\ row.lifecycle = "closed" <=> row.downtime = "ended"
    /\ row.lifecycle \in {"pending_review", "closed"} => row.labour = "stopped"

\* A work order that was not created yet has no technician and waits for nothing.
Idle(d, w) ==
    d.wo[w].lifecycle = "absent" =>
        d.wo[w].tech = NoTech /\ ~d.parts[w] /\ ~WaitsForVendor(d, w)

VendorOK(row) == row.blocker = "open" => row.ero \notin {"returned", "closed"}

Good(d, S) ==
    /\ d \in DbType
    /\ \A w \in WO : ClocksOK(d.wo[w])
    /\ \A w \in WO : Idle(d, w)
    /\ \A w \in WO \ S : d.wo[w].lifecycle # "closed" => d.wo[w].status = DerivedStatus(d, w)
    /\ \A r \in DOMAIN d.repair : VendorOK(d.repair[r])

\* The inductive invariant.
WInv == Good(Db, {})

-------------------------------------------------------------------------------
\* The derived status is an operational status.
LEMMA DerivedType ==
    ASSUME NEW d, NEW w PROVE DerivedStatus(d, w) \in OperationalStatus
BY DEF DerivedStatus, OperationalStatus

\* Recomputing settles the status of the work orders it is called for and
\* touches nothing else.
LEMMA RecomputedGood ==
    ASSUME NEW d, NEW S, Good(d, S)
    PROVE  /\ Good(Recomputed(d, S), {})
           /\ Recomputed(d, S).pause = d.pause
           /\ Recomputed(d, S).parts = d.parts
           /\ Recomputed(d, S).repair = d.repair
           /\ \A w \in WO : /\ Recomputed(d, S).wo[w].lifecycle = d.wo[w].lifecycle
                            /\ Recomputed(d, S).wo[w].tech = d.wo[w].tech
                            /\ Recomputed(d, S).wo[w].labour = d.wo[w].labour
                            /\ Recomputed(d, S).wo[w].downtime = d.wo[w].downtime
<1> DEFINE e == Recomputed(d, S)
<1>1. d \in DbType
  BY DEF Good
<1> DEFINE f == [w \in WO |-> IF w \in S /\ d.wo[w].lifecycle # "closed"
                             THEN [d.wo[w] EXCEPT !.status = DerivedStatus(d, w)]
                             ELSE d.wo[w]]
<1>a. e = [d EXCEPT !.wo = f]
  BY DEF Recomputed
<1>2. /\ e.pause = d.pause /\ e.parts = d.parts /\ e.repair = d.repair /\ e.wo = f
      /\ e = [wo |-> e.wo, pause |-> e.pause, parts |-> e.parts, repair |-> e.repair]
  <2> HIDE DEF f, e
  <2> QED BY <1>1, <1>a DEF DbType
<1> HIDE DEF e
<1>3. ASSUME NEW w \in WO
      PROVE  /\ e.wo[w] \in WORow
             /\ e.wo[w].lifecycle = d.wo[w].lifecycle
             /\ e.wo[w].tech = d.wo[w].tech
             /\ e.wo[w].labour = d.wo[w].labour
             /\ e.wo[w].downtime = d.wo[w].downtime
             /\ DerivedStatus(e, w) = DerivedStatus(d, w)
             /\ WaitsForVendor(e, w) <=> WaitsForVendor(d, w)
             /\ e.wo[w].lifecycle # "closed" => e.wo[w].status = DerivedStatus(e, w)
  <2>1. d.wo[w] \in WORow
    BY <1>1 DEF DbType
  <2>2. e.wo[w] = IF w \in S /\ d.wo[w].lifecycle # "closed"
                  THEN [d.wo[w] EXCEPT !.status = DerivedStatus(d, w)] ELSE d.wo[w]
    BY <1>2
  <2>3. DerivedStatus(d, w) \in OperationalStatus
    BY DerivedType
  <2>4. /\ e.wo[w] \in WORow
        /\ e.wo[w].lifecycle = d.wo[w].lifecycle
        /\ e.wo[w].tech = d.wo[w].tech
        /\ e.wo[w].labour = d.wo[w].labour
        /\ e.wo[w].downtime = d.wo[w].downtime
        /\ w \in S /\ d.wo[w].lifecycle # "closed" => e.wo[w].status = DerivedStatus(d, w)
        /\ w \notin S => e.wo[w].status = d.wo[w].status
    BY <2>1, <2>2, <2>3 DEF WORow
  <2>5. WaitsForVendor(e, w) <=> WaitsForVendor(d, w)
    BY <1>2 DEF WaitsForVendor
  <2>6. DerivedStatus(e, w) = DerivedStatus(d, w)
    BY <1>2, <2>4, <2>5 DEF DerivedStatus
  <2>7. e.wo[w].lifecycle # "closed" => e.wo[w].status = DerivedStatus(e, w)
    BY <2>4, <2>6 DEF Good
  <2> QED BY <2>4, <2>5, <2>6, <2>7
<1>4. e \in DbType
  BY <1>1, <1>2, <1>3 DEF DbType
<1>5. \A w \in WO : ClocksOK(e.wo[w]) /\ Idle(e, w)
  <2> SUFFICES ASSUME NEW w \in WO PROVE ClocksOK(e.wo[w]) /\ Idle(e, w)
    OBVIOUS
  <2>1. ClocksOK(d.wo[w]) /\ Idle(d, w)
    BY DEF Good
  <2>2. ClocksOK(e.wo[w])
    BY <1>3, <2>1 DEF ClocksOK
  <2>3. Idle(e, w)
    <3>1. e.parts[w] = d.parts[w]
      BY <1>2
    <3> QED BY <1>3, <2>1, <3>1, Zenon DEF Idle
  <2> QED BY <2>2, <2>3
<1>6. Good(e, {})
  BY <1>2, <1>3, <1>4, <1>5 DEF Good
<1> QED BY <1>2, <1>3, <1>6 DEF e

\* Steps that write neither blocker table disturb the status of the work orders
\* in T at most; the clocks are theirs to keep.
LEMMA ChangeGood ==
    ASSUME NEW d, NEW e, NEW S, NEW T, Good(d, S), S \subseteq T, e \in DbType,
           e.parts = d.parts, e.repair = d.repair,
           \A w \in WO : ClocksOK(e.wo[w]),
           \A w \in WO : e.wo[w].lifecycle = "absent" =>
                            d.wo[w].lifecycle = "absent" /\ e.wo[w].tech = d.wo[w].tech,
           \A w \in WO \ T : /\ e.pause[w] = d.pause[w]
                             /\ e.wo[w].lifecycle = d.wo[w].lifecycle
                             /\ e.wo[w].status = d.wo[w].status
    PROVE  Good(e, T)
<1>1. ASSUME NEW w \in WO PROVE WaitsForVendor(e, w) <=> WaitsForVendor(d, w)
  BY DEF WaitsForVendor
<1>2. ASSUME NEW w \in WO PROVE Idle(e, w)
  <2>1. Idle(d, w)
    BY DEF Good
  <2> QED BY <1>1, <2>1, Zenon DEF Idle
<1>3. ASSUME NEW w \in WO \ T, e.wo[w].lifecycle # "closed"
      PROVE  e.wo[w].status = DerivedStatus(e, w)
  <2>1. d.wo[w].status = DerivedStatus(d, w)
    BY <1>3 DEF Good
  <2>2. WaitsForVendor(e, w) <=> WaitsForVendor(d, w)
    BY <1>1
  <2>3. DerivedStatus(e, w) = DerivedStatus(d, w)
    BY <2>2 DEF DerivedStatus
  <2> QED BY <2>1, <2>3
<1>4. \A r \in DOMAIN e.repair : VendorOK(e.repair[r])
  BY DEF Good
<1> QED BY <1>2, <1>3, <1>4 DEF Good

\* Releasing paused work orders and recomputing them.
LEMMA FreedGood ==
    ASSUME NEW d, Good(d, {}), NEW freed \in SUBSET WO
    PROVE  LET q == [o \in WO |-> IF o \in freed THEN "none" ELSE d.pause[o]]
               e == Recomputed([d EXCEPT !.pause = q], freed)
           IN  /\ Good(e, {})
               /\ \A w \in WO : /\ e.wo[w].lifecycle = d.wo[w].lifecycle
                                /\ e.wo[w].tech = d.wo[w].tech
<1> DEFINE q == [o \in WO |-> IF o \in freed THEN "none" ELSE d.pause[o]]
           m == [d EXCEPT !.pause = q]
<1>1. d \in DbType
  BY DEF Good
<1>2. q \in [WO -> WO \cup {"none", "own"}] /\ \A w \in WO \ freed : q[w] = d.pause[w]
  BY <1>1 DEF DbType
<1>3. m \in DbType /\ m.wo = d.wo /\ m.pause = q /\ m.parts = d.parts /\ m.repair = d.repair
  <2> HIDE DEF q
  <2> QED BY <1>1, <1>2 DEF DbType
<1> HIDE DEF q, m
<1>4. Good(m, freed)
  <2>1. \A w \in WO : ClocksOK(m.wo[w])
    BY <1>3 DEF Good
  <2>2. {} \subseteq freed
    OBVIOUS
  <2> QED BY <1>2, <1>3, <2>1, <2>2, ChangeGood
<1>5. /\ Good(Recomputed(m, freed), {})
      /\ \A w \in WO : /\ Recomputed(m, freed).wo[w].lifecycle = d.wo[w].lifecycle
                       /\ Recomputed(m, freed).wo[w].tech = d.wo[w].tech
  BY <1>3, <1>4, RecomputedGood
<1> QED BY <1>5 DEF m, q

\* What transition_work_order leaves, if the row it writes has sound clocks.
LEMMA TransitionGood ==
    ASSUME NEW d, NEW w \in WO, NEW to \in LifecycleStatus \ {"absent"},
           d \in DbType, d.wo[w].lifecycle = to => Good(d, {}),
           Good([d EXCEPT !.wo[w].lifecycle = to], {w})
    PROVE  Good(Transition(d, w, to), {})
<1> DEFINE m == Recomputed([d EXCEPT !.wo[w].lifecycle = to], {w})
<1>1. Good(m, {})
  BY RecomputedGood
<1>2. Transition(d, w, to) \in {d, m, Released(m, w)}
  BY DEF Transition
<1>3. Transition(d, w, to) = d => d.wo[w].lifecycle = to \/ d = m \/ d = Released(m, w)
  BY DEF Transition
<1> HIDE DEF m
<1>4. Good(Released(m, w), {})
  <2>1. {o \in WO : m.pause[o] = w} \in SUBSET WO
    OBVIOUS
  <2> QED BY <1>1, <2>1, FreedGood DEF Released
<1> QED BY <1>1, <1>2, <1>3, <1>4
-------------------------------------------------------------------------------
\* e is d with the row of w rewritten.
OneRow(d, e, w, row) ==
    /\ e \in DbType /\ e.pause = d.pause /\ e.parts = d.parts /\ e.repair = d.repair
    /\ e.wo[w] = row
    /\ \A o \in WO \ {w} : e.wo[o] = d.wo[o]

\* One row rewritten, with sound clocks.
LEMMA RowGood ==
    ASSUME NEW d, NEW e, NEW w \in WO, NEW row, Good(d, {}), OneRow(d, e, w, row),
           ClocksOK(row), row.lifecycle # "absent"
    PROVE  Good(e, {w})
<1>1. \A o \in WO : ClocksOK(e.wo[o])
  BY DEF Good, OneRow
<1>2. {} \subseteq {w}
  OBVIOUS
<1> QED BY <1>1, <1>2, ChangeGood DEF OneRow

\* One row rewritten, neither its lifecycle nor its status.
LEMMA KeptGood ==
    ASSUME NEW d, NEW e, NEW w \in WO, NEW row, Good(d, {}), OneRow(d, e, w, row),
           ClocksOK(row), d.wo[w].lifecycle # "absent",
           row.lifecycle = d.wo[w].lifecycle, row.status = d.wo[w].status
    PROVE  Good(e, {})
<1>1. \A o \in WO : ClocksOK(e.wo[o])
  BY DEF Good, OneRow
<1>2. {} \subseteq {}
  OBVIOUS
<1>3. \A o \in WO : e.wo[o].lifecycle = "absent" =>
                        d.wo[o].lifecycle = "absent" /\ e.wo[o].tech = d.wo[o].tech
  BY DEF OneRow
<1>4. \A o \in WO \ {} : /\ e.pause[o] = d.pause[o]
                         /\ e.wo[o].lifecycle = d.wo[o].lifecycle
                         /\ e.wo[o].status = d.wo[o].status
  BY DEF OneRow
<1>5. e \in DbType /\ e.parts = d.parts /\ e.repair = d.repair
  BY DEF OneRow
<1> QED BY <1>1, <1>2, <1>3, <1>4, <1>5, ChangeGood

\* Settling the last open status.
LEMMA SettledGood ==
    ASSUME NEW d, NEW w \in WO, Good(d, {w}), d.wo[w].status = DerivedStatus(d, w)
    PROVE  Good(d, {})
BY DEF Good

\* What writing one column of one row does to the tables.
LEMMA SetLifecycle ==
    ASSUME NEW d \in DbType, NEW w \in WO, NEW x \in LifecycleStatus,
           NEW e, e = [d EXCEPT !.wo[w].lifecycle = x]
    PROVE  OneRow(d, e, w, [d.wo[w] EXCEPT !.lifecycle = x])
<1>1. d.wo[w] \in WORow
  BY DEF DbType
<1>2. [d.wo[w] EXCEPT !.lifecycle = x] \in WORow
  BY <1>1 DEF WORow
<1> QED BY <1>2 DEF DbType, OneRow

\* The technician.
LEMMA SetTech ==
    ASSUME NEW d \in DbType, NEW w \in WO, NEW x \in Tech \cup {NoTech},
           NEW e, e = [d EXCEPT !.wo[w].tech = x]
    PROVE  OneRow(d, e, w, [d.wo[w] EXCEPT !.tech = x])
<1>1. d.wo[w] \in WORow
  BY DEF DbType
<1>2. [d.wo[w] EXCEPT !.tech = x] \in WORow
  BY <1>1 DEF WORow
<1> QED BY <1>2 DEF DbType, OneRow

\* The labour timer.
LEMMA SetLabour ==
    ASSUME NEW d \in DbType, NEW w \in WO, NEW x \in {"none", "running", "stopped"},
           NEW e, e = [d EXCEPT !.wo[w].labour = x]
    PROVE  OneRow(d, e, w, [d.wo[w] EXCEPT !.labour = x])
<1>1. d.wo[w] \in WORow
  BY DEF DbType
<1>2. [d.wo[w] EXCEPT !.labour = x] \in WORow
  BY <1>1 DEF WORow
<1> QED BY <1>2 DEF DbType, OneRow

\* The downtime row.
LEMMA SetDowntime ==
    ASSUME NEW d \in DbType, NEW w \in WO, NEW x \in {"none", "open", "ended"},
           NEW e, e = [d EXCEPT !.wo[w].downtime = x]
    PROVE  OneRow(d, e, w, [d.wo[w] EXCEPT !.downtime = x])
<1>1. d.wo[w] \in WORow
  BY DEF DbType
<1>2. [d.wo[w] EXCEPT !.downtime = x] \in WORow
  BY <1>1 DEF WORow
<1> QED BY <1>2 DEF DbType, OneRow

\* A handler that ends with a good database keeps the invariant.
LEMMA WriteGood ==
    ASSUME NEW d, Good(d, {}), Write(d) PROVE WInv'
<1>1. d \in DbType
  BY DEF Good
<1>2. Db' = d
  BY <1>1 DEF Db, Write, DbType
<1> QED BY <1>2 DEF WInv

\* The state a handler starts from.
LEMMA DbFields ==
    /\ Db.wo = wo /\ Db.pause = pause /\ Db.parts = parts /\ Db.repair = repair
    /\ WInv => /\ Db \in DbType
               /\ \A w \in WO : /\ wo[w] \in WORow
                                /\ ClocksOK(wo[w])
BY DEF Db, WInv, Good, DbType

\* What the transition table allows.
LEMMA Legal ==
    ASSUME NEW w \in WO, wo[w] \in WORow, NEW to, CanTransition(w, to),
           wo[w].lifecycle # to
    PROVE  wo[w].lifecycle \in {"assigned", "in_progress", "pending_review"}
BY DEF CanTransition, ValidTransitions, WORow, LifecycleStatus

\* A transition of a work order whose row was rewritten before.
LEMMA MoveGood ==
    ASSUME NEW w \in WO, NEW to \in LifecycleStatus \ {"absent"}, NEW d, NEW e, NEW row \in WORow,
           Good(d, {}), OneRow(d, e, w, row),
           row.lifecycle = to => Good(e, {}),
           ClocksOK([row EXCEPT !.lifecycle = to])
    PROVE  Good(Transition(e, w, to), {})
<1> DEFINE f == [e EXCEPT !.wo[w].lifecycle = to]
<1>1. e \in DbType /\ e.wo[w] = row
  BY DEF OneRow
<1>2. f = [e EXCEPT !.wo[w].lifecycle = to]
  OBVIOUS
<1> HIDE DEF f
<1>3. OneRow(e, f, w, [row EXCEPT !.lifecycle = to])
  BY <1>1, <1>2, SetLifecycle
<1>4. OneRow(d, f, w, [row EXCEPT !.lifecycle = to])
  BY <1>3 DEF OneRow
<1>5. [row EXCEPT !.lifecycle = to].lifecycle # "absent"
  BY DEF WORow
<1>6. Good(f, {w})
  BY <1>4, <1>5, RowGood
<1> QED BY <1>1, <1>2, <1>6, TransitionGood

\* Stopping labour timers disturbs nothing.
LEMMA StopLabourGood ==
    ASSUME NEW d, NEW S \in SUBSET WO, Good(d, {})
    PROVE  /\ Good(StopLabour(d, S), {})
           /\ StopLabour(d, S).pause = d.pause
           /\ \A o \in WO : /\ StopLabour(d, S).wo[o] \in WORow
                            /\ StopLabour(d, S).wo[o].lifecycle = d.wo[o].lifecycle
                            /\ StopLabour(d, S).wo[o].tech = d.wo[o].tech
                            /\ StopLabour(d, S).wo[o].status = d.wo[o].status
                            /\ StopLabour(d, S).wo[o].downtime = d.wo[o].downtime
                            /\ o \in S => StopLabour(d, S).wo[o].labour = "stopped"
                            /\ o \notin S => StopLabour(d, S).wo[o].labour = d.wo[o].labour
<1> DEFINE e == StopLabour(d, S)
           f == [o \in WO |-> IF o \in S THEN [d.wo[o] EXCEPT !.labour = "stopped"]
                                         ELSE d.wo[o]]
<1>1. e = [d EXCEPT !.wo = f] /\ d \in DbType
  BY DEF StopLabour, Good
<1>2. ASSUME NEW o \in WO
      PROVE  /\ f[o] \in WORow /\ ClocksOK(f[o])
             /\ f[o].lifecycle = d.wo[o].lifecycle /\ f[o].tech = d.wo[o].tech
             /\ f[o].status = d.wo[o].status /\ f[o].downtime = d.wo[o].downtime
             /\ o \in S => f[o].labour = "stopped"
             /\ o \notin S => f[o].labour = d.wo[o].labour
  <2>1. d.wo[o] \in WORow /\ ClocksOK(d.wo[o])
    BY DEF Good, DbType
  <2> QED BY <2>1 DEF WORow, ClocksOK
<1>3. f \in [WO -> WORow]
  BY <1>2
<1>4. e \in DbType /\ e.wo = f /\ e.pause = d.pause /\ e.parts = d.parts /\ e.repair = d.repair
  <2> HIDE DEF e, f
  <2> QED BY <1>1, <1>3 DEF DbType
<1> HIDE DEF e, f
<1>5. Good(e, {})
  <2>1. {} \subseteq {}
    OBVIOUS
  <2>2. \A o \in WO : ClocksOK(e.wo[o])
    BY <1>2, <1>4
  <2> QED BY <1>2, <1>4, <2>1, <2>2, ChangeGood
<1> QED BY <1>2, <1>4, <1>5 DEF e

\* Opening OPERATIONAL blockers and recomputing.
LEMMA PausedGood ==
    ASSUME NEW d, NEW S \in SUBSET WO, NEW source \in WO \cup {"own"}, Good(d, {})
    PROVE  LET e == Recomputed(OpenPause(d, S, source), S)
           IN  /\ Good(e, {})
               /\ \A o \in WO : /\ e.wo[o].lifecycle = d.wo[o].lifecycle
                                /\ e.wo[o].tech = d.wo[o].tech
                                /\ e.wo[o].labour = d.wo[o].labour
                                /\ e.wo[o].downtime = d.wo[o].downtime
<1> DEFINE q == [o \in WO |-> IF o \in S /\ d.pause[o] = "none" THEN source ELSE d.pause[o]]
           m == OpenPause(d, S, source)
<1>1. m = [d EXCEPT !.pause = q] /\ d \in DbType
  BY DEF OpenPause, Good
<1>2. q \in [WO -> WO \cup {"none", "own"}] /\ \A w \in WO \ S : q[w] = d.pause[w]
  BY <1>1 DEF DbType
<1>3. m \in DbType /\ m.wo = d.wo /\ m.pause = q /\ m.parts = d.parts /\ m.repair = d.repair
  <2> HIDE DEF q, m
  <2> QED BY <1>1, <1>2 DEF DbType
<1> HIDE DEF q, m
<1>4. Good(m, S)
  <2>1. \A w \in WO : ClocksOK(m.wo[w])
    BY <1>3 DEF Good
  <2>2. {} \subseteq S
    OBVIOUS
  <2> QED BY <1>2, <1>3, <2>1, <2>2, ChangeGood
<1>5. /\ Good(Recomputed(m, S), {})
      /\ \A o \in WO : /\ Recomputed(m, S).wo[o].lifecycle = d.wo[o].lifecycle
                       /\ Recomputed(m, S).wo[o].tech = d.wo[o].tech
                       /\ Recomputed(m, S).wo[o].labour = d.wo[o].labour
                       /\ Recomputed(m, S).wo[o].downtime = d.wo[o].downtime
  BY <1>3, <1>4, RecomputedGood
<1> QED BY <1>5 DEF m

\* pause_other_in_progress.
LEMMA PauseOthersGood ==
    ASSUME NEW d, NEW t, NEW w \in WO, Good(d, {})
    PROVE  /\ Good(PauseOthers(d, t, w), {})
           /\ PauseOthers(d, t, w).wo[w].lifecycle = d.wo[w].lifecycle
           /\ PauseOthers(d, t, w).wo[w].downtime = d.wo[w].downtime
<1> DEFINE others == InProgressOf(t, w)
           m == StopLabour(d, others)
<1>1. others \in SUBSET WO /\ w \in WO \cup {"own"}
  BY DEF InProgressOf
<1>2. PauseOthers(d, t, w) = Recomputed(OpenPause(m, others, w), others)
  BY DEF PauseOthers
<1> HIDE DEF others
<1>3. Good(m, {}) /\ m.wo[w].lifecycle = d.wo[w].lifecycle /\ m.wo[w].downtime = d.wo[w].downtime
  BY <1>1, StopLabourGood
<1> HIDE DEF m
<1> QED BY <1>1, <1>2, <1>3, PausedGood

-------------------------------------------------------------------------------
\* A new work order is not in progress and has no blocker: PAUSED is right.
LEMMA CreateWorkOrderStep ==
    ASSUME NEW w \in WO, WInv, CreateWorkOrder(w) PROVE WInv'
<1> DEFINE e == [Db EXCEPT !.wo[w].lifecycle = "assigned"]
           row == [wo[w] EXCEPT !.lifecycle = "assigned"]
<1>1. Write(e) /\ wo[w].lifecycle = "absent" /\ e = [Db EXCEPT !.wo[w].lifecycle = "assigned"]
  BY DEF CreateWorkOrder
<1> HIDE DEF e
<1>2. OneRow(Db, e, w, row)
  BY <1>1, DbFields, SetLifecycle DEF LifecycleStatus
<1>3. ClocksOK(row) /\ row.lifecycle = "assigned" /\ row.status = wo[w].status
  BY <1>1, DbFields DEF ClocksOK, WORow
<1>4. Good(e, {w})
  BY <1>2, <1>3, RowGood DEF WInv
<1>5. e.wo[w].status = DerivedStatus(e, w)
  <2>1. Idle(Db, w) /\ wo[w].status = DerivedStatus(Db, w)
    BY <1>1, DbFields DEF WInv, Good
  <2>2. ~parts[w] /\ ~WaitsForVendor(Db, w)
    BY <1>1, <2>1, DbFields, Zenon DEF Idle
  <2>3. wo[w].status = "paused"
    BY <1>1, <2>1, <2>2, DbFields DEF DerivedStatus
  <2>4. ~WaitsForVendor(e, w)
    BY <1>2, <2>2, DbFields DEF WaitsForVendor, OneRow
  <2> QED BY <1>2, <1>3, <2>2, <2>3, <2>4, DbFields DEF DerivedStatus, OneRow
<1> QED BY <1>1, <1>4, <1>5, SettledGood, WriteGood

\* The technician is written first; the transition happens unless the work order
\* is closed.
LEMMA AssignStep ==
    ASSUME NEW w \in WO, NEW t \in Tech, WInv, Assign(w, t) PROVE WInv'
<1> DEFINE e == [Db EXCEPT !.wo[w].tech = t]
           row == [wo[w] EXCEPT !.tech = t]
<1>1. /\ wo[w].lifecycle # "absent"
      /\ Write(IF CanTransition(w, "assigned") THEN Transition(e, w, "assigned") ELSE e)
      /\ e = [Db EXCEPT !.wo[w].tech = t]
  BY DEF Assign
<1> HIDE DEF e
<1>2. OneRow(Db, e, w, row)
  BY <1>1, DbFields, SetTech
<1>3. /\ row \in WORow /\ ClocksOK(row)
      /\ row.lifecycle = wo[w].lifecycle /\ row.status = wo[w].status
  BY DbFields DEF ClocksOK, WORow
<1>4. Good(e, {})
  <2> HIDE DEF row
  <2> QED BY <1>1, <1>2, <1>3, DbFields, KeptGood DEF WInv
<1>5. CASE CanTransition(w, "assigned")
  <2>1. wo[w].lifecycle # "closed"
    BY <1>5, DbFields, Legal
  <2>2. ClocksOK([row EXCEPT !.lifecycle = "assigned"])
    BY <1>3, <2>1 DEF ClocksOK, WORow
  <2>3. Good(Transition(e, w, "assigned"), {})
    BY <1>2, <1>3, <1>4, <2>2, MoveGood DEF LifecycleStatus, WInv
  <2> QED BY <1>1, <1>5, <2>3, WriteGood
<1>6. CASE ~CanTransition(w, "assigned")
  BY <1>1, <1>4, <1>6, WriteGood
<1> QED BY <1>5, <1>6

\* technician_start_work: the first start opens the downtime row, the others are
\* paused, this one moves and loses its own pause.
LEMMA StartStep ==
    ASSUME NEW w \in WO, WInv, Start(w) PROVE WInv'
<1> DEFINE x == IF wo[w].downtime = "none" THEN "open" ELSE wo[w].downtime
           row == [wo[w] EXCEPT !.downtime = x]
           started == ClockStarted(Db, w)
           paused == PauseOthers(started, wo[w].tech, w)
           e == [paused EXCEPT !.wo[w].labour = "running"]
           running == Transition(e, w, "in_progress")
           u == [running EXCEPT !.pause[w] = "none"]
<1>1. /\ MayStart(w) /\ CanTransition(w, "in_progress")
      /\ Write(IF wo[w].lifecycle = "in_progress" THEN started ELSE Recomputed(u, {w}))
  BY DEF Start
<1>2. wo[w] \in WORow /\ ClocksOK(wo[w])
  BY DbFields
<1>3. wo[w].lifecycle \in {"assigned", "in_progress", "pending_review"}
  BY <1>1, <1>2, Legal
<1>4. /\ row \in WORow /\ ClocksOK(row) /\ row.lifecycle = wo[w].lifecycle
      /\ row.status = wo[w].status /\ row.downtime = "open"
  BY <1>2, <1>3 DEF ClocksOK, WORow
<1>5. started = [Db EXCEPT !.wo[w].downtime = x] /\ x \in {"none", "open", "ended"}
  BY <1>2, DbFields DEF ClockStarted, WORow
<1> HIDE DEF x, started
<1>6. OneRow(Db, started, w, row)
  BY <1>5, DbFields, SetDowntime
<1> HIDE DEF row
<1>7. Good(started, {})
  BY <1>3, <1>4, <1>6, DbFields, KeptGood DEF WInv
<1>8. CASE wo[w].lifecycle = "in_progress"
  BY <1>1, <1>7, <1>8, WriteGood
<1>9. CASE wo[w].lifecycle # "in_progress"
  <2>1. /\ Good(paused, {}) /\ paused.wo[w].lifecycle = wo[w].lifecycle
        /\ paused.wo[w].downtime = "open"
    BY <1>4, <1>6, <1>7, PauseOthersGood DEF OneRow
  <2>2. e = [paused EXCEPT !.wo[w].labour = "running"] /\ running = Transition(e, w, "in_progress")
    OBVIOUS
  <2> HIDE DEF paused, e, running
  <2>3. paused \in DbType /\ paused.wo[w] \in WORow
    BY <2>1 DEF Good, DbType
  <2> DEFINE ran == [paused.wo[w] EXCEPT !.labour = "running"]
  <2>4. OneRow(paused, e, w, ran)
    BY <2>2, <2>3, SetLabour
  <2>5. /\ ran \in WORow /\ ran.lifecycle # "in_progress"
        /\ ClocksOK([ran EXCEPT !.lifecycle = "in_progress"])
    BY <1>9, <2>1, <2>3 DEF WORow, LifecycleStatus, ClocksOK
  <2> HIDE DEF ran
  <2>6. Good(running, {})
    BY <2>1, <2>2, <2>4, <2>5, MoveGood DEF LifecycleStatus
  <2>7. /\ u \in DbType /\ u.wo = running.wo /\ u.parts = running.parts
        /\ u.repair = running.repair
        /\ \A o \in WO \ {w} : u.pause[o] = running.pause[o]
    BY <2>6 DEF Good, DbType
  <2> HIDE DEF u
  <2>8. Good(u, {w})
    <3>1. \A o \in WO : ClocksOK(u.wo[o])
      BY <2>6, <2>7 DEF Good
    <3>2. {} \subseteq {w}
      OBVIOUS
    <3> QED BY <2>6, <2>7, <3>1, <3>2, ChangeGood
  <2>9. Good(Recomputed(u, {w}), {})
    BY <2>8, RecomputedGood
  <2> QED BY <1>1, <1>9, <2>9, WriteGood
<1> QED BY <1>8, <1>9

\* work_order_pause, with and without an OPERATIONAL blocker.
LEMMA PauseStep ==
    ASSUME NEW w \in WO, NEW significant \in BOOLEAN, WInv, Pause(w, significant) PROVE WInv'
<1> DEFINE stopped == StopLabour(Db, {w})
<1>1. Write(Recomputed(IF significant THEN OpenPause(stopped, {w}, "own") ELSE stopped, {w}))
  BY DEF Pause
<1>2. Good(stopped, {})
  BY StopLabourGood DEF WInv
<1> HIDE DEF stopped
<1>3. Good(Recomputed(stopped, {w}), {})
  BY <1>2, RecomputedGood DEF Good
<1>4. Good(Recomputed(OpenPause(stopped, {w}, "own"), {w}), {})
  BY <1>2, PausedGood
<1> QED BY <1>1, <1>3, <1>4, WriteGood

\* The labour timer stops and the status is recomputed.
LEMMA MarkWaitingStep ==
    ASSUME NEW w \in WO, WInv, MarkWaiting(w) PROVE WInv'
<1>1. Good(StopLabour(Db, {w}), {})
  BY StopLabourGood DEF WInv
<1>2. Good(Recomputed(StopLabour(Db, {w}), {w}), {})
  <2>1. Good(StopLabour(Db, {w}), {w})
    BY <1>1 DEF Good
  <2> QED BY <2>1, RecomputedGood
<1> QED BY <1>2, WriteGood DEF MarkWaiting

\* The labour timer stops before the review.
LEMMA SubmitForReviewStep ==
    ASSUME NEW w \in WO, WInv, SubmitForReview(w) PROVE WInv'
<1> DEFINE e == StopLabour(Db, {w})
<1>1. wo[w].lifecycle = "in_progress" /\ Write(Transition(e, w, "pending_review"))
  BY DEF SubmitForReview
<1>2. /\ Good(e, {}) /\ e.wo[w] \in WORow
      /\ e.wo[w].lifecycle = "in_progress" /\ e.wo[w].labour = "stopped"
      /\ e.wo[w].downtime = wo[w].downtime
  BY <1>1, StopLabourGood, DbFields DEF WInv
<1> HIDE DEF e
<1>3. OneRow(e, e, w, e.wo[w])
  BY <1>2 DEF OneRow, Good
<1>4. ClocksOK([e.wo[w] EXCEPT !.lifecycle = "pending_review"])
  BY <1>1, <1>2, DbFields DEF ClocksOK, WORow
<1>5. Good(Transition(e, w, "pending_review"), {})
  BY <1>2, <1>3, <1>4, MoveGood DEF LifecycleStatus
<1> QED BY <1>1, <1>5, WriteGood

\* The downtime row ends as the work order closes.
LEMMA ApproveWorkStep ==
    ASSUME NEW w \in WO, WInv, ApproveWork(w) PROVE WInv'
<1> DEFINE x == IF wo[w].downtime = "open" THEN "ended" ELSE wo[w].downtime
           row == [wo[w] EXCEPT !.downtime = x]
           e == [Db EXCEPT !.wo[w].downtime = IF @ = "open" THEN "ended" ELSE @]
<1>1. wo[w].lifecycle = "pending_review" /\ Write(Transition(e, w, "closed"))
  BY DEF ApproveWork
<1>2. e = [Db EXCEPT !.wo[w].downtime = x] /\ x \in {"none", "open", "ended"}
  BY DbFields DEF WORow
<1>3. row \in WORow /\ row.lifecycle # "closed" /\ ClocksOK([row EXCEPT !.lifecycle = "closed"])
  BY <1>1, DbFields DEF WORow, ClocksOK
<1> HIDE DEF e, x
<1>4. OneRow(Db, e, w, row)
  BY <1>2, DbFields, SetDowntime
<1> HIDE DEF row
<1>5. Good(Transition(e, w, "closed"), {})
  BY <1>3, <1>4, MoveGood DEF LifecycleStatus, WInv
<1> QED BY <1>1, <1>5, WriteGood

\* The downtime row is still open when work goes on.
LEMMA RejectWorkStep ==
    ASSUME NEW w \in WO, WInv, RejectWork(w) PROVE WInv'
<1> DEFINE row == [wo[w] EXCEPT !.labour = "running"]
           e == [Db EXCEPT !.wo[w].labour = "running"]
<1>1. /\ wo[w].lifecycle = "pending_review" /\ Write(Transition(e, w, "in_progress"))
      /\ e = [Db EXCEPT !.wo[w].labour = "running"]
  BY DEF RejectWork
<1>2. /\ row \in WORow /\ row.lifecycle # "in_progress"
      /\ ClocksOK([row EXCEPT !.lifecycle = "in_progress"])
  BY <1>1, DbFields DEF WORow, ClocksOK
<1> HIDE DEF e
<1>3. OneRow(Db, e, w, row)
  BY <1>1, DbFields, SetLabour
<1> HIDE DEF row
<1>4. Good(Transition(e, w, "in_progress"), {})
  BY <1>2, <1>3, MoveGood DEF LifecycleStatus, WInv
<1> QED BY <1>1, <1>4, WriteGood

\* Only created work orders wait for parts.
LEMMA PartsBlockerStep ==
    ASSUME NEW w \in WO, WInv, PartsBlocker(w) PROVE WInv'
<1> DEFINE e == [Db EXCEPT !.parts[w] = ~@]
<1>1. wo[w].lifecycle # "absent" /\ Write(Recomputed(e, {w}))
  BY DEF PartsBlocker
<1>2. /\ e \in DbType /\ e.wo = wo /\ e.pause = pause /\ e.repair = repair
      /\ \A o \in WO \ {w} : e.parts[o] = parts[o]
  BY DbFields DEF DbType
<1> HIDE DEF e
<1>3. \A o \in WO : WaitsForVendor(e, o) <=> WaitsForVendor(Db, o)
  BY <1>2, DbFields DEF WaitsForVendor
<1>4. \A o \in WO \ {w} : DerivedStatus(e, o) = DerivedStatus(Db, o)
  BY <1>2, <1>3, DbFields DEF DerivedStatus
<1>5. ASSUME NEW o \in WO PROVE Idle(e, o)
  <2>1. CASE o = w
    BY <1>1, <1>2, <2>1 DEF Idle
  <2>2. CASE o # w
    <3>1. Idle(Db, o)
      BY DEF WInv, Good
    <3>2. o \in WO \ {w}
      BY <2>2
    <3> QED BY <1>2, <1>3, <3>1, <3>2, DbFields, Zenon DEF Idle
  <2> QED BY <2>1, <2>2
<1>6. Good(e, {w})
  BY <1>2, <1>4, <1>5, DbFields DEF Good, WInv
<1> QED BY <1>1, <1>6, RecomputedGood, WriteGood

\* repair_paused_blockers frees and recomputes.
LEMMA RepairPausedBlockersStep ==
    ASSUME WInv, RepairPausedBlockers PROVE WInv'
<1> DEFINE freed == {o \in WO : pause[o] \in StaleSources}
           q == [o \in WO |-> IF o \in freed THEN "none" ELSE pause[o]]
<1>1. Write(Recomputed([Db EXCEPT !.pause = q], freed)) /\ freed \in SUBSET WO
  BY DEF RepairPausedBlockers
<1>2. q = [o \in WO |-> IF o \in freed THEN "none" ELSE Db.pause[o]]
  BY DbFields
<1> HIDE DEF freed, q
<1>3. Good(Recomputed([Db EXCEPT !.pause = q], freed), {})
  BY <1>1, <1>2, FreedGood DEF WInv
<1> QED BY <1>1, <1>3, WriteGood

-------------------------------------------------------------------------------
\* A new table of repairs disturbs the status of the work orders in T at most.
LEMMA RepairsGood ==
    ASSUME NEW e, NEW T, WInv, e \in DbType, e.wo = wo, e.pause = pause, e.parts = parts,
           \A r \in DOMAIN e.repair : VendorOK(e.repair[r]),
           \A w \in WO : wo[w].lifecycle = "absent" =>
                            (WaitsForVendor(e, w) => WaitsForVendor(Db, w)),
           \A w \in WO \ T : WaitsForVendor(e, w) <=> WaitsForVendor(Db, w)
    PROVE  Good(e, T)
<1>1. ASSUME NEW w \in WO PROVE Idle(e, w)
  <2>1. Idle(Db, w)
    BY DEF WInv, Good
  <2> QED BY <2>1, DbFields, Zenon DEF Idle
<1>2. \A w \in WO \ T : DerivedStatus(e, w) = DerivedStatus(Db, w)
  BY DbFields DEF DerivedStatus
<1>3. \A w \in WO : ClocksOK(e.wo[w])
  BY DbFields
<1> QED BY <1>1, <1>2, <1>3, DbFields DEF Good, WInv

\* What the invariant says of one repair.
LEMMA RepairRows ==
    ASSUME WInv, NEW r \in Repairs
    PROVE  repair[r] \in RepairRow /\ VendorOK(repair[r]) /\ r \in Nat
BY DbFields DEF WInv, Good, DbType, Repairs

\* A request opens its blocker; only a technician of the work order can ask.
LEMMA RequestRepairStep ==
    ASSUME NEW w \in WO, WInv, RequestRepair(w) PROVE WInv'
<1> DEFINE row == NewRepair(w, "pending", "none", "open")
           e == [Db EXCEPT !.repair = Append(@, row)]
<1>1. wo[w].tech # NoTech /\ Write(Recomputed(e, {w}))
  BY DEF RequestRepair
<1>2. wo[w].lifecycle # "absent"
  BY <1>1, DbFields DEF WInv, Good, Idle
<1>3. row \in RepairRow /\ VendorOK(row) /\ row.wo = w
  BY DEF NewRepair, RepairRow, EROStatus, VendorOK
<1> HIDE DEF row
<1>4. /\ e \in DbType /\ e.wo = wo /\ e.pause = pause /\ e.parts = parts
      /\ e.repair = Append(repair, row) /\ repair \in Seq(RepairRow)
  <2>1. repair \in Seq(RepairRow) /\ Append(repair, row) \in Seq(RepairRow)
    BY <1>3, DbFields DEF DbType
  <2>2. e = [Db EXCEPT !.repair = Append(repair, row)]
    BY DbFields
  <2> QED BY <2>1, <2>2, DbFields DEF DbType
<1> HIDE DEF e
<1>5. /\ DOMAIN e.repair = DOMAIN repair \cup {Len(repair) + 1}
      /\ e.repair[Len(repair) + 1] = row
      /\ \A r \in DOMAIN repair : e.repair[r] = repair[r]
  BY <1>3, <1>4
<1>6. \A r \in DOMAIN e.repair : VendorOK(e.repair[r])
  BY <1>3, <1>5, RepairRows DEF Repairs
<1>7. \A o \in WO \ {w} : WaitsForVendor(e, o) <=> WaitsForVendor(Db, o)
  BY <1>3, <1>5, DbFields DEF WaitsForVendor
<1>8. Good(e, {w})
  BY <1>2, <1>4, <1>6, <1>7, RepairsGood
<1> QED BY <1>1, <1>8, RecomputedGood, WriteGood

\* Steps that keep every blocker leave all statuses alone.
LEMMA SameBlockers ==
    ASSUME WInv, UNCHANGED <<wo, pause, parts>>, repair' \in Seq(RepairRow),
           \A r \in DOMAIN repair' : VendorOK(repair'[r]),
           \A r \in DOMAIN repair' \ DOMAIN repair : repair'[r].blocker # "open",
           \A r \in DOMAIN repair : /\ r \in DOMAIN repair'
                                    /\ repair'[r].blocker = repair[r].blocker
                                    /\ repair'[r].wo = repair[r].wo
    PROVE  WInv'
<1> DEFINE e == Db'
<1>1. /\ e \in DbType /\ e.wo = wo /\ e.pause = pause /\ e.parts = parts /\ e.repair = repair'
  BY DbFields DEF Db, DbType
<1> HIDE DEF e
<1>2. \A w \in WO : WaitsForVendor(e, w) <=> WaitsForVendor(Db, w)
  BY <1>1, DbFields DEF WaitsForVendor
<1>3. Good(e, {})
  BY <1>1, <1>2, RepairsGood
<1> QED BY <1>3 DEF e, WInv

\* A manager's order has no blocker.
LEMMA CreateRepairStep ==
    ASSUME NEW w \in WO, WInv, CreateRepair(w) PROVE WInv'
<1> DEFINE row == NewRepair(w, "none", "draft", "none")
<1>1. row \in RepairRow /\ VendorOK(row) /\ row.blocker = "none"
  BY DEF NewRepair, RepairRow, EROStatus, VendorOK
<1>2. repair' = Append(repair, row) /\ UNCHANGED <<wo, pause, parts>>
  BY DEF CreateRepair
<1> HIDE DEF row
<1>3. repair \in Seq(RepairRow)
  BY DbFields DEF DbType
<1>4. /\ repair' \in Seq(RepairRow)
      /\ DOMAIN repair' = DOMAIN repair \cup {Len(repair) + 1}
      /\ repair'[Len(repair) + 1] = row
      /\ \A r \in DOMAIN repair : repair'[r] = repair[r]
  BY <1>1, <1>2, <1>3
<1>5. \A r \in DOMAIN repair' : VendorOK(repair'[r])
  BY <1>1, <1>4, RepairRows DEF Repairs
<1> QED BY <1>1, <1>2, <1>4, <1>5, SameBlockers

\* Approving moves a request and one related_ero, no blocker.
LEMMA ApproveRepairStep ==
    ASSUME WInv, NEW r \in Repairs, ApproveRepair(r) PROVE WInv'
<1>1. \A q \in Repairs :
        /\ repair'[q] \in RepairRow /\ VendorOK(repair'[q])
        /\ repair'[q].blocker = repair[q].blocker /\ repair'[q].wo = repair[q].wo
  <2> SUFFICES ASSUME NEW q \in Repairs
               PROVE  /\ repair'[q] \in RepairRow /\ VendorOK(repair'[q])
                      /\ repair'[q].blocker = repair[q].blocker /\ repair'[q].wo = repair[q].wo
    OBVIOUS
  <2> DEFINE row == IF q = r THEN [repair[q] EXCEPT !.request = "approved", !.ero = "draft"]
                    ELSE repair[q]
  <2>1. /\ row \in RepairRow /\ VendorOK(row)
        /\ row.blocker = repair[q].blocker /\ row.wo = repair[q].wo
    BY RepairRows DEF RepairRow, EROStatus, VendorOK
  <2>2. repair'[q] = row \/ repair'[q] = [row EXCEPT !.related = r]
    BY DEF ApproveRepair
  <2> HIDE DEF row
  <2> QED BY <2>1, <2>2, RepairRows DEF RepairRow, VendorOK
<1>2. repair' \in Seq(RepairRow) /\ DOMAIN repair' = Repairs
  <2>1. repair \in Seq(RepairRow)
    BY DbFields DEF DbType
  <2>2. Len(repair) \in Nat /\ Repairs = 1..Len(repair)
    BY <2>1 DEF Repairs
  <2>3. DOMAIN repair' = Repairs /\ repair' = [q \in Repairs |-> repair'[q]]
    BY DEF ApproveRepair
  <2> QED BY <1>1, <2>2, <2>3
<1>3. UNCHANGED <<wo, pause, parts>>
  BY DEF ApproveRepair
<1> QED BY <1>1, <1>2, <1>3, SameBlockers DEF Repairs

\* Rejecting moves the request only.
LEMMA RejectRepairStep ==
    ASSUME WInv, NEW r \in Repairs, RejectRepair(r) PROVE WInv'
<1>1. repair \in Seq(RepairRow)
  BY DbFields DEF DbType
<1>2. [repair[r] EXCEPT !.request = "rejected"] \in RepairRow
  BY RepairRows DEF RepairRow
<1>3. /\ repair' \in Seq(RepairRow) /\ DOMAIN repair' = Repairs
      /\ repair'[r] = [repair[r] EXCEPT !.request = "rejected"]
      /\ \A q \in Repairs \ {r} : repair'[q] = repair[q]
  BY <1>1, <1>2 DEF RejectRepair, Repairs
<1>4. \A q \in Repairs : /\ VendorOK(repair'[q]) /\ repair'[q].blocker = repair[q].blocker
                         /\ repair'[q].wo = repair[q].wo
  <2>1. /\ VendorOK(repair'[r]) /\ repair'[r].blocker = repair[r].blocker
        /\ repair'[r].wo = repair[r].wo
    BY <1>3, RepairRows DEF RepairRow, VendorOK
  <2> QED BY <1>3, <2>1, RepairRows
<1> QED BY <1>3, <1>4, SameBlockers DEF Repairs, RejectRepair

\* A saved repair order keeps its work order and waits for its vendor only
\* while the repair is out.
LEMMA SavedRow ==
    ASSUME NEW row \in RepairRow, VendorOK(row), NEW status \in EROStatus, NEW c \in Nat
    PROVE  /\ Saved(row, status, c) \in RepairRow /\ VendorOK(Saved(row, status, c))
           /\ Saved(row, status, c).wo = row.wo
           /\ Saved(row, status, c).blocker = "open" => row.blocker = "open"
           /\ status = row.ero \/ status \notin {"returned", "closed"} =>
                 Saved(row, status, c).blocker = row.blocker
BY DEF Saved, Posted, Resolved, RepairRow, EROStatus, VendorOK

\* ExternalRepairOrder.save, from whichever view.
LEMMA SaveRepairStep ==
    ASSUME WInv, NEW r \in Repairs, NEW status \in EROStatus, NEW c \in Nat,
           SaveRepair(r, status, c)
    PROVE  WInv'
<1> DEFINE new == Saved(repair[r], status, c)
           w == repair[r].wo
           e == [Db EXCEPT !.repair[r] = Saved(@, status, c)]
<1>1. Write(IF status # repair[r].ero /\ status \in {"returned", "closed"}
            THEN Recomputed(e, {w}) ELSE e)
  BY DEF SaveRepair
<1>2. /\ new \in RepairRow /\ VendorOK(new) /\ new.wo = w
      /\ new.blocker = "open" => repair[r].blocker = "open"
      /\ status = repair[r].ero \/ status \notin {"returned", "closed"} =>
            new.blocker = repair[r].blocker
  BY RepairRows, SavedRow
<1>3. e = [Db EXCEPT !.repair[r] = new]
  BY DbFields
<1> HIDE DEF e, new
<1>4. /\ e \in DbType /\ e.wo = wo /\ e.pause = pause /\ e.parts = parts
      /\ DOMAIN e.repair = Repairs /\ e.repair[r] = new
      /\ \A q \in Repairs \ {r} : e.repair[q] = repair[q]
  <2> DEFINE table == [repair EXCEPT ![r] = new]
  <2>1. repair \in Seq(RepairRow)
    BY DbFields DEF DbType
  <2>2. /\ table \in Seq(RepairRow) /\ DOMAIN table = Repairs /\ table[r] = new
        /\ \A q \in Repairs \ {r} : table[q] = repair[q]
    BY <1>2, <2>1 DEF Repairs
  <2>3. e = [Db EXCEPT !.repair = table]
    BY <1>3, DbFields
  <2> HIDE DEF table
  <2> QED BY <2>2, <2>3, DbFields DEF DbType
<1>5. \A q \in DOMAIN e.repair : VendorOK(e.repair[q])
  BY <1>2, <1>4, RepairRows
<1>6. \A o \in WO : WaitsForVendor(e, o) => WaitsForVendor(Db, o)
  BY <1>2, <1>4, DbFields DEF WaitsForVendor, Repairs
<1>7. \A o \in WO \ {w} : WaitsForVendor(e, o) <=> WaitsForVendor(Db, o)
  BY <1>2, <1>4, DbFields DEF WaitsForVendor, Repairs
<1>8. CASE status # repair[r].ero /\ status \in {"returned", "closed"}
  <2>1. Good(e, {w})
    BY <1>4, <1>5, <1>6, <1>7, RepairsGood
  <2> QED BY <1>1, <1>8, <2>1, RecomputedGood, WriteGood
<1>9. CASE ~(status # repair[r].ero /\ status \in {"returned", "closed"})
  <2>1. new.blocker = repair[r].blocker
    BY <1>2, <1>9
  <2>2. \A o \in WO : WaitsForVendor(e, o) <=> WaitsForVendor(Db, o)
    BY <1>2, <1>4, <2>1, DbFields DEF WaitsForVendor, Repairs
  <2>3. Good(e, {})
    BY <1>4, <1>5, <2>2, RepairsGood
  <2> QED BY <1>1, <1>9, <2>3, WriteGood
<1> QED BY <1>8, <1>9

\* reconcile_orphan_vendor_blockers resolves and recomputes.
LEMMA ReconcileVendorBlockersStep ==
    ASSUME WInv, ReconcileVendorBlockers PROVE WInv'
<1> DEFINE orphans == {r \in Repairs : /\ repair[r].blocker = "open"
                                       /\ repair[OrderOf(r)].ero \in {"returned", "closed"}}
           billed == {OrderOf(r) : r \in orphans}
           row(q) == IF q \in billed /\ repair[q].posted = 0 THEN Posted(repair[q])
                     ELSE repair[q]
           table == [q \in Repairs |-> IF q \in orphans
                                       THEN [row(q) EXCEPT !.blocker = "resolved"] ELSE row(q)]
           T == {repair[r].wo : r \in orphans}
           e == [Db EXCEPT !.repair = table]
<1>1. Write(Recomputed(e, T))
  BY DEF ReconcileVendorBlockers
<1>2. orphans \subseteq Repairs /\ T = {repair[r].wo : r \in orphans}
  OBVIOUS
<1>3. ASSUME NEW q \in Repairs
      PROVE  /\ table[q] \in RepairRow /\ VendorOK(table[q]) /\ table[q].wo = repair[q].wo
             /\ table[q].blocker = "open" => repair[q].blocker = "open"
             /\ q \notin orphans => table[q].blocker = repair[q].blocker
  <2>1. /\ row(q) \in RepairRow /\ VendorOK(row(q)) /\ row(q).wo = repair[q].wo
        /\ row(q).blocker = repair[q].blocker
    <3> HIDE DEF billed
    <3> QED BY RepairRows DEF Posted, RepairRow, VendorOK
  <2>2. table[q] = IF q \in orphans THEN [row(q) EXCEPT !.blocker = "resolved"] ELSE row(q)
    OBVIOUS
  <2> HIDE DEF row, table, orphans
  <2> QED BY <2>1, <2>2 DEF RepairRow, VendorOK
<1>4. DOMAIN table = Repairs /\ table = [q \in Repairs |-> table[q]]
  OBVIOUS
<1> HIDE DEF table, orphans, T
<1>5. table \in Seq(RepairRow)
  <2>1. Len(repair) \in Nat /\ Repairs = 1..Len(repair)
    BY DbFields DEF DbType, Repairs
  <2> QED BY <1>3, <1>4, <2>1
<1>6. e \in DbType /\ e.wo = wo /\ e.pause = pause /\ e.parts = parts /\ e.repair = table
  BY <1>5, DbFields DEF DbType
<1> HIDE DEF e
<1>7. \A q \in DOMAIN e.repair : VendorOK(e.repair[q])
  BY <1>3, <1>4, <1>6
<1>8. \A o \in WO : WaitsForVendor(e, o) => WaitsForVendor(Db, o)
  BY <1>3, <1>4, <1>6, DbFields DEF WaitsForVendor, Repairs
<1>9. \A o \in WO \ T : WaitsForVendor(e, o) <=> WaitsForVendor(Db, o)
  BY <1>2, <1>3, <1>4, <1>6, <1>8, DbFields DEF WaitsForVendor, Repairs
<1>10. Good(e, T)
  BY <1>6, <1>7, <1>8, <1>9, RepairsGood
<1> QED BY <1>1, <1>10, RecomputedGood, WriteGood

-------------------------------------------------------------------------------
\* What an earlier version left is consistent.
LEMMA InitInv == WInit => WInv
<1> SUFFICES ASSUME WInit PROVE Good(Db, {})
  BY DEF WInv
<1>1. PICK t \in Tech, stuck \in SUBSET Stuck :
        /\ wo = [w \in WO |-> Left(t, stuck, w)]
        /\ pause = [w \in WO |-> IF \E p \in stuck : p[1] = w
                                 THEN (CHOOSE p \in stuck : p[1] = w)[2] ELSE "none"]
        /\ parts = [w \in WO |-> FALSE]
        /\ repair = <<>>
  BY DEF WInit
<1>2. ASSUME NEW w \in WO
      PROVE  /\ wo[w] \in WORow /\ ClocksOK(wo[w])
             /\ pause[w] \in WO \cup {"none", "own"}
             /\ wo[w].lifecycle = "absent" => wo[w].tech = NoTech
             /\ wo[w].lifecycle = "in_progress" =>
                   wo[w].status = IF pause[w] # "none" THEN "paused" ELSE "active"
             /\ wo[w].lifecycle # "in_progress" => wo[w].status = "paused"
  <2>1. CASE \E p \in stuck : p[1] = w
    <3>1. (CHOOSE p \in stuck : p[1] = w) \in WO \X WO
      BY <2>1, WorkOrdersAssumption
    <3>2. pause[w] \in WO /\ pause[w] # "none"
      BY <1>1, <2>1, <3>1, WorkOrdersAssumption
    <3>3. wo[w] = [lifecycle |-> "in_progress", status |-> "paused", tech |-> t,
                   labour |-> "stopped", downtime |-> "open"]
      BY <1>1, <2>1 DEF Left
    <3> QED BY <3>2, <3>3 DEF WORow, LifecycleStatus, OperationalStatus, ClocksOK
  <2>2. CASE ~\E p \in stuck : p[1] = w
    <3>1. pause[w] = "none"
      BY <1>1, <2>2
    <3>2. \/ wo[w] = [lifecycle |-> "in_progress", status |-> "active", tech |-> t,
                      labour |-> "running", downtime |-> "open"]
          \/ wo[w] = Absent
      BY <1>1, <2>2 DEF Left
    <3> QED BY <3>1, <3>2 DEF Absent, WORow, LifecycleStatus, OperationalStatus, ClocksOK
  <2> QED BY <2>1, <2>2
<1>3. Db \in DbType
  <2>1. wo \in [WO -> WORow] /\ pause \in [WO -> WO \cup {"none", "own"}]
    BY <1>1, <1>2
  <2>2. parts \in [WO -> BOOLEAN] /\ repair \in Seq(RepairRow)
    BY <1>1
  <2> QED BY <2>1, <2>2 DEF Db, DbType
<1>4. ASSUME NEW w \in WO
      PROVE  Idle(Db, w) /\ wo[w].status = DerivedStatus(Db, w)
  <2>1. ~WaitsForVendor(Db, w)
    BY <1>1, DbFields DEF WaitsForVendor
  <2>2. ~parts[w]
    BY <1>1
  <2>3. Idle(Db, w)
    BY <1>2, <2>1, <2>2, DbFields DEF Idle
  <2>4. wo[w].status = DerivedStatus(Db, w)
    BY <1>2, <2>1, <2>2, DbFields DEF DerivedStatus
  <2> QED BY <2>3, <2>4
<1> QED BY <1>1, <1>2, <1>3, <1>4, DbFields DEF Good

\* One case per action.
LEMMA NextInv ==
    ASSUME WInv, [WNext]_wvars PROVE WInv'
<1>1. CASE UNCHANGED wvars
  BY <1>1 DEF wvars, WInv, Db
<1>2. CASE Working
  BY <1>2, CreateWorkOrderStep, StartStep, SubmitForReviewStep, AssignStep, PauseStep,
     MarkWaitingStep, ApproveWorkStep, RejectWorkStep, PartsBlockerStep,
     RepairPausedBlockersStep DEF Working
<1>3. CASE Repairing
  <2>1. ASSUME NEW r \in Repairs, MarkReturned(r) PROVE WInv'
    <3>1. "returned" \in EROStatus /\ repair[r].cost \in Nat
      BY RepairRows DEF EROStatus, RepairRow
    <3> QED BY <2>1, <3>1, SaveRepairStep DEF MarkReturned
  <2>2. ASSUME NEW r \in Repairs, NEW status \in EROStatus, NEW c \in 0..MaxCost,
               OfficerSaves(r, status, c)
        PROVE  WInv'
    <3>1. c \in Nat
      BY WorkOrdersAssumption
    <3> QED BY <2>2, <3>1, SaveRepairStep DEF OfficerSaves
  <2>3. ASSUME NEW r \in Repairs, NEW c \in 0..MaxCost, AcceptRepair(r, c) PROVE WInv'
    <3>1. c \in Nat /\ "closed" \in EROStatus
      BY WorkOrdersAssumption DEF EROStatus
    <3> QED BY <2>3, <3>1, SaveRepairStep DEF AcceptRepair
  <2> QED BY <1>3, <2>1, <2>2, <2>3, RequestRepairStep, CreateRepairStep, ApproveRepairStep,
             RejectRepairStep, ReconcileVendorBlockersStep DEF Repairing
<1> QED BY <1>1, <1>2, <1>3 DEF WNext

\* The inductive invariant of the work orders.
THEOREM WorkOrdersInvariance == WSpec => []WInv
<1>1. WInit => WInv
  BY InitInv
<1>2. WInv /\ [WNext]_wvars => WInv'
  BY NextInv
<1> QED BY <1>1, <1>2, PTL DEF WSpec

\* Every work-order and repair row keeps its type.
THEOREM WorkOrdersTyped == WSpec => []WTypeOK
<1>1. WInv => WTypeOK
  BY DEF WInv, Good, Db, DbType, WTypeOK
<1> QED BY <1>1, WorkOrdersInvariance, PTL

\* The stored operational status of every open work order is the one its
\* blockers and lifecycle imply, whichever handler of services.py wrote last.
THEOREM StatusIsDerived == WSpec => []StatusDerived
<1>1. WInv => StatusDerived
  BY DbFields DEF WInv, Good, StatusDerived
<1> QED BY <1>1, WorkOrdersInvariance, PTL

\* The downtime row is open from the first start to the closing of the work
\* order, and the labour timer stands still in review and after.
THEOREM ClocksAreSound == WSpec => []ClocksSound
<1>1. WInv => ClocksSound
  BY DbFields DEF ClocksOK, ClocksSound
<1> QED BY <1>1, WorkOrdersInvariance, PTL

\* No work order waits for a vendor whose repair is returned or closed.
THEOREM NoVendorOrphans == WSpec => []NoOrphanVendorBlocker
<1>1. WInv => NoOrphanVendorBlocker
  BY RepairRows DEF VendorOK, NoOrphanVendorBlocker
<1> QED BY <1>1, WorkOrdersInvariance, PTL

-------------------------------------------------------------------------------
(***************************************************************************)
(* What a step may never do.  Most handlers are Mild: they move no         *)
(* lifecycle, leave closed work orders alone and write no repair.          *)
(***************************************************************************)
Mild(d, e) ==
    /\ e \in DbType
    /\ e.repair = d.repair
    /\ \A w \in WO : /\ e.wo[w].lifecycle = d.wo[w].lifecycle
                     /\ d.wo[w].lifecycle = "closed" => e.wo[w] = d.wo[w]

\* w goes to lifecycle to; if it leaves IN_PROGRESS nothing stays paused by it.
Moves(d, e, w, to) ==
    /\ e \in DbType
    /\ e.repair = d.repair
    /\ e.wo[w].lifecycle = to
    /\ \A o \in WO \ {w} : /\ e.wo[o].lifecycle = d.wo[o].lifecycle
                           /\ d.wo[o].lifecycle = "closed" => e.wo[o] = d.wo[o]
    /\ d.wo[w].lifecycle = "in_progress" /\ to # "in_progress" => \A o \in WO : e.pause[o] # w

\* The properties of a step, as actions.
Frozen ==
    \A w \in WO : wo[w].lifecycle = "closed" => wo'[w] = [wo[w] EXCEPT !.tech = wo'[w].tech]
Freed ==
    \A w \in WO : wo[w].lifecycle = "in_progress" /\ wo'[w].lifecycle # "in_progress" =>
      \A o \in WO : pause'[o] # w
Billed ==
    \A r \in Repairs :
      /\ repair[r].ero # "closed"
      /\ repair'[r].ero = "closed"
      /\ repair'[r].cost > 0
      => repair'[r].posted = repair'[r].cost

\* Mild changes follow one another, and a move may follow one or be followed.
LEMMA MildTwice ==
    ASSUME NEW d, NEW e, NEW f, Mild(d, e), Mild(e, f) PROVE Mild(d, f)
BY DEF Mild

LEMMA MildMoves ==
    ASSUME NEW d, NEW e, NEW f, NEW w \in WO, NEW to, Mild(d, e), Moves(e, f, w, to)
    PROVE  Moves(d, f, w, to)
BY DEF Mild, Moves

\* Recomputing is mild.
LEMMA RecomputedMild ==
    ASSUME NEW d \in DbType, NEW S
    PROVE  /\ Mild(d, Recomputed(d, S))
           /\ Recomputed(d, S).pause = d.pause
<1> DEFINE f == [w \in WO |-> IF w \in S /\ d.wo[w].lifecycle # "closed"
                             THEN [d.wo[w] EXCEPT !.status = DerivedStatus(d, w)]
                             ELSE d.wo[w]]
           e == Recomputed(d, S)
<1>1. ASSUME NEW w \in WO
      PROVE  /\ f[w] \in WORow
             /\ f[w].lifecycle = d.wo[w].lifecycle
             /\ d.wo[w].lifecycle = "closed" => f[w] = d.wo[w]
  <2>1. d.wo[w] \in WORow
    BY DEF DbType
  <2>2. DerivedStatus(d, w) \in OperationalStatus
    BY DerivedType
  <2> QED BY <2>1, <2>2 DEF WORow
<1>2. f \in [WO -> WORow]
  BY <1>1
<1>3. e = [d EXCEPT !.wo = f]
  BY DEF Recomputed
<1> HIDE DEF f, e
<1>4. e \in DbType /\ e.wo = f /\ e.pause = d.pause /\ e.repair = d.repair
  BY <1>2, <1>3 DEF DbType
<1> QED BY <1>1, <1>4 DEF Mild, e

\* Stopping timers of work orders that are not closed is mild.
LEMMA StopLabourMild ==
    ASSUME NEW d \in DbType, NEW S, \A w \in WO \cap S : d.wo[w].lifecycle # "closed"
    PROVE  Mild(d, StopLabour(d, S))
<1> DEFINE f == [o \in WO |-> IF o \in S THEN [d.wo[o] EXCEPT !.labour = "stopped"] ELSE d.wo[o]]
           e == StopLabour(d, S)
<1>1. ASSUME NEW w \in WO
      PROVE  /\ f[w] \in WORow
             /\ f[w].lifecycle = d.wo[w].lifecycle
             /\ d.wo[w].lifecycle = "closed" => f[w] = d.wo[w]
  <2>1. d.wo[w] \in WORow
    BY DEF DbType
  <2> QED BY <2>1 DEF WORow
<1>2. f \in [WO -> WORow]
  BY <1>1
<1>3. e = [d EXCEPT !.wo = f]
  BY DEF StopLabour
<1> HIDE DEF f, e
<1>4. e \in DbType /\ e.wo = f /\ e.repair = d.repair
  BY <1>2, <1>3 DEF DbType
<1> QED BY <1>1, <1>4 DEF Mild, e

\* So is writing the pauses, in whatever way.
LEMMA PausesMild ==
    ASSUME NEW d \in DbType, NEW q \in [WO -> WO \cup {"none", "own"}]
    PROVE  /\ Mild(d, [d EXCEPT !.pause = q])
           /\ [d EXCEPT !.pause = q].pause = q
<1>1. /\ [d EXCEPT !.pause = q] \in DbType
      /\ [d EXCEPT !.pause = q].wo = d.wo
      /\ [d EXCEPT !.pause = q].repair = d.repair
      /\ [d EXCEPT !.pause = q].pause = q
  BY DEF DbType
<1> QED BY <1>1 DEF Mild

LEMMA OpenPauseMild ==
    ASSUME NEW d \in DbType, NEW S, NEW source \in WO \cup {"own"}
    PROVE  Mild(d, OpenPause(d, S, source))
<1> DEFINE q == [o \in WO |-> IF o \in S /\ d.pause[o] = "none" THEN source ELSE d.pause[o]]
<1>1. q \in [WO -> WO \cup {"none", "own"}]
  BY DEF DbType
<1>2. OpenPause(d, S, source) = [d EXCEPT !.pause = q]
  BY DEF OpenPause
<1> HIDE DEF q
<1> QED BY <1>1, <1>2, PausesMild

\* release_dependent_blockers leaves nothing paused by w.
LEMMA ReleasedMild ==
    ASSUME NEW d \in DbType, NEW w \in WO
    PROVE  /\ Mild(d, Released(d, w))
           /\ \A o \in WO : Released(d, w).pause[o] # w
<1> DEFINE freed == {o \in WO : d.pause[o] = w}
           q == [o \in WO |-> IF o \in freed THEN "none" ELSE d.pause[o]]
           m == [d EXCEPT !.pause = q]
<1>1. q \in [WO -> WO \cup {"none", "own"}] /\ \A o \in WO : q[o] # w
  BY WorkOrdersAssumption DEF DbType
<1>2. Released(d, w) = Recomputed(m, freed)
  BY DEF Released
<1> HIDE DEF freed, q
<1>3. Mild(d, m) /\ m.pause = q
  BY <1>1, PausesMild
<1> HIDE DEF m
<1>4. Mild(m, Recomputed(m, freed)) /\ Recomputed(m, freed).pause = q
  BY <1>3, RecomputedMild DEF Mild
<1> QED BY <1>1, <1>2, <1>3, <1>4, MildTwice

\* transition_work_order moves one work order.
LEMMA TransitionMoves ==
    ASSUME NEW d \in DbType, NEW w \in WO, NEW to \in LifecycleStatus
    PROVE  Moves(d, Transition(d, w, to), w, to)
<1> DEFINE row == [d.wo[w] EXCEPT !.lifecycle = to]
           e == [d EXCEPT !.wo[w].lifecycle = to]
           m == Recomputed(e, {w})
<1>1. d.wo[w] \in WORow
  BY DEF DbType
<1>2. row \in WORow /\ row.lifecycle = to
  BY <1>1 DEF WORow
<1>3. e = [d EXCEPT !.wo = [d.wo EXCEPT ![w] = row]]
  BY DEF DbType
<1> HIDE DEF row, e
<1>4. /\ e \in DbType /\ e.repair = d.repair /\ e.pause = d.pause
      /\ e.wo[w].lifecycle = to
      /\ \A o \in WO \ {w} : e.wo[o] = d.wo[o]
  <2>1. [d.wo EXCEPT ![w] = row] \in [WO -> WORow]
    BY <1>2 DEF DbType
  <2> QED BY <1>2, <1>3, <2>1 DEF DbType
<1>5. Mild(e, m)
  BY <1>4, RecomputedMild
<1> HIDE DEF m
<1>6. Mild(m, Released(m, w)) /\ \A o \in WO : Released(m, w).pause[o] # w
  BY <1>5, ReleasedMild DEF Mild
<1>7. CASE d.wo[w].lifecycle = to
  BY <1>7 DEF Transition, Moves
<1>8. CASE d.wo[w].lifecycle # to
  <2>1. Transition(d, w, to) = IF SourceStillBlocks(row) THEN m ELSE Released(m, w)
    BY <1>8 DEF Transition, m, e, row
  <2>2. SourceStillBlocks(row) => to = "in_progress"
    BY <1>2 DEF SourceStillBlocks
  <2>3. SourceStillBlocks(row) => Moves(d, m, w, to)
    BY <1>4, <1>5, <2>2 DEF Mild, Moves
  <2>4. Moves(d, Released(m, w), w, to)
    <3>1. Mild(e, Released(m, w))
      BY <1>5, <1>6, MildTwice
    <3> QED BY <1>4, <1>6, <3>1 DEF Mild, Moves
  <2> QED BY <2>1, <2>3, <2>4
<1> QED BY <1>7, <1>8

\* A row rewritten in a work order that is not closed, but for its lifecycle.
LEMMA RowMild ==
    ASSUME NEW d, NEW e, NEW w \in WO, NEW row, OneRow(d, e, w, row),
           row.lifecycle = d.wo[w].lifecycle, d.wo[w].lifecycle # "closed"
    PROVE  Mild(d, e)
BY DEF OneRow, Mild

\* A work order that came to be in progress, then something mild.
LEMMA MovesMild ==
    ASSUME NEW d, NEW e, NEW f, NEW w \in WO,
           Moves(d, e, w, "in_progress"), Mild(e, f)
    PROVE  Moves(d, f, w, "in_progress")
BY DEF Mild, Moves

\* What a handler leaves behind that is mild, or moves an open work order.
LEMMA MildStep ==
    ASSUME WInv, NEW e, Mild(Db, e), Write(e) PROVE Frozen /\ Freed /\ Billed
<1>1. wo' = e.wo /\ repair' = e.repair
  BY DEF Write
<1>2. ASSUME NEW w \in WO, wo[w].lifecycle = "closed"
      PROVE  wo'[w] = [wo[w] EXCEPT !.tech = wo'[w].tech]
  <2>1. wo'[w] = wo[w] /\ wo[w] \in WORow
    BY <1>1, <1>2, DbFields DEF Mild
  <2> QED BY <2>1 DEF WORow
<1>3. \A w \in WO : wo'[w].lifecycle = wo[w].lifecycle
  BY <1>1, DbFields DEF Mild
<1>4. repair' = repair
  BY <1>1, DbFields DEF Mild
<1> QED BY <1>2, <1>3, <1>4 DEF Frozen, Freed, Billed

LEMMA MoveStep ==
    ASSUME WInv, NEW w \in WO, NEW to, NEW e, Moves(Db, e, w, to), Write(e),
           wo[w].lifecycle # "closed"
    PROVE  Frozen /\ Freed /\ Billed
<1>1. wo' = e.wo /\ repair' = e.repair /\ pause' = e.pause
  BY DEF Write
<1>2. ASSUME NEW o \in WO, wo[o].lifecycle = "closed"
      PROVE  wo'[o] = [wo[o] EXCEPT !.tech = wo'[o].tech]
  <2>1. wo'[o] = wo[o] /\ wo[o] \in WORow
    BY <1>1, <1>2, DbFields DEF Moves
  <2> QED BY <2>1 DEF WORow
<1>3. Freed
  BY <1>1, DbFields DEF Moves, Freed
<1>4. repair' = repair
  BY <1>1, DbFields DEF Moves
<1> QED BY <1>2, <1>3, <1>4 DEF Frozen, Billed

LEMMA CreateWorkOrderSound ==
    ASSUME NEW w \in WO, WInv, CreateWorkOrder(w) PROVE Frozen /\ Freed /\ Billed
<1>1. PICK e : Write(e) /\ e = [Db EXCEPT !.wo[w].lifecycle = "assigned"]
  BY DEF CreateWorkOrder
<1>2. wo[w].lifecycle = "absent"
  BY DEF CreateWorkOrder
<1> DEFINE row == [wo[w] EXCEPT !.lifecycle = "assigned"]
<1>3. OneRow(Db, e, w, row) /\ row.lifecycle = "assigned"
  BY <1>1, DbFields, SetLifecycle DEF LifecycleStatus, WORow
<1> HIDE DEF row
<1>4. Moves(Db, e, w, "assigned")
  BY <1>2, <1>3, DbFields DEF OneRow, Moves
<1> QED BY <1>1, <1>2, <1>4, MoveStep

LEMMA AssignSound ==
    ASSUME NEW w \in WO, NEW t \in Tech, WInv, Assign(w, t) PROVE Frozen /\ Freed /\ Billed
<1>1. PICK e : /\ e = [Db EXCEPT !.wo[w].tech = t]
               /\ Write(IF CanTransition(w, "assigned") THEN Transition(e, w, "assigned") ELSE e)
  BY DEF Assign
<1> DEFINE row == [wo[w] EXCEPT !.tech = t]
<1>2. wo[w] \in WORow
  BY DbFields
<1>3. OneRow(Db, e, w, row) /\ row.lifecycle = wo[w].lifecycle /\ row.tech = t
  BY <1>1, <1>2, DbFields, SetTech DEF WORow
<1>4. CASE CanTransition(w, "assigned")
  <2> HIDE DEF row
  <2>1. wo[w].lifecycle # "closed"
    BY <1>2, <1>4, Legal
  <2>2. Mild(Db, e)
    BY <1>3, <2>1, DbFields, RowMild
  <2>3. Moves(e, Transition(e, w, "assigned"), w, "assigned")
    BY <2>2, TransitionMoves DEF LifecycleStatus, Mild
  <2>4. Moves(Db, Transition(e, w, "assigned"), w, "assigned")
    BY <2>2, <2>3, MildMoves
  <2> QED BY <1>1, <1>4, <2>1, <2>4, MoveStep
<1>5. CASE ~ CanTransition(w, "assigned")
  <2>1. wo' = e.wo /\ repair' = e.repair
    BY <1>1, <1>5 DEF Write
  <2>2. wo'[w] = row /\ \A o \in WO \ {w} : wo'[o] = wo[o]
    BY <1>3, <2>1, DbFields DEF OneRow
  <2>3. \A o \in WO \ {w} : wo'[o] = [wo[o] EXCEPT !.tech = wo'[o].tech]
    <3> SUFFICES ASSUME NEW o \in WO \ {w} PROVE wo'[o] = [wo[o] EXCEPT !.tech = wo'[o].tech]
      OBVIOUS
    <3>1. wo'[o] = wo[o] /\ wo[o] \in WORow
      BY <2>2, DbFields
    <3> QED BY <3>1 DEF WORow
  <2>4. wo'[w] = [wo[w] EXCEPT !.tech = wo'[w].tech]
    BY <1>3, <2>2
  <2>5. Frozen
    BY <2>3, <2>4 DEF Frozen
  <2>6. \A o \in WO : wo'[o].lifecycle = wo[o].lifecycle
    BY <1>3, <2>2
  <2>7. repair' = repair
    BY <1>3, <2>1, DbFields DEF OneRow
  <2> QED BY <2>5, <2>6, <2>7 DEF Freed, Billed
<1> QED BY <1>4, <1>5

LEMMA PauseOthersMild ==
    ASSUME WInv, NEW d, NEW t, NEW w \in WO, Mild(Db, d)
    PROVE  Mild(d, PauseOthers(d, t, w))
<1> DEFINE others == InProgressOf(t, w)
           m == StopLabour(d, others)
           n == OpenPause(m, others, w)
<1>1. \A o \in WO \cap others : d.wo[o].lifecycle # "closed"
  BY DbFields DEF Mild, InProgressOf
<1>2. PauseOthers(d, t, w) = Recomputed(n, others)
  BY DEF PauseOthers
<1> HIDE DEF others
<1>3. Mild(d, m)
  BY <1>1, StopLabourMild DEF Mild
<1> HIDE DEF m
<1>4. Mild(m, n)
  BY <1>3, OpenPauseMild DEF Mild
<1> HIDE DEF n
<1>5. Mild(n, Recomputed(n, others))
  BY <1>4, RecomputedMild DEF Mild
<1> QED BY <1>2, <1>3, <1>4, <1>5, MildTwice

LEMMA StartSound ==
    ASSUME NEW w \in WO, WInv, Start(w) PROVE Frozen /\ Freed /\ Billed
<1> DEFINE x == IF wo[w].downtime = "none" THEN "open" ELSE wo[w].downtime
           row == [wo[w] EXCEPT !.downtime = x]
           started == ClockStarted(Db, w)
           paused == PauseOthers(started, wo[w].tech, w)
           e == [paused EXCEPT !.wo[w].labour = "running"]
           ran == [paused.wo[w] EXCEPT !.labour = "running"]
           running == Transition(e, w, "in_progress")
           u == [running EXCEPT !.pause[w] = "none"]
<1>1. /\ CanTransition(w, "in_progress")
      /\ Write(IF wo[w].lifecycle = "in_progress" THEN started ELSE Recomputed(u, {w}))
  BY DEF Start
<1>2. wo[w] \in WORow
  BY DbFields
<1>3. wo[w].lifecycle # "closed"
  BY <1>1, <1>2, Legal
<1>4. started = [Db EXCEPT !.wo[w].downtime = x] /\ x \in {"none", "open", "ended"}
  BY <1>2, DbFields DEF ClockStarted, WORow
<1> HIDE DEF x, started
<1>5. OneRow(Db, started, w, row) /\ row.lifecycle = wo[w].lifecycle
  BY <1>2, <1>4, DbFields, SetDowntime DEF WORow
<1> HIDE DEF row
<1>6. Mild(Db, started)
  BY <1>3, <1>5, DbFields, RowMild
<1>7. CASE wo[w].lifecycle = "in_progress"
  BY <1>1, <1>6, <1>7, MildStep
<1>8. CASE wo[w].lifecycle # "in_progress"
  <2>1. Mild(Db, paused)
    <3>1. Mild(started, paused)
      BY <1>6, PauseOthersMild
    <3> HIDE DEF paused
    <3> QED BY <1>6, <3>1, MildTwice
  <2>2. e = [paused EXCEPT !.wo[w].labour = "running"]
    OBVIOUS
  <2> HIDE DEF paused, e
  <2>3. paused \in DbType /\ paused.wo[w] \in WORow /\ paused.wo[w].lifecycle = wo[w].lifecycle
    BY <2>1, DbFields DEF Mild, DbType
  <2>4. OneRow(paused, e, w, ran) /\ ran.lifecycle = paused.wo[w].lifecycle
    BY <2>2, <2>3, SetLabour DEF WORow
  <2> HIDE DEF ran
  <2>5. Mild(paused, e)
    BY <1>3, <2>3, <2>4, RowMild
  <2>6. Mild(Db, e)
    BY <2>1, <2>5, MildTwice
  <2>7. Moves(e, running, w, "in_progress")
    BY <2>6, TransitionMoves DEF LifecycleStatus, Mild
  <2> HIDE DEF running
  <2>8. Moves(Db, running, w, "in_progress") /\ running \in DbType
    <3>1. Moves(Db, running, w, "in_progress")
      BY <2>6, <2>7, MildMoves
    <3> QED BY <3>1 DEF Moves
  <2>9. Mild(running, u)
    <3>1. u \in DbType /\ u.wo = running.wo /\ u.repair = running.repair
      BY <2>8 DEF DbType
    <3> QED BY <3>1 DEF Mild
  <2> HIDE DEF u
  <2>10. Mild(u, Recomputed(u, {w}))
    BY <2>9, RecomputedMild DEF Mild
  <2>11. Moves(Db, Recomputed(u, {w}), w, "in_progress")
    BY <2>8, <2>9, <2>10, MovesMild
  <2> QED BY <1>1, <1>3, <1>8, <2>11, MoveStep
<1> QED BY <1>7, <1>8

LEMMA PauseSound ==
    ASSUME NEW w \in WO, NEW significant \in BOOLEAN, WInv, Pause(w, significant)
    PROVE  Frozen /\ Freed /\ Billed
<1> DEFINE m == StopLabour(Db, {w})
           n == IF significant THEN OpenPause(m, {w}, "own") ELSE m
<1>1. wo[w].lifecycle = "in_progress" /\ Write(Recomputed(n, {w}))
  BY DEF Pause
<1>2. Mild(Db, m) /\ m \in DbType
  BY <1>1, DbFields, StopLabourMild DEF Mild
<1> HIDE DEF m
<1>3. Mild(Db, OpenPause(m, {w}, "own"))
  <2>1. Mild(m, OpenPause(m, {w}, "own"))
    BY <1>2, OpenPauseMild
  <2> QED BY <1>2, <2>1, MildTwice
<1>4. Mild(Db, n)
  BY <1>2, <1>3
<1> HIDE DEF n
<1>5. Mild(n, Recomputed(n, {w}))
  BY <1>4, RecomputedMild DEF Mild
<1>6. Mild(Db, Recomputed(n, {w}))
  BY <1>4, <1>5, MildTwice
<1> QED BY <1>1, <1>6, MildStep

LEMMA MarkWaitingSound ==
    ASSUME NEW w \in WO, WInv, MarkWaiting(w) PROVE Frozen /\ Freed /\ Billed
<1> DEFINE m == StopLabour(Db, {w})
<1>1. wo[w].lifecycle = "in_progress" /\ Write(Recomputed(m, {w}))
  BY DEF MarkWaiting
<1>2. Mild(Db, m)
  BY <1>1, DbFields, StopLabourMild
<1> HIDE DEF m
<1>3. Mild(m, Recomputed(m, {w}))
  BY <1>2, RecomputedMild DEF Mild
<1>4. Mild(Db, Recomputed(m, {w}))
  BY <1>2, <1>3, MildTwice
<1> QED BY <1>1, <1>4, MildStep

\* Submitting, approving and rejecting: something mild, then a transition.
LEMMA TransitionSound ==
    ASSUME WInv, NEW w \in WO, NEW to \in LifecycleStatus, NEW e, Mild(Db, e),
           wo[w].lifecycle # "closed", Write(Transition(e, w, to))
    PROVE  Frozen /\ Freed /\ Billed
<1>1. Moves(e, Transition(e, w, to), w, to)
  BY TransitionMoves DEF Mild
<1>2. Moves(Db, Transition(e, w, to), w, to)
  BY <1>1, MildMoves
<1> QED BY <1>2, MoveStep

LEMMA SubmitForReviewSound ==
    ASSUME NEW w \in WO, WInv, SubmitForReview(w) PROVE Frozen /\ Freed /\ Billed
<1> DEFINE e == StopLabour(Db, {w})
<1>1. wo[w].lifecycle = "in_progress" /\ Write(Transition(e, w, "pending_review"))
  BY DEF SubmitForReview
<1>2. Mild(Db, e)
  BY <1>1, DbFields, StopLabourMild
<1> HIDE DEF e
<1>3. "pending_review" \in LifecycleStatus
  BY DEF LifecycleStatus
<1> QED BY <1>1, <1>2, <1>3, TransitionSound

LEMMA ApproveWorkSound ==
    ASSUME NEW w \in WO, WInv, ApproveWork(w) PROVE Frozen /\ Freed /\ Billed
<1> DEFINE x == IF wo[w].downtime = "open" THEN "ended" ELSE wo[w].downtime
           row == [wo[w] EXCEPT !.downtime = x]
           e == [Db EXCEPT !.wo[w].downtime = IF @ = "open" THEN "ended" ELSE @]
<1>1. wo[w].lifecycle = "pending_review" /\ Write(Transition(e, w, "closed"))
  BY DEF ApproveWork
<1>2. wo[w] \in WORow
  BY DbFields
<1>3. e = [Db EXCEPT !.wo[w].downtime = x] /\ x \in {"none", "open", "ended"}
  BY <1>2, DbFields DEF WORow
<1> HIDE DEF x, e
<1>4. OneRow(Db, e, w, row) /\ row.lifecycle = wo[w].lifecycle
  BY <1>2, <1>3, DbFields, SetDowntime DEF WORow
<1> HIDE DEF row
<1>5. Mild(Db, e)
  BY <1>1, <1>4, DbFields, RowMild
<1>6. "closed" \in LifecycleStatus
  BY DEF LifecycleStatus
<1> QED BY <1>1, <1>5, <1>6, TransitionSound

LEMMA RejectWorkSound ==
    ASSUME NEW w \in WO, WInv, RejectWork(w) PROVE Frozen /\ Freed /\ Billed
<1> DEFINE row == [wo[w] EXCEPT !.labour = "running"]
<1>1. PICK e : e = [Db EXCEPT !.wo[w].labour = "running"] /\ Write(Transition(e, w, "in_progress"))
  BY DEF RejectWork
<1>2. wo[w].lifecycle = "pending_review" /\ wo[w] \in WORow
  BY DbFields DEF RejectWork
<1>3. OneRow(Db, e, w, row) /\ row.lifecycle = wo[w].lifecycle
  BY <1>1, <1>2, DbFields, SetLabour DEF WORow
<1> HIDE DEF row
<1>4. Mild(Db, e)
  BY <1>2, <1>3, DbFields, RowMild
<1>5. "in_progress" \in LifecycleStatus
  BY DEF LifecycleStatus
<1> QED BY <1>1, <1>2, <1>4, <1>5, TransitionSound

LEMMA PartsBlockerSound ==
    ASSUME NEW w \in WO, WInv, PartsBlocker(w) PROVE Frozen /\ Freed /\ Billed
<1> DEFINE e == [Db EXCEPT !.parts[w] = ~@]
<1>1. Write(Recomputed(e, {w}))
  BY DEF PartsBlocker
<1>2. e \in DbType /\ e.wo = wo /\ e.repair = repair
  BY DbFields DEF DbType
<1> HIDE DEF e
<1>3. Mild(Db, e)
  BY <1>2, DbFields DEF Mild
<1>4. Mild(e, Recomputed(e, {w}))
  BY <1>2, RecomputedMild
<1>5. Mild(Db, Recomputed(e, {w}))
  BY <1>3, <1>4, MildTwice
<1> QED BY <1>1, <1>5, MildStep

LEMMA RepairPausedBlockersSound ==
    ASSUME WInv, RepairPausedBlockers PROVE Frozen /\ Freed /\ Billed
<1> DEFINE freed == {o \in WO : pause[o] \in StaleSources}
           q == [o \in WO |-> IF o \in freed THEN "none" ELSE pause[o]]
           e == [Db EXCEPT !.pause = q]
<1>1. Write(Recomputed(e, freed))
  BY DEF RepairPausedBlockers
<1>2. q \in [WO -> WO \cup {"none", "own"}]
  BY DbFields DEF DbType
<1> HIDE DEF q, freed
<1>3. Mild(Db, e)
  BY <1>2, DbFields, PausesMild
<1> HIDE DEF e
<1>4. Mild(e, Recomputed(e, freed))
  BY <1>3, RecomputedMild DEF Mild
<1>5. Mild(Db, Recomputed(e, freed))
  BY <1>3, <1>4, MildTwice
<1> QED BY <1>1, <1>5, MildStep

-------------------------------------------------------------------------------
\* A handler that writes the repairs and recomputes.
LEMMA RepairsWritten ==
    ASSUME WInv, NEW X, NEW S, NEW e, e = [Db EXCEPT !.repair = X],
           Write(e) \/ Write(Recomputed(e, S))
    PROVE  Frozen /\ Freed /\ repair' = X
<1>1. e.wo = wo /\ e.pause = pause /\ e.repair = X
  BY DEF Db
<1>2. \A w \in WO : wo[w] \in WORow
  BY DbFields
<1>3. CASE Write(e)
  <2>1. wo' = wo /\ repair' = X
    BY <1>1, <1>3 DEF Write
  <2>2. \A w \in WO : wo[w] = [wo[w] EXCEPT !.tech = wo[w].tech]
    BY <1>2 DEF WORow
  <2> QED BY <2>1, <2>2 DEF Frozen, Freed
<1>4. CASE Write(Recomputed(e, S))
  <2> DEFINE f == [w \in WO |-> IF w \in S /\ e.wo[w].lifecycle # "closed"
                               THEN [e.wo[w] EXCEPT !.status = DerivedStatus(e, w)]
                               ELSE e.wo[w]]
  <2>1. Recomputed(e, S) = [e EXCEPT !.wo = f]
    BY DEF Recomputed
  <2>2. ASSUME NEW w \in WO
        PROVE  /\ f[w].lifecycle = wo[w].lifecycle
               /\ wo[w].lifecycle = "closed" => f[w] = [wo[w] EXCEPT !.tech = f[w].tech]
    <3>1. wo[w] \in WORow
      BY <1>2
    <3>2. f[w] = IF w \in S /\ wo[w].lifecycle # "closed"
                 THEN [wo[w] EXCEPT !.status = DerivedStatus(e, w)] ELSE wo[w]
      BY <1>1
    <3> QED BY <3>1, <3>2 DEF WORow
  <2> HIDE DEF f
  <2>3. Recomputed(e, S).wo = f /\ Recomputed(e, S).repair = X
    BY <2>1 DEF Db
  <2>4. wo' = f /\ repair' = X
    BY <1>4, <2>3 DEF Write
  <2> QED BY <2>2, <2>4 DEF Frozen, Freed
<1> QED BY <1>3, <1>4

\* One that writes the repairs and nothing else.
LEMMA RepairsAlone ==
    ASSUME WInv, UNCHANGED <<wo, pause, parts>> PROVE Frozen /\ Freed
<1>1. \A w \in WO : wo[w] \in WORow
  BY DbFields
<1>2. \A w \in WO : wo[w] = [wo[w] EXCEPT !.tech = wo[w].tech]
  BY <1>1 DEF WORow
<1> QED BY <1>2 DEF Frozen, Freed

LEMMA RequestRepairSound ==
    ASSUME NEW w \in WO, WInv, RequestRepair(w) PROVE Frozen /\ Freed /\ Billed
<1>1. PICK X : X = Append(repair, NewRepair(w, "pending", "none", "open"))
  OBVIOUS
<1>2. PICK e : e = [Db EXCEPT !.repair = X] /\ Write(Recomputed(e, {w}))
  BY <1>1, DbFields DEF RequestRepair
<1>3. Frozen /\ Freed /\ repair' = X
  BY <1>2, RepairsWritten
<1>4. \A r \in Repairs : X[r] = repair[r]
  BY <1>1, DbFields DEF DbType, Repairs
<1> QED BY <1>3, <1>4 DEF Billed

LEMMA CreateRepairSound ==
    ASSUME NEW w \in WO, WInv, CreateRepair(w) PROVE Frozen /\ Freed /\ Billed
<1>1. PICK row : repair' = Append(repair, row)
  BY DEF CreateRepair
<1>2. \A r \in Repairs : repair'[r] = repair[r]
  BY <1>1, DbFields DEF DbType, Repairs
<1> QED BY <1>2, RepairsAlone DEF CreateRepair, Billed

LEMMA ApproveRepairSound ==
    ASSUME WInv, NEW r \in Repairs, ApproveRepair(r) PROVE Frozen /\ Freed /\ Billed
<1>1. \A q \in Repairs : repair'[q].ero \in {"draft", repair[q].ero}
  <2> SUFFICES ASSUME NEW q \in Repairs PROVE repair'[q].ero \in {"draft", repair[q].ero}
    OBVIOUS
  <2>1. repair[q] \in RepairRow
    BY RepairRows
  <2>2. PICK row : /\ row \in {repair[q], [repair[q] EXCEPT !.request = "approved", !.ero = "draft"]}
                   /\ repair'[q] \in {row, [row EXCEPT !.related = r]}
    BY DEF ApproveRepair
  <2>3. row \in [wo: WO, request: {"none", "pending", "approved", "rejected"},
                 ero: EROStatus \cup {"none"}, cost: Nat, posted: Nat,
                 blocker: {"none", "open", "resolved"}, related: Nat]
        /\ row.ero \in {"draft", repair[q].ero}
    BY <2>1, <2>2 DEF RepairRow, EROStatus
  <2> QED BY <2>2, <2>3
<1>2. Billed
  BY <1>1 DEF Billed
<1> QED BY <1>2, RepairsAlone DEF ApproveRepair

LEMMA RejectRepairSound ==
    ASSUME WInv, NEW r \in Repairs, RejectRepair(r) PROVE Frozen /\ Freed /\ Billed
<1>1. repair[r] \in RepairRow /\ repair \in Seq(RepairRow)
  BY RepairRows, DbFields DEF DbType
<1>2. \A q \in Repairs : repair'[q].ero = repair[q].ero
  BY <1>1 DEF RejectRepair, RepairRow, Repairs
<1>3. Billed
  BY <1>2 DEF Billed
<1> QED BY <1>3, RepairsAlone DEF RejectRepair

\* ExternalRepairOrder.save books the cost when it closes the order.
LEMMA SavedBills ==
    ASSUME NEW row \in RepairRow, NEW status \in EROStatus, NEW c \in Nat,
           row.ero # "closed", Saved(row, status, c).ero = "closed",
           Saved(row, status, c).cost > 0
    PROVE  Saved(row, status, c).posted = Saved(row, status, c).cost
<1> DEFINE new == [row EXCEPT !.ero = status, !.cost = c]
           freed == [new EXCEPT !.blocker = Resolved(@)]
<1>1. new \in RepairRow /\ new.ero = status /\ new.cost = c
  BY DEF RepairRow
<1>2. Resolved(new.blocker) \in {"none", "open", "resolved"}
  BY <1>1 DEF Resolved, RepairRow
<1> HIDE DEF new
<1>3. freed \in RepairRow /\ freed.ero = status /\ freed.cost = c
  BY <1>1, <1>2 DEF RepairRow
<1>4. Saved(row, status, c) = IF status = row.ero THEN new
                              ELSE IF status = "returned" THEN freed
                              ELSE IF status = "closed" THEN Posted(freed) ELSE new
  BY DEF Saved, new
<1> HIDE DEF freed
<1>5. Posted(freed).ero = status /\ Posted(freed).cost = c
      /\ (c > 0 => Posted(freed).posted = c)
  BY <1>3 DEF Posted, RepairRow
<1>6. status = "closed"
  BY <1>1, <1>3, <1>4, <1>5
<1> QED BY <1>4, <1>5, <1>6

LEMMA SaveRepairSound ==
    ASSUME WInv, NEW r \in Repairs, NEW status \in EROStatus, NEW c \in Nat,
           SaveRepair(r, status, c)
    PROVE  Frozen /\ Freed /\ Billed
<1>1. PICK X : X = [repair EXCEPT ![r] = Saved(@, status, c)]
  OBVIOUS
<1>2. PICK e, S : e = [Db EXCEPT !.repair = X] /\ (Write(e) \/ Write(Recomputed(e, S)))
  <2>1. [Db EXCEPT !.repair[r] = Saved(@, status, c)] = [Db EXCEPT !.repair = X]
    BY <1>1 DEF Db
  <2> QED BY <2>1 DEF SaveRepair
<1>3. Frozen /\ Freed /\ repair' = X
  BY <1>2, RepairsWritten
<1>4. repair \in Seq(RepairRow) /\ repair[r] \in RepairRow
  BY DbFields, RepairRows DEF DbType
<1>5. X[r] = Saved(repair[r], status, c) /\ \A q \in Repairs \ {r} : X[q] = repair[q]
  BY <1>1, <1>4 DEF Repairs
<1>6. Billed
  BY <1>3, <1>4, <1>5, SavedBills DEF Billed
<1> QED BY <1>3, <1>6

LEMMA ReconcileSound ==
    ASSUME WInv, ReconcileVendorBlockers PROVE Frozen /\ Freed /\ Billed
<1> DEFINE orphans == {r \in Repairs : /\ repair[r].blocker = "open"
                                       /\ repair[OrderOf(r)].ero \in {"returned", "closed"}}
           billed == {OrderOf(r) : r \in orphans}
           row(q) == IF q \in billed /\ repair[q].posted = 0 THEN Posted(repair[q]) ELSE repair[q]
           X == [q \in Repairs |-> IF q \in orphans THEN [row(q) EXCEPT !.blocker = "resolved"]
                                   ELSE row(q)]
           e == [Db EXCEPT !.repair = X]
<1>1. Write(Recomputed(e, {repair[r].wo : r \in orphans}))
  BY DEF ReconcileVendorBlockers
<1>2. \A q \in Repairs : X[q].ero = repair[q].ero
  <2> SUFFICES ASSUME NEW q \in Repairs PROVE X[q].ero = repair[q].ero
    OBVIOUS
  <2>1. repair[q] \in RepairRow
    BY RepairRows
  <2>2. Posted(repair[q]) \in RepairRow /\ Posted(repair[q]).ero = repair[q].ero
    BY <2>1 DEF Posted, RepairRow
  <2>3. row(q) \in RepairRow /\ row(q).ero = repair[q].ero
    BY <2>1, <2>2
  <2>4. X[q] \in {row(q), [row(q) EXCEPT !.blocker = "resolved"]}
    OBVIOUS
  <2> HIDE DEF X, row
  <2> QED BY <2>3, <2>4 DEF RepairRow
<1> HIDE DEF X
<1>3. Frozen /\ Freed /\ repair' = X
  BY <1>1, RepairsWritten
<1> QED BY <1>2, <1>3 DEF Billed

-------------------------------------------------------------------------------
LEMMA NextSound ==
    ASSUME WInv, WNext PROVE Frozen /\ Freed /\ Billed
<1>1. CASE Working
  BY <1>1, CreateWorkOrderSound, StartSound, SubmitForReviewSound, AssignSound, PauseSound,
     MarkWaitingSound, ApproveWorkSound, RejectWorkSound, PartsBlockerSound,
     RepairPausedBlockersSound DEF Working
<1>2. CASE Repairing
  <2>1. ASSUME NEW w \in WO, RequestRepair(w) \/ CreateRepair(w)
        PROVE  Frozen /\ Freed /\ Billed
    BY <2>1, RequestRepairSound, CreateRepairSound
  <2>2. ASSUME NEW r \in Repairs, ApproveRepair(r) \/ RejectRepair(r)
        PROVE  Frozen /\ Freed /\ Billed
    BY <2>2, ApproveRepairSound, RejectRepairSound
  <2>3. ASSUME NEW r \in Repairs, MarkReturned(r) PROVE Frozen /\ Freed /\ Billed
    <3>1. "returned" \in EROStatus /\ repair[r].cost \in Nat
      BY RepairRows DEF EROStatus, RepairRow
    <3> QED BY <2>3, <3>1, SaveRepairSound DEF MarkReturned
  <2>4. ASSUME NEW r \in Repairs, NEW status \in EROStatus, NEW c \in 0..MaxCost,
               OfficerSaves(r, status, c)
        PROVE  Frozen /\ Freed /\ Billed
    <3>1. c \in Nat
      BY WorkOrdersAssumption
    <3> QED BY <2>4, <3>1, SaveRepairSound DEF OfficerSaves
  <2>5. ASSUME NEW r \in Repairs, NEW c \in 0..MaxCost, AcceptRepair(r, c)
        PROVE  Frozen /\ Freed /\ Billed
    <3>1. "closed" \in EROStatus /\ c \in Nat
      BY WorkOrdersAssumption DEF EROStatus
    <3> QED BY <2>5, <3>1, SaveRepairSound DEF AcceptRepair
  <2> QED BY <1>2, <2>1, <2>2, <2>3, <2>4, <2>5, ReconcileSound DEF Repairing
<1> QED BY <1>1, <1>2 DEF WNext

\* Whatever happens to its blockers, repairs and technician, a closed work order
\* keeps its lifecycle, operational status and clocks.
THEOREM ClosedStaysFrozen == WSpec => ClosedIsFrozen
<1>1. WInv /\ [WNext]_wvars => [Frozen]_wvars
  BY NextSound
<1>2. ClosedIsFrozen <=> [][Frozen]_wvars
  BY PTL DEF ClosedIsFrozen, Frozen
<1> QED BY <1>1, <1>2, WorkOrdersInvariance, PTL DEF WSpec

\* When a work order leaves IN_PROGRESS, by review or by reassignment, nothing
\* it auto-paused stays paused by it.
THEOREM DependentsAreFreed == WSpec => DependentsFreed
<1>1. WInv /\ [WNext]_wvars => [Freed]_wvars
  BY NextSound
<1>2. DependentsFreed <=> [][Freed]_wvars
  BY PTL DEF DependentsFreed, Freed
<1> QED BY <1>1, <1>2, WorkOrdersInvariance, PTL DEF WSpec

\* Every handler that closes a repair order with a cost leaves exactly that cost
\* in the ledger.
THEOREM ClosedRepairsArePosted == WSpec => ClosedRepairIsPosted
<1>1. WInv /\ [WNext]_wvars => [Billed]_wvars
  BY NextSound
<1>2. ClosedRepairIsPosted <=> [][Billed]_wvars
  BY PTL DEF ClosedRepairIsPosted, Billed
<1> QED BY <1>1, <1>2, WorkOrdersInvariance, PTL DEF WSpec
===============================================================================

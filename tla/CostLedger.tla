----------------------------- MODULE CostLedger -------------------------------
(***************************************************************************)
(* The cost ledger (maintenance/cost_ledger.py) and the totals cached per  *)
(* work order in WorkOrderCost, with requests and commands that overlap.   *)
(*                                                                         *)
(* Sessions run READ COMMITTED transactions: a step sees what others have  *)
(* committed and its own rows.  A posting locks its source row, adds the   *)
(* difference to what the ledger holds for it, reads the sums of the work  *)
(* order and writes them to the cache row; row locks are held to the end.  *)
(*                                                                         *)
(* The journal is append-only and every reader takes sums and counts of    *)
(* it, so it is kept as the balance of each source and the number of rows  *)
(* of each work order.  Amounts are in the currency's smallest unit.       *)
(***************************************************************************)
EXTENDS Totals

CONSTANTS
    Session,    \* database sessions
    Wo,         \* the work orders
    NoWo,       \* work_order is null
    Source,     \* the rows costs are posted for
    KindOf,     \* per source, its source_type
    WoOf,       \* per source, its work order
    Kept,       \* per backfilled source, its category
    Legacy,     \* per work order, what its card showed before the ledger
    Typed,      \* per work order, its request lines and repairs, whatever became of them
    OnComponent,\* work orders filed on a component as well as on a machine
    Amount,     \* bound: amounts
    MaxRuns     \* bound: requests and commands begun

SourceType == {"part_issue_line", "external_repair_order", "stock_movement",
               "cost_adjustment", "migration_backfill"}
CostCategory == {"material", "vendor_repair", "consumable", "adjustment"}

ASSUME CostLedgerAssumption ==
    /\ IsFiniteSet(Wo) /\ NoWo \notin Wo
    /\ IsFiniteSet(Source)
    /\ KindOf \in [Source -> SourceType]
    /\ WoOf \in [Source -> Wo \cup {NoWo}]
    /\ Kept \in [Source -> CostCategory]
    /\ Legacy \in [Wo -> [CostCategory -> Nat]]
    /\ Typed \in [Wo -> [CostCategory -> Nat]]
    /\ Amount \subseteq Nat /\ MaxRuns \in Nat

VARIABLES
    due,      \* per source, what its row is worth
    net,      \* per source, SUM(amount) of its CostTransaction rows
    entries,  \* per work order, how many CostTransaction rows it has
    cache,    \* the WorkOrderCost rows
    txn,      \* the transaction of each session
    cmd,      \* the management command under way
    runs,     \* requests and commands begun so far
    before,   \* per source, the part of net from before the period of the reports
    fit       \* per work order, how its cache row was last written

cvars == <<due, net, entries, cache, txn, cmd, runs, before, fit>>

CategoryOf(s) ==
    CASE KindOf[s] = "part_issue_line" -> "material"
      [] KindOf[s] = "external_repair_order" -> "vendor_repair"
      [] KindOf[s] = "stock_movement" -> "consumable"
      [] KindOf[s] = "cost_adjustment" -> "adjustment"
      [] KindOf[s] = "migration_backfill" -> Kept[s]

Sums == [CostCategory -> Int]
ZeroSums == [c \in CostCategory |-> 0]

\* count: ledger_transaction_count.
CacheRow == [exists: BOOLEAN, sums: Sums, count: Nat]

\* source: {} for a refresh alone; creates: the session made the cache row;
\* overtaken: somebody posted to the work order since the sums were read.
Transaction == [step: {"idle", "locked", "posted", "read", "done"},
                source: SUBSET Source, wo: Wo \cup {NoWo}, due: Int, delta: Int,
                sums: Sums, count: Nat, creates: BOOLEAN, overtaken: BOOLEAN]

Idle == [step |-> "idle", source |-> {}, wo |-> NoWo, due |-> 0, delta |-> 0,
         sums |-> ZeroSums, count |-> 0, creates |-> FALSE, overtaken |-> FALSE]

\* A command with its copy of a cache row, the sums it read and the categories it
\* has left; overtaken: somebody wrote that row since it was copied.
Command == [name: {"none", "backfill", "check"}, step: {"idle", "copied", "writing"},
            wo: Wo \cup {NoWo}, copy: Sums, sums: Sums, todo: SUBSET CostCategory,
            overtaken: BOOLEAN]

NoCommand == [name |-> "none", step |-> "idle", wo |-> NoWo, copy |-> ZeroSums,
              sums |-> ZeroSums, todo |-> {}, overtaken |-> FALSE]

\* From sums nobody overtook; field by field, where it was off by more than the
\* tolerance; or else.
Fit == {"exact", "near", "adrift"}

LedgerInit ==
    /\ due = [s \in Source |-> 0]
    /\ net = [s \in Source |-> 0]
    /\ entries = [w \in Wo |-> 0]
    /\ cache = [w \in Wo |-> [exists |-> Legacy[w] # ZeroSums, sums |-> Legacy[w], count |-> 0]]
    /\ txn = [x \in Session |-> Idle]
    /\ cmd = NoCommand
    /\ runs = 0
    /\ before = [s \in Source |-> 0]
    /\ fit = [w \in Wo |-> "adrift"]

-------------------------------------------------------------------------------
(***************************************************************************)
(* Posting.                                                                *)
(***************************************************************************)
\* Sum("amount"): an adjustment may be a credit, so what is charged less what is
\* credited.
TotalOf(f) ==
    Total([i \in DOMAIN f |-> AtLeastZero(f[i])])
      - Total([i \in DOMAIN f |-> AtLeastZero(-f[i])])

\* recalculate_from_ledger: SUM(amount) by category.
SumsOf(n, w) ==
    [c \in CostCategory |->
       TotalOf([s \in {r \in Source : WoOf[r] = w /\ CategoryOf(r) = c} |-> n[s]])]

\* What a source may come to be worth: a line is issued again or priced anew, a
\* repair is closed at another price or at none, a movement and an adjustment
\* are written once.
Worth(s) ==
    CASE KindOf[s] \in {"part_issue_line", "external_repair_order"} -> Amount
      [] KindOf[s] = "stock_movement" -> IF due[s] = 0 THEN Amount ELSE {}
      [] KindOf[s] = "cost_adjustment" ->
           IF due[s] = 0 THEN (Amount \cup {-a : a \in Amount}) \ {0} ELSE {}
      [] KindOf[s] = "migration_backfill" -> {}

books == <<due, net, entries, cache, cmd, before, fit>>

Begins == runs < MaxRuns /\ runs' = runs + 1

Set(x, t) == txn' = [txn EXCEPT ![x] = t]

\* Mutant: the source row is not locked.
FreeAnyway(s) == TRUE

\* select_for_update on the source row; an adjustment is a row of its own.
Free(s) == \A y \in Session : s \notin txn[y].source

\* post_material, post_vendor_repair, post_consumable, post_adjustment: the
\* source row is locked for the rest of the transaction.
Lock(x, s, a) ==
    /\ Begins
    /\ txn[x].step = "idle"
    /\ Free(s)
    /\ a \in Worth(s)
    /\ Set(x, [Idle EXCEPT !.step = "locked", !.source = {s}, !.wo = WoOf[s], !.due = a])
    /\ UNCHANGED books

\* The difference to what the ledger already holds for the source.
Delta(x, s) == txn[x].due - net[s]

\* CostTransaction.save: a row targets a work order, machine or component; one
\* that does not raises, and only Abort is left.
MayPost(x) == txn[x].wo # NoWo

\* A repair closed at a price of zero or none is not posted, whatever was before.
Unpriced(x, s) == KindOf[s] = "external_repair_order" /\ txn[x].due = 0

\* _post.
Post(x, s) ==
    /\ txn[x].step = "locked"
    /\ s \in txn[x].source
    /\ \/ /\ Delta(x, s) = 0 \/ Unpriced(x, s)
          /\ Set(x, [txn[x] EXCEPT !.step = "done"])
       \/ /\ Delta(x, s) # 0
          /\ ~ Unpriced(x, s)
          /\ MayPost(x)
          /\ Set(x, [txn[x] EXCEPT !.step = "posted", !.delta = Delta(x, s)])
    /\ UNCHANGED <<books, runs>>

\* The callers of _refresh_wo_cache that post nothing (a request approved or
\* cancelled, a decision on a shortage, a repair accepted), and
\* rebuild_wo_cost_cache for a row that exists.
RefreshOnly(x, w) ==
    /\ Begins
    /\ txn[x].step = "idle"
    /\ Set(x, [Idle EXCEPT !.step = "posted", !.wo = w])
    /\ UNCHANGED books

Booked(x) ==
    [s \in Source |-> IF s \in txn[x].source THEN net[s] + txn[x].delta ELSE net[s]]

NewRows(x) == IF txn[x].source = {} THEN 0 ELSE 1

\* Mutant: the sums are read as they were before the posting.
SeenBefore(x) == net

\* The session's own row is among those it sums up.
Seen(x) == Booked(x)

\* get_or_create waits for whoever is creating the row.
MayRead(x) == \A y \in Session : ~ (txn[y].creates /\ txn[y].wo = txn[x].wo)

\* _refresh_wo_cache, up to the write.
ReadSums(x) ==
    /\ txn[x].step = "posted"
    /\ MayRead(x)
    /\ Set(x, [txn[x] EXCEPT
                 !.step = "read",
                 !.sums = SumsOf(Seen(x), txn[x].wo),
                 !.count = entries[txn[x].wo] + NewRows(x),
                 !.creates = ~ cache[txn[x].wo].exists])
    /\ UNCHANGED <<books, runs>>

\* A posting to w overtakes those that have read its sums and not written them.
Overtaken(t, w) == IF t.step = "read" /\ t.wo = w THEN [t EXCEPT !.overtaken = TRUE] ELSE t

AfterCommit(x) ==
    [y \in Session |->
       CASE y = x -> Idle
         [] y # x /\ txn[x].delta # 0 -> Overtaken(txn[y], txn[x].wo)
         [] y # x /\ txn[x].delta = 0 -> txn[y]]

Worthy(x) == [s \in Source |-> IF s \in txn[x].source THEN txn[x].due ELSE due[s]]

\* The cache row is written and the transaction ends: its rows appear.
Commit(x) ==
    /\ txn[x].step = "read"
    /\ due' = Worthy(x)
    /\ net' = Booked(x)
    /\ entries' = [entries EXCEPT ![txn[x].wo] = @ + NewRows(x)]
    /\ cache' = [cache EXCEPT ![txn[x].wo] =
                   [exists |-> TRUE, sums |-> txn[x].sums, count |-> txn[x].count]]
    /\ txn' = AfterCommit(x)
    /\ cmd' = IF cmd.wo = txn[x].wo THEN [cmd EXCEPT !.overtaken = TRUE] ELSE cmd
    /\ fit' = [fit EXCEPT ![txn[x].wo] = IF txn[x].overtaken THEN "adrift" ELSE "exact"]
    /\ UNCHANGED <<runs, before>>

\* Posted before: nothing is written and the cache is not refreshed.
CommitSame(x) ==
    /\ txn[x].step = "done"
    /\ due' = Worthy(x)
    /\ Set(x, Idle)
    /\ UNCHANGED <<net, entries, cache, cmd, runs, before, fit>>

\* An exception anywhere in the request takes everything back.
Abort(x) ==
    /\ txn[x].step # "idle"
    /\ Set(x, Idle)
    /\ UNCHANGED <<books, runs>>

-------------------------------------------------------------------------------
(***************************************************************************)
(* The commands, run by hand and one at a time, while requests go on:      *)
(* every statement commits on its own, and they may be broken off.         *)
(* rebuild_wo_cost_cache is RefreshOnly; what the reconciliation of vendor *)
(* blockers books for a repair is a step of WorkOrders.                    *)
(***************************************************************************)
\* Both work on the cache rows they loaded at first.
CopyCard(k, w) ==
    /\ Begins
    /\ cmd.step = "idle"
    /\ cache[w].exists
    /\ cmd' = [NoCommand EXCEPT !.name = k, !.step = "copied", !.wo = w, !.copy = cache[w].sums]
    /\ UNCHANGED <<due, net, entries, cache, txn, before, fit>>

NoRows(w) == entries[w] = 0

\* backfill_cost_ledger: a work order with rows is passed over.
StartBackfill ==
    /\ cmd.name = "backfill"
    /\ cmd.step = "copied"
    /\ NoRows(cmd.wo)
    /\ cmd' = [cmd EXCEPT !.step = "writing", !.todo = {c \in CostCategory : cmd.copy[c] # 0}]
    /\ UNCHANGED <<due, net, entries, cache, txn, runs, before, fit>>

\* A row for every category that is not zero in the copy.  The command looks for
\* a row of the category first: the only backfill under way finds none.
BackfillRow(s) ==
    /\ cmd.name = "backfill"
    /\ cmd.step = "writing"
    /\ KindOf[s] = "migration_backfill"
    /\ WoOf[s] = cmd.wo
    /\ CategoryOf(s) \in cmd.todo
    /\ LET left == cmd.todo \ {CategoryOf(s)}
       IN  /\ cmd' = [cmd EXCEPT !.todo = left]
           /\ fit' = [fit EXCEPT ![cmd.wo] =
                        IF left = {} /\ ~ cmd.overtaken THEN "exact" ELSE "adrift"]
    /\ net' = [net EXCEPT ![s] = @ + cmd.copy[CategoryOf(s)]]
    /\ due' = [due EXCEPT ![s] = cmd.copy[CategoryOf(s)]]
    /\ entries' = [entries EXCEPT ![cmd.wo] = @ + 1]
    /\ txn' = [y \in Session |-> Overtaken(txn[y], cmd.wo)]
    /\ UNCHANGED <<cache, runs, before>>

\* ledger_integrity_check: a difference of one unit is none.
Near(a, b) == a - b \in -1..1

Drifted(copy, sums) == {c \in CostCategory : ~ Near(copy[c], sums[c])}

CheckCard ==
    /\ cmd.name = "check"
    /\ cmd.step = "copied"
    /\ LET sums == SumsOf(net, cmd.wo)
       IN  cmd' = [cmd EXCEPT !.step = "writing", !.sums = sums, !.todo = Drifted(cmd.copy, sums)]
    /\ UNCHANGED <<due, net, entries, cache, txn, runs, before, fit>>

\* --fix: each drifted field is saved; the others and the count are left.
FixField(c) ==
    /\ cmd.name = "check"
    /\ cmd.step = "writing"
    /\ c \in cmd.todo
    /\ cache' = [cache EXCEPT ![cmd.wo].sums[c] = cmd.sums[c]]
    /\ cmd' = [cmd EXCEPT !.todo = @ \ {c}]
    /\ fit' = [fit EXCEPT ![cmd.wo] =
                 IF cmd.todo = {c} /\ ~ cmd.overtaken THEN "near" ELSE "adrift"]
    /\ UNCHANGED <<due, net, entries, txn, runs, before>>

\* Done, or broken off.
EndCommand ==
    /\ cmd.step # "idle"
    /\ cmd' = NoCommand
    /\ UNCHANGED <<due, net, entries, cache, txn, runs, before, fit>>

\* Time passes until the period of the reports begins after all the rows there
\* are; bound: once.
NewPeriod ==
    /\ \A s \in Source : before[s] = 0
    /\ before' = net
    /\ UNCHANGED <<due, net, entries, cache, txn, cmd, runs, fit>>

-------------------------------------------------------------------------------
LedgerNext ==
    \/ \E x \in Session :
         \/ \E s \in Source : \/ \E a \in Worth(s) : Lock(x, s, a)
                              \/ Post(x, s)
         \/ \E w \in Wo : RefreshOnly(x, w)
         \/ ReadSums(x)
         \/ Commit(x)
         \/ CommitSame(x)
         \/ Abort(x)
    \/ \E k \in {"backfill", "check"}, w \in Wo : CopyCard(k, w)
    \/ StartBackfill
    \/ \E s \in Source : BackfillRow(s)
    \/ CheckCard
    \/ \E c \in CostCategory : FixField(c)
    \/ EndCommand
    \/ NewPeriod

LedgerSpec == LedgerInit /\ [][LedgerNext]_cvars

-------------------------------------------------------------------------------
(***************************************************************************)
(* The pages.  Costs of a machine are those of the work orders ws filed on *)
(* it and on what it contains (_post files a row on the machine of its     *)
(* work order, so the page's two filters find the same rows).              *)
(***************************************************************************)
\* work_order_cost_ledger, and cost_ledger_export_csv summed up.
LedgerPage(w) == SumsOf(net, w)

\* MachineCost.for_machine: the rows of the period, of orders in any state.
MachineCost(ws) ==
    [c \in CostCategory |->
       TotalOf([s \in {r \in Source : WoOf[r] \in ws /\ CategoryOf(r) = c} |-> net[s] - before[s]])]

\* An order without a card is reported at what its lines and repairs say.
Reported(w) == IF cache[w].exists THEN cache[w].sums ELSE Typed[w]

\* machine_cost_report, of those orders that are closed and were last saved in the
\* period: whole cards, and those of a component at both nodes.
CostReport(closed) ==
    [c \in CostCategory |->
       TotalOf([w \in closed |-> Reported(w)[c]])
         + TotalOf([w \in closed \cap OnComponent |-> Reported(w)[c]])]

-------------------------------------------------------------------------------
(***************************************************************************)
(* The properties.                                                         *)
(***************************************************************************)
\* Every row has its type, and a transaction that posts has a work order.
LedgerTypeOK ==
    /\ due \in [Source -> Int]
    /\ net \in [Source -> Int]
    /\ entries \in [Wo -> Nat]
    /\ cache \in [Wo -> CacheRow]
    /\ txn \in [Session -> Transaction]
    /\ cmd \in Command
    /\ runs \in 0..MaxRuns
    /\ before \in [Source -> Int]
    /\ fit \in [Wo -> Fit]
    /\ \A x \in Session : txn[x].step \in {"posted", "read"} => txn[x].wo \in Wo

\* The ledger holds for every source exactly what it is worth, although it is
\* posted again and again, at other prices, from several sessions, and any of
\* them may fail: retries add nothing and no change is lost.  A repair closed
\* again without a price keeps what it was booked at.
BooksMatchSources ==
    \A s \in Source :
      net[s] = due[s] \/ (KindOf[s] = "external_repair_order" /\ due[s] = 0)

\* What a card showed before the ledger is booked once at most, in its category,
\* however often the backfill is run, broken off or overtaken.
HistoryBookedOnce ==
    \A s \in Source : KindOf[s] = "migration_backfill" /\ WoOf[s] \in Wo =>
      net[s] \in {0, Legacy[WoOf[s]][CategoryOf(s)]}

\* The cost card of a work order is the sum of its ledger rows, unless another
\* posting came between reading the sums and writing them, and within a unit of
\* it after an integrity check that nobody overtook: drift comes from an
\* overlap, or from before the ledger, and the next undisturbed posting,
\* refresh, backfill or check ends it.
CacheIsLedger ==
    \A w \in Wo : cache[w].exists =>
      /\ fit[w] = "exact" => cache[w].sums = LedgerPage(w)
      /\ fit[w] = "near" => \A c \in CostCategory : Near(cache[w].sums[c], LedgerPage(w)[c])

\* Creating the row is safe without a lock: whoever creates the cost card of a
\* work order is alone in reading its sums, so the first card is never adrift.
FirstCardIsExact ==
    \A x \in Session :
      txn[x].creates => /\ ~ txn[x].overtaken
                        /\ \A y \in Session \ {x} : ~ (txn[y].step = "read" /\ txn[y].wo = txn[x].wo)

\* Two reports computed in different ways agree: the machine page (from the rows)
\* and the cost report (from the cards) show the same in every category if the
\* reported orders have exact cards, no component and no rows from before the
\* period, and the other orders no rows in it.
ReportsAgree ==
    \A ws \in SUBSET Wo : \A closed \in SUBSET ws :
      /\ \A w \in closed : cache[w].exists /\ fit[w] = "exact" /\ w \notin OnComponent
      /\ \A s \in Source : /\ WoOf[s] \in closed => before[s] = 0
                           /\ WoOf[s] \in ws \ closed => before[s] = net[s]
      => MachineCost(ws) = CostReport(closed)

\* The ledger is right for every source, books what there was before it once, and
\* the first card of a work order is written by somebody who is alone in reading
\* its sums.
LedgerInv == LedgerTypeOK /\ BooksMatchSources /\ HistoryBookedOnce /\ FirstCardIsExact

\* Cards, the machine page and the cost report show the ledger, but for cards
\* written from sums that had been overtaken.
CostPagesFit == CacheIsLedger /\ ReportsAgree
===============================================================================

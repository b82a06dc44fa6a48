--------------------------- MODULE ContentionProofs ---------------------------
(***************************************************************************)
(* Theorems about requests that meet at the same part, for any number of   *)
(* connections, lines, units and requests.                                 *)
(***************************************************************************)
EXTENDS Contention, TotalsProofs, SequenceTheorems

-------------------------------------------------------------------------------
(***************************************************************************)
(* Transactions: types, protocol and locks.                                *)
(***************************************************************************)
Active == {"pending", "approved", "allocated"}
Allocating == {"take", "update", "insert"}
Steps == {"invoice", "read", "saved", "release", "write", "status", "commit"} \cup Allocating

TxRow ==
    [op: Op, l: Line, asked: Nat, qty: Nat, step: Steps, saw: LineRow, had: Nat,
     req: RequestRow, on: Nat, id: Nat, rows: [Line -> LineRow], todo: Seq(Line),
     grant: Nat, give: [Line -> Nat], books: SUBSET (Nat \X [Line -> Reservation]),
     locks: SUBSET Resource]

\* The steps of each handler, and what the view checked before it began.
Protocol(t) ==
    /\ t.op = "approve" => t.step \in {"read", "commit"} \cup Allocating /\ t.saw.status = "pending"
    /\ t.op = "receive" => t.step \in {"invoice", "read", "saved"} \cup Allocating
    /\ t.op \in {"issue", "cancel"} => /\ t.step \in {"read", "release", "write", "status", "commit"}
                                       /\ t.saw.status \in Active
    /\ t.op = "cancel" => t.saw.issued = 0
    /\ t.op \in {"urgent"} \cup OrderPage => t.step \in {"read", "saved"}
    /\ t.op \in Elsewhere => t.step \in {"status", "commit"}

\* An approval keeps what it allocated to the end.
Allocates(t) == t.step \in Allocating \/ (t.op = "approve" /\ t.step = "commit")

\* What an allocation gives: to lines that were active when it read them, to no
\* line twice, and never more than was asked for.
Giving(t) ==
    /\ t.op = "approve" => /\ \A k \in Line : t.give[k] > 0 => k = t.l
                           /\ t.todo # <<>> => t.todo = <<t.l>>
                           /\ t.step = "take" /\ t.todo # <<>> => t.books = {}
    /\ \A i, j \in DOMAIN t.todo : t.todo[i] = t.todo[j] => i = j
    /\ \A i \in DOMAIN t.todo : t.give[t.todo[i]] = 0
    /\ \A k \in Line : /\ t.rows[k].approved <= Asked[k]
                       /\ t.give[k] <= Asked[k]
                       /\ t.give[k] > 0 => t.rows[k].status \in Active
    /\ IF t.step \in {"update", "insert"}
       THEN /\ t.todo # <<>>
            /\ t.grant > 0 /\ t.grant <= Asked[Head(t.todo)]
            /\ t.rows[Head(t.todo)].status \in Active
       ELSE t.grant = 0
    /\ ~ Allocates(t) => t.books = {}
    /\ t.books = {} => t.grant = 0 /\ \A k \in Line : t.give[k] = 0

\* The locks a transaction holds, read off its state.
LineHeld(t, k) ==
    \/ t.give[k] > 0
    \/ t.op = "approve" /\ t.step # "read" /\ k = t.l
    \/ t.op \in {"issue", "cancel"} /\ t.step \in {"status", "commit"} /\ k = t.l
    \/ t.step = "insert" /\ k = Head(t.todo)

ResHeld(t, k) ==
    \/ t.give[k] > 0
    \/ /\ t.op \in {"issue", "cancel"} /\ t.step \in {"write", "status", "commit"}
       /\ t.id # 0 /\ k = t.l

StockHeld(t) ==
    \/ t.op = "issue" /\ t.step # "read"
    \/ t.op = "receive" /\ t.step \in Allocating

ItemHeld(t) == t.op = "receive" /\ t.step \notin {"invoice", "read"}

Locking(t) ==
    /\ \A k \in Line : <<"line", k>> \in t.locks <=> LineHeld(t, k)
    /\ \A k \in Line : <<"res", k>> \in t.locks <=> ResHeld(t, k)
    /\ Stock \in t.locks <=> StockHeld(t)
    /\ Item \in t.locks <=> ItemHeld(t)

Local(t) == Protocol(t) /\ Giving(t) /\ Locking(t)

\* No two transactions hold the same lock.
Apart(t, u) ==
    /\ \A k \in Line : ~(LineHeld(t, k) /\ LineHeld(u, k))
    /\ \A k \in Line : ~(ResHeld(t, k) /\ ResHeld(u, k))
    /\ ~(StockHeld(t) /\ StockHeld(u))
    /\ ~(ItemHeld(t) /\ ItemHeld(u))

-------------------------------------------------------------------------------
(***************************************************************************)
(* Copies against rows.  Without an overlap a line only moves on, and so   *)
(* does a reservation in any case: a copy that was overtaken never becomes *)
(* current again.                                                          *)
(***************************************************************************)
Phase(s) == IF s = "pending" THEN 0 ELSE IF s \in {"issued", "rejected"} THEN 2 ELSE 1

Earlier(a, b) ==
    \/ Phase(a.status) < Phase(b.status)
    \/ Phase(a.status) = 1 /\ Phase(b.status) = 1 /\ a.allocated < b.allocated

Older(a, b) == a.id < b.id \/ (a.id = b.id /\ b.qty < a.qty)

Granted(t) == Total(t.give) + t.grant

\* What was granted is backed by the stock s and the reservations as they are.
Covered(t, s) ==
    Granted(t) = 0 \/ Reserved + Granted(t) <= (IF t.op = "receive" THEN t.on + t.qty ELSE s)

BooksSound(t) ==
    /\ \A b, c \in t.books : b = c
    /\ \A b \in t.books : /\ \A k \in Line : b[2][k] = res[k] \/ Older(b[2][k], res[k])
                          /\ b[2] = res => Covered(t, b[1])

\* The reservation a cancellation found is the one it must release.
FoundIt(t) ==
    t.op = "cancel" /\ t.step # "read" /\ t.saw = line[t.l] /\ <<"line", t.l>> \notin raced =>
      IF t.id = 0 THEN res[t.l].qty = 0 ELSE res[t.l].id = t.id

Global(t) ==
    /\ StockHeld(t) => t.on = stock
    /\ StockHeld(t) /\ t.op = "issue" => t.qty <= stock
    /\ t.saw.issued <= moved[t.l] /\ t.had <= arrived
    /\ \A k \in Line : t.give[k] > 0 => res[k].qty = 0
    /\ <<"line", t.l>> \in raced \/ t.saw = line[t.l] \/ Earlier(t.saw, line[t.l])
    /\ FoundIt(t)
    /\ BooksSound(t)
    /\ t.op = "order" /\ t.step = "read" => t.req.status = "pending"
    /\ t.op \in OrderPage /\ t.step = "saved" => t.req.ordered \in 1..pr.ordered

-------------------------------------------------------------------------------
(***************************************************************************)
(* The inductive invariant.                                                *)
(***************************************************************************)
Tables ==
    /\ stock \in Nat
    /\ line \in [Line -> LineRow]
    /\ res \in [Line -> Reservation]
    /\ item \in Nat
    /\ pr \in RequestRow
    /\ tx \in [Conn -> SUBSET TxRow]
    /\ begun \in 0..MaxOps
    /\ moved \in [Line -> Nat]
    /\ arrived \in Nat
    /\ raced \subseteq Resource \cup {Pr}

RowsSound ==
    \A l \in Line : line[l].approved <= Asked[l] /\ (res[l].qty > 0 => res[l].id > 0)

Sessions ==
    /\ \A x \in Conn : \A t, u \in tx[x] : t = u
    /\ \A x \in Conn : \A t \in tx[x] : Local(t) /\ Global(t)
    /\ \A x, y \in Conn : x # y => \A t \in tx[x], u \in tx[y] : Apart(t, u)

\* An order that others overtook is still to be marked, and will be found out.
Ordering ==
    /\ pr.status = "converted" => pr.ordered > 0
    /\ pr.again <= pr.ordered
    /\ pr.ordered > 0 =>
         \/ pr.ordered = 1 + pr.again /\ pr.status = "converted"
         \/ Pr \in raced
         \/ \E x \in Conn : \E t \in tx[x] :
              /\ t.op \in OrderPage /\ t.step = "saved"
              /\ pr.ordered = 1 + pr.again \/ t.req.ordered < pr.ordered

ContentionIInv ==
    /\ Tables
    /\ RowsSound
    /\ Sessions
    /\ StockIsExact
    /\ CountsFollowMovements
    /\ ReservationsHeld
    /\ Ordering

-------------------------------------------------------------------------------
(***************************************************************************)
(* What a step of x may do to the rows, and what the others keep.          *)
(***************************************************************************)
Changed(x) ==
    /\ raced \subseteq raced'
    /\ \A k \in Line : \/ <<"line", k>> \in raced'
                       \/ line'[k] = line[k] /\ res'[k] = res[k]
                       \/ Earlier(line[k], line'[k])
    /\ \A k \in Line : res'[k] = res[k] \/ Older(res[k], res'[k])
    /\ \A k \in Line : res'[k].qty <= res[k].qty \/ \E t \in tx[x] : ResHeld(t, k)
    /\ stock' = stock \/ \E t \in tx[x] : StockHeld(t)
    /\ \A k \in Line : moved[k] <= moved'[k]
    /\ arrived <= arrived'
    /\ pr.ordered <= pr'.ordered

\* Session x's own row after its step.
Serves(x) ==
    /\ \A y \in Conn \ {x} : tx'[y] = tx[y]
    /\ \A v, w \in tx'[x] : v = w
    /\ \A v \in tx'[x] : Local(v) /\ Global(v)'
    /\ \A v \in tx'[x] : \A y \in Conn \ {x} : \A u \in tx[y] : Apart(v, u)

\* A line that moves on does not come back.
LEMMA EarlierOrder ==
    ASSUME NEW a \in LineRow, NEW b \in LineRow, NEW c \in LineRow
    PROVE  /\ Earlier(a, b) => a # b
           /\ Earlier(a, b) /\ Earlier(b, c) => Earlier(a, c)
<1>1. \A s : Phase(s) \in 0..2 BY DEF Phase
<1>2. /\ a.allocated \in Nat /\ b.allocated \in Nat /\ c.allocated \in Nat BY DEF LineRow
<1> QED BY <1>1, <1>2 DEF Earlier

\* Nor does a reservation.
LEMMA OlderOrder ==
    ASSUME NEW a \in Reservation, NEW b \in Reservation, NEW c \in Reservation
    PROVE  /\ Older(a, b) => a # b
           /\ Older(a, b) /\ Older(b, c) => Older(a, c)
<1>1. /\ a.id \in Nat /\ b.id \in Nat /\ c.id \in Nat
      /\ a.qty \in Nat /\ b.qty \in Nat /\ c.qty \in Nat
    BY DEF Reservation
<1> QED BY <1>1 DEF Older

\* Books read as they are now were read of the same reservations before the step.
LEMMA BooksKept ==
    ASSUME Tables, Tables', NEW x, Changed(x), NEW u \in TxRow, BooksSound(u)
    PROVE  BooksSound(u)'
<1>1. /\ res \in [Line -> Reservation] /\ res' \in [Line -> Reservation]
      /\ u.books \subseteq Nat \X [Line -> Reservation]
    BY DEF Tables, TxRow
<1>2. \A k \in Line : res'[k] = res[k] \/ Older(res[k], res'[k])
    BY DEF Changed
<1> SUFFICES ASSUME NEW b \in u.books
             PROVE  /\ \A k \in Line : b[2][k] = res'[k] \/ Older(b[2][k], res'[k])
                    /\ b[2] = res' => Covered(u, b[1])'
    BY DEF BooksSound
<1>3. b[2] \in [Line -> Reservation] BY <1>1
<1>4. \A k \in Line : b[2][k] = res[k] \/ Older(b[2][k], res[k])
    BY DEF BooksSound
<1>5. ASSUME NEW k \in Line
      PROVE  b[2][k] = res'[k] \/ Older(b[2][k], res'[k])
    <2>1. b[2][k] \in Reservation /\ res[k] \in Reservation /\ res'[k] \in Reservation
        BY <1>1, <1>3
    <2> QED BY <2>1, <1>2, <1>4, OlderOrder
<1>6. ASSUME b[2] = res'
      PROVE  Covered(u, b[1])'
    <2>1. ASSUME NEW k \in Line
          PROVE  res'[k] = res[k]
        <3>1. b[2][k] \in Reservation /\ res[k] \in Reservation /\ res'[k] \in Reservation
            BY <1>1, <1>3
        <3>2. ~ (Older(b[2][k], res[k]) /\ Older(res[k], b[2][k])) BY <3>1, OlderOrder
        <3>3. ~ Older(b[2][k], b[2][k]) BY <3>1, OlderOrder
        <3> QED BY <3>2, <3>3, <1>2, <1>4, <1>6
    <2>2. res' = res BY <2>1, <1>1
    <2>3. Reserved' = Reserved BY <2>2 DEF Reserved
    <2>4. Covered(u, b[1]) BY <1>6, <2>2 DEF BooksSound
    <2> QED BY <2>3, <2>4 DEF Covered
<1> QED BY <1>5, <1>6

\* A transaction of another session sees its locks respected.
LEMMA OthersKept ==
    ASSUME Tables, Tables', NEW x, Changed(x), NEW u \in TxRow, Local(u), Global(u),
           \A t \in tx[x] : Apart(t, u)
    PROVE  Global(u)'
<1>1. /\ u.l \in Line /\ u.give \in [Line -> Nat] /\ u.saw \in LineRow /\ u.id \in Nat
      /\ u.had \in Nat /\ u.req \in RequestRow /\ u.qty \in Nat /\ u.on \in Nat
    BY DEF TxRow
<1>2. /\ line \in [Line -> LineRow] /\ line' \in [Line -> LineRow]
      /\ res \in [Line -> Reservation] /\ res' \in [Line -> Reservation]
      /\ moved \in [Line -> Nat] /\ moved' \in [Line -> Nat]
      /\ stock \in Nat /\ arrived \in Nat /\ arrived' \in Nat
      /\ pr \in RequestRow /\ pr' \in RequestRow
    BY DEF Tables
<1>3. StockHeld(u) => stock' = stock
    BY DEF Apart, Changed
<1>4. StockHeld(u) => u.on = stock' /\ (u.op = "issue" => u.qty <= stock')
    BY <1>3 DEF Global
<1>5. u.saw.issued <= moved'[u.l] /\ u.had <= arrived'
    <2>1. /\ u.saw.issued \in Nat /\ u.saw.issued <= moved[u.l] /\ moved[u.l] <= moved'[u.l]
          /\ moved[u.l] \in Nat /\ moved'[u.l] \in Nat
        BY <1>1, <1>2 DEF Global, Changed, LineRow
    <2>2. u.had <= arrived /\ arrived <= arrived' BY DEF Global, Changed
    <2> QED BY <2>1, <2>2, <1>1, <1>2
<1>6. ASSUME NEW k \in Line, u.give[k] > 0
      PROVE  res'[k].qty = 0
    <2>1. ResHeld(u, k) BY <1>6 DEF ResHeld
    <2>2. res'[k].qty <= res[k].qty BY <2>1 DEF Apart, Changed
    <2>3. res[k].qty = 0 BY <1>6 DEF Global
    <2>4. res'[k].qty \in Nat BY <1>2 DEF Reservation
    <2> QED BY <2>2, <2>3, <2>4
<1>7. <<"line", u.l>> \in raced' \/ u.saw = line'[u.l] \/ Earlier(u.saw, line'[u.l])
    <2>1. line[u.l] \in LineRow /\ line'[u.l] \in LineRow BY <1>1, <1>2
    <2>2. <<"line", u.l>> \in raced \/ u.saw = line[u.l] \/ Earlier(u.saw, line[u.l])
        BY DEF Global
    <2>3. <<"line", u.l>> \in raced' \/ line'[u.l] = line[u.l] \/ Earlier(line[u.l], line'[u.l])
        BY <1>1 DEF Changed
    <2>4. raced \subseteq raced' BY DEF Changed
    <2> QED BY <2>1, <2>2, <2>3, <2>4, <1>1, EarlierOrder
<1>8. FoundIt(u)'
    <2> SUFFICES ASSUME u.op = "cancel", u.step # "read", u.saw = line'[u.l],
                        <<"line", u.l>> \notin raced'
                 PROVE  IF u.id = 0 THEN res'[u.l].qty = 0 ELSE res'[u.l].id = u.id
        BY DEF FoundIt
    <2>1. line[u.l] \in LineRow /\ line'[u.l] \in LineRow BY <1>1, <1>2
    <2>2. <<"line", u.l>> \notin raced BY DEF Changed
    <2>3. u.saw = line[u.l] \/ Earlier(u.saw, line[u.l]) BY <2>2 DEF Global
    <2>4. \/ line'[u.l] = line[u.l] /\ res'[u.l] = res[u.l]
          \/ Earlier(line[u.l], line'[u.l])
        BY <1>1 DEF Changed
    <2>5. ~ Earlier(u.saw, u.saw) BY <1>1, EarlierOrder
    <2>6. ~ (Earlier(u.saw, line[u.l]) /\ Earlier(line[u.l], u.saw))
        BY <1>1, <2>1, EarlierOrder
    <2>7. line'[u.l] = line[u.l] /\ res'[u.l] = res[u.l]
        BY <2>3, <2>4, <2>5, <2>6
    <2>8. IF u.id = 0 THEN res[u.l].qty = 0 ELSE res[u.l].id = u.id
        BY <2>2, <2>7 DEF Global, FoundIt
    <2> QED BY <2>7, <2>8
<1>9. BooksSound(u)' BY BooksKept DEF Global
<1>10. /\ u.op = "order" /\ u.step = "read" => u.req.status = "pending"
       /\ u.op \in OrderPage /\ u.step = "saved" => u.req.ordered \in 1..pr'.ordered
    <2>1. pr.ordered \in Nat /\ pr'.ordered \in Nat /\ pr.ordered <= pr'.ordered
        BY <1>2 DEF Changed, RequestRow
    <2>2. /\ u.op = "order" /\ u.step = "read" => u.req.status = "pending"
          /\ u.op \in OrderPage /\ u.step = "saved" => u.req.ordered \in 1..pr.ordered
        BY DEF Global
    <2> QED BY <2>1, <2>2
<1> QED BY <1>4, <1>5, <1>6, <1>7, <1>8, <1>9, <1>10 DEF Global

\* No session disturbs another.
LEMMA SessionsKept ==
    ASSUME Tables, Tables', Sessions, NEW x \in Conn, Changed(x), Serves(x)
    PROVE  Sessions'
<1>1. ASSUME NEW y \in Conn, y # x, NEW u \in tx[y]
      PROVE  Local(u) /\ Global(u)'
    <2>1. u \in TxRow BY DEF Tables
    <2>2. Local(u) /\ Global(u) BY DEF Sessions
    <2>3. \A t \in tx[x] : Apart(t, u) BY <1>1 DEF Sessions
    <2> QED BY <2>1, <2>2, <2>3, OthersKept
<1>2. \A y \in Conn \ {x} : tx'[y] = tx[y] BY DEF Serves
<1>3. \A y \in Conn : \A t, u \in tx'[y] : t = u
    BY <1>2 DEF Serves, Sessions
<1>4. \A y \in Conn : \A t \in tx'[y] : Local(t) /\ Global(t)'
    BY <1>1, <1>2 DEF Serves
<1>5. ASSUME NEW y \in Conn, NEW z \in Conn, y # z, NEW t \in tx'[y], NEW u \in tx'[z]
      PROVE  Apart(t, u)
    <2>1. CASE y # x /\ z # x BY <1>2, <1>5, <2>1 DEF Sessions
    <2>2. CASE y = x BY <1>2, <1>5, <2>2 DEF Serves
    <2>3. CASE z = x
        <3>1. Apart(u, t) BY <1>2, <1>5, <2>3 DEF Serves
        <3> QED BY <3>1 DEF Apart
    <2> QED BY <2>1, <2>2, <2>3
<1> QED BY <1>3, <1>4, <1>5 DEF Sessions

-------------------------------------------------------------------------------
(***************************************************************************)
(* A step that commits nothing.                                            *)
(***************************************************************************)
\* The locks v holds are those of t and some that nobody else holds.
Gains(x, t, v) ==
    /\ \A k \in Line : LineHeld(v, k) => LineHeld(t, k) \/ Unlocked(x, <<"line", k>>)
    /\ \A k \in Line : ResHeld(v, k) => ResHeld(t, k) \/ Unlocked(x, <<"res", k>>)
    /\ StockHeld(v) => StockHeld(t) \/ Unlocked(x, Stock)
    /\ ItemHeld(v) => ItemHeld(t) \/ Unlocked(x, Item)

\* Session x's transaction t becomes v, and no row changes.
Becomes(x, t, v) ==
    /\ t \in tx[x]
    /\ tx' = [tx EXCEPT ![x] = {v}]
    /\ UNCHANGED <<rowvars, begun>>

\* An unlocked row is not held by another session.
LEMMA StayApart ==
    ASSUME Sessions, NEW x \in Conn, NEW t \in tx[x], NEW v, Gains(x, t, v),
           NEW y \in Conn \ {x}, NEW u \in tx[y]
    PROVE  Apart(v, u)
<1>1. Apart(t, u) /\ Locking(u) BY DEF Sessions, Local
<1>2. \A r : Unlocked(x, r) => r \notin u.locks BY DEF Unlocked
<1> QED BY <1>1, <1>2 DEF Gains, Apart, Locking

\* Nothing committed, everything kept.
LEMMA StepKeeps ==
    ASSUME ContentionIInv, NEW x \in Conn, NEW t, NEW v \in TxRow, Becomes(x, t, v),
           t.op \notin OrderPage, Local(v), Global(v), Gains(x, t, v)
    PROVE  ContentionIInv'
<1>1. /\ stock' = stock /\ line' = line /\ res' = res /\ item' = item /\ pr' = pr
      /\ moved' = moved /\ arrived' = arrived /\ raced' = raced /\ begun' = begun
      /\ tx' = [tx EXCEPT ![x] = {v}] /\ t \in tx[x]
    BY DEF Becomes, rowvars
<1>2. Tables /\ Sessions /\ Ordering BY DEF ContentionIInv
<1>3. tx \in [Conn -> SUBSET TxRow] BY <1>2 DEF Tables
<1>4. tx'[x] = {v} /\ \A y \in Conn \ {x} : tx'[y] = tx[y] BY <1>1, <1>3
<1>5. Tables' 
    <2>1. tx' \in [Conn -> SUBSET TxRow] BY <1>1, <1>3
    <2> QED BY <1>1, <1>2, <2>1 DEF Tables
<1>6. Reserved' = Reserved BY <1>1 DEF Reserved
<1>7. Global(v)'
    BY <1>1, <1>6 DEF Global, FoundIt, BooksSound, Covered
<1>8. Changed(x)
    <2>1. \A k \in Line : moved[k] \in Nat /\ res[k].qty \in Nat
        BY <1>2 DEF Tables, Reservation
    <2>2. arrived \in Nat /\ pr.ordered \in Nat BY <1>2 DEF Tables, RequestRow
    <2> QED BY <1>1, <2>1, <2>2 DEF Changed
<1>9. Serves(x)
    <2>1. \A y \in Conn \ {x} : \A u \in tx[y] : Apart(v, u) BY <1>1, <1>2, StayApart
    <2> QED BY <1>4, <1>7, <2>1 DEF Serves
<1>10. Sessions' BY <1>2, <1>5, <1>8, <1>9, SessionsKept
<1>11. Ordering'
    <2>1. ASSUME NEW y \in Conn, NEW u \in tx[y], u.op \in OrderPage
          PROVE  u \in tx'[y]
        <3>1. y # x BY <1>1, <1>2, <2>1 DEF Sessions
        <3> QED BY <3>1, <1>4, <2>1
    <2> QED BY <1>1, <1>2, <2>1 DEF Ordering
<1>12. RowsSound' BY <1>1 DEF ContentionIInv, RowsSound
<1>13. StockIsExact' BY <1>1 DEF ContentionIInv, StockIsExact
<1>14. CountsFollowMovements' BY <1>1 DEF ContentionIInv, CountsFollowMovements
<1>15. ReservationsHeld' BY <1>1 DEF ContentionIInv, ReservationsHeld
<1> QED BY <1>5, <1>10, <1>11, <1>12, <1>13, <1>14, <1>15 DEF ContentionIInv

-------------------------------------------------------------------------------
(***************************************************************************)
(* What is read off a transaction.                                         *)
(***************************************************************************)
\* The parts of a request that its steps leave alone.
SameRequest(t, v) ==
    /\ v.op = t.op /\ v.l = t.l /\ v.asked = t.asked /\ v.saw = t.saw /\ v.had = t.had
    /\ v.req = t.req

\* The parts that only an allocation changes.
SameGiving(t, v) ==
    v.todo = t.todo /\ v.grant = t.grant /\ v.give = t.give /\ v.books = t.books /\ v.rows = t.rows

\* The fields of a transaction have their types.
LEMMA TxFields ==
    ASSUME NEW t \in TxRow
    PROVE  /\ t.op \in Op /\ t.l \in Line /\ t.asked \in Nat /\ t.qty \in Nat /\ t.step \in Steps
           /\ t.saw \in LineRow /\ t.had \in Nat /\ t.req \in RequestRow /\ t.on \in Nat
           /\ t.id \in Nat /\ t.rows \in [Line -> LineRow] /\ t.todo \in Seq(Line)
           /\ t.grant \in Nat /\ t.give \in [Line -> Nat]
           /\ t.books \subseteq Nat \X [Line -> Reservation] /\ t.locks \subseteq Resource
BY DEF TxRow

\* Locks on different rows are different.
LEMMA LocksDiffer ==
    /\ \A k, m : <<"line", k>> = <<"line", m>> <=> k = m
    /\ \A k, m : <<"res", k>> = <<"res", m>> <=> k = m
    /\ \A k, m : <<"line", k>> # <<"res", m>>
    /\ \A k : <<"line", k>> # Stock /\ <<"line", k>> # Item
    /\ \A k : <<"res", k>> # Stock /\ <<"res", k>> # Item
    /\ Stock # Item /\ Stock # Order /\ Item # Order
    /\ Stock \in Resource /\ Item \in Resource /\ Order \in Resource
    /\ \A k \in Line : <<"line", k>> \in Resource /\ <<"res", k>> \in Resource
BY DEF Stock, Item, Order, Resource

\* Nor is a row that is locked at the end of a request one of these.
LEMMA EndLocksDiffer ==
    /\ \A k, m : <<"wo", k>> = <<"wo", m>> <=> k = m
    /\ \A k, m : <<"card", k>> = <<"card", m>> <=> k = m
    /\ \A k, m : /\ <<"wo", k>> # <<"card", m>>
                /\ <<"line", k>> # <<"wo", m>> /\ <<"line", k>> # <<"card", m>>
                /\ <<"res", k>> # <<"wo", m>> /\ <<"res", k>> # <<"card", m>>
    /\ \A k : <<"line", k>> # Order /\ <<"res", k>> # Order
    /\ \A k : <<"wo", k>> \notin {Stock, Order, Item} /\ <<"card", k>> \notin {Stock, Order, Item}
    /\ \A k \in Line : <<"wo", k>> \in Resource /\ <<"card", k>> \in Resource
BY DEF Stock, Item, Order, Resource

\* An allocation that gave nothing was granted nothing.
LEMMA NothingGranted ==
    ASSUME NEW t \in TxRow, t.grant = 0, \A k \in Line : t.give[k] = 0
    PROVE  Granted(t) = 0
<1>1. t.give \in [Line -> Nat] BY TxFields
<1>2. Total(t.give) = 0 BY <1>1, TotalNone
<1> QED BY <1>2 DEF Granted

\* The next line of an allocation, and the ones behind it.
LEMMA NextLine ==
    ASSUME NEW q \in Seq(Line), q # <<>>
    PROVE  /\ Head(q) \in Line /\ Head(q) = q[1] /\ 1 \in DOMAIN q
           /\ Tail(q) \in Seq(Line)
           /\ \A i \in DOMAIN Tail(q) : i + 1 \in DOMAIN q /\ Tail(q)[i] = q[i + 1] /\ i \in Nat \ {0}
<1>1. Len(q) \in Nat /\ Len(q) > 0 /\ DOMAIN q = 1..Len(q) BY EmptySeq
<1>2. Len(Tail(q)) = Len(q) - 1 /\ Tail(q) \in Seq(Line) BY <1>1
<1>3. \A i \in 1..Len(Tail(q)) : Tail(q)[i] = q[i + 1] BY <1>1, <1>2
<1>4. DOMAIN Tail(q) = 1..Len(Tail(q)) BY <1>2
<1>5. Head(q) = q[1] /\ q[1] \in Line BY <1>1
<1> QED BY <1>1, <1>2, <1>3, <1>4, <1>5

\* The rest of the queue holds no line twice, and not the head.
LEMMA RestOfQueue ==
    ASSUME NEW q \in Seq(Line), q # <<>>,
           \A i, j \in DOMAIN q : q[i] = q[j] => i = j
    PROVE  /\ \A i, j \in DOMAIN Tail(q) : Tail(q)[i] = Tail(q)[j] => i = j
           /\ \A i \in DOMAIN Tail(q) : Tail(q)[i] # Head(q) /\ Tail(q)[i] \in Line
           /\ \A i \in DOMAIN Tail(q) : \E j \in DOMAIN q : Tail(q)[i] = q[j]
<1>1. ASSUME NEW i \in DOMAIN Tail(q), NEW j \in DOMAIN Tail(q), Tail(q)[i] = Tail(q)[j]
      PROVE  i = j
    <2>1. q[i + 1] = q[j + 1] /\ i + 1 \in DOMAIN q /\ j + 1 \in DOMAIN q BY <1>1, NextLine
    <2>2. i + 1 = j + 1 BY <2>1
    <2>3. i \in Nat /\ j \in Nat BY <1>1, NextLine
    <2> QED BY <2>2, <2>3
<1>2. ASSUME NEW i \in DOMAIN Tail(q)
      PROVE  Tail(q)[i] # Head(q) /\ Tail(q)[i] \in Line /\ \E j \in DOMAIN q : Tail(q)[i] = q[j]
    <2>1. i + 1 \in DOMAIN q /\ Tail(q)[i] = q[i + 1] /\ i \in Nat \ {0} BY NextLine
    <2>2. Head(q) = q[1] /\ 1 \in DOMAIN q BY NextLine
    <2>3. i + 1 # 1 BY <2>1
    <2>4. q[i + 1] \in Line BY <2>1
    <2> QED BY <2>1, <2>2, <2>3, <2>4
<1> QED BY <1>1, <1>2

-------------------------------------------------------------------------------
(***************************************************************************)
(* Steps of warehouse issues, cancellations and receipts.                  *)
(***************************************************************************)
\* What the invariant says of a transaction under way.
LEMMA UnderWay ==
    ASSUME ContentionIInv, NEW x \in Conn, NEW t \in tx[x]
    PROVE  t \in TxRow /\ Local(t) /\ Global(t)
BY DEF ContentionIInv, Tables, Sessions

\* A transaction that allocates nothing yet keeps its allocation fields.
LEMMA IdleGiving ==
    ASSUME NEW t \in TxRow, NEW v \in TxRow, Local(t), SameRequest(t, v), SameGiving(t, v),
           ~ Allocates(t), ~ Allocates(v)
    PROVE  /\ Giving(v) /\ t.books = {} /\ v.books = {}
           /\ \A k \in Line : t.give[k] = 0 /\ v.give[k] = 0
BY DEF Local, Giving, SameRequest, SameGiving, Allocates, Allocating

\* So its books say nothing.
LEMMA IdleGlobal ==
    ASSUME NEW t \in TxRow, NEW v \in TxRow, Global(t), SameRequest(t, v), v.books = {},
           t.op \notin OrderPage, \A k \in Line : v.give[k] = 0, FoundIt(v),
           StockHeld(v) => v.on = stock /\ (v.op = "issue" => v.qty <= stock)
    PROVE  Global(v)
BY DEF Global, SameRequest, BooksSound, OrderPage

\* execute_warehouse_issue takes the lock on the Inventory row.
LEMMA LockStockSound ==
    ASSUME ContentionIInv, NEW x \in Conn, NEW t \in tx[x], LockStock(x, t)
    PROVE  ContentionIInv'
<1>1. t \in TxRow /\ Local(t) /\ Global(t) BY UnderWay
<1>2. t.op = "issue" /\ t.step = "read" /\ t.qty <= stock /\ stock \in Nat
    <2>1. t.qty \in Nat /\ stock \in Nat BY <1>1, TxFields DEF ContentionIInv, Tables
    <2> QED BY <2>1 DEF LockStock, InStock
<1>3. Needs(t) = {Stock} BY <1>2 DEF Needs, StockLock
<1>4. PICK v : v = [[t EXCEPT !.step = "release", !.on = stock] EXCEPT !.locks = @ \cup Needs(t)]
    OBVIOUS
<1>5. Becomes(x, t, v) /\ Unlocked(x, Stock) BY <1>3, <1>4 DEF LockStock, Ready, Step, Becomes
<1>6. /\ v \in TxRow /\ SameRequest(t, v) /\ SameGiving(t, v) /\ v.qty = t.qty
      /\ v.step = "release" /\ v.on = stock /\ v.locks = t.locks \cup {Stock}
    BY <1>1, <1>2, <1>3, <1>4, LocksDiffer DEF TxRow, Steps, SameRequest, SameGiving
<1>7. /\ Giving(v) /\ v.books = {} /\ \A k \in Line : t.give[k] = 0 /\ v.give[k] = 0
    BY <1>1, <1>2, <1>6, IdleGiving DEF Allocates, Allocating, SameRequest
<1>8. Protocol(v) BY <1>1, <1>2, <1>6 DEF Local, Protocol, SameRequest, OrderPage, Elsewhere
<1>9. Locking(v)
    BY <1>1, <1>2, <1>6, <1>7, LocksDiffer
    DEF Local, Locking, LineHeld, ResHeld, StockHeld, ItemHeld, SameRequest
<1>10. Global(v)
    <2>1. FoundIt(v) BY <1>2, <1>6 DEF FoundIt, SameRequest
    <2> QED BY <2>1, <1>1, <1>2, <1>6, <1>7, IdleGlobal DEF OrderPage
<1>11. Gains(x, t, v)
    BY <1>2, <1>5, <1>6, <1>7 DEF Gains, LineHeld, ResHeld, StockHeld, ItemHeld, SameRequest
<1> QED BY <1>2, <1>5, <1>6, <1>7, <1>8, <1>9, <1>10, <1>11, StepKeeps DEF Local, OrderPage

\* cancel_approved_part_request finds the reservation.
LEMMA FindReservationSound ==
    ASSUME ContentionIInv, NEW x \in Conn, NEW t \in tx[x], FindReservation(x, t)
    PROVE  ContentionIInv'
<1>1. t \in TxRow /\ Local(t) /\ Global(t) BY UnderWay
<1>2. t.op = "cancel" /\ t.step = "read" /\ t.l \in Line BY <1>1, TxFields DEF FindReservation
<1>3. Needs(t) = {} BY <1>2 DEF Needs
<1>4. PICK v : v = [[t EXCEPT !.step = "release",
                              !.id = IF res[t.l].qty > 0 THEN res[t.l].id ELSE 0]
                    EXCEPT !.locks = @ \cup Needs(t)]
    OBVIOUS
<1>5. Becomes(x, t, v) BY <1>4 DEF FindReservation, Step, Becomes
<1>6. res[t.l] \in Reservation /\ (res[t.l].qty > 0 => res[t.l].id > 0)
    BY <1>2 DEF ContentionIInv, Tables, RowsSound
<1>7. /\ v \in TxRow /\ SameRequest(t, v) /\ SameGiving(t, v) /\ v.step = "release"
      /\ v.id = (IF res[t.l].qty > 0 THEN res[t.l].id ELSE 0) /\ v.locks = t.locks
    BY <1>1, <1>3, <1>4, <1>6 DEF TxRow, Steps, SameRequest, SameGiving, Reservation
<1>8. /\ Giving(v) /\ v.books = {} /\ \A k \in Line : t.give[k] = 0 /\ v.give[k] = 0
    BY <1>1, <1>2, <1>7, IdleGiving DEF Allocates, Allocating, SameRequest
<1>9. Protocol(v) BY <1>1, <1>2, <1>7 DEF Local, Protocol, SameRequest, OrderPage, Elsewhere
<1>10. Locking(v)
    BY <1>1, <1>2, <1>7, <1>8
    DEF Local, Locking, LineHeld, ResHeld, StockHeld, ItemHeld, SameRequest
<1>11. Global(v)
    <2>1. FoundIt(v) BY <1>2, <1>6, <1>7 DEF FoundIt, SameRequest, Reservation
    <2>2. ~ StockHeld(v) BY <1>2, <1>7 DEF StockHeld, SameRequest
    <2> QED BY <2>1, <2>2, <1>1, <1>2, <1>7, <1>8, IdleGlobal DEF OrderPage
<1>12. Gains(x, t, v)
    BY <1>2, <1>7, <1>8 DEF Gains, LineHeld, ResHeld, StockHeld, ItemHeld, SameRequest
<1> QED BY <1>2, <1>5, <1>7, <1>8, <1>9, <1>10, <1>11, <1>12, StepKeeps DEF Local, OrderPage

\* The reservation is locked, by an issue if it is ACTIVE, by a cancellation if
\* it was found.
LEMMA ReleaseSound ==
    ASSUME ContentionIInv, NEW x \in Conn, NEW t \in tx[x], Release(x, t)
    PROVE  ContentionIInv'
<1>1. t \in TxRow /\ Local(t) /\ Global(t) BY UnderWay
<1>2. t.op \in {"issue", "cancel"} /\ t.step = "release" /\ t.l \in Line
    <2>1. t.op \in Op /\ t.step = "release" BY <1>1, TxFields DEF Release
    <2> QED BY <1>1, <2>1, TxFields DEF Local, Protocol, Op, OrderPage, Elsewhere, Allocating
<1>3. res[t.l] \in Reservation /\ (res[t.l].qty > 0 => res[t.l].id > 0)
    BY <1>2 DEF ContentionIInv, Tables, RowsSound
<1> DEFINE n == IF t.op = "cancel" THEN t.id ELSE IF res[t.l].qty > 0 THEN res[t.l].id ELSE 0
<1>4. Needs(t) = IF n # 0 THEN {<<"res", t.l>>} ELSE {}
    BY <1>2, <1>3 DEF Needs, Reservation
<1>5. PICK v : v = [[t EXCEPT !.step = "write",
                              !.id = IF t.op = "cancel" THEN @
                                     ELSE IF res[t.l].qty > 0 THEN res[t.l].id ELSE 0]
                    EXCEPT !.locks = @ \cup Needs(t)]
    OBVIOUS
<1>6. Becomes(x, t, v) /\ \A r \in Needs(t) : Unlocked(x, r)
    BY <1>5 DEF Release, Ready, Step, Becomes
<1>7. n \in Nat BY <1>1, <1>3, TxFields DEF Reservation
<1>8. /\ v \in TxRow /\ SameRequest(t, v) /\ SameGiving(t, v) /\ v.step = "write"
      /\ v.id = n /\ v.locks = t.locks \cup Needs(t) /\ v.on = t.on /\ v.qty = t.qty
    <2>1. Needs(t) \subseteq Resource
        <3>1. <<"res", t.l>> \in Resource BY <1>2, LocksDiffer
        <3> HIDE DEF n
        <3> QED BY <3>1, <1>4
    <2> QED BY <1>1, <1>5, <1>7, <2>1 DEF TxRow, Steps, SameRequest, SameGiving
<1>9. /\ Giving(v) /\ v.books = {} /\ \A k \in Line : t.give[k] = 0 /\ v.give[k] = 0
    BY <1>1, <1>2, <1>8, IdleGiving DEF Allocates, Allocating, SameRequest
<1>10. Protocol(v) BY <1>1, <1>2, <1>8 DEF Local, Protocol, SameRequest, OrderPage, Elsewhere
<1>11. Locking(v)
    <2>1. /\ \A k : <<"line", k>> \notin Needs(t)
          /\ \A k : <<"res", k>> \in Needs(t) <=> n # 0 /\ k = t.l
          /\ Stock \notin Needs(t) /\ Item \notin Needs(t)
        BY <1>4, LocksDiffer
    <2> HIDE DEF n
    <2> QED BY <1>1, <1>2, <1>8, <1>9, <2>1
            DEF Local, Locking, LineHeld, ResHeld, StockHeld, ItemHeld, SameRequest
<1>12. Global(v)
    <2>1. FoundIt(v) BY <1>1, <1>2, <1>8 DEF Global, FoundIt, SameRequest
    <2>2. StockHeld(v) => v.on = stock /\ (v.op = "issue" => v.qty <= stock)
        BY <1>1, <1>2, <1>8 DEF Global, StockHeld, SameRequest, Allocating
    <2> QED BY <2>1, <2>2, <1>1, <1>2, <1>8, <1>9, IdleGlobal DEF OrderPage
<1>13. Gains(x, t, v)
    <2>1. n # 0 => Unlocked(x, <<"res", t.l>>) BY <1>4, <1>6
    <2> HIDE DEF n
    <2> QED BY <1>2, <1>8, <1>9, <2>1
            DEF Gains, LineHeld, ResHeld, StockHeld, ItemHeld, SameRequest
<1> QED BY <1>2, <1>6, <1>8, <1>9, <1>10, <1>11, <1>12, <1>13, StepKeeps DEF Local, OrderPage

\* The line is written, and its row locked.
LEMMA WriteLineSound ==
    ASSUME ContentionIInv, NEW x \in Conn, NEW t \in tx[x], WriteLine(x, t)
    PROVE  ContentionIInv'
<1>1. t \in TxRow /\ Local(t) /\ Global(t) BY UnderWay
<1>2. t.op \in {"issue", "cancel"} /\ t.step = "write" /\ t.l \in Line
    <2>1. t.op \in Op /\ t.step = "write" BY <1>1, TxFields DEF WriteLine
    <2> QED BY <1>1, <2>1, TxFields DEF Local, Protocol, Op, OrderPage, Elsewhere, Allocating
<1>3. Needs(t) = {<<"line", t.l>>} BY <1>2 DEF Needs
<1>4. PICK v : v = [[t EXCEPT !.step = "status"] EXCEPT !.locks = @ \cup Needs(t)]
    OBVIOUS
<1>5. Becomes(x, t, v) /\ Unlocked(x, <<"line", t.l>>) BY <1>3, <1>4 DEF WriteLine, Ready, Step, Becomes
<1>6. /\ v \in TxRow /\ SameRequest(t, v) /\ SameGiving(t, v) /\ v.step = "status"
      /\ v.id = t.id /\ v.locks = t.locks \cup {<<"line", t.l>>} /\ v.on = t.on /\ v.qty = t.qty
    <2>1. <<"line", t.l>> \in Resource BY <1>2, LocksDiffer
    <2> QED BY <1>1, <1>3, <1>4, <2>1 DEF TxRow, Steps, SameRequest, SameGiving
<1>7. /\ Giving(v) /\ v.books = {} /\ \A k \in Line : t.give[k] = 0 /\ v.give[k] = 0
    BY <1>1, <1>2, <1>6, IdleGiving DEF Allocates, Allocating, SameRequest
<1>8. Protocol(v) BY <1>1, <1>2, <1>6 DEF Local, Protocol, SameRequest, OrderPage, Elsewhere
<1>9. Locking(v)
    BY <1>1, <1>2, <1>6, <1>7, LocksDiffer
    DEF Local, Locking, LineHeld, ResHeld, StockHeld, ItemHeld, SameRequest
<1>10. Global(v)
    <2>1. FoundIt(v) BY <1>1, <1>2, <1>6 DEF Global, FoundIt, SameRequest
    <2>2. StockHeld(v) => v.on = stock /\ (v.op = "issue" => v.qty <= stock)
        BY <1>1, <1>2, <1>6 DEF Global, StockHeld, SameRequest, Allocating
    <2> QED BY <2>1, <2>2, <1>1, <1>2, <1>6, <1>7, IdleGlobal DEF OrderPage
<1>11. Gains(x, t, v)
    BY <1>2, <1>5, <1>6, <1>7 DEF Gains, LineHeld, ResHeld, StockHeld, ItemHeld, SameRequest
<1> QED BY <1>2, <1>5, <1>6, <1>7, <1>8, <1>9, <1>10, <1>11, StepKeeps DEF Local, OrderPage

\* purchase_order_receive saves the order, for the invoice reference.
LEMMA SaveInvoiceSound ==
    ASSUME ContentionIInv, NEW x \in Conn, NEW t \in tx[x], SaveInvoice(x, t)
    PROVE  ContentionIInv'
<1>1. t \in TxRow /\ Local(t) /\ Global(t) BY UnderWay
<1>2. t.op = "receive" /\ t.step = "invoice"
    <2>1. t.op \in Op /\ t.step = "invoice" BY <1>1, TxFields DEF SaveInvoice
    <2> QED BY <1>1, <2>1 DEF Local, Protocol, Op, OrderPage, Elsewhere, Allocating
<1>3. Needs(t) = {Order} BY <1>2 DEF Needs
<1>4. PICK v : v = [[t EXCEPT !.step = "read"] EXCEPT !.locks = @ \cup Needs(t)] OBVIOUS
<1>5. Becomes(x, t, v) BY <1>4 DEF SaveInvoice, Step, Becomes
<1>6. /\ v \in TxRow /\ SameRequest(t, v) /\ SameGiving(t, v) /\ v.step = "read"
      /\ v.locks = t.locks \cup {Order}
    BY <1>1, <1>3, <1>4, LocksDiffer DEF TxRow, Steps, SameRequest, SameGiving
<1>7. /\ Giving(v) /\ v.books = {} /\ \A k \in Line : t.give[k] = 0 /\ v.give[k] = 0
    BY <1>1, <1>2, <1>6, IdleGiving DEF Allocates, Allocating, SameRequest
<1>8. Protocol(v) BY <1>1, <1>2, <1>6 DEF Local, Protocol, SameRequest, OrderPage, Elsewhere
<1>9. Locking(v)
    BY <1>1, <1>2, <1>6, <1>7, LocksDiffer, EndLocksDiffer
    DEF Local, Locking, LineHeld, ResHeld, StockHeld, ItemHeld, SameRequest, Allocating
<1>10. Global(v)
    <2>1. FoundIt(v) BY <1>2, <1>6 DEF FoundIt, SameRequest
    <2>2. ~ StockHeld(v) BY <1>2, <1>6 DEF StockHeld, SameRequest, Allocating
    <2> QED BY <2>1, <2>2, <1>1, <1>2, <1>6, <1>7, IdleGlobal DEF OrderPage
<1>11. Gains(x, t, v)
    BY <1>2, <1>6, <1>7 DEF Gains, LineHeld, ResHeld, StockHeld, ItemHeld, SameRequest, Allocating
<1> QED BY <1>2, <1>5, <1>6, <1>7, <1>8, <1>9, <1>10, <1>11, StepKeeps DEF Local, OrderPage

\* request_part_on_wo writes the work order and looks for stock.
LEMMA LockJobSound ==
    ASSUME ContentionIInv, NEW x \in Conn, NEW t \in tx[x], LockJob(x, t)
    PROVE  ContentionIInv'
<1>1. t \in TxRow /\ Local(t) /\ Global(t) BY UnderWay
<1>2. t.op = "urgent" /\ t.step = "read" /\ t.l \in Line BY <1>1, TxFields DEF LockJob
<1>3. Needs(t) = {<<"wo", t.l>>} BY <1>2 DEF Needs, JobRow
<1>4. PICK v : v = [[t EXCEPT !.step = "saved"] EXCEPT !.locks = @ \cup Needs(t)] OBVIOUS
<1>5. Becomes(x, t, v) BY <1>4 DEF LockJob, Step, Becomes
<1>6. /\ v \in TxRow /\ SameRequest(t, v) /\ SameGiving(t, v) /\ v.step = "saved"
      /\ v.locks = t.locks \cup {<<"wo", t.l>>}
    <2>1. <<"wo", t.l>> \in Resource BY <1>1, TxFields, EndLocksDiffer
    <2> QED BY <1>1, <1>2, <1>3, <1>4, <2>1 DEF TxRow, Steps, SameRequest, SameGiving
<1>7. /\ Giving(v) /\ v.books = {} /\ \A k \in Line : t.give[k] = 0 /\ v.give[k] = 0
    BY <1>1, <1>2, <1>6, IdleGiving DEF Allocates, Allocating, SameRequest
<1>8. Protocol(v) BY <1>1, <1>2, <1>6 DEF Local, Protocol, SameRequest, OrderPage, Elsewhere
<1>9. Locking(v)
    BY <1>1, <1>2, <1>6, <1>7, EndLocksDiffer
    DEF Local, Locking, LineHeld, ResHeld, StockHeld, ItemHeld, SameRequest
<1>10. Global(v)
    <2>1. FoundIt(v) BY <1>2, <1>6 DEF FoundIt, SameRequest
    <2>2. ~ StockHeld(v) BY <1>2, <1>6 DEF StockHeld, SameRequest
    <2> QED BY <2>1, <2>2, <1>1, <1>2, <1>6, <1>7, IdleGlobal DEF OrderPage
<1>11. Gains(x, t, v)
    BY <1>2, <1>6, <1>7 DEF Gains, LineHeld, ResHeld, StockHeld, ItemHeld, SameRequest
<1> QED BY <1>2, <1>5, <1>6, <1>7, <1>8, <1>9, <1>10, <1>11, StepKeeps DEF Local, OrderPage

\* purchase_order_receive saves the item.
LEMMA SaveItemSound ==
    ASSUME ContentionIInv, NEW x \in Conn, NEW t \in tx[x], SaveItem(x, t)
    PROVE  ContentionIInv'
<1>1. t \in TxRow /\ Local(t) /\ Global(t) BY UnderWay
<1>2. t.op = "receive" /\ t.step = "read" BY DEF SaveItem
<1>3. Needs(t) = {Item} BY <1>2 DEF Needs
<1>4. PICK v : v = [[t EXCEPT !.step = "saved", !.qty = Arrives(t)] EXCEPT !.locks = @ \cup Needs(t)]
    OBVIOUS
<1>5. Becomes(x, t, v) /\ Unlocked(x, Item) BY <1>3, <1>4 DEF SaveItem, Ready, Step, Becomes
<1>6. Arrives(t) \in Nat BY <1>1, TxFields, ContentionAssumption DEF Arrives
<1>7. /\ v \in TxRow /\ SameRequest(t, v) /\ SameGiving(t, v) /\ v.step = "saved"
      /\ v.locks = t.locks \cup {Item}
    BY <1>1, <1>3, <1>4, <1>6, LocksDiffer DEF TxRow, Steps, SameRequest, SameGiving
<1>8. /\ Giving(v) /\ v.books = {} /\ \A k \in Line : t.give[k] = 0 /\ v.give[k] = 0
    BY <1>1, <1>2, <1>7, IdleGiving DEF Allocates, Allocating, SameRequest
<1>9. Protocol(v) BY <1>1, <1>2, <1>7 DEF Local, Protocol, SameRequest, OrderPage, Elsewhere
<1>10. Locking(v)
    BY <1>1, <1>2, <1>7, <1>8, LocksDiffer
    DEF Local, Locking, LineHeld, ResHeld, StockHeld, ItemHeld, SameRequest, Allocating
<1>11. Global(v)
    <2>1. FoundIt(v) BY <1>2, <1>7 DEF FoundIt, SameRequest
    <2>2. ~ StockHeld(v) BY <1>2, <1>7 DEF StockHeld, SameRequest, Allocating
    <2> QED BY <2>1, <2>2, <1>1, <1>2, <1>7, <1>8, IdleGlobal DEF OrderPage
<1>12. Gains(x, t, v)
    BY <1>2, <1>5, <1>7, <1>8
    DEF Gains, LineHeld, ResHeld, StockHeld, ItemHeld, SameRequest, Allocating
<1> QED BY <1>2, <1>5, <1>7, <1>8, <1>9, <1>10, <1>11, <1>12, StepKeeps DEF Local, OrderPage

-------------------------------------------------------------------------------
(***************************************************************************)
(* Allocation, step by step.                                               *)
(***************************************************************************)
\* An allocation that granted nothing new stands on its books as before.
LEMMA BooksStay ==
    ASSUME NEW t, NEW v, BooksSound(t), v.books = t.books, v.op = t.op,
           Granted(v) = 0 \/ (Granted(v) = Granted(t) /\ v.on = t.on /\ v.qty = t.qty)
    PROVE  BooksSound(v)
BY DEF BooksSound, Covered

\* stock_in takes the lock on the Inventory row, then the lines are queried.
LEMMA StockInSound ==
    ASSUME ContentionIInv, NEW x \in Conn, NEW t \in tx[x], StockIn(x, t)
    PROVE  ContentionIInv'
<1>1. t \in TxRow /\ Local(t) /\ Global(t) BY UnderWay
<1>2. t.op = "receive" /\ t.step = "saved" BY DEF StockIn
<1>3. Needs(t) = {Stock} BY <1>2 DEF Needs, StockLock
<1>4. PICK v : v = [[t EXCEPT !.step = "take", !.on = stock, !.todo = Queue, !.rows = line]
                    EXCEPT !.locks = @ \cup Needs(t)]
    OBVIOUS
<1>5. Becomes(x, t, v) /\ Unlocked(x, Stock) BY <1>3, <1>4 DEF StockIn, Ready, Step, Becomes
<1>6. stock \in Nat /\ line \in [Line -> LineRow] /\ \A k \in Line : line[k].approved <= Asked[k]
    BY DEF ContentionIInv, Tables, RowsSound
<1>7. Queue \in Seq(Line) /\ \A i, j \in DOMAIN Queue : Queue[i] = Queue[j] => i = j
    BY ContentionAssumption
<1>8. /\ SameRequest(t, v) /\ v.step = "take" /\ v.on = stock /\ v.todo = Queue /\ v.rows = line
      /\ v.grant = t.grant /\ v.give = t.give /\ v.books = t.books /\ v.locks = t.locks \cup {Stock}
    BY <1>1, <1>3, <1>4 DEF TxRow, SameRequest
<1>9. v \in TxRow
    BY <1>1, <1>3, <1>4, <1>6, <1>7, LocksDiffer DEF TxRow, Steps, Allocating
<1>10. /\ t.books = {} /\ v.books = {} /\ v.grant = 0 /\ \A k \in Line : t.give[k] = 0 /\ v.give[k] = 0
    BY <1>1, <1>2, <1>8 DEF Local, Giving, Allocates, Allocating
<1>11. Giving(v)
    <2>1. \A i \in DOMAIN v.todo : v.give[v.todo[i]] = 0
        <3>1. \A i \in DOMAIN Queue : Queue[i] \in Line BY <1>7
        <3> QED BY <3>1, <1>8, <1>10
    <2>2. \A k \in Line : Asked[k] \in Nat BY ContentionAssumption
    <2> QED BY <1>2, <1>6, <1>7, <1>8, <1>10, <2>1, <2>2 DEF Giving, SameRequest, Allocates, Allocating
<1>12. Protocol(v) BY <1>1, <1>2, <1>8 DEF Local, Protocol, SameRequest, OrderPage, Elsewhere, Allocating
<1>13. Locking(v)
    BY <1>1, <1>2, <1>8, <1>10, LocksDiffer
    DEF Local, Locking, LineHeld, ResHeld, StockHeld, ItemHeld, SameRequest, Allocating
<1>14. Global(v)
    <2>1. FoundIt(v) BY <1>2, <1>8 DEF FoundIt, SameRequest
    <2> QED BY <2>1, <1>1, <1>2, <1>8, <1>9, <1>10, IdleGlobal DEF SameRequest, OrderPage
<1>15. Gains(x, t, v)
    BY <1>2, <1>5, <1>8, <1>10
    DEF Gains, LineHeld, ResHeld, StockHeld, ItemHeld, SameRequest, Allocating
<1> QED BY <1>2, <1>5, <1>9, <1>11, <1>12, <1>13, <1>14, <1>15, StepKeeps DEF Local, OrderPage

\* approve_part_request locks the line.
LEMMA LockLineSound ==
    ASSUME ContentionIInv, NEW x \in Conn, NEW t \in tx[x], LockLine(x, t)
    PROVE  ContentionIInv'
<1>1. t \in TxRow /\ Local(t) /\ Global(t) BY UnderWay
<1>2. t.op = "approve" /\ t.step = "read" /\ t.l \in Line BY <1>1, TxFields DEF LockLine
<1>3. Needs(t) = {<<"line", t.l>>} BY <1>2 DEF Needs
<1> DEFINE row == [t.saw EXCEPT !.approved = Asked[t.l], !.status = "approved"]
           rows == [t.rows EXCEPT ![t.l] = row]
<1>4. PICK v : v = [[t EXCEPT !.step = "take", !.todo = <<t.l>>,
                              !.rows = [@ EXCEPT ![t.l] = [t.saw EXCEPT !.approved = Asked[t.l],
                                                                        !.status = "approved"]]]
                    EXCEPT !.locks = @ \cup Needs(t)]
    OBVIOUS
<1>5. Becomes(x, t, v) /\ Unlocked(x, <<"line", t.l>>) BY <1>3, <1>4 DEF LockLine, Ready, Step, Becomes
<1>6. Asked[t.l] \in Nat BY <1>2, ContentionAssumption
<1>7. t.rows \in [Line -> LineRow] /\ t.saw \in LineRow BY <1>1, TxFields
<1>8. row \in LineRow /\ row.approved = Asked[t.l] /\ row.status = "approved"
    BY <1>6, <1>7 DEF LineRow, LineStatus
<1>9. rows \in [Line -> LineRow] /\ rows[t.l] = row /\ \A k \in Line \ {t.l} : rows[k] = t.rows[k]
    BY <1>2, <1>7, <1>8
<1> HIDE DEF row
<1>10. v.rows = rows BY <1>1, <1>4 DEF TxRow, row
<1> HIDE DEF rows
<1>11. /\ SameRequest(t, v) /\ v.step = "take" /\ v.todo = <<t.l>>
       /\ v.grant = t.grant /\ v.give = t.give /\ v.books = t.books
       /\ v.locks = t.locks \cup {<<"line", t.l>>} /\ v.on = t.on /\ v.qty = t.qty /\ v.id = t.id
    BY <1>1, <1>3, <1>4 DEF TxRow, SameRequest
<1>12. v \in TxRow
    <2>1. <<t.l>> \in Seq(Line) BY <1>2
    <2>2. v.rows \in [Line -> LineRow] BY <1>9, <1>10
    <2>3. <<"line", t.l>> \in Resource BY <1>2, LocksDiffer
    <2>4. v = [t EXCEPT !.step = "take", !.todo = <<t.l>>, !.rows = rows,
                        !.locks = t.locks \cup {<<"line", t.l>>}]
        BY <1>1, <1>3, <1>4 DEF rows, row, TxRow
    <2> QED BY <1>1, <1>9, <2>1, <2>3, <2>4 DEF TxRow, Steps, Allocating
<1>13. /\ t.books = {} /\ v.books = {} /\ v.grant = 0 /\ \A k \in Line : t.give[k] = 0 /\ v.give[k] = 0
    BY <1>1, <1>2, <1>11 DEF Local, Giving, Allocates, Allocating
<1>14. Giving(v)
    <2>1. DOMAIN v.todo = {1} /\ v.todo[1] = t.l BY <1>11
    <2>2. \A k \in Line : Asked[k] \in Nat BY ContentionAssumption
    <2>3. \A k \in Line : v.rows[k].approved <= Asked[k]
        BY <1>1, <1>6, <1>8, <1>9, <1>10 DEF Local, Giving
    <2> QED BY <1>2, <1>11, <1>13, <2>1, <2>2, <2>3 DEF Giving, SameRequest, Allocates, Allocating
<1>15. Protocol(v) BY <1>1, <1>2, <1>11 DEF Local, Protocol, SameRequest, OrderPage, Elsewhere, Allocating
<1>16. Locking(v)
    BY <1>1, <1>2, <1>11, <1>13, LocksDiffer
    DEF Local, Locking, LineHeld, ResHeld, StockHeld, ItemHeld, SameRequest, Allocating
<1>17. Global(v)
    <2>1. FoundIt(v) BY <1>2, <1>11 DEF FoundIt, SameRequest
    <2>2. ~ StockHeld(v) BY <1>2, <1>11 DEF StockHeld, SameRequest
    <2> QED BY <2>1, <2>2, <1>1, <1>2, <1>11, <1>12, <1>13, IdleGlobal DEF OrderPage
<1>18. Gains(x, t, v)
    BY <1>2, <1>5, <1>11, <1>13
    DEF Gains, LineHeld, ResHeld, StockHeld, ItemHeld, SameRequest, Allocating
<1> QED BY <1>2, <1>5, <1>12, <1>14, <1>15, <1>16, <1>17, <1>18, StepKeeps DEF Local, OrderPage

\* The line is saved, and its row locked.
LEMMA UpdateSound ==
    ASSUME ContentionIInv, NEW x \in Conn, NEW t \in tx[x], Update(x, t)
    PROVE  ContentionIInv'
<1>1. t \in TxRow /\ Local(t) /\ Global(t) BY UnderWay
<1>2. t.op \in {"approve", "receive"} /\ t.step = "update"
    <2>1. t.op \in Op /\ t.step = "update" BY <1>1, TxFields DEF Update
    <2> QED BY <1>1, <2>1 DEF Local, Protocol, Op, OrderPage, Elsewhere, Allocating
<1>3. t.todo \in Seq(Line) /\ t.todo # <<>> /\ Head(t.todo) \in Line
    <2>1. t.todo \in Seq(Line) BY <1>1, TxFields
    <2>2. t.todo # <<>> BY <1>1, <1>2 DEF Local, Giving
    <2> QED BY <2>1, <2>2, NextLine
<1>4. Needs(t) = {<<"line", Head(t.todo)>>} BY <1>2 DEF Needs
<1>5. PICK v : v = [[t EXCEPT !.step = "insert"] EXCEPT !.locks = @ \cup Needs(t)]
    OBVIOUS
<1>6. Becomes(x, t, v) /\ Unlocked(x, <<"line", Head(t.todo)>>)
    BY <1>4, <1>5 DEF Update, Ready, Step, Becomes
<1>7. /\ SameRequest(t, v) /\ SameGiving(t, v) /\ v.step = "insert"
      /\ v.locks = t.locks \cup {<<"line", Head(t.todo)>>} /\ v.on = t.on /\ v.qty = t.qty /\ v.id = t.id
    BY <1>1, <1>4, <1>5 DEF TxRow, SameRequest, SameGiving
<1>8. v \in TxRow
    <2>1. <<"line", Head(t.todo)>> \in Resource BY <1>3, LocksDiffer
    <2> QED BY <1>1, <1>4, <1>5, <2>1 DEF TxRow, Steps, Allocating
<1>9. Giving(v)
    BY <1>1, <1>2, <1>7 DEF Local, Giving, SameRequest, SameGiving, Allocates, Allocating
<1>10. Protocol(v) BY <1>1, <1>2, <1>7 DEF Local, Protocol, SameRequest, OrderPage, Elsewhere, Allocating
<1>11. Locking(v)
    BY <1>1, <1>2, <1>7, LocksDiffer
    DEF Local, Locking, LineHeld, ResHeld, StockHeld, ItemHeld, SameRequest, SameGiving, Allocating
<1>12. Global(v)
    <2>1. FoundIt(v) BY <1>2, <1>7 DEF FoundIt, SameRequest
    <2>2. Granted(v) = Granted(t) BY <1>7 DEF Granted, SameGiving
    <2>3. BooksSound(v) BY <1>1, <1>7, <2>2, BooksStay DEF Global, SameRequest, SameGiving
    <2> QED BY <2>1, <2>3, <1>1, <1>2, <1>7
            DEF Global, StockHeld, SameRequest, SameGiving, Allocating
<1>13. Gains(x, t, v)
    BY <1>2, <1>6, <1>7
    DEF Gains, LineHeld, ResHeld, StockHeld, ItemHeld, SameRequest, SameGiving, Allocating
<1> QED BY <1>2, <1>6, <1>8, <1>9, <1>10, <1>11, <1>12, <1>13, StepKeeps DEF Local, OrderPage

\* What the reservations hold together.
LEMMA ReservedIsNat == Tables => Reserved \in Nat
<1> SUFFICES ASSUME Tables PROVE Reserved \in Nat OBVIOUS
<1> DEFINE col == [l \in Line |-> res[l].qty]
<1>1. col \in [Line -> Nat] BY DEF Tables, Reservation
<1>2. IsFiniteSet(Line) BY ContentionAssumption
<1> HIDE DEF col
<1>3. Total(col) \in Nat BY <1>1, <1>2, TotalType
<1> QED BY <1>3 DEF Reserved, col

\* And what an allocation gave.
LEMMA SumsAreNat ==
    ASSUME Tables, NEW t \in TxRow
    PROVE  Reserved \in Nat /\ Total(t.give) \in Nat
<1>1. IsFiniteSet(Line) BY ContentionAssumption
<1>2. t.give \in [Line -> Nat] BY TxFields
<1>3. Total(t.give) \in Nat BY <1>1, <1>2, TotalType
<1> QED BY <1>3, ReservedIsNat

\* A grant goes to an active line, within what was asked for and what is free.
LEMMA GrantFits ==
    ASSUME Tables, NEW t \in TxRow, Giving(t), NEW h \in Line
    PROVE  /\ Grant(t, h) \in Nat
           /\ Grant(t, h) > 0 => /\ t.rows[h].status \in Active
                                 /\ Grant(t, h) <= Asked[h]
                                 /\ Reserved + Total(t.give) + Grant(t, h) <= OwnStock(t)
<1>1. Reserved \in Nat /\ Total(t.give) \in Nat BY SumsAreNat
<1>2. OwnStock(t) \in Nat BY TxFields DEF OwnStock, Tables
<1>3. FreeStock(t) \in Nat /\ (FreeStock(t) > 0 => FreeStock(t) = OwnStock(t) - Reserved - Total(t.give))
    BY <1>1, <1>2 DEF FreeStock
<1>4. t.rows[h].approved \in Nat /\ t.rows[h].allocated \in Nat
    BY TxFields DEF LineRow
<1>5. t.rows[h].approved <= Asked[h] /\ Asked[h] \in Nat
    BY ContentionAssumption DEF Giving
<1> DEFINE gap == t.rows[h].approved - t.rows[h].allocated
<1>6. gap \in Int /\ gap <= Asked[h] BY <1>4, <1>5
<1>7. Grant(t, h) = IF t.rows[h].status \in Active /\ gap > 0
                    THEN (IF gap < FreeStock(t) THEN gap ELSE FreeStock(t)) ELSE 0
    BY DEF Grant, Active
<1> HIDE DEF gap
<1> QED BY <1>1, <1>2, <1>3, <1>5, <1>6, <1>7

\* The head of allocate_one: what is free is read, and the next line granted.
LEMMA TakeSound ==
    ASSUME ContentionIInv, NEW x \in Conn, NEW t \in tx[x], Take(x, t)
    PROVE  ContentionIInv'
<1>1. t \in TxRow /\ Local(t) /\ Global(t) /\ Tables BY UnderWay DEF ContentionIInv
<1>2. t.op \in {"approve", "receive"} /\ t.step = "take" /\ t.todo # <<>>
    <2>1. t.op \in Op /\ t.step = "take" /\ t.todo # <<>> BY <1>1, TxFields DEF Take
    <2> QED BY <1>1, <2>1 DEF Local, Protocol, Op, OrderPage, Elsewhere, Allocating
<1>3. t.todo \in Seq(Line) /\ Head(t.todo) \in Line /\ Tail(t.todo) \in Seq(Line)
    BY <1>1, <1>2, TxFields, NextLine
<1>4. Needs(t) = {} BY <1>2 DEF Needs, LateLock
<1> DEFINE g == Grant(t, Head(t.todo))
           books == IF t.books = {} THEN {<<stock, res>>} ELSE t.books
<1>5. PICK w : w = LET u == [t EXCEPT !.books = IF @ = {} THEN {<<stock, res>>} ELSE @]
                   IN  IF g = 0 THEN [u EXCEPT !.todo = Tail(@)]
                       ELSE [u EXCEPT !.step = "update", !.grant = g]
    OBVIOUS
<1>6. PICK v : v = [w EXCEPT !.locks = @ \cup Needs(t)] OBVIOUS
<1>7. Becomes(x, t, v) BY <1>5, <1>6 DEF Take, Step, Becomes
<1>8. /\ g \in Nat
      /\ g > 0 => /\ t.rows[Head(t.todo)].status \in Active
                  /\ g <= Asked[Head(t.todo)]
                  /\ Reserved + Total(t.give) + g <= OwnStock(t)
    BY <1>1, <1>3, GrantFits DEF Local
<1>9. books \subseteq Nat \X [Line -> Reservation] BY <1>1, TxFields DEF Tables
<1>10. /\ SameRequest(t, v) /\ v.books = books /\ v.give = t.give /\ v.rows = t.rows
       /\ v.locks = t.locks /\ v.on = t.on /\ v.qty = t.qty /\ v.id = t.id
       /\ v.todo = (IF g = 0 THEN Tail(t.todo) ELSE t.todo)
       /\ v.step = (IF g = 0 THEN "take" ELSE "update")
       /\ v.grant = (IF g = 0 THEN t.grant ELSE g)
    <2> HIDE DEF g
    <2>1. CASE g = 0 BY <2>1, <1>1, <1>2, <1>4, <1>5, <1>6 DEF TxRow, SameRequest
    <2>2. CASE g # 0 BY <2>2, <1>1, <1>2, <1>4, <1>5, <1>6 DEF TxRow, SameRequest
    <2> QED BY <2>1, <2>2
<1>11. v \in TxRow
    <2> HIDE DEF g
    <2>1. v = IF g = 0 THEN [t EXCEPT !.books = books, !.todo = Tail(t.todo)]
              ELSE [t EXCEPT !.books = books, !.step = "update", !.grant = g]
        BY <1>1, <1>4, <1>5, <1>6 DEF TxRow
    <2> HIDE DEF books
    <2> QED BY <2>1, <1>1, <1>3, <1>8, <1>9 DEF TxRow, Steps, Allocating
<1>12. t.grant = 0 /\ (t.books = {} => \A k \in Line : t.give[k] = 0)
    BY <1>1, <1>2 DEF Local, Giving
<1>13. v.books # {} BY <1>10
<1> HIDE DEF g, books
<1>14. Giving(v)
    <2>1. \A i, j \in DOMAIN v.todo : v.todo[i] = v.todo[j] => i = j
        BY <1>1, <1>2, <1>3, <1>10, RestOfQueue DEF Local, Giving
    <2>2. \A i \in DOMAIN v.todo : v.give[v.todo[i]] = 0
        BY <1>1, <1>2, <1>3, <1>10, RestOfQueue DEF Local, Giving
    <2>3. v.op = "approve" => /\ \A k \in Line : v.give[k] > 0 => k = v.l
                              /\ v.todo # <<>> => v.todo = <<v.l>>
                              /\ v.step = "take" => v.todo = <<>>
        <3>1. t.op = "approve" => t.todo = <<t.l>> BY <1>1, <1>2 DEF Local, Giving
        <3>2. Tail(<<t.l>>) = <<>> OBVIOUS
        <3> QED BY <1>1, <3>1, <3>2, <1>10 DEF Local, Giving, SameRequest
    <2>4. \A k \in Line : /\ v.rows[k].approved <= Asked[k]
                          /\ v.give[k] <= Asked[k]
                          /\ v.give[k] > 0 => v.rows[k].status \in Active
        BY <1>1, <1>10 DEF Local, Giving
    <2>5. IF v.step \in {"update", "insert"}
          THEN /\ v.todo # <<>>
               /\ v.grant > 0 /\ v.grant <= Asked[Head(v.todo)]
               /\ v.rows[Head(v.todo)].status \in Active
          ELSE v.grant = 0
        BY <1>2, <1>8, <1>10, <1>12
    <2>6. v.step \in Allocating BY <1>10 DEF Allocating
    <2> QED BY <2>1, <2>2, <2>3, <2>4, <2>5, <2>6, <1>13 DEF Giving, Allocates
<1>15. Protocol(v)
    BY <1>1, <1>2, <1>10 DEF Local, Protocol, SameRequest, OrderPage, Elsewhere, Allocating
<1>16. Locking(v)
    BY <1>1, <1>2, <1>10
    DEF Local, Locking, LineHeld, ResHeld, StockHeld, ItemHeld, SameRequest, Allocating
<1>17. BooksSound(v)
    <2>1. Reserved \in Nat /\ Total(t.give) \in Nat BY <1>1, SumsAreNat
    <2>2. Granted(v) = Total(t.give) + g BY <1>8, <1>10, <1>12, <2>1 DEF Granted
    <2>3. CASE t.books = {}
        <3>1. v.books = {<<stock, res>>} BY <2>3, <1>10 DEF books
        <3>2. Granted(t) = 0 BY <1>1, <1>12, <2>3, NothingGranted
        <3>3. Total(t.give) = 0 BY <1>12, <2>1, <3>2 DEF Granted
        <3>4. Covered(v, stock)
            BY <1>2, <1>8, <1>10, <2>1, <2>2, <3>3 DEF Covered, OwnStock, SameRequest
        <3> QED BY <3>1, <3>4 DEF BooksSound
    <2>4. CASE t.books # {}
        <3>1. v.books = t.books BY <2>4, <1>10 DEF books
        <3>2. t.op = "receive" BY <1>1, <1>2, <2>4 DEF Local, Giving
        <3>3. Granted(t) = Total(t.give) BY <1>12, <2>1 DEF Granted
        <3>4. ASSUME NEW s, Covered(t, s)
              PROVE  Covered(v, s)
            BY <1>8, <1>10, <2>1, <2>2, <3>2, <3>3, <3>4 DEF Covered, OwnStock, SameRequest
        <3> QED BY <1>1, <3>1, <3>4 DEF Global, BooksSound
    <2> QED BY <2>3, <2>4
<1>18. Global(v)
    <2>1. FoundIt(v) BY <1>2, <1>10 DEF FoundIt, SameRequest
    <2> QED BY <2>1, <1>1, <1>2, <1>10, <1>17 DEF Global, StockHeld, SameRequest, Allocating
<1>19. Gains(x, t, v)
    BY <1>2, <1>10
    DEF Gains, LineHeld, ResHeld, StockHeld, ItemHeld, SameRequest, Allocating
<1> QED BY <1>2, <1>7, <1>11, <1>14, <1>15, <1>16, <1>18, <1>19, StepKeeps DEF Local, OrderPage

\* The reservation is inserted, and its row locked.
LEMMA InsertSound ==
    ASSUME ContentionIInv, NEW x \in Conn, NEW t \in tx[x], Insert(x, t)
    PROVE  ContentionIInv'
<1>1. t \in TxRow /\ Local(t) /\ Global(t) /\ Tables BY UnderWay DEF ContentionIInv
<1>2. t.op \in {"approve", "receive"} /\ t.step = "insert"
    <2>1. t.op \in Op /\ t.step = "insert" BY <1>1, TxFields DEF Insert
    <2> QED BY <1>1, <2>1 DEF Local, Protocol, Op, OrderPage, Elsewhere, Allocating
<1> DEFINE h == Head(t.todo)
           give == [t.give EXCEPT ![h] = t.grant]
<1>3. t.todo \in Seq(Line) /\ t.todo # <<>> /\ h \in Line /\ Tail(t.todo) \in Seq(Line)
    <2>1. t.todo \in Seq(Line) BY <1>1, TxFields
    <2>2. t.todo # <<>> BY <1>1, <1>2 DEF Local, Giving
    <2> QED BY <2>1, <2>2, NextLine
<1>4. Needs(t) = {<<"res", h>>} BY <1>2 DEF Needs
<1>5. PICK v : v = [[t EXCEPT !.step = "take", !.todo = Tail(@), !.grant = 0,
                              !.give = [@ EXCEPT ![Head(t.todo)] = t.grant]]
                    EXCEPT !.locks = @ \cup Needs(t)]
    OBVIOUS
<1>6. Becomes(x, t, v) /\ Unlocked(x, <<"res", h>>) /\ ~ Clashes(t)
    BY <1>4, <1>5 DEF Insert, Ready, Step, Becomes
<1>7. res[h].qty = 0 BY <1>1, <1>3, <1>6 DEF Clashes, Tables, Reservation
<1>8. /\ t.grant \in Nat /\ t.grant > 0 /\ t.grant <= Asked[h] /\ t.rows[h].status \in Active
      /\ t.give[h] = 0 /\ t.books # {}
    <2>1. t.grant \in Nat BY <1>1, TxFields
    <2>2. 1 \in DOMAIN t.todo /\ h = t.todo[1] BY <1>3, NextLine
    <2> QED BY <1>1, <1>2, <2>1, <2>2 DEF Local, Giving
<1>9. t.give \in [Line -> Nat] BY <1>1, TxFields
<1> HIDE DEF h
<1>10. give \in [Line -> Nat] /\ give[h] = t.grant /\ \A k \in Line \ {h} : give[k] = t.give[k]
    BY <1>3, <1>8, <1>9
<1>11. v = [t EXCEPT !.step = "take", !.todo = Tail(t.todo), !.grant = 0, !.give = give,
                     !.locks = t.locks \cup {<<"res", h>>}]
    BY <1>1, <1>4, <1>5 DEF TxRow, h
<1> HIDE DEF give
<1>12. /\ SameRequest(t, v) /\ v.step = "take" /\ v.todo = Tail(t.todo) /\ v.grant = 0
       /\ v.give = give /\ v.books = t.books /\ v.rows = t.rows
       /\ v.locks = t.locks \cup {<<"res", h>>} /\ v.on = t.on /\ v.qty = t.qty /\ v.id = t.id
    BY <1>1, <1>11 DEF TxRow, SameRequest
<1>13. v \in TxRow
    <2>1. <<"res", h>> \in Resource BY <1>3, LocksDiffer
    <2> QED BY <1>1, <1>3, <1>10, <1>11, <2>1 DEF TxRow, Steps, Allocating
<1>14. t.op = "approve" => t.todo = <<t.l>> /\ h = t.l /\ Tail(t.todo) = <<>>
    BY <1>1, <1>3 DEF Local, Giving, h
<1>15. Giving(v)
    <2>1. \A i, j \in DOMAIN v.todo : v.todo[i] = v.todo[j] => i = j
        <3>1. \A i, j \in DOMAIN t.todo : t.todo[i] = t.todo[j] => i = j
            BY <1>1 DEF Local, Giving
        <3>2. \A i, j \in DOMAIN Tail(t.todo) : Tail(t.todo)[i] = Tail(t.todo)[j] => i = j
            BY <1>3, <3>1, RestOfQueue
        <3> QED BY <1>12, <3>2
    <2>2. \A i \in DOMAIN v.todo : v.give[v.todo[i]] = 0
        <3>1. \A i \in DOMAIN Tail(t.todo) : /\ Tail(t.todo)[i] \in Line \ {h}
                                             /\ \E j \in DOMAIN t.todo : Tail(t.todo)[i] = t.todo[j]
            BY <1>1, <1>3, RestOfQueue DEF Local, Giving, h
        <3>2. \A j \in DOMAIN t.todo : t.give[t.todo[j]] = 0 BY <1>1 DEF Local, Giving
        <3> QED BY <1>10, <1>12, <3>1, <3>2
    <2>3. v.op = "approve" => /\ \A k \in Line : v.give[k] > 0 => k = v.l
                              /\ v.todo = <<>>
        BY <1>1, <1>10, <1>12, <1>14 DEF Local, Giving, SameRequest
    <2>4. ASSUME NEW k \in Line
          PROVE  /\ v.rows[k].approved <= Asked[k]
                 /\ v.give[k] <= Asked[k]
                 /\ v.give[k] > 0 => v.rows[k].status \in Active
        BY <1>1, <1>8, <1>10, <1>12 DEF Local, Giving
    <2> QED BY <2>1, <2>2, <2>3, <2>4, <1>8, <1>12 DEF Giving, Allocates, Allocating
<1>16. Protocol(v)
    BY <1>1, <1>2, <1>12 DEF Local, Protocol, SameRequest, OrderPage, Elsewhere, Allocating
<1>17. \A k \in Line : v.give[k] > 0 <=> t.give[k] > 0 \/ k = h
    BY <1>8, <1>10, <1>12
<1>18. Locking(v)
    <2>1. \A k \in Line : <<"line", k>> \in v.locks <=> LineHeld(v, k)
        <3>1. \A k \in Line : <<"line", k>> \in t.locks <=> LineHeld(t, k)
            BY <1>1 DEF Local, Locking
        <3>2. \A k \in Line : LineHeld(t, k) <=> t.give[k] > 0 \/ (t.op = "approve" /\ k = t.l) \/ k = h
            BY <1>2 DEF LineHeld, h
        <3>3. \A k \in Line : LineHeld(v, k) <=> v.give[k] > 0 \/ (t.op = "approve" /\ k = t.l)
            BY <1>12 DEF LineHeld, SameRequest
        <3>4. \A k \in Line : <<"line", k>> \in v.locks <=> <<"line", k>> \in t.locks
            BY <1>12, LocksDiffer
        <3> QED BY <3>1, <3>2, <3>3, <3>4, <1>17
    <2>2. \A k \in Line : <<"res", k>> \in v.locks <=> ResHeld(v, k)
        BY <1>1, <1>2, <1>12, <1>17, LocksDiffer DEF Local, Locking, ResHeld
    <2>3. /\ Stock \in v.locks <=> StockHeld(v)
          /\ Item \in v.locks <=> ItemHeld(v)
        BY <1>1, <1>2, <1>12, LocksDiffer
        DEF Local, Locking, StockHeld, ItemHeld, SameRequest, Allocating
    <2> QED BY <2>1, <2>2, <2>3 DEF Locking
<1>19. Granted(v) = Granted(t)
    <2>1. IsFiniteSet(Line) BY ContentionAssumption
    <2>2. AgreeOn(t.give, give, Line \ {h}) BY <1>10 DEF AgreeOn
    <2>3. Total(give) + t.give[h] = Total(t.give) + give[h]
        <3> DEFINE old == t.give
        <3>1. h \in Line /\ old \in [Line -> Nat] /\ give \in [Line -> Nat] BY <1>3, <1>9, <1>10
        <3>2. AgreeOn(old, give, Line \ {h}) BY <2>2
        <3> HIDE DEF old
        <3>3. Total(give) + old[h] = Total(old) + give[h] BY <2>1, <3>1, <3>2, TotalUpdate
        <3> QED BY <3>3 DEF old
    <2>4. Total(give) \in Nat /\ Total(t.give) \in Nat BY <2>1, <1>9, <1>10, TotalType
    <2> QED BY <2>3, <2>4, <1>8, <1>10, <1>12 DEF Granted
<1>20. Global(v)
    <2>1. FoundIt(v) BY <1>2, <1>12 DEF FoundIt, SameRequest
    <2>2. BooksSound(v) BY <1>1, <1>12, <1>19, BooksStay DEF Global, SameRequest
    <2>3. \A k \in Line : v.give[k] > 0 => res[k].qty = 0 BY <1>1, <1>7, <1>17 DEF Global
    <2> QED BY <2>1, <2>2, <2>3, <1>1, <1>2, <1>12 DEF Global, StockHeld, SameRequest, Allocating
<1>21. Gains(x, t, v)
    <2>1. \A k \in Line : LineHeld(v, k) => LineHeld(t, k)
        BY <1>2, <1>12, <1>17 DEF LineHeld, SameRequest, h
    <2>2. \A k \in Line : ResHeld(v, k) => ResHeld(t, k) \/ k = h
        BY <1>2, <1>12, <1>17 DEF ResHeld
    <2>3. (StockHeld(v) => StockHeld(t)) /\ (ItemHeld(v) => ItemHeld(t))
        BY <1>2, <1>12 DEF StockHeld, ItemHeld, SameRequest, Allocating
    <2> QED BY <2>1, <2>2, <2>3, <1>6 DEF Gains
<1> QED BY <1>2, <1>6, <1>13, <1>15, <1>16, <1>18, <1>20, <1>21, StepKeeps DEF Local, OrderPage

\* The reservation is refused or the session is chosen to end a deadlock: the
\* savepoint is rolled back and the line passed over.
LEMMA InsertFailsSound ==
    ASSUME ContentionIInv, NEW x \in Conn, NEW t \in tx[x], InsertFails(x, t)
    PROVE  ContentionIInv'
<1>1. t \in TxRow /\ Local(t) /\ Global(t) /\ Tables BY UnderWay DEF ContentionIInv
<1>2. t.op \in {"approve", "receive"} /\ t.step = "insert"
    <2>1. t.op \in Op /\ t.step = "insert" BY <1>1, TxFields DEF InsertFails
    <2> QED BY <1>1, <2>1 DEF Local, Protocol, Op, OrderPage, Elsewhere, Allocating
<1> DEFINE h == Head(t.todo)
           locks == IF t.op = "receive" THEN t.locks \ {<<"line", h>>} ELSE t.locks
           next == IF t.op = "receive" THEN "take" ELSE "commit"
<1>3. t.todo \in Seq(Line) /\ t.todo # <<>> /\ h \in Line /\ Tail(t.todo) \in Seq(Line)
    <2>1. t.todo \in Seq(Line) BY <1>1, TxFields
    <2>2. t.todo # <<>> BY <1>1, <1>2 DEF Local, Giving
    <2> QED BY <2>1, <2>2, NextLine
<1>4. PICK v : v = Skipped(t) OBVIOUS
<1>5. Becomes(x, t, v) BY <1>4 DEF InsertFails, Becomes
<1>6. t.grant \in Nat /\ t.grant > 0 /\ t.give[h] = 0 /\ t.books # {}
    <2>1. t.grant \in Nat BY <1>1, TxFields
    <2>2. 1 \in DOMAIN t.todo /\ h = t.todo[1] BY <1>3, NextLine
    <2> QED BY <1>1, <1>2, <2>1, <2>2 DEF Local, Giving
<1>7. v = [t EXCEPT !.step = next, !.todo = Tail(t.todo), !.grant = 0, !.locks = locks]
    BY <1>1, <1>4 DEF TxRow, Skipped
<1> HIDE DEF h
<1>8. locks \subseteq Resource BY <1>1, TxFields
<1>9. v \in TxRow
    <2>1. next \in Steps BY DEF Steps, Allocating
    <2> HIDE DEF locks, next
    <2> QED BY <1>1, <1>3, <1>7, <1>8, <2>1 DEF TxRow
<1>10. /\ SameRequest(t, v) /\ v.step = next /\ v.todo = Tail(t.todo) /\ v.grant = 0
       /\ v.give = t.give /\ v.books = t.books /\ v.rows = t.rows
       /\ v.locks = locks /\ v.on = t.on /\ v.qty = t.qty /\ v.id = t.id
    <2> HIDE DEF locks, next
    <2> QED BY <1>1, <1>7 DEF TxRow, SameRequest
<1>11. t.op = "approve" => t.todo = <<t.l>> /\ h = t.l /\ Tail(t.todo) = <<>>
    BY <1>1, <1>3 DEF Local, Giving, h
<1>12. Giving(v)
    <2>1. \A i, j \in DOMAIN v.todo : v.todo[i] = v.todo[j] => i = j
        BY <1>1, <1>3, <1>10, RestOfQueue DEF Local, Giving
    <2>2. \A i \in DOMAIN v.todo : v.give[v.todo[i]] = 0
        <3>1. \A i \in DOMAIN Tail(t.todo) : \E j \in DOMAIN t.todo : Tail(t.todo)[i] = t.todo[j]
            BY <1>1, <1>3, RestOfQueue DEF Local, Giving
        <3>2. \A j \in DOMAIN t.todo : t.give[t.todo[j]] = 0 BY <1>1 DEF Local, Giving
        <3> QED BY <1>10, <3>1, <3>2
    <2>3. v.op = "approve" => /\ \A k \in Line : v.give[k] > 0 => k = v.l
                              /\ v.todo = <<>>
        BY <1>1, <1>10, <1>11 DEF Local, Giving, SameRequest
    <2>4. \A k \in Line : /\ v.rows[k].approved <= Asked[k]
                          /\ v.give[k] <= Asked[k]
                          /\ v.give[k] > 0 => v.rows[k].status \in Active
        BY <1>1, <1>10 DEF Local, Giving
    <2>5. /\ v.grant = 0 /\ v.books # {} /\ Allocates(v)
          /\ v.step \notin {"update", "insert"}
        BY <1>2, <1>6, <1>10 DEF Allocates, Allocating, SameRequest
    <2> QED BY <2>1, <2>2, <2>3, <2>4, <2>5 DEF Giving
<1>13. Protocol(v)
    BY <1>1, <1>2, <1>10 DEF Local, Protocol, SameRequest, OrderPage, Elsewhere, Allocating
<1>14. Locking(v)
    <2>1. \A k \in Line : <<"line", k>> \in v.locks <=> LineHeld(v, k)
        <3>1. \A k \in Line : <<"line", k>> \in t.locks <=> LineHeld(t, k)
            BY <1>1 DEF Local, Locking
        <3>2. \A k \in Line : LineHeld(t, k) <=> t.give[k] > 0 \/ (t.op = "approve" /\ k = t.l) \/ k = h
            BY <1>2 DEF LineHeld, h
        <3>3. \A k \in Line : LineHeld(v, k) <=> t.give[k] > 0 \/ (t.op = "approve" /\ k = t.l)
            BY <1>2, <1>10 DEF LineHeld, SameRequest
        <3>4. \A k \in Line : <<"line", k>> \in v.locks <=>
                                <<"line", k>> \in t.locks /\ (t.op = "receive" => k # h)
            BY <1>10, LocksDiffer
        <3>5. ~ (t.give[h] > 0) BY <1>6
        <3>6. CASE t.op = "approve" BY <3>1, <3>2, <3>3, <3>4, <3>6, <1>11
        <3>7. CASE t.op = "receive" BY <3>1, <3>2, <3>3, <3>4, <3>5, <3>7
        <3> QED BY <3>6, <3>7, <1>2
    <2>2. \A k \in Line : <<"res", k>> \in v.locks <=> ResHeld(v, k)
        BY <1>1, <1>2, <1>10, LocksDiffer DEF Local, Locking, ResHeld, SameRequest
    <2>3. /\ Stock \in v.locks <=> StockHeld(v)
          /\ Item \in v.locks <=> ItemHeld(v)
        BY <1>1, <1>2, <1>10, LocksDiffer
        DEF Local, Locking, StockHeld, ItemHeld, SameRequest, Allocating
    <2> QED BY <2>1, <2>2, <2>3 DEF Locking
<1>15. BooksSound(v)
    <2>1. Reserved \in Nat /\ Total(t.give) \in Nat BY <1>1, SumsAreNat
    <2>2. Granted(v) = Total(t.give) /\ Granted(t) = Total(t.give) + t.grant
        BY <1>10, <2>1 DEF Granted
    <2>3. t.on \in Nat /\ t.qty \in Nat BY <1>1, TxFields
    <2>4. ASSUME NEW s \in Nat, Covered(t, s)
          PROVE  Covered(v, s)
        BY <1>6, <1>10, <2>1, <2>2, <2>3, <2>4 DEF Covered, SameRequest
    <2>5. \A b \in t.books : b[1] \in Nat BY <1>1, TxFields
    <2> QED BY <1>1, <1>10, <2>4, <2>5 DEF Global, BooksSound
<1>16. Global(v)
    <2>1. FoundIt(v) BY <1>2, <1>10 DEF FoundIt, SameRequest
    <2> QED BY <2>1, <1>1, <1>2, <1>10, <1>15 DEF Global, StockHeld, SameRequest, Allocating
<1>17. Gains(x, t, v)
    BY <1>2, <1>10
    DEF Gains, LineHeld, ResHeld, StockHeld, ItemHeld, SameRequest, Allocating
<1> QED BY <1>2, <1>5, <1>9, <1>12, <1>13, <1>14, <1>16, <1>17, StepKeeps DEF Local, OrderPage

\* The first of the two rows at the end is locked.
LEMMA RecomputeSound ==
    ASSUME ContentionIInv, NEW x \in Conn, NEW t \in tx[x], Recompute(x, t)
    PROVE  ContentionIInv'
<1>1. t \in TxRow /\ Local(t) /\ Global(t) BY UnderWay
<1>2. /\ t.op \in Op /\ t.l \in Line
      /\ t.step = "status" \/ (t.op = "approve" /\ t.step = "take" /\ t.todo = <<>>)
    BY <1>1, TxFields DEF Recompute
<1>3. /\ t.step = "status" => t.op \in {"issue", "cancel"} \cup Elsewhere
      /\ t.op \notin OrderPage
    BY <1>1, <1>2 DEF Local, Protocol, Op, OrderPage, Elsewhere, Allocating
<1>4. Needs(t) = {<<"wo", t.l>>} \/ Needs(t) = {<<"card", t.l>>}
    BY <1>2 DEF Needs, JobRow, CardRow
<1>5. PICK v : v = [[t EXCEPT !.step = "commit"] EXCEPT !.locks = @ \cup Needs(t)] OBVIOUS
<1>6. Becomes(x, t, v) BY <1>5 DEF Recompute, Step, Becomes
<1>7. /\ Needs(t) \subseteq Resource /\ Stock \notin Needs(t) /\ Item \notin Needs(t)
      /\ \A k : <<"line", k>> \notin Needs(t) /\ <<"res", k>> \notin Needs(t)
    BY <1>2, <1>4, EndLocksDiffer
<1>8. /\ v \in TxRow /\ SameRequest(t, v) /\ SameGiving(t, v) /\ v.step = "commit"
      /\ v.locks = t.locks \cup Needs(t) /\ v.on = t.on /\ v.qty = t.qty /\ v.id = t.id
    BY <1>1, <1>5, <1>7 DEF TxRow, Steps, SameRequest, SameGiving
<1>9. Giving(v)
    <2>1. t.step \notin {"update", "insert"} BY <1>2
    <2>2. ~ Allocates(v) => ~ Allocates(t)
        BY <1>2, <1>8 DEF Allocates, Allocating, SameRequest
    <2> QED BY <1>1, <1>8, <2>1, <2>2 DEF Local, Giving, SameRequest, SameGiving
<1>10. Protocol(v)
    BY <1>1, <1>2, <1>3, <1>8 DEF Local, Protocol, SameRequest, OrderPage, Elsewhere
<1>11. /\ \A k \in Line : (LineHeld(v, k) <=> LineHeld(t, k)) /\ (ResHeld(v, k) <=> ResHeld(t, k))
       /\ StockHeld(v) <=> StockHeld(t)
       /\ ItemHeld(v) <=> ItemHeld(t)
    BY <1>2, <1>3, <1>8
    DEF LineHeld, ResHeld, StockHeld, ItemHeld, SameRequest, SameGiving, Elsewhere, Allocating
<1>12. Locking(v) BY <1>1, <1>7, <1>8, <1>11 DEF Local, Locking
<1>13. Global(v)
    <2>1. FoundIt(v) BY <1>1, <1>2, <1>3, <1>8 DEF Global, FoundIt, SameRequest, Elsewhere
    <2>2. Granted(v) = Granted(t) BY <1>8 DEF Granted, SameGiving
    <2>3. BooksSound(v) BY <1>1, <1>8, <2>2, BooksStay DEF Global, SameRequest, SameGiving
    <2> QED BY <2>1, <2>3, <1>1, <1>3, <1>8, <1>11 DEF Global, SameRequest, SameGiving
<1>14. Gains(x, t, v) BY <1>11 DEF Gains
<1> QED BY <1>3, <1>6, <1>8, <1>9, <1>10, <1>12, <1>13, <1>14, StepKeeps DEF Local

-------------------------------------------------------------------------------
(***************************************************************************)
(* A request begins, and ends.                                             *)
(***************************************************************************)
\* A view reads its copies and checks their status.
LEMMA BeginSound ==
    ASSUME ContentionIInv, NEW x \in Conn, NEW op \in Op, NEW l \in Line, NEW q \in 1..MaxUnits,
           Begin(x, op, l, q)
    PROVE  ContentionIInv'
<1>1. /\ stock' = stock /\ line' = line /\ res' = res /\ item' = item /\ pr' = pr
      /\ moved' = moved /\ arrived' = arrived /\ raced' = raced /\ begun' = begun + 1
      /\ begun < MaxOps /\ tx[x] = {} /\ MayBegin(op, l)
    BY DEF Begin, rowvars
<1>2. PICK s \in FirstStep(op) : tx' = [tx EXCEPT ![x] = {NewTx(op, l, q, s)}] BY DEF Begin
<1>3. PICK v : v = NewTx(op, l, q, s) /\ tx' = [tx EXCEPT ![x] = {v}] BY <1>2
<1>4. Tables /\ Sessions /\ Ordering /\ CountsFollowMovements BY DEF ContentionIInv
<1>5. line[l] \in LineRow /\ item \in Nat /\ pr \in RequestRow /\ line \in [Line -> LineRow]
    BY <1>4 DEF Tables
<1>6. MaxOps \in Nat /\ MaxUnits \in Nat BY ContentionAssumption
<1>7. /\ v.op = op /\ v.l = l /\ v.step = s /\ v.saw = line[l] /\ v.had = item /\ v.req = pr
      /\ v.todo = <<>> /\ v.grant = 0 /\ v.books = {} /\ v.locks = {} /\ v.rows = line /\ v.id = 0
      /\ v.give = [k \in Line |-> 0]
      /\ IF op = "receive" THEN s \in {"invoice", "read"}
         ELSE IF op \in Elsewhere THEN s = "status" ELSE s = "read"
    BY <1>2, <1>3 DEF NewTx, FirstStep
<1>8. v \in TxRow
    <2>1. q \in Nat BY <1>6
    <2>2. [k \in Line |-> 0] \in [Line -> Nat] OBVIOUS
    <2>3. <<>> \in Seq(Line) OBVIOUS
    <2>4. s \in Steps BY <1>7 DEF Steps
    <2> QED BY <1>3, <1>5, <2>1, <2>2, <2>3, <2>4 DEF NewTx, TxRow
<1>9. \A k \in Line : v.give[k] = 0 BY <1>7
<1>10. Giving(v)
    <2>1. \A k \in Line : Asked[k] \in Nat BY ContentionAssumption
    <2>2. DOMAIN v.todo = {} BY <1>7
    <2>3. \A k \in Line : v.rows[k].approved <= Asked[k] BY <1>7 DEF ContentionIInv, RowsSound
    <2> QED BY <1>7, <1>9, <2>1, <2>2, <2>3 DEF Giving, Allocates, Allocating
<1>11. Protocol(v)
    BY <1>1, <1>7
    DEF MayBegin, Approvable, Cancellable, Protocol, Active, OrderPage, Elsewhere, Allocating
<1>12. /\ \A k \in Line : ~ LineHeld(v, k) /\ ~ ResHeld(v, k)
       /\ ~ StockHeld(v) /\ ~ ItemHeld(v)
    BY <1>7, <1>9 DEF LineHeld, ResHeld, StockHeld, ItemHeld, Allocating, Elsewhere
<1>13. Locking(v) BY <1>7, <1>12 DEF Locking
<1>14. Global(v)'
    <2>1. line[l].issued <= moved[l] /\ item <= arrived BY <1>4 DEF CountsFollowMovements
    <2>2. FoundIt(v)' BY <1>7 DEF FoundIt, Elsewhere
    <2>3. BooksSound(v)' BY <1>7 DEF BooksSound
    <2>4. v.op = "order" => v.req.status = "pending"
        BY <1>1, <1>7 DEF MayBegin, Orderable, Elsewhere
    <2>5. ~ (v.op \in OrderPage /\ v.step = "saved") BY <1>7 DEF OrderPage, Elsewhere
    <2> QED BY <1>1, <1>7, <1>9, <1>12, <2>1, <2>2, <2>3, <2>4, <2>5 DEF Global
<1>15. tx'[x] = {v} /\ \A y \in Conn \ {x} : tx'[y] = tx[y] BY <1>3, <1>4 DEF Tables
<1>16. Tables'
    <2>1. tx' \in [Conn -> SUBSET TxRow] BY <1>3, <1>4, <1>8 DEF Tables
    <2>2. begun' \in 0..MaxOps BY <1>1, <1>4, <1>6 DEF Tables
    <2> QED BY <1>1, <1>4, <2>1, <2>2 DEF Tables
<1>17. Changed(x)
    <2>1. \A k \in Line : moved[k] \in Nat /\ res[k].qty \in Nat
        BY <1>4 DEF Tables, Reservation
    <2>2. arrived \in Nat /\ pr.ordered \in Nat BY <1>4 DEF Tables, RequestRow
    <2> QED BY <1>1, <2>1, <2>2 DEF Changed
<1>18. Serves(x)
    BY <1>10, <1>11, <1>12, <1>13, <1>14, <1>15 DEF Serves, Local, Apart
<1>19. Sessions' BY <1>4, <1>16, <1>17, <1>18, SessionsKept
<1>20. Ordering'
    <2>1. ASSUME NEW y \in Conn, NEW u \in tx[y]
          PROVE  u \in tx'[y]
        BY <1>1, <1>15
    <2> QED BY <1>1, <1>4, <2>1 DEF Ordering
<1>21. RowsSound' BY <1>1 DEF ContentionIInv, RowsSound
<1>22. StockIsExact' BY <1>1 DEF ContentionIInv, StockIsExact
<1>23. CountsFollowMovements' BY <1>1 DEF ContentionIInv, CountsFollowMovements
<1>24. ReservationsHeld' BY <1>1 DEF ContentionIInv, ReservationsHeld
<1> QED BY <1>16, <1>19, <1>20, <1>21, <1>22, <1>23, <1>24 DEF ContentionIInv

\* A commit ends a session's transaction; what remains is what it wrote.
LEMMA CommitKeeps ==
    ASSUME ContentionIInv, NEW x \in Conn, NEW t \in tx[x], Commits(x, t), t.op \notin OrderPage,
           Tables', RowsSound', Changed(x), StockIsExact', CountsFollowMovements',
           ReservationsHeld'
    PROVE  ContentionIInv'
<1>1. tx' = [tx EXCEPT ![x] = {}] /\ pr' = pr BY DEF Commits
<1>2. Tables /\ Sessions /\ Ordering BY DEF ContentionIInv
<1>3. tx'[x] = {} /\ \A y \in Conn \ {x} : tx'[y] = tx[y] BY <1>1, <1>2 DEF Tables
<1>4. Serves(x) BY <1>3 DEF Serves
<1>5. Sessions' BY <1>2, <1>4, SessionsKept
<1>6. Ordering'
    <2>1. ASSUME NEW y \in Conn, NEW u \in tx[y], u.op \in OrderPage
          PROVE  u \in tx'[y]
        <3>1. y # x BY <1>2, <2>1 DEF Sessions
        <3> QED BY <3>1, <1>3, <2>1
    <2>2. raced \subseteq raced' BY DEF Changed
    <2> QED BY <1>1, <1>2, <2>1, <2>2 DEF Ordering
<1> QED BY <1>5, <1>6 DEF ContentionIInv

\* A request for another part commits.
LEMMA CommitElsewhereSound ==
    ASSUME ContentionIInv, NEW x \in Conn, NEW t \in tx[x], CommitElsewhere(x, t)
    PROVE  ContentionIInv'
<1>1. /\ t.op \in Elsewhere /\ Commits(x, t) /\ begun' = begun /\ pr' = pr
      /\ stock' = stock /\ line' = line /\ res' = res /\ item' = item
      /\ moved' = moved /\ arrived' = arrived /\ raced' = raced
      /\ tx' = [tx EXCEPT ![x] = {}]
    BY DEF CommitElsewhere, Commits
<1>2. Tables BY DEF ContentionIInv
<1>3. Tables'
    <2>1. tx' \in [Conn -> SUBSET TxRow] BY <1>1, <1>2 DEF Tables
    <2> QED BY <1>1, <1>2, <2>1 DEF Tables
<1>4. Changed(x)
    <2>1. \A k \in Line : moved[k] \in Nat /\ res[k].qty \in Nat
        BY <1>2 DEF Tables, Reservation
    <2>2. arrived \in Nat /\ pr.ordered \in Nat BY <1>2 DEF Tables, RequestRow
    <2> QED BY <1>1, <2>1, <2>2 DEF Changed
<1>5. RowsSound' BY <1>1 DEF ContentionIInv, RowsSound
<1>6. StockIsExact' BY <1>1 DEF ContentionIInv, StockIsExact
<1>7. CountsFollowMovements' BY <1>1 DEF ContentionIInv, CountsFollowMovements
<1>8. ReservationsHeld' BY <1>1 DEF ContentionIInv, ReservationsHeld
<1>9. t.op \notin OrderPage BY <1>1 DEF Elsewhere, OrderPage
<1> QED BY <1>1, <1>3, <1>4, <1>5, <1>6, <1>7, <1>8, <1>9, CommitKeeps

\* What an allocation inserts: one reservation per line it gave to.
LEMMA InsertedRows ==
    ASSUME Tables, NEW t \in TxRow, Local(t), Global(t), res' = Inserted(t)
    PROVE  /\ res' \in [Line -> Reservation]
           /\ \A k \in Line \ Gives(t) : res'[k] = res[k]
           /\ \A k \in Gives(t) : /\ res'[k].id = res[k].id + 1
                                  /\ res'[k].qty = t.give[k]
                                  /\ t.give[k] <= Asked[k]
                                  /\ Older(res[k], res'[k])
                                  /\ ResHeld(t, k)
<1>1. t.give \in [Line -> Nat] /\ res \in [Line -> Reservation] BY TxFields DEF Tables
<1>2. \A k \in Gives(t) : k \in Line /\ t.give[k] > 0 BY DEF Gives
<1>3. \A k \in Gives(t) : res[k].qty = 0 /\ t.give[k] <= Asked[k]
    BY <1>2 DEF Global, Local, Giving
<1>4. \A k \in Line : res[k].id \in Nat /\ res[k].qty \in Nat /\ t.give[k] \in Nat
    BY <1>1 DEF Reservation
<1>5. \A k \in Gives(t) : res'[k] = [id |-> res[k].id + 1, qty |-> res[k].qty + t.give[k]]
    BY <1>2 DEF Inserted
<1>6. \A k \in Line \ Gives(t) : res'[k] = res[k] BY DEF Inserted
<1>7. ASSUME NEW k \in Line
      PROVE  res'[k] \in Reservation
    <2>1. CASE k \in Gives(t)
        <3>1. PICK i, n : i = res[k].id + 1 /\ n = res[k].qty + t.give[k] OBVIOUS
        <3>2. i \in Nat /\ n \in Nat BY <3>1, <1>4
        <3>3. res'[k] = [id |-> i, qty |-> n] BY <2>1, <3>1, <1>5, Zenon
        <3> QED BY <3>2, <3>3 DEF Reservation
    <2>2. CASE k \notin Gives(t) BY <2>2, <1>1, <1>6
    <2> QED BY <2>1, <2>2
<1>8. DOMAIN res' = Line /\ res' = [k \in Line |-> res'[k]] BY DEF Inserted
<1>9. res' \in [Line -> Reservation] BY <1>7, <1>8
<1>10. ASSUME NEW k \in Gives(t)
       PROVE  /\ res'[k].id = res[k].id + 1
              /\ res'[k].qty = t.give[k]
              /\ Older(res[k], res'[k])
    <2>1. res'[k].id = res[k].id + 1 /\ res'[k].qty = res[k].qty + t.give[k]
        <3>1. PICK i, n : i = res[k].id + 1 /\ n = res[k].qty + t.give[k] OBVIOUS
        <3>2. res'[k] = [id |-> i, qty |-> n] BY <3>1, <1>5, Zenon
        <3> QED BY <3>1, <3>2
    <2>2. res[k].qty = 0 /\ res[k].id \in Nat /\ t.give[k] \in Nat BY <1>2, <1>3, <1>4
    <2> QED BY <2>1, <2>2 DEF Older
<1>11. \A k \in Gives(t) : ResHeld(t, k) BY <1>2 DEF ResHeld
<1> QED BY <1>3, <1>6, <1>9, <1>10, <1>11

\* What an allocation writes to a line it gave to.
LEMMA AllocatedRow ==
    ASSUME Tables, NEW t \in TxRow, Local(t), NEW k \in Gives(t)
    PROVE  /\ Allocated(t, k) \in LineRow
           /\ Allocated(t, k).status \in {"approved", "allocated"}
           /\ Allocated(t, k).approved = line[k].approved
           /\ Allocated(t, k).issued = line[k].issued
           /\ t.rows[k] = line[k] => Earlier(line[k], Allocated(t, k))
<1>1. k \in Line /\ t.give[k] \in Nat /\ t.give[k] > 0 BY TxFields DEF Gives
<1>2. t.rows[k] \in LineRow /\ line[k] \in LineRow BY <1>1, TxFields DEF Tables
<1>3. t.rows[k].status \in Active BY <1>1 DEF Local, Giving
<1> DEFINE sum == t.rows[k].allocated + t.give[k]
           status == IF sum >= t.rows[k].approved THEN "allocated"
                     ELSE IF t.rows[k].status = "pending" THEN "approved"
                     ELSE t.rows[k].status
<1>4. sum \in Nat /\ sum > t.rows[k].allocated BY <1>1, <1>2 DEF LineRow
<1>5. status \in {"approved", "allocated"} BY <1>3 DEF Active
<1>6. Allocated(t, k) = [line[k] EXCEPT !.allocated = sum, !.status = status]
    BY DEF Allocated
<1> HIDE DEF sum, status
<1>7. /\ Allocated(t, k) \in LineRow
      /\ Allocated(t, k).status = status /\ Allocated(t, k).allocated = sum
      /\ Allocated(t, k).approved = line[k].approved
      /\ Allocated(t, k).issued = line[k].issued
    BY <1>2, <1>4, <1>5, <1>6 DEF LineRow, LineStatus
<1>8. t.rows[k] = line[k] => Earlier(line[k], Allocated(t, k))
    BY <1>3, <1>4, <1>5, <1>7 DEF Earlier, Phase, Active
<1> QED BY <1>5, <1>7, <1>8

\* What a release takes from the reservation it locked.
LEMMA ReleasedRows ==
    ASSUME Tables, NEW t \in TxRow, t.op \in {"issue", "cancel"}, t.step = "commit",
           NEW n \in Nat, res' = Released(t, n)
    PROVE  /\ res' \in [Line -> Reservation]
           /\ \A k \in Line : /\ res'[k] = res[k] \/ (Older(res[k], res'[k]) /\ ResHeld(t, k))
                              /\ res'[k].qty <= res[k].qty /\ res'[k].id = res[k].id
           /\ \A k \in Line \ {t.l} : res'[k] = res[k]
           /\ t.id # 0 /\ res[t.l].id = t.id /\ n >= res[t.l].qty => res'[t.l].qty = 0
<1>1. t.l \in Line /\ res \in [Line -> Reservation] BY TxFields DEF Tables
<1> DEFINE r == res[t.l]
           left == IF n < r.qty THEN r.qty - n ELSE 0
           s == [r EXCEPT !.qty = left]
<1>2. r \in Reservation /\ r.id \in Nat /\ r.qty \in Nat BY <1>1 DEF Reservation
<1>3. left \in Nat /\ left <= r.qty /\ (n >= r.qty => left = 0) BY <1>2
<1> HIDE DEF left
<1>4. s \in Reservation /\ s.id = r.id /\ s.qty = left /\ (s = r \/ Older(r, s))
    <2>1. s \in Reservation /\ s.id = r.id /\ s.qty = left BY <1>2, <1>3 DEF Reservation
    <2>2. CASE left = r.qty BY <2>2, <1>2 DEF Reservation
    <2>3. CASE left < r.qty BY <2>1, <2>3, <1>2 DEF Older
    <2> QED BY <2>1, <2>2, <2>3, <1>2, <1>3
<1>5. CASE t.id = 0 \/ r.id # t.id
    <2>1. res' = res BY <1>5 DEF Released
    <2>2. \A k \in Line : res[k].qty \in Nat BY <1>1 DEF Reservation
    <2> QED BY <1>1, <1>5, <2>1, <2>2
<1>6. CASE t.id # 0 /\ r.id = t.id
    <2>1. res' = [res EXCEPT ![t.l] = s] BY <1>6 DEF Released, s, left
    <2> HIDE DEF s
    <2>2. res' \in [Line -> Reservation] /\ res'[t.l] = s /\ \A k \in Line \ {t.l} : res'[k] = res[k]
        BY <1>1, <1>4, <2>1
    <2>3. ResHeld(t, t.l) BY <1>6 DEF ResHeld
    <2>4. \A k \in Line : res[k].qty \in Nat BY <1>1 DEF Reservation
    <2>5. ASSUME NEW k \in Line
          PROVE  /\ res'[k] = res[k] \/ (Older(res[k], res'[k]) /\ ResHeld(t, k))
                 /\ res'[k].qty <= res[k].qty /\ res'[k].id = res[k].id
        <3>1. CASE k = t.l BY <3>1, <2>2, <2>3, <1>3, <1>4
        <3>2. CASE k # t.l BY <3>2, <2>2, <2>4
        <3> QED BY <3>1, <3>2
    <2> QED BY <1>3, <1>4, <2>2, <2>5
<1> QED BY <1>5, <1>6

\* approve_part_request commits.
LEMMA CommitApprovalSound ==
    ASSUME ContentionIInv, NEW x \in Conn, NEW t \in tx[x], CommitApproval(x, t)
    PROVE  ContentionIInv'
<1>1. t \in TxRow /\ Local(t) /\ Global(t) /\ Tables BY UnderWay DEF ContentionIInv
<1>2. /\ t.op = "approve" /\ t.step = "commit" /\ Commits(x, t)
      /\ stock' = stock /\ item' = item /\ moved' = moved /\ arrived' = arrived
      /\ res' = Inserted(t) /\ raced' = raced \cup LineRaced(t.l, t.saw)
    BY DEF CommitApproval
<1>3. t.l \in Line /\ line \in [Line -> LineRow] /\ Asked[t.l] \in Nat
    BY <1>1, TxFields, ContentionAssumption DEF Tables
<1>4. /\ res' \in [Line -> Reservation]
      /\ \A k \in Line \ Gives(t) : res'[k] = res[k]
      /\ \A k \in Gives(t) : /\ res'[k].id = res[k].id + 1
                             /\ res'[k].qty = t.give[k]
                             /\ t.give[k] <= Asked[k]
                             /\ Older(res[k], res'[k])
                             /\ ResHeld(t, k)
    BY <1>1, <1>2, InsertedRows
<1>5. \A k \in Gives(t) : k = t.l /\ t.give[k] > 0 BY <1>1, <1>2 DEF Gives, Local, Giving
<1>6. PICK row : row = IF t.l \in Gives(t) THEN Allocated(t, t.l)
                       ELSE [line[t.l] EXCEPT !.status = "approved"]
    OBVIOUS
<1>7. /\ row \in LineRow /\ row.status \in {"approved", "allocated"} /\ row.issued = line[t.l].issued
    <2>1. CASE t.l \in Gives(t) BY <2>1, <1>1, <1>6, AllocatedRow
    <2>2. CASE t.l \notin Gives(t)
        <3>1. line[t.l] \in LineRow BY <1>3
        <3> QED BY <2>2, <3>1, <1>6 DEF LineRow, LineStatus
    <2> QED BY <2>1, <2>2
<1>8. PICK new : new = [row EXCEPT !.approved = Asked[t.l]] OBVIOUS
<1>9. /\ new \in LineRow /\ new.status \in {"approved", "allocated"} /\ new.issued = line[t.l].issued
      /\ new.approved = Asked[t.l]
    BY <1>3, <1>7, <1>8 DEF LineRow, LineStatus
<1>10. line' = [line EXCEPT ![t.l] = new] BY <1>6, <1>8 DEF CommitApproval
<1>11. line' \in [Line -> LineRow] /\ line'[t.l] = new /\ \A k \in Line \ {t.l} : line'[k] = line[k]
    BY <1>3, <1>9, <1>10
<1>12. raced \subseteq raced' /\ raced' \subseteq Resource \cup {Pr}
       /\ (t.saw # line[t.l] => <<"line", t.l>> \in raced')
    <2>1. <<"line", t.l>> \in Resource BY <1>3, LocksDiffer
    <2> QED BY <2>1, <1>1, <1>2 DEF LineRaced, Tables
<1>13. Tables'
    <2>1. tx' \in [Conn -> SUBSET TxRow] BY <1>1, <1>2 DEF Commits, Tables
    <2> QED BY <1>1, <1>2, <1>4, <1>11, <1>12, <2>1 DEF Commits, Tables
<1>14. \A k \in Line : res[k].id \in Nat /\ res[k].qty \in Nat /\ moved[k] \in Nat
    BY <1>1 DEF Tables, Reservation
<1>15. Changed(x)
    <2>1. ASSUME NEW k \in Line
          PROVE  \/ <<"line", k>> \in raced'
                 \/ line'[k] = line[k] /\ res'[k] = res[k]
                 \/ Earlier(line[k], line'[k])
        <3>1. CASE k # t.l BY <3>1, <1>4, <1>5, <1>11
        <3>2. CASE k = t.l /\ t.saw = line[k]
            <4>1. t.saw.status = "pending" BY <1>1, <1>2 DEF Local, Protocol
            <4> QED BY <3>2, <4>1, <1>9, <1>11 DEF Earlier, Phase
        <3> QED BY <3>1, <3>2, <1>12
    <2>2. \A k \in Line : res'[k] = res[k] \/ Older(res[k], res'[k]) BY <1>4
    <2>3. \A k \in Line : res'[k].qty <= res[k].qty \/ ResHeld(t, k) BY <1>4, <1>14
    <2>4. arrived <= arrived' /\ pr.ordered <= pr'.ordered
        BY <1>1, <1>2 DEF Commits, Tables, RequestRow
    <2> QED BY <2>1, <2>2, <2>3, <2>4, <1>2, <1>12, <1>14 DEF Changed
<1>16. RowsSound'
    <2>1. ASSUME NEW k \in Line
          PROVE  line'[k].approved <= Asked[k]
        BY <1>3, <1>9, <1>11 DEF ContentionIInv, RowsSound
    <2>2. ASSUME NEW k \in Line, res'[k].qty > 0
          PROVE  res'[k].id > 0
        <3>1. CASE k \in Gives(t) BY <3>1, <1>4, <1>14
        <3>2. CASE k \notin Gives(t) BY <3>2, <2>2, <1>4 DEF ContentionIInv, RowsSound
        <3> QED BY <3>1, <3>2
    <2> QED BY <2>1, <2>2 DEF RowsSound
<1>17. StockIsExact' BY <1>2 DEF ContentionIInv, StockIsExact
<1>18. CountsFollowMovements'
    <2>1. ASSUME NEW k \in Line
          PROVE  line'[k].issued = line[k].issued
        BY <1>9, <1>11
    <2> QED BY <2>1, <1>2, <1>12 DEF ContentionIInv, CountsFollowMovements
<1>19. ReservationsHeld'
    <2>1. ASSUME NEW k \in Line, line'[k].status = "rejected", res'[k].qty > 0
          PROVE  <<"line", k>> \in raced'
        <3>1. k # t.l BY <2>1, <1>9, <1>11
        <3> QED BY <2>1, <3>1, <1>4, <1>5, <1>11, <1>12 DEF ContentionIInv, ReservationsHeld
    <2>2. ASSUME NEW k \in Line
          PROVE  res'[k].qty <= Asked[k]
        BY <1>4 DEF ContentionIInv, ReservationsHeld
    <2> QED BY <2>1, <2>2 DEF ReservationsHeld
<1>20. t.op \notin OrderPage BY <1>2 DEF OrderPage
<1> QED BY <1>2, <1>13, <1>15, <1>16, <1>17, <1>18, <1>19, <1>20, CommitKeeps

\* purchase_order_receive commits.
LEMMA CommitReceiptSound ==
    ASSUME ContentionIInv, NEW x \in Conn, NEW t \in tx[x], CommitReceipt(x, t)
    PROVE  ContentionIInv'
<1>1. t \in TxRow /\ Local(t) /\ Global(t) /\ Tables BY UnderWay DEF ContentionIInv
<1>2. /\ t.op = "receive" /\ t.step = "take" /\ Commits(x, t)
      /\ item' = t.had + t.qty /\ stock' = t.on + t.qty /\ arrived' = arrived + t.qty
      /\ moved' = moved /\ res' = Inserted(t)
      /\ line' = [l \in Line |-> IF l \in Gives(t) THEN Allocated(t, l) ELSE line[l]]
      /\ raced' = raced \cup (UNION {LineRaced(l, t.rows[l]) : l \in Gives(t)})
                        \cup (IF t.had # item THEN {Item} ELSE {})
    BY DEF CommitReceipt, Received
<1>3. /\ line \in [Line -> LineRow] /\ t.had \in Nat /\ t.qty \in Nat /\ stock \in Nat
      /\ item \in Nat /\ arrived \in Nat /\ \A k \in Line : moved[k] \in Nat
    BY <1>1, TxFields DEF Tables
<1>4. /\ res' \in [Line -> Reservation]
      /\ \A k \in Line \ Gives(t) : res'[k] = res[k]
      /\ \A k \in Gives(t) : /\ res'[k].id = res[k].id + 1
                             /\ res'[k].qty = t.give[k]
                             /\ t.give[k] <= Asked[k]
                             /\ Older(res[k], res'[k])
                             /\ ResHeld(t, k)
    BY <1>1, <1>2, InsertedRows
<1>5. StockHeld(t) BY <1>2 DEF StockHeld, Allocating
<1>6. t.on = stock /\ t.had <= arrived BY <1>1, <1>5 DEF Global
<1>7. \A k \in Gives(t) : k \in Line BY DEF Gives
<1>8. ASSUME NEW k \in Line
      PROVE  /\ line'[k] \in LineRow
             /\ k \notin Gives(t) => line'[k] = line[k]
             /\ k \in Gives(t) => /\ line'[k].status \in {"approved", "allocated"}
                                  /\ t.rows[k] = line[k] => Earlier(line[k], line'[k])
             /\ line'[k].issued = line[k].issued /\ line'[k].approved = line[k].approved
    <2>1. CASE k \in Gives(t)
        <3>1. line'[k] = Allocated(t, k) BY <2>1, <1>2
        <3> QED BY <2>1, <3>1, <1>1, AllocatedRow
    <2>2. CASE k \notin Gives(t) BY <2>2, <1>2, <1>3
    <2> QED BY <2>1, <2>2
<1>9. line' \in [Line -> LineRow]
    <2>1. DOMAIN line' = Line /\ line' = [k \in Line |-> line'[k]] BY <1>2
    <2> QED BY <2>1, <1>8
<1>10. /\ raced \subseteq raced' /\ raced' \subseteq Resource \cup {Pr}
       /\ \A k \in Gives(t) : t.rows[k] # line[k] => <<"line", k>> \in raced'
       /\ t.had # item => Item \in raced'
    <2> DEFINE R == UNION {LineRaced(l, t.rows[l]) : l \in Gives(t)}
    <2>1. ASSUME NEW k \in Gives(t)
          PROVE  /\ LineRaced(k, t.rows[k]) \subseteq Resource
                 /\ t.rows[k] # line[k] => <<"line", k>> \in LineRaced(k, t.rows[k])
        <3>1. <<"line", k>> \in Resource BY <1>7, LocksDiffer
        <3> QED BY <3>1 DEF LineRaced
    <2>2. Item \in Resource BY LocksDiffer
    <2>3. raced \subseteq Resource \cup {Pr} BY <1>1 DEF Tables
    <2>4. R \subseteq Resource BY <2>1
    <2>5. \A k \in Gives(t) : t.rows[k] # line[k] => <<"line", k>> \in R BY <2>1
    <2> HIDE DEF R
    <2>6. raced' = raced \cup R \cup (IF t.had # item THEN {Item} ELSE {}) BY <1>2 DEF R
    <2> QED BY <2>2, <2>3, <2>4, <2>5, <2>6
<1>11. Tables'
    <2>1. tx' \in [Conn -> SUBSET TxRow] BY <1>1, <1>2 DEF Commits, Tables
    <2>2. stock' \in Nat /\ item' \in Nat /\ arrived' \in Nat BY <1>2, <1>3, <1>6
    <2> QED BY <1>1, <1>2, <1>4, <1>9, <1>10, <2>1, <2>2 DEF Commits, Tables
<1>12. \A k \in Line : res[k].id \in Nat /\ res[k].qty \in Nat
    BY <1>1 DEF Tables, Reservation
<1>13. Changed(x)
    <2>1. ASSUME NEW k \in Line
          PROVE  \/ <<"line", k>> \in raced'
                 \/ line'[k] = line[k] /\ res'[k] = res[k]
                 \/ Earlier(line[k], line'[k])
        BY <1>4, <1>8, <1>10
    <2>2. \A k \in Line : res'[k] = res[k] \/ Older(res[k], res'[k]) BY <1>4
    <2>3. \A k \in Line : res'[k].qty <= res[k].qty \/ ResHeld(t, k) BY <1>4, <1>12
    <2>4. arrived <= arrived' /\ pr.ordered <= pr'.ordered
        BY <1>1, <1>2, <1>3 DEF Commits, Tables, RequestRow
    <2> QED BY <2>1, <2>2, <2>3, <2>4, <1>2, <1>3, <1>5, <1>10 DEF Changed
<1>14. RowsSound'
    <2>1. \A k \in Line : line'[k].approved <= Asked[k] BY <1>8 DEF ContentionIInv, RowsSound
    <2>2. ASSUME NEW k \in Line, res'[k].qty > 0
          PROVE  res'[k].id > 0
        <3>1. CASE k \in Gives(t) BY <3>1, <1>4, <1>12
        <3>2. CASE k \notin Gives(t) BY <3>2, <2>2, <1>4 DEF ContentionIInv, RowsSound
        <3> QED BY <3>1, <3>2
    <2> QED BY <2>1, <2>2 DEF RowsSound
<1>15. StockIsExact'
    <2>1. stock = OnHand + arrived - Total(moved) BY DEF ContentionIInv, StockIsExact
    <2>2. Total(moved) \in Nat /\ OnHand \in Nat
        BY <1>1, ContentionAssumption, TotalType DEF Tables
    <2> QED BY <2>1, <2>2, <1>2, <1>3, <1>6 DEF StockIsExact
<1>16. CountsFollowMovements'
    <2>1. /\ item <= arrived
          /\ item = arrived \/ Item \in raced
          /\ \A l \in Line : line[l].issued <= moved[l]
          /\ \A l \in Line : line[l].issued = moved[l] \/ <<"line", l>> \in raced
        BY DEF ContentionIInv, CountsFollowMovements
    <2>2. item' <= arrived' BY <1>2, <1>3, <1>6
    <2>3. item' = arrived' \/ Item \in raced' BY <2>1, <1>2, <1>3, <1>10
    <2> QED BY <2>1, <2>2, <2>3, <1>2, <1>8, <1>10 DEF CountsFollowMovements
<1>17. ReservationsHeld'
    <2>1. ASSUME NEW k \in Line, line'[k].status = "rejected", res'[k].qty > 0
          PROVE  <<"line", k>> \in raced'
        <3>1. k \notin Gives(t) BY <2>1, <1>8
        <3> QED BY <2>1, <3>1, <1>4, <1>8, <1>10 DEF ContentionIInv, ReservationsHeld
    <2>2. \A k \in Line : res'[k].qty <= Asked[k]
        BY <1>4 DEF ContentionIInv, ReservationsHeld
    <2> QED BY <2>1, <2>2 DEF ReservationsHeld
<1>18. t.op \notin OrderPage BY <1>2 DEF OrderPage
<1> QED BY <1>2, <1>11, <1>13, <1>14, <1>15, <1>16, <1>17, <1>18, CommitKeeps

\* execute_warehouse_issue commits.
LEMMA CommitIssueSound ==
    ASSUME ContentionIInv, NEW x \in Conn, NEW t \in tx[x], CommitIssue(x, t)
    PROVE  ContentionIInv'
<1>1. t \in TxRow /\ Local(t) /\ Global(t) /\ Tables BY UnderWay DEF ContentionIInv
<1>2. /\ t.op = "issue" /\ t.step = "commit" /\ Commits(x, t)
      /\ stock' = t.on - t.qty /\ item' = item /\ arrived' = arrived
      /\ res' = Released(t, t.qty) /\ raced' = raced \cup LineRaced(t.l, t.saw)
      /\ line' = [line EXCEPT ![t.l].issued = t.saw.issued + t.qty, ![t.l].status = "issued"]
      /\ moved' = [moved EXCEPT ![t.l] = @ + t.qty]
    BY DEF CommitIssue
<1>3. /\ t.l \in Line /\ line \in [Line -> LineRow] /\ t.qty \in Nat /\ t.saw \in LineRow
      /\ stock \in Nat /\ moved \in [Line -> Nat] /\ arrived \in Nat
    BY <1>1, TxFields DEF Tables
<1>4. /\ res' \in [Line -> Reservation]
      /\ \A k \in Line : /\ res'[k] = res[k] \/ (Older(res[k], res'[k]) /\ ResHeld(t, k))
                         /\ res'[k].qty <= res[k].qty /\ res'[k].id = res[k].id
      /\ \A k \in Line \ {t.l} : res'[k] = res[k]
    BY <1>1, <1>2, <1>3, ReleasedRows
<1>5. StockHeld(t) BY <1>2 DEF StockHeld
<1>6. t.on = stock /\ t.qty <= stock /\ t.saw.issued <= moved[t.l] /\ t.saw.issued \in Nat
    BY <1>1, <1>2, <1>3, <1>5 DEF Global, LineRow
<1>7. /\ line' \in [Line -> LineRow] /\ line'[t.l].status = "issued"
      /\ line'[t.l].issued = t.saw.issued + t.qty /\ line'[t.l].approved = line[t.l].approved
      /\ \A k \in Line \ {t.l} : line'[k] = line[k]
    <2>1. PICK n : n = t.saw.issued + t.qty OBVIOUS
    <2>2. PICK new : new = [line[t.l] EXCEPT !.issued = n, !.status = "issued"] OBVIOUS
    <2>3. n \in Nat BY <1>3, <1>6, <2>1
    <2>4. line[t.l] \in LineRow BY <1>3
    <2>5. /\ new \in LineRow /\ new.status = "issued" /\ new.issued = n
          /\ new.approved = line[t.l].approved
        BY <2>2, <2>3, <2>4 DEF LineRow, LineStatus
    <2>6. line' = [line EXCEPT ![t.l] = new] BY <1>2, <1>3, <2>1, <2>2, <2>4 DEF LineRow
    <2> QED BY <1>3, <2>1, <2>5, <2>6
<1>8. moved' \in [Line -> Nat] /\ moved'[t.l] = moved[t.l] + t.qty
      /\ \A k \in Line \ {t.l} : moved'[k] = moved[k]
    BY <1>2, <1>3
<1>9. raced \subseteq raced' /\ raced' \subseteq Resource \cup {Pr}
      /\ (t.saw # line[t.l] => <<"line", t.l>> \in raced')
    <2>1. <<"line", t.l>> \in Resource BY <1>3, LocksDiffer
    <2> QED BY <2>1, <1>1, <1>2 DEF LineRaced, Tables
<1>10. Tables'
    <2>1. tx' \in [Conn -> SUBSET TxRow] BY <1>1, <1>2 DEF Commits, Tables
    <2>2. stock' \in Nat BY <1>2, <1>3, <1>6
    <2> QED BY <1>1, <1>2, <1>4, <1>7, <1>8, <1>9, <2>1, <2>2 DEF Commits, Tables
<1>11. \A k \in Line : res[k].id \in Nat /\ res[k].qty \in Nat /\ res'[k].qty \in Nat
    BY <1>1, <1>4 DEF Tables, Reservation
<1>12. Changed(x)
    <2>1. ASSUME NEW k \in Line
          PROVE  \/ <<"line", k>> \in raced'
                 \/ line'[k] = line[k] /\ res'[k] = res[k]
                 \/ Earlier(line[k], line'[k])
        <3>1. CASE k # t.l BY <3>1, <1>4, <1>7
        <3>2. CASE k = t.l /\ t.saw = line[k]
            <4>1. t.saw.status \in Active BY <1>1, <1>2 DEF Local, Protocol
            <4> QED BY <3>2, <4>1, <1>7 DEF Earlier, Phase, Active
        <3> QED BY <3>1, <3>2, <1>9
    <2>2. \A k \in Line : moved[k] <= moved'[k] BY <1>3, <1>8
    <2>3. arrived <= arrived' /\ pr.ordered <= pr'.ordered
        BY <1>1, <1>2 DEF Commits, Tables, RequestRow
    <2> QED BY <2>1, <2>2, <2>3, <1>4, <1>5, <1>9 DEF Changed
<1>13. RowsSound'
    <2>1. \A k \in Line : line'[k].approved <= Asked[k] BY <1>7 DEF ContentionIInv, RowsSound
    <2>2. \A k \in Line : res'[k].qty > 0 => res'[k].id > 0
        BY <1>4, <1>11 DEF ContentionIInv, RowsSound
    <2> QED BY <2>1, <2>2 DEF RowsSound
<1>14. StockIsExact'
    <2>1. stock = OnHand + arrived - Total(moved) BY DEF ContentionIInv, StockIsExact
    <2>2. IsFiniteSet(Line) /\ OnHand \in Nat BY ContentionAssumption
    <2>3. AgreeOn(moved, moved', Line \ {t.l}) BY <1>8 DEF AgreeOn
    <2>4. Total(moved') + moved[t.l] = Total(moved) + moved'[t.l]
        BY <1>3, <1>8, <2>2, <2>3, TotalUpdate
    <2>5. Total(moved) \in Nat /\ Total(moved') \in Nat BY <1>3, <1>8, <2>2, TotalType
    <2>6. moved[t.l] \in Nat BY <1>3
    <2>7. Total(moved') = Total(moved) + t.qty BY <1>3, <1>8, <2>4, <2>5, <2>6
    <2> QED BY <2>1, <2>2, <2>5, <2>7, <1>2, <1>3, <1>6 DEF StockIsExact
<1>15. CountsFollowMovements'
    <2>1. /\ item <= arrived
          /\ item = arrived \/ Item \in raced
          /\ \A l \in Line : line[l].issued <= moved[l]
          /\ \A l \in Line : line[l].issued = moved[l] \/ <<"line", l>> \in raced
        BY DEF ContentionIInv, CountsFollowMovements
    <2>2. moved[t.l] \in Nat BY <1>3
    <2>3. line'[t.l].issued <= moved'[t.l] BY <1>3, <1>6, <1>7, <1>8, <2>2
    <2>4. line'[t.l].issued = moved'[t.l] \/ <<"line", t.l>> \in raced'
        BY <1>3, <1>7, <1>8, <1>9, <2>1
    <2> QED BY <2>1, <2>3, <2>4, <1>2, <1>7, <1>8, <1>9 DEF CountsFollowMovements
<1>16. ReservationsHeld'
    <2>1. ASSUME NEW k \in Line, line'[k].status = "rejected", res'[k].qty > 0
          PROVE  <<"line", k>> \in raced'
        <3>1. k # t.l BY <2>1, <1>7
        <3> QED BY <2>1, <3>1, <1>4, <1>7, <1>9 DEF ContentionIInv, ReservationsHeld
    <2>2. ASSUME NEW k \in Line
          PROVE  res'[k].qty <= Asked[k]
        <3>1. res[k].qty <= Asked[k] BY DEF ContentionIInv, ReservationsHeld
        <3>2. Asked[k] \in Nat BY ContentionAssumption
        <3> QED BY <3>1, <3>2, <1>4, <1>11
    <2> QED BY <2>1, <2>2 DEF ReservationsHeld
<1>17. t.op \notin OrderPage BY <1>2 DEF OrderPage
<1> QED BY <1>2, <1>10, <1>12, <1>13, <1>14, <1>15, <1>16, <1>17, CommitKeeps

\* cancel_approved_part_request commits.
LEMMA CommitCancelSound ==
    ASSUME ContentionIInv, NEW x \in Conn, NEW t \in tx[x], CommitCancel(x, t)
    PROVE  ContentionIInv'
<1>1. t \in TxRow /\ Local(t) /\ Global(t) /\ Tables BY UnderWay DEF ContentionIInv
<1>2. /\ t.op = "cancel" /\ t.step = "commit" /\ Commits(x, t)
      /\ stock' = stock /\ item' = item /\ moved' = moved /\ arrived' = arrived
      /\ res' = Released(t, res[t.l].qty) /\ raced' = raced \cup LineRaced(t.l, t.saw)
      /\ line' = [line EXCEPT ![t.l].status = "rejected", ![t.l].approved = 0, ![t.l].issued = 0]
    BY DEF CommitCancel
<1>3. t.l \in Line /\ line \in [Line -> LineRow] /\ moved \in [Line -> Nat] /\ arrived \in Nat
    BY <1>1, TxFields DEF Tables
<1>4. res[t.l] \in Reservation /\ res[t.l].qty \in Nat BY <1>1, <1>3 DEF Tables, Reservation
<1>5. /\ res' \in [Line -> Reservation]
      /\ \A k \in Line : /\ res'[k] = res[k] \/ (Older(res[k], res'[k]) /\ ResHeld(t, k))
                         /\ res'[k].qty <= res[k].qty /\ res'[k].id = res[k].id
      /\ \A k \in Line \ {t.l} : res'[k] = res[k]
      /\ t.id # 0 /\ res[t.l].id = t.id => res'[t.l].qty = 0
    BY <1>1, <1>2, <1>4, ReleasedRows
<1>6. /\ line' \in [Line -> LineRow] /\ line'[t.l].status = "rejected"
      /\ line'[t.l].issued = 0 /\ line'[t.l].approved = 0
      /\ \A k \in Line \ {t.l} : line'[k] = line[k]
    <2>1. PICK new : new = [line[t.l] EXCEPT !.status = "rejected", !.approved = 0, !.issued = 0]
        OBVIOUS
    <2>2. line[t.l] \in LineRow BY <1>3
    <2>3. new \in LineRow /\ new.status = "rejected" /\ new.issued = 0 /\ new.approved = 0
        BY <2>1, <2>2 DEF LineRow, LineStatus
    <2>4. line' = [line EXCEPT ![t.l] = new] BY <1>2, <1>3, <2>1, <2>2 DEF LineRow
    <2> QED BY <1>3, <2>3, <2>4
<1>7. raced \subseteq raced' /\ raced' \subseteq Resource \cup {Pr}
      /\ (t.saw # line[t.l] => <<"line", t.l>> \in raced')
    <2>1. <<"line", t.l>> \in Resource BY <1>3, LocksDiffer
    <2> QED BY <2>1, <1>1, <1>2 DEF LineRaced, Tables
<1>8. Tables'
    <2>1. tx' \in [Conn -> SUBSET TxRow] BY <1>1, <1>2 DEF Commits, Tables
    <2> QED BY <1>1, <1>2, <1>5, <1>6, <1>7, <2>1 DEF Commits, Tables
<1>9. \A k \in Line : /\ res[k].id \in Nat /\ res[k].qty \in Nat /\ res'[k].qty \in Nat
                      /\ moved[k] \in Nat
    BY <1>1, <1>3, <1>5 DEF Tables, Reservation
<1>10. Changed(x)
    <2>1. ASSUME NEW k \in Line
          PROVE  \/ <<"line", k>> \in raced'
                 \/ line'[k] = line[k] /\ res'[k] = res[k]
                 \/ Earlier(line[k], line'[k])
        <3>1. CASE k # t.l BY <3>1, <1>5, <1>6
        <3>2. CASE k = t.l /\ t.saw = line[k]
            <4>1. t.saw.status \in Active BY <1>1, <1>2 DEF Local, Protocol
            <4> QED BY <3>2, <4>1, <1>6 DEF Earlier, Phase, Active
        <3> QED BY <3>1, <3>2, <1>7
    <2>2. arrived <= arrived' /\ pr.ordered <= pr'.ordered
        BY <1>1, <1>2 DEF Commits, Tables, RequestRow
    <2>3. \A k \in Line : moved[k] <= moved'[k] BY <1>2, <1>9
    <2>4. stock' = stock BY <1>2
    <2> QED BY <2>1, <2>2, <2>3, <2>4, <1>5, <1>7 DEF Changed
<1>11. RowsSound'
    <2>1. ASSUME NEW k \in Line
          PROVE  line'[k].approved <= Asked[k]
        <3>1. Asked[k] \in Nat BY ContentionAssumption
        <3> QED BY <3>1, <1>6 DEF ContentionIInv, RowsSound
    <2>2. \A k \in Line : res'[k].qty > 0 => res'[k].id > 0
        BY <1>5, <1>9 DEF ContentionIInv, RowsSound
    <2> QED BY <2>1, <2>2 DEF RowsSound
<1>12. StockIsExact' BY <1>2 DEF ContentionIInv, StockIsExact
<1>13. CountsFollowMovements'
    <2>1. /\ item <= arrived
          /\ item = arrived \/ Item \in raced
          /\ \A l \in Line : line[l].issued <= moved[l]
          /\ \A l \in Line : line[l].issued = moved[l] \/ <<"line", l>> \in raced
        BY DEF ContentionIInv, CountsFollowMovements
    <2>2. line'[t.l].issued <= moved'[t.l] BY <1>2, <1>3, <1>6, <1>9
    <2>3. line'[t.l].issued = moved'[t.l] \/ <<"line", t.l>> \in raced'
        <3>1. t.saw.issued = 0 BY <1>1, <1>2 DEF Local, Protocol
        <3> QED BY <3>1, <1>2, <1>3, <1>6, <1>7, <2>1
    <2> QED BY <2>1, <2>2, <2>3, <1>2, <1>6, <1>7 DEF CountsFollowMovements
<1>14. ReservationsHeld'
    <2>1. ASSUME NEW k \in Line, line'[k].status = "rejected", res'[k].qty > 0
          PROVE  <<"line", k>> \in raced'
        <3>1. CASE k # t.l
            BY <2>1, <3>1, <1>5, <1>6, <1>7 DEF ContentionIInv, ReservationsHeld
        <3>2. CASE k = t.l /\ t.saw = line[k] /\ <<"line", k>> \notin raced
            <4>1. IF t.id = 0 THEN res[t.l].qty = 0 ELSE res[t.l].id = t.id
                BY <3>2, <1>1, <1>2 DEF Global, FoundIt
            <4>2. res'[t.l].qty = 0
                <5>1. CASE t.id = 0 BY <5>1, <4>1, <1>3, <1>5, <1>9
                <5>2. CASE t.id # 0 BY <5>2, <4>1, <1>5
                <5> QED BY <5>1, <5>2
            <4> QED BY <2>1, <3>2, <4>2
        <3> QED BY <3>1, <3>2, <1>7
    <2>2. ASSUME NEW k \in Line
          PROVE  res'[k].qty <= Asked[k]
        <3>1. res[k].qty <= Asked[k] BY DEF ContentionIInv, ReservationsHeld
        <3>2. Asked[k] \in Nat BY ContentionAssumption
        <3> QED BY <3>1, <3>2, <1>5, <1>9
    <2> QED BY <2>1, <2>2 DEF ReservationsHeld
<1>15. t.op \notin OrderPage BY <1>2 DEF OrderPage
<1> QED BY <1>2, <1>8, <1>10, <1>11, <1>12, <1>13, <1>14, <1>15, CommitKeeps

-------------------------------------------------------------------------------
(***************************************************************************)
(* purchase_order_create, and whatever ends early.                         *)
(***************************************************************************)
\* The rows other than the request stay, and overlaps are remembered.
RequestOnly(x, t) ==
    /\ t \in tx[x]
    /\ UNCHANGED <<stock, line, res, item, begun, moved, arrived>>
    /\ raced \subseteq raced' /\ raced' \subseteq Resource \cup {Pr}
    /\ pr' \in RequestRow /\ pr.ordered <= pr'.ordered

\* Then only the request itself is left to be looked at.
LEMMA RequestKeeps ==
    ASSUME ContentionIInv, NEW x \in Conn, NEW t, RequestOnly(x, t),
           tx' \in [Conn -> SUBSET TxRow], Serves(x), Ordering'
    PROVE  ContentionIInv'
<1>1. /\ stock' = stock /\ line' = line /\ res' = res /\ item' = item /\ begun' = begun
      /\ moved' = moved /\ arrived' = arrived /\ raced \subseteq raced'
      /\ raced' \subseteq Resource \cup {Pr}
      /\ pr' \in RequestRow /\ pr.ordered <= pr'.ordered
    BY DEF RequestOnly
<1>2. Tables /\ Sessions BY DEF ContentionIInv
<1>3. Tables' BY <1>1, <1>2 DEF Tables
<1>4. Changed(x)
    <2>1. \A k \in Line : moved[k] \in Nat /\ res[k].qty \in Nat
        BY <1>2 DEF Tables, Reservation
    <2>2. arrived \in Nat BY <1>2 DEF Tables
    <2> QED BY <1>1, <2>1, <2>2 DEF Changed
<1>5. Sessions' BY <1>2, <1>3, <1>4, SessionsKept
<1>6. RowsSound' BY <1>1 DEF ContentionIInv, RowsSound
<1>7. StockIsExact' BY <1>1 DEF ContentionIInv, StockIsExact
<1>8. CountsFollowMovements' BY <1>1 DEF ContentionIInv, CountsFollowMovements
<1>9. ReservationsHeld' BY <1>1 DEF ContentionIInv, ReservationsHeld
<1> QED BY <1>3, <1>5, <1>6, <1>7, <1>8, <1>9 DEF ContentionIInv

\* The order and its item are saved.
LEMMA OrderItemSound ==
    ASSUME ContentionIInv, NEW x \in Conn, NEW t \in tx[x], OrderItem(x, t)
    PROVE  ContentionIInv'
<1>1. t \in TxRow /\ Local(t) /\ Global(t) BY UnderWay
<1>2. Tables /\ Sessions /\ Ordering BY DEF ContentionIInv
<1>3. /\ t.op \in OrderPage /\ t.step = "read"
      /\ pr' = [pr EXCEPT !.ordered = @ + 1,
                          !.again = IF t.op = "again" /\ t.req.status = "converted" THEN @ + 1 ELSE @]
      /\ stock' = stock /\ line' = line /\ res' = res /\ item' = item /\ begun' = begun
      /\ moved' = moved /\ arrived' = arrived /\ raced' = raced \cup PrRaced(t)
    BY DEF OrderItem
<1>4. /\ pr \in RequestRow /\ pr.ordered \in Nat /\ pr.again \in Nat /\ t.req \in RequestRow
      /\ pr.status \in {"pending", "converted"}
    BY <1>1, <1>2, TxFields DEF Tables, RequestRow
<1>5. /\ pr' \in RequestRow /\ pr'.ordered = pr.ordered + 1 /\ pr'.status = pr.status
      /\ pr'.again = IF t.op = "again" /\ t.req.status = "converted" THEN pr.again + 1 ELSE pr.again
    <2>1. PICK n \in Nat :
              n = IF t.op = "again" /\ t.req.status = "converted" THEN pr.again + 1 ELSE pr.again
        BY <1>4
    <2>2. pr' = [pr EXCEPT !.ordered = pr.ordered + 1, !.again = n] BY <1>3, <2>1
    <2>3. pr = [status |-> pr.status, ordered |-> pr.ordered, again |-> pr.again]
        BY <1>4 DEF RequestRow
    <2>4. pr' = [status |-> pr.status, ordered |-> pr.ordered + 1, again |-> n] BY <2>2, <2>3
    <2> QED BY <1>4, <2>1, <2>4 DEF RequestRow
<1>6. PICK v : v = [t EXCEPT !.step = "saved", !.req = pr'] OBVIOUS
<1>7. tx' = [tx EXCEPT ![x] = {v}] BY <1>6 DEF OrderItem
<1>8. /\ v \in TxRow /\ v.op = t.op /\ v.step = "saved" /\ v.req = pr' /\ v.l = t.l
      /\ v.saw = t.saw /\ v.had = t.had /\ v.todo = t.todo /\ v.grant = t.grant /\ v.give = t.give
      /\ v.books = t.books /\ v.rows = t.rows /\ v.locks = t.locks
    BY <1>1, <1>3, <1>5, <1>6 DEF TxRow, Steps
<1>9. raced \subseteq raced' /\ raced' \subseteq Resource \cup {Pr} /\ (t.req # pr => Pr \in raced')
    BY <1>2, <1>3 DEF PrRaced, Tables
<1>10. RequestOnly(x, t)
    BY <1>3, <1>4, <1>5, <1>9 DEF RequestOnly
<1>11. tx' \in [Conn -> SUBSET TxRow] /\ tx'[x] = {v} /\ \A y \in Conn \ {x} : tx'[y] = tx[y]
    BY <1>2, <1>7, <1>8 DEF Tables
<1>12. Giving(v) /\ v.books = {} /\ \A k \in Line : v.give[k] = 0
    BY <1>1, <1>3, <1>8 DEF Local, Giving, Allocates, Allocating, OrderPage
<1>13. /\ \A k \in Line : ~ LineHeld(v, k) /\ ~ ResHeld(v, k)
       /\ ~ StockHeld(v) /\ ~ ItemHeld(v)
    BY <1>3, <1>8, <1>12 DEF LineHeld, ResHeld, StockHeld, ItemHeld, OrderPage
<1>14. /\ \A k \in Line : ~ LineHeld(t, k) /\ ~ ResHeld(t, k)
       /\ ~ StockHeld(t) /\ ~ ItemHeld(t)
    BY <1>3, <1>8, <1>12 DEF LineHeld, ResHeld, StockHeld, ItemHeld, OrderPage
<1>15. Local(v)
    BY <1>1, <1>3, <1>8, <1>12, <1>13, <1>14 DEF Local, Protocol, Locking, OrderPage, Elsewhere
<1>16. Global(v)'
    <2>1. FoundIt(v)' BY <1>3, <1>8 DEF FoundIt, OrderPage
    <2>2. BooksSound(v)' BY <1>12 DEF BooksSound
    <2>3. v.req.ordered \in 1..pr'.ordered BY <1>4, <1>5, <1>8
    <2> QED BY <2>1, <2>2, <2>3, <1>1, <1>3, <1>8, <1>9, <1>12, <1>13 DEF Global
<1>17. Serves(x) BY <1>11, <1>13, <1>15, <1>16 DEF Serves, Apart
<1>18. Ordering'
    <2>1. pr'.again <= pr'.ordered /\ pr'.ordered > 0
        BY <1>2, <1>4, <1>5 DEF Ordering
    <2>2. ASSUME NEW y \in Conn, NEW u \in tx[y], u.op \in OrderPage, u.step = "saved"
          PROVE  u \in tx'[y] /\ u.req.ordered < pr'.ordered
        <3>1. y # x BY <2>2, <1>2, <1>3 DEF Sessions
        <3>2. u \in TxRow /\ Global(u) BY UnderWay
        <3>3. u.req.ordered \in 1..pr.ordered BY <2>2, <3>2 DEF Global
        <3> QED BY <3>1, <3>3, <1>4, <1>5, <1>11
    <2>3. CASE Pr \in raced' BY <2>1, <2>3 DEF Ordering
    <2>4. CASE Pr \notin raced' /\ pr.status = "pending"
        <3>1. t.req.status = "pending" BY <2>4, <1>9
        <3>2. CASE pr.ordered = 0
            <4>1. pr'.ordered = 1 + pr'.again BY <3>1, <3>2, <1>2, <1>4, <1>5 DEF Ordering
            <4>2. v \in tx'[x] /\ v.op \in OrderPage /\ v.step = "saved" BY <1>3, <1>8, <1>11
            <4> QED BY <4>1, <4>2, <2>1, <2>4, <1>5 DEF Ordering
        <3>3. CASE pr.ordered > 0
            <4>1. PICK y \in Conn : \E u \in tx[y] : u.op \in OrderPage /\ u.step = "saved"
                BY <3>3, <2>4, <1>2, <1>9 DEF Ordering
            <4>2. PICK u \in tx[y] : u.op \in OrderPage /\ u.step = "saved" BY <4>1
            <4> QED BY <4>2, <2>1, <2>2, <2>4, <1>5 DEF Ordering
        <3> QED BY <3>2, <3>3, <1>4
    <2>5. CASE Pr \notin raced' /\ pr.status = "converted"
        <3>1. t.req.status = "converted" BY <2>5, <1>9
        <3>2. t.op = "again" BY <3>1, <1>1, <1>3 DEF Global, OrderPage
        <3>3. pr'.again = pr.again + 1 BY <3>1, <3>2, <1>5
        <3>4. pr.ordered > 0 BY <2>5, <1>2 DEF Ordering
        <3>5. CASE pr.ordered = 1 + pr.again
            <4>1. pr'.ordered = 1 + pr'.again /\ pr'.status = "converted"
                BY <3>3, <3>5, <2>5, <1>4, <1>5
            <4> QED BY <4>1, <2>1 DEF Ordering
        <3>6. CASE pr.ordered # 1 + pr.again
            <4>1. PICK y \in Conn : \E u \in tx[y] : u.op \in OrderPage /\ u.step = "saved"
                BY <3>4, <3>6, <2>5, <1>2, <1>9 DEF Ordering
            <4>2. PICK u \in tx[y] : u.op \in OrderPage /\ u.step = "saved" BY <4>1
            <4> QED BY <4>2, <2>1, <2>2 DEF Ordering
        <3> QED BY <3>5, <3>6
    <2> QED BY <2>3, <2>4, <2>5, <1>4
<1> QED BY <1>10, <1>11, <1>17, <1>18, RequestKeeps

\* The request is marked.
LEMMA MarkRequestSound ==
    ASSUME ContentionIInv, NEW x \in Conn, NEW t \in tx[x], MarkRequest(x, t)
    PROVE  ContentionIInv'
<1>1. t \in TxRow /\ Global(t) BY UnderWay
<1>2. Tables /\ Sessions /\ Ordering BY DEF ContentionIInv
<1>3. /\ t.op \in OrderPage /\ t.step = "saved" /\ pr' = [pr EXCEPT !.status = "converted"]
      /\ stock' = stock /\ line' = line /\ res' = res /\ item' = item /\ begun' = begun
      /\ moved' = moved /\ arrived' = arrived /\ raced' = raced \cup PrRaced(t)
      /\ tx' = [tx EXCEPT ![x] = {}]
    BY DEF MarkRequest
<1>4. pr \in RequestRow /\ pr.ordered \in Nat BY <1>2 DEF Tables, RequestRow
<1>5. /\ pr' \in RequestRow /\ pr'.ordered = pr.ordered /\ pr'.again = pr.again
      /\ pr'.status = "converted"
    BY <1>3, <1>4 DEF RequestRow
<1>6. raced \subseteq raced' /\ raced' \subseteq Resource \cup {Pr} /\ (t.req # pr => Pr \in raced')
    BY <1>2, <1>3 DEF PrRaced, Tables
<1>7. RequestOnly(x, t) BY <1>3, <1>4, <1>5, <1>6 DEF RequestOnly
<1>8. tx' \in [Conn -> SUBSET TxRow] /\ tx'[x] = {} /\ \A y \in Conn \ {x} : tx'[y] = tx[y]
    BY <1>2, <1>3 DEF Tables
<1>9. Serves(x) BY <1>8 DEF Serves
<1>10. pr.ordered > 0
    <2>1. t.req.ordered \in 1..pr.ordered BY <1>1, <1>3 DEF Global
    <2> QED BY <2>1, <1>4
<1>11. Ordering'
    <2>0. pr'.again <= pr'.ordered BY <1>2, <1>5 DEF Ordering
    <2>1. CASE Pr \in raced' BY <2>0, <2>1, <1>5, <1>10 DEF Ordering
    <2>2. CASE pr.ordered = 1 + pr.again BY <2>0, <2>2, <1>5, <1>10 DEF Ordering
    <2>3. CASE Pr \notin raced' /\ pr.ordered # 1 + pr.again
        <3>1. PICK y \in Conn : \E u \in tx[y] : /\ u.op \in OrderPage /\ u.step = "saved"
                                                 /\ u.req.ordered < pr.ordered
            BY <2>3, <1>2, <1>6, <1>10 DEF Ordering
        <3>2. PICK u \in tx[y] : /\ u.op \in OrderPage /\ u.step = "saved"
                                 /\ u.req.ordered < pr.ordered
            BY <3>1
        <3>3. t.req = pr BY <2>3, <1>6
        <3>4. u # t BY <3>2, <3>3, <1>4
        <3>5. y # x BY <3>2, <3>4, <1>2 DEF Sessions
        <3> QED BY <3>2, <3>5, <2>0, <1>5, <1>8, <1>10 DEF Ordering
    <2> QED BY <2>1, <2>2, <2>3
<1> QED BY <1>7, <1>8, <1>9, <1>11, RequestKeeps

\* A request is refused, fails or is cut off.
LEMMA DropSound ==
    ASSUME ContentionIInv, NEW x \in Conn, NEW t \in tx[x], Drop(x, t)
    PROVE  ContentionIInv'
<1>1. Tables /\ Sessions /\ Ordering BY DEF ContentionIInv
<1>2. /\ stock' = stock /\ line' = line /\ res' = res /\ item' = item /\ begun' = begun
      /\ moved' = moved /\ arrived' = arrived /\ pr' = pr /\ tx' = [tx EXCEPT ![x] = {}]
      /\ raced' = raced \cup (IF t.op \in OrderPage /\ t.step = "saved" THEN {Pr} ELSE {})
    BY DEF Drop
<1>3. pr \in RequestRow /\ pr.ordered \in Nat BY <1>1 DEF Tables, RequestRow
<1>4. /\ raced \subseteq raced' /\ raced' \subseteq Resource \cup {Pr}
      /\ t.op \in OrderPage /\ t.step = "saved" => Pr \in raced'
    BY <1>1, <1>2 DEF Tables
<1>5. RequestOnly(x, t) BY <1>2, <1>3, <1>4 DEF RequestOnly
<1>6. tx' \in [Conn -> SUBSET TxRow] /\ tx'[x] = {} /\ \A y \in Conn \ {x} : tx'[y] = tx[y]
    BY <1>1, <1>2 DEF Tables
<1>7. Serves(x) BY <1>6 DEF Serves
<1>8. Ordering'
    <2>1. CASE t.op \in OrderPage /\ t.step = "saved" BY <2>1, <1>1, <1>2, <1>4 DEF Ordering
    <2>2. CASE ~ (t.op \in OrderPage /\ t.step = "saved")
        <3>1. ASSUME NEW y \in Conn, NEW u \in tx[y], u.op \in OrderPage, u.step = "saved"
              PROVE  u \in tx'[y]
            <4>1. y # x BY <1>1, <2>2, <3>1 DEF Sessions
            <4> QED BY <4>1, <1>6, <3>1
        <3> QED BY <3>1, <1>1, <1>2, <1>4 DEF Ordering
    <2> QED BY <2>1, <2>2
<1> QED BY <1>5, <1>6, <1>7, <1>8, RequestKeeps

-------------------------------------------------------------------------------
(***************************************************************************)
(* The theorems.                                                           *)
(***************************************************************************)
\* Nobody has asked for anything yet.
LEMMA StartSound == ContentionInit => ContentionIInv
<1> SUFFICES ASSUME ContentionInit PROVE ContentionIInv OBVIOUS
<1> USE DEF ContentionInit
<1>1. {OnHand, MaxOps} \subseteq Nat /\ IsFiniteSet(Line) /\ \A l \in Line : Asked[l] \in Nat \ {0}
    BY ContentionAssumption
<1>2. \A x \in Conn : tx[x] = {} OBVIOUS
<1>3. Tables
    <2>1. line \in [Line -> LineRow] BY DEF LineRow, LineStatus
    <2>2. res \in [Line -> Reservation] BY DEF Reservation
    <2>3. tx \in [Conn -> SUBSET TxRow] OBVIOUS
    <2>4. pr \in RequestRow BY DEF RequestRow
    <2>5. moved \in [Line -> Nat] /\ begun \in 0..MaxOps BY <1>1
    <2> QED BY <1>1, <2>1, <2>2, <2>3, <2>4, <2>5 DEF Tables
<1>4. RowsSound BY <1>1 DEF RowsSound
<1>5. Sessions BY <1>2 DEF Sessions
<1>6. StockIsExact
    <2>1. moved \in [Line -> Nat] /\ \A l \in Line : moved[l] = 0 OBVIOUS
    <2>2. Total(moved) = 0 BY <2>1, TotalNone
    <2> QED BY <1>1, <2>2 DEF StockIsExact
<1>7. CountsFollowMovements BY DEF CountsFollowMovements
<1>8. ReservationsHeld BY <1>1 DEF ReservationsHeld
<1>9. Ordering BY DEF Ordering
<1> QED BY <1>3, <1>4, <1>5, <1>6, <1>7, <1>8, <1>9 DEF ContentionIInv

\* The invariant is kept by every step, whoever takes it.
LEMMA ContentionStep == ContentionIInv /\ [ContentionNext]_svars => ContentionIInv'
<1> SUFFICES ASSUME ContentionIInv, [ContentionNext]_svars PROVE ContentionIInv'
    OBVIOUS
<1>1. ASSUME NEW x \in Conn, NEW op \in Op, NEW l \in Line, NEW q \in 1..MaxUnits, Begin(x, op, l, q)
      PROVE  ContentionIInv'
    BY <1>1, BeginSound
<1>2. ASSUME NEW x \in Conn, NEW t \in tx[x],
             \/ LockLine(x, t) \/ Take(x, t) \/ Update(x, t) \/ Insert(x, t) \/ InsertFails(x, t)
      PROVE  ContentionIInv'
    BY <1>2, LockLineSound, TakeSound, UpdateSound, InsertSound, InsertFailsSound
<1>3. ASSUME NEW x \in Conn, NEW t \in tx[x],
             \/ LockStock(x, t) \/ FindReservation(x, t) \/ Release(x, t) \/ WriteLine(x, t)
             \/ SaveInvoice(x, t) \/ SaveItem(x, t) \/ StockIn(x, t) \/ LockJob(x, t)
             \/ Recompute(x, t)
      PROVE  ContentionIInv'
    BY <1>3, LockStockSound, FindReservationSound, ReleaseSound, WriteLineSound, SaveInvoiceSound,
       SaveItemSound, StockInSound, LockJobSound, RecomputeSound
<1>4. ASSUME NEW x \in Conn, NEW t \in tx[x],
             \/ CommitApproval(x, t) \/ CommitIssue(x, t) \/ CommitCancel(x, t)
             \/ CommitReceipt(x, t) \/ CommitElsewhere(x, t)
             \/ OrderItem(x, t) \/ MarkRequest(x, t) \/ Drop(x, t)
      PROVE  ContentionIInv'
    BY <1>4, CommitApprovalSound, CommitIssueSound, CommitCancelSound, CommitReceiptSound,
       CommitElsewhereSound, OrderItemSound, MarkRequestSound, DropSound
<1>5. CASE UNCHANGED svars
    <2>1. /\ stock' = stock /\ line' = line /\ res' = res /\ item' = item /\ pr' = pr /\ tx' = tx
          /\ begun' = begun /\ moved' = moved /\ arrived' = arrived /\ raced' = raced
        BY <1>5 DEF svars
    <2>2. Reserved' = Reserved BY <2>1 DEF Reserved
    <2>3. \A t : Global(t) => Global(t)'
        BY <2>1, <2>2 DEF Global, FoundIt, BooksSound, Covered
    <2>4. Sessions' BY <2>1, <2>3 DEF ContentionIInv, Sessions
    <2>5. Tables' BY <2>1 DEF ContentionIInv, Tables
    <2>6. RowsSound' BY <2>1 DEF ContentionIInv, RowsSound
    <2>7. StockIsExact' BY <2>1 DEF ContentionIInv, StockIsExact
    <2>8. CountsFollowMovements' BY <2>1 DEF ContentionIInv, CountsFollowMovements
    <2>9. ReservationsHeld' BY <2>1 DEF ContentionIInv, ReservationsHeld
    <2>10. Ordering' BY <2>1 DEF ContentionIInv, Ordering
    <2> QED BY <2>4, <2>5, <2>6, <2>7, <2>8, <2>9, <2>10 DEF ContentionIInv
<1> QED BY <1>1, <1>2, <1>3, <1>4, <1>5 DEF ContentionNext

\* Whatever requests overlap, the locks keep the sessions apart, every copy is
\* current or overtaken, and every grant is backed by the books it was read from.
THEOREM ContentionInvariance == ContentionSpec => []ContentionIInv
<1> QED BY StartSound, ContentionStep, PTL DEF ContentionSpec

\* A session serves one request, and its transaction has its type.
LEMMA TypesHold == ContentionIInv => ContentionTypeOK
<1> SUFFICES ASSUME ContentionIInv PROVE ContentionTypeOK OBVIOUS
<1>1. Tables /\ Sessions BY DEF ContentionIInv
<1>2. ASSUME NEW x \in Conn
      PROVE  Cardinality(tx[x]) <= 1
    <2>1. CASE tx[x] = {} BY <2>1, FS_EmptySet
    <2>2. CASE tx[x] # {}
        <3>1. PICK t : t \in tx[x] BY <2>2
        <3>2. tx[x] = {t} BY <1>1, <3>1 DEF Sessions
        <3>3. Cardinality({t}) = 1 BY FS_Singleton
        <3> QED BY <3>2, <3>3
    <2> QED BY <2>1, <2>2
<1>3. ASSUME NEW x \in Conn, NEW t \in tx[x]
      PROVE  TxTypeOK(t)
    <2>1. t \in TxRow BY UnderWay
    <2>2. /\ t.op \in Op /\ t.step \in Steps /\ t.locks \subseteq Resource
          /\ {t.qty, t.on, t.grant} \subseteq Nat /\ t.give \in [Line -> Nat]
        BY <2>1, TxFields
    <2> QED BY <2>2 DEF TxTypeOK, Steps, Allocating
<1> QED BY <1>1, <1>2, <1>3 DEF ContentionTypeOK, Tables

\* Stock is exact however approvals, issues, cancellations, receipts and orders
\* of one part interleave; lines, items and reservations follow the movements
\* unless requests on that row overlapped.
THEOREM StockSurvivesRaces == ContentionSpec => []ContentionInv
<1>1. ContentionIInv => ContentionInv
    BY TypesHold DEF ContentionIInv, ContentionInv
<1> QED BY <1>1, ContentionInvariance, PTL

\* The units of a purchase request are ordered once and it is marked, and then only
\* by those who order it again from its own page, unless two orders took it at the
\* same time or one was cut off before marking it.
THEOREM OrdersAreTakenOnce == ContentionSpec => []OrderedOnce
<1>1. ContentionIInv => OrderedOnce
    BY DEF ContentionIInv, Ordering, OrderedOnce
<1> QED BY <1>1, ContentionInvariance, PTL

-------------------------------------------------------------------------------
(***************************************************************************)
(* Deadlock.                                                               *)
(***************************************************************************)
\* Who can hold the purchase order, a work order or a cost card.
OrderHeld(t) == t.op = "receive" /\ t.step # "invoice"

JobHeld(t, k) ==
    /\ k = t.l
    /\ \/ t.op = "urgent" /\ t.step = "saved"
       \/ t.op \notin CardFirst /\ t.step = "commit"

CardHeld(t, k) == k = t.l /\ t.op \in CardFirst /\ t.step = "commit"

Ending(t) ==
    /\ Order \in t.locks => OrderHeld(t)
    /\ \A k : <<"wo", k>> \in t.locks => JobHeld(t, k)
    /\ \A k : <<"card", k>> \in t.locks => CardHeld(t, k)

EndInv == \A x \in Conn : \A t \in tx[x] : Ending(t)

\* From t to v a request goes on: it takes the locks it needed, and is at its end
\* when it has locked the first of the rows that it leaves to the end.
GoesOn(t, v) ==
    /\ v.op = t.op /\ v.l = t.l /\ v.locks \subseteq t.locks \cup Needs(t)
    /\ v.step # "invoice" /\ t.step # "commit"
    /\ t.op = "urgent" => t.step = "read" /\ v.step = "saved"
    /\ t.step = "status" \/ (t.step = "take" /\ t.todo = <<>>) =>
         t.op # "receive" /\ v.step = "commit"
    /\ t.step \in {"invoice", "saved"} => t.op \in {"receive", "urgent"} \cup OrderPage

\* A lock on a row of the end is taken at the end only.
LEMMA GoingOn ==
    ASSUME NEW t, NEW v, Ending(t), GoesOn(t, v), Local(t), t \in TxRow
    PROVE  Ending(v)
<1>1. t.op \in Op /\ t.step \in Steps BY TxFields
<1>2. Protocol(t) BY DEF Local
<1>3. Order \in Needs(t) => OrderHeld(v)
    BY <1>1, <1>2, LocksDiffer, EndLocksDiffer
    DEF GoesOn, Needs, StockLock, LateLock, JobRow, CardRow, OrderHeld, Protocol, Op, Steps,
        OrderPage, Elsewhere, Allocating
<1>4. \A k : <<"wo", k>> \in Needs(t) => JobHeld(v, k)
    BY <1>1, <1>2, EndLocksDiffer
    DEF GoesOn, Needs, StockLock, LateLock, JobRow, CardRow, JobHeld, CardFirst, Protocol, Op,
        OrderPage, Elsewhere, Allocating
<1>5. \A k : <<"card", k>> \in Needs(t) => CardHeld(v, k)
    BY <1>1, <1>2, EndLocksDiffer
    DEF GoesOn, Needs, StockLock, LateLock, JobRow, CardRow, CardHeld, CardFirst, Protocol, Op,
        OrderPage, Elsewhere, Allocating
<1>6. Order \in t.locks => OrderHeld(v) BY DEF Ending, OrderHeld, GoesOn
<1>7. \A k : <<"wo", k>> \notin t.locks /\ <<"card", k>> \notin t.locks
    BY DEF Ending, JobHeld, CardHeld, GoesOn
<1> QED BY <1>3, <1>4, <1>5, <1>6, <1>7 DEF Ending, GoesOn

\* Every step that commits nothing is such a step.
LEMMA StepsGoOn ==
    ASSUME ContentionIInv, NEW x \in Conn, NEW t \in tx[x],
           \/ LockLine(x, t) \/ Take(x, t) \/ Update(x, t) \/ Insert(x, t) \/ InsertFails(x, t)
           \/ LockStock(x, t) \/ FindReservation(x, t) \/ Release(x, t) \/ WriteLine(x, t)
           \/ SaveInvoice(x, t) \/ SaveItem(x, t) \/ StockIn(x, t) \/ LockJob(x, t)
           \/ Recompute(x, t)
    PROVE  \E v : tx' = [tx EXCEPT ![x] = {v}] /\ GoesOn(t, v)
<1>1. t \in TxRow /\ t.op \in Op /\ t.step \in Steps /\ Protocol(t)
    BY UnderWay, TxFields DEF Local
<1>2. t.step \in {"update", "insert"} => t.todo # <<>> BY UnderWay DEF Local, Giving
<1> USE DEF TxRow
<1>3. CASE LockLine(x, t)
    <2>1. PICK v : v = [[t EXCEPT !.step = "take", !.todo = <<t.l>>,
                              !.rows = [@ EXCEPT ![t.l] = [t.saw EXCEPT !.approved = Asked[t.l],
                                                                        !.status = "approved"]]]
                        EXCEPT !.locks = @ \cup Needs(t)]
        OBVIOUS
    <2>2. v.op = t.op /\ v.l = t.l /\ v.step = "take" /\ v.locks = t.locks \cup Needs(t)
        BY <1>1, <2>1
    <2>3. tx' = [tx EXCEPT ![x] = {v}] BY <1>3, <2>1 DEF LockLine, Step
    <2> QED BY <1>3, <2>2, <2>3 DEF GoesOn, LockLine
<1>4. CASE Take(x, t)
    <2>1. PICK w : w = LET u == [t EXCEPT !.books = IF @ = {} THEN {<<stock, res>>} ELSE @]
                       IN  IF Grant(t, Head(t.todo)) = 0 THEN [u EXCEPT !.todo = Tail(@)]
                           ELSE [u EXCEPT !.step = "update", !.grant = Grant(t, Head(t.todo))]
        OBVIOUS
    <2>2. PICK v : v = [w EXCEPT !.locks = @ \cup Needs(t)] OBVIOUS
    <2>3. /\ v.op = t.op /\ v.l = t.l /\ v.step \in {"take", "update"}
          /\ v.locks = t.locks \cup Needs(t)
        BY <1>1, <1>4, <2>1, <2>2 DEF Take
    <2>4. tx' = [tx EXCEPT ![x] = {v}] BY <1>4, <2>1, <2>2 DEF Take, Step
    <2>5. t.op # "urgent" BY <1>1, <1>4 DEF Take, Protocol
    <2> QED BY <1>4, <2>3, <2>4, <2>5 DEF GoesOn, Take
<1>5. CASE Update(x, t)
    <2>1. PICK v : v = [[t EXCEPT !.step = "insert"] EXCEPT !.locks = @ \cup Needs(t)] OBVIOUS
    <2>2. v.op = t.op /\ v.l = t.l /\ v.step = "insert" /\ v.locks = t.locks \cup Needs(t)
        BY <1>1, <2>1
    <2>3. tx' = [tx EXCEPT ![x] = {v}] BY <1>5, <2>1 DEF Update, Step
    <2>4. t.op # "urgent" BY <1>1, <1>5 DEF Update, Protocol
    <2> QED BY <1>5, <2>2, <2>3, <2>4 DEF GoesOn, Update
<1>6. CASE Insert(x, t)
    <2>1. PICK v : v = [[t EXCEPT !.step = "take", !.todo = Tail(@), !.grant = 0,
                                  !.give = [@ EXCEPT ![Head(t.todo)] = t.grant]]
                        EXCEPT !.locks = @ \cup Needs(t)]
        OBVIOUS
    <2>2. v.op = t.op /\ v.l = t.l /\ v.step = "take" /\ v.locks = t.locks \cup Needs(t)
        BY <1>1, <2>1
    <2>3. tx' = [tx EXCEPT ![x] = {v}] BY <1>6, <2>1 DEF Insert, Step
    <2>4. t.op # "urgent" BY <1>1, <1>6 DEF Insert, Protocol
    <2> QED BY <1>6, <2>2, <2>3, <2>4 DEF GoesOn, Insert
<1>7. CASE InsertFails(x, t)
    <2>1. PICK v : v = Skipped(t) OBVIOUS
    <2>2. /\ v.op = t.op /\ v.l = t.l /\ v.step \in {"take", "commit"}
          /\ v.locks \subseteq t.locks
        BY <1>1, <2>1 DEF Skipped
    <2>3. tx' = [tx EXCEPT ![x] = {v}] BY <1>7, <2>1 DEF InsertFails
    <2>4. t.op # "urgent" BY <1>1, <1>7 DEF InsertFails, Protocol
    <2> QED BY <1>7, <2>2, <2>3, <2>4 DEF GoesOn, InsertFails
<1>8. CASE LockStock(x, t)
    <2>1. PICK v : v = [[t EXCEPT !.step = "release", !.on = stock] EXCEPT !.locks = @ \cup Needs(t)]
        OBVIOUS
    <2>2. v.op = t.op /\ v.l = t.l /\ v.step = "release" /\ v.locks = t.locks \cup Needs(t)
        BY <1>1, <2>1
    <2>3. tx' = [tx EXCEPT ![x] = {v}] BY <1>8, <2>1 DEF LockStock, Step
    <2> QED BY <1>8, <2>2, <2>3 DEF GoesOn, LockStock
<1>9. CASE FindReservation(x, t)
    <2>1. PICK v : v = [[t EXCEPT !.step = "release",
                                  !.id = IF res[t.l].qty > 0 THEN res[t.l].id ELSE 0]
                        EXCEPT !.locks = @ \cup Needs(t)]
        OBVIOUS
    <2>2. v.op = t.op /\ v.l = t.l /\ v.step = "release" /\ v.locks = t.locks \cup Needs(t)
        BY <1>1, <2>1
    <2>3. tx' = [tx EXCEPT ![x] = {v}] BY <1>9, <2>1 DEF FindReservation, Step
    <2> QED BY <1>9, <2>2, <2>3 DEF GoesOn, FindReservation
<1>10. CASE Release(x, t)
    <2>1. PICK v : v = [[t EXCEPT !.step = "write",
                                  !.id = IF t.op = "cancel" THEN @
                                         ELSE IF res[t.l].qty > 0 THEN res[t.l].id ELSE 0]
                        EXCEPT !.locks = @ \cup Needs(t)]
        OBVIOUS
    <2>2. v.op = t.op /\ v.l = t.l /\ v.step = "write" /\ v.locks = t.locks \cup Needs(t)
        BY <1>1, <2>1
    <2>3. tx' = [tx EXCEPT ![x] = {v}] BY <1>10, <2>1 DEF Release, Step
    <2>4. t.op # "urgent" BY <1>1, <1>10 DEF Release, Protocol
    <2> QED BY <1>10, <2>2, <2>3, <2>4 DEF GoesOn, Release
<1>11. CASE WriteLine(x, t)
    <2>1. PICK v : v = [[t EXCEPT !.step = "status"] EXCEPT !.locks = @ \cup Needs(t)] OBVIOUS
    <2>2. v.op = t.op /\ v.l = t.l /\ v.step = "status" /\ v.locks = t.locks \cup Needs(t)
        BY <1>1, <2>1
    <2>3. tx' = [tx EXCEPT ![x] = {v}] BY <1>11, <2>1 DEF WriteLine, Step
    <2>4. t.op # "urgent" BY <1>1, <1>11 DEF WriteLine, Protocol
    <2> QED BY <1>11, <2>2, <2>3, <2>4 DEF GoesOn, WriteLine
<1>12. CASE SaveInvoice(x, t)
    <2>1. PICK v : v = [[t EXCEPT !.step = "read"] EXCEPT !.locks = @ \cup Needs(t)] OBVIOUS
    <2>2. v.op = t.op /\ v.l = t.l /\ v.step = "read" /\ v.locks = t.locks \cup Needs(t)
        BY <1>1, <2>1
    <2>3. tx' = [tx EXCEPT ![x] = {v}] BY <1>12, <2>1 DEF SaveInvoice, Step
    <2>4. t.op = "receive"
        BY <1>1, <1>12 DEF SaveInvoice, Protocol, Op, OrderPage, Elsewhere, Allocating
    <2> QED BY <1>12, <2>2, <2>3, <2>4 DEF GoesOn, SaveInvoice
<1>13. CASE SaveItem(x, t)
    <2>1. PICK v : v = [[t EXCEPT !.step = "saved", !.qty = Arrives(t)]
                        EXCEPT !.locks = @ \cup Needs(t)]
        OBVIOUS
    <2>2. v.op = t.op /\ v.l = t.l /\ v.step = "saved" /\ v.locks = t.locks \cup Needs(t)
        BY <1>1, <2>1
    <2>3. tx' = [tx EXCEPT ![x] = {v}] BY <1>13, <2>1 DEF SaveItem, Step
    <2> QED BY <1>13, <2>2, <2>3 DEF GoesOn, SaveItem
<1>14. CASE StockIn(x, t)
    <2>1. PICK v : v = [[t EXCEPT !.step = "take", !.on = stock, !.todo = Queue, !.rows = line]
                        EXCEPT !.locks = @ \cup Needs(t)]
        OBVIOUS
    <2>2. v.op = t.op /\ v.l = t.l /\ v.step = "take" /\ v.locks = t.locks \cup Needs(t)
        BY <1>1, <2>1
    <2>3. tx' = [tx EXCEPT ![x] = {v}] BY <1>14, <2>1 DEF StockIn, Step
    <2> QED BY <1>14, <2>2, <2>3 DEF GoesOn, StockIn
<1>15. CASE LockJob(x, t)
    <2>1. PICK v : v = [[t EXCEPT !.step = "saved"] EXCEPT !.locks = @ \cup Needs(t)] OBVIOUS
    <2>2. v.op = t.op /\ v.l = t.l /\ v.step = "saved" /\ v.locks = t.locks \cup Needs(t)
        BY <1>1, <2>1
    <2>3. tx' = [tx EXCEPT ![x] = {v}] BY <1>15, <2>1 DEF LockJob, Step
    <2> QED BY <1>15, <2>2, <2>3 DEF GoesOn, LockJob
<1>16. CASE Recompute(x, t)
    <2>1. PICK v : v = [[t EXCEPT !.step = "commit"] EXCEPT !.locks = @ \cup Needs(t)] OBVIOUS
    <2>2. v.op = t.op /\ v.l = t.l /\ v.step = "commit" /\ v.locks = t.locks \cup Needs(t)
        BY <1>1, <2>1
    <2>3. tx' = [tx EXCEPT ![x] = {v}] BY <1>16, <2>1 DEF Recompute, Step
    <2>4. t.op # "urgent" /\ t.op # "receive" /\ t.step \in {"status", "take"}
        BY <1>1, <1>16 DEF Recompute, Protocol, Allocating
    <2> QED BY <2>2, <2>3, <2>4 DEF GoesOn
<1> QED BY <1>3, <1>4, <1>5, <1>6, <1>7, <1>8, <1>9, <1>10, <1>11, <1>12, <1>13, <1>14, <1>15, <1>16

\* Nobody else takes one.
LEMMA EndStep == ContentionIInv /\ EndInv /\ [ContentionNext]_svars => EndInv'
<1> SUFFICES ASSUME ContentionIInv, EndInv, [ContentionNext]_svars PROVE EndInv'
    OBVIOUS
<1>0. tx \in [Conn -> SUBSET TxRow] BY DEF ContentionIInv, Tables
<1>1. ASSUME NEW x \in Conn, NEW T, tx' = [tx EXCEPT ![x] = T], \A v \in T : Ending(v)
      PROVE  EndInv'
    <2>1. tx'[x] = T /\ \A y \in Conn \ {x} : tx'[y] = tx[y] BY <1>0, <1>1
    <2> QED BY <1>1, <2>1 DEF EndInv, Ending
<1>2. ASSUME NEW x \in Conn, NEW op \in Op, NEW l \in Line, NEW q \in 1..MaxUnits, Begin(x, op, l, q)
      PROVE  EndInv'
    <2>1. PICK s : tx' = [tx EXCEPT ![x] = {NewTx(op, l, q, s)}] BY <1>2 DEF Begin
    <2>2. Ending(NewTx(op, l, q, s)) BY DEF NewTx, Ending
    <2> QED BY <2>1, <2>2, <1>1
<1>3. ASSUME NEW x \in Conn, NEW t \in tx[x],
             \/ LockLine(x, t) \/ Take(x, t) \/ Update(x, t) \/ Insert(x, t) \/ InsertFails(x, t)
             \/ LockStock(x, t) \/ FindReservation(x, t) \/ Release(x, t) \/ WriteLine(x, t)
             \/ SaveInvoice(x, t) \/ SaveItem(x, t) \/ StockIn(x, t) \/ LockJob(x, t)
             \/ Recompute(x, t)
      PROVE  EndInv'
    <2>1. PICK v : tx' = [tx EXCEPT ![x] = {v}] /\ GoesOn(t, v) BY <1>3, StepsGoOn
    <2>2. t \in TxRow /\ Local(t) /\ Ending(t) BY UnderWay DEF EndInv
    <2>3. Ending(v) BY <2>1, <2>2, GoingOn
    <2> QED BY <2>1, <2>3, <1>1
<1>4. ASSUME NEW x \in Conn, NEW t \in tx[x],
             \/ CommitApproval(x, t) \/ CommitIssue(x, t) \/ CommitCancel(x, t)
             \/ CommitReceipt(x, t) \/ CommitElsewhere(x, t) \/ MarkRequest(x, t) \/ Drop(x, t)
      PROVE  EndInv'
    <2>1. tx' = [tx EXCEPT ![x] = {}]
        BY <1>4 DEF CommitApproval, CommitIssue, CommitCancel, CommitReceipt, CommitElsewhere, Commits,
                    MarkRequest, Drop
    <2> QED BY <2>1, <1>1
<1>5. ASSUME NEW x \in Conn, NEW t \in tx[x], OrderItem(x, t)
      PROVE  EndInv'
    <2>1. PICK v : v = [t EXCEPT !.step = "saved", !.req = pr'] OBVIOUS
    <2>2. t \in TxRow /\ Ending(t) /\ t.op \in OrderPage /\ t.step = "read"
        BY <1>5, UnderWay DEF EndInv, OrderItem
    <2>3. v.op = t.op /\ v.l = t.l /\ v.locks = t.locks /\ v.step = "saved" BY <2>1, <2>2 DEF TxRow
    <2>4. Ending(v) BY <2>2, <2>3 DEF Ending, OrderHeld, JobHeld, CardHeld, OrderPage
    <2>5. tx' = [tx EXCEPT ![x] = {v}] BY <1>5, <2>1 DEF OrderItem
    <2> QED BY <2>4, <2>5, <1>1
<1>6. CASE UNCHANGED svars BY <1>6 DEF svars, EndInv, Ending
<1> QED BY <1>2, <1>3, <1>4, <1>5, <1>6 DEF ContentionNext

\* What the step t waits to take has to do with u.
Wants(t, u) ==
    \/ t.step = "invoice"
    \/ t.step = "read" /\ (t.op # "receive" \/ ItemHeld(u))
    \/ t.step = "saved" /\ t.op \in {"receive", "urgent"} /\ StockHeld(u)
    \/ t.step = "release" /\ ResHeld(u, t.l)
    \/ t.step = "write" /\ LineHeld(u, t.l)
    \/ t.step = "update" /\ LineHeld(u, Head(t.todo))
    \/ t.step = "insert" /\ ResHeld(u, Head(t.todo))
    \/ t.step = "take" /\ IF t.op = "receive" THEN Order \in u.locks ELSE JobHeld(u, t.l)
    \/ t.step = "status" /\ IF t.op \in CardFirst THEN CardHeld(u, t.l) ELSE JobHeld(u, t.l)
    \/ t.step = "commit" /\ IF t.op \in CardFirst THEN JobHeld(u, t.l) ELSE CardHeld(u, t.l)

\* Waiting, read off the two transactions.
LEMMA WaitingIsWanting ==
    ASSUME NEW t \in TxRow, NEW u \in TxRow, Local(t), Local(u), Ending(u),
           Needs(t) \cap u.locks # {}
    PROVE  Wants(t, u)
<1>1. PICK r : r \in Needs(t) /\ r \in u.locks OBVIOUS
<1>2. t.l \in Line /\ t.step \in Steps BY TxFields
<1>3. t.step \in {"update", "insert"} => Head(t.todo) \in Line
    <2>1. t.todo \in Seq(Line) BY TxFields
    <2>2. t.step \in {"update", "insert"} => t.todo # <<>> BY DEF Local, Giving
    <2> QED BY <2>1, <2>2, NextLine
<1>4. /\ \A k \in Line : <<"line", k>> \in u.locks => LineHeld(u, k)
      /\ \A k \in Line : <<"res", k>> \in u.locks => ResHeld(u, k)
      /\ Stock \in u.locks => StockHeld(u)
      /\ Item \in u.locks => ItemHeld(u)
      /\ \A k : <<"wo", k>> \in u.locks => JobHeld(u, k)
      /\ \A k : <<"card", k>> \in u.locks => CardHeld(u, k)
    BY DEF Local, Locking, Ending
<1>5. CASE t.step = "saved"
    <2>1. t.op \in {"receive", "urgent"} /\ r = Stock BY <1>1, <1>5 DEF Needs, StockLock
    <2> QED BY <2>1, <1>1, <1>4, <1>5 DEF Wants
<1>6. CASE t.step = "release"
    <2>1. r = <<"res", t.l>> BY <1>1, <1>6 DEF Needs
    <2> QED BY <2>1, <1>1, <1>2, <1>4, <1>6 DEF Wants
<1>7. CASE t.step = "write"
    <2>1. r = <<"line", t.l>> BY <1>1, <1>7 DEF Needs
    <2> QED BY <2>1, <1>1, <1>2, <1>4, <1>7 DEF Wants
<1>8. CASE t.step = "update"
    <2>1. r = <<"line", Head(t.todo)>> BY <1>1, <1>8 DEF Needs
    <2> QED BY <2>1, <1>1, <1>3, <1>4, <1>8 DEF Wants
<1>9. CASE t.step = "insert"
    <2>1. r = <<"res", Head(t.todo)>> BY <1>1, <1>9 DEF Needs
    <2> QED BY <2>1, <1>1, <1>3, <1>4, <1>9 DEF Wants
<1>10. CASE t.step = "commit"
    <2>1. r = IF t.op \in CardFirst THEN <<"wo", t.l>> ELSE <<"card", t.l>>
        BY <1>1, <1>10 DEF Needs, JobRow, CardRow
    <2> QED BY <2>1, <1>1, <1>4, <1>10 DEF Wants
<1>11. CASE t.step = "take"
    <2>1. r = IF t.op = "receive" THEN Order ELSE <<"wo", t.l>>
        BY <1>1, <1>11 DEF Needs, LateLock, JobRow
    <2> QED BY <2>1, <1>1, <1>4, <1>11 DEF Wants
<1>12. CASE t.step = "read"
    <2>1. t.op = "receive" => r = Item BY <1>1, <1>12 DEF Needs
    <2> QED BY <2>1, <1>1, <1>4, <1>12 DEF Wants
<1>13. CASE t.step = "status"
    <2>1. r = IF t.op \in CardFirst THEN <<"card", t.l>> ELSE <<"wo", t.l>>
        BY <1>1, <1>13 DEF Needs, JobRow, CardRow
    <2> QED BY <2>1, <1>1, <1>4, <1>13 DEF Wants
<1>14. CASE t.step = "invoice" BY <1>14 DEF Wants
<1> QED BY <1>2, <1>5, <1>6, <1>7, <1>8, <1>9, <1>10, <1>11, <1>12, <1>13, <1>14
        DEF Steps, Allocating

\* A transaction that has only been read for holds no lock.
ReadOnly(t) == t.step = "invoice" \/ (t.step = "read" /\ t.op # "receive")

LEMMA ReadersHoldNothing ==
    ASSUME NEW t \in TxRow, NEW u, Local(t), Ending(t), ReadOnly(t), Needs(u) \cap t.locks # {}
    PROVE  FALSE
<1>1. t.op \in Op /\ t.locks \subseteq Resource BY TxFields
<1>2. Protocol(t) /\ Locking(t) BY DEF Local
<1>3. ~ Allocates(t) BY DEF Allocates, Allocating, ReadOnly
<1>4. \A k \in Line : t.give[k] = 0
    BY <1>3 DEF Local, Giving
<1>5. /\ \A k \in Line : ~ LineHeld(t, k) /\ ~ ResHeld(t, k)
      /\ ~ StockHeld(t) /\ ~ ItemHeld(t) /\ ~ OrderHeld(t)
      /\ \A k : ~ JobHeld(t, k) /\ ~ CardHeld(t, k)
    BY <1>1, <1>2, <1>4
    DEF LineHeld, ResHeld, StockHeld, ItemHeld, OrderHeld, JobHeld, CardHeld, ReadOnly, Protocol, Op,
        OrderPage, Elsewhere, Allocating
<1>6. PICK r : r \in Needs(u) /\ r \in t.locks OBVIOUS
<1>7. \/ r \in {Stock, Order, Item}
      \/ \E k \in Line : r \in {<<"line", k>>, <<"res", k>>, <<"wo", k>>, <<"card", k>>}
    BY <1>1, <1>6 DEF Resource, Stock, Order, Item
<1> QED BY <1>2, <1>5, <1>6, <1>7 DEF Locking, Ending

\* The four ways.
Cycle(t, u) ==
    \/ t.step = "insert" /\ u.step = "write" /\ Head(t.todo) = u.l
    \/ t.op = "receive" /\ t.step = "take" /\ u.op = "receive" /\ Order \in u.locks
    \/ /\ t.op \in CardFirst /\ t.step = "commit"
       /\ u.op \notin CardFirst /\ u.step = "commit" /\ t.l = u.l
    \/ t.op = "issue" /\ t.step = "commit" /\ u.op = "urgent" /\ t.l = u.l

\* Facts about a transaction that is more than read for.
Known(t) ==
    /\ t.op \in Op /\ t.step \in Steps /\ t.l \in Line
    /\ Protocol(t) /\ Ending(t) /\ ~ ReadOnly(t)
    /\ t.step \in {"update", "insert"} => t.todo # <<>> /\ Head(t.todo) \in Line
    /\ t.op = "approve" /\ t.todo # <<>> => Head(t.todo) = t.l
    /\ ~ Allocates(t) => \A k \in Line : t.give[k] = 0
    /\ t.step # "commit" => \A k : ~ CardHeld(t, k) /\ (JobHeld(t, k) => t.op = "urgent")

LEMMA KnownOf ==
    ASSUME NEW t \in TxRow, Local(t), Ending(t), ~ ReadOnly(t)
    PROVE  Known(t)
<1>1. t.op \in Op /\ t.step \in Steps /\ t.l \in Line /\ t.todo \in Seq(Line) BY TxFields
<1>2. t.step \in {"update", "insert"} => t.todo # <<>> /\ Head(t.todo) \in Line
    <2>1. t.step \in {"update", "insert"} => t.todo # <<>> BY DEF Local, Giving
    <2> QED BY <1>1, <2>1, NextLine
<1>3. t.op = "approve" /\ t.todo # <<>> => Head(t.todo) = t.l BY DEF Local, Giving
<1>4. ~ Allocates(t) => \A k \in Line : t.give[k] = 0 BY DEF Local, Giving
<1>5. t.step # "commit" => \A k : ~ CardHeld(t, k) /\ (JobHeld(t, k) => t.op = "urgent")
    BY DEF CardHeld, JobHeld
<1> QED BY <1>1, <1>2, <1>3, <1>4, <1>5 DEF Known, Local

\* Two transactions wait for each other, and one of them is not writing a line or a
\* reservation or committing.
LEMMA EarlyCycle ==
    ASSUME NEW t, NEW u, Known(t), Known(u), Apart(t, u), Wants(t, u), Wants(u, t),
           t.step \in {"read", "saved", "release", "take", "status"}
    PROVE  Cycle(t, u) \/ Cycle(u, t)
<1> USE DEF Known, Wants, Protocol, Op, OrderPage, Elsewhere, Allocating, CardFirst
<1>1. CASE t.step = "read"
    <2>1. t.op = "receive" /\ u.op = "receive" /\ u.step \notin {"invoice", "read"}
        BY <1>1 DEF ReadOnly, ItemHeld
    <2>2. \A k \in Line : ~ LineHeld(t, k) /\ ~ ResHeld(t, k)
        BY <1>1, <2>1 DEF LineHeld, ResHeld, Allocates
    <2>3. ~ StockHeld(t) BY <1>1, <2>1 DEF StockHeld
    <2> QED BY <1>1, <2>1, <2>2, <2>3 DEF Cycle
<1>2. CASE t.step = "saved"
    <2>1. \A k \in Line : ~ LineHeld(t, k) /\ ~ ResHeld(t, k)
        BY <1>2 DEF LineHeld, ResHeld, Allocates
    <2>2. ~ StockHeld(t) /\ t.op \in {"receive", "urgent"} /\ StockHeld(u)
        BY <1>2 DEF StockHeld
    <2>3. CASE u.op = "issue"
        <3>1. u.step \in {"commit", "status", "release", "write"} BY <2>2, <2>3 DEF StockHeld
        <3>2. u.step = "commit" /\ JobHeld(t, u.l) BY <1>2, <2>1, <2>3, <3>1
        <3>3. t.op = "urgent" /\ t.l = u.l BY <1>2, <3>2 DEF JobHeld
        <3> QED BY <2>3, <3>2, <3>3 DEF Cycle
    <2>4. CASE u.op = "receive"
        <3>1. u.step \in {"take", "update", "insert"} BY <2>2, <2>4 DEF StockHeld
        <3>2. u.step = "take" /\ Order \in t.locks BY <2>1, <2>4, <3>1
        <3>3. t.op = "receive" BY <3>2 DEF Ending, OrderHeld
        <3> QED BY <1>2, <2>4, <3>1, <3>3 DEF Apart, ItemHeld
    <2> QED BY <2>2, <2>3, <2>4 DEF StockHeld
<1>3. CASE t.step = "release"
    <2>1. t.op \in {"issue", "cancel"} /\ ResHeld(u, t.l) BY <1>3
    <2>2. \A k \in Line : ~ LineHeld(t, k) /\ ~ ResHeld(t, k)
        BY <1>3, <2>1 DEF LineHeld, ResHeld, Allocates
    <2>3. ~ ItemHeld(t) /\ Order \notin t.locks BY <2>1 DEF ItemHeld, Ending, OrderHeld
    <2>4. \A k : ~ JobHeld(t, k) /\ ~ CardHeld(t, k) BY <1>3, <2>1
    <2>5. u.step # "saved" BY <2>1 DEF ResHeld, Allocates
    <2> QED BY <2>2, <2>3, <2>4, <2>5 DEF ReadOnly
<1>4. CASE t.step = "take" /\ t.op = "receive"
    <2>1. Order \in u.locks /\ u.op = "receive" BY <1>4 DEF Ending, OrderHeld
    <2> QED BY <1>4, <2>1 DEF Cycle
<1>5. CASE t.step = "take" /\ t.op # "receive"
    <2>1. t.op = "approve" /\ JobHeld(u, t.l) BY <1>5
    <2>2. ~ StockHeld(t) BY <2>1 DEF StockHeld
    <2>3. \A k : ~ CardHeld(t, k) BY <1>5
    <2>4. \/ u.op = "urgent" /\ u.step = "saved"
          \/ u.op \notin CardFirst /\ u.step = "commit"
        BY <2>1 DEF JobHeld
    <2> QED BY <2>2, <2>3, <2>4
<1>6. CASE t.step = "status" /\ t.op \in CardFirst
    <2>1. u.op \in CardFirst /\ u.step = "commit" BY <1>6 DEF CardHeld
    <2>2. JobHeld(t, u.l) BY <2>1
    <2> QED BY <1>6, <2>2 DEF JobHeld
<1>7. CASE t.step = "status" /\ t.op \notin CardFirst
    <2>1. t.op \in {"cancel", "decide"} /\ JobHeld(u, t.l) BY <1>7
    <2>2. ~ StockHeld(t) BY <2>1 DEF StockHeld
    <2>3. \A k : ~ CardHeld(t, k) BY <1>7
    <2>4. \/ u.op = "urgent" /\ u.step = "saved"
          \/ u.op \notin CardFirst /\ u.step = "commit"
        BY <2>1 DEF JobHeld
    <2> QED BY <2>2, <2>3, <2>4
<1> QED BY <1>1, <1>2, <1>3, <1>4, <1>5, <1>6, <1>7

\* Or both are.
LEMMA LateCycle ==
    ASSUME NEW t, NEW u, Known(t), Known(u), Apart(t, u), Wants(t, u), Wants(u, t),
           t.step \in {"write", "update", "insert", "commit"},
           u.step \in {"write", "update", "insert", "commit"}
    PROVE  Cycle(t, u) \/ Cycle(u, t)
<1> USE DEF Known, Wants, Protocol, Op, OrderPage, Elsewhere, Allocating
<1>1. CASE t.step = "commit" \/ u.step = "commit"
    BY <1>1 DEF JobHeld, CardHeld, Cycle
<1>2. CASE t.step = "write" /\ u.step = "write"
    BY <1>2 DEF LineHeld, Allocates
<1>3. CASE t.step = "write" /\ u.step \in {"update", "insert"}
    <2>1. CASE u.step = "update" BY <1>3, <2>1 DEF LineHeld, Allocates
    <2>2. CASE u.step = "insert" BY <1>3, <2>2 DEF ResHeld, Allocates, Cycle
    <2> QED BY <2>1, <2>2, <1>3
<1>4. CASE u.step = "write" /\ t.step \in {"update", "insert"}
    <2>1. CASE t.step = "update" BY <1>4, <2>1 DEF LineHeld, Allocates
    <2>2. CASE t.step = "insert" BY <1>4, <2>2 DEF ResHeld, Allocates, Cycle
    <2> QED BY <2>1, <2>2, <1>4
<1>5. CASE t.step \in {"update", "insert"} /\ u.step \in {"update", "insert"}
    <2>1. t.op \in {"approve", "receive"} /\ u.op \in {"approve", "receive"}
        BY <1>5
    <2>2. CASE t.op = "receive" /\ u.op = "receive"
        BY <2>2, <1>5 DEF Apart, ItemHeld
    <2>3. CASE t.op = "approve"
        <3>1. LineHeld(t, t.l) /\ Head(t.todo) = t.l /\ ~ LineHeld(u, t.l)
            BY <2>3, <1>5 DEF LineHeld, Apart
        <3>2. ResHeld(u, t.l) => LineHeld(u, t.l)
            BY <1>5 DEF ResHeld, LineHeld
        <3> QED BY <3>1, <3>2, <1>5
    <2>4. CASE u.op = "approve"
        <3>1. LineHeld(u, u.l) /\ Head(u.todo) = u.l /\ ~ LineHeld(t, u.l)
            BY <2>4, <1>5 DEF LineHeld, Apart
        <3>2. ResHeld(t, u.l) => LineHeld(t, u.l)
            BY <1>5 DEF ResHeld, LineHeld
        <3> QED BY <3>1, <3>2, <1>5
    <2> QED BY <2>1, <2>2, <2>3, <2>4
<1> QED BY <1>1, <1>2, <1>3, <1>4, <1>5

\* Two of these requests deadlock in four ways only, over a reservation, over a
\* purchase order, over a work order and its cost card, over stock and a work order;
\* of any number of connections, no other two do.
THEOREM OnlyFourCycles == ContentionSpec => []OnlyFourDeadlocks
<1>1. ContentionIInv /\ EndInv => OnlyFourDeadlocks
    <2> SUFFICES ASSUME ContentionIInv, EndInv, NEW x \in Conn, NEW y \in Conn, x # y,
                        Waits(x, y), Waits(y, x)
                 PROVE  \E t \in tx[x] \cup tx[y], u \in tx[x] \cup tx[y] : Cycle(t, u)
        BY DEF OnlyFourDeadlocks, Cycle
    <2>1. Sessions BY DEF ContentionIInv
    <2>2. PICK t \in tx[x], u \in tx[y] : Needs(t) \cap u.locks # {} BY DEF Waits
    <2>3. Needs(u) \cap t.locks # {}
        <3>1. PICK u2 \in tx[y], t2 \in tx[x] : Needs(u2) \cap t2.locks # {} BY DEF Waits
        <3>2. u2 = u /\ t2 = t BY <2>1, <2>2, <3>1 DEF Sessions
        <3> QED BY <3>1, <3>2
    <2>4. /\ t \in TxRow /\ u \in TxRow /\ Local(t) /\ Local(u)
          /\ Ending(t) /\ Ending(u)
        BY UnderWay DEF EndInv
    <2>5. Apart(t, u) /\ Apart(u, t) BY <2>1 DEF Sessions
    <2>6. ~ ReadOnly(t) /\ ~ ReadOnly(u) BY <2>2, <2>3, <2>4, ReadersHoldNothing
    <2>7. Wants(t, u) /\ Wants(u, t) BY <2>2, <2>3, <2>4, WaitingIsWanting
    <2>8. Known(t) /\ Known(u) BY <2>4, <2>6, KnownOf
    <2>9. /\ t.step \in {"read", "saved", "release", "take", "status", "write", "update", "insert", "commit"}
          /\ u.step \in {"read", "saved", "release", "take", "status", "write", "update", "insert", "commit"}
        BY <2>8 DEF Known, Steps, Allocating, ReadOnly
    <2>10. Cycle(t, u) \/ Cycle(u, t)
        <3>1. CASE t.step \in {"read", "saved", "release", "take", "status"}
            BY <3>1, <2>5, <2>7, <2>8, EarlyCycle
        <3>2. CASE u.step \in {"read", "saved", "release", "take", "status"}
            BY <3>2, <2>5, <2>7, <2>8, EarlyCycle
        <3>3. CASE /\ t.step \in {"write", "update", "insert", "commit"}
                   /\ u.step \in {"write", "update", "insert", "commit"}
            BY <3>3, <2>5, <2>7, <2>8, LateCycle
        <3> QED BY <3>1, <3>2, <3>3, <2>9
    <2> QED BY <2>10
<1>2. ContentionInit => EndInv BY DEF ContentionInit, EndInv
<1> QED BY <1>1, <1>2, EndStep, ContentionInvariance, PTL DEF ContentionSpec

-------------------------------------------------------------------------------
(***************************************************************************)
(* What a step may never do to a line and to the reservations.             *)
(***************************************************************************)
\* Line l is not settled, stays as it was, or its overwriting is noticed.
Resettles(l) ==
    line[l].status \in {"issued", "rejected"} /\ line'[l].status # line[l].status =>
      <<"line", l>> \in raced'

\* Only the commits of approvals, issues, cancellations and receipts write
\* lines; each had read an unsettled line.
LEMMA CommitsResettle ==
    ASSUME ContentionIInv, NEW x \in Conn, NEW t \in tx[x], NEW l \in Line,
           CommitApproval(x, t) \/ CommitIssue(x, t) \/ CommitCancel(x, t) \/ CommitReceipt(x, t)
    PROVE  Resettles(l)
<1>1. t \in TxRow /\ Local(t) /\ line \in [Line -> LineRow] BY UnderWay DEF ContentionIInv, Tables
<1>2. CASE CommitApproval(x, t) \/ CommitIssue(x, t) \/ CommitCancel(x, t)
    <2>1. l # t.l => line'[l] = line[l]
        BY <1>1, <1>2 DEF CommitApproval, CommitIssue, CommitCancel
    <2>2. LineRaced(t.l, t.saw) \subseteq raced'
        BY <1>2 DEF CommitApproval, CommitIssue, CommitCancel
    <2>3. t.saw.status \in Active
        BY <1>1, <1>2 DEF CommitApproval, CommitIssue, CommitCancel, Local, Protocol, Active
    <2> QED BY <2>1, <2>2, <2>3 DEF Resettles, LineRaced, Active
<1>3. CASE CommitReceipt(x, t)
    <2>1. l \notin Gives(t) => line'[l] = line[l] BY <1>1, <1>3 DEF CommitReceipt
    <2>2. l \in Gives(t) => LineRaced(l, t.rows[l]) \subseteq raced'
        <3>1. (UNION {LineRaced(k, t.rows[k]) : k \in Gives(t)}) \subseteq raced'
            BY <1>3 DEF CommitReceipt
        <3> QED BY <3>1
    <2>3. l \in Gives(t) => t.rows[l].status \in Active
        BY <1>1 DEF Local, Giving, Gives
    <2> QED BY <2>1, <2>2, <2>3 DEF Resettles, LineRaced, Active
<1> QED BY <1>2, <1>3

\* An issued or rejected line is taken up again only by a request that had read
\* it before: the lock approve_part_request takes does not prevent it.
THEOREM SettledLinesStay == ContentionSpec => SettledOnlyByOverlap
<1> DEFINE A == \A l \in Line :
                  line[l].status \in {"issued", "rejected"} /\ line'[l].status # line[l].status =>
                    <<"line", l>> \in raced'
<1>1. ContentionIInv /\ [ContentionNext]_svars => [A]_svars
    <2> SUFFICES ASSUME ContentionIInv, ContentionNext, NEW l \in Line PROVE Resettles(l)
        BY DEF Resettles
    <2>1. ASSUME NEW x \in Conn, NEW t \in tx[x],
                 CommitApproval(x, t) \/ CommitIssue(x, t) \/ CommitCancel(x, t) \/ CommitReceipt(x, t)
          PROVE  Resettles(l)
        BY <2>1, CommitsResettle
    <2>2. CASE line' = line BY <2>2 DEF Resettles
    <2>3. ASSUME NEW x \in Conn, NEW op \in Op, NEW k \in Line, NEW q \in 1..MaxUnits, Begin(x, op, k, q)
          PROVE  line' = line
        BY <2>3 DEF Begin, rowvars
    <2>4. ASSUME NEW x \in Conn, NEW t \in tx[x],
                 \/ LockLine(x, t) \/ Take(x, t) \/ Update(x, t) \/ Insert(x, t) \/ InsertFails(x, t)
                 \/ LockStock(x, t) \/ FindReservation(x, t) \/ Release(x, t) \/ WriteLine(x, t)
                 \/ SaveInvoice(x, t) \/ SaveItem(x, t) \/ StockIn(x, t) \/ LockJob(x, t)
                 \/ Recompute(x, t) \/ CommitElsewhere(x, t)
                 \/ OrderItem(x, t) \/ MarkRequest(x, t) \/ Drop(x, t)
          PROVE  line' = line
        BY <2>4 DEF LockLine, Take, Update, Insert, InsertFails, LockStock, FindReservation, Release,
                    WriteLine, SaveInvoice, SaveItem, StockIn, LockJob, Recompute, CommitElsewhere, OrderItem, MarkRequest, Drop, Step, rowvars
    <2> QED BY <2>1, <2>2, <2>3, <2>4 DEF ContentionNext
<1>2. SettledOnlyByOverlap <=> [][A]_svars
    BY PTL DEF SettledOnlyByOverlap, A
<1> HIDE DEF A
<1> QED BY <1>1, <1>2, ContentionInvariance, PTL DEF ContentionSpec

\* An allocation adds to the reservations what it gave.
LEMMA AllocationAdds ==
    ASSUME Tables, NEW t \in TxRow, Local(t), Global(t), res' = Inserted(t)
    PROVE  Reserved' = Reserved + Total(t.give)
<1> DEFINE f == [l \in Line |-> res[l].qty]
           h == [l \in Line |-> res'[l].qty]
           g == t.give
<1>1. /\ res' \in [Line -> Reservation]
      /\ \A k \in Line \ Gives(t) : res'[k] = res[k]
      /\ \A k \in Gives(t) : res'[k].qty = t.give[k]
    BY InsertedRows
<1>2. IsFiniteSet(Line) BY ContentionAssumption
<1>3. f \in [Line -> Nat] /\ h \in [Line -> Nat] /\ g \in [Line -> Nat]
    BY <1>1, TxFields DEF Tables, Reservation
<1>4. ASSUME NEW k \in Line
      PROVE  h[k] = f[k] + g[k]
    <2>1. f[k] = res[k].qty /\ h[k] = res'[k].qty /\ g[k] = t.give[k] OBVIOUS
    <2>2. f[k] \in Nat /\ g[k] \in Nat BY <1>3
    <2>3. CASE k \in Gives(t)
        <3>1. res[k].qty = 0 BY <2>3 DEF Global, Gives
        <3>2. res'[k].qty = t.give[k] BY <2>3, <1>1
        <3> HIDE DEF f, g, h
        <3> QED BY <3>1, <3>2, <2>1, <2>2
    <2>4. CASE k \notin Gives(t)
        <3>1. ~ (t.give[k] > 0) BY <2>4 DEF Gives
        <3>2. res'[k].qty = res[k].qty BY <2>4, <1>1
        <3> HIDE DEF f, g, h
        <3> QED BY <3>1, <3>2, <2>1, <2>2
    <2> QED BY <2>3, <2>4
<1> HIDE DEF f, g, h
<1>5. DOMAIN f = Line /\ DOMAIN g = Line /\ DOMAIN h = Line BY <1>3
<1>6. SumOf(f, g, h, Nat) BY <1>2, <1>3, <1>4, <1>5 DEF SumOf
<1>7. Total(h) = Total(f) + Total(g) BY <1>6, TotalSum
<1>8. Reserved = Total(f) /\ Reserved' = Total(h) BY DEF Reserved, f, h
<1> QED BY <1>7, <1>8 DEF g

\* A release adds nothing.
LEMMA ReleaseAddsNothing ==
    ASSUME Tables, NEW t \in TxRow, t.op \in {"issue", "cancel"}, t.step = "commit",
           NEW n \in Nat, res' = Released(t, n)
    PROVE  Reserved' <= Reserved /\ Reserved' \in Nat
<1> DEFINE f == [l \in Line |-> res[l].qty]
           h == [l \in Line |-> res'[l].qty]
<1>1. /\ res' \in [Line -> Reservation]
      /\ \A k \in Line : res'[k].qty <= res[k].qty
    BY ReleasedRows
<1>2. IsFiniteSet(Line) BY ContentionAssumption
<1>3. f \in [Line -> Nat] /\ h \in [Line -> Nat] BY <1>1 DEF Tables, Reservation
<1>4. \A k \in Line : h[k] <= f[k] BY <1>1
<1> HIDE DEF f, h
<1>5. Total(h) <= Total(f) /\ Total(h) \in Nat BY <1>2, <1>3, <1>4, TotalLess, TotalType
<1> QED BY <1>5 DEF Reserved, f, h

\* Session x's allocation ended, and the books were not as it had read them.
Unnoticed == \E x \in Conn : \E t \in tx[x] : tx'[x] = {} /\ t.books # {<<stock, res>>}

Overbooks == Reserved' > Reserved /\ Reserved' > stock' => Unnoticed

\* If the books are as the allocation read them, what it gave is there.
LEMMA AllocationsFit ==
    ASSUME ContentionIInv, NEW x \in Conn, NEW t \in tx[x],
           CommitApproval(x, t) \/ CommitReceipt(x, t)
    PROVE  Overbooks
<1>1. t \in TxRow /\ Local(t) /\ Global(t) /\ Tables BY UnderWay DEF ContentionIInv
<1>2. tx'[x] = {} BY <1>1 DEF CommitApproval, CommitReceipt, Commits, Tables
<1> SUFFICES ASSUME t.books = {<<stock, res>>}, Reserved' > Reserved
             PROVE  Reserved' <= stock'
    <2>1. Reserved \in Nat /\ Total(t.give) \in Nat BY <1>1, SumsAreNat
    <2>2. res' = Inserted(t) BY DEF CommitApproval, CommitReceipt
    <2>3. Reserved' = Reserved + Total(t.give) BY <1>1, <2>2, AllocationAdds
    <2>4. stock' \in Nat
        <3>1. stock \in Nat /\ t.on \in Nat /\ t.qty \in Nat BY <1>1, TxFields DEF Tables
        <3> QED BY <3>1 DEF CommitApproval, CommitReceipt
    <2> QED BY <2>1, <2>3, <2>4, <1>2 DEF Overbooks, Unnoticed
<1>3. res' = Inserted(t) /\ t.step \notin {"update", "insert"} BY DEF CommitApproval, CommitReceipt
<1>4. Reserved \in Nat /\ Total(t.give) \in Nat BY <1>1, SumsAreNat
<1>5. Reserved' = Reserved + Total(t.give) BY <1>1, <1>3, AllocationAdds
<1>6. t.grant = 0 BY <1>1, <1>3 DEF Local, Giving
<1>7. Granted(t) = Total(t.give) BY <1>4, <1>6 DEF Granted
<1>8. Covered(t, stock)
    <2>1. <<stock, res>> \in t.books OBVIOUS
    <2> QED BY <2>1, <1>1 DEF Global, BooksSound
<1>9. Reserved + Total(t.give) <= (IF t.op = "receive" THEN t.on + t.qty ELSE stock)
    BY <1>4, <1>5, <1>7, <1>8 DEF Covered
<1>10. stock' = IF t.op = "receive" THEN t.on + t.qty ELSE stock
    BY DEF CommitApproval, CommitReceipt
<1> QED BY <1>5, <1>9, <1>10

\* Reservations come to exceed the stock only if the books changed between an
\* allocation's reading of free stock and its end: no lock covers the two.
THEOREM OverbookingNeedsOverlap == ContentionSpec => OverbookedOnlyByOverlap
<1> DEFINE A == Reserved' > Reserved /\ Reserved' > stock' =>
                  \E x \in Conn : \E t \in tx[x] : tx'[x] = {} /\ t.books # {<<stock, res>>}
<1>1. ContentionIInv /\ [ContentionNext]_svars => [A]_svars
    <2> SUFFICES ASSUME ContentionIInv, ContentionNext PROVE Overbooks
        BY DEF Overbooks, Unnoticed
    <2>0. Tables BY DEF ContentionIInv
    <2>1. ASSUME NEW x \in Conn, NEW t \in tx[x], CommitApproval(x, t) \/ CommitReceipt(x, t)
          PROVE  Overbooks
        BY <2>1, AllocationsFit
    <2>2. ASSUME NEW x \in Conn, NEW t \in tx[x], CommitIssue(x, t) \/ CommitCancel(x, t)
          PROVE  Overbooks
        <3>1. t \in TxRow /\ t.step = "commit" /\ t.op \in {"issue", "cancel"}
            BY <2>2, UnderWay DEF CommitIssue, CommitCancel
        <3>2. t.qty \in Nat /\ t.l \in Line BY <3>1, TxFields
        <3>3. res[t.l].qty \in Nat BY <2>0, <3>2 DEF Tables, Reservation
        <3>4. PICK n \in Nat : res' = Released(t, n)
            BY <2>2, <3>2, <3>3 DEF CommitIssue, CommitCancel
        <3>5. Reserved' <= Reserved /\ Reserved' \in Nat
            BY <2>0, <3>1, <3>4, ReleaseAddsNothing
        <3>6. Reserved \in Nat BY <2>0, ReservedIsNat
        <3> QED BY <3>5, <3>6 DEF Overbooks
    <2>3. CASE res' = res
        <3>1. Reserved' = Reserved BY <2>3 DEF Reserved
        <3>2. Reserved \in Nat BY <2>0, ReservedIsNat
        <3> QED BY <3>1, <3>2 DEF Overbooks
    <2>4. ASSUME NEW x \in Conn, NEW op \in Op, NEW k \in Line, NEW q \in 1..MaxUnits, Begin(x, op, k, q)
          PROVE  res' = res
        BY <2>4 DEF Begin, rowvars
    <2>5. ASSUME NEW x \in Conn, NEW t \in tx[x],
                 \/ LockLine(x, t) \/ Take(x, t) \/ Update(x, t) \/ Insert(x, t) \/ InsertFails(x, t)
                 \/ LockStock(x, t) \/ FindReservation(x, t) \/ Release(x, t) \/ WriteLine(x, t)
                 \/ SaveInvoice(x, t) \/ SaveItem(x, t) \/ StockIn(x, t) \/ LockJob(x, t)
                 \/ Recompute(x, t) \/ CommitElsewhere(x, t)
                 \/ OrderItem(x, t) \/ MarkRequest(x, t) \/ Drop(x, t)
          PROVE  res' = res
        BY <2>5 DEF LockLine, Take, Update, Insert, InsertFails, LockStock, FindReservation, Release,
                    WriteLine, SaveInvoice, SaveItem, StockIn, LockJob, Recompute, CommitElsewhere, OrderItem, MarkRequest, Drop, Step, rowvars
    <2> QED BY <2>1, <2>2, <2>3, <2>4, <2>5 DEF ContentionNext
<1>2. OverbookedOnlyByOverlap <=> [][A]_svars
    BY PTL DEF OverbookedOnlyByOverlap, A
<1> HIDE DEF A
<1> QED BY <1>1, <1>2, ContentionInvariance, PTL DEF ContentionSpec
===============================================================================

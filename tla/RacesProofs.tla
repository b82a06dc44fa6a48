------------------------------ MODULE RacesProofs -----------------------------
(***************************************************************************)
(* Proofs about the rows that overlapping requests and sessions share: the *)
(* issues with their work orders (Issues), for any number of workers,      *)
(* issues and requests, the cost ledger (CostLedger), for any number of    *)
(* sessions, sources and work orders, and the notices (Notices), for any   *)
(* number of users, plans and jobs.                                        *)
(***************************************************************************)
EXTENDS Issues, CostLedger, Notices, TotalsProofs

-------------------------------------------------------------------------------
(***************************************************************************)
(* Issues: numbers.                                                        *)
(***************************************************************************)
\* A bounded set of naturals has a largest element, and Max finds it.
LEMMA Largest ==
    ASSUME NEW S \in SUBSET Nat, S # {}, NEW b \in Nat, \A n \in S : n <= b
    PROVE  Max(S) \in S /\ \A n \in S : n <= Max(S)
<1> DEFINE T == {c \in Nat : \A n \in S : n <= c}
<1>1. PICK m \in T : \A c \in T : m <= c
    <2>1. T \in SUBSET Nat /\ b \in T OBVIOUS
    <2> HIDE DEF T
    <2> QED BY <2>1, Smallest
<1>2. m \in S
    <2> SUFFICES ASSUME m \notin S PROVE FALSE OBVIOUS
    <2>1. \A n \in S : n <= m /\ n # m /\ n \in Nat /\ m \in Nat OBVIOUS
    <2>2. PICK s \in S : TRUE OBVIOUS
    <2>3. m - 1 \in Nat BY <2>1, <2>2
    <2>4. m - 1 \in T BY <2>1, <2>3
    <2> QED BY <1>1, <2>3, <2>4
<1>3. \E x \in S : \A y \in S : x >= y BY <1>2
<1>4. Max(S) \in S /\ \A y \in S : Max(S) >= y BY <1>3 DEF Max
<1> QED BY <1>4

-------------------------------------------------------------------------------
(***************************************************************************)
(* Issues: the inductive invariant.                                        *)
(***************************************************************************)
\* What a request in hand is about: its rows exist and stay, a copy passed the
\* checks of its view when it was read, and a work order keeps its number.
SoundRequest(r) ==
    /\ r \in Request
    /\ r.op \in IssueOp => issue[r.at].status # "none"
    /\ r.op \in OrderOp => /\ Exists(r.at)
                           /\ r.order.lifecycle # "none"
                           /\ r.order.number = order[r.at].number
    /\ r.op = "validate" => r.saw.status = "new" /\ ~ r.saw.archived
    /\ r.op = "archive" => r.saw.status # "converted"
    /\ r.op = "convert" => ~ r.saw.archived
    /\ r.op = "submit" => r.order.lifecycle = "in_progress"
    /\ r.op = "reject" => r.order.lifecycle = "pending_review"
    /\ r.step \in {"numbered", "created"} => r.op = "convert"
    /\ r.step = "saved" => r.op = "submit"
    /\ r.step = "created" => Exists(r.at)

IssueTables ==
    /\ issue \in [Issue -> IssueRow]
    /\ order \in [Issue -> OrderRow]
    /\ requests \in 0..MaxRequests
    /\ torn \in [Issue -> SUBSET (IssueOp \cup OrderOp \cup {"cut"})]
    /\ \A i \in Issue : issue[i].status = "none" => ~ issue[i].emergency /\ ~ issue[i].archived

Serving ==
    /\ req \in [Worker -> SUBSET Request]
    /\ \A x \in Worker : req[x] = {} \/ \E r \in Request : req[x] = {r}
    /\ \A x \in Worker : \A r \in req[x] : SoundRequest(r)

\* Numbers are unique and there is a highest one.
Numbered ==
    /\ \A i, j \in Issue : Exists(i) /\ Exists(j) /\ order[i].number = order[j].number => i = j
    /\ \E b \in Nat : \A i \in Issue : order[i].number <= b

IssuesIInv ==
    /\ IssueTables
    /\ Serving
    /\ Numbered
    /\ ConvertedHasOrder
    /\ ArchivedHasNoOrder
    /\ ClosedEndsDowntime

-------------------------------------------------------------------------------
(***************************************************************************)
(* Issues: what a step does to the rows and to the requests.               *)
(***************************************************************************)
\* Rows stay, work orders keep their numbers, and what was torn stays torn.
Grows ==
    /\ IssueTables'
    /\ \A i \in Issue : /\ issue[i].status # "none" => issue'[i].status # "none"
                        /\ Exists(i) => /\ order'[i].lifecycle # "none"
                                        /\ order'[i].number = order[i].number
                        /\ torn[i] \subseteq torn'[i]

LEMMA StillSound ==
    ASSUME IssuesIInv, Grows, NEW r, SoundRequest(r)
    PROVE  SoundRequest(r)'
<1>1. r.at \in Issue BY DEF SoundRequest, Request
<1> QED BY <1>1 DEF SoundRequest, Grows, Exists

\* A worker goes on with other requests, none or one.
LEMMA Served ==
    ASSUME IssuesIInv, Grows, NEW x \in Worker, NEW Q,
           req' = [req EXCEPT ![x] = Q],
           Q = {} \/ \E r \in Request : Q = {r} /\ SoundRequest(r)'
    PROVE  /\ Serving'
           /\ req'[x] = Q
           /\ \A y \in Worker : y # x => req'[y] = req[y]
<1>1. req \in [Worker -> SUBSET Request] BY DEF IssuesIInv, Serving
<1>2. Q \subseteq Request OBVIOUS
<1>3. req' \in [Worker -> SUBSET Request] BY <1>1, <1>2
<1>4. req'[x] = Q /\ \A y \in Worker : y # x => req'[y] = req[y] BY <1>1
<1>5. ASSUME NEW y \in Worker PROVE req'[y] = {} \/ \E r \in Request : req'[y] = {r}
    BY <1>4 DEF IssuesIInv, Serving
<1>6. ASSUME NEW y \in Worker, NEW r \in req'[y] PROVE SoundRequest(r)'
    <2>1. CASE y = x BY <1>4, <1>6, <2>1
    <2>2. CASE y # x
        <3>1. SoundRequest(r) BY <1>4, <1>6, <2>2 DEF IssuesIInv, Serving
        <3> QED BY <3>1, StillSound
    <2> QED BY <2>1, <2>2
<1> QED BY <1>3, <1>4, <1>5, <1>6 DEF Serving

\* A conversion under way stays under way while its worker is not the one.
LEMMA StillConverting ==
    ASSUME IssuesIInv, NEW x \in Worker, NEW r \in req[x], NEW i \in Issue,
           r.step # "created" \/ r.at # i,
           \A y \in Worker : y # x => req'[y] = req[y],
           Converting(i)
    PROVE  Converting(i)'
<1>1. PICK y \in Worker : \E q \in req[y] : q.at = i /\ q.step = "created"
    BY DEF Converting
<1>2. req[x] = {r} BY DEF IssuesIInv, Serving
<1>3. y # x BY <1>1, <1>2
<1> QED BY <1>1, <1>3 DEF Converting

\* The log of torn writes.
LEMMA TornKept ==
    ASSUME IssuesIInv, NEW r \in Request, NEW stale \in BOOLEAN, torn' = Torn(r, stale)
    PROVE  /\ torn' \in [Issue -> SUBSET (IssueOp \cup OrderOp \cup {"cut"})]
           /\ \A i \in Issue : torn[i] \subseteq torn'[i]
           /\ stale => r.op \in torn'[r.at]
<1>1. r.at \in Issue /\ r.op \in IssueOp \cup OrderOp BY DEF Request
<1>2. torn \in [Issue -> SUBSET (IssueOp \cup OrderOp \cup {"cut"})]
    BY DEF IssuesIInv, IssueTables
<1>3. PICK ops : ops = (IF stale THEN torn[r.at] \cup {r.op} ELSE torn[r.at]) OBVIOUS
<1>4. torn' = [torn EXCEPT ![r.at] = ops] BY <1>3 DEF Torn
<1>5. /\ ops \in SUBSET (IssueOp \cup OrderOp \cup {"cut"})
      /\ torn[r.at] \subseteq ops
      /\ stale => r.op \in ops
    BY <1>1, <1>2, <1>3
<1>6. torn' \in [Issue -> SUBSET (IssueOp \cup OrderOp \cup {"cut"})]
    BY <1>1, <1>2, <1>4, <1>5
<1>7. \A i \in Issue : torn'[i] = IF i = r.at THEN ops ELSE torn[i]
    BY <1>1, <1>2, <1>4
<1> QED BY <1>1, <1>5, <1>6, <1>7

-------------------------------------------------------------------------------
(***************************************************************************)
(* Issues: steps.                                                          *)
(***************************************************************************)
\* What the invariant says of the rows and of the request a step works on.
LEMMA Facts ==
    ASSUME IssuesIInv
    PROVE  /\ \A i \in Issue : /\ issue[i] \in IssueRow /\ order[i] \in OrderRow
                               /\ torn[i] \subseteq IssueOp \cup OrderOp \cup {"cut"}
           /\ \A x \in Worker : \A r \in req[x] : SoundRequest(r) /\ r \in Request /\ r.at \in Issue
BY DEF IssuesIInv, IssueTables, Serving, SoundRequest, Request

\* The orders are as they were.
LEMMA OrdersSame ==
    ASSUME IssuesIInv, order' = order
    PROVE  /\ Numbered' /\ ClosedEndsDowntime'
           /\ \A i \in Issue : Exists(i)' <=> Exists(i)
BY DEF IssuesIInv, Numbered, ClosedEndsDowntime, Exists

\* Only the requests change.
LEMMA RequestStep ==
    ASSUME IssuesIInv, NEW x \in Worker, NEW Q, req' = [req EXCEPT ![x] = Q],
           UNCHANGED <<issue, order, torn>>, requests' \in 0..MaxRequests,
           Q = {} \/ \E q \in Request : Q = {q} /\ SoundRequest(q),
           req[x] = {} \/ \E r \in req[x] : r.step # "created"
    PROVE  IssuesIInv'
<1>1. Grows BY DEF Grows, IssueTables, IssuesIInv, Exists
<1>2. Q = {} \/ \E q \in Request : Q = {q} /\ SoundRequest(q)' BY <1>1, StillSound
<1>3. Serving' /\ \A y \in Worker : y # x => req'[y] = req[y] BY <1>1, <1>2, Served
<1>4. Numbered' /\ ClosedEndsDowntime' /\ \A i \in Issue : Exists(i)' <=> Exists(i)
    BY OrdersSame
<1>5. ASSUME NEW i \in Issue, Converting(i) PROVE Converting(i)'
    <2>1. CASE req[x] = {} BY <1>3, <1>5, <2>1 DEF Converting
    <2>2. CASE \E r \in req[x] : r.step # "created" BY <1>3, <1>5, <2>2, StillConverting
    <2> QED BY <2>1, <2>2
<1>6. ConvertedHasOrder' /\ ArchivedHasNoOrder'
    BY <1>4, <1>5 DEF IssuesIInv, ConvertedHasOrder, ArchivedHasNoOrder
<1> QED BY <1>1, <1>3, <1>4, <1>6 DEF IssuesIInv, Grows

\* issue_create
LEMMA ReportStep ==
    ASSUME IssuesIInv, NEW i \in Issue, NEW e \in BOOLEAN, Report(i, e)
    PROVE  IssuesIInv'
<1> DEFINE row == [status |-> "new", emergency |-> e, archived |-> FALSE,
                   priority |-> IF e THEN "critical" ELSE "none"]
<1>1. row \in IssueRow /\ row.status = "new" /\ ~ row.archived
    BY DEF IssueRow, Status, Priority
<1>2. /\ issue' = [issue EXCEPT ![i] = row] /\ UNCHANGED <<order, req, torn>>
      /\ issue[i].status = "none" /\ requests' \in 0..MaxRequests
    BY IssuesAssumption DEF Report, IssuesIInv, IssueTables
<1> HIDE DEF row
<1>3. /\ issue' \in [Issue -> IssueRow]
      /\ \A j \in Issue : issue'[j] = IF j = i THEN row ELSE issue[j]
    BY <1>1, <1>2 DEF IssuesIInv, IssueTables
<1>4. Grows BY <1>1, <1>2, <1>3 DEF Grows, IssueTables, IssuesIInv, Exists
<1>5. Serving'
    <2>1. \A x \in Worker : \A r \in req[x] : SoundRequest(r)' BY <1>4, StillSound, Facts
    <2> QED BY <1>2, <2>1 DEF Serving, IssuesIInv
<1>6. Numbered' /\ ClosedEndsDowntime' /\ \A j \in Issue : Exists(j)' <=> Exists(j)
    BY <1>2, OrdersSame
<1>7. \A j \in Issue : Converting(j)' <=> Converting(j) BY <1>2 DEF Converting
<1>8. ConvertedHasOrder' /\ ArchivedHasNoOrder'
    BY <1>1, <1>2, <1>3, <1>6, <1>7
       DEF IssuesIInv, ConvertedHasOrder, ArchivedHasNoOrder
<1> QED BY <1>4, <1>5, <1>6, <1>8 DEF IssuesIInv, Grows

\* One issue is written and the request is done.
LEMMA IssueWritten ==
    ASSUME IssuesIInv, NEW x \in Worker, NEW r \in req[x], NEW row \in IssueRow,
           WriteIssue(x, r, row), row.status # "none",
           row.status = "converted" => issue[r.at].status = "converted",
           row.status # "converted" /\ issue[r.at].status = "converted" => "validate" \in torn'[r.at],
           row.archived => \/ issue[r.at].archived
                           \/ "archive" \in torn'[r.at]
                           \/ issue[r.at].status # "converted"
    PROVE  IssuesIInv'
<1>1. /\ issue' = [issue EXCEPT ![r.at] = row] /\ req' = [req EXCEPT ![x] = {}]
      /\ torn' = Torn(r, IssueStale(r) \/ OrderStale(r)) /\ UNCHANGED <<order, requests>>
      /\ r.step = "read"
    BY DEF WriteIssue, Done
<1>2. r \in Request /\ r.at \in Issue BY Facts
<1>3. /\ issue' \in [Issue -> IssueRow]
      /\ \A j \in Issue : issue'[j] = IF j = r.at THEN row ELSE issue[j]
    BY <1>1, <1>2 DEF IssuesIInv, IssueTables
<1>4. /\ torn' \in [Issue -> SUBSET (IssueOp \cup OrderOp \cup {"cut"})]
      /\ \A i \in Issue : torn[i] \subseteq torn'[i]
    BY <1>1, <1>2, TornKept DEF IssueStale, OrderStale
<1>5. Grows BY <1>1, <1>3, <1>4 DEF Grows, IssueTables, IssuesIInv, Exists
<1>6. Serving' /\ \A y \in Worker : y # x => req'[y] = req[y] BY <1>1, <1>5, Served
<1>7. Numbered' /\ ClosedEndsDowntime' /\ \A i \in Issue : Exists(i)' <=> Exists(i)
    BY <1>1, OrdersSame
<1>8. \A i \in Issue : Converting(i) => Converting(i)' BY <1>1, <1>6, StillConverting
<1>9. ASSUME NEW i \in Issue, Exists(i), issue'[i].status # "converted"
      PROVE  torn'[i] \cap {"cut", "validate"} # {} \/ Converting(i)'
    <2>1. CASE issue[i].status = "converted"
        <3>1. i = r.at BY <1>3, <1>9, <2>1
        <3> QED BY <1>3, <1>9, <2>1, <3>1
    <2>2. CASE issue[i].status # "converted"
        <3>1. torn[i] \cap {"cut", "validate"} # {} \/ Converting(i)
            BY <1>9, <2>2 DEF IssuesIInv, ConvertedHasOrder
        <3> QED BY <1>4, <1>8, <3>1
    <2> QED BY <2>1, <2>2
<1>10. ConvertedHasOrder'
    <2>1. \A i \in Issue : issue'[i].status = "converted" => Exists(i)
        BY <1>3 DEF IssuesIInv, ConvertedHasOrder
    <2> QED BY <1>7, <1>9, <2>1 DEF ConvertedHasOrder
<1>11. ASSUME NEW i \in Issue, Exists(i), issue'[i].archived
       PROVE  torn'[i] \cap {"archive", "convert", "cut", "validate"} # {} \/ Converting(i)'
    <2>1. CASE issue[i].archived
        <3>1. torn[i] \cap {"archive", "convert", "cut", "validate"} # {} \/ Converting(i)
            BY <1>11, <2>1 DEF IssuesIInv, ArchivedHasNoOrder
        <3> QED BY <1>4, <1>8, <3>1
    <2>2. CASE ~ issue[i].archived
        <3>1. i = r.at BY <1>3, <1>11, <2>2
        <3>2. "archive" \in torn'[i] \/ issue[i].status # "converted"
            BY <1>3, <1>11, <2>2, <3>1
        <3>3. issue[i].status # "converted"
                => torn[i] \cap {"cut", "validate"} # {} \/ Converting(i)
            BY <1>11 DEF IssuesIInv, ConvertedHasOrder
        <3> QED BY <1>4, <1>8, <3>2, <3>3
    <2> QED BY <2>1, <2>2
<1>12. ArchivedHasNoOrder' BY <1>7, <1>11 DEF ArchivedHasNoOrder
<1> QED BY <1>5, <1>6, <1>7, <1>10, <1>12 DEF IssuesIInv, Grows

\* validate_issue
LEMMA ValidateStep ==
    ASSUME IssuesIInv, NEW x \in Worker, NEW r \in req[x], NEW p \in Priority \ {"none"},
           Validate(x, r, p)
    PROVE  /\ IssuesIInv'
           /\ \A i \in Issue : i # r.at => issue'[i] = issue[i]
           /\ \/ /\ issue[r.at].emergency => issue'[r.at].emergency
                 /\ issue[r.at].archived => issue'[r.at].archived
              \/ "validate" \in torn'[r.at]
<1> DEFINE row == Validated(r.saw, p)
<1>1. /\ SoundRequest(r) /\ r \in Request /\ r.at \in Issue /\ r.saw \in IssueRow
      /\ issue[r.at] \in IssueRow
    BY Facts DEF Request
<1>2. r.op = "validate" /\ WriteIssue(x, r, row) BY DEF Validate
<1>3. r.saw.status = "new" /\ ~ r.saw.archived BY <1>1, <1>2 DEF SoundRequest
<1>4. /\ row \in IssueRow /\ row.status = "validated"
      /\ row.archived = r.saw.archived /\ row.emergency = r.saw.emergency
    BY <1>1 DEF Validated, IssueRow, Status, Priority
<1> HIDE DEF row
<1>5. issue[r.at] # r.saw => "validate" \in torn'[r.at]
    <2>1. torn' = Torn(r, IssueStale(r) \/ OrderStale(r)) BY <1>2 DEF WriteIssue
    <2>2. (IssueStale(r) \/ OrderStale(r)) \in BOOLEAN BY DEF IssueStale, OrderStale
    <2>3. (IssueStale(r) \/ OrderStale(r)) => r.op \in torn'[r.at]
        BY <1>1, <2>1, <2>2, TornKept
    <2> QED BY <1>2, <2>3 DEF IssueStale
<1>6. \A i \in Issue : issue'[i] = IF i = r.at THEN row ELSE issue[i]
    BY <1>1, <1>2 DEF WriteIssue, IssuesIInv, IssueTables
<1>7. IssuesIInv' BY <1>2, <1>3, <1>4, <1>5, IssueWritten
<1> QED BY <1>1, <1>4, <1>5, <1>6, <1>7

\* escalate_issue_to_emergency and archive_maintenance_issue: columns of the
\* row as it is.
LEMMA ColumnsStep ==
    ASSUME IssuesIInv, NEW x \in Worker, NEW r \in req[x], Escalate(x, r) \/ Archive(x, r)
    PROVE  /\ IssuesIInv'
           /\ \A i \in Issue : /\ issue[i].emergency => issue'[i].emergency
                               /\ issue[i].archived => issue'[i].archived
<1> DEFINE urgent == Escalated(issue[r.at])
           gone == [issue[r.at] EXCEPT !.archived = TRUE]
<1>1. /\ SoundRequest(r) /\ r \in Request /\ r.at \in Issue /\ issue[r.at] \in IssueRow
    BY Facts
<1>2. issue[r.at].status # "none" BY <1>1 DEF SoundRequest, Escalate, Archive, IssueOp
<1>3. /\ urgent \in IssueRow /\ urgent.status = issue[r.at].status
      /\ urgent.archived = issue[r.at].archived /\ urgent.emergency
    BY <1>1 DEF Escalated, IssueRow, Priority
<1>4. /\ gone \in IssueRow /\ gone.status = issue[r.at].status
      /\ gone.emergency = issue[r.at].emergency /\ gone.archived
    BY <1>1 DEF IssueRow
<1> HIDE DEF urgent, gone
<1>5. CASE Escalate(x, r)
    <2>1. WriteIssue(x, r, urgent) BY <1>5 DEF Escalate, urgent
    <2>2. \A i \in Issue : issue'[i] = IF i = r.at THEN urgent ELSE issue[i]
        BY <1>1, <2>1 DEF WriteIssue, IssuesIInv, IssueTables
    <2>3. IssuesIInv' BY <1>2, <1>3, <2>1, IssueWritten
    <2> QED BY <1>3, <2>2, <2>3
<1>6. CASE Archive(x, r)
    <2>1. WriteIssue(x, r, gone) /\ r.op = "archive" BY <1>6 DEF Archive, gone
    <2>2. \A i \in Issue : issue'[i] = IF i = r.at THEN gone ELSE issue[i]
        BY <1>1, <2>1 DEF WriteIssue, IssuesIInv, IssueTables
    <2>3. "archive" \in torn'[r.at] \/ issue[r.at].status # "converted"
        <3>1. torn' = Torn(r, IssueStale(r) \/ OrderStale(r)) BY <2>1 DEF WriteIssue
        <3>2. (IssueStale(r) \/ OrderStale(r)) \in BOOLEAN BY DEF IssueStale, OrderStale
        <3>3. (IssueStale(r) \/ OrderStale(r)) => r.op \in torn'[r.at]
            BY <1>1, <3>1, <3>2, TornKept
        <3>4. r.saw.status # "converted" BY <1>1, <2>1 DEF SoundRequest
        <3> QED BY <2>1, <3>3, <3>4 DEF IssueStale
    <2>4. IssuesIInv' BY <1>2, <1>4, <2>1, <2>3, IssueWritten
    <2> QED BY <1>4, <2>2, <2>4
<1> QED BY <1>5, <1>6

\* The first line of a view.
LEMMA OpenStep ==
    ASSUME IssuesIInv, NEW x \in Worker, NEW op \in IssueOp \cup OrderOp, NEW i \in Issue,
           Open(x, op, i)
    PROVE  IssuesIInv'
<1> DEFINE q == [op |-> op, at |-> i, step |-> "read", saw |-> issue[i],
                 order |-> order[i], number |-> 0, tries |-> 0]
<1>1. /\ req' = [req EXCEPT ![x] = {q}] /\ UNCHANGED <<issue, order, torn>>
      /\ req[x] = {} /\ MayOpen(op, i)
    BY DEF Open
<1>2. requests' \in 0..MaxRequests BY IssuesAssumption DEF Open, IssuesIInv, IssueTables
<1>3. q \in Request BY Facts DEF Request
<1>4. /\ q.op = op /\ q.at = i /\ q.step = "read" /\ q.saw = issue[i] /\ q.order = order[i]
    OBVIOUS
<1> HIDE DEF q
<1>5. SoundRequest(q)
    <2>1. op \in IssueOp => issue[i].status # "none"
        BY <1>1 DEF MayOpen, ShownIssue, Archivable, IssueOp
    <2>2. op \in OrderOp => Exists(i)
        BY <1>1 DEF MayOpen, ShownOrder, OrderOp
    <2>3. /\ op = "validate" => issue[i].status = "new" /\ ~ issue[i].archived
          /\ op = "archive" => issue[i].status # "converted"
          /\ op = "convert" => ~ issue[i].archived
          /\ op = "submit" => order[i].lifecycle = "in_progress"
          /\ op = "reject" => order[i].lifecycle = "pending_review"
        BY <1>1 DEF MayOpen, ShownIssue, Archivable
    <2> QED BY <1>3, <1>4, <2>1, <2>2, <2>3 DEF SoundRequest, Exists
<1> QED BY <1>1, <1>2, <1>3, <1>5, RequestStep

\* WorkOrder.save looks for a number.
LEMMA NumberStep ==
    ASSUME IssuesIInv, NEW x \in Worker, NEW r \in req[x],
           PickNumber(x, r) \/ Retry(x, r) \/ GiveUp(x, r)
    PROVE  IssuesIInv'
<1>1. SoundRequest(r) /\ r \in Request /\ r.at \in Issue BY Facts
<1>2. /\ UNCHANGED <<issue, order, requests, torn>>
      /\ r.step # "created" /\ requests \in 0..MaxRequests
    BY DEF PickNumber, Retry, GiveUp, IssuesIInv, IssueTables
<1>3. CASE PickNumber(x, r)
    <2> DEFINE q == [r EXCEPT !.step = "numbered", !.number = NextNumber(r)]
    <2>1. NextNumber(r) \in Nat
        <3>1. Numbers \in SUBSET Nat BY Facts DEF Numbers, OrderRow
        <3>2. Numbers # {} BY <1>1 DEF Numbers
        <3>3. PICK b \in Nat : \A i \in Issue : order[i].number <= b
            BY DEF IssuesIInv, Numbered
        <3>4. \A n \in Numbers : n <= b BY <3>3 DEF Numbers
        <3>5. Max(Numbers) \in Numbers BY <3>1, <3>2, <3>4, Largest
        <3>6. Max(Numbers) \in Nat BY <3>1, <3>5
        <3>7. Max(Numbers) + 1 \in Nat BY <3>6
        <3> QED BY <3>7 DEF NextNumber
    <2>2. /\ q \in Request /\ q.op = r.op /\ q.at = r.at /\ q.step = "numbered"
          /\ q.saw = r.saw /\ q.order = r.order
        BY <1>1, <2>1 DEF Request
    <2>3. req' = [req EXCEPT ![x] = {q}] /\ r.op = "convert" BY <1>3 DEF PickNumber, GoOn
    <2> HIDE DEF q
    <2>4. SoundRequest(q) BY <1>1, <2>2, <2>3 DEF SoundRequest
    <2> QED BY <1>2, <2>2, <2>3, <2>4, RequestStep
<1>4. CASE Retry(x, r)
    <2> DEFINE q == [r EXCEPT !.step = "read", !.tries = @ + 1]
    <2>1. r.tries + 1 \in Nat BY <1>1 DEF Request
    <2>2. /\ q \in Request /\ q.op = r.op /\ q.at = r.at /\ q.step = "read"
          /\ q.saw = r.saw /\ q.order = r.order
        BY <1>1, <2>1 DEF Request
    <2>3. req' = [req EXCEPT ![x] = {q}] BY <1>4 DEF Retry, GoOn
    <2> HIDE DEF q
    <2>4. SoundRequest(q) BY <1>1, <2>2 DEF SoundRequest
    <2> QED BY <1>2, <2>2, <2>3, <2>4, RequestStep
<1>5. CASE GiveUp(x, r)
    <2>1. req' = [req EXCEPT ![x] = {}] BY <1>5 DEF GiveUp, Done
    <2> QED BY <1>2, <2>1, RequestStep
<1> QED BY <1>3, <1>4, <1>5

\* A request dies.
LEMMA CutOffStep ==
    ASSUME IssuesIInv, NEW x \in Worker, NEW r \in req[x], CutOff(x, r)
    PROVE  IssuesIInv'
<1>1. SoundRequest(r) /\ r \in Request /\ r.at \in Issue BY Facts
<1>2. req' = [req EXCEPT ![x] = {}] /\ UNCHANGED <<issue, order, requests>>
    BY DEF CutOff, Done
<1>3. PICK ops : ops = (IF r.step = "created" THEN torn[r.at] \cup {"cut"} ELSE torn[r.at])
    OBVIOUS
<1>4. torn' = [torn EXCEPT ![r.at] = ops] BY <1>3 DEF CutOff
<1>5. /\ ops \subseteq IssueOp \cup OrderOp \cup {"cut"}
      /\ torn[r.at] \subseteq ops /\ (r.step = "created" => "cut" \in ops)
    BY <1>1, <1>3, Facts
<1>6. /\ torn' \in [Issue -> SUBSET (IssueOp \cup OrderOp \cup {"cut"})]
      /\ \A i \in Issue : torn'[i] = IF i = r.at THEN ops ELSE torn[i]
    BY <1>1, <1>4, <1>5 DEF IssuesIInv, IssueTables
<1>7. Grows BY <1>2, <1>5, <1>6 DEF Grows, IssueTables, IssuesIInv, Exists
<1>8. Serving' /\ \A y \in Worker : y # x => req'[y] = req[y] BY <1>2, <1>7, Served
<1>9. Numbered' /\ ClosedEndsDowntime' /\ \A i \in Issue : Exists(i)' <=> Exists(i)
    BY <1>2, OrdersSame
<1>10. ASSUME NEW i \in Issue, Converting(i) PROVE Converting(i)' \/ "cut" \in torn'[i]
    <2>1. CASE r.step # "created" \/ r.at # i BY <1>8, <1>10, <2>1, StillConverting
    <2>2. CASE r.step = "created" /\ r.at = i BY <1>5, <1>6, <2>2
    <2> QED BY <2>1, <2>2
<1>11. \A i \in Issue : torn[i] \subseteq torn'[i] BY <1>7 DEF Grows
<1>12. ConvertedHasOrder'
    BY <1>2, <1>9, <1>10, <1>11 DEF IssuesIInv, ConvertedHasOrder
<1>13. ArchivedHasNoOrder'
    BY <1>2, <1>9, <1>10, <1>11 DEF IssuesIInv, ArchivedHasNoOrder
<1> QED BY <1>7, <1>8, <1>9, <1>12, <1>13 DEF IssuesIInv, Grows

\* The work order is there.
LEMMA CreateStep ==
    ASSUME IssuesIInv, NEW x \in Worker, NEW r \in req[x], CreateOrder(x, r)
    PROVE  IssuesIInv' /\ ~ Exists(r.at) /\ \A i \in Issue : i # r.at => order'[i] = order[i]
<1> DEFINE new == NewOrder(r)
           q == [r EXCEPT !.step = "created"]
<1>1. SoundRequest(r) /\ r \in Request /\ r.at \in Issue BY Facts
<1>2. /\ req' = [req EXCEPT ![x] = {q}] /\ order' = [order EXCEPT ![r.at] = new]
      /\ torn' = Torn(r, IssueStale(r)) /\ UNCHANGED <<issue, requests>>
      /\ ~ Collides(r) /\ r.step = "numbered"
    BY DEF CreateOrder, GoOn
<1>3. /\ new \in OrderRow /\ new.lifecycle = "assigned" /\ new.number = r.number
      /\ r.number \in Nat
    BY <1>1 DEF NewOrder, NoOrder, OrderRow, Lifecycle, Request, IssueRow
<1>4. /\ q \in Request /\ q.op = r.op /\ q.at = r.at /\ q.step = "created"
      /\ q.saw = r.saw /\ q.order = r.order
    BY <1>1 DEF Request
<1> HIDE DEF new, q
<1>5. /\ order' \in [Issue -> OrderRow]
      /\ \A i \in Issue : order'[i] = IF i = r.at THEN new ELSE order[i]
    BY <1>1, <1>2, <1>3 DEF IssuesIInv, IssueTables
<1>6. ~ Exists(r.at) /\ \A i \in Issue : order[i].number # r.number
    BY <1>2 DEF Collides, Numbers
<1>7. /\ torn' \in [Issue -> SUBSET (IssueOp \cup OrderOp \cup {"cut"})]
      /\ \A i \in Issue : torn[i] \subseteq torn'[i]
    BY <1>1, <1>2, TornKept DEF IssueStale
<1>8. Grows
    BY <1>2, <1>5, <1>6, <1>7 DEF Grows, IssueTables, IssuesIInv, Exists
<1>9. SoundRequest(q)'
    <2>1. SoundRequest(r)' BY <1>1, <1>8, StillSound
    <2>2. order'[r.at].lifecycle # "none" BY <1>1, <1>3, <1>5
    <2>3. PICK p : p = q OBVIOUS
    <2>4. SoundRequest(p)' BY <1>1, <1>2, <1>4, <2>1, <2>2, <2>3 DEF SoundRequest, Exists
    <2> QED BY <2>3, <2>4 DEF q
<1>10. /\ Serving' /\ req'[x] = {q}
       /\ \A y \in Worker : y # x => req'[y] = req[y]
    BY <1>2, <1>4, <1>8, <1>9, Served
<1>11. Numbered'
    <2>1. ASSUME NEW i \in Issue, NEW j \in Issue, order'[i].lifecycle # "none",
                 order'[j].lifecycle # "none", order'[i].number = order'[j].number
          PROVE  i = j
        BY <1>3, <1>5, <1>6, <2>1 DEF IssuesIInv, Numbered, Exists
    <2>2. PICK b \in Nat : \A i \in Issue : order[i].number <= b
        BY DEF IssuesIInv, Numbered
    <2>3. b + r.number \in Nat /\ r.number <= b + r.number /\ b <= b + r.number
        BY <1>3
    <2>4. \A i \in Issue : order[i].number \in Nat BY Facts DEF OrderRow
    <2>5. \A i \in Issue : order'[i].number <= b + r.number
        BY <1>3, <1>5, <2>2, <2>3, <2>4
    <2> QED BY <2>1, <2>3, <2>5 DEF Numbered, Exists
<1>12. Converting(r.at)' BY <1>4, <1>10 DEF Converting
<1>13. \A i \in Issue : Converting(i) => Converting(i)'
    BY <1>2, <1>10, StillConverting
<1>14. ConvertedHasOrder'
    BY <1>1, <1>2, <1>3, <1>5, <1>7, <1>12, <1>13
       DEF IssuesIInv, ConvertedHasOrder, Exists
<1>15. ArchivedHasNoOrder'
    BY <1>1, <1>2, <1>3, <1>5, <1>7, <1>12, <1>13
       DEF IssuesIInv, ArchivedHasNoOrder, Exists
<1>16. ClosedEndsDowntime'
    BY <1>3, <1>5 DEF IssuesIInv, ClosedEndsDowntime
<1> QED BY <1>5, <1>6, <1>8, <1>10, <1>11, <1>14, <1>15, <1>16 DEF IssuesIInv, Grows

\* The issue is marked.
LEMMA MarkStep ==
    ASSUME IssuesIInv, NEW x \in Worker, NEW r \in req[x], MarkConverted(x, r)
    PROVE  /\ IssuesIInv'
           /\ \A i \in Issue : /\ issue[i].emergency => issue'[i].emergency
                               /\ issue[i].archived => issue'[i].archived
<1> DEFINE row == Marked(issue[r.at])
<1>1. SoundRequest(r) /\ r \in Request /\ r.at \in Issue /\ issue[r.at] \in IssueRow BY Facts
<1>2. /\ issue' = [issue EXCEPT ![r.at] = row] /\ req' = [req EXCEPT ![x] = {}]
      /\ torn' = Torn(r, IssueStale(r)) /\ UNCHANGED <<order, requests>>
      /\ r.step = "created"
    BY DEF MarkConverted, Done
<1>3. /\ row \in IssueRow /\ row.status = "converted"
      /\ row.archived = issue[r.at].archived /\ row.emergency = issue[r.at].emergency
    BY <1>1 DEF Marked, IssueRow, Status
<1> HIDE DEF row
<1>4. /\ issue' \in [Issue -> IssueRow]
      /\ \A i \in Issue : issue'[i] = IF i = r.at THEN row ELSE issue[i]
    BY <1>1, <1>2, <1>3 DEF IssuesIInv, IssueTables
<1>5. /\ torn' \in [Issue -> SUBSET (IssueOp \cup OrderOp \cup {"cut"})]
      /\ \A i \in Issue : torn[i] \subseteq torn'[i]
      /\ IssueStale(r) => r.op \in torn'[r.at]
    BY <1>1, <1>2, TornKept DEF IssueStale
<1>6. Grows BY <1>2, <1>3, <1>4, <1>5 DEF Grows, IssueTables, IssuesIInv, Exists
<1>7. Serving' /\ \A y \in Worker : y # x => req'[y] = req[y] BY <1>2, <1>6, Served
<1>8. Numbered' /\ ClosedEndsDowntime' /\ \A i \in Issue : Exists(i)' <=> Exists(i)
    BY <1>2, OrdersSame
<1>9. r.op = "convert" /\ ~ r.saw.archived /\ Exists(r.at)
    BY <1>1, <1>2 DEF SoundRequest
<1>10. \A i \in Issue : i # r.at /\ Converting(i) => Converting(i)'
    BY <1>7, StillConverting
<1>11. ConvertedHasOrder'
    BY <1>3, <1>4, <1>5, <1>8, <1>9, <1>10 DEF IssuesIInv, ConvertedHasOrder
<1>12. ArchivedHasNoOrder'
    <2>1. issue[r.at].archived => "convert" \in torn'[r.at]
        BY <1>5, <1>9 DEF IssueStale
    <2> QED BY <1>3, <1>4, <1>5, <1>8, <1>10, <2>1 DEF IssuesIInv, ArchivedHasNoOrder
<1> QED BY <1>3, <1>4, <1>6, <1>7, <1>8, <1>11, <1>12 DEF IssuesIInv, Grows

\* One work order is written; it keeps its number.
LEMMA OrderWritten ==
    ASSUME IssuesIInv, NEW x \in Worker, NEW r \in req[x], NEW row \in OrderRow,
           NEW stale \in BOOLEAN, NEW Q,
           order' = [order EXCEPT ![r.at] = row], req' = [req EXCEPT ![x] = Q],
           torn' = Torn(r, stale), UNCHANGED <<issue, requests>>,
           r.op \in OrderOp,
           row.lifecycle # "none", row.number = order[r.at].number,
           row.lifecycle = "closed" => row.downtime # "open",
           Q = {} \/ \E q \in Request : /\ Q = {q} /\ q.at = r.at /\ q.op = r.op
                                        /\ q.saw = r.saw /\ q.order = row
                                        /\ q.step = "saved" /\ r.op = "submit"
                                        /\ row.lifecycle = "in_progress"
    PROVE  /\ IssuesIInv'
           /\ \A i \in Issue : order'[i] = IF i = r.at THEN row ELSE order[i]
           /\ stale => r.op \in torn'[r.at]
<1>1. SoundRequest(r) /\ r \in Request /\ r.at \in Issue BY Facts
<1>2. Exists(r.at) /\ r.step # "created"
    BY <1>1 DEF SoundRequest, OrderOp
<1>3. /\ order' \in [Issue -> OrderRow]
      /\ \A i \in Issue : order'[i] = IF i = r.at THEN row ELSE order[i]
    BY <1>1 DEF IssuesIInv, IssueTables
<1>4. /\ torn' \in [Issue -> SUBSET (IssueOp \cup OrderOp \cup {"cut"})]
      /\ \A i \in Issue : torn[i] \subseteq torn'[i]
      /\ stale => r.op \in torn'[r.at]
    BY <1>1, TornKept
<1>5. Grows BY <1>3, <1>4 DEF Grows, IssueTables, IssuesIInv, Exists
<1>6. Q = {} \/ \E q \in Request : Q = {q} /\ SoundRequest(q)'
    <2>1. CASE Q = {} BY <2>1
    <2>2. CASE Q # {}
        <3>1. PICK q \in Request : /\ Q = {q} /\ q.at = r.at /\ q.op = r.op
                                   /\ q.saw = r.saw /\ q.order = row
                                   /\ q.step = "saved" /\ r.op = "submit"
                                   /\ row.lifecycle = "in_progress"
            BY <2>2
        <3>2. order'[r.at] = row BY <1>1, <1>3
        <3>3. q.op \notin IssueOp BY <3>1 DEF IssueOp
        <3>4. SoundRequest(q)' BY <3>1, <3>2, <3>3 DEF SoundRequest, Exists
        <3> QED BY <3>1, <3>4
    <2> QED BY <2>1, <2>2
<1>7. Serving' /\ \A y \in Worker : y # x => req'[y] = req[y] BY <1>5, <1>6, Served
<1>8. \A i \in Issue : Converting(i) => Converting(i)'
    BY <1>2, <1>7, StillConverting
<1>9. \A i \in Issue : (Exists(i)' <=> Exists(i)) /\ order'[i].number = order[i].number
    BY <1>2, <1>3 DEF Exists
<1>10. Numbered' BY <1>9 DEF IssuesIInv, Numbered
<1>11. ConvertedHasOrder' BY <1>4, <1>8, <1>9 DEF IssuesIInv, ConvertedHasOrder
<1>12. ArchivedHasNoOrder' BY <1>4, <1>8, <1>9 DEF IssuesIInv, ArchivedHasNoOrder
<1>13. ClosedEndsDowntime' BY <1>3 DEF IssuesIInv, ClosedEndsDowntime
<1> QED BY <1>3, <1>4, <1>5, <1>7, <1>10, <1>11, <1>12, <1>13 DEF IssuesIInv, Grows

\* What a step on a work order may do to a closed one.
ReopensOnlyTorn ==
    \A i \in Issue : order[i].lifecycle = "closed" /\ order'[i].lifecycle # "closed" =>
      torn'[i] \cap {"submit", "reject", "assign"} # {}

\* The pages that end a request with one write.
LEMMA WriteOrderStep ==
    ASSUME IssuesIInv, NEW x \in Worker, NEW r \in req[x], NEW row \in OrderRow,
           NEW stale \in BOOLEAN, WriteOrder(x, r, row, stale), r.op \in OrderOp,
           row.lifecycle # "none", row.number = order[r.at].number,
           row.lifecycle = "closed" => row.downtime # "open",
           order[r.at].lifecycle = "closed" /\ row.lifecycle # "closed"
             => stale /\ r.op \in {"submit", "reject", "assign"}
    PROVE  IssuesIInv' /\ issue' = issue /\ ReopensOnlyTorn
<1>1. /\ order' = [order EXCEPT ![r.at] = row] /\ req' = [req EXCEPT ![x] = {}]
      /\ torn' = Torn(r, stale) /\ UNCHANGED <<issue, requests>>
    BY DEF WriteOrder, Done
<1>2. /\ IssuesIInv'
      /\ \A i \in Issue : order'[i] = IF i = r.at THEN row ELSE order[i]
      /\ stale => r.op \in torn'[r.at]
    BY <1>1, OrderWritten
<1> QED BY <1>1, <1>2 DEF ReopensOnlyTorn

LEMMA StartStep ==
    ASSUME IssuesIInv, NEW x \in Worker, NEW r \in req[x], Start(x, r)
    PROVE  IssuesIInv' /\ issue' = issue /\ ReopensOnlyTorn
<1> DEFINE row == [ClockStarted(order[r.at]) EXCEPT !.lifecycle = "in_progress"]
<1>1. order[r.at] \in OrderRow BY Facts
<1>2. /\ r.op = "start" /\ WriteOrder(x, r, row, FALSE)
      /\ order[r.at].lifecycle # "closed"
    BY DEF Start, StartedFrom, Legal
<1>3. row \in OrderRow /\ row.lifecycle = "in_progress" /\ row.number = order[r.at].number
    BY <1>1 DEF ClockStarted, OrderRow, Lifecycle
<1> HIDE DEF row
<1> QED BY <1>2, <1>3, WriteOrderStep DEF OrderOp

\* work_order_assign
LEMMA AssignTechStep ==
    ASSUME IssuesIInv, NEW x \in Worker, NEW r \in req[x], AssignTech(x, r)
    PROVE  IssuesIInv' /\ issue' = issue /\ ReopensOnlyTorn
<1>1. SoundRequest(r) /\ r \in Request /\ r.at \in Issue /\ order[r.at] \in OrderRow BY Facts
<1>2. r.op = "assign" /\ order[r.at].lifecycle # "none"
    BY <1>1 DEF AssignTech, SoundRequest, OrderOp, Exists
<1>3. CASE WriteOrder(x, r, order[r.at], FALSE)
    <2>1. order[r.at].lifecycle = "closed" => order[r.at].downtime # "open"
        BY <1>1 DEF IssuesIInv, ClosedEndsDowntime
    <2> DEFINE row == order[r.at]
    <2>2. /\ row \in OrderRow /\ row = order[r.at] /\ WriteOrder(x, r, row, FALSE)
          /\ row.lifecycle = "closed" => row.downtime # "open"
        BY <1>1, <1>3, <2>1
    <2> HIDE DEF row
    <2> QED BY <1>2, <2>2, WriteOrderStep DEF OrderOp
<1>4. CASE /\ Legal(r.order.lifecycle, "assigned")
           /\ WriteOrder(x, r, [order[r.at] EXCEPT !.lifecycle = "assigned"], OrderStale(r))
    <2> DEFINE row == [order[r.at] EXCEPT !.lifecycle = "assigned"]
    <2>1. WriteOrder(x, r, row, OrderStale(r)) BY <1>4
    <2>2. row \in OrderRow /\ row.lifecycle = "assigned" /\ row.number = order[r.at].number
        BY <1>1 DEF OrderRow, Lifecycle
    <2>3. OrderStale(r) \in BOOLEAN /\ (order[r.at].lifecycle = "closed" => OrderStale(r))
        BY <1>4 DEF Legal, OrderStale
    <2> HIDE DEF row
    <2> QED BY <1>2, <2>1, <2>2, <2>3, WriteOrderStep DEF OrderOp
<1> QED BY <1>3, <1>4 DEF AssignTech

\* manager_close_work_order, archive_work_order, restore_work_order and the
\* last part of work_order_submit.
LEMMA ManagerStep ==
    ASSUME IssuesIInv, NEW x \in Worker, NEW r \in req[x],
           Submit(x, r) \/ Approve(x, r) \/ Reject(x, r) \/ ArchiveOrder(x, r)
    PROVE  IssuesIInv' /\ issue' = issue /\ ReopensOnlyTorn
<1>1. SoundRequest(r) /\ r \in Request /\ r.at \in Issue /\ order[r.at] \in OrderRow BY Facts
<1>2. OrderStale(r) \in BOOLEAN /\ (r.order # order[r.at] => OrderStale(r)) BY DEF OrderStale
<1>3. CASE Submit(x, r)
    <2> DEFINE row == [order[r.at] EXCEPT !.lifecycle = "pending_review"]
    <2>1. WriteOrder(x, r, row, OrderStale(r)) /\ r.op = "submit"
        BY <1>1, <1>3 DEF Submit, SoundRequest
    <2>2. row \in OrderRow /\ row.lifecycle = "pending_review" /\ row.number = order[r.at].number
        BY <1>1 DEF OrderRow, Lifecycle
    <2>3. order[r.at].lifecycle = "closed" => OrderStale(r)
        BY <1>1, <1>2, <2>1 DEF SoundRequest
    <2> HIDE DEF row
    <2> QED BY <1>2, <2>1, <2>2, <2>3, WriteOrderStep DEF OrderOp
<1>4. CASE Approve(x, r)
    <2> DEFINE row == [order[r.at] EXCEPT !.lifecycle = "closed", !.downtime = Ended(r)]
    <2>1. WriteOrder(x, r, row, OrderStale(r)) /\ r.op = "approve"
        BY <1>4 DEF Approve
    <2>2. Ended(r) \in {"none", "ended"} BY <1>1 DEF Ended, OrderRow
    <2>3. /\ row \in OrderRow /\ row.lifecycle = "closed" /\ row.number = order[r.at].number
          /\ row.downtime # "open"
        BY <1>1, <2>2 DEF OrderRow, Lifecycle
    <2> HIDE DEF row
    <2> QED BY <1>2, <2>1, <2>3, WriteOrderStep DEF OrderOp
<1>5. CASE Reject(x, r)
    <2> DEFINE row == [order[r.at] EXCEPT !.lifecycle = "in_progress"]
    <2>1. WriteOrder(x, r, row, OrderStale(r)) /\ r.op = "reject" BY <1>5 DEF Reject
    <2>2. row \in OrderRow /\ row.lifecycle = "in_progress" /\ row.number = order[r.at].number
        BY <1>1 DEF OrderRow, Lifecycle
    <2>3. order[r.at].lifecycle = "closed" => OrderStale(r)
        BY <1>1, <1>2, <2>1 DEF SoundRequest
    <2> HIDE DEF row
    <2> QED BY <1>2, <2>1, <2>2, <2>3, WriteOrderStep DEF OrderOp
<1>6. CASE ArchiveOrder(x, r)
    <2> DEFINE row == [order[r.at] EXCEPT !.archived = (r.op = "archive_order")]
    <2>1. WriteOrder(x, r, row, OrderStale(r)) /\ r.op \in {"archive_order", "restore_order"}
        BY <1>6 DEF ArchiveOrder
    <2>2. order[r.at].lifecycle # "none" BY <1>1, <2>1 DEF SoundRequest, OrderOp, Exists
    <2>3. /\ row \in OrderRow /\ row.lifecycle = order[r.at].lifecycle
          /\ row.number = order[r.at].number /\ row.downtime = order[r.at].downtime
        BY <1>1 DEF OrderRow
    <2>4. row.lifecycle = "closed" => row.downtime # "open"
        BY <1>1, <2>3 DEF IssuesIInv, ClosedEndsDowntime
    <2> HIDE DEF row
    <2> QED BY <1>2, <2>1, <2>2, <2>3, <2>4, WriteOrderStep DEF OrderOp
<1> QED BY <1>3, <1>4, <1>5, <1>6

\* The completion form saves its copy over the row.
LEMMA SaveFormStep ==
    ASSUME IssuesIInv, NEW x \in Worker, NEW r \in req[x], SaveForm(x, r)
    PROVE  IssuesIInv' /\ issue' = issue /\ ReopensOnlyTorn
<1> DEFINE row == [r.order EXCEPT !.downtime = order[r.at].downtime]
           q == [r EXCEPT !.step = "saved", !.order = row]
<1>1. SoundRequest(r) /\ r \in Request /\ r.at \in Issue /\ order[r.at] \in OrderRow BY Facts
<1>2. /\ order' = [order EXCEPT ![r.at] = row] /\ req' = [req EXCEPT ![x] = {q}]
      /\ torn' = Torn(r, OrderStale(r)) /\ UNCHANGED <<issue, requests>>
      /\ r.op = "submit"
    BY DEF SaveForm, GoOn
<1>3. r.order \in OrderRow BY <1>1 DEF Request
<1>4. row \in OrderRow /\ row.lifecycle = r.order.lifecycle /\ row.number = r.order.number
    BY <1>1, <1>3 DEF OrderRow
<1>5. r.order.lifecycle = "in_progress" /\ r.order.number = order[r.at].number
    BY <1>1, <1>2 DEF SoundRequest, OrderOp
<1> HIDE DEF row
<1>6. /\ q \in Request /\ q.op = r.op /\ q.at = r.at /\ q.step = "saved"
      /\ q.saw = r.saw /\ q.order = row
    BY <1>1, <1>4 DEF Request
<1> HIDE DEF q
<1>7. OrderStale(r) \in BOOLEAN /\ (order[r.at].lifecycle = "closed" => OrderStale(r))
    BY <1>5 DEF OrderStale
<1>8. /\ IssuesIInv'
      /\ \A i \in Issue : order'[i] = IF i = r.at THEN row ELSE order[i]
      /\ OrderStale(r) => r.op \in torn'[r.at]
    BY <1>2, <1>4, <1>5, <1>6, <1>7, OrderWritten DEF OrderOp
<1> QED BY <1>2, <1>7, <1>8 DEF ReopensOnlyTorn

-------------------------------------------------------------------------------
(***************************************************************************)
(* Issues: the theorems.                                                   *)
(***************************************************************************)
\* What a step may do to an emergency or to an archived issue.
TakesNothingBack ==
    \A i \in Issue :
      \/ /\ issue[i].emergency => issue'[i].emergency
         /\ issue[i].archived => issue'[i].archived
      \/ "validate" \in torn'[i]

LEMMA EveryStep ==
    ASSUME IssuesIInv, IssuesNext
    PROVE  IssuesIInv' /\ TakesNothingBack /\ ReopensOnlyTorn
<1>1. ASSUME NEW i \in Issue, NEW e \in BOOLEAN, Report(i, e)
      PROVE  IssuesIInv' /\ TakesNothingBack /\ ReopensOnlyTorn
    <2>1. \A j \in Issue : j # i => issue'[j] = issue[j]
        BY <1>1 DEF Report, IssuesIInv, IssueTables
    <2>2. ~ issue[i].emergency /\ ~ issue[i].archived
        BY <1>1 DEF Report, IssuesIInv, IssueTables
    <2>3. order' = order BY <1>1 DEF Report
    <2> QED BY <1>1, <2>1, <2>2, <2>3, ReportStep DEF TakesNothingBack, ReopensOnlyTorn
<1>2. ASSUME NEW x \in Worker, NEW i \in Issue, NEW op \in IssueOp \cup OrderOp, Open(x, op, i)
      PROVE  IssuesIInv' /\ TakesNothingBack /\ ReopensOnlyTorn
    <2>1. UNCHANGED <<issue, order>> BY <1>2 DEF Open
    <2> QED BY <1>2, <2>1, OpenStep DEF TakesNothingBack, ReopensOnlyTorn
<1>3. ASSUME NEW x \in Worker, NEW r \in req[x],
             \/ \E p \in Priority \ {"none"} : Validate(x, r, p)
             \/ Escalate(x, r) \/ Archive(x, r) \/ MarkConverted(x, r)
      PROVE  IssuesIInv' /\ TakesNothingBack /\ ReopensOnlyTorn
    <2>1. order' = order
        BY <1>3 DEF Validate, Escalate, Archive, WriteIssue, MarkConverted
    <2>2. IssuesIInv' /\ TakesNothingBack
        BY <1>3, ValidateStep, ColumnsStep, MarkStep DEF TakesNothingBack
    <2> QED BY <2>1, <2>2 DEF ReopensOnlyTorn
<1>4. ASSUME NEW x \in Worker, NEW r \in req[x],
             PickNumber(x, r) \/ Retry(x, r) \/ GiveUp(x, r) \/ CutOff(x, r)
      PROVE  IssuesIInv' /\ TakesNothingBack /\ ReopensOnlyTorn
    <2>1. UNCHANGED <<issue, order>> BY <1>4 DEF PickNumber, Retry, GiveUp, CutOff
    <2> QED BY <1>4, <2>1, NumberStep, CutOffStep DEF TakesNothingBack, ReopensOnlyTorn
<1>5. ASSUME NEW x \in Worker, NEW r \in req[x], CreateOrder(x, r)
      PROVE  IssuesIInv' /\ TakesNothingBack /\ ReopensOnlyTorn
    <2>1. issue' = issue BY <1>5 DEF CreateOrder
    <2> QED BY <1>5, <2>1, CreateStep DEF TakesNothingBack, ReopensOnlyTorn, Exists
<1>6. ASSUME NEW x \in Worker, NEW r \in req[x],
             \/ AssignTech(x, r) \/ Start(x, r) \/ SaveForm(x, r) \/ Submit(x, r)
             \/ Approve(x, r) \/ Reject(x, r) \/ ArchiveOrder(x, r)
      PROVE  IssuesIInv' /\ TakesNothingBack /\ ReopensOnlyTorn
    BY <1>6, AssignTechStep, StartStep, SaveFormStep, ManagerStep DEF TakesNothingBack
<1> QED BY <1>1, <1>2, <1>3, <1>4, <1>5, <1>6 DEF IssuesNext

LEMMA IssuesInvariance == IssuesSpec => []IssuesIInv
<1>1. IssuesInit => IssuesIInv
    <2> SUFFICES ASSUME IssuesInit PROVE IssuesIInv OBVIOUS
    <2>1. NoIssue \in IssueRow /\ NoIssue.status = "none" /\ ~ NoIssue.emergency
          /\ ~ NoIssue.archived
        BY DEF NoIssue, IssueRow, Status, Priority
    <2>2. NoOrder \in OrderRow /\ NoOrder.lifecycle = "none" /\ NoOrder.number = 0
        BY DEF NoOrder, OrderRow, Lifecycle
    <2>3. issue \in [Issue -> IssueRow] /\ \A i \in Issue : issue[i] = NoIssue
        BY <2>1 DEF IssuesInit
    <2>4. order \in [Issue -> OrderRow] /\ \A i \in Issue : order[i] = NoOrder
        BY <2>2 DEF IssuesInit
    <2>5. IssueTables BY <2>1, <2>3, <2>4, IssuesAssumption DEF IssueTables, IssuesInit
    <2>6. Serving BY DEF Serving, IssuesInit
    <2>7. Numbered BY <2>2, <2>4 DEF Numbered, Exists
    <2>8. ConvertedHasOrder /\ ArchivedHasNoOrder /\ ClosedEndsDowntime
        BY <2>1, <2>2, <2>3, <2>4
           DEF ConvertedHasOrder, ArchivedHasNoOrder, ClosedEndsDowntime, Exists
    <2> QED BY <2>5, <2>6, <2>7, <2>8 DEF IssuesIInv
<1>2. IssuesIInv /\ [IssuesNext]_ivars => IssuesIInv'
    <2> SUFFICES ASSUME IssuesIInv, [IssuesNext]_ivars PROVE IssuesIInv' OBVIOUS
    <2>1. CASE IssuesNext BY <2>1, EveryStep
    <2>2. CASE UNCHANGED ivars
        <3>1. UNCHANGED <<issue, order, req, requests, torn>> BY <2>2 DEF ivars
        <3>2. IssueTables' BY <3>1 DEF IssuesIInv, IssueTables
        <3>3. Grows BY <3>1, <3>2 DEF Grows, Exists
        <3>4. Serving'
            <4>1. \A x \in Worker : \A r \in req[x] : SoundRequest(r)' BY <3>3, StillSound, Facts
            <4> QED BY <3>1, <4>1 DEF Serving, IssuesIInv
        <3>5. Numbered' /\ ClosedEndsDowntime' /\ \A i \in Issue : Exists(i)' <=> Exists(i)
            BY <3>1, OrdersSame
        <3>6. \A i \in Issue : Converting(i)' <=> Converting(i) BY <3>1 DEF Converting
        <3>7. ConvertedHasOrder' /\ ArchivedHasNoOrder'
            BY <3>1, <3>5, <3>6 DEF IssuesIInv, ConvertedHasOrder, ArchivedHasNoOrder
        <3> QED BY <3>2, <3>4, <3>5, <3>7 DEF IssuesIInv
    <2> QED BY <2>1, <2>2
<1> QED BY <1>1, <1>2, PTL DEF IssuesSpec

\* An issue is CONVERTED exactly when its work order exists, up to the overlaps
\* and the interruption IssuesInv names, and no two work orders share a number,
\* however many workers convert at once.
THEOREM ConversionsSound == IssuesSpec => []IssuesInv
<1>1. IssuesIInv => IssuesInv
    <2> SUFFICES ASSUME IssuesIInv PROVE IssuesInv OBVIOUS
    <2>1. ASSUME NEW x \in Worker PROVE req[x] \subseteq Request /\ Cardinality(req[x]) <= 1
        <3>1. req[x] = {} \/ \E r \in Request : req[x] = {r} BY DEF IssuesIInv, Serving
        <3>2. CASE req[x] = {}
            <4>1. Cardinality(req[x]) = 0 BY <3>2, FS_EmptySet
            <4> QED BY <3>2, <4>1
        <3>3. CASE \E r \in Request : req[x] = {r}
            <4>1. Cardinality(req[x]) = 1 BY <3>3, FS_Singleton
            <4> QED BY <3>3, <4>1
        <3> QED BY <3>1, <3>2, <3>3
    <2>2. IssuesTypeOK BY <2>1 DEF IssuesIInv, IssueTables, Numbered, IssuesTypeOK
    <2> QED BY <2>2 DEF IssuesInv, IssuesIInv
<1> QED BY <1>1, IssuesInvariance, PTL

\* A closed work order has no open Downtime row, whatever overlaps its closing.
THEOREM DowntimeEnds == IssuesSpec => []ClosedEndsDowntime
<1>1. IssuesIInv => ClosedEndsDowntime BY DEF IssuesIInv
<1> QED BY <1>1, IssuesInvariance, PTL

\* Only a validation that was overtaken takes back an emergency or an archiving.
THEOREM OnlyValidationTakesBack == IssuesSpec => NothingTakenBack
<1>1. IssuesIInv /\ [IssuesNext]_ivars => [TakesNothingBack]_ivars
    BY EveryStep
<1>2. NothingTakenBack <=> [][TakesNothingBack]_ivars
    BY PTL DEF NothingTakenBack, TakesNothingBack
<1> QED BY <1>1, <1>2, IssuesInvariance, PTL DEF IssuesSpec

\* Only a submission, a rejection or an assignment that was overtaken reopens a
\* closed order.
THEOREM OnlyOverlapReopens == IssuesSpec => ReopenedOnlyByOverlap
<1>1. IssuesIInv /\ [IssuesNext]_ivars => [ReopensOnlyTorn]_ivars
    BY EveryStep
<1>2. ReopenedOnlyByOverlap <=> [][ReopensOnlyTorn]_ivars
    BY PTL DEF ReopenedOnlyByOverlap, ReopensOnlyTorn
<1> QED BY <1>1, <1>2, IssuesInvariance, PTL DEF IssuesSpec

-------------------------------------------------------------------------------
(***************************************************************************)
(* The ledger: sums of amounts.                                            *)
(***************************************************************************)
Charges(f) == [i \in DOMAIN f |-> AtLeastZero(f[i])]
Credits(f) == [i \in DOMAIN f |-> AtLeastZero(-f[i])]

\* An amount is what it charges less what it credits.
LEMMA Signed ==
    ASSUME NEW S, NEW f \in [S -> Int]
    PROVE  /\ Charges(f) \in [S -> Nat]
           /\ Credits(f) \in [S -> Nat]
           /\ \A i \in S : f[i] = Charges(f)[i] - Credits(f)[i]
           /\ TotalOf(f) = Total(Charges(f)) - Total(Credits(f))
<1>1. DOMAIN f = S OBVIOUS
<1>2. \A i \in S : /\ AtLeastZero(f[i]) \in Nat
                   /\ AtLeastZero(-f[i]) \in Nat
                   /\ f[i] = AtLeastZero(f[i]) - AtLeastZero(-f[i])
    BY DEF AtLeastZero
<1> QED BY <1>1, <1>2 DEF Charges, Credits, TotalOf

\* A sum of amounts is an amount.
LEMMA SumType ==
    ASSUME NEW S, IsFiniteSet(S), NEW f \in [S -> Int]
    PROVE  TotalOf(f) \in Int
<1>1. Total(Charges(f)) \in Nat /\ Total(Credits(f)) \in Nat
    BY Signed, TotalType
<1> QED BY <1>1, Signed

\* Amounts of zero come to zero.
LEMMA SumNone ==
    ASSUME NEW S, NEW f \in [S -> Int], \A i \in S : f[i] = 0
    PROVE  TotalOf(f) = 0
<1>1. \A i \in S : Charges(f)[i] = 0 /\ Credits(f)[i] = 0
    BY DEF Charges, Credits, AtLeastZero
<1>2. Total(Charges(f)) = 0 /\ Total(Credits(f)) = 0
    BY <1>1, Signed, TotalNone
<1> QED BY <1>2, Signed

\* One amount.
LEMMA SumOne ==
    ASSUME NEW k, NEW f \in [{k} -> Int]
    PROVE  TotalOf(f) = f[k]
<1>1. Total(Charges(f)) = Charges(f)[k] /\ Total(Credits(f)) = Credits(f)[k]
    BY Signed, TotalOne
<1> QED BY <1>1, Signed

\* Amounts of two disjoint sets of rows.
LEMMA SumUnion ==
    ASSUME NEW f, NEW a, NEW b, Splits(f, a, b, Int)
    PROVE  TotalOf(f) = TotalOf(a) + TotalOf(b)
<1>1. Splits(Charges(f), Charges(a), Charges(b), Nat)
    BY DEF Splits, Charges, AtLeastZero
<1>2. Splits(Credits(f), Credits(a), Credits(b), Nat)
    BY DEF Splits, Credits, AtLeastZero
<1>3. /\ Total(Charges(f)) = Total(Charges(a)) + Total(Charges(b))
      /\ Total(Charges(a)) \in Nat /\ Total(Charges(b)) \in Nat
    BY <1>1, TotalUnion
<1>4. /\ Total(Credits(f)) = Total(Credits(a)) + Total(Credits(b))
      /\ Total(Credits(a)) \in Nat /\ Total(Credits(b)) \in Nat
    BY <1>2, TotalUnion
<1>5. /\ TotalOf(f) = Total(Charges(f)) - Total(Credits(f))
      /\ TotalOf(a) = Total(Charges(a)) - Total(Credits(a))
      /\ TotalOf(b) = Total(Charges(b)) - Total(Credits(b))
    BY DEF TotalOf, Charges, Credits
<1> QED BY <1>3, <1>4, <1>5

-------------------------------------------------------------------------------
(***************************************************************************)
(* The ledger: the sums of a work order.                                   *)
(***************************************************************************)
RowsOf(w, c) == {r \in Source : WoOf[r] = w /\ CategoryOf(r) = c}

\* Every source has a category.
LEMMA Categorised ==
    ASSUME NEW s \in Source
    PROVE  CategoryOf(s) \in CostCategory
BY CostLedgerAssumption DEF CategoryOf, CostCategory, SourceType

LEMMA SumsType ==
    ASSUME NEW n \in [Source -> Int], NEW w
    PROVE  SumsOf(n, w) \in Sums
<1> SUFFICES ASSUME NEW c \in CostCategory
             PROVE  TotalOf([s \in RowsOf(w, c) |-> n[s]]) \in Int
    BY DEF SumsOf, Sums, RowsOf
<1>1. IsFiniteSet(RowsOf(w, c)) BY CostLedgerAssumption, FS_Subset DEF RowsOf
<1>2. [s \in RowsOf(w, c) |-> n[s]] \in [RowsOf(w, c) -> Int] BY DEF RowsOf
<1> QED BY <1>1, <1>2, SumType

\* What is posted elsewhere does not change the sums of a work order.
LEMMA SumsSame ==
    ASSUME NEW n, NEW m, NEW w,
           \A r \in Source : WoOf[r] = w => n[r] = m[r]
    PROVE  SumsOf(n, w) = SumsOf(m, w)
<1>1. \A c \in CostCategory :
        [s \in RowsOf(w, c) |-> n[s]] = [s \in RowsOf(w, c) |-> m[s]]
    BY DEF RowsOf
<1> QED BY <1>1 DEF SumsOf, RowsOf

\* The sums are zero where every balance is.
LEMMA SumsNone ==
    ASSUME NEW n \in [Source -> Int], NEW w,
           \A r \in Source : WoOf[r] = w => n[r] = 0
    PROVE  SumsOf(n, w) = ZeroSums
<1> SUFFICES ASSUME NEW c \in CostCategory
             PROVE  TotalOf([s \in RowsOf(w, c) |-> n[s]]) = 0
    BY DEF SumsOf, RowsOf, ZeroSums
<1> DEFINE f == [s \in RowsOf(w, c) |-> n[s]]
<1>1. f \in [RowsOf(w, c) -> Int] /\ \A i \in RowsOf(w, c) : f[i] = 0
    BY DEF RowsOf
<1> HIDE DEF f
<1>2. TotalOf(f) = 0 BY <1>1, SumNone
<1> QED BY <1>2 DEF f

\* A balance moves the sum of its category and no other.
LEMMA SumsMove ==
    ASSUME NEW n \in [Source -> Int], NEW m \in [Source -> Int], NEW s \in Source,
           \A r \in Source \ {s} : m[r] = n[r]
    PROVE  /\ SumsOf(m, WoOf[s])[CategoryOf(s)] = SumsOf(n, WoOf[s])[CategoryOf(s)] + m[s] - n[s]
           /\ \A c \in CostCategory \ {CategoryOf(s)} : SumsOf(m, WoOf[s])[c] = SumsOf(n, WoOf[s])[c]
<1> DEFINE w == WoOf[s]
           f(k, c) == [r \in RowsOf(w, c) |-> k[r]]
<1>1. \A k : \A c \in CostCategory : SumsOf(k, w)[c] = TotalOf(f(k, c))
    BY DEF SumsOf, RowsOf
<1>2. ASSUME NEW c \in CostCategory \ {CategoryOf(s)}
      PROVE  f(m, c) = f(n, c)
    BY <1>2 DEF RowsOf
<1>3. TotalOf(f(m, CategoryOf(s))) = TotalOf(f(n, CategoryOf(s))) + m[s] - n[s]
    <2> DEFINE R == RowsOf(w, CategoryOf(s))
               g == f(m, CategoryOf(s))
               h == f(n, CategoryOf(s))
               a == [i \in {s} |-> m[i]]
               b == [i \in {s} |-> n[i]]
               rest == [i \in R \ {s} |-> n[i]]
    <2>1. s \in R /\ R \subseteq Source BY DEF RowsOf
    <2>2. IsFiniteSet(R) BY CostLedgerAssumption, FS_Subset DEF RowsOf
    <2>3. a \in [{s} -> Int] /\ a[s] = m[s] /\ b \in [{s} -> Int] /\ b[s] = n[s] OBVIOUS
    <2>4. rest \in [R \ {s} -> Int] BY <2>1
    <2>5. Splits(g, a, rest, Int) BY <2>1, <2>2 DEF Splits
    <2>6. Splits(h, b, rest, Int) BY <2>1, <2>2 DEF Splits
    <2>7. IsFiniteSet(R \ {s}) BY <2>2, FS_Subset
    <2>8. TotalOf(rest) \in Int BY <2>4, <2>7, SumType
    <2> HIDE DEF R, g, h, a, b, rest
    <2>9. TotalOf(g) = TotalOf(a) + TotalOf(rest) BY <2>5, SumUnion
    <2>10. TotalOf(h) = TotalOf(b) + TotalOf(rest) BY <2>6, SumUnion
    <2>11. TotalOf(a) = m[s] /\ TotalOf(b) = n[s] BY <2>3, SumOne
    <2>12. m[s] \in Int /\ n[s] \in Int OBVIOUS
    <2>13. TotalOf(g) = TotalOf(h) + m[s] - n[s] BY <2>8, <2>9, <2>10, <2>11, <2>12
    <2> QED BY <2>13 DEF g, h
<1>4. CategoryOf(s) \in CostCategory BY Categorised
<1> HIDE DEF f
<1> QED BY <1>1, <1>2, <1>3, <1>4

-------------------------------------------------------------------------------
(***************************************************************************)
(* The ledger: the inductive invariant.                                    *)
(***************************************************************************)
\* The balances as the transaction t sees them among committed balances n.
Own(t, n) == [s \in Source |-> IF s \in t.source THEN n[s] + t.delta ELSE n[s]]

\* A transaction holds one source row or none.  From the lock on, nobody else
\* moves that source's balance, so the difference it posts stays the right one;
\* sums that were read and not overtaken are still the sums.
SoundTxn(t) ==
    /\ t \in Transaction
    /\ t.step = "idle" => t = Idle
    /\ t.step \in {"posted", "read"} => t.wo \in Wo
    /\ t.step # "read" => ~ t.overtaken /\ ~ t.creates
    /\ t.source = {} => t.delta = 0 /\ t.step \in {"idle", "posted", "read"}
    /\ \A s \in t.source :
         /\ t.source = {s}
         /\ t.wo = WoOf[s]
         /\ KindOf[s] # "migration_backfill"
         /\ t.step \in {"posted", "read"} => t.delta = t.due - net[s]
         /\ t.step = "done" => t.due = net[s] \/ (KindOf[s] = "external_repair_order" /\ t.due = 0)
    /\ t.step = "read" =>
         /\ t.creates <=> ~ cache[t.wo].exists
         /\ ~ t.overtaken => t.sums = SumsOf(Own(t, net), t.wo)
         /\ t.source = {} /\ entries[t.wo] = 0 => t.sums = ZeroSums

\* A source row is locked by one session.
LockedByOne ==
    \A x, y \in Session : x # y => txn[x].source \cap txn[y].source = {}

\* The sums m are of what the card of w showed before the ledger, or zero.
Historic(m, w) == \A c \in CostCategory : m[c] \in {0, Legacy[w][c]}

\* A command's copy is the card until somebody writes that.  The backfill books
\* what the card showed before the ledger, category by category; the check knows
\* which fields are near their sums.
SoundBackfill(k) ==
    /\ ~ k.overtaken => k.copy = cache[k.wo].sums
    /\ entries[k.wo] = 0 => Historic(k.copy, k.wo)
    /\ k.step = "writing" =>
         /\ \A c \in k.todo : k.copy[c] = Legacy[k.wo][c]
         /\ \A s \in Source :
              KindOf[s] = "migration_backfill" /\ WoOf[s] = k.wo /\ CategoryOf(s) \in k.todo =>
                net[s] = 0
         /\ ~ k.overtaken => \A c \in CostCategory :
              SumsOf(net, k.wo)[c] = IF c \in k.todo THEN 0 ELSE k.copy[c]

SoundCheck(k) ==
    /\ k.step = "copied" /\ ~ k.overtaken => k.copy = cache[k.wo].sums
    /\ k.step = "writing" =>
         /\ entries[k.wo] = 0 => k.sums = ZeroSums
         /\ ~ k.overtaken =>
              /\ k.sums = SumsOf(net, k.wo)
              /\ \A c \in CostCategory \ k.todo : Near(cache[k.wo].sums[c], k.sums[c])

SoundCmd(k) ==
    /\ k \in Command
    /\ k.step # "idle" => k.wo \in Wo /\ cache[k.wo].exists
    /\ k.step # "idle" /\ k.name = "backfill" => SoundBackfill(k)
    /\ k.step # "idle" /\ k.name = "check" => SoundCheck(k)

\* A balance comes from rows; before the first row a card shows its history.
BalanceHasRows ==
    \A s \in Source : net[s] # 0 /\ WoOf[s] \in Wo => entries[WoOf[s]] > 0

OnlyHistory == \A w \in Wo : entries[w] = 0 => Historic(cache[w].sums, w)

LedgerTables ==
    /\ due \in [Source -> Int]
    /\ net \in [Source -> Int]
    /\ entries \in [Wo -> Nat]
    /\ cache \in [Wo -> CacheRow]
    /\ fit \in [Wo -> Fit]
    /\ txn \in [Session -> Transaction]
    /\ runs \in 0..MaxRuns
    /\ before \in [Source -> Int]

LedgerIInv ==
    /\ LedgerTables
    /\ \A x \in Session : SoundTxn(txn[x])
    /\ SoundCmd(cmd)
    /\ LockedByOne
    /\ BalanceHasRows
    /\ OnlyHistory
    /\ BooksMatchSources
    /\ HistoryBookedOnce
    /\ FirstCardIsExact
    /\ CacheIsLedger

-------------------------------------------------------------------------------
LEMMA EmptySums ==
    /\ ZeroSums \in Sums
    /\ \A c \in CostCategory : ZeroSums[c] = 0
BY DEF ZeroSums, Sums

LEMMA SoundStart == LedgerInit => LedgerIInv
<1> SUFFICES ASSUME LedgerInit PROVE LedgerIInv OBVIOUS
<1> USE CostLedgerAssumption DEF LedgerInit
<1>1. Idle \in Transaction BY EmptySums DEF Idle, Transaction
<1>2. \A w \in Wo : Legacy[w] \in Sums BY DEF Sums
<1>3. LedgerTables BY <1>1, <1>2 DEF LedgerTables, CacheRow, Fit
<1>4. ASSUME NEW x \in Session PROVE SoundTxn(txn[x])
    BY <1>1 DEF SoundTxn, Idle
<1>5. SoundCmd(cmd) BY EmptySums DEF SoundCmd, NoCommand, Command
<1>6. LockedByOne BY DEF LockedByOne, Idle
<1>7. BalanceHasRows BY DEF BalanceHasRows
<1>8. OnlyHistory BY DEF OnlyHistory, Historic
<1>9. BooksMatchSources BY DEF BooksMatchSources
<1>10. HistoryBookedOnce BY DEF HistoryBookedOnce
<1>11. FirstCardIsExact BY DEF FirstCardIsExact, Idle
<1>12. CacheIsLedger BY DEF CacheIsLedger
<1> QED
    BY <1>3, <1>4, <1>5, <1>6, <1>7, <1>8, <1>9, <1>10, <1>11, <1>12 DEF LedgerIInv

\* A step of one transaction that changes no table but what its source is worth.
LEMMA OneSession ==
    ASSUME LedgerIInv, NEW x \in Session, NEW t,
           txn' = [txn EXCEPT ![x] = t],
           UNCHANGED <<net, entries, cache, cmd, before, fit>>,
           runs' \in 0..MaxRuns, due' \in [Source -> Int], BooksMatchSources',
           SoundTxn(t),
           \A y \in Session \ {x} : t.source \cap txn[y].source = {},
           t.creates => ~ t.overtaken,
           t.step = "read" =>
             \A y \in Session \ {x} :
               txn[y].wo = t.wo =>
                 /\ ~ txn[y].creates
                 /\ t.creates => txn[y].step # "read"
    PROVE  LedgerIInv'
<1>1. \A y \in Session : txn'[y] = IF y = x THEN t ELSE txn[y]
    BY DEF LedgerIInv, LedgerTables
<1>2. LedgerTables' BY DEF LedgerIInv, LedgerTables, SoundTxn
<1>3. ASSUME NEW y \in Session PROVE SoundTxn(txn[y])'
    <2>1. SoundTxn(txn'[y]) BY <1>1 DEF LedgerIInv
    <2> QED BY <2>1 DEF SoundTxn, Own, SumsOf
<1>4. SoundCmd(cmd)'
    <2>1. SoundCmd(cmd) BY DEF LedgerIInv
    <2> QED BY <2>1 DEF SoundCmd, SoundBackfill, SoundCheck, SumsOf
<1>5. LockedByOne' BY <1>1 DEF LockedByOne, LedgerIInv
<1>6. BalanceHasRows' BY DEF BalanceHasRows, LedgerIInv
<1>7. OnlyHistory' /\ HistoryBookedOnce' BY DEF OnlyHistory, HistoryBookedOnce, LedgerIInv
<1>8. FirstCardIsExact'
    <2> SUFFICES ASSUME NEW y \in Session, txn'[y].creates
                 PROVE  /\ ~ txn'[y].overtaken
                        /\ \A z \in Session \ {y} :
                             ~ (txn'[z].step = "read" /\ txn'[z].wo = txn'[y].wo)
        BY DEF FirstCardIsExact
    <2>1. CASE y = x
        <3>1. t.step = "read" BY <1>1, <2>1 DEF SoundTxn
        <3> QED BY <1>1, <2>1, <3>1
    <2>2. CASE y # x
        BY <1>1, <2>2 DEF LedgerIInv, FirstCardIsExact
    <2> QED BY <2>1, <2>2
<1>9. CacheIsLedger' BY DEF CacheIsLedger, LedgerIInv, LedgerPage, SumsOf
<1> QED BY <1>2, <1>3, <1>4, <1>5, <1>6, <1>7, <1>8, <1>9 DEF LedgerIInv

\* One that begins a request or goes on with it, and changes no table at all.
LEMMA OnlySession ==
    ASSUME LedgerIInv, NEW x \in Session, NEW t,
           txn' = [txn EXCEPT ![x] = t],
           UNCHANGED books, Begins \/ UNCHANGED runs,
           SoundTxn(t),
           \A y \in Session \ {x} : t.source \cap txn[y].source = {},
           t.creates => ~ t.overtaken,
           t.step = "read" =>
             \A y \in Session \ {x} :
               txn[y].wo = t.wo =>
                 /\ ~ txn[y].creates
                 /\ t.creates => txn[y].step # "read"
    PROVE  LedgerIInv'
<1>1. runs' \in 0..MaxRuns
    BY CostLedgerAssumption DEF LedgerIInv, LedgerTables, Begins
<1>2. UNCHANGED <<due, net, entries, cache, cmd, before, fit>> BY DEF books
<1>3. due' \in [Source -> Int] BY <1>2 DEF LedgerIInv, LedgerTables
<1>4. BooksMatchSources' BY <1>2 DEF LedgerIInv, BooksMatchSources
<1> QED BY <1>1, <1>2, <1>3, <1>4, OneSession

\* Between transactions a session has nothing.
LEMMA IdleSound == SoundTxn(Idle)
BY EmptySums DEF SoundTxn, Idle, Transaction

LEMMA LockKeeps ==
    ASSUME LedgerIInv, NEW x \in Session, NEW s \in Source,
           NEW a \in Worth(s), Lock(x, s, a)
    PROVE  LedgerIInv'
<1> DEFINE t == [Idle EXCEPT !.step = "locked", !.source = {s}, !.wo = WoOf[s], !.due = a]
<1>1. KindOf[s] \in SourceType BY CostLedgerAssumption
<1>2. a \in Int /\ WoOf[s] \in Wo \cup {NoWo}
    <2>1. \A n \in Amount : n \in Int /\ -n \in Int BY CostLedgerAssumption
    <2> QED BY <1>1, <2>1, CostLedgerAssumption DEF Worth, SourceType
<1>3. KindOf[s] # "migration_backfill" BY DEF Worth
<1>4. t \in Transaction
    <2>1. Idle \in Transaction BY IdleSound DEF SoundTxn
    <2> QED BY <1>2, <2>1 DEF Transaction
<1>5. SoundTxn(t) BY <1>3, <1>4 DEF SoundTxn, Idle
<1>6. \A y \in Session : t.source \cap txn[y].source = {} BY DEF Lock, Free, Idle
<1>7. ~ t.creates /\ t.step # "read" BY DEF Idle
<1>8. txn' = [txn EXCEPT ![x] = t] BY DEF Lock, Set
<1> HIDE DEF t
<1> QED BY <1>5, <1>6, <1>7, <1>8, OnlySession DEF Lock

LEMMA PostKeeps ==
    ASSUME LedgerIInv, NEW x \in Session, NEW s \in Source, Post(x, s)
    PROVE  LedgerIInv'
<1> DEFINE o == txn[x]
           blank == KindOf[s] = "external_repair_order" /\ o.due = 0
<1>1. SoundTxn(o) /\ o \in Transaction BY DEF LedgerIInv, SoundTxn
<1>2. o.step = "locked" /\ s \in o.source BY DEF Post
<1>3. o.source = {s} /\ o.wo = WoOf[s] /\ KindOf[s] # "migration_backfill"
    BY <1>1, <1>2 DEF SoundTxn
<1>4. ~ o.overtaken /\ ~ o.creates BY <1>1, <1>2 DEF SoundTxn
<1>5. net[s] \in Int BY DEF LedgerIInv, LedgerTables
<1>6. \A y \in Session \ {x} : o.source \cap txn[y].source = {}
    BY DEF LedgerIInv, LockedByOne
<1>7. PICK t : /\ txn' = [txn EXCEPT ![x] = t]
               /\ \/ (o.due - net[s] = 0 \/ blank) /\ t = [o EXCEPT !.step = "done"]
                  \/ o.wo # NoWo /\ t = [o EXCEPT !.step = "posted", !.delta = o.due - net[s]]
    BY DEF Post, Delta, MayPost, Set, Unpriced
<1>8. UNCHANGED books /\ UNCHANGED runs BY DEF Post
<1> HIDE DEF o
<1>9. o.due \in Int BY <1>1 DEF Transaction
<1>10. SoundTxn(t) /\ t.source = o.source /\ ~ t.creates /\ t.step # "read"
    <2>1. CASE (o.due - net[s] = 0 \/ blank) /\ t = [o EXCEPT !.step = "done"]
        <3>1. /\ t \in Transaction /\ t.step = "done" /\ t.source = {s} /\ t.wo = WoOf[s]
              /\ t.due = o.due /\ ~ t.overtaken /\ ~ t.creates
            BY <1>1, <1>3, <1>4, <2>1 DEF Transaction
        <3>2. t.due = net[s] \/ (KindOf[s] = "external_repair_order" /\ t.due = 0)
            BY <1>5, <1>9, <2>1, <3>1
        <3> QED BY <1>3, <3>1, <3>2 DEF SoundTxn
    <2>2. CASE o.wo # NoWo /\ t = [o EXCEPT !.step = "posted", !.delta = o.due - net[s]]
        <3>1. o.due - net[s] \in Int BY <1>5, <1>9
        <3>2. /\ t \in Transaction /\ t.step = "posted" /\ t.source = {s} /\ t.wo = WoOf[s]
              /\ t.due = o.due /\ t.delta = o.due - net[s] /\ ~ t.overtaken /\ ~ t.creates
            BY <1>1, <1>3, <1>4, <2>2, <3>1 DEF Transaction
        <3>3. t.wo \in Wo BY <1>3, <2>2, <3>2, CostLedgerAssumption
        <3> QED BY <1>3, <3>2, <3>3 DEF SoundTxn
    <2> QED BY <1>7, <2>1, <2>2
<1> QED BY <1>6, <1>7, <1>8, <1>10, OnlySession

LEMMA RefreshKeeps ==
    ASSUME LedgerIInv, NEW x \in Session, NEW w \in Wo, RefreshOnly(x, w)
    PROVE  LedgerIInv'
<1> DEFINE t == [Idle EXCEPT !.step = "posted", !.wo = w]
<1>1. Idle \in Transaction BY IdleSound DEF SoundTxn
<1>2. t \in Transaction BY <1>1 DEF Transaction
<1>3. SoundTxn(t) BY <1>2 DEF SoundTxn, Idle
<1>4. t.source = {} /\ ~ t.creates /\ t.step # "read" BY DEF Idle
<1>5. txn' = [txn EXCEPT ![x] = t] BY DEF RefreshOnly, Set
<1> HIDE DEF t
<1> QED BY <1>3, <1>4, <1>5, OnlySession DEF RefreshOnly

\* Without rows a work order has no balances.
LEMMA NoRowsNoSums ==
    ASSUME LedgerIInv, NEW w \in Wo, entries[w] = 0
    PROVE  SumsOf(net, w) = ZeroSums
<1>1. \A r \in Source : WoOf[r] = w => net[r] = 0
    BY DEF LedgerIInv, BalanceHasRows
<1>2. net \in [Source -> Int] BY DEF LedgerIInv, LedgerTables
<1> QED BY <1>1, <1>2, SumsNone

\* What a transaction sees are balances, and those of a refresh are everybody's.
LEMMA OwnType ==
    ASSUME NEW t \in Transaction, NEW n \in [Source -> Int]
    PROVE  /\ Own(t, n) \in [Source -> Int]
           /\ t.source = {} => Own(t, n) = n
           /\ t.delta = 0 => Own(t, n) = n
<1>1. t.delta \in Int BY DEF Transaction
<1>2. \A s \in Source : n[s] + t.delta \in Int /\ (t.delta = 0 => n[s] + t.delta = n[s])
    BY <1>1
<1> QED BY <1>1, <1>2 DEF Own

LEMMA ReadKeeps ==
    ASSUME LedgerIInv, NEW x \in Session, ReadSums(x)
    PROVE  LedgerIInv'
<1> DEFINE o == txn[x]
           sums == SumsOf(Own(o, net), o.wo)
           rows == entries[o.wo] + NewRows(x)
           new == ~ cache[o.wo].exists
           t == [o EXCEPT !.step = "read", !.sums = sums, !.count = rows, !.creates = new]
<1>1. SoundTxn(o) /\ o \in Transaction BY DEF LedgerIInv, SoundTxn
<1>2. o.step = "posted" /\ o.wo \in Wo BY <1>1 DEF ReadSums, SoundTxn
<1>3. ~ o.overtaken BY <1>1, <1>2 DEF SoundTxn
<1>4. txn' = [txn EXCEPT ![x] = t]
    BY DEF ReadSums, Set, Seen, Booked, Own
<1>5. UNCHANGED books /\ UNCHANGED runs BY DEF ReadSums
<1>6. \A y \in Session : ~ (txn[y].creates /\ txn[y].wo = o.wo)
    BY DEF ReadSums, MayRead
<1>7. \A y \in Session \ {x} : o.source \cap txn[y].source = {}
    BY DEF LedgerIInv, LockedByOne
<1>8. net \in [Source -> Int] BY DEF LedgerIInv, LedgerTables
<1>9. Own(o, net) \in [Source -> Int] /\ (o.source = {} => Own(o, net) = net)
    BY <1>1, <1>8, OwnType
<1>10. sums \in Sums BY <1>9, SumsType
<1>11. rows \in Nat
    <2>1. entries[o.wo] \in Nat BY <1>2 DEF LedgerIInv, LedgerTables
    <2>2. NewRows(x) \in {0, 1} BY DEF NewRows
    <2> QED BY <2>1, <2>2
<1>12. new \in BOOLEAN OBVIOUS
<1>13. o.source = {} /\ entries[o.wo] = 0 => sums = ZeroSums
    BY <1>2, <1>9, NoRowsNoSums
<1>14. \A y \in Session \ {x} : txn[y].wo = o.wo /\ new => txn[y].step # "read"
    <2> SUFFICES ASSUME NEW y \in Session \ {x}, txn[y].wo = o.wo, txn[y].step = "read"
                 PROVE  ~ new
        OBVIOUS
    <2>1. ~ txn[y].creates BY <1>6
    <2>2. SoundTxn(txn[y]) BY DEF LedgerIInv
    <2> QED BY <2>1, <2>2 DEF SoundTxn
<1> HIDE DEF sums, rows, new, o
<1>15. /\ t \in Transaction
       /\ t.step = "read" /\ t.sums = sums /\ t.creates = new
       /\ t.source = o.source /\ t.wo = o.wo /\ t.due = o.due /\ t.delta = o.delta
       /\ ~ t.overtaken
    BY <1>1, <1>3, <1>10, <1>11, <1>12 DEF Transaction
<1>16. Own(t, net) = Own(o, net) BY <1>15 DEF Own
<1> HIDE DEF t
<1>17. SoundTxn(t)
    <2>1. \A s \in t.source : /\ t.source = {s}
                              /\ t.wo = WoOf[s]
                              /\ KindOf[s] # "migration_backfill"
                              /\ t.delta = t.due - net[s]
        BY <1>1, <1>2, <1>15 DEF SoundTxn
    <2>2. t.source = {} => t.delta = 0 BY <1>1, <1>15 DEF SoundTxn
    <2>3. t.creates <=> ~ cache[t.wo].exists BY <1>15 DEF new
    <2>4. t.sums = SumsOf(Own(t, net), t.wo) BY <1>15, <1>16 DEF sums
    <2>5. t.source = {} /\ entries[t.wo] = 0 => t.sums = ZeroSums BY <1>13, <1>15
    <2> QED BY <1>2, <1>15, <2>1, <2>2, <2>3, <2>4, <2>5 DEF SoundTxn
<1> QED BY <1>4, <1>5, <1>6, <1>7, <1>14, <1>15, <1>17, OnlySession

LEMMA SameKeeps ==
    ASSUME LedgerIInv, NEW x \in Session, CommitSame(x)
    PROVE  LedgerIInv'
<1> DEFINE o == txn[x]
<1>1. SoundTxn(o) /\ o.step = "done" /\ o \in Transaction BY DEF LedgerIInv, CommitSame, SoundTxn
<1>2. \A s \in o.source : o.due = net[s] \/ (KindOf[s] = "external_repair_order" /\ o.due = 0)
    BY <1>1 DEF SoundTxn
<1>3. due \in [Source -> Int] /\ BooksMatchSources /\ runs \in 0..MaxRuns
    BY DEF LedgerIInv, LedgerTables
<1>4. /\ due' = [s \in Source |-> IF s \in o.source THEN o.due ELSE due[s]]
      /\ txn' = [txn EXCEPT ![x] = Idle]
      /\ UNCHANGED <<net, entries, cache, cmd, runs, before, fit>>
    BY DEF CommitSame, Worthy, Set
<1>5. o.due \in Int BY <1>1 DEF Transaction
<1> HIDE DEF o
<1>6. due' \in [Source -> Int] BY <1>3, <1>4, <1>5
<1>7. BooksMatchSources' BY <1>2, <1>3, <1>4 DEF BooksMatchSources
<1>8. PICK t : t = Idle OBVIOUS
<1>9. t.source = {} /\ ~ t.creates /\ t.step # "read" BY <1>8 DEF Idle
<1>10. SoundTxn(t) BY <1>8, IdleSound
<1> QED BY <1>3, <1>4, <1>6, <1>7, <1>8, <1>9, <1>10, OneSession

LEMMA AbortKeeps ==
    ASSUME LedgerIInv, NEW x \in Session, Abort(x)
    PROVE  LedgerIInv'
<1>1. PICK t : t = Idle OBVIOUS
<1>2. t.source = {} /\ ~ t.creates /\ t.step # "read" BY <1>1 DEF Idle
<1>3. SoundTxn(t) BY <1>1, IdleSound
<1> QED BY <1>1, <1>2, <1>3, OnlySession DEF Abort, Set

\* A step of the command that writes nothing.
LEMMA OneCommand ==
    ASSUME LedgerIInv, NEW k, cmd' = k, SoundCmd(k),
           UNCHANGED <<due, net, entries, cache, txn, before, fit>>,
           Begins \/ UNCHANGED runs
    PROVE  LedgerIInv'
<1>1. LedgerTables' BY CostLedgerAssumption DEF LedgerIInv, LedgerTables, Begins
<1>2. ASSUME NEW y \in Session PROVE SoundTxn(txn[y])'
    <2>1. SoundTxn(txn[y]) BY DEF LedgerIInv
    <2> QED BY <2>1 DEF SoundTxn, Own, SumsOf
<1>3. SoundCmd(cmd)' BY DEF SoundCmd, SoundBackfill, SoundCheck, SumsOf
<1>4. LockedByOne' /\ BalanceHasRows' /\ OnlyHistory'
    BY DEF LedgerIInv, LockedByOne, BalanceHasRows, OnlyHistory
<1>5. BooksMatchSources' /\ HistoryBookedOnce' /\ FirstCardIsExact'
    BY DEF LedgerIInv, BooksMatchSources, HistoryBookedOnce, FirstCardIsExact
<1>6. CacheIsLedger' BY DEF CacheIsLedger, LedgerIInv, LedgerPage, SumsOf
<1> QED BY <1>1, <1>2, <1>3, <1>4, <1>5, <1>6 DEF LedgerIInv

LEMMA CopyKeeps ==
    ASSUME LedgerIInv, NEW n \in {"backfill", "check"}, NEW w \in Wo, CopyCard(n, w)
    PROVE  LedgerIInv'
<1>1. PICK k : k = [NoCommand EXCEPT !.name = n, !.step = "copied", !.wo = w, !.copy = cache[w].sums]
    OBVIOUS
<1>2. cache[w].exists /\ cmd' = k BY <1>1 DEF CopyCard
<1>3. cache[w].sums \in Sums BY DEF LedgerIInv, LedgerTables, CacheRow
<1>4. /\ k \in Command /\ k.name = n /\ k.step = "copied" /\ k.wo = w
      /\ k.copy = cache[w].sums
    BY <1>1, <1>3, EmptySums DEF NoCommand, Command
<1>5. entries[w] = 0 => Historic(cache[w].sums, w) BY DEF LedgerIInv, OnlyHistory
<1>6. SoundBackfill(k) /\ SoundCheck(k) BY <1>4, <1>5 DEF SoundBackfill, SoundCheck
<1>7. SoundCmd(k) BY <1>2, <1>4, <1>6 DEF SoundCmd
<1> QED BY <1>2, <1>7, OneCommand DEF CopyCard

LEMMA StartKeeps ==
    ASSUME LedgerIInv, StartBackfill
    PROVE  LedgerIInv'
<1>1. PICK o : o = cmd OBVIOUS
<1> DEFINE left == {c \in CostCategory : cmd.copy[c] # 0}
<1>0. left \in SUBSET CostCategory /\ \A c \in CostCategory : c \in left <=> o.copy[c] # 0
    BY <1>1
<1>2. PICK k : k = [o EXCEPT !.step = "writing", !.todo = left]
    <2> HIDE DEF left
    <2> QED OBVIOUS
<1>3. cmd' = k /\ o.name = "backfill" /\ o.step = "copied" /\ entries[o.wo] = 0
    BY <1>1, <1>2 DEF StartBackfill, NoRows
<1>13. UNCHANGED <<due, net, entries, cache, txn, before, fit>> /\ UNCHANGED runs
    BY DEF StartBackfill
<1> HIDE DEF left
<1>4. o \in Command /\ o.wo \in Wo /\ cache[o.wo].exists /\ SoundBackfill(o)
    BY <1>1, <1>3 DEF LedgerIInv, SoundCmd
<1>5. /\ k \in Command /\ k.name = "backfill" /\ k.step = "writing" /\ k.wo = o.wo
      /\ k.copy = o.copy /\ k.overtaken = o.overtaken
      /\ k.todo = left
    BY <1>0, <1>2, <1>3, <1>4 DEF Command
<1>6. SumsOf(net, k.wo) = ZeroSums BY <1>3, <1>4, <1>5, NoRowsNoSums
<1>7. Historic(o.copy, o.wo) BY <1>3, <1>4 DEF SoundBackfill
<1>8. \A c \in k.todo : k.copy[c] = Legacy[k.wo][c] BY <1>0, <1>5, <1>7 DEF Historic
<1>9. \A s \in Source : WoOf[s] = k.wo => net[s] = 0
    BY <1>3, <1>4, <1>5 DEF LedgerIInv, BalanceHasRows
<1>10. \A c \in CostCategory : SumsOf(net, k.wo)[c] = IF c \in k.todo THEN 0 ELSE k.copy[c]
    BY <1>0, <1>5, <1>6, EmptySums
<1>11. SoundBackfill(k) BY <1>3, <1>4, <1>5, <1>7, <1>8, <1>9, <1>10 DEF SoundBackfill
<1>12. SoundCmd(k) BY <1>4, <1>5, <1>11 DEF SoundCmd
<1> QED BY <1>3, <1>12, <1>13, OneCommand

LEMMA CheckKeeps ==
    ASSUME LedgerIInv, CheckCard
    PROVE  LedgerIInv'
<1>1. PICK o : o = cmd OBVIOUS
<1>2. PICK sums : sums = SumsOf(net, o.wo) OBVIOUS
<1>3. PICK k : k = [o EXCEPT !.step = "writing", !.sums = sums, !.todo = Drifted(o.copy, sums)]
    OBVIOUS
<1>4. cmd' = k /\ o.name = "check" /\ o.step = "copied"
    BY <1>1, <1>2, <1>3 DEF CheckCard
<1>5. o \in Command /\ o.wo \in Wo /\ cache[o.wo].exists /\ SoundCheck(o)
    BY <1>1, <1>4 DEF LedgerIInv, SoundCmd
<1>6. sums \in Sums BY <1>2, SumsType DEF LedgerIInv, LedgerTables
<1>7. Drifted(o.copy, sums) \subseteq CostCategory BY DEF Drifted
<1>8. /\ k \in Command /\ k.name = "check" /\ k.step = "writing" /\ k.wo = o.wo
      /\ k.sums = sums /\ k.overtaken = o.overtaken /\ k.todo = Drifted(o.copy, sums)
    BY <1>3, <1>4, <1>5, <1>6, <1>7 DEF Command
<1>9. entries[k.wo] = 0 => k.sums = ZeroSums BY <1>2, <1>5, <1>8, NoRowsNoSums
<1>10. ~ k.overtaken => \A c \in CostCategory \ k.todo : Near(cache[k.wo].sums[c], k.sums[c])
    BY <1>4, <1>5, <1>8 DEF SoundCheck, Drifted
<1>11. SoundCheck(k) BY <1>2, <1>8, <1>9, <1>10 DEF SoundCheck
<1>12. SoundCmd(k) BY <1>5, <1>8, <1>11 DEF SoundCmd
<1> QED BY <1>4, <1>12, OneCommand DEF CheckCard

LEMMA EndKeeps ==
    ASSUME LedgerIInv, EndCommand
    PROVE  LedgerIInv'
<1>1. PICK k : k = NoCommand OBVIOUS
<1>2. SoundCmd(k) BY <1>1, EmptySums DEF SoundCmd, NoCommand, Command
<1> QED BY <1>1, <1>2, OneCommand DEF EndCommand

LEMMA PeriodKeeps ==
    ASSUME LedgerIInv, NewPeriod
    PROVE  LedgerIInv'
<1> USE DEF NewPeriod
<1>1. LedgerTables' BY DEF LedgerIInv, LedgerTables
<1>2. ASSUME NEW y \in Session PROVE SoundTxn(txn[y])'
    <2>1. SoundTxn(txn[y]) BY DEF LedgerIInv
    <2> QED BY <2>1 DEF SoundTxn, Own, SumsOf
<1>3. SoundCmd(cmd)'
    <2>1. SoundCmd(cmd) BY DEF LedgerIInv
    <2> QED BY <2>1 DEF SoundCmd, SoundBackfill, SoundCheck, SumsOf
<1>4. LockedByOne' /\ BalanceHasRows' /\ OnlyHistory'
    BY DEF LedgerIInv, LockedByOne, BalanceHasRows, OnlyHistory
<1>5. BooksMatchSources' /\ HistoryBookedOnce' /\ FirstCardIsExact'
    BY DEF LedgerIInv, BooksMatchSources, HistoryBookedOnce, FirstCardIsExact
<1>6. CacheIsLedger' BY DEF CacheIsLedger, LedgerIInv, LedgerPage, SumsOf
<1> QED BY <1>1, <1>2, <1>3, <1>4, <1>5, <1>6 DEF LedgerIInv

\* ledger_integrity_check --fix saves a field.
LEMMA FixKeeps ==
    ASSUME LedgerIInv, NEW c \in CostCategory, FixField(c)
    PROVE  LedgerIInv'
<1>1. PICK o : o = cmd OBVIOUS
<1>2. PICK w : w = o.wo OBVIOUS
<1>3. /\ o.name = "check" /\ o.step = "writing" /\ c \in o.todo
      /\ cache' = [cache EXCEPT ![w].sums[c] = o.sums[c]]
      /\ cmd' = [o EXCEPT !.todo = @ \ {c}]
      /\ fit' = [fit EXCEPT ![w] = IF o.todo = {c} /\ ~ o.overtaken THEN "near" ELSE "adrift"]
      /\ UNCHANGED <<due, net, entries, txn, runs, before>>
    BY <1>1, <1>2 DEF FixField
<1>4. LedgerTables BY DEF LedgerIInv
<1>5. o \in Command /\ w \in Wo /\ cache[w].exists /\ SoundCheck(o)
    BY <1>1, <1>2, <1>3 DEF LedgerIInv, SoundCmd
<1>6. o.sums \in Sums /\ cache[w].sums \in Sums
    BY <1>4, <1>5 DEF Command, LedgerTables, CacheRow
<1>7. o.sums[c] \in Int BY <1>6 DEF Sums
<1>8. PICK new : new = [cache[w].sums EXCEPT ![c] = o.sums[c]] OBVIOUS
<1>9. /\ new \in Sums /\ new[c] = o.sums[c]
      /\ \A d \in CostCategory \ {c} : new[d] = cache[w].sums[d]
    BY <1>6, <1>7, <1>8 DEF Sums
<1>10. cache' = [cache EXCEPT ![w] = [@ EXCEPT !.sums = new]] BY <1>3, <1>8
<1>11. /\ cache' \in [Wo -> CacheRow]
       /\ \A v \in Wo : /\ cache'[v].exists = cache[v].exists
                        /\ v # w => cache'[v] = cache[v]
       /\ cache'[w].sums = new
    BY <1>4, <1>5, <1>9, <1>10 DEF LedgerTables, CacheRow
<1>12. PICK k : k = [o EXCEPT !.todo = o.todo \ {c}] OBVIOUS
<1>13. /\ k \in Command /\ cmd' = k /\ k.name = "check" /\ k.step = "writing" /\ k.wo = w
       /\ k.sums = o.sums /\ k.overtaken = o.overtaken /\ k.todo = o.todo \ {c}
    BY <1>2, <1>3, <1>5, <1>12 DEF Command
<1>14. /\ fit' \in [Wo -> Fit]
       /\ fit'[w] = IF o.todo = {c} /\ ~ o.overtaken THEN "near" ELSE "adrift"
       /\ \A v \in Wo \ {w} : fit'[v] = fit[v]
    BY <1>3, <1>4, <1>5 DEF LedgerTables, Fit
<1>15. LedgerTables' BY <1>3, <1>4, <1>11, <1>14 DEF LedgerTables
<1>16. ASSUME NEW y \in Session PROVE SoundTxn(txn[y])'
    <2>1. SoundTxn(txn[y]) BY DEF LedgerIInv
    <2>2. txn[y].step = "read" => txn[y].wo \in Wo BY <2>1 DEF SoundTxn
    <2> QED BY <1>3, <1>11, <2>1, <2>2 DEF SoundTxn, Own, SumsOf
<1>17. \A a \in Int : Near(a, a) BY DEF Near
<1>18. ~ o.overtaken =>
         /\ o.sums = SumsOf(net, w)
         /\ \A d \in CostCategory \ k.todo : Near(new[d], o.sums[d])
    <2> SUFFICES ASSUME ~ o.overtaken, NEW d \in CostCategory \ k.todo
                 PROVE  o.sums = SumsOf(net, w) /\ Near(new[d], o.sums[d])
        BY <1>2, <1>3, <1>5 DEF SoundCheck
    <2>1. CASE d = c BY <1>2, <1>3, <1>5, <1>7, <1>9, <1>17, <2>1 DEF SoundCheck
    <2>2. CASE d # c
        <3>1. d \in CostCategory \ o.todo BY <1>13, <2>2
        <3> QED BY <1>2, <1>3, <1>5, <1>9, <2>2, <3>1 DEF SoundCheck
    <2> QED BY <2>1, <2>2
<1>19. entries[w] = 0 => o.sums = ZeroSums BY <1>2, <1>3, <1>5 DEF SoundCheck
<1>20. SoundCmd(cmd)'
    <2>1. \A v : SumsOf(net, v)' = SumsOf(net, v) BY <1>3 DEF SumsOf
    <2>2. SoundCheck(k)' BY <1>3, <1>11, <1>13, <1>18, <1>19, <2>1 DEF SoundCheck
    <2>3. SoundCmd(k)' BY <1>5, <1>11, <1>13, <2>2 DEF SoundCmd
    <2> QED BY <1>13, <2>3 DEF SoundCmd, SoundBackfill, SoundCheck, SumsOf
<1>21. OnlyHistory'
    <2> SUFFICES ASSUME NEW v \in Wo, entries[v] = 0, NEW d \in CostCategory
                 PROVE  cache'[v].sums[d] \in {0, Legacy[v][d]}
        BY <1>3 DEF OnlyHistory, Historic
    <2>1. cache[v].sums[d] \in {0, Legacy[v][d]} BY DEF LedgerIInv, OnlyHistory, Historic
    <2>2. CASE v = w /\ d = c BY <1>9, <1>11, <1>19, <2>2, EmptySums
    <2>3. CASE v = w /\ d # c BY <1>9, <1>11, <2>1, <2>3
    <2>4. CASE v # w BY <1>11, <2>1, <2>4
    <2> QED BY <2>2, <2>3, <2>4
<1>22. CacheIsLedger'
    <2>1. \A v \in Wo : LedgerPage(v)' = SumsOf(net, v) BY <1>3 DEF LedgerPage, SumsOf
    <2>2. ASSUME fit'[w] = "near", NEW d \in CostCategory PROVE Near(new[d], SumsOf(net, w)[d])
        BY <1>13, <1>14, <1>18, <2>2
    <2>3. fit'[w] # "exact" BY <1>14
    <2> QED BY <1>11, <1>14, <2>1, <2>2, <2>3 DEF CacheIsLedger, LedgerIInv, LedgerPage
<1>23. LockedByOne' /\ BalanceHasRows' /\ BooksMatchSources' /\ FirstCardIsExact' /\ HistoryBookedOnce'
    BY <1>3 DEF LedgerIInv, LockedByOne, BalanceHasRows, BooksMatchSources, FirstCardIsExact,
                HistoryBookedOnce
<1> QED BY <1>15, <1>16, <1>20, <1>21, <1>22, <1>23 DEF LedgerIInv

\* What a transaction that was overtaken keeps.
LEMMA OvertakenFields ==
    ASSUME NEW t \in Transaction, NEW w
    PROVE  /\ Overtaken(t, w) \in Transaction
           /\ Overtaken(t, w).step = t.step
           /\ Overtaken(t, w).source = t.source
           /\ Overtaken(t, w).wo = t.wo
           /\ Overtaken(t, w).due = t.due
           /\ Overtaken(t, w).delta = t.delta
           /\ Overtaken(t, w).sums = t.sums
           /\ Overtaken(t, w).creates = t.creates
           /\ Overtaken(t, w).overtaken <=> t.overtaken \/ (t.step = "read" /\ t.wo = w)
           /\ t.step # "read" => Overtaken(t, w) = t
<1>1. t.overtaken \in BOOLEAN BY DEF Transaction
<1>2. CASE t.step = "read" /\ t.wo = w
    BY <1>1, <1>2 DEF Overtaken, Transaction
<1>3. CASE ~ (t.step = "read" /\ t.wo = w)
    BY <1>1, <1>3 DEF Overtaken
<1> QED BY <1>2, <1>3

\* Another session's transaction stays sound when somebody posts to w: it is
\* overtaken, or works on another work order, or nothing was posted.
LEMMA OthersStaySound ==
    ASSUME LedgerIInv, NEW y \in Session, NEW w \in Wo, NEW t,
           net' \in [Source -> Int],
           entries' \in [Wo -> Nat],
           \A s \in Source : WoOf[s] # w => net'[s] = net[s],
           \A s \in txn[y].source : net'[s] = net[s],
           \A v \in Wo : entries[v] <= entries'[v],
           txn[y].step = "read" =>
             (cache'[txn[y].wo].exists <=> cache[txn[y].wo].exists),
           \/ t = Overtaken(txn[y], w)
           \/ t = txn[y] /\ net' = net
    PROVE  SoundTxn(t)'
<1> DEFINE o == txn[y]
<1>1. SoundTxn(o) /\ o \in Transaction BY DEF LedgerIInv, SoundTxn
<1>2. entries \in [Wo -> Nat] BY DEF LedgerIInv, LedgerTables
<1>3. /\ t \in Transaction /\ t.step = o.step /\ t.source = o.source /\ t.wo = o.wo
      /\ t.due = o.due /\ t.delta = o.delta /\ t.sums = o.sums /\ t.creates = o.creates
      /\ o.overtaken => t.overtaken
      /\ t.step # "read" => t = o
      /\ t.overtaken \/ o.step # "read" \/ o.wo # w \/ net' = net
    <2>1. CASE t = Overtaken(o, w) BY <1>1, <2>1, OvertakenFields
    <2>2. CASE t = o /\ net' = net BY <1>1, <2>2
    <2> QED BY <2>1, <2>2
<1> HIDE DEF o
<1>4. \A s \in t.source : net'[s] = net[s] BY <1>3 DEF o
<1>5. ASSUME t.step = "read", ~ t.overtaken
      PROVE  t.sums = SumsOf(Own(t, net'), t.wo)
    <2>1. t.sums = SumsOf(Own(o, net), t.wo) BY <1>1, <1>3, <1>5 DEF SoundTxn
    <2>2. t.wo # w \/ net' = net BY <1>3, <1>5
    <2>3. \A r \in Source : WoOf[r] = t.wo => Own(o, net)[r] = Own(t, net')[r]
        BY <1>3, <2>2 DEF Own
    <2>4. SumsOf(Own(o, net), t.wo) = SumsOf(Own(t, net'), t.wo) BY <2>3, SumsSame
    <2> QED BY <2>1, <2>4
<1>6. ASSUME t.step = "read", t.source = {}, entries'[t.wo] = 0
      PROVE  t.sums = ZeroSums
    <2>1. t.wo \in Wo BY <1>1, <1>3, <1>6 DEF SoundTxn
    <2>2. entries[t.wo] = 0 BY <1>2, <1>6, <2>1
    <2> QED BY <1>1, <1>3, <1>6, <2>2 DEF SoundTxn
<1>7. t.step = "read" => (t.creates <=> ~ cache'[t.wo].exists)
    <2>1. o.step = "read" => (cache'[o.wo].exists <=> cache[o.wo].exists) BY DEF o
    <2> QED BY <1>1, <1>3, <2>1 DEF SoundTxn
<1>8. /\ t.step = "idle" => t = Idle
      /\ t.step \in {"posted", "read"} => t.wo \in Wo
      /\ t.step # "read" => ~ t.overtaken /\ ~ t.creates
      /\ t.source = {} => t.delta = 0 /\ t.step \in {"idle", "posted", "read"}
    BY <1>1, <1>3 DEF SoundTxn
<1>9. \A s \in t.source :
         /\ t.source = {s}
         /\ t.wo = WoOf[s]
         /\ KindOf[s] # "migration_backfill"
         /\ t.step \in {"posted", "read"} => t.delta = t.due - net'[s]
         /\ t.step = "done" =>
              t.due = net'[s] \/ (KindOf[s] = "external_repair_order" /\ t.due = 0)
    BY <1>1, <1>3, <1>4 DEF SoundTxn
<1>10. SumsOf(Own(t, net'), t.wo) = SumsOf(Own(t, net), t.wo)' BY DEF SumsOf, Own
<1> QED BY <1>3, <1>5, <1>6, <1>7, <1>8, <1>9, <1>10 DEF SoundTxn

\* backfill_cost_ledger books a category of the card's history.
LEMMA BackfillKeeps ==
    ASSUME LedgerIInv, NEW s \in Source, BackfillRow(s)
    PROVE  LedgerIInv'
<1>1. PICK o : o = cmd OBVIOUS
<1>2. PICK w : w = WoOf[s] OBVIOUS
<1>3. PICK c : c = CategoryOf(s) OBVIOUS
<1>4. PICK a : a = o.copy[c] OBVIOUS
<1>5. PICK k : k = [o EXCEPT !.todo = o.todo \ {c}] OBVIOUS
<1>6. /\ o.name = "backfill" /\ o.step = "writing" /\ o.wo = w /\ c \in o.todo
      /\ KindOf[s] = "migration_backfill"
      /\ cmd' = k
      /\ fit' = [fit EXCEPT ![w] = IF k.todo = {} /\ ~ k.overtaken THEN "exact" ELSE "adrift"]
      /\ net' = [net EXCEPT ![s] = @ + a]
      /\ due' = [due EXCEPT ![s] = a]
      /\ entries' = [entries EXCEPT ![w] = @ + 1]
      /\ txn' = [y \in Session |-> Overtaken(txn[y], w)]
      /\ UNCHANGED <<cache, runs, before>>
    <2>1. o \in Command BY <1>1 DEF LedgerIInv, SoundCmd
    <2>2. k.todo = o.todo \ {c} /\ k.overtaken = o.overtaken BY <1>5, <2>1 DEF Command
    <2> QED BY <1>1, <1>2, <1>3, <1>4, <1>5, <2>2 DEF BackfillRow
<1>7. o \in Command /\ w \in Wo /\ cache[w].exists /\ SoundBackfill(o)
    BY <1>1, <1>6 DEF LedgerIInv, SoundCmd
<1>8. LedgerTables BY DEF LedgerIInv
<1>9. c \in CostCategory BY <1>3, Categorised
<1>10. /\ k \in Command /\ k.name = "backfill" /\ k.step = "writing" /\ k.wo = w
       /\ k.copy = o.copy /\ k.overtaken = o.overtaken /\ k.todo = o.todo \ {c}
    BY <1>5, <1>6, <1>7 DEF Command
<1>11. a \in Int /\ a = Legacy[w][c]
    <2>1. o.copy \in [CostCategory -> Int] BY <1>7 DEF Command, Sums
    <2> QED BY <1>4, <1>6, <1>7, <1>9, <2>1 DEF SoundBackfill
<1>12. net[s] = 0 BY <1>2, <1>3, <1>6, <1>7 DEF SoundBackfill
<1>13. /\ net' \in [Source -> Int] /\ due' \in [Source -> Int]
       /\ net'[s] = a /\ due'[s] = a
       /\ \A r \in Source \ {s} : net'[r] = net[r] /\ due'[r] = due[r]
    BY <1>6, <1>8, <1>11, <1>12 DEF LedgerTables
<1>14. /\ entries' \in [Wo -> Nat] /\ entries'[w] > 0
       /\ \A v \in Wo : entries[v] <= entries'[v]
    BY <1>6, <1>7, <1>8 DEF LedgerTables
<1>15. /\ fit' \in [Wo -> Fit]
       /\ fit'[w] = IF k.todo = {} /\ ~ k.overtaken THEN "exact" ELSE "adrift"
       /\ \A v \in Wo \ {w} : fit'[v] = fit[v]
    BY <1>6, <1>7, <1>8 DEF LedgerTables, Fit
<1>16. \A y \in Session : txn[y] \in Transaction /\ SoundTxn(txn[y])
    BY DEF LedgerIInv, SoundTxn
<1>17. \A y \in Session : txn'[y] = Overtaken(txn[y], w) BY <1>6
<1>18. LedgerTables'
    <2>1. txn' \in [Session -> Transaction] BY <1>6, <1>16, OvertakenFields
    <2> QED BY <1>6, <1>8, <1>13, <1>14, <1>15, <2>1 DEF LedgerTables
<1>19. ASSUME NEW y \in Session PROVE SoundTxn(txn[y])'
    <2>1. PICK t : t = txn'[y] OBVIOUS
    <2>2. \A r \in Source : WoOf[r] # w => net'[r] = net[r] BY <1>2, <1>13
    <2>3. \A r \in txn[y].source : r \in Source /\ r # s
        BY <1>6, <1>16 DEF SoundTxn, Transaction
    <2>4. \A r \in txn[y].source : net'[r] = net[r] BY <1>13, <2>3
    <2>5. SoundTxn(t)'
        BY <1>6, <1>7, <1>13, <1>14, <1>17, <2>1, <2>2, <2>4, OthersStaySound
    <2> QED BY <2>1, <2>5 DEF SoundTxn, Own, SumsOf
<1>20. \A y \in Session :
          /\ txn'[y].source = txn[y].source
          /\ txn'[y].step = txn[y].step
          /\ txn'[y].wo = txn[y].wo
          /\ txn'[y].creates = txn[y].creates
          /\ txn'[y].overtaken => txn[y].overtaken \/ txn[y].wo = w
    BY <1>16, <1>17, OvertakenFields
<1>21. LockedByOne' BY <1>20 DEF LedgerIInv, LockedByOne
<1>22. BalanceHasRows'
    <2>1. \A r \in Source \ {s} : net'[r] # 0 => net[r] # 0 BY <1>13
    <2>2. \A v \in Wo : entries[v] > 0 => entries'[v] > 0 BY <1>8, <1>14 DEF LedgerTables
    <2> QED BY <1>2, <1>14, <2>1, <2>2 DEF LedgerIInv, BalanceHasRows
<1>23. OnlyHistory'
    <2>1. \A v \in Wo : entries'[v] = 0 => entries[v] = 0 BY <1>8, <1>14 DEF LedgerTables
    <2> QED BY <1>6, <2>1 DEF LedgerIInv, OnlyHistory
<1>24. BooksMatchSources' BY <1>13 DEF LedgerIInv, BooksMatchSources
<1>25. HistoryBookedOnce'
    BY <1>2, <1>3, <1>11, <1>13 DEF LedgerIInv, HistoryBookedOnce
<1>26. FirstCardIsExact'
    <2>1. \A y \in Session : txn[y].creates => txn[y].wo # w
        <3> SUFFICES ASSUME NEW y \in Session, txn[y].creates PROVE txn[y].wo # w OBVIOUS
        <3>1. txn[y].step = "read" BY <1>16 DEF SoundTxn
        <3> QED BY <1>7, <1>16, <3>1 DEF SoundTxn
    <2>2. FirstCardIsExact BY DEF LedgerIInv
    <2> QED BY <1>20, <2>1, <2>2 DEF FirstCardIsExact
<1>27. /\ SumsOf(net', w)[c] = SumsOf(net, w)[c] + a
       /\ \A d \in CostCategory \ {c} : SumsOf(net', w)[d] = SumsOf(net, w)[d]
    <2>1. net \in [Source -> Int] BY <1>8 DEF LedgerTables
    <2>2. PICK n : n = net OBVIOUS
    <2>3. PICK m : m = net' OBVIOUS
    <2>4. /\ SumsOf(m, w)[c] = SumsOf(n, w)[c] + m[s] - n[s]
          /\ \A d \in CostCategory \ {c} : SumsOf(m, w)[d] = SumsOf(n, w)[d]
        BY <1>2, <1>3, <1>13, <2>1, <2>2, <2>3, SumsMove
    <2>5. SumsOf(n, w) \in [CostCategory -> Int] BY <2>1, <2>2, SumsType DEF Sums
    <2> QED BY <1>9, <1>11, <1>12, <1>13, <2>2, <2>3, <2>4, <2>5
<1>28. ~ k.overtaken => \A d \in CostCategory :
          SumsOf(net', w)[d] = IF d \in k.todo THEN 0 ELSE k.copy[d]
    <2> SUFFICES ASSUME ~ k.overtaken, NEW d \in CostCategory
                 PROVE  SumsOf(net', w)[d] = IF d \in k.todo THEN 0 ELSE k.copy[d]
        OBVIOUS
    <2>1. SumsOf(net, w)[d] = IF d \in o.todo THEN 0 ELSE o.copy[d]
        BY <1>6, <1>7, <1>10 DEF SoundBackfill
    <2>2. CASE d = c
        <3>1. c \in o.todo /\ c \notin k.todo BY <1>6, <1>10
        <3>2. SumsOf(net', w)[c] = 0 + a BY <1>27, <2>1, <2>2, <3>1
        <3>3. a \in Int /\ k.copy[c] = a BY <1>4, <1>10, <1>11
        <3> QED BY <2>2, <3>1, <3>2, <3>3
    <2>3. CASE d # c BY <1>10, <1>27, <2>1, <2>3
    <2> QED BY <2>2, <2>3
<1>29. SoundCmd(cmd)'
    <2>1. \A v : SumsOf(net, v)' = SumsOf(net', v) BY DEF SumsOf
    <2>2. ~ k.overtaken => k.copy = cache[w].sums BY <1>6, <1>7, <1>10 DEF SoundBackfill
    <2>3. \A d \in k.todo : k.copy[d] = Legacy[w][d] BY <1>6, <1>7, <1>10 DEF SoundBackfill
    <2>4. \A r \in Source :
            KindOf[r] = "migration_backfill" /\ WoOf[r] = w /\ CategoryOf(r) \in k.todo => net'[r] = 0
        <3> SUFFICES ASSUME NEW r \in Source, KindOf[r] = "migration_backfill", WoOf[r] = w,
                            CategoryOf(r) \in k.todo
                     PROVE  net'[r] = 0
            OBVIOUS
        <3>1. r # s BY <1>3, <1>10
        <3>2. net[r] = 0 BY <1>6, <1>7, <1>10 DEF SoundBackfill
        <3> QED BY <1>13, <3>1, <3>2
    <2>5. entries'[w] # 0 BY <1>14
    <2>6. SoundBackfill(k)'
        BY <1>6, <1>10, <1>28, <2>1, <2>2, <2>3, <2>4, <2>5 DEF SoundBackfill
    <2>7. SoundCmd(k)' BY <1>6, <1>7, <1>10, <2>6 DEF SoundCmd
    <2> QED BY <1>6, <2>7 DEF SoundCmd, SoundBackfill, SoundCheck, SumsOf
<1>30. CacheIsLedger'
    <2>1. \A v \in Wo : LedgerPage(v)' = SumsOf(net', v) BY DEF LedgerPage, SumsOf
    <2>2. ASSUME NEW v \in Wo \ {w} PROVE SumsOf(net', v) = SumsOf(net, v)
        <3>1. \A r \in Source : WoOf[r] = v => net[r] = net'[r] BY <1>2, <1>13, <2>2
        <3> QED BY <3>1, SumsSame
    <2>3. ASSUME fit'[w] = "exact" PROVE cache[w].sums = SumsOf(net', w)
        <3>1. k.todo = {} /\ ~ k.overtaken BY <1>15, <2>3
        <3>2. k.copy = cache[w].sums BY <1>6, <1>7, <1>10, <3>1 DEF SoundBackfill
        <3>3. \A d \in CostCategory : SumsOf(net', w)[d] = cache[w].sums[d] BY <1>28, <3>1, <3>2
        <3>4. SumsOf(net', w) \in [CostCategory -> Int] BY <1>13, SumsType DEF Sums
        <3>5. cache[w].sums \in [CostCategory -> Int]
            BY <1>7, <1>8 DEF LedgerTables, CacheRow, Sums
        <3> QED BY <3>3, <3>4, <3>5
    <2>4. fit'[w] # "near" BY <1>15
    <2> QED BY <1>6, <1>15, <2>1, <2>2, <2>3, <2>4 DEF CacheIsLedger, LedgerIInv, LedgerPage
<1> QED BY <1>18, <1>19, <1>21, <1>22, <1>23, <1>24, <1>25, <1>26, <1>29, <1>30 DEF LedgerIInv

\* The rows of a transaction appear and the card is written.
LEMMA CommitKeeps ==
    ASSUME LedgerIInv, NEW x \in Session, Commit(x)
    PROVE  LedgerIInv'
<1>1. PICK o : o = txn[x] OBVIOUS
<1>2. PICK w : w = o.wo OBVIOUS
<1>3. LedgerTables BY DEF LedgerIInv
<1>4. SoundTxn(o) /\ o \in Transaction /\ o.step = "read" /\ w \in Wo
    BY <1>1, <1>2 DEF LedgerIInv, SoundTxn, Commit
<1>5. PICK k \in {0, 1} : k = NewRows(x) BY DEF NewRows
<1>6. /\ net' = Own(o, net)
      /\ entries' = [entries EXCEPT ![w] = @ + k]
      /\ cache' = [cache EXCEPT ![w] = [exists |-> TRUE, sums |-> o.sums, count |-> o.count]]
      /\ fit' = [fit EXCEPT ![w] = IF o.overtaken THEN "adrift" ELSE "exact"]
      /\ cmd' = IF cmd.wo = w THEN [cmd EXCEPT !.overtaken = TRUE] ELSE cmd
      /\ UNCHANGED <<runs, before>>
    BY <1>1, <1>2, <1>5 DEF Commit, Booked, Own
<1>7. k = 0 <=> o.source = {} BY <1>1, <1>5 DEF NewRows
<1>8. \A s \in o.source : /\ o.source = {s}
                          /\ WoOf[s] = w
                          /\ KindOf[s] # "migration_backfill"
                          /\ o.delta = o.due - net[s]
    BY <1>2, <1>4 DEF SoundTxn
<1>9. o.source \subseteq Source /\ o.due \in Int /\ o.delta \in Int BY <1>4 DEF Transaction
<1>10. /\ net \in [Source -> Int]
       /\ net' \in [Source -> Int]
       /\ o.source = {} => net' = net
       /\ o.delta = 0 => net' = net
    BY <1>3, <1>4, <1>6, OwnType DEF LedgerTables
<1>11. /\ \A s \in o.source : net'[s] = o.due
       /\ \A s \in Source \ o.source : net'[s] = net[s]
    BY <1>6, <1>8, <1>9, <1>10 DEF Own
<1>12. /\ entries \in [Wo -> Nat] /\ entries' \in [Wo -> Nat]
       /\ \A v \in Wo : entries[v] <= entries'[v]
       /\ entries'[w] = entries[w] + k
       /\ \A v \in Wo \ {w} : entries'[v] = entries[v]
    BY <1>3, <1>4, <1>6 DEF LedgerTables
<1>13. /\ due' \in [Source -> Int]
       /\ \A s \in o.source : due'[s] = o.due
       /\ \A s \in Source \ o.source : due'[s] = due[s]
    <2>1. due \in [Source -> Int] BY <1>3 DEF LedgerTables
    <2>2. due' = [s \in Source |-> IF s \in o.source THEN o.due ELSE due[s]]
        BY <1>1 DEF Commit, Worthy
    <2> QED BY <1>9, <2>1, <2>2
<1>14. /\ cache' \in [Wo -> CacheRow]
       /\ cache'[w].exists /\ cache'[w].sums = o.sums
       /\ \A v \in Wo \ {w} : cache'[v] = cache[v]
    <2>1. [exists |-> TRUE, sums |-> o.sums, count |-> o.count] \in CacheRow
        BY <1>4 DEF CacheRow, Transaction
    <2> QED BY <1>3, <1>4, <1>6, <2>1 DEF LedgerTables
<1>15. /\ fit' \in [Wo -> Fit]
       /\ fit'[w] = IF o.overtaken THEN "adrift" ELSE "exact"
       /\ \A v \in Wo \ {w} : fit'[v] = fit[v]
    BY <1>3, <1>4, <1>6 DEF LedgerTables, Fit
<1>16. \A y \in Session : txn[y] \in Transaction /\ SoundTxn(txn[y])
    BY DEF LedgerIInv, SoundTxn
<1>17. /\ txn'[x] = Idle
       /\ \A y \in Session \ {x} : txn'[y] = IF o.delta # 0 THEN Overtaken(txn[y], w) ELSE txn[y]
    BY <1>1, <1>2 DEF Commit, AfterCommit
<1>18. txn' \in [Session -> Transaction]
    <2>1. txn' = [y \in Session |-> txn'[y]] BY DEF Commit, AfterCommit
    <2>2. Idle \in Transaction BY IdleSound DEF SoundTxn
    <2>3. \A y \in Session : txn'[y] \in Transaction
        BY <1>16, <1>17, <2>2, OvertakenFields
    <2> QED BY <2>1, <2>3
<1>19. LedgerTables' BY <1>3, <1>6, <1>10, <1>12, <1>13, <1>14, <1>15, <1>18 DEF LedgerTables
<1>20. \A y \in Session \ {x} : txn[y].step = "read" /\ txn[y].wo = w => cache[w].exists
    <2> SUFFICES ASSUME NEW y \in Session \ {x}, txn[y].step = "read", txn[y].wo = w
                 PROVE  cache[w].exists
        OBVIOUS
    <2>1. ~ txn[y].creates
        BY <1>1, <1>2, <1>4 DEF LedgerIInv, FirstCardIsExact
    <2> QED BY <1>16, <2>1 DEF SoundTxn
<1>21. ASSUME NEW y \in Session PROVE SoundTxn(txn[y])'
    <2>1. PICK t : t = txn'[y] OBVIOUS
    <2>2. CASE y = x
        <3>1. SoundTxn(Idle)'
            <4>1. SoundTxn(Idle) BY IdleSound
            <4> QED BY <4>1 DEF SoundTxn, Idle
        <3>2. txn'[y] = Idle BY <1>17, <2>2
        <3> QED BY <3>1, <3>2 DEF SoundTxn, Own, SumsOf, Idle
    <2>3. CASE y # x
        <3>1. \A s \in Source : WoOf[s] # w => net'[s] = net[s] BY <1>8, <1>11
        <3>2. \A s \in txn[y].source : net'[s] = net[s]
            <4>1. txn[y].source \subseteq Source BY <1>16 DEF Transaction
            <4>2. txn[y].source \cap o.source = {} BY <1>1, <2>3 DEF LedgerIInv, LockedByOne
            <4> QED BY <1>11, <4>1, <4>2
        <3>3. txn[y].step = "read" => (cache'[txn[y].wo].exists <=> cache[txn[y].wo].exists)
            <4>1. txn[y].step = "read" => txn[y].wo \in Wo BY <1>16 DEF SoundTxn
            <4> QED BY <1>14, <1>20, <2>3, <4>1
        <3>4. t = Overtaken(txn[y], w) \/ (t = txn[y] /\ net' = net)
            BY <1>10, <1>17, <2>1, <2>3
        <3>5. SoundTxn(t)'
            BY <1>4, <1>10, <1>12, <3>1, <3>2, <3>3, <3>4, OthersStaySound
        <3> QED BY <2>1, <3>5 DEF SoundTxn, Own, SumsOf
    <2> QED BY <2>2, <2>3
<1>22. \A y \in Session \ {x} :
          /\ txn'[y].source = txn[y].source
          /\ txn'[y].step = txn[y].step
          /\ txn'[y].wo = txn[y].wo
          /\ txn'[y].creates = txn[y].creates
          /\ txn'[y].overtaken => txn[y].overtaken \/ (txn[y].step = "read" /\ txn[y].wo = w)
    <2> SUFFICES ASSUME NEW y \in Session \ {x}
                 PROVE  /\ txn'[y].source = txn[y].source
                        /\ txn'[y].step = txn[y].step
                        /\ txn'[y].wo = txn[y].wo
                        /\ txn'[y].creates = txn[y].creates
                        /\ txn'[y].overtaken => txn[y].overtaken \/ (txn[y].step = "read" /\ txn[y].wo = w)
        OBVIOUS
    <2>1. CASE o.delta = 0 BY <1>17, <2>1
    <2>2. CASE o.delta # 0 BY <1>16, <1>17, <2>2, OvertakenFields
    <2> QED BY <2>1, <2>2
<1>23. txn'[x].source = {} /\ txn'[x].step = "idle" /\ ~ txn'[x].creates BY <1>17 DEF Idle
<1>24. LockedByOne' BY <1>22, <1>23 DEF LedgerIInv, LockedByOne
<1>25. BalanceHasRows'
    <2> SUFFICES ASSUME NEW s \in Source, net'[s] # 0, WoOf[s] \in Wo
                 PROVE  entries'[WoOf[s]] > 0
        BY DEF BalanceHasRows
    <2>1. CASE s \in o.source
        <3>1. k = 1 /\ WoOf[s] = w BY <1>7, <1>8, <2>1
        <3>2. entries[w] \in Nat BY <1>4, <1>12
        <3> QED BY <1>12, <3>1, <3>2
    <2>2. CASE s \notin o.source
        <3>1. entries[WoOf[s]] > 0 BY <1>11, <2>2 DEF LedgerIInv, BalanceHasRows
        <3>2. entries[WoOf[s]] \in Nat /\ entries'[WoOf[s]] \in Nat BY <1>12
        <3> QED BY <1>12, <3>1, <3>2
    <2> QED BY <2>1, <2>2
<1>26. OnlyHistory'
    <2> SUFFICES ASSUME NEW v \in Wo, entries'[v] = 0, NEW c \in CostCategory
                 PROVE  cache'[v].sums[c] \in {0, Legacy[v][c]}
        BY DEF OnlyHistory, Historic
    <2>1. entries[v] = 0 BY <1>12
    <2>2. CASE v = w
        <3>1. o.source = {} BY <1>7, <1>12, <2>1, <2>2
        <3>2. o.sums = ZeroSums BY <1>2, <1>4, <2>1, <2>2, <3>1 DEF SoundTxn
        <3> QED BY <1>14, <2>2, <3>2, EmptySums
    <2>3. CASE v # w
        BY <1>14, <2>1, <2>3 DEF LedgerIInv, OnlyHistory, Historic
    <2> QED BY <2>2, <2>3
<1>27. BooksMatchSources'
    <2>1. BooksMatchSources BY DEF LedgerIInv
    <2> QED BY <1>11, <1>13, <2>1 DEF BooksMatchSources
<1>28. FirstCardIsExact'
    <2> SUFFICES ASSUME NEW y \in Session, txn'[y].creates
                 PROVE  /\ ~ txn'[y].overtaken
                        /\ \A z \in Session \ {y} :
                             ~ (txn'[z].step = "read" /\ txn'[z].wo = txn'[y].wo)
        BY DEF FirstCardIsExact
    <2>1. y # x /\ txn[y].creates BY <1>22, <1>23
    <2>2. /\ ~ txn[y].overtaken
          /\ \A z \in Session \ {y} : ~ (txn[z].step = "read" /\ txn[z].wo = txn[y].wo)
        BY <2>1 DEF LedgerIInv, FirstCardIsExact
    <2>3. txn[y].wo # w BY <1>1, <1>2, <1>4, <2>1, <2>2
    <2> QED BY <1>22, <1>23, <2>1, <2>2, <2>3
<1>29. \A v : v # w => SumsOf(net', v) = SumsOf(net, v)
    <2> SUFFICES ASSUME NEW v, v # w PROVE SumsOf(net', v) = SumsOf(net, v) OBVIOUS
    <2>1. \A r \in Source : WoOf[r] = v => net[r] = net'[r] BY <1>8, <1>11
    <2> QED BY <2>1, SumsSame
<1>30. CacheIsLedger'
    <2>1. \A v \in Wo : LedgerPage(v)' = SumsOf(net', v) BY DEF LedgerPage, SumsOf
    <2>2. fit'[w] = "exact" => cache'[w].sums = SumsOf(net', w)
        BY <1>2, <1>4, <1>6, <1>14, <1>15 DEF SoundTxn
    <2>3. fit'[w] # "near" BY <1>15
    <2> QED BY <1>14, <1>15, <1>29, <2>1, <2>2, <2>3 DEF CacheIsLedger, LedgerIInv, LedgerPage
<1>31. \A s \in Source : KindOf[s] = "migration_backfill" => net'[s] = net[s]
    BY <1>8, <1>11
<1>32. HistoryBookedOnce' BY <1>31 DEF LedgerIInv, HistoryBookedOnce
<1>33. SoundCmd(cmd)'
    <2>1. PICK p : p = cmd OBVIOUS
    <2>2. PICK q : q = cmd' OBVIOUS
    <2>3. SoundCmd(p) /\ p \in Command BY <2>1 DEF LedgerIInv, SoundCmd
    <2>4. /\ q \in Command /\ q.name = p.name /\ q.step = p.step /\ q.wo = p.wo
          /\ q.copy = p.copy /\ q.sums = p.sums /\ q.todo = p.todo
          /\ p.wo = w => q.overtaken
          /\ p.wo # w => q = p
        BY <1>6, <2>1, <2>2, <2>3 DEF Command
    <2>5. \A v : SumsOf(net, v)' = SumsOf(net', v) BY DEF SumsOf
    <2>6. q.step # "idle" => q.wo \in Wo /\ cache'[q.wo].exists
        BY <1>14, <2>3, <2>4 DEF SoundCmd
    <2>7. \A v \in Wo : entries'[v] = 0 => entries[v] = 0 BY <1>12
    <2>8. ASSUME q.step # "idle", q.name = "backfill" PROVE SoundBackfill(q)'
        <3>1. SoundBackfill(p) /\ q.wo \in Wo BY <2>3, <2>4, <2>6, <2>8 DEF SoundCmd
        <3>2. CASE p.wo = w
            BY <1>31, <2>4, <2>7, <3>1, <3>2 DEF SoundBackfill, Historic
        <3>3. CASE p.wo # w
            BY <1>14, <1>29, <1>31, <2>4, <2>5, <2>7, <3>1, <3>3 DEF SoundBackfill, Historic
        <3> QED BY <3>2, <3>3
    <2>9. ASSUME q.step # "idle", q.name = "check" PROVE SoundCheck(q)'
        <3>1. SoundCheck(p) /\ q.wo \in Wo BY <2>3, <2>4, <2>6, <2>9 DEF SoundCmd
        <3>2. CASE p.wo = w BY <2>4, <2>7, <3>1, <3>2 DEF SoundCheck
        <3>3. CASE p.wo # w
            BY <1>14, <1>29, <2>4, <2>5, <2>7, <3>1, <3>3 DEF SoundCheck
        <3> QED BY <3>2, <3>3
    <2>10. SoundCmd(q)' BY <2>4, <2>6, <2>8, <2>9 DEF SoundCmd
    <2> QED BY <2>2, <2>10 DEF SoundCmd, SoundBackfill, SoundCheck, SumsOf
<1> QED
    BY <1>19, <1>21, <1>24, <1>25, <1>26, <1>27, <1>28, <1>30, <1>32, <1>33 DEF LedgerIInv

\* Every step keeps the invariant.
LEMMA LedgerStep == LedgerIInv /\ [LedgerNext]_cvars => LedgerIInv'
<1> SUFFICES ASSUME LedgerIInv, [LedgerNext]_cvars PROVE LedgerIInv' OBVIOUS
<1>1. CASE UNCHANGED cvars
    <2>1. UNCHANGED <<due, net, entries, cache, txn, before, fit>> /\ UNCHANGED runs
        BY <1>1 DEF cvars
    <2>2. PICK k : k = cmd OBVIOUS
    <2>3. cmd' = k /\ SoundCmd(k) BY <1>1, <2>2 DEF cvars, LedgerIInv
    <2> QED BY <2>1, <2>3, OneCommand
<1>2. ASSUME NEW x \in Session, NEW s \in Source, NEW a \in Worth(s), Lock(x, s, a)
      PROVE  LedgerIInv'
    BY <1>2, LockKeeps
<1>3. ASSUME NEW x \in Session, NEW s \in Source, Post(x, s) PROVE LedgerIInv'
    BY <1>3, PostKeeps
<1>4. ASSUME NEW x \in Session, NEW w \in Wo, RefreshOnly(x, w) PROVE LedgerIInv'
    BY <1>4, RefreshKeeps
<1>5. ASSUME NEW x \in Session, ReadSums(x) PROVE LedgerIInv' BY <1>5, ReadKeeps
<1>6. ASSUME NEW x \in Session, Commit(x) PROVE LedgerIInv' BY <1>6, CommitKeeps
<1>7. ASSUME NEW x \in Session, CommitSame(x) PROVE LedgerIInv' BY <1>7, SameKeeps
<1>8. ASSUME NEW x \in Session, Abort(x) PROVE LedgerIInv' BY <1>8, AbortKeeps
<1>9. ASSUME NEW n \in {"backfill", "check"}, NEW w \in Wo, CopyCard(n, w) PROVE LedgerIInv'
    BY <1>9, CopyKeeps
<1>10. CASE StartBackfill BY <1>10, StartKeeps
<1>11. ASSUME NEW s \in Source, BackfillRow(s) PROVE LedgerIInv' BY <1>11, BackfillKeeps
<1>12. CASE CheckCard BY <1>12, CheckKeeps
<1>13. ASSUME NEW c \in CostCategory, FixField(c) PROVE LedgerIInv' BY <1>13, FixKeeps
<1>14. CASE EndCommand BY <1>14, EndKeeps
<1>15. CASE NewPeriod BY <1>15, PeriodKeeps
<1> QED
    BY <1>1, <1>2, <1>3, <1>4, <1>5, <1>6, <1>7, <1>8, <1>9, <1>10, <1>11, <1>12, <1>13, <1>14,
       <1>15 DEF LedgerNext

\* The ledger holds for every source what it is worth, whatever sessions
\* overlap, retry or fail in whatever step; what a card showed before the ledger
\* is booked once at most, however often the backfill runs, is broken off, or meets
\* requests that post; and the first cost card of a work order is written by
\* somebody who is alone in reading its sums.
THEOREM LedgerIsRight == LedgerSpec => []LedgerInv
<1>1. LedgerInit => LedgerIInv BY SoundStart
<1>2. LedgerIInv /\ [LedgerNext]_cvars => LedgerIInv' BY LedgerStep
<1>3. LedgerIInv => LedgerInv
    BY DEF LedgerIInv, LedgerInv, LedgerTypeOK, LedgerTables, SoundTxn, SoundCmd
<1> QED BY <1>1, <1>2, <1>3, PTL DEF LedgerSpec

-------------------------------------------------------------------------------
(***************************************************************************)
(* The ledger: the pages.                                                  *)
(***************************************************************************)
RowsIn(ws, c) == {r \in Source : WoOf[r] \in ws /\ CategoryOf(r) = c}
Exact == {w \in Wo : cache[w].exists /\ fit[w] = "exact"}

\* The machine page and the cost report show the same for ws in category c.
SameIn(ws, c) ==
    TotalOf([s \in RowsIn(ws, c) |-> net[s]]) = TotalOf([w \in ws |-> cache[w].sums[c]])

\* One more work order adds the same to both.
LEMMA OneMoreOrder ==
    ASSUME LedgerIInv, NEW c \in CostCategory, NEW ws \in SUBSET Exact, NEW w \in ws,
           SameIn(ws \ {w}, c)
    PROVE  SameIn(ws, c)
<1>1. net \in [Source -> Int] /\ cache \in [Wo -> CacheRow] BY DEF LedgerIInv, LedgerTables
<1>2. ws \subseteq Wo /\ w \in Wo BY DEF Exact
<1> DEFINE vs == ws \ {w}
           A == RowsIn(vs, c)
           B == RowsOf(w, c)
           C == RowsIn(ws, c)
           f == [s \in C |-> net[s]]
           a == [s \in A |-> net[s]]
           b == [s \in B |-> net[s]]
           g == [v \in ws |-> cache[v].sums[c]]
           d == [v \in vs |-> cache[v].sums[c]]
           e == [v \in {w} |-> cache[v].sums[c]]
<1>3. IsFiniteSet(C) BY CostLedgerAssumption, FS_Subset DEF RowsIn
<1>4. A \cup B = C /\ A \cap B = {} /\ C \subseteq Source BY DEF RowsIn, RowsOf
<1>5. Splits(f, a, b, Int)
    <2> HIDE DEF A, B, C
    <2> QED BY <1>1, <1>3, <1>4 DEF Splits
<1>6. IsFiniteSet(ws) BY <1>2, CostLedgerAssumption, FS_Subset
<1>7. \A v \in ws : cache[v].sums[c] \in Int BY <1>1, <1>2 DEF CacheRow, Sums
<1>8. Splits(g, d, e, Int) BY <1>6, <1>7 DEF Splits
<1>9. e \in [{w} -> Int] BY <1>7
<1>12. e[w] = TotalOf(b)
    <2>1. cache[w].sums = SumsOf(net, w)
        BY <1>2 DEF Exact, LedgerIInv, CacheIsLedger, LedgerPage
    <2>2. SumsOf(net, w)[c] = TotalOf([s \in RowsOf(w, c) |-> net[s]])
        BY DEF SumsOf, RowsOf
    <2> QED BY <2>1, <2>2
<1>13. TotalOf(a) = TotalOf(d) BY DEF SameIn
<1> HIDE DEF vs, A, B, C, f, a, b, g, d, e
<1>14. TotalOf(f) = TotalOf(a) + TotalOf(b) BY <1>5, SumUnion
<1>15. TotalOf(g) = TotalOf(d) + TotalOf(e) BY <1>8, SumUnion
<1>16. TotalOf(e) = e[w] BY <1>9, SumOne
<1>17. TotalOf(f) = TotalOf(g) BY <1>12, <1>13, <1>14, <1>15, <1>16
<1> QED BY <1>17 DEF SameIn, C, f, g

\* The rows of the period are those of the reported orders, if these have none
\* from before it and the others none in it.
LEMMA InPeriod ==
    ASSUME LedgerIInv, NEW c \in CostCategory, NEW ws \in SUBSET Wo, NEW closed \in SUBSET ws,
           \A s \in Source : /\ WoOf[s] \in closed => before[s] = 0
                             /\ WoOf[s] \in ws \ closed => before[s] = net[s]
    PROVE  TotalOf([s \in RowsIn(ws, c) |-> net[s] - before[s]])
             = TotalOf([s \in RowsIn(closed, c) |-> net[s]])
<1>1. net \in [Source -> Int] /\ before \in [Source -> Int] BY DEF LedgerIInv, LedgerTables
<1> DEFINE A == RowsIn(closed, c)
           B == RowsIn(ws \ closed, c)
           C == RowsIn(ws, c)
           f == [s \in C |-> net[s] - before[s]]
           a == [s \in A |-> net[s]]
           b == [s \in B |-> 0]
<1>2. A \cup B = C /\ A \cap B = {} /\ C \subseteq Source BY DEF RowsIn
<1>3. IsFiniteSet(C) /\ IsFiniteSet(A) BY CostLedgerAssumption, FS_Subset DEF RowsIn
<1>4. /\ \A s \in A : net[s] - before[s] = net[s]
      /\ \A s \in B : net[s] - before[s] = 0
    BY <1>1 DEF RowsIn
<1>5. Splits(f, a, b, Int)
    <2> HIDE DEF A, B, C
    <2> QED BY <1>1, <1>2, <1>3, <1>4 DEF Splits
<1>6. a \in [A -> Int] /\ b \in [B -> Int] /\ \A i \in B : b[i] = 0 BY <1>1 DEF RowsIn
<1> HIDE DEF A, B, C, f, a, b
<1>7. TotalOf(f) = TotalOf(a) + TotalOf(b) BY <1>5, SumUnion
<1>8. TotalOf(b) = 0 BY <1>6, SumNone
<1>9. TotalOf(a) \in Int BY <1>3, <1>6, SumType
<1>10. TotalOf(f) = TotalOf(a) BY <1>7, <1>8, <1>9
<1> QED BY <1>10 DEF A, C, f, a

\* So they agree on every set of work orders with exact cards: a smallest set on
\* which they did not could lose one of its orders.
LEMMA ReportsFit ==
    ASSUME LedgerIInv
    PROVE  ReportsAgree
<1>0. ASSUME \A d \in CostCategory : \A us \in SUBSET Exact : SameIn(us, d)
      PROVE  ReportsAgree
    <2> SUFFICES ASSUME NEW ws \in SUBSET Wo, NEW closed \in SUBSET ws, NEW d \in CostCategory,
                        \A w \in closed : cache[w].exists /\ fit[w] = "exact" /\ w \notin OnComponent,
                        \A s \in Source : /\ WoOf[s] \in closed => before[s] = 0
                                          /\ WoOf[s] \in ws \ closed => before[s] = net[s]
                 PROVE  TotalOf([s \in RowsIn(ws, d) |-> net[s] - before[s]])
                          = TotalOf([w \in closed |-> Reported(w)[d]])
                              + TotalOf([w \in closed \cap OnComponent |-> Reported(w)[d]])
        BY DEF ReportsAgree, MachineCost, CostReport, RowsIn
    <2>1. SameIn(closed, d)
        <3>1. closed \in SUBSET Exact BY DEF Exact
        <3> QED BY <1>0, <3>1
    <2>2. [w \in closed |-> Reported(w)[d]] = [w \in closed |-> cache[w].sums[d]]
        BY DEF Reported
    <2>3. TotalOf([w \in closed \cap OnComponent |-> Reported(w)[d]]) = 0
        <3> DEFINE g == [w \in closed \cap OnComponent |-> Reported(w)[d]]
        <3>1. closed \cap OnComponent = {} OBVIOUS
        <3>2. g \in [{} -> Int] BY <3>1
        <3> HIDE DEF g
        <3>3. TotalOf(g) = 0 BY <3>2, SumNone
        <3> QED BY <3>3 DEF g
    <2>4. TotalOf([s \in RowsIn(ws, d) |-> net[s] - before[s]])
            = TotalOf([s \in RowsIn(closed, d) |-> net[s]])
        BY InPeriod
    <2>5. TotalOf([w \in closed |-> Reported(w)[d]]) \in Int
        <3>1. IsFiniteSet(closed) BY CostLedgerAssumption, FS_Subset
        <3>2. [w \in closed |-> cache[w].sums[d]] \in [closed -> Int]
            BY DEF LedgerIInv, LedgerTables, CacheRow, Sums
        <3>3. TotalOf([w \in closed |-> cache[w].sums[d]]) \in Int BY <3>1, <3>2, SumType
        <3> QED BY <2>2, <3>3
    <2>6. TotalOf([s \in RowsIn(closed, d) |-> net[s]]) = TotalOf([w \in closed |-> Reported(w)[d]])
        BY <2>1, <2>2 DEF SameIn
    <2> QED BY <2>3, <2>4, <2>5, <2>6
<1> SUFFICES ASSUME NEW c \in CostCategory,
                    NEW us \in SUBSET Exact, ~ SameIn(us, c)
             PROVE  FALSE
    BY <1>0
<1> DEFINE Off == {n \in Nat : \E vs \in SUBSET Exact : Cardinality(vs) = n /\ ~ SameIn(vs, c)}
<1>1. \A vs \in SUBSET Exact : IsFiniteSet(vs) /\ Cardinality(vs) \in Nat
    <2> TAKE vs \in SUBSET Exact
    <2>1. IsFiniteSet(Wo) /\ vs \subseteq Wo BY CostLedgerAssumption DEF Exact
    <2>2. IsFiniteSet(vs) BY <2>1, FS_Subset
    <2> QED BY <2>2, FS_CardinalityType
<1>2. Off \in SUBSET Nat /\ Off # {} BY <1>1
<1>3. PICK n \in Off : \A m \in Off : n <= m
    <2> HIDE DEF Off
    <2> QED BY <1>2, Smallest
<1>4. PICK ws \in SUBSET Exact : Cardinality(ws) = n /\ ~ SameIn(ws, c) BY <1>3
<1>5. ws # {}
    <2> SUFFICES ASSUME ws = {} PROVE SameIn(ws, c) BY <1>4
    <2> DEFINE f == [s \in RowsIn(ws, c) |-> net[s]]
               g == [w \in ws |-> cache[w].sums[c]]
    <2>1. f \in [{} -> Int] /\ g \in [{} -> Int] BY DEF RowsIn
    <2> HIDE DEF f, g
    <2>2. TotalOf(f) = 0 /\ TotalOf(g) = 0 BY <2>1, SumNone
    <2> QED BY <2>2 DEF SameIn, f, g
<1>6. PICK w \in ws : TRUE BY <1>5
<1>7. Cardinality(ws \ {w}) = n - 1 BY <1>1, <1>4, FS_RemoveElement
<1>8. ws \ {w} \in SUBSET Exact /\ n - 1 \in Nat BY <1>1, <1>7
<1>9. ~ SameIn(ws \ {w}, c) BY <1>4, OneMoreOrder
<1>10. n - 1 \in Off BY <1>7, <1>8, <1>9
<1> QED BY <1>3, <1>8, <1>10

\* Cost cards, the machine page and the cost report show the ledger, for any
\* set of work orders whose cards were not written from overtaken sums.
THEOREM PagesShowTheLedger == LedgerSpec => []CostPagesFit
<1>1. LedgerInit => LedgerIInv BY SoundStart
<1>2. LedgerIInv /\ [LedgerNext]_cvars => LedgerIInv' BY LedgerStep
<1>3. LedgerIInv => CostPagesFit BY ReportsFit DEF CostPagesFit, LedgerIInv
<1> QED BY <1>1, <1>2, <1>3, PTL DEF LedgerSpec

-------------------------------------------------------------------------------
(***************************************************************************)
(* Notices: the inductive invariant.  Its parts take the rows N, the clock *)
(* t and who is active as parameters, so that a step's effect on a job can *)
(* be stated about constants.                                              *)
(***************************************************************************)
\* The keys a job writes at each of its steps.
StepKeys(step) ==
    CASE step = "stages" -> StageKeys
      [] step = "overdue" -> {"pm_overdue"}
      [] step = "technicians" -> {"pm_morning_summary"}
      [] step = "managers" -> {"pm_manager_morning"}
      [] step = "unassigned" -> {"pm_unassigned"}
      [] OTHER -> {}

Alike(n, d) == Same(n, d) /\ n.due = d.due

\* Drafts are of the step's kind; those of a stage are one announcement, whose
\* recipients have not had it.
SoundDrafts(j, N) ==
    /\ \A d \in j.send : d.key \in StepKeys(j.step)
    /\ j.step = "stages" =>
         /\ \A d \in j.send : \A n \in N : ~ Alike(n, d)
         /\ \A d, e \in j.send : d.key = e.key /\ d.ref = e.ref /\ d.due = e.due

\* A plan's announcement no older than 48 hours before t.
Announced(p, t, N) == \E n \in N : n.key = "pm_overdue" /\ n.ref = p /\ n.at >= t - 2 * Hours

\* Every plan the overdue loop found is still to come, is being announced or
\* was, as long as there are managers (ms) to tell.
SoundOverdue(j, N, ms) ==
    j.step = "overdue" /\ ms # {} =>
      \A p \in Plan :
        j.read[p].active /\ j.read[p].due < j.at =>
          \/ p \in j.todo
          \/ \E d \in j.send : d.ref = p
          \/ Announced(p, j.at, N)

Summarised(u, day, N) ==
    \E n \in N : n.key = "pm_manager_morning" /\ n.to = u /\ Day(n.at) = day

\* Of the managers (us), those without today's summary are about to get it.
SoundSummary(j, N, t, us) ==
    j.step = "managers" /\ j.day = Day(t) =>
      \A u \in us : Summarised(u, j.day, N) \/ \E d \in j.send : d.to = u

SoundJob(j, N, t, ms, us) ==
    /\ j.at <= t /\ j.day <= Day(t)
    /\ SoundDrafts(j, N) /\ SoundOverdue(j, N, ms) /\ SoundSummary(j, N, t, us)

SoundJobs == \A w \in Process : SoundJob(job[w], Rows, now, Managers, ManagersByRole)

OneSync == \A w, v \in Process : job[w].step = "stages" /\ job[v].step = "stages" => w = v

NoticesIInv == NoticesInv /\ SoundJobs /\ OneSync /\ sentDay <= Today /\ SummariesSent

-------------------------------------------------------------------------------
(***************************************************************************)
(* Notices: days and rows.                                                 *)
(***************************************************************************)
\* Days are naturals and do not go back.
LEMMA DayBounds ==
    ASSUME NEW t \in Nat
    PROVE  Day(t) \in Nat /\ Day(t + 1) \in Nat /\ Day(t) <= Day(t + 1) /\ Day(0) = 0
<1>1. Hours \in Nat /\ Hours > 0 BY NoticesAssumption
<1> QED BY <1>1 DEF Day

\* What writing drafts does to the bag.
LEMMA Posted ==
    ASSUME IsABag(notices), NEW ds, Write(ds)
    PROVE  /\ IsABag(notices')
           /\ Rows' = Rows \cup {Row(d) : d \in ds}
           /\ \A n \in Rows : n \notin {Row(d) : d \in ds} => notices'[n] = notices[n]
           /\ \A n \in {Row(d) : d \in ds} : n \notin Rows => notices'[n] = 1
<1> DEFINE new == {Row(d) : d \in ds}
           one == SetToBag(new)
<1>1. one = [e \in new |-> 1] BY DEF SetToBag
<1>2. notices' = notices (+) one BY DEF Write
<1> HIDE DEF new, one
<1>3. notices' = [e \in (DOMAIN notices) \cup new |->
                    (IF e \in DOMAIN notices THEN notices[e] ELSE 0)
                    + (IF e \in new THEN 1 ELSE 0)]
    BY <1>1, <1>2 DEF (+)
<1>4. \A e \in DOMAIN notices : notices[e] \in Nat /\ notices[e] > 0
    BY DEF IsABag
<1>5. DOMAIN notices' = (DOMAIN notices) \cup new BY <1>3
<1>6. \A e \in (DOMAIN notices) \cup new :
        /\ notices'[e] \in Nat /\ notices'[e] > 0
        /\ e \in DOMAIN notices /\ e \notin new => notices'[e] = notices[e]
        /\ e \notin DOMAIN notices => notices'[e] = 1
    BY <1>3, <1>4
<1>7. IsABag(notices')
    <2>1. notices' \in [(DOMAIN notices) \cup new -> {n \in Nat : n > 0}] BY <1>3, <1>6
    <2> QED BY <2>1, <1>5 DEF IsABag
<1>8. Rows' = Rows \cup new BY <1>5 DEF Rows, BagToSet
<1>9. Rows = DOMAIN notices BY DEF Rows, BagToSet
<1> QED BY <1>6, <1>7, <1>8, <1>9 DEF new

LEMMA RowOf ==
    ASSUME NEW d
    PROVE  /\ Row(d).key = d.key /\ Row(d).ref = d.ref /\ Row(d).due = d.due
           /\ Row(d).to = d.to /\ Row(d).at = now
BY DEF Row

\* A typed draft makes a typed row.
LEMMA RowTyped ==
    ASSUME NEW d \in Draft, now \in Nat
    PROVE  /\ [key |-> Row(d).key, ref |-> Row(d).ref, due |-> Row(d).due, to |-> Row(d).to] \in Draft
           /\ Row(d).at \in 0..now
<1>1. d = [key |-> d.key, ref |-> d.ref, due |-> d.due, to |-> d.to] BY DEF Draft
<1> QED BY <1>1, RowOf

-------------------------------------------------------------------------------
(***************************************************************************)
(* Notices: drafts.                                                        *)
(***************************************************************************)
\* Whoever is addressed has an account.
LEMMA Recipients ==
    ASSUME active \subseteq User
    PROVE  /\ Staff \subseteq User /\ Managers \subseteq User /\ Supply \subseteq User
           /\ Technicians \subseteq User /\ ManagersByRole \subseteq User
           /\ \A us : StillActive(us) \subseteq User
BY DEF Staff, Managers, Supply, Technicians, ManagersByRole, StillActive, WithSuperusers, ActiveIn

\* Who a case is about.
LEMMA CasePeople ==
    ASSUME NEW b \in Case
    PROVE  /\ WoPeople(b) \subseteq User
           /\ People({Requester[b]}) \subseteq User /\ People({Assignee[b]}) \subseteq User
           /\ People({Requester[b], Creator[b]}) \subseteq User
<1>1. \A f \in {Assignee, Creator, Requester, Approver} : f[b] \in User \cup {NoUser}
    BY NoticesAssumption
<1> QED BY <1>1 DEF WoPeople, People

LEMMA Addressed ==
    ASSUME NEW key \in EventKeys \cup RequestKeys \cup StageKeys \cup LoopKeys,
           NEW ref \in Case \cup Plan \cup {OrderOf[b] : b \in Case} \cup {None},
           NEW users \in SUBSET User, NEW d \in To(key, ref, users)
    PROVE  d \in Draft /\ d.key = key /\ d.ref = ref /\ d.due = None /\ d.to \in users
<1>1. PICK u \in users : d = [key |-> key, ref |-> ref, due |-> None, to |-> u] BY DEF To
<1> QED BY <1>1 DEF Draft

\* Drafts of blocker events, and of everything that is neither an event nor a
\* stage.
EventDraft == {d \in Draft : d.key \in EventKeys /\ d.due = None}
PlainDraft == {d \in Draft : d.key \notin EventKeys \cup StageKeys}

LEMMA Kinds ==
    /\ \A key \in EventKeys : key \notin StageKeys
    /\ \A key \in RequestKeys \cup LoopKeys : key \notin EventKeys /\ key \notin StageKeys
<1>1. \A key \in EventKeys : key \notin StageKeys BY DEF EventKeys, StageKeys
<1>2. \A key \in RequestKeys : key \notin EventKeys BY DEF EventKeys, RequestKeys
<1>3. \A key \in RequestKeys : key \notin StageKeys BY DEF StageKeys, RequestKeys
<1>4. \A key \in LoopKeys : key \notin EventKeys /\ key \notin StageKeys
    BY DEF EventKeys, StageKeys, LoopKeys
<1> QED BY <1>1, <1>2, <1>3, <1>4

LEMMA ToEvent ==
    ASSUME NEW b \in Case, NEW key \in EventKeys, NEW users \in SUBSET User
    PROVE  To(key, b, users) \subseteq EventDraft /\ To(key, OrderOf[b], users) \subseteq EventDraft
<1>1. OrderOf[b] \in {OrderOf[c] : c \in Case} OBVIOUS
<1> QED BY <1>1, Addressed DEF EventDraft

LEMMA ToPlain ==
    ASSUME NEW ref \in Case \cup Plan \cup {None}, NEW key \in RequestKeys \cup LoopKeys,
           NEW users \in SUBSET User
    PROVE  To(key, ref, users) \subseteq PlainDraft
BY Addressed, Kinds DEF PlainDraft

LEMMA EventKinds ==
    ASSUME active \subseteq User, NEW b \in Case, NEW ds \in EventNotices(b)
    PROVE  ds \subseteq EventDraft
<1> DEFINE all == Staff \cup WoPeople(b)
           asker == People({Requester[b]})
<1>1. /\ all \in SUBSET User /\ Staff \in SUBSET User
      /\ Staff \cup asker \in SUBSET User /\ Staff \cup Supply \cup asker \in SUBSET User
      /\ Managers \cup People({Requester[b], Creator[b]}) \in SUBSET User
      /\ \A a \in Supply \cup Managers : Staff \cup Supply \cup {a} \in SUBSET User
    BY Recipients, CasePeople
<1>3. \A key \in EventKeys : \A us \in SUBSET User :
        To(key, b, us) \subseteq EventDraft /\ To(key, OrderOf[b], us) \subseteq EventDraft
    BY ToEvent
<1>4. /\ BlockerOpened(b) \subseteq EventDraft /\ BlockerResolved(b) \subseteq EventDraft
      /\ BlockerCancelled(b) \subseteq EventDraft /\ ShortageFulfilled(b) \subseteq EventDraft
      /\ EmergencyInterrupted(b) \subseteq EventDraft /\ LaborResumed(b) \subseteq EventDraft
    BY <1>1, <1>3 DEF EventKeys, BlockerOpened, BlockerResolved, BlockerCancelled,
                      ShortageFulfilled, EmergencyInterrupted, LaborResumed
<1>5. /\ PartApproved(b) \subseteq EventDraft /\ PartRejected(b) \subseteq EventDraft
      /\ ShortageRaised(b) \subseteq EventDraft /\ EroCreated(b) \subseteq EventDraft
      /\ EroAccepted(b) \subseteq EventDraft
    BY <1>1, <1>3 DEF EventKeys, PartApproved, PartRejected, ShortageRaised, EroCreated,
                      EroAccepted
<1>6. \A a \in Supply \cup Managers : PoReceivedSummary(b, a) \subseteq EventDraft
    BY <1>1, <1>3 DEF EventKeys, PoReceivedSummary
<1> QED BY <1>4, <1>5, <1>6 DEF EventNotices

\* The kinds a request sends itself, in two groups for their length.
LEMMA DirectKinds ==
    ASSUME active \subseteq User, NEW b \in Case, NEW ds \in DirectNotices(b)
    PROVE  ds \subseteq PlainDraft
<1>1. \A key \in RequestKeys : \A us \in SUBSET User : To(key, b, us) \subseteq PlainDraft
    BY ToPlain
<1>4. /\ Staff \in SUBSET User /\ Managers \in SUBSET User /\ Supply \in SUBSET User
      /\ Staff \cup Supply \in SUBSET User /\ Supply \cup Managers \in SUBSET User
      /\ Supply \cup Staff \in SUBSET User /\ ManagersByRole \in SUBSET User
      /\ People({Assignee[b]}) \in SUBSET User
      /\ (IF Assignee[b] = NoUser THEN {} ELSE Staff) \in SUBSET User
      /\ \A us : /\ StillActive(us) \in SUBSET User
                 /\ ManagersByRole \cup StillActive(us) \in SUBSET User
    BY Recipients, CasePeople
<1>5. /\ NewIssue(b) \subseteq PlainDraft /\ IssueValidated(b) \subseteq PlainDraft
      /\ EmergencyWorkOrder(b) \subseteq PlainDraft
      /\ EmergencyIssueReported(b) \subseteq PlainDraft /\ WoPendingReview(b) \subseteq PlainDraft
      /\ LowStock(b) \subseteq PlainDraft /\ ProcurementRequest(b) \subseteq PlainDraft
    BY <1>1, <1>4 DEF RequestKeys, NewIssue, IssueValidated, EmergencyWorkOrder,
       EmergencyIssueReported, WoPendingReview, LowStock, ProcurementRequest
<1>6. /\ WoAssigned(b) \subseteq PlainDraft
      /\ RepairReturned(b) \subseteq PlainDraft /\ RepairRequestCreated(b) \subseteq PlainDraft
      /\ RepairDraftCreated(b) \subseteq PlainDraft /\ RepairSentToVendor(b) \subseteq PlainDraft
    BY <1>1, <1>4 DEF RequestKeys, WoAssigned, RepairReturned, RepairRequestCreated,
       RepairDraftCreated, RepairSentToVendor
<1>7. /\ WoCreated(b) \subseteq PlainDraft /\ WoStarted(b) \subseteq PlainDraft
      /\ WoPaused(b) \subseteq PlainDraft /\ WoClosed(b) \subseteq PlainDraft
      /\ PartShortage(b) \subseteq PlainDraft /\ PartRequestReReview(b) \subseteq PlainDraft
    BY <1>1, <1>4 DEF RequestKeys, WoCreated, WoStarted, WoPaused, WoClosed, PartShortage,
       PartRequestReReview
<1>8. /\ WoPartReceived(b) \subseteq PlainDraft /\ WoPartReturned(b) \subseteq PlainDraft
      /\ WoPartRejected(b) \subseteq PlainDraft /\ PmReturned(b) \subseteq PlainDraft
      /\ WaitingReviewSubmitted(b) \subseteq PlainDraft /\ PlanPaused(b) \subseteq PlainDraft
    BY <1>1, <1>4 DEF RequestKeys, WoPartReceived, WoPartReturned, WoPartRejected, PmReturned,
       WaitingReviewSubmitted, PlanPaused
<1> QED BY <1>5, <1>6, <1>7, <1>8 DEF DirectNotices
-------------------------------------------------------------------------------
(***************************************************************************)
(* Notices: what a write does to the rows.                                 *)
(***************************************************************************)
\* The typing of rows survives every write of typed drafts.
LEMMA RowsTyped ==
    ASSUME NoticesTypeOK, NEW ds \in SUBSET Draft, Write(ds), now' = now
    PROVE  /\ IsABag(notices')
           /\ \A n \in Rows' :
                /\ [key |-> n.key, ref |-> n.ref, due |-> n.due, to |-> n.to] \in Draft
                /\ n.at \in 0..now'
<1>1. now \in Nat BY NoticesAssumption DEF NoticesTypeOK
<1>2. IsABag(notices') /\ Rows' = Rows \cup {Row(d) : d \in ds} BY Posted DEF NoticesTypeOK
<1>3. \A d \in ds : /\ [key |-> Row(d).key, ref |-> Row(d).ref, due |-> Row(d).due,
                        to |-> Row(d).to] \in Draft
                    /\ Row(d).at \in 0..now
    BY <1>1, RowTyped
<1> QED BY <1>2, <1>3 DEF NoticesTypeOK

LEMMA RowsAt ==
    ASSUME NoticesTypeOK
    PROVE  /\ now \in Nat /\ Window \in Nat /\ Hours \in Nat /\ IsABag(notices)
           /\ \A n \in Rows : n.at \in Nat /\ n.at <= now
<1>1. {Window, MaxNow, MaxActs, MaxFails} \subseteq Nat /\ Hours \in Nat BY NoticesAssumption
<1>2. now \in Nat BY <1>1 DEF NoticesTypeOK
<1>3. \A n \in Rows : n.at \in 0..now BY DEF NoticesTypeOK
<1> QED BY <1>1, <1>2, <1>3 DEF NoticesTypeOK

\* A write that brings no new notice of the kind looked at: OncePerWindow and
\* StageOnce stay.
LEMMA PlainPosted ==
    ASSUME NoticesTypeOK, NEW ds, Write(ds)
    PROVE  /\ OncePerWindow /\ (\A d \in ds : d.key \notin EventKeys) => OncePerWindow'
           /\ StageOnce /\ (\A d \in ds : d.key \notin StageKeys) => StageOnce'
<1>1. /\ Rows' = Rows \cup {Row(d) : d \in ds}
      /\ \A n \in Rows : n \notin {Row(d) : d \in ds} => notices'[n] = notices[n]
    BY Posted DEF NoticesTypeOK
<1>2. ASSUME OncePerWindow, \A d \in ds : d.key \notin EventKeys PROVE OncePerWindow'
    <2>1. \A d \in ds : Row(d).key \notin EventKeys BY <1>2, RowOf
    <2>2. \A n \in Rows' : n.key \in EventKeys => n \in Rows /\ notices'[n] = notices[n]
        BY <1>1, <2>1
    <2> SUFFICES ASSUME NEW n \in Rows', n.key \in EventKeys
                 PROVE  /\ notices'[n] = 1
                        /\ \A m \in Rows' \ {n} :
                             Same(n, m) => n.at > m.at + Window \/ m.at > n.at + Window
        BY DEF OncePerWindow, Same
    <2> QED BY <1>2, <2>2 DEF OncePerWindow, Same
<1>3. ASSUME StageOnce, \A d \in ds : d.key \notin StageKeys PROVE StageOnce'
    <2>1. \A d \in ds : Row(d).key \notin StageKeys BY <1>3, RowOf
    <2>2. \A n \in Rows' : n.key \in StageKeys => n \in Rows /\ notices'[n] = notices[n]
        BY <1>1, <2>1
    <2> SUFFICES ASSUME NEW n \in Rows', n.key \in StageKeys
                 PROVE  /\ notices'[n] = 1
                        /\ \A m \in Rows' \ {n} : ~ (Same(n, m) /\ n.due = m.due)
        BY DEF StageOnce, Same
    <2> QED BY <1>3, <2>2 DEF StageOnce, Same
<1> QED BY <1>2, <1>3

\* Blocker events: only what is not there within the window is written.
LEMMA EventPosted ==
    ASSUME NoticesTypeOK, OncePerWindow, NEW ds \in SUBSET EventDraft, Write(ds),
           \A d \in ds : ~ DedupExists(d)
    PROVE  OncePerWindow'
<1> DEFINE new == {Row(d) : d \in ds}
<1>1. /\ Rows' = Rows \cup new
      /\ \A n \in Rows : n \notin new => notices'[n] = notices[n]
      /\ \A n \in new : n \notin Rows => notices'[n] = 1
    BY Posted DEF NoticesTypeOK
<1>2. /\ now \in Nat /\ Window \in Nat /\ \A n \in Rows : n.at \in Nat /\ n.at <= now
    BY RowsAt
<1>3. ASSUME NEW n \in new
      PROVE  /\ n.at = now /\ n \notin Rows
             /\ \A m \in Rows : Same(n, m) => now > m.at + Window
             /\ \A m \in new : Same(n, m) => n = m
    <2>1. PICK d \in ds : n = Row(d) OBVIOUS
    <2>2. d.due = None /\ ~ DedupExists(d) BY DEF EventDraft
    <2>3. \A m \in Rows : Same(n, m) => ~ m.at >= now - Window
        BY <2>1, <2>2, RowOf DEF DedupExists, Same
    <2>4. ASSUME NEW m \in new, Same(n, m) PROVE n = m
        <3>1. PICK e \in ds : m = Row(e) OBVIOUS
        <3>2. e.due = None BY DEF EventDraft
        <3>3. d.key = e.key /\ d.ref = e.ref /\ d.to = e.to BY <2>1, <2>4, <3>1, RowOf DEF Same
        <3> QED BY <2>1, <2>2, <3>1, <3>2, <3>3 DEF Row
    <2>5. n.at = now BY <2>1, RowOf
    <2>6. \A m \in Rows : Same(n, m) => now > m.at + Window
        BY <1>2, <2>3
    <2>7. n \notin Rows BY <1>2, <2>5, <2>6 DEF Same
    <2> QED BY <2>4, <2>5, <2>6, <2>7
<1> HIDE DEF new
<1> SUFFICES ASSUME NEW n \in Rows', n.key \in EventKeys
             PROVE  /\ notices'[n] = 1
                    /\ \A m \in Rows' \ {n} :
                         Same(n, m) => n.at > m.at + Window \/ m.at > n.at + Window
    BY DEF OncePerWindow, Same
<1>4. CASE n \in new
    BY <1>1, <1>3, <1>4
<1>5. CASE n \notin new
    <2>1. n \in Rows /\ notices'[n] = 1 BY <1>1, <1>5 DEF OncePerWindow
    <2>2. ASSUME NEW m \in new, Same(n, m) PROVE m.at > n.at + Window
        BY <1>3, <2>1, <2>2 DEF Same
    <2> QED BY <1>1, <2>1, <2>2 DEF OncePerWindow
<1> QED BY <1>4, <1>5

\* One notice of a stage that its recipient has not had.
LEMMA StagePosted ==
    ASSUME NoticesTypeOK, StageOnce, NEW d, Write({d}), \A n \in Rows : ~ Alike(n, d)
    PROVE  StageOnce'
<1>1. {Row(e) : e \in {d}} = {Row(d)} OBVIOUS
<1>2. /\ Rows' = Rows \cup {Row(d)}
      /\ \A n \in Rows : n # Row(d) => notices'[n] = notices[n]
      /\ Row(d) \notin Rows => notices'[Row(d)] = 1
    BY <1>1, Posted DEF NoticesTypeOK
<1>3. \A n \in Rows : ~ (Same(n, Row(d)) /\ n.due = Row(d).due)
    BY RowOf DEF Alike, Same
<1>4. Row(d) \notin Rows BY <1>3 DEF Same
<1> SUFFICES ASSUME NEW n \in Rows', n.key \in StageKeys
             PROVE  /\ notices'[n] = 1
                    /\ \A m \in Rows' \ {n} : ~ (Same(n, m) /\ n.due = m.due)
    BY DEF StageOnce, Same
<1>5. CASE n = Row(d)
    BY <1>2, <1>3, <1>4, <1>5 DEF Same
<1>6. CASE n # Row(d)
    BY <1>2, <1>3, <1>6 DEF StageOnce, Same
<1> QED BY <1>5, <1>6
-------------------------------------------------------------------------------
(***************************************************************************)
(* Notices: jobs.                                                          *)
(***************************************************************************)
\* A job nobody steps stays sound: rows only come, the clock goes on by at most
\* one, managers only leave, and nobody else announces its stage.
LEMMA JobKept ==
    ASSUME NEW j, j.day \in Int, j.at \in Int, NEW N, NEW N2, NEW t \in Nat, NEW u,
           u = t \/ u = t + 1, NEW ms, NEW ms2, ms2 \subseteq ms, NEW us, NEW us2, us2 \subseteq us,
           SoundJob(j, N, t, ms, us), N \subseteq N2,
           j.step = "stages" => \A d \in j.send : \A n \in N2 \ N : ~ Alike(n, d)
    PROVE  SoundJob(j, N2, u, ms2, us2)
<1>1. Day(t) \in Nat /\ Day(u) \in Nat /\ Day(t) <= Day(u)
    <2>1. CASE u = t BY <2>1, DayBounds
    <2>2. CASE u = t + 1 BY <2>2, DayBounds
    <2> QED BY <2>1, <2>2
<1>2. j.at <= u /\ j.day <= Day(u) BY <1>1 DEF SoundJob
<1>3. SoundDrafts(j, N2) BY DEF SoundJob, SoundDrafts
<1>4. SoundOverdue(j, N2, ms2)
    <2>1. \A p : Announced(p, j.at, N) => Announced(p, j.at, N2) BY DEF Announced
    <2>2. ms2 # {} => ms # {} OBVIOUS
    <2> QED BY <2>1, <2>2 DEF SoundJob, SoundOverdue
<1>5. SoundSummary(j, N2, u, us2)
    <2>1. \A m : Summarised(m, j.day, N) => Summarised(m, j.day, N2) BY DEF Summarised
    <2>2. j.day = Day(u) => j.day = Day(t) BY <1>1 DEF SoundJob
    <2> QED BY <2>1, <2>2 DEF SoundJob, SoundSummary
<1> QED BY <1>2, <1>3, <1>4, <1>5 DEF SoundJob

LEMMA JobTyped ==
    ASSUME NoticesTypeOK, NEW w \in Process
    PROVE  /\ job[w] \in Job /\ job[w].day \in Nat /\ job[w].at \in Nat
           /\ job[w].send \subseteq Draft /\ job[w].read \in [Plan -> PlanRow]
           /\ job[w].todo \subseteq Plan \cup User /\ job[w].step \in Step
BY DEF NoticesTypeOK, Job

\* A job that rests, and a job that begins.
LEMMA RestingTyped ==
    ASSUME plan \in [Plan -> PlanRow], NEW N, NEW t \in Nat, NEW ms, NEW us
    PROVE  Resting \in Job /\ SoundJob(Resting, N, t, ms, us) /\ Resting.step = "none"
<1>1. Blank \in [Plan -> PlanRow]
    <2>1. \A p \in Plan : plan[p].due \in DueTimes BY DEF PlanRow
    <2>2. \A p \in Plan : (CHOOSE d \in DueTimes : TRUE) \in DueTimes BY <2>1
    <2>3. \A p \in Plan : [active |-> FALSE, due |-> CHOOSE d \in DueTimes : TRUE,
                           technician |-> NoUser] \in PlanRow
        BY <2>2 DEF PlanRow
    <2> QED BY <2>3 DEF Blank
<1>2. /\ Resting.step = "none" /\ Resting.day = 0 /\ Resting.at = 0 /\ Resting.send = {}
      /\ Resting \in Job
    BY <1>1 DEF Resting, Job, Step
<1> HIDE DEF Resting
<1>3. Day(t) \in Nat BY DayBounds
<1> QED BY <1>2, <1>3 DEF SoundJob, SoundDrafts, SoundOverdue, SoundSummary

LEMMA BegunJob ==
    ASSUME plan \in [Plan -> PlanRow], now \in Nat, NEW step \in Step,
           NEW todo \in SUBSET (Plan \cup User), NEW N, NEW ms, NEW us, step # "managers",
           step = "overdue" => todo = OverduePlans
    PROVE  /\ Begin(step, todo) \in Job /\ Begin(step, todo).step = step
           /\ SoundJob(Begin(step, todo), N, now, ms, us)
<1> DEFINE j == Begin(step, todo)
<1>1. Day(now) \in Nat BY DayBounds
<1>2. /\ j.step = step /\ j.day = Day(now) /\ j.at = now /\ j.todo = todo /\ j.send = {}
      /\ j.read = plan /\ j \in Job
    BY <1>1 DEF Begin, Today, Job
<1> HIDE DEF j
<1>3. SoundDrafts(j, N) BY <1>2 DEF SoundDrafts
<1>4. SoundOverdue(j, N, ms) BY <1>2 DEF SoundOverdue, OverduePlans, ActivePlans
<1>5. SoundSummary(j, N, now, us) BY <1>2 DEF SoundSummary
<1>6. j.at <= now /\ j.day <= Day(now) BY <1>1, <1>2
<1> QED BY <1>2, <1>3, <1>4, <1>5, <1>6 DEF SoundJob, j

\* What the sync writes for one plan.
LEMMA StageDraft ==
    ASSUME active \subseteq User, NEW p \in Plan, NEW days \in Int,
           NEW dueOn \in {Day(t) : t \in DueTimes}, NEW d \in StageDrafts(p, days, dueOn)
    PROVE  /\ d \in Draft /\ d.key \in StageKeys
           /\ d.key = StageKey(days) /\ d.ref = p /\ d.due = dueOn
           /\ \A n \in Rows : ~ Alike(n, d)
<1>1. ~ StageSent(p, days, dueOn) BY DEF StageDrafts
<1>2. PICK u \in StageRecipients(days) : d = [key |-> StageKey(days), ref |-> p, due |-> dueOn, to |-> u]
    BY <1>1 DEF StageDrafts
<1>3. days \in {7, 3, 1, 0} BY <1>2 DEF StageRecipients
<1>4. StageKey(days) \in StageKeys
    <2>1. CASE days = 7 BY <2>1 DEF StageKey, StageKeys
    <2>2. CASE days = 3 BY <2>2 DEF StageKey, StageKeys
    <2>3. CASE days = 1 BY <2>3 DEF StageKey, StageKeys
    <2>4. CASE days = 0 BY <2>4 DEF StageKey, StageKeys
    <2> QED BY <1>3, <2>1, <2>2, <2>3, <2>4
<1>5. u \in User
    <2>1. Staff \subseteq User /\ Managers \subseteq User /\ Technicians \subseteq User BY Recipients
    <2>2. CASE days \in {7, 3} BY <1>2, <2>1, <2>2 DEF StageRecipients
    <2>3. CASE days = 1 BY <1>2, <2>1, <2>3 DEF StageRecipients
    <2>4. CASE days = 0 BY <1>2, <2>1, <2>4 DEF StageRecipients
    <2> QED BY <1>3, <2>2, <2>3, <2>4
<1>6. /\ d.key = StageKey(days) /\ d.ref = p /\ d.due = dueOn BY <1>2
<1>7. d \in Draft BY <1>2, <1>4, <1>5 DEF Draft
<1>8. \A n \in Rows : ~ Alike(n, d) BY <1>1, <1>6 DEF StageSent, Alike, Same
<1> QED BY <1>4, <1>6, <1>7, <1>8

\* A job that takes its next plan.
LEMMA TakenPlan ==
    ASSUME NoticesTypeOK, SoundJobs, NEW w \in Process, NEW p \in Plan, TakePlan(w, p)
    PROVE  \E j \in Job : /\ job' = [job EXCEPT ![w] = j] /\ j.step = job[w].step
                          /\ SoundJob(j, Rows, now, Managers, ManagersByRole)
<1> DEFINE old == job[w]
<1>1. /\ old \in Job /\ old.day \in Nat /\ old.at \in Nat
      /\ old.read \in [Plan -> PlanRow] /\ old.todo \subseteq Plan \cup User /\ old.step \in Step
    BY JobTyped
<1>2. SoundJob(old, Rows, now, Managers, ManagersByRole) BY DEF SoundJobs
<1>3. p \in old.todo /\ old.send = {} BY DEF TakePlan
<1>4. \A send \in SUBSET Draft :
        LET j == [old EXCEPT !.todo = @ \ {p}, !.send = send]
        IN  /\ j \in Job /\ j.step = old.step /\ j.day = old.day /\ j.at = old.at
            /\ j.send = send /\ j.read = old.read /\ j.todo = old.todo \ {p}
    BY <1>1 DEF Job
<1>5. CASE old.step = "stages"
    <2> DEFINE dueOn == Day(old.read[p].due)
               send == StageDrafts(p, dueOn - old.day, dueOn)
               j == [old EXCEPT !.todo = @ \ {p}, !.send = send]
    <2>1. old.read[p].due \in DueTimes BY <1>1 DEF PlanRow
    <2>2. dueOn \in {Day(t) : t \in DueTimes} /\ dueOn - old.day \in Int
        <3>1. old.read[p].due \in Nat BY <2>1, NoticesAssumption
        <3>2. dueOn \in Nat BY <3>1, DayBounds
        <3> QED BY <1>1, <2>1, <3>2
    <2>3. active \subseteq User BY DEF NoticesTypeOK
    <2>4. \A d \in send : /\ d \in Draft /\ d.key \in StageKeys
                          /\ d.key = StageKey(dueOn - old.day) /\ d.ref = p /\ d.due = dueOn
                          /\ \A n \in Rows : ~ Alike(n, d)
        BY <2>2, <2>3, StageDraft
    <2>5. job' = [job EXCEPT ![w] = j] BY <1>5 DEF TakePlan, Becomes
    <2> HIDE DEF send, dueOn
    <2>6. /\ j \in Job /\ j.step = "stages" /\ j.day = old.day /\ j.at = old.at /\ j.send = send
        BY <1>4, <1>5, <2>4
    <2> HIDE DEF j
    <2>7. SoundDrafts(j, Rows) BY <2>4, <2>6 DEF SoundDrafts, StepKeys
    <2>8. SoundJob(j, Rows, now, Managers, ManagersByRole)
        BY <1>2, <2>6, <2>7 DEF SoundJob, SoundOverdue, SoundSummary
    <2> QED BY <1>5, <2>5, <2>6, <2>8
<1>6. CASE old.step = "overdue"
    <2> DEFINE send == OverdueDrafts(p, old.at)
               j == [old EXCEPT !.todo = @ \ {p}, !.send = send]
    <2>1. \A d \in send : d \in Draft /\ d.key = "pm_overdue" /\ d.ref = p
        <3>1. Managers \in SUBSET User BY Recipients DEF NoticesTypeOK
        <3>2. "pm_overdue" \in LoopKeys BY DEF LoopKeys
        <3> QED BY <3>1, <3>2, Addressed DEF OverdueDrafts
    <2>2. Managers # {} => Announced(p, old.at, Rows) \/ \E d \in send : d.ref = p
        <3>1. CASE OverdueSent(p, old.at) BY <3>1 DEF OverdueSent, Announced
        <3>2. ASSUME ~ OverdueSent(p, old.at), NEW u \in Managers
              PROVE  \E d \in send : d.ref = p
            <4> DEFINE d == [key |-> "pm_overdue", ref |-> p, due |-> None, to |-> u]
            <4>1. send = To("pm_overdue", p, Managers) BY <3>2 DEF OverdueDrafts
            <4>2. d \in send BY <4>1, <3>2 DEF To
            <4> QED BY <4>2
        <3> QED BY <3>1, <3>2
    <2>3. job' = [job EXCEPT ![w] = j] BY <1>6 DEF TakePlan, Becomes
    <2> HIDE DEF send
    <2>4. /\ j \in Job /\ j.step = "overdue" /\ j.day = old.day /\ j.at = old.at /\ j.send = send
          /\ j.read = old.read /\ j.todo = old.todo \ {p}
        BY <1>4, <1>6, <2>1
    <2> HIDE DEF j
    <2>5. SoundDrafts(j, Rows) BY <2>1, <2>4 DEF SoundDrafts, StepKeys
    <2>6. SoundOverdue(j, Rows, Managers)
        BY <1>2, <1>3, <1>6, <2>2, <2>4 DEF SoundJob, SoundOverdue
    <2>7. SoundJob(j, Rows, now, Managers, ManagersByRole)
        BY <1>2, <2>4, <2>5, <2>6 DEF SoundJob, SoundSummary
    <2> QED BY <1>6, <2>3, <2>4, <2>7
<1>7. CASE old.step = "unassigned"
    <2> DEFINE send == To("pm_unassigned", p, ManagersByRole)
               j == [old EXCEPT !.todo = @ \ {p}, !.send = send]
    <2>1. \A d \in send : d \in Draft /\ d.key = "pm_unassigned"
        <3>1. ManagersByRole \in SUBSET User BY Recipients DEF NoticesTypeOK
        <3>2. "pm_unassigned" \in LoopKeys BY DEF LoopKeys
        <3> QED BY <3>1, <3>2, Addressed
    <2>2. job' = [job EXCEPT ![w] = j] BY <1>7 DEF TakePlan, Becomes
    <2> HIDE DEF send
    <2>3. /\ j \in Job /\ j.step = "unassigned" /\ j.day = old.day /\ j.at = old.at /\ j.send = send
        BY <1>4, <1>7, <2>1
    <2> HIDE DEF j
    <2>4. SoundJob(j, Rows, now, Managers, ManagersByRole)
        BY <1>2, <2>1, <2>3 DEF SoundJob, SoundDrafts, StepKeys, SoundOverdue, SoundSummary
    <2> QED BY <1>7, <2>2, <2>3, <2>4
<1> QED BY <1>5, <1>6, <1>7 DEF TakePlan
\* A technician's summary of the morning.
LEMMA TakenTechnician ==
    ASSUME NoticesTypeOK, SoundJobs, NEW w \in Process, NEW u \in User, TakeTechnician(w, u)
    PROVE  \E j \in Job : /\ job' = [job EXCEPT ![w] = j] /\ j.step = job[w].step
                          /\ SoundJob(j, Rows, now, Managers, ManagersByRole)
<1> DEFINE old == job[w]
           send == To("pm_morning_summary", None, {u} \cap active \cap WithWork(Today))
           j == [old EXCEPT !.todo = @ \ {u}, !.send = send]
<1>1. old \in Job /\ old.todo \subseteq Plan \cup User BY JobTyped
<1>2. SoundJob(old, Rows, now, Managers, ManagersByRole) BY DEF SoundJobs
<1>3. old.step = "technicians" /\ job' = [job EXCEPT ![w] = j] BY DEF TakeTechnician, Becomes
<1>4. \A d \in send : d \in Draft /\ d.key = "pm_morning_summary"
    <2>1. {u} \cap active \cap WithWork(Today) \in SUBSET User OBVIOUS
    <2>2. "pm_morning_summary" \in LoopKeys BY DEF LoopKeys
    <2> QED BY <2>1, <2>2, Addressed
<1> HIDE DEF send
<1>5. j \in Job /\ j.step = "technicians" /\ j.day = old.day /\ j.at = old.at /\ j.send = send
    BY <1>1, <1>3, <1>4 DEF Job
<1> HIDE DEF j
<1>6. SoundJob(j, Rows, now, Managers, ManagersByRole)
    BY <1>2, <1>4, <1>5 DEF SoundJob, SoundDrafts, StepKeys, SoundOverdue, SoundSummary
<1> QED BY <1>3, <1>5, <1>6

\* The managers' summaries are due.
LEMMA ManagersDue ==
    ASSUME NoticesTypeOK, SoundJobs, NEW w \in Process, TechniciansDone(w)
    PROVE  \E j \in Job : /\ job' = [job EXCEPT ![w] = j] /\ j.step = "managers"
                          /\ SoundJob(j, Rows, now, Managers, ManagersByRole)
<1> DEFINE old == job[w]
           send == To("pm_manager_morning", None, ManagersByRole)
           j == [old EXCEPT !.step = "managers", !.send = send]
<1>1. old \in Job BY JobTyped
<1>2. SoundJob(old, Rows, now, Managers, ManagersByRole) BY DEF SoundJobs
<1>3. job' = [job EXCEPT ![w] = j] BY DEF TechniciansDone, Becomes
<1>4. \A d \in send : d \in Draft /\ d.key = "pm_manager_morning"
    <2>1. ManagersByRole \in SUBSET User BY Recipients DEF NoticesTypeOK
    <2>2. "pm_manager_morning" \in LoopKeys BY DEF LoopKeys
    <2> QED BY <2>1, <2>2, Addressed
<1>5. \A u \in ManagersByRole : \E d \in send : d.to = u
    <2> TAKE u \in ManagersByRole
    <2> DEFINE d == [key |-> "pm_manager_morning", ref |-> None, due |-> None, to |-> u]
    <2>1. d \in send BY DEF To
    <2> QED BY <2>1
<1> HIDE DEF send
<1>6. j \in Job /\ j.step = "managers" /\ j.day = old.day /\ j.at = old.at /\ j.send = send
    BY <1>1, <1>4 DEF Job, Step
<1> HIDE DEF j
<1>7. SoundJob(j, Rows, now, Managers, ManagersByRole)
    BY <1>2, <1>4, <1>5, <1>6 DEF SoundJob, SoundDrafts, StepKeys, SoundOverdue, SoundSummary
<1> QED BY <1>3, <1>6, <1>7

-------------------------------------------------------------------------------
(***************************************************************************)
(* Notices: the invariant.                                                 *)
(***************************************************************************)
\* A job steps and writes nothing.
LEMMA JobMoves ==
    ASSUME NoticesIInv, NEW w \in Process, NEW j \in Job, job' = [job EXCEPT ![w] = j],
           SoundJob(j, Rows, now, Managers, ManagersByRole),
           j.step = "stages" => job[w].step = "stages" \/ ~ Running({"stages"}),
           UNCHANGED <<now, active, plan, notices>>
    PROVE  /\ OneSync' /\ SoundJobs'
           /\ sentDay' = sentDay => NoticesIInv'
<1>1. NoticesTypeOK /\ job \in [Process -> Job] BY DEF NoticesIInv, NoticesInv, NoticesTypeOK
<1>2. job' \in [Process -> Job] /\ job'[w] = j /\ \A v \in Process \ {w} : job'[v] = job[v]
    BY <1>1
<1>3. OneSync'
    <2>1. \A v, x \in Process : job[v].step = "stages" /\ job[x].step = "stages" => v = x
        BY DEF NoticesIInv, OneSync
    <2>2. ASSUME j.step = "stages", NEW v \in Process, v # w PROVE job[v].step # "stages"
        BY <2>1, <2>2 DEF Running
    <2>3. \A v, x \in Process : job'[v].step = "stages" /\ job'[x].step = "stages" => v = x
        BY <1>2, <2>1, <2>2
    <2> QED BY <2>3 DEF OneSync
<1>4. Rows' = Rows /\ Managers' = Managers /\ ManagersByRole' = ManagersByRole /\ Today' = Today
    BY DEF Rows, Managers, ManagersByRole, WithSuperusers, ActiveIn, Today
<1>5. \A v \in Process : SoundJob(job[v], Rows, now, Managers, ManagersByRole)
    BY DEF NoticesIInv, SoundJobs
<1>6. \A v \in Process : SoundJob(job'[v], Rows, now, Managers, ManagersByRole)
    BY <1>2, <1>5
<1>7. SoundJobs' BY <1>4, <1>6 DEF SoundJobs
<1>8. ASSUME sentDay' = sentDay PROVE NoticesIInv'
    <2>1. NoticesTypeOK' BY <1>1, <1>2, <1>4, <1>8 DEF NoticesTypeOK
    <2>2. OncePerWindow' /\ StageOnce'
        BY <1>4 DEF NoticesIInv, NoticesInv, OncePerWindow, StageOnce, Same
    <2>3. SummariesSent'
        BY <1>4, <1>8 DEF NoticesIInv, SummariesSent
    <2> QED BY <1>3, <1>4, <1>7, <1>8, <2>1, <2>2, <2>3 DEF NoticesIInv, NoticesInv
<1> QED BY <1>3, <1>7, <1>8

\* Jobs that do not step stay sound.
LEMMA JobsKept ==
    ASSUME NoticesTypeOK, SoundJobs, job' = job, now' \in {now, now + 1}, Rows \subseteq Rows',
           Managers' \in SUBSET Managers, ManagersByRole' \in SUBSET ManagersByRole,
           \A n \in Rows' \ Rows : n.key \notin StageKeys
    PROVE  SoundJobs'
<1>1. ASSUME NEW w \in Process
      PROVE  SoundJob(job[w], Rows', now', Managers', ManagersByRole')
    <2>1. now \in Nat /\ job[w].day \in Int /\ job[w].at \in Int BY JobTyped, RowsAt
    <2>2. SoundJob(job[w], Rows, now, Managers, ManagersByRole) BY DEF SoundJobs
    <2>3. ASSUME job[w].step = "stages", NEW d \in job[w].send, NEW n \in Rows' \ Rows
          PROVE  ~ Alike(n, d)
        <3>1. d.key \in StageKeys BY <2>2, <2>3 DEF SoundJob, SoundDrafts, StepKeys
        <3> QED BY <3>1 DEF Alike, Same
    <2>4. now' = now \/ now' = now + 1 OBVIOUS
    <2>5. Managers' \subseteq Managers /\ ManagersByRole' \subseteq ManagersByRole OBVIOUS
    <2> QED BY <2>1, <2>2, <2>3, <2>4, <2>5, JobKept
<1> QED BY <1>1 DEF SoundJobs

\* Rows come, the clock goes on, accounts are deactivated; jobs do not step.
LEMMA Around ==
    ASSUME NoticesIInv, NEW ds \in SUBSET Draft, \A d \in ds : d.key \notin StageKeys,
           \/ Write(ds) /\ UNCHANGED <<now, active, plan>>
           \/ UNCHANGED <<now, notices>> /\ active' \in SUBSET active /\ plan' = plan
           \/ UNCHANGED <<now, notices, active>> /\ plan' \in [Plan -> PlanRow]
           \/ UNCHANGED <<active, plan, notices>> /\ now' = now + 1 /\ now' \in 0..MaxNow,
           OncePerWindow', StageOnce', UNCHANGED <<sentDay, job>>
    PROVE  NoticesIInv'
<1>1. NoticesTypeOK /\ now \in Nat BY RowsAt DEF NoticesIInv, NoticesInv
<1>2. now' \in {now, now + 1} /\ active' \in SUBSET active /\ plan' \in [Plan -> PlanRow]
      /\ now' \in 0..MaxNow
    BY <1>1 DEF NoticesTypeOK
<1>3. /\ IsABag(notices') /\ Rows \subseteq Rows'
      /\ \A n \in Rows' \ Rows : n.key \notin StageKeys
      /\ \A n \in Rows' : /\ [key |-> n.key, ref |-> n.ref, due |-> n.due, to |-> n.to] \in Draft
                          /\ n.at \in 0..now'
    <2>1. CASE Write(ds) /\ now' = now
        <3>1. Rows' = Rows \cup {Row(d) : d \in ds} BY <1>1, <2>1, Posted DEF NoticesTypeOK
        <3>2. \A d \in ds : Row(d).key \notin StageKeys BY RowOf
        <3> QED BY <1>1, <2>1, <3>1, <3>2, RowsTyped
    <2>2. CASE notices' = notices
        <3>1. Rows' = Rows BY <2>2 DEF Rows
        <3>2. \A n \in Rows : n.at \in 0..now => n.at \in 0..now' BY <1>1, <1>2
        <3> QED BY <1>1, <2>2, <3>1, <3>2 DEF NoticesTypeOK
    <2> QED BY <2>1, <2>2
<1>4. NoticesTypeOK' BY <1>1, <1>2, <1>3 DEF NoticesTypeOK
<1>5. Managers' \in SUBSET Managers /\ ManagersByRole' \in SUBSET ManagersByRole
    BY <1>2 DEF Managers, ManagersByRole, WithSuperusers, ActiveIn
<1>6. SoundJobs'
    <2>1. now' \in {now, now + 1} /\ job' = job BY <1>2
    <2>2. SoundJobs BY DEF NoticesIInv
    <2> QED BY <1>1, <1>3, <1>5, <2>1, <2>2, JobsKept
<1>7. OneSync' BY DEF NoticesIInv, OneSync
<1>8. Today \in Nat /\ Today' \in Nat /\ Today <= Today'
    <2>1. Today = Day(now) /\ Today' = Day(now') BY DEF Today, Day
    <2> QED BY <1>1, <1>2, <2>1, DayBounds
<1>9. sentDay' <= Today' BY <1>1, <1>8 DEF NoticesIInv, NoticesTypeOK
<1>10. SummariesSent'
    <2>1. sentDay' = Today' => sentDay = Today BY <1>1, <1>8 DEF NoticesIInv, NoticesTypeOK
    <2> QED BY <1>3, <1>5, <1>8, <2>1 DEF NoticesIInv, SummariesSent, Day
<1> QED BY <1>4, <1>6, <1>7, <1>9, <1>10 DEF NoticesIInv, NoticesInv
\* A job writes one notice.
LEMMA SendKeeps ==
    ASSUME NoticesIInv, NEW w \in Process, NEW d \in job[w].send, Send(w, d)
    PROVE  NoticesIInv'
<1> DEFINE old == job[w]
           j == [old EXCEPT !.send = @ \ {d}]
<1>1. NoticesTypeOK /\ OncePerWindow /\ StageOnce /\ job \in [Process -> Job]
    BY DEF NoticesIInv, NoticesInv, NoticesTypeOK
<1>2. /\ old \in Job /\ old.day \in Int /\ old.at \in Nat /\ d \in Draft
    BY <1>1, JobTyped
<1>3. SoundJob(old, Rows, now, Managers, ManagersByRole) BY DEF NoticesIInv, SoundJobs
<1>4. d.key \in StepKeys(old.step) BY <1>3 DEF SoundJob, SoundDrafts
<1>5. /\ j \in Job /\ j.step = old.step /\ j.day = old.day /\ j.at = old.at /\ j.todo = old.todo
      /\ j.read = old.read /\ j.send = old.send \ {d}
    BY <1>2 DEF Job
<1>6. /\ Write({d}) /\ job' = [job EXCEPT ![w] = j]
      /\ UNCHANGED <<now, active, plan, sentDay>>
    BY DEF Send, Becomes
<1>7. job'[w] = j /\ \A v \in Process \ {w} : job'[v] = job[v] BY <1>1, <1>6
<1> HIDE DEF j
<1>8. d.key \in StageKeys => old.step = "stages"
    BY <1>4 DEF StepKeys, StageKeys
<1>9. d.key \notin EventKeys
    BY <1>4 DEF StepKeys, StageKeys, EventKeys
<1>10. Rows' = Rows \cup {Row(d)}
    <2>1. {Row(e) : e \in {d}} = {Row(d)} OBVIOUS
    <2> QED BY <1>1, <1>6, <2>1, Posted DEF NoticesTypeOK
<1>11. now \in Nat /\ Hours \in Nat BY <1>1, RowsAt
<1>12. OncePerWindow' BY <1>1, <1>6, <1>9, PlainPosted
<1>13. StageOnce'
    <2>1. CASE d.key \notin StageKeys BY <1>1, <1>6, <2>1, PlainPosted
    <2>2. CASE d.key \in StageKeys
        <3>1. \A n \in Rows : ~ Alike(n, d) BY <1>3, <1>8, <2>2 DEF SoundJob, SoundDrafts
        <3> QED BY <1>1, <1>6, <3>1, StagePosted
    <2> QED BY <2>1, <2>2
<1>14. Managers' = Managers /\ ManagersByRole' = ManagersByRole /\ Today' = Today
    BY <1>6 DEF Managers, ManagersByRole, WithSuperusers, ActiveIn, Today
<1>15. SoundJob(j, Rows', now, Managers, ManagersByRole)
    <2>1. SoundDrafts(j, Rows')
        <3>1. \A e \in j.send : e.key \in StepKeys(j.step) BY <1>3, <1>5 DEF SoundJob, SoundDrafts
        <3>2. ASSUME j.step = "stages"
              PROVE  /\ \A e \in j.send : \A n \in Rows' : ~ Alike(n, e)
                     /\ \A e, g \in j.send : e.key = g.key /\ e.ref = g.ref /\ e.due = g.due
            <4>1. /\ \A e \in old.send : \A n \in Rows : ~ Alike(n, e)
                  /\ \A e, g \in old.send : e.key = g.key /\ e.ref = g.ref /\ e.due = g.due
                BY <1>3, <1>5, <3>2 DEF SoundJob, SoundDrafts
            <4>2. ASSUME NEW e \in j.send PROVE ~ Alike(Row(d), e)
                <5>1. e \in old.send /\ e # d /\ e \in Draft BY <1>1, <1>5, JobTyped
                <5>2. e.key = d.key /\ e.ref = d.ref /\ e.due = d.due BY <4>1, <5>1
                <5>3. e.to # d.to BY <1>2, <5>1, <5>2 DEF Draft
                <5> QED BY <5>3, RowOf DEF Alike, Same
            <4> QED BY <1>5, <1>10, <4>1, <4>2
        <3> QED BY <3>1, <3>2 DEF SoundDrafts
    <2>2. SoundOverdue(j, Rows', Managers)
        <3> SUFFICES ASSUME old.step = "overdue", Managers # {}, NEW p \in Plan,
                            old.read[p].active, old.read[p].due < old.at
                     PROVE  \/ p \in old.todo
                            \/ \E e \in j.send : e.ref = p
                            \/ Announced(p, old.at, Rows')
            BY <1>5 DEF SoundOverdue
        <3>1. \/ p \in old.todo
              \/ \E e \in old.send : e.ref = p
              \/ Announced(p, old.at, Rows)
            BY <1>3 DEF SoundJob, SoundOverdue
        <3>2. CASE d.ref = p
            <4>1. Row(d).key = "pm_overdue" /\ Row(d).ref = p /\ Row(d).at = now
                BY <1>4, <3>2, RowOf DEF StepKeys
            <4>2. now >= old.at - 2 * Hours BY <1>2, <1>3, <1>11 DEF SoundJob
            <4> QED BY <1>10, <4>1, <4>2 DEF Announced
        <3>3. CASE d.ref # p BY <1>5, <1>10, <3>1, <3>3 DEF Announced
        <3> QED BY <3>2, <3>3
    <2>3. SoundSummary(j, Rows', now, ManagersByRole)
        <3> SUFFICES ASSUME old.step = "managers", old.day = Day(now), NEW u \in ManagersByRole
                     PROVE  Summarised(u, old.day, Rows') \/ \E e \in j.send : e.to = u
            BY <1>5 DEF SoundSummary
        <3>1. Summarised(u, old.day, Rows) \/ \E e \in old.send : e.to = u
            BY <1>3 DEF SoundJob, SoundSummary
        <3>2. CASE d.to = u
            <4>1. Row(d).key = "pm_manager_morning" /\ Row(d).to = u /\ Row(d).at = now
                BY <1>4, <3>2, RowOf DEF StepKeys
            <4> QED BY <1>10, <4>1 DEF Summarised
        <3>3. CASE d.to # u BY <1>5, <1>10, <3>1, <3>3 DEF Summarised
        <3> QED BY <3>2, <3>3
    <2>4. j.at <= now /\ j.day <= Day(now) BY <1>3, <1>5 DEF SoundJob
    <2> QED BY <2>1, <2>2, <2>3, <2>4 DEF SoundJob
<1>16. ASSUME NEW v \in Process, v # w
       PROVE  SoundJob(job[v], Rows', now, Managers, ManagersByRole)
    <2>1. job[v].day \in Int /\ job[v].at \in Int BY <1>1, JobTyped
    <2>2. SoundJob(job[v], Rows, now, Managers, ManagersByRole) BY DEF NoticesIInv, SoundJobs
    <2>3. ASSUME job[v].step = "stages", NEW e \in job[v].send, NEW n \in Rows' \ Rows
          PROVE  ~ Alike(n, e)
        <3>1. e.key \in StageKeys BY <2>2, <2>3 DEF SoundJob, SoundDrafts, StepKeys
        <3>2. old.step # "stages" BY <1>16, <2>3 DEF NoticesIInv, OneSync
        <3>3. n.key \notin StageKeys BY <1>8, <1>10, <2>3, <3>2, RowOf
        <3> QED BY <3>1, <3>3 DEF Alike, Same
    <2>4. Rows \subseteq Rows' /\ now \in {now, now + 1} BY <1>10
    <2> QED BY <1>11, <2>1, <2>2, <2>3, <2>4, JobKept
<1>17. \A v \in Process : SoundJob(job'[v], Rows', now, Managers, ManagersByRole)
    BY <1>7, <1>15, <1>16
<1>18. SoundJobs' BY <1>6, <1>14, <1>17 DEF SoundJobs
<1>19. OneSync' BY <1>5, <1>7 DEF NoticesIInv, OneSync
<1>20. NoticesTypeOK'
    <2>1. {d} \in SUBSET Draft BY <1>2
    <2>2. job' \in [Process -> Job] BY <1>1, <1>5, <1>6
    <2> QED BY <1>1, <1>6, <2>1, <2>2, RowsTyped DEF NoticesTypeOK
<1>21. SummariesSent' BY <1>6, <1>10, <1>14 DEF NoticesIInv, SummariesSent, Day
<1> QED BY <1>6, <1>12, <1>13, <1>14, <1>18, <1>19, <1>20, <1>21 DEF NoticesIInv, NoticesInv

\* The morning batch ends: the date it began on is saved.
LEMMA ManagersDoneKeeps ==
    ASSUME NoticesIInv, NEW w \in Process, ManagersDone(w)
    PROVE  NoticesIInv'
<1> DEFINE old == job[w]
           j == Begin("unassigned", Unassigned(Today))
<1>1. NoticesTypeOK /\ OncePerWindow /\ StageOnce
    BY DEF NoticesIInv, NoticesInv
<1>2. /\ old.step = "managers" /\ old.send = {} /\ sentDay' = old.day
      /\ job' = [job EXCEPT ![w] = j] /\ UNCHANGED <<now, active, plan, notices>>
    BY DEF ManagersDone, LoopDone, Becomes
<1>3. old.day \in Nat BY <1>1, JobTyped
<1>4. SoundJob(old, Rows, now, Managers, ManagersByRole) BY DEF NoticesIInv, SoundJobs
<1>5. /\ j \in Job /\ j.step = "unassigned"
      /\ SoundJob(j, Rows, now, Managers, ManagersByRole)
    <2>1. now \in Nat /\ plan \in [Plan -> PlanRow] BY <1>1, RowsAt DEF NoticesTypeOK
    <2>2. Unassigned(Today) \subseteq Plan \cup User /\ "unassigned" \in Step
        BY DEF Unassigned, DueOn, Step
    <2> QED BY <2>1, <2>2, BegunJob
<1> HIDE DEF j
<1>6. OneSync' /\ SoundJobs' BY <1>2, <1>5, JobMoves
<1>7. Rows' = Rows /\ ManagersByRole' = ManagersByRole /\ Today' = Today /\ Today = Day(now)
    BY <1>2 DEF Rows, ManagersByRole, ActiveIn, Today
<1>8. sentDay' <= Today' BY <1>2, <1>4, <1>7 DEF SoundJob
<1>9. SummariesSent'
    <2>1. old.day = Day(now) => \A u \in ManagersByRole : Summarised(u, old.day, Rows)
        BY <1>2, <1>4 DEF SoundJob, SoundSummary
    <2>2. sentDay' = Today' =>
            \A u \in ManagersByRole' :
              \E n \in Rows' : n.key = "pm_manager_morning" /\ n.to = u /\ Day(n.at) = Today'
        BY <1>2, <1>7, <2>1 DEF Summarised
    <2> QED BY <2>2 DEF SummariesSent, Day
<1>10. NoticesTypeOK'
    <2>1. job' \in [Process -> Job] BY <1>1, <1>2, <1>5 DEF NoticesTypeOK
    <2> QED BY <1>1, <1>2, <1>3, <1>7, <2>1 DEF NoticesTypeOK
<1>11. OncePerWindow' /\ StageOnce'
    BY <1>1, <1>2, <1>7 DEF OncePerWindow, StageOnce, Same
<1> QED BY <1>6, <1>8, <1>9, <1>10, <1>11 DEF NoticesIInv, NoticesInv

\* Requests.
LEMMA EventKeeps ==
    ASSUME NoticesIInv, NEW b \in Case, NEW ds \in EventNotices(b),
           BlockerEvent(b, ds) \/ BlockerEventFails(b, ds)
    PROVE  NoticesIInv'
<1>1. NoticesTypeOK /\ OncePerWindow /\ StageOnce /\ active \subseteq User
    BY DEF NoticesIInv, NoticesInv, NoticesTypeOK
<1>2. /\ \E new \in SUBSET {d \in ds : ~ DedupExists(d)} : Write(new)
      /\ UNCHANGED <<now, active, plan, sentDay, job>>
    BY DEF BlockerEvent, BlockerEventFails
<1>3. PICK new \in SUBSET {d \in ds : ~ DedupExists(d)} : Write(new) BY <1>2
<1>4. new \in SUBSET EventDraft /\ \A d \in new : ~ DedupExists(d)
    BY <1>1, <1>3, EventKinds
<1>5. OncePerWindow' BY <1>1, <1>3, <1>4, EventPosted
<1>6. new \in SUBSET Draft /\ \A d \in new : d.key \notin StageKeys
    BY <1>4, Kinds DEF EventDraft
<1>7. StageOnce' BY <1>1, <1>3, <1>6, PlainPosted
<1> QED BY <1>2, <1>3, <1>5, <1>6, <1>7, Around

LEMMA DirectKeeps ==
    ASSUME NoticesIInv, NEW b \in Case, NEW ds \in DirectNotices(b), DirectNotice(b, ds)
    PROVE  NoticesIInv'
<1>1. NoticesTypeOK /\ OncePerWindow /\ StageOnce /\ active \subseteq User
    BY DEF NoticesIInv, NoticesInv, NoticesTypeOK
<1>2. Write(ds) /\ UNCHANGED <<now, active, plan, sentDay, job>> BY DEF DirectNotice
<1>3. ds \subseteq PlainDraft BY <1>1, DirectKinds
<1>4. ds \in SUBSET Draft /\ \A d \in ds : d.key \notin StageKeys /\ d.key \notin EventKeys
    BY <1>3 DEF PlainDraft
<1>5. OncePerWindow' /\ StageOnce' BY <1>1, <1>2, <1>4, PlainPosted
<1> QED BY <1>2, <1>4, <1>5, Around

\* Accounts, plans and the clock.
LEMMA OutsideKeeps ==
    ASSUME NoticesIInv,
           \/ \E u \in User : Deactivate(u)
           \/ \E p \in Plan : EditPlan(p)
           \/ Tick
    PROVE  NoticesIInv'
<1>1. NoticesTypeOK /\ OncePerWindow /\ StageOnce BY DEF NoticesIInv, NoticesInv
<1>2. notices' = notices /\ UNCHANGED <<sentDay, job>>
    BY DEF Deactivate, EditPlan, Tick
<1>3. Rows' = Rows BY <1>2 DEF Rows
<1>4. OncePerWindow' /\ StageOnce' BY <1>1, <1>2, <1>3 DEF OncePerWindow, StageOnce, Same
<1>5. {} \in SUBSET Draft /\ \A d \in {} : d.key \notin StageKeys OBVIOUS
<1>6. ASSUME NEW u \in User, Deactivate(u) PROVE NoticesIInv'
    <2>1. UNCHANGED <<now, notices>> /\ active' \in SUBSET active /\ plan' = plan
        BY <1>6 DEF Deactivate
    <2> QED BY <1>2, <1>4, <1>5, <2>1, Around
<1>7. ASSUME NEW p \in Plan, EditPlan(p) PROVE NoticesIInv'
    <2>1. plan \in [Plan -> PlanRow] /\ Technicians \subseteq User
        BY <1>1, Recipients DEF NoticesTypeOK
    <2>2. plan' \in [Plan -> PlanRow]
        <3>1. CASE \E u \in Technicians : plan' = [plan EXCEPT ![p].technician = u]
            BY <2>1, <3>1 DEF PlanRow
        <3>2. CASE plan' = [plan EXCEPT ![p].active = ~ @]
            <4>1. plan[p].active \in BOOLEAN BY <2>1 DEF PlanRow
            <4> QED BY <2>1, <3>2, <4>1 DEF PlanRow
        <3>3. CASE \E d \in {t \in DueTimes : t > plan[p].due} : plan' = [plan EXCEPT ![p].due = d]
            BY <2>1, <3>3 DEF PlanRow
        <3> QED BY <1>7, <3>1, <3>2, <3>3 DEF EditPlan
    <2>3. UNCHANGED <<now, notices, active>> BY <1>7 DEF EditPlan
    <2> QED BY <1>2, <1>4, <1>5, <2>2, <2>3, Around
<1>8. CASE Tick
    <2>1. now' = now + 1 /\ now' \in 0..MaxNow /\ UNCHANGED <<active, plan, notices>>
        <3>1. now \in Nat BY <1>1, RowsAt
        <3>2. MaxNow \in Nat BY NoticesAssumption
        <3> QED BY <1>8, <3>1, <3>2 DEF Tick
    <2> QED BY <1>2, <1>4, <1>5, <2>1, Around
<1> QED BY <1>6, <1>7, <1>8
\* The steps at which a job begins, goes on to its next loop, ends or dies.
LEMMA LoopKeeps ==
    ASSUME NoticesIInv, NEW w \in Process,
           \/ StartSync(w) \/ StartOverdue(w) \/ StartMorning(w) \/ StagesDone(w)
           \/ OverdueDone(w) \/ UnassignedDone(w) \/ Crash(w)
    PROVE  NoticesIInv'
<1> DEFINE Sound(j) == SoundJob(j, Rows, now, Managers, ManagersByRole)
<1>1. /\ NoticesTypeOK /\ now \in Nat /\ plan \in [Plan -> PlanRow]
    BY RowsAt DEF NoticesIInv, NoticesInv, NoticesTypeOK
<1>2. UNCHANGED <<now, active, plan, notices, sentDay>>
    BY DEF StartSync, StartOverdue, StartMorning, StagesDone, OverdueDone, UnassignedDone, Crash
<1>3. Resting \in Job /\ Sound(Resting) /\ Resting.step = "none"
    BY <1>1, RestingTyped
<1>4. /\ Begin("overdue", OverduePlans) \in Job /\ Sound(Begin("overdue", OverduePlans))
      /\ Begin("overdue", OverduePlans).step = "overdue"
    <2>1. OverduePlans \subseteq Plan \cup User /\ "overdue" \in Step
        BY DEF OverduePlans, ActivePlans, Step
    <2> QED BY <1>1, <2>1, BegunJob
<1>5. CASE StartSync(w)
    <2>1. ActivePlans \subseteq Plan \cup User /\ "stages" \in Step BY DEF ActivePlans, Step
    <2>2. /\ Begin("stages", ActivePlans) \in Job /\ Sound(Begin("stages", ActivePlans))
        BY <1>1, <2>1, BegunJob
    <2>3. job' = [job EXCEPT ![w] = Begin("stages", ActivePlans)] /\ ~ Running({"stages"})
        BY <1>5 DEF StartSync, Becomes
    <2> HIDE DEF Sound
    <2>4. PICK j \in Job : j = Begin("stages", ActivePlans) BY <2>2
    <2> QED BY <1>2, <2>2, <2>3, <2>4, JobMoves DEF Sound
<1>6. CASE StartOverdue(w) \/ StagesDone(w)
    <2>1. job' = [job EXCEPT ![w] = Begin("overdue", OverduePlans)]
        BY <1>6 DEF StartOverdue, StagesDone, Becomes
    <2>2. PICK j \in Job : j = Begin("overdue", OverduePlans) BY <1>4
    <2>3. j.step # "stages" BY <1>4, <2>2
    <2> QED BY <1>2, <1>4, <2>1, <2>2, <2>3, JobMoves
<1>7. CASE StartMorning(w)
    <2>1. WithWork(Today) \subseteq User
        BY <1>1 DEF WithWork, People, DueOn, PlanRow
    <2>2. WithWork(Today) \subseteq Plan \cup User /\ "technicians" \in Step BY <2>1 DEF Step
    <2>3. /\ Begin("technicians", WithWork(Today)) \in Job
          /\ Sound(Begin("technicians", WithWork(Today)))
          /\ Begin("technicians", WithWork(Today)).step = "technicians"
        BY <1>1, <2>2, BegunJob
    <2>4. job' = [job EXCEPT ![w] = Begin("technicians", WithWork(Today))]
        BY <1>7 DEF StartMorning, Becomes
    <2>5. PICK j \in Job : j = Begin("technicians", WithWork(Today)) BY <2>3
    <2>6. j.step # "stages" BY <2>3, <2>5
    <2> QED BY <1>2, <2>3, <2>4, <2>5, <2>6, JobMoves
<1>8. CASE OverdueDone(w) \/ UnassignedDone(w) \/ Crash(w)
    <2>1. job' = [job EXCEPT ![w] = Resting] BY <1>8 DEF OverdueDone, UnassignedDone, Crash, Becomes
    <2>2. PICK j \in Job : j = Resting BY <1>3
    <2>3. j.step # "stages" BY <1>3, <2>2
    <2> QED BY <1>2, <1>3, <2>1, <2>2, <2>3, JobMoves
<1> QED BY <1>5, <1>6, <1>7, <1>8

\* The steps at which a job looks at its next plan, technician or at the
\* managers.
LEMMA TakeKeeps ==
    ASSUME NoticesIInv, NEW w \in Process,
           \/ \E p \in Plan : TakePlan(w, p)
           \/ \E u \in User : TakeTechnician(w, u)
           \/ TechniciansDone(w)
    PROVE  NoticesIInv'
<1>1. NoticesTypeOK /\ SoundJobs BY DEF NoticesIInv, NoticesInv
<1>2. UNCHANGED <<now, active, plan, notices, sentDay>>
    BY DEF TakePlan, TakeTechnician, TechniciansDone
<1>3. \E j \in Job : /\ job' = [job EXCEPT ![w] = j]
                     /\ j.step = job[w].step \/ j.step = "managers"
                     /\ SoundJob(j, Rows, now, Managers, ManagersByRole)
    <2>1. CASE \E p \in Plan : TakePlan(w, p) BY <1>1, <2>1, TakenPlan
    <2>2. CASE \E u \in User : TakeTechnician(w, u) BY <1>1, <2>2, TakenTechnician
    <2>3. CASE TechniciansDone(w) BY <1>1, <2>3, ManagersDue
    <2> QED BY <2>1, <2>2, <2>3
<1>4. PICK j \in Job : /\ job' = [job EXCEPT ![w] = j]
                       /\ j.step = job[w].step \/ j.step = "managers"
                       /\ SoundJob(j, Rows, now, Managers, ManagersByRole)
    BY <1>3
<1>5. j.step = "stages" => job[w].step = "stages" BY <1>4
<1> QED BY <1>2, <1>4, <1>5, JobMoves

LEMMA NoticesStepKeeps ==
    ASSUME NoticesIInv, [NoticesNext]_nvars
    PROVE  NoticesIInv'
<1>1. CASE UNCHANGED nvars
    BY <1>1 DEF nvars, NoticesIInv, NoticesInv, NoticesTypeOK, OncePerWindow, StageOnce, Same,
       SoundJobs, OneSync, SummariesSent, Rows, Today, Managers, ManagersByRole,
       WithSuperusers, ActiveIn
<1>2. CASE NoticesNext
    BY <1>2, EventKeeps, DirectKeeps, OutsideKeeps, LoopKeeps, TakeKeeps, SendKeeps,
       ManagersDoneKeeps DEF NoticesNext
<1> QED BY <1>1, <1>2

LEMMA NoticesInvariance == NoticesSpec => []NoticesIInv
<1>1. NoticesInit => NoticesIInv
    <2> SUFFICES ASSUME NoticesInit PROVE NoticesIInv OBVIOUS
    <2>1. now = 0 /\ active = User /\ sentDay = -1 BY DEF NoticesInit
    <2>2. plan \in [Plan -> PlanRow] BY DEF NoticesInit, PlanRow
    <2>3. Rows = {} /\ IsABag(notices)
        <3>1. notices = [e \in {} |-> 1] BY DEF NoticesInit, EmptyBag, SetToBag
        <3> QED BY <3>1 DEF Rows, BagToSet, IsABag
    <2>4. /\ job \in [Process -> Job]
          /\ \A w \in Process : job[w].step = "none"
          /\ SoundJobs
        <3>1. job = [w \in Process |-> Resting] BY DEF NoticesInit
        <3>2. /\ Resting \in Job /\ Resting.step = "none"
              /\ SoundJob(Resting, Rows, now, Managers, ManagersByRole)
            BY <2>1, <2>2, RestingTyped
        <3> QED BY <3>1, <3>2 DEF SoundJobs
    <2>5. Today = 0 BY <2>1, DayBounds DEF Today
    <2>6. NoticesTypeOK
        <3>1. now \in 0..MaxNow BY <2>1, NoticesAssumption
        <3> QED BY <2>1, <2>2, <2>3, <2>4, <3>1 DEF NoticesTypeOK
    <2>7. OncePerWindow /\ StageOnce BY <2>3 DEF OncePerWindow, StageOnce
    <2>8. OneSync BY <2>4 DEF OneSync
    <2>9. sentDay <= Today /\ SummariesSent BY <2>1, <2>5 DEF SummariesSent
    <2> QED BY <2>4, <2>6, <2>7, <2>8, <2>9 DEF NoticesIInv, NoticesInv
<1> QED BY <1>1, NoticesStepKeeps, PTL DEF NoticesSpec

\* Nobody is told the same thing twice: a blocker event once within the window,
\* a stage of a due date once at all, over failures, crashes and reruns.
THEOREM NobodyToldTwice == NoticesSpec => []NoticesInv
<1>1. NoticesIInv => NoticesInv BY DEF NoticesIInv
<1> QED BY <1>1, NoticesInvariance, PTL

\* The morning counts as sent only when every manager has the summary of the
\* day.
THEOREM MorningsAreComplete == NoticesSpec => []SummariesSent
<1>1. NoticesIInv => SummariesSent BY DEF NoticesIInv
<1> QED BY <1>1, NoticesInvariance, PTL

\* A handler of a blocker event that ran to its end leaves nobody untold.
THEOREM EventsAreHeard == NoticesSpec => EveryoneHears
<1> DEFINE Heard == \A b \in Case : \A ds \in EventNotices(b) :
                      BlockerEvent(b, ds) =>
                        \A d \in ds : \E n \in BagToSet(notices') :
                                        Same(n, d) /\ n.at >= now - Window
<1>1. NoticesIInv /\ [NoticesNext]_nvars => [Heard]_nvars
    <2> SUFFICES ASSUME NoticesIInv, NEW b \in Case, NEW ds \in EventNotices(b),
                        BlockerEvent(b, ds), NEW d \in ds
                 PROVE  \E n \in BagToSet(notices') : Same(n, d) /\ n.at >= now - Window
        OBVIOUS
    <2> DEFINE new == {e \in ds : ~ DedupExists(e)}
    <2>1. Write(new) BY DEF BlockerEvent
    <2>2. now \in Nat /\ Window \in Nat /\ IsABag(notices)
        BY RowsAt DEF NoticesIInv, NoticesInv
    <2>3. BagToSet(notices') = Rows \cup {Row(e) : e \in new} BY <2>1, <2>2, Posted DEF Rows
    <2>4. CASE DedupExists(d) BY <2>3, <2>4 DEF DedupExists
    <2>5. CASE ~ DedupExists(d)
        <3>1. Row(d) \in BagToSet(notices') BY <2>3, <2>5
        <3>2. Same(Row(d), d) /\ Row(d).at = now BY RowOf DEF Same
        <3> QED BY <2>2, <3>1, <3>2
    <2> QED BY <2>4, <2>5
<1> QED BY <1>1, NoticesInvariance, PTL DEF NoticesSpec, EveryoneHears

\* An overdue loop that ran to its end leaves no plan it found unannounced.
THEOREM OverduePlansAreTold == NoticesSpec => OverdueTold
<1> DEFINE Told == \A w \in Process :
                     OverdueDone(w) /\ Managers # {} =>
                       \A p \in Plan :
                         job[w].read[p].active /\ job[w].read[p].due < job[w].at =>
                           \E n \in Rows : /\ n.key = "pm_overdue"
                                          /\ n.ref = p
                                          /\ n.at >= job[w].at - 2 * Hours
<1>1. NoticesIInv /\ [NoticesNext]_nvars => [Told]_nvars
    <2> SUFFICES ASSUME NoticesIInv, NEW w \in Process, OverdueDone(w), Managers # {},
                        NEW p \in Plan, job[w].read[p].active, job[w].read[p].due < job[w].at
                 PROVE  Announced(p, job[w].at, Rows)
        BY DEF Announced
    <2>1. job[w].step = "overdue" /\ job[w].todo = {} /\ job[w].send = {}
        BY DEF OverdueDone, LoopDone
    <2>2. SoundOverdue(job[w], Rows, Managers) BY DEF NoticesIInv, SoundJobs, SoundJob
    <2> QED BY <2>1, <2>2 DEF SoundOverdue
<1> QED BY <1>1, NoticesInvariance, PTL DEF NoticesSpec, OverdueTold
===============================================================================

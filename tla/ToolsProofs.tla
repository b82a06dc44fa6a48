------------------------------ MODULE ToolsProofs -----------------------------
(***************************************************************************)
(* Proofs about Tools, for any number of users, units and rows.            *)
(***************************************************************************)
EXTENDS Tools, FiniteSetTheorems, SequenceTheorems, TLAPS

-------------------------------------------------------------------------------
(***************************************************************************)
(* Tables.                                                                 *)
(***************************************************************************)
\* Writing one row of a table.
LEMMA WriteRow ==
    ASSUME NEW T, NEW s \in Seq(T), NEW i \in DOMAIN s, NEW e \in T
    PROVE  /\ [s EXCEPT ![i] = e] \in Seq(T)
           /\ DOMAIN [s EXCEPT ![i] = e] = DOMAIN s
           /\ [s EXCEPT ![i] = e][i] = e
           /\ \A j \in DOMAIN s : j # i => [s EXCEPT ![i] = e][j] = s[j]
<1>1. i \in 1..Len(s) BY LenProperties
<1> QED BY <1>1, ExceptSeq

\* Adding one row.
LEMMA NewRow ==
    ASSUME NEW T, NEW s \in Seq(T), NEW e \in T
    PROVE  /\ Append(s, e) \in Seq(T)
           /\ DOMAIN Append(s, e) = DOMAIN s \cup {Len(s) + 1}
           /\ Len(s) + 1 \notin DOMAIN s
           /\ Append(s, e)[Len(s) + 1] = e
           /\ \A j \in DOMAIN s : Append(s, e)[j] = s[j]
<1>1. DOMAIN s = 1..Len(s) /\ Len(s) \in Nat BY LenProperties
<1> QED BY <1>1, AppendProperties

\* Adding rows of the same kind.
LEMMA NewRows ==
    ASSUME NEW T, NEW s \in Seq(T), NEW e \in T, NEW q \in Nat
    PROVE  LET more == s \o [k \in 1..q |-> e]
           IN  /\ more \in Seq(T)
               /\ DOMAIN more = 1..(Len(s) + q)
               /\ DOMAIN s \subseteq DOMAIN more
               /\ \A j \in DOMAIN s : more[j] = s[j]
               /\ \A j \in DOMAIN more \ DOMAIN s : more[j] = e
<1> DEFINE new == [k \in 1..q |-> e]
           more == s \o new
<1>1. new \in Seq(T) /\ Len(new) = q
    BY SMT
<1>2. DOMAIN s = 1..Len(s) /\ Len(s) \in Nat BY LenProperties
<1>3. /\ more \in Seq(T)
      /\ Len(more) = Len(s) + q
      /\ \A i \in 1..Len(more) : more[i] = IF i <= Len(s) THEN s[i] ELSE new[i - Len(s)]
    BY <1>1, ConcatProperties
<1>4. DOMAIN more = 1..(Len(s) + q) BY <1>3, LenProperties
<1>5. \A i \in DOMAIN more \ DOMAIN s : i - Len(s) \in 1..q
    BY <1>2, <1>4
<1> QED BY <1>2, <1>3, <1>4, <1>5

-------------------------------------------------------------------------------
(***************************************************************************)
(* Steps.                                                                  *)
(***************************************************************************)
\* What the invariant says of single rows.
LEMMA Rows ==
    ASSUME ToolsInv
    PROVE  /\ \A t \in DOMAIN tool : tool[t] \in ToolRow
           /\ \A a \in DOMAIN asg : asg[a] \in AssignmentRow /\ asg[a].tool \in DOMAIN tool
           /\ \A r \in DOMAIN rep : rep[r] \in ReportRow /\ rep[r].tool \in DOMAIN tool
           /\ \A u \in User : page[u] \in Page
BY LenProperties DEF ToolsInv, ToolsTypeOK

\* A page that is opened or closed changes nothing else.
LEMMA PageStep ==
    ASSUME ToolsInv, NEW u \in User, NEW v \in Page,
           page' = [page EXCEPT ![u] = v],
           v.view = "assign" => v.id \in DOMAIN tool,
           v.view = "return" => v.id \in DOMAIN asg,
           v.view = "resolve" => v.id \in DOMAIN rep,
           UNCHANGED <<stock, tool, asg, rep>>
    PROVE  ToolsInv'
<1>1. ToolsTypeOK'
    BY DEF ToolsInv, ToolsTypeOK
<1>2. HeldIffInUse' /\ BrokenIffReported'
    BY DEF ToolsInv, HeldIffInUse, BrokenIffReported, Open, OpenReports
<1> QED BY <1>1, <1>2 DEF ToolsInv

\* A service that refuses leaves the rows alone.
LEMMA RefusedStep ==
    ASSUME ToolsInv, NEW u \in User, page' = [page EXCEPT ![u] = NoPage], Refused
    PROVE  ToolsInv'
<1>1. NoPage \in Page /\ NoPage.view = "none" BY DEF Page, NoPage
<1> HIDE DEF NoPage
<1> QED BY <1>1, PageStep DEF Refused

\* The tables grow and keep their keys, so pages stay valid.
LEMMA PagesKept ==
    ASSUME ToolsInv, NEW u \in User,
           page' = [page EXCEPT ![u] = NoPage] \/ page' = page,
           DOMAIN tool \subseteq DOMAIN tool', DOMAIN asg \subseteq DOMAIN asg',
           DOMAIN rep \subseteq DOMAIN rep'
    PROVE  /\ page' \in [User -> Page]
           /\ \A w \in User :
                /\ page'[w].view = "assign" => page'[w].id \in DOMAIN tool'
                /\ page'[w].view = "return" => page'[w].id \in DOMAIN asg'
                /\ page'[w].view = "resolve" => page'[w].id \in DOMAIN rep'
<1>1. NoPage \in Page /\ NoPage.view = "none" BY DEF Page, NoPage
<1> HIDE DEF NoPage
<1>2. page' \in [User -> Page] BY <1>1 DEF ToolsInv, ToolsTypeOK
<1> SUFFICES ASSUME NEW w \in User
             PROVE  /\ page'[w].view = "assign" => page'[w].id \in DOMAIN tool'
                    /\ page'[w].view = "return" => page'[w].id \in DOMAIN asg'
                    /\ page'[w].view = "resolve" => page'[w].id \in DOMAIN rep'
    BY <1>2
<1>3. page'[w] = NoPage \/ page'[w] = page[w] BY <1>1 DEF ToolsInv, ToolsTypeOK
<1> QED BY <1>1, <1>3 DEF ToolsInv, ToolsTypeOK

\* issue_to_tool_pool: the new tools are available and nothing refers to them.
LEMMA IssueStep ==
    ASSUME ToolsInv, NEW u \in User, NEW q \in IssueQuantity, IssueToPool(q)
    PROVE  ToolsInv'
<1> DEFINE new == [status |-> "available", active |-> TRUE]
<1>1. q \in Nat /\ stock' \in Nat
    BY ToolsAssumption DEF IssueQuantity, IssueToPool, ToolsInv, ToolsTypeOK
<1>2. new \in ToolRow BY DEF ToolRow
<1>3. tool \in Seq(ToolRow) BY DEF ToolsInv, ToolsTypeOK
<1>4. tool' = tool \o [k \in 1..q |-> new] /\ UNCHANGED <<asg, rep, page>>
    BY DEF IssueToPool
<1> HIDE DEF new
<1>5. /\ tool' \in Seq(ToolRow)
      /\ DOMAIN tool \subseteq DOMAIN tool'
      /\ \A t \in DOMAIN tool : tool'[t] = tool[t]
      /\ \A t \in DOMAIN tool' \ DOMAIN tool : tool'[t] = new
    BY <1>1, <1>2, <1>3, <1>4, NewRows
<1>6. new.status = "available" /\ new.active BY DEF new
<1>7. ToolsTypeOK'
    <2>1. page' \in [User -> Page] /\ \A w \in User :
             /\ page'[w].view = "assign" => page'[w].id \in DOMAIN tool'
             /\ page'[w].view = "return" => page'[w].id \in DOMAIN asg'
             /\ page'[w].view = "resolve" => page'[w].id \in DOMAIN rep'
        BY <1>4, <1>5, PagesKept
    <2> QED BY <1>1, <1>4, <1>5, <2>1 DEF ToolsInv, ToolsTypeOK
<1>8. HeldIffInUse'
    <2>1. Open' = Open /\ Open \subseteq DOMAIN asg BY <1>4 DEF Open
    <2>2. \A a \in Open : asg[a].tool \in DOMAIN tool BY <2>1, Rows
    <2>3. ASSUME NEW t \in DOMAIN tool'
          PROVE  tool'[t].status = "in_use" <=> \E a \in Open : asg[a].tool = t
        <3>1. CASE t \in DOMAIN tool BY <1>5, <3>1 DEF ToolsInv, HeldIffInUse
        <3>2. CASE t \notin DOMAIN tool BY <1>5, <1>6, <2>2, <3>2
        <3> QED BY <3>1, <3>2
    <2>4. asg' = asg BY <1>4
    <2> QED BY <2>1, <2>3, <2>4 DEF ToolsInv, HeldIffInUse
<1>9. BrokenIffReported'
    <2>1. OpenReports' = OpenReports /\ OpenReports \subseteq DOMAIN rep
        BY <1>4 DEF OpenReports
    <2>2. \A r \in OpenReports : rep[r].tool \in DOMAIN tool BY <2>1, Rows
    <2>3. ASSUME NEW t \in DOMAIN tool'
          PROVE  /\ tool'[t].status = "out_of_service"
                      <=> ~ tool'[t].active \/ \E r \in OpenReports : rep[r].tool = t
                 /\ ~ tool'[t].active => ~ \E r \in OpenReports : rep[r].tool = t
        <3>1. CASE t \in DOMAIN tool BY <1>5, <3>1 DEF ToolsInv, BrokenIffReported
        <3>2. CASE t \notin DOMAIN tool BY <1>5, <1>6, <2>2, <3>2
        <3> QED BY <3>1, <3>2
    <2>4. rep' = rep BY <1>4
    <2> QED BY <2>1, <2>3, <2>4 DEF ToolsInv, BrokenIffReported
<1> QED BY <1>7, <1>8, <1>9 DEF ToolsInv

\* ToolAssignmentService.assign
LEMMA AssignStep ==
    ASSUME ToolsInv, NEW u \in User, NEW o \in User, Assign(u, o)
    PROVE  ToolsInv'
<1> DEFINE t == page[u].id
           a == Len(asg) + 1
           row == [tool |-> t, operator |-> o, open |-> TRUE]
           held == [tool[t] EXCEPT !.status = "in_use"]
<1>1. t \in DOMAIN tool /\ t \in Nat
    BY DEF ToolsInv, ToolsTypeOK, Page, Assign, Submits
<1>2. CASE ~ CanAssign(t)
    BY <1>2, RefusedStep DEF Assign, Submits
<1>3. CASE CanAssign(t)
    <2>1. /\ asg' = Append(asg, row)
          /\ tool' = [tool EXCEPT ![t] = held]
          /\ UNCHANGED <<stock, rep>>
          /\ page' = [page EXCEPT ![u] = NoPage]
        BY <1>3 DEF Assign, Submits
    <2>2. /\ row \in AssignmentRow /\ row.tool = t /\ row.open
          /\ held \in ToolRow /\ held.status = "in_use" /\ held.active = tool[t].active
        BY <1>1, Rows DEF AssignmentRow, ToolRow
    <2> HIDE DEF row, held
    <2>3. /\ asg' \in Seq(AssignmentRow) /\ DOMAIN asg' = DOMAIN asg \cup {a}
          /\ a \notin DOMAIN asg /\ asg'[a] = row
          /\ \A b \in DOMAIN asg : asg'[b] = asg[b]
        BY <2>1, <2>2, NewRow DEF ToolsInv, ToolsTypeOK
    <2> HIDE DEF a, t
    <2>4. /\ tool' \in Seq(ToolRow) /\ DOMAIN tool' = DOMAIN tool
          /\ tool'[t].status = "in_use" /\ tool'[t].active = tool[t].active
          /\ \A k \in DOMAIN tool : k # t => tool'[k] = tool[k]
        BY <1>1, <2>1, <2>2, WriteRow DEF ToolsInv, ToolsTypeOK
    <2>5. ToolsTypeOK'
        <3>1. page' \in [User -> Page] /\ \A w \in User :
                 /\ page'[w].view = "assign" => page'[w].id \in DOMAIN tool'
                 /\ page'[w].view = "return" => page'[w].id \in DOMAIN asg'
                 /\ page'[w].view = "resolve" => page'[w].id \in DOMAIN rep'
            BY <2>1, <2>3, <2>4, PagesKept
        <3> QED BY <1>1, <2>1, <2>2, <2>3, <2>4, <3>1 DEF ToolsInv, ToolsTypeOK
    <2>6. HeldIffInUse'
        <3>1. Open' = Open \cup {a} /\ Open \subseteq DOMAIN asg
            BY <2>2, <2>3 DEF Open
        <3> QED BY <1>1, <1>3, <2>2, <2>3, <2>4, <3>1 DEF ToolsInv, HeldIffInUse, CanAssign
    <2>7. BrokenIffReported'
        <3>1. OpenReports' = OpenReports /\ rep' = rep BY <2>1 DEF OpenReports
        <3>2. ASSUME NEW k \in DOMAIN tool
              PROVE  /\ tool'[k].status = "out_of_service"
                          <=> ~ tool'[k].active \/ \E r \in OpenReports : rep[r].tool = k
                     /\ ~ tool'[k].active => ~ \E r \in OpenReports : rep[r].tool = k
            <4>1. CASE k # t BY <2>4, <4>1 DEF ToolsInv, BrokenIffReported
            <4>2. CASE k = t
                <5>1. tool[t].active /\ tool[t].status # "out_of_service"
                    BY <1>3 DEF CanAssign
                <5>2. ~ \E r \in OpenReports : rep[r].tool = t
                    BY <1>1, <5>1 DEF ToolsInv, BrokenIffReported
                <5> QED BY <2>4, <4>2, <5>1, <5>2
            <4> QED BY <4>1, <4>2
        <3> QED BY <2>4, <3>1, <3>2 DEF ToolsInv, BrokenIffReported
    <2> QED BY <2>5, <2>6, <2>7 DEF ToolsInv
<1> QED BY <1>2, <1>3

\* An open assignment has its tool in use, active and without an open report.
LEMMA HeldTool ==
    ASSUME ToolsInv, NEW a \in Open
    PROVE  /\ tool[asg[a].tool].status = "in_use"
           /\ tool[asg[a].tool].active
           /\ ~ \E r \in OpenReports : rep[r].tool = asg[a].tool
<1>1. asg[a].tool \in DOMAIN tool BY Rows DEF Open
<1>2. tool[asg[a].tool].status = "in_use" BY <1>1 DEF ToolsInv, HeldIffInUse
<1> QED BY <1>1, <1>2 DEF ToolsInv, BrokenIffReported

\* ToolAssignmentService.return_tool
LEMMA ReturnStep ==
    ASSUME ToolsInv, NEW u \in User, NEW damaged \in BOOLEAN, Return(u, damaged)
    PROVE  ToolsInv'
<1> DEFINE a == page[u].id
           t == asg[a].tool
           closed == [asg[a] EXCEPT !.open = FALSE]
           status == IF damaged THEN "out_of_service" ELSE "available"
           back == [tool[t] EXCEPT !.status = status]
           row == [tool |-> t, status |-> "open"]
           n == Len(rep) + 1
<1>1. a \in DOMAIN asg /\ page' = [page EXCEPT ![u] = NoPage]
    BY DEF ToolsInv, ToolsTypeOK, Page, Return, Submits
<1>2. CASE ~ asg[a].open
    BY <1>1, <1>2, RefusedStep DEF Return
<1>3. CASE asg[a].open
    <2>1. a \in Open BY <1>1, <1>3 DEF Open
    <2>2. t \in DOMAIN tool /\ tool[t] \in ToolRow /\ t \in Nat
        BY <1>1, Rows DEF AssignmentRow
    <2>3. /\ tool[t].status = "in_use" /\ tool[t].active
          /\ ~ \E r \in OpenReports : rep[r].tool = t
        BY <2>1, HeldTool
    <2>4. /\ asg' = [asg EXCEPT ![a] = closed]
          /\ tool' = [tool EXCEPT ![t] = back]
          /\ rep' = IF damaged THEN Append(rep, row) ELSE rep
          /\ stock' = stock
        BY <1>3 DEF Return
    <2>5. /\ closed \in AssignmentRow /\ closed.tool = t /\ ~ closed.open
          /\ back \in ToolRow /\ back.status = status /\ back.active = tool[t].active
          /\ row \in ReportRow /\ row.tool = t /\ row.status = "open"
        <3>1. closed \in AssignmentRow /\ closed.tool = t /\ ~ closed.open
            BY <1>1, Rows DEF AssignmentRow
        <3>2. back \in ToolRow /\ back.status = status /\ back.active = tool[t].active
            BY <2>2 DEF ToolRow
        <3>3. row \in ReportRow /\ row.tool = t /\ row.status = "open"
            BY <2>2 DEF ReportRow
        <3> QED BY <3>1, <3>2, <3>3
    <2> HIDE DEF closed, back, row
    <2>6. /\ asg' \in Seq(AssignmentRow) /\ DOMAIN asg' = DOMAIN asg /\ asg'[a] = closed
          /\ \A b \in DOMAIN asg : b # a => asg'[b] = asg[b]
        BY <1>1, <2>4, <2>5, WriteRow DEF ToolsInv, ToolsTypeOK
    <2> HIDE DEF t
    <2>7. /\ tool' \in Seq(ToolRow) /\ DOMAIN tool' = DOMAIN tool /\ tool'[t] = back
          /\ \A k \in DOMAIN tool : k # t => tool'[k] = tool[k]
        BY <2>2, <2>4, <2>5, WriteRow DEF ToolsInv, ToolsTypeOK
    <2> HIDE DEF a
    <2>8. /\ rep' \in Seq(ReportRow)
          /\ DOMAIN rep' = IF damaged THEN DOMAIN rep \cup {n} ELSE DOMAIN rep
          /\ damaged => n \notin DOMAIN rep /\ rep'[n] = row
          /\ \A r \in DOMAIN rep : rep'[r] = rep[r]
        <3>1. rep \in Seq(ReportRow) BY DEF ToolsInv, ToolsTypeOK
        <3>2. CASE damaged
            <4>1. rep' = Append(rep, row) BY <2>4, <3>2
            <4> QED BY <2>5, <3>1, <3>2, <4>1, NewRow
        <3>3. CASE ~ damaged BY <2>4, <3>1, <3>3
        <3> QED BY <3>2, <3>3
    <2> HIDE DEF n
    <2>9. ToolsTypeOK'
        <3>1. page' \in [User -> Page] /\ \A w \in User :
                 /\ page'[w].view = "assign" => page'[w].id \in DOMAIN tool'
                 /\ page'[w].view = "return" => page'[w].id \in DOMAIN asg'
                 /\ page'[w].view = "resolve" => page'[w].id \in DOMAIN rep'
            BY <1>1, <2>6, <2>7, <2>8, PagesKept
        <3>2. \A b \in DOMAIN asg' : asg'[b].tool \in DOMAIN tool'
            BY <1>1, <2>2, <2>5, <2>6, <2>7, Rows
        <3>3. \A r \in DOMAIN rep' : rep'[r].tool \in DOMAIN tool'
            BY <2>2, <2>5, <2>7, <2>8, Rows
        <3>4. stock' \in Nat BY <2>4 DEF ToolsInv, ToolsTypeOK
        <3> QED BY <2>6, <2>7, <2>8, <3>1, <3>2, <3>3, <3>4 DEF ToolsTypeOK
    <2>10. HeldIffInUse'
        <3>1. Open' = Open \ {a} /\ Open \subseteq DOMAIN asg
            BY <1>1, <2>5, <2>6 DEF Open
        <3>2. \A b \in Open' : asg'[b] = asg[b] BY <2>6, <3>1
        <3>3. \A b \in Open' : asg[b].tool # t
            BY <2>1, <3>1 DEF ToolsInv, HeldIffInUse, t
        <3>4. status # "in_use" OBVIOUS
        <3>5. ASSUME NEW k \in DOMAIN tool'
              PROVE  tool'[k].status = "in_use" <=> \E b \in Open' : asg'[b].tool = k
            <4>1. CASE k = t BY <2>5, <2>7, <3>2, <3>3, <3>4, <4>1
            <4>2. CASE k # t
                BY <2>7, <3>1, <3>2, <4>2 DEF ToolsInv, HeldIffInUse, t
            <4> QED BY <4>1, <4>2
        <3>6. \A b, c \in Open' : asg'[b].tool = asg'[c].tool => b = c
            BY <3>1, <3>2 DEF ToolsInv, HeldIffInUse
        <3> QED BY <3>5, <3>6 DEF HeldIffInUse
    <2>11. BrokenIffReported'
        <3>1. OpenReports' = IF damaged THEN OpenReports \cup {n} ELSE OpenReports
            BY <2>5, <2>8 DEF OpenReports
        <3>2. \A r \in OpenReports : r \in DOMAIN rep /\ rep'[r] = rep[r]
            BY <2>8 DEF OpenReports
        <3>3. ASSUME NEW k \in DOMAIN tool'
              PROVE  /\ tool'[k].status = "out_of_service"
                          <=> ~ tool'[k].active \/ \E r \in OpenReports' : rep'[r].tool = k
                     /\ ~ tool'[k].active => ~ \E r \in OpenReports' : rep'[r].tool = k
            <4>1. CASE k = t BY <2>3, <2>5, <2>7, <2>8, <3>1, <3>2, <4>1
            <4>2. CASE k # t
                <5>1. (\E r \in OpenReports' : rep'[r].tool = k)
                         <=> \E r \in OpenReports : rep[r].tool = k
                    BY <2>5, <2>8, <3>1, <3>2, <4>2
                <5> QED BY <2>7, <4>2, <5>1 DEF ToolsInv, BrokenIffReported
            <4> QED BY <4>1, <4>2
        <3>4. \A q, r \in OpenReports' : rep'[q].tool = rep'[r].tool => q = r
            BY <2>3, <2>5, <2>8, <3>1, <3>2 DEF ToolsInv, BrokenIffReported
        <3> QED BY <3>3, <3>4 DEF BrokenIffReported
    <2> QED BY <2>9, <2>10, <2>11 DEF ToolsInv
<1> QED BY <1>2, <1>3

\* An open report has its tool out of service, active and with nobody.
LEMMA BrokenTool ==
    ASSUME ToolsInv, NEW r \in OpenReports
    PROVE  /\ rep[r].tool \in DOMAIN tool
           /\ tool[rep[r].tool].status = "out_of_service"
           /\ tool[rep[r].tool].active
           /\ ~ \E a \in Open : asg[a].tool = rep[r].tool
<1>1. rep[r].tool \in DOMAIN tool BY Rows DEF OpenReports
<1>2. tool[rep[r].tool].status = "out_of_service" /\ tool[rep[r].tool].active
    BY <1>1 DEF ToolsInv, BrokenIffReported
<1> QED BY <1>1, <1>2 DEF ToolsInv, HeldIffInUse

\* Resolving an open report settles its tool, whichever way.
LEMMA ResolveStep ==
    ASSUME ToolsInv, NEW u \in User, NEW r \in OpenReports,
           NEW s \in {"repaired", "written_off"}, NEW x \in ToolRow,
           page' = [page EXCEPT ![u] = NoPage],
           rep' = [rep EXCEPT ![r].status = s],
           tool' = [tool EXCEPT ![rep[r].tool] = x],
           x.status # "in_use", x.status = "out_of_service" <=> ~ x.active,
           UNCHANGED <<stock, asg>>
    PROVE  ToolsInv'
<1> DEFINE t == rep[r].tool
           done == [rep[r] EXCEPT !.status = s]
<1>1. /\ t \in DOMAIN tool /\ tool[t].status = "out_of_service"
      /\ ~ \E a \in Open : asg[a].tool = t
    BY BrokenTool
<1>2. r \in DOMAIN rep BY DEF OpenReports
<1>3. done \in ReportRow /\ done.tool = t /\ done.status # "open"
    BY <1>2, Rows DEF ReportRow
<1>4. rep' = [rep EXCEPT ![r] = done] OBVIOUS
<1> HIDE DEF done
<1>5. /\ rep' \in Seq(ReportRow) /\ DOMAIN rep' = DOMAIN rep /\ rep'[r] = done
      /\ \A q \in DOMAIN rep : q # r => rep'[q] = rep[q]
    <2>1. rep \in Seq(ReportRow) /\ done \in ReportRow
        BY <1>3 DEF ToolsInv, ToolsTypeOK
    <2>2. /\ [rep EXCEPT ![r] = done] \in Seq(ReportRow)
          /\ DOMAIN [rep EXCEPT ![r] = done] = DOMAIN rep
          /\ [rep EXCEPT ![r] = done][r] = done
          /\ \A q \in DOMAIN rep : q # r => [rep EXCEPT ![r] = done][q] = rep[q]
        BY <1>2, <2>1, WriteRow, Zenon
    <2> QED BY <1>4, <2>2, Zenon
<1>6. tool' = [tool EXCEPT ![t] = x] OBVIOUS
<1> HIDE DEF t
<1>7. /\ tool' \in Seq(ToolRow) /\ DOMAIN tool' = DOMAIN tool /\ tool'[t] = x
      /\ \A k \in DOMAIN tool : k # t => tool'[k] = tool[k]
    <2>1. tool \in Seq(ToolRow) BY DEF ToolsInv, ToolsTypeOK
    <2>2. /\ [tool EXCEPT ![t] = x] \in Seq(ToolRow)
          /\ DOMAIN [tool EXCEPT ![t] = x] = DOMAIN tool
          /\ [tool EXCEPT ![t] = x][t] = x
          /\ \A k \in DOMAIN tool : k # t => [tool EXCEPT ![t] = x][k] = tool[k]
        BY <1>1, <2>1, WriteRow, Zenon
    <2> QED BY <1>6, <2>2, Zenon
<1>8. ToolsTypeOK'
    <2>1. page' \in [User -> Page] /\ \A w \in User :
             /\ page'[w].view = "assign" => page'[w].id \in DOMAIN tool'
             /\ page'[w].view = "return" => page'[w].id \in DOMAIN asg'
             /\ page'[w].view = "resolve" => page'[w].id \in DOMAIN rep'
        BY <1>5, <1>7, PagesKept
    <2>2. \A q \in DOMAIN rep' : rep'[q].tool \in DOMAIN tool'
        BY <1>1, <1>3, <1>5, <1>7, Rows
    <2> QED BY <1>5, <1>7, <2>1, <2>2 DEF ToolsInv, ToolsTypeOK
<1>9. HeldIffInUse'
    <2>1. Open' = Open /\ asg' = asg BY DEF Open
    <2>2. ASSUME NEW k \in DOMAIN tool'
          PROVE  tool'[k].status = "in_use" <=> \E a \in Open : asg[a].tool = k
        <3>1. CASE k = t BY <1>1, <1>7, <3>1
        <3>2. CASE k # t BY <1>7, <3>2 DEF ToolsInv, HeldIffInUse
        <3> QED BY <3>1, <3>2
    <2> QED BY <2>1, <2>2 DEF ToolsInv, HeldIffInUse
<1>10. BrokenIffReported'
    <2>1. OpenReports' = OpenReports \ {r} BY <1>2, <1>3, <1>5 DEF OpenReports
    <2>2. \A q \in OpenReports' : q \in OpenReports /\ rep'[q] = rep[q]
        BY <1>5, <2>1 DEF OpenReports
    <2>3. \A q \in OpenReports' : rep[q].tool # t
        BY <2>1 DEF ToolsInv, BrokenIffReported, t
    <2>4. ASSUME NEW k \in DOMAIN tool'
          PROVE  /\ tool'[k].status = "out_of_service"
                      <=> ~ tool'[k].active \/ \E q \in OpenReports' : rep'[q].tool = k
                 /\ ~ tool'[k].active => ~ \E q \in OpenReports' : rep'[q].tool = k
        <3>1. CASE k = t BY <1>7, <2>2, <2>3, <3>1
        <3>2. CASE k # t
            <4>1. (\E q \in OpenReports' : rep'[q].tool = k)
                     <=> \E q \in OpenReports : rep[q].tool = k
                BY <2>1, <2>2, <3>2 DEF t
            <4> QED BY <1>7, <3>2, <4>1 DEF ToolsInv, BrokenIffReported
        <3> QED BY <3>1, <3>2
    <2>5. \A q, p \in OpenReports' : rep'[q].tool = rep'[p].tool => q = p
        BY <2>2 DEF ToolsInv, BrokenIffReported
    <2> QED BY <2>4, <2>5 DEF BrokenIffReported
<1> QED BY <1>8, <1>9, <1>10 DEF ToolsInv

\* ToolDamageService.repair
LEMMA RepairStep ==
    ASSUME ToolsInv, NEW u \in User, Repair(u)
    PROVE  ToolsInv'
<1> DEFINE r == page[u].id
           x == [tool[rep[r].tool] EXCEPT !.status = "available"]
<1>1. r \in DOMAIN rep /\ page' = [page EXCEPT ![u] = NoPage]
    BY DEF ToolsInv, ToolsTypeOK, Page, Repair, Submits
<1>2. CASE rep[r].status # "open" BY <1>1, <1>2, RefusedStep DEF Repair
<1>3. CASE rep[r].status = "open"
    <2>1. r \in OpenReports BY <1>1, <1>3 DEF OpenReports
    <2>2. /\ rep[r].tool \in DOMAIN tool /\ tool[rep[r].tool].active
          /\ tool[rep[r].tool].status = "out_of_service"
        BY <2>1, BrokenTool
    <2>3. x \in ToolRow /\ x.status = "available" /\ x.active
        BY <2>2, Rows DEF ToolRow
    <2>4. /\ rep' = [rep EXCEPT ![r].status = "repaired"]
          /\ tool' = [tool EXCEPT ![rep[r].tool] = x]
          /\ UNCHANGED <<stock, asg>>
        BY <1>3, <2>2 DEF Repair
    <2> HIDE DEF r, x
    <2> QED BY <1>1, <2>1, <2>3, <2>4, ResolveStep
<1> QED BY <1>2, <1>3

\* ToolDamageService.write_off
LEMMA WriteOffStep ==
    ASSUME ToolsInv, NEW u \in User, WriteOff(u)
    PROVE  ToolsInv'
<1> DEFINE r == page[u].id
           x == [status |-> "out_of_service", active |-> FALSE]
<1>1. r \in DOMAIN rep /\ page' = [page EXCEPT ![u] = NoPage]
    BY DEF ToolsInv, ToolsTypeOK, Page, WriteOff, Submits
<1>2. CASE rep[r].status # "open" BY <1>1, <1>2, RefusedStep DEF WriteOff
<1>3. CASE rep[r].status = "open"
    <2>1. r \in OpenReports BY <1>1, <1>3 DEF OpenReports
    <2>2. x \in ToolRow /\ x.status = "out_of_service" /\ ~ x.active
        BY DEF ToolRow
    <2>3. /\ rep' = [rep EXCEPT ![r].status = "written_off"]
          /\ tool' = [tool EXCEPT ![rep[r].tool] = x]
          /\ UNCHANGED <<stock, asg>>
        BY <1>3 DEF WriteOff
    <2> HIDE DEF r, x
    <2> QED BY <1>1, <2>1, <2>2, <2>3, ResolveStep
<1> QED BY <1>2, <1>3

\* get_object_or_404: the page is about a row that exists.
LEMMA OpenStep ==
    ASSUME ToolsInv, NEW u \in User,
           \/ \E t \in DOMAIN tool : OpenAssign(u, t)
           \/ \E a \in DOMAIN asg : OpenReturn(u, a)
           \/ \E r \in DOMAIN rep : OpenResolve(u, r)
    PROVE  ToolsInv'
<1>1. DOMAIN tool \cup DOMAIN asg \cup DOMAIN rep \subseteq Nat
    BY LenProperties DEF ToolsInv, ToolsTypeOK
<1>2. PICK view \in {"assign", "return", "resolve"}, id \in Nat :
         /\ Reads(u, view, id)
         /\ view = "assign" => id \in DOMAIN tool
         /\ view = "return" => id \in DOMAIN asg
         /\ view = "resolve" => id \in DOMAIN rep
    BY <1>1 DEF OpenAssign, OpenReturn, OpenResolve
<1> DEFINE v == [view |-> view, id |-> id]
<1>3. v \in Page /\ v.view = view /\ v.id = id BY DEF Page
<1>4. page' = [page EXCEPT ![u] = v] /\ UNCHANGED <<stock, tool, asg, rep>>
    BY <1>2 DEF Reads
<1> HIDE DEF v
<1> QED BY <1>2, <1>3, <1>4, PageStep

-------------------------------------------------------------------------------
\* The tables keep their types, holders and reports in every reachable state.
THEOREM ToolsInvariance == ToolsSpec => []ToolsInv
<1>1. ToolsInit => ToolsInv
    <2> SUFFICES ASSUME ToolsInit PROVE ToolsInv OBVIOUS
    <2>1. NoPage \in Page /\ NoPage.view = "none" BY DEF Page, NoPage
    <2>2. tool = <<>> /\ asg = <<>> /\ rep = <<>> /\ stock \in Nat
        BY ToolsAssumption DEF ToolsInit
    <2>3. page \in [User -> Page] /\ \A u \in User : page[u].view = "none"
        BY <2>1 DEF ToolsInit
    <2> QED BY <2>2, <2>3
            DEF ToolsInv, ToolsTypeOK, HeldIffInUse, BrokenIffReported, Open, OpenReports
<1>2. ToolsInv /\ [ToolsNext]_tvars => ToolsInv'
    <2> SUFFICES ASSUME ToolsInv, [ToolsNext]_tvars PROVE ToolsInv' OBVIOUS
    <2>1. CASE UNCHANGED tvars
        BY <2>1 DEF ToolsInv, ToolsTypeOK, HeldIffInUse, BrokenIffReported, Open,
                    OpenReports, tvars
    <2>2. CASE ToolsNext
        <3>1. PICK u \in User :
                \/ ToolsIssue(u)
                \/ \/ \E t \in DOMAIN tool : OpenAssign(u, t)
                   \/ \E a \in DOMAIN asg : OpenReturn(u, a)
                   \/ \E r \in DOMAIN rep : OpenResolve(u, r)
                \/ \E o \in User : Assign(u, o)
                \/ \E damaged \in BOOLEAN : Return(u, damaged)
                \/ Repair(u)
                \/ WriteOff(u)
            BY <2>2 DEF ToolsNext
        <3> QED BY <3>1, IssueStep, OpenStep, AssignStep, ReturnStep, RepairStep,
                   WriteOffStep DEF ToolsIssue
    <2> QED BY <2>1, <2>2
<1> QED BY <1>1, <1>2, PTL DEF ToolsSpec

\* Rows keep their types and refer to rows that exist; the store is never
\* overdrawn, however many managers issue its last units.
THEOREM ToolsTyped == ToolsSpec => []ToolsTypeOK
BY ToolsInvariance, PTL DEF ToolsInv

\* A tool is IN_USE exactly while one assignment of it is open, for any number
\* of people with stale pages.
THEOREM HeldExactlyWhenInUse == ToolsSpec => []HeldIffInUse
BY ToolsInvariance, PTL DEF ToolsInv

\* A tool is OUT_OF_SERVICE exactly while one report of it is open or it was
\* written off.
THEOREM BrokenExactlyWhenReported == ToolsSpec => []BrokenIffReported
BY ToolsInvariance, PTL DEF ToolsInv

-------------------------------------------------------------------------------
(***************************************************************************)
(* The pool.                                                               *)
(***************************************************************************)
\* current_holder of a tool is the operator of the one open assignment of it.
LEMMA HolderOfOpen ==
    ASSUME ToolsInv, NEW a \in Open
    PROVE  Holder(asg[a].tool) = asg[a].operator
<1> DEFINE c == CHOOSE b \in Open : asg[b].tool = asg[a].tool
<1>1. c \in Open /\ asg[c].tool = asg[a].tool OBVIOUS
<1>2. c = a BY <1>1 DEF ToolsInv, HeldIffInUse
<1> QED BY <1>2 DEF Holder

\* Where a tool is, case by case.
LEMMA Places ==
    ASSUME ToolsInv, NEW t \in DOMAIN tool
    PROVE  /\ ~ tool[t].active => PlaceOf(t) = "gone"
           /\ tool[t].active /\ tool[t].status = "available" => PlaceOf(t) = "pool"
           /\ tool[t].active /\ tool[t].status = "out_of_service" => PlaceOf(t) = "broken"
           /\ \A a \in Open : asg[a].tool = t => PlaceOf(t) = asg[a].operator
<1>1. ASSUME NEW a \in Open, asg[a].tool = t PROVE PlaceOf(t) = asg[a].operator
    <2>1. tool[t].active /\ tool[t].status = "in_use" BY <1>1, HeldTool
    <2>2. Holder(t) = asg[a].operator BY <1>1, HolderOfOpen
    <2> QED BY <2>1, <2>2 DEF PlaceOf
<1> QED BY <1>1 DEF PlaceOf

\* A tool whose row and assignments a step leaves alone stays where it is.
LEMMA StaysPut ==
    ASSUME ToolsInv, ToolsInv', NEW t \in DOMAIN tool, t \in DOMAIN tool', tool'[t] = tool[t],
           \A a \in Open : asg[a].tool = t
              => a \in Open' /\ asg'[a].tool = t /\ asg'[a].operator = asg[a].operator
    PROVE  PlaceOf(t)' = PlaceOf(t)
<1>1. tool[t] \in ToolRow BY Rows
<1>2. CASE ~ tool[t].active BY <1>2 DEF PlaceOf
<1>3. CASE tool[t].active /\ tool[t].status = "available" BY <1>3 DEF PlaceOf
<1>4. CASE tool[t].active /\ tool[t].status = "out_of_service" BY <1>4 DEF PlaceOf
<1>5. CASE tool[t].active /\ tool[t].status = "in_use"
    <2>1. PICK a \in Open : asg[a].tool = t BY <1>5 DEF ToolsInv, HeldIffInUse
    <2>2. Holder(t) = asg[a].operator BY <2>1, HolderOfOpen
    <2>3. a \in Open' /\ asg'[a].tool = t /\ asg'[a].operator = asg[a].operator BY <2>1
    <2>4. \A b \in Open' : asg'[b].tool = t => b = a
        BY <2>3 DEF ToolsInv, HeldIffInUse
    <2>5. Holder(t)' = asg'[a].operator BY <2>3, <2>4 DEF Holder
    <2> QED BY <1>5, <2>2, <2>3, <2>5 DEF PlaceOf
<1> QED BY <1>1, <1>2, <1>3, <1>4, <1>5 DEF ToolRow

\* One tool moves, the others stay: a step of the pool.
LEMMA MovesOne ==
    ASSUME NEW t \in DOMAIN tool, NEW from, NEW to,
           DOMAIN tool' = DOMAIN tool, stock' = stock,
           PlaceOf(t) \in from, PlaceOf(t)' = to,
           \A k \in DOMAIN tool : k # t => PlaceOf(k)' = PlaceOf(k)
    PROVE  Pool!Move(t, from, to)
<1> DEFINE here == [k \in DOMAIN tool |-> PlaceOf(k)]
<1>1. here[t] \in from OBVIOUS
<1>2. here' = [k \in DOMAIN tool |-> PlaceOf(k)'] OBVIOUS
<1>3. \A k \in DOMAIN tool : PlaceOf(k)' = IF k = t THEN to ELSE PlaceOf(k) OBVIOUS
<1>4. here' = [k \in DOMAIN tool |-> IF k = t THEN to ELSE PlaceOf(k)]
    BY <1>2, <1>3
<1>5. here' = [here EXCEPT ![t] = to] BY <1>4
<1> QED BY <1>1, <1>5 DEF Pool!Move

\* A step that leaves the tools and the assignments alone moves nothing.
LEMMA MovesNone ==
    ASSUME UNCHANGED <<stock, tool, asg>>
    PROVE  UNCHANGED Pool!pvars
<1>1. Open' = Open BY DEF Open
<1>2. \A t \in DOMAIN tool : PlaceOf(t)' = PlaceOf(t)
    BY <1>1 DEF PlaceOf, Holder
<1> QED BY <1>2 DEF Pool!pvars

\* issue_to_tool_pool adds its units to the pool.
LEMMA IssueMoves ==
    ASSUME ToolsInv, ToolsInv', NEW q \in IssueQuantity, IssueToPool(q)
    PROVE  Pool!PoolNext
<1> DEFINE new == [status |-> "available", active |-> TRUE]
           Place == User \cup {"pool", "broken", "gone"}
           here == [t \in DOMAIN tool |-> PlaceOf(t)]
           more == [k \in 1..q |-> "pool"]
<1>1. q \in 1..stock /\ q \in Nat
    BY ToolsAssumption DEF IssueQuantity, IssueToPool, ToolsInv, ToolsTypeOK
<1>2. new \in ToolRow /\ new.active /\ new.status = "available" BY DEF ToolRow
<1>3. tool' = tool \o [k \in 1..q |-> new] /\ UNCHANGED <<asg, rep, page>>
    BY DEF IssueToPool
<1> HIDE DEF new
<1>4. tool \in Seq(ToolRow) /\ DOMAIN tool = 1..Len(tool) /\ Len(tool) \in Nat
    BY LenProperties DEF ToolsInv, ToolsTypeOK
<1>5. /\ DOMAIN tool \subseteq DOMAIN tool'
      /\ \A t \in DOMAIN tool : tool'[t] = tool[t]
      /\ \A t \in DOMAIN tool' \ DOMAIN tool : tool'[t] = new
    BY <1>1, <1>2, <1>3, <1>4, NewRows
<1>6. DOMAIN tool' = 1..(Len(tool) + q)
    BY <1>1, <1>2, <1>3, <1>4, NewRows
<1>7. \A t \in DOMAIN tool : PlaceOf(t)' = PlaceOf(t)
    <2>1. Open' = Open BY <1>3 DEF Open
    <2> QED BY <1>3, <1>5, <2>1, StaysPut
<1>8. \A t \in DOMAIN tool' \ DOMAIN tool : PlaceOf(t)' = "pool"
    BY <1>2, <1>5 DEF PlaceOf
<1>9. \A t \in DOMAIN tool : PlaceOf(t) \in Place
    <2> SUFFICES ASSUME NEW t \in DOMAIN tool PROVE PlaceOf(t) \in Place OBVIOUS
    <2>1. CASE \E a \in Open : asg[a].tool = t
        <3>1. PICK a \in Open : asg[a].tool = t BY <2>1
        <3>2. asg[a].operator \in User BY Rows DEF Open, AssignmentRow
        <3> QED BY <3>1, <3>2, Places
    <2>2. CASE ~ \E a \in Open : asg[a].tool = t
        <3>1. tool[t] \in ToolRow /\ tool[t].status # "in_use"
            BY <2>2, Rows DEF ToolsInv, HeldIffInUse
        <3> QED BY <3>1, Places DEF ToolRow
    <2> QED BY <2>1, <2>2
<1> HIDE DEF Place
<1>10. "pool" \in Place BY DEF Place
<1>11. here \in Seq(Place) /\ Len(here) = Len(tool)
    BY <1>4, <1>9
<1>12. more \in Seq(Place) /\ Len(more) = q
    BY <1>1, <1>10
<1>13. here' = [t \in 1..(Len(tool) + q) |-> IF t <= Len(tool) THEN here[t] ELSE "pool"]
    <2>1. here' = [t \in DOMAIN tool' |-> PlaceOf(t)'] OBVIOUS
    <2>2. \A t \in 1..(Len(tool) + q) :
            PlaceOf(t)' = IF t <= Len(tool) THEN here[t] ELSE "pool"
        BY <1>4, <1>6, <1>7, <1>8
    <2> HIDE DEF here
    <2> QED BY <1>6, <2>1, <2>2
<1>14. here \o more = here'
    <2>1. /\ here \o more \in Seq(Place) /\ Len(here \o more) = Len(tool) + q
          /\ \A i \in 1..(Len(tool) + q) :
               (here \o more)[i] = IF i <= Len(tool) THEN here[i] ELSE more[i - Len(tool)]
        <3> HIDE DEF here, more
        <3>1. /\ here \o more \in Seq(Place) /\ Len(here \o more) = Len(here) + Len(more)
              /\ \A i \in 1..Len(here) + Len(more) :
                   (here \o more)[i] = IF i <= Len(here) THEN here[i] ELSE more[i - Len(here)]
            BY <1>11, <1>12, ConcatProperties, Zenon
        <3> QED BY <1>11, <1>12, <3>1, Zenon
    <2>2. \A i \in 1..(Len(tool) + q) : i <= Len(tool) \/ i - Len(tool) \in 1..q
        BY <1>1, <1>4
    <2>3. \A i \in 1..(Len(tool) + q) :
            (here \o more)[i] = IF i <= Len(tool) THEN here[i] ELSE "pool"
        BY <2>1, <2>2
    <2> HIDE DEF here, more
    <2>4. here \o more = [i \in 1..(Len(tool) + q) |-> (here \o more)[i]]
        BY <2>1, LenProperties
    <2> QED BY <1>13, <2>3, <2>4
<1>15. Pool!Issue(q)
    BY <1>1, <1>14 DEF Pool!Issue, IssueToPool
<1> QED BY <1>1, <1>15 DEF Pool!PoolNext

\* assign takes a tool from the pool to one person.
LEMMA AssignMoves ==
    ASSUME ToolsInv, ToolsInv', NEW u \in User, NEW o \in User, Assign(u, o)
    PROVE  Pool!PoolNext \/ UNCHANGED Pool!pvars
<1>1. PICK t \in DOMAIN tool : t = page[u].id /\ t \in Nat
    BY DEF ToolsInv, ToolsTypeOK, Page, Assign, Submits
<1> DEFINE a == Len(asg) + 1
           row == [tool |-> t, operator |-> o, open |-> TRUE]
           held == [tool[t] EXCEPT !.status = "in_use"]
<1>2. CASE ~ CanAssign(t)
    BY <1>1, <1>2, MovesNone DEF Assign, Refused
<1>3. CASE CanAssign(t)
    <2>1. /\ asg' = Append(asg, row)
          /\ tool' = [tool EXCEPT ![t] = held]
          /\ stock' = stock
        BY <1>1, <1>3 DEF Assign
    <2>2. /\ row \in AssignmentRow /\ row.tool = t /\ row.open /\ row.operator = o
          /\ held \in ToolRow /\ held.status = "in_use" /\ held.active
        BY <1>1, <1>3, Rows DEF AssignmentRow, ToolRow, CanAssign
    <2> HIDE DEF row, held
    <2>3. /\ DOMAIN asg' = DOMAIN asg \cup {a}
          /\ a \notin DOMAIN asg /\ asg'[a] = row
          /\ \A b \in DOMAIN asg : asg'[b] = asg[b]
        BY <2>1, <2>2, NewRow DEF ToolsInv, ToolsTypeOK
    <2> HIDE DEF a
    <2>4. PlaceOf(t) = "pool" BY <1>1, <1>3, Places DEF CanAssign
    <2>5. /\ DOMAIN tool' = DOMAIN tool /\ tool'[t] = held
          /\ \A k \in DOMAIN tool : k # t => tool'[k] = tool[k]
        BY <1>1, <2>1, <2>2, WriteRow DEF ToolsInv, ToolsTypeOK
    <2>6. PlaceOf(t)' = o
        <3>1. a \in Open' /\ asg'[a].tool = t /\ asg'[a].operator = o
            BY <2>2, <2>3 DEF Open
        <3>2. \A b \in Open' : asg'[b].tool = t => b = a
            BY <3>1 DEF ToolsInv, HeldIffInUse
        <3>3. Holder(t)' = o BY <3>1, <3>2 DEF Holder
        <3> QED BY <2>2, <2>5, <3>3 DEF PlaceOf
    <2>7. ASSUME NEW k \in DOMAIN tool, k # t PROVE PlaceOf(k)' = PlaceOf(k)
        <3>1. \A b \in Open : b \in Open' /\ asg'[b] = asg[b] BY <2>3 DEF Open
        <3> QED BY <2>5, <2>7, <3>1, StaysPut
    <2>8. Pool!Move(t, {"pool"}, o) BY <1>1, <2>1, <2>4, <2>5, <2>6, <2>7, MovesOne
    <2> QED BY <1>1, <2>8 DEF Pool!PoolNext
<1> QED BY <1>2, <1>3

\* return_tool takes a tool from its holder, to the pool or to the workshop.
LEMMA ReturnMoves ==
    ASSUME ToolsInv, ToolsInv', NEW u \in User, NEW damaged \in BOOLEAN, Return(u, damaged)
    PROVE  Pool!PoolNext \/ UNCHANGED Pool!pvars
<1> DEFINE a == page[u].id
           closed == [asg[a] EXCEPT !.open = FALSE]
           status == IF damaged THEN "out_of_service" ELSE "available"
           to == IF damaged THEN "broken" ELSE "pool"
<1>1. a \in DOMAIN asg BY DEF ToolsInv, ToolsTypeOK, Page, Return, Submits
<1>2. CASE ~ asg[a].open
    BY <1>1, <1>2, MovesNone DEF Return, Refused
<1>3. CASE asg[a].open
    <2>1. a \in Open BY <1>1, <1>3 DEF Open
    <2>2. PICK t \in DOMAIN tool : t = asg[a].tool /\ tool[t] \in ToolRow BY <1>1, Rows
    <2> DEFINE back == [tool[t] EXCEPT !.status = status]
    <2>3. tool[t].status = "in_use" /\ tool[t].active BY <2>1, <2>2, HeldTool
    <2>4. /\ asg' = [asg EXCEPT ![a] = closed]
          /\ tool' = [tool EXCEPT ![t] = back]
          /\ stock' = stock
        BY <1>3, <2>2 DEF Return
    <2>5. PlaceOf(t) \in User
        <3>1. asg[a].operator \in User BY <1>1, Rows DEF AssignmentRow
        <3> QED BY <2>1, <2>2, <3>1, Places
    <2>6. closed \in AssignmentRow BY <1>1, Rows DEF AssignmentRow
    <2>7. back \in ToolRow /\ back.status = status /\ back.active
        BY <2>2, <2>3 DEF ToolRow
    <2> HIDE DEF closed, back
    <2>8. DOMAIN asg' = DOMAIN asg /\ \A b \in DOMAIN asg : b # a => asg'[b] = asg[b]
        BY <1>1, <2>4, <2>6, WriteRow DEF ToolsInv, ToolsTypeOK
    <2>9. \A b \in Open : asg[b].tool = t => b = a
        BY <2>1, <2>2 DEF ToolsInv, HeldIffInUse
    <2>10. /\ DOMAIN tool' = DOMAIN tool /\ tool'[t] = back
           /\ \A k \in DOMAIN tool : k # t => tool'[k] = tool[k]
        BY <2>2, <2>4, <2>7, WriteRow DEF ToolsInv, ToolsTypeOK
    <2> HIDE DEF a
    <2>11. PlaceOf(t)' = to BY <2>7, <2>10 DEF PlaceOf
    <2>12. ASSUME NEW k \in DOMAIN tool, k # t PROVE PlaceOf(k)' = PlaceOf(k)
        <3>1. ASSUME NEW b \in Open, asg[b].tool = k PROVE b \in Open' /\ asg'[b] = asg[b]
            <4>1. b # a BY <2>2, <2>12, <3>1
            <4> QED BY <2>8, <4>1 DEF Open
        <3> QED BY <2>10, <2>12, <3>1, StaysPut
    <2>13. Pool!Move(t, User, to)
        BY <2>2, <2>4, <2>5, <2>10, <2>11, <2>12, MovesOne
    <2> QED BY <2>2, <2>13 DEF Pool!PoolNext
<1> QED BY <1>2, <1>3

\* Resolving a report moves its tool from the workshop.
LEMMA ResolveMoves ==
    ASSUME ToolsInv, ToolsInv', NEW r \in OpenReports, NEW x \in ToolRow,
           tool' = [tool EXCEPT ![rep[r].tool] = x], UNCHANGED <<stock, asg>>,
           x.active => x.status = "available"
    PROVE  Pool!PoolNext
<1>1. PICK t \in DOMAIN tool :
         t = rep[r].tool /\ tool[t].status = "out_of_service" /\ tool[t].active
    BY BrokenTool
<1> DEFINE to == IF x.active THEN "pool" ELSE "gone"
<1>2. tool' = [tool EXCEPT ![t] = x] BY <1>1
<1>3. /\ DOMAIN tool' = DOMAIN tool /\ tool'[t] = x
      /\ \A k \in DOMAIN tool : k # t => tool'[k] = tool[k]
    BY <1>1, <1>2, WriteRow DEF ToolsInv, ToolsTypeOK
<1>4. PlaceOf(t) = "broken" BY <1>1, Places
<1>5. PlaceOf(t)' = to BY <1>3 DEF PlaceOf
<1>6. ASSUME NEW k \in DOMAIN tool, k # t PROVE PlaceOf(k)' = PlaceOf(k)
    <2>1. Open' = Open BY DEF Open
    <2> QED BY <1>3, <1>6, <2>1, StaysPut
<1>7. Pool!Move(t, {"broken"}, to) BY <1>1, <1>3, <1>4, <1>5, <1>6, MovesOne
<1> QED BY <1>1, <1>7 DEF Pool!PoolNext

\* repair and write_off
LEMMA RepairMoves ==
    ASSUME ToolsInv, ToolsInv', NEW u \in User, Repair(u) \/ WriteOff(u)
    PROVE  Pool!PoolNext \/ UNCHANGED Pool!pvars
<1> DEFINE r == page[u].id
           mended == [tool[rep[r].tool] EXCEPT !.status = "available"]
           gone == [status |-> "out_of_service", active |-> FALSE]
<1>1. r \in DOMAIN rep
    BY DEF ToolsInv, ToolsTypeOK, Page, Repair, WriteOff, Submits
<1>2. CASE rep[r].status # "open"
    BY <1>2, MovesNone DEF Repair, WriteOff, Refused
<1>3. CASE rep[r].status = "open"
    <2>1. r \in OpenReports BY <1>1, <1>3 DEF OpenReports
    <2>2. /\ rep[r].tool \in DOMAIN tool /\ tool[rep[r].tool].active
          /\ tool[rep[r].tool].status = "out_of_service"
        BY <2>1, BrokenTool
    <2>3. /\ mended \in ToolRow /\ mended.status = "available" /\ mended.active
          /\ gone \in ToolRow /\ ~ gone.active
        BY <2>2, Rows DEF ToolRow
    <2>4. /\ \/ tool' = [tool EXCEPT ![rep[r].tool] = mended]
             \/ tool' = [tool EXCEPT ![rep[r].tool] = gone]
          /\ UNCHANGED <<stock, asg>>
        BY <1>3, <2>2 DEF Repair, WriteOff
    <2> HIDE DEF r, mended, gone
    <2> QED BY <2>1, <2>3, <2>4, ResolveMoves
<1> QED BY <1>2, <1>3

\* The tables of the program implement the pool of ToolPool: whatever stale
\* pages reach the services, in whatever order, every unit issued is in one
\* place at a time and moves only along ToolPool's five edges.
THEOREM PoolImplemented == ToolsSpec => ImplementsPool
<1>1. ToolsInit => Pool!PoolInit
    BY DEF ToolsInit, Pool!PoolInit
<1>2. ToolsInv /\ ToolsInv' /\ [ToolsNext]_tvars => [Pool!PoolNext]_(Pool!pvars)
    <2> SUFFICES ASSUME ToolsInv, ToolsInv', [ToolsNext]_tvars
                 PROVE  Pool!PoolNext \/ UNCHANGED Pool!pvars
        OBVIOUS
    <2>1. CASE UNCHANGED tvars BY <2>1, MovesNone DEF tvars
    <2>2. CASE ToolsNext
        <3>1. PICK u \in User :
                \/ \E q \in IssueQuantity : IssueToPool(q)
                \/ UNCHANGED <<stock, tool, asg>>
                \/ \E o \in User : Assign(u, o)
                \/ \E damaged \in BOOLEAN : Return(u, damaged)
                \/ Repair(u) \/ WriteOff(u)
            BY <2>2 DEF ToolsNext, ToolsIssue, OpenAssign, OpenReturn, OpenResolve, Reads
        <3> QED BY <3>1, MovesNone, IssueMoves, AssignMoves, ReturnMoves, RepairMoves
    <2> QED BY <2>1, <2>2
<1> QED BY <1>1, <1>2, ToolsInvariance, PTL DEF ToolsSpec, ImplementsPool, Pool!PoolSpec

-------------------------------------------------------------------------------
(***************************************************************************)
(* The pages.                                                              *)
(***************************************************************************)
\* Rows that name different tools are as many as the tools they name.
LEMMA OneEach ==
    ASSUME NEW n \in Nat, NEW S \in SUBSET (1..n), NEW f, NEW T,
           f \in [S -> T],
           \A a, b \in S : f[a] = f[b] => a = b,
           \A t \in T : \E a \in S : f[a] = t
    PROVE  Cardinality(T) = Cardinality(S)
<1>1. IsFiniteSet(S)
    <2>1. IsFiniteSet(1..n) BY FS_Interval
    <2> QED BY <2>1, FS_Subset
<1>2. f \in Bijection(S, T) BY DEF Bijection, Injection, IsInjective, Surjection
<1> QED BY <1>1, <1>2, FS_Bijection DEF ExistsBijection

\* A list cut at a length: of rows that are numbered without a gap, those with
\* a number below the length are as many as the rows or the length.
LEMMA CutAt ==
    ASSUME NEW S, IsFiniteSet(S), NEW c \in Nat,
           NEW f \in [S -> Nat],
           \A x \in S : f[x] < Cardinality(S),
           \A x, y \in S : f[x] = f[y] => x = y
    PROVE  Cardinality({x \in S : f[x] < c}) = Shorter(Cardinality(S), c)
<1> DEFINE n == Cardinality(S)
           m == Shorter(n, c)
           T == {x \in S : f[x] < c}
           N == 0..(n - 1)
           M == 0..(m - 1)
           g == [x \in T |-> f[x]]
<1>1. n \in Nat BY FS_CardinalityType
<1>2. IsFiniteSet(N) /\ Cardinality(N) = n
    BY <1>1, FS_Interval
<1>3. f \in [S -> N]
    <2>1. \A x \in S : f[x] \in N BY <1>1
    <2> QED BY <2>1
<1>4. f \in Injection(S, N) BY <1>3 DEF Injection, IsInjective
<1>5. f \in Surjection(S, N) BY <1>2, <1>4, FS_Injection
<1>6. m \in Nat /\ (\A k \in Nat : k < m <=> k < n /\ k < c)
    BY <1>1 DEF Shorter
<1>7. IsFiniteSet(M) /\ Cardinality(M) = m
    <2> HIDE DEF m
    <2>1. m - 1 \in Int /\ 0 \in Int BY <1>6
    <2>2. IsFiniteSet(0..(m - 1)) /\ Cardinality(0..(m - 1)) = IF 0 > m - 1 THEN 0 ELSE (m - 1) - 0 + 1
        BY <2>1, FS_Interval
    <2> QED BY <1>6, <2>2
<1>8. IsFiniteSet(T) BY FS_Subset
<1>9. g \in Bijection(T, M)
    <2>1. \A x \in T : g[x] \in M BY <1>6
    <2>2. \A x, y \in T : g[x] = g[y] => x = y OBVIOUS
    <2>3. \A k \in M : \E x \in T : g[x] = k
        <3> SUFFICES ASSUME NEW k \in M PROVE \E x \in T : g[x] = k OBVIOUS
        <3>1. k \in Nat /\ k < n /\ k < c BY <1>6
        <3>2. k \in N BY <1>1, <3>1
        <3>3. PICK x \in S : f[x] = k BY <1>5, <3>2 DEF Surjection
        <3> QED BY <3>1, <3>3
    <2> HIDE DEF g, T, M
    <2>4. g \in [T -> M] BY <2>1 DEF g
    <2> QED BY <2>2, <2>3, <2>4 DEF Bijection, Injection, IsInjective, Surjection
<1> HIDE DEF g, T, M, m
<1>10. Cardinality(M) = Cardinality(T) BY <1>8, <1>9, FS_Bijection DEF ExistsBijection
<1> QED BY <1>7, <1>10 DEF T, m

\* The numbers a list gives its rows: how many rows stand before each.  rest[x]
\* are the rows before x.
LEMMA Numbered ==
    ASSUME NEW S, IsFiniteSet(S), NEW rest \in [S -> SUBSET S],
           \A x \in S : x \notin rest[x],
           \A x, y \in S : x # y => \/ x \in rest[y] /\ rest[x] \subseteq rest[y]
                                    \/ y \in rest[x] /\ rest[y] \subseteq rest[x],
           NEW c \in Nat
    PROVE  Cardinality({x \in S : Cardinality(rest[x]) < c}) = Shorter(Cardinality(S), c)
<1> DEFINE f == [x \in S |-> Cardinality(rest[x])]
<1>1. \A x \in S : IsFiniteSet(rest[x]) /\ f[x] \in Nat
    BY FS_Subset, FS_CardinalityType
<1>2. ASSUME NEW x \in S, NEW T, IsFiniteSet(T), x \in T, rest[x] \subseteq T
      PROVE  f[x] < Cardinality(T)
    <2>1. rest[x] \cup {x} \in SUBSET T BY <1>2
    <2>2. Cardinality(rest[x] \cup {x}) = f[x] + 1 BY <1>1, FS_AddElement
    <2>3. Cardinality(rest[x] \cup {x}) <= Cardinality(T) BY <1>2, <2>1, FS_Subset
    <2> QED BY <1>1, <1>2, <2>2, <2>3, FS_CardinalityType
<1>3. \A x \in S : f[x] < Cardinality(S) BY <1>2
<1>4. \A x, y \in S : f[x] = f[y] => x = y
    <2> SUFFICES ASSUME NEW x \in S, NEW y \in S, x # y PROVE f[x] # f[y] OBVIOUS
    <2>1. CASE x \in rest[y] /\ rest[x] \subseteq rest[y]
        <3>1. f[x] < Cardinality(rest[y]) BY <1>1, <1>2, <2>1
        <3> QED BY <1>1, <3>1
    <2>2. CASE y \in rest[x] /\ rest[y] \subseteq rest[x]
        <3>1. f[y] < Cardinality(rest[x]) BY <1>1, <1>2, <2>2
        <3> QED BY <1>1, <3>1
    <2> QED BY <2>1, <2>2
<1>5. f \in [S -> Nat] BY <1>1
<1>6. {x \in S : f[x] < c} = {x \in S : Cardinality(rest[x]) < c} OBVIOUS
<1> HIDE DEF f
<1> QED BY <1>3, <1>4, <1>5, <1>6, CutAt

\* The cards of tools_dashboard agree with the lengths of its lists.
LEMMA CardsAgree ==
    ASSUME ToolsInv
    PROVE  DashboardAddsUp
<1>1. /\ Len(asg) \in Nat /\ DOMAIN asg = 1..Len(asg)
      /\ Len(rep) \in Nat /\ DOMAIN rep = 1..Len(rep)
    BY LenProperties DEF ToolsInv, ToolsTypeOK
<1>2. Cardinality(WithStatus("in_use")) = Cardinality(Checkouts)
    <2> DEFINE f == [a \in Checkouts |-> asg[a].tool]
    <2>1. Checkouts = Open /\ Open \subseteq DOMAIN asg
        BY HeldTool, Rows DEF Checkouts, ActiveTools, Open
    <2>2. f \in [Checkouts -> WithStatus("in_use")]
        BY HeldTool, Rows, <2>1 DEF WithStatus, ActiveTools
    <2>3. \A a, b \in Checkouts : f[a] = f[b] => a = b
        BY <2>1 DEF ToolsInv, HeldIffInUse
    <2>4. \A t \in WithStatus("in_use") : \E a \in Checkouts : f[a] = t
        BY <2>1 DEF ToolsInv, HeldIffInUse, WithStatus, ActiveTools
    <2>5. Checkouts \in SUBSET (1..Len(asg)) BY <1>1, <2>1
    <2> HIDE DEF f
    <2> QED BY <1>1, <2>2, <2>3, <2>4, <2>5, OneEach
<1>3. Cardinality(WithStatus("out_of_service")) = Cardinality(OpenReports)
    <2> DEFINE f == [r \in OpenReports |-> rep[r].tool]
    <2>1. OpenReports \subseteq DOMAIN rep BY DEF OpenReports
    <2>2. f \in [OpenReports -> WithStatus("out_of_service")]
        BY BrokenTool DEF WithStatus, ActiveTools
    <2>3. \A q, r \in OpenReports : f[q] = f[r] => q = r
        BY DEF ToolsInv, BrokenIffReported
    <2>4. \A t \in WithStatus("out_of_service") : \E r \in OpenReports : f[r] = t
        BY DEF ToolsInv, BrokenIffReported, WithStatus, ActiveTools
    <2> HIDE DEF f
    <2> QED BY <1>1, <2>1, <2>2, <2>3, <2>4, OneEach
<1>4. Cardinality(OpenAssignments) = Shorter(Cardinality(Checkouts), AssignmentsShown)
    <2> DEFINE rest == [a \in Checkouts |-> Before(a)]
    <2>1. Checkouts \in SUBSET (1..Len(asg)) BY <1>1 DEF Checkouts, Open
    <2>2. IsFiniteSet(1..Len(asg)) BY <1>1, FS_Interval
    <2>3. IsFiniteSet(Checkouts) BY <2>1, <2>2, FS_Subset
    <2>4. \A a \in Checkouts : a \in Int BY <2>1, <1>1
    <2>5. rest \in [Checkouts -> SUBSET Checkouts] BY DEF Before
    <2>6. \A a \in Checkouts : a \notin rest[a] BY <2>4 DEF Before
    <2>7. ASSUME NEW a \in Checkouts, NEW b \in Checkouts, a # b
          PROVE  \/ a \in rest[b] /\ rest[a] \subseteq rest[b]
                 \/ b \in rest[a] /\ rest[b] \subseteq rest[a]
        <3>1. CASE a < b BY <2>4, <3>1 DEF Before
        <3>2. CASE b < a BY <2>4, <3>2 DEF Before
        <3> QED BY <2>4, <2>7, <3>1, <3>2
    <2>8. AssignmentsShown \in Nat BY ToolsAssumption
    <2>9. Cardinality({a \in Checkouts : Cardinality(rest[a]) < AssignmentsShown})
            = Shorter(Cardinality(Checkouts), AssignmentsShown)
        <3> HIDE DEF rest
        <3> QED BY <2>3, <2>5, <2>6, <2>7, <2>8, Numbered
    <2>10. OpenAssignments = {a \in Checkouts : Cardinality(rest[a]) < AssignmentsShown}
        BY DEF OpenAssignments
    <2> QED BY <2>9, <2>10
<1>5. Cardinality(OpenDamage) = Shorter(Cardinality(OpenReports), DamageShown)
    <2> DEFINE rest == [r \in OpenReports |-> After(r)]
    <2>1. OpenReports \in SUBSET (1..Len(rep)) BY <1>1 DEF OpenReports
    <2>2. IsFiniteSet(1..Len(rep)) BY <1>1, FS_Interval
    <2>3. IsFiniteSet(OpenReports) BY <2>1, <2>2, FS_Subset
    <2>4. \A r \in OpenReports : r \in Int BY <2>1, <1>1
    <2>5. rest \in [OpenReports -> SUBSET OpenReports] BY DEF After
    <2>6. \A r \in OpenReports : r \notin rest[r] BY <2>4 DEF After
    <2>7. ASSUME NEW q \in OpenReports, NEW r \in OpenReports, q # r
          PROVE  \/ q \in rest[r] /\ rest[q] \subseteq rest[r]
                 \/ r \in rest[q] /\ rest[r] \subseteq rest[q]
        <3>1. CASE q < r BY <2>4, <3>1 DEF After
        <3>2. CASE r < q BY <2>4, <3>2 DEF After
        <3> QED BY <2>4, <2>7, <3>1, <3>2
    <2>8. DamageShown \in Nat BY ToolsAssumption
    <2>9. Cardinality({r \in OpenReports : Cardinality(rest[r]) < DamageShown})
            = Shorter(Cardinality(OpenReports), DamageShown)
        <3> HIDE DEF rest
        <3> QED BY <2>3, <2>5, <2>6, <2>7, <2>8, Numbered
    <2>10. OpenDamage = {r \in OpenReports : Cardinality(rest[r]) < DamageShown}
        BY DEF OpenDamage
    <2> QED BY <2>9, <2>10
<1> QED BY <1>2, <1>3, <1>4, <1>5 DEF DashboardAddsUp, Counts

\* The pages of the pool fit the tables: the dashboard's cards agree with its
\* lists and whoever holds a tool finds it, for any number of people and tools.
THEOREM PagesAgree == ToolsSpec => []PagesFit
<1>1. ToolsInv => PagesFit
    <2> SUFFICES ASSUME ToolsInv PROVE PagesFit OBVIOUS
    <2>1. ASSUME NEW a \in Open, Role[asg[a].operator] # "procurement"
          PROVE  /\ asg[a].tool \in ToolsList(asg[a].operator)
                 /\ MayOpen(asg[a].operator, asg[a].tool)
        <3>1. asg[a].tool \in ActiveTools BY HeldTool, Rows DEF ActiveTools, Open
        <3>2. asg[a].tool \in HeldBy(asg[a].operator) BY DEF HeldBy
        <3>3. a \in DOMAIN asg BY DEF Open
        <3> QED BY <2>1, <3>1, <3>2, <3>3 DEF ToolsList, MayOpen
    <2> QED BY <2>1, CardsAgree DEF PagesFit, HolderSeesTool
<1> QED BY <1>1, ToolsInvariance, PTL
===============================================================================

--------------------------- MODULE TenancyProofs ---------------------------
(***************************************************************************)
(* Tenancy for every set of requests, organizations, users, work orders    *)
(* and admins.                                                             *)
(***************************************************************************)
EXTENDS Tenancy, TLAPS

-----------------------------------------------------------------------------
(* The inductive invariant.  TypeOK is split into the part about the       *)
(* tables, the part about the requests and the histories.  Recorded says   *)
(* what a history guarantees: while RequireOrgAccess has not decided, seen *)
(* holds and always is within the organizations the caller belongs to now; *)
(* a request past its check has the organization it found in its history.  *)
(***************************************************************************)

TablesOK ==
    /\ orgs \in [Orgs -> {"absent", "active", "deleted"}]
    /\ users \in [Users -> UserRows]
    /\ orders \subseteq Orders
    /\ \A u \in Users : users[u] # NoUser => orgs[users[u].org] # "absent"
    /\ \A x \in orders : orgs[x.org] # "absent"

RequestsOK ==
    /\ pc \in [Requests -> {"idle", "done"} \cup OrgRoute \cup AdminRoute]
    /\ caller \in [Requests -> Users \cup {None}]
    /\ claim \in [Requests -> Orgs \cup {None}]
    /\ ctx \in [Requests -> Orgs \cup {None}]
    /\ reply \in [Requests -> [code : Codes, orders : SUBSET Orders] \cup {NoReply}]
    /\ \A r \in Requests :
          /\ pc[r] # "idle" => caller[r] # None
          /\ pc[r] \in {"member", "resolved"} => ctx[r] # None
          /\ ctx[r] # None => orgs[ctx[r]] # "absent"

HistoriesOK == past \in [Requests -> Histories]

LEMMA TypeParts == TypeOK <=> TablesOK /\ RequestsOK /\ HistoriesOK
  BY DEF TypeOK, TablesOK, RequestsOK, HistoriesOK

Recorded(r) ==
    /\ pc[r] = "org" =>
          /\ Homes(orgs, users, caller[r]) \subseteq past[r].seen
          /\ past[r].always \subseteq Homes(orgs, users, caller[r])
    /\ pc[r] = "member" => ctx[r] \in past[r].seen /\ claim[r] \in {None, ctx[r]}
    /\ pc[r] \in {"allowlist", "admin"} => Active(orgs) \subseteq past[r].live
    /\ pc[r] = "resolved" => ctx[r] \in past[r].live
    /\ pc[r] \in OrgRoute => past[r].before \subseteq orders

IInv == TypeOK /\ \A r \in Requests : Recorded(r)

Step(r) == Begin(r) \/ Fail(r) \/ End(r) \/ Member(r) \/ Admin(r)

-----------------------------------------------------------------------------
(* The tables.                                                             *)

\* What every statement respects: rows are never removed, work orders never
\* lost, deleted users never touched.
Respects ==
    /\ \A o \in Orgs : orgs[o] # "absent" => orgs'[o] # "absent"
    /\ orders \subseteq orders'
    /\ \A u \in Users : users[u].deleted => users'[u] = users[u]

LEMMA Unchanging == ASSUME TablesOK, UNCHANGED tables PROVE TablesOK' /\ Respects
  BY DEF TablesOK, tables, Respects

LEMMA OrgWritten ==
    ASSUME TablesOK, NEW o \in Orgs, NEW s \in {"active", "deleted"},
           orgs' = [orgs EXCEPT ![o] = s], UNCHANGED <<users, orders>>
    PROVE  TablesOK' /\ Respects
  <1>1. \A p \in Orgs : orgs'[p] = IF p = o THEN s ELSE orgs[p]
    BY DEF TablesOK
  <1>2. orgs' \in [Orgs -> {"absent", "active", "deleted"}]
    BY DEF TablesOK
  <1>3. \A u \in Users : users[u] # NoUser => users[u].org \in Orgs
    BY DEF TablesOK, UserRows
  <1>4. \A x \in orders : x.org \in Orgs
    BY DEF TablesOK, Orders
  <1> QED
    BY <1>1, <1>2, <1>3, <1>4 DEF TablesOK, Respects

LEMMA UserWritten ==
    ASSUME TablesOK, NEW u \in Users, NEW row \in [org : Orgs, deleted : BOOLEAN],
           users' = [users EXCEPT ![u] = row], ~users[u].deleted,
           orgs[row.org] # "absent", UNCHANGED <<orgs, orders>>
    PROVE  TablesOK' /\ Respects
  <1>1. \A v \in Users : users'[v] = IF v = u THEN row ELSE users[v]
    BY DEF TablesOK
  <1>2. users' \in [Users -> UserRows]
    BY DEF TablesOK, UserRows
  <1> QED
    BY <1>1, <1>2 DEF TablesOK, Respects

LEMMA OrderWritten ==
    ASSUME TablesOK, NEW x \in Orders, orgs[x.org] # "absent",
           orders' = orders \cup {x}, UNCHANGED <<orgs, users>>
    PROVE  TablesOK' /\ Respects
  BY DEF TablesOK, Respects

LEMMA FoundRow ==
    ASSUME TablesOK, NEW u \in Users, Found(u)
    PROVE  /\ users[u] \in [org : Orgs, deleted : BOOLEAN]
           /\ users[u].org \in Orgs /\ orgs[users[u].org] # "absent" /\ ~users[u].deleted
  BY DEF TablesOK, Found, UserRows

LEMMA MovedRow ==
    ASSUME NEW old \in [org : Orgs, deleted : BOOLEAN], NEW o \in Orgs
    PROVE  /\ [old EXCEPT !.org = o] \in [org : Orgs, deleted : BOOLEAN]
           /\ [old EXCEPT !.org = o].org = o
           /\ [old EXCEPT !.deleted = TRUE] \in [org : Orgs, deleted : BOOLEAN]
           /\ [old EXCEPT !.deleted = TRUE].org = old.org
  OBVIOUS

\* What a statement does to the tables, whoever runs it.
LEMMA TableSteps ==
    ASSUME TablesOK, RequestsOK, NEW r \in Requests, Step(r)
    PROVE  TablesOK' /\ Respects
  <1>1. CASE Begin(r) \/ Fail(r) \/ End(r) \/ Authorize(r) \/ Me(r) \/ ListOrders(r)
             \/ (\E n \in Numbers : GetOrder(r, n)) \/ Allow(r) \/ ReadTables(r)
             \/ (\E o \in Orgs : Resolve(r, o)) \/ (\E u \in Users : RenameUser(r, u))
    BY <1>1, Unchanging DEF Begin, Fail, End, Authorize, Admit, Me, ListOrders, GetOrder,
       Allow, ReadTables, Resolve, RenameUser
  <1>2. ASSUME NEW n \in Numbers, CreateOrder(r, n) PROVE TablesOK' /\ Respects
    <2>1. ctx[r] \in Orgs /\ orgs[ctx[r]] # "absent"
      BY <1>2 DEF CreateOrder, RequestsOK
    <2> DEFINE x == [org |-> ctx[r], number |-> n]
    <2>2. x \in Orders /\ x.org = ctx[r]
      BY <2>1 DEF Orders
    <2>3. CASE x \in orders
      BY <1>2, <2>3, Unchanging DEF CreateOrder
    <2>4. CASE x \notin orders
      <3>1. orders' = orders \cup {x} /\ UNCHANGED <<orgs, users>>
        BY <1>2, <2>4 DEF CreateOrder
      <3> HIDE DEF x
      <3> QED
        BY <2>1, <2>2, <3>1, OrderWritten
    <2> QED
      BY <2>3, <2>4
  <1>3. ASSUME NEW o \in Orgs, CreateOrg(r, o) \/ PatchOrg(r, o) \/ DeleteOrg(r, o)
        PROVE  TablesOK' /\ Respects
    <2>1. /\ UNCHANGED <<users, orders>>
          /\ UNCHANGED orgs \/ \E s \in {"active", "deleted"} : orgs' = [orgs EXCEPT ![o] = s]
      <3>1. orgs[o] \in {"absent", "active", "deleted"}
        BY DEF TablesOK
      <3>2. CASE CreateOrg(r, o)
        BY <3>2 DEF CreateOrg
      <3>3. CASE PatchOrg(r, o)
        BY <3>1, <3>3 DEF PatchOrg
      <3>4. CASE DeleteOrg(r, o)
        BY <3>4 DEF DeleteOrg
      <3> QED
        BY <1>3, <3>2, <3>3, <3>4
    <2> QED
      BY <2>1, Unchanging, OrgWritten DEF tables
  <1>4. ASSUME NEW u \in Users, CreateUser(r, u) PROVE TablesOK' /\ Respects
    <2>1. ctx[r] \in Orgs /\ orgs[ctx[r]] # "absent"
      BY <1>4 DEF CreateUser, RequestsOK
    <2> DEFINE row == [org |-> ctx[r], deleted |-> FALSE]
    <2>2. row \in [org : Orgs, deleted : BOOLEAN] /\ row.org = ctx[r]
      BY <2>1
    <2>3. \/ UNCHANGED tables
          \/ users[u] = NoUser /\ users' = [users EXCEPT ![u] = row] /\ UNCHANGED <<orgs, orders>>
      BY <1>4 DEF CreateUser, tables
    <2>4. ~NoUser.deleted
      BY DEF NoUser
    <2> HIDE DEF row
    <2> QED
      BY <2>1, <2>2, <2>3, <2>4, Unchanging, UserWritten
  <1>5. ASSUME NEW u \in Users, MoveUser(r, u) PROVE TablesOK' /\ Respects
    <2>1. ctx[r] \in Orgs /\ orgs[ctx[r]] # "absent"
      BY <1>5 DEF MoveUser, RequestsOK
    <2>2. CASE UNCHANGED users
      BY <1>5, <2>2, Unchanging DEF MoveUser, tables
    <2>3. CASE Found(u) /\ users' = [users EXCEPT ![u].org = ctx[r]]
      <3> DEFINE row == [users[u] EXCEPT !.org = ctx[r]]
      <3>1. row \in [org : Orgs, deleted : BOOLEAN] /\ row.org = ctx[r] /\ ~users[u].deleted
        BY <2>1, <2>3, FoundRow, MovedRow
      <3>2. users' = [users EXCEPT ![u] = row]
        BY <2>3
      <3> HIDE DEF row
      <3> QED
        BY <1>5, <2>1, <3>1, <3>2, UserWritten DEF MoveUser
    <2> QED
      BY <1>5, <2>2, <2>3 DEF MoveUser
  <1>6. ASSUME NEW u \in Users, DeleteUser(r, u) PROVE TablesOK' /\ Respects
    <2>1. CASE UNCHANGED users
      BY <1>6, <2>1, Unchanging DEF DeleteUser, tables
    <2>2. CASE Found(u) /\ users' = [users EXCEPT ![u].deleted = TRUE]
      <3> DEFINE row == [users[u] EXCEPT !.deleted = TRUE]
      <3>1. /\ row \in [org : Orgs, deleted : BOOLEAN]
            /\ orgs[row.org] # "absent" /\ ~users[u].deleted
        BY <2>2, FoundRow, MovedRow
      <3>2. users' = [users EXCEPT ![u] = row]
        BY <2>2
      <3> HIDE DEF row
      <3> QED
        BY <1>6, <3>1, <3>2, UserWritten DEF DeleteUser
    <2> QED
      BY <1>6, <2>1, <2>2 DEF DeleteUser
  <1> QED
    BY <1>1, <1>2, <1>3, <1>4, <1>5, <1>6 DEF Step, Member, Admin

-----------------------------------------------------------------------------
(* The requests.  A step moves one request: it begins, is admitted, allowed *)
(* or given an organization by GetBySlug, ends, or replies; and what it     *)
(* replies is justified by the tables it read.                              *)

Only(r) ==
    \A q \in Requests \ {r} :
        /\ pc'[q] = pc[q] /\ caller'[q] = caller[q] /\ claim'[q] = claim[q]
        /\ ctx'[q] = ctx[q] /\ reply'[q] = reply[q]

Justified(r, code, rows) ==
    /\ \A x \in rows : pc[r] = "member" /\ x.org = ctx[r]
    /\ code = "listed" => pc[r] = "member" /\ Inside(ctx[r]) \subseteq rows
    /\ code = "missing" => pc[r] = "member" /\ \A x \in rows : x \notin orders
    /\ code = "forbidden" =>
          /\ pc[r] = "org"
          /\ \A o \in Homes(orgs, users, caller[r]) : claim[r] \notin {None, o}

Replies(r) ==
    \E code \in Codes, rows \in SUBSET Orders :
        /\ pc[r] \notin {"idle", "done"}
        /\ Reply(r, code, rows)
        /\ Justified(r, code, rows)

Admitted(r) ==
    /\ pc[r] = "org"
    /\ \E o \in Homes(orgs, users, caller[r]) : claim[r] \in {None, o} /\ Admit(r, o)

Allowed(r) ==
    /\ pc[r] = "allowlist" /\ Goto(r, "admin")
    /\ UNCHANGED <<tables, caller, claim, ctx, reply>>

Resolved(r) ==
    /\ pc[r] = "admin" /\ Goto(r, "resolved")
    /\ \E o \in Active(orgs) : ctx' = [ctx EXCEPT ![r] = o]
    /\ UNCHANGED <<tables, caller, claim, reply>>

LEMMA EmptyReplies ==
    ASSUME NEW r \in Requests, NEW code \in Codes \ {"listed", "missing", "forbidden"},
           pc[r] \notin {"idle", "done"}, Reply(r, code, {})
    PROVE  Replies(r)
  BY DEF Replies, Justified

LEMMA WrittenReplies ==
    ASSUME NEW r \in Requests, NEW code \in {"ok", "created"},
           pc[r] \notin {"idle", "done"}, Written(r, code)
    PROVE  Replies(r)
  <1>1. "error" \in Codes \ {"listed", "missing", "forbidden"}
          /\ code \in Codes \ {"listed", "missing", "forbidden"}
    BY DEF Codes
  <1> QED
    BY <1>1, EmptyReplies DEF Written

LEMMA Moves ==
    ASSUME TablesOK, RequestsOK, NEW r \in Requests, Step(r)
    PROVE  Begin(r) \/ End(r) \/ Admitted(r) \/ Allowed(r) \/ Resolved(r) \/ Replies(r)
  <1>0. /\ "ok" \in Codes \ {"listed", "missing", "forbidden"}
        /\ "conflict" \in Codes \ {"listed", "missing", "forbidden"}
        /\ "not_found" \in Codes \ {"listed", "missing", "forbidden"}
        /\ "denied" \in Codes \ {"listed", "missing", "forbidden"}
        /\ "unavailable" \in Codes \ {"listed", "missing", "forbidden"}
        /\ "error" \in Codes \ {"listed", "missing", "forbidden"}
    BY DEF Codes
  <1>1. CASE Fail(r) \/ Me(r)
    BY <1>0, <1>1, EmptyReplies DEF Fail, Me
  <1>2. CASE Authorize(r)
    <2>1. caller[r] \in Users
      BY <1>2 DEF Authorize, RequestsOK
    <2> DEFINE o == users[caller[r]].org
               admissible == Found(caller[r]) /\ orgs[o] = "active" /\ claim[r] \in {None, o}
    <2>2. CASE admissible
      <3>1. o \in Homes(orgs, users, caller[r])
        BY <2>1, <2>2, FoundRow DEF Homes
      <3> QED
        BY <1>2, <2>2, <3>1 DEF Authorize, Admitted
    <2>3. CASE ~admissible
      <3>1. Reply(r, "forbidden", {})
        BY <1>2, <2>3 DEF Authorize
      <3>2. \A p \in Homes(orgs, users, caller[r]) : claim[r] \notin {None, p}
        <4>1. \A p \in Homes(orgs, users, caller[r]) : Found(caller[r])
          BY NoneIsNoData DEF Homes, Found, NoUser
        <4> QED
          BY <2>3, <4>1 DEF Homes
      <3>3. pc[r] = "org"
        BY <1>2 DEF Authorize
      <3>4. Justified(r, "forbidden", {})
        BY <3>2, <3>3 DEF Justified
      <3> QED
        BY <3>1, <3>3, <3>4 DEF Replies, Codes
    <2> QED
      BY <2>2, <2>3
  <1>3. CASE ListOrders(r)
    <2>1. pc[r] = "member" /\ Reply(r, "listed", Inside(ctx[r]))
      BY <1>3 DEF ListOrders
    <2>2. Inside(ctx[r]) \in SUBSET Orders /\ \A x \in Inside(ctx[r]) : x.org = ctx[r]
      BY DEF Inside, TablesOK
    <2>3. Justified(r, "listed", Inside(ctx[r]))
      BY <2>1, <2>2 DEF Justified
    <2> QED
      BY <2>1, <2>2, <2>3 DEF Replies, Codes
  <1>4. ASSUME NEW n \in Numbers, GetOrder(r, n) PROVE Replies(r)
    <2> DEFINE x == [org |-> ctx[r], number |-> n]
               code == IF x \in orders THEN "found" ELSE "missing"
    <2>1. pc[r] = "member" /\ Reply(r, code, {x})
      BY <1>4 DEF GetOrder
    <2>2. x \in Orders /\ x.org = ctx[r]
      BY <2>1 DEF RequestsOK, Orders
    <2>3. Justified(r, code, {x})
      BY <2>1, <2>2 DEF Justified
    <2>4. code \in Codes
      BY DEF Codes
    <2> HIDE DEF x, code
    <2> QED
      BY <2>1, <2>2, <2>3, <2>4 DEF Replies
  <1>5. ASSUME NEW n \in Numbers, CreateOrder(r, n) PROVE Replies(r)
    BY <1>0, <1>5, EmptyReplies, WrittenReplies DEF CreateOrder
  <1>6. CASE Allow(r)
    <2>1. CASE caller[r] \in Admins
      BY <1>6, <2>1 DEF Allow, Allowed, tables
    <2>2. CASE caller[r] \notin Admins
      BY <1>0, <1>6, <2>2, EmptyReplies DEF Allow
    <2> QED
      BY <2>1, <2>2
  <1>7. CASE ReadTables(r)
    BY <1>0, <1>7, EmptyReplies DEF ReadTables
  <1>8. ASSUME NEW o \in Orgs, CreateOrg(r, o) \/ PatchOrg(r, o) \/ DeleteOrg(r, o)
        PROVE  Replies(r)
    BY <1>0, <1>8, EmptyReplies, WrittenReplies DEF CreateOrg, PatchOrg, DeleteOrg
  <1>9. ASSUME NEW o \in Orgs, Resolve(r, o) PROVE Resolved(r) \/ Replies(r)
    <2>1. CASE orgs[o] = "active"
      BY <1>9, <2>1 DEF Resolve, Resolved, Active, tables
    <2>2. CASE orgs[o] # "active"
      BY <1>0, <1>9, <2>2, EmptyReplies DEF Resolve
    <2> QED
      BY <2>1, <2>2
  <1>10. ASSUME NEW u \in Users,
                CreateUser(r, u) \/ MoveUser(r, u) \/ RenameUser(r, u) \/ DeleteUser(r, u)
         PROVE  Replies(r)
    BY <1>0, <1>10, EmptyReplies, WrittenReplies
       DEF CreateUser, MoveUser, RenameUser, DeleteUser
  <1> QED
    BY <1>1, <1>2, <1>3, <1>4, <1>5, <1>6, <1>7, <1>8, <1>9, <1>10 DEF Step, Member, Admin

\* What a move does to the variables of the requests.
LEMMA RequestSteps ==
    ASSUME TablesOK, RequestsOK, Respects, NEW r \in Requests,
           Begin(r) \/ End(r) \/ Admitted(r) \/ Allowed(r) \/ Resolved(r) \/ Replies(r)
    PROVE  RequestsOK' /\ Only(r)
  <1>1. CASE Begin(r)
    <2>1. PICK u \in Users : caller' = [caller EXCEPT ![r] = u]
      BY <1>1 DEF Begin
    <2>2. /\ pc' \in [Requests -> {"idle", "done"} \cup OrgRoute \cup AdminRoute]
          /\ pc'[r] \in {"org", "allowlist"} /\ \A q \in Requests \ {r} : pc'[q] = pc[q]
      BY <1>1 DEF Begin, Goto, RequestsOK, OrgRoute, AdminRoute
    <2>3. /\ claim' \in [Requests -> Orgs \cup {None}]
          /\ \A q \in Requests \ {r} : claim'[q] = claim[q]
      BY <1>1 DEF Begin, RequestsOK
    <2>4. UNCHANGED <<tables, ctx, reply>>
      BY <1>1 DEF Begin
    <2> QED
      BY <2>1, <2>2, <2>3, <2>4, NoneIsNoData DEF RequestsOK, Only, tables
  <1>2. CASE End(r)
    BY <1>2 DEF End, Goto, RequestsOK, Only, tables
  <1>3. CASE Admitted(r)
    <2>1. PICK o \in Homes(orgs, users, caller[r]) : Admit(r, o)
      BY <1>3 DEF Admitted
    <2>2. o \in Orgs /\ orgs[o] = "active"
      BY <2>1 DEF Homes
    <2>3. pc[r] = "org"
      BY <1>3 DEF Admitted
    <2> QED
      BY <2>1, <2>2, <2>3, NoneIsNoData DEF Admit, Goto, RequestsOK, Only, OrgRoute, tables
  <1>4. CASE Allowed(r)
    BY <1>4 DEF Allowed, Goto, RequestsOK, Only, AdminRoute, tables
  <1>5. CASE Resolved(r)
    <2>1. PICK o \in Active(orgs) : ctx' = [ctx EXCEPT ![r] = o]
      BY <1>5 DEF Resolved
    <2>2. o \in Orgs /\ o # None /\ orgs[o] = "active"
      BY <2>1, NoneIsNoData DEF Active
    <2>3. /\ pc[r] = "admin" /\ pc' = [pc EXCEPT ![r] = "resolved"]
          /\ UNCHANGED <<orgs, caller, claim, reply>>
      BY <1>5 DEF Resolved, Goto, tables
    <2> QED
      BY <2>1, <2>2, <2>3 DEF RequestsOK, Only, AdminRoute
  <1>6. CASE Replies(r)
    <2>1. PICK code \in Codes, rows \in SUBSET Orders :
                 pc[r] \notin {"idle", "done"} /\ Reply(r, code, rows)
      BY <1>6 DEF Replies
    <2>2. [code |-> code, orders |-> rows] \in [code : Codes, orders : SUBSET Orders]
      OBVIOUS
    <2> QED
      BY <2>1, <2>2 DEF Reply, Goto, RequestsOK, Only, Respects
  <1> QED
    BY <1>1, <1>2, <1>3, <1>4, <1>5, <1>6

-----------------------------------------------------------------------------
(* The histories.                                                          *)

\* What History says of a request in each phase.
LEMMA Remembered ==
    ASSUME TablesOK, RequestsOK, HistoriesOK, Remember, NEW r \in Requests,
           NEW S, NEW L, S = Homes(orgs', users', caller'[r]), L = Active(orgs')
    PROVE  /\ past'[r] \in Histories
           /\ pc[r] = "idle" /\ pc'[r] = "org" =>
                 past'[r].seen = S /\ past'[r].always = S /\ past'[r].before = orders
           /\ pc[r] = "idle" /\ pc'[r] = "allowlist" => past'[r].live = L
           /\ pc[r] = "org" /\ pc'[r] \in {"org", "member"} =>
                 /\ past'[r].seen = past[r].seen \cup S
                 /\ past'[r].always = past[r].always \cap S
                 /\ past'[r].before = past[r].before
           /\ pc[r] \in {"allowlist", "admin"} /\ pc'[r] \in {"allowlist", "admin", "resolved"} =>
                 past'[r].live = past[r].live \cup L
           /\ pc[r] \in {"member", "resolved"} /\ pc'[r] = pc[r] => past'[r] = past[r]
  <1> DEFINE began == [NoPast EXCEPT !.seen = S, !.always = S, !.before = orders]
             asked == [NoPast EXCEPT !.live = L]
             watched == [past[r] EXCEPT !.seen = @ \cup S, !.always = @ \cap S]
             searched == [past[r] EXCEPT !.live = @ \cup L]
  <1>1. S \in SUBSET Orgs /\ L \in SUBSET Orgs /\ orders \in SUBSET Orders
    BY DEF Homes, Active, TablesOK
  <1>2. past[r] \in Histories /\ NoPast \in Histories
    BY DEF HistoriesOK, NoPast, Histories
  <1>3. /\ began \in Histories /\ began.seen = S /\ began.always = S /\ began.before = orders
        /\ asked \in Histories /\ asked.live = L
    BY <1>1 DEF NoPast, Histories
  <1>4. /\ watched \in Histories /\ watched.seen = past[r].seen \cup S
        /\ watched.always = past[r].always \cap S /\ watched.before = past[r].before
        /\ searched \in Histories /\ searched.live = past[r].live \cup L
    <2>1. ASSUME NEW h \in Histories, h = past[r]
          PROVE  /\ watched \in Histories /\ watched.seen = past[r].seen \cup S
                 /\ watched.always = past[r].always \cap S /\ watched.before = past[r].before
                 /\ searched \in Histories /\ searched.live = past[r].live \cup L
      <3>1. /\ watched = [h EXCEPT !.seen = @ \cup S, !.always = @ \cap S]
            /\ searched = [h EXCEPT !.live = @ \cup L]
        BY <2>1
      <3> HIDE DEF watched, searched
      <3> QED
        BY <1>1, <2>1, <3>1 DEF Histories
    <2> QED
      BY <1>2, <2>1
  <1>5. past'[r] =
            IF pc'[r] \in {"idle", "done"} THEN NoPast
            ELSE IF pc[r] = "idle" THEN IF pc'[r] = "org" THEN began ELSE asked
            ELSE IF pc[r] = "org" THEN watched
            ELSE IF pc[r] \in {"allowlist", "admin"} THEN searched
            ELSE past[r]
    <2>1. past'[r] = History(r)
      BY DEF Remember
    <2> QED
      BY <2>1, Zenon DEF History
  <1> HIDE DEF began, asked, watched, searched
  <1> QED
    BY <1>2, <1>3, <1>4, <1>5

\* The requests that do not move keep what is recorded of them: tables change
\* around them, and their histories with them.
LEMMA OthersRecorded ==
    ASSUME TablesOK, RequestsOK, HistoriesOK, Remember, orders \subseteq orders',
           NEW r \in Requests, Recorded(r),
           pc'[r] = pc[r], caller'[r] = caller[r], claim'[r] = claim[r], ctx'[r] = ctx[r]
    PROVE  Recorded(r)'
  BY Remembered DEF Recorded, OrgRoute

\* So does the one that moves.
LEMMA MoverRecorded ==
    ASSUME TablesOK, RequestsOK, HistoriesOK, Remember, orders \subseteq orders',
           RequestsOK', NEW r \in Requests, Recorded(r),
           Begin(r) \/ End(r) \/ Admitted(r) \/ Allowed(r) \/ Resolved(r) \/ Replies(r)
    PROVE  Recorded(r)'
  <1>1. CASE Begin(r)
    <2>1. pc[r] = "idle" /\ pc'[r] \in {"org", "allowlist"}
      BY <1>1 DEF Begin, Goto, RequestsOK
    <2> QED
      BY <2>1, Remembered DEF Recorded, OrgRoute
  <1>2. CASE End(r) \/ Replies(r)
    <2>1. pc'[r] \in {"idle", "done"}
      BY <1>2 DEF End, Replies, Reply, Goto, RequestsOK
    <2> QED
      BY <2>1 DEF Recorded, OrgRoute
  <1>3. CASE Admitted(r)
    <2>1. PICK o \in Homes(orgs, users, caller[r]) : claim[r] \in {None, o} /\ Admit(r, o)
      BY <1>3 DEF Admitted
    <2>2. /\ pc[r] = "org" /\ pc'[r] = "member" /\ ctx'[r] = o /\ claim'[r] = claim[r]
          /\ UNCHANGED orders
      BY <1>3, <2>1 DEF Admitted, Admit, Goto, RequestsOK, tables
    <2> QED
      BY <2>1, <2>2, Remembered DEF Recorded, OrgRoute
  <1>4. CASE Allowed(r)
    <2>1. pc[r] = "allowlist" /\ pc'[r] = "admin"
      BY <1>4 DEF Allowed, Goto, RequestsOK
    <2> QED
      BY <2>1, Remembered DEF Recorded, OrgRoute
  <1>5. CASE Resolved(r)
    <2>1. PICK o \in Active(orgs) : ctx' = [ctx EXCEPT ![r] = o]
      BY <1>5 DEF Resolved
    <2>2. pc[r] = "admin" /\ pc'[r] = "resolved" /\ ctx'[r] = o
      BY <1>5, <2>1 DEF Resolved, Goto, RequestsOK
    <2> QED
      BY <2>1, <2>2, Remembered DEF Recorded, OrgRoute
  <1> QED
    BY <1>1, <1>2, <1>3, <1>4, <1>5

-----------------------------------------------------------------------------
(* The invariant.                                                          *)

LEMMA Initially == Init => IInv
  <1> SUFFICES ASSUME Init PROVE IInv
    OBVIOUS
  <1>1. TablesOK
    BY DEF Init, TablesOK, UserRows
  <1>2. RequestsOK
    BY DEF Init, RequestsOK
  <1>3. HistoriesOK
    BY DEF Init, HistoriesOK, NoPast, Histories
  <1>4. \A r \in Requests : Recorded(r)
    BY DEF Init, Recorded, OrgRoute
  <1> QED
    BY <1>1, <1>2, <1>3, <1>4, TypeParts DEF IInv

LEMMA StepKeeps ==
    ASSUME IInv, NEW r \in Requests, Step(r), Remember
    PROVE  IInv' /\ Respects /\ Only(r)
  <1>1. TablesOK /\ RequestsOK /\ HistoriesOK /\ \A q \in Requests : Recorded(q)
    BY TypeParts DEF IInv
  <1>2. TablesOK' /\ Respects
    BY <1>1, TableSteps
  <1>3. Begin(r) \/ End(r) \/ Admitted(r) \/ Allowed(r) \/ Resolved(r) \/ Replies(r)
    BY <1>1, Moves
  <1>4. RequestsOK' /\ Only(r)
    BY <1>1, <1>2, <1>3, RequestSteps
  <1>5. HistoriesOK'
    <2>1. past' = [q \in Requests |-> History(q)]
      BY DEF Remember
    <2>2. \A q \in Requests : past'[q] \in Histories
      BY <1>1, Remembered
    <2> QED
      BY <2>1, <2>2 DEF HistoriesOK
  <1>6. orders \subseteq orders'
    BY <1>2 DEF Respects
  <1>7. Recorded(r)'
    BY <1>1, <1>3, <1>4, <1>6, MoverRecorded
  <1>8. \A q \in Requests \ {r} : Recorded(q)'
    BY <1>1, <1>4, <1>6, OthersRecorded DEF Only
  <1>9. TypeOK'
    BY <1>2, <1>4, <1>5 DEF TypeOK, TablesOK, RequestsOK, HistoriesOK
  <1> QED
    BY <1>2, <1>4, <1>7, <1>8, <1>9 DEF IInv

LEMMA NextKeeps == ASSUME IInv, [Next]_vars PROVE IInv'
  <1>1. CASE Next
    BY <1>1, StepKeeps DEF Next, Step
  <1>2. CASE UNCHANGED vars
    BY <1>2 DEF vars, IInv, TypeOK, Recorded
  <1> QED
    BY <1>1, <1>2

LEMMA Invariance == Spec => []IInv
  BY Initially, NextKeeps, PTL DEF Spec

-----------------------------------------------------------------------------
\* Every variable keeps its type, every foreign key and every organization that a
\* request has in its context points at a row.
THEOREM TypeCorrectness == Spec => []TypeOK
  BY Invariance, PTL DEF IInv

\* The request that reaches its reply in a step is the one that takes it.
LEMMA Enders ==
    ASSUME IInv, Next, NEW r \in Requests, Ends(r)
    PROVE  Step(r) /\ Replies(r)
  <1>1. PICK q \in Requests : Step(q)
    BY DEF Next, Step
  <1>2. Only(q)
    BY <1>1, StepKeeps DEF Next
  <1>3. q = r
    BY <1>2 DEF Only, Ends
  <1>4. TablesOK /\ RequestsOK
    BY TypeParts DEF IInv
  <1>5. Begin(r) \/ End(r) \/ Admitted(r) \/ Allowed(r) \/ Resolved(r) \/ Replies(r)
    BY <1>1, <1>3, <1>4, Moves
  <1>6. ~(Begin(r) \/ End(r) \/ Admitted(r) \/ Allowed(r) \/ Resolved(r))
    BY <1>4 DEF Ends, Begin, End, Admitted, Admit, Allowed, Resolved, Goto, RequestsOK
  <1> QED
    BY <1>1, <1>3, <1>5, <1>6

\* What a reply says is justified by what was there and what the request had seen.
LEMMA JustifiedReplies ==
    ASSUME IInv, Next, NEW r \in Requests, Ends(r)
    PROVE  /\ \E code \in Codes, rows \in SUBSET Orders :
                 /\ reply'[r].code = code /\ reply'[r].orders = rows
                 /\ Justified(r, code, rows)
           /\ Recorded(r) /\ pc[r] \notin {"idle", "done"}
  <1>1. PICK code \in Codes, rows \in SUBSET Orders :
               pc[r] \notin {"idle", "done"} /\ Reply(r, code, rows) /\ Justified(r, code, rows)
    BY Enders DEF Replies
  <1>2. reply'[r] = [code |-> code, orders |-> rows]
    BY <1>1 DEF Reply, IInv, TypeOK
  <1>3. reply'[r].code = code /\ reply'[r].orders = rows
    BY <1>2
  <1> QED
    BY <1>1, <1>3 DEF IInv

\* Members see the work orders of one organization, one they belonged to when they
\* were checked, and never one that their token does not name.
THEOREM MembersSeeTheirOwn == Spec => ReadsStayInside
  <1> DEFINE Inner == \A r \in Requests : Ends(r) =>
          \A x \in reply'[r].orders :
              x.org = ctx[r] /\ x.org \in past[r].seen /\ claim[r] \in {None, x.org}
  <1>1. ASSUME IInv, Next PROVE Inner
    BY <1>1, JustifiedReplies DEF Justified, Recorded
  <1>2. IInv /\ [Next]_vars => [Inner]_vars
    BY <1>1
  <1> QED
    BY <1>2, Invariance, PTL DEF Spec, ReadsStayInside

\* No request loses sight of a work order that was stored before it began.
THEOREM NoOrderIsMissed == Spec => StoredOrdersAreFound
  <1> DEFINE Inner == \A r \in Requests : Ends(r) =>
          \A x \in past[r].before :
              /\ reply'[r].code = "listed" /\ x.org = ctx[r] => x \in reply'[r].orders
              /\ reply'[r].code = "missing" => x \notin reply'[r].orders
  <1>1. ASSUME IInv, Next PROVE Inner
    BY <1>1, JustifiedReplies DEF Justified, Recorded, Inside, OrgRoute
  <1>2. IInv /\ [Next]_vars => [Inner]_vars
    BY <1>1
  <1> QED
    BY <1>2, Invariance, PTL DEF Spec, StoredOrdersAreFound

\* Steady members are never refused.
THEOREM NoMemberIsRefused == Spec => MembersAreAdmitted
  <1> DEFINE Inner == \A r \in Requests : Ends(r) /\ reply'[r].code = "forbidden" =>
          \A o \in past[r].always : claim[r] \notin {None, o}
  <1>1. ASSUME IInv, Next PROVE Inner
    BY <1>1, JustifiedReplies DEF Justified, Recorded
  <1>2. IInv /\ [Next]_vars => [Inner]_vars
    BY <1>1
  <1> QED
    BY <1>2, Invariance, PTL DEF Spec, MembersAreAdmitted

\* Deletion of a user is final.
THEOREM DeletionIsFinal == Spec => DeletedUsersStay
  <1> DEFINE Inner == \A u \in Users : users[u].deleted => users'[u] = users[u]
  <1>1. ASSUME IInv, Next PROVE Inner
    BY <1>1, StepKeeps DEF Next, Step, Respects
  <1>2. IInv /\ [Next]_vars => [Inner]_vars
    BY <1>1
  <1> QED
    BY <1>2, Invariance, PTL DEF Spec, DeletedUsersStay

\* Only a request past its check writes a work order or a membership, and only
\* in the organization it was given by the check.
LEMMA Writers ==
    ASSUME TablesOK, RequestsOK, NEW r \in Requests, Step(r)
    PROVE  /\ \A x \in orders' \ orders : pc[r] = "member" /\ Ends(r) /\ x.org = ctx[r]
           /\ \A u \in Users : users'[u].org # users[u].org =>
                 pc[r] = "resolved" /\ Ends(r) /\ users'[u].org = ctx[r]
  <1>0. ASSUME NEW code, Reply(r, code, {}) \/ Written(r, code) PROVE pc'[r] = "done"
    BY <1>0 DEF Written, Reply, Goto, RequestsOK
  <1>1. CASE Begin(r) \/ Fail(r) \/ End(r) \/ Authorize(r) \/ Me(r) \/ ListOrders(r)
             \/ (\E n \in Numbers : GetOrder(r, n)) \/ Allow(r) \/ ReadTables(r)
             \/ (\E o \in Orgs : CreateOrg(r, o) \/ PatchOrg(r, o) \/ DeleteOrg(r, o)
                                    \/ Resolve(r, o))
             \/ (\E u \in Users : RenameUser(r, u))
    <2>1. UNCHANGED <<users, orders>>
      BY <1>1 DEF Begin, Fail, End, Authorize, Admit, Me, ListOrders, GetOrder, Allow,
         ReadTables, CreateOrg, PatchOrg, DeleteOrg, Resolve, RenameUser, tables
    <2> QED
      BY <2>1
  <1>2. ASSUME NEW n \in Numbers, CreateOrder(r, n)
        PROVE  /\ UNCHANGED users
               /\ \A x \in orders' \ orders : pc[r] = "member" /\ Ends(r) /\ x.org = ctx[r]
    <2> DEFINE x == [org |-> ctx[r], number |-> n]
    <2>1. pc[r] = "member" /\ UNCHANGED users
      BY <1>2 DEF CreateOrder, tables
    <2>2. CASE x \in orders
      BY <1>2, <2>1, <2>2 DEF CreateOrder, tables
    <2>3. CASE x \notin orders
      <3>1. orders' = orders \cup {x} /\ Written(r, "created")
        BY <1>2, <2>3 DEF CreateOrder
      <3>2. x.org = ctx[r]
        OBVIOUS
      <3> HIDE DEF x
      <3> QED
        BY <1>0, <2>1, <3>1, <3>2 DEF Ends
    <2> QED
      BY <2>2, <2>3
  <1>3. ASSUME NEW u \in Users, CreateUser(r, u)
        PROVE  /\ UNCHANGED orders
               /\ \A v \in Users : users'[v].org # users[v].org =>
                     pc[r] = "resolved" /\ Ends(r) /\ users'[v].org = ctx[r]
    <2>1. pc[r] = "resolved" /\ UNCHANGED orders
      BY <1>3 DEF CreateUser
    <2>2. CASE users[u] # NoUser
      BY <1>3, <2>1, <2>2 DEF CreateUser
    <2>3. CASE users[u] = NoUser
      <3>1. users' = [users EXCEPT ![u] = [org |-> ctx[r], deleted |-> FALSE]]
              /\ Written(r, "created")
        BY <1>3, <2>3 DEF CreateUser
      <3>2. \A v \in Users : users'[v] = IF v = u THEN [org |-> ctx[r], deleted |-> FALSE]
                                                 ELSE users[v]
        BY <3>1 DEF TablesOK
      <3> QED
        BY <1>0, <2>1, <3>1, <3>2 DEF Ends
    <2> QED
      BY <2>2, <2>3
  <1>4. ASSUME NEW u \in Users, MoveUser(r, u)
        PROVE  /\ UNCHANGED orders
               /\ \A v \in Users : users'[v].org # users[v].org =>
                     pc[r] = "resolved" /\ Ends(r) /\ users'[v].org = ctx[r]
    <2>1. pc[r] = "resolved" /\ UNCHANGED orders
      BY <1>4 DEF MoveUser
    <2>2. CASE ~Found(u)
      BY <1>4, <2>1, <2>2 DEF MoveUser
    <2>3. CASE Found(u)
      <3> DEFINE row == [users[u] EXCEPT !.org = ctx[r]]
      <3>1. users' = [users EXCEPT ![u] = row] /\ Written(r, "ok")
        BY <1>4, <2>3 DEF MoveUser
      <3>2. row.org = ctx[r]
        BY <1>4, <2>3, FoundRow, MovedRow DEF MoveUser, RequestsOK
      <3> HIDE DEF row
      <3>3. \A v \in Users : users'[v] = IF v = u THEN row ELSE users[v]
        BY <3>1 DEF TablesOK
      <3> QED
        BY <1>0, <2>1, <3>1, <3>2, <3>3 DEF Ends
    <2> QED
      BY <2>2, <2>3
  <1>5. ASSUME NEW u \in Users, DeleteUser(r, u)
        PROVE  UNCHANGED orders /\ \A v \in Users : users'[v].org = users[v].org
    <2>1. CASE ~Found(u)
      BY <1>5, <2>1 DEF DeleteUser
    <2>2. CASE Found(u)
      <3> DEFINE row == [users[u] EXCEPT !.deleted = TRUE]
      <3>1. users' = [users EXCEPT ![u] = row] /\ UNCHANGED orders
        BY <1>5, <2>2 DEF DeleteUser
      <3>2. row.org = users[u].org
        BY <2>2, FoundRow, MovedRow
      <3> HIDE DEF row
      <3>3. \A v \in Users : users'[v] = IF v = u THEN row ELSE users[v]
        BY <3>1 DEF TablesOK
      <3> QED
        BY <3>1, <3>2, <3>3
    <2> QED
      BY <2>1, <2>2
  <1> QED
    BY <1>1, <1>2, <1>3, <1>4, <1>5 DEF Step, Member, Admin

\* Work orders are written only into organizations their writers belonged to.
THEOREM WritersBelong == Spec => WritesStayInside
  <1> DEFINE Inner == \A x \in orders' \ orders :
          \E r \in Requests : Ends(r) /\ x.org = ctx[r] /\ x.org \in past[r].seen
  <1>1. ASSUME IInv, Next PROVE Inner
    <2>1. PICK r \in Requests : Step(r)
      BY <1>1 DEF Next, Step
    <2> QED
      BY <1>1, <2>1, Writers, TypeParts DEF IInv, Recorded
  <1>2. IInv /\ [Next]_vars => [Inner]_vars
    BY <1>1
  <1> QED
    BY <1>2, Invariance, PTL DEF Spec, WritesStayInside

\* Users join only organizations that their admin's request saw active.
THEOREM JoinersMeetAnActiveOrg == Spec => JoinedWhileActive
  <1> DEFINE Inner == \A u \in Users : users'[u].org # users[u].org =>
          \E r \in Requests : Ends(r) /\ users'[u].org \in past[r].live
  <1>1. ASSUME IInv, Next PROVE Inner
    <2>1. PICK r \in Requests : Step(r)
      BY <1>1 DEF Next, Step
    <2> QED
      BY <1>1, <2>1, Writers, TypeParts DEF IInv, Recorded
  <1>2. IInv /\ [Next]_vars => [Inner]_vars
    BY <1>1
  <1> QED
    BY <1>2, Invariance, PTL DEF Spec, JoinedWhileActive
=============================================================================

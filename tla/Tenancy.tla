------------------------------ MODULE Tenancy ------------------------------
(***************************************************************************)
(* Organizations, users and work orders, and who may reach them: the       *)
(* handlers and repositories of internal/organizations, internal/users and *)
(* internal/workorders behind ClerkAuth with RequireOrgAccess (members) or *)
(* with ClerkAdminAllowlist (admins).                                      *)
(*                                                                         *)
(* Each SQL statement is one step and no transaction spans two.  A request *)
(* keeps in its gin context what its first statement found, while other    *)
(* requests change the rows it was found in.                               *)
(***************************************************************************)
EXTENDS FiniteSets

CONSTANTS
    Requests,  \* goroutines, each serving one request after the other
    Orgs,      \* organization slugs; a row keeps its slug and id for ever
    Users,     \* clerk_user_id values, the `sub' claims of genuine tokens
    Numbers,   \* work_order_id values
    Admins,    \* ADMIN_CLERK_USER_IDS
    None       \* no organization, no org_slug claim, no caller

ASSUME NoneIsNoData == None \notin Orgs \cup Users
ASSUME AdminsAreUsers == Admins \subseteq Users

VARIABLES
    orgs,    \* organizations: whether the row exists and has a deleted_at
    users,   \* users: their organization and whether they have a deleted_at
    orders,  \* work_orders
    pc,      \* where each request is
    caller,  \* claims.Subject
    claim,   \* claims.OrgSlug, normalized
    ctx,     \* the organization in the gin context or resolved by GetBySlug
    reply,   \* the response
    past     \* what was true since the request began

tables == <<orgs, users, orders>>

vars == <<orgs, users, orders, pc, caller, claim, ctx, reply, past>>

\* Waiting for RequireOrgAccess, or past it; for the allowlist, past it, past GetBySlug.
OrgRoute == {"org", "member"}
AdminRoute == {"allowlist", "admin", "resolved"}

Orders == [org : Orgs, number : Numbers]

NoUser == [org |-> None, deleted |-> FALSE]

UserRows == [org : Orgs, deleted : BOOLEAN] \cup {NoUser}

\* `listed' and `found' come with the work orders shown, `missing' with the one
\* that the request asked for in vain; the other replies have no work orders.
Codes == {"listed", "found", "missing", "ok", "created", "conflict", "not_found",
          "forbidden", "denied", "unavailable", "error"}

NoReply == [code |-> "none", orders |-> {}]

Histories == [seen : SUBSET Orgs, always : SUBSET Orgs, live : SUBSET Orgs,
              before : SUBSET Orders]

NoPast == [seen |-> {}, always |-> {}, live |-> {}, before |-> {}]

\* The organizations whose active member u is, given the rows of both tables.
Homes(os, us, u) == {o \in Orgs : os[o] = "active" /\ us[u].org = o /\ ~us[u].deleted}

Active(os) == {o \in Orgs : os[o] = "active"}

TypeOK ==
    /\ orgs \in [Orgs -> {"absent", "active", "deleted"}]
    /\ users \in [Users -> UserRows]
    /\ orders \subseteq Orders
    /\ pc \in [Requests -> {"idle", "done"} \cup OrgRoute \cup AdminRoute]
    /\ caller \in [Requests -> Users \cup {None}]
    /\ claim \in [Requests -> Orgs \cup {None}]
    /\ ctx \in [Requests -> Orgs \cup {None}]
    /\ reply \in [Requests -> [code : Codes, orders : SUBSET Orders] \cup {NoReply}]
    /\ past \in [Requests -> Histories]
    \* the foreign keys, and the ids that requests hold, point at rows
    /\ \A u \in Users : users[u] # NoUser => orgs[users[u].org] # "absent"
    /\ \A x \in orders : orgs[x.org] # "absent"
    /\ \A r \in Requests :
          /\ pc[r] # "idle" => caller[r] # None
          /\ pc[r] \in {"member", "resolved"} => ctx[r] # None
          /\ ctx[r] # None => orgs[ctx[r]] # "absent"

Init ==
    /\ orgs \in [Orgs -> {"absent", "active"}]
    /\ users = [u \in Users |-> NoUser]
    /\ orders = {}
    /\ pc = [r \in Requests |-> "idle"]
    /\ caller = [r \in Requests |-> None]
    /\ claim = [r \in Requests |-> None]
    /\ ctx = [r \in Requests |-> None]
    /\ reply = [r \in Requests |-> NoReply]
    /\ past = [r \in Requests |-> NoPast]

-----------------------------------------------------------------------------
(* A request's life: ClerkAuth admits it, a middleware authorizes it, the  *)
(* handler runs its statements and replies.                                *)

Goto(r, label) == pc' = [pc EXCEPT ![r] = label]

Reply(r, code, rows) ==
    /\ Goto(r, "done")
    /\ reply' = [reply EXCEPT ![r] = [code |-> code, orders |-> rows]]
    /\ UNCHANGED <<caller, claim, ctx>>

\* A write replies with its code, or with a 500 when its result is lost.
Written(r, code) == Reply(r, code, {}) \/ Reply(r, "error", {})

\* ClerkAuth has verified a token; only the org routes look at its org_slug.
Begin(r) ==
    /\ pc[r] = "idle"
    /\ \E u \in Users : caller' = [caller EXCEPT ![r] = u]
    /\ \/ Goto(r, "org") /\ \E o \in Orgs \cup {None} : claim' = [claim EXCEPT ![r] = o]
       \/ Goto(r, "allowlist") /\ UNCHANGED claim
    /\ UNCHANGED <<tables, ctx, reply>>

\* A body or parameter that is refused before a statement (400), or a statement
\* that fails without effect (500): a lost connection, a context that ended.
Fail(r) ==
    /\ pc[r] \in {"org", "member", "admin", "resolved"}
    /\ Reply(r, "error", {})
    /\ UNCHANGED tables

End(r) ==
    /\ pc[r] = "done"
    /\ Goto(r, "idle")
    /\ caller' = [caller EXCEPT ![r] = None]
    /\ claim' = [claim EXCEPT ![r] = None]
    /\ ctx' = [ctx EXCEPT ![r] = None]
    /\ reply' = [reply EXCEPT ![r] = NoReply]
    /\ UNCHANGED tables

-----------------------------------------------------------------------------
(* Members: RequireOrgAccess, then one statement at most.                  *)

\* GetByClerkUserID joins the organization whether it is deleted or not.
Found(u) == users[u] # NoUser /\ ~users[u].deleted

Admit(r, o) ==
    /\ ctx' = [ctx EXCEPT ![r] = o]
    /\ Goto(r, "member")
    /\ UNCHANGED <<tables, caller, claim, reply>>

\* Wrong, for mutation: the token names the organization.
AuthorizeByClaim(r) ==
    /\ pc[r] = "org"
    /\ LET u == caller[r]
           o == IF claim[r] = None THEN users[u].org ELSE claim[r] IN
       IF Found(u) /\ orgs[o] = "active"
       THEN Admit(r, o)
       ELSE Reply(r, "forbidden", {}) /\ UNCHANGED tables

\* Wrong, for mutation: an inactive organization is let through.
AuthorizeInactive(r) ==
    /\ pc[r] = "org"
    /\ LET u == caller[r]
           o == users[u].org IN
       IF Found(u) /\ claim[r] \in {None, o}
       THEN Admit(r, o)
       ELSE Reply(r, "forbidden", {}) /\ UNCHANGED tables

\* Wrong, for mutation: a token without org_slug is refused (ClerkOrgScope).
AuthorizeClaimed(r) ==
    /\ pc[r] = "org"
    /\ LET u == caller[r]
           o == users[u].org IN
       IF Found(u) /\ orgs[o] = "active" /\ claim[r] = o
       THEN Admit(r, o)
       ELSE Reply(r, "forbidden", {}) /\ UNCHANGED tables

\* RequireOrgAccess: the local membership decides, org_slug only cross-checks it.
Authorize(r) ==
    /\ pc[r] = "org"
    /\ LET u == caller[r]
           o == users[u].org IN
       IF Found(u) /\ orgs[o] = "active" /\ claim[r] \in {None, o}
       THEN Admit(r, o)
       ELSE Reply(r, "forbidden", {}) /\ UNCHANGED tables

Inside(o) == {x \in orders : x.org = o}

Me(r) == pc[r] = "member" /\ Reply(r, "ok", {}) /\ UNCHANGED tables

\* The partial unique index refuses a second work order with the same number.
CreateOrder(r, n) ==
    /\ pc[r] = "member"
    /\ LET x == [org |-> ctx[r], number |-> n] IN
       IF x \in orders
       THEN Reply(r, "conflict", {}) /\ UNCHANGED tables
       ELSE /\ orders' = orders \cup {x}
            /\ Written(r, "created")
            /\ UNCHANGED <<orgs, users>>

ListOrders(r) == pc[r] = "member" /\ Reply(r, "listed", Inside(ctx[r])) /\ UNCHANGED tables

GetOrder(r, n) ==
    /\ pc[r] = "member"
    /\ LET x == [org |-> ctx[r], number |-> n] IN
       Reply(r, IF x \in orders THEN "found" ELSE "missing", {x})
    /\ UNCHANGED tables

Member(r) ==
    \/ Authorize(r) \/ Me(r) \/ ListOrders(r)
    \/ \E n \in Numbers : CreateOrder(r, n) \/ GetOrder(r, n)

-----------------------------------------------------------------------------
(* Admins: ClerkAdminAllowlist, then the statements of one admin route.    *)

Allow(r) ==
    /\ pc[r] = "allowlist"
    /\ IF caller[r] \in Admins
       THEN Goto(r, "admin") /\ UNCHANGED <<caller, claim, ctx, reply>>
       ELSE Reply(r, IF Admins = {} THEN "unavailable" ELSE "denied", {})
    /\ UNCHANGED tables

CreateOrg(r, o) ==
    /\ pc[r] = "admin"
    /\ IF orgs[o] = "absent"
       THEN orgs' = [orgs EXCEPT ![o] = "active"] /\ Written(r, "created")
       ELSE UNCHANGED orgs /\ Reply(r, "conflict", {})
    /\ UNCHANGED <<users, orders>>

\* PATCH finds deleted organizations too: `active' true revives one, false
\* deletes it (again), and without it the row keeps its deleted_at.
PatchOrg(r, o) ==
    /\ pc[r] = "admin"
    /\ IF orgs[o] = "absent"
       THEN UNCHANGED orgs /\ Reply(r, "not_found", {})
       ELSE /\ \E s \in {orgs[o], "active", "deleted"} : orgs' = [orgs EXCEPT ![o] = s]
            /\ Written(r, "ok")
    /\ UNCHANGED <<users, orders>>

\* Wrong, for mutation: the row is deleted.
DeleteOrgHard(r, o) ==
    /\ pc[r] = "admin"
    /\ IF orgs[o] = "active"
       THEN orgs' = [orgs EXCEPT ![o] = "absent"] /\ Written(r, "ok")
       ELSE UNCHANGED orgs /\ Reply(r, "not_found", {})
    /\ UNCHANGED <<users, orders>>

\* Wrong, for mutation: the work orders are deleted with their organization.
DeleteOrgCascading(r, o) ==
    /\ pc[r] = "admin"
    /\ IF orgs[o] = "active"
       THEN /\ orgs' = [orgs EXCEPT ![o] = "deleted"]
            /\ orders' = {x \in orders : x.org # o}
            /\ Written(r, "ok")
       ELSE UNCHANGED <<orgs, orders>> /\ Reply(r, "not_found", {})
    /\ UNCHANGED users

DeleteOrg(r, o) ==
    /\ pc[r] = "admin"
    /\ IF orgs[o] = "active"
       THEN orgs' = [orgs EXCEPT ![o] = "deleted"] /\ Written(r, "ok")
       ELSE UNCHANGED orgs /\ Reply(r, "not_found", {})
    /\ UNCHANGED <<users, orders>>

\* GET of an organization or a user, and the two lists.
ReadTables(r) ==
    /\ pc[r] = "admin"
    /\ \/ Reply(r, "ok", {})
       \/ /\ (\E o \in Orgs : orgs[o] # "active") \/ (\E u \in Users : ~Found(u))
          /\ Reply(r, "not_found", {})
    /\ UNCHANGED tables

\* Wrong, for mutation: GetBySlug finds deleted organizations.
ResolveAny(r, o) ==
    /\ pc[r] = "admin"
    /\ IF orgs[o] # "absent"
       THEN ctx' = [ctx EXCEPT ![r] = o] /\ Goto(r, "resolved") /\ UNCHANGED <<caller, claim, reply>>
       ELSE Reply(r, "not_found", {})
    /\ UNCHANGED tables

\* The first statement of users.Handler's Create and Update: GetBySlug.
Resolve(r, o) ==
    /\ pc[r] = "admin"
    /\ IF orgs[o] = "active"
       THEN ctx' = [ctx EXCEPT ![r] = o] /\ Goto(r, "resolved") /\ UNCHANGED <<caller, claim, reply>>
       ELSE Reply(r, "not_found", {})
    /\ UNCHANGED tables

\* Create's INSERT: clerk_user_id is unique among deleted users, too.
CreateUser(r, u) ==
    /\ pc[r] = "resolved"
    /\ IF users[u] = NoUser
       THEN /\ users' = [users EXCEPT ![u] = [org |-> ctx[r], deleted |-> FALSE]]
            /\ Written(r, "created")
       ELSE UNCHANGED users /\ Reply(r, "conflict", {})
    /\ UNCHANGED <<orgs, orders>>

\* Wrong, for mutation: the UPDATE does not ask for deleted_at IS NULL.
MoveUserUnfiltered(r, u) ==
    /\ pc[r] = "resolved"
    /\ IF users[u] # NoUser
       THEN users' = [users EXCEPT ![u].org = ctx[r]] /\ Written(r, "ok")
       ELSE UNCHANGED users /\ Reply(r, "not_found", {})
    /\ UNCHANGED <<orgs, orders>>

\* Update's UPDATE when the body names an organization.
MoveUser(r, u) ==
    /\ pc[r] = "resolved"
    /\ IF Found(u)
       THEN users' = [users EXCEPT ![u].org = ctx[r]] /\ Written(r, "ok")
       ELSE UNCHANGED users /\ Reply(r, "not_found", {})
    /\ UNCHANGED <<orgs, orders>>

\* Update without an organization: the names change, GetBySlug is not called.
RenameUser(r, u) ==
    /\ pc[r] = "admin"
    /\ IF Found(u) THEN Written(r, "ok") ELSE Reply(r, "not_found", {})
    /\ UNCHANGED tables

DeleteUser(r, u) ==
    /\ pc[r] = "admin"
    /\ IF Found(u)
       THEN users' = [users EXCEPT ![u].deleted = TRUE] /\ Written(r, "ok")
       ELSE UNCHANGED users /\ Reply(r, "not_found", {})
    /\ UNCHANGED <<orgs, orders>>

Admin(r) ==
    \/ Allow(r) \/ ReadTables(r)
    \/ \E o \in Orgs : CreateOrg(r, o) \/ PatchOrg(r, o) \/ DeleteOrg(r, o) \/ Resolve(r, o)
    \/ \E u \in Users :
          CreateUser(r, u) \/ MoveUser(r, u) \/ RenameUser(r, u) \/ DeleteUser(r, u)

-----------------------------------------------------------------------------
(* What was true when a request was checked.  On an org route: the         *)
(* organizations its caller belonged to at some moment (seen) and at every *)
(* moment (always) up to RequireOrgAccess's decision, and the work orders  *)
(* there when it began (before); on an admin route: the organizations that *)
(* were active at some moment (live) up to GetBySlug.                      *)

History(r) ==
    LET homes == Homes(orgs', users', caller'[r])
        live == Active(orgs') IN
    IF pc'[r] \in {"idle", "done"} THEN NoPast
    ELSE IF pc[r] = "idle" THEN
        IF pc'[r] = "org" THEN [NoPast EXCEPT !.seen = homes, !.always = homes, !.before = orders]
                          ELSE [NoPast EXCEPT !.live = live]
    ELSE IF pc[r] = "org" THEN [past[r] EXCEPT !.seen = @ \cup homes, !.always = @ \cap homes]
    ELSE IF pc[r] \in {"allowlist", "admin"} THEN [past[r] EXCEPT !.live = @ \cup live]
    ELSE past[r]

Remember == past' = [r \in Requests |-> History(r)]

Next ==
    /\ \E r \in Requests : Begin(r) \/ Fail(r) \/ End(r) \/ Member(r) \/ Admin(r)
    /\ Remember

Spec == Init /\ [][Next]_vars

-----------------------------------------------------------------------------
(* What must hold of tenancy.                                              *)

Ends(r) == pc[r] # "done" /\ pc'[r] = "done"

\* Whatever a member is shown comes from one organization, whose active member
\* the caller was at some moment between the request's start and its check, and
\* from no other, whatever the token names and wherever the caller is moved then.
ReadsStayInside ==
    [][\A r \in Requests : Ends(r) =>
          \A x \in reply'[r].orders :
              x.org = ctx[r] /\ x.org \in past[r].seen /\ claim[r] \in {None, x.org}]_vars

\* A work order is only ever created by a request whose caller was an active
\* member of its organization at some moment between the request's start and its
\* check, although user and organization may be gone when the INSERT runs.
WritesStayInside ==
    [][\A x \in orders' \ orders :
          \E r \in Requests : Ends(r) /\ x.org = ctx[r] /\ x.org \in past[r].seen]_vars

\* A work order that was there when a request began is listed, and never called
\* missing, by that request if it serves the order's organization: no deletion
\* and revival of the organization or of a user loses any.
StoredOrdersAreFound ==
    [][\A r \in Requests : Ends(r) =>
          \A x \in past[r].before :
              /\ reply'[r].code = "listed" /\ x.org = ctx[r] => x \in reply'[r].orders
              /\ reply'[r].code = "missing" => x \notin reply'[r].orders]_vars

\* A caller who is an active member of an organization from the request's start
\* to its check, and whose token names no other, is not refused.
MembersAreAdmitted ==
    [][\A r \in Requests : Ends(r) /\ reply'[r].code = "forbidden" =>
          \A o \in past[r].always : claim[r] \notin {None, o}]_vars

\* A deleted user stays deleted, and in the organization it was deleted from,
\* although updates and creations that began earlier may still write.
DeletedUsersStay ==
    [][\A u \in Users : users[u].deleted => users'[u] = users[u]]_vars

\* Users join an organization only by a request that saw it active: it was so at
\* some moment before GetBySlug answered, and may be gone when the row is written.
JoinedWhileActive ==
    [][\A u \in Users : users'[u].org # users[u].org =>
          \E r \in Requests : Ends(r) /\ users'[u].org \in past[r].live]_vars
=============================================================================

------------------------- MODULE MemberAcceptances -------------------------
(***************************************************************************)
(* The acceptance routes behind their middleware, as server.go puts them   *)
(* together: Tenancy decides who is admitted and to which organization,    *)
(* Acceptances serves the request for the organization it finds in the gin *)
(* context, and both write to one database.  While a submission renders    *)
(* and uploads, admins move and delete its caller and its organization.    *)
(***************************************************************************)
EXTENDS Tenancy

CONSTANTS
    WorkOrders, Payloads, Valid, Renderable, Ids, Prefixes,
    DBFails, StorageFails, Disconnects, Crashes

VARIABLES
    table, bucket, wire, arg, held, key, cause,
    call,    \* pc of Acceptances
    client,  \* ctx of Acceptances: whether the request's client is still there
    answer   \* reply of Acceptances

acceptances == <<table, bucket, wire, call, client, arg, held, key, cause, answer>>

system == <<vars, acceptances>>

A == INSTANCE Acceptances WITH pc <- call, ctx <- client, reply <- answer

ASSUME AcceptanceConstants ==
    /\ Renderable \subseteq Valid /\ Valid \subseteq Payloads
    /\ None \notin A!Rows \cup A!Docs \cup A!Keys \cup Ids
    /\ None \notin A!Submissions \cup A!Reads \cup A!Replies
    /\ None \notin A!Statuses \cup A!Causes
    /\ {DBFails, StorageFails, Disconnects, Crashes} \subseteq BOOLEAN

SystemInit == Init /\ A!Init

\* Wrong, for mutation: the settled acceptances of an organization are deleted with it.
ElsewhereCascading(r) ==
    /\ call[r] \in {"idle", "replied"}
    /\ Begin(r) \/ Fail(r) \/ End(r) \/ Member(r) \/ Admin(r)
    /\ Remember
    /\ table' = [i \in Ids |->
           IF table[i] # None /\ table[i].status # "pending" /\ orgs'[table[i].org] = "deleted"
           THEN None ELSE table[i]]
    /\ UNCHANGED <<bucket, wire, call, client, arg, held, key, cause, answer>>

\* The routes of Tenancy, and the middleware of all routes.  A goroutine serves one
\* acceptance request at most, and nothing else until that one has been answered.
Elsewhere(r) ==
    /\ call[r] \in {"idle", "replied"}
    /\ Begin(r) \/ Fail(r) \/ End(r) \/ Member(r) \/ Admin(r)
    /\ Remember
    /\ UNCHANGED acceptances

\* An answer of the acceptance handler ends the request.
Forward(r) ==
    IF call'[r] = "replied"
    THEN /\ Reply(r, IF answer'[r].code \in {"accepted", "ok"} THEN "ok" ELSE "error", {})
         /\ UNCHANGED tables
         /\ Remember
    ELSE UNCHANGED vars

\* The handlers take the organization that RequireOrgAccess left in the gin context.
Enter(r) ==
    /\ pc[r] = "member"
    /\ A!Submit(r) \/ A!Read(r)
    /\ arg'[r].org = ctx[r]
    /\ Forward(r)

Serve(r) == A!Step(r) /\ Forward(r)

Around ==
    /\ \/ \E r \in Requests : A!Disconnect(r)
       \/ \E m \in wire : A!BucketAccepts(m)
       \/ A!Crash
    /\ UNCHANGED vars

SystemNext ==
    \/ \E r \in Requests : Elsewhere(r) \/ Enter(r) \/ Serve(r)
    \/ Around

System == SystemInit /\ [][SystemNext]_system

-----------------------------------------------------------------------------
(* What must hold of the two together.                                     *)

GetsAnswer(r) == answer[r] = None /\ answer'[r] # None

\* The organizations whose acceptances an answer shows, in the table t.
Shown(a, t) ==
    IF a.doc # None THEN {a.doc.org} ELSE IF a.id # None THEN {t[a.id].org} ELSE {}

\* Every acceptance, status and document that is shown to a caller belongs to an
\* organization whose active member the caller was at some moment between the
\* request's start and its check, wherever the caller has been moved since, whatever
\* the token says, and although the id that was asked for came from the client.
AnswersStayInside ==
    [][\A r \in Requests : GetsAnswer(r) =>
          \A o \in Shown(answer'[r], table') :
              o \in past[r].seen /\ claim[r] \in {None, o}]_system

\* An acceptance is only ever created by a request whose caller was an active member
\* of its organization at some moment between the request's start and its check.
AcceptancesComeFromMembers ==
    [][\A i \in Ids : table[i] = None /\ table'[i] # None =>
          \E r \in Requests : call[r] = "create" /\ table'[i].org \in past[r].seen]_system

\* Whatever admins delete and revive meanwhile, every acceptance, and every
\* acceptance under way, belongs to an organization that has a row.
AcceptancesHaveOrgs ==
    /\ \A i \in Ids : table[i] # None => orgs[table[i].org] # "absent"
    /\ \A r \in Requests : call[r] \in A!Active => orgs[arg[r].org] # "absent"

\* An acceptance that somebody was told of is found by every later caller who is
\* admitted to the same organization, whoever was moved and whatever was deleted and
\* revived in between.
MembersFindTheirAcceptances ==
    [][\A q, r \in Requests :
          /\ answer[q] # None /\ answer[q].code = "accepted"
          /\ call[r] = "find" /\ arg[r].id = answer[q].id /\ ctx[r] = arg[q].org
          /\ GetsAnswer(r)
          => answer'[r].code # "not_found"]_system

\* With the acceptance routes added, organizations, users and work orders still
\* behave as Tenancy says.
ImplementsTenancy == Spec

\* Behind its middleware the acceptance service still behaves as Acceptances says.
ImplementsAcceptances == A!Spec
=============================================================================

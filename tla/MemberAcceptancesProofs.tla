---------------------- MODULE MemberAcceptancesProofs ----------------------
(***************************************************************************)
(* The acceptance routes behind their middleware, for every value of the   *)
(* constants.  Tenancy and Acceptances have been proved about already: a   *)
(* behaviour of the system is a behaviour of each, so the invariants of    *)
(* both hold, and what remains is what ties a handler to its membership.   *)
(***************************************************************************)
EXTENDS MemberAcceptances, TenancyProofs

P == INSTANCE AcceptancesProofs WITH pc <- call, ctx <- client, reply <- answer

-----------------------------------------------------------------------------
(* P is A with its proofs.                                                 *)

LEMMA SameInit == A!Init <=> P!Init
  BY DEF A!Init, P!Init, A!Keys, P!Keys

LEMMA SameNext == A!Next <=> P!Next
  BY DEF A!Submit, A!Read, A!Step, A!Lookup, A!Create, A!Reread, A!Render, A!StartUpload,
     A!FinishUpload, A!MarkPDFGenerated, A!MarkPDFFailed, A!FindNothing, A!GetStatus,
     A!GetPDF, A!Download, A!Disconnect, A!Crash, A!BucketAccepts, A!Next, A!vars, A!Goto,
     A!Answer, A!Locals, A!Completes, A!Fails, A!ResultLost, A!ForWorkOrder, A!Stored,
     A!NewRow, A!Insert, A!UploadFailed, A!Rendered, A!Plain, A!Accepted, A!Mark,
     A!RefuseText, A!Storable, A!Errors, A!Visible, A!HasPDF, A!Active, A!Working,
     A!Submissions, A!Reads, A!Keys, A!Docs, A!Rows, A!Statuses, A!Causes, A!Posts, A!Codes, A!Replies, P!Submit, P!Read, P!Step,
     P!Lookup, P!Create, P!Reread, P!Render, P!StartUpload, P!FinishUpload,
     P!MarkPDFGenerated, P!MarkPDFFailed, P!FindNothing, P!GetStatus, P!GetPDF, P!Download,
     P!Disconnect, P!Crash, P!BucketAccepts, P!Next, P!vars, P!Goto, P!Answer, P!Locals,
     P!Completes, P!Fails, P!ResultLost, P!ForWorkOrder, P!Stored, P!NewRow, P!Insert,
     P!UploadFailed, P!Rendered, P!Plain, P!Accepted, P!Mark, P!RefuseText,
     P!Storable, P!Errors, P!Visible, P!HasPDF, P!Active, P!Working, P!Submissions, P!Reads,
     P!Keys, P!Docs, P!Rows, P!Statuses, P!Causes, P!Posts, P!Codes, P!Replies

LEMMA ConstantsAreFit == P!ValidPayloads /\ P!NoneIsNoData /\ P!FaultSwitches
  BY AcceptanceConstants DEF P!ValidPayloads, P!NoneIsNoData, P!FaultSwitches,
     A!Rows, A!Docs, A!Keys, A!Submissions, A!Reads, A!Replies, A!Statuses, A!Causes,
     A!Errors, P!Errors, A!Codes, A!Posts, P!Rows, P!Docs, P!Keys, P!Submissions,
     P!Reads, P!Replies, P!Statuses, P!Causes, P!Codes, P!Posts

LEMMA AcceptancesInitially == SystemInit => P!IInv
  BY SameInit, ConstantsAreFit, P!Initially DEF SystemInit

-----------------------------------------------------------------------------
(* What ties the two together: while a handler runs, its request is past   *)
(* RequireOrgAccess and works for the organization found there.            *)

Coupled(r) == call[r] \in P!Active => pc[r] = "member" /\ arg[r].org = ctx[r]

HaveOrgs == \A i \in Ids : table[i] # None => orgs[table[i].org] # "absent"

SystemInv ==
    /\ IInv
    /\ P!IInv
    /\ \A r \in Requests : Coupled(r)
    /\ HaveOrgs

\* A step of a handler belongs to one request, which is not idle, and keeps what it
\* was asked for.
Handles(r) ==
    /\ call[r] \in P!Active
    /\ arg' = arg
    /\ \A q \in Requests \ {r} : call'[q] = call[q] /\ answer'[q] = answer[q]
    /\ call'[r] = "replied" \/ answer'[r] = answer[r]

LEMMA StepHandles == ASSUME P!TypeOK, NEW r \in Requests, A!Step(r) PROVE Handles(r)
  <1>1. CASE A!Lookup(r)
    BY <1>1 DEF A!Lookup, Handles, A!Goto, A!Answer, A!Locals, P!Active, P!TypeOK
  <1>2. CASE A!Create(r)
    BY <1>2 DEF A!Create, Handles, A!Goto, A!Answer, P!Active, P!TypeOK
  <1>3. CASE A!Reread(r)
    BY <1>3 DEF A!Reread, Handles, A!Goto, A!Answer, A!Locals, P!Active, P!TypeOK
  <1>4. CASE A!Render(r)
    BY <1>4 DEF A!Render, Handles, A!Goto, P!Active, P!Working, P!TypeOK
  <1>5. CASE A!StartUpload(r) \/ A!FinishUpload(r)
    BY <1>5 DEF A!StartUpload, A!FinishUpload, A!UploadFailed, Handles, A!Goto, P!Active,
       P!Working, P!TypeOK
  <1>6. CASE A!MarkPDFGenerated(r) \/ A!MarkPDFFailed(r)
    <2>1. call[r] \in P!Active /\ arg' = arg
      BY <1>6 DEF A!MarkPDFGenerated, A!MarkPDFFailed, A!Locals, P!Active, P!Working
    <2>2. \E a : A!Answer(r, a)
      BY <1>6 DEF A!MarkPDFGenerated, A!MarkPDFFailed, A!RefuseText, A!Mark
    <2> QED
      BY <2>1, <2>2 DEF Handles, A!Goto, A!Answer, P!TypeOK
  <1>7. CASE A!FindNothing(r)
    BY <1>7 DEF A!FindNothing, Handles, A!Goto, A!Answer, A!Locals, P!Active, P!TypeOK
  <1>8. CASE A!GetStatus(r)
    <2>1. call[r] \in P!Active /\ arg' = arg /\ \E a : A!Answer(r, a)
      BY <1>8 DEF A!GetStatus, A!Locals, P!Active
    <2> QED
      BY <2>1 DEF Handles, A!Goto, A!Answer, P!TypeOK
  <1>9. CASE A!GetPDF(r)
    BY <1>9 DEF A!GetPDF, Handles, A!Goto, A!Answer, P!Active, P!TypeOK
  <1>10. CASE A!Download(r)
    <2>1. call[r] \in P!Active /\ arg' = arg /\ \E a : A!Answer(r, a)
      BY <1>10 DEF A!Download, A!Locals, P!Active
    <2> QED
      BY <2>1 DEF Handles, A!Goto, A!Answer, P!TypeOK
  <1> QED
    BY <1>1, <1>2, <1>3, <1>4, <1>5, <1>6, <1>7, <1>8, <1>9, <1>10 DEF A!Step

\* The request that enters a handler is idle there, and alone moves.
LEMMA EnterHandles ==
    ASSUME P!TypeOK, NEW r \in Requests, Enter(r)
    PROVE  /\ call[r] = "idle" /\ call'[r] \in P!Active \cup {"replied"}
           /\ UNCHANGED table
           /\ \A q \in Requests \ {r} :
                 call'[q] = call[q] /\ arg'[q] = arg[q] /\ answer'[q] = answer[q]
  <1>1. CASE A!Submit(r)
    BY <1>1 DEF A!Submit, A!Goto, A!Answer, P!Active, P!TypeOK
  <1>2. CASE A!Read(r)
    BY <1>2 DEF A!Read, A!Goto, P!Active, P!TypeOK
  <1> QED
    BY <1>1, <1>2 DEF Enter

-----------------------------------------------------------------------------
(* Every step is a step of each part.                                      *)

LEMMA AcceptancesMove == ASSUME [SystemNext]_system PROVE [P!Next]_P!vars
  <1>1. CASE UNCHANGED acceptances
    BY <1>1 DEF acceptances, P!vars
  <1>2. CASE A!Next
    BY <1>2, SameNext
  <1>3. ASSUME NEW r \in Requests, Enter(r) \/ Serve(r) PROVE A!Next
    BY <1>3 DEF Enter, Serve, A!Next
  <1>4. ASSUME Around PROVE A!Next
    BY <1>4 DEF Around, A!Next
  <1> QED
    BY <1>1, <1>2, <1>3, <1>4 DEF SystemNext, Elsewhere, system

\* Past its middleware, a request goes on or is replied to.
LEMMA ForwardMoves ==
    ASSUME NEW r \in Requests, pc[r] = "member", Forward(r)
    PROVE  \/ call'[r] # "replied" /\ UNCHANGED vars
           \/ call'[r] = "replied" /\ Step(r) /\ Remember /\ UNCHANGED <<tables, ctx>>
  <1>1. CASE call'[r] = "replied"
    <2>1. /\ Reply(r, "ok", {}) \/ Reply(r, "error", {})
          /\ Remember /\ UNCHANGED tables
      BY <1>1 DEF Forward
    <2>2. Me(r) \/ Fail(r)
      BY <2>1 DEF Me, Fail
    <2>3. UNCHANGED ctx
      BY <2>1 DEF Reply
    <2> QED
      BY <1>1, <2>1, <2>2, <2>3 DEF Step, Member
  <1>2. CASE call'[r] # "replied"
    BY <1>2 DEF Forward
  <1> QED
    BY <1>1, <1>2

\* What a step is to Tenancy, given that handlers are behind their middleware.
LEMMA SystemMoves ==
    ASSUME SystemInv, [SystemNext]_system
    PROVE  \/ UNCHANGED vars
           \/ \E r \in Requests : Step(r) /\ Remember
  <1>1. ASSUME NEW r \in Requests, Elsewhere(r) PROVE Step(r) /\ Remember
    BY <1>1 DEF Elsewhere, Step
  <1>2. ASSUME NEW r \in Requests, Enter(r) \/ Serve(r)
        PROVE  pc[r] = "member" /\ Forward(r)
    <2>1. CASE Enter(r)
      BY <2>1 DEF Enter
    <2>2. CASE Serve(r)
      <3>1. call[r] \in P!Active
        <4>1. P!TypeOK /\ A!Step(r)
          BY <2>2 DEF Serve, SystemInv, P!IInv
        <4> QED
          BY <4>1, StepHandles DEF Handles
      <3> QED
        BY <2>2, <3>1 DEF Serve, SystemInv, Coupled
    <2> QED
      BY <1>2, <2>1, <2>2
  <1>3. ASSUME NEW r \in Requests, Enter(r) \/ Serve(r)
        PROVE  UNCHANGED vars \/ (Step(r) /\ Remember)
    BY <1>2, <1>3, ForwardMoves
  <1>4. Around => UNCHANGED vars
    BY DEF Around
  <1>5. UNCHANGED system => UNCHANGED vars
    BY DEF system
  <1> QED
    BY <1>1, <1>3, <1>4, <1>5 DEF SystemNext

LEMMA TenancyMoves == ASSUME SystemInv, [SystemNext]_system PROVE [Next]_vars
  BY SystemMoves DEF Next, Step

\* Rows of organizations stay, and so do acceptances with their organizations.
LEMMA NothingIsLost ==
    ASSUME SystemInv, [SystemNext]_system
    PROVE  /\ \A o \in Orgs : orgs[o] # "absent" => orgs'[o] # "absent"
           /\ \A i \in Ids : table[i] # None => table'[i] # None /\ table'[i].org = table[i].org
  <1>1. \A o \in Orgs : orgs[o] # "absent" => orgs'[o] # "absent"
    <2>1. CASE UNCHANGED vars
      BY <2>1 DEF vars, tables
    <2>2. ASSUME NEW r \in Requests, Step(r), Remember
          PROVE  \A o \in Orgs : orgs[o] # "absent" => orgs'[o] # "absent"
      BY <2>2, StepKeeps DEF SystemInv, Respects
    <2> QED
      BY <2>1, <2>2, SystemMoves
  <1>2. ASSUME NEW i \in Ids, table[i] # None
        PROVE  table'[i] # None /\ table'[i].org = table[i].org
    <2>1. i \in P!Stored
      BY <1>2 DEF P!Stored
    <2>2. P!IInv /\ [P!Next]_P!vars
      BY AcceptancesMove DEF SystemInv
    <2>3. table'[i] # None /\ P!Rendered(i)' = P!Rendered(i)
      BY <2>1, <2>2, P!TableKept, ConstantsAreFit
    <2> QED
      BY <2>3 DEF P!Rendered
  <1> QED
    BY <1>1, <1>2

\* Where an acceptance comes from.
LEMMA NewAcceptances ==
    ASSUME SystemInv, [SystemNext]_system, NEW i \in Ids, table[i] = None, table'[i] # None
    PROVE  \E r \in Requests : call[r] = "create" /\ pc[r] = "member" /\ table'[i].org = ctx[r]
  <1>1. P!IInv /\ [P!Next]_P!vars
    BY AcceptancesMove DEF SystemInv
  <1>2. table' # table
    OBVIOUS
  <1>3. P!Inserts \/ P!Settles
    BY <1>1, <1>2, P!StepShapes, ConstantsAreFit DEF P!Stores
  <1>4. CASE P!Inserts
    <2>1. PICK r \in Requests, j \in Ids : call[r] = "create" /\ P!Insert(r, j)
      BY <1>4 DEF P!Inserts
    <2>2. table' = [table EXCEPT ![j] = P!NewRow(r)] /\ table \in [Ids -> P!Rows \cup {None}]
      BY <1>1, <2>1 DEF P!Insert, P!IInv, P!TypeOK
    <2>3. i = j /\ table'[i] = P!NewRow(r)
      BY <2>2
    <2>4. table'[i].org = arg[r].org
      BY <2>3 DEF P!NewRow
    <2>5. call[r] \in P!Active
      BY <2>1 DEF P!Active
    <2> QED
      BY <2>1, <2>4, <2>5 DEF SystemInv, Coupled
  <1>5. CASE P!Settles
    <2>1. PICK r \in Requests, row \in P!Rows :
              call[r] \in P!Working /\ table' = [table EXCEPT ![held[r]] = row]
      BY <1>5 DEF P!Settles
    <2>2. table[held[r]] # None /\ held[r] \in Ids
      BY <1>1, <2>1, P!HeldRow, ConstantsAreFit DEF P!Stored
    <2>3. table'[i] = table[i]
      BY <1>1, <2>1, <2>2 DEF P!IInv, P!TypeOK
    <2> QED
      BY <2>3
  <1> QED
    BY <1>3, <1>4, <1>5

-----------------------------------------------------------------------------
(* The invariant.                                                          *)

LEMMA SystemInitially == SystemInit => SystemInv
  <1> SUFFICES ASSUME SystemInit PROVE SystemInv
    OBVIOUS
  <1>1. IInv /\ P!IInv
    BY Initially, AcceptancesInitially DEF SystemInit
  <1>2. \A r \in Requests : call[r] = "idle"
    BY DEF SystemInit, A!Init
  <1>3. \A i \in Ids : table[i] = None
    BY DEF SystemInit, A!Init
  <1> QED
    BY <1>1, <1>2, <1>3 DEF SystemInv, Coupled, HaveOrgs, P!Active, P!Working

\* Where a request is past its middleware, and what its step leaves to the others.
LEMMA OthersStay ==
    ASSUME IInv, NEW q \in Requests, pc[q] = "member", Forward(q)
    PROVE  \A r \in Requests \ {q} : pc'[r] = pc[r] /\ ctx'[r] = ctx[r]
  <1>1. CASE UNCHANGED vars
    BY <1>1 DEF vars
  <1>2. CASE Step(q) /\ Remember
    BY <1>2, StepKeeps DEF Only
  <1> QED
    BY <1>1, <1>2, ForwardMoves

LEMMA ServingIsCoupled ==
    ASSUME SystemInv, NEW q \in Requests, Serve(q)
    PROVE  Handles(q) /\ pc[q] = "member" /\ arg[q].org = ctx[q] /\ Forward(q)
  <1>1. P!TypeOK /\ A!Step(q) /\ Forward(q)
    BY DEF Serve, SystemInv, P!IInv
  <1>2. Handles(q)
    BY <1>1, StepHandles
  <1> QED
    BY <1>1, <1>2 DEF Handles, SystemInv, Coupled

LEMMA CoupledKeeps ==
    ASSUME SystemInv, [SystemNext]_system, NEW r \in Requests
    PROVE  Coupled(r)'
  <1>0. IInv /\ P!TypeOK /\ Coupled(r)
    BY DEF SystemInv, P!IInv
  <1>1. ASSUME NEW q \in Requests, Elsewhere(q) PROVE Coupled(r)'
    <2>1. call' = call /\ arg' = arg /\ call[q] \in {"idle", "replied"}
      BY <1>1 DEF Elsewhere, acceptances
    <2>2. CASE q = r
      BY <2>1, <2>2 DEF Coupled, P!Active, P!Working
    <2>3. CASE q # r
      <3>1. Step(q) /\ Remember
        BY <1>1 DEF Elsewhere, Step
      <3>2. pc'[r] = pc[r] /\ ctx'[r] = ctx[r]
        BY <1>0, <2>3, <3>1, StepKeeps DEF Only
      <3> QED
        BY <1>0, <2>1, <3>2 DEF Coupled
    <2> QED
      BY <2>2, <2>3
  <1>2. ASSUME NEW q \in Requests, Enter(q) PROVE Coupled(r)'
    <2>1. pc[q] = "member" /\ arg'[q].org = ctx[q] /\ Forward(q)
      BY <1>2 DEF Enter
    <2>2. CASE q = r
      <3>1. CASE call'[r] = "replied"
        BY <3>1 DEF Coupled, P!Active, P!Working
      <3>2. CASE call'[r] # "replied"
        BY <2>1, <2>2, <3>2 DEF Forward, vars, Coupled
      <3> QED
        BY <3>1, <3>2
    <2>3. CASE q # r
      <3>1. call'[r] = call[r] /\ arg'[r] = arg[r]
        BY <1>0, <1>2, <2>3, EnterHandles
      <3>2. pc'[r] = pc[r] /\ ctx'[r] = ctx[r]
        BY <1>0, <2>1, <2>3, OthersStay
      <3> QED
        BY <1>0, <3>1, <3>2 DEF Coupled
    <2> QED
      BY <2>2, <2>3
  <1>3. ASSUME NEW q \in Requests, Serve(q) PROVE Coupled(r)'
    <2>1. Handles(q) /\ pc[q] = "member" /\ arg[q].org = ctx[q] /\ Forward(q)
      BY <1>3, ServingIsCoupled
    <2>2. CASE q = r
      <3>1. CASE call'[r] = "replied"
        BY <3>1 DEF Coupled, P!Active, P!Working
      <3>2. CASE call'[r] # "replied"
        BY <2>1, <2>2, <3>2 DEF Forward, vars, Coupled, Handles
      <3> QED
        BY <3>1, <3>2
    <2>3. CASE q # r
      <3>1. call'[r] = call[r] /\ arg'[r] = arg[r]
        BY <2>1, <2>3 DEF Handles
      <3>2. pc'[r] = pc[r] /\ ctx'[r] = ctx[r]
        BY <1>0, <2>1, <2>3, OthersStay
      <3> QED
        BY <1>0, <3>1, <3>2 DEF Coupled
    <2> QED
      BY <2>2, <2>3
  <1>4. CASE Around
    <2>1. UNCHANGED <<pc, ctx, arg>>
      BY <1>4 DEF Around, vars, A!Disconnect, A!BucketAccepts, A!Crash, A!Locals
    <2>2. call'[r] = call[r] \/ call'[r] = "lost"
      BY <1>0, <1>4 DEF Around, A!Disconnect, A!BucketAccepts, A!Crash
    <2> QED
      BY <1>0, <2>1, <2>2 DEF Coupled, P!Active, P!Working
  <1>5. CASE UNCHANGED system
    BY <1>0, <1>5 DEF system, vars, acceptances, Coupled
  <1> QED
    BY <1>1, <1>2, <1>3, <1>4, <1>5 DEF SystemNext

LEMMA HaveOrgsKeeps ==
    ASSUME SystemInv, [SystemNext]_system
    PROVE  HaveOrgs'
  <1> SUFFICES ASSUME NEW i \in Ids, table'[i] # None
               PROVE  orgs'[table'[i].org] # "absent"
    BY DEF HaveOrgs
  <1>1. CASE table[i] # None
    <2>1. table[i] \in P!Rows
      BY <1>1 DEF SystemInv, P!IInv, P!TypeOK
    <2>2. table[i].org \in Orgs
      BY <2>1 DEF P!Rows
    <2> QED
      BY <1>1, <2>2, NothingIsLost DEF SystemInv, HaveOrgs
  <1>2. CASE table[i] = None
    <2>1. PICK r \in Requests : pc[r] = "member" /\ table'[i].org = ctx[r]
      BY <1>2, NewAcceptances
    <2>2. ctx[r] \in Orgs /\ orgs[ctx[r]] # "absent"
      BY <2>1 DEF SystemInv, IInv, TypeOK
    <2> QED
      BY <2>1, <2>2, NothingIsLost
  <1> QED
    BY <1>1, <1>2

LEMMA SystemKeeps == ASSUME SystemInv, [SystemNext]_system PROVE SystemInv'
  <1>1. IInv'
    BY TenancyMoves, NextKeeps DEF SystemInv
  <1>2. P!IInv'
    BY AcceptancesMove, P!NextKeeps, ConstantsAreFit DEF SystemInv
  <1>3. \A r \in Requests : Coupled(r)'
    BY CoupledKeeps
  <1> QED
    BY <1>1, <1>2, <1>3, HaveOrgsKeeps DEF SystemInv

LEMMA SystemInvariance == System => []SystemInv
  BY SystemInitially, SystemKeeps, PTL DEF System

-----------------------------------------------------------------------------
\* Every acceptance, and every acceptance under way, belongs to an organization
\* that has a row, deleted or not.
THEOREM NoAcceptanceIsOrphaned == System => []AcceptancesHaveOrgs
  <1>1. ASSUME SystemInv PROVE AcceptancesHaveOrgs
    <2>1. ASSUME NEW r \in Requests, call[r] \in A!Active PROVE orgs[arg[r].org] # "absent"
      <3>1. call[r] \in P!Active
        BY <2>1 DEF A!Active, A!Working, P!Active, P!Working
      <3>2. pc[r] = "member" /\ arg[r].org = ctx[r]
        BY <1>1, <3>1 DEF SystemInv, Coupled
      <3> QED
        BY <1>1, <3>2 DEF SystemInv, IInv, TypeOK
    <2> QED
      BY <1>1, <2>1 DEF SystemInv, HaveOrgs, AcceptancesHaveOrgs
  <1> QED
    BY <1>1, SystemInvariance, PTL

\* An answer goes to a request past its middleware, for the organization found there.
LEMMA Answering ==
    ASSUME SystemInv, [SystemNext]_system, NEW r \in Requests, GetsAnswer(r)
    PROVE  /\ Serve(r) \/ (Enter(r) /\ call[r] = "idle")
           /\ pc[r] = "member" /\ arg'[r].org = ctx[r]
  <1>0. P!TypeOK
    BY DEF SystemInv, P!IInv
  <1>1. ASSUME NEW q \in Requests, Elsewhere(q) PROVE FALSE
    BY <1>1 DEF Elsewhere, acceptances, GetsAnswer
  <1>2. ASSUME NEW q \in Requests, Enter(q) PROVE q = r /\ call[q] = "idle"
    BY <1>0, <1>2, EnterHandles DEF GetsAnswer
  <1>3. ASSUME NEW q \in Requests, Serve(q) PROVE q = r
    BY <1>3, ServingIsCoupled DEF Handles, GetsAnswer
  <1>4. ~Around
    BY DEF Around, A!Disconnect, A!BucketAccepts, A!Crash, GetsAnswer
  <1>5. ~UNCHANGED system
    BY DEF system, acceptances, GetsAnswer
  <1>6. Serve(r) \/ (Enter(r) /\ call[r] = "idle")
    BY <1>1, <1>2, <1>3, <1>4, <1>5 DEF SystemNext
  <1>7. CASE Enter(r)
    BY <1>6, <1>7 DEF Enter
  <1>8. CASE Serve(r)
    BY <1>6, <1>8, ServingIsCoupled DEF Handles
  <1> QED
    BY <1>6, <1>7, <1>8

\* Whatever is shown to a caller belongs to an organization whose active member the
\* caller was when the request was checked.
THEOREM AnswersAreIsolated == System => AnswersStayInside
  <1> DEFINE Inner == \A r \in Requests : GetsAnswer(r) =>
          \A o \in Shown(answer'[r], table') :
              o \in past[r].seen /\ claim[r] \in {None, o}
  <1>1. ASSUME SystemInv, [SystemNext]_system, NEW r \in Requests, GetsAnswer(r),
               NEW o \in Shown(answer'[r], table')
        PROVE  o \in past[r].seen /\ claim[r] \in {None, o}
    <2>1. pc[r] = "member" /\ arg'[r].org = ctx[r]
      BY <1>1, Answering
    <2>2. P!Answered(r)'
      BY <1>1, SystemKeeps DEF SystemInv, P!IInv, P!Request
    <2>3. o = arg'[r].org
      <3>1. answer'[r] # None
        BY <1>1 DEF GetsAnswer
      <3>2. CASE answer'[r].doc # None
        BY <1>1, <2>2, <3>1, <3>2 DEF P!Answered, P!Rendered, Shown
      <3>3. CASE answer'[r].doc = None
        BY <1>1, <2>2, <3>1, <3>3 DEF P!Answered, Shown
      <3> QED
        BY <3>2, <3>3
    <2>4. Recorded(r)
      BY <1>1 DEF SystemInv, IInv
    <2> QED
      BY <2>1, <2>3, <2>4 DEF Recorded
  <1>2. SystemInv /\ [SystemNext]_system => [Inner]_system
    BY <1>1
  <1> QED
    BY <1>2, SystemInvariance, PTL DEF System, AnswersStayInside

\* Only members create acceptances.
THEOREM MembersCreate == System => AcceptancesComeFromMembers
  <1> DEFINE Inner == \A i \in Ids : table[i] = None /\ table'[i] # None =>
          \E r \in Requests : call[r] = "create" /\ table'[i].org \in past[r].seen
  <1>1. ASSUME SystemInv, [SystemNext]_system, NEW i \in Ids,
               table[i] = None, table'[i] # None
        PROVE  \E r \in Requests : call[r] = "create" /\ table'[i].org \in past[r].seen
    <2>1. PICK r \in Requests : call[r] = "create" /\ pc[r] = "member" /\ table'[i].org = ctx[r]
      BY <1>1, NewAcceptances
    <2>2. Recorded(r)
      BY <1>1 DEF SystemInv, IInv
    <2> QED
      BY <2>1, <2>2 DEF Recorded
  <1>2. SystemInv /\ [SystemNext]_system => [Inner]_system
    BY <1>1
  <1> QED
    BY <1>2, SystemInvariance, PTL DEF System, AcceptancesComeFromMembers

\* An acceptance that somebody was told of is there for every later caller who is
\* admitted to its organization.
THEOREM AcceptancesAreFound == System => MembersFindTheirAcceptances
  <1> DEFINE Inner == \A q, r \in Requests :
          /\ answer[q] # None /\ answer[q].code = "accepted"
          /\ call[r] = "find" /\ arg[r].id = answer[q].id /\ ctx[r] = arg[q].org
          /\ GetsAnswer(r)
          => answer'[r].code # "not_found"
  <1>1. ASSUME SystemInv, [SystemNext]_system, NEW q \in Requests, NEW r \in Requests,
               answer[q] # None, answer[q].code = "accepted", call[r] = "find",
               arg[r].id = answer[q].id, ctx[r] = arg[q].org, GetsAnswer(r)
        PROVE  answer'[r].code # "not_found"
    <2>1. A!Step(r) /\ arg[r].org = ctx[r]
      <3>1. Serve(r)
        BY <1>1, Answering
      <3> QED
        BY <1>1, <3>1, ServingIsCoupled DEF Serve
    <2>2. P!Answered(q) /\ P!TypeOK
      BY <1>1 DEF SystemInv, P!IInv, P!Request
    <2>3. arg[r].id \in A!Visible(r)
      BY <1>1, <2>1, <2>2 DEF P!Answered, P!Stored, A!Visible, A!Stored
    <2>4. A!FindNothing(r) \/ A!GetStatus(r) \/ A!GetPDF(r)
      BY <1>1, <2>1 DEF A!Step, A!Lookup, A!Create, A!Reread, A!Render, A!StartUpload,
         A!FinishUpload, A!MarkPDFGenerated, A!MarkPDFFailed, A!Download
    <2>5. ASSUME NEW a, A!Answer(r, a) PROVE answer'[r] = a
      BY <2>2, <2>5 DEF A!Answer, P!TypeOK
    <2>6. CASE A!FindNothing(r)
      BY <2>3, <2>5, <2>6 DEF A!FindNothing, A!Plain
    <2>7. CASE A!GetStatus(r)
      <3>1. PICK i \in A!Visible(r) : answer'[r] =
                [A!Plain("ok") EXCEPT !.id = i, !.status = table[i].status, !.url = A!HasPDF(i)]
        BY <2>5, <2>7 DEF A!GetStatus
      <3> QED
        BY <3>1 DEF A!Plain
    <2>8. CASE A!GetPDF(r)
      BY <1>1, <2>5, <2>8 DEF A!GetPDF, A!Plain, GetsAnswer
    <2> QED
      BY <2>4, <2>6, <2>7, <2>8
  <1>2. SystemInv /\ [SystemNext]_system => [Inner]_system
    BY <1>1
  <1> QED
    BY <1>2, SystemInvariance, PTL DEF System, MembersFindTheirAcceptances

\* With the acceptance routes added, every behaviour is one of Tenancy.
THEOREM TenancyIsKept == System => ImplementsTenancy
  BY SystemInvariance, TenancyMoves, PTL DEF System, SystemInit, ImplementsTenancy, Spec

\* Every behaviour of the acceptance routes is one of Acceptances, and therefore,
\* by its Refinement, one of AcceptanceRegister.
THEOREM AcceptancesAreKept == System => ImplementsAcceptances
  <1>1. ASSUME [SystemNext]_system PROVE [A!Next]_A!vars
    BY <1>1, AcceptancesMove, SameNext DEF A!vars, P!vars
  <1> QED
    BY <1>1, PTL DEF System, SystemInit, ImplementsAcceptances, A!Spec

\* What is proved of the acceptance service is therefore true of it behind its
\* middleware, while members are moved and organizations deleted: it is a register,
\* with one acceptance for a work order, settled once, whose PDF is there when it is
\* said to be, and is served for a generated acceptance only.
THEOREM ServiceKeepsItsPromises ==
    System => /\ P!ImplementsRegister
              /\ []P!OneAcceptancePerWorkOrder
              /\ []P!GeneratedIsStored
              /\ []P!ServedIsGenerated
              /\ P!SettledForever
              /\ P!ReadyStaysReady
  <1>1. ASSUME [SystemNext]_system PROVE [P!Next]_P!vars
    BY <1>1, AcceptancesMove DEF P!vars
  <1>2. SystemInit => P!Init
    BY SameInit DEF SystemInit
  <1>3. System => P!Spec
    BY <1>1, <1>2, PTL DEF System, P!Spec
  <1>4. P!Spec => P!ImplementsRegister
    BY ConstantsAreFit, P!Refinement
  <1>5. P!Spec => []P!OneAcceptancePerWorkOrder
    BY ConstantsAreFit, P!AtMostOneAcceptance
  <1>6. P!Spec => []P!GeneratedIsStored
    BY ConstantsAreFit, P!GeneratedMeansStored
  <1>7. P!Spec => []P!ServedIsGenerated
    BY ConstantsAreFit, P!OnlyGeneratedIsServed
  <1>8. P!Spec => P!SettledForever
    BY ConstantsAreFit, P!Settlement
  <1>9. P!Spec => P!ReadyStaysReady
    BY ConstantsAreFit, P!ReadinessIsKept
  <1> QED
    BY <1>3, <1>4, <1>5, <1>6, <1>7, <1>8, <1>9
=============================================================================

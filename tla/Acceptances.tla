---------------------------- MODULE Acceptances ----------------------------
(***************************************************************************)
(* The acceptance pipeline of internal/acceptances: Service.Submit,        *)
(* Service.GetStatus and Service.GetPDF, the Postgres table `acceptances'  *)
(* they share, and the storage bucket the PDFs are written to.             *)
(*                                                                         *)
(* Each request is a goroutine that runs its handler one call at a time.   *)
(* Between two calls other requests run, the client may disconnect (which  *)
(* ends the request's context), and the process may die.                   *)
(***************************************************************************)
EXTENDS Naturals, FiniteSets

CONSTANTS
    Requests,      \* HTTP requests, each served once
    Orgs,          \* organization ids, as resolved by RequireOrgAccess
    WorkOrders,    \* trimmed, non-empty work order ids
    Payloads,      \* the rest of a submission body
    Valid,         \* the payloads that NormalizeSubmission accepts
    Renderable,    \* the valid payloads whose signature image decodes
    Ids,           \* the uuids gen_random_uuid() may return
    Prefixes,      \* GCS_DOCUMENT_PREFIX of the revisions being served
    None,          \* SQL NULL, a nil pointer, an absent row or object
    DBFails,       \* may a database call fail while its context is live?
    StorageFails,  \* may a token or storage call fail or time out?
    Disconnects,   \* may a client go away before its answer?
    Crashes        \* may a process die with requests in flight?

Keys == Prefixes \X Orgs \X Ids

Docs == [id : Ids, org : Orgs, wo : WorkOrders, payload : Payloads]

Statuses == {"pending", "generated", "failed"}

\* Why there is no PDF: the texts that pdf_error can hold, and one that it
\* cannot, "garbled", the answer of a storage call quoted byte for byte.
Errors == {"render", "upload"}

Causes == Errors \cup {"garbled"}

Rows == [org : Orgs, wo : WorkOrders, payload : Payloads, status : Statuses,
         key : Keys \cup {None}, error : Errors \cup {None}]

Posts == [key : Keys, doc : Docs]

Submissions == [op : {"submit"}, org : Orgs, wo : WorkOrders, payload : Payloads]

Reads == [op : {"status", "pdf"}, org : Orgs, id : Ids]

Codes == {"accepted", "ok", "bad_request", "not_found", "pdf_not_ready", "error"}

Replies == [code : Codes, id : Ids \cup {None}, status : Statuses \cup {None},
            url : BOOLEAN, doc : Docs \cup {None}]

ASSUME ValidPayloads == Renderable \subseteq Valid /\ Valid \subseteq Payloads

ASSUME NoneIsNoData ==
    /\ None \notin Rows \cup Docs \cup Keys \cup Ids
    /\ None \notin Submissions \cup Reads \cup Replies
    /\ None \notin Statuses \cup Causes

ASSUME FaultSwitches ==
    DBFails \in BOOLEAN /\ StorageFails \in BOOLEAN
        /\ Disconnects \in BOOLEAN /\ Crashes \in BOOLEAN

VARIABLES
    table,   \* Postgres: acceptance id -> row
    bucket,  \* GCS: object key -> stored document
    wire,    \* POSTs that left for the bucket and may (still, again) arrive
    pc,      \* the call each request makes next
    ctx,     \* the request context: "live", or "done" once the client left
    arg,     \* what each request asks for
    held,    \* id of the acceptance record a submission created
    key,     \* the object key in the handler's hands
    cause,   \* the pdf_error text on its way to MarkPDFFailed
    reply    \* what the client was answered

vars == <<table, bucket, wire, pc, ctx, arg, held, key, cause, reply>>

Working == {"render", "upload", "uploading", "mark_generated", "mark_failed"}

Active == {"lookup", "create", "reread", "find", "download"} \cup Working

TypeOK ==
    /\ table \in [Ids -> Rows \cup {None}]
    /\ bucket \in [Keys -> Docs \cup {None}]
    /\ wire \in SUBSET Posts
    /\ pc \in [Requests -> Active \cup {"idle", "replied", "lost"}]
    /\ ctx \in [Requests -> {"live", "done"}]
    /\ arg \in [Requests -> Submissions \cup Reads \cup {None}]
    /\ held \in [Requests -> Ids \cup {None}]
    /\ key \in [Requests -> Keys \cup {None}]
    /\ cause \in [Requests -> Causes \cup {None}]
    /\ reply \in [Requests -> Replies \cup {None}]

Init ==
    /\ table = [i \in Ids |-> None]
    /\ bucket = [k \in Keys |-> None]
    /\ wire = {}
    /\ pc = [r \in Requests |-> "idle"]
    /\ ctx = [r \in Requests |-> "live"]
    /\ arg = [r \in Requests |-> None]
    /\ held = [r \in Requests |-> None]
    /\ key = [r \in Requests |-> None]
    /\ cause = [r \in Requests |-> None]
    /\ reply = [r \in Requests |-> None]

-----------------------------------------------------------------------------
(* Rows, documents and answers.                                            *)

Stored == {i \in Ids : table[i] # None}

\* The rows GetByWorkOrderID selects; the UNIQUE constraint leaves at most one.
ForWorkOrder(o, w) == {i \in Stored : table[i].org = o /\ table[i].wo = w}

\* The document Renderer.Render makes of row i: its snapshot, nothing newer.
Rendered(i) == [id |-> i, org |-> table[i].org, wo |-> table[i].wo,
                payload |-> table[i].payload]

Plain(code) == [code |-> code, id |-> None, status |-> None,
                url |-> FALSE, doc |-> None]

\* AcceptedResponse of row i as the table t has it.
Accepted(t, i) == [Plain("accepted") EXCEPT !.id = i, !.status = t[i].status]

Goto(r, label) == pc' = [pc EXCEPT ![r] = label]

Answer(r, answer) ==
    /\ Goto(r, "replied")
    /\ reply' = [reply EXCEPT ![r] = answer]

Locals == <<arg, held, key, cause>>

(* How a database call ends.  A statement reaches Postgres only while the  *)
(* request's context is live.  Its result may be lost: the connection      *)
(* breaks, or the client leaves, after the statement took effect.  What a  *)
(* client sends and Postgres refuses (an id that is no uuid, a NUL in a    *)
(* text) fails the statement too: without DBFails clients send none.       *)

Completes(r) == ctx[r] = "live" /\ UNCHANGED ctx

Fails(r) == (DBFails \/ ctx[r] = "done") /\ UNCHANGED ctx

ResultLost(r) ==
    /\ ctx[r] = "live"
    /\ \/ DBFails /\ UNCHANGED ctx
       \/ Disconnects /\ ctx' = [ctx EXCEPT ![r] = "done"]

-----------------------------------------------------------------------------
(* POST /work-orders/:id/acceptance                                        *)

\* The handler and NormalizeSubmission: a path that differs from the body's
\* work order id and an invalid payload are refused before any call.
Submit(r) ==
    /\ pc[r] = "idle"
    /\ \E s \in Submissions, path \in WorkOrders :
        /\ arg' = [arg EXCEPT ![r] = s]
        /\ IF path = s.wo /\ s.payload \in Valid
             THEN Goto(r, "lookup") /\ UNCHANGED reply
             ELSE Answer(r, Plain("bad_request"))
    /\ UNCHANGED <<table, bucket, wire, ctx, held, key, cause>>

\* Wrong, for mutation: a resubmission takes up the work on a pending row.
LookupResuming(r) ==
    /\ pc[r] = "lookup"
    /\ Completes(r)
    /\ LET found == ForWorkOrder(arg[r].org, arg[r].wo) IN
       IF found = {}
         THEN Goto(r, "create") /\ UNCHANGED <<held, reply>>
         ELSE \E i \in found :
                IF table[i].status = "pending"
                  THEN /\ Goto(r, "upload")
                       /\ held' = [held EXCEPT ![r] = i]
                       /\ UNCHANGED reply
                  ELSE Answer(r, Accepted(table, i)) /\ UNCHANGED held
    /\ UNCHANGED <<table, bucket, wire, arg, key, cause>>

\* Wrong, for mutation: the query forgets `organization_id = $1'.
LookupAnyOrg(r) ==
    /\ pc[r] = "lookup"
    /\ Completes(r)
    /\ LET found == {i \in Stored : table[i].wo = arg[r].wo} IN
       IF found = {}
         THEN Goto(r, "create") /\ UNCHANGED reply
         ELSE \E i \in found : Answer(r, Accepted(table, i))
    /\ UNCHANGED <<table, bucket, wire, Locals>>

\* GetByWorkOrderID, the first call of Submit: an acceptance that is already
\* there is the answer, whatever the new payload says.
Lookup(r) ==
    /\ pc[r] = "lookup"
    /\ LET found == ForWorkOrder(arg[r].org, arg[r].wo) IN
       \/ /\ Completes(r)
          /\ found = {}
          /\ Goto(r, "create")
          /\ UNCHANGED reply
       \/ /\ Completes(r)
          /\ \E i \in found : Answer(r, Accepted(table, i))
       \/ /\ Fails(r)
          /\ Answer(r, Plain("error"))
    /\ UNCHANGED <<table, bucket, wire, Locals>>

NewRow(r) == [org |-> arg[r].org, wo |-> arg[r].wo, payload |-> arg[r].payload,
              status |-> "pending", key |-> None, error |-> None]

\* Wrong, for mutation: the table has no unique constraint.
InsertUnchecked(r, i) ==
    /\ i \notin Stored
    /\ table' = [table EXCEPT ![i] = NewRow(r)]

\* Wrong, for mutation: ON CONFLICT DO UPDATE.
InsertUpserting(r, i) ==
    /\ LET found == ForWorkOrder(arg[r].org, arg[r].wo) IN
         IF found = {} THEN i \notin Stored ELSE i \in found
    /\ table' = [table EXCEPT ![i] = NewRow(r)]

\* The INSERT: acceptances_org_work_order_unique decides between two
\* submissions that both found nothing.
Insert(r, i) ==
    /\ i \notin Stored
    /\ ForWorkOrder(arg[r].org, arg[r].wo) = {}
    /\ table' = [table EXCEPT ![i] = NewRow(r)]

\* Wrong, for mutation: a conflict repeats the insert.
CreateRetrying(r) ==
    /\ pc[r] = "create"
    /\ \/ \E i \in Ids :
            /\ Completes(r)
            /\ Insert(r, i)
            /\ held' = [held EXCEPT ![r] = i]
            /\ Goto(r, "render")
       \/ /\ Completes(r)
          /\ ForWorkOrder(arg[r].org, arg[r].wo) # {}
          /\ Goto(r, "create")
          /\ UNCHANGED <<table, held>>
    /\ UNCHANGED <<bucket, wire, arg, key, cause, reply>>

Create(r) ==
    /\ pc[r] = "create"
    /\ \/ \E i \in Ids :
            /\ Completes(r)
            /\ Insert(r, i)
            /\ held' = [held EXCEPT ![r] = i]
            /\ Goto(r, "render")
            /\ UNCHANGED reply
       \/ /\ Completes(r)
          /\ ForWorkOrder(arg[r].org, arg[r].wo) # {}
          /\ Goto(r, "reread")
          /\ UNCHANGED <<table, held, reply>>
       \/ \E i \in Ids :
            /\ ResultLost(r)
            /\ Insert(r, i)
            /\ Answer(r, Plain("error"))
            /\ UNCHANGED held
       \/ /\ Fails(r)
          /\ Answer(r, Plain("error"))
          /\ UNCHANGED <<table, held>>
    /\ UNCHANGED <<bucket, wire, arg, key, cause>>

\* After ErrConflict Submit answers with the row that won.
Reread(r) ==
    /\ pc[r] = "reread"
    /\ LET found == ForWorkOrder(arg[r].org, arg[r].wo) IN
       \/ /\ Completes(r)
          /\ \E i \in found : Answer(r, Accepted(table, i))
       \/ /\ Completes(r)
          /\ found = {}
          /\ Answer(r, Plain("not_found"))
       \/ /\ Fails(r)
          /\ Answer(r, Plain("error"))
    /\ UNCHANGED <<table, bucket, wire, Locals>>

\* Renderer.Render fails exactly when the signature image does not decode.
Render(r) ==
    /\ pc[r] = "render"
    /\ IF arg[r].payload \in Renderable
         THEN Goto(r, "upload") /\ UNCHANGED cause
         ELSE Goto(r, "mark_failed") /\ cause' = [cause EXCEPT ![r] = "render"]
    /\ UNCHANGED <<table, bucket, wire, ctx, arg, held, key, reply>>

\* Wrong, for mutation: the error is returned without MarkPDFFailed.
UploadFailedAbandoning(r) ==
    /\ StorageFails \/ ctx[r] = "done"
    /\ Goto(r, "lost")
    /\ UNCHANGED cause

\* The error of a refused upload, or of a refused token, quotes up to 4096
\* bytes of the answer as they came.
UploadFailed(r) ==
    /\ Goto(r, "mark_failed")
    /\ \/ /\ StorageFails \/ ctx[r] = "done"
          /\ cause' = [cause EXCEPT ![r] = "upload"]
       \/ /\ StorageFails
          /\ cause' = [cause EXCEPT ![r] = "garbled"]

\* Wrong, for mutation: the object is named after the work order.
StartUploadByWorkOrder(r) ==
    /\ pc[r] = "upload"
    /\ ctx[r] = "live"
    /\ \E p \in Prefixes :
         LET k == <<p, table[held[r]].org, arg[r].wo>> IN
         /\ key' = [key EXCEPT ![r] = k]
         /\ wire' = wire \cup {[key |-> k, doc |-> Rendered(held[r])]}
    /\ Goto(r, "uploading")
    /\ UNCHANGED <<table, bucket, ctx, arg, held, cause, reply>>

\* Upload fetches a token, then sends the document under objectKey.
StartUpload(r) ==
    /\ pc[r] = "upload"
    /\ \/ /\ ctx[r] = "live"
          /\ \E p \in Prefixes :
               LET k == <<p, table[held[r]].org, held[r]>> IN
               /\ key' = [key EXCEPT ![r] = k]
               /\ wire' = wire \cup {[key |-> k, doc |-> Rendered(held[r])]}
          /\ Goto(r, "uploading")
          /\ UNCHANGED cause
       \/ UploadFailed(r) /\ UNCHANGED <<key, wire>>
    /\ UNCHANGED <<table, bucket, ctx, arg, held, reply>>

\* The bucket takes a POST only where it has no object (ifGenerationMatch=0).
\* A POST may arrive after its sender gave up, and more than once.
BucketAccepts(m) ==
    /\ m \in wire
    /\ bucket[m.key] = None
    /\ bucket' = [bucket EXCEPT ![m.key] = m.doc]
    /\ UNCHANGED <<table, wire, pc, ctx, Locals, reply>>

\* Wrong, for mutation: an upload that ended is taken for an upload that worked.
FinishUploadEager(r) ==
    /\ pc[r] = "uploading"
    /\ Goto(r, "mark_generated")
    /\ UNCHANGED <<table, bucket, wire, ctx, Locals, reply>>

\* Upload returns: both "created" and 412 (ErrObjectExists) mean that the
\* object is there; anything else is an error.
FinishUpload(r) ==
    /\ pc[r] = "uploading"
    /\ \/ /\ ctx[r] = "live"
          /\ bucket[key[r]] # None
          /\ Goto(r, "mark_generated")
          /\ UNCHANGED cause
       \/ UploadFailed(r)
    /\ UNCHANGED <<table, bucket, wire, ctx, arg, held, key, reply>>

\* An UPDATE ... RETURNING of the acceptance a submission created.
Mark(r, row) ==
    \/ /\ Completes(r)
       /\ held[r] \in Stored
       /\ table' = [table EXCEPT ![held[r]] = row]
       /\ Answer(r, Accepted(table', held[r]))
    \/ /\ Completes(r)
       /\ held[r] \notin Stored
       /\ Answer(r, Plain("not_found"))
       /\ UNCHANGED table
    \/ /\ ResultLost(r)
       /\ held[r] \in Stored
       /\ table' = [table EXCEPT ![held[r]] = row]
       /\ Answer(r, Plain("error"))
    \/ /\ Fails(r)
       /\ Answer(r, Plain("error"))
       /\ UNCHANGED table

MarkPDFGenerated(r) ==
    /\ pc[r] = "mark_generated"
    /\ Mark(r, [table[held[r]] EXCEPT !.status = "generated", !.key = key[r],
                                      !.error = None])
    /\ UNCHANGED <<bucket, wire, Locals>>

\* truncateError cuts the text at byte 2048, in the middle of a character if it
\* must, and mends nothing: what it returns need not be a text for Postgres.
Storable(text) == text # "garbled"

\* Postgres refuses a parameter that is not UTF-8 or that holds a NUL.
RefuseText(r) ==
    /\ ~Storable(cause[r])
    /\ Answer(r, Plain("error"))
    /\ UNCHANGED <<table, ctx>>

\* Wrong, for mutation: the UPDATE records the error and leaves the status.
MarkPDFFailedSilently(r) ==
    /\ pc[r] = "mark_failed"
    /\ \/ Storable(cause[r]) /\ Mark(r, [table[held[r]] EXCEPT !.error = cause[r]])
       \/ RefuseText(r)
    /\ UNCHANGED <<bucket, wire, Locals>>

MarkPDFFailed(r) ==
    /\ pc[r] = "mark_failed"
    /\ \/ /\ Storable(cause[r])
          /\ Mark(r, [table[held[r]] EXCEPT !.status = "failed", !.error = cause[r]])
       \/ RefuseText(r)
    /\ UNCHANGED <<bucket, wire, Locals>>

-----------------------------------------------------------------------------
(* GET /acceptances/:id and GET /acceptances/:id/pdf                       *)

Read(r) ==
    /\ pc[r] = "idle"
    /\ \E q \in Reads : arg' = [arg EXCEPT ![r] = q]
    /\ Goto(r, "find")
    /\ UNCHANGED <<table, bucket, wire, ctx, held, key, cause, reply>>

\* Wrong, for mutation: GetByID selects by id alone.
VisibleAnyOrg(r) == {i \in Stored : i = arg[r].id}

\* GetByID: the row must belong to the caller's organization.
Visible(r) == {i \in Stored : i = arg[r].id /\ table[i].org = arg[r].org}

HasPDF(i) == table[i].status = "generated" /\ table[i].key # None

FindNothing(r) ==
    /\ pc[r] = "find"
    /\ \/ Completes(r) /\ Visible(r) = {} /\ Answer(r, Plain("not_found"))
       \/ Fails(r) /\ Answer(r, Plain("error"))
    /\ UNCHANGED <<table, bucket, wire, Locals>>

GetStatus(r) ==
    /\ pc[r] = "find"
    /\ arg[r].op = "status"
    /\ Completes(r)
    /\ \E i \in Visible(r) :
         Answer(r, [Plain("ok") EXCEPT !.id = i, !.status = table[i].status,
                                       !.url = HasPDF(i)])
    /\ UNCHANGED <<table, bucket, wire, Locals>>

\* Wrong, for mutation: the key is derived again, with this revision's prefix.
GetPDFByPrefix(r) ==
    /\ pc[r] = "find"
    /\ arg[r].op = "pdf"
    /\ Completes(r)
    /\ \E i \in Visible(r), p \in Prefixes :
         IF HasPDF(i)
           THEN /\ key' = [key EXCEPT ![r] = <<p, table[i].org, i>>]
                /\ Goto(r, "download")
                /\ UNCHANGED reply
           ELSE Answer(r, Plain("pdf_not_ready")) /\ UNCHANGED key
    /\ UNCHANGED <<table, bucket, wire, arg, held, cause>>

\* GetPDF keeps the key it read and downloads in a second call.
GetPDF(r) ==
    /\ pc[r] = "find"
    /\ arg[r].op = "pdf"
    /\ Completes(r)
    /\ \E i \in Visible(r) :
         IF HasPDF(i)
           THEN /\ key' = [key EXCEPT ![r] = table[i].key]
                /\ Goto(r, "download")
                /\ UNCHANGED reply
           ELSE Answer(r, Plain("pdf_not_ready")) /\ UNCHANGED key
    /\ UNCHANGED <<table, bucket, wire, arg, held, cause>>

Download(r) ==
    /\ pc[r] = "download"
    /\ \/ /\ ctx[r] = "live"
          /\ bucket[key[r]] # None
          /\ Answer(r, [Plain("ok") EXCEPT !.doc = bucket[key[r]]])
       \/ /\ ctx[r] = "live"
          /\ bucket[key[r]] = None
          /\ Answer(r, Plain("pdf_not_ready"))
       \/ /\ StorageFails \/ ctx[r] = "done"
          /\ Answer(r, Plain("error"))
    /\ UNCHANGED <<table, bucket, wire, ctx, Locals>>

-----------------------------------------------------------------------------
(* The environment.                                                        *)

\* net/http cancels the request context when the client's connection ends.
Disconnect(r) ==
    /\ Disconnects
    /\ pc[r] \in Active
    /\ ctx[r] = "live"
    /\ ctx' = [ctx EXCEPT ![r] = "done"]
    /\ UNCHANGED <<table, bucket, wire, pc, Locals, reply>>

\* A process ends without finishing its requests.  Two revisions may overlap
\* during a rollout, so it need not be all the requests there are.
Crash ==
    /\ Crashes
    /\ \E victims \in SUBSET {r \in Requests : pc[r] \in Active} :
        /\ victims # {}
        /\ pc' = [r \in Requests |-> IF r \in victims THEN "lost" ELSE pc[r]]
    /\ UNCHANGED <<table, bucket, wire, ctx, Locals, reply>>

Step(r) ==
    \/ Lookup(r) \/ Create(r) \/ Reread(r) \/ Render(r)
    \/ StartUpload(r) \/ FinishUpload(r)
    \/ MarkPDFGenerated(r) \/ MarkPDFFailed(r)
    \/ FindNothing(r) \/ GetStatus(r) \/ GetPDF(r) \/ Download(r)

Next ==
    \/ \E r \in Requests : Submit(r) \/ Read(r) \/ Step(r) \/ Disconnect(r)
    \/ \E m \in wire : BucketAccepts(m)
    \/ Crash

Spec == Init /\ [][Next]_vars

\* A handler that can take its next call takes it: goroutines are scheduled,
\* and every database or storage call ends (both http clients have timeouts).
\* Clients, posts under way and crashes are owed nothing.
Fairness == \A r \in Requests : WF_vars(Step(r))

FairSpec == Spec /\ Fairness

-----------------------------------------------------------------------------
(* What must hold of the service.                                          *)

\* However submissions interleave, are retried or lose their answers, an
\* organization has at most one acceptance for a work order
\* (acceptances_org_work_order_unique and the re-read after ErrConflict).
OneAcceptancePerWorkOrder ==
    \A i, j \in Stored :
        table[i].org = table[j].org /\ table[i].wo = table[j].wo => i = j

\* Only the submission that inserted a row works on it, and the row is still
\* pending while it does: no other request can settle it under its hands.
SoleWorker ==
    \A r \in Requests : pc[r] \in Working =>
        /\ held[r] \in Stored
        /\ table[held[r]].status = "pending"
        /\ \A q \in Requests \ {r} : pc[q] \in Working => held[q] # held[r]

\* A generated row points at an object that exists and that shows exactly the
\* row's own snapshot, whatever was lost, late or repeated on the way.
GeneratedIsStored ==
    \A i \in Stored : table[i].status = "generated" =>
        table[i].key # None /\ bucket[table[i].key] = Rendered(i)

\* A submission is answered with the acceptance of the organization and work
\* order it named, and all submissions for them get the same id.
SubmissionsAgree ==
    \A r \in Requests :
        (reply[r] # None /\ reply[r].code = "accepted") =>
            ForWorkOrder(arg[r].org, arg[r].wo) = {reply[r].id}

\* A PDF that is served is the snapshot of the acceptance that was asked for,
\* and that acceptance is the caller's organization's.
ReadersGetTheirOwn ==
    \A r \in Requests :
        (reply[r] # None /\ reply[r].doc # None) =>
            /\ arg[r].id \in Stored
            /\ table[arg[r].id].org = arg[r].org
            /\ reply[r].doc = Rendered(arg[r].id)

\* Once somebody has been told that the PDF of an acceptance is there, no
\* GetPDF answers ErrPDFNotReady for it, from whatever revision.
ReadyStaysReady ==
    [][\A r, q \in Requests :
        /\ reply[q] # None /\ reply[q].status = "generated"
        /\ arg[r] \in Reads /\ arg[r].id = reply[q].id
        /\ reply'[r] # reply[r]
        => reply'[r].code # "pdf_not_ready"]_vars

\* Acceptances are never deleted, the accepted snapshot never changes, and a
\* row that left `pending' is never written again.
SettledForever ==
    [][\A i \in Stored :
        /\ table'[i] # None
        /\ Rendered(i)' = Rendered(i)
        /\ table[i].status # "pending" => table'[i] = table[i]]_vars

\* The submission that held row i was answered with an error because Postgres
\* refused the text of its failure.
Unrecorded(i) ==
    \E r \in Requests :
        /\ held[r] = i
        /\ cause[r] = "garbled"
        /\ pc[r] = "replied" /\ reply[r].code = "error"

\* While the database answers and nobody leaves or dies, a pending row has a
\* request that still works on it, unless its failure could not be written
\* down: no other failure of the storage strands a record.
PendingHasWorker ==
    ~(DBFails \/ Disconnects \/ Crashes) =>
        \A i \in Stored : table[i].status = "pending" =>
            \/ \E r \in Requests : pc[r] \in Working /\ held[r] = i
            \/ Unrecorded(i)

\* Every request that no crash takes away is answered.
EveryRequestAnswered ==
    \A r \in Requests : pc[r] \in Active ~> pc[r] \in {"replied", "lost"}

\* With a database that answers and clients that wait, every acceptance is
\* settled, as generated or, when storage fails, as failed; or its submitter
\* is told of an error because Postgres refused the text of the failure.
PendingSettles ==
    \A i \in Ids : (i \in Stored /\ table[i].status = "pending")
                      ~> \/ i \in Stored /\ table[i].status # "pending"
                         \/ Unrecorded(i)

\* TestSubmitMarksFailedOnUploadError (service_test.go): a submission whose
\* upload failed ends with its record marked failed.
UploadErrorMarksFailed ==
    \A r \in Requests :
        pc[r] = "replied" /\ cause[r] \in {"upload", "garbled"} =>
            table[held[r]].status = "failed"

\* Row i as an entry of the register, and the documents the bucket holds.
Entry(i) == [id |-> i, org |-> table[i].org, wo |-> table[i].wo,
             payload |-> table[i].payload, status |-> table[i].status]

Entries == {Entry(i) : i \in Stored}

Published == {bucket[k] : k \in {k \in Keys : bucket[k] # None}}

Register == INSTANCE AcceptanceRegister WITH
    Payloads <- Valid, Printable <- Renderable,
    accepted <- Entries, documents <- Published

\* Every behaviour of the handlers, the table and the bucket is a behaviour of
\* AcceptanceRegister.
ImplementsRegister == Register!Spec
=============================================================================

------------------------- MODULE AcceptancesProofs -------------------------
(***************************************************************************)
(* Safety of the acceptance pipeline, for any number of requests,          *)
(* organizations, work orders, ids and revisions, and for every setting of *)
(* the fault switches.                                                     *)
(***************************************************************************)
EXTENDS Acceptances, TLAPS

(***************************************************************************)
(* The inductive invariant.  What a request may rely on is its own part:   *)
(* a submission at work owns an untouched row, the key it uploads under    *)
(* ends in that row's id, and an answer stays true of the table.  Posts    *)
(* and objects carry the snapshot of the row their key names.              *)
(***************************************************************************)
Owner(r) ==
    pc[r] \in Working =>
        /\ arg[r] \in Submissions
        /\ held[r] \in Ids
        /\ table[held[r]] = NewRow(r)

Uploading(r) ==
    pc[r] \in {"uploading", "mark_generated"} =>
        /\ key[r] \in Keys
        /\ key[r][3] = held[r]
        /\ pc[r] = "mark_generated" => bucket[key[r]] # None

Asking(r) ==
    /\ pc[r] \in {"lookup", "create", "reread"} =>
          arg[r] \in Submissions /\ arg[r].payload \in Valid
    /\ pc[r] = "upload" => arg[r].payload \in Renderable
    /\ pc[r] \in {"find", "download"} => arg[r] \in Reads

Downloading(r) ==
    pc[r] = "download" =>
        /\ arg[r].id \in Stored
        /\ table[arg[r].id].org = arg[r].org
        /\ key[r] \in Keys
        /\ key[r][3] = arg[r].id
        /\ bucket[key[r]] # None

Answered(r) ==
    reply[r] # None =>
        /\ pc[r] = "replied"
        /\ reply[r].id # None =>
              reply[r].id \in Stored /\ table[reply[r].id].org = arg[r].org
        /\ reply[r].code = "accepted" =>
              /\ reply[r].id \in Stored
              /\ table[reply[r].id].org = arg[r].org
              /\ table[reply[r].id].wo = arg[r].wo
        /\ reply[r].status = "generated" =>
              reply[r].id \in Stored /\ table[reply[r].id].status = "generated"
        /\ reply[r].doc # None =>
              /\ arg[r].id \in Stored
              /\ table[arg[r].id].org = arg[r].org
              /\ reply[r].doc = Rendered(arg[r].id)

Request(r) == Owner(r) /\ Uploading(r) /\ Asking(r) /\ Downloading(r) /\ Answered(r)

Alone ==
    \A r, q \in Requests :
        pc[r] \in Working /\ pc[q] \in Working /\ held[r] = held[q] => r = q

Names(k, d) == d.id = k[3] /\ d.id \in Stored /\ d = Rendered(d.id)

Objects ==
    /\ \A m \in wire : Names(m.key, m.doc) /\ m.doc.payload \in Renderable
    /\ \A k \in Keys : bucket[k] # None => Names(k, bucket[k])

Pointers ==
    \A i \in Stored : table[i].status = "generated" =>
        table[i].key \in Keys /\ table[i].key[3] = i /\ bucket[table[i].key] # None

IInv ==
    /\ TypeOK
    /\ OneAcceptancePerWorkOrder
    /\ Alone
    /\ Objects
    /\ Pointers
    /\ \A r \in Requests : Request(r)

(* A step of another request leaves everything a request relies on.        *)
Grows ==
    /\ \A i \in Stored :
        /\ i \in Stored'
        /\ Rendered(i)' = Rendered(i)
        /\ table[i].status = "generated" => table'[i].status = "generated"
    /\ \A k \in Keys : bucket[k] # None => bucket'[k] = bucket[k]

Untouched(q) ==
    /\ pc'[q] = pc[q] /\ arg'[q] = arg[q] /\ held'[q] = held[q]
    /\ key'[q] = key[q] /\ reply'[q] = reply[q]

-----------------------------------------------------------------------------
LEMMA Initially == Init => IInv
  BY NoneIsNoData DEF Init, IInv, TypeOK, OneAcceptancePerWorkOrder, Alone, Objects,
     Pointers, Request, Owner, Uploading, Asking, Downloading, Answered, Stored,
     Names, Working, Active

\* Rows have the fields the snapshot is made of.
LEMMA SnapshotFields ==
    ASSUME TypeOK, NEW i \in Stored
    PROVE  /\ i \in Ids
           /\ table[i] \in Rows
           /\ Rendered(i) \in Docs
           /\ Rendered(i).id = i
           /\ Rendered(i).org = table[i].org
           /\ Rendered(i).wo = table[i].wo
           /\ Rendered(i).payload = table[i].payload
  BY DEF TypeOK, Stored, Rendered, Rows, Docs

\* A request that a step neither runs nor robs of its row keeps its part.
LEMMA FrameRequest ==
    ASSUME TypeOK, TypeOK', Grows, NEW q \in Requests, Request(q), Untouched(q),
           pc[q] \in Working => table'[held[q]] = table[held[q]]
    PROVE  Request(q)'
  <1>1. Owner(q)'
    BY DEF Request, Owner, Untouched, NewRow
  <1>2. Uploading(q)'
    BY DEF Request, Uploading, Untouched, Grows
  <1>3. Asking(q)'
    BY DEF Request, Asking, Untouched
  <1>4. Downloading(q)'
    <2> SUFFICES ASSUME pc[q] = "download"
                 PROVE  /\ arg[q].id \in Stored'
                        /\ table'[arg[q].id].org = arg[q].org
                        /\ key[q] \in Keys
                        /\ key[q][3] = arg[q].id
                        /\ bucket'[key[q]] # None
      BY DEF Downloading, Untouched
    <2>1. arg[q].id \in Stored
      BY DEF Request, Downloading
    <2>2. table'[arg[q].id].org = table[arg[q].id].org
      BY <2>1 DEF Grows, Rendered
    <2> QED
      BY <2>1, <2>2 DEF Request, Downloading, Grows
  <1>5. Answered(q)'
    <2> SUFFICES ASSUME reply[q] # None
                 PROVE  Answered(q)'
      BY DEF Answered, Untouched
    <2>1. reply[q].code = "accepted" =>
              /\ reply[q].id \in Stored'
              /\ table'[reply[q].id].org = arg[q].org
              /\ table'[reply[q].id].wo = arg[q].wo
      BY DEF Request, Answered, Grows, Rendered
    <2>2. reply[q].status = "generated" =>
              reply[q].id \in Stored' /\ table'[reply[q].id].status = "generated"
      BY DEF Request, Answered, Grows
    <2>4. reply[q].id # None =>
              reply[q].id \in Stored' /\ table'[reply[q].id].org = arg[q].org
      BY DEF Request, Answered, Grows, Rendered
    <2>3. reply[q].doc # None =>
              /\ arg[q].id \in Stored'
              /\ table'[arg[q].id].org = arg[q].org
              /\ reply[q].doc = Rendered(arg[q].id)'
      BY DEF Request, Answered, Grows, Rendered, Untouched
    <2> QED
      BY <2>1, <2>2, <2>3, <2>4 DEF Request, Answered, Untouched
  <1> QED
    BY <1>1, <1>2, <1>3, <1>4, <1>5 DEF Request

(* Steps of one request that leave the table, the bucket and the wire.     *)
Private(r) ==
    /\ UNCHANGED <<table, bucket, wire>>
    /\ \A q \in Requests \ {r} : Untouched(q)

LEMMA PrivateGrows ==
    ASSUME NEW r, Private(r)
    PROVE  Grows
  BY DEF Private, Grows, Stored, Rendered

\* A private step keeps the invariant if it keeps the types and its own part.
LEMMA PrivateKeeps ==
    ASSUME IInv, NEW r \in Requests, Private(r), TypeOK', Request(r)',
           pc'[r] \in Working => pc[r] \in Working /\ held'[r] = held[r]
    PROVE  IInv'
  <1>1. OneAcceptancePerWorkOrder'
    BY DEF IInv, Private, OneAcceptancePerWorkOrder, Stored
  <1>2. Objects' /\ Pointers'
    BY DEF IInv, Private, Objects, Pointers, Names, Stored, Rendered
  <1>3. Alone'
    BY DEF IInv, Private, Untouched, Alone
  <1>4. ASSUME NEW q \in Requests, q # r PROVE Request(q)'
    BY <1>4, PrivateGrows, FrameRequest DEF IInv, Private
  <1> QED
    BY <1>1, <1>2, <1>3, <1>4 DEF IInv

\* An answer ends a request; what it says must hold when it is given.
LEMMA AnswerPrivate ==
    ASSUME IInv, NEW r \in Requests, NEW answer \in Replies, Answer(r, answer),
           UNCHANGED <<table, bucket, wire, Locals>>,
           ctx' \in [Requests -> {"live", "done"}],
           answer.id # None => answer.id \in Stored /\ table[answer.id].org = arg[r].org,
           answer.code = "accepted" =>
              /\ answer.id \in Stored
              /\ table[answer.id].org = arg[r].org
              /\ table[answer.id].wo = arg[r].wo,
           answer.status = "generated" =>
              answer.id \in Stored /\ table[answer.id].status = "generated",
           answer.doc # None =>
              /\ arg[r].id \in Stored
              /\ table[arg[r].id].org = arg[r].org
              /\ answer.doc = Rendered(arg[r].id)
    PROVE  IInv'
  <1>1. TypeOK'
    BY DEF IInv, TypeOK, Answer, Goto, Locals
  <1>2. pc'[r] = "replied" /\ reply'[r] = answer
    BY DEF IInv, TypeOK, Answer, Goto
  <1>3. Private(r)
    BY DEF Private, Untouched, Answer, Goto, Locals, IInv, TypeOK
  <1>4. Request(r)'
    BY <1>2 DEF Request, Owner, Uploading, Asking, Downloading, Answered, Working,
       Locals, Stored, Rendered
  <1> QED
    BY <1>1, <1>2, <1>3, <1>4, PrivateKeeps DEF Working

LEMMA PlainReplies ==
    ASSUME NEW code \in Codes
    PROVE  /\ Plain(code) \in Replies
           /\ Plain(code).code = code
           /\ Plain(code).id = None
           /\ Plain(code).status # "generated"
           /\ Plain(code).doc = None
  BY NoneIsNoData DEF Plain, Replies, Statuses

\* The plain errors are always true.
LEMMA PlainAnswer ==
    ASSUME IInv, NEW r \in Requests,
           NEW code \in {"bad_request", "not_found", "pdf_not_ready", "error"},
           Answer(r, Plain(code)), UNCHANGED <<table, bucket, wire, Locals>>,
           ctx' \in [Requests -> {"live", "done"}]
    PROVE  IInv'
  <1>1. code \in Codes /\ code # "accepted"
    BY DEF Codes
  <1> QED
    BY <1>1, PlainReplies, AnswerPrivate

LEMMA ContextTypes ==
    ASSUME TypeOK, NEW r \in Requests
    PROVE  /\ Completes(r) => ctx' \in [Requests -> {"live", "done"}]
           /\ Fails(r) => ctx' \in [Requests -> {"live", "done"}]
           /\ ResultLost(r) => ctx' \in [Requests -> {"live", "done"}]
  BY DEF TypeOK, Completes, Fails, ResultLost

\* The row a submission is answered with.
LEMMA AcceptedReplies ==
    ASSUME NEW t \in [Ids -> Rows \cup {None}], NEW i \in Ids, t[i] # None
    PROVE  /\ Accepted(t, i) \in Replies
           /\ Accepted(t, i).id = i
           /\ Accepted(t, i).status = t[i].status
           /\ Accepted(t, i).doc = None
  BY DEF Accepted, Plain, Replies, Codes, Rows

LEMMA AcceptedAnswer ==
    ASSUME IInv, NEW r \in Requests, NEW i \in ForWorkOrder(arg[r].org, arg[r].wo),
           Answer(r, Accepted(table, i)), UNCHANGED <<table, bucket, wire, Locals>>,
           ctx' \in [Requests -> {"live", "done"}]
    PROVE  IInv'
  <1>1. i \in Stored /\ table[i].org = arg[r].org /\ table[i].wo = arg[r].wo
    BY DEF ForWorkOrder
  <1>2. /\ Accepted(table, i) \in Replies
        /\ Accepted(table, i).id = i
        /\ Accepted(table, i).status = table[i].status
        /\ Accepted(table, i).doc = None
    BY <1>1, AcceptedReplies DEF IInv, TypeOK, Stored
  <1> QED
    BY <1>1, <1>2, AnswerPrivate

-----------------------------------------------------------------------------
LEMMA LookupKeeps ==
    ASSUME IInv, NEW r \in Requests, Lookup(r)
    PROVE  IInv'
  <1> DEFINE found == ForWorkOrder(arg[r].org, arg[r].wo)
  <1>1. CASE Completes(r) /\ Goto(r, "create") /\ UNCHANGED reply
    <2>1. TypeOK'
      BY <1>1, ContextTypes DEF IInv, TypeOK, Lookup, Goto, Locals, Active
    <2>2. Private(r) /\ pc'[r] = "create"
      BY <1>1 DEF IInv, TypeOK, Private, Untouched, Lookup, Goto, Locals
    <2>3. Request(r)'
      BY <1>1, <2>2 DEF IInv, Request, Owner, Uploading, Asking, Downloading, Answered,
         Working, Lookup, Locals
    <2> QED
      BY <2>1, <2>2, <2>3, PrivateKeeps DEF Working
  <1>2. CASE Completes(r) /\ \E i \in found : Answer(r, Accepted(table, i))
    BY <1>2, AcceptedAnswer, ContextTypes DEF Lookup, IInv
  <1>3. CASE Fails(r) /\ Answer(r, Plain("error"))
    BY <1>3, PlainAnswer, ContextTypes DEF Lookup, IInv
  <1> QED
    BY <1>1, <1>2, <1>3 DEF Lookup

LEMMA RereadKeeps ==
    ASSUME IInv, NEW r \in Requests, Reread(r)
    PROVE  IInv'
  <1> DEFINE found == ForWorkOrder(arg[r].org, arg[r].wo)
  <1>1. CASE Completes(r) /\ \E i \in found : Answer(r, Accepted(table, i))
    BY <1>1, AcceptedAnswer, ContextTypes DEF Reread, IInv
  <1>2. CASE Completes(r) /\ Answer(r, Plain("not_found"))
    BY <1>2, PlainAnswer, ContextTypes DEF Reread, IInv
  <1>3. CASE Fails(r) /\ Answer(r, Plain("error"))
    BY <1>3, PlainAnswer, ContextTypes DEF Reread, IInv
  <1> QED
    BY <1>1, <1>2, <1>3 DEF Reread

\* A request that has not started has not been answered.
LEMMA IdleIsUnanswered ==
    ASSUME IInv, NEW r \in Requests, pc[r] # "replied"
    PROVE  reply[r] = None
  BY DEF IInv, Request, Answered

LEMMA SubmitKeeps ==
    ASSUME IInv, NEW r \in Requests, Submit(r)
    PROVE  IInv'
  <1>1. PICK s \in Submissions :
            /\ arg' = [arg EXCEPT ![r] = s]
            /\ \/ Goto(r, "lookup") /\ UNCHANGED reply /\ s.payload \in Valid
               \/ Answer(r, Plain("bad_request"))
    BY DEF Submit
  <1>2. Private(r) /\ arg'[r] = s /\ pc'[r] \in {"lookup", "replied"}
    BY <1>1 DEF Submit, Private, Untouched, Goto, Answer, IInv, TypeOK
  <1>3. Plain("bad_request") \in Replies /\ "bad_request" \in Codes
    BY PlainReplies DEF Codes
  <1>4. TypeOK'
    BY <1>1, <1>3 DEF Submit, IInv, TypeOK, Goto, Answer, Active
  <1>5. Request(r)'
    <2>1. CASE Goto(r, "lookup") /\ UNCHANGED reply /\ s.payload \in Valid
      <3>1. pc'[r] = "lookup" /\ reply'[r] = None
        BY <2>1, IdleIsUnanswered DEF Submit, Goto, IInv, TypeOK
      <3> QED
        BY <1>2, <2>1, <3>1 DEF Request, Owner, Uploading, Asking, Downloading, Answered, Working
    <2>2. CASE Answer(r, Plain("bad_request"))
      <3>1. pc'[r] = "replied" /\ reply'[r] = Plain("bad_request")
        BY <2>2 DEF Answer, Goto, IInv, TypeOK
      <3> QED
        BY <3>1, <1>3, PlainReplies
        DEF Request, Owner, Uploading, Asking, Downloading, Answered, Working
    <2> QED
      BY <1>1, <2>1, <2>2
  <1> QED
    BY <1>2, <1>4, <1>5, PrivateKeeps DEF Working

LEMMA ReadKeeps ==
    ASSUME IInv, NEW r \in Requests, Read(r)
    PROVE  IInv'
  <1>1. PICK q \in Reads : arg' = [arg EXCEPT ![r] = q]
    BY DEF Read
  <1>2. Private(r) /\ arg'[r] = q /\ pc'[r] = "find"
    BY <1>1 DEF Read, Private, Untouched, Goto, IInv, TypeOK
  <1>3. TypeOK'
    BY <1>1 DEF Read, IInv, TypeOK, Goto, Active
  <1>4. reply'[r] = None
    BY IdleIsUnanswered DEF Read
  <1>5. Request(r)'
    BY <1>2, <1>4 DEF Request, Owner, Uploading, Asking, Downloading, Answered, Working
  <1> QED
    BY <1>2, <1>3, <1>5, PrivateKeeps DEF Working

LEMMA RenderKeeps ==
    ASSUME IInv, NEW r \in Requests, Render(r)
    PROVE  IInv'
  <1>1. Private(r) /\ pc'[r] \in {"upload", "mark_failed"} /\ pc[r] = "render"
    BY DEF Render, Private, Untouched, Goto, IInv, TypeOK
  <1>2. TypeOK'
    BY DEF Render, IInv, TypeOK, Goto, Active, Working, Causes, Errors
  <1>3. reply'[r] = None
    BY IdleIsUnanswered DEF Render
  <1>4. pc'[r] = "upload" => arg[r].payload \in Renderable
    BY DEF Render, Goto, IInv, TypeOK
  <1>5. Request(r)'
    BY <1>1, <1>3, <1>4
    DEF Render, IInv, Request, Owner, Uploading, Asking, Downloading, Answered, Working, NewRow
  <1> QED
    BY <1>1, <1>2, <1>5, PrivateKeeps DEF Working, Render

LEMMA FinishUploadKeeps ==
    ASSUME IInv, NEW r \in Requests, FinishUpload(r)
    PROVE  IInv'
  <1>1. Private(r) /\ pc'[r] \in {"mark_generated", "mark_failed"} /\ pc[r] = "uploading"
    BY DEF FinishUpload, UploadFailed, Private, Untouched, Goto, IInv, TypeOK
  <1>2. TypeOK'
    BY DEF FinishUpload, UploadFailed, IInv, TypeOK, Goto, Active, Working, Causes, Errors
  <1>3. reply'[r] = None
    BY IdleIsUnanswered DEF FinishUpload
  <1>4. pc'[r] = "mark_generated" => bucket[key[r]] # None
    BY DEF FinishUpload, UploadFailed, Goto, IInv, TypeOK
  <1>5. Request(r)'
    BY <1>1, <1>3, <1>4
    DEF FinishUpload, IInv, Request, Owner, Uploading, Asking, Downloading, Answered,
        Working, NewRow
  <1> QED
    BY <1>1, <1>2, <1>5, PrivateKeeps DEF Working, FinishUpload

LEMMA FindNothingKeeps ==
    ASSUME IInv, NEW r \in Requests, FindNothing(r)
    PROVE  IInv'
  BY PlainAnswer, ContextTypes DEF FindNothing, IInv

LEMMA GetStatusKeeps ==
    ASSUME IInv, NEW r \in Requests, GetStatus(r)
    PROVE  IInv'
  <1>1. PICK i \in Visible(r) :
            Answer(r, [Plain("ok") EXCEPT !.id = i, !.status = table[i].status,
                                          !.url = HasPDF(i)])
    BY DEF GetStatus
  <1> DEFINE answer == [Plain("ok") EXCEPT !.id = i, !.status = table[i].status,
                                           !.url = HasPDF(i)]
  <1>2. i \in Stored /\ table[i] \in Rows /\ i \in Ids /\ table[i].org = arg[r].org
    BY DEF Visible, Stored, IInv, TypeOK
  <1>3. answer \in Replies /\ answer.code = "ok" /\ answer.doc = None /\ answer.id = i
            /\ answer.status = table[i].status
    BY <1>2 DEF Plain, Replies, Codes, Rows, HasPDF
  <1> HIDE DEF answer
  <1> QED
    BY <1>1, <1>2, <1>3, AnswerPrivate, ContextTypes DEF GetStatus, IInv, answer

LEMMA GetPDFKeeps ==
    ASSUME IInv, NEW r \in Requests, GetPDF(r)
    PROVE  IInv'
  <1>1. PICK i \in Visible(r) :
            IF HasPDF(i)
              THEN /\ key' = [key EXCEPT ![r] = table[i].key]
                   /\ Goto(r, "download")
                   /\ UNCHANGED reply
              ELSE Answer(r, Plain("pdf_not_ready")) /\ UNCHANGED key
    BY DEF GetPDF
  <1>2. CASE ~HasPDF(i)
    BY <1>1, <1>2, PlainAnswer, ContextTypes DEF GetPDF, IInv, Locals
  <1>3. CASE HasPDF(i)
    <2>1. /\ i \in Stored /\ i = arg[r].id /\ table[i].org = arg[r].org
          /\ table[i].key \in Keys /\ table[i].key[3] = i /\ bucket[table[i].key] # None
      BY <1>3 DEF Visible, HasPDF, IInv, Pointers
    <2>2. Private(r) /\ pc'[r] = "download" /\ key'[r] = table[i].key /\ arg'[r] = arg[r]
      BY <1>1, <1>3 DEF GetPDF, Private, Untouched, Goto, IInv, TypeOK
    <2>3. TypeOK'
      BY <1>1, <1>3, <2>1, ContextTypes DEF GetPDF, IInv, TypeOK, Goto, Active
    <2>4. reply'[r] = None
      BY <1>1, <1>3, IdleIsUnanswered DEF GetPDF
    <2>5. Request(r)'
      BY <2>1, <2>2, <2>4 DEF GetPDF, IInv, Request, Owner, Uploading, Asking,
         Downloading, Answered, Working, Stored
    <2> QED
      BY <2>2, <2>3, <2>5, PrivateKeeps DEF Working
  <1> QED
    BY <1>2, <1>3

LEMMA DownloadKeeps ==
    ASSUME IInv, NEW r \in Requests, Download(r)
    PROVE  IInv'
  <1>1. ctx' \in [Requests -> {"live", "done"}]
    BY DEF Download, IInv, TypeOK
  <1>2. CASE Answer(r, [Plain("ok") EXCEPT !.doc = bucket[key[r]]])
    <2> DEFINE answer == [Plain("ok") EXCEPT !.doc = bucket[key[r]]]
    <2>1. /\ arg[r].id \in Stored /\ table[arg[r].id].org = arg[r].org
          /\ key[r] \in Keys /\ key[r][3] = arg[r].id /\ bucket[key[r]] # None
      BY DEF IInv, Request, Downloading, Download
    <2>2. bucket[key[r]] = Rendered(arg[r].id) /\ bucket[key[r]] \in Docs
      BY <2>1 DEF IInv, Objects, Names, TypeOK
    <2>3. answer \in Replies /\ answer.code = "ok" /\ answer.status = None
              /\ answer.id = None /\ answer.doc = bucket[key[r]]
      BY <2>2 DEF Plain, Replies, Codes
    <2>4. answer.status # "generated"
      BY <2>3, NoneIsNoData DEF Statuses
    <2> HIDE DEF answer
    <2> QED
      BY <1>1, <1>2, <2>1, <2>2, <2>3, <2>4, AnswerPrivate DEF Download, answer
  <1>3. CASE Answer(r, Plain("pdf_not_ready"))
    BY <1>1, <1>3, PlainAnswer DEF Download
  <1>4. CASE Answer(r, Plain("error"))
    BY <1>1, <1>4, PlainAnswer DEF Download
  <1> QED
    BY <1>2, <1>3, <1>4 DEF Download

LEMMA DisconnectKeeps ==
    ASSUME IInv, NEW r \in Requests, Disconnect(r)
    PROVE  IInv'
  <1>1. TypeOK' /\ Private(r) /\ Untouched(r)
    BY DEF Disconnect, IInv, TypeOK, Private, Untouched, Locals
  <1>2. Request(r)'
    BY <1>1, PrivateGrows, FrameRequest DEF IInv, Private
  <1> QED
    BY <1>1, <1>2, PrivateKeeps DEF Untouched

\* A request that a crash takes away claims nothing any more.
LEMMA CrashKeeps ==
    ASSUME IInv, Crash
    PROVE  IInv'
  <1>1. PICK victims \in SUBSET {r \in Requests : pc[r] \in Active} :
            pc' = [r \in Requests |-> IF r \in victims THEN "lost" ELSE pc[r]]
    BY DEF Crash
  <1>2. TypeOK' /\ UNCHANGED <<table, bucket, wire, arg, held, key, reply>>
    BY <1>1 DEF Crash, IInv, TypeOK, Locals
  <1>3. OneAcceptancePerWorkOrder' /\ Objects' /\ Pointers' /\ Grows
    BY <1>2 DEF IInv, OneAcceptancePerWorkOrder, Objects, Pointers, Names, Stored,
       Rendered, Grows
  <1>4. Alone'
    BY <1>1, <1>2 DEF IInv, Alone, Working
  <1>5. ASSUME NEW q \in Requests PROVE Request(q)'
    <2>1. CASE q \in victims
      <3>1. pc[q] \in Active /\ pc[q] # "replied" /\ pc'[q] = "lost"
        BY <1>1, <2>1 DEF Active, Working
      <3>2. reply'[q] = None
        BY <1>2, <3>1, IdleIsUnanswered
      <3> QED
        BY <3>1, <3>2 DEF Request, Owner, Uploading, Asking, Downloading, Answered, Working
    <2>2. CASE q \notin victims
      <3>1. Untouched(q)
        BY <1>1, <1>2, <2>2 DEF Untouched
      <3> QED
        BY <1>2, <1>3, <3>1, FrameRequest DEF IInv
    <2> QED
      BY <2>1, <2>2
  <1> QED
    BY <1>2, <1>3, <1>4, <1>5 DEF IInv

-----------------------------------------------------------------------------
(* Steps that write the table, the bucket or the wire.                     *)

LEMMA SharedKeeps ==
    ASSUME IInv, TypeOK', Grows, NEW r \in Requests,
           OneAcceptancePerWorkOrder', Objects', Pointers', Alone', Request(r)',
           \A q \in Requests \ {r} :
              /\ Untouched(q)
              /\ pc[q] \in Working => table'[held[q]] = table[held[q]]
    PROVE  IInv'
  <1>1. ASSUME NEW q \in Requests, q # r PROVE Request(q)'
    BY <1>1, FrameRequest DEF IInv
  <1> QED
    BY <1>1 DEF IInv

\* What inserting a row does to the shared state.
LEMMA InsertShared ==
    ASSUME IInv, NEW r \in Requests, arg[r] \in Submissions, NEW i \in Ids,
           Insert(r, i), UNCHANGED <<bucket, wire>>
    PROVE  /\ table' \in [Ids -> Rows \cup {None}]
           /\ table'[i] = NewRow(r)
           /\ i \in Stored'
           /\ Grows
           /\ OneAcceptancePerWorkOrder'
           /\ Objects'
           /\ Pointers'
           /\ \A q \in Requests : pc[q] \in Working =>
                 held[q] # i /\ table'[held[q]] = table[held[q]]
  <1>1. NewRow(r) \in Rows /\ NewRow(r).status = "pending"
            /\ NewRow(r).org = arg[r].org /\ NewRow(r).wo = arg[r].wo
    BY DEF NewRow, Rows, Submissions, Statuses
  <1>2. table' = [table EXCEPT ![i] = NewRow(r)] /\ i \notin Stored
    BY DEF Insert
  <1>3. table' \in [Ids -> Rows \cup {None}] /\ table'[i] = NewRow(r)
            /\ \A j \in Ids \ {i} : table'[j] = table[j]
    BY <1>1, <1>2 DEF IInv, TypeOK
  <1>4. Stored' = Stored \cup {i}
    BY <1>1, <1>3, NoneIsNoData DEF Stored
  <1>5. \A j \in Stored : j # i /\ j \in Ids /\ table'[j] = table[j] /\ Rendered(j)' = Rendered(j)
    BY <1>2, <1>3 DEF Stored, Rendered
  <1>6. Grows
    BY <1>4, <1>5 DEF Grows
  <1>7. OneAcceptancePerWorkOrder'
    BY <1>1, <1>2, <1>3, <1>4, <1>5 DEF IInv, OneAcceptancePerWorkOrder, Insert, ForWorkOrder
  <1>8. Objects'
    BY <1>4, <1>5 DEF IInv, Objects, Names
  <1>9. Pointers'
    BY <1>1, <1>3, <1>4, <1>5 DEF IInv, Pointers
  <1>10. \A q \in Requests : pc[q] \in Working =>
                 held[q] # i /\ table'[held[q]] = table[held[q]]
    <2> SUFFICES ASSUME NEW q \in Requests, pc[q] \in Working
                 PROVE  held[q] # i /\ table'[held[q]] = table[held[q]]
      OBVIOUS
    <2>1. held[q] \in Ids /\ arg[q] \in Submissions /\ table[held[q]] = NewRow(q)
      BY DEF IInv, Request, Owner
    <2>2. NewRow(q) \in Rows
      BY <2>1 DEF NewRow, Rows, Submissions, Statuses
    <2> QED
      BY <2>1, <2>2, <1>5, NoneIsNoData DEF Stored
  <1> QED
    BY <1>3, <1>4, <1>6, <1>7, <1>8, <1>9, <1>10

LEMMA CreateKeeps ==
    ASSUME IInv, NEW r \in Requests, Create(r)
    PROVE  IInv'
  <1>1. pc[r] = "create" /\ arg[r] \in Submissions /\ arg' = arg /\ reply[r] = None
            /\ arg[r].payload \in Valid /\ UNCHANGED <<bucket, wire, key, cause>>
    BY IdleIsUnanswered DEF Create, IInv, Request, Asking
  <1>2. ASSUME NEW i \in Ids, Completes(r), Insert(r, i),
               held' = [held EXCEPT ![r] = i], Goto(r, "render"), UNCHANGED reply
        PROVE  IInv'
    <2>1. TypeOK'
      BY <1>1, <1>2, InsertShared, ContextTypes DEF IInv, TypeOK, Goto, Active, Working
    <2>2. /\ pc'[r] = "render" /\ held'[r] = i /\ reply'[r] = None
          /\ \A q \in Requests \ {r} : Untouched(q)
      BY <1>1, <1>2 DEF IInv, TypeOK, Goto, Untouched
    <2>3. Alone'
      BY <1>1, <1>2, <2>2, InsertShared DEF IInv, Alone, Untouched
    <2>4. Request(r)'
      BY <1>1, <1>2, <2>2, InsertShared
      DEF Request, Owner, Uploading, Asking, Downloading, Answered, Working, NewRow
    <2> QED
      BY <1>1, <1>2, <2>1, <2>2, <2>3, <2>4, InsertShared, SharedKeeps
  <1>3. CASE Completes(r) /\ Goto(r, "reread") /\ UNCHANGED <<table, held, reply>>
    <2>1. TypeOK'
      BY <1>1, <1>3, ContextTypes DEF IInv, TypeOK, Goto, Active
    <2>2. Private(r) /\ pc'[r] = "reread"
      BY <1>1, <1>3 DEF IInv, TypeOK, Private, Untouched, Goto
    <2>3. Request(r)'
      BY <1>1, <1>3, <2>2
      DEF Request, Owner, Uploading, Asking, Downloading, Answered, Working
    <2> QED
      BY <2>1, <2>2, <2>3, PrivateKeeps DEF Working
  <1>4. ASSUME NEW i \in Ids, ResultLost(r), Insert(r, i),
               Answer(r, Plain("error")), UNCHANGED held
        PROVE  IInv'
    <2>1. Plain("error") \in Replies /\ "error" \in Codes
      BY PlainReplies DEF Codes
    <2>2. TypeOK'
      BY <1>1, <1>4, <2>1, InsertShared, ContextTypes DEF IInv, TypeOK, Answer, Goto
    <2>3. /\ pc'[r] = "replied" /\ reply'[r] = Plain("error")
          /\ \A q \in Requests \ {r} : Untouched(q)
      BY <1>1, <1>4 DEF IInv, TypeOK, Answer, Goto, Untouched
    <2>4. Alone'
      BY <1>4, <2>3 DEF IInv, Alone, Untouched, Working
    <2>5. Request(r)'
      BY <2>1, <2>3, PlainReplies
      DEF Request, Owner, Uploading, Asking, Downloading, Answered, Working
    <2> QED
      BY <1>1, <1>4, <2>2, <2>3, <2>4, <2>5, InsertShared, SharedKeeps
  <1>5. CASE Fails(r) /\ Answer(r, Plain("error")) /\ UNCHANGED <<table, held>>
    BY <1>1, <1>5, PlainAnswer, ContextTypes DEF IInv, Locals
  <1> QED
    BY <1>2, <1>3, <1>4, <1>5 DEF Create

\* What a submission at work holds.
LEMMA HeldRow ==
    ASSUME IInv, NEW r \in Requests, pc[r] \in Working
    PROVE  /\ arg[r] \in Submissions
           /\ held[r] \in Ids /\ held[r] \in Stored
           /\ table[held[r]] = NewRow(r)
           /\ table[held[r]] \in Rows
           /\ table[held[r]].status = "pending"
           /\ table[held[r]].org = arg[r].org
           /\ table[held[r]].wo = arg[r].wo
           /\ table[held[r]].payload = arg[r].payload
           /\ reply[r] = None
  <1>1. arg[r] \in Submissions /\ held[r] \in Ids /\ table[held[r]] = NewRow(r)
    BY DEF IInv, Request, Owner
  <1>2. /\ NewRow(r) \in Rows /\ NewRow(r).status = "pending"
        /\ NewRow(r).org = arg[r].org /\ NewRow(r).wo = arg[r].wo
        /\ NewRow(r).payload = arg[r].payload
    BY <1>1 DEF NewRow, Rows, Submissions, Statuses
  <1> QED
    BY <1>1, <1>2, NoneIsNoData, IdleIsUnanswered DEF Stored, Working

LEMMA StartUploadKeeps ==
    ASSUME IInv, NEW r \in Requests, StartUpload(r)
    PROVE  IInv'
  <1>1. /\ pc[r] = "upload" /\ pc[r] \in Working
        /\ UNCHANGED <<table, bucket, ctx, arg, held, reply>>
    BY DEF StartUpload, Working
  <1>2. CASE UploadFailed(r) /\ UNCHANGED <<key, wire>>
    <2>1. TypeOK' /\ Private(r) /\ pc'[r] = "mark_failed"
      BY <1>1, <1>2 DEF UploadFailed, IInv, TypeOK, Goto, Active, Working, Causes, Errors,
         Private, Untouched
    <2>2. Request(r)'
      BY <1>1, <2>1, HeldRow DEF Request, Owner, Uploading, Asking, Downloading, Answered,
         Working, NewRow
    <2> QED
      BY <1>1, <2>1, <2>2, PrivateKeeps
  <1>3. ASSUME NEW p \in Prefixes,
               key' = [key EXCEPT ![r] = <<p, table[held[r]].org, held[r]>>],
               wire' = wire \cup {[key |-> <<p, table[held[r]].org, held[r]>>,
                                   doc |-> Rendered(held[r])]},
               Goto(r, "uploading"), UNCHANGED cause
        PROVE  IInv'
    <2> DEFINE k == <<p, table[held[r]].org, held[r]>>
    <2>1. table[held[r]].org \in Orgs
      BY <1>1, HeldRow DEF Rows
    <2>2. k \in Keys /\ k[3] = held[r]
      BY <1>1, <2>1, HeldRow DEF Keys
    <2>3. Rendered(held[r]) \in Docs /\ Rendered(held[r]).id = held[r]
      BY <1>1, HeldRow, SnapshotFields DEF IInv
    <2> HIDE DEF k
    <2>4. TypeOK'
      BY <1>1, <1>3, <2>2, <2>3 DEF IInv, TypeOK, Goto, Active, Working, Posts, k
    <2>5. /\ pc'[r] = "uploading" /\ key'[r] = k /\ held'[r] = held[r]
          /\ \A q \in Requests \ {r} : Untouched(q)
      BY <1>1, <1>3 DEF IInv, TypeOK, Goto, Untouched, k
    <2>6. Grows /\ OneAcceptancePerWorkOrder' /\ Pointers'
      BY <1>1 DEF IInv, Grows, OneAcceptancePerWorkOrder, Pointers, Stored, Rendered
    <2>7. Rendered(held[r]).payload \in Renderable
      BY <1>1, HeldRow, SnapshotFields DEF IInv, Request, Asking
    <2>8. Objects'
      BY <1>1, <1>3, <2>2, <2>3, <2>7, HeldRow DEF IInv, Objects, Names, Stored, Rendered, k
    <2>9. Alone'
      BY <1>1, <2>5 DEF IInv, Alone, Untouched
    <2>10. Request(r)'
      BY <1>1, <2>2, <2>5, HeldRow
      DEF Request, Owner, Uploading, Asking, Downloading, Answered, Working, NewRow
    <2> QED
      BY <1>1, <2>4, <2>5, <2>6, <2>8, <2>9, <2>10, SharedKeeps
  <1> QED
    BY <1>2, <1>3 DEF StartUpload

LEMMA BucketAcceptsKeeps ==
    ASSUME IInv, NEW m \in wire, BucketAccepts(m)
    PROVE  IInv'
  <1>1. /\ m.key \in Keys /\ m.doc \in Docs /\ bucket[m.key] = None
        /\ bucket' = [bucket EXCEPT ![m.key] = m.doc]
        /\ UNCHANGED <<table, wire, pc, ctx, arg, held, key, cause, reply>>
    BY DEF BucketAccepts, IInv, TypeOK, Posts, Locals
  <1>2. TypeOK' /\ \A q \in Requests : Untouched(q)
    BY <1>1 DEF IInv, TypeOK, Untouched
  <1>3. Grows
    BY <1>1 DEF IInv, TypeOK, Grows, Stored, Rendered
  <1>4. OneAcceptancePerWorkOrder' /\ Alone'
    BY <1>1 DEF IInv, OneAcceptancePerWorkOrder, Alone, Stored
  <1>5. Objects'
    BY <1>1 DEF IInv, TypeOK, Objects, Names, Stored, Rendered
  <1>6. Pointers'
    BY <1>1, <1>3 DEF IInv, Pointers, Grows, Stored
  <1>7. ASSUME NEW q \in Requests PROVE Request(q)'
    BY <1>1, <1>2, <1>3, FrameRequest DEF IInv
  <1> QED
    BY <1>2, <1>4, <1>5, <1>6, <1>7 DEF IInv

\* What an UPDATE of the row a submission works on does to the shared state.
LEMMA UpdateShared ==
    ASSUME IInv, NEW r \in Requests, pc[r] \in Working, NEW row \in Rows,
           table' = [table EXCEPT ![held[r]] = row], UNCHANGED <<bucket, wire>>,
           row.org = arg[r].org, row.wo = arg[r].wo, row.payload = arg[r].payload,
           row.status = "generated" =>
              row.key \in Keys /\ row.key[3] = held[r] /\ bucket[row.key] # None
    PROVE  /\ table' \in [Ids -> Rows \cup {None}]
           /\ table'[held[r]] = row
           /\ Grows
           /\ OneAcceptancePerWorkOrder'
           /\ Objects'
           /\ Pointers'
           /\ \A q \in Requests \ {r} : pc[q] \in Working =>
                 table'[held[q]] = table[held[q]]
  <1>1. /\ held[r] \in Ids /\ held[r] \in Stored /\ table[held[r]].status = "pending"
        /\ table[held[r]].org = row.org /\ table[held[r]].wo = row.wo
        /\ table[held[r]].payload = row.payload
    BY HeldRow
  <1>2. /\ table' \in [Ids -> Rows \cup {None}] /\ table'[held[r]] = row
        /\ \A j \in Ids \ {held[r]} : table'[j] = table[j]
    BY <1>1 DEF IInv, TypeOK
  <1>3. Stored' = Stored
    BY <1>1, <1>2, NoneIsNoData DEF Stored
  <1>4. \A j \in Stored : /\ j \in Ids /\ Rendered(j)' = Rendered(j)
                          /\ table'[j].org = table[j].org /\ table'[j].wo = table[j].wo
    BY <1>1, <1>2 DEF Stored, Rendered
  <1>5. Grows
    BY <1>1, <1>2, <1>3, <1>4 DEF Grows
  <1>6. OneAcceptancePerWorkOrder'
    BY <1>3, <1>4 DEF IInv, OneAcceptancePerWorkOrder
  <1>7. Objects'
    BY <1>3, <1>4 DEF IInv, Objects, Names
  <1>8. Pointers'
    BY <1>2, <1>3, <1>4 DEF IInv, Pointers
  <1>9. ASSUME NEW q \in Requests \ {r}, pc[q] \in Working
        PROVE  table'[held[q]] = table[held[q]]
    <2>1. held[q] # held[r]
      BY <1>9 DEF IInv, Alone
    <2>2. held[q] \in Ids
      BY <1>9, HeldRow
    <2> QED
      BY <1>2, <2>1, <2>2
  <1> QED
    BY <1>2, <1>5, <1>6, <1>7, <1>8, <1>9

LEMMA MarkKeeps ==
    ASSUME IInv, NEW r \in Requests, pc[r] \in Working, NEW row \in Rows, Mark(r, row),
           UNCHANGED <<bucket, wire, Locals>>,
           row.org = arg[r].org, row.wo = arg[r].wo, row.payload = arg[r].payload,
           row.status = "generated" =>
              row.key \in Keys /\ row.key[3] = held[r] /\ bucket[row.key] # None
    PROVE  IInv'
  <1>1. held[r] \in Ids /\ held[r] \in Stored
    BY HeldRow
  <1>2. ASSUME NEW answer \in Replies, Answer(r, answer),
               table' = [table EXCEPT ![held[r]] = row],
               ctx' \in [Requests -> {"live", "done"}],
               answer.doc = None, answer.status \in {row.status, None},
               answer.id \in {held[r], None},
               answer.code = "accepted" \/ answer.status = "generated" => answer.id = held[r]
        PROVE  IInv'
    <2>1. TypeOK'
      BY <1>2, UpdateShared DEF IInv, TypeOK, Answer, Goto, Locals
    <2>2. /\ pc'[r] = "replied" /\ reply'[r] = answer /\ arg'[r] = arg[r]
          /\ \A q \in Requests \ {r} : Untouched(q)
      BY <1>2 DEF IInv, TypeOK, Answer, Goto, Untouched, Locals
    <2>3. Alone'
      BY <2>2 DEF IInv, Alone, Untouched, Working
    <2>4. table'[held[r]] = row /\ held[r] \in Stored'
      BY <1>1, <1>2, UpdateShared, NoneIsNoData DEF Stored
    <2>5. Request(r)'
      BY <1>2, <2>2, <2>4, NoneIsNoData
      DEF Request, Owner, Uploading, Asking, Downloading, Answered, Working, Statuses
    <2> QED
      BY <1>2, <2>1, <2>2, <2>3, <2>5, UpdateShared, SharedKeeps
  <1>3. CASE /\ Completes(r) /\ held[r] \in Stored
             /\ table' = [table EXCEPT ![held[r]] = row]
             /\ Answer(r, Accepted(table', held[r]))
    <2>1. table' \in [Ids -> Rows \cup {None}] /\ table'[held[r]] = row /\ row # None
      BY <1>3, UpdateShared, NoneIsNoData
    <2>2. /\ Accepted(table', held[r]) \in Replies
          /\ Accepted(table', held[r]).id = held[r]
          /\ Accepted(table', held[r]).status = row.status
          /\ Accepted(table', held[r]).doc = None
      BY <1>1, <2>1, AcceptedReplies
    <2> QED
      BY <1>2, <1>3, <2>2, ContextTypes DEF IInv
  <1>4. CASE /\ ResultLost(r) /\ held[r] \in Stored
             /\ table' = [table EXCEPT ![held[r]] = row]
             /\ Answer(r, Plain("error"))
    <2>1. /\ Plain("error") \in Replies /\ Plain("error").doc = None
          /\ Plain("error").status = None /\ Plain("error").code = "error"
          /\ Plain("error").id = None
          /\ Plain("error").status # "generated"
      BY PlainReplies DEF Codes, Plain
    <2> QED
      BY <1>2, <1>4, <2>1, ContextTypes DEF IInv
  <1>5. CASE Fails(r) /\ Answer(r, Plain("error")) /\ UNCHANGED table
    BY <1>5, PlainAnswer, ContextTypes DEF IInv
  <1> QED
    BY <1>1, <1>3, <1>4, <1>5 DEF Mark

LEMMA MarkPDFGeneratedKeeps ==
    ASSUME IInv, NEW r \in Requests, MarkPDFGenerated(r)
    PROVE  IInv'
  <1> DEFINE row == [table[held[r]] EXCEPT !.status = "generated", !.key = key[r],
                                           !.error = None]
  <1>1. pc[r] = "mark_generated" /\ pc[r] \in Working
    BY DEF MarkPDFGenerated, Working
  <1>2. key[r] \in Keys /\ key[r][3] = held[r] /\ bucket[key[r]] # None
    BY <1>1 DEF IInv, Request, Uploading
  <1>3. ASSUME NEW old \in Rows, NEW k \in Keys
        PROVE  LET new == [old EXCEPT !.status = "generated", !.key = k, !.error = None]
               IN  /\ new \in Rows /\ new.key = k /\ new.org = old.org
                   /\ new.wo = old.wo /\ new.payload = old.payload
    BY DEF Rows, Statuses
  <1>4. /\ row \in Rows /\ row.key = key[r] /\ row.org = arg[r].org
        /\ row.wo = arg[r].wo /\ row.payload = arg[r].payload
    BY <1>1, <1>2, <1>3, HeldRow
  <1> HIDE DEF row
  <1> QED
    BY <1>1, <1>2, <1>4, MarkKeeps DEF MarkPDFGenerated, row

\* A text that Postgres takes is one that a row may hold.
LEMMA StorableCauses ==
    ASSUME TypeOK, NEW r \in Requests, Storable(cause[r])
    PROVE  cause[r] \in Errors \cup {None}
  BY DEF TypeOK, Storable, Causes

LEMMA MarkPDFFailedKeeps ==
    ASSUME IInv, NEW r \in Requests, MarkPDFFailed(r)
    PROVE  IInv'
  <1> DEFINE row == [table[held[r]] EXCEPT !.status = "failed", !.error = cause[r]]
  <1>1. pc[r] = "mark_failed" /\ pc[r] \in Working /\ UNCHANGED <<bucket, wire, Locals>>
    BY DEF MarkPDFFailed, Working
  <1>2. CASE Storable(cause[r]) /\ Mark(r, row)
    <2>1. cause[r] \in Errors \cup {None}
      BY <1>2, StorableCauses DEF IInv
    <2>2. /\ row \in Rows /\ row.status = "failed" /\ row.org = arg[r].org
          /\ row.wo = arg[r].wo /\ row.payload = arg[r].payload
      BY <1>1, <2>1, HeldRow DEF Rows, Statuses
    <2> HIDE DEF row
    <2> QED
      BY <1>1, <1>2, <2>2, MarkKeeps
  <1>3. CASE RefuseText(r)
    BY <1>1, <1>3, PlainAnswer DEF RefuseText, IInv, TypeOK
  <1> QED
    BY <1>2, <1>3 DEF MarkPDFFailed

-----------------------------------------------------------------------------
LEMMA NextKeeps ==
    ASSUME IInv, [Next]_vars
    PROVE  IInv'
  <1>1. CASE UNCHANGED vars
    BY <1>1 DEF vars, Locals, IInv, TypeOK, OneAcceptancePerWorkOrder, Alone, Objects,
       Pointers, Request, Owner, Uploading, Asking, Downloading, Answered, Stored,
       Names, Rendered, NewRow
  <1>2. ASSUME NEW r \in Requests, Submit(r) \/ Read(r) \/ Step(r) \/ Disconnect(r)
        PROVE  IInv'
    BY <1>2, SubmitKeeps, ReadKeeps, LookupKeeps, CreateKeeps, RereadKeeps, RenderKeeps,
       StartUploadKeeps, FinishUploadKeeps, MarkPDFGeneratedKeeps, MarkPDFFailedKeeps,
       FindNothingKeeps, GetStatusKeeps, GetPDFKeeps, DownloadKeeps, DisconnectKeeps
    DEF Step
  <1>3. ASSUME NEW m \in wire, BucketAccepts(m)
        PROVE  IInv'
    BY <1>3, BucketAcceptsKeeps
  <1>4. CASE Crash
    BY <1>4, CrashKeeps
  <1> QED
    BY <1>1, <1>2, <1>3, <1>4 DEF Next

LEMMA Invariance == Spec => []IInv
  BY Initially, NextKeeps, PTL DEF Spec

(* The invariants of the runs follow.                                      *)

\* Every variable keeps its type: nothing that is absent is ever dereferenced.
THEOREM TypeCorrectness == Spec => []TypeOK
  BY Invariance, PTL DEF IInv

\* An organization never has two acceptances for one work order.
THEOREM AtMostOneAcceptance == Spec => []OneAcceptancePerWorkOrder
  BY Invariance, PTL DEF IInv

\* A record is worked on only by the submission that inserted it, and is
\* pending while it is.
THEOREM WorkersAreAlone == Spec => []SoleWorker
  <1>1. IInv => SoleWorker
    BY HeldRow DEF SoleWorker, IInv, Alone
  <1> QED
    BY <1>1, Invariance, PTL

\* The key of a generated row leads to the document of that very row.
THEOREM GeneratedMeansStored == Spec => []GeneratedIsStored
  <1>1. IInv => GeneratedIsStored
    <2> SUFFICES ASSUME IInv, NEW i \in Stored, table[i].status = "generated"
                 PROVE  table[i].key # None /\ bucket[table[i].key] = Rendered(i)
      BY DEF GeneratedIsStored
    <2>1. table[i].key \in Keys /\ table[i].key[3] = i /\ bucket[table[i].key] # None
      BY DEF IInv, Pointers
    <2> QED
      BY <2>1, NoneIsNoData DEF IInv, Objects, Names
  <1> QED
    BY <1>1, Invariance, PTL

\* All submissions for a work order are answered with the same acceptance.
THEOREM SubmissionsGetOneAnswer == Spec => []SubmissionsAgree
  <1>1. IInv => SubmissionsAgree
    <2> SUFFICES ASSUME IInv, NEW r \in Requests, reply[r] # None,
                        reply[r].code = "accepted"
                 PROVE  ForWorkOrder(arg[r].org, arg[r].wo) = {reply[r].id}
      BY DEF SubmissionsAgree
    <2>1. /\ reply[r].id \in Stored /\ table[reply[r].id].org = arg[r].org
          /\ table[reply[r].id].wo = arg[r].wo
      BY DEF IInv, Request, Answered
    <2> QED
      BY <2>1 DEF IInv, OneAcceptancePerWorkOrder, ForWorkOrder
  <1> QED
    BY <1>1, Invariance, PTL

\* No PDF is served to another organization or for another acceptance.
THEOREM ReadersAreIsolated == Spec => []ReadersGetTheirOwn
  <1>1. IInv => ReadersGetTheirOwn
    BY DEF IInv, Request, Answered, ReadersGetTheirOwn, Stored
  <1> QED
    BY <1>1, Invariance, PTL

-----------------------------------------------------------------------------
(* What a step may do to the table and the bucket, handler by handler.     *)

\* The row a submission writes when it is done: its own, settled, with the
\* snapshot it was created with.
Settled(r, row) ==
    /\ row \in Rows
    /\ row.org = table[held[r]].org
    /\ row.wo = table[held[r]].wo
    /\ row.payload = table[held[r]].payload
    /\ \/ row.status = "failed"
       \/ /\ row.status = "generated" /\ row.key \in Keys
          /\ bucket[row.key] = Rendered(held[r])

Inserts == \E r \in Requests, i \in Ids :
              /\ pc[r] = "create" /\ Insert(r, i)
              /\ ResultLost(r) \/ (pc'[r] = "render" /\ held'[r] = i)
              /\ UNCHANGED bucket

Settles == \E r \in Requests, row \in Rows :
              /\ pc[r] \in Working /\ Settled(r, row)
              /\ table' = [table EXCEPT ![held[r]] = row]
              /\ UNCHANGED bucket

Stores == (\E m \in wire : BucketAccepts(m)) /\ UNCHANGED table

\* A row a handler built from the one it holds keeps the snapshot.
LEMMA SettlingRows ==
    ASSUME IInv, NEW r \in Requests, pc[r] \in Working
    PROVE  /\ pc[r] = "mark_generated" =>
                Settled(r, [table[held[r]] EXCEPT !.status = "generated", !.key = key[r],
                                                  !.error = None])
           /\ Storable(cause[r]) =>
                Settled(r, [table[held[r]] EXCEPT !.status = "failed", !.error = cause[r]])
  <1>1. ASSUME NEW old \in Rows, NEW k \in Keys
        PROVE  LET new == [old EXCEPT !.status = "generated", !.key = k, !.error = None]
               IN  /\ new \in Rows /\ new.key = k /\ new.status = "generated"
                   /\ new.org = old.org /\ new.wo = old.wo /\ new.payload = old.payload
    BY DEF Rows, Statuses
  <1>2. ASSUME NEW old \in Rows, NEW c \in Errors \cup {None}
        PROVE  LET new == [old EXCEPT !.status = "failed", !.error = c]
               IN  /\ new \in Rows /\ new.status = "failed"
                   /\ new.org = old.org /\ new.wo = old.wo /\ new.payload = old.payload
    BY DEF Rows, Statuses
  <1>3. table[held[r]] \in Rows
    BY HeldRow
  <1>4. pc[r] = "mark_generated" =>
            key[r] \in Keys /\ bucket[key[r]] = Rendered(held[r])
    <2> SUFFICES ASSUME pc[r] = "mark_generated"
                 PROVE  key[r] \in Keys /\ bucket[key[r]] = Rendered(held[r])
      OBVIOUS
    <2>1. key[r] \in Keys /\ key[r][3] = held[r] /\ bucket[key[r]] # None
      BY DEF IInv, Request, Uploading
    <2> QED
      BY <2>1 DEF IInv, Objects, Names
  <1>5. ASSUME pc[r] = "mark_generated"
        PROVE  Settled(r, [table[held[r]] EXCEPT !.status = "generated", !.key = key[r],
                                                 !.error = None])
    <2> DEFINE row == [table[held[r]] EXCEPT !.status = "generated", !.key = key[r],
                                             !.error = None]
    <2>1. /\ row \in Rows /\ row.key = key[r] /\ row.status = "generated"
          /\ row.org = table[held[r]].org /\ row.wo = table[held[r]].wo
          /\ row.payload = table[held[r]].payload
      BY <1>1, <1>3, <1>4, <1>5
    <2> HIDE DEF row
    <2>2. Settled(r, row)
      BY <1>4, <1>5, <2>1 DEF Settled
    <2> QED
      BY <2>2 DEF row
  <1>6. ASSUME Storable(cause[r])
        PROVE  Settled(r, [table[held[r]] EXCEPT !.status = "failed", !.error = cause[r]])
    <2> DEFINE row == [table[held[r]] EXCEPT !.status = "failed", !.error = cause[r]]
    <2>1. /\ row \in Rows /\ row.status = "failed"
          /\ row.org = table[held[r]].org /\ row.wo = table[held[r]].wo
          /\ row.payload = table[held[r]].payload
      BY <1>2, <1>3, <1>6, StorableCauses DEF IInv
    <2> HIDE DEF row
    <2>2. Settled(r, row)
      BY <2>1 DEF Settled
    <2> QED
      BY <2>2 DEF row
  <1> QED
    BY <1>5, <1>6

\* The two UPDATEs settle a row that is being worked on, or change nothing.
LEMMA MarkShapes ==
    ASSUME IInv, NEW r \in Requests, MarkPDFGenerated(r) \/ MarkPDFFailed(r)
    PROVE  UNCHANGED <<table, bucket>> \/ Settles
  <1>1. CASE MarkPDFGenerated(r)
    <2> DEFINE row == [table[held[r]] EXCEPT !.status = "generated", !.key = key[r],
                                             !.error = None]
    <2>1. pc[r] \in Working /\ Settled(r, row)
      BY <1>1, SettlingRows DEF MarkPDFGenerated, Working
    <2> HIDE DEF row
    <2>2. row \in Rows
      BY <2>1 DEF Settled
    <2>3. UNCHANGED bucket
      BY <1>1 DEF MarkPDFGenerated
    <2>4. UNCHANGED table \/ table' = [table EXCEPT ![held[r]] = row]
      BY <1>1, SMTT(30) DEF MarkPDFGenerated, Mark, row
    <2> QED
      BY <2>1, <2>2, <2>3, <2>4, SMTT(30) DEF Settles
  <1>2. CASE MarkPDFFailed(r) /\ Storable(cause[r])
    <2> DEFINE row == [table[held[r]] EXCEPT !.status = "failed", !.error = cause[r]]
    <2>1. pc[r] \in Working /\ Settled(r, row)
      BY <1>2, SettlingRows DEF MarkPDFFailed, Working
    <2> HIDE DEF row
    <2>2. row \in Rows
      BY <2>1 DEF Settled
    <2>3. UNCHANGED bucket
      BY <1>2 DEF MarkPDFFailed
    <2>4. UNCHANGED table \/ table' = [table EXCEPT ![held[r]] = row]
      BY <1>2 DEF MarkPDFFailed, RefuseText, Mark, row
    <2> QED
      BY <2>1, <2>2, <2>3, <2>4, ZenonT(30) DEF Settles
  <1>3. CASE MarkPDFFailed(r) /\ ~Storable(cause[r])
    BY <1>3 DEF MarkPDFFailed, RefuseText
  <1> QED
    BY <1>1, <1>2, <1>3

LEMMA StepShapes ==
    ASSUME IInv, [Next]_vars
    PROVE  UNCHANGED <<table, bucket>> \/ Inserts \/ Settles \/ Stores
  <1>1. ASSUME NEW r \in Requests, Create(r)
        PROVE  UNCHANGED <<table, bucket>> \/ Inserts
    BY <1>1 DEF Create, Inserts, Goto, IInv, TypeOK
  <1>2. ASSUME NEW r \in Requests, MarkPDFGenerated(r) \/ MarkPDFFailed(r)
        PROVE  UNCHANGED <<table, bucket>> \/ Settles
    BY <1>2, MarkShapes
  <1>3. ASSUME NEW r \in Requests, Submit(r) \/ Read(r) \/ Disconnect(r)
        PROVE  UNCHANGED <<table, bucket>>
    BY <1>3 DEF Submit, Read, Disconnect
  <1>4. ASSUME NEW r \in Requests,
               Lookup(r) \/ Reread(r) \/ Render(r) \/ StartUpload(r) \/ FinishUpload(r)
                  \/ FindNothing(r) \/ GetStatus(r) \/ GetPDF(r) \/ Download(r)
        PROVE  UNCHANGED <<table, bucket>>
    BY <1>4 DEF Lookup, Reread, Render, StartUpload, FinishUpload, FindNothing, GetStatus,
       GetPDF, Download
  <1>5. ASSUME NEW m \in wire, BucketAccepts(m)
        PROVE  Stores
    BY <1>5 DEF BucketAccepts, Stores
  <1> QED
    BY <1>1, <1>2, <1>3, <1>4, <1>5 DEF Next, Step, Crash, vars

LEMMA TableKept ==
    ASSUME IInv, [Next]_vars, NEW i \in Stored
    PROVE  /\ table'[i] # None
           /\ Rendered(i)' = Rendered(i)
           /\ table[i].status # "pending" => table'[i] = table[i]
  <1>1. CASE UNCHANGED table
    BY <1>1 DEF Stored, Rendered
  <1>2. CASE Inserts
    BY <1>2 DEF Inserts, Insert, Stored, Rendered, IInv, TypeOK
  <1>3. CASE Settles
    <2>1. PICK r \in Requests, row \in Rows :
              /\ pc[r] \in Working /\ Settled(r, row)
              /\ table' = [table EXCEPT ![held[r]] = row]
      BY <1>3 DEF Settles
    <2>2. /\ held[r] \in Ids /\ table[held[r]].status = "pending" /\ row # None
          /\ table'[held[r]] = row
          /\ \A j \in Ids \ {held[r]} : table'[j] = table[j]
      BY <2>1, HeldRow, NoneIsNoData DEF IInv, TypeOK
    <2>3. \A j \in Ids : Rendered(j)' = Rendered(j)
      BY <2>1, <2>2 DEF Settled, Rendered
    <2> QED
      BY <2>2, <2>3 DEF Stored
  <1> QED
    BY <1>1, <1>2, <1>3, StepShapes DEF Stores

\* Once accepted, an acceptance stays and keeps its snapshot; once settled, its
\* row is never written again.
THEOREM Settlement == Spec => SettledForever
  <1> DEFINE Kept == \A i \in Stored :
                /\ table'[i] # None
                /\ Rendered(i)' = Rendered(i)
                /\ table[i].status # "pending" => table'[i] = table[i]
  <1>1. IInv /\ [Next]_vars => [Kept]_vars
    BY TableKept
  <1> QED
    BY <1>1, Invariance, PTL DEF Spec, SettledForever

\* Only two handlers say that a PDF is not ready, and what each of them saw.
LEMMA NotReadySteps ==
    ASSUME IInv, [Next]_vars, NEW r \in Requests, reply'[r] # reply[r],
           reply'[r].code = "pdf_not_ready"
    PROVE  \/ pc[r] = "find" /\ \E i \in Visible(r) : ~HasPDF(i)
           \/ pc[r] = "download" /\ bucket[key[r]] = None
  <1>1. ASSUME NEW q \in Requests, NEW answer, Answer(q, answer)
        PROVE  q = r /\ reply'[r] = answer
    BY <1>1 DEF Answer, IInv, TypeOK
  <1>2. \A code \in Codes : code # "pdf_not_ready" => ~Answer(r, Plain(code))
    BY <1>1, PlainReplies
  <1>3. {"accepted", "ok", "bad_request", "not_found", "error"} \subseteq Codes
    BY DEF Codes
  <1>4. ASSUME NEW q \in Requests, Submit(q) \/ Read(q) \/ Disconnect(q) PROVE FALSE
    BY <1>1, <1>2, <1>3, <1>4 DEF Submit, Read, Disconnect
  <1>5. ASSUME NEW t, NEW i, NEW q \in Requests, Answer(q, Accepted(t, i)) PROVE FALSE
    <2>1. Accepted(t, i).code = "accepted"
      BY DEF Accepted, Plain
    <2> QED
      BY <1>1, <1>5, <2>1
  <1>6. ASSUME NEW q \in Requests, Lookup(q) \/ Create(q) \/ Reread(q) PROVE FALSE
    BY <1>1, <1>2, <1>3, <1>5, <1>6 DEF Lookup, Create, Reread
  <1>7. ASSUME NEW q \in Requests, Render(q) \/ StartUpload(q) \/ FinishUpload(q) PROVE FALSE
    BY <1>7 DEF Render, StartUpload, FinishUpload
  <1>8. ASSUME NEW q \in Requests, MarkPDFGenerated(q) \/ MarkPDFFailed(q) PROVE FALSE
    BY <1>1, <1>2, <1>3, <1>5, <1>8 DEF MarkPDFGenerated, MarkPDFFailed, RefuseText, Mark
  <1>9. ASSUME NEW q \in Requests, FindNothing(q) \/ GetStatus(q) PROVE FALSE
    <2>1. CASE FindNothing(q)
      BY <1>1, <1>2, <1>3, <2>1 DEF FindNothing
    <2>2. CASE GetStatus(q)
      <3>1. PICK i \in Visible(q) :
                Answer(q, [Plain("ok") EXCEPT !.id = i, !.status = table[i].status,
                                              !.url = HasPDF(i)])
        BY <2>2 DEF GetStatus
      <3>2. [Plain("ok") EXCEPT !.id = i, !.status = table[i].status,
                                !.url = HasPDF(i)].code = "ok"
        BY DEF Plain
      <3> QED
        BY <1>1, <3>1, <3>2
    <2> QED
      BY <1>9, <2>1, <2>2
  <1>10. ASSUME NEW q \in Requests, GetPDF(q)
         PROVE  q = r /\ pc[r] = "find" /\ \E i \in Visible(r) : ~HasPDF(i)
    BY <1>1, <1>10 DEF GetPDF
  <1>11. ASSUME NEW q \in Requests, Download(q)
         PROVE  q = r /\ pc[r] = "download" /\ bucket[key[r]] = None
    <2>1. [Plain("ok") EXCEPT !.doc = bucket[key[q]]].code = "ok"
      BY DEF Plain
    <2> QED
      BY <1>1, <1>2, <1>3, <1>11, <2>1 DEF Download
  <1> QED
    BY <1>4, <1>6, <1>7, <1>8, <1>9, <1>10, <1>11 DEF Next, Step, Crash, BucketAccepts, vars

\* A client that was told an acceptance's PDF is there can rely on it: nobody
\* is told ErrPDFNotReady for it afterwards.
THEOREM ReadinessIsKept == Spec => ReadyStaysReady
  <1> DEFINE Kept ==
        \A r, q \in Requests :
            /\ reply[q] # None /\ reply[q].status = "generated"
            /\ arg[r] \in Reads /\ arg[r].id = reply[q].id
            /\ reply'[r] # reply[r]
            => reply'[r].code # "pdf_not_ready"
  <1>1. ASSUME IInv, [Next]_vars PROVE Kept
    <2> SUFFICES ASSUME NEW r \in Requests, NEW q \in Requests,
                        reply[q] # None, reply[q].status = "generated",
                        arg[r].id = reply[q].id, reply'[r] # reply[r],
                        reply'[r].code = "pdf_not_ready"
                 PROVE  FALSE
      OBVIOUS
    <2>1. arg[r].id \in Stored /\ table[arg[r].id].status = "generated"
      BY <1>1 DEF IInv, Request, Answered
    <2>2. HasPDF(arg[r].id)
      BY <1>1, <2>1, NoneIsNoData DEF IInv, Pointers, HasPDF
    <2>3. pc[r] = "download" => bucket[key[r]] # None
      BY <1>1 DEF IInv, Request, Downloading
    <2> QED
      BY <1>1, <2>2, <2>3, NotReadySteps DEF Visible
  <1>2. IInv /\ [Next]_vars => [Kept]_vars
    BY <1>1
  <1> QED
    BY <1>2, Invariance, PTL DEF Spec, ReadyStaysReady

\* A step of one request is none of another.
LEMMA OthersStay ==
    ASSUME IInv, NEW r \in Requests, NEW q \in Requests, q # r,
           Submit(q) \/ Read(q) \/ Step(q) \/ Disconnect(q)
    PROVE  Untouched(r)
  <1>1. CASE Submit(q) \/ Read(q) \/ Disconnect(q)
    BY <1>1 DEF Submit, Read, Disconnect, Goto, Answer, Locals, Untouched, IInv, TypeOK
  <1>2. CASE Lookup(q) \/ Create(q) \/ Reread(q) \/ Render(q)
    BY <1>2 DEF Lookup, Create, Reread, Render, Goto, Answer, Locals, Untouched, IInv, TypeOK
  <1>3. CASE StartUpload(q) \/ FinishUpload(q)
    BY <1>3 DEF StartUpload, FinishUpload, UploadFailed, Goto, Untouched, IInv, TypeOK
  <1>4. CASE MarkPDFGenerated(q) \/ MarkPDFFailed(q)
    BY <1>4 DEF MarkPDFGenerated, MarkPDFFailed, RefuseText, Mark, Goto, Answer, Locals,
      Untouched, IInv,
       TypeOK
  <1>5. CASE FindNothing(q) \/ GetStatus(q) \/ GetPDF(q) \/ Download(q)
    BY <1>5 DEF FindNothing, GetStatus, GetPDF, Download, Goto, Answer, Locals, Untouched,
       IInv, TypeOK
  <1> QED
    BY <1>1, <1>2, <1>3, <1>4, <1>5 DEF Step

-----------------------------------------------------------------------------
(* A pending record that nobody works on, as a crash, a client that left   *)
(* or a lost database result leaves it.                                    *)

Stranded(i) ==
    /\ i \in Stored /\ table[i].status = "pending"
    /\ \A r \in Requests : pc[r] \in Working => held[r] # i

\* A submission works on the row it has worked on, or on one it just inserted.
LEMMA WorkBegins ==
    ASSUME IInv, [Next]_vars, NEW r \in Requests, pc'[r] \in Working
    PROVE  \/ pc[r] \in Working /\ held'[r] = held[r]
           \/ held'[r] \notin Stored
  <1> DEFINE Goal == (pc[r] \in Working /\ held'[r] = held[r]) \/ held'[r] \notin Stored
  <1>1. ASSUME NEW q \in Requests, q # r,
               Submit(q) \/ Read(q) \/ Step(q) \/ Disconnect(q)
        PROVE  Goal
    BY <1>1, OthersStay DEF Untouched
  <1>2. CASE Submit(r) \/ Read(r) \/ Disconnect(r)
    BY <1>2 DEF Submit, Read, Disconnect, Goto, Answer, Locals, Working, IInv, TypeOK
  <1>3. CASE Create(r)
    <2>1. PICK i \in Ids : Insert(r, i) /\ held' = [held EXCEPT ![r] = i]
      BY <1>3 DEF Create, Goto, Answer, Working, IInv, TypeOK
    <2> QED
      BY <2>1 DEF Insert, IInv, TypeOK
  <1>4. CASE Lookup(r) \/ Reread(r)
    BY <1>4 DEF Lookup, Reread, Goto, Answer, Working, IInv, TypeOK
  <1>5. CASE Render(r) \/ StartUpload(r) \/ FinishUpload(r)
    BY <1>5 DEF Render, StartUpload, FinishUpload, UploadFailed, Working
  <1>6. CASE MarkPDFGenerated(r) \/ MarkPDFFailed(r)
    BY <1>6 DEF MarkPDFGenerated, MarkPDFFailed, RefuseText, Mark, Goto, Answer, Working,
      IInv, TypeOK
  <1>7. CASE FindNothing(r) \/ GetStatus(r) \/ GetPDF(r) \/ Download(r)
    BY <1>7 DEF FindNothing, GetStatus, GetPDF, Download, Goto, Answer, Working, IInv, TypeOK
  <1>8. ASSUME NEW m \in wire, BucketAccepts(m) PROVE Goal
    BY <1>8 DEF BucketAccepts, Locals
  <1>9. CASE Crash
    BY <1>9 DEF Crash, Locals, Working, IInv, TypeOK
  <1>10. CASE UNCHANGED vars
    BY <1>10 DEF vars
  <1> QED
    BY <1>1, <1>2, <1>3, <1>4, <1>5, <1>6, <1>7, <1>8, <1>9, <1>10 DEF Next, Step

LEMMA StrandedKeeps ==
    ASSUME IInv, [Next]_vars, NEW i, Stranded(i)
    PROVE  Stranded(i)' /\ table'[i] = table[i]
  <1>1. i \in Stored /\ i \in Ids
    BY DEF Stranded, Stored
  <1>2. table'[i] = table[i]
    <2>1. CASE UNCHANGED table
      BY <2>1
    <2>2. CASE Inserts
      BY <1>1, <2>2 DEF Inserts, Insert, IInv, TypeOK
    <2>3. CASE Settles
      BY <1>1, <2>3 DEF Settles, Stranded, IInv, TypeOK
    <2> QED
      BY <2>1, <2>2, <2>3, StepShapes DEF Stores
  <1>3. ASSUME NEW r \in Requests, pc'[r] \in Working PROVE held'[r] # i
    BY <1>1, <1>3, WorkBegins DEF Stranded
  <1> QED
    BY <1>1, <1>2, <1>3 DEF Stranded, Stored

\* Submit (service.go) takes up no record but the one it inserted, and nothing
\* else settles one: a record that is pending without a submission at work on it
\* is pending, as it is, for ever, however often it is submitted or read again.
THEOREM StrandedForGood ==
    Spec => [][\A i \in Stored : Stranded(i) => Stranded(i)' /\ table'[i] = table[i]]_vars
  <1> DEFINE Kept == \A i \in Stored : Stranded(i) => Stranded(i)' /\ table'[i] = table[i]
  <1>1. IInv /\ [Next]_vars => [Kept]_vars
    BY StrandedKeeps
  <1> QED
    BY <1>1, Invariance, PTL DEF Spec

\* A step that changes the table and settles no row inserts one.
LEMMA InsertingSteps ==
    ASSUME IInv, [Next]_vars, table' # table, ~Settles
    PROVE  \E r \in Requests : Create(r)
  <1>1. \A r \in Requests : MarkPDFGenerated(r) \/ MarkPDFFailed(r) => UNCHANGED table
    BY MarkShapes
  <1> QED
    BY <1>1 DEF Next, Step, Submit, Read, Disconnect, Lookup, Reread, Render, StartUpload,
       FinishUpload, FindNothing, GetStatus, GetPDF, Download, BucketAccepts, Crash, vars

\* A submission at work goes on, settles its row, says that it could not, or dies.
LEMMA WorkEnds ==
    ASSUME IInv, [Next]_vars, NEW r \in Requests, pc[r] \in Working
    PROVE  \/ pc'[r] \in Working /\ held'[r] = held[r]
           \/ table'[held[r]] # None /\ table'[held[r]].status # "pending"
           \/ pc'[r] = "replied" /\ reply'[r].code = "error"
           \/ pc'[r] = "lost"
  <1> DEFINE Goal == \/ pc'[r] \in Working /\ held'[r] = held[r]
                     \/ table'[held[r]] # None /\ table'[held[r]].status # "pending"
                     \/ pc'[r] = "replied" /\ reply'[r].code = "error"
                     \/ pc'[r] = "lost"
  <1>1. ASSUME NEW q \in Requests, q # r,
               Submit(q) \/ Read(q) \/ Step(q) \/ Disconnect(q)
        PROVE  Goal
    BY <1>1, OthersStay DEF Untouched
  <1>2. ~(Submit(r) \/ Read(r) \/ Lookup(r) \/ Create(r) \/ Reread(r)
            \/ FindNothing(r) \/ GetStatus(r) \/ GetPDF(r) \/ Download(r))
    BY DEF Working, Submit, Read, Lookup, Create, Reread, FindNothing, GetStatus, GetPDF,
       Download
  <1>3. CASE Render(r) \/ StartUpload(r) \/ FinishUpload(r)
    BY <1>3 DEF Render, StartUpload, FinishUpload, UploadFailed, Goto, Working, IInv, TypeOK
  <1>4. ASSUME NEW row, Settled(r, row), Mark(r, row) PROVE Goal
    <2>1. held[r] \in Stored /\ held[r] \in Ids
      BY HeldRow
    <2>2. CASE table' = [table EXCEPT ![held[r]] = row]
      BY <1>4, <2>1, <2>2, NoneIsNoData DEF Settled, IInv, TypeOK
    <2>3. CASE Answer(r, Plain("error"))
      BY <2>3, SMTT(30) DEF Answer, Goto, Plain, IInv, TypeOK
    <2> QED
      BY <1>4, <2>1, <2>2, <2>3 DEF Mark
  <1>5. CASE MarkPDFGenerated(r) \/ MarkPDFFailed(r)
    <2>1. CASE RefuseText(r)
      BY <2>1, SMTT(30) DEF RefuseText, Answer, Goto, Plain, IInv, TypeOK
    <2>2. CASE ~RefuseText(r)
      BY <1>4, <1>5, <2>2, SettlingRows DEF MarkPDFGenerated, MarkPDFFailed
    <2> QED
      BY <2>1, <2>2
  <1>6. CASE Disconnect(r) \/ UNCHANGED vars
    BY <1>6 DEF Disconnect, Locals, vars
  <1>7. ASSUME NEW m \in wire, BucketAccepts(m) PROVE Goal
    BY <1>7 DEF BucketAccepts, Locals
  <1>8. CASE Crash
    BY <1>8 DEF Crash, Locals
  <1> QED
    BY <1>1, <1>2, <1>3, <1>5, <1>6, <1>7, <1>8 DEF Next, Step

\* A new row is its submission's, which goes on to work on it or says that it
\* does not know.
LEMMA InsertSteps ==
    ASSUME IInv, [Next]_vars, NEW i \in Ids, i \notin Stored, i \in Stored'
    PROVE  \E r \in Requests :
              /\ pc[r] = "create" /\ table'[i] = NewRow(r)
              /\ \/ pc'[r] \in Working /\ held'[r] = i
                 \/ pc'[r] = "replied" /\ reply'[r].code = "error"
  <1>1. table[i] = None /\ table'[i] # None
    BY DEF Stored
  <1>2. ASSUME NEW r \in Requests, Create(r)
        PROVE  /\ pc[r] = "create" /\ table'[i] = NewRow(r)
               /\ \/ pc'[r] \in Working /\ held'[r] = i
                  \/ pc'[r] = "replied" /\ reply'[r].code = "error"
    <2>1. PICK j \in Ids :
              /\ Insert(r, j)
              /\ \/ held' = [held EXCEPT ![r] = j] /\ Goto(r, "render")
                 \/ Answer(r, Plain("error"))
      BY <1>1, <1>2 DEF Create
    <2>2. i = j /\ table'[i] = NewRow(r)
      BY <1>1, <2>1 DEF Insert, IInv, TypeOK
    <2>3. CASE held' = [held EXCEPT ![r] = j] /\ Goto(r, "render")
      BY <1>2, <2>2, <2>3 DEF Create, Goto, Working, IInv, TypeOK
    <2>4. CASE Answer(r, Plain("error"))
      BY <1>2, <2>2, <2>4 DEF Create, Answer, Goto, Plain, IInv, TypeOK
    <2> QED
      BY <2>1, <2>3, <2>4
  <1>3. ~Settles
    <2> SUFFICES ASSUME NEW r \in Requests, NEW row, pc[r] \in Working,
                        table' = [table EXCEPT ![held[r]] = row]
                 PROVE  FALSE
      BY DEF Settles
    <2>1. held[r] # i
      BY HeldRow DEF Stored
    <2> QED
      BY <1>1, <2>1 DEF IInv, TypeOK
  <1>4. \E r \in Requests : Create(r)
    BY <1>1, <1>3, InsertingSteps DEF IInv, TypeOK
  <1> QED
    BY <1>2, <1>4

\* No record is stranded silently: in the step that strands it, the submission it
\* came from is answered with an error, or dies with its process.  A client that
\* is told "accepted" by the submission that did the work has a settled record.
THEOREM StrandingIsNeverSilent ==
    Spec => [][\A i \in Ids : ~Stranded(i) /\ Stranded(i)' =>
                  \E r \in Requests :
                     /\ arg[r] \in Submissions
                     /\ arg[r].org = table'[i].org /\ arg[r].wo = table'[i].wo
                     /\ pc[r] \in Active
                     /\ \/ pc'[r] = "replied" /\ reply'[r].code = "error"
                        \/ pc'[r] = "lost"]_vars
  <1> DEFINE Told(i) ==
        \E r \in Requests :
           /\ arg[r] \in Submissions
           /\ arg[r].org = table'[i].org /\ arg[r].wo = table'[i].wo
           /\ pc[r] \in Active
           /\ \/ pc'[r] = "replied" /\ reply'[r].code = "error"
              \/ pc'[r] = "lost"
  <1>1. ASSUME IInv, [Next]_vars, NEW i \in Ids, ~Stranded(i), Stranded(i)'
        PROVE  Told(i)
    <2>1. /\ i \in Stored' /\ table'[i].status = "pending"
          /\ \A r \in Requests : pc'[r] \in Working => held'[r] # i
      BY <1>1 DEF Stranded
    <2>2. CASE i \in Stored
      <3>1. table[i].status = "pending"
        BY <1>1, <2>1, <2>2, TableKept
      <3>2. PICK r \in Requests : pc[r] \in Working /\ held[r] = i
        BY <1>1, <2>2, <3>1 DEF Stranded
      <3>3. \/ pc'[r] = "replied" /\ reply'[r].code = "error"
            \/ pc'[r] = "lost"
        BY <1>1, <2>1, <3>2, WorkEnds
      <3>4. Rendered(i)' = Rendered(i)
        BY <1>1, <2>2, TableKept
      <3>5. table'[i].org = table[i].org /\ table'[i].wo = table[i].wo
        BY <3>4 DEF Rendered
      <3>6. arg[r] \in Submissions /\ table[i].org = arg[r].org /\ table[i].wo = arg[r].wo
        BY <1>1, <3>2, HeldRow
      <3> QED
        BY <3>2, <3>3, <3>5, <3>6 DEF Active
    <2>3. CASE i \notin Stored
      <3>1. PICK r \in Requests :
                /\ pc[r] = "create" /\ table'[i] = NewRow(r)
                /\ \/ pc'[r] \in Working /\ held'[r] = i
                   \/ pc'[r] = "replied" /\ reply'[r].code = "error"
        BY <1>1, <2>1, <2>3, InsertSteps
      <3>2. arg[r] \in Submissions
        BY <1>1, <3>1 DEF IInv, Request, Asking
      <3> QED
        BY <2>1, <3>1, <3>2 DEF Active, NewRow
    <2> QED
      BY <2>2, <2>3
  <1> DEFINE Loud == \A i \in Ids : ~Stranded(i) /\ Stranded(i)' => Told(i)
  <1> HIDE DEF Told
  <1>2. IInv /\ [Next]_vars => [Loud]_vars
    BY <1>1
  <1> QED
    BY <1>2, Invariance, PTL DEF Spec, Told

-----------------------------------------------------------------------------
(* The document of a record that is not generated may be in the bucket (a  *)
(* late POST), and yet is never served.                                    *)

ServedIsGenerated ==
    \A r \in Requests : reply[r] # None /\ reply[r].doc # None =>
        arg[r].id \in Stored /\ table[arg[r].id].status = "generated"

DownloadIsGenerated ==
    \A r \in Requests : pc[r] = "download" =>
        arg[r].id \in Stored /\ table[arg[r].id].status = "generated"

\* A download begins when GetPDF has seen a generated record.
LEMMA DownloadSteps ==
    ASSUME IInv, [Next]_vars, NEW r \in Requests, pc'[r] = "download"
    PROVE  /\ arg'[r] = arg[r]
           /\ \/ pc[r] = "download"
              \/ arg[r].id \in Stored /\ table[arg[r].id].status = "generated"
  <1> DEFINE Goal ==
        /\ arg'[r] = arg[r]
        /\ \/ pc[r] = "download"
           \/ arg[r].id \in Stored /\ table[arg[r].id].status = "generated"
  <1>1. ASSUME NEW q \in Requests, q # r,
               Submit(q) \/ Read(q) \/ Step(q) \/ Disconnect(q)
        PROVE  Goal
    BY <1>1, OthersStay DEF Untouched
  <1>2. CASE Submit(r) \/ Read(r) \/ Disconnect(r)
    BY <1>2 DEF Submit, Read, Disconnect, Goto, Answer, Locals, IInv, TypeOK
  <1>3. CASE Lookup(r) \/ Create(r) \/ Reread(r) \/ Render(r)
    BY <1>3 DEF Lookup, Create, Reread, Render, Goto, Answer, IInv, TypeOK
  <1>4. CASE StartUpload(r) \/ FinishUpload(r)
    BY <1>4 DEF StartUpload, FinishUpload, UploadFailed, Goto, IInv, TypeOK
  <1>5. CASE MarkPDFGenerated(r) \/ MarkPDFFailed(r)
    BY <1>5 DEF MarkPDFGenerated, MarkPDFFailed, RefuseText, Mark, Goto, Answer, IInv, TypeOK
  <1>6. CASE FindNothing(r) \/ GetStatus(r) \/ Download(r)
    BY <1>6 DEF FindNothing, GetStatus, Download, Goto, Answer, IInv, TypeOK
  <1>7. CASE GetPDF(r)
    BY <1>7 DEF GetPDF, Visible, HasPDF, Goto, Answer, IInv, TypeOK
  <1>8. ASSUME NEW m \in wire, BucketAccepts(m) PROVE Goal
    BY <1>8 DEF BucketAccepts, Locals
  <1>9. CASE Crash
    BY <1>9 DEF Crash, Locals, IInv, TypeOK
  <1>10. CASE UNCHANGED vars
    BY <1>10 DEF vars
  <1> QED
    BY <1>1, <1>2, <1>3, <1>4, <1>5, <1>6, <1>7, <1>8, <1>9, <1>10 DEF Next, Step

\* Only a download serves a document.
LEMMA ServingSteps ==
    ASSUME IInv, [Next]_vars, NEW r \in Requests, reply'[r] # None, reply'[r].doc # None
    PROVE  arg'[r] = arg[r] /\ (reply'[r] = reply[r] \/ pc[r] = "download")
  <1> DEFINE Goal == arg'[r] = arg[r] /\ (reply'[r] = reply[r] \/ pc[r] = "download")
  <1>1. ASSUME NEW q \in Requests, q # r,
               Submit(q) \/ Read(q) \/ Step(q) \/ Disconnect(q)
        PROVE  Goal
    BY <1>1, OthersStay DEF Untouched
  <1>2. ASSUME NEW code \in Codes, Answer(r, Plain(code)) PROVE FALSE
    BY <1>2, PlainReplies DEF Answer, IInv, TypeOK
  <1>3. {"bad_request", "not_found", "pdf_not_ready", "error"} \subseteq Codes
    BY DEF Codes
  <1>4. ASSUME NEW t, NEW i, Answer(r, Accepted(t, i)) PROVE FALSE
    <2>1. Accepted(t, i).doc = None
      BY DEF Accepted, Plain
    <2> QED
      BY <1>4, <2>1 DEF Answer, IInv, TypeOK
  <1>5. pc[r] = "idle" => reply[r] = None
    BY IdleIsUnanswered
  <1>6. CASE Submit(r) \/ Read(r) \/ Disconnect(r)
    BY <1>2, <1>3, <1>5, <1>6 DEF Submit, Read, Disconnect, Locals
  <1>7. CASE Lookup(r) \/ Create(r) \/ Reread(r)
    BY <1>2, <1>3, <1>4, <1>7 DEF Lookup, Create, Reread, Locals
  <1>8. CASE Render(r) \/ StartUpload(r) \/ FinishUpload(r)
    BY <1>8 DEF Render, StartUpload, FinishUpload
  <1>9. CASE MarkPDFGenerated(r) \/ MarkPDFFailed(r)
    BY <1>2, <1>3, <1>4, <1>9 DEF MarkPDFGenerated, MarkPDFFailed, RefuseText, Mark
  <1>10. CASE GetStatus(r)
    <2>1. PICK i \in Visible(r) :
              Answer(r, [Plain("ok") EXCEPT !.id = i, !.status = table[i].status,
                                            !.url = HasPDF(i)])
      BY <1>10 DEF GetStatus
    <2>2. [Plain("ok") EXCEPT !.id = i, !.status = table[i].status,
                              !.url = HasPDF(i)].doc = None
      BY DEF Plain
    <2> QED
      BY <2>1, <2>2 DEF Answer, IInv, TypeOK
  <1>11. CASE FindNothing(r) \/ GetPDF(r)
    BY <1>2, <1>3, <1>11 DEF FindNothing, GetPDF, Locals
  <1>12. CASE Download(r)
    BY <1>12 DEF Download, Locals
  <1>13. ASSUME NEW m \in wire, BucketAccepts(m) PROVE Goal
    BY <1>13 DEF BucketAccepts, Locals
  <1>14. CASE Crash \/ UNCHANGED vars
    BY <1>14 DEF Crash, Locals, vars
  <1> QED
    BY <1>1, <1>6, <1>7, <1>8, <1>9, <1>10, <1>11, <1>12, <1>13, <1>14 DEF Next, Step

\* GetPDF serves the document of a generated acceptance and of no other: what a
\* late POST stored for a failed or a pending one stays out of reach.
THEOREM OnlyGeneratedIsServed == Spec => []ServedIsGenerated
  <1> DEFINE Inv == DownloadIsGenerated /\ ServedIsGenerated
  <1>1. Init => Inv
    BY DEF Init, DownloadIsGenerated, ServedIsGenerated
  <1>2. ASSUME IInv, [Next]_vars, Inv PROVE Inv'
    <2>1. ASSUME NEW i \in Stored, table[i].status = "generated"
          PROVE  i \in Stored' /\ table'[i].status = "generated"
      BY <1>2, <2>1, TableKept DEF Stored
    <2>2. DownloadIsGenerated'
      BY <1>2, <2>1, DownloadSteps DEF DownloadIsGenerated
    <2>3. ServedIsGenerated'
      BY <1>2, <2>1, ServingSteps DEF DownloadIsGenerated, ServedIsGenerated
    <2> QED
      BY <2>2, <2>3
  <1>3. Inv => ServedIsGenerated
    OBVIOUS
  <1> QED
    BY <1>1, <1>2, <1>3, Invariance, PTL DEF Spec

-----------------------------------------------------------------------------
(* Without database failures, disconnects and crashes no row is stranded.  *)

Faultless == ~(DBFails \/ Disconnects \/ Crashes)

Attended ==
    Faultless =>
        /\ \A r \in Requests : ctx[r] = "live"
        /\ \A i \in Stored : table[i].status = "pending" =>
              \/ \E r \in Requests : pc[r] \in Working /\ held[r] = i
              \/ Unrecorded(i)

\* A submission at work goes on working on its row, has settled it, or could
\* not have the text of its failure stored.
LEMMA WorkGoesOn ==
    ASSUME IInv, [Next]_vars, Faultless, \A q \in Requests : ctx[q] = "live",
           NEW r \in Requests, pc[r] \in Working
    PROVE  \/ pc'[r] \in Working /\ held'[r] = held[r]
           \/ table'[held[r]] # None /\ table'[held[r]].status # "pending"
           \/ /\ pc'[r] = "replied" /\ reply'[r].code = "error"
              /\ cause'[r] = "garbled" /\ held'[r] = held[r]
  <1>1. pc[r] \notin {"idle", "lookup", "create", "reread", "find", "download"}
    BY DEF Working
  <1>2. ASSUME NEW q \in Requests, q # r,
               Submit(q) \/ Read(q) \/ Step(q) \/ Disconnect(q)
        PROVE  pc'[r] = pc[r] /\ held'[r] = held[r]
    BY <1>2, OthersStay DEF Untouched
  <1>3. ~(Submit(r) \/ Read(r) \/ Disconnect(r) \/ Lookup(r) \/ Create(r) \/ Reread(r)
            \/ FindNothing(r) \/ GetStatus(r) \/ GetPDF(r) \/ Download(r))
    BY <1>1 DEF Submit, Read, Disconnect, Lookup, Create, Reread, FindNothing, GetStatus,
       GetPDF, Download, Faultless
  <1>4. CASE Render(r) \/ StartUpload(r) \/ FinishUpload(r)
    BY <1>4 DEF Render, StartUpload, FinishUpload, UploadFailed, Goto, Working, IInv, TypeOK
  <1>5. ASSUME NEW row, Settled(r, row), Mark(r, row)
        PROVE  table'[held[r]] # None /\ table'[held[r]].status # "pending"
    <2>1. ~Fails(r) /\ ~ResultLost(r)
      BY DEF Fails, ResultLost, Faultless
    <2>2. held[r] \in Stored /\ held[r] \in Ids
      BY HeldRow
    <2>3. table' = [table EXCEPT ![held[r]] = row]
      BY <1>5, <2>1, <2>2 DEF Mark
    <2>4. table'[held[r]] = row
      BY <2>2, <2>3, SMTT(30) DEF IInv, TypeOK
    <2> QED
      BY <1>5, <2>4, NoneIsNoData DEF Settled
  <1>6. CASE MarkPDFGenerated(r) \/ MarkPDFFailed(r)
    <2>1. CASE MarkPDFFailed(r) /\ ~Storable(cause[r])
      <3>1. /\ pc'[r] = "replied" /\ reply'[r] = Plain("error")
            /\ cause'[r] = "garbled" /\ held'[r] = held[r]
        BY <2>1 DEF MarkPDFFailed, RefuseText, Storable, Answer, Goto, Locals, IInv, TypeOK
      <3> QED
        BY <3>1, PlainReplies DEF Codes
    <2>2. CASE ~(MarkPDFFailed(r) /\ ~Storable(cause[r]))
      BY <1>5, <1>6, <2>2, SettlingRows DEF MarkPDFGenerated, MarkPDFFailed, RefuseText
    <2> QED
      BY <2>1, <2>2
  <1>7. ASSUME NEW m \in wire, BucketAccepts(m)
        PROVE  pc'[r] = pc[r] /\ held'[r] = held[r]
    BY <1>7 DEF BucketAccepts, Locals
  <1>8. CASE UNCHANGED vars
    BY <1>8 DEF vars, Locals
  <1> QED
    BY <1>2, <1>3, <1>4, <1>6, <1>7, <1>8 DEF Next, Step, Crash, Faultless

\* A request that was answered is over: no step changes what it holds.
LEMMA RepliedStays ==
    ASSUME IInv, [Next]_vars, NEW r \in Requests, pc[r] = "replied"
    PROVE  /\ pc'[r] = pc[r] /\ held'[r] = held[r]
           /\ cause'[r] = cause[r] /\ reply'[r] = reply[r]
  <1> DEFINE Goal == /\ pc'[r] = pc[r] /\ held'[r] = held[r]
                     /\ cause'[r] = cause[r] /\ reply'[r] = reply[r]
  <1>1. ASSUME NEW q \in Requests, Submit(q) \/ Read(q) \/ Step(q) \/ Disconnect(q)
        PROVE  q # r \/ Disconnect(q)
    BY <1>1 DEF Step, Submit, Read, Lookup, Create, Reread, Render, StartUpload, FinishUpload,
       MarkPDFGenerated, MarkPDFFailed, FindNothing, GetStatus, GetPDF, Download
  <1>2. ASSUME NEW q \in Requests, q # r,
               Submit(q) \/ Read(q) \/ Step(q) \/ Disconnect(q)
        PROVE  Goal
    <2>1. cause'[r] = cause[r]
      BY <1>2 DEF Step, Submit, Read, Lookup, Create, Reread, Render, StartUpload,
         FinishUpload, UploadFailed, MarkPDFGenerated, MarkPDFFailed, FindNothing, GetStatus,
         GetPDF, Download, Disconnect, Locals, IInv, TypeOK
    <2> QED
      BY <1>2, <2>1, OthersStay DEF Untouched
  <1>3. CASE Disconnect(r) \/ UNCHANGED vars
    BY <1>3 DEF Disconnect, Locals, vars
  <1>4. ASSUME NEW m \in wire, BucketAccepts(m) PROVE Goal
    BY <1>4 DEF BucketAccepts, Locals
  <1>5. CASE Crash
    BY <1>5 DEF Crash, Locals, Active, Working, IInv, TypeOK
  <1> QED
    BY <1>1, <1>2, <1>3, <1>4, <1>5 DEF Next

LEMMA AttendedKeeps ==
    ASSUME IInv, IInv', [Next]_vars, Attended
    PROVE  Attended'
  <1> SUFFICES ASSUME Faultless PROVE Attended'
    BY DEF Attended, Faultless
  <1>1. \A r \in Requests : ctx[r] = "live"
    BY SMTT(30) DEF Attended
  <1>2. \A r \in Requests : ctx'[r] = "live"
    BY <1>1, ZenonT(40) DEF Next, Step, Submit, Read, Disconnect, Lookup, Create, Reread, Render,
       StartUpload, FinishUpload, MarkPDFGenerated, MarkPDFFailed, RefuseText, Mark, FindNothing,
       GetStatus, GetPDF, Download, BucketAccepts, Crash, vars, Completes, Fails,
       ResultLost, Faultless
  <1>3. ASSUME NEW i \in Stored', table'[i].status = "pending"
        PROVE  \/ \E r \in Requests : pc'[r] \in Working /\ held'[r] = i
               \/ Unrecorded(i)'
    <2>1. CASE i \in Stored /\ table[i].status = "pending"
      <3>1. CASE \E r \in Requests : pc[r] \in Working /\ held[r] = i
        <4>1. PICK r \in Requests : pc[r] \in Working /\ held[r] = i
          BY <3>1
        <4> QED
          BY <1>1, <1>3, <4>1, WorkGoesOn DEF Unrecorded
      <3>2. CASE Unrecorded(i)
        BY <3>2, RepliedStays DEF Unrecorded
      <3> QED
        BY <2>1, <3>1, <3>2 DEF Attended
    <2>2. CASE i \in Stored /\ table[i].status # "pending"
      BY <1>3, <2>2, TableKept
    <2>3. CASE i \notin Stored
      <3>1. i \in Ids /\ table[i] = None /\ table'[i] # None
        BY <1>3, <2>3 DEF Stored
      <3>2. ~(\E r \in Requests : ResultLost(r))
        BY DEF ResultLost, Faultless
      <3>3. CASE Inserts
        <4>1. PICK r \in Requests, j \in Ids :
                  Insert(r, j) /\ pc'[r] = "render" /\ held'[r] = j
          BY <3>2, <3>3 DEF Inserts
        <4>2. i = j
          BY <3>1, <4>1 DEF Insert, IInv, TypeOK
        <4> QED
          BY <4>1, <4>2 DEF Working
      <3>4. CASE Settles
        <4>1. PICK r \in Requests, row \in Rows :
                  pc[r] \in Working /\ table' = [table EXCEPT ![held[r]] = row]
          BY <3>4 DEF Settles
        <4>2. held[r] # i
          BY <3>1, <4>1, HeldRow DEF Stored
        <4> QED
          BY <3>1, <4>1, <4>2 DEF IInv, TypeOK
      <3> QED
        BY <3>1, <3>3, <3>4, StepShapes DEF Stores
    <2> QED
      BY <2>1, <2>2, <2>3
  <1> QED
    BY <1>2, <1>3 DEF Attended

\* With a database that answers, clients that stay and no crash, every pending
\* acceptance has a submission that still works on it, or one that was answered
\* with an error because its failure's text was no text for Postgres.
THEOREM NoneIsStranded == Spec => []PendingHasWorker
  <1>1. Init => Attended
    BY DEF Init, Attended, Stored
  <1>2. Attended => PendingHasWorker
    BY DEF Attended, PendingHasWorker, Faultless
  <1> QED
    BY <1>1, <1>2, AttendedKeeps, Invariance, PTL DEF Spec

-----------------------------------------------------------------------------
(* Refinement: each step is a step of AcceptanceRegister or a stutter.     *)

LEMMA InsertAccepts ==
    ASSUME IInv, NEW r \in Requests, pc[r] = "create", NEW i \in Ids, Insert(r, i),
           UNCHANGED bucket
    PROVE  Register!Accept
  <1> DEFINE a == [id |-> i, org |-> arg[r].org, wo |-> arg[r].wo,
                   payload |-> arg[r].payload, status |-> "pending"]
  <1>1. arg[r] \in Submissions /\ arg[r].payload \in Valid
    BY DEF IInv, Request, Asking
  <1>2. a \in Register!Acceptances
    BY <1>1 DEF Register!Acceptances, Submissions
  <1>3. NewRow(r) \in Rows /\ table'[i] = NewRow(r) /\ i \notin Stored
            /\ \A j \in Ids \ {i} : table'[j] = table[j]
    BY <1>1 DEF Insert, NewRow, Rows, Submissions, Statuses, IInv, TypeOK
  <1>4. Entry(i)' = a
    BY <1>3 DEF Entry, NewRow
  <1>5. Stored' = Stored \cup {i} /\ \A j \in Stored : Entry(j)' = Entry(j)
    BY <1>3, NoneIsNoData DEF Stored, Entry
  <1>6. Entries' = Entries \cup {a}
    BY <1>4, <1>5 DEF Entries
  <1>7. \A b \in Entries : b.id # a.id /\ (b.org # a.org \/ b.wo # a.wo)
    BY <1>3 DEF Entries, Entry, Insert, ForWorkOrder, Stored
  <1>8. a.status = "pending" /\ UNCHANGED Published
    BY DEF Published
  <1> HIDE DEF a
  <1> QED
    BY <1>2, <1>6, <1>7, <1>8 DEF Register!Accept

LEMMA StorePublishes ==
    ASSUME IInv, NEW m \in wire, BucketAccepts(m)
    PROVE  Register!Publish
  <1>1. /\ m.key \in Keys /\ bucket[m.key] = None /\ UNCHANGED table
        /\ bucket' = [bucket EXCEPT ![m.key] = m.doc]
        /\ m.doc \in Docs
    BY DEF BucketAccepts, IInv, TypeOK, Posts
  <1>2. m.doc.id \in Stored /\ m.doc = Rendered(m.doc.id) /\ m.doc.payload \in Renderable
    BY DEF IInv, Objects, Names
  <1> DEFINE a == Entry(m.doc.id)
  <1>3. a \in Entries /\ a.payload \in Renderable /\ Register!Document(a) = m.doc
    BY <1>2 DEF Entries, Entry, Register!Document, Rendered
  <1>4. Published' = Published \cup {m.doc}
    BY <1>1, NoneIsNoData DEF Published, IInv, TypeOK
  <1>5. UNCHANGED Entries
    BY <1>1 DEF Entries, Entry, Stored
  <1> HIDE DEF a
  <1> QED
    BY <1>3, <1>4, <1>5 DEF Register!Publish

LEMMA UpdateSettles ==
    ASSUME IInv, NEW r \in Requests, pc[r] \in Working, NEW row \in Rows, Settled(r, row),
           table' = [table EXCEPT ![held[r]] = row], UNCHANGED bucket
    PROVE  Register!Settle
  <1>1. PICK i \in Ids : i = held[r]
    BY HeldRow
  <1>2. /\ i \in Stored /\ table[i].status = "pending" /\ row # None
        /\ table'[i] = row /\ \A j \in Ids \ {i} : table'[j] = table[j]
    BY <1>1, HeldRow, NoneIsNoData DEF IInv, TypeOK
  <1>3. Stored' = Stored
    BY <1>2 DEF Stored
  <1> DEFINE a == Entry(i)
             b == [a EXCEPT !.status = row.status]
  <1>4. Entry(i)' = b
    <2>1. Entry(i)' = [id |-> i, org |-> row.org, wo |-> row.wo,
                       payload |-> row.payload, status |-> row.status]
      BY <1>2 DEF Entry
    <2> QED
      BY <1>1, <2>1 DEF Entry, Settled
  <1>5. \A j \in Stored \ {i} : Entry(j)' = Entry(j) /\ Entry(j).id = j
    BY <1>2 DEF Entry, Stored
  <1>6. a \in Entries /\ a.id = i /\ a.status = "pending"
    BY <1>2 DEF Entries, Entry
  <1>7. Register!Document(a) = Rendered(i)
    BY DEF Register!Document, Rendered, Entry
  <1> HIDE DEF a, b
  <1>8. Entries' = (Entries \ {a}) \cup {b}
    <2>1. Entries' = {Entry(j)' : j \in Stored \ {i}} \cup {Entry(i)'}
      BY <1>2, <1>3 DEF Entries
    <2>2. {Entry(j)' : j \in Stored \ {i}} = {Entry(j) : j \in Stored \ {i}}
      BY <1>5
    <2>3. {Entry(j) : j \in Stored \ {i}} = Entries \ {a}
      BY <1>2, <1>5, <1>6 DEF Entries, a
    <2> QED
      BY <1>4, <2>1, <2>2, <2>3
  <1>9. row.status \in {"generated", "failed"}
    BY DEF Settled
  <1>10. row.status = "generated" => Register!Document(a) \in Published
    <2>1. Rendered(i) # None
      BY <1>2, SnapshotFields, NoneIsNoData DEF IInv
    <2>2. row.status = "generated" => row.key \in Keys /\ bucket[row.key] = Rendered(i)
      BY <1>1 DEF Settled
    <2> QED
      BY <1>7, <2>1, <2>2 DEF Published
  <1>11. UNCHANGED Published
    BY DEF Published
  <1> QED
    BY <1>6, <1>8, <1>9, <1>10, <1>11 DEF Register!Settle, b

\* The service implements AcceptanceRegister: whatever requests, clients, the
\* network and crashes do, it can be explained as accepting, publishing and
\* settling single acceptances.
THEOREM Refinement == Spec => ImplementsRegister
  <1>1. Init => Register!Init
    BY DEF Init, Register!Init, Entries, Published, Stored
  <1>2. ASSUME IInv, [Next]_vars
        PROVE  [Register!Next]_<<Entries, Published>>
    <2>1. CASE UNCHANGED <<table, bucket>>
      BY <2>1 DEF Entries, Entry, Published, Stored
    <2>2. CASE Inserts
      BY <1>2, <2>2, InsertAccepts DEF Inserts, Register!Next
    <2>3. CASE Settles
      BY <1>2, <2>3, UpdateSettles DEF Settles, Register!Next
    <2>4. CASE Stores
      BY <1>2, <2>4, StorePublishes DEF Stores, Register!Next
    <2> QED
      BY <1>2, <2>1, <2>2, <2>3, <2>4, StepShapes
  <1> QED
    BY <1>1, <1>2, Invariance, PTL DEF Spec, ImplementsRegister, Register!Spec
=============================================================================

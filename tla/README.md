# TecoraBE: a TLA+ verification of the backend

TecoraBE is a Go API (gin, pgx, Postgres, Google Cloud Storage, Clerk) with
which field-service companies keep their work orders and have customers accept
finished work: an acceptance is stored, rendered to a PDF, uploaded to a bucket
and served back. This directory holds the models of that program, the TLC
configurations that check them and the proofs that TLAPS checks. Paths below are
relative to `src/internal/` unless they start with `src/`.

## 1. The system

| component | state it keeps | operations | talks to |
|---|---|---|---|
| acceptances: `service.go`, `repository.go`, `handler.go`, `models.go` | the `acceptances` table (status pending/generated/failed, object key, error) | Submit, GetStatus, GetPDF | Postgres (one statement per call, no transactions), renderer, storage |
| document storage: `acceptances/storage.go` | objects in a GCS bucket; a cached metadata token | Upload (create-only), Download, Token | GCS, the metadata server |
| PDF renderer: `acceptances/pdf.go` | none beyond one call | Render: layout of one page, objects, file | - |
| Clerk verifier: `auth/clerk/verifier.go` | the issuer's public keys, when they were stored | Verify, keyForKID | the issuer's JWKS endpoint |
| middleware: `middleware/auth.go` | none (allowlist fixed at start) | ClerkAuth, ClerkAdminAllowlist | verifier, gin context |
| users: `users/*.go` | `users` table: membership of one organization, soft deletion | admin CRUD, `/org/me`, RequireOrgAccess | organizations' GetBySlug, gin context |
| organizations: `organizations/*.go` | `organizations` table, soft deletion and revival | admin CRUD | - |
| work orders: `workorders/*.go` | `work_orders` table | create, list, get | gin context |
| customers: `customers/*.go` | `customers` table | repository only: no route uses it | - |
| migrations: `migrations/runner.go` | schema version, dirty flag | Up at every start | Postgres |
| lifecycle: `app/app.go`, `server/server.go`, `database/postgres.go` | connection pool, listener | start, serve, shut down | all of the above |
| health, configuration, CORS, deployment files | none that changes | - | - |

A request passes ClerkAuth (Verify), then RequireOrgAccess or the admin
allowlist, then its handler. Handlers share the process with every other
request; they share Postgres and the bucket with other instances during a
rollout as well. No SQL transaction spans two statements, no lock is held across
a network call, and no background worker repairs anything.

What is hard, and what makes each part correct:

* **Acceptances.** Submit is six calls long (look up, insert, render, upload,
  mark) and is interleaved with other submissions for the same work order, with
  readers, with a client that leaves (its context ends, and every later call
  with it), with database results that are lost after the statement took
  effect, with POSTs that arrive late or twice, and with crashes. Correct: one
  acceptance per work order; a record is settled once and never rewritten;
  `generated` implies that the document is in the bucket; readers get the
  document of the acceptance they asked for and of no other organization; what
  has been ready stays ready.
* **Verifier.** The key cache is read under a mutex, fetched without it and
  overwritten under it again, while keys rotate. Correct: a withdrawn key stops
  being trusted in bounded time; a published key is found; expiry is judged on
  the clock after the fetch; verification ends.
* **Tenancy.** Membership is checked in one statement and used in a later one;
  organizations and users are changed by admins in between, and admin updates of
  users are themselves check-then-act. Correct: data is only reached through a
  membership; nothing stored is lost through deletion and revival; members are
  not refused; deletion of users is final.
* **Token cache.** Like the key cache, and the expiry of a token is counted from
  the moment its answer is read. Correct: a token is reused for a bounded time
  after its expiry at most; calls end.
* **Lifecycle.** Instances of two revisions migrate one database before they
  serve, die anywhere, and are signalled anywhere. Correct: who serves has its
  schema; no migration is run twice; status 0 means that the handler of every
  request had returned; a signal ends the process.
* **PDF renderer.** One page is drawn from the top down; each height depends on
  how the texts above wrapped, objects refer to each other by numbers that are
  partly still to be given, and offsets are counted while objects of different
  lengths are written. Correct: no word of what was accepted is lost or drawn out
  of its box, nothing is painted over what is drawn before it, printable characters
  are read back, references and offsets lead to what they name, and what was accepted
  is in the document. Two of these fail, for the notes and what their box covers
  (sections 5 and 6).

`PROJECT.json` lists every hazard at its line with the properties that cover it.

## 2. The modules

| module | models |
|---|---|
| `AcceptanceRegister` | the abstract specification of the acceptance service: `accepted` and `documents`, with Accept, Publish, Settle |
| `Acceptances` | Submit, GetStatus, GetPDF call by call; table, bucket, posts under way, request contexts, crashes |
| `MCAcceptances` | the symmetries TLC uses |
| `AcceptancesProofs` | invariance and refinement proofs |
| `MemberAcceptances`, `MCMemberAcceptances`, `MemberAcceptancesProofs` | the composition of `Tenancy` and `Acceptances`: acceptance routes behind their middleware; symmetries; proofs |
| `PDFText`, `PDFLayout`, `PDFRenderer` | Render: literals and escaping; the page, with wrapping; objects, offsets and the file |
| `MCPDFRenderer`, `PDFTextProofs`, `PDFRendererProofs` | the records TLC draws; proofs about texts, on any sequence of runes; proofs about the renderer |
| `JWKSCache`, `JWKSCacheProofs` | Verify and keyForKID under key rotation, with a clock; proofs |
| `Tenancy`, `MCTenancy`, `TenancyProofs` | organizations, users, work orders and the two authorizing middlewares; symmetries; proofs |
| `TokenSource`, `TokenSourceProofs` | the access token's cache and its fetches, with a clock; proofs |
| `Lifecycle`, `MCLifecycle`, `LifecycleProofs` | startup with migrations, serving, shutdown; two revisions; proofs |

Operators whose comment starts with "Wrong, for mutation" are plausible bugs of
the definition they precede. They are used by no specification; replacing the
right definition by them must break the property named in `PROJECT.json`.

### Acceptances

Each element of `Requests` is a handler goroutine, and `pc[r]` names the call it
makes next. One action is one call with every outcome the code distinguishes.
`Submit` is the handler up to the first call (path against body,
NormalizeSubmission). `Lookup`, `Create` and `Reread` are the repository calls of
Service.Submit; `Render`, `StartUpload`, `FinishUpload`, `MarkPDFGenerated` and
`MarkPDFFailed` follow in its order. `Read` starts GetStatus or GetPDF, which
share `FindNothing` and then are `GetStatus`, or `GetPDF` followed by `Download`.
`held[r]`, `key[r]`, `cause[r]` and `ctx[r]` are the local variables and the
request context of the handler.

A database call ends in one of three ways (`Completes`, `Fails`, `ResultLost`):
it works, it fails without effect, or it takes effect and its result is lost.
`MarkPDFFailed` has a fourth, `RefuseText`: the text it writes quotes up to 4096 bytes
of the bucket's answer as they came (`storage.go:65-66`) and is cut at byte 2048
(`truncateError`), so it may be no text for Postgres (`Storable`). Such a cause is
`"garbled"`; only a storage that fails (`StorageFails`) produces it. A
storage call sends its POST onto `wire`; the bucket accepts a post at any time
after that, also when the sender has given up, and as often as it likes, but only
under a name it does not have (`ifGenerationMatch=0`). A crash takes any set of
running requests, because revisions overlap in a rollout.

Abstractions: a payload is a model value that NormalizeSubmission accepts or not
and that renders or not; a document is its record's snapshot; email status, which
no code changes after the insert, is left out; objects are never removed from the
bucket, as no code does that; ids are fresh (`gen_random_uuid`). An id in the path that
is no uuid, or a payload with a NUL, makes Postgres refuse the statement, which the
code answers with 500 like any other database failure: it is `Fails`, and so among
what `DBFails` switches.

### JWKSCache

`Start`, `Hit`, `Miss`, `Respond`, `FetchFails`, `Store` are Verify and the two
critical sections of keyForKID. `Publish` and `Withdraw` are the issuer, `Tick`
the clock. `cache.at` is `cachedAt`. The http client's timeout is the guard of
`Tick`: no fetch is older than `Window` ticks. `End` frees the goroutine for the
next request. `known` is a history variable: the
requests whose key has been published ever since they began. A token is a key
id, whether that key signed it, and its expiry; base64, JSON, RSA, issuer,
audience and `nbf` are abstracted.

### Tenancy

`Begin` is ClerkAuth with a genuine token; on the org routes `Authorize` is
RequireOrgAccess and leaves the organization in `ctx[r]`, where `Me`,
`CreateOrder`, `ListOrders` and `GetOrder` find it. The acceptance routes stand
behind the same middleware: see `MemberAcceptances`.
On the admin routes `Allow` is the allowlist, followed by one statement, or by
`Resolve` (GetBySlug) and then `CreateUser` or `MoveUser`. Slugs and clerk user
ids identify rows for ever, since both are unique among deleted rows too. `past`
is a history variable: the organizations the caller belonged to at some moment
and at every moment up to RequireOrgAccess's decision, the work orders there when
the request began, and on admin routes the organizations active at some moment up
to GetBySlug's answer. Names, email and customer data are abstracted.

### MemberAcceptances

Server.Run puts `ClerkAuth` and `RequireOrgAccess` before the acceptance handler;
this module does the same with the two models. It extends `Tenancy` and has an
instance `A` of `Acceptances` over variables of its own (`call`, `client` and
`answer` are that module's `pc`, `ctx` and `reply`). `Enter(r)` starts a handler:
the request is past RequireOrgAccess (`pc[r] = "member"`), and the organization it
works for is the one in the gin context (`arg'[r].org = ctx[r]`), whatever
happens to user and organization later. `Serve(r)` is any further call of the
handler; the call that answers also ends the request in `Tenancy` (`Forward`).
`Elsewhere(r)` is any step of `Tenancy`: the middleware of all routes, the other
member routes and the admin routes, which move and delete users and organizations
while handlers run. `Around` is the environment of `Acceptances`. Both modules'
actions are used as they are, so each step is a step of one of them or of both. A goroutine serves at most one
acceptance request, since `Acceptances` has one per element of `Requests`, and any
number of others before and after. The process of a crashed request takes its
goroutine with it; the goroutine's part in `Tenancy` stays where it was.

### PDFText, PDFLayout, PDFRenderer

`PDFLayout` is buildPDFContent: `step` is its next statement that matters, `y` the
height at which the next part begins, and `boxes` the parts drawn so far, each with
the height of its heading and the two edges of its box (`Box`). A box whose bottom is
above its top is a rectangle of negative height, as in the code, which PDF paints all
the same. Heights are the code's points, which are whole numbers. `WrapText` is one round of
wrapText's loop; a word is known by where it begins and ends when the words of its
text are joined by single blanks, so that `Length` is the code's `len(current)`.
`DrawParagraphBox` draws the notes' lines until one is too low; `shown` counts the
lines of the list and of the notes. `Scale` is the signature's scale as a fraction, without floating point.
`PDFText` is escapePDFText on the classes of runes it tells apart, and, as the
other end, how a PDF reader takes a literal apart (`ReadLiteral`). The reader knows
nothing of what the code replaces: a `-` is a hyphen to it, and octal 225, which the
code writes for a bullet, is `.notdef`, since the font objects name no encoding and
Helvetica's own has no glyph there. `Printable` are the runes that are written as they
are. `PDFRenderer` adds the objects
with their references, and the file as a sequence of bytes, each known by what it
is part of; the lengths of the written content and image are arbitrary.
NormalizeSubmission's promises about a record (`IsRecord`: a title of runes, at least
one product, texts with at least one word), and strings.Fields' that no word is
empty, are an assumption about `Records`. Colours,
fonts, horizontal positions, dates and the image's bytes are left out. Words are
measured in bytes, as in the code, which is not the number of glyphs. The record
is not changed by rendering, so `Acceptances` treats Render as a function of the
snapshot that fails exactly when the signature does not decode (`"refused"`).

### TokenSource

`Reuse`, `Ask`, `ReadAnswer`, `Fail` and `Store` are the calls of
metadataTokenSource.Token; `Answer` is the metadata server, which hands out any
token that is valid at that moment and says how long it has left, or leaves that
out (the code then counts 0 s). A token is known by its real expiry, so that the
expiry the code computes can be compared with it. Goroutines call Token again and
again. `GCP_ACCESS_TOKEN`, which replaces all this on a developer's machine, is
unset.

### Lifecycle

`pc[i]` is the call that process `i` of app.Run makes next. `Ping` to `Migrated`
are migrations.Up, `Listen` to `Exit` server.Run and the deferred closing of the
pool. golang-migrate is external: an advisory lock of the session, which WithInstance
waits for without a timeout to create the version table (`EnsureTable`) and Up with one
(`Lock`, `LockTimeout`; after a timeout the deferred closing of the runner still waits
for the statement that asks for the lock, `GiveUp`), the version written dirty before a migration's SQL and clean after it, an error on
a dirty version and on one that the embedded migrations do not have. The platform
starts, signals and kills processes at any time, and `Outage` breaks all
connections. In Postgres a migration without a transaction of its own is one
implicit transaction. Schema changes by hand, a full pool and an invalid
configuration are left out. `Kill` is what `Acceptances` sees as a crash.

## 3. What TLC checks

| run | question | properties |
|---|---|---|
| `faults` | does the service stay safe under every fault at once? | `TypeOK`, `OneAcceptancePerWorkOrder`, `SoleWorker`, `GeneratedIsStored`, `SubmissionsAgree`, `ReadersGetTheirOwn`, `ReadyStaysReady`, `SettledForever` |
| `register` | does it implement its abstract specification, and does every request that no crash takes end? | `ImplementsRegister`, `EveryRequestAnswered` |
| `settles` | when is a pending record sure to be settled? | `PendingHasWorker`, `PendingSettles` |
| `upload_error` | is every failed upload recorded, as the test says, when clients may leave? | `UploadErrorMarksFailed` (violated, see section 6) |
| `members` | does the acceptance service stay inside the caller's organization while memberships change? | `AcceptancesHaveOrgs`, `AnswersStayInside`, `AcceptancesComeFromMembers`, `MembersFindTheirAcceptances` |
| `pdf` | is every record laid out and written correctly? | `WrappingIsSound`, `LinesAreFewest`, `OnlyNotesPaintOver`, `SignatureFits`, `TextsReadBack`, `FileIsReadable`, `ListFits` |
| `notes` | are the notes in the document? | `NotesAreShown` (violated, see section 6) |
| `jwks` | can overlapping fetches harm the verifier, and does every verification end? | `PublishedKeysAreFound`, `WithdrawnKeysExpire`, `ExpiryIsCheckedLast`, `VerificationEnds` |
| `tenancy` | does anything cross an organization's border? | `TypeOK`, `ReadsStayInside`, `WritesStayInside`, `StoredOrdersAreFound`, `MembersAreAdmitted`, `DeletedUsersStay`, `JoinedWhileActive` |
| `token` | how stale may a reused access token be, and does every fetch end? | `CachedTokensAreFresh`, `CallsEnd` |
| `lifecycle` | are startup and shutdown safe with overlapping revisions and kills? | `ServingNeedsSchema`, `MigrationsRunOnce`, `CleanExitsAnswerAll`, `SignalsEndProcesses` |
| `outage` | does startup survive an outage, as the README says? | `StartupSurvivesOutage` (violated, see section 6) |

**Bounds.** Requests are one-shot in `Acceptances`, so its state spaces are finite
by themselves; the clocks of `JWKSCache` and `TokenSource` are bounded.

* `faults` has three requests, so that two submissions race while a third
  resubmits or reads; two organizations over one work order id, which must not
  see each other; two ids; two document prefixes, for two revisions; and one
  payload of each kind (good, does not render, invalid). All four fault switches
  are on.
* `upload_error` has one submission and one fault, a client that leaves, so that its
  trace has one cause.
* `register` has two requests over two work orders, and `settles` three, because a
  temporal property rules out symmetry.
* `members` has two goroutines, two organizations, and one user who is an admin and
  may be a member, so that it can move itself, delete its organization and revive
  it between any two calls of a submission or a read; two acceptance ids, so
  that both goroutines may have one; one work order and one payload. The faults are switched off
  there, since `faults` has them and the proofs cover them. Goroutines go on for ever.
* `pdf` and `notes` draw each record of `SomeRecords` once: titles of up to three
  runes of every class; lists of one or two products whose words just fill a line
  (25 + 1 + 26 = 52), just do not, or are longer than one; one product of up to
  five words; four to sixteen products, around the list that meets the footer and
  the one that leaves the page; notes of up to three words around their width (35 +
  1 + 36 = 72); signatures around the 176 by 44 of their place, without area, and one that does
  not decode. Each record varies one field, since a height is all that one part
  leaves to the next. `Sizes` gives content and image two lengths each.
* `jwks` has two goroutines that serve one request after the other (two overlapping
  fetches, and a third request that uses what they left), one key that comes and
  goes, a TTL of 2, a Window of 1 and a clock up to 4 (`MaxTime`): a key can be
  withdrawn, trusted to the last moment allowed, and be too old.
* `tenancy` has two goroutines that serve any number of requests one after the
  other, two organizations, one admin and one other user (admins may be members,
  too) and one work order number per organization. There is no bound on the length
  of a run.
* `token` has two callers, which already fetch and store in both orders, a Window
  longer than the Skew, as in the code (60 s and 30 s), tokens that live up to 2
  ticks, and a clock up to 4: a token can be stored late, reused after its expiry
  and replaced.
* `lifecycle` has an old revision with one migration less than the new one, which
  runs twice; two migrations, so that one can be dirty above another; and one
  request at a time in each instance. `outage` has one instance of each revision.
  Neither is bounded in length.

**Deadlock.** The runs of `Acceptances` stop when all requests are answered, and
those of `PDFRenderer` when the file is written, so their configurations switch the
deadlock check off; the others never stop and are checked for deadlock.

**Fairness.** `Acceptances!Fairness` and `JWKSCache!FairSpec` are weak fairness
of a handler's next call: goroutines are scheduled, and each call ends, because
the http clients have timeouts (60 s and 10 s) and database calls end with an
answer or an error. Clients, late posts, key rotation and crashes are owed
nothing. `TokenSource!FairSpec` is the same for a call that has asked.
`Lifecycle!FairSpec` has it for startup (Up's lock has a timeout), for the stages
of the shutdown (which has one, too) and for statements, but not for handlers: an
upload may outlast everything. For the two steps that wait for the advisory lock
without a timeout it is strong fairness, because Postgres queues those who wait for it
and its holder, when it ends, leaves it to the first of them. `settles` switches off what the code does not survive (database
failures, disconnects, crashes) and keeps storage failures; its properties are
false with any of the others, which is what finding 1 and the crash hazard say. They
except the submission whose error text Postgres refused (`Unrecorded`), the second
case of that finding.

## 4. What is proved

All proofs are for every value of the constants, under the named assumptions of
the modules: `Revisions` (every revision embeds migrations up to some version),
`NoneIsNoData` (the value for "absent" is no datum),
`AdminsAreUsers`, `ValidPayloads`, `FaultSwitches`, their conjunction
`AcceptanceConstants` for the composition, `RecordsAreNormal` and
`SizesArePositive` for the PDF, `Durations` (TTL and token life positive, times
naturals).

**AcceptancesProofs.** The safety properties are not inductive by themselves: that
a generated row has its document depends on what the POST under way carries, and
that on who may touch the row meanwhile. `IInv` strengthens them with, for every
request, `Owner` (a submission at work owns a row that is exactly as inserted),
`Uploading` (it uploads under a key ending in that row's id, and is about to mark
it only when the object exists), `Asking`, `Downloading` (a download's key names
the caller's acceptance, and its object exists) and `Answered` (answers stay true
of the table, and every id that is shown is of the request's organization); and globally `Alone` (no two submissions share a row), `Objects`
(every post and object carries the snapshot of the row its key names) and
`Pointers` (generated rows point at existing objects). Most steps only have to
show `Grows`, that rows and objects are never lost or changed, from which every
other request's part follows (`FrameRequest`). Theorems: `TypeCorrectness`,
`AtMostOneAcceptance`, `WorkersAreAlone`, `GeneratedMeansStored`,
`SubmissionsGetOneAnswer`, `ReadersAreIsolated`, `Settlement`,
`ReadinessIsKept`, `NoneIsStranded` (pending records have a worker, or a submission
whose error text was refused), and `Refinement`: every behaviour of
`Acceptances` is one of `AcceptanceRegister`. Three more theorems say what no run
checks. A record is *stranded* when it is pending and no submission works on it
(`Stranded`). `StrandingIsNeverSilent`: the step that strands it either answers its
submission with an error or ends its process, since a submission at work goes on,
settles its row, fails loudly or dies (`WorkEnds`), and the row it inserted is its
own (`InsertSteps`). `StrandedForGood`: it keeps its row for ever, because work
begins only on a row that was not there before (`WorkBegins`).
`OnlyGeneratedIsServed`: a document is served only for a generated acceptance; the
status GetPDF read is still true when the download ends, by `Settlement`'s lemma
`TableKept`.

**JWKSCacheProofs.** `Timely` bounds the age of a fetch, `AnswersAreRecent` says
that what a fetch returned was published after it was sent, and `CacheIsRecent`
that what is cached was published no longer than `Window` before it was stored.
Together they give `WithdrawalTakesEffect`: trust in a withdrawn key ends before
TTL + Window (30 minutes and a fetch). `KnownArePublished` gives
`NoPublishedKeyIsMissed`, because a request looks its key up in its own answer,
not in the cache that others overwrite. `ExpiredAreRefused` follows from the two
steps that accept, and `TypeCorrectness` from the invariant.

**TenancyProofs.** `IInv` is TypeOK with the foreign keys, and `Recorded`: the
history of a request that RequireOrgAccess has not decided yet is up to date, and
a request past its check has its organization in its history. Every step moves one
request in one of six ways (`Moves`), what it replies is justified by the tables
it read (`Justified`), and no step removes a row, loses a work order or touches a
deleted user (`Respects`). Theorems: `TypeCorrectness`, `MembersSeeTheirOwn`,
`WritersBelong`, `NoOrderIsMissed`, `NoMemberIsRefused`, `DeletionIsFinal`,
`JoinersMeetAnActiveOrg`.

**MemberAcceptancesProofs.** The composition is proved from the two proofs there
are. It extends `TenancyProofs` and takes `AcceptancesProofs` by INSTANCE, with the
substitution of the module itself; `AcceptanceConstants` gives the instance its
assumptions. The invariant is `SystemInv`: both modules' `IInv`, `Coupled` (a
request with a handler under way is past RequireOrgAccess, and the handler's
organization is the one in the gin context) and `HaveOrgs`. Every step is a step or
a stutter of each module (`TenancyMoves`, `AcceptancesMove`), so their `NextKeeps`
lemmas preserve their parts, and only `Coupled` and `HaveOrgs` are left to show.
The composition therefore implements both (`TenancyIsKept`, `AcceptancesAreKept`),
which carries every theorem about either over to the system, under all faults and
for any number of requests; `ServiceKeepsItsPromises` draws that conclusion for the
refinement of the register and five safety properties of the service. What neither part can say is `AnswersAreIsolated` (the
answer's row is of the handler's organization by `Answered`, which is the context's
by `Coupled`, which is one the caller belonged to by Tenancy's `Recorded`),
`MembersCreate`, `AcceptancesAreFound` and `NoAcceptanceIsOrphaned`.

**PDFRendererProofs.** `IWrap` is inductive for the wrapping: the lines so far are
cut from the texts without gaps (`NoWordIsLost`), the next word exists, and lines of
several words fit. `Heights` says what every box is: two are fixed (`CustomerBox`,
`JobBox`), two depend on the number of the list's lines only (`ListBox`, `NotesBox`,
from `ListIsBoxed` and `NotesAreBoxed`). That the notes' box paints over exactly what
`OnlyNotesPaintOver` says is then arithmetic (`NotesBoxPaintsOver`). `Scaled` and `Collected` are about the signature and the
objects, and `Written` says of the bytes which label the last one has, so that a
byte with the label of the next object is the first of its kind (`StillBegins`
keeps earlier offsets true as bytes are added). Theorems: `TypeCorrectness`,
`WrappingIsRight`, `NotesPaintOverTheList`, `SignaturesFit`, `TheFileIsReadable`,
`ListsFitTheirBox`, for texts, lists and signatures of any size.

`WrappingIsOptimal` says that greedy lines are as few as can be. `IFull` strengthens
`IInv` with: lines come in the order of their words (`Ordered`), all lie before the
next word (`Behind`), and each is `Full`, that is, the first word of the next line
of its text would not have fitted. Given any cut of a text into lines that fit, each
greedy line holds an end of a line of that cut (`LineHoldsACut`): otherwise one line
of the cut would reach from a word in or before the greedy line to the first of the
next, which is longer than the width (`LaterWordsStartLater`, `LaterWordsEndLater`,
`TooWide`). Different greedy lines hold different ends, so picking one for each is an
injection into the cut, which therefore has no fewer lines. This needs that words are
not empty, and nothing about their lengths otherwise: a word too long for a line has
one of its own in any cut.

`NotesAreNeverShown` extends finding 3 to every record: with at least one line of
products above them the notes' part begins at 200 at the most, so that its first line
would stand at 162, and none may stand below 184. Hence none is drawn (`NotesAreBoxed`),
and none ever is (`NoRoom`).

**PDFTextProofs.** `ReadingKeepsPrintableText`: of Literal(text), for any sequence of
runes, a reader gets as many characters as the trimmed text has, and each printable
one in its place; with `Titled` (the title is drawn once, and stays) it gives
`TextsAreReadBack`. The proof says first what is read of every rune (`Seen`, `SeenText`,
`ReadingWhatIsWritten`). Reading goes from the end of the literal to its
start. `ReadingIsDefined` shows that the recursive function of ReadLiteral exists
and satisfies its equation, `EscapeIsWritten` which bytes a rune leaves,
`FlattenStepwise` and `PrefixesStay` where they stand in the literal, and `OneRune`
that reading from there gives one character for that rune and goes on after it.

Induction over data is done here without the library's induction theorems, which
take operators as parameters. A property is turned into the set of the numbers that
have it, and the least number outside it (`LeastNatural`, from WFMin and
NatLessThanWellFounded) is led to a contradiction (`SetInduction`); the recursive
functions in question are defined on intervals, and shown to exist in the same way.

**TokenSourceProofs.** `AnswersAreTrue` says that an answer promises no more time
than the token had when it was asked for, `WaitsInTime` that the wait is no longer
than `Window`; so every computed expiry is at most `Window` late
(`ExpiriesAreClose`), whoever stored it. `CacheIsBounded` follows: a reused token
has expired for less than Window - Skew.

**LifecycleProofs.** `LockIsHeld` ties the lock to the one process in its section,
`SchemaIsTold` says that only the migration of a dirty version is in doubt,
`HolderKnows` what the holder's place says about that migration, and `HasMigrated`
that whoever got past Up has its version or a later one. They give
`ServedSchemaIsComplete` and `NoMigrationRunsTwice`. `ExitsEmpty` is inductive by
itself and gives `CleanExitLosesNothing`. Two theorems say what no run checks:
`DirtyIsForGood`, that once whoever began a migration is gone (`Abandoned`) the schema
never changes again and no instance gets ready to serve, and `OlderRevisionsStayOut`,
that a revision older than the schema never gets ready again. Both follow from `MInv`
with `SchemaSteps` (only a holder that found the schema clean changes it, and the
version never falls) and `ReadySteps` (an instance gets ready at its own version).

**Only model-checked.** The liveness properties `EveryRequestAnswered`,
`PendingSettles`, `VerificationEnds`, `CallsEnd` and `SignalsEndProcesses`: fairness
and ENABLED are beyond the prover. Everything else that a passing run checks is also
proved, and TLC refutes the three violated properties. The type invariants of
`JWKSCache`, `TokenSource`, `Lifecycle` and `PDFRenderer` are proved and in no run.

## 5. What the results mean

* Racing and repeated submissions are safe, also when answers are lost: the
  unique constraint and the re-read after a conflict suffice.
* An acceptance may stay `pending` for ever. `PendingHasWorker` and
  `PendingSettles` mark the border: with storage failures alone it does only if
  Postgres refuses the text of the failure, which quotes the bucket's answer; with a
  database failure, a crash or a disconnect at the wrong moment it can as well, and
  nothing takes it up again (`StrandedForGood`). The submission that leaves it so has
  told its client of an error, or died (`StrandingIsNeverSilent`); but a client that
  submits again is told "accepted", with the status `pending`.
* The document of a `failed` or `pending` acceptance may exist nevertheless (a late
  POST). It is never served (`OnlyGeneratedIsServed`), and never belongs to another
  record.
* Overlapping JWKS fetches may put an older key set over a newer one. This delays
  the end of trust in a withdrawn key by one fetch at most, and never hides a
  published key.
* Tenancy is as of the membership check: a request already past it finishes in
  its organization, although user or organization are gone by then; a request
  that begins afterwards reaches nothing.
* The same holds of acceptances: a submission renders, uploads and marks its record
  in the organization it was admitted to, even if its caller is moved and the
  organization deleted meanwhile; no answer ever shows another organization's
  acceptance, and every acceptance belongs to an organization that still has its
  row. An acceptance is there again when its organization is revived.
* Five lines of products leave the signature's footer free. From six lines on the
  list's box runs over it, from fifteen off the page, and from sixteen its text too,
  since there is no second page; nothing of this is reported.
* The notes' box ends above the footer at any price. Behind a list of two lines or more
  it has a negative height and is filled in white from there upwards: from three list
  lines on it covers the heading "Notas" and the rule under it, from five on the lower
  edge of the list's frame, and from six on every list line but the first five
  (`NotesPaintOverTheList`).
* Of the texts, printable ASCII is read as it was accepted. A letter with an accent is
  read as a hyphen, and the bullet before a product, octal 225, is no glyph of the
  encoding the fonts have. No such rune ends its literal early or takes another with it.
* The wrapped lines of a product after its first are meant to be indented; since
  escapePDFText trims what it writes, they are not.
* A cached access token may be used after its expiry, by less than Window - Skew:
  with the code's 60 s timeout and 30 s skew, by up to 30 s, if the metadata
  server's answer is that slow. The store then refuses the call, which the service
  treats as a failed upload.
* A process that dies inside a migration leaves the schema dirty, and no instance
  starts from then on until someone repairs it by hand (`DirtyIsForGood`); running
  instances are not affected. An older revision does not start again once a newer one
  has migrated (`OlderRevisionsStayOut`).
* A signal during the migrations is looked at only after them: the process still
  opens its listener, may let requests in, and then shuts down.

## 6. Disagreements found

1. `acceptances/service.go:80`. When an upload fails because the client left, the
   MarkPDFFailed that should record it runs under the same ended context and
   fails, too. `acceptances/service_test.go:128` asserts of an upload error that
   the status is `failed`; it tries one with `context.Background()`. Run
   `upload_error` shows the submission that ends with its record `pending`.
   The assertion fails in a second way, without a disconnect: the text of a failed upload
   quotes up to 4096 bytes of the bucket's answer as they came
   (`acceptances/storage.go:65-66`), and `truncateError` cuts it at byte 2048
   (`acceptances/repository.go:305-311`). If that splits a character, or the answer has a
   NUL or bytes that are not UTF-8, Postgres refuses the UPDATE of MarkPDFFailed, and the
   record stays `pending` although the client stays and the database works. With
   `StorageFails` on and `Disconnects` off, `upload_error.cfg` shows that submission.

2. `migrations/runner.go:25`. The ping fails a startup that meets an outage of the
   database. `src/README.md:55` says: "The service itself does not fail startup on
   a transient database outage". Run `outage` shows the start that fails; the
   platform has to try again.

3. `acceptances/pdf.go:254`. The notes' lines are cut where they come closer than
   14 to the bottom of their box, and that bottom is never below the footer
   (`pdf.go:241-246`). With one line of products, the least there is, the first line
   of the notes would already be too low, so no document shows any of its notes,
   nor the sentence "No se proporcionaron notas adicionales." (`pdf.go:417`).
   `documents/roadmap-03-acceptance-pdf-generation.md:17` wants "a full snapshot of
   the submitted acceptance payload". Run `notes` shows such a document, and
   `NotesAreNeverShown` proves it of every record. With two or
   more lines of products the notes' box has a negative height as well, and hides what
   section 5 lists.

## 7. Plan

Done: the acceptance service with its abstract specification, the verifier,
tenancy, the token cache, the lifecycle, the PDF renderer, and the composition of
tenancy with the acceptance service. What could follow, in this order:

1. A composition of `TokenSource` and the storage calls of `Acceptances`: what a
   refused token does to a submission. Today a refused call is a storage failure.
2. Recovery: an abstract statement of what a repair of pending records would have
   to promise, to measure the crash hazard against.
3. The parsing of slugs, lists and durations as operators.

**Not modelled.** Customers: a repository that nothing calls. CORS and health: no
state and nothing to interleave with. Configuration: read once before anything
runs, and its parsing has no behaviour beyond the return value. Deployment files: what they fix (instances,
overlapping revisions) is in the environment of `Acceptances` and `Lifecycle`.
Names, email, dates and customer data: columns that no decision of the code looks
at. The time in `deleted_at`: only whether it is set is ever read. What a server does after
a handler has returned: the 10 s write timeout may have cut the response, so that
`CleanExitsAnswerAll` speaks of handlers, not of clients. Two hazards have no property,
because nothing says what should hold: the rollback to an older revision after a newer
one has migrated, which fails (`OlderRevisionsStayOut`), and a key set with one
malformed key, which is refused whole (`FetchFails`).

## 8. Running

    tlc -config faults.cfg MCAcceptances
    tlc -config tenancy.cfg MCTenancy
    tlc -config members.cfg MCMemberAcceptances
    tlc -config jwks.cfg JWKSCache
    tlapm AcceptancesProofs.tla

The other configurations run likewise; `faults` and `members` take between two and
three minutes, `register` and `lifecycle` about one and a half, `tenancy` about one, the
others less. `PDFRendererProofs` takes about five minutes, the other proofs less.

-------------------------- MODULE JWKSCacheProofs --------------------------
(***************************************************************************)
(* Safety of the token verifier for every set of requests and keys, every  *)
(* TTL and every bound on the length of a fetch.                           *)
(***************************************************************************)
EXTENDS JWKSCache, TLAPS

(***************************************************************************)
(* The inductive invariant: a fetch is never older than Window; what it    *)
(* returned was published after it was sent; what is cached was published  *)
(* no longer than Window before it was stored; and a request in `known'    *)
(* has its key in the key set while it runs and in its own answer.         *)
(***************************************************************************)
Timely ==
    \A r \in Requests : pc[r] \in Fetching =>
        sent[r] <= now /\ now <= sent[r] + Window

AnswersAreRecent ==
    \A r \in Requests : pc[r] = "storing" =>
        \A k \in fetched[r] : k \in published \/ sent[r] <= withdrawn[k]

CacheIsRecent ==
    /\ cache.at <= now
    /\ \A k \in cache.keys : k \in published \/ cache.at <= withdrawn[k] + Window

KnownArePublished ==
    \A r \in known :
        /\ pc[r] # "idle"
        /\ pc[r] \notin Verdicts => token[r].kid \in published
        /\ pc[r] = "storing" => token[r].kid \in fetched[r]

IInv ==
    TypeOK /\ Timely /\ AnswersAreRecent /\ CacheIsRecent /\ KnownArePublished
        /\ PublishedKeysAreFound

LEMMA Initially == Init => IInv
  BY Durations DEF Init, IInv, TypeOK, Times, Timely, AnswersAreRecent, CacheIsRecent,
     KnownArePublished, PublishedKeysAreFound, Fetching, Verdicts

LEMMA PublishKeeps == ASSUME IInv, NEW k \in Kids, Publish(k) PROVE IInv'
  BY DEF Publish, IInv, TypeOK, Timely, AnswersAreRecent, CacheIsRecent, KnownArePublished,
     PublishedKeysAreFound

LEMMA WithdrawKeeps == ASSUME IInv, NEW k \in Kids, Withdraw(k) PROVE IInv'
  <1>1. TypeOK' /\ Timely'
    BY DEF Withdraw, IInv, TypeOK, Timely
  <1>2. AnswersAreRecent'
    BY DEF Withdraw, IInv, TypeOK, Timely, AnswersAreRecent, Fetching, Times
  <1>3. CacheIsRecent'
    BY Durations DEF Withdraw, IInv, TypeOK, CacheIsRecent, Times
  <1>4. KnownArePublished' /\ PublishedKeysAreFound'
    BY DEF Withdraw, IInv, TypeOK, KnownArePublished, PublishedKeysAreFound
  <1> QED
    BY <1>1, <1>2, <1>3, <1>4 DEF IInv

LEMMA TickKeeps == ASSUME IInv, Tick PROVE IInv'
  <1>1. /\ now \in 0 .. MaxTime /\ cache.at \in 0 .. MaxTime
        /\ \A r \in Requests : sent[r] \in 0 .. MaxTime
        /\ \A k \in Kids : withdrawn[k] \in 0 .. MaxTime
    BY DEF IInv, TypeOK, Times
  <1>2. /\ now' = now + 1 /\ now < MaxTime
        /\ \A r \in Requests : pc[r] \in Fetching => now < sent[r] + Window
        /\ UNCHANGED <<published, withdrawn, cache, pc, token, sent, fetched, known>>
    BY DEF Tick, issuer
  <1>3. now' \in Times
    BY <1>1, <1>2, Durations DEF Times
  <1>4. TypeOK'
    BY <1>2, <1>3 DEF IInv, TypeOK
  <1>5. Timely'
    BY <1>1, <1>2, Durations DEF IInv, Timely
  <1>6. CacheIsRecent'
    BY <1>1, <1>2, Durations DEF IInv, CacheIsRecent
  <1>7. AnswersAreRecent' /\ KnownArePublished' /\ PublishedKeysAreFound'
    BY <1>2 DEF IInv, AnswersAreRecent, KnownArePublished, PublishedKeysAreFound
  <1> QED
    BY <1>4, <1>5, <1>6, <1>7 DEF IInv

LEMMA StartKeeps == ASSUME IInv, NEW r \in Requests, Start(r) PROVE IInv'
  <1>1. PICK t \in Tokens :
            /\ token' = [token EXCEPT ![r] = t]
            /\ known' = IF t.kid \in published THEN known \cup {r} ELSE known
    BY DEF Start
  <1>2. /\ pc[r] = "idle" /\ pc'[r] = "look" /\ token'[r] = t /\ r \notin known
        /\ \A q \in Requests \ {r} : pc'[q] = pc[q] /\ token'[q] = token[q]
    BY <1>1 DEF Start, IInv, TypeOK, KnownArePublished
  <1>3. TypeOK'
    <2>1. token' \in [Requests -> Tokens \cup {NoToken}] /\ known' \in SUBSET Requests
      BY <1>1 DEF IInv, TypeOK
    <2>2. pc' \in [Requests -> {"idle", "look"} \cup Fetching \cup Verdicts]
      BY DEF Start, IInv, TypeOK
    <2>3. \A q \in Requests : pc'[q] # "idle" => token'[q] \in Tokens
      BY <1>1, <1>2 DEF IInv, TypeOK
    <2> QED
      BY <2>1, <2>2, <2>3 DEF Start, issuer, IInv, TypeOK
  <1>4. Timely' /\ AnswersAreRecent' /\ CacheIsRecent'
    BY <1>2 DEF Start, issuer, IInv, Timely, AnswersAreRecent, CacheIsRecent, Fetching
  <1>5. KnownArePublished' /\ PublishedKeysAreFound'
    BY <1>1, <1>2 DEF Start, issuer, IInv, TypeOK, KnownArePublished, PublishedKeysAreFound
  <1> QED
    BY <1>3, <1>4, <1>5 DEF IInv

LEMMA Verdicts2 == ASSUME NEW r PROVE Verdict(r) \in {"accepted", "invalid"}
  BY DEF Verdict

\* A verification that ends without storing anything.
LEMMA EndKeeps ==
    ASSUME IInv, NEW r \in Requests, NEW v \in {"accepted", "invalid", "error"},
           pc[r] \in {"look", "fetching"}, pc' = [pc EXCEPT ![r] = v],
           UNCHANGED <<now, issuer, cache, token, sent, fetched, known>>
    PROVE  IInv'
  BY DEF issuer, IInv, TypeOK, Timely, AnswersAreRecent, CacheIsRecent, KnownArePublished,
     PublishedKeysAreFound, Fetching, Verdicts

LEMMA MissKeeps == ASSUME IInv, NEW r \in Requests, Miss(r) PROVE IInv'
  <1>1. /\ pc[r] = "look" /\ pc'[r] = "fetching" /\ sent'[r] = now
        /\ \A q \in Requests \ {r} : pc'[q] = pc[q] /\ sent'[q] = sent[q]
    BY DEF Miss, IInv, TypeOK
  <1>2. TypeOK'
    BY <1>1 DEF Miss, issuer, IInv, TypeOK, Fetching
  <1>3. Timely'
    BY <1>1, Durations DEF Miss, issuer, IInv, TypeOK, Timely, Times
  <1>4. AnswersAreRecent' /\ CacheIsRecent' /\ KnownArePublished' /\ PublishedKeysAreFound'
    BY <1>1 DEF Miss, issuer, IInv, TypeOK, AnswersAreRecent, CacheIsRecent,
       KnownArePublished, PublishedKeysAreFound, Verdicts
  <1> QED
    BY <1>2, <1>3, <1>4 DEF IInv

LEMMA RespondKeeps == ASSUME IInv, NEW r \in Requests, Respond(r) PROVE IInv'
  <1>1. /\ pc[r] = "fetching" /\ pc'[r] = "storing" /\ fetched'[r] = published
        /\ \A q \in Requests \ {r} : pc'[q] = pc[q] /\ fetched'[q] = fetched[q]
    BY DEF Respond, IInv, TypeOK
  <1>2. TypeOK'
    BY <1>1 DEF Respond, issuer, IInv, TypeOK, Fetching
  <1>3. Timely' /\ AnswersAreRecent' /\ CacheIsRecent'
    BY <1>1 DEF Respond, issuer, IInv, TypeOK, Timely, AnswersAreRecent, CacheIsRecent,
       Fetching
  <1>4. KnownArePublished' /\ PublishedKeysAreFound'
    BY <1>1 DEF Respond, issuer, IInv, TypeOK, KnownArePublished, PublishedKeysAreFound,
       Verdicts
  <1> QED
    BY <1>2, <1>3, <1>4 DEF IInv

LEMMA StoreKeeps == ASSUME IInv, NEW r \in Requests, Store(r) PROVE IInv'
  <1>1. /\ pc[r] = "storing" /\ pc'[r] \in {"accepted", "invalid", "not_found"}
        /\ pc'[r] = "not_found" => token[r].kid \notin fetched[r]
        /\ \A q \in Requests \ {r} : pc'[q] = pc[q]
        /\ cache' = [keys |-> fetched[r], at |-> now]
    BY Verdicts2 DEF Store, IInv, TypeOK
  <1>2. TypeOK'
    BY <1>1 DEF Store, issuer, IInv, TypeOK, Verdicts
  <1>3. Timely' /\ AnswersAreRecent'
    BY <1>1 DEF Store, issuer, IInv, Timely, AnswersAreRecent, Fetching
  <1>4. CacheIsRecent'
    <2>1. now <= sent[r] + Window
      BY <1>1 DEF IInv, Timely, Fetching
    <2>2. \A k \in fetched[r] : k \in published \/ sent[r] <= withdrawn[k]
      BY <1>1 DEF IInv, AnswersAreRecent
    <2>3. /\ now \in Nat /\ sent[r] \in Nat /\ fetched[r] \subseteq Kids
          /\ \A k \in Kids : withdrawn[k] \in Nat
      BY DEF IInv, TypeOK, Times
    <2> QED
      BY <1>1, <2>1, <2>2, <2>3, Durations DEF Store, issuer, CacheIsRecent
  <1>5. KnownArePublished' /\ PublishedKeysAreFound'
    BY <1>1 DEF Store, issuer, IInv, KnownArePublished, PublishedKeysAreFound, Verdicts
  <1> QED
    BY <1>2, <1>3, <1>4, <1>5 DEF IInv

\* A request that is over leaves nothing behind.
LEMMA GoneKeeps == ASSUME IInv, NEW r \in Requests, End(r) PROVE IInv'
  <1>1. /\ pc'[r] = "idle" /\ token'[r] = NoToken /\ known' = known \ {r}
        /\ \A q \in Requests \ {r} :
              pc'[q] = pc[q] /\ token'[q] = token[q] /\ sent'[q] = sent[q] /\ fetched'[q] = fetched[q]
    BY DEF End, IInv, TypeOK
  <1>2. TypeOK'
    <2>1. 0 \in Times
      BY Durations DEF Times
    <2>2. /\ token' \in [Requests -> Tokens \cup {NoToken}] /\ known' \in SUBSET Requests
          /\ pc' \in [Requests -> {"idle", "look"} \cup Fetching \cup Verdicts]
      BY DEF End, IInv, TypeOK
    <2>3. sent' \in [Requests -> Times] /\ fetched' \in [Requests -> SUBSET Kids]
      BY <2>1 DEF End, IInv, TypeOK
    <2>4. \A q \in Requests : pc'[q] # "idle" => token'[q] \in Tokens
      BY <1>1 DEF IInv, TypeOK
    <2> QED
      BY <2>2, <2>3, <2>4 DEF End, issuer, IInv, TypeOK
  <1>3. Timely' /\ AnswersAreRecent' /\ CacheIsRecent'
    BY <1>1 DEF End, issuer, IInv, Timely, AnswersAreRecent, CacheIsRecent, Fetching
  <1>4. KnownArePublished' /\ PublishedKeysAreFound'
    BY <1>1 DEF End, issuer, IInv, TypeOK, KnownArePublished, PublishedKeysAreFound
  <1> QED
    BY <1>2, <1>3, <1>4 DEF IInv

LEMMA NextKeeps == ASSUME IInv, [Next]_vars PROVE IInv'
  <1>1. ASSUME NEW r \in Requests, Hit(r) PROVE IInv'
    BY <1>1, EndKeeps, Verdicts2 DEF Hit
  <1>2. ASSUME NEW r \in Requests, FetchFails(r) PROVE IInv'
    BY <1>2, EndKeeps DEF FetchFails
  <1>3. CASE UNCHANGED vars
    BY <1>3 DEF vars, IInv, TypeOK, Timely, AnswersAreRecent, CacheIsRecent,
       KnownArePublished, PublishedKeysAreFound
  <1> QED
    BY <1>1, <1>2, <1>3, PublishKeeps, WithdrawKeeps, TickKeeps, StartKeeps, MissKeeps,
       RespondKeeps, StoreKeeps, GoneKeeps DEF Next, Verify

LEMMA Invariance == Spec => []IInv
  BY Initially, NextKeeps, PTL DEF Spec

-----------------------------------------------------------------------------
\* The cache, the requests and the issuer's history keep their types.
THEOREM TypeCorrectness == Spec => []TypeOK
  BY Invariance, PTL DEF IInv

\* A key that is in the key set all through a request is never reported missing.
THEOREM NoPublishedKeyIsMissed == Spec => []PublishedKeysAreFound
  BY Invariance, PTL DEF IInv

\* Only a hit and a store decide that a token is accepted.
LEMMA AcceptingSteps ==
    ASSUME IInv, [Next]_vars, NEW r \in Requests, Decides(r, "accepted")
    PROVE  /\ Verdict(r) = "accepted"
           /\ \/ token[r].kid \in cache.keys /\ Fresh
              \/ pc[r] = "storing" /\ token[r].kid \in fetched[r]
  <1>1. ASSUME NEW q \in Requests, Hit(q)
        PROVE  q = r /\ Verdict(r) = "accepted" /\ token[r].kid \in cache.keys /\ Fresh
    BY <1>1 DEF Hit, Decides, IInv, TypeOK
  <1>2. ASSUME NEW q \in Requests, Store(q)
        PROVE  /\ q = r /\ Verdict(r) = "accepted"
               /\ pc[r] = "storing" /\ token[r].kid \in fetched[r]
    BY <1>2 DEF Store, Decides, IInv, TypeOK
  <1>3. ASSUME NEW q \in Requests, Start(q) \/ Miss(q) \/ Respond(q) \/ FetchFails(q)
        PROVE  FALSE
    BY <1>3 DEF Start, Miss, Respond, FetchFails, Decides, IInv, TypeOK
  <1>4. ASSUME NEW k \in Kids, Publish(k) \/ Withdraw(k)
        PROVE  FALSE
    BY <1>4 DEF Publish, Withdraw, Decides
  <1>5. ASSUME NEW q \in Requests, End(q)
        PROVE  FALSE
    BY <1>5 DEF End, Decides, IInv, TypeOK
  <1> QED
    BY <1>1, <1>2, <1>3, <1>4, <1>5 DEF Next, Verify, Tick, vars, Decides

\* Trust in a withdrawn key ends before TTL + Window have passed.
THEOREM WithdrawalTakesEffect == Spec => WithdrawnKeysExpire
  <1> DEFINE Bounded == \A r \in Requests : Decides(r, "accepted") =>
                LET k == token[r].kid IN
                k \in published \/ now < withdrawn[k] + TTL + Window
  <1>1. ASSUME IInv, [Next]_vars PROVE Bounded
    <2> SUFFICES ASSUME NEW r \in Requests, Decides(r, "accepted"),
                        token[r].kid \notin published
                 PROVE  now < withdrawn[token[r].kid] + TTL + Window
      OBVIOUS
    <2>1. cache.at \in Nat /\ now \in Nat /\ sent[r] \in Nat /\ cache.keys \subseteq Kids
              /\ fetched[r] \subseteq Kids /\ \A k \in Kids : withdrawn[k] \in Nat
      BY <1>1 DEF IInv, TypeOK, Times
    <2>2. CASE token[r].kid \in cache.keys /\ Fresh
      <3>1. now < cache.at + TTL /\ cache.at <= withdrawn[token[r].kid] + Window
        BY <1>1, <2>2 DEF IInv, CacheIsRecent, Fresh
      <3> QED
        BY <2>1, <2>2, <3>1, Durations
    <2>3. CASE pc[r] = "storing" /\ token[r].kid \in fetched[r]
      <3>1. now <= sent[r] + Window /\ sent[r] <= withdrawn[token[r].kid]
        BY <1>1, <2>3 DEF IInv, Timely, AnswersAreRecent, Fetching
      <3> QED
        BY <2>1, <2>3, <3>1, Durations
    <2> QED
      BY <1>1, <2>2, <2>3, AcceptingSteps
  <1>2. IInv /\ [Next]_vars => [Bounded]_vars
    BY <1>1
  <1> QED
    BY <1>2, Invariance, PTL DEF Spec, WithdrawnKeysExpire

\* No token is accepted after its `exp', however long its key took to fetch.
THEOREM ExpiredAreRefused == Spec => ExpiryIsCheckedLast
  <1> DEFINE Current == \A r \in Requests : Decides(r, "accepted") => now <= token[r].exp
  <1>1. IInv /\ [Next]_vars => [Current]_vars
    BY AcceptingSteps DEF Verdict
  <1> QED
    BY <1>1, Invariance, PTL DEF Spec, ExpiryIsCheckedLast
=============================================================================

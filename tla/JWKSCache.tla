----------------------------- MODULE JWKSCache -----------------------------
(***************************************************************************)
(* The token verifier of internal/auth/clerk: Verify and the cache of the  *)
(* issuer's public keys in keyForKID.  The cache is read and written under *)
(* v.mu, but the mutex is released while the key set is fetched, so        *)
(* several requests fetch at once and store in any order, while the issuer *)
(* goes on rotating its keys.                                              *)
(*                                                                         *)
(* Time is counted in ticks.  A computation takes none; a fetch, from the  *)
(* moment it is sent until its keys are stored, takes at most Window: the  *)
(* 10 s timeout of the http client and what the scheduler adds to it.      *)
(***************************************************************************)
EXTENDS Naturals

CONSTANTS
    Requests,  \* goroutines that serve requests with a token, one after the other
    Kids,      \* key ids, each the name of one RSA key
    TTL,       \* cacheTTL
    Window,    \* the longest time between sending a fetch and storing its keys
    Expiries,  \* the `exp' claims of the tokens
    MaxTime    \* bound of the clock

ASSUME Durations ==
    TTL \in Nat \ {0} /\ Window \in Nat /\ MaxTime \in Nat /\ Expiries \subseteq Nat

Times == 0 .. MaxTime

\* A token with a well-formed RS256 header and the right issuer and audience;
\* `genuine' says whether the key its header names did sign it.
Tokens == [kid : Kids, genuine : BOOLEAN, exp : Expiries]

Fetching == {"fetching", "storing"}

Verdicts == {"accepted", "invalid", "not_found", "error"}

VARIABLES
    now,        \* the clock
    published,  \* the keys in the issuer's key set
    withdrawn,  \* when each key last left the key set
    cache,      \* keysByKID and cachedAt
    pc,         \* where each verification is, or how it ended
    token,      \* the token each request carries
    sent,       \* when its fetch was sent
    fetched,    \* the keys its fetch returned
    known       \* requests whose key has been in the set ever since they began

vars == <<now, published, withdrawn, cache, pc, token, sent, fetched, known>>

issuer == <<published, withdrawn>>

NoToken == [kid |-> {}, genuine |-> FALSE, exp |-> 0]

TypeOK ==
    /\ now \in Times
    /\ published \in SUBSET Kids
    /\ withdrawn \in [Kids -> Times]
    /\ cache \in [keys : SUBSET Kids, at : Times]
    /\ pc \in [Requests -> {"idle", "look"} \cup Fetching \cup Verdicts]
    /\ token \in [Requests -> Tokens \cup {NoToken}]
    /\ \A r \in Requests : pc[r] # "idle" => token[r] \in Tokens
    /\ sent \in [Requests -> Times]
    /\ fetched \in [Requests -> SUBSET Kids]
    /\ known \in SUBSET Requests

Init ==
    /\ now = 0
    /\ published \in SUBSET Kids
    /\ withdrawn = [k \in Kids |-> 0]
    /\ cache = [keys |-> {}, at |-> 0]
    /\ pc = [r \in Requests |-> "idle"]
    /\ token = [r \in Requests |-> NoToken]
    /\ sent = [r \in Requests |-> 0]
    /\ fetched = [r \in Requests |-> {}]
    /\ known = {}

-----------------------------------------------------------------------------
(* The issuer and the clock.                                               *)

Publish(k) ==
    /\ k \notin published
    /\ published' = published \cup {k}
    /\ UNCHANGED <<now, withdrawn, cache, pc, token, sent, fetched, known>>

Withdraw(k) ==
    /\ k \in published
    /\ published' = published \ {k}
    /\ withdrawn' = [withdrawn EXCEPT ![k] = now]
    /\ known' = {r \in known : token[r].kid # k \/ pc[r] \in Verdicts}
    /\ UNCHANGED <<now, cache, pc, token, sent, fetched>>

\* The http client's timeout ends every fetch in time.
Tick ==
    /\ now < MaxTime
    /\ \A r \in Requests : pc[r] \in Fetching => now < sent[r] + Window
    /\ now' = now + 1
    /\ UNCHANGED <<issuer, cache, pc, token, sent, fetched, known>>

-----------------------------------------------------------------------------
(* Verify.                                                                 *)

Start(r) ==
    /\ pc[r] = "idle"
    /\ \E t \in Tokens :
        /\ token' = [token EXCEPT ![r] = t]
        /\ known' = IF t.kid \in published THEN known \cup {r} ELSE known
    /\ pc' = [pc EXCEPT ![r] = "look"]
    /\ UNCHANGED <<now, issuer, cache, sent, fetched>>

\* Wrong, for mutation: validateClaims runs before the key is fetched.
VerdictOnArrival(r) ==
    IF token[r].genuine /\ sent[r] <= token[r].exp THEN "accepted" ELSE "invalid"

\* The signature check and validateClaims, on the clock as it is by then.
Verdict(r) == IF token[r].genuine /\ now <= token[r].exp THEN "accepted" ELSE "invalid"

Fresh == now < cache.at + TTL

\* Wrong, for mutation: each use renews the cache.
HitSliding(r) ==
    /\ pc[r] = "look"
    /\ token[r].kid \in cache.keys
    /\ Fresh
    /\ cache' = [cache EXCEPT !.at = now]
    /\ pc' = [pc EXCEPT ![r] = Verdict(r)]
    /\ UNCHANGED <<now, issuer, token, sent, fetched, known>>

\* keyForKID's first critical section finds the key in a cache that is fresh.
Hit(r) ==
    /\ pc[r] = "look"
    /\ token[r].kid \in cache.keys
    /\ Fresh
    /\ pc' = [pc EXCEPT ![r] = Verdict(r)]
    /\ UNCHANGED <<now, issuer, cache, token, sent, fetched, known>>

\* Otherwise the mutex is released and the key set requested.
Miss(r) ==
    /\ pc[r] = "look"
    /\ ~(token[r].kid \in cache.keys /\ Fresh)
    /\ pc' = [pc EXCEPT ![r] = "fetching"]
    /\ sent' = [sent EXCEPT ![r] = now]
    /\ UNCHANGED <<now, issuer, cache, token, fetched, known>>

\* The issuer answers with its keys of the moment.
Respond(r) ==
    /\ pc[r] = "fetching"
    /\ pc' = [pc EXCEPT ![r] = "storing"]
    /\ fetched' = [fetched EXCEPT ![r] = published]
    /\ UNCHANGED <<now, issuer, cache, token, sent, known>>

\* A transport error, a bad status, a body that does not decode, or one
\* malformed RSA key among the others: the whole answer is refused.
FetchFails(r) ==
    /\ pc[r] = "fetching"
    /\ pc' = [pc EXCEPT ![r] = "error"]
    /\ UNCHANGED <<now, issuer, cache, token, sent, fetched, known>>

\* Wrong, for mutation: a cache that another request stored since is kept and used.
StoreUnlessRefreshed(r) ==
    /\ pc[r] = "storing"
    /\ cache' = IF cache.at > sent[r] THEN cache ELSE [keys |-> fetched[r], at |-> now]
    /\ pc' = [pc EXCEPT ![r] = IF token[r].kid \in cache'.keys THEN Verdict(r)
                                                               ELSE "not_found"]
    /\ UNCHANGED <<now, issuer, token, sent, fetched, known>>

\* Wrong, for mutation: the key is looked up in the shared cache again.
StoreAndLookAgain(r) ==
    /\ pc[r] = "storing"
    /\ cache' = [keys |-> fetched[r], at |-> now]
    /\ pc' = [pc EXCEPT ![r] = "look"]
    /\ UNCHANGED <<now, issuer, token, sent, fetched, known>>

\* The second critical section replaces the cache, whoever wrote it since; the
\* key is then taken from the answer the request fetched itself.
Store(r) ==
    /\ pc[r] = "storing"
    /\ cache' = [keys |-> fetched[r], at |-> now]
    /\ pc' = [pc EXCEPT ![r] = IF token[r].kid \in fetched[r] THEN Verdict(r)
                                                              ELSE "not_found"]
    /\ UNCHANGED <<now, issuer, token, sent, fetched, known>>

\* The middleware lets the request on or answers it; the goroutine is free again.
End(r) ==
    /\ pc[r] \in Verdicts
    /\ pc' = [pc EXCEPT ![r] = "idle"]
    /\ token' = [token EXCEPT ![r] = NoToken]
    /\ sent' = [sent EXCEPT ![r] = 0]
    /\ fetched' = [fetched EXCEPT ![r] = {}]
    /\ known' = known \ {r}
    /\ UNCHANGED <<now, issuer, cache>>

Verify(r) == Hit(r) \/ Miss(r) \/ Respond(r) \/ FetchFails(r) \/ Store(r)

Next ==
    \/ \E k \in Kids : Publish(k) \/ Withdraw(k)
    \/ \E r \in Requests : Start(r) \/ Verify(r) \/ End(r)
    \/ Tick

Spec == Init /\ [][Next]_vars

\* Goroutines run, and the http client's timeout ends each fetch.
FairSpec == Spec /\ \A r \in Requests : WF_vars(Verify(r))

-----------------------------------------------------------------------------
(* What must hold of the verifier.                                         *)

Decides(r, v) == pc'[r] = v /\ pc[r] # v

\* A key that the issuer withdrew is trusted for less than TTL + Window more,
\* however fetches overlap and whoever stores last: an answer that was out of
\* date when it was stored still counts as fresh for a whole TTL.
WithdrawnKeysExpire ==
    [][\A r \in Requests : Decides(r, "accepted") =>
          LET k == token[r].kid IN
          k \in published \/ now < withdrawn[k] + TTL + Window]_vars

\* A request whose key has been published since before the request began is
\* never told that the key does not exist, although other requests replace the
\* cache with older key sets meanwhile.
PublishedKeysAreFound == \A r \in known : pc[r] # "not_found"

\* A token that expires while its key is being fetched is not accepted.
ExpiryIsCheckedLast ==
    [][\A r \in Requests : Decides(r, "accepted") => now <= token[r].exp]_vars

\* Every verification ends, whatever the issuer does.
VerificationEnds == \A r \in Requests : pc[r] = "look" ~> pc[r] \in Verdicts
=============================================================================

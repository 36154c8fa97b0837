---------------------------- MODULE TokenSource ----------------------------
(***************************************************************************)
(* metadataTokenSource.Token of internal/acceptances/storage.go: the       *)
(* access token that every Upload and Download sends to the object store,  *)
(* kept between calls.  s.mu is held to read and to write the pair of      *)
(* token and expiry, never during the fetch, so goroutines that find the   *)
(* pair stale fetch at once and store in any order.                        *)
(*                                                                         *)
(* The metadata server says how many seconds a token has left; the code    *)
(* counts them from the moment it has read the answer, which may be late.  *)
(* A token is known by its real expiry.  GCP_ACCESS_TOKEN is unset, as it  *)
(* is in a deployment: a token given there is returned as it is.           *)
(***************************************************************************)
EXTENDS Integers

CONSTANTS
    Callers,  \* goroutines that serve requests, each calling Token again and again
    Life,     \* the longest life of a token that the metadata server hands out
    Skew,     \* the 30 s before its expiry from which a token is not reused
    Window,   \* the longest time between asking for a token and storing it
    MaxTime   \* bound of the clock

ASSUME Durations ==
    Life \in Nat \ {0} /\ Skew \in Nat /\ Window \in Nat /\ MaxTime \in Nat

Times == 0 .. MaxTime

VARIABLES
    now,     \* the clock
    cache,   \* token and expiry, or nothing stored yet
    pc,      \* where each call of Token is
    asked,   \* when its request to the metadata server was sent
    answer   \* the answer: the token and the seconds it has left; then its expiry

vars == <<now, cache, pc, asked, answer>>

\* A token by its real expiry, and the expiry that the code computed for it.
Pairs == [token : 1 .. MaxTime + Life, expiry : 0 .. MaxTime + Life]

NoPair == [token |-> 0, expiry |-> 0]

Waiting == {"asking", "answered", "read"}

TypeOK ==
    /\ now \in Times
    /\ cache \in Pairs \cup {NoPair}
    /\ pc \in [Callers -> Waiting \cup {"idle", "cached", "fetched", "error"}]
    /\ asked \in [Callers -> Times]
    /\ answer \in [Callers -> Pairs \cup {NoPair}]

Init ==
    /\ now = 0
    /\ cache = NoPair
    /\ pc = [c \in Callers |-> "idle"]
    /\ asked = [c \in Callers |-> 0]
    /\ answer = [c \in Callers |-> NoPair]

-----------------------------------------------------------------------------
\* The http client's timeout ends every fetch in time.
Tick ==
    /\ now < MaxTime
    /\ \A c \in Callers : pc[c] \in Waiting => now < asked[c] + Window
    /\ now' = now + 1
    /\ UNCHANGED <<cache, pc, asked, answer>>

Fresh == cache # NoPair /\ now < cache.expiry - Skew

\* The first critical section finds a token that has more than Skew left.
Reuse(c) ==
    /\ pc[c] = "idle"
    /\ Fresh
    /\ pc' = [pc EXCEPT ![c] = "cached"]
    /\ answer' = [answer EXCEPT ![c] = cache]
    /\ UNCHANGED <<now, cache, asked>>

\* Otherwise the mutex is released and the metadata server asked.
Ask(c) ==
    /\ pc[c] = "idle"
    /\ ~Fresh
    /\ pc' = [pc EXCEPT ![c] = "asking"]
    /\ asked' = [asked EXCEPT ![c] = now]
    /\ UNCHANGED <<now, cache, answer>>

\* The metadata server answers with a token that is valid now, new or handed
\* out before, and with the time it has left; or it leaves expires_in out.
Answer(c) ==
    /\ pc[c] = "asking"
    /\ \E left \in 1 .. Life : \E said \in {left, 0} :
          answer' = [answer EXCEPT ![c] = [token |-> now + left, expiry |-> said]]
    /\ pc' = [pc EXCEPT ![c] = "answered"]
    /\ UNCHANGED <<now, cache, asked>>

\* The body is decoded and the expiry counted from the clock of now.
ReadAnswer(c) ==
    /\ pc[c] = "answered"
    /\ answer' = [answer EXCEPT ![c].expiry = now + answer[c].expiry]
    /\ pc' = [pc EXCEPT ![c] = "read"]
    /\ UNCHANGED <<now, cache, asked>>

\* A transport error, a bad status, a body that does not decode, no token in it.
Fail(c) ==
    /\ pc[c] \in {"asking", "answered"}
    /\ pc' = [pc EXCEPT ![c] = "error"]
    /\ UNCHANGED <<now, cache, asked, answer>>

\* Wrong, for mutation: the expiry is kept when it is later than the new one.
StoreLaterExpiry(c) ==
    /\ pc[c] = "read"
    /\ cache' = [token |-> answer[c].token,
                 expiry |-> IF cache.expiry > answer[c].expiry THEN cache.expiry
                                                               ELSE answer[c].expiry]
    /\ pc' = [pc EXCEPT ![c] = "fetched"]
    /\ UNCHANGED <<now, asked, answer>>

\* Wrong, for mutation: Token looks in the cache again instead of returning.
StoreAndLookAgain(c) ==
    /\ pc[c] = "read"
    /\ cache' = answer[c]
    /\ pc' = [pc EXCEPT ![c] = "idle"]
    /\ UNCHANGED <<now, asked, answer>>

\* The second critical section replaces the pair, whoever wrote it since.
Store(c) ==
    /\ pc[c] = "read"
    /\ cache' = answer[c]
    /\ pc' = [pc EXCEPT ![c] = "fetched"]
    /\ UNCHANGED <<now, asked, answer>>

Token(c) == Reuse(c) \/ Ask(c) \/ Answer(c) \/ ReadAnswer(c) \/ Fail(c) \/ Store(c)

\* Upload or Download goes on with the token or returns the error; the
\* goroutine may call Token again.
Return(c) ==
    /\ pc[c] \in {"cached", "fetched", "error"}
    /\ pc' = [pc EXCEPT ![c] = "idle"]
    /\ answer' = [answer EXCEPT ![c] = NoPair]
    /\ asked' = [asked EXCEPT ![c] = 0]
    /\ UNCHANGED <<now, cache>>

Next == Tick \/ \E c \in Callers : Token(c) \/ Return(c)

Spec == Init /\ [][Next]_vars

\* A call that has asked runs on, and the http client's timeout ends its wait.
FairSpec == Spec /\ \A c \in Callers :
    WF_vars(Answer(c) \/ ReadAnswer(c) \/ Fail(c) \/ Store(c))

-----------------------------------------------------------------------------
\* A token reused from the cache expired less than Window - Skew ago, whoever
\* stored last: if a fetch took at most Skew, it would not have expired at all.
CachedTokensAreFresh ==
    [][\A c \in Callers :
          pc'[c] = "cached" /\ pc[c] # "cached" =>
              now + Skew < answer'[c].token + Window]_vars

\* A caller that asked for a token gets one or an error, whatever is stored
\* meanwhile.
CallsEnd == \A c \in Callers : pc[c] \in Waiting ~> pc[c] \in {"fetched", "error"}
=============================================================================

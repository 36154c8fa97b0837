------------------------- MODULE TokenSourceProofs -------------------------
(***************************************************************************)
(* A cached token is never reused later than the skew and the longest      *)
(* fetch allow, for every number of callers and every choice of durations. *)
(***************************************************************************)
EXTENDS TokenSource, TLAPS

\* A fetch in progress is within its time.
WaitsInTime == \A c \in Callers :
    pc[c] \in Waiting => asked[c] <= now /\ now <= asked[c] + Window

\* The time that an answer says is left is no more than the token had left when
\* it was asked for.
AnswersAreTrue == \A c \in Callers :
    pc[c] = "answered" =>
        /\ answer[c] \in Pairs
        /\ answer[c].expiry <= Life
        /\ answer[c].expiry <= answer[c].token - asked[c]

\* An expiry that the code computed is at most Window late.
Bounded(p) == p.expiry <= p.token + Window

ExpiriesAreClose ==
    /\ Bounded(cache)
    /\ \A c \in Callers : pc[c] = "read" => answer[c] \in Pairs /\ Bounded(answer[c])

IInv == TypeOK /\ WaitsInTime /\ AnswersAreTrue /\ ExpiriesAreClose

LEMMA Initially == Init => IInv
BY Durations DEF Init, IInv, TypeOK, WaitsInTime, AnswersAreTrue, ExpiriesAreClose,
    Bounded, Times, Pairs, NoPair, Waiting

LEMMA Inductive == IInv /\ [Next]_vars => IInv'
<1> SUFFICES ASSUME IInv, [Next]_vars PROVE IInv'
    OBVIOUS
<1> USE Durations DEF IInv, TypeOK, WaitsInTime, AnswersAreTrue, ExpiriesAreClose,
    Bounded, Times, Pairs, NoPair, Waiting
<1>1. CASE Tick
    BY <1>1 DEF Tick
<1>2. ASSUME NEW c \in Callers, Reuse(c) PROVE IInv'
    BY <1>2 DEF Reuse
<1>3. ASSUME NEW c \in Callers, Ask(c) PROVE IInv'
    BY <1>3 DEF Ask
<1>4. ASSUME NEW c \in Callers, Answer(c) PROVE IInv'
    <2>1. PICK left \in 1 .. Life : \E said \in {left, 0} :
              answer' = [answer EXCEPT ![c] = [token |-> now + left, expiry |-> said]]
        BY <1>4 DEF Answer
    <2>2. PICK said \in {left, 0} :
              answer' = [answer EXCEPT ![c] = [token |-> now + left, expiry |-> said]]
        BY <2>1
    <2> DEFINE p == [token |-> now + left, expiry |-> said]
    <2>3. answer' = [answer EXCEPT ![c] = p]
        BY <2>2
    <2>4. p \in Pairs /\ p.expiry <= Life /\ p.expiry <= p.token - asked[c]
        BY <1>4 DEF Answer
    <2> HIDE DEF p
    <2> QED
        BY <1>4, <2>3, <2>4 DEF Answer
<1>5. ASSUME NEW c \in Callers, ReadAnswer(c) PROVE IInv'
    <2> DEFINE p == [answer[c] EXCEPT !.expiry = now + answer[c].expiry]
    <2>1. answer' = [answer EXCEPT ![c] = p]
        BY <1>5 DEF ReadAnswer
    <2>2. answer[c] \in Pairs /\ now + answer[c].expiry \in 0 .. MaxTime + Life
        BY <1>5 DEF ReadAnswer
    <2>3. p = [token |-> answer[c].token, expiry |-> now + answer[c].expiry]
        BY <2>2
    <2>4. p \in Pairs /\ Bounded(p)
        BY <1>5, <2>2, <2>3 DEF ReadAnswer
    <2> HIDE DEF p
    <2> QED
        BY <1>5, <2>1, <2>4 DEF ReadAnswer
<1>6. ASSUME NEW c \in Callers, Fail(c) PROVE IInv'
    BY <1>6 DEF Fail
<1>7. ASSUME NEW c \in Callers, Store(c) PROVE IInv'
    BY <1>7 DEF Store
<1>8. ASSUME NEW c \in Callers, Return(c) PROVE IInv'
    BY <1>8 DEF Return
<1>9. CASE UNCHANGED vars
    BY <1>9 DEF vars
<1> QED
    BY <1>1, <1>2, <1>3, <1>4, <1>5, <1>6, <1>7, <1>8, <1>9 DEF Next, Token

LEMMA Invariance == Spec => []IInv
BY Initially, Inductive, PTL DEF Spec

\* The variables keep their types.
THEOREM TypeCorrectness == Spec => []TypeOK
BY Invariance, PTL DEF IInv

\* Token never reuses a token that expired Window - Skew ago or earlier, for any
\* number of callers that fetch and store in any order.
THEOREM CacheIsBounded == Spec => CachedTokensAreFresh
<1> DEFINE Fine == \A c \in Callers :
        pc'[c] = "cached" /\ pc[c] # "cached" => now + Skew < answer'[c].token + Window
<1>1. IInv /\ [Next]_vars => [Fine]_vars
    <2> SUFFICES ASSUME IInv, Next, NEW d \in Callers,
                        pc'[d] = "cached", pc[d] # "cached"
                 PROVE  now + Skew < answer'[d].token + Window
        BY DEF vars
    <2>1. Reuse(d)
        BY DEF Next, Token, Tick, Reuse, Ask, Answer, ReadAnswer, Fail, Store, Return, IInv, TypeOK
    <2>2. answer'[d] = cache /\ now < cache.expiry - Skew
        BY <2>1 DEF Reuse, Fresh, IInv, TypeOK
    <2> QED
        BY <2>2, Durations DEF IInv, TypeOK, ExpiriesAreClose, Bounded, Pairs, NoPair, Times
<1> QED
    BY <1>1, Invariance, PTL DEF Spec, CachedTokensAreFresh
=============================================================================

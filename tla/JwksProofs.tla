----------------------------- MODULE JwksProofs -----------------------------
(***************************************************************************)
(* Theorems about Jwks, for every set of keys and requests, every time to  *)
(* live and every bound on a fetch.                                        *)
(*                                                                         *)
(* The inductive invariant says of every set of keys the API holds, in its *)
(* cache or on the way there, since when it has been outdated at most: a   *)
(* key that is wrong in it changed after the request for it was sent.      *)
(***************************************************************************)
EXTENDS Jwks, TLAPS

\* data was true of the provider at time t or later.
TrueAt(data, t) ==
    \A k \in Keys :
        /\ k \in data /\ phase[k] = "past" => changed[k] >= t
        /\ k \notin data /\ phase[k] = "current" => changed[k] >= t

FetchesBounded ==
    \A r \in InFlight : sent[r] <= now /\ now <= sent[r] + Delay

AnswersTrue ==
    \A r \in Requests : pc[r] = "answered" => TrueAt(answer[r], sent[r])

\* What a slow fetch stores is at most Delay older than its stamp.
CacheTrue ==
    \A e \in cache : TrueAt(e.data, e.at - Delay)

Snapshots == FetchesBounded /\ AnswersTrue /\ CacheTrue

IInv ==
    /\ TypeOK
    /\ Snapshots
    /\ WithdrawnRefused
    /\ PublishedKnown
-----------------------------------------------------------------------------
(* Time and rotation keep the types: later times, and no key goes back.    *)
LEMMA TypeStep == ASSUME TypeOK, [Next]_vars PROVE TypeOK'
<1> DEFINE Out == {k \in Keys : phase[k] # "future"}
<1>1. CASE Tick
  <2>1. 0..now \subseteq 0..now' /\ now' \in Nat
    BY <1>1 DEF Tick, TypeOK
  <2>2. QED
    BY <1>1, <2>1 DEF Tick, TypeOK
<1>2. ASSUME NEW k \in Keys, Publish(k) \/ Withdraw(k)
      PROVE  TypeOK'
  <2>1. \E to \in {"current", "past"} : phase' = [phase EXCEPT ![k] = to]
    BY <1>2 DEF Publish, Withdraw, Rotate
  <2>2. phase' \in [Keys -> {"future", "current", "past"}] /\ Out \subseteq Out'
    BY <2>1 DEF TypeOK
  <2>3. /\ changed' = [changed EXCEPT ![k] = now] /\ now \in 0..now
        /\ UNCHANGED <<now, cache, pc, kid, sent, answer, when>>
    BY <1>2 DEF Publish, Withdraw, Rotate, TypeOK
  <2>4. cache' \in SUBSET [data : SUBSET Out', at : 0..now]
    BY <2>2, <2>3 DEF TypeOK
  <2>5. answer' \in [Requests -> SUBSET Out']
    BY <2>2, <2>3 DEF TypeOK
  <2>6. QED
    BY <2>2, <2>3, <2>4, <2>5 DEF TypeOK
<1>3. ASSUME NEW r \in Requests, NEW data, Decide(r, data)
      PROVE  /\ pc' \in [Requests -> {"idle", "fetching", "answered", "accepted", "failed",
                                      "unknown", "unavailable", "dropped"}]
             /\ sent' \in [Requests -> 0..now] /\ when' \in [Requests -> 0..now]
             /\ answer' \in [Requests -> SUBSET Out]
  BY <1>3 DEF Decide, End, Verdicts, TypeOK
<1>4. ASSUME NEW r \in Requests, Hit(r)
      PROVE  TypeOK'
  BY <1>3, <1>4 DEF Hit, TypeOK
<1>5. ASSUME NEW r \in Requests, Store(r)
      PROVE  TypeOK'
  <2>1. Entry(answer[r], now) \in [data : SUBSET Out, at : 0..now]
    BY DEF Entry, TypeOK
  <2>2. QED
    BY <1>3, <1>5, <2>1 DEF Store, TypeOK
<1>6. ASSUME NEW r \in Requests, Miss(r) \/ Serve(r)
      PROVE  TypeOK'
  <2>1. now \in 0..now /\ Published \in SUBSET Out
    BY DEF TypeOK, Published
  <2>2. QED
    BY <1>6, <2>1 DEF Miss, Serve, TypeOK
<1>7. ASSUME NEW r \in Requests, FetchFails(r) \/ Drop(r)
      PROVE  TypeOK'
  BY <1>7 DEF FetchFails, Drop, End, TypeOK
<1>8. CASE UNCHANGED vars
  BY <1>8 DEF vars, TypeOK
<1>9. QED
  BY <1>1, <1>2, <1>4, <1>5, <1>6, <1>7, <1>8 DEF Next, Step

(* Keys change now, so what was true at an earlier time stays so.          *)
LEMMA TrueStays ==
    ASSUME TypeOK, [Next]_vars,
           NEW data, NEW t \in Int, t <= now, TrueAt(data, t)
    PROVE  TrueAt(data, t)'
<1>1. ASSUME NEW k \in Keys, Publish(k) \/ Withdraw(k)
      PROVE  TrueAt(data, t)'
  BY <1>1 DEF Publish, Withdraw, Rotate, TypeOK, TrueAt
<1>2. CASE UNCHANGED <<phase, changed>>
  BY <1>2 DEF TrueAt
<1>3. QED
  BY <1>1, <1>2
     DEF Next, Tick, Step, Hit, Miss, Serve, Store, FetchFails, Drop, vars

(* ... and at an earlier time still.                                       *)
LEMMA TrueBefore ==
    ASSUME TypeOK, NEW data, NEW t \in Int, NEW u \in Int, u <= t, TrueAt(data, t)
    PROVE  TrueAt(data, u)
<1>1. \A k \in Keys : changed[k] \in Int
  BY DEF TypeOK
<1>2. \A n \in Int : n >= t => n >= u
  OBVIOUS
<1>3. QED
  BY <1>1, <1>2 DEF TrueAt

(* Every fetch is in time.                                                 *)
LEMMA FetchStep == ASSUME TypeOK, FetchesBounded, [Next]_vars PROVE FetchesBounded'
<1>1. CASE Tick
  BY <1>1, DelayAssumption DEF Tick, TypeOK, FetchesBounded, InFlight
<1>2. ASSUME NEW k \in Keys, Publish(k) \/ Withdraw(k)
      PROVE  FetchesBounded'
  BY <1>2 DEF Publish, Withdraw, Rotate, FetchesBounded, InFlight
<1>3. ASSUME NEW r \in Requests, Miss(r) \/ Serve(r)
      PROVE  FetchesBounded'
  BY <1>3, DelayAssumption DEF Miss, Serve, TypeOK, FetchesBounded, InFlight
<1>4. ASSUME NEW r \in Requests, Hit(r) \/ Store(r) \/ FetchFails(r) \/ Drop(r)
      PROVE  FetchesBounded'
  <2>1. now' = now /\ \E v \in {"accepted", "failed", "unknown", "unavailable", "dropped"} : End(r, v)
    BY <1>4 DEF Hit, Store, FetchFails, Drop, Decide, Verdicts
  <2>2. QED
    BY <2>1 DEF End, TypeOK, FetchesBounded, InFlight
<1>5. CASE UNCHANGED vars
  BY <1>5 DEF vars, FetchesBounded, InFlight
<1>6. QED
  BY <1>1, <1>2, <1>3, <1>4, <1>5 DEF Next, Step

(* A request that was answered has fetched, with the keys of that moment.  *)
LEMMA AnswerStep == ASSUME IInv, [Next]_vars PROVE AnswersTrue'
<1>1. SUFFICES ASSUME NEW r \in Requests, pc'[r] = "answered"
               PROVE  TrueAt(answer[r], sent[r])'
  BY DEF AnswersTrue
<1>2. CASE Serve(r)
  <2>1. /\ answer'[r] = Published /\ sent'[r] = sent[r]
        /\ phase' = phase /\ changed' = changed
    BY <1>2 DEF Serve, IInv, TypeOK
  <2>2. TrueAt(Published, sent[r])
    BY DEF TrueAt, Published
  <2>3. QED
    BY <2>1, <2>2 DEF TrueAt
<1>3. CASE ~Serve(r)
  <2>1. pc[r] = "answered" /\ answer'[r] = answer[r] /\ sent'[r] = sent[r]
    <3>1. ASSUME NEW q \in Requests, Miss(q) \/ Serve(q)
          PROVE  pc[r] = "answered" /\ answer'[r] = answer[r] /\ sent'[r] = sent[r]
      BY <1>1, <1>3, <3>1 DEF Miss, Serve, IInv, TypeOK
    <3>2. ASSUME NEW q \in Requests, Hit(q) \/ Store(q) \/ FetchFails(q) \/ Drop(q)
          PROVE  pc[r] = "answered" /\ answer'[r] = answer[r] /\ sent'[r] = sent[r]
      <4>1. \E v \in {"accepted", "failed", "unknown", "unavailable", "dropped"} : End(q, v)
        BY <3>2 DEF Hit, Store, FetchFails, Drop, Decide, Verdicts
      <4>2. QED
        BY <1>1, <4>1 DEF End, IInv, TypeOK
    <3>3. CASE UNCHANGED <<pc, answer, sent>>
      BY <1>1, <3>3
    <3>4. QED
      BY <3>1, <3>2, <3>3 DEF Next, Step, Tick, Publish, Withdraw, Rotate, vars
  <2>2. /\ sent[r] \in Int /\ sent[r] <= now
        /\ TrueAt(answer[r], sent[r])
    BY <2>1 DEF IInv, TypeOK, Snapshots, FetchesBounded, AnswersTrue, InFlight
  <2>3. TypeOK
    BY DEF IInv
  <2>4. TrueAt(answer[r], sent[r])' <=> \A k \in Keys :
            /\ k \in answer[r] /\ phase'[k] = "past" => changed'[k] >= sent[r]
            /\ k \notin answer[r] /\ phase'[k] = "current" => changed'[k] >= sent[r]
    BY <2>1 DEF TrueAt
  <2>5. ASSUME NEW data, data = answer[r], NEW t \in Int, t = sent[r]
        PROVE  TrueAt(answer[r], sent[r])'
    <3>1. TrueAt(data, t)'
      BY <2>2, <2>3, <2>5, TrueStays
    <3>2. QED
      BY <2>4, <2>5, <3>1 DEF TrueAt
  <2>6. QED
    BY <2>2, <2>5
<1>4. QED
  BY <1>2, <1>3
(* What is stored was true when its fetch began, at most Delay ago.        *)
LEMMA CacheStep == ASSUME IInv, [Next]_vars PROVE CacheTrue'
<1>1. SUFFICES ASSUME NEW e \in cache'
               PROVE  TrueAt(e.data, e.at - Delay)'
  BY DEF CacheTrue
<1>2. TypeOK
  BY DEF IInv
<1>3. CASE e \in cache
  <2>1. e.at - Delay \in Int /\ e.at - Delay <= now /\ TrueAt(e.data, e.at - Delay)
    BY <1>3, DelayAssumption DEF IInv, TypeOK, Snapshots, CacheTrue
  <2>2. QED
    BY <1>2, <2>1, TrueStays
<1>4. ASSUME NEW r \in Requests, Store(r), e = Entry(answer[r], now)
      PROVE  TrueAt(e.data, e.at - Delay)'
  <2>1. /\ e.data = answer[r] /\ e.at = now
        /\ phase' = phase /\ changed' = changed
    BY <1>4 DEF Store, Entry
  <2>2. /\ sent[r] \in Int /\ now \in Int /\ now <= sent[r] + Delay
        /\ TrueAt(answer[r], sent[r])
    BY <1>4 DEF Store, IInv, TypeOK, Snapshots, FetchesBounded, AnswersTrue, InFlight
  <2>3. now - Delay \in Int /\ now - Delay <= sent[r]
    BY <2>2, DelayAssumption
  <2>4. TrueAt(answer[r], now - Delay)
    BY <1>2, <2>2, <2>3, TrueBefore
  <2>5. TrueAt(e.data, e.at - Delay)
    BY <2>1, <2>4
  <2>6. QED
    BY <2>1, <2>5 DEF TrueAt
<1>5. cache' = cache \/ \E r \in Requests : Store(r) /\ cache' = {Entry(answer[r], now)}
  BY DEF Next, Tick, Publish, Withdraw, Rotate, Step, Hit, Miss, Serve, Store,
         FetchFails, Drop, vars
<1>6. QED
  BY <1>1, <1>3, <1>4, <1>5

(* The promise about one request.                                          *)
Kept(r) ==
    /\ pc[r] = "accepted" =>
          /\ phase[kid[r]] # "future"
          /\ phase[kid[r]] = "past" => when[r] < changed[kid[r]] + Ttl + Delay
    /\ pc[r] = "unknown" /\ phase[kid[r]] = "current" =>
          when[r] < changed[kid[r]] + Ttl + Delay

(* A verdict from keys that were true less than Ttl + Delay ago keeps it.  *)
LEMMA DecideKeeps ==
    ASSUME TypeOK, NEW r \in Requests, NEW data, NEW t \in Int,
           TrueAt(data, t), now < t + Ttl + Delay,
           \A k \in data : phase[k] # "future",
           Decide(r, data), UNCHANGED <<phase, changed, kid>>
    PROVE  Kept(r)'
<1>1. kid[r] \in Keys /\ changed[kid[r]] \in Int /\ now \in Int
  BY DEF TypeOK
<1>2. /\ when'[r] = now /\ pc'[r] \in Verdicts(kid[r], data)
      /\ kid'[r] = kid[r] /\ phase' = phase /\ changed' = changed
  BY DEF Decide, End, TypeOK
<1>3. changed[kid[r]] >= t => now < changed[kid[r]] + Ttl + Delay
  BY <1>1, TtlAssumption, DelayAssumption
<1>4. CASE kid[r] \in data
  <2>1. phase[kid[r]] # "future" /\ (phase[kid[r]] = "past" => changed[kid[r]] >= t)
    BY <1>1, <1>4 DEF TrueAt
  <2>2. pc'[r] # "unknown"
    BY <1>2, <1>4 DEF Verdicts
  <2>3. QED
    BY <1>2, <1>3, <2>1, <2>2 DEF Kept
<1>5. CASE kid[r] \notin data
  <2>1. phase[kid[r]] = "current" => changed[kid[r]] >= t
    BY <1>1, <1>5 DEF TrueAt
  <2>2. pc'[r] = "unknown"
    BY <1>2, <1>5 DEF Verdicts
  <2>3. QED
    BY <1>2, <1>3, <2>1, <2>2 DEF Kept
<1>6. QED
  BY <1>4, <1>5

(* A request just decided is judged by its snapshot; for one decided       *)
(* before, a key that changes now changed after the verdict.               *)
LEMMA PromiseStep == ASSUME IInv, [Next]_vars, NEW r \in Requests PROVE Kept(r)'
<1>1. TypeOK
  BY DEF IInv
<1>2. Kept(r)
  BY DEF IInv, WithdrawnRefused, PublishedKnown, Kept
<1>3. CASE Hit(r)
  <2>1. PICK e \in cache : Fresh(e, now) /\ Decide(r, e.data)
    BY <1>3 DEF Hit
  <2>2. /\ e.at - Delay \in Int /\ now < e.at - Delay + Ttl + Delay
        /\ \A k \in e.data : phase[k] # "future"
    BY <2>1, TtlAssumption, DelayAssumption DEF IInv, TypeOK, Fresh
  <2>3. TrueAt(e.data, e.at - Delay) /\ UNCHANGED <<phase, changed, kid>>
    BY <1>3 DEF Hit, IInv, Snapshots, CacheTrue
  <2>4. QED
    BY <1>1, <2>1, <2>2, <2>3, DecideKeeps
<1>4. CASE Store(r)
  <2>1. /\ sent[r] \in Int /\ TrueAt(answer[r], sent[r])
        /\ now \in Int /\ now <= sent[r] + Delay
        /\ \A k \in answer[r] : phase[k] # "future"
    BY <1>4 DEF Store, IInv, TypeOK, Snapshots, FetchesBounded, AnswersTrue, InFlight
  <2>2. now < sent[r] + Ttl + Delay
    BY <2>1, TtlAssumption, DelayAssumption
  <2>3. Decide(r, answer[r]) /\ UNCHANGED <<phase, changed, kid>>
    BY <1>4 DEF Store
  <2>4. QED
    BY <1>1, <2>1, <2>2, <2>3, DecideKeeps
<1>5. ASSUME NEW k \in Keys, Publish(k) \/ Withdraw(k)
      PROVE  Kept(r)'
  <2>1. /\ changed' = [changed EXCEPT ![k] = now]
        /\ pc' = pc /\ kid' = kid /\ when' = when
        /\ \E to \in {"current", "past"} : phase' = [phase EXCEPT ![k] = to]
    BY <1>5 DEF Publish, Withdraw, Rotate
  <2>2. CASE kid[r] = k
    <3>1. /\ changed'[kid'[r]] = now /\ phase'[kid'[r]] # "future"
          /\ when[r] \in Int /\ when[r] <= now /\ now \in Int
      BY <1>1, <2>1, <2>2 DEF TypeOK
    <3>2. when'[r] < changed'[kid'[r]] + Ttl + Delay
      BY <2>1, <3>1, TtlAssumption, DelayAssumption
    <3>3. QED
      BY <3>1, <3>2 DEF Kept
  <2>3. CASE kid[r] # k
    <3>1. kid[r] \in Keys
      BY <1>1 DEF TypeOK
    <3>2. changed'[kid'[r]] = changed[kid[r]] /\ phase'[kid'[r]] = phase[kid[r]]
      BY <1>1, <2>1, <2>3, <3>1 DEF TypeOK
    <3>3. QED
      BY <1>2, <2>1, <3>2 DEF Kept
  <2>4. QED
    BY <2>2, <2>3
<1>6. ASSUME \/ /\ UNCHANGED <<phase, changed, kid>> /\ pc'[r] = pc[r] /\ when'[r] = when[r]
             \/ /\ pc'[r] \notin {"accepted", "unknown"}
      PROVE  Kept(r)'
  BY <1>2, <1>6 DEF Kept
<1>7. ASSUME NEW q \in Requests, Step(q)
      PROVE  Kept(r)'
  <2>1. CASE q = r
    <3>1. Miss(r) \/ Serve(r) \/ FetchFails(r) \/ Drop(r) =>
             pc'[r] \notin {"accepted", "unknown"}
      BY <1>1 DEF Miss, Serve, FetchFails, Drop, End, TypeOK
    <3>2. QED
      BY <1>3, <1>4, <1>6, <1>7, <2>1, <3>1 DEF Step
  <2>2. CASE q # r
    <3>1. UNCHANGED <<phase, changed, kid>>
      BY <1>7 DEF Step, Hit, Miss, Serve, Store, FetchFails, Drop
    <3>2. /\ \E v : pc' = [pc EXCEPT ![q] = v]
          /\ when' = when \/ \E v : when' = [when EXCEPT ![q] = v]
      BY <1>7 DEF Step, Hit, Miss, Serve, Store, FetchFails, Drop, Decide, End
    <3>3. pc'[r] = pc[r] /\ when'[r] = when[r]
      BY <1>1, <2>2, <3>2 DEF TypeOK
    <3>4. QED
      BY <1>6, <3>1, <3>3
  <2>3. QED
    BY <2>1, <2>2
<1>8. CASE Tick \/ UNCHANGED vars
  BY <1>6, <1>8 DEF Tick, vars
<1>9. QED
  BY <1>5, <1>7, <1>8 DEF Next

(* The cache starts empty.                                                 *)
LEMMA InitIInv == Init => IInv
BY DEF Init, IInv, TypeOK, Snapshots, FetchesBounded, AnswersTrue, CacheTrue,
       WithdrawnRefused, PublishedKnown, InFlight

(* The inductive invariant holds in every state of the verifier.           *)
THEOREM Inductive == Spec => []IInv
<1>1. IInv /\ [Next]_vars => IInv'
  <2>1. SUFFICES ASSUME IInv, [Next]_vars
                 PROVE  IInv'
    OBVIOUS
  <2>2. TypeOK' /\ Snapshots'
    BY <2>1, TypeStep, FetchStep, AnswerStep, CacheStep DEF IInv, Snapshots
  <2>3. \A r \in Requests : Kept(r)'
    BY <2>1, PromiseStep
  <2>4. WithdrawnRefused' /\ PublishedKnown'
    BY <2>3 DEF Kept, WithdrawnRefused, PublishedKnown
  <2>5. QED
    BY <2>2, <2>4 DEF IInv
<1>2. QED
  BY <1>1, InitIInv, PTL DEF Spec

(* Types: no stamp of the future, and no key in the cache that was never   *)
(* published (auth.rs:84-87).                                              *)
THEOREM JwksTypeOK == Spec => []TypeOK
<1>1. IInv => TypeOK
  BY DEF IInv
<1>2. QED
  BY <1>1, Inductive, PTL

(* However fetches overlap, a withdrawn key is refused after cache_ttl and *)
(* one fetch (auth.rs:124-161).                                            *)
THEOREM JwksWithdrawnRefused == Spec => []WithdrawnRefused
<1>1. IInv => WithdrawnRefused
  BY DEF IInv
<1>2. QED
  BY <1>1, Inductive, PTL

(* ... and a new one is known by then (auth.rs:177-184).                   *)
THEOREM JwksPublishedKnown == Spec => []PublishedKnown
<1>1. IInv => PublishedKnown
  BY DEF IInv
<1>2. QED
  BY <1>1, Inductive, PTL
=============================================================================

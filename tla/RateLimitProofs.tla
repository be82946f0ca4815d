-------------------------- MODULE RateLimitProofs --------------------------
(***************************************************************************)
(* Theorems about RateLimit, for every window, limit and longest wait.     *)
(*                                                                         *)
(* The inductive invariant says what a bucket still holds: every request   *)
(* admitted in the last Window - Delay, since a check can evict only what  *)
(* is a whole window older than a clock that is at most Delay behind.      *)
(***************************************************************************)
EXTENDS RateLimit, FiniteSetTheorems, TLAPS

\* Buckets hold admitted requests, under their keys.
Bucketed ==
    \A k \in Keys : \A r \in buckets[k] : pc[r] = "admitted" /\ key[r] = k

\* A request waits at most Delay between its clock and its check.
WaitsBounded ==
    \A r \in Requests :
        /\ pc[r] = "waiting" => stamp[r] <= now /\ now <= stamp[r] + Delay
        /\ pc[r] = "admitted" =>
              checkedAt[r] <= now /\ checkedAt[r] <= stamp[r] + Delay

\* What was admitted lately is still counted.
Recent(r) ==
    /\ checkedAt[r] >= Window + Delay
    /\ checkedAt[r] >= now + Delay - Window

LatelyKept ==
    \A r \in Requests : pc[r] = "admitted" /\ Recent(r) => r \in buckets[key[r]]

IInv ==
    /\ TypeOK
    /\ Bucketed
    /\ WaitsBounded
    /\ LatelyKept
    /\ AdmissionBound
    /\ LimitDeserved
-----------------------------------------------------------------------------
(* Every set of requests is finite.                                        *)
LEMMA SubsetsFinite ==
    \A S \in SUBSET Requests : IsFiniteSet(S) /\ Cardinality(S) \in Nat
BY RequestsAssumption, FS_Subset, FS_CardinalityType

(* A part of a bucket is no larger than the limit.                         *)
LEMMA BucketPart ==
    ASSUME TypeOK, NEW k \in Keys, NEW S \in SUBSET buckets[k]
    PROVE  Cardinality(S) <= MaxRequests
<1>1. IsFiniteSet(buckets[k]) /\ Cardinality(buckets[k]) \in Nat /\ S \in SUBSET Requests
  BY SubsetsFinite DEF TypeOK
<1>2. Cardinality(S) <= Cardinality(buckets[k]) /\ Cardinality(S) \in Nat
  BY <1>1, FS_Subset, SubsetsFinite
<1>3. QED
  BY <1>1, <1>2, LimitAssumption DEF TypeOK

(* What a check leaves in its bucket is within the limit, with or without  *)
(* the request itself, and the other buckets are as they were.             *)
LEMMA CheckEffect ==
    ASSUME TypeOK, NEW r \in Requests, Check(r)
    PROVE  /\ buckets' \in [Keys -> SUBSET Requests]
           /\ \A k \in Keys : Cardinality(buckets'[k]) <= MaxRequests
           /\ \A k \in Keys \ {key[r]} : buckets'[k] = buckets[k]
           /\ Retain(buckets[key[r]], stamp[r]) \subseteq buckets'[key[r]]
           /\ buckets'[key[r]] \subseteq buckets[key[r]] \cup {r}
           /\ pc' = [pc EXCEPT ![r] = "admitted"] =>
                 r \in buckets'[key[r]]
           /\ \/ pc' = [pc EXCEPT ![r] = "admitted"]
              \/ /\ pc' = [pc EXCEPT ![r] = "limited"]
                 /\ buckets'[key[r]] \subseteq buckets[key[r]]
                 /\ Cardinality(Retain(buckets[key[r]], stamp[r])) >= MaxRequests
<1> DEFINE kept == Retain(buckets[key[r]], stamp[r])
<1>1. key[r] \in Keys /\ buckets[key[r]] \subseteq Requests
  BY DEF TypeOK
<1>2. kept \in SUBSET buckets[key[r]]
  BY DEF Retain
<1>3. IsFiniteSet(kept) /\ Cardinality(kept) \in Nat /\ Cardinality(kept) <= MaxRequests
  BY <1>1, <1>2, SubsetsFinite, BucketPart
<1>4. /\ IsFiniteSet(kept \cup {r})
      /\ Cardinality(kept \cup {r}) = IF r \in kept THEN Cardinality(kept) ELSE Cardinality(kept) + 1
  BY <1>3, FS_AddElement
<1>5. CASE Limited(kept)
  <2>1. /\ buckets' = [buckets EXCEPT ![key[r]] = kept]
        /\ pc' = [pc EXCEPT ![r] = "limited"]
    BY <1>5 DEF Check
  <2>2. Cardinality(kept) >= MaxRequests
    BY <1>5 DEF Limited
  <2> HIDE DEF kept
  <2>3. pc' # [pc EXCEPT ![r] = "admitted"]
    BY <2>1 DEF TypeOK
  <2>4. QED
    BY <1>1, <1>2, <1>3, <2>1, <2>2, <2>3 DEF TypeOK, kept
<1>6. CASE ~Limited(kept)
  <2>1. /\ buckets' = [buckets EXCEPT ![key[r]] = kept \cup {r}]
        /\ pc' = [pc EXCEPT ![r] = "admitted"]
    BY <1>6 DEF Check
  <2>2. Cardinality(kept \cup {r}) <= MaxRequests
    BY <1>3, <1>4, <1>6, LimitAssumption DEF Limited
  <2> HIDE DEF kept
  <2>3. QED
    BY <1>1, <1>2, <2>1, <2>2 DEF TypeOK, kept
<1>7. QED
  BY <1>5, <1>6

(* Types and bucket sizes are kept by every step.                          *)
LEMMA TypeStep == ASSUME TypeOK, [Next]_vars PROVE TypeOK'
<1>1. ASSUME NEW r \in Requests, Check(r)
      PROVE  TypeOK'
  <2>1. pc' \in [Requests -> {"idle", "waiting", "admitted", "limited", "dropped"}]
    BY <1>1, CheckEffect DEF TypeOK
  <2>2. QED
    BY <1>1, <2>1, CheckEffect DEF TypeOK, Check
<1>2. ASSUME NEW r \in Requests, Arrive(r) \/ Drop(r)
      PROVE  TypeOK'
  BY <1>2 DEF TypeOK, Arrive, Drop
<1>3. CASE Tick
  BY <1>3 DEF TypeOK, Tick
<1>4. CASE UNCHANGED vars
  BY <1>4 DEF TypeOK, vars
<1>5. QED
  BY <1>1, <1>2, <1>3, <1>4 DEF Next

(* What a check does not evict: everything admitted lately, because the     *)
(* clock of the checking request is at most Delay behind.                  *)
LEMMA RetainsRecent ==
    ASSUME IInv, NEW r \in Requests, pc[r] = "waiting",
           NEW q \in Requests, pc[q] = "admitted", Recent(q)
    PROVE  stamp[q] >= Cutoff(stamp[r])
<1>1. /\ stamp[q] \in Nat /\ stamp[r] \in Nat /\ checkedAt[q] \in Nat /\ now \in Nat
      /\ stamp[r] <= now /\ now <= stamp[r] + Delay
      /\ checkedAt[q] <= stamp[q] + Delay
  BY DEF IInv, TypeOK, WaitsBounded
<1>2. stamp[q] >= Window /\ stamp[q] >= now - Window
  BY <1>1, LimitAssumption, DelayAssumption DEF Recent
<1>3. stamp[q] >= stamp[r] - Window
  BY <1>1, <1>2, LimitAssumption
<1>4. CASE stamp[r] >= Window
  BY <1>3, <1>4 DEF Cutoff
<1>5. CASE ~(stamp[r] >= Window)
  BY <1>1, <1>2, <1>5, LimitAssumption DEF Cutoff
<1>6. QED
  BY <1>4, <1>5

(* Bucketed, WaitsBounded and LatelyKept are kept by every step.           *)
LEMMA BucketStep ==
    ASSUME IInv, [Next]_vars
    PROVE  Bucketed' /\ WaitsBounded' /\ LatelyKept'
<1>1. ASSUME NEW r \in Requests, Check(r)
      PROVE  Bucketed' /\ WaitsBounded' /\ LatelyKept'
  <2> DEFINE kept == Retain(buckets[key[r]], stamp[r])
  <2>1. /\ pc[r] = "waiting"
        /\ checkedAt' = [checkedAt EXCEPT ![r] = now]
        /\ now' = now /\ key' = key /\ stamp' = stamp
    BY <1>1 DEF Check
  <2>2. /\ \A k \in Keys \ {key[r]} : buckets'[k] = buckets[k]
        /\ kept \subseteq buckets'[key[r]]
        /\ buckets'[key[r]] \subseteq buckets[key[r]] \cup {r}
        /\ pc' = [pc EXCEPT ![r] = "admitted"] => r \in buckets'[key[r]]
        /\ \/ pc' = [pc EXCEPT ![r] = "admitted"]
           \/ /\ pc' = [pc EXCEPT ![r] = "limited"]
              /\ buckets'[key[r]] \subseteq buckets[key[r]]
    BY <1>1, CheckEffect DEF IInv
  <2>3. pc \in [Requests -> {"idle", "waiting", "admitted", "limited", "dropped"}]
        /\ key \in [Requests -> Keys] /\ stamp \in [Requests -> Nat]
        /\ checkedAt \in [Requests -> Nat] /\ now \in Nat
    BY DEF IInv, TypeOK
  <2>5. Bucketed'
    <3>1. SUFFICES ASSUME NEW k \in Keys, NEW q \in buckets'[k]
                   PROVE  pc'[q] = "admitted" /\ key'[q] = k
      BY DEF Bucketed
    <3>2. CASE q \in buckets[k]
      <4>1. pc[q] = "admitted" /\ key[q] = k /\ q \in Requests
        BY <3>2 DEF IInv, TypeOK, Bucketed
      <4>2. pc'[q] = pc[q]
        BY <2>1, <2>2, <2>3, <4>1
      <4>3. QED
        BY <2>1, <4>1, <4>2
    <3>3. CASE q \notin buckets[k]
      <4>1. k = key[r] /\ q = r /\ pc' = [pc EXCEPT ![r] = "admitted"]
        BY <2>2, <3>1, <3>3
      <4>2. QED
        BY <2>1, <2>3, <4>1
    <3>4. QED
      BY <3>2, <3>3
  <2>6. WaitsBounded'
    BY <2>1, <2>2, <2>3, DelayAssumption DEF IInv, WaitsBounded
  <2>7. LatelyKept'
    <3>1. SUFFICES ASSUME NEW q \in Requests, pc'[q] = "admitted", Recent(q)'
                   PROVE  q \in buckets'[key[q]]
      BY <2>1 DEF LatelyKept
    <3>2. CASE q = r
      BY <2>2, <2>3, <3>1, <3>2
    <3>3. CASE q # r
      <4>1. pc[q] = "admitted" /\ checkedAt'[q] = checkedAt[q]
        BY <2>1, <2>2, <2>3, <3>1, <3>3
      <4>2. Recent(q)
        BY <2>1, <3>1, <4>1 DEF Recent
      <4>3. q \in buckets[key[q]] /\ key[q] \in Keys
        BY <2>3, <4>1, <4>2 DEF IInv, LatelyKept
      <4>4. CASE key[q] = key[r]
        <5>1. stamp[q] >= Cutoff(stamp[r])
          BY <2>1, <4>1, <4>2, RetainsRecent
        <5>2. q \in kept
          BY <4>3, <4>4, <5>1 DEF Retain
        <5>3. QED
          BY <2>2, <4>4, <5>2
      <4>5. CASE key[q] # key[r]
        BY <2>2, <4>3, <4>5
      <4>6. QED
        BY <4>4, <4>5
    <3>4. QED
      BY <3>2, <3>3
  <2>8. QED
    BY <2>5, <2>6, <2>7
<1>2. ASSUME NEW r \in Requests, Arrive(r) \/ Drop(r)
      PROVE  Bucketed' /\ WaitsBounded' /\ LatelyKept'
  <2>1. /\ pc[r] # "admitted"
        /\ \E step \in {"waiting", "dropped"} : pc' = [pc EXCEPT ![r] = step]
        /\ \A q \in Requests : q # r => stamp'[q] = stamp[q]
        /\ pc'[r] = "waiting" => stamp'[r] = now
        /\ buckets' = buckets /\ key' = key /\ checkedAt' = checkedAt /\ now' = now
    BY <1>2 DEF Arrive, Drop, IInv, TypeOK
  <2>2. Bucketed'
    BY <2>1 DEF IInv, TypeOK, Bucketed
  <2>3. WaitsBounded'
    BY <2>1, DelayAssumption DEF IInv, TypeOK, WaitsBounded
  <2>4. LatelyKept'
    BY <2>1 DEF IInv, TypeOK, LatelyKept, Recent
  <2>5. QED
    BY <2>2, <2>3, <2>4
<1>3. CASE Tick
  <2>1. Bucketed'
    BY <1>3 DEF Tick, IInv, Bucketed
  <2>2. WaitsBounded'
    BY <1>3, DelayAssumption DEF Tick, IInv, TypeOK, WaitsBounded
  <2>3. LatelyKept'
    BY <1>3, LimitAssumption, DelayAssumption DEF Tick, IInv, TypeOK, LatelyKept, Recent
  <2>4. QED
    BY <2>1, <2>2, <2>3
<1>4. CASE UNCHANGED vars
  BY <1>4 DEF vars, IInv, Bucketed, WaitsBounded, LatelyKept, Recent
<1>5. QED
  BY <1>1, <1>2, <1>3, <1>4 DEF Next

(* The bound is kept by every step: an interval that reaches the present   *)
(* is part of a bucket, an earlier one does not change.                    *)
LEMMA AdmissionStep == ASSUME IInv, [Next]_vars PROVE AdmissionBound'
<1>1. TypeOK' /\ WaitsBounded' /\ LatelyKept'
  BY TypeStep, BucketStep DEF IInv
<1>2. SUFFICES ASSUME NEW k \in Keys, NEW t \in ((Window + Delay)..now)'
               PROVE  Cardinality(AdmittedIn(k, t, t + Window - Delay)') <= MaxRequests
  BY DEF AdmissionBound
<1>3. /\ t \in Int /\ t >= Window + Delay /\ t <= now'
      /\ now \in Nat /\ now' \in Nat /\ checkedAt \in [Requests -> Nat]
      /\ pc \in [Requests -> {"idle", "waiting", "admitted", "limited", "dropped"}]
  BY <1>1, LimitAssumption, DelayAssumption DEF IInv, TypeOK
<1>4. CASE t + Window - Delay >= now'
  <2>1. AdmittedIn(k, t, t + Window - Delay)' \subseteq buckets'[k]
    <3>1. ASSUME NEW q \in AdmittedIn(k, t, t + Window - Delay)'
          PROVE  q \in buckets'[k]
      <4>1. q \in Requests /\ pc'[q] = "admitted" /\ key'[q] = k /\ t <= checkedAt'[q]
        BY <3>1 DEF AdmittedIn
      <4>2. checkedAt'[q] \in Nat
        BY <1>1, <4>1 DEF TypeOK
      <4>3. Recent(q)'
        BY <1>3, <1>4, <4>1, <4>2, LimitAssumption, DelayAssumption DEF Recent
      <4>4. QED
        BY <1>1, <4>1, <4>3 DEF LatelyKept
    <3>2. QED
      BY <3>1
  <2>2. IsFiniteSet(buckets'[k]) /\ Cardinality(buckets'[k]) \in Nat
          /\ Cardinality(buckets'[k]) <= MaxRequests
    BY <1>1, SubsetsFinite DEF TypeOK
  <2>3. /\ AdmittedIn(k, t, t + Window - Delay)' \in SUBSET Requests
        /\ Cardinality(AdmittedIn(k, t, t + Window - Delay)') <= Cardinality(buckets'[k])
    BY <2>1, <2>2, FS_Subset DEF AdmittedIn
  <2>4. QED
    BY <2>2, <2>3, SubsetsFinite, LimitAssumption
<1>5. CASE t + Window - Delay < now'
  <2>1. t + Window - Delay < now \/ Tick
    BY <1>5 DEF Next, Arrive, Check, Drop, vars
  <2>2. AdmittedIn(k, t, t + Window - Delay)' = AdmittedIn(k, t, t + Window - Delay)
    <3>1. CASE Tick \/ UNCHANGED vars
      BY <3>1 DEF Tick, vars, AdmittedIn
    <3>2. ASSUME NEW r \in Requests, Arrive(r) \/ Drop(r)
          PROVE  AdmittedIn(k, t, t + Window - Delay)' = AdmittedIn(k, t, t + Window - Delay)
      <4>1. /\ \E step \in {"waiting", "dropped"} : pc' = [pc EXCEPT ![r] = step]
            /\ pc[r] # "admitted" /\ key' = key /\ checkedAt' = checkedAt
        BY <3>2 DEF Arrive, Drop
      <4>2. \A q \in Requests : pc'[q] = "admitted" <=> pc[q] = "admitted"
        BY <1>3, <4>1
      <4>3. QED
        BY <4>1, <4>2 DEF AdmittedIn
    <3>3. ASSUME NEW r \in Requests, Check(r)
          PROVE  AdmittedIn(k, t, t + Window - Delay)' = AdmittedIn(k, t, t + Window - Delay)
      <4>1. /\ \E step \in {"admitted", "limited"} : pc' = [pc EXCEPT ![r] = step]
            /\ pc[r] # "admitted" /\ key' = key /\ now' = now
            /\ checkedAt' = [checkedAt EXCEPT ![r] = now]
        BY <3>3, CheckEffect DEF Check, IInv
      <4>2. r \notin AdmittedIn(k, t, t + Window - Delay)
              /\ r \notin AdmittedIn(k, t, t + Window - Delay)'
        BY <1>3, <1>5, <4>1, LimitAssumption, DelayAssumption DEF AdmittedIn
      <4>3. \A q \in Requests \ {r} : pc'[q] = pc[q] /\ checkedAt'[q] = checkedAt[q]
        BY <1>3, <4>1
      <4>4. QED
        BY <4>1, <4>2, <4>3 DEF AdmittedIn
    <3>4. QED
      BY <3>1, <3>2, <3>3 DEF Next
  <2>3. CASE t <= now
    BY <1>3, <2>2, <2>3 DEF IInv, AdmissionBound
  <2>4. CASE t > now
    <3>1. AdmittedIn(k, t, t + Window - Delay) = {}
      BY <1>3, <2>4 DEF IInv, WaitsBounded, AdmittedIn
    <3>2. QED
      BY <2>2, <3>1, FS_EmptySet, LimitAssumption
  <2>5. QED
    BY <1>3, <2>3, <2>4
<1>6. QED
  BY <1>3, <1>4, <1>5, LimitAssumption, DelayAssumption

(* A 429 stays deserved: what a check kept are rivals of its request, and  *)
(* rivals do not go away.                                                  *)
LEMMA DeservedStep == ASSUME IInv, [Next]_vars PROVE LimitDeserved'
<1>1. /\ key' = key
      /\ stamp \in [Requests -> Nat] /\ key \in [Requests -> Keys]
      /\ pc \in [Requests -> {"idle", "waiting", "admitted", "limited", "dropped"}]
  BY DEF IInv, TypeOK, Next, Tick, Arrive, Check, Drop, vars
<1>2. \A q \in Requests : /\ pc[q] = "admitted" => pc'[q] = "admitted"
                          /\ pc[q] # "idle" => stamp'[q] = stamp[q]
                          /\ pc'[q] = "limited" /\ pc[q] # "limited" => Check(q)
  <2>1. ASSUME NEW q \in Requests, NEW r \in Requests, Check(r)
        PROVE  /\ pc[q] = "admitted" => pc'[q] = "admitted"
               /\ pc[q] # "idle" => stamp'[q] = stamp[q]
               /\ pc'[q] = "limited" /\ pc[q] # "limited" => Check(q)
    <3>1. /\ \E step \in {"admitted", "limited"} : pc' = [pc EXCEPT ![r] = step]
          /\ pc[r] = "waiting" /\ stamp' = stamp
      BY <2>1, CheckEffect DEF Check, IInv
    <3>2. QED
      BY <1>1, <2>1, <3>1
  <2>2. ASSUME NEW q \in Requests, NEW r \in Requests, Arrive(r) \/ Drop(r)
        PROVE  /\ pc[q] = "admitted" => pc'[q] = "admitted"
               /\ pc[q] # "idle" => stamp'[q] = stamp[q]
               /\ pc'[q] = "limited" /\ pc[q] # "limited" => Check(q)
    BY <1>1, <2>2 DEF Arrive, Drop
  <2>3. CASE Tick \/ UNCHANGED vars
    BY <2>3 DEF Tick, vars
  <2>4. QED
    BY <2>1, <2>2, <2>3 DEF Next
<1>3. SUFFICES ASSUME NEW r \in Requests, pc'[r] = "limited"
               PROVE  Cardinality(Rivals(r)') >= MaxRequests
  BY DEF LimitDeserved
<1>4. IsFiniteSet(Rivals(r)') /\ Cardinality(Rivals(r)') \in Nat
  BY SubsetsFinite DEF Rivals
<1>5. CASE pc[r] = "limited"
  <2>1. Rivals(r) \subseteq Rivals(r)'
    BY <1>1, <1>2, <1>5 DEF Rivals
  <2>2. Cardinality(Rivals(r)) <= Cardinality(Rivals(r)') /\ Cardinality(Rivals(r)) \in Nat
    BY <1>4, <2>1, FS_Subset, SubsetsFinite DEF Rivals
  <2>3. QED
    BY <1>4, <1>5, <2>2, LimitAssumption DEF IInv, LimitDeserved
<1>6. CASE pc[r] # "limited"
  <2> DEFINE kept == Retain(buckets[key[r]], stamp[r])
  <2>1. Check(r)
    BY <1>2, <1>3, <1>6
  <2>2. Cardinality(kept) >= MaxRequests /\ stamp' = stamp
    <3>1. pc' # [pc EXCEPT ![r] = "admitted"]
      BY <1>1, <1>3
    <3>2. QED
      BY <2>1, <3>1, CheckEffect DEF IInv, Check
  <2>3. kept \subseteq Rivals(r)'
    <3>1. ASSUME NEW q \in kept
          PROVE  q \in Rivals(r)'
      <4>1. q \in buckets[key[r]] /\ stamp[q] >= Cutoff(stamp[r]) /\ key[r] \in Keys
        BY <1>1, <3>1 DEF Retain
      <4>2. q \in Requests /\ pc[q] = "admitted" /\ key[q] = key[r]
        BY <4>1 DEF IInv, TypeOK, Bucketed
      <4>3. stamp[q] >= stamp[r] - Window
        BY <1>1, <4>1, <4>2, LimitAssumption DEF Cutoff
      <4>4. QED
        BY <1>1, <1>2, <2>2, <4>2, <4>3 DEF Rivals
    <3>2. QED
      BY <3>1
  <2>4. Cardinality(kept) <= Cardinality(Rivals(r)') /\ Cardinality(kept) \in Nat
    BY <1>4, <2>3, FS_Subset, FS_CardinalityType
  <2>5. QED
    BY <1>4, <2>2, <2>4, LimitAssumption
<1>7. QED
  BY <1>5, <1>6

(* The limiter starts empty.                                               *)
LEMMA InitIInv == Init => IInv
<1> SUFFICES ASSUME Init
             PROVE  IInv
  OBVIOUS
<1> USE DEF Init
<1>1. Cardinality({}) = 0
  BY FS_EmptySet
<1>2. TypeOK /\ Bucketed
  BY <1>1, LimitAssumption DEF TypeOK, Bucketed
<1>3. WaitsBounded /\ LatelyKept /\ LimitDeserved
  BY DEF WaitsBounded, LatelyKept, LimitDeserved
<1>4. \A k, from, to : AdmittedIn(k, from, to) = {}
  BY DEF AdmittedIn
<1>5. AdmissionBound
  BY <1>1, <1>4, LimitAssumption DEF AdmissionBound
<1>6. QED
  BY <1>2, <1>3, <1>5 DEF IInv

(* The inductive invariant holds in every state of the limiter.            *)
THEOREM Inductive == Spec => []IInv
<1>1. IInv /\ [Next]_vars => IInv'
  BY TypeStep, BucketStep, AdmissionStep, DeservedStep DEF IInv
<1>2. QED
  BY <1>1, InitIInv, PTL DEF Spec

(* Types, and no bucket ever larger than max_requests (rate_limit.rs:39).  *)
THEOREM RateLimitTypeOK == Spec => []TypeOK
<1>1. IInv => TypeOK
  BY DEF IInv
<1>2. QED
  BY <1>1, Inductive, PTL

(* Whatever the order in which requests get the mutex, at most max_requests*)
(* of a key pass in any time of Window - Delay (rate_limit.rs:28-53).      *)
THEOREM RateLimitAdmissionBound == Spec => []AdmissionBound
<1>1. IInv => AdmissionBound
  BY DEF IInv
<1>2. QED
  BY <1>1, Inductive, PTL

(* Nobody is refused for somebody else's requests, or for outdated ones    *)
(* (rate_limit.rs:37-43).                                                  *)
THEOREM RateLimitDeserved == Spec => []LimitDeserved
<1>1. IInv => LimitDeserved
  BY DEF IInv
<1>2. QED
  BY <1>1, Inductive, PTL
=============================================================================

----------------------------- MODULE RateLimit -----------------------------
(***************************************************************************)
(* The rate limiter in front of every route (rate_limit.rs): per key, the  *)
(* times of the requests admitted in a sliding window.                     *)
(*                                                                         *)
(* RateLimiter.buckets is behind an asynchronous mutex; a check holds it   *)
(* without waiting, so its critical section is one step.  The clock and    *)
(* the cutoff are read before the wait for the mutex.                      *)
(*                                                                         *)
(* A bucket is a set of requests instead of a vector of their times: the   *)
(* code looks at the times and at their number only.  A bucket is in the   *)
(* map exactly if it is not empty, which is what the code removes.         *)
(***************************************************************************)
EXTENDS Integers, FiniteSets

CONSTANTS
    Requests,      \* those of one run of the API
    Keys,          \* the end of the Authorization header, or "anonymous"
    Window,        \* window_secs
    MaxRequests,   \* max_requests
    Delay,         \* bound: the longest wait for the mutex
    MaxTime        \* bound on the clock

ASSUME RequestsAssumption == IsFiniteSet(Requests)
ASSUME LimitAssumption == Window \in Nat /\ MaxRequests \in Nat
ASSUME DelayAssumption == Delay \in Nat /\ MaxTime \in Nat

VARIABLES
    now,           \* the monotonic clock, counted from its origin
    buckets,
    pc, key, stamp,  \* of a request: where it is, its key, the `now' it read
    checkedAt        \* history: when it got the mutex

vars == <<now, buckets, pc, key, stamp, checkedAt>>
-----------------------------------------------------------------------------
\* now.checked_sub(window).unwrap_or(now)
Cutoff(t) == IF t >= Window THEN t - Window ELSE t

BugRetainAfter(b, t) == {q \in b : stamp[q] > Cutoff(t)}
BugRetainAll(b, t) == b
Retain(b, t) == {q \in b : stamp[q] >= Cutoff(t)}

BugLimited(b) == Cardinality(b) > MaxRequests
Limited(b) == Cardinality(b) >= MaxRequests
-----------------------------------------------------------------------------
Init ==
    /\ now = 0
    /\ buckets = [k \in Keys |-> {}]
    /\ pc = [r \in Requests |-> "idle"]
    /\ key \in [Requests -> Keys]
    /\ stamp = [r \in Requests |-> 0]
    /\ checkedAt = [r \in Requests |-> 0]

Tick ==
    /\ now < MaxTime
    /\ \A r \in Requests : pc[r] = "waiting" => now < stamp[r] + Delay
    /\ now' = now + 1
    /\ UNCHANGED <<buckets, pc, key, stamp, checkedAt>>

Arrive(r) ==
    /\ pc[r] = "idle"
    /\ pc' = [pc EXCEPT ![r] = "waiting"]
    /\ stamp' = [stamp EXCEPT ![r] = now]
    /\ UNCHANGED <<now, buckets, key, checkedAt>>

\* With the mutex: evict, count, and either push or answer 429.
Check(r) ==
    /\ pc[r] = "waiting"
    /\ LET kept == Retain(buckets[key[r]], stamp[r])
       IN  IF Limited(kept)
             THEN /\ buckets' = [buckets EXCEPT ![key[r]] = kept]
                  /\ pc' = [pc EXCEPT ![r] = "limited"]
             ELSE /\ buckets' = [buckets EXCEPT ![key[r]] = kept \cup {r}]
                  /\ pc' = [pc EXCEPT ![r] = "admitted"]
    /\ checkedAt' = [checkedAt EXCEPT ![r] = now]
    /\ UNCHANGED <<now, key, stamp>>

\* The client is gone before the mutex came.
Drop(r) ==
    /\ pc[r] = "waiting"
    /\ pc' = [pc EXCEPT ![r] = "dropped"]
    /\ UNCHANGED <<now, buckets, key, stamp, checkedAt>>

Next ==
    \/ Tick
    \/ \E r \in Requests : Arrive(r) \/ Check(r) \/ Drop(r)

Spec == Init /\ [][Next]_vars

\* Time passes, and the mutex is granted to every request that waits.
FairSpec == Spec /\ WF_vars(Tick) /\ \A r \in Requests : WF_vars(Check(r) \/ Drop(r))
-----------------------------------------------------------------------------
\* No bucket is larger than max_requests, although pushes come late.
TypeOK ==
    /\ now \in Nat
    /\ buckets \in [Keys -> SUBSET Requests]
    /\ \A k \in Keys : Cardinality(buckets[k]) <= MaxRequests
    /\ pc \in [Requests -> {"idle", "waiting", "admitted", "limited", "dropped"}]
    /\ key \in [Requests -> Keys]
    /\ stamp \in [Requests -> Nat]
    /\ checkedAt \in [Requests -> Nat]

\* What is left of "60 requests per 60 seconds per key" (rate_limit.rs:12)
\* when a request waits for the mutex with a clock it has read already
\* (rate_limit.rs:29-33): no more than max_requests are let through in any
\* time that is shorter than the window by the longest wait, once the clock
\* has run long enough for checked_sub to give a cutoff.
AdmittedIn(k, from, to) ==
    {r \in Requests : /\ pc[r] = "admitted" /\ key[r] = k
                      /\ from <= checkedAt[r] /\ checkedAt[r] <= to}

AdmissionBound ==
    \A k \in Keys : \A t \in (Window + Delay)..now :
        Cardinality(AdmittedIn(k, t, t + Window - Delay)) <= MaxRequests

\* A 429 is deserved: at the clock the request read, max_requests requests
\* of its own key were admitted in the window; other keys do not count, and
\* no outdated request does (rate_limit.rs:37-43; handler_tests.rs:608).
Rivals(r) ==
    {q \in Requests : /\ pc[q] = "admitted" /\ key[q] = key[r]
                      /\ stamp[q] >= stamp[r] - Window}

LimitDeserved ==
    \A r \in Requests : pc[r] = "limited" => Cardinality(Rivals(r)) >= MaxRequests

\* "Periodic cleanup: remove empty buckets to prevent unbounded memory"
\* (rate_limit.rs:45): a check, of whatever key, that comes when every time in
\* a key's bucket is before its cutoff does not leave them there for good.
\* Nothing is asked of a bucket with a time that still counts, nor when no
\* check comes any more.
Outdated(k, t) ==
    buckets[k] # {} /\ \A q \in buckets[k] : stamp[q] < Cutoff(t)

BucketsReclaimed ==
    \A k \in Keys, r \in Requests :
        (pc[r] = "waiting" /\ Outdated(k, stamp[r]))
            ~> (pc[r] = "dropped" \/ ~Outdated(k, stamp[r]))
=============================================================================

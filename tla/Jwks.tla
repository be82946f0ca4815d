-------------------------------- MODULE Jwks --------------------------------
(***************************************************************************)
(* Token verification in production (auth.rs): the signing keys of the     *)
(* identity provider, cached for cache_ttl and fetched again by every      *)
(* request that finds the cache outdated.                                  *)
(*                                                                         *)
(* The cache is behind a read-write lock that is not held during a fetch:  *)
(* any number of requests fetch at once and store what they got in any     *)
(* order, each under the time at which it stores.                          *)
(*                                                                         *)
(* A token is the key it names; one that is malformed or names no key is   *)
(* one whose key is never published.  Its signature and claims are good or *)
(* not.  The provider publishes a key and withdraws it, once.              *)
(***************************************************************************)
EXTENDS Integers

CONSTANTS
    Keys,          \* the values of kid
    Requests,      \* those of one run of the API
    Ttl,           \* cache_ttl
    Delay,         \* bound: the longest time from a cache miss to the store
    MaxTime        \* bound on the clock

ASSUME TtlAssumption == Ttl \in Nat \ {0}
ASSUME DelayAssumption == Delay \in Nat /\ MaxTime \in Nat

VARIABLES
    now,             \* the monotonic clock
    phase, changed,  \* of a key: before, in or after publication, and since when
    cache,           \* JwksVerifier.cache: {} for None, or one JwksCache
    pc, kid,         \* of a request: where it is, its token's key,
    sent, answer,    \* when it missed the cache, the keys it was sent,
    when             \* history: when it was decided

vars == <<now, phase, changed, cache, pc, kid, sent, answer, when>>
-----------------------------------------------------------------------------
\* entry.fetched_at.elapsed() < self.cache_ttl
BugEver(e, t) == TRUE
BugOneMore(e, t) == t - e.at <= Ttl
Fresh(e, t) == t - e.at < Ttl

\* JwksCache { data, fetched_at: Instant::now() }
BugExpiry(data, t) == [data |-> data, at |-> t + Ttl]
Entry(data, t) == [data |-> data, at |-> t]

\* verify_token: the key is looked up before the signature is verified.
Verdicts(k, data) == IF k \in data THEN {"accepted", "failed"} ELSE {"unknown"}

Published == {k \in Keys : phase[k] = "current"}
InFlight == {r \in Requests : pc[r] \in {"fetching", "answered"}}
-----------------------------------------------------------------------------
Init ==
    /\ now = 0
    /\ phase \in [Keys -> {"future", "current"}]
    /\ changed = [k \in Keys |-> 0]
    /\ cache = {}
    /\ pc = [r \in Requests |-> "idle"]
    /\ kid \in [Requests -> Keys]
    /\ sent = [r \in Requests |-> 0]
    /\ answer = [r \in Requests |-> {}]
    /\ when = [r \in Requests |-> 0]

Tick ==
    /\ now < MaxTime
    /\ \A r \in InFlight : now < sent[r] + Delay
    /\ now' = now + 1
    /\ UNCHANGED <<phase, changed, cache, pc, kid, sent, answer, when>>

Rotate(k, from, to) ==
    /\ phase[k] = from
    /\ phase' = [phase EXCEPT ![k] = to]
    /\ changed' = [changed EXCEPT ![k] = now]
    /\ UNCHANGED <<now, cache, pc, kid, sent, answer, when>>

Publish(k) == Rotate(k, "future", "current")
Withdraw(k) == Rotate(k, "current", "past")

\* A request ends, and what it had fetched goes with it.
End(r, verdict) ==
    /\ pc' = [pc EXCEPT ![r] = verdict]
    /\ sent' = [sent EXCEPT ![r] = 0]
    /\ answer' = [answer EXCEPT ![r] = {}]

Decide(r, data) ==
    /\ \E v \in Verdicts(kid[r], data) : End(r, v)
    /\ when' = [when EXCEPT ![r] = now]

\* Under the read lock: the cached keys if they are fresh ...
Hit(r) ==
    /\ pc[r] = "idle"
    /\ \E e \in cache : Fresh(e, now) /\ Decide(r, e.data)
    /\ UNCHANGED <<now, phase, changed, cache, kid>>

\* ... and a fetch if not, without a lock.
Miss(r) ==
    /\ pc[r] = "idle"
    /\ ~ \E e \in cache : Fresh(e, now)
    /\ pc' = [pc EXCEPT ![r] = "fetching"]
    /\ sent' = [sent EXCEPT ![r] = now]
    /\ UNCHANGED <<now, phase, changed, cache, kid, answer, when>>

\* The provider answers with the keys of this moment.
Serve(r) ==
    /\ pc[r] = "fetching"
    /\ pc' = [pc EXCEPT ![r] = "answered"]
    /\ answer' = [answer EXCEPT ![r] = Published]
    /\ UNCHANGED <<now, phase, changed, cache, kid, sent, when>>

\* Under the write lock: store what came, and verify with it.
Store(r) ==
    /\ pc[r] = "answered"
    /\ cache' = {Entry(answer[r], now)}
    /\ Decide(r, answer[r])
    /\ UNCHANGED <<now, phase, changed, kid>>

\* No connection, or a body that does not parse: the cache stays.
FetchFails(r) ==
    /\ r \in InFlight
    /\ End(r, "unavailable")
    /\ UNCHANGED <<now, phase, changed, cache, kid, when>>

\* The client is gone.
Drop(r) ==
    /\ r \in InFlight
    /\ End(r, "dropped")
    /\ UNCHANGED <<now, phase, changed, cache, kid, when>>

Step(r) == Hit(r) \/ Miss(r) \/ Serve(r) \/ Store(r) \/ FetchFails(r) \/ Drop(r)

Next ==
    \/ Tick
    \/ \E k \in Keys : Publish(k) \/ Withdraw(k)
    \/ \E r \in Requests : Step(r)

Spec == Init /\ [][Next]_vars
-----------------------------------------------------------------------------
\* Nothing is stamped with a time to come, and only keys that have been
\* published are ever cached.
TypeOK ==
    /\ now \in Nat
    /\ phase \in [Keys -> {"future", "current", "past"}]
    /\ changed \in [Keys -> 0..now]
    /\ cache \in SUBSET [data : SUBSET {k \in Keys : phase[k] # "future"}, at : 0..now]
    /\ pc \in [Requests -> {"idle", "fetching", "answered", "accepted", "failed",
                            "unknown", "unavailable", "dropped"}]
    /\ kid \in [Requests -> Keys]
    /\ sent \in [Requests -> 0..now]
    /\ answer \in [Requests -> SUBSET {k \in Keys : phase[k] # "future"}]
    /\ when \in [Requests -> 0..now]

\* A key that was withdrawn is refused after the cache's hour and one fetch,
\* although a slow answer may overwrite a newer one and is then taken for
\* fresh (auth.rs:127, 153-159); a key never published is never accepted.
WithdrawnRefused ==
    \A r \in Requests : pc[r] = "accepted" =>
        /\ phase[kid[r]] # "future"
        /\ phase[kid[r]] = "past" => when[r] < changed[kid[r]] + Ttl + Delay

\* The other side of a rotation: no token is turned away as signed with an
\* unknown key (auth.rs:177-184) once its key has been out that long.
PublishedKnown ==
    \A r \in Requests : pc[r] = "unknown" /\ phase[kid[r]] = "current" =>
        when[r] < changed[kid[r]] + Ttl + Delay
=============================================================================

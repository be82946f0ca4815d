------------------------------ MODULE Retarget ------------------------------
(***************************************************************************)
(* The difficulty of new challenges: an atomic number that every credited  *)
(* mint (mint.rs, step 7) and a periodic task (main.rs) adjust, from the   *)
(* number of mints in a sliding window (difficulty.rs); GET /api/stats     *)
(* asks for that number too.                                               *)
(*                                                                         *)
(* MintingStats is behind an asynchronous mutex and nothing under the      *)
(* mutex waits, so a critical section is one step.  What comes before it   *)
(* is not: a mint reads the clock, and the task reads the difficulty,      *)
(* before they wait for the mutex.                                         *)
(***************************************************************************)
EXTENDS Integers, Sequences

CONSTANTS
    Mints,                       \* the mints that will be credited
    Window, Low, High,           \* window, hysteresis_low, hysteresis_high
    DiffMin, DiffMax, MaxStep,   \* diff_min, diff_max, max_step
    Initial,                     \* the difficulty the API starts with
    LastMint,                    \* bound: no mint is credited after it
    MaxTime                      \* bound on the clock

ASSUME BandAssumption == Low \in Nat /\ High \in Nat /\ Low <= High
ASSUME DiffAssumption ==
    /\ DiffMin \in Nat /\ DiffMax \in Nat /\ MaxStep \in Nat
    /\ Initial \in DiffMin..DiffMax
ASSUME TimeAssumption == Window \in Nat /\ LastMint \in Nat /\ MaxTime \in Nat

VARIABLES
    now,           \* the monotonic clock, counted from its origin
    timestamps,    \* MintingStats.timestamps, oldest push first
    evicted,       \* history: the timestamps evict_before popped
    difficulty,
    pc, stamp,     \* of a mint: where it is, the time it read
    loaded,        \* `current' of the task, or Asleep
    behind         \* history: critical sections since the task loaded it

vars == <<now, timestamps, evicted, difficulty, pc, stamp, loaded, behind>>

Asleep == -1
-----------------------------------------------------------------------------
Lesser(a, b) == IF a <= b THEN a ELSE b
Greater(a, b) == IF a >= b THEN a ELSE b

\* saturating_sub stops at 0; saturating_add at 2^32 - 1, above any DiffMax.
BugRetarget(current, rate) ==
    IF rate > High THEN current + 2 * MaxStep
    ELSE IF rate < Low THEN Greater(DiffMin, current - MaxStep)
    ELSE current
Retarget(current, rate) ==
    IF rate > High THEN Lesser(DiffMax, current + MaxStep)
    ELSE IF rate < Low THEN Greater(DiffMin, current - MaxStep)
    ELSE current

\* rate(window, t) pops n timestamps from the front: those before the cutoff,
\* up to the first that is not, and none if the clock has no such cutoff.
BugExpiredInclusive(x, t) == t >= Window /\ x <= t - Window
Expired(x, t) == t >= Window /\ x < t - Window

Evicts(s, t, n) ==
    /\ n \in 0..Len(s)
    /\ \A i \in 1..n : Expired(s[i], t)
    /\ n < Len(s) => ~Expired(s[n + 1], t)

Keep(s, n) ==
    /\ timestamps' = SubSeq(s, n + 1, Len(s))
    /\ evicted' = evicted \cup {s[i] : i \in 1..n}
-----------------------------------------------------------------------------
Init ==
    /\ now = 0
    /\ timestamps = <<>>
    /\ evicted = {}
    /\ difficulty = Initial
    /\ pc = [m \in Mints |-> "uncredited"]
    /\ stamp = [m \in Mints |-> 0]
    /\ loaded = Asleep
    /\ behind = 0

Tick ==
    /\ now < MaxTime
    /\ now' = now + 1
    /\ UNCHANGED <<timestamps, evicted, difficulty, pc, stamp, loaded, behind>>

\* A credited mint reads the clock and waits for the mutex.
ReadClock(m) ==
    /\ pc[m] = "uncredited"
    /\ now <= LastMint
    /\ pc' = [pc EXCEPT ![m] = "waiting"]
    /\ stamp' = [stamp EXCEPT ![m] = now]
    /\ UNCHANGED <<now, timestamps, evicted, difficulty, loaded, behind>>

\* With the mutex: record, rate, load, retarget, store.
RecordMint(m) ==
    /\ pc[m] = "waiting"
    /\ pc' = [pc EXCEPT ![m] = "recorded"]
    /\ LET pushed == Append(timestamps, stamp[m])
       IN  \E n \in 0..Len(pushed) :
             /\ Evicts(pushed, stamp[m], n)
             /\ Keep(pushed, n)
             /\ difficulty' = Retarget(difficulty, Len(pushed) - n)
    /\ behind' = IF loaded = Asleep THEN 0 ELSE behind + 1
    /\ UNCHANGED <<now, stamp, loaded>>

\* The client is gone: the handler is dropped where it waits.
Drop(m) ==
    /\ pc[m] = "waiting"
    /\ pc' = [pc EXCEPT ![m] = "dropped"]
    /\ UNCHANGED <<now, timestamps, evicted, difficulty, stamp, loaded, behind>>

\* The task wakes up and loads the difficulty; then it waits for the mutex.
BugLoadOnce ==     \* loads it before the loop, not in each round
    /\ loaded = Asleep
    /\ loaded' = Initial
    /\ behind' = 0
    /\ UNCHANGED <<now, timestamps, evicted, difficulty, pc, stamp>>

LoadDifficulty ==
    /\ loaded = Asleep
    /\ loaded' = difficulty
    /\ behind' = 0
    /\ UNCHANGED <<now, timestamps, evicted, difficulty, pc, stamp>>

\* With the mutex: clock, rate, retarget, and store if that changes `current'.
BugRecomputeNoEviction ==     \* rates without popping
    /\ loaded # Asleep
    /\ LET new == Retarget(loaded, Len(timestamps))
       IN  difficulty' = IF new # loaded THEN new ELSE difficulty
    /\ loaded' = Asleep
    /\ behind' = 0
    /\ UNCHANGED <<now, timestamps, evicted, pc, stamp>>

Recompute ==
    /\ loaded # Asleep
    /\ \E n \in 0..Len(timestamps) :
          /\ Evicts(timestamps, now, n)
          /\ Keep(timestamps, n)
          /\ LET new == Retarget(loaded, Len(timestamps) - n)
             IN  difficulty' = IF new # loaded THEN new ELSE difficulty
    /\ loaded' = Asleep
    /\ behind' = 0
    /\ UNCHANGED <<now, pc, stamp>>

\* GET /api/stats asks for the rate, and evicts as it does.
QueryStats ==
    /\ \E n \in 0..Len(timestamps) : Evicts(timestamps, now, n) /\ Keep(timestamps, n)
    /\ UNCHANGED <<now, difficulty, pc, stamp, loaded, behind>>

Next ==
    \/ Tick
    \/ \E m \in Mints : ReadClock(m) \/ RecordMint(m) \/ Drop(m)
    \/ LoadDifficulty
    \/ Recompute
    \/ QueryStats

Spec == Init /\ [][Next]_vars

\* Time passes, a mutex nobody holds for long is granted, and the interval
\* of the task fires again and again.
FairSpec ==
    /\ Spec
    /\ WF_vars(Tick) /\ WF_vars(LoadDifficulty) /\ WF_vars(Recompute)
    /\ \A m \in Mints : WF_vars(RecordMint(m) \/ Drop(m))
-----------------------------------------------------------------------------
\* The difficulty stays one that generate_challenge knows (main.rs:57-58),
\* stale loads included.
TypeOK ==
    /\ now \in Nat
    /\ timestamps \in Seq(Nat)
    /\ evicted \subseteq Nat
    /\ difficulty \in DiffMin..DiffMax
    /\ pc \in [Mints -> {"uncredited", "waiting", "recorded", "dropped"}]
    /\ stamp \in [Mints -> Nat]
    /\ loaded \in (DiffMin..DiffMax) \cup {Asleep}
    /\ behind \in Nat

\* No mint of the last Window is forgotten, although mints push their times
\* out of order and evict by clocks they read before they waited
\* (mint.rs:192-195, difficulty.rs:86-98): the rate never counts too few.
NothingLiveEvicted == \A x \in evicted : x < now - Window

\* The difficulty players see moves by max_step at a time, except where the
\* task overwrites mints it did not see: it loaded `current' before it waited
\* for the mutex, and what it stores may undo them and go a step further
\* (main.rs:85-92).  The jump is no larger than those mints and the task's own
\* step account for: nothing older than this round's load is ever stored.
Distance(a, b) == IF a >= b THEN a - b ELSE b - a

Moves ==
    Distance(difficulty', difficulty) <= MaxStep * (IF Recompute THEN behind + 1 ELSE 1)

GentleMoves == [][Moves]_vars

\* When players stop, the task alone brings the difficulty back to the
\* minimum: every timestamp is evicted in the end (main.rs:79-94).
CoolsDown == <>[](difficulty = DiffMin)
=============================================================================

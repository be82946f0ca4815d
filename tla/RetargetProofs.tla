--------------------------- MODULE RetargetProofs ---------------------------
(***************************************************************************)
(* Theorems about Retarget, for every window, band, range and step.        *)
(***************************************************************************)
EXTENDS Retarget, SequenceTheorems, TLAPS

\* A mint evicts by a clock that is not ahead of the present.
StampsPast == \A m \in Mints : stamp[m] <= now

\* What the task loaded is at most one step off for every mint that was
\* recorded while it waited for the mutex.
LoadDrift ==
    loaded # Asleep => Distance(difficulty, loaded) <= MaxStep * behind

IInv ==
    /\ TypeOK
    /\ StampsPast
    /\ NothingLiveEvicted
    /\ LoadDrift
-----------------------------------------------------------------------------
(* Retargeting stays in the range and moves by max_step at most.           *)
LEMMA RetargetBounded ==
    ASSUME NEW d \in DiffMin..DiffMax, NEW rate \in Nat
    PROVE  /\ Retarget(d, rate) \in DiffMin..DiffMax
           /\ Distance(Retarget(d, rate), d) <= MaxStep
BY DiffAssumption, BandAssumption DEF Retarget, Distance, Lesser, Greater

(* Two distances add up.                                                   *)
LEMMA DistanceTriangle ==
    ASSUME NEW a \in Nat, NEW b \in Nat, NEW c \in Nat, NEW x \in Nat, NEW y \in Nat,
           Distance(a, b) <= x, Distance(c, a) <= y
    PROVE  Distance(c, b) <= x + y
BY DEF Distance

(* What was outdated stays outdated.                                       *)
LEMMA CutoffsAdvance ==
    ASSUME NEW a \in Nat, NEW b \in Nat, NEW w \in Nat, NEW x \in Nat,
           a <= b, x < a - w
    PROVE  x < b - w
OBVIOUS

(* What Keep leaves has the right type, and it evicts outdated times only.  *)
LEMMA KeepEffect ==
    ASSUME NEW s \in Seq(Nat), NEW t \in Nat, NEW n \in 0..Len(s),
           Evicts(s, t, n), Keep(s, n), evicted \subseteq Nat
    PROVE  /\ timestamps' \in Seq(Nat) /\ evicted' \subseteq Nat
           /\ \A x \in evicted' : x \in evicted \/ x < t - Window
           /\ Len(s) - n \in Nat
<1>1. Len(s) \in Nat /\ n \in Nat /\ n <= Len(s)
  OBVIOUS
<1>2. \A i \in 1..n : s[i] \in Nat /\ s[i] < t - Window
  <2>1. \A i \in 1..n : i \in 1..Len(s) /\ s[i] \in Nat
    BY <1>1
  <2>2. QED
    BY <2>1, TimeAssumption DEF Evicts, Expired
<1>3. timestamps' \in Seq(Nat)
  <2>1. SubSeq(s, n + 1, Len(s)) \in Seq(Nat)
    BY <1>1
  <2>2. QED
    BY <2>1 DEF Keep
<1>4. evicted' = evicted \cup {s[i] : i \in 1..n}
  BY DEF Keep
<1>5. evicted' \subseteq Nat /\ \A x \in evicted' : x \in evicted \/ x < t - Window
  BY <1>2, <1>4
<1>6. Len(s) - n \in Nat
  BY <1>1
<1>7. QED
  BY <1>3, <1>5, <1>6

(* What the two critical sections do to the difficulty.                    *)
LEMMA RecordEffect ==
    ASSUME TypeOK, NEW m \in Mints, RecordMint(m)
    PROVE  /\ timestamps' \in Seq(Nat) /\ evicted' \subseteq Nat
           /\ \A x \in evicted' : x \in evicted \/ x < stamp[m] - Window
           /\ difficulty' \in DiffMin..DiffMax
           /\ Distance(difficulty', difficulty) <= MaxStep
<1> DEFINE pushed == Append(timestamps, stamp[m])
<1>1. pushed \in Seq(Nat) /\ stamp[m] \in Nat
  BY DEF TypeOK
<1>2. PICK n \in 0..Len(pushed) :
        /\ Evicts(pushed, stamp[m], n)
        /\ Keep(pushed, n)
        /\ difficulty' = Retarget(difficulty, Len(pushed) - n)
  BY DEF RecordMint
<1> HIDE DEF pushed
<1>3. QED
  BY <1>1, <1>2, KeepEffect, RetargetBounded DEF TypeOK

(* What the critical section of the task does (main.rs:85-92).             *)
LEMMA RecomputeEffect ==
    ASSUME TypeOK, Recompute
    PROVE  /\ timestamps' \in Seq(Nat) /\ evicted' \subseteq Nat
           /\ \A x \in evicted' : x \in evicted \/ x < now - Window
           /\ difficulty' \in DiffMin..DiffMax
<1>1. PICK n \in 0..Len(timestamps) :
        /\ Evicts(timestamps, now, n)
        /\ Keep(timestamps, n)
        /\ difficulty' = IF Retarget(loaded, Len(timestamps) - n) # loaded
                           THEN Retarget(loaded, Len(timestamps) - n)
                           ELSE difficulty
  BY DEF Recompute
<1>2. loaded \in DiffMin..DiffMax
  BY DEF TypeOK, Recompute
<1>3. QED
  BY <1>1, <1>2, KeepEffect, RetargetBounded DEF TypeOK

(* GET /api/stats evicts as the task does (stats.rs:22-26).                *)
LEMMA QueryEffect ==
    ASSUME TypeOK, QueryStats
    PROVE  /\ timestamps' \in Seq(Nat) /\ evicted' \subseteq Nat
           /\ \A x \in evicted' : x \in evicted \/ x < now - Window
<1>1. PICK n \in 0..Len(timestamps) : Evicts(timestamps, now, n) /\ Keep(timestamps, n)
  BY DEF QueryStats
<1>2. QED
  BY <1>1, KeepEffect DEF TypeOK

(* Types are kept by every step.                                           *)
LEMMA TypeStep == ASSUME TypeOK, [Next]_vars PROVE TypeOK'
<1>1. ASSUME NEW m \in Mints, RecordMint(m)
      PROVE  TypeOK'
  <2>1. /\ pc' = [pc EXCEPT ![m] = "recorded"]
        /\ now' = now /\ stamp' = stamp /\ loaded' = loaded
        /\ behind' = IF loaded = Asleep THEN 0 ELSE behind + 1
    BY <1>1 DEF RecordMint
  <2>2. behind' \in Nat
    BY <2>1 DEF TypeOK
  <2>3. pc' \in [Mints -> {"uncredited", "waiting", "recorded", "dropped"}]
    BY <2>1 DEF TypeOK
  <2>4. QED
    BY <1>1, <2>1, <2>2, <2>3, RecordEffect DEF TypeOK
<1>2. ASSUME NEW m \in Mints, ReadClock(m) \/ Drop(m)
      PROVE  TypeOK'
  BY <1>2 DEF TypeOK, ReadClock, Drop
<1>3. CASE Recompute
  BY <1>3, RecomputeEffect DEF TypeOK, Recompute
<1>4. CASE Tick
  BY <1>4 DEF TypeOK, Tick
<1>5. CASE LoadDifficulty
  BY <1>5 DEF TypeOK, LoadDifficulty
<1>6. CASE UNCHANGED vars
  BY <1>6 DEF TypeOK, vars
<1>7. CASE QueryStats
  BY <1>7, QueryEffect DEF TypeOK, QueryStats
<1>8. QED
  BY <1>1, <1>2, <1>3, <1>4, <1>5, <1>6, <1>7 DEF Next

(* No step evicts a time of the last window: every cutoff is in the past.  *)
LEMMA EvictionStep ==
    ASSUME IInv, [Next]_vars
    PROVE  StampsPast' /\ NothingLiveEvicted'
<1>1. /\ now \in Nat /\ now' \in Nat /\ now <= now'
      /\ stamp \in [Mints -> Nat] /\ evicted \subseteq Nat /\ evicted' \subseteq Nat
  <2>1. now' = now \/ now' = now + 1
    BY DEF Next, Tick, ReadClock, RecordMint, Drop, LoadDifficulty, Recompute, QueryStats, vars
  <2>2. TypeOK /\ TypeOK'
    BY TypeStep DEF IInv
  <2>3. QED
    BY <2>1, <2>2 DEF TypeOK
<1>2. StampsPast'
  <2>1. ASSUME NEW m \in Mints, ReadClock(m)
        PROVE  StampsPast'
    BY <1>1, <2>1 DEF IInv, StampsPast, ReadClock
  <2>2. stamp' = stamp \/ \E m \in Mints : ReadClock(m)
    BY DEF Next, Tick, RecordMint, Drop, LoadDifficulty, Recompute, QueryStats, vars
  <2>3. ASSUME stamp' = stamp
        PROVE  StampsPast'
    BY <1>1, <2>3 DEF IInv, StampsPast
  <2>4. QED
    BY <2>1, <2>2, <2>3
<1>3. ASSUME \A x \in evicted' : x \in evicted \/ x < now - Window
      PROVE  NothingLiveEvicted'
  <2>1. SUFFICES ASSUME NEW x \in evicted'
                 PROVE  x < now' - Window
    BY DEF NothingLiveEvicted
  <2>2. x < now - Window
    BY <1>3, <2>1 DEF IInv, NothingLiveEvicted
  <2>3. x \in Nat
    BY <1>1, <2>1
  <2>4. QED
    BY <1>1, <2>2, <2>3, TimeAssumption, CutoffsAdvance
<1>4. ASSUME NEW m \in Mints, RecordMint(m)
      PROVE  NothingLiveEvicted'
  <2>1. \A x \in evicted' : x \in evicted \/ x < stamp[m] - Window
    BY <1>4, RecordEffect DEF IInv
  <2>2. stamp[m] \in Nat /\ stamp[m] <= now
    BY DEF IInv, TypeOK, StampsPast
  <2>3. QED
    BY <1>1, <1>3, <2>1, <2>2, TimeAssumption
<1>5. ASSUME Recompute
      PROVE  NothingLiveEvicted'
  BY <1>3, <1>5, RecomputeEffect DEF IInv
<1>6. ASSUME evicted' = evicted
      PROVE  NothingLiveEvicted'
  BY <1>3, <1>6
<1>7. ASSUME QueryStats
      PROVE  NothingLiveEvicted'
  BY <1>3, <1>7, QueryEffect DEF IInv
<1>8. QED
  BY <1>2, <1>4, <1>5, <1>6, <1>7 DEF Next, Tick, ReadClock, Drop, LoadDifficulty, vars

(* Every critical section of a mint adds at most one step to the drift.    *)
LEMMA DriftStep == ASSUME IInv, [Next]_vars PROVE LoadDrift'
<1>1. MaxStep \in Nat /\ DiffMin \in Nat /\ DiffMax \in Nat
  BY DiffAssumption
<1>2. ASSUME NEW m \in Mints, RecordMint(m)
      PROVE  LoadDrift'
  <2>1. CASE loaded = Asleep
    BY <1>2, <2>1 DEF RecordMint, LoadDrift
  <2>2. CASE loaded # Asleep
    <3>1. loaded \in Nat /\ difficulty \in Nat /\ difficulty' \in Nat /\ behind \in Nat
      BY <1>1, <1>2, <2>2, RecordEffect DEF IInv, TypeOK
    <3>2. loaded' = loaded /\ behind' = behind + 1
      BY <1>2, <2>2 DEF RecordMint
    <3>3. MaxStep * (behind + 1) = MaxStep * behind + MaxStep /\ MaxStep * behind \in Nat
      BY <1>1, <3>1
    <3> DEFINE drift == MaxStep * behind
    <3>4. Distance(difficulty, loaded) <= drift /\ Distance(difficulty', difficulty) <= MaxStep
      BY <1>2, <2>2, RecordEffect DEF IInv, LoadDrift
    <3> HIDE DEF drift
    <3>5. drift \in Nat
      BY <3>3 DEF drift
    <3>6. Distance(difficulty', loaded) <= drift + MaxStep
      BY <1>1, <3>1, <3>4, <3>5, DistanceTriangle
    <3>7. QED
      BY <3>2, <3>3, <3>6 DEF LoadDrift, drift
  <2>3. QED
    BY <2>1, <2>2
<1>3. CASE LoadDifficulty
  <2>1. difficulty \in Nat /\ difficulty' = difficulty /\ loaded' = difficulty /\ behind' = 0
    BY <1>1, <1>3 DEF IInv, TypeOK, LoadDifficulty
  <2>2. QED
    BY <1>1, <2>1 DEF LoadDrift, Distance
<1>4. CASE Recompute
  BY <1>4 DEF Recompute, LoadDrift
<1>5. CASE UNCHANGED <<difficulty, loaded, behind>>
  BY <1>5 DEF IInv, LoadDrift
<1>6. QED
  BY <1>2, <1>3, <1>4, <1>5 DEF Next, Tick, ReadClock, Drop, QueryStats, vars

(* The API starts with no mints and the initial difficulty (main.rs:62).   *)
LEMMA InitIInv == Init => IInv
<1> SUFFICES ASSUME Init
             PROVE  IInv
  OBVIOUS
<1>1. TypeOK
  BY DiffAssumption DEF Init, TypeOK, Asleep
<1>2. StampsPast
  <2>1. SUFFICES ASSUME NEW m \in Mints
                 PROVE  stamp[m] <= now
    BY DEF StampsPast
  <2>2. now = 0 /\ stamp[m] = 0
    BY DEF Init
  <2>3. QED
    BY <2>2
<1>3. NothingLiveEvicted /\ LoadDrift
  BY DEF Init, NothingLiveEvicted, LoadDrift
<1>4. QED
  BY <1>1, <1>2, <1>3 DEF IInv

(* The inductive invariant holds in every state.                           *)
THEOREM Inductive == Spec => []IInv
<1>1. IInv /\ [Next]_vars => IInv'
  BY TypeStep, EvictionStep, DriftStep DEF IInv
<1>2. QED
  BY <1>1, InitIInv, PTL DEF Spec

(* The difficulty never leaves its range, whatever stale value the task    *)
(* stores (main.rs:85-92).                                                 *)
THEOREM RetargetTypeOK == Spec => []TypeOK
<1>1. IInv => TypeOK
  BY DEF IInv
<1>2. QED
  BY <1>1, Inductive, PTL

(* No mint of the last window is forgotten (difficulty.rs:86-98).          *)
THEOREM RetargetNothingLiveEvicted == Spec => []NothingLiveEvicted
<1>1. IInv => NothingLiveEvicted
  BY DEF IInv
<1>2. QED
  BY <1>1, Inductive, PTL

(* Where the task stores, it is a step away from what it loaded, and that   *)
(* is a step away for each mint it did not see.                            *)
LEMMA StoreJump ==
    ASSUME IInv, Recompute
    PROVE  Distance(difficulty', difficulty) <= MaxStep * (behind + 1)
<1>1. PICK n \in 0..Len(timestamps) :
        /\ Evicts(timestamps, now, n)
        /\ Keep(timestamps, n)
        /\ difficulty' = IF Retarget(loaded, Len(timestamps) - n) # loaded
                           THEN Retarget(loaded, Len(timestamps) - n)
                           ELSE difficulty
  BY DEF Recompute
<1> DEFINE new == Retarget(loaded, Len(timestamps) - n)
           drift == MaxStep * behind
<1>2. MaxStep \in Nat /\ DiffMin \in Nat /\ DiffMax \in Nat
  BY DiffAssumption
<1>3. loaded \in DiffMin..DiffMax /\ difficulty \in Nat /\ behind \in Nat
  BY <1>2 DEF IInv, TypeOK, Recompute
<1>4. Len(timestamps) - n \in Nat
  BY <1>1, KeepEffect DEF IInv, TypeOK
<1>5. new \in DiffMin..DiffMax /\ Distance(new, loaded) <= MaxStep
  BY <1>3, <1>4, RetargetBounded
<1>6. MaxStep * (behind + 1) = drift + MaxStep /\ drift \in Nat
  BY <1>2, <1>3
<1>7. Distance(difficulty, loaded) <= drift
  BY DEF IInv, LoadDrift, Recompute
<1>8. difficulty' = new \/ difficulty' = difficulty
  BY <1>1
<1> HIDE DEF new, drift
<1>9. new \in Nat /\ loaded \in Nat
  BY <1>2, <1>3, <1>5
<1>10. CASE difficulty' = new
  <2>1. Distance(loaded, difficulty) <= drift
    BY <1>3, <1>7, <1>9 DEF Distance
  <2>2. Distance(new, difficulty) <= drift + MaxStep
    BY <1>2, <1>3, <1>5, <1>6, <1>9, <2>1, DistanceTriangle
  <2> QED
    BY <1>6, <1>10, <2>2
<1>11. CASE difficulty' = difficulty
  BY <1>2, <1>3, <1>6, <1>11 DEF Distance
<1> QED
  BY <1>8, <1>10, <1>11

(* A mint moves the difficulty by max_step; the task by as much more as it *)
(* overwrites of mints it did not see, and by nothing older (main.rs:85-92). *)
THEOREM RetargetGentleMoves == Spec => GentleMoves
<1>1. ASSUME IInv, [Next]_vars PROVE [Moves]_vars
  <2>1. MaxStep \in Nat /\ difficulty \in Nat
    BY <1>1, DiffAssumption DEF IInv, TypeOK
  <2>2. ASSUME NEW m \in Mints, RecordMint(m) PROVE Moves
    <3>1. ~Recompute     \* the mint's pc changes
      BY <1>1, <2>2 DEF RecordMint, Recompute, IInv, TypeOK
    <3>2. Distance(difficulty', difficulty) <= MaxStep
      BY <1>1, <2>2, RecordEffect DEF IInv
    <3> QED
      BY <2>1, <3>1, <3>2 DEF Moves
  <2>3. CASE Recompute
    BY <1>1, <2>3, StoreJump DEF Moves
  <2>4. ASSUME difficulty' = difficulty, ~Recompute PROVE Moves
    BY <2>1, <2>4 DEF Moves, Distance
  <2> QED
    BY <1>1, <2>2, <2>3, <2>4 DEF Next, vars, Tick, ReadClock, Drop, LoadDifficulty, QueryStats
<1> QED
  BY <1>1, Inductive, PTL DEF Spec, GentleMoves
-----------------------------------------------------------------------------
(* Cooling down.  No time in the window is later than the last mint, so    *)
(* one round of the task, late enough, empties the window whatever the     *)
(* order of its times, and lowers the difficulty by a whole step.          *)

Early == timestamps \in Seq(0..LastMint) /\ stamp \in [Mints -> 0..LastMint]

Cools ==
    Recompute /\ now > LastMint + Window =>
        /\ timestamps' = <<>>
        /\ behind = 0 /\ Low > 0 => difficulty' = Greater(DiffMin, difficulty - MaxStep)

(* The rest of a sequence, and when there is none.                         *)
LEMMA RestOf ==
    ASSUME NEW S, NEW s \in Seq(S), NEW n \in 0..Len(s)
    PROVE  /\ SubSeq(s, n + 1, Len(s)) \in Seq(S)
           /\ n = Len(s) => SubSeq(s, n + 1, Len(s)) = <<>>
<1>1. Len(s) \in Nat /\ n \in Nat
  OBVIOUS
<1>2. \A i \in n + 1..Len(s) : s[i] \in S
  BY <1>1
<1>3. n + 1 \in Int /\ Len(s) \in Int /\ (n = Len(s) => Len(s) < n + 1)
  BY <1>1
<1> QED
  BY <1>2, <1>3, SubSeqProperties, SubSeqEmpty

(* What is popped leaves a window of the same kind of times.               *)
LEMMA KeepEarly ==
    ASSUME NEW s \in Seq(0..LastMint), NEW n \in 0..Len(s), Keep(s, n)
    PROVE  timestamps' \in Seq(0..LastMint)
  BY RestOf DEF Keep

(* Only a mint brings a time, and none comes after LastMint.               *)
LEMMA EarlyStep == TypeOK /\ Early /\ [Next]_vars => Early'
<1> SUFFICES ASSUME TypeOK, Early, [Next]_vars PROVE Early'
  OBVIOUS
<1> USE DEF Early
<1>1. ASSUME NEW m \in Mints, ReadClock(m) PROVE Early'
  BY <1>1, TimeAssumption DEF ReadClock, TypeOK
<1>2. ASSUME NEW m \in Mints, RecordMint(m) PROVE Early'
  <2> DEFINE pushed == Append(timestamps, stamp[m])
  <2>1. PICK n \in 0..Len(pushed) : Keep(pushed, n)
    BY <1>2 DEF RecordMint
  <2>2. pushed \in Seq(0..LastMint)
    OBVIOUS
  <2>3. stamp' = stamp
    BY <1>2 DEF RecordMint
  <2> HIDE DEF pushed
  <2> QED
    BY <2>1, <2>2, <2>3, KeepEarly
<1>3. CASE Recompute \/ QueryStats
  <2>1. PICK n \in 0..Len(timestamps) : Keep(timestamps, n)
    BY <1>3 DEF Recompute, QueryStats
  <2>2. stamp' = stamp
    BY <1>3 DEF Recompute, QueryStats
  <2> QED
    BY <2>1, <2>2, KeepEarly
<1>4. CASE UNCHANGED <<timestamps, stamp>>
  BY <1>4
<1> QED
  BY <1>1, <1>2, <1>3, <1>4 DEF Next, vars, Tick, Drop, LoadDifficulty

(* A round of the task when all of the window is out of date.              *)
LEMMA CoolsStep == IInv /\ Early => Cools
<1> SUFFICES ASSUME IInv, Early, Recompute, now > LastMint + Window
             PROVE  /\ timestamps' = <<>>
                    /\ behind = 0 /\ Low > 0 => difficulty' = Greater(DiffMin, difficulty - MaxStep)
  BY DEF Cools
<1>1. PICK n \in 0..Len(timestamps) :
        /\ Evicts(timestamps, now, n)
        /\ Keep(timestamps, n)
        /\ difficulty' = IF Retarget(loaded, Len(timestamps) - n) # loaded
                           THEN Retarget(loaded, Len(timestamps) - n)
                           ELSE difficulty
  BY DEF Recompute
<1>2. Len(timestamps) \in Nat /\ timestamps \in Seq(0..LastMint)
  BY DEF Early
<1>3. \A i \in 1..Len(timestamps) : Expired(timestamps[i], now)
  <2> SUFFICES ASSUME NEW i \in 1..Len(timestamps) PROVE Expired(timestamps[i], now)
    OBVIOUS
  <2>1. timestamps[i] \in 0..LastMint
    BY <1>2, ElementOfSeq
  <2> QED
    BY <2>1, TimeAssumption DEF IInv, TypeOK, Expired
<1>4. n = Len(timestamps)
  <2> SUFFICES ASSUME n < Len(timestamps) PROVE FALSE
    BY <1>2
  <2>1. n + 1 \in 1..Len(timestamps)
    BY <1>2
  <2> QED
    BY <1>1, <1>3, <2>1 DEF Evicts
<1>5. timestamps' = <<>>
  BY <1>1, <1>2, <1>4, RestOf DEF Keep
<1>6. ASSUME behind = 0, Low > 0 PROVE difficulty' = Greater(DiffMin, difficulty - MaxStep)
  <2>1. loaded \in DiffMin..DiffMax /\ difficulty \in DiffMin..DiffMax
    BY DEF IInv, TypeOK, Recompute
  <2>2. loaded = difficulty
    BY <1>6, <2>1, DiffAssumption DEF IInv, LoadDrift, Distance, Recompute
  <2>3. Retarget(loaded, 0) = Greater(DiffMin, loaded - MaxStep)
    BY <1>6, BandAssumption DEF Retarget
  <2>4. Len(timestamps) - n = 0
    BY <1>2, <1>4
  <2> QED
    BY <1>1, <2>2, <2>3, <2>4
<1> QED
  BY <1>5, <1>6

(* When players stop, each round of the task that began after their last   *)
(* mint brings the difficulty a step down to its minimum, in whatever      *)
(* order mints pushed and evicted (main.rs:79-94, difficulty.rs:86-98).    *)
THEOREM RetargetCools == Spec => [][Cools]_vars
<1>1. Init => Early
  BY TimeAssumption DEF Init, Early
<1>2. IInv /\ Early /\ [Next]_vars => Early'
  BY EarlyStep DEF IInv
<1> QED
  BY <1>1, <1>2, CoolsStep, Inductive, PTL DEF Spec
=============================================================================

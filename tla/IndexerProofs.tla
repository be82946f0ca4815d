--------------------------- MODULE IndexerProofs ----------------------------
(***************************************************************************)
(* Theorems about Indexer, for any accounts, amounts, batches and depths.  *)
(* The two about what the cursor means need that no block has more than    *)
(* one Claimed event: a chunk may end between two of them.                 *)
(***************************************************************************)
EXTENDS Indexer, SequenceTheorems, TLAPS

\* Blocks too deep to be taken back, now or later, once the tip was at p.
Final(b, p) == b = 0 \/ b + SafeDepth <= p

Heights ==
    /\ peak - ReorgDepth <= tip
    /\ \A i \in DOMAIN log : log[i].block \in 1..tip

InLog(e) == \E i \in DOMAIN log : log[i] = e
Working == At("apply") \/ At("advance")

\* The safe limit is final, and so are the events a call will apply.
SafeIsFinal == At("fetch") \/ Working => Final(call.safe, peak)
TodoFinal ==
    Working => \A k \in DOMAIN call.todo :
                   call.todo[k].block <= call.safe => InLog(call.todo[k])

\* What was applied was final.
CacheFinal ==
    \A a \in Accounts : cache[a] # 0 =>
        \E i \in DOMAIN log :
            log[i].account = a /\ log[i].amount = cache[a] /\ Final(log[i].block, peak)

Position == At("apply") => call.next <= Len(call.todo)

Finality == Heights /\ SafeIsFinal /\ TodoFinal /\ CacheFinal
IInv == TypeOK /\ Position /\ Finality
-----------------------------------------------------------------------------
(* Arithmetic of final blocks.                                             *)
LEMMA FinalBelow ==
    ASSUME NEW b \in Nat, NEW p \in Nat, NEW t \in Nat,
           Final(b, p), p - ReorgDepth <= t
    PROVE  b <= t
BY DepthAssumption, SMT DEF Final

LEMMA FinalStays ==
    ASSUME NEW b \in Nat, NEW p \in Nat, NEW q \in Nat, p <= q, Final(b, p)
    PROVE  Final(b, q)
BY DepthAssumption, SMT DEF Final

LEMMA FinalDown ==
    ASSUME NEW b \in Nat, NEW c \in Nat, NEW p \in Nat, c <= b, Final(b, p)
    PROVE  Final(c, p)
BY DepthAssumption, SMT DEF Final

LEMMA SafeLimitFinal ==
    ASSUME TypeOK
    PROVE  SafeLimit \in Nat /\ Final(SafeLimit, peak)
BY DepthAssumption, SMT DEF TypeOK, SafeLimit, Final

(* What the chain may do: it keeps its final events where they are, and    *)
(* whatever is new is not final as of before.                              *)
ChainMoves ==
    /\ tip' \in Nat /\ peak' \in Nat /\ tip' <= peak' /\ peak <= peak'
    /\ log' \in Seq(Event)
    /\ Heights'
    /\ \A i \in DOMAIN log : Final(log[i].block, peak) =>
           i \in DOMAIN log' /\ log'[i] = log[i]
    /\ \A i \in DOMAIN log' : Final(log'[i].block, peak) =>
           i \in DOMAIN log /\ log'[i] = log[i]
    /\ UNCHANGED <<cursor, cache, call>>
    /\ failures' = failures

LEMMA EventFields ==
    ASSUME NEW l \in Seq(Event), NEW i \in DOMAIN l
    PROVE  /\ l[i] \in Event /\ l[i].block \in Nat
           /\ l[i].account \in Accounts /\ l[i].amount \in Amounts
           /\ l[i].amount \in Nat /\ l[i].amount # 0
           /\ i \in Nat /\ DOMAIN l = 1..Len(l) /\ Len(l) \in Nat
<1>1. l[i] \in Event
  OBVIOUS
<1>2. DOMAIN l = 1..Len(l) /\ Len(l) \in Nat /\ i \in Nat
  OBVIOUS
<1>3. l[i].block \in Nat /\ l[i].account \in Accounts /\ l[i].amount \in Amounts
  BY <1>1 DEF Event
<1>4. QED
  BY <1>1, <1>2, <1>3, AmountAssumption

LEMMA MineMoves ==
    ASSUME TypeOK, Heights, MineBlock
    PROVE  ChainMoves
<1>1. PICK n \in 0..PerBlock :
        \E new \in [1..n -> [block : {tip + 1}, account : Accounts, amount : Amounts]] :
            log' = log \o new
  BY DEF MineBlock
<1>2. PICK new \in [1..n -> [block : {tip + 1}, account : Accounts, amount : Amounts]] :
        log' = log \o new
  BY <1>1
<1>3. n \in Nat /\ tip \in Nat /\ peak \in Nat /\ tip <= peak /\ log \in Seq(Event)
  BY SizeAssumption DEF TypeOK
<1>4. new \in Seq(Event) /\ Len(new) = n
  <2>1. new \in [1..n -> Event]
    BY <1>3 DEF Event
  <2>2. QED
    BY <2>1, <1>3
<1>5. /\ log' \in Seq(Event)
      /\ Len(log') = Len(log) + n
      /\ \A i \in 1..Len(log) + n : log'[i] = IF i <= Len(log) THEN log[i] ELSE new[i - Len(log)]
  BY <1>2, <1>3, <1>4, ConcatProperties
<1>6. Len(log) \in Nat /\ DOMAIN log = 1..Len(log) /\ DOMAIN log' = 1..(Len(log) + n)
  BY <1>3, <1>5
<1>7. \A i \in DOMAIN log : i \in DOMAIN log' /\ log'[i] = log[i]
  BY <1>3, <1>5, <1>6
<1>8. \A i \in DOMAIN log' : i \in DOMAIN log \/ log'[i].block = tip + 1
  <2> SUFFICES ASSUME NEW i \in DOMAIN log', i \notin DOMAIN log
               PROVE  log'[i].block = tip + 1
    OBVIOUS
  <2>1. i - Len(log) \in 1..n /\ log'[i] = new[i - Len(log)]
    BY <1>3, <1>5, <1>6
  <2>2. QED
    BY <2>1, <1>2
<1>9. /\ tip' = tip + 1 /\ peak' \in Nat /\ tip' <= peak' /\ peak <= peak'
      /\ peak' - ReorgDepth <= tip'
  BY <1>3, DepthAssumption DEF MineBlock, Heights
<1>10. Heights'
  <2>1. \A i \in DOMAIN log' : log'[i].block \in 1..tip'
    BY <1>3, <1>7, <1>8, <1>9 DEF Heights
  <2>2. QED
    BY <2>1, <1>9 DEF Heights
<1>11. ~Final(tip + 1, peak)
  BY <1>3, DepthAssumption, SMT DEF Heights, Final
<1>12. \A i \in DOMAIN log' : Final(log'[i].block, peak) => i \in DOMAIN log /\ log'[i] = log[i]
  BY <1>7, <1>8, <1>11
<1>13. QED
  BY <1>3, <1>5, <1>7, <1>9, <1>10, <1>12 DEF ChainMoves, MineBlock

LEMMA ReorgMoves ==
    ASSUME TypeOK, Heights, NEW n \in 0..MaxTip, Reorg(n)
    PROVE  ChainMoves
<1>1. PICK k \in 0..Len(log) : Precede(k, n + 1) /\ log' = SubSeq(log, 1, k)
  BY DEF Reorg
<1>2. /\ n \in Nat /\ tip \in Nat /\ peak \in Nat /\ tip <= peak
      /\ log \in Seq(Event) /\ Len(log) \in Nat /\ k \in Nat /\ k <= Len(log)
  BY BoundAssumption DEF TypeOK
<1>3. \A i \in 1..k : log[i] \in Event
  BY <1>2
<1>4. /\ log' \in Seq(Event)
      /\ Len(log') = k
      /\ \A i \in 1..k : log'[i] = log[i]
  <2>1. /\ SubSeq(log, 1, k) \in Seq(Event)
        /\ Len(SubSeq(log, 1, k)) = IF 1 <= k THEN k - 1 + 1 ELSE 0
        /\ \A i \in 1..(k - 1 + 1) : SubSeq(log, 1, k)[i] = log[1 + i - 1]
    BY <1>2, <1>3, SubSeqProperties
  <2>2. QED
    BY <2>1, <1>1, <1>2
<1>5. DOMAIN log = 1..Len(log) /\ DOMAIN log' = 1..k
  BY <1>2, <1>4
<1>6. tip' = n /\ n < tip /\ peak' = peak /\ peak - ReorgDepth <= n
  BY DEF Reorg
<1>7. \A i \in 1..k : log[i].block < n + 1
  BY <1>1 DEF Precede
<1>8. \A i \in (k + 1)..Len(log) : n + 1 <= log[i].block
  BY <1>1 DEF Precede
<1>9. Heights'
  <2>1. \A i \in DOMAIN log' : log'[i].block \in 1..n
    BY <1>2, <1>4, <1>5, <1>7 DEF Heights
  <2>2. QED
    BY <2>1, <1>6 DEF Heights
<1>10. ASSUME NEW i \in DOMAIN log, Final(log[i].block, peak)
       PROVE  i \in DOMAIN log'
  <2>1. log[i].block \in Nat /\ i \in Nat
    BY <1>2, EventFields
  <2>2. log[i].block <= n
    BY <2>1, <1>2, <1>6, <1>10, FinalBelow
  <2>3. QED
    BY <2>1, <2>2, <1>2, <1>5, <1>8
<1>11. \A i \in DOMAIN log' : i \in DOMAIN log /\ log'[i] = log[i]
  BY <1>2, <1>4, <1>5
<1>12. QED
  BY <1>2, <1>4, <1>6, <1>9, <1>10, <1>11 DEF ChainMoves, Reorg
-----------------------------------------------------------------------------
(* The steps of a call.                                                    *)
WorkingStates ==
    [at : {"apply", "advance"}, from : Nat \ {0}, safe : Nat,
     todo : Seq(Event), next : Nat \ {0}, last : Nat]

LEMMA CallFields ==
    ASSUME TypeOK
    PROVE  /\ At("tip") => call.from \in Nat \ {0}
           /\ At("fetch") => call.from \in Nat \ {0} /\ call.safe \in Nat
           /\ Working => /\ call \in WorkingStates
                         /\ call.from \in Nat \ {0} /\ call.safe \in Nat
                         /\ call.todo \in Seq(Event) /\ call.next \in Nat \ {0}
                         /\ call.last \in Nat
<1>1. call \in CallStates
  BY DEF TypeOK
<1>2. Working => call \in WorkingStates
  BY <1>1 DEF CallStates, Idle, Working, At, WorkingStates
<1>3. QED
  BY <1>1, <1>2 DEF CallStates, Idle, Working, At, WorkingStates

LEMMA SuffixIndex ==
    ASSUME NEW n \in Nat, NEW k \in Nat, NEW i \in 1..(n - k)
    PROVE  i \in 1..(n - (k + 1) + 1) /\ (k + 1) + i - 1 = k + i /\ k + i \in 1..n
OBVIOUS

LEMMA SuffixBack ==
    ASSUME NEW n \in Nat, NEW k \in Nat, NEW i \in 1..n, k < i
    PROVE  i - k \in 1..(n - k) /\ k + (i - k) = i
OBVIOUS

LEMMA SuffixEvents ==
    ASSUME NEW l \in Seq(Event), NEW k \in Nat, k < Len(l)
    PROVE  LET t == SubSeq(l, k + 1, Len(l))
           IN  /\ t \in Seq(Event)
               /\ Len(t) = Len(l) - k /\ Len(t) \in Nat \ {0} /\ DOMAIN t = 1..Len(t)
               /\ \A i \in DOMAIN t : k + i \in DOMAIN l /\ t[i] = l[k + i]
<1> DEFINE t == SubSeq(l, k + 1, Len(l))
<1>1. Len(l) \in Nat /\ \A i \in (k + 1)..Len(l) : l[i] \in Event
  OBVIOUS
<1>2. /\ t \in Seq(Event)
      /\ Len(t) = IF k + 1 <= Len(l) THEN Len(l) - (k + 1) + 1 ELSE 0
      /\ \A i \in 1..(Len(l) - (k + 1) + 1) : t[i] = l[(k + 1) + i - 1]
  BY <1>1, SubSeqProperties
<1> HIDE DEF t
<1>3. Len(t) = Len(l) - k
  BY <1>1, <1>2
<1>4. DOMAIN t = 1..Len(t)
  BY <1>2
<1>5. ASSUME NEW i \in DOMAIN t PROVE k + i \in DOMAIN l /\ t[i] = l[k + i]
  <2>1. i \in 1..(Len(l) - k)
    BY <1>3, <1>4, Zenon
  <2>2. i \in 1..(Len(l) - (k + 1) + 1) /\ (k + 1) + i - 1 = k + i /\ k + i \in 1..Len(l)
    BY <1>1, <2>1, SuffixIndex
  <2>3. t[i] = l[k + i]
    BY <1>2, <2>2, Zenon
  <2>4. QED
    BY <2>2, <2>3
<1>6. QED
  BY <1>1, <1>2, <1>3, <1>4, <1>5 DEF t

(* What a fetch brings: the events of the blocks from `from' on.           *)
Fetched(k) ==
    /\ Precede(k, call.from)
    /\ k < Len(log)
    /\ call' = [at |-> "apply", from |-> call.from, safe |-> call.safe,
                todo |-> SubSeq(log, k + 1, Len(log)), next |-> 1, last |-> call.from - 1]

LEMMA FetchCases ==
    ASSUME TypeOK, GetClaimEvents
    PROVE  call' = Idle \/ \E k \in 0..Len(log) : Fetched(k)
<1>1. PICK k \in 0..Len(log) :
        /\ Precede(k, call.from)
        /\ call' = IF k = Len(log)
                     THEN Idle
                     ELSE [at |-> "apply", from |-> call.from, safe |-> call.safe,
                           todo |-> SubSeq(log, k + 1, Len(log)), next |-> 1,
                           last |-> call.from - 1]
  BY DEF GetClaimEvents, FetchFrom
<1>2. Len(log) \in Nat
  BY DEF TypeOK
<1>3. CASE k = Len(log)
  BY <1>1, <1>3
<1>4. CASE k # Len(log)
  <2>1. k < Len(log)
    BY <1>2, <1>4
  <2>2. call' = [at |-> "apply", from |-> call.from, safe |-> call.safe,
                 todo |-> SubSeq(log, k + 1, Len(log)), next |-> 1,
                 last |-> call.from - 1]
    BY <1>1, <1>4, Zenon
  <2>3. QED
    BY <1>1, <2>1, <2>2, Zenon DEF Fetched
<1>5. QED
  BY <1>3, <1>4

LEMMA FetchedEvents ==
    ASSUME TypeOK, At("fetch"), NEW k \in 0..Len(log), Fetched(k)
    PROVE  /\ call' \in WorkingStates
           /\ call'.at = "apply" /\ call'.next = 1 /\ call'.last = call.from - 1
           /\ call'.from = call.from /\ call'.safe = call.safe
           /\ call'.todo \in Seq(Event)
           /\ Len(call'.todo) = Len(log) - k /\ Len(call'.todo) \in Nat \ {0}
           /\ DOMAIN call'.todo = 1..Len(call'.todo)
           /\ \A i \in DOMAIN call'.todo : k + i \in DOMAIN log /\ call'.todo[i] = log[k + i]
<1>1. /\ log \in Seq(Event) /\ Len(log) \in Nat /\ DOMAIN log = 1..Len(log)
      /\ k \in Nat /\ k < Len(log)
  BY DEF TypeOK, Fetched
<1>2. call.from \in Nat \ {0} /\ call.safe \in Nat
  BY CallFields
<1>3. /\ call'.at = "apply" /\ call'.next = 1 /\ call'.last = call.from - 1
      /\ call'.from = call.from /\ call'.safe = call.safe
      /\ call'.todo = SubSeq(log, k + 1, Len(log))
  BY Zenon DEF Fetched
<1> DEFINE t == SubSeq(log, k + 1, Len(log))
<1>a. /\ t \in Seq(Event)
      /\ Len(t) = Len(log) - k /\ Len(t) \in Nat \ {0} /\ DOMAIN t = 1..Len(t)
      /\ \A i \in DOMAIN t : k + i \in DOMAIN log /\ t[i] = log[k + i]
  BY <1>1, SuffixEvents
<1> HIDE DEF t
<1>4. /\ call'.todo \in Seq(Event)
      /\ Len(call'.todo) = Len(log) - k /\ Len(call'.todo) \in Nat \ {0}
      /\ DOMAIN call'.todo = 1..Len(call'.todo)
      /\ \A i \in DOMAIN call'.todo : k + i \in DOMAIN log /\ call'.todo[i] = log[k + i]
  BY <1>3, <1>a, Zenon DEF t
<1>5. call' \in WorkingStates
  <2>1. /\ call' = [at |-> "apply", from |-> call.from, safe |-> call.safe,
                    todo |-> call'.todo, next |-> 1, last |-> call.from - 1]
        /\ call.from - 1 \in Nat
    BY <1>2, <1>3 DEF Fetched
  <2>2. QED
    BY <2>1, <1>2, <1>4 DEF WorkingStates
<1>6. QED
  BY <1>3, <1>4, <1>5, Zenon

(* What a step to the next event does.                                     *)
LEMMA AppliedEvent ==
    ASSUME TypeOK, Position, ApplyEvent
    PROVE  /\ call.next \in DOMAIN call.todo /\ call.todo[call.next] \in Event
           /\ call' \in WorkingStates
           /\ call'.todo = call.todo /\ call'.from = call.from /\ call'.safe = call.safe
           /\ call'.next = call.next + 1
           /\ call'.at = "apply" => call'.next <= Len(call'.todo)
           /\ call.todo[call.next].block <= call.safe =>
                 /\ cache' = [cache EXCEPT ![call.todo[call.next].account] =
                                               call.todo[call.next].amount]
                 /\ call'.last = Last(call.todo[call.next])
           /\ ~(call.todo[call.next].block <= call.safe) =>
                 cache' = cache /\ call'.last = call.last
           /\ cache' \in [Accounts -> Amounts \cup {0}]
<1> DEFINE e == call.todo[call.next]
<1>1. /\ Working /\ call \in WorkingStates /\ call.at = "apply"
      /\ call.todo \in Seq(Event) /\ call.next \in Nat \ {0} /\ call.last \in Nat
      /\ call.safe \in Nat /\ Len(call.todo) \in Nat
  BY CallFields DEF ApplyEvent, Working, At
<1>2. call.next \in DOMAIN call.todo /\ e \in Event
  BY <1>1 DEF Position, At
<1>3. e.block \in Nat /\ e.account \in Accounts /\ e.amount \in Amounts
  BY <1>2 DEF Event
<1> DEFINE step == IF ChunkEnds(call.next) THEN "advance" ELSE "apply"
           final == IF e.block <= call.safe THEN Last(e) ELSE call.last
<1>4. call' = [call EXCEPT !.at = step, !.next = @ + 1, !.last = final]
  BY DEF ApplyEvent
<1>5. cache' = IF e.block <= call.safe
                 THEN [cache EXCEPT ![e.account] = e.amount] ELSE cache
  BY DEF ApplyEvent, Updated
<1>6. step \in {"apply", "advance"} /\ (step = "apply" => call.next # Len(call.todo))
  BY DEF ChunkEnds
<1>7. final \in Nat
  BY <1>1, <1>3 DEF Last
<1> HIDE DEF e, step, final
<1>8. /\ call' \in WorkingStates
      /\ call'.at = step /\ call'.todo = call.todo /\ call'.from = call.from
      /\ call'.safe = call.safe /\ call'.next = call.next + 1 /\ call'.last = final
  <2>1. step \in {"apply", "advance"} /\ call.next + 1 \in Nat \ {0}
    BY <1>1, <1>6
  <2>2. QED
    BY <1>1, <1>4, <1>7, <2>1 DEF WorkingStates
<1>9. call'.at = "apply" => call'.next <= Len(call'.todo)
  BY <1>1, <1>2, <1>6, <1>8
<1>10. cache' \in [Accounts -> Amounts \cup {0}]
  BY <1>3, <1>5 DEF TypeOK
<1>11. QED
  BY <1>2, <1>5, <1>8, <1>9, <1>10 DEF e, final

LEMMA Advanced ==
    ASSUME TypeOK, AdvanceCursor
    PROVE  /\ Working /\ At("advance")
           /\ cursor' = call.last
           /\ \/ call' = Idle
              \/ /\ ~Finished /\ call' \in WorkingStates /\ call'.at = "apply"
                 /\ call'.todo = call.todo /\ call'.from = call.from
                 /\ call'.safe = call.safe /\ call'.next = call.next
                 /\ call'.last = call.last
<1>1. Working /\ At("advance") /\ call \in WorkingStates
  BY CallFields DEF AdvanceCursor, Working
<1>2. cursor' = call.last
  BY DEF AdvanceCursor, NewCursor
<1>3. CASE Finished
  BY <1>1, <1>2, <1>3 DEF AdvanceCursor
<1>4. CASE ~Finished
  <2>1. call' = [call EXCEPT !.at = "apply"]
    BY <1>4 DEF AdvanceCursor
  <2>2. QED
    BY <1>1, <1>2, <1>4, <2>1 DEF WorkingStates
<1>5. QED
  BY <1>3, <1>4
-----------------------------------------------------------------------------
(* The first invariant.                                                    *)
LEMMA InitIInv == Init => IInv
<1> SUFFICES ASSUME Init PROVE IInv
  OBVIOUS
<1>1. call.at = "idle"
  BY DEF Init, Idle
<1>2. TypeOK
  BY DEF Init, TypeOK, CallStates
<1>3. Position /\ SafeIsFinal /\ TodoFinal
  BY <1>1 DEF Position, SafeIsFinal, TodoFinal, Working, At
<1>4. Heights /\ CacheFinal
  BY DepthAssumption DEF Init, Heights, CacheFinal
<1>5. QED
  BY <1>2, <1>3, <1>4 DEF IInv, Finality

(* A step of the chain.                                                    *)
LEMMA ChainKeepsIInv ==
    ASSUME IInv, ChainMoves
    PROVE  IInv'
<1> USE DEF IInv, Finality
<1>1. /\ cursor' = cursor /\ cache' = cache /\ call' = call /\ failures' = failures
      /\ log \in Seq(Event) /\ log' \in Seq(Event) /\ peak \in Nat /\ peak' \in Nat
      /\ peak <= peak'
  BY DEF ChainMoves, TypeOK
<1>2. TypeOK'
  BY <1>1 DEF TypeOK, ChainMoves
<1>3. Position'
  BY <1>1 DEF Position, At
<1>4. SafeIsFinal'
  <2>1. (At("fetch") \/ Working)' => (At("fetch") \/ Working) /\ call.safe \in Nat
    BY <1>1, CallFields DEF At, Working
  <2>2. QED
    BY <1>1, <2>1, FinalStays DEF SafeIsFinal
<1>5. TodoFinal'
  <2> SUFFICES ASSUME Working, NEW k \in DOMAIN call.todo,
                      call.todo[k].block <= call.safe
               PROVE  InLog(call.todo[k])'
    BY <1>1 DEF TodoFinal, Working, At
  <2>1. PICK i \in DOMAIN log : log[i] = call.todo[k]
    BY DEF TodoFinal, InLog
  <2>2. log[i].block \in Nat /\ call.safe \in Nat /\ Final(call.safe, peak)
    BY <1>1, EventFields, CallFields DEF SafeIsFinal
  <2>3. Final(log[i].block, peak)
    BY <1>1, <2>1, <2>2, FinalDown
  <2>4. i \in DOMAIN log' /\ log'[i] = log[i]
    BY <2>3 DEF ChainMoves
  <2>5. QED
    BY <1>1, <2>1, <2>4 DEF InLog
<1>6. CacheFinal'
  <2> SUFFICES ASSUME NEW a \in Accounts, cache[a] # 0
               PROVE  \E i \in DOMAIN log' :
                        /\ log'[i].account = a /\ log'[i].amount = cache[a]
                        /\ Final(log'[i].block, peak')
    BY <1>1 DEF CacheFinal, Final
  <2>1. PICK i \in DOMAIN log :
          log[i].account = a /\ log[i].amount = cache[a] /\ Final(log[i].block, peak)
    BY DEF CacheFinal
  <2>2. i \in DOMAIN log' /\ log'[i] = log[i]
    BY <2>1 DEF ChainMoves
  <2>3. Final(log[i].block, peak')
    BY <1>1, <2>1, EventFields, FinalStays
  <2>4. QED
    BY <2>1, <2>2, <2>3
<1>7. QED
  BY <1>2, <1>3, <1>4, <1>5, <1>6 DEF ChainMoves

(* Steps of a call that change neither the chain nor the table.            *)
LEMMA ReadingKeepsIInv ==
    ASSUME IInv, ReadCursor \/ GetLatestBlock \/ GetClaimEvents \/ Fail
    PROVE  IInv'
<1> USE DEF IInv, Finality
<1>1. /\ tip' = tip /\ log' = log /\ peak' = peak /\ cursor' = cursor /\ cache' = cache
      /\ failures' \in Nat
  BY DEF TypeOK, ReadCursor, GetLatestBlock, GetClaimEvents, Fail, chain
<1>2. Heights' /\ CacheFinal'
  BY <1>1 DEF Heights, CacheFinal, Final
<1>3. CASE call' = Idle
  <2>1. call' \in CallStates /\ call'.at = "idle"
    BY <1>3 DEF CallStates, Idle
  <2>2. TypeOK'
    BY <1>1, <2>1 DEF TypeOK
  <2>3. Position' /\ SafeIsFinal' /\ TodoFinal'
    BY <2>1 DEF Position, SafeIsFinal, TodoFinal, Working, At
  <2>4. QED
    BY <1>2, <2>2, <2>3
<1>4. CASE ReadCursor
  <2>1. call' = [at |-> "tip", from |-> cursor + 1] /\ cursor + 1 \in Nat \ {0}
    BY <1>4 DEF ReadCursor, TypeOK
  <2>2. call' \in CallStates /\ call'.at = "tip"
    BY <2>1 DEF CallStates
  <2>3. TypeOK'
    BY <1>1, <2>2 DEF TypeOK
  <2>4. Position' /\ SafeIsFinal' /\ TodoFinal'
    BY <2>2 DEF Position, SafeIsFinal, TodoFinal, Working, At
  <2>5. QED
    BY <1>2, <2>3, <2>4
<1>5. CASE GetLatestBlock /\ call' # Idle
  <2>1. /\ call' = [at |-> "fetch", from |-> call.from, safe |-> SafeLimit]
        /\ At("tip")
    BY <1>5 DEF GetLatestBlock
  <2>2. call.from \in Nat \ {0} /\ SafeLimit \in Nat /\ Final(SafeLimit, peak)
    BY <2>1, CallFields, SafeLimitFinal
  <2>3. call' \in CallStates /\ call'.at = "fetch" /\ call'.safe = SafeLimit
    BY <2>1, <2>2 DEF CallStates
  <2>4. TypeOK'
    BY <1>1, <2>3 DEF TypeOK
  <2>5. Position' /\ SafeIsFinal' /\ TodoFinal'
    BY <1>1, <2>2, <2>3 DEF Position, SafeIsFinal, TodoFinal, Working, At
  <2>6. QED
    BY <1>2, <2>4, <2>5
<1>6. CASE GetClaimEvents /\ call' # Idle
  <2>1. At("fetch")
    BY <1>6 DEF GetClaimEvents
  <2>2. PICK k \in 0..Len(log) : Fetched(k)
    BY <1>6, FetchCases
  <2>3. /\ call' \in WorkingStates /\ call'.at = "apply" /\ call'.next = 1
        /\ call'.safe = call.safe /\ Len(call'.todo) \in Nat \ {0}
        /\ \A i \in DOMAIN call'.todo : k + i \in DOMAIN log /\ call'.todo[i] = log[k + i]
    BY <2>1, <2>2, FetchedEvents
  <2>4. call' \in CallStates
    BY <2>3 DEF CallStates, WorkingStates
  <2>5. TypeOK'
    BY <1>1, <2>4 DEF TypeOK
  <2>6. Position' /\ SafeIsFinal'
    BY <1>1, <2>1, <2>3 DEF Position, SafeIsFinal, Working, At
  <2>7. TodoFinal'
    BY <1>1, <2>3 DEF TodoFinal, InLog
  <2>8. QED
    BY <1>2, <2>5, <2>6, <2>7
<1>7. QED
  BY <1>3, <1>4, <1>5, <1>6 DEF Fail

(* An event is applied.                                                    *)
LEMMA ApplyingKeepsIInv ==
    ASSUME IInv, ApplyEvent
    PROVE  IInv'
<1> USE DEF IInv, Finality
<1> DEFINE e == call.todo[call.next]
<1>1. /\ tip' = tip /\ log' = log /\ peak' = peak /\ cursor' = cursor
      /\ failures' = failures /\ log \in Seq(Event) /\ peak \in Nat
  BY DEF TypeOK, ApplyEvent, chain
<1>2. Working /\ call.safe \in Nat
  BY CallFields DEF ApplyEvent, Working
<1>3. /\ call.next \in DOMAIN call.todo /\ e \in Event
      /\ call' \in WorkingStates
      /\ call'.todo = call.todo /\ call'.safe = call.safe
      /\ call'.at = "apply" => call'.next <= Len(call'.todo)
      /\ e.block <= call.safe => cache' = [cache EXCEPT ![e.account] = e.amount]
      /\ ~(e.block <= call.safe) => cache' = cache
      /\ cache' \in [Accounts -> Amounts \cup {0}]
  BY AppliedEvent
<1>4. TypeOK'
  <2>1. call' \in CallStates
    BY <1>3 DEF CallStates, WorkingStates
  <2>2. QED
    BY <1>1, <1>3, <2>1 DEF TypeOK
<1>5. Position' /\ Heights' /\ SafeIsFinal' /\ TodoFinal'
  BY <1>1, <1>2, <1>3 DEF Position, Heights, SafeIsFinal, TodoFinal, InLog, Working, At
<1>6. CacheFinal'
  <2>1. CASE ~(e.block <= call.safe)
    BY <1>1, <1>3, <2>1 DEF CacheFinal, Final
  <2>2. CASE e.block <= call.safe
    <3>1. PICK i \in DOMAIN log : log[i] = e
      BY <1>2, <1>3, <2>2 DEF TodoFinal, InLog
    <3>2. log[i].block \in Nat /\ Final(log[i].block, peak)
      BY <1>1, <1>2, <2>2, <3>1, EventFields, FinalDown DEF SafeIsFinal
    <3>3. \A a \in Accounts : cache'[a] = IF a = e.account THEN e.amount ELSE cache[a]
      BY <1>3, <2>2 DEF TypeOK
    <3>4. QED
      BY <1>1, <3>1, <3>2, <3>3 DEF CacheFinal, Final
  <2>3. QED
    BY <2>1, <2>2
<1>7. QED
  BY <1>4, <1>5, <1>6

(* The cursor moves.                                                       *)
LEMMA AdvancingKeepsIInv ==
    ASSUME IInv, AdvanceCursor
    PROVE  IInv'
<1> USE DEF IInv, Finality
<1>1. /\ tip' = tip /\ log' = log /\ peak' = peak /\ cache' = cache
      /\ failures' = failures /\ log \in Seq(Event)
  BY DEF TypeOK, AdvanceCursor, chain
<1>2. Working /\ cursor' = call.last /\ call.last \in Nat /\ Len(call.todo) \in Nat
      /\ call.next \in Nat \ {0}
  BY Advanced, CallFields
<1>3. Heights' /\ CacheFinal'
  BY <1>1 DEF Heights, CacheFinal, Final
<1>4. CASE call' = Idle
  <2>1. call' \in CallStates /\ call'.at = "idle"
    BY <1>4 DEF CallStates, Idle
  <2>2. TypeOK'
    BY <1>1, <1>2, <2>1 DEF TypeOK
  <2>3. Position' /\ SafeIsFinal' /\ TodoFinal'
    BY <2>1 DEF Position, SafeIsFinal, TodoFinal, Working, At
  <2>4. QED
    BY <1>3, <2>2, <2>3
<1>5. CASE call' # Idle
  <2>1. /\ ~Finished /\ call' \in WorkingStates /\ call'.at = "apply"
        /\ call'.todo = call.todo /\ call'.safe = call.safe /\ call'.next = call.next
    BY <1>5, Advanced
  <2>2. TypeOK'
    <3>1. call' \in CallStates
      BY <2>1 DEF CallStates, WorkingStates
    <3>2. QED
      BY <1>1, <1>2, <3>1 DEF TypeOK
  <2>3. Position'
    BY <1>2, <2>1 DEF Position, Finished
  <2>4. SafeIsFinal' /\ TodoFinal'
    BY <1>1, <1>2, <2>1 DEF SafeIsFinal, TodoFinal, InLog, Working, At
  <2>5. QED
    BY <1>3, <2>2, <2>3, <2>4
<1>6. QED
  BY <1>4, <1>5

LEMMA NextCases ==
    ASSUME IInv, Next
    PROVE  \/ ChainMoves
           \/ ReadCursor \/ GetLatestBlock \/ GetClaimEvents \/ Fail
           \/ ApplyEvent
           \/ AdvanceCursor
<1>1. TypeOK /\ Heights
  BY DEF IInv, Finality
<1>2. QED
  BY <1>1, MineMoves, ReorgMoves DEF Next

LEMMA NextIInv == IInv /\ [Next]_vars => IInv'
<1> SUFFICES ASSUME IInv, [Next]_vars PROVE IInv'
  OBVIOUS
<1>1. CASE UNCHANGED vars
  BY <1>1 DEF IInv, Finality, vars, chain, TypeOK, Position, Heights, SafeIsFinal,
              TodoFinal, CacheFinal, InLog, Working, At, Final
<1>2. CASE Next
  BY <1>2, NextCases, ChainKeepsIInv, ReadingKeepsIInv, ApplyingKeepsIInv, AdvancingKeepsIInv
<1>3. QED
  BY <1>1, <1>2

LEMMA IInvAlways == Spec => []IInv
BY InitIInv, NextIInv, PTL DEF Spec

(* The cursor, the cache and the call's locals have their types: TypeOK.   *)
THEOREM IndexerTypeOK == Spec => []TypeOK
<1>1. IInv => TypeOK
  BY DEF IInv
<1>2. QED
  BY <1>1, IInvAlways, PTL

(* However deep a reorganization within REORG_SAFE_DEPTH, and wherever it  *)
(* comes between the reading of the tip, of the events and the updates,    *)
(* claimed_onchain holds amounts of the chain only (indexer.rs:14, 35, 58).*)
THEOREM IndexerReorgSafe == Spec => []ReorgSafe
<1>1. IInv => ReorgSafe
  BY DEF IInv, Finality, CacheFinal, ReorgSafe
<1>2. QED
  BY <1>1, IInvAlways, PTL
-----------------------------------------------------------------------------
(* What the cursor means, when a block has one Claimed event at most.      *)
Ordered == \A i, j \in DOMAIN log : i < j => log[i].block < log[j].block
Orderly == Ordered /\ Growing(log)

\* The call's locals follow the cursor, which follows the safe limit.
Reading == At("tip") \/ At("fetch") => call.from = cursor + 1
Locals ==
    /\ At("fetch") => call.from <= call.safe
    /\ Working => call.from - 1 <= cursor /\ cursor <= call.last /\ call.last <= call.safe
CursorFinal == Final(cursor, peak)

\* The events to apply are all there are, in order; those before `next' are
\* applied, those from `next' on are beyond `last'.
Complete ==
    Working => \A i \in DOMAIN log :
        call.from <= log[i].block /\ log[i].block <= call.safe
            => \E k \in DOMAIN call.todo : call.todo[k] = log[i]
TodoOrdered ==
    Working => \A j, k \in DOMAIN call.todo :
        j < k => call.todo[j].block < call.todo[k].block
Applied ==
    Working => \A k \in DOMAIN call.todo :
        k < call.next /\ call.todo[k].block <= call.safe
            => call.todo[k].amount <= cache[call.todo[k].account]
LastBefore ==
    Working => \A k \in DOMAIN call.todo :
        call.next <= k => call.last < call.todo[k].block

Progress == Complete /\ TodoOrdered /\ Applied /\ LastBefore
JInv == Orderly /\ Reading /\ Locals /\ CursorFinal /\ Progress /\ CursorMeansApplied

LEMMA InitJInv == Init => JInv
<1> SUFFICES ASSUME Init PROVE JInv
  OBVIOUS
<1>1. call.at = "idle"
  BY DEF Init, Idle
<1>2. Reading /\ Locals /\ Progress
  BY <1>1 DEF Reading, Locals, Progress, Complete, TodoOrdered, Applied, LastBefore, Working, At
<1>3. Orderly /\ CursorFinal /\ CursorMeansApplied
  BY DEF Init, Orderly, Ordered, Growing, CursorFinal, Final, CursorMeansApplied
<1>4. QED
  BY <1>2, <1>3 DEF JInv

LEMMA MineOrderly ==
    ASSUME TypeOK, Heights, Orderly, PerBlock <= 1, MineBlock
    PROVE  Orderly'
<1>1. PICK n \in 0..PerBlock :
        \E new \in [1..n -> [block : {tip + 1}, account : Accounts, amount : Amounts]] :
            Growing(log \o new) /\ log' = log \o new
  BY DEF MineBlock
<1>2. PICK new \in [1..n -> [block : {tip + 1}, account : Accounts, amount : Amounts]] :
        Growing(log \o new) /\ log' = log \o new
  BY <1>1
<1>3. n \in Nat /\ n <= 1 /\ tip \in Nat /\ log \in Seq(Event) /\ Len(log) \in Nat
  BY SizeAssumption DEF TypeOK
<1>4. new \in Seq(Event) /\ Len(new) = n
  <2>1. new \in [1..n -> Event]
    BY <1>3 DEF Event
  <2>2. QED
    BY <2>1, <1>3
<1>5. /\ Len(log') = Len(log) + n
      /\ log' \in Seq(Event)
      /\ \A i \in 1..Len(log) + n : log'[i] = IF i <= Len(log) THEN log[i] ELSE new[i - Len(log)]
  BY <1>2, <1>3, <1>4, ConcatProperties
<1>6. DOMAIN log' = 1..(Len(log) + n) /\ DOMAIN log = 1..Len(log)
  BY <1>3, <1>5
<1>7. ASSUME NEW i \in DOMAIN log', NEW j \in DOMAIN log', i < j
      PROVE  log'[i].block < log'[j].block
  <2>1. i \in DOMAIN log /\ log'[i] = log[i] /\ log[i].block \in 1..tip
    BY <1>3, <1>5, <1>6, <1>7 DEF Heights
  <2>2. CASE j \in DOMAIN log
    BY <2>1, <2>2, <1>3, <1>5, <1>6, <1>7 DEF Orderly, Ordered
  <2>3. CASE j \notin DOMAIN log
    <3>1. j - Len(log) \in 1..n /\ log'[j] = new[j - Len(log)]
      BY <2>3, <1>3, <1>5, <1>6
    <3>2. log'[j].block = tip + 1
      BY <3>1, <1>2
    <3>3. QED
      BY <2>1, <3>2, <1>3
  <2>4. QED
    BY <2>2, <2>3
<1>8. Growing(log)'
  BY <1>2 DEF Growing
<1>9. QED
  BY <1>7, <1>8 DEF Orderly, Ordered

LEMMA ReorgOrderly ==
    ASSUME TypeOK, Heights, Orderly, NEW n \in 0..MaxTip, Reorg(n)
    PROVE  Orderly'
<1>1. PICK k \in 0..Len(log) : log' = SubSeq(log, 1, k)
  BY DEF Reorg
<1>2. log \in Seq(Event) /\ Len(log) \in Nat /\ k \in Nat /\ k <= Len(log)
  BY DEF TypeOK
<1>3. \A i \in 1..k : log[i] \in Event
  BY <1>2
<1>4. /\ log' \in Seq(Event) /\ Len(log') = k
      /\ \A i \in 1..k : log'[i] = log[i]
  <2>1. /\ SubSeq(log, 1, k) \in Seq(Event)
        /\ Len(SubSeq(log, 1, k)) = IF 1 <= k THEN k - 1 + 1 ELSE 0
        /\ \A i \in 1..(k - 1 + 1) : SubSeq(log, 1, k)[i] = log[1 + i - 1]
    BY <1>2, <1>3, SubSeqProperties
  <2>2. QED
    BY <2>1, <1>1, <1>2
<1>5. \A i \in DOMAIN log' : i \in DOMAIN log /\ log'[i] = log[i]
  BY <1>2, <1>4
<1>6. QED
  BY <1>5 DEF Orderly, Ordered, Growing

(* A step of the chain leaves the call's events as they were, and adds no  *)
(* event at or before the cursor.                                          *)
LEMMA ChainKeepsJInv ==
    ASSUME IInv, JInv, ChainMoves, Orderly'
    PROVE  JInv'
<1>1. /\ TypeOK /\ SafeIsFinal /\ Orderly /\ Reading /\ Locals /\ CursorFinal /\ Progress
      /\ CursorMeansApplied
  BY DEF IInv, Finality, JInv
<1>2. /\ cursor' = cursor /\ cache' = cache /\ call' = call
      /\ log' \in Seq(Event) /\ peak \in Nat /\ peak' \in Nat /\ peak <= peak'
      /\ cursor \in Nat
  BY <1>1 DEF ChainMoves, TypeOK
<1>3. Reading' /\ Locals' /\ TodoOrdered' /\ Applied' /\ LastBefore'
  BY <1>1, <1>2 DEF Reading, Locals, Progress, TodoOrdered, Applied, LastBefore, Working, At
<1>4. CursorFinal'
  BY <1>1, <1>2, FinalStays DEF CursorFinal
<1>5. ASSUME NEW b \in Nat, Final(b, peak), NEW i \in DOMAIN log', log'[i].block <= b
      PROVE  i \in DOMAIN log /\ log'[i] = log[i]
  <2>1. log'[i].block \in Nat
    BY <1>2, EventFields
  <2>2. QED
    BY <2>1, <1>2, <1>5, FinalDown DEF ChainMoves
<1>6. Complete'
  <2> SUFFICES ASSUME Working, NEW i \in DOMAIN log',
                      call.from <= log'[i].block, log'[i].block <= call.safe
               PROVE  \E k \in DOMAIN call.todo : call.todo[k] = log'[i]
    BY <1>2 DEF Complete, Working, At
  <2>1. call.safe \in Nat /\ Final(call.safe, peak)
    BY <1>1, CallFields DEF SafeIsFinal
  <2>2. i \in DOMAIN log /\ log'[i] = log[i]
    BY <1>5, <2>1
  <2>3. QED
    BY <1>1, <2>2 DEF Progress, Complete
<1>7. CursorMeansApplied'
  BY <1>1, <1>2, <1>5 DEF CursorMeansApplied, CursorFinal
<1>8. QED
  BY <1>3, <1>4, <1>6, <1>7 DEF JInv, Progress

LEMMA ReadingKeepsJInv ==
    ASSUME IInv, JInv, ReadCursor \/ GetLatestBlock \/ GetClaimEvents \/ Fail
    PROVE  JInv'
<1>1. /\ TypeOK /\ Heights /\ SafeIsFinal /\ Orderly /\ Reading /\ Locals /\ CursorFinal
      /\ CursorMeansApplied
  BY DEF IInv, Finality, JInv
<1>2. /\ tip' = tip /\ log' = log /\ peak' = peak /\ cursor' = cursor /\ cache' = cache
      /\ cursor \in Nat /\ log \in Seq(Event)
  BY <1>1 DEF TypeOK, ReadCursor, GetLatestBlock, GetClaimEvents, Fail, chain
<1>3. Orderly' /\ CursorFinal' /\ CursorMeansApplied'
  BY <1>1, <1>2 DEF Orderly, Ordered, Growing, CursorFinal, Final, CursorMeansApplied
<1>4. CASE call' = Idle
  <2>1. call'.at = "idle"
    BY <1>4 DEF Idle
  <2>2. Reading' /\ Locals' /\ Progress'
    BY <2>1 DEF Reading, Locals, Progress, Complete, TodoOrdered, Applied, LastBefore, Working, At
  <2>3. QED
    BY <1>3, <2>2 DEF JInv
<1>5. CASE ReadCursor
  <2>1. call'.at = "tip" /\ call'.from = cursor + 1
    BY <1>5 DEF ReadCursor
  <2>2. Reading' /\ Locals' /\ Progress'
    BY <1>2, <2>1
       DEF Reading, Locals, Progress, Complete, TodoOrdered, Applied, LastBefore, Working, At
  <2>3. QED
    BY <1>3, <2>2 DEF JInv
<1>6. CASE GetLatestBlock /\ call' # Idle
  <2>1. /\ call' = [at |-> "fetch", from |-> call.from, safe |-> SafeLimit]
        /\ At("tip") /\ ~(call.from > SafeLimit)
    BY <1>6 DEF GetLatestBlock
  <2>2. call.from \in Nat /\ SafeLimit \in Nat /\ call.from = cursor + 1
    BY <1>1, <2>1, CallFields, SafeLimitFinal DEF Reading
  <2>3. /\ call'.at = "fetch" /\ call'.from = cursor + 1 /\ call'.from <= call'.safe
    BY <2>1, <2>2
  <2>4. Reading' /\ Locals' /\ Progress'
    BY <1>2, <2>3
       DEF Reading, Locals, Progress, Complete, TodoOrdered, Applied, LastBefore, Working, At
  <2>5. QED
    BY <1>3, <2>4 DEF JInv
<1>7. CASE GetClaimEvents /\ call' # Idle
  <2>1. At("fetch")
    BY <1>7 DEF GetClaimEvents
  <2>2. PICK k \in 0..Len(log) : Fetched(k)
    BY <1>1, <1>7, FetchCases
  <2>3. /\ call'.at = "apply" /\ call'.next = 1 /\ call'.last = call.from - 1
        /\ call'.from = call.from /\ call'.safe = call.safe
        /\ call'.todo \in Seq(Event)
        /\ Len(call'.todo) = Len(log) - k
        /\ DOMAIN call'.todo = 1..Len(call'.todo)
        /\ \A i \in DOMAIN call'.todo : k + i \in DOMAIN log /\ call'.todo[i] = log[k + i]
    BY <1>1, <2>1, <2>2, FetchedEvents
  <2>4. /\ call.from = cursor + 1 /\ call.from <= call.safe /\ call.from \in Nat \ {0}
        /\ call.safe \in Nat
    BY <1>1, <2>1, CallFields DEF Reading, Locals
  <2>5. /\ k \in Nat /\ k < Len(log) /\ Len(log) \in Nat /\ DOMAIN log = 1..Len(log)
        /\ \A i \in 1..k : log[i].block < call.from
        /\ \A i \in (k + 1)..Len(log) : call.from <= log[i].block
    BY <1>2, <2>2 DEF Fetched, Precede
  <2>6. Reading' /\ Locals'
    BY <1>2, <2>3, <2>4 DEF Reading, Locals, Working, At
  <2>7. ASSUME NEW i \in DOMAIN log, call.from <= log[i].block
        PROVE  \E j \in DOMAIN call'.todo : call'.todo[j] = log[i]
    <3>1. i \in Nat /\ i > k /\ log[i].block \in Nat
      BY <1>2, <2>4, <2>5, <2>7, EventFields
    <3>2. i - k \in 1..(Len(log) - k) /\ k + (i - k) = i
      BY <2>5, <3>1, SuffixBack
    <3>3. i - k \in DOMAIN call'.todo
      BY <2>3, <3>2, Zenon
    <3>4. call'.todo[i - k] = log[k + (i - k)]
      BY <2>3, <3>3, Zenon
    <3>5. QED
      BY <3>2, <3>3, <3>4, Zenon
  <2>8. Complete'
    BY <1>2, <2>3, <2>7 DEF Complete
  <2>9. ASSUME NEW i \in DOMAIN call'.todo, NEW j \in DOMAIN call'.todo, i < j
        PROVE  call'.todo[i].block < call'.todo[j].block
    <3>1. i \in 1..(Len(log) - k) /\ j \in 1..(Len(log) - k)
      BY <2>3, Zenon
    <3>2. k + i < k + j
      BY <2>5, <2>9, <3>1
    <3>3. /\ k + i \in DOMAIN log /\ call'.todo[i] = log[k + i]
          /\ k + j \in DOMAIN log /\ call'.todo[j] = log[k + j]
      BY <2>3, <2>9, Zenon
    <3>4. log[k + i].block < log[k + j].block
      BY <1>1, <3>2, <3>3, Zenon DEF Orderly, Ordered
    <3>5. QED
      BY <3>3, <3>4, Zenon
  <2>10. TodoOrdered'
    BY <2>9 DEF TodoOrdered
  <2>11. Applied'
    BY <2>3 DEF Applied
  <2>12. ASSUME NEW i \in DOMAIN call'.todo PROVE call'.last < call'.todo[i].block
    <3>1. i \in 1..(Len(log) - k)
      BY <2>3, Zenon
    <3>2. k + i \in (k + 1)..Len(log) /\ k + i \in DOMAIN log
      BY <2>5, <3>1
    <3>3. call.from <= log[k + i].block /\ log[k + i].block \in Nat
      BY <1>2, <2>5, <3>2, EventFields
    <3>4. call.from - 1 < log[k + i].block
      BY <2>4, <3>3
    <3>5. call'.todo[i] = log[k + i] /\ call'.last = call.from - 1
      BY <2>3, <2>12, Zenon
    <3>6. QED
      BY <3>4, <3>5, Zenon
  <2>13. LastBefore'
    BY <2>12 DEF LastBefore
  <2>14. QED
    BY <1>3, <2>6, <2>8, <2>10, <2>11, <2>13 DEF JInv, Progress
<1>8. QED
  BY <1>4, <1>5, <1>6, <1>7 DEF Fail

LEMMA ApplyingKeepsJInv ==
    ASSUME IInv, JInv, ApplyEvent
    PROVE  JInv'
<1> DEFINE e == call.todo[call.next]
<1>1. /\ TypeOK /\ Position /\ TodoFinal /\ Orderly /\ Locals /\ CursorFinal /\ Progress
      /\ CursorMeansApplied
  BY DEF IInv, Finality, JInv
<1>2. /\ tip' = tip /\ log' = log /\ peak' = peak /\ cursor' = cursor
      /\ cursor \in Nat /\ log \in Seq(Event) /\ cache \in [Accounts -> Amounts \cup {0}]
  BY <1>1 DEF TypeOK, ApplyEvent, chain
<1>3. /\ Working /\ call.safe \in Nat /\ call.from \in Nat \ {0} /\ call.last \in Nat
      /\ call.next \in Nat \ {0} /\ call.todo \in Seq(Event)
  BY <1>1, CallFields DEF ApplyEvent, Working
<1>4. /\ call.next \in DOMAIN call.todo /\ e \in Event
      /\ call' \in WorkingStates
      /\ call'.todo = call.todo /\ call'.from = call.from /\ call'.safe = call.safe
      /\ call'.next = call.next + 1
      /\ e.block <= call.safe =>
            cache' = [cache EXCEPT ![e.account] = e.amount] /\ call'.last = Last(e)
      /\ ~(e.block <= call.safe) => cache' = cache /\ call'.last = call.last
  BY <1>1, AppliedEvent
<1>5. e.block \in Nat /\ e.account \in Accounts /\ e.amount \in Nat /\ call.last < e.block
  <2>1. e.block \in Nat /\ e.account \in Accounts /\ e.amount \in Nat
    BY <1>3, <1>4, EventFields
  <2>2. call.last < e.block
    BY <1>1, <1>3, <1>4 DEF Progress, LastBefore
  <2>3. QED
    BY <2>1, <2>2
<1>6. call'.at \in {"apply", "advance"}
  BY <1>4 DEF WorkingStates
<1> HIDE DEF e
<1>7. call'.last = IF e.block <= call.safe THEN e.block ELSE call.last
  BY <1>3, <1>4, <1>5 DEF Last
<1>8. ASSUME NEW k \in DOMAIN call.todo
      PROVE  /\ k \in Nat /\ call.todo[k] \in Event /\ call.todo[k].block \in Nat
             /\ call.todo[k].account \in Accounts /\ call.todo[k].amount \in Nat
  BY <1>3, EventFields
<1>9. Orderly' /\ CursorFinal'
  BY <1>1, <1>2 DEF Orderly, Ordered, Growing, CursorFinal, Final
<1>10. Reading' /\ Locals'
  BY <1>1, <1>2, <1>3, <1>4, <1>5, <1>6, <1>7 DEF Reading, Locals, Working, At
<1>11. Complete' /\ TodoOrdered'
  BY <1>1, <1>2, <1>3, <1>4 DEF Progress, Complete, TodoOrdered
<1>12. LastBefore'
  <2> SUFFICES ASSUME NEW k \in DOMAIN call.todo, call.next + 1 <= k
               PROVE  call'.last < call.todo[k].block
    BY <1>4 DEF LastBefore
  <2>1. call.next < k /\ call.next <= k
    BY <1>3, <1>8
  <2>2. e.block < call.todo[k].block /\ call.last < call.todo[k].block
    BY <1>1, <1>3, <1>4, <2>1 DEF Progress, TodoOrdered, LastBefore, e
  <2>3. QED
    BY <1>7, <2>2
<1>13. Applied' /\ CursorMeansApplied'
  <2>1. CASE ~(e.block <= call.safe)
    <3>1. cache' = cache
      BY <1>4, <2>1
    <3>2. ASSUME NEW k \in DOMAIN call.todo, k < call.next + 1, call.todo[k].block <= call.safe
          PROVE  k < call.next
      BY <1>3, <1>8, <2>1, <3>2 DEF e
    <3>3. Applied'
      BY <1>1, <1>3, <1>4, <3>1, <3>2 DEF Progress, Applied
    <3>4. CursorMeansApplied'
      BY <1>1, <1>2, <3>1 DEF CursorMeansApplied
    <3>5. QED
      BY <3>3, <3>4
  <2>2. CASE e.block <= call.safe
    <3>1. \A a \in Accounts : cache'[a] = IF a = e.account THEN e.amount ELSE cache[a]
      BY <1>2, <1>4, <2>2
    <3>2. PICK p \in DOMAIN log : log[p] = e
      BY <1>1, <1>3, <1>4, <2>2 DEF TodoFinal, InLog, e
    \* An earlier event of the same account has a smaller amount.
    <3>3. ASSUME NEW i \in DOMAIN log, log[i].block < e.block, log[i].account = e.account
          PROVE  log[i].amount <= e.amount
      <4>1. i \in Nat /\ p \in Nat /\ log[i].block \in Nat /\ log[i].amount \in Nat
        BY <1>2, EventFields
      <4>2. i < p
        BY <1>1, <1>5, <3>2, <3>3, <4>1 DEF Orderly, Ordered
      <4>3. QED
        BY <1>1, <1>5, <3>2, <3>3, <4>1, <4>2 DEF Orderly, Growing
    <3>4. ASSUME NEW k \in DOMAIN call.todo, k < call.next + 1, call.todo[k].block <= call.safe
          PROVE  call.todo[k].amount <= cache'[call.todo[k].account]
      <4>1. CASE k = call.next
        BY <1>5, <3>1, <4>1 DEF e
      <4>2. CASE k # call.next
        <5>1. k < call.next
          BY <1>3, <1>8, <3>4, <4>2
        <5>2. /\ call.todo[k].block < e.block
              /\ call.todo[k].amount <= cache[call.todo[k].account]
          BY <1>1, <1>3, <1>4, <3>4, <5>1 DEF Progress, TodoOrdered, Applied, e
        <5>3. PICK i \in DOMAIN log : log[i] = call.todo[k]
          BY <1>1, <1>3, <3>4 DEF TodoFinal, InLog
        <5>4. QED
          BY <1>8, <3>1, <3>3, <5>2, <5>3
      <4>3. QED
        BY <4>1, <4>2
    <3>5. Applied'
      BY <1>4, <3>4 DEF Applied
    <3>6. ASSUME NEW i \in DOMAIN log, log[i].block <= cursor
          PROVE  log[i].amount <= cache'[log[i].account]
      <4>1. log[i].block \in Nat /\ log[i].account \in Accounts
        BY <1>2, EventFields
      <4>2. log[i].block < e.block
        BY <1>1, <1>2, <1>3, <1>5, <3>6, <4>1 DEF Locals
      <4>3. log[i].amount <= cache[log[i].account]
        BY <1>1, <3>6 DEF CursorMeansApplied
      <4>4. QED
        BY <3>1, <3>3, <4>1, <4>2, <4>3
    <3>7. CursorMeansApplied'
      BY <1>2, <3>6 DEF CursorMeansApplied
    <3>8. QED
      BY <3>5, <3>7
  <2>3. QED
    BY <2>1, <2>2
<1>14. QED
  BY <1>9, <1>10, <1>11, <1>12, <1>13 DEF JInv, Progress

(* Up to `last' everything is applied, and up to the safe limit when the   *)
(* call has no more events.                                                *)
LEMMA AppliedUpTo ==
    ASSUME IInv, JInv, Working, NEW i \in DOMAIN log,
           log[i].block <= call.safe,
           Finished \/ log[i].block <= call.last
    PROVE  log[i].amount <= cache[log[i].account]
<1>1. TypeOK /\ Locals /\ Progress /\ CursorMeansApplied
  BY DEF IInv, JInv
<1>2. /\ call.todo \in Seq(Event) /\ call.from \in Nat \ {0} /\ call.next \in Nat \ {0}
      /\ call.last \in Nat /\ cursor \in Nat /\ log \in Seq(Event) /\ call.safe \in Nat
  BY <1>1, CallFields DEF TypeOK
<1>3. log[i].block \in Nat
  BY <1>2, EventFields
<1>4. CASE log[i].block < call.from
  <2>1. log[i].block <= cursor
    BY <1>1, <1>2, <1>3, <1>4 DEF Locals
  <2>2. QED
    BY <1>1, <2>1 DEF CursorMeansApplied
<1>5. CASE call.from <= log[i].block
  <2>1. PICK k \in DOMAIN call.todo : call.todo[k] = log[i]
    BY <1>1, <1>5 DEF Progress, Complete
  <2>2. k \in 1..Len(call.todo) /\ Len(call.todo) \in Nat
    BY <1>2
  <2>3. CASE Finished
    <3>1. k < call.next
      BY <1>2, <2>2, <2>3 DEF Finished
    <3>2. QED
      BY <1>1, <2>1, <3>1 DEF Progress, Applied
  <2>4. CASE log[i].block <= call.last
    <3>1. ~(call.next <= k)
      BY <1>1, <1>2, <1>3, <2>1, <2>4 DEF Progress, LastBefore
    <3>2. k < call.next
      BY <1>2, <2>2, <3>1
    <3>3. QED
      BY <1>1, <2>1, <3>2 DEF Progress, Applied
  <2>5. QED
    BY <2>3, <2>4
<1>6. QED
  BY <1>2, <1>3, <1>4, <1>5

LEMMA AdvancingKeepsJInv ==
    ASSUME IInv, JInv, AdvanceCursor
    PROVE  JInv'
<1>1. TypeOK /\ SafeIsFinal /\ Orderly /\ Locals /\ Progress
  BY DEF IInv, Finality, JInv
<1>2. /\ tip' = tip /\ log' = log /\ peak' = peak /\ cache' = cache
      /\ log \in Seq(Event) /\ cursor \in Nat /\ peak \in Nat
  BY <1>1 DEF TypeOK, AdvanceCursor, chain
<1>3. /\ Working /\ cursor' = call.last /\ call.last \in Nat /\ call.safe \in Nat
      /\ call.from \in Nat \ {0} /\ call.last <= call.safe /\ call.from - 1 <= cursor
      /\ cursor <= call.last
  BY <1>1, Advanced, CallFields DEF Locals
<1>4. Orderly'
  BY <1>1, <1>2 DEF Orderly, Ordered, Growing
<1>5. CursorFinal'
  <2>1. Final(call.last, peak)
    BY <1>1, <1>2, <1>3, FinalDown DEF SafeIsFinal
  <2>2. QED
    BY <1>2, <1>3, <2>1 DEF CursorFinal
<1>6. CursorMeansApplied'
  <2> SUFFICES ASSUME NEW i \in DOMAIN log, log[i].block <= call.last
               PROVE  log[i].amount <= cache[log[i].account]
    BY <1>2, <1>3 DEF CursorMeansApplied
  <2>1. log[i].block <= call.safe
    BY <1>2, <1>3, EventFields
  <2>2. QED
    BY <1>3, <2>1, AppliedUpTo
<1>7. CASE call' = Idle
  <2>1. call'.at = "idle"
    BY <1>7 DEF Idle
  <2>2. Reading' /\ Locals' /\ Progress'
    BY <2>1 DEF Reading, Locals, Progress, Complete, TodoOrdered, Applied, LastBefore, Working, At
  <2>3. QED
    BY <1>4, <1>5, <1>6, <2>2 DEF JInv
<1>8. CASE call' # Idle
  <2>1. /\ call'.at = "apply" /\ call'.todo = call.todo /\ call'.from = call.from
        /\ call'.safe = call.safe /\ call'.next = call.next /\ call'.last = call.last
    BY <1>1, <1>8, Advanced
  <2>2. Reading' /\ Locals'
    <3>1. call.from - 1 <= call.last
      BY <1>2, <1>3
    <3>2. /\ call'.from - 1 <= cursor' /\ cursor' <= call'.last /\ call'.last <= call'.safe
      BY <1>3, <2>1, <3>1
    <3>3. QED
      BY <2>1, <3>2 DEF Reading, Locals, Working, At
  <2>3. Progress'
    BY <1>1, <1>2, <1>3, <2>1 DEF Progress, Complete, TodoOrdered, Applied, LastBefore
  <2>4. QED
    BY <1>4, <1>5, <1>6, <2>2, <2>3 DEF JInv
<1>9. QED
  BY <1>7, <1>8

LEMMA NextJInv ==
    ASSUME PerBlock <= 1
    PROVE  IInv /\ JInv /\ [Next]_vars => JInv'
<1> SUFFICES ASSUME IInv, JInv, [Next]_vars PROVE JInv'
  OBVIOUS
<1>1. CASE UNCHANGED vars
  BY <1>1 DEF vars, chain, JInv, Orderly, Ordered, Growing, Reading, Locals, CursorFinal,
              Final, Progress, Complete, TodoOrdered, Applied, LastBefore, Working, At,
              CursorMeansApplied
<1>2. TypeOK /\ Heights /\ Orderly
  BY DEF IInv, Finality, JInv
<1>3. CASE MineBlock
  BY <1>2, <1>3, MineMoves, MineOrderly, ChainKeepsJInv
<1>4. CASE \E n \in 0..MaxTip : Reorg(n)
  BY <1>2, <1>4, ReorgMoves, ReorgOrderly, ChainKeepsJInv
<1>5. CASE ReadCursor \/ GetLatestBlock \/ GetClaimEvents \/ Fail
  BY <1>5, ReadingKeepsJInv
<1>6. CASE ApplyEvent
  BY <1>6, ApplyingKeepsJInv
<1>7. CASE AdvanceCursor
  BY <1>7, AdvancingKeepsJInv
<1>8. QED
  BY <1>1, <1>3, <1>4, <1>5, <1>6, <1>7 DEF Next

LEMMA JInvAlways ==
    ASSUME PerBlock <= 1
    PROVE  Spec => [](IInv /\ JInv)
<1>1. IInv /\ JInv /\ [Next]_vars => (IInv /\ JInv)'
  BY NextIInv, NextJInv
<1>2. Init => IInv /\ JInv
  BY InitIInv, InitJInv
<1>3. QED
  BY <1>1, <1>2, PTL DEF Spec

(* Whatever dies or fails, and however the chain moves, every event up to  *)
(* the cursor shows in claimed_onchain, provided that no two of them are   *)
(* in one block (indexer.rs:52-92).                                        *)
THEOREM IndexerCursorMeansApplied ==
    ASSUME PerBlock <= 1
    PROVE  Spec => []CursorMeansApplied
<1>1. IInv /\ JInv => CursorMeansApplied
  BY DEF JInv
<1>2. QED
  BY <1>1, JInvAlways, PTL

(* Under the same condition, a call that ran to its end left nothing out   *)
(* up to the safe limit it read (indexer.rs:35, 55-89).                    *)
THEOREM IndexerCatchesUp ==
    ASSUME PerBlock <= 1
    PROVE  Spec => []CatchesUp
<1>1. IInv /\ JInv => CatchesUp
  BY AppliedUpTo DEF CatchesUp, Working
<1>2. QED
  BY <1>1, JInvAlways, PTL
-----------------------------------------------------------------------------
(* Where the amounts in the cache come from while no call has failed, with *)
(* any number of events in a block.                                        *)
Sorted == \A i, j \in DOMAIN log : i < j => log[i].block <= log[j].block
LogInOrder == Sorted /\ Growing(log)

\* A call works through events after `from', which grow like the log's.
TodoInOrder ==
    Working => /\ Growing(call.todo)
               /\ \A k \in DOMAIN call.todo : call.from <= call.todo[k].block
LastCovers ==
    Working => /\ call.from - 1 <= call.last
               /\ \A k \in DOMAIN call.todo :
                     k < call.next /\ call.todo[k].block <= call.safe
                         => call.todo[k].block <= call.last

\* An amount is of an event up to the cursor that the call began with, or of
\* one that the call applied.
OfLog(a, b) ==
    \E i \in DOMAIN log : /\ log[i].account = a /\ log[i].amount = cache[a]
                          /\ log[i].block <= b /\ Final(log[i].block, peak)
OfCall(a) ==
    Working /\ \E k \in DOMAIN call.todo :
        /\ k < call.next /\ call.todo[k].block <= call.safe
        /\ call.todo[k].account = a /\ call.todo[k].amount = cache[a]
Begun == IF Working THEN call.from - 1 ELSE cursor
Source == failures = 0 => \A a \in Accounts : cache[a] = 0 \/ OfLog(a, Begun) \/ OfCall(a)

Sources == Reading /\ TodoInOrder /\ LastCovers /\ Source
KInv == LogInOrder /\ Sources

(* Nothing is in the log, the cache or a call at first.                    *)
LEMMA InitKInv == Init => KInv
<1> SUFFICES ASSUME Init PROVE KInv
  OBVIOUS
<1>1. call.at = "idle"
  BY DEF Init, Idle
<1>2. Reading /\ TodoInOrder /\ LastCovers
  BY <1>1 DEF Reading, TodoInOrder, LastCovers, Working, At
<1>3. Source /\ LogInOrder
  BY DEF Init, Source, LogInOrder, Sorted, Growing
<1>4. QED
  BY <1>2, <1>3 DEF KInv, Sources

(* A new block comes last, and its claims exceed those before them.        *)
LEMMA MineInOrder ==
    ASSUME TypeOK, Heights, LogInOrder, MineBlock
    PROVE  LogInOrder'
<1>1. PICK n \in 0..PerBlock :
        \E new \in [1..n -> [block : {tip + 1}, account : Accounts, amount : Amounts]] :
            Growing(log \o new) /\ log' = log \o new
  BY DEF MineBlock
<1>2. PICK new \in [1..n -> [block : {tip + 1}, account : Accounts, amount : Amounts]] :
        Growing(log \o new) /\ log' = log \o new
  BY <1>1
<1>3. n \in Nat /\ tip \in Nat /\ log \in Seq(Event) /\ Len(log) \in Nat
  BY SizeAssumption DEF TypeOK
<1>4. new \in Seq(Event) /\ Len(new) = n
  <2>1. new \in [1..n -> Event]
    BY <1>3 DEF Event
  <2>2. QED
    BY <2>1, <1>3
<1>5. /\ Len(log') = Len(log) + n
      /\ log' \in Seq(Event)
      /\ \A i \in 1..Len(log) + n : log'[i] = IF i <= Len(log) THEN log[i] ELSE new[i - Len(log)]
  BY <1>2, <1>3, <1>4, ConcatProperties
<1>6. DOMAIN log' = 1..(Len(log) + n) /\ DOMAIN log = 1..Len(log)
  BY <1>3, <1>5
<1>7. \A i \in DOMAIN log : log'[i] = log[i] /\ log[i].block \in 1..tip
  BY <1>3, <1>5, <1>6 DEF Heights
<1>8. ASSUME NEW i \in DOMAIN log', i \notin DOMAIN log
      PROVE  log'[i].block = tip + 1
  <2>1. i - Len(log) \in 1..n /\ log'[i] = new[i - Len(log)]
    BY <1>3, <1>5, <1>6, <1>8
  <2>2. QED
    BY <2>1, <1>2
<1>9. ASSUME NEW i \in DOMAIN log', NEW j \in DOMAIN log', i < j
      PROVE  log'[i].block <= log'[j].block
  <2>1. CASE j \in DOMAIN log
    <3>1. i \in DOMAIN log
      BY <1>3, <1>6, <1>9, <2>1
    <3>2. QED
      BY <1>7, <1>9, <2>1, <3>1 DEF LogInOrder, Sorted
  <2>2. CASE i \in DOMAIN log /\ j \notin DOMAIN log
    BY <1>3, <1>7, <1>8, <2>2
  <2>3. CASE i \notin DOMAIN log /\ j \notin DOMAIN log
    BY <1>3, <1>8, <2>3
  <2>4. QED
    BY <2>1, <2>2, <2>3
<1>10. Growing(log)'
  BY <1>2 DEF Growing
<1>11. QED
  BY <1>9, <1>10 DEF LogInOrder, Sorted

(* A part of an ordered log is ordered.                                    *)
LEMMA ReorgInOrder ==
    ASSUME TypeOK, LogInOrder, NEW n \in 0..MaxTip, Reorg(n)
    PROVE  LogInOrder'
<1>1. PICK k \in 0..Len(log) : log' = SubSeq(log, 1, k)
  BY DEF Reorg
<1>2. log \in Seq(Event) /\ Len(log) \in Nat /\ k \in Nat /\ k <= Len(log)
  BY DEF TypeOK
<1>3. \A i \in 1..k : log[i] \in Event
  BY <1>2
<1>4. /\ log' \in Seq(Event) /\ Len(log') = k
      /\ \A i \in 1..k : log'[i] = log[i]
  <2>1. /\ SubSeq(log, 1, k) \in Seq(Event)
        /\ Len(SubSeq(log, 1, k)) = IF 1 <= k THEN k - 1 + 1 ELSE 0
        /\ \A i \in 1..(k - 1 + 1) : SubSeq(log, 1, k)[i] = log[1 + i - 1]
    BY <1>2, <1>3, SubSeqProperties
  <2>2. QED
    BY <2>1, <1>1, <1>2
<1>5. \A i \in DOMAIN log' : i \in DOMAIN log /\ log'[i] = log[i]
  BY <1>2, <1>4
<1>6. QED
  BY <1>5 DEF LogInOrder, Sorted, Growing

(* The chain keeps final events, and so the sources of what was applied.   *)
LEMMA ChainKeepsSources ==
    ASSUME IInv, Sources, ChainMoves
    PROVE  Sources'
<1>1. /\ cursor' = cursor /\ cache' = cache /\ call' = call /\ failures' = failures
      /\ log \in Seq(Event) /\ peak \in Nat /\ peak' \in Nat /\ peak <= peak'
  BY DEF IInv, ChainMoves, TypeOK
<1>2. Reading' /\ TodoInOrder' /\ LastCovers'
  BY <1>1 DEF Sources, Reading, TodoInOrder, LastCovers, Growing, Working, At
<1>3. Begun' = Begun
  BY <1>1 DEF Begun, Working, At
<1>4. \A i \in DOMAIN log : Final(log[i].block, peak) =>
         i \in DOMAIN log' /\ log'[i] = log[i] /\ Final(log[i].block, peak')
  BY <1>1, EventFields, FinalStays DEF ChainMoves
<1>5. ASSUME NEW a, NEW b, OfLog(a, b)
      PROVE  \E i \in DOMAIN log' : /\ log'[i].account = a /\ log'[i].amount = cache[a]
                                    /\ log'[i].block <= b /\ Final(log'[i].block, peak')
  BY <1>4, <1>5 DEF OfLog
<1>6. Source'
  <2> SUFFICES ASSUME failures = 0, NEW a \in Accounts
               PROVE  cache[a] = 0 \/ OfLog(a, Begun)' \/ OfCall(a)'
    BY <1>1 DEF Source
  <2>1. CASE OfLog(a, Begun)
    BY <1>1, <1>3, <1>5, <2>1 DEF OfLog
  <2>2. CASE OfCall(a)
    BY <1>1, <2>2 DEF OfCall, Working, At
  <2>3. QED
    BY <2>1, <2>2 DEF Sources, Source
<1>7. QED
  BY <1>2, <1>6 DEF Sources

(* While a call reads, the cache is that of the cursor it read.            *)
LEMMA ReadingKeepsSources ==
    ASSUME IInv, KInv, ReadCursor \/ GetLatestBlock \/ GetClaimEvents \/ Fail
    PROVE  Sources'
<1>1. TypeOK /\ LogInOrder /\ Sources
  BY DEF IInv, KInv
<1>2. /\ log' = log /\ peak' = peak /\ cursor' = cursor /\ cache' = cache
      /\ cursor \in Nat /\ log \in Seq(Event) /\ failures \in Nat
      /\ failures' = failures \/ (Fail /\ failures' = failures + 1)
  BY <1>1 DEF TypeOK, ReadCursor, GetLatestBlock, GetClaimEvents, Fail, chain
<1>3. ASSUME ~Fail
      PROVE  ~Working /\ Begun = cursor /\ failures' = failures
  <2>1. call.at \in {"idle", "tip", "fetch"}
    BY <1>3 DEF At, ReadCursor, GetLatestBlock, GetClaimEvents
  <2>2. ~Working
    BY <2>1 DEF Working, At
  <2>3. QED
    BY <1>2, <1>3, <2>2 DEF Begun
<1>4. ASSUME Begun' = cursor
      PROVE  Source'
  <2> SUFFICES ASSUME failures' = 0, NEW a \in Accounts
               PROVE  cache[a] = 0 \/ OfLog(a, Begun)' \/ OfCall(a)'
    BY <1>2 DEF Source
  <2>1. ~Fail
    BY <1>2 DEF Fail
  <2>2. cache[a] = 0 \/ OfLog(a, cursor)
    BY <1>1, <1>3, <2>1 DEF Sources, Source, OfCall
  <2>3. QED
    BY <1>2, <1>4, <2>2 DEF OfLog
<1>5. CASE call'.at = "idle" \/ ReadCursor
  <2>1. call'.at = "idle" \/ (call'.at = "tip" /\ call'.from = cursor + 1)
    BY <1>5 DEF ReadCursor
  <2>2. Reading' /\ TodoInOrder' /\ LastCovers' /\ Begun' = cursor
    BY <1>2, <2>1 DEF Reading, TodoInOrder, LastCovers, Begun, Working, At
  <2>3. QED
    BY <1>4, <2>2 DEF Sources
<1>6. CASE GetLatestBlock /\ call' # Idle
  <2>1. call'.at = "fetch" /\ call'.from = call.from /\ At("tip")
    BY <1>6 DEF GetLatestBlock
  <2>2. Reading' /\ TodoInOrder' /\ LastCovers' /\ Begun' = cursor
    BY <1>1, <1>2, <2>1 DEF Sources, Reading, TodoInOrder, LastCovers, Begun, Working, At
  <2>3. QED
    BY <1>4, <2>2 DEF Sources
<1>7. CASE GetClaimEvents /\ call' # Idle
  <2>1. At("fetch")
    BY <1>7 DEF GetClaimEvents
  <2>2. PICK k \in 0..Len(log) : Fetched(k)
    BY <1>1, <1>7, FetchCases
  <2>3. /\ call'.at = "apply" /\ call'.next = 1 /\ call'.last = call.from - 1
        /\ call'.from = call.from /\ call'.safe = call.safe
        /\ call'.todo \in Seq(Event)
        /\ Len(call'.todo) = Len(log) - k
        /\ DOMAIN call'.todo = 1..Len(call'.todo)
        /\ \A i \in DOMAIN call'.todo : k + i \in DOMAIN log /\ call'.todo[i] = log[k + i]
    BY <1>1, <2>1, <2>2, FetchedEvents
  <2>4. call.from = cursor + 1 /\ call.from \in Nat \ {0}
    BY <1>1, <2>1, CallFields DEF Sources, Reading
  <2>5. /\ k \in Nat /\ k < Len(log) /\ Len(log) \in Nat
        /\ \A i \in (k + 1)..Len(log) : call.from <= log[i].block
    BY <1>2, <2>2 DEF Fetched, Precede
  <2>6. Reading' /\ Begun' = cursor
    BY <1>2, <2>3, <2>4 DEF Reading, Begun, Working, At
  <2>7. ASSUME NEW i \in DOMAIN call'.todo PROVE call.from <= call'.todo[i].block
    <3>1. i \in 1..(Len(log) - k)
      BY <2>3, Zenon
    <3>2. k + i \in (k + 1)..Len(log)
      BY <2>5, <3>1
    <3>3. call.from <= log[k + i].block /\ call'.todo[i] = log[k + i]
      BY <2>3, <2>5, <2>7, <3>2
    <3>4. QED
      BY <3>3, Zenon
  <2>8. ASSUME NEW i \in DOMAIN call'.todo, NEW j \in DOMAIN call'.todo, i < j,
               call'.todo[i].account = call'.todo[j].account
        PROVE  call'.todo[i].amount < call'.todo[j].amount
    <3>1. i \in 1..(Len(log) - k) /\ j \in 1..(Len(log) - k)
      BY <2>3, Zenon
    <3>2. k + i < k + j
      BY <2>5, <2>8, <3>1
    <3>3. /\ k + i \in DOMAIN log /\ call'.todo[i] = log[k + i]
          /\ k + j \in DOMAIN log /\ call'.todo[j] = log[k + j]
      BY <2>3, <2>8, Zenon
    <3>4. log[k + i].account = log[k + j].account
      BY <2>8, <3>3, Zenon
    <3>5. log[k + i].amount < log[k + j].amount
      BY <1>1, <3>2, <3>3, <3>4, Zenon DEF LogInOrder, Growing
    <3>6. QED
      BY <3>3, <3>5, Zenon
  <2>9. TodoInOrder'
    BY <2>3, <2>7, <2>8 DEF TodoInOrder, Growing
  <2>10. LastCovers'
    <3>1. \A i \in DOMAIN call'.todo : ~(i < 1)
      BY <2>3
    <3>2. QED
      BY <2>3, <2>4, <3>1 DEF LastCovers
  <2>11. QED
    BY <1>4, <2>6, <2>9, <2>10 DEF Sources
<1>8. QED
  <2>1. Fail => call' = Idle
    BY DEF Fail
  <2>2. call' = Idle => call'.at = "idle"
    BY DEF Idle
  <2>3. QED
    BY <1>5, <1>6, <1>7, <2>1, <2>2

(* The event applied next has a higher amount than what the cache has for  *)
(* its account: that came from an earlier block, or from earlier in the    *)
(* list.                                                                   *)
LEMMA ApplyRaises ==
    ASSUME IInv, KInv, failures = 0, ApplyEvent,
           call.todo[call.next].block <= call.safe
    PROVE  cache[call.todo[call.next].account] <= call.todo[call.next].amount
<1> DEFINE e == call.todo[call.next]
           a == e.account
<1>1. TypeOK /\ Position /\ TodoFinal /\ LogInOrder /\ Sources /\ Working
  BY DEF IInv, Finality, KInv, ApplyEvent, Working
<1>2. /\ call.next \in DOMAIN call.todo /\ e \in Event
      /\ call.todo \in Seq(Event) /\ call.next \in Nat /\ call.from \in Nat \ {0}
      /\ log \in Seq(Event)
  BY <1>1, AppliedEvent, CallFields DEF TypeOK
<1>3. e.amount \in Nat /\ e.block \in Nat /\ a \in Accounts
  BY <1>2, EventFields
<1>4. CASE cache[a] = 0
  BY <1>3, <1>4
<1>5. CASE OfLog(a, Begun)
  <2>1. PICK i \in DOMAIN log : /\ log[i].account = a /\ log[i].amount = cache[a]
                                /\ log[i].block <= call.from - 1
    BY <1>1, <1>5 DEF OfLog, Begun
  <2>2. PICK j \in DOMAIN log : log[j] = e
    BY <1>1, <1>2 DEF TodoFinal, InLog
  <2>3. call.from <= e.block
    BY <1>1, <1>2 DEF Sources, TodoInOrder
  <2>4. i \in Nat /\ j \in Nat /\ log[i].block \in Nat /\ log[i].amount \in Nat
    BY <1>2, EventFields
  <2>5. log[i].block < log[j].block
    BY <1>2, <1>3, <2>1, <2>2, <2>3, <2>4
  <2>6. i < j
    <3>1. ~(j < i) /\ i # j
      BY <1>1, <1>3, <2>2, <2>4, <2>5 DEF LogInOrder, Sorted
    <3>2. QED
      BY <2>4, <3>1
  <2>7. log[i].amount < log[j].amount
    BY <1>1, <2>1, <2>2, <2>6 DEF LogInOrder, Growing
  <2>8. QED
    BY <1>3, <2>1, <2>2, <2>4, <2>7
<1>6. CASE OfCall(a)
  <2>1. PICK k \in DOMAIN call.todo :
           /\ k < call.next /\ call.todo[k].account = a /\ call.todo[k].amount = cache[a]
    BY <1>6 DEF OfCall
  <2>2. call.todo[k].amount < e.amount
    BY <1>1, <1>2, <2>1 DEF Sources, TodoInOrder, Growing
  <2>3. call.todo[k].amount \in Nat
    BY <1>2, EventFields
  <2>4. QED
    BY <1>3, <2>1, <2>2, <2>3
<1>7. QED
  BY <1>1, <1>3, <1>4, <1>5, <1>6 DEF Sources, Source

(* What is applied has its source in the call's list.                      *)
LEMMA ApplyingKeepsSources ==
    ASSUME IInv, KInv, ApplyEvent
    PROVE  Sources'
<1> DEFINE e == call.todo[call.next]
<1>1. TypeOK /\ Position /\ Sources /\ Working
  BY DEF IInv, KInv, ApplyEvent, Working
<1>2. /\ log' = log /\ peak' = peak /\ cursor' = cursor /\ failures' = failures
  BY DEF ApplyEvent, chain
<1>3. /\ call.next \in DOMAIN call.todo /\ e \in Event
      /\ call' \in WorkingStates
      /\ call'.todo = call.todo /\ call'.from = call.from /\ call'.safe = call.safe
      /\ call'.next = call.next + 1
      /\ e.block <= call.safe => /\ cache' = [cache EXCEPT ![e.account] = e.amount]
                                 /\ call'.last = Last(e)
      /\ ~(e.block <= call.safe) => cache' = cache /\ call'.last = call.last
  BY <1>1, AppliedEvent
<1>4. /\ call.todo \in Seq(Event) /\ call.next \in Nat /\ call.from \in Nat \ {0}
      /\ call.last \in Nat /\ call.safe \in Nat
      /\ e.block \in Nat /\ e.account \in Accounts
  BY <1>1, <1>3, CallFields, EventFields
<1>5. Working' /\ call'.at \in {"apply", "advance"}
  BY <1>3 DEF WorkingStates, Working, At
<1>6. Reading' /\ TodoInOrder' /\ Begun' = Begun
  BY <1>1, <1>3, <1>5 DEF Sources, Reading, TodoInOrder, Growing, Begun, At
<1>7. LastCovers'
  <2>1. /\ call'.last \in Nat /\ call.last <= call'.last
        /\ e.block <= call.safe => e.block <= call'.last
    BY <1>3, <1>4 DEF Last
  <2>2. call.from - 1 <= call'.last
    BY <1>1, <1>4, <2>1 DEF Sources, LastCovers
  <2>3. ASSUME NEW k \in DOMAIN call.todo, k < call.next + 1, call.todo[k].block <= call.safe
        PROVE  call.todo[k].block <= call'.last
    <3>1. k \in Nat /\ call.todo[k].block \in Nat
      BY <1>4, EventFields
    <3>2. CASE k = call.next
      BY <2>1, <2>3, <3>2
    <3>3. CASE k < call.next
      <4>1. call.todo[k].block <= call.last
        BY <1>1, <2>3, <3>3 DEF Sources, LastCovers
      <4>2. QED
        BY <1>4, <2>1, <3>1, <4>1
    <3>4. QED
      BY <1>4, <2>3, <3>1, <3>2, <3>3
  <2>4. QED
    BY <1>3, <2>2, <2>3 DEF LastCovers
<1>8. ASSUME NEW k \in DOMAIN call.todo, k < call.next
      PROVE  k < call.next + 1
  <2>1. k \in Nat
    BY <1>4, EventFields
  <2>2. QED
    BY <1>4, <1>8, <2>1
<1>9. ASSUME NEW a \in Accounts, cache'[a] = cache[a],
             cache[a] = 0 \/ OfLog(a, Begun) \/ OfCall(a)
      PROVE  cache'[a] = 0 \/ OfLog(a, Begun)' \/ OfCall(a)'
  <2>1. CASE OfLog(a, Begun)
    BY <1>2, <1>6, <1>9, <2>1 DEF OfLog
  <2>2. CASE OfCall(a)
    BY <1>3, <1>5, <1>8, <1>9, <2>2 DEF OfCall
  <2>3. QED
    BY <1>9, <2>1, <2>2
<1>10. Source'
  <2> SUFFICES ASSUME failures = 0, NEW a \in Accounts
               PROVE  cache'[a] = 0 \/ OfLog(a, Begun)' \/ OfCall(a)'
    BY <1>2 DEF Source
  <2>1. CASE e.block <= call.safe /\ a = e.account
    <3>1. cache'[a] = e.amount
      BY <1>1, <1>3, <2>1 DEF TypeOK
    <3>2. call.next < call'.next
      BY <1>3, <1>4
    <3>3. OfCall(a)'
      BY <1>3, <1>5, <2>1, <3>1, <3>2 DEF OfCall
    <3>4. QED
      BY <3>3
  <2>2. CASE ~(e.block <= call.safe /\ a = e.account)
    <3>1. cache'[a] = cache[a]
      BY <1>1, <1>3, <2>2 DEF TypeOK
    <3>2. QED
      BY <1>1, <1>9, <3>1 DEF Sources, Source
  <2>3. QED
    BY <2>1, <2>2
<1>11. QED
  BY <1>6, <1>7, <1>10 DEF Sources

(* When the call ends, what it applied lies up to the new cursor.          *)
LEMMA AdvancingKeepsSources ==
    ASSUME IInv, KInv, AdvanceCursor
    PROVE  Sources'
<1>1. TypeOK /\ Sources /\ SafeIsFinal /\ TodoFinal
  BY DEF IInv, Finality, KInv
<1>2. /\ log' = log /\ peak' = peak /\ cache' = cache /\ failures' = failures
      /\ peak \in Nat /\ log \in Seq(Event)
  BY <1>1 DEF AdvanceCursor, chain, TypeOK
<1>3. /\ Working /\ cursor' = call.last /\ call.last \in Nat /\ call.safe \in Nat
      /\ call.from \in Nat \ {0}
  BY <1>1, Advanced, CallFields
<1>4. CASE call' = Idle
  <2>1. call'.at = "idle"
    BY <1>4 DEF Idle
  <2>2. Reading' /\ TodoInOrder' /\ LastCovers' /\ Begun' = call.last
    BY <1>3, <2>1 DEF Reading, TodoInOrder, LastCovers, Begun, Working, At
  <2>3. ASSUME NEW a \in Accounts, OfLog(a, Begun) \/ OfCall(a)
        PROVE  OfLog(a, call.last)
    <3>1. CASE OfLog(a, Begun)
      <4>1. PICK i \in DOMAIN log : /\ log[i].account = a /\ log[i].amount = cache[a]
                                    /\ log[i].block <= call.from - 1
                                    /\ Final(log[i].block, peak)
        BY <1>3, <3>1 DEF OfLog, Begun
      <4>2. log[i].block <= call.last
        <5>1. call.from - 1 <= call.last /\ log[i].block \in Nat
          BY <1>1, <1>2, <1>3, EventFields DEF Sources, LastCovers
        <5>2. QED
          BY <1>3, <4>1, <5>1
      <4>3. QED
        BY <4>1, <4>2 DEF OfLog
    <3>2. CASE OfCall(a)
      <4>1. PICK k \in DOMAIN call.todo :
               /\ k < call.next /\ call.todo[k].block <= call.safe
               /\ call.todo[k].account = a /\ call.todo[k].amount = cache[a]
        BY <3>2 DEF OfCall
      <4>2. PICK i \in DOMAIN log : log[i] = call.todo[k]
        BY <1>1, <1>3, <4>1 DEF TodoFinal, InLog
      <4>3. log[i].block \in Nat /\ Final(call.safe, peak)
        BY <1>1, <1>2, <1>3, EventFields DEF SafeIsFinal
      <4>4. Final(log[i].block, peak)
        BY <1>2, <1>3, <4>1, <4>2, <4>3, FinalDown
      <4>5. call.todo[k].block <= call.last
        BY <1>1, <1>3, <4>1 DEF Sources, LastCovers
      <4>6. QED
        BY <4>1, <4>2, <4>4, <4>5 DEF OfLog
    <3>3. QED
      BY <2>3, <3>1, <3>2
  <2>4. Source'
    <3> SUFFICES ASSUME failures = 0, NEW a \in Accounts
                 PROVE  cache[a] = 0 \/ OfLog(a, Begun)'
      BY <1>2 DEF Source
    <3>1. cache[a] = 0 \/ OfLog(a, call.last)
      BY <1>1, <2>3 DEF Sources, Source
    <3>2. QED
      BY <1>2, <2>2, <3>1 DEF OfLog
  <2>5. QED
    BY <2>2, <2>4 DEF Sources
<1>5. CASE call' # Idle
  <2>1. /\ call'.at = "apply" /\ call'.todo = call.todo /\ call'.from = call.from
        /\ call'.safe = call.safe /\ call'.next = call.next /\ call'.last = call.last
    BY <1>1, <1>5, Advanced
  <2>2. Working' /\ Begun' = Begun
    BY <1>3, <2>1 DEF Begun, Working, At
  <2>3. Reading' /\ TodoInOrder' /\ LastCovers'
    BY <1>1, <1>3, <2>1 DEF Sources, Reading, TodoInOrder, LastCovers, Growing, Working, At
  <2>4. Source'
    BY <1>1, <1>2, <1>3, <2>1, <2>2 DEF Sources, Source, OfLog, OfCall
  <2>5. QED
    BY <2>3, <2>4 DEF Sources
<1>6. QED
  BY <1>4, <1>5

(* Every step keeps where the amounts come from.                           *)
LEMMA NextKInv == IInv /\ KInv /\ [Next]_vars => KInv'
<1> SUFFICES ASSUME IInv, KInv, [Next]_vars PROVE KInv'
  OBVIOUS
<1>1. CASE UNCHANGED vars
  BY <1>1 DEF vars, chain, KInv, LogInOrder, Sorted, Growing, Sources, Reading, TodoInOrder,
              LastCovers, Source, OfLog, OfCall, Begun, Working, At, Final
<1>2. TypeOK /\ Heights /\ LogInOrder /\ Sources
  BY DEF IInv, Finality, KInv
<1>3. CASE MineBlock
  BY <1>2, <1>3, MineMoves, MineInOrder, ChainKeepsSources DEF KInv
<1>4. CASE \E n \in 0..MaxTip : Reorg(n)
  BY <1>2, <1>4, ReorgMoves, ReorgInOrder, ChainKeepsSources DEF KInv
<1>5. ASSUME log' = log, Sources'
      PROVE  KInv'
  BY <1>2, <1>5 DEF KInv, LogInOrder, Sorted, Growing
<1>6. CASE ReadCursor \/ GetLatestBlock \/ GetClaimEvents \/ Fail
  <2>1. log' = log
    BY <1>6 DEF ReadCursor, GetLatestBlock, GetClaimEvents, Fail, chain
  <2>2. QED
    BY <1>5, <1>6, <2>1, ReadingKeepsSources
<1>7. CASE ApplyEvent
  <2>1. log' = log
    BY <1>7 DEF ApplyEvent, chain
  <2>2. QED
    BY <1>5, <1>7, <2>1, ApplyingKeepsSources
<1>8. CASE AdvanceCursor
  <2>1. log' = log
    BY <1>8 DEF AdvanceCursor, chain
  <2>2. QED
    BY <1>5, <1>8, <2>1, AdvancingKeepsSources
<1>9. QED
  BY <1>1, <1>3, <1>4, <1>6, <1>7, <1>8 DEF Next

(* So it holds in every state.                                             *)
LEMMA KInvAlways == Spec => [](IInv /\ KInv)
<1>1. IInv /\ KInv /\ [Next]_vars => (IInv /\ KInv)'
  BY NextIInv, NextKInv
<1>2. Init => IInv /\ KInv
  BY InitIInv, InitKInv
<1>3. QED
  BY <1>1, <1>2, PTL DEF Spec

(* As long as no call has failed, claimed_onchain never goes back, however *)
(* many events share a block and whatever the chain takes back between the *)
(* steps of a call (indexer.rs:12, 14, 62-63).                             *)
THEOREM IndexerNoRegression == Spec => NoRegression
<1>1. IInv /\ KInv /\ [Next]_vars =>
         [failures = 0 => \A a \in Accounts : cache[a] <= cache'[a]]_cache
  <2> SUFFICES ASSUME IInv, KInv, Next, failures = 0, cache' # cache, NEW a \in Accounts
               PROVE  cache[a] <= cache'[a]
    BY DEF vars
  <2>1. ApplyEvent
    BY NextCases DEF ChainMoves, ReadCursor, GetLatestBlock, GetClaimEvents, Fail, AdvanceCursor
  <2>2. TypeOK /\ Position
    BY DEF IInv
  <2>3. /\ call.next \in DOMAIN call.todo /\ call.todo[call.next] \in Event
        /\ call.todo[call.next].block <= call.safe
        /\ cache' = [cache EXCEPT ![call.todo[call.next].account] =
                                     call.todo[call.next].amount]
    BY <2>1, <2>2, AppliedEvent
  <2>4. CASE a = call.todo[call.next].account
    <3>1. cache[a] <= call.todo[call.next].amount
      BY <2>1, <2>3, <2>4, ApplyRaises
    <3>2. QED
      BY <2>2, <2>3, <2>4, <3>1 DEF TypeOK
  <2>5. CASE a # call.todo[call.next].account
    <3>1. cache'[a] = cache[a] /\ cache[a] \in Nat
      BY <2>2, <2>3, <2>5, AmountAssumption DEF TypeOK
    <3>2. QED
      BY <3>1
  <2>6. QED
    BY <2>4, <2>5
<1>2. QED
  BY <1>1, KInvAlways, PTL DEF Spec, NoRegression
=============================================================================

----------------------------- MODULE MintProofs -----------------------------
(***************************************************************************)
(* Theorems about Mint, for every set of users, challenges and requests.   *)
(*                                                                         *)
(* The inductive invariant says what a request knows at each of its steps: *)
(* what it read stays true of the immutable columns, and once its UPDATE   *)
(* holds the row's lock, of the status too.                                *)
(***************************************************************************)
EXTENDS Mint, Sums, TLAPS

InTx == {"insert", "commit"}

\* A request that runs has a body.
BodyRead == \A r \in Requests : pc[r] # "idle" => req[r] \in Body

\* Between its UPDATE and its end, a transaction holds the lock of its row.
LockHeld == \A r \in Requests : pc[r] \in InTx => lock[Chal(r)] = r

\* The branch a request took is the branch its challenge still calls for.
ReadHolds ==
    \A r \in Requests :
        /\ pc[r] \in {"begin", "cas"} \cup InTx =>
              /\ Target(r) \in Row
              /\ Target(r).user = req[r].user
              /\ Target(r).solution = req[r].answer
        /\ pc[r] \in {"late", "wrong"} \cup Voiding =>
              /\ Target(r) \in Row
              /\ Target(r).user = req[r].user
        /\ pc[r] = "late" => Target(r).expiresAt <= now
        /\ pc[r] = "voidLate" => Target(r).expiresAt <= ts[r]
        /\ pc[r] \in {"wrong", "voidWrong"} => Target(r).solution # req[r].answer

\* A transaction that holds the lock may claim, and knows the reward.
ClaimHolds ==
    \A r \in Requests : pc[r] \in InTx =>
        /\ Target(r).status = "PENDING"
        /\ Target(r).expiresAt > ts[r]
        /\ credit[r] = Target(r).reward

\* Every earnings row was committed by the request it names.
Provenance ==
    /\ \A e \in earnings :
          /\ pc[e.id] \in Credited \cup {"done"}
          /\ e.challenge = Chal(e.id)
          /\ e.amount = credit[e.id]
    /\ \A r \in Requests : pc[r] \in Credited => \E e \in earnings : e.id = r

\* Only a finished request has given a decisive answer.
AnswersFinal == \A r \in Requests : Decisive(r) => pc[r] = "done"

\* The table has finitely many rows, so its sums are numbers.
EarningsFinite == IsFiniteSet(earnings)

IInv ==
    /\ TypeOK
    /\ EarningsFinite
    /\ BodyRead
    /\ LockHeld
    /\ ReadHolds
    /\ ClaimHolds
    /\ Provenance
    /\ AnswersFinal
    /\ LedgerExact
    /\ ResolvedForCause
    /\ OneWinner
-----------------------------------------------------------------------------
(* What a resolution does to the challenges table: two columns of one row. *)
LEMMA ResolveEffect ==
    ASSUME TypeOK, NEW r \in Requests, req[r] \in Body, Target(r) \in Row,
           NEW status \in {"CLAIMED", "EXPIRED"}, Resolve(r, status)
    PROVE  /\ rows' \in [Challenges -> Row \cup {NoRow}]
           /\ rows'[Chal(r)] \in Row
           /\ rows'[Chal(r)] = [rows[Chal(r)] EXCEPT !.status = status,
                                                     !.resolvedAt = ts[r]]
           /\ \A c \in Challenges : c # Chal(r) => rows'[c] = rows[c]
<1>1. Chal(r) \in Challenges
  BY DEF Body, Chal
<1>2. ts[r] \in Nat
  BY DEF TypeOK
<1> DEFINE new == [rows[Chal(r)] EXCEPT !.status = status, !.resolvedAt = ts[r]]
<1>3. new \in Row
  BY <1>2 DEF Row, Target, TypeOK
<1>4. rows' = [rows EXCEPT ![Chal(r)] = new]
  BY <1>1 DEF Resolve, TypeOK
<1> HIDE DEF new
<1>5. QED
  BY <1>1, <1>3, <1>4 DEF TypeOK, new
-----------------------------------------------------------------------------
(* The two ways a request changes the tables, result delivered or lost.    *)
Voids(r) ==
    /\ pc[r] \in Voiding
    /\ Unlocked(r)
    /\ Target(r).status = "PENDING"
    /\ Resolve(r, "EXPIRED")
    /\ \E code \in Replies \ {"claimed"} :
          /\ Answer(r, code)
          /\ code = "expired" => pc[r] = "voidLate"
    /\ UNCHANGED <<now, users, earnings, lock, req, ts, credit, balance>>

Pays(r) ==
    /\ pc[r] = "commit"
    /\ ApplyCommit(r)
    /\ \/ Goto(r, "balance")
       \/ \E code \in Interrupted : Answer(r, code)
    /\ UNCHANGED <<now, users, req, ts, credit, balance>>

(* The steps of a request that leave the tables alone.                     *)
Local(r) ==
    \/ LookupUser(r) \/ ReadChallenge(r) \/ StartVoid(r) \/ BeginTx(r)
    \/ ClaimUpdate(r) \/ InsertEarning(r) \/ Rollback(r)
    \/ QueryBalance(r) \/ RecordMint(r) \/ FailBalance(r) \/ DropCredited(r)
    \/ \E code \in Interrupted : FailStatement(r, code) \/ FailInTransaction(r, code)
    \/ VoidUpdate(r) /\ ~VoidGuard(r)

(* Every step of Next is one of these kinds.                               *)
LEMMA NextCases ==
    ASSUME Next
    PROVE  \/ Tick
           \/ \E u \in Users : Session(u)
           \/ \E u \in Users, c \in Challenges : Issue(u, c)
           \/ \E r \in Requests, body \in Body : Receive(r, body)
           \/ \E r \in Requests : Local(r)
           \/ \E r \in Requests : Voids(r)
           \/ \E r \in Requests : Pays(r)
<1>1. ASSUME NEW r \in Requests, VoidUpdate(r)
      PROVE  Local(r) \/ Voids(r)
  BY <1>1 DEF VoidUpdate, Local, Voids, VoidGuard, VoidStatus, Replies, Voiding, Answer
<1>2. ASSUME NEW r \in Requests, Commit(r)
      PROVE  Pays(r)
  BY <1>2 DEF Commit, Pays
<1>3. ASSUME NEW r \in Requests, NEW code \in Interrupted, LoseVoidResult(r, code)
      PROVE  Voids(r)
  BY <1>3 DEF LoseVoidResult, Voids, VoidGuard, VoidStatus, Interrupted, Replies
<1>4. ASSUME NEW r \in Requests, NEW code \in Interrupted, LoseCommitResult(r, code)
      PROVE  Pays(r)
  BY <1>4 DEF LoseCommitResult, Pays
<1>5. ASSUME NEW r \in Requests, Handle(r)
      PROVE  Local(r) \/ Voids(r) \/ Pays(r)
  BY <1>1, <1>2, <1>5 DEF Handle, Local
<1>6. ASSUME NEW r \in Requests, Fault(r)
      PROVE  Local(r) \/ Voids(r) \/ Pays(r)
  BY <1>3, <1>4, <1>6 DEF Fault, Local
<1>7. QED
  BY <1>5, <1>6 DEF Next
-----------------------------------------------------------------------------
(* The balances.  Sums are over the earnings of a player, which are        *)
(* finitely many in every state, whatever the sets of users, challenges    *)
(* and requests.                                                           *)
EarnedBy(u) == {e \in earnings : e.user = u}

Amount(E) == [e \in E |-> e.amount]
AmountSum(E) == MapThenSumSet(LAMBDA e : e.amount, E)

(* A reward is a number.                                                   *)
LEMMA RewardNumber == \A x \in Rewards : x \in Nat /\ x \in Int
  BY RewardsAssumption

(* The fold of the balance query is a sum over a finite set.               *)
LEMMA AmountSumIsSum ==
    ASSUME NEW E, IsFiniteSet(E)
    PROVE  AmountSum(E) = SumFunctionOnSet(Amount(E), E)
<1> DEFINE Eq(g) == g = [s \in SUBSET E |->
                           IF s = {} THEN 0 ELSE Pick(s).amount + g[s \ {Pick(s)}]]
<1>1. AmountSum(E) = (CHOOSE g : Eq(g))[E]
  BY DEF AmountSum, MapThenSumSet, MapThenFoldSet, Pick
<1>2. \A s \in SUBSET E : s # {} => Amount(E)[Pick(s)] = Pick(s).amount
  BY PickMember DEF Amount
<1>3. \A g : Eq(g) <=> Solves(g, Amount(E), E)
  BY <1>2 DEF Solves
<1> HIDE DEF Eq
<1>4. PICK g : g = CHOOSE h : Eq(h)
  OBVIOUS
<1>5. Eq(g)
  BY <1>3, <1>4, SolutionExists
<1>6. g[E] = SumFunctionOnSet(Amount(E), E)
  BY <1>3, <1>5, SumOfSolution
<1> QED
  BY <1>1, <1>4, <1>6

(* A balance is a number, and not less than one of fewer earnings.         *)
LEMMA AmountSumGrows ==
    ASSUME NEW E \in SUBSET Earning, IsFiniteSet(E), NEW D \in SUBSET E
    PROVE  /\ AmountSum(D) \in Nat /\ AmountSum(D) <= AmountSum(E)
           /\ \A e \in D : e.amount \in Nat /\ e.amount <= AmountSum(D)
<1>1. IsFiniteSet(D)
  BY FS_Subset
<1>2. \A e \in E : e.amount \in Nat /\ e.amount \in Int
  <2>1. \A e \in E : e.amount \in Rewards
    BY DEF Earning
  <2> QED
    BY <2>1, RewardNumber
<1>3. /\ \A e \in E : Amount(E)[e] = e.amount
      /\ \A e \in D : Amount(D)[e] = e.amount
  BY DEF Amount
<1>4. AmountSum(D) = SumFunctionOnSet(Amount(D), D) /\ AmountSum(E) = SumFunctionOnSet(Amount(E), E)
  BY <1>1, AmountSumIsSum
<1>5. SumFunctionOnSet(Amount(D), D) \in Nat
  BY <1>1, <1>2, <1>3, SumType
<1>6. SumFunctionOnSet(Amount(D), D) = SumFunctionOnSet(Amount(E), D)
  BY <1>1, <1>2, <1>3, SumSame
<1>7. SumFunctionOnSet(Amount(E), D) <= SumFunctionOnSet(Amount(E), E)
  BY <1>2, <1>3, SumGrows
<1>8. \A e \in D : Amount(D)[e] <= SumFunctionOnSet(Amount(D), D)
  BY <1>1, <1>2, <1>3, SumTerm
<1> QED
  BY <1>2, <1>3, <1>4, <1>5, <1>6, <1>7, <1>8

(* The balance of a player is the sum over the player's earnings.          *)
LEMMA BalanceIsSum == \A u : BalanceOf(u) = AmountSum(EarnedBy(u))
  BY DEF BalanceOf, AmountSum, EarnedBy, MapThenSumSet, MapThenFoldSet

(* So it is a number.                                                      *)
LEMMA BalanceNumber ==
    ASSUME TypeOK, EarningsFinite, NEW u
    PROVE  BalanceOf(u) \in Nat
<1>1. EarnedBy(u) \in SUBSET Earning /\ IsFiniteSet(EarnedBy(u))
  BY FS_Subset DEF EarnedBy, TypeOK, EarningsFinite
<1> QED
  BY <1>1, AmountSumGrows, BalanceIsSum
-----------------------------------------------------------------------------
(* Every step keeps every variable in its type.                            *)
LEMMA TypeStep ==
    ASSUME IInv, Next
    PROVE  TypeOK'
<1> USE DEF IInv, TypeOK
<1>1. CASE Tick
  BY <1>1 DEF Tick, tables
<1>2. ASSUME NEW u \in Users, Session(u)
      PROVE  TypeOK'
  BY <1>2 DEF Session
<1>3. ASSUME NEW u \in Users, NEW c \in Challenges, Issue(u, c)
      PROVE  TypeOK'
  <2>1. PICK solution \in Answers, reward \in Rewards, skew \in Skews :
          rows' = [rows EXCEPT ![c] =
                     [user |-> u, solution |-> solution, reward |-> reward,
                      expiresAt |-> now + skew + Ttl,
                      status |-> "PENDING", resolvedAt |-> Never]]
    BY <1>3 DEF Issue
  <2>2. now + skew + Ttl \in Int
    BY ClockAssumption
  <2>3. rows' \in [Challenges -> Row \cup {NoRow}]
    BY <2>1, <2>2 DEF Row
  <2>4. QED
    BY <1>3, <2>3 DEF Issue
<1>4. ASSUME NEW r \in Requests, NEW body \in Body, Receive(r, body)
      PROVE  TypeOK'
  BY <1>4 DEF Receive, Goto, tables, Steps
<1>5. ASSUME NEW r \in Requests, Local(r)
      PROVE  TypeOK'
  <2>1. CASE LookupUser(r) \/ ReadChallenge(r) \/ StartVoid(r) \/ BeginTx(r)
    BY <1>5, <2>1 DEF LookupUser, ReadChallenge, StartVoid, BeginTx, Goto, Answer,
        tables, Steps, Connected, Voiding, Replies
  <2>2. CASE ClaimUpdate(r)
    <3>1. Chal(r) \in Challenges /\ Target(r) \in Row
      BY <2>2 DEF ClaimUpdate, ReadHolds, BodyRead, Body, Chal
    <3>2. Target(r).reward \in Rewards
      BY <3>1 DEF Row
    <3>3. credit' \in [Requests -> Rewards \cup {0}] /\ lock' \in [Challenges -> Requests \cup {None}]
      BY <2>2, <3>1, <3>2 DEF ClaimUpdate
    <3>4. QED
      BY <2>2, <3>3 DEF ClaimUpdate, Goto, tables, Steps, Connected, Replies
  <2>3. CASE InsertEarning(r) \/ Rollback(r)
    BY <1>5, <2>3 DEF InsertEarning, Rollback, Unlock, Goto, tables, Steps, Connected, Replies
  <2>4. CASE QueryBalance(r) \/ RecordMint(r) \/ FailBalance(r) \/ DropCredited(r)
    <3>1. BalanceOf(req[r].user) \in Nat
      BY BalanceNumber
    <3>2. balance' \in [Requests -> Nat]
      BY <2>4, <3>1 DEF QueryBalance, RecordMint, FailBalance, DropCredited
    <3>3. QED
      BY <2>4, <3>2 DEF QueryBalance, RecordMint, FailBalance, DropCredited, Goto, Answer,
          tables, Steps, Credited, Replies
  <2>5. ASSUME NEW code \in Interrupted, FailStatement(r, code) \/ FailInTransaction(r, code)
        PROVE  TypeOK'
    BY <2>5 DEF FailStatement, FailInTransaction, Answer, tables, Steps, Connected,
        Replies, Interrupted
  <2>6. CASE VoidUpdate(r) /\ ~VoidGuard(r)
    BY <2>6 DEF VoidUpdate, Answer, Steps, Replies
  <2>7. QED
    BY <1>5, <2>1, <2>2, <2>3, <2>4, <2>5, <2>6 DEF Local
<1>6. ASSUME NEW r \in Requests, Voids(r)
      PROVE  TypeOK'
  <2>1. req[r] \in Body /\ Target(r) \in Row
    BY <1>6 DEF Voids, BodyRead, ReadHolds, Voiding
  <2>2. rows' \in [Challenges -> Row \cup {NoRow}]
    BY <1>6, <2>1, ResolveEffect DEF Voids
  <2>3. QED
    BY <1>6, <2>2 DEF Voids, Answer, Steps
<1>7. ASSUME NEW r \in Requests, Pays(r)
      PROVE  TypeOK'
  <2>1. req[r] \in Body /\ Target(r) \in Row
    BY <1>7 DEF Pays, BodyRead, ReadHolds, InTx
  <2>2. rows' \in [Challenges -> Row \cup {NoRow}]
    BY <1>7, <2>1, ResolveEffect DEF Pays, ApplyCommit
  <2>3. credit[r] \in Rewards
    BY <1>7, <2>1 DEF Pays, ClaimHolds, InTx, Row
  <2>4. earnings' \subseteq Earning
    BY <1>7, <2>1, <2>3 DEF Pays, ApplyCommit, Earning, Body, Chal
  <2>5. QED
    BY <1>7, <2>2, <2>4 DEF Pays, ApplyCommit, Unlock, Goto, Answer, Steps, Credited,
        Replies, Interrupted
<1>8. QED
  BY <1>1, <1>2, <1>3, <1>4, <1>5, <1>6, <1>7, NextCases
-----------------------------------------------------------------------------
(* Only its own steps move a request, and a request that runs keeps its    *)
(* body.                                                                   *)
MovesOnly(r) ==
    \A q \in Requests :
        /\ q # r => /\ pc'[q] = pc[q] /\ ts'[q] = ts[q] /\ req'[q] = req[q]
                    /\ credit'[q] = credit[q] /\ reply'[q] = reply[q]
        /\ pc[q] # "idle" => req'[q] = req[q] /\ pc'[q] # "idle"

(* Every step moves one request at most and leaves the others as they are. *)
LEMMA Frame ==
    ASSUME IInv, Next
    PROVE  /\ \E r \in Requests \cup {None} : MovesOnly(r)
           /\ \A r \in Requests : Local(r) \/ Voids(r) \/ Pays(r) => MovesOnly(r)
           /\ \A r \in Requests, body \in Body : Receive(r, body) => MovesOnly(r)
<1> USE DEF IInv, TypeOK, MovesOnly
<1>1. Tick \/ (\E u \in Users : Session(u))
           \/ (\E u \in Users, c \in Challenges : Issue(u, c))
        => UNCHANGED <<pc, ts, reply, credit, req>>
  BY DEF Tick, Session, Issue, tables
<1>2. ASSUME NEW r \in Requests, NEW body \in Body, Receive(r, body)
      PROVE  MovesOnly(r)
  BY <1>2 DEF Receive, Goto
<1>3. ASSUME NEW r \in Requests, Local(r)
      PROVE  MovesOnly(r)
  <2>1. CASE LookupUser(r) \/ ReadChallenge(r) \/ StartVoid(r) \/ BeginTx(r)
    BY <2>1 DEF LookupUser, ReadChallenge, StartVoid, BeginTx, Goto, Answer
  <2>2. CASE ClaimUpdate(r) \/ InsertEarning(r) \/ Rollback(r)
    BY <2>2 DEF ClaimUpdate, InsertEarning, Rollback, Goto
  <2>3. CASE QueryBalance(r) \/ RecordMint(r) \/ FailBalance(r) \/ DropCredited(r)
    BY <2>3 DEF QueryBalance, RecordMint, FailBalance, DropCredited, Goto, Answer
  <2>4. ASSUME NEW code \in Interrupted, FailStatement(r, code) \/ FailInTransaction(r, code)
        PROVE  MovesOnly(r)
    BY <2>4 DEF FailStatement, FailInTransaction, Answer
  <2>5. CASE VoidUpdate(r)
    BY <2>5 DEF VoidUpdate, Answer
  <2>6. QED
    BY <1>3, <2>1, <2>2, <2>3, <2>4, <2>5 DEF Local
<1>4. ASSUME NEW r \in Requests, Voids(r) \/ Pays(r)
      PROVE  MovesOnly(r)
  BY <1>4 DEF Voids, Pays, Goto, Answer
<1>5. \E r \in Requests \cup {None} : MovesOnly(r)
  <2> HIDE DEF MovesOnly, IInv, TypeOK
  <2>1. ASSUME UNCHANGED <<pc, ts, reply, credit, req>>
        PROVE  MovesOnly(None)
    BY <2>1 DEF MovesOnly
  <2>2. QED
    BY <1>1, <1>2, <1>3, <1>4, <2>1, NextCases
<1>6. QED
  BY <1>2, <1>3, <1>4, <1>5

(* The columns a request decides on never change, nor does a resolved row. *)
LEMMA Immutable ==
    ASSUME IInv, Next, NEW c \in Challenges, rows[c] \in Row
    PROVE  /\ rows'[c] \in Row
           /\ rows'[c].user = rows[c].user
           /\ rows'[c].solution = rows[c].solution
           /\ rows'[c].reward = rows[c].reward
           /\ rows'[c].expiresAt = rows[c].expiresAt
           /\ rows[c].status # "PENDING" => rows'[c] = rows[c]
<1> USE DEF IInv
<1>1. CASE UNCHANGED rows
  BY <1>1
<1>2. ASSUME NEW u \in Users, NEW d \in Challenges, Issue(u, d)
      PROVE  rows'[c] = rows[c]
  <2>1. NoRow \notin Row
    BY DEF NoRow, Row
  <2>2. QED
    BY <1>2, <2>1 DEF Issue, TypeOK
<1>3. ASSUME NEW r \in Requests, NEW status \in {"CLAIMED", "EXPIRED"},
             Resolve(r, status), req[r] \in Body, Target(r) \in Row,
             Target(r).status = "PENDING"
      PROVE  /\ rows'[c] \in Row
             /\ rows'[c].user = rows[c].user
             /\ rows'[c].solution = rows[c].solution
             /\ rows'[c].reward = rows[c].reward
             /\ rows'[c].expiresAt = rows[c].expiresAt
             /\ rows[c].status # "PENDING" => rows'[c] = rows[c]
  <2>1. /\ rows'[Chal(r)] \in Row
        /\ rows'[Chal(r)] = [rows[Chal(r)] EXCEPT !.status = status, !.resolvedAt = ts[r]]
        /\ \A d \in Challenges : d # Chal(r) => rows'[d] = rows[d]
    BY <1>3, ResolveEffect
  <2>2. CASE c = Chal(r)
    BY <1>3, <2>1, <2>2 DEF Target, Row
  <2>3. QED
    BY <2>1, <2>2
<1>4. ASSUME NEW r \in Requests, Voids(r)
      PROVE  /\ Resolve(r, "EXPIRED") /\ req[r] \in Body
             /\ Target(r) \in Row /\ Target(r).status = "PENDING"
  BY <1>4 DEF Voids, BodyRead, ReadHolds, Voiding
<1>5. ASSUME NEW r \in Requests, Pays(r)
      PROVE  /\ Resolve(r, "CLAIMED") /\ req[r] \in Body
             /\ Target(r) \in Row /\ Target(r).status = "PENDING"
  BY <1>5 DEF Pays, ApplyCommit, BodyRead, ReadHolds, ClaimHolds, InTx
<1>6. ASSUME NEW r \in Requests, Local(r)
      PROVE  UNCHANGED rows
  BY <1>6 DEF Local, LookupUser, ReadChallenge, StartVoid, BeginTx, ClaimUpdate,
      InsertEarning, Rollback, QueryBalance, RecordMint, FailBalance, DropCredited,
      FailStatement, FailInTransaction, VoidUpdate, tables
<1>7. Tick \/ (\E u \in Users : Session(u))
        \/ (\E r \in Requests, body \in Body : Receive(r, body)) => UNCHANGED rows
  BY DEF Tick, Session, Receive, tables
<1>8. QED
  BY <1>1, <1>2, <1>3, <1>4, <1>5, <1>6, <1>7, NextCases
-----------------------------------------------------------------------------
(* A request that runs keeps its body (mint.rs:24-33).                     *)
LEMMA BodyStep ==
    ASSUME IInv, Next
    PROVE  BodyRead'
<1>1. ASSUME NEW r \in Requests, NEW body \in Body, Receive(r, body)
      PROVE  BodyRead'
  BY <1>1 DEF Receive, Goto, IInv, TypeOK, BodyRead
<1>2. ASSUME NEW r \in Requests, Local(r) \/ Voids(r) \/ Pays(r)
      PROVE  BodyRead'
  <2>1. pc[r] # "idle"
    BY <1>2 DEF Local, Voids, Pays, LookupUser, ReadChallenge, StartVoid, BeginTx,
        ClaimUpdate, InsertEarning, Rollback, QueryBalance, RecordMint, FailBalance,
        DropCredited, FailStatement, FailInTransaction, VoidUpdate, Voiding, Credited
  <2>2. MovesOnly(r)
    BY <1>2, Frame
  <2>3. QED
    BY <2>1, <2>2 DEF MovesOnly, IInv, BodyRead
<1>3. Tick \/ (\E u \in Users : Session(u))
           \/ (\E u \in Users, c \in Challenges : Issue(u, c))
        => BodyRead'
  BY DEF Tick, Session, Issue, tables, IInv, BodyRead
<1>4. QED
  BY <1>1, <1>2, <1>3, NextCases

(* A row's lock is taken when it is free and given back by its holder.     *)
LEMMA LockStep ==
    ASSUME IInv, Next
    PROVE  LockHeld'
<1> USE DEF IInv, TypeOK, LockHeld
<1>1. ASSUME NEW r \in Requests, NEW body \in Body, Receive(r, body)
      PROVE  LockHeld'
  BY <1>1 DEF Receive, Goto, InTx, Chal
<1>2. ASSUME NEW r \in Requests, ClaimUpdate(r)
      PROVE  LockHeld'
  <2>1. Chal(r) \in Challenges
    BY <1>2 DEF ClaimUpdate, BodyRead, Body, Chal
  <2>2. ASSUME NEW q \in Requests, q # r, pc[q] \in InTx
        PROVE  lock'[Chal(q)] = q
    <3>1. lock[Chal(q)] = q /\ lock[Chal(r)] = None /\ q # None
      BY <1>2, <2>2, NoneAssumption DEF ClaimUpdate, Unlocked
    <3>2. Chal(q) \in Challenges
      BY <2>2 DEF BodyRead, Body, Chal, InTx
    <3>3. QED
      BY <1>2, <3>1, <3>2 DEF ClaimUpdate
  <2>3. pc'[r] \in InTx => lock'[Chal(r)] = r
    BY <1>2, <2>1 DEF ClaimUpdate, InTx
  <2>4. QED
    BY <1>2, <2>2, <2>3 DEF ClaimUpdate, Goto, Chal
<1>3. ASSUME NEW r \in Requests, Rollback(r)
      PROVE  LockHeld'
  BY <1>3 DEF Rollback, Unlock, Goto, InTx, Chal, BodyRead, Body
<1>4. ASSUME NEW r \in Requests, Pays(r)
      PROVE  LockHeld'
  BY <1>4 DEF Pays, ApplyCommit, Unlock, Goto, Answer, InTx, Chal, BodyRead, Body
<1>5. ASSUME NEW r \in Requests, Voids(r)
      PROVE  LockHeld'
  BY <1>5 DEF Voids, Answer, InTx, Chal
<1>6. ASSUME NEW r \in Requests, Local(r), ~ClaimUpdate(r), ~Rollback(r)
      PROVE  LockHeld'
  <2>1. CASE LookupUser(r) \/ ReadChallenge(r) \/ StartVoid(r) \/ BeginTx(r)
    BY <2>1 DEF LookupUser, ReadChallenge, StartVoid, BeginTx, Goto, Answer, InTx, Chal
  <2>2. CASE InsertEarning(r)
    BY <2>2 DEF InsertEarning, Goto, InTx, Chal
  <2>3. CASE QueryBalance(r) \/ RecordMint(r) \/ FailBalance(r) \/ DropCredited(r)
    BY <2>3 DEF QueryBalance, RecordMint, FailBalance, DropCredited, Goto, Answer, InTx, Chal
  <2>4. ASSUME NEW code \in Interrupted, FailStatement(r, code) \/ FailInTransaction(r, code)
        PROVE  LockHeld'
    BY <2>4 DEF FailStatement, FailInTransaction, Answer, InTx, Chal
  <2>5. CASE VoidUpdate(r)
    BY <2>5 DEF VoidUpdate, Answer, InTx, Chal
  <2>6. QED
    BY <1>6, <2>1, <2>2, <2>3, <2>4, <2>5 DEF Local
<1>7. Tick \/ (\E u \in Users : Session(u))
           \/ (\E u \in Users, c \in Challenges : Issue(u, c))
        => LockHeld'
  BY DEF Tick, Session, Issue, tables, Chal
<1>8. QED
  BY <1>1, <1>2, <1>3, <1>4, <1>5, <1>6, <1>7, NextCases

(* Nobody touches the row of a transaction that holds its lock.            *)
LEMMA LockProtects ==
    ASSUME IInv, Next, NEW q \in Requests, pc[q] \in InTx, ~Pays(q)
    PROVE  rows'[Chal(q)] = rows[Chal(q)]
<1> USE DEF IInv
<1>1. Chal(q) \in Challenges /\ lock[Chal(q)] = q /\ Target(q) \in Row
  BY DEF LockHeld, BodyRead, InTx, Body, Chal, ReadHolds
<1>2. ASSUME NEW r \in Requests, Voids(r)
      PROVE  rows'[Chal(q)] = rows[Chal(q)]
  <2>1. Chal(r) # Chal(q)
    BY <1>1, <1>2, NoneAssumption DEF Voids, Unlocked
  <2>2. Resolve(r, "EXPIRED") /\ req[r] \in Body /\ Target(r) \in Row
    BY <1>2 DEF Voids, BodyRead, ReadHolds, Voiding
  <2>3. QED
    BY <1>1, <2>1, <2>2, ResolveEffect
<1>3. ASSUME NEW r \in Requests, Pays(r)
      PROVE  rows'[Chal(q)] = rows[Chal(q)]
  <2>1. lock[Chal(r)] = r /\ r # q
    BY <1>3 DEF Pays, LockHeld, InTx
  <2>2. Chal(r) # Chal(q)
    BY <1>1, <2>1
  <2>3. Resolve(r, "CLAIMED") /\ req[r] \in Body /\ Target(r) \in Row
    BY <1>3 DEF Pays, ApplyCommit, BodyRead, ReadHolds, InTx
  <2>4. QED
    BY <1>1, <2>2, <2>3, ResolveEffect
<1>4. ASSUME NEW u \in Users, NEW d \in Challenges, Issue(u, d)
      PROVE  rows'[Chal(q)] = rows[Chal(q)]
  <2>1. NoRow \notin Row
    BY DEF NoRow, Row
  <2>2. QED
    BY <1>1, <1>4, <2>1 DEF Issue, TypeOK, Target
<1>5. ASSUME NEW r \in Requests, Local(r)
      PROVE  rows' = rows
  BY <1>5 DEF Local, LookupUser, ReadChallenge, StartVoid, BeginTx, ClaimUpdate,
      InsertEarning, Rollback, QueryBalance, RecordMint, FailBalance, DropCredited,
      FailStatement, FailInTransaction, VoidUpdate, tables
<1>6. Tick \/ (\E u \in Users : Session(u))
        \/ (\E r \in Requests, body \in Body : Receive(r, body)) => rows' = rows
  BY DEF Tick, Session, Receive, tables
<1>7. QED
  BY <1>2, <1>3, <1>4, <1>5, <1>6, NextCases
-----------------------------------------------------------------------------
(* What ReadHolds says of one request.                                     *)
Reads(r) ==
    /\ pc[r] \in {"begin", "cas"} \cup InTx =>
          /\ Target(r) \in Row
          /\ Target(r).user = req[r].user
          /\ Target(r).solution = req[r].answer
    /\ pc[r] \in {"late", "wrong"} \cup Voiding =>
          /\ Target(r) \in Row
          /\ Target(r).user = req[r].user
    /\ pc[r] = "late" => Target(r).expiresAt <= now
    /\ pc[r] = "voidLate" => Target(r).expiresAt <= ts[r]
    /\ pc[r] \in {"wrong", "voidWrong"} => Target(r).solution # req[r].answer

(* A request that does not move keeps what it knows.                       *)
LEMMA ReadsStable ==
    ASSUME IInv, Next, NEW q \in Requests,
           pc'[q] = pc[q], ts'[q] = ts[q], pc[q] # "idle" => req'[q] = req[q]
    PROVE  Reads(q)'
<1> USE DEF IInv
<1>1. CASE pc[q] \in {"begin", "cas", "late", "wrong"} \cup InTx \cup Voiding
  <2>1. req'[q] = req[q] /\ Chal(q) \in Challenges /\ Target(q) \in Row
    BY <1>1 DEF BodyRead, Body, Chal, InTx, Voiding, ReadHolds
  <2>2. /\ Target(q)' \in Row
        /\ Target(q)'.user = Target(q).user
        /\ Target(q)'.solution = Target(q).solution
        /\ Target(q)'.expiresAt = Target(q).expiresAt
    BY <2>1, Immutable DEF Target, Chal
  <2>3. now <= now' /\ now \in Nat /\ now' \in Nat
    <3>1. now' = now \/ now' = now + 1
      BY NextCases DEF Tick, Session, Issue, Receive, Local, Voids, Pays, LookupUser,
          ReadChallenge, StartVoid, BeginTx, ClaimUpdate, InsertEarning, Rollback,
          QueryBalance, RecordMint, FailBalance, DropCredited, FailStatement,
          FailInTransaction, VoidUpdate
    <3>2. QED
      BY <3>1 DEF TypeOK
  <2>4. Target(q).expiresAt \in Int
    BY <2>1 DEF Row
  <2>5. QED
    BY <2>1, <2>2, <2>3, <2>4 DEF Reads, ReadHolds
<1>2. CASE pc[q] \notin {"begin", "cas", "late", "wrong"} \cup InTx \cup Voiding
  BY <1>2 DEF Reads, InTx, Voiding
<1>3. QED
  BY <1>1, <1>2

(* What a handler read stays true until it acts on it (mint.rs:57-134).    *)
LEMMA ReadStep ==
    ASSUME IInv, Next
    PROVE  ReadHolds'
<1> USE DEF IInv, TypeOK
<1>1. ASSUME NEW r \in Requests, MovesOnly(r), Reads(r)'
      PROVE  ReadHolds'
  <2>1. ASSUME NEW q \in Requests
        PROVE  Reads(q)'
    BY <1>1, ReadsStable DEF MovesOnly
  <2>2. QED
    BY <2>1 DEF Reads, ReadHolds
<1>2. ASSUME NEW r \in Requests, Local(r)
      PROVE  Reads(r)'
  <2>1. CASE ReadChallenge(r)
    <3>1. Chal(r) \in Challenges
      BY <2>1 DEF ReadChallenge, BodyRead, Body, Chal
    <3>2. UNCHANGED <<rows, req, now>>
      BY <2>1 DEF ReadChallenge, tables
    <3>3. CASE ~Own(r) \/ Target(r).status # "PENDING"
      <4>1. pc'[r] = "done"
        BY <2>1, <3>3 DEF ReadChallenge, Answer
      <4>2. QED
        BY <4>1 DEF Reads, InTx, Voiding
    <3>4. CASE Own(r) /\ Target(r).status = "PENDING"
      <4>1. Target(r) \in Row /\ Target(r).user = req[r].user
        BY <3>1, <3>4 DEF Own, Target
      <4>2. \/ pc'[r] = "late" /\ Target(r).expiresAt <= now
            \/ pc'[r] = "wrong" /\ req[r].answer # Target(r).solution
            \/ pc'[r] = "begin" /\ req[r].answer = Target(r).solution
        BY <2>1, <3>4 DEF ReadChallenge, Goto
      <4>3. QED
        BY <3>2, <4>1, <4>2 DEF Reads, Target, Chal, InTx, Voiding
    <3>5. QED
      BY <3>3, <3>4
  <2>2. CASE StartVoid(r)
    <3>1. UNCHANGED <<rows, req, now>> /\ ts'[r] = now
      BY <2>2 DEF StartVoid, tables
    <3>2. \/ pc[r] = "late" /\ pc'[r] = "voidLate"
          \/ pc[r] = "wrong" /\ pc'[r] = "voidWrong"
      BY <2>2 DEF StartVoid, Goto
    <3>3. QED
      BY <3>1, <3>2 DEF ReadHolds, Reads, Target, Chal, InTx, Voiding
  <2>3. CASE BeginTx(r) \/ ClaimUpdate(r) \/ InsertEarning(r)
    <3>1. UNCHANGED <<rows, req, now>>
      BY <2>3 DEF BeginTx, ClaimUpdate, InsertEarning, tables
    <3>2. \/ pc[r] = "begin" /\ pc'[r] = "cas"
          \/ pc[r] = "cas" /\ pc'[r] = "insert"
          \/ pc[r] = "insert" /\ pc'[r] = "commit"
          \/ pc'[r] = "rollback"
      BY <2>3 DEF BeginTx, ClaimUpdate, InsertEarning, Goto
    <3>3. QED
      BY <3>1, <3>2 DEF ReadHolds, Reads, Target, Chal, InTx, Voiding
  <2>4. ASSUME pc'[r] \in {"read", "rollback", "record", "done"}
        PROVE  Reads(r)'
    BY <2>4 DEF Reads, InTx, Voiding
  <2>5. CASE LookupUser(r) \/ Rollback(r) \/ QueryBalance(r) \/ RecordMint(r)
               \/ FailBalance(r) \/ DropCredited(r)
    BY <2>4, <2>5 DEF LookupUser, Rollback, QueryBalance, RecordMint, FailBalance,
        DropCredited, Goto, Answer
  <2>6. ASSUME NEW code \in Interrupted, FailStatement(r, code) \/ FailInTransaction(r, code)
        PROVE  Reads(r)'
    BY <2>4, <2>6 DEF FailStatement, FailInTransaction, Answer
  <2>7. CASE VoidUpdate(r)
    BY <2>4, <2>7 DEF VoidUpdate, Answer
  <2>8. QED
    BY <1>2, <2>1, <2>2, <2>3, <2>5, <2>6, <2>7 DEF Local
<1>3. ASSUME NEW r \in Requests, Voids(r) \/ Pays(r)
      PROVE  Reads(r)'
  <2>1. pc'[r] \in {"done", "balance"}
    BY <1>3 DEF Voids, Pays, Goto, Answer
  <2>2. QED
    BY <2>1 DEF Reads, InTx, Voiding
<1>4. ASSUME NEW r \in Requests, NEW body \in Body, Receive(r, body)
      PROVE  Reads(r)'
  <2>1. pc'[r] = "lookup"
    BY <1>4 DEF Receive, Goto
  <2>2. QED
    BY <2>1 DEF Reads, InTx, Voiding
<1>5. ASSUME UNCHANGED <<pc, ts, req>>
      PROVE  ReadHolds'
  <2>1. \A q \in Requests : Reads(q)'
    BY <1>5, ReadsStable
  <2>2. QED
    BY <2>1 DEF Reads, ReadHolds
<1>6. Tick \/ (\E u \in Users : Session(u))
           \/ (\E u \in Users, c \in Challenges : Issue(u, c))
        => UNCHANGED <<pc, ts, req>>
  BY DEF Tick, Session, Issue
<1>7. QED
  BY <1>1, <1>2, <1>3, <1>4, <1>5, <1>6, NextCases, Frame
-----------------------------------------------------------------------------
(* A transaction with the lock stays entitled to its claim (mint.rs:134).  *)
LEMMA ClaimStep ==
    ASSUME IInv, Next
    PROVE  ClaimHolds'
<1> USE DEF IInv, TypeOK
<1> SUFFICES ASSUME NEW q \in Requests, pc'[q] \in InTx
             PROVE  /\ Target(q)'.status = "PENDING"
                    /\ Target(q)'.expiresAt > ts'[q]
                    /\ credit'[q] = Target(q)'.reward
  BY DEF ClaimHolds
<1>1. CASE pc'[q] = pc[q] /\ ts'[q] = ts[q] /\ credit'[q] = credit[q]
             /\ (pc[q] # "idle" => req'[q] = req[q])
  <2>1. ~Pays(q)
    BY <1>1 DEF Pays, Goto, Answer, InTx
  <2>2. req'[q] = req[q] /\ rows'[Chal(q)] = rows[Chal(q)]
    BY <1>1, <2>1, LockProtects DEF InTx
  <2>3. QED
    BY <1>1, <2>2 DEF ClaimHolds, Target, Chal
<1>2. CASE ClaimUpdate(q)
  <2>1. ClaimGuard(q) /\ credit'[q] = Target(q).reward
    BY <1>2 DEF ClaimUpdate, InTx
  <2>2. UNCHANGED <<rows, req, ts>>
    BY <1>2 DEF ClaimUpdate, tables
  <2>3. QED
    BY <2>1, <2>2 DEF ClaimGuard, Target, Chal
<1>3. CASE InsertEarning(q)
  <2>1. UNCHANGED <<rows, req, ts, credit>>
    BY <1>3 DEF InsertEarning, tables
  <2>2. pc[q] \in InTx
    BY <1>3 DEF InsertEarning, InTx
  <2>3. QED
    BY <2>1, <2>2 DEF ClaimHolds, Target, Chal
<1>4. ASSUME NEW r \in Requests, MovesOnly(r), q # r
      PROVE  pc'[q] = pc[q] /\ ts'[q] = ts[q] /\ credit'[q] = credit[q]
               /\ (pc[q] # "idle" => req'[q] = req[q])
  BY <1>4 DEF MovesOnly
<1>5. ASSUME Local(q), ~ClaimUpdate(q), ~InsertEarning(q)
      PROVE  FALSE
  BY <1>5 DEF Local, LookupUser, ReadChallenge, StartVoid, BeginTx, Rollback,
      QueryBalance, RecordMint, FailBalance, DropCredited, FailStatement,
      FailInTransaction, VoidUpdate, Goto, Answer, InTx
<1>6. ~Voids(q) /\ ~Pays(q) /\ \A body \in Body : ~Receive(q, body)
  BY DEF Voids, Pays, Receive, Goto, Answer, InTx
<1>7. Tick \/ (\E u \in Users : Session(u))
           \/ (\E u \in Users, c \in Challenges : Issue(u, c))
        => UNCHANGED <<pc, ts, req, credit>>
  BY DEF Tick, Session, Issue
<1>8. QED
  BY <1>1, <1>2, <1>3, <1>4, <1>5, <1>6, <1>7, NextCases, Frame

(* A credited request only goes on to its answer, and keeps its reward.    *)
LEMMA CreditedStable ==
    ASSUME IInv, Next, NEW q \in Requests, pc[q] \in Credited \cup {"done"}
    PROVE  /\ pc'[q] \in Credited \cup {"done"}
           /\ req'[q] = req[q] /\ credit'[q] = credit[q]
           /\ pc[q] = "done" => pc'[q] = "done" /\ reply'[q] = reply[q]
<1> USE DEF IInv, TypeOK
<1>1. ASSUME NEW r \in Requests, MovesOnly(r), q # r
      PROVE  pc'[q] = pc[q] /\ reply'[q] = reply[q] /\ credit'[q] = credit[q] /\ req'[q] = req[q]
  BY <1>1 DEF MovesOnly
<1>2. CASE QueryBalance(q) \/ RecordMint(q) \/ FailBalance(q) \/ DropCredited(q)
  BY <1>2 DEF QueryBalance, RecordMint, FailBalance, DropCredited, Goto, Answer, Credited
<1>3. ~Voids(q) /\ ~Pays(q) /\ \A body \in Body : ~Receive(q, body)
  BY DEF Voids, Pays, Receive, Credited, Voiding
<1>4. ASSUME Local(q)
      PROVE  QueryBalance(q) \/ RecordMint(q) \/ FailBalance(q) \/ DropCredited(q)
  BY <1>4 DEF Local, LookupUser, ReadChallenge, StartVoid, BeginTx, ClaimUpdate,
      InsertEarning, Rollback, FailStatement, FailInTransaction, VoidUpdate,
      Credited, Voiding
<1>5. Tick \/ (\E u \in Users : Session(u))
           \/ (\E u \in Users, c \in Challenges : Issue(u, c))
        => UNCHANGED <<pc, reply, req, credit>>
  BY DEF Tick, Session, Issue
<1>6. QED
  BY <1>1, <1>2, <1>3, <1>4, <1>5, NextCases, Frame

(* Only a commit adds an earnings row.                                     *)
LEMMA EarningsStep ==
    ASSUME Next
    PROVE  \/ earnings' = earnings
           \/ \E r \in Requests : Pays(r)
<1>1. ASSUME NEW r \in Requests, Local(r)
      PROVE  earnings' = earnings
  BY <1>1 DEF Local, LookupUser, ReadChallenge, StartVoid, BeginTx, ClaimUpdate,
      InsertEarning, Rollback, QueryBalance, RecordMint, FailBalance, DropCredited,
      FailStatement, FailInTransaction, VoidUpdate, tables
<1>2. QED
  BY <1>1, NextCases DEF Tick, Session, Issue, Receive, Voids, tables

(* Every earnings row goes on naming the request that inserted it.         *)
LEMMA ProvenanceStep ==
    ASSUME IInv, Next
    PROVE  Provenance'
<1> USE DEF IInv
<1>1. ASSUME NEW e \in earnings
      PROVE  /\ pc'[e.id] \in Credited \cup {"done"}
             /\ e.challenge = Chal(e.id)'
             /\ e.amount = credit'[e.id]
  <2>1. e.id \in Requests
    BY DEF TypeOK, Earning
  <2>2. QED
    BY <2>1, CreditedStable DEF Provenance, Chal
<1>2. ASSUME NEW r \in Requests, Pays(r)
      PROVE  Provenance'
  <2> DEFINE paid == [id |-> r, user |-> req[r].user, challenge |-> Chal(r), amount |-> credit[r]]
  <2>1. earnings' = earnings \cup {paid}
    BY <1>2 DEF Pays, ApplyCommit
  <2>2. /\ paid.id = r /\ paid.challenge = Chal(r)' /\ paid.amount = credit'[r]
        /\ pc'[r] \in Credited \cup {"done"}
    BY <1>2 DEF Pays, Goto, Answer, Credited, Chal, TypeOK
  <2>3. ASSUME NEW q \in Requests, q # r
        PROVE  pc'[q] = pc[q]
    BY <1>2, <2>3, Frame DEF MovesOnly
  <2> HIDE DEF paid
  <2>4. QED
    BY <1>1, <2>1, <2>2, <2>3 DEF Provenance
<1>3. ASSUME NEW q \in Requests, pc'[q] \in Credited, ~Pays(q)
      PROVE  pc[q] \in Credited
  <2>1. ASSUME Local(q)
        PROVE  QueryBalance(q) \/ FailBalance(q)
    BY <1>3, <2>1 DEF Local, LookupUser, ReadChallenge, StartVoid, BeginTx, ClaimUpdate,
        InsertEarning, Rollback, RecordMint, DropCredited, FailStatement,
        FailInTransaction, VoidUpdate, Goto, Answer, Credited, TypeOK
  <2>2. QueryBalance(q) \/ FailBalance(q) => pc[q] \in Credited
    BY DEF QueryBalance, FailBalance, Credited
  <2>3. ~Voids(q) /\ \A body \in Body : ~Receive(q, body)
    BY <1>3 DEF Voids, Receive, Goto, Answer, Credited, TypeOK
  <2>4. ASSUME NEW r \in Requests, MovesOnly(r), q # r
        PROVE  pc'[q] = pc[q]
    BY <2>4 DEF MovesOnly
  <2>5. Tick \/ (\E u \in Users : Session(u))
             \/ (\E u \in Users, c \in Challenges : Issue(u, c))
          => pc' = pc
    BY DEF Tick, Session, Issue
  <2>6. QED
    BY <1>3, <2>1, <2>2, <2>3, <2>4, <2>5, NextCases, Frame
<1>4. ASSUME earnings' = earnings
      PROVE  Provenance'
  <2>1. ASSUME NEW q \in Requests, pc'[q] \in Credited
        PROVE  \E e \in earnings : e.id = q
    <3>1. ~Pays(q)
      <4>1. ASSUME Pays(q)
            PROVE  \E e \in earnings : e.id = q
        <5> DEFINE paid == [id |-> q, user |-> req[q].user, challenge |-> Chal(q),
                            amount |-> credit[q]]
        <5>1. paid \in earnings
          BY <1>4, <4>1 DEF Pays, ApplyCommit
        <5>2. paid.id = q
          OBVIOUS
        <5>3. QED
          BY <5>1, <5>2
      <4>2. pc[q] = "commit" => ~\E e \in earnings : e.id = q
        BY DEF Provenance, Credited
      <4>3. QED
        BY <4>1, <4>2 DEF Pays
    <3>2. QED
      BY <1>3, <2>1, <3>1 DEF Provenance
  <2>2. QED
    BY <1>1, <1>4, <2>1 DEF Provenance
<1>5. QED
  BY <1>2, <1>4, EarningsStep

(* One commit adds one row.                                                *)
LEMMA FiniteStep ==
    ASSUME IInv, Next
    PROVE  EarningsFinite' /\ earnings \subseteq earnings'
<1>1. ASSUME NEW r \in Requests, Pays(r)
      PROVE  \E e : earnings' = earnings \cup {e}
  BY <1>1 DEF Pays, ApplyCommit
<1>2. \E e : earnings' = earnings \cup {e} \/ earnings' = earnings
  BY <1>1, EarningsStep
<1> QED
  BY <1>2, FS_AddElement DEF IInv, EarningsFinite
-----------------------------------------------------------------------------
(* A decisive answer is given by the void that took effect, or by a credit *)
(* on its last step.                                                       *)
LEMMA ReplyStep ==
    ASSUME IInv, Next, NEW q \in Requests, Decisive(q)'
    PROVE  \/ reply'[q] = reply[q]
           \/ Voids(q) /\ reply'[q] \in {"expired", "incorrect"}
           \/ RecordMint(q) /\ reply'[q] = "claimed"
<1> USE DEF IInv, TypeOK
<1>1. ASSUME Local(q), ~RecordMint(q)
      PROVE  reply'[q] = reply[q]
  <2>1. CASE LookupUser(q) \/ ReadChallenge(q) \/ StartVoid(q) \/ BeginTx(q)
    BY <2>1 DEF LookupUser, ReadChallenge, StartVoid, BeginTx, Goto, Answer, Decisive
  <2>2. CASE ClaimUpdate(q) \/ InsertEarning(q) \/ Rollback(q)
    BY <2>2 DEF ClaimUpdate, InsertEarning, Rollback, Goto, Decisive
  <2>3. CASE QueryBalance(q) \/ FailBalance(q) \/ DropCredited(q)
    BY <2>3 DEF QueryBalance, FailBalance, DropCredited, Goto, Answer, Decisive
  <2>4. ASSUME NEW code \in Interrupted, FailStatement(q, code) \/ FailInTransaction(q, code)
        PROVE  reply'[q] = reply[q]
    BY <2>4 DEF FailStatement, FailInTransaction, Answer, Interrupted, Decisive
  <2>5. CASE VoidUpdate(q) /\ ~VoidGuard(q)
    BY <2>5 DEF VoidUpdate, Answer, Decisive
  <2>6. QED
    BY <1>1, <2>1, <2>2, <2>3, <2>4, <2>5 DEF Local
<1>2. RecordMint(q) => reply'[q] = "claimed"
  BY DEF RecordMint, Answer
<1>3. Voids(q) => reply'[q] \in {"expired", "incorrect"}
  BY DEF Voids, Answer, Replies, Decisive
<1>4. ASSUME Pays(q)
      PROVE  reply'[q] = reply[q]
  BY <1>4 DEF Pays, Goto, Answer, Interrupted, Decisive
<1>5. ASSUME NEW r \in Requests \cup {None}, MovesOnly(r), q # r
      PROVE  reply'[q] = reply[q]
  BY <1>5 DEF MovesOnly
<1>6. Tick \/ (\E u \in Users : Session(u))
           \/ (\E u \in Users, c \in Challenges : Issue(u, c))
           \/ (\E r \in Requests, body \in Body : Receive(r, body))
        => reply' = reply
  BY DEF Tick, Session, Issue, Receive, Goto
<1>7. QED
  BY <1>1, <1>2, <1>3, <1>4, <1>5, <1>6, NextCases, Frame

(* A decisive answer is the last thing a request does.                     *)
LEMMA AnswersStep ==
    ASSUME IInv, Next
    PROVE  AnswersFinal'
<1> SUFFICES ASSUME NEW q \in Requests, Decisive(q)'
             PROVE  pc'[q] = "done"
  BY DEF AnswersFinal
<1>1. CASE reply'[q] = reply[q]
  <2>1. pc[q] = "done"
    BY <1>1 DEF IInv, AnswersFinal, Decisive
  <2>2. QED
    BY <2>1, CreditedStable
<1>2. CASE Voids(q) \/ RecordMint(q)
  BY <1>2 DEF Voids, RecordMint, Answer, IInv, TypeOK
<1>3. QED
  BY <1>1, <1>2, ReplyStep

(* What a payment adds.                                                    *)
Paid(r) == [id |-> r, user |-> req[r].user, challenge |-> Chal(r), amount |-> credit[r]]

(* What a commit does to the tables (mint.rs:134-176).                     *)
LEMMA PaysEffect ==
    ASSUME IInv, NEW r \in Requests, Pays(r)
    PROVE  /\ earnings' = earnings \cup {Paid(r)}
           /\ Chal(r) \in Challenges /\ req[r] \in Body
           /\ Target(r) \in Row /\ Target(r).status = "PENDING"
           /\ req[r] = [user |-> Target(r).user, challenge |-> Chal(r),
                        answer |-> Target(r).solution]
           /\ req[r].user = Target(r).user /\ credit[r] = Target(r).reward
           /\ rows'[Chal(r)] = [rows[Chal(r)] EXCEPT !.status = "CLAIMED", !.resolvedAt = ts[r]]
           /\ ts[r] < Target(r).expiresAt /\ ts[r] \in Nat
           /\ \A c \in Challenges : c # Chal(r) => rows'[c] = rows[c]
<1> USE DEF IInv
<1>1. pc[r] \in InTx /\ Resolve(r, "CLAIMED") /\ earnings' = earnings \cup {Paid(r)}
  BY DEF Pays, ApplyCommit, InTx, Paid
<1>2. req[r] \in Body /\ Target(r) \in Row
  BY <1>1 DEF BodyRead, ReadHolds, InTx
<1>3. Target(r).user = req[r].user /\ Target(r).solution = req[r].answer
  BY <1>1 DEF ReadHolds
<1>4. Chal(r) \in Challenges
        /\ req[r] = [user |-> Target(r).user, challenge |-> Chal(r),
                     answer |-> Target(r).solution]
  BY <1>2, <1>3 DEF Body, Chal
<1>5. /\ Target(r).status = "PENDING" /\ credit[r] = Target(r).reward
      /\ ts[r] < Target(r).expiresAt /\ ts[r] \in Nat
  <2>1. Target(r).expiresAt > ts[r] /\ ts[r] \in Nat /\ Target(r).expiresAt \in Int
    BY <1>1, <1>2 DEF ClaimHolds, TypeOK, Row
  <2>2. QED
    BY <1>1, <2>1 DEF ClaimHolds
<1>6. QED
  BY <1>1, <1>2, <1>3, <1>4, <1>5, ResolveEffect

(* What an UPDATE to EXPIRED does to the tables (mint.rs:84, 103).         *)
LEMMA VoidsEffect ==
    ASSUME IInv, NEW r \in Requests, Voids(r)
    PROVE  /\ earnings' = earnings
           /\ Chal(r) \in Challenges /\ req[r] \in Body
           /\ Target(r) \in Row /\ Target(r).status = "PENDING"
           /\ Target(r).user = req[r].user
           /\ rows'[Chal(r)] = [rows[Chal(r)] EXCEPT !.status = "EXPIRED", !.resolvedAt = ts[r]]
           /\ \A c \in Challenges : c # Chal(r) => rows'[c] = rows[c]
<1> USE DEF IInv
<1>1. pc[r] \in Voiding /\ Resolve(r, "EXPIRED") /\ earnings' = earnings
        /\ Target(r).status = "PENDING"
  BY DEF Voids
<1>2. req[r] \in Body /\ Target(r) \in Row /\ Target(r).user = req[r].user
  BY <1>1 DEF BodyRead, ReadHolds, Voiding
<1>3. Chal(r) \in Challenges
  BY <1>2 DEF Body, Chal
<1>4. QED
  BY <1>1, <1>2, <1>3, ResolveEffect

(* A step issues, voids, pays, or leaves both tables alone.                *)
LEMMA TableStep ==
    ASSUME IInv, Next
    PROVE  \/ rows' = rows /\ earnings' = earnings
           \/ \E u \in Users, c \in Challenges : Issue(u, c)
           \/ \E r \in Requests : Voids(r)
           \/ \E r \in Requests : Pays(r)
<1>1. ASSUME NEW r \in Requests, Local(r)
      PROVE  rows' = rows /\ earnings' = earnings
  BY <1>1 DEF Local, LookupUser, ReadChallenge, StartVoid, BeginTx, ClaimUpdate,
      InsertEarning, Rollback, QueryBalance, RecordMint, FailBalance, DropCredited,
      FailStatement, FailInTransaction, VoidUpdate, tables
<1>2. QED
  BY <1>1, NextCases DEF Tick, Session, Receive, tables

(* What the INSERT of a challenge does to the tables (challenge.rs:57-73). *)
LEMMA IssueEffect ==
    ASSUME IInv, NEW u \in Users, NEW c \in Challenges, Issue(u, c)
    PROVE  /\ earnings' = earnings /\ rows[c] = NoRow
           /\ rows'[c].status = "PENDING"
           /\ \A d \in Challenges : d # c => rows'[d] = rows[d]
BY DEF Issue, IInv, TypeOK

(* No step makes the two tables disagree.                                  *)
LEMMA LedgerStep ==
    ASSUME IInv, Next
    PROVE  LedgerExact'
<1> USE DEF IInv
<1> DEFINE Exact(c) ==
      IF rows[c].status = "CLAIMED"
        THEN \E e \in earnings : /\ PaidFor(c) = {e}
                                 /\ e.user = rows[c].user
                                 /\ e.amount = rows[c].reward
        ELSE PaidFor(c) = {}
<1>1. ASSUME NEW c \in Challenges
      PROVE  Exact(c)
  BY DEF LedgerExact
<1> SUFFICES ASSUME NEW c \in Challenges
             PROVE  Exact(c)'
  BY DEF LedgerExact
<1>2. ASSUME rows'[c] = rows[c], PaidFor(c)' = PaidFor(c), earnings \subseteq earnings'
      PROVE  Exact(c)'
  BY <1>1, <1>2
<1>3. CASE rows' = rows /\ earnings' = earnings
  BY <1>2, <1>3 DEF PaidFor
<1>4. ASSUME NEW u \in Users, NEW d \in Challenges, Issue(u, d)
      PROVE  Exact(c)'
  <2>1. PaidFor(c)' = PaidFor(c) /\ earnings' = earnings
    BY <1>4, IssueEffect DEF PaidFor
  <2>2. CASE c = d
    <3>1. rows[c].status # "CLAIMED" /\ rows'[c].status # "CLAIMED"
      BY <1>4, <2>2, IssueEffect DEF NoRow
    <3>2. QED
      BY <1>1, <2>1, <3>1
  <2>3. QED
    BY <1>2, <1>4, <2>1, <2>2, IssueEffect
<1>5. ASSUME NEW r \in Requests, Voids(r)
      PROVE  Exact(c)'
  <2>1. PaidFor(c)' = PaidFor(c) /\ earnings' = earnings
    BY <1>5, VoidsEffect DEF PaidFor
  <2>2. CASE c = Chal(r)
    <3>1. rows[c].status = "PENDING"
      BY <1>5, <2>2, VoidsEffect DEF Target
    <3>2. rows'[c] = [rows[c] EXCEPT !.status = "EXPIRED", !.resolvedAt = ts[r]] /\ rows[c] \in Row
      BY <1>5, <2>2, VoidsEffect DEF Target
    <3>3. rows'[c].status = "EXPIRED"
      BY <3>2 DEF Row
    <3>4. QED
      BY <1>1, <2>1, <3>1, <3>3
  <2>3. QED
    BY <1>2, <1>5, <2>1, <2>2, VoidsEffect
<1>6. ASSUME NEW r \in Requests, Pays(r)
      PROVE  Exact(c)'
  <2>1. earnings' = earnings \cup {Paid(r)}
    BY <1>6, PaysEffect
  <2>2. Paid(r).challenge = Chal(r) /\ Paid(r).user = req[r].user /\ Paid(r).amount = credit[r]
    BY DEF Paid
  <2>3. CASE c = Chal(r)
    <3>1. rows[c] \in Row /\ rows[c].status = "PENDING"
            /\ rows'[c] = [rows[c] EXCEPT !.status = "CLAIMED", !.resolvedAt = ts[r]]
            /\ req[r].user = rows[c].user /\ credit[r] = rows[c].reward
      BY <1>6, <2>3, PaysEffect DEF Target
    <3>2. rows'[c].status = "CLAIMED" /\ rows'[c].user = rows[c].user
            /\ rows'[c].reward = rows[c].reward
      BY <3>1 DEF Row
    <3>3. PaidFor(c) = {}
      BY <1>1, <3>1
    <3>4. PaidFor(c)' = {Paid(r)}
      <4>1. \A e \in earnings : e.challenge # c
        BY <3>3 DEF PaidFor
      <4>2. \A e \in earnings' : e.challenge = c <=> e = Paid(r)
        BY <2>1, <2>2, <2>3, <4>1
      <4>3. PaidFor(c)' = {e \in earnings' : e.challenge = c} /\ Paid(r) \in earnings'
        BY <2>1 DEF PaidFor
      <4>4. QED
        BY <4>2, <4>3
    <3>5. QED
      BY <2>1, <2>2, <3>1, <3>2, <3>4
  <2>4. CASE c # Chal(r)
    <3>1. PaidFor(c)' = PaidFor(c)
      BY <2>1, <2>2, <2>4 DEF PaidFor
    <3>2. rows'[c] = rows[c]
      BY <1>6, <2>4, PaysEffect
    <3>3. QED
      BY <1>2, <2>1, <3>1, <3>2
  <2>5. QED
    BY <2>3, <2>4
<1>7. QED
  BY <1>3, <1>4, <1>5, <1>6, TableStep
-----------------------------------------------------------------------------
(* No step resolves a challenge without a cause.                           *)
LEMMA CauseStep ==
    ASSUME IInv, Next
    PROVE  ResolvedForCause'
<1> USE DEF IInv
<1> DEFINE Claim(c) == rows[c].status = "CLAIMED" =>
                          /\ rows[c].resolvedAt < rows[c].expiresAt
                          /\ \E e \in earnings :
                                /\ e.challenge = c
                                /\ req[e.id] = [user |-> rows[c].user, challenge |-> c,
                                               answer |-> rows[c].solution]
           Expiry(c) == rows[c].status = "EXPIRED" =>
                          \/ rows[c].resolvedAt >= rows[c].expiresAt
                          \/ \E r \in Requests : /\ pc[r] = "done"
                                                 /\ Chal(r) = c
                                                 /\ req[r].user = rows[c].user
                                                 /\ req[r].answer # rows[c].solution
<1>1. ASSUME NEW c \in Challenges
      PROVE  Claim(c) /\ Expiry(c)
  BY DEF ResolvedForCause
<1> SUFFICES ASSUME NEW c \in Challenges
             PROVE  Claim(c)' /\ Expiry(c)'
  BY DEF ResolvedForCause
<1>2. ASSUME rows'[c] = rows[c]
      PROVE  Claim(c)' /\ Expiry(c)'
  <2>1. ASSUME NEW e \in earnings
        PROVE  e \in earnings' /\ req'[e.id] = req[e.id]
    <3>1. e.id \in Requests /\ pc[e.id] \in Credited \cup {"done"}
      BY DEF TypeOK, Earning, Provenance
    <3>2. req'[e.id] = req[e.id]
      BY <3>1, CreditedStable
    <3>3. QED
      BY <3>2, EarningsStep, PaysEffect
  <2>2. Claim(c)'
    BY <1>1, <1>2, <2>1
  <2>3. ASSUME NEW r \in Requests, pc[r] = "done"
        PROVE  pc'[r] = "done" /\ req'[r] = req[r] /\ Chal(r)' = Chal(r)
    BY <2>3, CreditedStable DEF Chal
  <2>4. CASE rows[c].status = "EXPIRED" /\ ~(rows[c].resolvedAt >= rows[c].expiresAt)
    <3>1. PICK r \in Requests : /\ pc[r] = "done" /\ Chal(r) = c
                                /\ req[r].user = rows[c].user
                                /\ req[r].answer # rows[c].solution
      BY <1>1, <2>4
    <3>2. /\ pc'[r] = "done" /\ Chal(r)' = c
          /\ req'[r].user = rows'[c].user /\ req'[r].answer # rows'[c].solution
      BY <1>2, <2>3, <3>1
    <3>3. QED
      BY <2>2, <3>2
  <2>5. CASE ~(rows[c].status = "EXPIRED" /\ ~(rows[c].resolvedAt >= rows[c].expiresAt))
    BY <1>2, <2>2, <2>5
  <2>6. QED
    BY <2>4, <2>5
<1>3. ASSUME NEW u \in Users, NEW d \in Challenges, Issue(u, d)
      PROVE  Claim(c)' /\ Expiry(c)'
  <2>1. CASE c = d
    <3>1. rows'[c].status = "PENDING"
      BY <1>3, <2>1, IssueEffect
    <3>2. QED
      BY <3>1
  <2>2. QED
    BY <1>2, <1>3, <2>1, IssueEffect
<1>4. ASSUME NEW r \in Requests, Voids(r), c = Chal(r)
      PROVE  Claim(c)' /\ Expiry(c)'
  <2>1. rows[c] \in Row /\ rows'[c] = [rows[c] EXCEPT !.status = "EXPIRED", !.resolvedAt = ts[r]]
    BY <1>4, VoidsEffect DEF Target
  <2>2. /\ rows'[c].status = "EXPIRED" /\ rows'[c].resolvedAt = ts[r]
        /\ rows'[c].user = rows[c].user /\ rows'[c].solution = rows[c].solution
        /\ rows'[c].expiresAt = rows[c].expiresAt
    BY <2>1 DEF Row
  <2>3. CASE pc[r] = "voidLate"
    <3>1. rows[c].expiresAt <= ts[r] /\ ts[r] \in Nat /\ rows[c].expiresAt \in Int
      BY <1>4, <2>1, <2>3 DEF ReadHolds, Target, TypeOK, Row
    <3>2. rows'[c].resolvedAt >= rows'[c].expiresAt
      BY <2>2, <3>1
    <3>3. QED
      BY <2>2, <3>2
  <2>4. CASE pc[r] = "voidWrong"
    <3>1. pc'[r] = "done" /\ req'[r] = req[r]
      BY <1>4 DEF Voids, Answer, TypeOK
    <3>2. req[r].user = rows[c].user /\ req[r].answer # rows[c].solution
      BY <1>4, <2>4, VoidsEffect DEF ReadHolds, Target, Voiding
    <3>3. QED
      BY <1>4, <2>2, <3>1, <3>2 DEF Chal
  <2>5. QED
    BY <1>4, <2>3, <2>4 DEF Voids, Voiding
<1>5. ASSUME NEW r \in Requests, Pays(r), c = Chal(r)
      PROVE  Claim(c)' /\ Expiry(c)'
  <2>1. /\ rows[c] \in Row /\ rows'[c] = [rows[c] EXCEPT !.status = "CLAIMED", !.resolvedAt = ts[r]]
        /\ ts[r] < rows[c].expiresAt /\ Paid(r) \in earnings'
        /\ req[r] = [user |-> rows[c].user, challenge |-> c, answer |-> rows[c].solution]
    BY <1>5, PaysEffect DEF Target
  <2>2. /\ rows'[c].status = "CLAIMED" /\ rows'[c].resolvedAt = ts[r]
        /\ rows'[c].user = rows[c].user /\ rows'[c].solution = rows[c].solution
        /\ rows'[c].expiresAt = rows[c].expiresAt
    BY <2>1 DEF Row
  <2>3. Paid(r).challenge = c /\ Paid(r).id = r /\ req' = req
    BY <1>5 DEF Paid, Pays
  <2>4. QED
    BY <2>1, <2>2, <2>3
<1>6. QED
  BY <1>2, <1>3, <1>4, <1>5, TableStep, VoidsEffect, PaysEffect
-----------------------------------------------------------------------------
(* What each kind of decisive answer means for the tables.                 *)
Backed(r) ==
    /\ reply[r] = "claimed" =>
          \E e \in earnings : e.id = r /\ e.challenge = Chal(r) /\ e.amount = credit[r]
    /\ reply[r] \in {"expired", "incorrect"} => Target(r).status = "EXPIRED"

(* What a request was told stays true.                                     *)
LEMMA BackedStep ==
    ASSUME IInv, Next, NEW q \in Requests
    PROVE  Backed(q)'
<1> USE DEF IInv
<1> SUFFICES ASSUME Decisive(q)'
             PROVE  Backed(q)'
  BY DEF Backed, Decisive
<1>1. \A e \in earnings : e \in earnings'
  BY EarningsStep, PaysEffect
<1>2. CASE reply'[q] = reply[q]
  <2>1. pc[q] = "done" /\ Backed(q)
    BY <1>2 DEF AnswersFinal, Decisive, OneWinner, Backed
  <2>2. req'[q] = req[q] /\ credit'[q] = credit[q] /\ Chal(q)' = Chal(q) /\ Chal(q) \in Challenges
    BY <2>1, CreditedStable DEF Chal, BodyRead, Body
  <2>3. CASE reply[q] = "claimed"
    BY <1>1, <1>2, <2>1, <2>2, <2>3 DEF Backed
  <2>4. CASE reply[q] \in {"expired", "incorrect"}
    <3>1. rows[Chal(q)].status = "EXPIRED"
      BY <2>1, <2>4 DEF Backed, Target
    <3>2. rows[Chal(q)] \in Row
      BY <2>2, <3>1 DEF TypeOK, NoRow
    <3>3. rows'[Chal(q)] = rows[Chal(q)]
      BY <2>2, <3>1, <3>2, Immutable
    <3>4. QED
      BY <1>2, <2>2, <2>4, <3>1, <3>3 DEF Backed, Target
  <2>5. QED
    BY <1>2, <2>3, <2>4 DEF Decisive
<1>3. CASE Voids(q) /\ reply'[q] \in {"expired", "incorrect"}
  <2>1. rows[Chal(q)] \in Row
          /\ rows'[Chal(q)] = [rows[Chal(q)] EXCEPT !.status = "EXPIRED", !.resolvedAt = ts[q]]
    BY <1>3, VoidsEffect DEF Target
  <2>2. Chal(q)' = Chal(q)
    BY <1>3 DEF Voids, Chal
  <2>3. rows'[Chal(q)].status = "EXPIRED"
    BY <2>1 DEF Row
  <2>4. QED
    BY <1>3, <2>2, <2>3 DEF Backed, Target
<1>4. CASE RecordMint(q) /\ reply'[q] = "claimed"
  <2>1. pc[q] \in Credited /\ UNCHANGED <<req, credit, earnings>>
    BY <1>4 DEF RecordMint, Credited, tables
  <2>2. PICK e \in earnings : e.id = q
    BY <2>1 DEF Provenance
  <2>3. e.challenge = Chal(q) /\ e.amount = credit[q]
    BY <2>2 DEF Provenance
  <2>4. QED
    BY <1>4, <2>1, <2>2, <2>3 DEF Backed, Chal
<1>5. QED
  BY <1>2, <1>3, <1>4, ReplyStep

(* No step makes a second winner.                                          *)
LEMMA WinnerStep ==
    ASSUME IInv, Next
    PROVE  OneWinner'
<1> USE DEF IInv
<1>1. \A r \in Requests : Backed(r)'
  BY BackedStep
<1>2. LedgerExact'
  BY LedgerStep
<1>3. ASSUME NEW c \in Challenges, NEW q \in Requests, NEW r \in Requests,
             Decisive(q)', Decisive(r)', Chal(q)' = c, Chal(r)' = c, q # r
      PROVE  FALSE
  <2>1. ASSUME NEW s \in Requests, reply'[s] = "claimed", Chal(s)' = c
        PROVE  rows'[c].status = "CLAIMED" /\ \E e \in earnings' : e.id = s /\ e \in PaidFor(c)'
    <3>1. PICK e \in earnings' : e.id = s /\ e.challenge = c
      BY <1>1, <2>1 DEF Backed
    <3>2. e \in PaidFor(c)'
      BY <3>1 DEF PaidFor
    <3>3. rows'[c].status = "CLAIMED"
      BY <1>2, <3>2 DEF LedgerExact
    <3>4. QED
      BY <3>1, <3>2, <3>3
  <2>2. ASSUME NEW s \in Requests, reply'[s] \in {"expired", "incorrect"}, Chal(s)' = c
        PROVE  rows'[c].status = "EXPIRED"
    BY <1>1, <2>2 DEF Backed, Target
  <2>3. CASE reply'[q] = "claimed" /\ reply'[r] = "claimed"
    <3>1. rows'[c].status = "CLAIMED"
      BY <1>3, <2>1, <2>3
    <3>2. PICK e \in earnings' : PaidFor(c)' = {e}
      BY <1>2, <3>1 DEF LedgerExact
    <3>3. QED
      BY <1>3, <2>1, <2>3, <3>2
  <2>4. CASE reply'[q] \in {"expired", "incorrect"} /\ reply'[r] \in {"expired", "incorrect"}
    <3>1. ASSUME NEW s \in Requests, NEW t \in Requests, s # t, Voids(s),
                 Chal(s)' = c, Chal(t)' = c, reply'[t] \in {"expired", "incorrect"}
          PROVE  FALSE
      <4>1. req' = req /\ reply'[t] = reply[t]
        BY <3>1 DEF Voids, Answer, TypeOK
      <4>2. Target(t).status = "EXPIRED" /\ Target(s).status = "PENDING"
        BY <3>1, <4>1, VoidsEffect DEF OneWinner
      <4>3. QED
        BY <3>1, <4>1, <4>2 DEF Target, Chal
    <3>2. reply'[q] = reply[q] /\ reply'[r] = reply[r]
      BY <1>3, <2>4, <3>1, ReplyStep
    <3>3. pc[q] = "done" /\ pc[r] = "done" /\ Decisive(q) /\ Decisive(r)
      BY <2>4, <3>2 DEF AnswersFinal, Decisive
    <3>4. Chal(q) = c /\ Chal(r) = c
      BY <1>3, <3>3, CreditedStable DEF Chal
    <3>5. QED
      BY <1>3, <3>3, <3>4 DEF OneWinner
  <2>5. QED
    BY <1>3, <2>1, <2>2, <2>3, <2>4 DEF Decisive
<1>4. ASSUME NEW q \in Requests, Decisive(q)'
      PROVE  Chal(q)' \in Challenges
  <2>1. pc'[q] = "done"
    BY <1>4, AnswersStep DEF AnswersFinal
  <2>2. QED
    BY <2>1, BodyStep DEF BodyRead, Body, Chal
<1>5. QED
  BY <1>1, <1>3, <1>4 DEF OneWinner, Backed
-----------------------------------------------------------------------------
(* The tables start empty and no request runs.                             *)
LEMMA InitIInv == Init => IInv
<1> SUFFICES ASSUME Init
             PROVE  IInv
  OBVIOUS
<1> USE DEF Init
<1>1. TypeOK /\ EarningsFinite
  BY FS_EmptySet DEF TypeOK, Steps, Replies, Earning, EarningsFinite
<1>2. BodyRead /\ LockHeld /\ ReadHolds /\ ClaimHolds /\ Provenance
  BY DEF BodyRead, LockHeld, ReadHolds, ClaimHolds, Provenance, InTx, Voiding, Credited
<1>3. AnswersFinal /\ OneWinner
  BY DEF AnswersFinal, OneWinner, Decisive
<1>4. LedgerExact /\ ResolvedForCause
  BY DEF LedgerExact, ResolvedForCause, PaidFor, NoRow
<1>5. QED
  BY <1>1, <1>2, <1>3, <1>4 DEF IInv

(* Every step keeps the inductive invariant.                               *)
LEMMA NextIInv == IInv /\ [Next]_vars => IInv'
<1>1. ASSUME IInv, Next
      PROVE  IInv'
  BY <1>1, TypeStep, FiniteStep, BodyStep, LockStep, ReadStep, ClaimStep, ProvenanceStep,
      AnswersStep, LedgerStep, CauseStep, WinnerStep DEF IInv
<1>2. ASSUME IInv, UNCHANGED vars
      PROVE  IInv'
  BY <1>2 DEF vars, IInv, TypeOK, EarningsFinite, BodyRead, LockHeld, ReadHolds, ClaimHolds, Provenance,
      AnswersFinal, LedgerExact, ResolvedForCause, OneWinner, Decisive, PaidFor, Target, Chal
<1>3. QED
  BY <1>1, <1>2

(* The inductive invariant holds in every state of the mint.               *)
THEOREM Inductive == Spec => []IInv
BY InitIInv, NextIInv, PTL DEF Spec

(* Every variable keeps its type.                                          *)
THEOREM MintTypeOK == Spec => []TypeOK
<1>1. IInv => TypeOK
  BY DEF IInv
<1>2. QED
  BY <1>1, Inductive, PTL

(* However many requests race and whatever fails, the challenges and the   *)
(* earnings tables agree: one row per claimed challenge (mint.rs 134-176). *)
THEOREM MintLedgerExact == Spec => []LedgerExact
<1>1. IInv => LedgerExact
  BY DEF IInv
<1>2. QED
  BY <1>1, Inductive, PTL

(* The row lock and the compare-and-set alone prevent double credits: no   *)
(* INSERT ever meets UNIQUE(challenge_id) (mint.rs:134-137, 159-171;       *)
(* 003_earnings.sql:6).                                                    *)
THEOREM MintUniqueNeverNeeded == Spec => []UniqueNeverNeeded
<1>1. IInv => UniqueNeverNeeded
  <2> SUFFICES ASSUME IInv, NEW r \in Requests, pc[r] = "insert"
               PROVE  ~CreditExists(r)
    BY DEF UniqueNeverNeeded
  <2>1. Target(r).status = "PENDING" /\ Chal(r) \in Challenges
    BY DEF IInv, ClaimHolds, BodyRead, Body, Chal, InTx
  <2>2. PaidFor(Chal(r)) = {}
    BY <2>1 DEF IInv, LedgerExact, Target
  <2>3. QED
    BY <2>2 DEF CreditExists, PaidFor
<1>2. QED
  BY <1>1, Inductive, PTL

(* At most one request per challenge is told that it resolved it, and what *)
(* it is told is what the tables hold (mint.rs:95-118, 134-157, 210).      *)
THEOREM MintOneWinner == Spec => []OneWinner
<1>1. IInv => OneWinner
  BY DEF IInv
<1>2. QED
  BY <1>1, Inductive, PTL

(* Claims are on time and right, and early expiries are the owner's wrong  *)
(* answers (mint.rs:57-134).                                               *)
THEOREM MintResolvedForCause == Spec => []ResolvedForCause
<1>1. IInv => ResolvedForCause
  BY DEF IInv
<1>2. QED
  BY <1>1, Inductive, PTL
-----------------------------------------------------------------------------
(* The refinement: a step of the mint is a step of the ledger or none.     *)
LEMMA LedgerInit == Init => TheLedger!Init
BY DEF Init, TheLedger!Init, TheLedger!Unissued, Book, Credits

(* A challenge that is inserted is issued in the ledger.                   *)
LEMMA IssueRefines ==
    ASSUME IInv, NEW u \in Users, NEW c \in Challenges, Issue(u, c)
    PROVE  TheLedger!Next
<1>1. PICK solution \in Answers, reward \in Rewards, skew \in Skews :
          rows' = [rows EXCEPT ![c] =
                     [user |-> u, solution |-> solution, reward |-> reward,
                      expiresAt |-> now + skew + Ttl,
                      status |-> "PENDING", resolvedAt |-> Never]]
  BY DEF Issue
<1>2. rows[c] = NoRow /\ earnings' = earnings
  BY DEF Issue
<1>3. rows'[c] # NoRow /\ rows'[c].user = u /\ rows'[c].reward = reward
        /\ rows'[c].status = "PENDING"
  BY <1>1 DEF NoRow, IInv, TypeOK
<1>4. \A d \in Challenges : d # c => rows'[d] = rows[d]
  BY <1>1 DEF IInv, TypeOK
<1>5. Book[c] = TheLedger!Unissued
  BY <1>2 DEF Book, TheLedger!Unissued
<1>6. Book' = [Book EXCEPT ![c] = [owner |-> u, reward |-> reward, outcome |-> "open"]]
  BY <1>3, <1>4 DEF Book, Outcome
<1>7. Credits' = Credits
  BY <1>2 DEF Credits
<1>8. TheLedger!Issue(c, u, reward)
  BY <1>5, <1>6, <1>7 DEF TheLedger!Issue
<1>9. QED
  BY <1>8 DEF TheLedger!Next

(* A resolution of an open entry, seen through the mapping.                *)
LEMMA ResolveRefines ==
    ASSUME NEW c \in Challenges, rows[c] \in Row, rows[c].status = "PENDING",
           NEW status \in {"CLAIMED", "EXPIRED"}, NEW t,
           rows'[c] = [rows[c] EXCEPT !.status = status, !.resolvedAt = t],
           \A d \in Challenges : d # c => rows'[d] = rows[d]
    PROVE  /\ Book[c] = [owner |-> rows[c].user, reward |-> rows[c].reward, outcome |-> "open"]
           /\ Book' = [Book EXCEPT ![c].outcome = Outcome(status)]
<1>1. rows[c] # NoRow
  BY DEF NoRow
<1>2. /\ rows'[c].status = status /\ rows'[c].user = rows[c].user
      /\ rows'[c].reward = rows[c].reward /\ rows'[c] # NoRow
  BY DEF Row, NoRow
<1>3. Book[c] = [owner |-> rows[c].user, reward |-> rows[c].reward, outcome |-> "open"]
  BY <1>1 DEF Book, Outcome
<1>4. Book'[c] = [owner |-> rows[c].user, reward |-> rows[c].reward, outcome |-> Outcome(status)]
  BY <1>2 DEF Book
<1>5. \A d \in Challenges : d # c => Book'[d] = Book[d]
  BY DEF Book
<1>6. Book' = [d \in Challenges |-> Book'[d]] /\ Book = [d \in Challenges |-> Book[d]]
  BY DEF Book
<1>7. QED
  BY <1>3, <1>4, <1>5, <1>6

(* Every step of the mint is one of the ledger, or invisible there.        *)
LEMMA LedgerNext ==
    IInv /\ [Next]_vars => [TheLedger!Next]_(TheLedger!ledgerVars)
<1>1. ASSUME IInv, NEW r \in Requests, Voids(r)
      PROVE  TheLedger!Next
  <2>1. Chal(r) \in Challenges /\ Credits' = Credits
    BY <1>1, VoidsEffect DEF Credits
  <2>2. /\ Book[Chal(r)].outcome = "open"
        /\ Book' = [Book EXCEPT ![Chal(r)].outcome = "void"]
    <3>1. Book[Chal(r)] = [owner |-> Target(r).user, reward |-> Target(r).reward,
                           outcome |-> "open"]
            /\ Book' = [Book EXCEPT ![Chal(r)].outcome = Outcome("EXPIRED")]
      BY <1>1, VoidsEffect, ResolveRefines DEF Target
    <3>2. QED
      BY <3>1 DEF Outcome
  <2>3. TheLedger!Void(Chal(r))
    BY <2>1, <2>2 DEF TheLedger!Void
  <2>4. QED
    BY <2>1, <2>3 DEF TheLedger!Next
<1>2. ASSUME IInv, NEW r \in Requests, Pays(r)
      PROVE  TheLedger!Next
  <2>1. Chal(r) \in Challenges /\ earnings' = earnings \cup {Paid(r)}
          /\ req[r].user = Target(r).user /\ credit[r] = Target(r).reward
    BY <1>2, PaysEffect
  <2>2. /\ Book[Chal(r)] = [owner |-> Target(r).user, reward |-> Target(r).reward,
                            outcome |-> "open"]
        /\ Book' = [Book EXCEPT ![Chal(r)].outcome = "credited"]
    BY <1>2, PaysEffect, ResolveRefines DEF Target, Outcome
  <2>3. Credits' = Credits \cup {[challenge |-> Chal(r), user |-> Target(r).user,
                                  amount |-> Target(r).reward]}
    <3> DEFINE view(e) == [challenge |-> e.challenge, user |-> e.user, amount |-> e.amount]
    <3>1. view(Paid(r)) = [challenge |-> Chal(r), user |-> Target(r).user,
                           amount |-> Target(r).reward]
      BY <2>1 DEF Paid
    <3>2. Credits = {view(e) : e \in earnings} /\ Credits' = {view(e) : e \in earnings'}
      BY DEF Credits
    <3> HIDE DEF view
    <3>3. {view(e) : e \in earnings \cup {Paid(r)}} = {view(e) : e \in earnings} \cup {view(Paid(r))}
      OBVIOUS
    <3>4. QED
      BY <2>1, <3>1, <3>2, <3>3
  <2>4. TheLedger!Credit(Chal(r))
    BY <2>2, <2>3 DEF TheLedger!Credit
  <2>5. QED
    BY <2>1, <2>4 DEF TheLedger!Next
<1>3. ASSUME rows' = rows, earnings' = earnings
      PROVE  UNCHANGED TheLedger!ledgerVars
  BY <1>3 DEF TheLedger!ledgerVars, Book, Credits
<1>4. ASSUME IInv, Next
      PROVE  [TheLedger!Next]_(TheLedger!ledgerVars)
  BY <1>1, <1>2, <1>3, <1>4, IssueRefines, TableStep
<1>5. QED
  BY <1>3, <1>4 DEF vars, tables

(* The mint keeps the promise of the ledger: POST /api/mint and GET        *)
(* /api/challenge, with all their interleavings and failures, only issue,  *)
(* credit and void challenges, each once.                                  *)
THEOREM MintImplementsLedger == Spec => ImplementsLedger
<1>1. Init => TheLedger!Init
  BY LedgerInit
<1>2. IInv /\ [Next]_vars => [TheLedger!Next]_(TheLedger!ledgerVars)
  BY LedgerNext
<1>3. QED
  BY <1>1, <1>2, Inductive, PTL DEF Spec, ImplementsLedger, TheLedger!Spec
-----------------------------------------------------------------------------
(* Without faults, who is told 409 found the challenge resolved, or its    *)
(* deadline over at the beginning of the transaction.                      *)
Over(r) ==
    /\ Target(r) \in Row
    /\ Target(r).status # "PENDING" \/ Target(r).expiresAt <= now

ToldConflict ==
    /\ \A r \in Requests : reply[r] = "conflict" => pc[r] \in {"rollback", "done"} /\ Over(r)
    /\ \A r \in Requests : pc[r] = "cas" => ts[r] <= now

(* A resolved row and a deadline in the past stay so.                      *)
LEMMA OverStable ==
    ASSUME IInv, Next, NEW r \in Requests, pc[r] # "idle", req'[r] = req[r], Over(r)
    PROVE  Over(r)'
<1>1. Chal(r) \in Challenges /\ Chal(r)' = Chal(r)
  BY DEF IInv, BodyRead, Body, Chal
<1>2. /\ Target(r)' \in Row /\ Target(r)'.expiresAt = Target(r).expiresAt
      /\ Target(r).status # "PENDING" => Target(r)' = Target(r)
  BY <1>1, Immutable DEF Over, Target
<1>3. now <= now' /\ now \in Nat /\ now' \in Nat
  <2>1. now' = now \/ now' = now + 1
    BY NextCases DEF Tick, Session, Issue, Receive, Local, Voids, Pays, LookupUser,
        ReadChallenge, StartVoid, BeginTx, ClaimUpdate, InsertEarning, Rollback,
        QueryBalance, RecordMint, FailBalance, DropCredited, FailStatement,
        FailInTransaction, VoidUpdate
  <2>2. QED
    BY <2>1 DEF IInv, TypeOK
<1>4. Target(r).expiresAt \in Int
  BY DEF Over, Row
<1>5. QED
  BY <1>2, <1>3, <1>4 DEF Over

(* A step that gives the answer 409 knows that the challenge is over.      *)
LEMMA ConflictGiven ==
    ASSUME IInv, ToldConflict, NEW r \in Requests, Handle(r),
           reply[r] # "conflict", reply'[r] = "conflict"
    PROVE  /\ Over(r) /\ UNCHANGED <<now, rows, req>>
           /\ pc'[r] \in {"rollback", "done"}
<1> USE DEF IInv, TypeOK
<1>1. CASE ReadChallenge(r)
  <2>1. Own(r) /\ Target(r).status # "PENDING" /\ pc'[r] = "done"
    BY <1>1 DEF ReadChallenge, Answer, Goto
  <2>2. Chal(r) \in Challenges
    BY <1>1 DEF ReadChallenge, BodyRead, Body, Chal
  <2>3. Target(r) \in Row
    BY <2>1, <2>2 DEF Own, Target
  <2>4. QED
    BY <1>1, <2>1, <2>3 DEF Over, ReadChallenge, tables
<1>2. CASE VoidUpdate(r)
  <2>1. ~VoidGuard(r) /\ pc'[r] = "done" /\ rows' = rows
    BY <1>2 DEF VoidUpdate, Answer
  <2>2. Target(r) \in Row
    BY <1>2 DEF VoidUpdate, ReadHolds
  <2>3. QED
    BY <1>2, <2>1, <2>2 DEF Over, VoidUpdate, VoidGuard
<1>3. CASE ClaimUpdate(r)
  <2>1. pc[r] = "cas" /\ ~ClaimGuard(r) /\ pc'[r] = "rollback"
    BY <1>3 DEF ClaimUpdate, Goto
  <2>2. Target(r) \in Row /\ ts[r] <= now
    BY <2>1 DEF ReadHolds, ToldConflict
  <2>3. Target(r).expiresAt \in Int
    BY <2>2 DEF Row
  <2>4. Target(r).status # "PENDING" \/ Target(r).expiresAt <= now
    BY <2>1, <2>2, <2>3 DEF ClaimGuard
  <2>5. QED
    BY <1>3, <2>1, <2>2, <2>4 DEF Over, ClaimUpdate, tables
<1>4. CASE InsertEarning(r)
  <2>1. pc[r] = "insert" /\ CreditExists(r)
    BY <1>4 DEF InsertEarning, Goto
  <2>2. Target(r).status = "PENDING" /\ Chal(r) \in Challenges
    BY <2>1 DEF ClaimHolds, BodyRead, Body, Chal, InTx
  <2>3. PaidFor(Chal(r)) = {}
    BY <2>2 DEF LedgerExact, Target
  <2>4. QED
    BY <2>1, <2>3 DEF CreditExists, PaidFor
<1>5. CASE LookupUser(r) \/ StartVoid(r) \/ BeginTx(r) \/ Commit(r) \/ Rollback(r)
           \/ QueryBalance(r) \/ RecordMint(r)
  BY <1>5 DEF LookupUser, StartVoid, BeginTx, Commit, Rollback, QueryBalance, RecordMint,
      Goto, Answer
<1>6. QED
  BY <1>1, <1>2, <1>3, <1>4, <1>5 DEF Handle

(* A transaction's now() is not later than the clock.                      *)
LEMMA HandleKeeps ==
    ASSUME IInv, ToldConflict, NEW r \in Requests, Handle(r)
    PROVE  /\ now' = now
           /\ pc'[r] = "cas" => ts'[r] <= now
           /\ reply[r] = "conflict" /\ reply'[r] = "conflict" => pc'[r] = "done"
<1> USE DEF IInv, TypeOK
<1>1. now' = now
  BY DEF Handle, LookupUser, ReadChallenge, StartVoid, VoidUpdate, BeginTx, ClaimUpdate,
      InsertEarning, Commit, Rollback, QueryBalance, RecordMint
<1>2. CASE BeginTx(r)
  BY <1>1, <1>2 DEF BeginTx, Goto, ToldConflict
<1>3. CASE Rollback(r)
  BY <1>1, <1>3 DEF Rollback, Goto
<1>4. CASE LookupUser(r) \/ ReadChallenge(r) \/ StartVoid(r) \/ VoidUpdate(r)
  <2>1. pc[r] \notin {"rollback", "done"} /\ pc'[r] # "cas"
    BY <1>4 DEF LookupUser, ReadChallenge, StartVoid, VoidUpdate, Voiding, Goto, Answer
  <2>2. QED
    BY <1>1, <2>1 DEF ToldConflict
<1>5. CASE ClaimUpdate(r) \/ InsertEarning(r) \/ Commit(r) \/ QueryBalance(r) \/ RecordMint(r)
  <2>1. pc[r] \notin {"rollback", "done"} /\ pc'[r] # "cas"
    BY <1>5 DEF ClaimUpdate, InsertEarning, Commit, QueryBalance, RecordMint, Goto, Answer
  <2>2. QED
    BY <1>1, <2>1 DEF ToldConflict
<1>6. QED
  BY <1>2, <1>3, <1>4, <1>5 DEF Handle

(* Every step keeps that a conflict was told for good.                     *)
LEMMA ToldConflictStep ==
    ASSUME IInv, ToldConflict, ~Faults, Next
    PROVE  ToldConflict'
<1> USE DEF IInv, TypeOK
<1>1. ASSUME UNCHANGED <<pc, ts, reply>>, now <= now', now' \in Nat,
             \A q \in Requests : pc[q] # "idle" => req'[q] = req[q]
      PROVE  ToldConflict'
  <2>1. ASSUME NEW q \in Requests, reply[q] = "conflict"
        PROVE  Over(q)'
    BY <1>1, <2>1, OverStable DEF ToldConflict
  <2>2. \A q \in Requests : pc[q] = "cas" => ts[q] <= now'
    BY <1>1 DEF ToldConflict
  <2>3. QED
    BY <1>1, <2>1, <2>2 DEF ToldConflict
<1>2. CASE Tick \/ (\E u \in Users : Session(u))
                \/ (\E u \in Users, c \in Challenges : Issue(u, c))
  BY <1>1, <1>2 DEF Tick, Session, Issue, tables
<1>3. ASSUME NEW r \in Requests, NEW body \in Body, Receive(r, body)
      PROVE  ToldConflict'
  <2>1. /\ pc[r] = "idle" /\ pc'[r] = "lookup" /\ UNCHANGED <<now, ts, reply>>
        /\ \A q \in Requests \ {r} : pc'[q] = pc[q] /\ req'[q] = req[q]
    BY <1>3 DEF Receive, Goto
  <2>2. ASSUME NEW q \in Requests, reply[q] = "conflict"
        PROVE  pc'[q] \in {"rollback", "done"} /\ Over(q)'
    <3>1. q # r /\ pc[q] \in {"rollback", "done"} /\ Over(q)
      BY <2>1, <2>2 DEF ToldConflict
    <3>2. QED
      BY <2>1, <3>1, OverStable
  <2>3. \A q \in Requests : pc'[q] = "cas" => ts[q] <= now
    BY <2>1 DEF ToldConflict
  <2>4. QED
    BY <2>1, <2>2, <2>3 DEF ToldConflict
<1>4. ASSUME NEW r \in Requests, Handle(r)
      PROVE  ToldConflict'
  <2>1. MovesOnly(r)
    <3>1. Local(r) \/ Voids(r) \/ Pays(r)
      BY <1>4 DEF Handle, Local, VoidUpdate, Voids, VoidGuard, VoidStatus, Replies, Voiding,
          Answer, Commit, Pays
    <3>2. QED
      BY <3>1, Frame
  <2>2. /\ now' = now
        /\ pc'[r] = "cas" => ts'[r] <= now
        /\ reply[r] = "conflict" /\ reply'[r] = "conflict" => pc'[r] = "done"
    BY <1>4, HandleKeeps
  <2>3. req' = req
    BY <1>4 DEF Handle, LookupUser, ReadChallenge, StartVoid, VoidUpdate, BeginTx,
        ClaimUpdate, InsertEarning, Commit, Rollback, QueryBalance, RecordMint
  <2>4. ASSUME NEW q \in Requests, reply'[q] = "conflict"
        PROVE  pc'[q] \in {"rollback", "done"} /\ Over(q)'
    <3>1. CASE reply[q] = "conflict"
      <4>1. pc[q] \in {"rollback", "done"} /\ Over(q)
        BY <3>1 DEF ToldConflict
      <4>2. Over(q)'
        BY <2>3, <4>1, OverStable
      <4>3. pc'[q] \in {"rollback", "done"}
        BY <2>1, <2>2, <2>4, <3>1, <4>1 DEF MovesOnly
      <4>4. QED
        BY <4>2, <4>3
    <3>2. CASE reply[q] # "conflict"
      <4>1. q = r
        BY <2>1, <2>4, <3>2 DEF MovesOnly
      <4>2. Over(r) /\ UNCHANGED <<now, rows, req>> /\ pc'[r] \in {"rollback", "done"}
        BY <1>4, <2>4, <3>2, <4>1, ConflictGiven
      <4>3. Over(r)'
        BY <4>2 DEF Over, Target, Chal
      <4>4. QED
        BY <4>1, <4>2, <4>3
    <3>3. QED
      BY <3>1, <3>2
  <2>5. \A q \in Requests : pc'[q] = "cas" => ts'[q] <= now'
    BY <2>1, <2>2 DEF MovesOnly, ToldConflict
  <2>6. QED
    BY <2>4, <2>5 DEF ToldConflict
<1>5. \A r \in Requests : ~Fault(r)
  BY DEF Fault
<1>6. QED
  BY <1>2, <1>3, <1>4, <1>5 DEF Next

(* Without faults, a 409 means that trying again is of no use, although    *)
(* the answer is given on what was read before (mint.rs:78, 95, 112, 151). *)
THEOREM MintConflictIsFinal ==
    ASSUME ~Faults
    PROVE  Spec => []ConflictIsFinal
<1>1. Init => ToldConflict
  BY DEF Init, ToldConflict
<1>2. IInv /\ ToldConflict /\ [Next]_vars => ToldConflict'
  <2>1. ASSUME IInv, ToldConflict, UNCHANGED vars
        PROVE  ToldConflict'
    BY <2>1 DEF vars, tables, ToldConflict, Over, Target, Chal
  <2>2. QED
    BY <2>1, ToldConflictStep
<1>3. ToldConflict => ConflictIsFinal
  BY DEF ToldConflict, Over, ConflictIsFinal
<1>4. QED
  BY <1>1, <1>2, <1>3, Inductive, PTL DEF Spec
-----------------------------------------------------------------------------
(* The sums of the two tables.                                             *)
WonBy(u) == {c \in Challenges : rows[c].status = "CLAIMED" /\ rows[c].user = u}

RewardsOffered == [c \in Challenges |-> rows[c].reward]

(* The rewards of the challenges a player claimed are a sum, too.          *)
LEMMA ClaimedIsSum ==
    ASSUME NEW u, IsFiniteSet(WonBy(u))
    PROVE  ClaimedRewards(u) = SumFunctionOnSet(RewardsOffered, WonBy(u))
<1> DEFINE S == WonBy(u)
           Eq(g) == g = [s \in SUBSET S |->
                           IF s = {} THEN 0 ELSE rows[Pick(s)].reward + g[s \ {Pick(s)}]]
<1>1. ClaimedRewards(u) = (CHOOSE g : Eq(g))[S]
  BY DEF ClaimedRewards, MapThenSumSet, MapThenFoldSet, Pick, WonBy
<1>2. \A s \in SUBSET S : s # {} => RewardsOffered[Pick(s)] = rows[Pick(s)].reward
  BY PickMember DEF RewardsOffered, WonBy
<1>3. \A g : Eq(g) <=> Solves(g, RewardsOffered, S)
  BY <1>2 DEF Solves
<1> HIDE DEF Eq
<1>4. PICK g : g = CHOOSE h : Eq(h)
  OBVIOUS
<1>5. Eq(g)
  BY <1>3, <1>4, SolutionExists
<1>6. g[S] = SumFunctionOnSet(RewardsOffered, S)
  BY <1>3, <1>5, SumOfSolution
<1> QED
  BY <1>1, <1>4, <1>6

(* The two sums have the same terms: each claimed challenge has one row.   *)
LEMMA SumsAgree ==
    ASSUME TypeOK, LedgerExact, EarningsFinite, NEW u \in Users
    PROVE  BalanceOf(u) = ClaimedRewards(u)
<1> DEFINE S == EarnedBy(u)
           of == [e \in earnings |-> e.challenge]
<1>1. IsFiniteSet(S) /\ S \subseteq earnings
  BY FS_Subset DEF EarnedBy, EarningsFinite
<1>2. ASSUME NEW e \in earnings
      PROVE  /\ e.challenge \in Challenges /\ e.amount \in Int
             /\ rows[e.challenge].status = "CLAIMED"
             /\ PaidFor(e.challenge) = {e}
             /\ e.user = rows[e.challenge].user
             /\ e.amount = rows[e.challenge].reward
  <2>1. e \in Earning
    BY DEF TypeOK
  <2>2. e.challenge \in Challenges /\ e.amount \in Rewards
    BY <2>1 DEF Earning
  <2>3. e.amount \in Int
    BY <2>2, RewardNumber
  <2>4. e \in PaidFor(e.challenge)
    BY DEF PaidFor
  <2>5. rows[e.challenge].status = "CLAIMED"
    BY <2>2, <2>4 DEF LedgerExact
  <2>6. PICK d \in earnings : /\ PaidFor(e.challenge) = {d}
                              /\ d.user = rows[e.challenge].user
                              /\ d.amount = rows[e.challenge].reward
    BY <2>2, <2>5 DEF LedgerExact
  <2> QED
    BY <2>2, <2>3, <2>4, <2>5, <2>6
<1>3. \A x, y \in S : of[x] = of[y] => x = y
  BY <1>1, <1>2
<1>4. \A x \in S : Amount(S)[x] \in Int /\ RewardsOffered[of[x]] = Amount(S)[x]
  BY <1>1, <1>2 DEF Amount, RewardsOffered
<1>5. WonBy(u) = {of[x] : x \in S}
  <2>1. ASSUME NEW c \in WonBy(u)
        PROVE  \E x \in S : of[x] = c
    <3>1. PICK e \in earnings : PaidFor(c) = {e} /\ e.user = rows[c].user
      BY <2>1 DEF WonBy, LedgerExact
    <3>2. e.challenge = c /\ e \in S
      BY <2>1, <3>1 DEF PaidFor, WonBy, EarnedBy
    <3> QED
      BY <3>2
  <2>2. ASSUME NEW x \in S
        PROVE  of[x] \in WonBy(u)
    BY <1>1, <1>2 DEF WonBy, EarnedBy
  <2> QED
    BY <2>1, <2>2
<1>6. IsFiniteSet(WonBy(u))
  <2>1. [x \in S |-> of[x]] \in Surjection(S, WonBy(u))
    BY <1>5 DEF Surjection
  <2> QED
    BY <1>1, <2>1, FS_Surjection
<1> HIDE DEF S, of
<1>7. SumFunctionOnSet(RewardsOffered, WonBy(u)) = SumFunctionOnSet(Amount(S), S)
  BY <1>1, <1>3, <1>4, <1>5, SumRename
<1>8. BalanceOf(u) = SumFunctionOnSet(Amount(S), S)
  BY <1>1, AmountSumIsSum, BalanceIsSum DEF S
<1> QED
  BY <1>6, <1>7, <1>8, ClaimedIsSum

(* The balance of every player is what the challenges they own and claimed *)
(* are worth, whatever races and whatever fails (mint.rs:134-188).         *)
THEOREM MintBalancesAddUp == Spec => []BalancesAddUp
<1>1. IInv => BalancesAddUp
  BY SumsAgree DEF IInv, BalancesAddUp
<1>2. QED
  BY <1>1, Inductive, PTL
-----------------------------------------------------------------------------
(* What a request reports, once it has asked for it.                       *)
Asked(r) == pc[r] = "record" \/ reply[r] = "claimed"

BalanceHolds ==
    \A r \in Requests : Asked(r) =>
        credit[r] <= balance[r] /\ balance[r] <= BalanceOf(req[r].user)

(* The row of a request that committed is its user's.                      *)
LEMMA OwnEarning ==
    ASSUME IInv, NEW r \in Requests, pc[r] \in Credited
    PROVE  \E e \in EarnedBy(req[r].user) : e.amount = credit[r]
<1> USE DEF IInv
<1>1. PICK e \in earnings : e.id = r
  BY DEF Provenance
<1>2. e.challenge = Chal(r) /\ e.amount = credit[r]
  BY <1>1 DEF Provenance
<1> DEFINE c == Chal(r)
<1>3. c \in Challenges /\ e \in PaidFor(c)
  BY <1>2 DEF BodyRead, Body, Chal, PaidFor, Credited
<1>4. PICK d \in earnings : PaidFor(c) = {d} /\ d.user = rows[c].user
  BY <1>3 DEF LedgerExact
<1>5. rows[c].status = "CLAIMED"
  BY <1>3 DEF LedgerExact
<1>6. PICK f \in earnings :
          /\ f.challenge = c
          /\ req[f.id] = [user |-> rows[c].user, challenge |-> c, answer |-> rows[c].solution]
  <2> HIDE DEF c
  <2> QED
    BY <1>3, <1>5 DEF ResolvedForCause
<1>7. e = d /\ f = d
  BY <1>3, <1>4, <1>6 DEF PaidFor
<1>8. req[r].user = rows[c].user
  BY <1>1, <1>6, <1>7
<1> QED
  BY <1>2, <1>4, <1>7, <1>8 DEF EarnedBy

(* Without faults, only the balance query sets a balance, and only a       *)
(* request that asked reports one.                                         *)
LEMMA AskedStep ==
    ASSUME IInv, ~Faults, Next, NEW r \in Requests, Asked(r)'
    PROVE  \/ QueryBalance(r)
           \/ Asked(r) /\ balance'[r] = balance[r]
                       /\ credit'[r] = credit[r] /\ req'[r] = req[r]
<1> USE DEF IInv, TypeOK, Asked
<1>1. CASE UNCHANGED <<pc, reply, balance, credit, req>>
  BY <1>1
<1>2. ASSUME NEW q \in Requests, NEW body \in Body, Receive(q, body)
      PROVE  Asked(r) /\ balance'[r] = balance[r] /\ credit'[r] = credit[r] /\ req'[r] = req[r]
  BY <1>2 DEF Receive, Goto, AnswersFinal, Decisive
<1>3. ASSUME NEW q \in Requests, q # r, Handle(q)
      PROVE  Asked(r) /\ balance'[r] = balance[r] /\ credit'[r] = credit[r] /\ req'[r] = req[r]
  BY <1>3 DEF Handle, LookupUser, ReadChallenge, StartVoid, VoidUpdate, BeginTx, ClaimUpdate,
      InsertEarning, Commit, Rollback, QueryBalance, RecordMint, Goto, Answer
<1>4. ASSUME Handle(r)
      PROVE  QueryBalance(r) \/ RecordMint(r)
  BY <1>4 DEF Handle, LookupUser, ReadChallenge, StartVoid, VoidUpdate, BeginTx, ClaimUpdate,
      InsertEarning, Commit, Rollback, Goto, Answer, AnswersFinal, Decisive, Voiding
<1>5. CASE RecordMint(r)
  BY <1>5 DEF RecordMint, Answer
<1>6. Tick \/ (\E u \in Users : Session(u) \/ \E c \in Challenges : Issue(u, c))
        => UNCHANGED <<pc, reply, balance, credit, req>>
  BY DEF Tick, Session, Issue
<1>7. \A q \in Requests : ~Fault(q)
  BY DEF Fault
<1> QED
  BY <1>1, <1>2, <1>3, <1>4, <1>5, <1>6, <1>7 DEF Next

(* Every step keeps what is reported between the reward and the balance.   *)
LEMMA BalanceStep ==
    ASSUME IInv, BalanceHolds, ~Faults, Next
    PROVE  BalanceHolds'
<1> SUFFICES ASSUME NEW r \in Requests, Asked(r)'
             PROVE  credit'[r] <= balance'[r] /\ balance'[r] <= BalanceOf(req[r].user)'
  BY DEF BalanceHolds
<1> DEFINE u == req[r].user
           D == EarnedBy(u)
<1>1. CASE QueryBalance(r)
  <2>1. /\ pc[r] \in Credited /\ balance'[r] = BalanceOf(u)
        /\ UNCHANGED <<earnings, req, credit>>
    BY <1>1 DEF QueryBalance, IInv, TypeOK, Credited, tables
  <2>2. BalanceOf(u)' = BalanceOf(u)
    BY <2>1 DEF BalanceOf, MapThenSumSet, MapThenFoldSet
  <2>3. PICK e \in D : e.amount = credit[r]
    BY <2>1, OwnEarning
  <2>4. e.amount <= AmountSum(D) /\ AmountSum(D) \in Nat
    <3>1. D \in SUBSET Earning /\ IsFiniteSet(D)
      BY FS_Subset DEF IInv, TypeOK, EarningsFinite, EarnedBy
    <3> QED
      BY <2>3, <3>1, AmountSumGrows
  <2> QED
    BY <2>1, <2>2, <2>3, <2>4, BalanceIsSum
<1>2. CASE /\ Asked(r) /\ balance'[r] = balance[r]
           /\ credit'[r] = credit[r] /\ req'[r] = req[r]
  <2> DEFINE E == EarnedBy(u)'
  <2>1. D \subseteq E /\ E \in SUBSET Earning /\ IsFiniteSet(E)
    BY <1>2, FiniteStep, TypeStep, FS_Subset DEF EarnedBy, EarningsFinite, TypeOK
  <2>2. AmountSum(D) <= AmountSum(E) /\ AmountSum(D) \in Nat /\ AmountSum(E) \in Nat
    BY <2>1, AmountSumGrows
  <2>3. BalanceOf(u) = AmountSum(D) /\ BalanceOf(u)' = AmountSum(E)
    BY DEF BalanceOf, AmountSum, EarnedBy, MapThenSumSet, MapThenFoldSet
  <2>4. balance[r] \in Nat /\ credit[r] <= balance[r] /\ balance[r] <= BalanceOf(u)
    BY <1>2 DEF BalanceHolds, IInv, TypeOK
  <2> QED
    BY <1>2, <2>2, <2>3, <2>4
<1> QED
  BY <1>1, <1>2, AskedStep

(* Without faults, a 200 reports a balance that counts its own reward and  *)
(* nothing the player has not claimed, although the query runs after the   *)
(* transaction and others commit around it (mint.rs:178-188).              *)
THEOREM MintReportedBalance ==
    ASSUME ~Faults
    PROVE  Spec => []ReportedBalance
<1>1. Init => BalanceHolds
  BY DEF Init, BalanceHolds, Asked
<1>2. IInv /\ BalanceHolds /\ [Next]_vars => BalanceHolds'
  <2>1. ASSUME IInv, BalanceHolds, UNCHANGED vars
        PROVE  BalanceHolds'
    <3>1. UNCHANGED <<pc, req, credit, balance, reply, earnings>>
      BY <2>1 DEF vars, tables
    <3>2. \A u : BalanceOf(u)' = BalanceOf(u)
      BY <3>1 DEF BalanceOf, MapThenSumSet, MapThenFoldSet
    <3>3. QED
      BY <2>1, <3>1, <3>2 DEF BalanceHolds, Asked
  <2>2. QED
    BY <2>1, BalanceStep
<1>3. IInv /\ BalanceHolds => ReportedBalance
  <2> SUFFICES ASSUME IInv, BalanceHolds, NEW r \in Requests, reply[r] = "claimed"
               PROVE  credit[r] <= balance[r] /\ balance[r] <= ClaimedRewards(req[r].user)
    BY DEF ReportedBalance
  <2>1. req[r].user \in Users
    BY DEF IInv, AnswersFinal, Decisive, BodyRead, Body
  <2> QED
    BY <2>1, SumsAgree DEF IInv, BalanceHolds, Asked
<1>4. QED
  BY <1>1, <1>2, <1>3, Inductive, PTL DEF Spec
-----------------------------------------------------------------------------
(* Waiting.  What `Answered' needs of the states and steps, fairness apart: *)
(* nobody waits for somebody who waits, and nobody goes round in a circle. *)

Connections == {q \in Requests : pc[q] \in Connected}

\* Who holds a row's lock waits for nothing.
HoldersRun == \A c \in Challenges : lock[c] # None => pc[lock[c]] \in InTx \cup {"rollback"}

\* The pool gives out no more connections than it has.
PoolKept == IsFiniteSet(Connections) /\ Cardinality(Connections) <= PoolSize

\* A request that is under way, and the guard of its next step: a statement
\* on the pool needs a connection, an UPDATE its row's lock.
Unfinished(r) == pc[r] \notin {"idle", "done"}
MayStep(r) ==
    /\ Unfinished(r)
    /\ pc[r] \in {"lookup", "read", "late", "wrong", "begin", "balance"} => ConnectionFree
    /\ pc[r] \in Voiding \cup {"cas"} => Unlocked(r)

\* A request that must wait has somebody else, with a connection, who
\* need not.
NobodyStuck ==
    \A r \in Requests : Unfinished(r) =>
        MayStep(r) \/ \E q \in Requests \ {r} : pc[q] \in Connected /\ MayStep(q)

\* How many steps a request has before it at most.
StepsLeft(r) ==
    CASE pc[r] = "idle"   -> 9
      [] pc[r] = "lookup" -> 8
      [] pc[r] = "read"   -> 7
      [] pc[r] = "begin"  -> 6
      [] pc[r] = "cas"    -> 5
      [] pc[r] = "insert" -> 4
      [] pc[r] = "commit" -> 3
      [] pc[r] \in {"balance", "late", "wrong"} -> 2
      [] pc[r] \in Voiding \cup {"rollback", "record"} -> 1
      [] OTHER -> 0

\* No step takes a request back, and each step of its own takes it on.
GoesOn ==
    \A r \in Requests :
        /\ pc'[r] = pc[r] \/ StepsLeft(r)' < StepsLeft(r)
        /\ Handle(r) => StepsLeft(r)' < StepsLeft(r)

(* The holder of a lock is past its UPDATE, and the end of its transaction *)
(* releases it.                                                            *)
LEMMA HoldersStep ==
    ASSUME TypeOK, HoldersRun, [Next]_vars
    PROVE  HoldersRun'
<1> USE NoneAssumption DEF TypeOK, HoldersRun, InTx
<1>1. CASE Tick \/ (\E u \in Users : Session(u)) \/ (\E u \in Users, c \in Challenges : Issue(u, c))
  BY <1>1 DEF Tick, Session, Issue
<1>2. ASSUME NEW r \in Requests, NEW body \in Body, Receive(r, body)
      PROVE  HoldersRun'
  BY <1>2 DEF Receive, Goto
<1>3. ASSUME NEW r \in Requests, Local(r)
      PROVE  HoldersRun'
  <2>1. CASE ClaimUpdate(r)
    <3>1. CASE lock' = [lock EXCEPT ![Chal(r)] = r] /\ Goto(r, "insert")
      BY <2>1, <3>1 DEF ClaimUpdate, Goto
    <3>2. CASE lock' = lock /\ pc' = [pc EXCEPT ![r] = "rollback"]
      BY <2>1, <3>2 DEF ClaimUpdate
    <3> QED
      BY <2>1, <3>1, <3>2 DEF ClaimUpdate
  <2>2. CASE Rollback(r)
    BY <2>2 DEF Rollback, Goto, Unlock
  <2>3. CASE InsertEarning(r) \/ \E code \in Interrupted : FailInTransaction(r, code)
    BY <2>3 DEF InsertEarning, FailInTransaction, Goto
  <2>4. CASE LookupUser(r) \/ ReadChallenge(r) \/ StartVoid(r) \/ BeginTx(r)
    BY <2>4 DEF LookupUser, ReadChallenge, StartVoid, BeginTx, Goto, Answer
  <2>5. CASE QueryBalance(r) \/ RecordMint(r) \/ FailBalance(r) \/ DropCredited(r)
             \/ VoidUpdate(r) \/ \E code \in Interrupted : FailStatement(r, code)
    BY <2>5 DEF QueryBalance, RecordMint, FailBalance, DropCredited, FailStatement,
       VoidUpdate, Goto, Answer, Credited, Voiding
  <2> QED
    BY <1>3, <2>1, <2>2, <2>3, <2>4, <2>5 DEF Local
<1>4. ASSUME NEW r \in Requests, Voids(r)
      PROVE  HoldersRun'
  BY <1>4 DEF Voids, Answer, Voiding
<1>5. ASSUME NEW r \in Requests, Pays(r)
      PROVE  HoldersRun'
  BY <1>5 DEF Pays, ApplyCommit, Unlock, Goto, Answer
<1>6. CASE UNCHANGED vars
  BY <1>6 DEF vars
<1> QED
  BY <1>1, <1>2, <1>3, <1>4, <1>5, <1>6, NextCases

(* A step takes no connection, or a free one.                              *)
LEMMA PoolMoves ==
    ASSUME TypeOK, [Next]_vars
    PROVE  \/ Connections' \subseteq Connections
           \/ ConnectionFree /\ \E r \in Requests : Connections' \subseteq Connections \cup {r}
<1> USE DEF TypeOK, Connections, Connected, Voiding
<1>1. CASE Tick \/ (\E u \in Users : Session(u)) \/ (\E u \in Users, c \in Challenges : Issue(u, c))
  BY <1>1 DEF Tick, Session, Issue
<1>2. ASSUME NEW r \in Requests, NEW body \in Body, Receive(r, body)
      PROVE  Connections' \subseteq Connections
  BY <1>2 DEF Receive, Goto
<1>3. ASSUME NEW r \in Requests, StartVoid(r) \/ BeginTx(r)
      PROVE  ConnectionFree /\ Connections' \subseteq Connections \cup {r}
  BY <1>3 DEF StartVoid, BeginTx, Goto
<1>4. ASSUME NEW r \in Requests, Local(r), ~StartVoid(r), ~BeginTx(r)
      PROVE  Connections' \subseteq Connections
  <2>1. CASE ClaimUpdate(r) \/ InsertEarning(r) \/ Rollback(r)
             \/ \E code \in Interrupted : FailInTransaction(r, code)
    BY <2>1 DEF ClaimUpdate, InsertEarning, Rollback, FailInTransaction, Goto
  <2>2. CASE LookupUser(r) \/ ReadChallenge(r) \/ QueryBalance(r) \/ RecordMint(r)
    BY <2>2 DEF LookupUser, ReadChallenge, QueryBalance, RecordMint, Goto, Answer
  <2>3. CASE FailBalance(r) \/ DropCredited(r) \/ VoidUpdate(r)
             \/ \E code \in Interrupted : FailStatement(r, code)
    BY <2>3 DEF FailBalance, DropCredited, VoidUpdate, FailStatement, Goto, Answer
  <2> QED
    BY <1>4, <2>1, <2>2, <2>3 DEF Local
<1>5. ASSUME NEW r \in Requests, Voids(r) \/ Pays(r)
      PROVE  Connections' \subseteq Connections
  BY <1>5 DEF Voids, Pays, Goto, Answer
<1>6. CASE UNCHANGED vars
  BY <1>6 DEF vars
<1> QED
  BY <1>1, <1>2, <1>3, <1>4, <1>5, <1>6, NextCases

(* So the pool keeps its bound.                                            *)
LEMMA PoolStep ==
    ASSUME TypeOK, PoolKept, [Next]_vars
    PROVE  PoolKept'
<1>1. CASE Connections' \subseteq Connections
  <2>1. IsFiniteSet(Connections') /\ Cardinality(Connections') <= Cardinality(Connections)
    BY <1>1, FS_Subset DEF PoolKept
  <2>2. Cardinality(Connections') \in Nat /\ Cardinality(Connections) \in Nat
    BY <2>1, FS_CardinalityType DEF PoolKept
  <2> QED
    BY <2>1, <2>2, PoolAssumption DEF PoolKept
<1>2. ASSUME ConnectionFree, NEW r \in Requests, Connections' \subseteq Connections \cup {r}
      PROVE  PoolKept'
  <2> DEFINE Larger == Connections \cup {r}
  <2>1. Cardinality(Connections) \in Nat /\ Cardinality(Connections) < PoolSize
    BY <1>2, FS_CardinalityType DEF PoolKept, ConnectionFree, Connections
  <2>2. IsFiniteSet(Larger) /\ Cardinality(Larger) \in Nat
        /\ Cardinality(Larger) <= Cardinality(Connections) + 1
    BY <2>1, FS_AddElement DEF PoolKept
  <2>3. IsFiniteSet(Connections') /\ Cardinality(Connections') <= Cardinality(Larger)
    BY <1>2, <2>2, FS_Subset
  <2>4. Cardinality(Connections') \in Nat
    BY <2>3, FS_CardinalityType
  <2> HIDE DEF Larger
  <2> QED
    BY <2>1, <2>2, <2>3, <2>4, PoolAssumption DEF PoolKept
<1> QED
  BY <1>1, <1>2, PoolMoves

(* The holder of a lock may step, and whoever has a connection may step or *)
(* waits for such a holder.                                                *)
LEMMA WaitingEnds ==
    ASSUME TypeOK, BodyRead, HoldersRun, PoolKept
    PROVE  NobodyStuck
<1>1. ASSUME NEW r \in Requests, pc[r] \in Voiding \cup {"cas"}, ~Unlocked(r)
      PROVE  \E q \in Requests \ {r} : pc[q] \in Connected /\ MayStep(q)
  <2>1. Chal(r) \in Challenges
    BY <1>1 DEF BodyRead, Body, Chal, Voiding
  <2>2. lock[Chal(r)] \in Requests /\ pc[lock[Chal(r)]] \in InTx \cup {"rollback"}
    BY <1>1, <2>1 DEF Unlocked, TypeOK, HoldersRun
  <2>3. lock[Chal(r)] # r
    BY <1>1, <2>2 DEF InTx, Voiding
  <2> QED
    BY <2>2, <2>3 DEF InTx, MayStep, Unfinished, Connected, Voiding
<1>2. ASSUME NEW r \in Requests, ~ConnectionFree, pc[r] \notin Connected
      PROVE  \E q \in Requests \ {r} : pc[q] \in Connected /\ MayStep(q)
  <2>1. Connections # {}
    BY <1>2, FS_EmptySet, PoolAssumption DEF ConnectionFree, Connections
  <2>2. PICK p \in Requests : pc[p] \in Connected
    BY <2>1 DEF Connections
  <2>3. CASE MayStep(p)
    BY <1>2, <2>2, <2>3
  <2>4. CASE ~MayStep(p)
    <3>1. pc[p] \in Voiding \cup {"cas"} /\ ~Unlocked(p)
      BY <2>2, <2>4 DEF MayStep, Unfinished, Connected, Voiding
    <3> QED
      BY <1>1, <1>2, <3>1
  <2> QED
    BY <2>3, <2>4
<1>3. ASSUME NEW r \in Requests, Unfinished(r), ~MayStep(r)
      PROVE  \/ pc[r] \in Voiding \cup {"cas"} /\ ~Unlocked(r)
             \/ ~ConnectionFree /\ pc[r] \notin Connected
  BY <1>3 DEF MayStep, Connected, Voiding
<1> QED
  BY <1>1, <1>2, <1>3 DEF NobodyStuck

(* For any number of requests and any pool of one connection or more: a    *)
(* request that waits for a lock or a connection waits for somebody who    *)
(* does not, and the pool is never overdrawn (db.rs:6, mint.rs:140, 165).  *)
THEOREM MintNobodyStuck == Spec => [](NobodyStuck /\ PoolKept)
<1>1. Init => HoldersRun /\ PoolKept
  <2> SUFFICES ASSUME Init PROVE HoldersRun /\ PoolKept
    OBVIOUS
  <2>1. Connections = {}
    BY DEF Init, Connections, Connected, Voiding
  <2>2. PoolKept
    BY <2>1, FS_EmptySet, PoolAssumption DEF PoolKept
  <2> QED
    BY <2>2 DEF Init, HoldersRun
<1>2. IInv /\ HoldersRun /\ PoolKept /\ [Next]_vars => HoldersRun' /\ PoolKept'
  BY HoldersStep, PoolStep DEF IInv
<1>3. IInv /\ HoldersRun /\ PoolKept => NobodyStuck
  BY WaitingEnds DEF IInv
<1> QED
  BY <1>1, <1>2, <1>3, Inductive, PTL DEF Spec

\* A step of q takes it on, and no other.
Advances(q) ==
    /\ StepsLeft(q)' < StepsLeft(q)
    /\ \A r \in Requests \ {q} : pc'[r] = pc[r]

(* Every step of a request's own takes it on.                              *)
LEMMA HandleAdvances ==
    ASSUME TypeOK, NEW q \in Requests, Handle(q)
    PROVE  Advances(q)
<1> USE DEF TypeOK, Advances, StepsLeft, Voiding
<1>1. CASE LookupUser(q) \/ ReadChallenge(q)
  BY <1>1 DEF LookupUser, ReadChallenge, Goto, Answer
<1>2. CASE StartVoid(q) \/ VoidUpdate(q)
  BY <1>2 DEF StartVoid, VoidUpdate, Goto, Answer
<1>3. CASE BeginTx(q) \/ ClaimUpdate(q) \/ InsertEarning(q)
  BY <1>3 DEF BeginTx, ClaimUpdate, InsertEarning, Goto
<1>4. CASE Commit(q) \/ Rollback(q)
  BY <1>4 DEF Commit, Rollback, Goto
<1>5. CASE QueryBalance(q) \/ RecordMint(q)
  BY <1>5 DEF QueryBalance, RecordMint, Goto, Answer
<1> QED
  BY <1>1, <1>2, <1>3, <1>4, <1>5 DEF Handle

(* A fault only brings the end nearer.                                     *)
LEMMA FaultAdvances ==
    ASSUME TypeOK, NEW q \in Requests, Fault(q)
    PROVE  Advances(q)
<1> USE DEF TypeOK, Advances, StepsLeft, Voiding
<1>1. ASSUME NEW code, FailStatement(q, code) \/ FailInTransaction(q, code)
      PROVE  Advances(q)
  BY <1>1 DEF FailStatement, FailInTransaction, Answer
<1>2. ASSUME NEW code, LoseVoidResult(q, code) \/ LoseCommitResult(q, code)
      PROVE  Advances(q)
  BY <1>2 DEF LoseVoidResult, LoseCommitResult, Answer
<1>3. CASE FailBalance(q) \/ DropCredited(q)
  BY <1>3 DEF FailBalance, DropCredited, Credited, Goto, Answer
<1> QED
  BY <1>1, <1>2, <1>3 DEF Fault

(* A step moves one request at most, and that one forward.                 *)
LEMMA GoesOnStep == TypeOK /\ [Next]_vars => GoesOn
<1> SUFFICES ASSUME TypeOK, [Next]_vars PROVE GoesOn
  OBVIOUS
<1>1. pc' = pc \/ \E q \in Requests : Advances(q)
  <2>1. ASSUME NEW q \in Requests, NEW body \in Body, Receive(q, body)
        PROVE  Advances(q)
    BY <2>1 DEF Receive, Goto, TypeOK, Advances, StepsLeft, Voiding
  <2> QED
    BY <2>1, HandleAdvances, FaultAdvances DEF Next, vars, Tick, Session, Issue
<1>2. \A r \in Requests : pc'[r] = pc[r] \/ StepsLeft(r)' < StepsLeft(r)
  BY <1>1 DEF Advances
<1>3. \A r \in Requests : Handle(r) => StepsLeft(r)' < StepsLeft(r)
  BY HandleAdvances DEF Advances
<1> QED
  BY <1>2, <1>3 DEF GoesOn

(* Every step that concerns a request takes it nearer to its end, faults   *)
(* included: nine steps after the client sent it at most, it is answered   *)
(* or dropped.                                                             *)
THEOREM MintGoesOn == Spec => [][GoesOn]_vars
  BY GoesOnStep, MintTypeOK, PTL DEF Spec
=============================================================================

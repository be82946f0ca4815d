-------------------------------- MODULE Mint --------------------------------
(***************************************************************************)
(* Issuing and redeeming challenges: GET /api/challenge (challenge.rs) and *)
(* POST /api/mint (mint.rs) of the API, over PostgreSQL and the connection *)
(* pool.  Every request is a task of its own; each of its statements is a  *)
(* step, and the steps of all requests interleave.                         *)
(*                                                                         *)
(* The database is modelled at READ COMMITTED, as the handlers use it: a   *)
(* reader sees committed rows only, an UPDATE waits for the row's lock and *)
(* then looks at the row again, and now() is the time the transaction      *)
(* began.  What a transaction wrote and has not committed is in the pc of  *)
(* its request and in `lock'.                                              *)
(*                                                                         *)
(* Left out: tokens (a request names its user), the text of a problem, and *)
(* the difficulty (any reward may be drawn); the throughput statistics of  *)
(* step 7 of mint.rs are the state of module Retarget.                     *)
(***************************************************************************)
EXTENDS Integers, FiniteSets, FiniteSetsExt

CONSTANTS
    Users, Challenges, Answers,
    Requests,      \* mint requests, resent ones included
    Rewards,       \* what generate_challenge can offer
    Ttl,           \* ttl_seconds
    Skews,         \* API clock minus database clock, less the INSERT's delay
    MaxTime,       \* bound on the clock
    PoolSize,      \* max_connections
    Faults,        \* whether statements fail and clients disconnect
    None           \* no request, no body

ASSUME RewardsAssumption == Rewards \subseteq Nat \ {0}
ASSUME ClockAssumption == Ttl \in Nat /\ Skews \subseteq Int /\ MaxTime \in Nat
ASSUME PoolAssumption == PoolSize \in Nat \ {0}
ASSUME FaultsAssumption == Faults \in BOOLEAN
ASSUME NoneAssumption ==
    /\ None \notin Requests
    /\ None \notin [user : Users, challenge : Challenges, answer : Answers]

VARIABLES
    now,         \* the database's clock
    users,       \* table users: the players that opened a session
    rows,        \* table challenges
    earnings,    \* table earnings; `id' is the request that inserted the row
    lock,        \* challenge -> the request whose transaction updated its row
    pc, req,     \* a request's next step, and its body
    ts,          \* now() of a request's current transaction
    credit,      \* the reward its UPDATE ... RETURNING gave
    balance,     \* the balance it reports
    reply        \* the answer it gives

tables == <<users, rows, earnings>>
vars == <<now, users, rows, earnings, lock, pc, req, ts, credit, balance, reply>>
-----------------------------------------------------------------------------
Never == -1                       \* resolved_at IS NULL
NoRow == [status |-> "ABSENT"]

Row == [user : Users, solution : Answers, reward : Rewards, expiresAt : Int,
        status : {"PENDING", "CLAIMED", "EXPIRED"}, resolvedAt : Nat \cup {Never}]
Earning == [id : Requests, user : Users, challenge : Challenges, amount : Rewards]
Body == [user : Users, challenge : Challenges, answer : Answers]

Replies == {"none", "unauthenticated", "unknown", "conflict",
            "expired", "incorrect", "claimed"}

\* The steps that hold a connection, and those inside the mint transaction
\* after its UPDATE took the row's lock.
Voiding == {"voidLate", "voidWrong"}
Connected == Voiding \cup {"cas", "insert", "commit", "rollback"}
Credited == {"balance", "record"}
Steps == {"idle", "lookup", "read", "late", "wrong", "begin", "done"}
            \cup Connected \cup Credited

\* A statement on the pool needs one of its connections.
ConnectionFree == Cardinality({q \in Requests : pc[q] \in Connected}) < PoolSize

Chal(r) == req[r].challenge
Target(r) == rows[Chal(r)]
Unlocked(r) == lock[Chal(r)] = None

\* SELECT SUM(amount) FROM earnings WHERE user_id = u
BugBalanceOfAll(u) == MapThenSumSet(LAMBDA e : e.amount, earnings)
BalanceOf(u) == MapThenSumSet(LAMBDA e : e.amount, {e \in earnings : e.user = u})
-----------------------------------------------------------------------------
Init ==
    /\ now = 0
    /\ users = {}
    /\ rows = [c \in Challenges |-> NoRow]
    /\ earnings = {}
    /\ lock = [c \in Challenges |-> None]
    /\ pc = [r \in Requests |-> "idle"]
    /\ req = [r \in Requests |-> None]
    /\ ts = [r \in Requests |-> 0]
    /\ credit = [r \in Requests |-> 0]
    /\ balance = [r \in Requests |-> 0]
    /\ reply = [r \in Requests |-> "none"]

\* Steps of a request, as far as pc and reply go.
Goto(r, step) == pc' = [pc EXCEPT ![r] = step] /\ UNCHANGED reply
Answer(r, code) == /\ pc' = [pc EXCEPT ![r] = "done"]
                   /\ reply' = [reply EXCEPT ![r] = code]

Tick ==
    /\ now < MaxTime
    /\ now' = now + 1
    /\ UNCHANGED <<tables, lock, pc, req, ts, credit, balance, reply>>

\* POST /api/session creates the player's row.
Session(u) ==
    /\ ConnectionFree
    /\ users' = users \cup {u}
    /\ UNCHANGED <<now, rows, earnings, lock, pc, req, ts, credit, balance, reply>>

\* GET /api/challenge: the API's clock sets the deadline, the database's
\* clock will judge it.
Issue(u, c) ==
    /\ u \in users
    /\ rows[c] = NoRow
    /\ ConnectionFree
    /\ \E solution \in Answers, reward \in Rewards, skew \in Skews :
          rows' = [rows EXCEPT ![c] =
                     [user |-> u, solution |-> solution, reward |-> reward,
                      expiresAt |-> now + skew + Ttl,
                      status |-> "PENDING", resolvedAt |-> Never]]
    /\ UNCHANGED <<now, users, earnings, lock, pc, req, ts, credit, balance, reply>>

\* A mint request reaches the handler with a valid token of its user.
Receive(r, body) ==
    /\ pc[r] = "idle"
    /\ req' = [req EXCEPT ![r] = body]
    /\ Goto(r, "lookup")
    /\ UNCHANGED <<now, tables, lock, ts, credit, balance>>

LookupUser(r) ==
    /\ pc[r] = "lookup"
    /\ ConnectionFree
    /\ \/ req[r].user \in users /\ Goto(r, "read")
       \/ req[r].user \notin users /\ Answer(r, "unauthenticated")
    /\ UNCHANGED <<now, tables, lock, req, ts, credit, balance>>

\* The SELECT ... WHERE id = $1 AND user_id = $2, and what follows from it.
BugOwnAnyone(r) == Target(r) # NoRow
Own(r) == Target(r) # NoRow /\ Target(r).user = req[r].user

ReadChallenge(r) ==
    /\ pc[r] = "read"
    /\ ConnectionFree
    /\ \/ ~Own(r) /\ Answer(r, "unknown")
       \/ Own(r) /\ Target(r).status # "PENDING" /\ Answer(r, "conflict")
       \/ /\ Own(r) /\ Target(r).status = "PENDING"
          /\ \/ Target(r).expiresAt <= now /\ Goto(r, "late")
             \/ /\ Target(r).expiresAt > now
                /\ IF req[r].answer # Target(r).solution
                     THEN Goto(r, "wrong")
                     ELSE Goto(r, "begin")
    /\ UNCHANGED <<now, tables, lock, req, ts, credit, balance>>

\* The UPDATE to EXPIRED is a transaction of its own: it starts, waits for
\* the row's lock, and changes the row only if it is still PENDING.
StartVoid(r) ==
    /\ \/ pc[r] = "late" /\ Goto(r, "voidLate")
       \/ pc[r] = "wrong" /\ Goto(r, "voidWrong")
    /\ ConnectionFree
    /\ ts' = [ts EXCEPT ![r] = now]
    /\ UNCHANGED <<now, tables, lock, req, credit, balance>>

Resolve(r, status) ==
    rows' = [rows EXCEPT ![Chal(r)].status = status, ![Chal(r)].resolvedAt = ts[r]]

BugVoidGuardNone(r) == TRUE
VoidGuard(r) == Target(r).status = "PENDING"

BugVoidStatus == "INCORRECT"
VoidStatus == "EXPIRED"

VoidUpdate(r) ==
    /\ pc[r] \in Voiding
    /\ Unlocked(r)
    /\ \/ /\ VoidGuard(r)
          /\ Resolve(r, VoidStatus)
          /\ Answer(r, IF pc[r] = "voidLate" THEN "expired" ELSE "incorrect")
       \/ /\ ~VoidGuard(r)
          /\ Answer(r, "conflict")
          /\ UNCHANGED rows
    /\ UNCHANGED <<now, users, earnings, lock, req, ts, credit, balance>>

BeginTx(r) ==
    /\ pc[r] = "begin"
    /\ ConnectionFree
    /\ ts' = [ts EXCEPT ![r] = now]
    /\ Goto(r, "cas")
    /\ UNCHANGED <<now, tables, lock, req, credit, balance>>

\* UPDATE ... SET status = 'CLAIMED' WHERE ... RETURNING reward.
BugClaimGuardStatus(r) == Target(r).expiresAt > ts[r]
BugClaimGuardDeadline(r) == Target(r).status = "PENDING"
BugClaimGuardMargin(r) == Target(r).status = "PENDING" /\ Target(r).expiresAt > ts[r] + 1
ClaimGuard(r) == Target(r).status = "PENDING" /\ Target(r).expiresAt > ts[r]

ClaimUpdate(r) ==
    /\ pc[r] = "cas"
    /\ Unlocked(r)
    /\ IF ClaimGuard(r)
         THEN /\ lock' = [lock EXCEPT ![Chal(r)] = r]
              /\ credit' = [credit EXCEPT ![r] = Target(r).reward]
              /\ Goto(r, "insert")
         ELSE /\ pc' = [pc EXCEPT ![r] = "rollback"]
              /\ reply' = [reply EXCEPT ![r] = "conflict"]
              /\ UNCHANGED <<lock, credit>>
    /\ UNCHANGED <<now, tables, req, ts, balance>>

\* UNIQUE(challenge_id) fails the INSERT if a row of the challenge exists.
CreditExists(r) == \E e \in earnings : e.challenge = Chal(r)

\* The INSERT on the pool instead of the transaction's connection.
BugInsertOnPool(r) ==
    /\ pc[r] = "insert"
    /\ ConnectionFree
    /\ Goto(r, "commit")
    /\ UNCHANGED <<now, tables, lock, req, ts, credit, balance>>

InsertEarning(r) ==
    /\ pc[r] = "insert"
    /\ \/ ~CreditExists(r) /\ Goto(r, "commit")
       \/ /\ CreditExists(r)
          /\ pc' = [pc EXCEPT ![r] = "rollback"]
          /\ reply' = [reply EXCEPT ![r] = "conflict"]
    /\ UNCHANGED <<now, tables, lock, req, ts, credit, balance>>

Unlock(r) == lock' = [c \in Challenges |-> IF lock[c] = r THEN None ELSE lock[c]]

\* What a COMMIT makes visible, all at once.
ApplyCommit(r) ==
    /\ Resolve(r, "CLAIMED")
    /\ earnings' = earnings \cup {[id |-> r, user |-> req[r].user,
                                   challenge |-> Chal(r), amount |-> credit[r]]}
    /\ Unlock(r)

Commit(r) ==
    /\ pc[r] = "commit"
    /\ ApplyCommit(r)
    /\ Goto(r, "balance")
    /\ UNCHANGED <<now, users, req, ts, credit, balance>>

\* A transaction that ends in error is committed all the same.
BugRollbackCommits(r) ==
    /\ pc[r] = "rollback"
    /\ IF lock[Chal(r)] = r THEN Resolve(r, "CLAIMED") ELSE UNCHANGED rows
    /\ Unlock(r)
    /\ Goto(r, "done")
    /\ UNCHANGED <<now, users, earnings, req, ts, credit, balance>>

\* tx.rollback(), or the one the server does when the connection is dropped.
Rollback(r) ==
    /\ pc[r] = "rollback"
    /\ Unlock(r)
    /\ Goto(r, "done")
    /\ UNCHANGED <<now, tables, req, ts, credit, balance>>

QueryBalance(r) ==
    /\ pc[r] = "balance"
    /\ ConnectionFree
    /\ balance' = [balance EXCEPT ![r] = BalanceOf(req[r].user)]
    /\ Goto(r, "record")
    /\ UNCHANGED <<now, tables, lock, req, ts, credit>>

\* Step 7 and the 200 answer; what it records is module Retarget's.
RecordMint(r) ==
    /\ pc[r] = "record"
    /\ Answer(r, "claimed")
    /\ UNCHANGED <<now, tables, lock, req, ts, credit, balance>>
-----------------------------------------------------------------------------
(***************************************************************************)
(* Faults.  A statement's error is answered 409; a client's disconnect, or *)
(* a crash of the API, drops the handler where it waits and answers        *)
(* nothing.  Either way an open transaction rolls back, and a statement    *)
(* that ends a transaction may have taken effect or not.                   *)
(***************************************************************************)
Interrupted == {"conflict", "none"}

FailStatement(r, code) ==
    /\ pc[r] \in {"lookup", "read", "late", "wrong", "begin"} \cup Voiding
    /\ Answer(r, code)
    /\ UNCHANGED <<now, tables, lock, req, ts, credit, balance>>

FailInTransaction(r, code) ==
    /\ pc[r] \in {"cas", "insert", "commit"}
    /\ pc' = [pc EXCEPT ![r] = "rollback"]
    /\ reply' = [reply EXCEPT ![r] = code]
    /\ UNCHANGED <<now, tables, lock, req, ts, credit, balance>>

LoseVoidResult(r, code) ==
    /\ pc[r] \in Voiding
    /\ Unlocked(r)
    /\ VoidGuard(r)
    /\ Resolve(r, VoidStatus)
    /\ Answer(r, code)
    /\ UNCHANGED <<now, users, earnings, lock, req, ts, credit, balance>>

LoseCommitResult(r, code) ==
    /\ pc[r] = "commit"
    /\ ApplyCommit(r)
    /\ Answer(r, code)
    /\ UNCHANGED <<now, users, req, ts, credit, balance>>

\* After the commit: the balance query fails (0 is reported), or the client
\* is gone.
FailBalance(r) ==
    /\ pc[r] = "balance"
    /\ Goto(r, "record")
    /\ UNCHANGED <<now, tables, lock, req, ts, credit, balance>>

DropCredited(r) ==
    /\ pc[r] \in Credited
    /\ Answer(r, "none")
    /\ UNCHANGED <<now, tables, lock, req, ts, credit, balance>>

Fault(r) ==
    /\ Faults
    /\ \/ \E code \in Interrupted :
            \/ FailStatement(r, code)
            \/ FailInTransaction(r, code)
            \/ LoseVoidResult(r, code)
            \/ LoseCommitResult(r, code)
       \/ FailBalance(r)
       \/ DropCredited(r)
-----------------------------------------------------------------------------
Handle(r) ==
    \/ LookupUser(r) \/ ReadChallenge(r)
    \/ StartVoid(r) \/ VoidUpdate(r)
    \/ BeginTx(r) \/ ClaimUpdate(r) \/ InsertEarning(r)
    \/ Commit(r) \/ Rollback(r)
    \/ QueryBalance(r) \/ RecordMint(r)

Next ==
    \/ Tick
    \/ \E u \in Users : Session(u) \/ \E c \in Challenges : Issue(u, c)
    \/ \E r \in Requests :
          \/ \E body \in Body : Receive(r, body)
          \/ Handle(r)
          \/ Fault(r)

Spec == Init /\ [][Next]_vars

\* The runtime polls every ready task, and the database grants a lock or a
\* connection once it stays free: a request's own next step, if it stays
\* possible, happens.
FairSpec == Spec /\ \A r \in Requests : WF_vars(Handle(r))
-----------------------------------------------------------------------------
TypeOK ==
    /\ now \in Nat
    /\ users \subseteq Users
    /\ rows \in [Challenges -> Row \cup {NoRow}]
    /\ earnings \subseteq Earning
    /\ lock \in [Challenges -> Requests \cup {None}]
    /\ pc \in [Requests -> Steps]
    /\ req \in [Requests -> Body \cup {None}]
    /\ ts \in [Requests -> Nat]
    /\ credit \in [Requests -> Rewards \cup {0}]
    /\ balance \in [Requests -> Nat]
    /\ reply \in [Requests -> Replies]

\* The earnings table and the challenges table agree, whatever was
\* interrupted and in whichever order: a CLAIMED challenge has exactly one
\* row, for its owner and its reward, and no other challenge has any
\* (mint.rs steps 4-5; concurrency_tests.rs checks it for one challenge).
PaidFor(c) == {e \in earnings : e.challenge = c}

LedgerExact ==
    \A c \in Challenges :
        IF rows[c].status = "CLAIMED"
          THEN \E e \in earnings : /\ PaidFor(c) = {e}
                                   /\ e.user = rows[c].user
                                   /\ e.amount = rows[c].reward
          ELSE PaidFor(c) = {}

\* The row lock and the compare-and-set alone exclude a second credit: no
\* INSERT of the handler meets UNIQUE(challenge_id) (mint.rs:134-137, 159-171;
\* 003_earnings.sql:6), so the constraint is a second defence.
UniqueNeverNeeded == \A r \in Requests : pc[r] = "insert" => ~CreditExists(r)

\* Of all requests for a challenge at most one is told that it resolved it,
\* and what it is told is what the tables hold (mint.rs:95-118, 134-157, 210).
Decisive(r) == reply[r] \in {"claimed", "expired", "incorrect"}

OneWinner ==
    /\ \A q, r \in Requests : Decisive(q) /\ Decisive(r) /\ Chal(q) = Chal(r) => q = r
    /\ \A r \in Requests :
          /\ reply[r] = "claimed" =>
                \E e \in earnings : e.id = r /\ e.challenge = Chal(r) /\ e.amount = credit[r]
          /\ reply[r] \in {"expired", "incorrect"} => Target(r).status = "EXPIRED"

\* A challenge is CLAIMED only by its owner's right answer in a transaction
\* begun before the deadline, and EXPIRED before the deadline only by its
\* owner's wrong answer, although each handler decides on what it read
\* several statements earlier (mint.rs:57-134).
ResolvedForCause ==
    \A c \in Challenges :
        /\ rows[c].status = "CLAIMED" =>
              /\ rows[c].resolvedAt < rows[c].expiresAt
              /\ \E e \in earnings :
                    /\ e.challenge = c
                    /\ req[e.id] = [user |-> rows[c].user, challenge |-> c,
                                    answer |-> rows[c].solution]
        /\ rows[c].status = "EXPIRED" =>
              \/ rows[c].resolvedAt >= rows[c].expiresAt
              \/ \E r \in Requests : /\ pc[r] = "done"
                                     /\ Chal(r) = c
                                     /\ req[r].user = rows[c].user
                                     /\ req[r].answer # rows[c].solution

\* A player's balance is the sum of the rewards of the challenges they own
\* and claimed (concurrency_tests.rs, "balance = sum of CLAIMED rewards").
ClaimedRewards(u) ==
    MapThenSumSet(LAMBDA c : rows[c].reward,
        {c \in Challenges : rows[c].status = "CLAIMED" /\ rows[c].user = u})

BalancesAddUp == \A u \in Users : BalanceOf(u) = ClaimedRewards(u)

\* Without faults, a 200 reports a balance that counts its own reward and
\* nothing the player has not claimed, with other mints committing around the
\* query, which is outside the transaction (mint.rs:178-188).
ReportedBalance ==
    \A r \in Requests : reply[r] = "claimed" =>
        /\ credit[r] <= balance[r]
        /\ balance[r] <= ClaimedRewards(req[r].user)

\* Without faults, a 409 means that trying again is of no use: the challenge
\* is resolved or its deadline has passed (mint.rs:78, 95, 112, 151-157).
ConflictIsFinal ==
    \A r \in Requests : reply[r] = "conflict" =>
        Target(r).status # "PENDING" \/ Target(r).expiresAt <= now

\* What the 409 says (error.rs:14, "challenge already resolved").
ConflictMeansResolved ==
    \A r \in Requests : reply[r] = "conflict" => Target(r).status # "PENDING"

\* Every request that was received is answered or dropped: a request that
\* waits for a row lock keeps its connection, and whoever has the lock never
\* waits for one, because the credit runs on the connection of its transaction
\* (db.rs:6; mint.rs:140, 165).
Answered == \A r \in Requests : pc[r] = "lookup" ~> pc[r] = "done"

\* The mint implements the ledger: it issues, credits and voids challenges,
\* one at a time, and everything else it does is invisible there.
Outcome(status) ==
    CASE status = "PENDING" -> "open"
      [] status = "CLAIMED" -> "credited"
      [] status = "EXPIRED" -> "void"

Book ==
    [c \in Challenges |->
        IF rows[c] = NoRow
          THEN [outcome |-> "unissued"]
          ELSE [owner |-> rows[c].user, reward |-> rows[c].reward,
                outcome |-> Outcome(rows[c].status)]]

Credits == {[challenge |-> e.challenge, user |-> e.user, amount |-> e.amount] : e \in earnings}

TheLedger == INSTANCE Ledger WITH book <- Book, credits <- Credits

ImplementsLedger == TheLedger!Spec
=============================================================================

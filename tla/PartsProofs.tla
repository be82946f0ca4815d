----------------------------- MODULE PartsProofs -----------------------------
(***************************************************************************)
(* Theorems about the four small parts that MCParts puts side by side (the *)
(* transaction submitter, the accounts, the problem generator and the game *)
(* page), each for itself, and of the four together.                       *)
(***************************************************************************)
EXTENDS MCParts, TLAPS

-----------------------------------------------------------------------------
(* The submitter.  Beside the nonce, two values that were read earlier are *)
(* stored later: the local nonce of the call that has the lock, and the    *)
(* count recover_gap read.  The first is as close to the count as a nonce  *)
(* is when no answer is on its way; the second may lag by what raced it.   *)

Near(n, lag) == n - dropped <= count /\ count <= n + missed + setBack + lag

\* What the call with the lock is about to store.
ToStore(c) == IF step[c] \in {"sent", "resent"} THEN local[c] + 1 ELSE local[c]

SubInv ==
    /\ SubTypeOK
    /\ Near(nonce, InFlight)
    /\ \A c \in lock : Near(ToStore(c), 0)
    /\ gap.at # "idle" => Near(gap.chain, raced)

\* The submitter starts in its invariant.
LEMMA SubInitInv == SubInit => SubInv
  BY FaultAssumption DEF SubInit, SubInv, SubTypeOK, Near, InFlight, Answering, Holding

\* An answer is on its way to the call with the lock, if to any.
LEMMA AnswerOfHolder ==
    ASSUME SubTypeOK
    PROVE  /\ InFlight \in {0, 1}
           /\ lock = {} => InFlight = 0
           /\ \A c \in lock : InFlight = IF step[c] \in {"sent", "resent"} THEN 1 ELSE 0
  BY DEF SubTypeOK, InFlight, Answering, Holding

\* The types, for a step of a call.
LEMMA SubCallTypes ==
    ASSUME SubTypeOK, NEW c \in Submits, Submit(c)
    PROVE  SubTypeOK'
<1> USE DEF SubTypeOK, Holding, Goto, Release, history
<1>1. CASE Lock(c)
  BY <1>1 DEF Lock
<1>2. CASE Take(c)
  BY <1>2 DEF Take
<1>3. CASE Accept(c) \/ LoseAnswer(c)
  BY <1>3 DEF Accept, LoseAnswer
<1>4. CASE Refuse(c) \/ NonceError(c) \/ FailResync(c)
  BY <1>4 DEF Refuse, NonceError, FailResync
<1>5. CASE AskFresh(c) \/ Resync(c)
  BY <1>5 DEF AskFresh, Resync
<1>6. CASE Confirm(c)
  BY <1>6 DEF Confirm
<1> QED
  BY <1>1, <1>2, <1>3, <1>4, <1>5, <1>6 DEF Submit

\* The types, for every other step.
LEMMA SubOtherTypes ==
    ASSUME SubTypeOK,
           \/ ReadChain \/ ReadLocal \/ StoreNonce \/ FailRecover
           \/ SendForeign \/ DropPending \/ UNCHANGED subVars
    PROVE  SubTypeOK'
<1> USE FaultAssumption DEF SubTypeOK, history
<1>1. CASE ReadChain \/ ReadLocal \/ FailRecover \/ UNCHANGED subVars
  BY <1>1 DEF ReadChain, ReadLocal, FailRecover, subVars
<1>2. CASE StoreNonce
  BY <1>2 DEF StoreNonce, Ahead
<1>3. CASE SendForeign \/ DropPending
  BY <1>3 DEF SendForeign, DropPending
<1> QED
  BY <1>1, <1>2, <1>3

\* A step of a call keeps the rest of the invariant: only it has the lock.
LEMMA SubCallInv ==
    ASSUME SubInv, NEW c \in Submits, Submit(c)
    PROVE  SubInv'
<1>1. SubTypeOK /\ SubTypeOK'
  BY SubCallTypes DEF SubInv
<1> USE <1>1, AnswerOfHolder DEF SubInv, Near, ToStore, history, Goto, Release
<1>2. InFlight' \in {0, 1} /\ (lock' = {} => InFlight' = 0)
  BY DEF SubTypeOK, InFlight, Answering, Holding
<1>3. \A d \in lock' : InFlight' = IF step'[d] \in {"sent", "resent"} THEN 1 ELSE 0
  BY DEF SubTypeOK, InFlight, Answering, Holding
<1>4. \A d \in Submits \ {c} : step'[d] = step[d] /\ local'[d] = local[d]
  BY DEF SubTypeOK, Submit, Lock, Take, Accept, LoseAnswer, Refuse, NonceError, AskFresh,
     Resync, FailResync, Confirm
<1>5. CASE Lock(c)
  BY <1>2, <1>3, <1>5 DEF Lock, SubTypeOK
<1>6. ASSUME step[c] \in Holding
      PROVE  /\ lock = {c} /\ Near(ToStore(c), 0) /\ local[c] \in Nat
             /\ lock \ {c} = {}
  BY <1>6 DEF SubTypeOK
<1>7. CASE Take(c)
  <2>1. /\ step[c] \in {"send", "resend"} /\ step'[c] \in {"sent", "resent"}
        /\ lock = {c} /\ lock' = lock /\ local' = local
        /\ count' = count + 1 /\ raced' = raced + 1
        /\ UNCHANGED <<nonce, gap, foreign, dropped, missed, setBack>>
    BY <1>6, <1>7 DEF Take, SubTypeOK, Holding
  <2>2. InFlight = 0 /\ InFlight' = 1
    BY <1>3, <2>1
  <2>3. ToStore(c)' = local[c] + 1 /\ Near(local[c], 0) /\ local[c] \in Nat
    BY <1>6, <2>1 DEF Holding
  <2> QED
    BY <2>1, <2>2, <2>3 DEF SubTypeOK
<1>8. CASE Accept(c)
  BY <1>2, <1>6, <1>8 DEF Accept, SubTypeOK, Holding
<1>9. CASE LoseAnswer(c)
  <2>1. /\ step[c] \in {"sent", "resent"} /\ lock = {c} /\ lock' = {}
        /\ missed' = missed + 1
        /\ UNCHANGED <<nonce, gap, count, dropped, raced, setBack>>
    BY <1>6, <1>9 DEF LoseAnswer, Holding
  <2>2. InFlight = 1 /\ InFlight' = 0
    BY <1>2, <2>1
  <2> QED
    BY <2>1, <2>2 DEF SubTypeOK
<1>10. CASE Refuse(c) \/ FailResync(c)
  <2>1. /\ step[c] \in Holding \ {"sent", "resent"} /\ lock = {c} /\ lock' = {}
        /\ UNCHANGED <<nonce, gap, count, dropped, raced, missed, setBack>>
    BY <1>6, <1>10 DEF Refuse, FailResync, Holding
  <2>2. InFlight = 0 /\ InFlight' = 0
    BY <1>2, <2>1
  <2> QED
    BY <2>1, <2>2 DEF SubTypeOK
<1>11. CASE NonceError(c)
  BY <1>3, <1>6, <1>11 DEF NonceError, SubTypeOK, Holding
<1>12. CASE AskFresh(c)
  BY <1>3, <1>6, <1>12 DEF AskFresh, SubTypeOK, Holding
<1>13. CASE Resync(c)
  BY <1>3, <1>6, <1>13 DEF Resync, SubTypeOK, Holding
<1>14. CASE Confirm(c)
  <2>1. c \notin lock /\ InFlight' = InFlight /\ \A d \in lock : d \in Submits \ {c}
    BY <1>14 DEF Confirm, SubTypeOK, Holding, InFlight, Answering
  <2> QED
    BY <1>4, <1>14, <2>1 DEF Confirm, SubTypeOK
<1> QED
  BY <1>5, <1>7, <1>8, <1>9, <1>10, <1>11, <1>12, <1>13, <1>14 DEF Submit

\* The steps of recover_gap and of the faults leave the calls as they are.
LEMMA SubStepInv == SubInv /\ [SubNext]_subVars => SubInv'
<1> SUFFICES ASSUME SubInv, [SubNext]_subVars PROVE SubInv'
  OBVIOUS
<1>1. ASSUME NEW c \in Submits, Submit(c) PROVE SubInv'
  BY <1>1, SubCallInv
<1>2. ASSUME \/ ReadChain \/ ReadLocal \/ StoreNonce \/ FailRecover
             \/ SendForeign \/ DropPending \/ UNCHANGED subVars
      PROVE  SubInv'
  <2>1. SubTypeOK /\ SubTypeOK'
    BY <1>2, SubOtherTypes DEF SubInv
  <2>2. UNCHANGED <<lock, step, local>>
    BY <1>2 DEF ReadChain, ReadLocal, StoreNonce, FailRecover, SendForeign, DropPending, subVars
  <2>3. InFlight' = InFlight /\ InFlight \in {0, 1}
    BY <2>2 DEF InFlight, Answering
  <2>4. /\ \A c \in lock : ToStore(c)' = ToStore(c) /\ ToStore(c) \in Nat
        /\ lock' = lock
    BY <2>1, <2>2 DEF ToStore, SubTypeOK
  <2> HIDE DEF InFlight, ToStore
  <2> USE <2>1, <2>3, <2>4 DEF SubInv, Near, SubTypeOK, history
  <2>5. CASE ReadChain
    BY <2>5 DEF ReadChain
  <2>6. CASE ReadLocal
    <3>1. gap.at # "idle" /\ gap'.chain = gap.chain
      BY <2>6 DEF ReadLocal
    <3> QED
      BY <2>6, <3>1 DEF ReadLocal
  <2>7. CASE StoreNonce
    BY <2>7 DEF StoreNonce, Ahead
  <2>8. CASE SendForeign
    BY <2>8 DEF SendForeign
  <2>9. CASE DropPending
    BY <2>9 DEF DropPending
  <2>10. CASE FailRecover
    BY <2>10 DEF FailRecover
  <2>11. CASE UNCHANGED subVars
    BY <2>11 DEF subVars
  <2> QED
    BY <1>2, <2>5, <2>6, <2>7, <2>8, <2>9, <2>10, <2>11
<1> QED
  BY <1>1, <1>2 DEF SubNext

\* Whatever is fair: the invariant holds in every state that is reached.
LEMMA SubmitterSafe == SubInit /\ [][SubNext]_subVars => []SubInv
  BY SubInitInv, SubStepInv, PTL

\* The invariant holds in every reachable state of the submitter.
THEOREM SubmitterInvariant == SubSpec => []SubInv
  BY SubmitterSafe, PTL DEF SubSpec

\* The types, and that at most one call is between lock and release.
THEOREM SubmitterTypeOK == SubSpec => []SubTypeOK
<1>1. SubInv => SubTypeOK
  BY DEF SubInv
<1> QED
  BY <1>1, SubmitterInvariant, PTL

\* For any number of calls, recoveries and faults: the nonce is ahead by no
\* more than the node dropped, and behind by no more than the answer on its
\* way, the answers that were lost, and what raced a recover_gap that stored
\* (tx_submitter.rs:52-70, 90-98).
THEOREM SubmitterNonceDrift == SubSpec => []NonceDrift
<1>1. SubInv => NonceDrift
  BY DEF SubInv, Near, NonceDrift
<1> QED
  BY <1>1, SubmitterInvariant, PTL

\* How many steps a call has before it at most.
CallLeft(c) ==
    CASE step[c] = "start"  -> 7
      [] step[c] = "send"   -> 6
      [] step[c] = "resync" -> 5
      [] step[c] = "fresh"  -> 4
      [] step[c] = "resend" -> 3
      [] step[c] \in {"sent", "resent"} -> 2
      [] step[c] = "wait"   -> 1
      [] OTHER -> 0

\* No step takes a call back, and each of its own takes it on.
CallsGoOn ==
    \A c \in Submits :
        /\ step'[c] = step[c] \/ CallLeft(c)' < CallLeft(c)
        /\ Submit(c) => CallLeft(c)' < CallLeft(c)

\* The two tries and the resync come in one order, and none comes twice.
LEMMA CallsGoOnStep == SubTypeOK /\ [SubNext]_subVars => CallsGoOn
<1> SUFFICES ASSUME SubTypeOK, [SubNext]_subVars PROVE CallsGoOn
  OBVIOUS
<1> DEFINE Advances(c) == /\ CallLeft(c)' < CallLeft(c)
                          /\ \A d \in Submits \ {c} : step'[d] = step[d]
<1>1. ASSUME NEW c \in Submits, Submit(c) PROVE Advances(c)
  <2> USE DEF SubTypeOK, Holding, CallLeft, Goto, Release
  <2>1. CASE Lock(c)
    BY <2>1 DEF Lock
  <2>2. CASE Take(c)
    BY <2>2 DEF Take
  <2>3. CASE NonceError(c) \/ AskFresh(c) \/ Resync(c)
    BY <2>3 DEF NonceError, AskFresh, Resync
  <2>4. CASE Confirm(c)
    BY <2>4 DEF Confirm
  <2>5. CASE Accept(c) \/ LoseAnswer(c) \/ Refuse(c) \/ FailResync(c)
    <3>1. /\ step[c] \in Holding
          /\ Goto(c, "failed") \/ (step[c] \in {"sent", "resent"} /\ Goto(c, "wait"))
      BY <2>5 DEF Accept, LoseAnswer, Refuse, FailResync
    <3> QED
      BY <3>1
  <2> QED
    BY <1>1, <2>1, <2>2, <2>3, <2>4, <2>5 DEF Submit
<1>2. step' = step \/ \E c \in Submits : Advances(c)
  BY <1>1 DEF SubNext, subVars, ReadChain, ReadLocal, StoreNonce, FailRecover, SendForeign,
     DropPending
<1>3. \A c \in Submits : step'[c] = step[c] \/ CallLeft(c)' < CallLeft(c)
  BY <1>2
<1> QED
  BY <1>1, <1>3 DEF CallsGoOn

\* A call of submit is over after seven steps at most: there is no loop of
\* resyncs, and the lock goes with the call (tx_submitter.rs:51-88).
THEOREM SubmitterGoesOn == SubSpec => [][CallsGoOn]_subVars
  BY CallsGoOnStep, SubmitterTypeOK, PTL DEF SubSpec
-----------------------------------------------------------------------------
(* The accounts.  An answer stays true because rows only gain: no address  *)
(* is ever taken back, and no account removed.  What a call may answer     *)
(* after its first statement is settled by then, but for accounts in late. *)

\* Every e-mail of a row is on record.
EmailsHeld == \A s \in Subs : Exists(s) => <<s, users[s].email>> \in held

\* The UPDATE of a call that is about to look for its row missed it.
MissedFor(s) == Exists(s) => AddressOf(s) # None \/ s \in late
MissedForCause == \A k \in Calls : call[k].at = "select" => MissedFor(call[k].sub)

\* What a call has answered is so, for good.
CallAnswered(k) ==
    call[k].at = "done" =>
        LET s == call[k].sub
        IN  /\ call[k].reply = "ok" => AddressOf(s) = call[k].input /\ call[k].input # None
            /\ call[k].reply = "inUse" =>
                 \E t \in Subs \ {s} : AddressOf(t) = call[k].input /\ AddressOf(t) # None
            /\ call[k].reply = "alreadySet" => AddressOf(s) # None \/ s \in late
            /\ call[k].reply = "internal" => \E t \in Subs \ {s} : <<t, call[k].input>> \in held

AccInv ==
    /\ AccTypeOK /\ OneHolder
    /\ EmailsHeld /\ MissedForCause /\ \A k \in Calls : CallAnswered(k)

\* The accounts start in their invariant.
LEMMA AccInitInv == AccInit => AccInv
  BY NoneAssumption DEF AccInit, AccInv, AccTypeOK, CallType, Idle, OneHolder, CallAnswered,
     EmailsHeld, MissedForCause, MissedFor, Exists, AddressOf

\* Every statement keeps the types.
LEMMA AccTypeStep == AccTypeOK /\ [AccNext]_accVars => AccTypeOK'
<1> SUFFICES ASSUME AccTypeOK, [AccNext]_accVars PROVE AccTypeOK'
  OBVIOUS
<1> USE DEF AccTypeOK, CallType, Ready
<1>1. ASSUME NEW k \in Calls, QueryEarnings(k) \/ SelectExisting(k) \/ FailCall(k)
      PROVE  AccTypeOK'
  BY <1>1 DEF QueryEarnings, SelectExisting, FailCall, Answer, Drop, Idle
<1>2. ASSUME NEW k \in Calls, NEW s \in Subs, RejectAddress(k, s) PROVE AccTypeOK'
  BY <1>2 DEF RejectAddress, Answer
<1>3. ASSUME NEW k \in Calls, NEW s \in Subs, NEW e \in Emails, Upsert(k, s, e)
      PROVE  AccTypeOK'
  <2>1. AddressOf(s) \in Addresses \cup {None}
    BY DEF AddressOf, Exists, Row
  <2>2. users' \in [Subs -> Row \cup {None}]
    BY <1>3, <2>1 DEF Upsert, Upserted, Row
  <2>3. call' \in [Calls -> CallType]
    BY <1>3 DEF Upsert, Proceed, Drop, Idle
  <2> QED
    BY <1>3, <2>2, <2>3 DEF Upsert
<1>4. ASSUME NEW k \in Calls, NEW s \in Subs, NEW e \in Emails, RefuseEmail(k, s, e)
      PROVE  AccTypeOK'
  BY <1>4 DEF RefuseEmail, Answer
<1>5. ASSUME NEW k \in Calls, NEW s \in Subs, NEW a \in Addresses, SetAddress(k, s, a)
      PROVE  AccTypeOK'
  <2>1. users' \in [Subs -> Row \cup {None}]
    BY <1>5 DEF SetAddress, Unset, Exists, Row
  <2>2. call' \in [Calls -> CallType]
    BY <1>5 DEF SetAddress, Answer, Drop, Idle
  <2> QED
    BY <1>5, <2>1, <2>2 DEF SetAddress
<1>6. ASSUME NEW k \in Calls, NEW s \in Subs, NEW a \in Addresses,
             RefuseAddress(k, s, a) \/ MissRow(k, s, a)
      PROVE  AccTypeOK'
  BY <1>6 DEF RefuseAddress, MissRow, Answer, Proceed
<1>7. CASE UNCHANGED accVars
  BY <1>7 DEF accVars
<1> QED
  BY <1>1, <1>2, <1>3, <1>4, <1>5, <1>6, <1>7 DEF AccNext

\* What a step does to the table: it only gains.
Gains == \A s \in Subs :
    /\ Exists(s) => Exists(s)'
    /\ AddressOf(s) # None => AddressOf(s)' = AddressOf(s)

\* A step only adds: an address that is set stays, and so does an e-mail held.
LEMMA AccGains ==
    ASSUME AccTypeOK, [AccNext]_accVars PROVE Gains /\ held \subseteq held' /\ late \subseteq late'
<1> USE NoneAssumption DEF AccTypeOK
<1>1. ASSUME NEW k \in Calls, NEW s \in Subs, NEW e \in Emails, Upsert(k, s, e)
      PROVE  Gains /\ held \subseteq held' /\ late \subseteq late'
  <2>1. Upserted(s, e) \in Row /\ Upserted(s, e).address = AddressOf(s)
    BY DEF Upserted, AddressOf, Exists, Row
  <2>2. users' = [users EXCEPT ![s] = Upserted(s, e)]
    BY <1>1 DEF Upsert
  <2>3. Gains
    BY <2>1, <2>2 DEF Gains, Exists, AddressOf
  <2> QED
    BY <1>1, <2>3 DEF Upsert
<1>2. ASSUME NEW k \in Calls, NEW s \in Subs, NEW a \in Addresses, SetAddress(k, s, a)
      PROVE  Gains /\ held \subseteq held' /\ late \subseteq late'
  <2>1. /\ users' = [users EXCEPT ![s] = [users[s] EXCEPT !.address = a]]
        /\ [users[s] EXCEPT !.address = a] \in Row /\ AddressOf(s) = None
    BY <1>2 DEF SetAddress, Unset, Exists, AddressOf, Row
  <2>2. Gains
    BY <2>1 DEF Gains, Exists, AddressOf
  <2> QED
    BY <1>2, <2>2 DEF SetAddress
<1>3. UNCHANGED <<users, held, late>> => Gains /\ held \subseteq held' /\ late \subseteq late'
  BY DEF Gains, Exists, AddressOf
<1> QED
  BY <1>1, <1>2, <1>3 DEF AccNext, accVars, QueryEarnings, SelectExisting, FailCall,
     RejectAddress, RefuseEmail, RefuseAddress, MissRow

\* The two UNIQUE constraints survive every statement.
LEMMA AccRowsStep == AccInv /\ [AccNext]_accVars => OneHolder' /\ EmailsHeld'
<1> SUFFICES ASSUME AccInv, [AccNext]_accVars PROVE OneHolder' /\ EmailsHeld'
  OBVIOUS
<1> USE NoneAssumption DEF AccInv, AccTypeOK
<1>1. ASSUME NEW k \in Calls, NEW s \in Subs, NEW e \in Emails, Upsert(k, s, e)
      PROVE  OneHolder' /\ EmailsHeld'
  <2>1. Upserted(s, e) \in Row /\ Upserted(s, e).address = AddressOf(s) /\ Upserted(s, e).email = e
    BY DEF Upserted, AddressOf, Exists, Row
  <2>2. users' = [users EXCEPT ![s] = Upserted(s, e)] /\ held' = held \cup {<<s, e>>}
    BY <1>1 DEF Upsert
  <2>3. \A t \in Subs : AddressOf(t)' = AddressOf(t)
    BY <2>1, <2>2 DEF AddressOf, Exists
  <2>4. EmailsHeld'
    BY <2>1, <2>2 DEF EmailsHeld, Exists
  <2> QED
    BY <2>3, <2>4 DEF OneHolder
<1>2. ASSUME NEW k \in Calls, NEW s \in Subs, NEW a \in Addresses, SetAddress(k, s, a)
      PROVE  OneHolder' /\ EmailsHeld'
  <2>1. /\ users' = [users EXCEPT ![s] = [users[s] EXCEPT !.address = a]]
        /\ [users[s] EXCEPT !.address = a] \in Row
        /\ [users[s] EXCEPT !.address = a].email = users[s].email
        /\ Exists(s) /\ held' = held /\ ~AddressTaken(s, a)
    BY <1>2 DEF SetAddress, Unset, Exists, Row
  <2>2. \A t \in Subs : AddressOf(t)' = IF t = s THEN a ELSE AddressOf(t)
    BY <2>1 DEF AddressOf, Exists, Row
  <2>3. OneHolder'
    BY <2>1, <2>2 DEF OneHolder, AddressTaken
  <2>4. EmailsHeld'
    BY <2>1 DEF EmailsHeld, Exists
  <2> QED
    BY <2>3, <2>4
<1>3. UNCHANGED <<users, held>> => OneHolder' /\ EmailsHeld'
  BY DEF OneHolder, EmailsHeld, Exists, AddressOf
<1> QED
  BY <1>1, <1>2, <1>3 DEF AccNext, accVars, QueryEarnings, SelectExisting, FailCall,
     RejectAddress, RefuseEmail, RefuseAddress, MissRow

\* A call that does not move keeps what it has answered or may answer.
LEMMA AccCallKept ==
    ASSUME AccInv, [AccNext]_accVars, NEW j \in Calls, call'[j] = call[j],
           call[j].at = "done"
    PROVE  CallAnswered(j)'
<1>1. Gains /\ held \subseteq held' /\ late \subseteq late'
  BY AccGains DEF AccInv
<1>2. CallAnswered(j) /\ call[j].sub \in Subs
  BY DEF AccInv, AccTypeOK, CallType, Idle
<1> QED
  BY <1>1, <1>2 DEF CallAnswered, Gains

\* What was answered stays so, and what is answered now is so.
LEMMA AccAnswersStep == AccInv /\ [AccNext]_accVars => \A k \in Calls : CallAnswered(k)'
<1> SUFFICES ASSUME AccInv, [AccNext]_accVars, NEW j \in Calls PROVE CallAnswered(j)'
  OBVIOUS
<1> USE NoneAssumption DEF AccInv, AccTypeOK
<1>0. CASE call'[j] = call[j]
  BY <1>0, AccCallKept DEF CallAnswered
<1>1. CASE call'[j] # call[j]
  <2>1. ASSUME NEW k \in Calls, QueryEarnings(k) \/ FailCall(k) PROVE CallAnswered(j)'
    BY <1>1, <2>1 DEF QueryEarnings, FailCall, Answer, Drop, Idle, CallAnswered
  <2>2. ASSUME NEW k \in Calls, SelectExisting(k) PROVE CallAnswered(j)'
    BY <1>1, <2>2 DEF SelectExisting, Answer, CallAnswered, MissedForCause, MissedFor, Exists, AddressOf
  <2>3. ASSUME NEW k \in Calls, NEW s \in Subs, RejectAddress(k, s) PROVE CallAnswered(j)'
    BY <1>1, <2>3 DEF RejectAddress, Answer, CallAnswered
  <2>4. ASSUME NEW k \in Calls, NEW s \in Subs, NEW e \in Emails, Upsert(k, s, e)
        PROVE  CallAnswered(j)'
    BY <1>1, <2>4 DEF Upsert, Proceed, Drop, Idle, CallAnswered
  <2>5. ASSUME NEW k \in Calls, NEW s \in Subs, NEW e \in Emails, RefuseEmail(k, s, e)
        PROVE  CallAnswered(j)'
    BY <1>1, <2>5 DEF RefuseEmail, Answer, CallAnswered, EmailTaken, EmailsHeld
  <2>6. ASSUME NEW k \in Calls, NEW s \in Subs, NEW a \in Addresses, SetAddress(k, s, a)
        PROVE  CallAnswered(j)'
    <3>1. AddressOf(s)' = a
      BY <2>6 DEF SetAddress, AddressOf, Exists, Unset, Row
    <3> QED
      BY <1>1, <2>6, <3>1 DEF SetAddress, Answer, Drop, Idle, CallAnswered
  <2>7. ASSUME NEW k \in Calls, NEW s \in Subs, NEW a \in Addresses, RefuseAddress(k, s, a)
        PROVE  CallAnswered(j)'
    BY <1>1, <2>7 DEF RefuseAddress, Answer, CallAnswered, AddressTaken, AddressOf, Exists
  <2>8. ASSUME NEW k \in Calls, NEW s \in Subs, NEW a \in Addresses, MissRow(k, s, a)
        PROVE  CallAnswered(j)'
    BY <1>1, <2>8 DEF MissRow, Proceed, CallAnswered
  <2> QED
    BY <1>1, <2>1, <2>2, <2>3, <2>4, <2>5, <2>6, <2>7, <2>8 DEF AccNext, accVars
<1> QED
  BY <1>0, <1>1

\* A call on its second statement missed the row for a cause.
LEMMA AccMissedStep == AccInv /\ [AccNext]_accVars => MissedForCause'
<1> SUFFICES ASSUME AccInv, [AccNext]_accVars,
                    NEW j \in Calls, NEW s, call'[j].at = "select", call'[j].sub = s
             PROVE  MissedFor(s)'
  BY DEF MissedForCause
<1> USE NoneAssumption DEF AccInv, AccTypeOK
<1>1. Gains /\ late \subseteq late'
  BY AccGains
<1>2. CASE call'[j] = call[j]
  <2>1. s \in Subs /\ call[j].at = "select" /\ call[j].sub = s
    BY <1>2 DEF CallType, Idle
  <2>2. CASE Exists(s)
    BY <1>1, <2>1, <2>2 DEF MissedForCause, MissedFor, Gains
  <2>3. CASE ~Exists(s)
    <3>1. ASSUME NEW k \in Calls, NEW t \in Subs, NEW e \in Emails, Upsert(k, t, e)
          PROVE  MissedFor(s)'
      BY <2>1, <2>3, <3>1 DEF Upsert, Exists, MissedFor
    <3>2. ASSUME NEW k \in Calls, NEW t \in Subs, NEW a \in Addresses, SetAddress(k, t, a)
          PROVE  MissedFor(s)'
      BY <2>1, <2>3, <3>2 DEF SetAddress, Exists, Unset, MissedFor
    <3>3. users' = users => MissedFor(s)'
      BY <2>3 DEF Exists, MissedFor
    <3> QED
      BY <3>1, <3>2, <3>3 DEF AccNext, accVars, QueryEarnings, SelectExisting, FailCall,
         RejectAddress, RefuseEmail, RefuseAddress, MissRow
  <2> QED
    BY <2>2, <2>3
<1>3. CASE call'[j] # call[j]
  <2>1. PICK k \in Calls, t \in Subs, a \in Addresses : MissRow(k, t, a)
    BY <1>3 DEF AccNext, accVars, QueryEarnings, SelectExisting, FailCall, RejectAddress,
       Upsert, RefuseEmail, SetAddress, RefuseAddress, Answer, Proceed, Drop, Idle
  <2>2. t = s /\ users' = users
    BY <1>3, <2>1 DEF MissRow, Proceed
  <2> QED
    BY <2>1, <2>2 DEF MissRow, Unset, Exists, AddressOf, MissedFor
<1> QED
  BY <1>2, <1>3

\* The invariant holds in every reachable state of the accounts.
THEOREM AccountsInvariant == AccSpec => []AccInv
<1>1. AccInv /\ [AccNext]_accVars => AccInv'
  BY AccTypeStep, AccRowsStep, AccAnswersStep, AccMissedStep DEF AccInv
<1> QED
  BY <1>1, AccInitInv, PTL DEF AccSpec

\* The rows and the calls keep their types.
THEOREM AccountsTypeOK == AccSpec => []AccTypeOK
<1>1. AccInv => AccTypeOK
  BY DEF AccInv
<1> QED
  BY <1>1, AccountsInvariant, PTL

\* For any players and addresses: no address belongs to two players.
THEOREM AccountsOneHolder == AccSpec => []OneHolder
<1>1. AccInv => OneHolder
  BY DEF AccInv
<1> QED
  BY <1>1, AccountsInvariant, PTL

\* What claim-address answers is so, for good.
THEOREM AccountsClaimAnswers == AccSpec => []ClaimAnswersTrue
<1>1. AccInv => ClaimAnswersTrue
  BY DEF AccInv, ClaimAnswersTrue, CallAnswered
<1> QED
  BY <1>1, AccountsInvariant, PTL

\* A session is refused only for an e-mail another account has had.
THEOREM AccountsSessionRefused == AccSpec => []SessionRefused
<1>1. AccInv => SessionRefused
  BY DEF AccInv, SessionRefused, CallAnswered
<1> QED
  BY <1>1, AccountsInvariant, PTL

\* No step changes an address that is set.
THEOREM AccountsAddressKept == AccSpec => AddressKept
<1>1. AccInv /\ [AccNext]_accVars =>
          [\A s \in Subs : AddressOf(s) # None => AddressOf(s)' = AddressOf(s)]_accVars
  BY AccGains DEF AccInv, Gains
<1> QED
  BY <1>1, AccountsInvariant, PTL DEF AccSpec, AddressKept

\* For any players, e-mails, addresses and calls: an address has one holder,
\* who keeps it, and what the two requests answer is so.
THEOREM AccountsKeepPromise == AccSpec => AccountsPromise
  BY AccountsOneHolder, AccountsClaimAnswers, AccountsSessionRefused, AccountsAddressKept, PTL
     DEF AccountsPromise
-----------------------------------------------------------------------------
(* The generator.  A product is largest where both operands are, and the   *)
(* difference of two is no larger than the larger.                         *)

\* A product is bounded by the product of the bounds of its factors.
LEMMA ProductBound ==
    ASSUME NEW a \in Nat, NEW b \in Nat, NEW A \in Nat, NEW B \in Nat, a <= A, b <= B
    PROVE  a * b \in Nat /\ a * b <= A * B
<1>1. a * b <= A * b
  <2>1. PICK d \in Nat : A = a + d
    <3>1. A - a \in Nat /\ A = a + (A - a)
      OBVIOUS
    <3> QED
      BY <3>1
  <2>2. d * b \in Nat
    OBVIOUS
  <2> QED
    BY <2>1, <2>2
<1>2. A * b <= A * B
  <2>1. PICK d \in Nat : B = b + d
    <3>1. B - b \in Nat /\ B = b + (B - b)
      OBVIOUS
    <3> QED
      BY <3>1
  <2>2. A * d \in Nat
    OBVIOUS
  <2> QED
    BY <2>1, <2>2
<1> QED
  BY <1>1, <1>2

\* A problem of two terms that are at most m.
Bounded(p, m) ==
    /\ Value(p.x) \in Nat /\ Value(p.x) <= m
    /\ Value(p.y) \in Nat /\ Value(p.y) <= m
    /\ p.solution \in Nat
Shown(p) ==
    CASE p.op = "plus"  -> p.solution = Value(p.x) + Value(p.y)
      [] p.op = "minus" -> p.solution = Value(p.x) - Value(p.y)
      [] p.op = "mod"   -> p.solution = Value(p.x) % Value(p.y)
      [] OTHER -> p = NoProblem

\* The bound of a product of two operands drawn.
LEMMA TermBound ==
    ASSUME NEW A \in Nat, NEW B \in Nat, NEW x \in Terms(A, B)
    PROVE  Value(x) \in Nat /\ Value(x) <= A * B
<1>1. x[1] \in Nat /\ x[1] <= A /\ x[2] \in Nat /\ x[2] <= B
  BY SamplesAssumption DEF Terms, Draws
<1> QED
  BY <1>1, ProductBound DEF Value

\* The bound of a single operand drawn.
LEMMA NumberBound ==
    ASSUME NEW lo \in Nat, NEW hi \in Nat, NEW x \in Numbers(lo, hi)
    PROVE  Value(x) \in Nat /\ lo <= Value(x) /\ Value(x) <= hi
<1>1. x[1] \in Nat /\ lo <= x[1] /\ x[1] <= hi /\ x[2] = 1
  BY SamplesAssumption DEF Numbers, Draws
<1> QED
  BY <1>1 DEF Value

\* A sum is shown as it is stored, and is bounded.
LEMMA SumShown ==
    ASSUME NEW x, NEW y, Value(x) \in Nat, Value(y) \in Nat
    PROVE  /\ Shown(Sum(x, y)) /\ Sum(x, y).solution = Value(x) + Value(y)
           /\ Sum(x, y).x = x /\ Sum(x, y).y = y
  BY DEF Shown, Sum

\* A difference is shown with the larger product first, and is bounded.
LEMMA DifferenceShown ==
    ASSUME NEW x, NEW y, NEW m \in Nat, Value(x) \in Nat, Value(y) \in Nat,
           Value(x) <= m, Value(y) <= m
    PROVE  /\ Shown(Difference(x, y)) /\ Bounded(Difference(x, y), m)
           /\ Difference(x, y).solution <= m
  BY DEF Shown, Difference, Bounded

\* A remainder is shown as it is stored, and is bounded.
LEMMA RemainderShown ==
    ASSUME NEW x, NEW y, Value(x) \in Nat, Value(y) \in Nat \ {0}
    PROVE  /\ Shown(Remainder(x, y)) /\ Remainder(x, y).x = x /\ Remainder(x, y).y = y
           /\ Remainder(x, y).solution \in Nat /\ Remainder(x, y).solution < Value(y)
<1>1. \A a \in Nat, b \in Nat \ {0} : a % b \in Nat /\ a % b < b
  OBVIOUS
<1> QED
  BY <1>1 DEF Shown, Remainder

\* Level by level.
Sound(p, l) ==
    /\ Shown(p) /\ Bounded(p, LargestTerm(l)) /\ p.solution <= LargestSolution(l)

\* Levels 1 to 3: one or two digits, and a product with small bounds.
LEMMA SmallLevels ==
    ASSUME NEW l \in {1, 2, 3}, NEW p \in Problems(l) PROVE Sound(p, l)
<1>1. CASE l = 1
  <2>1. PICK x \in Numbers(1, 9), y \in Numbers(1, 9) : p = Sum(x, y) \/ p = Difference(x, y)
    BY <1>1 DEF Problems, Sums, Differences
  <2>2. Value(x) \in Nat /\ Value(x) <= 9 /\ Value(y) \in Nat /\ Value(y) <= 9
    BY NumberBound
  <2>3. LargestTerm(l) = 9 /\ LargestSolution(l) = 18
    BY <1>1 DEF LargestTerm, LargestSolution
  <2>4. CASE p = Sum(x, y)
    BY <2>2, <2>3, <2>4, SumShown DEF Sound, Bounded
  <2>5. CASE p = Difference(x, y)
    <3>1. Shown(p) /\ Bounded(p, 9) /\ p.solution <= 9
      BY <2>2, <2>5, DifferenceShown
    <3> QED
      BY <2>3, <3>1 DEF Sound, Bounded
  <2> QED
    BY <2>1, <2>4, <2>5
<1>2. CASE l = 2
  <2>1. PICK x \in Numbers(10, 99), y \in Numbers(10, 99) :
            p = Sum(x, y) \/ p = Difference(x, y)
    BY <1>2 DEF Problems, Sums, Differences
  <2>2. Value(x) \in Nat /\ Value(x) <= 99 /\ Value(y) \in Nat /\ Value(y) <= 99
    BY NumberBound
  <2>3. LargestTerm(l) = 99 /\ LargestSolution(l) = 198
    BY <1>2 DEF LargestTerm, LargestSolution
  <2>4. CASE p = Sum(x, y)
    BY <2>2, <2>3, <2>4, SumShown DEF Sound, Bounded
  <2>5. CASE p = Difference(x, y)
    <3>1. Shown(p) /\ Bounded(p, 99) /\ p.solution <= 99
      BY <2>2, <2>5, DifferenceShown
    <3> QED
      BY <2>3, <3>1 DEF Sound, Bounded
  <2> QED
    BY <2>1, <2>4, <2>5
<1>3. CASE l = 3
  <2>1. PICK x \in Terms(99, 9) : p = Sum(x, <<0, 1>>)
    BY <1>3 DEF Problems, Sums
  <2>2. Value(x) \in Nat /\ Value(x) <= 891 /\ Value(<<0, 1>>) = 0
    <3>1. Value(x) \in Nat /\ Value(x) <= 99 * 9
      BY TermBound
    <3> QED
      BY <3>1 DEF Value
  <2> QED
    BY <1>3, <2>1, <2>2, SumShown DEF Sound, Bounded, LargestTerm, LargestSolution
<1> QED
  BY <1>1, <1>2, <1>3

\* Levels 4 and 5: products with larger bounds.
LEMMA MiddleLevels ==
    ASSUME NEW l \in {4, 5}, NEW p \in Problems(l) PROVE Sound(p, l)
<1>1. CASE l = 4
  <2>1. PICK x \in Terms(199, 19), y \in Numbers(10, 999) :
            p = Sum(x, y) \/ p = Difference(x, y)
    BY <1>1 DEF Problems, Sums, Differences
  <2>2. Value(x) \in Nat /\ Value(x) <= 3781 /\ Value(y) \in Nat /\ Value(y) <= 999
    <3>1. Value(x) \in Nat /\ Value(x) <= 199 * 19
      BY TermBound
    <3> QED
      BY <3>1, NumberBound
  <2> QED
    BY <1>1, <2>1, <2>2, SumShown, DifferenceShown
       DEF Sound, Bounded, LargestTerm, LargestSolution
<1>2. CASE l = 5
  <2>1. \A x \in Terms(99, 19) : Value(x) \in Nat /\ Value(x) <= 1881
    <3>1. \A x \in Terms(99, 19) : Value(x) \in Nat /\ Value(x) <= 99 * 19
      BY TermBound
    <3> QED
      BY <3>1
  <2>2. CASE p \in Remainders(Terms(99, 19), Numbers(11, 97))
    <3>1. PICK x \in Terms(99, 19), y \in Numbers(11, 97) : p = Remainder(x, y)
      BY <2>2 DEF Remainders
    <3>2. Value(y) \in Nat \ {0} /\ Value(y) <= 97
      BY NumberBound
    <3> QED
      BY <1>2, <2>1, <3>1, <3>2, RemainderShown DEF Sound, Bounded, LargestTerm, LargestSolution
  <2>3. CASE p \in Differences(Terms(99, 19), Terms(99, 19))
    <3>1. PICK x \in Terms(99, 19), y \in Terms(99, 19) : p = Difference(x, y)
      BY <2>3 DEF Differences
    <3> QED
      BY <1>2, <2>1, <3>1, DifferenceShown DEF Sound, LargestTerm, LargestSolution
  <2> QED
    BY <1>2, <2>2, <2>3 DEF Problems
<1> QED
  BY <1>1, <1>2

\* From level 6: differences of products that grow with the level.
LEMMA HighLevels ==
    ASSUME NEW l \in 6..12, NEW p \in Problems(l) PROVE Sound(p, l)
<1>1. MaxA(l) \in Nat /\ MaxB(l) \in Nat
  BY DEF MaxA, MaxB, Scale
<1>2. PICK x \in Terms(MaxA(l), MaxB(l)), y \in Terms(MaxA(l), MaxB(l)) : p = Difference(x, y)
  BY DEF Problems, Differences
<1>3. MaxA(l) * MaxB(l) \in Nat
  BY <1>1
<1>4. /\ Value(x) \in Nat /\ Value(x) <= MaxA(l) * MaxB(l)
      /\ Value(y) \in Nat /\ Value(y) <= MaxA(l) * MaxB(l)
  BY <1>1, TermBound
<1>5. LargestTerm(l) = MaxA(l) * MaxB(l) /\ LargestSolution(l) = MaxA(l) * MaxB(l)
  BY DEF LargestTerm, LargestSolution
<1> QED
  BY <1>2, <1>3, <1>4, <1>5, DifferenceShown DEF Sound

\* A problem, if there is one, is of a level, and sound.
GenInv == level \in 1..12 /\ Sound(problem, level)

\* The invariant holds in every reachable state of the generator.
THEOREM GeneratorHolds == GenSpec => []GenInv
<1>1. GenInit => GenInv
  BY DEF GenInv, GenInit, Sound, Shown, Bounded, NoProblem, Value, LargestTerm, LargestSolution
<1>2. GenInv /\ [GenNext]_genVars => GenInv'
  <2>1. ASSUME NEW l \in Levels, Generate(l) PROVE GenInv'
    <3>1. l \in 1..12 /\ level' = l /\ problem' \in Problems(l)
      BY <2>1, LevelsAssumption DEF Generate
    <3>2. Sound(problem', l)
      BY <3>1, SmallLevels, MiddleLevels, HighLevels
    <3> QED
      BY <3>1, <3>2 DEF GenInv
  <2>2. UNCHANGED genVars /\ GenInv => GenInv'
    BY DEF GenInv, genVars
  <2> QED
    BY <2>1, <2>2 DEF GenNext
<1> QED
  BY <1>1, <1>2, PTL DEF GenSpec

\* Every problem generated is shown as stored and within its bounds.
LEMMA GeneratorInvariant == GenSpec => [](SolutionShown /\ WithinBounds)
<1>1. GenInv => SolutionShown /\ WithinBounds
  BY DEF GenInv, Sound, Shown, Bounded, SolutionShown, WithinBounds
<1> QED
  BY <1>1, GeneratorHolds, PTL

\* For whatever operands are drawn: the solution is what is shown.
THEOREM GeneratorSolutionShown == GenSpec => []SolutionShown
  BY GeneratorInvariant, PTL

\* For whatever operands are drawn: the bounds of the SAFETY comment hold.
THEOREM GeneratorWithinBounds == GenSpec => []WithinBounds
  BY GeneratorInvariant, PTL

\* For every level from 1 to 12 and whatever operands are drawn: player and
\* database mean the same number, and it is within the bounds.
THEOREM GeneratorProblemSound == GenSpec => []ProblemSound
<1>1. SolutionShown /\ WithinBounds => ProblemSound
  BY DEF ProblemSound
<1> QED
  BY <1>1, GeneratorSolutionShown, GeneratorWithinBounds, PTL

\* The products of every level are exact in the browser, where an integer is
\* a double (parseInt in Game.vue:88), and far from the ends of an i64.
THEOREM GeneratorExact == \A l \in 1..12 :
    LargestTerm(l) <= 5000000000000000 /\ LargestSolution(l) <= 5000000000000000
<1>1. \A l \in 6..12 : MaxA(l) * MaxB(l) <= 5000000000000000
  <2> SUFFICES ASSUME NEW l \in 6..12 PROVE MaxA(l) * MaxB(l) <= 5000000000000000
    OBVIOUS
  <2>1. MaxA(l) \in Nat /\ MaxA(l) <= 200000000 /\ MaxB(l) \in Nat /\ MaxB(l) <= 25000000
    BY DEF MaxA, MaxB, Scale
  <2> QED
    BY <2>1, ProductBound
<1> QED
  BY <1>1 DEF LargestTerm, LargestSolution
-----------------------------------------------------------------------------
(* The game page, for any number of challenges and retries.  The inductive *)
(* invariant says what an answer under way means, and that a mint under    *)
(* way is of the challenge on the page, with its form open, or of one      *)
(* whose countdown ended.                                                  *)

\* An answer under way is so.
AnswerTrue ==
    mint.at = "answered" =>
        /\ mint.reply \in Replies
        /\ mint.reply = "correct" => book[mint.challenge] = "credited"
        /\ mint.reply = "wrong" => book[mint.challenge] = "void"

\* Only a countdown that ends opens the way to the next challenge.
MintFollowed ==
    submitting =>
        \/ mint.challenge \in ended
        \/ mint.challenge = shown /\ ~loading /\ result = "none"

\* A verdict that came while the next challenge is loading is of one before.
LoadingVerdict ==
    loading /\ result \in {"correct", "wrong"} =>
        \E c \in ended : <<c, result>> \in told

\* A countdown is of a challenge.
TimerShown == timer = "ticking" => shown # Blank

GameInv ==
    /\ GameTypeOK /\ TimerShown
    /\ AnswerTrue /\ MintFollowed /\ LoadingVerdict
    /\ VerdictsTrue /\ CreditsTold /\ PageExplains /\ VerdictOfShown
-----------------------------------------------------------------------------
\* What the server may do to a challenge.
LEMMA OutcomesSound ==
    ASSUME NEW status \in {"open", "credited", "void"},
           NEW answer \in {"right", "wrong"}, NEW o \in Outcomes(status, answer)
    PROVE  /\ o[1] \in {"open", "credited", "void"}
           /\ status \in {"credited", "void"} => o[1] = status
           /\ o[2] \in Replies
           /\ o[2] = "correct" => o[1] = "credited"
           /\ o[2] = "wrong" => o[1] = "void"
           /\ o[1] = "credited" /\ status # "credited" =>
                answer = "right" /\ (o[2] = "correct" \/ o = <<"credited", "resolved">>)
  BY DEF Outcomes, Replies

\* A mint under way is one of a challenge that was issued.
LEMMA MintIssued ==
    ASSUME GameTypeOK, submitting
    PROVE  /\ mint \in [at : {"sent", "answered"}, tries : 0..Retries, challenge : Challenges,
                        answer : {"right", "wrong"}, reply : Replies \cup {"none"}]
           /\ mint.challenge \in Challenges /\ mint.answer \in {"right", "wrong"}
           /\ book[mint.challenge] \in {"open", "credited", "void"}
<1>1. mint # IdleMint
  BY DEF submitting, IdleMint
<1>2. mint \in [at : {"sent", "answered"}, tries : 0..Retries, challenge : Challenges,
                answer : {"right", "wrong"}, reply : Replies \cup {"none"}]
  BY <1>1 DEF GameTypeOK
<1> QED
  BY <1>2 DEF GameTypeOK

\* The page is mounted in its invariant.
LEMMA GameInitInv == GameInit => GameInv
<1> SUFFICES ASSUME GameInit PROVE GameInv
  OBVIOUS
<1>1. GameTypeOK /\ TimerShown
  BY RetriesAssumption, BlankAssumption
     DEF GameInit, GameTypeOK, TimerShown, IdleMint, Results, submitting
<1>2. AnswerTrue /\ MintFollowed /\ LoadingVerdict /\ PageExplains
  BY DEF GameInit, AnswerTrue, MintFollowed, LoadingVerdict, PageExplains, IdleMint,
         submitting, loading
<1>3. VerdictsTrue /\ CreditsTold /\ VerdictOfShown
  BY DEF GameInit, VerdictsTrue, CreditsTold, VerdictOfShown
<1> QED
  BY <1>1, <1>2, <1>3 DEF GameInv
-----------------------------------------------------------------------------
(* The challenge on the page.                                              *)

\* The button to the next challenge keeps it.
LEMMA NextInv == ASSUME GameInv, NextChallenge PROVE GameInv'
<1> USE RetriesAssumption DEF GameInv, NextChallenge
<1>1. GameTypeOK' /\ TimerShown'
  BY DEF GameTypeOK, TimerShown, Results, submitting
<1>2. AnswerTrue' /\ MintFollowed' /\ LoadingVerdict' /\ PageExplains'
  BY DEF AnswerTrue, MintFollowed, LoadingVerdict, PageExplains, submitting, loading
<1>3. VerdictsTrue' /\ CreditsTold' /\ VerdictOfShown'
  BY DEF VerdictsTrue, CreditsTold, VerdictOfShown
<1> QED
  BY <1>1, <1>2, <1>3

\* A challenge that arrives keeps it: no mint of it is under way.
LEMMA ShowInv == ASSUME GameInv, NEW c \in Challenges, ShowChallenge(c) PROVE GameInv'
<1> USE RetriesAssumption DEF GameInv
<1>1. /\ book' = [book EXCEPT ![c] = "open"] /\ book[c] = "unissued" /\ loading
      /\ shown' = c /\ timer' = "ticking" /\ get' = [at |-> "idle", tries |-> 0]
      /\ UNCHANGED <<notice, mint, stray, lost, told>>
      /\ \/ UNCHANGED <<result, ended>>
         \/ result' = "expired" /\ ended' = ended \cup {c}
  BY DEF ShowChallenge, IdleGet
<1>2. /\ submitting => mint.challenge # c /\ mint.challenge \in ended
      /\ \A d \in Challenges : d # c => book'[d] = book[d]
      /\ book'[c] = "open"
  BY <1>1 DEF MintFollowed, GameTypeOK
<1>3. GameTypeOK' /\ TimerShown'
  BY <1>1, <1>2, BlankAssumption DEF GameTypeOK, TimerShown, Results, submitting
<1>4. AnswerTrue'
  <2> SUFFICES ASSUME mint'.at = "answered" PROVE AnswerTrue'
    BY DEF AnswerTrue
  <2>1. submitting /\ mint.at = "answered"
    BY <1>1 DEF submitting
  <2> QED
    BY <1>1, <1>2, <2>1, MintIssued DEF AnswerTrue
<1>5. MintFollowed' /\ LoadingVerdict' /\ PageExplains'
  BY <1>1, <1>2 DEF MintFollowed, LoadingVerdict, PageExplains, submitting, loading
<1>6. VerdictsTrue'
  BY <1>1, <1>2 DEF VerdictsTrue
<1>7. CreditsTold'
  BY <1>1, <1>2 DEF CreditsTold
<1>8. VerdictOfShown'
  BY <1>1 DEF VerdictOfShown, LoadingVerdict
<1> QED
  BY <1>3, <1>4, <1>5, <1>6, <1>7, <1>8

\* A failed fetch keeps it: it is retried, or explained.
LEMMA FailInv == ASSUME GameInv, FailGet PROVE GameInv'
<1> USE RetriesAssumption DEF GameInv
<1>1. /\ get' \in [at : {"idle", "sent"}, tries : 0..Retries] /\ loading
      /\ notice' \in {"none", "error", "slowDown"}
      /\ UNCHANGED <<book, shown, result, timer, mint, stray, lost, told, ended>>
      /\ get'.at = "sent" \/ notice' # "none"
  <2>1. /\ loading /\ notice \in {"none", "error", "slowDown"}
        /\ get.tries \in 0..Retries
    BY DEF FailGet, GameTypeOK
  <2>2. CASE MayRetry(get) /\ get' = Retry(get) /\ UNCHANGED notice
    <3>1. get.tries + 1 \in 0..Retries
      BY <2>1, <2>2 DEF MayRetry
    <3>2. get' = [at |-> "sent", tries |-> get.tries + 1]
      BY <2>2 DEF Retry, GameTypeOK
    <3> QED
      BY <2>1, <2>2, <3>1, <3>2 DEF FailGet
  <2>3. CASE get' = IdleGet /\ notice' \in {"error", "slowDown"}
    BY <2>1, <2>3 DEF FailGet, IdleGet
  <2> QED
    BY <2>2, <2>3 DEF FailGet
<1>2. GameTypeOK' /\ TimerShown'
  BY <1>1 DEF GameTypeOK, TimerShown, submitting
<1>3. AnswerTrue' /\ MintFollowed' /\ LoadingVerdict' /\ PageExplains'
  BY <1>1 DEF AnswerTrue, MintFollowed, LoadingVerdict, PageExplains, submitting, loading
<1>4. VerdictsTrue' /\ CreditsTold' /\ VerdictOfShown'
  BY <1>1 DEF VerdictsTrue, CreditsTold, VerdictOfShown
<1> QED
  BY <1>2, <1>3, <1>4

\* The end of a countdown keeps it: the challenge is one of those ended.
LEMMA ExpireInv == ASSUME GameInv, Expire PROVE GameInv'
<1> USE DEF GameInv, Expire
<1>1. shown \in Challenges
  BY DEF TimerShown, GameTypeOK
<1>2. GameTypeOK' /\ TimerShown'
  BY <1>1 DEF GameTypeOK, TimerShown, Results, submitting
<1>3. AnswerTrue' /\ MintFollowed' /\ LoadingVerdict' /\ PageExplains'
  BY DEF AnswerTrue, MintFollowed, LoadingVerdict, PageExplains, submitting, loading
<1>4. VerdictsTrue' /\ CreditsTold' /\ VerdictOfShown'
  BY DEF VerdictsTrue, CreditsTold, VerdictOfShown
<1> QED
  BY <1>2, <1>3, <1>4
-----------------------------------------------------------------------------
(* The submission.                                                         *)

\* A submission keeps it: it is of the challenge shown.
LEMMA HandleInv ==
    ASSUME GameInv, NEW answer \in {"right", "wrong"}, HandleMint(answer) PROVE GameInv'
<1> USE RetriesAssumption DEF GameInv
<1>1. /\ mint' = [at |-> "sent", tries |-> 0, challenge |-> shown, answer |-> answer,
                  reply |-> "none"]
      /\ mint' \in [at : {"sent", "answered"}, tries : 0..Retries, challenge : Challenges,
                    answer : {"right", "wrong"}, reply : Replies \cup {"none"}]
      /\ shown \in Challenges /\ ~loading /\ result = "none" /\ notice' = "none"
      /\ UNCHANGED <<book, shown, result, timer, get, stray, lost, told, ended>>
      /\ ~submitting
  BY DEF HandleMint, GameTypeOK
<1>2. GameTypeOK' /\ TimerShown'
  BY <1>1 DEF GameTypeOK, TimerShown, submitting
<1>3. AnswerTrue' /\ MintFollowed' /\ LoadingVerdict' /\ PageExplains'
  BY <1>1 DEF AnswerTrue, MintFollowed, LoadingVerdict, PageExplains, submitting, loading
<1>4. VerdictsTrue' /\ CreditsTold' /\ VerdictOfShown'
  BY <1>1 DEF VerdictsTrue, CreditsTold, VerdictOfShown, submitting
<1> QED
  BY <1>2, <1>3, <1>4

\* The server's answer keeps it: the answer is what it did.
LEMMA ServeInv == ASSUME GameInv, ServeMint PROVE GameInv'
<1> USE DEF GameInv
<1> DEFINE k == mint.challenge
<1>1. /\ submitting /\ mint.at = "sent"
      /\ UNCHANGED <<shown, result, timer, notice, get, stray, told, ended>>
  BY DEF ServeMint, submitting
<1>2. PICK o \in Outcomes(book[k], mint.answer) :
        /\ book' = [book EXCEPT ![k] = o[1]]
        /\ mint' = [mint EXCEPT !.at = "answered", !.reply = o[2]]
        /\ lost' = IF o = <<"credited", "resolved">> THEN lost \cup {k} ELSE lost
  BY DEF ServeMint
<1>3. /\ k \in Challenges
      /\ mint \in [at : {"sent", "answered"}, tries : 0..Retries, challenge : Challenges,
                   answer : {"right", "wrong"}, reply : Replies \cup {"none"}]
      /\ o[1] \in {"open", "credited", "void"} /\ o[2] \in Replies
      /\ book[k] \in {"credited", "void"} => o[1] = book[k]
      /\ o[2] = "correct" => o[1] = "credited"
      /\ o[2] = "wrong" => o[1] = "void"
      /\ o[1] = "credited" /\ book[k] # "credited" => o[2] = "correct" \/ k \in lost'
  BY <1>1, <1>2, MintIssued, OutcomesSound
<1>4. /\ mint' \in [at : {"sent", "answered"}, tries : 0..Retries, challenge : Challenges,
                    answer : {"right", "wrong"}, reply : Replies \cup {"none"}]
      /\ mint'.at = "answered" /\ mint'.challenge = k /\ mint'.reply = o[2]
      /\ book' \in [Challenges -> {"unissued", "open", "credited", "void"}]
      /\ book'[k] = o[1] /\ \A d \in Challenges : d # k => book'[d] = book[d]
      /\ lost \subseteq lost' /\ lost' \subseteq Challenges
  BY <1>2, <1>3 DEF GameTypeOK
<1>5. GameTypeOK' /\ TimerShown'
  BY <1>1, <1>3, <1>4 DEF GameTypeOK, TimerShown, submitting
<1>6. AnswerTrue' /\ MintFollowed' /\ LoadingVerdict' /\ PageExplains'
  BY <1>1, <1>3, <1>4 DEF AnswerTrue, MintFollowed, LoadingVerdict, PageExplains, submitting,
     loading
<1>7. VerdictsTrue' /\ VerdictOfShown'
  BY <1>1, <1>3, <1>4 DEF VerdictsTrue, VerdictOfShown
<1>8. CreditsTold'
  BY <1>1, <1>3, <1>4 DEF CreditsTold
<1> QED
  BY <1>5, <1>6, <1>7, <1>8

\* A submission that arrives late keeps it: what is resolved stays so.
LEMMA StrayInv == ASSUME GameInv, ServeStray PROVE GameInv'
<1> USE DEF GameInv
<1>0. PICK s \in stray : \E o \in Outcomes(book[s[1]], s[2]) : book' = [book EXCEPT ![s[1]] = o[1]]
  BY DEF ServeStray
<1>1. PICK o \in Outcomes(book[s[1]], s[2]) : book' = [book EXCEPT ![s[1]] = o[1]]
  BY <1>0
<1>2. UNCHANGED <<shown, result, timer, notice, get, mint, stray, lost, told, ended>>
  BY DEF ServeStray
<1>3. /\ s[1] \in Challenges /\ s[2] \in {"right", "wrong"} /\ s = <<s[1], s[2]>>
      /\ book[s[1]] \in {"open", "credited", "void"}
  <2>1. s \in Challenges \X {"right", "wrong"}
    BY <1>0 DEF GameTypeOK
  <2>2. PICK c \in Challenges, answer \in {"right", "wrong"} : s = <<c, answer>>
    BY <2>1
  <2>3. <<c, "right">> \in stray \/ <<c, "wrong">> \in stray
    BY <1>0, <2>2
  <2>4. book[c] \in {"open", "credited", "void"}
    BY <2>3 DEF GameTypeOK
  <2> QED
    BY <2>2, <2>4
<1>4. /\ o[1] \in {"open", "credited", "void"}
      /\ book[s[1]] \in {"credited", "void"} => o[1] = book[s[1]]
      /\ o[1] = "credited" /\ book[s[1]] # "credited" => <<s[1], "right">> \in stray
  BY <1>1, <1>3, OutcomesSound
<1>5. /\ book' \in [Challenges -> {"unissued", "open", "credited", "void"}]
      /\ book'[s[1]] = o[1] /\ \A d \in Challenges : d # s[1] => book'[d] = book[d]
  BY <1>1, <1>3, <1>4 DEF GameTypeOK
<1>6. GameTypeOK' /\ TimerShown'
  BY <1>2, <1>3, <1>4, <1>5 DEF GameTypeOK, TimerShown, submitting
<1>7. AnswerTrue'
  <2> SUFFICES ASSUME mint'.at = "answered" PROVE AnswerTrue'
    BY DEF AnswerTrue
  <2>1. submitting /\ mint.at = "answered"
    BY <1>2 DEF submitting
  <2> QED
    BY <1>2, <1>4, <1>5, <2>1, MintIssued DEF AnswerTrue
<1>8. MintFollowed' /\ LoadingVerdict' /\ PageExplains' /\ VerdictOfShown'
  BY <1>2 DEF MintFollowed, LoadingVerdict, PageExplains, VerdictOfShown, submitting, loading
<1>9. VerdictsTrue' /\ CreditsTold'
  BY <1>2, <1>3, <1>4, <1>5 DEF VerdictsTrue, CreditsTold
<1> QED
  BY <1>6, <1>7, <1>8, <1>9

\* What a retry sends again, and what it leaves as it was.
LEMMA RetrySame ==
    ASSUME GameTypeOK, submitting, MayRetry(mint), mint' = Retry(mint)
    PROVE  /\ mint' \in [at : {"sent", "answered"}, tries : 0..Retries, challenge : Challenges,
                         answer : {"right", "wrong"}, reply : Replies \cup {"none"}]
           /\ mint'.at = "sent" /\ mint'.challenge = mint.challenge
<1>1. mint \in [at : {"sent", "answered"}, tries : 0..Retries, challenge : Challenges,
                answer : {"right", "wrong"}, reply : Replies \cup {"none"}]
  BY MintIssued
<1>2. mint.tries + 1 \in 0..Retries
  BY <1>1, RetriesAssumption DEF MayRetry
<1>3. mint' = [at |-> "sent", tries |-> mint.tries + 1, challenge |-> mint.challenge,
               answer |-> mint.answer, reply |-> mint.reply]
  BY <1>1 DEF Retry
<1> QED
  BY <1>1, <1>2, <1>3

\* A lost request or answer keeps it: the credit it hid is known as lost.
LEMMA LoseInv == ASSUME GameInv, LoseMint PROVE GameInv'
<1> USE DEF GameInv
<1> DEFINE k == mint.challenge
<1>1. /\ submitting /\ UNCHANGED <<book, shown, result, timer, get, told, ended>>
      /\ stray' = IF mint.at = "sent" THEN stray \cup {<<k, mint.answer>>} ELSE stray
      /\ lost' = IF mint.at = "answered" /\ mint.reply = "correct" THEN lost \cup {k} ELSE lost
      /\ \/ MayRetry(mint) /\ mint' = Retry(mint) /\ UNCHANGED notice
         \/ mint' = IdleMint /\ notice' = "error"
  BY DEF LoseMint
<1>2. /\ k \in Challenges /\ mint.answer \in {"right", "wrong"}
      /\ book[k] \in {"open", "credited", "void"}
  BY <1>1, MintIssued
<1>3. /\ stray \subseteq stray' /\ stray' \subseteq Challenges \X {"right", "wrong"}
      /\ lost \subseteq lost' /\ lost' \subseteq Challenges
      /\ \A c \in Challenges, answer \in {"right", "wrong"} :
           <<c, answer>> \in stray' => c = k \/ <<c, answer>> \in stray
      /\ mint.at = "answered" /\ mint.reply = "correct" => k \in lost'
  BY <1>1, <1>2 DEF GameTypeOK
<1>4. /\ mint' \in {IdleMint} \cup
           [at : {"sent", "answered"}, tries : 0..Retries, challenge : Challenges,
            answer : {"right", "wrong"}, reply : Replies \cup {"none"}]
      /\ mint'.at # "answered"
      /\ submitting' => mint'.challenge = k /\ notice' = notice
      /\ ~submitting' => notice' = "error"
      /\ notice' \in {"none", "error", "slowDown"}
  BY <1>1, RetrySame DEF submitting, IdleMint, GameTypeOK
<1>5. GameTypeOK' /\ TimerShown'
  BY <1>1, <1>2, <1>3, <1>4 DEF GameTypeOK, TimerShown
<1>6. AnswerTrue' /\ MintFollowed' /\ LoadingVerdict' /\ PageExplains'
  BY <1>1, <1>4 DEF AnswerTrue, MintFollowed, LoadingVerdict, PageExplains, loading
<1>7. VerdictsTrue' /\ VerdictOfShown'
  BY <1>1 DEF VerdictsTrue, VerdictOfShown
<1>8. CreditsTold'
  BY <1>1, <1>3 DEF CreditsTold
<1> QED
  BY <1>5, <1>6, <1>7, <1>8

\* A retry keeps it: the answer it replaces was no verdict.
LEMMA RetryInv == ASSUME GameInv, RetryMint PROVE GameInv'
<1> USE DEF GameInv
<1>1. /\ submitting /\ mint.reply = "failed" /\ MayRetry(mint) /\ mint' = Retry(mint)
      /\ UNCHANGED <<book, shown, result, timer, notice, get, stray, lost, told, ended>>
  BY DEF RetryMint, submitting
<1>2. /\ mint' \in [at : {"sent", "answered"}, tries : 0..Retries, challenge : Challenges,
                    answer : {"right", "wrong"}, reply : Replies \cup {"none"}]
      /\ mint'.at = "sent" /\ mint'.challenge = mint.challenge
  BY <1>1, RetrySame
<1>3. GameTypeOK' /\ TimerShown'
  BY <1>1, <1>2 DEF GameTypeOK, TimerShown, submitting
<1>4. AnswerTrue' /\ MintFollowed' /\ LoadingVerdict' /\ PageExplains'
  BY <1>1, <1>2 DEF AnswerTrue, MintFollowed, LoadingVerdict, PageExplains, submitting, loading
<1>5. VerdictsTrue' /\ CreditsTold' /\ VerdictOfShown'
  BY <1>1 DEF VerdictsTrue, CreditsTold, VerdictOfShown
<1> QED
  BY <1>3, <1>4, <1>5

\* An answer on the page keeps it, whatever is shown by then.
LEMMA ReturnInv == ASSUME GameInv, ReturnMint PROVE GameInv'
<1> USE DEF GameInv
<1> DEFINE k == mint.challenge
           r == mint.reply
<1>1. /\ submitting /\ mint.at = "answered" /\ mint' = IdleMint
      /\ result' = Verdict(r, result)
      /\ timer' = IF r = "correct" THEN "null" ELSE timer
      /\ notice' = CASE r = "limited" -> "slowDown"
                     [] r \in {"refused", "failed"} -> "error"
                     [] OTHER -> notice
      /\ told' = told \cup ({k} \X ({r} \cap {"correct", "wrong"}))
      /\ UNCHANGED <<book, shown, get, stray, lost, ended>>
  BY DEF ReturnMint, submitting
<1>2. k \in Challenges /\ r \in Replies
  BY <1>1, MintIssued DEF AnswerTrue
<1>3. /\ r \in {"correct", "wrong"} => result' = r /\ <<k, r>> \in told'
      /\ r \in {"expired", "resolved"} => result' = "expired"
      /\ r \in {"limited", "refused", "failed"} => result' = result /\ notice' # "none"
      /\ timer' \in {"null", timer} /\ notice' \in {"none", "error", "slowDown"}
      /\ result' \in Results
      /\ told \subseteq told' /\ told' \subseteq Challenges \X {"correct", "wrong"}
      /\ \A c, v : <<c, v>> \in told' => <<c, v>> \in told \/ (c = k /\ v = r)
  <2>1. told \subseteq Challenges \X {"correct", "wrong"} /\ result \in Results
        /\ timer \in {"null", "ticking"} /\ notice \in {"none", "error", "slowDown"}
    BY DEF GameTypeOK
  <2>2. /\ r \in {"correct", "wrong"} => result' = r
        /\ r \in {"expired", "resolved"} => result' = "expired"
        /\ r \in {"limited", "refused", "failed"} => result' = result
        /\ result' \in Results
    BY <1>1, <1>2, <2>1 DEF Verdict, Replies, Results
  <2>3. /\ r \in {"limited", "refused", "failed"} => notice' # "none"
        /\ timer' \in {"null", timer} /\ notice' \in {"none", "error", "slowDown"}
    BY <1>1, <1>2, <2>1 DEF Replies
  <2>4. \A c, v : <<c, v>> \in told' <=>
          \/ <<c, v>> \in told
          \/ c = k /\ v = r /\ r \in {"correct", "wrong"}
    BY <1>1
  <2>5. told \subseteq told' /\ told' \subseteq Challenges \X {"correct", "wrong"}
    BY <1>1, <1>2, <2>1
  <2> HIDE DEF k, r
  <2> QED
    BY <2>2, <2>3, <2>4, <2>5
<1>4. mint'.at = "idle"
  BY <1>1 DEF IdleMint
<1>5. GameTypeOK' /\ TimerShown'
  BY <1>1, <1>3, <1>4 DEF GameTypeOK, TimerShown, submitting
<1>6. AnswerTrue' /\ MintFollowed' /\ PageExplains'
  BY <1>1, <1>2, <1>3, <1>4 DEF AnswerTrue, MintFollowed, PageExplains, submitting, loading,
     Replies
<1>7. LoadingVerdict'
  BY <1>1, <1>2, <1>3 DEF LoadingVerdict, MintFollowed, loading, Replies
<1>8. VerdictsTrue'
  BY <1>1, <1>3 DEF VerdictsTrue, AnswerTrue
<1>9. CreditsTold'
  BY <1>1, <1>3 DEF CreditsTold
<1>10. VerdictOfShown'
  BY <1>1, <1>2, <1>3 DEF VerdictOfShown, MintFollowed, Replies
<1> QED
  BY <1>5, <1>6, <1>7, <1>8, <1>9, <1>10
-----------------------------------------------------------------------------
\* Whatever is fair: the invariant holds in every state that is reached.
LEMMA GamePageSafe == GameInit /\ [][GameNext]_gameVars => []GameInv
<1>1. GameInv /\ [GameNext]_gameVars => GameInv'
  <2> SUFFICES ASSUME GameInv, [GameNext]_gameVars PROVE GameInv'
    OBVIOUS
  <2>1. CASE GetEnds
    BY <2>1, ShowInv, FailInv DEF GetEnds
  <2>2. CASE MintEnds
    BY <2>2, ServeInv, LoseInv, RetryInv, ReturnInv DEF MintEnds
  <2>3. CASE ServeStray \/ NextChallenge \/ Expire
    BY <2>3, StrayInv, NextInv, ExpireInv
  <2>4. CASE \E answer \in {"right", "wrong"} : HandleMint(answer)
    BY <2>4, HandleInv
  <2>5. CASE UNCHANGED gameVars
    BY <2>5 DEF gameVars, GameInv, GameTypeOK, TimerShown, AnswerTrue, MintFollowed,
       LoadingVerdict, VerdictsTrue, CreditsTold, PageExplains, VerdictOfShown, submitting,
       loading
  <2> QED
    BY <2>1, <2>2, <2>3, <2>4, <2>5 DEF GameNext
<1> QED
  BY GameInitInv, <1>1, PTL

\* The invariant holds in every reachable state of the page.
THEOREM GamePageInvariant == GameSpec => []GameInv
  BY GamePageSafe, PTL DEF GameSpec

\* The variables of the page keep their types, retries their bound, and only
\* what was issued is shown, submitted or under way.
THEOREM GamePageTypeOK == GameSpec => []GameTypeOK
<1>1. GameInv => GameTypeOK
  BY DEF GameInv
<1> QED
  BY <1>1, GamePageInvariant, PTL

\* The player and the server's record agree: `Correct!' and `Wrong answer!'
\* are so for good, however often requests are lost, retried or late, and a
\* credit is told unless an answer of it was lost.
THEOREM GamePageVerdictsAgree == GameSpec => []VerdictsAgree
<1>1. GameInv => VerdictsAgree
  BY DEF GameInv, VerdictsAgree
<1> QED
  BY <1>1, GamePageInvariant, PTL

\* The page at rest shows a verdict, a countdown or what went wrong, and a
\* verdict is of the challenge shown, or of one whose countdown ended.
THEOREM GamePageShows == GameSpec => []PageShows
<1>1. GameInv => PageShows
  BY DEF GameInv, PageShows
<1> QED
  BY <1>1, GamePageInvariant, PTL

\* How many ends of a fetch a request of the page has before it at most.
GetLeft == IF loading THEN 1 + Retries - get.tries ELSE 0
MintLeft ==
    CASE mint.at = "sent"     -> 2 + 2 * (Retries - mint.tries)
      [] mint.at = "answered" -> 1 + 2 * (Retries - mint.tries)
      [] OTHER -> 0

\* Every end of a fetch brings the end of its request nearer, and nothing
\* puts it off.
RequestsGoOn ==
    /\ GetEnds => GetLeft' < GetLeft
    /\ MintEnds => MintLeft' < MintLeft
    /\ loading => get' = get \/ GetLeft' < GetLeft
    /\ submitting => mint' = mint \/ MintLeft' < MintLeft

\* Neither request is tried more often than request() allows.
LeftBounded == GetLeft \in 0..Retries + 1 /\ MintLeft \in 0..2 * Retries + 2

\* The end of a fetch of a challenge.
LEMMA GetGoesOn ==
    ASSUME GameTypeOK, GetEnds
    PROVE  loading /\ GetLeft' < GetLeft /\ mint' = mint
<1>1. get \in [at : {"idle", "sent"}, tries : 0..Retries]
  BY DEF GameTypeOK
<1>2. ASSUME NEW c \in Challenges, ShowChallenge(c)
      PROVE  loading /\ GetLeft' < GetLeft /\ mint' = mint
  BY <1>1, <1>2, RetriesAssumption DEF ShowChallenge, GetLeft, loading, IdleGet
<1>3. ASSUME FailGet
      PROVE  loading /\ GetLeft' < GetLeft /\ mint' = mint
  <2>1. loading /\ mint' = mint
    BY <1>3 DEF FailGet
  <2>2. CASE MayRetry(get) /\ get' = Retry(get)
    <3>1. get'.at = "sent" /\ get'.tries = get.tries + 1
      BY <1>1, <2>2 DEF Retry
    <3> QED
      BY <1>1, <2>1, <3>1, RetriesAssumption DEF GetLeft, loading
  <2>3. CASE get' = IdleGet
    BY <1>1, <2>1, <2>3, RetriesAssumption DEF GetLeft, loading, IdleGet
  <2> QED
    BY <1>3, <2>1, <2>2, <2>3 DEF FailGet
<1> QED
  BY <1>2, <1>3 DEF GetEnds

\* An end of a fetch of a submission, on the network or in the server.
LEMMA MintGoesOn ==
    ASSUME GameTypeOK, MintEnds
    PROVE  submitting /\ MintLeft' < MintLeft /\ get' = get
<1>1. submitting /\ get' = get
  BY DEF MintEnds, ServeMint, LoseMint, RetryMint, ReturnMint, submitting
<1>2. mint \in [at : {"sent", "answered"}, tries : 0..Retries, challenge : Challenges,
                answer : {"right", "wrong"}, reply : Replies \cup {"none"}]
  BY <1>1, MintIssued
<1>3. CASE ServeMint
  <2>1. mint'.at = "answered" /\ mint'.tries = mint.tries /\ mint.at = "sent"
    BY <1>2, <1>3 DEF ServeMint
  <2> QED
    BY <1>1, <1>2, <2>1, RetriesAssumption DEF MintLeft
<1>4. CASE MayRetry(mint) /\ mint' = Retry(mint)
  <2>1. mint'.at = "sent" /\ mint'.tries = mint.tries + 1
    BY <1>2, <1>4 DEF Retry
  <2> QED
    BY <1>1, <1>2, <2>1, RetriesAssumption DEF MintLeft
<1>5. CASE mint' = IdleMint
  BY <1>1, <1>2, <1>5, RetriesAssumption DEF MintLeft, IdleMint
<1> QED
  BY <1>3, <1>4, <1>5 DEF MintEnds, LoseMint, RetryMint, ReturnMint

\* Both requests end after a bounded number of tries, whatever the network
\* loses and the server answers (useApi.ts:28-61): nothing but the end of a
\* fetch is needed for the page to return.
THEOREM GamePageGoesOn == GameSpec => [](LeftBounded) /\ [][RequestsGoOn]_gameVars
<1>1. GameTypeOK => LeftBounded
  <2> SUFFICES ASSUME GameTypeOK PROVE LeftBounded
    OBVIOUS
  <2>1. GetLeft \in 0..Retries + 1
    BY RetriesAssumption DEF GameTypeOK, GetLeft, loading
  <2>2. MintLeft \in 0..2 * Retries + 2
    <3>1. CASE submitting
      BY <3>1, MintIssued, RetriesAssumption DEF MintLeft
    <3>2. CASE ~submitting
      BY <3>2, RetriesAssumption DEF MintLeft, submitting, GameTypeOK, IdleMint
    <3> QED
      BY <3>1, <3>2
  <2> QED
    BY <2>1, <2>2 DEF LeftBounded
<1>2. GameTypeOK /\ [GameNext]_gameVars => RequestsGoOn
  <2> SUFFICES ASSUME GameTypeOK, [GameNext]_gameVars PROVE RequestsGoOn
    OBVIOUS
  <2>1. loading => get' = get \/ GetEnds
    BY MintGoesOn DEF GameNext, gameVars, ServeStray, NextChallenge, Expire, HandleMint
  <2>2. submitting => mint' = mint \/ MintEnds
    BY GetGoesOn DEF GameNext, gameVars, ServeStray, NextChallenge, Expire, HandleMint
  <2> QED
    BY <2>1, <2>2, GetGoesOn, MintGoesOn DEF RequestsGoOn
<1> QED
  BY <1>1, <1>2, GamePageTypeOK, PTL DEF GameSpec
-----------------------------------------------------------------------------
(* The four side by side, in the behaviours of MCParts: a step of the      *)
(* whole is a step of the part that moves, and none of the other three, so *)
(* what holds of each part holds of the whole.                             *)

\* A step of the whole is, for every part, a step of that part or none of
\* its steps.
LEMMA PartsStep ==
    ASSUME [Next]_vars
    PROVE  /\ [GameNext]_gameVars /\ [AccNext]_accVars
           /\ [SubNext]_subVars /\ [GenNext]_genVars
  BY DEF Next, vars, GameMoves, AccMoves, SubMoves, GenMoves

\* What each part assumes of its behaviours, fairness apart.
LEMMA PartsMove ==
    Spec => /\ GameInit /\ [][GameNext]_gameVars
            /\ AccSpec
            /\ SubInit /\ [][SubNext]_subVars
            /\ GenSpec
<1>1. Init => GameInit /\ AccInit /\ SubInit /\ GenInit
  BY DEF Init
<1> QED
  BY <1>1, PartsStep, PTL DEF Spec, AccSpec, GenSpec

\* The invariants of all four parts hold together.
THEOREM PartsInvariant == Spec => [](GameInv /\ AccInv /\ SubInv /\ GenInv)
  BY PartsMove, GamePageSafe, AccountsInvariant, SubmitterSafe, GeneratorHolds, PTL

\* The variables of the page, the accounts and the submitter keep their
\* types, whichever part moves.
THEOREM PartsTypesOK == Spec => []PartsTypeOK
<1>1. GameInv /\ AccInv /\ SubInv => PartsTypeOK
  BY DEF GameInv, AccInv, SubInv, PartsTypeOK
<1> QED
  BY <1>1, PartsInvariant, PTL

\* What each part promises is kept beside the others: the page and the
\* record agree and the page explains itself, accounts keep addresses and
\* answers, the nonce stays near the count, and problems mean their solution.
THEOREM PartsPromises ==
    Spec => /\ [](VerdictsAgree /\ PageShows /\ NonceDrift /\ ProblemSound)
            /\ AccountsPromise
<1>1. GameInv /\ SubInv /\ GenInv => VerdictsAgree /\ PageShows /\ NonceDrift /\ ProblemSound
  BY DEF GameInv, SubInv, GenInv, VerdictsAgree, PageShows, Near, NonceDrift,
     Sound, Shown, Bounded, SolutionShown, WithinBounds, ProblemSound
<1> QED
  BY <1>1, PartsInvariant, PartsMove, AccountsKeepPromise, PTL
=============================================================================

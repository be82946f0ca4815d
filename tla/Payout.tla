-------------------------------- MODULE Payout --------------------------------
(***************************************************************************)
(* What the settlement promises: tokens are paid for what was earned, in   *)
(* any portions and at any time, never more and never taken back.  There   *)
(* are no snapshots, roots or transactions here.  The module Settlement    *)
(* (publish.ts, chain/publisher.rs, MathCoin.sol) implements it.           *)
(***************************************************************************)
EXTENDS Integers

CONSTANT Accounts

VARIABLES earned, paid

payoutVars == <<earned, paid>>

Init ==
    /\ earned = [a \in Accounts |-> 0]
    /\ paid = [a \in Accounts |-> 0]

\* The amount of a step is what it makes of it: any natural number but 0.
Earn(a) ==
    /\ earned'[a] \in Nat /\ earned[a] < earned'[a]
    /\ earned' = [earned EXCEPT ![a] = earned'[a]]
    /\ UNCHANGED paid

Pay(a) ==
    /\ paid'[a] \in Nat /\ paid[a] < paid'[a]
    /\ paid'[a] <= earned[a]
    /\ paid' = [paid EXCEPT ![a] = paid'[a]]
    /\ UNCHANGED earned

Next == \E a \in Accounts : Earn(a) \/ Pay(a)

Spec == Init /\ [][Next]_payoutVars
=============================================================================

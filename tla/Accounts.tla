------------------------------ MODULE Accounts ------------------------------
(***************************************************************************)
(* The table users and the two requests that write it: POST /api/session   *)
(* (session.rs) and POST /api/claim-address (claim_address.rs).            *)
(*                                                                         *)
(* Each runs two statements on the pool, every one a transaction of its    *)
(* own.  provider_sub, email and claim_address are UNIQUE; a token         *)
(* without an e-mail has the empty one (auth.rs), which is an e-mail like  *)
(* any other.  A call whose statement fails answers 500, and the statement *)
(* may have taken effect; a call that is dropped is one nobody hears.      *)
(***************************************************************************)
EXTENDS Naturals

CONSTANTS
    Subs,        \* values of provider_sub
    Emails,      \* the empty one is one of them
    Addresses,   \* with a valid EIP-55 checksum
    BadAddress,  \* a body that does not parse, or whose checksum is wrong
    Calls,       \* requests under way at once
    None         \* NULL

VARIABLES
    users,       \* provider_sub -> its row or None
    call,        \* where each call is
    held,        \* history: the <<sub, email>> that were ever in a row
    late         \* history: subs whose row came after an UPDATE had missed it

accVars == <<users, call, held, late>>

Row == [email : Emails, address : Addresses \cup {None}]

ASSUME NoneAssumption ==
    None \notin Row /\ None \notin Addresses /\ BadAddress \notin Addresses \cup {None}

Exists(s) == users[s] # None
AddressOf(s) == IF Exists(s) THEN users[s].address ELSE None
-----------------------------------------------------------------------------
\* UNIQUE(email), UNIQUE(claim_address): a row of another sub has it.
EmailTaken(s, e) == \E t \in Subs \ {s} : Exists(t) /\ users[t].email = e
AddressTaken(s, a) == \E t \in Subs \ {s} : AddressOf(t) = a

\* ON CONFLICT (provider_sub) DO UPDATE SET email = EXCLUDED.email
Upserted(s, e) == [email |-> e, address |-> AddressOf(s)]

\* WHERE provider_sub = $2 AND claim_address IS NULL
BugUnset(s) == Exists(s)
Unset(s) == Exists(s) /\ users[s].address = None

Idle == [at |-> "idle"]
Ready(k) == call[k].at \in {"idle", "done"}
Proceed(k, step, s, input) ==
    call' = [call EXCEPT ![k] = [at |-> step, sub |-> s, input |-> input]]
Answer(k, s, input, reply) ==
    call' = [call EXCEPT ![k] = [at |-> "done", sub |-> s, input |-> input,
                                 reply |-> reply]]
Drop(k) == call' = [call EXCEPT ![k] = Idle]
-----------------------------------------------------------------------------
AccInit ==
    /\ users = [s \in Subs |-> None]
    /\ call = [k \in Calls |-> Idle]
    /\ held = {}
    /\ late = {}

\* The upsert of a session, which creates the row or renews its e-mail ...
Upsert(k, s, e) ==
    /\ Ready(k)
    /\ ~EmailTaken(s, e)
    /\ users' = [users EXCEPT ![s] = Upserted(s, e)]
    /\ held' = held \cup {<<s, e>>}
    /\ late' = IF ~Exists(s) /\ \E j \in Calls : call[j].at = "select" /\ call[j].sub = s
               THEN late \cup {s} ELSE late
    /\ \/ Proceed(k, "balance", s, e)
       \/ Drop(k)

\* ... unless another account has that e-mail.
RefuseEmail(k, s, e) ==
    /\ Ready(k)
    /\ EmailTaken(s, e)
    /\ Answer(k, s, e, "internal")
    /\ UNCHANGED <<users, held, late>>

QueryEarnings(k) ==
    /\ call[k].at = "balance"
    /\ Answer(k, call[k].sub, call[k].input, "welcome")
    /\ UNCHANGED <<users, held, late>>

RejectAddress(k, s) ==
    /\ Ready(k)
    /\ Answer(k, s, BadAddress, "badAddress")
    /\ UNCHANGED <<users, held, late>>

\* The UPDATE of claim-address sets the address ...
SetAddress(k, s, a) ==
    /\ Ready(k)
    /\ Unset(s)
    /\ ~AddressTaken(s, a)
    /\ users' = [users EXCEPT ![s].address = a]
    /\ Answer(k, s, a, "ok") \/ Drop(k)
    /\ UNCHANGED <<held, late>>

\* ... or violates UNIQUE(claim_address) ...
RefuseAddress(k, s, a) ==
    /\ Ready(k)
    /\ Unset(s)
    /\ AddressTaken(s, a)
    /\ Answer(k, s, a, "inUse")
    /\ UNCHANGED <<users, held, late>>

\* ... or matches no row, and a second statement finds out why.
MissRow(k, s, a) ==
    /\ Ready(k)
    /\ ~Unset(s)
    /\ Proceed(k, "select", s, a)
    /\ UNCHANGED <<users, held, late>>

SelectExisting(k) ==
    /\ call[k].at = "select"
    /\ Answer(k, call[k].sub, call[k].input,
              IF Exists(call[k].sub) THEN "alreadySet" ELSE "notFound")
    /\ UNCHANGED <<users, held, late>>

\* The second statement fails, or the client is gone.  (A first statement
\* that fails without effect leaves everything as it was.)
FailCall(k) ==
    /\ ~Ready(k)
    /\ Drop(k)
    /\ UNCHANGED <<users, held, late>>

AccNext == \E k \in Calls :
    \/ QueryEarnings(k) \/ SelectExisting(k) \/ FailCall(k)
    \/ \E s \in Subs :
         \/ RejectAddress(k, s)
         \/ \E e \in Emails : Upsert(k, s, e) \/ RefuseEmail(k, s, e)
         \/ \E a \in Addresses : SetAddress(k, s, a) \/ RefuseAddress(k, s, a)
                                   \/ MissRow(k, s, a)

AccSpec == AccInit /\ [][AccNext]_accVars
-----------------------------------------------------------------------------
CallType ==
    {Idle}
    \cup [at : {"balance"}, sub : Subs, input : Emails]
    \cup [at : {"select"}, sub : Subs, input : Addresses]
    \cup [at : {"done"}, sub : Subs, input : Emails \cup Addresses \cup {BadAddress},
          reply : {"welcome", "internal", "ok", "badAddress", "inUse", "alreadySet", "notFound"}]

AccTypeOK ==
    /\ users \in [Subs -> Row \cup {None}]
    /\ call \in [Calls -> CallType]
    /\ held \subseteq Subs \X Emails
    /\ late \subseteq Subs

\* An address belongs to one player, and every player paid on chain is the
\* one who entered it, whatever claims race (claim_address.rs:45, 52-58).
OneHolder ==
    \A s, t \in Subs : AddressOf(s) # None /\ AddressOf(s) = AddressOf(t) => s = t

\* An address that is set stays: neither a second claim nor the upsert of a
\* later session, with the same e-mail or another, touches it.
AddressKept ==
    [][\A s \in Subs : AddressOf(s) # None => AddressOf(s)' = AddressOf(s)]_accVars

\* What claim-address answers is so: "already in use" is by another player,
\* never by the caller's own earlier try, and "already set" is true but for
\* an account that was created between the two statements
\* (claim_address.rs:52-79).
ClaimAnswersTrue == \A k \in Calls :
    call[k].at = "done" =>
        LET s == call[k].sub
        IN  CASE call[k].reply = "ok" -> AddressOf(s) = call[k].input
              [] call[k].reply = "inUse" -> \E t \in Subs \ {s} : AddressOf(t) = call[k].input
              [] call[k].reply = "alreadySet" -> AddressOf(s) # None \/ s \in late
              [] OTHER -> TRUE

\* A session is refused for its e-mail only if another account has had that
\* e-mail: for the account itself it can be repeated (session.rs:28).
SessionRefused == \A k \in Calls :
    call[k].at = "done" /\ call[k].reply = "internal" =>
        \E t \in Subs \ {call[k].sub} : <<t, call[k].input>> \in held

\* What the accounts promise: one holder of an address, who keeps it, and
\* answers that are so.
AccountsPromise == [](OneHolder /\ ClaimAnswersTrue /\ SessionRefused) /\ AddressKept
=============================================================================

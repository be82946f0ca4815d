------------------------------ MODULE GamePage ------------------------------
(***************************************************************************)
(* The page on which a player mines (Game.vue) with the retries of useApi, *)
(* over a network that loses requests and answers, and a server that       *)
(* credits or voids a challenge at once (POST /api/mint; its statements    *)
(* are in the module Mint).                                                *)
(*                                                                         *)
(* One GET /api/challenge and one POST /api/mint can be in flight, each on *)
(* its own: when the countdown ends while an answer is being judged, the   *)
(* page offers the next challenge.  What was sent and given up may still   *)
(* reach the server.  The page's clock, by which a challenge ends, is not  *)
(* the server's, so it may end at any time.                                *)
(***************************************************************************)
EXTENDS Naturals

CONSTANTS
    Challenges,   \* those that can be issued
    Retries,      \* retries of request()
    Blank         \* challenge.value before the first one came

ASSUME RetriesAssumption == Retries \in Nat
ASSUME BlankAssumption == Blank \notin Challenges

VARIABLES
    book,             \* the server's record of each challenge
    shown, result,    \* the challenge on the page, and the verdict
    timer,            \* of its countdown
    notice,           \* error, or `Slow down!' for rateLimited
    get, mint,        \* the two requests, and how often each was retried
    stray,            \* submissions given up that may still arrive
    lost,             \* history: challenges credited by an answer that was lost
    told,             \* history: <<challenge, verdict>> the page received
    ended             \* history: challenges whose countdown ended

gameVars == <<book, shown, result, timer, notice, get, mint, stray, lost, told, ended>>

IdleGet == [at |-> "idle", tries |-> 0]
IdleMint == [at |-> "idle"]
loading == get.at # "idle"
submitting == mint.at # "idle"
-----------------------------------------------------------------------------
\* What the server makes of a submission: the outcome, and the answer.  A
\* challenge that is resolved is answered so; one that is not may still be
\* told 409 (a statement or a commit failed, or the deadline passed).
BugOutcomes(status, answer) ==       \* credits what is resolved
    IF answer = "right" THEN {<<"credited", "correct">>} ELSE {<<"void", "wrong">>}
Outcomes(status, answer) ==
    {<<status, "limited">>, <<status, "refused">>, <<status, "failed">>, <<status, "resolved">>}
    \cup IF status # "open" THEN {}
         ELSE {<<"void", "expired">>, <<"void", "resolved">>}
              \cup IF answer = "right" THEN {<<"credited", "correct">>, <<"credited", "resolved">>}
                   ELSE {<<"void", "wrong">>}

\* handleMint: the verdict an answer becomes, if it becomes one.
Verdict(reply, before) ==
    CASE reply \in {"correct", "wrong"} -> reply
      [] reply \in {"expired", "resolved"} -> "expired"
      [] OTHER -> before

\* useApi: attempt < retries, and what is sent again.
BugMayRetry(request) == request.tries <= Retries
MayRetry(request) == request.tries < Retries
Retry(request) == [request EXCEPT !.at = "sent", !.tries = @ + 1]
-----------------------------------------------------------------------------
\* The page is mounted, and has asked for a challenge.
GameInit ==
    /\ book = [c \in Challenges |-> "unissued"]
    /\ shown = Blank /\ result = "none"
    /\ timer = "null" /\ notice = "none"
    /\ get = [at |-> "sent", tries |-> 0]
    /\ mint = IdleMint
    /\ stray = {} /\ lost = {} /\ told = {} /\ ended = {}

\* The button that a verdict other than `correct' comes with.
NextChallenge ==
    /\ ~loading /\ shown # Blank /\ result \in {"wrong", "expired"}
    /\ get' = [at |-> "sent", tries |-> 0]
    /\ result' = "none" /\ timer' = "null" /\ notice' = "none"
    /\ UNCHANGED <<book, shown, mint, stray, lost, told, ended>>

\* A challenge arrives, and by the page's clock it may be over already.
ShowChallenge(c) ==
    /\ loading
    /\ book[c] = "unissued"
    /\ book' = [book EXCEPT ![c] = "open"]
    /\ shown' = c /\ timer' = "ticking"
    /\ \/ UNCHANGED <<result, ended>>
       \/ result' = "expired" /\ ended' = ended \cup {c}
    /\ get' = IdleGet
    /\ UNCHANGED <<notice, mint, stray, lost, told>>

\* No answer, or an error: some are retried, the others shown.  (A challenge
\* whose answer was lost is one that nobody can submit to.)
BugFailGet ==           \* the finally block alone
    /\ loading
    /\ get' = IdleGet
    /\ UNCHANGED <<book, shown, result, timer, notice, mint, stray, lost, told, ended>>
FailGet ==
    /\ loading
    /\ \/ MayRetry(get) /\ get' = Retry(get) /\ UNCHANGED notice
       \/ get' = IdleGet /\ notice' \in {"error", "slowDown"}
    /\ UNCHANGED <<book, shown, result, timer, mint, stray, lost, told, ended>>

\* tick() at zero.
Expire ==
    /\ timer = "ticking"
    /\ result' = "expired" /\ timer' = "null"
    /\ ended' = ended \cup {shown}
    /\ UNCHANGED <<book, shown, notice, get, mint, stray, lost, told>>

HandleMint(answer) ==
    /\ ~loading /\ ~submitting /\ shown # Blank /\ result = "none"
    /\ mint' = [at |-> "sent", tries |-> 0, challenge |-> shown, answer |-> answer, reply |-> "none"]
    /\ notice' = "none"
    /\ UNCHANGED <<book, shown, result, timer, get, stray, lost, told, ended>>

ServeMint ==
    /\ mint.at = "sent"
    /\ \E o \in Outcomes(book[mint.challenge], mint.answer) :
         /\ book' = [book EXCEPT ![mint.challenge] = o[1]]
         /\ mint' = [mint EXCEPT !.at = "answered", !.reply = o[2]]
         /\ lost' = IF o = <<"credited", "resolved">> THEN lost \cup {mint.challenge} ELSE lost
    /\ UNCHANGED <<shown, result, timer, notice, get, stray, told, ended>>

\* A submission that was given up arrives after all; nobody hears the answer.
ServeStray ==
    /\ \E s \in stray : \E o \in Outcomes(book[s[1]], s[2]) :
         book' = [book EXCEPT ![s[1]] = o[1]]
    /\ UNCHANGED <<shown, result, timer, notice, get, mint, stray, lost, told, ended>>

\* The request or its answer is lost: `Failed to fetch' is retried, and what
\* else a browser may say is not.
LoseMint ==
    /\ submitting
    /\ stray' = IF mint.at = "sent" THEN stray \cup {<<mint.challenge, mint.answer>>} ELSE stray
    /\ lost' = IF mint.at = "answered" /\ mint.reply = "correct"
               THEN lost \cup {mint.challenge} ELSE lost
    /\ \/ MayRetry(mint) /\ mint' = Retry(mint) /\ UNCHANGED notice
       \/ mint' = IdleMint /\ notice' = "error"
    /\ UNCHANGED <<book, shown, result, timer, get, told, ended>>

RetryMint ==
    /\ mint.at = "answered" /\ mint.reply = "failed" /\ MayRetry(mint)
    /\ mint' = Retry(mint)
    /\ UNCHANGED <<book, shown, result, timer, notice, get, stray, lost, told, ended>>

\* The answer of a mint, on whatever challenge the page shows by now.
ReturnMint ==
    /\ mint.at = "answered"
    /\ mint.reply = "failed" => ~MayRetry(mint)
    /\ result' = Verdict(mint.reply, result)
    /\ timer' = IF mint.reply = "correct" THEN "null" ELSE timer
    /\ notice' = CASE mint.reply = "limited" -> "slowDown"
                   [] mint.reply \in {"refused", "failed"} -> "error"
                   [] OTHER -> notice
    /\ told' = told \cup ({mint.challenge} \X ({mint.reply} \cap {"correct", "wrong"}))
    /\ mint' = IdleMint
    /\ UNCHANGED <<book, shown, get, stray, lost, ended>>

GetEnds == FailGet \/ \E c \in Challenges : ShowChallenge(c)
MintEnds == ServeMint \/ LoseMint \/ RetryMint \/ ReturnMint

GameNext ==
    \/ GetEnds \/ MintEnds \/ ServeStray
    \/ NextChallenge \/ Expire
    \/ \E answer \in {"right", "wrong"} : HandleMint(answer)

\* A fetch ends, with an answer or without.
GameSpec == GameInit /\ [][GameNext]_gameVars /\ WF_gameVars(GetEnds) /\ WF_gameVars(MintEnds)
-----------------------------------------------------------------------------
Replies == {"correct", "wrong", "expired", "resolved", "limited", "refused", "failed"}
Results == {"none", "correct", "wrong", "expired"}

GameTypeOK ==
    /\ book \in [Challenges -> {"unissued", "open", "credited", "void"}]
    /\ shown \in Challenges \cup {Blank}
    /\ result \in Results
    /\ timer \in {"null", "ticking"} /\ notice \in {"none", "error", "slowDown"}
    /\ get \in [at : {"idle", "sent"}, tries : 0..Retries]
    /\ mint \in {IdleMint} \cup
           [at : {"sent", "answered"}, tries : 0..Retries, challenge : Challenges,
            answer : {"right", "wrong"}, reply : Replies \cup {"none"}]
    /\ stray \subseteq Challenges \X {"right", "wrong"}
    /\ lost \subseteq Challenges
    /\ told \subseteq Challenges \X {"correct", "wrong"}
    /\ ended \subseteq Challenges
    /\ \A c \in Challenges : book[c] = "unissued" =>
         /\ c # shown /\ <<c, "right">> \notin stray /\ <<c, "wrong">> \notin stray
         /\ submitting => mint.challenge # c

\* `Correct!' and `Wrong answer!' are so and stay so, retries, lost answers
\* and submissions that arrive late included.
VerdictsTrue == \A c \in Challenges :
    /\ <<c, "correct">> \in told => book[c] = "credited"
    /\ <<c, "wrong">> \in told => book[c] = "void"

\* The other side: a credit of which the page is not told is one of which an
\* answer was lost, and nothing the page does on its own hides it, expiry
\* and the next challenge included.
CreditsTold == \A c \in Challenges :
    book[c] = "credited" =>
        \/ <<c, "correct">> \in told
        \/ c \in lost \/ <<c, "right">> \in stray
        \/ mint.at = "answered" /\ mint.challenge = c /\ mint.reply = "correct"

\* The player and the server's record agree, in both directions
\* (Game.vue:86-99, useApi.ts:28-61).
VerdictsAgree == VerdictsTrue /\ CreditsTold

\* The page at rest shows a verdict, a countdown or what went wrong; it has
\* no open form that only looks alive.  (`Slow down!' is shown beside a
\* challenge: when the very first fetch is told so, the page stays blank.)
PageExplains ==
    loading \/ submitting \/ timer # "null" \/ notice # "none" \/ result # "none"

\* The verdict on the page may be of an earlier challenge, but only of one
\* whose countdown ended while its answer was being judged.
VerdictOfShown ==
    result \in {"correct", "wrong"} /\ <<shown, result>> \notin told =>
        \E c \in ended : <<c, result>> \in told

\* What the page shows is never left unexplained, and how far a verdict may
\* be off the challenge beside it (Game.vue:55-79, 91).
PageShows == PageExplains /\ VerdictOfShown
=============================================================================

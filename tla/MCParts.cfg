\* Two challenges and a retry; two players, e-mails, addresses and requests; two
\* submissions, a foreign transaction and a dropped one; the levels 1..8.
SPECIFICATION Spec
CONSTANTS
    Challenges = {c1, c2}
    Retries = 1
    Blank = Blank
    Subs = {s1, s2}
    Emails = {e1, e2}
    Addresses = {a1, a2}
    BadAddress = BadAddress
    Calls = {k1, k2}
    None = None
    Submits = {t1, t2}
    MaxForeign = 1
    MaxDropped = 1
    Levels = {1, 2, 3, 4, 5, 6, 7, 8}
    Samples = {1, 2, 9, 10, 19, 25, 99, 199, 200, 250, 2000, 2500, 20000}
INVARIANT PartsTypeOK
INVARIANT VerdictsAgree
INVARIANT PageShows
INVARIANT NonceDrift
INVARIANT ProblemSound
PROPERTY AccountsPromise
PROPERTY CallsEnd
CHECK_DEADLOCK FALSE

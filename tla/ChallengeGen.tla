---------------------------- MODULE ChallengeGen ----------------------------
(***************************************************************************)
(* The arithmetic problems (challenge.rs).  A problem is an expression of  *)
(* two products, x op y, shown to the player, and the solution that is     *)
(* stored; a single operand is a product with 1.  The operands are random: *)
(* here every one that Draws allows, out of the numbers in Samples.        *)
(***************************************************************************)
EXTENDS Integers

CONSTANTS
    Levels,     \* the levels the retarget may ask for, from 1
    Samples     \* the numbers the generator may draw

ASSUME LevelsAssumption == Levels \subseteq 1..12
ASSUME SamplesAssumption == Samples \subseteq Nat

VARIABLES level, problem    \* of one GET /api/challenge

genVars == <<level, problem>>
-----------------------------------------------------------------------------
\* rng.gen_range(lo..=hi)
Draws(lo, hi) == {n \in Samples : lo <= n /\ n <= hi}

Terms(maxA, maxB) == Draws(10, maxA) \X Draws(2, maxB)
Numbers(lo, hi) == Draws(lo, hi) \X {1}

Value(x) == x[1] * x[2]

Sum(x, y) ==
    [op |-> "plus", x |-> x, y |-> y, solution |-> Value(x) + Value(y)]

\* The larger is shown first: no solution is negative.
BugDifference(x, y) ==      \* ordered for the solution, not for the player
    [op |-> "minus", x |-> x, y |-> y,
     solution |-> IF Value(x) >= Value(y) THEN Value(x) - Value(y) ELSE Value(y) - Value(x)]
Difference(x, y) ==
    LET minus(big, small) ==
            [op |-> "minus", x |-> big, y |-> small, solution |-> Value(big) - Value(small)]
    IN  IF Value(x) >= Value(y) THEN minus(x, y) ELSE minus(y, x)

Remainder(x, y) ==
    [op |-> "mod", x |-> x, y |-> y, solution |-> Value(x) % Value(y)]

Sums(X, Y) == {Sum(x, y) : x \in X, y \in Y}
Differences(X, Y) == {Difference(x, y) : x \in X, y \in Y}
Remainders(X, Y) == {Remainder(x, y) : x \in X, y \in Y}

\* 10i64.saturating_pow(level - 4), max_a and max_b
Scale == <<0, 0, 0, 0, 0, 100, 1000, 10000, 100000, 1000000, 10000000, 100000000>>
MaxA(l) == IF 99 >= Scale[l] * 2 THEN 99 ELSE Scale[l] * 2
MaxB(l) == IF 19 >= Scale[l] \div 4 THEN 19 ELSE Scale[l] \div 4

Problems(l) ==
    CASE l = 1 -> Sums(Numbers(1, 9), Numbers(1, 9))
                    \cup Differences(Numbers(1, 9), Numbers(1, 9))
      [] l = 2 -> Sums(Numbers(10, 99), Numbers(10, 99))
                    \cup Differences(Numbers(10, 99), Numbers(10, 99))
      [] l = 3 -> Sums(Terms(99, 9), {<<0, 1>>})
      [] l = 4 -> Sums(Terms(199, 19), Numbers(10, 999))
                    \cup Differences(Terms(199, 19), Numbers(10, 999))
      [] l = 5 -> Remainders(Terms(99, 19), Numbers(11, 97))
                    \cup Differences(Terms(99, 19), Terms(99, 19))
      [] OTHER -> Differences(Terms(MaxA(l), MaxB(l)), Terms(MaxA(l), MaxB(l)))

NoProblem == [op |-> "none", x |-> <<0, 0>>, y |-> <<0, 0>>, solution |-> 0]
-----------------------------------------------------------------------------
GenInit == level = 1 /\ problem = NoProblem

\* The generator keeps nothing from one call to the next.
Generate(l) ==
    /\ problem = NoProblem
    /\ level' = l
    /\ problem' \in Problems(l)

GenNext == \E l \in Levels : Generate(l)

GenSpec == GenInit /\ [][GenNext]_genVars
-----------------------------------------------------------------------------
\* What the player reads evaluates to the solution that is stored, in the
\* order in which it is shown, and is never negative (challenge.rs:56,
\* 102-109, 142-149, 166-173).
SolutionShown ==
    /\ problem.solution >= 0
    /\ CASE problem.op = "plus"  -> problem.solution = Value(problem.x) + Value(problem.y)
         [] problem.op = "minus" -> problem.solution = Value(problem.x) - Value(problem.y)
         [] problem.op = "mod"   -> problem.solution = Value(problem.x) % Value(problem.y)
         [] OTHER -> problem = NoProblem

\* The largest product and the largest solution are those the SAFETY comment
\* names, level by level (challenge.rs:3-16): checked arithmetic never fails.
LargestTerm(l) == CASE l = 1 -> 9 [] l = 2 -> 99 [] l = 3 -> 891 [] l = 4 -> 3781
                    [] l = 5 -> 1881 [] OTHER -> MaxA(l) * MaxB(l)
LargestSolution(l) == CASE l = 1 -> 18 [] l = 2 -> 198 [] l = 4 -> 4780
                        [] OTHER -> LargestTerm(l)

WithinBounds ==
    /\ Value(problem.x) <= LargestTerm(level)
    /\ Value(problem.y) <= LargestTerm(level)
    /\ problem.solution <= LargestSolution(level)

\* The player and the database mean the same number, and it fits.
ProblemSound == SolutionShown /\ WithinBounds
=============================================================================

---------------------------- MODULE DreoIteration ----------------------------
(***************************************************************************)
(* Induction for the loops of the program, such as the one of              *)
(* handle_datapoints_ over the datapoints of a report: a loop is a         *)
(* recursive function over 0..n whose value at i is the state after i      *)
(* rounds.  Step is what a round does and Holds an invariant, of a context *)
(* that stays, a state and the rounds done; a module that proves something *)
(* of a loop instantiates both.                                            *)
(***************************************************************************)
EXTENDS Integers, WellFoundedInduction, TLAPS

CONSTANTS Step(_, _, _), Holds(_, _, _)

\* What holds of 0, and of the successor of each number it holds of, holds of all.
LEMMA SetInduction ==
    ASSUME NEW S, 0 \in S, \A n \in Nat : n \in S => n + 1 \in S
    PROVE  Nat \subseteq S
<1> DEFINE T == Nat \ S
<1>1. ASSUME T # {} PROVE FALSE
    <2>1. IsWellFoundedOn(OpToRel(<, Nat), Nat)
        BY NatLessThanWellFounded
    <2>2. T \subseteq Nat
        OBVIOUS
    <2> HIDE DEF T
    <2>3. PICK x \in T : \A y \in T : ~(<<y, x>> \in OpToRel(<, Nat))
        BY <1>1, <2>1, <2>2, WFMin
    <2>4. x \in Nat /\ x # 0
        BY DEF T
    <2>5. x - 1 \in Nat /\ x = (x - 1) + 1 /\ x \notin S
        BY <2>4 DEF T
    <2>6. x - 1 \in T
        BY <2>5 DEF T
    <2>7. <<x - 1, x>> \in OpToRel(<, Nat)
        BY <2>4, <2>5 DEF OpToRel
    <2> QED BY <2>3, <2>6, <2>7
<1> QED BY <1>1

Rounds(c, base, n, f) ==
    f = [i \in 0..n |-> IF i = 0 THEN base ELSE Step(c, f[i - 1], i)]

\* There is a function that follows the recursion, for any number of rounds.
LEMMA RoundsExist ==
    ASSUME NEW c, NEW base
    PROVE  \A n \in Nat : \E f : Rounds(c, base, n, f)
<1> DEFINE S == {n \in Nat : \E f : Rounds(c, base, n, f)}
<1>1. 0 \in S
    <2> DEFINE f == [i \in 0..0 |-> base]
    <2>1. Rounds(c, base, 0, f)
        BY DEF Rounds
    <2> QED BY <2>1
<1>2. ASSUME NEW n \in Nat, n \in S PROVE n + 1 \in S
    <2>1. PICK f : Rounds(c, base, n, f)
        BY <1>2
    <2> DEFINE g == [i \in 0..(n + 1) |-> IF i = n + 1 THEN Step(c, f[n], n + 1) ELSE f[i]]
    <2>2. ASSUME NEW i \in 0..(n + 1) PROVE g[i] = IF i = 0 THEN base ELSE Step(c, g[i - 1], i)
        <3>1. CASE i = n + 1
            <4>1. i # 0 /\ i - 1 = n /\ n \in 0..(n + 1) /\ n # n + 1
                BY <3>1
            <4>2. g[i - 1] = f[n] /\ g[i] = Step(c, f[n], n + 1)
                BY <3>1, <4>1
            <4> QED BY <3>1, <4>1, <4>2
        <3>2. CASE i # n + 1
            <4>1. i \in 0..n /\ (i # 0 => i - 1 \in 0..(n + 1) /\ i - 1 # n + 1)
                BY <3>2
            <4>2. f[i] = IF i = 0 THEN base ELSE Step(c, f[i - 1], i)
                BY <2>1, <4>1 DEF Rounds
            <4> QED BY <3>2, <4>1, <4>2
        <3> QED BY <3>1, <3>2
    <2>3. Rounds(c, base, n + 1, g)
        BY <2>2 DEF Rounds
    <2> QED BY <2>3
<1> HIDE DEF S
<1>3. Nat \subseteq S
    BY <1>1, <1>2, SetInduction
<1> QED BY <1>3 DEF S

\* What holds before the first round and is kept by each one holds after the last.
THEOREM LoopInvariant ==
    ASSUME NEW c, NEW base, NEW n \in Nat,
           Holds(c, base, 0),
           \A i \in 1..n : \A q : Holds(c, q, i - 1) => Holds(c, Step(c, q, i), i)
    PROVE  LET f[i \in 0..n] == IF i = 0 THEN base ELSE Step(c, f[i - 1], i)
           IN  Holds(c, f[n], n)
<1> DEFINE f[i \in 0..n] == IF i = 0 THEN base ELSE Step(c, f[i - 1], i)
<1>1. \E g : Rounds(c, base, n, g)
    BY RoundsExist
<1>2. f = [i \in 0..n |-> IF i = 0 THEN base ELSE Step(c, f[i - 1], i)]
    BY <1>1 DEF Rounds
<1> HIDE DEF f
<1> DEFINE S == {i \in Nat : i <= n => Holds(c, f[i], i)}
<1>3. 0 \in S
    BY <1>2
<1>4. ASSUME NEW i \in Nat, i \in S PROVE i + 1 \in S
    <2>1. CASE i + 1 <= n
        <3>1. i \in 0..n /\ i + 1 \in 1..n /\ i + 1 \in 0..n /\ (i + 1) - 1 = i
            BY <2>1
        <3>2. f[i + 1] = Step(c, f[i], i + 1) /\ Holds(c, f[i], i)
            BY <1>2, <1>4, <2>1, <3>1
        <3> QED BY <3>1, <3>2
    <2>2. CASE ~(i + 1 <= n)
        BY <2>2
    <2> QED BY <2>1, <2>2
<1> HIDE DEF S
<1>5. n \in S
    BY <1>3, <1>4, SetInduction
<1> QED BY <1>5 DEF S, f
==============================================================================

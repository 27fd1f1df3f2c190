------------------------------- MODULE GoInt -------------------------------
(***************************************************************************)
(* Go's int and the two strconv functions the chaincodes convert with.     *)
(*                                                                         *)
(* An int is HalfRange values below zero and HalfRange values from zero    *)
(* up; in the deployed build (64 bits) HalfRange is 2^63.  A decimal       *)
(* string is a record of the number it spells and of how it spells it:     *)
(* "7" is plain, the way Itoa does; "007" and "+7" are padded.             *)
(***************************************************************************)
EXTENDS Integers

CONSTANT HalfRange
ASSUME HalfRangeAssumption == HalfRange \in Nat \ {0}

MinInt == -HalfRange
MaxInt == HalfRange - 1
GoInts == MinInt .. MaxInt

\* The value a Go int holds after an addition or subtraction whose exact
\* result is n: two's complement, no trap.
Wrap(n) == ((n + HalfRange) % (2 * HalfRange)) - HalfRange

Decimals == [n : Int, spelling : {"plain", "padded"}]

Itoa(n) == [n |-> n, spelling |-> "plain"]

Clamp(n) == IF n > MaxInt THEN MaxInt ELSE IF n < MinInt THEN MinInt ELSE n

\* Atoi returns a number and an error: no error for a decimal in range; the
\* nearest int for a decimal out of range, zero for any other string.
Parses(s) == s \in Decimals /\ s.n \in GoInts
Atoi(s)   == IF s \in Decimals THEN Clamp(s.n) ELSE 0

\* The strings that converting to an int and back does not change.
Canonical(s) == Parses(s) /\ Itoa(Atoi(s)) = s
=============================================================================

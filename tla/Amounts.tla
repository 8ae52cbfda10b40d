------------------------------ MODULE Amounts ------------------------------
(***************************************************************************)
(* The checked arithmetic on amounts of internal/core/amount.go.  Amounts  *)
(* are unsigned machine words; a result carries the value and the error    *)
(* that the Go function returns ("nil" for success, and 0 with an error).  *)
(***************************************************************************)
EXTENDS Integers

CONSTANTS
    MaxAmount,    \* core.MaxAmount, the largest legal amount
    BondDivisor,  \* the divisor that turns an amount into its bond (fee)
    WordSize      \* 2^64 in the code: the number of values of an Amount

\* MaxAmount is 9 * 10^15 and a word has 2^64 values, so the sum of two legal
\* amounts never wraps around.
ASSUME AmountsAssumption ==
    /\ MaxAmount \in Nat \ {0}
    /\ BondDivisor \in Nat \ {0}
    /\ WordSize \in Nat
    /\ 2 * MaxAmount < WordSize

\* The values of the Go type core.Amount.
Word == 0 .. (WordSize - 1)

\* uint64 addition and subtraction, with their wrap-around.
Add64(a, b) == IF a + b < WordSize THEN a + b ELSE a + b - WordSize
Sub64(a, b) == IF b <= a THEN a - b ELSE a - b + WordSize

OK(v) == [val |-> v, err |-> "nil"]
Fail(e) == [val |-> 0, err |-> e]

----------------------------------------------------------------------------
SafeAdd(a, b) ==
    IF a > MaxAmount \/ b > MaxAmount
    THEN Fail("AmountExceedMax")
    ELSE IF b > Sub64(MaxAmount, a)
         THEN Fail("AmountOverflow")
         ELSE OK(Add64(a, b))

\* A variant of SafeSub on signed amounts, without the underflow check.
SafeSubSigned(a, b) == OK(a - b)

SafeSub(a, b) ==
    IF b > a THEN Fail("AmountUnderflow") ELSE OK(Sub64(a, b))

ValidateAmount(a) ==
    IF a = 0 THEN "AmountZero"
    ELSE IF a > MaxAmount THEN "AmountExceedMax" ELSE "nil"

\* BondAmount / calcBond: the fee is the integer quotient.
BondAmount(a) == a \div BondDivisor
============================================================================

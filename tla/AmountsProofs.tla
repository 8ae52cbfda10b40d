--------------------------- MODULE AmountsProofs ---------------------------
(***************************************************************************)
(* What the checked arithmetic of Amounts returns, for every MaxAmount,    *)
(* BondDivisor and word size that fits.                                    *)
(***************************************************************************)
EXTENDS Amounts, TLAPS

(* SafeAdd succeeds exactly when the exact sum is a legal amount, and then
   returns that sum: no wrap-around (amount.go, SafeAdd). *)
THEOREM SafeAddExact ==
    ASSUME NEW a \in Word, NEW b \in Word
    PROVE  /\ SafeAdd(a, b).err = "nil" <=> a + b <= MaxAmount
           /\ SafeAdd(a, b).err = "nil" => SafeAdd(a, b).val = a + b
           /\ SafeAdd(a, b).val \in 0 .. MaxAmount
  BY AmountsAssumption DEF SafeAdd, Word, OK, Fail, Add64, Sub64

(* SafeSub succeeds exactly when there is enough to subtract from, and then
   returns the exact difference (amount.go, SafeSub). *)
THEOREM SafeSubExact ==
    ASSUME NEW a \in Word, NEW b \in Word
    PROVE  /\ SafeSub(a, b).err = "nil" <=> b <= a
           /\ SafeSub(a, b).err = "nil" => SafeSub(a, b).val = a - b
           /\ SafeSub(a, b).val \in 0 .. a
  BY AmountsAssumption DEF SafeSub, Word, OK, Fail, Sub64

(* The bond on an amount never exceeds the amount (amount.go, calcBond). *)
THEOREM BondBounded ==
    ASSUME NEW a \in Word
    PROVE  BondAmount(a) \in 0 .. a
  BY AmountsAssumption DEF BondAmount, Word

\* Legal amounts are words.
LEMMA AmountsAreWords == 0 .. MaxAmount \subseteq Word /\ 0 \in Word
  BY AmountsAssumption DEF Word
============================================================================

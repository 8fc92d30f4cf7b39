-------------------------------- MODULE Binary --------------------------------
(***************************************************************************)
(* Natural numbers as bits.  Shifts of the code are products with and      *)
(* quotients by a power of two; a recursive function, so that what it      *)
(* computes can be reasoned about.                                         *)
(***************************************************************************)
EXTENDS Integers

Pow2[n \in Nat] == IF n = 0 THEN 1 ELSE 2 * Pow2[n - 1]

(* Bit k of a value.                                                       *)
Has(v, k) == (v \div Pow2[k]) % 2 = 1

(* The value of width w whose bits are those of S, put together bit by     *)
(* bit.                                                                    *)
ValueOf(S, w) ==
    LET low[n \in Nat] ==
          IF n = 0 THEN 0 ELSE low[n - 1] + (IF n - 1 \in S THEN Pow2[n - 1] ELSE 0)
    IN  low[w]
=============================================================================

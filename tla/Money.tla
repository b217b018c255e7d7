------------------------------- MODULE Money -------------------------------
(***************************************************************************)
(* Amounts of money, in cents.  Decimal.quantize(Decimal("0.01")) and      *)
(* round() both round half to even.                                        *)
(***************************************************************************)
EXTENDS Integers, Sequences, SequencesExt

\* The integer nearest to a / b, ties to even, for b > 0.
RoundDiv(a, b) ==
    LET q == a \div b
        r == a % b
    IN IF 2 * r < b \/ (2 * r = b /\ q % 2 = 0) THEN q ELSE q + 1

Pesos(cents) == RoundDiv(cents, 100)

Total(f) == SumFunction(f)

=============================================================================

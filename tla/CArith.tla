-------------------------------- MODULE CArith --------------------------------
(* Integer arithmetic as C does it.                                        *)
EXTENDS Integers

LOCAL Magnitude(a) == IF a < 0 THEN -a ELSE a

(* Division rounds towards zero and the remainder has the sign of a.       *)
CDiv(a, b) ==
  LET q == Magnitude(a) \div Magnitude(b) IN IF (a < 0) = (b < 0) THEN q ELSE -q
CMod(a, b) == a - b * CDiv(a, b)
=============================================================================

---------------------------- MODULE ConvertMinor ----------------------------
(***************************************************************************)
(* Currency conversion of integer minor units, rates/convert-minor.ts: the *)
(* product amount * rate rounded to an integer with ROUND_HALF_EVEN.  A    *)
(* rate is an exact decimal, represented as a fraction <<num, den>>.       *)
(***************************************************************************)
EXTENDS Integers

\* x / d rounded to the nearest integer, a tie going to the even neighbour.
HalfEven(x, d) ==
    LET q == x \div d
        r == x % d
    IN  IF 2 * r < d \/ (2 * r = d /\ q % 2 = 0) THEN q ELSE q + 1

\* convertMinor(amountMinor, rate)
ConvertMinorAmount(amount, rate) == HalfEven(amount * rate[1], rate[2])
=============================================================================

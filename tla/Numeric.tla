-------------------------------- MODULE Numeric --------------------------------
(***************************************************************************)
(* Integer division with banker's rounding (round half to even), in its    *)
(* two implementations: the Rust function the recalc fold and the core     *)
(* methods call, and the SQL function the hot-path statements call.  Money *)
(* is an integer number of micro-units; the casts back to 64 bits raise    *)
(* an error, so a result that exists is the exact one.                     *)
(***************************************************************************)
EXTENDS Integers

Abs(n) == IF n < 0 THEN -n ELSE n

\* Rust's `/' on i128 and SQL's trunc(): towards zero.  Rust's `%' is the
\* remainder that goes with it, so it has the sign of the numerator.
Trunc(n, d) ==
    LET q == Abs(n) \div Abs(d) IN IF (n < 0) # (d < 0) THEN -q ELSE q
Rem(n, d) == n - Trunc(n, d) * d

\* ledger_core::numeric::banker_div.
BankerDiv(n, d) ==
    LET q == Trunc(n, d)
        r == Rem(n, d)
        sign == IF (n < 0) # (d < 0) THEN -1 ELSE 1
    IN  IF r = 0 \/ 2 * Abs(r) < Abs(d) THEN q
        ELSE IF 2 * Abs(r) > Abs(d) THEN q + sign
        ELSE IF q % 2 = 0 THEN q ELSE q + sign

\* The SQL function banker_div(numeric, bigint).
SqlBankerDiv(n, d) ==
    LET q == Trunc(n, d)
        r == n - q * d
        sgn == IF (n < 0) # (d < 0) THEN -1 ELSE 1
    IN  IF 2 * Abs(r) < Abs(d) \/ (2 * Abs(r) = Abs(d) /\ q % 2 = 0) THEN q
        ELSE q + sgn

\* What both promise: a nearest integer to n / d, and the even one of two.
HalfEven(k, n, d) ==
    LET err == 2 * Abs(n - k * d)
    IN  err < Abs(d) \/ (err = Abs(d) /\ k % 2 = 0)
================================================================================

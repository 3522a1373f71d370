--------------------------- MODULE HotMethodsProofs ---------------------------
(***************************************************************************)
(* Banker's rounding, for every numerator and denominator, and what rests  *)
(* on it: the WAC statements are ledger-core's WAC planner on every row a  *)
(* WAC pool can have.                                                      *)
(***************************************************************************)
EXTENDS HotMethods, TLAPS

\* Division of naturals leaves a remainder below the divisor.
LEMMA EuclidNat ==
    ASSUME NEW n \in Nat, NEW d \in Nat \ {0}
    PROVE  /\ n \div d \in Nat
           /\ n - (n \div d) * d >= 0
           /\ n - (n \div d) * d < d
  BY SMT

\* Neighbours have different parities.
LEMMA Parity ==
    ASSUME NEW q \in Int, q % 2 # 0
    PROVE  (q + 1) % 2 = 0 /\ (q - 1) % 2 = 0
  BY SMT

\* Truncating division: the remainder is below the divisor in magnitude and
\* does not point away from the numerator.
LEMMA Truncation ==
    ASSUME NEW n \in Int, NEW d \in Int \ {0}
    PROVE  /\ Trunc(n, d) \in Int
           /\ Rem(n, d) \in Int
           /\ Abs(Rem(n, d)) < Abs(d)
           /\ n >= 0 => Rem(n, d) >= 0
           /\ n <= 0 => Rem(n, d) <= 0
<1> DEFINE q == Abs(n) \div Abs(d)
           r == Abs(n) - q * Abs(d)
<1>1. Abs(n) \in Nat /\ Abs(d) \in Nat \ {0}
  BY DEF Abs
<1>2. q \in Nat /\ r >= 0 /\ r < Abs(d) /\ r \in Int
  BY <1>1, EuclidNat
<1>3. Trunc(n, d) = IF (n < 0) # (d < 0) THEN -q ELSE q
  BY DEF Trunc
<1> HIDE DEF q
<1>4. Rem(n, d) = IF n < 0 THEN -r ELSE r
  <2>1. CASE n < 0 /\ d < 0
    BY <1>2, <1>3, <2>1 DEF Rem, Abs
  <2>2. CASE n < 0 /\ ~(d < 0)
    BY <1>2, <1>3, <2>2 DEF Rem, Abs
  <2>3. CASE ~(n < 0) /\ d < 0
    BY <1>2, <1>3, <2>3 DEF Rem, Abs
  <2>4. CASE ~(n < 0) /\ ~(d < 0)
    BY <1>2, <1>3, <2>4 DEF Rem, Abs
  <2> QED
    BY <2>1, <2>2, <2>3, <2>4
<1>5. n = 0 => r = 0
  BY <1>2 DEF Abs
<1> HIDE DEF r
<1> QED
  BY <1>2, <1>3, <1>4, <1>5 DEF Abs

\* The Rust function returns a nearest integer to n / d, and the even one of
\* two nearest integers.
THEOREM BankerDivHalfEven ==
    ASSUME NEW n \in Int, NEW d \in Int \ {0}
    PROVE  HalfEven(BankerDiv(n, d), n, d)
<1> DEFINE q == Trunc(n, d)
           r == Rem(n, d)
           sign == IF (n < 0) # (d < 0) THEN -1 ELSE 1
<1>1. /\ q \in Int /\ r \in Int /\ Abs(r) < Abs(d)
      /\ n >= 0 => r >= 0
      /\ n <= 0 => r <= 0
  BY Truncation
<1>2. n - q * d = r
  BY <1>1 DEF Rem
<1>3. n - (q + sign) * d = r - sign * d
  BY <1>1, <1>2
<1>4. BankerDiv(n, d) = IF 2 * Abs(r) < Abs(d) \/ (2 * Abs(r) = Abs(d) /\ q % 2 = 0)
                        THEN q ELSE q + sign
  <2>1. BankerDiv(n, d) = IF r = 0 \/ 2 * Abs(r) < Abs(d) THEN q
                          ELSE IF 2 * Abs(r) > Abs(d) THEN q + sign
                          ELSE IF q % 2 = 0 THEN q ELSE q + sign
    BY DEF BankerDiv
  <2> HIDE DEF q, r, sign
  <2> QED
    BY <1>1, <2>1 DEF Abs
<1> HIDE DEF q, r
<1>5. CASE 2 * Abs(r) < Abs(d) \/ (2 * Abs(r) = Abs(d) /\ q % 2 = 0)
  BY <1>2, <1>4, <1>5 DEF HalfEven
<1>6. CASE ~(2 * Abs(r) < Abs(d) \/ (2 * Abs(r) = Abs(d) /\ q % 2 = 0))
  <2>1. Abs(r - sign * d) = Abs(d) - Abs(r)
    BY <1>1, <1>6 DEF Abs
  <2>2. q + sign \in Int /\ (q % 2 # 0 => (q + sign) % 2 = 0)
    BY <1>1, Parity
  <2>3. 2 * Abs(n - (q + sign) * d) = 2 * Abs(d) - 2 * Abs(r)
    BY <1>1, <1>3, <2>1 DEF Abs
  <2>4. BankerDiv(n, d) = q + sign
    BY <1>4, <1>6
  <2> HIDE DEF sign
  <2>5. Abs(r) \in Int /\ Abs(d) \in Int
    BY <1>1 DEF Abs
  <2> DEFINE e == 2 * Abs(n - (q + sign) * d)
  <2>6. e < Abs(d) \/ (e = Abs(d) /\ (q + sign) % 2 = 0)
    <3>1. e = 2 * Abs(d) - 2 * Abs(r)
      BY <2>3
    <3> HIDE DEF e
    <3> QED
      BY <1>6, <2>2, <2>5, <3>1
  <2> QED
    BY <2>4, <2>6 DEF HalfEven
<1> QED
  BY <1>5, <1>6

\* The SQL function and the Rust function are the same function.
THEOREM SqlBankerDivAgrees ==
    ASSUME NEW n \in Int, NEW d \in Int \ {0}
    PROVE  SqlBankerDiv(n, d) = BankerDiv(n, d)
<1> DEFINE q == Trunc(n, d)
           r == Rem(n, d)
<1>1. q \in Int /\ r \in Int
  BY Truncation
<1>2. n - q * d = r
  BY DEF Rem
<1> QED
  BY <1>1, <1>2 DEF SqlBankerDiv, BankerDiv, Abs

-------------------------------------------------------------------------------
(* Weighted average cost.                                                  *)

\* The pool_state rows of a WAC pool: never short, no layers, and no stock
\* before the first row.
WacRows ==
    {row \in [there : BOOLEAN, qty : Nat, uc : Int, value : Int, layers : {{}}] :
        row.there \/ row.qty = 0}

\* The lines a submission applies: those of quantity zero are dropped.
WacLines == {line \in [pool : Nat, qty : Int, cost : Int] : line.qty # 0}

\* What the upsert leaves.
LEMMA AggregateRow ==
    ASSUME NEW row \in WacRows, NEW qty, NEW uc, NEW value
    PROVE  Aggregate(row, qty, uc, value)
             = [there |-> TRUE, qty |-> qty, uc |-> uc, value |-> value, layers |-> {}]
  <1>1. row \in [there : BOOLEAN, qty : Nat, uc : Int, value : Int, layers : {{}}]
    BY DEF WacRows
  <1>2. Aggregate(row, qty, uc, value)
          = [row EXCEPT !.there = TRUE, !.qty = qty, !.uc = uc, !.value = value]
    BY DEF Aggregate
  <1>3. row.layers = {}
    BY <1>1
  <1> QED BY <1>1, <1>2, <1>3, ZenonT(60)

\* The rounded quotient is an integer.
LEMMA BankerDivInt ==
    ASSUME NEW n \in Int, NEW d \in Int \ {0}
    PROVE  BankerDiv(n, d) \in Int
  <1>1. Trunc(n, d) \in Int
    BY Truncation
  <1> QED BY <1>1 DEF BankerDiv

\* A receipt by the statement is a receipt by the planner.
LEMMA WacReceiptAgrees ==
    ASSUME NEW row \in WacRows, NEW line \in WacLines, line.qty > 0
    PROVE  wac_receipt(row, line) = <<core_wac_receipt(row, line)>>
  <1> DEFINE qty == row.qty + line.qty
             value == row.value + line.qty * line.cost
  <1>1. qty \in Int \ {0} /\ qty > 0 /\ value \in Int
    BY DEF WacRows, WacLines
  <1>2. SqlBankerDiv(value, qty) = BankerDiv(value, qty)
    BY <1>1, SqlBankerDivAgrees
  <1> QED BY <1>1, <1>2 DEF wac_receipt, core_wac_receipt

\* A depletion by the statement is one by the planner: the gate admits the
\* same ones, the emptied pool keeps its average and loses its residual.
LEMMA WacDepleteAgrees ==
    ASSUME NEW row \in WacRows, NEW line \in WacLines, line.qty < 0
    PROVE  wac_deplete(row, line) = core_wac_deplete(row, line)
  <1> DEFINE q == Abs(line.qty)
             qty == row.qty + line.qty
             value == row.value + line.qty * row.uc
             new == row.value - q * row.uc
  <1>1. row.qty \in Nat /\ row.uc \in Int /\ row.value \in Int /\ line.qty \in Int
        /\ (row.there \/ row.qty = 0)
    BY DEF WacRows, WacLines
  <1>2. q = -line.qty
    BY <1>1 DEF Abs
  <1>3. qty \in Int /\ value \in Int /\ row.qty - q = qty /\ new = value
    BY <1>1, <1>2
  <1>4. row.qty < q <=> ~row.there \/ qty < 0
    BY <1>1, <1>2
  <1>5. qty > 0 => SqlBankerDiv(value, qty) = BankerDiv(value, qty)
    BY <1>3, SqlBankerDivAgrees
  <1>6. wac_deplete(row, line) =
          IF ~row.there \/ qty < 0 THEN <<>>
          ELSE <<[uc |-> row.uc,
                  row |-> Aggregate(row, qty,
                            IF qty > 0 THEN SqlBankerDiv(value, qty) ELSE row.uc,
                            IF qty = 0 THEN 0 ELSE value)]>>
    BY DEF wac_deplete
  <1>7. core_wac_deplete(row, line) =
          IF row.qty < q THEN <<>>
          ELSE <<[uc |-> row.uc,
                  row |-> Aggregate(row, row.qty - q,
                            IF row.qty - q > 0
                            THEN BankerDiv(IF row.qty - q = 0 THEN 0 ELSE new, row.qty - q)
                            ELSE row.uc,
                            IF row.qty - q = 0 THEN 0 ELSE new)]>>
    BY DEF core_wac_deplete
  <1>8. (IF qty > 0 THEN SqlBankerDiv(value, qty) ELSE row.uc)
          = IF qty > 0 THEN BankerDiv(IF qty = 0 THEN 0 ELSE value, qty) ELSE row.uc
    BY <1>3, <1>5
  <1> HIDE DEF q, qty, value, new
  <1> QED BY <1>3, <1>4, <1>6, <1>7, <1>8

\* The statements behind dispatch_cte_line are ledger_core::wac on every row
\* of a WAC pool and for every line: they accept the same lines, record the
\* same cost and leave the same row.
THEOREM WacStatementsAreCore ==
    ASSUME NEW row \in WacRows, NEW line \in WacLines, NEW cfg, cfg[line.pool].method = "wac"
    PROVE  dispatch_cte_line(cfg, row, line) = apply_wac(row, line)
  <1>1. line.qty > 0 \/ (line.qty < 0 /\ ~(line.qty > 0))
    BY DEF WacLines
  <1>2. CASE line.qty > 0
    BY <1>2, WacReceiptAgrees DEF dispatch_cte_line, apply_wac
  <1>3. CASE line.qty < 0 /\ ~(line.qty > 0)
    BY <1>3, WacDepleteAgrees DEF dispatch_cte_line, apply_wac
  <1> QED BY <1>1, <1>2, <1>3

\* What ledger_core::wac, and so the statements, make of a row: a receipt is
\* always taken, a depletion exactly when the stock suffices, and the row is
\* again one of a WAC pool.  Its quantity moved by the line's, its value by
\* the line's quantity at the recorded cost except that an emptied pool has
\* none, and the average of what is left is the half-even quotient.
THEOREM WacRowsReconcile ==
    ASSUME NEW row \in WacRows, NEW line \in WacLines
    PROVE  /\ apply_wac(row, line) = <<>> <=> row.qty + line.qty < 0
           /\ apply_wac(row, line) # <<>> =>
                LET made == apply_wac(row, line)[1]
                IN  /\ made.row \in WacRows
                    /\ made.row.qty = row.qty + line.qty
                    /\ made.row.value = IF made.row.qty = 0 THEN 0
                                        ELSE row.value + line.qty * made.uc
                    /\ made.row.qty # 0 =>
                         HalfEven(made.row.uc, made.row.value, made.row.qty)
  <1> DEFINE qty == row.qty + line.qty
             cost == IF line.qty > 0 THEN line.cost ELSE row.uc
             value == IF qty = 0 THEN 0 ELSE row.value + line.qty * cost
             uc == IF qty > 0 THEN BankerDiv(value, qty) ELSE row.uc
             made == [uc |-> cost, row |-> Aggregate(row, qty, uc, value)]
  <1>1. /\ row.qty \in Nat /\ row.uc \in Int /\ row.value \in Int
        /\ line.qty \in Int /\ line.qty # 0 /\ line.cost \in Int
    BY DEF WacRows, WacLines
  <1>2. qty \in Int /\ cost \in Int /\ value \in Int
    BY <1>1
  <1>3. uc \in Int /\ (qty > 0 => HalfEven(uc, value, qty))
    BY <1>1, <1>2, BankerDivInt, BankerDivHalfEven
  <1>4. apply_wac(row, line) = IF qty < 0 THEN <<>> ELSE <<made>>
    <2>1. CASE line.qty > 0
      <3>1. qty > 0
        BY <1>1, <2>1
      <3>2. apply_wac(row, line) = <<core_wac_receipt(row, line)>>
        BY <2>1 DEF apply_wac
      <3>3. core_wac_receipt(row, line) = made
        BY <2>1, <3>1, <1>2 DEF core_wac_receipt
      <3> HIDE DEF made
      <3> QED BY <1>2, <3>1, <3>2, <3>3
    <2>2. CASE ~(line.qty > 0)
      <3>1. Abs(line.qty) = -line.qty
        BY <1>1, <2>2 DEF Abs
      <3>2. row.qty - Abs(line.qty) = qty
            /\ row.value - Abs(line.qty) * row.uc = row.value + line.qty * cost
            /\ (row.qty < Abs(line.qty) <=> qty < 0)
        BY <1>1, <2>2, <3>1
      <3>3. apply_wac(row, line) = core_wac_deplete(row, line)
        BY <2>2 DEF apply_wac
      <3>4. core_wac_deplete(row, line) = IF qty < 0 THEN <<>> ELSE <<made>>
        <4>1. core_wac_deplete(row, line) =
                LET q == Abs(line.qty)
                    left == row.qty - q
                    val == IF left = 0 THEN 0 ELSE row.value - q * row.uc
                IN  IF row.qty < q THEN <<>>
                    ELSE <<[uc |-> row.uc,
                            row |-> Aggregate(row, left,
                              IF left > 0 THEN BankerDiv(val, left) ELSE row.uc, val)]>>
          BY DEF core_wac_deplete
        <4>2. cost = row.uc
          BY <2>2
        <4> HIDE DEF qty, cost
        <4> QED BY <3>2, <4>1, <4>2
      <3> QED BY <3>3, <3>4
    <2> QED BY <2>1, <2>2
  <1> HIDE DEF qty, cost, uc, value
  <1>5. made.uc = cost /\ made.row = [there |-> TRUE, qty |-> qty, uc |-> uc,
                                      value |-> value, layers |-> {}]
    BY AggregateRow
  <1>6. qty >= 0 => made.row \in WacRows
    <2>1. SUFFICES ASSUME qty >= 0 PROVE made.row \in WacRows
      OBVIOUS
    <2>2. qty \in Nat
      BY <1>2, <2>1
    <2>3. made.row.there
      BY <1>5
    <2>4. made.row \in [there : BOOLEAN, qty : Nat, uc : Int, value : Int, layers : {{}}]
      <3> HIDE DEF made
      <3>1. {} \in {{}} /\ TRUE \in BOOLEAN
        OBVIOUS
      <3> QED BY <1>2, <1>3, <1>5, <2>2, <3>1
    <2> HIDE DEF made
    <2> QED BY <2>3, <2>4 DEF WacRows
  <1>7. value = IF qty = 0 THEN 0 ELSE row.value + line.qty * cost
    BY DEF value
  <1>8. made.row.qty = qty /\ made.row.uc = uc /\ made.row.value = value
    BY <1>5
  <1> HIDE DEF made
  <1>9. CASE qty < 0
    <2>1. apply_wac(row, line) = <<>> /\ row.qty + line.qty < 0
      BY <1>4, <1>9 DEF qty
    <2> QED BY <2>1
  <1>10. CASE ~(qty < 0)
    <2>1. apply_wac(row, line) = <<made>> /\ <<made>> # <<>> /\ <<made>>[1] = made
      BY <1>4, <1>10
    <2>2. qty # 0 => qty > 0
      BY <1>2, <1>10
    <2>3. qty >= 0
      BY <1>2, <1>10
    <2>4. qty = row.qty + line.qty
      BY DEF qty
    <2> QED BY <1>3, <1>5, <1>6, <1>7, <1>8, <1>10, <2>1, <2>2, <2>3, <2>4
  <1> QED BY <1>9, <1>10
===============================================================================

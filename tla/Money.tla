------------------------------- MODULE Money -------------------------------
(***************************************************************************)
(* The two conversions of a total_amount.  createCheckoutSession charges   *)
(* Math.round(total_amount * 100) cents; the webhook stores String(        *)
(* total_amount) in columns of type NUMERIC(10, 2).  Amounts are positive  *)
(* and counted in tenths of a cent.                                        *)
(***************************************************************************)
EXTENDS Integers, TLAPS

\* A conversion that cuts: a product such as 0.29 * 100 is below 29.
Charged_Cut(m) == {m \div 10} \cup (IF m % 10 = 0 THEN {m \div 10 - 1} ELSE {})

\* What may be charged: half a cent is rounded up, unless the product has come out
\* below it in binary, as 1.005 * 100 does.
Charged(m) == IF m % 10 = 5 THEN {m \div 10, m \div 10 + 1} ELSE {(m + 5) \div 10}

\* NUMERIC rounds the decimal text, halves away from zero.
Invoiced(m) == (m + 5) \div 10

\* A charge agrees with the invoice, but for half a cent that has been lost.
Agree(m, cents) ==
    \/ cents = Invoiced(m)
    \/ m % 10 = 5 /\ cents = Invoiced(m) - 1

\* Whatever amount a checkout is asked for, the customer is charged what the invoice
\* of the webhook says, or one cent less if the amount ends in half a cent; and an
\* amount of whole cents is charged exactly.
THEOREM ChargeMatchesInvoice ==
    ASSUME NEW m \in Nat, NEW cents \in Charged(m)
    PROVE  /\ Agree(m, cents)
           /\ m % 10 = 0 => 10 * cents = m
<1>1. CASE m % 10 = 5
  <2>1. cents \in {m \div 10, m \div 10 + 1}
    BY <1>1 DEF Charged
  <2>2. Invoiced(m) = m \div 10 + 1
    BY <1>1, SMT DEF Invoiced
  <2>3. m \div 10 \in Int
    BY SMT
  <2>4. QED
    BY <1>1, <2>1, <2>2, <2>3 DEF Agree
<1>2. CASE m % 10 # 5
  <2>1. cents = Invoiced(m)
    BY <1>2 DEF Charged, Invoiced
  <2>2. m % 10 = 0 => 10 * Invoiced(m) = m
    BY SMT DEF Invoiced
  <2>3. QED
    BY <2>1, <2>2 DEF Agree
<1>3. QED
  BY <1>1, <1>2

=============================================================================

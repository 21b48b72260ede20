---------------------------- MODULE PromoPricing ----------------------------
(* Amounts of orders, in cents, and the discount of a promo code.  What    *)
(* DECIMAL(12, 2) holds of a percentage is hundredths of one percent.      *)
EXTENDS Integers, FiniteSetsExt

Whole == 10000

\* MAX_PERCENTAGE_DISCOUNT
MaxRate == 7000

PromoRows == [kind : {"PERCENTAGE", "FIXED_AMOUNT"}, value : Nat \ {0}, minimum : Nat]

Lesser(m, n) == IF m <= n THEN m ELSE n

\* round(n / d, 2) in binary floating point: the nearest cent, and of two that are
\* equally near either one.
Rounded(n, d) == {q \in {n \div d, n \div d + 1} : 2 * q * d - 2 * n \in -d .. d}

CalculateDiscount(promo, base) ==
    IF promo.kind = "PERCENTAGE"
    THEN Rounded(base * Lesser(promo.value, MaxRate), Whole)
    ELSE {Lesser(promo.value, base)}

\* _compute_items: lines maps each product to a quantity and the price at order.
Base(lines) == SumFunction([p \in DOMAIN lines |-> lines[p].quantity * lines[p].price])
=============================================================================

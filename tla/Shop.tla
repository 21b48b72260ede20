-------------------------------- MODULE Shop --------------------------------
(***************************************************************************)
(* What sellers and orders do to the products of the marketplace at the    *)
(* same time, and what orders come to.  A seller's session (update_product,*)
(* archive_product) reads a row without a lock and writes at its COMMIT    *)
(* the fields that differ from what it read.  An order's session locks the *)
(* rows of its products one by one, prices its lines from the rows as it   *)
(* loaded them, and writes all at its COMMIT.                              *)
(*                                                                         *)
(* OrderService has the checks and the overlaps of requests; here an order *)
(* has one session at a time.  A refusal (403, 404, 409, 422) rolls back   *)
(* as a failure does: both are Abandon.                                    *)
(***************************************************************************)
EXTENDS PromoPricing, FiniteSets

CONSTANTS
    Products, Orders, Codes, Actors,
    Sessions,       \* of sellers
    Admins,         \* actors with the role ADMIN
    SellersToBe,    \* actors with the role SELLER
    Prices,         \* in cents
    StockLevels,
    NewBodies,      \* what create_product may be asked for
    Bodies,         \* what update_product may be asked to set
    Baskets,        \* for each product the quantity, as item lists add up
    PromoBodies,    \* what create_promo_code may be asked for
    NoOne

Statuses == {"ACTIVE", "INACTIVE", "ARCHIVED"}

\* A field that is NoOne is not in the body.
UpdateBodies == [price : Prices \cup {NoOne}, stock : StockLevels \cup {NoOne},
                 status : Statuses \cup {NoOne}]

ASSUME ShopAssumption ==
    /\ IsFiniteSet(Products) /\ IsFiniteSet(Orders)     \* their ids are UUIDs
    /\ Admins \cup SellersToBe \subseteq Actors
    /\ Prices \subseteq Nat \ {0} /\ StockLevels \subseteq Nat
    /\ NewBodies \subseteq [price : Prices, stock : StockLevels, status : Statuses]
    /\ Bodies \subseteq UpdateBodies
    /\ Baskets \subseteq [Products -> Nat]
    /\ PromoBodies \subseteq PromoRows
    /\ NoOne \notin Orders \cup Codes \cup Actors \cup Products
    /\ NoOne \notin Prices /\ NoOne \notin StockLevels /\ NoOne \notin Statuses

VARIABLES
    product,    \* table products
    promo,      \* table promo_codes
    order,      \* tables orders and order_items
    supply,     \* (history) all that is on sale or reserved, by the sellers' word
    lock,       \* the order whose session holds the row lock of a product, or NoOne
    ask,        \* what the session of each order is to do
    loaded,     \* the product rows that it has loaded, with their locks
    edit,       \* what each seller's session is to do
    read        \* the row that it read

vars == <<product, promo, order, supply, lock, ask, loaded, edit, read>>

-----------------------------------------------------------------------------
Fields == {"price", "stock", "status"}

ProductRows == [seller : Actors, price : Prices, stock : Int,
                status : Statuses]

NoProduct == [seller |-> NoOne, price |-> 0, stock |-> 0, status |-> "ARCHIVED"]

NoPromo == [kind |-> "FIXED_AMOUNT", value |-> 0, minimum |-> 0]

NoLine == [quantity |-> 0, price |-> 0]

NoOrder == [status |-> "NONE", promo |-> NoOne, lines |-> [p \in Products |-> NoLine],
            total |-> 0, discount |-> 0]

NoBasket == [p \in Products |-> 0]

NoAsk == [op |-> "none", basket |-> NoBasket, code |-> NoOne]

Edits == [actor : Actors, product : Products, body : UpdateBodies]

NoBody == [price |-> NoOne, stock |-> NoOne, status |-> NoOne]

NoEdit == [actor |-> NoOne, product |-> NoOne, body |-> NoBody]

Init ==
    /\ product = [p \in Products |-> NoProduct]
    /\ promo = [c \in Codes |-> NoPromo]
    /\ order = [o \in Orders |-> NoOrder]
    /\ supply = [p \in Products |-> 0]
    /\ lock = [p \in Products |-> NoOne]
    /\ ask = [o \in Orders |-> NoAsk]
    /\ loaded = [o \in Orders |-> [p \in Products |-> NoProduct]]
    /\ edit = [s \in Sessions |-> NoEdit]
    /\ read = [s \in Sessions |-> NoProduct]

Exists(p) == product[p] # NoProduct

HeldBy(o, p) == IF order[o].status = "CREATED" THEN order[o].lines[p].quantity ELSE 0

Held(p) == SumFunction([o \in Orders |-> HeldBy(o, p)])

\* (Here and below, the version with a prefix such as Hasty_ has a defect that the
\* properties are to notice.)

-----------------------------------------------------------------------------
(* Sellers                                                                 *)

\* require_role("SELLER", "ADMIN")
MaySell(a) == a \in SellersToBe \cup Admins

CreateProduct(a, p, body) ==
    /\ MaySell(a) /\ ~Exists(p)
    /\ product' = [product EXCEPT ![p] = [seller |-> a, price |-> body.price,
                                          stock |-> body.stock, status |-> body.status]]
    /\ supply' = [supply EXCEPT ![p] = body.stock]
    /\ UNCHANGED <<promo, order, lock, ask, loaded, edit, read>>

OpenEdit(s, a, p, body) ==
    /\ edit[s] = NoEdit /\ MaySell(a)
    /\ edit' = [edit EXCEPT ![s] = [actor |-> a, product |-> p, body |-> body]]
    /\ UNCHANGED <<product, promo, order, supply, lock, ask, loaded, read>>

UpdateProduct(s, a, p) == \E body \in Bodies : OpenEdit(s, a, p, body)

ArchiveProduct(s, a, p) == OpenEdit(s, a, p, [NoBody EXCEPT !.status = "ARCHIVED"])

\* _assert_product_ownership
OwnsProduct(a, row) == a \in Admins \/ a = row.seller

ReadProduct(s) ==
    LET row == product[edit[s].product] IN
    /\ edit[s] # NoEdit /\ read[s] = NoProduct
    /\ Exists(edit[s].product)
    /\ OwnsProduct(edit[s].actor, row)
    /\ read' = [read EXCEPT ![s] = row]
    /\ UNCHANGED <<product, promo, order, supply, lock, ask, loaded, edit>>

Named(s) == {k \in Fields : edit[s].body[k] # NoOne}

Blunt_Written(s, again) == Named(s)

\* Setting a field to what it is leaves no change to flush, except that a price is read
\* as a Decimal and compared with a float: an equal one may be written again.
Written(s, again) ==
    {k \in Named(s) : edit[s].body[k] # read[s][k]} \cup (IF again THEN Named(s) \cap {"price"} ELSE {})

Whole_Updated(row, s, written) ==
    [k \in DOMAIN row |-> IF k \in Named(s) THEN edit[s].body[k] ELSE read[s][k]]

Updated(row, s, written) ==
    [k \in DOMAIN row |-> IF k \in written THEN edit[s].body[k] ELSE row[k]]

Unblocked_RowFree(p) == TRUE

RowFree(p) == lock[p] = NoOne

CommitEdit(s) ==
    LET p == edit[s].product IN
    /\ read[s] # NoProduct
    /\ \E again \in BOOLEAN :
          LET written == Written(s, again) IN
          /\ written # {} => RowFree(p)
          /\ product' = [product EXCEPT ![p] = Updated(@, s, written)]
          /\ supply' = IF "stock" \in written
                       THEN [supply EXCEPT ![p] = edit[s].body.stock + Held(p)] ELSE supply
    /\ edit' = [edit EXCEPT ![s] = NoEdit]
    /\ read' = [read EXCEPT ![s] = NoProduct]
    /\ UNCHANGED <<promo, order, lock, ask, loaded>>

AbandonEdit(s) ==
    /\ edit[s] # NoEdit
    /\ edit' = [edit EXCEPT ![s] = NoEdit]
    /\ read' = [read EXCEPT ![s] = NoProduct]
    /\ UNCHANGED <<product, promo, order, supply, lock, ask, loaded>>

\* The code is free: otherwise the unique index refuses the INSERT.
CreatePromoCode(a, c) ==
    /\ MaySell(a) /\ promo[c] = NoPromo
    /\ \E body \in PromoBodies : promo' = [promo EXCEPT ![c] = body]
    /\ UNCHANGED <<product, order, supply, lock, ask, loaded, edit, read>>

-----------------------------------------------------------------------------
(* Orders                                                                  *)

Begin(o, rec) ==
    /\ ask[o] = NoAsk
    /\ order[o].status = IF rec.op = "create" THEN "NONE" ELSE "CREATED"
    /\ ask' = [ask EXCEPT ![o] = rec]
    /\ UNCHANGED <<product, promo, order, supply, lock, loaded, edit, read>>

CreateOrder(o, b, c) == Begin(o, [op |-> "create", basket |-> b, code |-> c])

UpdateOrder(o, b) == Begin(o, [op |-> "update", basket |-> b, code |-> NoOne])

CancelOrder(o) == Begin(o, [op |-> "cancel", basket |-> NoBasket, code |-> NoOne])

\* The rows of the old lines, to which _return_stock adds, and of the new items.
Needed(o) == {p \in Products : order[o].lines[p].quantity + ask[o].basket[p] > 0}

\* SELECT ... FOR UPDATE: it gets the row as it is when it gets the lock.
LockProduct(o, p) ==
    /\ ask[o] # NoAsk /\ p \in Needed(o) /\ Exists(p)
    /\ RowFree(p)
    /\ lock' = [lock EXCEPT ![p] = o]
    /\ loaded' = [loaded EXCEPT ![o][p] = product[p]]
    /\ UNCHANGED <<product, promo, order, supply, ask, edit, read>>

AllLocked(o) == \A p \in Needed(o) : lock[p] = o

Acceptable(o) ==
    \A p \in Products : ask[o].basket[p] > 0 =>
        /\ loaded[o][p].status = "ACTIVE"
        /\ ask[o].basket[p] <= loaded[o][p].stock + order[o].lines[p].quantity

NewLines(o) ==
    [p \in Products |-> IF ask[o].basket[p] = 0 THEN NoLine
                        ELSE [quantity |-> ask[o].basket[p], price |-> loaded[o][p].price]]

\* The session ends; its locks are gone.
EndSession(o) ==
    /\ ask' = [ask EXCEPT ![o] = NoAsk]
    /\ lock' = [p \in Products |-> IF lock[p] = o THEN NoOne ELSE lock[p]]
    /\ loaded' = [loaded EXCEPT ![o] = [p \in Products |-> NoProduct]]
    /\ UNCHANGED <<promo, supply, edit, read>>

NewStock(o) ==
    [p \in Products |->
        IF p \in Needed(o)
        THEN [product[p] EXCEPT !.stock = loaded[o][p].stock + order[o].lines[p].quantity
                                          - ask[o].basket[p]]
        ELSE product[p]]

Lax_Earned(c, base) == TRUE

Earned(c, base) == base >= promo[c].minimum

Stale_Amounts(o, c, d) == [order[o] EXCEPT !.lines = NewLines(o), !.promo = c,
                                           !.total = Base(NewLines(o)) - d]

Amounts(o, c, d) == [order[o] EXCEPT !.lines = NewLines(o), !.promo = c, !.discount = d,
                                     !.total = Base(NewLines(o)) - d]

\* apply_promo: the code exists and is earned.  Whether it is in its period and not used
\* up is left to AbandonOrder.
CommitCreate(o) ==
    LET c == ask[o].code
        base == Base(NewLines(o)) IN
    /\ ask[o].op = "create" /\ AllLocked(o) /\ Acceptable(o)
    /\ c # NoOne => promo[c] # NoPromo /\ Earned(c, base)
    /\ \E d \in IF c = NoOne THEN {0} ELSE CalculateDiscount(promo[c], base) :
          order' = [order EXCEPT ![o] = [Amounts(o, c, d) EXCEPT !.status = "CREATED"]]
    /\ product' = NewStock(o)
    /\ EndSession(o)

\* The discount is computed anew, without regard to the period, or the code is dropped.
CommitUpdate(o) ==
    LET c == order[o].promo
        base == Base(NewLines(o)) IN
    /\ ask[o].op = "update" /\ AllLocked(o) /\ Acceptable(o)
    /\ \/ /\ c # NoOne /\ Earned(c, base)
          /\ \E d \in CalculateDiscount(promo[c], base) :
                order' = [order EXCEPT ![o] = Amounts(o, c, d)]
       \/ /\ c # NoOne => ~Earned(c, base)
          /\ order' = [order EXCEPT ![o] = Amounts(o, NoOne, 0)]
    /\ product' = NewStock(o)
    /\ EndSession(o)

CommitCancel(o) ==
    /\ ask[o].op = "cancel" /\ AllLocked(o)
    /\ order' = [order EXCEPT ![o].status = "CANCELED"]
    /\ product' = NewStock(o)
    /\ EndSession(o)

\* Refused or failed; also when an amount does not fit into DECIMAL(12, 2).
AbandonOrder(o) == ask[o] # NoAsk /\ EndSession(o) /\ UNCHANGED <<product, order>>

Next ==
    \/ \E a \in Actors, p \in Products, body \in NewBodies : CreateProduct(a, p, body)
    \/ \E s \in Sessions :
          \/ \E a \in Actors, p \in Products : UpdateProduct(s, a, p) \/ ArchiveProduct(s, a, p)
          \/ ReadProduct(s) \/ CommitEdit(s) \/ AbandonEdit(s)
    \/ \E a \in Actors, c \in Codes : CreatePromoCode(a, c)
    \/ \E o \in Orders :
          \/ \E b \in Baskets : UpdateOrder(o, b)
          \/ \E b \in Baskets, c \in Codes \cup {NoOne} : CreateOrder(o, b, c)
          \/ CancelOrder(o)
          \/ \E p \in Products : LockProduct(o, p)
          \/ CommitCreate(o) \/ CommitUpdate(o) \/ CommitCancel(o) \/ AbandonOrder(o)

Spec == Init /\ [][Next]_vars

-----------------------------------------------------------------------------
\* What the amounts and the history may be, AmountsAdd, PromoEarned and StockExplained say.
TypeOK ==
    /\ product \in [Products -> ProductRows \cup {NoProduct}]
    /\ DOMAIN order = Orders
    /\ \A o \in Orders :
          /\ DOMAIN order[o] = DOMAIN NoOrder
          /\ order[o].status \in {"NONE", "CREATED", "CANCELED"}
          /\ order[o].promo \in Codes \cup {NoOne}
          /\ order[o].lines \in [Products -> [quantity : Nat, price : Prices \cup {0}]]
    /\ promo \in [Codes -> PromoRows \cup {NoPromo}]
    /\ lock \in [Products -> Orders \cup {NoOne}]
    /\ ask \in [Orders -> [op : {"none", "create", "update", "cancel"},
                           basket : Baskets \cup {NoBasket}, code : Codes \cup {NoOne}]]
    /\ loaded \in [Orders -> [Products -> ProductRows \cup {NoProduct}]]
    /\ edit \in [Sessions -> Edits \cup {NoEdit}]
    /\ read \in [Sessions -> ProductRows \cup {NoProduct}]

\* _load_and_validate_products, _return_stock: a row that an order's session has loaded
\* is locked by it, and is as it was loaded; a row has the seller that a session found.
LoadedCurrent ==
    /\ \A o \in Orders, p \in Products :
          IF lock[p] = o THEN Exists(p) /\ loaded[o][p] = product[p]
                         ELSE loaded[o][p] = NoProduct
    /\ \A s \in Sessions : read[s] # NoProduct =>
          /\ edit[s] # NoEdit
          /\ Exists(edit[s].product)
          /\ product[edit[s].product].seller = read[s].seller
          /\ OwnsProduct(edit[s].actor, read[s])

IInv == TypeOK /\ LoadedCurrent

\* What is stored of an order adds up: its total, its discount and its lines.
AmountsAdd == \A o \in Orders : order[o].total + order[o].discount = Base(order[o].lines)

\* calculate_discount, "capped at 70%", and min_order_amount: no order has a discount
\* that its own lines and its own code do not give it, also after update_order.
PromoEarned ==
    \A o \in Orders :
        LET d == order[o].discount
            c == order[o].promo
            base == Base(order[o].lines) IN
        /\ 0 <= d /\ d <= base
        /\ c = NoOne => d = 0
        /\ c # NoOne => /\ base >= promo[c].minimum
                        /\ IF promo[c].kind = "PERCENTAGE"
                           THEN 2 * Whole * d <= 2 * MaxRate * base + Whole
                           ELSE d <= promo[c].value

\* "Snapshot prices": the lines that an order gets have the prices of that moment, although
\* sellers change prices between the session's reads and its commit.
PricesCurrent ==
    [][\A o \in Orders : order'[o] # order[o] /\ order'[o].status = "CREATED" =>
          \A p \in Products : order'[o].lines[p].quantity > 0 =>
             order'[o].lines[p].price = product[p].price]_vars

\* What is on the shelf and what live orders hold is what sellers last said: a session
\* that read a product before a sale and did not name its stock does not undo the sale.
StockExplained == \A p \in Products : product[p].stock + Held(p) = supply[p]

\* A product that was archived is put on sale again only by a session that found it
\* not ACTIVE, never by one that found it ACTIVE and sends that status along.
ArchiveSticks ==
    [][\A p \in Products :
          product[p].status # "ACTIVE" /\ product'[p].status = "ACTIVE" /\ Exists(p) =>
             \E s \in Sessions : edit[s].product = p /\ edit[s].body.status = "ACTIVE"
                                 /\ read[s] # NoProduct /\ read[s].status # "ACTIVE"]_vars
=============================================================================

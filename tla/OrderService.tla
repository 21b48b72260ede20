---------------------------- MODULE OrderService ----------------------------
(***************************************************************************)
(* create_order, update_order and cancel_order of the marketplace: each    *)
(* request is one READ COMMITTED transaction that reads the order, the     *)
(* rate limit and the promo code without locks, locks the rows of its      *)
(* products (SELECT FOR UPDATE) and writes everything at its COMMIT.       *)
(* Sellers change products meanwhile.                                      *)
(*                                                                         *)
(* Overlap says which requests may be under way together: "apart", those   *)
(* that share no order, no promo code and, for create_order, no user;      *)
(* "all", any.  The code itself enforces nothing: it is "all".             *)
(***************************************************************************)
EXTENDS Integers, FiniteSets, FiniteSetsExt

CONSTANTS
    Users, Admins,      \* Admins \subseteq Users
    Products, Orders,   \* the rows that exist, or may come to exist
    Requests,           \* the HTTP requests
    Baskets,            \* the item lists that requests may carry
    Qualifying,         \* those whose total reaches the promo's min_order_amount
    InitialStock,       \* [Products -> Nat]
    StockLevels,        \* what sellers may set a stock to
    MaxUses,            \* promo_codes.max_uses of the one promo code
    RateLimitMinutes,   \* order_rate_limit_minutes
    Overlap,
    NoOne

\* What the code takes from an item list: for each product the quantity it adds up to
\* and the largest that one item asks for.
BasketRecords == [total : [Products -> Nat], largest : [Products -> Nat]]

ASSUME OrderAssumption ==
    /\ Admins \subseteq Users
    /\ Baskets \subseteq BasketRecords
    /\ \A b \in Baskets, p \in Products :
          b.largest[p] <= b.total[p] /\ (b.largest[p] = 0 => b.total[p] = 0)
    /\ Qualifying \subseteq Baskets
    /\ InitialStock \in [Products -> Nat] /\ StockLevels \subseteq Nat
    /\ MaxUses \in Nat \ {0}
    /\ RateLimitMinutes \in Nat
    /\ Overlap \in {"apart", "all"}
    /\ NoOne \notin Requests \cup Orders \cup Users
    /\ IsFiniteSet(Orders)     \* their ids are UUIDs

VARIABLES
    stock,          \* products.stock
    pstatus,        \* products.status
    lock,           \* the request that holds the row lock of a product, or NoOne
    order,          \* table orders: owner, status, whether promo_code_id is set
    items,          \* table order_items: the requests whose lines an order has
    uses,           \* promo_codes.current_uses
    recent,         \* user_operations younger than the rate limit: <<user, op>>
    supply,         \* (history) all that is on sale or reserved, by the sellers' word
    req,            \* what each request asks for
    pc,             \* where it is
    want,           \* the product rows it still has to lock
    seenOrder,      \* the order row that it read
    seenItems,      \* the lines that it read
    seenUses,       \* the current_uses that it read, or -1
    outcome         \* the HTTP status it was answered with

tables == <<stock, pstatus, order, items, uses, recent, supply>>

session == <<want, seenOrder, seenItems, seenUses>>

vars == <<tables, session, lock, req, pc, outcome>>

-----------------------------------------------------------------------------
NoOrder == [owner |-> NoOne, status |-> "NONE", promo |-> FALSE]

OrderRows == [owner : Users \cup {NoOne}, status : {"NONE", "CREATED", "CANCELED"},
              promo : BOOLEAN]

NoBasket == [total |-> [p \in Products |-> 0], largest |-> [p \in Products |-> 0]]

NoRequest == [op |-> "none", user |-> NoOne, order |-> NoOne, basket |-> NoBasket,
              promo |-> FALSE]

Init ==
    /\ stock = InitialStock
    /\ pstatus = [p \in Products |-> "ACTIVE"]
    /\ lock = [p \in Products |-> NoOne]
    /\ order = [o \in Orders |-> NoOrder]
    /\ items = [o \in Orders |-> {}]
    /\ uses = 0
    /\ recent = {}
    /\ supply = InitialStock
    /\ req = [r \in Requests |-> NoRequest]
    /\ pc = [r \in Requests |-> "new"]
    /\ want = [r \in Requests |-> {}]
    /\ seenOrder = [r \in Requests |-> NoOrder]
    /\ seenItems = [r \in Requests |-> {}]
    /\ seenUses = [r \in Requests |-> -1]
    /\ outcome = [r \in Requests |-> "none"]

\* (Here and below, the version with a prefix such as Hasty_ has a defect that the
\* properties are to notice.)

-----------------------------------------------------------------------------
(* What a request and its lines amount to                                  *)

ProductsOf(r) == {p \in Products : req[r].basket.total[p] > 0}

Totals(p) == [r \in Requests |-> req[r].basket.total[p]]

Quantity(batches, p) == SumFunctionOnSet(Totals(p), batches)

ProductsIn(batches) == {p \in Products : Quantity(batches, p) > 0}

Live(o) == order[o].status = "CREATED"

HeldBy(o, p) == IF Live(o) THEN Quantity(items[o], p) ELSE 0

Held(p) == SumFunction([o \in Orders |-> HeldBy(o, p)])

\* Loaded products with what _return_stock adds and the new items take.  Only rows
\* that r has locked differ from the table.
Returned(r, p) == Quantity(seenItems[r], p)

Taken(r, p) == IF req[r].op = "cancel" THEN 0 ELSE req[r].basket.total[p]

Forgetful_NewStock(r) == [p \in Products |-> stock[p] - Taken(r, p)]

NewStock(r) == [p \in Products |-> stock[p] + Returned(r, p) - Taken(r, p)]

-----------------------------------------------------------------------------
(* How requests begin and end                                              *)

Running == {r \in Requests : pc[r] \notin {"new", "done"}}

Subject(rec) == IF rec.op = "create" THEN rec.user ELSE rec.order

Discounted(rec) == rec.promo \/ \E o \in Orders : rec.order = o /\ order[o].promo

MayStart(rec) ==
    Overlap = "apart" =>
        \A q \in Running : /\ Subject(req[q]) # Subject(rec)
                           /\ ~(Discounted(req[q]) /\ Discounted(rec))

Start(r, rec, label) ==
    /\ pc[r] = "new"
    /\ MayStart(rec)
    /\ req' = [req EXCEPT ![r] = rec]
    /\ pc' = [pc EXCEPT ![r] = label]
    /\ UNCHANGED <<tables, session, lock, outcome>>

StartCreate(r, u, b, promo) ==
    Start(r, [op |-> "create", user |-> u, order |-> NoOne, basket |-> b,
              promo |-> promo], "rate")

StartUpdate(r, u, o, b) ==
    Start(r, [op |-> "update", user |-> u, order |-> o, basket |-> b,
              promo |-> FALSE], "read")

StartCancel(r, u, o) ==
    Start(r, [op |-> "cancel", user |-> u, order |-> o, basket |-> NoBasket,
              promo |-> FALSE], "read")

\* The session ends, committed or not: its row locks are gone.
End(r, status) ==
    /\ pc' = [pc EXCEPT ![r] = "done"]
    /\ outcome' = [outcome EXCEPT ![r] = status]
    /\ lock' = [p \in Products |-> IF lock[p] = r THEN NoOne ELSE lock[p]]
    /\ want' = [want EXCEPT ![r] = {}]
    /\ seenOrder' = [seenOrder EXCEPT ![r] = NoOrder]
    /\ seenItems' = [seenItems EXCEPT ![r] = {}]
    /\ seenUses' = [seenUses EXCEPT ![r] = -1]
    /\ UNCHANGED req

Reject(r, status) == End(r, status) /\ UNCHANGED tables

GoTo(r, label) ==
    /\ pc' = [pc EXCEPT ![r] = label]
    /\ UNCHANGED <<tables, lock, req, outcome>>

\* (A defect: to load rows in a second session, which waits for what the first one holds.)
Second_GoLock(r, label, rows) ==
    /\ GoTo(r, label)
    /\ want' = [want EXCEPT ![r] = rows]
    /\ UNCHANGED <<seenOrder, seenUses>>

\* The request still has to lock these rows, before it goes on.
GoLock(r, label, rows) ==
    /\ GoTo(r, label)
    /\ want' = [want EXCEPT ![r] = {p \in rows : lock[p] # r}]
    /\ UNCHANGED <<seenOrder, seenUses>>

-----------------------------------------------------------------------------
(* The reads and locks                                                     *)

Owns(u, row) == row.owner = u \/ u \in Admins

\* CREATED, and for a cancel PAYMENT_PENDING, which no request leads to.
Lax_Open(row) == TRUE

Open(row) == row.status = "CREATED"

\* _get_order_or_404, the ownership and the state check of update and cancel.
ReadOrder(r) ==
    LET row == order[req[r].order] IN
    /\ pc[r] = "read"
    /\ \/ row.status = "NONE" /\ Reject(r, "404")
       \/ row.status # "NONE" /\ ~Owns(req[r].user, row) /\ Reject(r, "403")
       \/ row.status # "NONE" /\ Owns(req[r].user, row) /\ ~Open(row) /\ Reject(r, "409")
       \/ /\ row.status # "NONE" /\ Owns(req[r].user, row) /\ Open(row)
          /\ seenOrder' = [seenOrder EXCEPT ![r] = row]
          /\ GoTo(r, IF req[r].op = "update" THEN "rate" ELSE "items")
          /\ UNCHANGED <<want, seenItems, seenUses>>

RateLimited(r) == <<req[r].user, req[r].op>> \in recent

CheckRateLimit(r) ==
    /\ pc[r] = "rate"
    /\ \/ RateLimited(r) /\ Reject(r, "429")
       \/ /\ ~RateLimited(r)
          /\ GoTo(r, IF req[r].op = "create" THEN "active" ELSE "items")
          /\ UNCHANGED session

Pending_ActiveOrders(u) ==
    {o \in Orders : order[o].status = "PAYMENT_PENDING" /\ order[o].owner = u}

ActiveOrders(u) == {o \in Orders : Live(o) /\ order[o].owner = u}

\* scalar_one_or_none raises when there are two.
CheckNoActiveOrder(r) ==
    LET active == ActiveOrders(req[r].user) IN
    /\ pc[r] = "active"
    /\ \/ Cardinality(active) = 1 /\ Reject(r, "409")
       \/ Cardinality(active) > 1 /\ Reject(r, "500")
       \/ /\ active = {}
          /\ GoLock(r, "validate", ProductsOf(r))
          /\ UNCHANGED seenItems

LoadItems(r) ==
    /\ pc[r] = "items"
    /\ seenItems' = [seenItems EXCEPT ![r] = items[req[r].order]]
    /\ GoLock(r, "return", ProductsIn(items[req[r].order]))

\* SELECT FOR UPDATE locks row by row, in whatever order the plan finds them.
Unlocked_RowFree(p) == TRUE

RowFree(p) == lock[p] = NoOne

LockProduct(r, p) ==
    /\ p \in want[r]
    /\ RowFree(p)
    /\ lock' = [lock EXCEPT ![p] = r]
    /\ want' = [want EXCEPT ![r] = @ \ {p}]
    /\ UNCHANGED <<tables, req, pc, seenOrder, seenItems, seenUses, outcome>>

\* _return_stock has its rows: an update locks the new items' rows as well.
ReturnStock(r) ==
    /\ pc[r] = "return" /\ want[r] = {}
    /\ \/ /\ req[r].op = "update"
          /\ GoLock(r, "validate", ProductsOf(r))
          /\ UNCHANGED seenItems
       \/ /\ req[r].op = "cancel"
          /\ GoTo(r, IF seenOrder[r].promo THEN "promo" ELSE "commit")
          /\ UNCHANGED session

\* Every item by itself against the stock, as in _load_and_validate_products.
Acceptable(r) ==
    \A p \in ProductsOf(r) :
        /\ pstatus[p] = "ACTIVE"
        /\ req[r].basket.largest[p] <= stock[p] + Returned(r, p)

ValidateProducts(r) ==
    /\ pc[r] = "validate" /\ want[r] = {}
    /\ \/ ~Acceptable(r) /\ Reject(r, "409")
       \/ /\ Acceptable(r)
          /\ GoTo(r, IF req[r].promo \/ seenOrder[r].promo THEN "promo" ELSE "commit")
          /\ UNCHANGED session

\* apply_promo refuses an exhausted code and a small total; update and cancel only
\* read the counter.
ReadPromo(r) ==
    /\ pc[r] = "promo"
    /\ \/ /\ req[r].op = "create"
          /\ uses >= MaxUses \/ req[r].basket \notin Qualifying
          /\ Reject(r, "422")
       \/ /\ req[r].op = "create" => uses < MaxUses /\ req[r].basket \in Qualifying
          /\ seenUses' = [seenUses EXCEPT ![r] = uses]
          /\ GoTo(r, "commit")
          /\ UNCHANGED <<want, seenOrder, seenItems>>

-----------------------------------------------------------------------------
(* The commits.  current_uses is written as the value read, plus or minus  *)
(* one; columns that were not assigned are not written.                    *)

\* With a limit of 0 minutes no operation is ever younger than the limit.
Recorded(r) ==
    IF RateLimitMinutes = 0 THEN recent ELSE recent \cup {<<req[r].user, req[r].op>>}

UsesAfterRelease(r) == IF seenUses[r] > 0 THEN seenUses[r] - 1 ELSE uses

CommitCreate(r) ==
    /\ pc[r] = "commit" /\ req[r].op = "create"
    /\ \E o \in Orders :
          /\ order[o] = NoOrder
          /\ order' = [order EXCEPT ![o] = [owner |-> req[r].user, status |-> "CREATED",
                                            promo |-> req[r].promo]]
          /\ items' = [items EXCEPT ![o] = {r}]
    /\ stock' = NewStock(r)
    /\ uses' = IF req[r].promo THEN seenUses[r] + 1 ELSE uses
    /\ recent' = Recorded(r)
    /\ End(r, "201")
    /\ UNCHANGED <<pstatus, supply>>

\* The promo code goes when the new total is too small for it.
DropsPromo(r) == seenOrder[r].promo /\ req[r].basket \notin Qualifying

Whole_UpdatedRow(r, row) == [seenOrder[r] EXCEPT !.promo = @ /\ ~DropsPromo(r)]

UpdatedRow(r, row) == [row EXCEPT !.promo = @ /\ ~DropsPromo(r)]

CommitUpdate(r) ==
    /\ pc[r] = "commit" /\ req[r].op = "update"
    /\ order' = [order EXCEPT ![req[r].order] = UpdatedRow(r, @)]
    /\ items' = [items EXCEPT ![req[r].order] = (@ \ seenItems[r]) \cup {r}]
    /\ stock' = NewStock(r)
    /\ uses' = IF DropsPromo(r) THEN UsesAfterRelease(r) ELSE uses
    /\ recent' = Recorded(r)
    /\ End(r, "200")
    /\ UNCHANGED <<pstatus, supply>>

\* The lines stay with the order.
Keeps_ReleasedUses(r) == uses

ReleasedUses(r) == IF seenOrder[r].promo THEN UsesAfterRelease(r) ELSE uses

CommitCancel(r) ==
    /\ pc[r] = "commit" /\ req[r].op = "cancel"
    /\ order' = [order EXCEPT ![req[r].order].status = "CANCELED"]
    /\ stock' = NewStock(r)
    /\ uses' = ReleasedUses(r)
    /\ End(r, "200")
    /\ UNCHANGED <<pstatus, items, recent, supply>>

\* The process dies, the connection breaks, or PostgreSQL picks a deadlock's victim:
\* the transaction is rolled back.
Fail(r) == r \in Running /\ Reject(r, "500")

\* r belongs to a set of requests that all wait for each other's rows.
Deadlocked(r) ==
    \E S \in SUBSET Running :
        /\ r \in S
        /\ \A q \in S : \E p \in want[q] : lock[p] \in S \ {q}

-----------------------------------------------------------------------------
(* update_product and archive_product, with the UPDATE that waits for a    *)
(* row lock; and time                                                      *)

Unblocked_RowWritable(p) == TRUE

RowWritable(p) == lock[p] = NoOne

SetStatus(p) ==
    /\ RowWritable(p)
    /\ \E s \in {"ACTIVE", "ARCHIVED"} : pstatus' = [pstatus EXCEPT ![p] = s]
    /\ UNCHANGED <<stock, order, items, uses, recent, supply, session, lock, req, pc, outcome>>

\* The seller's number replaces the stock; what live orders hold is on top of it.
SetStock(p) ==
    /\ RowWritable(p)
    /\ \E n \in StockLevels :
          /\ stock' = [stock EXCEPT ![p] = n]
          /\ supply' = [supply EXCEPT ![p] = n + Held(p)]
    /\ UNCHANGED <<pstatus, order, items, uses, recent, session, lock, req, pc, outcome>>

\* order_rate_limit_minutes have passed.
Expire ==
    /\ recent # {}
    /\ \E op \in recent : recent' = recent \ {op}
    /\ UNCHANGED <<stock, pstatus, order, items, uses, supply, session, lock, req, pc, outcome>>

Step(r) ==
    \/ ReadOrder(r) \/ CheckRateLimit(r) \/ CheckNoActiveOrder(r) \/ LoadItems(r)
    \/ \E p \in Products : LockProduct(r, p)
    \/ ReturnStock(r) \/ ValidateProducts(r) \/ ReadPromo(r)
    \/ CommitCreate(r) \/ CommitUpdate(r) \/ CommitCancel(r)

Next ==
    \/ \E r \in Requests :
          \/ \E u \in Users :
                \/ \E b \in Baskets, promo \in BOOLEAN : StartCreate(r, u, b, promo)
                \/ \E o \in Orders, b \in Baskets : StartUpdate(r, u, o, b)
                \/ \E o \in Orders : StartCancel(r, u, o)
          \/ ReadOrder(r) \/ CheckRateLimit(r) \/ CheckNoActiveOrder(r) \/ LoadItems(r)
          \/ \E p \in Products : LockProduct(r, p)
          \/ ReturnStock(r) \/ ValidateProducts(r) \/ ReadPromo(r)
          \/ CommitCreate(r) \/ CommitUpdate(r) \/ CommitCancel(r)
          \/ Fail(r)
    \/ \E p \in Products : SetStatus(p) \/ SetStock(p)
    \/ Expire

Spec == Init /\ [][Next]_vars

\* A transaction goes on as long as it can, and PostgreSQL ends deadlocks.
FairSpec ==
    /\ Spec
    /\ \A r \in Requests : WF_vars(Step(r)) /\ WF_vars(Deadlocked(r) /\ Fail(r))

-----------------------------------------------------------------------------
TypeOK ==
    /\ stock \in [Products -> Int] /\ supply \in [Products -> Int]
    /\ pstatus \in [Products -> {"ACTIVE", "ARCHIVED"}]
    /\ lock \in [Products -> Requests \cup {NoOne}]
    /\ order \in [Orders -> OrderRows]
    /\ items \in [Orders -> SUBSET Requests]
    /\ uses \in Int
    /\ recent \subseteq Users \X {"create", "update"}
    /\ req \in [Requests -> [op : {"none", "create", "update", "cancel"},
                             user : Users \cup {NoOne}, order : Orders \cup {NoOne},
                             basket : Baskets \cup {NoBasket}, promo : BOOLEAN]]
    /\ pc \in [Requests -> {"new", "read", "rate", "active", "items", "return",
                            "validate", "promo", "commit", "done"}]
    /\ want \in [Requests -> SUBSET Products]
    /\ seenOrder \in [Requests -> {row \in OrderRows : row.status # "CANCELED"}]
    /\ seenItems \in [Requests -> SUBSET Requests]
    /\ seenUses \in [Requests -> Int]
    /\ outcome \in [Requests -> {"none", "201", "200", "403", "404", "409", "422", "429", "500"}]

\* A request that has passed its check holds every row that it is about to change, and
\* what it checked is still so: products are ACTIVE when their lines are inserted.
LocksHeld ==
    \A r \in Requests :
        /\ pc[r] \notin {"return", "validate"} => want[r] = {}
        /\ pc[r] = "validate" => \A p \in ProductsOf(r) \ want[r] : lock[p] = r
        /\ pc[r] \in {"promo", "commit"} /\ req[r].op # "cancel" =>
              \A p \in ProductsOf(r) : lock[p] = r /\ pstatus[p] = "ACTIVE"

\* openapi/spec.yaml, cancel_order and update_order: "Returns reserved stock", "Returns
\* old stock, reserves new stock".  What is on the shelf and what live orders hold is
\* what sellers put on sale.
StockConserved == \A p \in Products : stock[p] + Held(p) = supply[p]

\* openapi/spec.yaml: stock has minimum 0.  Requests that run together do not take the
\* same units, because each holds the rows from its check to its commit.  That is so for
\* item lists that name a product once: the check compares item by item.
StockNotNegative == \A p \in Products : stock[p] >= 0

\* _check_no_active_order: "You already have an active order".
OneActiveOrder ==
    \A o1, o2 \in Orders : Live(o1) /\ Live(o2) /\ order[o1].owner = order[o2].owner => o1 = o2

PromoOrders == {o \in Orders : Live(o) /\ order[o].promo}

\* The counter of a promo code says how many live orders use it, and they are at most
\* max_uses (apply_promo, release_promo).
PromoCounted == uses = Cardinality(PromoOrders) /\ uses <= MaxUses

\* Lines enter an order only while their product is ACTIVE, although the seller's
\* archiving and the order's validation are separate transactions.
OnlyActiveSold ==
    [][\A o \in Orders : \A r \in items'[o] \ items[o] :
          \A p \in ProductsOf(r) : pstatus[p] = "ACTIVE"]_vars

\* A cancelled order stays cancelled, whatever an update that read it before writes.
CanceledForGood ==
    [][\A o \in Orders : order[o].status = "CANCELED" => order'[o].status = "CANCELED"]_vars

\* A request is answered, even if requests wait for each other's product rows.
RequestsAnswered == \A r \in Requests : pc[r] # "new" ~> pc[r] = "done"
=============================================================================

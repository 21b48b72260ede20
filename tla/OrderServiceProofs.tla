------------------------- MODULE OrderServiceProofs -------------------------
(***************************************************************************)
(* Orders by any number of requests, over any products and orders.         *)
(* For every Overlap: what the row locks give (OrderLocks, ActiveWhenSold, *)
(* CanceledStays, StockStaysCovered), and types.  For requests that are    *)
(* apart: one active order, no unit lost, the promo code's counter right   *)
(* (OneActiveIfApart, StockConservedIfApart, PromoCountedIfApart).         *)
(***************************************************************************)
EXTENDS OrderService, SumProofs

\* The part of TypeOK that says where things are, without the quantities.
Places ==
    /\ pstatus \in [Products -> {"ACTIVE", "ARCHIVED"}]
    /\ lock \in [Products -> Requests \cup {NoOne}]
    /\ DOMAIN order = Orders
    /\ items \in [Orders -> SUBSET Requests]
    /\ DOMAIN req = Requests
    /\ pc \in [Requests -> {"new", "read", "rate", "active", "items", "return",
                            "validate", "promo", "commit", "done"}]
    /\ want \in [Requests -> SUBSET Products]

OrderInv == Places /\ LocksHeld

LEMMA InitOrderInv == Init => OrderInv
<1> SUFFICES ASSUME Init PROVE OrderInv
  OBVIOUS
<1>1. Places
  BY DEF Init, Places
<1>2. LocksHeld
  BY DEF Init, LocksHeld
<1> QED
  BY <1>1, <1>2 DEF OrderInv

\* A request that ends leaves the others with the rows they hold.
LEMMA EndKeepsLocks ==
    ASSUME OrderInv, NEW r \in Requests, NEW status, End(r, status), pstatus' = pstatus,
           DOMAIN order' = Orders, items' \in [Orders -> SUBSET Requests]
    PROVE  OrderInv'
<1>1. Places'
  BY OrderAssumption DEF OrderInv, Places, End
<1>2. LocksHeld'
  <2> SUFFICES ASSUME NEW q \in Requests
      PROVE  /\ pc'[q] \notin {"return", "validate"} => want'[q] = {}
             /\ pc'[q] = "validate" => \A p \in ProductsOf(q) \ want'[q] : lock'[p] = q
             /\ pc'[q] \in {"promo", "commit"} /\ req[q].op # "cancel" =>
                   \A p \in ProductsOf(q) : lock'[p] = q /\ pstatus[p] = "ACTIVE"
    BY DEF LocksHeld, ProductsOf, End
  <2>1. CASE q = r
    BY <2>1 DEF OrderInv, Places, End
  <2>2. CASE q # r
    <3>1. pc'[q] = pc[q] /\ want'[q] = want[q]
      BY <2>2 DEF OrderInv, Places, End
    <3>2. \A p \in Products : lock[p] = q => lock'[p] = q
      BY <2>2 DEF OrderInv, Places, End
    <3> QED
      BY <3>1, <3>2 DEF OrderInv, LocksHeld, ProductsOf
  <2> QED
    BY <2>1, <2>2
<1> QED
  BY <1>1, <1>2 DEF OrderInv

LEMMA RejectKeepsLocks ==
    ASSUME OrderInv, NEW r \in Requests, NEW status, Reject(r, status)
    PROVE  OrderInv'
BY EndKeepsLocks DEF Reject, tables, OrderInv, Places

\* A request that goes on, with no new lock, keeps the invariant if it does for itself.
LEMMA GoToKeepsLocks ==
    ASSUME OrderInv, NEW r \in Requests, NEW label, GoTo(r, label),
           label \in {"rate", "active", "items", "return", "validate", "promo", "commit"},
           NEW W \in SUBSET Products, want' = [want EXCEPT ![r] = W],
           label \notin {"return", "validate"} => W = {},
           label = "validate" => \A p \in ProductsOf(r) \ W : lock[p] = r,
           label \in {"promo", "commit"} /\ req[r].op # "cancel" =>
              \A p \in ProductsOf(r) : lock[p] = r /\ pstatus[p] = "ACTIVE"
    PROVE  OrderInv'
<1>1. Places'
  BY DEF OrderInv, Places, GoTo, tables
<1>2. LocksHeld'
  <2> SUFFICES ASSUME NEW q \in Requests
      PROVE  /\ pc'[q] \notin {"return", "validate"} => want'[q] = {}
             /\ pc'[q] = "validate" => \A p \in ProductsOf(q) \ want'[q] : lock[p] = q
             /\ pc'[q] \in {"promo", "commit"} /\ req[q].op # "cancel" =>
                   \A p \in ProductsOf(q) : lock[p] = q /\ pstatus[p] = "ACTIVE"
    BY DEF LocksHeld, ProductsOf, GoTo, tables
  <2>1. CASE q = r
    BY <2>1 DEF OrderInv, Places, GoTo
  <2>2. CASE q # r
    BY <2>2 DEF OrderInv, Places, LocksHeld, GoTo
  <2> QED
    BY <2>1, <2>2
<1> QED
  BY <1>1, <1>2 DEF OrderInv

\* Before it asks for any row.
LEMMA GoOnKeepsLocks ==
    ASSUME OrderInv, NEW r \in Requests, NEW label \in {"rate", "active", "items"},
           GoTo(r, label), want' = [want EXCEPT ![r] = {}]
    PROVE  OrderInv'
<1> DEFINE W == {}
<1>1. W \in SUBSET Products /\ W = {} /\ want' = [want EXCEPT ![r] = W]
  OBVIOUS
<1>2. label \notin {"return", "validate", "promo", "commit"}
  OBVIOUS
<1>3. label \in {"rate", "active", "items", "return", "validate", "promo", "commit"}
  OBVIOUS
<1> HIDE DEF W
<1> QED
  BY <1>1, <1>2, <1>3, GoToKeepsLocks

LEMMA SameWant ==
    ASSUME OrderInv, NEW r \in Requests, UNCHANGED session
    PROVE  want' = [want EXCEPT ![r] = want[r]] /\ want[r] \in SUBSET Products
BY DEF OrderInv, Places, session

LEMMA NextOrderInv == OrderInv /\ [Next]_vars => OrderInv'
<1> SUFFICES ASSUME OrderInv, [Next]_vars PROVE OrderInv'
  OBVIOUS
<1>1. ASSUME NEW r \in Requests, NEW rec, NEW label \in {"rate", "read"}, Start(r, rec, label)
      PROVE  OrderInv'
  <2>1. Places'
    BY <1>1 DEF OrderInv, Places, Start, tables, session
  <2>2. LocksHeld'
    <3> SUFFICES ASSUME NEW q \in Requests
        PROVE  /\ pc'[q] \notin {"return", "validate"} => want[q] = {}
               /\ pc'[q] = "validate" => \A p \in ProductsOf(q)' \ want[q] : lock[p] = q
               /\ pc'[q] \in {"promo", "commit"} /\ req'[q].op # "cancel" =>
                     \A p \in ProductsOf(q)' : lock[p] = q /\ pstatus[p] = "ACTIVE"
      BY <1>1 DEF LocksHeld, Start, tables, session
    <3>1. CASE q = r
      BY <1>1, <3>1 DEF OrderInv, Places, LocksHeld, Start
    <3>2. CASE q # r
      BY <1>1, <3>2 DEF OrderInv, Places, LocksHeld, Start, ProductsOf
    <3> QED
      BY <3>1, <3>2
  <2> QED
    BY <2>1, <2>2 DEF OrderInv
<1>2. ASSUME NEW r \in Requests, ReadOrder(r) PROVE OrderInv'
  <2>1. CASE \E status : Reject(r, status)
    BY <2>1, RejectKeepsLocks
  <2>2. CASE \E label \in {"rate", "items"} : GoTo(r, label) /\ UNCHANGED want
    <3> PICK label \in {"rate", "items"} : GoTo(r, label) /\ UNCHANGED want
      BY <2>2
    <3>1. want' = [want EXCEPT ![r] = {}]
      BY <1>2 DEF OrderInv, Places, LocksHeld, ReadOrder
    <3> QED
      BY <3>1, GoOnKeepsLocks
  <2> QED
    BY <1>2, <2>1, <2>2 DEF ReadOrder
<1>3. ASSUME NEW r \in Requests, CheckRateLimit(r) PROVE OrderInv'
  <2>1. CASE Reject(r, "429")
    BY <2>1, RejectKeepsLocks
  <2>2. CASE \E label \in {"active", "items"} : GoTo(r, label) /\ UNCHANGED session
    <3> PICK label \in {"active", "items"} : GoTo(r, label) /\ UNCHANGED session
      BY <2>2
    <3>1. want' = [want EXCEPT ![r] = {}]
      BY <1>3 DEF OrderInv, Places, LocksHeld, CheckRateLimit, session
    <3> QED
      BY <3>1, GoOnKeepsLocks
  <2> QED
    BY <1>3, <2>1, <2>2 DEF CheckRateLimit
<1>4. ASSUME NEW r \in Requests, CheckNoActiveOrder(r) PROVE OrderInv'
  <2>1. CASE \E status : Reject(r, status)
    BY <2>1, RejectKeepsLocks
  <2>2. CASE GoLock(r, "validate", ProductsOf(r))
    BY <2>2, GoToKeepsLocks DEF GoLock, ProductsOf
  <2> QED
    BY <1>4, <2>1, <2>2 DEF CheckNoActiveOrder
<1>5. ASSUME NEW r \in Requests, LoadItems(r) PROVE OrderInv'
  BY <1>5, GoToKeepsLocks DEF LoadItems, GoLock, ProductsIn
<1>6. ASSUME NEW r \in Requests, NEW p \in Products, LockProduct(r, p) PROVE OrderInv'
  <2>1. Places'
    BY <1>6 DEF OrderInv, Places, LockProduct, tables
  <2>2. LocksHeld'
    <3> SUFFICES ASSUME NEW q \in Requests
        PROVE  /\ pc[q] \notin {"return", "validate"} => want'[q] = {}
               /\ pc[q] = "validate" => \A s \in ProductsOf(q) \ want'[q] : lock'[s] = q
               /\ pc[q] \in {"promo", "commit"} /\ req[q].op # "cancel" =>
                     \A s \in ProductsOf(q) : lock'[s] = q /\ pstatus[s] = "ACTIVE"
      BY <1>6 DEF LocksHeld, LockProduct, tables, ProductsOf
    <3>1. \A s \in Products : lock[s] = q => lock'[s] = q
      BY <1>6, OrderAssumption DEF LockProduct, RowFree, OrderInv, Places
    <3>2. CASE q = r
      <4>1. lock'[p] = q /\ want'[q] = want[q] \ {p}
        BY <1>6, <3>2 DEF LockProduct, OrderInv, Places
      <4> QED
        BY <1>6, <3>1, <3>2, <4>1 DEF OrderInv, LocksHeld, LockProduct, ProductsOf
    <3>3. CASE q # r
      <4>1. want'[q] = want[q]
        BY <1>6, <3>3 DEF LockProduct, OrderInv, Places
      <4> QED
        BY <3>1, <4>1 DEF OrderInv, LocksHeld, ProductsOf
    <3> QED
      BY <3>2, <3>3
  <2> QED
    BY <2>1, <2>2 DEF OrderInv
<1>7. ASSUME NEW r \in Requests, ReturnStock(r) PROVE OrderInv'
  <2>1. CASE req[r].op = "update" /\ GoLock(r, "validate", ProductsOf(r))
    BY <2>1, GoToKeepsLocks DEF GoLock, ProductsOf
  <2>2. CASE /\ req[r].op = "cancel" /\ UNCHANGED session
             /\ \E label \in {"promo", "commit"} : GoTo(r, label)
    BY <1>7, <2>2, SameWant, GoToKeepsLocks DEF ReturnStock
  <2> QED
    BY <1>7, <2>1, <2>2 DEF ReturnStock
<1>8. ASSUME NEW r \in Requests, ValidateProducts(r) PROVE OrderInv'
  <2>1. CASE Reject(r, "409")
    BY <2>1, RejectKeepsLocks
  <2>2. CASE /\ Acceptable(r) /\ UNCHANGED session
             /\ \E label \in {"promo", "commit"} : GoTo(r, label)
    <3>1. \A p \in ProductsOf(r) : lock[p] = r /\ pstatus[p] = "ACTIVE"
      BY <1>8, <2>2 DEF ValidateProducts, Acceptable, OrderInv, LocksHeld
    <3> QED
      BY <1>8, <2>2, <3>1, SameWant, GoToKeepsLocks DEF ValidateProducts
  <2> QED
    BY <1>8, <2>1, <2>2 DEF ValidateProducts
<1>9. ASSUME NEW r \in Requests, ReadPromo(r) PROVE OrderInv'
  <2>1. CASE Reject(r, "422")
    BY <2>1, RejectKeepsLocks
  <2>2. CASE GoTo(r, "commit") /\ UNCHANGED want
    <3>1. want' = [want EXCEPT ![r] = {}]
      BY <1>9, <2>2 DEF OrderInv, Places, LocksHeld, ReadPromo
    <3>2. req[r].op # "cancel" => \A p \in ProductsOf(r) : lock[p] = r /\ pstatus[p] = "ACTIVE"
      BY <1>9 DEF OrderInv, LocksHeld, ReadPromo
    <3> DEFINE label == "commit"
    <3> DEFINE W == {}
    <3>3. /\ GoTo(r, label) /\ W \in SUBSET Products /\ W = {}
          /\ label \in {"rate", "active", "items", "return", "validate", "promo", "commit"}
          /\ label # "validate"
      BY <2>2
    <3>4. want' = [want EXCEPT ![r] = W]
      BY <3>1
    <3>5. label \in {"promo", "commit"} /\ req[r].op # "cancel" =>
             \A p \in ProductsOf(r) : lock[p] = r /\ pstatus[p] = "ACTIVE"
      BY <3>2
    <3> HIDE DEF label, W
    <3> QED
      BY <3>3, <3>4, <3>5, GoToKeepsLocks
  <2> QED
    BY <1>9, <2>1, <2>2 DEF ReadPromo
<1>10. ASSUME NEW r \in Requests, CommitCreate(r) PROVE OrderInv'
  <2>1. DOMAIN order' = Orders /\ items' \in [Orders -> SUBSET Requests]
    BY <1>10 DEF CommitCreate, OrderInv, Places
  <2> QED
    BY <1>10, <2>1, EndKeepsLocks DEF CommitCreate
<1>11. ASSUME NEW r \in Requests, CommitUpdate(r) PROVE OrderInv'
  <2>1. DOMAIN order' = Orders /\ items' \in [Orders -> SUBSET Requests]
    BY <1>11 DEF CommitUpdate, OrderInv, Places
  <2> QED
    BY <1>11, <2>1, EndKeepsLocks DEF CommitUpdate
<1>12. ASSUME NEW r \in Requests, CommitCancel(r) PROVE OrderInv'
  BY <1>12, EndKeepsLocks DEF CommitCancel, OrderInv, Places
<1>13. ASSUME NEW r \in Requests, Fail(r) PROVE OrderInv'
  BY <1>13, RejectKeepsLocks DEF Fail
<1>14. ASSUME NEW p \in Products, SetStatus(p) PROVE OrderInv'
  <2>1. Places'
    BY <1>14 DEF OrderInv, Places, SetStatus, session
  <2>2. \A q \in Products : lock[q] # NoOne => pstatus'[q] = pstatus[q]
    BY <1>14 DEF SetStatus, RowWritable, OrderInv, Places
  <2>3. LocksHeld'
    BY <1>14, <2>2, OrderAssumption DEF OrderInv, LocksHeld, SetStatus, session, ProductsOf
  <2> QED
    BY <2>1, <2>3 DEF OrderInv
<1>15. ASSUME UNCHANGED <<pstatus, lock, order, items, req, pc, want>> PROVE OrderInv'
  BY <1>15 DEF OrderInv, Places, LocksHeld, ProductsOf
<1>16. ASSUME NEW p \in Products, SetStock(p) PROVE OrderInv'
  BY <1>15, <1>16 DEF SetStock, session
<1>17. ASSUME Expire PROVE OrderInv'
  BY <1>15, <1>17 DEF Expire, session
<1>18. CASE UNCHANGED vars
  BY <1>15, <1>18 DEF vars, tables, session
<1> QED
  BY <1>1, <1>2, <1>3, <1>4, <1>5, <1>6, <1>7, <1>8, <1>9, <1>10, <1>11, <1>12, <1>13,
     <1>14, <1>16, <1>17, <1>18 DEF Next, StartCreate, StartUpdate, StartCancel

\* A request between its check and its commit holds its rows, and they are as it checked
\* them (_load_and_validate_products with FOR UPDATE).
THEOREM OrderLocks == Spec => []LocksHeld
<1>1. OrderInv => LocksHeld
  BY DEF OrderInv
<1> QED
  BY InitOrderInv, NextOrderInv, <1>1, PTL DEF Spec

\* No line enters an order while its product is not ACTIVE.
THEOREM ActiveWhenSold == Spec => OnlyActiveSold
<1> DEFINE Sold == \A o \in Orders : \A r \in items'[o] \ items[o] :
                      \A p \in ProductsOf(r) : pstatus[p] = "ACTIVE"
<1>1. OrderInv /\ [Next]_vars => [Sold]_vars
  <2> SUFFICES ASSUME OrderInv, Next PROVE Sold \/ UNCHANGED vars
    OBVIOUS
  <2>1. ASSUME NEW r \in Requests, CommitCreate(r) \/ CommitUpdate(r) PROVE Sold
    <3>1. \A o \in Orders : items'[o] \ items[o] \subseteq {r}
      BY <2>1 DEF CommitCreate, CommitUpdate, OrderInv, Places
    <3>2. \A p \in ProductsOf(r) : pstatus[p] = "ACTIVE"
      BY <2>1 DEF CommitCreate, CommitUpdate, OrderInv, LocksHeld
    <3> QED
      BY <3>1, <3>2
  <2>2. ASSUME items' = items PROVE Sold
    BY <2>2
  <2>3. ASSUME NEW r \in Requests, ReadOrder(r) \/ CheckRateLimit(r) \/ CheckNoActiveOrder(r)
                 \/ LoadItems(r) \/ ReturnStock(r) \/ ValidateProducts(r) \/ ReadPromo(r)
                 \/ CommitCancel(r) \/ Fail(r)
        PROVE items' = items
    BY <2>3 DEF ReadOrder, CheckRateLimit, CheckNoActiveOrder, LoadItems, ReturnStock,
         ValidateProducts, ReadPromo, CommitCancel, Fail, Reject, GoTo, GoLock, tables
  <2>4. ASSUME NEW r \in Requests, NEW p \in Products, LockProduct(r, p) PROVE items' = items
    BY <2>4 DEF LockProduct, tables
  <2>5. ASSUME NEW r \in Requests, NEW rec, NEW label, Start(r, rec, label) PROVE items' = items
    BY <2>5 DEF Start, tables
  <2>6. ASSUME (\E p \in Products : SetStatus(p) \/ SetStock(p)) \/ Expire PROVE items' = items
    BY <2>6 DEF SetStatus, SetStock, Expire
  <2> HIDE DEF Sold
  <2> QED
    BY <2>1, <2>2, <2>3, <2>4, <2>5, <2>6 DEF Next, StartCreate, StartUpdate, StartCancel
<1> QED
  BY <1>1, InitOrderInv, NextOrderInv, PTL DEF Spec, OnlyActiveSold

\* A cancelled order stays so: an update that read it as CREATED writes other columns.
THEOREM CanceledStays == Spec => CanceledForGood
<1> DEFINE Stays == \A o \in Orders : order[o].status = "CANCELED" => order'[o].status = "CANCELED"
<1>1. OrderInv /\ [Next]_vars => [Stays]_vars
  <2> SUFFICES ASSUME OrderInv, Next, NEW o \in Orders, order[o].status = "CANCELED"
      PROVE  order'[o].status = "CANCELED" \/ UNCHANGED vars
    OBVIOUS
  <2>1. ASSUME NEW r \in Requests, CommitCreate(r) PROVE order'[o].status = "CANCELED"
    BY <2>1 DEF CommitCreate, OrderInv, Places, NoOrder
  <2>2. ASSUME NEW r \in Requests, CommitUpdate(r) PROVE order'[o].status = "CANCELED"
    BY <2>2 DEF CommitUpdate, UpdatedRow, OrderInv, Places
  <2>3. ASSUME NEW r \in Requests, CommitCancel(r) PROVE order'[o].status = "CANCELED"
    BY <2>3 DEF CommitCancel, OrderInv, Places
  <2>4. ASSUME order' = order PROVE order'[o].status = "CANCELED"
    BY <2>4
  <2>5. ASSUME NEW r \in Requests, ReadOrder(r) \/ CheckRateLimit(r) \/ CheckNoActiveOrder(r)
                 \/ LoadItems(r) \/ ReturnStock(r) \/ ValidateProducts(r) \/ ReadPromo(r)
                 \/ Fail(r)
        PROVE order' = order
    BY <2>5 DEF ReadOrder, CheckRateLimit, CheckNoActiveOrder, LoadItems, ReturnStock,
         ValidateProducts, ReadPromo, Fail, Reject, GoTo, GoLock, tables
  <2>6. ASSUME NEW r \in Requests, NEW p \in Products, LockProduct(r, p) PROVE order' = order
    BY <2>6 DEF LockProduct, tables
  <2>7. ASSUME NEW r \in Requests, NEW rec, NEW label, Start(r, rec, label) PROVE order' = order
    BY <2>7 DEF Start, tables
  <2>8. ASSUME (\E p \in Products : SetStatus(p) \/ SetStock(p)) \/ Expire PROVE order' = order
    BY <2>8 DEF SetStatus, SetStock, Expire
  <2> QED
    BY <2>1, <2>2, <2>3, <2>4, <2>5, <2>6, <2>7, <2>8
       DEF Next, StartCreate, StartUpdate, StartCancel
<1> QED
  BY <1>1, InitOrderInv, NextOrderInv, PTL DEF Spec, CanceledForGood
-----------------------------------------------------------------------------
(* One active order, if requests do not overlap                            *)

\* create_order between _check_no_active_order and its commit.
Cleared(r) == req[r].op = "create" /\ pc[r] \in {"validate", "promo", "commit"}

\* No two creates of one user are under way, and what a create found is still so.
ActiveInv ==
    /\ \A q, r \in Running : req[q].op = "create" /\ req[r].op = "create" /\ q # r
          => req[q].user # req[r].user
    /\ \A r \in Requests : Cleared(r) => ActiveOrders(req[r].user) = {}
    /\ OneActiveOrder

\* Most steps add no active order and bring no request past its check.
LEMMA QuietKeepsActive ==
    ASSUME ActiveInv, UNCHANGED req, Running' \subseteq Running,
           \A o \in Orders : Live(o)' => Live(o) /\ order'[o].owner = order[o].owner,
           \A r \in Requests : Cleared(r)' => Cleared(r) \/ ActiveOrders(req[r].user) = {}
    PROVE  ActiveInv'
<1>1. \A u : ActiveOrders(u)' \subseteq ActiveOrders(u)
  BY DEF ActiveOrders
<1>2. OneActiveOrder'
  BY DEF ActiveInv, OneActiveOrder
<1>3. \A r \in Requests : Cleared(r)' => ActiveOrders(req[r].user)' = {}
  BY <1>1 DEF ActiveInv
<1> QED
  BY <1>2, <1>3 DEF ActiveInv

LEMMA StartKeepsActive ==
    ASSUME OrderInv, ActiveInv, Overlap = "apart", NEW r \in Requests, NEW rec,
           NEW label \in {"rate", "read"}, Start(r, rec, label)
    PROVE  ActiveInv'
<1>1. /\ req'[r] = rec /\ pc'[r] = label /\ r \notin Running
      /\ \A q \in Requests \ {r} : req'[q] = req[q] /\ pc'[q] = pc[q]
      /\ UNCHANGED order
  BY DEF Start, tables, OrderInv, Places, Running
<1>2. \A q \in Running : Subject(req[q]) # Subject(rec)
  BY DEF Start, MayStart
<1>3. OneActiveOrder'
  BY <1>1 DEF ActiveInv, OneActiveOrder, Live
<1>4. \A q \in Requests : Cleared(q)' => ActiveOrders(req[q].user)' = {}
  BY <1>1 DEF ActiveInv, Cleared, ActiveOrders, Live
<1>5. Running' = Running \cup {r}
  BY <1>1 DEF Running
<1>6. ASSUME NEW p \in Running', NEW q \in Running', req'[p].op = "create", req'[q].op = "create",
             p # q
      PROVE  req'[p].user # req'[q].user
  BY <1>1, <1>2, <1>5, <1>6 DEF ActiveInv, Subject, Running
<1> QED
  BY <1>3, <1>4, <1>6 DEF ActiveInv

LEMMA CreateKeepsActive ==
    ASSUME OrderInv, ActiveInv, NEW r \in Requests, CommitCreate(r)
    PROVE  ActiveInv'
<1>1. PICK o \in Orders :
         /\ order[o] = NoOrder
         /\ order' = [order EXCEPT ![o] = [owner |-> req[r].user, status |-> "CREATED",
                                           promo |-> req[r].promo]]
  BY DEF CommitCreate
<1>2. /\ Live(o)' /\ order'[o].owner = req[r].user
      /\ \A x \in Orders \ {o} : order'[x] = order[x]
  BY <1>1 DEF Live, OrderInv, Places
<1>3. /\ UNCHANGED req /\ pc[r] = "commit" /\ req[r].op = "create" /\ pc'[r] = "done"
      /\ \A q \in Requests \ {r} : pc'[q] = pc[q]
  BY DEF CommitCreate, End, OrderInv, Places
<1>4. r \in Running /\ Running' \subseteq Running \ {r}
  BY <1>3 DEF Running
<1>5. ActiveOrders(req[r].user) = {}
  BY <1>3 DEF ActiveInv, Cleared
<1>6. OneActiveOrder'
  BY <1>2, <1>5 DEF ActiveInv, OneActiveOrder, ActiveOrders, Live
<1>7. ASSUME NEW q \in Requests, Cleared(q)' PROVE ActiveOrders(req[q].user)' = {}
  <2>1. q # r /\ q \in Running /\ Cleared(q)
    BY <1>3, <1>7 DEF Cleared, Running
  <2>2. req[q].user # req[r].user /\ ActiveOrders(req[q].user) = {}
    BY <1>3, <1>4, <2>1 DEF ActiveInv, Cleared
  <2> QED
    BY <1>2, <1>3, <2>2 DEF ActiveOrders, Live
<1> QED
  BY <1>3, <1>4, <1>6, <1>7 DEF ActiveInv

LEMMA NextKeepsActive ==
    ASSUME OrderInv, ActiveInv, [Next]_vars, Overlap = "apart"
    PROVE  ActiveInv'
<1>1. ASSUME NEW r \in Requests, NEW rec, NEW label \in {"rate", "read"}, Start(r, rec, label)
      PROVE  ActiveInv'
  BY <1>1, StartKeepsActive
<1>2. ASSUME NEW r \in Requests, CommitCreate(r) PROVE ActiveInv'
  BY <1>2, CreateKeepsActive
<1>e. ASSUME NEW r \in Requests, NEW status, End(r, status),
             \A o \in Orders : Live(o)' => Live(o) /\ order'[o].owner = order[o].owner
      PROVE  ActiveInv'
  <2>1. UNCHANGED req /\ pc'[r] = "done" /\ \A q \in Requests \ {r} : pc'[q] = pc[q]
    BY <1>e DEF End, OrderInv, Places
  <2> QED
    BY <1>e, <2>1, QuietKeepsActive DEF Cleared, Running
<1>j. ASSUME NEW r \in Requests, NEW status, Reject(r, status) PROVE ActiveInv'
  BY <1>e, <1>j DEF Reject, tables, Live
<1>g. ASSUME NEW r \in Requests, NEW label, GoTo(r, label), r \in Running,
             label \in {"validate", "promo", "commit"} /\ req[r].op = "create" =>
                Cleared(r) \/ ActiveOrders(req[r].user) = {}
      PROVE  ActiveInv'
  <2>1. UNCHANGED <<req, order>> /\ pc'[r] = label /\ \A q \in Requests \ {r} : pc'[q] = pc[q]
    BY <1>g DEF GoTo, tables, OrderInv, Places
  <2> QED
    BY <1>g, <2>1, QuietKeepsActive DEF Cleared, Running, Live
<1>3. ASSUME NEW r \in Requests, ReadOrder(r) PROVE ActiveInv'
  BY <1>3, <1>j, <1>g DEF ReadOrder, Running
<1>4. ASSUME NEW r \in Requests, CheckRateLimit(r) PROVE ActiveInv'
  BY <1>4, <1>j, <1>g DEF CheckRateLimit, Running
<1>5. ASSUME NEW r \in Requests, CheckNoActiveOrder(r) PROVE ActiveInv'
  BY <1>5, <1>j, <1>g DEF CheckNoActiveOrder, GoLock, Running
<1>6. ASSUME NEW r \in Requests, LoadItems(r) \/ ReturnStock(r) PROVE ActiveInv'
  BY <1>6, <1>g DEF LoadItems, ReturnStock, GoLock, Running
<1>7. ASSUME NEW r \in Requests, ValidateProducts(r) \/ ReadPromo(r) PROVE ActiveInv'
  BY <1>7, <1>j, <1>g DEF ValidateProducts, ReadPromo, Running, Cleared
<1>8. ASSUME NEW r \in Requests, CommitUpdate(r) PROVE ActiveInv'
  <2>1. \A o \in Orders : order'[o].status = order[o].status /\ order'[o].owner = order[o].owner
    BY <1>8 DEF CommitUpdate, UpdatedRow, OrderInv, Places
  <2> QED
    BY <1>8, <1>e, <2>1 DEF CommitUpdate, Live
<1>9. ASSUME NEW r \in Requests, CommitCancel(r) PROVE ActiveInv'
  <2>1. \A o \in Orders : order'[o].status = "CREATED" =>
           order'[o].status = order[o].status /\ order'[o].owner = order[o].owner
    BY <1>9 DEF CommitCancel, OrderInv, Places
  <2> QED
    BY <1>9, <1>e, <2>1 DEF CommitCancel, Live
<1>10. ASSUME NEW r \in Requests, Fail(r) PROVE ActiveInv'
  BY <1>10, <1>j DEF Fail
<1>11. ASSUME UNCHANGED <<req, pc, order>> PROVE ActiveInv'
  BY <1>11, QuietKeepsActive DEF Running, Cleared, Live
<1>12. ASSUME \/ \E r \in Requests, p \in Products : LockProduct(r, p)
              \/ \E p \in Products : SetStatus(p) \/ SetStock(p)
              \/ Expire \/ UNCHANGED vars
       PROVE  ActiveInv'
  BY <1>11, <1>12 DEF LockProduct, SetStatus, SetStock, Expire, tables, vars
<1> QED
  BY <1>1, <1>2, <1>3, <1>4, <1>5, <1>6, <1>7, <1>8, <1>9, <1>10, <1>12
     DEF Next, StartCreate, StartUpdate, StartCancel

\* _check_no_active_order keeps a user to one active order as long as no two creates of
\* that user overlap; other requests may overlap with it.
THEOREM OneActiveIfApart ==
    ASSUME Overlap = "apart"
    PROVE  Spec => []OneActiveOrder
<1>1. Init => ActiveInv
  BY DEF Init, ActiveInv, Running, Cleared, OneActiveOrder, Live, NoOrder
<1>2. OrderInv /\ ActiveInv /\ [Next]_vars => ActiveInv'
  BY NextKeepsActive
<1>3. ActiveInv => OneActiveOrder
  BY DEF ActiveInv
<1> QED
  BY <1>1, <1>2, <1>3, InitOrderInv, NextOrderInv, PTL DEF Spec

-----------------------------------------------------------------------------
(* Types                                                                   *)

\* What a request asks for fits where it is, and what it has read is of requests that
\* are done: their item lists do not change any more.
Stage(r) ==
    /\ pc[r] # "new" =>
          /\ req[r].op # "none" /\ req[r].user \in Users
          /\ req[r].op # "create" => req[r].order \in Orders
          /\ req[r].op = "cancel" => req[r].basket = NoBasket
          /\ req[r].op = "create" => req[r].order = NoOne /\ seenItems[r] = {}
    /\ pc[r] \in {"read", "items", "return"} => req[r].op \in {"update", "cancel"}
    /\ pc[r] \in {"rate", "validate"} => req[r].op \in {"create", "update"}
    /\ pc[r] = "active" => req[r].op = "create"
    /\ pc[r] \in {"new", "read", "rate", "active", "items", "done"} => seenItems[r] = {}
    /\ IsFiniteSet(seenItems[r])
    /\ \A q \in seenItems[r] : pc[q] = "done"

LinesDone == \A o \in Orders : IsFiniteSet(items[o]) /\ \A q \in items[o] : pc[q] = "done"

TypeInv == TypeOK /\ (\A r \in Requests : Stage(r)) /\ LinesDone

LEMMA BasketFits ==
    ASSUME TypeOK, NEW r \in Requests, NEW p \in Products
    PROVE  /\ req[r].basket.total[p] \in Nat /\ req[r].basket.largest[p] \in Nat
           /\ req[r].basket.largest[p] <= req[r].basket.total[p]
           /\ req[r].basket.largest[p] = 0 => req[r].basket.total[p] = 0
<1>1. req[r].basket \in Baskets \cup {NoBasket}
  BY DEF TypeOK
<1>2. CASE req[r].basket = NoBasket
  BY <1>2 DEF NoBasket
<1>3. CASE req[r].basket \in Baskets
  <2>1. req[r].basket \in BasketRecords
    BY <1>3, OrderAssumption
  <2>2. req[r].basket.total[p] \in Nat /\ req[r].basket.largest[p] \in Nat
    BY <2>1 DEF BasketRecords
  <2> QED
    BY <1>3, <2>2, OrderAssumption
<1> QED
  BY <1>1, <1>2, <1>3

LEMMA QuantityNat ==
    ASSUME TypeOK, NEW B \in SUBSET Requests, IsFiniteSet(B), NEW p \in Products
    PROVE  Quantity(B, p) \in Nat
<1>1. \A r \in B : Totals(p)[r] \in Nat
  BY BasketFits DEF Totals
<1> QED
  BY <1>1, SumNat DEF Quantity

LEMMA StockFits ==
    ASSUME TypeInv, NEW r \in Requests, NEW p \in Products
    PROVE  /\ stock[p] \in Int /\ Returned(r, p) \in Nat /\ Taken(r, p) \in Nat
           /\ NewStock(r)[p] = stock[p] + Returned(r, p) - Taken(r, p)
<1>1. stock[p] \in Int /\ seenItems[r] \in SUBSET Requests /\ IsFiniteSet(seenItems[r])
  BY DEF TypeInv, TypeOK, Stage
<1>2. Returned(r, p) \in Nat
  BY <1>1, QuantityNat DEF TypeInv, Returned
<1>3. Taken(r, p) \in Nat
  BY BasketFits DEF TypeInv, Taken
<1> QED
  BY <1>1, <1>2, <1>3 DEF NewStock

LEMMA NewStockFits ==
    ASSUME TypeInv, NEW r \in Requests
    PROVE  NewStock(r) \in [Products -> Int]
<1>1. \A p \in Products : stock[p] + Returned(r, p) - Taken(r, p) \in Int
  BY StockFits
<1> QED
  BY <1>1 DEF NewStock

LEMMA InitTypeInv == Init => TypeInv
<1> SUFFICES ASSUME Init PROVE TypeInv
  OBVIOUS
<1>1. stock \in [Products -> Int] /\ supply \in [Products -> Int]
  BY OrderAssumption DEF Init
<1>2. TypeOK
  BY <1>1 DEF Init, TypeOK, NoOrder, OrderRows, NoRequest
<1>3. \A r \in Requests : Stage(r)
  BY FS_EmptySet DEF Init, Stage
<1>4. LinesDone
  BY FS_EmptySet DEF Init, LinesDone
<1> QED
  BY <1>2, <1>3, <1>4 DEF TypeInv

\* A request that ends.
LEMMA EndKeepsTypes ==
    ASSUME TypeInv, NEW r \in Running, End(r, outcome'[r]),
           outcome'[r] \in {"201", "200", "403", "404", "409", "422", "429", "500"},
           stock' \in [Products -> Int], supply' \in [Products -> Int],
           pstatus' \in [Products -> {"ACTIVE", "ARCHIVED"}],
           order' \in [Orders -> OrderRows], items' \in [Orders -> SUBSET Requests],
           uses' \in Int, recent' \subseteq Users \X {"create", "update"},
           \A o \in Orders : IsFiniteSet(items'[o]) /\ \A q \in items'[o] : pc[q] = "done" \/ q = r
    PROVE  TypeInv'
<1> USE DEF Running
<1>1. /\ pc' = [pc EXCEPT ![r] = "done"] /\ req' = req
      /\ seenItems' = [seenItems EXCEPT ![r] = {}]
  BY DEF End
<1>2. /\ pc'[r] = "done" /\ seenItems'[r] = {}
      /\ \A q \in Requests \ {r} : pc'[q] = pc[q] /\ seenItems'[q] = seenItems[q]
  BY <1>1 DEF TypeInv, TypeOK
<1>3. TypeOK'
  <2>1. /\ lock' \in [Products -> Requests \cup {NoOne}]
        /\ req' \in [Requests -> [op : {"none", "create", "update", "cancel"},
                             user : Users \cup {NoOne}, order : Orders \cup {NoOne},
                             basket : Baskets \cup {NoBasket}, promo : BOOLEAN]]
        /\ want' \in [Requests -> SUBSET Products]
        /\ seenItems' \in [Requests -> SUBSET Requests]
        /\ seenUses' \in [Requests -> Int]
    BY DEF TypeInv, TypeOK, End
  <2>2. pc' \in [Requests -> {"new", "read", "rate", "active", "items", "return",
                            "validate", "promo", "commit", "done"}]
    BY <1>1 DEF TypeInv, TypeOK
  <2>3. seenOrder' \in [Requests -> {row \in OrderRows : row.status # "CANCELED"}]
    BY DEF TypeInv, TypeOK, End, NoOrder, OrderRows
  <2>4. outcome' \in [Requests -> {"none", "201", "200", "403", "404", "409", "422", "429", "500"}]
    BY DEF TypeInv, TypeOK, End
  <2> QED
    BY <2>1, <2>2, <2>3, <2>4 DEF TypeOK
<1>4. ASSUME NEW q \in Requests PROVE Stage(q)'
  <2>1. Stage(q) /\ Stage(r)
    BY DEF TypeInv
  <2>2. seenItems[q] \in SUBSET Requests
    BY DEF TypeInv, TypeOK
  <2>3. CASE q = r
    BY <1>1, <1>2, <2>1, <2>3, FS_EmptySet DEF Stage
  <2>4. CASE q # r
    BY <1>1, <1>2, <2>1, <2>2, <2>4 DEF Stage
  <2> QED
    BY <2>3, <2>4
<1>5. LinesDone'
  BY <1>2 DEF LinesDone
<1> QED
  BY <1>3, <1>4, <1>5 DEF TypeInv

LEMMA RejectKeepsTypes ==
    ASSUME TypeInv, NEW r \in Running,
           NEW status \in {"403", "404", "409", "422", "429", "500"}, Reject(r, status)
    PROVE  TypeInv'
<1>1. outcome'[r] = status /\ End(r, status) /\ UNCHANGED tables
  BY DEF Reject, End, TypeInv, TypeOK, Running
<1>2. \A o \in Orders : IsFiniteSet(items[o]) /\ \A q \in items[o] : pc[q] = "done"
  BY DEF TypeInv, LinesDone
<1> QED
  BY <1>1, <1>2, EndKeepsTypes DEF tables, TypeInv, TypeOK

\* A request that goes on, with what it has read.
LEMMA GoToKeepsTypes ==
    ASSUME TypeInv, NEW r \in Running, NEW label, GoTo(r, label),
           label \in {"rate", "active", "items", "return", "validate", "promo", "commit"},
           want' \in [Requests -> SUBSET Products],
           seenOrder' \in [Requests -> {row \in OrderRows : row.status # "CANCELED"}],
           seenItems' \in [Requests -> SUBSET Requests], seenUses' \in [Requests -> Int],
           \A q \in Requests \ {r} : seenItems'[q] = seenItems[q],
           IsFiniteSet(seenItems'[r]), \A q \in seenItems'[r] : pc[q] = "done",
           req[r].op = "create" \/ label \in {"rate", "active", "items"} => seenItems'[r] = {},
           label \in {"items", "return"} => req[r].op \in {"update", "cancel"},
           label \in {"rate", "validate"} => req[r].op \in {"create", "update"},
           label = "active" => req[r].op = "create"
    PROVE  TypeInv'
<1>1. /\ pc'[r] = label /\ req' = req /\ items' = items /\ pc[r] # "done" /\ pc[r] # "new"
      /\ \A q \in Requests \ {r} : pc'[q] = pc[q]
  BY DEF GoTo, tables, TypeInv, TypeOK, Running
<1>2. TypeOK'
  BY DEF TypeInv, TypeOK, GoTo, tables
<1>3. ASSUME NEW q \in Requests PROVE Stage(q)'
  <2>1. Stage(q) /\ Stage(r)
    BY DEF TypeInv, Running
  <2>2. seenItems[q] \in SUBSET Requests /\ seenItems'[q] \in SUBSET Requests
    BY DEF TypeInv, TypeOK
  <2>3. CASE q = r
    BY <1>1, <2>1, <2>2, <2>3 DEF Stage
  <2>4. CASE q # r
    BY <1>1, <2>1, <2>2, <2>4 DEF Stage
  <2> QED
    BY <2>3, <2>4
<1>4. LinesDone'
  BY <1>1 DEF LinesDone, TypeInv, TypeOK
<1> QED
  BY <1>2, <1>3, <1>4 DEF TypeInv

LEMMA StartKeepsTypes ==
    ASSUME TypeInv, NEW r \in Requests, NEW rec, NEW label \in {"rate", "read"},
           Start(r, rec, label),
           rec \in [op : {"create", "update", "cancel"}, user : Users,
                    order : Orders \cup {NoOne}, basket : Baskets \cup {NoBasket}, promo : BOOLEAN],
           rec.op # "create" => rec.order \in Orders,
           rec.op = "create" => rec.order = NoOne,
           rec.op = "cancel" => rec.basket = NoBasket,
           label = "read" => rec.op # "create", label = "rate" => rec.op = "create"
    PROVE  TypeInv'
<1>1. /\ req'[r] = rec /\ pc'[r] = label /\ pc[r] = "new" /\ UNCHANGED <<items, seenItems>>
      /\ \A q \in Requests \ {r} : pc'[q] = pc[q] /\ req'[q] = req[q]
  BY DEF Start, tables, session, TypeInv, TypeOK
<1>2. TypeOK'
  <2>1. /\ req' = [req EXCEPT ![r] = rec] /\ pc' = [pc EXCEPT ![r] = label]
        /\ UNCHANGED <<tables, session, lock, outcome>>
    BY DEF Start
  <2>2. req' \in [Requests -> [op : {"none", "create", "update", "cancel"},
                             user : Users \cup {NoOne}, order : Orders \cup {NoOne},
                             basket : Baskets \cup {NoBasket}, promo : BOOLEAN]]
    BY <2>1 DEF TypeInv, TypeOK
  <2> QED
    BY <2>1, <2>2 DEF TypeInv, TypeOK, tables, session
<1>3. ASSUME NEW q \in Requests PROVE Stage(q)'
  <2>1. Stage(q) /\ Stage(r)
    BY DEF TypeInv
  <2>2. seenItems[q] \in SUBSET Requests
    BY DEF TypeInv, TypeOK
  <2>3. CASE q = r
    BY <1>1, <2>1, <2>2, <2>3 DEF Stage
  <2>4. CASE q # r
    BY <1>1, <2>1, <2>2, <2>4 DEF Stage
  <2> QED
    BY <2>3, <2>4
<1>4. LinesDone'
  BY <1>1 DEF LinesDone, TypeInv, TypeOK
<1> QED
  BY <1>2, <1>3, <1>4 DEF TypeInv

LEMMA UpdatedFits ==
    ASSUME NEW r, NEW row \in OrderRows
    PROVE  /\ UpdatedRow(r, row) \in OrderRows
           /\ UpdatedRow(r, row).owner = row.owner /\ UpdatedRow(r, row).status = row.status
           /\ UpdatedRow(r, row).promo = (row.promo /\ ~DropsPromo(r))
<1> DEFINE kept == row.promo /\ ~DropsPromo(r)
<1>1. kept \in BOOLEAN
  OBVIOUS
<1>2. UpdatedRow(r, row) = [row EXCEPT !.promo = kept]
  BY DEF UpdatedRow
<1> HIDE DEF kept
<1>3. /\ UpdatedRow(r, row) \in OrderRows
      /\ UpdatedRow(r, row).owner = row.owner /\ UpdatedRow(r, row).status = row.status
      /\ UpdatedRow(r, row).promo = kept
  BY <1>1, <1>2 DEF OrderRows
<1> QED
  BY <1>3 DEF kept

LEMMA UpdatedLinesFinite ==
    ASSUME NEW A, NEW B, NEW r, IsFiniteSet(A)
    PROVE  IsFiniteSet((A \ B) \cup {r})
<1>1. IsFiniteSet(A \ B)
  BY FS_Difference
<1> QED
  BY <1>1, FS_AddElement

\* No line of an order goes, or comes from a request that is not done, unseen.
LEMMA CommitKeepsTypes ==
    ASSUME TypeInv, NEW r \in Requests, CommitCreate(r) \/ CommitUpdate(r) \/ CommitCancel(r)
    PROVE  TypeInv'
<1>1. /\ pc[r] = "commit" /\ r \in Running /\ Stage(r) /\ req[r].user \in Users
      /\ stock' \in [Products -> Int]
  BY NewStockFits DEF CommitCreate, CommitUpdate, CommitCancel, Running, TypeInv, Stage
<1>2. /\ \A o \in Orders : IsFiniteSet(items[o]) /\ \A q \in items[o] : pc[q] = "done"
      /\ items \in [Orders -> SUBSET Requests] /\ order \in [Orders -> OrderRows]
      /\ uses \in Int /\ seenUses[r] \in Int
      /\ recent \subseteq Users \X {"create", "update"}
  BY DEF TypeInv, LinesDone, TypeOK
<1>3. ASSUME CommitCreate(r) PROVE TypeInv'
  <2>1. PICK o \in Orders :
           /\ order' = [order EXCEPT ![o] = [owner |-> req[r].user, status |-> "CREATED",
                                             promo |-> req[r].promo]]
           /\ items' = [items EXCEPT ![o] = {r}]
    BY <1>3 DEF CommitCreate
  <2>2. order' \in [Orders -> OrderRows]
    BY <1>1, <1>2, <2>1 DEF OrderRows, TypeInv, TypeOK
  <2>3. /\ items' \in [Orders -> SUBSET Requests]
        /\ \A x \in Orders : IsFiniteSet(items'[x]) /\ \A q \in items'[x] : pc[q] = "done" \/ q = r
    BY <1>2, <2>1, FS_Singleton
  <2>4. uses' \in Int /\ recent' \subseteq Users \X {"create", "update"}
    BY <1>1, <1>2, <1>3 DEF CommitCreate, Recorded
  <2>5. outcome'[r] = "201" /\ End(r, "201") /\ UNCHANGED <<pstatus, supply>>
    BY <1>3 DEF CommitCreate, End, TypeInv, TypeOK
  <2> QED
    BY <1>1, <2>2, <2>3, <2>4, <2>5, EndKeepsTypes DEF TypeInv, TypeOK
<1>4. ASSUME CommitUpdate(r) PROVE TypeInv'
  <2>1. order' \in [Orders -> OrderRows]
    <3> DEFINE row == order[req[r].order]
               new == UpdatedRow(r, row)
    <3>1. req[r].order \in Orders /\ row \in OrderRows
      BY <1>1, <1>2, <1>4 DEF CommitUpdate, Stage
    <3>2. order' = [order EXCEPT ![req[r].order] = new]
      BY <1>4 DEF CommitUpdate
    <3>3. new \in OrderRows
      BY <3>1, UpdatedFits
    <3> HIDE DEF row, new
    <3> QED
      BY <1>2, <3>1, <3>2, <3>3
  <2>2. /\ items' \in [Orders -> SUBSET Requests]
        /\ \A x \in Orders : IsFiniteSet(items'[x]) /\ \A q \in items'[x] : pc[q] = "done" \/ q = r
    <3> DEFINE new == (items[req[r].order] \ seenItems[r]) \cup {r}
    <3>1. req[r].order \in Orders
      BY <1>1, <1>4 DEF CommitUpdate, Stage
    <3>2. items' = [items EXCEPT ![req[r].order] = new]
      BY <1>4 DEF CommitUpdate
    <3>3. new \in SUBSET Requests /\ \A q \in new : pc[q] = "done" \/ q = r
      BY <1>2, <3>1
    <3>4. IsFiniteSet(new)
      BY <1>2, <3>1, UpdatedLinesFinite
    <3> HIDE DEF new
    <3> QED
      BY <1>2, <3>1, <3>2, <3>3, <3>4
  <2>3. uses' \in Int /\ recent' \subseteq Users \X {"create", "update"}
    BY <1>1, <1>2, <1>4 DEF CommitUpdate, Recorded, UsesAfterRelease
  <2>4. outcome'[r] = "200" /\ End(r, "200") /\ UNCHANGED <<pstatus, supply>>
    BY <1>4 DEF CommitUpdate, End, TypeInv, TypeOK
  <2> QED
    BY <1>1, <2>1, <2>2, <2>3, <2>4, EndKeepsTypes DEF TypeInv, TypeOK
<1>5. ASSUME CommitCancel(r) PROVE TypeInv'
  <2>1. order' \in [Orders -> OrderRows]
    BY <1>2, <1>5 DEF OrderRows, CommitCancel
  <2>2. uses' \in Int
    BY <1>2, <1>5 DEF CommitCancel, ReleasedUses, UsesAfterRelease
  <2>3. outcome'[r] = "200" /\ End(r, "200") /\ UNCHANGED <<pstatus, supply, items, recent>>
    BY <1>5 DEF CommitCancel, End, TypeInv, TypeOK
  <2> QED
    BY <1>1, <1>2, <2>1, <2>2, <2>3, EndKeepsTypes DEF TypeInv, TypeOK
<1> QED
  BY <1>3, <1>4, <1>5

LEMMA HeldByNat ==
    ASSUME TypeInv, NEW o \in Orders, NEW p \in Products
    PROVE  HeldBy(o, p) \in Nat
<1>1. items[o] \in SUBSET Requests /\ IsFiniteSet(items[o])
  BY DEF TypeInv, TypeOK, LinesDone
<1> QED
  BY <1>1, QuantityNat DEF TypeInv, HeldBy

LEMMA HeldNat ==
    ASSUME TypeInv, NEW p \in Products
    PROVE  Held(p) \in Nat
<1> DEFINE f == [o \in Orders |-> HeldBy(o, p)]
<1>1. Held(p) = SumFunctionOnSet(f, Orders) /\ \A o \in Orders : f[o] \in Nat
  BY HeldByNat DEF Held, SumFunction
<1> HIDE DEF f
<1> QED
  BY <1>1, SumNat, OrderAssumption

LEMMA NextTypeInv == TypeInv /\ [Next]_vars => TypeInv'
<1> SUFFICES ASSUME TypeInv, [Next]_vars PROVE TypeInv'
  OBVIOUS
<1>t. TypeOK /\ LinesDone /\ \A r \in Requests : Stage(r)
  BY DEF TypeInv
<1>1. ASSUME NEW r \in Requests, NEW u \in Users, NEW b \in Baskets, NEW promo \in BOOLEAN,
             StartCreate(r, u, b, promo)
      PROVE  TypeInv'
  <2> DEFINE rec == [op |-> "create", user |-> u, order |-> NoOne, basket |-> b, promo |-> promo]
             label == "rate"
  <2>1. /\ rec \in [op : {"create", "update", "cancel"}, user : Users,
                    order : Orders \cup {NoOne}, basket : Baskets \cup {NoBasket}, promo : BOOLEAN]
        /\ rec.op = "create" /\ rec.order = NoOne
        /\ label \in {"rate", "read"} /\ label = "rate"
    OBVIOUS
  <2>2. Start(r, rec, label)
    BY <1>1 DEF StartCreate
  <2> HIDE DEF rec, label
  <2> QED
    BY <2>1, <2>2, StartKeepsTypes
<1>2. ASSUME NEW r \in Requests, NEW u \in Users, NEW o \in Orders, NEW b \in Baskets,
             StartUpdate(r, u, o, b)
      PROVE  TypeInv'
  <2> DEFINE rec == [op |-> "update", user |-> u, order |-> o, basket |-> b, promo |-> FALSE]
             label == "read"
  <2>1. /\ rec \in [op : {"create", "update", "cancel"}, user : Users,
                    order : Orders \cup {NoOne}, basket : Baskets \cup {NoBasket}, promo : BOOLEAN]
        /\ rec.op = "update" /\ rec.order \in Orders
        /\ label \in {"rate", "read"} /\ label = "read"
    OBVIOUS
  <2>2. Start(r, rec, label)
    BY <1>2 DEF StartUpdate
  <2> HIDE DEF rec, label
  <2> QED
    BY <2>1, <2>2, StartKeepsTypes
<1>3. ASSUME NEW r \in Requests, NEW u \in Users, NEW o \in Orders, StartCancel(r, u, o)
      PROVE  TypeInv'
  <2> DEFINE rec == [op |-> "cancel", user |-> u, order |-> o, basket |-> NoBasket, promo |-> FALSE]
             label == "read"
  <2>1. /\ rec \in [op : {"create", "update", "cancel"}, user : Users,
                    order : Orders \cup {NoOne}, basket : Baskets \cup {NoBasket}, promo : BOOLEAN]
        /\ rec.op = "cancel" /\ rec.order \in Orders /\ rec.basket = NoBasket
        /\ label \in {"rate", "read"} /\ label = "read"
    OBVIOUS
  <2>2. Start(r, rec, label)
    BY <1>3 DEF StartCancel
  <2> HIDE DEF rec, label
  <2> QED
    BY <2>1, <2>2, StartKeepsTypes
<1>j. ASSUME NEW r \in Running, NEW status \in {"403", "404", "409", "422", "429", "500"},
             Reject(r, status)
      PROVE  TypeInv'
  BY <1>j, RejectKeepsTypes
<1>s. ASSUME UNCHANGED session
      PROVE  /\ want' \in [Requests -> SUBSET Products]
             /\ seenOrder' \in [Requests -> {row \in OrderRows : row.status # "CANCELED"}]
             /\ seenItems' \in [Requests -> SUBSET Requests] /\ seenUses' \in [Requests -> Int]
             /\ seenItems' = seenItems
  BY <1>s, <1>t DEF session, TypeOK
<1>4. ASSUME NEW r \in Requests, ReadOrder(r) PROVE TypeInv'
  <2>1. pc[r] = "read" /\ r \in Running /\ req[r].op \in {"update", "cancel"} /\ req[r].order \in Orders
    BY <1>4, <1>t DEF ReadOrder, Running, Stage
  <2>2. CASE \E status \in {"403", "404", "409"} : Reject(r, status)
    BY <1>j, <2>1, <2>2
  <2>3. CASE /\ Open(order[req[r].order])
             /\ seenOrder' = [seenOrder EXCEPT ![r] = order[req[r].order]]
             /\ GoTo(r, IF req[r].op = "update" THEN "rate" ELSE "items")
             /\ UNCHANGED <<want, seenItems, seenUses>>
    <3> DEFINE label == IF req[r].op = "update" THEN "rate" ELSE "items"
    <3>1. /\ label \in {"rate", "active", "items", "return", "validate", "promo", "commit"}
          /\ label \in {"items", "return"} => req[r].op \in {"update", "cancel"}
          /\ label \in {"rate", "validate"} => req[r].op \in {"create", "update"}
          /\ label = "active" => req[r].op = "create"
      BY <2>1
    <3>2. order[req[r].order] \in OrderRows /\ order[req[r].order].status # "CANCELED"
      BY <1>t, <2>1, <2>3 DEF Open, TypeOK
    <3>3. seenItems[r] = {} /\ IsFiniteSet(seenItems[r])
      BY <1>t, <2>1 DEF Stage
    <3>4. /\ want' \in [Requests -> SUBSET Products]
          /\ seenOrder' \in [Requests -> {row \in OrderRows : row.status # "CANCELED"}]
          /\ seenItems' \in [Requests -> SUBSET Requests] /\ seenUses' \in [Requests -> Int]
          /\ seenItems' = seenItems
      BY <1>t, <2>3, <3>2 DEF TypeOK
    <3>5. GoTo(r, label)
      BY <2>3
    <3> HIDE DEF label
    <3> QED
      BY <2>1, <3>1, <3>3, <3>4, <3>5, GoToKeepsTypes
  <2> QED
    BY <1>4, <2>2, <2>3 DEF ReadOrder
<1>5. ASSUME NEW r \in Requests, CheckRateLimit(r) PROVE TypeInv'
  <2>1. pc[r] = "rate" /\ r \in Running /\ req[r].op \in {"create", "update"}
    BY <1>5, <1>t DEF CheckRateLimit, Running, Stage
  <2>2. CASE Reject(r, "429")
    BY <1>j, <2>1, <2>2
  <2>3. CASE UNCHANGED session /\ GoTo(r, IF req[r].op = "create" THEN "active" ELSE "items")
    <3> DEFINE label == IF req[r].op = "create" THEN "active" ELSE "items"
    <3>1. /\ label \in {"rate", "active", "items", "return", "validate", "promo", "commit"}
          /\ label \in {"items", "return"} => req[r].op \in {"update", "cancel"}
          /\ label \in {"rate", "validate"} => req[r].op \in {"create", "update"}
          /\ label = "active" => req[r].op = "create"
      BY <2>1
    <3>2. seenItems[r] = {} /\ IsFiniteSet(seenItems[r])
      BY <1>t, <2>1 DEF Stage
    <3>3. GoTo(r, label)
      BY <2>3
    <3> HIDE DEF label
    <3> QED
      BY <1>s, <2>1, <2>3, <3>1, <3>2, <3>3, GoToKeepsTypes
  <2> QED
    BY <1>5, <2>2, <2>3 DEF CheckRateLimit
<1>l. ASSUME NEW r \in Requests, NEW label, NEW rows \in SUBSET Products, GoLock(r, label, rows)
      PROVE  /\ want' \in [Requests -> SUBSET Products] /\ GoTo(r, label)
             /\ seenOrder' \in [Requests -> {row \in OrderRows : row.status # "CANCELED"}]
             /\ seenUses' \in [Requests -> Int]
  BY <1>l, <1>t DEF GoLock, TypeOK
<1>v. ASSUME NEW r \in Running, GoLock(r, "validate", ProductsOf(r)), UNCHANGED seenItems,
             req[r].op = "create" => seenItems[r] = {}, req[r].op \in {"create", "update"},
             IsFiniteSet(seenItems[r]), \A q \in seenItems[r] : pc[q] = "done"
      PROVE  TypeInv'
  <2> DEFINE label == "validate"
  <2>1. /\ label \in {"rate", "active", "items", "return", "validate", "promo", "commit"}
        /\ label \notin {"rate", "items", "return"} /\ label # "active"
        /\ ProductsOf(r) \in SUBSET Products
    BY DEF ProductsOf
  <2>2. GoLock(r, label, ProductsOf(r)) /\ seenItems' = seenItems /\ r \in Requests
    BY <1>v DEF Running
  <2>3. seenItems' \in [Requests -> SUBSET Requests]
    BY <1>t, <2>2 DEF TypeOK
  <2> HIDE DEF label
  <2>4. /\ want' \in [Requests -> SUBSET Products] /\ GoTo(r, label)
        /\ seenOrder' \in [Requests -> {row \in OrderRows : row.status # "CANCELED"}]
        /\ seenUses' \in [Requests -> Int]
    BY <1>l, <2>1, <2>2
  <2> QED
    BY <1>v, <2>1, <2>2, <2>3, <2>4, GoToKeepsTypes
<1>6. ASSUME NEW r \in Requests, CheckNoActiveOrder(r) PROVE TypeInv'
  <2>1. pc[r] = "active" /\ r \in Running /\ req[r].op = "create" /\ seenItems[r] = {} /\ IsFiniteSet({})
    BY <1>6, <1>t, FS_EmptySet DEF CheckNoActiveOrder, Running, Stage
  <2>2. CASE \E status \in {"409", "500"} : Reject(r, status)
    BY <1>j, <2>1, <2>2
  <2>3. CASE GoLock(r, "validate", ProductsOf(r)) /\ UNCHANGED seenItems
    BY <1>v, <2>1, <2>3
  <2> QED
    BY <1>6, <2>2, <2>3 DEF CheckNoActiveOrder
<1>7. ASSUME NEW r \in Requests, LoadItems(r) PROVE TypeInv'
  <2>1. /\ pc[r] = "items" /\ r \in Running /\ req[r].op \in {"update", "cancel"}
        /\ req[r].order \in Orders
    BY <1>7, <1>t DEF LoadItems, Running, Stage
  <2>2. /\ seenItems' = [seenItems EXCEPT ![r] = items[req[r].order]]
        /\ GoLock(r, "return", ProductsIn(items[req[r].order]))
    BY <1>7 DEF LoadItems
  <2>3. /\ items[req[r].order] \in SUBSET Requests /\ IsFiniteSet(items[req[r].order])
        /\ \A q \in items[req[r].order] : pc[q] = "done"
    BY <1>t, <2>1 DEF TypeOK, LinesDone
  <2>4. /\ seenItems'[r] = items[req[r].order] /\ seenItems' \in [Requests -> SUBSET Requests]
        /\ \A q \in Requests \ {r} : seenItems'[q] = seenItems[q]
    BY <1>t, <2>2, <2>3 DEF TypeOK
  <2> DEFINE label == "return"
             rows == ProductsIn(items[req[r].order])
  <2>5. /\ label \in {"rate", "active", "items", "return", "validate", "promo", "commit"}
        /\ label \notin {"rate", "active", "items", "validate"} /\ rows \in SUBSET Products
    BY DEF ProductsIn
  <2>6. GoLock(r, label, rows)
    BY <2>2
  <2> HIDE DEF label, rows
  <2>7. /\ want' \in [Requests -> SUBSET Products] /\ GoTo(r, label)
        /\ seenOrder' \in [Requests -> {row \in OrderRows : row.status # "CANCELED"}]
        /\ seenUses' \in [Requests -> Int]
    BY <1>l, <2>5, <2>6
  <2> QED
    BY <2>1, <2>3, <2>4, <2>5, <2>7, GoToKeepsTypes
<1>8. ASSUME NEW r \in Requests, NEW p \in Products, LockProduct(r, p) PROVE TypeInv'
  <2>1. TypeOK'
    BY <1>8, <1>t DEF LockProduct, TypeOK, tables
  <2> QED
    BY <1>8, <1>t, <2>1 DEF LockProduct, tables, TypeInv, Stage, LinesDone
<1>9. ASSUME NEW r \in Requests, ReturnStock(r) PROVE TypeInv'
  <2>1. /\ pc[r] = "return" /\ r \in Running /\ req[r].op \in {"update", "cancel"}
        /\ IsFiniteSet(seenItems[r]) /\ \A q \in seenItems[r] : pc[q] = "done"
    BY <1>9, <1>t DEF ReturnStock, Running, Stage
  <2>2. CASE req[r].op = "update" /\ GoLock(r, "validate", ProductsOf(r)) /\ UNCHANGED seenItems
    BY <1>v, <2>1, <2>2
  <2>3. CASE \E label \in {"promo", "commit"} : GoTo(r, label) /\ UNCHANGED session
    BY <1>s, <2>1, <2>3, GoToKeepsTypes
  <2> QED
    BY <1>9, <2>2, <2>3 DEF ReturnStock
<1>10. ASSUME NEW r \in Requests, ValidateProducts(r) PROVE TypeInv'
  <2>1. /\ pc[r] = "validate" /\ r \in Running
        /\ req[r].op = "create" => seenItems[r] = {}
        /\ IsFiniteSet(seenItems[r]) /\ \A q \in seenItems[r] : pc[q] = "done"
    BY <1>10, <1>t DEF ValidateProducts, Running, Stage
  <2>2. CASE Reject(r, "409")
    BY <1>j, <2>1, <2>2
  <2>3. CASE \E label \in {"promo", "commit"} : GoTo(r, label) /\ UNCHANGED session
    BY <1>s, <2>1, <2>3, GoToKeepsTypes
  <2> QED
    BY <1>10, <2>2, <2>3 DEF ValidateProducts
<1>11. ASSUME NEW r \in Requests, ReadPromo(r) PROVE TypeInv'
  <2>1. /\ pc[r] = "promo" /\ r \in Running
        /\ req[r].op = "create" => seenItems[r] = {}
        /\ IsFiniteSet(seenItems[r]) /\ \A q \in seenItems[r] : pc[q] = "done"
    BY <1>11, <1>t DEF ReadPromo, Running, Stage
  <2>2. CASE Reject(r, "422")
    BY <1>j, <2>1, <2>2
  <2>3. CASE /\ seenUses' = [seenUses EXCEPT ![r] = uses] /\ GoTo(r, "commit")
             /\ UNCHANGED <<want, seenOrder, seenItems>>
    BY <1>t, <2>1, <2>3, GoToKeepsTypes DEF TypeOK
  <2> QED
    BY <1>11, <2>2, <2>3 DEF ReadPromo
<1>12. ASSUME NEW r \in Requests, CommitCreate(r) \/ CommitUpdate(r) \/ CommitCancel(r)
       PROVE  TypeInv'
  BY <1>12, CommitKeepsTypes
<1>13. ASSUME NEW r \in Requests, Fail(r) PROVE TypeInv'
  BY <1>13, <1>j DEF Fail
<1>q. ASSUME TypeOK', UNCHANGED <<req, pc, items, seenItems>> PROVE TypeInv'
  BY <1>q, <1>t DEF TypeInv, Stage, LinesDone
<1>14. ASSUME NEW p \in Products, SetStatus(p) PROVE TypeInv'
  BY <1>14, <1>q, <1>t DEF SetStatus, TypeOK, session
<1>15. ASSUME NEW p \in Products, SetStock(p) PROVE TypeInv'
  <2>1. PICK n \in StockLevels : /\ stock' = [stock EXCEPT ![p] = n]
                                 /\ supply' = [supply EXCEPT ![p] = n + Held(p)]
    BY <1>15 DEF SetStock
  <2>2. n \in Int /\ Held(p) \in Int
    BY <2>1, HeldNat, OrderAssumption
  <2>3. TypeOK'
    BY <1>15, <1>t, <2>1, <2>2 DEF SetStock, TypeOK, session
  <2> QED
    BY <1>15, <1>q, <2>3 DEF SetStock, session
<1>16. ASSUME Expire PROVE TypeInv'
  BY <1>16, <1>q, <1>t DEF Expire, TypeOK, session
<1>17. CASE UNCHANGED vars
  BY <1>17, <1>q, <1>t DEF vars, TypeOK, tables, session
<1> QED
  BY <1>1, <1>2, <1>3, <1>4, <1>5, <1>6, <1>7, <1>8, <1>9, <1>10, <1>11, <1>12, <1>13, <1>14,
     <1>15, <1>16, <1>17 DEF Next

\* Every row, counter and answer stays what its column or its type allows, whichever
\* requests overlap.
THEOREM OrderTyped == Spec => []TypeOK
<1>1. TypeInv => TypeOK
  BY DEF TypeInv
<1> QED
  BY <1>1, InitTypeInv, NextTypeInv, PTL DEF Spec

-----------------------------------------------------------------------------
(* One request moves at a time                                             *)

\* The others keep their place, what they know and the rows they hold.
Moves(r) ==
    /\ \A q \in Requests \ {r} :
          /\ pc'[q] = pc[q] /\ req'[q] = req[q] /\ want'[q] = want[q]
          /\ seenOrder'[q] = seenOrder[q] /\ seenItems'[q] = seenItems[q]
          /\ seenUses'[q] = seenUses[q]
          /\ \A p \in Products : lock[p] = q => lock'[p] = q
    /\ pc[r] # "done" /\ (pc[r] # "new" => req'[r] = req[r])

LEMMA EndMoves ==
    ASSUME TypeOK, NEW r \in Running, NEW status, End(r, status)
    PROVE  Moves(r) /\ pc'[r] = "done"
<1>1. \A p \in Products : lock[p] # r => lock'[p] = lock[p]
  BY DEF End, TypeOK
<1>2. /\ pc' = [pc EXCEPT ![r] = "done"] /\ req' = req /\ want' = [want EXCEPT ![r] = {}]
      /\ seenOrder' = [seenOrder EXCEPT ![r] = NoOrder]
      /\ seenItems' = [seenItems EXCEPT ![r] = {}] /\ seenUses' = [seenUses EXCEPT ![r] = -1]
  BY DEF End
<1> QED
  BY <1>1, <1>2 DEF Moves, Running, TypeOK

LEMMA GoToMoves ==
    ASSUME TypeOK, NEW r \in Running, NEW label, GoTo(r, label),
           \A q \in Requests \ {r} :
              /\ want'[q] = want[q] /\ seenOrder'[q] = seenOrder[q]
              /\ seenItems'[q] = seenItems[q] /\ seenUses'[q] = seenUses[q]
    PROVE  Moves(r) /\ pc'[r] = label /\ UNCHANGED <<stock, order, items, uses>>
<1>1. /\ pc' = [pc EXCEPT ![r] = label] /\ req' = req /\ lock' = lock
      /\ UNCHANGED <<stock, order, items, uses>>
  BY DEF GoTo, tables
<1> QED
  BY <1>1 DEF Moves, Running, TypeOK

LEMMA StartMoves ==
    ASSUME TypeOK, NEW r \in Requests, NEW rec, NEW label, Start(r, rec, label)
    PROVE  /\ Moves(r) /\ pc[r] = "new" /\ pc'[r] = label /\ req'[r] = rec
           /\ UNCHANGED <<stock, order, items, uses, session>>
<1>1. /\ pc[r] = "new" /\ pc' = [pc EXCEPT ![r] = label] /\ req' = [req EXCEPT ![r] = rec]
      /\ UNCHANGED <<stock, order, items, uses, session, lock>>
  BY DEF Start, tables
<1>2. UNCHANGED <<want, seenOrder, seenItems, seenUses, lock>>
  BY <1>1 DEF session
<1> QED
  BY <1>1, <1>2 DEF Moves, TypeOK

LEMMA RequestMoves ==
    ASSUME TypeInv, OrderInv, NEW r \in Requests, Step(r) \/ Fail(r)
    PROVE  Moves(r) /\ r \in Running
<1>t. TypeOK
  BY DEF TypeInv
<1>r. r \in Running
  <2>1. ASSUME NEW p \in Products, LockProduct(r, p) PROVE pc[r] \in {"return", "validate"}
    BY <2>1 DEF LockProduct, OrderInv, LocksHeld
  <2>2. CASE \E p \in Products : LockProduct(r, p)
    BY <2>1, <2>2 DEF Running
  <2>3. CASE ReadOrder(r) \/ CheckRateLimit(r) \/ CheckNoActiveOrder(r) \/ LoadItems(r)
    BY <2>3 DEF Running, ReadOrder, CheckRateLimit, CheckNoActiveOrder, LoadItems
  <2>4. CASE ReturnStock(r) \/ ValidateProducts(r) \/ ReadPromo(r)
    BY <2>4 DEF Running, ReturnStock, ValidateProducts, ReadPromo
  <2>5. CASE CommitCreate(r) \/ CommitUpdate(r) \/ CommitCancel(r)
    BY <2>5 DEF Running, CommitCreate, CommitUpdate, CommitCancel
  <2> QED
    BY <2>2, <2>3, <2>4, <2>5 DEF Step, Fail
<1>e. ASSUME NEW status, Reject(r, status) \/ End(r, status) PROVE Moves(r)
  BY <1>t, <1>r, <1>e, EndMoves DEF Reject
<1>g. ASSUME NEW label, GoTo(r, label),
             \A q \in Requests \ {r} :
                /\ want'[q] = want[q] /\ seenOrder'[q] = seenOrder[q]
                /\ seenItems'[q] = seenItems[q] /\ seenUses'[q] = seenUses[q]
      PROVE  Moves(r)
  BY <1>t, <1>r, <1>g, GoToMoves
<1>l. ASSUME NEW label, NEW rows, GoLock(r, label, rows),
             \A q \in Requests \ {r} : seenItems'[q] = seenItems[q]
      PROVE  Moves(r)
  BY <1>t, <1>l, <1>g DEF GoLock, TypeOK
<1>s. ASSUME NEW label, GoTo(r, label), UNCHANGED session PROVE Moves(r)
  BY <1>s, <1>g DEF session
<1>1. ASSUME ReadOrder(r) PROVE Moves(r)
  BY <1>t, <1>e, <1>g, <1>1 DEF ReadOrder, TypeOK
<1>2. ASSUME CheckRateLimit(r) PROVE Moves(r)
  BY <1>e, <1>s, <1>2 DEF CheckRateLimit
<1>3. ASSUME CheckNoActiveOrder(r) PROVE Moves(r)
  BY <1>e, <1>l, <1>3 DEF CheckNoActiveOrder
<1>4. ASSUME LoadItems(r) PROVE Moves(r)
  BY <1>t, <1>l, <1>4 DEF LoadItems, TypeOK
<1>5. ASSUME NEW p \in Products, LockProduct(r, p) PROVE Moves(r)
  <2>1. /\ lock[p] = NoOne /\ lock' = [lock EXCEPT ![p] = r]
        /\ want' = [want EXCEPT ![r] = @ \ {p}]
        /\ UNCHANGED <<req, pc, seenOrder, seenItems, seenUses>>
    BY <1>5 DEF LockProduct, RowFree
  <2> QED
    BY <1>t, <1>r, <2>1, OrderAssumption DEF Moves, TypeOK, Running
<1>6. ASSUME ReturnStock(r) PROVE Moves(r)
  BY <1>l, <1>s, <1>6 DEF ReturnStock
<1>7. ASSUME ValidateProducts(r) PROVE Moves(r)
  BY <1>e, <1>s, <1>7 DEF ValidateProducts
<1>8. ASSUME ReadPromo(r) PROVE Moves(r)
  BY <1>t, <1>e, <1>g, <1>8 DEF ReadPromo, TypeOK
<1>9. ASSUME CommitCreate(r) \/ CommitUpdate(r) \/ CommitCancel(r) PROVE Moves(r)
  BY <1>e, <1>9 DEF CommitCreate, CommitUpdate, CommitCancel
<1>10. ASSUME Fail(r) PROVE Moves(r)
  BY <1>e, <1>10 DEF Fail
<1> QED
  BY <1>r, <1>1, <1>2, <1>3, <1>4, <1>5, <1>6, <1>7, <1>8, <1>9, <1>10 DEF Step

\* What is done stays done.
LEMMA DoneStays ==
    ASSUME NEW r \in Requests, Moves(r), NEW q \in Requests, pc[q] = "done"
    PROVE  q # r /\ pc'[q] = "done" /\ req'[q] = req[q]
BY DEF Moves

\* The quantity of requests that are done.
LEMMA QuantityStays ==
    ASSUME TypeOK, NEW B \in SUBSET Requests, IsFiniteSet(B), NEW p \in Products,
           \A q \in B : req'[q] = req[q]
    PROVE  SumFunctionOnSet(Totals(p)', B) = Quantity(B, p)
<1>1. \A q \in B : Totals(p)[q] \in Nat
  BY BasketFits DEF Totals
<1>2. \A q \in B : Totals(p)'[q] = Totals(p)[q]
  BY DEF Totals
<1> DEFINE f == Totals(p)
           g == Totals(p)'
<1>3. \A q \in B : f[q] \in Nat /\ g[q] = f[q]
  BY <1>1, <1>2
<1> HIDE DEF f, g
<1>4. SumFunctionOnSet(g, B) = SumFunctionOnSet(f, B)
  BY <1>3, SumSame
<1> QED
  BY <1>4 DEF f, g, Quantity

-----------------------------------------------------------------------------
(* The stock                                                               *)

\* _return_stock: the rows of the old lines are locked from there to the commit.
HoldsReturns(r) ==
    \A p \in Products : Returned(r, p) > 0 =>
        /\ pc[r] = "return" => p \in want[r] \/ lock[p] = r
        /\ pc[r] \in {"validate", "promo", "commit"} => lock[p] = r

\* What a request found in stock is still there, to the last piece.
HoldsChecks(r) ==
    pc[r] \in {"promo", "commit"} /\ req[r].op # "cancel" =>
        \A p \in ProductsOf(r) : req[r].basket.largest[p] <= stock[p] + Returned(r, p)

StockInv == StockNotNegative /\ \A r \in Requests : HoldsReturns(r) /\ HoldsChecks(r)

\* A request that does not move keeps what it holds if its rows do not change.
LEMMA OthersHold ==
    ASSUME TypeInv, OrderInv, NEW q \in Requests, HoldsReturns(q), HoldsChecks(q),
           pc'[q] = pc[q], req'[q] = req[q], want'[q] = want[q], seenItems'[q] = seenItems[q],
           \A x \in Requests : pc[x] = "done" => req'[x] = req[x],
           \A p \in Products : lock[p] = q => lock'[p] = q /\ stock'[p] = stock[p]
    PROVE  HoldsReturns(q)' /\ HoldsChecks(q)'
<1>1. ASSUME NEW p \in Products PROVE Returned(q, p)' = Returned(q, p)
  <2>1. /\ seenItems[q] \in SUBSET Requests /\ IsFiniteSet(seenItems[q])
        /\ \A x \in seenItems[q] : req'[x] = req[x]
    BY DEF TypeInv, TypeOK, Stage
  <2>2. SumFunctionOnSet(Totals(p)', seenItems[q]) = Quantity(seenItems[q], p)
    BY <2>1, QuantityStays DEF TypeInv
  <2> QED
    BY <2>2 DEF Returned, Quantity
<1>2. HoldsReturns(q)'
  BY <1>1 DEF HoldsReturns
<1>3. ProductsOf(q)' = ProductsOf(q)
  BY DEF ProductsOf
<1>4. pc[q] \in {"promo", "commit"} /\ req[q].op # "cancel" =>
         \A p \in ProductsOf(q) : lock[p] = q
  BY DEF OrderInv, LocksHeld
<1>5. ProductsOf(q) \subseteq Products
  BY DEF ProductsOf
<1>6. HoldsChecks(q)'
  BY <1>1, <1>3, <1>4, <1>5 DEF HoldsChecks
<1> QED
  BY <1>2, <1>6

\* A request that has nothing to give back.
LEMMA NothingReturned ==
    ASSUME NEW r \in Requests, NEW p, seenItems[r] = {}
    PROVE  Returned(r, p) = 0
BY SumEmpty DEF Returned, Quantity

\* A commit changes only rows that its request has locked, and takes no more than is there.
LEMMA CommitTakesWhatIsThere ==
    ASSUME TypeInv, OrderInv, StockInv, NEW r \in Requests,
           pc[r] = "commit", stock' = NewStock(r),
           \A b \in Baskets, p \in Products : b.largest[p] = b.total[p]
    PROVE  \A p \in Products : stock'[p] >= 0 /\ (lock[p] # r => stock'[p] = stock[p])
<1> SUFFICES ASSUME NEW p \in Products
    PROVE  stock'[p] >= 0 /\ (lock[p] # r => stock'[p] = stock[p])
  OBVIOUS
<1>1. /\ stock[p] \in Int /\ Returned(r, p) \in Nat /\ Taken(r, p) \in Nat
      /\ stock'[p] = stock[p] + Returned(r, p) - Taken(r, p)
  BY StockFits
<1>2. stock[p] >= 0 /\ (Returned(r, p) > 0 => lock[p] = r)
  BY DEF StockInv, StockNotNegative, HoldsReturns
<1>3. CASE Taken(r, p) = 0
  BY <1>1, <1>2, <1>3
<1>4. CASE Taken(r, p) > 0
  <2>1. req[r].op # "cancel" /\ Taken(r, p) = req[r].basket.total[p] /\ p \in ProductsOf(r)
    BY <1>4 DEF Taken, ProductsOf
  <2>2. lock[p] = r /\ req[r].basket.largest[p] <= stock[p] + Returned(r, p)
    BY <2>1 DEF OrderInv, LocksHeld, StockInv, HoldsChecks
  <2>3. req[r].basket.largest[p] = req[r].basket.total[p]
    BY DEF TypeInv, TypeOK, NoBasket
  <2> QED
    BY <1>1, <2>1, <2>2, <2>3
<1> QED
  BY <1>1, <1>3, <1>4

LEMMA NextStockInv ==
    ASSUME TypeInv, OrderInv, StockInv, [Next]_vars,
           \A b \in Baskets, p \in Products : b.largest[p] = b.total[p]
    PROVE  StockInv'
<1>t. TypeOK /\ LinesDone /\ \A r \in Requests : Stage(r)
  BY DEF TypeInv
<1>i. StockNotNegative /\ \A r \in Requests : HoldsReturns(r) /\ HoldsChecks(r)
  BY DEF StockInv
<1>m. ASSUME NEW r \in Requests, Moves(r), HoldsReturns(r)', HoldsChecks(r)',
             \A p \in Products : stock'[p] >= 0 /\ (lock[p] # r => stock'[p] = stock[p])
      PROVE  StockInv'
  <2>1. \A x \in Requests : pc[x] = "done" => req'[x] = req[x]
    BY <1>m, DoneStays
  <2>2. ASSUME NEW q \in Requests \ {r} PROVE HoldsReturns(q)' /\ HoldsChecks(q)'
    <3>1. /\ pc'[q] = pc[q] /\ req'[q] = req[q] /\ want'[q] = want[q]
          /\ seenItems'[q] = seenItems[q]
          /\ \A p \in Products : lock[p] = q => lock'[p] = q /\ stock'[p] = stock[p]
      BY <1>m DEF Moves
    <3> QED
      BY <1>i, <2>1, <3>1, OthersHold
  <2> QED
    BY <1>m, <2>2 DEF StockInv, StockNotNegative
\* What r does before and after it has checked its rows, and its end.
<1>f. ASSUME NEW r \in Requests, Moves(r), UNCHANGED stock,
             pc'[r] \in {"read", "rate", "active", "items", "done"}
      PROVE  StockInv'
  <2>1. HoldsReturns(r)' /\ HoldsChecks(r)'
    BY <1>f DEF HoldsReturns, HoldsChecks
  <2> QED
    BY <1>f, <1>i, <1>m, <2>1 DEF StockNotNegative
<1>e. ASSUME NEW r \in Running, NEW status, Reject(r, status) PROVE StockInv'
  BY <1>e, <1>f, <1>t, EndMoves DEF Reject, tables, Running
\* It goes on with the same lines.
<1>g. ASSUME NEW r \in Requests, Moves(r), UNCHANGED stock, req'[r] = req[r],
             UNCHANGED req, seenItems'[r] = seenItems[r],
             \A p \in Products : Returned(r, p) > 0 =>
                /\ pc'[r] = "return" => p \in want'[r] \/ lock'[p] = r
                /\ pc'[r] \in {"validate", "promo", "commit"} => lock'[p] = r,
             pc'[r] \in {"promo", "commit"} /\ req[r].op # "cancel" =>
                \A p \in ProductsOf(r) : req[r].basket.largest[p] <= stock[p] + Returned(r, p)
      PROVE  StockInv'
  <2>1. \A p : Returned(r, p)' = Returned(r, p)
    BY <1>g DEF Returned, Quantity, Totals
  <2>2. ProductsOf(r)' = ProductsOf(r)
    BY <1>g DEF ProductsOf
  <2>3. HoldsReturns(r)' /\ HoldsChecks(r)'
    BY <1>g, <2>1, <2>2 DEF HoldsReturns, HoldsChecks
  <2> QED
    BY <1>g, <1>i, <1>m, <2>3 DEF StockNotNegative
<1>1. ASSUME NEW r \in Requests, NEW rec, NEW label \in {"rate", "read"}, Start(r, rec, label)
      PROVE  StockInv'
  BY <1>1, <1>f, <1>t, StartMoves
<1>2. ASSUME NEW r \in Requests, Step(r) \/ Fail(r) PROVE Moves(r) /\ r \in Running
  BY <1>2, RequestMoves
<1>3. ASSUME NEW r \in Requests, ReadOrder(r) PROVE StockInv'
  <2>1. Moves(r) /\ r \in Running
    BY <1>2, <1>3 DEF Step
  <2>2. CASE \E status : Reject(r, status)
    BY <1>e, <2>1, <2>2
  <2>3. CASE \E label \in {"rate", "items"} : GoTo(r, label)
    BY <1>f, <1>t, <2>1, <2>3 DEF GoTo, tables, TypeOK
  <2> QED
    BY <1>3, <2>2, <2>3 DEF ReadOrder
<1>4. ASSUME NEW r \in Requests, CheckRateLimit(r) PROVE StockInv'
  <2>1. Moves(r) /\ r \in Running
    BY <1>2, <1>4 DEF Step
  <2>2. CASE \E status : Reject(r, status)
    BY <1>e, <2>1, <2>2
  <2>3. CASE \E label \in {"active", "items"} : GoTo(r, label)
    BY <1>f, <1>t, <2>1, <2>3 DEF GoTo, tables, TypeOK
  <2> QED
    BY <1>4, <2>2, <2>3 DEF CheckRateLimit
<1>5. ASSUME NEW r \in Requests, CheckNoActiveOrder(r) PROVE StockInv'
  <2>1. Moves(r) /\ r \in Running /\ pc[r] = "active" /\ \A p : Returned(r, p) = 0
    BY <1>2, <1>5, <1>t, NothingReturned DEF Step, CheckNoActiveOrder, Stage
  <2>2. CASE \E status : Reject(r, status)
    BY <1>e, <2>1, <2>2
  <2>3. CASE GoTo(r, "validate") /\ UNCHANGED seenItems
    <3>1. pc'[r] = "validate" /\ UNCHANGED <<stock, req, seenItems>>
      BY <1>t, <2>3 DEF GoTo, tables, TypeOK
    <3> QED
      BY <1>g, <2>1, <3>1
  <2> QED
    BY <1>5, <2>2, <2>3 DEF CheckNoActiveOrder, GoLock
<1>6. ASSUME NEW r \in Requests, LoadItems(r) PROVE StockInv'
  <2>1. Moves(r) /\ r \in Running
    BY <1>2, <1>6 DEF Step
  <2>2. /\ seenItems'[r] = items[req[r].order] /\ pc'[r] = "return"
        /\ want'[r] = {p \in ProductsIn(items[req[r].order]) : lock[p] # r}
        /\ UNCHANGED <<stock, req, lock>>
    BY <1>6, <1>t DEF LoadItems, GoLock, GoTo, tables, TypeOK
  <2>3. \A p : Returned(r, p)' = Quantity(items[req[r].order], p)
    BY <2>2 DEF Returned, Quantity, Totals
  <2>4. HoldsReturns(r)' /\ HoldsChecks(r)'
    BY <2>2, <2>3 DEF HoldsReturns, HoldsChecks, ProductsIn
  <2> QED
    BY <1>i, <1>m, <2>1, <2>2, <2>4 DEF StockNotNegative
<1>7. ASSUME NEW r \in Requests, NEW p \in Products, LockProduct(r, p) PROVE StockInv'
  <2>1. Moves(r) /\ r \in Running
    BY <1>2, <1>7 DEF Step
  <2>2. /\ UNCHANGED <<stock, req, seenItems, pc>> /\ want'[r] = want[r] \ {p}
        /\ lock'[p] = r /\ \A x \in Products \ {p} : lock'[x] = lock[x]
    BY <1>7, <1>t DEF LockProduct, tables, TypeOK
  <2> QED
    BY <1>i, <1>g, <2>1, <2>2 DEF HoldsReturns, HoldsChecks
<1>8. ASSUME NEW r \in Requests, ReturnStock(r) PROVE StockInv'
  <2>1. Moves(r) /\ r \in Running /\ pc[r] = "return" /\ want[r] = {}
    BY <1>2, <1>8 DEF Step, ReturnStock
  <2>2. /\ UNCHANGED <<stock, req, seenItems, lock>> /\ pc'[r] \in {"validate", "promo", "commit"}
        /\ pc'[r] \in {"promo", "commit"} => req[r].op = "cancel"
    BY <1>8, <1>t DEF ReturnStock, GoLock, GoTo, tables, session, TypeOK
  <2>3. \A p \in Products : Returned(r, p) > 0 => lock[p] = r
    BY <1>i, <2>1 DEF HoldsReturns
  <2> QED
    BY <1>g, <2>1, <2>2, <2>3
<1>9. ASSUME NEW r \in Requests, ValidateProducts(r) PROVE StockInv'
  <2>1. Moves(r) /\ r \in Running /\ pc[r] = "validate"
    BY <1>2, <1>9 DEF Step, ValidateProducts
  <2>2. CASE Reject(r, "409")
    BY <1>e, <2>1, <2>2
  <2>3. CASE Acceptable(r) /\ UNCHANGED session /\ \E label \in {"promo", "commit"} : GoTo(r, label)
    <3>1. UNCHANGED <<stock, req, seenItems, lock>> /\ pc'[r] \in {"promo", "commit"}
      BY <1>t, <2>3 DEF GoTo, tables, session, TypeOK
    <3>2. \A p \in Products : Returned(r, p) > 0 => lock[p] = r
      BY <1>i, <2>1 DEF HoldsReturns
    <3> QED
      BY <1>g, <2>1, <2>3, <3>1, <3>2 DEF Acceptable
  <2> QED
    BY <1>9, <2>2, <2>3 DEF ValidateProducts
<1>10. ASSUME NEW r \in Requests, ReadPromo(r) PROVE StockInv'
  <2>1. Moves(r) /\ r \in Running /\ pc[r] = "promo"
    BY <1>2, <1>10 DEF Step, ReadPromo
  <2>2. CASE Reject(r, "422")
    BY <1>e, <2>1, <2>2
  <2>3. CASE GoTo(r, "commit") /\ UNCHANGED seenItems
    <3>1. UNCHANGED <<stock, req, seenItems, lock>> /\ pc'[r] = "commit"
      BY <1>t, <2>3 DEF GoTo, tables, TypeOK
    <3> QED
      BY <1>g, <1>i, <2>1, <3>1 DEF HoldsReturns, HoldsChecks
  <2> QED
    BY <1>10, <2>2, <2>3 DEF ReadPromo
<1>11. ASSUME NEW r \in Requests, CommitCreate(r) \/ CommitUpdate(r) \/ CommitCancel(r)
       PROVE  StockInv'
  <2>1. Moves(r) /\ r \in Running /\ pc[r] = "commit" /\ stock' = NewStock(r)
    BY <1>2, <1>11 DEF Step, CommitCreate, CommitUpdate, CommitCancel
  <2>2. pc'[r] = "done"
    BY <1>11, <1>t, <2>1 DEF CommitCreate, CommitUpdate, CommitCancel, End, TypeOK
  <2>3. HoldsReturns(r)' /\ HoldsChecks(r)'
    BY <2>2 DEF HoldsReturns, HoldsChecks
  <2> QED
    BY <1>m, <2>1, <2>3, CommitTakesWhatIsThere
<1>12. ASSUME NEW r \in Requests, Fail(r) PROVE StockInv'
  BY <1>12, <1>e DEF Fail
\* The seller's steps write rows that nobody has locked.
<1>s. ASSUME UNCHANGED <<session, lock, req, pc>>, \A p \in Products : stock'[p] >= 0,
             \A p \in Products : lock[p] # NoOne => stock'[p] = stock[p]
      PROVE  StockInv'
  <2>1. \A q \in Requests : HoldsReturns(q)' /\ HoldsChecks(q)'
    BY <1>i, <1>s, OthersHold, OrderAssumption DEF session
  <2> QED
    BY <1>s, <2>1 DEF StockInv, StockNotNegative
<1>13. ASSUME NEW p \in Products, SetStock(p) PROVE StockInv'
  <2>1. PICK n \in StockLevels : stock' = [stock EXCEPT ![p] = n]
    BY <1>13 DEF SetStock
  <2>2. n \in Nat /\ lock[p] = NoOne /\ stock'[p] = n
        /\ \A x \in Products \ {p} : stock'[x] = stock[x]
    BY <1>13, <1>t, <2>1, OrderAssumption DEF SetStock, RowWritable, TypeOK
  <2>3. \A x \in Products : stock'[x] >= 0
    BY <1>i, <2>2 DEF StockNotNegative
  <2> QED
    BY <1>13, <1>s, <2>2, <2>3 DEF SetStock
<1>14. ASSUME UNCHANGED <<stock, session, lock, req, pc>> PROVE StockInv'
  BY <1>14, <1>i, <1>s DEF StockNotNegative
<1>15. ASSUME (\E p \in Products : SetStatus(p)) \/ Expire \/ UNCHANGED vars PROVE StockInv'
  BY <1>14, <1>15 DEF SetStatus, Expire, vars, tables
<1> QED
  BY <1>1, <1>3, <1>4, <1>5, <1>6, <1>7, <1>8, <1>9, <1>10, <1>11, <1>12, <1>13, <1>15
     DEF Next, StartCreate, StartUpdate, StartCancel

\* openapi/spec.yaml: stock has minimum 0.  The rows that a request has checked stay locked to
\* its commit, so requests that overlap in any way never take the same units, provided that
\* no item list names a product twice (_load_and_validate_products checks each item alone).
THEOREM StockStaysCovered ==
    ASSUME \A b \in Baskets, p \in Products : b.largest[p] = b.total[p]
    PROVE  Spec => []StockNotNegative
<1>1. Init => StockInv
  <2> SUFFICES ASSUME Init PROVE StockInv
    OBVIOUS
  <2>1. StockNotNegative
    BY OrderAssumption DEF Init, StockNotNegative
  <2>2. \A r \in Requests : HoldsReturns(r) /\ HoldsChecks(r)
    BY DEF Init, HoldsReturns, HoldsChecks
  <2> QED
    BY <2>1, <2>2 DEF StockInv
<1>2. TypeInv /\ OrderInv /\ StockInv /\ [Next]_vars => StockInv'
  BY NextStockInv
<1>3. StockInv => StockNotNegative
  BY DEF StockInv
<1> QED
  BY <1>1, <1>2, <1>3, InitTypeInv, NextTypeInv, InitOrderInv, NextOrderInv, PTL DEF Spec

-----------------------------------------------------------------------------
(* Requests that are apart                                                 *)

\* No two requests have the same order, promo code or, as creates, user.
Alone ==
    \A q, r \in Running : q # r =>
        /\ Subject(req[q]) # Subject(req[r])
        /\ ~(Discounted(req[q]) /\ Discounted(req[r]))

\* What a request has read of its order is still so.
Fresh(r) ==
    r \in Running /\ req[r].op # "create" /\ pc[r] # "read" =>
        /\ seenOrder[r] = order[req[r].order] /\ Live(req[r].order)
        /\ pc[r] \in {"return", "validate", "promo", "commit"} =>
              seenItems[r] = items[req[r].order]

ApartInv == Alone /\ \A r \in Requests : Fresh(r)

\* What each commit writes of its order.
LEMMA CreateWrites ==
    ASSUME TypeInv, NEW r \in Requests, CommitCreate(r)
    PROVE  \E o \in Orders :
              /\ order[o] = NoOrder /\ ~Live(o) /\ Live(o)'
              /\ order'[o].promo = req[r].promo
              /\ items'[o] = {r} /\ seenItems[r] = {}
              /\ \A x \in Orders \ {o} : order'[x] = order[x] /\ items'[x] = items[x]
<1>1. PICK o \in Orders :
         /\ order[o] = NoOrder
         /\ order' = [order EXCEPT ![o] = [owner |-> req[r].user, status |-> "CREATED",
                                           promo |-> req[r].promo]]
         /\ items' = [items EXCEPT ![o] = {r}]
  BY DEF CommitCreate
<1>2. seenItems[r] = {}
  BY DEF CommitCreate, TypeInv, Stage
<1>3. /\ order'[o].status = "CREATED" /\ order'[o].promo = req[r].promo /\ items'[o] = {r}
      /\ \A x \in Orders \ {o} : order'[x] = order[x] /\ items'[x] = items[x]
  BY <1>1 DEF TypeInv, TypeOK
<1>4. ~Live(o) /\ Live(o)'
  BY <1>1, <1>3 DEF Live, NoOrder
<1> QED
  BY <1>1, <1>2, <1>3, <1>4

LEMMA UpdateWrites ==
    ASSUME TypeInv, ApartInv, NEW r \in Running, CommitUpdate(r), NEW o, o = req[r].order
    PROVE  /\ o \in Orders /\ Live(o) /\ Live(o)'
           /\ seenOrder[r] = order[o] /\ seenItems[r] = items[o] /\ items'[o] = {r}
           /\ order'[o].promo = (order[o].promo /\ ~DropsPromo(r))
           /\ \A x \in Orders \ {o} : order'[x] = order[x] /\ items'[x] = items[x]
<1>1. pc[r] = "commit" /\ req[r].op = "update" /\ r \in Requests
  BY DEF CommitUpdate, Running
<1>2. o \in Orders
  BY <1>1 DEF TypeInv, Stage
<1>3. seenOrder[r] = order[o] /\ Live(o) /\ seenItems[r] = items[o]
  BY <1>1 DEF ApartInv, Fresh
<1> DEFINE new == UpdatedRow(r, order[o])
<1>4. order' = [order EXCEPT ![o] = new] /\ items' = [items EXCEPT ![o] = (@ \ seenItems[r]) \cup {r}]
  BY DEF CommitUpdate
<1>5. new.status = order[o].status /\ new.promo = (order[o].promo /\ ~DropsPromo(r))
  BY <1>2, UpdatedFits DEF TypeInv, TypeOK
<1> HIDE DEF new
<1>6. order'[o] = new /\ items'[o] = {r}
  BY <1>2, <1>3, <1>4 DEF TypeInv, TypeOK
<1>7. \A x \in Orders \ {o} : order'[x] = order[x] /\ items'[x] = items[x]
  BY <1>4 DEF TypeInv, TypeOK
<1>8. Live(o)'
  BY <1>3, <1>5, <1>6 DEF Live
<1> QED
  BY <1>2, <1>3, <1>5, <1>6, <1>7, <1>8

LEMMA CancelWrites ==
    ASSUME TypeInv, ApartInv, NEW r \in Running, CommitCancel(r), NEW o, o = req[r].order
    PROVE  /\ o \in Orders /\ Live(o) /\ ~Live(o)' /\ order'[o].promo = order[o].promo
           /\ seenOrder[r] = order[o] /\ seenItems[r] = items[o] /\ items' = items
           /\ \A x \in Orders \ {o} : order'[x] = order[x]
<1>1. pc[r] = "commit" /\ req[r].op = "cancel" /\ r \in Requests
  BY DEF CommitCancel, Running
<1>2. o \in Orders
  BY <1>1 DEF TypeInv, Stage
<1>3. seenOrder[r] = order[o] /\ Live(o) /\ seenItems[r] = items[o]
  BY <1>1 DEF ApartInv, Fresh
<1> QED
  BY <1>2, <1>3 DEF CommitCancel, TypeInv, TypeOK, OrderRows, Live

\* A request that is under way and not a create has an order, and no other request has it.
LEMMA OwnOrder ==
    ASSUME TypeInv, Alone, NEW r \in Running, req[r].op # "create"
    PROVE  /\ req[r].order \in Orders
           /\ \A q \in Running \ {r} : req[q].op # "create" => req[q].order # req[r].order
BY DEF Running, TypeInv, Stage, Alone, Subject

\* The others are still apart when one request moves, if it brings them no promo code.
LEMMA MoveKeepsApart ==
    ASSUME TypeInv, ApartInv, NEW r \in Running, Moves(r), Fresh(r)',
           pc'[r] # "done" /\ Discounted(req[r])' => Discounted(req[r]),
           \A q \in Running \ {r} : Discounted(req[q])' => Discounted(req[q]),
           \A q \in Running \ {r} : req[q].op # "create" /\ pc[q] # "read" =>
              order'[req[q].order] = order[req[q].order] /\ items'[req[q].order] = items[req[q].order]
    PROVE  ApartInv'
<1>1. /\ Running' \subseteq Running /\ r \in Requests /\ req'[r] = req[r]
      /\ \A q \in Requests \ {r} : req'[q] = req[q] /\ pc'[q] = pc[q]
  BY DEF Moves, Running
<1>2. \A q \in Running' : Discounted(req[q])' => Discounted(req[q])
  BY <1>1 DEF Running
<1>3. \A q \in Running' : req'[q] = req[q]
  BY <1>1 DEF Running
<1>4. Alone'
  BY <1>1, <1>2, <1>3 DEF ApartInv, Alone, Subject
<1>5. ASSUME NEW q \in Requests \ {r} PROVE Fresh(q)'
  BY <1>1, <1>5 DEF ApartInv, Fresh, Moves, Running, Live
<1> QED
  BY <1>4, <1>5 DEF ApartInv

\* A create with a promo code may bring it to an update that waits to read the new order;
\* but it is the only one that had it, and it ends.
LEMMA CreateKeepsApart ==
    ASSUME TypeInv, ApartInv, NEW r \in Running, Moves(r), CommitCreate(r)
    PROVE  ApartInv'
<1>1. PICK o \in Orders :
         /\ order[o] = NoOrder /\ ~Live(o) /\ Live(o)' /\ order'[o].promo = req[r].promo
         /\ \A x \in Orders \ {o} : order'[x] = order[x] /\ items'[x] = items[x]
  BY CreateWrites DEF Running
<1>2. /\ r \in Requests /\ req[r].op = "create" /\ pc'[r] = "done"
      /\ \A q \in Requests \ {r} : req'[q] = req[q] /\ pc'[q] = pc[q]
  BY DEF Moves, Running, CommitCreate, End, TypeInv, TypeOK
<1>3. \A q \in Requests \ {r} : Fresh(q)'
  <2> SUFFICES ASSUME NEW q \in Requests \ {r}, q \in Running, req[q].op # "create", pc[q] # "read"
      PROVE  Fresh(q)'
    BY <1>2 DEF Fresh, Running
  <2>1. seenOrder[q] = order[req[q].order] /\ Live(req[q].order) /\ req[q].order \in Orders
    BY OwnOrder DEF ApartInv, Fresh
  <2>2. req[q].order # o
    BY <1>1, <2>1
  <2> QED
    BY <1>1, <1>2, <2>1, <2>2 DEF ApartInv, Fresh, Moves, Running, Live
<1>4. Fresh(r)'
  BY <1>2 DEF Fresh, Running
<1>5. ASSUME NEW q \in Running \ {r}, Discounted(req[q])', ~Discounted(req[q])
      PROVE  req[q].op # "create" /\ req[q].order = o /\ req[r].promo
  <2>1. PICK x \in Orders : req[q].order = x /\ order'[x].promo /\ ~order[x].promo
    BY <1>2, <1>5 DEF Discounted, Running
  <2>2. x = o
    BY <1>1, <2>1
  <2>3. req[q].op # "create"
    BY <2>1, OrderAssumption DEF TypeInv, Stage, Running
  <2> QED
    BY <1>1, <2>1, <2>2, <2>3
<1>6. ASSUME NEW p \in Running', NEW q \in Running', p # q
      PROVE  Subject(req[p]) # Subject(req[q]) /\ ~(Discounted(req[p])' /\ Discounted(req[q])')
  <2>1. p \in Running \ {r} /\ q \in Running \ {r}
    BY <1>2 DEF Running
  <2>2. Subject(req[p]) # Subject(req[q]) /\ ~(Discounted(req[p]) /\ Discounted(req[q]))
    BY <1>6, <2>1 DEF ApartInv, Alone
  <2>3. req[r].promo => ~Discounted(req[p]) /\ ~Discounted(req[q])
    BY <2>1 DEF ApartInv, Alone, Discounted
  <2>4. ASSUME ~Discounted(req[p]), ~Discounted(req[q]), Discounted(req[p])', Discounted(req[q])'
        PROVE  FALSE
    BY <1>5, <2>1, <2>2, <2>4 DEF Subject
  <2> QED
    BY <1>5, <2>1, <2>2, <2>3, <2>4
<1>7. Alone'
  BY <1>2, <1>6 DEF Alone, Running
<1> QED
  BY <1>3, <1>4, <1>7 DEF ApartInv

LEMMA StartKeepsApart ==
    ASSUME TypeInv, ApartInv, Overlap = "apart", NEW r \in Requests, NEW rec,
           NEW label \in {"rate", "read"}, Start(r, rec, label),
           rec.op # "create" => label = "read"
    PROVE  ApartInv'
<1>1. /\ Moves(r) /\ pc[r] = "new" /\ pc'[r] = label /\ req'[r] = rec /\ UNCHANGED <<order, items>>
      /\ \A q \in Running : /\ Subject(req[q]) # Subject(rec)
                            /\ ~(Discounted(req[q]) /\ Discounted(rec))
  BY StartMoves DEF TypeInv, Start, MayStart
<1>2. Running' = Running \cup {r} /\ r \notin Running
  BY <1>1 DEF Running, Moves
<1>3. \A q \in Running : req'[q] = req[q] /\ q \in Requests \ {r}
  BY <1>1, <1>2 DEF Running, Moves
<1>4. \A q \in Running' : (Discounted(req[q])' <=> IF q = r THEN Discounted(rec) ELSE Discounted(req[q]))
  BY <1>1, <1>2, <1>3 DEF Discounted
<1>5. Alone'
  BY <1>1, <1>2, <1>3, <1>4 DEF ApartInv, Alone, Subject
<1>6. ASSUME NEW q \in Requests \ {r} PROVE Fresh(q)'
  BY <1>1, <1>6 DEF ApartInv, Fresh, Moves, Running, Live
<1>7. Fresh(r)'
  BY <1>1 DEF Fresh
<1> QED
  BY <1>5, <1>6, <1>7 DEF ApartInv

LEMMA NextKeepsApart ==
    ASSUME TypeInv, OrderInv, ApartInv, Overlap = "apart", [Next]_vars
    PROVE  ApartInv'
<1>t. TypeOK /\ LinesDone /\ \A r \in Requests : Stage(r)
  BY DEF TypeInv
<1>1. ASSUME NEW r \in Requests, NEW u \in Users, NEW b \in Baskets, NEW promo \in BOOLEAN,
             StartCreate(r, u, b, promo)
      PROVE  ApartInv'
  BY <1>1, StartKeepsApart DEF StartCreate
<1>2. ASSUME NEW r \in Requests, NEW u \in Users, NEW o \in Orders,
             (\E b \in Baskets : StartUpdate(r, u, o, b)) \/ StartCancel(r, u, o)
      PROVE  ApartInv'
  BY <1>2, StartKeepsApart DEF StartUpdate, StartCancel
<1>m. ASSUME NEW r \in Requests, Step(r) \/ Fail(r)
      PROVE  Moves(r) /\ r \in Running
  BY <1>m, RequestMoves
\* No order is written.
<1>u. ASSUME NEW r \in Running, Moves(r), UNCHANGED <<order, items>>, Fresh(r)' PROVE ApartInv'
  <2>1. \A q \in Running : req'[q] = req[q]
    BY <1>u DEF Moves, Running
  <2>2. \A q \in Running : Discounted(req[q])' => Discounted(req[q])
    BY <1>u, <2>1 DEF Discounted
  <2> QED
    BY <1>u, <2>2, MoveKeepsApart
<1>e. ASSUME NEW r \in Running, NEW status, Reject(r, status) PROVE ApartInv'
  <2>1. Moves(r) /\ pc'[r] = "done" /\ UNCHANGED <<order, items>>
    BY <1>e, <1>t, EndMoves DEF Reject, tables
  <2> QED
    BY <1>e, <1>u, <2>1 DEF Fresh, Running
\* It goes on, with what it has read.
<1>s. ASSUME NEW r \in Running, Moves(r), NEW label, GoTo(r, label), UNCHANGED <<seenOrder, seenItems>>,
             pc[r] # "read",
             label \in {"return", "validate", "promo", "commit"} /\ req[r].op # "create" =>
                pc[r] \in {"return", "validate", "promo", "commit"}
      PROVE  ApartInv'
  <2>1. /\ pc'[r] = label /\ UNCHANGED <<order, items, req, seenOrder, seenItems>> /\ r \in Requests
    BY <1>s, <1>t DEF GoTo, tables, TypeOK, Running
  <2>2. Fresh(r)
    BY <2>1 DEF ApartInv
  <2>3. Fresh(r)'
    BY <1>s, <2>1, <2>2 DEF Fresh, Live
  <2> QED
    BY <1>s, <1>u, <2>1, <2>3
<1>3. ASSUME NEW r \in Requests, ReadOrder(r) PROVE ApartInv'
  <2>1. Moves(r) /\ r \in Running /\ pc[r] = "read" /\ req[r].op \in {"update", "cancel"}
    BY <1>m, <1>t, <1>3 DEF Step, ReadOrder, Stage
  <2>2. CASE \E status : Reject(r, status)
    BY <1>e, <2>1, <2>2
  <2>3. CASE /\ Open(order[req[r].order])
             /\ seenOrder' = [seenOrder EXCEPT ![r] = order[req[r].order]]
             /\ \E label \in {"rate", "items"} : GoTo(r, label)
    <3>1. /\ seenOrder'[r] = order[req[r].order] /\ pc'[r] \in {"rate", "items"}
          /\ UNCHANGED <<order, items, req>> /\ Live(req[r].order)
      BY <1>t, <2>3 DEF GoTo, tables, TypeOK, Open, Live
    <3>2. Fresh(r)'
      BY <3>1 DEF Fresh, Live
    <3> QED
      BY <1>u, <2>1, <3>1, <3>2
  <2> QED
    BY <1>3, <2>2, <2>3 DEF ReadOrder
<1>4. ASSUME NEW r \in Requests, CheckRateLimit(r) PROVE ApartInv'
  <2>1. Moves(r) /\ r \in Running /\ pc[r] = "rate"
    BY <1>m, <1>4 DEF Step, CheckRateLimit
  <2>2. CASE \E status : Reject(r, status)
    BY <1>e, <2>1, <2>2
  <2>3. CASE UNCHANGED session /\ \E label \in {"active", "items"} : GoTo(r, label)
    BY <1>s, <2>1, <2>3 DEF session
  <2> QED
    BY <1>4, <2>2, <2>3 DEF CheckRateLimit
<1>5. ASSUME NEW r \in Requests, CheckNoActiveOrder(r) PROVE ApartInv'
  <2>1. Moves(r) /\ r \in Running /\ pc[r] = "active" /\ req[r].op = "create"
    BY <1>m, <1>t, <1>5 DEF Step, CheckNoActiveOrder, Stage
  <2>2. CASE \E status : Reject(r, status)
    BY <1>e, <2>1, <2>2
  <2>3. CASE GoTo(r, "validate") /\ UNCHANGED <<seenOrder, seenItems>>
    BY <1>s, <2>1, <2>3
  <2> QED
    BY <1>5, <2>2, <2>3 DEF CheckNoActiveOrder, GoLock
<1>6. ASSUME NEW r \in Requests, LoadItems(r) PROVE ApartInv'
  <2>1. Moves(r) /\ r \in Running /\ pc[r] = "items"
    BY <1>m, <1>6 DEF Step, LoadItems
  <2>2. /\ seenItems'[r] = items[req[r].order]
        /\ UNCHANGED <<order, items, req, seenOrder>>
    BY <1>6, <1>t DEF LoadItems, GoLock, GoTo, tables, TypeOK
  <2>3. Fresh(r)
    BY DEF ApartInv
  <2>4. Fresh(r)'
    BY <2>1, <2>2, <2>3 DEF Fresh, Live
  <2> QED
    BY <1>u, <2>1, <2>2, <2>4
<1>7. ASSUME NEW r \in Requests, NEW p \in Products, LockProduct(r, p) PROVE ApartInv'
  <2>1. Moves(r) /\ r \in Running
    BY <1>m, <1>7 DEF Step
  <2>2. UNCHANGED <<order, items, req, pc, seenOrder, seenItems>>
    BY <1>7 DEF LockProduct, tables
  <2>3. Fresh(r)'
    BY <2>2 DEF ApartInv, Fresh, Live, Running
  <2> QED
    BY <1>u, <2>1, <2>2, <2>3
<1>8. ASSUME NEW r \in Requests, ReturnStock(r) PROVE ApartInv'
  <2>1. Moves(r) /\ r \in Running /\ pc[r] = "return"
    BY <1>m, <1>8 DEF Step, ReturnStock
  <2>2. /\ \E label \in {"validate", "promo", "commit"} : GoTo(r, label)
        /\ UNCHANGED <<seenOrder, seenItems>>
    BY <1>8 DEF ReturnStock, GoLock, session
  <2> QED
    BY <1>s, <2>1, <2>2
<1>9. ASSUME NEW r \in Requests, ValidateProducts(r) PROVE ApartInv'
  <2>1. Moves(r) /\ r \in Running /\ pc[r] = "validate"
    BY <1>m, <1>9 DEF Step, ValidateProducts
  <2>2. CASE \E status : Reject(r, status)
    BY <1>e, <2>1, <2>2
  <2>3. CASE UNCHANGED session /\ \E label \in {"promo", "commit"} : GoTo(r, label)
    BY <1>s, <2>1, <2>3 DEF session
  <2> QED
    BY <1>9, <2>2, <2>3 DEF ValidateProducts
<1>10. ASSUME NEW r \in Requests, ReadPromo(r) PROVE ApartInv'
  <2>1. Moves(r) /\ r \in Running /\ pc[r] = "promo"
    BY <1>m, <1>10 DEF Step, ReadPromo
  <2>2. CASE \E status : Reject(r, status)
    BY <1>e, <2>1, <2>2
  <2>3. CASE UNCHANGED <<seenOrder, seenItems>> /\ GoTo(r, "commit")
    BY <1>s, <2>1, <2>3
  <2> QED
    BY <1>10, <2>2, <2>3 DEF ReadPromo
<1>11. ASSUME NEW r \in Requests, CommitCreate(r) PROVE ApartInv'
  BY <1>11, <1>m, CreateKeepsApart DEF Step
<1>12. ASSUME NEW r \in Requests, CommitUpdate(r) \/ CommitCancel(r) PROVE ApartInv'
  <2>1. Moves(r) /\ r \in Running /\ req[r].op # "create" /\ pc'[r] = "done"
    BY <1>m, <1>t, <1>12 DEF Step, CommitUpdate, CommitCancel, End, TypeOK
  <2> DEFINE o == req[r].order
  <2>2. /\ o \in Orders /\ (order'[o].promo => order[o].promo)
        /\ \A x \in Orders \ {o} : order'[x] = order[x] /\ items'[x] = items[x]
    <3>1. CASE CommitUpdate(r)
      <4>1. /\ o \in Orders /\ order'[o].promo = (order[o].promo /\ ~DropsPromo(r))
            /\ \A x \in Orders \ {o} : order'[x] = order[x] /\ items'[x] = items[x]
        BY <2>1, <3>1, UpdateWrites
      <4> HIDE DEF o
      <4> QED
        BY <4>1, Zenon
    <3>2. CASE CommitCancel(r)
      <4>1. /\ o \in Orders /\ order'[o].promo = order[o].promo /\ items' = items
            /\ \A x \in Orders \ {o} : order'[x] = order[x]
        BY <2>1, <3>2, CancelWrites
      <4> HIDE DEF o
      <4> QED
        BY <4>1
    <3> QED
      BY <1>12, <3>1, <3>2
  <2>3. \A x \in Orders : order'[x].promo => order[x].promo
    BY <2>2
  <2> HIDE DEF o
  <2>4. ASSUME NEW q \in Running \ {r}
        PROVE  /\ Discounted(req[q])' => Discounted(req[q])
               /\ req[q].op # "create" /\ pc[q] # "read" =>
                     /\ order'[req[q].order] = order[req[q].order]
                     /\ items'[req[q].order] = items[req[q].order]
    <3>1. req'[q] = req[q]
      BY <2>1 DEF Moves, Running
    <3>2. Discounted(req[q])' => Discounted(req[q])
      BY <2>3, <3>1 DEF Discounted
    <3>3. req[q].op # "create" => req[q].order \in Orders \ {o}
      BY <2>1, OwnOrder DEF ApartInv, o
    <3> QED
      BY <2>2, <3>2, <3>3
  <2>5. Fresh(r)'
    BY <2>1 DEF Fresh, Running
  <2> QED
    BY <2>1, <2>4, <2>5, MoveKeepsApart
<1>13. ASSUME NEW r \in Requests, Fail(r) PROVE ApartInv'
  BY <1>13, <1>e DEF Fail
<1>14. ASSUME UNCHANGED <<order, items, req, pc, seenOrder, seenItems>> PROVE ApartInv'
  BY <1>14 DEF ApartInv, Alone, Fresh, Running, Discounted, Live
<1>15. ASSUME (\E p \in Products : SetStatus(p) \/ SetStock(p)) \/ Expire \/ UNCHANGED vars
       PROVE  ApartInv'
  BY <1>14, <1>15 DEF SetStatus, SetStock, Expire, vars, tables, session
<1> QED
  BY <1>1, <1>2, <1>3, <1>4, <1>5, <1>6, <1>7, <1>8, <1>9, <1>10, <1>11, <1>12, <1>13, <1>15
     DEF Next

-----------------------------------------------------------------------------
(* No unit is lost                                                         *)

LEMMA HeldByStays ==
    ASSUME TypeInv, NEW o \in Orders, NEW p \in Products,
           order'[o] = order[o], items'[o] = items[o],
           \A x \in Requests : pc[x] = "done" => req'[x] = req[x]
    PROVE  HeldBy(o, p)' = HeldBy(o, p)
<1>1. /\ items[o] \in SUBSET Requests /\ IsFiniteSet(items[o])
      /\ \A q \in items[o] : req'[q] = req[q]
  BY DEF TypeInv, TypeOK, LinesDone
<1>2. SumFunctionOnSet(Totals(p)', items[o]) = Quantity(items[o], p)
  BY <1>1, QuantityStays DEF TypeInv
<1> QED
  BY <1>2 DEF HeldBy, Live, Quantity

\* A step that writes one order changes what is held by what that order holds.
LEMMA HeldChanges ==
    ASSUME TypeInv, NEW o \in Orders, NEW p \in Products,
           \A x \in Orders \ {o} : order'[x] = order[x] /\ items'[x] = items[x],
           \A x \in Requests : pc[x] = "done" => req'[x] = req[x],
           HeldBy(o, p)' \in Nat
    PROVE  Held(p)' = Held(p) - HeldBy(o, p) + HeldBy(o, p)'
<1> DEFINE f == [q \in Orders |-> HeldBy(q, p)]
           g == [q \in Orders |-> HeldBy(q, p)']
<1>1. Held(p) = SumFunctionOnSet(f, Orders) /\ Held(p)' = SumFunctionOnSet(g, Orders)
  BY DEF Held, SumFunction
<1>2. \A q \in Orders : HeldBy(q, p) \in Nat
  BY HeldByNat
<1>3. \A q \in Orders \ {o} : HeldBy(q, p)' = HeldBy(q, p)
  BY HeldByStays
<1>4. /\ \A q \in Orders : f[q] \in Nat /\ g[q] \in Nat
      /\ \A q \in Orders \ {o} : g[q] = f[q]
      /\ f[o] = HeldBy(o, p) /\ g[o] = HeldBy(o, p)'
  BY <1>2, <1>3
<1> HIDE DEF f, g
<1>5. SumFunctionOnSet(g, Orders) = SumFunctionOnSet(f, Orders) - f[o] + g[o]
  BY <1>4, SumChanged, OrderAssumption
<1> QED
  BY <1>1, <1>4, <1>5

LEMMA HeldStays ==
    ASSUME TypeInv, NEW p \in Products, UNCHANGED <<order, items>>,
           \A x \in Requests : pc[x] = "done" => req'[x] = req[x]
    PROVE  Held(p)' = Held(p)
<1>1. \A q \in Orders : HeldBy(q, p)' = HeldBy(q, p)
  BY HeldByStays
<1>2. [q \in Orders |-> HeldBy(q, p)'] = [q \in Orders |-> HeldBy(q, p)]
  BY <1>1
<1> QED
  BY <1>2 DEF Held

\* The lines of one request.
LEMMA QuantityOfOne ==
    ASSUME TypeOK, NEW r \in Requests, NEW p \in Products, req'[r] = req[r]
    PROVE  SumFunctionOnSet(Totals(p)', {r}) = req[r].basket.total[p]
<1> DEFINE f == Totals(p)'
           S == {}
<1>1. f[r] = req[r].basket.total[p] /\ f[r] \in Nat
  BY BasketFits DEF Totals
<1>2. IsFiniteSet(S) /\ r \notin S /\ \A y \in S \cup {r} : f[y] \in Nat
  BY <1>1, FS_EmptySet
<1> HIDE DEF f
<1>3. SumFunctionOnSet(f, S) = 0
  BY SumEmpty
<1> HIDE DEF S
<1>4. SumFunctionOnSet(f, S \cup {r}) = SumFunctionOnSet(f, S) + f[r]
  BY <1>2, SumAdded
<1> QED
  BY <1>1, <1>3, <1>4 DEF S, f

\* What a commit takes from the stock its order holds, and what it returns the order held.
LEMMA CommitConserves ==
    ASSUME TypeInv, ApartInv, StockConserved, NEW r \in Running, Moves(r),
           CommitCreate(r) \/ CommitUpdate(r) \/ CommitCancel(r)
    PROVE  StockConserved'
<1> SUFFICES ASSUME NEW p \in Products PROVE stock'[p] + Held(p)' = supply'[p]
  BY DEF StockConserved
<1>1. /\ r \in Requests /\ pc[r] = "commit" /\ req'[r] = req[r] /\ supply' = supply
      /\ stock' = NewStock(r)
  BY DEF Running, Moves, CommitCreate, CommitUpdate, CommitCancel
<1>2. \A x \in Requests : pc[x] = "done" => req'[x] = req[x]
  BY <1>1, DoneStays
<1>3. /\ stock[p] \in Int /\ Returned(r, p) \in Nat /\ Taken(r, p) \in Nat
      /\ stock'[p] = stock[p] + Returned(r, p) - Taken(r, p)
  BY <1>1, StockFits
<1>4. stock[p] + Held(p) = supply[p] /\ Held(p) \in Nat
  BY HeldNat DEF StockConserved
<1>5. SumFunctionOnSet(Totals(p)', {r}) = req[r].basket.total[p]
  BY <1>1, QuantityOfOne DEF TypeInv
<1>6. ASSUME NEW o \in Orders,
             \A x \in Orders \ {o} : order'[x] = order[x] /\ items'[x] = items[x],
             HeldBy(o, p) = Returned(r, p), HeldBy(o, p)' = Taken(r, p)
      PROVE  stock'[p] + Held(p)' = supply'[p]
  <2>1. Held(p)' = Held(p) - HeldBy(o, p) + HeldBy(o, p)'
    BY <1>2, <1>3, <1>6, HeldChanges
  <2> QED
    BY <1>1, <1>3, <1>4, <1>6, <2>1
<1>7. CASE CommitCreate(r)
  <2>1. PICK o \in Orders :
           /\ ~Live(o) /\ Live(o)' /\ items'[o] = {r} /\ seenItems[r] = {}
           /\ \A x \in Orders \ {o} : order'[x] = order[x] /\ items'[x] = items[x]
    BY <1>1, <1>7, CreateWrites
  <2>2. HeldBy(o, p) = Returned(r, p)
    BY <1>1, <2>1, NothingReturned DEF HeldBy
  <2>3. HeldBy(o, p)' = Taken(r, p)
    BY <1>5, <1>7, <2>1 DEF HeldBy, Taken, Quantity, CommitCreate
  <2> QED
    BY <1>6, <2>1, <2>2, <2>3
<1>8. CASE CommitUpdate(r)
  <2>o. PICK o : o = req[r].order
    OBVIOUS
  <2>1. /\ o \in Orders /\ Live(o) /\ Live(o)' /\ items'[o] = {r} /\ seenItems[r] = items[o]
        /\ \A x \in Orders \ {o} : order'[x] = order[x] /\ items'[x] = items[x]
    BY <1>8, <2>o, UpdateWrites
  <2>2. HeldBy(o, p) = Returned(r, p)
    BY <2>1 DEF HeldBy, Returned
  <2>3. HeldBy(o, p)' = Taken(r, p)
    BY <1>5, <1>8, <2>1 DEF HeldBy, Taken, Quantity, CommitUpdate
  <2> QED
    BY <1>6, <2>1, <2>2, <2>3
<1>9. CASE CommitCancel(r)
  <2>o. PICK o : o = req[r].order
    OBVIOUS
  <2>1. /\ o \in Orders /\ Live(o) /\ ~Live(o)' /\ items' = items /\ seenItems[r] = items[o]
        /\ \A x \in Orders \ {o} : order'[x] = order[x]
    BY <1>9, <2>o, CancelWrites
  <2>2. HeldBy(o, p) = Returned(r, p)
    BY <2>1 DEF HeldBy, Returned
  <2>3. HeldBy(o, p)' = Taken(r, p)
    BY <1>9, <2>1 DEF HeldBy, Taken, CommitCancel
  <2> QED
    BY <1>6, <2>1, <2>2, <2>3
<1> QED
  BY <1>7, <1>8, <1>9

LEMMA NextConserves ==
    ASSUME TypeInv, OrderInv, ApartInv, StockConserved, [Next]_vars
    PROVE  StockConserved'
\* A step that writes no order and no stock.
<1>q. ASSUME UNCHANGED <<stock, supply, order, items>>,
             \A x \in Requests : pc[x] = "done" => req'[x] = req[x]
      PROVE  StockConserved'
  BY <1>q, HeldStays DEF StockConserved
<1>m. ASSUME NEW r \in Requests, Step(r) \/ Fail(r) PROVE Moves(r) /\ r \in Running
  BY <1>m, RequestMoves
<1>r. ASSUME NEW r \in Requests, Moves(r), UNCHANGED <<stock, supply, order, items>>
      PROVE  StockConserved'
  BY <1>r, <1>q, DoneStays
<1>1. ASSUME NEW r \in Requests, NEW rec, NEW label, Start(r, rec, label) PROVE StockConserved'
  BY <1>1, <1>r, StartMoves DEF TypeInv, Start, tables
<1>2. ASSUME NEW r \in Requests,
             \/ ReadOrder(r) \/ CheckRateLimit(r) \/ CheckNoActiveOrder(r) \/ LoadItems(r)
             \/ \E p \in Products : LockProduct(r, p)
             \/ ReturnStock(r) \/ ValidateProducts(r) \/ ReadPromo(r) \/ Fail(r)
      PROVE  StockConserved'
  <2>1. Moves(r)
    BY <1>2, <1>m DEF Step
  <2>2. UNCHANGED <<stock, supply, order, items>>
    <3>1. (\E label : GoTo(r, label)) => UNCHANGED <<stock, supply, order, items>>
      BY DEF GoTo, tables
    <3>2. (\E status : Reject(r, status)) => UNCHANGED <<stock, supply, order, items>>
      BY DEF Reject, tables
    <3>3. (\E p \in Products : LockProduct(r, p)) => UNCHANGED <<stock, supply, order, items>>
      BY DEF LockProduct, tables
    <3> QED
      BY <1>2, <3>1, <3>2, <3>3 DEF ReadOrder, CheckRateLimit, CheckNoActiveOrder, LoadItems,
         ReturnStock, ValidateProducts, ReadPromo, Fail, GoLock
  <2> QED
    BY <1>r, <2>1, <2>2
<1>3. ASSUME NEW r \in Requests, CommitCreate(r) \/ CommitUpdate(r) \/ CommitCancel(r)
      PROVE  StockConserved'
  BY <1>3, <1>m, CommitConserves DEF Step
<1>4. ASSUME NEW p \in Products, SetStock(p) PROVE StockConserved'
  <2>1. PICK n \in StockLevels : /\ stock' = [stock EXCEPT ![p] = n]
                                 /\ supply' = [supply EXCEPT ![p] = n + Held(p)]
    BY <1>4 DEF SetStock
  <2>2. \A x \in Products : Held(x)' = Held(x)
    BY <1>4, HeldStays DEF SetStock
  <2> QED
    BY <2>1, <2>2 DEF StockConserved, TypeInv, TypeOK
<1>5. ASSUME (\E p \in Products : SetStatus(p)) \/ Expire \/ UNCHANGED vars PROVE StockConserved'
  BY <1>5, <1>q DEF SetStatus, Expire, vars, tables
<1> QED
  BY <1>1, <1>2, <1>3, <1>4, <1>5 DEF Next, StartCreate, StartUpdate, StartCancel

LEMMA InitApartInv == Init => ApartInv
BY DEF Init, ApartInv, Alone, Fresh, Running

\* openapi/spec.yaml: cancel_order "Returns reserved stock", update_order "Returns old stock,
\* reserves new stock".  As long as no two requests work on one order, what is on the shelf
\* and what live orders hold is together what the sellers put on sale.
THEOREM StockConservedIfApart ==
    ASSUME Overlap = "apart"
    PROVE  Spec => []StockConserved
<1>1. Init => StockConserved
  <2> SUFFICES ASSUME Init, NEW p \in Products PROVE stock[p] + Held(p) = supply[p]
    BY DEF StockConserved
  <2> DEFINE f == [o \in Orders |-> HeldBy(o, p)]
  <2>1. Held(p) = SumFunctionOnSet(f, Orders) /\ \A o \in Orders : f[o] = 0
    BY DEF Init, Held, SumFunction, HeldBy, Live, NoOrder
  <2> HIDE DEF f
  <2>2. Held(p) = 0
    BY <2>1, SumZero, OrderAssumption
  <2> QED
    BY <2>2, OrderAssumption DEF Init
<1>2. TypeInv /\ OrderInv /\ ApartInv /\ [Next]_vars => ApartInv'
  BY NextKeepsApart
<1>3. TypeInv /\ OrderInv /\ ApartInv /\ StockConserved /\ [Next]_vars => StockConserved'
  BY NextConserves
<1> QED
  BY <1>1, <1>2, <1>3, InitApartInv, InitTypeInv, NextTypeInv, InitOrderInv, NextOrderInv, PTL
     DEF Spec

-----------------------------------------------------------------------------
(* The counter of the promo code                                           *)

UsesPromo(r) == IF req[r].op = "create" THEN req[r].promo ELSE seenOrder[r].promo

\* current_uses is still what a request read that is about to write it.
UsesSeen(r) ==
    pc[r] = "commit" /\ UsesPromo(r) =>
        seenUses[r] = uses /\ (req[r].op = "create" => uses < MaxUses)

PromoInv == PromoCounted /\ \A r \in Requests : UsesSeen(r)

\* The order of a request that writes the counter has the code.
LEMMA PromoOfCommit ==
    ASSUME TypeInv, ApartInv, NEW r \in Requests, pc[r] = "commit", UsesPromo(r)
    PROVE  r \in Running /\ Discounted(req[r])
<1>1. r \in Running
  BY DEF Running
<1>2. CASE req[r].op = "create"
  BY <1>1, <1>2 DEF UsesPromo, Discounted
<1>3. CASE req[r].op # "create"
  <2>1. req[r].order \in Orders /\ seenOrder[r] = order[req[r].order]
    BY <1>1, <1>3 DEF TypeInv, Stage, ApartInv, Fresh
  <2> QED
    BY <1>1, <1>3, <2>1 DEF UsesPromo, Discounted
<1> QED
  BY <1>2, <1>3

\* At most one request writes the counter, so the others' reading of it is not disturbed.
LEMMA OthersSeeUses ==
    ASSUME TypeInv, ApartInv, PromoInv, NEW r \in Requests, Moves(r), UsesSeen(r)', PromoCounted',
           uses' = uses \/ (pc[r] = "commit" /\ UsesPromo(r))
    PROVE  PromoInv'
<1> SUFFICES ASSUME NEW q \in Requests \ {r}, pc'[q] = "commit", UsesPromo(q)' PROVE UsesSeen(q)'
  BY DEF PromoInv, UsesSeen
<1>1. pc'[q] = pc[q] /\ req'[q] = req[q] /\ seenOrder'[q] = seenOrder[q] /\ seenUses'[q] = seenUses[q]
  BY DEF Moves
<1>2. pc[q] = "commit" /\ UsesPromo(q)
  BY <1>1 DEF UsesPromo
<1>3. q \in Running /\ Discounted(req[q])
  BY <1>2, PromoOfCommit
<1>4. uses' = uses
  BY <1>3, PromoOfCommit DEF ApartInv, Alone
<1> QED
  BY <1>1, <1>4 DEF PromoInv, UsesSeen, UsesPromo

LEMMA PromoOrdersFinite == IsFiniteSet(PromoOrders) /\ Cardinality(PromoOrders) \in Nat
BY FS_Subset, FS_CardinalityType, OrderAssumption DEF PromoOrders

\* A commit that counts the code once more is of an order that did not have it, ...
LEMMA CreateCounts ==
    ASSUME TypeInv, PromoInv, NEW r \in Requests, CommitCreate(r)
    PROVE  PromoCounted' /\ (uses' = uses \/ UsesPromo(r))
<1>1. PICK o \in Orders : /\ ~Live(o) /\ Live(o)' /\ order'[o].promo = req[r].promo
                          /\ \A x \in Orders \ {o} : order'[x] = order[x]
  BY CreateWrites
<1>2. /\ pc[r] = "commit" /\ req[r].op = "create" /\ req[r].promo \in BOOLEAN
      /\ uses' = IF req[r].promo THEN seenUses[r] + 1 ELSE uses
  BY DEF CommitCreate, TypeInv, TypeOK
<1>3. uses = Cardinality(PromoOrders) /\ uses <= MaxUses /\ uses \in Nat
  BY PromoOrdersFinite DEF PromoInv, PromoCounted
<1>4. \A x \in Orders \ {o} : x \in PromoOrders' <=> x \in PromoOrders
  BY <1>1 DEF PromoOrders, Live
<1>5. CASE req[r].promo
  <2>1. PromoOrders' = PromoOrders \cup {o} /\ o \notin PromoOrders
    BY <1>1, <1>4, <1>5 DEF PromoOrders
  <2>2. Cardinality(PromoOrders') = uses + 1
    BY <1>3, <2>1, PromoOrdersFinite, FS_AddElement
  <2>3. seenUses[r] = uses /\ uses < MaxUses
    BY <1>2, <1>5 DEF PromoInv, UsesSeen, UsesPromo
  <2>4. uses' = uses + 1 /\ uses' <= MaxUses
    BY <1>2, <1>3, <1>5, <2>3, OrderAssumption
  <2> QED
    BY <1>2, <1>5, <2>2, <2>4 DEF PromoCounted, UsesPromo
<1>6. CASE ~req[r].promo
  <2>1. PromoOrders' = PromoOrders
    BY <1>1, <1>4, <1>6 DEF PromoOrders
  <2> QED
    BY <1>2, <1>3, <1>6, <2>1 DEF PromoCounted
<1> QED
  BY <1>5, <1>6

\* ... and one that releases it is of an order that had it.
LEMMA ReleaseCounts ==
    ASSUME TypeInv, PromoInv, NEW r \in Requests, pc[r] = "commit", req[r].op # "create",
           NEW o \in Orders, Live(o), seenOrder[r] = order[o], order[o].promo,
           uses' = UsesAfterRelease(r), o \notin PromoOrders',
           \A x \in Orders \ {o} : order'[x] = order[x]
    PROVE  PromoCounted' /\ UsesPromo(r)
<1>1. UsesPromo(r) /\ seenUses[r] = uses
  BY DEF PromoInv, UsesSeen, UsesPromo
<1>2. uses = Cardinality(PromoOrders) /\ uses <= MaxUses /\ uses \in Nat
  BY PromoOrdersFinite DEF PromoInv, PromoCounted
<1>3. o \in PromoOrders /\ PromoOrders' = PromoOrders \ {o}
  BY DEF PromoOrders, Live
<1>4. Cardinality(PromoOrders') = uses - 1 /\ uses # 0
  BY <1>2, <1>3, PromoOrdersFinite, FS_RemoveElement, FS_EmptySet
<1>5. uses' = uses - 1 /\ uses' <= MaxUses
  BY <1>1, <1>2, <1>4, OrderAssumption DEF UsesAfterRelease
<1> QED
  BY <1>1, <1>4, <1>5 DEF PromoCounted

LEMMA UpdateCounts ==
    ASSUME TypeInv, ApartInv, PromoInv, NEW r \in Running, CommitUpdate(r)
    PROVE  PromoCounted' /\ (uses' = uses \/ UsesPromo(r))
<1>o. PICK o : o = req[r].order
  OBVIOUS
<1>1. /\ o \in Orders /\ Live(o) /\ Live(o)' /\ seenOrder[r] = order[o]
      /\ order'[o].promo = (order[o].promo /\ ~DropsPromo(r))
      /\ \A x \in Orders \ {o} : order'[x] = order[x]
  BY <1>o, UpdateWrites
<1>2. /\ r \in Requests /\ pc[r] = "commit" /\ req[r].op # "create"
      /\ uses' = IF DropsPromo(r) THEN UsesAfterRelease(r) ELSE uses
  BY DEF CommitUpdate, Running
<1>3. CASE DropsPromo(r)
  <2>1. order[o].promo /\ ~order'[o].promo
    BY <1>1, <1>3 DEF DropsPromo
  <2>2. o \notin PromoOrders'
    BY <2>1 DEF PromoOrders
  <2> QED
    BY <1>1, <1>2, <1>3, <2>1, <2>2, ReleaseCounts
<1>4. CASE ~DropsPromo(r)
  <2>1. order[o].promo \in BOOLEAN
    BY <1>1 DEF TypeInv, TypeOK, OrderRows
  <2>2. order'[o].promo <=> order[o].promo
    BY <1>1, <1>4, <2>1
  <2>3. \A x \in Orders : x \in PromoOrders' <=> x \in PromoOrders
    BY <1>1, <2>2 DEF PromoOrders, Live
  <2>4. PromoOrders' = PromoOrders
    BY <2>3 DEF PromoOrders
  <2> QED
    BY <1>2, <1>4, <2>4 DEF PromoInv, PromoCounted
<1> QED
  BY <1>3, <1>4

LEMMA CancelCounts ==
    ASSUME TypeInv, ApartInv, PromoInv, NEW r \in Running, CommitCancel(r)
    PROVE  PromoCounted' /\ (uses' = uses \/ UsesPromo(r))
<1>o. PICK o : o = req[r].order
  OBVIOUS
<1>1. /\ o \in Orders /\ Live(o) /\ ~Live(o)' /\ seenOrder[r] = order[o]
      /\ \A x \in Orders \ {o} : order'[x] = order[x]
  BY <1>o, CancelWrites
<1>2. /\ r \in Requests /\ pc[r] = "commit" /\ req[r].op # "create"
      /\ uses' = IF order[o].promo THEN UsesAfterRelease(r) ELSE uses
  BY <1>1 DEF CommitCancel, Running, ReleasedUses
<1>3. o \notin PromoOrders'
  BY <1>1 DEF PromoOrders
<1>4. CASE order[o].promo
  BY <1>1, <1>2, <1>3, <1>4, ReleaseCounts
<1>5. CASE ~order[o].promo
  <2>1. \A x \in Orders : x \in PromoOrders' <=> x \in PromoOrders
    BY <1>1, <1>3, <1>5 DEF PromoOrders, Live
  <2>2. PromoOrders' = PromoOrders
    BY <2>1 DEF PromoOrders
  <2> QED
    BY <1>2, <1>5, <2>2 DEF PromoInv, PromoCounted
<1> QED
  BY <1>4, <1>5

LEMMA NextPromoInv ==
    ASSUME TypeInv, OrderInv, ApartInv, PromoInv, [Next]_vars
    PROVE  PromoInv'
<1>t. TypeOK /\ LinesDone /\ \A r \in Requests : Stage(r)
  BY DEF TypeInv
<1>m. ASSUME NEW r \in Requests, Step(r) \/ Fail(r) PROVE Moves(r) /\ r \in Running
  BY <1>m, RequestMoves
<1>c. UNCHANGED <<order, uses>> => PromoCounted'
  BY DEF PromoInv, PromoCounted, PromoOrders, Live
\* Only a commit writes an order or the counter.
<1>r. ASSUME NEW r \in Requests, Moves(r), UNCHANGED <<order, uses>>, UsesSeen(r)' PROVE PromoInv'
  BY <1>c, <1>r, OthersSeeUses
<1>f. ASSUME NEW r \in Requests, Moves(r), UNCHANGED <<order, uses>>, pc'[r] # "commit" PROVE PromoInv'
  BY <1>f, <1>r DEF UsesSeen
<1>e. ASSUME NEW r \in Running, NEW status, Reject(r, status) PROVE PromoInv'
  <2>1. Moves(r) /\ pc'[r] = "done" /\ UNCHANGED <<order, uses>> /\ r \in Requests
    BY <1>e, <1>t, EndMoves DEF Reject, tables, Running
  <2> QED
    BY <1>f, <2>1
<1>g. ASSUME NEW r \in Requests, NEW label, GoTo(r, label)
      PROVE  pc'[r] = label /\ UNCHANGED <<order, uses, req>>
  BY <1>g, <1>t DEF GoTo, tables, TypeOK
<1>1. ASSUME NEW r \in Requests, NEW rec, NEW label \in {"rate", "read"}, Start(r, rec, label)
      PROVE  PromoInv'
  BY <1>1, <1>f, <1>t, StartMoves
<1>2. ASSUME NEW r \in Requests,
             ReadOrder(r) \/ CheckRateLimit(r) \/ CheckNoActiveOrder(r) \/ LoadItems(r)
      PROVE  PromoInv'
  <2>1. Moves(r) /\ r \in Running
    BY <1>m, <1>2 DEF Step
  <2>2. CASE \E status : Reject(r, status)
    BY <1>e, <2>1, <2>2
  <2>3. CASE \E label \in {"rate", "active", "items", "return", "validate"} : GoTo(r, label)
    BY <1>f, <1>g, <2>1, <2>3
  <2> QED
    BY <1>2, <2>2, <2>3 DEF ReadOrder, CheckRateLimit, CheckNoActiveOrder, LoadItems, GoLock
<1>3. ASSUME NEW r \in Requests, NEW p \in Products, LockProduct(r, p) PROVE PromoInv'
  <2>1. Moves(r) /\ UNCHANGED <<order, uses, req, pc, seenOrder, seenUses>>
    BY <1>m, <1>3 DEF Step, LockProduct, tables
  <2>2. UsesSeen(r)'
    BY <2>1 DEF PromoInv, UsesSeen, UsesPromo
  <2> QED
    BY <1>r, <2>1, <2>2
<1>4. ASSUME NEW r \in Requests, ReturnStock(r) PROVE PromoInv'
  <2>1. Moves(r)
    BY <1>m, <1>4 DEF Step
  <2>2. CASE GoTo(r, "validate") \/ GoTo(r, "promo")
    BY <1>f, <1>g, <2>1, <2>2
  <2>3. CASE GoTo(r, "commit") /\ req[r].op = "cancel" /\ ~seenOrder[r].promo /\ UNCHANGED session
    <3>1. UsesSeen(r)'
      BY <1>g, <2>3 DEF UsesSeen, UsesPromo, session
    <3> QED
      BY <1>g, <1>r, <2>1, <2>3, <3>1
  <2> QED
    BY <1>4, <2>2, <2>3 DEF ReturnStock, GoLock
<1>5. ASSUME NEW r \in Requests, ValidateProducts(r) PROVE PromoInv'
  <2>1. Moves(r) /\ r \in Running
    BY <1>m, <1>5 DEF Step
  <2>2. CASE Reject(r, "409")
    BY <1>e, <2>1, <2>2
  <2>3. CASE GoTo(r, "promo")
    BY <1>f, <1>g, <2>1, <2>3
  <2>4. CASE GoTo(r, "commit") /\ ~req[r].promo /\ ~seenOrder[r].promo /\ UNCHANGED session
    <3>1. UsesSeen(r)'
      BY <1>g, <2>4 DEF UsesSeen, UsesPromo, session
    <3> QED
      BY <1>g, <1>r, <2>1, <2>4, <3>1
  <2> QED
    BY <1>5, <2>2, <2>3, <2>4 DEF ValidateProducts
<1>6. ASSUME NEW r \in Requests, ReadPromo(r) PROVE PromoInv'
  <2>1. Moves(r) /\ r \in Running
    BY <1>m, <1>6 DEF Step
  <2>2. CASE Reject(r, "422")
    BY <1>e, <2>1, <2>2
  <2>3. CASE /\ seenUses' = [seenUses EXCEPT ![r] = uses] /\ GoTo(r, "commit")
             /\ req[r].op = "create" => uses < MaxUses
    <3>1. seenUses'[r] = uses /\ UNCHANGED <<order, uses, req>>
      BY <1>g, <1>t, <2>3 DEF TypeOK
    <3>2. UsesSeen(r)'
      BY <2>3, <3>1 DEF UsesSeen
    <3> QED
      BY <1>r, <2>1, <3>1, <3>2
  <2> QED
    BY <1>6, <2>2, <2>3 DEF ReadPromo
<1>7. ASSUME NEW r \in Requests, CommitCreate(r) \/ CommitUpdate(r) \/ CommitCancel(r)
      PROVE  PromoInv'
  <2>1. Moves(r) /\ r \in Running /\ pc[r] = "commit" /\ pc'[r] = "done"
    BY <1>m, <1>t, <1>7, EndMoves DEF Step, CommitCreate, CommitUpdate, CommitCancel
  <2>2. PromoCounted' /\ (uses' = uses \/ UsesPromo(r))
    BY <1>7, <2>1, CreateCounts, UpdateCounts, CancelCounts
  <2>3. UsesSeen(r)'
    BY <2>1 DEF UsesSeen
  <2> QED
    BY <2>1, <2>2, <2>3, OthersSeeUses
<1>8. ASSUME NEW r \in Requests, Fail(r) PROVE PromoInv'
  BY <1>8, <1>e DEF Fail
<1>9. ASSUME UNCHANGED <<order, uses, req, pc, seenOrder, seenUses>> PROVE PromoInv'
  BY <1>9, <1>c DEF PromoInv, UsesSeen, UsesPromo
<1>10. ASSUME (\E p \in Products : SetStatus(p) \/ SetStock(p)) \/ Expire \/ UNCHANGED vars
       PROVE  PromoInv'
  BY <1>9, <1>10 DEF SetStatus, SetStock, Expire, vars, tables, session
<1> QED
  BY <1>1, <1>2, <1>3, <1>4, <1>5, <1>6, <1>7, <1>8, <1>10
     DEF Next, StartCreate, StartUpdate, StartCancel

\* apply_promo and release_promo: the counter of a promo code is the number of live orders that
\* use it, and at most max_uses, as long as no two requests that involve the code overlap: the
\* code writes current_uses as the value it read, plus or minus one, and does not lock the row.
THEOREM PromoCountedIfApart ==
    ASSUME Overlap = "apart"
    PROVE  Spec => []PromoCounted
<1>1. Init => PromoInv
  <2> SUFFICES ASSUME Init PROVE PromoInv
    OBVIOUS
  <2>1. PromoOrders = {}
    BY DEF Init, PromoOrders, Live, NoOrder
  <2>2. PromoCounted
    BY <2>1, FS_EmptySet, OrderAssumption DEF Init, PromoCounted
  <2> QED
    BY <2>2 DEF Init, PromoInv, UsesSeen
<1>2. TypeInv /\ OrderInv /\ ApartInv /\ [Next]_vars => ApartInv'
  BY NextKeepsApart
<1>3. TypeInv /\ OrderInv /\ ApartInv /\ PromoInv /\ [Next]_vars => PromoInv'
  BY NextPromoInv
<1>4. PromoInv => PromoCounted
  BY DEF PromoInv
<1> QED
  BY <1>1, <1>2, <1>3, <1>4, InitApartInv, InitTypeInv, NextTypeInv, InitOrderInv, NextOrderInv,
     PTL DEF Spec
=============================================================================

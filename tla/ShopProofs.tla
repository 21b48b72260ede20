----------------------------- MODULE ShopProofs -----------------------------
(***************************************************************************)
(* What the row locks of Shop and the fields that a session writes give,   *)
(* for any number of products, orders and sessions, and the bounds of one  *)
(* discount; from them, what an order comes to and that no stock is lost.   *)
(***************************************************************************)
EXTENDS Shop, SumProofs

LEMMA RowsFit ==
    /\ ProductRows \subseteq [seller : Actors \cup {NoOne}, price : Nat, stock : Int, status : Statuses]
    /\ \A row \in ProductRows : row # NoProduct
    /\ \A row \in ProductRows, k \in Int : [row EXCEPT !.stock = k] \in ProductRows
<1> USE ShopAssumption DEF ProductRows, NoProduct, Statuses
<1>1. ProductRows \subseteq [seller : Actors \cup {NoOne}, price : Nat, stock : Int, status : Statuses]
  OBVIOUS
<1>2. \A row \in ProductRows : row.seller # NoProduct.seller
  OBVIOUS
<1>3. \A row \in ProductRows, k \in Int : [row EXCEPT !.stock = k] \in ProductRows
  OBVIOUS
<1> QED
  BY <1>1, <1>2, <1>3

LEMMA InitIInv == Init => IInv
<1> SUFFICES ASSUME Init PROVE IInv
  OBVIOUS
<1>1. TypeOK
  BY DEF Init, TypeOK, NoOrder, NoLine, NoAsk
<1>2. LoadedCurrent
  BY ShopAssumption DEF Init, LoadedCurrent
<1> QED
  BY <1>1, <1>2 DEF IInv

\* A new line has a quantity of the basket and the price of the row that was loaded.
LEMMA NewLinesFit ==
    ASSUME TypeOK, NEW o \in Orders
    PROVE  NewLines(o) \in [Products -> [quantity : Nat, price : Prices \cup {0}]]
<1>1. ask[o].basket \in [Products -> Nat]
  BY ShopAssumption DEF TypeOK, NoBasket
<1>2. \A p \in Products : loaded[o][p].price \in Prices \cup {0}
  BY DEF TypeOK, ProductRows, NoProduct
<1> QED
  BY <1>1, <1>2 DEF NewLines, NoLine

LEMMA StockFits ==
    ASSUME TypeOK, NEW o \in Orders, NEW p \in Products
    PROVE  /\ order[o].lines[p].quantity \in Nat
           /\ ask[o].basket[p] \in Nat
           /\ loaded[o][p].stock \in Int
           /\ loaded[o][p].stock + order[o].lines[p].quantity - ask[o].basket[p] \in Int
<1>1. ask[o].basket \in [Products -> Nat]
  BY ShopAssumption DEF TypeOK, NoBasket
<1>2. loaded[o][p].stock \in Int
  BY DEF TypeOK, ProductRows, NoProduct
<1>3. order[o].lines[p].quantity \in Nat
  BY DEF TypeOK
<1> QED
  BY <1>1, <1>2, <1>3

LEMMA NeedsARow ==
    ASSUME IInv, NEW o \in Orders, NEW p \in Products, lock[p] = o
    PROVE  product[p] \in ProductRows /\ loaded[o][p] = product[p]
BY DEF IInv, TypeOK, LoadedCurrent, Exists

\* An order's session that ends leaves the rows of the others as they are.
LEMMA EndKeepsIInv ==
    ASSUME IInv, NEW o \in Orders, EndSession(o),
           product' \in [Products -> ProductRows \cup {NoProduct}],
           \A p \in Products : lock[p] # o => product'[p] = product[p],
           \A p \in Products : Exists(p) => Exists(p)' /\ product'[p].seller = product[p].seller,
           DOMAIN order' = Orders, \A q \in Orders \ {o} : order'[q] = order[q],
           DOMAIN order'[o] = DOMAIN NoOrder,
           order'[o].status \in {"NONE", "CREATED", "CANCELED"},
           order'[o].promo \in Codes \cup {NoOne},
           order'[o].lines \in [Products -> [quantity : Nat, price : Prices \cup {0}]]
    PROVE  IInv'
<1>1. TypeOK'
  <2>1. /\ promo' \in [Codes -> PromoRows \cup {NoPromo}]
        /\ edit' \in [Sessions -> Edits \cup {NoEdit}]
        /\ read' \in [Sessions -> ProductRows \cup {NoProduct}]
    BY DEF IInv, TypeOK, EndSession
  <2>2. lock' \in [Products -> Orders \cup {NoOne}]
    BY DEF IInv, TypeOK, EndSession
  <2>3. /\ ask' \in [Orders -> [op : {"none", "create", "update", "cancel"},
                           basket : Baskets \cup {NoBasket}, code : Codes \cup {NoOne}]]
        /\ loaded' \in [Orders -> [Products -> ProductRows \cup {NoProduct}]]
    <3>1. NoAsk \in [op : {"none", "create", "update", "cancel"},
                     basket : Baskets \cup {NoBasket}, code : Codes \cup {NoOne}]
      BY DEF NoAsk
    <3> QED
      BY <3>1 DEF IInv, TypeOK, EndSession
  <2>4. /\ DOMAIN order' = Orders
        /\ \A q \in Orders :
              /\ DOMAIN order'[q] = DOMAIN NoOrder
              /\ order'[q].status \in {"NONE", "CREATED", "CANCELED"}
              /\ order'[q].promo \in Codes \cup {NoOne}
              /\ order'[q].lines \in [Products -> [quantity : Nat, price : Prices \cup {0}]]
    BY DEF IInv, TypeOK
  <2> QED
    BY <2>1, <2>2, <2>3, <2>4 DEF TypeOK, NoOrder
<1>2. LoadedCurrent'
  <2>1. ASSUME NEW q \in Orders, NEW p \in Products
        PROVE  IF lock'[p] = q THEN Exists(p)' /\ loaded'[q][p] = product'[p]
                               ELSE loaded'[q][p] = NoProduct
    <3>1. lock'[p] = IF lock[p] = o THEN NoOne ELSE lock[p]
      BY DEF EndSession
    <3>2. CASE q = o
      BY <3>1, <3>2, ShopAssumption DEF EndSession, IInv, TypeOK
    <3>3. CASE q # o
      <4>1. loaded'[q] = loaded[q]
        BY <3>3 DEF EndSession, IInv, TypeOK
      <4> QED
        BY <3>1, <3>3, <4>1, ShopAssumption DEF IInv, LoadedCurrent
    <3> QED
      BY <3>2, <3>3
  <2>2. ASSUME NEW s \in Sessions, read'[s] # NoProduct
        PROVE  /\ edit'[s] # NoEdit
               /\ Exists(edit[s].product)'
               /\ product'[edit'[s].product].seller = read'[s].seller
               /\ OwnsProduct(edit[s].actor, read[s])'
    <3>1. edit' = edit /\ read' = read
      BY DEF EndSession
    <3>2. /\ edit[s] # NoEdit /\ Exists(edit[s].product)
          /\ product[edit[s].product].seller = read[s].seller
          /\ OwnsProduct(edit[s].actor, read[s])
      BY <2>2, <3>1 DEF IInv, LoadedCurrent
    <3>3. edit[s].product \in Products
      BY <3>2 DEF IInv, TypeOK, Edits
    <3> QED
      BY <3>1, <3>2, <3>3 DEF OwnsProduct, Exists
  <2> QED
    BY <2>1, <2>2 DEF LoadedCurrent
<1> QED
  BY <1>1, <1>2 DEF IInv

\* What the COMMIT of an order's session writes to a row: its stock.
LEMMA NewStockFits ==
    ASSUME IInv, NEW o \in Orders, AllLocked(o), product' = NewStock(o)
    PROVE  /\ product' \in [Products -> ProductRows \cup {NoProduct}]
           /\ \A p \in Products : lock[p] # o => product'[p] = product[p]
           /\ \A p \in Products :
                 Exists(p) => Exists(p)' /\ product'[p].seller = product[p].seller
<1>1. ASSUME NEW p \in Products, p \in Needed(o)
      PROVE  /\ product'[p] \in ProductRows
             /\ lock[p] = o
             /\ product'[p].seller = product[p].seller
  <2>1. lock[p] = o
    BY <1>1 DEF AllLocked
  <2>2. product[p] \in ProductRows
    BY <2>1, NeedsARow
  <2>3. PICK k \in Int : product'[p] = [product[p] EXCEPT !.stock = k]
    BY <1>1, StockFits DEF IInv, NewStock
  <2>4. product'[p] \in ProductRows
    BY <2>2, <2>3, RowsFit
  <2>5. product'[p].seller = product[p].seller
    BY <2>2, <2>3 DEF ProductRows
  <2> QED
    BY <2>1, <2>4, <2>5
<1>2. ASSUME NEW p \in Products, p \notin Needed(o) PROVE product'[p] = product[p]
  BY <1>2 DEF NewStock
<1>3. \A p \in Products : product[p] \in ProductRows \cup {NoProduct}
  BY DEF IInv, TypeOK
<1>4. product' \in [Products -> ProductRows \cup {NoProduct}]
  <2> DEFINE new == [p \in Products |-> product'[p]]
  <2>1. product' = new
    BY DEF NewStock
  <2>2. new \in [Products -> ProductRows \cup {NoProduct}]
    BY <1>1, <1>2, <1>3
  <2> QED
    BY <2>1, <2>2
<1> QED
  BY <1>1, <1>2, <1>4, RowsFit DEF Exists

\* A step that leaves alone what IInv says of orders and locks: a seller's.
LEMMA CommitEditKeepsIInv ==
    ASSUME IInv, NEW s \in Sessions, CommitEdit(s)
    PROVE  IInv'
<1> DEFINE p == edit[s].product
<1>1. /\ edit[s] \in Edits /\ p \in Products /\ read[s] \in ProductRows /\ Exists(p)
      /\ product[p] \in ProductRows
  BY DEF IInv, TypeOK, LoadedCurrent, CommitEdit, Edits, Exists
<1>2. PICK again \in BOOLEAN :
         /\ Written(s, again) # {} => RowFree(p)
         /\ product' = [product EXCEPT ![p] = Updated(@, s, Written(s, again))]
  BY DEF CommitEdit
<1> DEFINE row == Updated(product[p], s, Written(s, again))
<1>3. row \in ProductRows /\ row.seller = product[p].seller
      /\ (Written(s, again) = {} => row = product[p])
  <2>1. /\ Written(s, again) \subseteq Fields
        /\ \A k \in Written(s, again) : edit[s].body[k] # NoOne
    BY DEF Written, Named, Fields
  <2>2. edit[s].body \in UpdateBodies
    BY <1>1 DEF Edits
  <2>3. /\ "price" \in Written(s, again) => edit[s].body.price \in Prices
        /\ "stock" \in Written(s, again) => edit[s].body.stock \in Int
        /\ "status" \in Written(s, again) => edit[s].body.status \in Statuses
    <3>1. /\ edit[s].body.price \in Prices \cup {NoOne}
          /\ edit[s].body.stock \in StockLevels \cup {NoOne}
          /\ edit[s].body.status \in Statuses \cup {NoOne}
      BY <2>2 DEF UpdateBodies
    <3>2. StockLevels \subseteq Int
      BY ShopAssumption
    <3> QED
      BY <2>1, <3>1, <3>2
  <2>4. product[p] \in [seller : Actors, price : Prices, stock : Int, status : Statuses]
    BY <1>1 DEF ProductRows
  <2>5. "seller" \notin Written(s, again)
    BY <2>1 DEF Fields
  <2> QED
    BY <2>3, <2>4, <2>5 DEF Updated, ProductRows
<1>4. product' = [product EXCEPT ![p] = row]
  BY <1>2
<1> HIDE DEF row
<1>5. \A q \in Products : /\ Exists(q) => Exists(q)' /\ product'[q].seller = product[q].seller
                          /\ lock[q] # NoOne => product'[q] = product[q]
  BY <1>1, <1>2, <1>3, <1>4, RowsFit DEF Exists, RowFree, IInv, TypeOK
<1>6. TypeOK'
  BY <1>1, <1>3, <1>4 DEF IInv, TypeOK, CommitEdit
<1>7. LoadedCurrent'
  <2>1. ASSUME NEW o \in Orders, NEW q \in Products
        PROVE  IF lock'[q] = o THEN Exists(q)' /\ loaded'[o][q] = product'[q]
                               ELSE loaded'[o][q] = NoProduct
    <3>1. lock' = lock /\ loaded' = loaded
      BY DEF CommitEdit
    <3> QED
      BY <1>5, <3>1, ShopAssumption DEF IInv, LoadedCurrent
  <2>2. ASSUME NEW t \in Sessions, read'[t] # NoProduct
        PROVE  /\ edit'[t] # NoEdit
               /\ Exists(edit[t].product)'
               /\ product'[edit'[t].product].seller = read'[t].seller
               /\ OwnsProduct(edit[t].actor, read[t])'
    <3>1. t # s /\ edit'[t] = edit[t] /\ read'[t] = read[t]
      BY <2>2 DEF CommitEdit, IInv, TypeOK
    <3>2. /\ edit[t] # NoEdit /\ Exists(edit[t].product)
          /\ product[edit[t].product].seller = read[t].seller
          /\ OwnsProduct(edit[t].actor, read[t])
      BY <2>2, <3>1 DEF IInv, LoadedCurrent
    <3>3. edit[t].product \in Products
      BY <3>2 DEF IInv, TypeOK, Edits
    <3> QED
      BY <1>5, <3>1, <3>2, <3>3 DEF OwnsProduct, Exists
  <2> QED
    BY <2>1, <2>2 DEF LoadedCurrent
<1> QED
  BY <1>6, <1>7 DEF IInv

LEMMA NextIInv == IInv /\ [Next]_vars => IInv'
<1> SUFFICES ASSUME IInv, [Next]_vars PROVE IInv'
  OBVIOUS
<1>1. ASSUME NEW a \in Actors, NEW p \in Products, NEW body \in NewBodies,
             CreateProduct(a, p, body)
      PROVE  IInv'
  <2> DEFINE row == [seller |-> a, price |-> body.price, stock |-> body.stock,
                     status |-> body.status]
  <2>1. row \in ProductRows
    <3>1. body \in [price : Prices, stock : StockLevels, status : Statuses]
      BY ShopAssumption
    <3>2. StockLevels \subseteq Int
      BY ShopAssumption
    <3> QED
      BY <3>1, <3>2 DEF ProductRows
  <2>2. product' = [product EXCEPT ![p] = row] /\ ~Exists(p)
    BY <1>1 DEF CreateProduct
  <2> HIDE DEF row
  <2>3. TypeOK'
    BY <1>1, <2>1, <2>2 DEF IInv, TypeOK, CreateProduct
  <2>4. \A q \in Products : Exists(q) => product'[q] = product[q]
    BY <2>2 DEF IInv, TypeOK
  <2>5. LoadedCurrent'
    <3>1. \A s \in Sessions : read[s] # NoProduct => edit[s].product \in Products
      BY DEF IInv, TypeOK, LoadedCurrent, Edits
    <3> QED
      BY <1>1, <2>4, <3>1 DEF IInv, LoadedCurrent, Exists, CreateProduct, OwnsProduct
  <2> QED
    BY <2>3, <2>5 DEF IInv
<1>2. ASSUME NEW s \in Sessions, NEW a \in Actors, NEW p \in Products, NEW body \in UpdateBodies,
             OpenEdit(s, a, p, body)
      PROVE  IInv'
  <2> DEFINE rec == [actor |-> a, product |-> p, body |-> body]
  <2>1. rec \in Edits /\ edit' = [edit EXCEPT ![s] = rec] /\ read[s] = NoProduct
    BY <1>2 DEF OpenEdit, Edits, IInv, LoadedCurrent
  <2> HIDE DEF rec
  <2>2. TypeOK'
    BY <1>2, <2>1 DEF IInv, TypeOK, OpenEdit
  <2>3. \A t \in Sessions : read[t] # NoProduct => edit'[t] = edit[t]
    BY <2>1 DEF IInv, TypeOK
  <2>4. LoadedCurrent'
    BY <1>2, <2>3 DEF IInv, LoadedCurrent, OpenEdit, Exists, OwnsProduct
  <2> QED
    BY <2>2, <2>4 DEF IInv
<1>3. ASSUME NEW s \in Sessions, ReadProduct(s) PROVE IInv'
  <2>1. edit[s].product \in Products /\ product[edit[s].product] \in ProductRows
    BY <1>3 DEF ReadProduct, IInv, TypeOK, Edits, Exists
  <2>2. TypeOK'
    BY <1>3, <2>1 DEF IInv, TypeOK, ReadProduct
  <2>3. \A t \in Sessions : read'[t] = IF t = s THEN product[edit[s].product] ELSE read[t]
    BY <1>3 DEF ReadProduct, IInv, TypeOK
  <2>4. LoadedCurrent'
    BY <1>3, <2>3 DEF IInv, LoadedCurrent, ReadProduct, Exists, OwnsProduct
  <2> QED
    BY <2>2, <2>4 DEF IInv
<1>4. ASSUME NEW s \in Sessions, CommitEdit(s) PROVE IInv'
  BY <1>4, CommitEditKeepsIInv
<1>5. ASSUME NEW s \in Sessions, AbandonEdit(s) PROVE IInv'
  <2>1. TypeOK'
    BY <1>5 DEF IInv, TypeOK, AbandonEdit
  <2>2. \A t \in Sessions : read'[t] # NoProduct => read'[t] = read[t] /\ edit'[t] = edit[t]
    BY <1>5 DEF AbandonEdit, IInv, TypeOK
  <2>3. LoadedCurrent'
    BY <1>5, <2>2 DEF IInv, LoadedCurrent, AbandonEdit, Exists, OwnsProduct
  <2> QED
    BY <2>1, <2>3 DEF IInv
<1>6. ASSUME UNCHANGED <<product, order, lock, loaded, edit, read>>,
             promo' \in [Codes -> PromoRows \cup {NoPromo}],
             ask' \in [Orders -> [op : {"none", "create", "update", "cancel"},
                                  basket : Baskets \cup {NoBasket}, code : Codes \cup {NoOne}]]
      PROVE  IInv'
  BY <1>6 DEF IInv, TypeOK, LoadedCurrent, Exists, OwnsProduct
<1>7. ASSUME NEW a \in Actors, NEW c \in Codes, CreatePromoCode(a, c) PROVE IInv'
  BY <1>6, <1>7, ShopAssumption DEF CreatePromoCode, IInv, TypeOK
<1>8. ASSUME NEW o \in Orders, NEW b \in Baskets \cup {NoBasket}, NEW c \in Codes \cup {NoOne},
             NEW op \in {"create", "update", "cancel"},
             Begin(o, [op |-> op, basket |-> b, code |-> c])
      PROVE  IInv'
  BY <1>6, <1>8 DEF Begin, IInv, TypeOK
<1>9. ASSUME NEW o \in Orders, NEW p \in Products, LockProduct(o, p) PROVE IInv'
  <2>1. product[p] \in ProductRows
    BY <1>9 DEF LockProduct, Exists, IInv, TypeOK
  <2>2. TypeOK'
    BY <1>9, <2>1 DEF IInv, TypeOK, LockProduct
  <2>3. ASSUME NEW q \in Orders, NEW r \in Products
        PROVE  IF lock'[r] = q THEN Exists(r)' /\ loaded'[q][r] = product'[r]
                               ELSE loaded'[q][r] = NoProduct
    <3>1. lock'[r] = IF r = p THEN o ELSE lock[r]
      BY <1>9 DEF LockProduct, IInv, TypeOK
    <3>2. loaded'[q][r] = IF q = o /\ r = p THEN product[p] ELSE loaded[q][r]
      BY <1>9 DEF LockProduct, IInv, TypeOK
    <3>3. r = p => loaded[q][r] = NoProduct
      BY <1>9, ShopAssumption DEF LockProduct, RowFree, IInv, LoadedCurrent
    <3>4. product' = product
      BY <1>9 DEF LockProduct
    <3> QED
      BY <1>9, <3>1, <3>2, <3>3, <3>4 DEF IInv, LoadedCurrent, Exists, LockProduct
  <2>4. LoadedCurrent'
    BY <1>9, <2>3 DEF IInv, LoadedCurrent, LockProduct, Exists, OwnsProduct
  <2> QED
    BY <2>2, <2>4 DEF IInv
<1>10. ASSUME NEW o \in Orders, NEW row, EndSession(o), AllLocked(o), product' = NewStock(o),
              order' = [order EXCEPT ![o] = row],
              DOMAIN row = DOMAIN NoOrder, row.status \in {"NONE", "CREATED", "CANCELED"},
              row.promo \in Codes \cup {NoOne},
              row.lines \in [Products -> [quantity : Nat, price : Prices \cup {0}]]
       PROVE  IInv'
  <2>1. /\ DOMAIN order' = Orders
        /\ \A q \in Orders : order'[q] = IF q = o THEN row ELSE order[q]
    BY <1>10 DEF IInv, TypeOK
  <2> QED
    BY <1>10, <2>1, NewStockFits, EndKeepsIInv
<1>11. ASSUME NEW o \in Orders, CommitCreate(o) PROVE IInv'
  <2>1. PICK d : order' = [order EXCEPT ![o] = [Amounts(o, ask[o].code, d) EXCEPT !.status = "CREATED"]]
    BY <1>11 DEF CommitCreate
  <2> DEFINE row == [Amounts(o, ask[o].code, d) EXCEPT !.status = "CREATED"]
  <2>2. /\ DOMAIN row = DOMAIN NoOrder /\ row.status = "CREATED"
        /\ row.promo = ask[o].code /\ row.lines = NewLines(o)
    BY DEF Amounts, IInv, TypeOK, NoOrder
  <2>3. ask[o].code \in Codes \cup {NoOne}
    BY DEF IInv, TypeOK
  <2>4. NewLines(o) \in [Products -> [quantity : Nat, price : Prices \cup {0}]]
    BY NewLinesFit DEF IInv
  <2>5. order' = [order EXCEPT ![o] = row]
    BY <2>1
  <2> HIDE DEF row
  <2> QED
    BY <1>10, <1>11, <2>2, <2>3, <2>4, <2>5 DEF CommitCreate
<1>12. ASSUME NEW o \in Orders, CommitUpdate(o) PROVE IInv'
  <2>1. PICK c, d : c \in {order[o].promo, NoOne} /\ order' = [order EXCEPT ![o] = Amounts(o, c, d)]
    BY <1>12 DEF CommitUpdate
  <2> DEFINE row == Amounts(o, c, d)
  <2>2. /\ DOMAIN row = DOMAIN NoOrder /\ row.status = order[o].status
        /\ row.promo = c /\ row.lines = NewLines(o)
    BY DEF Amounts, IInv, TypeOK, NoOrder
  <2>3. c \in Codes \cup {NoOne} /\ order[o].status \in {"NONE", "CREATED", "CANCELED"}
    BY <2>1 DEF IInv, TypeOK
  <2>4. NewLines(o) \in [Products -> [quantity : Nat, price : Prices \cup {0}]]
    BY NewLinesFit DEF IInv
  <2>5. order' = [order EXCEPT ![o] = row]
    BY <2>1
  <2> HIDE DEF row
  <2> QED
    BY <1>10, <1>12, <2>2, <2>3, <2>4, <2>5 DEF CommitUpdate
<1>13. ASSUME NEW o \in Orders, CommitCancel(o) PROVE IInv'
  <2> DEFINE row == [order[o] EXCEPT !.status = "CANCELED"]
  <2>1. /\ DOMAIN row = DOMAIN NoOrder /\ row.status = "CANCELED"
        /\ row.promo = order[o].promo /\ row.lines = order[o].lines
    BY DEF IInv, TypeOK, NoOrder
  <2>2. /\ order[o].promo \in Codes \cup {NoOne}
        /\ order[o].lines \in [Products -> [quantity : Nat, price : Prices \cup {0}]]
    BY DEF IInv, TypeOK
  <2>3. order' = [order EXCEPT ![o] = row]
    BY <1>13 DEF CommitCancel
  <2> HIDE DEF row
  <2> QED
    BY <1>10, <1>13, <2>1, <2>2, <2>3 DEF CommitCancel
<1>14. ASSUME NEW o \in Orders, AbandonOrder(o) PROVE IInv'
  <2>1. /\ DOMAIN order = Orders
        /\ DOMAIN order[o] = DOMAIN NoOrder
        /\ order[o].status \in {"NONE", "CREATED", "CANCELED"}
        /\ order[o].promo \in Codes \cup {NoOne}
        /\ order[o].lines \in [Products -> [quantity : Nat, price : Prices \cup {0}]]
    BY DEF IInv, TypeOK
  <2>2. order' = order
    BY <1>14 DEF AbandonOrder
  <2>3. product' = product /\ EndSession(o)
    BY <1>14 DEF AbandonOrder
  <2>4. /\ product' \in [Products -> ProductRows \cup {NoProduct}]
        /\ \A p \in Products : Exists(p) => Exists(p)' /\ product'[p].seller = product[p].seller
    BY <2>3 DEF IInv, TypeOK, Exists
  <2> QED
    BY <2>1, <2>2, <2>3, <2>4, EndKeepsIInv
<1>15. CASE UNCHANGED vars
  BY <1>6, <1>15 DEF vars, IInv, TypeOK
<1>16. Bodies \subseteq UpdateBodies /\ [NoBody EXCEPT !.status = "ARCHIVED"] \in UpdateBodies
  BY ShopAssumption DEF UpdateBodies, NoBody, Statuses
<1>17. ASSUME NEW s \in Sessions, NEW a \in Actors, NEW p \in Products,
              UpdateProduct(s, a, p) \/ ArchiveProduct(s, a, p)
       PROVE  IInv'
  BY <1>2, <1>16, <1>17 DEF UpdateProduct, ArchiveProduct
<1>18. ASSUME NEW o \in Orders,
              \/ \E b \in Baskets : UpdateOrder(o, b)
              \/ \E b \in Baskets, c \in Codes \cup {NoOne} : CreateOrder(o, b, c)
              \/ CancelOrder(o)
       PROVE  IInv'
  BY <1>8, <1>18 DEF UpdateOrder, CreateOrder, CancelOrder
<1> QED
  BY <1>1, <1>3, <1>4, <1>5, <1>7, <1>9, <1>11, <1>12, <1>13, <1>14, <1>15, <1>17, <1>18
     DEF Next

\* A row that an order's session has loaded is locked by it and is as it was loaded; a
\* seller's session that read a row still may write it.
THEOREM ShopInvariant == Spec => []IInv
<1> QED
  BY InitIInv, NextIInv, PTL DEF Spec

-----------------------------------------------------------------------------
(* What the steps may do                                                   *)

LEMMA OrdersUntouched ==
    ASSUME Next,
           ~\E o \in Orders : CommitCreate(o) \/ CommitUpdate(o) \/ CommitCancel(o)
    PROVE  order' = order
BY DEF Next, CreateProduct, UpdateProduct, ArchiveProduct, OpenEdit, ReadProduct, CommitEdit,
       AbandonEdit, CreatePromoCode, Begin, UpdateOrder, CreateOrder, CancelOrder, LockProduct,
       AbandonOrder

LEMMA ProductsUntouched ==
    ASSUME Next,
           ~\E o \in Orders : CommitCreate(o) \/ CommitUpdate(o) \/ CommitCancel(o),
           ~\E s \in Sessions : CommitEdit(s),
           ~\E a \in Actors, p \in Products, body \in NewBodies : CreateProduct(a, p, body)
    PROVE  product' = product
BY DEF Next, UpdateProduct, ArchiveProduct, OpenEdit, ReadProduct,
       AbandonEdit, CreatePromoCode, Begin, UpdateOrder, CreateOrder, CancelOrder, LockProduct,
       AbandonOrder

\* A line that a COMMIT writes has the price that the product's row has then.
LEMMA NewLinesCurrent ==
    ASSUME IInv, NEW o \in Orders, AllLocked(o), NEW p \in Products,
           NewLines(o)[p].quantity > 0
    PROVE  NewLines(o)[p].price = product[p].price
<1>1. order[o].lines[p].quantity \in Nat /\ ask[o].basket[p] \in Nat
  BY StockFits DEF IInv
<1>2. ask[o].basket[p] # 0
  BY DEF NewLines, NoLine
<1>3. lock[p] = o
  BY <1>1, <1>2 DEF AllLocked, Needed
<1>4. loaded[o][p] = product[p]
  BY <1>3, NeedsARow
<1> QED
  BY <1>2, <1>4 DEF NewLines

\* The lines that an order gets have the prices of its COMMIT.
THEOREM LinesAtCurrentPrice == Spec => PricesCurrent
<1> DEFINE Current == \A o \in Orders : order'[o] # order[o] /\ order'[o].status = "CREATED" =>
                         \A p \in Products : order'[o].lines[p].quantity > 0 =>
                            order'[o].lines[p].price = product[p].price
<1>1. IInv /\ [Next]_vars => [Current]_vars
  <2> SUFFICES ASSUME IInv, Next, NEW o \in Orders,
                      order'[o] # order[o], order'[o].status = "CREATED"
               PROVE  \A p \in Products : order'[o].lines[p].quantity > 0 =>
                         order'[o].lines[p].price = product[p].price
    OBVIOUS
  <2>1. DOMAIN order = Orders /\ DOMAIN order[o] = DOMAIN NoOrder
    BY DEF IInv, TypeOK
  <2>2. PICK q \in Orders : CommitCreate(q) \/ CommitUpdate(q) \/ CommitCancel(q)
    BY OrdersUntouched
  <2>3. CASE CommitCancel(q)
    <3>1. q = o
      BY <2>1, <2>3 DEF CommitCancel
    <3> QED
      BY <2>1, <2>3, <3>1 DEF CommitCancel, NoOrder
  <2>4. CASE CommitCreate(q) \/ CommitUpdate(q)
    <3>1. q = o
      BY <2>1, <2>4 DEF CommitCreate, CommitUpdate
    <3>2. order'[o].lines = NewLines(o)
      <4>1. PICK c, d : \/ order' = [order EXCEPT ![o] = Amounts(o, c, d)]
                        \/ order' = [order EXCEPT ![o] = [Amounts(o, c, d) EXCEPT !.status = "CREATED"]]
        BY <2>4, <3>1 DEF CommitCreate, CommitUpdate
      <4>2. /\ Amounts(o, c, d).lines = NewLines(o)
            /\ [Amounts(o, c, d) EXCEPT !.status = "CREATED"].lines = NewLines(o)
        BY <2>1 DEF Amounts, NoOrder
      <4> QED
        BY <2>1, <4>1, <4>2
    <3>3. AllLocked(o)
      BY <2>4, <3>1 DEF CommitCreate, CommitUpdate
    <3> QED
      BY <3>2, <3>3, NewLinesCurrent
  <2> QED
    BY <2>2, <2>3, <2>4
<1> QED
  BY <1>1, InitIInv, NextIInv, PTL DEF Spec, PricesCurrent

\* A product leaves a status other than ACTIVE by a seller's session that saw that status.
THEOREM ArchivedStaysArchived == Spec => ArchiveSticks
<1> DEFINE Sticks == \A p \in Products :
                        product[p].status # "ACTIVE" /\ product'[p].status = "ACTIVE" /\ Exists(p) =>
                           \E s \in Sessions :
                              edit[s].product = p /\ edit[s].body.status = "ACTIVE"
                              /\ read[s] # NoProduct /\ read[s].status # "ACTIVE"
<1>1. IInv /\ [Next]_vars => [Sticks]_vars
  <2> SUFFICES ASSUME IInv, Next, NEW p \in Products, Exists(p),
                      product[p].status # "ACTIVE", product'[p].status = "ACTIVE"
               PROVE  \E s \in Sessions :
                         edit[s].product = p /\ edit[s].body.status = "ACTIVE"
                         /\ read[s] # NoProduct /\ read[s].status # "ACTIVE"
    OBVIOUS
  <2>1. product[p] \in ProductRows
    BY DEF IInv, TypeOK, Exists
  <2>2. ASSUME NEW o \in Orders, product' = NewStock(o) PROVE FALSE
    <3>1. product'[p].status = product[p].status
      BY <2>1, <2>2 DEF NewStock, ProductRows
    <3> QED
      BY <3>1
  <2>3. ASSUME NEW a \in Actors, NEW q \in Products, NEW body \in NewBodies,
               CreateProduct(a, q, body)
        PROVE  FALSE
    <3>1. product'[p] = product[p]
      BY <2>3 DEF CreateProduct, IInv, TypeOK
    <3> QED
      BY <3>1
  <2>4. PICK s \in Sessions : CommitEdit(s)
    BY <2>2, <2>3, ProductsUntouched DEF CommitCreate, CommitUpdate, CommitCancel
  <2>5. PICK again \in BOOLEAN :
           product' = [product EXCEPT ![edit[s].product] = Updated(@, s, Written(s, again))]
    BY <2>4 DEF CommitEdit
  <2>6. edit[s].product = p
    BY <2>5 DEF IInv, TypeOK
  <2>7. product'[p] = Updated(product[p], s, Written(s, again))
    BY <2>5, <2>6 DEF IInv, TypeOK
  <2>8. product'[p].status = IF "status" \in Written(s, again) THEN edit[s].body.status
                             ELSE product[p].status
    BY <2>1, <2>7 DEF Updated, ProductRows
  <2>9. "status" \in Written(s, again) /\ edit[s].body.status = "ACTIVE"
    BY <2>8
  <2>10. read[s].status # "ACTIVE"
    BY <2>9 DEF Written
  <2> QED
    BY <2>4, <2>6, <2>9, <2>10 DEF CommitEdit
<1> QED
  BY <1>1, InitIInv, NextIInv, PTL DEF Spec, ArchiveSticks

-----------------------------------------------------------------------------
(* One discount                                                            *)

LEMMA RoundedBounds ==
    ASSUME NEW n \in Nat, NEW d \in Nat \ {0}, NEW q \in Rounded(n, d)
    PROVE  q \in Nat /\ 2 * q * d - 2 * n <= d
<1>1. n \div d \in Nat
  OBVIOUS
<1> QED
  BY <1>1 DEF Rounded

\* calculate_discount: never negative, never more than the order, a percentage never more
\* than 70 % and half a cent, a fixed amount never more than its value.
THEOREM DiscountBounded ==
    ASSUME NEW code \in PromoRows, NEW base \in Nat, NEW d \in CalculateDiscount(code, base)
    PROVE  /\ d \in Nat /\ d <= base
           /\ code.kind = "PERCENTAGE" => 2 * Whole * d <= 2 * MaxRate * base + Whole
           /\ code.kind = "FIXED_AMOUNT" => d <= code.value
<1>1. code.value \in Nat /\ code.kind \in {"PERCENTAGE", "FIXED_AMOUNT"}
  BY DEF PromoRows
<1>2. CASE code.kind = "FIXED_AMOUNT"
  BY <1>1, <1>2 DEF CalculateDiscount, Lesser
<1>3. CASE code.kind = "PERCENTAGE"
  <2> DEFINE rate == Lesser(code.value, MaxRate)
  <2>1. rate \in Nat /\ rate <= 7000
    BY <1>1 DEF Lesser, MaxRate
  <2>2. d \in Rounded(base * rate, 10000)
    BY <1>3 DEF CalculateDiscount, Whole
  <2> HIDE DEF rate
  <2>3. base * rate \in Nat /\ base * rate <= base * 7000
    BY <2>1
  <2>4. d \in Nat /\ 2 * d * 10000 - 2 * (base * rate) <= 10000
    BY <2>2, <2>3, RoundedBounds
  <2> QED
    BY <1>3, <2>3, <2>4 DEF Whole, MaxRate
<1> QED
  BY <1>1, <1>2, <1>3

-----------------------------------------------------------------------------
(* What the tables say together                                            *)

\* What a session is to do fits the state of its order; lines are of products that exist
\* and a promo code that an order has was created.
TablesInv ==
    /\ \A o \in Orders :
          /\ ask[o].op = "create" => order[o].status = "NONE"
          /\ ask[o].op \in {"update", "cancel"} => order[o].status = "CREATED"
          /\ ask[o].op = "cancel" => ask[o].basket = NoBasket
          /\ order[o].promo # NoOne => promo[order[o].promo] # NoPromo
    /\ \A o \in Orders, p \in Products :
          /\ order[o].status = "NONE" => order[o].lines[p].quantity = 0
          /\ order[o].lines[p].quantity > 0 => Exists(p)

LEMMA InitTablesInv == Init => TablesInv
BY DEF Init, TablesInv, NoAsk, NoOrder, NoLine

\* The steps that write no order.
LEMMA QuietKeepsTables ==
    ASSUME TablesInv, TypeOK, order' = order,
           \A o \in Orders : ask'[o] = ask[o] \/ ask'[o] = NoAsk,
           \A c \in Codes : promo[c] # NoPromo => promo'[c] # NoPromo,
           \A p \in Products : Exists(p) => Exists(p)'
    PROVE  TablesInv'
<1>1. ASSUME NEW o \in Orders
      PROVE  /\ ask'[o].op = "create" => order'[o].status = "NONE"
             /\ ask'[o].op \in {"update", "cancel"} => order'[o].status = "CREATED"
             /\ ask'[o].op = "cancel" => ask'[o].basket = NoBasket
             /\ order'[o].promo # NoOne => promo'[order'[o].promo] # NoPromo
  <2>1. order[o].promo \in Codes \cup {NoOne} /\ order'[o] = order[o]
    BY DEF TypeOK
  <2>2. order[o].promo # NoOne => promo'[order[o].promo] # NoPromo
    BY <2>1 DEF TablesInv
  <2>3. CASE ask'[o] = ask[o]
    BY <2>1, <2>2, <2>3 DEF TablesInv
  <2>4. CASE ask'[o] = NoAsk
    BY <2>1, <2>2, <2>4 DEF NoAsk
  <2> QED
    BY <2>3, <2>4
<1>2. ASSUME NEW o \in Orders, NEW p \in Products
      PROVE  /\ order'[o].status = "NONE" => order'[o].lines[p].quantity = 0
             /\ order'[o].lines[p].quantity > 0 => Exists(p)'
  BY DEF TablesInv
<1> QED
  BY <1>1, <1>2 DEF TablesInv

\* A line is of a product whose row the order's session has locked.
LEMMA NewLinesExist ==
    ASSUME IInv, NEW o \in Orders, AllLocked(o), NEW p \in Products,
           NewLines(o)[p].quantity > 0
    PROVE  Exists(p)
<1>1. order[o].lines[p].quantity \in Nat /\ ask[o].basket[p] \in Nat
  BY StockFits DEF IInv
<1>2. ask[o].basket[p] # 0
  BY DEF NewLines, NoLine
<1>3. lock[p] = o
  BY <1>1, <1>2 DEF AllLocked, Needed
<1> QED
  BY <1>3 DEF IInv, LoadedCurrent

\* What the three COMMITs write.
LEMMA CreateWrites ==
    ASSUME IInv, NEW o \in Orders, CommitCreate(o)
    PROVE  /\ \A q \in Orders \ {o} : order'[q] = order[q]
           /\ order'[o].status = "CREATED" /\ order'[o].lines = NewLines(o)
           /\ order'[o].promo = ask[o].code
           /\ order'[o].total = Base(NewLines(o)) - order'[o].discount
           /\ order'[o].discount \in IF ask[o].code = NoOne THEN {0}
                  ELSE CalculateDiscount(promo[ask[o].code], Base(NewLines(o)))
<1>1. PICK d \in IF ask[o].code = NoOne THEN {0}
                 ELSE CalculateDiscount(promo[ask[o].code], Base(NewLines(o))) :
         order' = [order EXCEPT ![o] = [Amounts(o, ask[o].code, d) EXCEPT !.status = "CREATED"]]
  BY DEF CommitCreate
<1>2. DOMAIN order = Orders /\ DOMAIN order[o] = DOMAIN NoOrder
  BY DEF IInv, TypeOK
<1>3. order'[o] = [Amounts(o, ask[o].code, d) EXCEPT !.status = "CREATED"]
  BY <1>1, <1>2
<1>4. /\ order'[o].status = "CREATED" /\ order'[o].lines = NewLines(o)
      /\ order'[o].promo = ask[o].code /\ order'[o].discount = d
      /\ order'[o].total = Base(NewLines(o)) - d
  BY <1>2, <1>3 DEF Amounts, NoOrder
<1> QED
  BY <1>1, <1>2, <1>4

LEMMA UpdateWrites ==
    ASSUME IInv, NEW o \in Orders, CommitUpdate(o)
    PROVE  /\ \A q \in Orders \ {o} : order'[q] = order[q]
           /\ order'[o].status = order[o].status /\ order'[o].lines = NewLines(o)
           /\ order'[o].total = Base(NewLines(o)) - order'[o].discount
           /\ \/ /\ order'[o].promo = order[o].promo
                 /\ order[o].promo # NoOne /\ Earned(order[o].promo, Base(NewLines(o)))
                 /\ order'[o].discount \in
                       CalculateDiscount(promo[order[o].promo], Base(NewLines(o)))
              \/ order'[o].promo = NoOne /\ order'[o].discount = 0
<1>1. DOMAIN order = Orders /\ DOMAIN order[o] = DOMAIN NoOrder
  BY DEF IInv, TypeOK
<1>2. ASSUME NEW c, NEW d, order' = [order EXCEPT ![o] = Amounts(o, c, d)]
      PROVE  /\ \A q \in Orders \ {o} : order'[q] = order[q]
             /\ order'[o].status = order[o].status /\ order'[o].lines = NewLines(o)
             /\ order'[o].total = Base(NewLines(o)) - d
             /\ order'[o].promo = c /\ order'[o].discount = d
  BY <1>1, <1>2 DEF Amounts, NoOrder
<1>3. CASE /\ order[o].promo # NoOne /\ Earned(order[o].promo, Base(NewLines(o)))
           /\ \E d \in CalculateDiscount(promo[order[o].promo], Base(NewLines(o))) :
                 order' = [order EXCEPT ![o] = Amounts(o, order[o].promo, d)]
  <2>1. PICK d \in CalculateDiscount(promo[order[o].promo], Base(NewLines(o))) :
           order' = [order EXCEPT ![o] = Amounts(o, order[o].promo, d)]
    BY <1>3
  <2> DEFINE c == order[o].promo
  <2>2. order' = [order EXCEPT ![o] = Amounts(o, c, d)]
    BY <2>1
  <2> HIDE DEF c
  <2>3. /\ \A q \in Orders \ {o} : order'[q] = order[q]
        /\ order'[o].status = order[o].status /\ order'[o].lines = NewLines(o)
        /\ order'[o].total = Base(NewLines(o)) - d
        /\ order'[o].promo = c /\ order'[o].discount = d
    BY <1>2, <2>2
  <2> QED
    BY <1>3, <2>3 DEF c
<1>4. CASE order' = [order EXCEPT ![o] = Amounts(o, NoOne, 0)]
  BY <1>2, <1>4
<1> QED
  BY <1>3, <1>4 DEF CommitUpdate

LEMMA CancelWrites ==
    ASSUME IInv, NEW o \in Orders, CommitCancel(o)
    PROVE  /\ \A q \in Orders \ {o} : order'[q] = order[q]
           /\ order'[o].status = "CANCELED" /\ order'[o].lines = order[o].lines
           /\ order'[o].promo = order[o].promo
           /\ order'[o].total = order[o].total /\ order'[o].discount = order[o].discount
<1>1. DOMAIN order = Orders /\ DOMAIN order[o] = DOMAIN NoOrder
  BY DEF IInv, TypeOK
<1> QED
  BY <1>1 DEF CommitCancel, NoOrder

LEMMA WrittenKeepsTables ==
    ASSUME IInv, TablesInv, NEW o \in Orders, EndSession(o), AllLocked(o), product' = NewStock(o),
           \A q \in Orders \ {o} : order'[q] = order[q],
           order'[o].status \in {"CREATED", "CANCELED"},
           order'[o].promo # NoOne => promo[order'[o].promo] # NoPromo,
           \A p \in Products : order'[o].lines[p].quantity > 0 => Exists(p)
    PROVE  TablesInv'
<1>1. ask'[o] = NoAsk /\ promo' = promo /\ \A q \in Orders \ {o} : ask'[q] = ask[q]
  BY DEF EndSession, IInv, TypeOK
<1>2. \A p \in Products : Exists(p) => Exists(p)'
  BY NewStockFits
<1>3. ASSUME NEW q \in Orders
      PROVE  /\ ask'[q].op = "create" => order'[q].status = "NONE"
             /\ ask'[q].op \in {"update", "cancel"} => order'[q].status = "CREATED"
             /\ ask'[q].op = "cancel" => ask'[q].basket = NoBasket
             /\ order'[q].promo # NoOne => promo'[order'[q].promo] # NoPromo
  <2>1. CASE q = o
    BY <1>1, <2>1 DEF NoAsk
  <2>2. CASE q # o
    BY <1>1, <2>2 DEF TablesInv
  <2> QED
    BY <2>1, <2>2
<1>4. ASSUME NEW q \in Orders, NEW p \in Products
      PROVE  /\ order'[q].status = "NONE" => order'[q].lines[p].quantity = 0
             /\ order'[q].lines[p].quantity > 0 => Exists(p)'
  <2>1. CASE q = o
    BY <1>2, <2>1
  <2>2. CASE q # o
    BY <1>2, <2>2 DEF TablesInv
  <2> QED
    BY <2>1, <2>2
<1> QED
  BY <1>3, <1>4 DEF TablesInv

LEMMA NextTablesInv ==
    ASSUME IInv, TablesInv, [Next]_vars
    PROVE  TablesInv'
<1>t. TypeOK
  BY DEF IInv
<1>1. ASSUME NEW a \in Actors, NEW p \in Products, NEW body \in NewBodies,
             CreateProduct(a, p, body)
      PROVE  TablesInv'
  <2>1. product'[p].seller = a /\ \A q \in Products \ {p} : product'[q] = product[q]
    BY <1>1, <1>t DEF CreateProduct, TypeOK
  <2>2. \A q \in Products : Exists(q) => Exists(q)'
    BY <1>1, <2>1 DEF CreateProduct, Exists
  <2> QED
    BY <1>1, <1>t, <2>2, QuietKeepsTables DEF CreateProduct
<1>2. ASSUME NEW s \in Sessions, CommitEdit(s) PROVE TablesInv'
  <2>1. \A p \in Products : Exists(p) => Exists(p)'
    <3>1. PICK k : \E again \in BOOLEAN :
             product' = [product EXCEPT ![edit[s].product] = Updated(@, s, Written(s, again))]
             /\ k = edit[s].product
      BY <1>2 DEF CommitEdit
    <3>2. k \in Products /\ Exists(k) /\ product'[k].seller = product[k].seller
      <4>1. k \in Products /\ Exists(k) /\ product[k] \in ProductRows
        BY <1>2, <1>t, <3>1 DEF CommitEdit, IInv, TypeOK, LoadedCurrent, Edits, Exists
      <4>2. PICK again \in BOOLEAN : product'[k] = Updated(product[k], s, Written(s, again))
        BY <1>t, <3>1, <4>1 DEF TypeOK
      <4>3. "seller" \notin Written(s, again)
        BY DEF Written, Named, Fields
      <4> QED
        BY <4>1, <4>2, <4>3 DEF Updated, ProductRows
    <3>3. \A p \in Products \ {k} : product'[p] = product[p]
      BY <1>t, <3>1 DEF TypeOK
    <3>4. product[k] \in ProductRows
      BY <1>t, <3>2 DEF TypeOK, Exists
    <3> QED
      BY <3>2, <3>3, <3>4, ShopAssumption DEF Exists, NoProduct, ProductRows
  <2> QED
    BY <1>2, <1>t, <2>1, QuietKeepsTables DEF CommitEdit
<1>3. ASSUME UNCHANGED <<product, order, ask>>,
             \A c \in Codes : promo[c] # NoPromo => promo'[c] # NoPromo
      PROVE  TablesInv'
  BY <1>3, <1>t, QuietKeepsTables DEF Exists
<1>4. ASSUME NEW a \in Actors, NEW c \in Codes, CreatePromoCode(a, c) PROVE TablesInv'
  BY <1>3, <1>4, <1>t DEF CreatePromoCode, TypeOK
<1>5. ASSUME NEW s \in Sessions, NEW a, NEW p, NEW body,
             OpenEdit(s, a, p, body) \/ ReadProduct(s) \/ AbandonEdit(s)
      PROVE  TablesInv'
  BY <1>3, <1>5 DEF OpenEdit, ReadProduct, AbandonEdit
<1>6. ASSUME NEW o \in Orders, NEW p \in Products, LockProduct(o, p) PROVE TablesInv'
  BY <1>3, <1>6 DEF LockProduct
<1>7. ASSUME NEW o \in Orders, NEW b, NEW c, NEW op \in {"create", "update", "cancel"},
             op = "cancel" => b = NoBasket, Begin(o, [op |-> op, basket |-> b, code |-> c])
      PROVE  TablesInv'
  <2> DEFINE rec == [op |-> op, basket |-> b, code |-> c]
  <2>1. rec.op = op /\ rec.basket = b
    OBVIOUS
  <2>2. order[o].status = (IF rec.op = "create" THEN "NONE" ELSE "CREATED")
    BY <1>7 DEF Begin
  <2>3. ask' = [ask EXCEPT ![o] = rec]
    BY <1>7 DEF Begin
  <2> HIDE DEF rec
  <2>4. ask'[o] = rec /\ \A q \in Orders \ {o} : ask'[q] = ask[q]
    BY <1>t, <2>3 DEF TypeOK
  <2> QED
    BY <1>7, <2>1, <2>2, <2>4 DEF TablesInv, Begin, Exists
<1>8. ASSUME NEW o \in Orders, CommitCreate(o) PROVE TablesInv'
  BY <1>8, CreateWrites, NewLinesExist, WrittenKeepsTables DEF CommitCreate
<1>9. ASSUME NEW o \in Orders, CommitUpdate(o) PROVE TablesInv'
  <2>1. order[o].status = "CREATED" /\ (order[o].promo # NoOne => promo[order[o].promo] # NoPromo)
    BY <1>9 DEF CommitUpdate, TablesInv
  <2> QED
    BY <1>9, <2>1, UpdateWrites, NewLinesExist, WrittenKeepsTables DEF CommitUpdate
<1>10. ASSUME NEW o \in Orders, CommitCancel(o) PROVE TablesInv'
  <2>1. /\ order[o].promo # NoOne => promo[order[o].promo] # NoPromo
        /\ \A p \in Products : order[o].lines[p].quantity > 0 => Exists(p)
    BY DEF TablesInv
  <2> QED
    BY <1>10, <2>1, CancelWrites, WrittenKeepsTables DEF CommitCancel
<1>11. ASSUME NEW o \in Orders, AbandonOrder(o) PROVE TablesInv'
  <2>1. \A q \in Orders : ask'[q] = ask[q] \/ ask'[q] = NoAsk
    BY <1>11, <1>t DEF AbandonOrder, EndSession, TypeOK
  <2> QED
    BY <1>11, <1>t, <2>1, QuietKeepsTables DEF AbandonOrder, EndSession, Exists
<1>12. CASE UNCHANGED vars
  BY <1>3, <1>12 DEF vars
<1>13. ASSUME NEW o \in Orders,
              \/ \E b \in Baskets : UpdateOrder(o, b)
              \/ \E b \in Baskets, c \in Codes \cup {NoOne} : CreateOrder(o, b, c)
              \/ CancelOrder(o)
       PROVE  TablesInv'
  BY <1>7, <1>13 DEF UpdateOrder, CreateOrder, CancelOrder
<1>14. ASSUME NEW s \in Sessions, NEW a \in Actors, NEW p \in Products,
              UpdateProduct(s, a, p) \/ ArchiveProduct(s, a, p)
       PROVE  TablesInv'
  BY <1>5, <1>14 DEF UpdateProduct, ArchiveProduct
<1> QED
  BY <1>1, <1>2, <1>4, <1>5, <1>6, <1>8, <1>9, <1>10, <1>11, <1>12, <1>13, <1>14 DEF Next
-----------------------------------------------------------------------------
(* What an order comes to                                                  *)

LEMMA BaseNat ==
    ASSUME NEW lines \in [Products -> [quantity : Nat, price : Prices \cup {0}]]
    PROVE  Base(lines) \in Nat
<1> DEFINE f == [p \in Products |-> lines[p].quantity * lines[p].price]
<1>1. \A p \in Products : f[p] \in Nat
  <2>1. \A p \in Products : lines[p].quantity \in Nat /\ lines[p].price \in Prices \cup {0}
    OBVIOUS
  <2>2. Prices \cup {0} \subseteq Nat
    BY ShopAssumption
  <2>3. \A p \in Products : lines[p].quantity \in Nat /\ lines[p].price \in Nat
    BY <2>1, <2>2
  <2>4. \A m, n \in Nat : m * n \in Nat
    OBVIOUS
  <2> QED
    BY <2>3, <2>4
<1>2. DOMAIN f = Products /\ Base(lines) = SumFunctionOnSet(f, DOMAIN f)
  BY DEF Base, SumFunction
<1> HIDE DEF f
<1> QED
  BY <1>1, <1>2, SumNat, ShopAssumption

\* What PromoEarned says of one row, given the promo codes.
EarnedRow(row, codes) ==
    LET d == row.discount
        c == row.promo
        base == Base(row.lines) IN
    /\ 0 <= d /\ d <= base
    /\ c = NoOne => d = 0
    /\ c # NoOne => /\ base >= codes[c].minimum
                    /\ IF codes[c].kind = "PERCENTAGE"
                       THEN 2 * Whole * d <= 2 * MaxRate * base + Whole
                       ELSE d <= codes[c].value

\* The discount that a COMMIT computes is one that the lines it writes give.
LEMMA DiscountIsEarned ==
    ASSUME TypeOK, NEW row, row.lines \in [Products -> [quantity : Nat, price : Prices \cup {0}]],
           row.promo \in Codes \cup {NoOne},
           row.total = Base(row.lines) - row.discount,
           row.promo = NoOne => row.discount = 0,
           row.promo # NoOne => /\ promo[row.promo] # NoPromo
                                /\ Earned(row.promo, Base(row.lines))
                                /\ row.discount \in CalculateDiscount(promo[row.promo], Base(row.lines))
    PROVE  row.total + row.discount = Base(row.lines) /\ EarnedRow(row, promo)
<1> DEFINE base == Base(row.lines)
<1>1. base \in Nat
  BY BaseNat
<1>2. CASE row.promo = NoOne
  BY <1>1, <1>2 DEF EarnedRow
<1>3. CASE row.promo # NoOne
  <2> DEFINE code == promo[row.promo]
             d == row.discount
  <2>1. code \in PromoRows
    BY <1>3 DEF TypeOK
  <2>2. base >= code.minimum /\ d \in CalculateDiscount(code, base)
    BY <1>3 DEF Earned
  <2>3. code.kind \in {"PERCENTAGE", "FIXED_AMOUNT"}
    BY <2>1 DEF PromoRows
  <2> HIDE DEF code, d, base
  <2>4. /\ d \in Nat /\ d <= base
        /\ code.kind = "PERCENTAGE" => 2 * Whole * d <= 2 * MaxRate * base + Whole
        /\ code.kind = "FIXED_AMOUNT" => d <= code.value
    BY <1>1, <2>1, <2>2, DiscountBounded
  <2>5. row.total + d = base
    BY <1>1, <2>4 DEF base, d
  <2>6. /\ 0 <= d /\ d <= base /\ base >= code.minimum
        /\ IF code.kind = "PERCENTAGE" THEN 2 * Whole * d <= 2 * MaxRate * base + Whole
                                       ELSE d <= code.value
    BY <2>2, <2>3, <2>4
  <2> QED
    BY <1>3, <2>5, <2>6, Zenon DEF EarnedRow, base, code, d
<1> QED
  BY <1>2, <1>3

LEMMA InitAmounts == Init => AmountsAdd /\ PromoEarned
<1> SUFFICES ASSUME Init PROVE AmountsAdd /\ PromoEarned
  OBVIOUS
<1> DEFINE f == [p \in Products |-> NoLine.quantity * NoLine.price]
<1>1. \A p \in Products : f[p] = 0
  BY DEF NoLine
<1>2. DOMAIN f = Products /\ Base(NoOrder.lines) = SumFunctionOnSet(f, DOMAIN f)
  BY DEF Base, SumFunction, NoOrder
<1> HIDE DEF f
<1>3. Base(NoOrder.lines) = 0
  BY <1>1, <1>2, SumZero, ShopAssumption
<1>4. NoOrder.total = 0 /\ NoOrder.discount = 0 /\ NoOrder.promo = NoOne
  BY DEF NoOrder
<1>5. \A o \in Orders : order[o] = NoOrder
  BY DEF Init
<1> QED
  BY <1>3, <1>4, <1>5 DEF AmountsAdd, PromoEarned

LEMMA NextKeepsAmounts ==
    ASSUME IInv, TablesInv, AmountsAdd, PromoEarned, [Next]_vars
    PROVE  AmountsAdd' /\ PromoEarned'
<1>t. TypeOK
  BY DEF IInv
<1>a. /\ \A o \in Orders : order[o].total + order[o].discount = Base(order[o].lines)
      /\ \A o \in Orders : EarnedRow(order[o], promo)
  BY DEF AmountsAdd, PromoEarned, EarnedRow
<1>1. ASSUME NEW o \in Orders, promo' = promo, \A q \in Orders \ {o} : order'[q] = order[q],
             order'[o].total + order'[o].discount = Base(order'[o].lines),
             EarnedRow(order'[o], promo)
      PROVE  AmountsAdd' /\ PromoEarned'
  <2>1. \A q \in Orders : order'[q].total + order'[q].discount = Base(order'[q].lines)
    BY <1>1, <1>a
  <2>2. \A q \in Orders : EarnedRow(order'[q], promo')
    BY <1>1, <1>a
  <2> QED
    BY <2>1, <2>2 DEF AmountsAdd, PromoEarned, EarnedRow
<1>2. ASSUME NEW o \in Orders, CommitCreate(o) PROVE AmountsAdd' /\ PromoEarned'
  <2>1. NewLines(o) \in [Products -> [quantity : Nat, price : Prices \cup {0}]]
    BY <1>t, NewLinesFit
  <2>2. ask[o].code \in Codes \cup {NoOne}
    BY <1>t DEF TypeOK
  <2>3. ask[o].code # NoOne => promo[ask[o].code] # NoPromo /\ Earned(ask[o].code, Base(NewLines(o)))
    BY <1>2 DEF CommitCreate
  <2>4. order'[o].total + order'[o].discount = Base(order'[o].lines) /\ EarnedRow(order'[o], promo)
    <3> DEFINE row == order'[o]
    <3>1. /\ row.lines = NewLines(o) /\ row.promo = ask[o].code
          /\ row.total = Base(NewLines(o)) - row.discount
          /\ row.discount \in IF ask[o].code = NoOne THEN {0}
                 ELSE CalculateDiscount(promo[ask[o].code], Base(NewLines(o)))
      BY <1>2, CreateWrites
    <3> HIDE DEF row
    <3>2. row.total + row.discount = Base(row.lines) /\ EarnedRow(row, promo)
      BY <1>t, <2>1, <2>2, <2>3, <3>1, DiscountIsEarned
    <3> QED
      BY <3>2 DEF row
  <2> QED
    BY <1>1, <1>2, <2>4, CreateWrites DEF CommitCreate, EndSession
<1>3. ASSUME NEW o \in Orders, CommitUpdate(o) PROVE AmountsAdd' /\ PromoEarned'
  <2>1. NewLines(o) \in [Products -> [quantity : Nat, price : Prices \cup {0}]]
    BY <1>t, NewLinesFit
  <2>2. order[o].promo \in Codes \cup {NoOne} /\ (order[o].promo # NoOne => promo[order[o].promo] # NoPromo)
    BY <1>t DEF TypeOK, TablesInv
  <2>4. order'[o].total + order'[o].discount = Base(order'[o].lines) /\ EarnedRow(order'[o], promo)
    <3> DEFINE row == order'[o]
    <3>1. /\ row.lines = NewLines(o)
          /\ row.total = Base(NewLines(o)) - row.discount
          /\ \/ /\ row.promo = order[o].promo
                /\ order[o].promo # NoOne /\ Earned(order[o].promo, Base(NewLines(o)))
                /\ row.discount \in CalculateDiscount(promo[order[o].promo], Base(NewLines(o)))
             \/ row.promo = NoOne /\ row.discount = 0
      BY <1>3, UpdateWrites
    <3> HIDE DEF row
    <3>2. row.total + row.discount = Base(row.lines) /\ EarnedRow(row, promo)
      BY <1>t, <2>1, <2>2, <3>1, DiscountIsEarned
    <3> QED
      BY <3>2 DEF row
  <2> QED
    BY <1>1, <1>3, <2>4, UpdateWrites DEF CommitUpdate, EndSession
<1>4. ASSUME NEW o \in Orders, CommitCancel(o) PROVE AmountsAdd' /\ PromoEarned'
  <2>1. /\ order'[o].lines = order[o].lines /\ order'[o].promo = order[o].promo
        /\ order'[o].total = order[o].total /\ order'[o].discount = order[o].discount
    BY <1>4, CancelWrites
  <2>2. order'[o].total + order'[o].discount = Base(order'[o].lines) /\ EarnedRow(order'[o], promo)
    BY <1>a, <2>1 DEF EarnedRow
  <2> QED
    BY <1>1, <1>4, <2>2, CancelWrites DEF CommitCancel, EndSession
\* A promo code that an order has is never written again.
<1>5. CASE ~\E o \in Orders : CommitCreate(o) \/ CommitUpdate(o) \/ CommitCancel(o)
  <2>1. order' = order
    BY <1>5, OrdersUntouched DEF vars
  <2>2. \A c \in Codes : promo[c] # NoPromo => promo'[c] = promo[c]
    <3>1. ASSUME NEW a \in Actors, NEW c \in Codes, CreatePromoCode(a, c)
          PROVE  \A k \in Codes : promo[k] # NoPromo => promo'[k] = promo[k]
      BY <1>t, <3>1 DEF CreatePromoCode, TypeOK
    <3>2. CASE ~\E a \in Actors, c \in Codes : CreatePromoCode(a, c)
      BY <1>5, <3>2 DEF Next, vars, CreateProduct, UpdateProduct, ArchiveProduct, OpenEdit, ReadProduct,
         CommitEdit, AbandonEdit, Begin, UpdateOrder, CreateOrder, CancelOrder, LockProduct,
         AbandonOrder, EndSession
    <3> QED
      BY <3>1, <3>2
  <2>3. \A o \in Orders : order[o].promo = NoOne \/ promo'[order[o].promo] = promo[order[o].promo]
    BY <1>t, <2>2 DEF TypeOK, TablesInv
  <2>4. \A o \in Orders : EarnedRow(order[o], promo')
    BY <1>a, <2>3 DEF EarnedRow
  <2> QED
    BY <1>a, <2>1, <2>4 DEF AmountsAdd, PromoEarned, EarnedRow
<1> QED
  BY <1>2, <1>3, <1>4, <1>5

\* What is stored of an order adds up, also after its lines, its discount or its promo
\* code changed.
THEOREM StoredAmountsAdd == Spec => []AmountsAdd
BY InitIInv, NextIInv, InitTablesInv, NextTablesInv, InitAmounts, NextKeepsAmounts, PTL DEF Spec

\* No order ever has a discount that its own lines and its own promo code do not give.
THEOREM DiscountsAreEarned == Spec => []PromoEarned
BY InitIInv, NextIInv, InitTablesInv, NextTablesInv, InitAmounts, NextKeepsAmounts, PTL DEF Spec

-----------------------------------------------------------------------------
(* No stock is lost                                                        *)

LEMMA HeldByNat ==
    ASSUME TypeOK, NEW o \in Orders, NEW p \in Products
    PROVE  HeldBy(o, p) \in Nat
BY DEF TypeOK, HeldBy

LEMMA HeldNat ==
    ASSUME TypeOK, NEW p \in Products
    PROVE  Held(p) \in Nat
<1> DEFINE f == [o \in Orders |-> HeldBy(o, p)]
<1>1. Held(p) = SumFunctionOnSet(f, Orders) /\ \A o \in Orders : f[o] \in Nat
  BY HeldByNat DEF Held, SumFunction
<1> HIDE DEF f
<1> QED
  BY <1>1, SumNat, ShopAssumption

\* A step that writes one order changes what is held by what that order holds.
LEMMA HeldChanges ==
    ASSUME TypeOK, TypeOK', NEW o \in Orders, \A q \in Orders \ {o} : order'[q] = order[q],
           NEW p \in Products
    PROVE  Held(p)' = Held(p) - HeldBy(o, p) + HeldBy(o, p)'
<1> DEFINE f == [q \in Orders |-> HeldBy(q, p)]
           g == [q \in Orders |-> HeldBy(q, p)']
<1>1. Held(p) = SumFunctionOnSet(f, Orders) /\ Held(p)' = SumFunctionOnSet(g, Orders)
  BY DEF Held, SumFunction
<1>2. \A q \in Orders : HeldBy(q, p) \in Nat
  BY HeldByNat
<1>3. \A q \in Orders : HeldBy(q, p)' \in Nat
  BY DEF TypeOK, HeldBy
<1>4. \A q \in Orders \ {o} : HeldBy(q, p)' = HeldBy(q, p)
  BY DEF HeldBy
<1>5. /\ \A q \in Orders : f[q] \in Nat /\ g[q] \in Nat
      /\ \A q \in Orders \ {o} : g[q] = f[q]
      /\ f[o] = HeldBy(o, p) /\ g[o] = HeldBy(o, p)'
  BY <1>2, <1>3, <1>4
<1> HIDE DEF f, g
<1>6. SumFunctionOnSet(g, Orders) = SumFunctionOnSet(f, Orders) - f[o] + g[o]
  BY <1>5, SumChanged, ShopAssumption
<1> QED
  BY <1>1, <1>5, <1>6

LEMMA HeldStays ==
    ASSUME TypeOK, order' = order, NEW p \in Products
    PROVE  Held(p)' = Held(p)
<1>1. \A q \in Orders : HeldBy(q, p)' = HeldBy(q, p)
  BY DEF HeldBy
<1>2. [q \in Orders |-> HeldBy(q, p)'] = [q \in Orders |-> HeldBy(q, p)]
  BY <1>1
<1> QED
  BY <1>2 DEF Held

\* What the COMMIT of an order's session writes is the stock of the row as it is, plus
\* what the order had and less what it has.
LEMMA StockWritten ==
    ASSUME IInv, NEW o \in Orders, AllLocked(o), product' = NewStock(o), NEW p \in Products
    PROVE  product'[p].stock = product[p].stock + order[o].lines[p].quantity - ask[o].basket[p]
<1>1. order[o].lines[p].quantity \in Nat /\ ask[o].basket[p] \in Nat
  BY StockFits DEF IInv
<1>2. CASE p \in Needed(o)
  <2>1. product[p] \in ProductRows /\ loaded[o][p] = product[p]
    BY <1>2, NeedsARow DEF AllLocked, Needed
  <2>2. product'[p] = [product[p] EXCEPT !.stock = loaded[o][p].stock + order[o].lines[p].quantity
                                          - ask[o].basket[p]]
    BY <1>2 DEF NewStock
  <2> QED
    BY <2>1, <2>2 DEF ProductRows
<1>3. CASE p \notin Needed(o)
  <2>1. order[o].lines[p].quantity = 0 /\ ask[o].basket[p] = 0
    BY <1>1, <1>3 DEF Needed
  <2>2. product'[p] = product[p]
    BY <1>3 DEF NewStock
  <2>3. product[p].stock \in Int
    BY DEF IInv, TypeOK, ProductRows, NoProduct
  <2> QED
    BY <2>1, <2>2, <2>3
<1> QED
  BY <1>2, <1>3

LEMMA NewLineQuantity ==
    ASSUME NEW o \in Orders, NEW p \in Products
    PROVE  NewLines(o)[p].quantity = ask[o].basket[p]
BY DEF NewLines, NoLine

LEMMA WrittenExplained ==
    ASSUME IInv, TypeOK', NEW o \in Orders, NEW p \in Products, NEW had \in Nat, NEW has \in Nat,
           StockExplained, supply' = supply, \A q \in Orders \ {o} : order'[q] = order[q],
           had = HeldBy(o, p), has = HeldBy(o, p)',
           product'[p].stock = product[p].stock + had - has
    PROVE  product'[p].stock + Held(p)' = supply'[p]
<1>1. TypeOK
  BY DEF IInv
<1>2. Held(p)' = Held(p) - had + has
  BY <1>1, HeldChanges
<1>3. product[p].stock \in Int /\ Held(p) \in Nat
  BY <1>1, HeldNat DEF TypeOK, ProductRows, NoProduct
<1>4. product[p].stock + Held(p) = supply[p]
  BY DEF StockExplained
<1> QED
  BY <1>2, <1>3, <1>4

LEMMA CommitExplained ==
    ASSUME IInv, TypeOK', TablesInv, StockExplained, NEW o \in Orders,
           CommitCreate(o) \/ CommitUpdate(o) \/ CommitCancel(o), NEW p \in Products
    PROVE  product'[p].stock + Held(p)' = supply'[p]
<1> DEFINE was == order[o].lines[p].quantity
           asked == ask[o].basket[p]
<1>1. /\ was \in Nat /\ asked \in Nat
      /\ (ask[o].op = "create" => order[o].status = "NONE" /\ was = 0)
      /\ (ask[o].op = "update" => order[o].status = "CREATED")
      /\ (ask[o].op = "cancel" => order[o].status = "CREATED" /\ asked = 0)
  BY StockFits DEF IInv, TablesInv, NoBasket
<1>2. supply' = supply /\ AllLocked(o) /\ product' = NewStock(o)
  BY DEF CommitCreate, CommitUpdate, CommitCancel, EndSession
<1>3. product'[p].stock = product[p].stock + was - asked
  BY <1>2, StockWritten
<1>4. \A q \in Orders \ {o} : order'[q] = order[q]
  BY CreateWrites, UpdateWrites, CancelWrites
<1>5. HeldBy(o, p) = was /\ HeldBy(o, p)' = asked
  <2>1. CASE CommitCreate(o)
    BY <1>1, <2>1, CreateWrites, NewLineQuantity DEF HeldBy, CommitCreate
  <2>2. CASE CommitUpdate(o)
    BY <1>1, <2>2, UpdateWrites, NewLineQuantity DEF HeldBy, CommitUpdate
  <2>3. CASE CommitCancel(o)
    BY <1>1, <2>3, CancelWrites DEF HeldBy, CommitCancel
  <2> QED
    BY <2>1, <2>2, <2>3
<1> HIDE DEF was, asked
<1> QED
  BY <1>1, <1>2, <1>3, <1>4, <1>5, WrittenExplained

SupplyListed == DOMAIN supply = Products

LEMMA NextKeepsProducts ==
    ASSUME SupplyListed, [Next]_vars
    PROVE  SupplyListed'
BY DEF SupplyListed, Next, vars, CreateProduct, UpdateProduct, ArchiveProduct, OpenEdit, ReadProduct, CommitEdit,
       AbandonEdit, CreatePromoCode, Begin, UpdateOrder, CreateOrder, CancelOrder, LockProduct,
       CommitCreate, CommitUpdate, CommitCancel, AbandonOrder, EndSession

LEMMA InitExplained == Init => SupplyListed /\ StockExplained
<1> SUFFICES ASSUME Init, NEW p \in Products PROVE product[p].stock + Held(p) = supply[p]
  BY DEF StockExplained, SupplyListed, Init
<1> DEFINE f == [o \in Orders |-> HeldBy(o, p)]
<1>1. \A o \in Orders : f[o] = 0
  BY DEF Init, HeldBy, NoOrder
<1>2. Held(p) = SumFunctionOnSet(f, Orders)
  BY DEF Held, SumFunction
<1> HIDE DEF f
<1>3. Held(p) = 0
  BY <1>1, <1>2, SumZero, ShopAssumption
<1> QED
  BY <1>3 DEF Init, NoProduct

LEMMA NextKeepsExplained ==
    ASSUME IInv, TablesInv, SupplyListed, StockExplained, [Next]_vars
    PROVE  StockExplained'
<1> SUFFICES ASSUME NEW p \in Products PROVE product'[p].stock + Held(p)' = supply'[p]
  BY DEF StockExplained
<1>t. TypeOK /\ TypeOK'
  BY NextIInv DEF IInv
<1>0. product[p].stock + Held(p) = supply[p]
  BY DEF StockExplained
<1>1. ASSUME NEW o \in Orders, CommitCreate(o) \/ CommitUpdate(o) \/ CommitCancel(o)
      PROVE  product'[p].stock + Held(p)' = supply'[p]
  BY <1>1, <1>t, CommitExplained
<1>2. ASSUME UNCHANGED <<product, order, supply>>
      PROVE  product'[p].stock + Held(p)' = supply'[p]
  BY <1>0, <1>2, <1>t, HeldStays
<1>3. ASSUME NEW a \in Actors, NEW q \in Products, NEW body \in NewBodies,
             CreateProduct(a, q, body)
      PROVE  product'[p].stock + Held(p)' = supply'[p]
  <2>1. Held(p)' = Held(p)
    BY <1>3, <1>t, HeldStays DEF CreateProduct
  <2>2. CASE p = q
    \* A product that did not exist is in no order.
    <3>1. \A o \in Orders : HeldBy(o, p) = 0
      BY <1>3, <1>t, <2>2 DEF CreateProduct, TablesInv, HeldBy, TypeOK
    <3>2. Held(p) = 0
      <4> DEFINE f == [o \in Orders |-> HeldBy(o, p)]
      <4>1. Held(p) = SumFunctionOnSet(f, Orders) /\ \A o \in Orders : f[o] = 0
        BY <3>1 DEF Held, SumFunction
      <4> HIDE DEF f
      <4> QED
        BY <4>1, SumZero, ShopAssumption
    <3>3. product'[p].stock = body.stock
      BY <1>3, <1>t, <2>2 DEF CreateProduct, TypeOK
    <3>4. supply'[p] = body.stock
      BY <1>3, <2>2 DEF CreateProduct, SupplyListed
    <3>5. body.stock \in Nat
      BY ShopAssumption
    <3> QED
      BY <2>1, <3>2, <3>3, <3>4, <3>5
  <2>3. CASE p # q
    BY <1>0, <1>3, <1>t, <2>1, <2>3 DEF CreateProduct, TypeOK
  <2> QED
    BY <2>2, <2>3
<1>4. ASSUME NEW s \in Sessions, CommitEdit(s)
      PROVE  product'[p].stock + Held(p)' = supply'[p]
  <2>1. Held(p)' = Held(p)
    BY <1>4, <1>t, HeldStays DEF CommitEdit
  <2>2. PICK again \in BOOLEAN :
           /\ product' = [product EXCEPT ![edit[s].product] = Updated(@, s, Written(s, again))]
           /\ supply' = IF "stock" \in Written(s, again)
                        THEN [supply EXCEPT ![edit[s].product] =
                                 edit[s].body.stock + Held(edit[s].product)]
                        ELSE supply
    BY <1>4 DEF CommitEdit
  <2>3. edit[s].product \in Products /\ product[edit[s].product] \in ProductRows
    BY <1>4, <1>t DEF IInv, TypeOK, LoadedCurrent, CommitEdit, Edits, Exists
  <2>4. CASE p = edit[s].product
    <3>1. product'[p] = Updated(product[p], s, Written(s, again))
      BY <1>t, <2>2, <2>4 DEF TypeOK
    <3>2. product'[p].stock = IF "stock" \in Written(s, again) THEN edit[s].body.stock
                              ELSE product[p].stock
      BY <2>3, <2>4, <3>1 DEF Updated, ProductRows
    <3>3. supply'[p] = IF "stock" \in Written(s, again) THEN edit[s].body.stock + Held(p)
                       ELSE supply[p]
      BY <2>2, <2>4 DEF SupplyListed
    <3> QED
      BY <1>0, <2>1, <3>2, <3>3
  <2>5. CASE p # edit[s].product
    <3>1. product'[p] = product[p] /\ supply'[p] = supply[p]
      BY <1>t, <2>2, <2>5 DEF TypeOK
    <3> QED
      BY <1>0, <2>1, <3>1
  <2> QED
    BY <2>4, <2>5
<1>5. CASE UNCHANGED vars
  BY <1>2, <1>5 DEF vars
<1>6. ASSUME NEW s \in Sessions, NEW a, NEW q, NEW body,
             OpenEdit(s, a, q, body) \/ ReadProduct(s) \/ AbandonEdit(s)
      PROVE  product'[p].stock + Held(p)' = supply'[p]
  BY <1>2, <1>6 DEF OpenEdit, ReadProduct, AbandonEdit
<1>7. ASSUME NEW o \in Orders, NEW q, NEW rec,
             Begin(o, rec) \/ LockProduct(o, q) \/ AbandonOrder(o)
      PROVE  product'[p].stock + Held(p)' = supply'[p]
  BY <1>2, <1>7 DEF Begin, LockProduct, AbandonOrder, EndSession
<1>8. ASSUME NEW a \in Actors, NEW c \in Codes, CreatePromoCode(a, c)
      PROVE  product'[p].stock + Held(p)' = supply'[p]
  BY <1>2, <1>8 DEF CreatePromoCode
<1> QED
  BY <1>1, <1>3, <1>4, <1>5, <1>6, <1>7, <1>8
     DEF Next, UpdateProduct, ArchiveProduct, CreateOrder, UpdateOrder, CancelOrder

\* What is on the shelf and what live orders hold is what sellers last said, whatever
\* sellers and orders do at the same time: no sale and no return is lost.
THEOREM NoSaleIsLost == Spec => []StockExplained
BY InitIInv, NextIInv, InitTablesInv, NextTablesInv, InitExplained,
   NextKeepsProducts, NextKeepsExplained, PTL DEF Spec
=============================================================================

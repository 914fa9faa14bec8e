-------------------------- MODULE ApplicationProofs --------------------------
(***************************************************************************)
(* What the example's transactions promise for every set of requests,      *)
(* products, orders and users, and every size of the pool.                 *)
(***************************************************************************)
EXTENDS Application, FiniteSetTheorems, TLAPS

Stages == {"new", "done", "failed"} \cup Open

\* Only orders have a product.
IsOrder(r) == KindOf[r] \in {"CreateOrder", "ConfirmOrder"}

LEMMA OrderFacts ==
  ASSUME NEW r \in Requests, IsOrder(r)
  PROVE  /\ SubjectOf[r] \in Orders
         /\ Product(r) \in Products
         /\ Quantity(r) \in Nat \ {0}
<1>1. SubjectOf[r] \in Orders
  BY ApplicationAssumption DEF IsOrder
<1> QED
  BY <1>1, ApplicationAssumption DEF Product, Quantity

\* Requests with the same unique key call the same method for the same subject.
LEMMA KeyDetermines ==
  ASSUME NEW r \in Requests, NEW s \in Requests, KeyOf(r) = KeyOf(s)
  PROVE  KindOf[r] = KindOf[s] /\ SubjectOf[r] = SubjectOf[s]
<1>1. KindOf[r] \in Kinds /\ KindOf[s] \in Kinds
  BY ApplicationAssumption
<1>2. KeyOf(r)[1] = KindOf[r] /\ KeyOf(s)[1] = KindOf[s]
  BY <1>1 DEF KeyOf, Kinds
<1>3. KindOf[r] = KindOf[s]
  BY <1>2
<1>4. CASE KindOf[r] \in {"CreateOrder", "ConfirmOrder"}
  <2>1. KeyOf(r)[2] = SubjectOf[r] /\ KeyOf(s)[2] = SubjectOf[s]
    BY <1>3, <1>4 DEF KeyOf
  <2> QED
    BY <1>3, <2>1
<1>5. CASE KindOf[r] = "RegisterUser"
  <2>1. KeyOf(r)[2] = r /\ KeyOf(s)[2] = s
    BY <1>3, <1>5 DEF KeyOf
  <2> QED
    BY <1>3, <2>1
<1>6. CASE KindOf[r] = "UpdateUser"
  <2>1. KeyOf(r)[2] = SubjectOf[r] /\ KeyOf(s)[2] = SubjectOf[s]
    BY <1>3, <1>6, SMTT(30) DEF KeyOf
  <2> QED
    BY <1>3, <2>1
<1> QED
  BY <1>1, <1>4, <1>5, <1>6 DEF Kinds

-----------------------------------------------------------------------------
(* Locks and what they protect *)

Typed ==
  /\ TypeOK
  /\ \A p \in Products : reserved[p] <= quantity[p]

\* What the statements of an open transaction have found still holds: the stock that
\* CreateOrder has reserved, the reservation that ConfirmOrder uses up, the order it has
\* read; and nobody else has changed the product's row.
Claim(r) ==
  /\ KindOf[r] = "CreateOrder" /\ stage[r] \in {"reserved", "changed", "inserted"}
       => quantity[Product(r)] - reserved[Product(r)] >= Quantity(r)
  /\ KindOf[r] = "ConfirmOrder" /\ stage[r] \in {"changed", "inserted"}
       => reserved[Product(r)] >= Quantity(r)
  /\ KindOf[r] = "ConfirmOrder" /\ stage[r] \in {"read", "updated", "changed", "inserted"}
       => orders[SubjectOf[r]] # "none"

Alone(r) ==
  \A s \in Requests \ {r} : \A p \in Products : HoldsInventory(r, p) => ~HoldsInventory(s, p)

LocksInv == \A r \in Requests : Claim(r) /\ Alone(r)

\* Every step of a request but its commit.
Quiet(r) ==
  \/ Begin(r) \/ Reserve(r) \/ Create(r) \/ GetByID(r) \/ UpdateStatus(r) \/ Decrease(r)
  \/ CreateUser(r) \/ UpdateUser(r) \/ Insert(r) \/ Rollback(r)

LEMMA QuietEffect ==
  ASSUME TypeOK, LocksInv, NEW r \in Requests, Quiet(r)
  PROVE  /\ UNCHANGED tables
         /\ stage' \in [Requests -> Stages]
         /\ \A s \in Requests \ {r} : stage'[s] = stage[s]
         /\ Claim(r)'
         /\ \A p \in Products :
              HoldsInventory(r, p)' => HoldsInventory(r, p) \/ InventoryIsFree(r)
         /\ stage'[r] = "inserted" => KeyOf(r) \notin outbox /\ KeyIsFree(r)
         /\ stage[r] \notin {"done", "failed"}
<1> USE DEF tables, Claim, HoldsInventory, Product, Quantity
<1>1. CASE Begin(r)
  <2>1. Statement(r, KindOf[r], "new", TRUE, "begun") /\ "begun" \in Open
    BY <1>1, Zenon DEF Begin, Open
  <2>2. /\ UNCHANGED tables
        /\ stage[r] = "new"
        /\ KindOf[r] = KindOf[r]
        /\ stage' \in [Requests -> Stages]
        /\ stage'[r] = "begun"
        /\ \A s \in Requests \ {r} : stage'[s] = stage[s]
    BY <2>1 DEF Statement, TypeOK, Stages
  <2> QED
    BY <2>1, <2>2
<1>2. CASE Reserve(r)
  <2>1. /\ Statement(r, "CreateOrder", "begun",
                     quantity[Product(r)] - reserved[Product(r)] >= Quantity(r), "reserved")
        /\ "reserved" \in Open
        /\ InventoryIsFree(r)
    BY <1>2 DEF Reserve, Open
  <2>2. /\ UNCHANGED tables
        /\ stage[r] = "begun"
        /\ KindOf[r] = "CreateOrder"
        /\ stage' \in [Requests -> Stages]
        /\ stage'[r] = IF quantity[Product(r)] - reserved[Product(r)] >= Quantity(r)
                       THEN "reserved" ELSE "failed"
        /\ \A s \in Requests \ {r} : stage'[s] = stage[s]
    BY <2>1 DEF Statement, TypeOK, Stages
  <2>3. CASE quantity[Product(r)] - reserved[Product(r)] >= Quantity(r)
    <3>1. stage'[r] = "reserved"
      BY <2>2, <2>3
    <3> QED
      BY <2>1, <2>2, <2>3, <3>1
  <2>4. CASE ~(quantity[Product(r)] - reserved[Product(r)] >= Quantity(r))
    <3>1. stage'[r] = "failed"
      BY <2>2, <2>4
    <3> QED
      BY <2>2, <3>1
  <2> QED
    BY <2>3, <2>4
<1>3. CASE Create(r)
  <2>1. Statement(r, "CreateOrder", "reserved", TRUE, "changed") /\ "changed" \in Open
    BY <1>3, Zenon DEF Create, Open
  <2>2. /\ UNCHANGED tables
        /\ stage[r] = "reserved"
        /\ KindOf[r] = "CreateOrder"
        /\ stage' \in [Requests -> Stages]
        /\ stage'[r] = "changed"
        /\ \A s \in Requests \ {r} : stage'[s] = stage[s]
    BY <2>1 DEF Statement, TypeOK, Stages
  <2> QED
    BY <2>1, <2>2 DEF LocksInv
<1>4. CASE GetByID(r)
  <2>1. /\ Statement(r, "ConfirmOrder", "begun", orders[SubjectOf[r]] # "none", "read")
        /\ "read" \in Open
    BY <1>4 DEF GetByID, Open
  <2>2. /\ UNCHANGED tables
        /\ stage[r] = "begun"
        /\ KindOf[r] = "ConfirmOrder"
        /\ stage' \in [Requests -> Stages]
        /\ stage'[r] = IF orders[SubjectOf[r]] # "none" THEN "read" ELSE "failed"
        /\ \A s \in Requests \ {r} : stage'[s] = stage[s]
    BY <2>1 DEF Statement, TypeOK, Stages
  <2>3. CASE orders[SubjectOf[r]] # "none"
    <3>1. stage'[r] = "read"
      BY <2>2, <2>3
    <3> QED
      BY <2>1, <2>2, <2>3, <3>1
  <2>4. CASE ~(orders[SubjectOf[r]] # "none")
    <3>1. stage'[r] = "failed"
      BY <2>2, <2>4
    <3> QED
      BY <2>2, <3>1
  <2> QED
    BY <2>3, <2>4
<1>5. CASE UpdateStatus(r)
  <2>1. Statement(r, "ConfirmOrder", "read", TRUE, "updated") /\ "updated" \in Open
    BY <1>5, Zenon DEF UpdateStatus, Open
  <2>2. /\ UNCHANGED tables
        /\ stage[r] = "read"
        /\ KindOf[r] = "ConfirmOrder"
        /\ stage' \in [Requests -> Stages]
        /\ stage'[r] = "updated"
        /\ \A s \in Requests \ {r} : stage'[s] = stage[s]
    BY <2>1 DEF Statement, TypeOK, Stages
  <2> QED
    BY <2>1, <2>2 DEF LocksInv
<1>6. CASE Decrease(r)
  <2>1. /\ Statement(r, "ConfirmOrder", "updated",
                     reserved[Product(r)] >= Quantity(r), "changed")
        /\ "changed" \in Open
        /\ InventoryIsFree(r)
    BY <1>6 DEF Decrease, Open
  <2>2. /\ UNCHANGED tables
        /\ stage[r] = "updated"
        /\ KindOf[r] = "ConfirmOrder"
        /\ stage' \in [Requests -> Stages]
        /\ stage'[r] = IF reserved[Product(r)] >= Quantity(r) THEN "changed" ELSE "failed"
        /\ \A s \in Requests \ {r} : stage'[s] = stage[s]
    BY <2>1 DEF Statement, TypeOK, Stages
  <2>3. CASE reserved[Product(r)] >= Quantity(r)
    <3>1. stage'[r] = "changed"
      BY <2>2, <2>3
    <3> QED
      BY <2>1, <2>2, <2>3, <3>1 DEF LocksInv
  <2>4. CASE ~(reserved[Product(r)] >= Quantity(r))
    <3>1. stage'[r] = "failed"
      BY <2>2, <2>4
    <3> QED
      BY <2>2, <3>1
  <2> QED
    BY <2>3, <2>4
<1>7. CASE CreateUser(r)
  <2>1. /\ Statement(r, "RegisterUser", "begun", SubjectOf[r] \notin users, "changed")
        /\ "changed" \in Open
    BY <1>7 DEF CreateUser, Open
  <2>2. /\ UNCHANGED tables
        /\ stage[r] = "begun"
        /\ KindOf[r] = "RegisterUser"
        /\ stage' \in [Requests -> Stages]
        /\ stage'[r] = IF SubjectOf[r] \notin users THEN "changed" ELSE "failed"
        /\ \A s \in Requests \ {r} : stage'[s] = stage[s]
    BY <2>1 DEF Statement, TypeOK, Stages
  <2> QED
    BY <2>1, <2>2
<1>8. CASE UpdateUser(r)
  <2>1. /\ Statement(r, "UpdateUser", "begun", SubjectOf[r] \in users, "changed")
        /\ "changed" \in Open
    BY <1>8 DEF UpdateUser, Open
  <2>2. /\ UNCHANGED tables
        /\ stage[r] = "begun"
        /\ KindOf[r] = "UpdateUser"
        /\ stage' \in [Requests -> Stages]
        /\ stage'[r] = IF SubjectOf[r] \in users THEN "changed" ELSE "failed"
        /\ \A s \in Requests \ {r} : stage'[s] = stage[s]
    BY <2>1 DEF Statement, TypeOK, Stages
  <2> QED
    BY <2>1, <2>2
<1>9. CASE Insert(r)
  <2>1. /\ Statement(r, KindOf[r], "changed", KeyOf(r) \notin outbox, "inserted")
        /\ "inserted" \in Open
        /\ KeyIsFree(r)
    BY <1>9 DEF Insert, Open
  <2>2. /\ UNCHANGED tables
        /\ stage[r] = "changed"
        /\ KindOf[r] = KindOf[r]
        /\ stage' \in [Requests -> Stages]
        /\ stage'[r] = IF KeyOf(r) \notin outbox THEN "inserted" ELSE "failed"
        /\ \A s \in Requests \ {r} : stage'[s] = stage[s]
    BY <2>1 DEF Statement, TypeOK, Stages
  <2>3. CASE KeyOf(r) \notin outbox
    <3>1. stage'[r] = "inserted"
      BY <2>2, <2>3
    <3> QED
      BY <2>1, <2>2, <2>3, <3>1 DEF LocksInv
  <2>4. CASE ~(KeyOf(r) \notin outbox)
    <3>1. stage'[r] = "failed"
      BY <2>2, <2>4
    <3> QED
      BY <2>2, <3>1
  <2> QED
    BY <2>3, <2>4
<1>10. CASE Rollback(r)
  <2>1. /\ UNCHANGED tables
        /\ stage' \in [Requests -> Stages]
        /\ stage'[r] = "failed"
        /\ stage[r] \notin {"done", "failed"}
        /\ \A s \in Requests \ {r} : stage'[s] = stage[s]
    BY <1>10, SMT, Z3, Zenon DEF Rollback, TypeOK, Stages, Open
  <2> QED
    BY <2>1
<1> QED
  BY <1>1, <1>2, <1>3, <1>4, <1>5, <1>6, <1>7, <1>8, <1>9, <1>10, ZenonT(30) DEF Quiet

\* What a commit does, method by method.
LEMMA CommitEffect ==
  ASSUME TypeOK, NEW r \in Requests, Commit(r)
  PROVE  /\ stage[r] = "inserted" /\ stage'[r] \in {"done", "failed"}
         /\ stage' \in [Requests -> Stages]
         /\ \A s \in Requests \ {r} : stage'[s] = stage[s]
         /\ outbox' = outbox \cup {KeyOf(r)}
         /\ emitted' = emitted \cup {KeyOf(r)}
         /\ KindOf[r] = "CreateOrder" =>
              /\ UNCHANGED <<quantity, users, updates>>
              /\ reserved' = [reserved EXCEPT ![Product(r)] = @ + Quantity(r)]
              /\ orders' = [orders EXCEPT ![SubjectOf[r]] = "pending"]
         /\ KindOf[r] = "ConfirmOrder" =>
              /\ UNCHANGED <<users, updates>>
              /\ reserved' = [reserved EXCEPT ![Product(r)] = @ - Quantity(r)]
              /\ quantity' = [quantity EXCEPT ![Product(r)] = @ - Quantity(r)]
              /\ orders' = [orders EXCEPT ![SubjectOf[r]] = "confirmed"]
         /\ KindOf[r] = "RegisterUser" =>
              /\ UNCHANGED <<quantity, reserved, orders, updates>>
              /\ users' = users \cup {SubjectOf[r]}
         /\ KindOf[r] = "UpdateUser" =>
              /\ UNCHANGED <<quantity, reserved, orders, users>>
              /\ updates' = updates \cup {r}
<1>1. /\ stage[r] = "inserted" /\ stage'[r] \in {"done", "failed"}
      /\ stage' \in [Requests -> Stages]
      /\ \A s \in Requests \ {r} : stage'[s] = stage[s]
      /\ outbox' = outbox \cup {KeyOf(r)}
      /\ emitted' = emitted \cup {KeyOf(r)}
      /\ Effects(r)
  BY DEF Commit, TypeOK, Stages
<1>2. CASE KindOf[r] = "CreateOrder"
  BY <1>1, <1>2 DEF Effects, ReservedAfter
<1>3. CASE KindOf[r] = "ConfirmOrder"
  BY <1>1, <1>3 DEF Effects, ReservedAfter
<1>4. CASE KindOf[r] = "RegisterUser"
  BY <1>1, <1>4 DEF Effects, ReservedAfter
<1>5. CASE KindOf[r] = "UpdateUser"
  BY <1>1, <1>5 DEF Effects, ReservedAfter
<1>6. KindOf[r] \in {"CreateOrder", "ConfirmOrder", "RegisterUser", "UpdateUser"}
  BY ApplicationAssumption DEF Kinds
<1> QED
  BY <1>1, <1>2, <1>3, <1>4, <1>5, <1>6

\* A commit leaves the stock of every product as the other open transactions saw it.
LEMMA CommitTyped ==
  ASSUME Typed, LocksInv, NEW r \in Requests, Commit(r)
  PROVE  Typed' /\ LocksInv'
<1>1. /\ stage[r] = "inserted" /\ stage'[r] \in {"done", "failed"}
      /\ \A s \in Requests \ {r} : stage'[s] = stage[s]
  BY CommitEffect DEF Typed
<1>2. /\ stage' \in [Requests -> Stages]
      /\ outbox' \in SUBSET Keys /\ emitted' \in SUBSET Keys
  BY CommitEffect DEF Typed, TypeOK, Keys
<1>3. Claim(r) /\ Alone(r)
  BY DEF LocksInv
<1>4. ASSUME NEW s \in Requests \ {r}, NEW p \in Products, HoldsInventory(s, p),
             IsOrder(r)
      PROVE  p # Product(r)
  <2>1. Product(r) \in Products
    BY <1>4, OrderFacts
  <2>2. HoldsInventory(r, Product(r))
    BY <1>1, <1>4 DEF HoldsInventory, IsOrder
  <2> QED
    BY <1>3, <1>4, <2>1, <2>2 DEF Alone
<1>5. \A s \in Requests : Alone(s)'
  <2>1. \A s \in Requests : \A p \in Products :
          HoldsInventory(s, p)' => s # r /\ HoldsInventory(s, p)
    BY <1>1 DEF HoldsInventory, Product
  <2> QED
    BY <2>1 DEF LocksInv, Alone
<1>6. Claim(r)'
  BY <1>1 DEF Claim
<1>7. ASSUME \A p \in Products : /\ reserved'[p] \in Nat /\ quantity'[p] \in Nat
                                 /\ reserved'[p] <= quantity'[p],
             IsOrder(r) => \A p \in Products \ {Product(r)} :
                             reserved'[p] = reserved[p] /\ quantity'[p] = quantity[p],
             ~IsOrder(r) => UNCHANGED <<reserved, quantity>>,
             reserved' \in [Products -> Nat], quantity' \in [Products -> Nat],
             orders' \in [Orders -> {"none", "pending", "confirmed"}],
             \A o \in Orders : orders[o] # "none" => orders'[o] # "none",
             users' \in SUBSET Users, updates' \in SUBSET Requests
      PROVE  Typed' /\ LocksInv'
  <2>1. Typed'
    BY <1>2, <1>7 DEF Typed, TypeOK, Stages
  <2>2. ASSUME NEW s \in Requests \ {r}
        PROVE  Claim(s)'
    <3>0. Claim(s) /\ stage'[s] = stage[s]
      BY <1>1 DEF LocksInv
    <3>1. ASSUME IsOrder(s), HoldsInventory(s, Product(s))
          PROVE  reserved'[Product(s)] = reserved[Product(s)]
                 /\ quantity'[Product(s)] = quantity[Product(s)]
      <4>1. Product(s) \in Products
        BY <3>1, OrderFacts
      <4> QED
        BY <1>4, <1>7, <3>1, <4>1
    <3>2. CASE KindOf[s] = "CreateOrder"
      <4>1. stage[s] \in {"reserved", "changed", "inserted"}
              => IsOrder(s) /\ HoldsInventory(s, Product(s))
        BY <3>2 DEF IsOrder, HoldsInventory
      <4> QED
        BY <3>0, <3>1, <3>2, <4>1 DEF Claim, Product, Quantity
    <3>3. CASE KindOf[s] = "ConfirmOrder"
      <4>1. stage[s] \in {"changed", "inserted"}
              => IsOrder(s) /\ HoldsInventory(s, Product(s))
        BY <3>3 DEF IsOrder, HoldsInventory
      <4>2. SubjectOf[s] \in Orders
        BY <3>3, OrderFacts DEF IsOrder
      <4> QED
        BY <1>7, <3>0, <3>1, <3>3, <4>1, <4>2 DEF Claim, Product, Quantity
    <3>4. CASE KindOf[s] \notin {"CreateOrder", "ConfirmOrder"}
      BY <3>4 DEF Claim
    <3> QED
      BY <3>2, <3>3, <3>4
  <2> QED
    BY <1>5, <1>6, <2>1, <2>2 DEF LocksInv
<1>8. /\ reserved \in [Products -> Nat] /\ quantity \in [Products -> Nat]
      /\ orders \in [Orders -> {"none", "pending", "confirmed"}]
      /\ users \in SUBSET Users /\ updates \in SUBSET Requests
      /\ \A p \in Products : reserved[p] <= quantity[p]
  BY DEF Typed, TypeOK
<1>9. CASE KindOf[r] = "CreateOrder"
  <2>1. /\ UNCHANGED <<quantity, users, updates>>
        /\ reserved' = [reserved EXCEPT ![Product(r)] = @ + Quantity(r)]
        /\ orders' = [orders EXCEPT ![SubjectOf[r]] = "pending"]
    BY <1>9, CommitEffect DEF Typed
  <2>2. SubjectOf[r] \in Orders /\ Product(r) \in Products /\ Quantity(r) \in Nat /\ IsOrder(r)
    BY <1>9, OrderFacts DEF IsOrder
  <2>3. quantity[Product(r)] - reserved[Product(r)] >= Quantity(r)
    BY <1>1, <1>3, <1>9 DEF Claim
  <2>4. /\ reserved' \in [Products -> Nat]
        /\ \A p \in Products \ {Product(r)} : reserved'[p] = reserved[p]
        /\ reserved'[Product(r)] = reserved[Product(r)] + Quantity(r)
    BY <1>8, <2>1, <2>2
  <2>5. \A p \in Products : reserved'[p] <= quantity'[p]
    BY <1>8, <2>1, <2>2, <2>3, <2>4
  <2>6. /\ orders' \in [Orders -> {"none", "pending", "confirmed"}]
        /\ \A o \in Orders : orders[o] # "none" => orders'[o] # "none"
    BY <1>8, <2>1, <2>2
  <2> QED
    BY <1>7, <1>8, <2>1, <2>2, <2>4, <2>5, <2>6
<1>10. CASE KindOf[r] = "ConfirmOrder"
  <2>1. /\ UNCHANGED <<users, updates>>
        /\ reserved' = [reserved EXCEPT ![Product(r)] = @ - Quantity(r)]
        /\ quantity' = [quantity EXCEPT ![Product(r)] = @ - Quantity(r)]
        /\ orders' = [orders EXCEPT ![SubjectOf[r]] = "confirmed"]
    BY <1>10, CommitEffect DEF Typed
  <2>2. SubjectOf[r] \in Orders /\ Product(r) \in Products /\ Quantity(r) \in Nat /\ IsOrder(r)
    BY <1>10, OrderFacts DEF IsOrder
  <2>3. reserved[Product(r)] >= Quantity(r)
    BY <1>1, <1>3, <1>10 DEF Claim
  <2>4. /\ reserved[Product(r)] - Quantity(r) \in Nat
        /\ quantity[Product(r)] - Quantity(r) \in Nat
    BY <1>8, <2>2, <2>3
  <2>5. /\ reserved' \in [Products -> Nat] /\ quantity' \in [Products -> Nat]
        /\ \A p \in Products \ {Product(r)} :
             reserved'[p] = reserved[p] /\ quantity'[p] = quantity[p]
        /\ reserved'[Product(r)] = reserved[Product(r)] - Quantity(r)
        /\ quantity'[Product(r)] = quantity[Product(r)] - Quantity(r)
    BY <1>8, <2>1, <2>2, <2>4
  <2>6. \A p \in Products : reserved'[p] <= quantity'[p]
    BY <1>8, <2>2, <2>5
  <2>7. /\ orders' \in [Orders -> {"none", "pending", "confirmed"}]
        /\ \A o \in Orders : orders[o] # "none" => orders'[o] # "none"
    BY <1>8, <2>1, <2>2
  <2> QED
    BY <1>7, <1>8, <2>1, <2>2, <2>5, <2>6, <2>7
<1>11. CASE KindOf[r] = "RegisterUser"
  <2>1. /\ UNCHANGED <<quantity, reserved, orders, updates>>
        /\ users' = users \cup {SubjectOf[r]}
    BY <1>11, CommitEffect DEF Typed
  <2>2. SubjectOf[r] \in Users
    BY <1>11, ApplicationAssumption
  <2> QED
    BY <1>7, <1>8, <2>1, <2>2
<1>12. CASE KindOf[r] = "UpdateUser"
  <2>1. /\ UNCHANGED <<quantity, reserved, orders, users>>
        /\ updates' = updates \cup {r}
    BY <1>12, CommitEffect DEF Typed
  <2> QED
    BY <1>7, <1>8, <2>1
<1> QED
  BY <1>9, <1>10, <1>11, <1>12, ApplicationAssumption DEF Kinds

LEMMA QuietTyped ==
  ASSUME Typed, LocksInv, NEW r \in Requests, Quiet(r)
  PROVE  Typed' /\ LocksInv'
<1>1. /\ UNCHANGED <<quantity, reserved, orders, users, updates, outbox, emitted>>
      /\ stage' \in [Requests -> Stages]
      /\ \A s \in Requests \ {r} : stage'[s] = stage[s]
  BY QuietEffect DEF Typed, tables
<1>2. /\ Claim(r)'
      /\ \A p \in Products : HoldsInventory(r, p)' => HoldsInventory(r, p) \/ InventoryIsFree(r)
  BY QuietEffect DEF Typed
<1>3. Typed'
  BY <1>1 DEF Typed, TypeOK, Stages
<1>4. \A s \in Requests \ {r} : Claim(s)'
  BY <1>1 DEF LocksInv, Claim, Product, Quantity
<1>5. \A s \in Requests \ {r} : \A p \in Products : HoldsInventory(s, p)' = HoldsInventory(s, p)
  BY <1>1 DEF HoldsInventory, Product
<1>6. \A s \in Requests \ {r} : \A p \in Products :
        HoldsInventory(r, p)' => ~HoldsInventory(s, p)
  <2>1. \A p \in Products : HoldsInventory(r, p)' => p = Product(r)
    BY DEF HoldsInventory, Product
  <2> QED
    BY <1>2, <2>1 DEF LocksInv, Alone, InventoryIsFree
<1> QED
  BY <1>2, <1>3, <1>4, <1>5, <1>6, SMT, Z3, Zenon DEF LocksInv, Alone

LEMMA LocksStep ==
  ASSUME Typed, LocksInv, [Next]_vars
  PROVE  Typed' /\ LocksInv'
<1>1. ASSUME NEW k \in Keys, DeleteOlderThan(k)
      PROVE  Typed' /\ LocksInv'
  BY <1>1, Zenon
     DEF DeleteOlderThan, Typed, TypeOK, LocksInv, Claim, Alone, HoldsInventory, Product, Quantity
<1>2. CASE UNCHANGED vars
  BY <1>2 DEF vars, Typed, TypeOK, LocksInv, Claim, Alone, HoldsInventory, Product, Quantity
<1> QED
  BY <1>1, <1>2, QuietTyped, CommitTyped, Zenon DEF Next, Step, Quiet

LEMMA LocksInvariant == Spec => [](Typed /\ LocksInv)
<1>1. Init => Typed
  BY ApplicationAssumption DEF Init, Typed, TypeOK
<1>2. Init => LocksInv
  BY DEF Init, LocksInv, Claim, Alone, HoldsInventory
<1> QED
  BY <1>1, <1>2, LocksStep, PTL DEF Spec

\* TypeOK of Application: among it, neither the quantity nor the reservation of a product
\* ever becomes negative, however the transactions of CreateOrder and ConfirmOrder cross.
THEOREM TypeCorrect == Spec => []TypeOK
BY LocksInvariant, PTL DEF Typed

\* The stock of a product always covers what is reserved of it, for any number of orders
\* and requests: the row lock that Reserve and Decrease take protects the comparison
\* until the commit.
THEOREM StockCoversReservations ==
  Spec => [](\A p \in Products : reserved[p] <= quantity[p])
<1>1. Typed => \A p \in Products : reserved[p] <= quantity[p]
  BY DEF Typed
<1> QED
  BY <1>1, LocksInvariant, PTL

-----------------------------------------------------------------------------
(* A change and its message *)

\* A key that is no longer in the outbox belongs to requests that are over, and one
\* that a transaction has inserted belongs to it alone.
KeysInv ==
  /\ \A r \in Requests : KeyOf(r) \in emitted /\ KeyOf(r) \notin outbox
                            => stage[r] \in {"done", "failed"}
  /\ \A r \in Requests : stage[r] = "inserted"
       => KeyOf(r) \notin outbox /\ KeyIsFree(r)

LEMMA KeysStep ==
  ASSUME Typed, LocksInv, KeysInv, ~EarlyCleanup, [Next]_vars
  PROVE  KeysInv'
<1>1. ASSUME NEW r \in Requests, Quiet(r)
      PROVE  KeysInv'
  <2>1. /\ UNCHANGED <<outbox, emitted>>
        /\ \A s \in Requests \ {r} : stage'[s] = stage[s]
        /\ stage'[r] = "inserted" => KeyOf(r) \notin outbox /\ KeyIsFree(r)
        /\ stage[r] \notin {"done", "failed"}
    BY <1>1, QuietEffect DEF Typed, tables
  <2>2. \A s \in Requests : KeyOf(s)' = KeyOf(s)
    BY DEF KeyOf
  <2>3. \A s \in Requests : KeyOf(s) \in emitted /\ KeyOf(s) \notin outbox
                            => stage'[s] \in {"done", "failed"}
    BY <2>1 DEF KeysInv
  <2>4. \A s \in Requests : stage'[s] = "inserted" => KeyOf(s) \notin outbox
    BY <2>1 DEF KeysInv
  <2>5. \A s \in Requests : \A q \in Requests \ {s} :
          stage'[s] = "inserted" /\ KeyOf(q) = KeyOf(s) => stage'[q] # "inserted"
    BY <2>1 DEF KeysInv, KeyIsFree
  <2> QED
    BY <2>1, <2>2, <2>3, <2>4, <2>5, SMT, Z3, Zenon DEF KeysInv, KeyIsFree
<1>2. ASSUME NEW r \in Requests, Commit(r)
      PROVE  KeysInv'
  <2>1. /\ stage[r] = "inserted" /\ stage'[r] \in {"done", "failed"}
        /\ \A s \in Requests \ {r} : stage'[s] = stage[s]
        /\ outbox' = outbox \cup {KeyOf(r)}
        /\ emitted' = emitted \cup {KeyOf(r)}
    BY <1>2, CommitEffect DEF Typed
  <2>2. \A s \in Requests : KeyOf(s)' = KeyOf(s)
    BY DEF KeyOf
  <2>3. \A s \in Requests : KeyOf(s) \in emitted' /\ KeyOf(s) \notin outbox'
                            => stage'[s] \in {"done", "failed"}
    BY <2>1 DEF KeysInv
  <2>4. \A s \in Requests : stage'[s] = "inserted" => KeyOf(s) \notin outbox'
    BY <2>1 DEF KeysInv, KeyIsFree
  <2>5. \A s \in Requests : \A q \in Requests \ {s} :
          stage'[s] = "inserted" /\ KeyOf(q) = KeyOf(s) => stage'[q] # "inserted"
    BY <2>1 DEF KeysInv, KeyIsFree
  <2> QED
    BY <2>2, <2>3, <2>4, <2>5 DEF KeysInv, KeyIsFree
<1>3. ASSUME NEW k \in Keys, DeleteOlderThan(k)
      PROVE  KeysInv'
  <2>1. \A s \in Requests : KeyOf(s)' = KeyOf(s)
    BY DEF KeyOf
  <2> QED
    BY <1>3, <2>1 DEF DeleteOlderThan, KeysInv, KeyIsFree
<1>4. CASE UNCHANGED vars
  <2>1. \A s \in Requests : KeyOf(s)' = KeyOf(s)
    BY DEF KeyOf
  <2> QED
    BY <1>4, <2>1 DEF vars, KeysInv, KeyIsFree
<1> QED
  BY <1>1, <1>2, <1>3, <1>4 DEF Next, Step, Quiet

\* A commit emits for its own method and subject, for the first time.
LEMMA CommitEmits ==
  ASSUME Typed, KeysInv, NEW r \in Requests, Commit(r)
  PROVE  /\ KeyOf(r) \notin emitted
         /\ ~Emitted(KindOf[r], SubjectOf[r]) \/ KindOf[r] \in {"RegisterUser", "UpdateUser"}
         /\ \A k, x : Emitted(k, x)' <=> Emitted(k, x) \/ (k = KindOf[r] /\ x = SubjectOf[r])
<1>1. stage[r] = "inserted" /\ emitted' = emitted \cup {KeyOf(r)}
  BY CommitEffect DEF Typed
<1>2. KeyOf(r) \notin emitted
  BY <1>1 DEF KeysInv
<1>3. ASSUME IsOrder(r), NEW s \in Requests, KindOf[s] = KindOf[r], SubjectOf[s] = SubjectOf[r]
      PROVE  KeyOf(s) = KeyOf(r)
  BY <1>3 DEF KeyOf, IsOrder
<1>4. ~Emitted(KindOf[r], SubjectOf[r]) \/ KindOf[r] \in {"RegisterUser", "UpdateUser"}
  <2>1. CASE IsOrder(r)
    BY <1>2, <1>3, <2>1 DEF Emitted
  <2>2. CASE ~IsOrder(r)
    BY <2>2, ApplicationAssumption DEF IsOrder, Kinds
  <2> QED
    BY <2>1, <2>2
<1>5. \A s \in Requests : KeyOf(s)' = KeyOf(s)
  BY DEF KeyOf
<1>6. ASSUME NEW k, NEW x
      PROVE  Emitted(k, x)' <=> Emitted(k, x) \/ (k = KindOf[r] /\ x = SubjectOf[r])
  <2>1. ASSUME Emitted(k, x)'
        PROVE  Emitted(k, x) \/ (k = KindOf[r] /\ x = SubjectOf[r])
    <3>1. PICK s \in Requests : KindOf[s] = k /\ SubjectOf[s] = x /\ KeyOf(s) \in emitted'
      BY <1>5, <2>1 DEF Emitted
    <3> QED
      BY <1>1, <3>1, KeyDetermines DEF Emitted
  <2>2. ASSUME Emitted(k, x) \/ (k = KindOf[r] /\ x = SubjectOf[r])
        PROVE  Emitted(k, x)'
    BY <1>1, <1>5, <2>2 DEF Emitted
  <2> QED
    BY <2>1, <2>2
<1> QED
  BY <1>2, <1>4, <1>6

LEMMA EventStep ==
  ASSUME Typed, LocksInv, KeysInv, EventPerChange, [Next]_vars
  PROVE  EventPerChange'
<1>0. \A s \in Requests : KeyOf(s)' = KeyOf(s)
  BY DEF KeyOf
<1>1. CASE UNCHANGED <<orders, users, updates, emitted>>
  <2>1. \A k, x : Emitted(k, x)' <=> Emitted(k, x)
    BY <1>0, <1>1 DEF Emitted
  <2>2. updates \in SUBSET Requests
    BY DEF Typed, TypeOK
  <2> QED
    BY <1>0, <1>1, <2>1, <2>2 DEF EventPerChange
<1>2. ASSUME NEW r \in Requests, Commit(r)
      PROVE  EventPerChange'
  <2>1. \A k, x : Emitted(k, x)' <=> Emitted(k, x) \/ (k = KindOf[r] /\ x = SubjectOf[r])
    BY <1>2, CommitEmits, SMTT(30), Z3T(30)
  <2>2. /\ updates \in SUBSET Requests /\ emitted' = emitted \cup {KeyOf(r)}
        /\ KeyOf(r) \notin emitted
        /\ orders \in [Orders -> {"none", "pending", "confirmed"}]
    BY <1>2, CommitEmits, CommitEffect DEF Typed, TypeOK
  <2>3. ASSUME UNCHANGED updates
        PROVE  /\ \A q \in updates' : KeyOf(q)' \in emitted'
               /\ \A q, s \in updates' : q # s => KeyOf(q)' # KeyOf(s)'
    BY <1>0, <2>2, <2>3 DEF EventPerChange
  <2>4. CASE KindOf[r] = "CreateOrder"
    <3>1. /\ UNCHANGED <<users, updates>>
          /\ orders' = [orders EXCEPT ![SubjectOf[r]] = "pending"]
      BY <1>2, <2>4, CommitEffect DEF Typed
    <3>2. SubjectOf[r] \in Orders
      BY <2>4, OrderFacts DEF IsOrder
    <3>3. ~Emitted("CreateOrder", SubjectOf[r])
      BY <1>2, <2>4, CommitEmits
    <3>4. orders[SubjectOf[r]] = "none" /\ ~Emitted("ConfirmOrder", SubjectOf[r])
      BY <3>2, <3>3, SMT, Z3, Zenon DEF EventPerChange
    <3>5. \A o \in Orders : /\ orders'[o] # "none" <=> Emitted("CreateOrder", o)'
                            /\ orders'[o] = "confirmed" <=> Emitted("ConfirmOrder", o)'
      BY <2>1, <2>2, <2>4, <3>1, <3>2, <3>4, SMT, Z3, Zenon DEF EventPerChange
    <3>6. \A u \in Users : u \in users' <=> Emitted("RegisterUser", u)'
      BY <2>1, <2>4, <3>1 DEF EventPerChange
    <3> QED
      BY <2>3, <3>1, <3>5, <3>6 DEF EventPerChange
  <2>5. CASE KindOf[r] = "ConfirmOrder"
    <3>1. /\ UNCHANGED <<users, updates>>
          /\ orders' = [orders EXCEPT ![SubjectOf[r]] = "confirmed"]
          /\ stage[r] = "inserted"
      BY <1>2, <2>5, CommitEffect DEF Typed
    <3>2. SubjectOf[r] \in Orders
      BY <2>5, OrderFacts, SMT, Z3, Zenon DEF IsOrder
    <3>3. orders[SubjectOf[r]] # "none"
      BY <2>5, <3>1 DEF LocksInv, Claim
    <3>4. \A o \in Orders : /\ orders'[o] # "none" <=> Emitted("CreateOrder", o)'
                            /\ orders'[o] = "confirmed" <=> Emitted("ConfirmOrder", o)'
      BY <2>1, <2>2, <2>5, <3>1, <3>2, <3>3 DEF EventPerChange
    <3>5. \A u \in Users : u \in users' <=> Emitted("RegisterUser", u)'
      BY <2>1, <2>5, <3>1 DEF EventPerChange
    <3> QED
      BY <2>3, <3>1, <3>4, <3>5, SMT, Z3, Zenon DEF EventPerChange
  <2>6. CASE KindOf[r] = "RegisterUser"
    <3>1. UNCHANGED <<orders, updates>> /\ users' = users \cup {SubjectOf[r]}
      BY <1>2, <2>6, CommitEffect, SMT, Z3, Zenon DEF Typed
    <3>2. \A o \in Orders : /\ orders'[o] # "none" <=> Emitted("CreateOrder", o)'
                            /\ orders'[o] = "confirmed" <=> Emitted("ConfirmOrder", o)'
      BY <2>1, <2>6, <3>1 DEF EventPerChange
    <3>3. \A u \in Users : u \in users' <=> Emitted("RegisterUser", u)'
      BY <2>1, <2>6, <3>1 DEF EventPerChange
    <3> QED
      BY <2>3, <3>1, <3>2, <3>3 DEF EventPerChange
  <2>7. CASE KindOf[r] = "UpdateUser"
    <3>1. UNCHANGED <<orders, users>> /\ updates' = updates \cup {r}
      BY <1>2, <2>7, CommitEffect, SMT, Z3, Zenon DEF Typed
    <3>2. \A o \in Orders : /\ orders'[o] # "none" <=> Emitted("CreateOrder", o)'
                            /\ orders'[o] = "confirmed" <=> Emitted("ConfirmOrder", o)'
      BY <2>1, <2>7, <3>1 DEF EventPerChange
    <3>3. \A u \in Users : u \in users' <=> Emitted("RegisterUser", u)'
      BY <2>1, <2>7, <3>1 DEF EventPerChange
    <3>4. /\ \A q \in updates' : KeyOf(q)' \in emitted'
          /\ \A q, s \in updates' : q # s => KeyOf(q)' # KeyOf(s)'
      BY <1>0, <2>2, <3>1, SMT, Z3, Zenon DEF EventPerChange
    <3> QED
      BY <3>2, <3>3, <3>4 DEF EventPerChange
  <2> QED
    BY <2>4, <2>5, <2>6, <2>7, ApplicationAssumption DEF Kinds
<1>3. ASSUME NEW r \in Requests, Quiet(r)
      PROVE  UNCHANGED <<orders, users, updates, emitted>>
  BY <1>3, QuietEffect DEF Typed, tables
<1>4. ASSUME NEW k \in Keys, DeleteOlderThan(k)
      PROVE  UNCHANGED <<orders, users, updates, emitted>>
  BY <1>4 DEF DeleteOlderThan
<1>5. UNCHANGED vars => UNCHANGED <<orders, users, updates, emitted>>
  BY DEF vars
<1> QED
  BY <1>1, <1>2, <1>3, <1>4, <1>5 DEF Next, Step, Quiet

\* Unless the outbox is cleaned up while a request with the same idempotency key is still
\* to come, a change of a business table and its outbox message exist together: no order,
\* confirmation, registration or update without its message, no message without its
\* change, and no two updates behind one message.
THEOREM ChangeHasItsMessage ==
  ASSUME ~EarlyCleanup
  PROVE  Spec => []EventPerChange
<1>1. Init => KeysInv
  BY DEF Init, KeysInv
<1>2. Init => EventPerChange
  BY DEF Init, EventPerChange, Emitted
<1>3. Typed /\ LocksInv /\ KeysInv /\ [Next]_vars => KeysInv'
  BY KeysStep
<1>4. Typed /\ LocksInv /\ KeysInv /\ EventPerChange /\ [Next]_vars => EventPerChange'
  BY EventStep
<1> QED
  BY <1>1, <1>2, <1>3, <1>4, LocksInvariant, PTL DEF Spec

-----------------------------------------------------------------------------
(* Quantities *)

\* An order adds its quantity to the total of the orders it joins.
LEMMA TotalAdd ==
  ASSUME NEW S, NEW o \in Orders, o \notin S, IsFiniteSet(Units(S))
  PROVE  /\ IsFiniteSet(Units(S \cup {o}))
         /\ Total(S \cup {o}) = Total(S) + QuantityOf[o]
<1> DEFINE U == {o} \X (1..QuantityOf[o])
<1>1. QuantityOf[o] \in Nat \ {0}
  BY ApplicationAssumption
<1>2. IsFiniteSet({o}) /\ Cardinality({o}) = 1
  BY FS_Singleton, Zenon
<1>3. IsFiniteSet(1..QuantityOf[o]) /\ Cardinality(1..QuantityOf[o]) = QuantityOf[o]
  BY <1>1, FS_Interval, SMTT(30), Z3T(30)
<1>4. IsFiniteSet(U) /\ Cardinality(U) = QuantityOf[o]
  <2>1. IsFiniteSet(U) /\ Cardinality(U) = Cardinality({o}) * Cardinality(1..QuantityOf[o])
    BY <1>2, <1>3, FS_Product, Zenon
  <2>2. Cardinality(U) = 1 * QuantityOf[o]
    BY <1>2, <1>3, <2>1
  <2> QED
    BY <1>1, <2>1, <2>2
<1>5. Units(S \cup {o}) = Units(S) \cup U
  BY Zenon DEF Units
<1>6. Units(S) \cap U = {}
  BY DEF Units
<1> HIDE DEF U
<1>7. IsFiniteSet(Units(S) \cup U)
  BY <1>4, FS_Union, Zenon
<1>8. Cardinality(Units(S) \cup U) = Cardinality(Units(S)) + Cardinality(U) - Cardinality({})
  BY <1>4, <1>6, FS_Union
<1>9. Cardinality(Units(S)) \in Nat /\ Cardinality({}) = 0
  BY FS_CardinalityType, FS_EmptySet
<1>10. Cardinality(Units(S) \cup U) = Cardinality(Units(S)) + QuantityOf[o]
  BY <1>1, <1>4, <1>8, <1>9
<1> QED
  BY <1>5, <1>7, <1>10, Zenon DEF Total

\* And takes it away from the total of the orders it leaves.
LEMMA TotalRemove ==
  ASSUME NEW S, NEW o \in Orders, o \in S, IsFiniteSet(Units(S))
  PROVE  /\ IsFiniteSet(Units(S \ {o}))
         /\ Total(S \ {o}) = Total(S) - QuantityOf[o]
<1>1. Units(S \ {o}) \in SUBSET Units(S)
  BY Zenon DEF Units
<1>2. IsFiniteSet(Units(S \ {o}))
  BY <1>1, FS_Subset, ZenonT(30)
<1>3. S = (S \ {o}) \cup {o}
  OBVIOUS
<1>4. Total(S) = Total(S \ {o}) + QuantityOf[o]
  BY <1>2, <1>3, TotalAdd
<1>5. Total(S \ {o}) \in Nat /\ QuantityOf[o] \in Nat
  BY <1>2, FS_CardinalityType, ApplicationAssumption DEF Total
<1> QED
  BY <1>2, <1>4, <1>5

\* The books: the units of the pending and of the confirmed orders are finitely many,
\* and the inventory shows their numbers.
BooksInv ==
  \A p \in Products :
    /\ IsFiniteSet(Units(OrdersIn(p, "pending")))
    /\ IsFiniteSet(Units(OrdersIn(p, "confirmed")))
    /\ reserved[p] = Total(OrdersIn(p, "pending"))
    /\ quantity[p] = Stock[p] - Total(OrdersIn(p, "confirmed"))

\* A commit that creates an order finds none, and one that confirms it finds it pending,
\* since its message is the first with its key.
LEMMA CommitFinds ==
  ASSUME Typed, LocksInv, KeysInv, EventPerChange, NEW r \in Requests, Commit(r)
  PROVE  /\ KindOf[r] = "CreateOrder" => orders[SubjectOf[r]] = "none"
         /\ KindOf[r] = "ConfirmOrder" => orders[SubjectOf[r]] = "pending"
<1>1. /\ stage[r] = "inserted"
      /\ orders \in [Orders -> {"none", "pending", "confirmed"}]
  BY CommitEffect, SMT, Z3, Zenon DEF Typed, TypeOK
<1>2. CASE KindOf[r] = "CreateOrder"
  <2>1. SubjectOf[r] \in Orders /\ ~Emitted("CreateOrder", SubjectOf[r])
    BY <1>2, CommitEmits, OrderFacts, SMT, Z3, Zenon DEF IsOrder
  <2> QED
    BY <1>2, <2>1 DEF EventPerChange
<1>3. CASE KindOf[r] = "ConfirmOrder"
  <2>1. SubjectOf[r] \in Orders /\ ~Emitted("ConfirmOrder", SubjectOf[r])
    BY <1>3, CommitEmits, OrderFacts DEF IsOrder
  <2>2. orders[SubjectOf[r]] # "none"
    BY <1>1, <1>3 DEF LocksInv, Claim
  <2> QED
    BY <1>1, <1>3, <2>1, <2>2, SMT, Z3, Zenon DEF EventPerChange
<1> QED
  BY <1>2, <1>3, SMT, Z3, Zenon

LEMMA BooksStep ==
  ASSUME Typed, LocksInv, KeysInv, EventPerChange, BooksInv, [Next]_vars
  PROVE  BooksInv'
<1>0. /\ orders \in [Orders -> {"none", "pending", "confirmed"}]
      /\ reserved \in [Products -> Nat] /\ quantity \in [Products -> Nat]
  BY DEF Typed, TypeOK
<1>1. CASE UNCHANGED <<quantity, reserved, orders>>
  <2>1. \A p \in Products : /\ OrdersIn(p, "pending")' = OrdersIn(p, "pending")
                            /\ OrdersIn(p, "confirmed")' = OrdersIn(p, "confirmed")
    BY <1>1 DEF OrdersIn
  <2> QED
    BY <1>1, <2>1, Zenon DEF BooksInv, Total, Units
<1>2. ASSUME NEW r \in Requests, Commit(r), KindOf[r] = "CreateOrder"
      PROVE  BooksInv'
  <2> DEFINE o == SubjectOf[r]
  <2>1. /\ o \in Orders /\ Product(r) = ProductOf[o] /\ Quantity(r) = QuantityOf[o]
        /\ ProductOf[o] \in Products /\ QuantityOf[o] \in Nat
    BY <1>2, OrderFacts, SMT, Z3, Zenon DEF IsOrder, Product, Quantity
  <2>2. /\ quantity' = quantity
        /\ reserved' = [reserved EXCEPT ![ProductOf[o]] = @ + QuantityOf[o]]
        /\ orders' = [orders EXCEPT ![o] = "pending"]
    BY <1>2, <2>1, CommitEffect DEF Typed
  <2>3. orders[o] = "none"
    BY <1>2, CommitFinds
  <2> HIDE DEF o
  <2>4. ASSUME NEW p \in Products
        PROVE  /\ OrdersIn(p, "confirmed")' = OrdersIn(p, "confirmed")
               /\ p # ProductOf[o] => OrdersIn(p, "pending")' = OrdersIn(p, "pending")
               /\ p = ProductOf[o] => /\ OrdersIn(p, "pending")' = OrdersIn(p, "pending") \cup {o}
                                      /\ o \notin OrdersIn(p, "pending")
    BY <1>0, <2>1, <2>2, <2>3, Zenon DEF OrdersIn
  <2>5. ASSUME NEW p \in Products
        PROVE  /\ IsFiniteSet(Units(OrdersIn(p, "pending")'))
               /\ IsFiniteSet(Units(OrdersIn(p, "confirmed")'))
               /\ reserved'[p] = Total(OrdersIn(p, "pending")')
               /\ quantity'[p] = Stock[p] - Total(OrdersIn(p, "confirmed")')
    <3>1. CASE p # ProductOf[o]
      <4>1. reserved'[p] = reserved[p]
        BY <1>0, <2>2, <3>1, Zenon
      <4> QED
        BY <2>2, <2>4, <3>1, <4>1 DEF BooksInv
    <3>2. CASE p = ProductOf[o]
      <4>1. reserved'[p] = reserved[p] + QuantityOf[o]
        BY <1>0, <2>2, <3>2
      <4>2. /\ IsFiniteSet(Units(OrdersIn(p, "pending") \cup {o}))
            /\ Total(OrdersIn(p, "pending") \cup {o}) = Total(OrdersIn(p, "pending")) + QuantityOf[o]
        BY <2>1, <2>4, <3>2, TotalAdd, Zenon DEF BooksInv
      <4> QED
        BY <2>2, <2>4, <3>2, <4>1, <4>2, SMTT(30), Z3T(30) DEF BooksInv
    <3> QED
      BY <3>1, <3>2, Zenon
  <2> QED
    BY <2>5, ZenonT(30) DEF BooksInv, Total, Units
<1>3. ASSUME NEW r \in Requests, Commit(r), KindOf[r] = "ConfirmOrder"
      PROVE  BooksInv'
  <2> DEFINE o == SubjectOf[r]
  <2>1. /\ o \in Orders /\ Product(r) = ProductOf[o] /\ Quantity(r) = QuantityOf[o]
        /\ ProductOf[o] \in Products /\ QuantityOf[o] \in Nat
    BY <1>3, OrderFacts, SMTT(30), Z3T(30) DEF IsOrder, Product, Quantity
  <2>2. /\ quantity' = [quantity EXCEPT ![ProductOf[o]] = @ - QuantityOf[o]]
        /\ reserved' = [reserved EXCEPT ![ProductOf[o]] = @ - QuantityOf[o]]
        /\ orders' = [orders EXCEPT ![o] = "confirmed"]
    BY <1>3, <2>1, CommitEffect DEF Typed
  <2>3. orders[o] = "pending"
    BY <1>3, CommitFinds
  <2> HIDE DEF o
  <2>4. ASSUME NEW p \in Products
        PROVE  /\ p # ProductOf[o] => /\ OrdersIn(p, "pending")' = OrdersIn(p, "pending")
                                      /\ OrdersIn(p, "confirmed")' = OrdersIn(p, "confirmed")
               /\ p = ProductOf[o] =>
                    /\ OrdersIn(p, "pending")' = OrdersIn(p, "pending") \ {o}
                    /\ OrdersIn(p, "confirmed")' = OrdersIn(p, "confirmed") \cup {o}
                    /\ o \in OrdersIn(p, "pending") /\ o \notin OrdersIn(p, "confirmed")
    BY <1>0, <2>1, <2>2, <2>3, Zenon DEF OrdersIn
  <2>5. ASSUME NEW p \in Products
        PROVE  /\ IsFiniteSet(Units(OrdersIn(p, "pending")'))
               /\ IsFiniteSet(Units(OrdersIn(p, "confirmed")'))
               /\ reserved'[p] = Total(OrdersIn(p, "pending")')
               /\ quantity'[p] = Stock[p] - Total(OrdersIn(p, "confirmed")')
    <3>1. CASE p # ProductOf[o]
      <4>1. reserved'[p] = reserved[p] /\ quantity'[p] = quantity[p]
        BY <1>0, <2>2, <3>1, Zenon
      <4> QED
        BY <2>4, <3>1, <4>1 DEF BooksInv
    <3>2. CASE p = ProductOf[o]
      <4>1. /\ reserved'[p] = reserved[p] - QuantityOf[o]
            /\ quantity'[p] = quantity[p] - QuantityOf[o]
        BY <1>0, <2>2, <3>2
      <4>2. /\ IsFiniteSet(Units(OrdersIn(p, "pending") \ {o}))
            /\ Total(OrdersIn(p, "pending") \ {o}) = Total(OrdersIn(p, "pending")) - QuantityOf[o]
        BY <2>1, <2>4, <3>2, TotalRemove DEF BooksInv
      <4>3. /\ IsFiniteSet(Units(OrdersIn(p, "confirmed") \cup {o}))
            /\ Total(OrdersIn(p, "confirmed") \cup {o})
                 = Total(OrdersIn(p, "confirmed")) + QuantityOf[o]
        BY <2>1, <2>4, <3>2, TotalAdd, SMT, Z3, Zenon DEF BooksInv
      <4>4. Total(OrdersIn(p, "confirmed")) \in Nat /\ Stock[p] \in Nat
        BY FS_CardinalityType, ApplicationAssumption, SMT, Z3, Zenon DEF BooksInv, Total
      <4>5. /\ reserved[p] = Total(OrdersIn(p, "pending"))
            /\ quantity[p] = Stock[p] - Total(OrdersIn(p, "confirmed"))
        BY DEF BooksInv
      <4>6. quantity'[p] = Stock[p] - (Total(OrdersIn(p, "confirmed")) + QuantityOf[o])
        BY <2>1, <4>1, <4>4, <4>5
      <4> QED
        BY <2>4, <3>2, <4>1, <4>2, <4>3, <4>5, <4>6, SMTT(30), Z3T(30)
    <3> QED
      BY <3>1, <3>2, SMT, Z3, Zenon
  <2> QED
    BY <2>5, Zenon DEF BooksInv, Total, Units
<1>4. ASSUME NEW r \in Requests, Commit(r), ~IsOrder(r)
      PROVE  UNCHANGED <<quantity, reserved, orders>>
  BY <1>4, CommitEffect, ApplicationAssumption, SMTT(30) DEF Typed, IsOrder, Kinds
<1>5. ASSUME NEW r \in Requests, Quiet(r)
      PROVE  UNCHANGED <<quantity, reserved, orders>>
  BY <1>5, QuietEffect, Zenon DEF Typed, tables
<1>6. ASSUME NEW k \in Keys, DeleteOlderThan(k)
      PROVE  UNCHANGED <<quantity, reserved, orders>>
  BY <1>6 DEF DeleteOlderThan
<1>7. UNCHANGED vars => UNCHANGED <<quantity, reserved, orders>>
  BY DEF vars
<1> QED
  BY <1>1, <1>2, <1>3, <1>4, <1>5, <1>6, <1>7 DEF Next, Step, Quiet, IsOrder

LEMMA BooksInvariant ==
  ASSUME ~EarlyCleanup
  PROVE  Spec => []BooksInv
<1>1. Init => KeysInv
  BY DEF Init, KeysInv
<1>2. Init => BooksInv
  <2> SUFFICES ASSUME Init, NEW p \in Products
               PROVE  /\ IsFiniteSet(Units(OrdersIn(p, "pending")))
                      /\ IsFiniteSet(Units(OrdersIn(p, "confirmed")))
                      /\ reserved[p] = Total(OrdersIn(p, "pending"))
                      /\ quantity[p] = Stock[p] - Total(OrdersIn(p, "confirmed"))
    BY DEF BooksInv
  <2>1. OrdersIn(p, "pending") = {} /\ OrdersIn(p, "confirmed") = {}
    BY DEF Init, OrdersIn
  <2>2. Units({}) = {}
    BY DEF Units
  <2>3. reserved[p] = 0 /\ quantity[p] = Stock[p] /\ Stock[p] \in Nat
    BY ApplicationAssumption DEF Init
  <2> QED
    BY <2>1, <2>2, <2>3, FS_EmptySet, SMT, Z3, Zenon DEF Total
<1>3. Typed /\ LocksInv /\ KeysInv /\ [Next]_vars => KeysInv'
  BY KeysStep
<1>4. Typed /\ LocksInv /\ KeysInv /\ EventPerChange /\ BooksInv /\ [Next]_vars => BooksInv'
  BY BooksStep
<1> QED
  BY <1>1, <1>2, <1>3, <1>4, LocksInvariant, ChangeHasItsMessage, PTL DEF Spec

\* Unless the outbox is cleaned up early, what is reserved of a product is what its
\* pending orders ask for, for any number of orders, confirmations and connections: the
\* unique key of the outbox message stops the second confirmation of an order, whose
\* status ConfirmOrder (examples/app/internal/service/order.go) never looks at.
THEOREM ReservationsArePending ==
  ASSUME ~EarlyCleanup
  PROVE  Spec => []ReservedIsPending
<1>1. BooksInv => ReservedIsPending
  BY DEF BooksInv, ReservedIsPending
<1> QED
  BY <1>1, BooksInvariant, PTL

\* Under the same condition, what has left the stock is what confirmed orders asked for,
\* and the stock covers what is reserved.
THEOREM NothingIsOversold ==
  ASSUME ~EarlyCleanup
  PROVE  Spec => []NeverOversold
<1>1. BooksInv /\ Typed => NeverOversold
  BY DEF BooksInv, Typed, NeverOversold
<1> QED
  BY <1>1, BooksInvariant, LocksInvariant, PTL

-----------------------------------------------------------------------------
(* Waiting *)

\* Locks are taken in one order (order or user, inventory, key), so that nobody waits in a
\* circle for a lock, whatever the size of the pool: requests can stand still only when
\* the second connection that GetByID takes within the transaction of ConfirmOrder is
\* missing, for all of them.
THEOREM LocksBlockNobody == Spec => [](Standstill => PoolIsExhausted)
<1>1. Typed => (Standstill => PoolIsExhausted)
  <2> SUFFICES ASSUME Typed, Standstill PROVE PoolIsExhausted
    OBVIOUS
  <2>0. /\ \A r \in Requests : stage[r] \in Open => ~Ready(r)
        /\ \E r \in Requests : stage[r] \in Open
    BY DEF Standstill
  <2>1. \A r \in Requests : stage[r] \notin {"inserted", "reserved"}
    BY <2>0 DEF Ready, Open
  <2>2. \A r \in Requests : stage[r] # "changed"
    BY <2>0, <2>1 DEF Ready, Open, KeyIsFree
  <2>3. \A r, s \in Requests : ~HoldsInventory(s, Product(r))
    BY <2>1, <2>2 DEF HoldsInventory
  <2>4. \A r \in Requests : stage[r] # "updated"
    BY <2>0, <2>3 DEF Ready, Open, InventoryIsFree
  <2>5. \A r \in Requests : SubjectIsFree(r) /\ InventoryIsFree(r)
    BY <2>1, <2>2, <2>3, <2>4 DEF SubjectIsFree, InventoryIsFree
  <2>6. \A r \in Requests : stage[r] \in Open => stage[r] = "begun"
    BY <2>0, <2>1, <2>2, <2>4, <2>5 DEF Ready, Open
  <2>7. \A r \in Requests : stage[r] \in Open
          => KindOf[r] = "ConfirmOrder" /\ ~(FreeConnections > 0)
    BY <2>0, <2>5, <2>6 DEF Ready
  <2>8. ~(FreeConnections > 0)
    BY <2>0, <2>7
  <2> QED
    BY <2>6, <2>7, <2>8 DEF PoolIsExhausted
<1> QED
  BY <1>1, LocksInvariant, PTL
==============================================================================

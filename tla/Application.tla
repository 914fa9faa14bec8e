----------------------------- MODULE Application -----------------------------
(***************************************************************************)
(* The services of the example application: requests that change business  *)
(* tables and insert an outbox message in the same transaction             *)
(* (examples/app/internal/service and repository).                         *)
(*                                                                         *)
(* A request is a few statements of one READ COMMITTED transaction. A      *)
(* statement that changes a row, or inserts a unique key, holds it until   *)
(* the end of the transaction; what it changed shows at the commit.        *)
(***************************************************************************)
EXTENDS Integers, FiniteSets

CONSTANTS
  Products,
  Orders,
  Users,
  Stock,         \* the quantity of a product at the beginning
  ProductOf,     \* the product of an order
  QuantityOf,    \* the quantity of an order
  Requests,
  KindOf,        \* the service method that a request calls
  SubjectOf,     \* the order or user a request is about
  InstantOf,     \* time.Now().UnixNano() when the request runs
  PoolSize,      \* connections in the pool
  EarlyCleanup   \* whether an outbox row may be cleaned up while a request with
                 \* the same idempotency key is still to come

Kinds == {"CreateOrder", "ConfirmOrder", "RegisterUser", "UpdateUser"}

ASSUME ApplicationAssumption ==
  /\ Stock \in [Products -> Nat]
  /\ ProductOf \in [Orders -> Products]
  /\ QuantityOf \in [Orders -> Nat \ {0}]
  /\ KindOf \in [Requests -> Kinds]
  /\ SubjectOf \in [Requests -> Orders \cup Users]
  /\ \A r \in Requests :
       SubjectOf[r] \in IF KindOf[r] \in {"CreateOrder", "ConfirmOrder"} THEN Orders ELSE Users
  /\ \A r, s \in Requests : KindOf[r] = "CreateOrder" /\ KindOf[s] = "CreateOrder"
                              /\ SubjectOf[r] = SubjectOf[s] => r = s
  /\ InstantOf \in [Requests -> Nat]
  /\ PoolSize \in Nat \ {0}
  /\ EarlyCleanup \in BOOLEAN

VARIABLES
  quantity,  \* inventory.quantity
  reserved,  \* inventory.reserved
  orders,    \* the status of an order, or "none"
  users,     \* the users that are registered
  updates,   \* history: the UpdateUser requests that took effect
  outbox,    \* the unique keys of the rows of the outbox
  emitted,   \* history: the unique keys of all rows that were ever inserted
  stage      \* the statement that a request has executed last

tables == <<quantity, reserved, orders, users, updates, outbox, emitted>>
vars == <<quantity, reserved, orders, users, updates, outbox, emitted, stage>>

\* The unique key (event_type, idempotency_key) of the message of a request. The id
\* of a user is new in every call of RegisterUser.
KeyOf(r) ==
  CASE KindOf[r] \in {"CreateOrder", "ConfirmOrder"} -> <<KindOf[r], SubjectOf[r]>>
    [] KindOf[r] = "RegisterUser" -> <<KindOf[r], r>>
    [] KindOf[r] = "UpdateUser" -> <<KindOf[r], SubjectOf[r], InstantOf[r]>>

Keys == {KeyOf(r) : r \in Requests}

Open == {"begun", "read", "reserved", "updated", "changed", "inserted"}

TypeOK ==
  /\ quantity \in [Products -> Nat]
  /\ reserved \in [Products -> Nat]
  /\ orders \in [Orders -> {"none", "pending", "confirmed"}]
  /\ users \in SUBSET Users
  /\ updates \in SUBSET Requests
  /\ outbox \in SUBSET Keys
  /\ emitted \in SUBSET Keys
  /\ stage \in [Requests -> {"new", "done", "failed"} \cup Open]

Init ==
  /\ quantity = Stock
  /\ reserved = [p \in Products |-> 0]
  /\ orders = [o \in Orders |-> "none"]
  /\ users = {}
  /\ updates = {}
  /\ outbox = {}
  /\ emitted = {}
  /\ stage = [r \in Requests |-> "new"]

-----------------------------------------------------------------------------
(* Connections and locks *)

FreeConnections == PoolSize - Cardinality({r \in Requests : stage[r] \in Open})

Product(r) == ProductOf[SubjectOf[r]]
Quantity(r) == QuantityOf[SubjectOf[r]]

HoldsInventory(r, p) ==
  /\ KindOf[r] \in {"CreateOrder", "ConfirmOrder"}
  /\ Product(r) = p
  /\ stage[r] \in {"changed", "inserted"} \cup
                    (IF KindOf[r] = "CreateOrder" THEN {"reserved"} ELSE {})

InventoryIsFree(r) == \A s \in Requests \ {r} : ~HoldsInventory(s, Product(r))

\* The row of the order or user, or the unique e-mail address, is free.
SubjectIsFree(r) ==
  \A s \in Requests \ {r} : KindOf[s] = KindOf[r] /\ SubjectOf[s] = SubjectOf[r]
    => stage[s] \notin {"updated", "changed", "inserted"}

KeyIsFree(r) ==
  \A s \in Requests \ {r} : KeyOf(s) = KeyOf(r) => stage[s] # "inserted"

\* Request r, a call of method k, executes the statement that follows "from". When
\* the statement finds what it needs the request goes on, otherwise the method
\* returns an error and rolls back.
Statement(r, k, from, ok, to) ==
  /\ stage[r] = from
  /\ KindOf[r] = k
  /\ stage' = [stage EXCEPT ![r] = IF ok THEN to ELSE "failed"]
  /\ UNCHANGED tables

-----------------------------------------------------------------------------
(* Statements *)

Begin(r) ==
  /\ Statement(r, KindOf[r], "new", TRUE, "begun")
  /\ FreeConnections > 0

\* Mutant: the available quantity is not compared.
ReserveUnchecked(r) ==
  /\ Statement(r, "CreateOrder", "begun", TRUE, "reserved")
  /\ InventoryIsFree(r)

Reserve(r) ==
  /\ Statement(r, "CreateOrder", "begun",
               quantity[Product(r)] - reserved[Product(r)] >= Quantity(r), "reserved")
  /\ InventoryIsFree(r)

Create(r) == Statement(r, "CreateOrder", "reserved", TRUE, "changed")

\* Mutant: two more connections are taken for the order and its product.
GetByIDAndProduct(r) ==
  /\ Statement(r, "ConfirmOrder", "begun", orders[SubjectOf[r]] # "none", "read")
  /\ FreeConnections > 1

\* GetByID takes a connection of its own.
GetByID(r) ==
  /\ Statement(r, "ConfirmOrder", "begun", orders[SubjectOf[r]] # "none", "read")
  /\ FreeConnections > 0

\* Whatever the status of the order is.
UpdateStatus(r) ==
  /\ Statement(r, "ConfirmOrder", "read", TRUE, "updated")
  /\ SubjectIsFree(r)

Decrease(r) ==
  /\ Statement(r, "ConfirmOrder", "updated",
               reserved[Product(r)] >= Quantity(r), "changed")
  /\ InventoryIsFree(r)

CreateUser(r) ==
  /\ Statement(r, "RegisterUser", "begun", SubjectOf[r] \notin users, "changed")
  /\ SubjectIsFree(r)

UpdateUser(r) ==
  /\ Statement(r, "UpdateUser", "begun", SubjectOf[r] \in users, "changed")
  /\ SubjectIsFree(r)

\* Mutant: the table has no unique constraint on the key.
InsertDuplicates(r) == Statement(r, KindOf[r], "changed", TRUE, "inserted")

Insert(r) ==
  /\ Statement(r, KindOf[r], "changed", KeyOf(r) \notin outbox, "inserted")
  /\ KeyIsFree(r)

ReservedAfter(r) ==
  CASE KindOf[r] = "CreateOrder"  -> [reserved EXCEPT ![Product(r)] = @ + Quantity(r)]
    [] KindOf[r] = "ConfirmOrder" -> [reserved EXCEPT ![Product(r)] = @ - Quantity(r)]
    [] OTHER                      -> reserved

\* What the transaction of r has changed becomes visible.
Effects(r) ==
  LET k == KindOf[r]
  IN /\ reserved' = ReservedAfter(r)
     /\ quantity' = IF k = "ConfirmOrder" THEN [quantity EXCEPT ![Product(r)] = @ - Quantity(r)]
                                          ELSE quantity
     /\ orders' = CASE k = "CreateOrder"  -> [orders EXCEPT ![SubjectOf[r]] = "pending"]
                   [] k = "ConfirmOrder" -> [orders EXCEPT ![SubjectOf[r]] = "confirmed"]
                   [] OTHER              -> orders
     /\ users' = IF k = "RegisterUser" THEN users \cup {SubjectOf[r]} ELSE users
     /\ updates' = IF k = "UpdateUser" THEN updates \cup {r} ELSE updates

\* Mutant: the outbox message is not inserted with the transaction, and is lost when
\* its own insert fails.
CommitWithoutMessage(r) ==
  /\ stage[r] = "inserted"
  /\ Effects(r)
  /\ \E K \in {{}, {KeyOf(r)}} : outbox' = outbox \cup K /\ emitted' = emitted \cup K
  /\ stage' = [stage EXCEPT ![r] = "done"]

\* The commit. Its answer may be lost, and the caller gets an error.
Commit(r) ==
  /\ stage[r] = "inserted"
  /\ Effects(r)
  /\ outbox' = outbox \cup {KeyOf(r)}
  /\ emitted' = emitted \cup {KeyOf(r)}
  /\ \E s \in {"done", "failed"} : stage' = [stage EXCEPT ![r] = s]

\* A statement fails, the context of the request is cancelled, or the process is
\* killed: the transaction is rolled back.
Rollback(r) ==
  /\ stage[r] \in Open
  /\ stage' = [stage EXCEPT ![r] = "failed"]
  /\ UNCHANGED tables

\* DeleteOlderThan removes a row of the outbox that has been published.
DeleteOlderThan(k) ==
  /\ k \in outbox
  /\ EarlyCleanup \/ \A r \in Requests : KeyOf(r) = k => stage[r] \in {"done", "failed"}
  /\ outbox' = outbox \ {k}
  /\ UNCHANGED <<quantity, reserved, orders, users, updates, emitted, stage>>

Step(r) ==
  \/ Begin(r)
  \/ Reserve(r)
  \/ Create(r)
  \/ GetByID(r)
  \/ UpdateStatus(r)
  \/ Decrease(r)
  \/ CreateUser(r)
  \/ UpdateUser(r)
  \/ Insert(r)
  \/ Commit(r)

Next ==
  \/ \E r \in Requests : Step(r) \/ Rollback(r)
  \/ \E k \in Keys : DeleteOlderThan(k)

Spec == Init /\ [][Next]_vars

-----------------------------------------------------------------------------
(* Properties *)

OrdersIn(p, s) == {o \in Orders : ProductOf[o] = p /\ orders[o] = s}

\* The units of product that a set of orders asks for, and their number.
Units(S) == UNION {{o} \X (1..QuantityOf[o]) : o \in S}
Total(S) == Cardinality(Units(S))

\* The reserved quantity of a product is what its pending orders ask for, although
\* ConfirmOrder never looks at the status of the order it confirms: a second
\* confirmation is stopped by the unique key of its outbox message alone.
ReservedIsPending == \A p \in Products : reserved[p] = Total(OrdersIn(p, "pending"))

\* What has left the stock is what confirmed orders asked for, and the stock covers
\* what is reserved: no product is sold twice. (The quantity of an order is positive in
\* the model; no code checks that, see the README.)
NeverOversold ==
  \A p \in Products : /\ quantity[p] = Stock[p] - Total(OrdersIn(p, "confirmed"))
                      /\ reserved[p] <= quantity[p]

Emitted(k, x) == \E r \in Requests : KindOf[r] = k /\ SubjectOf[r] = x /\ KeyOf(r) \in emitted

\* The change and its message are one: an order, a confirmation, a registration or
\* an update is there if and only if its outbox message was inserted.
EventPerChange ==
  /\ \A o \in Orders : /\ orders[o] # "none" <=> Emitted("CreateOrder", o)
                       /\ orders[o] = "confirmed" <=> Emitted("ConfirmOrder", o)
  /\ \A u \in Users : u \in users <=> Emitted("RegisterUser", u)
  /\ \A r \in updates : KeyOf(r) \in emitted
  /\ \A r, s \in updates : r # s => KeyOf(r) # KeyOf(s)

\* What the next statement of an open request waits for: a lock, or a connection.
Ready(r) ==
  CASE stage[r] = "begun" ->
         (CASE KindOf[r] = "CreateOrder"  -> InventoryIsFree(r)
            [] KindOf[r] = "ConfirmOrder" -> FreeConnections > 0
            [] OTHER                      -> SubjectIsFree(r))
    [] stage[r] = "read"    -> SubjectIsFree(r)
    [] stage[r] = "updated" -> InventoryIsFree(r)
    [] stage[r] = "changed" -> KeyIsFree(r)
    [] OTHER                -> TRUE

Standstill ==
  /\ \E r \in Requests : stage[r] \in Open
  /\ \A r \in Requests : stage[r] \in Open => ~Ready(r)

\* Why requests can come to a standstill: every one of them is in ConfirmOrder and waits
\* in GetByID for a second connection, and together they hold the whole pool.
PoolIsExhausted ==
  /\ ~(FreeConnections > 0)
  /\ \A r \in Requests : stage[r] \in Open => KindOf[r] = "ConfirmOrder" /\ stage[r] = "begun"

\* Requests never all wait for each other's row locks and unique keys, in whatever order
\* the methods take them: when all stand still, the pool is the reason, and ConfirmOrder
\* alone. An open request can go on exactly when it is Ready.
OnlyThePoolBlocks ==
  /\ Standstill => PoolIsExhausted
  /\ \A r \in Requests : stage[r] \in Open => (Ready(r) <=> ENABLED Step(r))
==============================================================================

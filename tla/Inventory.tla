------------------------------ MODULE Inventory ------------------------------
(***************************************************************************)
(* The e-commerce backend of builtins/inventory/index.mjs: products and    *)
(* their stock, the stock ledger, orders, payments and returns.  Handlers  *)
(* are async functions that interleave at every await; a worker runs its   *)
(* stock mutations one at a time through a promise chain (the stock lock), *)
(* but every other read-modify-write of a document is unprotected.         *)
(*                                                                         *)
(* A product is published, has one variant and costs 1, so an order's      *)
(* total is its number of units; a return has one line.  An adjustment to  *)
(* an absolute level is the delta from the stock it reads.  The ledgers    *)
(* are kept as sums: of the movements of an item, of the payments and of   *)
(* the refunds of an order.                                                *)
(***************************************************************************)
EXTENDS Integers, Sequences, FiniteSets

CONSTANTS
    Actor,         \* concurrent handler calls
    Worker, On,    \* the plugin's workers; On[a] is the one that runs a
    Item, OrderId, ReturnId,
    Carts,         \* what is ordered: sequences of [item, qty]
    Opening,       \* opening stock of a new product
    Amounts,       \* amounts paid and refunded
    Adjustments,   \* deltas of manual stock corrections
    None,
    MaxCalls       \* bound: handler calls

ASSUME InventoryConstants ==
    /\ On \in [Actor -> Worker]
    /\ IsFiniteSet(Actor) /\ IsFiniteSet(OrderId) /\ IsFiniteSet(ReturnId)
    /\ Opening \in Nat /\ MaxCalls \in Nat
    /\ Amounts \subseteq Nat \ {0}
    /\ Adjustments \subseteq Int
    /\ Carts \subseteq Seq([item : Item, qty : Nat \ {0}]) \ {<<>>}
    /\ None \notin Actor \cup OrderId \cup ReturnId

VARIABLES
    item,       \* products: [state, stock]
    moved,      \* sum of the movements of each item
    order,      \* order documents
    ret,        \* return documents
    payments,   \* sum of the payment records of each order
    refunds,    \* sum of its refund records
    counter,    \* the stored counters of order and of return numbers
    lock,       \* each worker's stock lock: the call that holds it
    call,       \* each actor's handler call and its locals
    calls,      \* calls made
    sold,       \* history: units that left stock for orders
    meddled     \* history: items edited from a stale copy, or removed while stock moved

stockVars == <<item, moved, sold, meddled>>
docs == <<order, ret, payments, refunds>>
vars == <<stockVars, docs, counter, lock, call, calls>>

NoOrder == [status |-> "none", cart |-> <<>>, number |-> 0, paid |-> 0, refunded |-> 0,
            restocked |-> FALSE]
NoReturn == [of |-> None, item |-> None, qty |-> 0, number |-> 0, status |-> "none",
             restocked |-> FALSE, refunded |-> FALSE]
Idle == [op |-> "none", at |-> "none", cart |-> <<>>, todo |-> <<>>, base |-> 0, n |-> 0,
         o |-> None, doc |-> NoOrder, r |-> None, rdoc |-> NoReturn, amount |-> 0, refund |-> FALSE]

Orders == {o \in OrderId : order[o].status # "none"}
Returns == {r \in ReturnId : ret[r].status # "none"}

\* The sum of a function into the natural numbers over a finite set: as many pairs.
SumOver(f, S) == Cardinality(UNION {{x} \X (1 .. f[x]) : x \in S})

Total(cart) == SumOver([k \in DOMAIN cart |-> cart[k].qty], DOMAIN cart)

\* The units of a product on the first lines of a cart, and on all of them.
UnitsUpTo(cart, last, i) ==
    SumOver([k \in DOMAIN cart |-> IF cart[k].item = i THEN cart[k].qty ELSE 0], 1 .. last)
Units(cart, i) == UnitsUpTo(cart, Len(cart), i)

TypeOK ==
    /\ item \in [Item -> [state : {"new", "listed", "removed"}, stock : Nat]]
    /\ moved \in [Item -> Int]
    /\ \A o \in OrderId : order[o].paid \in Nat /\ order[o].refunded \in Nat
    /\ payments \in [OrderId -> Nat] /\ refunds \in [OrderId -> Nat]
    /\ counter \in [{"order", "newreturn"} -> Nat]
    /\ lock \in [Worker -> Actor \cup {None}]
    /\ \A a \in Actor : call[a].base \in Nat /\ DOMAIN call[a] = DOMAIN Idle

Init ==
    /\ item \in [Item -> {[state |-> "new", stock |-> 0], [state |-> "listed", stock |-> Opening]}]
    /\ moved = [i \in Item |-> item[i].stock]
    /\ order = [o \in OrderId |-> NoOrder]
    /\ ret = [r \in ReturnId |-> NoReturn]
    /\ payments = [o \in OrderId |-> 0]
    /\ refunds = [o \in OrderId |-> 0]
    /\ counter = [k \in {"order", "newreturn"} |-> 0]
    /\ lock = [w \in Worker |-> None]
    /\ call = [a \in Actor |-> Idle]
    /\ calls = 0
    /\ sold = [i \in Item |-> 0]
    /\ meddled = {}

-----------------------------------------------------------------------------
\* A call starts, moves on to its next await, or returns.

Begin(a, c) ==
    /\ call[a] = Idle
    /\ calls < MaxCalls
    /\ calls' = calls + 1
    /\ call' = [call EXCEPT ![a] = c]

At(a, at) == call[a].at = at

Goto(a, at) == call' = [call EXCEPT ![a].at = at] /\ UNCHANGED calls

Return(a) == call' = [call EXCEPT ![a] = Idle] /\ UNCHANGED calls

Line(a) == Head(call[a].todo)

Holds(a) == lock[On[a]] = a

Release(a) == lock' = [lock EXCEPT ![On[a]] = IF Holds(a) THEN None ELSE @]

\* Bound: a call that will store a new document finds a fresh id for it.
HasId(op, used, ids) ==
    Cardinality(used) + Cardinality({a \in Actor : call[a].op = op}) < Cardinality(ids)

-----------------------------------------------------------------------------
\* The catalogue.  saveItem keeps the stock it read for a variant that exists
\* and writes the whole product, without the stock lock; a new product records
\* its opening stock in the ledger after the product is stored.

SaveNewItem(a, i) ==
    /\ item[i].state = "new"
    /\ Begin(a, [Idle EXCEPT !.op = "open", !.at = "record", !.todo = <<[item |-> i, delta |-> Opening]>>])
    /\ item' = [item EXCEPT ![i] = [state |-> "listed", stock |-> Opening]]
    /\ UNCHANGED <<moved, sold, meddled, docs, counter, lock>>

SaveItemRead(a, i) ==
    /\ item[i].state = "listed"
    /\ Begin(a, [Idle EXCEPT !.op = "save", !.at = "put", !.base = item[i].stock,
                             !.todo = <<[item |-> i, delta |-> 0]>>])
    /\ UNCHANGED <<stockVars, docs, counter, lock>>

SaveItemPut(a) ==
    /\ call[a].op = "save"
    /\ LET i == Line(a).item
           product == [state |-> "listed", stock |-> call[a].base] IN
         /\ item' = [item EXCEPT ![i] = product]
         /\ meddled' = IF item[i] = product THEN meddled ELSE meddled \cup {i}
    /\ Return(a)
    /\ UNCHANGED <<moved, sold, docs, counter, lock>>

RemoveItem(a, i) ==
    /\ item[i].state = "listed"
    /\ call[a] = Idle /\ calls < MaxCalls
    /\ calls' = calls + 1
    /\ item' = [item EXCEPT ![i] = [state |-> "removed", stock |-> 0]]
    /\ meddled' = IF \A w \in Worker : lock[w] = None THEN meddled ELSE meddled \cup {i}
    /\ UNCHANGED <<moved, sold, docs, counter, lock, call>>

-----------------------------------------------------------------------------
\* adjustStock, and createOrder up to the storage of its order.

AdjustStock(a, i, d) ==
    /\ Begin(a, [Idle EXCEPT !.op = "adjust", !.at = "lock", !.todo = <<[item |-> i, delta |-> d]>>])
    /\ UNCHANGED <<stockVars, docs, counter, lock>>

Moves(cart, sign) == [k \in DOMAIN cart |-> [item |-> cart[k].item, delta |-> sign * cart[k].qty]]

CreateOrder(a, cart) ==
    /\ HasId("order", Orders, OrderId)
    /\ Begin(a, [Idle EXCEPT !.op = "order", !.at = "lock", !.cart = cart, !.todo = Moves(cart, -1)])
    /\ UNCHANGED <<stockVars, docs, counter, lock>>

\* Mutant: the chain is not waited for.
WithStockLockAtOnce(a) ==
    /\ At(a, "lock")
    /\ lock' = [lock EXCEPT ![On[a]] = a]
    /\ Goto(a, IF call[a].op = "order" THEN "price" ELSE "read")
    /\ UNCHANGED <<stockVars, docs, counter>>

WithStockLock(a) ==
    /\ At(a, "lock")
    /\ lock[On[a]] = None
    /\ lock' = [lock EXCEPT ![On[a]] = a]
    /\ Goto(a, IF call[a].op = "order" THEN "price" ELSE "read")
    /\ UNCHANGED <<stockVars, docs, counter>>

\* Each line is checked by itself against the stored stock.
Available(cart) ==
    \A k \in DOMAIN cart :
        item[cart[k].item].state = "listed" /\ item[cart[k].item].stock >= cart[k].qty

PriceLines(a) ==
    /\ At(a, "price")
    /\ IF Available(call[a].cart)
       THEN Goto(a, "number") /\ UNCHANGED lock
       ELSE Return(a) /\ Release(a)
    /\ UNCHANGED <<stockVars, docs, counter>>

\* nextNumber: the counter updates of a worker wait for one another, also those
\* of calls that do not hold the stock lock.

\* Mutant: the update does not join the chain.
NextNumberReadAtOnce(a) ==
    /\ At(a, "number")
    /\ call' = [call EXCEPT ![a].at = "count", ![a].n = counter[call[a].op] + 1]
    /\ UNCHANGED <<stockVars, docs, counter, lock, calls>>

NextNumberRead(a) ==
    /\ At(a, "number")
    /\ \A b \in Actor : On[b] = On[a] => ~At(b, "count")
    /\ call' = [call EXCEPT ![a].at = "count", ![a].n = counter[call[a].op] + 1]
    /\ UNCHANGED <<stockVars, docs, counter, lock, calls>>

NextNumberWrite(a) ==
    /\ At(a, "count")
    /\ counter' = [counter EXCEPT ![call[a].op] = call[a].n]
    /\ Goto(a, IF call[a].op = "order" THEN "read" ELSE "settle")
    /\ UNCHANGED <<stockVars, docs, lock>>

\* After a line is done: the next one, under the same lock in createOrder and
\* under the lock taken anew elsewhere, or the end of the loop.
NextLine(a) ==
    LET rest == Tail(call[a].todo) IN
    \/ /\ rest # <<>> /\ call[a].op = "order"
       /\ call' = [call EXCEPT ![a].todo = rest, ![a].at = "read"]
       /\ UNCHANGED <<lock, calls>>
    \/ /\ rest # <<>> /\ call[a].op # "order"
       /\ call' = [call EXCEPT ![a].todo = rest, ![a].at = "lock"]
       /\ Release(a) /\ UNCHANGED calls
    \/ /\ rest = <<>> /\ call[a].op \in {"adjust", "open"}
       /\ Return(a) /\ Release(a)
    \/ /\ rest = <<>> /\ call[a].op \notin {"adjust", "open"}
       /\ call' = [call EXCEPT ![a].todo = rest, ![a].at = "settle"]
       /\ Release(a) /\ UNCHANGED calls

\* Mutant: the lock is not passed on when a call throws.
AdjustFailsHolding(a) ==
    /\ At(a, "read")
    /\ \/ item[Line(a).item].state # "listed"
       \/ item[Line(a).item].stock + Line(a).delta < 0
    /\ IF call[a].op \in {"order", "adjust"}
       THEN Return(a) /\ UNCHANGED lock
       ELSE NextLine(a)
    /\ UNCHANGED <<stockVars, docs, counter>>

\* The product is gone or the stock would go below zero.  The throw ends an
\* order or an adjustment; a cancellation or a return goes on with its next line.
AdjustFails(a) ==
    /\ At(a, "read")
    /\ \/ item[Line(a).item].state # "listed"
       \/ item[Line(a).item].stock + Line(a).delta < 0
    /\ IF call[a].op \in {"order", "adjust"}
       THEN Return(a) /\ Release(a)
       ELSE NextLine(a)
    /\ UNCHANGED <<stockVars, docs, counter>>

\* Mutant: the non-negative guard is left out.
AdjustReadNoGuard(a) ==
    /\ At(a, "read")
    /\ item[Line(a).item].state = "listed"
    /\ call' = [call EXCEPT ![a].at = "write", ![a].base = item[Line(a).item].stock]
    /\ UNCHANGED <<stockVars, docs, counter, lock, calls>>

AdjustRead(a) ==
    /\ At(a, "read")
    /\ item[Line(a).item].state = "listed"
    /\ item[Line(a).item].stock + Line(a).delta >= 0
    /\ call' = [call EXCEPT ![a].at = "write", ![a].base = item[Line(a).item].stock]
    /\ UNCHANGED <<stockVars, docs, counter, lock, calls>>

AdjustWrite(a) ==
    /\ At(a, "write")
    /\ item' = [item EXCEPT ![Line(a).item] =
                   [state |-> "listed", stock |-> call[a].base + Line(a).delta]]
    /\ Goto(a, "record")
    /\ UNCHANGED <<moved, sold, meddled, docs, counter, lock>>

AdjustRecord(a) ==
    /\ At(a, "record")
    /\ moved' = [moved EXCEPT ![Line(a).item] = @ + Line(a).delta]
    /\ sold' = IF call[a].op = "order" THEN [sold EXCEPT ![Line(a).item] = @ - Line(a).delta] ELSE sold
    /\ NextLine(a)
    /\ UNCHANGED <<item, meddled, docs, counter>>

PutOrder(a, o) ==
    /\ call[a].op = "order" /\ At(a, "settle")
    /\ o \notin Orders
    /\ order' = [order EXCEPT ![o] = [NoOrder EXCEPT !.status = "pending", !.cart = call[a].cart,
                                                     !.number = call[a].n]]
    /\ Return(a)
    /\ UNCHANGED <<stockVars, ret, payments, refunds, counter, lock>>

-----------------------------------------------------------------------------
\* Handlers that rewrite an order document they have read.

CancelOrder(a, o, restock) ==
    /\ o \in Orders /\ order[o].status \notin {"cancelled", "fulfilled", "refunded"}
    /\ LET again == restock /\ ~order[o].restocked IN
         Begin(a, [Idle EXCEPT !.op = "cancel", !.o = o,
                      !.doc = [order[o] EXCEPT !.status = "cancelled", !.restocked = @ \/ again],
                      !.todo = IF again THEN Moves(order[o].cart, 1) ELSE <<>>,
                      !.at = IF again THEN "lock" ELSE "settle"])
    /\ UNCHANGED <<stockVars, docs, counter, lock>>

UpdateOrderStatus(a, o, to) ==
    /\ o \in Orders
    /\ Begin(a, [Idle EXCEPT !.op = "status", !.at = "settle", !.o = o,
                             !.doc = [order[o] EXCEPT !.status = to]])
    /\ UNCHANGED <<stockVars, docs, counter, lock>>

\* recomputePaymentStatus, and the order status that follows from it.
Paid(d, amount) ==
    LET e == [d EXCEPT !.paid = @ + amount] IN
    IF e.refunded = 0 /\ e.paid >= Total(e.cart) /\ e.status = "pending"
    THEN [e EXCEPT !.status = "paid"] ELSE e

Refunded(d, amount) ==
    LET e == [d EXCEPT !.refunded = @ + amount] IN
    IF e.refunded >= Total(e.cart) THEN [e EXCEPT !.status = "refunded"] ELSE e

RecordPayment(a, o, amount) ==
    /\ o \in Orders
    /\ Begin(a, [Idle EXCEPT !.op = "pay", !.at = "ledger", !.o = o, !.amount = amount,
                             !.doc = Paid(order[o], amount)])
    /\ UNCHANGED <<stockVars, docs, counter, lock>>

MaxRefund(o) == order[o].paid - order[o].refunded

\* Mutant: the refund is compared with what was paid, not with what is left.
RefundPaymentOfPaid(a, o, amount) ==
    /\ o \in Orders /\ amount <= order[o].paid
    /\ Begin(a, [Idle EXCEPT !.op = "refund", !.at = "ledger", !.o = o, !.amount = amount,
                             !.doc = Refunded(order[o], amount)])
    /\ UNCHANGED <<stockVars, docs, counter, lock>>

RefundPayment(a, o, amount) ==
    /\ o \in Orders /\ amount <= MaxRefund(o)
    /\ Begin(a, [Idle EXCEPT !.op = "refund", !.at = "ledger", !.o = o, !.amount = amount,
                             !.doc = Refunded(order[o], amount)])
    /\ UNCHANGED <<stockVars, docs, counter, lock>>

\* The payment record is stored before the order document.
PutPayment(a) ==
    /\ At(a, "ledger")
    /\ IF call[a].op = "pay"
       THEN payments' = [payments EXCEPT ![call[a].o] = @ + call[a].amount] /\ UNCHANGED refunds
       ELSE refunds' = [refunds EXCEPT ![call[a].o] = @ + call[a].amount] /\ UNCHANGED payments
    /\ Goto(a, IF call[a].op = "return" THEN "refunded" ELSE "settle")
    /\ UNCHANGED <<stockVars, order, ret, counter, lock>>

PutOrderDoc(a) ==
    /\ call[a].op \in {"cancel", "status", "pay", "refund"} /\ At(a, "settle")
    /\ order' = [order EXCEPT ![call[a].o] = call[a].doc]
    /\ Return(a)
    /\ UNCHANGED <<stockVars, ret, payments, refunds, counter, lock>>

-----------------------------------------------------------------------------
\* Returns.

\* What earlier returns that are not rejected took back of an order's line.
AlreadyReturned(o, i) ==
    SumOver([r \in Returns |-> IF ret[r].of = o /\ ret[r].item = i /\ ret[r].status # "rejected"
                               THEN ret[r].qty ELSE 0], Returns)

CreateReturn(a, o, i, q) ==
    /\ o \in Orders /\ HasId("newreturn", Returns, ReturnId)
    /\ q <= Units(order[o].cart, i) - AlreadyReturned(o, i)
    /\ Begin(a, [Idle EXCEPT !.op = "newreturn", !.at = "number",
                             !.rdoc = [NoReturn EXCEPT !.of = o, !.item = i, !.qty = q,
                                                       !.status = "requested"]])
    /\ UNCHANGED <<stockVars, docs, counter, lock>>

PutReturn(a, r) ==
    /\ call[a].op = "newreturn" /\ At(a, "settle") /\ r \notin Returns
    /\ ret' = [ret EXCEPT ![r] = [call[a].rdoc EXCEPT !.number = call[a].n]]
    /\ Return(a)
    /\ UNCHANGED <<stockVars, order, payments, refunds, counter, lock>>

UpdateReturnStatus(a, r, to) ==
    /\ r \in Returns
    /\ Begin(a, [Idle EXCEPT !.op = "retstatus", !.at = "final", !.r = r,
                             !.rdoc = [ret[r] EXCEPT !.status = to]])
    /\ UNCHANGED <<stockVars, docs, counter, lock>>

\* processReturn: restock under the lock, then refund, then store the return.
ProcessReturn(a, r, restock, refund) ==
    /\ r \in Returns /\ ret[r].status # "refunded"
    /\ LET again == restock /\ ~ret[r].restocked IN
         Begin(a, [Idle EXCEPT !.op = "return", !.r = r, !.o = ret[r].of, !.refund = refund,
                      !.rdoc = [ret[r] EXCEPT !.restocked = @ \/ again],
                      !.todo = IF again THEN <<[item |-> ret[r].item, delta |-> ret[r].qty]>> ELSE <<>>,
                      !.at = IF again THEN "lock" ELSE "settle"])
    /\ UNCHANGED <<stockVars, docs, counter, lock>>

\* The amount is computed from one read of the order ...
ReturnAmount(a) ==
    LET left == MaxRefund(call[a].o) IN
    IF call[a].refund /\ ~call[a].rdoc.refunded
    THEN IF call[a].rdoc.qty < left THEN call[a].rdoc.qty ELSE left
    ELSE 0

ProcessReturnAmount(a) ==
    /\ call[a].op = "return" /\ At(a, "settle")
    /\ call' = [call EXCEPT ![a].amount = ReturnAmount(a),
                            ![a].at = IF ReturnAmount(a) > 0 THEN "refund" ELSE "final",
                            ![a].rdoc.status = IF call[a].rdoc.refunded THEN "refunded" ELSE "received"]
    /\ UNCHANGED <<stockVars, docs, counter, lock, calls>>

\* ... and refundPayment, which processReturn awaits, reads it again: it
\* throws if the rest has become too small, and the return is not stored.
ProcessReturnRefund(a) ==
    /\ call[a].op = "return" /\ At(a, "refund")
    /\ IF call[a].amount <= MaxRefund(call[a].o)
       THEN /\ call' = [call EXCEPT ![a].at = "ledger",
                                    ![a].doc = Refunded(order[call[a].o], call[a].amount)]
            /\ UNCHANGED calls
       ELSE Return(a)
    /\ UNCHANGED <<stockVars, docs, counter, lock>>

ProcessReturnOrder(a) ==
    /\ call[a].op = "return" /\ At(a, "refunded")
    /\ order' = [order EXCEPT ![call[a].o] = call[a].doc]
    /\ call' = [call EXCEPT ![a].at = "final", ![a].rdoc.refunded = TRUE, ![a].rdoc.status = "refunded"]
    /\ UNCHANGED <<stockVars, ret, payments, refunds, counter, lock, calls>>

PutReturnDoc(a) ==
    /\ At(a, "final")
    /\ ret' = [ret EXCEPT ![call[a].r] = call[a].rdoc]
    /\ Return(a)
    /\ UNCHANGED <<stockVars, order, payments, refunds, counter, lock>>

-----------------------------------------------------------------------------
Calls(a) ==
    \/ \E i \in Item : SaveNewItem(a, i) \/ SaveItemRead(a, i) \/ RemoveItem(a, i)
    \/ \E i \in Item, d \in Adjustments : AdjustStock(a, i, d)
    \/ \E cart \in Carts : CreateOrder(a, cart)
    \/ \E o \in OrderId, restock \in BOOLEAN : CancelOrder(a, o, restock)
    \/ \E o \in OrderId, to \in {"pending", "paid", "fulfilled", "refunded"} : UpdateOrderStatus(a, o, to)
    \/ \E o \in OrderId, m \in Amounts : RecordPayment(a, o, m) \/ RefundPayment(a, o, m)
    \/ \E o \in OrderId, i \in Item, q \in Amounts : CreateReturn(a, o, i, q)
    \/ \E r \in ReturnId, to \in {"requested", "approved", "received", "refunded", "rejected"} :
          UpdateReturnStatus(a, r, to)
    \/ \E r \in ReturnId, restock, refund \in BOOLEAN : ProcessReturn(a, r, restock, refund)

Continue(a) ==
    \/ SaveItemPut(a) \/ WithStockLock(a) \/ PriceLines(a) \/ NextNumberRead(a)
    \/ NextNumberWrite(a) \/ AdjustFails(a) \/ AdjustRead(a) \/ AdjustWrite(a) \/ AdjustRecord(a)
    \/ (\E o \in OrderId : PutOrder(a, o)) \/ PutPayment(a) \/ PutOrderDoc(a)
    \/ (\E r \in ReturnId : PutReturn(a, r)) \/ ProcessReturnAmount(a) \/ ProcessReturnRefund(a)
    \/ ProcessReturnOrder(a) \/ PutReturnDoc(a)

Next == \E a \in Actor : Calls(a) \/ Continue(a)

Spec == Init /\ [][Next]_vars

\* Storage answers, and the promise chain of a worker is first come, first
\* served: a call that waits for the lock gets it.
FairSpec == Spec /\ \A a \in Actor : SF_vars(Continue(a))

-----------------------------------------------------------------------------
\* Properties.

\* "The sum of movements always reconciles with on-hand stock" (index.mjs:432-433):
\* whatever handlers interleave in a worker, once the movement of a stock
\* change is recorded the ledger explains the stock of every product, unless a
\* product edit overwrote it from a stale copy; and stock never goes below zero.
StockReconciles ==
    \A i \in Item : item[i].state = "listed" =>
        /\ item[i].stock >= 0
        /\ \/ i \in meddled
           \/ \E a \in Actor : At(a, "record") /\ Line(a).item = i
           \/ item[i].stock = moved[i]

\* An order takes all of its stock or none ("the decrements that follow are
\* guaranteed to succeed", index.mjs:833-834): when no order is being placed, the
\* units that left stock are those of the stored orders.
OrdersAllOrNothing ==
    (meddled = {} /\ \A a \in Actor : call[a].op # "order") =>
        \A i \in Item : sold[i] = SumOver([o \in Orders |-> Units(order[o].cart, i)], Orders)

\* Two orders, or two returns, never get the same number, although returns are
\* numbered outside the stock lock (nextNumber, index.mjs:134-149).
NumbersUnique ==
    /\ \A o, p \in Orders : o # p => order[o].number # order[p].number
    /\ \A r, q \in Returns : r # q => ret[r].number # ret[q].number

\* However handlers overwrite each other's copies of an order, its document
\* never shows more money refunded than collected, nor more collected than the
\* payment records account for (index.mjs:1000-1059).
OrderShowsRealMoney ==
    \A o \in Orders : order[o].refunded <= order[o].paid /\ order[o].paid <= payments[o]

\* What is true of every stored order, its stock, its number and its money.
OrdersAreSound == OrdersAllOrNothing /\ NumbersUnique /\ OrderShowsRealMoney

\* Every handler call returns: no order of calls, failing ones included, leaves
\* the stock lock taken (withStockLock, index.mjs:128-132).
CallsReturn == \A a \in Actor : call[a] # Idle ~> call[a] = Idle

\* Returns never restock more of an order's line than was purchased: "several
\* returns could each be capped at the order line qty and collectively
\* restock/refund more than was purchased" (index.mjs:1090-1092) is excluded.
RestockBounded ==
    \A o \in Orders, i \in Item :
        SumOver([r \in Returns |-> IF ret[r].of = o /\ ret[r].item = i /\ ret[r].restocked
                                   THEN ret[r].qty ELSE 0], Returns)
            <= Units(order[o].cart, i)
=============================================================================

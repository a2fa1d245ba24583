--------------------------------- MODULE Cart ---------------------------------
(***************************************************************************)
(* From the shop's cart to its order: cart.service.ts, checkout.service.ts *)
(* and the reorder of storefront-account.service.ts, for one shopper, who  *)
(* gives one phone number.                                                 *)
(*                                                                         *)
(* A preview signs what the cart holds; an order is placed with that token *)
(* while the cart holds the same.  The signed prices and the delivery fee  *)
(* are copied to the order and left out; stock that is looked at and not   *)
(* reserved, and a token that expires, only refuse.                        *)
(*                                                                         *)
(* The handlers of a cart run in no transaction: a plan holds what a       *)
(* handler read, and a slow call is overtaken, by calls that run alone,    *)
(* between its read and its write.                                         *)
(***************************************************************************)
EXTENDS Integers, Sequences, Functions

CONSTANTS
    Variants,      \* variants on sale
    Quantities,    \* quantities that are added or set
    Keys,          \* idempotency keys of orders
    MaxCarts,      \* bound: carts
    MaxRows,       \* bound: rows a cart has ever had for a variant
    MaxQuantity,   \* bound: quantity of a row
    MaxCustomers,  \* bound: customers with the shopper's number
    SlowCart       \* the operations that may be overtaken after their read

ASSUME QuantitiesAssumption == Quantities \subseteq Nat \ {0}

VARIABLES
    carts,          \* Cart with its CartItems
    previews,       \* the tokens that previewCheckout has signed
    orders,         \* OnlineOrder
    customers,      \* types of the Customers with the shopper's number
    slowCart,       \* the plan of the overtaken call, if any
    cartOvertaken   \* history: a call wrote after what it had read was changed

cartRecords == <<carts, previews, orders, customers>>
cartVars == <<cartRecords, slowCart, cartOvertaken>>

Contents == [Variants -> Nat]
Nothing == [v \in Variants |-> 0]

\* A variant without a row has quantity 0.  rows counts the rows made so far,
\* the latest is the one in the cart.  wanted is history: what the shopper
\* has put in and not taken out again.
Carts == [items: Contents, rows: Contents, wanted: [Variants -> Int]]
Orders == [cart: Nat, key: Keys \cup {"none"}, items: Contents]

NoCartPlan == [op |-> "none"]

CartTypeOK ==
    /\ carts \in Seq(Carts)
    /\ \A p \in previews : p.cart \in DOMAIN carts /\ p.items \in Contents
    /\ orders \in Seq(Orders)
    /\ customers \in Seq({"WALK_IN", "RETAIL"})
    /\ slowCart.op \in SlowCart \cup {"none"}
    /\ cartOvertaken \in BOOLEAN

\* The till may have taken the shopper's number down before.
CartInit ==
    /\ carts = <<>>
    /\ previews = {}
    /\ orders = <<>>
    /\ customers \in {<<>>, <<"WALK_IN">>}
    /\ slowCart = NoCartPlan
    /\ cartOvertaken = FALSE

-----------------------------------------------------------------------------
(***************************************************************************)
(* Plans.                                                                  *)
(***************************************************************************)
InCart(c) == {v \in Variants : carts[c].items[v] > 0}

AddPlans ==
    {[op |-> "add", cart |-> c, variant |-> v, qty |-> q,
      had |-> carts[c].items[v], row |-> carts[c].rows[v]] :
       c \in DOMAIN carts, v \in Variants, q \in Quantities}

UpdatePlans(c) ==
    {[op |-> "update", cart |-> c, variant |-> v, qty |-> q, row |-> carts[c].rows[v]] :
       v \in InCart(c), q \in Quantities}

RemovePlans(c) ==
    {[op |-> "remove", cart |-> c, variant |-> v, row |-> carts[c].rows[v]] : v \in InCart(c)}

RowPlans == UNION {UpdatePlans(c) \cup RemovePlans(c) : c \in DOMAIN carts}

KeyUsed(k) == k # "none" /\ \E o \in DOMAIN orders : orders[o].key = k

FaultyMatches(preview) == TRUE

Matches(preview) == carts[preview.cart].items = preview.items

\* Any customer with the number may be found first; a WALK_IN is ignored.
Found ==
    IF customers = <<>> THEN {0}
    ELSE {IF customers[i] = "WALK_IN" THEN 0 ELSE i : i \in DOMAIN customers}

\* A used key answers with its order and changes nothing.
PlacePlans ==
    {[op |-> "place", key |-> k, cart |-> p.cart, items |-> p.items,
      customer |-> i, number |-> Len(orders) + 1] :
       k \in {k \in Keys \cup {"none"} : ~KeyUsed(k)},
       p \in {p \in previews : Matches(p)}, i \in Found}

CartPlans == AddPlans \cup RowPlans \cup PlacePlans

-----------------------------------------------------------------------------
(***************************************************************************)
(* Writes.                                                                 *)
(***************************************************************************)
Want(c, v, change) == [carts EXCEPT ![c].wanted[v] = @ + change]

\* A row is written by id, so that it has to be there still.
SameRow(p) == carts[p.cart].items[p.variant] > 0 /\ carts[p.cart].rows[p.variant] = p.row

\* The quantity is written as it was read, plus what is added.
AddItemToCart(p) ==
    /\ p.op = "add"
    /\ p.had + p.qty <= MaxQuantity
    /\ IF p.had > 0
         THEN /\ SameRow(p)
              /\ carts' = [Want(p.cart, p.variant, p.qty) EXCEPT
                             ![p.cart].items[p.variant] = p.had + p.qty]
         ELSE /\ carts[p.cart].items[p.variant] = 0
              /\ carts[p.cart].rows[p.variant] < MaxRows
              /\ carts' = [Want(p.cart, p.variant, p.qty) EXCEPT
                             ![p.cart].items[p.variant] = p.qty,
                             ![p.cart].rows[p.variant] = @ + 1]
    /\ UNCHANGED <<previews, orders, customers>>

\* Sets the row to qty.
SetRow(p, qty) ==
    /\ SameRow(p)
    /\ carts' = [Want(p.cart, p.variant, qty - carts[p.cart].items[p.variant]) EXCEPT
                   ![p.cart].items[p.variant] = qty]
    /\ UNCHANGED <<previews, orders, customers>>

UpdateCartItemQuantity(p) == p.op = "update" /\ SetRow(p, p.qty)
RemoveItemFromCart(p) == p.op = "remove" /\ SetRow(p, 0)

\* A customer is created before, and apart from, the order.
Enrolled(customer) ==
    IF customer = 0 THEN Append(customers, "RETAIL") ELSE customers

\* The unique keys of the order: its cart, its idempotency key, its number.
Unique(p) ==
    /\ \A o \in DOMAIN orders : orders[o].cart # p.cart
    /\ ~KeyUsed(p.key)
    /\ p.number = Len(orders) + 1

\* The cart is emptied of whatever it holds by then.  A cart that was ordered
\* before can be filled again, and never ordered.
PlaceOrder(p) ==
    /\ p.op = "place"
    /\ customers' = Enrolled(p.customer)
    /\ Len(customers') <= MaxCustomers
    /\ IF Unique(p)
         THEN /\ orders' = Append(orders, [cart |-> p.cart, key |-> p.key, items |-> p.items])
              /\ carts' = [carts EXCEPT ![p.cart].items = Nothing]
         ELSE UNCHANGED <<carts, orders>>
    /\ UNCHANGED previews

CartWrite(p) ==
    \/ AddItemToCart(p) \/ UpdateCartItemQuantity(p) \/ RemoveItemFromCart(p)
    \/ PlaceOrder(p)

-----------------------------------------------------------------------------
(***************************************************************************)
(* Calls that nothing else can overtake.                                   *)
(***************************************************************************)
NewCart(items) ==
    /\ Len(carts) < MaxCarts
    /\ carts' = Append(carts, [items |-> items, wanted |-> items,
                               rows |-> [v \in Variants |-> IF items[v] > 0 THEN 1 ELSE 0]])
    /\ UNCHANGED <<previews, orders, customers>>

CreateCart == NewCart(Nothing)

\* Variants that are not on sale any more are skipped.
Reorder ==
    \E o \in DOMAIN orders, skipped \in SUBSET Variants :
      NewCart([v \in Variants |-> IF v \in skipped THEN 0 ELSE orders[o].items[v]])

PreviewCheckout ==
    /\ \E c \in DOMAIN carts :
         /\ InCart(c) # {}
         /\ previews' = previews \cup {[cart |-> c, items |-> carts[c].items]}
    /\ UNCHANGED <<carts, orders, customers>>

CartAlone ==
    /\ \/ \E p \in CartPlans : CartWrite(p)
       \/ CreateCart \/ Reorder \/ PreviewCheckout
    /\ UNCHANGED <<slowCart, cartOvertaken>>

\* A slow order may have created its customer by then.
CartPause ==
    /\ slowCart = NoCartPlan
    /\ ~cartOvertaken
    /\ \E p \in {p \in CartPlans : p.op \in SlowCart} :
         \/ slowCart' = p /\ UNCHANGED customers
         \/ /\ p.op = "place" /\ p.customer = 0
            /\ customers' = Enrolled(0)
            /\ Len(customers') <= MaxCustomers
            /\ slowCart' = [p EXCEPT !.customer = Len(customers')]
    /\ UNCHANGED <<carts, previews, orders, cartOvertaken>>

\* The slow call writes, or fails.
CartResume ==
    /\ slowCart # NoCartPlan
    /\ slowCart' = NoCartPlan
    /\ \/ CartWrite(slowCart) /\ cartOvertaken' = (slowCart \notin CartPlans)
       \/ UNCHANGED <<cartRecords, cartOvertaken>>

CartNext == CartAlone \/ CartPause \/ CartResume

CartSpec == CartInit /\ [][CartNext]_cartVars

-----------------------------------------------------------------------------
\* What was ordered of a variant from cart c, by order.
Ordered(c, v) ==
    [o \in DOMAIN orders |-> IF orders[o].cart = c THEN orders[o].items[v] ELSE 0]

\* On records of the right type: a cart becomes one order and a key stands for
\* one, however calls overlap.  Unless a call was overtaken, what the shopper
\* has put into a cart and not taken out is in the cart or ordered, once, with
\* whatever token the order was placed (addItemToCart, placeOrder); and the
\* shopper is one customer, unless the till has taken the number down.
OrdersFollowCarts ==
    /\ CartTypeOK
    /\ \A o, p \in DOMAIN orders :
         orders[o].cart = orders[p].cart \/ (KeyUsed(orders[o].key) /\ orders[o].key = orders[p].key)
           => o = p
    /\ ~cartOvertaken =>
         /\ \A c \in DOMAIN carts, v \in Variants :
              carts[c].items[v] + SumFunction(Ordered(c, v)) = carts[c].wanted[v]
         /\ \/ "WALK_IN" \in {customers[i] : i \in DOMAIN customers}
            \/ Len(customers) <= 1
=============================================================================

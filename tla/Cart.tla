-------------------------------- MODULE Cart --------------------------------
(***************************************************************************)
(* A customer's cart (apps/cart) and the bill made from it.                *)
(*                                                                         *)
(* The handlers load an item and its variant's stock and save the item     *)
(* later, whole; two requests on one item may pass each other.  The bill   *)
(* is recomputed from the rows whenever the cart is shown or checked out.  *)
(***************************************************************************)
EXTENDS Integers, FiniteSets, Sums

CONSTANTS
    Variants,     \* variants on sale
    Price, Mrp,   \* of a unit, in hundredths of a rupee
    Carriers,     \* web workers with a request for this cart
    MostUnits,    \* stock of a variant and largest quantity asked for
    Store,        \* StoreConfig: the thresholds, the fees and taxPercent
    Coupons,      \* [kind, value, cap, minOrder]: one of them is tried;
                  \* every column has two decimals, and stands here in hundredths
    NoCap,        \* the NULL of Coupon.max_discount
    MaxEdits      \* bound on requests

\* No price, fee, rate or coupon is negative. Nothing in the code sees to that:
\* what the operator enters is taken as it is.
ASSUME CartAssumption ==
    /\ IsFiniteSet(Variants) /\ "" \notin Variants /\ MostUnits \in Nat
    /\ Price \in [Variants -> Nat] /\ Mrp \in [Variants -> Int]
    /\ Store \in [freeDelivery : Int, deliveryFee : Nat, smallCart : Int, smallCartFee : Nat,
                  taxPercent : Nat]
    /\ NoCap \notin Nat
    /\ \A c \in Coupons : c \in [kind : {"flat", "percent"}, value : Nat, cap : Nat \cup {NoCap},
                                 minOrder : Int]

VARIABLES
    qty,          \* cart_items: the quantity of each variant, 0 without a row
    rowOf,        \* the primary key of that row
    stock,        \* product_variants.stock
    coupon,       \* the coupon the customer knows of
    applied,      \* carts.applied_coupon is the coupon
    open,         \* the coupon is active, in time and within its limits
    carrier,      \* the item each request has in hand
    wanted,       \* what the customer has asked for, request by request
    passed,       \* variants whose requests passed each other or broke off
    edits         \* requests so far

cartVars == <<qty, rowOf, stock, coupon, applied, open>>
allCartVars == <<cartVars, carrier, wanted, passed, edits>>

NoItem ==
    [pc |-> "idle", variant |-> "", row |-> 0, asked |-> 0, copy |-> 0, add |-> FALSE, stale |-> FALSE]

CartInit ==
    /\ qty = [v \in Variants |-> 0] /\ rowOf = [v \in Variants |-> 0]
    /\ stock = [v \in Variants |-> MostUnits]
    /\ coupon \in Coupons /\ applied = FALSE /\ open = TRUE
    /\ carrier = [w \in Carriers |-> NoItem]
    /\ wanted = [v \in Variants |-> 0]
    /\ passed = {} /\ edits = 0

-----------------------------------------------------------------------------
(* compute_bill, in hundredths of a rupee.                                 *)

Subtotal == SumOf([v \in Variants |-> Price[v] * qty[v]])
MrpTotal == SumOf([v \in Variants |-> Mrp[v] * qty[v]])

\* quantize(0.01, ROUND_HALF_UP) of n ten-thousandths of the unit, for n >= 0:
\* an amount in hundredths times a percentage in hundredths.
Quantized(n) == (n + 5000) \div 10000

Smaller(a, b) == IF a < b THEN a ELSE b
FullDiscount(subtotal) ==
    IF coupon.kind = "flat" THEN 10000 * coupon.value ELSE subtotal * coupon.value

\* A faulty build that lets a coupon exceed what it is taken from.
WithinCap(subtotal) ==
    IF coupon.cap = NoCap THEN FullDiscount(subtotal)
                          ELSE Smaller(FullDiscount(subtotal), 10000 * coupon.cap)

\* Coupon.calculate_discount: the cap, then the subtotal; Bill rounds to cents.
RawDiscount(subtotal) ==
    LET full == FullDiscount(subtotal)
    IN  Smaller(IF coupon.cap = NoCap THEN full ELSE Smaller(full, 10000 * coupon.cap),
                10000 * subtotal)

Eligible(subtotal) == open /\ subtotal >= coupon.minOrder

Bill ==
    LET empty    == \A v \in Variants : qty[v] = 0
        sub      == Subtotal
        discount == IF applied /\ ~empty /\ Eligible(sub) THEN Quantized(RawDiscount(sub)) ELSE 0
        delivery == IF empty \/ sub >= Store.freeDelivery THEN 0 ELSE Store.deliveryFee
        small    == IF ~empty /\ sub < Store.smallCart THEN Store.smallCartFee ELSE 0
        taxable  == sub - discount + delivery + small
        tax      == Quantized(taxable * Store.taxPercent)
    IN  [subtotal |-> sub, savings |-> MrpTotal - sub, discount |-> discount,
         delivery |-> delivery, small |-> small, tax |-> tax, total |-> taxable + tax]

-----------------------------------------------------------------------------
(* The handlers.                                                           *)

Begin(w, item) ==
    /\ carrier[w] = NoItem /\ edits < MaxEdits
    /\ carrier' = [carrier EXCEPT ![w] = item]
    /\ edits' = edits + 1

\* The key of a row that is inserted differs from those of earlier rows that
\* requests still hold, and that is all that matters of it.
NewKey(v) == IF \A w \in Carriers : carrier[w].variant # v THEN 1 ELSE edits + 1

\* add_to_cart: the variant is loaded, and then the item, which is created
\* with quantity 1 when there is none; both tests use the stock as loaded.
AddToCart(w, v, n) ==
    LET key == IF qty[v] = 0 THEN NewKey(v) ELSE rowOf[v] IN
    /\ n <= stock[v]
    /\ IF qty[v] = 0 THEN TRUE ELSE qty[v] + n <= stock[v]
    /\ Begin(w, [NoItem EXCEPT !.pc = "save", !.variant = v, !.row = key, !.asked = n, !.add = TRUE,
                    !.copy = IF qty[v] = 0 THEN n ELSE qty[v] + n])
    /\ qty' = IF qty[v] = 0 THEN [qty EXCEPT ![v] = 1] ELSE qty
    /\ rowOf' = [rowOf EXCEPT ![v] = key]
    /\ UNCHANGED <<stock, coupon, applied, open, wanted, passed>>

\* cart_item_detail, PATCH
SetQuantity(w, v, n) ==
    /\ qty[v] # 0 /\ n <= stock[v]
    /\ Begin(w, [NoItem EXCEPT !.pc = "save", !.variant = v, !.row = rowOf[v], !.asked = n, !.copy = n])
    /\ UNCHANGED <<cartVars, wanted, passed>>

\* item.save(): the whole row, put back if it was deleted in between. When the
\* variant has been added again since, its key (cart, variant) refuses that.
SaveItem(w) ==
    LET item == carrier[w]
        v    == item.variant
    IN  /\ item.pc = "save" /\ (qty[v] = 0 \/ rowOf[v] = item.row)
        /\ qty' = [qty EXCEPT ![v] = item.copy]
        /\ rowOf' = [rowOf EXCEPT ![v] = item.row]
        /\ wanted' = [wanted EXCEPT ![v] = IF item.add THEN @ + item.asked ELSE item.asked]
        /\ passed' = IF item.stale THEN passed \cup {v} ELSE passed
        /\ carrier' = [x \in Carriers |->
              IF x = w THEN NoItem
              ELSE [carrier[x] EXCEPT !.stale = @ \/ carrier[x].variant = v]]
        /\ UNCHANGED <<stock, coupon, applied, open, edits>>

\* cart_item_detail, DELETE
DeleteItem(v) ==
    /\ qty[v] # 0
    /\ qty' = [qty EXCEPT ![v] = 0] /\ rowOf' = [rowOf EXCEPT ![v] = 0]
    /\ wanted' = [wanted EXCEPT ![v] = 0]
    /\ passed' = passed \ {v}
    /\ carrier' = [x \in Carriers |-> [carrier[x] EXCEPT !.stale = @ \/ carrier[x].variant = v]]
    /\ UNCHANGED <<stock, coupon, applied, open, edits>>

\* A request breaks off, or its save is refused; a row it created keeps quantity 1.
CarrierDies(w) ==
    /\ carrier[w] # NoItem
    /\ carrier' = [carrier EXCEPT ![w] = NoItem]
    /\ passed' = passed \cup {carrier[w].variant}
    /\ UNCHANGED <<cartVars, wanted, edits>>

\* apply_coupon tests the cart once; the bill tests it again each time.
ApplyCoupon ==
    /\ ~applied /\ Eligible(Subtotal)
    /\ applied' = TRUE
    /\ UNCHANGED <<qty, rowOf, stock, coupon, open, carrier, wanted, passed, edits>>

RemoveCoupon ==
    /\ applied
    /\ applied' = FALSE
    /\ UNCHANGED <<qty, rowOf, stock, coupon, open, carrier, wanted, passed, edits>>

\* The coupon is used up, runs out, or is reopened by an operator.
CouponChanges ==
    /\ open' = ~open
    /\ UNCHANGED <<qty, rowOf, stock, coupon, applied, carrier, wanted, passed, edits>>

\* Somebody else buys, or the shelf is filled again.
StockChanges(v) ==
    /\ stock' = [stock EXCEPT ![v] = IF @ = 0 THEN MostUnits ELSE @ - 1]
    /\ UNCHANGED <<qty, rowOf, coupon, applied, open, carrier, wanted, passed, edits>>

CartNext ==
    \/ \E w \in Carriers, v \in Variants, n \in 1..MostUnits :
          AddToCart(w, v, n) \/ SetQuantity(w, v, n)
    \/ \E w \in Carriers : SaveItem(w) \/ CarrierDies(w)
    \/ \E v \in Variants : DeleteItem(v) \/ StockChanges(v)
    \/ ApplyCoupon \/ RemoveCoupon \/ CouponChanges

CartSpec == CartInit /\ [][CartNext]_allCartVars

-----------------------------------------------------------------------------
ToHalfACent(amount, exact) == 10000 * amount - exact \in -4999..5000

(* The bill of any cart the handlers can make adds up: the discount never  *)
(* exceeds the goods nor a coupon's cap, nothing on it is negative, no     *)
(* delivery fee is asked from the free-delivery threshold on and no small- *)
(* cart fee from the small-cart one, tax is the rate's share of the rest   *)
(* to half a cent, an empty cart costs nothing, and a coupon that has      *)
(* lapsed since it was applied takes nothing off.  And the cart holds what *)
(* was asked for, request after request, unless two requests on one item   *)
(* passed each other or one broke off; more than one customer's worth of   *)
(* stock is never asked for.                                               *)
CartAddsUp ==
    LET bill == Bill
        rest == bill.subtotal - bill.discount + bill.delivery + bill.small
    IN  /\ bill.discount \in 0..bill.subtotal
        /\ coupon.cap # NoCap => bill.discount <= coupon.cap
        /\ bill.discount > 0 => applied /\ open
        /\ bill.subtotal >= Store.freeDelivery => bill.delivery = 0
        /\ bill.subtotal >= Store.smallCart => bill.small = 0
        /\ bill.total >= 0
        /\ bill.total = rest + bill.tax
        /\ ToHalfACent(bill.tax, rest * Store.taxPercent)
        /\ (\A v \in Variants : qty[v] = 0) => bill.total = 0
        /\ \A v \in Variants \ passed :
              /\ (\A w \in Carriers : carrier[w].variant # v) => qty[v] = wanted[v]
              /\ qty[v] <= MostUnits

=============================================================================

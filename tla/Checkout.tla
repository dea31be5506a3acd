------------------------------ MODULE Checkout ------------------------------
(***************************************************************************)
(* What customers compete for: the stock of variants (apps/inventory), a   *)
(* delivery slot and a coupon, taken by checkout and given back by a       *)
(* cancellation, while the warehouse, the bulk import and the catalogue's  *)
(* editors change the same stock.                                          *)
(*                                                                         *)
(* A handler is a list of changes to variants made in one atomic block.    *)
(* adjust_stock takes a variant's row and keeps it to the end of the       *)
(* block; what it reads is the row's value then, or, without the lock,     *)
(* what the handler read earlier.                                          *)
(***************************************************************************)
EXTENDS Integers, Sequences, FiniteSets, SequencesExt, Sums

CONSTANTS
    Variants,
    Customers,
    Workers,        \* handlers that can run at once
    LinesOf,        \* what each customer buys, in the order of the cart
    Opening,        \* stock of every variant at the start
    Capacity,       \* of the delivery slot everybody chooses
    UsageLimit,     \* of the coupon everybody applies
    Deltas,         \* changes the warehouse makes
    Targets,        \* set_stock values of the bulk import
    CancelPaths,    \* who cancels: "customer", "ops"
    MayEdit,        \* variants are edited in the back office
    MaxMoves,       \* bound: the warehouse and the import stop beyond it
    MaxFills,       \* bound: carts filled by each customer
    MaxEdits,       \* bound: variant edits
    MaxStock,       \* more than any variant's stock can reach within these bounds
    None

ASSUME CheckoutAssumption ==
    /\ Variants # {} /\ IsFiniteSet(Customers)
    /\ LinesOf \in [Customers -> Seq(Variants)]
    /\ \A c \in Customers : LinesOf[c] # <<>> /\ IsInjective(LinesOf[c])
    /\ Opening \in Nat /\ Capacity \in Nat /\ UsageLimit \in Nat
    /\ Deltas \subseteq Int /\ Targets \subseteq Nat
    /\ CancelPaths \subseteq {"customer", "ops"}
    /\ MayEdit \in BOOLEAN /\ MaxMoves \in Nat /\ MaxFills \in Nat /\ MaxEdits \in Nat /\ MaxStock \in Nat
    /\ None \notin Workers \cup Customers

VARIABLES
    stock,          \* ProductVariant.stock
    moves,          \* StockMovement rows of each variant, oldest first
    carts,          \* customers whose cart holds their lines
    filled,         \* how often each customer filled the cart
    placed,         \* orders each customer placed
    live,           \* those not cancelled
    booked,         \* DeliverySlot.booked
    timesUsed,      \* Coupon.times_used
    redeemed,       \* CouponRedemption rows of each customer
    req,            \* what each worker is executing
    rowLock,        \* the worker whose block holds a variant's row
    edits,
    blind,          \* history: writes of a stock nobody had locked, that lost another
    overlapped      \* history: two customers' handlers ran at once

shopVars == <<carts, filled, placed, live, booked, timesUsed, redeemed>>
vars == <<stock, moves, shopVars, req, rowLock, edits, blind, overlapped>>

(***************************************************************************)
(* A handler: the variants it changes, by how much, how many rows it holds *)
(* and the stock it read for each; the slot it read and the coupon it      *)
(* decided on; whether it loads rows only where it changes them.           *)
(***************************************************************************)
Rest == [kind |-> "idle", customer |-> None, lines |-> <<>>, delta |-> 0, held |-> 0,
         read |-> [v \in Variants |-> 0], slot |-> 0, coupon |-> FALSE,
         late |-> FALSE]

Idle(p) == req[p].kind = "idle"

Begin(p, r) == Idle(p) /\ req' = [req EXCEPT ![p] = r]

Return(p) == req' = [req EXCEPT ![p] = Rest]

Serving(c) == {p \in Workers : req[p].customer = c}

NoteOverlap ==
    overlapped' = (overlapped \/ \E p \in Workers : req[p].customer # None)

LinesIn(p) == ToSet(req[p].lines)

NextLine(p) == req[p].lines[req[p].held + 1]

(***************************************************************************)
(* The decisions the handlers rest on, each after a fault it could have.   *)
(***************************************************************************)
AnyStock(new) == TRUE

InStock(new) == new >= 0

EvenFull(n) == TRUE

NotFull(n) == n < Capacity

NoLimit(c) == TRUE

\* check_eligibility; the coupon's per_user_limit is 1.
Eligible(c) == timesUsed < UsageLimit /\ redeemed[c] < 1

LockNotTaken(v) == TRUE

RowFree(v) == rowLock[v] = None

\* perform_cancellation passes lock=False.
Locked(p) == req[p].kind # "cancel"

BeforeChange(old, delta) == [delta |-> delta, after |-> old]

Movement(old, delta) == [delta |-> delta, after |-> old + delta]

-----------------------------------------------------------------------------
Init ==
    /\ stock = [v \in Variants |-> Opening]
    /\ moves = [v \in Variants |-> <<>>]
    /\ carts = {} /\ filled = [c \in Customers |-> 0]
    /\ placed = [c \in Customers |-> 0]
    /\ live = [c \in Customers |-> 0]
    /\ booked = 0 /\ timesUsed = 0
    /\ redeemed = [c \in Customers |-> 0]
    /\ req = [p \in Workers |-> Rest]
    /\ rowLock = [v \in Variants |-> None]
    /\ edits = 0
    /\ blind = [v \in Variants |-> 0]
    /\ overlapped = FALSE

-----------------------------------------------------------------------------
(***************************************************************************)
(* Handlers begin: what they check and read before the block.              *)
(***************************************************************************)

\* add_to_cart, and the coupon applied; the stock is checked but not taken.
FillCart(c) ==
    /\ c \notin carts
    /\ filled[c] < MaxFills
    /\ \A v \in ToSet(LinesOf[c]) : InStock(stock[v] - 1)
    /\ carts' = carts \cup {c}
    /\ filled' = [filled EXCEPT ![c] = @ + 1]
    /\ UNCHANGED <<stock, moves, placed, live, booked, timesUsed, redeemed, req, rowLock,
                   edits, blind, overlapped>>

\* checkout: the slot, the cart, its stock and the coupon.
Checkout(p, c) ==
    /\ c \in carts
    /\ NotFull(booked)
    /\ \A v \in ToSet(LinesOf[c]) : InStock(stock[v] - 1)
    /\ Begin(p, [Rest EXCEPT !.kind = "checkout", !.customer = c, !.lines = LinesOf[c],
                             !.delta = -1, !.slot = booked, !.coupon = Eligible(c)])
    /\ NoteOverlap
    /\ UNCHANGED <<stock, moves, shopVars, rowLock, edits, blind>>

\* cancel_order, on an order nobody else is cancelling (OrderLife has those that
\* race): the customer's view prefetches the variants and the slot, ops' does not.
Cancel(p, c, path) ==
    /\ path \in CancelPaths
    /\ live[c] > Cardinality({q \in Serving(c) : req[q].kind # "checkout"})
    /\ Begin(p, [Rest EXCEPT !.kind = IF path = "ops" THEN "fetch" ELSE "cancel",
                             !.customer = c, !.lines = LinesOf[c],
                             !.delta = 1, !.read = stock, !.slot = booked,
                             !.late = path = "ops"])
    /\ NoteOverlap
    /\ UNCHANGED <<stock, moves, shopVars, rowLock, edits, blind>>

\* restock and adjust, and an item refused at the door.
Adjust(p, v, delta) ==
    /\ Len(moves[v]) < MaxMoves
    /\ Begin(p, [Rest EXCEPT !.kind = "adjust", !.lines = <<v>>, !.delta = delta])
    /\ UNCHANGED <<stock, moves, shopVars, rowLock, edits, blind, overlapped>>

\* _import_inventory turns a target into a change of the stock it read.
SetStock(p, v, target) ==
    /\ Len(moves[v]) < MaxMoves
    /\ target # stock[v]
    /\ Begin(p, [Rest EXCEPT !.kind = "adjust", !.lines = <<v>>, !.delta = target - stock[v]])
    /\ UNCHANGED <<stock, moves, shopVars, rowLock, edits, blind, overlapped>>

\* AdminVariantDetail loads the row and saves all of it, with the stock it
\* loaded or one that was typed in.
Edit(p, v, units) ==
    /\ MayEdit
    /\ edits < MaxEdits
    /\ edits' = edits + 1
    /\ Begin(p, [Rest EXCEPT !.kind = "edit", !.lines = <<v>>, !.read[v] = units])
    /\ UNCHANGED <<stock, moves, shopVars, rowLock, blind, overlapped>>

-----------------------------------------------------------------------------
(***************************************************************************)
(* adjust_stock, once per line.                                            *)
(***************************************************************************)

\* Ops' cancellation loads the next line's variant just before it changes it.
Fetch(p) ==
    /\ req[p].kind = "fetch"
    /\ req' = [req EXCEPT ![p].kind = "cancel", ![p].read[NextLine(p)] = stock[NextLine(p)]]
    /\ UNCHANGED <<stock, moves, shopVars, rowLock, edits, blind, overlapped>>

StockRead(p) == IF Locked(p) THEN stock[NextLine(p)] ELSE req[p].read[NextLine(p)]

\* The row is taken, by SELECT ... FOR UPDATE or by the UPDATE itself.
TakeRow(p) ==
    LET v == NextLine(p)
        more == req[p].held + 1 < Len(req[p].lines) IN
    /\ req[p].kind \in {"checkout", "cancel", "adjust"}
    /\ req[p].held < Len(req[p].lines)
    /\ RowFree(v)
    /\ InStock(StockRead(p) + req[p].delta)
    /\ rowLock' = [rowLock EXCEPT ![v] = p]
    /\ req' = [req EXCEPT ![p].held = @ + 1, ![p].read[v] = StockRead(p),
                          ![p].kind = IF @ = "cancel" /\ req[p].late /\ more THEN "fetch" ELSE @]
    /\ UNCHANGED <<stock, moves, shopVars, edits, blind, overlapped>>

Released(p) == [v \in Variants |-> IF rowLock[v] = p THEN None ELSE rowLock[v]]

\* Fault: the error leaves the block open.
OutOfStockHolds(p) ==
    /\ req[p].kind \in {"checkout", "adjust"}
    /\ req[p].held < Len(req[p].lines)
    /\ RowFree(NextLine(p))
    /\ ~InStock(StockRead(p) + req[p].delta)
    /\ Return(p)
    /\ UNCHANGED <<stock, moves, shopVars, rowLock, edits, blind, overlapped>>

\* OutOfStock: the whole order is rolled back.
OutOfStock(p) ==
    /\ req[p].kind \in {"checkout", "adjust"}
    /\ req[p].held < Len(req[p].lines)
    /\ RowFree(NextLine(p))
    /\ ~InStock(StockRead(p) + req[p].delta)
    /\ rowLock' = Released(p)
    /\ Return(p)
    /\ UNCHANGED <<stock, moves, shopVars, edits, blind, overlapped>>

\* The block commits: stock and movements, and what else the handler is about.
Commit(p) ==
    LET r == req[p]
        c == r.customer
        New(v) == r.read[v] + r.delta
        slot == IF r.late THEN booked ELSE r.slot IN
    /\ r.kind \in {"checkout", "cancel", "adjust"}
    /\ r.held = Len(r.lines)
    /\ stock' = [v \in Variants |-> IF v \in LinesIn(p) THEN New(v) ELSE stock[v]]
    /\ moves' = [v \in Variants |-> IF v \in LinesIn(p)
                                      THEN Append(moves[v], Movement(r.read[v], r.delta))
                                      ELSE moves[v]]
    /\ blind' = [v \in Variants |-> IF v \in LinesIn(p) /\ ~Locked(p) /\ r.read[v] # stock[v]
                                      THEN blind[v] + 1 ELSE blind[v]]
    /\ CASE r.kind = "checkout" ->
              /\ carts' = carts \ {c}
              /\ placed' = [placed EXCEPT ![c] = @ + 1]
              /\ live' = [live EXCEPT ![c] = @ + 1]
              /\ booked' = r.slot + 1
              /\ timesUsed' = IF r.coupon THEN timesUsed + 1 ELSE timesUsed
              /\ UNCHANGED filled
              /\ redeemed' = IF r.coupon THEN [redeemed EXCEPT ![c] = @ + 1] ELSE redeemed
         [] r.kind = "cancel" ->
              /\ live' = [live EXCEPT ![c] = @ - 1]
              /\ booked' = IF slot > 0 THEN slot - 1 ELSE booked
              /\ UNCHANGED <<carts, filled, placed, timesUsed, redeemed>>
         [] OTHER -> UNCHANGED shopVars
    /\ rowLock' = Released(p)
    /\ Return(p)
    /\ UNCHANGED <<edits, overlapped>>

\* The edit writes its stock back, without a movement.
EditSave(p) ==
    LET v == req[p].lines[1] IN
    /\ req[p].kind = "edit"
    /\ RowFree(v)
    /\ stock' = [stock EXCEPT ![v] = req[p].read[v]]
    /\ blind' = IF req[p].read[v] # stock[v] THEN [blind EXCEPT ![v] = @ + 1] ELSE blind
    /\ Return(p)
    /\ UNCHANGED <<moves, shopVars, rowLock, edits, overlapped>>

\* External: the database finds that blocks wait for each other in a circle and
\* rolls one of them back.
WaitsFor(p, q) ==
    /\ req[p].kind \in {"checkout", "cancel"}
    /\ req[p].held < Len(req[p].lines)
    /\ rowLock[NextLine(p)] = q

DeadlockVictim(p) ==
    /\ \E circle \in SUBSET Workers :
           /\ p \in circle
           /\ \A q \in circle : /\ \E other \in circle : WaitsFor(q, other)
                                /\ \E other \in circle : WaitsFor(other, q)
    /\ rowLock' = Released(p)
    /\ Return(p)
    /\ UNCHANGED <<stock, moves, shopVars, edits, blind, overlapped>>

-----------------------------------------------------------------------------
Start(p) ==
    \/ \E c \in Customers : Checkout(p, c)
    \/ \E c \in Customers, path \in CancelPaths : Cancel(p, c, path)
    \/ \E v \in Variants, d \in Deltas : Adjust(p, v, d)
    \/ \E v \in Variants, t \in Targets : SetStock(p, v, t)
    \/ \E v \in Variants : \E units \in Targets \cup {stock[v]} : Edit(p, v, units)

Continue(p) ==
    Fetch(p) \/ TakeRow(p) \/ OutOfStock(p) \/ Commit(p) \/ EditSave(p) \/ DeadlockVictim(p)

Next ==
    \/ \E c \in Customers : FillCart(c)
    \/ \E p \in Workers : Start(p) \/ Continue(p)

\* Workers go on; InnoDB grants rows in turn and resolves deadlocks.
Fairness == \A p \in Workers : SF_vars(Continue(p))

Spec == Init /\ [][Next]_vars

FairSpec == Spec /\ Fairness

-----------------------------------------------------------------------------
(***************************************************************************)
(* Properties.                                                             *)
(***************************************************************************)

SumOfDeltas(v) == SumOf([i \in DOMAIN moves[v] |-> moves[v][i].delta])

LiveOrders == SumOf(live)

\* Rows and requests are well formed; in particular no stock and no recorded
\* balance is ever negative, however checkouts and write-offs contend.
TypeOK ==
    /\ stock \in [Variants -> Nat]
    /\ moves \in [Variants -> Seq([delta : Int, after : Nat])]
    /\ carts \subseteq Customers /\ filled \in [Customers -> Nat]
    /\ placed \in [Customers -> Nat] /\ live \in [Customers -> Nat]
    /\ booked \in Nat /\ timesUsed \in Nat
    /\ redeemed \in [Customers -> Nat]
    /\ DOMAIN req = Workers
    /\ rowLock \in [Variants -> Workers \cup {None}]
    /\ edits \in Nat /\ blind \in [Variants -> Nat] /\ overlapped \in BOOLEAN

\* The stock is what its movements add up to, and the last one says so, unless
\* a cancellation or an edit wrote a stock that was stale: locked adjustments
\* never lose one another.
DriftOnlyByBlindWrites ==
    \A v \in Variants :
        blind[v] = 0 =>
            /\ stock[v] = Opening + SumOfDeltas(v)
            /\ moves[v] # <<>> => Last(moves[v]).after = stock[v]

\* inventory/services: "Every adjustment is atomic, row-locked, and recorded".
StockIsLedgerSum == \A v \in Variants : stock[v] = Opening + SumOfDeltas(v)

\* Customers served one after the other fill the slot to its capacity at most,
\* its count is the number of live orders, and no filled cart is bought twice.
SlotCountsOrders ==
    ~overlapped =>
        /\ booked = LiveOrders
        /\ booked <= Capacity
        /\ \A c \in Customers : placed[c] <= filled[c]

\* The coupon's counter is exactly its redemptions, in any interleaving; its
\* limits hold for customers served one after the other.
CouponCounted ==
    /\ timesUsed = SumOf(redeemed)
    /\ ~overlapped => timesUsed <= UsageLimit /\ \A c \in Customers : redeemed[c] <= 1

\* Every handler ends, and with it the rows it holds are free again: neither a
\* sold-out line nor carts in opposite orders leave a worker waiting for ever.
HandlersEnd == \A p \in Workers : ~Idle(p) ~> Idle(p)

LedgerOf(v) == INSTANCE Ledger WITH
    Deltas <- -MaxStock..MaxStock, balance <- stock[v], entries <- moves[v]

LedgersInit == \A v \in Variants : LedgerOf(v)!Init

PostsOrBlind ==
    \A v \in Variants : blind'[v] # blind[v] \/ [LedgerOf(v)!Next]_<<stock[v], moves[v]>>

\* Each variant is a Ledger: but for blind writes, its stock only changes by
\* postings that start from the stock before.
StockIsLedger == LedgersInit /\ [][PostsOrBlind]_vars

=============================================================================

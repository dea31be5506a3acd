----------------------------- MODULE OrderLife -----------------------------
(***************************************************************************)
(* The life of one placed order: its payment (apps/payments), cancellation *)
(* (apps/orders), rider assignment and hand-over (apps/delivery), and the  *)
(* refunds and restocking they owe.  Orders share only stock, slots and    *)
(* wallets, which other modules are about.                                 *)
(*                                                                         *)
(* A worker, of the web server or of Celery, executes one handler at a     *)
(* time.  The handler reads its rows in one step and writes them in        *)
(* another, from what it read; with one worker the handlers are serial,    *)
(* but queued tasks and gateway events still come as late as they like.    *)
(***************************************************************************)
EXTENDS Integers, FiniteSets

CONSTANTS
    Workers,        \* handlers and tasks that can run at once
    Lines,          \* the order's items
    Methods,        \* payment methods the customer uses
    MaxAttempts,    \* bound: payments initiated
    MaxCrashes,     \* bound: handlers that die before they finish
    AutoAssigned,   \* the address matches AUTO_ASSIGN_RULES
    MockGateway,    \* settings.PAYMENT_GATEWAY = "mock"
    Subscribed,     \* webhooks the gateway account is set up to send
    None

ASSUME OrderLifeAssumption ==
    /\ Lines # {}
    /\ Methods \subseteq {"cod", "online", "wallet"}
    /\ MaxAttempts \in Nat /\ MaxCrashes \in Nat
    /\ AutoAssigned \in BOOLEAN /\ MockGateway \in BOOLEAN
    /\ Subscribed \subseteq {"authorized", "captured", "failed", "refunded"}
    /\ None \notin Workers

VARIABLES
    order,          \* Order.status
    payment,        \* the order's Payment row, if any
    assignment,     \* DeliveryAssignment.status, "none" without a row
    returned,       \* items with is_returned
    restocked,      \* restock movements recorded for each item
    slotFreed,      \* decrements of the slot's booked count
    attempts,       \* payments initiated; a payment's id is its attempt
    gateway,        \* the gateway order of each attempt, at the gateway
    emitted,        \* events the gateway has to deliver for it
    processed,      \* events whose PaymentWebhookEvent row says processed
    refunds,        \* gateway refunds issued for each attempt
    debits,         \* wallet debits for the order
    cancelCredits,  \* wallet credits by a cancellation
    lineCredits,    \* wallet credits for each refused item
    assignQueued,   \* auto_assign_order is waiting for a worker
    refundQueued,   \* process_refund tasks waiting for each attempt
    req,            \* what each worker is executing
    stockLock,      \* the worker whose open block wrote the order's variants
    crashes,
    marks           \* history: what happened out of the usual order

rowVars   == <<order, payment, assignment, returned>>
stockVars == <<restocked, slotFreed>>
gwVars    == <<attempts, gateway, emitted, processed>>
moneyVars == <<refunds, debits, cancelCredits, lineCredits>>
taskVars  == <<assignQueued, refundQueued>>
envVars   == <<req, stockLock, crashes, marks>>
vars == <<rowVars, stockVars, gwVars, moneyVars, taskVars, envVars>>

OrderStatus == {"pending", "confirmed", "out_for_delivery", "delivered", "cancelled", "returned"}

AssignmentStatus == {"none", "assigned", "accepted", "picked_up", "delivered", "cancelled", "returned"}

Attempts == 1..MaxAttempts

Payment == [id : Attempts, method : {"cod", "online", "wallet"},
            status : {"created", "pending", "success", "failed", "refunded"}]

NoPayment == [id |-> 0, method |-> "cod", status |-> "none"]

Events == {"authorized", "captured", "failed", "refunded"}

(***************************************************************************)
(* A handler: its step and what it read or was asked.                      *)
(***************************************************************************)
Rest == [step |-> "idle", order |-> "pending", payment |-> NoPayment, assignment |-> "none",
         lines |-> {}, full |-> FALSE, method |-> "cod", attempt |-> 0, event |-> "none"]

Idle(p) == req[p].step = "idle"

Begin(p, r) == Idle(p) /\ req' = [req EXCEPT ![p] = r]

Goto(p, step) == req' = [req EXCEPT ![p].step = step]

Return(p) == req' = [req EXCEPT ![p] = Rest]

(***************************************************************************)
(* The decisions the handlers rest on, each after a fault it could have.   *)
(***************************************************************************)
AnythingPayable(o) == o \notin {"cancelled", "returned"}

AwaitingPayment(o) == o = "pending"

AnythingOpen(o) == o \notin {"delivered", "cancelled"}

\* CANCELLABLE_STATUSES
Cancellable(o) == o \in {"pending", "confirmed"}

WithRider(a) == a = "picked_up"

SignatureIgnored(a) == TRUE

SignatureValid(a) == gateway[a] = "paid"

FailedIsFinal(pay) == pay.status \in {"success", "failed"}

AlreadyCaptured(pay) == pay.status = "success"

NotRefunded(pay) == pay.status # "refunded"

StillOpen(pay) == pay.status \in {"created", "pending"}

StillAssigned(a) == a

\* perform_cancellation stands down an active assignment.
StoodDown(a) == IF a \in {"none", "delivered", "cancelled"} THEN a ELSE "cancelled"

RefundedOrKept(status) == IF status = "success" THEN "refunded" ELSE status

\* It refunds what was captured and voids what was not.
Settled(status) == CASE status = "success" -> "refunded"
                     [] status \in {"created", "pending"} -> "failed"
                     [] OTHER -> status

AlwaysCreated(method) == "created"

FirstStatus(method) ==
    CASE method = "cod" -> "pending" [] method = "wallet" -> "success" [] OTHER -> "created"

LockNotTaken == TRUE

\* The UPDATE of a variant waits for the block that wrote it.
VariantsFree == stockLock = None

NothingOwed(pay) == FALSE

\* Only a captured gateway payment is refunded by a task.
OwesGatewayRefund(pay) == pay.status = "success" /\ pay.method # "wallet"

\* A save of a row deleted meanwhile is refused and rolls the block back.
RowThere(a) == payment.id = a

SetPayment(status) == payment' = [payment EXCEPT !.status = status]

-----------------------------------------------------------------------------
\* checkout leaves a pending order, its stock and slot taken, and one task.
Init ==
    /\ order = "pending" /\ payment = NoPayment /\ assignment = "none" /\ returned = {}
    /\ restocked = [l \in Lines |-> 0] /\ slotFreed = 0
    /\ attempts = 0
    /\ gateway = [a \in Attempts |-> "none"]
    /\ emitted = [a \in Attempts |-> {}]
    /\ processed = [a \in Attempts |-> {}]
    /\ refunds = [a \in Attempts |-> 0]
    /\ debits = 0 /\ cancelCredits = 0 /\ lineCredits = [l \in Lines |-> 0]
    /\ assignQueued = AutoAssigned
    /\ refundQueued = [a \in Attempts |-> 0]
    /\ req = [p \in Workers |-> Rest]
    /\ stockLock = None /\ crashes = 0 /\ marks = {}

-----------------------------------------------------------------------------
(***************************************************************************)
(* initiate_payment: whatever attempt there was is deleted and a new row   *)
(* created.  Cash and wallet confirm the order in the same block; the      *)
(* wallet is debited, or the block is rolled back.                         *)
(***************************************************************************)
Initiate(p, method) ==
    /\ AwaitingPayment(order)
    /\ payment.status \notin {"pending", "success"}
    /\ attempts < MaxAttempts
    /\ Begin(p, [Rest EXCEPT !.step = "initiate", !.method = method, !.attempt = payment.id])
    /\ UNCHANGED <<rowVars, stockVars, gwVars, moneyVars, taskVars, stockLock, crashes, marks>>

InitiateCommit(p) ==
    LET method == req[p].method
        a == attempts + 1 IN
    /\ req[p].step = "initiate"
    /\ a \in Attempts
    /\ attempts' = a
    /\ payment' = [id |-> a, method |-> method,
                   status |-> FirstStatus(method)]
    /\ order' = IF method = "online" THEN order ELSE "confirmed"
    /\ debits' = IF method = "wallet" THEN debits + 1 ELSE debits
    /\ gateway' = [gateway EXCEPT ![a] = IF method = "online" THEN "open" ELSE @]
    /\ Return(p)
    /\ UNCHANGED <<assignment, returned, stockVars, emitted, processed, refunds, cancelCredits,
                   lineCredits, taskVars, stockLock, crashes, marks>>

\* The wallet runs short, or another initiation created the row first.
InitiateRolledBack(p) ==
    /\ req[p].step = "initiate"
    /\ req[p].method = "wallet" \/ ~RowThere(req[p].attempt)
    /\ Return(p)
    /\ UNCHANGED <<rowVars, stockVars, gwVars, moneyVars, taskVars, stockLock, crashes, marks>>

-----------------------------------------------------------------------------
(***************************************************************************)
(* The gateway (external) and what confirms a payment.                     *)
(***************************************************************************)
AttemptDeclined(a) ==
    /\ gateway[a] = "open"
    /\ "failed" \in Subscribed \ emitted[a]
    /\ emitted' = [emitted EXCEPT ![a] = @ \cup {"failed"}]
    /\ UNCHANGED <<rowVars, stockVars, attempts, gateway, processed, moneyVars, taskVars, envVars>>

CustomerPays(a) ==
    /\ gateway[a] = "open"
    /\ gateway' = [gateway EXCEPT ![a] = "paid"]
    /\ emitted' = [emitted EXCEPT ![a] = @ \cup (Subscribed \cap {"authorized", "captured"})]
    /\ UNCHANGED <<rowVars, stockVars, attempts, processed, moneyVars, taskVars, envVars>>

Confirming(a) == [Rest EXCEPT !.attempt = a, !.order = order]

\* verify_payment; a payment it finds captured is answered at once.
Verify(p, signed) ==
    /\ payment.method = "online"
    /\ ~AlreadyCaptured(payment)
    /\ signed => SignatureValid(payment.id)
    /\ Begin(p, [Confirming(payment.id) EXCEPT !.step = IF signed THEN "capture" ELSE "fail"])
    /\ UNCHANGED <<rowVars, stockVars, gwVars, moneyVars, taskVars, stockLock, crashes, marks>>

\* mock_pay stands in for the customer's payment as well.
MockPay(p) ==
    /\ MockGateway
    /\ payment.method = "online"
    /\ ~AlreadyCaptured(payment)
    /\ gateway' = [gateway EXCEPT ![payment.id] = "paid"]
    /\ Begin(p, [Confirming(payment.id) EXCEPT !.step = "capture"])
    /\ UNCHANGED <<rowVars, stockVars, attempts, emitted, processed, moneyVars, taskVars,
                   stockLock, crashes, marks>>

\* webhook, from the log to the reads of capture, mark_failed or mark_refunded.
\* Events about a payment that was replaced find no row and are acknowledged.
Webhook(p, a, e) ==
    LET known == payment.id = a IN
    /\ e \in emitted[a] \ processed[a]
    /\ Begin(p, [Confirming(a) EXCEPT !.event = e, !.step =
          CASE known /\ e \in {"authorized", "captured"} /\ ~AlreadyCaptured(payment) -> "capture"
            [] known /\ e = "failed" /\ StillOpen(payment) -> "fail"
            [] known /\ e = "refunded" /\ NotRefunded(payment) -> "refunded"
            [] OTHER -> "acknowledge"])
    /\ UNCHANGED <<rowVars, stockVars, gwVars, moneyVars, taskVars, stockLock, crashes, marks>>

AfterWrite(p) == IF req[p].event = "none" THEN Return(p) ELSE Goto(p, "acknowledge")

\* The payment and, if it was pending when read, the order: one commit.
Capture(p) ==
    /\ req[p].step = "capture"
    /\ RowThere(req[p].attempt)
    /\ SetPayment("success")
    /\ order' = IF AwaitingPayment(req[p].order) THEN "confirmed" ELSE order
    /\ marks' = marks \cup (IF order = "cancelled" THEN {"late_capture"} ELSE {})
    /\ AfterWrite(p)
    /\ UNCHANGED <<assignment, returned, stockVars, gwVars, moneyVars, taskVars, stockLock, crashes>>

\* A bad signature, or a failed event, fails the payment as it was read; a
\* refund event records that it was refunded at the gateway.
MarkPayment(p) ==
    /\ req[p].step \in {"fail", "refunded"}
    /\ RowThere(req[p].attempt)
    /\ SetPayment(IF req[p].step = "fail" THEN "failed" ELSE "refunded")
    /\ AfterWrite(p)
    /\ UNCHANGED <<order, assignment, returned, stockVars, gwVars, moneyVars, taskVars,
                   stockLock, crashes, marks>>

RowGone(p) ==
    /\ req[p].step \in {"capture", "fail", "refunded"}
    /\ ~RowThere(req[p].attempt)
    /\ Return(p)
    /\ UNCHANGED <<rowVars, stockVars, gwVars, moneyVars, taskVars, stockLock, crashes, marks>>

Acknowledge(p) ==
    /\ req[p].step = "acknowledge"
    /\ processed' = [processed EXCEPT ![req[p].attempt] = @ \cup {req[p].event}]
    /\ Return(p)
    /\ UNCHANGED <<rowVars, stockVars, attempts, gateway, emitted, moneyVars, taskVars,
                   stockLock, crashes, marks>>

-----------------------------------------------------------------------------
(***************************************************************************)
(* perform_cancellation, for the customer and for ops.  The order and the  *)
(* assignment are read first; the payment only once the variants' rows are *)
(* held, so a second cancellation reads what the first one left.           *)
(***************************************************************************)
Cancel(p) ==
    /\ Cancellable(order)
    /\ Begin(p, [Rest EXCEPT !.step = "cancel", !.assignment = assignment])
    /\ UNCHANGED <<rowVars, stockVars, gwVars, moneyVars, taskVars, stockLock, crashes, marks>>

\* The first adjust_stock of a cancellation or a return, then the payment's row.
Settle(p) ==
    /\ req[p].step \in {"cancel", "return"}
    /\ VariantsFree
    /\ stockLock' = p
    /\ req' = [req EXCEPT ![p].payment = payment,
                          ![p].step = IF @ = "cancel" THEN "cancelling" ELSE "returning"]
    /\ UNCHANGED <<rowVars, stockVars, gwVars, moneyVars, taskVars, crashes, marks>>

Recorded(pay) == pay.status = Settled(pay.status) \/ RowThere(pay.id)

CancelCommit(p) ==
    LET pay == req[p].payment
        kept == pay.status = Settled(pay.status) IN
    /\ req[p].step = "cancelling"
    /\ Recorded(pay)
    /\ order' = "cancelled"
    /\ assignment' = IF StoodDown(req[p].assignment) = req[p].assignment
                        THEN assignment ELSE StoodDown(req[p].assignment)
    /\ restocked' = [l \in Lines |-> restocked[l] + 1]
    /\ slotFreed' = slotFreed + 1
    /\ IF kept THEN UNCHANGED payment ELSE SetPayment(Settled(pay.status))
    /\ cancelCredits' = IF ~kept /\ pay.status = "success" /\ pay.method = "wallet"
                           THEN cancelCredits + 1 ELSE cancelCredits
    /\ stockLock' = None
    /\ IF OwesGatewayRefund(pay) THEN Goto(p, "enqueue") ELSE Return(p)
    /\ UNCHANGED <<returned, gwVars, refunds, debits, lineCredits, taskVars, crashes, marks>>

CancelRolledBack(p) ==
    /\ req[p].step = "cancelling"
    /\ ~Recorded(req[p].payment)
    /\ stockLock' = None
    /\ Return(p)
    /\ UNCHANGED <<rowVars, stockVars, gwVars, moneyVars, taskVars, crashes, marks>>

\* process_refund.delay, after the commit.
EnqueueRefund(p) ==
    /\ req[p].step = "enqueue"
    /\ refundQueued' = [refundQueued EXCEPT ![req[p].payment.id] = @ + 1]
    /\ Return(p)
    /\ UNCHANGED <<rowVars, stockVars, gwVars, moneyVars, assignQueued, stockLock, crashes, marks>>

StartRefund(p, a) ==
    /\ refundQueued[a] > 0
    /\ refundQueued' = [refundQueued EXCEPT ![a] = @ - 1]
    /\ Begin(p, [Rest EXCEPT !.step = "refund", !.attempt = a])
    /\ UNCHANGED <<rowVars, stockVars, gwVars, moneyVars, assignQueued, stockLock, crashes, marks>>

\* The gateway gives the money back, and will say so.
RefundAtGateway(p) ==
    LET a == req[p].attempt IN
    /\ req[p].step = "refund"
    /\ refunds' = [refunds EXCEPT ![a] = @ + 1]
    /\ emitted' = [emitted EXCEPT ![a] = @ \cup (Subscribed \cap {"refunded"})]
    /\ Return(p)
    /\ UNCHANGED <<rowVars, stockVars, attempts, gateway, processed, debits, cancelCredits,
                   lineCredits, taskVars, stockLock, crashes, marks>>

-----------------------------------------------------------------------------
(***************************************************************************)
(* Ops: confirm_order, assign_rider; and the task that assigns by itself,  *)
(* which does not look at the order's status.                              *)
(***************************************************************************)
ConfirmOrder(p) ==
    /\ AwaitingPayment(order)
    /\ Begin(p, [Rest EXCEPT !.step = "confirm"])
    /\ UNCHANGED <<rowVars, stockVars, gwVars, moneyVars, taskVars, stockLock, crashes, marks>>

ConfirmSave(p) ==
    /\ req[p].step = "confirm"
    /\ order' = "confirmed"
    /\ marks' = marks \cup {"ops_confirmed"}
    /\ Return(p)
    /\ UNCHANGED <<payment, assignment, returned, stockVars, gwVars, moneyVars, taskVars,
                   stockLock, crashes>>

AssignRider(p) ==
    /\ order = "confirmed" /\ assignment = "none"
    /\ Begin(p, [Rest EXCEPT !.step = "assign"])
    /\ UNCHANGED <<rowVars, stockVars, gwVars, moneyVars, taskVars, stockLock, crashes, marks>>

AutoAssign(p) ==
    /\ assignQueued
    /\ assignQueued' = FALSE
    /\ Begin(p, [Rest EXCEPT !.step = "assign"])
    /\ UNCHANGED <<rowVars, stockVars, gwVars, moneyVars, refundQueued, stockLock, crashes, marks>>

\* An order has one assignment, ever: another row violates the unique key.
CreateAssignment(p) ==
    /\ req[p].step = "assign"
    /\ assignment = "none"
    /\ assignment' = "assigned"
    /\ marks' = marks \cup (IF order = "cancelled" THEN {"late_assign"} ELSE {})
    /\ Return(p)
    /\ UNCHANGED <<order, payment, returned, stockVars, gwVars, moneyVars, taskVars,
                   stockLock, crashes>>

\* No rider to assign, or assigned already.
NotAssigned(p) ==
    /\ req[p].step = "assign"
    /\ Return(p)
    /\ UNCHANGED <<rowVars, stockVars, gwVars, moneyVars, taskVars, stockLock, crashes, marks>>

-----------------------------------------------------------------------------
(***************************************************************************)
(* The rider: accept, pick up, deliver.  The assignment's row is saved and *)
(* committed before the order's.                                           *)
(***************************************************************************)
RiderMayStart(step) ==
    CASE step = "accept" -> assignment = "assigned"
      [] step = "pickup" -> assignment \in {"assigned", "accepted"}
      [] step = "deliver" -> WithRider(assignment)

RiderStarts(p, step) ==
    /\ RiderMayStart(step)
    /\ Begin(p, [Rest EXCEPT !.step = step])
    /\ UNCHANGED <<rowVars, stockVars, gwVars, moneyVars, taskVars, stockLock, crashes, marks>>

SaveAssignment(p) ==
    LET step == req[p].step IN
    /\ step \in {"accept", "pickup", "deliver"}
    /\ assignment' = CASE step = "accept" -> "accepted"
                       [] step = "pickup" -> "picked_up"
                       [] step = "deliver" -> "delivered"
    /\ CASE step = "accept" -> Return(p)
         [] step = "pickup" -> Goto(p, "picked_up")
         [] step = "deliver" -> Goto(p, "delivered")
    /\ UNCHANGED <<order, payment, returned, stockVars, gwVars, moneyVars, taskVars,
                   stockLock, crashes, marks>>

SaveOrder(p) ==
    /\ req[p].step \in {"picked_up", "delivered"}
    /\ order' = IF req[p].step = "picked_up" THEN "out_for_delivery" ELSE "delivered"
    /\ Return(p)
    /\ UNCHANGED <<payment, assignment, returned, stockVars, gwVars, moneyVars, taskVars,
                   stockLock, crashes, marks>>

\* return_order: items ls are refused at the door.
ReturnItems(p, ls) ==
    /\ WithRider(assignment)
    /\ ls # {} /\ ls \subseteq Lines \ returned
    /\ Begin(p, [Rest EXCEPT !.step = "return", !.lines = ls, !.full = ls = Lines \ returned])
    /\ UNCHANGED <<rowVars, stockVars, gwVars, moneyVars, taskVars, stockLock, crashes, marks>>

ReturnCommit(p) ==
    LET r == req[p]
        prepaid == r.payment.status = "success" /\ r.payment.method # "cod"
        Once(f) == [l \in Lines |-> IF l \in r.lines THEN f[l] + 1 ELSE f[l]] IN
    /\ r.step = "returning"
    /\ returned' = returned \cup r.lines
    /\ restocked' = Once(restocked)
    /\ lineCredits' = IF prepaid THEN Once(lineCredits) ELSE lineCredits
    /\ assignment' = IF r.full THEN "returned" ELSE "delivered"
    /\ order' = IF r.full THEN "returned" ELSE "delivered"
    /\ stockLock' = None
    /\ Return(p)
    /\ UNCHANGED <<payment, slotFreed, gwVars, refunds, debits, cancelCredits, taskVars,
                   crashes, marks>>

(***************************************************************************)
(* A worker dies, the database refuses a statement or the gateway a        *)
(* refund: the open block is rolled back and nothing resumes the handler.  *)
(***************************************************************************)
Crash(p) ==
    /\ ~Idle(p)
    /\ crashes < MaxCrashes
    /\ crashes' = crashes + 1
    /\ stockLock' = IF stockLock = p THEN None ELSE stockLock
    /\ marks' = marks \cup (IF req[p].step \in {"enqueue", "refund"} THEN {"refund_lost"} ELSE {})
    /\ Return(p)
    /\ UNCHANGED <<rowVars, stockVars, gwVars, moneyVars, taskVars>>

-----------------------------------------------------------------------------
Start(p) ==
    \/ \E m \in Methods : Initiate(p, m)
    \/ \E signed \in BOOLEAN : Verify(p, signed)
    \/ MockPay(p)
    \/ \E step \in {"accept", "pickup", "deliver"} : RiderStarts(p, step)
    \/ \E ls \in SUBSET Lines : ReturnItems(p, ls)
    \/ Cancel(p) \/ ConfirmOrder(p) \/ AssignRider(p)

Task(p) == AutoAssign(p) \/ \E a \in Attempts : StartRefund(p, a)

Continue(p) ==
    \/ InitiateCommit(p) \/ InitiateRolledBack(p)
    \/ Capture(p) \/ MarkPayment(p) \/ RowGone(p) \/ Acknowledge(p)
    \/ Settle(p) \/ CancelCommit(p) \/ CancelRolledBack(p) \/ EnqueueRefund(p)
    \/ RefundAtGateway(p)
    \/ ConfirmSave(p) \/ CreateAssignment(p) \/ NotAssigned(p)
    \/ SaveAssignment(p) \/ SaveOrder(p) \/ ReturnCommit(p)

Next ==
    \/ \E a \in Attempts : AttemptDeclined(a) \/ CustomerPays(a)
    \/ \E p \in Workers :
         \/ Start(p) \/ Task(p) \/ Continue(p) \/ Crash(p)
         \/ \E a \in Attempts, e \in Events : Webhook(p, a, e)

(***************************************************************************)
(* Workers finish what they began and take every queued task; the gateway  *)
(* repeats an event until it is acknowledged.                              *)
(***************************************************************************)
Fairness ==
    /\ \A p \in Workers : SF_vars(Continue(p))
    /\ SF_vars(\E p \in Workers : AutoAssign(p))
    /\ \A a \in Attempts : SF_vars(\E p \in Workers : StartRefund(p, a))
    /\ \A a \in Attempts, e \in Events : SF_vars(\E p \in Workers : Webhook(p, a, e))

Spec == Init /\ [][Next]_vars

FairSpec == Spec /\ Fairness

-----------------------------------------------------------------------------
(***************************************************************************)
(* Properties.  Those that speak of Quiet states are about handlers that   *)
(* run one after the other; which of them survive concurrency is said at   *)
(* each.                                                                   *)
(***************************************************************************)

StatusOf == [cod |-> {"pending", "failed"}, wallet |-> {"success", "refunded"},
             online |-> {"created", "success", "failed", "refunded"}]

\* Rows, tasks and requests are well formed; in particular a payment only has
\* a status its method gives a meaning to.
TypeOK ==
    /\ order \in OrderStatus
    /\ payment \in Payment \cup {NoPayment}
    /\ payment # NoPayment => payment.status \in StatusOf[payment.method]
    /\ assignment \in AssignmentStatus
    /\ returned \subseteq Lines
    /\ restocked \in [Lines -> Nat] /\ slotFreed \in Nat
    /\ attempts \in 0..MaxAttempts
    /\ gateway \in [Attempts -> {"none", "open", "paid"}]
    /\ emitted \in [Attempts -> SUBSET Events]
    /\ processed \in [Attempts -> SUBSET Events]
    /\ refunds \in [Attempts -> Nat] /\ debits \in Nat /\ cancelCredits \in Nat
    /\ lineCredits \in [Lines -> Nat]
    /\ assignQueued \in BOOLEAN /\ refundQueued \in [Attempts -> Nat]
    /\ DOMAIN req = Workers
    /\ stockLock \in Workers \cup {None} /\ crashes \in Nat
    /\ marks \subseteq {"late_assign", "late_capture", "ops_confirmed", "refund_lost"}

\* Nothing runs and nothing was cut short.
Quiet == crashes = 0 /\ \A p \in Workers : Idle(p)

\* However its confirmations, failures and cancellations interleave, a payment
\* says SUCCESS or REFUNDED only when the money was taken: by the gateway, or
\* from the wallet; cash on delivery never does.
PaidOnlyIfTaken ==
    payment.status \in {"success", "refunded"} =>
        CASE payment.method = "online" -> gateway[payment.id] = "paid"
          [] payment.method = "wallet" -> debits > 0
          [] OTHER -> FALSE

Stage(o) == CASE o = "pending" -> 0 [] o = "confirmed" -> 1
              [] o = "out_for_delivery" -> 2 [] OTHER -> 3

\* Handlers that run one after the other only move an order forward, and never
\* out of a final status, unless the auto-assign task ran on a cancelled order.
ForwardOnly ==
    [][order' # order => Stage(order') > Stage(order) \/ "late_assign" \in marks]_vars

\* What a wallet was debited for the order comes back once: a cancellation
\* that read the same order waits for the variants and finds it refunded.
CreditedBackOnce == cancelCredits <= debits

\* The stock and the slot that an order took go back once at most.
ReturnedOnce ==
    "late_assign" \in marks \/ (slotFreed <= 1 /\ \A l \in Lines : restocked[l] <= 1)

\* Each item is paid back once at most, by whichever way: a cancellation
\* returns every item's value, to the wallet or through the gateway.
PaidBackOnce ==
    "late_assign" \in marks \/
        \A l \in Lines, a \in Attempts :
            cancelCredits + lineCredits[l] + refunds[a] + refundQueued[a] <= 1

\* A cancelled order's payment is void, or on its way back by the route it
\* came, unless the gateway's confirmation came after the cancellation.
CancelledIsSettled ==
    Quiet /\ order = "cancelled" /\ "late_capture" \notin marks =>
        \/ payment.status \in {"none", "failed"}
        \/ /\ payment.status = "refunded"
           /\ IF payment.method = "wallet" THEN cancelCredits = debits
              ELSE refunds[payment.id] + refundQueued[payment.id] = 1

\* Unless ops confirmed it by hand, a confirmed order has been paid or will be
\* in cash: no failed attempt, late or repeated event takes that back.
ConfirmedIsBacked ==
    order = "confirmed" /\ "ops_confirmed" \notin marks =>
        payment.status = IF payment.method = "cod" THEN "pending" ELSE "success"

\* Between handlers the rider's view of the order and the customer's agree.
AssignmentAgrees ==
    Quiet /\ "late_assign" \notin marks =>
        /\ assignment = "picked_up" <=> order = "out_for_delivery"
        /\ assignment = "delivered" <=> order = "delivered"
        /\ assignment = "returned" <=> order = "returned"
        /\ order = "cancelled" => assignment \in {"none", "cancelled"}
        /\ assignment = "cancelled" => order = "cancelled"

\* The comment on cancellation: standing down "so it leaves the rider's queue".
CancelledLeavesQueue ==
    (order = "cancelled" /\ \A p \in Workers : Idle(p)) =>
        assignment \notin {"assigned", "accepted", "picked_up"}

\* payments/services: the callback and the webhooks "can both arrive without
\* double-applying"; applied again, a capture undoes a refund.
RefundStands ==
    [][payment.status = "refunded" => payment' = payment]_vars

\* A payment marked refunded is given back at the gateway, unless the handler
\* that cancelled the order or the task that refunds died.
RefundReachesGateway ==
    \A a \in Attempts :
        (payment.id = a /\ payment.method = "online" /\ payment.status = "refunded")
            ~> (refunds[a] > 0 \/ "refund_lost" \in marks)

\* A payment the gateway reports is recorded, whatever fails or dies on the
\* way, unless another attempt replaced it or the order was cancelled.
PaidIsCaptured ==
    \A a \in Attempts :
        "captured" \in emitted[a] ~>
            (payment.id # a \/ payment.status = "success" \/ slotFreed > 0)

=============================================================================

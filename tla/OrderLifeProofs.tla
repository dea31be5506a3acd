-------------------------- MODULE OrderLifeProofs --------------------------
(***************************************************************************)
(* Proofs about OrderLife, for any number of workers, items, attempts and  *)
(* crashes: a payment never claims money that was not taken, and a wallet  *)
(* never gets back more than it was debited, however the handlers overlap. *)
(* For handlers that run one after the other: the order only moves         *)
(* forward, what it took goes back once, and its rows agree.               *)
(***************************************************************************)
EXTENDS OrderLife, TLAPS

Steps == {"idle", "initiate", "capture", "fail", "refunded", "acknowledge", "cancel",
          "cancelling", "enqueue", "refund", "confirm", "assign", "accept", "pickup",
          "deliver", "picked_up", "delivered", "return", "returning"}

Request == [step : Steps, order : OrderStatus, payment : Payment \cup {NoPayment},
            assignment : AssignmentStatus, lines : SUBSET Lines, full : BOOLEAN,
            method : {"cod", "online", "wallet"}, attempt : 0..MaxAttempts,
            event : Events \cup {"none"}]

\* StatusOf, one method at a time.
StatusFits(pay) ==
    /\ pay.method = "cod" => pay.status \in {"pending", "failed"}
    /\ pay.method = "wallet" => pay.status \in {"success", "refunded"}
    /\ pay.method = "online" => pay.status \in {"created", "success", "failed", "refunded"}

\* What a row of the order's payments says, the present one or one that was
\* read: it was initiated, and the money it calls taken was taken.
Backed(pay) ==
    \/ pay = NoPayment
    \/ /\ pay \in Payment /\ pay.id <= attempts /\ StatusFits(pay)
       /\ pay.status \in {"success", "refunded"} =>
             /\ pay.method = "online" => gateway[pay.id] = "paid"
             /\ pay.method = "wallet" => debits > 0

\* What a request carries to its next step: a capture or a refund was paid for
\* at the gateway; a cancellation that holds the variants still sees the
\* payment it read, if the order paid from the wallet and the row is there.
Fits(p, r) ==
    /\ r \in Request
    /\ r.step \in {"capture", "refunded", "refund"} =>
          r.attempt \in Attempts /\ gateway[r.attempt] = "paid"
    /\ r.step = "fail" => r.attempt \in Attempts /\ gateway[r.attempt] # "none"
    /\ r.step = "acknowledge" => r.attempt \in Attempts /\ r.event \in Events
    /\ r.step \in {"cancelling", "returning"} => stockLock = p
    /\ r.step = "cancelling" =>
          /\ Backed(r.payment)
          /\ payment.id = r.payment.id =>
                /\ payment.method = r.payment.method
                /\ payment.method = "wallet" => payment = r.payment
    /\ r.step = "enqueue" => r.payment \in Payment /\ gateway[r.payment.id] = "paid"

\* The gateway knows exactly the online attempts, and speaks of a payment, or
\* is asked to refund one, only when it took the money.
GatewayOK ==
    \A a \in Attempts :
        /\ gateway[a] # "none" => a <= attempts
        /\ emitted[a] # {} => gateway[a] # "none"
        /\ emitted[a] \cap {"authorized", "captured", "refunded"} # {} => gateway[a] = "paid"
        /\ refundQueued[a] > 0 => gateway[a] = "paid"

PaymentOK ==
    /\ Backed(payment)
    /\ payment # NoPayment => (payment.method = "online" <=> gateway[payment.id] # "none")

InWallet(pay) == pay.method = "wallet" /\ pay.status = "success"

\* A debit that the order still holds has not been credited back.
CreditsOK ==
    /\ cancelCredits <= debits
    /\ InWallet(payment) => cancelCredits + 1 <= debits

IInv == TypeOK /\ (\A p \in Workers : Fits(p, req[p])) /\ GatewayOK /\ PaymentOK /\ CreditsOK

\* What one step of worker p may do to the rest: time only adds to what was
\* initiated, paid and debited, and the payment another cancellation read
\* keeps its method, and its status if that holder's wallet paid it.
Others(p) == DOMAIN req' = Workers /\ \A q \in Workers \ {p} : req'[q] = req[q]

Grows ==
    /\ attempts <= attempts' /\ debits <= debits'
    /\ \A a \in Attempts : /\ gateway[a] = "paid" => gateway'[a] = "paid"
                           /\ gateway[a] # "none" => gateway'[a] # "none"

LockKept(p) == \A q \in Workers \ {p} : stockLock = q => stockLock' = q

RowKept(p) ==
    \/ payment' = payment
    \/ payment'.id > attempts
    \/ /\ payment'.id = payment.id /\ payment'.method = payment.method
       /\ payment.method # "wallet" \/ stockLock = p

-----------------------------------------------------------------------------
\* The types the provers need at hand, and that an attempt is no NoPayment.
LEMMA Facts ==
    /\ MaxAttempts \in Nat /\ NoPayment \notin Payment /\ None \notin Workers
    /\ \A pay \in Payment : /\ pay.id \in Attempts /\ pay.id # 0
                            /\ pay.id \in 0..MaxAttempts
                            /\ pay.method \in {"cod", "online", "wallet"}
    /\ NoPayment.id = 0 /\ NoPayment.method = "cod" /\ NoPayment.status = "none"
  BY OrderLifeAssumption DEF Payment, NoPayment, Attempts

LEMMA StatusOfMethod ==
    ASSUME NEW pay \in Payment
    PROVE  pay.status \in StatusOf[pay.method] <=> StatusFits(pay)
<1>1. pay.method \in {"cod", "online", "wallet"}
  BY DEF Payment
<1>2. CASE pay.method = "cod"
  BY <1>2 DEF StatusOf, StatusFits
<1>3. CASE pay.method = "online"
  BY <1>3 DEF StatusOf, StatusFits
<1>4. CASE pay.method = "wallet"
  BY <1>4 DEF StatusOf, StatusFits
<1> QED
  BY <1>1, <1>2, <1>3, <1>4

LEMMA RestIsRequest == Rest \in Request /\ Rest.step = "idle"
  BY OrderLifeAssumption DEF Rest, Request, Steps, OrderStatus, AssignmentStatus

LEMMA RestFits == ASSUME NEW p PROVE Fits(p, Rest)
  BY RestIsRequest DEF Fits

LEMMA InitIInv == Init => IInv
<1> SUFFICES ASSUME Init PROVE IInv
  OBVIOUS
<1>1. TypeOK
  BY OrderLifeAssumption DEF Init, TypeOK, OrderStatus, AssignmentStatus, Events
<1>2. \A p \in Workers : Fits(p, req[p])
  BY RestFits DEF Init
<1>3. GatewayOK
  BY DEF Init, GatewayOK
<1>4. PaymentOK /\ CreditsOK
  BY Facts DEF Init, PaymentOK, Backed, CreditsOK, InWallet
<1> QED
  BY <1>1, <1>2, <1>3, <1>4 DEF IInv

\* A row that was backed stays backed.
LEMMA OthersFit ==
    ASSUME IInv, NEW p \in Workers, Others(p), Grows, LockKept(p), RowKept(p), TypeOK'
    PROVE  \A q \in Workers \ {p} : Fits(q, req[q])'
<1> SUFFICES ASSUME NEW q \in Workers \ {p} PROVE Fits(q, req[q])'
  OBVIOUS
<1> DEFINE r == req[q]
<1>1. req'[q] = r /\ Fits(q, r)
  BY DEF Others, IInv
<1>2. r \in Request
  BY <1>1 DEF Fits
<1>3. r.step \in {"capture", "refunded", "refund"} => r.attempt \in Attempts /\ gateway'[r.attempt] = "paid"
  BY <1>1 DEF Fits, Grows
<1>4. r.step = "fail" => r.attempt \in Attempts /\ gateway'[r.attempt] # "none"
  BY <1>1 DEF Fits, Grows
<1>5. r.step \in {"cancelling", "returning"} => stockLock' = q
  BY <1>1 DEF Fits, LockKept
<1>6. r.step = "enqueue" => r.payment \in Payment /\ gateway'[r.payment.id] = "paid"
  BY <1>1, Facts DEF Fits, Grows
<1>7. ASSUME r.step = "cancelling"
      PROVE  /\ Backed(req[q].payment)'
             /\ payment'.id = r.payment.id =>
                   /\ payment'.method = r.payment.method
                   /\ payment'.method = "wallet" => payment' = r.payment
  <2>1. Backed(r.payment) /\ stockLock = q
    BY <1>1, <1>7 DEF Fits
  <2>2. /\ attempts \in Nat /\ attempts' \in Nat /\ attempts' >= attempts
        /\ debits \in Nat /\ debits' \in Nat /\ debits' >= debits
    BY Facts DEF IInv, TypeOK, Grows
  <2>3. Backed(req[q].payment)'
    <3>1. CASE r.payment = NoPayment
      BY <3>1, <1>1 DEF Backed
    <3>2. CASE r.payment \in Payment
      <4> DEFINE pay == r.payment
      <4>1. pay.id \in Attempts /\ pay.id \in Int /\ pay # NoPayment
        BY <3>2, Facts DEF Attempts
      <4>2. /\ pay.id <= attempts /\ StatusFits(pay)
            /\ pay.status \in {"success", "refunded"} =>
                  /\ pay.method = "online" => gateway[pay.id] = "paid"
                  /\ pay.method = "wallet" => debits > 0
        BY <2>1, <4>1 DEF Backed
      <4>3. /\ pay.id <= attempts'
            /\ pay.status \in {"success", "refunded"} =>
                  /\ pay.method = "online" => gateway'[pay.id] = "paid"
                  /\ pay.method = "wallet" => debits' > 0
        BY <2>2, <4>1, <4>2 DEF Grows
      <4>4. req'[q].payment = pay
        BY <1>1
      <4> QED
        BY <3>2, <4>2, <4>3, <4>4 DEF Backed, StatusFits
    <3> QED
      BY <3>1, <3>2, <2>1 DEF Backed
  <2>4. r.payment.id <= attempts /\ r.payment.id \in Int
    BY <2>1, <2>2, Facts DEF Backed, Attempts
  <2>5. CASE payment' = payment
    BY <2>3, <2>5, <1>1, <1>7 DEF Fits
  <2>6. CASE payment'.id > attempts
    <3>1. payment'.id # r.payment.id
      BY <2>2, <2>4, <2>6
    <3> QED
      BY <3>1, <2>3
  <2>7. CASE payment'.id = payment.id /\ payment'.method = payment.method /\ payment.method # "wallet"
    BY <2>3, <2>7, <1>1, <1>7 DEF Fits
  <2>8. stockLock # p
    BY <2>1
  <2> QED
    BY <2>5, <2>6, <2>7, <2>8 DEF RowKept
<1> QED
  BY <1>1, <1>2, <1>3, <1>4, <1>5, <1>6, <1>7 DEF Fits

-----------------------------------------------------------------------------
(***************************************************************************)
(* Steps that only begin, carry on or end a request, or write rows that no *)
(* payment depends on.                                                     *)
(***************************************************************************)
moneyRows == <<payment, attempts, gateway, emitted, refundQueued, debits, cancelCredits>>

LEMMA MoneyUntouched ==
    ASSUME IInv, NEW p \in Workers, Others(p), LockKept(p), TypeOK', Fits(p, req[p])',
           UNCHANGED moneyRows
    PROVE  IInv'
<1>1. Grows /\ RowKept(p)
  <2>1. attempts \in Int /\ debits \in Int
    BY Facts DEF IInv, TypeOK
  <2> QED
    BY <2>1 DEF Grows, RowKept, moneyRows
<1>2. \A q \in Workers : Fits(q, req[q])'
  BY <1>1, OthersFit
<1>3. GatewayOK'
  BY DEF IInv, GatewayOK, moneyRows
<1>4. PaymentOK' /\ CreditsOK'
  BY DEF IInv, PaymentOK, Backed, CreditsOK, InWallet, moneyRows
<1> QED
  BY <1>2, <1>3, <1>4 DEF IInv

LEMMA Returned ==
    ASSUME IInv, NEW p \in Workers, Return(p)
    PROVE  DOMAIN req' = Workers /\ Others(p) /\ Fits(p, req[p])'
<1>1. DOMAIN req = Workers
  BY DEF IInv, TypeOK
<1>2. req'[p] = Rest /\ Others(p) /\ DOMAIN req' = Workers
  BY <1>1 DEF Return, Others
<1> QED
  BY <1>2, RestIsRequest DEF Fits

LEMMA Began ==
    ASSUME IInv, NEW p \in Workers, NEW STATE r, Begin(p, r)
    PROVE  DOMAIN req' = Workers /\ Others(p) /\ req'[p] = r
  BY DEF IInv, TypeOK, Begin, Others

\* A payment's row as it is: online payments are known to the gateway.
LEMMA Online ==
    ASSUME IInv, payment.method = "online"
    PROVE  /\ payment \in Payment /\ payment.id \in Attempts /\ payment.id \in 0..MaxAttempts
           /\ gateway[payment.id] # "none"
  BY Facts DEF IInv, TypeOK, PaymentOK

LEMMA RequestFields ==
    ASSUME NEW r \in Request
    PROVE  /\ r.step \in Steps /\ r.payment \in Payment \cup {NoPayment}
           /\ r.attempt \in 0..MaxAttempts /\ r.event \in Events \cup {"none"}
           /\ r.method \in {"cod", "online", "wallet"} /\ r.assignment \in AssignmentStatus
           /\ r.order \in OrderStatus /\ r.lines \in SUBSET Lines /\ r.full \in BOOLEAN
  BY DEF Request

\* What a handler begins with, when nothing was read yet that later counts.
Plain == {"initiate", "cancel", "confirm", "assign", "accept", "pickup", "deliver", "return"}

LEMMA BegunPlainly ==
    ASSUME IInv, NEW p \in Workers, NEW STATE r, Begin(p, r), r \in Request, r.step \in Plain,
           UNCHANGED <<rowVars, stockVars, gwVars, moneyVars, refundQueued, stockLock, crashes, marks>>,
           assignQueued' \in BOOLEAN
    PROVE  IInv'
<1>1. DOMAIN req' = Workers /\ Others(p) /\ req'[p] = r
  BY Began
<1>2. Fits(p, req[p])'
  BY <1>1 DEF Fits, Plain
<1>3. TypeOK'
  BY <1>1 DEF IInv, TypeOK, rowVars, stockVars, gwVars, moneyVars
<1> QED
  BY <1>1, <1>2, <1>3, MoneyUntouched
     DEF LockKept, moneyRows, rowVars, gwVars, moneyVars

LEMMA StartPlainly ==
    ASSUME IInv, NEW p \in Workers,
           \/ \E m \in Methods : Initiate(p, m)
           \/ \E step \in {"accept", "pickup", "deliver"} : RiderStarts(p, step)
           \/ \E ls \in SUBSET Lines : ReturnItems(p, ls)
           \/ Cancel(p) \/ ConfirmOrder(p) \/ AssignRider(p) \/ AutoAssign(p)
    PROVE  IInv'
<1>1. assignQueued \in BOOLEAN /\ assignment \in AssignmentStatus /\ payment.id \in 0..MaxAttempts
  BY Facts DEF IInv, TypeOK
<1>2. ASSUME NEW m \in Methods, Initiate(p, m) PROVE IInv'
  <2>1. m \in {"cod", "online", "wallet"}
    BY OrderLifeAssumption
  <2> DEFINE r == [Rest EXCEPT !.step = "initiate", !.method = m, !.attempt = payment.id]
  <2>2. r \in Request /\ r.step \in Plain
    BY <1>1, <2>1, RestIsRequest DEF Rest, Request, Steps, Plain
  <2> QED
    BY <1>1, <1>2, <2>2, BegunPlainly DEF Initiate, taskVars
<1>3. ASSUME NEW step \in {"accept", "pickup", "deliver"}, RiderStarts(p, step) PROVE IInv'
  <2> DEFINE r == [Rest EXCEPT !.step = step]
  <2>1. r \in Request /\ r.step \in Plain
    BY RestIsRequest DEF Rest, Request, Steps, Plain
  <2> QED
    BY <1>1, <1>3, <2>1, BegunPlainly DEF RiderStarts, taskVars
<1>4. ASSUME NEW ls \in SUBSET Lines, ReturnItems(p, ls) PROVE IInv'
  <2> DEFINE r == [Rest EXCEPT !.step = "return", !.lines = ls, !.full = ls = Lines \ returned]
  <2>1. r \in Request /\ r.step \in Plain
    BY RestIsRequest DEF Rest, Request, Steps, Plain
  <2> QED
    BY <1>1, <1>4, <2>1, BegunPlainly DEF ReturnItems, taskVars
<1>5. CASE Cancel(p)
  <2> DEFINE r == [Rest EXCEPT !.step = "cancel", !.assignment = assignment]
  <2>1. r \in Request /\ r.step \in Plain
    BY <1>1, RestIsRequest DEF Rest, Request, Steps, Plain
  <2> QED
    BY <1>1, <1>5, <2>1, BegunPlainly DEF Cancel, taskVars
<1>6. CASE ConfirmOrder(p) \/ AssignRider(p) \/ AutoAssign(p)
  <2> DEFINE r(step) == [Rest EXCEPT !.step = step]
  <2>1. /\ r("confirm") \in Request /\ r("confirm").step \in Plain
        /\ r("assign") \in Request /\ r("assign").step \in Plain
    BY RestIsRequest DEF Rest, Request, Steps, Plain
  <2> QED
    BY <1>1, <1>6, <2>1, BegunPlainly DEF ConfirmOrder, AssignRider, AutoAssign, taskVars
<1> QED
  BY <1>2, <1>3, <1>4, <1>5, <1>6

-----------------------------------------------------------------------------
\* A request that ends, its rows written: what it wrote no payment rests on.
LEMMA EndQuietly ==
    ASSUME IInv, NEW p \in Workers,
           \/ InitiateRolledBack(p) \/ RowGone(p) \/ Acknowledge(p) \/ CancelRolledBack(p)
           \/ ConfirmSave(p) \/ CreateAssignment(p) \/ NotAssigned(p)
           \/ SaveOrder(p) \/ Crash(p)
    PROVE  IInv'
<1>1. Return(p) /\ UNCHANGED moneyRows
  BY DEF InitiateRolledBack, RowGone, Acknowledge, CancelRolledBack, ConfirmSave, CreateAssignment,
         NotAssigned, SaveOrder, Crash, moneyRows, rowVars, gwVars, moneyVars, taskVars
<1>2. DOMAIN req' = Workers /\ Others(p) /\ Fits(p, req[p])'
  BY <1>1, Returned
<1>3. LockKept(p) /\ stockLock' \in Workers \cup {None}
  <2>1. CancelRolledBack(p) => stockLock = p
    BY DEF CancelRolledBack, IInv, Fits
  <2>2. stockLock \in Workers \cup {None}
    BY DEF IInv, TypeOK
  <2> QED
    BY <2>1, <2>2
       DEF LockKept, InitiateRolledBack, RowGone, Acknowledge, CancelRolledBack, ConfirmSave,
           CreateAssignment, NotAssigned, SaveOrder, Crash
<1>4. /\ order' \in OrderStatus /\ assignment' \in AssignmentStatus
      /\ marks' \subseteq {"late_assign", "late_capture", "ops_confirmed", "refund_lost"}
      /\ crashes' \in Nat
  <2>1. /\ order \in OrderStatus /\ assignment \in AssignmentStatus /\ crashes \in Nat
        /\ marks \subseteq {"late_assign", "late_capture", "ops_confirmed", "refund_lost"}
    BY DEF IInv, TypeOK
  <2>2. CASE InitiateRolledBack(p) \/ RowGone(p) \/ Acknowledge(p) \/ CancelRolledBack(p) \/ NotAssigned(p)
    BY <2>1, <2>2 DEF InitiateRolledBack, RowGone, Acknowledge, CancelRolledBack, NotAssigned, rowVars
  <2>3. CASE ConfirmSave(p) \/ SaveOrder(p)
    BY <2>1, <2>3 DEF ConfirmSave, SaveOrder, OrderStatus
  <2>4. CASE CreateAssignment(p)
    BY <2>1, <2>4 DEF CreateAssignment, AssignmentStatus
  <2>5. CASE Crash(p)
    BY <2>1, <2>5 DEF Crash, rowVars
  <2> QED
    BY <2>2, <2>3, <2>4, <2>5
<1>5. processed' \in [Attempts -> SUBSET Events]
  <2>1. CASE Acknowledge(p)
    <3>1. req[p].attempt \in Attempts /\ req[p].event \in Events
      BY <2>1 DEF Acknowledge, IInv, Fits
    <3> QED
      BY <2>1, <3>1 DEF Acknowledge, IInv, TypeOK
  <2>2. CASE ~Acknowledge(p)
    BY <2>2 DEF IInv, TypeOK, InitiateRolledBack, RowGone, CancelRolledBack, ConfirmSave,
                CreateAssignment, NotAssigned, SaveOrder, Crash, gwVars
  <2> QED
    BY <2>1, <2>2
<1>6. UNCHANGED <<returned, stockVars, refunds, lineCredits, assignQueued>>
  BY DEF InitiateRolledBack, RowGone, Acknowledge, CancelRolledBack, ConfirmSave, CreateAssignment,
         NotAssigned, SaveOrder, Crash, rowVars, moneyVars, taskVars
<1>7. TypeOK'
  BY <1>1, <1>2, <1>3, <1>4, <1>5, <1>6 DEF IInv, TypeOK, moneyRows, stockVars
<1> QED
  BY <1>1, <1>2, <1>3, <1>7, MoneyUntouched

\* The rider's row first; for a pick-up and a delivery the order's is to come.
LEMMA SaveAssignmentStep ==
    ASSUME IInv, NEW p \in Workers, SaveAssignment(p) PROVE IInv'
<1> DEFINE r == req[p]
<1>1. r \in Request /\ DOMAIN req = Workers
  BY DEF IInv, TypeOK, Fits
<1>2. r.step \in {"accept", "pickup", "deliver"}
  BY DEF SaveAssignment
<1>3. /\ UNCHANGED <<order, payment, returned, stockVars, gwVars, moneyVars, taskVars, stockLock,
                     crashes, marks>>
      /\ assignment' \in AssignmentStatus
  BY <1>2 DEF SaveAssignment, AssignmentStatus
<1>4. DOMAIN req' = Workers /\ Others(p) /\ Fits(p, req[p])'
  <2>1. CASE Return(p)
    BY <2>1, Returned
  <2>2. ASSUME NEW s \in {"picked_up", "delivered"}, Goto(p, s)
        PROVE  DOMAIN req' = Workers /\ Others(p) /\ Fits(p, req[p])'
    <3>1. DOMAIN req' = Workers /\ Others(p) /\ req'[p] = [r EXCEPT !.step = s]
      BY <1>1, <2>2 DEF Goto, Others
    <3>2. req'[p] \in Request /\ req'[p].step = s
      BY <1>1, <3>1 DEF Request, Steps
    <3> QED
      BY <3>1, <3>2 DEF Fits
  <2>3. Return(p) \/ Goto(p, "picked_up") \/ Goto(p, "delivered")
    BY <1>2 DEF SaveAssignment
  <2> QED
    BY <2>1, <2>2, <2>3
<1>5. TypeOK'
  BY <1>3, <1>4 DEF IInv, TypeOK, stockVars, gwVars, moneyVars, taskVars
<1> QED
  BY <1>3, <1>4, <1>5, MoneyUntouched DEF LockKept, moneyRows, gwVars, moneyVars, taskVars

\* Holding the variants, a cancellation or a return reads the payment's row.
LEMMA SettleStep ==
    ASSUME IInv, NEW p \in Workers, Settle(p) PROVE IInv'
<1> DEFINE r == req[p]
<1>1. r \in Request /\ DOMAIN req = Workers /\ payment \in Payment \cup {NoPayment}
  BY DEF IInv, TypeOK, Fits
<1>2. /\ r.step \in {"cancel", "return"} /\ stockLock = None /\ stockLock' = p
      /\ UNCHANGED <<rowVars, stockVars, gwVars, moneyVars, taskVars, crashes, marks>>
  BY DEF Settle, VariantsFree
<1>3. /\ DOMAIN req' = Workers /\ Others(p)
      /\ req'[p] = [r EXCEPT !.payment = payment,
                             !.step = IF @ = "cancel" THEN "cancelling" ELSE "returning"]
  BY <1>1 DEF Settle, Others
<1>4. /\ req'[p] \in Request /\ req'[p].step \in {"cancelling", "returning"}
      /\ req'[p].payment = payment
  BY <1>1, <1>3 DEF Request, Steps
<1>5. Fits(p, req[p])'
  <2>1. Backed(req[p].payment)'
    BY <1>2, <1>4 DEF IInv, PaymentOK, Backed, rowVars, gwVars, moneyVars
  <2> QED
    BY <1>2, <1>4, <2>1 DEF Fits, rowVars
<1>6. TypeOK' /\ LockKept(p)
  BY <1>2, <1>3, Facts DEF IInv, TypeOK, LockKept, rowVars, stockVars, gwVars, moneyVars, taskVars
<1> QED
  BY <1>2, <1>3, <1>5, <1>6, MoneyUntouched DEF moneyRows, rowVars, gwVars, moneyVars, taskVars

\* A return at the door pays its items back and leaves the payment's row.
LEMMA ReturnCommitStep ==
    ASSUME IInv, NEW p \in Workers, ReturnCommit(p) PROVE IInv'
<1> DEFINE r == req[p]
           Once(f) == [l \in Lines |-> IF l \in r.lines THEN f[l] + 1 ELSE f[l]]
<1>1. r \in Request /\ r.lines \in SUBSET Lines /\ stockLock = p
  BY RequestFields DEF IInv, Fits, ReturnCommit
<1>2. DOMAIN req' = Workers /\ Others(p) /\ Fits(p, req[p])'
  BY Returned DEF ReturnCommit
<1>3. /\ returned' \subseteq Lines
      /\ assignment' \in AssignmentStatus /\ order' \in OrderStatus
      /\ stockLock' = None
      /\ UNCHANGED <<payment, slotFreed, gwVars, refunds, debits, cancelCredits, taskVars, crashes, marks>>
  BY <1>1 DEF ReturnCommit, IInv, TypeOK, AssignmentStatus, OrderStatus
<1>4. restocked' = Once(restocked) /\ (lineCredits' = Once(lineCredits) \/ lineCredits' = lineCredits)
  BY DEF ReturnCommit
<1>5. restocked' \in [Lines -> Nat] /\ lineCredits' \in [Lines -> Nat]
  BY <1>4 DEF IInv, TypeOK
<1>6. TypeOK' /\ LockKept(p)
  BY <1>1, <1>2, <1>3, <1>5 DEF IInv, TypeOK, LockKept, gwVars, taskVars
<1> QED
  BY <1>2, <1>3, <1>6, MoneyUntouched DEF moneyRows, gwVars, taskVars

-----------------------------------------------------------------------------
(***************************************************************************)
(* Steps that write the payment, the gateway's side of it or the wallet.   *)
(***************************************************************************)

\* A new row, under an id that nothing refers to yet.
LEMMA InitiateCommitStep ==
    ASSUME IInv, NEW p \in Workers, InitiateCommit(p) PROVE IInv'
<1> DEFINE method == req[p].method
           a == attempts + 1
<1>1. /\ method \in {"cod", "online", "wallet"} /\ a \in Attempts /\ attempts' = a
      /\ payment' = [id |-> a, method |-> method, status |-> FirstStatus(method)]
      /\ debits' = IF method = "wallet" THEN debits + 1 ELSE debits
      /\ gateway' = [gateway EXCEPT ![a] = IF method = "online" THEN "open" ELSE @]
      /\ order' \in OrderStatus
      /\ UNCHANGED <<assignment, returned, stockVars, emitted, processed, refunds, cancelCredits,
                     lineCredits, taskVars, stockLock, crashes, marks>>
  BY RequestFields DEF InitiateCommit, IInv, Fits, TypeOK, OrderStatus
<1>2. DOMAIN req' = Workers /\ Others(p) /\ Fits(p, req[p])'
  BY Returned DEF InitiateCommit
<1>3. /\ attempts \in 0..MaxAttempts /\ attempts < a /\ attempts' \in 0..MaxAttempts
      /\ debits \in Nat /\ debits' \in Nat /\ debits <= debits' /\ cancelCredits \in Nat
      /\ cancelCredits <= debits
      /\ gateway \in [Attempts -> {"none", "open", "paid"}]
  BY <1>1, Facts DEF IInv, TypeOK, Attempts, CreditsOK
<1>4. gateway[a] = "none"
  BY <1>1, <1>3 DEF IInv, GatewayOK
<1>5. /\ gateway' \in [Attempts -> {"none", "open", "paid"}]
      /\ gateway'[a] = IF method = "online" THEN "open" ELSE "none"
      /\ \A b \in Attempts \ {a} : gateway'[b] = gateway[b]
  BY <1>1, <1>3, <1>4
<1>6. /\ payment' \in Payment /\ payment' # NoPayment /\ StatusFits(payment)'
      /\ payment'.id = a /\ payment'.method = method
      /\ payment'.status = FirstStatus(method)
  BY <1>1, Facts DEF Payment, FirstStatus, StatusFits
<1>7. Grows /\ RowKept(p) /\ LockKept(p)
  BY <1>1, <1>3, <1>4, <1>5, <1>6 DEF Grows, RowKept, LockKept
<1>8. TypeOK'
  <2>1. payment'.status \in StatusOf[payment'.method]
    BY <1>6, StatusOfMethod DEF StatusFits
  <2> QED
    BY <1>1, <1>2, <1>3, <1>5, <1>6, <2>1 DEF IInv, TypeOK, stockVars, taskVars
<1>9. \A q \in Workers : Fits(q, req[q])'
  BY <1>2, <1>7, <1>8, OthersFit
<1>10. GatewayOK'
  <2> SUFFICES ASSUME NEW b \in Attempts
               PROVE  /\ gateway'[b] # "none" => b <= attempts'
                      /\ emitted'[b] # {} => gateway'[b] # "none"
                      /\ emitted'[b] \cap {"authorized", "captured", "refunded"} # {} => gateway'[b] = "paid"
                      /\ refundQueued'[b] > 0 => gateway'[b] = "paid"
    BY DEF GatewayOK
  <2>1. /\ gateway[b] # "none" => b <= attempts
        /\ emitted[b] # {} => gateway[b] # "none"
        /\ emitted[b] \cap {"authorized", "captured", "refunded"} # {} => gateway[b] = "paid"
        /\ refundQueued[b] > 0 => gateway[b] = "paid"
    BY DEF IInv, GatewayOK
  <2>2. emitted' = emitted /\ refundQueued' = refundQueued /\ b \in Int
    BY <1>1 DEF taskVars, Attempts
  <2>3. CASE b = a
    BY <1>1, <1>3, <1>4, <2>1, <2>2, <2>3
  <2>4. CASE b # a
    BY <1>1, <1>3, <1>5, <2>1, <2>2, <2>4
  <2> QED
    BY <2>3, <2>4
<1>11. PaymentOK'
  <2>1. payment'.status \in {"success", "refunded"} => method = "wallet"
    BY <1>1, <1>6 DEF FirstStatus
  <2>2. method = "wallet" => debits' > 0
    BY <1>1, <1>3
  <2>3. payment'.id <= attempts'
    BY <1>1, <1>3, <1>6
  <2>4. Backed(payment)'
    BY <1>6, <2>1, <2>2, <2>3 DEF Backed
  <2> QED
    BY <1>5, <1>6, <2>4 DEF PaymentOK
<1>12. CreditsOK'
  BY <1>1, <1>3, <1>6 DEF CreditsOK, InWallet
<1> QED
  BY <1>8, <1>9, <1>10, <1>11, <1>12 DEF IInv

\* The gateway's part, when no handler moves.
LEMMA GatewayStep ==
    ASSUME IInv, NEW a \in Attempts, AttemptDeclined(a) \/ CustomerPays(a) PROVE IInv'
<1>1. /\ gateway[a] = "open" /\ gateway' \in [Attempts -> {"none", "open", "paid"}]
      /\ emitted' \in [Attempts -> SUBSET Events]
      /\ \A b \in Attempts \ {a} : gateway'[b] = gateway[b] /\ emitted'[b] = emitted[b]
      /\ gateway'[a] \in {"open", "paid"}
      /\ emitted'[a] \cap {"authorized", "captured", "refunded"} # {} =>
            \/ gateway'[a] = "paid"
            \/ emitted[a] \cap {"authorized", "captured", "refunded"} # {}
      /\ UNCHANGED <<rowVars, stockVars, attempts, processed, moneyVars, taskVars, envVars>>
  BY DEF IInv, TypeOK, AttemptDeclined, CustomerPays, Events
<1>2. /\ \A b \in Attempts : /\ gateway[b] = "paid" => gateway'[b] = "paid"
                             /\ gateway[b] # "none" <=> gateway'[b] # "none"
  BY <1>1
<1>3. TypeOK'
  BY <1>1 DEF IInv, TypeOK, rowVars, stockVars, moneyVars, taskVars, envVars
<1>4. GatewayOK'
  <2> SUFFICES ASSUME NEW b \in Attempts
               PROVE  /\ gateway'[b] # "none" => b <= attempts
                      /\ emitted'[b] # {} => gateway'[b] # "none"
                      /\ emitted'[b] \cap {"authorized", "captured", "refunded"} # {} => gateway'[b] = "paid"
                      /\ refundQueued[b] > 0 => gateway'[b] = "paid"
    BY <1>1 DEF GatewayOK, taskVars
  <2>1. /\ gateway[b] # "none" => b <= attempts
        /\ emitted[b] # {} => gateway[b] # "none"
        /\ emitted[b] \cap {"authorized", "captured", "refunded"} # {} => gateway[b] = "paid"
        /\ refundQueued[b] > 0 => gateway[b] = "paid"
    BY DEF IInv, GatewayOK
  <2>2. CASE b = a
    BY <1>1, <2>1, <2>2
  <2>3. CASE b # a
    BY <1>1, <2>1, <2>3
  <2> QED
    BY <2>2, <2>3
<1>5. PaymentOK' /\ CreditsOK'
  <2>1. payment \in Payment \cup {NoPayment} /\ payment' = payment
    BY <1>1 DEF IInv, TypeOK, rowVars
  <2>2. Backed(payment)'
    BY <1>1, <1>2, <2>1, Facts DEF IInv, PaymentOK, Backed, moneyVars
  <2>3. CreditsOK'
    BY <1>1, <2>1 DEF IInv, CreditsOK, InWallet, moneyVars
  <2> QED
    BY <1>1, <1>2, <2>1, <2>2, <2>3, Facts DEF IInv, PaymentOK
<1>6. \A q \in Workers : Fits(q, req[q])'
  <2> SUFFICES ASSUME NEW q \in Workers PROVE Fits(q, req[q])'
    OBVIOUS
  <2>1. /\ Fits(q, req[q]) /\ req' = req /\ payment' = payment /\ stockLock' = stockLock
        /\ req[q] \in Request
    BY <1>1 DEF IInv, Fits, rowVars, envVars
  <2>2. req[q].payment \in Payment \cup {NoPayment}
    BY <2>1, RequestFields
  <2>3. Backed(req[q].payment) => Backed(req[q].payment)'
    BY <1>1, <1>2, <2>1, <2>2, Facts DEF Backed, moneyVars
  <2> QED
    BY <1>2, <2>1, <2>3, Facts DEF Fits
<1> QED
  BY <1>3, <1>4, <1>5, <1>6 DEF IInv

\* A request to confirm attempt a, as verify_payment or an event begins it.
LEMMA ConfirmingIsRequest ==
    ASSUME IInv, NEW a \in Attempts
    PROVE  Confirming(a) \in Request /\ Confirming(a).attempt = a
<1>1. a \in 0..MaxAttempts /\ order \in OrderStatus
  BY Facts DEF Attempts, IInv, TypeOK
<1> QED
  BY <1>1, RestIsRequest DEF Confirming, Request

LEMMA VerifyStep ==
    ASSUME IInv, NEW p \in Workers, NEW signed \in BOOLEAN, Verify(p, signed) PROVE IInv'
<1> DEFINE step == IF signed THEN "capture" ELSE "fail"
           r == [Confirming(payment.id) EXCEPT !.step = step]
<1>1. /\ payment.id \in Attempts /\ payment.id \in 0..MaxAttempts /\ gateway[payment.id] # "none"
      /\ signed => gateway[payment.id] = "paid"
  BY Online DEF Verify, SignatureValid
<1>2. r \in Request /\ r.step = step /\ r.attempt = payment.id
  BY <1>1, ConfirmingIsRequest DEF Request, Steps
<1>3. /\ Begin(p, r)
      /\ UNCHANGED <<rowVars, stockVars, gwVars, moneyVars, taskVars, stockLock, crashes, marks>>
  BY DEF Verify
<1>4. DOMAIN req' = Workers /\ Others(p) /\ req'[p] = r
  BY <1>3, Began
<1>5. Fits(p, req[p])'
  BY <1>1, <1>2, <1>3, <1>4 DEF Fits, gwVars
<1>6. TypeOK' /\ LockKept(p)
  BY <1>3, <1>4 DEF IInv, TypeOK, LockKept, rowVars, stockVars, gwVars, moneyVars, taskVars
<1> QED
  BY <1>3, <1>4, <1>5, <1>6, MoneyUntouched DEF moneyRows, rowVars, gwVars, moneyVars, taskVars

LEMMA WebhookStep ==
    ASSUME IInv, NEW p \in Workers, NEW a \in Attempts, NEW e \in Events, Webhook(p, a, e)
    PROVE  IInv'
<1> DEFINE known == payment.id = a
           step == CASE known /\ e \in {"authorized", "captured"} /\ ~AlreadyCaptured(payment) -> "capture"
                     [] known /\ e = "failed" /\ StillOpen(payment) -> "fail"
                     [] known /\ e = "refunded" /\ NotRefunded(payment) -> "refunded"
                     [] OTHER -> "acknowledge"
           r == [Confirming(a) EXCEPT !.event = e, !.step = step]
<1>1. /\ e \in emitted[a]
      /\ Begin(p, r)
      /\ UNCHANGED <<rowVars, stockVars, gwVars, moneyVars, taskVars, stockLock, crashes, marks>>
  BY DEF Webhook
<1>2. /\ gateway[a] # "none"
      /\ e \in {"authorized", "captured", "refunded"} => gateway[a] = "paid"
  BY <1>1 DEF IInv, GatewayOK
<1>3. /\ step \in {"capture", "fail", "refunded", "acknowledge"}
      /\ step = "capture" => e \in {"authorized", "captured"}
      /\ step = "refunded" => e = "refunded"
  BY DEF Events
<1> HIDE DEF step
<1>4. r \in Request /\ r.step = step /\ r.attempt = a /\ r.event = e
  <2>1. step \in Steps /\ e \in Events \cup {"none"}
    BY <1>3 DEF Steps
  <2>2. Confirming(a) \in Request /\ Confirming(a).attempt = a
    BY ConfirmingIsRequest
  <2> QED
    BY <2>1, <2>2 DEF Request
<1>5. DOMAIN req' = Workers /\ Others(p) /\ req'[p] = r
  BY <1>1, Began
<1>6. Fits(p, req[p])'
  BY <1>1, <1>2, <1>3, <1>4, <1>5 DEF Fits, gwVars
<1>7. TypeOK' /\ LockKept(p)
  BY <1>1, <1>5 DEF IInv, TypeOK, LockKept, rowVars, stockVars, gwVars, moneyVars, taskVars
<1> QED
  BY <1>1, <1>5, <1>6, <1>7, MoneyUntouched DEF moneyRows, rowVars, gwVars, moneyVars, taskVars

\* The mock gateway takes the money as the handler begins.
LEMMA MockPayStep ==
    ASSUME IInv, NEW p \in Workers, MockPay(p) PROVE IInv'
<1> DEFINE r == [Confirming(payment.id) EXCEPT !.step = "capture"]
<1>1. /\ payment \in Payment /\ payment.id \in Attempts /\ payment.id \in 0..MaxAttempts
      /\ gateway[payment.id] # "none" /\ payment.method = "online"
  BY Online DEF MockPay
<1>2. r \in Request /\ r.step = "capture" /\ r.attempt = payment.id
  BY <1>1, ConfirmingIsRequest DEF Request, Steps
<1>3. /\ Begin(p, r)
      /\ gateway' = [gateway EXCEPT ![payment.id] = "paid"]
      /\ UNCHANGED <<rowVars, stockVars, attempts, emitted, processed, moneyVars, taskVars,
                     stockLock, crashes, marks>>
  BY DEF MockPay
<1>4. DOMAIN req' = Workers /\ Others(p) /\ req'[p] = r
  BY <1>3, Began
<1>5. /\ gateway' \in [Attempts -> {"none", "open", "paid"}] /\ gateway'[payment.id] = "paid"
      /\ \A b \in Attempts : /\ gateway[b] = "paid" => gateway'[b] = "paid"
                             /\ gateway[b] # "none" <=> gateway'[b] # "none"
  BY <1>1, <1>3 DEF IInv, TypeOK
<1>6. Fits(p, req[p])'
  BY <1>1, <1>2, <1>4, <1>5 DEF Fits
<1>7. TypeOK'
  BY <1>3, <1>4, <1>5 DEF IInv, TypeOK, rowVars, stockVars, moneyVars, taskVars
<1>8. Grows /\ LockKept(p) /\ RowKept(p)
  <2>1. attempts \in Int /\ debits \in Int
    BY Facts DEF IInv, TypeOK
  <2> QED
    BY <1>3, <1>5, <2>1 DEF Grows, LockKept, RowKept, rowVars, moneyVars
<1>9. GatewayOK'
  BY <1>3, <1>5 DEF IInv, GatewayOK, taskVars
<1>10. PaymentOK' /\ CreditsOK'
  <2>1. Backed(payment)'
    BY <1>1, <1>3, <1>5 DEF IInv, PaymentOK, Backed, StatusFits, rowVars, moneyVars
  <2> QED
    BY <1>1, <1>3, <1>5, <2>1 DEF IInv, PaymentOK, CreditsOK, InWallet, rowVars, moneyVars
<1> QED
  BY <1>4, <1>6, <1>7, <1>8, <1>9, <1>10, OthersFit DEF IInv

\* A capture, a failure or a refund event, written to the row it was read from.
LEMMA PaymentMarked ==
    ASSUME IInv, NEW p \in Workers, NEW STATE s,
           req[p].step \in {"capture", "fail", "refunded"}, RowThere(req[p].attempt),
           s = "failed" \/ (s \in {"success", "refunded"} /\ req[p].step # "fail"),
           SetPayment(s), AfterWrite(p), order' \in OrderStatus,
           marks' \subseteq {"late_assign", "late_capture", "ops_confirmed", "refund_lost"},
           UNCHANGED <<assignment, returned, stockVars, gwVars, moneyVars, taskVars, stockLock, crashes>>
    PROVE  IInv'
<1> DEFINE r == req[p]
<1>1. /\ r \in Request /\ DOMAIN req = Workers /\ r.attempt \in Attempts /\ gateway[r.attempt] # "none"
      /\ r.step # "fail" => gateway[r.attempt] = "paid"
  BY DEF IInv, TypeOK, Fits
<1>2. /\ payment \in Payment /\ payment.id = r.attempt /\ payment.method = "online"
      /\ payment.id <= attempts
  <2>1. payment.id = r.attempt /\ payment # NoPayment
    BY <1>1, Facts DEF RowThere, Attempts
  <2>2. payment \in Payment /\ payment.method = "online"
    BY <1>1, <2>1 DEF IInv, TypeOK, PaymentOK
  <2> QED
    BY <2>1, <2>2 DEF IInv, PaymentOK, Backed
<1>3. /\ payment' \in Payment /\ payment'.id = payment.id /\ payment'.method = "online"
      /\ payment'.status = s /\ s \in {"success", "failed", "refunded"}
  BY <1>2 DEF SetPayment, Payment
<1>4. /\ DOMAIN req' = Workers /\ Others(p) /\ Fits(p, req[p])'
  <2>1. CASE r.event = "none"
    BY <2>1, Returned DEF AfterWrite
  <2>2. CASE r.event # "none"
    <3>1. DOMAIN req' = Workers /\ Others(p) /\ req'[p] = [r EXCEPT !.step = "acknowledge"]
      BY <1>1, <2>2 DEF AfterWrite, Goto, Others
    <3>2. /\ req'[p] \in Request /\ req'[p].step = "acknowledge" /\ req'[p].attempt = r.attempt
          /\ req'[p].event \in Events
      BY <1>1, <2>2, <3>1 DEF Request, Steps
    <3> QED
      BY <1>1, <3>1, <3>2 DEF Fits
  <2> QED
    BY <2>1, <2>2
<1>5. TypeOK'
  <2>1. payment'.status \in StatusOf[payment'.method]
    BY <1>3, StatusOfMethod DEF StatusFits
  <2> QED
    BY <1>3, <1>4, <2>1 DEF IInv, TypeOK, stockVars, gwVars, moneyVars, taskVars
<1>6. Grows /\ LockKept(p) /\ RowKept(p)
  <2>1. attempts \in Int /\ debits \in Int
    BY Facts DEF IInv, TypeOK
  <2> QED
    BY <1>2, <1>3, <2>1 DEF Grows, LockKept, RowKept, gwVars, moneyVars
<1>7. GatewayOK'
  BY DEF IInv, GatewayOK, gwVars, taskVars
<1>8. PaymentOK'
  <2>1. Backed(payment)'
    BY <1>1, <1>2, <1>3 DEF Backed, StatusFits, gwVars
  <2> QED
    BY <1>1, <1>2, <1>3, <2>1 DEF PaymentOK, gwVars
<1>9. CreditsOK'
  BY <1>3 DEF IInv, CreditsOK, InWallet, moneyVars
<1> QED
  BY <1>4, <1>5, <1>6, <1>7, <1>8, <1>9, OthersFit DEF IInv

LEMMA CaptureOrMark ==
    ASSUME IInv, NEW p \in Workers, Capture(p) \/ MarkPayment(p) PROVE IInv'
<1>1. order \in OrderStatus /\ marks \subseteq {"late_assign", "late_capture", "ops_confirmed", "refund_lost"}
  BY DEF IInv, TypeOK
<1>2. CASE Capture(p)
  <2>1. /\ order' \in OrderStatus
        /\ marks' \subseteq {"late_assign", "late_capture", "ops_confirmed", "refund_lost"}
    BY <1>1, <1>2 DEF Capture, OrderStatus
  <2> QED
    BY <1>2, <2>1, PaymentMarked DEF Capture
<1>3. CASE MarkPayment(p)
  <2> DEFINE s == IF req[p].step = "fail" THEN "failed" ELSE "refunded"
  <2>1. s = "failed" \/ (s \in {"success", "refunded"} /\ req[p].step # "fail")
    OBVIOUS
  <2> QED
    BY <1>1, <1>3, <2>1, PaymentMarked DEF MarkPayment
<1> QED
  BY <1>2, <1>3

\* The cancellation's writes: the payment it read is settled and, paid from
\* the wallet, credited; it is still the row it read, or all is rolled back.
LEMMA CancelCommitStep ==
    ASSUME IInv, NEW p \in Workers, CancelCommit(p) PROVE IInv'
<1> DEFINE pay == req[p].payment
           kept == pay.status = Settled(pay.status)
<1>1. /\ req[p] \in Request /\ DOMAIN req = Workers /\ pay \in Payment \cup {NoPayment}
      /\ stockLock = p /\ Backed(pay)
      /\ payment.id = pay.id => payment.method = pay.method /\ (payment.method = "wallet" => payment = pay)
  <2>1. req[p].step = "cancelling" /\ Fits(p, req[p])
    BY DEF CancelCommit, IInv
  <2> QED
    BY <2>1, RequestFields DEF IInv, TypeOK, Fits
<1>2. /\ order' \in OrderStatus /\ assignment' \in AssignmentStatus
      /\ restocked' \in [Lines -> Nat] /\ slotFreed' \in Nat
      /\ stockLock' = None
      /\ UNCHANGED <<returned, gwVars, refunds, debits, lineCredits, taskVars, crashes, marks>>
  <2>1. StoodDown(req[p].assignment) \in AssignmentStatus
    BY <1>1, RequestFields DEF StoodDown, AssignmentStatus
  <2> QED
    BY <2>1 DEF CancelCommit, IInv, TypeOK, OrderStatus
<1>3. IF kept THEN UNCHANGED <<payment, cancelCredits>>
      ELSE /\ payment.id = pay.id /\ SetPayment(Settled(pay.status))
           /\ cancelCredits' = IF InWallet(pay) THEN cancelCredits + 1 ELSE cancelCredits
  BY DEF CancelCommit, Recorded, RowThere, InWallet
<1>4. ~kept => /\ payment \in Payment /\ pay \in Payment /\ payment.method = pay.method
               /\ payment.method = "wallet" => payment = pay
               /\ payment' \in Payment /\ payment'.id = payment.id /\ payment'.method = pay.method
               /\ payment'.status = Settled(pay.status) /\ StatusFits(payment)'
               /\ payment'.status \in {"refunded", "failed"}
               /\ payment'.status = "refunded" => pay.status = "success"
  <2> SUFFICES ASSUME ~kept
               PROVE  /\ payment \in Payment /\ pay \in Payment /\ payment.method = pay.method
                      /\ payment.method = "wallet" => payment = pay
                      /\ payment' \in Payment /\ payment'.id = payment.id /\ payment'.method = pay.method
                      /\ payment'.status = Settled(pay.status) /\ StatusFits(payment)'
                      /\ payment'.status \in {"refunded", "failed"}
                      /\ payment'.status = "refunded" => pay.status = "success"
    OBVIOUS
  <2>1. pay # NoPayment
    BY Facts DEF Settled
  <2>2. pay \in Payment /\ StatusFits(pay) /\ pay.id # 0
    BY <1>1, <2>1, Facts DEF Backed
  <2>3. payment \in Payment /\ payment.method = pay.method /\ (payment.method = "wallet" => payment = pay)
    BY <1>1, <1>3, <2>2, Facts DEF IInv, TypeOK
  <2>4. /\ Settled(pay.status) \in {"refunded", "failed"}
        /\ pay.status = "success" => Settled(pay.status) = "refunded"
        /\ pay.status \in {"created", "pending"} => Settled(pay.status) = "failed"
        /\ pay.status \in {"success", "created", "pending"}
    BY DEF Settled
  <2>5. payment' = [payment EXCEPT !.status = Settled(pay.status)]
    BY <1>3 DEF SetPayment
  <2>6. /\ payment' \in Payment /\ payment'.id = payment.id /\ payment'.method = pay.method
        /\ payment'.status = Settled(pay.status)
    BY <2>3, <2>4, <2>5 DEF Payment
  <2>7. StatusFits(payment)'
    BY <2>2, <2>4, <2>6 DEF StatusFits
  <2> QED
    BY <2>2, <2>3, <2>4, <2>6, <2>7
<1>5. /\ DOMAIN req' = Workers /\ Others(p) /\ Fits(p, req[p])'
  <2>1. CASE Return(p)
    BY <2>1, Returned
  <2>2. CASE OwesGatewayRefund(pay) /\ Goto(p, "enqueue")
    <3>1. DOMAIN req' = Workers /\ Others(p) /\ req'[p] = [req[p] EXCEPT !.step = "enqueue"]
      BY <1>1, <2>2 DEF Goto, Others
    <3>2. req'[p] \in Request /\ req'[p].step = "enqueue" /\ req'[p].payment = pay
      BY <1>1, <3>1 DEF Request, Steps
    <3>3. pay \in Payment /\ gateway[pay.id] = "paid"
      <4>1. pay.status = "success" /\ pay.method # "wallet" /\ pay \in Payment
        BY <1>1, <2>2, Facts DEF OwesGatewayRefund
      <4>2. pay.method = "online"
        BY <1>1, <4>1, Facts DEF Backed, StatusFits
      <4> QED
        BY <1>1, <4>1, <4>2, Facts DEF Backed
    <3> QED
      BY <1>2, <3>1, <3>2, <3>3 DEF Fits, gwVars
  <2> QED
    BY <2>1, <2>2 DEF CancelCommit
<1>6. TypeOK'
  <2>1. /\ payment' \in Payment \cup {NoPayment}
        /\ payment' # NoPayment => payment'.status \in StatusOf[payment'.method]
    <3>1. CASE kept
      BY <1>3, <3>1 DEF IInv, TypeOK
    <3>2. CASE ~kept
      BY <1>4, <3>2, StatusOfMethod DEF StatusFits
    <3> QED
      BY <3>1, <3>2
  <2>2. cancelCredits' \in Nat
    BY <1>3 DEF IInv, TypeOK
  <2> QED
    BY <1>2, <1>5, <2>1, <2>2 DEF IInv, TypeOK, gwVars, taskVars
<1>7. Grows /\ LockKept(p) /\ RowKept(p)
  <2>1. attempts \in Int /\ debits \in Int
    BY Facts DEF IInv, TypeOK
  <2>2. RowKept(p)
    BY <1>1, <1>3, <1>4 DEF RowKept
  <2> QED
    BY <1>1, <1>2, <2>1, <2>2 DEF Grows, LockKept, gwVars
<1>8. GatewayOK'
  BY <1>2 DEF IInv, GatewayOK, gwVars, taskVars
<1>9. PaymentOK' /\ CreditsOK'
  <2>1. CASE kept
    BY <1>2, <1>3, <2>1 DEF IInv, PaymentOK, Backed, CreditsOK, InWallet, gwVars
  <2>2. CASE ~kept
    <3>1. /\ payment \in Payment /\ payment # NoPayment /\ payment' # NoPayment
          /\ payment.id <= attempts /\ payment'.id = pay.id
      BY <1>3, <1>4, <2>2, Facts DEF IInv, PaymentOK, Backed
    <3>2. pay.status = "success" => /\ pay.method = "online" => gateway[pay.id] = "paid"
                                    /\ pay.method = "wallet" => debits > 0
      BY <1>1, <1>4, <2>2, Facts DEF Backed
    <3>3. Backed(payment)'
      BY <1>2, <1>3, <1>4, <2>2, <3>1, <3>2 DEF Backed, gwVars
    <3>4. PaymentOK'
      BY <1>2, <1>3, <1>4, <2>2, <3>1, <3>3 DEF IInv, PaymentOK, gwVars
    <3>5. CreditsOK'
      <4>1. InWallet(pay) => InWallet(payment)
        BY <1>4, <2>2 DEF InWallet
      <4>2. ~InWallet(payment)'
        BY <1>4, <2>2 DEF InWallet
      <4> QED
        BY <1>2, <1>3, <2>2, <4>1, <4>2 DEF IInv, CreditsOK
    <3> QED
      BY <3>4, <3>5
  <2> QED
    BY <2>1, <2>2
<1> QED
  BY <1>5, <1>6, <1>7, <1>8, <1>9, OthersFit DEF IInv

\* The refund's task: queued, started, and what the gateway then does.
LEMMA RefundStep ==
    ASSUME IInv, NEW p \in Workers,
           EnqueueRefund(p) \/ RefundAtGateway(p) \/ \E a \in Attempts : StartRefund(p, a)
    PROVE  IInv'
<1>1. PICK a \in Attempts :
         /\ gateway[a] = "paid"
         /\ \/ EnqueueRefund(p) /\ a = req[p].payment.id
            \/ RefundAtGateway(p) /\ a = req[p].attempt
            \/ StartRefund(p, a)
  <2>1. Fits(p, req[p])
    BY DEF IInv
  <2>2. CASE EnqueueRefund(p)
    BY <2>1, <2>2, Facts DEF Fits, EnqueueRefund
  <2>3. CASE RefundAtGateway(p)
    BY <2>1, <2>3 DEF Fits, RefundAtGateway
  <2>4. CASE \E a \in Attempts : StartRefund(p, a)
    BY <2>4 DEF IInv, GatewayOK, StartRefund
  <2> QED
    BY <2>2, <2>3, <2>4
<1>2. /\ UNCHANGED <<rowVars, stockVars, attempts, gateway, processed, debits, cancelCredits,
                     lineCredits, assignQueued, stockLock, crashes, marks>>
      /\ refundQueued' \in [Attempts -> Nat] /\ refunds' \in [Attempts -> Nat]
      /\ emitted' \in [Attempts -> SUBSET Events]
      /\ \A b \in Attempts \ {a} : refundQueued'[b] = refundQueued[b] /\ emitted'[b] = emitted[b]
  <2>1. /\ refundQueued \in [Attempts -> Nat] /\ refunds \in [Attempts -> Nat]
        /\ emitted \in [Attempts -> SUBSET Events]
    BY DEF IInv, TypeOK
  <2>2. CASE EnqueueRefund(p) /\ a = req[p].payment.id
    BY <2>1, <2>2 DEF EnqueueRefund, gwVars, moneyVars
  <2>3. CASE RefundAtGateway(p) /\ a = req[p].attempt
    <3>1. emitted' = [emitted EXCEPT ![a] = @ \cup (Subscribed \cap {"refunded"})]
      BY <2>3 DEF RefundAtGateway
    <3>2. emitted' \in [Attempts -> SUBSET Events] /\ \A b \in Attempts \ {a} : emitted'[b] = emitted[b]
      BY <2>1, <3>1 DEF Events
    <3> QED
      BY <2>1, <2>3, <3>2 DEF RefundAtGateway, taskVars
  <2>4. CASE StartRefund(p, a)
    <3>1. refundQueued' = [refundQueued EXCEPT ![a] = @ - 1] /\ refundQueued[a] > 0
      BY <2>4 DEF StartRefund
    <3>2. refundQueued' \in [Attempts -> Nat] /\ \A b \in Attempts \ {a} : refundQueued'[b] = refundQueued[b]
      BY <2>1, <3>1
    <3> QED
      BY <2>1, <2>4, <3>2 DEF StartRefund, gwVars, moneyVars
  <2> QED
    BY <1>1, <2>2, <2>3, <2>4
<1>3. /\ DOMAIN req' = Workers /\ Others(p) /\ Fits(p, req[p])'
  <2>1. CASE EnqueueRefund(p) \/ RefundAtGateway(p)
    BY <2>1, Returned DEF EnqueueRefund, RefundAtGateway
  <2>2. CASE StartRefund(p, a)
    <3> DEFINE r == [Rest EXCEPT !.step = "refund", !.attempt = a]
    <3>1. DOMAIN req' = Workers /\ Others(p) /\ req'[p] = r
      BY <2>2, Began DEF StartRefund
    <3>2. a \in 0..MaxAttempts
      BY Facts DEF Attempts
    <3>3. r \in Request /\ r.step = "refund" /\ r.attempt = a
      BY <3>2, RestIsRequest DEF Rest, Request, Steps
    <3> QED
      BY <1>1, <1>2, <3>1, <3>3 DEF Fits
  <2> QED
    BY <1>1, <2>1, <2>2
<1>4. TypeOK'
  BY <1>2, <1>3 DEF IInv, TypeOK, rowVars, stockVars
<1>5. Grows /\ LockKept(p) /\ RowKept(p)
  <2>1. attempts \in Int /\ debits \in Int
    BY Facts DEF IInv, TypeOK
  <2> QED
    BY <1>2, <2>1 DEF Grows, LockKept, RowKept, rowVars
<1>6. GatewayOK'
  BY <1>1, <1>2 DEF IInv, GatewayOK
<1>7. PaymentOK' /\ CreditsOK'
  BY <1>2 DEF IInv, PaymentOK, Backed, CreditsOK, InWallet, rowVars
<1> QED
  BY <1>3, <1>4, <1>5, <1>6, <1>7, OthersFit DEF IInv

-----------------------------------------------------------------------------
LEMMA NextIInv == IInv /\ [Next]_vars => IInv'
<1> SUFFICES ASSUME IInv, [Next]_vars PROVE IInv'
  OBVIOUS
<1>1. CASE \E a \in Attempts : AttemptDeclined(a) \/ CustomerPays(a)
  BY <1>1, GatewayStep
<1>2. ASSUME NEW p \in Workers, Start(p) PROVE IInv'
  BY <1>2, StartPlainly, VerifyStep, MockPayStep DEF Start
<1>3. ASSUME NEW p \in Workers, Task(p) PROVE IInv'
  BY <1>3, StartPlainly, RefundStep DEF Task
<1>4. ASSUME NEW p \in Workers, Continue(p) PROVE IInv'
  BY <1>4, InitiateCommitStep, CaptureOrMark, EndQuietly, SettleStep, CancelCommitStep, RefundStep,
     SaveAssignmentStep, ReturnCommitStep DEF Continue
<1>5. ASSUME NEW p \in Workers, Crash(p) PROVE IInv'
  BY <1>5, EndQuietly
<1>6. ASSUME NEW p \in Workers, NEW a \in Attempts, NEW e \in Events, Webhook(p, a, e) PROVE IInv'
  BY <1>6, WebhookStep
<1>7. CASE UNCHANGED vars
  BY <1>7 DEF vars, rowVars, stockVars, gwVars, moneyVars, taskVars, envVars, IInv, TypeOK, Fits,
              GatewayOK, PaymentOK, Backed, CreditsOK, InWallet
<1> QED
  BY <1>1, <1>2, <1>3, <1>4, <1>5, <1>6, <1>7 DEF Next

\* Whatever the handlers interleave, the rows in their hands stay backed by the
\* gateway and the wallet, and each may rely on what it read as Fits says.
THEOREM Invariance == Spec => []IInv
<1> QED
  BY InitIInv, NextIInv, PTL DEF Spec

\* However many handlers, tasks and webhooks run at once, the rows stay well
\* formed; a cancellation or an event never gives a payment a status that its
\* method has no meaning for (payments.Payment.Status).
THEOREM OrderTypeCorrect == Spec => []TypeOK
<1>1. IInv => TypeOK
  BY DEF IInv
<1> QED
  BY <1>1, Invariance, PTL

\* A payment says SUCCESS or REFUNDED only for money that the gateway or the
\* wallet took, whatever callbacks, webhooks, cancellations and re-initiations
\* overlap (payments/services.capture, mark_refunded; orders perform_cancellation).
THEOREM OrderPaidOnlyIfTaken == Spec => []PaidOnlyIfTaken
<1>1. IInv => PaidOnlyIfTaken
  <2> SUFFICES ASSUME IInv, payment.status \in {"success", "refunded"}
               PROVE  CASE payment.method = "online" -> gateway[payment.id] = "paid"
                        [] payment.method = "wallet" -> debits > 0
                        [] OTHER -> FALSE
    BY DEF PaidOnlyIfTaken
  <2>1. /\ payment \in Payment /\ StatusFits(payment)
        /\ payment.method = "online" => gateway[payment.id] = "paid"
        /\ payment.method = "wallet" => debits > 0
    BY Facts DEF IInv, PaymentOK, Backed
  <2>2. payment.method \in {"wallet", "online"}
    BY <2>1, Facts DEF StatusFits
  <2> QED
    BY <2>1, <2>2
<1> QED
  BY <1>1, Invariance, PTL

\* However many cancellations read the order before one of them commits, the
\* wallet gets back at most what it was debited.
THEOREM OrderCreditedBackOnce == Spec => []CreditedBackOnce
<1>1. IInv => CreditedBackOnce
  BY DEF IInv, CreditsOK, CreditedBackOnce
<1> QED
  BY <1>1, Invariance, PTL

-----------------------------------------------------------------------------
(***************************************************************************)
(* One handler at a time.  With a single worker, handlers run one after    *)
(* the other, as on a server that is not busy; tasks and events still come *)
(* as late as they like, and a handler may die at any step.  SInv says     *)
(* what then holds of the rows between any two steps.                      *)
(***************************************************************************)
OneAtATime == \A p, q \in Workers : p = q

Late == "late_assign" \in marks

Open == {"pending", "confirmed"}

Doing(step) == \E p \in Workers : req[p].step = step

\* The task that refunds an attempt is about to be queued, or runs.
Refunding(a) ==
    \E p \in Workers : \/ req[p].step = "enqueue" /\ req[p].payment.id = a
                       \/ req[p].step = "refund" /\ req[p].attempt = a

OnItsWay(a) == refunds[a] + refundQueued[a] + (IF Refunding(a) THEN 1 ELSE 0)

\* What a handler read is still so at its next step.
StillSo(r) ==
    /\ r.step \in {"initiate", "confirm"} => order = "pending"
    /\ r.step \in {"capture", "fail", "refunded"} => r.order = order
    /\ r.step = "fail" => payment.status # "success"
    /\ r.step = "refunded" => refunds[r.attempt] > 0
    /\ r.step \in {"cancel", "cancelling"} => order \in Open /\ r.assignment = assignment
    /\ r.step \in {"cancelling", "returning"} => r.payment = payment
    /\ r.step = "accept" => assignment = "assigned"
    /\ r.step = "pickup" => assignment \in {"assigned", "accepted"}
    /\ r.step \in {"deliver", "return", "returning", "picked_up"} => assignment = "picked_up"
    /\ r.step = "delivered" => assignment = "delivered"
    /\ r.step = "picked_up" => Late \/ order \in Open
    /\ r.step = "delivered" =>
          Late \/ (order \in Open \cup {"out_for_delivery"} /\ (crashes = 0 => order = "out_for_delivery"))
    /\ r.step \in {"return", "returning"} => r.lines \subseteq Lines \ returned

\* An order is cancelled once, and does not come back to where it could be.
CancelOnce ==
    /\ slotFreed \in {0, 1}
    /\ slotFreed = 1 => order \notin Open
    /\ order = "cancelled" => slotFreed = 1
    /\ Late => slotFreed = 1

\* What the order may say for each thing that the assignment says.
RowsAgree ==
    ~Late =>
        /\ assignment = "none" => order \in Open \cup {"cancelled"}
        /\ assignment \in {"assigned", "accepted"} => order \in Open
        /\ assignment = "picked_up" => order \in Open \cup {"out_for_delivery"}
        /\ assignment = "delivered" => order # "returned"
        /\ assignment = "cancelled" => order = "cancelled"
        /\ assignment = "returned" => order = "returned"
        /\ crashes = 0 =>
              /\ assignment = "picked_up" => order = "out_for_delivery" \/ Doing("picked_up")
              /\ assignment = "delivered" => order = "delivered" \/ Doing("delivered")

StockOK ==
    ~Late =>
        /\ slotFreed = 1 => order = "cancelled"
        /\ order \notin {"delivered", "returned"} => returned = {}
        /\ \A l \in Lines :
              /\ restocked[l] = IF order = "cancelled" \/ l \in returned THEN 1 ELSE 0
              /\ lineCredits[l] <= IF l \in returned THEN 1 ELSE 0

WalletOK ==
    /\ payment.method = "wallet" => order # "pending"
    /\ debits = IF payment.method = "wallet" THEN 1 ELSE 0
    /\ cancelCredits = IF payment.method = "wallet" /\ payment.status = "refunded" THEN 1 ELSE 0
    /\ cancelCredits > 0 => slotFreed = 1

RefundsOK ==
    \A a \in Attempts :
        /\ OnItsWay(a) <= 1
        /\ OnItsWay(a) > 0 => slotFreed = 1 /\ payment.id = a /\ payment.method = "online"
        /\ "refunded" \in emitted[a] => refunds[a] > 0
        /\ payment.id = a /\ payment.method = "online" /\ payment.status = "refunded" /\ crashes = 0 =>
              OnItsWay(a) = 1

CancelledIsVoid ==
    order = "cancelled" /\ "late_capture" \notin marks =>
        payment.status \in {"none", "failed", "refunded"}

SInv ==
    /\ \A p \in Workers : StillSo(req[p])
    /\ CancelOnce /\ RowsAgree /\ StockOK /\ WalletOK /\ RefundsOK
    /\ ConfirmedIsBacked /\ CancelledIsVoid

\* Everything the serial invariant speaks of, but the requests.
serialRows == <<order, payment, assignment, returned, stockVars, refunds, refundQueued, debits,
                cancelCredits, lineCredits, crashes, marks>>

Mid == {"picked_up", "delivered", "enqueue", "refund"}

LEMMA Alone ==
    ASSUME OneAtATime, NEW p \in Workers
    PROVE  /\ \A step : Doing(step) <=> req[p].step = step
           /\ \A step : Doing(step)' <=> req'[p].step = step
           /\ \A a : Refunding(a) <=> \/ req[p].step = "enqueue" /\ req[p].payment.id = a
                                      \/ req[p].step = "refund" /\ req[p].attempt = a
           /\ \A a : Refunding(a)' <=> \/ req'[p].step = "enqueue" /\ req'[p].payment.id = a
                                       \/ req'[p].step = "refund" /\ req'[p].attempt = a
           /\ StillSo(req[p])' => \A q \in Workers : StillSo(req[q])'
  BY DEF OneAtATime, Doing, Refunding

LEMMA InitSInv == Init => SInv
<1> SUFFICES ASSUME Init PROVE SInv
  OBVIOUS
<1>1. \A p \in Workers : StillSo(req[p])
  BY DEF Init, Rest, StillSo
<1>2. CancelOnce /\ RowsAgree /\ StockOK /\ ConfirmedIsBacked /\ CancelledIsVoid
  BY DEF Init, CancelOnce, RowsAgree, StockOK, ConfirmedIsBacked, CancelledIsVoid, Open, Late
<1>3. WalletOK
  BY DEF Init, WalletOK, NoPayment
<1>4. RefundsOK
  BY DEF Init, RefundsOK, OnItsWay, Refunding, Rest, NoPayment
<1> QED
  BY <1>1, <1>2, <1>3, <1>4 DEF SInv

\* A request begins, goes on or ends, its rows as they were.
LEMMA RowsStay ==
    ASSUME OneAtATime, SInv, NEW p \in Workers, UNCHANGED serialRows,
           req[p].step \notin Mid, req'[p].step \notin Mid, StillSo(req[p])',
           \A a \in Attempts : "refunded" \in emitted'[a] => "refunded" \in emitted[a]
    PROVE  SInv'
<1>1. \A a : ~Refunding(a) /\ ~Refunding(a)'
  BY Alone DEF Mid
<1>2. RowsAgree'
  BY Alone DEF SInv, RowsAgree, serialRows, Late, Mid
<1>3. RefundsOK'
  BY <1>1 DEF SInv, RefundsOK, OnItsWay, serialRows, stockVars
<1>4. CancelOnce' /\ StockOK' /\ WalletOK' /\ ConfirmedIsBacked' /\ CancelledIsVoid'
  BY DEF SInv, CancelOnce, StockOK, WalletOK, ConfirmedIsBacked, CancelledIsVoid, serialRows,
         stockVars, Late
<1> QED
  BY <1>2, <1>3, <1>4, Alone DEF SInv

LEMMA GatewaySerial ==
    ASSUME SInv, NEW a \in Attempts, AttemptDeclined(a) \/ CustomerPays(a), TypeOK
    PROVE  SInv'
<1>1. /\ UNCHANGED serialRows /\ req' = req
      /\ \A b \in Attempts : "refunded" \in emitted'[b] => "refunded" \in emitted[b]
  BY DEF AttemptDeclined, CustomerPays, serialRows, rowVars, stockVars, moneyVars, taskVars, envVars,
         TypeOK
<1>2. \A b : Refunding(b)' <=> Refunding(b)
  BY <1>1 DEF Refunding
<1>3. \A step : Doing(step)' <=> Doing(step)
  BY <1>1 DEF Doing
<1>4. \A p \in Workers : StillSo(req[p])'
  BY <1>1 DEF SInv, StillSo, serialRows, Late
<1>5. RowsAgree'
  BY <1>1, <1>3 DEF SInv, RowsAgree, serialRows, Late
<1>6. RefundsOK'
  BY <1>1, <1>2 DEF SInv, RefundsOK, OnItsWay, serialRows, stockVars
<1>7. CancelOnce' /\ StockOK' /\ WalletOK' /\ ConfirmedIsBacked' /\ CancelledIsVoid'
  BY <1>1 DEF SInv, CancelOnce, StockOK, WalletOK, ConfirmedIsBacked, CancelledIsVoid, serialRows,
         stockVars, Late
<1> QED
  BY <1>4, <1>5, <1>6, <1>7 DEF SInv

\* What a handler reads it finds so.
LEMMA BeginSerial ==
    ASSUME OneAtATime, IInv, SInv, NEW p \in Workers,
           \/ Start(p) \/ AutoAssign(p) \/ \E a \in Attempts, e \in Events : Webhook(p, a, e)
    PROVE  SInv'
<1>1. Idle(p) /\ UNCHANGED serialRows /\ emitted' = emitted
  BY DEF Start, Initiate, Verify, MockPay, RiderStarts, ReturnItems, Cancel, ConfirmOrder, AssignRider,
         AutoAssign, Webhook, Begin, serialRows, rowVars, stockVars, gwVars, moneyVars, taskVars
<1>2. req'[p].step \notin Mid /\ StillSo(req[p])'
  <2>1. \A r : Begin(p, r) => req'[p] = r
    BY Began
  <2>2. ASSUME NEW m \in Methods, Initiate(p, m) PROVE req'[p].step \notin Mid /\ StillSo(req[p])'
    BY <1>1, <2>1, <2>2 DEF Initiate, AwaitingPayment, Rest, Mid, StillSo, serialRows
  <2>3. ASSUME NEW signed \in BOOLEAN, Verify(p, signed)
        PROVE  req'[p].step \notin Mid /\ StillSo(req[p])'
    <3>1. /\ req'[p].step = IF signed THEN "capture" ELSE "fail"
          /\ req'[p].order = order /\ payment.status # "success"
      BY <2>1, <2>3 DEF Verify, AlreadyCaptured, Confirming, Rest
    <3> QED
      BY <1>1, <3>1 DEF Mid, StillSo, serialRows
  <2>4. CASE MockPay(p)
    BY <1>1, <2>1, <2>4 DEF MockPay, Confirming, Rest, Mid, StillSo, serialRows
  <2>5. ASSUME NEW step \in {"accept", "pickup", "deliver"}, RiderStarts(p, step)
        PROVE  req'[p].step \notin Mid /\ StillSo(req[p])'
    BY <1>1, <2>1, <2>5 DEF RiderStarts, RiderMayStart, WithRider, Rest, Mid, StillSo, serialRows
  <2>6. ASSUME NEW ls \in SUBSET Lines, ReturnItems(p, ls)
        PROVE  req'[p].step \notin Mid /\ StillSo(req[p])'
    <3>1. /\ req'[p].step = "return" /\ req'[p].lines = ls
          /\ assignment = "picked_up" /\ ls \subseteq Lines \ returned
      BY <2>1, <2>6 DEF ReturnItems, WithRider, Rest
    <3> QED
      BY <1>1, <3>1 DEF Mid, StillSo, serialRows
  <2>7. CASE Cancel(p)
    BY <1>1, <2>1, <2>7 DEF Cancel, Cancellable, Open, Rest, Mid, StillSo, serialRows
  <2>8. CASE ConfirmOrder(p) \/ AssignRider(p) \/ AutoAssign(p)
    BY <1>1, <2>1, <2>8 DEF ConfirmOrder, AwaitingPayment, AssignRider, AutoAssign, Rest, Mid, StillSo,
                            serialRows
  <2>9. ASSUME NEW a \in Attempts, NEW e \in Events, Webhook(p, a, e)
        PROVE  req'[p].step \notin Mid /\ StillSo(req[p])'
    <3>1. e = "refunded" => refunds[a] > 0
      BY <2>9 DEF Webhook, SInv, RefundsOK
    <3> DEFINE r == req'[p]
    <3>2. /\ r.order = order /\ r.attempt = a /\ r.event = e
          /\ r.step \in {"capture", "fail", "refunded", "acknowledge"}
          /\ r.step = "fail" => StillOpen(payment)
          /\ r.step = "refunded" => e = "refunded"
      <4> DEFINE known == payment.id = a
                 step == CASE known /\ e \in {"authorized", "captured"} /\ ~AlreadyCaptured(payment) -> "capture"
                           [] known /\ e = "failed" /\ StillOpen(payment) -> "fail"
                           [] known /\ e = "refunded" /\ NotRefunded(payment) -> "refunded"
                           [] OTHER -> "acknowledge"
      <4>1. /\ step \in {"capture", "fail", "refunded", "acknowledge"}
            /\ step = "fail" => StillOpen(payment)
            /\ step = "refunded" => e = "refunded"
        OBVIOUS
      <4>2. r = [Confirming(a) EXCEPT !.event = e, !.step = step]
        BY <2>1, <2>9 DEF Webhook
      <4>3. r.order = order /\ r.attempt = a /\ r.event = e /\ r.step = step
        BY <4>2 DEF Confirming, Rest
      <4> QED
        BY <4>1, <4>3
    <3> QED
      BY <1>1, <3>1, <3>2 DEF StillOpen, Mid, StillSo, serialRows
  <2> QED
    BY <2>2, <2>3, <2>4, <2>5, <2>6, <2>7, <2>8, <2>9 DEF Start
<1> QED
  BY <1>1, <1>2, RowsStay DEF Idle, Mid

LEMMA AtRest ==
    ASSUME IInv, NEW p \in Workers, Return(p)
    PROVE  req'[p] = Rest /\ req'[p].step = "idle" /\ StillSo(req[p])'
<1>1. req'[p] = Rest
  BY DEF IInv, TypeOK, Return
<1> QED
  BY <1>1 DEF StillSo, Rest

LEMMA EndSerial ==
    ASSUME OneAtATime, IInv, SInv, NEW p \in Workers,
           \/ InitiateRolledBack(p) \/ RowGone(p) \/ Acknowledge(p) \/ CancelRolledBack(p)
           \/ NotAssigned(p) \/ Settle(p)
    PROVE  SInv'
<1>1. UNCHANGED serialRows /\ emitted' = emitted /\ req[p].step \notin Mid
  BY DEF InitiateRolledBack, RowGone, Acknowledge, CancelRolledBack, NotAssigned, Settle, serialRows,
         rowVars, stockVars, gwVars, moneyVars, taskVars, Mid
<1>2. req'[p].step \notin Mid /\ StillSo(req[p])'
  <2>1. CASE Settle(p)
    <3> DEFINE r == req[p]
    <3>1. /\ r.step \in {"cancel", "return"} /\ r \in Request /\ DOMAIN req = Workers
          /\ req' = [req EXCEPT ![p].payment = payment,
                                ![p].step = IF @ = "cancel" THEN "cancelling" ELSE "returning"]
      BY <2>1 DEF Settle, IInv, TypeOK, Fits
    <3>2. /\ req'[p].step = IF r.step = "cancel" THEN "cancelling" ELSE "returning"
          /\ req'[p].payment = payment /\ req'[p].assignment = r.assignment
          /\ req'[p].lines = r.lines /\ req'[p].order = r.order
      BY <3>1 DEF Request
    <3>3. StillSo(r)
      BY DEF SInv
    <3> QED
      BY <1>1, <3>1, <3>2, <3>3 DEF StillSo, Mid, serialRows
  <2>2. CASE Return(p)
    BY <2>2, AtRest DEF Mid
  <2> QED
    BY <2>1, <2>2 DEF InitiateRolledBack, RowGone, Acknowledge, CancelRolledBack, NotAssigned
<1> QED
  BY <1>1, <1>2, RowsStay

\* A worker dies: a refund it carried is lost, and the rider's screens may
\* disagree with the order from then on.
LEMMA CrashSerial ==
    ASSUME OneAtATime, IInv, SInv, NEW p \in Workers, Crash(p)
    PROVE  SInv'
<1>1. /\ UNCHANGED <<order, payment, assignment, returned, stockVars, refunds, refundQueued, debits,
                     cancelCredits, lineCredits, emitted>>
      /\ crashes' > 0 /\ crashes \in Nat
      /\ Late' <=> Late
      /\ "ops_confirmed" \in marks' <=> "ops_confirmed" \in marks
      /\ "late_capture" \in marks' <=> "late_capture" \in marks
  BY DEF Crash, rowVars, gwVars, moneyVars, taskVars, IInv, TypeOK, Late
<1>2. req'[p].step = "idle" /\ StillSo(req[p])'
  BY AtRest DEF Crash
<1>3. RowsAgree'
  BY <1>1 DEF SInv, RowsAgree
<1>4. RefundsOK'
  <2>1. \A a \in Attempts : ~Refunding(a)' /\ refunds[a] \in Nat /\ refundQueued[a] \in Nat
    BY <1>2, Alone DEF IInv, TypeOK
  <2> QED
    BY <1>1, <2>1 DEF SInv, RefundsOK, OnItsWay, stockVars
<1>5. CancelOnce' /\ StockOK' /\ WalletOK' /\ ConfirmedIsBacked' /\ CancelledIsVoid'
  BY <1>1 DEF SInv, CancelOnce, StockOK, WalletOK, ConfirmedIsBacked, CancelledIsVoid, stockVars
<1> QED
  BY <1>2, <1>3, <1>4, <1>5, Alone DEF SInv

\* A new row, for an order that no cancellation has touched.
LEMMA InitiateSerial ==
    ASSUME OneAtATime, IInv, SInv, NEW p \in Workers, InitiateCommit(p)
    PROVE  SInv'
<1> DEFINE method == req[p].method
<1>1. /\ req[p].step = "initiate" /\ order = "pending" /\ slotFreed = 0 /\ ~Late
      /\ method \in {"cod", "online", "wallet"} /\ payment.method # "wallet"
      /\ debits = 0 /\ cancelCredits = 0
  <2>1. StillSo(req[p]) /\ Fits(p, req[p]) /\ req[p].step = "initiate"
    BY DEF SInv, IInv, InitiateCommit
  <2>2. method \in {"cod", "online", "wallet"}
    BY <2>1, RequestFields DEF Fits
  <2> QED
    BY <2>1, <2>2 DEF StillSo, SInv, CancelOnce, WalletOK, Open
<1>2. /\ payment'.method = method /\ payment'.status = FirstStatus(method)
      /\ order' = IF method = "online" THEN order ELSE "confirmed"
      /\ debits' = IF method = "wallet" THEN debits + 1 ELSE debits
      /\ UNCHANGED <<assignment, returned, stockVars, emitted, refunds, cancelCredits, lineCredits,
                     refundQueued, crashes, marks>>
  BY DEF InitiateCommit, taskVars
<1>3. req'[p].step = "idle" /\ StillSo(req[p])'
  BY AtRest DEF InitiateCommit
<1>4. RefundsOK'
  <2>1. \A a \in Attempts : ~Refunding(a) /\ ~Refunding(a)'
    BY <1>1, <1>3, Alone
  <2>2. \A a \in Attempts : OnItsWay(a) = 0 /\ OnItsWay(a)' = 0
    <3>1. \A a \in Attempts : refunds[a] \in Nat /\ refundQueued[a] \in Nat
      BY DEF IInv, TypeOK
    <3> QED
      BY <1>1, <1>2, <2>1, <3>1 DEF SInv, RefundsOK, OnItsWay
  <2>3. \A a \in Attempts : refunds[a] = 0
    BY <1>1, <1>2, <2>1, <2>2 DEF OnItsWay, IInv, TypeOK
  <2>4. payment'.status # "refunded"
    BY <1>1, <1>2 DEF FirstStatus
  <2> QED
    BY <1>2, <2>2, <2>3, <2>4 DEF SInv, RefundsOK
<1>5. RowsAgree'
  BY <1>1, <1>2, <1>3, Alone DEF SInv, RowsAgree, Late, Open
<1>6. CancelOnce' /\ StockOK' /\ CancelledIsVoid'
  BY <1>1, <1>2 DEF SInv, CancelOnce, StockOK, CancelledIsVoid, stockVars, Late, Open
<1>7. WalletOK' /\ ConfirmedIsBacked'
  BY <1>1, <1>2 DEF WalletOK, ConfirmedIsBacked, FirstStatus
<1> QED
  BY <1>3, <1>4, <1>5, <1>6, <1>7, Alone DEF SInv

\* The payment is confirmed, failed or known to be refunded: what the handler
\* read of the order still holds, and a refund was one that was asked for.
LEMMA MarkSerial ==
    ASSUME OneAtATime, IInv, SInv, NEW p \in Workers, Capture(p) \/ MarkPayment(p)
    PROVE  SInv'
<1> DEFINE r == req[p]
<1>1. /\ r.step \in {"capture", "fail", "refunded"} /\ r.order = order
      /\ payment.id = r.attempt /\ r.attempt \in Attempts
      /\ r.step = "fail" => payment.status # "success"
      /\ r.step = "refunded" => refunds[r.attempt] > 0
  BY DEF Capture, MarkPayment, RowThere, SInv, StillSo, IInv, Fits
<1>2. payment \in Payment /\ payment.method = "online"
  <2>1. r.step \in {"capture", "fail", "refunded"} => gateway[r.attempt] # "none"
    BY DEF IInv, Fits
  <2>2. payment # NoPayment
    BY <1>1, Facts DEF Attempts
  <2> QED
    BY <1>1, <2>1, <2>2 DEF IInv, TypeOK, PaymentOK
<1>3. /\ payment'.id = payment.id /\ payment'.method = "online"
      /\ payment'.status = CASE r.step = "capture" -> "success" [] r.step = "fail" -> "failed"
                             [] OTHER -> "refunded"
  BY <1>1, <1>2 DEF Capture, MarkPayment, SetPayment, Payment
<1>4. /\ UNCHANGED <<assignment, returned, stockVars, refunds, refundQueued, debits, cancelCredits,
                     lineCredits, emitted, crashes>>
      /\ order' = IF r.step = "capture" /\ order = "pending" THEN "confirmed" ELSE order
      /\ Late' <=> Late
      /\ "ops_confirmed" \in marks' <=> "ops_confirmed" \in marks
      /\ "late_capture" \in marks => "late_capture" \in marks'
      /\ r.step = "capture" /\ order = "cancelled" => "late_capture" \in marks'
  BY <1>1 DEF Capture, MarkPayment, AwaitingPayment, gwVars, moneyVars, taskVars, IInv, TypeOK, Late
<1>5. req'[p].step \in {"idle", "acknowledge"} /\ StillSo(req[p])'
  <2>1. CASE Return(p)
    BY <2>1, AtRest
  <2>2. CASE Goto(p, "acknowledge")
    <3>1. req'[p].step = "acknowledge"
      BY <2>2 DEF Goto, IInv, TypeOK, Fits, Request
    <3> QED
      BY <3>1 DEF StillSo
  <2> QED
    BY <2>1, <2>2 DEF Capture, MarkPayment, AfterWrite
<1>6. RefundsOK'
  <2>1. \A a \in Attempts : ~Refunding(a) /\ ~Refunding(a)' /\ refunds[a] \in Nat /\ refundQueued[a] \in Nat
    BY <1>1, <1>5, Alone DEF IInv, TypeOK
  <2>2. \A a \in Attempts : OnItsWay(a) = refunds[a] + refundQueued[a] /\ OnItsWay(a)' = OnItsWay(a)
    BY <1>4, <2>1 DEF OnItsWay
  <2>3. payment'.status = "refunded" => OnItsWay(payment.id) = 1
    <3>1. CASE r.step = "refunded"
      <4>1. OnItsWay(r.attempt) <= 1
        BY <1>1 DEF SInv, RefundsOK
      <4> QED
        BY <1>1, <2>1, <2>2, <3>1, <4>1
    <3>2. CASE r.step # "refunded"
      BY <1>1, <1>3, <3>2
    <3> QED
      BY <3>1, <3>2
  <2> QED
    BY <1>2, <1>3, <1>4, <2>2, <2>3 DEF SInv, RefundsOK, stockVars
<1>7. RowsAgree'
  BY <1>1, <1>4, <1>5, Alone DEF SInv, RowsAgree, Open
<1>8. CancelOnce' /\ StockOK' /\ CancelledIsVoid'
  BY <1>1, <1>3, <1>4 DEF SInv, CancelOnce, StockOK, CancelledIsVoid, stockVars, Open
<1>9. WalletOK'
  BY <1>2, <1>3, <1>4 DEF SInv, WalletOK, stockVars
<1>10. ConfirmedIsBacked'
  <2>1. r.step = "refunded" => order \notin Open
    <3>1. \A a \in Attempts : refunds[a] \in Nat /\ refundQueued[a] \in Nat
      BY DEF IInv, TypeOK
    <3> QED
      BY <1>1, <3>1 DEF SInv, RefundsOK, OnItsWay, CancelOnce
  <2> QED
    BY <1>1, <1>2, <1>3, <1>4, <2>1 DEF SInv, ConfirmedIsBacked, Open
<1> QED
  BY <1>5, <1>6, <1>7, <1>8, <1>9, <1>10, Alone DEF SInv

\* The cancellation settles the payment it read, which is the one there is.
LEMMA CancelSerial ==
    ASSUME OneAtATime, IInv, SInv, NEW p \in Workers, CancelCommit(p)
    PROVE  SInv'
<1> DEFINE pay == payment
           kept == pay.status = Settled(pay.status)
<1>1. /\ req[p].step = "cancelling" /\ req[p].payment = payment /\ order \in Open
      /\ req[p].assignment = assignment /\ slotFreed = 0 /\ ~Late
  BY DEF CancelCommit, SInv, StillSo, CancelOnce
<1>2. /\ order' = "cancelled" /\ assignment' = StoodDown(assignment)
      /\ restocked' = [l \in Lines |-> restocked[l] + 1] /\ slotFreed' = 1
      /\ IF kept THEN UNCHANGED payment ELSE SetPayment(Settled(pay.status))
      /\ cancelCredits' = IF ~kept /\ pay.status = "success" /\ pay.method = "wallet"
                            THEN cancelCredits + 1 ELSE cancelCredits
      /\ IF OwesGatewayRefund(pay) THEN Goto(p, "enqueue") ELSE Return(p)
      /\ UNCHANGED <<returned, emitted, refunds, debits, lineCredits, refundQueued, crashes, marks>>
  BY <1>1 DEF CancelCommit, gwVars, taskVars
<1>3. /\ payment \in Payment \cup {NoPayment}
      /\ payment # NoPayment => StatusFits(payment)
      /\ payment.status \in {"none", "created", "pending", "success", "failed", "refunded"}
      /\ payment.method \in {"cod", "online", "wallet"}
  BY Facts DEF IInv, TypeOK, PaymentOK, Backed, Payment
<1>4. /\ payment'.id = payment.id /\ payment'.method = payment.method
      /\ payment'.status = Settled(payment.status)
  <2>1. CASE kept
    BY <1>2, <2>1
  <2>2. CASE ~kept
    <3>1. payment \in Payment
      BY <1>3, <2>2, Facts DEF Settled
    <3> QED
      BY <1>2, <2>2, <3>1 DEF SetPayment, Payment
  <2> QED
    BY <2>1, <2>2
<1>5. /\ ~Refunding(payment.id) /\ \A a \in Attempts : OnItsWay(a) = 0 /\ ~Refunding(a)
      /\ \A a \in Attempts : refunds[a] = 0 /\ refundQueued[a] = 0
  <2>1. /\ \A a \in Attempts : refunds[a] \in Nat /\ refundQueued[a] \in Nat
        /\ ~Refunding(payment.id) /\ \A a \in Attempts : ~Refunding(a)
    BY <1>1, Alone DEF IInv, TypeOK
  <2>2. \A a \in Attempts : OnItsWay(a) = 0
    BY <1>1, <2>1 DEF SInv, RefundsOK, OnItsWay
  <2> QED
    BY <2>1, <2>2 DEF OnItsWay
<1>6. /\ req'[p].step = IF OwesGatewayRefund(payment) THEN "enqueue" ELSE "idle"
      /\ OwesGatewayRefund(payment) => req'[p].payment = payment
      /\ StillSo(req[p])'
  <2>1. CASE OwesGatewayRefund(payment)
    <3>1. req'[p].step = "enqueue" /\ req'[p].payment = payment
      BY <1>1, <1>2, <2>1 DEF Goto, IInv, TypeOK, Fits, Request
    <3> QED
      BY <2>1, <3>1 DEF StillSo
  <2>2. CASE ~OwesGatewayRefund(payment)
    BY <1>2, <2>2, AtRest
  <2> QED
    BY <2>1, <2>2
<1>7. RefundsOK'
  <2>1. \A a \in Attempts :
          Refunding(a)' <=> OwesGatewayRefund(payment) /\ payment.id = a
    <3>1. CASE OwesGatewayRefund(payment)
      BY <1>6, <3>1, Alone
    <3>2. CASE ~OwesGatewayRefund(payment)
      BY <1>6, <3>2, Alone
    <3> QED
      BY <3>1, <3>2
  <2>2. OwesGatewayRefund(payment) => payment.method = "online"
    BY <1>3, Facts DEF OwesGatewayRefund, StatusFits
  <2>3. /\ payment'.status = "refunded" /\ payment.method = "online" /\ crashes = 0
        /\ payment.id \in Attempts
        => OwesGatewayRefund(payment)
    BY <1>3, <1>4, <1>5 DEF Settled, OwesGatewayRefund, SInv, RefundsOK
  <2> QED
    BY <1>2, <1>4, <1>5, <2>1, <2>2, <2>3 DEF SInv, RefundsOK, OnItsWay
<1>8. RowsAgree'
  <2>1. assignment \in AssignmentStatus
    BY DEF IInv, TypeOK
  <2> QED
    BY <1>1, <1>2, <1>6, <2>1, Alone DEF SInv, RowsAgree, Open, Late, StoodDown, AssignmentStatus
<1>9. CancelOnce' /\ StockOK' /\ CancelledIsVoid'
  BY <1>1, <1>2, <1>3, <1>4 DEF SInv, CancelOnce, StockOK, CancelledIsVoid, Settled, Open, Late
<1>10. WalletOK' /\ ConfirmedIsBacked'
  BY <1>1, <1>2, <1>3, <1>4, Facts DEF SInv, WalletOK, ConfirmedIsBacked, Settled, StatusFits
<1> QED
  BY <1>6, <1>7, <1>8, <1>9, <1>10, Alone DEF SInv

\* The refund moves from the handler to the queue, to a task, to the gateway.
LEMMA RefundSerial ==
    ASSUME OneAtATime, IInv, SInv, NEW p \in Workers,
           EnqueueRefund(p) \/ RefundAtGateway(p) \/ \E a \in Attempts : StartRefund(p, a)
    PROVE  SInv'
<1>1. PICK b \in Attempts :
         \/ EnqueueRefund(p) /\ b = req[p].payment.id
         \/ RefundAtGateway(p) /\ b = req[p].attempt
         \/ StartRefund(p, b)
  <2>1. Fits(p, req[p])
    BY DEF IInv
  <2> QED
    BY <2>1, Facts DEF Fits, EnqueueRefund, RefundAtGateway
<1>2. /\ UNCHANGED <<order, payment, assignment, returned, stockVars, debits, cancelCredits,
                     lineCredits, crashes, marks>>
      /\ req[p].step \in {"enqueue", "refund", "idle"} /\ req'[p].step \in {"idle", "refund"}
      /\ StillSo(req[p])'
  <2>1. CASE StartRefund(p, b)
    <3>1. req'[p] = [Rest EXCEPT !.step = "refund", !.attempt = b] /\ req[p].step = "idle"
      BY <2>1, Began DEF StartRefund, Idle, Begin
    <3>2. req'[p].step = "refund"
      BY <3>1 DEF Rest
    <3> QED
      BY <2>1, <3>1, <3>2 DEF StartRefund, StillSo, rowVars, moneyVars
  <2>2. CASE Return(p) /\ (EnqueueRefund(p) \/ RefundAtGateway(p))
    BY <2>2, AtRest DEF EnqueueRefund, RefundAtGateway, rowVars, moneyVars
  <2> QED
    BY <1>1, <2>1, <2>2 DEF EnqueueRefund, RefundAtGateway
<1>3. \A a \in Attempts : OnItsWay(a)' = OnItsWay(a)
  <2>1. /\ refunds \in [Attempts -> Nat] /\ refundQueued \in [Attempts -> Nat]
    BY DEF IInv, TypeOK
  <2>2. CASE EnqueueRefund(p) /\ b = req[p].payment.id
    <3>1. /\ refunds' = refunds /\ refundQueued' = [refundQueued EXCEPT ![b] = @ + 1]
          /\ req[p].step = "enqueue" /\ req'[p].step = "idle"
      BY <2>2, AtRest DEF EnqueueRefund, moneyVars
    <3>2. \A a \in Attempts : ~Refunding(a)' /\ (Refunding(a) <=> a = b)
      BY <2>2, <3>1, Alone
    <3> QED
      BY <2>1, <3>1, <3>2 DEF OnItsWay
  <2>3. CASE RefundAtGateway(p) /\ b = req[p].attempt
    <3>1. /\ refunds' = [refunds EXCEPT ![b] = @ + 1] /\ refundQueued' = refundQueued
          /\ req[p].step = "refund" /\ req'[p].step = "idle"
      BY <2>3, AtRest DEF RefundAtGateway, taskVars
    <3>2. \A a \in Attempts : ~Refunding(a)' /\ (Refunding(a) <=> a = b)
      BY <2>3, <3>1, Alone
    <3> QED
      BY <2>1, <3>1, <3>2 DEF OnItsWay
  <2>4. CASE StartRefund(p, b)
    <3>1. /\ refunds' = refunds /\ refundQueued' = [refundQueued EXCEPT ![b] = @ - 1]
          /\ req[p].step = "idle" /\ req'[p] = [Rest EXCEPT !.step = "refund", !.attempt = b]
      BY <2>4, Began DEF StartRefund, moneyVars, Begin, Idle
    <3>2. req'[p].step = "refund" /\ req'[p].attempt = b
      BY <3>1 DEF Rest
    <3>3. \A a \in Attempts : ~Refunding(a) /\ (Refunding(a)' <=> a = b)
      BY <3>1, <3>2, Alone
    <3> QED
      BY <2>1, <3>1, <3>3 DEF OnItsWay
  <2> QED
    BY <1>1, <2>2, <2>3, <2>4
<1>4. \A a \in Attempts : "refunded" \in emitted'[a] => refunds'[a] > 0
  <2>1. /\ refunds \in [Attempts -> Nat] /\ emitted \in [Attempts -> SUBSET Events]
        /\ \A a \in Attempts : "refunded" \in emitted[a] => refunds[a] > 0
    BY DEF IInv, TypeOK, SInv, RefundsOK
  <2>2. CASE RefundAtGateway(p) /\ b = req[p].attempt
    <3>1. /\ refunds' = [refunds EXCEPT ![b] = @ + 1]
          /\ emitted' = [emitted EXCEPT ![b] = @ \cup (Subscribed \cap {"refunded"})]
      BY <2>2 DEF RefundAtGateway
    <3>2. \A a \in Attempts : a = b => refunds'[a] > 0
      BY <2>1, <3>1
    <3>3. \A a \in Attempts : a # b => refunds'[a] = refunds[a] /\ emitted'[a] = emitted[a]
      BY <2>1, <3>1
    <3> QED
      BY <2>1, <3>2, <3>3
  <2>3. CASE EnqueueRefund(p) \/ StartRefund(p, b)
    BY <2>1, <2>3 DEF EnqueueRefund, StartRefund, gwVars, moneyVars
  <2> QED
    BY <1>1, <2>2, <2>3
<1>5. RefundsOK'
  BY <1>2, <1>3, <1>4 DEF SInv, RefundsOK, stockVars
<1>6. RowsAgree'
  BY <1>2, Alone DEF SInv, RowsAgree, Late
<1>7. CancelOnce' /\ StockOK' /\ WalletOK' /\ ConfirmedIsBacked' /\ CancelledIsVoid'
  BY <1>2 DEF SInv, CancelOnce, StockOK, WalletOK, ConfirmedIsBacked, CancelledIsVoid, stockVars, Late
<1> QED
  BY <1>2, <1>5, <1>6, <1>7, Alone DEF SInv

\* Ops confirm by hand, a rider is assigned, the order follows its rider.
LEMMA OrderOrRider ==
    ASSUME OneAtATime, IInv, SInv, NEW p \in Workers,
           ConfirmSave(p) \/ CreateAssignment(p) \/ SaveAssignment(p) \/ SaveOrder(p)
    PROVE  SInv'
<1> DEFINE r == req[p]
<1>1. /\ UNCHANGED <<payment, returned, stockVars, refunds, refundQueued, debits, cancelCredits,
                     lineCredits, emitted, crashes>>
      /\ Late => Late'
      /\ "late_capture" \in marks' <=> "late_capture" \in marks
      /\ r.step \notin {"enqueue", "refund"}
      /\ StillSo(r) /\ r \in Request /\ DOMAIN req = Workers
      /\ order \in OrderStatus /\ assignment \in AssignmentStatus
  BY DEF ConfirmSave, CreateAssignment, SaveAssignment, SaveOrder, gwVars, moneyVars, taskVars, IInv,
         TypeOK, SInv, Fits, Late
<1>2. /\ req'[p].step \in {"idle", "picked_up", "delivered"}
      /\ ~SaveAssignment(p) => req'[p].step = "idle" /\ StillSo(req[p])'
  <2>1. Return(p) => req'[p].step = "idle" /\ StillSo(req[p])'
    BY AtRest
  <2>2. \A s \in {"picked_up", "delivered"} : Goto(p, s) => req'[p].step = s
    BY <1>1 DEF Goto, Request
  <2> QED
    BY <2>1, <2>2 DEF ConfirmSave, CreateAssignment, SaveAssignment, SaveOrder
<1>3. RefundsOK'
  <2>1. \A a : ~Refunding(a) /\ ~Refunding(a)'
    BY <1>1, <1>2, Alone
  <2> QED
    BY <1>1, <2>1 DEF SInv, RefundsOK, OnItsWay, stockVars
<1>4. /\ StillSo(req[p])' /\ RowsAgree'
      /\ ~Late => \/ order' = order
                  \/ order \in Open /\ order' # "cancelled"
                  \/ order = "out_for_delivery" /\ order' = "delivered"
      /\ order' # order => order' \notin {"pending", "cancelled"}
      /\ order' = "confirmed" => order = "confirmed" \/ (order = "pending" /\ "ops_confirmed" \in marks')
      /\ "ops_confirmed" \in marks => "ops_confirmed" \in marks'
      /\ ~Late /\ Late' => order = "cancelled"
      /\ order' = "returned" => order = "returned"
  <2>1. CASE ConfirmSave(p)
    <3>1. /\ r.step = "confirm" /\ order = "pending" /\ order' = "confirmed" /\ assignment' = assignment
          /\ marks' = marks \cup {"ops_confirmed"} /\ req'[p].step = "idle" /\ StillSo(req[p])'
      BY <1>1, <1>2, <2>1 DEF ConfirmSave, SaveAssignment, StillSo
    <3> QED
      BY <1>1, <3>1, Alone DEF SInv, RowsAgree, Late, Open
  <2>2. CASE CreateAssignment(p)
    <3>1. /\ r.step = "assign" /\ order' = order /\ assignment = "none" /\ assignment' = "assigned"
          /\ marks' = marks \cup (IF order = "cancelled" THEN {"late_assign"} ELSE {})
          /\ req'[p].step = "idle" /\ StillSo(req[p])'
      BY <1>2, <2>2 DEF CreateAssignment, SaveAssignment
    <3> QED
      BY <1>1, <3>1, Alone DEF SInv, RowsAgree, Late, Open
  <2>3. CASE SaveAssignment(p)
    <3>1. /\ UNCHANGED <<order, marks>> /\ r.step \in {"accept", "pickup", "deliver"}
          /\ r.step = "accept" => assignment' = "accepted" /\ Return(p)
          /\ r.step = "pickup" => assignment' = "picked_up" /\ Goto(p, "picked_up")
          /\ r.step = "deliver" => assignment' = "delivered" /\ Goto(p, "delivered")
      BY <2>3 DEF SaveAssignment
    <3>2. \A s \in {"picked_up", "delivered"} : Goto(p, s) => req'[p].step = s
      BY <1>1 DEF Goto, Request
    <3>3. CASE r.step = "accept"
      BY <1>1, <3>1, <3>3, AtRest, Alone DEF SInv, StillSo, RowsAgree, Late, Open
    <3>4. CASE r.step = "pickup"
      BY <1>1, <3>1, <3>2, <3>4, Alone DEF SInv, StillSo, RowsAgree, Late, Open
    <3>5. CASE r.step = "deliver"
      BY <1>1, <3>1, <3>2, <3>5, Alone DEF SInv, StillSo, RowsAgree, Late, Open
    <3> QED
      BY <3>1, <3>3, <3>4, <3>5
  <2>4. CASE SaveOrder(p)
    <3>1. /\ r.step \in {"picked_up", "delivered"} /\ UNCHANGED <<assignment, marks>>
          /\ order' = IF r.step = "picked_up" THEN "out_for_delivery" ELSE "delivered"
          /\ req'[p].step = "idle" /\ StillSo(req[p])'
      BY <1>2, <2>4 DEF SaveOrder, SaveAssignment
    <3> QED
      BY <1>1, <3>1, Alone DEF SInv, StillSo, RowsAgree, Late, Open
  <2> QED
    BY <2>1, <2>2, <2>3, <2>4
<1>5. CancelOnce'
  BY <1>1, <1>4 DEF SInv, CancelOnce, Open, stockVars
<1>6. StockOK'
  BY <1>1, <1>4 DEF SInv, StockOK, Open, stockVars
<1>7. WalletOK' /\ ConfirmedIsBacked' /\ CancelledIsVoid'
  BY <1>1, <1>4 DEF SInv, WalletOK, ConfirmedIsBacked, CancelledIsVoid, stockVars
<1> QED
  BY <1>3, <1>4, <1>5, <1>6, <1>7, Alone DEF SInv

\* Items are refused at the door: the rider has them, so they are not back yet.
LEMMA ReturnSerial ==
    ASSUME OneAtATime, IInv, SInv, NEW p \in Workers, ReturnCommit(p)
    PROVE  SInv'
<1> DEFINE r == req[p]
           Once(f) == [l \in Lines |-> IF l \in r.lines THEN f[l] + 1 ELSE f[l]]
<1>1. /\ r.step = "returning" /\ assignment = "picked_up" /\ r.lines \subseteq Lines \ returned
      /\ slotFreed \in {0, 1}
      /\ ~Late => order \in Open \cup {"out_for_delivery"} /\ slotFreed = 0
  BY DEF ReturnCommit, SInv, StillSo, RowsAgree, CancelOnce, StockOK, Open
<1>2. /\ returned' = returned \cup r.lines /\ restocked' = Once(restocked)
      /\ lineCredits' = Once(lineCredits) \/ lineCredits' = lineCredits
      /\ \/ order' = "returned" /\ assignment' = "returned"
         \/ order' = "delivered" /\ assignment' = "delivered"
      /\ UNCHANGED <<payment, slotFreed, emitted, refunds, refundQueued, debits, cancelCredits,
                     crashes, marks>>
  BY DEF ReturnCommit, gwVars, taskVars
<1>3. req'[p].step = "idle" /\ StillSo(req[p])'
  BY AtRest DEF ReturnCommit
<1>4. RefundsOK'
  <2>1. \A a : ~Refunding(a) /\ ~Refunding(a)'
    BY <1>1, <1>3, Alone
  <2> QED
    BY <1>2, <2>1 DEF SInv, RefundsOK, OnItsWay
<1>5. StockOK'
  <2> SUFFICES ASSUME ~Late PROVE StockOK'
    BY <1>2 DEF StockOK, Late
  <2>1. \A l \in Lines : restocked[l] = IF l \in returned THEN 1 ELSE 0
    BY <1>1 DEF SInv, StockOK, Open
  <2>2. \A l \in Lines : lineCredits[l] \in Nat /\ lineCredits[l] <= IF l \in returned THEN 1 ELSE 0
    BY DEF SInv, StockOK, IInv, TypeOK
  <2>3. \A l \in Lines : restocked'[l] = IF l \in returned' THEN 1 ELSE 0
    BY <1>1, <1>2, <2>1
  <2>4. \A l \in Lines : lineCredits'[l] <= IF l \in returned' THEN 1 ELSE 0
    BY <1>1, <1>2, <2>2
  <2>5. slotFreed' = 0 /\ order' # "cancelled" /\ order' \in {"delivered", "returned"}
    BY <1>1, <1>2
  <2> QED
    BY <2>3, <2>4, <2>5 DEF StockOK
<1>6. RowsAgree'
  BY <1>2 DEF RowsAgree, Open
<1>7. CancelOnce' /\ WalletOK' /\ ConfirmedIsBacked' /\ CancelledIsVoid'
  BY <1>2 DEF SInv, CancelOnce, WalletOK, ConfirmedIsBacked, CancelledIsVoid, Open, Late
<1> QED
  BY <1>3, <1>4, <1>5, <1>6, <1>7, Alone DEF SInv

LEMMA NextSInv == OneAtATime /\ IInv /\ SInv /\ [Next]_vars => SInv'
<1> SUFFICES ASSUME OneAtATime, IInv, SInv, [Next]_vars PROVE SInv'
  OBVIOUS
<1>1. CASE \E a \in Attempts : AttemptDeclined(a) \/ CustomerPays(a)
  BY <1>1, GatewaySerial DEF IInv
<1>2. ASSUME NEW p \in Workers, Start(p) PROVE SInv'
  BY <1>2, BeginSerial
<1>3. ASSUME NEW p \in Workers, Task(p) PROVE SInv'
  BY <1>3, BeginSerial, RefundSerial DEF Task
<1>4. ASSUME NEW p \in Workers, Continue(p) PROVE SInv'
  BY <1>4, InitiateSerial, MarkSerial, EndSerial, CancelSerial, RefundSerial, OrderOrRider,
     ReturnSerial DEF Continue
<1>5. ASSUME NEW p \in Workers, Crash(p) PROVE SInv'
  BY <1>5, CrashSerial
<1>6. ASSUME NEW p \in Workers, NEW a \in Attempts, NEW e \in Events, Webhook(p, a, e) PROVE SInv'
  BY <1>6, BeginSerial
<1>7. CASE UNCHANGED vars
  <2>1. UNCHANGED <<serialRows, req, emitted>>
    BY <1>7 DEF vars, rowVars, stockVars, gwVars, moneyVars, taskVars, envVars, serialRows
  <2>2. \A q \in Workers : StillSo(req[q])'
    BY <2>1 DEF SInv, StillSo, serialRows, Late
  <2>3. (\A a : Refunding(a)' <=> Refunding(a)) /\ (\A step : Doing(step)' <=> Doing(step))
    BY <2>1 DEF Refunding, Doing
  <2>4. RowsAgree' /\ RefundsOK'
    BY <2>1, <2>3 DEF SInv, RowsAgree, RefundsOK, OnItsWay, serialRows, stockVars, Late
  <2>5. CancelOnce' /\ StockOK' /\ WalletOK' /\ ConfirmedIsBacked' /\ CancelledIsVoid'
    BY <2>1 DEF SInv, CancelOnce, StockOK, WalletOK, ConfirmedIsBacked, CancelledIsVoid, serialRows,
                stockVars, Late
  <2> QED
    BY <2>2, <2>4, <2>5 DEF SInv
<1> QED
  BY <1>1, <1>2, <1>3, <1>4, <1>5, <1>6, <1>7 DEF Next

\* Handlers that run one after the other find what they read as they read it,
\* and leave the order, its rider, its stock and its money in step.
THEOREM SerialInvariance == ASSUME OneAtATime PROVE Spec => [](IInv /\ SInv)
<1>1. Init => IInv /\ SInv
  BY InitIInv, InitSInv
<1>2. (IInv /\ SInv) /\ [Next]_vars => (IInv /\ SInv)'
  BY NextIInv, NextSInv
<1> QED
  BY <1>1, <1>2, PTL DEF Spec

\* The stock and the slot of an order go back once at most, whatever dies on
\* the way (orders.perform_cancellation, delivery.return_order).
THEOREM OrderReturnedOnce == ASSUME OneAtATime PROVE Spec => []ReturnedOnce
<1>1. SInv => ReturnedOnce
  BY DEF SInv, CancelOnce, StockOK, ReturnedOnce, Late
<1> QED
  BY <1>1, SerialInvariance, PTL

\* No item's value comes back twice, by the wallet, by a credit at the door or
\* by the gateway, refunds still in the queue included.
THEOREM OrderPaidBackOnce == ASSUME OneAtATime PROVE Spec => []PaidBackOnce
<1>1. IInv /\ SInv => PaidBackOnce
  <2> SUFFICES ASSUME IInv, SInv, ~Late, NEW l \in Lines, NEW a \in Attempts
               PROVE  cancelCredits + lineCredits[l] + refunds[a] + refundQueued[a] <= 1
    BY DEF PaidBackOnce, Late
  <2>1. /\ cancelCredits \in Nat /\ lineCredits[l] \in Nat
        /\ refunds[a] \in Nat /\ refundQueued[a] \in Nat
    BY DEF IInv, TypeOK
  <2>2. refunds[a] + refundQueued[a] <= OnItsWay(a)
    BY <2>1 DEF OnItsWay
  <2>3. /\ lineCredits[l] <= 1 /\ cancelCredits <= 1 /\ OnItsWay(a) <= 1
        /\ slotFreed = 1 => lineCredits[l] = 0
        /\ slotFreed \in {0, 1}
    BY <2>1 DEF SInv, StockOK, WalletOK, RefundsOK, CancelOnce
  <2>4. /\ cancelCredits > 0 => slotFreed = 1 /\ payment.method = "wallet"
        /\ OnItsWay(a) > 0 => slotFreed = 1 /\ payment.method = "online"
    BY DEF SInv, WalletOK, RefundsOK
  <2>5. OnItsWay(a) \in Nat
    BY <2>1 DEF OnItsWay
  <2> HIDE DEF OnItsWay
  <2> QED
    BY <2>1, <2>2, <2>3, <2>4, <2>5
<1> QED
  BY <1>1, SerialInvariance, PTL

\* What was captured of a cancelled order is on its way back by the route it
\* came, and once (orders.perform_cancellation, payments.process_refund).
THEOREM OrderCancelledIsSettled == ASSUME OneAtATime PROVE Spec => []CancelledIsSettled
<1>1. IInv /\ SInv => CancelledIsSettled
  <2> SUFFICES ASSUME IInv, SInv, Quiet, order = "cancelled", "late_capture" \notin marks,
                      payment.status \notin {"none", "failed"}
               PROVE  /\ payment.status = "refunded"
                      /\ IF payment.method = "wallet" THEN cancelCredits = debits
                         ELSE refunds[payment.id] + refundQueued[payment.id] = 1
    BY DEF CancelledIsSettled
  <2>1. payment.status = "refunded"
    BY DEF SInv, CancelledIsVoid
  <2>2. CASE payment.method = "wallet"
    BY <2>1, <2>2 DEF SInv, WalletOK
  <2>3. CASE payment.method # "wallet"
    <3>1. payment.id \in Attempts /\ payment.method = "online"
      BY <2>1, <2>3, Facts DEF IInv, PaymentOK, Backed, StatusFits
    <3>2. OnItsWay(payment.id) = 1
      BY <2>1, <3>1 DEF Quiet, SInv, RefundsOK
    <3>3. ~Refunding(payment.id)
      BY DEF Quiet, Idle, Refunding
    <3>4. refunds[payment.id] \in Nat /\ refundQueued[payment.id] \in Nat
      BY <3>1 DEF IInv, TypeOK
    <3> QED
      BY <2>1, <2>3, <3>2, <3>3, <3>4 DEF OnItsWay
  <2> QED
    BY <2>1, <2>2, <2>3
<1> QED
  BY <1>1, SerialInvariance, PTL

\* No failed attempt and no late or repeated event leaves a confirmed order
\* without its money (payments.capture, mark_failed, mark_refunded).
THEOREM OrderConfirmedIsBacked == ASSUME OneAtATime PROVE Spec => []ConfirmedIsBacked
<1>1. SInv => ConfirmedIsBacked
  BY DEF SInv
<1> QED
  BY <1>1, SerialInvariance, PTL

\* Between handlers the rider's screens and the customer's say the same, in
\* spite of the two saves that pick-up and delivery make.
THEOREM OrderAssignmentAgrees == ASSUME OneAtATime PROVE Spec => []AssignmentAgrees
<1>1. IInv /\ SInv => AssignmentAgrees
  <2> SUFFICES ASSUME IInv, SInv, Quiet, ~Late
               PROVE  /\ assignment = "picked_up" <=> order = "out_for_delivery"
                      /\ assignment = "delivered" <=> order = "delivered"
                      /\ assignment = "returned" <=> order = "returned"
                      /\ order = "cancelled" => assignment \in {"none", "cancelled"}
                      /\ assignment = "cancelled" => order = "cancelled"
    BY DEF AssignmentAgrees, Late
  <2>1. crashes = 0 /\ ~Doing("picked_up") /\ ~Doing("delivered")
    BY DEF Quiet, Idle, Doing
  <2>2. assignment \in AssignmentStatus /\ order \in OrderStatus
    BY DEF IInv, TypeOK
  <2> QED
    BY <2>1, <2>2 DEF SInv, RowsAgree, Open, AssignmentStatus, OrderStatus
<1> QED
  BY <1>1, SerialInvariance, PTL

\* No handler moves an order back, or out of a final status: each has looked
\* at the status before it writes, and nothing ran in between.
THEOREM OrderForwardOnly == ASSUME OneAtATime PROVE Spec => ForwardOnly
<1> DEFINE Forward == order' # order => Stage(order') > Stage(order) \/ "late_assign" \in marks
<1>1. IInv /\ SInv /\ [Next]_vars => [Forward]_vars
  <2> SUFFICES ASSUME IInv, SInv, Next, order' # order, ~Late
               PROVE  Stage(order') > Stage(order)
    BY DEF Late, vars, rowVars
  <2>1. PICK p \in Workers : \/ InitiateCommit(p) \/ Capture(p) \/ CancelCommit(p) \/ ConfirmSave(p)
                             \/ SaveOrder(p) \/ ReturnCommit(p)
    BY DEF Next, Start, Task, Continue, AttemptDeclined, CustomerPays, Initiate, Verify, MockPay,
           RiderStarts, ReturnItems, Cancel, ConfirmOrder, AssignRider, AutoAssign, StartRefund,
           InitiateRolledBack, MarkPayment, RowGone, Acknowledge, Settle, CancelRolledBack,
           EnqueueRefund, RefundAtGateway, CreateAssignment, NotAssigned, SaveAssignment, Crash,
           Webhook, rowVars
  <2>2. StillSo(req[p]) /\ order \in OrderStatus /\ crashes \in Nat
    BY DEF SInv, IInv, TypeOK
  <2>3. CASE InitiateCommit(p) \/ ConfirmSave(p)
    BY <2>2, <2>3 DEF InitiateCommit, ConfirmSave, StillSo, Stage
  <2>4. CASE Capture(p)
    BY <2>2, <2>4 DEF Capture, AwaitingPayment, StillSo, Stage
  <2>5. CASE CancelCommit(p)
    BY <2>2, <2>5 DEF CancelCommit, StillSo, Open, Stage
  <2>6. CASE SaveOrder(p)
    BY <2>2, <2>6 DEF SaveOrder, StillSo, Open, Stage
  <2>7. CASE ReturnCommit(p)
    <3>1. assignment = "picked_up" /\ order \in Open \cup {"out_for_delivery"}
      BY <2>2, <2>7 DEF ReturnCommit, StillSo, SInv, RowsAgree
    <3> QED
      BY <2>7, <3>1 DEF ReturnCommit, Open, Stage
  <2> QED
    BY <2>1, <2>3, <2>4, <2>5, <2>6, <2>7
<1> QED
  BY <1>1, SerialInvariance, PTL DEF Spec, ForwardOnly

=============================================================================

------------------------------- MODULE Wallet -------------------------------
(***************************************************************************)
(* Wallet money (apps/wallet) and the top-ups that feed it: the row-locked *)
(* Wallet._apply, the requests that call it, the client's verify callback  *)
(* and the gateway's webhooks (apps/payments), which race to confirm the   *)
(* same top-up.                                                            *)
(*                                                                         *)
(* A worker executes one request at a time.  A request is cut where it     *)
(* goes to the database: what it read is kept in its record and may be     *)
(* stale when it writes.  Statements outside transaction.atomic() commit   *)
(* one by one; an atomic block holds its row locks to the end.             *)
(***************************************************************************)
EXTENDS Integers, Sequences, FiniteSets

CONSTANTS
    Wallets,        \* wallet rows
    Topups,         \* WalletTopup rows that may be created
    Workers,        \* requests the server can execute at once
    OwnerOf,        \* the wallet each top-up is for
    TopupAmount,    \* rupees of a top-up
    Amounts,        \* rupees an order may cost or a refund may return
    MaxEntries,     \* bound: no new spend, refund or verify beyond it
    MaxCrashes,     \* bound: requests that die before they finish
    MockGateway,    \* settings.PAYMENT_GATEWAY = "mock"
    None            \* no top-up, no worker, no event

ASSUME WalletAssumption ==
    /\ Wallets # {} /\ Wallets \cap Topups = {}
    /\ OwnerOf \in [Topups -> Wallets]
    /\ TopupAmount \in Nat \ {0}
    /\ Amounts \subseteq Nat \ {0}
    /\ MaxEntries \in Nat
    /\ MaxCrashes \in Nat
    /\ MockGateway \in BOOLEAN
    /\ None \notin Topups \cup Workers \cup {"authorized", "captured", "failed"}

VARIABLES
    balance,        \* Wallet.balance
    txns,           \* WalletTransaction rows of each wallet, oldest first
    status,         \* WalletTopup.status, "none" before the row exists
    gateway,        \* the gateway order of a top-up, at the gateway
    emitted,        \* events the gateway has to deliver for a top-up
    processed,      \* events whose PaymentWebhookEvent row says processed
    req,            \* what each worker is executing
    rowLock,        \* the worker that holds a row, Wallets and Topups
    crashes,
    credits,        \* history: credits posted for a top-up
    overlapped,     \* history: two confirmations of a top-up ran at once
    lost            \* history: a request died between SUCCESS and the credit

walletVars  == <<balance, txns, status>>
gatewayVars == <<gateway, emitted>>
historyVars == <<crashes, credits, overlapped, lost>>
vars == <<walletVars, gatewayVars, processed, req, rowLock, historyVars>>

Events == {"authorized", "captured", "failed"}

Types == {"topup", "debit", "refund"}

(***************************************************************************)
(* A request: where it stands, the top-up and the event it is about, and   *)
(* the posting it makes.                                                   *)
(***************************************************************************)
Steps == {"idle",
          "verify_save", "verify_fail",             \* wallet_topup_verify
          "dispatch", "mark_failed", "finish",      \* webhook
          "capture_apply",                          \* _capture_topup's block
          "apply", "locked"}                        \* Wallet._apply

Request == [step : Steps, topup : Topups \cup {None}, event : Events \cup {None},
            wallet : Wallets, type : Types, delta : Int, read : Nat]

Rest == [step |-> "idle", topup |-> None, event |-> None,
         wallet |-> CHOOSE w \in Wallets : TRUE,
         type |-> "topup", delta |-> 0, read |-> 0]

Idle(p) == req[p].step = "idle"

Goto(p, step) == req' = [req EXCEPT ![p].step = step]

Return(p) == req' = [req EXCEPT ![p] = Rest]

\* A request that confirms or fails top-up t; another one about t overlaps it.
About(t) == [Rest EXCEPT !.topup = t, !.wallet = OwnerOf[t], !.delta = TopupAmount]

InFlight(t) == {p \in Workers : req[p].topup = t}

NoteOverlap(t) == overlapped' = [overlapped EXCEPT ![t] = @ \/ InFlight(t) # {}]

(***************************************************************************)
(* The decisions the requests rest on, each after a fault it could have.   *)
(***************************************************************************)
SignatureIgnored(t) == TRUE

\* Only a payment the gateway took yields a signature that verifies.
SignatureValid(t) == gateway[t] = "paid"

CapturedIgnored(t) == FALSE

FailedIsFinal(t) == status[t] \in {"success", "failed"}

AlreadyCaptured(t) == status[t] = "success"

LockNotTaken(r) == TRUE

\* SELECT ... FOR UPDATE and UPDATE wait for the holder of the row.
RowFree(r) == rowLock[r] = None

Overdraft(new) == TRUE

Affordable(new) == new >= 0

AmountSigned(r, new) == [type |-> r.type, amount |-> r.delta, after |-> new]

\* The ledger row stores the magnitude; the type says which way it went.
LedgerRow(r, new) ==
    [type |-> r.type, amount |-> IF r.delta < 0 THEN -r.delta ELSE r.delta, after |-> new]

-----------------------------------------------------------------------------
Init ==
    /\ balance = [w \in Wallets |-> 0]
    /\ txns = [w \in Wallets |-> <<>>]
    /\ status = [t \in Topups |-> "none"]
    /\ gateway = [t \in Topups |-> "none"]
    /\ emitted = [t \in Topups |-> {}]
    /\ processed = [t \in Topups |-> {}]
    /\ req = [p \in Workers |-> Rest]
    /\ rowLock = [r \in Wallets \cup Topups |-> None]
    /\ crashes = 0
    /\ credits = [t \in Topups |-> 0]
    /\ overlapped = [t \in Topups |-> FALSE]
    /\ lost = [t \in Topups |-> FALSE]

-----------------------------------------------------------------------------
(***************************************************************************)
(* Top-up creation (wallet_topup) and the gateway.                         *)
(***************************************************************************)

\* The row is created before the gateway is asked for an order.
CreateTopup(t) ==
    /\ status[t] = "none"
    /\ status' = [status EXCEPT ![t] = "created"]
    /\ UNCHANGED <<balance, txns, gatewayVars, processed, req, rowLock, historyVars>>

\* The gateway order exists and its id is saved; only now can it be paid.
LinkTopup(t) ==
    /\ status[t] = "created"
    /\ gateway[t] = "none"
    /\ gateway' = [gateway EXCEPT ![t] = "open"]
    /\ UNCHANGED <<walletVars, emitted, processed, req, rowLock, historyVars>>

\* External: an attempt to pay is declined; the order stays payable.
AttemptDeclined(t) ==
    /\ gateway[t] = "open"
    /\ "failed" \notin emitted[t]
    /\ emitted' = [emitted EXCEPT ![t] = @ \cup {"failed"}]
    /\ UNCHANGED <<walletVars, gateway, processed, req, rowLock, historyVars>>

\* External: the customer pays; the gateway emits two events about it.
CustomerPays(t) ==
    /\ gateway[t] = "open"
    /\ gateway' = [gateway EXCEPT ![t] = "paid"]
    /\ emitted' = [emitted EXCEPT ![t] = @ \cup {"authorized", "captured"}]
    /\ UNCHANGED <<walletVars, processed, req, rowLock, historyVars>>

-----------------------------------------------------------------------------
(***************************************************************************)
(* wallet_topup_verify: the client's callback.  A top-up already SUCCESS   *)
(* is answered at once, so the request only exists when it read something  *)
(* else.  The status is saved, and committed, before the credit starts.    *)
(***************************************************************************)
Verify(p, t, signed) ==
    /\ Idle(p)
    /\ gateway[t] # "none"
    /\ signed => SignatureValid(t)
    /\ ~AlreadyCaptured(t)
    /\ Len(txns[OwnerOf[t]]) < MaxEntries
    /\ req' = [req EXCEPT ![p] =
                 [About(t) EXCEPT !.step = IF signed THEN "verify_save" ELSE "verify_fail"]]
    /\ NoteOverlap(t)
    /\ UNCHANGED <<walletVars, gatewayVars, processed, rowLock, crashes, credits, lost>>

\* wallet_topup_mock_pay stands in for the customer's payment as well.
MockPay(p, t) ==
    /\ MockGateway
    /\ Idle(p)
    /\ gateway[t] # "none"
    /\ ~AlreadyCaptured(t)
    /\ Len(txns[OwnerOf[t]]) < MaxEntries
    /\ gateway' = [gateway EXCEPT ![t] = "paid"]
    /\ req' = [req EXCEPT ![p] = [About(t) EXCEPT !.step = "verify_save"]]
    /\ NoteOverlap(t)
    /\ UNCHANGED <<walletVars, emitted, processed, rowLock, crashes, credits, lost>>

VerifySave(p) ==
    LET t == req[p].topup IN
    /\ req[p].step = "verify_save"
    /\ RowFree(t)
    /\ status' = [status EXCEPT ![t] = "success"]
    /\ Goto(p, "apply")
    /\ UNCHANGED <<balance, txns, gatewayVars, processed, rowLock, historyVars>>

VerifyFail(p) ==
    LET t == req[p].topup IN
    /\ req[p].step = "verify_fail"
    /\ RowFree(t)
    /\ status' = [status EXCEPT ![t] = "failed"]
    /\ Return(p)
    /\ UNCHANGED <<balance, txns, gatewayVars, processed, rowLock, historyVars>>

-----------------------------------------------------------------------------
(***************************************************************************)
(* The webhook.  An event is delivered until it has been acknowledged, so  *)
(* it can arrive again while, or after, it is handled; one already         *)
(* processed is answered "duplicate" and changes nothing.                  *)
(***************************************************************************)
Webhook(p, t, e) ==
    /\ Idle(p)
    /\ e \in emitted[t]
    /\ e \notin processed[t]
    /\ req' = [req EXCEPT ![p] = [About(t) EXCEPT !.step = "dispatch", !.event = e]]
    /\ NoteOverlap(t)
    /\ UNCHANGED <<walletVars, gatewayVars, processed, rowLock, crashes, credits, lost>>

\* capture and mark_failed read the top-up and decide.
Dispatch(p) ==
    LET t == req[p].topup IN
    /\ req[p].step = "dispatch"
    /\ Goto(p, CASE req[p].event # "failed" /\ ~AlreadyCaptured(t) -> "capture_apply"
                 [] req[p].event = "failed" /\ status[t] = "created" -> "mark_failed"
                 [] OTHER -> "finish")
    /\ UNCHANGED <<walletVars, gatewayVars, processed, rowLock, historyVars>>

MarkFailed(p) ==
    LET t == req[p].topup IN
    /\ req[p].step = "mark_failed"
    /\ RowFree(t)
    /\ status' = [status EXCEPT ![t] = "failed"]
    /\ Goto(p, "finish")
    /\ UNCHANGED <<balance, txns, gatewayVars, processed, rowLock, historyVars>>

Finish(p) ==
    /\ req[p].step = "finish"
    /\ processed' = [processed EXCEPT ![req[p].topup] = @ \cup {req[p].event}]
    /\ Return(p)
    /\ UNCHANGED <<walletVars, gatewayVars, rowLock, historyVars>>

-----------------------------------------------------------------------------
(***************************************************************************)
(* Wallet._apply, the one way money moves.                                 *)
(***************************************************************************)

\* Paying an order from the wallet: the view's own balance check reads no lock.
Spend(p, w, a) ==
    /\ Idle(p)
    /\ Len(txns[w]) < MaxEntries
    /\ balance[w] >= a
    /\ req' = [req EXCEPT ![p] = [Rest EXCEPT !.step = "apply", !.wallet = w,
                                              !.type = "debit", !.delta = -a]]
    /\ UNCHANGED <<walletVars, gatewayVars, processed, rowLock, historyVars>>

\* A cancellation, a refusal at the door or a ticket gives money back.
Refund(p, w, a) ==
    /\ Idle(p)
    /\ Len(txns[w]) < MaxEntries
    /\ req' = [req EXCEPT ![p] = [Rest EXCEPT !.step = "apply", !.wallet = w,
                                              !.type = "refund", !.delta = a]]
    /\ UNCHANGED <<walletVars, gatewayVars, processed, rowLock, historyVars>>

LockWallet(p) ==
    LET w == req[p].wallet IN
    /\ req[p].step = "apply"
    /\ RowFree(w)
    /\ rowLock' = [rowLock EXCEPT ![w] = p]
    /\ req' = [req EXCEPT ![p].step = "locked", ![p].read = balance[w]]
    /\ UNCHANGED <<walletVars, gatewayVars, processed, historyVars>>

\* Fault: the top-up's status is saved outside the block that credits.
CaptureSaved(p) ==
    LET t == req[p].topup
        w == req[p].wallet IN
    /\ req[p].step = "capture_apply"
    /\ RowFree(t)
    /\ RowFree(w)
    /\ status' = [status EXCEPT ![t] = "success"]
    /\ rowLock' = [rowLock EXCEPT ![t] = p, ![w] = p]
    /\ req' = [req EXCEPT ![p].step = "locked", ![p].read = balance[w]]
    /\ UNCHANGED <<balance, txns, gatewayVars, processed, historyVars>>

\* _capture_topup's block has written the top-up's row before it credits.
CaptureLock(p) ==
    LET t == req[p].topup
        w == req[p].wallet IN
    /\ req[p].step = "capture_apply"
    /\ RowFree(t)
    /\ RowFree(w)
    /\ rowLock' = [rowLock EXCEPT ![t] = p, ![w] = p]
    /\ req' = [req EXCEPT ![p].step = "locked", ![p].read = balance[w]]
    /\ UNCHANGED <<walletVars, gatewayVars, processed, historyVars>>

Release(p) == rowLock' = [r \in DOMAIN rowLock |->
                            IF rowLock[r] = p THEN None ELSE rowLock[r]]

AfterApply(p) == IF req[p].event = None THEN Return(p) ELSE Goto(p, "finish")

\* balance, ledger row and, from the webhook, the top-up's status: one commit.
Commit(p) ==
    LET w == req[p].wallet
        t == req[p].topup
        new == req[p].read + req[p].delta IN
    /\ req[p].step = "locked"
    /\ Affordable(new)
    /\ balance' = [balance EXCEPT ![w] = new]
    /\ txns' = [txns EXCEPT ![w] = Append(@, LedgerRow(req[p], new))]
    /\ status' = [x \in Topups |-> IF rowLock[x] = p THEN "success" ELSE status[x]]
    /\ credits' = [x \in Topups |-> IF x = t THEN credits[x] + 1 ELSE credits[x]]
    /\ Release(p)
    /\ AfterApply(p)
    /\ UNCHANGED <<gatewayVars, processed, crashes, overlapped, lost>>

\* InsufficientBalance: everything since the block began is rolled back.
Insufficient(p) ==
    /\ req[p].step = "locked"
    /\ ~Affordable(req[p].read + req[p].delta)
    /\ Release(p)
    /\ Return(p)
    /\ UNCHANGED <<walletVars, gatewayVars, processed, historyVars>>

(***************************************************************************)
(* A worker dies, or the database refuses a statement: what was committed  *)
(* stays, the open transaction is rolled back, nothing resumes the request.*)
(***************************************************************************)
Crash(p) ==
    LET t == req[p].topup
        unpaid == t # None /\ req[p].event = None /\ req[p].step \in {"apply", "locked"} IN
    /\ ~Idle(p)
    /\ crashes < MaxCrashes
    /\ crashes' = crashes + 1
    /\ lost' = [x \in Topups |-> lost[x] \/ (x = t /\ unpaid)]
    /\ Release(p)
    /\ Return(p)
    /\ UNCHANGED <<walletVars, gatewayVars, processed, credits, overlapped>>

-----------------------------------------------------------------------------
Start(p) ==
    \/ \E t \in Topups, signed \in BOOLEAN : Verify(p, t, signed)
    \/ \E t \in Topups : MockPay(p, t)
    \/ \E t \in Topups, e \in Events : Webhook(p, t, e)
    \/ \E w \in Wallets, a \in Amounts : Spend(p, w, a) \/ Refund(p, w, a)

Continue(p) ==
    \/ VerifySave(p) \/ VerifyFail(p)
    \/ Dispatch(p) \/ MarkFailed(p) \/ Finish(p)
    \/ LockWallet(p) \/ CaptureLock(p) \/ Commit(p) \/ Insufficient(p)

Next ==
    \/ \E t \in Topups :
         CreateTopup(t) \/ LinkTopup(t) \/ AttemptDeclined(t) \/ CustomerPays(t)
    \/ \E p \in Workers : Start(p) \/ Continue(p) \/ Crash(p)

(***************************************************************************)
(* A worker goes on with its request and InnoDB grants row locks in turn;  *)
(* the gateway delivers an event again until it is acknowledged.           *)
(***************************************************************************)
Fairness ==
    /\ \A p \in Workers : SF_vars(Continue(p))
    /\ \A t \in Topups, e \in Events : SF_vars(\E p \in Workers : Webhook(p, t, e))

Spec == Init /\ [][Next]_vars

FairSpec == Spec /\ Fairness

-----------------------------------------------------------------------------
(***************************************************************************)
(* Properties.                                                             *)
(***************************************************************************)

\* Every row and request is well formed; in particular no wallet is overdrawn.
TypeOK ==
    /\ balance \in [Wallets -> Nat]
    /\ txns \in [Wallets -> Seq([type : Types, amount : Nat, after : Nat])]
    /\ status \in [Topups -> {"none", "created", "success", "failed"}]
    /\ gateway \in [Topups -> {"none", "open", "paid"}]
    /\ emitted \in [Topups -> SUBSET Events]
    /\ processed \in [Topups -> SUBSET Events]
    /\ req \in [Workers -> Request]
    /\ rowLock \in [Wallets \cup Topups -> Workers \cup {None}]
    /\ crashes \in Nat
    /\ credits \in [Topups -> Nat]
    /\ overlapped \in [Topups -> BOOLEAN]
    /\ lost \in [Topups -> BOOLEAN]

\* WalletTransaction.signed_amount: the sign is read off the type.
Signed(x) == IF x.type = "debit" THEN -x.amount ELSE x.amount

BalanceAfter(s, i) == IF i = 0 THEN 0 ELSE s[i].after

\* The ledger explains the balance: each row leads from the balance the row
\* before it left to its own balance_after, and the last one is the balance.
\* Two postings that read the same balance would break the chain.
LedgerExplainsBalance ==
    \A w \in Wallets :
        /\ balance[w] = BalanceAfter(txns[w], Len(txns[w]))
        /\ \A i \in 1..Len(txns[w]) :
               txns[w][i].after = BalanceAfter(txns[w], i - 1) + Signed(txns[w][i])

\* Money is never credited on the client's word: whichever of the callback,
\* mock-pay and the webhooks got there, the gateway took the payment first.
CreditedOnlyIfPaid == \A t \in Topups : credits[t] > 0 => gateway[t] = "paid"

\* The checks of verify, mock-pay, capture and mark_failed make confirmations
\* of a top-up that run one after the other credit it once at most, whatever
\* their order and however often an event is repeated or a request dies.
DoubleCreditOnlyIfOverlapped ==
    \A t \in Topups : credits[t] > 1 => overlapped[t]

\* A top-up that says SUCCESS has been credited, or is about to be by a request
\* that is running, unless the verify callback died after saving the status:
\* the webhook's own block never separates the two.
SuccessIsCredited ==
    \A t \in Topups :
        status[t] = "success" =>
            \/ credits[t] > 0
            \/ lost[t]
            \/ \E p \in InFlight(t) : req[p].event = None /\ req[p].step \in {"apply", "locked"}

\* The documented promise, "a webhook + a poll + a retry can all arrive
\* without double-crediting" (docs/ARCHITECTURE.md).
NoDoubleCredit == \A t \in Topups : credits[t] <= 1

\* A payment the gateway reports reaches the wallet, whatever dies on the way,
\* except through that same gap of the verify callback.
PaidIsCredited ==
    \A t \in Topups : "captured" \in emitted[t] ~> (credits[t] > 0 \/ lost[t])

Deltas == {TopupAmount} \cup Amounts \cup {-a : a \in Amounts}

LedgerOf(w) == INSTANCE Ledger WITH
    Opening <- 0,
    balance <- balance[w],
    entries <- [i \in 1..Len(txns[w]) |->
                  [delta |-> Signed(txns[w][i]), after |-> txns[w][i].after]]

LedgersInit == \A w \in Wallets : LedgerOf(w)!Init

LedgersNext == \A w \in Wallets : [LedgerOf(w)!Next]_(LedgerOf(w)!vars)

\* Each wallet is a Ledger: whatever the workers do, its rows change by
\* postings that start from the balance before.
ImplementsLedger == LedgersInit /\ [][LedgersNext]_vars

=============================================================================

---------------------------- MODULE WalletProofs ----------------------------
(***************************************************************************)
(* Proofs about Wallet, for any number of wallets, top-ups and workers.    *)
(***************************************************************************)
EXTENDS Wallet, TLAPS

\* What a request carries at each step.  finish acknowledges an event that is
\* there, so TypeOK by itself is not inductive.
RequestOK(r, em) ==
    /\ r.step \in {"verify_save", "verify_fail", "dispatch", "mark_failed", "finish",
                   "capture_apply"} => r.topup \in Topups
    /\ r.step \in {"dispatch", "mark_failed", "finish", "capture_apply"} => r.event \in Events
    /\ r.step \in {"verify_save", "verify_fail"} => r.event = None
    /\ r.step = "idle" => r.topup = None
    /\ r.topup = None => r.event = None
    /\ r.topup # None => r.wallet = OwnerOf[r.topup] /\ r.delta = TopupAmount /\ r.type = "topup"
    /\ r.event = "failed" => r.step \in {"dispatch", "mark_failed", "finish"}
    /\ r.event # None => r.event \in em[r.topup]
    /\ r.step # "idle" => r.delta \in Deltas
    /\ r.step = "apply" => r.event = None
    /\ IF r.type = "debit" THEN r.delta <= 0 ELSE r.delta >= 0

ReqOK == \A p \in Workers : RequestOK(req[p], emitted)

TypeInv == TypeOK /\ ReqOK

\* Who holds a row is in a block on it, and a balance read under the lock is current.
LockOK ==
    /\ \A p \in Workers :
          req[p].step = "locked" =>
              /\ rowLock[req[p].wallet] = p
              /\ req[p].read = balance[req[p].wallet]
              /\ req[p].event # None => rowLock[req[p].topup] = p
    /\ \A r \in Wallets \cup Topups :
          rowLock[r] # None =>
              /\ req[rowLock[r]].step = "locked"
              /\ r = req[rowLock[r]].wallet \/ (r = req[rowLock[r]].topup /\ req[rowLock[r]].event # None)

\* A confirmation under way is about a payment the gateway took.
PaidOK ==
    /\ \A t \in Topups : emitted[t] \cap {"authorized", "captured"} # {} => gateway[t] = "paid"
    /\ \A p \in Workers :
          req[p].topup # None /\ req[p].step \in {"verify_save", "apply", "locked"}
              => gateway[req[p].topup] = "paid"
    /\ CreditedOnlyIfPaid

\* A top-up whose confirmations never overlapped has at most one under way, and
\* once it is credited that one can only find it so.
OnceOK ==
    \A t \in Topups :
        ~overlapped[t] =>
            /\ \A p, q \in InFlight(t) : p = q
            /\ credits[t] \in {0, 1}
            /\ credits[t] = 1 => status[t] = "success"
            /\ \A p \in InFlight(t) :
                  /\ req[p].step \in {"dispatch", "finish"} \/ credits[t] = 0
                  /\ req[p].event = None /\ req[p].step \in {"apply", "locked"} => status[t] = "success"

-----------------------------------------------------------------------------
LEMMA RestOK == Rest \in Request
<1>1. (CHOOSE w \in Wallets : TRUE) \in Wallets
  BY WalletAssumption
<1>2. QED
  BY <1>1 DEF Rest, Request, Steps, Types

LEMMA AboutOK == ASSUME NEW t \in Topups PROVE About(t) \in Request
<1>1. OwnerOf[t] \in Wallets /\ TopupAmount \in Int
  BY WalletAssumption
<1>2. QED
  BY <1>1, RestOK DEF About, Request, Rest

LEMMA GotoOK ==
  ASSUME NEW r \in Request, NEW s \in Steps PROVE [r EXCEPT !.step = s] \in Request
  BY DEF Request

LEMMA ReadOK ==
  ASSUME NEW r \in Request, NEW n \in Nat
  PROVE  [r EXCEPT !.step = "locked", !.read = n] \in Request
  BY DEF Request, Steps

LEMMA InitType == Init => TypeOK
<1>1. ASSUME Init PROVE txns \in [Wallets -> Seq([type : Types, amount : Nat, after : Nat])]
  BY <1>1 DEF Init
<1>2. QED
  BY <1>1, RestOK DEF Init, TypeOK, Events

LEMMA NextType == TypeInv /\ [Next]_vars => TypeOK'
<1> SUFFICES ASSUME TypeOK, ReqOK, [Next]_vars PROVE TypeOK'
  BY DEF TypeInv
<1> USE DEF TypeOK, walletVars, gatewayVars, historyVars, Events
<1>1. ASSUME NEW t \in Topups, CreateTopup(t) \/ LinkTopup(t) \/ AttemptDeclined(t) \/ CustomerPays(t)
      PROVE TypeOK'
  <2>1. CASE CreateTopup(t)
    BY <2>1 DEF CreateTopup
  <2>2. CASE LinkTopup(t)
    BY <2>2 DEF LinkTopup
  <2>3. CASE AttemptDeclined(t)
    BY <2>3 DEF AttemptDeclined
  <2>4. CASE CustomerPays(t)
    BY <2>4 DEF CustomerPays
  <2>5. QED
    BY <1>1, <2>1, <2>2, <2>3, <2>4
<1>2. ASSUME NEW p \in Workers, NEW t \in Topups, NEW signed \in BOOLEAN, Verify(p, t, signed)
      PROVE TypeOK'
  <2>1. [About(t) EXCEPT !.step = IF signed THEN "verify_save" ELSE "verify_fail"] \in Request
    BY AboutOK DEF Request, Steps
  <2>2. QED
    BY <1>2, <2>1 DEF Verify, NoteOverlap
<1>3. ASSUME NEW p \in Workers, NEW t \in Topups, MockPay(p, t)
      PROVE TypeOK'
  <2>1. [About(t) EXCEPT !.step = "verify_save"] \in Request
    BY AboutOK DEF Request, Steps
  <2>2. QED
    BY <1>3, <2>1 DEF MockPay, NoteOverlap
<1>4. ASSUME NEW p \in Workers, NEW t \in Topups, NEW e \in Events, Webhook(p, t, e)
      PROVE TypeOK'
  <2>1. [About(t) EXCEPT !.step = "dispatch", !.event = e] \in Request
    BY AboutOK DEF Request, Steps
  <2>2. QED
    BY <1>4, <2>1 DEF Webhook, NoteOverlap
<1>5. ASSUME NEW p \in Workers, NEW w \in Wallets, NEW a \in Amounts, Spend(p, w, a) \/ Refund(p, w, a)
      PROVE TypeOK'
  <2>1. a \in Int /\ -a \in Int
    BY WalletAssumption
  <2>2. /\ [Rest EXCEPT !.step = "apply", !.wallet = w, !.type = "debit", !.delta = -a] \in Request
        /\ [Rest EXCEPT !.step = "apply", !.wallet = w, !.type = "refund", !.delta = a] \in Request
    BY <2>1, RestOK DEF Request, Steps, Types
  <2>3. QED
    BY <1>5, <2>2 DEF Spend, Refund
<1>6. ASSUME NEW p \in Workers, VerifySave(p) \/ VerifyFail(p) \/ MarkFailed(p)
      PROVE TypeOK'
  <2>1. [req[p] EXCEPT !.step = "apply"] \in Request /\ [req[p] EXCEPT !.step = "finish"] \in Request
    BY GotoOK DEF Steps
  <2>2. CASE VerifySave(p)
    BY <2>1, <2>2 DEF VerifySave, Goto
  <2>3. CASE VerifyFail(p)
    BY <2>3, RestOK DEF VerifyFail, Return
  <2>4. CASE MarkFailed(p)
    BY <2>1, <2>4 DEF MarkFailed, Goto
  <2>5. QED
    BY <1>6, <2>2, <2>3, <2>4
<1>7. ASSUME NEW p \in Workers, Dispatch(p) \/ Finish(p)
      PROVE TypeOK'
  <2>1. CASE Dispatch(p)
    <3>1. PICK s \in Steps : Goto(p, s)
      BY <2>1 DEF Dispatch, Steps
    <3>2. [req[p] EXCEPT !.step = s] \in Request
      BY GotoOK
    <3>3. QED
      BY <2>1, <3>1, <3>2 DEF Dispatch, Goto
  <2>2. CASE Finish(p)
    <3>1. req[p].event \in Events /\ req[p].topup \in Topups
      BY <2>2 DEF Finish, ReqOK, RequestOK
    <3>2. QED
      BY <2>2, <3>1, RestOK DEF Finish, Return
  <2>3. QED
    BY <1>7, <2>1, <2>2
<1>8. ASSUME NEW p \in Workers, LockWallet(p) \/ CaptureLock(p)
      PROVE TypeOK'
  <2> DEFINE w == req[p].wallet
  <2>1. w \in Wallets /\ balance[w] \in Nat
    BY DEF Request
  <2>2. [req[p] EXCEPT !.step = "locked", !.read = balance[w]] \in Request
    BY <2>1, ReadOK
  <2>3. CASE LockWallet(p)
    BY <2>1, <2>2, <2>3 DEF LockWallet
  <2>4. CASE CaptureLock(p)
    BY <2>1, <2>2, <2>4 DEF CaptureLock
  <2>5. QED
    BY <1>8, <2>3, <2>4
<1>9. ASSUME NEW p \in Workers, Commit(p)
      PROVE TypeOK'
  <2> DEFINE new == req[p].read + req[p].delta
             row == LedgerRow(req[p], new)
  <2>1. new \in Nat
    BY <1>9 DEF Commit, Affordable, Request
  <2>2. row \in [type : Types, amount : Nat, after : Nat]
    BY <2>1 DEF LedgerRow, Request
  <2>3. req[p].wallet \in Wallets
    BY DEF Request
  <2>4. txns' \in [Wallets -> Seq([type : Types, amount : Nat, after : Nat])]
    <3>1. Append(txns[req[p].wallet], row) \in Seq([type : Types, amount : Nat, after : Nat])
      <4> DEFINE T == [type : Types, amount : Nat, after : Nat]
      <4>1. txns[req[p].wallet] \in Seq(T) /\ row \in T
        BY <2>2, <2>3
      <4> HIDE DEF T, row
      <4>2. Append(txns[req[p].wallet], row) \in Seq(T)
        BY <4>1
      <4>3. QED
        BY <4>2 DEF T
    <3>2. txns' = [txns EXCEPT ![req[p].wallet] = Append(txns[req[p].wallet], row)]
      BY <1>9 DEF Commit
    <3>3. QED
      BY <3>1, <3>2
  <2>5. [req[p] EXCEPT !.step = "finish"] \in Request
    BY GotoOK DEF Steps
  <2>6. req' \in [Workers -> Request]
    BY <1>9, <2>5, RestOK DEF Commit, AfterApply, Goto, Return
  <2>7. balance' \in [Wallets -> Nat]
    BY <1>9, <2>1 DEF Commit
  <2>8. rowLock' \in [Wallets \cup Topups -> Workers \cup {None}]
    BY <1>9 DEF Commit, Release
  <2>9. /\ status' \in [Topups -> {"none", "created", "success", "failed"}]
        /\ credits' \in [Topups -> Nat]
    BY <1>9 DEF Commit
  <2>10. UNCHANGED <<gatewayVars, processed, crashes, overlapped, lost>>
    BY <1>9 DEF Commit
  <2>11. QED
    BY <2>4, <2>6, <2>7, <2>8, <2>9, <2>10
<1>10. ASSUME NEW p \in Workers, Insufficient(p) \/ Crash(p)
      PROVE TypeOK'
  <2>1. rowLock' \in [Wallets \cup Topups -> Workers \cup {None}]
    BY <1>10 DEF Insufficient, Crash, Release
  <2>2. req' \in [Workers -> Request]
    BY <1>10, RestOK DEF Insufficient, Crash, Return
  <2>3. lost' \in [Topups -> BOOLEAN]
    BY <1>10 DEF Insufficient, Crash
  <2>4. crashes' \in Nat
    BY <1>10 DEF Insufficient, Crash
  <2>5. UNCHANGED <<walletVars, gatewayVars, processed, credits, overlapped>>
    BY <1>10 DEF Insufficient, Crash
  <2>6. QED
    BY <2>1, <2>2, <2>3, <2>4, <2>5
<1>11. CASE UNCHANGED vars
  BY <1>11 DEF vars
<1>12. ASSUME NEW p \in Workers, Start(p)
       PROVE TypeOK'
  BY <1>2, <1>3, <1>4, <1>5, <1>12, Zenon DEF Start
<1>13. ASSUME NEW p \in Workers, Continue(p)
       PROVE TypeOK'
  BY <1>6, <1>7, <1>8, <1>9, <1>10, <1>13, Zenon DEF Continue
<1>14. QED
  BY <1>1, <1>10, <1>11, <1>12, <1>13, Zenon DEF Next

LEMMA NextReq == TypeInv /\ [Next]_vars => ReqOK'
<1> SUFFICES ASSUME TypeOK, ReqOK, [Next]_vars, NEW q \in Workers
             PROVE  RequestOK(req'[q], emitted')
  BY DEF TypeInv, ReqOK, RequestOK
<1> DEFINE Goal == RequestOK(req'[q], emitted')
<1> USE DEF walletVars, gatewayVars, historyVars
<1>a. None \notin Topups \cup Workers \cup Events
  BY WalletAssumption DEF Events
<1>b. req \in [Workers -> Request] /\ emitted \in [Topups -> SUBSET Events]
  BY DEF TypeOK
<1>c. \A p \in Workers : RequestOK(req[p], emitted)
  BY DEF ReqOK
<1>d. ASSUME NEW p \in Workers, NEW r \in Request, req' = [req EXCEPT ![p] = r],
             emitted' = emitted, RequestOK(r, emitted)
      PROVE Goal
  <2>1. req'[q] = IF q = p THEN r ELSE req[q]
    BY <1>b, <1>d
  <2>2. RequestOK(req'[q], emitted)
    <3>1. CASE q = p
      BY <1>d, <2>1, <3>1
    <3>2. CASE q # p
      BY <1>c, <2>1, <3>2
    <3>3. QED
      BY <3>1, <3>2
  <2>3. QED
    BY <1>d, <2>2
<1>e. RequestOK(Rest, emitted)
  BY <1>a DEF RequestOK, Rest, Events
<1>1. ASSUME NEW t \in Topups, CreateTopup(t) \/ LinkTopup(t) \/ AttemptDeclined(t) \/ CustomerPays(t)
      PROVE Goal
  <2>1. req' = req /\ emitted' \in [Topups -> SUBSET Events] /\ \A x \in Topups : emitted[x] \subseteq emitted'[x]
    BY <1>1, <1>b DEF CreateTopup, LinkTopup, AttemptDeclined, CustomerPays, Events
  <2>2. req[q] \in Request
    BY <1>b
  <2>3. QED
    BY <1>a, <1>b, <1>c, <2>1, <2>2 DEF RequestOK, Request
<1>2. ASSUME NEW p \in Workers, NEW t \in Topups, NEW e \in Events \cup {None},
             NEW s \in {"verify_save", "verify_fail", "dispatch"},
             req' = [req EXCEPT ![p] = [About(t) EXCEPT !.step = s, !.event = e]],
             emitted' = emitted, s = "dispatch" => e \in emitted[t], s # "dispatch" => e = None
      PROVE Goal
  <2> DEFINE r == [About(t) EXCEPT !.step = s, !.event = e]
  <2>1. /\ r \in Request /\ r.step = s /\ r.event = e /\ r.topup = t
        /\ r.wallet = OwnerOf[t] /\ r.delta = TopupAmount /\ r.type = "topup"
    BY AboutOK DEF Request, Steps, About, Rest
  <2> HIDE DEF r
  <2>2. RequestOK(r, emitted)
    BY <1>2, <1>a, <1>b, <2>1, WalletAssumption DEF RequestOK, Events, Deltas
  <2>3. QED
    BY <1>2, <1>d, <2>1, <2>2 DEF r
<1>3. ASSUME NEW p \in Workers, NEW t \in Topups, NEW s \in {"verify_save", "verify_fail"},
             req' = [req EXCEPT ![p] = [About(t) EXCEPT !.step = s]], emitted' = emitted
      PROVE Goal
  <2>1. [About(t) EXCEPT !.step = s] = [About(t) EXCEPT !.step = s, !.event = None]
    <3> DEFINE A == About(t)
    <3>1. A \in Request /\ A.event = None
      BY AboutOK DEF About, Rest
    <3> HIDE DEF A
    <3>2. [A EXCEPT !.step = s] = [A EXCEPT !.step = s, !.event = None]
      BY <3>1 DEF Request
    <3>3. QED
      BY <3>2 DEF A
  <2>2. QED
    BY <1>2, <1>3, <2>1
<1>4. ASSUME NEW p \in Workers, NEW t \in Topups, NEW signed \in BOOLEAN, Verify(p, t, signed) \/ MockPay(p, t)
      PROVE Goal
  <2>1. emitted' = emitted
    BY <1>4 DEF Verify, MockPay
  <2>2. CASE Verify(p, t, signed)
    BY <1>3, <2>1, <2>2 DEF Verify
  <2>3. CASE MockPay(p, t)
    BY <1>3, <2>1, <2>3 DEF MockPay
  <2>4. QED
    BY <1>4, <2>2, <2>3
<1>5. ASSUME NEW p \in Workers, NEW t \in Topups, NEW e \in Events, Webhook(p, t, e)
      PROVE Goal
  BY <1>2, <1>5 DEF Webhook
<1>6. ASSUME NEW p \in Workers, NEW w \in Wallets, NEW a \in Amounts, Spend(p, w, a) \/ Refund(p, w, a)
      PROVE Goal
  <2>1. PICK y \in Types, d \in Deltas :
          /\ IF y = "debit" THEN d <= 0 ELSE d >= 0
          /\ req' = [req EXCEPT ![p] = [Rest EXCEPT !.step = "apply", !.wallet = w, !.type = y, !.delta = d]]
    <3>1. /\ a \in Deltas /\ -a \in Deltas /\ "debit" \in Types /\ "refund" \in Types
          /\ a >= 0 /\ -a <= 0
      BY WalletAssumption DEF Types, Deltas
    <3>2. \/ req' = [req EXCEPT ![p] = [Rest EXCEPT !.step = "apply", !.wallet = w, !.type = "debit", !.delta = -a]]
          \/ req' = [req EXCEPT ![p] = [Rest EXCEPT !.step = "apply", !.wallet = w, !.type = "refund", !.delta = a]]
      BY <1>6 DEF Spend, Refund
    <3>3. "refund" # "debit"
      OBVIOUS
    <3>4. QED
      BY <3>1, <3>2, <3>3, Zenon
  <2> DEFINE r == [Rest EXCEPT !.step = "apply", !.wallet = w, !.type = y, !.delta = d]
  <2>2. /\ r \in Request /\ r.step = "apply" /\ r.topup = None /\ r.event = None
        /\ r.delta = d /\ r.type = y
    <3>1. d \in Int
      BY WalletAssumption DEF Deltas
    <3>2. QED
      BY <3>1, RestOK DEF Request, Rest, Steps
  <2>3. emitted' = emitted
    BY <1>6 DEF Spend, Refund
  <2> HIDE DEF r
  <2>4. RequestOK(r, emitted)
    BY <1>a, <2>1, <2>2 DEF RequestOK, Events
  <2>5. QED
    BY <1>d, <2>1, <2>2, <2>3, <2>4 DEF r
<1>7. ASSUME NEW p \in Workers, Return(p), emitted' = emitted
      PROVE Goal
  BY <1>d, <1>e, <1>7, RestOK DEF Return
<1>8. ASSUME NEW p \in Workers, NEW s \in Steps \ {"idle"}, Goto(p, s), emitted' = emitted,
             s \in {"verify_save", "verify_fail", "dispatch", "mark_failed", "finish", "capture_apply"}
                => req[p].event \in Events /\ req[p].topup \in Topups,
             s \notin {"verify_save", "verify_fail"}, s = "apply" => req[p].event = None,
             s \in {"mark_failed", "finish"} \/ req[p].event # "failed",
             req[p].step # "idle"
      PROVE Goal
  <2> DEFINE r == [req[p] EXCEPT !.step = s]
  <2>1. r \in Request /\ req[p] \in Request
    BY <1>b, GotoOK
  <2>2. /\ r.step = s /\ r.event = req[p].event /\ r.topup = req[p].topup /\ r.wallet = req[p].wallet
        /\ r.delta = req[p].delta /\ r.type = req[p].type
    BY <2>1 DEF Request
  <2> HIDE DEF r
  <2>3. RequestOK(r, emitted)
    BY <1>8, <1>c, <2>2 DEF RequestOK
  <2>4. QED
    BY <1>d, <1>8, <2>1, <2>3 DEF r, Goto
<1>9. ASSUME NEW p \in Workers, VerifySave(p) \/ VerifyFail(p)
      PROVE Goal
  <2>1. emitted' = emitted /\ req[p].event = None
    BY <1>9, <1>c DEF VerifySave, VerifyFail, RequestOK
  <2>2. CASE VerifySave(p)
    <3>1. Goto(p, "apply") /\ req[p].event # "failed" /\ req[p].step # "idle"
      BY <1>c, <2>1, <2>2, WalletAssumption DEF VerifySave
    <3>2. QED
      BY <1>8, <2>1, <3>1 DEF Steps
  <2>3. CASE VerifyFail(p)
    BY <1>7, <2>1, <2>3 DEF VerifyFail
  <2>4. QED
    BY <1>9, <2>2, <2>3
<1>10. ASSUME NEW p \in Workers, Dispatch(p) \/ MarkFailed(p) \/ Finish(p)
      PROVE Goal
  <2>1. emitted' = emitted /\ req[p].event \in Events /\ req[p].topup \in Topups
    BY <1>10, <1>c DEF Dispatch, MarkFailed, Finish, RequestOK
  <2>2. CASE Dispatch(p)
    <3>1. PICK s \in {"capture_apply", "mark_failed", "finish"} :
            Goto(p, s) /\ (s = "capture_apply" => req[p].event # "failed")
      BY <2>2 DEF Dispatch
    <3>2. s \in Steps \ {"idle"} /\ req[p].step # "idle"
      BY <2>2 DEF Dispatch, Steps
    <3>3. QED
      BY <1>8, <2>1, <3>1, <3>2
  <2>3. CASE MarkFailed(p)
    BY <1>8, <2>1, <2>3 DEF MarkFailed, Steps
  <2>4. CASE Finish(p)
    BY <1>7, <2>1, <2>4 DEF Finish
  <2>5. QED
    BY <1>10, <2>2, <2>3, <2>4
<1>11. ASSUME NEW p \in Workers, LockWallet(p) \/ CaptureLock(p)
      PROVE Goal
  <2> DEFINE r == [req[p] EXCEPT !.step = "locked", !.read = balance[req[p].wallet]]
  <2>1. req[p] \in Request /\ req[p].wallet \in Wallets
    BY <1>b DEF Request
  <2>2. r \in Request
    BY <2>1, ReadOK DEF TypeOK
  <2>3. /\ r.step = "locked" /\ r.event = req[p].event /\ r.topup = req[p].topup /\ r.wallet = req[p].wallet
        /\ r.delta = req[p].delta /\ r.type = req[p].type
    BY <2>1 DEF Request
  <2>4. /\ emitted' = emitted
        /\ req' = [req EXCEPT ![p] = r]
        /\ req[p].step \in {"apply", "capture_apply"}
    BY <1>11, <1>b DEF LockWallet, CaptureLock
  <2> HIDE DEF r
  <2>5. RequestOK(r, emitted)
    BY <1>c, <2>3, <2>4 DEF RequestOK
  <2>6. QED
    BY <1>d, <2>2, <2>4, <2>5
<1>12. ASSUME NEW p \in Workers, Commit(p) \/ Insufficient(p) \/ Crash(p)
      PROVE Goal
  <2>1. emitted' = emitted
    BY <1>12 DEF Commit, Insufficient, Crash
  <2>2. Return(p) \/ (req[p].step = "locked" /\ req[p].event # None /\ Goto(p, "finish"))
    BY <1>12 DEF Commit, Insufficient, Crash, AfterApply
  <2>3. CASE Return(p)
    BY <1>7, <2>1, <2>3
  <2>4. CASE req[p].step = "locked" /\ req[p].event # None /\ Goto(p, "finish")
    <3>1. req[p].event \in Events /\ req[p].topup \in Topups
      BY <1>b, <1>c, <2>4 DEF RequestOK, Request
    <3>2. QED
      BY <1>8, <2>1, <2>4, <3>1 DEF Steps
  <2>5. QED
    BY <2>2, <2>3, <2>4
<1>13. CASE UNCHANGED vars
  BY <1>13, <1>c DEF vars
<1>14. ASSUME NEW p \in Workers, Start(p) \/ Continue(p) \/ Crash(p)
       PROVE Goal
  <2>1. CASE Start(p)
    BY <1>4, <1>5, <1>6, <2>1, Zenon DEF Start
  <2>2. CASE Continue(p)
    BY <1>9, <1>10, <1>11, <1>12, <2>2, Zenon DEF Continue
  <2>3. QED
    BY <1>12, <1>14, <2>1, <2>2, Zenon
<1>15. QED
  BY <1>1, <1>13, <1>14, Zenon DEF Next

LEMMA TypeInvariant == Spec => []TypeInv
<1>1. Init => TypeInv
  <2>1. Init => ReqOK
    BY WalletAssumption DEF Init, ReqOK, RequestOK, Rest
  <2>2. QED
    BY <2>1, InitType DEF TypeInv
<1>2. TypeInv /\ [Next]_vars => TypeInv'
  BY NextType, NextReq DEF TypeInv
<1>3. QED
  BY <1>1, <1>2, PTL DEF Spec

\* A step either leaves the money and the locks alone, or takes the locks of a
\* posting, or ends one.
Quiet(p, r) ==
    /\ req' = [req EXCEPT ![p] = r]
    /\ req[p].step # "locked" /\ r.step # "locked"
    /\ UNCHANGED <<balance, txns, rowLock>>

LEMMA Shape ==
  ASSUME TypeInv, [Next]_vars
  PROVE  \/ UNCHANGED <<balance, txns, rowLock, req>>
         \/ \E p \in Workers, r \in Request : Quiet(p, r)
         \/ \E p \in Workers : LockWallet(p) \/ CaptureLock(p)
         \/ \E p \in Workers : Commit(p) \/ Insufficient(p) \/ Crash(p)
<1> DEFINE Calm == \E p \in Workers, r \in Request : Quiet(p, r)
<1> USE DEF walletVars, gatewayVars, historyVars
<1>1. ASSUME NEW t \in Topups, CreateTopup(t) \/ LinkTopup(t) \/ AttemptDeclined(t) \/ CustomerPays(t)
      PROVE UNCHANGED <<balance, txns, rowLock, req>>
  BY <1>1 DEF CreateTopup, LinkTopup, AttemptDeclined, CustomerPays
<1>2. ASSUME NEW p \in Workers, Start(p)
      PROVE Calm
  <2>1. Idle(p) /\ UNCHANGED <<balance, txns, rowLock>>
    BY <1>2 DEF Start, Verify, MockPay, Webhook, Spend, Refund
  <2>2. \E r \in Request : r.step # "locked" /\ req' = [req EXCEPT ![p] = r]
    <3>1. ASSUME NEW t \in Topups, NEW s \in {"verify_save", "verify_fail"}
          PROVE  LET r == [About(t) EXCEPT !.step = s] IN r \in Request /\ r.step # "locked"
      BY AboutOK DEF Request, Steps
    <3>2. ASSUME NEW t \in Topups, NEW e \in Events
          PROVE  LET r == [About(t) EXCEPT !.step = "dispatch", !.event = e] IN r \in Request /\ r.step # "locked"
      BY AboutOK DEF Request, Steps
    <3>3. ASSUME NEW w \in Wallets, NEW y \in Types, NEW d \in Int
          PROVE  LET r == [Rest EXCEPT !.step = "apply", !.wallet = w, !.type = y, !.delta = d] IN
                 r \in Request /\ r.step # "locked"
      BY RestOK DEF Request, Steps
    <3>4. CASE \E t \in Topups, signed \in BOOLEAN : Verify(p, t, signed)
      BY <3>1, <3>4 DEF Verify
    <3>5. CASE \E t \in Topups : MockPay(p, t)
      BY <3>1, <3>5 DEF MockPay
    <3>6. CASE \E t \in Topups, e \in Events : Webhook(p, t, e)
      BY <3>2, <3>6 DEF Webhook
    <3>7. CASE \E w \in Wallets, a \in Amounts : Spend(p, w, a) \/ Refund(p, w, a)
      <4>1. PICK w \in Wallets, a \in Amounts : Spend(p, w, a) \/ Refund(p, w, a)
        BY <3>7
      <4>2. a \in Int /\ -a \in Int /\ "debit" \in Types /\ "refund" \in Types
        BY WalletAssumption DEF Types
      <4>3. CASE Spend(p, w, a)
        BY <3>3, <4>2, <4>3 DEF Spend
      <4>4. CASE Refund(p, w, a)
        BY <3>3, <4>2, <4>4 DEF Refund
      <4>5. QED
        BY <4>1, <4>3, <4>4
    <3>8. QED
      BY <1>2, <3>4, <3>5, <3>6, <3>7, Zenon DEF Start
  <2>3. QED
    BY <2>1, <2>2 DEF Quiet, Idle
<1>3. ASSUME NEW p \in Workers, VerifySave(p) \/ VerifyFail(p) \/ Dispatch(p) \/ MarkFailed(p) \/ Finish(p)
      PROVE Calm
  <2>1. req[p].step # "locked" /\ UNCHANGED <<balance, txns, rowLock>>
    BY <1>3 DEF VerifySave, VerifyFail, Dispatch, MarkFailed, Finish
  <2>2. Return(p) \/ \E s \in Steps \ {"locked"} : Goto(p, s)
    BY <1>3 DEF VerifySave, VerifyFail, Dispatch, MarkFailed, Finish, Steps
  <2>3. req[p] \in Request
    BY DEF TypeInv, TypeOK
  <2>4. ASSUME NEW s \in Steps \ {"locked"}
        PROVE  [req[p] EXCEPT !.step = s] \in Request /\ [req[p] EXCEPT !.step = s].step # "locked"
    BY <2>3, GotoOK DEF Request
  <2>5. Rest \in Request /\ Rest.step # "locked"
    BY RestOK DEF Rest
  <2>6. QED
    BY <2>1, <2>2, <2>4, <2>5 DEF Quiet, Return, Goto
<1>4. CASE UNCHANGED vars
  BY <1>4 DEF vars
<1>5. ASSUME NEW p \in Workers, Continue(p)
      PROVE Calm \/ LockWallet(p) \/ CaptureLock(p) \/ Commit(p) \/ Insufficient(p)
  BY <1>3, <1>5, Zenon DEF Continue
<1>6. QED
  BY <1>1, <1>2, <1>4, <1>5, Zenon DEF Next

\* No wallet is ever overdrawn, whatever the workers interleave.
THEOREM TypeCorrect == Spec => []TypeOK
  BY TypeInvariant, PTL DEF TypeInv

-----------------------------------------------------------------------------
LEMMA InitLock == Init => LockOK
  BY DEF Init, LockOK, Rest

LEMMA NextLock == TypeInv /\ LockOK /\ [Next]_vars => LockOK'
<1> SUFFICES ASSUME TypeInv, LockOK, [Next]_vars PROVE LockOK'
  OBVIOUS
<1> USE DEF walletVars, gatewayVars, historyVars
<1>a. /\ req \in [Workers -> Request]
      /\ rowLock \in [Wallets \cup Topups -> Workers \cup {None}]
      /\ balance \in [Wallets -> Nat]
      /\ \A p \in Workers : req[p].wallet \in Wallets /\ req[p] \in Request
  BY DEF TypeInv, TypeOK, Request
<1>b. None \notin Workers /\ Wallets \cap Topups = {}
  BY WalletAssumption
<1>1. CASE UNCHANGED <<balance, txns, rowLock, req>>
  BY <1>1 DEF LockOK
<1>2. ASSUME NEW p \in Workers, NEW r \in Request, Quiet(p, r)
      PROVE LockOK'
  BY <1>2, <1>a, <1>b DEF LockOK, Quiet
<1>3. ASSUME NEW p \in Workers, LockWallet(p) \/ CaptureLock(p)
      PROVE LockOK'
  <2> DEFINE w == req[p].wallet
             rows == {w} \cup (IF req[p].event = None THEN {} ELSE {req[p].topup})
  <2>1. PICK S \in SUBSET rows :
          /\ S \subseteq Wallets \cup Topups
          /\ w \in S /\ (req[p].event # None => req[p].topup \in S)
          /\ \A r \in S : rowLock[r] = None
          /\ rowLock' = [r \in Wallets \cup Topups |-> IF r \in S THEN p ELSE rowLock[r]]
    <3>1. CASE LockWallet(p)
      <4>1. rowLock' = [r \in Wallets \cup Topups |-> IF r \in {w} THEN p ELSE rowLock[r]]
        BY <1>a, <3>1 DEF LockWallet
      <4>2. rowLock[w] = None /\ req[p].event = None
        BY <3>1 DEF LockWallet, RowFree, TypeInv, ReqOK, RequestOK
      <4>3. QED
        BY <1>a, <4>1, <4>2
    <3>2. CASE CaptureLock(p)
      <4>1. req[p].event # None /\ req[p].topup \in Topups
        BY <3>2, WalletAssumption DEF CaptureLock, TypeInv, ReqOK, RequestOK, Events
      <4>2. rowLock' = [r \in Wallets \cup Topups |-> IF r \in {w, req[p].topup} THEN p ELSE rowLock[r]]
        BY <1>a, <3>2, <4>1 DEF CaptureLock
      <4>3. rowLock[w] = None /\ rowLock[req[p].topup] = None
        BY <3>2 DEF CaptureLock, RowFree
      <4>4. QED
        BY <1>a, <4>1, <4>2, <4>3
    <3>3. QED
      BY <1>3, <3>1, <3>2
  <2>2. /\ req' = [req EXCEPT ![p].step = "locked", ![p].read = balance[w]]
        /\ balance' = balance
        /\ req[p].step # "locked"
    BY <1>3 DEF LockWallet, CaptureLock
  <2>3. /\ \A q \in Workers \ {p} : req'[q] = req[q]
        /\ req'[p].step = "locked" /\ req'[p].read = balance[w] /\ req'[p].wallet = w
        /\ req'[p].topup = req[p].topup /\ req'[p].event = req[p].event
    BY <1>a, <2>2 DEF Request
  <2>4. ASSUME NEW q \in Workers, req'[q].step = "locked"
        PROVE  /\ rowLock'[req'[q].wallet] = q /\ req'[q].read = balance'[req'[q].wallet]
               /\ req'[q].event # None => rowLock'[req'[q].topup] = q
    <3>1. CASE q = p
      BY <1>a, <2>1, <2>2, <2>3, <3>1
    <3>2. CASE q # p
      <4>1. rowLock[req[q].wallet] = q /\ req[q].read = balance[req[q].wallet] /\ req'[q] = req[q]
        BY <2>3, <2>4, <3>2 DEF LockOK
      <4>2. req[q].wallet \notin S
        BY <1>b, <2>1, <4>1
      <4>3. req[q].event # None => req[q].topup \in Topups \ S /\ rowLock[req[q].topup] = q
        <5>1. req[q].event # None => req[q].topup \in Topups
          BY <1>a DEF TypeInv, ReqOK, RequestOK, Request
        <5>2. req[q].event # None => rowLock[req[q].topup] = q
          BY <2>3, <2>4, <3>2 DEF LockOK
        <5>3. QED
          BY <1>b, <2>1, <5>1, <5>2
      <4>4. QED
        BY <1>a, <2>1, <2>2, <4>1, <4>2, <4>3
    <3>3. QED
      BY <3>1, <3>2
  <2>5. ASSUME NEW r \in Wallets \cup Topups, rowLock'[r] # None
        PROVE  /\ req'[rowLock'[r]].step = "locked"
               /\ \/ r = req'[rowLock'[r]].wallet
                  \/ r = req'[rowLock'[r]].topup /\ req'[rowLock'[r]].event # None
    <3>1. CASE r \in S
      <4>1. rowLock'[r] = p
        BY <2>1, <3>1
      <4>2. QED
        BY <2>1, <2>3, <3>1, <4>1
    <3>2. CASE r \notin S
      <4>1. rowLock'[r] = rowLock[r] /\ rowLock[r] \in Workers
        BY <1>a, <2>1, <2>5, <3>2
      <4>2. rowLock[r] # p
        BY <2>2, <2>5, <4>1 DEF LockOK
      <4>3. QED
        BY <2>3, <2>5, <4>1, <4>2 DEF LockOK
    <3>3. QED
      BY <3>1, <3>2
  <2>6. QED
    BY <2>4, <2>5 DEF LockOK
<1>4. ASSUME NEW p \in Workers, Commit(p) \/ Insufficient(p) \/ Crash(p)
      PROVE LockOK'
  <2> DEFINE w == req[p].wallet
  <2>1. /\ rowLock' = [r \in Wallets \cup Topups |-> IF rowLock[r] = p THEN None ELSE rowLock[r]]
        /\ Return(p) \/ Goto(p, "finish")
    BY <1>4, <1>a DEF Commit, Insufficient, Crash, AfterApply, Release
  <2>2. (\A q \in Workers \ {p} : req'[q] = req[q]) /\ req'[p].step # "locked"
    <3>1. Rest.step # "locked" /\ [req[p] EXCEPT !.step = "finish"].step # "locked"
      BY <1>a DEF Rest, Request
    <3>2. QED
      BY <1>a, <2>1, <3>1 DEF Return, Goto
  <2>3. \/ balance' = balance
        \/ req[p].step = "locked" /\ \A x \in Wallets \ {w} : balance'[x] = balance[x]
    BY <1>4, <1>a DEF Commit, Insufficient, Crash
  <2>4. ASSUME NEW q \in Workers, req'[q].step = "locked"
        PROVE  /\ rowLock'[req'[q].wallet] = q /\ req'[q].read = balance'[req'[q].wallet]
               /\ req'[q].event # None => rowLock'[req'[q].topup] = q
    <3>1. /\ q # p /\ req'[q] = req[q] /\ req[q].wallet \in Wallets
          /\ rowLock[req[q].wallet] = q /\ req[q].read = balance[req[q].wallet]
          /\ req[q].event # None => rowLock[req[q].topup] = q
      BY <1>a, <2>2, <2>4 DEF LockOK
    <3>a. req[q].event # None => req[q].topup \in Topups
      BY <1>a DEF TypeInv, ReqOK, RequestOK, Request
    <3>2. rowLock'[req[q].wallet] = q /\ (req[q].event # None => rowLock'[req[q].topup] = q)
      BY <2>1, <3>1, <3>a
    <3>3. balance'[req[q].wallet] = balance[req[q].wallet]
      <4>1. req[p].step = "locked" => req[q].wallet # w
        BY <3>1 DEF LockOK
      <4>2. QED
        BY <2>3, <3>1, <4>1
    <3>4. QED
      BY <3>1, <3>2, <3>3
  <2>5. ASSUME NEW r \in Wallets \cup Topups, rowLock'[r] # None
        PROVE  /\ req'[rowLock'[r]].step = "locked"
               /\ \/ r = req'[rowLock'[r]].wallet
                  \/ r = req'[rowLock'[r]].topup /\ req'[rowLock'[r]].event # None
    <3>1. rowLock'[r] = rowLock[r] /\ rowLock[r] \in Workers \ {p} /\ rowLock[r] # None
      BY <1>a, <2>1, <2>5
    <3>2. QED
      BY <2>2, <3>1 DEF LockOK
  <2>6. QED
    BY <2>4, <2>5 DEF LockOK
<1>5. QED
  BY <1>1, <1>2, <1>3, <1>4, Shape

LEMMA LockInvariant == Spec => [](TypeInv /\ LockOK)
<1>1. Init => TypeInv /\ LockOK
  <2>1. Init => ReqOK
    BY WalletAssumption DEF Init, ReqOK, RequestOK, Rest
  <2>2. QED
    BY <2>1, InitType, InitLock DEF TypeInv
<1>2. TypeInv /\ LockOK /\ [Next]_vars => (TypeInv /\ LockOK)'
  BY NextType, NextReq, NextLock DEF TypeInv
<1>3. QED
  BY <1>1, <1>2, PTL DEF Spec

-----------------------------------------------------------------------------
\* The balance a posting read under the row lock is the balance it changes, and
\* the ledger row it writes, magnitude and type, says by how much.
LEMMA CommitPosts ==
  ASSUME TypeInv, LockOK, NEW p \in Workers, Commit(p)
  PROVE  LET w == req[p].wallet
             new == balance[w] + req[p].delta
             row == LedgerRow(req[p], new) IN
         /\ w \in Wallets
         /\ req[p].delta \in Deltas
         /\ new >= 0
         /\ balance' = [balance EXCEPT ![w] = new]
         /\ txns' = [txns EXCEPT ![w] = Append(txns[w], row)]
         /\ row \in [type : Types, amount : Nat, after : Nat]
         /\ Signed(row) = req[p].delta
         /\ row.after = new
<1> DEFINE w == req[p].wallet
           new == balance[w] + req[p].delta
           row == LedgerRow(req[p], new)
<1>1. /\ req[p] \in Request /\ w \in Wallets /\ balance[w] \in Nat
      /\ req[p].delta \in Int /\ req[p].type \in Types
  BY DEF TypeInv, TypeOK, Request
<1>2. req[p].step = "locked" /\ req[p].read = balance[w]
  BY DEF LockOK, Commit
<1>3. req[p].delta \in Deltas /\ IF req[p].type = "debit" THEN req[p].delta <= 0 ELSE req[p].delta >= 0
  BY <1>2 DEF TypeInv, ReqOK, RequestOK
<1>4. /\ new >= 0
      /\ balance' = [balance EXCEPT ![w] = new]
      /\ txns' = [txns EXCEPT ![w] = Append(txns[w], row)]
  BY <1>2 DEF Commit, Affordable
<1>5. row \in [type : Types, amount : Nat, after : Nat] /\ row.after = new
  BY <1>1, <1>4 DEF LedgerRow
<1>6. Signed(row) = req[p].delta
  BY <1>1, <1>3 DEF Signed, LedgerRow
<1>7. QED
  BY <1>1, <1>3, <1>4, <1>5, <1>6

LEMMA OthersDoNotPost ==
  ASSUME TypeInv, [Next]_vars, ~\E p \in Workers : Commit(p)
  PROVE  UNCHANGED <<balance, txns>>
<1>1. CASE \E p \in Workers, r \in Request : Quiet(p, r)
  BY <1>1 DEF Quiet
<1>2. CASE \E p \in Workers : LockWallet(p) \/ CaptureLock(p) \/ Insufficient(p) \/ Crash(p)
  BY <1>2 DEF LockWallet, CaptureLock, Insufficient, Crash, walletVars
<1>3. QED
  BY <1>1, <1>2, Shape

\* The ledger always explains the balance, however many requests post at once.
THEOREM LedgerCorrect == Spec => []LedgerExplainsBalance
<1> DEFINE T == [type : Types, amount : Nat, after : Nat]
<1>1. Init => LedgerExplainsBalance
  BY DEF Init, LedgerExplainsBalance, BalanceAfter
<1>2. ASSUME TypeInv, LockOK, LedgerExplainsBalance, [Next]_vars
      PROVE  LedgerExplainsBalance'
  <2>1. CASE \E p \in Workers : Commit(p)
    <3>1. PICK p \in Workers : Commit(p)
      BY <2>1
    <3> DEFINE w == req[p].wallet
               new == balance[w] + req[p].delta
               row == LedgerRow(req[p], new)
               s == txns[w]
               n == Len(s)
    <3>2. /\ w \in Wallets
          /\ balance' = [balance EXCEPT ![w] = new]
          /\ txns' = [txns EXCEPT ![w] = Append(s, row)]
          /\ row \in T /\ Signed(row) = req[p].delta /\ row.after = new
      BY <1>2, <3>1, CommitPosts
    <3>3. /\ balance \in [Wallets -> Nat] /\ txns \in [Wallets -> Seq(T)]
          /\ balance[w] = BalanceAfter(s, n)
          /\ \A i \in 1..n : s[i].after = BalanceAfter(s, i - 1) + Signed(s[i])
      BY <1>2, <3>2 DEF TypeInv, TypeOK, LedgerExplainsBalance
    <3>4. s \in Seq(T)
      BY <3>2, <3>3
    <3> HIDE DEF row, s
    <3> DEFINE s2 == Append(s, row)
    <3>5. /\ Len(s2) = n + 1 /\ n \in Nat
          /\ s2[n + 1] = row
          /\ \A i \in 1..n : s2[i] = s[i]
      BY <3>2, <3>4
    <3>6. \A i \in 0..n : BalanceAfter(s2, i) = BalanceAfter(s, i)
      BY <3>5 DEF BalanceAfter
    <3>7. BalanceAfter(s2, n + 1) = new
      BY <3>2, <3>5 DEF BalanceAfter
    <3>8. ASSUME NEW i \in 1..(n + 1)
          PROVE  s2[i].after = BalanceAfter(s2, i - 1) + Signed(s2[i])
      <4>1. CASE i = n + 1
        <5>1. BalanceAfter(s2, n) = balance[w]
          BY <3>3, <3>5, <3>6
        <5>2. QED
          BY <3>2, <3>5, <4>1, <5>1
      <4>2. CASE i # n + 1
        <5>1. i \in 1..n /\ i - 1 \in 0..n
          BY <3>5, <4>2
        <5>2. s2[i] = s[i] /\ BalanceAfter(s2, i - 1) = BalanceAfter(s, i - 1)
          BY <3>5, <3>6, <5>1
        <5>3. QED
          BY <3>3, <5>1, <5>2
      <4>3. QED
        BY <4>1, <4>2
    <3>9. ASSUME NEW x \in Wallets
          PROVE  /\ balance'[x] = BalanceAfter(txns'[x], Len(txns'[x]))
                 /\ \A i \in 1..Len(txns'[x]) :
                        txns'[x][i].after = BalanceAfter(txns'[x], i - 1) + Signed(txns'[x][i])
      <4>1. CASE x = w
        <5>1. balance'[x] = new /\ txns'[x] = s2
          BY <3>2, <3>3, <4>1
        <5>2. QED
          BY <3>5, <3>7, <3>8, <5>1
      <4>2. CASE x # w
        <5>1. balance'[x] = balance[x] /\ txns'[x] = txns[x]
          BY <3>2, <3>3, <4>2
        <5>2. QED
          BY <1>2, <5>1 DEF LedgerExplainsBalance
      <4>3. QED
        BY <4>1, <4>2
    <3>10. QED
      BY <3>9 DEF LedgerExplainsBalance, BalanceAfter, Signed
  <2>2. CASE ~\E p \in Workers : Commit(p)
    BY <1>2, <2>2, OthersDoNotPost DEF LedgerExplainsBalance, BalanceAfter, Signed
  <2>3. QED
    BY <2>1, <2>2
<1>3. QED
  BY <1>1, <1>2, LockInvariant, PTL DEF Spec

\* Each wallet implements the abstract ledger: every step of the server posts
\* one entry to it, from the balance before, or leaves it alone.
THEOREM WalletImplementsLedger == Spec => ImplementsLedger
<1> DEFINE Entry(x) == [delta |-> Signed(x), after |-> x.after]
           T == [type : Types, amount : Nat, after : Nat]
<1>1. ASSUME Init, NEW x \in Wallets
      PROVE  LedgerOf(x)!Init
  BY <1>1 DEF Init, LedgerOf!Init
<1>2. ASSUME TypeInv, LockOK, [Next]_vars, NEW x \in Wallets
      PROVE  [LedgerOf(x)!Next]_(LedgerOf(x)!vars)
  <2>1. CASE UNCHANGED <<balance, txns>>
    BY <2>1 DEF LedgerOf!vars, Signed
  <2>2. CASE \E p \in Workers : Commit(p)
    <3>1. PICK p \in Workers : Commit(p)
      BY <2>2
    <3> DEFINE w == req[p].wallet
               row == LedgerRow(req[p], balance[w] + req[p].delta)
               s == txns[w]
    <3>a. PICK d \in Deltas : d = req[p].delta
      BY <1>2, <3>1, CommitPosts
    <3>2. /\ w \in Wallets /\ balance[w] + d >= 0
          /\ balance' = [balance EXCEPT ![w] = balance[w] + d]
          /\ txns' = [txns EXCEPT ![w] = Append(s, row)]
          /\ row \in T /\ Signed(row) = d /\ row.after = balance[w] + d
      BY <1>2, <3>1, <3>a, CommitPosts
    <3>3. balance \in [Wallets -> Nat] /\ txns \in [Wallets -> Seq(T)]
      BY <1>2 DEF TypeInv, TypeOK
    <3>4. CASE x # w
      <4>1. balance'[x] = balance[x] /\ txns'[x] = txns[x]
        BY <3>2, <3>3, <3>4
      <4>2. QED
        BY <4>1 DEF LedgerOf!vars, Signed
    <3>5. CASE x = w
      <4>1. s \in Seq(T)
        BY <3>2, <3>3
      <4>2. balance'[x] = balance[x] + d /\ txns'[x] = Append(s, row)
        BY <3>2, <3>3, <3>5
      <4> HIDE DEF row, s
      <4> DEFINE s2 == Append(s, row)
                 old == [i \in 1..Len(s) |-> Entry(s[i])]
                 nxt == [i \in 1..Len(s2) |-> Entry(s2[i])]
      <4>3. Entry(row) = [delta |-> d, after |-> balance[x] + d]
        BY <3>2, <3>5
      <4>4. nxt = Append(old, Entry(row))
        BY <3>2, <4>1
      <4>5. LedgerOf(x)!Post(d)
        <5>1. [i \in 1..Len(txns[x]) |-> Entry(txns[x][i])] = old
          BY <3>5 DEF s
        <5>2. [i \in 1..Len(txns'[x]) |-> Entry(txns'[x][i])] = nxt
          BY <4>2
        <5>3. balance[x] + d >= 0
          BY <3>2, <3>5
        <5> HIDE DEF old, nxt
        <5>4. QED
          BY <4>2, <4>3, <4>4, <5>1, <5>2, <5>3 DEF LedgerOf!Post, Signed
      <4>6. QED
        BY <4>5 DEF LedgerOf!Next
    <3>6. QED
      BY <3>4, <3>5
  <2>3. QED
    BY <1>2, <2>1, <2>2, OthersDoNotPost
<1>3. TypeInv /\ LockOK /\ [Next]_vars => [LedgersNext]_vars
  BY <1>2 DEF LedgersNext
<1>4. Init => LedgersInit
  BY <1>1 DEF LedgersInit
<1>5. QED
  BY <1>3, <1>4, LockInvariant, PTL DEF Spec, ImplementsLedger

-----------------------------------------------------------------------------
LEMMA AboutStep ==
  ASSUME NEW t \in Topups, NEW s \in Steps
  PROVE  [About(t) EXCEPT !.step = s] = [About(t) EXCEPT !.step = s, !.event = None]
<1> DEFINE A == About(t)
<1>1. A \in Request /\ A.event = None
  BY AboutOK DEF About, Rest
<1> HIDE DEF A
<1>2. [A EXCEPT !.step = s] = [A EXCEPT !.step = s, !.event = None]
  BY <1>1 DEF Request
<1>3. QED
  BY <1>2 DEF A

\* What starting a request leaves in its record, and what was read for it.
LEMMA StartFields ==
  ASSUME TypeInv, NEW p \in Workers, Start(p)
  PROVE  /\ req[p].step = "idle"
         /\ \A q \in Workers \ {p} : req'[q] = req[q]
         /\ req'[p] \in Request
         /\ UNCHANGED <<balance, txns, status, credits, lost, emitted>>
         /\ \A t \in Topups : gateway'[t] = gateway[t] \/ gateway'[t] = "paid"
         /\ \/ /\ req'[p].topup = None /\ req'[p].step = "apply"
               /\ UNCHANGED overlapped
            \/ \E t \in Topups :
                 /\ req'[p].topup = t
                 /\ overlapped' = [overlapped EXCEPT ![t] = @ \/ InFlight(t) # {}]
                 /\ \/ req'[p].step = "verify_save" /\ gateway'[t] = "paid" /\ status[t] # "success"
                    \/ req'[p].step = "verify_fail" /\ status[t] # "success"
                    \/ req'[p].step = "dispatch"
<1> USE DEF walletVars, gatewayVars, historyVars
<1>a. /\ req \in [Workers -> Request] /\ gateway \in [Topups -> {"none", "open", "paid"}]
  BY DEF TypeInv, TypeOK
<1>1. ASSUME NEW t \in Topups, NEW signed \in BOOLEAN, Verify(p, t, signed)
      PROVE  /\ req[p].step = "idle"
             /\ \E s \in {"verify_save", "verify_fail"} :
                   /\ req' = [req EXCEPT ![p] = [About(t) EXCEPT !.step = s, !.event = None]]
                   /\ s = "verify_save" => gateway[t] = "paid"
             /\ gateway' = gateway /\ status[t] # "success"
             /\ overlapped' = [overlapped EXCEPT ![t] = @ \/ InFlight(t) # {}]
             /\ UNCHANGED <<balance, txns, status, credits, lost, emitted>>
  <2>1. PICK s \in {"verify_save", "verify_fail"} :
           /\ req' = [req EXCEPT ![p] = [About(t) EXCEPT !.step = s]]
           /\ s = "verify_save" => gateway[t] = "paid"
    BY <1>1 DEF Verify, SignatureValid
  <2>2. s \in Steps
    BY DEF Steps
  <2>3. [About(t) EXCEPT !.step = s] = [About(t) EXCEPT !.step = s, !.event = None]
    BY <2>2, AboutStep
  <2>4. QED
    BY <1>1, <2>1, <2>3 DEF Verify, Idle, AlreadyCaptured, NoteOverlap
<1>2. ASSUME NEW t \in Topups, MockPay(p, t)
      PROVE  /\ req[p].step = "idle"
             /\ req' = [req EXCEPT ![p] = [About(t) EXCEPT !.step = "verify_save", !.event = None]]
             /\ gateway' = [gateway EXCEPT ![t] = "paid"] /\ status[t] # "success"
             /\ overlapped' = [overlapped EXCEPT ![t] = @ \/ InFlight(t) # {}]
             /\ UNCHANGED <<balance, txns, status, credits, lost, emitted>>
  <2>1. "verify_save" \in Steps
    BY DEF Steps
  <2>2. [About(t) EXCEPT !.step = "verify_save"] = [About(t) EXCEPT !.step = "verify_save", !.event = None]
    BY <2>1, AboutStep
  <2>3. QED
    BY <1>2, <2>2 DEF MockPay, Idle, AlreadyCaptured, NoteOverlap
<1>3. ASSUME NEW t \in Topups, NEW e \in Events, Webhook(p, t, e)
      PROVE  /\ req[p].step = "idle"
             /\ req' = [req EXCEPT ![p] = [About(t) EXCEPT !.step = "dispatch", !.event = e]]
             /\ gateway' = gateway
             /\ overlapped' = [overlapped EXCEPT ![t] = @ \/ InFlight(t) # {}]
             /\ UNCHANGED <<balance, txns, status, credits, lost, emitted>>
  BY <1>3 DEF Webhook, Idle, NoteOverlap
<1>4. ASSUME NEW w \in Wallets, NEW a \in Amounts, Spend(p, w, a) \/ Refund(p, w, a)
      PROVE  /\ req[p].step = "idle"
             /\ \E r \in Request : r.step = "apply" /\ r.topup = None /\ req' = [req EXCEPT ![p] = r]
             /\ UNCHANGED <<gateway, overlapped, balance, txns, status, credits, lost, emitted>>
  <2>1. a \in Int /\ -a \in Int /\ "debit" \in Types /\ "refund" \in Types
    BY WalletAssumption DEF Types
  <2>2. ASSUME NEW y \in Types, NEW d \in Int
        PROVE  LET r == [Rest EXCEPT !.step = "apply", !.wallet = w, !.type = y, !.delta = d] IN
               r \in Request /\ r.step = "apply" /\ r.topup = None
    BY RestOK DEF Request, Steps, Rest
  <2>3. CASE Spend(p, w, a)
    BY <2>1, <2>2, <2>3 DEF Spend, Idle
  <2>4. CASE Refund(p, w, a)
    BY <2>1, <2>2, <2>4 DEF Refund, Idle
  <2>5. QED
    BY <1>4, <2>3, <2>4
<1>5. ASSUME NEW t \in Topups, NEW s \in {"verify_save", "verify_fail", "dispatch"}, NEW e \in Events \cup {None},
             req' = [req EXCEPT ![p] = [About(t) EXCEPT !.step = s, !.event = e]]
      PROVE  /\ \A q \in Workers \ {p} : req'[q] = req[q]
             /\ req'[p] \in Request /\ req'[p].step = s /\ req'[p].topup = t
  <2> DEFINE r == [About(t) EXCEPT !.step = s, !.event = e]
  <2>1. s \in Steps
    BY DEF Steps
  <2>2. r \in Request /\ r.step = s /\ r.topup = t
    <3> DEFINE A == About(t)
    <3>1. A \in Request /\ A.topup = t
      BY AboutOK DEF About, Rest
    <3> HIDE DEF A
    <3>2. LET x == [A EXCEPT !.step = s, !.event = e] IN x \in Request /\ x.step = s /\ x.topup = t
      BY <2>1, <3>1 DEF Request
    <3>3. QED
      BY <3>2 DEF A
  <2> HIDE DEF r
  <2>3. req' = [req EXCEPT ![p] = r]
    BY <1>5 DEF r
  <2>4. QED
    BY <1>a, <2>2, <2>3
<1>6. CASE \E t \in Topups, signed \in BOOLEAN : Verify(p, t, signed)
  <2>1. PICK t \in Topups, signed \in BOOLEAN : Verify(p, t, signed)
    BY <1>6
  <2>2. PICK s \in {"verify_save", "verify_fail"} :
           /\ req' = [req EXCEPT ![p] = [About(t) EXCEPT !.step = s, !.event = None]]
           /\ s = "verify_save" => gateway[t] = "paid"
    BY <1>1, <2>1
  <2>3. /\ req[p].step = "idle" /\ gateway' = gateway /\ status[t] # "success"
        /\ overlapped' = [overlapped EXCEPT ![t] = @ \/ InFlight(t) # {}]
        /\ UNCHANGED <<balance, txns, status, credits, lost, emitted>>
    BY <1>1, <2>1
  <2>4. /\ \A q \in Workers \ {p} : req'[q] = req[q]
        /\ req'[p] \in Request /\ req'[p].step = s /\ req'[p].topup = t
    BY <1>5, <2>2
  <2>5. QED
    BY <2>2, <2>3, <2>4
<1>7. CASE \E t \in Topups : MockPay(p, t)
  BY <1>2, <1>5, <1>7, <1>a
<1>8. CASE \E t \in Topups, e \in Events : Webhook(p, t, e)
  BY <1>3, <1>5, <1>8
<1>9. CASE \E w \in Wallets, a \in Amounts : Spend(p, w, a) \/ Refund(p, w, a)
  BY <1>4, <1>9, <1>a
<1>10. QED
  BY <1>6, <1>7, <1>8, <1>9, Zenon DEF Start

\* Going on keeps what the request is about, or ends it.
Keeps(p, step) ==
    /\ req'[p].step = step
    /\ req'[p].topup = req[p].topup /\ req'[p].event = req[p].event

Ends(p) == req'[p].step = "idle" /\ req'[p].topup = None

LEMMA ContinueFields ==
  ASSUME TypeInv, NEW p \in Workers, Continue(p) \/ Crash(p)
  PROVE  /\ \A q \in Workers \ {p} : req'[q] = req[q]
         /\ UNCHANGED <<emitted, gateway, overlapped>>
         /\ req[p].step # "idle"
         /\ \/ Commit(p)
            \/ credits' = credits /\ \A x \in Topups : x # req[p].topup => status'[x] = status[x]
         /\ \/ /\ req[p].step = "locked" /\ Commit(p)
               /\ Ends(p) \/ (req[p].event # None /\ Keeps(p, "finish"))
            \/ credits' = credits /\ Crash(p) /\ Ends(p) /\ UNCHANGED status
            \/ /\ UNCHANGED <<credits, lost>>
               /\ \/ /\ req[p].step = "verify_save" /\ Keeps(p, "apply")
                     /\ status' = [status EXCEPT ![req[p].topup] = "success"]
                  \/ /\ req[p].step = "verify_fail" /\ Ends(p)
                     /\ status' = [status EXCEPT ![req[p].topup] = "failed"]
                  \/ /\ req[p].step = "mark_failed" /\ Keeps(p, "finish")
                     /\ status' = [status EXCEPT ![req[p].topup] = "failed"]
                  \/ /\ req[p].step = "dispatch" /\ UNCHANGED status
                     /\ \/ Keeps(p, "capture_apply") /\ status[req[p].topup] # "success"
                        \/ Keeps(p, "mark_failed") /\ status[req[p].topup] = "created"
                        \/ Keeps(p, "finish")
                  \/ req[p].step = "apply" /\ Keeps(p, "locked") /\ UNCHANGED status
                  \/ req[p].step = "capture_apply" /\ Keeps(p, "locked") /\ UNCHANGED status
                  \/ req[p].step = "finish" /\ Ends(p) /\ UNCHANGED status
                  \/ /\ req[p].step = "locked" /\ Ends(p) /\ UNCHANGED status
                     /\ req[p].read + req[p].delta < 0
<1> USE DEF walletVars, gatewayVars, historyVars
<1>a. /\ req \in [Workers -> Request] /\ req[p] \in Request
      /\ status \in [Topups -> {"none", "created", "success", "failed"}]
  BY DEF TypeInv, TypeOK
<1>b. ASSUME Return(p)
      PROVE  Ends(p) /\ \A q \in Workers \ {p} : req'[q] = req[q]
  <2>1. Rest.step = "idle" /\ Rest.topup = None
    BY DEF Rest
  <2>2. QED
    BY <1>a, <1>b, <2>1 DEF Return, Ends
<1>c. ASSUME NEW s \in Steps, Goto(p, s)
      PROVE  Keeps(p, s) /\ \A q \in Workers \ {p} : req'[q] = req[q]
  BY <1>a, <1>c DEF Goto, Keeps, Request
<1>d. Steps = {"idle", "verify_save", "verify_fail", "dispatch", "mark_failed", "finish",
               "capture_apply", "apply", "locked"}
  BY DEF Steps
<1>1. CASE VerifySave(p)
  BY <1>a, <1>c, <1>d, <1>1 DEF VerifySave
<1>2. CASE VerifyFail(p)
  BY <1>a, <1>b, <1>2 DEF VerifyFail
<1>3. CASE Dispatch(p)
  <2>1. PICK s \in {"capture_apply", "mark_failed", "finish"} :
          /\ Goto(p, s)
          /\ s = "capture_apply" => status[req[p].topup] # "success"
          /\ s = "mark_failed" => status[req[p].topup] = "created"
    BY <1>3 DEF Dispatch, AlreadyCaptured
  <2>2. Keeps(p, s) /\ \A q \in Workers \ {p} : req'[q] = req[q]
    BY <1>c, <1>d, <2>1
  <2>3. QED
    BY <1>3, <2>1, <2>2 DEF Dispatch
<1>4. CASE MarkFailed(p)
  BY <1>a, <1>c, <1>d, <1>4 DEF MarkFailed
<1>5. CASE Finish(p)
  BY <1>b, <1>5 DEF Finish
<1>6. CASE LockWallet(p) \/ CaptureLock(p)
  <2>1. Keeps(p, "locked") /\ \A q \in Workers \ {p} : req'[q] = req[q]
    BY <1>a, <1>6 DEF LockWallet, CaptureLock, Keeps, Request
  <2>2. QED
    BY <1>6, <2>1 DEF LockWallet, CaptureLock
<1>7. CASE Commit(p)
  <2>1. CASE Return(p)
    BY <1>b, <1>7, <2>1 DEF Commit
  <2>2. CASE req[p].event # None /\ Goto(p, "finish")
    BY <1>c, <1>d, <1>7, <2>2 DEF Commit
  <2>3. QED
    BY <1>7, <2>1, <2>2 DEF Commit, AfterApply
<1>8. CASE Insufficient(p)
  <2>1. req[p].read + req[p].delta < 0
    BY <1>a, <1>8 DEF Insufficient, Affordable, Request
  <2>2. QED
    BY <1>b, <1>8, <2>1 DEF Insufficient
<1>9. CASE Crash(p)
  BY <1>b, <1>9 DEF Crash, Idle
<1>10. QED
  BY <1>1, <1>2, <1>3, <1>4, <1>5, <1>6, <1>7, <1>8, <1>9, Zenon DEF Continue

-----------------------------------------------------------------------------
LEMMA NextPaid == TypeInv /\ PaidOK /\ [Next]_vars => PaidOK'
<1> SUFFICES ASSUME TypeInv, PaidOK, [Next]_vars PROVE PaidOK'
  OBVIOUS
<1> USE DEF walletVars, gatewayVars, historyVars
<1>a. /\ gateway \in [Topups -> {"none", "open", "paid"}] /\ emitted \in [Topups -> SUBSET Events]
      /\ credits \in [Topups -> Nat] /\ None \notin Topups
      /\ \A p \in Workers : req[p] \in Request /\ req[p].topup \in Topups \cup {None}
  BY WalletAssumption DEF TypeInv, TypeOK, Request
<1>1. ASSUME NEW t \in Topups, CreateTopup(t) \/ LinkTopup(t) \/ AttemptDeclined(t) \/ CustomerPays(t)
      PROVE PaidOK'
  <2>1. UNCHANGED <<req, credits>>
    BY <1>1 DEF CreateTopup, LinkTopup, AttemptDeclined, CustomerPays
  <2>2. \A x \in Topups : gateway[x] = "paid" => gateway'[x] = "paid"
    BY <1>1, <1>a DEF CreateTopup, LinkTopup, AttemptDeclined, CustomerPays
  <2>3. \A x \in Topups : emitted'[x] \cap {"authorized", "captured"} # {} => gateway'[x] = "paid"
    <3>1. CASE CreateTopup(t) \/ LinkTopup(t)
      BY <2>2, <3>1 DEF CreateTopup, LinkTopup, PaidOK
    <3>2. CASE AttemptDeclined(t)
      BY <1>a, <3>2 DEF AttemptDeclined, PaidOK
    <3>3. CASE CustomerPays(t)
      BY <1>a, <3>3 DEF CustomerPays, PaidOK
    <3>4. QED
      BY <1>1, <3>1, <3>2, <3>3
  <2>4. QED
    BY <1>a, <2>1, <2>2, <2>3 DEF PaidOK, CreditedOnlyIfPaid
<1>2. ASSUME NEW p \in Workers, Start(p)
      PROVE PaidOK'
  <2>1. \A x \in Topups : gateway[x] = "paid" => gateway'[x] = "paid"
    BY <1>2, <1>a, StartFields
  <2>2. /\ \A q \in Workers \ {p} : req'[q] = req[q]
        /\ UNCHANGED <<credits, emitted>>
        /\ req'[p].topup # None /\ req'[p].step \in {"verify_save", "apply", "locked"}
               => gateway'[req'[p].topup] = "paid"
    BY <1>2, StartFields
  <2>3. QED
    BY <1>a, <2>1, <2>2 DEF PaidOK, CreditedOnlyIfPaid
<1>3. ASSUME NEW p \in Workers, Continue(p) \/ Crash(p)
      PROVE PaidOK'
  <2>1. /\ \A q \in Workers \ {p} : req'[q] = req[q]
        /\ UNCHANGED <<emitted, gateway>>
    BY <1>3, ContinueFields
  <2>2. /\ req[p].step = "capture_apply" => gateway[req[p].topup] = "paid"
    <3>1. ASSUME req[p].step = "capture_apply"
          PROVE  req[p].event \in {"authorized", "captured"} /\ req[p].event \in emitted[req[p].topup]
                 /\ req[p].topup \in Topups
      BY <3>1, WalletAssumption DEF TypeInv, ReqOK, RequestOK, Events
    <3>2. QED
      BY <3>1 DEF PaidOK
  <2>3. req'[p].topup # None /\ req'[p].step \in {"verify_save", "apply", "locked"}
          => gateway[req'[p].topup] = "paid"
    BY <1>3, <2>2, ContinueFields DEF PaidOK, Keeps, Ends
  <2>4. \A x \in Topups : credits'[x] > 0 => gateway[x] = "paid"
    <3>1. CASE credits' = credits
      BY <3>1 DEF PaidOK, CreditedOnlyIfPaid
    <3>2. CASE Commit(p)
      BY <1>a, <3>2 DEF Commit, PaidOK, CreditedOnlyIfPaid
    <3>3. QED
      BY <1>3, <3>1, <3>2, ContinueFields
  <2>5. QED
    BY <1>a, <2>1, <2>3, <2>4 DEF PaidOK, CreditedOnlyIfPaid
<1>4. CASE UNCHANGED vars
  BY <1>4 DEF vars, PaidOK, CreditedOnlyIfPaid
<1>5. QED
  BY <1>1, <1>2, <1>3, <1>4, Zenon DEF Next

LEMMA NextOnce == TypeInv /\ LockOK /\ OnceOK /\ [Next]_vars => OnceOK'
<1> SUFFICES ASSUME TypeInv, LockOK, OnceOK, [Next]_vars PROVE OnceOK'
  OBVIOUS
<1> USE DEF walletVars, gatewayVars, historyVars
<1>a. /\ status \in [Topups -> {"none", "created", "success", "failed"}]
      /\ credits \in [Topups -> Nat] /\ overlapped \in [Topups -> BOOLEAN] /\ None \notin Topups
      /\ \A p \in Workers : req[p] \in Request /\ req[p].topup \in Topups \cup {None}
  BY WalletAssumption DEF TypeInv, TypeOK, Request
<1>1. ASSUME NEW t \in Topups, CreateTopup(t) \/ LinkTopup(t) \/ AttemptDeclined(t) \/ CustomerPays(t)
      PROVE OnceOK'
  <2>1. UNCHANGED <<req, credits, overlapped>> /\ \A x \in Topups : status[x] = "success" => status'[x] = "success"
    BY <1>1, <1>a DEF CreateTopup, LinkTopup, AttemptDeclined, CustomerPays
  <2>2. QED
    BY <2>1 DEF OnceOK, InFlight
<1>2. ASSUME NEW p \in Workers, Start(p)
      PROVE OnceOK'
  <2>1. /\ \A q \in Workers \ {p} : req'[q] = req[q]
        /\ UNCHANGED <<status, credits>>
    BY <1>2, StartFields
  <2>2. CASE req'[p].topup = None /\ UNCHANGED overlapped
    BY <1>a, <2>1, <2>2 DEF OnceOK, InFlight
  <2>3. ASSUME NEW t \in Topups, req'[p].topup = t,
               overlapped' = [overlapped EXCEPT ![t] = @ \/ InFlight(t) # {}],
               req'[p].step \in {"verify_save", "verify_fail", "dispatch"},
               req'[p].step = "dispatch" \/ status[t] # "success"
        PROVE  OnceOK'
    <3>1. ASSUME NEW x \in Topups, ~overlapped'[x], x # t
          PROVE  ~overlapped[x] /\ \A q \in Workers : req'[q].topup = x => req'[q] = req[q]
      BY <1>a, <2>1, <2>3, <3>1
    <3>2. ASSUME ~overlapped'[t]
          PROVE  ~overlapped[t] /\ \A q \in Workers : req'[q].topup = t => q = p
      BY <1>a, <2>1, <2>3, <3>2 DEF InFlight
    <3>3. QED
      BY <2>1, <2>3, <3>1, <3>2 DEF OnceOK, InFlight
  <2>4. QED
    BY <1>2, <2>2, <2>3, StartFields
<1>3. ASSUME NEW p \in Workers, Continue(p) \/ Crash(p)
      PROVE OnceOK'
  <2>1. /\ \A q \in Workers \ {p} : req'[q] = req[q]
        /\ UNCHANGED overlapped
        /\ Ends(p) \/ (req'[p].topup = req[p].topup /\ req[p].step # "idle")
    BY <1>3, ContinueFields DEF Keeps
  <2>2. ASSUME NEW x \in Topups, ~overlapped'[x]
        PROVE  /\ \A q, r \in InFlight(x)' : q = r
               /\ credits'[x] \in {0, 1}
               /\ credits'[x] = 1 => status'[x] = "success"
               /\ \A q \in InFlight(x)' :
                     /\ req'[q].step \in {"dispatch", "finish"} \/ credits'[x] = 0
                     /\ req'[q].event = None /\ req'[q].step \in {"apply", "locked"} => status'[x] = "success"
    <3>1. /\ \A q, r \in InFlight(x) : q = r
          /\ credits[x] \in {0, 1}
          /\ credits[x] = 1 => status[x] = "success"
          /\ \A q \in InFlight(x) :
                /\ req[q].step \in {"dispatch", "finish"} \/ credits[x] = 0
                /\ req[q].event = None /\ req[q].step \in {"apply", "locked"} => status[x] = "success"
      BY <2>1, <2>2 DEF OnceOK
    <3>2. \A q \in InFlight(x)' : q \in InFlight(x)
      BY <1>a, <2>1, <2>2 DEF InFlight, Ends
    <3>3. CASE req[p].topup # x
      <4>1. credits'[x] = credits[x] /\ (status[x] = "success" => status'[x] = "success")
        <5>1. CASE Commit(p)
          BY <1>a, <3>3, <5>1 DEF Commit
        <5>2. CASE ~Commit(p)
          BY <1>3, <1>a, <3>3, <5>2, ContinueFields
        <5>3. QED
          BY <5>1, <5>2
      <4>2. \A q \in InFlight(x)' : req'[q] = req[q]
        BY <2>1, <3>2, <3>3 DEF InFlight
      <4>3. QED
        BY <3>1, <3>2, <4>1, <4>2
    <3>4. CASE req[p].topup = x
      <4>1. p \in InFlight(x) /\ \A q \in InFlight(x)' : q = p
        BY <3>1, <3>2, <3>4 DEF InFlight
      <4>2. CASE Commit(p)
        <5>1. req[p].step = "locked" /\ credits[x] = 0 /\ credits'[x] = 1
          <6>1. req[p].step = "locked" /\ credits'[x] = credits[x] + 1
            BY <1>a, <3>4, <4>2 DEF Commit
          <6>2. credits[x] = 0
            BY <3>1, <4>1, <6>1
          <6>3. QED
            BY <6>1, <6>2
        <5>2. status'[x] = "success"
          <6>1. CASE req[p].event = None
            <7>1. status[x] = "success"
              BY <3>1, <4>1, <5>1, <6>1
            <7>2. QED
              BY <1>a, <4>2, <7>1 DEF Commit
          <6>2. CASE req[p].event # None
            <7>1. rowLock[x] = p
              BY <3>4, <5>1, <6>2 DEF LockOK
            <7>2. QED
              BY <4>2, <7>1 DEF Commit
          <6>3. QED
            BY <6>1, <6>2
        <5>3. \A q \in InFlight(x)' : req'[q].step = "finish"
          BY <1>3, <1>a, <4>1, <4>2, <5>1, ContinueFields DEF Keeps, Ends, InFlight
        <5>4. QED
          BY <4>1, <5>1, <5>2, <5>3
      <4>3. CASE ~Commit(p)
        <5>1. credits' = credits
          BY <1>3, <4>3, ContinueFields
        <5>2. CASE Ends(p)
          <6>1. \A q \in InFlight(x)' : FALSE
            BY <1>a, <4>1, <5>2 DEF InFlight, Ends
          <6>2. credits[x] = 1 => status'[x] = "success"
            BY <1>3, <3>1, <3>4, <4>1, <4>3, <5>2, ContinueFields DEF Keeps, Ends
          <6>3. QED
            BY <3>1, <5>1, <6>1, <6>2
        <5>3. CASE ~Ends(p) /\ req[p].step = "verify_save"
          <6>1. Keeps(p, "apply") /\ status' = [status EXCEPT ![req[p].topup] = "success"]
            BY <1>3, <4>3, <5>3, ContinueFields DEF Keeps, Ends
          <6>2. status'[x] = "success" /\ credits[x] = 0
            BY <1>a, <3>1, <3>4, <4>1, <5>3, <6>1
          <6>3. QED
            BY <4>1, <5>1, <6>2
        <5>4. CASE ~Ends(p) /\ req[p].step = "mark_failed"
          <6>1. req'[p].step = "finish" /\ credits[x] = 0
            BY <1>3, <1>a, <3>1, <3>4, <4>1, <4>3, <5>4, ContinueFields DEF Keeps
          <6>2. QED
            BY <4>1, <5>1, <6>1
        <5>5. CASE ~Ends(p) /\ req[p].step \in {"dispatch", "apply", "capture_apply"}
          <6>a. /\ UNCHANGED status
                /\ \/ Keeps(p, "finish")
                   \/ Keeps(p, "capture_apply") /\ status[x] # "success"
                   \/ Keeps(p, "mark_failed") /\ status[x] = "created"
                   \/ Keeps(p, "locked") /\ req[p].step = "apply"
                   \/ Keeps(p, "locked") /\ req[p].step = "capture_apply"
            BY <1>3, <3>4, <4>3, <5>5, ContinueFields DEF Keeps, Ends
          <6>1. /\ UNCHANGED status /\ req'[p].event = req[p].event
                /\ \/ req'[p].step = "finish"
                   \/ req'[p].step \in {"capture_apply", "mark_failed"} /\ status[x] # "success"
                   \/ req'[p].step = "locked" /\ req[p].step = "apply"
                   \/ req'[p].step = "locked" /\ req[p].step = "capture_apply"
            BY <6>a DEF Keeps
          <6>2. req[p].step = "capture_apply" => req[p].event # None
            BY WalletAssumption DEF TypeInv, ReqOK, RequestOK, Events
          <6>3. QED
            BY <3>1, <4>1, <5>1, <5>5, <6>1, <6>2
        <5>6. Ends(p) \/ req[p].step \in {"verify_save", "mark_failed", "dispatch", "apply", "capture_apply"}
          BY <1>3, <4>3, ContinueFields DEF Keeps, Ends
        <5>7. QED
          BY <5>2, <5>3, <5>4, <5>5, <5>6
      <4>4. QED
        BY <4>2, <4>3
    <3>5. QED
      BY <3>3, <3>4
  <2>3. QED
    BY <2>2 DEF OnceOK
<1>4. CASE UNCHANGED vars
  BY <1>4 DEF vars, OnceOK, InFlight
<1>5. QED
  BY <1>1, <1>2, <1>3, <1>4, Zenon DEF Next

LEMMA NextSuccess == TypeInv /\ LockOK /\ SuccessIsCredited /\ [Next]_vars => SuccessIsCredited'
<1> SUFFICES ASSUME TypeInv, LockOK, SuccessIsCredited, [Next]_vars, NEW x \in Topups, status'[x] = "success"
             PROVE  \/ credits'[x] > 0
                    \/ lost'[x]
                    \/ \E p \in InFlight(x)' : req'[p].event = None /\ req'[p].step \in {"apply", "locked"}
  BY DEF SuccessIsCredited
<1> USE DEF walletVars, gatewayVars, historyVars
<1> DEFINE Goal == \/ credits'[x] > 0
                   \/ lost'[x]
                   \/ \E p \in InFlight(x)' : req'[p].event = None /\ req'[p].step \in {"apply", "locked"}
           Before == \/ credits[x] > 0
                     \/ lost[x]
                     \/ \E p \in InFlight(x) : req[p].event = None /\ req[p].step \in {"apply", "locked"}
<1>a. /\ status \in [Topups -> {"none", "created", "success", "failed"}]
      /\ credits \in [Topups -> Nat] /\ lost \in [Topups -> BOOLEAN] /\ None \notin Topups
      /\ \A p \in Workers : req[p] \in Request /\ req[p].topup \in Topups \cup {None}
  BY WalletAssumption DEF TypeInv, TypeOK, Request
<1>b. status[x] = "success" => Before
  BY DEF SuccessIsCredited
<1>1. ASSUME NEW t \in Topups, CreateTopup(t) \/ LinkTopup(t) \/ AttemptDeclined(t) \/ CustomerPays(t)
      PROVE Goal
  <2>1. UNCHANGED <<req, credits, lost>> /\ status[x] = "success"
    BY <1>1, <1>a DEF CreateTopup, LinkTopup, AttemptDeclined, CustomerPays
  <2>2. QED
    BY <1>b, <2>1 DEF InFlight
<1>2. ASSUME NEW p \in Workers, Start(p)
      PROVE Goal
  <2>1. /\ UNCHANGED <<status, credits, lost>> /\ req[p].step = "idle"
        /\ \A q \in Workers \ {p} : req'[q] = req[q]
    BY <1>2, StartFields
  <2>2. QED
    BY <1>b, <2>1 DEF InFlight
<1>3. ASSUME NEW p \in Workers, Continue(p) \/ Crash(p)
      PROVE Goal
  <2>1. /\ \A q \in Workers \ {p} : req'[q] = req[q]
        /\ req[p].step # "idle"
    BY <1>3, ContinueFields
  <2>2. CASE Commit(p)
    <3>1. req[p].step = "locked" /\ UNCHANGED lost
      BY <2>2 DEF Commit
    <3>2. CASE req[p].topup = x
      BY <1>a, <2>2, <3>2 DEF Commit
    <3>3. CASE req[p].topup # x
      <4>1. rowLock[x] # p
        <5>1. x \notin Wallets /\ p # None
          BY WalletAssumption
        <5>2. req[p].wallet # x
          BY <1>a, <5>1 DEF Request
        <5>3. QED
          BY <3>3, <5>1, <5>2 DEF LockOK
      <4>2. credits'[x] = credits[x] /\ status'[x] = status[x]
        BY <1>a, <2>2, <3>3, <4>1 DEF Commit
      <4>3. QED
        BY <1>b, <2>1, <3>1, <3>3, <4>2 DEF InFlight
    <3>4. QED
      BY <3>2, <3>3
  <2>3. CASE Crash(p)
    <3>1. UNCHANGED <<status, credits>>
      BY <2>3 DEF Crash
    <3>2. \A y \in Topups : lost[y] => lost'[y]
      BY <1>a, <2>3 DEF Crash
    <3>3. req[p].topup = x /\ req[p].event = None /\ req[p].step \in {"apply", "locked"} => lost'[x]
      BY <1>a, <2>3 DEF Crash
    <3>4. QED
      BY <1>b, <2>1, <3>1, <3>2, <3>3 DEF InFlight
  <2>4. CASE ~Commit(p) /\ ~Crash(p)
    <3>1. UNCHANGED <<credits, lost>>
      BY <1>3, <2>4, ContinueFields
    <3>2. CASE req[p].step = "verify_save"
      <4>1. Keeps(p, "apply") /\ status' = [status EXCEPT ![req[p].topup] = "success"]
        BY <1>3, <2>4, <3>2, ContinueFields
      <4>2. req[p].event = None /\ req[p].topup \in Topups
        BY <3>2 DEF TypeInv, ReqOK, RequestOK
      <4>3. CASE req[p].topup = x
        BY <4>1, <4>2, <4>3 DEF Keeps, InFlight
      <4>4. CASE req[p].topup # x
        <5>1. status[x] = "success"
          BY <1>a, <4>1, <4>4
        <5>2. QED
          BY <1>b, <2>1, <3>1, <3>2, <5>1 DEF InFlight
      <4>5. QED
        BY <4>3, <4>4
    <3>3. CASE req[p].step = "locked"
      <4>1. /\ UNCHANGED status
            /\ req[p].read + req[p].delta < 0
        BY <1>3, <2>4, <3>3, ContinueFields
      <4>2. req[p].topup = None
        <5>1. req[p].read \in Nat /\ (req[p].topup # None => req[p].delta = TopupAmount)
          BY <1>a DEF TypeInv, ReqOK, RequestOK, Request
        <5>2. QED
          BY <4>1, <5>1, WalletAssumption
      <4>3. QED
        BY <1>a, <1>b, <2>1, <3>1, <4>1, <4>2 DEF InFlight
    <3>4. CASE req[p].step \in {"verify_fail", "mark_failed"}
      <4>1. status' = [status EXCEPT ![req[p].topup] = "failed"]
        BY <1>3, <2>4, <3>4, ContinueFields
      <4>2. status[x] = "success"
        BY <1>a, <4>1
      <4>3. QED
        BY <1>b, <2>1, <3>1, <3>4, <4>2 DEF InFlight
    <3>5. CASE req[p].step \in {"dispatch", "finish", "capture_apply"}
      <4>1. UNCHANGED status
        BY <1>3, <2>4, <3>5, ContinueFields
      <4>2. QED
        BY <1>b, <2>1, <3>1, <3>5, <4>1 DEF InFlight
    <3>6. CASE req[p].step = "apply"
      <4>1. UNCHANGED status /\ Keeps(p, "locked")
        BY <1>3, <2>4, <3>6, ContinueFields
      <4>2. \A q \in Workers : /\ req'[q].topup = req[q].topup /\ req'[q].event = req[q].event
                               /\ req[q].step \in {"apply", "locked"} => req'[q].step \in {"apply", "locked"}
        BY <2>1, <4>1 DEF Keeps
      <4>3. QED
        BY <1>b, <3>1, <4>1, <4>2 DEF InFlight
    <3>7. QED
      BY <1>3, <2>4, <3>2, <3>3, <3>4, <3>5, <3>6, ContinueFields
  <2>5. QED
    BY <2>2, <2>3, <2>4
<1>4. CASE UNCHANGED vars
  BY <1>4, <1>b DEF vars, InFlight
<1>5. QED
  BY <1>1, <1>2, <1>3, <1>4, Zenon DEF Next

-----------------------------------------------------------------------------
Inv == TypeInv /\ LockOK /\ PaidOK /\ OnceOK /\ SuccessIsCredited

LEMMA Invariant == Spec => []Inv
<1>1. Init => Inv
  <2>1. Init => ReqOK
    BY WalletAssumption DEF Init, ReqOK, RequestOK, Rest
  <2>2. Init => PaidOK /\ OnceOK /\ SuccessIsCredited
    BY WalletAssumption DEF Init, PaidOK, OnceOK, SuccessIsCredited, CreditedOnlyIfPaid, InFlight, Rest
  <2>3. QED
    BY <2>1, <2>2, InitType, InitLock DEF Inv, TypeInv
<1>2. Inv /\ [Next]_vars => Inv'
  BY NextType, NextReq, NextLock, NextPaid, NextOnce, NextSuccess DEF Inv, TypeInv
<1>3. QED
  BY <1>1, <1>2, PTL DEF Spec

\* No top-up is credited that the gateway did not take the money for.
THEOREM OnlyPaidIsCredited == Spec => []CreditedOnlyIfPaid
<1>1. Inv => CreditedOnlyIfPaid
  BY DEF Inv, PaidOK
<1>2. QED
  BY <1>1, Invariant, PTL

\* Confirmations that never overlap credit a top-up once at most, however they
\* are ordered, repeated or cut short.
THEOREM SerialConfirmationsCreditOnce == Spec => []DoubleCreditOnlyIfOverlapped
<1>1. Inv => DoubleCreditOnlyIfOverlapped
  BY DEF Inv, OnceOK, DoubleCreditOnlyIfOverlapped
<1>2. QED
  BY <1>1, Invariant, PTL

\* SUCCESS is backed by a credit, by a request about to make it, or by a verify
\* callback known to have died in between.
THEOREM SuccessIsBacked == Spec => []SuccessIsCredited
<1>1. Inv => SuccessIsCredited
  BY DEF Inv
<1>2. QED
  BY <1>1, Invariant, PTL

=============================================================================

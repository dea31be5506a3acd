------------------------- MODULE StorefrontProofs -------------------------
(***************************************************************************)
(* Proofs about what a customer is shown, for any number of orders,        *)
(* products, customers and workers, and any bounds: that an invoice is     *)
(* numbered once and keeps its total, that a product page under the        *)
(* current version of the catalog tells the truth, and that the cart and   *)
(* its bill add up.                                                        *)
(***************************************************************************)
EXTENDS Invoices, ProductPages, Cart, SumLemmas

-----------------------------------------------------------------------------
(* Invoices.                                                               *)
(*                                                                         *)
(* A row is inserted with a primary key one above all others, and every    *)
(* number ever written is the primary key of its row, because a request    *)
(* keeps the key it inserted or loaded.  So two numbers are equal only     *)
(* where both are missing; and a row without one has a request at its      *)
(* second UPDATE, or lost it.                                              *)

Number == Nat \cup {NoNumber}
Amount == Totals \cup {0}

InvoiceRow == [pk : Nat, number : Number, total : Amount, emailed : BOOLEAN]

Request ==
    [pc : {"idle", "issue", "number", "mail", "stamp"}, bill : Bills \cup {NoNumber},
     mail : BOOLEAN, row : InvoiceRow]

InvoicesTypeOK ==
    /\ total \in [Bills -> Totals]
    /\ invoice \in [Bills -> InvoiceRow]
    /\ mails \in [Bills -> Seq(Number)]
    /\ clerk \in [Clerks -> Request]
    /\ billed \in [Bills -> Amount]

IssuedBills == {o \in Bills : Issued(o)}

\* Keys are given out in turn.
KeysInTurn ==
    \A o \in Bills :
        /\ invoice[o].pk <= Cardinality(IssuedBills)
        /\ \A p \in Bills \ {o} : Issued(o) => invoice[o].pk # invoice[p].pk

\* A number is the key of its row.
NumberIsKey == \A o \in Bills : invoice[o].number \in {NoNumber, invoice[o].pk}

\* A request that is past the insert holds the key of the row, and a number
\* only if the row has it; one that mails a copy without number loaded it early.
HeldRow(c) ==
    LET o   == clerk[c].bill
        row == clerk[c].row
    IN  /\ clerk[c].pc # "idle" => o \in Bills
        /\ clerk[c].pc = "issue" => row.number = NoNumber
        /\ clerk[c].pc \in {"number", "mail", "stamp"} =>
              /\ Issued(o) /\ row.pk = invoice[o].pk
              /\ row.number # NoNumber => row.number = row.pk /\ invoice[o].number = row.number
        /\ clerk[c].pc = "mail" /\ row.number = NoNumber => o \in early

HeldRows == \A c \in Clerks : HeldRow(c)

\* A row without number has a request that is about to write it, or lost it.
Numbering(o) == \E c \in Clerks : clerk[c].pc = "number" /\ clerk[c].bill = o
Followed == \A o \in Bills : Issued(o) /\ invoice[o].number = NoNumber => Numbering(o) \/ o \in widowed

MailsNumbered == \A o \in Bills : \A i \in DOMAIN mails[o] : mails[o][i] = NoNumber => o \in early

TotalKept == \A o \in Bills : Issued(o) /\ o \notin moved => invoice[o].total = billed[o]

InvoicesInv ==
    /\ InvoicesTypeOK /\ KeysInTurn /\ NumberIsKey /\ HeldRows
    /\ Followed /\ MailsNumbered /\ TotalKept

-----------------------------------------------------------------------------
LEMMA NoInvoiceOK == NoInvoice \in InvoiceRow /\ NoInvoice.pk = 0
  BY DEF NoInvoice, InvoiceRow, Number, Amount

LEMMA NoClerkOK == NoClerk \in Request /\ NoClerk.pc = "idle"
  BY NoInvoiceOK DEF NoClerk, Request

LEMMA IssuedFinite == IsFiniteSet(IssuedBills) /\ Cardinality(IssuedBills) \in Nat
<1>1. IssuedBills \subseteq Bills
  BY DEF IssuedBills
<1> QED
  BY <1>1, BillsAssumption, FS_Subset, FS_CardinalityType

LEMMA InvoicesStart == InvoicesInit => InvoicesInv
<1> SUFFICES ASSUME InvoicesInit PROVE InvoicesInv
  OBVIOUS
<1>1. \A o \in Bills : invoice[o] = NoInvoice /\ ~Issued(o)
  BY NoInvoiceOK DEF InvoicesInit, Issued
<1>2. InvoicesTypeOK
  BY NoInvoiceOK, NoClerkOK DEF InvoicesInit, InvoicesTypeOK, Amount
<1>3. KeysInTurn
  BY <1>1, NoInvoiceOK, IssuedFinite DEF KeysInTurn
<1>4. NumberIsKey
  BY <1>1 DEF NumberIsKey, NoInvoice
<1>5. HeldRows
  BY DEF HeldRows, HeldRow, InvoicesInit, NoClerk
<1>6. Followed /\ TotalKept
  BY <1>1 DEF Followed, TotalKept
<1>7. MailsNumbered
  BY DEF MailsNumbered, InvoicesInit
<1> QED
  BY <1>2, <1>3, <1>4, <1>5, <1>6, <1>7 DEF InvoicesInv

\* Nothing but an insert touches the keys.
LEMMA KeysStay ==
    ASSUME KeysInTurn, \A o \in Bills : invoice'[o].pk = invoice[o].pk
    PROVE  /\ KeysInTurn'
           /\ \A o \in Bills : Issued(o)' <=> Issued(o)
<1>1. \A o \in Bills : Issued(o)' <=> Issued(o)
  BY DEF Issued
<1>2. IssuedBills' = IssuedBills
  BY <1>1 DEF IssuedBills
<1> QED
  BY <1>1, <1>2 DEF KeysInTurn

-----------------------------------------------------------------------------
\* A request that ends elsewhere than at the second UPDATE leaves no row behind.
LEMMA IdleOK ==
    ASSUME InvoicesInv, NEW c \in Clerks, Sits(c, "idle"), widowed \subseteq widowed',
           clerk[c].pc = "number" => clerk[c].bill \in widowed',
           UNCHANGED <<invoiceVars, billed, moved, early>>
    PROVE  InvoicesInv'
<1> USE DEF InvoicesInv
<1>1. clerk' = [clerk EXCEPT ![c] = NoClerk] /\ UNCHANGED <<total, invoice, mails, billed, moved, early>>
  BY DEF Sits, invoiceVars
<1>2. InvoicesTypeOK'
  BY <1>1, NoClerkOK DEF InvoicesTypeOK
<1>3. KeysInTurn' /\ NumberIsKey' /\ TotalKept' /\ MailsNumbered'
  BY <1>1 DEF KeysInTurn, IssuedBills, Issued, NumberIsKey, TotalKept, MailsNumbered
<1>4. HeldRows'
  BY <1>1, NoClerkOK DEF HeldRows, HeldRow, Issued, InvoicesTypeOK
<1>5. Followed'
  BY <1>1 DEF Followed, Numbering, Issued, InvoicesTypeOK
<1> QED
  BY <1>2, <1>3, <1>4, <1>5

LEMMA AskOK ==
    ASSUME InvoicesInv, NEW c \in Clerks, NEW o \in Bills, NEW mail \in BOOLEAN,
           AskInvoice(c, o, mail)
    PROVE  InvoicesInv'
<1> USE DEF InvoicesInv
<1> DEFINE asked == [pc |-> IF Issued(o) THEN "mail" ELSE "issue", bill |-> o, mail |-> mail,
                     row |-> IF Issued(o) THEN invoice[o] ELSE [NoInvoice EXCEPT !.total = total[o]]]
<1>1. /\ UNCHANGED <<total, invoice, mails, billed, moved, widowed>>
      /\ clerk' = [clerk EXCEPT ![c] = asked]
      /\ early \subseteq early'
      /\ Issued(o) /\ invoice[o].number = NoNumber => o \in early'
      /\ clerk[c] = NoClerk
  BY DEF AskInvoice, invoiceVars
<1>2. asked \in Request
  <2>1. [NoInvoice EXCEPT !.total = total[o]] \in InvoiceRow
    BY NoInvoiceOK DEF InvoiceRow, Amount, InvoicesTypeOK
  <2> QED
    BY <2>1 DEF Request, InvoicesTypeOK
<1>3. InvoicesTypeOK'
  BY <1>1, <1>2 DEF InvoicesTypeOK
<1>4. KeysInTurn' /\ NumberIsKey' /\ TotalKept'
  BY <1>1 DEF KeysInTurn, IssuedBills, Issued, NumberIsKey, TotalKept
<1>5. HeldRows'
  <2> SUFFICES ASSUME NEW d \in Clerks PROVE HeldRow(d)'
    BY DEF HeldRows
  <2>1. CASE d # c
    BY <1>1, <2>1 DEF HeldRows, HeldRow, Issued, InvoicesTypeOK
  <2>2. CASE d = c
    <3>1. clerk'[d] = asked
      BY <1>1, <2>2 DEF InvoicesTypeOK
    <3>2. CASE Issued(o)
      BY <1>1, <3>1, <3>2 DEF HeldRow, Issued, NumberIsKey
    <3>3. CASE ~Issued(o)
      BY <3>1, <3>3 DEF HeldRow, NoInvoice
    <3> QED
      BY <3>2, <3>3
  <2> QED
    BY <2>1, <2>2
<1>6. Followed'
  BY <1>1, NoClerkOK DEF Followed, Numbering, Issued, InvoicesTypeOK
<1>7. MailsNumbered'
  BY <1>1 DEF MailsNumbered
<1> QED
  BY <1>3, <1>4, <1>5, <1>6, <1>7

LEMMA IssueOK == ASSUME InvoicesInv, NEW c \in Clerks, Issue(c) PROVE InvoicesInv'
<1> USE DEF InvoicesInv
<1>1. clerk[c] \in Request /\ clerk[c].pc = "issue" /\ clerk[c].row.number = NoNumber
  BY DEF Issue, HeldRows, HeldRow, InvoicesTypeOK
<1>2. NextPk = Cardinality(IssuedBills) + 1 /\ NextPk \in Nat /\ NextPk # 0
  BY IssuedFinite DEF NextPk, IssuedBills
<1>3. PICK o \in Bills : o = clerk[c].bill
  BY <1>1 DEF HeldRows, HeldRow
<1>4. PICK n \in Nat : n = NextPk
  BY <1>2
<1>5. PICK row \in InvoiceRow : row = [clerk[c].row EXCEPT !.pk = n]
  <2>1. clerk[c].row \in InvoiceRow
    BY <1>1 DEF Request
  <2> QED
    BY <2>1 DEF InvoiceRow
<1>6. row.pk = n /\ row.number = NoNumber
  BY <1>1, <1>5 DEF Request, InvoiceRow
<1>7. UNCHANGED <<total, mails, early, widowed>>
  BY DEF Issue
<1>8. CASE /\ ~Issued(o)
           /\ invoice' = [invoice EXCEPT ![o] = row]
           /\ clerk' = [clerk EXCEPT ![c] = [@ EXCEPT !.pc = "number", !.row = row]]
           /\ billed' = [billed EXCEPT ![o] = total[o]]
           /\ moved' = IF row.total # total[o] THEN moved \cup {o} ELSE moved
  <2>1. /\ invoice'[o] = row
        /\ \A p \in Bills \ {o} : invoice'[p] = invoice[p]
    BY <1>8 DEF InvoicesTypeOK
  <2>2. Issued(o)' /\ \A p \in Bills \ {o} : Issued(p)' <=> Issued(p)
    BY <1>2, <1>4, <1>6, <2>1 DEF Issued
  <2>3. Cardinality(IssuedBills') = n
    <3>1. IssuedBills' = IssuedBills \cup {o} /\ o \notin IssuedBills
      BY <1>8, <2>2 DEF IssuedBills
    <3> QED
      BY <3>1, <1>2, <1>4, IssuedFinite, FS_AddElement
  <2>4. InvoicesTypeOK'
    <3>1. [clerk[c] EXCEPT !.pc = "number", !.row = row] \in Request
      BY <1>1 DEF Request
    <3>2. total[o] \in Amount
      BY DEF InvoicesTypeOK, Amount
    <3> QED
      BY <1>7, <1>8, <3>1, <3>2 DEF InvoicesTypeOK
  <2>5. KeysInTurn'
    <3>1. \A p \in Bills : invoice[p].pk \in Nat /\ invoice[p].pk <= Cardinality(IssuedBills)
      BY DEF KeysInTurn, InvoicesTypeOK, InvoiceRow
    <3>2. \A p \in Bills \ {o} : invoice'[p].pk \in Nat /\ invoice'[p].pk < n
      BY <3>1, <1>2, <1>4, <2>1, IssuedFinite
    <3>3. invoice'[o].pk = n
      BY <1>6, <2>1
    <3>4. \A p \in Bills : invoice'[p].pk <= n
      BY <3>2, <3>3
    <3>5. ASSUME NEW p \in Bills, NEW q \in Bills \ {p}, Issued(p)'
          PROVE  invoice'[p].pk # invoice'[q].pk
      <4>1. CASE p = o \/ q = o
        BY <4>1, <3>2, <3>3
      <4>2. CASE p # o /\ q # o
        BY <4>2, <2>1, <2>2, <3>5 DEF KeysInTurn
      <4> QED
        BY <4>1, <4>2
    <3> QED
      BY <2>3, <3>4, <3>5 DEF KeysInTurn
  <2>6. clerk'[c] = [clerk[c] EXCEPT !.pc = "number", !.row = row]
        /\ \A d \in Clerks \ {c} : clerk'[d] = clerk[d]
    BY <1>8 DEF InvoicesTypeOK
  <2>7. clerk'[c].pc = "number" /\ clerk'[c].bill = o /\ clerk'[c].row = row
    BY <1>1, <1>3, <2>6 DEF Request
  <2>8. NumberIsKey'
    BY <1>6, <2>1 DEF NumberIsKey
  <2>9. HeldRows'
    <3>1. HeldRow(c)'
      BY <1>6, <2>1, <2>2, <2>7 DEF HeldRow
    <3>2. ASSUME NEW d \in Clerks \ {c} PROVE HeldRow(d)'
      BY <3>2, <1>7, <1>8, <2>1, <2>2, <2>6 DEF HeldRows, HeldRow
    <3> QED
      BY <3>1, <3>2 DEF HeldRows
  <2>10. Followed'
    <3>1. Numbering(o)'
      BY <2>7 DEF Numbering
    <3>2. ASSUME NEW p \in Bills, Numbering(p) PROVE Numbering(p)'
      BY <3>2, <1>1, <2>6 DEF Numbering
    <3> QED
      BY <3>1, <3>2, <1>7, <2>1, <2>2 DEF Followed
  <2>11. TotalKept'
    <3>1. billed'[o] = total[o] /\ \A p \in Bills \ {o} : billed'[p] = billed[p]
      BY <1>8 DEF InvoicesTypeOK
    <3>2. moved \subseteq moved' /\ (o \notin moved' => row.total = total[o])
      BY <1>8
    <3> QED
      BY <2>1, <2>2, <3>1, <3>2 DEF TotalKept
  <2>12. MailsNumbered'
    BY <1>7 DEF MailsNumbered
  <2> QED
    BY <2>4, <2>5, <2>8, <2>9, <2>10, <2>11, <2>12
<1>9. CASE Sits(c, "idle") /\ UNCHANGED <<invoice, billed, moved>>
  BY <1>1, <1>7, <1>9, IdleOK DEF invoiceVars
<1> QED
  BY <1>3, <1>4, <1>5, <1>8, <1>9 DEF Issue

LEMMA NumberOK == ASSUME InvoicesInv, NEW c \in Clerks, NumberIt(c) PROVE InvoicesInv'
<1> USE DEF InvoicesInv
<1>1. clerk[c] \in Request /\ clerk[c].pc = "number"
  BY DEF NumberIt, InvoicesTypeOK
<1>2. PICK o \in Bills : o = clerk[c].bill
  BY <1>1 DEF HeldRows, HeldRow
<1>3. Issued(o) /\ clerk[c].row.pk = invoice[o].pk
  BY <1>1, <1>2 DEF HeldRows, HeldRow
<1>4. PICK n \in Nat : n = invoice[o].pk
  BY DEF InvoicesTypeOK, InvoiceRow
<1>5. PICK row \in InvoiceRow : row = [clerk[c].row EXCEPT !.number = n]
  BY <1>1 DEF Request, InvoiceRow, Number
<1>6. row.pk = n /\ row.number = n
  BY <1>1, <1>3, <1>4, <1>5 DEF Request, InvoiceRow
<1>7. /\ invoice' = [invoice EXCEPT ![o].number = n]
      /\ clerk' = [clerk EXCEPT ![c] = IF clerk[c].mail /\ ~clerk[c].row.emailed
                                         THEN [@ EXCEPT !.pc = "mail", !.row = row] ELSE NoClerk]
      /\ UNCHANGED <<total, mails, billed, moved, early, widowed>>
  <2>1. row = [clerk[c].row EXCEPT !.number = clerk[c].row.pk]
    BY <1>3, <1>4, <1>5
  <2> QED
    BY <2>1, <1>2, <1>6 DEF NumberIt
<1>8. /\ invoice'[o].number = n /\ invoice'[o].pk = n /\ invoice'[o].total = invoice[o].total
      /\ \A p \in Bills \ {o} : invoice'[p] = invoice[p]
  BY <1>4, <1>7 DEF InvoicesTypeOK, InvoiceRow
<1>9. InvoicesTypeOK'
  <2>1. [clerk[c] EXCEPT !.pc = "mail", !.row = row] \in Request
    BY <1>1 DEF Request
  <2>2. [invoice[o] EXCEPT !.number = n] \in InvoiceRow
    BY DEF InvoicesTypeOK, InvoiceRow, Number
  <2> QED
    BY <1>7, <2>1, <2>2, NoClerkOK DEF InvoicesTypeOK
<1>10. KeysInTurn' /\ \A p \in Bills : Issued(p)' <=> Issued(p)
  BY <1>4, <1>8, KeysStay
<1>11. NumberIsKey'
  BY <1>8 DEF NumberIsKey
<1>12. HeldRows'
  <2>1. HeldRow(c)'
    <3>1. CASE clerk'[c] = NoClerk
      BY <3>1 DEF HeldRow, NoClerk
    <3>2. CASE clerk'[c] = [clerk[c] EXCEPT !.pc = "mail", !.row = row]
      <4>1. clerk'[c].pc = "mail" /\ clerk'[c].bill = o /\ clerk'[c].row = row
        BY <1>1, <1>2, <3>2 DEF Request
      <4>2. row.number # NoNumber
        BY <1>6, BillsAssumption
      <4> QED
        BY <4>1, <4>2, <1>3, <1>6, <1>8, <1>10 DEF HeldRow
    <3> QED
      BY <1>7, <3>1, <3>2 DEF InvoicesTypeOK
  <2>2. ASSUME NEW d \in Clerks \ {c} PROVE HeldRow(d)'
    <3>1. clerk'[d] = clerk[d] /\ HeldRow(d)
      BY <1>7 DEF InvoicesTypeOK, HeldRows
    <3>2. CASE clerk[d].bill # o
      BY <3>1, <3>2, <1>7, <1>8, <1>10 DEF HeldRow
    <3>3. CASE clerk[d].bill = o
      BY <3>1, <3>3, <1>3, <1>4, <1>7, <1>8, <1>10 DEF HeldRow, NumberIsKey
    <3> QED
      BY <3>2, <3>3
  <2> QED
    BY <2>1, <2>2 DEF HeldRows
<1>13. Followed'
  <2>1. ASSUME NEW p \in Bills \ {o}, Numbering(p) PROVE Numbering(p)'
    BY <2>1, <1>2, <1>7 DEF Numbering, InvoicesTypeOK
  <2>2. invoice'[o].number # NoNumber
    BY <1>8, BillsAssumption
  <2> QED
    BY <2>1, <2>2, <1>7, <1>8, <1>10 DEF Followed
<1>14. MailsNumbered' /\ TotalKept'
  BY <1>7, <1>8, <1>10 DEF MailsNumbered, TotalKept
<1> QED
  BY <1>9, <1>10, <1>11, <1>12, <1>13, <1>14

LEMMA MailedOK ==
    ASSUME InvoicesInv, NEW c \in Clerks, clerk[c].pc = "mail", Sits(c, "stamp"),
           UNCHANGED <<total, invoice, billed, moved, early, widowed>>,
           mails' \in [Bills -> Seq(Number)], MailsNumbered'
    PROVE  InvoicesInv'
<1> USE DEF InvoicesInv
<1>1. clerk' = [clerk EXCEPT ![c] = [@ EXCEPT !.pc = "stamp"]] /\ clerk[c] \in Request
  BY DEF Sits, InvoicesTypeOK
<1>2. InvoicesTypeOK'
  <2>1. [clerk[c] EXCEPT !.pc = "stamp"] \in Request
    BY <1>1 DEF Request
  <2> QED
    BY <1>1, <2>1 DEF InvoicesTypeOK
<1>3. KeysInTurn' /\ NumberIsKey' /\ TotalKept'
  BY DEF KeysInTurn, IssuedBills, Issued, NumberIsKey, TotalKept
<1>4. HeldRows'
  <2>1. /\ clerk'[c].pc = "stamp" /\ clerk'[c].bill = clerk[c].bill /\ clerk'[c].row = clerk[c].row
        /\ \A d \in Clerks \ {c} : clerk'[d] = clerk[d]
    BY <1>1 DEF InvoicesTypeOK, Request
  <2>2. HeldRow(c)'
    BY <2>1 DEF HeldRows, HeldRow, Issued
  <2>3. ASSUME NEW d \in Clerks \ {c} PROVE HeldRow(d)'
    BY <2>1 DEF HeldRows, HeldRow, Issued
  <2> QED
    BY <2>2, <2>3 DEF HeldRows
<1>5. Followed'
  BY <1>1 DEF Followed, Numbering, Issued, InvoicesTypeOK
<1> QED
  BY <1>2, <1>3, <1>4, <1>5

LEMMA MailOK == ASSUME InvoicesInv, NEW c \in Clerks, Mail(c) PROVE InvoicesInv'
<1> USE DEF InvoicesInv
<1>1. clerk[c] \in Request /\ clerk[c].pc = "mail"
  BY DEF Mail, InvoicesTypeOK
<1>2. PICK o \in Bills : o = clerk[c].bill
  BY <1>1 DEF HeldRows, HeldRow
<1>3. PICK n \in Number : n = clerk[c].row.number
  BY <1>1 DEF Request, InvoiceRow
<1>4. n = NoNumber => o \in early
  BY <1>1, <1>2, <1>3 DEF HeldRows, HeldRow
<1>5. /\ mails' = [mails EXCEPT ![o] = Append(@, n)]
      /\ UNCHANGED <<total, invoice, billed, moved, early, widowed>>
  BY <1>2, <1>3 DEF Mail
<1>6. mails[o] \in Seq(Number) /\ mails' \in [Bills -> Seq(Number)]
  BY <1>5 DEF InvoicesTypeOK
<1>7. MailsNumbered'
  <2> SUFFICES ASSUME NEW p \in Bills, NEW i \in DOMAIN mails'[p], mails'[p][i] = NoNumber
               PROVE  p \in early
    BY <1>5 DEF MailsNumbered
  <2>1. CASE p # o
    BY <2>1, <1>5 DEF MailsNumbered, InvoicesTypeOK
  <2>2. CASE p = o
    BY <2>2, <1>4, <1>5, <1>6 DEF MailsNumbered, InvoicesTypeOK
  <2> QED
    BY <2>1, <2>2
<1> QED
  BY <1>1, <1>5, <1>6, <1>7, MailedOK DEF Mail

LEMMA MailFailsOK == ASSUME InvoicesInv, NEW c \in Clerks, MailFails(c) PROVE InvoicesInv'
<1>1. mails' \in [Bills -> Seq(Number)] /\ MailsNumbered'
  BY DEF InvoicesInv, InvoicesTypeOK, MailsNumbered, MailFails, invoiceVars
<1> QED
  BY <1>1, MailedOK DEF MailFails, invoiceVars

\* Stamping forgets that a numbering was lost only where another one follows.
LEMMA StampOK == ASSUME InvoicesInv, NEW c \in Clerks, Stamp(c) PROVE InvoicesInv'
<1> USE DEF InvoicesInv
<1>1. clerk[c] \in Request /\ clerk[c].pc = "stamp"
  BY DEF Stamp, InvoicesTypeOK
<1>2. PICK o \in Bills : o = clerk[c].bill
  BY <1>1 DEF HeldRows, HeldRow
<1>3. PICK req \in Request : req = [clerk[c] EXCEPT !.pc = "number", !.row.emailed = TRUE]
  BY <1>1 DEF Request, InvoiceRow
<1>4. /\ req.pc = "number" /\ req.bill = o
      /\ req.row.pk = clerk[c].row.pk /\ req.row.number = clerk[c].row.number
  BY <1>1, <1>2, <1>3 DEF Request, InvoiceRow
<1>5. /\ invoice' = [invoice EXCEPT ![o].emailed = TRUE]
      /\ clerk' = [clerk EXCEPT ![c] = IF Unnumbered(clerk[c].row) THEN req ELSE NoClerk]
      /\ widowed' = widowed \ {o}
      /\ UNCHANGED <<total, mails, billed, moved, early>>
  BY <1>2, <1>3 DEF Stamp
<1>6. \A p \in Bills : /\ invoice'[p].pk = invoice[p].pk /\ invoice'[p].number = invoice[p].number
                       /\ invoice'[p].total = invoice[p].total
  BY <1>5 DEF InvoicesTypeOK, InvoiceRow
<1>7. InvoicesTypeOK'
  <2>1. [invoice[o] EXCEPT !.emailed = TRUE] \in InvoiceRow
    BY DEF InvoicesTypeOK, InvoiceRow
  <2> QED
    BY <1>5, <2>1, NoClerkOK DEF InvoicesTypeOK
<1>8. KeysInTurn' /\ \A p \in Bills : Issued(p)' <=> Issued(p)
  BY <1>6, KeysStay
<1>9. NumberIsKey' /\ MailsNumbered' /\ TotalKept'
  BY <1>5, <1>6, <1>8 DEF NumberIsKey, MailsNumbered, TotalKept
<1>10. HeldRows'
  <2>1. HeldRow(c)'
    <3>1. CASE clerk'[c] = NoClerk
      BY <3>1 DEF HeldRow, NoClerk
    <3>2. CASE clerk'[c] = req
      BY <3>2, <1>1, <1>2, <1>4, <1>6, <1>8 DEF HeldRows, HeldRow
    <3> QED
      BY <1>5, <3>1, <3>2 DEF InvoicesTypeOK
  <2>2. ASSUME NEW d \in Clerks \ {c} PROVE HeldRow(d)'
    BY <1>5, <1>6, <1>8 DEF HeldRows, HeldRow, InvoicesTypeOK
  <2> QED
    BY <2>1, <2>2 DEF HeldRows
<1>11. Followed'
  <2>1. ASSUME NEW p \in Bills, Numbering(p) PROVE Numbering(p)'
    BY <2>1, <1>1, <1>5 DEF Numbering, InvoicesTypeOK
  <2>2. CASE clerk'[c] = req
    BY <2>1, <2>2, <1>4, <1>5, <1>6, <1>8 DEF Followed, Numbering
  <2>3. CASE clerk[c].row.number # NoNumber
    <3>1. invoice[o].number # NoNumber
      BY <2>3, <1>1, <1>2 DEF HeldRows, HeldRow
    <3> QED
      BY <3>1, <2>1, <1>5, <1>6, <1>8 DEF Followed
  <2> QED
    BY <2>2, <2>3, <1>5 DEF Unnumbered, InvoicesTypeOK
<1> QED
  BY <1>7, <1>8, <1>9, <1>10, <1>11

LEMMA ReduceOK ==
    ASSUME InvoicesInv, NEW o \in Bills, NEW m \in Totals, ReduceTotal(o, m) PROVE InvoicesInv'
<1> USE DEF InvoicesInv
<1>1. total' \in [Bills -> Totals] /\ UNCHANGED <<invoice, mails, clerk, billed, moved, early, widowed>>
  BY DEF ReduceTotal, clerkVars, InvoicesTypeOK
<1>2. InvoicesTypeOK' /\ KeysInTurn' /\ NumberIsKey' /\ MailsNumbered' /\ TotalKept'
  BY <1>1 DEF InvoicesTypeOK, KeysInTurn, IssuedBills, Issued, NumberIsKey, MailsNumbered, TotalKept
<1>3. HeldRows' /\ Followed'
  BY <1>1 DEF HeldRows, HeldRow, Issued, Followed, Numbering
<1> QED
  BY <1>2, <1>3

LEMMA DiesOK == ASSUME InvoicesInv, NEW c \in Clerks, ClerkDies(c) PROVE InvoicesInv'
  BY IdleOK DEF ClerkDies

-----------------------------------------------------------------------------
(* Whatever requests, mails, deaths of workers and changes of totals       *)
(* interleave: no two invoices have the same number, an invoice has its    *)
(* number unless a request is at the second UPDATE or the last one died    *)
(* there, a mail names the number unless its copy was loaded before there  *)
(* was one, and the invoice keeps the total of the moment of issue.        *)
THEOREM InvoicesAreNumbered == InvoicesSpec => []InvoiceNumbered
<1>1. InvoicesInv /\ [InvoicesNext]_invoicesVars => InvoicesInv'
  <2> SUFFICES ASSUME InvoicesInv, [InvoicesNext]_invoicesVars PROVE InvoicesInv'
    OBVIOUS
  <2>1. CASE UNCHANGED invoicesVars
    <3>1. UNCHANGED <<total, invoice, mails, clerk, billed, moved, early, widowed>>
      BY <2>1 DEF invoicesVars, invoiceVars, clerkVars
    <3> QED
      BY <3>1 DEF InvoicesInv, InvoicesTypeOK, KeysInTurn, IssuedBills, Issued, NumberIsKey,
                  HeldRows, HeldRow, Followed, Numbering, MailsNumbered, TotalKept
  <2>2. CASE InvoicesNext
    BY <2>2, AskOK, IssueOK, NumberOK, MailOK, MailFailsOK, StampOK, DiesOK, ReduceOK DEF InvoicesNext
  <2> QED
    BY <2>1, <2>2
<1>2. InvoicesInv => InvoiceNumbered
  <2> SUFFICES ASSUME InvoicesInv, NEW o \in Bills
               PROVE  /\ Issued(o) /\ invoice[o].number = NoNumber => Numbering(o) \/ o \in widowed
                      /\ \A p \in Bills \ {o} :
                            Issued(o) /\ Issued(p) /\ invoice[o].number = invoice[p].number =>
                                invoice[o].number = NoNumber
                      /\ \A i \in DOMAIN mails[o] : mails[o][i] = NoNumber => o \in early
                      /\ Issued(o) /\ o \notin moved => invoice[o].total = billed[o]
    BY DEF InvoiceNumbered, Numbering
  <2> QED
    BY DEF InvoicesInv, KeysInTurn, NumberIsKey, Followed, MailsNumbered, TotalKept
<1> QED
  BY <1>1, <1>2, InvoicesStart, PTL DEF InvoicesSpec

-----------------------------------------------------------------------------
(* Product pages.                                                          *)

Page == [sum : Int, count : Int, stock : Int]

Step == {"idle", "insert", "aggregate", "save", "edit", "bump", "reset", "sell", "rebase", "commit",
         "first", "query", "fill", "again", "store"}

Visit ==
    [pc : Step, who : Raters \cup {""}, stars : Stars \cup {0},
     copy : Page, at : Nat, late : BOOLEAN]

PagesTypeOK ==
    /\ ratings \in [Raters -> Seq(Stars)]
    /\ shelf \in Page /\ version \in Nat
    /\ pages \in [1..MaxWrites + 1 -> Page]
    /\ visit \in [Browsers -> Visit]
    /\ writes \in Nat /\ lagged \in BOOLEAN /\ owed \in BOOLEAN

\* The counter is moved up at most once for a write.
Writing == {b \in Browsers : visit[b].pc \in {"insert", "aggregate", "save", "edit", "bump", "sell"}}

VersionsBounded ==
    /\ writes <= MaxWrites /\ Cardinality(Writing) <= writes
    /\ version + Cardinality(Writing) <= writes + 1

\* Who is about to insert a first rating finds none, unless a second did so too.
RatingsOnce ==
    /\ \A b \in Browsers : visit[b].pc = "insert" =>
          /\ visit[b].who \in Raters /\ visit[b].stars \in Stars
          /\ visit[b].who \notin doubled => ratings[visit[b].who] = <<>>
    /\ \A u \in Raters \ doubled : Len(ratings[u]) <= 1

Totalling == {b \in Browsers : visit[b].pc \in {"aggregate", "save"}}

TotalsRight == shelf.sum = RatingSum /\ shelf.count = RatingCount

\* Totals that no rating overtook are those of the rows, or of the product.
TotalsFollow ==
    /\ \A b \in Browsers : visit[b].pc = "save" /\ ~visit[b].late =>
          visit[b].copy.sum = RatingSum /\ visit[b].copy.count = RatingCount
    /\ \A b \in Browsers : visit[b].pc = "edit" /\ ~visit[b].late /\ ~lagged =>
          visit[b].copy.sum = shelf.sum /\ visit[b].copy.count = shelf.count
    /\ Totalling = {} /\ ~lagged => TotalsRight

Vacant(v) == pages[v] = NoPage \/ v \in tainted

Settled == (\A b \in Browsers : visit[b].pc \notin {"bump", "reset"}) /\ ~owed

Committing == \E b \in Browsers : visit[b].pc = "commit"

\* Nothing has overtaken the page in its hand.
Timely(b) == visit[b].pc \in InHand /\ ~visit[b].late

CacheFollows ==
    /\ \A v \in DOMAIN pages : v > version => Vacant(v)
    /\ Committing /\ version # 0 => Vacant(version)
    /\ Settled /\ version # 0 => Vacant(version) \/ pages[version] = shelf
    /\ \A b \in Browsers : visit[b].pc = "store" => visit[b].at \in DOMAIN pages
    /\ \A b \in Browsers : Timely(b) => visit[b].at <= version
    /\ \A b \in Browsers : Timely(b) /\ visit[b].at = version => ~Committing
    /\ \A b \in Browsers : Timely(b) /\ visit[b].at = version /\ Settled => visit[b].copy = shelf

PagesInv == PagesTypeOK /\ VersionsBounded /\ RatingsOnce /\ TotalsFollow /\ CacheFollows

-----------------------------------------------------------------------------
LEMMA NoPageFacts == NoPage \in Page /\ NoPage.sum = -1
  BY DEF NoPage, Page

LEMMA NoVisitFacts ==
    /\ NoVisit \in Visit /\ NoVisit.pc = "idle"
    /\ NoVisit.who = "" /\ NoVisit.stars = 0 /\ NoVisit.at = 0 /\ NoVisit.late = FALSE
    /\ NoVisit.copy = NoPage
  BY NoPageFacts DEF NoVisit, Visit, Step

LEMMA StartTotals ==
    ASSUME ratings = [u \in Raters |-> <<>>] PROVE RatingSum = 0 /\ RatingCount = 0
<1> DEFINE sums == [u \in Raters |-> SumOf(ratings[u])]
           counts == [u \in Raters |-> Len(ratings[u])]
<1>1. SumOf(<<>>) = 0
  <2>1. <<>> \in [{} -> Int] /\ IsFiniteSet({})
    BY FS_EmptySet
  <2> QED
    BY <2>1, SumType
<1>2. sums \in [Raters -> Int] /\ \A u \in Raters : sums[u] = 0
  BY <1>1
<1>3. counts \in [Raters -> Int] /\ \A u \in Raters : counts[u] = 0
  OBVIOUS
<1>4. IsFiniteSet(Raters)
  BY PagesAssumption
<1>5. RatingSum = SumOf(sums) /\ RatingCount = SumOf(counts)
  BY DEF RatingSum, RatingCount
<1> HIDE DEF sums, counts
<1> QED
  BY <1>2, <1>3, <1>4, <1>5, SumOfZeros

LEMMA TotalsType ==
    ASSUME ratings \in [Raters -> Seq(Stars)] PROVE RatingSum \in Int /\ RatingCount \in Int
<1> DEFINE sums == [u \in Raters |-> SumOf(ratings[u])]
           counts == [u \in Raters |-> Len(ratings[u])]
<1>1. ASSUME NEW u \in Raters PROVE SumOf(ratings[u]) \in Int /\ Len(ratings[u]) \in Int
  <2>1. PICK s \in Seq(Stars) : s = ratings[u]
    OBVIOUS
  <2>4. Len(s) \in Nat /\ s \in [1..Len(s) -> Stars]
    OBVIOUS
  <2>2. Len(s) \in Nat /\ s \in [1..Len(s) -> Int]
    BY <2>4, PagesAssumption
  <2>3. IsFiniteSet(1..Len(s))
    BY <2>2, FS_Interval
  <2> QED
    BY <2>1, <2>2, <2>3, SumType
<1>2. sums \in [Raters -> Int] /\ counts \in [Raters -> Int]
  BY <1>1
<1>3. IsFiniteSet(Raters)
  BY PagesAssumption
<1>4. RatingSum = SumOf(sums) /\ RatingCount = SumOf(counts)
  BY DEF RatingSum, RatingCount
<1> HIDE DEF sums, counts
<1> QED
  BY <1>2, <1>3, <1>4, SumType

LEMMA PagesStart == PagesInit => PagesInv
<1> SUFFICES ASSUME PagesInit PROVE PagesInv
  OBVIOUS
<1>1. PagesTypeOK
  <2>1. shelf \in Page
    BY PagesAssumption DEF Page, PagesInit
  <2>2. ratings \in [Raters -> Seq(Stars)]
    <3>1. <<>> \in Seq(Stars)
      OBVIOUS
    <3> QED
      BY <3>1 DEF PagesInit
  <2> QED
    BY <2>1, <2>2, NoPageFacts, NoVisitFacts DEF PagesTypeOK, PagesInit
<1>2. \A b \in Browsers : visit[b].pc = "idle"
  BY NoVisitFacts DEF PagesInit
<1>3. VersionsBounded
  <2>1. Writing = {}
    BY <1>2 DEF Writing
  <2>2. Cardinality(Writing) = 0
    BY <2>1, FS_EmptySet
  <2> QED
    BY <2>2, PagesAssumption DEF VersionsBounded, PagesInit
<1>4. RatingsOnce
  <2>1. \A u \in Raters : Len(ratings[u]) = 0
    BY DEF PagesInit
  <2> QED
    BY <1>2, <2>1 DEF RatingsOnce
<1>5. TotalsFollow
  <2>1. RatingSum = 0 /\ RatingCount = 0
    BY StartTotals DEF PagesInit
  <2>2. TotalsRight
    BY <2>1 DEF PagesInit, TotalsRight
  <2> QED
    BY <1>2, <2>2 DEF TotalsFollow
<1>6. CacheFollows
  <2>1. version = 0 /\ \A v \in DOMAIN pages : pages[v] = NoPage
    BY DEF PagesInit
  <2> QED
    BY <1>2, <2>1 DEF CacheFollows, Vacant, Committing, Timely, InHand
<1> QED
  BY <1>1, <1>3, <1>4, <1>5, <1>6 DEF PagesInv

-----------------------------------------------------------------------------
(* What a step needs to keep each part.                                    *)

\* Sets that grow, or shrink, by one worker.
LEMMA WritingFinite == IsFiniteSet(Writing) /\ Cardinality(Writing) \in Nat
<1>1. Writing \subseteq Browsers
  BY DEF Writing
<1> QED
  BY <1>1, FS_Subset, FS_CardinalityType, PagesAssumption

LEMMA OneJoins ==
    ASSUME NEW W, IsFiniteSet(W), NEW b, b \notin W, NEW V, V = W \cup {b}
    PROVE  Cardinality(V) = Cardinality(W) + 1
  BY FS_AddElement

LEMMA OneLeaves ==
    ASSUME NEW W, IsFiniteSet(W), NEW b \in W, NEW V, V = W \ {b}
    PROVE  Cardinality(V) = Cardinality(W) - 1
  BY FS_RemoveElement

LEMMA RatingsStay ==
    ASSUME RatingsOnce, UNCHANGED <<ratings, doubled>>,
           \A x \in Browsers : visit'[x].pc = "insert" => visit'[x] = visit[x]
    PROVE  RatingsOnce'
  BY DEF RatingsOnce

LEMMA TotalsStay ==
    ASSUME TotalsFollow, UNCHANGED ratings, shelf'.sum = shelf.sum, shelf'.count = shelf.count,
           \A x \in Browsers : visit'[x].pc \in {"save", "edit"} /\ ~visit'[x].late => visit'[x] = visit[x],
           ~lagged' => ~lagged, Totalling' = {} /\ ~lagged' => Totalling = {}
    PROVE  TotalsFollow'
<1>1. RatingSum' = RatingSum /\ RatingCount' = RatingCount
  BY DEF RatingSum, RatingCount
<1>2. TotalsRight' = TotalsRight
  BY <1>1 DEF TotalsRight
<1> QED
  BY <1>1, <1>2 DEF TotalsFollow

LEMMA CacheStays ==
    ASSUME CacheFollows, UNCHANGED <<version, pages, tainted>>,
           \A x \in Browsers : visit'[x].pc \in InHand => visit'[x] = visit[x],
           Committing' => Committing, Settled' => Settled /\ shelf' = shelf
    PROVE  CacheFollows'
<1>1. \A x \in Browsers : Timely(x)' => Timely(x) /\ visit'[x] = visit[x]
  BY DEF Timely
<1>2. \A x \in Browsers : visit'[x].pc = "store" => visit'[x] = visit[x]
  BY DEF InHand
<1>3. \A v : Vacant(v)' <=> Vacant(v)
  BY DEF Vacant
<1> QED
  BY <1>1, <1>2, <1>3 DEF CacheFollows

\* The page of a new version is not there yet, and nobody will store one in time.
LEMMA VersionMoves ==
    ASSUME CacheFollows, PagesTypeOK, version' = version + 1, version' \in DOMAIN pages,
           UNCHANGED <<pages, tainted>>, visit' \in [Browsers -> Visit],
           \A x \in Browsers : visit'[x].pc \in InHand => visit'[x] = visit[x]
    PROVE  CacheFollows'
<1>1. \A v \in DOMAIN pages : v \in Nat /\ (v > version => Vacant(v))
  BY PagesAssumption DEF CacheFollows, PagesTypeOK
<1>2. \A v \in DOMAIN pages : v > version => Vacant(v)'
  BY <1>1 DEF Vacant
<1>3. version \in Nat /\ version' > version
  BY DEF PagesTypeOK
<1>4. Vacant(version)'
  BY <1>2, <1>3 DEF Vacant
<1>5. \A v \in DOMAIN pages' : v > version' => Vacant(v)'
  BY <1>1, <1>2, <1>3
<1>6. ASSUME NEW x \in Browsers, Timely(x)' PROVE visit'[x].at \in Nat /\ visit'[x].at <= version
  <2>1. Timely(x) /\ visit'[x] = visit[x]
    BY <1>6 DEF Timely
  <2> QED
    BY <2>1 DEF CacheFollows, PagesTypeOK, Visit
<1>7. \A x \in Browsers : Timely(x)' => visit'[x].at <= version' /\ visit'[x].at # version'
  BY <1>3, <1>6
<1>8. \A x \in Browsers : visit'[x].pc = "store" => visit'[x].at \in DOMAIN pages'
  BY DEF CacheFollows, InHand
<1> QED
  BY <1>4, <1>5, <1>7, <1>8 DEF CacheFollows

\* When the counter jumps back, every page and every page in hand is too old.
LEMMA VersionJumps ==
    ASSUME CacheFollows, UNCHANGED pages, tainted' = tainted \cup Stored,
           \A x \in Browsers : visit'[x].pc \in InHand => visit'[x].late,
           \A x \in Browsers : visit'[x].pc = "store" => visit'[x].at \in DOMAIN pages,
           version' = 0 \/ version' \in DOMAIN pages
    PROVE  CacheFollows'
<1>1. \A v \in DOMAIN pages : Vacant(v)'
  BY DEF Vacant, Stored
<1>2. \A x \in Browsers : ~Timely(x)'
  BY DEF Timely
<1> QED
  BY <1>1, <1>2 DEF CacheFollows

LEMMA BoundsStay ==
    ASSUME VersionsBounded, UNCHANGED <<version, writes>>, Writing' = Writing
    PROVE  VersionsBounded'
  BY DEF VersionsBounded

\* A write begins.
LEMMA BoundsGrow ==
    ASSUME VersionsBounded, PagesTypeOK, NEW b, b \notin Writing, Writing' = Writing \cup {b},
           UNCHANGED version, writes < MaxWrites, writes' = writes + 1
    PROVE  VersionsBounded'
<1>1. Cardinality(Writing)' = Cardinality(Writing) + 1
  BY WritingFinite, OneJoins
<1> QED
  BY <1>1, WritingFinite, PagesAssumption DEF VersionsBounded, PagesTypeOK

\* A write is at its end.
LEMMA BoundsShrink ==
    ASSUME VersionsBounded, PagesTypeOK, NEW b \in Writing, Writing' = Writing \ {b},
           UNCHANGED writes, version' \in {version, version + 1}
    PROVE  VersionsBounded' /\ version' <= MaxWrites + 1
<1>1. Cardinality(Writing)' = Cardinality(Writing) - 1
  BY WritingFinite, OneLeaves
<1>2. Cardinality(Writing)' \in Nat
  <2>1. PICK W : W = Writing'
    OBVIOUS
  <2>2. IsFiniteSet(W)
    BY <2>1, WritingFinite, FS_Subset
  <2> QED
    BY <2>1, <2>2, FS_CardinalityType
<1> QED
  BY <1>1, <1>2, WritingFinite, PagesAssumption DEF VersionsBounded, PagesTypeOK

\* A worker that stands elsewhere after the step.
LEMMA Moved ==
    ASSUME PagesTypeOK, NEW b \in Browsers, NEW new \in Visit, visit' = [visit EXCEPT ![b] = new]
    PROVE  /\ visit' \in [Browsers -> Visit] /\ visit'[b] = new
           /\ \A x \in Browsers : x # b => visit'[x] = visit[x]
  BY DEF PagesTypeOK

\* Sits down again, or goes on, with nothing else changed in what it holds.
LEMMA GoesTo ==
    ASSUME PagesTypeOK, NEW b \in Browsers,
           NEW pc \in Step, Goes(b, pc)
    PROVE  \E new \in Visit : visit' = [visit EXCEPT ![b] = new] /\ new.pc = pc
<1>1. visit[b] \in Visit
  BY DEF PagesTypeOK
<1> DEFINE new == IF pc = "idle" THEN NoVisit ELSE [visit[b] EXCEPT !.pc = pc]
<1>2. new \in Visit /\ new.pc = pc
  BY <1>1, NoVisitFacts DEF Visit, Step
<1>3. visit' = [visit EXCEPT ![b] = new]
  BY DEF Goes
<1> HIDE DEF new
<1> QED
  BY <1>2, <1>3

\* What Overtaken leaves of a worker.
LEMMA OvertakenOK ==
    ASSUME PagesTypeOK, NEW pcs, NEW x \in Browsers, NEW seen, seen = Overtaken(pcs)
    PROVE  /\ seen[x] \in Visit /\ seen[x].pc = visit[x].pc
           /\ visit[x].pc \notin pcs => seen[x] = visit[x]
           /\ visit[x].pc \in pcs => seen[x].late
<1>1. visit[x] \in Visit
  BY DEF PagesTypeOK
<1>2. seen[x] = [visit[x] EXCEPT !.late = @ \/ visit[x].pc \in pcs]
  BY DEF Overtaken
<1>3. [visit[x] EXCEPT !.late = @ \/ FALSE] = visit[x]
  BY <1>1 DEF Visit
<1> QED
  BY <1>1, <1>2, <1>3 DEF Visit

-----------------------------------------------------------------------------
(* One lemma per action.                                                   *)

LEMMA RateOK ==
    ASSUME PagesInv, NEW b \in Browsers, NEW u \in Raters, NEW s \in Stars, Rate(b, u, s)
    PROVE  PagesInv'
<1>0. PagesTypeOK /\ VersionsBounded /\ RatingsOnce /\ TotalsFollow /\ CacheFollows
  BY DEF PagesInv
<1>1. PICK new \in Visit :
        /\ visit'[b] = new
        /\ new.who = u /\ new.stars = s /\ ~new.late
        /\ new.pc = IF ratings[u] = <<>> THEN "insert" ELSE "aggregate"
  <2> DEFINE new == [NoVisit EXCEPT !.who = u, !.stars = s,
                            !.pc = IF ratings[u] = <<>> THEN "insert" ELSE "aggregate"]
  <2>1. new \in Visit /\ new.who = u /\ new.stars = s /\ ~new.late
        /\ new.pc = IF ratings[u] = <<>> THEN "insert" ELSE "aggregate"
    BY NoVisitFacts DEF Visit, Step
  <2>2. visit'[b] = new
    <3>1. CASE ratings[u] = <<>>
      BY <3>1, <1>0 DEF Rate, PagesTypeOK
    <3>2. CASE ratings[u] # <<>>
      BY <3>2 DEF Rate, Overtaken
    <3> QED
      BY <3>1, <3>2
  <2> HIDE DEF new
  <2> QED
    BY <2>1, <2>2
<1>2. /\ visit[b].pc = "idle" /\ writes < MaxWrites /\ writes' = writes + 1
      /\ UNCHANGED <<shelf, version, pages, tainted, lagged, doubled, owed>>
  BY NoVisitFacts DEF Rate
<1>3. visit'[b] = new /\ new.pc \in {"insert", "aggregate"}
  BY <1>1
<1>4. ASSUME NEW x \in Browsers \ {b}
      PROVE  /\ visit'[x] \in Visit /\ visit'[x].pc = visit[x].pc
             /\ visit'[x].who = visit[x].who /\ visit'[x].stars = visit[x].stars
             /\ visit[x].pc # "save" \/ ratings[u] = <<>> => visit'[x] = visit[x]
             /\ visit[x].pc = "save" /\ ratings[u] # <<>> => visit'[x].late
  <2>1. visit[x] \in Visit
    BY <1>0 DEF PagesTypeOK
  <2>2. visit'[x] = IF ratings[u] = <<>> THEN visit[x]
                    ELSE [visit[x] EXCEPT !.late = @ \/ visit[x].pc = "save"]
    <3>1. CASE ratings[u] = <<>>
      BY <3>1, <1>0 DEF Rate, PagesTypeOK
    <3>2. CASE ratings[u] # <<>>
      BY <3>2 DEF Rate, Overtaken
    <3> QED
      BY <3>1, <3>2
  <2>3. [visit[x] EXCEPT !.late = @ \/ FALSE] = visit[x]
    BY <2>1 DEF Visit
  <2> QED
    BY <2>1, <2>2, <2>3 DEF Visit
<1>5. visit' \in [Browsers -> Visit]
  <2>1. visit' = [x \in Browsers |-> visit'[x]]
    <3>1. CASE ratings[u] = <<>>
      BY <3>1, <1>0 DEF Rate, PagesTypeOK
    <3>2. CASE ratings[u] # <<>>
      BY <3>2 DEF Rate, Overtaken
    <3> QED
      BY <3>1, <3>2
  <2> QED
    BY <2>1, <1>1, <1>3, <1>4
<1>6. ratings' = IF ratings[u] = <<>> THEN ratings ELSE [ratings EXCEPT ![u] = <<s>>]
  BY DEF Rate
<1>7. PagesTypeOK'
  <2>1. <<s>> \in Seq(Stars)
    OBVIOUS
  <2>2. ratings' \in [Raters -> Seq(Stars)]
    BY <1>0, <1>6, <2>1 DEF PagesTypeOK
  <2> QED
    BY <1>0, <1>2, <1>5, <2>2 DEF PagesTypeOK
<1>8. VersionsBounded'
  <2>1. Writing' = Writing \cup {b} /\ b \notin Writing
    BY <1>2, <1>3, <1>4 DEF Writing
  <2> QED
    BY <2>1, <1>0, <1>2, BoundsGrow
<1>9. RatingsOnce'
  <2>1. CASE ratings[u] = <<>>
    <3>1. ratings' = ratings /\ doubled' = doubled /\ \A x \in Browsers \ {b} : visit'[x] = visit[x]
      BY <2>1, <1>2, <1>4, <1>6
    <3>2. visit'[b].who = u /\ visit'[b].stars = s /\ ratings'[u] = <<>>
      BY <2>1, <3>1, <1>1
    <3> QED
      BY <3>1, <3>2, <1>0 DEF RatingsOnce
  <2>2. CASE ratings[u] # <<>>
    <3>1. \A x \in Browsers : visit'[x].pc = "insert" => x # b /\ visit'[x] = visit[x]
      BY <2>2, <1>1, <1>3, <1>4
    <3>2. \A x \in Browsers : visit'[x].pc = "insert" /\ visit[x].who \notin doubled => visit[x].who # u
      BY <2>2, <3>1, <1>0 DEF RatingsOnce
    <3>3. \A w \in Raters : ratings'[w] = IF w = u THEN <<s>> ELSE ratings[w]
      BY <2>2, <1>0, <1>6 DEF PagesTypeOK
    <3>4. Len(<<s>>) = 1 /\ doubled' = doubled
      BY <1>2
    <3>5. ASSUME NEW w \in Raters \ doubled PROVE Len(ratings'[w]) <= 1
      <4>1. CASE w = u
        <5>1. ratings'[w] = <<s>>
          BY <3>3, <4>1
        <5> QED
          BY <5>1, <3>4
      <4>2. CASE w # u
        <5>1. ratings'[w] = ratings[w]
          BY <3>3, <4>2
        <5> QED
          BY <5>1, <1>0 DEF RatingsOnce
      <4> QED
        BY <4>1, <4>2
    <3>6. ASSUME NEW x \in Browsers, visit'[x].pc = "insert"
          PROVE  /\ visit'[x].who \in Raters /\ visit'[x].stars \in Stars
                 /\ visit'[x].who \notin doubled => ratings'[visit'[x].who] = <<>>
      BY <3>1, <3>2, <3>3, <3>6, <1>0 DEF RatingsOnce
    <3> QED
      BY <3>4, <3>5, <3>6 DEF RatingsOnce
  <2> QED
    BY <2>1, <2>2
<1>10. TotalsFollow'
  <2>1. CASE ratings[u] = <<>>
    <3>1. ratings' = ratings /\ \A x \in Browsers \ {b} : visit'[x] = visit[x]
      BY <2>1, <1>4, <1>6
    <3>2. Totalling' = Totalling
      BY <3>1, <2>1, <1>1, <1>2, <1>3 DEF Totalling
    <3>3. \A x \in Browsers : visit'[x].pc \in {"save", "edit"} => visit'[x] = visit[x]
      BY <3>1, <2>1, <1>1, <1>3
    <3> QED
      BY <3>1, <3>2, <3>3, <1>0, <1>2, TotalsStay
  <2>2. CASE ratings[u] # <<>>
    <3>1. b \in Totalling'
      BY <2>2, <1>1, <1>3 DEF Totalling
    <3>2. \A x \in Browsers : visit'[x].pc = "save" => visit'[x].late
      BY <2>2, <1>1, <1>3, <1>4
    <3>3. \A x \in Browsers : visit'[x].pc = "edit" => visit'[x] = visit[x]
      BY <1>1, <1>3, <1>4
    <3> QED
      BY <3>1, <3>2, <3>3, <1>0, <1>2 DEF TotalsFollow
  <2> QED
    BY <2>1, <2>2
<1>11. CacheFollows'
  <2>1. \A x \in Browsers : visit'[x].pc \in InHand => visit'[x] = visit[x]
    BY <1>1, <1>3, <1>4 DEF InHand
  <2>2. Committing' => Committing
    BY <1>1, <1>3, <1>4 DEF Committing
  <2>3. Settled' => Settled
    BY <1>2, <1>4 DEF Settled
  <2> QED
    BY <2>1, <2>2, <2>3, <1>0, <1>2, CacheStays
<1> QED
  BY <1>7, <1>8, <1>9, <1>10, <1>11 DEF PagesInv

LEMMA InsertRatingOK == ASSUME PagesInv, NEW b \in Browsers, InsertRating(b) PROVE PagesInv'
<1>0. PagesTypeOK /\ VersionsBounded /\ RatingsOnce /\ TotalsFollow /\ CacheFollows
  BY DEF PagesInv
<1>1. visit[b] \in Visit /\ visit[b].pc = "insert" /\ visit[b].who \in Raters /\ visit[b].stars \in Stars
  BY <1>0 DEF InsertRating, PagesTypeOK, RatingsOnce
<1>2. PICK u \in Raters : u = visit[b].who
  BY <1>1
<1>3. PICK s \in Stars : s = visit[b].stars
  BY <1>1
<1>4. /\ ratings' = [ratings EXCEPT ![u] = Append(@, s)]
      /\ doubled' = IF \E x \in Standing({"insert"}) \ {b} : visit[x].who = u
                        THEN doubled \cup {u} ELSE doubled
      /\ UNCHANGED <<shelf, version, pages, writes, tainted, lagged, owed>>
  BY <1>2, <1>3 DEF InsertRating
<1>5. visit'[b] \in Visit /\ visit'[b].pc = "aggregate"
  <2>1. visit'[b] = [visit[b] EXCEPT !.pc = "aggregate", !.late = @ \/ FALSE]
    BY <1>1 DEF InsertRating, Overtaken
  <2> QED
    BY <2>1, <1>1 DEF Visit, Step
<1>6. ASSUME NEW x \in Browsers \ {b}
      PROVE  /\ visit'[x] \in Visit /\ visit'[x].pc = visit[x].pc
             /\ visit[x].pc # "save" => visit'[x] = visit[x]
             /\ visit[x].pc = "save" => visit'[x].late
  <2>1. visit[x] \in Visit
    BY <1>0 DEF PagesTypeOK
  <2>2. visit'[x] = [visit[x] EXCEPT !.late = @ \/ visit[x].pc = "save"]
    BY DEF InsertRating, Overtaken
  <2>3. [visit[x] EXCEPT !.late = @ \/ FALSE] = visit[x]
    BY <2>1 DEF Visit
  <2> QED
    BY <2>1, <2>2, <2>3 DEF Visit
<1>7. PagesTypeOK'
  <2>1. visit' = [x \in Browsers |-> visit'[x]]
    BY DEF InsertRating, Overtaken
  <2>2. visit' \in [Browsers -> Visit]
    BY <2>1, <1>5, <1>6
  <2>3. Append(ratings[u], s) \in Seq(Stars)
    BY <1>0 DEF PagesTypeOK
  <2>4. ratings' \in [Raters -> Seq(Stars)]
    BY <1>0, <1>4, <2>3 DEF PagesTypeOK
  <2> QED
    BY <1>0, <1>4, <2>2, <2>4 DEF PagesTypeOK
<1>8. VersionsBounded'
  <2>1. Writing' = Writing
    BY <1>1, <1>5, <1>6 DEF Writing
  <2> QED
    BY <2>1, <1>0, <1>4 DEF VersionsBounded
<1>9. RatingsOnce'
  <2>1. \A x \in Browsers : visit'[x].pc = "insert" => x # b /\ visit'[x] = visit[x] /\ visit[x].pc = "insert"
    BY <1>5, <1>6
  <2>2. \A x \in Browsers : visit'[x].pc = "insert" /\ visit[x].who = u => u \in doubled'
    BY <2>1, <1>4 DEF Standing
  <2>3. \A w \in Raters : w # u => ratings'[w] = ratings[w]
    BY <1>0, <1>4 DEF PagesTypeOK
  <2>4. doubled \subseteq doubled'
    BY <1>4
  <2>5. ASSUME NEW x \in Browsers, visit'[x].pc = "insert"
        PROVE  /\ visit'[x].who \in Raters /\ visit'[x].stars \in Stars
               /\ visit'[x].who \notin doubled' => ratings'[visit'[x].who] = <<>>
    BY <2>1, <2>2, <2>3, <2>4, <2>5, <1>0 DEF RatingsOnce
  <2>6. ASSUME NEW w \in Raters \ doubled' PROVE Len(ratings'[w]) <= 1
    <3>1. CASE w = u
      <4>1. ratings[u] = <<>>
        BY <3>1, <2>4, <1>0, <1>1, <1>2 DEF RatingsOnce
      <4>2. ratings'[w] = Append(<<>>, s)
        BY <3>1, <4>1, <1>0, <1>4 DEF PagesTypeOK
      <4>3. Len(Append(<<>>, s)) = 1
        OBVIOUS
      <4> QED
        BY <4>2, <4>3
    <3>2. CASE w # u
      <4>1. ratings'[w] = ratings[w] /\ w \in Raters \ doubled
        BY <2>3, <2>4, <3>2
      <4> QED
        BY <4>1, <1>0 DEF RatingsOnce
    <3> QED
      BY <3>1, <3>2
  <2> QED
    BY <2>5, <2>6 DEF RatingsOnce
<1>10. TotalsFollow'
  <2>1. b \in Totalling'
    BY <1>5 DEF Totalling
  <2>2. \A x \in Browsers : visit'[x].pc = "save" => visit'[x].late
    BY <1>5, <1>6
  <2>3. \A x \in Browsers : visit'[x].pc = "edit" => visit'[x] = visit[x]
    BY <1>5, <1>6
  <2> QED
    BY <2>1, <2>2, <2>3, <1>0, <1>4 DEF TotalsFollow
<1>11. CacheFollows'
  <2>1. \A x \in Browsers : visit'[x].pc \in InHand => visit'[x] = visit[x]
    BY <1>5, <1>6 DEF InHand
  <2>2. Committing' => Committing
    BY <1>5, <1>6 DEF Committing
  <2>3. Settled' => Settled
    BY <1>1, <1>4, <1>6 DEF Settled
  <2> QED
    BY <2>1, <2>2, <2>3, <1>0, <1>4, CacheStays
<1> QED
  BY <1>7, <1>8, <1>9, <1>10, <1>11 DEF PagesInv

LEMMA AggregateOK == ASSUME PagesInv, NEW b \in Browsers, Aggregate(b) PROVE PagesInv'
<1>0. PagesTypeOK /\ VersionsBounded /\ RatingsOnce /\ TotalsFollow /\ CacheFollows
  BY DEF PagesInv
<1>1. visit[b] \in Visit /\ visit[b].pc = "aggregate"
  BY <1>0 DEF Aggregate, PagesTypeOK
<1>2. UNCHANGED <<ratings, shelf, version, pages, writes, tainted, lagged, doubled, owed>>
  BY DEF Aggregate, shelfVars
<1>3. PICK new \in Visit :
        /\ visit' = [visit EXCEPT ![b] = new]
        /\ new.pc = "save" /\ new.copy.sum = RatingSum /\ new.copy.count = RatingCount
  <2>1. PICK sum \in Int : sum = RatingSum
    BY <1>0, TotalsType DEF PagesTypeOK
  <2>2. PICK count \in Int : count = RatingCount
    BY <1>0, TotalsType DEF PagesTypeOK
  <2> DEFINE copy == [NoPage EXCEPT !.sum = sum, !.count = count]
             new == [visit[b] EXCEPT !.pc = "save", !.late = FALSE, !.copy = copy]
  <2>3. copy \in Page /\ copy.sum = sum /\ copy.count = count
    BY NoPageFacts DEF Page
  <2>4. visit' = [visit EXCEPT ![b] = new]
    BY <2>1, <2>2 DEF Aggregate
  <2> HIDE DEF copy
  <2>5. new \in Visit /\ new.pc = "save" /\ new.copy = copy
    BY <2>3, <1>1 DEF Visit, Step
  <2> HIDE DEF new
  <2> QED
    BY <2>1, <2>2, <2>3, <2>4, <2>5
<1>4. /\ visit' \in [Browsers -> Visit] /\ visit'[b] = new
      /\ \A x \in Browsers : x # b => visit'[x] = visit[x]
  BY <1>0, <1>3, Moved
<1>5. PagesTypeOK'
  BY <1>0, <1>2, <1>4 DEF PagesTypeOK
<1>6. VersionsBounded'
  <2>1. Writing' = Writing
    BY <1>1, <1>3, <1>4 DEF Writing
  <2> QED
    BY <2>1, <1>0, <1>2 DEF VersionsBounded
<1>7. \A x \in Browsers : visit'[x].pc # "save" => visit'[x] = visit[x]
  BY <1>3, <1>4
<1>8. RatingsOnce'
  BY <1>0, <1>2, <1>7, RatingsStay
<1>9. TotalsFollow'
  <2>1. RatingSum' = RatingSum /\ RatingCount' = RatingCount
    BY <1>2 DEF RatingSum, RatingCount
  <2>2. b \in Totalling'
    BY <1>3, <1>4 DEF Totalling
  <2>3. ASSUME NEW x \in Browsers, visit'[x].pc = "save", ~visit'[x].late
        PROVE  visit'[x].copy.sum = RatingSum /\ visit'[x].copy.count = RatingCount
    BY <2>3, <1>0, <1>3, <1>4 DEF TotalsFollow
  <2> QED
    BY <2>1, <2>2, <2>3, <1>0, <1>2, <1>7 DEF TotalsFollow
<1>10. CacheFollows'
  <2>1. Committing' => Committing
    BY <1>7 DEF Committing
  <2>2. Settled' => Settled
    BY <1>1, <1>2, <1>4 DEF Settled
  <2>3. \A x \in Browsers : visit'[x].pc \in InHand => visit'[x] = visit[x]
    BY <1>7 DEF InHand
  <2> QED
    BY <2>1, <2>2, <2>3, <1>0, <1>2, CacheStays
<1> QED
  BY <1>5, <1>6, <1>8, <1>9, <1>10 DEF PagesInv

LEMMA SaveRatingOK == ASSUME PagesInv, NEW b \in Browsers, SaveRating(b) PROVE PagesInv'
<1>0. PagesTypeOK /\ VersionsBounded /\ RatingsOnce /\ TotalsFollow /\ CacheFollows
  BY DEF PagesInv
<1>1. visit[b] \in Visit /\ visit[b].pc = "save"
  BY <1>0 DEF SaveRating, PagesTypeOK
<1>2. /\ lagged' = visit[b].late
      /\ UNCHANGED <<ratings, version, pages, writes, tainted, doubled, owed>>
  BY DEF SaveRating
<1>3. PICK pcs, seen : pcs = {"edit"} /\ seen = Overtaken(pcs)
  OBVIOUS
<1>4. PICK new \in Visit : visit' = [seen EXCEPT ![b] = new] /\ new.pc = "bump"
  <2>1. seen[b] \in Visit
    BY <1>0, <1>3, OvertakenOK
  <2>2. [seen[b] EXCEPT !.pc = "bump"] \in Visit /\ [seen[b] EXCEPT !.pc = "bump"].pc = "bump"
    BY <2>1 DEF Visit, Step
  <2>3. visit' = [seen EXCEPT ![b] = [seen[b] EXCEPT !.pc = "bump"]]
    BY <1>3 DEF SaveRating, Overtaken
  <2> QED
    BY <2>2, <2>3
<1>5. /\ visit' \in [Browsers -> Visit] /\ visit'[b] = new
      /\ \A x \in Browsers : x # b =>
            /\ visit'[x].pc = visit[x].pc
            /\ visit[x].pc # "edit" => visit'[x] = visit[x]
            /\ visit[x].pc = "edit" => visit'[x].late
  <2>1. \A x \in Browsers : /\ seen[x] \in Visit /\ seen[x].pc = visit[x].pc
                            /\ visit[x].pc # "edit" => seen[x] = visit[x]
                            /\ visit[x].pc = "edit" => seen[x].late
    BY <1>0, <1>3, OvertakenOK
  <2>2. seen = [x \in Browsers |-> seen[x]]
    BY <1>3 DEF Overtaken
  <2>3. visit'[b] = new /\ \A x \in Browsers : x # b => visit'[x] = seen[x]
    BY <2>2, <1>4
  <2>4. visit' \in [Browsers -> Visit]
    BY <2>1, <2>2, <1>4
  <2> QED
    BY <2>1, <2>3, <2>4
<1>6. shelf' \in Page /\ shelf'.sum = visit[b].copy.sum /\ shelf'.count = visit[b].copy.count
  <2>1. shelf \in Page /\ visit[b].copy \in Page
    BY <1>0, <1>1 DEF PagesTypeOK, Visit
  <2> QED
    BY <2>1 DEF SaveRating, Page
<1>7. PagesTypeOK'
  <2>1. lagged' \in BOOLEAN
    BY <1>1, <1>2 DEF Visit
  <2> QED
    BY <2>1, <1>0, <1>2, <1>5, <1>6 DEF PagesTypeOK
<1>8. VersionsBounded'
  <2>1. Writing' = Writing
    BY <1>1, <1>4, <1>5 DEF Writing
  <2> QED
    BY <2>1, <1>0, <1>2, BoundsStay
<1>9. \A x \in Browsers : visit'[x].pc \notin {"edit", "bump"} => visit'[x] = visit[x]
  BY <1>4, <1>5
<1>10. RatingsOnce'
  BY <1>0, <1>2, <1>9, RatingsStay
<1>11. TotalsFollow'
  <2>1. RatingSum' = RatingSum /\ RatingCount' = RatingCount
    BY <1>2 DEF RatingSum, RatingCount
  <2>2. ~lagged' => TotalsRight'
    BY <2>1, <1>0, <1>1, <1>2, <1>6 DEF TotalsFollow, TotalsRight
  <2>3. \A x \in Browsers : visit'[x].pc = "edit" => visit'[x].late
    BY <1>4, <1>5
  <2> QED
    BY <2>1, <2>2, <2>3, <1>0, <1>9 DEF TotalsFollow
<1>12. CacheFollows'
  <2>1. Committing' => Committing
    BY <1>9 DEF Committing
  <2>2. ~Settled'
    BY <1>4, <1>5 DEF Settled
  <2>3. \A x \in Browsers : visit'[x].pc \in InHand => visit'[x] = visit[x]
    BY <1>9 DEF InHand
  <2> QED
    BY <2>1, <2>2, <2>3, <1>0, <1>2, CacheStays
<1> QED
  BY <1>7, <1>8, <1>10, <1>11, <1>12 DEF PagesInv

LEMMA RestockOK == ASSUME PagesInv, NEW b \in Browsers, Restock(b) PROVE PagesInv'
<1>0. PagesTypeOK /\ VersionsBounded /\ RatingsOnce /\ TotalsFollow /\ CacheFollows
  BY DEF PagesInv
<1>1. /\ visit[b].pc = "idle" /\ writes < MaxWrites /\ writes' = writes + 1
      /\ UNCHANGED <<ratings, version, pages, tainted, lagged, doubled, owed>>
  BY NoVisitFacts DEF Restock
<1>2. PICK new \in Visit : visit' = [visit EXCEPT ![b] = new] /\ new.pc = "bump"
  BY <1>0, GoesTo DEF Restock, Step
<1>3. /\ visit' \in [Browsers -> Visit] /\ visit'[b] = new
      /\ \A x \in Browsers : x # b => visit'[x] = visit[x]
  BY <1>0, <1>2, Moved
<1>4. shelf' \in Page /\ shelf'.sum = shelf.sum /\ shelf'.count = shelf.count
  <2>1. shelf \in Page /\ shelf' = [shelf EXCEPT !.stock = FullStock]
    BY <1>0 DEF Restock, PagesTypeOK
  <2>2. FullStock \in Int
    BY PagesAssumption
  <2> QED
    BY <2>1, <2>2 DEF Page
<1>5. PagesTypeOK'
  BY <1>0, <1>1, <1>3, <1>4 DEF PagesTypeOK
<1>6. VersionsBounded'
  <2>1. Writing' = Writing \cup {b} /\ b \notin Writing
    BY <1>1, <1>2, <1>3 DEF Writing
  <2> QED
    BY <2>1, <1>0, <1>1, BoundsGrow
<1>7. \A x \in Browsers : visit'[x].pc # "bump" => visit'[x] = visit[x]
  BY <1>2, <1>3
<1>8. RatingsOnce'
  BY <1>0, <1>1, <1>7, RatingsStay
<1>9. TotalsFollow'
  <2>1. Totalling' = Totalling
    BY <1>1, <1>2, <1>3 DEF Totalling
  <2> QED
    BY <2>1, <1>0, <1>1, <1>4, <1>7, TotalsStay
<1>10. CacheFollows'
  <2>1. Committing' => Committing
    BY <1>7 DEF Committing
  <2>2. ~Settled'
    BY <1>2, <1>3 DEF Settled
  <2>3. \A x \in Browsers : visit'[x].pc \in InHand => visit'[x] = visit[x]
    BY <1>7 DEF InHand
  <2> QED
    BY <2>1, <2>2, <2>3, <1>0, <1>1, CacheStays
<1> QED
  BY <1>5, <1>6, <1>8, <1>9, <1>10 DEF PagesInv

LEMMA TypeTotalsOK ==
    ASSUME PagesInv, NEW b \in Browsers, NEW n \in 0..1, TypeTotals(b, n) PROVE PagesInv'
<1>0. PagesTypeOK /\ VersionsBounded /\ RatingsOnce /\ TotalsFollow /\ CacheFollows
  BY DEF PagesInv
<1>1. /\ visit[b].pc = "idle" /\ writes < MaxWrites /\ writes' = writes + 1
      /\ lagged' = TRUE /\ UNCHANGED <<ratings, version, pages, tainted, doubled, owed>>
  BY NoVisitFacts DEF TypeTotals
<1>2. PICK new \in Visit : visit' = [visit EXCEPT ![b] = new] /\ new.pc = "bump"
  BY <1>0, GoesTo DEF TypeTotals, Step
<1>3. /\ visit' \in [Browsers -> Visit] /\ visit'[b] = new
      /\ \A x \in Browsers : x # b => visit'[x] = visit[x]
  BY <1>0, <1>2, Moved
<1>4. shelf' \in Page
  <2>1. shelf \in Page /\ shelf' = [shelf EXCEPT !.sum = n, !.count = n]
    BY <1>0 DEF TypeTotals, PagesTypeOK
  <2>2. n \in Int
    OBVIOUS
  <2> QED
    BY <2>1, <2>2 DEF Page
<1>5. PagesTypeOK'
  BY <1>0, <1>1, <1>3, <1>4 DEF PagesTypeOK
<1>6. VersionsBounded'
  <2>1. Writing' = Writing \cup {b} /\ b \notin Writing
    BY <1>1, <1>2, <1>3 DEF Writing
  <2> QED
    BY <2>1, <1>0, <1>1, BoundsGrow
<1>7. \A x \in Browsers : visit'[x].pc # "bump" => visit'[x] = visit[x]
  BY <1>2, <1>3
<1>8. RatingsOnce'
  BY <1>0, <1>1, <1>7, RatingsStay
<1>9. TotalsFollow'
  <2>1. RatingSum' = RatingSum /\ RatingCount' = RatingCount
    BY <1>1 DEF RatingSum, RatingCount
  <2> QED
    BY <2>1, <1>0, <1>1, <1>7 DEF TotalsFollow
<1>10. CacheFollows'
  <2>1. Committing' => Committing
    BY <1>7 DEF Committing
  <2>2. ~Settled'
    BY <1>2, <1>3 DEF Settled
  <2>3. \A x \in Browsers : visit'[x].pc \in InHand => visit'[x] = visit[x]
    BY <1>7 DEF InHand
  <2> QED
    BY <2>1, <2>2, <2>3, <1>0, <1>1, CacheStays
<1> QED
  BY <1>5, <1>6, <1>8, <1>9, <1>10 DEF PagesInv

\* The admin site changes ratings and nothing is recomputed.
LEMMA AdminRatesOK ==
    ASSUME PagesInv, NEW u \in Raters, NEW rows \in Seq(Stars), AdminRates(u, rows) PROVE PagesInv'
<1>0. PagesTypeOK /\ VersionsBounded /\ RatingsOnce /\ TotalsFollow /\ CacheFollows
  BY DEF PagesInv
<1>1. /\ writes < MaxWrites /\ writes' = writes + 1 /\ lagged' = TRUE
      /\ ratings' = [ratings EXCEPT ![u] = rows]
      /\ doubled \subseteq doubled' /\ (Len(rows) > 1 => u \in doubled')
      /\ UNCHANGED <<shelf, version, pages, tainted, owed>>
  BY DEF AdminRates
<1>2. ASSUME NEW x \in Browsers
      PROVE  /\ visit'[x] \in Visit /\ visit'[x].pc = visit[x].pc
             /\ visit[x].pc # "save" => visit'[x] = visit[x]
             /\ visit[x].pc = "save" => visit'[x].late
  <2>1. PICK pcs : pcs = {"save"} /\ visit' = Overtaken(pcs)
    BY DEF AdminRates
  <2>2. /\ visit'[x] \in Visit /\ visit'[x].pc = visit[x].pc
        /\ visit[x].pc \notin pcs => visit'[x] = visit[x]
        /\ visit[x].pc \in pcs => visit'[x].late
    BY <1>0, <2>1, OvertakenOK
  <2> QED
    BY <2>1, <2>2
<1>3. PagesTypeOK'
  <2>1. visit' = [x \in Browsers |-> visit'[x]]
    BY DEF AdminRates, Overtaken
  <2>2. visit' \in [Browsers -> Visit]
    BY <2>1, <1>2
  <2>4. ratings' \in [Raters -> Seq(Stars)]
    BY <1>0, <1>1 DEF PagesTypeOK
  <2> QED
    BY <2>2, <2>4, <1>0, <1>1 DEF PagesTypeOK
<1>4. VersionsBounded'
  <2>1. Writing' = Writing
    BY <1>2 DEF Writing
  <2> QED
    BY <2>1, <1>0, <1>1, WritingFinite, PagesAssumption DEF VersionsBounded, PagesTypeOK
<1>5. RatingsOnce'
  <2>1. \A w \in Raters : ratings'[w] = IF w = u THEN rows ELSE ratings[w]
    BY <1>0, <1>1 DEF PagesTypeOK
  <2>2. \A w \in Raters \ doubled' : Len(ratings'[w]) <= 1
    <3>1. Len(rows) \in Nat
      OBVIOUS
    <3> QED
      BY <2>1, <3>1, <1>0, <1>1 DEF RatingsOnce
  <2>3. \A x \in Browsers : visit'[x].pc = "insert" => visit'[x] = visit[x]
    BY <1>2
  <2>4. ASSUME NEW x \in Browsers, visit[x].pc = "insert", visit[x].who = u PROVE u \in doubled'
    BY <2>4 DEF AdminRates, Standing
  <2> QED
    BY <2>1, <2>2, <2>3, <2>4, <1>0, <1>1, <1>2 DEF RatingsOnce
<1>6. TotalsFollow'
  <2>1. \A x \in Browsers : visit'[x].pc = "save" => visit'[x].late
    BY <1>2
  <2> QED
    BY <2>1, <1>1 DEF TotalsFollow
<1>7. CacheFollows'
  <2>1. \A x \in Browsers : visit'[x].pc \in InHand => visit'[x] = visit[x]
    BY <1>2 DEF InHand
  <2>2. Committing' => Committing
    BY <1>2 DEF Committing
  <2>3. Settled' => Settled
    BY <1>1, <1>2 DEF Settled
  <2> QED
    BY <2>1, <2>2, <2>3, <1>0, <1>1, CacheStays
<1> QED
  BY <1>3, <1>4, <1>5, <1>6, <1>7 DEF PagesInv

LEMMA LoadProductOK == ASSUME PagesInv, NEW b \in Browsers, LoadProduct(b) PROVE PagesInv'
<1>0. PagesTypeOK /\ VersionsBounded /\ RatingsOnce /\ TotalsFollow /\ CacheFollows
  BY DEF PagesInv
<1>1. /\ visit[b] = NoVisit /\ visit[b].pc = "idle" /\ writes < MaxWrites /\ writes' = writes + 1
      /\ UNCHANGED <<ratings, shelf, version, pages, tainted, lagged, doubled, owed>>
  BY NoVisitFacts DEF LoadProduct, shelfVars
<1>2. PICK new \in Visit :
        /\ visit' = [visit EXCEPT ![b] = new]
        /\ new.pc = "edit" /\ new.copy.sum = shelf.sum /\ new.copy.count = shelf.count
  <2>1. shelf.sum \in Int /\ shelf.count \in Int
    BY <1>0 DEF PagesTypeOK, Page
  <2> DEFINE copy == [NoPage EXCEPT !.sum = shelf.sum, !.count = shelf.count]
             new == [visit[b] EXCEPT !.pc = "edit", !.copy = copy]
  <2>2. copy \in Page /\ copy.sum = shelf.sum /\ copy.count = shelf.count
    BY <2>1, NoPageFacts DEF Page
  <2>3. visit' = [visit EXCEPT ![b] = new]
    BY DEF LoadProduct
  <2> HIDE DEF copy
  <2>4. new \in Visit /\ new.pc = "edit" /\ new.copy = copy
    BY <2>2, <1>1, NoVisitFacts DEF Visit, Step
  <2> HIDE DEF new
  <2> QED
    BY <2>2, <2>3, <2>4
<1>3. /\ visit' \in [Browsers -> Visit] /\ visit'[b] = new
      /\ \A x \in Browsers : x # b => visit'[x] = visit[x]
  BY <1>0, <1>2, Moved
<1>4. PagesTypeOK'
  BY <1>0, <1>1, <1>3 DEF PagesTypeOK
<1>5. VersionsBounded'
  <2>1. Writing' = Writing \cup {b} /\ b \notin Writing
    BY <1>1, <1>2, <1>3 DEF Writing
  <2> QED
    BY <2>1, <1>0, <1>1, BoundsGrow
<1>6. \A x \in Browsers : visit'[x].pc # "edit" => visit'[x] = visit[x]
  BY <1>2, <1>3
<1>7. RatingsOnce'
  BY <1>0, <1>1, <1>6, RatingsStay
<1>8. TotalsFollow'
  <2>1. RatingSum' = RatingSum /\ RatingCount' = RatingCount
    BY <1>1 DEF RatingSum, RatingCount
  <2>2. Totalling' = Totalling /\ TotalsRight' = TotalsRight
    BY <2>1, <1>1, <1>2, <1>3 DEF Totalling, TotalsRight
  <2>3. ASSUME NEW x \in Browsers, visit'[x].pc = "edit", ~visit'[x].late, ~lagged
        PROVE  visit'[x].copy.sum = shelf.sum /\ visit'[x].copy.count = shelf.count
    BY <2>3, <1>0, <1>2, <1>3 DEF TotalsFollow
  <2> QED
    BY <2>1, <2>2, <2>3, <1>0, <1>1, <1>6 DEF TotalsFollow
<1>9. CacheFollows'
  <2>1. \A x \in Browsers : visit'[x].pc \in InHand => visit'[x] = visit[x]
    BY <1>6 DEF InHand
  <2>2. Committing' => Committing
    BY <1>6 DEF Committing
  <2>3. Settled' => Settled
    BY <1>1, <1>3 DEF Settled
  <2> QED
    BY <2>1, <2>2, <2>3, <1>0, <1>1, CacheStays
<1> QED
  BY <1>4, <1>5, <1>7, <1>8, <1>9 DEF PagesInv

\* The row goes back as it was loaded: the totals stay, unless a rating came between.
LEMMA SaveProductOK == ASSUME PagesInv, NEW b \in Browsers, SaveProduct(b) PROVE PagesInv'
<1>0. PagesTypeOK /\ VersionsBounded /\ RatingsOnce /\ TotalsFollow /\ CacheFollows
  BY DEF PagesInv
<1>1. visit[b] \in Visit /\ visit[b].pc = "edit"
  BY <1>0 DEF SaveProduct, PagesTypeOK
<1>2. /\ lagged' = (lagged \/ visit[b].late)
      /\ UNCHANGED <<ratings, version, pages, writes, tainted, doubled, owed>>
  BY DEF SaveProduct
<1>3. PICK new \in Visit : visit' = [visit EXCEPT ![b] = new] /\ new.pc = "bump"
  BY <1>0, GoesTo DEF SaveProduct, Step
<1>4. /\ visit' \in [Browsers -> Visit] /\ visit'[b] = new
      /\ \A x \in Browsers : x # b => visit'[x] = visit[x]
  BY <1>0, <1>3, Moved
<1>5. shelf' \in Page /\ shelf'.sum = visit[b].copy.sum /\ shelf'.count = visit[b].copy.count
  <2>1. shelf \in Page /\ visit[b].copy \in Page
    BY <1>0, <1>1 DEF PagesTypeOK, Visit
  <2> QED
    BY <2>1 DEF SaveProduct, Page
<1>6. ~lagged' => ~lagged /\ shelf'.sum = shelf.sum /\ shelf'.count = shelf.count
  BY <1>0, <1>1, <1>2, <1>5 DEF TotalsFollow
<1>7. PagesTypeOK'
  <2>1. lagged' \in BOOLEAN
    BY <1>2
  <2> QED
    BY <2>1, <1>0, <1>2, <1>4, <1>5 DEF PagesTypeOK
<1>8. VersionsBounded'
  <2>1. Writing' = Writing
    BY <1>1, <1>3, <1>4 DEF Writing
  <2> QED
    BY <2>1, <1>0, <1>2, BoundsStay
<1>9. \A x \in Browsers : visit'[x].pc # "bump" => visit'[x] = visit[x]
  BY <1>3, <1>4
<1>10. RatingsOnce'
  BY <1>0, <1>2, <1>9, RatingsStay
<1>11. TotalsFollow'
  <2>1. RatingSum' = RatingSum /\ RatingCount' = RatingCount
    BY <1>2 DEF RatingSum, RatingCount
  <2>2. Totalling' = Totalling
    BY <1>1, <1>3, <1>4 DEF Totalling
  <2>3. ~lagged' => (TotalsRight' <=> TotalsRight)
    BY <2>1, <1>6 DEF TotalsRight
  <2> QED
    BY <2>1, <2>2, <2>3, <1>0, <1>6, <1>9 DEF TotalsFollow
<1>12. CacheFollows'
  <2>1. \A x \in Browsers : visit'[x].pc \in InHand => visit'[x] = visit[x]
    BY <1>9 DEF InHand
  <2>2. Committing' => Committing
    BY <1>9 DEF Committing
  <2>3. ~Settled'
    BY <1>3, <1>4 DEF Settled
  <2> QED
    BY <2>1, <2>2, <2>3, <1>0, <1>2, CacheStays
<1> QED
  BY <1>7, <1>8, <1>10, <1>11, <1>12 DEF PagesInv

\* The signal moves the counter up, or misses it and sets it in its next step.
LEMMA BumpOK == ASSUME PagesInv, NEW b \in Browsers, Bump(b) PROVE PagesInv'
<1>0. PagesTypeOK /\ VersionsBounded /\ RatingsOnce /\ TotalsFollow /\ CacheFollows
  BY DEF PagesInv
<1>1. /\ visit[b].pc \in {"bump", "sell"}
      /\ UNCHANGED <<ratings, shelf, pages, writes, tainted, lagged, doubled>>
      /\ \/ version = 0 /\ UNCHANGED <<version, owed>>
         \/ version # 0 /\ version' = version + 1 /\ owed' = FALSE
  BY DEF Bump, Bumped
<1>2. PICK pc \in {"reset", "rebase", "idle", "commit"} :
        /\ Goes(b, pc)
        /\ version = 0 => pc = IF visit[b].pc = "bump" THEN "reset" ELSE "rebase"
        /\ version # 0 => pc = IF visit[b].pc = "bump" THEN "idle" ELSE "commit"
  BY DEF Bump
<1>3. PICK new \in Visit : visit' = [visit EXCEPT ![b] = new] /\ new.pc = pc
  BY <1>0, <1>2, GoesTo DEF Step
<1>4. /\ visit' \in [Browsers -> Visit] /\ visit'[b] = new
      /\ \A x \in Browsers : x # b => visit'[x] = visit[x]
  BY <1>0, <1>3, Moved
<1>5. PagesTypeOK'
  <2>1. version' \in Nat /\ writes' \in Nat
    BY <1>0, <1>1 DEF PagesTypeOK
  <2>2. owed' \in BOOLEAN /\ lagged' \in BOOLEAN
    BY <1>0, <1>1, Zenon DEF PagesTypeOK
  <2> QED
    BY <2>1, <2>2, <1>0, <1>1, <1>4 DEF PagesTypeOK
<1>6. VersionsBounded' /\ version' <= MaxWrites + 1
  <2>1. Writing' = Writing \ {b} /\ b \in Writing
    BY <1>1, <1>2, <1>3, <1>4 DEF Writing
  <2> QED
    BY <2>1, <1>0, <1>1, BoundsShrink
<1>7. \A x \in Browsers : visit'[x].pc \notin {"reset", "rebase", "idle", "commit"} => visit'[x] = visit[x]
  BY <1>2, <1>3, <1>4
<1>8. RatingsOnce'
  BY <1>0, <1>1, <1>7, RatingsStay
<1>9. TotalsFollow'
  <2>1. Totalling' = Totalling
    BY <1>1, <1>2, <1>3, <1>4 DEF Totalling
  <2> QED
    BY <2>1, <1>0, <1>1, <1>7, TotalsStay
<1>10. CacheFollows'
  <2>1. \A x \in Browsers : visit'[x].pc \in InHand => visit'[x] = visit[x]
    BY <1>7 DEF InHand
  <2>2. CASE version = 0
    <3>1. Committing' => Committing
      BY <2>2, <1>1, <1>2, <1>3, <1>4 DEF Committing
    <3>2. Settled' => Settled
      BY <2>2, <1>1, <1>2, <1>3, <1>4 DEF Settled
    <3> QED
      BY <2>1, <2>2, <3>1, <3>2, <1>0, <1>1, CacheStays
  <2>3. CASE version # 0
    <3>1. version' = version + 1 /\ version' \in DOMAIN pages
      BY <2>3, <1>0, <1>1, <1>6 DEF PagesTypeOK
    <3> QED
      BY <2>1, <3>1, <1>0, <1>1, <1>4, VersionMoves
  <2> QED
    BY <2>2, <2>3
<1> QED
  BY <1>5, <1>6, <1>8, <1>9, <1>10 DEF PagesInv

\* Without a counter nothing is stored under a version; with one, everything is too old.
LEMMA SetToOneOK == ASSUME PagesInv, NEW b \in Browsers, SetToOne(b) PROVE PagesInv'
<1>0. PagesTypeOK /\ VersionsBounded /\ RatingsOnce /\ TotalsFollow /\ CacheFollows
  BY DEF PagesInv
<1>1. /\ visit[b] \in Visit /\ visit[b].pc \in {"first", "again", "reset", "rebase"}
      /\ version' = 1 /\ tainted' = IF version = 0 THEN tainted ELSE tainted \cup Stored
      /\ owed' = (owed /\ visit[b].pc \in {"first", "again"})
      /\ UNCHANGED <<ratings, shelf, pages, writes, lagged, doubled>>
  BY <1>0 DEF SetToOne, PagesTypeOK
<1>2. PICK pcs, seen : /\ pcs = IF version = 0 THEN {} ELSE InHand
                       /\ seen = IF version = 0 THEN visit ELSE Overtaken(pcs)
  OBVIOUS
<1>3. \A x \in Browsers : /\ seen[x] \in Visit /\ seen[x].pc = visit[x].pc
                          /\ visit[x].pc \notin pcs => seen[x] = visit[x]
                          /\ visit[x].pc \in pcs => seen[x].late
  <2>1. CASE version = 0
    BY <2>1, <1>0, <1>2 DEF PagesTypeOK
  <2>2. CASE version # 0
    BY <2>2, <1>0, <1>2, OvertakenOK
  <2> QED
    BY <2>1, <2>2
<1>4. seen = [x \in Browsers |-> seen[x]]
  BY <1>0, <1>2 DEF Overtaken, PagesTypeOK
<1>5. PICK new \in Visit :
        /\ visit' = [seen EXCEPT ![b] = new]
        /\ visit[b].pc = "first" => new.pc \in {"query", "idle"}
        /\ visit[b].pc = "again" => new.pc = "store" /\ new.at = 1
                                    /\ new.copy = seen[b].copy /\ new.late = seen[b].late
        /\ visit[b].pc = "reset" => new.pc = "idle"
        /\ visit[b].pc = "rebase" => new.pc = "commit"
  <2> DEFINE new == CASE visit[b].pc = "first" -> IF pages[1] = NoPage THEN [seen[b] EXCEPT !.pc = "query"]
                                                                     ELSE NoVisit
                      [] visit[b].pc = "again" -> [seen[b] EXCEPT !.pc = "store", !.at = 1]
                      [] visit[b].pc = "reset" -> NoVisit
                      [] visit[b].pc = "rebase" -> [seen[b] EXCEPT !.pc = "commit"]
  <2>1. visit' = [seen EXCEPT ![b] = new]
    <3>1. CASE version = 0
      BY <3>1, <1>2, <1>4 DEF SetToOne
    <3>2. CASE version # 0
      <4>1. seen = Overtaken(InHand)
        BY <3>2, <1>2
      <4> QED
        BY <3>2, <4>1, <1>4 DEF SetToOne
    <3> QED
      BY <3>1, <3>2
  <2>2. seen[b] \in Visit /\ 1 \in Nat
    BY <1>3
  <2>3. CASE visit[b].pc = "first"
    BY <2>1, <2>2, <2>3, NoVisitFacts DEF Visit, Step
  <2>4. CASE visit[b].pc = "again"
    <3>1. PICK to : to = [seen[b] EXCEPT !.pc = "store", !.at = 1]
      OBVIOUS
    <3>2. to \in Visit /\ to.pc = "store" /\ to.at = 1 /\ to.copy = seen[b].copy /\ to.late = seen[b].late
      BY <2>2, <3>1 DEF Visit, Step
    <3>3. new = to
      BY <2>4, <3>1
    <3> HIDE DEF new
    <3> QED
      BY <2>1, <2>4, <3>2, <3>3
  <2>5. CASE visit[b].pc = "reset"
    BY <2>1, <2>5, NoVisitFacts
  <2>6. CASE visit[b].pc = "rebase"
    <3>1. PICK to : to = [seen[b] EXCEPT !.pc = "commit"]
      OBVIOUS
    <3>2. to \in Visit /\ to.pc = "commit"
      BY <2>2, <3>1 DEF Visit, Step
    <3>3. new = to
      BY <2>6, <3>1
    <3> QED
      BY <2>1, <2>6, <3>2, <3>3
  <2> QED
    BY <2>3, <2>4, <2>5, <2>6, <1>1
<1>6. /\ visit' \in [Browsers -> Visit] /\ visit'[b] = new
      /\ \A x \in Browsers : x # b => visit'[x] = seen[x]
  <2>1. visit'[b] = new /\ \A x \in Browsers : x # b => visit'[x] = seen[x]
    BY <1>4, <1>5
  <2>2. visit' \in [Browsers -> Visit]
    BY <1>3, <1>4, <1>5
  <2> QED
    BY <2>1, <2>2
<1>7. /\ visit[b].pc \in {"first", "again"} => new.pc \in {"query", "idle", "store"}
      /\ new.pc \in {"query", "idle", "store", "commit"}
  BY <1>1, <1>5
<1>8. 1 \in DOMAIN pages /\ PagesTypeOK'
  <2>1. 1 \in 1..MaxWrites + 1 /\ version' \in Nat
    BY <1>1, PagesAssumption
  <2>2. owed' \in BOOLEAN
    BY <1>1
  <2> QED
    BY <2>1, <2>2, <1>0, <1>1, <1>6 DEF PagesTypeOK
<1>9. VersionsBounded'
  <2>1. Writing' = Writing
    BY <1>1, <1>3, <1>6, <1>7 DEF Writing
  <2> QED
    BY <2>1, <1>0, <1>1, WritingFinite DEF VersionsBounded, PagesTypeOK
<1>10. \A x \in Browsers : visit'[x].pc \notin InHand \cup {"query", "idle", "commit"} => visit'[x] = visit[x]
  BY <1>2, <1>3, <1>6, <1>7 DEF InHand
<1>11. RatingsOnce'
  BY <1>0, <1>1, <1>10, RatingsStay DEF InHand
<1>12. TotalsFollow'
  <2>1. Totalling' = Totalling
    BY <1>1, <1>3, <1>6, <1>7 DEF Totalling
  <2>2. \A x \in Browsers : visit'[x].pc \in {"save", "edit"} => visit'[x] = visit[x]
    BY <1>10 DEF InHand
  <2> QED
    BY <2>1, <2>2, <1>0, <1>1, TotalsStay
<1>13. CacheFollows'
  <2>1. CASE version # 0
    <3>1. \A x \in Browsers : visit'[x].pc \in InHand => visit'[x].late
      <4>1. ASSUME NEW x \in Browsers, x # b, visit'[x].pc \in InHand PROVE visit'[x].late
        BY <2>1, <4>1, <1>2, <1>3, <1>6
      <4>2. new.pc \in InHand => new.late
        BY <2>1, <1>1, <1>2, <1>3, <1>5, <1>7 DEF InHand
      <4> QED
        BY <4>1, <4>2, <1>6
    <3>2. ASSUME NEW x \in Browsers, visit'[x].pc = "store" PROVE visit'[x].at \in DOMAIN pages
      <4>1. CASE x = b
        BY <3>2, <4>1, <1>1, <1>5, <1>6, <1>8
      <4>2. CASE x # b
        <5>1. visit[x].pc = "store" /\ visit'[x] = seen[x]
          BY <3>2, <4>2, <1>3, <1>6
        <5>2. seen = Overtaken(pcs)
          BY <2>1, <1>2
        <5>3. seen[x].at = visit[x].at
          BY <5>2, <1>0 DEF Overtaken, PagesTypeOK, Visit
        <5> QED
          BY <5>1, <5>3, <1>0 DEF CacheFollows
      <4> QED
        BY <4>1, <4>2
    <3> QED
      BY <2>1, <3>1, <3>2, <1>0, <1>1, <1>8, VersionJumps
  <2>2. CASE version = 0 /\ visit[b].pc # "again"
    <3>1. \A x \in Browsers : visit'[x].pc \in InHand => visit'[x] = visit[x]
      BY <2>2, <1>1, <1>2, <1>3, <1>5, <1>6 DEF InHand
    <3>2. version' = version + 1 /\ version' \in DOMAIN pages /\ tainted' = tainted
      BY <2>2, <1>1, <1>8
    <3> QED
      BY <3>1, <3>2, <1>0, <1>1, <1>6, VersionMoves
  <2>3. CASE version = 0 /\ visit[b].pc = "again"
    <3>1. \A x \in Browsers : x # b => visit'[x] = visit[x]
      BY <2>3, <1>2, <1>6
    <3>2. new.pc = "store" /\ new.at = 1 /\ new.copy = visit[b].copy /\ new.late = visit[b].late
      BY <2>3, <1>2, <1>5
    <3>3. version' = 1 /\ UNCHANGED <<shelf, pages, tainted>> /\ (owed' <=> owed)
      BY <2>3, <1>1
    <3>4. (Settled' => Settled) /\ (Committing' => Committing)
      BY <2>3, <3>1, <3>2, <3>3, <1>6 DEF Settled, Committing
    <3>5. Timely(b)' => Timely(b)
      BY <2>3, <3>2, <1>6 DEF Timely, InHand
    <3>6. Timely(b) => visit[b].at = version
      <4>1. visit[b].at \in Nat
        BY <1>1 DEF Visit
      <4>2. Timely(b) => visit[b].at <= version
        BY <1>0 DEF CacheFollows
      <4> QED
        BY <2>3, <4>1, <4>2
    <3>7. ASSUME NEW x \in Browsers, x # b, Timely(x)' PROVE visit'[x].at = 0
      <4>1. Timely(x) /\ visit'[x] = visit[x] /\ visit[x].at \in Nat
        BY <3>1, <3>7, <1>0 DEF Timely, PagesTypeOK, Visit
      <4> QED
        BY <2>3, <4>1, <1>0 DEF CacheFollows
    <3>8. \A v \in DOMAIN pages : Vacant(v)'
      <4>1. \A v \in DOMAIN pages : v > version
        BY <2>3, <1>0, PagesAssumption DEF PagesTypeOK
      <4> QED
        BY <3>3, <4>1, <1>0 DEF CacheFollows, Vacant
    <3>9. \A x \in Browsers : visit'[x].pc = "store" => visit'[x].at \in DOMAIN pages'
      BY <3>1, <3>2, <3>3, <1>0, <1>6, <1>8 DEF CacheFollows
    <3>10. ASSUME NEW x \in Browsers, Timely(x)'
           PROVE  /\ visit'[x].at <= version'
                  /\ visit'[x].at = version' => ~Committing'
                  /\ visit'[x].at = version' /\ Settled' => visit'[x].copy = shelf'
      <4>1. CASE x = b
        BY <3>2, <3>3, <3>4, <3>5, <3>6, <3>10, <4>1, <1>0, <1>6 DEF CacheFollows
      <4>2. CASE x # b
        BY <3>3, <3>7, <3>10, <4>2
      <4> QED
        BY <4>1, <4>2
    <3> QED
      BY <3>3, <3>8, <3>9, <3>10, <1>8 DEF CacheFollows
  <2> QED
    BY <2>1, <2>2, <2>3
<1> QED
  BY <1>8, <1>9, <1>11, <1>12, <1>13 DEF PagesInv

LEMMA SellInBlockOK == ASSUME PagesInv, NEW b \in Browsers, SellInBlock(b) PROVE PagesInv'
<1>0. PagesTypeOK /\ VersionsBounded /\ RatingsOnce /\ TotalsFollow /\ CacheFollows
  BY DEF PagesInv
<1>1. /\ visit[b].pc = "idle" /\ writes < MaxWrites /\ writes' = writes + 1
      /\ UNCHANGED <<ratings, shelf, version, pages, tainted, lagged, doubled, owed>>
  BY NoVisitFacts DEF SellInBlock, shelfVars
<1>2. PICK new \in Visit : visit' = [visit EXCEPT ![b] = new] /\ new.pc = "sell"
  BY <1>0, GoesTo DEF SellInBlock, Step
<1>3. /\ visit' \in [Browsers -> Visit] /\ visit'[b] = new
      /\ \A x \in Browsers : x # b => visit'[x] = visit[x]
  BY <1>0, <1>2, Moved
<1>4. PagesTypeOK'
  BY <1>0, <1>1, <1>3 DEF PagesTypeOK
<1>5. VersionsBounded'
  <2>1. Writing' = Writing \cup {b} /\ b \notin Writing
    BY <1>1, <1>2, <1>3 DEF Writing
  <2> QED
    BY <2>1, <1>0, <1>1, BoundsGrow
<1>6. \A x \in Browsers : visit'[x].pc # "sell" => visit'[x] = visit[x]
  BY <1>2, <1>3
<1>7. RatingsOnce'
  BY <1>0, <1>1, <1>6, RatingsStay
<1>8. TotalsFollow'
  <2>1. Totalling' = Totalling
    BY <1>1, <1>2, <1>3 DEF Totalling
  <2> QED
    BY <2>1, <1>0, <1>1, <1>6, TotalsStay
<1>9. CacheFollows'
  <2>1. \A x \in Browsers : visit'[x].pc \in InHand => visit'[x] = visit[x]
    BY <1>6 DEF InHand
  <2>2. Committing' => Committing
    BY <1>6 DEF Committing
  <2>3. Settled' => Settled
    BY <1>1, <1>3 DEF Settled
  <2> QED
    BY <2>1, <2>2, <2>3, <1>0, <1>1, CacheStays
<1> QED
  BY <1>4, <1>5, <1>7, <1>8, <1>9 DEF PagesInv

\* The stock changes under a version whose page is missing or was taken too early.
LEMMA CommitSaleOK == ASSUME PagesInv, NEW b \in Browsers, CommitSale(b) PROVE PagesInv'
<1>0. PagesTypeOK /\ VersionsBounded /\ RatingsOnce /\ TotalsFollow /\ CacheFollows
  BY DEF PagesInv
<1>1. /\ visit[b].pc = "commit"
      /\ UNCHANGED <<ratings, version, pages, writes, tainted, lagged, doubled, owed>>
  BY DEF CommitSale
<1>2. PICK new \in Visit : visit' = [visit EXCEPT ![b] = new] /\ new.pc = "idle"
  BY <1>0, GoesTo DEF CommitSale, Step
<1>3. /\ visit' \in [Browsers -> Visit] /\ visit'[b] = new
      /\ \A x \in Browsers : x # b => visit'[x] = visit[x]
  BY <1>0, <1>2, Moved
<1>4. shelf' \in Page /\ shelf'.sum = shelf.sum /\ shelf'.count = shelf.count
  <2>1. shelf \in Page /\ shelf' = [shelf EXCEPT !.stock = @ - 1]
    BY <1>0 DEF CommitSale, PagesTypeOK
  <2> QED
    BY <2>1 DEF Page
<1>5. PagesTypeOK'
  BY <1>0, <1>1, <1>3, <1>4 DEF PagesTypeOK
<1>6. VersionsBounded'
  <2>1. Writing' = Writing
    BY <1>1, <1>2, <1>3 DEF Writing
  <2> QED
    BY <2>1, <1>0, <1>1, BoundsStay
<1>7. \A x \in Browsers : visit'[x].pc # "idle" => visit'[x] = visit[x]
  BY <1>2, <1>3
<1>8. RatingsOnce'
  BY <1>0, <1>1, <1>7, RatingsStay
<1>9. TotalsFollow'
  <2>1. Totalling' = Totalling
    BY <1>1, <1>2, <1>3 DEF Totalling
  <2> QED
    BY <2>1, <1>0, <1>1, <1>4, <1>7, TotalsStay
<1>10. CacheFollows'
  <2>1. Committing
    BY <1>1 DEF Committing
  <2>2. ASSUME NEW x \in Browsers, Timely(x)'
        PROVE  visit'[x].at <= version' /\ visit'[x].at # version'
    <3>1. Timely(x) /\ visit'[x] = visit[x]
      BY <2>2, <1>7 DEF Timely, InHand
    <3> QED
      BY <2>1, <3>1, <1>0, <1>1 DEF CacheFollows
  <2>3. version # 0 => Vacant(version)'
    BY <2>1, <1>0, <1>1 DEF CacheFollows, Vacant
  <2>4. \A v \in DOMAIN pages : v > version => Vacant(v)'
    BY <1>0, <1>1 DEF CacheFollows, Vacant
  <2>5. \A x \in Browsers : visit'[x].pc = "store" => visit'[x].at \in DOMAIN pages
    BY <1>0, <1>7 DEF CacheFollows
  <2> QED
    BY <2>2, <2>3, <2>4, <2>5, <1>1 DEF CacheFollows
<1> QED
  BY <1>5, <1>6, <1>8, <1>9, <1>10 DEF PagesInv

LEMMA BrowseOK == ASSUME PagesInv, NEW b \in Browsers, Browse(b) PROVE PagesInv'
<1>0. PagesTypeOK /\ VersionsBounded /\ RatingsOnce /\ TotalsFollow /\ CacheFollows
  BY DEF PagesInv
<1>1. /\ visit[b].pc = "idle"
      /\ UNCHANGED <<ratings, shelf, version, pages, writes, tainted, lagged, doubled, owed>>
  BY NoVisitFacts DEF Browse, shelfVars
<1>2. PICK pc \in {"first", "query"} : Goes(b, pc)
  BY DEF Browse
<1>3. PICK new \in Visit : visit' = [visit EXCEPT ![b] = new] /\ new.pc = pc
  BY <1>0, <1>2, GoesTo DEF Step
<1>4. /\ visit' \in [Browsers -> Visit] /\ visit'[b] = new
      /\ \A x \in Browsers : x # b => visit'[x] = visit[x]
  BY <1>0, <1>3, Moved
<1>5. PagesTypeOK'
  BY <1>0, <1>1, <1>4 DEF PagesTypeOK
<1>6. VersionsBounded'
  <2>1. Writing' = Writing
    BY <1>1, <1>2, <1>3, <1>4 DEF Writing
  <2> QED
    BY <2>1, <1>0, <1>1, BoundsStay
<1>7. \A x \in Browsers : visit'[x].pc \notin {"first", "query"} => visit'[x] = visit[x]
  BY <1>2, <1>3, <1>4
<1>8. RatingsOnce'
  BY <1>0, <1>1, <1>7, RatingsStay
<1>9. TotalsFollow'
  <2>1. Totalling' = Totalling
    BY <1>1, <1>2, <1>3, <1>4 DEF Totalling
  <2> QED
    BY <2>1, <1>0, <1>1, <1>7, TotalsStay
<1>10. CacheFollows'
  <2>1. \A x \in Browsers : visit'[x].pc \in InHand => visit'[x] = visit[x]
    BY <1>7 DEF InHand
  <2>2. Committing' => Committing
    BY <1>7 DEF Committing
  <2>3. Settled' => Settled
    BY <1>1, <1>4 DEF Settled
  <2> QED
    BY <2>1, <2>2, <2>3, <1>0, <1>1, CacheStays
<1> QED
  BY <1>5, <1>6, <1>8, <1>9, <1>10 DEF PagesInv

LEMMA QueryOK == ASSUME PagesInv, NEW b \in Browsers, Query(b) PROVE PagesInv'
<1>0. PagesTypeOK /\ VersionsBounded /\ RatingsOnce /\ TotalsFollow /\ CacheFollows
  BY DEF PagesInv
<1>1. visit[b] \in Visit /\ visit[b].pc = "query"
  BY <1>0 DEF Query, PagesTypeOK
<1>2. UNCHANGED <<ratings, shelf, version, pages, writes, tainted, lagged, doubled, owed>>
  BY DEF Query, shelfVars
<1>3. PICK new \in Visit :
        /\ visit' = [visit EXCEPT ![b] = new]
        /\ new.pc = "fill" /\ new.copy = shelf /\ new.at = version /\ (new.late <=> Committing)
  <2>1. PICK copy \in Page : copy = shelf
    BY <1>0 DEF PagesTypeOK
  <2>2. PICK at \in Nat : at = version
    BY <1>0 DEF PagesTypeOK
  <2>3. PICK late \in BOOLEAN : late = (Standing({"commit"}) # {})
    OBVIOUS
  <2> DEFINE new == [visit[b] EXCEPT !.pc = "fill", !.copy = copy, !.at = at, !.late = late]
  <2>4. visit' = [visit EXCEPT ![b] = new]
    BY <2>1, <2>2, <2>3 DEF Query
  <2>5. new \in Visit /\ new.pc = "fill" /\ new.copy = copy /\ new.at = at /\ new.late = late
    BY <1>1 DEF Visit, Step
  <2>6. late <=> Committing
    BY <2>3 DEF Standing, Committing
  <2> HIDE DEF new
  <2> QED
    BY <2>1, <2>2, <2>4, <2>5, <2>6
<1>4. /\ visit' \in [Browsers -> Visit] /\ visit'[b] = new
      /\ \A x \in Browsers : x # b => visit'[x] = visit[x]
  BY <1>0, <1>3, Moved
<1>5. PagesTypeOK'
  BY <1>0, <1>2, <1>4 DEF PagesTypeOK
<1>6. VersionsBounded'
  <2>1. Writing' = Writing
    BY <1>1, <1>3, <1>4 DEF Writing
  <2> QED
    BY <2>1, <1>0, <1>2, BoundsStay
<1>7. \A x \in Browsers : visit'[x].pc # "fill" => visit'[x] = visit[x]
  BY <1>3, <1>4
<1>8. RatingsOnce'
  BY <1>0, <1>2, <1>7, RatingsStay
<1>9. TotalsFollow'
  <2>1. Totalling' = Totalling
    BY <1>1, <1>3, <1>4 DEF Totalling
  <2> QED
    BY <2>1, <1>0, <1>2, <1>7, TotalsStay
<1>10. CacheFollows'
  <2>1. Committing' <=> Committing
    BY <1>1, <1>3, <1>4 DEF Committing
  <2>2. Settled' <=> Settled
    BY <1>1, <1>2, <1>3, <1>4 DEF Settled
  <2>3. \A v : Vacant(v)' <=> Vacant(v)
    BY <1>2 DEF Vacant
  <2>4. ASSUME NEW x \in Browsers
        PROVE  /\ visit'[x].pc = "store" => visit'[x].at \in DOMAIN pages
               /\ Timely(x)' => visit'[x].at <= version
               /\ Timely(x)' /\ visit'[x].at = version => ~Committing'
               /\ Timely(x)' /\ visit'[x].at = version /\ Settled' => visit'[x].copy = shelf
    <3>1. version \in Nat
      BY <1>0 DEF PagesTypeOK
    <3>2. CASE x = b
      BY <2>1, <3>1, <3>2, <1>3, <1>4 DEF Timely
    <3>3. CASE x # b
      BY <2>1, <2>2, <3>3, <1>0, <1>4 DEF CacheFollows, Timely
    <3> QED
      BY <3>2, <3>3
  <2> QED
    BY <2>1, <2>2, <2>3, <2>4, <1>0, <1>2 DEF CacheFollows
<1> QED
  BY <1>5, <1>6, <1>8, <1>9, <1>10 DEF PagesInv

\* A page is in time for the version that is read now only if it was for the same one.
LEMMA LookUpOK == ASSUME PagesInv, NEW b \in Browsers, LookUp(b) PROVE PagesInv'
<1>0. PagesTypeOK /\ VersionsBounded /\ RatingsOnce /\ TotalsFollow /\ CacheFollows
  BY DEF PagesInv
<1>1. visit[b] \in Visit /\ visit[b].pc = "fill"
  BY <1>0 DEF LookUp, PagesTypeOK
<1>2. UNCHANGED <<ratings, shelf, version, pages, writes, tainted, lagged, doubled, owed>>
  BY DEF LookUp, shelfVars
<1>3. PICK new \in Visit :
        /\ visit' = [visit EXCEPT ![b] = new]
        /\ new.pc = IF version = 0 THEN "again" ELSE "store"
        /\ new.copy = visit[b].copy /\ new.at = version
        /\ ~new.late => visit[b].at = version /\ ~visit[b].late
  <2>1. PICK at \in Nat : at = version
    BY <1>0 DEF PagesTypeOK
  <2>2. PICK late \in BOOLEAN : late = (visit[b].late \/ visit[b].at # version)
    OBVIOUS
  <2>3. PICK pc \in {"again", "store"} : pc = IF version = 0 THEN "again" ELSE "store"
    OBVIOUS
  <2> DEFINE new == [visit[b] EXCEPT !.pc = pc, !.at = at, !.late = late]
  <2>4. visit' = [visit EXCEPT ![b] = new]
    <3>1. visit' = [visit EXCEPT ![b] = [visit[b] EXCEPT !.pc = IF version = 0 THEN "again" ELSE "store",
                       !.at = version, !.late = visit[b].late \/ visit[b].at # version]]
      BY Zenon DEF LookUp
    <3> QED
      BY <3>1, <2>1, <2>2, <2>3
  <2>5. new \in Visit /\ new.pc = pc /\ new.copy = visit[b].copy /\ new.at = at /\ new.late = late
    BY <1>1 DEF Visit, Step
  <2> HIDE DEF new
  <2> QED
    BY <2>1, <2>2, <2>3, <2>4, <2>5
<1>4. /\ visit' \in [Browsers -> Visit] /\ visit'[b] = new
      /\ \A x \in Browsers : x # b => visit'[x] = visit[x]
  BY <1>0, <1>3, Moved
<1>5. PagesTypeOK'
  BY <1>0, <1>2, <1>4 DEF PagesTypeOK
<1>6. VersionsBounded'
  <2>1. Writing' = Writing
    BY <1>1, <1>3, <1>4 DEF Writing
  <2> QED
    BY <2>1, <1>0, <1>2, BoundsStay
<1>7. \A x \in Browsers : visit'[x].pc \notin {"again", "store"} => visit'[x] = visit[x]
  BY <1>3, <1>4
<1>8. RatingsOnce'
  BY <1>0, <1>2, <1>7, RatingsStay
<1>9. TotalsFollow'
  <2>1. Totalling' = Totalling
    BY <1>1, <1>3, <1>4 DEF Totalling
  <2> QED
    BY <2>1, <1>0, <1>2, <1>7, TotalsStay
<1>10. CacheFollows'
  <2>1. Committing' <=> Committing
    BY <1>1, <1>3, <1>4 DEF Committing
  <2>2. Settled' <=> Settled
    BY <1>1, <1>2, <1>3, <1>4 DEF Settled
  <2>3. \A v : Vacant(v)' <=> Vacant(v)
    BY <1>2 DEF Vacant
  <2>4. version \in Nat /\ (version # 0 => version \in DOMAIN pages)
    BY <1>0, WritingFinite, PagesAssumption DEF PagesTypeOK, VersionsBounded
  <2>5. Timely(b)' => Timely(b) /\ visit[b].at = version
    BY <1>1, <1>3, <1>4 DEF Timely, InHand
  <2>6. ASSUME NEW x \in Browsers
        PROVE  /\ visit'[x].pc = "store" => visit'[x].at \in DOMAIN pages
               /\ Timely(x)' => visit'[x].at <= version
               /\ Timely(x)' /\ visit'[x].at = version => ~Committing'
               /\ Timely(x)' /\ visit'[x].at = version /\ Settled' => visit'[x].copy = shelf
    <3>1. CASE x = b
      BY <2>1, <2>2, <2>4, <2>5, <3>1, <1>0, <1>3, <1>4 DEF CacheFollows
    <3>2. CASE x # b
      BY <2>1, <2>2, <3>2, <1>0, <1>4 DEF CacheFollows, Timely
    <3> QED
      BY <3>1, <3>2
  <2> QED
    BY <2>1, <2>2, <2>3, <2>6, <1>0, <1>2 DEF CacheFollows
<1> QED
  BY <1>5, <1>6, <1>8, <1>9, <1>10 DEF PagesInv

\* A page stored in time is the product as it was asked for; any other is tainted.
LEMMA StorePageOK == ASSUME PagesInv, NEW b \in Browsers, StorePage(b) PROVE PagesInv'
<1>0. PagesTypeOK /\ VersionsBounded /\ RatingsOnce /\ TotalsFollow /\ CacheFollows
  BY DEF PagesInv
<1>1. /\ visit[b] \in Visit /\ visit[b].pc = "store"
      /\ visit[b].at \in DOMAIN pages /\ visit[b].copy \in Page
  BY <1>0 DEF StorePage, PagesTypeOK, CacheFollows, Visit
<1>2. PICK n \in DOMAIN pages : n = visit[b].at
  BY <1>1
<1>3. /\ pages' = [pages EXCEPT ![n] = visit[b].copy]
      /\ tainted' = IF visit[b].late THEN tainted \cup {n} ELSE tainted \ {n}
      /\ UNCHANGED <<ratings, shelf, version, writes, lagged, doubled, owed>>
  BY <1>2 DEF StorePage
<1>4. PICK new \in Visit : visit' = [visit EXCEPT ![b] = new] /\ new.pc = "idle"
  BY <1>0, GoesTo DEF StorePage, Step
<1>5. /\ visit' \in [Browsers -> Visit] /\ visit'[b] = new
      /\ \A x \in Browsers : x # b => visit'[x] = visit[x]
  BY <1>0, <1>4, Moved
<1>6. pages'[n] = visit[b].copy /\ \A v \in DOMAIN pages : v # n => pages'[v] = pages[v]
  BY <1>3
<1>7. PagesTypeOK'
  <2>1. pages' \in [1..MaxWrites + 1 -> Page]
    BY <1>0, <1>1, <1>3 DEF PagesTypeOK
  <2> QED
    BY <2>1, <1>0, <1>3, <1>5 DEF PagesTypeOK
<1>8. VersionsBounded'
  <2>1. Writing' = Writing
    BY <1>1, <1>4, <1>5 DEF Writing
  <2> QED
    BY <2>1, <1>0, <1>3, BoundsStay
<1>9. \A x \in Browsers : visit'[x].pc # "idle" => visit'[x] = visit[x]
  BY <1>4, <1>5
<1>10. RatingsOnce'
  BY <1>0, <1>3, <1>9, RatingsStay
<1>11. TotalsFollow'
  <2>1. Totalling' = Totalling
    BY <1>1, <1>4, <1>5 DEF Totalling
  <2> QED
    BY <2>1, <1>0, <1>3, <1>9, TotalsStay
<1>12. CacheFollows'
  <2>1. Committing' => Committing
    BY <1>9 DEF Committing
  <2>2. Settled' => Settled
    BY <1>1, <1>3, <1>5 DEF Settled
  <2>3. DOMAIN pages' = DOMAIN pages /\ DOMAIN pages \subseteq Nat /\ version \in Nat
    BY <1>0, <1>3, PagesAssumption DEF PagesTypeOK
  <2>4. ASSUME NEW v, v # n PROVE /\ Vacant(v) /\ v \in DOMAIN pages => Vacant(v)'
                                  /\ v \in DOMAIN pages => pages'[v] = pages[v]
    BY <2>4, <1>3, <1>6 DEF Vacant
  <2>5. visit[b].late => Vacant(n)'
    BY <1>3 DEF Vacant
  <2>6. ~visit[b].late => Timely(b)
    BY <1>1 DEF Timely, InHand
  <2>7. n > version => Vacant(n)'
    <3>1. Timely(b) => n <= version
      BY <1>0, <1>2 DEF CacheFollows
    <3> QED
      BY <2>3, <2>5, <2>6, <3>1
  <2>8. ASSUME n = version PROVE /\ Committing' => Vacant(n)'
                                 /\ Settled' => Vacant(n)' \/ pages'[n] = shelf
    BY <2>1, <2>2, <2>5, <2>6, <2>8, <1>0, <1>2, <1>6 DEF CacheFollows
  <2>9. version # 0 => version \in DOMAIN pages
    BY <1>0, WritingFinite, PagesAssumption DEF PagesTypeOK, VersionsBounded
  <2>10. version # 0 => /\ Committing' => Vacant(version)'
                        /\ Settled' => Vacant(version)' \/ pages'[version] = shelf
    <3>1. CASE n = version
      BY <2>8, <3>1, <1>3
    <3>2. CASE n # version /\ version # 0
      <4>1. version' = version /\ shelf' = shelf /\ pages'[version] = pages[version]
        BY <2>4, <2>9, <3>2, <1>3
      <4>2. Vacant(version) => Vacant(version)'
        BY <2>4, <2>9, <3>2, <4>1 DEF Vacant
      <4> QED
        BY <2>1, <2>2, <3>2, <4>1, <4>2, <1>0 DEF CacheFollows
    <3> QED
      BY <3>1, <3>2
  <2>11. \A v \in DOMAIN pages : v > version => Vacant(v)'
    BY <2>4, <2>7, <1>0 DEF CacheFollows
  <2>12. ASSUME NEW x \in Browsers
         PROVE  /\ visit'[x].pc = "store" => visit'[x].at \in DOMAIN pages
                /\ Timely(x)' => visit'[x].at <= version
                /\ Timely(x)' /\ visit'[x].at = version => ~Committing'
                /\ Timely(x)' /\ visit'[x].at = version /\ Settled' => visit'[x].copy = shelf
    <3>1. Timely(x)' => Timely(x) /\ visit'[x] = visit[x]
      BY <1>9 DEF Timely, InHand
    <3> QED
      BY <2>1, <2>2, <3>1, <1>0, <1>9 DEF CacheFollows
  <2> QED
    BY <2>3, <2>10, <2>11, <2>12, <1>3 DEF CacheFollows
<1> QED
  BY <1>7, <1>8, <1>10, <1>11, <1>12 DEF PagesInv

LEMMA ExpireOK == ASSUME PagesInv, NEW v \in DOMAIN pages, Expire(v) PROVE PagesInv'
<1>0. PagesTypeOK /\ VersionsBounded /\ RatingsOnce /\ TotalsFollow /\ CacheFollows
  BY DEF PagesInv
<1>1. /\ pages' = [pages EXCEPT ![v] = NoPage] /\ tainted' = tainted \ {v}
      /\ UNCHANGED <<ratings, shelf, version, visit, writes, lagged, doubled, owed>>
  BY DEF Expire
<1>2. PagesTypeOK'
  BY <1>0, <1>1, NoPageFacts DEF PagesTypeOK
<1>3. VersionsBounded' /\ RatingsOnce' /\ TotalsFollow'
  <2>1. VersionsBounded'
    BY <1>0, <1>1 DEF VersionsBounded, Writing
  <2>2. RatingsOnce'
    BY <1>0, <1>1, RatingsStay
  <2>3. TotalsFollow'
    BY <1>0, <1>1, TotalsStay DEF Totalling
  <2> QED
    BY <2>1, <2>2, <2>3
<1>4. \A n : Vacant(n) => Vacant(n)'
  <2> SUFFICES ASSUME NEW n, Vacant(n) PROVE Vacant(n)'
    OBVIOUS
  <2>1. CASE n = v
    BY <2>1, <1>1 DEF Vacant
  <2>2. CASE n # v
    BY <2>2, <1>0, <1>1 DEF Vacant, PagesTypeOK
  <2> QED
    BY <2>1, <2>2
<1>5. Vacant(v)'
  BY <1>1 DEF Vacant
<1>6. Vacant(version)' \/ pages'[version] = pages[version]
  BY <1>1, <1>5
<1>7. CacheFollows'
  <2>1. DOMAIN pages' = DOMAIN pages
    BY <1>1
  <2>2. (Settled' <=> Settled) /\ (Committing' <=> Committing) /\ \A x \in Browsers : Timely(x)' <=> Timely(x)
    BY <1>1 DEF Settled, Committing, Timely
  <2> QED
    BY <2>1, <2>2, <1>0, <1>1, <1>4, <1>6 DEF CacheFollows
<1> QED
  BY <1>2, <1>3, <1>7 DEF PagesInv

LEMMA DropVersionOK == ASSUME PagesInv, DropVersion PROVE PagesInv'
<1>0. PagesTypeOK /\ VersionsBounded /\ RatingsOnce /\ TotalsFollow /\ CacheFollows
  BY DEF PagesInv
<1>1. /\ version' = 0 /\ tainted' = tainted \cup Stored /\ visit' = Overtaken(InHand)
      /\ UNCHANGED <<ratings, shelf, pages, writes, lagged, doubled, owed>>
  BY DEF DropVersion
<1>2. ASSUME NEW x \in Browsers
      PROVE  /\ visit'[x] \in Visit /\ visit'[x].pc = visit[x].pc /\ visit'[x].at = visit[x].at
             /\ visit[x].pc \notin InHand => visit'[x] = visit[x]
             /\ visit[x].pc \in InHand => visit'[x].late
  <2>1. PICK pcs : pcs = InHand /\ visit' = Overtaken(pcs)
    BY <1>1
  <2>2. /\ visit'[x] \in Visit /\ visit'[x].pc = visit[x].pc
        /\ visit[x].pc \notin pcs => visit'[x] = visit[x]
        /\ visit[x].pc \in pcs => visit'[x].late
    BY <1>0, <2>1, OvertakenOK
  <2>3. visit'[x].at = visit[x].at
    BY <2>1, <1>0 DEF Overtaken, PagesTypeOK, Visit
  <2> QED
    BY <2>1, <2>2, <2>3
<1>3. PagesTypeOK'
  <2>1. visit' \in [Browsers -> Visit]
    <3>1. visit' = [x \in Browsers |-> visit'[x]]
      BY <1>1 DEF Overtaken
    <3> QED
      BY <3>1, <1>2
  <2> QED
    BY <2>1, <1>0, <1>1 DEF PagesTypeOK
<1>4. VersionsBounded'
  <2>1. Writing' = Writing
    BY <1>2 DEF Writing
  <2> QED
    BY <2>1, <1>0, <1>1, WritingFinite DEF VersionsBounded, PagesTypeOK
<1>5. RatingsOnce'
  BY <1>0, <1>1, <1>2, RatingsStay DEF InHand
<1>6. TotalsFollow'
  <2>1. Totalling' = Totalling
    BY <1>2 DEF Totalling
  <2>2. \A x \in Browsers : visit'[x].pc \in {"save", "edit"} => visit'[x] = visit[x]
    BY <1>2 DEF InHand
  <2> QED
    BY <2>1, <2>2, <1>0, <1>1, TotalsStay
<1>7. CacheFollows'
  <2>1. \A x \in Browsers : visit'[x].pc \in InHand => visit'[x].late
    BY <1>2
  <2>2. \A x \in Browsers : visit'[x].pc = "store" => visit'[x].at \in DOMAIN pages
    BY <1>0, <1>2 DEF CacheFollows
  <2> QED
    BY <2>1, <2>2, <1>0, <1>1, VersionJumps
<1> QED
  BY <1>3, <1>4, <1>5, <1>6, <1>7 DEF PagesInv

LEMMA WorkerDiesOK == ASSUME PagesInv, NEW b \in Browsers, WorkerDies(b) PROVE PagesInv'
<1>0. PagesTypeOK /\ VersionsBounded /\ RatingsOnce /\ TotalsFollow /\ CacheFollows
  BY DEF PagesInv
<1>1. /\ lagged' = (lagged \/ visit[b].pc \in {"aggregate", "save"})
      /\ owed' = (owed \/ visit[b].pc \in {"bump", "reset"})
      /\ UNCHANGED <<ratings, shelf, version, pages, writes, tainted, doubled>>
  BY DEF WorkerDies, shelfVars
<1>2. PICK new \in Visit : visit' = [visit EXCEPT ![b] = new] /\ new.pc = "idle"
  BY <1>0, GoesTo DEF WorkerDies, Step
<1>3. /\ visit' \in [Browsers -> Visit] /\ visit'[b] = new
      /\ \A x \in Browsers : x # b => visit'[x] = visit[x]
  BY <1>0, <1>2, Moved
<1>4. PagesTypeOK'
  <2>1. lagged' \in BOOLEAN /\ owed' \in BOOLEAN
    BY <1>1
  <2> QED
    BY <2>1, <1>0, <1>1, <1>3 DEF PagesTypeOK
<1>5. VersionsBounded'
  <2>1. CASE b \in Writing
    <3>1. Writing' = Writing \ {b}
      BY <1>2, <1>3 DEF Writing
    <3> QED
      BY <2>1, <3>1, <1>0, <1>1, BoundsShrink
  <2>2. CASE b \notin Writing
    <3>1. Writing' = Writing
      BY <2>2, <1>2, <1>3 DEF Writing
    <3> QED
      BY <3>1, <1>0, <1>1, BoundsStay
  <2> QED
    BY <2>1, <2>2
<1>6. \A x \in Browsers : visit'[x].pc # "idle" => visit'[x] = visit[x]
  BY <1>2, <1>3
<1>7. RatingsOnce'
  BY <1>0, <1>1, <1>6, RatingsStay
<1>8. TotalsFollow'
  <2>1. Totalling' = {} /\ ~lagged' => Totalling = {}
    BY <1>1, <1>3 DEF Totalling
  <2>2. ~lagged' => ~lagged
    BY <1>1
  <2> QED
    BY <2>1, <2>2, <1>0, <1>1, <1>6, TotalsStay
<1>9. CacheFollows'
  <2>1. Committing' => Committing
    BY <1>6 DEF Committing
  <2>2. Settled' => Settled
    BY <1>1, <1>3 DEF Settled
  <2>3. \A x \in Browsers : visit'[x].pc \in InHand => visit'[x] = visit[x]
    BY <1>6 DEF InHand
  <2> QED
    BY <2>1, <2>2, <2>3, <1>0, <1>1, CacheStays
<1> QED
  BY <1>4, <1>5, <1>7, <1>8, <1>9 DEF PagesInv

(* What the cache can serve is the product as it is, but for the pages and *)
(* moments the property names; a customer has one rating of a product,     *)
(* unless two first ratings were inserted at once; and the totals are      *)
(* those of the rows when no rating is under way, but for the ways it      *)
(* names: a rating that overtook another's sum or a product row in hand,   *)
(* and ratings that were deleted.                                          *)
THEOREM PagesAreTrue == PagesSpec => []PagesTellTheTruth
<1>1. PagesInv /\ [PagesNext]_pageVars => PagesInv'
  <2> SUFFICES ASSUME PagesInv, [PagesNext]_pageVars PROVE PagesInv'
    OBVIOUS
  <2>1. CASE UNCHANGED pageVars
    <3>1. UNCHANGED <<ratings, shelf, version, pages, visit, writes, tainted, lagged, doubled, owed>>
      BY <2>1 DEF pageVars, shelfVars
    <3>2. PagesTypeOK' /\ VersionsBounded'
      BY <3>1 DEF PagesInv, PagesTypeOK, VersionsBounded, Writing
    <3>3. RatingsOnce'
      BY <3>1, RatingsStay DEF PagesInv
    <3>4. TotalsFollow'
      BY <3>1, TotalsStay DEF PagesInv, Totalling
    <3>5. CacheFollows'
      BY <3>1, CacheStays DEF PagesInv, Committing, Settled
    <3> QED
      BY <3>2, <3>3, <3>4, <3>5 DEF PagesInv
  <2>3. ASSUME NEW u \in Raters, NEW s \in Stars, PagesInv
        PROVE  {<<>>, <<s>>, Append(ratings[u], s)} \subseteq Seq(Stars)
    BY <2>3 DEF PagesInv, PagesTypeOK
  <2>2. CASE PagesNext
    BY <2>2, <2>3, RateOK, InsertRatingOK, AggregateOK, SaveRatingOK, AdminRatesOK, LoadProductOK,
       SaveProductOK, TypeTotalsOK, RestockOK, BumpOK, SetToOneOK, SellInBlockOK, CommitSaleOK, BrowseOK, QueryOK,
       LookUpOK, StorePageOK, WorkerDiesOK, ExpireOK, DropVersionOK DEF PagesNext
  <2> QED
    BY <2>1, <2>2
<1>2. PagesInv => PagesTellTheTruth
  <2> SUFFICES ASSUME PagesInv PROVE PagesTellTheTruth
    OBVIOUS
  <2>1. version \in Nat /\ CacheFollows /\ RatingsOnce /\ TotalsFollow
    BY DEF PagesInv, PagesTypeOK
  <2>2. Standing({"bump", "reset"}) = {} /\ ~owed => Settled
    BY DEF Standing, Settled
  <2>3. Standing({"aggregate", "save"}) = {} => Totalling = {}
    BY DEF Standing, Totalling
  <2>4. version > 0 /\ version \notin tainted /\ Settled => pages[version] \in {NoPage, shelf}
    BY <2>1 DEF CacheFollows, Vacant
  <2> QED
    BY <2>1, <2>2, <2>3, <2>4 DEF PagesTellTheTruth, RatingsOnce, TotalsFollow, TotalsRight
<1> QED
  BY <1>1, <1>2, PagesStart, PTL DEF PagesSpec

-----------------------------------------------------------------------------
(* The cart and its bill.                                                  *)

CartItem ==
    [pc : {"save"}, variant : Variants, row : Nat, asked : 1..MostUnits, copy : 1..MostUnits,
     add : BOOLEAN, stale : BOOLEAN]

Coupon == [kind : {"flat", "percent"}, value : Nat, cap : Nat \cup {NoCap}, minOrder : Int]

CartTypeOK ==
    /\ qty \in [Variants -> 0..MostUnits]
    /\ rowOf \in [Variants -> Nat] /\ edits \in Nat
    /\ stock \in [Variants -> 0..MostUnits]
    /\ wanted \in [Variants -> Nat]
    /\ coupon \in Coupon /\ applied \in BOOLEAN /\ open \in BOOLEAN
    /\ carrier \in [Carriers -> CartItem \cup {NoItem}]

Carries(w, v) == carrier[w].variant = v

\* What the request will write is what the customer will then have asked for.
WritesWanted(w) ==
    carrier[w].copy = IF carrier[w].add THEN wanted[carrier[w].variant] + carrier[w].asked
                                        ELSE carrier[w].asked

\* An item in no request's hands is as wanted; of the requests that hold it
\* together one writes what is wanted, and whoever saves first makes the
\* others stale.
ItemFollows(v) ==
    v \in passed \/ (\E w \in Carriers : Carries(w, v) /\ carrier[w].stale) \/
        IF \E w \in Carriers : Carries(w, v)
        THEN \E w \in Carriers : Carries(w, v) /\ WritesWanted(w)
        ELSE qty[v] = wanted[v]

CartInv == CartTypeOK /\ \A v \in Variants : ItemFollows(v)

-----------------------------------------------------------------------------
(* The bill.                                                               *)

LEMMA MostIsNatural == MostUnits \in Nat
  BY CartAssumption

LEMMA NoItemFacts ==
    NoItem.variant \notin Variants /\ NoItem.pc = "idle" /\ NoItem.variant = ""
  BY CartAssumption DEF NoItem

LEMMA SubtotalNatural ==
    ASSUME qty \in [Variants -> 0..MostUnits]
    PROVE  Subtotal \in Nat /\ ((\A v \in Variants : qty[v] = 0) => Subtotal = 0)
<1> DEFINE f == [v \in Variants |-> Price[v] * qty[v]]
<1>1. \A v \in Variants : Price[v] \in Nat /\ qty[v] \in Nat
  <2>1. 0..MostUnits \subseteq Nat
    OBVIOUS
  <2> QED
    BY <2>1, CartAssumption
<1>2. \A v \in Variants : Price[v] * qty[v] \in Nat /\ (qty[v] = 0 => Price[v] * qty[v] = 0)
  BY <1>1
<1>3. f \in [Variants -> Nat] /\ f \in [Variants -> Int]
  BY <1>2
<1>4. (\A v \in Variants : qty[v] = 0) => \A v \in Variants : f[v] = 0
  BY <1>2
<1>5. IsFiniteSet(Variants) /\ Subtotal = SumOf(f)
  BY CartAssumption DEF Subtotal
<1> HIDE DEF f
<1>6. SumOf(f) \in Nat
  BY <1>3, <1>5, SumOfNaturals
<1>7. (\A v \in Variants : f[v] = 0) => SumOf(f) = 0
  BY <1>3, <1>5, SumOfZeros
<1> QED
  BY <1>4, <1>5, <1>6, <1>7

\* Rounding to the nearest hundredth, up at the half.
LEMMA QuantizedNear ==
    ASSUME NEW n \in Int
    PROVE  /\ Quantized(n) \in Int
           /\ 10000 * Quantized(n) <= n + 5000 /\ n + 5000 < 10000 * Quantized(n) + 10000
  BY DEF Quantized

LEMMA QuantizedWithin ==
    ASSUME NEW n \in Nat, NEW m \in Nat, n <= 10000 * m
    PROVE  Quantized(n) \in 0..m
<1>1. /\ Quantized(n) \in Int
      /\ 10000 * Quantized(n) <= n + 5000 /\ n + 5000 < 10000 * Quantized(n) + 10000
  BY QuantizedNear
<1>2. PICK q \in Int : q = Quantized(n)
  BY <1>1
<1>3. 10000 * q <= n + 5000 /\ n + 5000 < 10000 * q + 10000
  BY <1>1, <1>2
<1>4. 0 <= q /\ q <= m
  BY <1>3
<1> QED
  BY <1>2, <1>4

LEMMA DiscountWithin ==
    ASSUME coupon \in Coupon, NEW sub \in Nat
    PROVE  /\ Quantized(RawDiscount(sub)) \in 0..sub
           /\ coupon.cap # NoCap => Quantized(RawDiscount(sub)) <= coupon.cap
<1>1. coupon.value \in Nat /\ coupon.cap \in Nat \cup {NoCap}
  BY DEF Coupon
<1>2. PICK full \in Nat : full = FullDiscount(sub)
  <2>1. sub * coupon.value \in Nat /\ 10000 * coupon.value \in Nat
    BY <1>1
  <2> QED
    BY <2>1 DEF FullDiscount
<1>3. PICK n \in Nat : n = RawDiscount(sub) /\ n <= 10000 * sub
                       /\ (coupon.cap # NoCap => n <= 10000 * coupon.cap)
  BY <1>1, <1>2 DEF RawDiscount, Smaller
<1>4. Quantized(n) \in 0..sub
  BY <1>3, QuantizedWithin
<1>5. CASE coupon.cap # NoCap
  <2>1. coupon.cap \in Nat /\ n <= 10000 * coupon.cap
    BY <1>1, <1>3, <1>5
  <2>2. Quantized(n) \in 0..coupon.cap
    BY <2>1, QuantizedWithin
  <2>3. PICK cap \in Nat : cap = coupon.cap
    BY <2>1
  <2> QED
    BY <1>3, <1>4, <2>2, <2>3
<1>6. CASE coupon.cap = NoCap
  BY <1>3, <1>4, <1>6
<1> QED
  BY <1>5, <1>6

BillAddsUp ==
    LET bill == Bill
        rest == bill.subtotal - bill.discount + bill.delivery + bill.small
    IN  /\ bill.discount \in 0..bill.subtotal
        /\ coupon.cap # NoCap => bill.discount <= coupon.cap
        /\ bill.discount > 0 => applied /\ open
        /\ bill.subtotal >= Store.freeDelivery => bill.delivery = 0
        /\ bill.subtotal >= Store.smallCart => bill.small = 0
        /\ bill.total >= 0
        /\ bill.total = rest + bill.tax
        /\ ToHalfACent(bill.tax, rest * Store.taxPercent)
        /\ (\A v \in Variants : qty[v] = 0) => bill.total = 0

LEMMA BillIsRight == ASSUME CartTypeOK PROVE BillAddsUp
<1>1. PICK sub \in Nat : sub = Subtotal /\ ((\A v \in Variants : qty[v] = 0) => sub = 0)
  BY SubtotalNatural DEF CartTypeOK
<1>2. PICK empty \in BOOLEAN : empty = \A v \in Variants : qty[v] = 0
  OBVIOUS
<1>3. coupon \in Coupon /\ (coupon.cap # NoCap => coupon.cap \in Nat)
  BY DEF CartTypeOK, Coupon
<1>4. PICK discount \in 0..sub :
        /\ discount = IF applied /\ ~empty /\ Eligible(sub) THEN Quantized(RawDiscount(sub)) ELSE 0
        /\ coupon.cap # NoCap => discount <= coupon.cap
        /\ discount > 0 => applied /\ open /\ ~empty
  <2>1. Quantized(RawDiscount(sub)) \in 0..sub
        /\ (coupon.cap # NoCap => Quantized(RawDiscount(sub)) <= coupon.cap)
    BY <1>3, DiscountWithin
  <2>2. CASE applied /\ ~empty /\ Eligible(sub)
    BY <2>1, <2>2 DEF Eligible
  <2>3. CASE ~(applied /\ ~empty /\ Eligible(sub))
    BY <1>3, <2>3
  <2> QED
    BY <2>2, <2>3
<1>5. PICK delivery \in Nat :
        delivery = (IF empty \/ sub >= Store.freeDelivery THEN 0 ELSE Store.deliveryFee)
        /\ (empty => delivery = 0) /\ (sub >= Store.freeDelivery => delivery = 0)
  BY CartAssumption
<1>6. PICK small \in Nat :
        small = (IF ~empty /\ sub < Store.smallCart THEN Store.smallCartFee ELSE 0)
        /\ (empty => small = 0) /\ (sub >= Store.smallCart => small = 0)
  <2>1. Store.smallCartFee \in Nat /\ Store.smallCart \in Int
    BY CartAssumption
  <2> QED
    BY <2>1
<1>7. PICK rest \in Nat : rest = sub - discount + delivery + small
  OBVIOUS
<1>8. PICK n \in Nat : n = rest * Store.taxPercent /\ (rest = 0 => n = 0)
  <2>1. Store.taxPercent \in Nat
    BY CartAssumption
  <2>2. rest * Store.taxPercent \in Nat /\ (rest = 0 => rest * Store.taxPercent = 0)
    BY <2>1
  <2> QED
    BY <2>2
<1>9. PICK tax \in Int : tax = Quantized(n)
  BY QuantizedNear
<1>10. tax >= 0 /\ (n = 0 => tax = 0) /\ ToHalfACent(tax, n)
  <2>1. 10000 * tax <= n + 5000 /\ n + 5000 < 10000 * tax + 10000
    BY <1>9, QuantizedNear
  <2>2. tax >= 0 /\ (n = 0 => tax = 0)
    BY <2>1
  <2>3. ToHalfACent(tax, n)
    BY <2>1 DEF ToHalfACent
  <2> QED
    BY <2>2, <2>3
<1>12. PICK savings : savings = MrpTotal - sub
  OBVIOUS
<1>13. /\ Bill.subtotal = sub /\ Bill.discount = discount /\ Bill.delivery = delivery
       /\ Bill.small = small /\ Bill.tax = tax /\ Bill.total = rest + tax
  <2>1. CASE empty
    <3>1. \A v \in Variants : qty[v] = 0
      BY <1>2, <2>1
    <3>2. discount = 0 /\ delivery = 0 /\ small = 0
      BY <2>1, <1>4, <1>5, <1>6
    <3>3. Bill = [subtotal |-> sub, savings |-> savings, discount |-> discount,
         delivery |-> delivery, small |-> small, tax |-> tax, total |-> rest + tax]
      BY <3>1, <3>2, <1>1, <1>7, <1>8, <1>9, <1>12 DEF Bill
    <3> QED
      BY <3>3
  <2>2. CASE ~empty
    <3>1. ~\A v \in Variants : qty[v] = 0
      BY <1>2, <2>2
    <3>2. /\ discount = IF applied /\ Eligible(sub) THEN Quantized(RawDiscount(sub)) ELSE 0
          /\ delivery = IF sub >= Store.freeDelivery THEN 0 ELSE Store.deliveryFee
          /\ small = IF sub < Store.smallCart THEN Store.smallCartFee ELSE 0
      BY <2>2, <1>4, <1>5, <1>6
    <3>3. Bill = [subtotal |-> sub, savings |-> savings, discount |-> discount,
         delivery |-> delivery, small |-> small, tax |-> tax, total |-> rest + tax]
      BY <3>1, <3>2, <1>1, <1>7, <1>8, <1>9, <1>12 DEF Bill
    <3> QED
      BY <3>3
  <2> QED
    BY <2>1, <2>2
<1>14. empty => rest = 0
  <2> SUFFICES ASSUME empty PROVE rest = 0
    OBVIOUS
  <2>1. sub = 0
    BY <1>1, <1>2
  <2>2. delivery = 0 /\ small = 0
    BY <1>5, <1>6
  <2>3. discount = 0
    BY <2>1
  <2> QED
    BY <2>1, <2>2, <2>3, <1>7
<1>15. Bill.subtotal - Bill.discount + Bill.delivery + Bill.small = rest
  BY <1>7, <1>13
<1>16. ToHalfACent(Bill.tax, rest * Store.taxPercent)
  BY <1>8, <1>10, <1>13
<1>17. /\ Bill.total >= 0 /\ Bill.total = rest + Bill.tax
       /\ (\A v \in Variants : qty[v] = 0) => Bill.total = 0
  <2>1. rest + tax >= 0 /\ (empty => rest + tax = 0)
    BY <1>8, <1>10, <1>14
  <2> QED
    BY <2>1, <1>2, <1>13
<1>18. /\ Bill.discount \in 0..Bill.subtotal
       /\ coupon.cap # NoCap => Bill.discount <= coupon.cap
       /\ Bill.discount > 0 => applied /\ open
       /\ Bill.subtotal >= Store.freeDelivery => Bill.delivery = 0
       /\ Bill.subtotal >= Store.smallCart => Bill.small = 0
  BY <1>4, <1>5, <1>6, <1>13
<1>19. BillAddsUp <=>
         /\ Bill.discount \in 0..Bill.subtotal
         /\ coupon.cap # NoCap => Bill.discount <= coupon.cap
         /\ Bill.discount > 0 => applied /\ open
         /\ Bill.subtotal >= Store.freeDelivery => Bill.delivery = 0
         /\ Bill.subtotal >= Store.smallCart => Bill.small = 0
         /\ Bill.total >= 0
         /\ Bill.total = rest + Bill.tax
         /\ ToHalfACent(Bill.tax, rest * Store.taxPercent)
         /\ (\A v \in Variants : qty[v] = 0) => Bill.total = 0
  BY <1>15 DEF BillAddsUp
<1> QED
  BY <1>16, <1>17, <1>18, <1>19

-----------------------------------------------------------------------------
(* The handlers.                                                           *)

LEMMA CartStart == CartInit => CartInv
<1> SUFFICES ASSUME CartInit PROVE CartInv
  OBVIOUS
<1>1. CartTypeOK
  <2>1. coupon \in Coupon
    <3>1. coupon \in Coupons
      BY DEF CartInit
    <3> QED
      BY <3>1, CartAssumption DEF Coupon
  <2>2. 0 \in 0..MostUnits /\ MostUnits \in 0..MostUnits
    BY MostIsNatural
  <2> QED
    BY <2>1, <2>2 DEF CartInit, CartTypeOK
<1>2. \A v \in Variants : ItemFollows(v)
  BY NoItemFacts DEF CartInit, ItemFollows, Carries
<1> QED
  BY <1>1, <1>2 DEF CartInv

\* A variant that a step leaves alone, and the requests for it too.
LEMMA ItemStays ==
    ASSUME NEW v, ItemFollows(v), qty'[v] = qty[v], wanted'[v] = wanted[v],
           v \in passed => v \in passed',
           \A w \in Carriers : carrier'[w] = carrier[w] \/ (~Carries(w, v) /\ ~Carries(w, v)')
    PROVE  ItemFollows(v)'
<1>1. \A w \in Carriers : Carries(w, v)' <=> Carries(w, v)
  BY DEF Carries
<1>2. \A w \in Carriers : Carries(w, v) => carrier'[w] = carrier[w]
  OBVIOUS
<1>3. \A w \in Carriers : Carries(w, v) => (WritesWanted(w)' <=> WritesWanted(w))
  BY <1>2 DEF WritesWanted, Carries
<1> QED
  BY <1>1, <1>2, <1>3 DEF ItemFollows

\* A new request: the others keep their places, and it writes what is wanted
\* when it is alone.
LEMMA ItemTaken ==
    ASSUME CartTypeOK, NEW w \in Carriers, NEW v \in Variants, ItemFollows(v),
           carrier[w] = NoItem, NEW item \in CartItem, item.variant = v, ~item.stale,
           carrier' = [carrier EXCEPT ![w] = item], UNCHANGED <<wanted, passed>>,
           qty[v] = wanted[v] =>
               item.copy = IF item.add THEN wanted[v] + item.asked ELSE item.asked
    PROVE  ItemFollows(v)'
<1>1. carrier'[w] = item /\ \A x \in Carriers : x # w => carrier'[x] = carrier[x]
  BY DEF CartTypeOK
<1>2. ~Carries(w, v)
  BY NoItemFacts DEF Carries
<1>3. Carries(w, v)' /\ \A x \in Carriers : Carries(x, v) => Carries(x, v)' /\ carrier'[x] = carrier[x]
  BY <1>1, <1>2 DEF Carries
<1>4. \A x \in Carriers : Carries(x, v) /\ WritesWanted(x) => WritesWanted(x)'
  BY <1>3 DEF WritesWanted
<1>5. CASE \E x \in Carriers : Carries(x, v)
  BY <1>3, <1>4, <1>5 DEF ItemFollows
<1>6. CASE ~\E x \in Carriers : Carries(x, v)
  <2>1. CASE v \in passed
    BY <2>1 DEF ItemFollows
  <2>2. CASE v \notin passed
    <3>1. qty[v] = wanted[v]
      BY <1>6, <2>2 DEF ItemFollows
    <3>2. WritesWanted(w)'
      BY <3>1, <1>1 DEF WritesWanted
    <3> QED
      BY <3>2, <1>3 DEF ItemFollows
  <2> QED
    BY <2>1, <2>2
<1> QED
  BY <1>5, <1>6

LEMMA AddToCartOK ==
    ASSUME CartInv, NEW w \in Carriers, NEW v \in Variants, NEW n \in 1..MostUnits, AddToCart(w, v, n)
    PROVE  CartInv'
<1>0. CartTypeOK /\ \A u \in Variants : ItemFollows(u)
  BY DEF CartInv
<1>1. /\ carrier[w] = NoItem /\ qty[v] \in 0..MostUnits /\ stock[v] \in 0..MostUnits
      /\ UNCHANGED <<stock, coupon, applied, open, wanted, passed>>
  BY <1>0 DEF AddToCart, Begin, CartTypeOK
<1>2. PICK copy \in 1..MostUnits : copy = IF qty[v] = 0 THEN n ELSE qty[v] + n
  BY <1>1, MostIsNatural DEF AddToCart
<1>3. PICK key \in Nat : key = (IF qty[v] = 0 THEN NewKey(v) ELSE rowOf[v])
  BY <1>0 DEF CartTypeOK, NewKey
<1>4. PICK item \in CartItem :
        /\ carrier' = [carrier EXCEPT ![w] = item]
        /\ item.variant = v /\ item.asked = n /\ item.add = TRUE /\ item.stale = FALSE /\ item.copy = copy
  <2> DEFINE item == [NoItem EXCEPT !.pc = "save", !.variant = v, !.row = key, !.asked = n, !.add = TRUE,
                                    !.copy = copy]
  <2>1. carrier' = [carrier EXCEPT ![w] = item]
    BY <1>2, <1>3 DEF AddToCart, Begin
  <2>2. item \in CartItem /\ item.variant = v /\ item.asked = n /\ item.add = TRUE /\ item.stale = FALSE
        /\ item.copy = copy
    BY DEF NoItem, CartItem
  <2> HIDE DEF item
  <2> QED
    BY <2>1, <2>2
<1>5. /\ qty' = IF qty[v] = 0 THEN [qty EXCEPT ![v] = 1] ELSE qty
      /\ rowOf' = [rowOf EXCEPT ![v] = key] /\ edits' = edits + 1
  BY <1>3 DEF AddToCart, Begin
<1>6. CartTypeOK'
  <2>1. 1 \in 0..MostUnits
    BY MostIsNatural
  <2>2. qty' \in [Variants -> 0..MostUnits]
    BY <2>1, <1>0, <1>5 DEF CartTypeOK
  <2>3. carrier' \in [Carriers -> CartItem \cup {NoItem}]
    BY <1>0, <1>4 DEF CartTypeOK
  <2>4. rowOf' \in [Variants -> Nat] /\ edits' \in Nat
    BY <1>0, <1>5 DEF CartTypeOK
  <2> QED
    BY <2>2, <2>3, <2>4, <1>0, <1>1 DEF CartTypeOK
<1>7. ItemFollows(v)'
  <2>1. qty[v] = wanted[v] => copy = wanted[v] + n
    BY <1>1, <1>2, MostIsNatural
  <2> QED
    BY <2>1, <1>0, <1>1, <1>4, ItemTaken
<1>8. ASSUME NEW u \in Variants, u # v PROVE ItemFollows(u)'
  <2>1. qty'[u] = qty[u] /\ wanted'[u] = wanted[u] /\ (u \in passed => u \in passed')
    BY <1>0, <1>1, <1>5, <1>8 DEF CartTypeOK
  <2>2. \A x \in Carriers : carrier'[x] = carrier[x] \/ (~Carries(x, u) /\ ~Carries(x, u)')
    <3>1. carrier'[w] = item /\ \A x \in Carriers : x # w => carrier'[x] = carrier[x]
      BY <1>0, <1>4 DEF CartTypeOK
    <3>2. ~Carries(w, u)
      BY <1>1, NoItemFacts DEF Carries
    <3>3. ~Carries(w, u)'
      BY <3>1, <1>4, <1>8 DEF Carries
    <3> QED
      BY <3>1, <3>2, <3>3
  <2> QED
    BY <2>1, <2>2, <1>0, ItemStays
<1> QED
  BY <1>6, <1>7, <1>8 DEF CartInv

LEMMA SetQuantityOK ==
    ASSUME CartInv, NEW w \in Carriers, NEW v \in Variants, NEW n \in 1..MostUnits, SetQuantity(w, v, n)
    PROVE  CartInv'
<1>0. CartTypeOK /\ \A u \in Variants : ItemFollows(u)
  BY DEF CartInv
<1>1. /\ carrier[w] = NoItem
      /\ UNCHANGED <<qty, rowOf, stock, coupon, applied, open, wanted, passed>> /\ edits' = edits + 1
  BY DEF SetQuantity, Begin, cartVars
<1>2. PICK item \in CartItem :
        /\ carrier' = [carrier EXCEPT ![w] = item]
        /\ item.variant = v /\ item.asked = n /\ item.add = FALSE /\ item.stale = FALSE /\ item.copy = n
  <2>0. rowOf[v] \in Nat
    BY <1>0 DEF CartTypeOK
  <2> DEFINE item == [NoItem EXCEPT !.pc = "save", !.variant = v, !.row = rowOf[v], !.asked = n, !.copy = n]
  <2>1. carrier' = [carrier EXCEPT ![w] = item]
    BY DEF SetQuantity, Begin
  <2>2. item \in CartItem /\ item.variant = v /\ item.asked = n /\ item.add = FALSE /\ item.stale = FALSE
        /\ item.copy = n
    BY <2>0 DEF NoItem, CartItem
  <2> HIDE DEF item
  <2> QED
    BY <2>1, <2>2
<1>3. CartTypeOK'
  <2>1. carrier' \in [Carriers -> CartItem \cup {NoItem}]
    BY <1>0, <1>2 DEF CartTypeOK
  <2>2. edits' \in Nat
    BY <1>0, <1>1 DEF CartTypeOK
  <2> QED
    BY <2>1, <2>2, <1>0, <1>1 DEF CartTypeOK
<1>4. ItemFollows(v)'
  BY <1>0, <1>1, <1>2, ItemTaken
<1>5. ASSUME NEW u \in Variants, u # v PROVE ItemFollows(u)'
  <2>1. \A x \in Carriers : carrier'[x] = carrier[x] \/ (~Carries(x, u) /\ ~Carries(x, u)')
    <3>1. carrier'[w] = item /\ \A x \in Carriers : x # w => carrier'[x] = carrier[x]
      BY <1>0, <1>2 DEF CartTypeOK
    <3>2. ~Carries(w, u)
      BY <1>1, NoItemFacts DEF Carries
    <3>3. ~Carries(w, u)'
      BY <3>1, <1>2, <1>5 DEF Carries
    <3> QED
      BY <3>1, <3>2, <3>3
  <2> QED
    BY <2>1, <1>0, <1>1, ItemStays
<1> QED
  BY <1>3, <1>4, <1>5 DEF CartInv

\* Whoever saves or deletes a row makes the other requests for it stale.
LEMMA MadeStale ==
    ASSUME CartTypeOK, NEW v \in Variants, NEW x \in Carriers,
           carrier'[x] = [carrier[x] EXCEPT !.stale = @ \/ carrier[x].variant = v]
    PROVE  /\ carrier'[x] \in CartItem \cup {NoItem}
           /\ \A u \in Variants : Carries(x, u)' <=> Carries(x, u)
           /\ Carries(x, v) => carrier'[x].stale
           /\ ~Carries(x, v) => carrier'[x] = carrier[x]
<1>1. carrier[x] \in CartItem \cup {NoItem}
  BY DEF CartTypeOK
<1>2. CASE carrier[x] = NoItem
  <2>1. NoItem.stale = FALSE /\ NoItem.variant # v
    BY NoItemFacts DEF NoItem
  <2>2. carrier'[x] = [NoItem EXCEPT !.stale = FALSE]
    BY <1>2, <2>1
  <2>3. carrier'[x] = NoItem
    BY <2>2 DEF NoItem
  <2>4. ~Carries(x, v)
    BY <1>2, <2>1 DEF Carries
  <2> QED
    BY <2>3, <2>4, <1>2 DEF Carries
<1>3. CASE carrier[x] \in CartItem
  <2>1. carrier'[x] \in CartItem /\ carrier'[x].variant = carrier[x].variant
    BY <1>3 DEF CartItem
  <2>2. CASE carrier[x].variant = v
    BY <2>1, <2>2, <1>3 DEF CartItem, Carries
  <2>3. CASE carrier[x].variant # v
    BY <2>1, <2>3, <1>3 DEF CartItem, Carries
  <2> QED
    BY <2>2, <2>3
<1> QED
  BY <1>1, <1>2, <1>3

LEMMA SaveItemOK == ASSUME CartInv, NEW w \in Carriers, SaveItem(w) PROVE CartInv'
<1>0. CartTypeOK /\ \A u \in Variants : ItemFollows(u)
  BY DEF CartInv
<1>1. carrier[w] \in CartItem
  BY <1>0, NoItemFacts DEF SaveItem, CartTypeOK
<1>2. PICK v \in Variants : v = carrier[w].variant
  BY <1>1 DEF CartItem
<1>3. PICK item \in CartItem : item = carrier[w]
  BY <1>1
<1>4. item.copy \in 1..MostUnits /\ item.asked \in 1..MostUnits /\ item.add \in BOOLEAN /\ item.stale \in BOOLEAN
      /\ item.row \in Nat
  BY DEF CartItem
<1>5. PICK want \in Nat : want = IF item.add THEN wanted[v] + item.asked ELSE item.asked
  <2>1. wanted[v] \in Nat /\ item.asked \in Nat
    BY <1>0, <1>4 DEF CartTypeOK
  <2> QED
    BY <2>1
<1>6. /\ qty' = [qty EXCEPT ![v] = item.copy]
      /\ wanted' = [wanted EXCEPT ![v] = want]
      /\ passed' = IF item.stale THEN passed \cup {v} ELSE passed
      /\ rowOf' = [rowOf EXCEPT ![v] = item.row]
      /\ UNCHANGED <<stock, coupon, applied, open, edits>>
  BY <1>2, <1>3, <1>5 DEF SaveItem
<1>7. carrier'[w] = NoItem
      /\ \A x \in Carriers : x # w => carrier'[x] = [carrier[x] EXCEPT !.stale = @ \/ carrier[x].variant = v]
  BY <1>2 DEF SaveItem
<1>8. CartTypeOK'
  <2>1. carrier' = [x \in Carriers |-> carrier'[x]]
    BY DEF SaveItem
  <2>2. \A x \in Carriers : carrier'[x] \in CartItem \cup {NoItem}
    BY <1>0, <1>7, MadeStale
  <2>3. carrier' \in [Carriers -> CartItem \cup {NoItem}]
    BY <2>1, <2>2
  <2>4. item.copy \in 0..MostUnits
    BY <1>4, MostIsNatural
  <2>5. rowOf' \in [Variants -> Nat]
    BY <1>0, <1>4, <1>6 DEF CartTypeOK
  <2> QED
    BY <2>3, <2>4, <2>5, <1>0, <1>6 DEF CartTypeOK
<1>9. ItemFollows(v)'
  <2>1. qty'[v] = item.copy /\ wanted'[v] = want
    BY <1>0, <1>6 DEF CartTypeOK
  <2>2. CASE \E x \in Carriers : x # w /\ Carries(x, v)
    <3>1. PICK x \in Carriers : x # w /\ Carries(x, v)
      BY <2>2
    <3>2. Carries(x, v)' /\ carrier'[x].stale
      BY <3>1, <1>0, <1>7, MadeStale
    <3> QED
      BY <3>2 DEF ItemFollows
  <2>3. CASE \A x \in Carriers : x # w => ~Carries(x, v)
    <3>1. \A x \in Carriers : ~Carries(x, v)'
      BY <2>3, <1>0, <1>7, MadeStale, NoItemFacts DEF Carries
    <3>2. CASE v \in passed'
      BY <3>2 DEF ItemFollows
    <3>3. CASE v \notin passed'
      <4>1. v \notin passed /\ ~item.stale
        BY <3>3, <1>6
      <4>2. WritesWanted(w)
        BY <4>1, <2>3, <1>0, <1>2, <1>3 DEF ItemFollows, Carries
      <4>3. item.copy = want
        BY <4>2, <1>2, <1>3, <1>5 DEF WritesWanted
      <4> QED
        BY <4>3, <2>1, <3>1 DEF ItemFollows
    <3> QED
      BY <3>2, <3>3
  <2> QED
    BY <2>2, <2>3
<1>10. ASSUME NEW u \in Variants, u # v PROVE ItemFollows(u)'
  <2>1. qty'[u] = qty[u] /\ wanted'[u] = wanted[u] /\ (u \in passed => u \in passed')
    BY <1>0, <1>6, <1>10 DEF CartTypeOK
  <2>2. ~Carries(w, u) /\ ~Carries(w, u)'
    BY <1>2, <1>7, <1>10, NoItemFacts DEF Carries
  <2>3. ASSUME NEW x \in Carriers, x # w
        PROVE  carrier'[x] = carrier[x] \/ (~Carries(x, u) /\ ~Carries(x, u)')
    <3>1. (Carries(x, u)' <=> Carries(x, u)) /\ (~Carries(x, v) => carrier'[x] = carrier[x])
      BY <2>3, <1>0, <1>7, MadeStale
    <3>2. Carries(x, v) => ~Carries(x, u)
      BY <1>10 DEF Carries
    <3> QED
      BY <3>1, <3>2 DEF Carries
  <2> QED
    BY <2>1, <2>2, <2>3, <1>0, ItemStays
<1> QED
  BY <1>8, <1>9, <1>10 DEF CartInv

LEMMA DeleteItemOK == ASSUME CartInv, NEW v \in Variants, DeleteItem(v) PROVE CartInv'
<1>0. CartTypeOK /\ \A u \in Variants : ItemFollows(u)
  BY DEF CartInv
<1>1. /\ qty' = [qty EXCEPT ![v] = 0] /\ wanted' = [wanted EXCEPT ![v] = 0]
      /\ passed' = passed \ {v}
      /\ \A x \in Carriers : carrier'[x] = [carrier[x] EXCEPT !.stale = @ \/ carrier[x].variant = v]
      /\ rowOf' = [rowOf EXCEPT ![v] = 0]
      /\ UNCHANGED <<stock, coupon, applied, open, edits>>
  BY DEF DeleteItem
<1>2. CartTypeOK'
  <2>1. carrier' = [x \in Carriers |-> carrier'[x]]
    BY DEF DeleteItem
  <2>2. \A x \in Carriers : carrier'[x] \in CartItem \cup {NoItem}
    BY <1>0, <1>1, MadeStale
  <2>3. carrier' \in [Carriers -> CartItem \cup {NoItem}]
    BY <2>1, <2>2
  <2>4. 0 \in 0..MostUnits
    BY MostIsNatural
  <2> QED
    BY <2>3, <2>4, <1>0, <1>1 DEF CartTypeOK
<1>3. ItemFollows(v)'
  <2>1. qty'[v] = 0 /\ wanted'[v] = 0
    BY <1>0, <1>1 DEF CartTypeOK
  <2>2. \A x \in Carriers : Carries(x, v)' => carrier'[x].stale
    BY <1>0, <1>1, MadeStale
  <2> QED
    BY <2>1, <2>2 DEF ItemFollows
<1>4. ASSUME NEW u \in Variants, u # v PROVE ItemFollows(u)'
  <2>1. qty'[u] = qty[u] /\ wanted'[u] = wanted[u] /\ (u \in passed => u \in passed')
    BY <1>0, <1>1, <1>4 DEF CartTypeOK
  <2>2. ASSUME NEW x \in Carriers
        PROVE  carrier'[x] = carrier[x] \/ (~Carries(x, u) /\ ~Carries(x, u)')
    <3>1. (Carries(x, u)' <=> Carries(x, u)) /\ (~Carries(x, v) => carrier'[x] = carrier[x])
      BY <1>0, <1>1, MadeStale
    <3>2. Carries(x, v) => ~Carries(x, u)
      BY <1>4 DEF Carries
    <3> QED
      BY <3>1, <3>2 DEF Carries
  <2> QED
    BY <2>1, <2>2, <1>0, ItemStays
<1> QED
  BY <1>2, <1>3, <1>4 DEF CartInv

LEMMA CarrierDiesOK == ASSUME CartInv, NEW w \in Carriers, CarrierDies(w) PROVE CartInv'
<1>0. CartTypeOK /\ \A u \in Variants : ItemFollows(u)
  BY DEF CartInv
<1>1. /\ carrier' = [carrier EXCEPT ![w] = NoItem]
      /\ passed' = passed \cup {carrier[w].variant}
      /\ UNCHANGED <<qty, rowOf, stock, coupon, applied, open, wanted, edits>>
  BY DEF CarrierDies, cartVars
<1>2. CartTypeOK'
  BY <1>0, <1>1 DEF CartTypeOK
<1>3. carrier'[w] = NoItem /\ \A x \in Carriers : x # w => carrier'[x] = carrier[x]
  BY <1>0, <1>1 DEF CartTypeOK
<1>4. ASSUME NEW u \in Variants PROVE ItemFollows(u)'
  <2>1. CASE Carries(w, u)
    BY <2>1, <1>1 DEF ItemFollows, Carries
  <2>2. CASE ~Carries(w, u)
    <3>1. \A x \in Carriers : carrier'[x] = carrier[x] \/ (~Carries(x, u) /\ ~Carries(x, u)')
      BY <2>2, <1>3, NoItemFacts DEF Carries
    <3>2. qty'[u] = qty[u] /\ wanted'[u] = wanted[u] /\ (u \in passed => u \in passed')
      BY <1>1
    <3> QED
      BY <3>1, <3>2, <1>0, ItemStays
  <2> QED
    BY <2>1, <2>2
<1> QED
  BY <1>2, <1>4 DEF CartInv

LEMMA OthersOK ==
    ASSUME CartInv, UNCHANGED <<qty, rowOf, wanted, carrier, passed, edits>>,
           stock' \in [Variants -> 0..MostUnits], coupon' \in Coupon, applied' \in BOOLEAN, open' \in BOOLEAN
    PROVE  CartInv'
<1>1. CartTypeOK'
  BY DEF CartInv, CartTypeOK
<1>2. \A u \in Variants : ItemFollows(u)'
  BY DEF CartInv, ItemFollows, Carries, WritesWanted
<1> QED
  BY <1>1, <1>2 DEF CartInv

(* The bill of any cart adds up, for prices, fees, rates and coupons of    *)
(* two decimals none of which is negative, and the cart holds what was     *)
(* asked for unless two requests on one item passed each other or one      *)
(* broke off.                                                              *)
THEOREM CartIsRight == CartSpec => []CartAddsUp
<1>1. CartInv /\ [CartNext]_allCartVars => CartInv'
  <2> SUFFICES ASSUME CartInv, [CartNext]_allCartVars PROVE CartInv'
    OBVIOUS
  <2>0. /\ stock \in [Variants -> 0..MostUnits] /\ coupon \in Coupon
        /\ applied \in BOOLEAN /\ open \in BOOLEAN
    BY DEF CartInv, CartTypeOK
  <2>1. CASE UNCHANGED allCartVars
    BY <2>0, <2>1, OthersOK DEF allCartVars, cartVars
  <2>2. ASSUME NEW v \in Variants, StockChanges(v) PROVE CartInv'
    <3>1. stock' \in [Variants -> 0..MostUnits]
      <4>1. stock[v] \in 0..MostUnits /\ MostUnits \in Nat
        BY <2>0, MostIsNatural
      <4>2. (IF stock[v] = 0 THEN MostUnits ELSE stock[v] - 1) \in 0..MostUnits
        BY <4>1
      <4> QED
        BY <4>2, <2>0, <2>2 DEF StockChanges
    <3> QED
      BY <3>1, <2>0, <2>2, OthersOK DEF StockChanges
  <2>3. CASE ApplyCoupon \/ RemoveCoupon \/ CouponChanges
    <3>1. applied' \in BOOLEAN /\ open' \in BOOLEAN
      BY <2>0, <2>3, Zenon DEF ApplyCoupon, RemoveCoupon, CouponChanges
    <3> QED
      BY <3>1, <2>0, <2>3, OthersOK DEF ApplyCoupon, RemoveCoupon, CouponChanges
  <2>4. CASE CartNext
    BY <2>2, <2>3, <2>4, AddToCartOK, SetQuantityOK, SaveItemOK, CarrierDiesOK, DeleteItemOK DEF CartNext
  <2> QED
    BY <2>1, <2>4
<1>2. CartInv => CartAddsUp
  <2> SUFFICES ASSUME CartInv PROVE CartAddsUp
    OBVIOUS
  <2>1. BillAddsUp
    BY BillIsRight DEF CartInv
  <2>2. ASSUME NEW v \in Variants \ passed
        PROVE  /\ (\A w \in Carriers : carrier[w].variant # v) => qty[v] = wanted[v]
               /\ qty[v] <= MostUnits
    <3>1. qty[v] \in 0..MostUnits /\ ItemFollows(v)
      BY DEF CartInv, CartTypeOK
    <3> QED
      BY <3>1, MostIsNatural DEF ItemFollows, Carries
  <2> QED
    BY <2>1, <2>2 DEF CartAddsUp, BillAddsUp
<1> QED
  BY <1>1, <1>2, CartStart, PTL DEF CartSpec

=============================================================================

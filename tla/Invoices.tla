------------------------------ MODULE Invoices ------------------------------
(***************************************************************************)
(* The invoice of an order (apps/invoices): issued on the first request,   *)
(* numbered from its primary key by a second UPDATE, mailed on demand.     *)
(* Nothing here runs in a transaction, so every save is seen by itself.    *)
(***************************************************************************)
EXTENDS Integers, Sequences, FiniteSets

CONSTANTS
    Bills,       \* orders to be billed
    Clerks,      \* web and task workers, one request at a time each
    Totals,      \* totals an order may come to have
    NoNumber,    \* the NULL of Invoice.number
    MaxMails,    \* bound on the mails sent
    MaxAsks      \* bound on the requests

ASSUME BillsAssumption == IsFiniteSet(Bills) /\ NoNumber \notin Nat

VARIABLES
    total,       \* orders.total as it stands now
    invoice,     \* invoices: the row of each order
    mails,       \* the numbers mailed for each order
    clerk,       \* what each request has loaded and where it stands
    billed,      \* the order's total when its invoice was issued
    moved,       \* orders whose total changed between the look and the issue
    early,       \* orders whose row was loaded before it had its number
    widowed,     \* orders whose last numbering was lost with its worker
    asks         \* requests so far

invoiceVars == <<total, invoice, mails>>
clerkVars == <<clerk, billed, moved, early, widowed, asks>>
invoicesVars == <<invoiceVars, clerkVars>>

NoInvoice == [pk |-> 0, number |-> NoNumber, total |-> 0, emailed |-> FALSE]
NoClerk == [pc |-> "idle", bill |-> NoNumber, mail |-> FALSE, row |-> NoInvoice]

InvoicesInit ==
    /\ total \in [Bills -> Totals]
    /\ invoice = [o \in Bills |-> NoInvoice]
    /\ mails = [o \in Bills |-> <<>>]
    /\ clerk = [c \in Clerks |-> NoClerk]
    /\ billed = [o \in Bills |-> 0]
    /\ moved = {} /\ early = {} /\ widowed = {} /\ asks = 0

Issued(o) == invoice[o].pk # 0
NextPk == Cardinality({o \in Bills : Issued(o)}) + 1

Sits(c, pc) == clerk' = [clerk EXCEPT ![c] = IF pc = "idle" THEN NoClerk ELSE [@ EXCEPT !.pc = pc]]

\* A faulty build that numbers a row only where it creates it.
OnlyNew(row) == FALSE

\* Invoice.save: a row loaded without its number is numbered by any save.
Unnumbered(row) == row.number = NoNumber

\* invoice_for_order, email_invoice_view, generate_and_email_invoice: the
\* order and its invoice are read; an issued one is mailed or just shown.
AskInvoice(c, o, mail) ==
    /\ clerk[c] = NoClerk /\ asks < MaxAsks
    /\ Issued(o) => mail
    /\ asks' = asks + 1
    /\ clerk' = [clerk EXCEPT ![c] =
          [pc |-> IF Issued(o) THEN "mail" ELSE "issue", bill |-> o, mail |-> mail,
           row |-> IF Issued(o) THEN invoice[o] ELSE [NoInvoice EXCEPT !.total = total[o]]]]
    /\ early' = IF Issued(o) /\ invoice[o].number = NoNumber THEN early \cup {o} ELSE early
    /\ UNCHANGED <<invoiceVars, billed, moved, widowed>>

\* generate_invoice: one invoice an order; the loser of two gets an error.
Issue(c) ==
    LET o == clerk[c].bill
        row == [clerk[c].row EXCEPT !.pk = NextPk]
    IN  /\ clerk[c].pc = "issue"
        /\ \/ /\ ~Issued(o)
              /\ invoice' = [invoice EXCEPT ![o] = row]
              /\ clerk' = [clerk EXCEPT ![c] = [@ EXCEPT !.pc = "number", !.row = row]]
              /\ billed' = [billed EXCEPT ![o] = total[o]]
              /\ moved' = IF row.total # total[o] THEN moved \cup {o} ELSE moved
           \/ /\ Issued(o)
              /\ Sits(c, "idle")
              /\ UNCHANGED <<invoice, billed, moved>>
        /\ UNCHANGED <<total, mails, early, widowed, asks>>

\* Invoice.save, second UPDATE: the number is made from the primary key.
NumberIt(c) ==
    LET o == clerk[c].bill
        row == [clerk[c].row EXCEPT !.number = clerk[c].row.pk]
    IN  /\ clerk[c].pc = "number"
        /\ invoice' = [invoice EXCEPT ![o].number = row.pk]
        /\ clerk' = [clerk EXCEPT ![c] = IF clerk[c].mail /\ ~clerk[c].row.emailed
                                           THEN [@ EXCEPT !.pc = "mail", !.row = row] ELSE NoClerk]
        /\ UNCHANGED <<total, mails, billed, moved, early, widowed, asks>>

\* email_invoice: the mail names the number of the loaded row ...
Mail(c) ==
    LET o == clerk[c].bill
    IN  /\ clerk[c].pc = "mail" /\ Len(mails[o]) < MaxMails
        /\ mails' = [mails EXCEPT ![o] = Append(@, clerk[c].row.number)]
        /\ Sits(c, "stamp")
        /\ UNCHANGED <<total, invoice, billed, moved, early, widowed, asks>>

\* ... or the notification fails, which is logged and goes unseen.
MailFails(c) ==
    /\ clerk[c].pc = "mail"
    /\ Sits(c, "stamp")
    /\ UNCHANGED <<invoiceVars, billed, moved, early, widowed, asks>>

\* emailed_at is stamped either way; save() then numbers a numberless copy,
\* so that a numbering lost before is made up for.
Stamp(c) ==
    LET o == clerk[c].bill
    IN  /\ clerk[c].pc = "stamp"
        /\ invoice' = [invoice EXCEPT ![o].emailed = TRUE]
        /\ clerk' = [clerk EXCEPT ![c] = IF Unnumbered(clerk[c].row)
                        THEN [@ EXCEPT !.pc = "number", !.row.emailed = TRUE] ELSE NoClerk]
        /\ widowed' = widowed \ {o}
        /\ UNCHANGED <<total, mails, billed, moved, early, asks>>

\* A returned item, or a missing one, takes its price off the order.
ReduceTotal(o, m) ==
    /\ m \in Totals /\ m < total[o]
    /\ total' = [total EXCEPT ![o] = m]
    /\ UNCHANGED <<invoice, mails, clerkVars>>

\* The worker dies; between the two UPDATEs it leaves a row with no number.
ClerkDies(c) ==
    /\ clerk[c] # NoClerk
    /\ Sits(c, "idle")
    /\ widowed' = IF clerk[c].pc = "number" THEN widowed \cup {clerk[c].bill} ELSE widowed
    /\ UNCHANGED <<invoiceVars, billed, moved, early, asks>>

InvoicesNext ==
    \/ \E c \in Clerks, o \in Bills, mail \in BOOLEAN : AskInvoice(c, o, mail)
    \/ \E c \in Clerks :
          Issue(c) \/ NumberIt(c) \/ Mail(c) \/ MailFails(c) \/ Stamp(c) \/ ClerkDies(c)
    \/ \E o \in Bills, m \in Totals : ReduceTotal(o, m)

InvoicesSpec == InvoicesInit /\ [][InvoicesNext]_invoicesVars

-----------------------------------------------------------------------------
(* Numbers are unique.  An invoice without one is being numbered, or its   *)
(* last numbering was lost with its worker; stamping the next mail repairs *)
(* it.  A mail lacks the number only when the row was loaded before it had *)
(* one.  The invoice keeps the order's total of the moment of issue,       *)
(* unless that changed while the request was on its way.                   *)
InvoiceNumbered ==
    LET numbering(o) == \E c \in Clerks : clerk[c].pc = "number" /\ clerk[c].bill = o
    IN  \A o \in Bills :
          /\ Issued(o) /\ invoice[o].number = NoNumber => numbering(o) \/ o \in widowed
          /\ \A p \in Bills \ {o} :
                Issued(o) /\ Issued(p) /\ invoice[o].number = invoice[p].number =>
                    invoice[o].number = NoNumber
          /\ \A i \in DOMAIN mails[o] : mails[o][i] = NoNumber => o \in early
          /\ Issued(o) /\ o \notin moved => invoice[o].total = billed[o]

=============================================================================

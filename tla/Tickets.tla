------------------------------ MODULE Tickets ------------------------------
(***************************************************************************)
(* Support tickets (apps/support): a customer files a ticket, agents close *)
(* it with a replacement or with a credit to the customer's wallet.        *)
(*                                                                         *)
(* The API view and the admin action load a ticket without a lock and test *)
(* its status on that copy; the block that credits the wallet and saves    *)
(* the ticket comes later and tests nothing again.  The messages of a      *)
(* ticket's thread decide nothing and are left out.                        *)
(***************************************************************************)
EXTENDS Integers, Sequences, FiniteSets, FiniteSetsExt

CONSTANTS
    Tickets,      \* ticket ids, numbers: a later ticket has a larger one
    Agents,       \* support agents, one request at a time each
    Refunds,      \* the amounts an agent may type, zero among them
    Typed,        \* what is typed over a ticket in the admin form
    MaxCredits,   \* bound on the credits of all tickets
    MaxEdited     \* bound on the tickets edited by hand

VARIABLES
    ticket,       \* support_tickets: the columns an agent decides about
    credits,      \* REFUND rows the wallet ledger holds for each ticket
    agent,        \* what each agent's request has loaded and not yet saved
    crossed,      \* tickets resolved from a copy loaded before another resolution
    reopened,     \* tickets sent back to work after a resolution
    edited        \* tickets whose columns were typed into the admin form

ticketVars == <<ticket, credits>>
deskVars == <<agent, crossed, reopened, edited>>
ticketsVars == <<ticketVars, deskVars>>

TicketStatus == {"open", "in_progress", "resolved", "rejected"}
Resolution == {"none", "replacement", "refund"}

ASSUME TypedAssumption ==
    Typed \subseteq [status : TicketStatus, resolution : Resolution, refund : Refunds]

NoTicket == [status |-> "absent", resolution |-> "none", refund |-> 0]
NoDesk == [kind |-> "idle", amount |-> 0, copies |-> [t \in {} |-> NoTicket]]

TicketsInit ==
    /\ ticket = [t \in Tickets |-> NoTicket]
    /\ credits = [t \in Tickets |-> <<>>]
    /\ agent = [a \in Agents |-> NoDesk]
    /\ crossed = {} /\ reopened = {} /\ edited = {}

Filed(t) == ticket[t].status # "absent"

-----------------------------------------------------------------------------
(* The customer. *)

\* SupportTicketListCreateView.create: the only way a ticket comes to be.
OpenTicket(t) ==
    /\ ~Filed(t) /\ \A u \in Tickets : u < t => Filed(u)
    /\ ticket' = [ticket EXCEPT ![t].status = "open"]
    /\ UNCHANGED <<credits, deskVars>>

-----------------------------------------------------------------------------
(* The agents. *)

\* A faulty build that forgets the idempotence test.
EvenResolved(tk) == TRUE

\* "Idempotent: an already-resolved ticket is returned untouched."
Resolvable(tk) == tk.status # "resolved"

LoadCopies(a, kind, amount, T) ==
    /\ agent' = [agent EXCEPT ![a] =
                    [kind |-> kind, amount |-> amount, copies |-> [t \in T |-> ticket[t]]]]
    /\ UNCHANGED <<ticketVars, crossed, reopened, edited>>

\* resolve_ticket (API): one ticket, a refund needs a positive amount.
AskResolve(a, t) ==
    /\ agent[a] = NoDesk /\ Filed(t) /\ Resolvable(ticket[t])
    /\ \/ LoadCopies(a, "replacement", 0, {t})
       \/ \E m \in Refunds : m > 0 /\ LoadCopies(a, "refund", m, {t})

\* resolve_with_replacement (admin): the selection is read once, as a whole.
AskReplaceAll(a, T) ==
    /\ agent[a] = NoDesk /\ \A t \in T : Filed(t)
    /\ LET open == {t \in T : ticket[t].status # "resolved"}
       IN  open # {} /\ LoadCopies(a, "replacement", 0, open)

\* services.resolve_ticket's block, newest ticket first: the wallet is
\* credited and the ticket saved with the loaded copy's refund_amount.
Resolve(a, t) ==
    LET req == agent[a]
        was == req.copies[t]
        rest == [u \in DOMAIN req.copies \ {t} |-> req.copies[u]]
    IN  /\ req # NoDesk /\ MapThenSumSet(LAMBDA u : Len(credits[u]), Tickets) < MaxCredits
        /\ t \in DOMAIN req.copies /\ \A u \in DOMAIN req.copies : u <= t
        /\ ticket' = [ticket EXCEPT ![t] =
              [status |-> "resolved", resolution |-> req.kind,
               refund |-> IF req.kind = "refund" THEN req.amount ELSE was.refund]]
        /\ credits' = IF req.kind = "refund"
                        THEN [credits EXCEPT ![t] = Append(@, req.amount)] ELSE credits
        /\ agent' = [agent EXCEPT ![a] = IF DOMAIN rest = {} THEN NoDesk
                                                             ELSE [req EXCEPT !.copies = rest]]
        /\ crossed' = IF was.status # "resolved" /\ ticket[t].status = "resolved"
                        THEN crossed \cup {t} ELSE crossed
        /\ UNCHANGED <<reopened, edited>>

\* The request dies or its block fails: what it had not saved is not saved.
AgentDies(a) ==
    /\ agent[a] # NoDesk
    /\ agent' = [agent EXCEPT ![a] = NoDesk]
    /\ UNCHANGED <<ticketVars, crossed, reopened, edited>>

\* mark_in_progress (admin): one UPDATE over the selection, whatever its status.
MarkInProgress(T) ==
    /\ T # {} /\ \A t \in T : Filed(t)
    /\ ticket' = [t \in Tickets |->
                    IF t \in T THEN [ticket[t] EXCEPT !.status = "in_progress"] ELSE ticket[t]]
    /\ reopened' = reopened \cup {t \in T : ticket[t].status = "resolved"}
    /\ UNCHANGED <<credits, agent, crossed, edited>>

\* The admin change form writes the columns as typed and moves no money.
EditTicket(t, columns) ==
    /\ Filed(t) /\ t \notin edited /\ Cardinality(edited) < MaxEdited
    /\ ticket' = [ticket EXCEPT ![t] = columns]
    /\ edited' = edited \cup {t}
    /\ UNCHANGED <<credits, agent, crossed, reopened>>

TicketsNext ==
    \/ \E t \in Tickets : OpenTicket(t)
    \/ \E a \in Agents, t \in Tickets : AskResolve(a, t)
    \/ \E a \in Agents, T \in SUBSET Tickets : AskReplaceAll(a, T)
    \/ \E a \in Agents : (\E t \in DOMAIN agent[a].copies : Resolve(a, t)) \/ AgentDies(a)
    \/ \E T \in SUBSET Tickets : MarkInProgress(T)
    \/ \E t \in Tickets, columns \in Typed : EditTicket(t, columns)

TicketsSpec == TicketsInit /\ [][TicketsNext]_ticketsVars

-----------------------------------------------------------------------------
(* A ticket says what was paid for it.  Unless its columns were typed by   *)
(* hand, a recorded refund is one the ledger holds; and unless two         *)
(* resolutions crossed or the ticket was sent back to work after one, the  *)
(* ledger holds that refund once and no other, and no credit at all for a  *)
(* ticket that is open or was answered with a replacement.                 *)
RefundedOnce ==
    \A t \in Tickets \ edited :
        /\ ticket[t].refund # 0 => \E i \in DOMAIN credits[t] : credits[t][i] = ticket[t].refund
        /\ t \notin crossed \cup reopened =>
              credits[t] = IF ticket[t].resolution = "refund" THEN <<ticket[t].refund>> ELSE <<>>
        /\ ticket[t].resolution # "none" => ticket[t].status = "resolved" \/ t \in reopened

=============================================================================

---------------------------- MODULE StaffProofs -----------------------------
(***************************************************************************)
(* Proofs about what agents, riders and the office rely on, for any        *)
(* tickets, riders, orders, zones and bounds: that a refund is credited    *)
(* once, that a rider's screens agree, that the zones do, and that a zone  *)
(* cut in two serves the points it served before.                          *)
(***************************************************************************)
EXTENDS Tickets, RiderDay, Zones, SumLemmas, SequenceTheorems

-----------------------------------------------------------------------------
(* Tickets.                                                                *)

Money == Refunds \cup {0}

TicketRow == [status : TicketStatus \cup {"absent"}, resolution : Resolution, refund : Money]

Copies == UNION {[T -> TicketRow] : T \in SUBSET Tickets}

Desk == [kind : {"idle", "replacement", "refund"}, amount : Money, copies : Copies]

TypeInv ==
    /\ ticket \in [Tickets -> TicketRow]
    /\ credits \in [Tickets -> Seq(Money)]
    /\ agent \in [Agents -> Desk]

\* The ledger rows c hold a refund of m for ticket t.
Paid(c, t, m) == m # 0 => \E i \in DOMAIN c[t] : c[t][i] = m

\* What an agent has loaded was open then, and its refund was paid.
CopiesOK ==
    \A a \in Agents :
        /\ agent[a].kind = "idle" => DOMAIN agent[a].copies = {}
        /\ \A t \in DOMAIN agent[a].copies :
              /\ agent[a].copies[t].status # "resolved"
              /\ t \notin edited => Paid(credits, t, agent[a].copies[t].refund)

IInv == TypeInv /\ CopiesOK /\ RefundedOnce

-----------------------------------------------------------------------------
LEMMA NoDeskOK == NoDesk \in Desk
<1>1. [t \in {} |-> NoTicket] \in [{} -> TicketRow]
  OBVIOUS
<1>2. [t \in {} |-> NoTicket] \in Copies
  BY <1>1 DEF Copies
<1> QED
  BY <1>2 DEF NoDesk, Desk, Money

LEMMA InitIInv == TicketsInit => IInv
<1> SUFFICES ASSUME TicketsInit PROVE IInv
  OBVIOUS
<1>1. NoTicket \in TicketRow
  BY DEF NoTicket, TicketRow, Resolution, Money
<1>2. TypeInv
  BY <1>1, NoDeskOK DEF TypeInv, TicketsInit
<1>3. CopiesOK
  BY DEF CopiesOK, TicketsInit, NoDesk
<1>4. RefundedOnce
  BY DEF RefundedOnce, TicketsInit, NoTicket
<1> QED
  BY <1>2, <1>3, <1>4 DEF IInv

\* A ledger row stays where it is when another is added behind it.
LEMMA PaidStays ==
    ASSUME TypeInv, NEW t \in Tickets, NEW m, Paid(credits, t, m),
           credits'[t] = credits[t] \/ \E x \in Money : credits'[t] = Append(credits[t], x)
    PROVE  Paid(credits', t, m)
<1>1. credits[t] \in Seq(Money)
  BY DEF TypeInv
<1>2. CASE credits'[t] = credits[t]
  BY <1>2 DEF Paid
<1>3. ASSUME NEW x \in Money, credits'[t] = Append(credits[t], x) PROVE Paid(credits', t, m)
  BY <1>1, <1>3 DEF Paid
<1> QED
  BY <1>2, <1>3

\* Only resolving a ticket moves money; copies stay good when none is loaded.
LEMMA CopiesStay ==
    ASSUME IInv, UNCHANGED <<credits, agent>>, edited \subseteq edited'
    PROVE  CopiesOK'
  BY DEF IInv, CopiesOK, Paid

-----------------------------------------------------------------------------
LEMMA OpenOK == ASSUME IInv, NEW t \in Tickets, OpenTicket(t) PROVE IInv'
<1> USE DEF IInv
<1>1. TypeInv'
  BY DEF OpenTicket, TypeInv, TicketRow, TicketStatus, deskVars
<1>2. CopiesOK'
  BY CopiesStay DEF OpenTicket, deskVars
<1>3. RefundedOnce'
  BY DEF OpenTicket, RefundedOnce, deskVars, TypeInv, TicketRow, Filed
<1> QED
  BY <1>1, <1>2, <1>3

LEMMA LoadOK ==
    ASSUME IInv, NEW a \in Agents, NEW kind \in {"replacement", "refund"}, NEW m \in Money,
           NEW T \in SUBSET Tickets, \A t \in T : ticket[t].status # "resolved",
           LoadCopies(a, kind, m, T)
    PROVE  IInv'
<1> USE DEF IInv
<1> DEFINE loaded == [t \in T |-> ticket[t]]
<1>1. loaded \in Copies
  BY DEF TypeInv, Copies
<1>2. /\ UNCHANGED <<ticket, credits, crossed, reopened, edited>>
      /\ agent' = [agent EXCEPT ![a] = [kind |-> kind, amount |-> m, copies |-> loaded]]
  BY DEF LoadCopies, ticketVars
<1>3. TypeInv'
  BY <1>1, <1>2 DEF TypeInv, Desk
<1>4. CopiesOK'
  <2> SUFFICES ASSUME NEW b \in Agents
               PROVE  /\ agent'[b].kind = "idle" => DOMAIN agent'[b].copies = {}
                      /\ \A t \in DOMAIN agent'[b].copies :
                            /\ agent'[b].copies[t].status # "resolved"
                            /\ t \notin edited' => Paid(credits', t, agent'[b].copies[t].refund)
    BY DEF CopiesOK
  <2>1. CASE b # a
    BY <1>2, <2>1 DEF CopiesOK, TypeInv
  <2>2. CASE b = a
    <3>1. agent'[b] = [kind |-> kind, amount |-> m, copies |-> loaded]
      BY <1>2, <2>2 DEF TypeInv
    <3>2. ASSUME NEW t \in T, t \notin edited PROVE Paid(credits, t, ticket[t].refund)
      BY <3>2 DEF RefundedOnce, Paid
    <3> QED
      BY <3>1, <3>2, <1>2
  <2> QED
    BY <2>1, <2>2
<1>5. RefundedOnce'
  BY <1>2 DEF RefundedOnce
<1> QED
  BY <1>3, <1>4, <1>5

LEMMA DiesOK == ASSUME IInv, NEW a \in Agents, AgentDies(a) PROVE IInv'
<1> USE DEF IInv
<1>1. /\ UNCHANGED <<ticket, credits, crossed, reopened, edited>>
      /\ agent' = [agent EXCEPT ![a] = NoDesk]
  BY DEF AgentDies, ticketVars
<1>2. TypeInv'
  BY <1>1, NoDeskOK DEF TypeInv
<1>3. CopiesOK'
  BY <1>1 DEF CopiesOK, TypeInv, NoDesk, Paid
<1>4. RefundedOnce'
  BY <1>1 DEF RefundedOnce
<1> QED
  BY <1>2, <1>3, <1>4

LEMMA MarkOK == ASSUME IInv, NEW T \in SUBSET Tickets, MarkInProgress(T) PROVE IInv'
<1> USE DEF IInv
<1>1. TypeInv'
  BY DEF MarkInProgress, TypeInv, TicketRow, TicketStatus
<1>2. CopiesOK'
  BY CopiesStay DEF MarkInProgress
<1>3. RefundedOnce'
  BY DEF MarkInProgress, RefundedOnce, TypeInv, TicketRow
<1> QED
  BY <1>1, <1>2, <1>3

LEMMA EditOK ==
    ASSUME IInv, NEW t \in Tickets, NEW columns \in Typed, EditTicket(t, columns) PROVE IInv'
<1> USE DEF IInv
<1>1. columns \in TicketRow
  BY TypedAssumption DEF TicketRow, Money
<1>2. TypeInv'
  BY <1>1 DEF EditTicket, TypeInv
<1>3. CopiesOK'
  BY CopiesStay DEF EditTicket
<1>4. RefundedOnce'
  BY DEF EditTicket, RefundedOnce, TypeInv
<1> QED
  BY <1>2, <1>3, <1>4

-----------------------------------------------------------------------------
\* The block that pays: whoever does not cross another resolution finds an
\* open ticket that nothing was paid for.
LEMMA ResolveOK == ASSUME IInv, NEW a \in Agents, NEW t \in DOMAIN agent[a].copies, Resolve(a, t)
                   PROVE  IInv'
<1> USE DEF IInv
<1> DEFINE req  == agent[a]
           was  == req.copies[t]
           rest == [u \in DOMAIN req.copies \ {t} |-> req.copies[u]]
           new  == [status |-> "resolved", resolution |-> req.kind,
                    refund |-> IF req.kind = "refund" THEN req.amount ELSE was.refund]
<1>1. req \in Desk
  BY DEF TypeInv
<1>2. PICK T \in SUBSET Tickets : req.copies \in [T -> TicketRow]
  BY <1>1 DEF Desk, Copies
<1>3. t \in T /\ t \in Tickets /\ was \in TicketRow
  BY <1>2
<1>4. rest \in Copies
  <2>1. rest \in [T \ {t} -> TicketRow]
    BY <1>2
  <2>2. T \ {t} \in SUBSET Tickets
    OBVIOUS
  <2> HIDE DEF rest
  <2> QED
    BY <2>1, <2>2 DEF Copies
<1>5. req.kind \in {"replacement", "refund"} /\ req.amount \in Money
  BY <1>1 DEF Desk, CopiesOK
<1>6. was.status # "resolved" /\ (t \notin edited => Paid(credits, t, was.refund))
  BY DEF CopiesOK
<1>7. /\ ticket' = [ticket EXCEPT ![t] = new]
      /\ credits' = IF req.kind = "refund" THEN [credits EXCEPT ![t] = Append(@, req.amount)]
                                           ELSE credits
      /\ agent' = [agent EXCEPT ![a] = IF DOMAIN rest = {} THEN NoDesk ELSE [req EXCEPT !.copies = rest]]
      /\ crossed' = IF ticket[t].status = "resolved" THEN crossed \cup {t} ELSE crossed
      /\ UNCHANGED <<reopened, edited>>
  BY <1>6 DEF Resolve
<1>8. new \in TicketRow
  BY <1>3, <1>5 DEF TicketRow, TicketStatus, Resolution
<1>9. [req EXCEPT !.copies = rest] \in Desk
  BY <1>1, <1>4 DEF Desk
<1>10. TypeInv'
  <2>1. ticket' \in [Tickets -> TicketRow]
    BY <1>7, <1>8 DEF TypeInv
  <2>2. credits' \in [Tickets -> Seq(Money)]
    BY <1>3, <1>5, <1>7 DEF TypeInv
  <2>3. agent' \in [Agents -> Desk]
    BY <1>7, <1>9, NoDeskOK DEF TypeInv
  <2> QED
    BY <2>1, <2>2, <2>3 DEF TypeInv
<1>11. ASSUME NEW u \in Tickets, NEW m, Paid(credits, u, m) PROVE Paid(credits', u, m)
  <2>1. credits'[u] = credits[u] \/ \E x \in Money : credits'[u] = Append(credits[u], x)
    BY <1>3, <1>5, <1>7 DEF TypeInv
  <2> QED
    BY <2>1, <1>11, PaidStays
<1>12. CopiesOK'
  <2> SUFFICES ASSUME NEW b \in Agents
               PROVE  /\ agent'[b].kind = "idle" => DOMAIN agent'[b].copies = {}
                      /\ \A u \in DOMAIN agent'[b].copies :
                            /\ agent'[b].copies[u].status # "resolved"
                            /\ u \notin edited' => Paid(credits', u, agent'[b].copies[u].refund)
    BY DEF CopiesOK
  <2>1. /\ agent'[b].kind = "idle" => DOMAIN agent'[b].copies = {}
        /\ \A u \in DOMAIN agent'[b].copies :
              /\ u \in DOMAIN agent[b].copies
              /\ agent'[b].copies[u] = agent[b].copies[u]
    <3>1. CASE b # a
      BY <1>7, <3>1 DEF TypeInv, CopiesOK
    <3>2. CASE b = a /\ DOMAIN rest = {}
      BY <1>7, <3>2 DEF TypeInv, NoDesk
    <3>3. CASE b = a /\ DOMAIN rest # {}
      <4>1. agent'[b] = [req EXCEPT !.copies = rest]
        BY <1>7, <3>3 DEF TypeInv
      <4>2. agent'[b].kind = req.kind /\ agent'[b].copies = rest
        BY <4>1, <1>1 DEF Desk
      <4> QED
        BY <4>2, <1>5, <3>3
    <3> QED
      BY <3>1, <3>2, <3>3
  <2>2. \A u \in DOMAIN agent[b].copies : u \in Tickets
    BY DEF TypeInv, Desk, Copies
  <2>3. \A u \in DOMAIN agent[b].copies :
           /\ agent[b].copies[u].status # "resolved"
           /\ u \notin edited => Paid(credits, u, agent[b].copies[u].refund)
    BY DEF CopiesOK
  <2> QED
    BY <2>1, <2>2, <2>3, <1>7, <1>11
<1>13. RefundedOnce'
  <2> SUFFICES ASSUME NEW u \in Tickets \ edited'
               PROVE  /\ Paid(credits', u, ticket'[u].refund)
                      /\ u \notin crossed' \cup reopened' =>
                            credits'[u] = IF ticket'[u].resolution = "refund"
                                            THEN <<ticket'[u].refund>> ELSE <<>>
                      /\ ticket'[u].resolution # "none" =>
                            ticket'[u].status = "resolved" \/ u \in reopened'
    BY DEF RefundedOnce, Paid
  <2>0. /\ Paid(credits, u, ticket[u].refund)
        /\ u \notin crossed \cup reopened =>
              credits[u] = IF ticket[u].resolution = "refund" THEN <<ticket[u].refund>> ELSE <<>>
        /\ ticket[u].resolution # "none" => ticket[u].status = "resolved" \/ u \in reopened
    BY <1>7 DEF RefundedOnce, Paid
  <2>1. CASE u # t
    <3>1. ticket'[u] = ticket[u] /\ credits'[u] = credits[u]
      BY <1>7, <2>1 DEF TypeInv
    <3> QED
      BY <3>1, <2>0, <1>7, <1>11
  <2>2. CASE u = t
    <3>1. ticket'[t] = new
      BY <1>3, <1>7 DEF TypeInv
    <3>2. new.status = "resolved" /\ new.resolution = req.kind
      OBVIOUS
    <3>3. CASE req.kind = "refund"
      <4>1. credits'[t] = Append(credits[t], req.amount) /\ credits[t] \in Seq(Money)
        BY <1>3, <1>7, <3>3 DEF TypeInv
      <4>2. new.refund = req.amount
        BY <3>3
      <4>3. Paid(credits', t, new.refund)
        BY <4>1, <4>2, <1>5, <3>1 DEF Paid
      <4>4. ASSUME t \notin crossed' \cup reopened' PROVE credits'[t] = <<new.refund>>
        <5>1. ticket[t].status # "resolved" /\ t \notin crossed \cup reopened
          BY <4>4, <1>7
        <5>2. credits[t] = <<>>
          BY <5>1, <2>0, <2>2
        <5> QED
          BY <5>2, <4>1, <4>2
      <4> QED
        BY <2>2, <3>1, <3>2, <3>3, <4>3, <4>4
    <3>4. CASE req.kind = "replacement"
      <4>1. credits' = credits
        BY <1>7, <3>4
      <4>2. new.refund = was.refund
        BY <3>4
      <4>3. Paid(credits', t, new.refund)
        BY <4>2, <1>6, <1>7, <1>3, <1>11, <2>2
      <4>4. ASSUME t \notin crossed' \cup reopened' PROVE credits'[t] = <<>>
        <5>1. ticket[t].status # "resolved" /\ t \notin crossed \cup reopened
          BY <4>4, <1>7
        <5> QED
          BY <5>1, <2>0, <2>2, <4>1
      <4> QED
        BY <2>2, <3>1, <3>2, <3>4, <4>3, <4>4
    <3> QED
      BY <1>5, <3>3, <3>4
  <2> QED
    BY <2>1, <2>2
<1> QED
  BY <1>10, <1>12, <1>13

-----------------------------------------------------------------------------
LEMMA AskOK == ASSUME IInv, NEW a \in Agents, NEW t \in Tickets, AskResolve(a, t) PROVE IInv'
<1>1. ticket[t].status # "resolved"
  BY DEF AskResolve, Resolvable
<1>2. CASE LoadCopies(a, "replacement", 0, {t})
  BY <1>1, <1>2, LoadOK DEF Money
<1>3. ASSUME NEW m \in Refunds, LoadCopies(a, "refund", m, {t}) PROVE IInv'
  BY <1>1, <1>3, LoadOK DEF Money
<1> QED
  BY <1>2, <1>3 DEF AskResolve

LEMMA AskAllOK == ASSUME IInv, NEW a \in Agents, NEW T \in SUBSET Tickets, AskReplaceAll(a, T)
                  PROVE  IInv'
<1> DEFINE open == {t \in T : ticket[t].status # "resolved"}
<1>1. LoadCopies(a, "replacement", 0, open) /\ open \in SUBSET Tickets
  BY DEF AskReplaceAll
<1>2. \A t \in open : ticket[t].status # "resolved"
  OBVIOUS
<1> HIDE DEF open
<1> QED
  BY <1>1, <1>2, LoadOK DEF Money

LEMMA NextIInv == IInv /\ [TicketsNext]_ticketsVars => IInv'
<1> SUFFICES ASSUME IInv, [TicketsNext]_ticketsVars PROVE IInv'
  OBVIOUS
<1>1. ASSUME NEW t \in Tickets, OpenTicket(t) PROVE IInv'
  BY <1>1, OpenOK
<1>2. ASSUME NEW a \in Agents, NEW t \in Tickets, AskResolve(a, t) PROVE IInv'
  BY <1>2, AskOK
<1>3. ASSUME NEW a \in Agents, NEW T \in SUBSET Tickets, AskReplaceAll(a, T) PROVE IInv'
  BY <1>3, AskAllOK
<1>4. ASSUME NEW a \in Agents, NEW t \in DOMAIN agent[a].copies, Resolve(a, t) PROVE IInv'
  BY <1>4, ResolveOK
<1>5. ASSUME NEW a \in Agents, AgentDies(a) PROVE IInv'
  BY <1>5, DiesOK
<1>6. ASSUME NEW T \in SUBSET Tickets, MarkInProgress(T) PROVE IInv'
  BY <1>6, MarkOK
<1>7. ASSUME NEW t \in Tickets, NEW columns \in Typed, EditTicket(t, columns) PROVE IInv'
  BY <1>7, EditOK
<1>8. CASE UNCHANGED ticketsVars
  BY <1>8 DEF ticketsVars, ticketVars, deskVars, IInv, TypeInv, CopiesOK, Paid, RefundedOnce
<1> QED
  BY <1>1, <1>2, <1>3, <1>4, <1>5, <1>6, <1>7, <1>8 DEF TicketsNext

\* However agents, admins and crashes interleave, a ticket's recorded refund is in
\* the ledger, once and alone unless two resolutions crossed or it was reopened.
THEOREM TicketsPaidOnce == TicketsSpec => []RefundedOnce
<1>1. TicketsInit => IInv
  BY InitIInv
<1>2. IInv /\ [TicketsNext]_ticketsVars => IInv'
  BY NextIInv
<1>3. IInv => RefundedOnce
  BY DEF IInv
<1> QED
  BY <1>1, <1>2, <1>3, PTL DEF TicketsSpec

-----------------------------------------------------------------------------
(* The rider's screens.                                                    *)

Task ==
    [rider : Riders \cup {Nobody},
     status : ActiveStatuses \cup {"none", "delivered", "returned", "cancelled"},
     assigned : Nat, done : Nat, upi : BOOLEAN]

RiderTypeOK ==
    /\ partner \in [Riders -> [duty : BOOLEAN, active : BOOLEAN]]
    /\ task \in [Parcels -> Task]
    /\ returned \in [Parcels -> SUBSET UNION {DOMAIN Lines[o] : o \in Parcels}]
    /\ date \in Nat \ {0}
    /\ claim \in [parcel : Parcels, rider : Riders] \cup {NoClaim}

\* A row has its rider from the start, its day when it is finished; what was
\* not all returned has lines left to be paid for.
TaskOK(o) ==
    /\ task[o].rider = Nobody <=> task[o].status = "none"
    /\ task[o].assigned <= date /\ task[o].done <= date
    /\ task[o].done # 0 <=> task[o].status \in {"delivered", "returned"}
    /\ returned[o] \subseteq DOMAIN Lines[o]
    /\ task[o].status \notin {"delivered", "returned"} => returned[o] = {}
    /\ task[o].status # "returned" => Kept(o) # {}

\* Who is claimed for an order that nobody delivers yet.
ClaimOK == claim # NoClaim => task[claim.parcel].status = "none"

RiderInv == RiderTypeOK /\ ClaimOK /\ \A o \in Parcels : TaskOK(o)

-----------------------------------------------------------------------------
(* Who is chosen.                                                          *)

\* The rider with the least load, and of those the one with the lowest id.
LEMMA LeastByLoad ==
    ASSUME NEW A, A \subseteq Nat, A # {}, NEW load \in [A -> Nat]
    PROVE  \E r \in A : \A q \in A \ {r} : load[r] < load[q] \/ (load[r] = load[q] /\ r < q)
<1> DEFINE L == {load[r] : r \in A}
<1>1. PICK n \in L : \A m \in L : ~(m < n)
  <2>1. L \subseteq Nat /\ L # {}
    OBVIOUS
  <2> HIDE DEF L
  <2> QED
    BY <2>1, LeastNatural
<1> DEFINE B == {r \in A : load[r] = n}
<1>2. PICK r \in B : \A q \in B : ~(q < r)
  <2>1. B \subseteq Nat /\ B # {}
    BY <1>1
  <2> HIDE DEF B
  <2> QED
    BY <2>1, LeastNatural
<1>3. ASSUME NEW q \in A \ {r} PROVE load[r] < load[q] \/ (load[r] = load[q] /\ r < q)
  <2>1. load[q] \in L /\ load[r] = n /\ load[q] \in Nat /\ n \in Nat /\ r \in Nat /\ q \in Nat
    BY <1>2
  <2>2. ~(load[q] < n)
    BY <1>1, <2>1
  <2>3. CASE load[q] = n
    BY <1>2, <2>1, <2>3
  <2>4. CASE load[q] # n
    BY <2>1, <2>2, <2>4
  <2> QED
    BY <2>3, <2>4
<1> QED
  BY <1>2, <1>3

LEMMA LeastLoadedIsOnDuty ==
    ASSUME RiderTypeOK, Available # {} PROVE LeastLoaded \in Available
<1> DEFINE load == [r \in Available |-> Load(r)]
<1>1. Available \subseteq Nat
  BY RiderDayAssumption DEF Available
<1>2. \A r \in Available : Load(r) \in Nat
  <2> TAKE r \in Available
  <2> IsFiniteSet(InStatus(r, ActiveStatuses))
    BY RiderDayAssumption, FS_Subset, InStatus(r, ActiveStatuses) \subseteq Parcels DEF InStatus, TasksOf
  <2> QED
    BY FS_CardinalityType DEF Load
<1>3. load \in [Available -> Nat]
  BY <1>2
<1>4. \E r \in Available : \A q \in Available \ {r} :
          load[r] < load[q] \/ (load[r] = load[q] /\ r < q)
  <2> HIDE DEF load
  <2> QED
    BY <1>1, <1>3, LeastByLoad
<1>5. \E r \in Available : \A q \in Available \ {r} :
          Load(r) < Load(q) \/ (Load(r) = Load(q) /\ r < q)
  BY <1>4
<1> QED
  BY <1>5 DEF LeastLoaded

LEMMA FirstRankedIsCandidate ==
    ASSUME RiderTypeOK, Candidates # {} PROVE FirstRanked \in Candidates
<1> DEFINE rank == [r \in Candidates |-> (IF partner[r].duty THEN 0 ELSE 2)
                                          + (IF r = Designated THEN 0 ELSE 1)]
<1>1. Candidates \subseteq Nat /\ \A r \in Candidates : partner[r].duty \in BOOLEAN
  BY RiderDayAssumption DEF Candidates, RiderTypeOK
<1>2. rank \in [Candidates -> Nat]
  OBVIOUS
<1>3. PICK r \in Candidates : \A q \in Candidates \ {r} :
          rank[r] < rank[q] \/ (rank[r] = rank[q] /\ r < q)
  <2> HIDE DEF rank
  <2> QED
    BY <1>1, <1>2, LeastByLoad
<1>4. ASSUME NEW q \in Candidates \ {r} PROVE RankBefore(r, q)
  <2>1. rank[r] < rank[q] \/ (rank[r] = rank[q] /\ r < q)
    BY <1>3
  <2> QED
    BY <1>1, <2>1 DEF RankBefore
<1> QED
  BY <1>3, <1>4 DEF FirstRanked

-----------------------------------------------------------------------------
(* The steps.                                                              *)

LEMMA InitRiderInv == RiderInit => RiderInv
<1> SUFFICES ASSUME RiderInit PROVE RiderInv
  OBVIOUS
<1>1. RiderTypeOK
  BY DEF RiderInit, RiderTypeOK, NoTask, Task
<1>2. ASSUME NEW o \in Parcels PROVE TaskOK(o)
  BY RiderDayAssumption DEF RiderInit, TaskOK, NoTask, Kept
<1> QED
  BY <1>1, <1>2 DEF RiderInv, RiderInit, ClaimOK

\* A step that writes no row, and one that writes one.
LEMMA RowsStay ==
    ASSUME RiderInv, UNCHANGED <<task, returned>>, date' \in Nat \ {0}, date <= date', RiderTypeOK',
           ClaimOK'
    PROVE  RiderInv'
<1>1. ASSUME NEW o \in Parcels PROVE TaskOK(o)'
  <2>1. TaskOK(o) /\ task[o].assigned \in Nat /\ task[o].done \in Nat /\ date \in Nat
    BY DEF RiderInv, RiderTypeOK, Task
  <2> QED
    BY <2>1 DEF TaskOK, Kept
<1> QED
  BY <1>1 DEF RiderInv

LEMMA RowWritten ==
    ASSUME RiderInv, NEW o \in Parcels, NEW change \in Task, task' = [task EXCEPT ![o] = change],
           NEW back \in SUBSET DOMAIN Lines[o],
           returned' = [returned EXCEPT ![o] = back],
           UNCHANGED <<partner, date>>,
           claim' = NoClaim \/ (claim' = claim /\ task[o].status # "none"),
           change.rider # Nobody, change.status # "none",
           change.assigned <= date, change.done <= date,
           change.done # 0 <=> change.status \in {"delivered", "returned"},
           change.status \notin {"delivered", "returned"} => back = {},
           change.status # "returned" => DOMAIN Lines[o] \ back # {}
    PROVE  RiderInv'
<1>1. RiderTypeOK'
  <2>1. task' \in [Parcels -> Task]
    BY DEF RiderInv, RiderTypeOK
  <2>2. back \in SUBSET UNION {DOMAIN Lines[q] : q \in Parcels}
    OBVIOUS
  <2>3. returned' \in [Parcels -> SUBSET UNION {DOMAIN Lines[q] : q \in Parcels}]
    BY <2>2 DEF RiderInv, RiderTypeOK
  <2> QED
    BY <2>1, <2>3 DEF RiderInv, RiderTypeOK
<1>2. task'[o] = change /\ returned'[o] = back
  BY DEF RiderInv, RiderTypeOK
<1>3. TaskOK(o)'
  BY <1>2 DEF TaskOK, Kept
<1>4. ASSUME NEW q \in Parcels \ {o} PROVE TaskOK(q)'
  <2>1. task'[q] = task[q] /\ returned'[q] = returned[q] /\ TaskOK(q)
    BY DEF RiderInv, RiderTypeOK
  <2> QED
    BY <2>1 DEF TaskOK, Kept
<1>5. ClaimOK'
  <2> SUFFICES ASSUME claim' # NoClaim PROVE task'[claim'.parcel].status = "none"
    BY DEF ClaimOK
  <2>1. claim' = claim /\ task[claim.parcel].status = "none" /\ claim.parcel \in Parcels
    BY DEF RiderInv, RiderTypeOK, ClaimOK
  <2>2. claim.parcel # o
    BY <2>1
  <2>3. task'[claim.parcel] = task[claim.parcel]
    BY <2>1, <2>2 DEF RiderInv, RiderTypeOK
  <2> QED
    BY <2>1, <2>3
<1> QED
  BY <1>1, <1>3, <1>4, <1>5 DEF RiderInv

LEMMA RiderStep == RiderInv /\ [RiderNext]_riderVars => RiderInv'
<1> SUFFICES ASSUME RiderInv, [RiderNext]_riderVars PROVE RiderInv'
  OBVIOUS
<1>0. /\ RiderTypeOK /\ ClaimOK /\ date \in Nat \ {0}
      /\ \A o \in Parcels : TaskOK(o) /\ task[o] \in Task
  BY DEF RiderInv, RiderTypeOK
<1>1. ASSUME NEW o \in Parcels, NEW r \in Riders, task[o] = NoTask, Claim(o, r) PROVE RiderInv'
  <2>1. RiderTypeOK'
    BY <1>0, <1>1 DEF Claim, RiderTypeOK
  <2>2. ClaimOK'
    BY <1>1 DEF Claim, ClaimOK, NoTask
  <2>3. date' \in Nat \ {0} /\ date <= date'
    BY <1>0, <1>1 DEF Claim
  <2> QED
    BY <1>0, <1>1, <2>1, <2>2, <2>3, RowsStay DEF Claim
<1>2. ASSUME NEW o \in Parcels, AssignOrder(o) PROVE RiderInv'
  <2>1. Available # {} => LeastLoaded \in Riders
    BY <1>0, LeastLoadedIsOnDuty DEF Available
  <2> QED
    BY <1>1, <1>2, <2>1 DEF AssignOrder
<1>3. ASSUME NEW o \in Parcels, AutoAssign(o) PROVE RiderInv'
  <2>1. FirstRanked \in Riders
    BY <1>0, <1>3, FirstRankedIsCandidate, RiderDayAssumption DEF AutoAssign, Candidates
  <2> QED
    BY <1>1, <1>3, <2>1 DEF AutoAssign
<1>4. CASE CreateTask
  <2> DEFINE o == claim.parcel
             change == [NoTask EXCEPT !.rider = claim.rider, !.status = "assigned", !.assigned = date]
  <2>1. o \in Parcels /\ claim.rider \in Riders
    BY <1>0, <1>4 DEF CreateTask, RiderTypeOK
  <2>2. /\ change \in Task /\ change.rider # Nobody /\ change.status = "assigned"
        /\ change.assigned = date /\ change.done = 0
    BY <1>0, <2>1, RiderDayAssumption DEF NoTask, Task, ActiveStatuses
  <2>3. task' = [task EXCEPT ![o] = change] /\ UNCHANGED <<partner, returned, date>> /\ claim' = NoClaim
    BY <1>4 DEF CreateTask
  <2>4. returned[o] = {}
    BY <1>0, <1>4, <2>1 DEF CreateTask, TaskOK, ClaimOK
  <2> HIDE DEF o, change
  <2>5. DOMAIN Lines[o] # {} /\ {} \in SUBSET DOMAIN Lines[o]
    BY <2>1, RiderDayAssumption
  <2>6. returned' = [returned EXCEPT ![o] = {}]
    BY <1>0, <2>1, <2>3, <2>4 DEF RiderTypeOK
  <2>7. change.done # 0 <=> change.status \in {"delivered", "returned"}
    BY <2>2
  <2>8. change.assigned <= date /\ change.done <= date
    BY <1>0, <2>2
  <2> QED
    BY <2>1, <2>2, <2>3, <2>5, <2>6, <2>7, <2>8, RowWritten
<1>5. ASSUME NEW r \in Riders, RiderDuty(r) \/ RiderActive(r) PROVE RiderInv'
  <2>1. UNCHANGED <<task, returned, date, claim>>
    BY <1>5 DEF RiderDuty, RiderActive
  <2>2. RiderTypeOK'
    <3>1. partner' \in [Riders -> [duty : BOOLEAN, active : BOOLEAN]]
      BY <1>0, <1>5 DEF RiderDuty, RiderActive, RiderTypeOK
    <3> QED
      BY <1>0, <2>1, <3>1 DEF RiderTypeOK
  <2> QED
    BY <1>0, <2>1, <2>2, RowsStay DEF ClaimOK
<1>6. CASE NextDate
  <2>1. date' = date + 1 /\ UNCHANGED <<partner, task, returned, claim>>
    BY <1>6 DEF NextDate
  <2>2. RiderTypeOK'
    BY <1>0, <2>1 DEF RiderTypeOK
  <2> QED
    BY <1>0, <2>1, <2>2, RowsStay DEF ClaimOK
\* A rider's handler changes the status of a row, and the day it is finished.
<1>7. ASSUME NEW o \in Parcels, NEW change \in Task, NEW back \in SUBSET DOMAIN Lines[o],
             Becomes(o, change), returned' = [returned EXCEPT ![o] = back],
             task[o].status \in ActiveStatuses,
             change.rider = task[o].rider, change.assigned = task[o].assigned,
             change.status # "none",
             \/ change.status \notin {"delivered", "returned"} /\ change.done = 0 /\ back = {}
             \/ change.status \in {"delivered", "returned"} /\ change.done = date,
             change.status # "returned" => DOMAIN Lines[o] \ back # {}
      PROVE  RiderInv'
  <2>1. task[o].status # "none"
    BY <1>7 DEF ActiveStatuses
  <2>2. task[o].rider # Nobody /\ task[o].assigned <= date /\ task[o].assigned \in Nat
    BY <1>0, <2>1 DEF TaskOK, Task
  <2>3. /\ change.done # 0 <=> change.status \in {"delivered", "returned"}
        /\ change.done <= date
    BY <1>0, <1>7
  <2>4. task' = [task EXCEPT ![o] = change] /\ UNCHANGED <<partner, date>> /\ claim' = claim
    BY <1>7 DEF Becomes
  <2>5. change.status \notin {"delivered", "returned"} => back = {}
    BY <1>7
  <2> QED
    BY <1>7, <2>1, <2>2, <2>3, <2>4, <2>5, RowWritten
<1>8. ASSUME NEW o \in Parcels, task[o].status \in ActiveStatuses
      PROVE  /\ returned[o] = {} /\ {} \in SUBSET DOMAIN Lines[o] /\ DOMAIN Lines[o] \ {} # {}
             /\ task[o].done = 0
             /\ UNCHANGED returned => returned' = [returned EXCEPT ![o] = {}]
  <2>1. task[o].status \notin {"none", "delivered", "returned"}
    BY <1>8 DEF ActiveStatuses
  <2>2. returned[o] = {} /\ task[o].done = 0
    BY <1>0, <2>1 DEF TaskOK
  <2> QED
    BY <1>0, <2>2, RiderDayAssumption DEF RiderTypeOK
<1>9. ASSUME NEW o \in Parcels, AcceptTask(o) PROVE RiderInv'
  <2> DEFINE change == [task[o] EXCEPT !.status = "accepted"]
  <2>1. task[o].status \in ActiveStatuses
    BY <1>9 DEF AcceptTask, ActiveStatuses
  <2>2. /\ change \in Task /\ change.status = "accepted" /\ change.done = 0
        /\ change.rider = task[o].rider /\ change.assigned = task[o].assigned
    BY <1>0, <1>8, <2>1 DEF Task, ActiveStatuses
  <2>3. Becomes(o, change) /\ UNCHANGED returned
    BY <1>9 DEF AcceptTask
  <2> HIDE DEF change
  <2> QED
    BY <1>7, <1>8, <2>1, <2>2, <2>3
<1>10. ASSUME NEW o \in Parcels, PickUpTask(o) PROVE RiderInv'
  <2> DEFINE change == [task[o] EXCEPT !.status = "picked_up"]
  <2>1. task[o].status \in ActiveStatuses
    BY <1>10 DEF PickUpTask, ActiveStatuses
  <2>2. /\ change \in Task /\ change.status = "picked_up" /\ change.done = 0
        /\ change.rider = task[o].rider /\ change.assigned = task[o].assigned
    BY <1>0, <1>8, <2>1 DEF Task, ActiveStatuses
  <2>3. Becomes(o, change) /\ UNCHANGED returned
    BY <1>10 DEF PickUpTask
  <2> HIDE DEF change
  <2> QED
    BY <1>7, <1>8, <2>1, <2>2, <2>3
<1>11. ASSUME NEW o \in Parcels, StandDown(o) PROVE RiderInv'
  <2> DEFINE change == [task[o] EXCEPT !.status = "cancelled"]
  <2>1. task[o].status \in ActiveStatuses
    BY <1>11 DEF StandDown, ActiveStatuses
  <2>2. /\ change \in Task /\ change.status = "cancelled" /\ change.done = 0
        /\ change.rider = task[o].rider /\ change.assigned = task[o].assigned
    BY <1>0, <1>8, <2>1 DEF Task, ActiveStatuses
  <2>3. Becomes(o, change) /\ UNCHANGED returned
    BY <1>11 DEF StandDown
  <2> HIDE DEF change
  <2> QED
    BY <1>7, <1>8, <2>1, <2>2, <2>3
<1>12. ASSUME NEW o \in Parcels, NEW upi \in BOOLEAN, DeliverTask(o, upi) PROVE RiderInv'
  <2> DEFINE change == [task[o] EXCEPT !.status = "delivered", !.done = date, !.upi = upi]
  <2>1. task[o].status \in ActiveStatuses
    BY <1>12 DEF DeliverTask, ActiveStatuses
  <2>2. /\ change \in Task /\ change.status = "delivered" /\ change.done = date
        /\ change.rider = task[o].rider /\ change.assigned = task[o].assigned
    BY <1>0, <2>1 DEF Task, ActiveStatuses
  <2>3. Becomes(o, change) /\ UNCHANGED returned
    BY <1>12 DEF DeliverTask
  <2> HIDE DEF change
  <2> QED
    BY <1>7, <1>8, <2>1, <2>2, <2>3
<1>13. ASSUME NEW o \in Parcels, NEW wanted \in SUBSET DOMAIN Lines[o], ReturnTask(o, wanted)
       PROVE  RiderInv'
  <2> DEFINE status == IF wanted = DOMAIN Lines[o] THEN "returned" ELSE "delivered"
             change == [task[o] EXCEPT !.status = status, !.done = date]
  <2>1. task[o].status \in ActiveStatuses
    BY <1>13 DEF ReturnTask, ActiveStatuses
  <2>2. returned[o] = {}
    BY <1>8, <2>1
  <2>3. /\ change \in Task /\ change.status = status /\ change.done = date
        /\ change.rider = task[o].rider /\ change.assigned = task[o].assigned
    BY <1>0, <2>1 DEF Task, ActiveStatuses
  <2>4. DOMAIN Lines[o] \ returned[o] = DOMAIN Lines[o] /\ returned[o] \cup wanted = wanted
    BY <2>2
  <2>5. Becomes(o, change) /\ returned' = [returned EXCEPT ![o] = wanted]
    BY <1>13, <2>4 DEF ReturnTask
  <2>6. /\ status \in {"delivered", "returned"}
        /\ status # "returned" => DOMAIN Lines[o] \ wanted # {}
    OBVIOUS
  <2> HIDE DEF change, status
  <2> QED
    BY <1>7, <2>1, <2>3, <2>5, <2>6
<1>14. CASE UNCHANGED riderVars
  <2>1. RiderTypeOK' /\ ClaimOK'
    BY <1>0, <1>14 DEF RiderTypeOK, ClaimOK, riderVars
  <2> QED
    BY <1>0, <1>14, <2>1, RowsStay DEF riderVars
<1> QED
  BY <1>2, <1>3, <1>4, <1>5, <1>6, <1>9, <1>10, <1>11, <1>12, <1>13, <1>14 DEF RiderNext

-----------------------------------------------------------------------------
(* The sums.                                                               *)

\* What a day's list is made of.
LEMMA FiniteTasks == ASSUME NEW S \in SUBSET Parcels PROVE IsFiniteSet(S) /\ Cardinality(S) \in Nat
  BY RiderDayAssumption, FS_Subset, FS_CardinalityType

LEMMA DisjointCount ==
    ASSUME NEW A \in SUBSET Parcels, NEW B \in SUBSET Parcels, A \cap B = {}
    PROVE  Cardinality(A \cup B) = Cardinality(A) + Cardinality(B)
<1>1. IsFiniteSet(A) /\ IsFiniteSet(B)
  BY FiniteTasks
<1>2. Cardinality(A \cup B) = Cardinality(A) + Cardinality(B) - Cardinality(A \cap B)
  BY <1>1, FS_Union
<1> QED
  BY <1>2, FS_EmptySet, FiniteTasks

LEMMA QuantityNatural ==
    ASSUME NEW o \in Parcels, NEW L \in SUBSET DOMAIN Lines[o]
    PROVE  /\ Quantity(o, L) \in Nat
           /\ L # {} => Quantity(o, L) > 0
           /\ [i \in L |-> Lines[o][i].qty] \in [L -> Nat] /\ IsFiniteSet(L)
<1> DEFINE f == [i \in L |-> Lines[o][i].qty]
<1>1. f \in [L -> Nat] /\ IsFiniteSet(L) /\ \A i \in L : f[i] > 0
  BY RiderDayAssumption, FS_Subset
<1> HIDE DEF f
<1>2. SumOf(f) \in Nat
  BY <1>1, SumOfNaturals
<1>3. L # {} => SumOf(f) > 0
  <2> SUFFICES ASSUME NEW i \in L PROVE SumOf(f) > 0
    OBVIOUS
  <2>1. f[i] <= SumOf(f)
    BY <1>1, SumAtLeast
  <2>2. f[i] \in Nat /\ f[i] > 0
    BY <1>1
  <2> QED
    BY <1>2, <2>1, <2>2
<1> QED
  BY <1>1, <1>2, <1>3 DEF f, Quantity

LEMMA CodNatural ==
    ASSUME RiderInv, NEW o \in Parcels PROVE CodAmount(o) \in Nat
<1>1. DOMAIN Lines[o] \in SUBSET DOMAIN Lines[o] /\ Kept(o) \in SUBSET DOMAIN Lines[o]
  BY DEF Kept
<1>2. Quantity(o, DOMAIN Lines[o]) \in Nat /\ Quantity(o, Kept(o)) \in Nat
  BY <1>1, QuantityNatural
<1>3. \A a \in Nat : UnitPrice * a \in Nat
  BY RiderDayAssumption
<1> QED
  BY <1>2, <1>3 DEF CodAmount, Total

\* A part of what is collected is no more than all of it.
LEMMA CollectedMonotone ==
    ASSUME RiderInv, NEW S \in SUBSET Parcels, NEW U \in SUBSET S
    PROVE  Collected(U) <= Collected(S)
<1> DEFINE f == [o \in S |-> CodAmount(o)]
           e == [o \in U |-> CodAmount(o)]
           h == [o \in S |-> IF o \in U THEN CodAmount(o) ELSE 0]
<1>1. \A o \in S : CodAmount(o) \in Nat
  BY CodNatural
<1>2. /\ f \in [S -> Int] /\ e \in [U -> Int] /\ h \in [S -> Int]
      /\ SameOn(U, h, e) /\ \A o \in S \ U : h[o] = 0
      /\ \A o \in S : h[o] <= f[o]
  BY <1>1 DEF SameOn
<1>3. IsFiniteSet(S)
  BY FiniteTasks
<1> HIDE DEF f, e, h
<1>4. SumOf(e) = SumOf(h)
  BY <1>2, <1>3, SumOnly
<1>5. SumOf(h) <= SumOf(f)
  BY <1>2, <1>3, SumMonotone
<1> QED
  BY <1>4, <1>5 DEF Collected, f, e

\* Every delivery has one day.
LEMMA DaysAddUp ==
    ASSUME RiderInv, NEW r
    PROVE  RiderFee * Cardinality(InStatus(r, {"delivered"})) =
              SumOf([d \in 1..date |-> RiderFee * Cardinality(DeliveredOn(r, d))])
<1> DEFINE S == InStatus(r, {"delivered"})
           K == 1..date
           key == [o \in S |-> task[o].done]
           f == [o \in S |-> 1]
           n == ByKey(S, K, key, f)
           m == [d \in K |-> RiderFee * Cardinality(DeliveredOn(r, d))]
<1>1. S \in SUBSET Parcels /\ IsFiniteSet(S) /\ IsFiniteSet(K)
  BY FiniteTasks, FS_Interval DEF InStatus, TasksOf, RiderInv, RiderTypeOK
<1>2. \A o \in S : key[o] \in K
  <2> TAKE o \in S
  <2>1. o \in Parcels /\ task[o].status = "delivered" /\ TaskOK(o) /\ task[o].done \in Nat /\ date \in Nat
    BY DEF InStatus, TasksOf, RiderInv, RiderTypeOK, Task
  <2>2. task[o].done # 0 /\ task[o].done <= date
    BY <2>1 DEF TaskOK
  <2> QED
    BY <2>1, <2>2
<1>3. f \in [S -> Int] /\ \A o \in S : f[o] = IF key[o] \in K THEN f[o] ELSE 0
  BY <1>2
<1>4. ASSUME NEW d \in K PROVE m[d] = RiderFee * n[d]
  <2> DEFINE G == {o \in S : key[o] = d}
             g == [o \in G |-> f[o]]
  <2>1. G = DeliveredOn(r, d)
    BY DEF DeliveredOn
  <2>2. G \in SUBSET S /\ g \in [G -> Int] /\ \A o \in G : g[o] = 1
    OBVIOUS
  <2>3. n[d] = SumOf(g)
    BY DEF ByKey
  <2> HIDE DEF G, g, n
  <2>4. IsFiniteSet(G)
    BY <1>1, <2>2, FS_Subset
  <2>5. SumOf(g) = Cardinality(G)
    BY <2>2, <2>4, SumOfOnes
  <2> QED
    BY <2>1, <2>3, <2>5
<1>5. \A d \in K : n[d] \in Int
  <2> TAKE d \in K
  <2> DEFINE G == {o \in S : key[o] = d}
             g == [o \in G |-> f[o]]
  <2>1. G \in SUBSET S /\ g \in [G -> Int]
    OBVIOUS
  <2>2. n[d] = SumOf(g)
    BY DEF ByKey
  <2> HIDE DEF G, g, n
  <2>3. IsFiniteSet(G)
    BY <1>1, <2>1, FS_Subset
  <2> QED
    BY <2>1, <2>2, <2>3, SumType
<1>6. SumOf(n) = SumOf(f)
  <2> HIDE DEF S, K, key, f
  <2> QED
    BY <1>1, <1>3, SumByKey
<1>7. SumOf(f) = Cardinality(S)
  <2>1. \A o \in S : f[o] = 1
    OBVIOUS
  <2> HIDE DEF f, S
  <2> QED
    BY <1>1, <1>3, <2>1, SumOfOnes
<1>8. n \in [K -> Int] /\ m \in [K -> Int]
  <2>1. n = [d \in K |-> n[d]] /\ m = [d \in K |-> m[d]]
    BY DEF ByKey
  <2> HIDE DEF n, m
  <2>2. \A d \in K : m[d] \in Int
    BY <1>4, <1>5, RiderDayAssumption
  <2> QED
    BY <1>5, <2>1, <2>2
<1> HIDE DEF n, m, S, K, f
<1>9. SumOf(m) = RiderFee * SumOf(n)
  BY <1>1, <1>4, <1>8, SumScaled, RiderDayAssumption
<1> QED
  BY <1>6, <1>7, <1>9 DEF m, S, K

\* A day's list against the lists of all days.
LEMMA DayIsRight ==
    ASSUME RiderInv, NEW r, r # Nobody, NEW d \in 1..date PROVE DayAgrees(r, d)
<1> DEFINE day == DaySummary(r, d)
           S == WorkedOn(r, d)
           delivered == {o \in S : task[o].status = "delivered"}
           back == {o \in S : task[o].status = "returned"}
           other == {o \in InStatus(r, {"delivered"}) : task[o].assigned = d /\ task[o].done # d}
           cancelled == {o \in InStatus(r, {"cancelled"}) : task[o].assigned = d}
<1>0. ASSUME NEW o \in TasksOf(r)
      PROVE  /\ o \in Parcels /\ task[o].rider = r
             /\ task[o].status \in {"assigned", "accepted", "picked_up", "delivered", "returned", "cancelled"}
             /\ task[o].done # 0 <=> task[o].status \in {"delivered", "returned"}
  BY DEF TasksOf, RiderInv, RiderTypeOK, TaskOK, Task, ActiveStatuses
<1>00. d # 0
  BY DEF RiderInv, RiderTypeOK
<1>1. S \subseteq TasksOf(r)
  BY DEF WorkedOn
<1>2. S = ((delivered \cup PendingOf(S)) \cup back) \cup cancelled
  <2>1. ASSUME NEW o \in S PROVE o \in ((delivered \cup PendingOf(S)) \cup back) \cup cancelled
    BY <1>0, <1>00, <1>1, <2>1 DEF WorkedOn, PendingOf, InStatus, ActiveStatuses
  <2>2. cancelled \subseteq S
    BY DEF WorkedOn, InStatus
  <2> QED
    BY <2>1, <2>2 DEF PendingOf
<1>3. /\ delivered \cap PendingOf(S) = {} /\ (delivered \cup PendingOf(S)) \cap back = {}
      /\ ((delivered \cup PendingOf(S)) \cup back) \cap cancelled = {}
  BY DEF PendingOf, InStatus
<1>4. /\ delivered \in SUBSET Parcels /\ PendingOf(S) \in SUBSET Parcels
      /\ back \in SUBSET Parcels /\ cancelled \in SUBSET Parcels
  BY DEF WorkedOn, TasksOf, InStatus, PendingOf
<1>5. PendingOf(S) = InStatus(r, ActiveStatuses)
  BY <1>0, <1>1 DEF PendingOf, InStatus, WorkedOn, ActiveStatuses
<1>6. delivered = DeliveredOn(r, d) \cup other
  BY DEF WorkedOn, DeliveredOn, InStatus, ActiveStatuses
<1>7. /\ day.total = Cardinality(S) /\ day.delivered = Cardinality(delivered)
      /\ day.pending = Cardinality(PendingOf(S)) /\ day.returned = Cardinality(back)
      /\ day.earnings = RiderFee * Cardinality(delivered)
      /\ day.toCollect = Collected(PendingOf(S)) /\ day.collected = Collected(delivered)
      /\ day.upi = Collected({o \in delivered \cap Cash : task[o].upi})
  BY DEF DaySummary
<1>8. {o \in delivered \cap Cash : task[o].upi} \in SUBSET delivered
  OBVIOUS
<1> HIDE DEF day, S, delivered, back, other, cancelled
<1>9. Cardinality(S) = ((Cardinality(delivered) + Cardinality(PendingOf(S))) + Cardinality(back))
                          + Cardinality(cancelled)
  <2>1. Cardinality(delivered \cup PendingOf(S)) = Cardinality(delivered) + Cardinality(PendingOf(S))
    BY <1>3, <1>4, DisjointCount
  <2>2. delivered \cup PendingOf(S) \in SUBSET Parcels
    BY <1>4
  <2>3. Cardinality((delivered \cup PendingOf(S)) \cup back) =
            Cardinality(delivered \cup PendingOf(S)) + Cardinality(back)
    BY <1>3, <1>4, <2>2, DisjointCount
  <2>4. (delivered \cup PendingOf(S)) \cup back \in SUBSET Parcels
    BY <1>4
  <2>5. Cardinality(((delivered \cup PendingOf(S)) \cup back) \cup cancelled) =
            Cardinality((delivered \cup PendingOf(S)) \cup back) + Cardinality(cancelled)
    BY <1>3, <1>4, <2>4, DisjointCount
  <2> QED
    BY <1>2, <2>1, <2>3, <2>5
<1>10. Collected({o \in delivered \cap Cash : task[o].upi}) <= Collected(delivered)
  BY <1>4, <1>8, CollectedMonotone
<1>11. day.total = day.delivered + day.pending + day.returned + Cardinality(cancelled)
  BY <1>7, <1>9
<1> QED
  BY <1>5, <1>6, <1>7, <1>10, <1>11 DEF DayAgrees, Load, day, other, cancelled

-----------------------------------------------------------------------------
(* Shares and rounding.                                                    *)

LEMMA RoundedNear ==
    ASSUME NEW n \in Nat
    PROVE  /\ Rounded(n) \in Int
           /\ (2 * Scale) * Rounded(n) <= 2 * n + Scale
           /\ 2 * n - Scale <= (2 * Scale) * Rounded(n)
<1> DEFINE a == 2 * n + Scale
           b == 2 * Scale
           q == a \div b
<1>1. Scale \in Nat \ {0} /\ a \in Nat /\ b \in Nat \ {0}
  BY RiderDayAssumption
<1>2. q \in Int /\ b * q <= a /\ a < b * q + b
  <2> HIDE DEF a, b
  <2>1. a \div b \in Int /\ a = b * (a \div b) + (a % b) /\ 0 <= a % b /\ a % b < b
    BY <1>1
  <2>2. b * (a \div b) \in Int /\ a % b \in Int
    BY <1>1, <2>1
  <2> QED
    BY <1>1, <2>1, <2>2
<1>3. Rounded(n) = q
  BY DEF Rounded
<1>4. b * q \in Int
  <2> HIDE DEF q, b
  <2> QED
    BY <1>1, <1>2
<1>5. b * q <= 2 * n + Scale /\ 2 * n - Scale <= b * q
  <2> DEFINE y == b * q
  <2>1. y \in Int /\ y <= a /\ a < y + b
    BY <1>2, <1>4
  <2> HIDE DEF y, q
  <2>2. y <= 2 * n + Scale /\ 2 * n - Scale <= y
    BY <1>1, <2>1
  <2> QED
    BY <2>2 DEF y
<1> HIDE DEF q
<1> QED
  BY <1>2, <1>3, <1>5

\* What an order's products are, and how many units of them stand.
OfProduct(o, p) == {i \in Kept(o) : Lines[o][i].product = p}

\* Hundredths over Scale for each unit of an order.
UnitShare(o) == (Scale \div Quantity(o, Kept(o))) * RiderFee

LEMMA ShareIsExact ==
    ASSUME NEW o \in Parcels, Kept(o) # {}, NEW p
    PROVE  /\ UnitShare(o) \in Nat /\ Quantity(o, OfProduct(o, p)) \in Nat
           /\ Quantity(o, Kept(o)) \in Nat
           /\ Share(o, p) = UnitShare(o) * Quantity(o, OfProduct(o, p))
           /\ UnitShare(o) * Quantity(o, Kept(o)) = Scale * RiderFee
<1> DEFINE k == Quantity(o, Kept(o))
           x == Quantity(o, OfProduct(o, p))
           m == Scale \div k
<1>1. Kept(o) \in SUBSET DOMAIN Lines[o] /\ OfProduct(o, p) \in SUBSET DOMAIN Lines[o]
  BY DEF Kept, OfProduct
<1>2. k \in Nat \ {0} /\ x \in Nat
  BY <1>1, QuantityNatural
<1>3. Scale % k = 0 /\ Scale \in Nat \ {0} /\ RiderFee \in Nat
  BY <1>1, RiderDayAssumption
<1>4. Share(o, p) = (Scale * RiderFee * x) \div k
  BY DEF Share, OfProduct
<1>5. UnitShare(o) = m * RiderFee
  BY DEF UnitShare
<1> HIDE DEF k, x
<1>6. m \in Nat /\ Scale = k * m
  <2>1. Scale = k * (Scale \div k) + (Scale % k) /\ Scale \div k \in Nat
    BY <1>2, <1>3
  <2> QED
    BY <1>2, <1>3, <2>1
<1> HIDE DEF m
<1>7. (m * RiderFee) * k = Scale * RiderFee
  BY <1>2, <1>3, <1>6
<1>8. Scale * RiderFee * x = k * ((m * RiderFee) * x)
  <2>1. \A a, b, c, d \in Nat : ((a * b) * c) * d = a * ((b * c) * d)
    OBVIOUS
  <2> QED
    BY <1>2, <1>3, <1>6, <2>1
<1>9. (m * RiderFee) * x \in Nat /\ m * RiderFee \in Nat
  <2>1. m * RiderFee \in Nat
    BY <1>3, <1>6
  <2> QED
    BY <1>2, <2>1
<1>10. \A a, y \in Nat : y # 0 => (y * a) \div y = a
  OBVIOUS
<1>11. (Scale * RiderFee * x) \div k = (m * RiderFee) * x
  <2> DEFINE a == (m * RiderFee) * x
  <2>1. a \in Nat
    BY <1>9
  <2>2. Scale * RiderFee * x = k * a
    BY <1>8
  <2> HIDE DEF a
  <2>3. (k * a) \div k = a
    BY <1>2, <1>10, <2>1
  <2> QED
    BY <2>2, <2>3 DEF a
<1> QED
  BY <1>2, <1>4, <1>5, <1>7, <1>9, <1>11 DEF k, x

\* The shares of an order among some products, and among all of its own.
LEMMA SharesOfOrder ==
    ASSUME NEW o \in Parcels, Kept(o) # {}, NEW T, IsFiniteSet(T)
    PROVE  /\ [p \in T |-> Share(o, p)] \in [T -> Nat]
           /\ SumOf([p \in T |-> Share(o, p)]) \in Int
           /\ SumOf([p \in T |-> Share(o, p)]) <= Scale * RiderFee
           /\ (\A i \in Kept(o) : Lines[o][i].product \in T)
                 => SumOf([p \in T |-> Share(o, p)]) = Scale * RiderFee
<1> DEFINE K == Kept(o)
           f == [i \in K |-> Lines[o][i].qty]
           key == [i \in K |-> Lines[o][i].product]
           g == [i \in K |-> IF key[i] \in T THEN f[i] ELSE 0]
           n == ByKey(K, T, key, f)
           s == [p \in T |-> Share(o, p)]
           u == UnitShare(o)
<1>1. K \in SUBSET DOMAIN Lines[o]
  BY DEF Kept
<1>2. f \in [K -> Nat] /\ IsFiniteSet(K)
  BY <1>1, QuantityNatural
<1>3. g \in [K -> Int] /\ (\A i \in K : g[i] = IF key[i] \in T THEN f[i] ELSE 0)
  BY <1>2
<1>4. SumOf(n) = SumOf(g)
  <2>1. f \in [K -> Int] /\ IsFiniteSet(K)
    BY <1>2
  <2>2. \A i \in K : g[i] = IF key[i] \in T THEN f[i] ELSE 0
    BY <1>3
  <2>3. g \in [K -> Int]
    BY <1>3
  <2> HIDE DEF K, f, key, g
  <2> QED
    BY <2>1, <2>2, <2>3, SumByKey
<1>5. SumOf(g) <= SumOf(f) /\ SumOf(f) \in Int /\ SumOf(g) \in Int
  <2>1. \A i \in K : g[i] <= f[i]
    BY <1>2
  <2>2. f \in [K -> Int]
    BY <1>2
  <2> HIDE DEF K, f, g
  <2> QED
    BY <1>2, <1>3, <2>1, <2>2, SumMonotone, SumType
<1>6. (\A i \in K : Lines[o][i].product \in T) => g = f
  OBVIOUS
<1>7. SumOf(f) = Quantity(o, Kept(o))
  BY DEF Quantity
<1>8. ASSUME NEW p \in T PROVE n[p] = Quantity(o, OfProduct(o, p))
  <2>1. {i \in K : key[i] = p} = OfProduct(o, p)
    BY DEF OfProduct
  <2>2. [i \in {i \in K : key[i] = p} |-> f[i]] = [i \in OfProduct(o, p) |-> Lines[o][i].qty]
    BY <2>1 DEF OfProduct
  <2> QED
    BY <2>2 DEF Quantity, ByKey
<1>9. u \in Nat /\ u * SumOf(f) = Scale * RiderFee
  BY <1>7, ShareIsExact
<1>10. \A p \in T : n[p] \in Nat /\ s[p] = u * n[p]
  <2> TAKE p \in T
  <2>1. Share(o, p) = u * Quantity(o, OfProduct(o, p)) /\ Quantity(o, OfProduct(o, p)) \in Nat
    BY ShareIsExact
  <2> HIDE DEF u, n
  <2> QED
    BY <1>8, <2>1
<1>11. s \in [T -> Nat] /\ n \in [T -> Int] /\ s \in [T -> Int]
  <2>1. n = [p \in T |-> n[p]] /\ s = [p \in T |-> s[p]]
    BY DEF ByKey
  <2> HIDE DEF n, s, u
  <2>2. \A p \in T : s[p] \in Nat
    BY <1>9, <1>10
  <2> QED
    BY <1>10, <2>1, <2>2
<1> HIDE DEF n, s, u, f, g
<1>12. SumOf(s) = u * SumOf(n) /\ SumOf(s) \in Int
  BY <1>9, <1>10, <1>11, SumScaled, SumType
<1>13. \A a, b, c \in Int : a \in Nat /\ b <= c => a * b <= a * c
  OBVIOUS
<1>14. SumOf(s) <= Scale * RiderFee
  BY <1>4, <1>5, <1>9, <1>12, <1>13
<1>15. (\A i \in K : Lines[o][i].product \in T) => SumOf(s) = Scale * RiderFee
  BY <1>4, <1>6, <1>9, <1>12
<1> QED
  BY <1>11, <1>12, <1>14, <1>15 DEF s

LEMMA FiniteImage ==
    ASSUME NEW S, IsFiniteSet(S), NEW T, NEW f \in [S -> T], \A t \in T : \E s \in S : f[s] = t
    PROVE  IsFiniteSet(T)
  BY FS_Surjection DEF Surjection

LEMMA FiniteProducts == IsFiniteSet(Products)
<1> DEFINE G == [o \in Parcels |-> {Lines[o][i].product : i \in DOMAIN Lines[o]}]
           U == {G[o] : o \in Parcels}
<1>1. \A o \in Parcels : IsFiniteSet(G[o])
  <2> TAKE o \in Parcels
  <2> DEFINE h == [i \in DOMAIN Lines[o] |-> Lines[o][i].product]
             H == G[o]
             L == DOMAIN Lines[o]
  <2>1. h \in [L -> H] /\ \A t \in H : \E i \in L : h[i] = t
    OBVIOUS
  <2>2. IsFiniteSet(L)
    BY RiderDayAssumption
  <2> HIDE DEF h, H, L
  <2>3. IsFiniteSet(H)
    BY <2>1, <2>2, FiniteImage
  <2> QED
    BY <2>3 DEF H
<1>2. IsFiniteSet(U)
  <2>1. G \in [Parcels -> U] /\ \A t \in U : \E o \in Parcels : G[o] = t
    OBVIOUS
  <2> HIDE DEF G, U
  <2> QED
    BY <2>1, RiderDayAssumption, FiniteImage
<1>3. Products = UNION U
  BY DEF Products
<1>4. \A x \in U : IsFiniteSet(x)
  BY <1>1
<1> HIDE DEF U
<1> QED
  BY <1>2, <1>3, <1>4, FS_UNION

\* What the products of some deliveries earned together.
LEMMA EarnedTogether ==
    ASSUME RiderInv, NEW S \in SUBSET Parcels, \A o \in S : Kept(o) # {}, NEW T \in SUBSET Sold(S)
    PROVE  /\ IsFiniteSet(T) /\ [p \in T |-> Earned(S, p)] \in [T -> Nat]
           /\ SumOf([p \in T |-> Earned(S, p)]) \in Int
           /\ SumOf([p \in T |-> Earned(S, p)]) <= (Scale * RiderFee) * Cardinality(S)
           /\ T = Sold(S) => SumOf([p \in T |-> Earned(S, p)]) = (Scale * RiderFee) * Cardinality(S)
<1> DEFINE F == [o \in S |-> [p \in T |-> Share(o, p)]]
           e == [p \in T |-> Earned(S, p)]
           t == [o \in S |-> SumOf(F[o])]
           ones == [o \in S |-> 1]
           most == [o \in S |-> Scale * RiderFee]
<1>1. IsFiniteSet(T) /\ IsFiniteSet(S)
  BY FiniteProducts, FS_Subset, FiniteTasks DEF Sold
<1>2. \A o \in S : F[o] \in [T -> Nat] /\ t[o] \in Int /\ t[o] <= Scale * RiderFee
  BY <1>1, SharesOfOrder
<1>3. T = Sold(S) => \A o \in S : t[o] = Scale * RiderFee
  <2> SUFFICES ASSUME T = Sold(S), NEW o \in S PROVE t[o] = Scale * RiderFee
    OBVIOUS
  <2>1. \A i \in Kept(o) : Lines[o][i].product \in T
    BY DEF Sold, Products, Kept
  <2>2. SumOf([p \in T |-> Share(o, p)]) = Scale * RiderFee
    BY <1>1, <2>1, SharesOfOrder
  <2> QED
    BY <2>2
<1>4. F \in [S -> [T -> Int]]
  <2> F = [o \in S |-> F[o]]
    OBVIOUS
  <2> HIDE DEF F
  <2> QED
    BY <1>2
<1>5. \A p \in T : Earned(S, p) = SumOf([o \in S |-> F[o][p]])
  <2> TAKE p \in T
  <2>1. [o \in S |-> F[o][p]] = [o \in S |-> Share(o, p)]
    OBVIOUS
  <2> QED
    BY <2>1 DEF Earned
<1>6. e \in [T -> Nat]
  <2> SUFFICES ASSUME NEW p \in T PROVE Earned(S, p) \in Nat
    OBVIOUS
  <2> DEFINE c == [o \in S |-> F[o][p]]
  <2>1. \A o \in S : F[o][p] \in Nat
    <3> HIDE DEF F
    <3> QED
      BY <1>2
  <2>2. c \in [S -> Nat]
    BY <2>1
  <2>3. Earned(S, p) = SumOf(c)
    BY <1>5
  <2> HIDE DEF c
  <2> QED
    BY <1>1, <2>2, <2>3, SumOfNaturals
<1>7. SumOf(t) = SumOf(e)
  <2>1. e = [p \in T |-> SumOf([o \in S |-> F[o][p]])]
    BY <1>5
  <2> HIDE DEF F, e
  <2> QED
    BY <1>1, <1>4, <2>1, SumSwap
<1>8. t \in [S -> Int]
  <2> t = [o \in S |-> t[o]]
    OBVIOUS
  <2> HIDE DEF t
  <2> QED
    BY <1>2
<1>9. Scale * RiderFee \in Int
  BY RiderDayAssumption
<1>10. SumOf(most) = (Scale * RiderFee) * Cardinality(S)
  <2> DEFINE c == Scale * RiderFee
  <2>1. ones \in [S -> Int] /\ most \in [S -> Int] /\ (\A o \in S : ones[o] = 1) /\ c \in Int
    BY <1>9
  <2>2. \A o \in S : most[o] = c * ones[o]
    BY <2>1
  <2> HIDE DEF ones, most, c
  <2>3. SumOf(most) = c * SumOf(ones)
    BY <1>1, <2>1, <2>2, SumScaled
  <2>4. SumOf(ones) = Cardinality(S)
    BY <1>1, <2>1, SumOfOnes
  <2> QED
    BY <2>3, <2>4 DEF c
<1>11. most \in [S -> Int] /\ \A o \in S : t[o] <= most[o]
  BY <1>2, <1>9
<1>12. T = Sold(S) => t = most
  BY <1>3
<1> HIDE DEF t, most, e
<1>13. SumOf(t) <= SumOf(most) /\ SumOf(t) \in Int
  BY <1>1, <1>8, <1>11, SumMonotone, SumType
<1> QED
  BY <1>1, <1>6, <1>7, <1>10, <1>12, <1>13 DEF e

\* Every product is rounded by half a hundredth at the most.
LEMMA SharesAreRight ==
    ASSUME RiderInv, NEW S \in SUBSET Parcels, \A o \in S : Kept(o) # {} PROVE SharesAgree(S)
<1> SUFFICES ASSUME NEW T \in TopProducts(S)
             PROVE  LET over == 2 * (SumOf(ByProduct(S, T)) - RiderFee * Cardinality(S))
                    IN  /\ over <= Cardinality(T)
                        /\ Cardinality(Sold(S)) <= Top => -over <= Cardinality(T)
  BY DEF SharesAgree
<1> DEFINE e == [p \in T |-> Earned(S, p)]
           b == ByProduct(S, T)
           D == 2 * Scale
           db == [p \in T |-> D * b[p]]
           e2 == [p \in T |-> 2 * e[p]]
           sc == [p \in T |-> Scale * 1]
           ones == [p \in T |-> 1]
           hi == [p \in T |-> e2[p] + sc[p]]
           lo == [p \in T |-> e2[p] + (-1) * sc[p]]
           neg == [p \in T |-> (-1) * sc[p]]
           n == Cardinality(T)
<1>0. T \in SUBSET Sold(S)
  BY DEF TopProducts
<1>1. IsFiniteSet(T) /\ e \in [T -> Nat] /\ SumOf(e) \in Int
  BY <1>0, EarnedTogether
<1>2. SumOf(e) <= (Scale * RiderFee) * Cardinality(S)
  BY <1>0, EarnedTogether
<1>3. T = Sold(S) => SumOf(e) = (Scale * RiderFee) * Cardinality(S)
  BY <1>0, EarnedTogether
<1>4. Scale \in Nat \ {0} /\ D \in Nat \ {0} /\ RiderFee \in Nat
  BY RiderDayAssumption
<1>5. \A p \in T : b[p] \in Int /\ D * b[p] <= 2 * e[p] + Scale /\ 2 * e[p] - Scale <= D * b[p]
  <2> TAKE p \in T
  <2>1. e[p] \in Nat /\ e[p] = Earned(S, p)
    BY <1>1
  <2>2. b[p] = Rounded(e[p])
    BY <2>1 DEF ByProduct
  <2> HIDE DEF e, b
  <2> QED
    BY <2>1, <2>2, RoundedNear
<1>6. b \in [T -> Int]
  <2>1. b = [p \in T |-> b[p]]
    BY DEF ByProduct
  <2> HIDE DEF b, e
  <2> QED
    BY <1>5, <2>1
<1> HIDE DEF e, b
<1>7. /\ db \in [T -> Int] /\ e2 \in [T -> Int] /\ sc \in [T -> Int] /\ ones \in [T -> Int]
      /\ neg \in [T -> Int] /\ e \in [T -> Int]
  <2> HIDE DEF D
  <2> QED
    BY <1>1, <1>4, <1>6
<1>8. hi \in [T -> Int] /\ lo \in [T -> Int]
  BY <1>1, <1>4
<1>9. \A p \in T : lo[p] <= db[p] /\ db[p] <= hi[p]
  <2> TAKE p \in T
  <2>1. D * b[p] <= 2 * e[p] + Scale /\ 2 * e[p] - Scale <= D * b[p] /\ e[p] \in Nat
    BY <1>1, <1>5
  <2>2. db[p] = D * b[p] /\ hi[p] = 2 * e[p] + Scale /\ lo[p] = 2 * e[p] + (-1) * Scale
    BY <1>4
  <2> HIDE DEF D, db, hi, lo
  <2>3. 2 * e[p] + (-1) * Scale = 2 * e[p] - Scale
    BY <1>4, <2>1
  <2> QED
    BY <2>1, <2>2, <2>3
<1>10. n \in Nat /\ SumOf(ones) = n
  <2>1. \A p \in T : ones[p] = 1
    OBVIOUS
  <2> HIDE DEF ones
  <2> QED
    BY <1>1, <1>7, <2>1, SumOfOnes, FS_CardinalityType
<1>11. \A p \in T : db[p] = D * b[p]
  OBVIOUS
<1>112. \A p \in T : e2[p] = 2 * e[p]
  OBVIOUS
<1>113. \A p \in T : sc[p] = Scale * ones[p]
  OBVIOUS
<1>114. \A p \in T : neg[p] = (-1) * sc[p]
  OBVIOUS
<1>115. \A p \in T : hi[p] = e2[p] + sc[p] /\ lo[p] = e2[p] + neg[p]
  OBVIOUS
<1> HIDE DEF db, e2, sc, ones, hi, lo, neg, n, D
<1>12. SumOf(db) = D * SumOf(b) /\ SumOf(b) \in Int
  BY <1>1, <1>4, <1>6, <1>7, <1>11, SumScaled, SumType
<1>13. SumOf(e2) = 2 * SumOf(e)
  BY <1>1, <1>7, <1>112, SumScaled
<1>14. SumOf(sc) = Scale * n
  <2>1. SumOf(sc) = Scale * SumOf(ones)
    BY <1>1, <1>4, <1>7, <1>113, SumScaled
  <2> QED
    BY <1>10, <2>1
<1>15. SumOf(neg) = (-1) * SumOf(sc)
  BY <1>1, <1>7, <1>114, SumScaled
<1>16. SumOf(hi) = SumOf(e2) + SumOf(sc) /\ SumOf(lo) = SumOf(e2) + SumOf(neg)
  BY <1>1, <1>7, <1>8, <1>115, SumPlus
<1>17. SumOf(lo) <= SumOf(db) /\ SumOf(db) <= SumOf(hi)
  BY <1>1, <1>7, <1>8, <1>9, SumMonotone
<1>18. Cardinality(S) \in Nat
  BY FiniteTasks
<1> DEFINE x == SumOf(b)
           c == RiderFee * Cardinality(S)
           E == SumOf(e)
<1>19. x \in Int /\ c \in Nat /\ E \in Int /\ E <= Scale * c /\ (T = Sold(S) => E = Scale * c)
  <2>1. (Scale * RiderFee) * Cardinality(S) = Scale * c
    BY <1>4, <1>18
  <2>2. c \in Nat
    BY <1>4, <1>18
  <2> HIDE DEF c
  <2> QED
    BY <1>1, <1>2, <1>3, <1>12, <2>1, <2>2
<1>20. D * x <= 2 * E + Scale * n /\ 2 * E - Scale * n <= D * x
  <2> DEFINE z == Scale * n
  <2>1. z \in Int
    BY <1>4, <1>10
  <2> HIDE DEF z
  <2>2. SumOf(neg) = -z /\ SumOf(sc) = z
    BY <1>14, <1>15, <2>1 DEF z
  <2> QED
    BY <1>12, <1>13, <1>16, <1>17, <1>19, <2>1, <2>2 DEF z
<1> HIDE DEF x, c, E
<1>21. Scale * (2 * (x - c)) <= Scale * n
  <2>1. Scale * (2 * (x - c)) = D * x - 2 * (Scale * c)
    BY <1>4, <1>19 DEF D
  <2>2. Scale * c \in Int /\ D * x \in Int /\ Scale * n \in Int
    BY <1>4, <1>10, <1>19
  <2> QED
    BY <1>19, <1>20, <2>1, <2>2
<1>22. T = Sold(S) => Scale * (-(2 * (x - c))) <= Scale * n
  <2>1. Scale * (-(2 * (x - c))) = 2 * (Scale * c) - D * x
    BY <1>4, <1>19 DEF D
  <2>2. Scale * c \in Int /\ D * x \in Int /\ Scale * n \in Int
    BY <1>4, <1>10, <1>19
  <2> QED
    BY <1>19, <1>20, <2>1, <2>2
<1>23. \A i, j \in Int : Scale * i <= Scale * j => i <= j
  BY <1>4
<1>24. Cardinality(Sold(S)) <= Top => T = Sold(S)
  <2>1. IsFiniteSet(Sold(S)) /\ Cardinality(Sold(S)) \in Nat /\ Top \in Nat
    BY FiniteProducts, FS_Subset, FS_CardinalityType, RiderDayAssumption, Sold(S) \subseteq Products DEF Sold
  <2>2. Cardinality(Sold(S)) <= Top => Cardinality(T) = Cardinality(Sold(S))
    BY <2>1 DEF TopProducts
  <2> QED
    BY <1>0, <2>1, <2>2, FS_Subset
<1>25. 2 * (x - c) \in Int /\ -(2 * (x - c)) \in Int
  BY <1>19
<1>26. 2 * (x - c) <= n /\ (Cardinality(Sold(S)) <= Top => -(2 * (x - c)) <= n)
  BY <1>10, <1>21, <1>22, <1>23, <1>24, <1>25
<1> QED
  BY <1>26 DEF x, c, n, b

(* RiderScreensAgree, for any riders, orders, quantities, fees and days.   *)
THEOREM RiderScreensAreRight == RiderSpec => []RiderScreensAgree
<1>1. RiderInv => RiderScreensAgree
  <2> SUFFICES ASSUME RiderInv, NEW r \in {task[o].rider : o \in Parcels} \ {Nobody}
               PROVE  /\ RiderFee * Cardinality(InStatus(r, {"delivered"})) =
                            SumOf([d \in 1..date |-> RiderFee * Cardinality(DeliveredOn(r, d))])
                      /\ \A d \in 1..date : DayAgrees(r, d) /\ SharesAgree(DeliveredOn(r, d))
    BY DEF RiderScreensAgree
  <2>1. ASSUME NEW d \in 1..date PROVE SharesAgree(DeliveredOn(r, d))
    <3>1. DeliveredOn(r, d) \in SUBSET Parcels /\ \A o \in DeliveredOn(r, d) : Kept(o) # {}
      BY DEF DeliveredOn, InStatus, TasksOf, RiderInv, TaskOK
    <3> QED
      BY <3>1, SharesAreRight
  <2> QED
    BY <2>1, DaysAddUp, DayIsRight
<1> QED
  BY <1>1, InitRiderInv, RiderStep, PTL DEF RiderSpec

-----------------------------------------------------------------------------
(* Zones.                                                                  *)

\* On the map, a vertical side to the right of a point counts, one to the left
\* or through it does not.
LEMMA LeftOfVertical ==
    ASSUME NEW x \in Int, NEW y \in Int, NEW c \in Int, NEW from \in Int, NEW to \in Int, from # to
    PROVE  LeftOf(x, y, <<c, from>>, <<c, to>>) <=> x < c
<1>1. LeftOf(x, y, <<c, from>>, <<c, to>>) <=>
         IF to > from THEN (x - c) * (to - from) < 0 ELSE (x - c) * (to - from) > 0
  <2>1. (c - c) * (y - from) = 0
    OBVIOUS
  <2> QED
    BY <2>1 DEF LeftOf
<1>2. \A a, b \in Int : b > 0 => (a * b < 0 <=> a < 0)
  OBVIOUS
<1>3. \A a, b \in Int : b < 0 => (a * b > 0 <=> a < 0)
  OBVIOUS
<1>4. x - c \in Int /\ to - from \in Int /\ (x - c < 0 <=> x < c)
  OBVIOUS
<1>5. CASE to > from
  <2>1. to - from > 0
    BY <1>5
  <2>2. (x - c) * (to - from) < 0 <=> x - c < 0
    BY <1>2, <1>4, <2>1
  <2> QED
    BY <1>1, <1>4, <1>5, <2>2
<1>6. CASE ~(to > from)
  <2>1. to - from < 0
    BY <1>6
  <2>2. (x - c) * (to - from) > 0 <=> x - c < 0
    BY <1>3, <1>4, <2>1
  <2> QED
    BY <1>1, <1>4, <1>6, <2>2
<1> QED
  BY <1>5, <1>6

\* Of the four sides only the two vertical ones can be crossed.
LEMMA RectangleIsHalfOpen ==
    ASSUME NEW lo \in Int \X Int, NEW hi \in Int \X Int, lo[1] < hi[1], lo[2] < hi[2],
           NEW p \in Int \X Int
    PROVE  PointInRing(p, Corners(lo, hi)) <=>
              p[1] \in lo[1]..hi[1] - 1 /\ p[2] \in lo[2]..hi[2] - 1
<1> DEFINE ring == Corners(lo, hi)
           before(i) == IF i = 1 THEN Len(ring) ELSE i - 1
           hits == {i \in DOMAIN ring :
                          /\ Straddles(p[2], ring[i][2], ring[before(i)][2])
                          /\ LeftOf(p[1], p[2], ring[i], ring[before(i)])}
           tall == p[2] \in lo[2]..hi[2] - 1
<1>1. /\ DOMAIN ring = 1..4 /\ Len(ring) = 4
      /\ ring[1] = lo /\ ring[2] = <<hi[1], lo[2]>> /\ ring[3] = hi /\ ring[4] = <<lo[1], hi[2]>>
  BY DEF Corners
<1>2. /\ lo = <<lo[1], lo[2]>> /\ hi = <<hi[1], hi[2]>>
      /\ lo[1] \in Int /\ lo[2] \in Int /\ hi[1] \in Int /\ hi[2] \in Int
      /\ p[1] \in Int /\ p[2] \in Int
  OBVIOUS
<1>3. before(1) = 4 /\ before(2) = 1 /\ before(3) = 2 /\ before(4) = 3
  BY <1>1
<1> HIDE DEF ring, before
<1>4. 1 \in hits <=> tall /\ p[1] < lo[1]
  <2>1. LeftOf(p[1], p[2], <<lo[1], lo[2]>>, <<lo[1], hi[2]>>) <=> p[1] < lo[1]
    BY <1>2, LeftOfVertical
  <2>2. LeftOf(p[1], p[2], ring[1], ring[before(1)]) <=> p[1] < lo[1]
    BY <1>1, <1>2, <1>3, <2>1
  <2>3. Straddles(p[2], ring[1][2], ring[before(1)][2]) <=> tall
    BY <1>1, <1>2, <1>3 DEF Straddles
  <2> QED
    BY <1>1, <2>2, <2>3
<1>5. 3 \in hits <=> tall /\ p[1] < hi[1]
  <2>1. LeftOf(p[1], p[2], <<hi[1], hi[2]>>, <<hi[1], lo[2]>>) <=> p[1] < hi[1]
    BY <1>2, LeftOfVertical
  <2>2. LeftOf(p[1], p[2], ring[3], ring[before(3)]) <=> p[1] < hi[1]
    BY <1>1, <1>2, <1>3, <2>1
  <2>3. Straddles(p[2], ring[3][2], ring[before(3)][2]) <=> tall
    BY <1>1, <1>2, <1>3 DEF Straddles
  <2> QED
    BY <1>1, <2>2, <2>3
<1>6. 2 \notin hits /\ 4 \notin hits
  BY <1>1, <1>2, <1>3 DEF Straddles
<1>7. hits \subseteq 1..4
  BY <1>1
<1>8. \A i \in hits : i = 1 \/ i = 2 \/ i = 3 \/ i = 4
  BY <1>7
<1>9. PointInRing(p, ring) <=> Cardinality(hits) % 2 = 1
  BY DEF PointInRing, before
<1> HIDE DEF hits
<1>10. CASE ~tall
  <2>1. hits = {}
    BY <1>4, <1>5, <1>6, <1>7, <1>10
  <2>2. Cardinality(hits) = 0
    BY <2>1, FS_EmptySet
  <2> QED
    BY <1>9, <1>10, <2>2 DEF ring
<1>11. CASE tall /\ p[1] < lo[1]
  <2>0. p[1] < hi[1]
    BY <1>2, <1>11
  <2>1. hits = {1, 3}
    BY <1>4, <1>5, <1>6, <1>8, <1>11, <2>0
  <2>2. Cardinality({1, 3}) = 2
    <3>1. IsFiniteSet({1}) /\ Cardinality({1}) = 1
      BY FS_Singleton
    <3>2. Cardinality({1} \cup {3}) = Cardinality({1}) + 1
      BY <3>1, FS_AddElement, 3 \notin {1}
    <3>3. {1, 3} = {1} \cup {3}
      OBVIOUS
    <3> QED
      BY <3>1, <3>2, <3>3
  <2>3. ~PointInRing(p, ring)
    BY <1>9, <2>1, <2>2
  <2> QED
    BY <1>2, <1>11, <2>3 DEF ring
<1>12. CASE tall /\ lo[1] <= p[1] /\ p[1] < hi[1]
  <2>0. ~(p[1] < lo[1])
    BY <1>2, <1>12
  <2>1. hits = {3}
    BY <1>4, <1>5, <1>6, <1>8, <1>12, <2>0
  <2>2. Cardinality(hits) = 1
    BY <2>1, FS_Singleton
  <2>3. PointInRing(p, ring)
    BY <1>9, <2>2
  <2> QED
    BY <1>2, <1>12, <2>3 DEF ring
<1>13. CASE tall /\ hi[1] <= p[1]
  <2>1. hits = {}
    BY <1>2, <1>4, <1>5, <1>6, <1>7, <1>13
  <2>2. Cardinality(hits) = 0
    BY <2>1, FS_EmptySet
  <2>3. ~PointInRing(p, ring)
    BY <1>9, <2>2
  <2> QED
    BY <1>2, <1>13, <2>3 DEF ring
<1> QED
  BY <1>2, <1>10, <1>11, <1>12, <1>13

LEMMA RectanglesAreRight == RectanglesHalfOpen
<1> SUFFICES ASSUME NEW z \in zoneOn \cap DOMAIN Rectangle, NEW p \in Grid
             PROVE  PointInPolygon(p, Polygon[z]) <=>
                       /\ p[1] \in Rectangle[z][1][1]..Rectangle[z][2][1] - 1
                       /\ p[2] \in Rectangle[z][1][2]..Rectangle[z][2][2] - 1
  BY DEF RectanglesHalfOpen
<1> DEFINE lo == Rectangle[z][1]
           hi == Rectangle[z][2]
<1>1. /\ lo \in Int \X Int /\ hi \in Int \X Int
      /\ lo[1] < hi[1] /\ lo[2] < hi[2]
      /\ Polygon[z] = <<Corners(lo, hi)>>
  BY ZonesAssumption
<1> HIDE DEF lo, hi
<1>2. p \in Int \X Int
  BY ZonesAssumption
<1>3. PointInPolygon(p, Polygon[z]) <=> PointInRing(p, Corners(lo, hi))
  BY <1>1 DEF PointInPolygon
<1>4. PointInRing(p, Corners(lo, hi)) <=> p[1] \in lo[1]..hi[1] - 1 /\ p[2] \in lo[2]..hi[2] - 1
  BY <1>1, <1>2, RectangleIsHalfOpen
<1> QED
  BY <1>3, <1>4 DEF lo, hi

\* Of finitely many integers one is the largest.
LEMMA LargestValue ==
    ASSUME NEW A, IsFiniteSet(A), A # {}, NEW f \in [A -> Int]
    PROVE  \E x \in A : \A y \in A : f[y] <= f[x]
<1> DEFINE P == {s \in SUBSET A : s # {} => \E x \in s : \A y \in s : f[y] <= f[x]}
<1>1. {} \in P
  OBVIOUS
<1>2. ASSUME NEW s \in SUBSET A, NEW x \in s, s \ {x} \in P PROVE s \in P
  <2>1. CASE s \ {x} = {}
    <3>1. \A y \in s : f[y] <= f[x]
      BY <2>1
    <3> QED
      BY <3>1
  <2>2. CASE s \ {x} # {}
    <3>1. PICK w \in s \ {x} : \A y \in s \ {x} : f[y] <= f[w]
      BY <1>2, <2>2
    <3>2. f[w] \in Int /\ f[x] \in Int
      OBVIOUS
    <3>3. CASE f[x] <= f[w]
      BY <3>1, <3>3
    <3>4. CASE ~(f[x] <= f[w])
      <4>1. \A y \in s : f[y] <= f[x]
        BY <3>1, <3>2, <3>4
      <4> QED
        BY <4>1
    <3> QED
      BY <3>3, <3>4
  <2> QED
    BY <2>1, <2>2
<1> HIDE DEF P
<1>3. A \in P
  BY <1>1, <1>2, PartByPart
<1> QED
  BY <1>3 DEF P

ZonesInv == zoneOn \subseteq Zones

LEMMA BestIsReported == ASSUME ZonesInv PROVE BestZoneReported
<1> SUFFICES ASSUME NEW p \in Grid, ZonesAt(p) # {}
             PROVE  /\ ZoneForPoint(p) \in ZonesAt(p)
                    /\ \A z \in ZonesAt(p) : Priority[z] <= Priority[ZoneForPoint(p)]
                    /\ \A pin \in Pincodes : Check(pin, p, zoneOn, areaOn)
  BY DEF BestZoneReported
<1> DEFINE A == ZonesAt(p)
           f == [z \in A |-> Priority[z]]
<1>1. A \subseteq Zones /\ A \subseteq Nat /\ IsFiniteSet(A) /\ f \in [A -> Int]
  <2>1. A \subseteq Zones
    BY DEF ZonesAt, ZonesInv
  <2> HIDE DEF A
  <2> QED
    BY <2>1, ZonesAssumption, FS_Subset
<1> HIDE DEF A
<1>2. PICK x \in A : \A y \in A : f[y] <= f[x]
  <2> HIDE DEF f
  <2> QED
    BY <1>1, LargestValue DEF A
<1> DEFINE B == {z \in A : f[z] = f[x]}
<1>3. PICK w \in B : \A z \in B : ~(z < w)
  <2>1. B \subseteq Nat /\ B # {}
    BY <1>1, <1>2
  <2> HIDE DEF B
  <2> QED
    BY <2>1, LeastNatural
<1>4. \A y \in A \ {w} : Priority[w] > Priority[y] \/ (Priority[w] = Priority[y] /\ w < y)
  <2> TAKE y \in A \ {w}
  <2>1. f[y] <= f[x] /\ f[w] = f[x] /\ f[y] \in Int /\ f[x] \in Int /\ y \in Nat /\ w \in Nat
    BY <1>1, <1>2, <1>3
  <2>2. f[y] = Priority[y] /\ f[w] = Priority[w]
    OBVIOUS
  <2>3. CASE f[y] = f[x]
    BY <1>3, <2>1, <2>2, <2>3
  <2>4. CASE f[y] # f[x]
    BY <2>1, <2>2, <2>4
  <2> QED
    BY <2>3, <2>4
<1>5. /\ ZoneForPoint(p) \in A
      /\ \A y \in A \ {ZoneForPoint(p)} :
            \/ Priority[ZoneForPoint(p)] > Priority[y]
            \/ Priority[ZoneForPoint(p)] = Priority[y] /\ ZoneForPoint(p) < y
  BY <1>3, <1>4 DEF ZoneForPoint, A
<1>6. \A z \in A : Priority[z] <= Priority[ZoneForPoint(p)]
  <2> DEFINE best == ZoneForPoint(p)
  <2>1. \A z \in A : Priority[z] \in Int
    BY <1>1, ZonesAssumption
  <2>2. best \in A /\ \A y \in A \ {best} : Priority[best] > Priority[y] \/ Priority[best] = Priority[y]
    BY <1>5
  <2> HIDE DEF best
  <2> QED
    BY <2>1, <2>2 DEF best
<1>7. \A pin \in Pincodes : Check(pin, p, zoneOn, areaOn)
  BY DEF Check, ZonesAt
<1> QED
  BY <1>5, <1>6, <1>7 DEF A

LEMMA ServiceGrows == ServiceOnlyGrows
<1> SUFFICES ASSUME zoneOn # {} \/ areaOn # {}, NEW p \in Grid \cup {NoPoint}, NEW pin \in Pincodes,
                    Check(pin, p, zoneOn, areaOn)
             PROVE  /\ \A z \in Zones \ zoneOn : Check(pin, p, zoneOn \cup {z}, areaOn)
                    /\ \A a \in Areas \ areaOn : Check(pin, p, zoneOn, areaOn \cup {a})
  BY DEF ServiceOnlyGrows
<1>1. \/ \E z \in zoneOn : p \in Inside[z]
      \/ pin \in areaOn /\ (Circle[pin] = NoFence \/ p = NoPoint \/ p \in Circle[pin])
  BY DEF Check
<1>2. ASSUME NEW zones, NEW areas, zoneOn \subseteq zones, areaOn \subseteq areas
      PROVE  Check(pin, p, zones, areas)
  BY <1>1, <1>2 DEF Check
<1> QED
  BY <1>2

(* ZonesAgree, for any zones, priorities, areas, fences, points and        *)
(* rectangles.                                                             *)
THEOREM ZonesAreRight == ZonesSpec => []ZonesAgree
<1>1. ZonesInit => ZonesInv
  BY DEF ZonesInit, ZonesInv
<1>2. ZonesInv /\ [ZonesNext]_zonesVars => ZonesInv'
  BY DEF ZonesInv, ZonesNext, SwitchZone, SwitchArea, JoinWaitlist, zonesVars
<1>3. ZonesInv => ZonesAgree
  BY RectanglesAreRight, BestIsReported, ServiceGrows DEF ZonesAgree
<1> QED
  BY <1>1, <1>2, <1>3, PTL DEF ZonesSpec

-----------------------------------------------------------------------------
(***************************************************************************)
(* Borders.  A ray crosses an edge in whichever direction it is drawn, so  *)
(* the edges of a border are crossed as often for one half as for the      *)
(* other, and every other edge of the whole zone belongs to one half: a    *)
(* point is in the whole when it is in exactly one of the halves.  It is   *)
(* not in both: beside the border's line no edge of the half on the left   *)
(* is to its right, and a ray that starts left of the line crosses the     *)
(* half on the right as often upwards as downwards.                        *)
(***************************************************************************)
Point == Int \X Int

Crosses(p, a, b) == Straddles(p[2], a[2], b[2]) /\ LeftOf(p[1], p[2], a, b)

Before(ring, k) == IF k = 1 THEN Len(ring) ELSE k - 1

Crossed(p, ring) == {k \in DOMAIN ring : Crosses(p, ring[k], ring[Before(ring, k)])}

LEMMA RingByParity ==
    ASSUME NEW p, NEW ring PROVE PointInRing(p, ring) <=> Cardinality(Crossed(p, ring)) % 2 = 1
  BY DEF PointInRing, Crossed, Crosses, Before

LEMMA CrossesEitherWay ==
    ASSUME NEW p \in Point, NEW a \in Point, NEW b \in Point
    PROVE  Crosses(p, a, b) <=> Crosses(p, b, a)
<1>1. /\ p[1] \in Int /\ p[2] \in Int /\ a[1] \in Int /\ a[2] \in Int /\ b[1] \in Int /\ b[2] \in Int
  BY DEF Point
<1>2. ASSUME NEW x \in Int, NEW y \in Int, NEW a1 \in Int, NEW a2 \in Int, NEW b1 \in Int, NEW b2 \in Int
      PROVE  (x - b1) * (a2 - b2) - (a1 - b1) * (y - b2) = (b1 - a1) * (y - a2) - (x - a1) * (b2 - a2)
  OBVIOUS
<1>3. /\ (p[1] - b[1]) * (a[2] - b[2]) - (a[1] - b[1]) * (p[2] - b[2]) =
             (b[1] - a[1]) * (p[2] - a[2]) - (p[1] - a[1]) * (b[2] - a[2])
  BY <1>1, <1>2
<1> QED
  BY <1>1, <1>3 DEF Crosses, Straddles, LeftOf

\* A set and its image under a one-to-one map have the same size.
LEMMA SameSize ==
    ASSUME NEW S, NEW T, IsFiniteSet(S), NEW f \in [S -> T],
           \A s, t \in S : f[s] = f[t] => s = t, \A t \in T : \E s \in S : f[s] = t
    PROVE  IsFiniteSet(T) /\ Cardinality(T) = Cardinality(S)
<1>1. f \in Bijection(S, T)
  BY DEF Bijection, Injection, Surjection, IsInjective
<1> QED
  BY <1>1, FS_Bijection DEF ExistsBijection

LEMMA TwoParts ==
    ASSUME NEW S, NEW T, IsFiniteSet(S), IsFiniteSet(T), S \cap T = {}
    PROVE  IsFiniteSet(S \cup T) /\ Cardinality(S \cup T) = Cardinality(S) + Cardinality(T)
<1>1. IsFiniteSet(S \cup T) /\ Cardinality(S \cup T) = Cardinality(S) + Cardinality(T) - Cardinality(S \cap T)
  BY FS_Union
<1>2. Cardinality(S \cap T) = 0 /\ Cardinality(S) \in Nat /\ Cardinality(T) \in Nat
  BY FS_EmptySet, FS_CardinalityType
<1> QED
  BY <1>1, <1>2

-----------------------------------------------------------------------------
\* The line l[1] x + l[2] y + l[3] = 0.
Line == Int \X Int \X Int

At(l, q) == l[1] * q[1] + l[2] * q[2] + l[3]

\* How far right of p the edge from a up to b passes.
LEMMA EdgeFromLine ==
    ASSUME NEW l \in Line, NEW p \in Point, NEW a \in Point, NEW b \in Point
    PROVE  l[1] * ((b[1] - a[1]) * (p[2] - a[2]) - (p[1] - a[1]) * (b[2] - a[2])) =
              At(l, a) * (b[2] - p[2]) + At(l, b) * (p[2] - a[2]) - At(l, p) * (b[2] - a[2])
<1>1. /\ p[1] \in Int /\ p[2] \in Int /\ a[1] \in Int /\ a[2] \in Int /\ b[1] \in Int /\ b[2] \in Int
      /\ l[1] \in Int /\ l[2] \in Int /\ l[3] \in Int
  BY DEF Point, Line
<1>2. ASSUME NEW x \in Int, NEW y \in Int, NEW a1 \in Int, NEW a2 \in Int, NEW b1 \in Int, NEW b2 \in Int,
             NEW l1 \in Int, NEW l2 \in Int, NEW l3 \in Int
      PROVE  l1 * ((b1 - a1) * (y - a2) - (x - a1) * (b2 - a2)) =
                (l1 * a1 + l2 * a2 + l3) * (b2 - y) + (l1 * b1 + l2 * b2 + l3) * (y - a2)
                  - (l1 * x + l2 * y + l3) * (b2 - a2)
  OBVIOUS
<1> QED
  BY <1>1, <1>2 DEF At

LEMMA Signs ==
    /\ \A m, n \in Int : m <= 0 /\ n >= 0 => m * n <= 0
    /\ \A m, n \in Int : m >= 0 /\ n >= 0 => m * n >= 0
    /\ \A m, n \in Int : m < 0 /\ n > 0 => m * n < 0
    /\ \A m, n \in Int : m > 0 /\ n > 0 => m * n > 0
    /\ \A m, n \in Int : m * n \in Int
<1>1. \A m, n \in Int : m >= 0 /\ n >= 0 => m * n >= 0
  OBVIOUS
<1>2. \A m, n \in Int : m > 0 /\ n > 0 => m * n > 0
  OBVIOUS
<1>3. \A m, n \in Int : m <= 0 /\ n >= 0 => m * n <= 0
  OBVIOUS
<1>4. \A m, n \in Int : m < 0 /\ n > 0 => m * n < 0
  OBVIOUS
<1> QED
  BY <1>1, <1>2, <1>3, <1>4

\* Upwards or downwards, an edge on one side of the line is crossed by the rays
\* that start on the other, or by none.
LEMMA EdgeBesideLine ==
    ASSUME NEW l \in Line, l[1] > 0, NEW p \in Point, NEW a \in Point, NEW b \in Point,
           Straddles(p[2], a[2], b[2])
    PROVE  /\ At(l, a) <= 0 /\ At(l, b) <= 0 /\ At(l, p) >= 0 => ~Crosses(p, a, b)
           /\ At(l, a) >= 0 /\ At(l, b) >= 0 /\ At(l, p) < 0 => Crosses(p, a, b)
<1>1. /\ p[1] \in Int /\ p[2] \in Int /\ a[1] \in Int /\ a[2] \in Int /\ b[1] \in Int /\ b[2] \in Int
      /\ l[1] \in Int /\ l[2] \in Int /\ l[3] \in Int
  BY DEF Point, Line
<1>2. At(l, a) \in Int /\ At(l, b) \in Int /\ At(l, p) \in Int
  BY <1>1, Signs DEF At
<1>3. ASSUME NEW c \in Point, NEW d \in Point, c[2] <= p[2], p[2] < d[2]
      PROVE  /\ At(l, c) <= 0 /\ At(l, d) <= 0 /\ At(l, p) >= 0 => ~Crosses(p, c, d)
             /\ At(l, c) >= 0 /\ At(l, d) >= 0 /\ At(l, p) < 0 => Crosses(p, c, d)
  <2> DEFINE gap == (d[1] - c[1]) * (p[2] - c[2]) - (p[1] - c[1]) * (d[2] - c[2])
             fromC == At(l, c) * (d[2] - p[2])
             fromD == At(l, d) * (p[2] - c[2])
             fromP == At(l, p) * (d[2] - c[2])
  <2>1. /\ c[1] \in Int /\ c[2] \in Int /\ d[1] \in Int /\ d[2] \in Int
    BY DEF Point
  <2>2. At(l, c) \in Int /\ At(l, d) \in Int
    BY <1>1, <2>1, Signs DEF At
  <2>3. l[1] * gap = fromC + fromD - fromP
    BY EdgeFromLine
  <2>4. gap \in Int /\ fromC \in Int /\ fromD \in Int /\ fromP \in Int
    BY <1>1, <1>2, <2>1, <2>2, Signs
  <2>5. Crosses(p, c, d) <=> gap > 0
    BY <1>1, <1>3, <2>1, Signs DEF Crosses, Straddles, LeftOf
  <2>6. d[2] - p[2] > 0 /\ p[2] - c[2] >= 0 /\ d[2] - c[2] > 0
    BY <1>1, <1>3, <2>1
  <2>7. /\ d[2] - p[2] \in Int /\ p[2] - c[2] \in Int /\ d[2] - c[2] \in Int
    BY <1>1, <2>1
  <2>8. ASSUME At(l, c) <= 0, At(l, d) <= 0, At(l, p) >= 0 PROVE ~(gap > 0)
    <3>1. fromC <= 0 /\ fromD <= 0 /\ fromP >= 0
      BY <1>2, <2>2, <2>6, <2>7, <2>8, Signs
    <3> HIDE DEF gap, fromC, fromD, fromP
    <3>2. gap > 0 => l[1] * gap > 0
      BY <1>1, <2>4, Signs
    <3> QED
      BY <2>3, <2>4, <3>1, <3>2
  <2>9. ASSUME At(l, c) >= 0, At(l, d) >= 0, At(l, p) < 0 PROVE gap > 0
    <3>1. fromC >= 0 /\ fromD >= 0 /\ fromP < 0
      BY <1>2, <2>2, <2>6, <2>7, <2>9, Signs
    <3> HIDE DEF gap, fromC, fromD, fromP
    <3>2. gap <= 0 => gap * l[1] <= 0 /\ l[1] * gap = gap * l[1]
      BY <1>1, <2>4, Signs
    <3> QED
      BY <2>3, <2>4, <3>1, <3>2
  <2> QED
    BY <2>5, <2>8, <2>9
<1>4. CASE a[2] <= p[2] /\ p[2] < b[2]
  BY <1>3, <1>4
<1>5. CASE b[2] <= p[2] /\ p[2] < a[2]
  BY <1>3, <1>5, CrossesEitherWay
<1> QED
  BY <1>1, <1>4, <1>5 DEF Straddles

\* Round a ring, as many edges go up over the ray's level as go down.
LEMMA StraddlesEven ==
    ASSUME NEW y \in Int, NEW ring \in Seq(Point)
    PROVE  Cardinality({k \in DOMAIN ring : Straddles(y, ring[k][2], ring[Before(ring, k)][2])}) % 2 = 0
<1> DEFINE I == 1..Len(ring)
           above == {k \in I : ring[k][2] > y}
           follows == {k \in I : ring[Before(ring, k)][2] > y}
           both == above \cap follows
           up == above \ follows
           down == follows \ above
           hits == {k \in DOMAIN ring : Straddles(y, ring[k][2], ring[Before(ring, k)][2])}
           next(k) == IF k = Len(ring) THEN 1 ELSE k + 1
<1>1. DOMAIN ring = I /\ Len(ring) \in Nat /\ \A k \in I : ring[k][2] \in Int
  BY DEF Point
<1>2. \A k \in I : next(k) \in I /\ Before(ring, k) \in I /\ Before(ring, next(k)) = k
                   /\ next(Before(ring, k)) = k
  <2> TAKE k \in I
  <2>1. Len(ring) \in Int /\ k \in Int /\ 1 <= k /\ k <= Len(ring)
    BY <1>1
  <2>2. next(k) \in I
    BY <2>1
  <2>3. Before(ring, k) \in I
    BY <2>1 DEF Before
  <2>4. Before(ring, next(k)) = k
    BY <2>1 DEF Before
  <2>5. next(Before(ring, k)) = k
    BY <2>1 DEF Before
  <2> QED
    BY <2>2, <2>3, <2>4, <2>5
<1>3. IsFiniteSet(I)
  BY <1>1, FS_Interval
<1>4. IsFiniteSet(above) /\ IsFiniteSet(follows) /\ IsFiniteSet(both) /\ IsFiniteSet(up) /\ IsFiniteSet(down)
  <2>1. /\ above \in SUBSET I /\ follows \in SUBSET I /\ both \in SUBSET I
        /\ up \in SUBSET I /\ down \in SUBSET I
    OBVIOUS
  <2> HIDE DEF I, above, follows, both, up, down
  <2> QED
    BY <1>3, <2>1, FS_Subset
<1>5. Cardinality(follows) = Cardinality(above)
  <2> DEFINE f == [k \in above |-> next(k)]
  <2>1. \A k \in above : next(k) \in follows
    BY <1>2
  <2>2. f \in [above -> follows]
    BY <2>1
  <2>3. \A s, t \in above : f[s] = f[t] => s = t
    BY <1>2
  <2>4. ASSUME NEW t \in follows PROVE \E s \in above : f[s] = t
    <3>1. Before(ring, t) \in above
      BY <1>2
    <3> QED
      BY <1>2, <3>1
  <2> HIDE DEF f, above, follows
  <2> QED
    BY <1>4, <2>2, <2>3, <2>4, SameSize
<1>6. hits = up \cup down
  <2>1. ASSUME NEW k \in I
        PROVE  Straddles(y, ring[k][2], ring[Before(ring, k)][2]) <=> k \in up \/ k \in down
    <3>1. /\ k \in above <=> ring[k][2] > y
          /\ k \in follows <=> ring[Before(ring, k)][2] > y
      BY <2>1
    <3>2. k \in up \/ k \in down <=> ~(k \in above <=> k \in follows)
      BY <2>1
    <3> HIDE DEF I, above, follows, both, up, down, hits
    <3>3. Straddles(y, ring[k][2], ring[Before(ring, k)][2])
             <=> ~(ring[k][2] > y <=> ring[Before(ring, k)][2] > y)
      BY SMT DEF Straddles
    <3> QED
      BY <3>1, <3>2, <3>3
  <2>2. up \subseteq I /\ down \subseteq I
    OBVIOUS
  <2>3. hits \subseteq I /\ \A k \in I : k \in hits <=> Straddles(y, ring[k][2], ring[Before(ring, k)][2])
    BY <1>1
  <2> HIDE DEF I, above, follows, both, up, down, hits
  <2> QED
    BY <2>1, <2>2, <2>3
<1>7. /\ above = up \cup both /\ up \cap both = {} /\ follows = down \cup both /\ down \cap both = {}
      /\ up \cap down = {}
  OBVIOUS
<1> HIDE DEF I, above, follows, both, up, down, hits
<1>8. /\ Cardinality(above) = Cardinality(up) + Cardinality(both)
      /\ Cardinality(follows) = Cardinality(down) + Cardinality(both)
      /\ Cardinality(hits) = Cardinality(up) + Cardinality(down)
      /\ Cardinality(up) \in Nat /\ Cardinality(down) \in Nat /\ Cardinality(both) \in Nat
  <2>1. Cardinality(above) = Cardinality(up) + Cardinality(both)
    BY <1>4, <1>7, TwoParts
  <2>2. Cardinality(follows) = Cardinality(down) + Cardinality(both)
    BY <1>4, <1>7, TwoParts
  <2>3. Cardinality(hits) = Cardinality(up) + Cardinality(down)
    BY <1>4, <1>6, <1>7, TwoParts
  <2>4. Cardinality(up) \in Nat /\ Cardinality(down) \in Nat /\ Cardinality(both) \in Nat
    BY <1>4, FS_CardinalityType
  <2> QED
    BY <2>1, <2>2, <2>3, <2>4
<1>9. Cardinality(hits) = 2 * Cardinality(up)
  BY <1>5, <1>8
<1>10. \A m \in Nat : (2 * m) % 2 = 0
  OBVIOUS
<1> QED
  BY <1>8, <1>9, <1>10 DEF hits

\* Two rings on either side of a line share no point.
LEMMA LineSeparates ==
    ASSUME NEW l \in Line, l[1] > 0, NEW left \in Seq(Point), NEW right \in Seq(Point), NEW p \in Point,
           \A k \in DOMAIN left : At(l, left[k]) <= 0, \A k \in DOMAIN right : At(l, right[k]) >= 0
    PROVE  ~(PointInRing(p, left) /\ PointInRing(p, right))
<1>1. ASSUME NEW ring \in Seq(Point), NEW k \in DOMAIN ring
      PROVE  Before(ring, k) \in DOMAIN ring /\ ring[k] \in Point /\ ring[Before(ring, k)] \in Point
  <2>1. DOMAIN ring = 1..Len(ring) /\ Len(ring) \in Nat
    OBVIOUS
  <2>2. Before(ring, k) \in DOMAIN ring
    BY <2>1 DEF Before
  <2> QED
    BY <2>2
<1>2. CASE At(l, p) >= 0
  <2>1. ASSUME NEW k \in DOMAIN left PROVE ~Crosses(p, left[k], left[Before(left, k)])
    BY <1>1, <1>2, EdgeBesideLine DEF Crosses
  <2>2. Crossed(p, left) = {}
    BY <2>1 DEF Crossed
  <2>3. Cardinality(Crossed(p, left)) = 0
    BY <2>2, FS_EmptySet
  <2> QED
    BY <2>3, RingByParity
<1>3. CASE At(l, p) < 0
  <2>1. Crossed(p, right) = {k \in DOMAIN right : Straddles(p[2], right[k][2], right[Before(right, k)][2])}
    <3>1. ASSUME NEW k \in DOMAIN right
          PROVE  Crosses(p, right[k], right[Before(right, k)])
                    <=> Straddles(p[2], right[k][2], right[Before(right, k)][2])
      BY <1>1, <1>3, EdgeBesideLine DEF Crosses
    <3> QED
      BY <3>1 DEF Crossed
  <2>2. Cardinality(Crossed(p, right)) % 2 = 0
    BY <2>1, StraddlesEven DEF Point
  <2> QED
    BY <2>2, RingByParity
<1>4. At(l, p) \in Int
  BY Signs DEF At, Line, Point
<1> QED
  BY <1>2, <1>3, <1>4

\* A level line does as well.
LEMMA LevelSeparates ==
    ASSUME NEW c \in Int, NEW low \in Seq(Point), NEW high \in Seq(Point), NEW p \in Point,
           \A k \in DOMAIN low : low[k][2] <= c, \A k \in DOMAIN high : high[k][2] >= c
    PROVE  ~(PointInRing(p, low) /\ PointInRing(p, high))
<1>1. ASSUME NEW ring \in Seq(Point), NEW k \in DOMAIN ring
      PROVE  Before(ring, k) \in DOMAIN ring /\ ring[k][2] \in Int
  <2>1. DOMAIN ring = 1..Len(ring) /\ Len(ring) \in Nat
    OBVIOUS
  <2> QED
    BY <2>1 DEF Before, Point
<1>2. p[2] \in Int
  BY DEF Point
<1>3. ASSUME NEW ring \in Seq(Point), \A k \in DOMAIN ring : ~Straddles(p[2], ring[k][2], ring[Before(ring, k)][2])
      PROVE  ~PointInRing(p, ring)
  <2>1. Crossed(p, ring) = {}
    BY <1>3 DEF Crossed, Crosses
  <2>2. Cardinality(Crossed(p, ring)) = 0
    BY <2>1, FS_EmptySet
  <2> QED
    BY <2>2, RingByParity
<1>4. CASE p[2] >= c
  <2>1. \A k \in DOMAIN low : ~(low[k][2] > p[2])
    BY <1>1, <1>2, <1>4
  <2>2. \A k \in DOMAIN low : ~Straddles(p[2], low[k][2], low[Before(low, k)][2])
    BY <1>1, <2>1 DEF Straddles
  <2> QED
    BY <1>3, <2>2
<1>5. CASE p[2] < c
  <2>1. \A k \in DOMAIN high : high[k][2] > p[2]
    BY <1>1, <1>2, <1>5
  <2>2. \A k \in DOMAIN high : ~Straddles(p[2], high[k][2], high[Before(high, k)][2])
    BY <1>1, <2>1 DEF Straddles
  <2> QED
    BY <1>3, <2>2
<1> QED
  BY <1>2, <1>4, <1>5

-----------------------------------------------------------------------------
\* The corners of the halves.  The border goes from the i-th corner of the whole
\* to the j-th; its own corners are along.
Border(whole, along, i, j) ==
    [t \in 0..Len(along) + 1 |->
        IF t = 0 THEN whole[i] ELSE IF t = Len(along) + 1 THEN whole[j] ELSE along[t]]

OneHalf(whole, along, i, j) == SubSeq(whole, 1, i) \o along \o SubSeq(whole, j, Len(whole))
OtherHalf(whole, along, i, j) == SubSeq(whole, i, j) \o Reverse(along)

LEMMA Joined ==
    ASSUME NEW s \in Seq(Point), NEW t \in Seq(Point)
    PROVE  /\ s \o t \in Seq(Point) /\ Len(s \o t) = Len(s) + Len(t)
           /\ \A k \in 1..Len(s) : (s \o t)[k] = s[k]
           /\ \A k \in 1..Len(t) : (s \o t)[Len(s) + k] = t[k]
<1>1. /\ s \o t \in Seq(Point) /\ Len(s \o t) = Len(s) + Len(t)
      /\ \A k \in 1..Len(s) + Len(t) : (s \o t)[k] = IF k <= Len(s) THEN s[k] ELSE t[k - Len(s)]
  BY ConcatProperties
<1>2. Len(s) \in Nat /\ Len(t) \in Nat
  OBVIOUS
<1>3. \A k \in 1..Len(t) : Len(s) + k \in 1..Len(s) + Len(t) /\ ~(Len(s) + k <= Len(s)) /\ (Len(s) + k) - Len(s) = k
  BY <1>2
<1>4. \A k \in 1..Len(s) : k \in 1..Len(s) + Len(t) /\ k <= Len(s)
  BY <1>2
<1> QED
  BY <1>1, <1>3, <1>4

LEMMA OneHalfCorners ==
    ASSUME NEW whole \in Seq(Point), NEW along \in Seq(Point),
           NEW i \in Int, NEW j \in Int, 1 <= i, i < j, j <= Len(whole)
    PROVE  LET one == OneHalf(whole, along, i, j)
               m == Len(along)
               n == Len(whole)
           IN  /\ one \in Seq(Point) /\ Len(one) = i + m + (n - j + 1)
               /\ \A k \in 1..i : one[k] = whole[k]
               /\ \A k \in 1..m : one[i + k] = along[k]
               /\ \A k \in j..n : one[k + (i + m + 1 - j)] = whole[k]
<1> DEFINE m == Len(along)
           n == Len(whole)
           low == SubSeq(whole, 1, i)
           high == SubSeq(whole, j, n)
           one == OneHalf(whole, along, i, j)
<1>1. /\ n \in Nat /\ m \in Nat /\ i \in 1..n /\ j \in 1..n /\ \A k \in 1..n : whole[k] \in Point
  OBVIOUS
<1>2. /\ low \in Seq(Point) /\ Len(low) = i
      /\ \A k \in 1..i : low[k] = whole[k]
  <2>1. \A k \in 1..i : whole[k] \in Point
    BY <1>1
  <2>2. /\ low \in Seq(Point) /\ Len(low) = IF 1 <= i THEN i - 1 + 1 ELSE 0
        /\ \A k \in 1..i - 1 + 1 : low[k] = whole[1 + k - 1]
    <3> HIDE DEF low
    <3> QED
      BY <1>1, <2>1, SubSeqProperties DEF low
  <2> QED
    BY <1>1, <2>2
<1>3. /\ high \in Seq(Point) /\ Len(high) = n - j + 1
      /\ \A k \in 1..n - j + 1 : high[k] = whole[j + k - 1]
  <2>1. \A k \in j..n : whole[k] \in Point
    BY <1>1
  <2>2. /\ high \in Seq(Point) /\ Len(high) = IF j <= n THEN n - j + 1 ELSE 0
        /\ \A k \in 1..n - j + 1 : high[k] = whole[j + k - 1]
    BY <1>1, <2>1, SubSeqProperties
  <2> QED
    BY <1>1, <2>2
<1> HIDE DEF low, high
<1> DEFINE start == low \o along
<1>4. /\ start \in Seq(Point) /\ Len(start) = i + m
      /\ \A k \in 1..i : start[k] = low[k]
      /\ \A k \in 1..m : start[i + k] = along[k]
  BY <1>1, <1>2, Joined
<1>5. one = start \o high
  BY DEF OneHalf, low, high
<1> HIDE DEF start, one, m, n
<1>6. i + m \in Nat /\ n - j + 1 \in Nat
  BY <1>1
<1>7. /\ one \in Seq(Point) /\ Len(one) = i + m + (n - j + 1)
      /\ \A k \in 1..i + m : one[k] = start[k]
      /\ \A k \in 1..n - j + 1 : one[i + m + k] = high[k]
  <2>1. /\ one \in Seq(Point) /\ Len(one) = Len(start) + Len(high)
        /\ \A k \in 1..Len(start) : one[k] = start[k]
        /\ \A k \in 1..Len(high) : one[Len(start) + k] = high[k]
    BY <1>3, <1>4, <1>5, Joined
  <2> QED
    BY <1>3, <1>4, <2>1
<1>8. \A k \in 1..i : one[k] = whole[k]
  <2>1. \A k \in 1..i : k \in 1..i + m
    BY <1>1
  <2> QED
    BY <1>2, <1>4, <1>7, <2>1
<1>9. \A k \in 1..m : one[i + k] = along[k]
  <2>1. \A k \in 1..m : i + k \in 1..i + m
    BY <1>1
  <2> QED
    BY <1>4, <1>7, <2>1
<1>10. \A k \in j..n : one[k + (i + m + 1 - j)] = whole[k]
  <2> TAKE k \in j..n
  <2>1. /\ k + (i + m + 1 - j) = i + m + (k - j + 1) /\ k - j + 1 \in 1..n - j + 1
        /\ j + (k - j + 1) - 1 = k
    <3>1. k \in Int /\ i \in Int /\ m \in Int /\ n \in Int /\ j \in Int /\ j <= k /\ k <= n
      BY <1>1
    <3>2. k + (i + m + 1 - j) = i + m + (k - j + 1)
      BY <3>1
    <3>3. k - j + 1 \in 1..n - j + 1
      BY <3>1
    <3>4. j + (k - j + 1) - 1 = k
      BY <3>1
    <3> QED
      BY <3>2, <3>3, <3>4
  <2>2. one[i + m + (k - j + 1)] = high[k - j + 1] /\ high[k - j + 1] = whole[j + (k - j + 1) - 1]
    BY <1>3, <1>7, <2>1
  <2> QED
    BY <2>1, <2>2
<1> QED
  BY <1>7, <1>8, <1>9, <1>10 DEF one, m, n

LEMMA OtherHalfCorners ==
    ASSUME NEW whole \in Seq(Point), NEW along \in Seq(Point),
           NEW i \in Int, NEW j \in Int, 1 <= i, i < j, j <= Len(whole)
    PROVE  LET other == OtherHalf(whole, along, i, j)
               m == Len(along)
           IN  /\ other \in Seq(Point) /\ Len(other) = j - i + 1 + m
               /\ \A k \in i..j : other[k - i + 1] = whole[k]
               /\ \A k \in 1..m : other[j - i + 1 + (m - k + 1)] = along[k]
<1> DEFINE m == Len(along)
           n == Len(whole)
           mid == SubSeq(whole, i, j)
           back == Reverse(along)
           other == OtherHalf(whole, along, i, j)
<1>1. /\ n \in Nat /\ m \in Nat /\ i \in 1..n /\ j \in 1..n /\ \A k \in 1..n : whole[k] \in Point
      /\ \A k \in 1..m : along[k] \in Point
  OBVIOUS
<1>2. /\ mid \in Seq(Point) /\ Len(mid) = j - i + 1
      /\ \A k \in 1..j - i + 1 : mid[k] = whole[i + k - 1]
  <2>1. \A k \in i..j : whole[k] \in Point
    BY <1>1
  <2>2. /\ mid \in Seq(Point) /\ Len(mid) = IF i <= j THEN j - i + 1 ELSE 0
        /\ \A k \in 1..j - i + 1 : mid[k] = whole[i + k - 1]
    BY <1>1, <2>1, SubSeqProperties
  <2> QED
    BY <1>1, <2>2
<1>3. back \in Seq(Point) /\ Len(back) = m /\ \A k \in 1..m : back[k] = along[m - k + 1]
  <2>1. back = [k \in 1..m |-> along[m - k + 1]]
    BY DEF Reverse
  <2> HIDE DEF m, back
  <2>2. \A k \in 1..m : m - k + 1 \in 1..m
    BY <1>1
  <2>3. back \in [1..m -> Point]
    BY <1>1, <2>1, <2>2
  <2>4. DOMAIN back = 1..m
    BY <2>1
  <2>5. back \in Seq(Point)
    BY <1>1, <2>3
  <2> QED
    BY <1>1, <2>1, <2>4, <2>5
<1> HIDE DEF mid, back
<1>4. other = mid \o back
  BY DEF OtherHalf, mid, back
<1> HIDE DEF other, m, n
<1>5. /\ other \in Seq(Point) /\ Len(other) = j - i + 1 + m
      /\ \A k \in 1..j - i + 1 : other[k] = mid[k]
      /\ \A k \in 1..m : other[j - i + 1 + k] = back[k]
  <2>1. /\ other \in Seq(Point) /\ Len(other) = Len(mid) + Len(back)
        /\ \A k \in 1..Len(mid) : other[k] = mid[k]
        /\ \A k \in 1..Len(back) : other[Len(mid) + k] = back[k]
    BY <1>2, <1>3, <1>4, Joined
  <2> QED
    BY <1>2, <1>3, <2>1
<1>6. \A k \in i..j : other[k - i + 1] = whole[k]
  <2> TAKE k \in i..j
  <2>1. k - i + 1 \in 1..j - i + 1 /\ i + (k - i + 1) - 1 = k
    BY <1>1
  <2> QED
    BY <1>2, <1>5, <2>1
<1>7. \A k \in 1..m : other[j - i + 1 + (m - k + 1)] = along[k]
  <2> TAKE k \in 1..m
  <2>1. m - k + 1 \in 1..m /\ m - (m - k + 1) + 1 = k
    BY <1>1
  <2>2. other[j - i + 1 + (m - k + 1)] = back[m - k + 1] /\ back[m - k + 1] = along[m - (m - k + 1) + 1]
    BY <1>3, <1>5, <2>1
  <2> QED
    BY <2>1, <2>2
<1> QED
  BY <1>5, <1>6, <1>7 DEF other, m

\* A shifted set is as large as the set.
LEMMA Shifted ==
    ASSUME NEW S \in SUBSET Int, IsFiniteSet(S), NEW c \in Int
    PROVE  IsFiniteSet({x + c : x \in S}) /\ Cardinality({x + c : x \in S}) = Cardinality(S)
<1> DEFINE T == {x + c : x \in S}
           f == [x \in S |-> x + c]
<1>1. f \in [S -> T]
  OBVIOUS
<1>2. \A s, t \in S : f[s] = f[t] => s = t
  OBVIOUS
<1>3. \A t \in T : \E s \in S : f[s] = t
  OBVIOUS
<1> HIDE DEF f, T
<1>4. IsFiniteSet(T) /\ Cardinality(T) = Cardinality(S)
  BY <1>1, <1>2, <1>3, SameSize
<1> QED
  BY <1>4 DEF T

\* So is a mirrored one.
LEMMA Mirrored ==
    ASSUME NEW S \in SUBSET Int, IsFiniteSet(S), NEW c \in Int
    PROVE  IsFiniteSet({c - x : x \in S}) /\ Cardinality({c - x : x \in S}) = Cardinality(S)
<1> DEFINE T == {c - x : x \in S}
           f == [x \in S |-> c - x]
<1>1. f \in [S -> T]
  OBVIOUS
<1>2. \A s, t \in S : f[s] = f[t] => s = t
  OBVIOUS
<1>3. \A t \in T : \E s \in S : f[s] = t
  OBVIOUS
<1> HIDE DEF f, T
<1>4. IsFiniteSet(T) /\ Cardinality(T) = Cardinality(S)
  BY <1>1, <1>2, <1>3, SameSize
<1> QED
  BY <1>4 DEF T

\* The edges of the halves: those of the whole, and those of the border.
LEMMA OneHalfEdges ==
    ASSUME NEW whole \in Seq(Point), NEW along \in Seq(Point),
           NEW i \in Int, NEW j \in Int, 1 <= i, i < j, j <= Len(whole)
    PROVE  LET one == OneHalf(whole, along, i, j)
               bd == Border(whole, along, i, j)
               m == Len(along)
               n == Len(whole)
               c == i + m + 1 - j
           IN  /\ \A k \in 1..i : one[k] = whole[k] /\ one[Before(one, k)] = whole[Before(whole, k)]
               /\ \A t \in 1..m + 1 : one[t + i] = bd[t] /\ one[Before(one, t + i)] = bd[t - 1]
               /\ \A k \in j + 1..n : one[k + c] = whole[k] /\ one[Before(one, k + c)] = whole[Before(whole, k)]
<1> DEFINE m == Len(along)
           n == Len(whole)
           c == i + m + 1 - j
           one == OneHalf(whole, along, i, j)
           bd == Border(whole, along, i, j)
<1>1. m \in Nat /\ n \in Nat /\ i \in 1..n /\ j \in 1..n
  OBVIOUS
<1>2. /\ Len(one) = i + m + (n - j + 1)
      /\ \A k \in 1..i : one[k] = whole[k]
      /\ \A k \in 1..m : one[i + k] = along[k]
      /\ \A k \in j..n : one[k + c] = whole[k]
  <2>1. /\ Len(one) = i + m + (n - j + 1)
        /\ \A k \in 1..i : one[k] = whole[k]
        /\ \A k \in 1..m : one[i + k] = along[k]
        /\ \A k \in j..n : one[k + (i + m + 1 - j)] = whole[k]
    BY OneHalfCorners
  <2> HIDE DEF m, n, one
  <2> QED
    BY <2>1
<1>3. /\ bd[0] = whole[i] /\ bd[m + 1] = whole[j] /\ \A t \in 1..m : bd[t] = along[t]
  BY <1>1 DEF Border
<1> HIDE DEF m, n, c, one, bd
<1>4. c = i + m + 1 - j
  BY DEF c
<1>5. n + c = i + m + (n - j + 1) /\ j + c = i + m + 1 /\ j \in j..n /\ n \in j..n
  BY <1>1, <1>4
<1>6. one[Len(one)] = whole[n] /\ one[i + m + 1] = whole[j]
  BY <1>2, <1>5
<1>7. ASSUME NEW k \in 1..i PROVE one[k] = whole[k] /\ one[Before(one, k)] = whole[Before(whole, k)]
  <2>1. CASE k = 1
    BY <1>2, <1>6, <1>7, <2>1 DEF Before, n
  <2>2. CASE k # 1
    <3>1. k - 1 \in 1..i
      BY <1>1, <2>2
    <3> QED
      BY <1>2, <2>2, <3>1 DEF Before
  <2> QED
    BY <2>1, <2>2
<1>8. ASSUME NEW t \in 0..m + 1 PROVE one[t + i] = bd[t]
  <2>1. CASE t = 0
    <3>1. i \in 1..i /\ t + i = i
      BY <1>1, <2>1
    <3> QED
      BY <1>2, <1>3, <2>1, <3>1
  <2>2. CASE t = m + 1
    <3>1. t + i = i + m + 1
      BY <1>1, <2>2
    <3> QED
      BY <1>3, <1>6, <2>2, <3>1
  <2>3. CASE t # 0 /\ t # m + 1
    <3>1. t \in 1..m /\ t + i = i + t
      BY <1>1, <2>3
    <3> QED
      BY <1>2, <1>3, <3>1
  <2> QED
    BY <2>1, <2>2, <2>3
<1>9. ASSUME NEW t \in 1..m + 1 PROVE one[t + i] = bd[t] /\ one[Before(one, t + i)] = bd[t - 1]
  <2>1. t \in 0..m + 1 /\ t - 1 \in 0..m + 1 /\ (t + i) - 1 = (t - 1) + i /\ t + i # 1
    BY <1>1
  <2>2. Before(one, t + i) = (t - 1) + i
    BY <2>1 DEF Before
  <2> QED
    BY <1>8, <2>1, <2>2
<1>10. ASSUME NEW k \in j + 1..n
       PROVE  one[k + c] = whole[k] /\ one[Before(one, k + c)] = whole[Before(whole, k)]
  <2>1. k \in j..n /\ k - 1 \in j..n /\ (k + c) - 1 = (k - 1) + c /\ k + c # 1 /\ k # 1
    <3>1. k \in Int /\ j \in Int /\ n \in Int /\ j >= 1 /\ j + 1 <= k /\ k <= n
      BY <1>1
    <3>2. c \in Int /\ j + c >= 2
      <4>1. c \in Int
        BY <1>1, <1>4
      <4>2. i + m + 1 >= 2
        BY <1>1
      <4> QED
        BY <1>5, <4>1, <4>2
    <3>3. k \in j..n /\ k - 1 \in j..n /\ k # 1
      BY <3>1
    <3>4. (k + c) - 1 = (k - 1) + c /\ k + c # 1
      BY <3>1, <3>2
    <3> QED
      BY <3>3, <3>4
  <2>2. Before(one, k + c) = (k - 1) + c /\ Before(whole, k) = k - 1
    BY <2>1 DEF Before
  <2> QED
    BY <1>2, <2>1, <2>2
<1> QED
  BY <1>7, <1>9, <1>10 DEF m, n, c, one, bd

LEMMA OtherHalfEdges ==
    ASSUME NEW whole \in Seq(Point), NEW along \in Seq(Point),
           NEW i \in Int, NEW j \in Int, 1 <= i, i < j, j <= Len(whole)
    PROVE  LET other == OtherHalf(whole, along, i, j)
               bd == Border(whole, along, i, j)
               m == Len(along)
               c == j - i + 1 + (m + 2)
           IN  /\ \A k \in i + 1..j : /\ other[k + (1 - i)] = whole[k]
                                      /\ other[Before(other, k + (1 - i))] = whole[Before(whole, k)]
               /\ other[1] = bd[0] /\ other[Before(other, 1)] = bd[1]
               /\ \A t \in 2..m + 1 : other[c - t] = bd[t - 1] /\ other[Before(other, c - t)] = bd[t]
<1> DEFINE m == Len(along)
           n == Len(whole)
           h == j - i + 1
           c == j - i + 1 + (m + 2)
           other == OtherHalf(whole, along, i, j)
           bd == Border(whole, along, i, j)
<1>1. m \in Nat /\ n \in Nat /\ i \in 1..n /\ j \in 1..n
  OBVIOUS
<1>2. /\ Len(other) = h + m
      /\ \A k \in i..j : other[k - i + 1] = whole[k]
      /\ \A k \in 1..m : other[h + (m - k + 1)] = along[k]
  <2>1. /\ Len(other) = j - i + 1 + m
        /\ \A k \in i..j : other[k - i + 1] = whole[k]
        /\ \A k \in 1..m : other[j - i + 1 + (m - k + 1)] = along[k]
    BY OtherHalfCorners
  <2>2. h = j - i + 1
    OBVIOUS
  <2> HIDE DEF m, n, h, c, other, bd
  <2>3. /\ Len(other) = h + m
        /\ \A k \in 1..m : other[h + (m - k + 1)] = along[k]
    BY <2>1, <2>2
  <2> QED
    BY <2>1, <2>3
<1>3. /\ bd[0] = whole[i] /\ bd[m + 1] = whole[j] /\ \A t \in 1..m : bd[t] = along[t]
  BY <1>1 DEF Border
<1> HIDE DEF m, n, h, c, other, bd
<1>4. h \in Int /\ h >= 2 /\ h = j - i + 1 /\ c = h + (m + 2)
  BY <1>1 DEF h, c
<1>5. \A k \in i..j : other[k + (1 - i)] = whole[k]
  <2> TAKE k \in i..j
  <2>1. k + (1 - i) = k - i + 1
    BY <1>1
  <2> QED
    BY <1>2, <2>1
<1>6. ASSUME NEW k \in i + 1..j
      PROVE  /\ other[k + (1 - i)] = whole[k]
             /\ other[Before(other, k + (1 - i))] = whole[Before(whole, k)]
  <2>1. /\ k \in i..j /\ k - 1 \in i..j /\ k # 1 /\ k + (1 - i) # 1
        /\ (k + (1 - i)) - 1 = (k - 1) + (1 - i)
    BY <1>1
  <2>2. Before(other, k + (1 - i)) = (k - 1) + (1 - i) /\ Before(whole, k) = k - 1
    BY <2>1 DEF Before
  <2> QED
    BY <1>5, <2>1, <2>2
\* The t-th corner of the border, counted back from the end.
<1>7. ASSUME NEW t \in 1..m + 1 PROVE other[h + (m - t + 1)] = bd[t]
  <2>1. CASE t = m + 1
    <3>1. m - t + 1 = 0
      BY <1>1, <2>1
    <3>2. h = j + (1 - i)
      BY <1>1 DEF h
    <3>3. h + 0 = h
      BY <1>4
    <3>4. j \in i..j
      BY <1>1
    <3> QED
      BY <1>3, <1>5, <2>1, <3>1, <3>2, <3>3, <3>4
  <2>2. CASE t # m + 1
    <3>1. t \in 1..m
      BY <1>1, <2>2
    <3> QED
      BY <1>2, <1>3, <3>1
  <2> QED
    BY <2>1, <2>2
<1>8. other[1] = bd[0] /\ other[Before(other, 1)] = bd[1]
  <2>1. i \in i..j /\ i + (1 - i) = 1
    BY <1>1
  <2>2. 1 \in 1..m + 1 /\ m - 1 + 1 = m
    BY <1>1
  <2>3. other[1] = bd[0]
    BY <1>3, <1>5, <2>1
  <2>4. other[h + m] = bd[1]
    BY <1>7, <2>2
  <2> QED
    BY <1>2, <2>3, <2>4 DEF Before
<1>9. ASSUME NEW t \in 2..m + 1 PROVE other[c - t] = bd[t - 1] /\ other[Before(other, c - t)] = bd[t]
  <2>1. /\ t \in 1..m + 1 /\ t - 1 \in 1..m + 1
        /\ c - t = h + (m - (t - 1) + 1) /\ (c - t) - 1 = h + (m - t + 1) /\ c - t # 1
    <3>1. t \in Int /\ m \in Int /\ 2 <= t /\ t <= m + 1
      BY <1>1
    <3>2. t \in 1..m + 1 /\ t - 1 \in 1..m + 1
      BY <3>1
    <3>3. m - (t - 1) + 1 = (m + 2) - t
      BY <3>1
    <3>4. m - t + 1 = (m + 2) - t - 1
      BY <3>1
    <3>5. (m + 2) - t \in Int /\ (m + 2) - t >= 1
      BY <3>1
    <3>6. c - t = h + ((m + 2) - t)
      BY <1>4, <3>1
    <3>7. (c - t) - 1 = h + ((m + 2) - t - 1)
      BY <1>4, <3>5, <3>6
    <3>8. c - t # 1
      BY <1>4, <3>5, <3>6
    <3> QED
      BY <3>2, <3>3, <3>4, <3>6, <3>7, <3>8
  <2>2. Before(other, c - t) = h + (m - t + 1)
    BY <2>1 DEF Before
  <2> QED
    BY <1>7, <2>1, <2>2
<1> QED
  BY <1>6, <1>8, <1>9 DEF m, n, h, c, other, bd

\* Positions in one half: of the whole up to its i-th corner, of the border, and
\* of the whole from its j-th on.
InOneHalf(m, n, i, j, c, hits, low, border, high) ==
    /\ m >= 0 /\ 1 <= i /\ i < j /\ j <= n /\ c = i + m + 1 - j
    /\ hits \subseteq 1..i + m + (n - j + 1)
    /\ low \subseteq 1..i /\ border \subseteq 1..m + 1 /\ high \subseteq j + 1..n
    /\ \A k \in 1..i : k \in hits <=> k \in low
    /\ \A t \in 1..m + 1 : t + i \in hits <=> t \in border
    /\ \A k \in j + 1..n : k + c \in hits <=> k \in high

LEMMA OneHalfCount ==
    ASSUME NEW m \in Int, NEW n \in Int, NEW i \in Int, NEW j \in Int, NEW c \in Int,
           NEW hits, NEW low, NEW border, NEW high, InOneHalf(m, n, i, j, c, hits, low, border, high)
    PROVE  Cardinality(hits) = Cardinality(low) + Cardinality(border) + Cardinality(high)
<1> DEFINE edge == {t + i : t \in border}
           top == {k + c : k \in high}
<1>1. /\ hits \subseteq Int /\ \A x \in Int : x \in hits => 1 <= x /\ x <= i + m + (n - j + 1)
      /\ low \subseteq Int /\ \A x \in Int : x \in low => 1 <= x /\ x <= i
      /\ border \subseteq Int /\ \A x \in Int : x \in border => 1 <= x /\ x <= m + 1
      /\ high \subseteq Int /\ \A x \in Int : x \in high => j + 1 <= x /\ x <= n
  BY DEF InOneHalf
<1>2. m >= 0 /\ 1 <= i /\ i < j /\ j <= n /\ c = i + m + 1 - j
  BY DEF InOneHalf
<1>3. \A x \in Int : 1 <= x /\ x <= i => (x \in hits <=> x \in low)
  BY DEF InOneHalf
<1>4. \A x \in Int : 1 <= x /\ x <= m + 1 => (x + i \in hits <=> x \in border)
  BY DEF InOneHalf
<1>5. \A x \in Int : j + 1 <= x /\ x <= n => (x + c \in hits <=> x \in high)
  BY DEF InOneHalf
<1>6. \A x \in Int : x \in edge <=> x - i \in border
  <2> TAKE x \in Int
  <2>1. x - i \in Int /\ (x - i) + i = x
    OBVIOUS
  <2>2. \A t \in Int : x = t + i => t = x - i
    OBVIOUS
  <2> QED
    BY <1>1, <2>1, <2>2
<1>7. \A x \in Int : x \in top <=> x - c \in high
  <2> TAKE x \in Int
  <2>1. x - c \in Int /\ (x - c) + c = x
    OBVIOUS
  <2>2. \A t \in Int : x = t + c => t = x - c
    OBVIOUS
  <2> QED
    BY <1>1, <2>1, <2>2
<1>8. edge \subseteq Int /\ top \subseteq Int
  <2>1. \A t \in Int : t + i \in Int /\ t + c \in Int
    OBVIOUS
  <2> QED
    BY <1>1, <2>1
<1> HIDE DEF edge, top
<1>9. ASSUME NEW x \in Int PROVE x \in hits <=> x \in low \/ x \in edge \/ x \in top
  <2>1. CASE 1 <= x /\ x <= i
    <3>1. ~(x - i >= 1) /\ ~(x - c >= j + 1) /\ x - i \in Int /\ x - c \in Int
      BY <1>2, <2>1
    <3> QED
      BY <1>1, <1>3, <1>6, <1>7, <2>1, <3>1
  <2>2. CASE i < x /\ x <= i + m + 1
    <3>1. /\ 1 <= x - i /\ x - i <= m + 1 /\ (x - i) + i = x
          /\ ~(x <= i) /\ ~(x - c >= j + 1) /\ x - i \in Int /\ x - c \in Int
      BY <1>2, <2>2
    <3> QED
      BY <1>1, <1>4, <1>6, <1>7, <3>1
  <2>3. CASE i + m + 1 < x /\ x <= i + m + (n - j + 1)
    <3>1. /\ j + 1 <= x - c /\ x - c <= n /\ (x - c) + c = x
          /\ ~(x <= i) /\ ~(x - i <= m + 1) /\ x - i \in Int /\ x - c \in Int
      BY <1>2, <2>3
    <3> QED
      BY <1>1, <1>5, <1>6, <1>7, <3>1
  <2>4. CASE x < 1 \/ x > i + m + (n - j + 1)
    <3>1. /\ ~(1 <= x /\ x <= i) /\ ~(1 <= x - i /\ x - i <= m + 1) /\ ~(j + 1 <= x - c /\ x - c <= n)
          /\ ~(1 <= x /\ x <= i + m + (n - j + 1)) /\ x - i \in Int /\ x - c \in Int
      BY <1>2, <2>4
    <3> QED
      BY <1>1, <1>6, <1>7, <3>1
  <2> QED
    BY <1>2, <2>1, <2>2, <2>3, <2>4
<1>10. hits = (low \cup edge) \cup top
  BY <1>1, <1>8, <1>9
<1>11. low \cap edge = {} /\ (low \cup edge) \cap top = {}
  <2>1. ASSUME NEW x \in Int PROVE ~(x \in low /\ x \in edge) /\ ~(x \in low /\ x \in top) /\ ~(x \in edge /\ x \in top)
    <3>1. x <= i => ~(x - i >= 1) /\ ~(x - c >= j + 1)
      BY <1>2
    <3>2. x - i <= m + 1 => ~(x - c >= j + 1)
      BY <1>2
    <3>3. x - i \in Int /\ x - c \in Int
      OBVIOUS
    <3> QED
      BY <1>1, <1>6, <1>7, <3>1, <3>2, <3>3
  <2> QED
    BY <1>1, <1>8, <2>1
<1>12. IsFiniteSet(low) /\ IsFiniteSet(border) /\ IsFiniteSet(high)
  <2>1. IsFiniteSet(1..i) /\ IsFiniteSet(1..m + 1) /\ IsFiniteSet(j + 1..n)
    BY FS_Interval
  <2>2. low \subseteq 1..i /\ border \subseteq 1..m + 1 /\ high \subseteq j + 1..n
    BY DEF InOneHalf
  <2> QED
    BY <2>1, <2>2, FS_Subset
<1>13. IsFiniteSet(edge) /\ Cardinality(edge) = Cardinality(border)
  <2>1. border \in SUBSET Int
    BY <1>1
  <2> QED
    BY <1>12, <2>1, Shifted DEF edge
<1>14. IsFiniteSet(top) /\ Cardinality(top) = Cardinality(high)
  <2>1. high \in SUBSET Int
    BY <1>1
  <2> QED
    BY <1>12, <2>1, Shifted DEF top
<1>15. IsFiniteSet(low \cup edge) /\ Cardinality(low \cup edge) = Cardinality(low) + Cardinality(edge)
  BY <1>11, <1>12, <1>13, TwoParts
<1>16. Cardinality((low \cup edge) \cup top) = Cardinality(low \cup edge) + Cardinality(top)
  BY <1>11, <1>14, <1>15, TwoParts
<1> QED
  BY <1>10, <1>13, <1>14, <1>15, <1>16

\* In the other: its first corner, the corners of the whole between the two, and
\* the border backwards.
InOtherHalf(m, i, j, d, hits, first, mid, rest) ==
    /\ m >= 0 /\ 1 <= i /\ i < j /\ d = j - i + 1 + (m + 2)
    /\ hits \subseteq 1..j - i + 1 + m
    /\ first \subseteq 1..1 /\ mid \subseteq i + 1..j /\ rest \subseteq 2..m + 1
    /\ 1 \in hits <=> 1 \in first
    /\ \A k \in i + 1..j : k + (1 - i) \in hits <=> k \in mid
    /\ \A t \in 2..m + 1 : d - t \in hits <=> t \in rest

LEMMA OtherHalfCount ==
    ASSUME NEW m \in Int, NEW i \in Int, NEW j \in Int, NEW d \in Int,
           NEW hits, NEW first, NEW mid, NEW rest, InOtherHalf(m, i, j, d, hits, first, mid, rest)
    PROVE  Cardinality(hits) = Cardinality(first) + Cardinality(mid) + Cardinality(rest)
<1> DEFINE e == 1 - i
           between == {k + e : k \in mid}
           back == {d - t : t \in rest}
<1>1. /\ hits \subseteq Int /\ \A x \in Int : x \in hits => 1 <= x /\ x <= j - i + 1 + m
      /\ first \subseteq Int /\ \A x \in Int : x \in first => x = 1
      /\ mid \subseteq Int /\ \A x \in Int : x \in mid => i + 1 <= x /\ x <= j
      /\ rest \subseteq Int /\ \A x \in Int : x \in rest => 2 <= x /\ x <= m + 1
  BY DEF InOtherHalf
<1>2. m >= 0 /\ 1 <= i /\ i < j /\ d = j - i + 1 + (m + 2) /\ e \in Int /\ e = 1 - i
  BY DEF InOtherHalf
<1>3. 1 \in hits <=> 1 \in first
  BY DEF InOtherHalf
<1>4. \A x \in Int : i + 1 <= x /\ x <= j => (x + e \in hits <=> x \in mid)
  BY DEF InOtherHalf
<1>5. \A x \in Int : 2 <= x /\ x <= m + 1 => (d - x \in hits <=> x \in rest)
  BY DEF InOtherHalf
<1> HIDE DEF e
<1>6. \A x \in Int : x \in between <=> x - e \in mid
  <2> TAKE x \in Int
  <2>1. x - e \in Int /\ (x - e) + e = x
    BY <1>2
  <2>2. \A t \in Int : x = t + e => t = x - e
    BY <1>2
  <2> QED
    BY <1>1, <2>1, <2>2
<1>7. \A x \in Int : x \in back <=> d - x \in rest
  <2> TAKE x \in Int
  <2>1. d - x \in Int /\ d - (d - x) = x
    OBVIOUS
  <2>2. \A t \in Int : x = d - t => t = d - x
    OBVIOUS
  <2> QED
    BY <1>1, <2>1, <2>2
<1>8. between \subseteq Int /\ back \subseteq Int
  <2>1. \A t \in Int : t + e \in Int /\ d - t \in Int
    BY <1>2
  <2> QED
    BY <1>1, <2>1
<1> HIDE DEF between, back
<1>9. ASSUME NEW x \in Int PROVE x \in hits <=> x \in first \/ x \in between \/ x \in back
  <2>1. CASE x = 1
    <3>1. ~(x - e >= i + 1) /\ ~(d - x <= m + 1) /\ x - e \in Int /\ d - x \in Int
      BY <1>2, <2>1
    <3> QED
      BY <1>1, <1>3, <1>6, <1>7, <2>1, <3>1
  <2>2. CASE 1 < x /\ x <= j - i + 1
    <3>1. /\ i + 1 <= x - e /\ x - e <= j /\ (x - e) + e = x
          /\ x # 1 /\ ~(d - x <= m + 1) /\ x - e \in Int /\ d - x \in Int
      BY <1>2, <2>2
    <3> QED
      BY <1>1, <1>4, <1>6, <1>7, <3>1
  <2>3. CASE j - i + 1 < x /\ x <= j - i + 1 + m
    <3>1. /\ 2 <= d - x /\ d - x <= m + 1 /\ d - (d - x) = x
          /\ x # 1 /\ ~(x - e <= j) /\ x - e \in Int /\ d - x \in Int
      BY <1>2, <2>3
    <3> QED
      BY <1>1, <1>5, <1>6, <1>7, <3>1
  <2>4. CASE x < 1 \/ x > j - i + 1 + m
    <3>1. /\ x # 1 /\ ~(i + 1 <= x - e /\ x - e <= j) /\ ~(2 <= d - x /\ d - x <= m + 1)
          /\ ~(1 <= x /\ x <= j - i + 1 + m) /\ x - e \in Int /\ d - x \in Int
      BY <1>2, <2>4
    <3> QED
      BY <1>1, <1>6, <1>7, <3>1
  <2> QED
    BY <1>2, <2>1, <2>2, <2>3, <2>4
<1>10. hits = (first \cup between) \cup back
  BY <1>1, <1>8, <1>9
<1>11. first \cap between = {} /\ (first \cup between) \cap back = {}
  <2>1. ASSUME NEW x \in Int
        PROVE  ~(x \in first /\ x \in between) /\ ~(x \in first /\ x \in back) /\ ~(x \in between /\ x \in back)
    <3>1. x = 1 => ~(x - e >= i + 1) /\ ~(d - x <= m + 1)
      BY <1>2
    <3>2. x - e <= j => ~(d - x <= m + 1)
      BY <1>2
    <3>3. x - e \in Int /\ d - x \in Int
      BY <1>2
    <3> QED
      BY <1>1, <1>6, <1>7, <3>1, <3>2, <3>3
  <2> QED
    BY <1>1, <1>8, <2>1
<1>12. IsFiniteSet(first) /\ IsFiniteSet(mid) /\ IsFiniteSet(rest)
  <2>1. 1..1 = {1}
    OBVIOUS
  <2>2. IsFiniteSet(1..1)
    BY <2>1, FS_Singleton
  <2>3. IsFiniteSet(i + 1..j) /\ IsFiniteSet(2..m + 1)
    BY FS_Interval
  <2>4. first \subseteq 1..1 /\ mid \subseteq i + 1..j /\ rest \subseteq 2..m + 1
    BY DEF InOtherHalf
  <2> QED
    BY <2>2, <2>3, <2>4, FS_Subset
<1>13. IsFiniteSet(between) /\ Cardinality(between) = Cardinality(mid)
  <2>1. mid \in SUBSET Int
    BY <1>1
  <2> QED
    BY <1>2, <1>12, <2>1, Shifted DEF between
<1>14. IsFiniteSet(back) /\ Cardinality(back) = Cardinality(rest)
  <2>1. rest \in SUBSET Int
    BY <1>1
  <2> QED
    BY <1>12, <2>1, Mirrored DEF back
<1>15. IsFiniteSet(first \cup between) /\ Cardinality(first \cup between) = Cardinality(first) + Cardinality(between)
  BY <1>11, <1>12, <1>13, TwoParts
<1>16. Cardinality((first \cup between) \cup back) = Cardinality(first \cup between) + Cardinality(back)
  BY <1>11, <1>14, <1>15, TwoParts
<1> QED
  BY <1>10, <1>13, <1>14, <1>15, <1>16

LEMMA PlacesInOne ==
    ASSUME NEW m \in Int, NEW n \in Int, NEW i \in Int, NEW j \in Int, NEW c \in Int,
           m >= 0, 1 <= i, i < j, j <= n, c = i + m + 1 - j
    PROVE  /\ \A k \in 1..i : k \in 1..i + m + (n - j + 1)
           /\ \A t \in 1..m + 1 : t + i \in 1..i + m + (n - j + 1)
           /\ \A k \in j + 1..n : k + c \in 1..i + m + (n - j + 1)
<1>1. \A k \in 1..i : k \in 1..i + m + (n - j + 1)
  OBVIOUS
<1>2. \A t \in 1..m + 1 : t + i \in 1..i + m + (n - j + 1)
  OBVIOUS
<1>3. \A k \in j + 1..n : k + c \in 1..i + m + (n - j + 1)
  OBVIOUS
<1> QED
  BY <1>1, <1>2, <1>3

LEMMA PlacesInOther ==
    ASSUME NEW m \in Int, NEW i \in Int, NEW j \in Int, NEW d \in Int,
           m >= 0, 1 <= i, i < j, d = j - i + 1 + (m + 2)
    PROVE  /\ 1 \in 1..j - i + 1 + m
           /\ \A k \in i + 1..j : k + (1 - i) \in 1..j - i + 1 + m
           /\ \A t \in 2..m + 1 : d - t \in 1..j - i + 1 + m
<1>1. 1 \in 1..j - i + 1 + m
  OBVIOUS
<1>2. \A k \in i + 1..j : k + (1 - i) \in 1..j - i + 1 + m
  OBVIOUS
<1>3. \A t \in 2..m + 1 : d - t \in 1..j - i + 1 + m
  OBVIOUS
<1> QED
  BY <1>1, <1>2, <1>3

\* The crossings of the whole are those of the halves without the border's.
LEMMA CutParity ==
    ASSUME NEW whole \in Seq(Point), NEW along \in Seq(Point),
           NEW i \in Int, NEW j \in Int, 1 <= i, i < j, j <= Len(whole), NEW p \in Point
    PROVE  PointInRing(p, whole) <=> ~(PointInRing(p, OneHalf(whole, along, i, j))
                                          <=> PointInRing(p, OtherHalf(whole, along, i, j)))
<1> DEFINE m == Len(along)
           n == Len(whole)
           c == i + m + 1 - j
           d == j - i + 1 + (m + 2)
           one == OneHalf(whole, along, i, j)
           other == OtherHalf(whole, along, i, j)
           bd == Border(whole, along, i, j)
           low == {k \in 1..i : Crosses(p, whole[k], whole[Before(whole, k)])}
           mid == {k \in i + 1..j : Crosses(p, whole[k], whole[Before(whole, k)])}
           high == {k \in j + 1..n : Crosses(p, whole[k], whole[Before(whole, k)])}
           first == {t \in 1..1 : Crosses(p, bd[t], bd[t - 1])}
           rest == {t \in 2..m + 1 : Crosses(p, bd[t], bd[t - 1])}
           border == {t \in 1..m + 1 : Crosses(p, bd[t], bd[t - 1])}
<1>1. m \in Int /\ m >= 0 /\ n \in Int /\ j <= n
  OBVIOUS
<1>2. c \in Int /\ d \in Int /\ c = i + m + 1 - j /\ d = j - i + 1 + (m + 2)
  <2> HIDE DEF m, n
  <2> QED
    BY <1>1
<1>3. /\ one \in Seq(Point) /\ Len(one) = i + m + (n - j + 1)
      /\ other \in Seq(Point) /\ Len(other) = j - i + 1 + m
  BY OneHalfCorners, OtherHalfCorners
<1>4. \A t \in 0..m + 1 : bd[t] \in Point
  <2>1. \A t \in 1..m : along[t] \in Point
    OBVIOUS
  <2>2. whole[i] \in Point /\ whole[j] \in Point
    OBVIOUS
  <2>3. \A t \in 0..m + 1 : bd[t] = IF t = 0 THEN whole[i] ELSE IF t = m + 1 THEN whole[j] ELSE along[t]
    BY DEF Border
  <2>4. \A t \in 0..m + 1 : t # 0 /\ t # m + 1 => t \in 1..m
    BY <1>1
  <2> HIDE DEF m, bd
  <2> QED
    BY <2>1, <2>2, <2>3, <2>4
<1>5. /\ \A k \in 1..i : one[k] = whole[k] /\ one[Before(one, k)] = whole[Before(whole, k)]
      /\ \A t \in 1..m + 1 : one[t + i] = bd[t] /\ one[Before(one, t + i)] = bd[t - 1]
      /\ \A k \in j + 1..n : one[k + c] = whole[k] /\ one[Before(one, k + c)] = whole[Before(whole, k)]
  BY OneHalfEdges
<1>6. /\ \A k \in i + 1..j : /\ other[k + (1 - i)] = whole[k]
                             /\ other[Before(other, k + (1 - i))] = whole[Before(whole, k)]
      /\ other[1] = bd[0] /\ other[Before(other, 1)] = bd[1]
      /\ \A t \in 2..m + 1 : other[d - t] = bd[t - 1] /\ other[Before(other, d - t)] = bd[t]
  BY OtherHalfEdges
<1>7. /\ low \in SUBSET (1..i) /\ mid \in SUBSET (i + 1..j) /\ high \in SUBSET (j + 1..n)
      /\ first \in SUBSET (1..1) /\ rest \in SUBSET (2..m + 1) /\ border \in SUBSET (1..m + 1)
  OBVIOUS
<1>8. Crossed(p, whole) = (low \cup mid) \cup high
  <2>1. DOMAIN whole = 1..n
    OBVIOUS
  <2> HIDE DEF n
  <2>2. \A k \in Int : k \in 1..n <=> k \in 1..i \/ k \in i + 1..j \/ k \in j + 1..n
    BY <1>1
  <2>3. 1..n = ((1..i) \cup (i + 1..j)) \cup (j + 1..n)
    BY <2>2
  <2> QED
    BY <2>1, <2>3 DEF Crossed
<1>9. border = first \cup rest
  <2> HIDE DEF m, bd
  <2>1. 1..m + 1 = (1..1) \cup (2..m + 1)
    BY <1>1
  <2> QED
    BY <2>1
<1> HIDE DEF m, n, c, d, one, other, bd
<1>10. /\ DOMAIN one = 1..i + m + (n - j + 1) /\ DOMAIN other = 1..j - i + 1 + m
  BY <1>3
<1>11. Cardinality(Crossed(p, one)) = Cardinality(low) + Cardinality(border) + Cardinality(high)
  <2>1. Crossed(p, one) \in SUBSET (1..i + m + (n - j + 1))
    BY <1>10 DEF Crossed
  <2>2. \A k \in 1..i : k \in DOMAIN one
    BY <1>1, <1>2, <1>10, PlacesInOne
  <2>3. \A t \in 1..m + 1 : t + i \in DOMAIN one
    BY <1>1, <1>2, <1>10, PlacesInOne
  <2>4. \A k \in j + 1..n : k + c \in DOMAIN one
    BY <1>1, <1>2, <1>10, PlacesInOne
  <2>5. \A k \in 1..i : k \in Crossed(p, one) <=> k \in low
    BY <1>5, <2>2 DEF Crossed
  <2>6. \A t \in 1..m + 1 : t + i \in Crossed(p, one) <=> t \in border
    BY <1>5, <2>3 DEF Crossed
  <2>7. \A k \in j + 1..n : k + c \in Crossed(p, one) <=> k \in high
    BY <1>5, <2>4 DEF Crossed
  <2>8. InOneHalf(m, n, i, j, c, Crossed(p, one), low, border, high)
    BY <1>1, <1>2, <1>7, <2>1, <2>5, <2>6, <2>7 DEF InOneHalf
  <2> HIDE DEF low, border, high
  <2> QED
    BY <1>1, <1>2, <2>8, OneHalfCount
<1>12. Cardinality(Crossed(p, other)) = Cardinality(first) + Cardinality(mid) + Cardinality(rest)
  <2>1. Crossed(p, other) \in SUBSET (1..j - i + 1 + m)
    BY <1>10 DEF Crossed
  <2>2. \A k \in i + 1..j : k + (1 - i) \in DOMAIN other
    BY <1>1, <1>2, <1>10, PlacesInOther
  <2>3. 1 \in DOMAIN other
    BY <1>1, <1>2, <1>10, PlacesInOther
  <2>4. \A t \in 2..m + 1 : d - t \in DOMAIN other
    BY <1>1, <1>2, <1>10, PlacesInOther
  <2>5. \A t \in 1..m + 1 : t \in 0..m + 1 /\ t - 1 \in 0..m + 1
    BY <1>1
  <2>6. \A t \in 1..m + 1 : Crosses(p, bd[t], bd[t - 1]) <=> Crosses(p, bd[t - 1], bd[t])
    BY <1>4, <2>5, CrossesEitherWay
  <2>7. 1 \in 1..m + 1 /\ 1 - 1 = 0 /\ \A t \in 2..m + 1 : t \in 1..m + 1
    BY <1>1
  <2>8. 1 \in Crossed(p, other) <=> 1 \in first
    BY <1>6, <2>3, <2>6, <2>7 DEF Crossed
  <2>9. \A k \in i + 1..j : k + (1 - i) \in Crossed(p, other) <=> k \in mid
    BY <1>6, <2>2 DEF Crossed
  <2>10. \A t \in 2..m + 1 : d - t \in Crossed(p, other) <=> t \in rest
    BY <1>6, <2>4, <2>6, <2>7 DEF Crossed
  <2>11. InOtherHalf(m, i, j, d, Crossed(p, other), first, mid, rest)
    BY <1>1, <1>2, <1>7, <2>1, <2>8, <2>9, <2>10 DEF InOtherHalf
  <2> HIDE DEF first, mid, rest
  <2> QED
    BY <1>1, <1>2, <2>11, OtherHalfCount
<1>13. /\ low \cap mid = {} /\ (low \cup mid) \cap high = {} /\ first \cap rest = {}
  BY <1>1
<1>14. /\ IsFiniteSet(low) /\ IsFiniteSet(mid) /\ IsFiniteSet(high)
       /\ IsFiniteSet(first) /\ IsFiniteSet(rest)
  <2>1. 1..1 = {1}
    OBVIOUS
  <2>2. /\ IsFiniteSet(1..i) /\ IsFiniteSet(i + 1..j) /\ IsFiniteSet(j + 1..n)
        /\ IsFiniteSet(2..m + 1)
    BY <1>1, FS_Interval
  <2>3. IsFiniteSet(1..1)
    BY <2>1, FS_Singleton
  <2> HIDE DEF low, mid, high, first, rest
  <2> QED
    BY <1>7, <2>2, <2>3, FS_Subset
<1> HIDE DEF low, mid, high, first, rest, border
<1>15. Cardinality(border) = Cardinality(first) + Cardinality(rest)
  BY <1>9, <1>13, <1>14, TwoParts
<1>16. IsFiniteSet(low \cup mid) /\ Cardinality(low \cup mid) = Cardinality(low) + Cardinality(mid)
  BY <1>13, <1>14, TwoParts
<1>17. Cardinality(Crossed(p, whole)) = Cardinality(low) + Cardinality(mid) + Cardinality(high)
  BY <1>8, <1>13, <1>14, <1>16, TwoParts
<1>18. /\ Cardinality(low) \in Nat /\ Cardinality(mid) \in Nat /\ Cardinality(high) \in Nat
       /\ Cardinality(first) \in Nat /\ Cardinality(rest) \in Nat
  BY <1>14, FS_CardinalityType
<1>19. \A a, b, e, f, g \in Nat :
          (a + b + e) % 2 = 1 <=> ~((a + (f + g) + e) % 2 = 1 <=> (f + b + g) % 2 = 1)
  OBVIOUS
<1>20. /\ PointInRing(p, whole) <=> Cardinality(Crossed(p, whole)) % 2 = 1
       /\ PointInRing(p, one) <=> Cardinality(Crossed(p, one)) % 2 = 1
       /\ PointInRing(p, other) <=> Cardinality(Crossed(p, other)) % 2 = 1
  BY RingByParity
<1>21. PointInRing(p, whole) <=> ~(PointInRing(p, one) <=> PointInRing(p, other))
  <2> DEFINE a == Cardinality(low)
             b == Cardinality(mid)
             e == Cardinality(high)
             f == Cardinality(first)
             g == Cardinality(rest)
  <2>1. /\ Cardinality(Crossed(p, whole)) = a + b + e
        /\ Cardinality(Crossed(p, one)) = a + (f + g) + e
        /\ Cardinality(Crossed(p, other)) = f + b + g
    BY <1>11, <1>12, <1>15, <1>17
  <2>2. a \in Nat /\ b \in Nat /\ e \in Nat /\ f \in Nat /\ g \in Nat
    BY <1>18
  <2> HIDE DEF a, b, e, f, g
  <2>3. (a + b + e) % 2 = 1 <=> ~((a + (f + g) + e) % 2 = 1 <=> (f + b + g) % 2 = 1)
    BY <1>19, <2>2
  <2> QED
    BY <1>20, <2>1, <2>3
<1> QED
  BY <1>21 DEF one, other

\* Two rings on either side of the line through two points share no point.
LEMMA SidesSeparate ==
    ASSUME NEW u \in Point, NEW v \in Point, u # v, NEW r \in Seq(Point), NEW s \in Seq(Point), NEW p \in Point,
           \A k \in DOMAIN r : Side(u, v, r[k]) <= 0, \A k \in DOMAIN s : Side(u, v, s[k]) >= 0
    PROVE  ~(PointInRing(p, r) /\ PointInRing(p, s))
<1> DEFINE dx == v[1] - u[1]
           dy == v[2] - u[2]
           l == <<-dy, dx, dy * u[1] - dx * u[2]>>
           rev == <<dy, -dx, -(dy * u[1] - dx * u[2])>>
<1>1. u[1] \in Int /\ u[2] \in Int /\ v[1] \in Int /\ v[2] \in Int
  BY DEF Point
<1>2. dx \in Int /\ dy \in Int /\ dy * u[1] - dx * u[2] \in Int
  <2>1. dx \in Int /\ dy \in Int
    BY <1>1
  <2> HIDE DEF dx, dy
  <2>2. dy * u[1] \in Int /\ dx * u[2] \in Int
    BY <1>1, <2>1, Signs
  <2> QED
    BY <2>1, <2>2
<1>3. dx # 0 \/ dy # 0
  <2>1. u = <<u[1], u[2]>> /\ v = <<v[1], v[2]>>
    BY DEF Point
  <2>2. u[1] # v[1] \/ u[2] # v[2]
    BY <2>1
  <2> QED
    BY <1>1, <2>2
<1> HIDE DEF dx, dy
<1>4. l \in Line /\ rev \in Line /\ l[1] = -dy /\ rev[1] = dy
  BY <1>2 DEF Line
<1>5. ASSUME NEW q \in Point
      PROVE  /\ q[2] \in Int /\ Side(u, v, q) \in Int
             /\ At(l, q) = Side(u, v, q) /\ At(rev, q) = -Side(u, v, q)
             /\ dy = 0 => Side(u, v, q) = dx * (q[2] - u[2])
  <2>1. q[1] \in Int /\ q[2] \in Int
    BY DEF Point
  <2>2. Side(u, v, q) = dx * (q[2] - u[2]) - dy * (q[1] - u[1])
    BY DEF Side, dx, dy
  <2>3. At(l, q) = (-dy) * q[1] + dx * q[2] + (dy * u[1] - dx * u[2])
    BY DEF At
  <2>4. At(rev, q) = dy * q[1] + (-dx) * q[2] + -(dy * u[1] - dx * u[2])
    BY DEF At
  <2> DEFINE a == q[1]
             b == q[2]
             c == u[1]
             d == u[2]
  <2>5. a \in Int /\ b \in Int /\ c \in Int /\ d \in Int
    BY <1>1, <2>1
  <2> HIDE DEF a, b, c, d
  <2>6. dx * (b - d) - dy * (a - c) \in Int
    BY <1>2, <2>5
  <2>7. (-dy) * a + dx * b + (dy * c - dx * d) = dx * (b - d) - dy * (a - c)
    BY <1>2, <2>5
  <2>8. dy * a + (-dx) * b + -(dy * c - dx * d) = -(dx * (b - d) - dy * (a - c))
    BY <1>2, <2>5
  <2>9. dy = 0 => dx * (b - d) - dy * (a - c) = dx * (b - d)
    BY <1>2, <2>5
  <2> QED
    BY <2>1, <2>2, <2>3, <2>4, <2>6, <2>7, <2>8, <2>9 DEF a, b, c, d
<1>6. /\ \A k \in DOMAIN r : r[k] \in Point
      /\ \A k \in DOMAIN s : s[k] \in Point
  OBVIOUS
<1> HIDE DEF l, rev
<1>7. CASE dy < 0
  <2>1. l[1] > 0
    BY <1>2, <1>4, <1>7
  <2>2. /\ \A k \in DOMAIN r : At(l, r[k]) <= 0
        /\ \A k \in DOMAIN s : At(l, s[k]) >= 0
    BY <1>5, <1>6
  <2> QED
    BY <1>4, <2>1, <2>2, LineSeparates
<1>8. CASE dy > 0
  <2>1. rev[1] > 0
    BY <1>2, <1>4, <1>8
  <2>2. /\ \A k \in DOMAIN r : At(rev, r[k]) >= 0
        /\ \A k \in DOMAIN s : At(rev, s[k]) <= 0
    BY <1>5, <1>6
  <2> QED
    BY <1>4, <2>1, <2>2, LineSeparates
<1>9. ASSUME dy = 0, dx > 0 PROVE ~(PointInRing(p, r) /\ PointInRing(p, s))
  <2>1. ASSUME NEW z \in Int PROVE (dx * (z - u[2]) <= 0 => z <= u[2]) /\ (dx * (z - u[2]) >= 0 => z >= u[2])
    <3>1. \A w \in Int : /\ w > 0 => dx * w > 0
                         /\ w < 0 => dx * w < 0
      <4> TAKE w \in Int
      <4>1. w > 0 => dx * w > 0
        BY <1>2, <1>9, Signs
      <4>2. w < 0 => w * dx < 0
        BY <1>2, <1>9, Signs
      <4>3. w * dx = dx * w
        BY <1>2
      <4> QED
        BY <4>1, <4>2, <4>3
    <3>2. dx * (z - u[2]) \in Int /\ z - u[2] \in Int
      BY <1>1, <1>2, Signs
    <3> QED
      BY <1>1, <3>1, <3>2
  <2>2. /\ \A k \in DOMAIN r : r[k][2] <= u[2]
        /\ \A k \in DOMAIN s : s[k][2] >= u[2]
    BY <1>5, <1>6, <1>9, <2>1
  <2> QED
    BY <1>1, <2>2, LevelSeparates
<1>10. ASSUME dy = 0, dx < 0 PROVE ~(PointInRing(p, r) /\ PointInRing(p, s))
  <2>1. ASSUME NEW z \in Int PROVE (dx * (z - u[2]) <= 0 => z >= u[2]) /\ (dx * (z - u[2]) >= 0 => z <= u[2])
    <3>1. \A w \in Int : /\ w > 0 => dx * w < 0
                         /\ w < 0 => dx * w > 0
      <4> TAKE w \in Int
      <4>1. w > 0 => dx * w < 0
        BY <1>2, <1>10, Signs
      <4>2. -w > 0 => dx * (-w) < 0
        BY <1>2, <1>10, Signs
      <4>3. dx * (-w) = -(dx * w) /\ dx * w \in Int
        BY <1>2, Signs
      <4> QED
        BY <4>1, <4>2, <4>3
    <3>2. dx * (z - u[2]) \in Int /\ z - u[2] \in Int
      BY <1>1, <1>2, Signs
    <3> QED
      BY <1>1, <3>1, <3>2
  <2>2. /\ \A k \in DOMAIN r : r[k][2] >= u[2]
        /\ \A k \in DOMAIN s : s[k][2] <= u[2]
    BY <1>5, <1>6, <1>10, <2>1
  <2> QED
    BY <1>1, <2>2, LevelSeparates
<1> QED
  BY <1>2, <1>3, <1>7, <1>8, <1>9, <1>10

\* A zone of one ring, cut in two.
LEMMA CutTiles ==
    ASSUME NEW whole \in Seq(Point), NEW one \in Seq(Point), NEW other \in Seq(Point),
           CutInTwo(whole, one, other), NEW p \in Point
    PROVE  /\ PointInRing(p, whole) <=> PointInRing(p, one) \/ PointInRing(p, other)
           /\ ~(PointInRing(p, one) /\ PointInRing(p, other))
<1>1. PICK i \in DOMAIN whole, j \in DOMAIN whole :
          LET along == SubSeq(one, i + 1, Len(one) - (Len(whole) - j + 1))
              side(q) == Side(whole[i], whole[j], q)
          IN  /\ i < j /\ whole[i] # whole[j]
              /\ one = SubSeq(whole, 1, i) \o along \o SubSeq(whole, j, Len(whole))
              /\ other = SubSeq(whole, i, j) \o Reverse(along)
              /\ \/ /\ \A k \in DOMAIN one : side(one[k]) <= 0
                    /\ \A k \in DOMAIN other : side(other[k]) >= 0
                 \/ /\ \A k \in DOMAIN one : side(one[k]) >= 0
                    /\ \A k \in DOMAIN other : side(other[k]) <= 0
  BY DEF CutInTwo
<1> DEFINE along == SubSeq(one, i + 1, Len(one) - (Len(whole) - j + 1))
<1>2. i \in Int /\ j \in Int /\ 1 <= i /\ i < j /\ j <= Len(whole)
  BY <1>1
<1>3. along \in Seq(Point)
  <2>1. Len(one) \in Int /\ Len(whole) \in Int /\ i + 1 >= 1 /\ Len(one) - (Len(whole) - j + 1) <= Len(one)
    BY <1>2
  <2>2. i + 1 \in Int /\ Len(one) - (Len(whole) - j + 1) \in Int
    BY <1>2, <2>1
  <2>3. \A k \in i + 1..Len(one) - (Len(whole) - j + 1) : k \in 1..Len(one)
    BY <1>2, <2>1
  <2>4. \A k \in i + 1..Len(one) - (Len(whole) - j + 1) : one[k] \in Point
    BY <2>3
  <2> QED
    BY <2>2, <2>4, SubSeqProperties
<1>4. one = OneHalf(whole, along, i, j) /\ other = OtherHalf(whole, along, i, j)
  BY <1>1 DEF OneHalf, OtherHalf
<1> HIDE DEF along
<1>5. PointInRing(p, whole) <=> ~(PointInRing(p, one) <=> PointInRing(p, other))
  BY <1>2, <1>3, <1>4, CutParity
<1>6. ~(PointInRing(p, one) /\ PointInRing(p, other))
  <2>1. whole[i] \in Point /\ whole[j] \in Point /\ whole[i] # whole[j]
    BY <1>1
  <2>2. \/ /\ \A k \in DOMAIN one : Side(whole[i], whole[j], one[k]) <= 0
           /\ \A k \in DOMAIN other : Side(whole[i], whole[j], other[k]) >= 0
        \/ /\ \A k \in DOMAIN one : Side(whole[i], whole[j], one[k]) >= 0
           /\ \A k \in DOMAIN other : Side(whole[i], whole[j], other[k]) <= 0
    BY <1>1
  <2> QED
    BY <2>1, <2>2, SidesSeparate
<1> QED
  BY <1>5, <1>6

(* _point_in_ring and _point_in_polygon: for any zone cut in two along a   *)
(* straight border, whatever its shape, and any point, the border's own    *)
(* included: the two halves serve the points the whole did, each by one.   *)
THEOREM BordersAreTiled == ZonesSpec => []BordersTile
<1>1. BordersTile
  <2> SUFFICES ASSUME NEW e \in Borders, NEW p \in Grid
               PROVE  /\ PointInPolygon(p, Polygon[e[1]]) <=>
                            PointInPolygon(p, Polygon[e[2]]) \/ PointInPolygon(p, Polygon[e[3]])
                      /\ ~(PointInPolygon(p, Polygon[e[2]]) /\ PointInPolygon(p, Polygon[e[3]]))
    BY DEF BordersTile
  <2>1. /\ \A k \in 1..3 : Len(Polygon[e[k]]) = 1 /\ Polygon[e[k]][1] \in Seq(Point)
        /\ CutInTwo(Polygon[e[1]][1], Polygon[e[2]][1], Polygon[e[3]][1])
    BY BordersAssumption DEF Point
  <2>2. p \in Point
    BY ZonesAssumption DEF Point
  <2>3. ASSUME NEW rings, Len(rings) = 1 PROVE PointInPolygon(p, rings) <=> PointInRing(p, rings[1])
    <3>1. rings # <<>>
      BY <2>3
    <3>2. 2..Len(rings) = {}
      BY <2>3
    <3> QED
      BY <3>1, <3>2 DEF PointInPolygon
  <2>4. 1 \in 1..3 /\ 2 \in 1..3 /\ 3 \in 1..3
    OBVIOUS
  <2>5. /\ PointInPolygon(p, Polygon[e[1]]) <=> PointInRing(p, Polygon[e[1]][1])
        /\ PointInPolygon(p, Polygon[e[2]]) <=> PointInRing(p, Polygon[e[2]][1])
        /\ PointInPolygon(p, Polygon[e[3]]) <=> PointInRing(p, Polygon[e[3]][1])
    BY <2>1, <2>3, <2>4
  <2>6. /\ PointInRing(p, Polygon[e[1]][1]) <=>
             PointInRing(p, Polygon[e[2]][1]) \/ PointInRing(p, Polygon[e[3]][1])
        /\ ~(PointInRing(p, Polygon[e[2]][1]) /\ PointInRing(p, Polygon[e[3]][1]))
    BY <2>1, <2>2, <2>4, CutTiles
  <2> QED
    BY <2>5, <2>6
<1> QED
  BY <1>1, PTL

=============================================================================

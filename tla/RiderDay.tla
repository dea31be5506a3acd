------------------------------ MODULE RiderDay ------------------------------
(***************************************************************************)
(* Who delivers an order, and what the rider's screens add up to           *)
(* (apps/delivery/services.py): the day summary with its cash to hand in,  *)
(* the delivery lists and the earnings.                                    *)
(*                                                                         *)
(* OrderLife has the interleavings inside a rider's handler; here each     *)
(* handler is one step, and it is the sums over many days that matter.     *)
(***************************************************************************)
EXTENDS Integers, FiniteSets, Sums

CONSTANTS
    Riders,       \* delivery-partner ids, numbers
    Office,       \* riders with a saved address at the office
    Designated,   \* the rider the rule names
    Parcels,      \* orders
    Lines,        \* the lines of each order: [Parcels -> [1..n -> [product, qty]]]
    Cash,         \* orders paid on delivery
    ToOffice,     \* instant orders whose address the rule matches
    Nobody,
    RiderFee,     \* DELIVERY_RIDER_FEE in hundredths of a rupee
    UnitPrice,    \* price of one unit
    Scale,        \* shares are counted in units of a hundredth over Scale
    Top,          \* products shown: 8
    LastDate

\* Of some lines of an order.
Quantity(o, L) == SumOf([i \in L |-> Lines[o][i].qty])

\* An order has lines, a line a quantity; the unit makes every share whole.
ASSUME RiderDayAssumption ==
    /\ IsFiniteSet(Parcels) /\ Riders \subseteq Nat /\ Nobody \notin Riders
    /\ Office \cup {Designated} \subseteq Riders
    /\ RiderFee \in Nat /\ UnitPrice \in Nat /\ Top \in Nat /\ Scale \in Nat \ {0}
    /\ \A o \in Parcels :
          /\ IsFiniteSet(DOMAIN Lines[o]) /\ DOMAIN Lines[o] # {}
          /\ \A i \in DOMAIN Lines[o] : Lines[o][i].qty \in Nat \ {0}
          /\ \A L \in SUBSET DOMAIN Lines[o] : L # {} => Scale % Quantity(o, L) = 0

VARIABLES
    partner,      \* delivery_partners: on duty, active
    task,         \* delivery_assignments: the row of each order
    returned,     \* lines of each order marked is_returned
    date,         \* today
    claim         \* a request that has picked a rider and not yet inserted the row

riderVars == <<partner, task, returned, date, claim>>

ActiveStatuses == {"assigned", "accepted", "picked_up"}
NoTask == [rider |-> Nobody, status |-> "none", assigned |-> 0, done |-> 0, upi |-> FALSE]
NoClaim == [parcel |-> Nobody, rider |-> Nobody]

RiderInit ==
    /\ partner = [r \in Riders |-> [duty |-> FALSE, active |-> TRUE]]
    /\ task = [o \in Parcels |-> NoTask]
    /\ returned = [o \in Parcels |-> {}]
    /\ date = 1 /\ claim = NoClaim

TasksOf(r) == {o \in Parcels : task[o].rider = r}
InStatus(r, S) == {o \in TasksOf(r) : task[o].status \in S}
Load(r) == Cardinality(InStatus(r, ActiveStatuses))

-----------------------------------------------------------------------------
(* Choosing a rider.                                                       *)

Available == {r \in Riders : partner[r].active /\ partner[r].duty}

\* assign_order: the least loaded on duty, then the lowest id.
LeastLoaded ==
    CHOOSE r \in Available : \A q \in Available \ {r} :
        Load(r) < Load(q) \/ (Load(r) = Load(q) /\ r < q)

\* maybe_auto_assign: on duty first, then the designated rider, then the id.
RankBefore(r, q) ==
    IF partner[r].duty # partner[q].duty THEN partner[r].duty
    ELSE IF (r = Designated) # (q = Designated) THEN r = Designated ELSE r < q
Candidates == {r \in Office \cup {Designated} : partner[r].active}
FirstRanked == CHOOSE r \in Candidates : \A q \in Candidates \ {r} : RankBefore(r, q)

Claim(o, r) == claim' = [parcel |-> o, rider |-> r] /\ UNCHANGED <<partner, task, returned, date>>

\* The ops board, with or without a rider, and the rule for office orders.  An
\* order keeps its first assignment: an open or returned one is handed back, a
\* second row beside a finished one violates the key and is an error.
AssignOrder(o) ==
    /\ claim = NoClaim /\ task[o] = NoTask
    /\ \/ Available # {} /\ Claim(o, LeastLoaded)
       \/ \E r \in Riders : Claim(o, r)

AutoAssign(o) ==
    /\ claim = NoClaim /\ task[o] = NoTask /\ o \in ToOffice
    /\ Candidates # {} /\ Claim(o, FirstRanked)

CreateTask ==
    /\ claim # NoClaim
    /\ task' = [task EXCEPT ![claim.parcel] =
                  [NoTask EXCEPT !.rider = claim.rider, !.status = "assigned", !.assigned = date]]
    /\ claim' = NoClaim
    /\ UNCHANGED <<partner, returned, date>>

-----------------------------------------------------------------------------
(* The rider's day.                                                        *)

RiderDuty(r) ==
    /\ partner' = [partner EXCEPT ![r].duty = ~@]
    /\ UNCHANGED <<task, returned, date, claim>>

\* rider_detail (ops): a rider taken off stays on the orders he has.
RiderActive(r) ==
    /\ partner' = [partner EXCEPT ![r].active = ~@]
    /\ UNCHANGED <<task, returned, date, claim>>

Becomes(o, change) == task' = [task EXCEPT ![o] = change] /\ UNCHANGED <<partner, date, claim>>

AcceptTask(o) ==
    /\ task[o].status = "assigned"
    /\ Becomes(o, [task[o] EXCEPT !.status = "accepted"])
    /\ UNCHANGED returned

PickUpTask(o) ==
    /\ task[o].status \in {"assigned", "accepted"}
    /\ Becomes(o, [task[o] EXCEPT !.status = "picked_up"])
    /\ UNCHANGED returned

\* deliver_order stores whatever the app says of UPI, for any method of payment.
DeliverTask(o, upi) ==
    /\ task[o].status = "picked_up"
    /\ Becomes(o, [task[o] EXCEPT !.status = "delivered", !.done = date, !.upi = upi])
    /\ UNCHANGED returned

\* return_order: all open lines returned returns the order.
ReturnTask(o, wanted) ==
    LET open == DOMAIN Lines[o] \ returned[o]
    IN  /\ task[o].status = "picked_up"
        /\ wanted # {} /\ wanted \subseteq open
        /\ returned' = [returned EXCEPT ![o] = @ \cup wanted]
        /\ Becomes(o, [task[o] EXCEPT !.status = IF wanted = open THEN "returned" ELSE "delivered",
                                      !.done = date])

\* perform_cancellation stands the rider down.
StandDown(o) ==
    /\ task[o].status \in {"assigned", "accepted"}
    /\ Becomes(o, [task[o] EXCEPT !.status = "cancelled"])
    /\ UNCHANGED returned

NextDate ==
    /\ date < LastDate
    /\ date' = date + 1
    /\ UNCHANGED <<partner, task, returned, claim>>

RiderNext ==
    \/ \E o \in Parcels :
          \/ AssignOrder(o) \/ AutoAssign(o) \/ AcceptTask(o) \/ PickUpTask(o) \/ StandDown(o)
          \/ \E upi \in BOOLEAN : DeliverTask(o, upi)
          \/ \E wanted \in SUBSET DOMAIN Lines[o] : ReturnTask(o, wanted)
    \/ CreateTask
    \/ \E r \in Riders : RiderDuty(r) \/ RiderActive(r)
    \/ NextDate

RiderSpec == RiderInit /\ [][RiderNext]_riderVars

-----------------------------------------------------------------------------
(* The screens.                                                            *)

Kept(o) == DOMAIN Lines[o] \ returned[o]

\* A partial return takes the refused lines off order.total, a full one does not.
Total(o) == UnitPrice * Quantity(o, IF task[o].status = "returned" THEN DOMAIN Lines[o] ELSE Kept(o))
CodAmount(o) == IF o \in Cash THEN Total(o) ELSE 0
Collected(S) == SumOf([o \in S |-> CodAmount(o)])

\* rider_day_summary: what was assigned or finished that day, or is active still.
WorkedOn(r, d) ==
    {o \in TasksOf(r) : task[o].assigned = d \/ task[o].done = d \/ task[o].status \in ActiveStatuses}

\* A faulty build with a two-way split: what is not delivered is pending.
AllTheRest(S) == {o \in S : task[o].status \notin {"delivered", "returned"}}

\* What a day still owes: neither delivered, nor returned, nor cancelled.
PendingOf(S) == {o \in S : task[o].status \notin {"delivered", "returned", "cancelled"}}

DaySummary(r, d) ==
    LET S         == WorkedOn(r, d)
        delivered == {o \in S : task[o].status = "delivered"}
    IN  [total |-> Cardinality(S),
         delivered |-> Cardinality(delivered),
         pending |-> Cardinality(PendingOf(S)),
         returned |-> Cardinality({o \in S : task[o].status = "returned"}),
         earnings |-> RiderFee * Cardinality(delivered),
         toCollect |-> Collected(PendingOf(S)),
         collected |-> Collected(delivered),
         upi |-> Collected({o \in delivered \cap Cash : task[o].upi})]

\* rider_earnings_summary: by the day of delivery alone.
DeliveredOn(r, d) == {o \in InStatus(r, {"delivered"}) : task[o].done = d}

Products == UNION {{Lines[o][i].product : i \in DOMAIN Lines[o]} : o \in Parcels}

\* An order's fee goes to its kept products by quantity.
Share(o, p) ==
    (Scale * RiderFee * Quantity(o, {i \in Kept(o) : Lines[o][i].product = p}))
        \div Quantity(o, Kept(o))
Earned(S, p) == SumOf([o \in S |-> Share(o, p)])
Sold(S) == {p \in Products : \E o \in S : \E i \in Kept(o) : Lines[o][i].product = p}

\* Sorted by earnings and cut off; what earns the same may come in any order.
TopProducts(S) ==
    {T \in SUBSET Sold(S) :
        /\ Cardinality(T) = IF Cardinality(Sold(S)) < Top THEN Cardinality(Sold(S)) ELSE Top
        /\ \A p \in T, q \in Sold(S) \ T : Earned(S, q) <= Earned(S, p)}

\* Shown rounded half up.
Rounded(n) == (2 * n + Scale) \div (2 * Scale)
ByProduct(S, T) == [p \in T |-> Rounded(Earned(S, p))]

DayAgrees(r, d) ==
    LET day       == DaySummary(r, d)
        other     == {o \in InStatus(r, {"delivered"}) : task[o].assigned = d /\ task[o].done # d}
        cancelled == {o \in InStatus(r, {"cancelled"}) : task[o].assigned = d}
    IN  /\ day.total = day.delivered + day.pending + day.returned + Cardinality(cancelled)
        /\ day.pending = Load(r)
        /\ day.upi <= day.collected
        /\ day.toCollect = Collected(InStatus(r, ActiveStatuses))
        /\ day.earnings = RiderFee * Cardinality(DeliveredOn(r, d) \cup other)

SharesAgree(S) ==
    \A T \in TopProducts(S) :
        LET over == 2 * (SumOf(ByProduct(S, T)) - RiderFee * Cardinality(S))
        IN  /\ over <= Cardinality(T)
            /\ Cardinality(Sold(S)) <= Top => -over <= Cardinality(T)

(* The screens of a rider agree.  A day's list is delivered, pending,      *)
(* returned and cancelled work and nothing else; cash and UPI make up what *)
(* was collected; what is pending on any day is the rider's open work and  *)
(* the load the ops board shows.  The earnings of all days are the fee of  *)
(* every delivery, once; a day's summary adds to the day's earnings only   *)
(* the orders assigned that day and delivered on another.  The shares of   *)
(* the products do not exceed the day's earnings by more than rounding,    *)
(* and fall short by more only when there are products not shown.          *)
RiderScreensAgree ==
    \A r \in {task[o].rider : o \in Parcels} \ {Nobody} :
        /\ RiderFee * Cardinality(InStatus(r, {"delivered"})) =
              SumOf([d \in 1..date |-> RiderFee * Cardinality(DeliveredOn(r, d))])
        /\ \A d \in 1..date : DayAgrees(r, d) /\ SharesAgree(DeliveredOn(r, d))

=============================================================================

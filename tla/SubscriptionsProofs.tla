------------------------ MODULE SubscriptionsProofs ------------------------
(***************************************************************************)
(* Proofs about Subscriptions, for any subscriptions, plans, dates and     *)
(* workers: until two handlers decide a day at once, the day is a          *)
(* DeliveryDay and has one order at most, whatever is queued, replayed,    *)
(* changed late or killed; an order is for what the customer asked for, a  *)
(* cancelled subscription stays so, the books balance, and the forecast of *)
(* a date is what a task that is done with it drew.                        *)
(***************************************************************************)
EXTENDS Subscriptions, SumLemmas, SequenceTheorems, FiniteSetTheorems, TLAPS

Kinds == {"idle", "task", "block", "low", "out", "assign", "pause", "resume", "edit",
          "skip", "quantity"}

Plan == Plans \cup {NoPlan}

SubRow == [status : {"none", "active", "paused", "cancelled"}, plan : Plan]

Loads == {<<>>} \cup UNION {[S -> SubRow] : S \in SUBSET Subs}

Row == [status : {"none", "scheduled", "skipped", "failed"}, quantity : Nat, amount : Nat,
        order : Nat]

RiderSearch == {"untried", "found", "nobody"}

Order == [sub : Subs, date : Dates, units : Nat, charge : Nat, rider : RiderSearch,
          status : {"confirmed", "cancelled", "delivered"}]

Request == [kind : Kinds, sub : Subs \cup {None}, date : Dates \cup {0}, loaded : Loads,
            todo : SUBSET Subs, units : Nat, order : Nat, plan : Plan, changed : SUBSET Subs]

Types ==
    /\ today \in 1..LastDay /\ hour \in {"day", "late", "beaten"}
    /\ hour # "day" => today < LastDay
    /\ queue \in [Dates -> Nat]
    /\ sub \in [Subs -> SubRow]
    /\ vacations \in [Subs -> SUBSET Ranges]
    /\ row \in [Subs -> [Dates -> Row]]
    /\ orders \in Seq(Order)
    /\ stock \in Nat /\ wallet \in [Customers -> Nat]
    /\ req \in [Workers -> Request]
    /\ crashes \in Nat

\* A row with an order is scheduled, and its order exists; a row without a
\* status is the absence of one.
RowOK ==
    \A s \in Subs, d \in Dates :
        /\ row[s][d].order # 0 => row[s][d].status = "scheduled"
        /\ row[s][d].status = "none" => row[s][d] = NoRow
        /\ row[s][d].order <= Len(orders)

\* What a request is at each step.
ReqOK(p) ==
    LET r == req[p] IN
    /\ r.kind \in {"task", "block", "low", "out", "assign"} =>
          r.date \in Dates /\ \A s \in r.todo : r.loaded[s] \in SubRow
    /\ r.kind \in {"block", "low", "out", "assign"} => r.sub \in r.todo
    /\ r.kind = "assign" => r.order \in DOMAIN orders
    /\ r.kind \in {"skip", "quantity"} => r.sub \in Subs /\ r.date \in Dates
    /\ r.kind \in {"pause", "resume", "edit"} => r.sub \in Subs
    /\ r.kind = "edit" => r.loaded[r.sub] \in SubRow

\* Two requests are about one day at once.
Deciding(p, s, d) == Changing(p, s, d) \/ Generating(p, s, d)

\* While at most one handler decides a day, the row is as the handler read it,
\* the cutoff it passed has not passed since, and the day's order is the row's.
DayOK(s, d) ==
    /\ \A p, q \in Workers : Deciding(p, s, d) /\ Deciding(q, s, d) => p = q
    /\ \A p \in Workers : Generating(p, s, d) => ~Settled(row[s][d])
    /\ \A p \in Workers : Changing(p, s, d) => row[s][d].order = 0 /\ ChangeAllowed(d)
    /\ row[s][d].order # 0 => row[s][d].order \in OrdersFor(s, d)
    /\ \A o \in OrdersFor(s, d) : row[s][d].order = o /\ row[s][d].amount = Total(orders[o].units)

\* A rider has been looked for, or is about to be, or the order's worker died.
RidersOK ==
    \A o \in DOMAIN orders :
        orders[o].rider = "untried" =>
            crashes > 0 \/ \E p \in Workers : req[p].kind = "assign" /\ req[p].order = o

IInv ==
    /\ Types /\ RowOK /\ RidersOK
    /\ \A p \in Workers : ReqOK(p)
    /\ \A s \in Subs, d \in Dates : <<s, d>> \notin raced => DayOK(s, d)

\* A request that goes on as it was, at most told of a change.
Kept(q) ==
    /\ req'[q] \in Request
    /\ req'[q].kind = req[q].kind /\ req'[q].sub = req[q].sub /\ req'[q].date = req[q].date
    /\ req'[q].loaded = req[q].loaded /\ req'[q].todo = req[q].todo /\ req'[q].units = req[q].units
    /\ req'[q].order = req[q].order

\* Orders may change their status, and a rider be looked for.
OrdersKept ==
    /\ orders' \in Seq(Order) /\ Len(orders') = Len(orders)
    /\ \A o \in 1..Len(orders) : /\ orders'[o].sub = orders[o].sub /\ orders'[o].date = orders[o].date
                                 /\ orders'[o].units = orders[o].units
                                 /\ orders[o].rider # "untried" => orders'[o].rider # "untried"

-----------------------------------------------------------------------------
LEMMA PlanQuantity == \A plan \in Plan : plan.quantity \in Nat
  BY SubscriptionsAssumption DEF Plan, NoPlan

LEMMA RestIsRequest ==
    Rest \in Request /\ Rest.kind = "idle" /\ Rest.loaded = <<>> /\ Rest.todo = {}
  BY DEF Rest, Request, Kinds, Loads, Plan

LEMMA NoRowIsRow == NoRow \in Row /\ NoRow.order = 0 /\ NoRow.status = "none" /\ NoRow.amount = 0
  BY DEF NoRow, Row

LEMMA UnitsAreNat ==
    ASSUME Types, NEW s \in Subs, NEW d \in Dates, NEW loaded \in SubRow
    PROVE  Units(s, loaded, d) \in Nat
  BY PlanQuantity DEF Types, Units, SubRow, Row

LEMMA SubsetLoads == ASSUME NEW S \in SUBSET Subs, NEW f \in [S -> SubRow] PROVE f \in Loads
  BY DEF Loads

LEMMA InitIInv == Init => IInv
<1> SUFFICES ASSUME Init PROVE IInv
  OBVIOUS
<1>1. sub \in [Subs -> SubRow]
  BY SubscriptionsAssumption DEF Init, SubRow, Plan
<1>2. Types
  BY <1>1, SubscriptionsAssumption, RestIsRequest, NoRowIsRow DEF Init, Types
<1>3. RowOK
  BY NoRowIsRow DEF Init, RowOK
<1>4. \A p \in Workers : req[p].kind = "idle"
  BY RestIsRequest DEF Init
<1>5. \A p \in Workers : ReqOK(p)
  BY <1>4 DEF ReqOK
<1>6. \A s \in Subs, d \in Dates : DayOK(s, d)
  BY <1>4, NoRowIsRow DEF Init, DayOK, Deciding, Changing, Generating, OrdersFor
<1>7. RidersOK
  BY DEF Init, RidersOK
<1> QED
  BY <1>2, <1>3, <1>5, <1>6, <1>7 DEF IInv

-----------------------------------------------------------------------------
(***************************************************************************)
(* What carries over from one step to the next.                            *)
(***************************************************************************)
LEMMA Unchanged == ASSUME Types, NEW q \in Workers, req'[q] = req[q] PROVE Kept(q)
  BY DEF Types, Kept

LEMMA ToldIsKept ==
    ASSUME Types, NEW s \in Subs, NEW q \in Workers,
           req'[q] = req[q] \/ req'[q] = [req[q] EXCEPT !.changed = @ \cup {s}]
    PROVE  Kept(q)
<1>1. req[q] \in Request
  BY DEF Types
<1> QED
  BY <1>1 DEF Kept, Request

LEMMA KeptReqOK ==
    ASSUME Types, NEW q \in Workers, Kept(q), ReqOK(q), DOMAIN orders \subseteq DOMAIN orders'
    PROVE  ReqOK(q)'
  BY DEF Kept, ReqOK

LEMMA KeptDeciding ==
    ASSUME NEW q \in Workers, Kept(q), NEW s, NEW d
    PROVE  /\ Changing(q, s, d)' <=> Changing(q, s, d)
           /\ Generating(q, s, d)' <=> Generating(q, s, d)
  BY DEF Kept, Changing, Generating

LEMMA SameOrders == ASSUME Types, orders' = orders PROVE OrdersKept /\ DOMAIN orders = 1..Len(orders)
  BY DEF Types, OrdersKept

\* A day nobody newly decides, whose row and orders stay.
LEMMA KeptDay ==
    ASSUME IInv, NEW s \in Subs, NEW d \in Dates, <<s, d>> \notin raced, OrdersKept,
           row'[s][d] = row[s][d],
           \A q \in Workers : Generating(q, s, d)' => Generating(q, s, d),
           \A q \in Workers : Changing(q, s, d)' => Changing(q, s, d) /\ ChangeAllowed(d)'
    PROVE  DayOK(s, d)'
<1>1. DayOK(s, d)
  BY DEF IInv
<1>2. DOMAIN orders = 1..Len(orders) /\ DOMAIN orders' = 1..Len(orders)
  BY DEF IInv, Types, OrdersKept
<1>3. OrdersFor(s, d)' = OrdersFor(s, d)
  BY <1>2 DEF OrdersFor, OrdersKept
<1>4. \A o \in OrdersFor(s, d) : orders'[o].units = orders[o].units
  BY <1>2 DEF OrdersFor, OrdersKept
<1> QED
  BY <1>1, <1>3, <1>4 DEF DayOK, Deciding, Settled, Total

LEMMA KeptRows == ASSUME RowOK, row' = row, OrdersKept PROVE RowOK'
  BY DEF RowOK, OrdersKept

\* A search is not undone, and whoever is about to look for a rider goes on.
LEMMA KeptRiders ==
    ASSUME IInv, OrdersKept, crashes' = crashes,
           \A q \in Workers : req[q].kind = "assign" => Kept(q)
    PROVE  RidersOK'
<1>1. DOMAIN orders = 1..Len(orders) /\ DOMAIN orders' = 1..Len(orders)
  BY DEF IInv, Types, OrdersKept
<1>2. \A o \in 1..Len(orders) : orders'[o].rider = "untried" => orders[o].rider = "untried"
  BY DEF OrdersKept
<1> QED
  BY <1>1, <1>2 DEF IInv, RidersOK, Kept

\* The day its only handler is at has no order yet.
LEMMA OwnDay ==
    ASSUME IInv, NEW p \in Workers, NEW s \in Subs, NEW d \in Dates, <<s, d>> \notin raced,
           Deciding(p, s, d)
    PROVE  /\ row[s][d].order = 0 /\ OrdersFor(s, d) = {}
           /\ \A q \in Workers \ {p} : ~Deciding(q, s, d)
           /\ Generating(p, s, d) => row[s][d].status \in {"none", "scheduled", "failed"}
           /\ Changing(p, s, d) => ChangeAllowed(d)
<1>1. DayOK(s, d) /\ row[s][d] \in Row
  BY DEF IInv, Types
<1>2. row[s][d].order = 0
  BY <1>1 DEF DayOK, Deciding, Settled
<1>3. OrdersFor(s, d) = {}
  <2>1. \A o \in OrdersFor(s, d) : o # 0
    BY DEF IInv, Types, OrdersFor
  <2> QED
    BY <1>1, <1>2, <2>1 DEF DayOK
<1> QED
  BY <1>1, <1>2, <1>3 DEF DayOK, Deciding, Settled, Row

-----------------------------------------------------------------------------
(***************************************************************************)
(* Steps that decide no day.                                               *)
(***************************************************************************)

\* The clock, the queue and the customer's money; a change let through for
\* tomorrow that is still unsaved at the cutoff races with the generation.
LEMMA ClockStep ==
    ASSUME IInv, Clock \/ \E c \in Customers : TopUp(c) PROVE IInv'
<1>1. /\ UNCHANGED <<sub, vacations, row, orders, stock, req, crashes>>
      /\ raced \subseteq raced'
  BY DEF Clock, CutoffPasses, Beat, Midnight, Replay, TopUp, Budget, bookVars, scheduleVars, countVars
<1>2. today \in Int /\ today >= 1 /\ LastDay \in Int /\ hour \in {"day", "late", "beaten"}
  BY SubscriptionsAssumption DEF IInv, Types
<1>3. Types'
  <2>1. today' \in 1..LastDay /\ hour' \in {"day", "late", "beaten"} /\ (hour' # "day" => today' < LastDay)
    BY <1>2, SubscriptionsAssumption
       DEF IInv, Types, Clock, CutoffPasses, Beat, Midnight, Replay, TopUp, clockVars
  <2>2. queue' \in [Dates -> Nat]
    <3>1. queue \in [Dates -> Nat]
      BY DEF IInv, Types
    <3>2. CASE Beat
      BY <3>1, <3>2 DEF Beat
    <3>3. CASE \E d \in Dates : Replay(d)
      BY <3>1, <3>3 DEF Replay
    <3>4. CASE queue' = queue
      BY <3>1, <3>4
    <3> QED
      BY <3>2, <3>3, <3>4 DEF Clock, CutoffPasses, Midnight, TopUp, clockVars
  <2>3. wallet' \in [Customers -> Nat]
    BY DEF IInv, Types, Clock, CutoffPasses, Beat, Midnight, Replay, TopUp, bookVars
  <2> QED
    BY <1>1, <2>1, <2>2, <2>3 DEF IInv, Types
<1>4. OrdersKept /\ \A q \in Workers : Kept(q)
  BY <1>1, SameOrders, Unchanged DEF IInv
<1>5. RowOK' /\ RidersOK'
  BY <1>1, <1>4, KeptRows, KeptRiders DEF IInv
<1>6. \A q \in Workers : ReqOK(q)'
  BY <1>1 DEF IInv, ReqOK
<1>7. ASSUME NEW s \in Subs, NEW d \in Dates, <<s, d>> \notin raced'
      PROVE  DayOK(s, d)'
  <2>1. <<s, d>> \notin raced /\ DayOK(s, d) /\ d \in Int
    BY <1>1, <1>7, SubscriptionsAssumption DEF IInv
  <2>2. \A q \in Workers : /\ Changing(q, s, d)' <=> Changing(q, s, d)
                           /\ Generating(q, s, d)' <=> Generating(q, s, d)
    BY <1>4, KeptDeciding
  <2>3. ASSUME NEW q \in Workers, Changing(q, s, d) PROVE ChangeAllowed(d)'
    <3>1. ChangeAllowed(d)
      BY <2>1, <2>3 DEF DayOK
    <3>2. CASE CutoffPasses
      <4>1. d # today + 1
        BY <1>7, <2>3, <3>2 DEF CutoffPasses
      <4> QED
        BY <1>2, <2>1, <3>1, <3>2, <4>1 DEF CutoffPasses, ChangeAllowed
    <3>3. CASE Beat
      BY <1>2, <2>1, <3>1, <3>3 DEF Beat, ChangeAllowed
    <3>4. CASE Midnight
      BY <1>2, <2>1, <3>1, <3>4 DEF Midnight, ChangeAllowed
    <3>5. CASE UNCHANGED <<today, hour>>
      BY <3>1, <3>5 DEF ChangeAllowed
    <3> QED
      BY <3>2, <3>3, <3>4, <3>5 DEF Clock, Replay, TopUp, clockVars
  <2> QED
    BY <1>1, <1>4, <2>1, <2>2, <2>3, KeptDay
<1> QED
  BY <1>3, <1>5, <1>6, <1>7 DEF IInv

\* A day that the worker enters alone, and undecided.
FreshDay(p, s, d) ==
    /\ \A q \in Workers \ {p} : ~Deciding(q, s, d)
    /\ Generating(p, s, d)' => ~Settled(row[s][d])
    /\ Changing(p, s, d)' => row[s][d].order = 0 /\ ChangeAllowed(d)

Moves(p) == req' = [req EXCEPT ![p] = req'[p]] /\ req'[p] \in Request

\* One worker goes on; its day is the one it was generating, or a fresh one.
LEMMA OneWorker ==
    ASSUME IInv, NEW p \in Workers,
           Moves(p), ReqOK(p)', raced \subseteq raced', queue' \in [Dates -> Nat], crashes' \in Nat,
           UNCHANGED <<today, hour, sub, vacations, row, orders, stock, wallet>>,
           crashes' > 0 \/ (crashes' = crashes /\ req[p].kind # "assign"),
           \A s \in Subs, d \in Dates :
               <<s, d>> \notin raced' /\ Deciding(p, s, d)' =>
                   (Generating(p, s, d) /\ ~Changing(p, s, d)') \/ FreshDay(p, s, d)
    PROVE  IInv'
<1>1. OrdersKept /\ \A q \in Workers \ {p} : Kept(q)
  BY SameOrders, Unchanged DEF IInv, Types, Moves
<1>2. Types'
  BY DEF IInv, Types, Moves
<1>3. RowOK'
  BY <1>1, KeptRows DEF IInv
<1>4. RidersOK'
  <2>1. CASE crashes' > 0
    BY <2>1 DEF RidersOK
  <2>2. CASE crashes' = crashes /\ req[p].kind # "assign"
    BY <1>1, <2>2, KeptRiders
  <2> QED
    BY <2>1, <2>2
<1>5. \A q \in Workers : ReqOK(q)'
  BY <1>1, KeptReqOK DEF IInv
<1>6. ASSUME NEW s \in Subs, NEW d \in Dates, <<s, d>> \notin raced'
      PROVE  DayOK(s, d)'
  <2>1. <<s, d>> \notin raced /\ DayOK(s, d) /\ (ChangeAllowed(d)' <=> ChangeAllowed(d))
    BY <1>6 DEF IInv, ChangeAllowed
  <2>2. \A q \in Workers \ {p} : /\ Changing(q, s, d)' <=> Changing(q, s, d)
                                 /\ Generating(q, s, d)' <=> Generating(q, s, d)
    BY <1>1, KeptDeciding
  <2>3. \A q \in Workers : Changing(q, s, d) => ChangeAllowed(d)
    BY <2>1 DEF DayOK
  <2>4. CASE Deciding(p, s, d)' => Generating(p, s, d) /\ ~Changing(p, s, d)'
    BY <1>1, <2>1, <2>2, <2>3, <2>4, KeptDay DEF Deciding
  <2>5. CASE FreshDay(p, s, d)
    <3>1. OrdersFor(s, d)' = OrdersFor(s, d)
      BY DEF OrdersFor
    <3>2. \A q \in Workers \ {p} : ~Deciding(q, s, d)'
      BY <2>2, <2>5 DEF FreshDay, Deciding
    <3> QED
      BY <2>1, <2>5, <3>1, <3>2 DEF FreshDay, DayOK, Deciding, Settled
  <2> QED
    BY <1>6, <2>4, <2>5
<1> QED
  BY <1>2, <1>3, <1>4, <1>5, <1>6 DEF IInv

\* A task that goes on with less, or ends.
LEMMA OnwardIs ==
    ASSUME NEW STATE r, NEW STATE todo, todo \in SUBSET Subs, r.date \in Dates,
           r.changed \in SUBSET Subs, \A s \in todo : r.loaded[s] \in SubRow
    PROVE  /\ Onward(r, todo) \in Request /\ Onward(r, todo).kind \in {"idle", "task"}
           /\ Onward(r, todo).kind = "task" =>
                 /\ Onward(r, todo).date \in Dates
                 /\ \A s \in Onward(r, todo).todo : Onward(r, todo).loaded[s] \in SubRow
<1>1. CASE todo = {}
  BY <1>1, RestIsRequest DEF Onward
<1>2. CASE todo # {}
  <2> DEFINE new == [Rest EXCEPT !.kind = "task", !.date = r.date, !.todo = todo, !.changed = r.changed,
                                 !.loaded = [s \in todo |-> r.loaded[s]]]
  <2>1. Onward(r, todo) = new
    BY <1>2 DEF Onward
  <2>2. [s \in todo |-> r.loaded[s]] \in [todo -> SubRow]
    OBVIOUS
  <2>3. [s \in todo |-> r.loaded[s]] \in Loads
    BY <2>2 DEF Loads
  <2>4. new \in Request /\ new.kind = "task" /\ new.date = r.date /\ new.todo = todo
        /\ new.loaded = [s \in todo |-> r.loaded[s]]
    BY <2>3, RestIsRequest DEF Request, Kinds, Rest
  <2> QED
    BY <2>1, <2>4
<1> QED
  BY <1>1, <1>2

LEMMA SubsLoaded == Types => \A s \in Subs : sub[s] \in SubRow
  BY DEF Types

LEMMA SubIsLoads == ASSUME Types PROVE sub \in Loads
  BY SubsetLoads DEF Types

-----------------------------------------------------------------------------
(***************************************************************************)
(* Tasks and requests begin, go on and die.                                *)
(***************************************************************************)
LEMMA StartTaskStep ==
    ASSUME IInv, NEW p \in Workers, NEW d \in Dates, StartTask(p, d) PROVE IInv'
<1> DEFINE r == [Rest EXCEPT !.date = d, !.loaded = sub]
           todo == {s \in Subs : sub[s].status = "active"}
<1>1. /\ req[p].kind = "idle" /\ queue' = [queue EXCEPT ![d] = @ - 1] /\ queue[d] > 0
      /\ req' = [req EXCEPT ![p] = Onward(r, todo)]
      /\ UNCHANGED <<today, hour, sub, vacations, row, orders, stock, wallet, crashes, raced>>
  BY DEF StartTask, Idle, scheduleVars, bookVars, countVars
<1>2. r.date = d /\ r.loaded = sub /\ r.changed = {}
  BY DEF Rest
<1>3. /\ Onward(r, todo) \in Request /\ Onward(r, todo).kind \in {"idle", "task"}
      /\ Onward(r, todo).kind = "task" =>
            /\ Onward(r, todo).date \in Dates
            /\ \A s \in Onward(r, todo).todo : Onward(r, todo).loaded[s] \in SubRow
  <2>1. \A s \in todo : r.loaded[s] \in SubRow
    BY <1>2, SubsLoaded DEF IInv
  <2>2. todo \in SUBSET Subs /\ r.changed \in SUBSET Subs
    BY <1>2
  <2> HIDE DEF r, todo
  <2> QED
    BY <1>2, <2>1, <2>2, OnwardIs
<1> HIDE DEF r, todo
<1>4. queue' \in [Dates -> Nat] /\ req'[p] = Onward(r, todo) /\ Moves(p)
  BY <1>1, <1>3 DEF IInv, Types, Moves
<1>5. ReqOK(p)' /\ \A s, x : ~Deciding(p, s, x)'
  BY <1>3, <1>4 DEF ReqOK, Deciding, Changing, Generating
<1> QED
  BY <1>1, <1>4, <1>5, OneWorker DEF IInv, Types

\* The worker enters a generation, which NoteRace finds alone or marks.
LEMMA DecideStep ==
    ASSUME IInv, NEW p \in Workers, NEW s \in Subs, Decide(p, s) PROVE IInv'
<1> DEFINE r == req[p]
<1>1. /\ r \in Request /\ r.kind = "task" /\ s \in r.todo /\ r.date \in Dates
      /\ r.todo \in SUBSET Subs /\ r.changed \in SUBSET Subs
      /\ \A t \in r.todo : r.loaded[t] \in SubRow
  BY DEF IInv, Types, ReqOK, Decide, Request
<1>2. UNCHANGED <<today, hour, queue, sub, vacations, row, orders, stock, wallet, crashes>>
  BY DEF Decide, clockVars, scheduleVars, bookVars, countVars
<1>3. CASE req' = [req EXCEPT ![p] = Onward(r, r.todo \ {s})] /\ raced' = raced
  <2>1. r.todo \ {s} \in SUBSET Subs /\ \A t \in r.todo \ {s} : r.loaded[t] \in SubRow
    BY <1>1
  <2>2. /\ Onward(r, r.todo \ {s}) \in Request /\ Onward(r, r.todo \ {s}).kind \in {"idle", "task"}
        /\ Onward(r, r.todo \ {s}).kind = "task" =>
              /\ Onward(r, r.todo \ {s}).date \in Dates
              /\ \A t \in Onward(r, r.todo \ {s}).todo : Onward(r, r.todo \ {s}).loaded[t] \in SubRow
    BY <1>1, <2>1, OnwardIs
  <2>3. req'[p] = Onward(r, r.todo \ {s}) /\ Moves(p)
    BY <1>3, <2>2 DEF IInv, Types, Moves
  <2>4. ReqOK(p)' /\ \A t, x : ~Deciding(p, t, x)'
    BY <2>2, <2>3 DEF ReqOK, Deciding, Changing, Generating
  <2> QED
    BY <1>1, <1>2, <1>3, <2>3, <2>4, OneWorker DEF IInv, Types
<1>4. CASE /\ ~Settled(row[s][r.date])
           /\ req' = [req EXCEPT ![p].kind = "block", ![p].sub = s,
                                 ![p].units = Units(s, r.loaded[s], r.date)]
           /\ NoteRace(p, s, r.date)
  <2>1. Units(s, r.loaded[s], r.date) \in Nat
    BY <1>1, UnitsAreNat DEF IInv
  <2>2. req'[p] = [r EXCEPT !.kind = "block", !.sub = s, !.units = Units(s, r.loaded[s], r.date)]
    BY <1>4 DEF IInv, Types
  <2>3. /\ req'[p] \in Request /\ req'[p].kind = "block" /\ req'[p].sub = s
        /\ req'[p].date = r.date /\ req'[p].todo = r.todo /\ req'[p].loaded = r.loaded
    BY <1>1, <2>1, <2>2 DEF Request, Kinds
  <2>4. Moves(p)
    BY <1>4, <2>2, <2>3 DEF IInv, Types, Moves
  <2>5. ReqOK(p)'
    BY <1>1, <2>3 DEF ReqOK
  <2>6. raced \subseteq raced'
    BY <1>4 DEF NoteRace
  <2>7. ASSUME NEW t \in Subs, NEW x \in Dates, <<t, x>> \notin raced', Deciding(p, t, x)'
        PROVE  FreshDay(p, t, x)
    <3>1. t = s /\ x = r.date /\ ~Changing(p, t, x)'
      BY <2>3, <2>7 DEF Deciding, Changing, Generating
    <3>2. \A q \in Workers \ {p} : ~(Changing(q, s, r.date) \/ Generating(q, s, r.date))
      BY <1>4, <2>7, <3>1 DEF NoteRace
    <3> QED
      BY <1>4, <3>1, <3>2 DEF FreshDay, Deciding
  <2> QED
    BY <1>1, <1>2, <2>4, <2>5, <2>6, <2>7, OneWorker DEF IInv, Types
<1> QED
  BY <1>3, <1>4 DEF Decide

\* The same for a customer's change of a day.
LEMMA AskDayStep ==
    ASSUME IInv, NEW p \in Workers, NEW s \in Subs, NEW d \in Dates,
           NEW units \in {0} \cup Quantities, AskDay(p, s, d, units)
    PROVE  IInv'
<1> DEFINE kind == IF units = 0 THEN "skip" ELSE "quantity"
           saved == IF units = 0 THEN Units(s, sub[s], d) ELSE units
           r == [Rest EXCEPT !.kind = kind, !.sub = s, !.date = d, !.units = saved]
<1>1. /\ req[p].kind = "idle" /\ ChangeAllowed(d) /\ row[s][d].order = 0
      /\ req' = [req EXCEPT ![p] = r] /\ NoteRace(p, s, d)
      /\ UNCHANGED <<today, hour, queue, sub, vacations, row, orders, stock, wallet, crashes>>
  BY DEF AskDay, Idle, Budget, clockVars, scheduleVars, bookVars
<1>2. saved \in Nat
  BY UnitsAreNat, SubsLoaded, SubscriptionsAssumption DEF IInv
<1> HIDE DEF saved
<1>3. r \in Request /\ r.kind = kind /\ r.sub = s /\ r.date = d
  BY <1>2, RestIsRequest DEF Rest, Request, Kinds
<1>4. req'[p] = r /\ Moves(p)
  BY <1>1, <1>3 DEF IInv, Types, Moves
<1>5. ReqOK(p)' /\ raced \subseteq raced'
  BY <1>1, <1>3, <1>4 DEF ReqOK, NoteRace
<1>6. ASSUME NEW t \in Subs, NEW x \in Dates, <<t, x>> \notin raced', Deciding(p, t, x)'
      PROVE  FreshDay(p, t, x)
  <2>1. t = s /\ x = d /\ ~Generating(p, t, x)'
    BY <1>3, <1>4, <1>6 DEF Deciding, Changing, Generating
  <2>2. \A q \in Workers \ {p} : ~(Changing(q, s, d) \/ Generating(q, s, d))
    BY <1>1, <1>6, <2>1 DEF NoteRace
  <2> QED
    BY <1>1, <2>1, <2>2 DEF FreshDay, Deciding
<1> QED
  BY <1>1, <1>4, <1>5, <1>6, OneWorker DEF IInv, Types

LEMMA AskStep ==
    ASSUME IInv, NEW p \in Workers, NEW s \in Subs, Ask(p, s) PROVE IInv'
<1>1. CASE \E d \in Dates, units \in {0} \cup Quantities : AskDay(p, s, d, units)
  BY <1>1, AskDayStep
<1>2. ASSUME NEW STATE r, r \in Request, r.kind \in {"pause", "resume", "edit"}, r.sub = s,
             r.kind = "edit" => r.loaded[s] \in SubRow,
             Idle(p), Budget, req' = [req EXCEPT ![p] = r],
             UNCHANGED <<clockVars, scheduleVars, row, bookVars, raced, reverted>>
      PROVE  IInv'
  <2>1. req'[p] = r /\ Moves(p)
    BY <1>2 DEF IInv, Types, Moves
  <2>2. ReqOK(p)' /\ \A t, x : ~Deciding(p, t, x)'
    BY <1>2, <2>1 DEF ReqOK, Deciding, Changing, Generating
  <2>3. queue' \in [Dates -> Nat] /\ crashes' = crashes /\ crashes \in Nat
    BY <1>2 DEF IInv, Types, clockVars, Budget
  <2> QED
    BY <1>2, <2>1, <2>2, <2>3, OneWorker DEF Idle, clockVars, scheduleVars, bookVars
<1>3. ASSUME NEW kind \in {"pause", "resume"}, AskStatus(p, s, kind) PROVE IInv'
  <2> DEFINE r == [Rest EXCEPT !.kind = kind, !.sub = s]
  <2>1. r \in Request /\ r.kind = kind /\ r.sub = s
    BY RestIsRequest DEF Rest, Request, Kinds
  <2> QED
    BY <1>2, <1>3, <2>1 DEF AskStatus
<1>4. ASSUME NEW plan \in Plans, AskPlan(p, s, plan) PROVE IInv'
  <2> DEFINE r == [Rest EXCEPT !.kind = "edit", !.sub = s, !.loaded = sub, !.plan = plan]
  <2>1. r \in Request /\ r.kind = "edit" /\ r.sub = s /\ r.loaded = sub
    BY RestIsRequest, SubIsLoads DEF IInv, Rest, Request, Kinds, Plan
  <2>2. sub[s] \in SubRow
    BY SubsLoaded DEF IInv
  <2> QED
    BY <1>2, <1>4, <2>1, <2>2 DEF AskPlan
<1> QED
  BY <1>1, <1>3, <1>4 DEF Ask

LEMMA CrashOrRollBack ==
    ASSUME IInv, NEW p \in Workers, Crash(p) \/ RollBack(p) PROVE IInv'
<1>1. CASE Crash(p)
  <2>1. crashes' \in Nat /\ crashes' > 0 /\ req'[p] = Rest /\ Moves(p)
    BY <1>1, RestIsRequest DEF Crash, IInv, Types, Moves
  <2>2. ReqOK(p)' /\ \A t, x : ~Deciding(p, t, x)'
    BY <2>1, RestIsRequest DEF ReqOK, Deciding, Changing, Generating
  <2> QED
    BY <1>1, <2>1, <2>2, OneWorker DEF Crash, IInv, Types, clockVars, scheduleVars, bookVars
<1>2. CASE RollBack(p)
  <2> DEFINE r == req[p]
  <2>1. r.kind = "block" /\ r \in Request
    BY <1>2 DEF RollBack, IInv, Types
  <2>2. PICK kind \in {"low", "out"} : req' = [req EXCEPT ![p].kind = kind]
    BY <1>2 DEF RollBack
  <2>3. req'[p] = [r EXCEPT !.kind = kind]
    BY <2>2 DEF IInv, Types
  <2>4. /\ req'[p] \in Request /\ req'[p].kind = kind /\ req'[p].sub = r.sub /\ req'[p].date = r.date
        /\ req'[p].todo = r.todo /\ req'[p].loaded = r.loaded
    BY <2>1, <2>3 DEF Request, Kinds
  <2>5. Moves(p)
    BY <2>2, <2>3, <2>4 DEF IInv, Types, Moves
  <2>6. ReqOK(p)
    BY DEF IInv
  <2>7. ReqOK(p)' /\ \A t, x : Deciding(p, t, x)' => Generating(p, t, x) /\ ~Changing(p, t, x)'
    BY <2>1, <2>4, <2>6 DEF ReqOK, Deciding, Changing, Generating
  <2>8. UNCHANGED <<today, hour, queue, sub, vacations, row, orders, stock, wallet, crashes, raced>>
    BY <1>2 DEF RollBack, StockOnFailure, clockVars, scheduleVars, countVars
  <2> QED
    BY <2>1, <2>5, <2>7, <2>8, OneWorker DEF IInv, Types
<1> QED
  BY <1>1, <1>2

-----------------------------------------------------------------------------
(***************************************************************************)
(* Schedules are changed, and whoever has loaded one is told.              *)
(***************************************************************************)
LEMMA AllKept ==
    ASSUME IInv, DOMAIN req' = Workers, req' = [q \in Workers |-> req'[q]],
           \A q \in Workers : \/ Kept(q)
                              \/ req'[q] = Rest /\ req[q].kind # "assign",
           UNCHANGED <<today, hour, queue, row, orders, stock, wallet, crashes, raced>>,
           sub' \in [Subs -> SubRow], vacations' \in [Subs -> SUBSET Ranges]
    PROVE  IInv'
<1>1. OrdersKept
  BY SameOrders DEF IInv
<1>2. Types'
  <2>1. \A q \in Workers : req'[q] \in Request
    BY RestIsRequest DEF Kept
  <2> QED
    BY <2>1 DEF IInv, Types
<1>3. RowOK' /\ RidersOK'
  <2>1. \A q \in Workers : req[q].kind = "assign" => Kept(q)
    OBVIOUS
  <2> QED
    BY <1>1, <2>1, KeptRows, KeptRiders DEF IInv
<1>4. ASSUME NEW q \in Workers
      PROVE  ReqOK(q)' /\ \A s, d : /\ Changing(q, s, d)' => Changing(q, s, d)
                                    /\ Generating(q, s, d)' => Generating(q, s, d)
  <2>1. CASE Kept(q)
    BY <2>1, KeptReqOK, KeptDeciding DEF IInv
  <2>2. CASE req'[q] = Rest
    BY <2>2, RestIsRequest DEF ReqOK, Changing, Generating
  <2> QED
    BY <2>1, <2>2
<1>5. ASSUME NEW s \in Subs, NEW d \in Dates, <<s, d>> \notin raced'
      PROVE  DayOK(s, d)'
  <2>1. <<s, d>> \notin raced /\ DayOK(s, d) /\ (ChangeAllowed(d)' <=> ChangeAllowed(d))
    BY <1>5 DEF IInv, ChangeAllowed
  <2>2. \A q \in Workers : Changing(q, s, d) => ChangeAllowed(d)
    BY <2>1 DEF DayOK
  <2> QED
    BY <1>1, <1>4, <2>1, <2>2, KeptDay
<1> QED
  BY <1>2, <1>3, <1>4, <1>5 DEF IInv

LEMMA ToldIs ==
    ASSUME IInv, NEW s \in Subs, NEW STATE unaware,
           req' = Told(s, unaware)
    PROVE  /\ DOMAIN req' = Workers /\ req' = [q \in Workers |-> req'[q]]
           /\ \A q \in Workers : Kept(q)
<1>1. \A q \in Workers : req'[q] = req[q] \/ req'[q] = [req[q] EXCEPT !.changed = @ \cup {s}]
  BY DEF Told
<1>2. \A q \in Workers : Kept(q)
  BY <1>1, ToldIsKept DEF IInv
<1> QED
  BY <1>2 DEF Told

LEMMA ScheduleStep ==
    ASSUME IInv, NEW s \in Subs, Customer(s) PROVE IInv'
<1>1. sub \in [Subs -> SubRow] /\ vacations \in [Subs -> SUBSET Ranges] /\ sub[s] \in SubRow
  BY DEF IInv, Types
<1>2. ASSUME NEW STATE new, new \in SubRow, SaveSub(None, s, new), Budget,
             UNCHANGED <<clockVars, vacations, row, bookVars, raced, reverted>>
      PROVE  IInv'
  <2>1. req' = AllTold(s) /\ sub' = [sub EXCEPT ![s] = new]
    BY <1>2 DEF SaveSub
  <2>2. /\ DOMAIN req' = Workers /\ req' = [q \in Workers |-> req'[q]]
        /\ \A q \in Workers : Kept(q)
    BY <2>1, ToldIs DEF AllTold
  <2>3. sub' \in [Subs -> SubRow]
    BY <1>1, <1>2, <2>1
  <2> QED
    BY <1>1, <1>2, <2>2, <2>3, AllKept DEF Budget, clockVars, bookVars
<1>3. ASSUME NEW plan \in Plans, Create(s, plan) PROVE IInv'
  <2>1. [status |-> "active", plan |-> plan] \in SubRow
    BY DEF SubRow, Plan
  <2> QED
    BY <1>2, <1>3, <2>1 DEF Create
<1>4. CASE CancelSub(s)
  <2>1. [sub[s] EXCEPT !.status = "cancelled"] \in SubRow
    BY <1>1 DEF SubRow
  <2> QED
    BY <1>2, <1>4, <2>1 DEF CancelSub
<1>5. ASSUME NEW range \in Ranges, AddVacation(s, range) \/ EndVacation(s, range) PROVE IInv'
  <2>1. /\ req' = TasksTold(s)
        /\ UNCHANGED <<clockVars, sub, row, bookVars, raced, reverted, crashes>>
        /\ vacations' \in [Subs -> SUBSET Ranges]
    BY <1>1, <1>5 DEF AddVacation, EndVacation, Budget
  <2>2. /\ DOMAIN req' = Workers /\ req' = [q \in Workers |-> req'[q]]
        /\ \A q \in Workers : Kept(q)
    BY <2>1, ToldIs DEF TasksTold
  <2> QED
    BY <1>1, <2>1, <2>2, AllKept DEF clockVars, bookVars
<1> QED
  BY <1>3, <1>4, <1>5 DEF Customer

LEMMA SavePlanStep ==
    ASSUME IInv, NEW p \in Workers, SavePlan(p) PROVE IInv'
<1> DEFINE r == req[p]
           s == r.sub
           new == CASE r.kind = "pause"  -> [sub[s] EXCEPT !.status = "paused"]
                    [] r.kind = "resume" -> [sub[s] EXCEPT !.status = "active"]
                    [] r.kind = "edit"   -> [status |-> r.loaded[s].status, plan |-> r.plan]
<1>1. /\ r.kind \in {"pause", "resume", "edit"} /\ r \in Request /\ s \in Subs
      /\ r.kind = "edit" => r.loaded[s] \in SubRow
      /\ sub \in [Subs -> SubRow] /\ sub[s] \in SubRow
  BY DEF SavePlan, IInv, Types, ReqOK
<1>2. new \in SubRow
  <2>1. CASE r.kind = "pause"
    BY <1>1, <2>1 DEF SubRow
  <2>2. CASE r.kind = "resume"
    BY <1>1, <2>2 DEF SubRow
  <2>3. CASE r.kind = "edit"
    <3>1. r.loaded[s].status \in {"none", "active", "paused", "cancelled"} /\ r.plan \in Plan
      BY <1>1, <2>3 DEF SubRow, Request
    <3> QED
      BY <2>3, <3>1 DEF SubRow
  <2> QED
    BY <1>1, <2>1, <2>2, <2>3
<1> HIDE DEF new
<1>3. /\ sub' = [sub EXCEPT ![s] = new]
      /\ req' = [AllTold(s) EXCEPT ![p] = Rest]
      /\ UNCHANGED <<clockVars, vacations, row, bookVars, countVars, raced>>
  <2>1. SaveSub(p, s, new) /\ UNCHANGED <<clockVars, vacations, row, bookVars, countVars, raced>>
    BY DEF SavePlan, new
  <2>2. CASE p # None
    BY <2>1, <2>2 DEF SaveSub
  <2>3. p # None
    BY SubscriptionsAssumption
  <2> QED
    BY <2>2, <2>3
<1>4. \A q \in Workers \ {p} : Kept(q)
  <2>1. \A q \in Workers \ {p} : req'[q] = req[q] \/ req'[q] = [req[q] EXCEPT !.changed = @ \cup {s}]
    BY <1>3 DEF AllTold, Told
  <2> QED
    BY <1>1, <2>1, ToldIsKept DEF IInv
<1>5. DOMAIN req' = Workers /\ req' = [q \in Workers |-> req'[q]] /\ req'[p] = Rest
  BY <1>3 DEF AllTold, Told
<1>6. sub' \in [Subs -> SubRow]
  BY <1>1, <1>2, <1>3
<1>7. r.kind # "assign" /\ vacations' \in [Subs -> SUBSET Ranges]
  BY <1>1, <1>3 DEF IInv, Types
<1> QED
  BY <1>3, <1>4, <1>5, <1>6, <1>7, AllKept DEF clockVars, bookVars, countVars

-----------------------------------------------------------------------------
(***************************************************************************)
(* Rows and orders are written.                                            *)
(***************************************************************************)

\* A worker writes its day without an order and is done with it.
LEMMA WriteRow ==
    ASSUME IInv, NEW p \in Workers, NEW s \in Subs, NEW d \in Dates, Deciding(p, s, d),
           NEW STATE x, x \in Row, x.order = 0, x.status # "none",
           row' = [row EXCEPT ![s][d] = x],
           DOMAIN req' = Workers, req' = [q \in Workers |-> req'[q]],
           \A q \in Workers \ {p} : Kept(q),
           req'[p] \in Request, ReqOK(p)', \A t, y : ~Deciding(p, t, y)',
           UNCHANGED <<today, hour, queue, sub, vacations, orders, stock, wallet, crashes, raced>>
    PROVE  IInv'
<1>1. OrdersKept
  BY SameOrders DEF IInv
<1>2. row \in [Subs -> [Dates -> Row]] /\ row' \in [Subs -> [Dates -> Row]]
  BY DEF IInv, Types
<1>3. row'[s][d] = x /\ \A t \in Subs, y \in Dates : <<t, y>> # <<s, d>> => row'[t][y] = row[t][y]
  BY <1>2
<1>4. Types'
  <2>1. \A q \in Workers : req'[q] \in Request
    BY DEF Kept
  <2> QED
    BY <1>2, <2>1 DEF IInv, Types
<1>5. RowOK'
  <2> SUFFICES ASSUME NEW t \in Subs, NEW y \in Dates
               PROVE  /\ row'[t][y].order # 0 => row'[t][y].status = "scheduled"
                      /\ row'[t][y].status = "none" => row'[t][y] = NoRow
                      /\ row'[t][y].order <= Len(orders')
    BY DEF RowOK
  <2>1. CASE <<t, y>> = <<s, d>>
    <3>1. Len(orders) \in Nat
      BY DEF IInv, Types
    <3> QED
      BY <1>3, <2>1, <3>1
  <2>2. CASE <<t, y>> # <<s, d>>
    BY <1>3, <2>2 DEF IInv, RowOK
  <2> QED
    BY <2>1, <2>2
<1>6. RidersOK'
  <2>1. req[p].kind # "assign"
    BY DEF Deciding, Changing, Generating
  <2> QED
    BY <1>1, <2>1, KeptRiders
<1>7. \A q \in Workers : ReqOK(q)'
  BY KeptReqOK DEF IInv
<1>8. \A q \in Workers \ {p} : \A t, y : /\ Changing(q, t, y)' <=> Changing(q, t, y)
                                         /\ Generating(q, t, y)' <=> Generating(q, t, y)
  BY KeptDeciding
<1>9. ASSUME NEW t \in Subs, NEW y \in Dates, <<t, y>> \notin raced'
      PROVE  DayOK(t, y)'
  <2>1. <<t, y>> \notin raced /\ DayOK(t, y) /\ (ChangeAllowed(y)' <=> ChangeAllowed(y))
    BY <1>9 DEF IInv, ChangeAllowed
  <2>2. CASE <<t, y>> = <<s, d>>
    <3>1. OrdersFor(s, d) = {} /\ \A q \in Workers \ {p} : ~Deciding(q, s, d)
      BY <2>1, <2>2, OwnDay
    <3>2. \A q \in Workers : ~Deciding(q, s, d)'
      BY <1>8, <3>1 DEF Deciding
    <3>3. OrdersFor(s, d)' = {}
      BY <3>1 DEF OrdersFor
    <3> QED
      BY <1>3, <2>2, <3>2, <3>3 DEF DayOK, Deciding
  <2>3. CASE <<t, y>> # <<s, d>>
    <3>1. row'[t][y] = row[t][y]
      BY <1>3, <2>3
    <3>2. \A q \in Workers : /\ Generating(q, t, y)' => Generating(q, t, y)
                             /\ Changing(q, t, y)' => Changing(q, t, y) /\ ChangeAllowed(y)'
      BY <1>8, <2>1 DEF DayOK, Deciding
    <3> QED
      BY <1>1, <2>1, <3>1, <3>2, KeptDay
  <2> QED
    BY <2>2, <2>3
<1> QED
  BY <1>4, <1>5, <1>6, <1>7, <1>9 DEF IInv

\* What is left of a task's list is still loaded.
LEMMA RestOfTask ==
    ASSUME IInv, NEW p \in Workers, req[p].kind \in {"low", "out", "assign"},
           DOMAIN req' = Workers, req'[p] = Onward(req[p], req[p].todo \ {req[p].sub})
    PROVE  req'[p] \in Request /\ ReqOK(p)' /\ \A t, y : ~Deciding(p, t, y)'
<1> DEFINE r == req[p]
           todo == r.todo \ {r.sub}
<1>1. /\ r \in Request /\ r.date \in Dates /\ todo \in SUBSET Subs /\ r.changed \in SUBSET Subs
      /\ \A s \in todo : r.loaded[s] \in SubRow
  BY DEF IInv, Types, ReqOK, Request
<1>2. /\ Onward(r, todo) \in Request /\ Onward(r, todo).kind \in {"idle", "task"}
      /\ Onward(r, todo).kind = "task" =>
            /\ Onward(r, todo).date \in Dates
            /\ \A s \in Onward(r, todo).todo : Onward(r, todo).loaded[s] \in SubRow
  BY <1>1, OnwardIs
<1> QED
  BY <1>2 DEF ReqOK, Deciding, Changing, Generating

LEMMA RecordFailureStep ==
    ASSUME IInv, NEW p \in Workers, RecordFailure(p) PROVE IInv'
<1> DEFINE r == req[p]
           x == [NoRow EXCEPT !.status = IF r.kind = "low" THEN "failed" ELSE "skipped",
                              !.quantity = r.units]
<1>1. /\ r.kind \in {"low", "out"} /\ r \in Request /\ r.sub \in Subs /\ r.date \in Dates
      /\ r.units \in Nat
  BY DEF RecordFailure, IInv, Types, ReqOK, Request
<1>2. /\ row' = [row EXCEPT ![r.sub][r.date] = x]
      /\ req' = [req EXCEPT ![p] = Onward(r, r.todo \ {r.sub})]
      /\ UNCHANGED <<today, hour, queue, sub, vacations, orders, stock, wallet, crashes, raced>>
  BY DEF RecordFailure, TodoOnFailure, clockVars, scheduleVars, bookVars, countVars
<1>3. x \in Row /\ x.order = 0 /\ x.status # "none"
  BY <1>1 DEF NoRow, Row
<1>4. Deciding(p, r.sub, r.date)
  BY <1>1 DEF Deciding, Generating
<1>5. /\ DOMAIN req' = Workers /\ req' = [q \in Workers |-> req'[q]]
      /\ req'[p] = Onward(r, r.todo \ {r.sub}) /\ \A q \in Workers \ {p} : req'[q] = req[q]
  BY <1>2 DEF IInv, Types
<1>6. req'[p] \in Request /\ ReqOK(p)' /\ \A t, y : ~Deciding(p, t, y)'
  BY <1>1, <1>5, RestOfTask
<1>7. \A q \in Workers \ {p} : Kept(q)
  BY <1>5, Unchanged DEF IInv
<1> HIDE DEF x
<1> QED
  BY <1>1, <1>2, <1>3, <1>4, <1>5, <1>6, <1>7, WriteRow

LEMMA SaveDayStep ==
    ASSUME IInv, NEW p \in Workers, SaveDay(p) PROVE IInv'
<1> DEFINE r == req[p]
           x == [NoRow EXCEPT !.status = IF r.kind = "skip" THEN "skipped" ELSE "scheduled",
                              !.quantity = r.units]
<1>1. /\ r.kind \in {"skip", "quantity"} /\ r \in Request /\ r.sub \in Subs /\ r.date \in Dates
      /\ r.units \in Nat
  BY DEF SaveDay, IInv, Types, ReqOK, Request
<1>2. /\ row' = [row EXCEPT ![r.sub][r.date] = x]
      /\ req' = [TasksTold(r.sub) EXCEPT ![p] = Rest]
      /\ UNCHANGED <<today, hour, queue, sub, vacations, orders, stock, wallet, crashes, raced>>
  BY DEF SaveDay, clockVars, scheduleVars, bookVars, countVars
<1>3. x \in Row /\ x.order = 0 /\ x.status # "none"
  BY <1>1 DEF NoRow, Row
<1>4. Deciding(p, r.sub, r.date)
  BY <1>1 DEF Deciding, Changing
<1>5. /\ DOMAIN req' = Workers /\ req' = [q \in Workers |-> req'[q]] /\ req'[p] = Rest
      /\ \A q \in Workers \ {p} : req'[q] = req[q] \/ req'[q] = [req[q] EXCEPT !.changed = @ \cup {r.sub}]
  BY <1>2 DEF TasksTold, Told
<1>6. req'[p] \in Request /\ ReqOK(p)' /\ \A t, y : ~Deciding(p, t, y)'
  BY <1>5, RestIsRequest DEF ReqOK, Deciding, Changing, Generating
<1>7. \A q \in Workers \ {p} : Kept(q)
  BY <1>1, <1>5, ToldIsKept DEF IInv
<1> HIDE DEF x
<1> QED
  BY <1>1, <1>2, <1>3, <1>4, <1>5, <1>6, <1>7, WriteRow

LEMMA OneOrderChanged ==
    ASSUME IInv, NEW o \in DOMAIN orders, NEW STATE x, x \in Order,
           x.sub = orders[o].sub, x.date = orders[o].date, x.units = orders[o].units,
           orders[o].rider # "untried" => x.rider # "untried", orders' = [orders EXCEPT ![o] = x]
    PROVE  /\ OrdersKept /\ DOMAIN orders = 1..Len(orders) /\ DOMAIN orders' = 1..Len(orders)
           /\ orders'[o] = x /\ \A i \in DOMAIN orders \ {o} : orders'[i] = orders[i]
<1>1. orders \in Seq(Order) /\ o \in 1..Len(orders) /\ DOMAIN orders = 1..Len(orders)
  BY DEF IInv, Types
<1>2. /\ orders' \in Seq(Order) /\ Len(orders') = Len(orders)
      /\ \A i \in 1..Len(orders) : orders'[i] = IF i = o THEN x ELSE orders[i]
  BY <1>1, ExceptSeq
<1> QED
  BY <1>1, <1>2 DEF OrdersKept

\* An order's status or rider changes, and no day's row.
LEMMA OrderChanged ==
    ASSUME IInv, OrdersKept, stock' \in Nat, RidersOK', req' \in [Workers -> Request],
           \A q \in Workers : ReqOK(q)' /\ \A s, d : /\ Changing(q, s, d)' => Changing(q, s, d)
                                                     /\ Generating(q, s, d)' => Generating(q, s, d),
           UNCHANGED <<today, hour, queue, sub, vacations, row, wallet, crashes, raced>>
    PROVE  IInv'
<1>1. Types'
  BY DEF IInv, Types, OrdersKept
<1>2. RowOK'
  BY KeptRows DEF IInv
<1>3. ASSUME NEW s \in Subs, NEW d \in Dates, <<s, d>> \notin raced'
      PROVE  DayOK(s, d)'
  <2>1. <<s, d>> \notin raced /\ DayOK(s, d) /\ (ChangeAllowed(d)' <=> ChangeAllowed(d))
    BY <1>3 DEF IInv, ChangeAllowed
  <2>2. \A q \in Workers : Changing(q, s, d) => ChangeAllowed(d)
    BY <2>1 DEF DayOK
  <2> QED
    BY <2>1, <2>2, KeptDay
<1> QED
  BY <1>1, <1>2, <1>3 DEF IInv

LEMMA CancelOrDeliver ==
    ASSUME IInv, NEW o \in DOMAIN orders, CancelOrder(o) \/ DeliverOrder(o) PROVE IInv'
<1>1. orders[o] \in Order /\ stock \in Nat
  BY DEF IInv, Types
<1>2. PICK status \in {"cancelled", "delivered"} : orders' = [orders EXCEPT ![o].status = status]
  BY DEF CancelOrder, DeliverOrder
<1>3. /\ stock' \in Nat
      /\ UNCHANGED <<today, hour, queue, sub, vacations, row, wallet, req, crashes, raced>>
  BY <1>1 DEF CancelOrder, DeliverOrder, Budget, Order, clockVars, scheduleVars, countVars
<1> DEFINE x == [orders[o] EXCEPT !.status = status]
<1>4. /\ x \in Order /\ x.sub = orders[o].sub /\ x.date = orders[o].date
      /\ x.units = orders[o].units /\ x.rider = orders[o].rider
  BY <1>1 DEF Order
<1>5. orders' = [orders EXCEPT ![o] = x]
  BY <1>2
<1> HIDE DEF x
<1>6. OrdersKept /\ DOMAIN orders' = DOMAIN orders
  BY <1>4, <1>5, OneOrderChanged
<1>7. \A q \in Workers : Kept(q)
  BY <1>3, Unchanged DEF IInv
<1>8. RidersOK'
  BY <1>3, <1>6, <1>7, KeptRiders
<1>9. \A q \in Workers : ReqOK(q)'
  BY <1>6, <1>7, KeptReqOK DEF IInv
<1> QED
  BY <1>3, <1>6, <1>7, <1>8, <1>9, KeptDeciding, OrderChanged DEF IInv, Types

LEMMA AssignRiderStep ==
    ASSUME IInv, NEW p \in Workers, AssignRider(p) PROVE IInv'
<1> DEFINE r == req[p]
           o == r.order
<1>0. PICK found \in {"found", "nobody"} : orders' = [orders EXCEPT ![o].rider = found]
  BY DEF AssignRider
<1> DEFINE x == [orders[o] EXCEPT !.rider = found]
<1>1. /\ r.kind = "assign" /\ o \in DOMAIN orders
      /\ orders' = [orders EXCEPT ![o] = x]
      /\ req' = [req EXCEPT ![p] = Onward(r, r.todo \ {r.sub})]
      /\ UNCHANGED <<today, hour, queue, sub, vacations, row, stock, wallet, crashes, raced>>
  BY <1>0 DEF AssignRider, IInv, ReqOK, clockVars, scheduleVars, countVars
<1>2. orders[o] \in Order
  BY <1>1 DEF IInv, Types
<1>3. /\ x \in Order /\ x.sub = orders[o].sub /\ x.date = orders[o].date
      /\ x.units = orders[o].units /\ x.rider # "untried"
  BY <1>2 DEF Order, RiderSearch
<1> HIDE DEF x
<1>4. /\ OrdersKept /\ DOMAIN orders' = DOMAIN orders
      /\ orders'[o] = x /\ \A i \in DOMAIN orders \ {o} : orders'[i] = orders[i]
  BY <1>1, <1>3, OneOrderChanged
<1>5. /\ DOMAIN req' = Workers /\ \A q \in Workers \ {p} : req'[q] = req[q]
      /\ req'[p] = Onward(r, r.todo \ {r.sub})
  BY <1>1 DEF IInv, Types
<1>6. req'[p] \in Request /\ ReqOK(p)' /\ \A t, y : ~Deciding(p, t, y)'
  BY <1>1, <1>5, RestOfTask
<1>7. \A q \in Workers \ {p} : Kept(q)
  BY <1>5, Unchanged DEF IInv
<1>8. RidersOK'
  <2> SUFFICES ASSUME NEW i \in DOMAIN orders', orders'[i].rider = "untried"
               PROVE  crashes' > 0 \/ \E q \in Workers : req'[q].kind = "assign" /\ req'[q].order = i
    BY DEF RidersOK
  <2>1. i # o /\ i \in DOMAIN orders /\ orders[i].rider = "untried"
    BY <1>3, <1>4
  <2>2. crashes > 0 \/ \E q \in Workers : req[q].kind = "assign" /\ req[q].order = i
    BY <2>1 DEF IInv, RidersOK
  <2> QED
    BY <1>1, <1>5, <2>1, <2>2
<1>9. \A q \in Workers : ReqOK(q)'
  BY <1>4, <1>6, <1>7, KeptReqOK DEF IInv
<1>10. req' \in [Workers -> Request] /\ stock' \in Nat
  BY <1>1, <1>6 DEF IInv, Types
<1>11. \A q \in Workers : \A s, d : /\ Changing(q, s, d)' => Changing(q, s, d)
                                    /\ Generating(q, s, d)' => Generating(q, s, d)
  BY <1>6, <1>7, KeptDeciding DEF Deciding
<1> QED
  BY <1>1, <1>4, <1>8, <1>9, <1>10, <1>11, OrderChanged

LEMMA GenerateOrder ==
    ASSUME IInv, NEW p \in Workers, Generate(p)
    PROVE  /\ OrderOf(p) \in Order /\ OrderOf(p).sub = req[p].sub /\ OrderOf(p).date = req[p].date
           /\ OrderOf(p).units = req[p].units /\ OrderOf(p).charge \in Nat
<1>1. req[p] \in Request /\ req[p].sub \in Subs /\ req[p].date \in Dates /\ req[p].units \in Nat
  BY DEF Generate, IInv, Types, ReqOK, Request
<1> QED
  BY <1>1 DEF OrderOf, Order, RiderSearch, Total

\* The block commits: one more order, and the day's row points at it.
LEMMA GenerateStep ==
    ASSUME IInv, NEW p \in Workers, Generate(p) PROVE IInv'
<1> DEFINE r == req[p]
           s == r.sub
           d == r.date
           n == Len(orders) + 1
           x == [status |-> "scheduled", quantity |-> r.units, amount |-> Total(r.units), order |-> n]
<1>1. /\ r.kind = "block" /\ r \in Request /\ s \in Subs /\ d \in Dates /\ r.units \in Nat
      /\ r.loaded[s] \in SubRow /\ s \in r.todo /\ \A t \in r.todo : r.loaded[t] \in SubRow
  BY DEF Generate, IInv, Types, ReqOK, Request
<1>2. /\ OrderOf(p) \in Order /\ OrderOf(p).sub = s /\ OrderOf(p).date = d /\ OrderOf(p).units = r.units
      /\ OrderOf(p).charge \in Nat
  BY GenerateOrder
<1>3. /\ orders' = Append(orders, OrderOf(p)) /\ Len(orders) \in Nat
      /\ orders' \in Seq(Order) /\ Len(orders') = n
      /\ orders'[n] = OrderOf(p) /\ \A i \in 1..Len(orders) : orders'[i] = orders[i]
      /\ DOMAIN orders = 1..Len(orders) /\ DOMAIN orders' = 1..n
  BY <1>2 DEF Generate, IInv, Types
<1>4. /\ row' = [row EXCEPT ![s][d] = x]
      /\ req' = [req EXCEPT ![p].kind = "assign", ![p].order = n]
      /\ UNCHANGED <<today, hour, queue, sub, vacations, crashes, raced>>
  BY <1>3 DEF Generate, clockVars, scheduleVars, countVars
<1>5. x \in Row
  BY <1>1, <1>3 DEF Row, Total
<1>6. /\ row' \in [Subs -> [Dates -> Row]] /\ row'[s][d] = x
      /\ \A t \in Subs, y \in Dates : <<t, y>> # <<s, d>> => row'[t][y] = row[t][y]
  BY <1>1, <1>4, <1>5 DEF IInv, Types
<1>7. /\ DOMAIN req' = Workers /\ \A q \in Workers \ {p} : req'[q] = req[q]
      /\ req'[p] = [r EXCEPT !.kind = "assign", !.order = n]
  BY <1>4 DEF IInv, Types
<1>8. /\ req'[p] \in Request /\ req'[p].kind = "assign" /\ req'[p].order = n /\ req'[p].sub = s
      /\ req'[p].date = d /\ req'[p].todo = r.todo /\ req'[p].loaded = r.loaded
  <2>1. n \in Nat /\ "assign" \in Kinds
    BY <1>3 DEF Kinds
  <2> HIDE DEF n
  <2> QED
    BY <1>1, <1>7, <2>1 DEF Request
<1>9. Types'
  <2>1. stock' \in Nat
    BY <1>1 DEF Generate, InStock, IInv, Types
  <2>2. wallet' \in [Customers -> Nat]
    <3>1. wallet \in [Customers -> Nat] /\ OwnerOf[s] \in Customers
      BY <1>1, SubscriptionsAssumption DEF IInv, Types
    <3>2. /\ wallet' = [wallet EXCEPT ![OwnerOf[s]] = @ - OrderOf(p).charge]
          /\ wallet[OwnerOf[s]] >= OrderOf(p).charge
      BY DEF Generate, Affordable
    <3>3. wallet[OwnerOf[s]] - OrderOf(p).charge \in Nat
      BY <1>2, <3>1, <3>2
    <3> QED
      BY <3>1, <3>2, <3>3
  <2>3. req' \in [Workers -> Request]
    BY <1>4, <1>7, <1>8 DEF IInv, Types
  <2> QED
    BY <1>3, <1>4, <1>6, <2>1, <2>2, <2>3 DEF IInv, Types
<1> HIDE DEF x
<1>10. x.order = n /\ x.status = "scheduled" /\ x.amount = r.units
  BY DEF x, Total
<1>11. RowOK'
  <2> SUFFICES ASSUME NEW t \in Subs, NEW y \in Dates
               PROVE  /\ row'[t][y].order # 0 => row'[t][y].status = "scheduled"
                      /\ row'[t][y].status = "none" => row'[t][y] = NoRow
                      /\ row'[t][y].order <= Len(orders')
    BY DEF RowOK
  <2>1. CASE <<t, y>> = <<s, d>>
    BY <1>3, <1>6, <1>10, <2>1
  <2>2. CASE <<t, y>> # <<s, d>>
    <3>1. row[t][y] \in Row /\ row[t][y].order \in Nat
      BY DEF IInv, Types, Row
    <3> QED
      BY <1>3, <1>6, <2>2, <3>1 DEF IInv, RowOK
  <2> QED
    BY <2>1, <2>2
<1>12. RidersOK'
  <2> SUFFICES ASSUME NEW i \in DOMAIN orders', orders'[i].rider = "untried"
               PROVE  crashes' > 0 \/ \E q \in Workers : req'[q].kind = "assign" /\ req'[q].order = i
    BY DEF RidersOK
  <2>1. CASE i = n
    BY <1>8, <2>1
  <2>2. CASE i # n
    <3>1. i \in DOMAIN orders /\ orders[i].rider = "untried"
      BY <1>3, <2>2
    <3>2. crashes > 0 \/ \E q \in Workers : req[q].kind = "assign" /\ req[q].order = i
      BY <3>1 DEF IInv, RidersOK
    <3> QED
      BY <1>1, <1>4, <1>7, <3>2
  <2> QED
    BY <2>1, <2>2
<1>13. \A q \in Workers \ {p} : Kept(q)
  BY <1>7, Unchanged DEF IInv
<1>14. \A q \in Workers : ReqOK(q)'
  <2>1. ReqOK(p)'
    BY <1>1, <1>3, <1>8 DEF ReqOK
  <2>2. DOMAIN orders \subseteq DOMAIN orders'
    BY <1>3
  <2> QED
    BY <1>13, <2>1, <2>2, KeptReqOK DEF IInv
<1>15. ASSUME NEW t \in Subs, NEW y \in Dates, <<t, y>> \notin raced'
       PROVE  DayOK(t, y)'
  <2>1. <<t, y>> \notin raced /\ DayOK(t, y) /\ (ChangeAllowed(y)' <=> ChangeAllowed(y))
    BY <1>4, <1>15 DEF IInv, ChangeAllowed
  <2>2. ~Deciding(p, t, y)'
    BY <1>8 DEF Deciding, Changing, Generating
  <2>3. \A q \in Workers \ {p} : /\ Changing(q, t, y)' <=> Changing(q, t, y)
                                 /\ Generating(q, t, y)' <=> Generating(q, t, y)
    BY <1>13, KeptDeciding
  <2>4. OrdersFor(t, y)' = OrdersFor(t, y) \cup (IF t = s /\ y = d THEN {n} ELSE {})
    BY <1>2, <1>3 DEF OrdersFor
  <2>5. CASE t = s /\ y = d
    <3>1. Deciding(p, s, d)
      BY <1>1 DEF Deciding, Generating
    <3>2. OrdersFor(s, d) = {} /\ \A q \in Workers \ {p} : ~Deciding(q, s, d)
      BY <1>1, <2>1, <2>5, <3>1, OwnDay
    <3>3. \A q \in Workers : ~Deciding(q, t, y)'
      BY <2>2, <2>3, <2>5, <3>2 DEF Deciding
    <3>4. OrdersFor(t, y)' = {n}
      BY <2>4, <2>5, <3>2
    <3>5. row'[t][y].order = n /\ row'[t][y].amount = Total(orders'[n].units)
      BY <1>2, <1>3, <1>6, <1>10, <2>5 DEF Total
    <3> QED
      BY <3>3, <3>4, <3>5 DEF DayOK, Deciding
  <2>6. CASE ~(t = s /\ y = d)
    <3>1. row'[t][y] = row[t][y] /\ OrdersFor(t, y)' = OrdersFor(t, y)
      BY <1>6, <2>4, <2>6
    <3>2. \A o \in OrdersFor(t, y) : orders'[o].units = orders[o].units
      BY <1>3 DEF OrdersFor
    <3> QED
      BY <2>1, <2>2, <2>3, <3>1, <3>2 DEF DayOK, Deciding, Settled, Total
  <2> QED
    BY <2>5, <2>6
<1> QED
  BY <1>9, <1>11, <1>12, <1>14, <1>15 DEF IInv

-----------------------------------------------------------------------------
LEMMA NextIInv == IInv /\ [Next]_vars => IInv'
<1> SUFFICES ASSUME IInv, [Next]_vars PROVE IInv'
  OBVIOUS
<1>1. CASE Clock \/ \E c \in Customers : TopUp(c)
  BY <1>1, ClockStep
<1>2. CASE \E s \in Subs : Customer(s)
  BY <1>2, ScheduleStep
<1>3. CASE \E o \in DOMAIN orders : CancelOrder(o) \/ DeliverOrder(o)
  BY <1>3, CancelOrDeliver
<1>4. ASSUME NEW p \in Workers,
             \/ \E d \in Dates : StartTask(p, d)
             \/ \E s \in Subs : Ask(p, s)
             \/ Continue(p)
             \/ Crash(p)
      PROVE  IInv'
  BY <1>4, StartTaskStep, AskStep, DecideStep, GenerateStep, CrashOrRollBack, RecordFailureStep,
     AssignRiderStep, SavePlanStep, SaveDayStep DEF Continue
<1>5. CASE UNCHANGED vars
  <2>1. \A p \in Workers : ReqOK(p)'
    BY <1>5 DEF vars, bookVars, IInv, ReqOK
  <2>2. Types' /\ RowOK' /\ RidersOK'
    BY <1>5 DEF vars, clockVars, scheduleVars, bookVars, countVars, IInv, Types, RowOK, RidersOK
  <2>3. \A s \in Subs, d \in Dates : <<s, d>> \notin raced' => DayOK(s, d)'
    BY <1>5 DEF vars, clockVars, bookVars, IInv, DayOK, Deciding, Changing, Generating, Settled,
                ChangeAllowed, OrdersFor, Total
  <2> QED
    BY <2>1, <2>2, <2>3 DEF IInv
<1> QED
  BY <1>1, <1>2, <1>3, <1>4, <1>5 DEF Next

\* In every state reached, a day that was not raced is decided by one handler at
\* most, which still sees its row as it read it (generate_for_subscription, the
\* day views of subscriptions/views.py).
THEOREM Invariance == Spec => []IInv
<1> QED
  BY InitIInv, NextIInv, PTL DEF Spec

\* Whatever interleaves, stock and wallets are never negative, a delivery row
\* never points past the orders, and a plan is one a customer could choose.
THEOREM SubscriptionsTypeCorrect == Spec => []TypeOK
<1>1. IInv => TypeOK
  <2> SUFFICES ASSUME IInv PROVE TypeOK
    OBVIOUS
  <2>1. /\ today \in 1..LastDay /\ hour \in {"day", "late", "beaten"}
        /\ queue \in [Dates -> Nat] /\ vacations \in [Subs -> SUBSET Ranges]
        /\ stock \in Nat /\ wallet \in [Customers -> Nat]
        /\ DOMAIN req = Workers /\ DOMAIN sub = Subs /\ Len(orders) \in Nat
    BY DEF IInv, Types
  <2>2. \A s \in Subs : /\ sub[s].status \in {"none", "active", "paused", "cancelled"}
                        /\ sub[s].plan \in Plans \cup {NoPlan}
    BY DEF IInv, Types, SubRow, Plan
  <2>3. \A s \in Subs, d \in Dates :
            /\ row[s][d].status \in {"none", "scheduled", "skipped", "failed"}
            /\ row[s][d].quantity \in Nat /\ row[s][d].amount \in Nat
            /\ row[s][d].order \in Nat /\ row[s][d].order <= Len(orders)
    BY DEF IInv, Types, Row, RowOK
  <2> QED
    BY <2>1, <2>2, <2>3 DEF TypeOK
<1> QED
  BY <1>1, Invariance, PTL

\* However often a date is queued, replayed or cut short by a crash, a day that
\* two handlers did not decide at once has at most one order, its row points at
\* it with the amount of its units, and a rider was found for it unless nobody was
\* on duty or a worker died (generate_for_subscription, _on_generated).
THEOREM SubscriptionsOneOrderADay == Spec => []OneOrderADay
<1>1. IInv => OneOrderADay
  <2> SUFFICES ASSUME IInv PROVE OneOrderADay
    OBVIOUS
  <2>1. ASSUME NEW s \in Subs, NEW d \in Dates, <<s, d>> \notin raced
        PROVE  /\ Cardinality(OrdersFor(s, d)) <= 1
               /\ row[s][d].order \in OrdersFor(s, d) \cup {0}
               /\ \A o \in OrdersFor(s, d) : /\ row[s][d].order = o
                                             /\ row[s][d].amount = Total(orders[o].units)
    <3>1. DayOK(s, d)
      BY <2>1 DEF IInv
    <3>2. Cardinality(OrdersFor(s, d)) <= 1
      <4>1. CASE OrdersFor(s, d) = {}
        BY <4>1, FS_EmptySet
      <4>2. CASE OrdersFor(s, d) # {}
        <5>1. OrdersFor(s, d) = {row[s][d].order}
          BY <3>1, <4>2 DEF DayOK
        <5>2. Cardinality({row[s][d].order}) = 1
          BY FS_Singleton
        <5> QED
          BY <5>1, <5>2
      <4> QED
        BY <4>1, <4>2
    <3> QED
      BY <3>1, <3>2 DEF DayOK
  <2>2. RidersOK
    BY DEF IInv
  <2> QED
    BY <2>1, <2>2 DEF OneOrderADay, RidersOK
<1> QED
  BY <1>1, Invariance, PTL

-----------------------------------------------------------------------------
(***************************************************************************)
(* The refinement.  A day is what its row and its order say.               *)
(***************************************************************************)
Shown(r, o) ==
    CASE r.order # 0 /\ o.status = "delivered" -> "delivered"
      [] r.order # 0 /\ o.status # "delivered" -> "ordered"
      [] r.order = 0 /\ r.status \in {"skipped", "failed"} -> r.status
      [] r.order = 0 /\ r.status \notin {"skipped", "failed"} -> "open"

DaysShown ==
    \A s \in Subs, d \in Dates : DayOf(s, d) = Shown(row[s][d], orders[row[s][d].order])

LEMMA DayShown == IInv => DaysShown
<1> SUFFICES ASSUME IInv, NEW s \in Subs, NEW d \in Dates
             PROVE  DayOf(s, d) = Shown(row[s][d], orders[row[s][d].order])
  BY DEF DaysShown
<1> DEFINE r == row[s][d]
<1>1. /\ r \in Row /\ r.status \in {"none", "scheduled", "skipped", "failed"}
      /\ r.order # 0 => r.status = "scheduled"
      /\ r.status = "none" => r = NoRow
  BY DEF IInv, Types, Row, RowOK
<1>2. CASE r.order # 0
  <2>1. r # NoRow /\ r.status = "scheduled"
    BY <1>1, <1>2 DEF NoRow
  <2>2. Calendar(s, d) = IF orders[r.order].status = "delivered" THEN "delivered" ELSE "scheduled"
    BY <1>2, <2>1 DEF Calendar
  <2> QED
    BY <1>2, <2>2 DEF DayOf, Shown
<1>3. CASE r = NoRow
  <2>1. r.order = 0 /\ r.status = "none"
    BY <1>3 DEF NoRow
  <2>2. Calendar(s, d) \in {"upcoming", "absent"}
    BY <1>3, <2>1 DEF Calendar
  <2> QED
    BY <2>1, <2>2 DEF DayOf, Shown
<1>4. CASE r.order = 0 /\ r # NoRow
  <2>1. Calendar(s, d) = r.status /\ r.status \in {"scheduled", "skipped", "failed"}
    BY <1>1, <1>4 DEF Calendar
  <2> QED
    BY <1>4, <2>1 DEF DayOf, Shown
<1> QED
  BY <1>2, <1>3, <1>4

LEMMA DaysStart == Init => DaysInit
<1> SUFFICES ASSUME Init, NEW s \in Subs, NEW d \in Dates PROVE Day(s, d)!Init
  BY DEF DaysInit
<1>1. DayOf(s, d) = Shown(row[s][d], orders[row[s][d].order])
  BY InitIInv, DayShown DEF DaysShown
<1>2. row[s][d] = NoRow
  BY DEF Init
<1> QED
  BY <1>1, <1>2 DEF Shown, NoRow, Day!Init

\* A day whose row and order say what they said before.
LEMMA DayStays ==
    ASSUME NEW s \in Subs, NEW d \in Dates, DaysShown, DaysShown',
           row'[s][d] = row[s][d],
           row[s][d].order # 0 =>
               (orders'[row[s][d].order].status = "delivered" <=>
                orders[row[s][d].order].status = "delivered")
    PROVE  DayMoves(s, d)
<1>1. DayOf(s, d)' = DayOf(s, d)
  BY DEF DaysShown, Shown
<1> QED
  BY <1>1 DEF DayMoves

LEMMA OrderOfRow ==
    ASSUME IInv, NEW s \in Subs, NEW d \in Dates, row[s][d].order # 0
    PROVE  row[s][d].order \in DOMAIN orders
<1>1. row[s][d].order \in Nat /\ row[s][d].order <= Len(orders) /\ orders \in Seq(Order)
  BY DEF IInv, Types, Row, RowOK
<1> QED
  BY <1>1

\* An order is cancelled or delivered, or a rider is looked for.
LEMMA OrderMovesDay ==
    ASSUME IInv, NEW s \in Subs, NEW d \in Dates, DaysShown, DaysShown',
           \/ \E o \in DOMAIN orders : CancelOrder(o) \/ DeliverOrder(o)
           \/ \E p \in Workers : AssignRider(p)
    PROVE  DayMoves(s, d)
<1> DEFINE i == row[s][d].order
<1>1. row' = row
  BY DEF CancelOrder, DeliverOrder, AssignRider
<1>2. i # 0 => i \in DOMAIN orders
  BY OrderOfRow
<1>3. orders \in Seq(Order) /\ \A o \in DOMAIN orders : orders[o] \in Order
  BY DEF IInv, Types
<1>4. CASE \E o \in DOMAIN orders : CancelOrder(o)
  <2>1. PICK o \in DOMAIN orders : CancelOrder(o)
    BY <1>4
  <2>2. orders[o].status = "confirmed" /\ orders' = [orders EXCEPT ![o].status = "cancelled"]
    BY <2>1 DEF CancelOrder
  <2>3. i # 0 => (orders'[i].status = "delivered" <=> orders[i].status = "delivered")
    BY <1>2, <1>3, <2>2 DEF Order
  <2> QED
    BY <1>1, <2>3, DayStays
<1>5. CASE \E p \in Workers : AssignRider(p)
  <2>1. PICK p \in Workers : AssignRider(p)
    BY <1>5
  <2>2. PICK found \in {"found", "nobody"} : orders' = [orders EXCEPT ![req[p].order].rider = found]
    BY <2>1 DEF AssignRider
  <2>3. i # 0 => (orders'[i].status = "delivered" <=> orders[i].status = "delivered")
    BY <1>2, <1>3, <2>2 DEF Order
  <2> QED
    BY <1>1, <2>3, DayStays
<1>6. CASE \E o \in DOMAIN orders : DeliverOrder(o)
  <2>1. PICK o \in DOMAIN orders : DeliverOrder(o)
    BY <1>6
  <2>2. orders[o].status = "confirmed" /\ orders' = [orders EXCEPT ![o].status = "delivered"]
    BY <2>1 DEF DeliverOrder
  <2>3. CASE i = o
    <3>1. i # 0 /\ orders'[i].status = "delivered" /\ orders[i].status = "confirmed"
      BY <1>3, <2>2, <2>3 DEF Order
    <3>2. DayOf(s, d) = "ordered" /\ DayOf(s, d)' = "delivered"
      BY <1>1, <3>1 DEF DaysShown, Shown
    <3> QED
      BY <3>2 DEF DayMoves, Day!Next, Day!Deliver
  <2>4. CASE i # o
    <3>1. i # 0 => (orders'[i].status = "delivered" <=> orders[i].status = "delivered")
      BY <1>2, <1>3, <2>2, <2>4 DEF Order
    <3> QED
      BY <1>1, <3>1, DayStays
  <2> QED
    BY <2>3, <2>4
<1> QED
  BY <1>4, <1>5, <1>6

\* The day is generated, or its failure or its customer's wish is saved.
LEMMA WriterMovesDay ==
    ASSUME IInv, NEW p \in Workers, NEW s \in Subs, NEW d \in Dates, DaysShown, DaysShown',
           <<s, d>> \notin raced,
           Generate(p) \/ RecordFailure(p) \/ SaveDay(p)
    PROVE  DayMoves(s, d)
<1> DEFINE r == req[p]
           old == row[s][d]
           new == row'[s][d]
<1>1. /\ r \in Request /\ r.sub \in Subs /\ r.date \in Dates
      /\ row \in [Subs -> [Dates -> Row]] /\ orders \in Seq(Order)
  BY DEF IInv, Types, ReqOK, Generate, RecordFailure, SaveDay, Request
<1>2. CASE ~(s = r.sub /\ d = r.date)
  <2>1. new = old
    BY <1>1, <1>2 DEF Generate, RecordFailure, SaveDay
  <2>2. old.order # 0 => orders'[old.order] = orders[old.order]
    <3>1. CASE orders' = orders
      BY <3>1
    <3>2. CASE Generate(p)
      <4>1. orders' = Append(orders, OrderOf(p))
        BY <3>2 DEF Generate
      <4>2. OrderOf(p) \in Order
        BY <3>2, GenerateOrder
      <4> QED
        BY <1>1, <4>1, <4>2, OrderOfRow
    <3> QED
      BY <3>1, <3>2 DEF RecordFailure, SaveDay, bookVars
  <2> QED
    BY <2>1, <2>2, DayStays
<1>3. CASE s = r.sub /\ d = r.date
  <2>1. /\ Generate(p) \/ RecordFailure(p) => Generating(p, s, d)
        /\ SaveDay(p) => Changing(p, s, d)
    BY <1>3 DEF Generate, RecordFailure, SaveDay, Generating, Changing
  <2>2. /\ old.order = 0
        /\ Generating(p, s, d) => old.status \in {"none", "scheduled", "failed"}
        /\ Changing(p, s, d) => ChangeAllowed(d)
    BY <2>1, OwnDay DEF Deciding
  <2>3. /\ DayOf(s, d) = IF old.status \in {"skipped", "failed"} THEN old.status ELSE "open"
        /\ DayOf(s, d)' = Shown(new, orders'[new.order])
    BY <2>2 DEF DaysShown, Shown
  <2>4. CASE Generate(p)
    <3>1. DayOf(s, d) \in {"open", "failed"}
      BY <2>1, <2>2, <2>3, <2>4
    <3>2. OrderOf(p) \in Order /\ OrderOf(p).status = "confirmed"
      BY <2>4, GenerateOrder DEF OrderOf
    <3>3. orders' = Append(orders, OrderOf(p)) /\ Len(orders') = Len(orders) + 1
      BY <1>1, <2>4, <3>2 DEF Generate
    <3>4. orders'[Len(orders')].status = "confirmed" /\ Len(orders') # 0
      BY <1>1, <3>2, <3>3
    <3>5. new.order = Len(orders')
      BY <1>1, <1>3, <2>4 DEF Generate
    <3>6. DayOf(s, d)' = "ordered"
      BY <2>3, <3>4, <3>5 DEF Shown
    <3> QED
      BY <3>1, <3>6 DEF DayMoves, Day!Next, Day!Order
  <2>5. CASE RecordFailure(p)
    <3>1. DayOf(s, d) \in {"open", "failed"}
      BY <2>1, <2>2, <2>3, <2>5
    <3>2. new = [NoRow EXCEPT !.status = IF r.kind = "low" THEN "failed" ELSE "skipped",
                              !.quantity = r.units]
      BY <1>1, <1>3, <2>5 DEF RecordFailure
    <3>3. new.order = 0 /\ new.status = IF r.kind = "low" THEN "failed" ELSE "skipped"
      BY <3>2 DEF NoRow
    <3>4. DayOf(s, d)' = IF r.kind = "low" THEN "failed" ELSE "skipped"
      BY <2>3, <3>3 DEF Shown
    <3> QED
      BY <3>1, <3>4 DEF DayMoves, Day!Next, Day!Fail, Day!Skip
  <2>6. CASE SaveDay(p)
    <3>1. DayOf(s, d) \in {"open", "failed", "skipped"}
      BY <2>3
    <3>2. ChangeAllowed(d)
      BY <2>1, <2>2, <2>6
    <3>3. new = [NoRow EXCEPT !.status = IF r.kind = "skip" THEN "skipped" ELSE "scheduled",
                              !.quantity = r.units]
      BY <1>1, <1>3, <2>6 DEF SaveDay
    <3>4. new.order = 0 /\ new.status = IF r.kind = "skip" THEN "skipped" ELSE "scheduled"
      BY <3>3 DEF NoRow
    <3>5. DayOf(s, d)' = IF r.kind = "skip" THEN "skipped" ELSE "open"
      BY <2>3, <3>4 DEF Shown
    <3>6. ~(today >= d \/ (today = d - 1 /\ hour # "day"))
      <4>1. d \in Int /\ today \in Int
        BY SubscriptionsAssumption DEF IInv, Types
      <4> QED
        BY <3>2, <4>1 DEF ChangeAllowed
    <3> QED
      BY <3>1, <3>5, <3>6 DEF DayMoves, Day!Next, Day!Skip, Day!TakeUp
  <2> QED
    BY <2>4, <2>5, <2>6
<1> QED
  BY <1>2, <1>3

LEMMA NextDaysMove == IInv /\ DaysShown /\ DaysShown' /\ [Next]_vars => DaysMove
<1> SUFFICES ASSUME IInv, DaysShown, DaysShown', [Next]_vars,
                    NEW s \in Subs, NEW d \in Dates, <<s, d>> \notin raced'
             PROVE  DayMoves(s, d)
  BY DEF DaysMove
<1>1. CASE row' = row /\ orders' = orders
  BY <1>1, DayStays
<1>2. CASE \/ \E o \in DOMAIN orders : CancelOrder(o) \/ DeliverOrder(o)
           \/ \E p \in Workers : AssignRider(p)
  BY <1>2, OrderMovesDay
<1>3. ASSUME NEW p \in Workers, Generate(p) \/ RecordFailure(p) \/ SaveDay(p) PROVE DayMoves(s, d)
  <2>1. raced' = raced
    BY <1>3 DEF Generate, RecordFailure, SaveDay
  <2> QED
    BY <1>3, <2>1, WriterMovesDay
<1>4. \/ row' = row /\ orders' = orders
      \/ \E o \in DOMAIN orders : CancelOrder(o) \/ DeliverOrder(o)
      \/ \E p \in Workers : AssignRider(p) \/ Generate(p) \/ RecordFailure(p) \/ SaveDay(p)
  <2>1. CASE UNCHANGED vars
    BY <2>1 DEF vars, bookVars
  <2>2. CASE Clock \/ \E c \in Customers : TopUp(c)
    BY <2>2 DEF Clock, CutoffPasses, Beat, Midnight, Replay, TopUp, bookVars
  <2>3. CASE \E t \in Subs : Customer(t)
    BY <2>3 DEF Customer, Create, CancelSub, AddVacation, EndVacation, bookVars
  <2>4. ASSUME NEW p \in Workers,
               (\E x \in Dates : StartTask(p, x)) \/ (\E t \in Subs : Ask(p, t)) \/ Crash(p)
        PROVE  row' = row /\ orders' = orders
    BY <2>4 DEF StartTask, Ask, AskStatus, AskPlan, AskDay, Crash, bookVars
  <2>5. ASSUME NEW p \in Workers, (\E t \in Subs : Decide(p, t)) \/ RollBack(p) \/ SavePlan(p)
        PROVE  row' = row /\ orders' = orders
    BY <2>5 DEF Decide, RollBack, SavePlan, bookVars
  <2> QED
    BY <2>1, <2>2, <2>3, <2>4, <2>5 DEF Next, Continue
<1> QED
  BY <1>1, <1>2, <1>3, <1>4

\* Each day of each subscription is a DeliveryDay, until two handlers decide
\* it at once: a day is skipped or taken up in time, decided once, and a day
\* that was ordered stays ordered (calendar, skip, set_quantity, generate).
THEOREM SubscriptionsImplementDay == Spec => ImplementsDay
<1>1. Init => DaysInit
  BY DaysStart
<1>2. IInv /\ IInv' /\ [Next]_vars => [DaysMove]_vars
  <2>1. IInv' => DaysShown'
    BY DayShown, PTL
  <2> QED
    BY <2>1, DayShown, NextDaysMove
<1> QED
  BY <1>1, <1>2, Invariance, PTL DEF Spec, ImplementsDay

-----------------------------------------------------------------------------
(***************************************************************************)
(* What a task or a request goes by.  Unless it was told that the          *)
(* subscription changed, what it loaded of it is what there is; and a row  *)
(* that is there asks for some units.                                      *)
(***************************************************************************)
UpToDate(p) ==
    LET r == req[p] IN
    /\ OnTask(p) =>
          \A s \in r.todo : /\ r.loaded[s].status = "active"
                            /\ s \notin r.changed => r.loaded[s] = sub[s]
    /\ r.kind = "edit" /\ r.sub \notin r.changed => r.loaded[r.sub] = sub[r.sub]
    /\ r.kind \in {"pause", "resume"} /\ r.sub \notin r.changed => sub[r.sub].status # "cancelled"
    /\ r.kind \in {"block", "low", "out", "skip", "quantity"} => r.units > 0
    /\ r.kind = "block" /\ r.sub \notin r.changed /\ <<r.sub, r.date>> \notin raced =>
          /\ Due(r.sub, r.loaded[r.sub], r.date)
          /\ r.units = Units(r.sub, r.loaded[r.sub], r.date)

RowsAskUnits == \A s \in Subs, d \in Dates : row[s][d] # NoRow => row[s][d].quantity > 0

KInv == RowsAskUnits /\ \A p \in Workers : UpToDate(p)

LEMMA InitKInv == Init => KInv
<1> SUFFICES ASSUME Init PROVE KInv
  OBVIOUS
<1>1. \A p \in Workers : req[p].kind = "idle"
  BY RestIsRequest DEF Init
<1> QED
  BY <1>1 DEF Init, KInv, RowsAskUnits, UpToDate, OnTask

\* A handler that stays where it is, and is told of what changes under it.
LEMMA StaysUpToDate ==
    ASSUME IInv, NEW q \in Workers, UpToDate(q), Kept(q), req[q].changed \subseteq req'[q].changed,
           raced \subseteq raced',
           \A s \in Subs : s \notin req'[q].changed /\ (OnTask(q) \/ req[q].sub = s) => sub'[s] = sub[s],
           \A s \in Subs : s \notin req'[q].changed /\ OnTask(q) => vacations'[s] = vacations[s],
           LET s == req[q].sub
               d == req[q].date IN
           req[q].kind = "block" /\ s \notin req'[q].changed /\ <<s, d>> \notin raced' =>
               row'[s][d] = row[s][d]
    PROVE  UpToDate(q)'
<1> DEFINE r == req[q]
           s == r.sub
           d == r.date
<1>1. /\ r \in Request /\ ReqOK(q) /\ r.todo \subseteq Subs
      /\ req'[q].kind = r.kind /\ req'[q].sub = s /\ req'[q].date = d /\ req'[q].loaded = r.loaded
      /\ req'[q].todo = r.todo /\ req'[q].units = r.units
  BY DEF IInv, Types, Request, Kept
<1>2. OnTask(q)' <=> OnTask(q)
  BY <1>1 DEF OnTask
<1>3. OnTask(q) => \A t \in r.todo : /\ r.loaded[t].status = "active"
                                     /\ t \notin req'[q].changed => r.loaded[t] = sub'[t]
  BY <1>1 DEF UpToDate
<1>4. /\ r.kind = "edit" /\ s \notin req'[q].changed => r.loaded[s] = sub'[s]
      /\ r.kind \in {"pause", "resume"} /\ s \notin req'[q].changed => sub'[s].status # "cancelled"
  BY <1>1 DEF UpToDate, ReqOK
<1>5. ASSUME r.kind = "block", s \notin req'[q].changed, <<s, d>> \notin raced'
      PROVE  /\ Due(s, r.loaded[s], d)'
             /\ r.units = Units(s, r.loaded[s], d)'
  <2>1. s \in Subs /\ vacations'[s] = vacations[s] /\ row'[s][d] = row[s][d]
    BY <1>1, <1>5 DEF ReqOK, OnTask
  <2>2. Due(s, r.loaded[s], d) /\ r.units = Units(s, r.loaded[s], d)
    BY <1>5 DEF UpToDate
  <2> QED
    BY <1>1, <2>1, <2>2 DEF Due, Falls, OnVacation, Units
<1> QED
  BY <1>1, <1>2, <1>3, <1>4, <1>5 DEF UpToDate, Due, Falls, OnVacation, Units

\* Nothing is written: whoever does not move is as up to date as it was.
LEMMA OthersUpToDate ==
    ASSUME IInv, KInv, NEW q \in Workers, req'[q] = req[q], raced \subseteq raced',
           UNCHANGED <<sub, vacations, row>>
    PROVE  UpToDate(q)'
  BY Unchanged, StaysUpToDate DEF IInv, KInv

\* The subscription s is written: whoever goes by it is told.
LEMMA ToldUpToDate ==
    ASSUME IInv, KInv, NEW s \in Subs, NEW q \in Workers, raced' = raced, row' = row,
           \A t \in Subs \ {s} : sub'[t] = sub[t] /\ vacations'[t] = vacations[t],
           \/ req'[q] = [req[q] EXCEPT !.changed = @ \cup {s}]
           \/ req'[q] = req[q] /\ ~OnTask(q) /\ (sub' = sub \/ req[q].sub # s)
    PROVE  UpToDate(q)'
<1>1. req[q] \in Request /\ UpToDate(q)
  BY DEF IInv, Types, KInv
<1>2. Kept(q) /\ req[q].changed \subseteq req'[q].changed
  BY <1>1, ToldIsKept DEF IInv, Request
<1>3. \A t \in Subs : t \notin req'[q].changed /\ (OnTask(q) \/ req[q].sub = t) =>
          sub'[t] = sub[t] /\ (OnTask(q) => vacations'[t] = vacations[t])
  BY <1>1 DEF Request
<1> QED
  BY <1>1, <1>2, <1>3, StaysUpToDate

LEMMA RestIsUpToDate ==
    ASSUME NEW p \in Workers, req'[p].kind = "idle" PROVE UpToDate(p)'
  BY DEF UpToDate, OnTask

\* A task that goes on with less of what it loaded.
LEMMA OnwardUpToDate ==
    ASSUME NEW p \in Workers, NEW STATE r, NEW STATE todo, req'[p] = Onward(r, todo),
           \A s \in todo : r.loaded[s].status = "active" /\ (s \notin r.changed => r.loaded[s] = sub'[s])
    PROVE  UpToDate(p)'
<1>1. CASE todo = {}
  BY <1>1, RestIsRequest, RestIsUpToDate DEF Onward
<1>2. CASE todo # {}
  <2>1. req'[p] = [Rest EXCEPT !.kind = "task", !.date = r.date, !.todo = todo, !.changed = r.changed,
                               !.loaded = [s \in todo |-> r.loaded[s]]]
    BY <1>2 DEF Onward
  <2>2. /\ req'[p].kind = "task" /\ req'[p].todo = todo /\ req'[p].changed = r.changed
        /\ req'[p].loaded = [s \in todo |-> r.loaded[s]]
    BY <2>1 DEF Rest
  <2> QED
    BY <2>2 DEF UpToDate
<1> QED
  BY <1>1, <1>2

\* One worker moves and no subscription, vacation or row is written.
LEMMA MoverUpToDate ==
    ASSUME IInv, KInv, NEW p \in Workers, \A q \in Workers \ {p} : req'[q] = req[q], UpToDate(p)',
           raced \subseteq raced', UNCHANGED <<sub, vacations, row>>
    PROVE  KInv'
<1>1. \A q \in Workers : UpToDate(q)'
  BY OthersUpToDate
<1> QED
  BY <1>1 DEF KInv, RowsAskUnits

LEMMA StartTaskKnows ==
    ASSUME IInv, KInv, NEW p \in Workers, NEW d \in Dates, StartTask(p, d) PROVE KInv'
<1> DEFINE r == [Rest EXCEPT !.date = d, !.loaded = sub]
           todo == {s \in Subs : sub[s].status = "active"}
<1>1. /\ req' = [req EXCEPT ![p] = Onward(r, todo)]
      /\ UNCHANGED <<sub, vacations, row, raced>>
  BY DEF StartTask, scheduleVars
<1>2. r.loaded = sub
  BY DEF Rest
<1>3. req'[p] = Onward(r, todo) /\ \A q \in Workers \ {p} : req'[q] = req[q]
  BY <1>1 DEF IInv, Types
<1>4. UpToDate(p)'
  <2>1. \A s \in todo : r.loaded[s].status = "active" /\ r.loaded[s] = sub'[s]
    BY <1>1, <1>2
  <2> HIDE DEF r, todo
  <2> QED
    BY <1>3, <2>1, OnwardUpToDate
<1> QED
  BY <1>1, <1>3, <1>4, MoverUpToDate

\* The units a row or a plan asks for.
LEMMA UnitsArePositive ==
    ASSUME IInv, RowsAskUnits, NEW s \in Subs, NEW d \in Dates, NEW loaded \in SubRow
    PROVE  Units(s, loaded, d) \in Nat /\ Units(s, loaded, d) > 0
<1>1. loaded.plan.quantity \in Nat \ {0}
  BY SubscriptionsAssumption DEF SubRow, Plan, NoPlan
<1>2. row[s][d] \in Row
  BY DEF IInv, Types
<1> QED
  BY <1>1, <1>2 DEF RowsAskUnits, Units, Row

LEMMA DecideKnows ==
    ASSUME IInv, KInv, NEW p \in Workers, NEW s \in Subs, Decide(p, s) PROVE KInv'
<1> DEFINE r == req[p]
<1>1. /\ r \in Request /\ r.kind = "task" /\ s \in r.todo /\ r.date \in Dates
      /\ \A t \in r.todo : r.loaded[t] \in SubRow
      /\ \A t \in r.todo : r.loaded[t].status = "active" /\ (t \notin r.changed => r.loaded[t] = sub[t])
  BY DEF IInv, Types, ReqOK, Decide, KInv, UpToDate, OnTask
<1>2. UNCHANGED <<sub, vacations, row>>
  BY DEF Decide, scheduleVars
<1>3. CASE req' = [req EXCEPT ![p] = Onward(r, r.todo \ {s})] /\ raced' = raced
  <2>1. req'[p] = Onward(r, r.todo \ {s}) /\ \A q \in Workers \ {p} : req'[q] = req[q]
    BY <1>3 DEF IInv, Types
  <2>2. UpToDate(p)'
    <3>1. \A t \in r.todo \ {s} :
             r.loaded[t].status = "active" /\ (t \notin r.changed => r.loaded[t] = sub'[t])
      BY <1>1, <1>2
    <3> QED
      BY <2>1, <3>1, OnwardUpToDate
  <2> QED
    BY <1>2, <1>3, <2>1, <2>2, MoverUpToDate
<1>4. CASE /\ Due(s, r.loaded[s], r.date)
           /\ req' = [req EXCEPT ![p].kind = "block", ![p].sub = s,
                                 ![p].units = Units(s, r.loaded[s], r.date)]
           /\ NoteRace(p, s, r.date)
  <2> DEFINE units == Units(s, r.loaded[s], r.date)
  <2>1. units \in Nat /\ units > 0
    BY <1>1, UnitsArePositive DEF KInv
  <2>2. /\ req'[p] = [r EXCEPT !.kind = "block", !.sub = s, !.units = units]
        /\ \A q \in Workers \ {p} : req'[q] = req[q]
    BY <1>4 DEF IInv, Types
  <2>3. /\ req'[p].kind = "block" /\ req'[p].sub = s /\ req'[p].units = units
        /\ req'[p].date = r.date /\ req'[p].todo = r.todo /\ req'[p].loaded = r.loaded
        /\ req'[p].changed = r.changed
    BY <1>1, <2>2 DEF Request
  <2>4. units = Units(s, r.loaded[s], r.date)' /\ Due(s, r.loaded[s], r.date)'
    BY <1>2, <1>4, <2>3 DEF Units, Due, Falls, OnVacation
  <2>5. UpToDate(p)'
    <3>1. \A t \in r.todo : /\ req'[p].loaded[t].status = "active"
                            /\ t \notin req'[p].changed => req'[p].loaded[t] = sub'[t]
      BY <1>1, <1>2, <2>3
    <3> HIDE DEF units
    <3> QED
      BY <2>1, <2>3, <2>4, <3>1 DEF UpToDate
  <2>6. raced \subseteq raced'
    BY <1>4 DEF NoteRace
  <2> QED
    BY <1>2, <2>2, <2>5, <2>6, MoverUpToDate
<1> QED
  BY <1>3, <1>4 DEF Decide

LEMMA AskKnows ==
    ASSUME IInv, KInv, NEW p \in Workers, NEW s \in Subs, Ask(p, s) PROVE KInv'
<1>1. UNCHANGED <<sub, vacations, row>> /\ raced \subseteq raced'
  BY DEF Ask, AskStatus, AskPlan, AskDay, scheduleVars, NoteRace
<1>2. ASSUME NEW kind \in {"pause", "resume"}, AskStatus(p, s, kind) PROVE KInv'
  <2>1. /\ req'[p] = [Rest EXCEPT !.kind = kind, !.sub = s]
        /\ sub[s].status # "cancelled" /\ \A q \in Workers \ {p} : req'[q] = req[q]
    BY <1>2 DEF AskStatus, MayPause, IInv, Types
  <2>2. req'[p].kind = kind /\ req'[p].sub = s
    BY <2>1 DEF Rest
  <2> QED
    BY <1>1, <2>1, <2>2, MoverUpToDate DEF UpToDate, OnTask
<1>3. ASSUME NEW plan \in Plans, AskPlan(p, s, plan) PROVE KInv'
  <2>1. /\ req'[p] = [Rest EXCEPT !.kind = "edit", !.sub = s, !.loaded = sub, !.plan = plan]
        /\ \A q \in Workers \ {p} : req'[q] = req[q]
    BY <1>3 DEF AskPlan, IInv, Types
  <2>2. req'[p].kind = "edit" /\ req'[p].sub = s /\ req'[p].loaded = sub
    BY <2>1 DEF Rest
  <2> QED
    BY <1>1, <2>1, <2>2, MoverUpToDate DEF UpToDate, OnTask
<1>4. ASSUME NEW d \in Dates, NEW units \in {0} \cup Quantities, AskDay(p, s, d, units) PROVE KInv'
  <2> DEFINE saved == IF units = 0 THEN Units(s, sub[s], d) ELSE units
             kind == IF units = 0 THEN "skip" ELSE "quantity"
  <2>1. saved > 0
    BY UnitsArePositive, SubsLoaded, SubscriptionsAssumption DEF IInv, KInv
  <2> HIDE DEF saved
  <2>2. /\ req'[p] = [Rest EXCEPT !.kind = kind, !.sub = s, !.date = d, !.units = saved]
        /\ \A q \in Workers \ {p} : req'[q] = req[q]
    BY <1>4 DEF AskDay, IInv, Types, saved
  <2>3. req'[p].kind = kind /\ req'[p].units = saved
    BY <2>2 DEF Rest
  <2> QED
    BY <1>1, <2>1, <2>2, <2>3, MoverUpToDate DEF UpToDate, OnTask
<1> QED
  BY <1>2, <1>3, <1>4 DEF Ask

\* The block fails, or its worker dies, or a rider is looked for.
LEMMA EndKnows ==
    ASSUME IInv, KInv, NEW p \in Workers, Crash(p) \/ RollBack(p) \/ AssignRider(p) PROVE KInv'
<1> DEFINE r == req[p]
<1>1. UNCHANGED <<sub, vacations, row, raced>> /\ r \in Request /\ UpToDate(p)
  BY DEF Crash, RollBack, AssignRider, scheduleVars, IInv, Types, KInv
<1>2. CASE Crash(p)
  <2>1. req'[p] = Rest /\ \A q \in Workers \ {p} : req'[q] = req[q]
    BY <1>2 DEF Crash, IInv, Types
  <2> QED
    BY <1>1, <2>1, RestIsRequest, RestIsUpToDate, MoverUpToDate
<1>3. CASE RollBack(p)
  <2>1. r.kind = "block"
    BY <1>3 DEF RollBack
  <2>2. PICK kind \in {"low", "out"} : req' = [req EXCEPT ![p].kind = kind]
    BY <1>3 DEF RollBack
  <2>3. req'[p] = [r EXCEPT !.kind = kind] /\ \A q \in Workers \ {p} : req'[q] = req[q]
    BY <2>2 DEF IInv, Types
  <2>4. /\ req'[p].kind = kind /\ req'[p].todo = r.todo /\ req'[p].loaded = r.loaded
        /\ req'[p].changed = r.changed /\ req'[p].units = r.units
    BY <1>1, <2>3 DEF Request
  <2>5. UpToDate(p)'
    BY <1>1, <2>1, <2>4 DEF UpToDate, OnTask
  <2> QED
    BY <1>1, <2>3, <2>5, MoverUpToDate
<1>4. CASE AssignRider(p)
  <2>1. r.kind = "assign" /\ req' = [req EXCEPT ![p] = Onward(r, r.todo \ {r.sub})]
    BY <1>4 DEF AssignRider, IInv, Types
  <2>2. req'[p] = Onward(r, r.todo \ {r.sub}) /\ \A q \in Workers \ {p} : req'[q] = req[q]
    BY <2>1 DEF IInv, Types
  <2>3. \A t \in r.todo \ {r.sub} :
           r.loaded[t].status = "active" /\ (t \notin r.changed => r.loaded[t] = sub'[t])
    BY <1>1, <2>1 DEF UpToDate, OnTask
  <2>4. UpToDate(p)'
    BY <2>2, <2>3, OnwardUpToDate
  <2> QED
    BY <1>1, <2>2, <2>4, MoverUpToDate
<1> QED
  BY <1>2, <1>3, <1>4

\* A customer changes a subscription, at once or by the request that saves it.
LEMMA ScheduleKnows ==
    ASSUME IInv, KInv, NEW s \in Subs, Customer(s) PROVE KInv'
<1>1. row' = row /\ raced' = raced
  BY DEF Customer, CancelSub, Create, AddVacation, EndVacation
<1>2. ASSUME NEW STATE new, SaveSub(None, s, new), vacations' = vacations
      PROVE  \A q \in Workers : UpToDate(q)'
  <2>1. req' = AllTold(s) /\ sub' = [sub EXCEPT ![s] = new]
    BY <1>2 DEF SaveSub
  <2>2. ASSUME NEW q \in Workers
        PROVE  \/ req'[q] = [req[q] EXCEPT !.changed = @ \cup {s}]
               \/ req'[q] = req[q] /\ ~OnTask(q) /\ req[q].sub # s
    BY <2>1 DEF AllTold, Told
  <2>3. \A t \in Subs \ {s} : sub'[t] = sub[t] /\ vacations'[t] = vacations[t]
    BY <1>2, <2>1 DEF IInv, Types
  <2> QED
    BY <1>1, <2>2, <2>3, ToldUpToDate
<1>3. CASE CancelSub(s) \/ \E plan \in Plans : Create(s, plan)
  <2>1. \A q \in Workers : UpToDate(q)'
    BY <1>2, <1>3 DEF CancelSub, Create
  <2> QED
    BY <1>1, <2>1 DEF KInv, RowsAskUnits
<1>4. ASSUME NEW range \in Ranges, AddVacation(s, range) \/ EndVacation(s, range) PROVE KInv'
  <2>1. /\ req' = TasksTold(s) /\ sub' = sub
        /\ \A t \in Subs \ {s} : vacations'[t] = vacations[t]
    BY <1>4 DEF AddVacation, EndVacation, IInv, Types
  <2>2. ASSUME NEW q \in Workers
        PROVE  \/ req'[q] = [req[q] EXCEPT !.changed = @ \cup {s}]
               \/ req'[q] = req[q] /\ ~OnTask(q)
    BY <2>1 DEF TasksTold, Told
  <2>3. \A q \in Workers : UpToDate(q)'
    BY <1>1, <2>1, <2>2, ToldUpToDate
  <2> QED
    BY <1>1, <2>3 DEF KInv, RowsAskUnits
<1> QED
  BY <1>3, <1>4 DEF Customer

LEMMA SavePlanKnows ==
    ASSUME IInv, KInv, NEW p \in Workers, SavePlan(p) PROVE KInv'
<1> DEFINE s == req[p].sub
<1>1. PICK new : SaveSub(p, s, new)
  BY DEF SavePlan
<1>2. s \in Subs /\ UNCHANGED <<vacations, row, raced>> /\ p # None
  BY SubscriptionsAssumption DEF SavePlan, IInv, ReqOK, clockVars, bookVars
<1>3. sub' = [sub EXCEPT ![s] = new] /\ req' = [AllTold(s) EXCEPT ![p] = Rest]
  BY <1>1, <1>2 DEF SaveSub
<1>4. UpToDate(p)'
  <2>1. req'[p] = Rest
    BY <1>3 DEF AllTold, Told
  <2> QED
    BY <2>1, RestIsRequest, RestIsUpToDate
<1>5. ASSUME NEW q \in Workers \ {p} PROVE UpToDate(q)'
  <2>1. \/ req'[q] = [req[q] EXCEPT !.changed = @ \cup {s}]
        \/ req'[q] = req[q] /\ ~OnTask(q) /\ req[q].sub # s
    BY <1>3 DEF AllTold, Told
  <2>2. \A t \in Subs \ {s} : sub'[t] = sub[t] /\ vacations'[t] = vacations[t]
    BY <1>2, <1>3 DEF IInv, Types
  <2> QED
    BY <1>2, <2>1, <2>2, ToldUpToDate
<1> QED
  BY <1>2, <1>4, <1>5 DEF KInv, RowsAskUnits

\* The rows that are written ask for units, and only their writer was at them.
LEMMA WriterKnows ==
    ASSUME IInv, KInv, NEW p \in Workers, NEW s \in Subs, NEW d \in Dates, Deciding(p, s, d),
           NEW STATE x, x.quantity > 0, row' = [row EXCEPT ![s][d] = x],
           \A q \in Workers \ {p} :
               \/ req'[q] = req[q]
               \/ req'[q] = [req[q] EXCEPT !.changed = @ \cup {s}],
           UpToDate(p)', UNCHANGED <<sub, vacations, raced>>
    PROVE  KInv'
<1>1. RowsAskUnits'
  BY DEF IInv, Types, KInv, RowsAskUnits
<1>2. ASSUME NEW q \in Workers \ {p} PROVE UpToDate(q)'
  <2> DEFINE t == req[q].sub
             y == req[q].date
  <2>1. req[q] \in Request /\ UpToDate(q) /\ ReqOK(q)
    BY DEF IInv, Types, KInv
  <2>2. Kept(q) /\ req[q].changed \subseteq req'[q].changed
    BY <2>1, ToldIsKept, Unchanged DEF IInv, Request
  <2>3. ASSUME req[q].kind = "block", <<t, y>> \notin raced' PROVE row'[t][y] = row[t][y]
    <3>1. t \in Subs /\ y \in Dates /\ Deciding(q, t, y)
      BY <2>1, <2>3 DEF ReqOK, Request, Deciding, Generating
    <3>2. <<t, y>> # <<s, d>>
      BY <2>3, <3>1, OwnDay
    <3> QED
      BY <3>1, <3>2 DEF IInv, Types
  <2> QED
    BY <2>1, <2>2, <2>3, StaysUpToDate
<1> QED
  BY <1>1, <1>2 DEF KInv

LEMMA SaveDayKnows ==
    ASSUME IInv, KInv, NEW p \in Workers, SaveDay(p) PROVE KInv'
<1> DEFINE r == req[p]
           x == [NoRow EXCEPT !.status = IF r.kind = "skip" THEN "skipped" ELSE "scheduled",
                              !.quantity = r.units]
<1>1. /\ r.sub \in Subs /\ r.date \in Dates /\ Deciding(p, r.sub, r.date) /\ r.units > 0
      /\ row' = [row EXCEPT ![r.sub][r.date] = x]
      /\ req' = [TasksTold(r.sub) EXCEPT ![p] = Rest] /\ UNCHANGED <<sub, vacations, raced>>
  BY DEF SaveDay, scheduleVars, IInv, ReqOK, KInv, UpToDate, Deciding, Changing
<1>2. x.quantity > 0
  BY <1>1 DEF NoRow
<1>3. /\ req'[p] = Rest
      /\ \A q \in Workers \ {p} : \/ req'[q] = req[q]
                                  \/ req'[q] = [req[q] EXCEPT !.changed = @ \cup {r.sub}]
  BY <1>1 DEF TasksTold, Told
<1>4. UpToDate(p)'
  BY <1>3, RestIsRequest, RestIsUpToDate
<1> HIDE DEF x
<1> QED
  BY <1>1, <1>2, <1>3, <1>4, WriterKnows

LEMMA RecordFailureKnows ==
    ASSUME IInv, KInv, NEW p \in Workers, RecordFailure(p) PROVE KInv'
<1> DEFINE r == req[p]
           x == [NoRow EXCEPT !.status = IF r.kind = "low" THEN "failed" ELSE "skipped",
                              !.quantity = r.units]
<1>1. /\ r.kind \in {"low", "out"} /\ r.sub \in Subs /\ r.date \in Dates
      /\ Deciding(p, r.sub, r.date) /\ r.units > 0
      /\ row' = [row EXCEPT ![r.sub][r.date] = x]
      /\ req' = [req EXCEPT ![p] = Onward(r, r.todo \ {r.sub})] /\ UNCHANGED <<sub, vacations, raced>>
  BY DEF RecordFailure, TodoOnFailure, scheduleVars, IInv, Types, Request, ReqOK, KInv, UpToDate,
         Deciding, Generating
<1>2. x.quantity > 0
  BY <1>1 DEF NoRow
<1>3. req'[p] = Onward(r, r.todo \ {r.sub}) /\ \A q \in Workers \ {p} : req'[q] = req[q]
  BY <1>1 DEF IInv, Types
<1>4. UpToDate(p)'
  <2>1. \A t \in r.todo \ {r.sub} :
           r.loaded[t].status = "active" /\ (t \notin r.changed => r.loaded[t] = sub'[t])
    BY <1>1 DEF KInv, UpToDate, OnTask
  <2> QED
    BY <1>3, <2>1, OnwardUpToDate
<1> HIDE DEF x
<1> QED
  BY <1>1, <1>2, <1>3, <1>4, WriterKnows

LEMMA GenerateKnows ==
    ASSUME IInv, KInv, NEW p \in Workers, Generate(p) PROVE KInv'
<1> DEFINE r == req[p]
           n == Len(orders) + 1
           x == [status |-> "scheduled", quantity |-> r.units, amount |-> Total(r.units), order |-> n]
<1>1. /\ r.kind = "block" /\ r.sub \in Subs /\ r.date \in Dates /\ r \in Request
      /\ Deciding(p, r.sub, r.date) /\ r.units > 0 /\ UpToDate(p)
  BY DEF Generate, IInv, Types, Request, ReqOK, KInv, UpToDate, Deciding, Generating
<1>2. Len(orders') = n /\ n \in Nat
  BY DEF Generate, IInv, Types
<1>3. /\ row' = [row EXCEPT ![r.sub][r.date] = x]
      /\ req' = [req EXCEPT ![p].kind = "assign", ![p].order = n]
      /\ UNCHANGED <<sub, vacations, raced>>
  BY <1>2 DEF Generate, scheduleVars
<1>4. x.quantity > 0
  BY <1>1
<1> HIDE DEF n, x
<1>5. /\ req'[p] = [r EXCEPT !.kind = "assign", !.order = n]
      /\ \A q \in Workers \ {p} : req'[q] = req[q]
  BY <1>3 DEF IInv, Types
<1>6. /\ req'[p].kind = "assign" /\ req'[p].todo = r.todo /\ req'[p].loaded = r.loaded
      /\ req'[p].changed = r.changed
  BY <1>1, <1>5 DEF Request
<1>7. UpToDate(p)'
  BY <1>1, <1>3, <1>6 DEF UpToDate, OnTask
<1> QED
  BY <1>1, <1>3, <1>4, <1>5, <1>7, WriterKnows

LEMMA NextKInv == IInv /\ KInv /\ [Next]_vars => KInv'
<1> SUFFICES ASSUME IInv, KInv, [Next]_vars PROVE KInv'
  OBVIOUS
<1>1. CASE \/ Clock
           \/ \E c \in Customers : TopUp(c)
           \/ \E o \in DOMAIN orders : CancelOrder(o) \/ DeliverOrder(o)
           \/ UNCHANGED vars
  <2>1. UNCHANGED <<sub, vacations, row, req>> /\ raced \subseteq raced'
    BY <1>1 DEF Clock, CutoffPasses, Beat, Midnight, Replay, TopUp, CancelOrder, DeliverOrder, vars,
                clockVars, scheduleVars, bookVars
  <2>2. \A q \in Workers : UpToDate(q)'
    BY <2>1, OthersUpToDate
  <2> QED
    BY <2>1, <2>2 DEF KInv, RowsAskUnits
<1>2. CASE \E s \in Subs : Customer(s)
  BY <1>2, ScheduleKnows
<1>3. ASSUME NEW p \in Workers,
             \/ \E d \in Dates : StartTask(p, d)
             \/ \E s \in Subs : Ask(p, s)
             \/ Continue(p)
             \/ Crash(p)
      PROVE  KInv'
  BY <1>3, StartTaskKnows, AskKnows, DecideKnows, GenerateKnows, EndKnows, RecordFailureKnows,
     SavePlanKnows, SaveDayKnows DEF Continue
<1> QED
  BY <1>1, <1>2, <1>3 DEF Next

-----------------------------------------------------------------------------
\* Only the block's own commit takes it to the assignment of a rider.
LEMMA OnlyGenerateAssigns ==
    ASSUME IInv, Next, NEW p \in Workers, req[p].kind = "block", req'[p].kind = "assign"
    PROVE  Generate(p)
<1>1. /\ req[p] \in Request /\ DOMAIN req = Workers
      /\ \A s : [req[p] EXCEPT !.changed = @ \cup {s}].kind = "block"
      /\ Rest.kind = "idle"
  BY RestIsRequest DEF IInv, Types, Request
<1>2. ~(Clock \/ (\E c \in Customers : TopUp(c))
        \/ \E o \in DOMAIN orders : CancelOrder(o) \/ DeliverOrder(o))
  BY DEF Clock, CutoffPasses, Beat, Midnight, Replay, TopUp, CancelOrder, DeliverOrder
<1>3. \A s \in Subs : ~Customer(s)
  BY <1>1 DEF Customer, CancelSub, Create, AddVacation, EndVacation, SaveSub, AllTold, TasksTold, Told
<1>4. PICK q \in Workers :
         \/ \E d \in Dates : StartTask(q, d)
         \/ \E s \in Subs : Ask(q, s)
         \/ Continue(q)
         \/ Crash(q)
  BY <1>2, <1>3 DEF Next
<1>5. CASE SavePlan(q) \/ SaveDay(q)
  <2>1. CASE SavePlan(q)
    <3>1. PICK new : SaveSub(q, req[q].sub, new)
      BY <2>1 DEF SavePlan
    <3>2. req' = [AllTold(req[q].sub) EXCEPT ![q] = Rest]
      BY <3>1, SubscriptionsAssumption DEF SaveSub
    <3> QED
      BY <1>1, <3>2 DEF AllTold, Told
  <2>2. CASE SaveDay(q)
    BY <1>1, <2>2 DEF SaveDay, TasksTold, Told
  <2> QED
    BY <1>5, <2>1, <2>2
<1>6. CASE ~(SavePlan(q) \/ SaveDay(q))
  <2>1. \A u \in Workers \ {q} : req'[u] = req[u]
    BY <1>1, <1>4, <1>6 DEF StartTask, Ask, AskStatus, AskPlan, AskDay, Continue, Decide, Generate,
                            RollBack, RecordFailure, AssignRider, Crash
  <2>2. q = p
    <3>1. p \notin Workers \ {q}
      BY <2>1
    <3> QED
      BY <3>1
  <2>3. ~RollBack(p)
    <3>1. RollBack(p) => \E kind \in {"low", "out"} : req' = [req EXCEPT ![p].kind = kind]
      BY DEF RollBack
    <3>2. \A kind : [req EXCEPT ![p].kind = kind][p].kind = kind
      BY <1>1 DEF Request
    <3> QED
      BY <3>1, <3>2
  <2>4. ~Crash(p)
    BY <1>1 DEF Crash
  <2> QED
    BY <1>1, <1>4, <1>6, <2>2, <2>3, <2>4
       DEF StartTask, Ask, AskStatus, AskPlan, AskDay, Idle, Continue, Decide, RecordFailure, AssignRider
<1> QED
  BY <1>5, <1>6

\* The order that a block makes is for what the customer wants still.
LEMMA OrderIsWanted == IInv /\ KInv /\ Next => WantedWhenOrdered
<1> SUFFICES ASSUME IInv, KInv, Next, NEW p \in Workers,
                    req[p].kind = "block", req'[p].kind = "assign"
             PROVE  LET o == Last(orders')
                        s == o.sub
                        d == o.date IN
                    \/ s \in req[p].changed
                    \/ <<s, d>> \in raced
                    \/ /\ sub[s].status = "active" /\ sub[s].plan.start <= d
                       /\ \A range \in vacations[s] : d \notin range[1]..range[2]
                       /\ row[s][d].status # "skipped"
                       /\ o.units = IF row[s][d].quantity > 0 THEN row[s][d].quantity
                                                              ELSE sub[s].plan.quantity
  BY DEF WantedWhenOrdered
<1> DEFINE r == req[p]
           s == r.sub
           d == r.date
<1>1. Generate(p)
  BY OnlyGenerateAssigns
<1>2. /\ r \in Request /\ s \in Subs /\ d \in Dates /\ s \in r.todo /\ r.loaded[s] \in SubRow
      /\ Generating(p, s, d) /\ UpToDate(p) /\ row[s][d] \in Row /\ vacations[s] \subseteq Ranges
  BY DEF IInv, Types, Request, ReqOK, KInv, Generating
<1>3. Last(orders') = OrderOf(p) /\ OrderOf(p).sub = s /\ OrderOf(p).date = d /\ OrderOf(p).units = r.units
  <2>1. orders' = Append(orders, OrderOf(p)) /\ OrderOf(p) \in Order /\ orders \in Seq(Order)
    BY <1>1, GenerateOrder DEF Generate, IInv, Types
  <2>2. orders'[Len(orders')] = OrderOf(p)
    BY <2>1
  <2> QED
    BY <1>1, <2>2, GenerateOrder DEF Last
<1>4. SUFFICES ASSUME s \notin r.changed, <<s, d>> \notin raced
               PROVE  /\ sub[s].status = "active" /\ sub[s].plan.start <= d
                      /\ \A range \in vacations[s] : d \notin range[1]..range[2]
                      /\ row[s][d].status # "skipped"
                      /\ r.units = IF row[s][d].quantity > 0 THEN row[s][d].quantity
                                                             ELSE sub[s].plan.quantity
  BY <1>3
<1>5. /\ r.loaded[s] = sub[s] /\ Due(s, sub[s], d) /\ r.units = Units(s, sub[s], d) /\ r.units > 0
  BY <1>2, <1>4 DEF UpToDate, OnTask
<1>6. row[s][d].status # "skipped"
  BY <1>2, <1>4, OwnDay DEF Deciding
<1>7. \A range \in vacations[s] : d \notin range[1]..range[2]
  BY <1>5 DEF Due, OnVacation
<1>8. sub[s].status = "active" /\ sub[s].plan.start <= d
  BY <1>5 DEF Due
<1>9. r.units = IF row[s][d].quantity > 0 THEN row[s][d].quantity ELSE sub[s].plan.quantity
  BY <1>2, <1>5 DEF Units, KInv, RowsAskUnits, NoRow, Row
<1> QED
  BY <1>6, <1>7, <1>8, <1>9

\* Only a request that was not told of the cancellation undoes it.
LEMMA CancelledStaysSo == IInv /\ KInv /\ Next => CancelledStays
<1> SUFFICES ASSUME IInv, KInv, Next, NEW s \in Subs, sub[s].status = "cancelled",
                    sub'[s].status # "cancelled"
             PROVE  s \in reverted'
  BY DEF CancelledStays
<1>1. sub \in [Subs -> SubRow]
  BY DEF IInv, Types
<1>2. \A t \in Subs : ~Customer(t)
  <2>1. \A t \in Subs : CancelSub(t) => sub'[s].status = "cancelled"
    BY <1>1 DEF CancelSub, SaveSub, SubRow
  <2>2. \A t \in Subs, plan \in Plans : Create(t, plan) => t # s /\ sub'[s] = sub[s]
    BY <1>1 DEF Create, SaveSub
  <2> QED
    BY <2>1, <2>2 DEF Customer, AddVacation, EndVacation
<1>3. PICK p \in Workers : SavePlan(p)
  <2>1. sub' # sub
    OBVIOUS
  <2>2. ~(Clock \/ (\E c \in Customers : TopUp(c))
          \/ \E o \in DOMAIN orders : CancelOrder(o) \/ DeliverOrder(o))
    BY <2>1 DEF Clock, CutoffPasses, Beat, Midnight, Replay, TopUp, CancelOrder, DeliverOrder, scheduleVars
  <2>3. PICK p \in Workers :
           \/ \E d \in Dates : StartTask(p, d)
           \/ \E t \in Subs : Ask(p, t)
           \/ Continue(p)
           \/ Crash(p)
    BY <1>2, <2>2 DEF Next
  <2>4. SavePlan(p)
    BY <2>1, <2>3 DEF StartTask, Ask, AskStatus, AskPlan, AskDay, Continue, Decide, Generate, RollBack,
                      RecordFailure, AssignRider, SaveDay, Crash, scheduleVars
  <2> QED
    BY <2>4
<1> DEFINE r == req[p]
           new == CASE r.kind = "pause"  -> [sub[r.sub] EXCEPT !.status = "paused"]
                    [] r.kind = "resume" -> [sub[r.sub] EXCEPT !.status = "active"]
                    [] r.kind = "edit"   -> [status |-> r.loaded[r.sub].status, plan |-> r.plan]
<1>4. sub' = [sub EXCEPT ![r.sub] = new]
  BY <1>3 DEF SavePlan, SaveSub
<1>5. r.sub = s
  BY <1>1, <1>4
<1>6. r.kind = "edit" => new.status = r.loaded[s].status
  BY <1>5
<1> HIDE DEF new
<1>7. s \in r.changed
  BY <1>1, <1>3, <1>4, <1>5, <1>6 DEF SavePlan, KInv, UpToDate
<1> QED
  BY <1>3, <1>5, <1>7 DEF SavePlan

\* Every order is for what its customer wanted when it was made, as far as the
\* task could know, and a cancelled subscription is not brought back except by
\* a request that loaded it before (is_due, generate_for_subscription, pause,
\* resume, the update and the cancellation of a subscription).
THEOREM SubscriptionsStopWhenAsked == Spec => StopsWhenAsked
<1>1. Init => KInv
  BY InitKInv
<1>2. IInv /\ KInv /\ [Next]_vars => KInv'
  BY NextKInv
<1>3. IInv /\ KInv /\ [Next]_vars => [WantedWhenOrdered /\ CancelledStays]_vars
  BY OrderIsWanted, CancelledStaysSo
<1> QED
  BY <1>1, <1>2, <1>3, Invariance, PTL DEF Spec, StopsWhenAsked

-----------------------------------------------------------------------------
(***************************************************************************)
(* The books: a generated order enters every sum it belongs to in the step *)
(* that draws its stock and its money; no other step changes a sum on one  *)
(* side only.                                                              *)
(***************************************************************************)

StockAdds == stock + UnitsStanding = OpeningStock

PurseAdds(c) == wallet[c] + ChargedTo(c) = OpeningBalance + toppedUp[c]

Raced(c) == \E x \in raced : OwnerOf[x[1]] = c

SpentAdds(c) == Raced(c) \/ AmountSpent(c) = OrderedBy(c)

BInv ==
    /\ toppedUp \in [Customers -> Nat]
    /\ StockAdds /\ \A c \in Customers : PurseAdds(c) /\ SpentAdds(c)

\* Orders for the same units and money, whatever their status.
SameBills ==
    /\ DOMAIN orders' = DOMAIN orders
    /\ \A o \in DOMAIN orders : /\ orders'[o].sub = orders[o].sub /\ orders'[o].units = orders[o].units
                                /\ orders'[o].charge = orders[o].charge

\* No day of a customer gets an order or loses one.
SameDays(c) ==
    \A s \in Subs, d \in Dates :
        OwnerOf[s] = c =>
            row'[s][d] = row[s][d] \/ (row[s][d].order = 0 /\ row'[s][d].order = 0)

LEMMA OrderTypes ==
    ASSUME Types, NEW o \in DOMAIN orders
    PROVE  /\ orders[o] \in Order /\ orders[o].units \in Nat /\ orders[o].charge \in Nat
           /\ orders[o].sub \in Subs
<1>1. orders[o] \in Order
  BY DEF Types
<1> QED
  BY <1>1 DEF Order

LEMMA OrdersFinite ==
    ASSUME Types
    PROVE  IsFiniteSet(DOMAIN orders) /\ \A c : IsFiniteSet(OrdersOf(c)) /\ OrdersOf(c) \subseteq DOMAIN orders
<1>1. DOMAIN orders = 1..Len(orders) /\ Len(orders) \in Nat
  BY DEF Types
<1>2. IsFiniteSet(DOMAIN orders)
  BY <1>1, FS_Interval
<1>3. \A c : OrdersOf(c) \subseteq DOMAIN orders
  BY DEF OrdersOf
<1> QED
  BY <1>2, <1>3, FS_Subset

LEMMA SumTypes ==
    ASSUME Types, NEW c
    PROVE  /\ [o \in DOMAIN orders |-> Standing(o)] \in [DOMAIN orders -> Int]
           /\ [o \in OrdersOf(c) |-> orders[o].charge] \in [OrdersOf(c) -> Int]
           /\ [o \in OrdersOf(c) |-> Total(orders[o].units)] \in [OrdersOf(c) -> Int]
           /\ UnitsStanding \in Int /\ ChargedTo(c) \in Int /\ OrderedBy(c) \in Int
<1> DEFINE f == [o \in DOMAIN orders |-> Standing(o)]
           g == [o \in OrdersOf(c) |-> orders[o].charge]
           h == [o \in OrdersOf(c) |-> Total(orders[o].units)]
<1>1. f \in [DOMAIN orders -> Int]
  BY OrderTypes DEF Standing
<1>2. OrdersOf(c) \subseteq DOMAIN orders /\ IsFiniteSet(OrdersOf(c)) /\ IsFiniteSet(DOMAIN orders)
  BY OrdersFinite
<1>3. g \in [OrdersOf(c) -> Int] /\ h \in [OrdersOf(c) -> Int]
  BY <1>2, OrderTypes DEF Total
<1>4. UnitsStanding = SumOf(f) /\ ChargedTo(c) = SumOf(g) /\ OrderedBy(c) = SumOf(h)
  BY DEF UnitsStanding, ChargedTo, OrderedBy
<1> HIDE DEF f, g, h
<1>5. SumOf(f) \in Int /\ SumOf(g) \in Int /\ SumOf(h) \in Int
  BY <1>1, <1>2, <1>3, SumType
<1> QED
  BY <1>1, <1>3, <1>4, <1>5 DEF f, g, h

LEMMA RowTypes ==
    ASSUME Types, NEW c
    PROVE  /\ IsFiniteSet(DaysSpent(c))
           /\ [x \in DaysSpent(c) |-> row[x[1]][x[2]].amount] \in [DaysSpent(c) -> Int]
<1>1. IsFiniteSet(Subs \X Dates)
  BY FS_Product, SubscriptionsAssumption
<1>2. DaysSpent(c) \subseteq Subs \X Dates
  BY DEF DaysSpent
<1>3. \A x \in Subs \X Dates : row[x[1]][x[2]].amount \in Nat
  BY DEF Types, Row
<1> QED
  BY <1>1, <1>2, <1>3, FS_Subset

\* Nothing the sums are about has changed.
LEMMA BillsStay ==
    ASSUME SameBills, NEW c
    PROVE  OrdersOf(c)' = OrdersOf(c) /\ ChargedTo(c)' = ChargedTo(c) /\ OrderedBy(c)' = OrderedBy(c)
<1>1. OrdersOf(c)' = OrdersOf(c)
  BY DEF OrdersOf, SameBills
<1>2. \A o \in OrdersOf(c) : orders'[o].charge = orders[o].charge /\ orders'[o].units = orders[o].units
  BY DEF OrdersOf, SameBills
<1>3. [o \in OrdersOf(c)' |-> orders'[o].charge] = [o \in OrdersOf(c) |-> orders[o].charge]
  BY <1>1, <1>2
<1>4. [o \in OrdersOf(c)' |-> Total(orders'[o].units)] = [o \in OrdersOf(c) |-> Total(orders[o].units)]
  BY <1>1, <1>2
<1> QED
  BY <1>1, <1>3, <1>4 DEF ChargedTo, OrderedBy

LEMMA SpentStays ==
    ASSUME NEW c, SameDays(c) PROVE AmountSpent(c)' = AmountSpent(c) /\ DaysSpent(c)' = DaysSpent(c)
<1>1. ASSUME NEW x \in Subs \X Dates, OwnerOf[x[1]] = c
      PROVE  \/ row'[x[1]][x[2]] = row[x[1]][x[2]]
             \/ row[x[1]][x[2]].order = 0 /\ row'[x[1]][x[2]].order = 0
  BY <1>1 DEF SameDays
<1>2. DaysSpent(c)' = DaysSpent(c)
  BY <1>1 DEF DaysSpent
<1>3. \A x \in DaysSpent(c) : row'[x[1]][x[2]].amount = row[x[1]][x[2]].amount
  BY <1>1 DEF DaysSpent
<1>4. [x \in DaysSpent(c)' |-> row'[x[1]][x[2]].amount] = [x \in DaysSpent(c) |-> row[x[1]][x[2]].amount]
  BY <1>2, <1>3
<1> QED
  BY <1>2, <1>4 DEF AmountSpent

LEMMA QuietBooks ==
    ASSUME BInv, SameBills, UNCHANGED <<wallet, toppedUp>>, StockAdds',
           raced \subseteq raced',
           \A c \in Customers : Raced(c)' \/ SameDays(c)
    PROVE  BInv'
<1>1. ASSUME NEW c \in Customers PROVE PurseAdds(c)'
  BY BillsStay DEF BInv, PurseAdds
<1>2. ASSUME NEW c \in Customers PROVE SpentAdds(c)'
  <2>1. CASE Raced(c)'
    BY <2>1 DEF SpentAdds
  <2>2. CASE ~Raced(c)' /\ SameDays(c)
    <3>1. ~Raced(c)
      BY <2>2 DEF Raced
    <3> QED
      BY <2>2, <3>1, BillsStay, SpentStays DEF BInv, SpentAdds
  <2> QED
    BY <2>1, <2>2
<1> QED
  BY <1>1, <1>2 DEF BInv

LEMMA SameStanding ==
    ASSUME SameBills, StockAdds, stock' = stock,
           \A o \in DOMAIN orders : orders'[o].status = "cancelled" <=> orders[o].status = "cancelled"
    PROVE  StockAdds'
<1>1. [o \in DOMAIN orders' |-> Standing(o)'] = [o \in DOMAIN orders |-> Standing(o)]
  BY DEF SameBills, Standing
<1> QED
  BY <1>1 DEF StockAdds, UnitsStanding

\* The steps that touch no row, order, stock or money.
LEMMA OtherBooks ==
    ASSUME BInv, UNCHANGED <<row, orders, stock, wallet, toppedUp>>, raced \subseteq raced'
    PROVE  BInv'
<1>1. SameBills /\ \A c \in Customers : SameDays(c)
  BY DEF SameBills, SameDays
<1>2. StockAdds'
  BY <1>1, SameStanding DEF BInv
<1> QED
  BY <1>1, <1>2, QuietBooks

LEMMA QuietStep ==
    ASSUME IInv, BInv,
           \/ Clock \/ \E s \in Subs : Customer(s)
           \/ \E p \in Workers : \/ \E d \in Dates : StartTask(p, d)
                                 \/ \E s \in Subs : Ask(p, s) \/ Decide(p, s)
                                 \/ RollBack(p) \/ SavePlan(p) \/ Crash(p)
           \/ UNCHANGED vars
    PROVE  BInv'
<1>1. UNCHANGED <<row, orders, stock, wallet, toppedUp>> /\ raced \subseteq raced'
  <2>1. CASE Clock \/ UNCHANGED vars
    BY <2>1 DEF Clock, CutoffPasses, Beat, Midnight, Replay, bookVars, vars
  <2>2. CASE \E s \in Subs : Customer(s)
    BY <2>2 DEF Customer, CancelSub, Create, AddVacation, EndVacation, bookVars
  <2>3. ASSUME NEW p \in Workers, NEW d \in Dates, StartTask(p, d)
        PROVE  UNCHANGED <<row, orders, stock, wallet, toppedUp, raced>>
    BY <2>3 DEF StartTask, bookVars
  <2>4. ASSUME NEW p \in Workers, NEW s \in Subs, Ask(p, s)
        PROVE  UNCHANGED <<row, orders, stock, wallet, toppedUp>> /\ raced \subseteq raced'
    BY <2>4 DEF Ask, AskStatus, AskPlan, AskDay, NoteRace, bookVars
  <2>5. ASSUME NEW p \in Workers, NEW s \in Subs, Decide(p, s)
        PROVE  UNCHANGED <<row, orders, stock, wallet, toppedUp>> /\ raced \subseteq raced'
    BY <2>5 DEF Decide, NoteRace, bookVars
  <2>6. ASSUME NEW p \in Workers, RollBack(p) \/ SavePlan(p) \/ Crash(p)
        PROVE  UNCHANGED <<row, orders, stock, wallet, toppedUp, raced>>
    BY <2>6 DEF RollBack, StockOnFailure, SavePlan, Crash, bookVars
  <2> QED
    BY <2>1, <2>2, <2>3, <2>4, <2>5, <2>6
<1> QED
  BY <1>1, OtherBooks

\* A day that is written without an order had none before.
LEMMA RowBooks ==
    ASSUME IInv, BInv, NEW p \in Workers, RecordFailure(p) \/ SaveDay(p) PROVE BInv'
<1> DEFINE s == req[p].sub
           d == req[p].date
<1>1. s \in Subs /\ d \in Dates /\ Deciding(p, s, d) /\ req[p] \in Request
  BY DEF RecordFailure, SaveDay, IInv, Types, ReqOK, Request, Deciding, Changing, Generating
<1>2. UNCHANGED <<orders, stock, wallet, toppedUp, raced>>
  BY DEF RecordFailure, SaveDay, bookVars
<1>3. row'[s][d].order = 0 /\ \A t \in Subs, y \in Dates : <<t, y>> # <<s, d>> => row'[t][y] = row[t][y]
  <2>1. row \in [Subs -> [Dates -> Row]]
    BY DEF IInv, Types
  <2>2. PICK x \in Row : x.order = 0 /\ row' = [row EXCEPT ![s][d] = x]
    <3>1. CASE RecordFailure(p)
      <4>1. [NoRow EXCEPT !.status = IF req[p].kind = "low" THEN "failed" ELSE "skipped",
                          !.quantity = req[p].units] \in Row
        BY <1>1 DEF NoRow, Row, Request
      <4> QED
        BY <3>1, <4>1 DEF RecordFailure, NoRow
    <3>2. CASE SaveDay(p)
      <4>1. [NoRow EXCEPT !.status = IF req[p].kind = "skip" THEN "skipped" ELSE "scheduled",
                          !.quantity = req[p].units] \in Row
        BY <1>1 DEF NoRow, Row, Request
      <4> QED
        BY <3>2, <4>1 DEF SaveDay, NoRow
    <3> QED
      BY <3>1, <3>2
  <2> QED
    BY <1>1, <2>1, <2>2
<1>4. ASSUME NEW c \in Customers PROVE Raced(c)' \/ SameDays(c)
  <2>1. CASE OwnerOf[s] = c /\ <<s, d>> \in raced
    BY <1>2, <2>1 DEF Raced
  <2>2. CASE OwnerOf[s] # c
    BY <1>3, <2>2 DEF SameDays
  <2>3. CASE <<s, d>> \notin raced
    <3>1. row[s][d].order = 0
      BY <1>1, <2>3, OwnDay
    <3> QED
      BY <1>3, <3>1 DEF SameDays
  <2> QED
    BY <2>1, <2>2, <2>3
<1>5. SameBills
  BY <1>2 DEF SameBills
<1>6. StockAdds'
  BY <1>2, <1>5, SameStanding DEF BInv
<1> QED
  BY <1>2, <1>4, <1>5, <1>6, QuietBooks

LEMMA OrderBooks ==
    ASSUME IInv, BInv, NEW o \in DOMAIN orders, NEW STATE x, orders' = [orders EXCEPT ![o] = x],
           x \in Order, x.sub = orders[o].sub, x.units = orders[o].units, x.charge = orders[o].charge,
           stock' = stock + Standing(o) - (IF x.status = "cancelled" THEN 0 ELSE x.units),
           UNCHANGED <<row, wallet, toppedUp, raced>>
    PROVE  BInv'
<1>1. DOMAIN orders' = DOMAIN orders /\ orders'[o] = x /\ \A i \in DOMAIN orders \ {o} : orders'[i] = orders[i]
  BY DEF IInv, Types
<1>2. SameBills
  BY <1>1 DEF SameBills
<1>3. \A c \in Customers : SameDays(c)
  BY DEF SameDays
<1> DEFINE f == [i \in DOMAIN orders |-> Standing(i)]
           e == [i \in DOMAIN orders |-> Standing(i)']
           rest == IF x.status = "cancelled" THEN 0 ELSE x.units
           d == rest - Standing(o)
<1>4. /\ f \in [DOMAIN orders -> Int] /\ UnitsStanding = SumOf(f) /\ SumOf(f) \in Int
      /\ IsFiniteSet(DOMAIN orders)
  BY SumTypes, OrdersFinite DEF IInv, UnitsStanding
<1>5. rest \in Int /\ Standing(o) \in Int /\ d \in Int
  BY OrderTypes DEF IInv, Standing, Order
<1>6. e[o] = rest /\ \A i \in DOMAIN orders \ {o} : e[i] = f[i]
  BY <1>1 DEF Standing
<1>7. e \in [DOMAIN orders -> Int]
  BY <1>4, <1>5, <1>6
<1>8. UnitsStanding' = SumOf(e)
  BY <1>1 DEF UnitsStanding
<1>9. f[o] = Standing(o)
  OBVIOUS
<1> HIDE DEF f, e, rest
<1>10. SumOf(e) = SumOf(f) + d
  <2>1. SameOn(DOMAIN orders \ {o}, f, e)
    BY <1>6 DEF SameOn
  <2>2. e[o] = f[o] + d
    BY <1>5, <1>6, <1>9
  <2> QED
    BY <1>4, <1>5, <1>7, <2>1, <2>2, SumShift
<1>11. stock \in Int /\ OpeningStock \in Int /\ stock' = stock + Standing(o) - rest
  BY SubscriptionsAssumption DEF IInv, Types, rest
<1>12. StockAdds'
  BY <1>4, <1>5, <1>8, <1>10, <1>11 DEF BInv, StockAdds
<1> QED
  BY <1>2, <1>3, <1>12, QuietBooks

LEMMA StatusBooks ==
    ASSUME IInv, BInv,
           \/ \E o \in DOMAIN orders : CancelOrder(o) \/ DeliverOrder(o)
           \/ \E p \in Workers : AssignRider(p)
    PROVE  BInv'
<1>1. ASSUME NEW o \in DOMAIN orders, CancelOrder(o) PROVE BInv'
  <2> DEFINE x == [orders[o] EXCEPT !.status = "cancelled"]
  <2>1. orders[o] \in Order /\ orders[o].units \in Nat /\ stock \in Nat
    BY OrderTypes DEF IInv, Types
  <2>2. /\ x \in Order /\ x.sub = orders[o].sub /\ x.units = orders[o].units
        /\ x.charge = orders[o].charge /\ x.status = "cancelled"
    BY <2>1 DEF Order
  <2>3. /\ orders' = [orders EXCEPT ![o] = x] /\ stock' = stock + orders[o].units
        /\ Standing(o) = orders[o].units /\ UNCHANGED <<row, wallet, toppedUp, raced>>
    BY <1>1 DEF CancelOrder, Standing
  <2> HIDE DEF x
  <2>4. stock' = stock + Standing(o) - (IF x.status = "cancelled" THEN 0 ELSE x.units)
    BY <2>1, <2>2, <2>3
  <2> QED
    BY <2>2, <2>3, <2>4, OrderBooks
<1>2. ASSUME NEW o \in DOMAIN orders, DeliverOrder(o) PROVE BInv'
  <2> DEFINE x == [orders[o] EXCEPT !.status = "delivered"]
  <2>1. orders[o] \in Order /\ orders[o].units \in Nat /\ stock \in Nat
    BY OrderTypes DEF IInv, Types
  <2>2. /\ x \in Order /\ x.sub = orders[o].sub /\ x.units = orders[o].units
        /\ x.charge = orders[o].charge /\ x.status = "delivered"
    BY <2>1 DEF Order
  <2>3. /\ orders' = [orders EXCEPT ![o] = x] /\ stock' = stock
        /\ Standing(o) = orders[o].units /\ UNCHANGED <<row, wallet, toppedUp, raced>>
    BY <1>2 DEF DeliverOrder, Standing
  <2> HIDE DEF x
  <2>4. stock' = stock + Standing(o) - (IF x.status = "cancelled" THEN 0 ELSE x.units)
    BY <2>1, <2>2, <2>3
  <2> QED
    BY <2>2, <2>3, <2>4, OrderBooks
<1>3. ASSUME NEW p \in Workers, AssignRider(p) PROVE BInv'
  <2> DEFINE o == req[p].order
  <2>5. PICK found \in {"found", "nobody"} : orders' = [orders EXCEPT ![o].rider = found]
    BY <1>3 DEF AssignRider
  <2> DEFINE x == [orders[o] EXCEPT !.rider = found]
  <2>0. o \in DOMAIN orders
    BY <1>3 DEF AssignRider, IInv, ReqOK
  <2>1. orders[o] \in Order /\ orders[o].units \in Nat /\ stock \in Nat
    BY <2>0, OrderTypes DEF IInv, Types
  <2>2. /\ x \in Order /\ x.sub = orders[o].sub /\ x.units = orders[o].units
        /\ x.charge = orders[o].charge /\ x.status = orders[o].status
    BY <2>1 DEF Order, RiderSearch
  <2>3. /\ orders' = [orders EXCEPT ![o] = x] /\ stock' = stock
        /\ UNCHANGED <<row, wallet, toppedUp, raced>>
    BY <1>3, <2>5 DEF AssignRider
  <2> HIDE DEF x, o
  <2>4. stock' = stock + Standing(o) - (IF x.status = "cancelled" THEN 0 ELSE x.units)
    BY <2>1, <2>2, <2>3 DEF Standing
  <2> QED
    BY <2>0, <2>2, <2>3, <2>4, OrderBooks
<1> QED
  BY <1>1, <1>2, <1>3

LEMMA TopUpBooks == ASSUME IInv, BInv, NEW c \in Customers, TopUp(c) PROVE BInv'
<1>1. /\ wallet' = [wallet EXCEPT ![c] = @ + 1] /\ toppedUp' = [toppedUp EXCEPT ![c] = @ + 1]
      /\ UNCHANGED <<row, orders, stock, raced>>
  BY DEF TopUp
<1>2. wallet \in [Customers -> Nat] /\ toppedUp \in [Customers -> Nat] /\ OpeningBalance \in Nat
  BY SubscriptionsAssumption DEF IInv, Types, BInv
<1>3. SameBills /\ \A b \in Customers : SameDays(b)
  BY <1>1 DEF SameBills, SameDays
<1>4. StockAdds'
  BY <1>1, <1>3, SameStanding DEF BInv
<1>5. ASSUME NEW b \in Customers PROVE PurseAdds(b)'
  <2>1. ChargedTo(b)' = ChargedTo(b) /\ ChargedTo(b) \in Int
    BY <1>3, BillsStay, SumTypes DEF IInv
  <2>2. wallet[b] + ChargedTo(b) = OpeningBalance + toppedUp[b]
    BY DEF BInv, PurseAdds
  <2>3. wallet'[b] + ChargedTo(b) = OpeningBalance + toppedUp'[b]
    BY <1>1, <1>2, <2>1, <2>2
  <2> QED
    BY <2>1, <2>3 DEF PurseAdds
<1>6. ASSUME NEW b \in Customers PROVE SpentAdds(b)'
  BY <1>1, <1>3, BillsStay, SpentStays DEF BInv, SpentAdds, Raced
<1>7. toppedUp' \in [Customers -> Nat]
  BY <1>1, <1>2
<1> QED
  BY <1>4, <1>5, <1>6, <1>7 DEF BInv

\* An order that is generated enters the sums of its customer.
LEMMA GenerateBooks == ASSUME IInv, BInv, NEW p \in Workers, Generate(p) PROVE BInv'
<1>a. /\ req[p].sub \in Subs /\ req[p].date \in Dates /\ req[p].units \in Nat
      /\ Deciding(p, req[p].sub, req[p].date)
  BY DEF Generate, IInv, Types, ReqOK, Request, Deciding, Generating
<1>b. PICK s \in Subs, d \in Dates, u \in Nat :
          s = req[p].sub /\ d = req[p].date /\ u = req[p].units /\ Deciding(p, s, d)
  BY <1>a
<1>c. PICK c0 \in Customers : c0 = OwnerOf[s]
  BY SubscriptionsAssumption
<1>d. /\ OrderOf(p) \in Order /\ OrderOf(p).sub = s /\ OrderOf(p).units = u
      /\ OrderOf(p).charge \in Nat /\ OrderOf(p).status = "confirmed"
  BY <1>b, GenerateOrder DEF OrderOf
<1>e. PICK x \in Order : x = OrderOf(p)
  BY <1>d
<1>f. PICK n \in Nat : n = Len(orders) + 1
  BY DEF IInv, Types
<1>g. PICK charge \in Nat : charge = x.charge
  BY <1>d, <1>e
<1>1. s \in Subs /\ d \in Dates /\ u \in Nat /\ c0 \in Customers /\ c0 = OwnerOf[s] /\ Deciding(p, s, d)
  BY <1>b, <1>c
<1>2. x \in Order /\ x.sub = s /\ x.units = u /\ x.charge = charge /\ charge \in Nat /\ x.status = "confirmed"
  BY <1>d, <1>e, <1>g
<1>3. /\ orders' = Append(orders, x) /\ Len(orders) \in Nat
      /\ orders'[n] = x /\ \A i \in 1..Len(orders) : orders'[i] = orders[i]
      /\ DOMAIN orders = 1..Len(orders) /\ DOMAIN orders' = 1..n /\ n \in Nat
  BY <1>2, <1>e, <1>f DEF Generate, IInv, Types
<1>4. /\ stock' = stock - u /\ wallet' = [wallet EXCEPT ![c0] = @ - charge]
      /\ UNCHANGED <<toppedUp, raced>>
  BY <1>b, <1>c, <1>e, <1>g DEF Generate
<1>5. /\ row'[s][d].order = n /\ row'[s][d].amount = u /\ row'[s][d].status = "scheduled"
      /\ \A t \in Subs, y \in Dates : <<t, y>> # <<s, d>> => row'[t][y] = row[t][y]
  BY <1>1, <1>3, <1>b, <1>f DEF Generate, IInv, Types, Total
<1>6. Types /\ Types'
  BY GenerateStep DEF IInv
<1>7. n \notin DOMAIN orders /\ n # 0 /\ DOMAIN orders' = DOMAIN orders \cup {n}
  BY <1>3
<1>8. \A o \in DOMAIN orders : orders'[o] = orders[o]
  BY <1>3
<1>9. StockAdds'
  <2> DEFINE f == [o \in DOMAIN orders |-> Standing(o)]
             e == [o \in DOMAIN orders' |-> Standing(o)']
  <2>1. f \in [DOMAIN orders -> Int] /\ UnitsStanding = SumOf(f) /\ SumOf(f) \in Int
    BY <1>6, SumTypes DEF UnitsStanding
  <2>2. Standing(n)' = u /\ \A o \in DOMAIN orders : Standing(o)' = Standing(o)
    BY <1>2, <1>3, <1>8 DEF Standing
  <2>3. e \in [DOMAIN orders' -> Int] /\ e[n] = u /\ SameOn(DOMAIN orders, f, e)
    BY <1>1, <1>7, <2>1, <2>2 DEF SameOn
  <2>4. UnitsStanding' = SumOf(e)
    BY DEF UnitsStanding
  <2> HIDE DEF f, e
  <2>5. GrowsBy(DOMAIN orders, DOMAIN orders', n)
    BY <1>7 DEF GrowsBy
  <2>6. SumOf(e) = SumOf(f) + u
    BY <1>6, <2>1, <2>3, <2>5, OrdersFinite, SumAdd
  <2>7. stock \in Int /\ OpeningStock \in Int
    BY <1>6, SubscriptionsAssumption DEF Types
  <2> QED
    BY <1>1, <1>4, <2>1, <2>4, <2>6, <2>7 DEF BInv, StockAdds
<1>10. OrdersOf(c0) \subseteq DOMAIN orders /\ GrowsBy(OrdersOf(c0), OrdersOf(c0)', n)
  BY <1>1, <1>2, <1>3, <1>7, <1>8 DEF OrdersOf, GrowsBy
<1>11. \A c \in Customers : OrdersOf(c) \subseteq DOMAIN orders /\ (c # c0 => OrdersOf(c)' = OrdersOf(c))
  BY <1>1, <1>2, <1>3, <1>7, <1>8 DEF OrdersOf
<1>12. IsFiniteSet(OrdersOf(c0))
  BY <1>6, OrdersFinite
<1>13. ChargedTo(c0)' = ChargedTo(c0) + charge /\ ChargedTo(c0) \in Int
  <2> DEFINE f == [o \in OrdersOf(c0) |-> orders[o].charge]
             e == [o \in OrdersOf(c0)' |-> orders'[o].charge]
  <2>1. f \in [OrdersOf(c0) -> Int] /\ ChargedTo(c0) = SumOf(f) /\ SumOf(f) \in Int
    BY <1>6, SumTypes DEF ChargedTo
  <2>2. e \in [OrdersOf(c0)' -> Int] /\ ChargedTo(c0)' = SumOf(e)
    <3>1. \A o \in OrdersOf(c0)' : orders'[o].charge \in Int
      BY <1>2, <1>3, <1>6, <1>8, <1>10, OrderTypes DEF GrowsBy
    <3> QED
      BY <3>1 DEF ChargedTo
  <2>3. e[n] = charge /\ SameOn(OrdersOf(c0), f, e)
    BY <1>2, <1>3, <1>8, <1>10 DEF SameOn, GrowsBy
  <2> HIDE DEF f, e
  <2>4. SumOf(e) = SumOf(f) + e[n]
    BY <1>10, <1>12, <2>1, <2>2, <2>3, SumAdd
  <2> QED
    BY <2>1, <2>2, <2>3, <2>4
<1>14. OrderedBy(c0)' = OrderedBy(c0) + u
  <2> DEFINE f == [o \in OrdersOf(c0) |-> Total(orders[o].units)]
             e == [o \in OrdersOf(c0)' |-> Total(orders'[o].units)]
  <2>1. f \in [OrdersOf(c0) -> Int] /\ OrderedBy(c0) = SumOf(f)
    BY <1>6, SumTypes DEF OrderedBy
  <2>2. e \in [OrdersOf(c0)' -> Int] /\ OrderedBy(c0)' = SumOf(e)
    <3>1. \A o \in OrdersOf(c0)' : orders'[o].units \in Int
      BY <1>1, <1>2, <1>3, <1>6, <1>8, <1>10, OrderTypes DEF GrowsBy
    <3> QED
      BY <3>1 DEF OrderedBy, Total
  <2>3. e[n] = u /\ SameOn(OrdersOf(c0), f, e)
    BY <1>2, <1>3, <1>8, <1>10 DEF SameOn, GrowsBy, Total
  <2> HIDE DEF f, e
  <2>4. SumOf(e) = SumOf(f) + e[n]
    BY <1>10, <1>12, <2>1, <2>2, <2>3, SumAdd
  <2> QED
    BY <2>1, <2>2, <2>3, <2>4
<1>15. ASSUME NEW c \in Customers, c # c0
       PROVE  ChargedTo(c)' = ChargedTo(c) /\ OrderedBy(c)' = OrderedBy(c)
  <2>1. OrdersOf(c)' = OrdersOf(c) /\ \A o \in OrdersOf(c) : orders'[o] = orders[o]
    BY <1>8, <1>11, <1>15
  <2>2. [o \in OrdersOf(c)' |-> orders'[o].charge] = [o \in OrdersOf(c) |-> orders[o].charge]
    BY <2>1
  <2>3. [o \in OrdersOf(c)' |-> Total(orders'[o].units)] = [o \in OrdersOf(c) |-> Total(orders[o].units)]
    BY <2>1
  <2> QED
    BY <2>2, <2>3 DEF ChargedTo, OrderedBy
<1>16. ASSUME NEW c \in Customers PROVE PurseAdds(c)'
  <2>1. wallet[c] \in Int /\ toppedUp' = toppedUp /\ wallet \in [Customers -> Nat]
        /\ wallet[c] + ChargedTo(c) = OpeningBalance + toppedUp[c]
    BY <1>4, <1>6 DEF Types, BInv, PurseAdds
  <2>2. CASE c = c0
    <3>1. wallet'[c] = wallet[c] - charge
      BY <1>4, <2>1, <2>2
    <3>2. wallet'[c] + ChargedTo(c)' = wallet[c] + ChargedTo(c)
      BY <1>2, <1>13, <2>1, <2>2, <3>1
    <3> QED
      BY <2>1, <3>2 DEF PurseAdds
  <2>3. CASE c # c0
    <3>1. wallet'[c] = wallet[c]
      BY <1>4, <2>1, <2>3
    <3> QED
      BY <1>15, <2>1, <2>3, <3>1 DEF PurseAdds
  <2> QED
    BY <2>2, <2>3
<1>17. ASSUME NEW c \in Customers, c # c0 PROVE SpentAdds(c)'
  <2>1. SameDays(c)
    BY <1>1, <1>5, <1>17 DEF SameDays
  <2> QED
    BY <1>4, <1>15, <1>17, <2>1, SpentStays DEF BInv, SpentAdds, Raced
<1>18. ASSUME ~Raced(c0) PROVE AmountSpent(c0)' = OrderedBy(c0)'
  <2>1. <<s, d>> \notin raced
    BY <1>1, <1>18 DEF Raced
  <2>2. row[s][d].order = 0
    BY <1>1, <2>1, OwnDay
  <2> DEFINE day == <<s, d>>
             f == [y \in DaysSpent(c0) |-> row[y[1]][y[2]].amount]
             e == [y \in DaysSpent(c0)' |-> row'[y[1]][y[2]].amount]
  <2>3. \A y \in Subs \X Dates : y # day => row'[y[1]][y[2]] = row[y[1]][y[2]]
    BY <1>5
  <2>4. GrowsBy(DaysSpent(c0), DaysSpent(c0)', day)
    BY <1>1, <1>5, <1>7, <2>2, <2>3 DEF DaysSpent, GrowsBy
  <2>5. f \in [DaysSpent(c0) -> Int] /\ IsFiniteSet(DaysSpent(c0))
    BY <1>6, RowTypes
  <2>6. e \in [DaysSpent(c0)' -> Int]
    <3>1. \A y \in DaysSpent(c0)' : row'[y[1]][y[2]].amount \in Int
      <4>1. \A y \in Subs \X Dates : row'[y[1]][y[2]].amount \in Nat
        BY <1>6 DEF Types, Row
      <4> QED
        BY <4>1 DEF DaysSpent
    <3> QED
      BY <3>1
  <2>7. e[day] = u /\ SameOn(DaysSpent(c0), f, e)
    BY <1>5, <2>3, <2>4 DEF SameOn, GrowsBy, DaysSpent
  <2>8. AmountSpent(c0) = SumOf(f) /\ AmountSpent(c0)' = SumOf(e)
    BY DEF AmountSpent
  <2> HIDE DEF f, e, day
  <2>9. SumOf(e) = SumOf(f) + e[day]
    BY <2>4, <2>5, <2>6, <2>7, SumAdd
  <2>10. AmountSpent(c0) = OrderedBy(c0)
    BY <1>1, <1>18 DEF BInv, SpentAdds
  <2> QED
    BY <1>14, <2>7, <2>8, <2>9, <2>10
<1>19. SpentAdds(c0)'
  BY <1>4, <1>18 DEF SpentAdds, Raced
<1> QED
  BY <1>4, <1>9, <1>16, <1>17, <1>19 DEF BInv

LEMMA NextBooks == IInv /\ BInv /\ [Next]_vars => BInv'
<1> SUFFICES ASSUME IInv, BInv, [Next]_vars PROVE BInv'
  OBVIOUS
<1>1. CASE \/ Clock \/ \E s \in Subs : Customer(s)
           \/ UNCHANGED vars
  BY <1>1, QuietStep
<1>2. CASE \E c \in Customers : TopUp(c)
  BY <1>2, TopUpBooks
<1>3. CASE \E o \in DOMAIN orders : CancelOrder(o) \/ DeliverOrder(o)
  BY <1>3, StatusBooks
<1>4. ASSUME NEW p \in Workers,
             \/ \E d \in Dates : StartTask(p, d)
             \/ \E s \in Subs : Ask(p, s)
             \/ Continue(p)
             \/ Crash(p)
      PROVE  BInv'
  <2>1. CASE \/ \E d \in Dates : StartTask(p, d)
             \/ \E s \in Subs : Ask(p, s) \/ Decide(p, s)
             \/ RollBack(p) \/ SavePlan(p) \/ Crash(p)
    BY <2>1, QuietStep
  <2>2. CASE Generate(p)
    BY <2>2, GenerateBooks
  <2>3. CASE RecordFailure(p) \/ SaveDay(p)
    BY <2>3, RowBooks
  <2>4. CASE AssignRider(p)
    BY <2>4, StatusBooks
  <2> QED
    BY <1>4, <2>1, <2>2, <2>3, <2>4 DEF Continue
<1> QED
  BY <1>1, <1>2, <1>3, <1>4 DEF Next

LEMMA InitBooks == Init => BInv
<1> SUFFICES ASSUME Init PROVE BInv
  OBVIOUS
<1>1. /\ orders = <<>> /\ stock = OpeningStock /\ OpeningStock \in Nat /\ OpeningBalance \in Nat
      /\ wallet = [c \in Customers |-> OpeningBalance] /\ toppedUp = [c \in Customers |-> 0]
  BY SubscriptionsAssumption DEF Init
<1>2. \A f : f \in [{} -> Int] => SumOf(f) = 0
  BY SumType, FS_EmptySet
<1>3. DOMAIN orders = {} /\ \A c : OrdersOf(c) = {} /\ DaysSpent(c) = {}
  BY <1>1, NoRowIsRow DEF Init, OrdersOf, DaysSpent
<1>4. UnitsStanding = 0
  <2>1. [o \in DOMAIN orders |-> Standing(o)] \in [{} -> Int]
    BY <1>3
  <2> QED
    BY <1>2, <2>1 DEF UnitsStanding
<1>5. ASSUME NEW c \in Customers PROVE ChargedTo(c) = 0 /\ OrderedBy(c) = 0 /\ AmountSpent(c) = 0
  <2>1. /\ [o \in OrdersOf(c) |-> orders[o].charge] \in [{} -> Int]
        /\ [o \in OrdersOf(c) |-> Total(orders[o].units)] \in [{} -> Int]
        /\ [x \in DaysSpent(c) |-> row[x[1]][x[2]].amount] \in [{} -> Int]
    BY <1>3
  <2> QED
    BY <1>2, <2>1 DEF ChargedTo, OrderedBy, AmountSpent
<1>6. StockAdds
  BY <1>1, <1>4 DEF StockAdds
<1>7. \A c \in Customers : PurseAdds(c) /\ SpentAdds(c)
  BY <1>1, <1>5 DEF PurseAdds, SpentAdds
<1> QED
  BY <1>1, <1>6, <1>7 DEF BInv

\* Whatever fails, is cancelled, replayed or killed: stock and wallets are what the
\* generated orders left of them, and the amount shown as spent is what the orders of
\* the month came to, unless two handlers decided one of the customer's days at once
\* (generate_for_subscription's transaction, cancel_order, monthly_summary).
THEOREM SubscriptionsBooksBalance == Spec => []BooksBalance
<1>1. BInv => BooksBalance
  BY DEF BInv, StockAdds, PurseAdds, SpentAdds, Raced, BooksBalance
<1> QED
  BY <1>1, InitBooks, NextBooks, Invariance, PTL DEF Spec

-----------------------------------------------------------------------------
(***************************************************************************)
(* The forecast.  What a task has dealt with is decided, as long as nobody *)
(* changes it, because a decided day is only opened again by a customer,   *)
(* whom the task hears of.  So when its list is empty, every day that is   *)
(* due is decided; and a day that was ordered asks for what was ordered.   *)
(***************************************************************************)
Decided(s, d) == row[s][d].order # 0 \/ row[s][d].status \in {"skipped", "failed"}

OrdersAsked ==
    \A s \in Subs, d \in Dates :
        row[s][d].order # 0 => orders[row[s][d].order].units = row[s][d].quantity

Dealt(p, s) == s \notin req[p].todo \/ (req[p].kind = "assign" /\ req[p].sub = s)

Answered(p, s) ==
    LET d == req[p].date IN
    s \notin req[p].changed /\ <<s, d>> \notin raced /\ Due(s, sub[s], d) => Decided(s, d)

Visited(p) == OnTask(p) => \A s \in Subs : Dealt(p, s) => Answered(p, s)

DInv == OrdersAsked /\ \A p \in Workers : Visited(p)

\* The schedule of s stays, and no day of it is opened again.
Still(s) ==
    /\ sub'[s] = sub[s] /\ vacations'[s] = vacations[s]
    /\ \A d \in Dates : Decided(s, d) => Decided(s, d)'

LEMMA InitDInv == Init => DInv
<1> SUFFICES ASSUME Init PROVE DInv
  OBVIOUS
<1>1. \A p \in Workers : req[p].kind = "idle"
  BY RestIsRequest DEF Init
<1>2. OrdersAsked
  BY NoRowIsRow DEF Init, OrdersAsked
<1> QED
  BY <1>1, <1>2 DEF DInv, Visited, OnTask

\* A task that stays where it is, and is told of what changes under it.
LEMMA StaysVisited ==
    ASSUME IInv, NEW q \in Workers, Visited(q), Kept(q), req[q].changed \subseteq req'[q].changed,
           raced \subseteq raced', OnTask(q) => \A s \in Subs : s \in req'[q].changed \/ Still(s)
    PROVE  Visited(q)'
<1>1. SUFFICES ASSUME OnTask(q) PROVE Visited(q)'
  BY DEF Kept, Visited, OnTask
<1>2. PICK d \in Dates : d = req[q].date
  BY <1>1 DEF IInv, ReqOK, OnTask
<1>3. /\ req'[q].kind = req[q].kind /\ req'[q].sub = req[q].sub /\ req'[q].date = d
      /\ req'[q].todo = req[q].todo
  BY <1>2 DEF Kept
<1>4. ASSUME NEW s \in Subs, Dealt(q, s)', s \notin req'[q].changed, <<s, d>> \notin raced',
             Due(s, sub[s], d)'
      PROVE  Decided(s, d)'
  <2>1. Dealt(q, s) /\ s \notin req[q].changed /\ <<s, d>> \notin raced
    BY <1>3, <1>4 DEF Dealt
  <2>2. Still(s)
    BY <1>1, <1>4
  <2>3. Due(s, sub[s], d)
    BY <1>4, <2>2 DEF Still, Due, Falls, OnVacation
  <2>4. Decided(s, d)
    BY <1>1, <1>2, <2>1, <2>3 DEF Visited, Answered
  <2> QED
    BY <2>2, <2>4 DEF Still
<1> QED
  BY <1>3, <1>4 DEF Visited, Answered

\* A step of others, for what they leave alone.
LEMMA OthersVisited ==
    ASSUME IInv, DInv, NEW q \in Workers, req'[q] = req[q], raced \subseteq raced', \A s \in Subs : Still(s)
    PROVE  Visited(q)'
  BY Unchanged, StaysVisited DEF IInv, DInv

\* The subscription s is written, or a day of it: tasks are told.
LEMMA ToldVisited ==
    ASSUME IInv, DInv, NEW s \in Subs, NEW q \in Workers, raced' = raced,
           \A t \in Subs \ {s} : Still(t),
           req'[q] = [req[q] EXCEPT !.changed = @ \cup {s}] \/ (req'[q] = req[q] /\ ~OnTask(q))
    PROVE  Visited(q)'
<1>1. req[q] \in Request /\ Visited(q)
  BY DEF IInv, Types, DInv
<1>2. Kept(q) /\ req[q].changed \subseteq req'[q].changed
  BY <1>1, ToldIsKept DEF IInv, Request
<1>3. OnTask(q) => s \in req'[q].changed
  BY <1>1 DEF Request
<1> QED
  BY <1>1, <1>2, <1>3, StaysVisited

\* A request that is no task has visited nothing.
LEMMA NoTaskVisits == ASSUME NEW p, req'[p].kind \notin {"task", "block", "low", "out", "assign"}
                      PROVE  Visited(p)'
  BY DEF Visited, OnTask

-----------------------------------------------------------------------------
\* Rows and orders.
LEMMA OrdersStayAsked ==
    ASSUME IInv, OrdersAsked, row' = row, OrdersKept PROVE OrdersAsked'
<1> SUFFICES ASSUME NEW s \in Subs, NEW d \in Dates, row'[s][d].order # 0
             PROVE  orders'[row'[s][d].order].units = row'[s][d].quantity
  BY DEF OrdersAsked
<1>1. row[s][d].order \in 1..Len(orders)
  BY DEF IInv, Types, Row, RowOK
<1> QED
  BY <1>1 DEF OrdersKept, OrdersAsked

\* An order's status and rider change, and nothing the forecast counts.
LEMMA StatusKeepsOrders ==
    ASSUME IInv, \/ \E o \in DOMAIN orders : CancelOrder(o) \/ DeliverOrder(o)
                 \/ \E p \in Workers : AssignRider(p)
    PROVE  OrdersKept
<1>1. PICK o \in DOMAIN orders :
         \/ \E status \in {"cancelled", "delivered"} : orders' = [orders EXCEPT ![o].status = status]
         \/ \E found \in {"found", "nobody"} : orders' = [orders EXCEPT ![o].rider = found]
  BY DEF CancelOrder, DeliverOrder, AssignRider, IInv, ReqOK
<1>2. orders[o] \in Order
  BY DEF IInv, Types
<1>3. CASE \E status \in {"cancelled", "delivered"} : orders' = [orders EXCEPT ![o].status = status]
  <2>1. PICK status \in {"cancelled", "delivered"} : orders' = [orders EXCEPT ![o].status = status]
    BY <1>3
  <2> DEFINE x == [orders[o] EXCEPT !.status = status]
  <2>2. /\ x \in Order /\ x.sub = orders[o].sub /\ x.date = orders[o].date
        /\ x.units = orders[o].units /\ x.rider = orders[o].rider
    BY <1>2 DEF Order
  <2>3. orders' = [orders EXCEPT ![o] = x]
    BY <2>1
  <2> HIDE DEF x
  <2> QED
    BY <2>2, <2>3, OneOrderChanged
<1>4. CASE \E found \in {"found", "nobody"} : orders' = [orders EXCEPT ![o].rider = found]
  <2>3. PICK found \in {"found", "nobody"} : orders' = [orders EXCEPT ![o].rider = found]
    BY <1>4
  <2> DEFINE x == [orders[o] EXCEPT !.rider = found]
  <2>1. /\ x \in Order /\ x.sub = orders[o].sub /\ x.date = orders[o].date
        /\ x.units = orders[o].units /\ x.rider # "untried"
    BY <1>2 DEF Order, RiderSearch
  <2>2. orders' = [orders EXCEPT ![o] = x]
    BY <2>3
  <2> HIDE DEF x
  <2> QED
    BY <2>1, <2>2, OneOrderChanged
<1> QED
  BY <1>1, <1>3, <1>4

LEMMA RowWrittenAsked ==
    ASSUME IInv, OrdersAsked, NEW s \in Subs, NEW d \in Dates, NEW STATE x,
           row' = [row EXCEPT ![s][d] = x], x.order = 0, orders' = orders
    PROVE  OrdersAsked'
  BY DEF IInv, Types, OrdersAsked

\* A day that is decided in the step, and the days besides it.
LEMMA DayIsDecided ==
    ASSUME IInv, NEW s \in Subs, NEW d \in Dates, NEW STATE x, row' = [row EXCEPT ![s][d] = x],
           x.order # 0 \/ x.status \in {"skipped", "failed"}, UNCHANGED <<sub, vacations>>
    PROVE  Decided(s, d)' /\ \A t \in Subs : Still(t)
  BY DEF IInv, Types, Decided, Still

LEMMA NothingWritten ==
    ASSUME UNCHANGED <<sub, vacations, row>> PROVE \A t \in Subs : Still(t)
  BY DEF Still, Decided

-----------------------------------------------------------------------------
\* The task is done with t: nothing was to be decided, or the failure is
\* recorded, or a rider has been looked for.
DoneWith(p, t) ==
    LET r == req[p] IN
    \/ Decide(p, t) /\ ~(Due(t, r.loaded[t], r.date) /\ ~Settled(row[t][r.date]))
    \/ (RecordFailure(p) \/ AssignRider(p)) /\ r.sub = t

LEMMA DoneWithIt ==
    ASSUME IInv, KInv, DInv, NEW p \in Workers, NEW t \in Subs, DoneWith(p, t),
           NEW d \in Dates, d = req[p].date
    PROVE  /\ req'[p] = Onward(req[p], req[p].todo \ {t})
           /\ \A q \in Workers \ {p} : req'[q] = req[q]
           /\ UNCHANGED <<sub, vacations, raced>>
           /\ \A s \in Subs : Still(s)
           /\ OrdersAsked'
           /\ \A s \in Subs :
                 /\ s \notin req[p].todo \ {t} /\ s \notin req[p].changed /\ <<s, d>> \notin raced
                 /\ Due(s, sub[s], d)
                 => Decided(s, d)'
<1> DEFINE r == req[p]
<1>1. /\ r \in Request /\ DOMAIN req = Workers /\ OnTask(p) /\ UpToDate(p) /\ Visited(p) /\ OrdersAsked
  BY DEF DoneWith, Decide, RecordFailure, AssignRider, OnTask, IInv, Types, KInv, DInv
<1>2. UNCHANGED <<sub, vacations, raced>>
  BY DEF DoneWith, Decide, RecordFailure, AssignRider, scheduleVars
<1>3. req' = [req EXCEPT ![p] = Onward(r, r.todo \ {t})]
  BY <1>1 DEF DoneWith, Decide, RecordFailure, TodoOnFailure, AssignRider
<1>4. \A s \in Subs : Still(s)
               /\ (s = t /\ t \notin r.changed /\ <<t, d>> \notin raced /\ Due(t, sub[t], d) => Decided(t, d)')
  <2>1. CASE Decide(p, t) /\ ~(Due(t, r.loaded[t], d) /\ ~Settled(row[t][d]))
    <3>1. row' = row /\ t \in r.todo
      BY <2>1 DEF Decide
    <3>2. t \notin r.changed /\ Due(t, sub[t], d) => Decided(t, d)
      BY <1>1, <2>1, <3>1 DEF UpToDate, Settled, Decided
    <3> QED
      BY <1>2, <3>1, <3>2, NothingWritten DEF Still
  <2>2. CASE AssignRider(p) /\ r.sub = t
    <3>1. row' = row /\ Dealt(p, t)
      BY <2>2 DEF AssignRider, Dealt
    <3>2. t \notin r.changed /\ <<t, d>> \notin raced /\ Due(t, sub[t], d) => Decided(t, d)
      BY <1>1, <3>1 DEF Visited, Answered
    <3> QED
      BY <1>2, <3>1, <3>2, NothingWritten DEF Still
  <2>3. CASE RecordFailure(p) /\ r.sub = t
    <3> DEFINE x == [NoRow EXCEPT !.status = IF r.kind = "low" THEN "failed" ELSE "skipped",
                                  !.quantity = r.units]
    <3>1. row' = [row EXCEPT ![t][d] = x]
      BY <2>3 DEF RecordFailure
    <3>2. x.status \in {"skipped", "failed"}
      BY DEF NoRow
    <3> HIDE DEF x
    <3> QED
      BY <1>2, <3>1, <3>2, DayIsDecided
  <2> QED
    BY <2>1, <2>2, <2>3 DEF DoneWith
<1>5. OrdersAsked'
  <2>1. CASE Decide(p, t)
    BY <1>1, <2>1, SameOrders, OrdersStayAsked DEF IInv, Decide, bookVars
  <2>2. CASE AssignRider(p)
    BY <1>1, <2>2, StatusKeepsOrders, OrdersStayAsked DEF AssignRider
  <2>3. CASE RecordFailure(p) /\ r.sub = t
    <3> DEFINE x == [NoRow EXCEPT !.status = IF r.kind = "low" THEN "failed" ELSE "skipped",
                                  !.quantity = r.units]
    <3>1. row' = [row EXCEPT ![t][d] = x] /\ orders' = orders
      BY <2>3 DEF RecordFailure, bookVars
    <3>2. x.order = 0
      BY DEF NoRow
    <3> HIDE DEF x
    <3> QED
      BY <1>1, <3>1, <3>2, RowWrittenAsked
  <2> QED
    BY <2>1, <2>2, <2>3 DEF DoneWith
<1>6. ASSUME NEW s \in Subs, s # t, s \notin r.todo \ {t}, s \notin r.changed, <<s, d>> \notin raced,
             Due(s, sub[s], d)
      PROVE  Decided(s, d)'
  <2>1. Dealt(p, s)
    BY <1>6 DEF Dealt
  <2>2. Decided(s, d)
    BY <1>1, <1>6, <2>1 DEF Visited, Answered
  <2> QED
    BY <1>4, <2>2 DEF Still
<1>7. ASSUME NEW s \in Subs, s \notin r.todo \ {t}, s \notin r.changed, <<s, d>> \notin raced,
             Due(s, sub[s], d)
      PROVE  Decided(s, d)'
  BY <1>4, <1>6, <1>7
<1>8. req'[p] = Onward(r, r.todo \ {t}) /\ \A q \in Workers \ {p} : req'[q] = req[q]
  BY <1>1, <1>3
<1> QED
  BY <1>2, <1>4, <1>5, <1>7, <1>8

-----------------------------------------------------------------------------
\* One worker moves, nothing that is decided opens again, and its own visits
\* are dealt with.
LEMMA MoverVisits ==
    ASSUME IInv, DInv, NEW p \in Workers, \A q \in Workers \ {p} : req'[q] = req[q], Visited(p)',
           raced \subseteq raced', \A s \in Subs : Still(s), OrdersAsked'
    PROVE  DInv'
<1>1. \A q \in Workers : Visited(q)'
  BY OthersVisited
<1> QED
  BY <1>1 DEF DInv

LEMMA OnwardVisits ==
    ASSUME NEW p \in Workers, NEW d \in Dates, NEW STATE r, NEW STATE todo, r.date = d,
           req'[p] = Onward(r, todo),
           \A s \in Subs : s \notin todo /\ s \notin r.changed /\ <<s, d>> \notin raced' /\ Due(s, sub[s], d)'
                           => Decided(s, d)'
    PROVE  Visited(p)'
<1>1. CASE todo = {}
  BY <1>1, RestIsRequest, NoTaskVisits DEF Onward
<1>2. CASE todo # {}
  <2>1. req'[p] = [Rest EXCEPT !.kind = "task", !.date = d, !.todo = todo, !.changed = r.changed,
                               !.loaded = [s \in todo |-> r.loaded[s]]]
    BY <1>2 DEF Onward
  <2>2. /\ req'[p].kind = "task" /\ req'[p].todo = todo /\ req'[p].changed = r.changed
        /\ req'[p].date = d
    BY <2>1 DEF Rest
  <2> QED
    BY <2>2 DEF Visited, Dealt, Answered
<1> QED
  BY <1>1, <1>2

LEMMA StartTaskVisits ==
    ASSUME IInv, DInv, NEW p \in Workers, NEW d \in Dates, StartTask(p, d) PROVE DInv'
<1> DEFINE r == [Rest EXCEPT !.date = d, !.loaded = sub]
           todo == {s \in Subs : sub[s].status = "active"}
<1>1. /\ req' = [req EXCEPT ![p] = Onward(r, todo)]
      /\ UNCHANGED <<sub, vacations, row, orders, raced>>
  BY DEF StartTask, scheduleVars, bookVars
<1>2. r.date = d
  BY DEF Rest
<1>3. req'[p] = Onward(r, todo) /\ \A q \in Workers \ {p} : req'[q] = req[q]
  BY <1>1 DEF IInv, Types
<1>4. \A s \in Subs : s \notin todo => ~Due(s, sub[s], d)'
  BY <1>1 DEF Due
<1>5. Visited(p)'
  <2> HIDE DEF r, todo
  <2> QED
    BY <1>2, <1>3, <1>4, OnwardVisits
<1>6. (\A s \in Subs : Still(s)) /\ OrdersAsked'
  BY <1>1, NothingWritten, SameOrders, OrdersStayAsked DEF IInv, DInv
<1> QED
  BY <1>1, <1>3, <1>5, <1>6, MoverVisits

LEMMA DoneWithVisits ==
    ASSUME IInv, KInv, DInv, NEW p \in Workers, NEW t \in Subs, DoneWith(p, t) PROVE DInv'
<1> DEFINE r == req[p]
<1>0. PICK d \in Dates : d = r.date
  BY DEF DoneWith, Decide, RecordFailure, AssignRider, IInv, ReqOK
<1>1. /\ req'[p] = Onward(r, r.todo \ {t}) /\ \A q \in Workers \ {p} : req'[q] = req[q]
      /\ UNCHANGED <<sub, vacations, raced>> /\ (\A s \in Subs : Still(s)) /\ OrdersAsked'
      /\ \A s \in Subs : s \notin r.todo \ {t} /\ s \notin r.changed /\ <<s, d>> \notin raced
                         /\ Due(s, sub[s], d) => Decided(s, d)'
  BY <1>0, DoneWithIt
<1>2. Visited(p)'
  <2>1. \A s \in Subs : Due(s, sub[s], d)' => Due(s, sub[s], d)
    BY <1>1 DEF Due, Falls, OnVacation
  <2> QED
    BY <1>0, <1>1, <2>1, OnwardVisits
<1> QED
  BY <1>1, <1>2, MoverVisits

\* Within the visit of one subscription.
LEMMA WithinVisits ==
    ASSUME IInv, DInv, NEW p \in Workers, Generate(p) \/ RollBack(p) PROVE DInv'
<1> DEFINE r == req[p]
           n == Len(orders) + 1
           x == [status |-> "scheduled", quantity |-> r.units, amount |-> Total(r.units), order |-> n]
<1>0. /\ r.kind = "block" /\ r \in Request /\ OnTask(p) /\ ReqOK(p)
      /\ UNCHANGED <<sub, vacations, raced>> /\ Visited(p) /\ OrdersAsked
  BY DEF Generate, RollBack, scheduleVars, IInv, Types, OnTask, DInv
<1>1. /\ r.kind = "block" /\ r.sub \in Subs /\ r \in Request /\ OnTask(p) /\ n \in Nat \ {0}
      /\ UNCHANGED <<sub, vacations, raced>> /\ Visited(p) /\ OrdersAsked
  <2>1. r.sub \in Subs
    BY <1>0 DEF ReqOK, Request
  <2>2. n \in Nat \ {0}
    BY DEF IInv, Types
  <2> HIDE DEF n
  <2> QED
    BY <1>0, <2>1, <2>2
<1>2. PICK d \in Dates : d = r.date
  BY <1>1 DEF IInv, ReqOK
<1>3. CASE RollBack(p)
  <2>1. PICK kind \in {"low", "out"} : req' = [req EXCEPT ![p].kind = kind]
    BY <1>3 DEF RollBack
  <2>2. row' = row /\ orders' = orders
    BY <1>3 DEF RollBack
  <2>3. (\A s \in Subs : Still(s)) /\ OrdersAsked'
    BY <1>1, <2>2, NothingWritten, SameOrders, OrdersStayAsked DEF IInv
  <2>4. req'[p] = [r EXCEPT !.kind = kind] /\ \A q \in Workers \ {p} : req'[q] = req[q]
    BY <2>1 DEF IInv, Types
  <2>5. /\ req'[p].kind = kind /\ req'[p].todo = r.todo /\ req'[p].changed = r.changed
        /\ req'[p].date = d /\ req'[p].sub = r.sub
    BY <1>1, <1>2, <2>4 DEF Request
  <2>6. Visited(p)'
    <3>1. ASSUME NEW s \in Subs, Dealt(p, s)', s \notin r.changed, <<s, d>> \notin raced', Due(s, sub[s], d)'
          PROVE  Decided(s, d)'
      <4>1. Dealt(p, s) /\ Due(s, sub[s], d)
        BY <1>1, <2>5, <3>1 DEF Dealt, Due, Falls, OnVacation
      <4> QED
        BY <1>1, <1>2, <2>2, <3>1, <4>1 DEF Visited, Answered, Decided
    <3> QED
      BY <2>5, <3>1 DEF Visited, Answered
  <2> QED
    BY <1>1, <2>3, <2>4, <2>6, MoverVisits
<1>4. CASE Generate(p)
  <2>0. orders' = Append(orders, OrderOf(p)) /\ OrderOf(p).units = r.units /\ OrderOf(p) \in Order
    BY <1>4, GenerateOrder DEF Generate
  <2>1. /\ orders' = Append(orders, OrderOf(p)) /\ OrderOf(p).units = r.units /\ OrderOf(p) \in Order
        /\ Len(orders') = n
    BY <2>0 DEF IInv, Types
  <2>2. row' = [row EXCEPT ![r.sub][d] = x] /\ req' = [req EXCEPT ![p].kind = "assign", ![p].order = n]
    BY <1>2, <1>4, <2>1 DEF Generate
  <2>3. x.order = n /\ x.quantity = r.units
    OBVIOUS
  <2> HIDE DEF n, x
  <2>4. Decided(r.sub, d)' /\ \A s \in Subs : Still(s)
    <3>1. PICK t \in Subs : t = r.sub
      BY <1>1
    <3>2. Decided(t, d)' /\ \A s \in Subs : Still(s)
      BY <1>1, <2>2, <2>3, <3>1, DayIsDecided
    <3>3. req'[p].sub = t
      BY <1>1, <2>2, <3>1 DEF IInv, Types, Request
    <3> QED
      BY <3>1, <3>2, <3>3
  <2>5. OrdersAsked'
    <3> SUFFICES ASSUME NEW s \in Subs, NEW y \in Dates, row'[s][y].order # 0
                 PROVE  orders'[row'[s][y].order].units = row'[s][y].quantity
      BY DEF OrdersAsked
    <3>1. CASE s = r.sub /\ y = d
      <4>1. row'[s][y] = x
        BY <2>2, <3>1 DEF IInv, Types
      <4>2. orders'[n] = OrderOf(p)
        BY <2>1 DEF IInv, Types
      <4> QED
        BY <2>1, <2>3, <4>1, <4>2
    <3>2. CASE ~(s = r.sub /\ y = d)
      <4>1. row'[s][y] = row[s][y]
        BY <2>2, <3>2 DEF IInv, Types
      <4>2. row[s][y].order \in 1..Len(orders)
        BY <4>1 DEF IInv, Types, Row, RowOK
      <4>3. orders'[row[s][y].order] = orders[row[s][y].order]
        BY <2>1, <4>2 DEF IInv, Types
      <4> QED
        BY <1>1, <4>1, <4>2, <4>3 DEF OrdersAsked
    <3> QED
      BY <3>1, <3>2
  <2>6. req'[p] = [r EXCEPT !.kind = "assign", !.order = n] /\ \A q \in Workers \ {p} : req'[q] = req[q]
    BY <2>2 DEF IInv, Types
  <2>7. /\ req'[p].kind = "assign" /\ req'[p].todo = r.todo /\ req'[p].changed = r.changed
        /\ req'[p].date = d /\ req'[p].sub = r.sub
    BY <1>1, <1>2, <2>6 DEF Request
  <2>8. Visited(p)'
    <3>1. ASSUME NEW s \in Subs, Dealt(p, s)', s \notin r.changed, <<s, d>> \notin raced', Due(s, sub[s], d)'
          PROVE  Decided(s, d)'
      <4>1. CASE s = r.sub
        BY <2>4, <2>7, <4>1
      <4>2. CASE s \notin r.todo
        <5>1. Dealt(p, s) /\ Due(s, sub[s], d)
          BY <1>1, <3>1, <4>2 DEF Dealt, Due, Falls, OnVacation
        <5>2. Decided(s, d)
          BY <1>1, <1>2, <3>1, <5>1 DEF Visited, Answered
        <5> QED
          BY <2>4, <5>2 DEF Still
      <4> QED
        BY <2>7, <3>1, <4>1, <4>2 DEF Dealt
    <3> QED
      BY <2>7, <3>1 DEF Visited, Answered
  <2> QED
    BY <1>1, <2>4, <2>5, <2>6, <2>8, MoverVisits
<1> QED
  BY <1>3, <1>4

\* The block is entered: the task is at s, which it has not dealt with.
LEMMA EntersVisits ==
    ASSUME IInv, DInv, NEW p \in Workers, NEW s \in Subs, Decide(p, s), ~DoneWith(p, s) PROVE DInv'
<1> DEFINE r == req[p]
           units == Units(s, r.loaded[s], r.date)
<1>1. r \in Request /\ r.kind = "task" /\ OnTask(p) /\ Visited(p) /\ OrdersAsked
  BY DEF Decide, OnTask, IInv, Types, DInv
<1>2. PICK d \in Dates : d = r.date
  BY <1>1 DEF IInv, ReqOK
<1>3. /\ req' = [req EXCEPT ![p].kind = "block", ![p].sub = s, ![p].units = units]
      /\ NoteRace(p, s, d) /\ UNCHANGED <<sub, vacations, row, orders>>
  BY <1>2 DEF Decide, DoneWith, scheduleVars, bookVars
<1>4. /\ raced \subseteq raced' /\ (\A t \in Subs : Still(t)) /\ OrdersAsked'
  BY <1>1, <1>3, NothingWritten, SameOrders, OrdersStayAsked DEF NoteRace, IInv
<1> HIDE DEF units
<1>5. /\ req'[p] = [r EXCEPT !.kind = "block", !.sub = s, !.units = units]
      /\ \A q \in Workers \ {p} : req'[q] = req[q]
  BY <1>3 DEF IInv, Types
<1>6. /\ req'[p].kind = "block" /\ req'[p].todo = r.todo /\ req'[p].changed = r.changed
      /\ req'[p].date = d
  BY <1>1, <1>2, <1>5 DEF Request
<1>7. Visited(p)'
  <2>1. ASSUME NEW t \in Subs, Dealt(p, t)', t \notin r.changed, <<t, d>> \notin raced', Due(t, sub[t], d)'
        PROVE  Decided(t, d)'
    <3>1. Dealt(p, t) /\ <<t, d>> \notin raced /\ Due(t, sub[t], d)
      BY <1>3, <1>4, <1>6, <2>1 DEF Dealt, Due, Falls, OnVacation
    <3> QED
      BY <1>1, <1>2, <1>3, <2>1, <3>1 DEF Visited, Answered, Decided
  <2> QED
    BY <1>6, <2>1 DEF Visited, Answered
<1> QED
  BY <1>4, <1>5, <1>7, MoverVisits

\* No subscription is written, no day, and no worker moves.
LEMMA QuietVisits ==
    ASSUME IInv, DInv, req' = req, raced \subseteq raced', UNCHANGED <<sub, vacations, row>>, OrdersKept
    PROVE  DInv'
  BY NothingWritten, OthersVisited, OrdersStayAsked DEF DInv

LEMMA AskVisits == ASSUME IInv, DInv, NEW p \in Workers, NEW s \in Subs, Ask(p, s) PROVE DInv'
<1>1. UNCHANGED <<sub, vacations, row, orders>> /\ raced \subseteq raced'
  BY DEF Ask, AskStatus, AskPlan, AskDay, scheduleVars, bookVars, NoteRace
<1>2. /\ req'[p].kind \in {"pause", "resume", "edit", "skip", "quantity"}
      /\ \A q \in Workers \ {p} : req'[q] = req[q]
  <2>1. ASSUME NEW kind \in {"pause", "resume"}, AskStatus(p, s, kind)
        PROVE  req'[p].kind = kind /\ \A q \in Workers \ {p} : req'[q] = req[q]
    BY <2>1 DEF AskStatus, IInv, Types, Rest
  <2>2. ASSUME NEW plan \in Plans, AskPlan(p, s, plan)
        PROVE  req'[p].kind = "edit" /\ \A q \in Workers \ {p} : req'[q] = req[q]
    BY <2>2 DEF AskPlan, IInv, Types, Rest
  <2>3. ASSUME NEW d \in Dates, NEW units \in {0} \cup Quantities, AskDay(p, s, d, units)
        PROVE  req'[p].kind \in {"skip", "quantity"} /\ \A q \in Workers \ {p} : req'[q] = req[q]
    BY <2>3 DEF AskDay, IInv, Types, Rest
  <2> QED
    BY <2>1, <2>2, <2>3 DEF Ask
<1>3. Visited(p)'
  BY <1>2, NoTaskVisits
<1>4. (\A t \in Subs : Still(t)) /\ OrdersAsked'
  BY <1>1, NothingWritten, SameOrders, OrdersStayAsked DEF IInv, DInv
<1> QED
  BY <1>1, <1>2, <1>3, <1>4, MoverVisits

LEMMA CrashVisits == ASSUME IInv, DInv, NEW p \in Workers, Crash(p) PROVE DInv'
<1>1. /\ req'[p] = Rest /\ \A q \in Workers \ {p} : req'[q] = req[q]
      /\ UNCHANGED <<sub, vacations, row, orders, raced>>
  BY DEF Crash, scheduleVars, bookVars, IInv, Types
<1>2. Visited(p)'
  BY <1>1, RestIsRequest, NoTaskVisits
<1>3. (\A t \in Subs : Still(t)) /\ OrdersAsked'
  BY <1>1, NothingWritten, SameOrders, OrdersStayAsked DEF IInv, DInv
<1> QED
  BY <1>1, <1>2, <1>3, MoverVisits

\* A customer changes a subscription at once: every task is told.
LEMMA ScheduleVisits == ASSUME IInv, DInv, NEW s \in Subs, Customer(s) PROVE DInv'
<1>1. UNCHANGED <<row, orders, raced>>
  BY DEF Customer, CancelSub, Create, AddVacation, EndVacation, bookVars
<1>2. OrdersAsked'
  BY <1>1, SameOrders, OrdersStayAsked DEF IInv, DInv
<1>3. \A t \in Subs \ {s} : Still(t)
  <2>1. ASSUME NEW STATE new, SaveSub(None, s, new), vacations' = vacations
        PROVE  \A t \in Subs \ {s} : Still(t)
    BY <1>1, <2>1 DEF SaveSub, Still, Decided, IInv, Types
  <2>2. ASSUME NEW range \in Ranges, AddVacation(s, range) \/ EndVacation(s, range)
        PROVE  \A t \in Subs \ {s} : Still(t)
    BY <1>1, <2>2 DEF AddVacation, EndVacation, Still, Decided, IInv, Types
  <2> QED
    BY <2>1, <2>2 DEF Customer, CancelSub, Create
<1>4. ASSUME NEW q \in Workers
      PROVE  \/ req'[q] = [req[q] EXCEPT !.changed = @ \cup {s}]
             \/ req'[q] = req[q] /\ ~OnTask(q)
  <2>1. req' = AllTold(s) \/ req' = TasksTold(s)
    BY DEF Customer, CancelSub, Create, AddVacation, EndVacation, SaveSub
  <2> QED
    BY <2>1 DEF AllTold, TasksTold, Told
<1>5. \A q \in Workers : Visited(q)'
  BY <1>1, <1>3, <1>4, ToldVisited
<1> QED
  BY <1>2, <1>5 DEF DInv

LEMMA SavePlanVisits == ASSUME IInv, DInv, NEW p \in Workers, SavePlan(p) PROVE DInv'
<1> DEFINE s == req[p].sub
<1>1. PICK new : SaveSub(p, s, new)
  BY DEF SavePlan
<1>2. s \in Subs /\ UNCHANGED <<vacations, row, raced, orders>> /\ p # None
  BY SubscriptionsAssumption DEF SavePlan, IInv, ReqOK, clockVars, bookVars
<1>3. sub' = [sub EXCEPT ![s] = new] /\ req' = [AllTold(s) EXCEPT ![p] = Rest]
  BY <1>1, <1>2 DEF SaveSub
<1>4. OrdersAsked'
  BY <1>2, SameOrders, OrdersStayAsked DEF IInv, DInv
<1>5. Visited(p)'
  <2>1. req'[p] = Rest
    BY <1>3 DEF AllTold, Told
  <2> QED
    BY <2>1, RestIsRequest, NoTaskVisits
<1>6. ASSUME NEW q \in Workers \ {p} PROVE Visited(q)'
  <2>1. \/ req'[q] = [req[q] EXCEPT !.changed = @ \cup {s}]
        \/ req'[q] = req[q] /\ ~OnTask(q)
    BY <1>3 DEF AllTold, Told
  <2>2. \A t \in Subs \ {s} : Still(t)
    BY <1>2, <1>3 DEF Still, Decided, IInv, Types
  <2> QED
    BY <1>2, <2>1, <2>2, ToldVisited
<1> QED
  BY <1>4, <1>5, <1>6 DEF DInv

\* A customer's day may open again; its tasks are told.
LEMMA SaveDayVisits == ASSUME IInv, DInv, NEW p \in Workers, SaveDay(p) PROVE DInv'
<1> DEFINE s == req[p].sub
           d == req[p].date
           x == [NoRow EXCEPT !.status = IF req[p].kind = "skip" THEN "skipped" ELSE "scheduled",
                              !.quantity = req[p].units]
<1>1. /\ s \in Subs /\ d \in Dates /\ row' = [row EXCEPT ![s][d] = x]
      /\ req' = [TasksTold(s) EXCEPT ![p] = Rest] /\ UNCHANGED <<sub, vacations, raced, orders>>
  BY DEF SaveDay, scheduleVars, bookVars, IInv, ReqOK
<1>2. OrdersAsked'
  <2>1. x.order = 0
    BY DEF NoRow
  <2> HIDE DEF x
  <2> QED
    BY <1>1, <2>1, RowWrittenAsked DEF DInv
<1>3. Visited(p)'
  <2>1. req'[p] = Rest
    BY <1>1 DEF TasksTold, Told
  <2> QED
    BY <2>1, RestIsRequest, NoTaskVisits
<1>4. ASSUME NEW q \in Workers \ {p} PROVE Visited(q)'
  <2>1. \/ req'[q] = [req[q] EXCEPT !.changed = @ \cup {s}]
        \/ req'[q] = req[q] /\ ~OnTask(q)
    BY <1>1 DEF TasksTold, Told
  <2>2. \A t \in Subs \ {s} : Still(t)
    BY <1>1 DEF Still, Decided, IInv, Types
  <2> QED
    BY <1>1, <2>1, <2>2, ToldVisited
<1> QED
  BY <1>2, <1>3, <1>4 DEF DInv

LEMMA NextDInv == IInv /\ KInv /\ DInv /\ [Next]_vars => DInv'
<1> SUFFICES ASSUME IInv, KInv, DInv, [Next]_vars PROVE DInv'
  OBVIOUS
<1>1. CASE Clock \/ (\E c \in Customers : TopUp(c)) \/ UNCHANGED vars
  <2>1. UNCHANGED <<sub, vacations, row, req, orders>> /\ raced \subseteq raced'
    BY <1>1 DEF Clock, CutoffPasses, Beat, Midnight, Replay, TopUp, vars, clockVars, scheduleVars,
                bookVars
  <2> QED
    BY <2>1, SameOrders, QuietVisits DEF IInv
<1>2. CASE \E o \in DOMAIN orders : CancelOrder(o) \/ DeliverOrder(o)
  <2>1. UNCHANGED <<sub, vacations, row, req, raced>>
    BY <1>2 DEF CancelOrder, DeliverOrder, scheduleVars
  <2> QED
    BY <1>2, <2>1, StatusKeepsOrders, QuietVisits
<1>3. CASE \E s \in Subs : Customer(s)
  BY <1>3, ScheduleVisits
<1>4. ASSUME NEW p \in Workers, Continue(p) PROVE DInv'
  <2>1. ASSUME NEW s \in Subs, Decide(p, s) PROVE DInv'
    BY <2>1, EntersVisits, DoneWithVisits
  <2>2. CASE RecordFailure(p) \/ AssignRider(p)
    <3>1. req[p].sub \in Subs
      BY <2>2 DEF RecordFailure, AssignRider, IInv, Types, ReqOK, Request
    <3> QED
      BY <2>2, <3>1, DoneWithVisits DEF DoneWith
  <2> QED
    BY <1>4, <2>1, <2>2, WithinVisits, SavePlanVisits, SaveDayVisits DEF Continue
<1>5. ASSUME NEW p \in Workers, (\E d \in Dates : StartTask(p, d)) \/ (\E s \in Subs : Ask(p, s)) \/ Crash(p)
      PROVE  DInv'
  BY <1>5, StartTaskVisits, AskVisits, CrashVisits
<1> QED
  BY <1>1, <1>2, <1>3, <1>4, <1>5 DEF Next

-----------------------------------------------------------------------------
\* A task ends with the last of its list, unless its worker dies.
LEMMA EndsWithTheLast ==
    ASSUME IInv, KInv, DInv, Next, NEW p \in Workers, Ends(p)
    PROVE  \E t \in Subs : DoneWith(p, t) /\ req[p].todo \ {t} = {}
<1>1. /\ req[p] \in Request /\ DOMAIN req = Workers /\ OnTask(p) /\ req'[p].kind = "idle"
      /\ req[p].kind # "idle" /\ \A s : [req[p] EXCEPT !.changed = @ \cup {s}].kind = req[p].kind
  BY DEF Ends, OnTask, IInv, Types, Request
<1>2. ~(Clock \/ (\E c \in Customers : TopUp(c))
        \/ \E o \in DOMAIN orders : CancelOrder(o) \/ DeliverOrder(o))
  BY <1>1 DEF Clock, CutoffPasses, Beat, Midnight, Replay, TopUp, CancelOrder, DeliverOrder
<1>3. ASSUME NEW s \in Subs, Customer(s) PROVE FALSE
  <2>1. req' = AllTold(s) \/ req' = TasksTold(s)
    BY <1>3 DEF Customer, CancelSub, Create, AddVacation, EndVacation, SaveSub
  <2>2. req'[p] = req[p] \/ req'[p] = [req[p] EXCEPT !.changed = @ \cup {s}]
    BY <2>1 DEF AllTold, TasksTold, Told
  <2> QED
    BY <1>1, <2>2
<1>4. PICK q \in Workers :
         \/ \E d \in Dates : StartTask(q, d)
         \/ \E s \in Subs : Ask(q, s)
         \/ Continue(q)
         \/ Crash(q)
  BY <1>2, <1>3 DEF Next
<1>5. ~SavePlan(q) /\ ~SaveDay(q)
  <2>1. SavePlan(q) => req' = [AllTold(req[q].sub) EXCEPT ![q] = Rest] /\ q # p
    <3>1. q # None
      BY SubscriptionsAssumption
    <3> QED
      BY <1>1, <3>1 DEF SavePlan, SaveSub, OnTask
  <2>2. SaveDay(q) => req' = [TasksTold(req[q].sub) EXCEPT ![q] = Rest] /\ q # p
    BY <1>1 DEF SaveDay, OnTask
  <2> QED
    BY <1>1, <2>1, <2>2 DEF AllTold, TasksTold, Told
<1>6. q = p
  <2>1. \A u \in Workers \ {q} : req'[u] = req[u]
    BY <1>1, <1>4, <1>5 DEF StartTask, Ask, AskStatus, AskPlan, AskDay, Continue, Decide, Generate,
                            RollBack, RecordFailure, AssignRider, Crash
  <2>2. p \notin Workers \ {q}
    BY <1>1, <2>1
  <2> QED
    BY <2>2
<1>7. ~Crash(p)
  BY DEF Crash, Ends, IInv, Types
<1>8. ~Generate(p) /\ ~RollBack(p)
  <2>1. \A kind, n : /\ [req[p] EXCEPT !.kind = kind].kind = kind
                     /\ [req[p] EXCEPT !.kind = kind, !.order = n].kind = kind
    BY <1>1 DEF Request
  <2>2. Generate(p) => req'[p] = [req[p] EXCEPT !.kind = "assign", !.order = Len(orders')]
    BY <1>1 DEF Generate
  <2>3. RollBack(p) => \E kind \in {"low", "out"} : req'[p] = [req[p] EXCEPT !.kind = kind]
    BY <1>1 DEF RollBack
  <2> QED
    BY <1>1, <2>1, <2>2, <2>3
<1>9. (\E t \in Subs : Decide(p, t)) \/ RecordFailure(p) \/ AssignRider(p)
  BY <1>1, <1>4, <1>5, <1>6, <1>7, <1>8 DEF StartTask, Ask, AskStatus, AskPlan, AskDay, Idle, Continue
<1>10. PICK t \in Subs : DoneWith(p, t)
  <2>1. ASSUME NEW t \in Subs, Decide(p, t) PROVE DoneWith(p, t)
    <3> DEFINE units == Units(t, req[p].loaded[t], req[p].date)
    <3>1. [req[p] EXCEPT !.kind = "block", !.sub = t, !.units = units].kind = "block"
      BY <1>1 DEF Request
    <3>2. \/ DoneWith(p, t)
          \/ req'[p] = [req[p] EXCEPT !.kind = "block", !.sub = t, !.units = units]
      BY <1>1, <2>1 DEF Decide, DoneWith
    <3> QED
      BY <1>1, <3>1, <3>2
  <2>2. CASE RecordFailure(p) \/ AssignRider(p)
    <3>1. req[p].sub \in Subs
      BY <2>2 DEF RecordFailure, AssignRider, IInv, Types, ReqOK, Request
    <3> QED
      BY <2>2, <3>1 DEF DoneWith
  <2> QED
    BY <1>9, <2>1, <2>2
<1>11. req'[p] = Onward(req[p], req[p].todo \ {t})
  <2>1. PICK d \in Dates : d = req[p].date
    BY <1>1 DEF OnTask, IInv, ReqOK
  <2> QED
    BY <1>10, <2>1, DoneWithIt
<1>12. req[p].todo \ {t} = {}
  <2>1. SUFFICES ASSUME req[p].todo \ {t} # {} PROVE FALSE
    OBVIOUS
  <2>2. req'[p].kind = "task"
    BY <1>11, <2>1 DEF Onward, Rest
  <2> QED
    BY <1>1, <2>2
<1> QED
  BY <1>10, <1>12

\* When every due day is decided, the forecast counts what was ordered and what
\* failed for want of money.
AllDecided(d) == \A s \in Subs : Due(s, sub[s], d) => Decided(s, d)

DrawnWhenDecided == OrdersAsked => \A d \in Dates : AllDecided(d) => Drawn(d)

LEMMA DecidedIsDrawn == DrawnWhenDecided
<1> SUFFICES ASSUME OrdersAsked, NEW d \in Dates, AllDecided(d) PROVE Drawn(d)
  BY DEF DrawnWhenDecided
<1> DEFINE due == {s \in Subs : Due(s, sub[s], d)}
           dealt == {s \in due : row[s][d].status # "skipped"}
           told == {s \in Subs : Due(s, sub[s], d) /\ row[s][d].status # "skipped"}
           drawn(s) == IF row[s][d].order # 0 THEN orders[row[s][d].order].units
                                              ELSE row[s][d].quantity
<1>1. told = dealt
  OBVIOUS
<1>2. ASSUME NEW s \in dealt PROVE Units(s, sub[s], d) = drawn(s)
  <2>1. Decided(s, d)
    BY DEF AllDecided
  <2>2. row[s][d] # NoRow
    BY <2>1 DEF Decided, NoRow
  <2> QED
    BY <2>2 DEF Units, OrdersAsked
<1>3. [s \in told |-> Units(s, sub[s], d)] = [s \in dealt |-> drawn(s)]
  BY <1>1, <1>2
<1>4. Forecast(d) = SumOf([s \in dealt |-> drawn(s)])
  BY <1>3 DEF Forecast
<1> QED
  BY <1>4 DEF Drawn, AllDecided, Decided

LEMMA EndIsDrawn ==
    ASSUME IInv, KInv, DInv, Next, DInv', DrawnWhenDecided' PROVE EndsDrawn
<1> SUFFICES ASSUME NEW p \in Workers, NEW d \in Dates, Ends(p), req[p].date = d,
                    req[p].changed = {}, \A s \in Subs : <<s, d>> \notin raced
             PROVE  Drawn(d)'
  BY DEF EndsDrawn
<1>1. PICK t \in Subs : DoneWith(p, t) /\ req[p].todo \ {t} = {}
  BY EndsWithTheLast
<1>2. UNCHANGED <<sub, vacations>> /\ \A s \in Subs : Due(s, sub[s], d) => Decided(s, d)'
  BY <1>1, DoneWithIt
<1>3. OrdersAsked' /\ AllDecided(d)'
  BY <1>2 DEF DInv, AllDecided, Due, Falls, OnVacation
<1> QED
  BY <1>3 DEF DrawnWhenDecided

\* When a task has gone through its list, every day that is due is decided, and
\* what ops' forecast says of the date is what was ordered and what failed for
\* want of money (generate_for_date, demand_forecast).
THEOREM SubscriptionsForecastIsDrawn == Spec => ForecastIsDrawn
<1>1. Init => KInv /\ DInv
  BY InitKInv, InitDInv
<1>2. IInv /\ KInv /\ [Next]_vars => KInv'
  BY NextKInv
<1>3. IInv /\ KInv /\ DInv /\ [Next]_vars => DInv'
  BY NextDInv
<1>4. IInv /\ KInv /\ DInv /\ DInv' /\ DrawnWhenDecided' /\ [Next]_vars => [EndsDrawn]_vars
  BY EndIsDrawn
<1> QED
  BY <1>1, <1>2, <1>3, <1>4, Invariance, DecidedIsDrawn, PTL DEF Spec, ForecastIsDrawn

=============================================================================

--------------------------- MODULE Subscriptions ---------------------------
(***************************************************************************)
(* Milk subscriptions (apps/subscriptions): customers change their         *)
(* schedule until the cutoff of the evening before, the nightly task and   *)
(* its replays turn the days that are due into orders, drawing stock and   *)
(* debiting wallets.                                                       *)
(*                                                                         *)
(* A task loads the active subscriptions once and then works through them  *)
(* one by one; what it decided for one of them may be out of date when the *)
(* block commits. Customers' requests read first and save later as well.   *)
(***************************************************************************)
EXTENDS Integers, Sequences, FiniteSets, SequencesExt, Sums

CONSTANTS
    Newest,         \* the subscriptions, the last created first
    Customers,
    OwnerOf,        \* the customer of every subscription
    Workers,        \* tasks and requests that can run at once
    Enrolled,       \* the plans of those that are active at the start
    Plans,          \* what a customer may choose: records like NoPlan
    Ranges,         \* vacations a customer may enter, <<first, last>>
    Quantities,     \* quantities set for a single day
    Weekend,        \* days that are a Saturday or a Sunday
    Dates,          \* days there may be deliveries on
    LastDay,        \* bound: days that pass
    OpeningStock,   \* of the one variant
    OpeningBalance, \* of every wallet
    MaxChanges,     \* bound: changes customers begin
    MaxReplays,     \* bound: replays started by ops
    MaxCrashes,     \* bound: workers that die
    None

Subs == ToSet(Newest)

NoPlan == [quantity |-> 1, frequency |-> "daily", days |-> {}, start |-> 1, pays |-> "wallet"]

ASSUME SubscriptionsAssumption ==
    /\ OwnerOf \in [Subs -> Customers]
    /\ DOMAIN Enrolled \subseteq Subs /\ \A s \in DOMAIN Enrolled : Enrolled[s] \in Plans
    /\ IsFiniteSet(Subs) /\ IsFiniteSet(Dates)
    /\ Dates \subseteq Nat /\ LastDay \in Nat \ {0}
    /\ OpeningStock \in Nat /\ OpeningBalance \in Nat /\ Quantities \subseteq Nat \ {0}
    /\ \A plan \in Plans : /\ DOMAIN plan = DOMAIN NoPlan
                           /\ plan.quantity \in Nat \ {0}
                           /\ plan.frequency \in {"daily", "alternate", "weekdays", "custom"}
                           /\ plan.pays \in {"wallet", "cod"}
    /\ \A range \in Ranges : range[1] \in Nat /\ range[2] \in Nat /\ range[1] <= range[2]
    /\ MaxChanges \in Nat /\ MaxReplays \in Nat /\ MaxCrashes \in Nat
    /\ IsInjective(Newest) /\ None \notin Subs \cup Workers

VARIABLES
    today,
    hour,           \* "day", "late" after the cutoff, "beaten" once the night's task is queued
    queue,          \* tasks queued for each date
    sub,            \* Subscription rows
    vacations,      \* SubscriptionVacation rows of each subscription
    row,            \* SubscriptionDelivery rows
    orders,         \* orders generated, oldest first
    stock,
    wallet,
    req,            \* what each worker is executing
    changes, replays, crashes,
    toppedUp,       \* history: money each customer paid into the wallet
    raced,          \* history: days whose row two handlers were deciding at once
    reverted        \* history: subscriptions saved from a row that was stale

clockVars == <<today, hour, queue>>
scheduleVars == <<sub, vacations>>
bookVars == <<orders, stock, wallet, toppedUp>>
countVars == <<changes, replays, crashes>>
vars == <<clockVars, scheduleVars, row, bookVars, req, countVars, raced, reverted>>

NoRow == [status |-> "none", quantity |-> 0, amount |-> 0, order |-> 0]

\* A task: its date, the subscriptions it loaded and those still to do, the one
\* it is at with the units decided, its order, and those changed since loading.
\* A request: its subscription, the row it loaded, and what it will save.
Rest == [kind |-> "idle", sub |-> None, date |-> 0, loaded |-> <<>>, todo |-> {},
         units |-> 0, order |-> 0, plan |-> NoPlan, changed |-> {}]

Idle(p) == req[p].kind = "idle"

Total(units) == units

-----------------------------------------------------------------------------
(***************************************************************************)
(* The decisions the handlers rest on, each after a fault it could have.   *)
(***************************************************************************)
InsideVacation(s, d) == \E range \in vacations[s] : range[1] < d /\ d < range[2]

OnVacation(s, d) == \E range \in vacations[s] : range[1] <= d /\ d <= range[2]

Falls(plan, d) ==
    \/ plan.frequency = "daily"
    \/ (plan.frequency = "weekdays" /\ d \notin Weekend)
    \/ (plan.frequency = "alternate" /\ (d - plan.start) % 2 = 0)
    \/ (plan.frequency = "custom" /\ d \in plan.days)

\* is_due, on a row loaded earlier; vacations are read when it is called.
Due(s, loaded, d) ==
    /\ loaded.status = "active"
    /\ d >= loaded.plan.start
    /\ Falls(loaded.plan, d)
    /\ ~OnVacation(s, d)

UntilTheDay(d) == today < d

ChangeAllowed(d) == today < d - 1 \/ (today = d - 1 /\ hour = "day")

OnlySkipped(r) == r.status = "skipped"

\* A day the generation leaves untouched.
Settled(r) == r.status = "skipped" \/ r.order # 0

Unchecked(units) == TRUE

InStock(units) == stock >= units

KeptOnFailure(units) == stock - units

\* InsufficientBalance rolls the block back with the stock it drew.
StockOnFailure(units) == stock

AbandonOnFailure(todo) == {}

TodoOnFailure(todo) == todo

Units(s, loaded, d) == IF row[s][d] = NoRow THEN loaded.plan.quantity ELSE row[s][d].quantity

-----------------------------------------------------------------------------
Init ==
    /\ today = 1 /\ hour = "day"
    /\ queue = [d \in Dates |-> 0]
    /\ sub = [s \in Subs |-> IF s \in DOMAIN Enrolled
                               THEN [status |-> "active", plan |-> Enrolled[s]]
                               ELSE [status |-> "none", plan |-> NoPlan]]
    /\ vacations = [s \in Subs |-> {}]
    /\ row = [s \in Subs |-> [d \in Dates |-> NoRow]]
    /\ orders = <<>> /\ stock = OpeningStock
    /\ wallet = [c \in Customers |-> OpeningBalance]
    /\ toppedUp = [c \in Customers |-> 0]
    /\ req = [p \in Workers |-> Rest]
    /\ changes = 0 /\ replays = 0 /\ crashes = 0
    /\ raced = {} /\ reverted = {}

-----------------------------------------------------------------------------
(***************************************************************************)
(* The clock and the queue.                                                *)
(***************************************************************************)
Changing(p, s, d) == req[p].kind \in {"skip", "quantity"} /\ req[p].sub = s /\ req[p].date = d

Generating(p, s, d) == req[p].kind \in {"block", "low", "out"} /\ req[p].sub = s /\ req[p].date = d

\* A change that was let through before the cutoff may be saved after it.  The
\* evening of the last day is not modelled: it concerns the day after.
CutoffPasses ==
    /\ hour = "day" /\ today < LastDay
    /\ hour' = "late"
    /\ raced' = raced \cup {x \in Subs \X Dates : /\ x[2] = today + 1
                                                 /\ \E p \in Workers : Changing(p, x[1], x[2])}
    /\ UNCHANGED <<today, queue, scheduleVars, row, bookVars, req, countVars, reverted>>

\* Celery beat, at 22:30.
Beat ==
    /\ hour = "late"
    /\ hour' = "beaten"
    /\ queue' = [d \in Dates |-> IF d = today + 1 THEN queue[d] + 1 ELSE queue[d]]
    /\ UNCHANGED <<today, scheduleVars, row, bookVars, req, countVars, raced, reverted>>

Midnight ==
    /\ hour = "beaten"
    /\ today' = today + 1
    /\ hour' = "day"
    /\ UNCHANGED <<queue, scheduleVars, row, bookVars, req, countVars, raced, reverted>>

\* Ops queue the task for a date of their choice, early, late or again.
Replay(d) ==
    /\ replays < MaxReplays
    /\ replays' = replays + 1
    /\ queue' = [queue EXCEPT ![d] = @ + 1]
    /\ UNCHANGED <<today, hour, scheduleVars, row, bookVars, req, changes, crashes, raced, reverted>>

-----------------------------------------------------------------------------
(***************************************************************************)
(* Generation.                                                             *)
(***************************************************************************)

\* The task goes on with the rest of its list, or ends.
Onward(r, todo) ==
    IF todo = {} THEN Rest
    ELSE [Rest EXCEPT !.kind = "task", !.date = r.date, !.todo = todo, !.changed = r.changed,
                      !.loaded = [s \in todo |-> r.loaded[s]]]

Newer(s, t) == \E i, j \in DOMAIN Newest : i < j /\ Newest[i] = s /\ Newest[j] = t

\* generate_for_date loads the active subscriptions.
StartTask(p, d) ==
    /\ Idle(p)
    /\ queue[d] > 0
    /\ queue' = [queue EXCEPT ![d] = @ - 1]
    /\ req' = [req EXCEPT ![p] = Onward([Rest EXCEPT !.date = d, !.loaded = sub],
                                       {s \in Subs : sub[s].status = "active"})]
    /\ UNCHANGED <<today, hour, scheduleVars, row, bookVars, countVars, raced, reverted>>

NoteRace(p, s, d) ==
    raced' = IF \E q \in Workers \ {p} : Changing(q, s, d) \/ Generating(q, s, d)
               THEN raced \cup {<<s, d>>} ELSE raced

\* The newest of the rest: whether its day is due and still undecided, and how
\* many units; all read before the block.
Decide(p, s) ==
    LET r == req[p] IN
    /\ r.kind = "task"
    /\ s \in r.todo /\ \A t \in r.todo \ {s} : Newer(s, t)
    /\ IF Due(s, r.loaded[s], r.date) /\ ~Settled(row[s][r.date])
         THEN /\ req' = [req EXCEPT ![p].kind = "block", ![p].sub = s,
                                    ![p].units = Units(s, r.loaded[s], r.date)]
              /\ NoteRace(p, s, r.date)
         ELSE req' = [req EXCEPT ![p] = Onward(r, r.todo \ {s})] /\ UNCHANGED raced
    /\ UNCHANGED <<clockVars, scheduleVars, row, bookVars, countVars, reverted>>

OrderOf(p) ==
    LET r == req[p] IN
    [sub |-> r.sub, date |-> r.date, units |-> r.units, status |-> "confirmed", rider |-> "untried",
     charge |-> IF r.loaded[r.sub].plan.pays = "wallet" THEN Total(r.units) ELSE 0]

Affordable(p) == wallet[OwnerOf[req[p].sub]] >= OrderOf(p).charge

\* The block: order, stock, wallet and row, or nothing.
Generate(p) ==
    LET r == req[p] IN
    /\ r.kind = "block"
    /\ InStock(r.units) /\ Affordable(p)
    /\ orders' = Append(orders, OrderOf(p))
    /\ stock' = stock - r.units
    /\ wallet' = [wallet EXCEPT ![OwnerOf[r.sub]] = @ - OrderOf(p).charge]
    /\ row' = [row EXCEPT ![r.sub][r.date] = [status |-> "scheduled", quantity |-> r.units,
                                              amount |-> Total(r.units), order |-> Len(orders')]]
    /\ req' = [req EXCEPT ![p].kind = "assign", ![p].order = Len(orders')]
    /\ UNCHANGED <<clockVars, scheduleVars, toppedUp, countVars, raced, reverted>>

RollBack(p) ==
    /\ req[p].kind = "block"
    /\ IF InStock(req[p].units)
         THEN /\ ~Affordable(p)
              /\ req' = [req EXCEPT ![p].kind = "low"]
              /\ stock' = StockOnFailure(req[p].units)
         ELSE req' = [req EXCEPT ![p].kind = "out"] /\ UNCHANGED stock
    /\ UNCHANGED <<clockVars, scheduleVars, row, orders, wallet, toppedUp, countVars, raced, reverted>>

\* After the rollback the failure is recorded, whatever the row says by then.
RecordFailure(p) ==
    LET r == req[p] IN
    /\ r.kind \in {"low", "out"}
    /\ row' = [row EXCEPT ![r.sub][r.date] =
                  [NoRow EXCEPT !.status = IF r.kind = "low" THEN "failed" ELSE "skipped",
                                !.quantity = r.units]]
    /\ req' = [req EXCEPT ![p] = Onward(r, TodoOnFailure(r.todo \ {r.sub}))]
    /\ UNCHANGED <<clockVars, scheduleVars, bookVars, countVars, raced, reverted>>

\* _on_generated: a rider on duty is found; NoRiderAvailable is only logged.
AssignRider(p) ==
    /\ req[p].kind = "assign"
    /\ \E found \in {"found", "nobody"} : orders' = [orders EXCEPT ![req[p].order].rider = found]
    /\ req' = [req EXCEPT ![p] = Onward(@, @.todo \ {@.sub})]
    /\ UNCHANGED <<clockVars, scheduleVars, row, stock, wallet, toppedUp, countVars, raced, reverted>>

-----------------------------------------------------------------------------
(***************************************************************************)
(* Customers.                                                              *)
(***************************************************************************)
Budget == changes < MaxChanges /\ changes' = changes + 1 /\ UNCHANGED <<replays, crashes>>

\* Tasks that loaded s do not see a change, nor do requests that will save its row.
OnTask(p) == req[p].kind \in {"task", "block", "low", "out", "assign"}

Told(s, unaware) ==
    [p \in Workers |-> IF unaware[p] THEN [req[p] EXCEPT !.changed = @ \cup {s}] ELSE req[p]]

TasksTold(s) == Told(s, [p \in Workers |-> OnTask(p)])

AllTold(s) == Told(s, [p \in Workers |-> OnTask(p) \/ req[p].sub = s])

\* The row of s is written: by a request that has loaded it, or at once.
SaveSub(p, s, new) ==
    /\ sub' = [sub EXCEPT ![s] = new]
    /\ req' = IF p = None THEN AllTold(s) ELSE [AllTold(s) EXCEPT ![p] = Rest]

Create(s, plan) ==
    /\ Budget
    /\ sub[s].status = "none"
    /\ SaveSub(None, s, [status |-> "active", plan |-> plan])
    /\ UNCHANGED <<clockVars, vacations, row, bookVars, raced, reverted>>

\* perform_destroy: cancelling is soft.
CancelSub(s) ==
    /\ Budget
    /\ sub[s].status # "none"
    /\ SaveSub(None, s, [sub[s] EXCEPT !.status = "cancelled"])
    /\ UNCHANGED <<clockVars, vacations, row, bookVars, raced, reverted>>

MayPause(s) == sub[s].status \notin {"none", "cancelled"}

\* pause, resume and the update of the plan, up to the check of the status.
AskStatus(p, s, kind) ==
    /\ Idle(p)
    /\ Budget
    /\ MayPause(s)
    /\ req' = [req EXCEPT ![p] = [Rest EXCEPT !.kind = kind, !.sub = s]]
    /\ UNCHANGED <<clockVars, scheduleVars, row, bookVars, raced, reverted>>

AskPlan(p, s, plan) ==
    /\ Idle(p)
    /\ Budget
    /\ sub[s].status # "none"
    /\ req' = [req EXCEPT ![p] = [Rest EXCEPT !.kind = "edit", !.sub = s, !.loaded = sub,
                                              !.plan = plan]]
    /\ UNCHANGED <<clockVars, scheduleVars, row, bookVars, raced, reverted>>

\* pause and resume save the status alone, an update the whole row it loaded.
SavePlan(p) ==
    LET r == req[p]
        s == r.sub IN
    /\ r.kind \in {"pause", "resume", "edit"}
    /\ SaveSub(p, s, CASE r.kind = "pause"  -> [sub[s] EXCEPT !.status = "paused"]
                       [] r.kind = "resume" -> [sub[s] EXCEPT !.status = "active"]
                       [] r.kind = "edit"   -> [status |-> r.loaded[s].status, plan |-> r.plan])
    /\ reverted' = IF s \in r.changed THEN reverted \cup {s} ELSE reverted
    /\ UNCHANGED <<clockVars, vacations, row, bookVars, countVars, raced>>

\* Vacations have no cutoff and may begin in the past.
AddVacation(s, range) ==
    /\ Budget
    /\ sub[s].status # "none"
    /\ range \notin vacations[s]
    /\ vacations' = [vacations EXCEPT ![s] = @ \cup {range}]
    /\ req' = TasksTold(s)
    /\ UNCHANGED <<clockVars, sub, row, bookVars, raced, reverted>>

EndVacation(s, range) ==
    /\ Budget
    /\ range \in vacations[s]
    /\ vacations' = [vacations EXCEPT ![s] = @ \ {range}]
    /\ req' = TasksTold(s)
    /\ UNCHANGED <<clockVars, sub, row, bookVars, raced, reverted>>

\* skip and set_quantity: the cutoff and the row are checked, the row is saved
\* later. A skip keeps the quantity (units = 0 asks for a skip).
AskDay(p, s, d, units) ==
    /\ Idle(p)
    /\ Budget
    /\ sub[s].status # "none"
    /\ ChangeAllowed(d)
    /\ row[s][d].order = 0
    /\ req' = [req EXCEPT ![p] =
                  [Rest EXCEPT !.kind = IF units = 0 THEN "skip" ELSE "quantity", !.sub = s,
                               !.date = d,
                               !.units = IF units = 0 THEN Units(s, sub[s], d) ELSE units]]
    /\ NoteRace(p, s, d)
    /\ UNCHANGED <<clockVars, scheduleVars, row, bookVars, reverted>>

SaveDay(p) ==
    LET r == req[p] IN
    /\ r.kind \in {"skip", "quantity"}
    /\ row' = [row EXCEPT ![r.sub][r.date] =
                  [NoRow EXCEPT !.status = IF r.kind = "skip" THEN "skipped" ELSE "scheduled",
                                !.quantity = r.units]]
    /\ req' = [TasksTold(r.sub) EXCEPT ![p] = Rest]
    /\ UNCHANGED <<clockVars, scheduleVars, bookVars, countVars, raced, reverted>>

TopUp(c) ==
    /\ Budget
    /\ wallet' = [wallet EXCEPT ![c] = @ + 1]
    /\ toppedUp' = [toppedUp EXCEPT ![c] = @ + 1]
    /\ UNCHANGED <<clockVars, scheduleVars, row, orders, stock, req, raced, reverted>>

\* The order has no Payment row: its stock comes back, its money does not.
CancelOrder(o) ==
    /\ Budget
    /\ orders[o].status = "confirmed"
    /\ orders' = [orders EXCEPT ![o].status = "cancelled"]
    /\ stock' = stock + orders[o].units
    /\ UNCHANGED <<clockVars, scheduleVars, row, wallet, toppedUp, req, raced, reverted>>

\* The handlers of the rider the task found, which OrderLife has step by step; an
\* order nobody was found for waits for an operator, whose assignment is there too.
DeliverOrder(o) ==
    /\ orders[o].status = "confirmed" /\ orders[o].rider = "found"
    /\ orders' = [orders EXCEPT ![o].status = "delivered"]
    /\ UNCHANGED <<clockVars, scheduleVars, row, stock, wallet, toppedUp, req, countVars,
                   raced, reverted>>

\* A worker dies; the queue has already forgotten its task.
Crash(p) ==
    /\ crashes < MaxCrashes
    /\ ~Idle(p)
    /\ crashes' = crashes + 1
    /\ req' = [req EXCEPT ![p] = Rest]
    /\ UNCHANGED <<clockVars, scheduleVars, row, bookVars, changes, replays, raced, reverted>>

-----------------------------------------------------------------------------
Clock == CutoffPasses \/ Beat \/ Midnight \/ \E d \in Dates : Replay(d)

Customer(s) ==
    \/ CancelSub(s)
    \/ \E plan \in Plans : Create(s, plan)
    \/ \E range \in Ranges : AddVacation(s, range) \/ EndVacation(s, range)

Ask(p, s) ==
    \/ \E kind \in {"pause", "resume"} : AskStatus(p, s, kind)
    \/ \E plan \in Plans : AskPlan(p, s, plan)
    \/ \E d \in Dates, units \in {0} \cup Quantities : AskDay(p, s, d, units)

Continue(p) ==
    \/ \E s \in Subs : Decide(p, s)
    \/ Generate(p) \/ RollBack(p) \/ RecordFailure(p) \/ AssignRider(p)
    \/ SavePlan(p) \/ SaveDay(p)

Next ==
    \/ Clock
    \/ \E s \in Subs : Customer(s)
    \/ \E c \in Customers : TopUp(c)
    \/ \E o \in DOMAIN orders : CancelOrder(o) \/ DeliverOrder(o)
    \/ \E p \in Workers :
          \/ \E d \in Dates : StartTask(p, d)
          \/ \E s \in Subs : Ask(p, s)
          \/ Continue(p)
          \/ Crash(p)

Spec == Init /\ [][Next]_vars

-----------------------------------------------------------------------------
(***************************************************************************)
(* What customers and ops are shown.                                       *)
(***************************************************************************)

\* calendar, for one day.
Calendar(s, d) ==
    LET r == row[s][d] IN
    CASE r # NoRow /\ r.status = "scheduled" /\ r.order # 0 ->
             IF orders[r.order].status = "delivered" THEN "delivered" ELSE "scheduled"
      [] r # NoRow /\ ~(r.status = "scheduled" /\ r.order # 0) -> r.status
      [] r = NoRow -> IF Due(s, sub[s], d) /\ d >= today THEN "upcoming" ELSE "absent"

\* monthly_summary's amount_spent.
DaysSpent(c) ==
    {x \in Subs \X Dates : /\ OwnerOf[x[1]] = c
                           /\ row[x[1]][x[2]].order # 0
                           /\ row[x[1]][x[2]].status # "skipped"}

AmountSpent(c) == SumOf([x \in DaysSpent(c) |-> row[x[1]][x[2]].amount])

\* demand_forecast's total_units.
Forecast(d) ==
    LET due == {s \in Subs : Due(s, sub[s], d) /\ row[s][d].status # "skipped"}
    IN  SumOf([s \in due |-> Units(s, sub[s], d)])

-----------------------------------------------------------------------------
(***************************************************************************)
(* Properties.                                                             *)
(***************************************************************************)

TypeOK ==
    /\ today \in 1..LastDay /\ hour \in {"day", "late", "beaten"}
    /\ queue \in [Dates -> Nat]
    /\ DOMAIN sub = Subs
    /\ \A s \in Subs : /\ sub[s].status \in {"none", "active", "paused", "cancelled"}
                       /\ sub[s].plan \in Plans \cup {NoPlan}
    /\ vacations \in [Subs -> SUBSET Ranges]
    /\ \A s \in Subs, d \in Dates :
           /\ row[s][d].status \in {"none", "scheduled", "skipped", "failed"}
           /\ row[s][d].quantity \in Nat /\ row[s][d].amount \in Nat
           /\ row[s][d].order \in 0..Len(orders)
    /\ stock \in Nat /\ wallet \in [Customers -> Nat]
    /\ DOMAIN req = Workers

OrdersFor(s, d) == {o \in DOMAIN orders : orders[o].sub = s /\ orders[o].date = d}

\* However often the task is queued, replayed or killed, a day that two handlers
\* did not decide at once has at most one order; its row points at it with the
\* amount of its units; and a rider was found for the order, unless nobody was on
\* duty when the task looked for one, or a worker died.
OneOrderADay ==
    /\ \A s \in Subs, d \in Dates :
          <<s, d>> \notin raced =>
              /\ Cardinality(OrdersFor(s, d)) <= 1
              /\ row[s][d].order \in OrdersFor(s, d) \cup {0}
              /\ \A o \in OrdersFor(s, d) : /\ row[s][d].order = o
                                            /\ row[s][d].amount = Total(orders[o].units)
    /\ \A o \in DOMAIN orders :
          orders[o].rider = "untried" =>
              crashes > 0 \/ \E p \in Workers : req[p].kind = "assign" /\ req[p].order = o

OrdersOf(c) == {o \in DOMAIN orders : OwnerOf[orders[o].sub] = c}

Standing(o) == IF orders[o].status = "cancelled" THEN 0 ELSE orders[o].units

UnitsStanding == SumOf([o \in DOMAIN orders |-> Standing(o)])

ChargedTo(c) == SumOf([o \in OrdersOf(c) |-> orders[o].charge])

OrderedBy(c) == SumOf([o \in OrdersOf(c) |-> Total(orders[o].units)])

\* Failed and killed generations leave no trace in the books: the stock is what
\* the orders that stand left of it, a wallet what all of its orders, cancelled
\* ones too, left of it, and the monthly summary tells what they came to.
BooksBalance ==
    /\ stock + UnitsStanding = OpeningStock
    /\ \A c \in Customers :
          /\ wallet[c] + ChargedTo(c) = OpeningBalance + toppedUp[c]
          /\ \/ \E x \in raced : OwnerOf[x[1]] = c
             \/ AmountSpent(c) = OrderedBy(c)

\* A new order is for a day and for the units the customer still wants: the
\* subscription is active and has begun, no vacation covers the day, it was not
\* skipped, and the units are the last that were set, unless the customer
\* changed them after the task had loaded the subscription. And a subscription
\* that is cancelled stays so, unless a request saved a row it loaded before.
WantedWhenOrdered ==
    \A p \in Workers :
        req[p].kind = "block" /\ req'[p].kind = "assign" =>
            LET o == Last(orders')
                s == o.sub
                d == o.date IN
            \/ s \in req[p].changed
            \/ <<s, d>> \in raced
            \/ /\ sub[s].status = "active" /\ sub[s].plan.start <= d
               /\ \A range \in vacations[s] : d \notin range[1]..range[2]
               /\ row[s][d].status # "skipped"
               /\ o.units = IF row[s][d].quantity > 0 THEN row[s][d].quantity
                                                      ELSE sub[s].plan.quantity

CancelledStays ==
    \A s \in Subs : sub[s].status = "cancelled" => sub'[s].status = "cancelled" \/ s \in reverted'

StopsWhenAsked == [][WantedWhenOrdered /\ CancelledStays]_vars

\* The day as its customer sees it.
DayOf(s, d) ==
    CASE row[s][d].order # 0 /\ Calendar(s, d) = "scheduled" -> "ordered"
      [] row[s][d].order = 0 /\ Calendar(s, d) \in {"scheduled", "upcoming", "absent"} -> "open"
      [] OTHER -> Calendar(s, d)

Day(s, d) == INSTANCE DeliveryDay WITH
    day <- DayOf(s, d), closed <- today >= d \/ (today = d - 1 /\ hour # "day")

DaysInit == \A s \in Subs, d \in Dates : Day(s, d)!Init

DayMoves(s, d) == [Day(s, d)!Next]_(DayOf(s, d))

DaysMove == \A s \in Subs, d \in Dates : <<s, d>> \in raced' \/ DayMoves(s, d)

\* Each day is a DeliveryDay until two handlers decide it at once.
ImplementsDay == DaysInit /\ [][DaysMove]_vars

Ends(p) == OnTask(p) /\ req'[p].kind = "idle" /\ crashes' = crashes

Drawn(d) ==
    LET due == {s \in Subs : Due(s, sub[s], d)}
        dealt == {s \in due : row[s][d].status # "skipped"} IN
    /\ \A s \in due : row[s][d].order # 0 \/ row[s][d].status \in {"skipped", "failed"}
    /\ Forecast(d) = SumOf([s \in dealt |-> IF row[s][d].order # 0 THEN orders[row[s][d].order].units
                                             ELSE row[s][d].quantity])

EndsDrawn ==
    \A p \in Workers, d \in Dates :
        /\ Ends(p) /\ req[p].date = d
        /\ req[p].changed = {} /\ \A s \in Subs : <<s, d>> \notin raced
        => Drawn(d)'

\* When a task ends, and nobody changed a subscription or decided one of its days
\* meanwhile, every due day is decided, and what ops' forecast says of the date
\* is what was ordered and what failed for want of money.
ForecastIsDrawn == [][EndsDrawn]_vars

=============================================================================

---------------------------- MODULE DeliveryDay ----------------------------
(***************************************************************************)
(* What one day of one subscription promises its customer, whoever writes  *)
(* the SubscriptionDelivery row: until the cutoff the day may be skipped   *)
(* and taken up again; afterwards it can only be decided, once; and a day  *)
(* that was ordered stays ordered.                                         *)
(***************************************************************************)
VARIABLES
    day,        \* "open", "skipped", "failed", "ordered" or "delivered"
    closed      \* the cutoff of the day has passed

Init == day = "open"

\* The customer skips the day, or the item is out of stock.
Skip == day \in {"open", "failed"} /\ day' = "skipped"

\* The customer sets a quantity for the day.
TakeUp == ~closed /\ day \in {"skipped", "failed"} /\ day' = "open"

\* The wallet does not cover the day; a replay may try again.
Fail == day = "open" /\ day' = "failed"

Order == day \in {"open", "failed"} /\ day' = "ordered"

Deliver == day = "ordered" /\ day' = "delivered"

Next == Skip \/ TakeUp \/ Fail \/ Order \/ Deliver

=============================================================================

----------------------------- MODULE Analytics -----------------------------
(***************************************************************************)
(* The tables apps/analytics derives from the confirmed orders of a store: *)
(* a row per hour that beat fills on the hour, the rows of a day filled    *)
(* after midnight, and the milestone of the first order. The dashboards    *)
(* read these tables, never the orders.                                    *)
(***************************************************************************)
EXTENDS Integers, FiniteSets, Functions

CONSTANTS
  Sales,       \* orders of the store
  HoursPerDay, \* 24
  LastHour     \* bound: hours a behaviour lasts

VARIABLES
  hour,       \* hours since the start
  saleHour,   \* Order.confirmed_at, or Never
  hourly,     \* HourlyOrderSummary.order_count, or Never when there is no row
  daily,      \* DailyRevenueSummary.order_count, or Never
  beat,       \* the scheduled runs of this hour that have not ended
  abandoned,  \* days whose run failed each time
  firstTask,  \* record_first_order_event of an order
  milestone   \* StoreFirstOrderEvent.order: none, or one order

vars == <<hour, saleHour, hourly, daily, beat, abandoned, firstTask, milestone>>

Never == -1
Hours == 0 .. LastHour
Day(h) == h \div HoursPerDay
Days   == {Day(h) : h \in Hours}

\* Orders confirmed in the hours of H.
Confirmed(H) == {o \in Sales : saleHour[o] \in H}
HoursOf(d)   == {h \in Hours : Day(h) = d}

Init ==
  /\ hour = 0
  /\ saleHour  = [o \in Sales |-> Never]
  /\ hourly    = [h \in Hours |-> Never]
  /\ daily     = [d \in Days |-> Never]
  /\ beat      = {}
  /\ abandoned = {}
  /\ firstTask = [o \in Sales |-> "none"]
  /\ milestone = {}

\* The receiver of payment_confirmed sends the task; OrderConfirmView does not.
Confirm(o) ==
  /\ saleHour[o] = Never
  /\ saleHour' = [saleHour EXCEPT ![o] = hour]
  /\ firstTask' \in {[firstTask EXCEPT ![o] = "queued"], firstTask}
  /\ UNCHANGED <<hour, hourly, daily, beat, abandoned, milestone>>

\* CELERY_BEAT_SCHEDULE: populate_current_hour_summary at minute 0 of every hour,
\* generate_daily_summary at 00:05. Their runs end within the hour.
NextHour ==
  /\ hour < LastHour /\ beat = {}
  /\ hour' = hour + 1
  /\ beat' = {"hourly"} \cup (IF Day(hour + 1) # Day(hour) THEN {"daily"} ELSE {})
  /\ UNCHANGED <<saleHour, hourly, daily, abandoned, firstTask, milestone>>

\* populate_current_hour_summary counts the orders of the hour that has begun.
PopulateCurrentHour ==
  /\ "hourly" \in beat
  /\ hourly' = [hourly EXCEPT ![hour] = Cardinality(Confirmed({hour}))]
  /\ beat'   = beat \ {"hourly"}
  /\ UNCHANGED <<hour, saleHour, daily, abandoned, firstTask, milestone>>

\* generate_daily_summary, for the day before: each row is replaced whatever it held,
\* that of the day first ...
SumUpDay ==
  /\ "daily" \in beat
  /\ LET d == Day(hour) - 1
     IN  daily' = [daily EXCEPT ![d] = Cardinality(Confirmed(HoursOf(d)))]
  /\ beat' = (beat \ {"daily"}) \cup {"hours"}
  /\ UNCHANGED <<hour, saleHour, hourly, abandoned, firstTask, milestone>>

\* Mutant: only the hours that have no row are filled.
SumUpMissingHours ==
  /\ "hours" \in beat
  /\ LET missing == {h \in HoursOf(Day(hour) - 1) : hourly[h] = Never}
     IN  hourly' = [h \in Hours |-> IF h \in missing THEN Cardinality(Confirmed({h})) ELSE hourly[h]]
  /\ beat' = beat \ {"hours"}
  /\ UNCHANGED <<hour, saleHour, daily, abandoned, firstTask, milestone>>

\* ... and then those of its hours.
SumUpHours ==
  /\ "hours" \in beat
  /\ LET over == HoursOf(Day(hour) - 1)
     IN  hourly' = [h \in Hours |-> IF h \in over THEN Cardinality(Confirmed({h})) ELSE hourly[h]]
  /\ beat' = beat \ {"hours"}
  /\ UNCHANGED <<hour, saleHour, daily, abandoned, firstTask, milestone>>

\* A run that fails is repeated from its beginning, and given up in the end.
FailRun ==
  \/ /\ "hours" \in beat
     /\ beat' = (beat \ {"hours"}) \cup {"daily"}
     /\ UNCHANGED <<hour, saleHour, hourly, daily, abandoned, firstTask, milestone>>
  \/ /\ beat # {}
     /\ \E run \in beat :
          /\ beat' = beat \ {run}
          /\ abandoned' = IF run = "hourly" THEN abandoned ELSE abandoned \cup {Day(hour) - 1}
     /\ UNCHANGED <<hour, saleHour, hourly, daily, firstTask, milestone>>

\* record_first_order_event: is there an event, or more than one confirmed order?
CheckFirst(o) ==
  /\ firstTask[o] = "queued"
  /\ firstTask' = [firstTask EXCEPT ![o] =
       IF milestone # {} \/ Cardinality(Confirmed(Hours)) > 1 THEN "done" ELSE "first"]
  /\ UNCHANGED <<hour, saleHour, hourly, daily, beat, abandoned, milestone>>

\* get_or_create, or an error after which the task is repeated.
RecordFirst(o) ==
  /\ firstTask[o] = "first"
  /\ \/ /\ firstTask' = [firstTask EXCEPT ![o] = "done"]
        /\ milestone' = IF milestone = {} THEN {o} ELSE milestone
     \/ /\ firstTask' = [firstTask EXCEPT ![o] = "queued"]
        /\ UNCHANGED milestone
  /\ UNCHANGED <<hour, saleHour, hourly, daily, beat, abandoned>>

Next ==
  \/ NextHour \/ PopulateCurrentHour \/ SumUpDay \/ SumUpHours \/ FailRun
  \/ \E o \in Sales : Confirm(o) \/ CheckFirst(o) \/ RecordFirst(o)

Spec == Init /\ [][Next]_vars

-----------------------------------------------------------------------------
\* What MerchantDashboardView adds up for a day of the month: the rows of its hours.
Counts == [h \in Hours |-> IF hourly[h] = Never THEN 0 ELSE hourly[h]]
Shown(d) == SumFunctionOnSet(Counts, HoursOf(d))

\* The hours of a day, each of which was counted when it had just begun, add up to the
\* orders confirmed that day once the run of the night has ended and was not given up.
DaysAddUp ==
  \A d \in Days :
    (d < Day(hour) - 1 \/ (d = Day(hour) - 1 /\ beat \cap {"daily", "hours"} = {})) /\ d \notin abandoned =>
      Shown(d) = Cardinality(Confirmed(HoursOf(d))) /\ daily[d] = Shown(d)

TypeOK ==
  /\ hour \in Hours
  /\ saleHour \in [Sales -> Hours \cup {Never}]
  /\ hourly \in [Hours -> 0 .. Cardinality(Sales) \cup {Never}]
  /\ daily \in [Days -> 0 .. Cardinality(Sales) \cup {Never}]
  /\ beat \subseteq {"hourly", "daily", "hours"} /\ abandoned \subseteq Days
  /\ firstTask \in [Sales -> {"none", "queued", "first", "done"}]
  /\ milestone \subseteq Sales /\ Cardinality(milestone) <= 1
=============================================================================

------------------------------- MODULE Traffic -------------------------------
(***************************************************************************)
(* Traffic accounting.  Every sing-box instance serves a cumulative byte   *)
(* counter that starts again at zero when the instance restarts.  "collect *)
(* hourly" turns it into hourly records by remembering, per instance, the  *)
(* last value it saw (the baseline); "collect daily" and "collect monthly" *)
(* re-compute the records of a day from its hours and of a month from its  *)
(* days; "cleanup records" deletes what is past its retention.  Timers and *)
(* operators start these commands independently, and nothing keeps them    *)
(* from overlapping: only each SQLite transaction is atomic.               *)
(*                                                                         *)
(* One counter per instance stands for its (scope, name, direction)        *)
(* counters, which a transaction treats one by one in the same way.        *)
(***************************************************************************)
EXTENDS Naturals, Functions

CONSTANTS
    Targets,        \* instances with statistics, numbered in file-name order
    Collectors,     \* concurrent "collect hourly" commands
    Viewers,        \* concurrent "show current" and "watch current" commands
    Aggregators,    \* concurrent "collect daily" and "collect monthly" commands
    HoursPerDay, DaysPerMonth,
    RetentionDays, DailyMinRetentionDays, RetentionMonths,
    MaxHour,        \* bound on the clock
    MaxCarried,     \* bound on the bytes each instance carries
    MaxRestarts,    \* bound on instance restarts
    MaxToggles      \* bound on enabling and disabling instances

ASSUME TrafficAssumption ==
    /\ Targets \subseteq Nat
    /\ HoursPerDay \in Nat \ {0} /\ DaysPerMonth \in Nat \ {0}
    /\ RetentionDays \in Nat \ {0} /\ DailyMinRetentionDays \in Nat \ {0}
    /\ RetentionMonths \in Nat \ {0}
    /\ MaxHour \in Nat /\ MaxCarried \in Nat /\ MaxRestarts \in Nat /\ MaxToggles \in Nat

VARIABLES
    hour,       \* the clock, in hours since the start
    counter,    \* what each instance's stats API answers
    enabled,    \* the instances that "--instance ALL" selects
    baseline,   \* traffic_baselines; a missing row counts like the value zero
    rec,        \* traffic_records: rec[period][instance][window]
    hc,         \* the hourly collectors
    view,       \* the viewers of the current deltas
    ag,         \* the daily and monthly aggregators
    restarts, toggles,
    carried,    \* history: bytes each instance really carried
    billed,     \* history: bytes ever added to the hourly records of each instance
    added,      \* history: the same, hour by hour
    restarted   \* history: instances that ever restarted

world == <<hour, counter, enabled, restarts, toggles, carried, restarted>>
database == <<baseline, rec, billed, added>>
vars == <<world, database, hc, view, ag>>

Hours == 0..MaxHour
Periods == {"hourly", "daily", "monthly"}

\* The window of a period that contains an hour.
DayOf(h) == h \div HoursPerDay
MonthOf(d) == d \div DaysPerMonth
WindowOf(period, h) == CASE period = "hourly" -> h
                         [] period = "daily" -> DayOf(h)
                         [] OTHER -> MonthOf(DayOf(h))

\* What an aggregate is computed from.
Source(period) == IF period = "daily" THEN "hourly" ELSE "daily"
Parts(period, w) ==
    LET size == IF period = "daily" THEN HoursPerDay ELSE DaysPerMonth
    IN  {v \in Hours : v \div size = w}

\* A record exists when it has bytes: no record is ever written with zero.
NoRecord == [bytes |-> 0, reset |-> FALSE]

\* AggregateRecords for one instance.
Aggregate(period, t, w) ==
    LET src == rec[Source(period)][t]
    IN  [bytes |-> SumFunctionOnSet([v \in Hours |-> src[v].bytes], Parts(period, w)),
         reset |-> \E v \in Parts(period, w) : src[v].reset]

\* Mutants: the operands swapped; the baseline ignored.
Delta_Swapped(value, base) == base - value
Delta_Cumulative(value, base) == value

\* The delta of AddHourlyCounters and of CurrentDeltas.
Delta(value, base) == IF value >= base THEN value - base ELSE value

IdleHC == [pc |-> "idle", left |-> {}, at |-> 0, sample |-> 0]
IdleView == [pc |-> "idle", left |-> {}, sample |-> 0, shown |-> NoRecord]
IdleAG == [pc |-> "idle", period |-> "daily", window |-> 0, all |-> FALSE,
           instances |-> {}, sums |-> [t \in Targets |-> NoRecord]]

Records == [bytes : Nat, reset : BOOLEAN]

TypeOK ==
    /\ hour \in Hours
    /\ counter \in [Targets -> 0..MaxCarried]
    /\ enabled \subseteq Targets
    /\ baseline \in [Targets -> 0..MaxCarried]
    /\ rec \in [Periods -> [Targets -> [Hours -> Records]]]
    /\ hc \in [Collectors -> [pc : {"idle", "query", "add"}, left : SUBSET Targets,
                              at : Hours, sample : 0..MaxCarried]]
    /\ view \in [Viewers -> [pc : {"idle", "query", "read"}, left : SUBSET Targets,
                             sample : 0..MaxCarried, shown : Records]]
    /\ ag \in [Aggregators -> [pc : {"idle", "list", "replace"},
                               period : {"daily", "monthly"}, window : Hours, all : BOOLEAN,
                               instances : SUBSET Targets, sums : [Targets -> Records]]]
    /\ restarts \in 0..MaxRestarts /\ toggles \in 0..MaxToggles
    /\ carried \in [Targets -> 0..MaxCarried]
    /\ billed \in [Targets -> Nat]
    /\ added \in [Targets -> [Hours -> Nat]]
    /\ restarted \subseteq Targets

Init ==
    /\ hour = 0
    /\ counter = [t \in Targets |-> 0]
    /\ enabled = Targets
    /\ baseline = [t \in Targets |-> 0]
    /\ rec = [p \in Periods |-> [t \in Targets |-> [w \in Hours |-> NoRecord]]]
    /\ hc = [c \in Collectors |-> IdleHC]
    /\ view = [v \in Viewers |-> IdleView]
    /\ ag = [a \in Aggregators |-> IdleAG]
    /\ restarts = 0 /\ toggles = 0
    /\ carried = [t \in Targets |-> 0]
    /\ billed = [t \in Targets |-> 0]
    /\ added = [t \in Targets |-> [h \in Hours |-> 0]]
    /\ restarted = {}

-----------------------------------------------------------------------------
(* The world: traffic, restarts, configuration, time *)

Carry(t) ==
    /\ carried[t] < MaxCarried
    /\ carried' = [carried EXCEPT ![t] = @ + 1]
    /\ counter' = [counter EXCEPT ![t] = @ + 1]
    /\ UNCHANGED <<hour, enabled, restarts, toggles, restarted, database, hc, view, ag>>

Restart(t) ==
    /\ restarts < MaxRestarts /\ restarts' = restarts + 1
    /\ counter' = [counter EXCEPT ![t] = 0]
    /\ restarted' = restarted \cup {t}
    /\ UNCHANGED <<hour, enabled, toggles, carried, database, hc, view, ag>>

\* The operator edits "enabled" of an instance.
Toggle(t) ==
    /\ toggles < MaxToggles /\ toggles' = toggles + 1
    /\ enabled' = IF t \in enabled THEN enabled \ {t} ELSE enabled \cup {t}
    /\ UNCHANGED <<hour, counter, restarts, carried, restarted, database, hc, view, ag>>

Tick ==
    /\ hour < MaxHour /\ hour' = hour + 1
    /\ UNCHANGED <<counter, enabled, restarts, toggles, carried, restarted, database,
                   hc, view, ag>>

\* SelectTargets: ALL takes the enabled instances, a name that instance even
\* when it is disabled; a command without any target ends at once.
Selections == ({enabled} \cup {{t} : t \in Targets}) \ {{}}

\* The target whose turn it is.
Turn(S) == {t \in S : \A u \in S : t <= u}

-----------------------------------------------------------------------------
(* sboxctl traffic collect hourly *)

\* The hour is fixed here, by the clock or by --at.
StartHourly(c) ==
    /\ hc[c].pc = "idle"
    /\ \E S \in Selections, at \in 0..hour :
          hc' = [hc EXCEPT ![c] = [pc |-> "query", left |-> S, at |-> at, sample |-> 0]]
    /\ UNCHANGED <<world, database, view, ag>>

\* Mutant: the baseline is stored with the sample, before the transaction.
Query_StoresBaseline(c) ==
    /\ hc[c].pc = "query"
    /\ \E t \in Turn(hc[c].left) :
          /\ hc' = [hc EXCEPT ![c] = [@ EXCEPT !.pc = "add", !.sample = counter[t]]]
          /\ baseline' = [baseline EXCEPT ![t] = counter[t]]
    /\ UNCHANGED <<world, rec, billed, added, view, ag>>

\* The stats API of the next target answers with its counter.
Query(c) ==
    /\ hc[c].pc = "query"
    /\ \E t \in Turn(hc[c].left) :
          hc' = [hc EXCEPT ![c] = [@ EXCEPT !.pc = "add", !.sample = counter[t]]]
    /\ UNCHANGED <<world, database, view, ag>>

\* Mutant: the upsert of the baseline adds to it, as the one of a record does.
AddHourly_AddsBaseline(c) ==
    /\ hc[c].pc = "add"
    /\ \E t \in Turn(hc[c].left) :
          LET value == hc[c].sample
              delta == Delta(value, baseline[t])
              at == hc[c].at
              left == hc[c].left \ {t}
          IN  /\ rec' = IF delta = 0 THEN rec
                        ELSE [rec EXCEPT !["hourly"][t][at] =
                                [bytes |-> @.bytes + delta,
                                 reset |-> @.reset \/ value < baseline[t]]]
              /\ baseline' = [baseline EXCEPT ![t] = @ + value]
              /\ billed' = [billed EXCEPT ![t] = @ + delta]
              /\ added' = [added EXCEPT ![t][at] = @ + delta]
              /\ hc' = [hc EXCEPT ![c] =
                    IF left = {} THEN IdleHC
                    ELSE [pc |-> "query", left |-> left, at |-> at, sample |-> 0]]
    /\ UNCHANGED <<world, view, ag>>

\* AddHourlyCounters: one transaction adds the delta to the hour and stores
\* the sample as the new baseline.
AddHourly(c) ==
    /\ hc[c].pc = "add"
    /\ \E t \in Turn(hc[c].left) :
          LET value == hc[c].sample
              delta == Delta(value, baseline[t])
              at == hc[c].at
              left == hc[c].left \ {t}
          IN  /\ rec' = IF delta = 0 THEN rec
                        ELSE [rec EXCEPT !["hourly"][t][at] =
                                [bytes |-> @.bytes + delta,
                                 reset |-> @.reset \/ value < baseline[t]]]
              /\ baseline' = [baseline EXCEPT ![t] = value]
              /\ billed' = [billed EXCEPT ![t] = @ + delta]
              /\ added' = [added EXCEPT ![t][at] = @ + delta]
              /\ hc' = [hc EXCEPT ![c] =
                    IF left = {} THEN IdleHC
                    ELSE [pc |-> "query", left |-> left, at |-> at, sample |-> 0]]
    /\ UNCHANGED <<world, view, ag>>

\* A query or a transaction fails, or the command dies: the targets already
\* committed stay committed, the others are left for the next run.
AbortHourly(c) ==
    /\ hc[c].pc # "idle"
    /\ hc' = [hc EXCEPT ![c] = IdleHC]
    /\ UNCHANGED <<world, database, view, ag>>

-----------------------------------------------------------------------------
(* sboxctl traffic show current, watch current *)

StartView(v) ==
    /\ view[v].pc = "idle"
    /\ \E S \in Selections :
          view' = [view EXCEPT ![v] = [pc |-> "query", left |-> S, sample |-> 0,
                                       shown |-> NoRecord]]
    /\ UNCHANGED <<world, database, hc, ag>>

QueryView(v) ==
    /\ view[v].pc = "query"
    /\ \E t \in Turn(view[v].left) :
          view' = [view EXCEPT ![v] = [@ EXCEPT !.pc = "read", !.sample = counter[t]]]
    /\ UNCHANGED <<world, database, hc, ag>>

\* CurrentDeltas reads the baseline after the query, in no transaction; the
\* delta is shown, nothing is stored.
ReadBaseline(v) ==
    /\ view[v].pc = "read"
    /\ \E t \in Turn(view[v].left) :
          LET left == view[v].left \ {t}
          IN  view' = [view EXCEPT ![v] =
                [pc |-> IF left = {} THEN "idle" ELSE "query",
                 left |-> left, sample |-> 0,
                 shown |-> [bytes |-> Delta(view[v].sample, baseline[t]),
                            reset |-> view[v].sample < baseline[t]]]]
    /\ UNCHANGED <<world, database, hc, ag>>

-----------------------------------------------------------------------------
(* sboxctl traffic collect daily, collect monthly *)

StartAggregate(a) ==
    /\ ag[a].pc = "idle"
    /\ \E S \in Selections, period \in {"daily", "monthly"} :
       \E w \in 0..WindowOf(period, hour) :
          ag' = [ag EXCEPT ![a] = [IdleAG EXCEPT !.pc = "list", !.period = period,
                                                 !.window = w, !.instances = S,
                                                 !.all = (S = enabled)]]
    /\ UNCHANGED <<world, database, hc, view>>

\* ListRecords and AggregateRecords: read and summed outside the transaction.
ListSources(a) ==
    /\ ag[a].pc = "list"
    /\ ag' = [ag EXCEPT ![a].pc = "replace",
                        ![a].sums = [t \in Targets |->
                            IF t \in ag[a].instances
                            THEN Aggregate(ag[a].period, t, ag[a].window) ELSE NoRecord]]
    /\ UNCHANGED <<world, database, hc, view>>

\* Mutant: the sums are added to the records, which stay.
ReplaceWindow_Adds(a) ==
    /\ ag[a].pc = "replace"
    /\ rec' = [rec EXCEPT ![ag[a].period] = [t \in Targets |->
          [@[t] EXCEPT ![ag[a].window].bytes = @ + ag[a].sums[t].bytes]]]
    /\ ag' = [ag EXCEPT ![a] = IdleAG]
    /\ UNCHANGED <<world, baseline, billed, added, hc, view>>

\* Mutant: the delete does not look at the window.
ReplaceWindow_Everything(a) ==
    /\ ag[a].pc = "replace"
    /\ rec' = [rec EXCEPT ![ag[a].period] = [t \in Targets |->
          IF t \in ag[a].instances
          THEN [w \in Hours |-> IF w = ag[a].window THEN ag[a].sums[t] ELSE NoRecord]
          ELSE @[t]]]
    /\ ag' = [ag EXCEPT ![a] = IdleAG]
    /\ UNCHANGED <<world, baseline, billed, added, hc, view>>

\* ReplaceWindowRecords: one transaction deletes the window's records of the
\* selected instances and writes the sums.
ReplaceWindow(a) ==
    /\ ag[a].pc = "replace"
    /\ rec' = [rec EXCEPT ![ag[a].period] = [t \in Targets |->
          IF t \in ag[a].instances THEN [@[t] EXCEPT ![ag[a].window] = ag[a].sums[t]]
          ELSE @[t]]]
    /\ ag' = [ag EXCEPT ![a] = IdleAG]
    /\ UNCHANGED <<world, baseline, billed, added, hc, view>>

AbortAggregate(a) ==
    /\ ag[a].pc # "idle"
    /\ ag' = [ag EXCEPT ![a] = IdleAG]
    /\ UNCHANGED <<world, database, hc, view>>

-----------------------------------------------------------------------------
(* sboxctl traffic cleanup records *)

\* cleanupCutoff: the first window that is kept.
Monus(m, n) == IF m > n THEN m - n ELSE 0

\* Mutant: daily records are kept no longer than the hourly ones.
Cutoff_NoMinimum(period) ==
    LET today == DayOf(hour)
    IN  CASE period = "hourly" -> Monus(today, RetentionDays) * HoursPerDay
          [] period = "daily" -> Monus(today, RetentionDays)
          [] OTHER -> Monus(MonthOf(today), RetentionMonths)

Cutoff(period) ==
    LET today == DayOf(hour)
        dailyDays == IF RetentionDays < DailyMinRetentionDays
                     THEN DailyMinRetentionDays ELSE RetentionDays
    IN  CASE period = "hourly" -> Monus(today, RetentionDays) * HoursPerDay
          [] period = "daily" -> Monus(today, dailyDays)
          [] OTHER -> Monus(MonthOf(today), RetentionMonths)

\* DeleteBefore, one period at a time.
Cleanup(period) ==
    /\ \E t \in Targets, w \in Hours : w < Cutoff(period) /\ rec[period][t][w] # NoRecord
    /\ rec' = [rec EXCEPT ![period] = [t \in Targets |-> [w \in Hours |->
          IF w < Cutoff(period) THEN NoRecord ELSE rec[period][t][w]]]]
    /\ UNCHANGED <<world, baseline, billed, added, hc, view, ag>>

Next ==
    \/ \E t \in Targets : Carry(t) \/ Restart(t) \/ Toggle(t)
    \/ Tick
    \/ \E c \in Collectors : StartHourly(c) \/ Query(c) \/ AddHourly(c) \/ AbortHourly(c)
    \/ \E v \in Viewers : StartView(v) \/ QueryView(v) \/ ReadBaseline(v)
    \/ \E a \in Aggregators : StartAggregate(a) \/ ListSources(a) \/ ReplaceWindow(a)
                              \/ AbortAggregate(a)
    \/ \E p \in Periods : Cleanup(p)

Spec == Init /\ [][Next]_vars

-----------------------------------------------------------------------------
(* Properties *)

\* The hours never hold more than the instance carried, however often it
\* restarts and wherever a collection is cut short: a sample becomes the
\* baseline in the transaction that adds its delta.  It takes one collector.
NothingInvented == \A t \in Targets : billed[t] <= carried[t]

\* And without a restart they miss nothing but what came after the baseline:
\* a target that a failed collection did not reach is caught up by the next.
NothingLost ==
    \A t \in Targets \ restarted : billed[t] + (counter[t] - baseline[t]) = carried[t]

\* reset_detected says that the instance restarted.  It takes one collector:
\* an older sample that is added after a newer one looks like a reset too.
ResetIsRestart ==
    \A t \in Targets, h \in Hours : rec["hourly"][t][h].reset => t \in restarted

\* What "show current" shows for an instance that never restarted is not yet
\* in its hours, unless it is marked as a reset: a collection that commits
\* between the query and the baseline's read moves the baseline past the
\* sample, and then the whole counter is shown.  It takes one collector.
UnmarkedIsPending ==
    [][\A v \in Viewers, t \in Targets \ restarted :
          ReadBaseline(v) /\ t \in Turn(view[v].left) /\ ~view'[v].shown.reset =>
              view'[v].shown.bytes + billed[t] <= carried[t]]_vars

HoursOf(period, w) == {h \in Hours : WindowOf(period, h) = w}

\* A day or a month never claims more than its hours were ever given, however
\* often it is computed again and whatever is collected or cleaned meanwhile.
RecordsNeverInvent ==
    \A t \in Targets :
        /\ SumFunctionOnSet(added[t], Hours) = billed[t]
        /\ \A period \in Periods, w \in Hours :
              rec[period][t][w].bytes
                  <= SumFunctionOnSet(added[t], HoursOf(period, w))

\* Computing it again never takes bytes away, as long as none of its hours is
\* past the retention.  It takes one aggregator: an older sum would replace
\* a newer one.
AggregatesGrow ==
    [][\A period \in {"daily", "monthly"}, t \in Targets, w \in Hours :
          rec'[period][t][w].bytes < rec[period][t][w].bytes =>
              \/ w < Cutoff(period)
              \/ \E h \in HoursOf(period, w) : h < Cutoff("hourly")]_vars

\* Cleanup never takes what the timers have yet to aggregate: the hours of
\* yesterday, and the days of last month when the daily retention reaches
\* back to its first day.
CleanupKeepsSources ==
    [][(\E period \in Periods : Cleanup(period)) => \A t \in Targets, w \in Hours :
          /\ DayOf(w) + 1 >= DayOf(hour) => rec'["hourly"][t][w] = rec["hourly"][t][w]
          /\ /\ DailyMinRetentionDays >= 2 * DaysPerMonth - 1
             /\ MonthOf(w) + 1 >= MonthOf(DayOf(hour))
             => rec'["daily"][t][w] = rec["daily"][t][w]]_vars
=============================================================================

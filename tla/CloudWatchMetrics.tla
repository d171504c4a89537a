------------------------- MODULE CloudWatchMetrics -------------------------
(***************************************************************************)
(* CloudWatch metrics and alarms (services/cloudwatch): data points with   *)
(* the time they arrived at, the statistics and the expressions over them, *)
(* and alarms, whose state only clients set.  Every handler is one step    *)
(* under the guard of the store.                                           *)
(***************************************************************************)
EXTENDS Integers, Sequences, FiniteSets, SequencesExt

CONSTANTS
    Metrics,   \* metrics: a namespace with a metric name
    Values,    \* values of data points
    Alarms,    \* names of alarms
    Nil,
    MaxData,   \* bound: data points
    MaxTime    \* bound: the clock

VARIABLES
    metrics,  \* CloudWatchStore.metrics
    alarms,   \* CloudWatchStore.alarms: per name a state value or Nil
    clock     \* Utc::now()

vars == <<metrics, alarms, clock>>

-----------------------------------------------------------------------------
(* Operations *)

\* The data of a request arrive at one time, in the JSON as in the query form.
PutMetricData(data) ==
    /\ Len(metrics) + Len(data) <= MaxData
    /\ metrics' = metrics \o [i \in DOMAIN data |-> [metric |-> data[i][1], value |-> data[i][2], ts |-> clock]]
    /\ UNCHANGED <<alarms, clock>>

\* An alarm that is put again loses its state.
PutMetricAlarm(a) ==
    /\ alarms' = [alarms EXCEPT ![a] = "INSUFFICIENT_DATA"]
    /\ UNCHANGED <<metrics, clock>>

SetAlarmState(a, state) ==
    /\ alarms[a] # Nil
    /\ alarms' = [alarms EXCEPT ![a] = state]
    /\ UNCHANGED <<metrics, clock>>

DeleteAlarms(names) ==
    /\ alarms' = [a \in Alarms |-> IF a \in names THEN Nil ELSE alarms[a]]
    /\ UNCHANGED <<metrics, clock>>

Tick ==
    /\ clock < MaxTime
    /\ clock' = clock + 1
    /\ UNCHANGED <<metrics, alarms>>

-----------------------------------------------------------------------------
(* Answers.  A result is a sequence of at most one value. *)

Sum1(values) == FoldLeft(LAMBDA acc, v : acc + v, 0, values)

Least(values) == CHOOSE v \in ToSet(values) : \A w \in ToSet(values) : v <= w

Greatest(values) == CHOOSE v \in ToSet(values) : \A w \in ToSet(values) : v >= w

\* The statistics of GetMetricData: SampleCount is the sum, too.
Statistic(stat, values) ==
    CASE stat \in {"Sum", "SampleCount"} -> Sum1(values)
      [] stat = "Minimum" -> Least(values)
      [] stat = "Maximum" -> Greatest(values)
      [] OTHER -> Sum1(values) \div Len(values)

\* ListMetrics: each metric once
ListMetrics == {metrics[i].metric : i \in DOMAIN metrics}

ValuesOf(data) == [i \in DOMAIN data |-> data[i].value]

\* GetMetricStatistics: over all data points, whatever the times asked for
GetMetricStatistics(m) ==
    LET values == ValuesOf(SelectSeq(metrics, LAMBDA d : d.metric = m))
    IN  IF values = <<>> THEN <<>>
        ELSE <<[count |-> Len(values), sum |-> Sum1(values), average |-> Sum1(values) \div Len(values),
                minimum |-> Least(values), maximum |-> Greatest(values)]>>

\* Mutant: a window leaves out what arrived on its borders.
InWindow_Open(d, start, end) == start < d.ts /\ d.ts < end

\* Both ends are inside.
InWindow(d, start, end) == start <= d.ts /\ d.ts <= end

\* The MetricStat queries of GetMetricData
MetricStat(m, stat, start, end) ==
    LET values == ValuesOf(SelectSeq(metrics, LAMBDA d : d.metric = m /\ InWindow(d, start, end)))
    IN  IF values = <<>> THEN <<>> ELSE <<Statistic(stat, values)>>

\* The Expression queries: over all results before, empty ones left out
Expression(op, results) ==
    LET values == FlattenSeq(results)
    IN  IF values = <<>> THEN <<0>>
        ELSE <<CASE op = "SUM" -> Sum1(values)
                 [] op = "AVG" -> Sum1(values) \div Len(values)
                 [] op = "MIN" -> Least(values)
                 [] op = "MAX" -> Greatest(values)
                 [] OTHER -> 0>>

\* GetMetricData: the queries in their order
GetMetricData(queries, start, end) ==
    FoldLeft(LAMBDA results, q :
                 Append(results, IF q[1] = "stat" THEN MetricStat(q[2], q[3], start, end)
                                 ELSE Expression(q[2], results)),
             <<>>, queries)

\* DescribeAlarms
DescribeAlarms(names) == {<<a, alarms[a]>> : a \in {x \in Alarms : alarms[x] # Nil /\ (names = {} \/ x \in names)}}

-----------------------------------------------------------------------------
Init ==
    /\ metrics = <<>>
    /\ alarms = [a \in Alarms |-> Nil]
    /\ clock = 0

Next ==
    \/ \E m \in Metrics, v \in Values : PutMetricData(<<<<m, v>>>>)
    \/ \E m, n \in Metrics, v \in Values : PutMetricData(<<<<m, v>>, <<n, v>>>>)
    \/ \E a \in Alarms : PutMetricAlarm(a) \/ SetAlarmState(a, "ALARM") \/ DeleteAlarms({a})
    \/ Tick

-----------------------------------------------------------------------------
(* Properties *)

Total(s) == IF s = <<>> THEN 0 ELSE s[1]

\* Windows that share a border add up to the one over both of them, with what arrived just at the
\* border counted in each: nothing falls between two windows, at whichever time it arrived, and
\* nothing else is counted twice.  The SUM expression over the metrics of a query is their sum over
\* its window.  GetMetricStatistics, which does not look at the times asked for, agrees with
\* GetMetricData over all time.
WindowsAddUp ==
    /\ \A m \in Metrics, a, b, c \in 0..MaxTime : a <= b /\ b <= c =>
           Total(MetricStat(m, "Sum", a, b)) + Total(MetricStat(m, "Sum", b, c))
               = Total(MetricStat(m, "Sum", a, c)) + Total(MetricStat(m, "Sum", b, b))
    /\ \A m, n \in Metrics, a, b \in 0..MaxTime : m # n =>
           LET r == GetMetricData(<<<<"stat", m, "Sum">>, <<"stat", n, "Sum">>, <<"expression", "SUM">>>>, a, b)
               inside == SelectSeq(metrics, LAMBDA d : d.metric \in {m, n} /\ d.ts \in a..b)
           IN  Len(r) = 3 /\ r[3] = <<Sum1(ValuesOf(inside))>>
    /\ \A m \in ListMetrics :
           LET s == GetMetricStatistics(m)[1]
           IN  /\ <<s.sum>> = MetricStat(m, "Sum", 0, MaxTime)
               /\ <<s.minimum>> = MetricStat(m, "Minimum", 0, MaxTime)
               /\ <<s.maximum>> = MetricStat(m, "Maximum", 0, MaxTime)
=============================================================================

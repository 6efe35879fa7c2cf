------------------------------- MODULE Analytics -------------------------------
(***************************************************************************)
(* Analytics: internal/service/analytics.go, aggregation_worker.go and     *)
(* analytics_reaper.go, their handler and their repositories.              *)
(*                                                                         *)
(* What the event bus publishes is inserted into metric_events, one row    *)
(* per type, resource and hour: so the code means it, but the statement    *)
(* names no index that PostgreSQL would take, see Arbiters, and each is    *)
(* refused.  The worker counts the rows of a period into a row of          *)
(* dashboard_metrics and takes the latest calculated_at there for the mark *)
(* it goes on from; a cycle runs at every tick of its ticker, and beside   *)
(* it in a goroutine of its own when a client triggers one.                *)
(*                                                                         *)
(* Time is counted in hours, "DayLength" of them a day.  The model has one *)
(* category of metrics and daily periods; weekly and monthly ones differ   *)
(* in their lengths.                                                       *)
(***************************************************************************)
EXTENDS Requests, Integers, SequencesExt

CONSTANTS
    MetricOrgs,     \* organizations
    Things,         \* resources
    Categories,     \* the known categories of the dashboard
    Cyclers,        \* goroutines that run cycles: the worker's own, and those of triggers
    MetricBuffer,   \* capacity of the channel
    DayLength,      \* hours of a day
    Backlog,        \* days before now at which the first period starts
    Retention,      \* days after which the reaper archives
    LastHour,       \* bounds on time,
    MaxMetricEvents,\*           events
    MaxCycles       \*           and cycles of the worker

ASSUME AnalyticsAssumption ==
    /\ DayLength \in Nat \ {0} /\ MetricBuffer \in Nat \ {0}
    /\ Backlog \in Nat \ {0} /\ Retention \in Nat /\ LastHour \in Nat
    /\ MaxMetricEvents \in Nat /\ MaxCycles \in Nat

VARIABLES
    hour,           \* time
    metricFeed,     \* the channel between the bus and processEvents
    metricEvents,   \* rows of metric_events, by the order of their insertion
    metrics,        \* rows of dashboard_metrics
    cycles,         \* the cycle of each goroutine
    preferences,    \* rows of dashboard_preferences, at most one for an organization:
                    \* the categories shown
    emitted,        \* history: the events taken over from the bus,
    cyclesBegun,    \*          cycles so far,
    beside          \*          some cycle began before another one ended

analyticsVars == <<hour, metricFeed, metricEvents, metrics, cycles, preferences, emitted,
                   cyclesBegun, beside>>

Everyone == "everyone"      \* the metrics of no organization
Unknown == "unknown"        \* a category that the code does not know
Scopes == MetricOrgs \cup {Everyone}

Day(h) == h \div DayLength
Days(n) == n * DayLength

\* An event has a mapping and an actor that exists, or not; not every event has an
\* organization.
BusEvent == [mapped : BOOLEAN, about : Things, org : Scopes]
MetricEvent == [about : Things, org : Scopes, at : Nat, archived : BOOLEAN]
DashboardMetric == [org : Scopes, start : Int, value : Nat, at : Nat]
Resting == [pc |-> "rest"]
Cycle == [pc : {"watermark", "count", "upsert"}, today : Nat, todo : Seq(Scopes), now : Nat,
          start : Int, value : Nat]

PreferenceRequest ==
    [pc : {"upsert", "refetch"}, org : Scopes, shown : SUBSET Categories]

AnalyticsTypeOK ==
    /\ hour \in Nat
    /\ metricFeed \in Seq(BusEvent) /\ Len(metricFeed) <= MetricBuffer
    /\ metricEvents \in Seq(MetricEvent)
    /\ metrics \subseteq DashboardMetric
    /\ cycles \in [Cyclers -> Cycle \cup {Resting}]
    /\ preferences \in [MetricOrgs -> SUBSET SUBSET Categories]
    /\ emitted \in Seq(BusEvent) /\ cyclesBegun \in 0..MaxCycles /\ beside \in BOOLEAN
    /\ RequestsAre(PreferenceRequest)

AnalyticsInit ==
    /\ hour = 0
    /\ metricFeed = <<>> /\ metricEvents = <<>> /\ metrics = {}
    /\ cycles = [c \in Cyclers |-> Resting]
    /\ preferences = [o \in MetricOrgs |-> {}]
    /\ emitted = <<>> /\ cyclesBegun = 0 /\ beside = FALSE

NextHour ==
    /\ hour < LastHour
    /\ hour' = hour + 1
    /\ UNCHANGED <<metricFeed, metricEvents, metrics, cycles, preferences, emitted,
                   cyclesBegun, beside, requestVars>>

-----------------------------------------------------------------------------
(* From the event bus *)

EmitMetric ==
    /\ Len(emitted) < MaxMetricEvents
    /\ Len(metricFeed) < MetricBuffer
    /\ \E e \in BusEvent :
        /\ e.mapped \/ e.org = Everyone     \* no matter whose, of one passed over
        /\ metricFeed' = Append(metricFeed, e)
        /\ emitted' = Append(emitted, e)
    /\ UNCHANGED <<hour, metricEvents, metrics, cycles, preferences, cyclesBegun, beside,
                   requestVars>>

\* The unique indexes of metric_events: on which columns, and have they a WHERE
\* (archived_at IS NULL).
UniqueIndexes ==
    {[columns |-> {"event_type", "resource_id", "date", "hour"}, partial |-> TRUE]}

\* Create names the columns of its ON CONFLICT and no condition; PostgreSQL infers the
\* indexes on just these that have none, and refuses the statement if it finds none.
ConflictTarget == {"event_type", "resource_id", "date", "hour"}
Arbiters == {index \in UniqueIndexes : index.columns = ConflictTarget /\ ~index.partial}

\* The unique index on type, resource, date and hour of the rows not archived.
IsNewMetric(e) ==
    \A i \in DOMAIN metricEvents :
        LET row == metricEvents[i]
        IN  row.about = e.about /\ row.at = hour => row.archived

\* An event without a mapping is passed over, one that is refused (or whose actor the
\* foreign key does not know) is an error, which is logged, one that conflicts is left
\* out, and the time is that of processing.
HandleMetricEvent ==
    LET e == Head(metricFeed)
    IN  /\ metricFeed # <<>>
        /\ metricFeed' = Tail(metricFeed)
        /\ metricEvents' =
                IF e.mapped /\ Arbiters # {} /\ IsNewMetric(e)
                THEN Append(metricEvents, [about |-> e.about, org |-> e.org, at |-> hour,
                                           archived |-> FALSE])
                ELSE metricEvents
        /\ UNCHANGED <<hour, metrics, cycles, preferences, emitted, cyclesBegun, beside,
                       requestVars>>

-----------------------------------------------------------------------------
(* The reaper *)

Old(row) == row.at + Days(Retention) < hour /\ ~row.archived

ArchiveMetricEvents ==
    /\ metricEvents' = [i \in DOMAIN metricEvents |->
                            [metricEvents[i] EXCEPT !.archived = @ \/ Old(metricEvents[i])]]
    /\ UNCHANGED <<hour, metricFeed, metrics, cycles, preferences, emitted, cyclesBegun,
                   beside, requestVars>>

-----------------------------------------------------------------------------
(* The repositories *)

\* Both ends are dates, and both are in; Everyone is no condition.
CountByTypeAndPeriod(o, from, to) ==
    Cardinality({i \in DOMAIN metricEvents :
        /\ ~metricEvents[i].archived /\ o \in {Everyone, metricEvents[i].org}
        /\ Day(metricEvents[i].at) \in Day(from)..Day(to)})

FindDistinctOrganizationIDs ==
    {metricEvents[i].org : i \in {j \in DOMAIN metricEvents : ~metricEvents[j].archived}}
        \ {Everyone}

\* FindMaxCalculatedAt takes the latest.
Watermarks(o) == {m.at : m \in {n \in metrics : n.org = o}}

\* ON CONFLICT replaces the value and the time; without an organization nothing
\* conflicts, and there are two rows.
UpsertedMetrics(row) ==
    {m \in metrics : m.org = Everyone \/ m.org # row.org \/ m.start # row.start} \cup {row}

-----------------------------------------------------------------------------
(* The aggregation worker *)

CycleGoes(c, to) ==
    /\ cycles' = [cycles EXCEPT ![c] = to]
    /\ UNCHANGED <<hour, metricFeed, metricEvents, preferences, emitted, cyclesBegun, beside>>

\* On to the next organization, the cycle's time and its marks forgotten.
NextScope(q) ==
    IF Len(q.todo) = 1 THEN Resting
    ELSE [q EXCEPT !.pc = "watermark", !.todo = Tail(@), !.now = 0, !.start = 0, !.value = 0]

\* The ticker's goroutine looks at its ticker again when a cycle is done.
MayStart(c) == cycles[c] = Resting /\ cyclesBegun < MaxCycles

\* A ticker that fires or a client that triggers; without the list of organizations
\* there is but the metrics of everyone.
StartCycle(c) ==
    /\ MayStart(c)
    /\ cyclesBegun' = cyclesBegun + 1
    /\ beside' = (beside \/ \E d \in Cyclers : cycles[d] # Resting)
    /\ \E orgs \in {FindDistinctOrganizationIDs, {}} :
        /\ IF orgs = FindDistinctOrganizationIDs THEN UNCHANGED requestVars
           ELSE faults < MaxFaults /\ faults' = faults + 1 /\ UNCHANGED <<req, begun>>
        /\ cycles' = [cycles EXCEPT ![c] =
                [pc |-> "watermark", today |-> Days(Day(hour)),
                 todo |-> <<Everyone>> \o SetToSeq(orgs),
                 now |-> 0, start |-> 0, value |-> 0]]
    /\ UNCHANGED <<hour, metricFeed, metricEvents, metrics, preferences, emitted>>

PeriodStart(o) ==
    IF Watermarks(o) = {} THEN hour - Days(Backlog) ELSE Max(Watermarks(o)) + Days(1)

\* Mutant of IsOver: the period need not be over.
IsOverSoon(start, today) == start < today + Days(1)

\* A period that starts today or later is skipped; one that ends today is not.
IsOver(start, today) == start < today

ReadWatermark(c) ==
    LET q == cycles[c]
        start == PeriodStart(Head(q.todo))
    IN  /\ q.pc = "watermark"
        /\ CycleGoes(c, IF IsOver(start, q.today)
                        THEN [q EXCEPT !.pc = "count", !.now = hour, !.start = start]
                        ELSE NextScope(q))
        /\ UNCHANGED <<metrics, requestVars>>

CountEvents(c) ==
    LET q == cycles[c]
    IN  /\ q.pc = "count"
        /\ CycleGoes(c, [q EXCEPT !.pc = "upsert",
                !.value = CountByTypeAndPeriod(Head(q.todo), q.start, q.start + Days(1))])
        /\ UNCHANGED <<metrics, requestVars>>

\* The time read before the first query of the organization.
CalculatedAt(q) == q.now

UpsertMetric(c) ==
    LET q == cycles[c]
    IN  /\ q.pc = "upsert"
        /\ metrics' = UpsertedMetrics([org |-> Head(q.todo), start |-> q.start,
                                       value |-> q.value, at |-> CalculatedAt(q)])
        /\ CycleGoes(c, NextScope(q))
        /\ UNCHANGED requestVars

\* Any of the three fails and is logged.
FailScope(c) ==
    /\ cycles[c] # Resting
    /\ faults < MaxFaults
    /\ faults' = faults + 1
    /\ CycleGoes(c, NextScope(cycles[c]))
    /\ UNCHANGED <<metrics, req, begun>>

-----------------------------------------------------------------------------
(* The preferences of an organization's dashboard *)

\* The categories that are not known are left out, those not mentioned are hidden.
HandleUpdatePreferences(r, o, wanted) ==
    /\ Begin(r, [pc |-> "upsert", org |-> o, shown |-> wanted \cap Categories])
    /\ UNCHANGED analyticsVars

\* Without an organization the foreign key refuses the row.
UpsertPreference(r) ==
    LET q == req[r]
    IN  /\ At(r, "upsert")
        /\ IF q.org \in MetricOrgs
           THEN preferences' = [preferences EXCEPT ![q.org] = {q.shown}] /\ Goto(r, "refetch")
           ELSE UNCHANGED preferences /\ Finish(r)
        /\ UNCHANGED <<hour, metricFeed, metricEvents, metrics, cycles, emitted, cyclesBegun,
                       beside>>

RefetchPreference(r) ==
    /\ At(r, "refetch")
    /\ Finish(r)
    /\ UNCHANGED analyticsVars

-----------------------------------------------------------------------------

MetricsNext ==
    \/ NextHour
    \/ EmitMetric \/ HandleMetricEvent \/ ArchiveMetricEvents
    \/ \E c \in Cyclers :
        StartCycle(c) \/ ReadWatermark(c) \/ CountEvents(c) \/ UpsertMetric(c) \/ FailScope(c)

PreferencesNext ==
    \/ EmitMetric \/ HandleMetricEvent
    \/ \E r \in Slots :
        \/ \E o \in Scopes, wanted \in SUBSET (Categories \cup {Unknown}) :
            HandleUpdatePreferences(r, o, wanted)
        \/ UpsertPreference(r) \/ RefetchPreference(r)
        \/ Abort(r) /\ UNCHANGED analyticsVars

AnalyticsNext == MetricsNext \/ PreferencesNext

-----------------------------------------------------------------------------
(* Properties *)

\* The categories on the dashboard of an organization, and a number of it.
GetDashboardPreferences(o) ==
    IF o = Everyone \/ preferences[o] = {} THEN Categories ELSE UNION preferences[o]
GetDashboard(o, category) ==
    IF category \in GetDashboardPreferences(o)
    THEN CountByTypeAndPeriod(o, hour - Days(Backlog), hour) ELSE 0

\* Rows by day, or by hour, of those that have any ...
FindTimeSeries(o, from, to, period) ==
    LET rows == {i \in DOMAIN metricEvents :
                    /\ ~metricEvents[i].archived /\ o \in {Everyone, metricEvents[i].org}
                    /\ Day(metricEvents[i].at) \in Day(from)..Day(to)}
        truncated(h) == IF period = "daily" THEN Day(h) ELSE h
    IN  [p \in {truncated(metricEvents[i].at) : i \in rows} |->
            Cardinality({i \in rows : truncated(metricEvents[i].at) = p})]

\* ... and a point for each, nought for the others.
GenerateDataPoints(points, all) ==
    [p \in all |-> IF p \in DOMAIN points THEN points[p] ELSE 0]

GetMetrics(o, from, to, period) ==
    GenerateDataPoints(FindTimeSeries(o, from, to, period),
                       IF period = "daily" THEN Day(from)..Day(to) ELSE from..to)

\* The dates of a request ({} or {a day}) are midnights; without them it is for the
\* days of the dashboard.  A first date after the last one is refused.
HandleGetMetrics(o, first, last, period) ==
    LET from == IF first = {} THEN hour - Days(Backlog) ELSE Days(Max(first))
        to == IF last = {} THEN hour ELSE Days(Max(last))
    IN  IF from > to THEN <<>> ELSE GetMetrics(o, from, to, period)

Total(points) == MapThenSumSet(LAMBDA x : points[x], DOMAIN points)

\* No day is counted into two numbers of everyone's, unless cycles beside, and a
\* change of preferences that is answered left a row.
DaysAreCountedOnce ==
    /\ ~beside =>
        \A m, n \in metrics :
            m.org = n.org /\ m # n => Day(m.start) \notin (Day(n.start) - 1)..(Day(n.start) + 1)
    /\ \A r \in Slots : At(r, "refetch") => preferences[req[r].org] # {}

-----------------------------------------------------------------------------
(* What the documentation says and the code does not do *)

\* metric_event.go:26, "Uses ON CONFLICT DO NOTHING for idempotent ingestion": of the
\* events with a mapping that were taken out of the channel there is something on the
\* dashboard and in the series of its days, as long as none is too old.
EventsBecomeMetrics ==
    /\ \E i \in 1..(Len(emitted) - Len(metricFeed)) : emitted[i].mapped
    /\ hour <= Days(Backlog) /\ hour <= Days(Retention)
    => /\ \A category \in Categories : GetDashboard(Everyone, category) > 0
       /\ Total(HandleGetMetrics(Everyone, {}, {}, "daily")) > 0

AnalyticsSpec ==
    AnalyticsInit /\ RequestsInit /\ [][AnalyticsNext]_<<analyticsVars, requestVars>>
=============================================================================

----------------------------- MODULE Analytics -----------------------------
(***************************************************************************)
(* analytics.ts: events are counted in memory and flushed as totals of the *)
(* day, one row for each platform and bot, which replace the row of        *)
(* before.  A day's totals are one number here, as all of them are sums    *)
(* over the same events; the table of single events is read by nobody.     *)
(***************************************************************************)
EXTENDS Integers, Functions

CONSTANTS
  Groups,             \* pairs of a platform and a bot
  Days,               \* the days are 1 .. Days
  TtlDays,            \* prune() forgets events older than that
  Flushes,            \* calls of flushDailyStats that may run at a time
  MaxRecorded,        \* bounds all events together
  MaxRestarts

ASSUME AnalyticsAssumption == Days \in Nat \ {0} /\ TtlDays \in Nat

VARIABLES
  day, session,
  inMemory,           \* [1..Days -> [Groups -> events]]
  daily,              \* rows of gateway_analytics_daily; NoRow where there is none
  flush,              \* [Flushes -> [date, stats, left]]
  writer,             \* history: the session that wrote a daily row
  recorded,           \* history: events of a day and group
  overlapped          \* history: two flushes ran at the same time

analyticsVars == <<day, session, inMemory, daily, flush, writer, recorded,
                   overlapped>>

NoRow == -1
DayGroups == (1..Days) \X Groups
Zero == [dg \in DayGroups |-> 0]
NoFlush == [date |-> 0, stats |-> [g \in Groups |-> 0], left |-> {}]
Flushing == {f \in Flushes : flush[f].left # {}}

AnalyticsInit ==
  /\ day = 1 /\ session = 0
  /\ inMemory = Zero
  /\ daily = [dg \in DayGroups |-> NoRow] /\ writer = Zero
  /\ flush = [f \in Flushes |-> NoFlush]
  /\ recorded = Zero /\ overlapped = FALSE

-----------------------------------------------------------------------------
record(g) ==
  /\ FoldFunction(+, 0, recorded) < MaxRecorded
  /\ inMemory' = [inMemory EXCEPT ![<<day, g>>] = @ + 1]
  /\ recorded' = [recorded EXCEPT ![<<day, g>>] = @ + 1]
  /\ UNCHANGED <<day, session, daily, flush, writer, overlapped>>

\* getDailyStats: the groups with an event of the date, and their totals.
getDailyStats(date) == [g \in {h \in Groups : inMemory[<<date, h>>] > 0} |-> inMemory[<<date, g>>]]

\* The totals are taken before the first row is awaited.
FlushStarts(f) ==
  LET stats == getDailyStats(day)
  IN /\ flush[f].left = {} /\ DOMAIN stats # {}
     /\ flush' = [flush EXCEPT ![f] = [date |-> day, left |-> DOMAIN stats,
                    stats |-> [g \in Groups |-> IF g \in DOMAIN stats THEN stats[g] ELSE 0]]]
     /\ overlapped' = (overlapped \/ Flushing # {})
     /\ UNCHANGED <<day, session, inMemory, daily, writer, recorded>>

\* Faulty: the conflict adds the totals to those of the row.
FlushWritesSum(f, g) ==
  LET dg == <<flush[f].date, g>>
  IN /\ g \in flush[f].left
     /\ daily' = [daily EXCEPT ![dg] = flush[f].stats[g] + IF @ = NoRow THEN 0 ELSE @]
     /\ writer' = [writer EXCEPT ![dg] = session]
     /\ flush' = [flush EXCEPT ![f].left = @ \ {g}]
     /\ UNCHANGED <<day, session, inMemory, recorded, overlapped>>

\* ON CONFLICT DO UPDATE: the row of before is replaced.
FlushWrites(f, g) ==
  LET dg == <<flush[f].date, g>>
  IN /\ g \in flush[f].left
     /\ daily' = [daily EXCEPT ![dg] = flush[f].stats[g]]
     /\ writer' = [writer EXCEPT ![dg] = session]
     /\ flush' = [flush EXCEPT ![f].left = @ \ {g}]
     /\ UNCHANGED <<day, session, inMemory, recorded, overlapped>>

\* A row that fails ends the flush; those behind it wait for the next one.
FlushFails(f) ==
  /\ flush[f].left # {}
  /\ flush' = [flush EXCEPT ![f].left = {}]
  /\ UNCHANGED <<day, session, inMemory, daily, writer, recorded, overlapped>>

\* Faulty: events as old as a flush of today are pruned with the rest.
pruneAll ==
  /\ inMemory' = Zero
  /\ UNCHANGED <<day, session, daily, flush, writer, recorded, overlapped>>

prune ==
  /\ inMemory' = [dg \in DayGroups |-> IF dg[1] < day - TtlDays THEN 0 ELSE inMemory[dg]]
  /\ UNCHANGED <<day, session, daily, flush, writer, recorded, overlapped>>

\* getDailyStatsAsync: the rows of the date if there are any, else the memory.
getDailyStatsAsync(date) ==
  IF \E g \in Groups : daily[<<date, g>>] # NoRow
  THEN [g \in Groups |-> daily[<<date, g>>]]
  ELSE [g \in Groups |-> inMemory[<<date, g>>]]

NextDay ==
  /\ day < Days
  /\ day' = day + 1
  /\ UNCHANGED <<session, inMemory, daily, flush, writer, recorded, overlapped>>

\* The process ends; the tables stay.
AnalyticsRestart ==
  /\ session < MaxRestarts
  /\ session' = session + 1
  /\ inMemory' = Zero
  /\ flush' = [f \in Flushes |-> NoFlush]
  /\ UNCHANGED <<day, daily, writer, recorded, overlapped>>

AnalyticsNext ==
  \/ NextDay \/ AnalyticsRestart \/ prune
  \/ \E g \in Groups : record(g)
  \/ \E f \in Flushes : FlushStarts(f) \/ FlushFails(f)
  \/ \E f \in Flushes, g \in Groups : FlushWrites(f, g)

AnalyticsSpec == AnalyticsInit /\ [][AnalyticsNext]_analyticsVars

-----------------------------------------------------------------------------
(* What getDailyStatsAsync answers for a day never exceeds what was        *)
(* recorded on it, also when it is flushed many times, by several sessions *)
(* and while flushes overlap; and a row shrinks only by the flush of a     *)
(* later session, or of one that overlapped another (flushDailyStats).     *)
DailyTotals ==
  [][\A dg \in DayGroups :
       /\ (getDailyStatsAsync(dg[1])[dg[2]] <= recorded[dg])'
       /\ daily'[dg] < daily[dg] => overlapped \/ writer[dg] # session]_analyticsVars
=============================================================================

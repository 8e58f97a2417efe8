---------------------------- MODULE BillingCycle ----------------------------
(***************************************************************************)
(* The calendar of hysteria/cycle.py and timeutil.py and what the limiter  *)
(* does by it: usage is kept per day, summed over the days of the current  *)
(* cycle, pruned after a retention time, and the quota alert of a cycle is *)
(* deduplicated by a key that names a month.  Days are numbered from 1 and *)
(* MonthLengths gives the calendar.                                        *)
(***************************************************************************)
EXTENDS Naturals, Sequences, FiniteSetsExt

CONSTANTS
    MonthLengths,   \* the lengths of the months
    FirstDays,      \* the days on which a behaviour may begin, not in month 1
    SettlementDays, \* the values of settlement_day (1 to 28 in the code)
    CycleLengths,   \* the values of cycle_length_days
    CYCLE_LENGTH_MAX,
    CycleLengthDefault,
    Quota,          \* in units
    MaxUnits,       \* bound on the units used in a behaviour
    MaxChanges      \* bound on the changes of the cycle settings

MonthStart ==
    LET start[m \in 1 .. Len(MonthLengths) + 1] ==
          IF m = 1 THEN 1 ELSE start[m - 1] + MonthLengths[m - 1]
    IN  start

LastDay == MonthStart[Len(MonthLengths) + 1] - 1
Days    == 1 .. LastDay
MonthOf(d) == CHOOSE m \in 1 .. Len(MonthLengths) :
                  MonthStart[m] <= d /\ d < MonthStart[m + 1]
DayOf(d)   == d - MonthStart[MonthOf(d)] + 1

ASSUME CalendarAssumption ==
    /\ \A m \in 1 .. Len(MonthLengths) : MonthLengths[m] \in Nat \ {0}
    /\ FirstDays \subseteq {d \in Days : MonthOf(d) > 1}
    /\ \A s \in SettlementDays :
         s \in Nat \ {0} /\ \A m \in 1 .. Len(MonthLengths) : s <= MonthLengths[m]
    /\ CycleLengths \subseteq 1 .. CYCLE_LENGTH_MAX
    /\ CYCLE_LENGTH_MAX \in Nat /\ CycleLengthDefault \in 1 .. CYCLE_LENGTH_MAX
    /\ Quota \in Nat \ {0} /\ MaxUnits \in Nat /\ MaxChanges \in Nat

VARIABLES
    today,
    meta,      \* subscription_meta.json; anchor 0: no cycle_anchor_date
    daily,     \* usage_daily.json
    dedup,     \* the quota_100 entry of alert_state.json: a key, or 0
    changes,
    spent,     \* history: units used, per day
    crossed,   \* history: first day of the last cycle seen over quota, or 0
    alerted    \* history: first day of the last cycle alerted about, or 0

vars == <<today, meta, daily, dedup, changes, spent, crossed, alerted>>

Metas == [day : SettlementDays, length : CycleLengths, anchor : Days \cup {0}]

TypeOK ==
    /\ today \in Days /\ meta \in Metas
    /\ daily \in [Days -> 0 .. MaxUnits] /\ spent \in [Days -> 0 .. MaxUnits]
    /\ dedup \in 0 .. Len(MonthLengths)
    /\ crossed \in Days \cup {0} /\ alerted \in Days \cup {0}
    /\ changes \in 0 .. MaxChanges

\* billing_cycle_key: the month whose settlement day was the last one.
Key(d, s) == IF DayOf(d) >= s THEN MonthOf(d) ELSE MonthOf(d) - 1

\* settlement_anchor_date: the settlement day on or before d.
SettlementAnchor(d, s) == MonthStart[Key(d, s)] + s - 1

\* cycle_anchor_date.
Anchor(d, mt) == IF mt.anchor # 0 THEN mt.anchor ELSE SettlementAnchor(d, mt.day)

CycleStartRounded(d, mt) ==
    LET a == Anchor(d, mt)
    IN  IF d < a THEN a ELSE a + ((d - a + 1) \div mt.length) * mt.length

\* cycle_start_for.
CycleStart(d, mt) ==
    LET a == Anchor(d, mt)
    IN  IF d < a THEN a ELSE a + ((d - a) \div mt.length) * mt.length

\* cycle_days.
CycleDays(d, mt) ==
    LET s == CycleStart(d, mt) IN s .. Min({s + mt.length - 1, d})

\* cycle_used_raw_for.
Used(dl, d, mt) == MapThenSumSet(LAMBDA k : dl[k], CycleDays(d, mt))

RetentionOfDefault == CycleLengthDefault + 2

\* DAILY_RETENTION_DAYS.
Retention == CYCLE_LENGTH_MAX + 2

\* prune_daily.
Prune(dl) == [k \in Days |-> IF k + Retention - 1 < today THEN 0 ELSE dl[k]]

Init ==
    /\ today \in FirstDays
    /\ meta \in {mt \in Metas : mt.anchor = 0}
    /\ daily = [d \in Days |-> 0] /\ spent = daily
    /\ dedup = 0 /\ changes = 0 /\ crossed = 0 /\ alerted = 0

-----------------------------------------------------------------------------
\* accumulate_daily, then the quota part of check_alerts.
Tick ==
    /\ \E u \in 0 .. 1 :
         LET dl   == Prune([daily EXCEPT ![today] = @ + u])
             over == Used(dl, today, meta) >= Quota
             key  == Key(today, meta.day)
             fire == over /\ dedup # key
             start == CycleStart(today, meta)
         IN  /\ MapThenSumSet(LAMBDA d : spent[d], Days) + u <= MaxUnits
             /\ daily' = dl
             /\ spent' = [spent EXCEPT ![today] = @ + u]
             /\ crossed' = IF over THEN start ELSE crossed
             /\ dedup' = IF fire THEN key ELSE dedup
             /\ alerted' = IF fire THEN start ELSE alerted
    /\ UNCHANGED <<today, meta, changes>>

NextDay ==
    /\ today < LastDay
    /\ today' = today + 1
    /\ UNCHANGED <<meta, daily, dedup, changes, spent, crossed, alerted>>

\* _update_cycle_meta, from /admin/cycle-config.
Configure ==
    /\ changes < MaxChanges
    /\ changes' = changes + 1
    /\ \E s \in SettlementDays, l \in CycleLengths :
         meta' = [day |-> s, length |-> l, anchor |-> SettlementAnchor(today, s)]
    /\ UNCHANGED <<today, daily, dedup, spent, crossed, alerted>>

Next == Tick \/ NextDay \/ Configure

Spec == Init /\ [][Next]_vars

-----------------------------------------------------------------------------
(* Properties.                                                             *)

(* prune_daily never takes a day the quota still counts, whatever the      *)
(* cycle length is changed to and whatever date the anchor falls on.       *)
QuotaSeesWholeCycle == TypeOK /\ \A d \in CycleDays(today, meta) : daily[d] = spent[d]

(* The day is always in the current cycle, and "cycles roll exactly every  *)
(* N days from cycle_anchor_date": while the settings stay, the next day   *)
(* is in the same cycle or begins one exactly N days after the last.       *)
CyclesTile ==
    [][/\ today' \in CycleDays(today', meta')
       /\ (meta' = meta /\ meta.anchor # 0) =>
            \/ CycleStart(today', meta') = CycleStart(today, meta)
            \/ /\ CycleStart(today', meta') = today'
               /\ today' = CycleStart(today, meta) + meta.length]_vars

(* "New cycle, new dedup row, alerts re-arm automatically" (CONTEXT.md): a  *)
(* cycle that a tick sees over quota is the one last alerted about.  The    *)
(* dedup row of check_alerts names a month, not the cycle, so a cycle that  *)
(* crosses the quota in the month of the last alert finds its row taken.    *)
RearmedByNewCycle == crossed # 0 => alerted = crossed

=============================================================================

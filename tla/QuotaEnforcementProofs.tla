----------------------- MODULE QuotaEnforcementProofs -----------------------
(***************************************************************************)
(* No unit of traffic is lost or counted twice, and usage.json never runs  *)
(* ahead of usage_daily.json, for any number of cycles, units, requests    *)
(* and failures.                                                           *)
(***************************************************************************)
EXTENDS QuotaEnforcement, CommonLemmas

-----------------------------------------------------------------------------
(* The sum of a ledger over its cycles.                                    *)

\* The function that SumOver defines recursively: the sums up to each cycle.
Sums(f) == CHOOSE s : s = [c \in Cycles |-> IF c = 0 THEN f[0] ELSE f[c] + s[c - 1]]

\* SumOver is the last of those sums.
LEMMA SumOverSums == ASSUME NEW f PROVE SumOver(f) = Sums(f)[MaxCycle]
  BY DEF SumOver, Sums

\* The recursion has a solution.
LEMMA SumsExist ==
  ASSUME NEW f \in [Cycles -> Nat]
  PROVE  /\ Sums(f) \in [Cycles -> Nat]
         /\ Sums(f)[0] = f[0]
         /\ \A c \in Cycles \ {0} : Sums(f)[c] = f[c] + Sums(f)[c - 1]
<1> DEFINE P(n) == \E s \in [0 .. n -> Nat] :
                      /\ s[0] = f[0]
                      /\ \A c \in 1 .. n : s[c] = f[c] + s[c - 1]
           S == {n \in Nat : n <= MaxCycle => P(n)}
<1>1. 0 \in S
  <2> DEFINE z == [c \in 0 .. 0 |-> f[0]]
  <2>1. z \in [0 .. 0 -> Nat] /\ z[0] = f[0]
    BY QuotaAssumption DEF QuotaAssumption, Cycles
  <2>2. \A c \in 1 .. 0 : FALSE
    OBVIOUS
  <2>3. P(0)
    BY <2>1, <2>2, Zenon
  <2> QED
    BY <2>3
<1>2. ASSUME NEW n \in S PROVE n + 1 \in S
  <2> SUFFICES ASSUME n + 1 <= MaxCycle PROVE P(n + 1)
    OBVIOUS
  <2>1. n \in Nat /\ n + 1 \in Cycles
    BY QuotaAssumption DEF QuotaAssumption, Cycles
  <2>2. PICK s \in [0 .. n -> Nat] : /\ s[0] = f[0]
                                     /\ \A c \in 1 .. n : s[c] = f[c] + s[c - 1]
    BY <2>1, QuotaAssumption DEF QuotaAssumption
  <2> DEFINE t == [c \in 0 .. n + 1 |-> IF c = n + 1 THEN f[n + 1] + s[n] ELSE s[c]]
  <2>3. t \in [0 .. n + 1 -> Nat]
    BY <2>1, <2>2
  <2>4. t[0] = f[0]
    BY <2>1, <2>2
  <2>5. ASSUME NEW c \in 1 .. n + 1 PROVE t[c] = f[c] + t[c - 1]
    <3>1. CASE c = n + 1
      BY <2>1, <3>1
    <3>2. CASE c # n + 1
      <4>1. c \in 1 .. n /\ c \in 0 .. n + 1 /\ c - 1 \in 0 .. n + 1 /\ c - 1 # n + 1
        BY <2>1, <3>2
      <4> QED
        BY <2>2, <3>2, <4>1
    <3> QED
      BY <3>1, <3>2
  <2> QED
    BY <2>3, <2>4, <2>5
<1>3. MaxCycle \in S
  <2> HIDE DEF P, S
  <2>1. S \subseteq Nat
    BY DEF S
  <2> QED
    BY <1>1, <1>2, <2>1, SetInduction, QuotaAssumption DEF QuotaAssumption
<1>4. PICK s \in [Cycles -> Nat] : /\ s[0] = f[0]
                                   /\ \A c \in 1 .. MaxCycle : s[c] = f[c] + s[c - 1]
  <2>1. P(MaxCycle)
    <3>1. MaxCycle <= MaxCycle
      BY QuotaAssumption DEF QuotaAssumption
    <3> HIDE DEF P
    <3> QED
      BY <1>3, <3>1
  <2> QED
    BY <2>1 DEF Cycles
<1>5. s = [c \in Cycles |-> IF c = 0 THEN f[0] ELSE f[c] + s[c - 1]]
  BY <1>4, QuotaAssumption DEF QuotaAssumption, Cycles
<1>6. Sums(f) = [c \in Cycles |-> IF c = 0 THEN f[0] ELSE f[c] + Sums(f)[c - 1]]
  BY <1>5, Zenon DEF Sums
<1> DEFINE g == Sums(f)
<1>7. g = [c \in Cycles |-> IF c = 0 THEN f[0] ELSE f[c] + g[c - 1]]
  BY <1>6
<1> HIDE DEF g
<1>8. /\ 0 \in Cycles /\ g[0] = f[0]
      /\ \A c \in Cycles \ {0} : g[c] = f[c] + g[c - 1]
  BY <1>7, QuotaAssumption DEF QuotaAssumption, Cycles
<1> DEFINE N == {n \in Nat : n <= MaxCycle => g[n] \in Nat}
<1>9. 0 \in N
  BY <1>8
<1>10. ASSUME NEW n \in N PROVE n + 1 \in N
  <2> SUFFICES ASSUME n + 1 <= MaxCycle PROVE g[n + 1] \in Nat
    OBVIOUS
  <2>1. n \in Nat /\ n + 1 \in Cycles \ {0} /\ g[n] \in Nat
    BY QuotaAssumption DEF QuotaAssumption, Cycles
  <2>2. g[n + 1] = f[n + 1] + g[n]
    BY <1>8, <2>1
  <2> QED
    BY <2>1, <2>2
<1>11. \A n \in Nat : n \in N
  <2> HIDE DEF N
  <2>1. N \subseteq Nat
    BY DEF N
  <2> QED
    BY <1>9, <1>10, <2>1, SetInduction
<1>12. g \in [Cycles -> Nat]
  <2>1. \A c \in Cycles : g[c] \in Nat
    BY <1>11, QuotaAssumption DEF QuotaAssumption, Cycles
  <2>2. g = [c \in Cycles |-> g[c]]
    BY <1>7
  <2> QED
    BY <2>1, <2>2
<1> QED
  BY <1>8, <1>12 DEF g

\* What an update of one entry does to the sums.
LEMMA SumsExcept ==
  ASSUME NEW f \in [Cycles -> Nat], NEW d \in Cycles, NEW v \in Nat
  PROVE  \A c \in Cycles : Sums([f EXCEPT ![d] = v])[c]
                              = IF c < d THEN Sums(f)[c] ELSE Sums(f)[c] - f[d] + v
<1> DEFINE h == [f EXCEPT ![d] = v]
           s == Sums(f)
           t == Sums(h)
           Q(c) == t[c] = IF c < d THEN s[c] ELSE s[c] - f[d] + v
           S == {n \in Nat : n <= MaxCycle => Q(n)}
<1>1. /\ s \in [Cycles -> Nat] /\ s[0] = f[0]
      /\ \A c \in Cycles \ {0} : s[c] = f[c] + s[c - 1]
  BY SumsExist
<1>2. h \in [Cycles -> Nat]
  OBVIOUS
<1>3. /\ t \in [Cycles -> Nat] /\ t[0] = h[0]
      /\ \A c \in Cycles \ {0} : t[c] = h[c] + t[c - 1]
  BY <1>2, SumsExist
<1>4. \A c \in Cycles : h[c] = IF c = d THEN v ELSE f[c]
  OBVIOUS
<1> HIDE DEF h, s, t
<1>5. 0 \in S
  BY <1>1, <1>3, <1>4, QuotaAssumption DEF QuotaAssumption, Cycles
<1>6. ASSUME NEW n \in S PROVE n + 1 \in S
  <2> SUFFICES ASSUME n + 1 <= MaxCycle PROVE Q(n + 1)
    OBVIOUS
  <2>1. n \in Nat /\ n + 1 \in Cycles \ {0} /\ n \in Cycles /\ d \in Nat
    BY QuotaAssumption DEF QuotaAssumption, Cycles
  <2>2. Q(n)
    BY <2>1, QuotaAssumption DEF QuotaAssumption
  <2>3. t[n + 1] = h[n + 1] + t[n] /\ s[n + 1] = f[n + 1] + s[n]
    BY <1>1, <1>3, <2>1
  <2>4. s[n] \in Nat /\ f[n + 1] \in Nat /\ f[d] \in Nat /\ t[n] \in Nat
    BY <1>1, <1>3, <2>1
  <2>5. h[n + 1] = IF n + 1 = d THEN v ELSE f[n + 1]
    BY <1>4, <2>1
  <2> QED
    BY <2>1, <2>2, <2>3, <2>4, <2>5
<1>7. \A n \in Nat : n \in S
  <2> HIDE DEF S
  <2>1. S \subseteq Nat
    BY DEF S
  <2> QED
    BY <1>5, <1>6, <2>1, SetInduction
<1>8. \A c \in Cycles : Q(c)
  <2> HIDE DEF Q
  <2> QED
    BY <1>7, QuotaAssumption DEF QuotaAssumption, Cycles
<1> QED
  BY <1>8 DEF h, s, t

\* SumOver is a natural number, at least each of the entries, and an update of
\* one entry changes it by the difference.
LEMMA SumOverFacts ==
  ASSUME NEW f \in [Cycles -> Nat]
  PROVE  /\ SumOver(f) \in Nat
         /\ \A d \in Cycles : f[d] <= SumOver(f)
         /\ \A d \in Cycles, v \in Nat :
              SumOver([f EXCEPT ![d] = v]) = SumOver(f) - f[d] + v
<1>1. MaxCycle \in Cycles /\ \A d \in Cycles : d \in Nat /\ ~(MaxCycle < d)
  BY QuotaAssumption DEF QuotaAssumption, Cycles
<1>2. SumOver(f) = Sums(f)[MaxCycle] /\ SumOver(f) \in Nat
  BY <1>1, SumOverSums, SumsExist
<1>3. ASSUME NEW d \in Cycles, NEW v \in Nat
      PROVE  SumOver([f EXCEPT ![d] = v]) = SumOver(f) - f[d] + v
  <2>1. SumOver([f EXCEPT ![d] = v]) = Sums([f EXCEPT ![d] = v])[MaxCycle]
    BY SumOverSums
  <2>2. Sums([f EXCEPT ![d] = v])[MaxCycle] = Sums(f)[MaxCycle] - f[d] + v
    BY <1>1, SumsExcept
  <2> QED
    BY <1>2, <2>1, <2>2
<1>4. ASSUME NEW d \in Cycles PROVE f[d] <= SumOver(f)
  <2> DEFINE g == [f EXCEPT ![d] = 0]
  <2>1. g \in [Cycles -> Nat]
    OBVIOUS
  <2>2. SumOver(g) = Sums(g)[MaxCycle] /\ SumOver(g) \in Nat
    BY <1>1, <2>1, SumOverSums, SumsExist
  <2>3. SumOver(g) = SumOver(f) - f[d] + 0
    BY <1>3
  <2> QED
    BY <1>2, <2>2, <2>3
<1> QED
  BY <1>2, <1>3, <1>4

\* An empty ledger sums to nothing.
LEMMA SumOverZero == SumOver([c \in Cycles |-> 0]) = 0
<1> DEFINE f == [c \in Cycles |-> 0]
           S == {n \in Nat : n <= MaxCycle => Sums(f)[n] = 0}
<1>1. f \in [Cycles -> Nat]
  OBVIOUS
<1>2. /\ Sums(f)[0] = f[0]
      /\ \A c \in Cycles \ {0} : Sums(f)[c] = f[c] + Sums(f)[c - 1]
  BY <1>1, SumsExist
<1>3. 0 \in S
  BY <1>2, QuotaAssumption DEF QuotaAssumption, Cycles
<1>4. ASSUME NEW n \in S PROVE n + 1 \in S
  BY <1>2, QuotaAssumption DEF QuotaAssumption, Cycles
<1>5. \A n \in Nat : n \in S
  <2> HIDE DEF S
  <2>1. S \subseteq Nat
    BY DEF S
  <2> QED
    BY <1>3, <1>4, <2>1, SetInduction
<1> QED
  BY <1>5, SumOverSums, QuotaAssumption DEF QuotaAssumption

-----------------------------------------------------------------------------
(* The inductive invariant.                                                *)

\* Where the units are.
Balance ==
    total = counters["hysteria"] + counters["xray"]
            + (IF lpc \in {"xray", "daily"} THEN tick.units ELSE 0)
            + SumOver(daily) + cleared + lost

\* Whoever is between reading and saving the ledgers holds usage_lock.
LedgersLocked ==
    /\ lpc \in {"hysteria", "xray", "daily", "usage", "plan"} <=> lock = "limiter"
    /\ ppc \in {"daily", "dedup", "sync"} <=> lock = "panel"

\* usage.json is behind usage_daily.json, also while only one of the two has
\* been saved; a tick begins with nothing collected.
LedgersOrdered ==
    /\ DailyCoversUsage
    /\ lpc = "hysteria" => tick.units = 0
    /\ lpc = "usage" => usage[tick.cycle] + tick.units <= daily[tick.cycle]
    /\ ppc = "daily" => usage[pcycle] = 0

IInv == TypeOK /\ Balance /\ LedgersLocked /\ LedgersOrdered

\* The type invariant in three parts: the Boolean variables, the records, the rest.
FlagsOK   == static \in BOOLEAN /\ inflight \in BOOLEAN /\ session \in BOOLEAN
RecordsOK == tick \in Ticks /\ dedup \in Dedups
RestOK ==
    /\ cycle \in Cycles
    /\ counters \in [Proxies -> 0 .. MaxUnits]
    /\ daily \in [Cycles -> 0 .. MaxUnits] /\ usage \in [Cycles -> 0 .. MaxUnits]
    /\ disabled \in {"no", "yes", "paused"}
    /\ lock \in {"free", "limiter", "panel"}
    /\ lpc \in {"idle", "hysteria", "xray", "daily", "usage", "plan", "kick",
                "claim", "dispatch", "release", "sent"}
    /\ ppc \in {"idle", "daily", "dedup", "sync", "kick"}
    /\ pop \in {"reset", "disable", "pause", "enable"} /\ pcycle \in Cycles
    /\ ops \in 0 .. MaxOps /\ faults \in 0 .. MaxFaults
    /\ total \in 0 .. MaxUnits /\ cleared \in 0 .. MaxUnits /\ lost \in 0 .. MaxUnits

\* The values that the two records take.
LEMMA BlankRecords == 0 \in Cycles /\ NoTick \in Ticks /\ NoDedup \in Dedups
  BY QuotaAssumption DEF QuotaAssumption, Cycles, Ticks, NoTick, Dedups, NoDedup

\* The edits of a tick.
LEMMA TickUpdates ==
  ASSUME NEW t \in Ticks, NEW c \in Cycles, NEW b \in BOOLEAN
  PROVE  [NoTick EXCEPT !.cycle = c] \in Ticks /\ [t EXCEPT !.kick = b, !.units = 0] \in Ticks
<1>1. \A r \in Ticks : [r EXCEPT !.cycle = c] \in Ticks
  BY DEF Ticks
<1>2. \A r \in Ticks : [r EXCEPT !.units = 0] \in Ticks
  BY QuotaAssumption DEF QuotaAssumption, Ticks
<1>3. [t EXCEPT !.kick = b] \in Ticks
  BY DEF Ticks
<1>4. [t EXCEPT !.kick = b, !.units = 0] = [[t EXCEPT !.kick = b] EXCEPT !.units = 0]
  OBVIOUS
<1> QED
  BY <1>1, <1>2, <1>3, <1>4, BlankRecords

\* The edits of an alert record.
LEMMA DedupUpdates ==
  ASSUME NEW d \in Dedups
  PROVE  /\ [d EXCEPT !.state = "orphaned"] \in Dedups
         /\ [d EXCEPT !.state = "sent", !.old = FALSE] \in Dedups
         /\ [d EXCEPT !.old = TRUE] \in Dedups
  BY DEF Dedups

\* At the start every ledger is empty.
LEMMA InitIInv == Init => IInv
<1> SUFFICES ASSUME Init PROVE IInv
  OBVIOUS
<1> USE QuotaAssumption DEF QuotaAssumption, Init
<1>1. TypeOK
  <2>1. FlagsOK
    BY Zenon DEF FlagsOK
  <2>2. RecordsOK
    BY DEF RecordsOK, Cycles, Ticks, NoTick, Dedups, NoDedup
  <2>3. RestOK
    BY DEF RestOK, Cycles, Proxies
  <2> QED
    BY <2>1, <2>2, <2>3, Zenon DEF TypeOK, FlagsOK, RecordsOK, RestOK
<1>2. Balance
  BY SumOverZero DEF Balance, Proxies
<1>3. LedgersLocked /\ LedgersOrdered
  BY DEF LedgersLocked, LedgersOrdered, DailyCoversUsage
<1> QED
  BY <1>1, <1>2, <1>3 DEF IInv

\* Every step preserves the invariant.
LEMMA NextIInv == IInv /\ [Next]_vars => IInv'
<1> SUFFICES ASSUME IInv, [Next]_vars PROVE IInv'
  OBVIOUS
<1> USE QuotaAssumption DEF QuotaAssumption, IInv, TypeOK, LedgersLocked, LedgersOrdered,
        DailyCoversUsage, Ticks, NoTick, Dedups, NoDedup, Proxies, ledgerVars, netVars,
        limVars, panelVars, Fault, NoFault, EndTick, EndPanel
<1>0. daily \in [Cycles -> Nat] /\ usage \in [Cycles -> Nat]
  OBVIOUS
<1>s. /\ SumOver(daily) \in Nat /\ \A d \in Cycles : daily[d] <= SumOver(daily)
      /\ \A d \in Cycles, v \in Nat :
            SumOver([daily EXCEPT ![d] = v]) = SumOver(daily) - daily[d] + v
  BY <1>0, SumOverFacts
<1>1. CASE Begin
  <2> USE <1>1 DEF Begin
  <2>a. FlagsOK'
    BY Zenon DEF FlagsOK
  <2>b. RecordsOK'
    <3> HIDE DEF Ticks, NoTick, Dedups, NoDedup
    <3> QED
      BY TickUpdates DEF RecordsOK
  <2>c. RestOK'
    BY <1>s DEF RestOK, Balance
  <2>1. TypeOK'
    BY <2>a, <2>b, <2>c, Zenon DEF FlagsOK, RecordsOK, RestOK
  <2>2. Balance'
    BY <1>s DEF Balance
  <2>3. LedgersLocked' /\ LedgersOrdered'
    BY <1>s
  <2> QED
    BY <2>1, <2>2, <2>3
<1>2. CASE CollectHysteria
  BY <1>2, <1>s DEF CollectHysteria, Collect, Balance
<1>3. CASE CollectXray
  BY <1>3, <1>s DEF CollectXray, Collect, Balance
<1>4. CASE SaveDaily
  <2> USE <1>4 DEF SaveDaily
  <2>a. FlagsOK'
    BY Zenon DEF FlagsOK
  <2>b. RecordsOK'
    BY <1>s DEF RecordsOK, Balance
  <2>c. RestOK'
    BY <1>s DEF RestOK, Balance
  <2>1. TypeOK'
    BY <2>a, <2>b, <2>c, Zenon DEF FlagsOK, RecordsOK, RestOK
  <2>2. Balance'
    <3>1. tick.cycle \in Cycles /\ daily[tick.cycle] + tick.units \in Nat
      OBVIOUS
    <3>2. daily' = [daily EXCEPT ![tick.cycle] = daily[tick.cycle] + tick.units]
      OBVIOUS
    <3>3. SumOver(daily') = SumOver(daily) - daily[tick.cycle]
                              + (daily[tick.cycle] + tick.units)
      BY <1>s, <3>1, <3>2, ZenonT(40)
    <3> QED
      BY <1>0, <1>s, <3>1, <3>3 DEF Balance
  <2>3. LedgersLocked' /\ LedgersOrdered'
    BY <1>s
  <2> QED
    BY <2>1, <2>2, <2>3
<1>5. CASE SaveUsage
  BY <1>5, <1>s DEF SaveUsage, Balance
<1>6. CASE SaveFails
  <2> USE <1>6 DEF SaveFails
  <2>a. FlagsOK'
    BY Zenon DEF FlagsOK
  <2>b. RecordsOK'
    <3> HIDE DEF Ticks, NoTick, Dedups, NoDedup
    <3> QED
      BY BlankRecords DEF RecordsOK
  <2>c. RestOK'
    BY <1>s DEF RestOK, Balance
  <2>1. TypeOK'
    BY <2>a, <2>b, <2>c, Zenon DEF FlagsOK, RecordsOK, RestOK
  <2>2. Balance'
    BY <1>s DEF Balance
  <2>3. LedgersLocked' /\ LedgersOrdered'
    BY <1>s
  <2> QED
    BY <2>1, <2>2, <2>3
<1>7. CASE ApplyPlan
  <2> USE <1>7 DEF ApplyPlan, Authorized
  <2>a. FlagsOK'
    BY Zenon DEF FlagsOK
  <2>b. RecordsOK'
    <3> HIDE DEF Ticks, NoTick, Dedups, NoDedup
    <3> QED
      BY TickUpdates DEF RecordsOK
  <2>c. RestOK'
    BY <1>s DEF RestOK, Balance
  <2>1. TypeOK'
    BY <2>a, <2>b, <2>c, Zenon DEF FlagsOK, RecordsOK, RestOK
  <2>2. Balance'
    BY <1>s DEF Balance
  <2>3. LedgersLocked' /\ LedgersOrdered'
    BY <1>s
  <2> QED
    BY <2>1, <2>2, <2>3
<1>8. CASE Kick
  <2> USE <1>8 DEF Kick
  <2>a. FlagsOK'
    BY Zenon DEF FlagsOK
  <2>b. RecordsOK'
    BY <1>s DEF RecordsOK, Balance
  <2>c. RestOK'
    BY <1>s DEF RestOK, Balance
  <2>1. TypeOK'
    BY <2>a, <2>b, <2>c, Zenon DEF FlagsOK, RecordsOK, RestOK
  <2>2. Balance'
    BY <1>s DEF Balance
  <2>3. LedgersLocked' /\ LedgersOrdered'
    BY <1>s
  <2> QED
    BY <2>1, <2>2, <2>3
<1>9. CASE NoAlert
  <2> USE <1>9 DEF NoAlert
  <2>a. FlagsOK'
    BY Zenon DEF FlagsOK
  <2>b. RecordsOK'
    <3> HIDE DEF Ticks, NoTick, Dedups, NoDedup
    <3> QED
      BY BlankRecords DEF RecordsOK
  <2>c. RestOK'
    BY <1>s DEF RestOK, Balance
  <2>1. TypeOK'
    BY <2>a, <2>b, <2>c, Zenon DEF FlagsOK, RecordsOK, RestOK
  <2>2. Balance'
    BY <1>s DEF Balance
  <2>3. LedgersLocked' /\ LedgersOrdered'
    BY <1>s
  <2> QED
    BY <2>1, <2>2, <2>3
<1>10. CASE ClaimAlert
  BY <1>10 DEF ClaimAlert, Balance
<1>11. CASE Dispatch
  BY <1>11 DEF Dispatch, Balance
<1>12. CASE Finish
  <2> USE <1>12 DEF Finish
  <2>a. FlagsOK'
    BY Zenon DEF FlagsOK
  <2>b. RecordsOK'
    <3> HIDE DEF Ticks, NoTick, Dedups, NoDedup
    <3> QED
      BY BlankRecords, DedupUpdates DEF RecordsOK
  <2>c. RestOK'
    BY <1>s DEF RestOK, Balance
  <2>1. TypeOK'
    BY <2>a, <2>b, <2>c, Zenon DEF FlagsOK, RecordsOK, RestOK
  <2>2. Balance'
    BY <1>s DEF Balance
  <2>3. LedgersLocked' /\ LedgersOrdered'
    BY <1>s
  <2> QED
    BY <2>1, <2>2, <2>3
<1>13. CASE LimiterCrash
  <2> USE <1>13 DEF LimiterCrash
  <2>a. FlagsOK'
    BY Zenon DEF FlagsOK
  <2>b. RecordsOK'
    <3> HIDE DEF Ticks, NoTick, Dedups, NoDedup
    <3> QED
      BY BlankRecords, DedupUpdates DEF RecordsOK
  <2>c. RestOK'
    BY <1>s DEF RestOK, Balance
  <2>1. TypeOK'
    BY <2>a, <2>b, <2>c, Zenon DEF FlagsOK, RecordsOK, RestOK
  <2>2. Balance'
    BY <1>s DEF Balance
  <2>3. LedgersLocked' /\ LedgersOrdered'
    BY <1>s
  <2> QED
    BY <2>1, <2>2, <2>3
<1>14. CASE ClaimExpires
  <2> USE <1>14 DEF ClaimExpires
  <2>a. FlagsOK'
    BY Zenon DEF FlagsOK
  <2>b. RecordsOK'
    <3> HIDE DEF Ticks, NoTick, Dedups, NoDedup
    <3> QED
      BY DedupUpdates DEF RecordsOK
  <2>c. RestOK'
    BY <1>s DEF RestOK, Balance
  <2>1. TypeOK'
    BY <2>a, <2>b, <2>c, Zenon DEF FlagsOK, RecordsOK, RestOK
  <2>2. Balance'
    BY <1>s DEF Balance
  <2>3. LedgersLocked' /\ LedgersOrdered'
    BY <1>s
  <2> QED
    BY <2>1, <2>2, <2>3
<1>15. CASE ResetUsage
  BY <1>15 DEF ResetUsage, PanelBegins, Balance
<1>16. ASSUME NEW o \in {"disable", "pause", "enable"}, NEW v \in {"no", "yes", "paused"},
              SetDisabled(o, v)
       PROVE  IInv'
  BY <1>16 DEF SetDisabled, PanelBegins, Balance
<1>17. CASE ZeroDaily
  <2> USE <1>17 DEF ZeroDaily
  <2>a. FlagsOK'
    BY Zenon DEF FlagsOK
  <2>b. RecordsOK'
    BY <1>s DEF RecordsOK, Balance
  <2>c. RestOK'
    BY <1>s DEF RestOK, Balance
  <2>1. TypeOK'
    BY <2>a, <2>b, <2>c, Zenon DEF FlagsOK, RecordsOK, RestOK
  <2>2. Balance'
    <3>1. pcycle \in Cycles /\ 0 \in Nat /\ daily' = [daily EXCEPT ![pcycle] = 0]
      OBVIOUS
    <3>2. SumOver([daily EXCEPT ![pcycle] = 0]) = SumOver(daily) - daily[pcycle] + 0
      BY <1>s, <3>1, Zenon
    <3>3. SumOver(daily') = SumOver(daily) - daily[pcycle] + 0
      BY <3>1, <3>2
    <3> QED
      BY <1>0, <1>s, <3>1, <3>3 DEF Balance
  <2>3. LedgersLocked' /\ LedgersOrdered'
    BY <1>s
  <2> QED
    BY <2>1, <2>2, <2>3
<1>18. CASE ClearDedup
  <2> USE <1>18 DEF ClearDedup
  <2>a. FlagsOK'
    BY Zenon DEF FlagsOK
  <2>b. RecordsOK'
    <3> HIDE DEF Ticks, NoTick, Dedups, NoDedup
    <3> QED
      BY BlankRecords DEF RecordsOK
  <2>c. RestOK'
    BY <1>s DEF RestOK, Balance
  <2>1. TypeOK'
    BY <2>a, <2>b, <2>c, Zenon DEF FlagsOK, RecordsOK, RestOK
  <2>2. Balance'
    BY <1>s DEF Balance
  <2>3. LedgersLocked' /\ LedgersOrdered'
    BY <1>s
  <2> QED
    BY <2>1, <2>2, <2>3
<1>19. CASE PanelSync
  <2> USE <1>19 DEF PanelSync, Authorized
  <2>a. FlagsOK'
    BY Zenon DEF FlagsOK
  <2>b. RecordsOK'
    BY <1>s DEF RecordsOK, Balance
  <2>c. RestOK'
    BY BlankRecords DEF RestOK, Balance
  <2>1. TypeOK'
    BY <2>a, <2>b, <2>c, Zenon DEF FlagsOK, RecordsOK, RestOK
  <2>2. Balance'
    BY <1>s DEF Balance
  <2>3. LedgersLocked' /\ LedgersOrdered'
    BY <1>s
  <2> QED
    BY <2>1, <2>2, <2>3
<1>20. CASE PanelKick
  <2> USE <1>20 DEF PanelKick
  <2>a. FlagsOK'
    BY Zenon DEF FlagsOK
  <2>b. RecordsOK'
    BY <1>s DEF RecordsOK, Balance
  <2>c. RestOK'
    BY BlankRecords DEF RestOK, Balance
  <2>1. TypeOK'
    BY <2>a, <2>b, <2>c, Zenon DEF FlagsOK, RecordsOK, RestOK
  <2>2. Balance'
    BY <1>s DEF Balance
  <2>3. LedgersLocked' /\ LedgersOrdered'
    BY <1>s
  <2> QED
    BY <2>1, <2>2, <2>3
<1>21. CASE PanelFails
  <2> USE <1>21 DEF PanelFails
  <2>a. FlagsOK'
    BY Zenon DEF FlagsOK
  <2>b. RecordsOK'
    BY <1>s DEF RecordsOK, Balance
  <2>c. RestOK'
    BY BlankRecords DEF RestOK, Balance
  <2>1. TypeOK'
    BY <2>a, <2>b, <2>c, Zenon DEF FlagsOK, RecordsOK, RestOK
  <2>2. Balance'
    BY <1>s DEF Balance
  <2>3. LedgersLocked' /\ LedgersOrdered'
    BY <1>s
  <2> QED
    BY <2>1, <2>2, <2>3
<1>22. CASE PanelCrash
  <2> USE <1>22 DEF PanelCrash
  <2>a. FlagsOK'
    BY Zenon DEF FlagsOK
  <2>b. RecordsOK'
    BY <1>s DEF RecordsOK, Balance
  <2>c. RestOK'
    BY BlankRecords DEF RestOK, Balance
  <2>1. TypeOK'
    BY <2>a, <2>b, <2>c, Zenon DEF FlagsOK, RecordsOK, RestOK
  <2>2. Balance'
    BY <1>s DEF Balance
  <2>3. LedgersLocked' /\ LedgersOrdered'
    BY <1>s
  <2> QED
    BY <2>1, <2>2, <2>3
<1>23. CASE Authenticate
  BY <1>23 DEF Authenticate, Balance
<1>24. CASE Connect
  <2> USE <1>24 DEF Connect
  <2>a. FlagsOK'
    BY Zenon DEF FlagsOK
  <2>b. RecordsOK'
    BY <1>s DEF RecordsOK, Balance
  <2>c. RestOK'
    BY <1>s DEF RestOK, Balance
  <2>1. TypeOK'
    BY <2>a, <2>b, <2>c, Zenon DEF FlagsOK, RecordsOK, RestOK
  <2>2. Balance'
    BY <1>s DEF Balance
  <2>3. LedgersLocked' /\ LedgersOrdered'
    BY <1>s
  <2> QED
    BY <2>1, <2>2, <2>3
<1>25. ASSUME NEW p \in Proxies, Transfer(p) PROVE IInv'
  BY <1>25, <1>s DEF Transfer, Balance
<1>26. CASE NextCycle
  BY <1>26, SMTT(30) DEF NextCycle, Cycles, Balance
<1>27. CASE UNCHANGED vars
  BY <1>27 DEF vars, Balance
<1> QED
  BY <1>1, <1>2, <1>3, <1>4, <1>5, <1>6, <1>7, <1>8, <1>9, <1>10, <1>11, <1>12, <1>13,
     <1>14, <1>15, <1>16, <1>17, <1>18, <1>19, <1>20, <1>21, <1>22, <1>23, <1>24, <1>25,
     <1>26, <1>27 DEF Next, LimiterStep, PanelRequest, PanelStep

-----------------------------------------------------------------------------
(* The theorems.                                                           *)

(* The inductive invariant holds in every reachable state, whatever the    *)
(* quota, the number of cycles, requests and failures: whoever rewrites a  *)
(* ledger holds usage_lock until it is saved.                              *)
THEOREM LedgersInductive == Spec => []IInv
<1>1. Init => IInv
  BY InitIInv
<1>2. IInv /\ [Next]_vars => IInv'
  BY NextIInv
<1> QED
  BY <1>1, <1>2, PTL DEF Spec

(* The limiter's destructive read, its two saves, the panel's resets and   *)
(* every crash between them leave each transferred unit in exactly one     *)
(* place: a counter, the tick's memory, usage_daily.json, a reset or a     *)
(* failure that is accounted for.                                          *)
THEOREM UnitsAreConserved == Spec => []UnitsConserved
<1>1. IInv => UnitsConserved
  BY DEF IInv, Balance, UnitsConserved
<1> QED
  BY <1>1, LedgersInductive, PTL

(* usage.json never shows usage that usage_daily.json, from which quotas   *)
(* are enforced, does not have: the limiter saves daily first, the panel's *)
(* reset zeroes daily last, and a failure may stop either after any save.  *)
THEOREM DailyLedgerCoversUsage == Spec => []DailyCoversUsage
<1>1. IInv => DailyCoversUsage
  BY DEF IInv, LedgersOrdered
<1> QED
  BY <1>1, LedgersInductive, PTL
=============================================================================

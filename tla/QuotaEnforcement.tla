-------------------------- MODULE QuotaEnforcement --------------------------
(***************************************************************************)
(* Usage accounting and enforcement for one metered user: a tick of        *)
(* hysteria/traffic_limiter.py, the panel's reset, pause and toggle        *)
(* handlers, the quota check of authentication and the alert               *)
(* deduplication of hysteria/alerts.py.                                    *)
(*                                                                         *)
(* A tick holds usage_lock while it clears the traffic counters of         *)
(* Hysteria and Xray, adds what it got to usage_daily.json and usage.json  *)
(* and applies the static access plan.  It kicks, and alerts from the      *)
(* daily usage it has in memory, after the lock is released.  Usage is     *)
(* counted in units, per billing cycle; a cycle and its key coincide here  *)
(* (BillingCycle is about where they do not).  How a changed static config *)
(* comes into force (reload_async) is StaticReload's subject: here it      *)
(* serves from the moment it is written.                                   *)
(***************************************************************************)
EXTENDS Naturals

CONSTANTS
    Quota,       \* usage at which the user is cut off, in units
    MaxUnits,    \* bound on the units transferred in a behaviour
    MaxCycle,    \* bound on the billing cycles
    MaxOps,      \* bound on the panel requests
    PanelOps,    \* the panel requests that occur
    MaxFaults,   \* bound on the failures injected in a behaviour
    FaultKinds   \* the failures injected

ASSUME QuotaAssumption ==
    /\ Quota \in Nat \ {0} /\ MaxUnits \in Nat /\ MaxCycle \in Nat
    /\ MaxOps \in Nat /\ MaxFaults \in Nat
    /\ PanelOps \subseteq {"reset", "disable", "pause", "enable"}

VARIABLES
    cycle,       \* the billing cycle of the current date
    counters,    \* units the two proxies have not been asked for yet
    daily,       \* usage_daily.json, summed per cycle
    usage,       \* usage.json, per cycle
    disabled,    \* "no", "yes" or "paused" (with disabled_until)
    static,      \* the generated configs authorize the user
    inflight,    \* an accepted Hysteria authentication, session not yet there
    session,     \* a Hysteria session
    lock,        \* holder of usage_lock
    lpc,         \* the limiter: what it does next
    tick,        \* the limiter: what the running tick has in memory
    dedup,       \* the quota_100 entry of alert_state.json
    ppc, pop, pcycle,  \* the panel request: stage, operation, its cycle
    ops, faults,
    total,       \* history: units transferred
    cleared,     \* history: units removed by resets
    lost         \* history: units lost to a failure after the counters were cleared

ledgerVars == <<daily, usage>>
netVars    == <<inflight, session, counters, total>>
limVars    == <<lpc, tick>>
panelVars  == <<ppc, pop, pcycle>>
vars == <<cycle, ledgerVars, disabled, static, netVars, lock, limVars, dedup,
          panelVars, ops, faults, cleared, lost>>

Cycles  == 0 .. MaxCycle
Proxies == {"hysteria", "xray"}

\* units: traffic collected; used: daily usage of the cycle after the commit;
\* kick: the user is in to_kick.
Ticks  == [cycle : Cycles, units : 0 .. MaxUnits, used : 0 .. MaxUnits,
           kick : BOOLEAN]
NoTick == [cycle |-> 0, units |-> 0, used |-> 0, kick |-> FALSE]

\* Every claim bears a token and a time: the running tick's own is claimed, a
\* dead one's orphaned; old: CLAIM_TTL_SECONDS have passed.
Dedups  == [state : {"none", "claimed", "orphaned", "sent"}, key : Cycles,
            old : BOOLEAN]
NoDedup == [state |-> "none", key |-> 0, old |-> FALSE]

TypeOK ==
    /\ cycle \in Cycles
    /\ counters \in [Proxies -> 0 .. MaxUnits]
    /\ daily \in [Cycles -> 0 .. MaxUnits] /\ usage \in [Cycles -> 0 .. MaxUnits]
    /\ disabled \in {"no", "yes", "paused"}
    /\ static \in BOOLEAN /\ inflight \in BOOLEAN /\ session \in BOOLEAN
    /\ lock \in {"free", "limiter", "panel"}
    /\ lpc \in {"idle", "hysteria", "xray", "daily", "usage", "plan", "kick",
                "claim", "dispatch", "release", "sent"}
    /\ tick \in Ticks /\ dedup \in Dedups
    /\ ppc \in {"idle", "daily", "dedup", "sync", "kick"}
    /\ pop \in {"reset", "disable", "pause", "enable"} /\ pcycle \in Cycles
    /\ ops \in 0 .. MaxOps /\ faults \in 0 .. MaxFaults
    /\ total \in 0 .. MaxUnits /\ cleared \in 0 .. MaxUnits /\ lost \in 0 .. MaxUnits

Init ==
    /\ cycle = 0
    /\ counters = [p \in Proxies |-> 0]
    /\ daily = [c \in Cycles |-> 0] /\ usage = [c \in Cycles |-> 0]
    /\ disabled = "no" /\ static = TRUE /\ inflight = FALSE /\ session = FALSE
    /\ lock = "free"
    /\ lpc = "idle" /\ tick = NoTick
    /\ dedup = NoDedup
    /\ ppc = "idle" /\ pop = "reset" /\ pcycle = 0
    /\ ops = 0 /\ faults = 0
    /\ total = 0 /\ cleared = 0 /\ lost = 0

Fault(kind) ==
    /\ kind \in FaultKinds
    /\ faults < MaxFaults
    /\ faults' = faults + 1

NoFault == UNCHANGED faults

-----------------------------------------------------------------------------
(* One tick of the limiter.                                                *)

\* Take usage_lock, validate the state files, end a pause that has run out.
Begin ==
    /\ lpc = "idle" /\ lock = "free"
    /\ lock' = "limiter" /\ lpc' = "hysteria"
    /\ tick' = [NoTick EXCEPT !.cycle = cycle]
    /\ \/ UNCHANGED disabled
       \/ disabled = "paused" /\ disabled' = "no"
    /\ UNCHANGED <<cycle, ledgerVars, static, netVars, dedup, panelVars, ops,
                   faults, cleared, lost>>

\* Return-and-clear one proxy's counters.  A failed call may have cleared them.
Collect(p, next) ==
    /\ lpc = p
    /\ \/ /\ tick' = [tick EXCEPT !.units = @ + counters[p]]
          /\ counters' = [counters EXCEPT ![p] = 0]
          /\ UNCHANGED lost /\ NoFault
       \/ /\ Fault("api") /\ UNCHANGED tick
          /\ \/ UNCHANGED <<counters, lost>>
             \/ /\ counters' = [counters EXCEPT ![p] = 0]
                /\ lost' = lost + counters[p]
    /\ lpc' = next
    /\ UNCHANGED <<cycle, ledgerVars, disabled, static, inflight, session, total,
                   lock, dedup, panelVars, ops, cleared>>

CollectHysteria == Collect("hysteria", "xray")
CollectXray     == Collect("xray", "daily")

SaveDailyAbsolute ==
    /\ lpc = "daily"
    /\ daily' = [daily EXCEPT ![tick.cycle] = tick.units]
    /\ tick' = [tick EXCEPT !.used = tick.units]
    /\ lpc' = "usage"
    /\ UNCHANGED <<cycle, usage, disabled, static, netVars, lock, dedup,
                   panelVars, ops, faults, cleared, lost>>

\* usage_daily.json, the authoritative ledger, is committed first.
SaveDaily ==
    /\ lpc = "daily"
    /\ daily' = [daily EXCEPT ![tick.cycle] = @ + tick.units]
    /\ tick' = [tick EXCEPT !.used = daily[tick.cycle] + tick.units]
    /\ lpc' = "usage"
    /\ UNCHANGED <<cycle, usage, disabled, static, netVars, lock, dedup,
                   panelVars, ops, faults, cleared, lost>>

\* Then the legacy summary usage.json.
SaveUsage ==
    /\ lpc = "usage"
    /\ usage' = [usage EXCEPT ![tick.cycle] = @ + tick.units]
    /\ lpc' = "plan"
    /\ UNCHANGED <<cycle, daily, disabled, static, netVars, lock, tick, dedup,
                   panelVars, ops, faults, cleared, lost>>

\* A state file is bad (found before the counters are read) or a save fails, in
\* the last case perhaps after the file was replaced.  _fail_closed_static_access
\* stops the static proxies, if it can, and the tick ends.
SaveFails ==
    /\ lpc \in {"hysteria", "daily", "usage"} /\ Fault("save")
    /\ \/ /\ lost' = IF lpc = "daily" THEN lost + tick.units ELSE lost
          /\ UNCHANGED ledgerVars
       \/ /\ lpc = "daily" /\ daily' = [daily EXCEPT ![tick.cycle] = @ + tick.units]
          /\ UNCHANGED <<usage, lost>>
       \/ /\ lpc = "usage" /\ usage' = [usage EXCEPT ![tick.cycle] = @ + tick.units]
          /\ UNCHANGED <<daily, lost>>
    /\ static' \in {static, FALSE}
    /\ lpc' = "idle" /\ tick' = NoTick /\ lock' = "free"
    /\ UNCHANGED <<cycle, disabled, netVars, dedup, panelVars, ops, cleared>>

Authorized(used) == disabled = "no" /\ used < Quota

ApplyPlanKicksQuotaOnly ==
    /\ lpc = "plan"
    /\ \/ static' = Authorized(tick.used) /\ NoFault
       \/ static' = FALSE /\ Fault("apply")
    /\ tick' = [tick EXCEPT !.kick = tick.used >= Quota, !.units = 0]
    /\ lpc' = "kick" /\ lock' = "free"
    /\ UNCHANGED <<cycle, ledgerVars, disabled, netVars, dedup, panelVars, ops,
                   cleared, lost>>

\* build_static_access_plan and _apply_static_access_plan, then unlock.  A plan
\* that cannot be applied stops the proxy.
ApplyPlan ==
    /\ lpc = "plan"
    /\ \/ static' = Authorized(tick.used) /\ NoFault
       \/ static' = FALSE /\ Fault("apply")
    /\ tick' = [tick EXCEPT !.kick = ~Authorized(tick.used), !.units = 0]
    /\ lpc' = "kick" /\ lock' = "free"
    /\ UNCHANGED <<cycle, ledgerVars, disabled, netVars, dedup, panelVars, ops,
                   cleared, lost>>

\* POST /kick; its result is not looked at.
Kick ==
    /\ lpc = "kick"
    /\ IF tick.kick
         THEN \/ session' = FALSE /\ NoFault
              \/ UNCHANGED session /\ Fault("kick")
         ELSE UNCHANGED session /\ NoFault
    /\ lpc' = "claim"
    /\ UNCHANGED <<cycle, ledgerVars, disabled, static, inflight, counters, total,
                   lock, tick, dedup, panelVars, ops, cleared, lost>>

\* The tick is over without an alert.
EndTick == lpc' = "idle" /\ tick' = NoTick

\* claim_alert: nothing to report, already reported, or a claim is pending.
NoAlert ==
    /\ lpc = "claim"
    /\ \/ tick.used < Quota
       \/ dedup.state # "none" /\ dedup.key = tick.cycle /\ ~dedup.old
    /\ EndTick
    /\ UNCHANGED <<cycle, ledgerVars, disabled, static, netVars, lock, dedup,
                   panelVars, ops, faults, cleared, lost>>

ClaimAlert ==
    /\ lpc = "claim" /\ tick.used >= Quota
    /\ dedup.state = "none" \/ dedup.key # tick.cycle \/ dedup.old
    /\ dedup' = [state |-> "claimed", key |-> tick.cycle, old |-> FALSE]
    /\ lpc' = "dispatch"
    /\ UNCHANGED <<cycle, ledgerVars, disabled, static, netVars, lock, tick,
                   panelVars, ops, faults, cleared, lost>>

\* Send outside the lock.
Dispatch ==
    /\ lpc = "dispatch"
    /\ \/ lpc' = "sent" /\ NoFault
       \/ lpc' = "release" /\ Fault("transport")
    /\ UNCHANGED <<cycle, ledgerVars, disabled, static, netVars, lock, tick, dedup,
                   panelVars, ops, cleared, lost>>

\* finish_alert_claim: only if the claim is still ours.
Finish ==
    /\ lpc \in {"sent", "release"}
    /\ dedup' = IF dedup.state # "claimed" THEN dedup
                  ELSE IF lpc = "release" THEN NoDedup
                  ELSE [dedup EXCEPT !.state = "sent", !.old = FALSE]
    /\ EndTick
    /\ UNCHANGED <<cycle, ledgerVars, disabled, static, netVars, lock,
                   panelVars, ops, faults, cleared, lost>>

\* The oneshot service dies: what it had collected is gone, its claim stays.
LimiterCrash ==
    /\ lpc # "idle" /\ Fault("crash")
    /\ lost' = IF lpc \in {"xray", "daily"} THEN lost + tick.units ELSE lost
    /\ lock' = IF lock = "limiter" THEN "free" ELSE lock
    /\ dedup' = IF dedup.state = "claimed"
                  THEN [dedup EXCEPT !.state = "orphaned"] ELSE dedup
    /\ EndTick
    /\ UNCHANGED <<cycle, ledgerVars, disabled, static, netVars, panelVars, ops,
                   cleared>>

ClaimStays ==
    dedup.state \in {"claimed", "orphaned"} /\ UNCHANGED vars

\* CLAIM_TTL_SECONDS after it was made a claim is free for the next tick, its
\* owner dead or not; until then it stays, and its owner may still finish it.
ClaimExpires ==
    /\ dedup.state \in {"claimed", "orphaned"}
    /\ dedup' = [dedup EXCEPT !.old = TRUE]
    /\ UNCHANGED <<cycle, ledgerVars, disabled, static, netVars, lock, limVars,
                   panelVars, ops, faults, cleared, lost>>

-----------------------------------------------------------------------------
(* Panel requests.                                                         *)

EndPanel == ppc' = "idle" /\ pop' = "reset" /\ pcycle' = 0

\* Take usage_lock for request o, which goes on at stage.
PanelBegins(o, stage) ==
    /\ ppc = "idle" /\ lock = "free" /\ ops < MaxOps
    /\ o \in PanelOps
    /\ pop' = o /\ ppc' = stage /\ pcycle' = cycle
    /\ lock' = "panel" /\ ops' = ops + 1

ResetUsageKeepsUsage ==
    /\ PanelBegins("reset", "daily")
    /\ UNCHANGED <<cycle, ledgerVars, disabled, static, netVars, limVars, dedup,
                   faults, cleared, lost>>

\* A reset saves usage.json first.
ResetUsage ==
    /\ PanelBegins("reset", "daily")
    /\ usage' = [usage EXCEPT ![cycle] = 0]
    /\ UNCHANGED <<cycle, daily, disabled, static, netVars, limVars, dedup, faults,
                   cleared, lost>>

\* A pause or a toggle saves users.json.
SetDisabled(o, value) ==
    /\ PanelBegins(o, "sync")
    /\ disabled' = value
    /\ UNCHANGED <<cycle, ledgerVars, static, netVars, limVars, dedup, faults,
                   cleared, lost>>

\* _zero_cycle_daily_hourly_for.
ZeroDaily ==
    /\ ppc = "daily"
    /\ daily' = [daily EXCEPT ![pcycle] = 0]
    /\ cleared' = cleared + daily[pcycle]
    /\ ppc' = "dedup"
    /\ UNCHANGED <<cycle, usage, disabled, static, netVars, lock, limVars,
                   dedup, pop, pcycle, ops, faults, lost>>

\* clear_quota_dedup_transaction, best effort.
ClearDedup ==
    /\ ppc = "dedup"
    /\ \/ dedup' = NoDedup /\ NoFault
       \/ UNCHANGED dedup /\ Fault("alerts")
    /\ ppc' = "sync"
    /\ UNCHANGED <<cycle, ledgerVars, disabled, static, netVars, lock, limVars,
                   pop, pcycle, ops, cleared, lost>>

\* _sync_static_access_from_users, then unlock.  A reset plans for the moment it
\* began, the other requests for the current one.
PanelSync ==
    /\ ppc = "sync"
    /\ static' = Authorized(daily[IF pop = "reset" THEN pcycle ELSE cycle])
    /\ lock' = "free"
    /\ IF pop \in {"disable", "pause"}
         THEN ppc' = "kick" /\ UNCHANGED <<pop, pcycle>>
         ELSE EndPanel
    /\ UNCHANGED <<cycle, ledgerVars, disabled, netVars, limVars, dedup, ops,
                   faults, cleared, lost>>

\* A save of the request fails or the plan cannot be applied: do_POST stops the
\* static proxies, if it has to and can, and answers 503.  The rest of the request,
\* the kick included, is not reached.
PanelFails ==
    /\ \/ ppc = "idle" /\ lock = "free" /\ Fault("save")
       \/ ppc = "daily" /\ Fault("save")
       \/ ppc = "sync" /\ Fault("apply")
    /\ static' \in {static, FALSE}
    /\ lock' = "free" /\ EndPanel
    /\ UNCHANGED <<cycle, ledgerVars, disabled, netVars, limVars, dedup, ops,
                   cleared, lost>>

\* hy_kick, once.
PanelKick ==
    /\ ppc = "kick"
    /\ \/ session' = FALSE /\ NoFault
       \/ UNCHANGED session /\ Fault("kick")
    /\ EndPanel
    /\ UNCHANGED <<cycle, ledgerVars, disabled, static, inflight, counters, total,
                   lock, limVars, dedup, ops, cleared, lost>>

\* The panel dies: the rest of the request is not done.
PanelCrash ==
    /\ ppc # "idle" /\ Fault("crash")
    /\ lock' = IF lock = "panel" THEN "free" ELSE lock
    /\ EndPanel
    /\ UNCHANGED <<cycle, ledgerVars, disabled, static, netVars, limVars, dedup,
                   ops, cleared, lost>>

-----------------------------------------------------------------------------
(* Clients and the calendar.                                               *)

\* auth_backend.authenticate reads users.json and usage_daily.json.
Authenticate ==
    /\ Authorized(daily[cycle]) /\ ~inflight
    /\ inflight' = TRUE
    /\ UNCHANGED <<cycle, ledgerVars, disabled, static, session, counters, total,
                   lock, limVars, dedup, panelVars, ops, faults, cleared, lost>>

Connect ==
    /\ inflight /\ inflight' = FALSE /\ session' = TRUE
    /\ UNCHANGED <<cycle, ledgerVars, disabled, static, counters, total, lock,
                   limVars, dedup, panelVars, ops, faults, cleared, lost>>

Transfer(p) ==
    /\ IF p = "hysteria" THEN session ELSE static
    /\ total < MaxUnits /\ total' = total + 1
    /\ counters' = [counters EXCEPT ![p] = @ + 1]
    /\ UNCHANGED <<cycle, ledgerVars, disabled, static, inflight, session, lock,
                   limVars, dedup, panelVars, ops, faults, cleared, lost>>

NextCycle ==
    /\ cycle < MaxCycle /\ cycle' = cycle + 1
    /\ UNCHANGED <<ledgerVars, disabled, static, netVars, lock, limVars, dedup,
                   panelVars, ops, faults, cleared, lost>>

-----------------------------------------------------------------------------
LimiterStep ==
    \/ CollectHysteria \/ CollectXray \/ SaveDaily \/ SaveUsage \/ SaveFails
    \/ ApplyPlan \/ Kick \/ NoAlert \/ ClaimAlert \/ Dispatch \/ Finish

PanelRequest ==
    \/ ResetUsage
    \/ SetDisabled("disable", "yes") \/ SetDisabled("pause", "paused")
    \/ SetDisabled("enable", "no")

PanelStep == ZeroDaily \/ ClearDedup \/ PanelSync \/ PanelKick

Next ==
    \/ Begin \/ LimiterStep \/ LimiterCrash \/ ClaimExpires
    \/ PanelRequest \/ PanelStep \/ PanelFails \/ PanelCrash
    \/ Authenticate \/ Connect \/ \E p \in Proxies : Transfer(p)
    \/ NextCycle

Spec == Init /\ [][Next]_vars

(* Fairness: the timer starts a tick again and again and a tick is never   *)
(* stuck (every call has a timeout), the panel finishes what it began, an  *)
(* accepted authentication becomes a session, a claim gets old.            *)
Fairness ==
    /\ SF_vars(Begin) /\ WF_vars(LimiterStep) /\ WF_vars(PanelStep)
    /\ WF_vars(Connect) /\ WF_vars(ClaimExpires)

FairSpec == Spec /\ Fairness

-----------------------------------------------------------------------------
(* Properties.                                                             *)

SumOver(f) == LET s[c \in Cycles] == IF c = 0 THEN f[0] ELSE f[c] + s[c - 1]
              IN  s[MaxCycle]

(* Every unit transferred is still in a proxy's counter, in the running    *)
(* tick's memory, in usage_daily.json, was removed by a reset, or was lost *)
(* to a failure between the destructive read and the save: the limiter and *)
(* the panel never overwrite each other's ledger.                          *)
UnitsConserved ==
    /\ TypeOK
    /\ total = counters["hysteria"] + counters["xray"]
               + (IF lpc \in {"xray", "daily"} THEN tick.units ELSE 0)
               + SumOver(daily) + cleared + lost

(* "Daily is the authoritative quota ledger": usage.json never shows usage *)
(* that quota enforcement, which reads usage_daily.json, does not see.     *)
DailyCoversUsage == \A c \in Cycles : usage[c] <= daily[c]

OverQuota == daily[cycle] >= Quota
CutOff    == ~static /\ ~session

(* A user who stays over quota, or disabled or paused, in the end has no   *)
(* way in and gets none back: neither from the static configs nor from a   *)
(* session, although the panel kicks only once and nobody looks whether a  *)
(* kick worked or whom a session is being set up for during it.            *)
ShutOutForGood ==
    <>[]OverQuota \/ <>[](disabled # "no") => <>[]CutOff

(* Reaching the quota is reported, whatever died or failed on the way.     *)
OverQuotaReported ==
    OverQuota ~> (dedup.state = "sent" /\ dedup.key = cycle) \/ ~OverQuota

=============================================================================

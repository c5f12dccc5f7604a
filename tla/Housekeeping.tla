------------------------------ MODULE Housekeeping ------------------------------
(***************************************************************************)
(* The two periodic jobs that look at the clock, Metrics and Watchdog, and *)
(* what goes on around them: calls are made and devices are heard of, or   *)
(* not, whichever jobs run.  main.py starts metrics_loop; nothing in the   *)
(* repository starts watchdog_loop, so which jobs run is a parameter.      *)
(***************************************************************************)
EXTENDS Metrics, Watchdog

Jobs == {"metrics", "watchdog"}

CONSTANT Sites  \* each: the jobs that run, the calls made, the devices there

ASSUME HousekeepingAssumption ==
  Sites \subseteq [jobs : SUBSET Jobs, calls : SUBSET Calls, devices : SUBSET Devices]

VARIABLE site

vars == <<now, metricsVars, watchdogVars, site>>

Init ==
  /\ now = 0
  /\ site \in Sites
  /\ MetricsInit
  /\ WatchdogInit

Advance ==
  /\ TimePasses
  /\ UNCHANGED <<metricsVars, watchdogVars, site>>

OnlyMetrics(A) == A /\ UNCHANGED <<now, watchdogVars, site>>
OnlyWatchdog(A) == A /\ UNCHANGED <<now, metricsVars, site>>

Next ==
  \/ Advance
  \/ \E c \in site.calls : OnlyMetrics(CallStep(c))
  \/ \E d \in site.devices : OnlyWatchdog(DeviceStep(d))
  \/ "metrics" \in site.jobs /\ OnlyMetrics(MetricsNext)
  \/ "watchdog" \in site.jobs /\ OnlyWatchdog(WatchdogNext)

Spec == Init /\ [][Next]_vars

\* Time passes and the loops wake after every sleep.  Runs that fail are not
\* forced, those of the rollup are bounded; an UPDATE of the watchdog that is
\* tried for ever succeeds in the end.
Rolls(p) == "metrics" \in site.jobs /\ OnlyMetrics(RollupTick(p))
Wakes(w) == "watchdog" \in site.jobs /\ OnlyWatchdog(TakeCutoff(w))
Watches(w) == "watchdog" \in site.jobs /\ OnlyWatchdog(MarkOffline(w))
FairSpec ==
  /\ Spec
  /\ WF_vars(Advance)
  /\ \A p \in Rollers : WF_vars(Rolls(p))
  /\ \A w \in Watchers : WF_vars(Wakes(w)) /\ SF_vars(Watches(w))

-----------------------------------------------------------------------------
TypeOK == now \in Nat /\ site \in Sites /\ MetricsTypeOK /\ WatchdogTypeOK

\* Ticks that overlap may leave an older count, and one that fails a hash
\* unwritten, but where the rollup runs the next ones repair it: when calls
\* and clock rest, the hash of every campaign with a call in the window counts
\* its calls.
RollupConverges ==
  "metrics" \in site.jobs =>
    <>[](\A k \in Campaigns : CallsSince(k, now) # {} => HashIsCurrent(k))

\* Where the watchdog runs, and main.py runs it nowhere, a device that is not
\* offline and was not heard of for too long is found, although every run
\* uses the clock of its start, and runs may fail.
Unnoticed(d) == device[d].status = "online" /\ IsSilent(device[d])
SilentGoesOffline ==
  "watchdog" \in site.jobs => \A d \in Devices : Unnoticed(d) ~> ~Unnoticed(d)
=============================================================================

------------------------------- MODULE Watchdog -------------------------------
(***************************************************************************)
(* The device watchdog (isales_worker/device_watchdog.py): each run takes  *)
(* the time, and then one UPDATE sets every device offline that was not    *)
(* seen since a threshold before it.  Devices are written by others too:   *)
(* the modem controller's heartbeat, and the PATCH of an unplugged device. *)
(***************************************************************************)
EXTENDS Clock

CONSTANTS
  Devices,
  Watchers,     \* the processes that run watchdog_loop
  Threshold,    \* STALE_THRESHOLD_SECONDS, in units of the clock
  Never         \* NULL in device.last_seen_at

VARIABLES
  device,  \* the device rows
  cutoff   \* the cutoff of a run under way, by watcher

ASSUME WatchdogAssumption == Threshold \in Nat /\ Never \notin Int

watchdogVars == <<device, cutoff>>

\* "online" stands for every status but offline.
DeviceRows == [status : {"online", "offline"}, last_seen_at : Nat \cup {Never}]

WatchdogInit ==
  /\ device = [d \in Devices |-> [status |-> "online", last_seen_at |-> Never]]
  /\ cutoff = [w \in Watchers |-> Asleep]

-----------------------------------------------------------------------------
Heartbeat(d) ==
  /\ device' = [device EXCEPT ![d] = [status |-> "online", last_seen_at |-> now]]
  /\ UNCHANGED cutoff

Unplug(d) ==
  /\ device' = [device EXCEPT ![d].status = "offline"]
  /\ UNCHANGED cutoff

TakeCutoff(w) ==
  /\ cutoff[w] = Asleep
  /\ cutoff' = [cutoff EXCEPT ![w] = now - Threshold]
  /\ UNCHANGED device

\* Mutants: a device seen at the cutoff counts as stale; the comparison is
\* the wrong way round.
IsStaleAtCutoff(row, before) ==
  row.last_seen_at # Never /\ row.last_seen_at <= before /\ row.status # "offline"
IsStaleReversed(row, before) ==
  row.last_seen_at # Never /\ row.last_seen_at > before /\ row.status # "offline"

IsStale(row, before) ==
  row.last_seen_at # Never /\ row.last_seen_at < before /\ row.status # "offline"

\* The WHERE clause sees the rows as they are when the UPDATE runs.
MarkOffline(w) ==
  /\ cutoff[w] # Asleep
  /\ device' = [d \in Devices |->
                  IF IsStale(device[d], cutoff[w])
                  THEN [device[d] EXCEPT !.status = "offline"] ELSE device[d]]
  /\ cutoff' = [cutoff EXCEPT ![w] = Asleep]

\* An exception is logged, and the loop sleeps until its next run.
WatchdogFails(w) ==
  /\ cutoff[w] # Asleep
  /\ cutoff' = [cutoff EXCEPT ![w] = Asleep]
  /\ UNCHANGED device

WatchdogRun(w) == TakeCutoff(w) \/ MarkOffline(w)

DeviceStep(d) == Heartbeat(d) \/ Unplug(d)
WatchdogNext == \E w \in Watchers : WatchdogRun(w) \/ WatchdogFails(w)

-----------------------------------------------------------------------------
WatchdogTypeOK ==
  /\ device \in [Devices -> DeviceRows]
  /\ cutoff \in [Watchers -> Int \cup {Asleep}]

IsSilent(row) == row.last_seen_at # Never /\ now - row.last_seen_at > Threshold

\* However long a run waits between its clock and its UPDATE, and whoever
\* writes the device meanwhile, it only takes devices offline that were seen
\* once and were silent for longer than the threshold when it wrote.
OnlySilentGoOffline ==
  [][\A d \in Devices :
       (\E w \in Watchers : MarkOffline(w)) /\ device'[d] # device[d] =>
         /\ device[d].status = "online" /\ device'[d].status = "offline"
         /\ device'[d].last_seen_at = device[d].last_seen_at
         /\ IsSilent(device[d])]_watchdogVars
=============================================================================

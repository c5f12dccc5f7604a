-------------------------- MODULE HousekeepingProofs --------------------------
(***************************************************************************)
(* The theorems of Housekeeping, for every set of calls, campaigns,        *)
(* devices and processes, and every window and threshold: the rollup's     *)
(* hashes never say more than the calls of their window, and the watchdog  *)
(* takes only devices offline that are silent when it writes.              *)
(***************************************************************************)
EXTENDS Housekeeping, FiniteSetTheorems, TLAPS

\* The aggregate h, as the tick that computed it could have seen the calls of
\* campaign k, and as every later state still bears out.
Tells(h, k) ==
  /\ h.updated_at <= now
  /\ h.total \in 1..Cardinality(CallsSince(k, h.updated_at))
  /\ h.goal_achieved <= h.total
  /\ h.goal_achieved <= Cardinality(Achieving(CallsSince(k, h.updated_at)))

\* What a tick knows is from the past, and what it selected or wrote tells.
RollupInv ==
  /\ DOMAIN rows = Rollers
  /\ \A p \in Rollers : when[p] # Asleep => when[p] <= now
  /\ \A p \in Rollers, k \in Campaigns, h \in Aggregates :
       k \in DOMAIN rows[p] /\ rows[p][k] = h => Tells(h, k)
  /\ \A k \in Campaigns, h \in Aggregates :
       hash[k] # NoHash /\ hash[k] = h => Tells(h, k)

\* The cutoff of a run lies in the past by the threshold at least.
WatchInv ==
  \A w \in Watchers : cutoff[w] # Asleep => cutoff[w] <= now - Threshold

IInv == TypeOK /\ RollupInv /\ WatchInv

-----------------------------------------------------------------------------
LEMMA SiteTypes ==
  ASSUME site \in Sites
  PROVE  site.calls \subseteq Calls /\ site.devices \subseteq Devices
BY HousekeepingAssumption

LEMMA CallSetsAreFinite ==
  ASSUME NEW S \in SUBSET Calls
  PROVE  /\ IsFiniteSet(S) /\ Cardinality(S) \in Nat
         /\ S # {} => Cardinality(S) >= 1
         /\ \A T \in SUBSET S : Cardinality(T) \in Nat /\ Cardinality(T) <= Cardinality(S)
<1>1. IsFiniteSet(S)
  BY FS_Subset, MetricsAssumption
<1>2. Cardinality(S) \in Nat /\ (Cardinality(S) = 0 <=> S = {})
  BY <1>1, FS_CardinalityType, FS_EmptySet
<1>3. \A T \in SUBSET S : IsFiniteSet(T) /\ Cardinality(T) <= Cardinality(S)
  BY <1>1, FS_Subset
<1>4. \A T \in SUBSET S : Cardinality(T) \in Nat
  BY <1>3, FS_CardinalityType
<1>5. QED
  BY <1>1, <1>2, <1>3, <1>4

\* What the SELECT aggregates is what the property speaks of.
LEMMA CountedIsCallsSince ==
  ASSUME MetricsTypeOK, NEW k \in Campaigns, NEW t \in Int
  PROVE  Counted(k, t) = CallsSince(k, t)
<1>1. \A c \in Calls : call[c].created_at \in Nat
  BY DEF MetricsTypeOK, CallRows
<1>2. \A c \in Calls : call[c].created_at + Window >= t <=> t - call[c].created_at <= Window
  BY <1>1, MetricsAssumption
<1>3. QED
  BY <1>2, Zenon DEF Counted, CallsSince

LEMMA AggregateType ==
  ASSUME NEW k \in Campaigns, NEW t \in Nat
  PROVE  Aggregate(k, t) \in Aggregates
<1>1. Counted(k, t) \in SUBSET Calls
  BY DEF Counted
<1>2. Achieving(Counted(k, t)) \in SUBSET Calls
  BY <1>1 DEF Achieving
<1>3. Cardinality(Counted(k, t)) \in Nat /\ Cardinality(Achieving(Counted(k, t))) \in Nat
  BY <1>1, <1>2, CallSetsAreFinite
<1>4. QED
  BY <1>3 DEF Aggregate, Aggregates

LEMMA AggregateTells ==
  ASSUME MetricsTypeOK, now \in Nat, NEW k \in Campaigns, NEW t \in Nat, t <= now,
         Counted(k, t) # {}
  PROVE  \A h \in Aggregates : Aggregate(k, t) = h => Tells(h, k)
<1> SUFFICES ASSUME NEW h \in Aggregates, Aggregate(k, t) = h
             PROVE  Tells(h, k)
  OBVIOUS
<1> DEFINE calls == CallsSince(k, t)
<1>1. /\ h.total = Cardinality(calls)
      /\ h.goal_achieved = Cardinality(Achieving(calls))
      /\ h.updated_at = t
  BY CountedIsCallsSince DEF Aggregate
<1>2. calls \in SUBSET Calls /\ calls # {} /\ Achieving(calls) \in SUBSET calls
  BY CountedIsCallsSince DEF CallsSince, Achieving
<1> HIDE DEF calls
<1>3. /\ Cardinality(calls) \in Nat /\ Cardinality(calls) >= 1
      /\ Cardinality(Achieving(calls)) \in Nat
      /\ Cardinality(Achieving(calls)) <= Cardinality(calls)
  BY <1>2, CallSetsAreFinite
<1>4. CallsSince(k, h.updated_at) = calls
  BY <1>1 DEF calls
<1>5. QED
  BY <1>1, <1>3, <1>4 DEF Tells

\* No call leaves a window, loses its end or its goal: what told a state
\* tells every later one.
LEMMA TellsForEver ==
  ASSUME MetricsTypeOK, now \in Nat, now' \in Nat, now <= now',
         \A c \in Calls :
           call[c].status = "end" =>
             /\ call'[c].status = "end"
             /\ call'[c].created_at = call[c].created_at
             /\ call[c].goal_achieved => call'[c].goal_achieved,
         NEW k \in Campaigns, NEW h \in Aggregates, Tells(h, k)
  PROVE  Tells(h, k)'
<1> DEFINE t == h.updated_at
           old == CallsSince(k, t)
           new == {c \in Calls : /\ call'[c].status = "end" /\ CampaignOf[c] = k
                                 /\ t - call'[c].created_at <= Window}
           oldGoals == Achieving(old)
           newGoals == {c \in new : call'[c].goal_achieved}
<1>1. old \in SUBSET new /\ new \in SUBSET Calls
  BY DEF CallsSince
<1>2. oldGoals \in SUBSET newGoals /\ newGoals \in SUBSET Calls
  BY <1>1 DEF Achieving, CallsSince
<1>3. /\ CallsSince(k, h.updated_at)' = new
      /\ Achieving(CallsSince(k, h.updated_at))' = newGoals
  BY DEF CallsSince, Achieving
<1> HIDE DEF new, newGoals
<1>4. /\ Cardinality(old) \in Nat /\ Cardinality(old) <= Cardinality(new)
      /\ Cardinality(new) \in Nat
  BY <1>1, CallSetsAreFinite
<1>5. /\ Cardinality(oldGoals) \in Nat /\ Cardinality(oldGoals) <= Cardinality(newGoals)
      /\ Cardinality(newGoals) \in Nat
  BY <1>2, CallSetsAreFinite
<1>6. h.updated_at \in Nat /\ h.total \in Nat /\ h.goal_achieved \in Nat
  BY DEF Aggregates
<1>7. /\ h.updated_at <= now'
      /\ h.total \in 1..Cardinality(new)
      /\ h.goal_achieved <= h.total
      /\ h.goal_achieved <= Cardinality(newGoals)
  BY <1>4, <1>5, <1>6 DEF Tells
<1>8. QED
  BY <1>3, <1>7 DEF Tells

-----------------------------------------------------------------------------
LEMMA InitEstablishes == Init => IInv
<1> SUFFICES ASSUME Init PROVE IInv
  OBVIOUS
<1>1. /\ \A k \in Campaigns : hash[k] = NoHash
      /\ \A p \in Rollers : when[p] = Asleep /\ rows[p] = <<>> /\ DOMAIN rows[p] = {}
      /\ DOMAIN rows = Rollers
      /\ \A w \in Watchers : cutoff[w] = Asleep
  BY DEF Init, MetricsInit, WatchdogInit
<1>2. TypeOK
  <2>1. now \in Nat /\ site \in Sites
    BY DEF Init
  <2>2. MetricsTypeOK
    BY <1>1 DEF Init, MetricsInit, MetricsTypeOK, CallRows, NoCallRow
  <2>3. WatchdogTypeOK
    BY DEF Init, WatchdogInit, WatchdogTypeOK, DeviceRows
  <2>4. QED
    BY <2>1, <2>2, <2>3 DEF TypeOK
<1>3. RollupInv
  BY <1>1 DEF RollupInv
<1>4. WatchInv
  BY <1>1 DEF WatchInv
<1>5. QED
  BY <1>2, <1>3, <1>4 DEF IInv

LEMMA CallKeepsType ==
  ASSUME IInv, NEW c \in Calls, CallStep(c)
  PROVE  /\ call' \in [Calls -> CallRows]
         /\ UNCHANGED <<hash, when, rows, failures>>
         /\ \A d \in Calls :
              call[d].status = "end" =>
                /\ call'[d].status = "end"
                /\ call'[d].created_at = call[d].created_at
                /\ call[d].goal_achieved => call'[d].goal_achieved
<1> USE DEF IInv, TypeOK, MetricsTypeOK, CallRows
<1>1. CASE PlaceCall(c)
  BY <1>1 DEF PlaceCall
<1>2. CASE EndCall(c)
  BY <1>2 DEF EndCall
<1>3. CASE StoreGoal(c)
  BY <1>3 DEF StoreGoal
<1>4. QED
  BY <1>1, <1>2, <1>3 DEF CallStep

\* What a step is to the rollup: its own variables rest, a call is worked on,
\* or a tick goes on while the clock rests.
LEMMA MetricsCases ==
  ASSUME IInv, [Next]_vars
  PROVE  \/ UNCHANGED metricsVars
         \/ \E c \in Calls : CallStep(c)
         \/ MetricsNext /\ now' = now
<1>1. site.calls \subseteq Calls
  BY SiteTypes DEF IInv, TypeOK
<1>2. QED
  BY <1>1 DEF Next, vars, Advance, OnlyMetrics, OnlyWatchdog

LEMMA TellsStays ==
  ASSUME IInv, [Next]_vars, now' \in Nat, now <= now',
         NEW k \in Campaigns, NEW h \in Aggregates, Tells(h, k)
  PROVE  Tells(h, k)'
<1>1. \A d \in Calls :
        call[d].status = "end" =>
          /\ call'[d].status = "end"
          /\ call'[d].created_at = call[d].created_at
          /\ call[d].goal_achieved => call'[d].goal_achieved
  <2>1. CASE call' = call
    BY <2>1
  <2>2. CASE \E c \in Calls : CallStep(c)
    BY <2>2, CallKeepsType
  <2>3. QED
    BY <2>1, <2>2, MetricsCases
    DEF metricsVars, MetricsNext, RollupTick, TakeTime, SelectRows, WriteRow, TickFails
<1>2. QED
  BY <1>1, TellsForEver DEF IInv, TypeOK

\* A step that leaves the rollup's own variables alone.
LEMMA RollupRests ==
  ASSUME IInv, [Next]_vars, now' \in Nat, now <= now', call' \in [Calls -> CallRows],
         UNCHANGED <<hash, when, rows, failures>>
  PROVE  MetricsTypeOK' /\ RollupInv'
<1>1. MetricsTypeOK'
  BY DEF IInv, TypeOK, MetricsTypeOK
<1>2. \A p \in Rollers : when'[p] # Asleep => when'[p] <= now'
  BY DEF IInv, TypeOK, MetricsTypeOK, RollupInv
<1>3. ASSUME NEW p \in Rollers, NEW k \in Campaigns, NEW h \in Aggregates,
             k \in DOMAIN rows'[p], rows'[p][k] = h
      PROVE  Tells(h, k)'
  BY <1>3, TellsStays DEF IInv, RollupInv
<1>4. ASSUME NEW k \in Campaigns, NEW h \in Aggregates, hash'[k] # NoHash, hash'[k] = h
      PROVE  Tells(h, k)'
  BY <1>4, TellsStays DEF IInv, RollupInv
<1>5. DOMAIN rows' = Rollers
  BY DEF IInv, RollupInv
<1>6. QED
  BY <1>1, <1>2, <1>3, <1>4, <1>5 DEF RollupInv

LEMMA SelectPreserves ==
  ASSUME IInv, [Next]_vars, now' = now, NEW p \in Rollers, SelectRows(p)
  PROVE  MetricsTypeOK' /\ RollupInv'
<1> DEFINE groups == {k \in Campaigns : Counted(k, when[p]) # {}}
           selected == [k \in groups |-> Aggregate(k, when[p])]
<1>1. /\ when[p] \in Nat /\ when[p] <= now /\ now \in Nat
      /\ rows' = [rows EXCEPT ![p] = selected]
      /\ when' = [when EXCEPT ![p] = Asleep]
      /\ UNCHANGED <<call, hash, failures>>
  BY DEF SelectRows, IInv, TypeOK, MetricsTypeOK, RollupInv
<1>2. DOMAIN selected = groups /\ groups \subseteq Campaigns
  OBVIOUS
<1>3. \A k \in groups : selected[k] = Aggregate(k, when[p]) /\ selected[k] \in Aggregates
  BY <1>1, AggregateType
<1>4. \A k \in groups : \A h \in Aggregates : Aggregate(k, when[p]) = h => Tells(h, k)
  BY <1>1, AggregateTells DEF IInv, TypeOK
<1> HIDE DEF selected, groups
<1>5. /\ DOMAIN rows = Rollers /\ DOMAIN rows' = Rollers
      /\ rows'[p] = selected
      /\ \A q \in Rollers : q # p => rows'[q] = rows[q]
  BY <1>1 DEF IInv, RollupInv
<1>6. MetricsTypeOK'
  BY <1>1, <1>2, <1>3, <1>5 DEF IInv, TypeOK, MetricsTypeOK
<1>7. \A q \in Rollers : when'[q] # Asleep => when'[q] <= now'
  BY <1>1 DEF IInv, TypeOK, MetricsTypeOK, RollupInv
<1>8. ASSUME NEW q \in Rollers, NEW k \in Campaigns, NEW h \in Aggregates,
             k \in DOMAIN rows'[q], rows'[q][k] = h
      PROVE  Tells(h, k)'
  <2>1. Tells(h, k)
    <3>1. CASE q = p
      BY <3>1, <1>2, <1>3, <1>4, <1>5, <1>8
    <3>2. CASE q # p
      BY <3>2, <1>5, <1>8 DEF IInv, RollupInv
    <3>3. QED
      BY <3>1, <3>2
  <2>2. QED
    BY <1>1, <2>1, TellsStays
<1>9. ASSUME NEW k \in Campaigns, NEW h \in Aggregates, hash'[k] # NoHash, hash'[k] = h
      PROVE  Tells(h, k)'
  BY <1>1, <1>9, TellsStays DEF IInv, RollupInv
<1>10. QED
  BY <1>5, <1>6, <1>7, <1>8, <1>9 DEF RollupInv

LEMMA WritePreserves ==
  ASSUME IInv, [Next]_vars, now' = now, NEW p \in Rollers, WriteRow(p)
  PROVE  MetricsTypeOK' /\ RollupInv'
<1>1. PICK j \in DOMAIN rows[p] :
        /\ hash' = [hash EXCEPT ![j] = rows[p][j]]
        /\ rows' = [rows EXCEPT ![p] = [i \in DOMAIN rows[p] \ {j} |-> rows[p][i]]]
        /\ UNCHANGED <<call, when, failures>>
  BY DEF WriteRow
<1>2. j \in Campaigns /\ rows[p][j] \in Aggregates /\ now \in Nat
  BY DEF IInv, TypeOK, MetricsTypeOK
<1>3. /\ DOMAIN rows = Rollers /\ DOMAIN rows' = Rollers
      /\ \A q \in Rollers : /\ DOMAIN rows'[q] \subseteq DOMAIN rows[q]
                            /\ \A k \in DOMAIN rows'[q] : rows'[q][k] = rows[q][k]
  BY <1>1 DEF IInv, RollupInv
<1>4. MetricsTypeOK'
  BY <1>1, <1>2, <1>3 DEF IInv, TypeOK, MetricsTypeOK
<1>5. \A q \in Rollers : when'[q] # Asleep => when'[q] <= now'
  BY <1>1 DEF IInv, TypeOK, MetricsTypeOK, RollupInv
<1>6. ASSUME NEW q \in Rollers, NEW k \in Campaigns, NEW h \in Aggregates,
             k \in DOMAIN rows'[q], rows'[q][k] = h
      PROVE  Tells(h, k)'
  BY <1>2, <1>3, <1>6, TellsStays DEF IInv, RollupInv
<1>7. ASSUME NEW k \in Campaigns, NEW h \in Aggregates, hash'[k] # NoHash, hash'[k] = h
      PROVE  Tells(h, k)'
  <2>1. Tells(h, k)
    <3>1. CASE k = j
      BY <3>1, <1>1, <1>2, <1>7 DEF IInv, TypeOK, MetricsTypeOK, RollupInv
    <3>2. CASE k # j
      BY <3>2, <1>1, <1>7 DEF IInv, TypeOK, MetricsTypeOK, RollupInv
    <3>3. QED
      BY <3>1, <3>2
  <2>2. QED
    BY <1>2, <2>1, TellsStays
<1>8. QED
  BY <1>3, <1>4, <1>5, <1>6, <1>7 DEF RollupInv

\* Taking the time, and giving a tick up.
LEMMA TickKeepsRollup ==
  ASSUME IInv, [Next]_vars, now' = now, NEW p \in Rollers, TakeTime(p) \/ TickFails(p)
  PROVE  MetricsTypeOK' /\ RollupInv'
<1>1. /\ now \in Nat /\ UNCHANGED <<call, hash>>
      /\ failures' \in Nat
      /\ when' \in [Rollers -> Nat \cup {Asleep}]
      /\ \A q \in Rollers : when'[q] # Asleep => when'[q] <= now'
  BY DEF TakeTime, TickFails, IInv, TypeOK, MetricsTypeOK, RollupInv
<1>2. /\ DOMAIN rows' = Rollers
      /\ \A q \in Rollers : rows'[q] = rows[q] \/ DOMAIN rows'[q] = {}
  BY DEF TakeTime, TickFails, IInv, RollupInv
<1>3. MetricsTypeOK'
  BY <1>1, <1>2 DEF IInv, TypeOK, MetricsTypeOK
<1>4. ASSUME NEW q \in Rollers, NEW k \in Campaigns, NEW h \in Aggregates,
             k \in DOMAIN rows'[q], rows'[q][k] = h
      PROVE  Tells(h, k)'
  BY <1>1, <1>2, <1>4, TellsStays DEF IInv, RollupInv
<1>5. ASSUME NEW k \in Campaigns, NEW h \in Aggregates, hash'[k] # NoHash, hash'[k] = h
      PROVE  Tells(h, k)'
  BY <1>1, <1>5, TellsStays DEF IInv, RollupInv
<1>6. QED
  BY <1>1, <1>2, <1>3, <1>4, <1>5 DEF RollupInv

LEMMA WatchdogPreserves ==
  ASSUME IInv, WatchdogNext \/ (\E d \in Devices : DeviceStep(d)), now' = now
  PROVE  WatchdogTypeOK' /\ WatchInv'
<1>1. /\ now \in Nat /\ Threshold \in Nat /\ Asleep \notin Int
      /\ device \in [Devices -> DeviceRows]
      /\ cutoff \in [Watchers -> Int \cup {Asleep}]
      /\ \A w \in Watchers : cutoff[w] # Asleep => cutoff[w] <= now - Threshold
  BY WatchdogAssumption, ClockAssumption DEF IInv, TypeOK, WatchdogTypeOK, WatchInv
<1>2. CASE \E d \in Devices : DeviceStep(d)
  BY <1>1, <1>2 DEF DeviceStep, Heartbeat, Unplug, WatchdogTypeOK, WatchInv, DeviceRows
<1>3. CASE \E w \in Watchers : TakeCutoff(w)
  BY <1>1, <1>3 DEF TakeCutoff, WatchdogTypeOK, WatchInv
<1>4. CASE \E w \in Watchers : MarkOffline(w)
  <2>1. PICK w \in Watchers : MarkOffline(w)
    BY <1>4
  <2>2. device' \in [Devices -> DeviceRows]
    BY <1>1, <2>1 DEF MarkOffline, DeviceRows
  <2>3. QED
    BY <1>1, <2>1, <2>2 DEF MarkOffline, WatchdogTypeOK, WatchInv
<1>5. CASE \E w \in Watchers : WatchdogFails(w)
  BY <1>1, <1>5 DEF WatchdogFails, WatchdogTypeOK, WatchInv
<1>6. QED
  BY <1>2, <1>3, <1>4, <1>5 DEF WatchdogNext, WatchdogRun

LEMMA Inductive == IInv /\ [Next]_vars => IInv'
<1> SUFFICES ASSUME IInv, [Next]_vars
             PROVE  IInv'
  OBVIOUS
<1>1. /\ now \in Nat /\ site \in Sites /\ MetricsTypeOK /\ WatchdogTypeOK
      /\ RollupInv /\ WatchInv
      /\ call \in [Calls -> CallRows]
  BY DEF IInv, TypeOK, MetricsTypeOK
<1>2. now' \in Nat /\ now <= now' /\ site' = site
  BY <1>1 DEF Next, vars, Advance, TimePasses, OnlyMetrics, OnlyWatchdog
<1>3. MetricsTypeOK' /\ RollupInv'
  <2>1. CASE UNCHANGED metricsVars
    BY <2>1, <1>1, <1>2, RollupRests DEF metricsVars
  <2>2. CASE MetricsNext /\ now' = now
    <3>1. CASE \E p \in Rollers : TakeTime(p) \/ TickFails(p)
      BY <3>1, <2>2, TickKeepsRollup
    <3>2. CASE \E p \in Rollers : SelectRows(p)
      BY <3>2, <2>2, SelectPreserves
    <3>3. CASE \E p \in Rollers : WriteRow(p)
      BY <3>3, <2>2, WritePreserves
    <3>4. QED
      BY <2>2, <3>1, <3>2, <3>3 DEF MetricsNext, RollupTick
  <2>3. CASE \E c \in Calls : CallStep(c)
    BY <2>3, <1>2, CallKeepsType, RollupRests
  <2>4. QED
    BY <2>1, <2>2, <2>3, MetricsCases
<1>4. WatchdogTypeOK' /\ WatchInv'
  <2>1. CASE UNCHANGED watchdogVars
    BY <2>1, <1>1, <1>2, WatchdogAssumption
    DEF watchdogVars, WatchdogTypeOK, WatchInv
  <2>2. CASE (WatchdogNext \/ \E d \in Devices : DeviceStep(d)) /\ now' = now
    BY <2>2, WatchdogPreserves
  <2>3. site.devices \subseteq Devices
    BY <1>1, SiteTypes
  <2>4. QED
    BY <2>1, <2>2, <2>3 DEF Next, vars, Advance, OnlyMetrics, OnlyWatchdog
<1>5. QED
  BY <1>1, <1>2, <1>3, <1>4 DEF IInv, TypeOK

-----------------------------------------------------------------------------
\* The three parts of the invariant hold in every reachable state.
THEOREM Invariance == Spec => []IInv
BY InitEstablishes, Inductive, PTL DEF Spec

\* Every row, aggregate and clock keeps its type.
THEOREM TypeCorrect == Spec => []TypeOK
BY Invariance, PTL DEF IInv

\* However ticks of several processes interleave, fail or write late, a
\* campaign's hash never counts a call outside the window of its updated_at
\* nor a goal that no such call reached.
THEOREM HashesAreTrue == Spec => []HashesTellTheirWindow
<1>1. IInv => HashesTellTheirWindow
  <2> SUFFICES ASSUME IInv, NEW k \in Campaigns, hash[k] # NoHash
               PROVE  Tells(hash[k], k)
    BY Zenon DEF HashesTellTheirWindow, Tells
  <2>1. hash[k] \in Aggregates
    BY DEF IInv, TypeOK, MetricsTypeOK
  <2>2. QED
    BY <2>1 DEF IInv, RollupInv
<1>2. QED
  BY <1>1, Invariance, PTL

\* The UPDATE of the watchdog may run long after its cutoff was taken, but
\* what it takes offline was silent for longer than the threshold.
THEOREM OnlySilentDevices == Spec => OnlySilentGoOffline
<1> DEFINE Silent ==
      \A d \in Devices :
        (\E w \in Watchers : MarkOffline(w)) /\ device'[d] # device[d] =>
          /\ device[d].status = "online" /\ device'[d].status = "offline"
          /\ device'[d].last_seen_at = device[d].last_seen_at
          /\ IsSilent(device[d])
<1>1. IInv => Silent
  <2> SUFFICES ASSUME IInv, NEW d \in Devices, NEW w \in Watchers, MarkOffline(w),
                      device'[d] # device[d]
               PROVE  /\ device[d].status = "online" /\ device'[d].status = "offline"
                      /\ device'[d].last_seen_at = device[d].last_seen_at
                      /\ IsSilent(device[d])
    OBVIOUS
  <2>1. /\ now \in Nat /\ Threshold \in Nat /\ Never \notin Int
        /\ device[d] \in DeviceRows
        /\ cutoff[w] \in Int /\ cutoff[w] <= now - Threshold
    BY WatchdogAssumption DEF IInv, TypeOK, WatchdogTypeOK, WatchInv, MarkOffline
  <2>2. IsStale(device[d], cutoff[w]) /\ device'[d] = [device[d] EXCEPT !.status = "offline"]
    BY DEF MarkOffline
  <2>3. QED
    BY <2>1, <2>2 DEF IsStale, IsSilent, DeviceRows
<1>2. QED
  BY <1>1, Invariance, PTL DEF OnlySilentGoOffline
=============================================================================

-------------------------------- MODULE Metrics --------------------------------
(***************************************************************************)
(* The 7-day rollup (isales_worker/metrics.py): a tick aggregates, in one  *)
(* SELECT, the calls of the last days by campaign, and then writes one     *)
(* Redis hash per row.  Several processes tick without knowing each other. *)
(*                                                                         *)
(* Of the hash's fields, `answered` and `avg_duration` are left out: they  *)
(* are sums over the same rows as total_calls.                             *)
(***************************************************************************)
EXTENDS Clock, FiniteSets

CONSTANTS
  Calls, Campaigns,
  CampaignOf,   \* call_record.campaign_id
  Rollers,      \* the processes that run metrics_loop
  Window,       \* 7 days, in units of the clock
  MaxFailures,  \* bound on the ticks that fail
  NoHash

ASSUME MetricsAssumption ==
  /\ IsFiniteSet(Calls)
  /\ CampaignOf \in [Calls -> Campaigns]
  /\ Window \in Nat
  /\ MaxFailures \in Nat

VARIABLES
  call,      \* call_record and its call_summary
  hash,      \* isales:metrics:7d:<campaign>, NoHash for no key
  when,      \* the time of a tick that has not selected yet
  rows,      \* what a tick has selected and not yet written, by campaign
  failures   \* history: ticks that failed

metricsVars == <<call, hash, when, rows, failures>>

CallRows ==
  [status : {"none", "placed", "end"}, created_at : Nat, goal_achieved : BOOLEAN]
NoCallRow ==
  [status |-> "none", created_at |-> 0, goal_achieved |-> FALSE]
Aggregates == [total : Nat, goal_achieved : Nat, updated_at : Nat]

MetricsInit ==
  /\ call = [c \in Calls |-> NoCallRow]
  /\ hash = [k \in Campaigns |-> NoHash]
  /\ when = [p \in Rollers |-> Asleep]
  /\ rows = [p \in Rollers |-> <<>>]
  /\ failures = 0

-----------------------------------------------------------------------------
PlaceCall(c) ==
  /\ call[c].status = "none"
  /\ call' = [call EXCEPT ![c] = [@ EXCEPT !.status = "placed", !.created_at = now]]
  /\ UNCHANGED <<hash, when, rows, failures>>

\* The engine ends the call; its summary comes with the worker's pipeline,
\* at once or later.
EndCall(c) ==
  /\ call[c].status = "placed"
  /\ call' = [call EXCEPT ![c].status = "end"]
  /\ UNCHANGED <<hash, when, rows, failures>>

StoreGoal(c) ==
  /\ call[c].status = "end" /\ ~call[c].goal_achieved
  /\ call' = [call EXCEPT ![c].goal_achieved = TRUE]
  /\ UNCHANGED <<hash, when, rows, failures>>

\* Mutant: the window is not tested.
CountedSinceEver(k, t) == {c \in Calls : CampaignOf[c] = k /\ call[c].status = "end"}

\* WHERE status = 'end' AND created_at >= when - 7 days
Counted(k, t) ==
  {c \in Calls : /\ CampaignOf[c] = k
                 /\ call[c].status = "end"
                 /\ call[c].created_at + Window >= t}

Achieving(calls) == {c \in calls : call[c].goal_achieved}

\* Mutant: the hash is stamped with the start of its window.
AggregateStampedSince(k, t) ==
  [total |-> Cardinality(Counted(k, t)),
   goal_achieved |-> Cardinality(Achieving(Counted(k, t))),
   updated_at |-> t - Window]

Aggregate(k, t) ==
  [total |-> Cardinality(Counted(k, t)),
   goal_achieved |-> Cardinality(Achieving(Counted(k, t))),
   updated_at |-> t]

TakeTime(p) ==
  /\ when[p] = Asleep /\ rows[p] = <<>>
  /\ when' = [when EXCEPT ![p] = now]
  /\ UNCHANGED <<call, hash, rows, failures>>

\* GROUP BY: a campaign without a call in the window has no row.
SelectRows(p) ==
  /\ when[p] # Asleep
  /\ rows' = [rows EXCEPT ![p] =
                [k \in {k \in Campaigns : Counted(k, when[p]) # {}} |->
                   Aggregate(k, when[p])]]
  /\ when' = [when EXCEPT ![p] = Asleep]
  /\ UNCHANGED <<call, hash, failures>>

\* Mutant: a key that is there is left alone.
WriteRowOnce(p) ==
  \E k \in DOMAIN rows[p] :
    /\ hash' = [hash EXCEPT ![k] = IF @ = NoHash THEN rows[p][k] ELSE @]
    /\ rows' = [rows EXCEPT ![p] = [j \in DOMAIN @ \ {k} |-> @[j]]]
    /\ UNCHANGED <<call, when, failures>>

\* One HSET, in whatever order the SELECT gave its rows.
WriteRow(p) ==
  \E k \in DOMAIN rows[p] :
    /\ hash' = [hash EXCEPT ![k] = rows[p][k]]
    /\ rows' = [rows EXCEPT ![p] = [j \in DOMAIN @ \ {k} |-> @[j]]]
    /\ UNCHANGED <<call, when, failures>>

\* The SELECT or an HSET fails, or the process is stopped: the rest of the
\* rows is dropped.
TickFails(p) ==
  /\ when[p] # Asleep \/ rows[p] # <<>>
  /\ failures < MaxFailures
  /\ when' = [when EXCEPT ![p] = Asleep]
  /\ rows' = [rows EXCEPT ![p] = <<>>]
  /\ failures' = failures + 1
  /\ UNCHANGED <<call, hash>>

RollupTick(p) == TakeTime(p) \/ SelectRows(p) \/ WriteRow(p)

CallStep(c) == PlaceCall(c) \/ EndCall(c) \/ StoreGoal(c)
MetricsNext == \E p \in Rollers : RollupTick(p) \/ TickFails(p)

-----------------------------------------------------------------------------
MetricsTypeOK ==
  /\ call \in [Calls -> CallRows]
  /\ hash \in [Campaigns -> Aggregates \cup {NoHash}]
  /\ when \in [Rollers -> Nat \cup {Asleep}]
  /\ \A p \in Rollers :
       /\ DOMAIN rows[p] \subseteq Campaigns
       /\ \A k \in DOMAIN rows[p] : rows[p][k] \in Aggregates
  /\ failures \in Nat

\* The calls that ended and that are not older than the window at time t.
CallsSince(k, t) ==
  {c \in Calls : /\ call[c].status = "end" /\ CampaignOf[c] = k
                 /\ t - call[c].created_at <= Window}

\* A hash never counts a call that was older than the window at its
\* updated_at, nor a goal no such call reached, however late it was written
\* and whatever was written before it.  And it never says that a campaign had
\* no calls: once they have all left the window it keeps its last hash, though
\* a test says "No row for this campaign within window -> no key".
HashesTellTheirWindow ==
  \A k \in Campaigns :
    LET h == hash[k]
        calls == CallsSince(k, h.updated_at)
    IN h # NoHash =>
         /\ h.updated_at <= now
         /\ h.total \in 1..Cardinality(calls)
         /\ h.goal_achieved <= h.total
         /\ h.goal_achieved <= Cardinality(Achieving(calls))

\* The hash counts the calls of the window that ends now.
HashIsCurrent(k) ==
  LET calls == CallsSince(k, now)
  IN hash[k] = [total |-> Cardinality(calls),
                goal_achieved |-> Cardinality(Achieving(calls)), updated_at |-> now]
=============================================================================

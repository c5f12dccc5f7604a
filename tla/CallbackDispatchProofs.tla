------------------------- MODULE CallbackDispatchProofs -------------------------
(***************************************************************************)
(* The theorems of CallbackDispatch, for every finite set of configs and   *)
(* every set of scenarios.                                                 *)
(***************************************************************************)
EXTENDS CallbackDispatch, FiniteSetTheorems, TLAPS

\* Only a config that matches has a task that is not over at once.
OnlyMatchingWork ==
  \A k \in Configs :
    step[k] \in {"inserting", "sending", "saving", "raised"} => k \in Matching

\* Until all tasks have begun no answer of the database is seen: the first
\* one that inserts has the session, every later one is refused.
Opening ==
  ~AllBegun =>
    /\ stage = "gather"
    /\ \A k \in Configs : step[k] \in {"created", "inserting", "returned", "raised"}
    /\ \A k \in Matching : step[k] # "created" => flushing # Nobody
SecondIsRefused ==
  \A a, b \in Matching :
    a # b /\ step[a] # "created" /\ step[b] # "created" =>
      \E k \in Configs : step[k] = "raised"

\* The session holds what the tasks have inserted, until it is closed.
RowsInserted ==
  stage # "failed" => rows = {k \in Matching : step[k] # "created"}

\* What has happened to the tasks when the stage is past its gather.
StageFollowsTasks ==
  /\ stage \in {"commit", "ended"} => \A k \in Configs : step[k] = "returned"
  /\ stage = "failed" =>
       AllBegun /\ (\/ \E k \in Configs : step[k] = "raised"
                    \/ \A k \in Configs : step[k] = "returned")

\* A task that has not been at its request has made none; only a config that
\* can be sent gets there, and does not return without its request.
SentWhenPast ==
  \A k \in Configs :
    /\ sent[k] \in {0, 1}
    /\ step[k] \in {"created", "inserting", "sending"} => sent[k] = 0
    /\ step[k] = "sending" \/ sent[k] > 0 => kind[k] = "sendable"
    /\ step[k] \in {"saving", "returned"} /\ kind[k] = "sendable" => sent[k] = 1

\* Of the configs that match only the first one keeps the session; the others
\* raise before they make a request.
Survives(k) == step[k] \notin {"created", "raised"} \/ sent[k] > 0
OneSurvives ==
  \A a, b \in Matching : Survives(a) /\ Survives(b) => a = b

IInv ==
  /\ TypeOK /\ OnlyMatchingWork /\ Opening /\ SecondIsRefused
  /\ RowsInserted /\ StageFollowsTasks /\ SentWhenPast /\ OneSurvives
  /\ LogsAreAllOrNothing

-----------------------------------------------------------------------------
(* Two configs that match, said with Cardinality.                          *)

LEMMA MatchingIsFinite == IsFiniteSet(Matching) /\ Cardinality(Matching) \in Nat
BY DispatchAssumption, FS_Subset, FS_CardinalityType DEF Matching

LEMMA TwoMatch ==
  (\E a, b \in Matching : a # b) <=> Cardinality(Matching) >= 2
<1>1. ASSUME NEW a \in Matching, NEW b \in Matching, a # b
      PROVE  Cardinality(Matching) >= 2
  <2>1. /\ IsFiniteSet({a}) /\ Cardinality({a}) = 1
    BY FS_Singleton
  <2>2. Cardinality({a} \cup {b}) = 2
    BY <1>1, <2>1, FS_AddElement
  <2>3. Cardinality({a} \cup {b}) <= Cardinality(Matching)
    BY MatchingIsFinite, FS_Subset
  <2> QED
    BY <2>2, <2>3
<1>2. ASSUME Cardinality(Matching) >= 2
      PROVE  \E a, b \in Matching : a # b
  <2>1. PICK a \in Matching : TRUE
    BY <1>2, FS_EmptySet
  <2>2. Matching # {a}
    BY <1>2, FS_Singleton
  <2> QED
    BY <2>1, <2>2
<1> QED
  BY <1>1, <1>2

-----------------------------------------------------------------------------
LEMMA InitEstablishes == Init => IInv
BY DEF Init, IInv, TypeOK, Steps, OnlyMatchingWork, Opening, SecondIsRefused, RowsInserted,
   StageFollowsTasks, SentWhenPast, OneSurvives, Survives, LogsAreAllOrNothing, AllBegun,
   Matching

LEMMA BeginPreserves ==
  ASSUME IInv, NEW k \in Configs, Begin(k)
  PROVE  IInv'
<1> USE DEF IInv
<1>1. /\ step[k] = "created" /\ stage = "gather" /\ ~AllBegun
      /\ UNCHANGED <<kind, committed, stage, sent>> /\ Matching' = Matching
  BY DEF Begin, Opening, AllBegun, Matching
<1>2. CASE k \notin Matching
  <2>1. /\ step' = [step EXCEPT ![k] = "returned"]
        /\ UNCHANGED <<flushing, rows>>
    BY <1>1, <1>2 DEF Begin, Matching
  <2>2. TypeOK' /\ OnlyMatchingWork'
    BY <1>1, <2>1 DEF TypeOK, Steps, OnlyMatchingWork
  <2>3. Opening' /\ SecondIsRefused'
    BY <1>1, <1>2, <2>1 DEF TypeOK, Opening, SecondIsRefused, AllBegun
  <2>4. RowsInserted'
    BY <1>1, <1>2, <2>1 DEF TypeOK, RowsInserted
  <2>5. StageFollowsTasks' /\ LogsAreAllOrNothing'
    BY <1>1, <2>1 DEF TypeOK, StageFollowsTasks, LogsAreAllOrNothing
  <2>6. SentWhenPast' /\ OneSurvives'
    <3>1. /\ kind[k] # "sendable" /\ sent[k] = 0 /\ step'[k] = "returned"
          /\ \A j \in Configs \ {k} : step'[j] = step[j]
      BY <1>1, <1>2, <2>1 DEF TypeOK, SentWhenPast, Matching
    <3>2. QED
      BY <1>1, <1>2, <3>1 DEF SentWhenPast, OneSurvives, Survives, Matching
  <2> QED
    BY <2>2, <2>3, <2>4, <2>5, <2>6
<1>3. CASE k \in Matching
  <2>1. /\ rows' = rows \cup {k}
        /\ Flush(k, flushing = Nobody, "inserting")
    BY <1>1, <1>3 DEF Begin, Matching
  <2>2. /\ flushing' \in Configs
        /\ \/ step' = [step EXCEPT ![k] = "inserting"] /\ flushing = Nobody
           \/ step' = [step EXCEPT ![k] = "raised"] /\ flushing # Nobody
    BY <2>1 DEF Flush, TypeOK
  <2>3. flushing' # Nobody
    BY <2>2, DispatchAssumption
  <2>4. TypeOK' /\ OnlyMatchingWork'
    BY <1>1, <1>3, <2>1, <2>2 DEF TypeOK, Steps, OnlyMatchingWork
  <2>5. Opening'
    BY <1>1, <2>2, <2>3 DEF TypeOK, Opening, AllBegun
  <2>6. SecondIsRefused'
    <3> SUFFICES ASSUME NEW a \in Matching, NEW b \in Matching, a # b,
                        step'[a] # "created", step'[b] # "created"
                 PROVE  \E j \in Configs : step'[j] = "raised"
      BY <1>1 DEF SecondIsRefused
    <3>1. CASE a # k /\ b # k
      <4>1. step[a] # "created" /\ step[b] # "created"
        BY <2>2, <3>1 DEF TypeOK, Matching
      <4>2. PICK j \in Configs : step[j] = "raised"
        BY <3>1, <4>1 DEF SecondIsRefused
      <4> QED
        BY <1>1, <2>2, <4>2 DEF TypeOK
    <3>2. CASE a = k \/ b = k
      <4>1. flushing # Nobody
        BY <1>1, <2>2, <3>2 DEF TypeOK, Opening, Matching
      <4> QED
        BY <2>2, <4>1 DEF TypeOK
    <3> QED
      BY <3>1, <3>2
  <2>7. RowsInserted'
    <3>1. /\ rows' = {j \in Matching : step[j] # "created"} \cup {k}
      BY <1>1, <2>1 DEF RowsInserted
    <3>2. \A j \in Matching :
            step'[j] # "created" <=> j = k \/ step[j] # "created"
      BY <1>3, <2>2 DEF TypeOK, Matching
    <3> QED
      BY <1>1, <1>3, <3>1, <3>2 DEF RowsInserted
  <2>8. StageFollowsTasks' /\ SentWhenPast' /\ LogsAreAllOrNothing'
    BY <1>1, <2>2 DEF TypeOK, StageFollowsTasks, SentWhenPast, LogsAreAllOrNothing
  <2>9. OneSurvives'
    <3>1. \A j \in Configs \ {k} : Survives(j)' = Survives(j)
      BY <1>1, <2>2 DEF TypeOK, Survives
    <3>2. Survives(k)' => \A j \in Matching \ {k} : ~Survives(j)
      <4>1. Survives(k)' => flushing = Nobody
        BY <1>1, <2>2 DEF TypeOK, Survives, SentWhenPast
      <4>2. flushing = Nobody => \A j \in Matching : step[j] = "created" /\ sent[j] = 0
        BY <1>1 DEF Opening, SentWhenPast, Matching
      <4>3. QED
        BY <4>1, <4>2 DEF Survives
    <3>3. Matching \subseteq Configs /\ Matching' = Matching
      BY <1>1 DEF Matching
    <3>4. QED
      BY <3>1, <3>2, <3>3 DEF OneSurvives
  <2> QED
    BY <2>4, <2>5, <2>6, <2>7, <2>8, <2>9
<1> QED
  BY <1>2, <1>3

\* The later steps of a task are taken when all have begun: what was decided
\* by the opening stays, since a task that has raised stays where it is.
LEMMA LaterTaskPreserves ==
  ASSUME IInv, NEW k \in Configs,
         Inserted(k) \/ Responds(k) \/ Saved(k) \/ ClosedUnderneath(k)
  PROVE  IInv'
<1> USE DEF IInv
<1>1. /\ AllBegun /\ step[k] \in {"inserting", "sending", "saving"}
      /\ UNCHANGED <<kind, rows, committed, stage>> /\ Matching' = Matching
      /\ k \in Matching
  BY DEF Inserted, Responds, Saved, ClosedUnderneath, Opening, AllBegun, OnlyMatchingWork,
     Matching
<1>2. /\ flushing' \in Configs \cup {Nobody}
      /\ \E s \in {"sending", "saving", "returned", "raised"} :
           /\ step' = [step EXCEPT ![k] = s]
           /\ \/ /\ sent' = sent
                 /\ s = "sending" => step[k] = "inserting" /\ kind[k] = "sendable"
                 /\ s \in {"saving", "returned"} =>
                      kind[k] # "sendable" \/ step[k] = "saving"
              \/ /\ sent' = [sent EXCEPT ![k] = @ + 1]
                 /\ step[k] = "sending" /\ s # "sending"
  <2>1. CASE Inserted(k)
    <3>1. kind[k] \in Kinds
      BY DispatchAssumption DEF TypeOK
    <3> QED
      BY <1>1, <2>1, <3>1 DEF Inserted, Flush, Matching, Kinds
  <2>2. CASE Responds(k)
    BY <1>1, <2>2 DEF Responds, Flush, TypeOK
  <2>3. CASE Saved(k) \/ ClosedUnderneath(k)
    BY <1>1, <2>3 DEF Saved, ClosedUnderneath
  <2> QED
    BY <2>1, <2>2, <2>3
<1>3. AllBegun'
  BY <1>1, <1>2 DEF TypeOK, AllBegun
<1>4. TypeOK' /\ SentWhenPast'
  BY <1>1, <1>2 DEF TypeOK, Steps, SentWhenPast
<1>11. OneSurvives'
  <2>1. Survives(k) /\ \A j \in Configs \ {k} : Survives(j)' = Survives(j)
    BY <1>1, <1>2 DEF TypeOK, Survives
  <2>2. QED
    BY <1>1, <2>1 DEF OneSurvives, Matching
<1>5. OnlyMatchingWork' /\ Opening'
  BY <1>1, <1>2, <1>3 DEF TypeOK, OnlyMatchingWork, Opening
<1>6. RowsInserted'
  BY <1>1, <1>3 DEF RowsInserted, AllBegun, Matching
<1>7. (\E j \in Configs : step[j] = "raised") => \E j \in Configs : step'[j] = "raised"
  BY <1>1, <1>2 DEF TypeOK
<1>8. SecondIsRefused'
  BY <1>1, <1>7 DEF SecondIsRefused, AllBegun, Matching
<1>9. StageFollowsTasks'
  BY <1>1, <1>3, <1>7 DEF StageFollowsTasks
<1>10. LogsAreAllOrNothing'
  <2>1. stage # "ended"
    BY <1>1 DEF StageFollowsTasks
  <2>2. \A j \in Configs : sent'[j] <= 1
    BY <1>4 DEF SentWhenPast
  <2>3. QED
    BY <1>1, <2>1, <2>2 DEF LogsAreAllOrNothing
<1> QED
  BY <1>4, <1>5, <1>6, <1>8, <1>9, <1>10, <1>11

LEMMA StagePreserves ==
  ASSUME IInv, Stage
  PROVE  IInv'
<1> USE DEF IInv
<1>1. /\ UNCHANGED <<kind, step, flushing, sent>> /\ Matching' = Matching
      /\ AllBegun' = AllBegun
  BY DEF Stage, GatherRaises, GatherReturns, Commit, CommitFails, Matching, AllBegun
<1>2. OnlyMatchingWork' /\ SecondIsRefused' /\ SentWhenPast' /\ OneSurvives'
  BY <1>1 DEF OnlyMatchingWork, SecondIsRefused, SentWhenPast, OneSurvives, Survives
<1>3. AllBegun
  BY DEF Stage, GatherRaises, GatherReturns, Commit, CommitFails, StageFollowsTasks, AllBegun
<1>4. Opening'
  BY <1>1, <1>3 DEF Opening
<1>5. TypeOK' /\ RowsInserted' /\ StageFollowsTasks' /\ LogsAreAllOrNothing'
  <2>1. CASE GatherReturns
    BY <1>1, <2>1 DEF GatherReturns, TypeOK, RowsInserted, StageFollowsTasks,
       LogsAreAllOrNothing
  <2>2. CASE Commit
    <3>1. rows = Matching
      BY <2>2 DEF Commit, RowsInserted, StageFollowsTasks, Matching
    <3>2. {k \in Configs : sent[k] > 0} = {k \in Configs : kind[k] = "sendable"}
      BY <2>2 DEF Commit, StageFollowsTasks, SentWhenPast
    <3> QED
      BY <1>1, <2>2, <3>1, <3>2 DEF Commit, TypeOK, RowsInserted, StageFollowsTasks,
         LogsAreAllOrNothing
  <2>3. CASE GatherRaises \/ CommitFails
    BY <1>1, <1>3, <2>3 DEF GatherRaises, CommitFails, TypeOK, RowsInserted,
       StageFollowsTasks, LogsAreAllOrNothing
  <2> QED
    BY <2>1, <2>2, <2>3 DEF Stage
<1> QED
  BY <1>2, <1>4, <1>5

LEMMA StepPreserves == IInv /\ [Next]_vars => IInv'
<1> SUFFICES ASSUME IInv, [Next]_vars PROVE IInv'
  OBVIOUS
<1>1. CASE Stage
  BY <1>1, StagePreserves
<1>2. ASSUME NEW k \in Configs, Task(k) PROVE IInv'
  BY <1>2, BeginPreserves, LaterTaskPreserves DEF Task
<1>3. CASE UNCHANGED vars
  BY <1>3 DEF vars, IInv, TypeOK, OnlyMatchingWork, Opening, SecondIsRefused, RowsInserted,
     StageFollowsTasks, SentWhenPast, OneSurvives, Survives, LogsAreAllOrNothing, AllBegun,
     Matching
<1> QED
  BY <1>1, <1>2, <1>3 DEF Next

\* The invariant holds in every reachable state.
THEOREM Invariance == Spec => []IInv
BY InitEstablishes, StepPreserves, PTL DEF Spec

\* Tasks, session and stage are in states of the kinds of CallbackDispatch.
THEOREM TypeCorrect == Spec => []TypeOK
BY Invariance, PTL DEF IInv

\* process_callbacks logs exactly the configs that matched, or none, however
\* the flushes of its tasks overlap and whatever raises; when it logs, it has
\* made exactly one request for each config that could be sent.
THEOREM AllOrNothing == Spec => []LogsAreAllOrNothing
BY Invariance, PTL DEF IInv

\* With two or more configs that match, one task always raises and nothing is
\* ever logged (gather on one AsyncSession).
THEOREM TwoMatchesAlwaysFail == Spec => []TwoMatchesFail
<1>1. IInv => TwoMatchesFail
  <2> SUFFICES ASSUME IInv, Cardinality(Matching) >= 2, AllBegun
               PROVE  /\ \E k \in Configs : step[k] = "raised"
                      /\ stage \in {"gather", "failed"} /\ committed = {}
    BY DEF TwoMatchesFail
  <2>1. PICK a, b \in Matching : a # b
    BY TwoMatch
  <2>2. \E k \in Configs : step[k] = "raised"
    BY <2>1 DEF IInv, SecondIsRefused, AllBegun, Matching
  <2>3. stage \in {"gather", "failed"} /\ committed = {}
    BY <2>2 DEF IInv, TypeOK, StageFollowsTasks, LogsAreAllOrNothing
  <2> QED
    BY <2>2, <2>3
<1> QED
  BY <1>1, Invariance, PTL

\* However many configs match, a request that leaves after stage 2 is over is
\* the only one of a stage that failed on another config's exception.
THEOREM StrayRequests == Spec => StrayRequestIsAlone
<1> DEFINE Alone ==
      sent' # sent /\ stage \in {"ended", "failed"} =>
        /\ stage = "failed" /\ \A k \in Configs : sent[k] = 0
        /\ \E j, k \in Matching : j # k /\ step[j] = "raised" /\ sent'[k] > 0
<1>1. ASSUME IInv, [Next]_vars PROVE [Alone]_vars
  <2> SUFFICES ASSUME stage \in {"ended", "failed"}, NEW k \in Configs, Responds(k)
               PROVE  /\ stage = "failed" /\ \A j \in Configs : sent[j] = 0
                      /\ \E j, m \in Matching :
                           j # m /\ step[j] = "raised" /\ sent'[m] > 0
    BY <1>1 DEF Next, Task, Stage, Begin, Inserted, Saved, ClosedUnderneath, GatherRaises,
       GatherReturns, Commit, CommitFails, vars
  <2>1. /\ step[k] = "sending" /\ k \in Matching /\ sent[k] = 0 /\ Survives(k)
        /\ sent'[k] = 1
    BY <1>1 DEF Responds, IInv, TypeOK, OnlyMatchingWork, SentWhenPast, Survives
  <2>2. stage = "failed" /\ \E j \in Configs : step[j] = "raised"
    BY <1>1, <2>1 DEF IInv, StageFollowsTasks
  <2>3. PICK j \in Configs : step[j] = "raised"
    BY <2>2
  <2>4. j \in Matching /\ j # k
    BY <1>1, <2>1, <2>3 DEF IInv, OnlyMatchingWork
  <2>5. ASSUME NEW m \in Configs, sent[m] # 0 PROVE FALSE
    <3>1. sent[m] > 0 /\ m \in Matching /\ Survives(m)
      BY <1>1, <2>5 DEF IInv, SentWhenPast, Matching, Survives
    <3>2. QED
      BY <1>1, <2>1, <2>5, <3>1 DEF IInv, OneSurvives
  <2>6. QED
    BY <2>1, <2>2, <2>3, <2>4, <2>5
<1> QED
  BY <1>1, Invariance, PTL DEF Spec, StrayRequestIsAlone
=============================================================================

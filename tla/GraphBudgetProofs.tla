--------------------------- MODULE GraphBudgetProofs ---------------------------
(***************************************************************************)
(* What the pacing of Graph calls promises, for any connections, calls,    *)
(* limits and bound of the clock.                                          *)
(***************************************************************************)
EXTENDS GraphBudget, FiniteSetTheorems, TLAPS

LOCAL INSTANCE FiniteSetsExt

----------------------------------------------------------------------------
(* The parts of the invariant *)

Stages == {"idle", "retrying", "acquiring", "queued", "admitted", "calling"}

Shape ==
  /\ now \in Nat
  /\ registry \in [Connections -> Budgets \cup {NoBudget}]
  /\ budgets \in [Budgets -> Limiters]
  /\ stage \in [Calls -> Stages]
  /\ holds \in [Calls -> Budgets \cup {NoBudget}]
  /\ sent \in [Connections -> SUBSET Nat]
  /\ ordered \in [Connections -> Nat]

Holders(b) == {c \in Calls : holds[c] = b}

(* A call holds a budget from get() to release(), the registry has no budget
   twice, and `active` counts who holds one. *)
Counted ==
  /\ \A c \in Calls : stage[c] \in {"idle", "retrying"} <=> holds[c] = NoBudget
  /\ \A k, l \in Connections : registry[k] = registry[l] /\ registry[k] # NoBudget => k = l
  /\ \A b \in Budgets : budgets[b].active = Cardinality(Holders(b))

(* The budget of a connection remembers the requests of the last spacing, and
   cannot be evicted before they are that old. *)
Remembered(t, b) ==
  \/ t + Spacing =< now
  \/ b \in Budgets /\ t \in budgets[b].times /\ (budgets[b].active > 0 \/ t =< budgets[b].lastUsed)

(* It also holds the latest deadline, and is not evicted before that. *)
Deferred(deadline, b) ==
  \/ deadline =< now
  \/ /\ b \in Budgets
     /\ deadline =< budgets[b].pausedUntil /\ deadline =< budgets[b].lastUsed + IdleEvict

Paced == \A k \in Connections : \A t \in sent[k] : t =< now /\ Remembered(t, registry[k])
Cooled == \A k \in Connections : Deferred(ordered[k], registry[k])
Past == \A b \in Budgets : budgets[b].lastUsed =< now

BudgetInv == Shape /\ Counted /\ BudgetInUseIsKept /\ Past /\ Paced /\ Cooled

----------------------------------------------------------------------------
(* Counting *)

LEMMA NoBudgetIsNone == NoBudget \notin Budgets /\ IsFiniteSet(Calls)
BY BudgetAssumption

LEMMA HoldersFinite ==
  ASSUME NEW b
  PROVE  IsFiniteSet(Holders(b)) /\ Cardinality(Holders(b)) \in Nat
<1>1. Holders(b) \subseteq Calls
  BY DEF Holders
<1> QED BY <1>1, NoBudgetIsNone, FS_Subset, FS_CardinalityType

(* A call that takes a budget makes one more that holds it. *)
LEMMA HolderJoins ==
  ASSUME Shape, NEW c \in Calls, NEW b \in Budgets, holds[c] = NoBudget,
         holds' = [holds EXCEPT ![c] = b]
  PROVE  /\ Cardinality(Holders(b)') = Cardinality(Holders(b)) + 1
         /\ \A d \in Budgets \ {b} : Holders(d)' = Holders(d)
<1>1. Holders(b)' = Holders(b) \cup {c}
  BY DEF Shape, Holders
<1>2. c \notin Holders(b)
  BY NoBudgetIsNone DEF Holders
<1>3. \A d \in Budgets \ {b} : Holders(d)' = Holders(d)
  BY NoBudgetIsNone DEF Shape, Holders
<1> QED BY <1>1, <1>2, <1>3, HoldersFinite, FS_AddElement

(* A call that gives its budget back makes one less. *)
LEMMA HolderLeaves ==
  ASSUME Shape, NEW c \in Calls, holds[c] # NoBudget,
         holds' = [holds EXCEPT ![c] = NoBudget]
  PROVE  /\ Cardinality(Holders(holds[c])) \in Nat \ {0}
         /\ Cardinality({d \in Calls : holds'[d] = holds[c]}) = Cardinality(Holders(holds[c])) - 1
         /\ \A b \in Budgets \ {holds[c]} : Holders(b)' = Holders(b)
<1>1. {d \in Calls : holds'[d] = holds[c]} = Holders(holds[c]) \ {c}
  BY NoBudgetIsNone DEF Shape, Holders
<1>2. c \in Holders(holds[c])
  BY DEF Holders
<1>3. \A b \in Budgets \ {holds[c]} : Holders(b)' = Holders(b)
  BY NoBudgetIsNone DEF Shape, Holders
<1>4. /\ Cardinality(Holders(holds[c]) \ {c}) = Cardinality(Holders(holds[c])) - 1
      /\ Cardinality(Holders(holds[c]) \ {c}) \in Nat
  BY <1>2, HoldersFinite, FS_RemoveElement, FS_CardinalityType
<1> QED BY <1>1, <1>3, <1>4, HoldersFinite

(* Whoever holds a budget counts. *)
LEMMA HeldIsActive ==
  ASSUME Shape, Counted, NEW c \in Calls, holds[c] # NoBudget
  PROVE  holds[c] \in Budgets /\ budgets[holds[c]].active > 0
<1>1. holds[c] \in Budgets
  BY DEF Shape
<1>2. c \in Holders(holds[c])
  BY DEF Holders
<1>3. Cardinality(Holders(holds[c])) \in Nat \ {0}
  BY <1>2, HoldersFinite, FS_EmptySet
<1> QED BY <1>1, <1>3 DEF Counted

----------------------------------------------------------------------------
(* The earliest and the latest of some moments *)

(* FiniteSetsExt's minimum: a set of numbers has a least one, *)
LEMMA Earliest ==
  ASSUME NEW T \in SUBSET Nat, T # {}
  PROVE  Min(T) \in T /\ \A t \in T : Min(T) =< t
<1>1. PICK x \in T : \A y \in T : ~ (<<y, x>> \in OpToRel(<, Nat))
  BY NatLessThanWellFounded, WFMin
<1>2. ASSUME NEW y \in T, y < x PROVE FALSE
  <2> DEFINE pair == <<y, x>>
  <2>1. pair \in Nat \X Nat /\ pair[1] < pair[2]
    BY <1>2
  <2>2. pair \in OpToRel(<, Nat)
    BY <2>1 DEF OpToRel
  <2> QED BY <1>1, <2>2
<1>3. \A y \in T : x =< y
  BY <1>2
<1> QED BY <1>3 DEF Min

(* and its maximum: a set of moments of the past a last one. *)
LEMMA Latest ==
  ASSUME NEW n \in Nat, NEW T \in SUBSET (0..n), T # {}
  PROVE  Max(T) \in T /\ \A t \in T : Max(T) >= t
<1> DEFINE ages == {n - t : t \in T}
<1>1. ages \in SUBSET Nat /\ ages # {}
  <2>1. \A t \in T : n - t \in Nat
    OBVIOUS
  <2> QED BY <2>1
<1>2. Min(ages) \in ages /\ \A a \in ages : Min(ages) =< a
  BY <1>1, Earliest
<1>3. PICK x \in T : n - x = Min(ages)
  BY <1>2
<1>4. \A t \in T : n - x =< n - t
  BY <1>2, <1>3
<1> HIDE DEF ages
<1>5. \A t \in T : x >= t
  BY <1>4
<1> QED BY <1>5 DEF Max

(* The moments up to now are finitely many. *)
LEMMA MomentsFinite ==
  ASSUME NEW n \in Nat, NEW T \in SUBSET (0..n)
  PROVE  IsFiniteSet(T) /\ Cardinality(T) \in Nat
<1>1. 0 \in Int /\ n \in Int
  OBVIOUS
<1>2. IsFiniteSet(0..n)
  BY <1>1, FS_Interval
<1>3. IsFiniteSet(T)
  BY <1>2, FS_Subset
<1> QED BY <1>3, FS_CardinalityType

----------------------------------------------------------------------------
(* Helpers of the limiter *)

(* FiniteSetsExt's maximum and minimum of two *)
LEMMA OfTwo ==
  ASSUME NEW a \in Int, NEW b \in Int
  PROVE  /\ Max({a, b}) \in {a, b} /\ Max({a, b}) >= a /\ Max({a, b}) >= b
         /\ Min({a, b}) \in {a, b} /\ Min({a, b}) =< a /\ Min({a, b}) =< b
<1>1. \E x \in {a, b} : \A y \in {a, b} : x >= y
  <2>1. CASE a >= b BY <2>1
  <2>2. CASE b >= a BY <2>2
  <2> QED BY <2>1, <2>2
<1>2. \E x \in {a, b} : \A y \in {a, b} : x =< y
  <2>1. CASE a =< b BY <2>1
  <2>2. CASE b =< a BY <2>2
  <2> QED BY <2>1, <2>2
<1>3. Max({a, b}) \in {a, b} /\ \A y \in {a, b} : Max({a, b}) >= y
  BY <1>1 DEF Max
<1>4. Min({a, b}) \in {a, b} /\ \A y \in {a, b} : Min({a, b}) =< y
  BY <1>2 DEF Min
<1> QED BY <1>3, <1>4

LEMMA SpacingIsShort == Spacing =< Hour /\ Spacing =< IdleEvict
<1>1. Spacing \in Nat \ {0} /\ PerMinute \in Nat \ {0} /\ Minute \in Nat /\ Hour \in Nat
  BY BudgetAssumption
<1>2. Spacing =< Spacing * PerMinute
  BY <1>1
<1> QED BY <1>1, <1>2, BudgetAssumption

LEMMA NewBudgetTyped == now \in Nat => NewBudget \in Limiters
BY BudgetAssumption DEF NewBudget, Limiters

(* Refreshing forgets requests of an hour ago, and lowers the level. *)
LEMMA RefreshedKeeps ==
  ASSUME now \in Nat, NEW b \in Limiters
  PROVE  /\ Refreshed(b) \in Limiters
         /\ Refreshed(b).active = b.active /\ Refreshed(b).lastUsed = b.lastUsed
         /\ Refreshed(b).pausedUntil = b.pausedUntil
         /\ Refreshed(b).times \subseteq b.times
         /\ \A t \in b.times \ Refreshed(b).times : t + Spacing =< now
<1>1. CASE Paused(b)
  BY <1>1 DEF Refreshed
<1>2. CASE ~ Paused(b)
  <2>1. Refreshed(b) = [b EXCEPT !.level = IF now - b.lastThrottle > Decay THEN 0 ELSE @,
                                 !.times = {t \in @ : t > now - Hour}]
    BY <1>2 DEF Refreshed
  <2>2. Hour \in Nat /\ Spacing \in Nat /\ MaxLevel \in Nat
    BY BudgetAssumption
  <2> DEFINE level == IF now - b.lastThrottle > Decay THEN 0 ELSE b.level
             times == {t \in b.times : t > now - Hour}
  <2>3. level \in 0..MaxLevel
    BY <2>2 DEF Limiters
  <2>4. times \subseteq b.times /\ \A t \in b.times \ times : t + Spacing =< now
    BY <2>2, SpacingIsShort DEF Limiters
  <2>5. Refreshed(b) = [b EXCEPT !.level = level, !.times = times]
    BY <2>1
  <2> HIDE DEF level, times
  <2> QED BY <2>3, <2>4, <2>5 DEF Limiters
<1> QED BY <1>1, <1>2

(* A throttle moves the deadline later only. *)
LEMMA ThrottledKeeps ==
  ASSUME now \in Nat, NEW b \in Limiters, NEW deadline \in Nat
  PROVE  /\ Throttled(b, deadline) \in Limiters
         /\ Throttled(b, deadline).active = b.active /\ Throttled(b, deadline).times = b.times
         /\ Throttled(b, deadline).lastUsed = b.lastUsed
         /\ Throttled(b, deadline).pausedUntil >= b.pausedUntil
         /\ Throttled(b, deadline).pausedUntil >= deadline
<1> DEFINE level == Min({b.level + 1, MaxLevel})
           pause == Max({b.pausedUntil, deadline})
<1>1. b.level \in 0..MaxLevel /\ b.pausedUntil \in Nat /\ MaxLevel \in Nat \ {0}
  BY BudgetAssumption DEF Limiters
<1>2. level \in 0..MaxLevel
  <2>1. b.level + 1 \in Nat /\ b.level + 1 \in Int /\ MaxLevel \in Nat /\ MaxLevel \in Int
    BY <1>1
  <2>2. level \in {b.level + 1, MaxLevel} /\ level =< MaxLevel
    BY <2>1, OfTwo, Zenon
  <2> HIDE DEF level
  <2> QED BY <2>1, <2>2
<1>3. pause \in Nat /\ pause >= b.pausedUntil /\ pause >= deadline
  <2>1. b.pausedUntil \in Nat /\ b.pausedUntil \in Int /\ deadline \in Nat /\ deadline \in Int
    BY <1>1
  <2>2. pause \in {b.pausedUntil, deadline} /\ pause >= b.pausedUntil /\ pause >= deadline
    BY <2>1, OfTwo, Zenon
  <2> HIDE DEF pause
  <2> QED BY <2>1, <2>2
<1>4. Throttled(b, deadline) =
        [b EXCEPT !.level = level, !.lastThrottle = now, !.pausedUntil = pause]
  BY DEF Throttled
<1> HIDE DEF level, pause
<1> QED BY <1>2, <1>3, <1>4 DEF Limiters

----------------------------------------------------------------------------
(* The steps *)

(* The budget of a call in progress is its connection's, and no other's. *)
LEMMA OwnBudget ==
  ASSUME BudgetInv, NEW c \in Calls, holds[c] # NoBudget
  PROVE  /\ ConnectionOf[c] \in Connections /\ holds[c] \in Budgets
         /\ registry[ConnectionOf[c]] = holds[c]
         /\ budgets[holds[c]] \in Limiters /\ budgets[holds[c]].active > 0
         /\ \A k \in Connections \ {ConnectionOf[c]} : registry[k] # holds[c]
<1>1. ConnectionOf[c] \in Connections
  BY BudgetAssumption
<1>2. registry[ConnectionOf[c]] = holds[c]
  BY DEF BudgetInv, BudgetInUseIsKept
<1>3. holds[c] \in Budgets /\ budgets[holds[c]].active > 0
  BY HeldIsActive DEF BudgetInv
<1>4. budgets[holds[c]] \in Limiters
  BY <1>3 DEF BudgetInv, Shape
<1>5. \A k \in Connections \ {ConnectionOf[c]} : registry[k] # holds[c]
  BY <1>1, <1>2 DEF BudgetInv, Counted
<1> QED BY <1>1, <1>2, <1>3, <1>4, <1>5

(* Giving a budget back, perhaps with a later deadline *)
LEMMA ReleaseStep ==
  ASSUME BudgetInv, NEW c \in Calls, holds[c] # NoBudget, NEW b \in Limiters,
         b.active = budgets[holds[c]].active, b.times = budgets[holds[c]].times,
         b.pausedUntil >= budgets[holds[c]].pausedUntil,
         NEW deadline \in Nat,
         \/ deadline = ordered[ConnectionOf[c]]
         \/ deadline =< b.pausedUntil /\ deadline =< now + IdleEvict,
         Release(c, b),
         ordered' = [ordered EXCEPT ![ConnectionOf[c]] = deadline],
         NEW s \in {"idle", "retrying"}, stage' = [stage EXCEPT ![c] = s],
         UNCHANGED <<now, registry, sent>>
  PROVE  BudgetInv'
<1> PICK h \in Budgets : h = holds[c]
  BY OwnBudget
<1> PICK r : r = Released(b)
  OBVIOUS
<1> DEFINE k == ConnectionOf[c]
<1>1. /\ k \in Connections /\ h \in Budgets /\ registry[k] = h /\ budgets[h] \in Limiters
      /\ budgets[h].active > 0 /\ \A l \in Connections \ {k} : registry[l] # h
      /\ b.active = budgets[h].active /\ b.times = budgets[h].times
      /\ b.pausedUntil >= budgets[h].pausedUntil
  BY OwnBudget
<1>2. now \in Nat /\ IdleEvict \in Nat /\ Shape
  BY BudgetAssumption DEF BudgetInv, Shape
<1>3. /\ r \in Limiters /\ r.active = budgets[h].active - 1 /\ r.lastUsed = now
      /\ r.times = budgets[h].times /\ r.pausedUntil >= budgets[h].pausedUntil
      /\ r.pausedUntil = b.pausedUntil
  <2>1. b.active > 0 /\ b.active - 1 \in Nat
    BY <1>1 DEF Limiters
  <2>2. r = [b EXCEPT !.active = b.active - 1, !.lastUsed = now]
    BY <2>1 DEF Released
  <2> QED BY <1>1, <1>2, <2>1, <2>2 DEF Limiters
<1>4. budgets' = [budgets EXCEPT ![h] = r] /\ holds' = [holds EXCEPT ![c] = NoBudget]
  BY <1>1 DEF Release
<1> HIDE DEF k
<1>5. Shape'
  <2>1. stage' \in [Calls -> Stages]
    BY <1>2 DEF Shape, Stages
  <2>2. budgets' \in [Budgets -> Limiters] /\ holds' \in [Calls -> Budgets \cup {NoBudget}]
    BY <1>2, <1>3, <1>4 DEF Shape
  <2>3. ordered' \in [Connections -> Nat]
    BY <1>2 DEF Shape
  <2> QED BY <1>2, <2>1, <2>2, <2>3 DEF Shape
<1>6. Counted'
  <2>1. \A d \in Calls : stage'[d] \in {"idle", "retrying"} <=> holds'[d] = NoBudget
    BY <1>2, <1>4 DEF BudgetInv, Counted, Shape
  <2>2. \A d \in Budgets : budgets'[d].active = Cardinality(Holders(d)')
    <3>1. /\ Cardinality(Holders(h)') = Cardinality(Holders(h)) - 1
          /\ \A d \in Budgets \ {h} : Holders(d)' = Holders(d)
      BY <1>2, <1>4, HolderLeaves DEF Holders
    <3>2. budgets'[h] = r /\ \A d \in Budgets \ {h} : budgets'[d] = budgets[d]
      BY <1>1, <1>2, <1>4 DEF Shape
    <3>3. \A d \in Budgets : budgets[d].active = Cardinality(Holders(d))
      BY DEF BudgetInv, Counted
    <3> QED BY <1>1, <1>3, <3>1, <3>2, <3>3
  <2>3. \A l, m \in Connections : registry[l] = registry[m] /\ registry[l] # NoBudget => l = m
    BY DEF BudgetInv, Counted
  <2> QED BY <2>1, <2>2, <2>3 DEF Counted
<1>7. BudgetInUseIsKept'
  BY <1>2, <1>4 DEF BudgetInv, BudgetInUseIsKept, Shape
<1>8. Past'
  BY <1>1, <1>2, <1>3, <1>4 DEF BudgetInv, Past, Shape
<1>9. Paced'
  BY <1>1, <1>2, <1>3, <1>4 DEF BudgetInv, Paced, Remembered, Shape
<1>10. Cooled'
  <2>1. ASSUME NEW l \in Connections \ {k} PROVE Deferred(ordered[l], registry[l])'
    <3>1. ordered'[l] = ordered[l] /\ (registry[l] \in Budgets => budgets'[registry[l]] = budgets[registry[l]])
      BY <1>1, <1>2, <1>4, <2>1 DEF Shape, k
    <3> QED BY <3>1, <2>1 DEF BudgetInv, Cooled, Deferred
  <2>2. Deferred(ordered[k], registry[k])'
    <3>1. ordered'[k] = deadline /\ budgets'[h] = r
      BY <1>1, <1>2, <1>4 DEF Shape, k
    <3>2. CASE deadline = ordered[k]
      <4>1. deadline =< now \/ (deadline =< budgets[h].pausedUntil /\ deadline =< budgets[h].lastUsed + IdleEvict)
        BY <1>1, <3>2 DEF BudgetInv, Cooled, Deferred
      <4>2. budgets[h].lastUsed =< now /\ budgets[h].lastUsed \in Nat /\ budgets[h].pausedUntil \in Nat
        BY <1>1 DEF BudgetInv, Past, Limiters
      <4>3. r.pausedUntil \in Nat
        BY <1>3 DEF Limiters
      <4> QED BY <1>1, <1>2, <1>3, <3>1, <4>1, <4>2, <4>3 DEF Deferred
    <3>3. CASE deadline =< b.pausedUntil /\ deadline =< now + IdleEvict
      BY <1>1, <1>2, <1>3, <3>1, <3>3 DEF Deferred
    <3> QED BY <3>2, <3>3 DEF k
  <2> QED BY <2>1, <2>2 DEF Cooled
<1> QED BY <1>5, <1>6, <1>7, <1>8, <1>9, <1>10 DEF BudgetInv

(* Time makes everything older. *)
LEMMA TickStep == BudgetInv /\ Tick => BudgetInv'
<1> SUFFICES ASSUME BudgetInv, Tick PROVE BudgetInv'
  OBVIOUS
<1>1. /\ now \in Nat /\ now' = now + 1 /\ Shape
      /\ UNCHANGED <<registry, budgets, stage, holds, sent, ordered>>
  BY DEF Tick, BudgetInv, Shape
<1>2. Shape' /\ Counted' /\ BudgetInUseIsKept'
  BY <1>1 DEF BudgetInv, Shape, Counted, BudgetInUseIsKept, Holders
<1>3. Past'
  BY <1>1 DEF BudgetInv, Past, Shape, Limiters
<1>4. Paced'
  <2>1. Spacing \in Nat
    BY BudgetAssumption
  <2> QED BY <1>1, <2>1 DEF BudgetInv, Paced, Remembered, Shape
<1>5. Cooled'
  BY <1>1 DEF BudgetInv, Cooled, Deferred, Shape
<1> QED BY <1>2, <1>3, <1>4, <1>5 DEF BudgetInv

(* Entering the semaphore and sending change the stage only. *)
LEMMA WaitStep ==
  ASSUME BudgetInv, NEW c \in Calls, EnterSemaphore(c) \/ SendRequest(c)
  PROVE  BudgetInv'
<1>1. /\ UNCHANGED <<now, registry, budgets, holds, sent, ordered>>
      /\ stage[c] \in {"queued", "admitted"}
      /\ \E s \in {"admitted", "calling"} : stage' = [stage EXCEPT ![c] = s]
  BY DEF EnterSemaphore, SendRequest
<1>2. Shape'
  BY <1>1 DEF BudgetInv, Shape, Stages
<1>3. Counted'
  BY <1>1 DEF BudgetInv, Counted, Shape, Holders
<1> QED BY <1>1, <1>2, <1>3
        DEF BudgetInv, BudgetInUseIsKept, Past, Paced, Remembered, Cooled, Deferred

(* One turn of acquire(): the log is refreshed, *)
LEMMA AcquireShape ==
  ASSUME BudgetInv, NEW c \in Calls, Acquire(c)
  PROVE  /\ stage[c] = "acquiring" /\ holds[c] \in Budgets
         /\ UNCHANGED <<now, registry, lastEvicted, holds, attempts, ordered>>
         /\ \E b \in Limiters, r \in Limiters :
              /\ b = Refreshed(budgets[holds[c]])
              /\ budgets' = [budgets EXCEPT ![holds[c]] = r]
              /\ r.active = b.active /\ r.lastUsed = b.lastUsed /\ r.pausedUntil = b.pausedUntil
              /\ \/ /\ Waits(b) = {} /\ r.times = b.times \cup {now}
                    /\ sent' = [sent EXCEPT ![ConnectionOf[c]] = @ \cup {now}]
                    /\ stage' = [stage EXCEPT ![c] = "queued"]
                    /\ wake' = [wake EXCEPT ![c] = 0]
                 \/ /\ Waits(b) # {} /\ r = b /\ UNCHANGED <<sent, stage>>
                    /\ wake' = [wake EXCEPT ![c] = now + Min(Waits(b))]
<1>1. stage[c] = "acquiring" /\ holds[c] # NoBudget
  BY DEF Acquire, BudgetInv, Counted
<1>2. holds[c] \in Budgets /\ budgets[holds[c]] \in Limiters /\ now \in Nat
  BY <1>1, OwnBudget DEF BudgetInv, Shape
<1> PICK b : b = Refreshed(budgets[holds[c]])
  OBVIOUS
<1>3. b \in Limiters
  BY <1>2, RefreshedKeeps
<1>4. CASE Waits(b) = {}
  <2>1. /\ LetGo(b) \in Limiters /\ LetGo(b).active = b.active /\ LetGo(b).lastUsed = b.lastUsed
        /\ LetGo(b).pausedUntil = b.pausedUntil /\ LetGo(b).times = b.times \cup {now}
    BY <1>2, <1>3 DEF LetGo, Limiters
  <2> QED BY <1>1, <1>2, <1>3, <1>4, <2>1 DEF Acquire
<1>5. CASE Waits(b) # {}
  BY <1>1, <1>2, <1>3, <1>5 DEF Acquire
<1> QED BY <1>4, <1>5

(* and the request recorded if it may go. *)
LEMMA AcquireStep ==
  ASSUME BudgetInv, NEW c \in Calls, Acquire(c)
  PROVE  BudgetInv'
<1>1. stage[c] = "acquiring" /\ holds[c] # NoBudget
  BY DEF Acquire, BudgetInv, Counted
<1> PICK h \in Budgets : h = holds[c]
  BY <1>1, OwnBudget
<1> DEFINE k == ConnectionOf[c]
<1>2. /\ k \in Connections /\ registry[k] = h /\ budgets[h] \in Limiters
      /\ budgets[h].active > 0 /\ \A l \in Connections \ {k} : registry[l] # h
  BY <1>1, OwnBudget
<1>3. now \in Nat /\ Shape /\ Spacing \in Nat /\ UNCHANGED <<now, registry, holds, ordered>>
  BY BudgetAssumption DEF BudgetInv, Shape, Acquire
<1> PICK b : b = Refreshed(budgets[h])
  OBVIOUS
<1>4. /\ b \in Limiters /\ b.active = budgets[h].active /\ b.lastUsed = budgets[h].lastUsed
      /\ b.pausedUntil = budgets[h].pausedUntil
      /\ \A t \in budgets[h].times \ b.times : t + Spacing =< now
  BY <1>2, <1>3, RefreshedKeeps
<1>5. PICK r \in Limiters :
        /\ budgets' = [budgets EXCEPT ![h] = r]
        /\ r.active = b.active /\ r.lastUsed = b.lastUsed /\ r.pausedUntil = b.pausedUntil
        /\ \/ /\ r.times = b.times \cup {now} /\ sent' = [sent EXCEPT ![k] = @ \cup {now}]
              /\ stage' = [stage EXCEPT ![c] = "queued"]
           \/ r.times = b.times /\ UNCHANGED <<sent, stage>>
  BY AcquireShape
<1> HIDE DEF k
<1>6. /\ budgets'[h] = r /\ \A d \in Budgets \ {h} : budgets'[d] = budgets[d]
      /\ b.times \subseteq r.times
  BY <1>3, <1>5 DEF Shape
<1>7. Shape'
  <2>1. budgets' \in [Budgets -> Limiters] /\ stage' \in [Calls -> Stages]
    BY <1>3, <1>5 DEF Shape, Stages
  <2>2. sent' \in [Connections -> SUBSET Nat]
    BY <1>2, <1>3, <1>5 DEF Shape
  <2> QED BY <1>3, <2>1, <2>2 DEF Shape
<1>8. Counted'
  <2>1. \A d \in Calls : stage'[d] \in {"idle", "retrying"} <=> stage[d] \in {"idle", "retrying"}
    BY <1>1, <1>3, <1>5 DEF Shape
  <2>2. \A d \in Budgets : budgets'[d].active = budgets[d].active
    BY <1>4, <1>5, <1>6
  <2> QED BY <1>3, <2>1, <2>2 DEF BudgetInv, Counted, Holders
<1>9. BudgetInUseIsKept' /\ Past'
  BY <1>3, <1>4, <1>5, <1>6 DEF BudgetInv, BudgetInUseIsKept, Past
<1>10. Cooled'
  BY <1>3, <1>4, <1>5, <1>6 DEF BudgetInv, Cooled, Deferred
<1>11. Paced'
  <2>1. ASSUME NEW l \in Connections \ {k}, NEW t \in sent'[l]
        PROVE  t =< now /\ Remembered(t, registry[l])'
    <3>1. t \in sent[l]
      BY <1>2, <1>3, <1>5, <2>1 DEF Shape
    <3>2. t =< now /\ Remembered(t, registry[l])
      BY <2>1, <3>1 DEF BudgetInv, Paced
    <3> QED BY <1>2, <1>3, <1>6, <3>2 DEF Remembered
  <2>2. ASSUME NEW t \in sent'[k] PROVE t =< now /\ Remembered(t, registry[k])'
    <3>1. CASE t \in sent[k]
      <4>1. t =< now /\ (t + Spacing =< now \/ t \in budgets[h].times)
        BY <1>2, <3>1 DEF BudgetInv, Paced, Remembered
      <4> QED BY <1>2, <1>3, <1>4, <1>5, <1>6, <4>1 DEF Remembered
    <3>2. CASE t \notin sent[k]
      <4>1. t = now /\ t \in r.times
        BY <1>2, <1>3, <1>5, <2>2, <3>2 DEF Shape
      <4> QED BY <1>2, <1>3, <1>4, <1>5, <1>6, <4>1 DEF Remembered
    <3> QED BY <3>1, <3>2
  <2> QED BY <1>3, <2>1, <2>2 DEF Paced
<1> QED BY <1>7, <1>8, <1>9, <1>10, <1>11 DEF BudgetInv

(* The sweep takes budgets that nobody holds and that are older than the last
   spacing and the last deadline. *)
LEMMA SweepIsSafe ==
  ASSUME BudgetInv
  PROVE  /\ Swept \in [Connections -> Budgets \cup {NoBudget}]
         /\ \A c \in Calls : holds[c] # NoBudget => Swept[ConnectionOf[c]] = holds[c]
         /\ \A k \in Connections :
              \/ Swept[k] = registry[k] /\ Swept[k] # NoBudget
              \/ /\ Swept[k] = NoBudget /\ ordered[k] =< now
                 /\ \A t \in sent[k] : t + Spacing =< now
<1>1. Shape /\ now \in Nat /\ Spacing \in Nat /\ IdleEvict \in Nat /\ Spacing =< IdleEvict
  BY BudgetAssumption DEF BudgetInv, Shape
<1>2. ASSUME NEW k \in Connections
      PROVE  \/ Swept[k] = registry[k]
             \/ /\ Swept[k] = NoBudget /\ registry[k] # NoBudget /\ Idle(budgets[registry[k]])
  BY <1>1 DEF Swept, EvictIdle, Shape
<1>3. ASSUME NEW k \in Connections, Swept[k] = NoBudget, NEW t \in sent[k]
      PROVE  t + Spacing =< now
  <2>1. t \in Nat /\ t =< now /\ Remembered(t, registry[k])
    BY <1>1 DEF BudgetInv, Paced, Shape
  <2>2. CASE registry[k] = NoBudget
    BY <2>1, <2>2, NoBudgetIsNone DEF Remembered
  <2>3. CASE registry[k] \in Budgets /\ Idle(budgets[registry[k]])
    <3>1. budgets[registry[k]] \in Limiters
      BY <1>1, <2>3 DEF Shape
    <3> QED BY <1>1, <2>1, <2>3, <3>1 DEF Remembered, Idle, Limiters
  <2> QED BY <1>1, <1>2, <1>3, <2>2, <2>3 DEF Shape
<1>4. ASSUME NEW k \in Connections, Swept[k] = NoBudget
      PROVE  ordered[k] =< now
  <2>1. ordered[k] \in Nat /\ Deferred(ordered[k], registry[k])
    BY <1>1 DEF BudgetInv, Cooled, Shape
  <2>2. CASE registry[k] = NoBudget
    BY <2>1, <2>2, NoBudgetIsNone DEF Deferred
  <2>3. CASE registry[k] \in Budgets /\ Idle(budgets[registry[k]])
    <3>1. budgets[registry[k]] \in Limiters
      BY <1>1, <2>3 DEF Shape
    <3> QED BY <1>1, <2>1, <2>3, <3>1 DEF Deferred, Idle, Limiters
  <2> QED BY <1>1, <1>2, <1>4, <2>2, <2>3 DEF Shape
<1>5. ASSUME NEW c \in Calls, holds[c] # NoBudget
      PROVE  Swept[ConnectionOf[c]] = holds[c]
  BY <1>2, <1>5, OwnBudget DEF Idle
<1>6. Swept \in [Connections -> Budgets \cup {NoBudget}]
  BY <1>1 DEF Swept, EvictIdle, Shape
<1> QED BY <1>2, <1>3, <1>4, <1>5, <1>6

(* get() makes a budget that nobody holds, or takes the connection's. *)
LEMMA GetShape ==
  ASSUME BudgetInv, NEW c \in Calls, GetBudget(c)
  PROVE  \E b \in Budgets, r \in Limiters :
           /\ budgets' = [budgets EXCEPT ![b] = r] /\ holds' = [holds EXCEPT ![c] = b]
           /\ registry' = [Swept EXCEPT ![ConnectionOf[c]] = b]
           /\ \A l \in Connections \ {ConnectionOf[c]} : Swept[l] # b
           /\ r.active = Cardinality(Holders(b)) + 1 /\ r.lastUsed = now
           /\ \/ /\ Swept[ConnectionOf[c]] = NoBudget
                 /\ Holders(b) = {} /\ r.times = {}
              \/ /\ Swept[ConnectionOf[c]] = b
                 /\ r.times = budgets[b].times /\ r.pausedUntil = budgets[b].pausedUntil
<1> DEFINE k == ConnectionOf[c]
<1>1. /\ k \in Connections /\ Shape /\ now \in Nat
  BY BudgetAssumption DEF BudgetInv, Shape
<1> PICK reg : reg = Swept
  OBVIOUS
<1>2. /\ reg \in [Connections -> Budgets \cup {NoBudget}]
      /\ \A l \in Connections : reg[l] = NoBudget \/ reg[l] = registry[l]
  BY SweepIsSafe
<1>3. CASE reg[k] = NoBudget
  <2>1. PICK b \in Unreferenced(reg) :
          /\ budgets' = [budgets EXCEPT ![b] = [NewBudget EXCEPT !.active = 1]]
          /\ registry' = [reg EXCEPT ![k] = b] /\ holds' = [holds EXCEPT ![c] = b]
    BY <1>3 DEF GetBudget
  <2>2. b \in Budgets /\ (\A l \in Connections : reg[l] # b) /\ Holders(b) = {}
    BY DEF Unreferenced, Holders
  <2>3. Cardinality(Holders(b)) = 0
    BY <2>2, FS_EmptySet
  <2>4. PICK r : r = [NewBudget EXCEPT !.active = 1]
    OBVIOUS
  <2>5. r \in Limiters /\ r.active = 1 /\ r.lastUsed = now /\ r.times = {}
    BY <1>1, <2>4, NewBudgetTyped DEF Limiters, NewBudget
  <2>6. /\ budgets' = [budgets EXCEPT ![b] = r] /\ r.active = Cardinality(Holders(b)) + 1
        /\ \A l \in Connections \ {k} : reg[l] # b
    BY <2>1, <2>2, <2>3, <2>4, <2>5
  <2> QED BY <1>3, <2>1, <2>2, <2>5, <2>6
<1>4. CASE reg[k] # NoBudget
  <2> PICK b \in Budgets : b = reg[k]
    BY <1>1, <1>2, <1>4
  <2>1. /\ budgets' = [budgets EXCEPT ![b].lastUsed = now, ![b].active = @ + 1]
        /\ registry' = reg /\ holds' = [holds EXCEPT ![c] = b]
    BY <1>4 DEF GetBudget
  <2>2. budgets[b] \in Limiters /\ budgets[b].active = Cardinality(Holders(b))
    BY <1>1 DEF BudgetInv, Shape, Counted
  <2> PICK r : r = [budgets[b] EXCEPT !.lastUsed = now, !.active = budgets[b].active + 1]
    OBVIOUS
  <2>3. budgets[b].active + 1 \in Nat
    BY <2>2 DEF Limiters
  <2>4. /\ r \in Limiters /\ r.active = Cardinality(Holders(b)) + 1 /\ r.lastUsed = now
        /\ r.times = budgets[b].times /\ r.pausedUntil = budgets[b].pausedUntil
    BY <1>1, <2>2, <2>3 DEF Limiters
  <2>5. budgets' = [budgets EXCEPT ![b] = r]
    BY <1>1, <2>1, <2>2 DEF Shape, Limiters
  <2>6. \A l \in Connections \ {k} : reg[l] # b
    BY <1>1, <1>2, <1>4 DEF BudgetInv, Counted
  <2>7. registry' = [reg EXCEPT ![k] = b]
    BY <1>1, <1>2, <2>1
  <2>8. holds' = [holds EXCEPT ![c] = b] /\ reg[k] = b
    BY <2>1
  <2> HIDE DEF k
  <2> r \in Limiters
    BY <2>4
  <2>9. /\ budgets' = [budgets EXCEPT ![b] = r] /\ holds' = [holds EXCEPT ![c] = b]
        /\ registry' = [reg EXCEPT ![k] = b]
        /\ \A l \in Connections \ {k} : reg[l] # b
        /\ r.active = Cardinality(Holders(b)) + 1 /\ r.lastUsed = now
        /\ reg[k] = b /\ r.times = budgets[b].times /\ r.pausedUntil = budgets[b].pausedUntil
    BY <2>4, <2>5, <2>6, <2>7, <2>8
  <2> USE DEF k
  <2> QED BY <2>9
<1> QED BY <1>3, <1>4

(* A call gets the budget of its connection, which becomes one in use, or a
   new one, which is empty as the last request and deadline are over. *)
LEMMA GetStep ==
  ASSUME BudgetInv, NEW c \in Calls, GetBudget(c)
  PROVE  BudgetInv'
<1> DEFINE k == ConnectionOf[c]
<1>1. /\ k \in Connections /\ Shape /\ now \in Nat /\ holds[c] = NoBudget
      /\ UNCHANGED <<now, sent, ordered>> /\ stage' = [stage EXCEPT ![c] = "acquiring"]
  BY BudgetAssumption DEF BudgetInv, Shape, Counted, GetBudget
<1> PICK reg : reg = Swept
  OBVIOUS
<1>2. /\ reg \in [Connections -> Budgets \cup {NoBudget}]
      /\ \A d \in Calls : holds[d] # NoBudget => reg[ConnectionOf[d]] = holds[d]
      /\ \A l \in Connections :
           \/ reg[l] = registry[l] /\ reg[l] # NoBudget
           \/ /\ reg[l] = NoBudget /\ ordered[l] =< now
              /\ \A t \in sent[l] : t + Spacing =< now
  BY SweepIsSafe
<1>3. PICK b \in Budgets, r \in Limiters :
        /\ budgets' = [budgets EXCEPT ![b] = r] /\ holds' = [holds EXCEPT ![c] = b]
        /\ registry' = [reg EXCEPT ![k] = b]
        /\ \A l \in Connections \ {k} : reg[l] # b
        /\ r.active = Cardinality(Holders(b)) + 1 /\ r.lastUsed = now
        /\ \/ reg[k] = NoBudget
           \/ /\ reg[k] = b /\ r.times = budgets[b].times /\ r.pausedUntil = budgets[b].pausedUntil
  BY GetShape
<1> HIDE DEF k
<1>4. /\ budgets'[b] = r /\ \A d \in Budgets \ {b} : budgets'[d] = budgets[d]
      /\ registry'[k] = b /\ \A l \in Connections \ {k} : registry'[l] = reg[l]
  BY <1>1, <1>2, <1>3 DEF Shape
<1>5. Shape'
  BY <1>1, <1>2, <1>3 DEF Shape, Stages
<1>6. Counted'
  <2>1. \A d \in Calls : stage'[d] \in {"idle", "retrying"} <=> holds'[d] = NoBudget
    BY <1>1, <1>3, NoBudgetIsNone DEF BudgetInv, Counted, Shape
  <2>2. \A l, m \in Connections : registry'[l] = registry'[m] /\ registry'[l] # NoBudget => l = m
    BY <1>2, <1>3, <1>4 DEF BudgetInv, Counted
  <2>3. \A d \in Budgets : budgets'[d].active = Cardinality(Holders(d)')
    <3>1. /\ Cardinality(Holders(b)') = Cardinality(Holders(b)) + 1
          /\ \A d \in Budgets \ {b} : Holders(d)' = Holders(d)
      BY <1>1, <1>3, HolderJoins
    <3> QED BY <1>3, <1>4, <3>1 DEF BudgetInv, Counted
  <2> QED BY <2>1, <2>2, <2>3 DEF Counted
<1>7. BudgetInUseIsKept'
  <2>1. ASSUME NEW d \in Calls, holds'[d] # NoBudget
        PROVE  registry'[ConnectionOf[d]] = holds'[d]
    <3>1. ConnectionOf[d] \in Connections
      BY BudgetAssumption
    <3>2. CASE d = c
      BY <1>1, <1>3, <1>4, <3>2 DEF Shape, k
    <3>3. CASE d # c
      <4>1. holds'[d] = holds[d] /\ reg[ConnectionOf[d]] = holds[d]
        BY <1>1, <1>2, <1>3, <2>1, <3>3 DEF Shape
      <4> QED BY <1>3, <1>4, <2>1, <3>1, <4>1
    <3> QED BY <3>2, <3>3
  <2> QED BY <2>1 DEF BudgetInUseIsKept
<1>8. Past'
  BY <1>1, <1>3, <1>4 DEF BudgetInv, Past
<1>9. Paced'
  <2>1. ASSUME NEW l \in Connections, NEW t \in sent[l]
        PROVE  t =< now /\ Remembered(t, registry[l])'
    <3>1. t \in Nat /\ t =< now /\ Remembered(t, registry[l])
      BY <1>1 DEF BudgetInv, Paced, Shape
    <3>2. CASE reg[l] = NoBudget
      <4>1. t + Spacing =< now
        BY <1>2, <3>2
      <4> QED BY <1>1, <3>1, <4>1 DEF Remembered
    <3>3. CASE l = k /\ reg[l] = b /\ reg[l] = registry[l]
      BY <1>1, <1>3, <1>4, <3>1, <3>3, NoBudgetIsNone DEF Remembered
    <3>4. CASE l # k /\ reg[l] = registry[l]
      BY <1>1, <1>3, <1>4, <3>1, <3>4 DEF Remembered
    <3> QED BY <1>2, <1>3, <3>2, <3>3, <3>4
  <2> QED BY <1>1, <2>1 DEF Paced
<1>10. Cooled'
  <2>1. ASSUME NEW l \in Connections PROVE Deferred(ordered[l], registry[l])'
    <3>1. Deferred(ordered[l], registry[l])
      BY DEF BudgetInv, Cooled
    <3>2. CASE reg[l] = NoBudget
      BY <1>1, <1>2, <3>2 DEF Deferred
    <3>3. CASE l = k /\ reg[l] = b /\ reg[l] = registry[l]
      <4>1. budgets[b].lastUsed =< now /\ budgets[b].lastUsed \in Nat /\ IdleEvict \in Nat
            /\ ordered[l] \in Nat
        BY <1>1, BudgetAssumption DEF BudgetInv, Past, Shape, Limiters
      <4> QED BY <1>1, <1>3, <1>4, <3>1, <3>3, <4>1, NoBudgetIsNone DEF Deferred
    <3>4. CASE l # k /\ reg[l] = registry[l]
      BY <1>1, <1>3, <1>4, <3>1, <3>4 DEF Deferred
    <3> QED BY <1>2, <1>3, <3>2, <3>3, <3>4
  <2> QED BY <2>1 DEF Cooled
<1> QED BY <1>5, <1>6, <1>7, <1>8, <1>9, <1>10 DEF BudgetInv

(* A throttle orders a deadline that lies within the idle time of eviction. *)
LEMMA ThrottleStep ==
  ASSUME BudgetInv, NEW c \in Calls, Throttle(c)
  PROVE  BudgetInv'
<1>1. stage[c] = "calling" /\ holds[c] # NoBudget
  BY DEF Throttle, BudgetInv, Counted
<1>2. /\ ConnectionOf[c] \in Connections /\ budgets[holds[c]] \in Limiters
  BY <1>1, OwnBudget
<1>3. Shape /\ now \in Nat /\ IdleEvict \in Nat /\ ordered[ConnectionOf[c]] \in Nat
  BY <1>2, BudgetAssumption DEF BudgetInv, Shape
<1> PICK h : h = budgets[holds[c]]
  OBVIOUS
<1>4. PICK retryAfter \in RetryAfters, pause \in Cooldowns(Min({h.level + 1, MaxLevel})) :
        LET deadline == now + (IF pause > retryAfter THEN pause ELSE retryAfter) IN
        /\ Release(c, Throttled(h, deadline))
        /\ ordered' = [ordered EXCEPT ![ConnectionOf[c]] = Max({@, deadline})]
  BY DEF Throttle
<1>5. /\ retryAfter \in Nat /\ pause \in Nat /\ retryAfter =< IdleEvict /\ pause =< IdleEvict
  <2>1. pause \in 0..(CooldownCap + Jitter)
    BY DEF Cooldowns
  <2> QED BY <2>1, BudgetAssumption DEF RetryAfters
<1> PICK deadline : deadline = now + (IF pause > retryAfter THEN pause ELSE retryAfter)
  OBVIOUS
<1>6. deadline \in Nat /\ deadline \in Int /\ deadline =< now + IdleEvict
  BY <1>3, <1>5
<1> PICK b : b = Throttled(h, deadline)
  OBVIOUS
<1>7. /\ b \in Limiters /\ b.active = h.active /\ b.times = h.times
      /\ b.pausedUntil >= h.pausedUntil /\ b.pausedUntil >= deadline
  BY <1>2, <1>3, <1>6, ThrottledKeeps
<1> PICK until : until = Max({ordered[ConnectionOf[c]], deadline})
  OBVIOUS
<1>8. until \in {ordered[ConnectionOf[c]], deadline}
  <2>1. ordered[ConnectionOf[c]] \in Int
    BY <1>3
  <2> QED BY <1>6, <2>1, OfTwo, Zenon
<1>9. /\ until \in Nat
      /\ \/ until = ordered[ConnectionOf[c]]
         \/ until =< b.pausedUntil /\ until =< now + IdleEvict
  BY <1>3, <1>6, <1>7, <1>8 DEF Limiters
<1>10. Release(c, b) /\ ordered' = [ordered EXCEPT ![ConnectionOf[c]] = until]
  BY <1>4
<1>11. UNCHANGED <<now, registry, sent>> /\ \E s \in {"idle", "retrying"} : stage' = [stage EXCEPT ![c] = s]
  BY DEF Throttle, RetryOrGiveUp
<1> QED BY <1>1, <1>7, <1>9, <1>10, <1>11, ReleaseStep

(* The other ends of a call give its budget back as it is. *)
LEMMA EndStep ==
  ASSUME BudgetInv, NEW c \in Calls, Return(c) \/ TransientError(c) \/ Cancel(c)
  PROVE  BudgetInv'
<1>1. Shape /\ ordered \in [Connections -> Nat] /\ ConnectionOf[c] \in Connections
  BY BudgetAssumption DEF BudgetInv, Shape
<1>2. PICK s \in {"idle", "retrying"} : stage' = [stage EXCEPT ![c] = s]
  BY DEF Return, TransientError, RetryOrGiveUp, Cancel
<1>3. UNCHANGED <<now, registry, sent, ordered>>
  BY DEF Return, TransientError, Cancel
<1>4. CASE holds[c] # NoBudget
  <2>1. Release(c, budgets[holds[c]])
    BY <1>4 DEF Return, TransientError, Cancel
  <2> PICK b : b = budgets[holds[c]]
    OBVIOUS
  <2>2. b \in Limiters /\ b.pausedUntil >= b.pausedUntil
    BY <1>4, OwnBudget DEF Limiters
  <2> PICK deadline \in Nat : deadline = ordered[ConnectionOf[c]]
    BY <1>1
  <2>3. ordered' = [ordered EXCEPT ![ConnectionOf[c]] = deadline]
    BY <1>1, <1>3
  <2> QED BY <1>2, <1>3, <1>4, <2>1, <2>2, <2>3, ReleaseStep
<1>5. CASE holds[c] = NoBudget
  <2>1. UNCHANGED <<budgets, holds>> /\ stage[c] \in {"idle", "retrying"}
    BY <1>5 DEF BudgetInv, Counted, Return, TransientError, Cancel
  <2>2. Shape'
    BY <1>1, <1>2, <1>3, <2>1 DEF Shape, Stages
  <2>3. Counted'
    BY <1>1, <1>2, <1>3, <2>1 DEF BudgetInv, Counted, Shape, Holders
  <2> QED BY <1>3, <2>1, <2>2, <2>3
          DEF BudgetInv, BudgetInUseIsKept, Past, Paced, Remembered, Cooled, Deferred
<1> QED BY <1>4, <1>5

----------------------------------------------------------------------------
(* The first theorems *)

LEMMA BudgetStep == BudgetInv /\ [BudgetNext]_budgetVars => BudgetInv'
<1>1. BudgetInv /\ UNCHANGED budgetVars => BudgetInv'
  BY DEF budgetVars, BudgetInv, Shape, Counted, Holders, BudgetInUseIsKept, Past, Paced,
         Remembered, Cooled, Deferred
<1> QED BY <1>1, TickStep, GetStep, AcquireStep, WaitStep, ThrottleStep, EndStep DEF BudgetNext

LEMMA BudgetInvariant == BudgetSpec => []BudgetInv
<1>1. BudgetInit => BudgetInv
  <2> SUFFICES ASSUME BudgetInit PROVE BudgetInv
    OBVIOUS
  <2>1. Shape
    BY NewBudgetTyped DEF BudgetInit, Shape, Stages
  <2>2. \A b \in Budgets : budgets[b].active = 0 /\ budgets[b].lastUsed = 0 /\ Holders(b) = {}
    BY NoBudgetIsNone DEF BudgetInit, NewBudget, Holders
  <2>3. Counted
    BY <2>2, FS_EmptySet DEF BudgetInit, Counted
  <2>4. BudgetInUseIsKept /\ Past /\ Paced /\ Cooled
    BY <2>2 DEF BudgetInit, BudgetInUseIsKept, Past, Paced, Cooled, Deferred
  <2> QED BY <2>1, <2>3, <2>4 DEF BudgetInv
<1> QED BY <1>1, BudgetStep, PTL DEF BudgetSpec

(* Eviction never takes a budget from under a request, for `active` counts the
   requests that hold it (_BudgetRegistry.get, release). *)
THEOREM BudgetsInUseKept == BudgetSpec => []BudgetInUseIsKept
<1>1. BudgetInv => BudgetInUseIsKept
  BY DEF BudgetInv
<1> QED BY <1>1, BudgetInvariant, PTL

(* Requests of a connection are let go a spacing apart, across evictions too
   (_reserve, _evict_idle). *)
THEOREM PacedReleases == BudgetSpec => ReleasesArePaced
<1>1. BudgetInv /\ [BudgetNext]_budgetVars =>
        [\A c \in Calls :
           stage[c] = "acquiring" /\ stage'[c] = "queued" =>
             \A t \in sent[ConnectionOf[c]] : t + Spacing =< now]_budgetVars
  <2> SUFFICES ASSUME BudgetInv, BudgetNext, NEW c \in Calls,
                      stage[c] = "acquiring", stage'[c] = "queued",
                      NEW t \in sent[ConnectionOf[c]]
               PROVE  t + Spacing =< now
    OBVIOUS
  <2>0. Shape /\ now \in Nat /\ Spacing \in Nat /\ holds[c] # NoBudget
    BY BudgetAssumption DEF BudgetInv, Shape, Counted
  <2>1. Acquire(c)
    <3>1. ASSUME NEW d \in Calls, Acquire(d) PROVE Acquire(c)
      BY <2>0, <3>1 DEF Acquire, Shape
    <3> QED BY <2>0, <3>1
            DEF BudgetNext, Tick, GetBudget, EnterSemaphore, SendRequest, Return, Throttle,
                TransientError, RetryOrGiveUp, Cancel, Shape
  <2> PICK h \in Budgets : h = holds[c]
    BY <2>0, OwnBudget
  <2>2. /\ ConnectionOf[c] \in Connections /\ registry[ConnectionOf[c]] = h /\ budgets[h] \in Limiters
    BY <2>0, OwnBudget
  <2> PICK b : b = Refreshed(budgets[h])
    OBVIOUS
  <2>3. b \in Limiters /\ \A u \in budgets[h].times \ b.times : u + Spacing =< now
    BY <2>0, <2>2, RefreshedKeeps
  <2>4. Waits(b) = {}
    BY <2>0, <2>1 DEF Acquire, Shape
  <2>5. \A u \in b.times : ~ (now < u + Spacing)
    BY <2>4 DEF Waits
  <2>6. t \in Nat /\ (t + Spacing =< now \/ t \in budgets[h].times)
    BY <2>0, <2>2 DEF BudgetInv, Paced, Remembered, Shape
  <2> QED BY <2>0, <2>3, <2>5, <2>6 DEF Limiters
<1> QED BY <1>1, BudgetInvariant, PTL DEF BudgetSpec, ReleasesArePaced

(* No request goes on the wire before the end of a cooldown that any answer to
   its connection has set, across evictions too (wait_out_cooldown). *)
THEOREM CooldownsHonoured == BudgetSpec => CooldownIsHonoured
<1>1. BudgetInv /\ [BudgetNext]_budgetVars =>
        [\A c \in Calls :
           stage[c] # "calling" /\ stage'[c] = "calling" => now >= ordered[ConnectionOf[c]]]_budgetVars
  <2> SUFFICES ASSUME BudgetInv, BudgetNext, NEW c \in Calls,
                      stage[c] # "calling", stage'[c] = "calling"
               PROVE  now >= ordered[ConnectionOf[c]]
    OBVIOUS
  <2>0. Shape /\ now \in Nat
    BY DEF BudgetInv, Shape
  <2>1. SendRequest(c)
    <3>1. ASSUME NEW d \in Calls, SendRequest(d) PROVE SendRequest(c)
      BY <2>0, <3>1 DEF SendRequest, Shape
    <3> QED BY <2>0, <3>1
            DEF BudgetNext, Tick, GetBudget, EnterSemaphore, Acquire, Return, Throttle,
                TransientError, RetryOrGiveUp, Cancel, Shape
  <2>2. stage[c] = "admitted" /\ ~ Paused(budgets[holds[c]])
    BY <2>1 DEF SendRequest
  <2>3. holds[c] # NoBudget
    BY <2>2 DEF BudgetInv, Counted
  <2>4. ConnectionOf[c] \in Connections /\ registry[ConnectionOf[c]] = holds[c] /\ budgets[holds[c]] \in Limiters
    BY <2>3, OwnBudget
  <2>5. Deferred(ordered[ConnectionOf[c]], holds[c]) /\ ordered[ConnectionOf[c]] \in Nat
    BY <2>0, <2>4 DEF BudgetInv, Cooled, Shape
  <2> QED BY <2>0, <2>2, <2>4, <2>5 DEF Deferred, Paused, Limiters
<1> QED BY <1>1, BudgetInvariant, PTL DEF BudgetSpec, CooldownIsHonoured

----------------------------------------------------------------------------
(* Why a request that sleeps until w cannot go before that *)

Reason(w, b) ==
  \/ w =< b.pausedUntil
  \/ \E t \in b.times : w =< t + Spacing
  \/ Cardinality({t \in b.times : w =< t + Minute}) >= PerMinute
  \/ Cardinality({t \in b.times : w =< t + Hour}) >= PerHour

(* A limiter whose log is of the past, and free of what _reserve forgets *)
Logged(b) == \A t \in b.times : t =< now
Fresh(b) == Paused(b) \/ \A t \in b.times : t > now - Hour

LEMMA Windows ==
  /\ Minute \in Nat \ {0} /\ Hour \in Nat \ {0} /\ Minute =< Hour
  /\ Spacing \in Nat \ {0} /\ Spacing =< Hour
  /\ PerMinute \in Nat \ {0} /\ PerHour \in Nat \ {0}
BY BudgetAssumption, SpacingIsShort

(* What a refresh leaves is fresh, and what it drops is an hour old. *)
LEMMA RefreshedIsFresh ==
  ASSUME now \in Nat, NEW b \in Limiters
  PROVE  /\ Fresh(Refreshed(b))
         /\ \A t \in b.times \ Refreshed(b).times : t + Hour =< now
<1>1. CASE Paused(b)
  BY <1>1 DEF Refreshed, Fresh
<1>2. CASE ~ Paused(b)
  <2>1. Refreshed(b).times = {t \in b.times : t > now - Hour}
    BY <1>2 DEF Refreshed, Limiters
  <2> QED BY <2>1, Windows DEF Fresh, Limiters
<1> QED BY <1>1, <1>2

(* The wait that _reserve computes has a reason to its end. *)
LEMMA WaitHasReason ==
  ASSUME now \in Nat, NEW b \in Limiters, Logged(b), Fresh(b), Waits(b) # {}
  PROVE  Min(Waits(b)) \in Nat /\ Reason(now + Min(Waits(b)), b)
<1>1. b.times \in SUBSET (0..now) /\ b.times \in SUBSET Nat /\ b.pausedUntil \in Nat
  BY DEF Limiters, Logged
<1>2. CASE Paused(b)
  <2>1. Waits(b) = {b.pausedUntil - now} /\ b.pausedUntil - now \in Nat
    BY <1>1, <1>2 DEF Waits, Paused
  <2>2. Min(Waits(b)) = b.pausedUntil - now
    BY <2>1, Earliest
  <2> QED BY <1>1, <2>1, <2>2 DEF Reason
<1>3. CASE ~ Paused(b) /\ \E t \in b.times : now < t + Spacing
  <2>1. Waits(b) = {Max(b.times) + Spacing - now}
    BY <1>3 DEF Waits
  <2>2. Max(b.times) \in b.times /\ \A t \in b.times : Max(b.times) >= t
    BY <1>1, <1>3, Latest
  <2>3. Max(b.times) + Spacing - now \in Nat
    BY <1>1, <1>3, <2>2, Windows
  <2>4. Min(Waits(b)) = Max(b.times) + Spacing - now
    BY <2>1, <2>3, Earliest
  <2> QED BY <1>1, <2>2, <2>3, <2>4, Windows DEF Reason
<1>4. CASE ~ Paused(b) /\ ~ \E t \in b.times : now < t + Spacing
  <2> PICK late : late = InMinute(b)
    OBVIOUS
  <2>1. late = {t \in b.times : t > now - Minute} /\ late \in SUBSET (0..now) /\ late \in SUBSET Nat
    BY <1>1 DEF InMinute
  <2>2. Waits(b) = MinuteWait(b) \cup HourWait(b)
    BY <1>4 DEF Waits
  <2>3. /\ MinuteWait(b) = IF Cardinality(late) >= PerMinute THEN {Min(late) + Minute - now} ELSE {}
        /\ HourWait(b) = IF Cardinality(b.times) >= PerHour THEN {Min(b.times) + Hour - now} ELSE {}
    BY DEF MinuteWait, HourWait
  <2>4. ASSUME Cardinality(late) >= PerMinute
        PROVE  /\ Min(late) + Minute - now \in Nat
               /\ \A w \in Int : w =< Min(late) + Minute => late \subseteq {t \in b.times : w =< t + Minute}
    <3>1. late # {}
      BY <2>4, Windows, FS_EmptySet
    <3> PICK least : least = Min(late)
      OBVIOUS
    <3>2. least \in late /\ \A t \in late : least =< t
      BY <2>1, <3>1, Earliest
    <3>3. least \in Nat /\ least > now - Minute /\ Minute \in Nat
      BY <2>1, <3>2, Windows
    <3>4. least + Minute - now \in Nat
      BY <3>3
    <3>5. ASSUME NEW w \in Int, w =< least + Minute, NEW t \in late
          PROVE  t \in b.times /\ w =< t + Minute
      BY <2>1, <3>2, <3>3, <3>5
    <3> QED BY <3>4, <3>5
  <2>5. ASSUME Cardinality(b.times) >= PerHour
        PROVE  /\ Min(b.times) + Hour - now \in Nat
               /\ \A w \in Int : w =< Min(b.times) + Hour => b.times = {t \in b.times : w =< t + Hour}
    <3>1. b.times # {}
      BY <2>5, Windows, FS_EmptySet
    <3>2. Min(b.times) \in b.times /\ \A t \in b.times : Min(b.times) =< t
      BY <1>1, <3>1, Earliest
    <3>3. Min(b.times) > now - Hour
      BY <1>4, <3>2 DEF Fresh
    <3> QED BY <1>1, <3>2, <3>3, Windows
  <2>6. Waits(b) \in SUBSET Nat
    BY <2>2, <2>3, <2>4, <2>5
  <2> PICK wait : wait = Min(Waits(b))
    OBVIOUS
  <2>7. wait \in Waits(b) /\ wait \in Nat
    BY <2>6, Earliest
  <2>8. CASE Cardinality(late) >= PerMinute /\ wait = Min(late) + Minute - now
    <3> DEFINE same == {t \in b.times : now + wait =< t + Minute}
    <3>1. now + wait \in Int /\ now + wait =< Min(late) + Minute
      <4>1. Min(late) \in Nat
        BY <2>1, <2>8, Windows, FS_EmptySet, Earliest
      <4> QED BY <2>7, <2>8, <4>1, Windows
    <3>2. late \subseteq same
      BY <2>4, <2>8, <3>1
    <3>3. same \in SUBSET (0..now)
      BY <1>1
    <3> HIDE DEF same
    <3>4. Cardinality(late) =< Cardinality(same) /\ Cardinality(late) \in Nat /\ Cardinality(same) \in Nat
      BY <2>1, <3>2, <3>3, MomentsFinite, FS_Subset
    <3>5. Cardinality(same) >= PerMinute
      BY <2>8, <3>4, Windows
    <3> QED BY <2>7, <3>5 DEF Reason, same
  <2>9. CASE Cardinality(b.times) >= PerHour /\ wait = Min(b.times) + Hour - now
    <3>1. now + wait \in Int /\ now + wait =< Min(b.times) + Hour
      <4>1. Min(b.times) \in Nat
        BY <1>1, <2>9, Windows, FS_EmptySet, Earliest
      <4> QED BY <2>7, <2>9, <4>1, Windows
    <3>2. b.times = {t \in b.times : now + wait =< t + Hour}
      BY <2>5, <2>9, <3>1
    <3> QED BY <2>7, <2>9, <3>2 DEF Reason
  <2> QED BY <2>2, <2>3, <2>7, <2>8, <2>9
<1> QED BY <1>2, <1>3, <1>4

(* It keeps the request asleep up to w, *)
LEMMA ReasonHolds ==
  ASSUME now \in Nat, NEW b \in Limiters, Logged(b), NEW w \in Nat, now < w, Reason(w, b)
  PROVE  Waits(Refreshed(b)) # {}
<1> PICK r : r = Refreshed(b)
  OBVIOUS
<1>1. /\ r \in Limiters /\ r.times \subseteq b.times /\ r.pausedUntil = b.pausedUntil
      /\ \A t \in b.times \ r.times : t + Hour =< now
  BY RefreshedKeeps, RefreshedIsFresh
<1>2. b.times \in SUBSET (0..now) /\ r.times \in SUBSET (0..now) /\ b.pausedUntil \in Nat
  BY <1>1 DEF Limiters, Logged
<1>3. CASE Paused(r)
  BY <1>3 DEF Waits
<1>4. CASE ~ Paused(r) /\ \E t \in r.times : now < t + Spacing
  BY <1>4 DEF Waits
<1>5. CASE ~ Paused(r) /\ ~ \E t \in r.times : now < t + Spacing
  <2>1. Waits(r) = MinuteWait(r) \cup HourWait(r)
    BY <1>5 DEF Waits
  <2>2. ~ (w =< b.pausedUntil)
    BY <1>1, <1>2, <1>5 DEF Paused
  <2>3. ~ \E t \in b.times : w =< t + Spacing
    BY <1>1, <1>2, <1>5, Windows
  <2>4. CASE Cardinality({t \in b.times : w =< t + Minute}) >= PerMinute
    <3> DEFINE asleep == {t \in b.times : w =< t + Minute}
    <3> PICK late : late = InMinute(r)
      OBVIOUS
    <3>1. asleep \subseteq late /\ late \in SUBSET (0..now)
      BY <1>1, <1>2, Windows DEF InMinute
    <3>2. asleep \in SUBSET (0..now)
      BY <3>1
    <3> HIDE DEF asleep
    <3>3. Cardinality(asleep) =< Cardinality(late) /\ Cardinality(asleep) \in Nat /\ Cardinality(late) \in Nat
      BY <3>1, <3>2, MomentsFinite, FS_Subset
    <3>4. Cardinality(late) >= PerMinute
      BY <2>4, <3>3, Windows DEF asleep
    <3> QED BY <2>1, <3>4 DEF MinuteWait
  <2>5. CASE Cardinality({t \in b.times : w =< t + Hour}) >= PerHour
    <3> DEFINE asleep == {t \in b.times : w =< t + Hour}
    <3>1. asleep \subseteq r.times
      BY <1>1, <1>2, Windows
    <3>2. asleep \in SUBSET (0..now)
      BY <1>2, <3>1
    <3> HIDE DEF asleep
    <3>3. /\ Cardinality(asleep) =< Cardinality(r.times) /\ Cardinality(asleep) \in Nat
          /\ Cardinality(r.times) \in Nat
      BY <1>2, <3>1, <3>2, MomentsFinite, FS_Subset
    <3>4. Cardinality(r.times) >= PerHour
      BY <2>5, <3>3, Windows DEF asleep
    <3> QED BY <2>1, <3>4 DEF HourWait
  <2> QED BY <2>2, <2>3, <2>4, <2>5 DEF Reason
<1> QED BY <1>3, <1>4, <1>5

(* What any step leaves of a budget in use *)
Kept(b, d) ==
  /\ d.pausedUntil >= b.pausedUntil
  /\ \A t \in b.times : t \in d.times \/ t + Hour =< now
  /\ \A t \in d.times : t \in b.times \/ t = now

(* and survives what others do to the budget meanwhile. *)
LEMMA ReasonKept ==
  ASSUME now \in Nat, NEW b \in Limiters, NEW d \in Limiters, Logged(b), Kept(b, d),
         NEW w \in Nat, now < w, Reason(w, b)
  PROVE  Reason(w, d)
<1>1. /\ b.times \in SUBSET (0..now) /\ d.times \in SUBSET (0..now)
      /\ b.pausedUntil \in Nat /\ d.pausedUntil \in Nat
  BY DEF Limiters, Logged, Kept
<1>2. ASSUME NEW span \in Nat, span =< Hour
      PROVE  /\ {t \in b.times : w =< t + span} \subseteq {t \in d.times : w =< t + span}
             /\ Cardinality({t \in b.times : w =< t + span}) \in Nat
             /\ Cardinality({t \in d.times : w =< t + span}) \in Nat
             /\ Cardinality({t \in b.times : w =< t + span}) =< Cardinality({t \in d.times : w =< t + span})
  <2> DEFINE before == {t \in b.times : w =< t + span}
             after == {t \in d.times : w =< t + span}
  <2>1. before \subseteq after
    BY <1>1, <1>2, Windows DEF Kept
  <2>2. before \in SUBSET (0..now) /\ after \in SUBSET (0..now)
    BY <1>1
  <2> HIDE DEF before, after
  <2>3. Cardinality(before) \in Nat /\ Cardinality(after) \in Nat /\ Cardinality(before) =< Cardinality(after)
    BY <2>1, <2>2, MomentsFinite, FS_Subset
  <2> QED BY <2>1, <2>3 DEF before, after
<1>3. CASE w =< b.pausedUntil
  BY <1>1, <1>3 DEF Kept, Reason
<1>4. CASE \E t \in b.times : w =< t + Spacing
  BY <1>1, <1>4, Windows DEF Kept, Reason
<1>5. CASE Cardinality({t \in b.times : w =< t + Minute}) >= PerMinute
  <2> PICK m : m = Cardinality({t \in b.times : w =< t + Minute})
    OBVIOUS
  <2> PICK n : n = Cardinality({t \in d.times : w =< t + Minute})
    OBVIOUS
  <2>1. PerMinute \in Nat /\ m \in Nat /\ n \in Nat /\ m =< n
    <3>1. Minute \in Nat /\ Minute =< Hour /\ PerMinute \in Nat
      BY Windows
    <3>2. m \in Nat /\ n \in Nat /\ m =< n
      BY <1>2, <3>1, Zenon
    <3> QED BY <3>1, <3>2
  <2>2. n >= PerMinute
    BY <1>5, <2>1
  <2> QED BY <2>2 DEF Reason
<1>6. CASE Cardinality({t \in b.times : w =< t + Hour}) >= PerHour
  <2> PICK m : m = Cardinality({t \in b.times : w =< t + Hour})
    OBVIOUS
  <2> PICK n : n = Cardinality({t \in d.times : w =< t + Hour})
    OBVIOUS
  <2>1. PerHour \in Nat /\ m \in Nat /\ n \in Nat /\ m =< n
    <3>1. Hour \in Nat /\ Hour =< Hour /\ PerHour \in Nat
      BY Windows
    <3>2. m \in Nat /\ n \in Nat /\ m =< n
      BY <1>2, <3>1, Zenon
    <3> QED BY <3>1, <3>2
  <2>2. n >= PerHour
    BY <1>6, <2>1
  <2> QED BY <2>2 DEF Reason
<1> QED BY <1>3, <1>4, <1>5, <1>6 DEF Reason

----------------------------------------------------------------------------
(* What the steps leave of a budget in use *)

(* The ends of a call give its budget back, perhaps with a later deadline. *)
LEMMA EndShape ==
  ASSUME BudgetInv, NEW c \in Calls, Return(c) \/ Throttle(c) \/ TransientError(c) \/ Cancel(c)
  PROVE  /\ UNCHANGED <<now, registry, lastEvicted, sent>>
         /\ \E s \in {"idle", "retrying"} : stage' = [stage EXCEPT ![c] = s]
         /\ UNCHANGED wake \/ wake' = [wake EXCEPT ![c] = 0]
         /\ \/ attempts' = [attempts EXCEPT ![c] = 1]
            \/ /\ attempts[c] < MaxRetries
               /\ attempts' = [attempts EXCEPT ![c] = @ + 1]
         /\ holds' = [holds EXCEPT ![c] = NoBudget]
         /\ \/ holds[c] = NoBudget /\ UNCHANGED budgets
            \/ /\ holds[c] \in Budgets
               /\ \E r \in Limiters :
                    /\ budgets' = [budgets EXCEPT ![holds[c]] = r]
                    /\ r.times = budgets[holds[c]].times
                    /\ r.pausedUntil >= budgets[holds[c]].pausedUntil
                    /\ r.lastUsed = now
<1>1. Shape /\ now \in Nat
  BY DEF BudgetInv, Shape
<1>2. /\ UNCHANGED <<now, registry, lastEvicted, sent>>
      /\ UNCHANGED wake \/ wake' = [wake EXCEPT ![c] = 0]
  BY DEF Return, Throttle, TransientError, Cancel
<1>5. \/ stage' = [stage EXCEPT ![c] = "idle"] /\ attempts' = [attempts EXCEPT ![c] = 1]
      \/ /\ attempts[c] < MaxRetries
         /\ stage' = [stage EXCEPT ![c] = "retrying"] /\ attempts' = [attempts EXCEPT ![c] = @ + 1]
  BY DEF Return, Throttle, TransientError, Cancel, RetryOrGiveUp
<1>3. CASE holds[c] = NoBudget
  <2>1. UNCHANGED <<budgets, holds>>
    BY <1>3 DEF BudgetInv, Counted, Return, Throttle, TransientError, Cancel
  <2>2. holds' = [holds EXCEPT ![c] = NoBudget]
    BY <1>1, <1>3, <2>1 DEF Shape
  <2> QED BY <1>2, <1>3, <1>5, <2>1, <2>2
<1>4. CASE holds[c] # NoBudget
  <2> PICK h \in Budgets : h = holds[c]
    BY <1>4, OwnBudget
  <2>1. budgets[h] \in Limiters /\ registry[ConnectionOf[c]] = h
    BY <1>4, OwnBudget
  <2>2. \E b \in Limiters :
          /\ Release(c, b) /\ b.times = budgets[h].times /\ b.pausedUntil >= budgets[h].pausedUntil
    <3>1. CASE Throttle(c)
      <4>1. PICK retryAfter \in RetryAfters, pause \in Cooldowns(Min({budgets[h].level + 1, MaxLevel})) :
              Release(c, Throttled(budgets[h], now + (IF pause > retryAfter THEN pause ELSE retryAfter)))
        BY <3>1 DEF Throttle
      <4>2. pause \in 0..(CooldownCap + Jitter) /\ retryAfter \in Nat
        BY BudgetAssumption DEF Cooldowns, RetryAfters
      <4> PICK deadline : deadline = now + (IF pause > retryAfter THEN pause ELSE retryAfter)
        OBVIOUS
      <4>3. deadline \in Nat
        BY <1>1, <4>2, BudgetAssumption
      <4> QED BY <1>1, <2>1, <4>1, <4>3, ThrottledKeeps
    <3>2. CASE Return(c) \/ TransientError(c) \/ Cancel(c)
      <4>1. Release(c, budgets[h])
        BY <1>4, <3>2 DEF Return, TransientError, Cancel
      <4> QED BY <2>1, <4>1 DEF Limiters
    <3> QED BY <3>1, <3>2
  <2>3. PICK b \in Limiters :
          /\ Release(c, b) /\ b.times = budgets[h].times /\ b.pausedUntil >= budgets[h].pausedUntil
    BY <2>2
  <2> PICK r : r = Released(b)
    OBVIOUS
  <2>4. /\ r \in Limiters /\ r.times = b.times /\ r.pausedUntil = b.pausedUntil /\ r.lastUsed = now
    <3> DEFINE active == IF b.active > 0 THEN b.active - 1 ELSE 0
    <3>1. active \in Nat
      BY DEF Limiters
    <3>2. r = [b EXCEPT !.active = active, !.lastUsed = now]
      BY DEF Released
    <3> HIDE DEF active
    <3> QED BY <1>1, <3>1, <3>2 DEF Limiters
  <2>5. budgets' = [budgets EXCEPT ![h] = r] /\ holds' = [holds EXCEPT ![c] = NoBudget]
    BY <2>1, <2>3 DEF Release
  <2> QED BY <1>2, <1>5, <2>3, <2>4, <2>5
<1> QED BY <1>3, <1>4

(* Whoever waits in a budget finds it as it was, up to a later pause and a log
   with newer requests. *)
LEMMA BudgetsKept ==
  ASSUME BudgetInv, [BudgetNext]_budgetVars
  PROVE  /\ now' \in Nat /\ now =< now'
         /\ \A c \in Calls : holds[c] # NoBudget => Kept(budgets[holds[c]], budgets'[holds[c]])
         /\ \A b \in Budgets : \A t \in budgets'[b].times : t \in budgets[b].times \/ t = now
         /\ \A b \in Budgets : budgets'[b] \in Limiters
<1>1. Shape /\ now \in Nat /\ \A b \in Budgets : Kept(budgets[b], budgets[b]) /\ budgets[b] \in Limiters
  BY DEF BudgetInv, Shape, Kept, Limiters
<1>2. \A c \in Calls : holds[c] # NoBudget => holds[c] \in Budgets
  BY <1>1 DEF Shape
<1>3. ASSUME UNCHANGED <<now, budgets>> \/ Tick
      PROVE  /\ now' \in Nat /\ now =< now' /\ budgets' = budgets
  BY <1>1, <1>3 DEF Tick
<1>4. ASSUME NEW h \in Budgets, NEW r \in Limiters, now' = now, budgets' = [budgets EXCEPT ![h] = r],
             \A t \in r.times : t \in budgets[h].times \/ t = now,
             Holders(h) = {} \/ Kept(budgets[h], r)
      PROVE  /\ now' \in Nat /\ now =< now'
             /\ \A c \in Calls : holds[c] # NoBudget => Kept(budgets[holds[c]], budgets'[holds[c]])
             /\ \A b \in Budgets : \A t \in budgets'[b].times : t \in budgets[b].times \/ t = now
             /\ \A b \in Budgets : budgets'[b] \in Limiters
  <2>1. budgets'[h] = r /\ \A b \in Budgets \ {h} : budgets'[b] = budgets[b]
    BY <1>1, <1>4 DEF Shape
  <2>2. ASSUME NEW c \in Calls, holds[c] # NoBudget PROVE Kept(budgets[holds[c]], budgets'[holds[c]])
    <3>1. CASE holds[c] = h
      <4>1. c \in Holders(h)
        BY <3>1 DEF Holders
      <4> QED BY <1>4, <2>1, <3>1, <4>1
    <3>2. CASE holds[c] # h
      BY <1>1, <1>2, <2>1, <2>2, <3>2
    <3> QED BY <3>1, <3>2
  <2> QED BY <1>1, <1>4, <2>1, <2>2
<1>5. ASSUME NEW c \in Calls, GetBudget(c)
      PROVE  \E h \in Budgets, r \in Limiters :
               /\ now' = now /\ budgets' = [budgets EXCEPT ![h] = r]
               /\ \A t \in r.times : t \in budgets[h].times \/ t = now
               /\ Holders(h) = {} \/ Kept(budgets[h], r)
  <2>1. now' = now
    BY <1>5 DEF GetBudget
  <2>2. PICK b \in Budgets, r \in Limiters :
          /\ budgets' = [budgets EXCEPT ![b] = r]
          /\ \/ Holders(b) = {} /\ r.times = {}
             \/ r.times = budgets[b].times /\ r.pausedUntil = budgets[b].pausedUntil
    BY <1>5, GetShape
  <2>3. budgets[b].pausedUntil \in Nat
    BY <1>1 DEF Limiters
  <2>4. Holders(b) = {} \/ Kept(budgets[b], r)
    BY <2>2, <2>3 DEF Kept
  <2>5. \A t \in r.times : t \in budgets[b].times \/ t = now
    BY <2>2
  <2> QED BY <2>1, <2>2, <2>4, <2>5
<1>6. ASSUME NEW c \in Calls, Acquire(c)
      PROVE  \E h \in Budgets, r \in Limiters :
               /\ now' = now /\ budgets' = [budgets EXCEPT ![h] = r]
               /\ \A t \in r.times : t \in budgets[h].times \/ t = now
               /\ Holders(h) = {} \/ Kept(budgets[h], r)
  <2> PICK h \in Budgets : h = holds[c]
    BY <1>6, AcquireShape
  <2>1. PICK b \in Limiters, r \in Limiters :
          /\ b = Refreshed(budgets[h]) /\ budgets' = [budgets EXCEPT ![h] = r]
          /\ r.pausedUntil = b.pausedUntil
          /\ r.times = b.times \cup {now} \/ r = b
    BY <1>6, AcquireShape
  <2>2. /\ b.pausedUntil = budgets[h].pausedUntil /\ b.times \subseteq budgets[h].times
        /\ \A t \in budgets[h].times \ b.times : t + Hour =< now
    BY <1>1, <2>1, RefreshedKeeps, RefreshedIsFresh
  <2>3. Kept(budgets[h], r)
    BY <1>1, <2>1, <2>2 DEF Kept, Limiters
  <2>4. now' = now
    BY <1>6, AcquireShape
  <2> QED BY <2>1, <2>2, <2>3, <2>4
<1>7. ASSUME NEW c \in Calls, Return(c) \/ Throttle(c) \/ TransientError(c) \/ Cancel(c)
      PROVE  \/ UNCHANGED <<now, budgets>>
             \/ \E h \in Budgets, r \in Limiters :
                  /\ now' = now /\ budgets' = [budgets EXCEPT ![h] = r]
                  /\ \A t \in r.times : t \in budgets[h].times \/ t = now
                  /\ Holders(h) = {} \/ Kept(budgets[h], r)
  <2>1. now' = now
    BY <1>7, EndShape
  <2>2. CASE UNCHANGED budgets
    BY <2>1, <2>2
  <2>3. CASE ~ UNCHANGED budgets
    <3>1. PICK h \in Budgets, r \in Limiters :
            /\ budgets' = [budgets EXCEPT ![h] = r] /\ r.times = budgets[h].times
            /\ r.pausedUntil >= budgets[h].pausedUntil
      BY <1>7, <2>3, EndShape
    <3> QED BY <2>1, <3>1 DEF Kept
  <2> QED BY <2>2, <2>3
<1>8. \/ UNCHANGED <<now, budgets>> \/ Tick
      \/ \E c \in Calls : GetBudget(c) \/ Acquire(c)
      \/ \E c \in Calls : Return(c) \/ Throttle(c) \/ TransientError(c) \/ Cancel(c)
  BY DEF BudgetNext, EnterSemaphore, SendRequest, budgetVars
<1>9. CASE UNCHANGED <<now, budgets>> \/ Tick
  BY <1>1, <1>2, <1>3, <1>9
<1>10. CASE ~ (UNCHANGED <<now, budgets>> \/ Tick)
  <2>1. PICK h \in Budgets, r \in Limiters :
          /\ now' = now /\ budgets' = [budgets EXCEPT ![h] = r]
          /\ \A t \in r.times : t \in budgets[h].times \/ t = now
          /\ Holders(h) = {} \/ Kept(budgets[h], r)
    BY <1>5, <1>6, <1>7, <1>8, <1>10, Zenon
  <2> QED BY <1>4, <2>1
<1> QED BY <1>9, <1>10

----------------------------------------------------------------------------
(* Sleeping *)

Rest ==
  /\ wake \in [Calls -> Nat] /\ lastEvicted \in Nat
  /\ attempts \in [Calls -> 1..MaxRetries]

(* Logs are of the past; only a call in acquire() sleeps, and with a reason. *)
LogsPast == \A b \in Budgets : Logged(budgets[b])
Sleepers ==
  \A c \in Calls :
    /\ stage[c] # "acquiring" => wake[c] = 0
    /\ stage[c] = "acquiring" /\ now < wake[c] => Reason(wake[c], budgets[holds[c]])

SleepInv == BudgetInv /\ Rest /\ LogsPast /\ Sleepers

(* The variables the other invariants leave out *)
LEMMA RestStep ==
  ASSUME SleepInv, [BudgetNext]_budgetVars
  PROVE  Rest' /\ LogsPast'
<1>1. Shape /\ now \in Nat /\ Rest
  BY DEF SleepInv, BudgetInv, Shape
<1>2. /\ now' \in Nat /\ now =< now'
      /\ \A b \in Budgets : \A t \in budgets'[b].times : t \in budgets[b].times \/ t = now
  BY BudgetsKept DEF SleepInv
<1>3. LogsPast'
  <2>1. ASSUME NEW b \in Budgets, NEW t \in budgets'[b].times PROVE t =< now'
    <3>1. t \in Nat /\ t =< now
      BY <1>1, <1>2, <2>1 DEF SleepInv, LogsPast, Logged, Shape, Limiters
    <3> QED BY <1>1, <1>2, <3>1
  <2> QED BY <2>1 DEF LogsPast, Logged
<1>4. ASSUME NEW c \in Calls, GetBudget(c) PROVE Rest'
  BY <1>1, <1>4 DEF GetBudget, Rest
<1>5. ASSUME NEW c \in Calls, Acquire(c) PROVE Rest'
  <2> PICK h \in Budgets : h = holds[c]
    BY <1>5, AcquireShape DEF SleepInv
  <2>1. PICK b \in Limiters :
          /\ b = Refreshed(budgets[h])
          /\ \/ wake' = [wake EXCEPT ![c] = 0]
             \/ Waits(b) # {} /\ wake' = [wake EXCEPT ![c] = now + Min(Waits(b))]
    BY <1>5, AcquireShape DEF SleepInv
  <2>2. UNCHANGED <<lastEvicted, attempts>>
    BY <1>5, AcquireShape DEF SleepInv
  <2>3. Waits(b) # {} => now + Min(Waits(b)) \in Nat
    <3>1. budgets[h] \in Limiters /\ Logged(budgets[h])
      BY <1>1 DEF SleepInv, LogsPast, Shape
    <3>2. Fresh(b) /\ b.times \subseteq budgets[h].times
      BY <1>1, <2>1, <3>1, RefreshedKeeps, RefreshedIsFresh
    <3>3. Logged(b)
      BY <3>1, <3>2 DEF Logged
    <3>4. Waits(b) # {} => Min(Waits(b)) \in Nat
      BY <1>1, <3>2, <3>3, WaitHasReason
    <3> QED BY <1>1, <3>4
  <2> QED BY <1>1, <2>1, <2>2, <2>3 DEF Rest
<1>6. ASSUME NEW c \in Calls, Return(c) \/ Throttle(c) \/ TransientError(c) \/ Cancel(c)
      PROVE  Rest'
  <2>1. /\ lastEvicted' = lastEvicted
        /\ UNCHANGED wake \/ wake' = [wake EXCEPT ![c] = 0]
        /\ \/ attempts' = [attempts EXCEPT ![c] = 1]
           \/ /\ attempts[c] < MaxRetries
              /\ attempts' = [attempts EXCEPT ![c] = attempts[c] + 1]
    BY <1>6, EndShape DEF SleepInv
  <2>2. MaxRetries \in Nat \ {0} /\ attempts[c] \in 1..MaxRetries
    BY <1>1, BudgetAssumption DEF Rest
  <2>3. 1 \in 1..MaxRetries /\ (attempts[c] < MaxRetries => attempts[c] + 1 \in 1..MaxRetries)
    BY <2>2
  <2>4. wake' \in [Calls -> Nat]
    BY <1>1, <2>1 DEF Rest
  <2>5. attempts' \in [Calls -> 1..MaxRetries]
    BY <1>1, <2>1, <2>3 DEF Rest
  <2> QED BY <1>1, <2>1, <2>4, <2>5 DEF Rest
<1>7. ASSUME UNCHANGED <<wake, lastEvicted, attempts>> PROVE Rest'
  BY <1>1, <1>7 DEF Rest
<1>8. \/ UNCHANGED <<wake, lastEvicted, attempts>>
      \/ \E c \in Calls : GetBudget(c) \/ Acquire(c)
      \/ \E c \in Calls : Return(c) \/ Throttle(c) \/ TransientError(c) \/ Cancel(c)
  BY DEF BudgetNext, EnterSemaphore, SendRequest, Tick, budgetVars
<1>9. Rest'
  BY <1>4, <1>5, <1>6, <1>7, <1>8, Zenon
<1> QED BY <1>3, <1>9

(* A call that goes on sleeping keeps its budget. *)
LEMMA SleepersStep ==
  ASSUME SleepInv, [BudgetNext]_budgetVars
  PROVE  Sleepers'
<1>1. Shape /\ now \in Nat /\ Rest /\ BudgetInv
  BY DEF SleepInv, BudgetInv, Shape
<1>2. /\ now' \in Nat /\ now =< now'
      /\ \A c \in Calls : holds[c] # NoBudget => Kept(budgets[holds[c]], budgets'[holds[c]])
      /\ \A b \in Budgets : budgets'[b] \in Limiters
  BY BudgetsKept DEF SleepInv
<1>3. Rest'
  BY RestStep
<1> DEFINE Good(c) ==
             /\ stage'[c] # "acquiring" => wake'[c] = 0
             /\ stage'[c] = "acquiring" /\ now' < wake'[c] => Reason(wake'[c], budgets'[holds'[c]])
<1>4. ASSUME NEW c \in Calls, stage'[c] = stage[c], wake'[c] = wake[c], holds'[c] = holds[c]
      PROVE  Good(c)
  <2>1. CASE stage[c] # "acquiring"
    BY <1>4, <2>1 DEF SleepInv, Sleepers
  <2>2. CASE stage[c] = "acquiring" /\ now' < wake[c]
    <3>1. wake[c] \in Nat /\ now < wake[c]
      BY <1>1, <1>2, <2>2 DEF Rest
    <3>2. holds[c] \in Budgets
      BY <1>1, <2>2 DEF BudgetInv, Counted, Shape
    <3>3. /\ budgets[holds[c]] \in Limiters /\ budgets'[holds[c]] \in Limiters
          /\ Logged(budgets[holds[c]]) /\ Kept(budgets[holds[c]], budgets'[holds[c]])
      BY <1>1, <1>2, <3>2, NoBudgetIsNone DEF SleepInv, LogsPast, Shape
    <3>4. Reason(wake[c], budgets[holds[c]])
      BY <2>2, <3>1 DEF SleepInv, Sleepers
    <3>5. Reason(wake[c], budgets'[holds[c]])
      BY <1>1, <3>1, <3>3, <3>4, ReasonKept
    <3> QED BY <1>4, <2>2, <3>5
  <2>3. CASE stage[c] = "acquiring" /\ ~ (now' < wake[c])
    BY <1>4, <2>3
  <2> QED BY <2>1, <2>2, <2>3
<1>5. ASSUME NEW c \in Calls, wake'[c] = 0 PROVE Good(c)
  BY <1>2, <1>5
<1>6. ASSUME NEW c \in Calls, GetBudget(c) PROVE \A d \in Calls : Good(d)
  <2>1. /\ UNCHANGED wake /\ stage' = [stage EXCEPT ![c] = "acquiring"]
        /\ stage[c] # "acquiring" /\ \E b \in Budgets : holds' = [holds EXCEPT ![c] = b]
    BY <1>1, <1>6, GetShape DEF GetBudget
  <2>2. wake'[c] = 0
    BY <2>1 DEF SleepInv, Sleepers
  <2>3. \A d \in Calls \ {c} : stage'[d] = stage[d] /\ wake'[d] = wake[d] /\ holds'[d] = holds[d]
    BY <1>1, <2>1 DEF Shape
  <2> HIDE DEF Good
  <2> QED BY <1>4, <1>5, <2>2, <2>3
<1>7. ASSUME NEW c \in Calls, Acquire(c) PROVE \A d \in Calls : Good(d)
  <2> PICK h \in Budgets : h = holds[c]
    BY <1>1, <1>7, AcquireShape
  <2>0. holds' = holds /\ now' = now /\ stage[c] = "acquiring"
    BY <1>1, <1>7, AcquireShape
  <2>1. PICK b \in Limiters, r \in Limiters :
          /\ b = Refreshed(budgets[h]) /\ budgets' = [budgets EXCEPT ![h] = r]
          /\ \/ /\ stage' = [stage EXCEPT ![c] = "queued"] /\ wake' = [wake EXCEPT ![c] = 0]
             \/ /\ Waits(b) # {} /\ r = b /\ UNCHANGED <<sent, stage>>
                /\ wake' = [wake EXCEPT ![c] = now + Min(Waits(b))]
    BY <1>1, <1>7, AcquireShape
  <2>2. \A d \in Calls \ {c} : stage'[d] = stage[d] /\ wake'[d] = wake[d] /\ holds'[d] = holds[d]
    BY <1>1, <2>0, <2>1 DEF Shape, Rest
  <2>3. Good(c)
    <3>1. CASE wake' = [wake EXCEPT ![c] = 0]
      <4>1. wake'[c] = 0
        BY <1>1, <3>1 DEF Rest
      <4> QED BY <1>5, <4>1
    <3>2. CASE /\ Waits(b) # {} /\ r = b /\ UNCHANGED <<sent, stage>>
               /\ wake' = [wake EXCEPT ![c] = now + Min(Waits(b))]
      <4>1. budgets[h] \in Limiters /\ Logged(budgets[h])
        BY <1>1 DEF SleepInv, LogsPast, Shape
      <4>2. Fresh(b) /\ b.times \subseteq budgets[h].times
        BY <1>1, <2>1, <4>1, RefreshedKeeps, RefreshedIsFresh
      <4>3. Logged(b)
        BY <4>1, <4>2 DEF Logged
      <4>4. Reason(now + Min(Waits(b)), b)
        BY <1>1, <3>2, <4>2, <4>3, WaitHasReason
      <4>5. wake'[c] = now + Min(Waits(b)) /\ budgets'[h] = b /\ stage'[c] = "acquiring" /\ holds'[c] = h
        BY <1>1, <2>0, <2>1, <3>2 DEF Rest, Shape
      <4> QED BY <4>4, <4>5
    <3> QED BY <2>1, <3>1, <3>2
  <2> HIDE DEF Good
  <2> QED BY <1>4, <2>2, <2>3
<1>8. ASSUME NEW c \in Calls, EnterSemaphore(c) \/ SendRequest(c) PROVE \A d \in Calls : Good(d)
  <2>1. UNCHANGED <<wake, holds>> /\ stage[c] # "acquiring"
        /\ \E s \in {"admitted", "calling"} : stage' = [stage EXCEPT ![c] = s]
    BY <1>8 DEF EnterSemaphore, SendRequest
  <2>2. wake'[c] = 0
    BY <2>1 DEF SleepInv, Sleepers
  <2>3. \A d \in Calls \ {c} : stage'[d] = stage[d] /\ wake'[d] = wake[d] /\ holds'[d] = holds[d]
    BY <1>1, <2>1 DEF Shape
  <2> HIDE DEF Good
  <2> QED BY <1>4, <1>5, <2>2, <2>3
<1>9. ASSUME NEW c \in Calls, Return(c) \/ Throttle(c) \/ TransientError(c) \/ Cancel(c)
      PROVE  \A d \in Calls : Good(d)
  <2>1. /\ \E s \in {"idle", "retrying"} : stage' = [stage EXCEPT ![c] = s]
        /\ UNCHANGED wake \/ wake' = [wake EXCEPT ![c] = 0]
        /\ holds' = [holds EXCEPT ![c] = NoBudget]
    BY <1>1, <1>9, EndShape
  <2>2. wake'[c] = 0
    <3>1. CASE stage[c] = "acquiring"
      <4>1. Cancel(c)
        BY <1>9, <3>1 DEF Return, Throttle, TransientError
      <4> QED BY <1>1, <4>1 DEF Cancel, Rest
    <3>2. CASE stage[c] # "acquiring"
      <4>1. wake[c] = 0
        BY <3>2 DEF SleepInv, Sleepers
      <4> QED BY <1>1, <2>1, <4>1 DEF Rest
    <3> QED BY <3>1, <3>2
  <2>3. \A d \in Calls \ {c} : stage'[d] = stage[d] /\ wake'[d] = wake[d] /\ holds'[d] = holds[d]
    BY <1>1, <2>1 DEF Shape, Rest
  <2> HIDE DEF Good
  <2> QED BY <1>4, <1>5, <2>2, <2>3
<1>10. ASSUME UNCHANGED <<stage, wake, holds>> PROVE \A d \in Calls : Good(d)
  BY <1>4, <1>10
<1>11. \/ UNCHANGED <<stage, wake, holds>>
       \/ \E c \in Calls : GetBudget(c) \/ Acquire(c) \/ EnterSemaphore(c) \/ SendRequest(c)
       \/ \E c \in Calls : Return(c) \/ Throttle(c) \/ TransientError(c) \/ Cancel(c)
  BY DEF BudgetNext, Tick, budgetVars
<1>12. \A d \in Calls : Good(d)
  <2> HIDE DEF Good
  <2> QED BY <1>6, <1>7, <1>8, <1>9, <1>10, <1>11, Zenon
<1> QED BY <1>12 DEF Sleepers

LEMMA SleepInvariant == BudgetSpec => []SleepInv
<1>1. BudgetInit => Rest /\ LogsPast /\ Sleepers
  <2> SUFFICES ASSUME BudgetInit PROVE Rest /\ LogsPast /\ Sleepers
    OBVIOUS
  <2>1. MaxRetries \in Nat \ {0}
    BY BudgetAssumption
  <2> QED BY <2>1 DEF BudgetInit, Rest, LogsPast, Logged, Sleepers, NewBudget
<1>2. BudgetInv /\ BudgetInv' /\ Rest /\ LogsPast /\ Sleepers /\ [BudgetNext]_budgetVars =>
        Rest' /\ LogsPast' /\ Sleepers'
  BY RestStep, SleepersStep DEF SleepInv
<1>3. BudgetInv /\ Rest /\ LogsPast /\ Sleepers => SleepInv
  BY DEF SleepInv
<1> QED BY <1>1, <1>2, <1>3, BudgetInvariant, PTL DEF BudgetSpec

(* Type correctness; a call is never past its last attempt (_get's retries). *)
THEOREM BudgetTypes == BudgetSpec => []BudgetTypeOK
<1>1. SleepInv => BudgetTypeOK
  BY DEF SleepInv, BudgetInv, Shape, Stages, Rest, BudgetTypeOK
<1> QED BY <1>1, SleepInvariant, PTL

(* A request that sleeps in acquire() could not have gone yet: the wait that
   _reserve computed had a reason, and neither other requests nor a refresh of
   the log can end a reason before its time. *)
THEOREM Punctual == BudgetSpec => []NeverOversleeps
<1>1. SleepInv => NeverOversleeps
  <2> SUFFICES ASSUME SleepInv, NEW c \in Calls, stage[c] = "acquiring", now < wake[c]
               PROVE  Waits(Refreshed(budgets[holds[c]])) # {}
    BY DEF NeverOversleeps
  <2>1. holds[c] \in Budgets
    BY DEF SleepInv, BudgetInv, Counted, Shape
  <2>2. /\ now \in Nat /\ budgets[holds[c]] \in Limiters /\ Logged(budgets[holds[c]])
        /\ wake[c] \in Nat /\ Reason(wake[c], budgets[holds[c]])
    BY <2>1 DEF SleepInv, BudgetInv, Shape, Rest, LogsPast, Sleepers
  <2> QED BY <2>2, ReasonHolds
<1> QED BY <1>1, SleepInvariant, PTL

----------------------------------------------------------------------------
(* The hour's quota *)

(* A request that opens a budget: the ones before it are older than an idle
   time. *)
Opens(k, a) == \A u \in sent[k] : u < a => u + IdleEvict < a
Idling(k) == \A u \in sent[k] : u + IdleEvict < now

(* The requests of the hour up to t that are not before a *)
HourUpTo(k, a, t) == {u \in sent[k] : a =< u /\ u =< t /\ t - Hour < u}

(* The registry lets go of a budget only an idle time after its last request, *)
LastUse ==
  \A k \in Connections : \A t \in sent[k] :
    \/ registry[k] = NoBudget /\ t + IdleEvict < now
    \/ /\ registry[k] \in Budgets
       /\ budgets[registry[k]].active > 0 \/ t =< budgets[registry[k]].lastUsed

(* a budget remembers an hour of its requests, *)
HourLogged ==
  \A k \in Connections :
    \/ registry[k] = NoBudget
    \/ Idling(k)
    \/ \E a \in sent[k] :
         /\ Opens(k, a)
         /\ \A u \in sent[k] : a =< u => u \in budgets[registry[k]].times \/ u + Hour =< now

(* and has let go at most the quota in any of them. *)
QuotaKept ==
  \A k \in Connections : \A t \in sent[k] :
    \E a \in sent[k] : a =< t /\ Opens(k, a) /\ Cardinality(HourUpTo(k, a, t)) =< PerHour

QuotaInv == SleepInv /\ LastUse /\ HourLogged /\ QuotaKept

(* What the invariant says of the logs and the registry *)
LEMMA SentTyped ==
  ASSUME SleepInv
  PROVE  /\ Shape /\ now \in Nat /\ IdleEvict \in Nat
         /\ \A k \in Connections : \A t \in sent[k] : t \in Nat /\ t =< now
         /\ \A k \in Connections : registry[k] \in Budgets \cup {NoBudget}
         /\ \A b \in Budgets : budgets[b] \in Limiters /\ \A t \in budgets[b].times : t \in Nat /\ t =< now
BY BudgetAssumption DEF SleepInv, BudgetInv, Shape, Paced, LogsPast, Logged, Limiters

(* A budget that is given back, or whose log is refreshed *)
LEMMA ChangedBudget ==
  ASSUME QuotaInv, NEW h \in Budgets, NEW r \in Limiters,
         budgets' = [budgets EXCEPT ![h] = r], UNCHANGED <<now, registry, sent>>,
         r.lastUsed = now \/ (r.active = budgets[h].active /\ r.lastUsed = budgets[h].lastUsed),
         \A t \in budgets[h].times : t \in r.times \/ t + Hour =< now
  PROVE  LastUse' /\ HourLogged' /\ QuotaKept'
<1>1. /\ Shape /\ now \in Nat
      /\ \A k \in Connections : \A t \in sent[k] : t \in Nat /\ t =< now
  BY SentTyped DEF QuotaInv
<1>2. budgets'[h] = r /\ \A b \in Budgets \ {h} : budgets'[b] = budgets[b]
  BY <1>1 DEF Shape
<1>3. LastUse'
  <2>1. ASSUME NEW k \in Connections, NEW t \in sent[k]
        PROVE  \/ registry[k] = NoBudget /\ t + IdleEvict < now
               \/ /\ registry[k] \in Budgets
                  /\ budgets'[registry[k]].active > 0 \/ t =< budgets'[registry[k]].lastUsed
    BY <1>1, <1>2, <2>1 DEF QuotaInv, LastUse
  <2> QED BY <2>1 DEF LastUse
<1>4. HourLogged'
  <2> SUFFICES ASSUME NEW k \in Connections, registry[k] # NoBudget, ~ Idling(k)
               PROVE  \E a \in sent[k] :
                        /\ Opens(k, a)
                        /\ \A u \in sent[k] : a =< u => u \in budgets'[registry[k]].times \/ u + Hour =< now
    BY DEF HourLogged, Idling, Opens
  <2>1. registry[k] \in Budgets
    BY <1>1 DEF Shape
  <2>2. PICK a \in sent[k] :
          /\ Opens(k, a)
          /\ \A u \in sent[k] : a =< u => u \in budgets[registry[k]].times \/ u + Hour =< now
    BY DEF QuotaInv, HourLogged
  <2>3. \A t \in budgets[registry[k]].times : t \in budgets'[registry[k]].times \/ t + Hour =< now
    BY <1>2, <2>1
  <2> QED BY <2>2, <2>3
<1>5. QuotaKept'
  BY DEF QuotaInv, QuotaKept, Opens, HourUpTo
<1> QED BY <1>3, <1>4, <1>5

(* The sweep *)
LEMMA SweptIsIdle ==
  ASSUME QuotaInv, NEW k \in Connections, Swept[k] = NoBudget
  PROVE  Idling(k)
<1>1. /\ Shape /\ now \in Nat /\ IdleEvict \in Nat
      /\ \A t \in sent[k] : t \in Nat /\ t =< now
  BY SentTyped DEF QuotaInv
<1>2. \/ registry[k] = NoBudget
      \/ registry[k] \in Budgets /\ Idle(budgets[registry[k]])
  BY <1>1 DEF Swept, EvictIdle, Shape
<1>3. CASE registry[k] = NoBudget
  BY <1>3, NoBudgetIsNone DEF QuotaInv, LastUse, Idling
<1>4. CASE registry[k] \in Budgets /\ Idle(budgets[registry[k]])
  <2>1. /\ budgets[registry[k]].active = 0 /\ budgets[registry[k]].lastUsed \in Nat
        /\ now - budgets[registry[k]].lastUsed > IdleEvict
    BY <1>1, <1>4 DEF Idle, Shape, Limiters
  <2>2. \A t \in sent[k] : t =< budgets[registry[k]].lastUsed
    BY <1>4, <2>1, NoBudgetIsNone DEF QuotaInv, LastUse
  <2> QED BY <1>1, <2>1, <2>2 DEF Idling
<1> QED BY <1>2, <1>3, <1>4

(* get() takes a budget in hand, or makes one after an idle time: the next request opens it. *)
LEMMA GetKeepsQuota ==
  ASSUME QuotaInv, NEW c \in Calls, GetBudget(c)
  PROVE  LastUse' /\ HourLogged' /\ QuotaKept'
<1> PICK k \in Connections : k = ConnectionOf[c]
  BY BudgetAssumption
<1>1. /\ Shape /\ now \in Nat /\ BudgetInv
      /\ \A l \in Connections : \A t \in sent[l] : t \in Nat /\ t =< now
  BY SentTyped DEF QuotaInv, SleepInv
<1> PICK reg : reg = Swept
  OBVIOUS
<1>2. /\ reg \in [Connections -> Budgets \cup {NoBudget}]
      /\ \A l \in Connections : reg[l] = NoBudget => Idling(l)
      /\ \A l \in Connections : reg[l] # NoBudget => reg[l] = registry[l]
  BY <1>1, SweepIsSafe, SweptIsIdle
<1>3. PICK b \in Budgets, r \in Limiters :
        /\ budgets' = [budgets EXCEPT ![b] = r] /\ registry' = [reg EXCEPT ![k] = b]
        /\ \A l \in Connections \ {k} : reg[l] # b
        /\ r.lastUsed = now
        /\ reg[k] = NoBudget \/ (reg[k] = b /\ r.times = budgets[b].times)
  BY <1>1, GetShape
<1>4. UNCHANGED <<now, sent>>
  BY DEF GetBudget
<1>5. /\ budgets'[b] = r /\ \A d \in Budgets \ {b} : budgets'[d] = budgets[d]
      /\ registry'[k] = b /\ \A l \in Connections \ {k} : registry'[l] = reg[l]
  BY <1>1, <1>2, <1>3 DEF Shape
<1>6. ASSUME NEW l \in Connections, reg[l] # NoBudget
      PROVE  reg[l] \in Budgets /\ registry[l] = reg[l] /\ registry'[l] = reg[l]
  BY <1>2, <1>3, <1>5, <1>6
<1>7. LastUse'
  <2>1. ASSUME NEW l \in Connections, NEW t \in sent[l]
        PROVE  \/ registry'[l] = NoBudget /\ t + IdleEvict < now
               \/ /\ registry'[l] \in Budgets
                  /\ budgets'[registry'[l]].active > 0 \/ t =< budgets'[registry'[l]].lastUsed
    <3>1. CASE l = k
      BY <1>1, <1>3, <1>5, <2>1, <3>1
    <3>2. CASE l # k /\ reg[l] = NoBudget
      BY <1>2, <1>5, <2>1, <3>2 DEF Idling
    <3>3. CASE l # k /\ reg[l] # NoBudget
      <4>1. reg[l] \in Budgets \ {b} /\ registry[l] = reg[l] /\ registry'[l] = reg[l]
        BY <1>3, <1>6, <3>3
      <4>2. budgets'[reg[l]] = budgets[reg[l]]
        BY <1>5, <4>1
      <4>3. budgets[reg[l]].active > 0 \/ t =< budgets[reg[l]].lastUsed
        BY <2>1, <4>1, NoBudgetIsNone DEF QuotaInv, LastUse
      <4> QED BY <4>1, <4>2, <4>3
    <3> QED BY <3>1, <3>2, <3>3
  <2> QED BY <1>4, <2>1 DEF LastUse
<1>8. HourLogged'
  <2> SUFFICES ASSUME NEW l \in Connections, registry'[l] # NoBudget, ~ Idling(l)
               PROVE  \E a \in sent[l] :
                        /\ Opens(l, a)
                        /\ \A u \in sent[l] : a =< u => u \in budgets'[registry'[l]].times \/ u + Hour =< now
    BY <1>4 DEF HourLogged, Idling, Opens
  <2>1. reg[l] # NoBudget
    BY <1>2
  <2>2. reg[l] \in Budgets /\ registry[l] = reg[l] /\ registry'[l] = reg[l]
    BY <1>6, <2>1
  <2>3. budgets'[reg[l]].times = budgets[reg[l]].times
    BY <1>3, <1>5, <2>1, <2>2
  <2>4. PICK a \in sent[l] :
          /\ Opens(l, a)
          /\ \A u \in sent[l] : a =< u => u \in budgets[reg[l]].times \/ u + Hour =< now
    BY <2>1, <2>2 DEF QuotaInv, HourLogged
  <2> QED BY <2>2, <2>3, <2>4
<1>9. QuotaKept'
  BY <1>4 DEF QuotaInv, QuotaKept, Opens, HourUpTo
<1> QED BY <1>7, <1>8, <1>9

(* The log has room for a request that may go, and knows the ones of the last
   spacing. *)
LEMMA RoomInLog ==
  ASSUME BudgetInv, NEW k \in Connections, NEW b \in Limiters,
         registry[k] \in Budgets, b = Refreshed(budgets[registry[k]]), Waits(b) = {}
  PROVE  /\ \A t \in sent[k] : t + Spacing =< now
         /\ ~ (Cardinality(b.times) >= PerHour)
         /\ \A t \in b.times : t > now - Hour
         /\ \A t \in budgets[registry[k]].times : t \in b.times \/ t + Hour =< now
<1>1. Shape /\ now \in Nat /\ budgets[registry[k]] \in Limiters
  BY DEF BudgetInv, Shape
<1>2. /\ \A t \in budgets[registry[k]].times \ b.times : t + Spacing =< now
      /\ \A t \in budgets[registry[k]].times \ b.times : t + Hour =< now
      /\ Fresh(b)
  BY <1>1, RefreshedKeeps, RefreshedIsFresh
<1>3. /\ ~ Paused(b) /\ \A t \in b.times : ~ (now < t + Spacing)
      /\ HourWait(b) = {}
  <2>1. ~ Paused(b)
    BY DEF Waits
  <2>2. ~ \E t \in b.times : now < t + Spacing
    BY <2>1, Zenon DEF Waits
  <2>3. Waits(b) = MinuteWait(b) \cup HourWait(b)
    BY <2>1, <2>2, Zenon DEF Waits
  <2> QED BY <2>1, <2>2, <2>3
<1>4. ~ (Cardinality(b.times) >= PerHour)
  BY <1>3 DEF HourWait
<1>5. ASSUME NEW t \in sent[k] PROVE t + Spacing =< now
  <2>1. t \in Nat /\ (t + Spacing =< now \/ t \in budgets[registry[k]].times)
    BY <1>1, <1>5 DEF BudgetInv, Paced, Remembered, Shape
  <2> QED BY <1>1, <1>2, <1>3, <2>1, Windows
<1> QED BY <1>2, <1>3, <1>4, <1>5 DEF Fresh

(* A request that goes is in its budget's log, which had room for it; after an idle time it
   opens one. *)
LEMMA ReleaseKeepsQuota ==
  ASSUME QuotaInv, NEW k \in Connections, NEW b \in Limiters, NEW r \in Limiters,
         registry[k] \in Budgets, b = Refreshed(budgets[registry[k]]), Waits(b) = {},
         budgets' = [budgets EXCEPT ![registry[k]] = r], r.times = b.times \cup {now},
         r.active = b.active, r.lastUsed = b.lastUsed, r.active > 0,
         sent' = [sent EXCEPT ![k] = @ \cup {now}], UNCHANGED <<now, registry>>
  PROVE  LastUse' /\ HourLogged' /\ QuotaKept'
<1> PICK h \in Budgets : h = registry[k]
  OBVIOUS
<1>1. /\ Shape /\ now \in Nat /\ BudgetInv /\ IdleEvict \in Nat
      /\ \A l \in Connections : \A t \in sent[l] : t \in Nat /\ t =< now
      /\ \A t \in budgets[h].times : t \in Nat /\ t =< now
  BY SentTyped DEF QuotaInv, SleepInv
<1>2. /\ \A t \in sent[k] : t + Spacing =< now
      /\ ~ (Cardinality(b.times) >= PerHour)
      /\ \A t \in b.times : t > now - Hour
      /\ \A t \in budgets[h].times : t \in b.times \/ t + Hour =< now
  BY <1>1, RoomInLog
<1>3. /\ budgets'[h] = r /\ \A d \in Budgets \ {h} : budgets'[d] = budgets[d]
      /\ sent'[k] = sent[k] \cup {now} /\ \A l \in Connections \ {k} : sent'[l] = sent[l]
      /\ \A l \in Connections \ {k} : registry[l] # h
  BY <1>1, NoBudgetIsNone DEF Shape, BudgetInv, Counted
<1>4. \A t \in sent[k] : t < now
  BY <1>1, <1>2, Windows
<1>5. LastUse'
  <2>1. ASSUME NEW l \in Connections, NEW t \in sent'[l]
        PROVE  \/ registry[l] = NoBudget /\ t + IdleEvict < now
               \/ /\ registry[l] \in Budgets
                  /\ budgets'[registry[l]].active > 0 \/ t =< budgets'[registry[l]].lastUsed
    <3>1. CASE l = k
      BY <1>3, <3>1
    <3>2. CASE l # k
      BY <1>3, <2>1, <3>2 DEF QuotaInv, LastUse
    <3> QED BY <3>1, <3>2
  <2> QED BY <2>1 DEF LastUse
<1>6. ASSUME NEW a \in sent[k], Opens(k, a) PROVE Opens(k, a)'
  <2>1. \A u \in sent'[k] : u < a => u \in sent[k]
    BY <1>1, <1>3, <1>4
  <2> QED BY <1>6, <2>1 DEF Opens
<1>7. ASSUME Idling(k) PROVE Opens(k, now)'
  BY <1>1, <1>3, <1>7 DEF Opens, Idling
<1>8. PICK a \in sent'[k] :
        /\ Opens(k, a)' /\ a =< now
        /\ \A u \in sent'[k] : a =< u => u \in r.times \/ u + Hour =< now
  <2>1. CASE Idling(k)
    <3>1. now \in sent'[k] /\ now =< now /\ \A u \in sent'[k] : now =< u => u \in r.times
      BY <1>1, <1>3, <1>4
    <3> QED BY <1>7, <2>1, <3>1
  <2>2. CASE ~ Idling(k)
    <3>1. PICK a \in sent[k] :
            /\ Opens(k, a)
            /\ \A u \in sent[k] : a =< u => u \in budgets[h].times \/ u + Hour =< now
      BY <2>2, NoBudgetIsNone DEF QuotaInv, HourLogged
    <3>2. \A u \in sent'[k] : a =< u => u \in r.times \/ u + Hour =< now
      BY <1>2, <1>3, <3>1
    <3> QED BY <1>1, <1>3, <1>6, <3>1, <3>2
  <2> QED BY <2>1, <2>2
<1>9. HourLogged'
  <2>1. ASSUME NEW l \in Connections \ {k}, registry[l] # NoBudget, ~ Idling(l)
        PROVE  \E x \in sent[l] :
                 /\ Opens(l, x)
                 /\ \A u \in sent[l] : x =< u => u \in budgets'[registry[l]].times \/ u + Hour =< now
    <3>1. registry[l] \in Budgets \ {h}
      BY <1>1, <1>3, <2>1 DEF Shape
    <3>2. budgets'[registry[l]] = budgets[registry[l]]
      BY <1>3, <3>1
    <3> QED BY <2>1, <3>2 DEF QuotaInv, HourLogged
  <2>2. ASSUME NEW l \in Connections \ {k} PROVE sent'[l] = sent[l]
    BY <1>3
  <2>3. ASSUME NEW l \in Connections \ {k}
        PROVE  \/ registry[l] = NoBudget
               \/ Idling(l)'
               \/ \E x \in sent'[l] :
                    /\ Opens(l, x)'
                    /\ \A u \in sent'[l] : x =< u => u \in budgets'[registry[l]].times \/ u + Hour =< now
    BY <2>1, <2>2 DEF Idling, Opens
  <2>4. \E x \in sent'[k] :
          /\ Opens(k, x)'
          /\ \A u \in sent'[k] : x =< u => u \in budgets'[registry[k]].times \/ u + Hour =< now
    BY <1>3, <1>8
  <2> QED BY <2>3, <2>4 DEF HourLogged
<1>10. QuotaKept'
  <2>1. ASSUME NEW l \in Connections \ {k}, NEW t \in sent'[l]
        PROVE  \E x \in sent'[l] : x =< t /\ Opens(l, x)' /\ Cardinality(HourUpTo(l, x, t))' =< PerHour
    <3>1. sent'[l] = sent[l]
      BY <1>3
    <3> QED BY <2>1, <3>1 DEF QuotaInv, QuotaKept, Opens, HourUpTo
  <2>2. ASSUME NEW t \in sent[k]
        PROVE  \E x \in sent'[k] : x =< t /\ Opens(k, x)' /\ Cardinality(HourUpTo(k, x, t))' =< PerHour
    <3>1. PICK x \in sent[k] : x =< t /\ Opens(k, x) /\ Cardinality(HourUpTo(k, x, t)) =< PerHour
      BY DEF QuotaInv, QuotaKept
    <3>2. \A u \in sent'[k] : u =< t => u \in sent[k]
      BY <1>1, <1>3, <1>4
    <3>3. HourUpTo(k, x, t)' = HourUpTo(k, x, t)
      BY <1>3, <3>2 DEF HourUpTo
    <3> QED BY <1>3, <1>6, <3>1, <3>3
  <2>3. Cardinality(HourUpTo(k, a, now))' =< PerHour
    <3>1. b.times \in SUBSET (0..now)
      <4>1. b.times \subseteq budgets[h].times
        BY <1>1, RefreshedKeeps DEF Shape
      <4> QED BY <1>1, <4>1
    <3>2. IsFiniteSet(b.times) /\ Cardinality(b.times) \in Nat
      BY <1>1, <3>1, MomentsFinite
    <3> PICK log, room : log = r.times /\ room = Cardinality(b.times)
      OBVIOUS
    <3>3. IsFiniteSet(log) /\ Cardinality(log) \in Nat /\ Cardinality(log) =< room + 1
      <4>1. /\ IsFiniteSet(b.times \cup {now})
            /\ Cardinality(b.times \cup {now}) =
                 IF now \in b.times THEN Cardinality(b.times) ELSE Cardinality(b.times) + 1
        BY <3>2, FS_AddElement, Zenon
      <4>2. log = b.times \cup {now}
        OBVIOUS
      <4>3. IsFiniteSet(log) /\ (Cardinality(log) = room \/ Cardinality(log) = room + 1)
        BY <4>1, <4>2
      <4> QED BY <3>2, <4>3
    <3>4. Cardinality(log) =< PerHour
      BY <1>2, <3>2, <3>3, Windows
    <3> DEFINE hour == {u \in sent'[k] : a =< u /\ u =< now /\ now - Hour < u}
    <3>5. hour \in SUBSET log
      <4>1. \A u \in sent'[k] : u \in Nat
        BY <1>1, <1>3
      <4> QED BY <1>1, <1>8, <4>1, Windows
    <3>6. HourUpTo(k, a, now)' = hour
      BY <1>1 DEF HourUpTo
    <3> HIDE DEF hour
    <3>7. Cardinality(hour) =< Cardinality(log) /\ IsFiniteSet(hour)
      BY <3>3, <3>5, FS_Subset
    <3>8. Cardinality(hour) \in Nat
      BY <3>7, FS_CardinalityType
    <3>9. Cardinality(hour) =< PerHour
      BY <3>3, <3>4, <3>7, <3>8, Windows
    <3> QED BY <3>6, <3>9
  <2>4. ASSUME NEW t \in sent'[k]
        PROVE  \E x \in sent'[k] : x =< t /\ Opens(k, x)' /\ Cardinality(HourUpTo(k, x, t))' =< PerHour
    <3>1. CASE t \in sent[k]
      BY <2>2, <3>1
    <3>2. CASE t = now
      BY <1>8, <2>3, <3>2
    <3> QED BY <1>3, <3>1, <3>2
  <2> QED BY <2>1, <2>4 DEF QuotaKept
<1> QED BY <1>5, <1>9, <1>10

(* Time passes *)
LEMMA TickKeepsQuota ==
  ASSUME QuotaInv, Tick
  PROVE  LastUse' /\ HourLogged' /\ QuotaKept'
<1>1. /\ now \in Nat /\ now' = now + 1 /\ IdleEvict \in Nat
      /\ \A k \in Connections : \A t \in sent[k] : t \in Nat
      /\ UNCHANGED <<registry, budgets, sent>>
  BY SentTyped DEF QuotaInv, Tick
<1>2. LastUse'
  <2>1. ASSUME NEW k \in Connections, NEW t \in sent[k]
        PROVE  \/ registry[k] = NoBudget /\ t + IdleEvict < now'
               \/ /\ registry[k] \in Budgets
                  /\ budgets[registry[k]].active > 0 \/ t =< budgets[registry[k]].lastUsed
    BY <1>1, <2>1 DEF QuotaInv, LastUse
  <2> QED BY <1>1, <2>1 DEF LastUse
<1>3. HourLogged'
  <2>1. ASSUME NEW k \in Connections, Idling(k) PROVE Idling(k)'
    BY <1>1, <2>1 DEF Idling
  <2>2. ASSUME NEW k \in Connections, registry[k] # NoBudget, ~ Idling(k)
        PROVE  \E a \in sent[k] :
                 /\ Opens(k, a)
                 /\ \A u \in sent[k] : a =< u => u \in budgets[registry[k]].times \/ u + Hour =< now'
    <3>1. PICK a \in sent[k] :
            /\ Opens(k, a)
            /\ \A u \in sent[k] : a =< u => u \in budgets[registry[k]].times \/ u + Hour =< now
      BY <2>2 DEF QuotaInv, HourLogged
    <3>2. \A u \in sent[k] : u + Hour =< now => u + Hour =< now'
      BY <1>1, Windows
    <3> QED BY <3>1, <3>2
  <2>3. \A k \in Connections : Idling(k)' \/ ~ Idling(k)
    BY <2>1
  <2>4. \A k \in Connections : \A a \in sent[k] : Opens(k, a)' <=> Opens(k, a)
    BY <1>1 DEF Opens
  <2>5. ASSUME NEW k \in Connections, registry[k] # NoBudget, ~ Idling(k)'
        PROVE  \E a \in sent[k] :
                 /\ Opens(k, a)'
                 /\ \A u \in sent[k] : a =< u => u \in budgets[registry[k]].times \/ u + Hour =< now'
    BY <2>2, <2>3, <2>4, <2>5
  <2> QED BY <1>1, <2>5 DEF HourLogged
<1>4. QuotaKept'
  BY <1>1 DEF QuotaInv, QuotaKept, Opens, HourUpTo
<1> QED BY <1>2, <1>3, <1>4

(* A turn of acquire() lets the request go, or only refreshes the log. *)
LEMMA AcquireKeepsQuota ==
  ASSUME QuotaInv, NEW c \in Calls, Acquire(c)
  PROVE  LastUse' /\ HourLogged' /\ QuotaKept'
<1> PICK k \in Connections : k = ConnectionOf[c]
  BY BudgetAssumption
<1>1. BudgetInv /\ Shape /\ Counted /\ now \in Nat
  BY SentTyped DEF QuotaInv, SleepInv, BudgetInv
<1> PICK h \in Budgets : h = holds[c]
  BY <1>1, AcquireShape
<1>2. registry[k] = h /\ budgets[h] \in Limiters /\ budgets[h].active > 0
  BY <1>1, NoBudgetIsNone, OwnBudget, HeldIsActive
<1>3. PICK b \in Limiters, r \in Limiters :
        /\ b = Refreshed(budgets[h]) /\ budgets' = [budgets EXCEPT ![h] = r]
        /\ r.active = b.active /\ r.lastUsed = b.lastUsed
        /\ \/ /\ Waits(b) = {} /\ r.times = b.times \cup {now}
              /\ sent' = [sent EXCEPT ![k] = @ \cup {now}]
           \/ r = b /\ UNCHANGED sent
  BY <1>1, AcquireShape
<1>4. UNCHANGED <<now, registry>>
  BY <1>1, AcquireShape
<1>5. /\ b.active = budgets[h].active /\ b.lastUsed = budgets[h].lastUsed
      /\ \A t \in budgets[h].times : t \in b.times \/ t + Hour =< now
  BY <1>1, <1>2, <1>3, RefreshedKeeps, RefreshedIsFresh
<1>6. CASE /\ Waits(b) = {} /\ r.times = b.times \cup {now}
           /\ sent' = [sent EXCEPT ![k] = @ \cup {now}]
  BY <1>2, <1>3, <1>4, <1>5, <1>6, ReleaseKeepsQuota
<1>7. CASE r = b /\ UNCHANGED sent
  BY <1>2, <1>3, <1>4, <1>5, <1>7, ChangedBudget
<1> QED BY <1>3, <1>6, <1>7

LEMMA QuotaStep ==
  ASSUME QuotaInv, [BudgetNext]_budgetVars
  PROVE  LastUse' /\ HourLogged' /\ QuotaKept'
<1>1. BudgetInv
  BY DEF QuotaInv, SleepInv
<1>2. ASSUME UNCHANGED <<now, registry, budgets, sent>>
      PROVE  LastUse' /\ HourLogged' /\ QuotaKept'
  BY <1>2 DEF QuotaInv, LastUse, HourLogged, QuotaKept, Idling, Opens, HourUpTo
<1>3. ASSUME NEW c \in Calls, Return(c) \/ Throttle(c) \/ TransientError(c) \/ Cancel(c)
      PROVE  LastUse' /\ HourLogged' /\ QuotaKept'
  <2>1. UNCHANGED <<now, registry, sent>>
    BY <1>1, <1>3, EndShape
  <2>2. CASE UNCHANGED budgets
    BY <1>2, <2>1, <2>2
  <2>3. CASE ~ UNCHANGED budgets
    <3>1. PICK h \in Budgets, r \in Limiters :
            /\ budgets' = [budgets EXCEPT ![h] = r]
            /\ r.times = budgets[h].times /\ r.lastUsed = now
      BY <1>1, <1>3, <2>3, EndShape
    <3> QED BY <2>1, <3>1, ChangedBudget
  <2> QED BY <2>2, <2>3
<1>4. \/ UNCHANGED <<now, registry, budgets, sent>>
      \/ Tick
      \/ \E c \in Calls : GetBudget(c) \/ Acquire(c)
      \/ \E c \in Calls : Return(c) \/ Throttle(c) \/ TransientError(c) \/ Cancel(c)
  BY DEF BudgetNext, EnterSemaphore, SendRequest, budgetVars
<1> QED BY <1>2, <1>3, <1>4, TickKeepsQuota, GetKeepsQuota, AcquireKeepsQuota

LEMMA QuotaInvariant == BudgetSpec => []QuotaInv
<1>1. BudgetInit => LastUse /\ HourLogged /\ QuotaKept
  BY DEF BudgetInit, LastUse, HourLogged, QuotaKept
<1>2. SleepInv /\ LastUse /\ HourLogged /\ QuotaKept /\ [BudgetNext]_budgetVars =>
        LastUse' /\ HourLogged' /\ QuotaKept'
  BY QuotaStep DEF QuotaInv
<1>3. SleepInv /\ LastUse /\ HourLogged /\ QuotaKept => QuotaInv
  BY DEF QuotaInv
<1> QED BY <1>1, <1>2, <1>3, SleepInvariant, PTL DEF BudgetSpec

(* Forgetting a budget's hour of requests with the budget lets at most one more
   quota through in any hour (_evict_idle, _reserve): two idle times make an
   hour, as the defaults do, so that no hour spans three of a connection's
   budgets. *)
THEOREM HourQuota ==
  ASSUME 2 * IdleEvict >= Hour
  PROVE  BudgetSpec => []HourOverrunIsTwofold
<1>1. ASSUME QuotaInv, NEW k \in Connections, NEW t \in sent[k]
      PROVE  Cardinality({u \in sent[k] : t - Hour < u /\ u =< t}) =< 2 * PerHour
  <2>1. /\ now \in Nat /\ IdleEvict \in Nat /\ sent[k] \in SUBSET (0..now) /\ t \in Nat
        /\ Hour \in Nat /\ PerHour \in Nat
    BY <1>1, SentTyped, Windows DEF QuotaInv
  <2>2. PICK a \in sent[k] : a =< t /\ Opens(k, a) /\ Cardinality(HourUpTo(k, a, t)) =< PerHour
    BY <1>1 DEF QuotaInv, QuotaKept
  <2>3. /\ IsFiniteSet(HourUpTo(k, a, t)) /\ Cardinality(HourUpTo(k, a, t)) \in Nat
    <3>1. HourUpTo(k, a, t) \in SUBSET (0..now)
      BY <2>1 DEF HourUpTo
    <3> QED BY <2>1, <3>1, MomentsFinite
  <2> DEFINE hour == {u \in sent[k] : t - Hour < u /\ u =< t}
             before == {u \in hour : u < a}
  <2>4. hour = before \cup HourUpTo(k, a, t)
    <3>1. \A u \in sent[k] : u < a \/ a =< u
      BY <2>1
    <3>2. \A u \in sent[k] : u < a => u =< t
      BY <2>1, <2>2
    <3> QED BY <3>1, <3>2 DEF HourUpTo
  <2>5. before \in SUBSET (0..now)
    BY <2>1
  <2>6. IsFiniteSet(before) /\ Cardinality(before) =< PerHour /\ Cardinality(before) \in Nat
    <3>1. CASE before = {}
      <4> HIDE DEF before
      <4> QED BY <2>1, <3>1, FS_EmptySet
    <3>2. CASE before # {}
      <4> PICK last : last = Max(before)
        OBVIOUS
      <4>1. last \in before /\ \A u \in before : last >= u
        BY <2>1, <2>5, <3>2, Latest
      <4>2. last \in sent[k] /\ last < a /\ last + IdleEvict < a
        BY <2>2, <4>1 DEF Opens
      <4>3. PICK e \in sent[k] : e =< last /\ Opens(k, e) /\ Cardinality(HourUpTo(k, e, last)) =< PerHour
        BY <1>1, <4>2 DEF QuotaInv, QuotaKept
      <4>4. ASSUME NEW u \in before PROVE u \in HourUpTo(k, e, last)
        <5>1. u \in sent[k] /\ t - Hour < u /\ u =< last
          BY <4>1
        <5>2. e =< u
          <6>1. u \in Nat /\ e \in Nat /\ last \in Nat /\ a \in Nat
            BY <2>1, <4>2, <5>1
          <6>2. u < e => u + IdleEvict < e
            BY <4>3, <5>1 DEF Opens
          <6> QED BY <2>1, <2>2, <4>2, <4>3, <5>1, <6>1, <6>2
        <5>3. last - Hour < u
          BY <2>1, <2>2, <4>2, <5>1
        <5> QED BY <5>1, <5>2, <5>3 DEF HourUpTo
      <4>5. HourUpTo(k, e, last) \in SUBSET (0..now)
        BY <2>1 DEF HourUpTo
      <4>6. IsFiniteSet(HourUpTo(k, e, last)) /\ Cardinality(HourUpTo(k, e, last)) \in Nat
        BY <2>1, <4>5, MomentsFinite
      <4> HIDE DEF before
      <4>7. before \in SUBSET HourUpTo(k, e, last)
        BY <4>4
      <4>8. /\ IsFiniteSet(before) /\ Cardinality(before) \in Nat
            /\ Cardinality(before) =< Cardinality(HourUpTo(k, e, last))
        BY <4>6, <4>7, FS_Subset, FS_CardinalityType
      <4> QED BY <2>1, <4>3, <4>6, <4>8
    <3> QED BY <3>1, <3>2
  <2> HIDE DEF before
  <2>7. /\ Cardinality(before \cup HourUpTo(k, a, t)) =
             Cardinality(before) + Cardinality(HourUpTo(k, a, t)) - Cardinality(before \cap HourUpTo(k, a, t))
        /\ Cardinality(before \cap HourUpTo(k, a, t)) \in Nat
    <3>1. IsFiniteSet(before \cap HourUpTo(k, a, t))
      BY <2>3, FS_Subset
    <3> QED BY <2>3, <2>6, <3>1, FS_Union, FS_CardinalityType
  <2>8. Cardinality(before \cup HourUpTo(k, a, t)) =< 2 * PerHour
    <3> PICK l, m, n : /\ l = Cardinality(before) /\ m = Cardinality(HourUpTo(k, a, t))
                       /\ n = Cardinality(before \cap HourUpTo(k, a, t))
      OBVIOUS
    <3>1. l \in Nat /\ m \in Nat /\ n \in Nat /\ l =< PerHour /\ m =< PerHour
      BY <2>2, <2>3, <2>6, <2>7
    <3>2. l + m - n =< 2 * PerHour
      BY <2>1, <3>1
    <3> QED BY <2>7, <3>2
  <2> QED BY <2>4, <2>8
<1>2. QuotaInv => HourOverrunIsTwofold
  BY <1>1 DEF HourOverrunIsTwofold
<1> QED BY <1>2, QuotaInvariant, PTL
==============================================================================

----------------------------- MODULE GraphBudget -----------------------------
(***************************************************************************)
(* How the calls to Microsoft Graph are paced: GraphClient._get, the       *)
(* registry with one budget per Microsoft connection, and the budget's     *)
(* rate limiter, cooldown and semaphore (clients/graph_client.py).         *)
(*                                                                         *)
(* Everything between two awaits is one step.  The locks of the registry   *)
(* and of the limiter are never held across an await, so they are never    *)
(* contended and do not appear.  Time passes by Tick; in the model's unit  *)
(* the cooldown's base is 1.                                               *)
(***************************************************************************)
EXTENDS Integers, FiniteSets

LOCAL INSTANCE FiniteSetsExt

CONSTANTS
  Connections,            (* the keys of the registry                          *)
  Calls, ConnectionOf,    (* calls of _get, and the connection each is for     *)
  Budgets, NoBudget,      (* the objects the registry makes, numbered          *)
  Minute, Hour,           (* the windows                                       *)
  PerMinute, PerHour,     (* SYNC_GRAPH_RATE_PER_MINUTE, _PER_HOUR             *)
  Spacing,                (* 60 / PerMinute                                    *)
  Concurrency,            (* SYNC_GRAPH_CONCURRENCY                            *)
  IdleEvict,              (* SYNC_GRAPH_BUDGET_IDLE_EVICT_S                    *)
  EvictInterval,          (* SYNC_GRAPH_BUDGET_EVICT_INTERVAL_S                *)
  CooldownCap, Jitter,    (* _COOLDOWN_CAP_S, _COOLDOWN_JITTER_S               *)
  MaxLevel, Decay,        (* _COOLDOWN_MAX_LEVEL, _THROTTLE_DECAY_S            *)
  RetryAfterCap,          (* _RETRY_AFTER_CAP_S                                *)
  MaxRetries,             (* _MAX_RETRIES                                      *)
  MaxNow                  (* bound: how long the clock runs                    *)

ASSUME BudgetAssumption ==
  /\ IsFiniteSet(Calls) /\ ConnectionOf \in [Calls -> Connections]
  /\ Budgets \subseteq Nat /\ NoBudget \notin Budgets
  /\ {Minute, Hour, PerMinute, PerHour, Spacing, Concurrency} \subseteq Nat \ {0}
  /\ {IdleEvict, EvictInterval, CooldownCap, Jitter} \subseteq Nat
  /\ {MaxLevel, MaxRetries} \subseteq Nat \ {0}
  /\ {Decay, RetryAfterCap, MaxNow} \subseteq Nat
  /\ Spacing * PerMinute = Minute /\ Minute =< Hour
  /\ Spacing =< IdleEvict
  /\ CooldownCap + Jitter =< IdleEvict /\ RetryAfterCap =< IdleEvict

VARIABLES
  now,          (* time.monotonic()                                            *)
  registry,     (* _budgets                                                    *)
  lastEvicted,  (* _last_evicted                                               *)
  budgets,      (* the budget objects                                          *)
  stage,        (* where each call is                                          *)
  holds,        (* the `budget` each call has in hand                          *)
  wake,         (* when its sleep in acquire() ends, 0 if it does not sleep    *)
  attempts,     (* tenacity's attempt number                                   *)
  sent,         (* history: when each connection's requests were let go        *)
  ordered       (* history: the latest deadline a cooldown has set for it      *)

budgetVars == <<now, registry, lastEvicted, budgets, stage, holds, wake, attempts, sent, ordered>>

----------------------------------------------------------------------------
(* The rate limiter *)

NewBudget ==
  [times |-> {}, pausedUntil |-> 0, level |-> 0, lastThrottle |-> 0,
   lastUsed |-> now, active |-> 0]

Paused(b) == now < b.pausedUntil

(* Mutant: the log is trimmed at the minute, so the hour is never full *)
RefreshedByMinute(b) ==
  IF Paused(b) THEN b
  ELSE [b EXCEPT !.level = IF now - b.lastThrottle > Decay THEN 0 ELSE @,
                 !.times = {t \in @ : t > now - Minute}]

(* What _reserve forgets before it decides: nothing while the pause lasts *)
Refreshed(b) ==
  IF Paused(b) THEN b
  ELSE [b EXCEPT !.level = IF now - b.lastThrottle > Decay THEN 0 ELSE @,
                 !.times = {t \in @ : t > now - Hour}]

InMinute(b) == {t \in b.times : t > now - Minute}

MinuteWait(b) ==
  IF Cardinality(InMinute(b)) >= PerMinute THEN {Min(InMinute(b)) + Minute - now} ELSE {}
HourWait(b) ==
  IF Cardinality(b.times) >= PerHour THEN {Min(b.times) + Hour - now} ELSE {}

(* The waits _reserve weighs; none means that the request may go *)
(* Mutant: waits a whole window after the last request, not one spacing *)
WaitsAMinute(b) ==
  IF Paused(b) THEN {b.pausedUntil - now}
  ELSE IF \E t \in b.times : now < t + Spacing THEN {Max(b.times) + Minute - now}
  ELSE MinuteWait(b) \cup HourWait(b)
Waits(b) ==
  IF Paused(b) THEN {b.pausedUntil - now}
  ELSE IF \E t \in b.times : now < t + Spacing THEN {Max(b.times) + Spacing - now}
  ELSE MinuteWait(b) \cup HourWait(b)

(* Mutant: the request is not recorded *)
LetGoUnrecorded(b) == b
LetGo(b) == [b EXCEPT !.times = @ \cup {now}]

(* _apply_throttle: the computed pause, up to Jitter longer *)
Cooldowns(level) ==
  LET computed == Min({CooldownCap, 2 ^ (level - 1)})
  IN  {c \in 0..(CooldownCap + Jitter) : c - computed \in 0..Jitter}

(* Mutant: the escalation has no limit *)
ThrottledWithoutLimit(b, deadline) ==
  [b EXCEPT !.level = @ + 1, !.lastThrottle = now, !.pausedUntil = Max({@, deadline})]

Throttled(b, deadline) ==
  [b EXCEPT !.level = Min({@ + 1, MaxLevel}),
            !.lastThrottle = now,
            !.pausedUntil = Max({@, deadline})]

----------------------------------------------------------------------------
(* The registry *)

(* Mutant: the requests that hold the budget are not considered *)
IdleThoughHeld(b) == now - b.lastUsed > IdleEvict

Idle(b) == b.active = 0 /\ now - b.lastUsed > IdleEvict

EvictIdle ==
  [k \in Connections |->
     IF registry[k] # NoBudget /\ Idle(budgets[registry[k]]) THEN NoBudget ELSE registry[k]]

EvictionDue == now - lastEvicted > EvictInterval
Swept == IF EvictionDue THEN EvictIdle ELSE registry

Unreferenced(reg) ==
  {b \in Budgets : (\A k \in Connections : reg[k] # b) /\ (\A c \in Calls : holds[c] # b)}

(* _budget_registry.get, at the start of each attempt *)
GetBudget(c) ==
  LET k == ConnectionOf[c] IN
  /\ stage[c] \in {"idle", "retrying"}
  /\ lastEvicted' = IF EvictionDue THEN now ELSE lastEvicted
  /\ \/ /\ Swept[k] = NoBudget
        /\ \E b \in Unreferenced(Swept) :
             /\ \A d \in Unreferenced(Swept) : b =< d
             /\ budgets' = [budgets EXCEPT ![b] = [NewBudget EXCEPT !.active = 1]]
             /\ registry' = [Swept EXCEPT ![k] = b]
             /\ holds' = [holds EXCEPT ![c] = b]
     \/ /\ Swept[k] # NoBudget
        /\ budgets' = [budgets EXCEPT ![Swept[k]].lastUsed = now, ![Swept[k]].active = @ + 1]
        /\ registry' = Swept
        /\ holds' = [holds EXCEPT ![c] = Swept[k]]
  /\ stage' = [stage EXCEPT ![c] = "acquiring"]
  /\ UNCHANGED <<now, wake, attempts, sent, ordered>>

(* What release leaves of a budget *)
Released(b) == [b EXCEPT !.active = IF @ > 0 THEN @ - 1 ELSE 0, !.lastUsed = now]

Release(c, b) ==
  /\ budgets' = IF registry[ConnectionOf[c]] = holds[c]
                THEN [budgets EXCEPT ![holds[c]] = Released(b)]
                ELSE [budgets EXCEPT ![holds[c]] = b]
  /\ holds' = [holds EXCEPT ![c] = NoBudget]

----------------------------------------------------------------------------
(* GraphClient._get *)

(* acquire(): one turn of its loop *)
Acquire(c) ==
  LET b == Refreshed(budgets[holds[c]]) IN
  /\ stage[c] = "acquiring" /\ now >= wake[c]
  /\ \/ /\ Waits(b) = {}
        /\ budgets' = [budgets EXCEPT ![holds[c]] = LetGo(b)]
        /\ sent' = [sent EXCEPT ![ConnectionOf[c]] = @ \cup {now}]
        /\ stage' = [stage EXCEPT ![c] = "queued"]
        /\ wake' = [wake EXCEPT ![c] = 0]
     \/ /\ Waits(b) # {}
        /\ budgets' = [budgets EXCEPT ![holds[c]] = b]
        /\ wake' = [wake EXCEPT ![c] = now + Min(Waits(b))]
        /\ UNCHANGED <<sent, stage>>
  /\ UNCHANGED <<now, registry, lastEvicted, holds, attempts, ordered>>

HasPermit(c, b) == holds[c] = b /\ stage[c] \in {"admitted", "calling"}

EnterSemaphore(c) ==
  /\ stage[c] = "queued"
  /\ Cardinality({d \in Calls : HasPermit(d, holds[c])}) < Concurrency
  /\ stage' = [stage EXCEPT ![c] = "admitted"]
  /\ UNCHANGED <<now, registry, lastEvicted, budgets, holds, wake, attempts, sent, ordered>>

(* Mutant: only acquire() observes the cooldown *)
SendRequestAtOnce(c) ==
  /\ stage[c] = "admitted"
  /\ stage' = [stage EXCEPT ![c] = "calling"]
  /\ UNCHANGED <<now, registry, lastEvicted, budgets, holds, wake, attempts, sent, ordered>>

(* wait_out_cooldown(), and no await between its return and the request *)
SendRequest(c) ==
  /\ stage[c] = "admitted"
  /\ ~ Paused(budgets[holds[c]])
  /\ stage' = [stage EXCEPT ![c] = "calling"]
  /\ UNCHANGED <<now, registry, lastEvicted, budgets, holds, wake, attempts, sent, ordered>>

(* tenacity: another attempt, or GraphAPIError after the last *)
RetryOrGiveUp(c) ==
  IF attempts[c] < MaxRetries
  THEN /\ stage' = [stage EXCEPT ![c] = "retrying"]
       /\ attempts' = [attempts EXCEPT ![c] = @ + 1]
  ELSE /\ stage' = [stage EXCEPT ![c] = "idle"]
       /\ attempts' = [attempts EXCEPT ![c] = 1]

(* The answer, or an error that is not retried *)
Return(c) ==
  /\ stage[c] = "calling"
  /\ Release(c, budgets[holds[c]])
  /\ stage' = [stage EXCEPT ![c] = "idle"]
  /\ attempts' = [attempts EXCEPT ![c] = 1]
  /\ UNCHANGED <<now, registry, lastEvicted, wake, sent, ordered>>

(* No header, or one in seconds, which is capped; 0 stands for a short one too *)
RetryAfters == {0, RetryAfterCap}

(* 429 or 503 *)
Throttle(c) ==
  LET b == budgets[holds[c]] IN
  /\ stage[c] = "calling"
  /\ \E retryAfter \in RetryAfters, pause \in Cooldowns(Min({b.level + 1, MaxLevel})) :
       LET deadline == now + (IF pause > retryAfter THEN pause ELSE retryAfter) IN
       /\ Release(c, Throttled(b, deadline))
       /\ ordered' = [ordered EXCEPT ![ConnectionOf[c]] = Max({@, deadline})]
  /\ RetryOrGiveUp(c)
  /\ UNCHANGED <<now, registry, lastEvicted, wake, sent>>

(* 502, 504 or a transport error *)
TransientError(c) ==
  /\ stage[c] = "calling"
  /\ Release(c, budgets[holds[c]])
  /\ RetryOrGiveUp(c)
  /\ UNCHANGED <<now, registry, lastEvicted, wake, sent, ordered>>

(* The TaskGroup of a sync run cancels its other calls when one fails *)
Cancel(c) ==
  /\ stage[c] # "idle"
  /\ IF holds[c] = NoBudget
     THEN UNCHANGED <<budgets, holds>>
     ELSE Release(c, budgets[holds[c]])
  /\ stage' = [stage EXCEPT ![c] = "idle"]
  /\ attempts' = [attempts EXCEPT ![c] = 1]
  /\ wake' = [wake EXCEPT ![c] = 0]
  /\ UNCHANGED <<now, registry, lastEvicted, sent, ordered>>

Tick ==
  /\ now < MaxNow
  /\ now' = now + 1
  /\ UNCHANGED <<registry, lastEvicted, budgets, stage, holds, wake, attempts, sent, ordered>>

----------------------------------------------------------------------------
BudgetInit ==
  /\ now = 0
  /\ registry = [k \in Connections |-> NoBudget]
  /\ lastEvicted = 0
  /\ budgets = [b \in Budgets |-> NewBudget]
  /\ stage = [c \in Calls |-> "idle"]
  /\ holds = [c \in Calls |-> NoBudget]
  /\ wake = [c \in Calls |-> 0]
  /\ attempts = [c \in Calls |-> 1]
  /\ sent = [k \in Connections |-> {}]
  /\ ordered = [k \in Connections |-> 0]

BudgetNext ==
  \/ Tick
  \/ \E c \in Calls :
       \/ GetBudget(c) \/ Acquire(c) \/ EnterSemaphore(c) \/ SendRequest(c)
       \/ Return(c) \/ Throttle(c) \/ TransientError(c) \/ Cancel(c)

BudgetSpec == BudgetInit /\ [][BudgetNext]_budgetVars

----------------------------------------------------------------------------
Limiters ==
  [times : SUBSET Nat, pausedUntil : Nat, level : 0..MaxLevel, lastThrottle : Nat,
   lastUsed : Nat, active : Nat]

(* Every variable holds what the code can store there. *)
BudgetTypeOK ==
  /\ now \in Nat
  /\ registry \in [Connections -> Budgets \cup {NoBudget}]
  /\ lastEvicted \in Nat
  /\ budgets \in [Budgets -> Limiters]
  /\ stage \in [Calls -> {"idle", "retrying", "acquiring", "queued", "admitted", "calling"}]
  /\ holds \in [Calls -> Budgets \cup {NoBudget}]
  /\ wake \in [Calls -> Nat]
  /\ attempts \in [Calls -> 1..MaxRetries]
  /\ sent \in [Connections -> SUBSET Nat]
  /\ ordered \in [Connections -> Nat]

(* A call in progress holds the budget its connection has in the registry:
   eviction never takes a budget from under a request and so never gives a
   connection two windows, two cooldowns or two semaphores (and so more calls
   than the concurrency cap) at once. *)
BudgetInUseIsKept ==
  \A c \in Calls : holds[c] # NoBudget => registry[ConnectionOf[c]] = holds[c]

(* A request is let go at least one spacing after the connection's previous
   one, also when the budget in between was evicted: no window of a minute
   holds more than PerMinute of them. *)
ReleasesArePaced ==
  [][\A c \in Calls :
       stage[c] = "acquiring" /\ stage'[c] = "queued" =>
         \A t \in sent[ConnectionOf[c]] : t + Spacing =< now]_budgetVars

(* The hour's window is forgotten with the budget when the connection is idle
   for IdleEvict, which is less than an hour; but not often enough for any
   hour to see more than twice the quota. *)
HourOverrunIsTwofold ==
  \A k \in Connections : \A t \in sent[k] :
    Cardinality({u \in sent[k] : t - Hour < u /\ u =< t}) =< 2 * PerHour

(* No request goes on the wire before the end of any cooldown that a throttled
   answer to this connection has set, though the request cleared the limiter
   before, and though the budget that held the deadline was evicted since. *)
CooldownIsHonoured ==
  [][\A c \in Calls :
       stage[c] # "calling" /\ stage'[c] = "calling" => now >= ordered[ConnectionOf[c]]]_budgetVars

(* A request that sleeps in acquire() could not have gone yet: the computed
   wait never keeps it past the moment the windows and the pause let it go. *)
NeverOversleeps ==
  \A c \in Calls :
    stage[c] = "acquiring" /\ now < wake[c] => Waits(Refreshed(budgets[holds[c]])) # {}
=============================================================================

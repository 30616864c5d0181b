-------------------------- MODULE ConcurrencyLimiter --------------------------
(***************************************************************************)
(* The asyncio gate of resilience/concurrency.py (the same code guards a   *)
(* service's capacity in services/capacity.py): a counter of active        *)
(* callers, a counter of waiting callers and an asyncio.Condition on which *)
(* the waiting ones are parked.                                            *)
(*                                                                         *)
(* No coroutine awaits while it owns the condition's lock except inside    *)
(* cond.wait(), so the lock is never contended and each stretch of code    *)
(* between two awaits is one step.  notify(1) only marks the oldest parked *)
(* caller as woken: it runs later, and a newcomer may take the slot first. *)
(* rejected_count is a statistic and is left out: the place "rejected"     *)
(* tells a caller that was turned away.                                    *)
(***************************************************************************)
EXTENDS Naturals, Sequences, FiniteSets, SequencesExt

CONSTANTS Tasks,       \* callers of the gate
          Limit,       \* config.limit
          QueueLimit,  \* config.queue_limit; Unbounded stands for None
          Unbounded,
          Renotify     \* TRUE: asyncio passes on the notification of a woken
                       \* caller that is cancelled (Python >= 3.13)

ASSUME LimiterAssumption ==
  /\ IsFiniteSet(Tasks)
  /\ Limit \in Nat \ {0}
  /\ Unbounded \notin Nat
  /\ QueueLimit \in Nat \union {Unbounded}
  /\ Renotify \in BOOLEAN

VARIABLES active,   \* _active
          waiting,  \* _waiting
          parked,   \* _cond._waiters that notify can still wake, oldest first
          gate      \* gate[t]: where caller t stands in acquire()

limiterVars == <<active, waiting, parked, gate>>

GatePlaces == {"out", "queued", "woken", "cancelled", "holding", "rejected"}

At(p) == {t \in Tasks : gate[t] = p}

\* Callers whose acquire() has incremented _waiting and not yet decremented it.
Waiters == At("queued") \union At("woken") \union At("cancelled")

LimiterTypeOK ==
  /\ active \in Nat
  /\ waiting \in Nat
  /\ parked \in Seq(Tasks)
  /\ gate \in [Tasks -> GatePlaces]

LimiterInit ==
  /\ active = 0
  /\ waiting = 0
  /\ parked = <<>>
  /\ gate = [t \in Tasks |-> "out"]

-------------------------------------------------------------------------------
\* asyncio.Condition.notify(1): wake the oldest parked caller, if there is one.
Notify(queue, places) ==
  /\ parked' = IF queue = <<>> THEN queue ELSE Tail(queue)
  /\ gate' = IF queue = <<>> THEN places
             ELSE [places EXCEPT ![Head(queue)] = "woken"]

SlotFree == active < Limit
QueueFull(depth) == QueueLimit # Unbounded /\ depth >= QueueLimit

\* One turn of the loop in acquire(), with _waiting equal to depth when it starts.
TakeSlot(t, depth) ==
  /\ SlotFree
  /\ active' = active + 1
  /\ waiting' = depth
  /\ gate' = [gate EXCEPT ![t] = "holding"]
  /\ UNCHANGED parked

TurnAway(t, depth) ==
  /\ ~SlotFree /\ QueueFull(depth)
  /\ waiting' = depth
  /\ gate' = [gate EXCEPT ![t] = "rejected"]
  /\ UNCHANGED <<active, parked>>

Park(t, depth) ==
  /\ ~SlotFree /\ ~QueueFull(depth)
  /\ waiting' = depth + 1
  /\ parked' = Append(parked, t)
  /\ gate' = [gate EXCEPT ![t] = "queued"]
  /\ UNCHANGED active

AcquireTurn(t, depth) == TakeSlot(t, depth) \/ TurnAway(t, depth) \/ Park(t, depth)

\* acquire(): the caller's first turn.
Acquire(t) == gate[t] = "out" /\ AcquireTurn(t, waiting)

\* A woken caller runs again: it leaves the waiting count and takes a new turn.
Resume(t) == gate[t] = "woken" /\ AcquireTurn(t, waiting - 1)

\* Plausible slip: release() frees the slot and wakes nobody.
MutReleaseForgetsNotify(t) ==
  /\ gate[t] = "holding"
  /\ active' = active - 1
  /\ gate' = [gate EXCEPT ![t] = "out"]
  /\ UNCHANGED <<waiting, parked>>

\* release(): free the slot and wake one caller.
Release(t) ==
  /\ gate[t] = "holding"
  /\ active' = IF active > 0 THEN active - 1 ELSE active
  /\ Notify(parked, [gate EXCEPT ![t] = "out"])
  /\ UNCHANGED waiting

\* The task is cancelled while it is parked, or woken and not yet running.
Cancel(t) ==
  /\ \/ gate[t] = "woken" /\ UNCHANGED parked
     \/ \E i \in DOMAIN parked : parked[i] = t /\ parked' = RemoveAt(parked, i)
  /\ gate' = [gate EXCEPT ![t] = "cancelled"]
  /\ UNCHANGED <<active, waiting>>

\* Plausible slip: _waiting is decremented only after a normal wake-up.
MutAbandonKeepsWaiting(t) ==
  /\ gate[t] = "cancelled"
  /\ IF Renotify
     THEN Notify(parked, [gate EXCEPT ![t] = "out"])
     ELSE gate' = [gate EXCEPT ![t] = "out"] /\ UNCHANGED parked
  /\ UNCHANGED <<active, waiting>>

\* Plausible slip, and what asyncio did before Python 3.13: the notification of a
\* woken caller that is cancelled is lost.
MutAbandonDropsNotification(t) ==
  /\ gate[t] = "cancelled"
  /\ waiting' = waiting - 1
  /\ gate' = [gate EXCEPT ![t] = "out"]
  /\ UNCHANGED <<active, parked>>

\* The CancelledError leaves cond.wait() and acquire().
Abandon(t) ==
  /\ gate[t] = "cancelled"
  /\ waiting' = waiting - 1
  /\ IF Renotify
     THEN Notify(parked, [gate EXCEPT ![t] = "out"])
     ELSE gate' = [gate EXCEPT ![t] = "out"] /\ UNCHANGED parked
  /\ UNCHANGED active

\* The caller has handled the rejection and may call acquire() again.
Return(t) ==
  /\ gate[t] = "rejected"
  /\ gate' = [gate EXCEPT ![t] = "out"]
  /\ UNCHANGED <<active, waiting, parked>>

LimiterNext ==
  \E t \in Tasks :
    \/ Acquire(t) \/ Resume(t) \/ Release(t)
    \/ Cancel(t) \/ Abandon(t) \/ Return(t)

\* The event loop runs every ready callback; callers owe the gate nothing.
LimiterFairness ==
  \A t \in Tasks : WF_limiterVars(Resume(t)) /\ WF_limiterVars(Abandon(t))

LimiterSpec == LimiterInit /\ [][LimiterNext]_limiterVars /\ LimiterFairness

-------------------------------------------------------------------------------
\* The two counters are exact at every await: _active counts the callers that hold
\* a slot and _waiting the callers inside the waiting room, whichever way each of
\* them came in or left (served, overtaken, cancelled while parked or once woken),
\* and neither passes its limit.
CountersExact ==
  /\ active = Cardinality(At("holding"))
  /\ waiting = Cardinality(Waiters)
  /\ active <= Limit
  /\ QueueLimit # Unbounded => waiting <= QueueLimit

\* A caller that was let into the waiting room is never turned away for a full
\* queue, even when newcomers took the slot it was woken for and it queues again.
NeverRejectedAfterQueueing ==
  [][\A t \in Tasks : gate[t] \in {"queued", "woken"} => gate'[t] # "rejected"]_limiterVars

\* No lost wake-up: while callers are parked, every free slot has a caller on its
\* way to it (woken, or cancelled and about to pass its notification on).
NoStrandedWaiter ==
  parked # <<>> =>
    Limit - active <= Cardinality(At("woken") \union At("cancelled"))

Admission == INSTANCE AdmissionControl WITH
  place <- [t \in Tasks |-> IF t \in Waiters THEN "waiting" ELSE gate[t]]

\* The gate implements AdmissionControl: the counters and the condition decide as
\* the sets of holders and waiters would, and a slot does not stay free for ever
\* while callers wait for one.
ImplementsAdmissionControl == Admission!Spec
===============================================================================

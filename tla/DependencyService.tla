--------------------------- MODULE DependencyService ---------------------------
(***************************************************************************)
(* DependencyService.invoke() of services/dependency.py: a call takes a    *)
(* processing slot of the service (the gate of services/capacity.py, which *)
(* is the gate of ConcurrencyLimiter), is processed, meets the injected    *)
(* faults and gives the slot back on every way out.  Beside it the service *)
(* keeps two flags from which it announces saturation and recovery.        *)
(*                                                                         *)
(* Every stretch of code between two awaits is one step.  Processing takes *)
(* time or none (a service without a processing model), and so does the    *)
(* rest of the call, so a call that need not wait can take a slot, meet    *)
(* its faults and give the slot back in one stretch.                       *)
(***************************************************************************)
EXTENDS ConcurrencyLimiter

VARIABLES work,         \* work[t]: the await at which the call t uses its slot
          peak,         \* peak_queue_depth
          saturated,    \* _saturated
          window,       \* an injector is active now (the clock decides)
          faultActive   \* _fault_active

serviceVars == <<limiterVars, work, peak, saturated, window, faultActive>>

WorkPlaces == {"none", "processing", "stalled"}

DependencyTypeOK ==
  /\ LimiterTypeOK
  /\ work \in [Tasks -> WorkPlaces]
  /\ peak \in waiting..Cardinality(Tasks)
  /\ saturated \in BOOLEAN
  /\ window \in BOOLEAN
  /\ faultActive \in BOOLEAN

DependencyInit ==
  /\ LimiterInit
  /\ work = [t \in Tasks |-> "none"]
  /\ peak = 0
  /\ saturated = FALSE
  /\ window \in BOOLEAN
  /\ faultActive = FALSE

-------------------------------------------------------------------------------
\* _update_saturation(): SERVICE_SATURATED and SERVICE_RECOVERED are emitted exactly
\* when the flag changes.
UpdateSaturation == saturated' = (active' >= Limit)

\* peak_queue_depth = max(peak_queue_depth, _waiting), after _waiting was raised.
RecordPeak(depth) == peak' = IF depth + 1 > peak THEN depth + 1 ELSE peak

\* _evaluate() and _fault_window_active() read the clock one after the other, and a
\* window may open or close in between.  An injector that is active may strike or not.
MeetFaults(struck) ==
  /\ struck => window
  /\ window' \in BOOLEAN
  /\ faultActive' = window'

\* Injected latency, a hang or a saturation delay keep the slot during one more await.
Stall(t) == MeetFaults(TRUE) /\ work' = [work EXCEPT ![t] = "stalled"]

\* No fault, or one that raises at once: the call ends in this stretch.
EndAtOnce(t) ==
  \E struck \in BOOLEAN : MeetFaults(struck) /\ work' = [work EXCEPT ![t] = "none"]

\* The slot is taken and given back in one stretch.
PassThrough(t, depth) ==
  /\ SlotFree
  /\ waiting' = depth
  /\ Notify(parked, [gate EXCEPT ![t] = "out"])
  /\ UNCHANGED active

\* The first stretch after a turn at the gate that won a slot.
StartWork(t, depth) ==
  \/ /\ TakeSlot(t, depth)
     /\ work' = [work EXCEPT ![t] = "processing"]
     /\ UNCHANGED <<window, faultActive>>
  \/ TakeSlot(t, depth) /\ Stall(t)
  \/ PassThrough(t, depth) /\ EndAtOnce(t)

Turn(t, depth) ==
  \/ StartWork(t, depth) /\ UpdateSaturation /\ UNCHANGED peak
  \/ Park(t, depth) /\ RecordPeak(depth) /\ UNCHANGED <<work, saturated, window, faultActive>>
  \/ TurnAway(t, depth) /\ UNCHANGED <<work, peak, saturated, window, faultActive>>

Invoke(t) == gate[t] = "out" /\ Turn(t, waiting)

\* Plausible slip: the finally clause of the wait no longer decrements _waiting.
MutWakeUpKeepsWaiting(t) == gate[t] = "woken" /\ Turn(t, waiting)

WakeUp(t) == gate[t] = "woken" /\ Turn(t, waiting - 1)

\* The sleep of the processing model ends.
Processed(t) ==
  /\ work[t] = "processing"
  /\ \/ Stall(t) /\ UNCHANGED <<limiterVars, saturated>>
     \/ EndAtOnce(t) /\ Release(t) /\ UpdateSaturation
  /\ UNCHANGED peak

\* Plausible slip: saturation is looked at before the slot is given back.
MutLeaveLooksTooEarly(t) ==
  /\ work[t] # "none"
  /\ work' = [work EXCEPT ![t] = "none"]
  /\ Release(t)
  /\ saturated' = (active >= Limit)
  /\ UNCHANGED <<peak, window, faultActive>>

\* Plausible slip: the slot of a call that is cancelled is not given back.
MutLeaveKeepsSlot(t) ==
  /\ work[t] # "none"
  /\ work' = [work EXCEPT ![t] = "none"]
  /\ UNCHANGED <<limiterVars, peak, saturated, window, faultActive>>

\* The finally clause, when the stall is over or the task is cancelled at an await.
LeaveService(t) ==
  /\ work[t] # "none"
  /\ work' = [work EXCEPT ![t] = "none"]
  /\ Release(t) /\ UpdateSaturation
  /\ UNCHANGED <<peak, window, faultActive>>

\* Cancellation in the waiting room, and the return to the caller, are the gate's.
AtGate(t) ==
  /\ Cancel(t) \/ Abandon(t) \/ Return(t)
  /\ UNCHANGED <<work, peak, saturated, window, faultActive>>

\* Time passes: a fault window opens or closes.
WindowMoves ==
  /\ window' = ~window
  /\ UNCHANGED <<limiterVars, work, peak, saturated, faultActive>>

DependencyNext ==
  \/ \E t \in Tasks :
       Invoke(t) \/ WakeUp(t) \/ Processed(t) \/ LeaveService(t) \/ AtGate(t)
  \/ WindowMoves

\* The event loop runs every ready callback, and simulated work is finite.
DependencyFairness ==
  \A t \in Tasks : WF_serviceVars(WakeUp(t)) /\ WF_serviceVars(Abandon(t) /\ AtGate(t))

DependencySpec == DependencyInit /\ [][DependencyNext]_serviceVars /\ DependencyFairness

-------------------------------------------------------------------------------
\* What the stream of SERVICE_SATURATED and SERVICE_RECOVERED events tells is true at
\* every await: the service is reported saturated exactly while calls hold all of its
\* slots, however a call came by its slot (at once, after a wait, overtaking a woken
\* caller) and however it left (answer, raised fault, stall, cancellation).
SaturationReported == saturated <=> (Cardinality(At("holding")) = Limit)

\* A slot is held by exactly the calls that are at one of the awaits of the try
\* block, so no way out of invoke() keeps a slot and none gives back another's.
SlotHeldByWork == \A t \in Tasks : work[t] # "none" <=> gate[t] = "holding"
===============================================================================

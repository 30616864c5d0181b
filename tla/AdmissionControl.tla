--------------------------- MODULE AdmissionControl ---------------------------
(***************************************************************************)
(* What a concurrency gate promises its callers, without saying how: at    *)
(* most Limit callers hold a slot, at most QueueLimit callers wait, a      *)
(* caller is turned away only when both the slots and the waiting room are *)
(* full, and a slot does not stay free while callers wait for one.         *)
(* ConcurrencyLimiter is shown to implement this specification.            *)
(***************************************************************************)
EXTENDS Naturals, FiniteSets

CONSTANTS Tasks,       \* the callers
          Limit,       \* number of slots
          QueueLimit,  \* size of the waiting room, or Unbounded
          Unbounded

VARIABLE place         \* place[t]: where caller t stands

Places == {"out", "waiting", "holding", "rejected"}

At(p) == {t \in Tasks : place[t] = p}

SlotFree == Cardinality(At("holding")) < Limit

WaitingRoomFull ==
  /\ QueueLimit # Unbounded
  /\ Cardinality(At("waiting")) >= QueueLimit

Init == place = [t \in Tasks |-> "out"]

Move(t, from, to) ==
  /\ place[t] = from
  /\ place' = [place EXCEPT ![t] = to]

Enter(t)   == SlotFree /\ Move(t, "out", "holding")
Wait(t)    == ~SlotFree /\ ~WaitingRoomFull /\ Move(t, "out", "waiting")
Reject(t)  == ~SlotFree /\ WaitingRoomFull /\ Move(t, "out", "rejected")
Admit(t)   == SlotFree /\ Move(t, "waiting", "holding")
Abandon(t) == Move(t, "waiting", "out")
Leave(t)   == Move(t, "holding", "out")
Return(t)  == Move(t, "rejected", "out")

AdmitSome == \E t \in Tasks : Admit(t)

Next ==
  \E t \in Tasks :
    \/ Enter(t) \/ Wait(t) \/ Reject(t) \/ Admit(t)
    \/ Abandon(t) \/ Leave(t) \/ Return(t)

\* Which waiting caller is served is left open: a caller may be overtaken.
Spec == Init /\ [][Next]_place /\ WF_place(AdmitSome)
===============================================================================

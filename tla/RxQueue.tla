------------------------------- MODULE RxQueue -------------------------------
(***************************************************************************)
(* What the receive path of the driver promises its caller: a bounded FIFO *)
(* between the CAN interrupt (producer) and MessageRead (consumer).        *)
(*                                                                         *)
(*   - a received frame is either accepted, at the back of the queue, or   *)
(*     rejected, and while the driver is powered it is rejected only when  *)
(*     the queue is full;                                                  *)
(*   - whatever happened to it is owed to the application as an event:     *)
(*     RECEIVE for an accepted frame, RECEIVE_OVERRUN for a rejected one,  *)
(*     and no event is signalled that is not owed;                         *)
(*   - MessageRead returns the oldest accepted frame, whole, once, and     *)
(*     fails only when the queue is empty or the driver not powered;       *)
(*   - frames are thrown away only while the driver is not powered.        *)
(***************************************************************************)
EXTENDS Naturals, Sequences

CONSTANTS Frame,      \* what a message object can hold
          NoFrame,    \* "no message": what a failed MessageRead returns
          Capacity    \* how many frames the driver buffers

VARIABLES queue,      \* accepted and not yet read, oldest first
          owed,       \* the events owed to the application
          event,      \* the last event signalled
          returned,   \* what the last MessageRead returned
          powered     \* whether the driver is powered

vars == <<queue, owed, event, returned, powered>>

Event == {"RECEIVE", "RECEIVE_OVERRUN"}

Init == /\ queue = <<>>
        /\ owed = {}
        /\ event = "none"
        /\ returned = NoFrame
        /\ powered = FALSE

Accept(f) == /\ Len(queue) < Capacity
             /\ queue' = Append(queue, f)
             /\ owed' = owed \cup {"RECEIVE"}
             /\ UNCHANGED <<event, returned, powered>>

Reject == /\ Len(queue) = Capacity \/ ~powered
          /\ owed' = owed \cup {"RECEIVE_OVERRUN"}
          /\ UNCHANGED <<queue, event, returned, powered>>

Signal(e) == /\ e \in owed
             /\ event' = e
             /\ owed' = owed \ {e}
             /\ UNCHANGED <<queue, returned, powered>>

Read == /\ powered
        /\ queue # <<>>
        /\ returned' = Head(queue)
        /\ queue' = Tail(queue)
        /\ UNCHANGED <<owed, event, powered>>

ReadNothing == /\ queue = <<>> \/ ~powered
               /\ returned' = NoFrame
               /\ UNCHANGED <<queue, owed, event, powered>>

\* PowerControl(FULL) starts from an empty buffer.
Clear == /\ ~powered
         /\ queue' = <<>>
         /\ UNCHANGED <<owed, event, returned, powered>>

\* Power comes up with whatever the interrupt has accepted by then.
Power == /\ powered' = ~powered
         /\ UNCHANGED <<queue, owed, event, returned>>

Next == \/ \E f \in Frame : Accept(f)
        \/ Reject
        \/ \E e \in Event : Signal(e)
        \/ Read
        \/ ReadNothing
        \/ Clear
        \/ Power

Spec == Init /\ [][Next]_vars
=============================================================================

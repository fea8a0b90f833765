------------------------------ MODULE RxDelivery ------------------------------
(***************************************************************************)
(* What the whole receive path, hardware FIFO, interrupt handler and       *)
(* software ring together, promises: frames are read in the order of their *)
(* arrival, each at most once, and one is lost only because at least       *)
(* Buffer frames that arrived before it still wait to be read.  It may be  *)
(* lost as it arrives, or later, when the handler finds no place for it;   *)
(* a frame that has Buffer places before it is safe.                       *)
(*                                                                         *)
(* Frames are numbered in the order of their arrival.                      *)
(***************************************************************************)
EXTENDS Naturals, Sequences

CONSTANT Buffer

VARIABLES arrived,    \* how many frames the bus has delivered
          pending,    \* those that wait, oldest first
          read        \* those the application has read, in order

deliveryVars == <<arrived, pending, read>>

Init == arrived = 0 /\ pending = <<>> /\ read = <<>>

\* s without its i-th element.
Without(s, i) == [j \in 1 .. Len(s) - 1 |-> IF j < i THEN s[j] ELSE s[j + 1]]

Accept == /\ arrived' = arrived + 1
          /\ pending' = Append(pending, arrived')
          /\ UNCHANGED read

Refuse == /\ Len(pending) >= Buffer
          /\ arrived' = arrived + 1
          /\ UNCHANGED <<pending, read>>

Drop(i) == /\ i > Buffer
           /\ pending' = Without(pending, i)
           /\ UNCHANGED <<arrived, read>>

Read == /\ pending # <<>>
        /\ read' = Append(read, Head(pending))
        /\ pending' = Tail(pending)
        /\ UNCHANGED arrived

Next == \/ Accept
        \/ Refuse
        \/ \E i \in 1 .. Len(pending) : Drop(i)
        \/ Read

Spec == Init /\ [][Next]_deliveryVars
=============================================================================

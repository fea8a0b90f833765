------------------------------- MODULE RxPath --------------------------------
(***************************************************************************)
(* The whole receive path of one instance, from the moment PowerControl    *)
(* (FULL) has armed its interrupt: the module's receive FIFO and its       *)
(* sticky overflow flag, the CPU interrupt flags, the handler              *)
(* nora_canfd_irq_handler with the driver's callback can_hal_event, the    *)
(* ring of RxRing, and an application that calls MessageRead.              *)
(*                                                                         *)
(* The hardware runs at any time, between any two steps of the software.   *)
(* The handler is not preempted by the thread; it preempts the thread      *)
(* between any two of its steps.  Frames are numbered in order of arrival. *)
(* The transmit branch of the handler is not armed here (TxPath has it).   *)
(***************************************************************************)
EXTENDS RxRing

CONSTANTS FifoDepth,   \* RX_DEPTH, objects in receive FIFO 1
          MaxFrames,   \* how many frames the bus delivers
          Policies     \* how the application may read, see below

\* How the application calls MessageRead:
\*   "thread": polls from the main loop;
\*   "all":    in the RECEIVE event, until it returns "no message";
\*   "one":    in the RECEIVE event, once.
ASSUME PathAssumption == /\ FifoDepth \in Nat \ {0}
                         /\ MaxFrames \in Nat
                         /\ Frame = 1 .. MaxFrames
                         /\ Policies \subseteq {"thread", "all", "one"}

VARIABLES fifo, rxov,        \* FIFO 1 and FIFOSTA1.RXOVIF
          rxif, genif,       \* the CPU flags _CxRXIF and _CxIF
          busoff,            \* TREC.TXBO
          ipc, events,       \* nora_canfd_irq_handler: where, local events
          policy, cbdone,    \* the application's way of reading
          unitevent,         \* the last cb_unit event
          arrived, lost, read, unreported, stranded   \* history: see below

hwVars   == <<fifo, rxov, rxif, genif, busoff>>
isrVars  == <<ipc, events>>
appVars  == <<policy, cbdone, unitevent>>
histVars == <<arrived, lost, read, unreported, stranded>>
pathVars == <<ringVars, hwVars, isrVars, appVars, histVars>>

\* arrived: frames the bus delivered so far; lost: those dropped by the FIFO or
\* by the ring; read: those MessageRead returned, in order; unreported: a
\* frame was lost since the last RECEIVE_OVERRUN; stranded: the frames that were
\* in the ring when powered was set: the RECEIVE event for them came while
\* MessageRead still refused to run.

\* nora_canfd_isr_enable has just armed the receive sources and lines, inside
\* can_apply_init; PowerControl(FULL) has not set powered yet.
PathInit == /\ RingInit /\ ppc = "apply"
            /\ fifo = <<>> /\ rxov = FALSE
            /\ rxif = FALSE /\ genif = FALSE
            /\ busoff = FALSE
            /\ ipc = "idle" /\ events = {}
            /\ policy \in Policies /\ cbdone = FALSE
            /\ unitevent = "none"
            /\ arrived = 0 /\ lost = {} /\ read = <<>> /\ unreported = FALSE
            /\ stranded = {}

----------------------------------------------------------------------------
(* The CAN module.                                                         *)

Arrive ==
    /\ arrived < MaxFrames
    /\ ~busoff
    /\ arrived' = arrived + 1
    /\ IF Len(fifo) < FifoDepth
         THEN fifo' = Append(fifo, arrived') /\ UNCHANGED <<rxov, lost, unreported>>
         ELSE /\ rxov' = TRUE
              /\ lost' = lost \cup {arrived'}
              /\ unreported' = TRUE
              /\ UNCHANGED fifo
    /\ UNCHANGED <<ringVars, rxif, genif, busoff, isrVars, appVars, read, stranded>>

\* INT.RXIF and INT.RXOVIF are levels: as long as the FIFO is not empty, or
\* its overflow flag is set, the CPU flag of their line is set again.
LatchRx ==
    /\ fifo # <<>> /\ ~rxif
    /\ rxif' = TRUE
    /\ UNCHANGED <<ringVars, fifo, rxov, genif, busoff, isrVars, appVars, histVars>>

LatchGeneral ==
    /\ rxov /\ ~genif
    /\ genif' = TRUE
    /\ UNCHANGED <<ringVars, fifo, rxov, rxif, busoff, isrVars, appVars, histVars>>

\* Bus-off and the recovery from it; isr_enable arms no source for either.
BusOff ==
    /\ busoff' = ~busoff
    /\ UNCHANGED <<ringVars, fifo, rxov, rxif, genif, isrVars, appVars, histVars>>

----------------------------------------------------------------------------
(* nora_canfd_irq_handler.                                                 *)

Enter ==
    /\ ipc = "idle"
    /\ rxif \/ genif
    /\ ipc' = "int"
    /\ UNCHANGED <<ringVars, hwVars, events, appVars, histVars>>

\* intf = *regs->INT, one snapshot.
ReadInt ==
    /\ ipc = "int"
    /\ ipc' = "ackov"
    /\ events' = (IF fifo # <<>> THEN {"RX_AVAILABLE"} ELSE {}) \cup
                 (IF rxov THEN {"RX_OVERFLOW"} ELSE {})
    /\ UNCHANGED <<ringVars, hwVars, appVars, histVars>>

\* Mutant: RXOVIF is cleared whether or not the snapshot had it.
BugAckAlways ==
    /\ ipc = "ackov"
    /\ ipc' = "trec"
    /\ rxov' = FALSE
    /\ UNCHANGED <<ringVars, fifo, rxif, genif, busoff, events, appVars, histVars>>

\* FIFOSTA1.RXOVIF is cleared only if the snapshot had it, and before the
\* callback reports it.
AckOverflow ==
    /\ ipc = "ackov"
    /\ ipc' = "trec"
    /\ rxov' = IF "RX_OVERFLOW" \in events THEN FALSE ELSE rxov
    /\ UNCHANGED <<ringVars, fifo, rxif, genif, busoff, events, appVars, histVars>>

ReadTrec ==
    /\ ipc = "trec"
    /\ ipc' = "callback"
    /\ events' = events \cup (IF busoff THEN {"BUS_OFF"} ELSE {})
    /\ UNCHANGED <<ringVars, hwVars, appVars, histVars>>

\* can_hal_event: RX_AVAILABLE starts the drain loop.
CallbackDrain ==
    /\ ipc = "callback"
    /\ "RX_AVAILABLE" \in events
    /\ ipc' = "drain"
    /\ DrainStart
    /\ UNCHANGED <<hwVars, events, appVars, histVars>>

CallbackNoRx ==
    /\ ipc = "callback"
    /\ "RX_AVAILABLE" \notin events
    /\ ipc' = "hwov"
    /\ UNCHANGED <<ringVars, hwVars, events, appVars, histVars>>

\* Mutant: receive is called without asking.
BugReceiveUnasked ==
    /\ ipc = "drain" /\ wpc = "drain"
    /\ ipc' = "receive"
    /\ UNCHANGED <<ringVars, hwVars, events, appVars, histVars>>

\* nora_canfd_rx_available: FIFO not empty.
RxAvailable ==
    /\ ipc = "drain" /\ wpc = "drain"
    /\ fifo # <<>>
    /\ ipc' = "receive"
    /\ UNCHANGED <<ringVars, hwVars, events, appVars, histVars>>

\* Mutant: the object is not released (no UINC).
BugReceiveKeeps ==
    /\ ipc = "receive" /\ fifo # <<>>
    /\ ipc' = "drain"
    /\ Push(Head(fifo))
    /\ IF RoomFor(Succ(rx_head))
         THEN UNCHANGED <<lost, unreported>>
         ELSE lost' = lost \cup {Head(fifo)} /\ unreported' = TRUE
    /\ UNCHANGED <<hwVars, events, appVars, arrived, read, stranded>>

\* nora_canfd_receive releases the object; then the full test of the ring.
Receive ==
    /\ ipc = "receive"
    /\ fifo # <<>>
    /\ ipc' = "drain"
    /\ fifo' = Tail(fifo)
    /\ Push(Head(fifo))
    /\ IF RoomFor(Succ(rx_head))
         THEN UNCHANGED <<lost, unreported>>
         ELSE lost' = lost \cup {Head(fifo)} /\ unreported' = TRUE
    /\ UNCHANGED <<rxov, rxif, genif, busoff, events, appVars, arrived, read, stranded>>

StoreFrame ==
    /\ ipc = "drain"
    /\ Store
    /\ UNCHANGED <<hwVars, isrVars, appVars, histVars>>

NoneAvailable ==
    /\ ipc = "drain"
    /\ fifo = <<>>
    /\ DrainEnd
    /\ UNCHANGED <<hwVars, isrVars, appVars, histVars>>

\* Mutant: RECEIVE only if nothing was dropped.
BugTellUnlessDropped ==
    /\ ipc = "drain"
    /\ SignalReceive
    /\ ipc' = IF policy = "thread" \/ dropped THEN "drain" ELSE "event"
    /\ cbdone' = FALSE
    /\ UNCHANGED <<hwVars, events, policy, unitevent, histVars>>

\* cb_object(RECEIVE); an application that reads in the event runs in it.
TellReceive ==
    /\ ipc = "drain"
    /\ SignalReceive
    /\ ipc' = IF policy = "thread" THEN "drain" ELSE "event"
    /\ cbdone' = FALSE
    /\ UNCHANGED <<hwVars, events, policy, unitevent, histVars>>

TellReceiveReturn ==
    /\ ipc = "event" /\ cbdone
    /\ ipc' = "drain"
    /\ UNCHANGED <<ringVars, hwVars, events, appVars, histVars>>

TellOverrun ==
    /\ ipc = "drain"
    /\ SignalOverrun
    /\ unreported' = FALSE
    /\ UNCHANGED <<hwVars, isrVars, appVars, arrived, lost, read, stranded>>

\* Mutant: the drain returns after RECEIVE, dropped or not.
BugDrainReturnEarly ==
    /\ ipc = "drain" /\ wpc = "signal" /\ ~received
    /\ wpc' = "idle"
    /\ ipc' = "hwov"
    /\ UNCHANGED <<rx_ring, rx_head, rx_tail, f, received, dropped, event,
                   readerVars, powerVars, hwVars, events, appVars, histVars>>

DrainReturn ==
    /\ ipc = "drain"
    /\ EventReturn
    /\ ipc' = "hwov"
    /\ UNCHANGED <<hwVars, events, appVars, histVars>>

\* Mutant: the module's overflow is acknowledged but not reported.
BugHwOverrunSilent ==
    /\ ipc = "hwov"
    /\ ipc' = "unit"
    /\ UNCHANGED <<ringVars, hwVars, events, appVars, histVars>>

\* The second RECEIVE_OVERRUN of can_hal_event, for the module's overflow.
TellHwOverrun ==
    /\ ipc = "hwov"
    /\ ipc' = "unit"
    /\ unreported' = IF "RX_OVERFLOW" \in events THEN FALSE ELSE unreported
    /\ UNCHANGED <<ringVars, hwVars, events, appVars, arrived, lost, read, stranded>>

TellBusOff ==
    /\ ipc = "unit"
    /\ ipc' = "exit"
    /\ unitevent' = IF "BUS_OFF" \in events THEN "UNIT_BUS_OFF" ELSE unitevent
    /\ UNCHANGED <<ringVars, hwVars, events, policy, cbdone, histVars>>

\* Mutant: the CPU flags are not cleared.
BugExitKeepsFlags ==
    /\ ipc = "exit"
    /\ ipc' = "idle"
    /\ events' = {}
    /\ UNCHANGED <<ringVars, hwVars, appVars, histVars>>

\* irq_line_clear, after the callback, then the return from the interrupt.
Exit ==
    /\ ipc = "exit"
    /\ ipc' = "idle"
    /\ rxif' = FALSE
    /\ genif' = FALSE
    /\ events' = {}
    /\ UNCHANGED <<ringVars, fifo, rxov, busoff, appVars, histVars>>

Handler == \/ Enter \/ ReadInt \/ AckOverflow \/ ReadTrec
           \/ CallbackDrain \/ CallbackNoRx
           \/ RxAvailable \/ Receive \/ StoreFrame \/ NoneAvailable
           \/ TellReceive \/ TellReceiveReturn \/ TellOverrun \/ DrainReturn
           \/ TellHwOverrun \/ TellBusOff \/ Exit

----------------------------------------------------------------------------
(* The thread and the application.                                         *)

InRing == {Contents[i] : i \in 1 .. Len(Contents)}

\* The rest of PowerControl(FULL): can_apply_init has returned.
PowerFullReturns ==
    /\ ipc = "idle"
    /\ PowerUp
    /\ stranded' = InRing
    /\ UNCHANGED <<hwVars, isrVars, appVars, arrived, lost, read, unreported>>

\* The thread reads after PowerControl has returned, a callback in its event.
Where == IF policy = "thread" THEN ipc = "idle" /\ ppc = "idle"
                              ELSE ipc = "event" /\ ~cbdone

\* MessageRead returns ARM_DRIVER_ERROR, whether the ring is empty or powered
\* is clear: the caller cannot tell the two apart.
AppNoMessage ==
    /\ Where
    /\ ReadRefused \/ ReadEmpty
    /\ cbdone' = (policy # "thread")
    /\ UNCHANGED <<hwVars, isrVars, policy, unitevent, histVars>>

AppCopy ==
    /\ Where
    /\ ReadStart \/ CopyFirst \/ CopyLast
    /\ UNCHANGED <<hwVars, isrVars, appVars, histVars>>

AppRead ==
    /\ Where
    /\ Advance
    /\ read' = Append(read, frame.first)
    /\ cbdone' = (policy = "one")
    /\ UNCHANGED <<hwVars, isrVars, policy, unitevent, arrived, lost, unreported,
                   stranded>>

App == AppNoMessage \/ AppCopy \/ AppRead

PathNext == \/ Arrive \/ LatchRx \/ LatchGeneral \/ BusOff
            \/ Handler
            \/ PowerFullReturns
            \/ App

\* The level-sensitive flags are raised, the handler and the callback run to
\* completion, and the main loop runs whenever no interrupt does.  Nothing is
\* assumed of the bus.
PathSpec == /\ PathInit
            /\ [][PathNext]_pathVars
            /\ WF_pathVars(LatchRx) /\ WF_pathVars(LatchGeneral)
            /\ WF_pathVars(Handler)
            /\ WF_pathVars(PowerFullReturns) /\ WF_pathVars(App)

----------------------------------------------------------------------------
PathTypeOK ==
    /\ RingTypeOK
    /\ fifo \in Seq(Frame) /\ Len(fifo) <= FifoDepth
    /\ {rxov, rxif, genif, busoff, cbdone, unreported} \subseteq BOOLEAN
    /\ ipc \in {"idle", "int", "ackov", "trec", "callback", "drain", "receive",
                "event", "hwov", "unit", "exit"}
    /\ events \subseteq {"RX_AVAILABLE", "RX_OVERFLOW", "BUS_OFF"}
    /\ policy \in Policies
    /\ unitevent \in {"none", "UNIT_BUS_OFF"}
    /\ arrived \in 0 .. MaxFrames
    /\ lost \subseteq Frame
    /\ read \in Seq(Frame)
    /\ stranded \subseteq Frame

\* Every frame on its way to the application, the furthest first: read, in
\* the ring, in the handler's hands, in the FIFO.
InHand   == IF wpc \in {"storefirst", "storelast", "publish"} THEN <<f>> ELSE <<>>
Pipeline == read \o Contents \o InHand \o fifo

\* A frame the bus delivered is in exactly one place of the path or counted as
\* lost, and the path keeps the order of arrival: none is duplicated, none
\* overtakes another, none disappears between FIFO, handler, ring and reader.
EachFrameOnceInOrder ==
    /\ \A i, j \in 1 .. Len(Pipeline) : i < j => Pipeline[i] < Pipeline[j]
    /\ {Pipeline[i] : i \in 1 .. Len(Pipeline)} = (1 .. arrived) \ lost

\* A lost frame that no RECEIVE_OVERRUN has reported yet is never forgotten:
\* the sticky flag, the ring's local flag, or the handler's event still has
\* it.  In particular the clear of RXOVIF in the handler loses no overflow
\* that happens while the handler runs.
LossRemembered ==
    unreported => \/ rxov
                  \/ dropped
                  \/ "RX_OVERFLOW" \in events /\ ipc \notin {"unit", "exit"}

\* nora_canfd_receive, called in the handler, finds its frame: it never waits
\* inside an interrupt for one that is not there.
ReceiveNeverWaits == ipc = "receive" => fifo # <<>>

\* FIFO, handler and ring together are one queue: frames are read in the order
\* of arrival, and one is lost only while as many as the smaller of FIFO and ring
\* can hold, all older, wait to be read.
Waiting == Contents \o InHand \o fifo
Buffer  == IF FifoDepth < RingLen - 1 THEN FifoDepth ELSE RingLen - 1
Delivery == INSTANCE RxDelivery WITH pending <- Waiting
ImplementsDelivery == Delivery!Spec

\* Every frame the bus delivers is in the end read by the application or
\* counted as lost, although the handler clears the CPU flag after the drain:
\* the level raises it again.  One kind of frame is excepted, and only for an
\* application that reads in the event: those drained between isr_enable and
\* "ctx->powered = 1u".  MessageRead refuses them in their event, and they wait
\* in the ring until a later frame is accepted and raises the next RECEIVE.
EveryFrameReadOrLost ==
    \A x \in Frame : (arrived >= x) ~>
        \/ x \in lost
        \/ \E i \in 1 .. Len(read) : read[i] = x
        \/ policy # "thread" /\ x \in stranded

\* Every loss is in the end reported by a RECEIVE_OVERRUN.
LossReported == unreported ~> ~unreported

\* The interrupt does not starve the main loop: once the bus is silent the
\* handler stops being entered.
HandlerSettles == <>[](ipc = "idle" /\ ~rxif /\ ~genif)

\* README.md: UNIT_BUS_OFF events are delivered: a node that goes bus-off and
\* stays so tells the application.
BusOffDelivered == busoff ~> (~busoff \/ unitevent = "UNIT_BUS_OFF")
=============================================================================

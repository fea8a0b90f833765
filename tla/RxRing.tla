------------------------------- MODULE RxRing --------------------------------
(***************************************************************************)
(* The software receive ring of one driver instance: rx_ring, rx_head and  *)
(* rx_tail of can_cmsis_context_t.  The CAN interrupt is the only producer *)
(* (the drain loop of can_hal_event) and CAN_MessageRead the only          *)
(* consumer.  There is no lock: the producer owns rx_head, the consumer    *)
(* owns rx_tail, and each reads the other's index once.                    *)
(*                                                                         *)
(* A frame is a struct of many words, so storing it into a slot and        *)
(* copying it out take several steps.  A frame stands here for its first   *)
(* and its last word: two steps to store it, two to copy it, and a slot    *)
(* whose words come from two frames is a torn one.  Every interleaving of  *)
(* the two sides is allowed, which covers a MessageRead in a thread, in    *)
(* the event callback, and at a priority above the CAN interrupt's.        *)
(*                                                                         *)
(* The thread that calls Initialize and PowerControl is here too, with the *)
(* context's flag powered: MessageRead refuses to run while it is clear,   *)
(* and PowerControl(FULL) rewinds the ring while it is clear.  It does not *)
(* rewind under a lock either: after an Initialize of a powered driver the *)
(* receive line is still live, so the interrupt may drain frames into the  *)
(* ring between the stores of the two indices.                             *)
(***************************************************************************)
EXTENDS Naturals, Sequences

CONSTANTS Frame,      \* the frames that can be received
          NoFrame,    \* the content of a slot never written
          RingLen     \* CAN_RX_RING_LEN

ASSUME RingAssumption == /\ RingLen \in Nat \ {0}
                         /\ NoFrame \notin Frame

Index == 0 .. RingLen - 1
Word  == Frame \cup {NoFrame}
Slot  == [first : Word, last : Word]

VARIABLES rx_ring, rx_head, rx_tail,   \* the context's ring
          wpc,                         \* where can_hal_event is
          f,                           \* its local frame
          received, dropped,           \* its local flags
          rpc,                         \* where CAN_MessageRead is
          frame,                       \* its local frame
          returned,                    \* the frame it returned last
          event,                       \* the last cb_object event
          powered,                     \* the context's flag
          ppc                          \* where CAN_PowerControl(FULL) is

writerVars == <<wpc, f, received, dropped, event>>
readerVars == <<rpc, frame, returned>>
powerVars  == <<powered, ppc>>
ringVars   == <<rx_ring, rx_head, rx_tail, wpc, f, received, dropped,
                rpc, frame, returned, event, powered, ppc>>

Empty == [first |-> NoFrame, last |-> NoFrame]

\* The zero-initialised context.  The thread has not called PowerControl(FULL)
\* yet, or is in it and has rewound the indices, which are 0 already: from
\* there RxPath goes on.
RingInit == /\ rx_ring = [i \in Index |-> Empty]
            /\ rx_head = 0
            /\ rx_tail = 0
            /\ wpc = "idle"
            /\ f = NoFrame
            /\ received = FALSE
            /\ dropped = FALSE
            /\ rpc = "idle"
            /\ frame = Empty
            /\ returned = Empty
            /\ event = "none"
            /\ powered = FALSE
            /\ ppc \in {"idle", "apply"}

\* Mutants (Bug...) stand in the run for the definition that follows them, to
\* show that the properties notice: the wrap forgotten, the wrap one too late.
BugSuccNoWrap(i) == i + 1
BugSuccLate(i)   == (i + 1) % (RingLen + 1)

\* (i + 1u) % CAN_RX_RING_LEN
Succ(i) == (i + 1) % RingLen

----------------------------------------------------------------------------
(* The producer: the RX_AVAILABLE part of can_hal_event.                   *)

DrainStart ==
    /\ wpc = "idle"
    /\ wpc' = "drain"
    /\ received' = FALSE
    /\ dropped' = FALSE
    /\ UNCHANGED <<rx_ring, rx_head, rx_tail, f, event, readerVars, powerVars>>

\* Mutants: no full test; one that keeps a second slot unused.
BugRoomAlways(nh) == TRUE
BugRoomEarly(nh)  == nh # rx_tail /\ Succ(nh) # rx_tail

\* The full test of the loop body, "nh != ctx->rx_tail".
RoomFor(nh) == nh # rx_tail

\* One frame x has been received from the HAL: store it, or drop it if full.
Push(x) ==
    /\ wpc = "drain"
    /\ IF RoomFor(Succ(rx_head))
         THEN wpc' = "storefirst" /\ f' = x /\ UNCHANGED dropped
         ELSE dropped' = TRUE /\ UNCHANGED <<wpc, f>>
    /\ UNCHANGED <<rx_ring, rx_head, rx_tail, received, event, readerVars, powerVars>>

StoreFirst ==
    /\ wpc = "storefirst"
    /\ wpc' = "storelast"
    /\ rx_ring' = [rx_ring EXCEPT ![rx_head].first = f]
    /\ UNCHANGED <<rx_head, rx_tail, f, received, dropped, event, readerVars, powerVars>>

StoreLast ==
    /\ wpc = "storelast"
    /\ wpc' = "publish"
    /\ rx_ring' = [rx_ring EXCEPT ![rx_head].last = f]
    /\ UNCHANGED <<rx_head, rx_tail, f, received, dropped, event, readerVars, powerVars>>

Publish ==
    /\ wpc = "publish"
    /\ wpc' = "drain"
    /\ rx_head' = Succ(rx_head)
    /\ received' = TRUE
    /\ UNCHANGED <<rx_ring, rx_tail, f, dropped, event, readerVars, powerVars>>

DrainEnd ==
    /\ wpc = "drain"
    /\ wpc' = "signal"
    /\ UNCHANGED <<rx_ring, rx_head, rx_tail, f, received, dropped, event,
                   readerVars, powerVars>>

\* The two calls of cb_object, in this order; the flags are dead after them.
SignalReceive ==
    /\ wpc = "signal"
    /\ received
    /\ event' = "RECEIVE"
    /\ received' = FALSE
    /\ UNCHANGED <<rx_ring, rx_head, rx_tail, wpc, f, dropped, readerVars, powerVars>>

SignalOverrun ==
    /\ wpc = "signal"
    /\ ~received
    /\ dropped
    /\ event' = "RECEIVE_OVERRUN"
    /\ dropped' = FALSE
    /\ UNCHANGED <<rx_ring, rx_head, rx_tail, wpc, f, received, readerVars, powerVars>>

\* Mutant: "else if (dropped)", RECEIVE_OVERRUN is skipped after a RECEIVE.
BugEventReturnElse ==
    /\ wpc = "signal" /\ ~received
    /\ wpc' = "idle"
    /\ UNCHANGED <<rx_ring, rx_head, rx_tail, f, received, dropped, event,
                   readerVars, powerVars>>

EventReturn ==
    /\ wpc = "signal"
    /\ ~received /\ ~dropped
    /\ wpc' = "idle"
    /\ UNCHANGED <<rx_ring, rx_head, rx_tail, f, received, dropped, event,
                   readerVars, powerVars>>

----------------------------------------------------------------------------
(* The consumer: the pop of CAN_MessageRead.                               *)

\* MessageRead tests powered first; with the ring empty or not.
ReadRefused ==
    /\ rpc = "idle"
    /\ ~powered
    /\ returned' = Empty
    /\ UNCHANGED <<rx_ring, rx_head, rx_tail, rpc, frame, writerVars, powerVars>>

ReadEmpty ==
    /\ rpc = "idle"
    /\ powered
    /\ rx_tail = rx_head
    /\ returned' = Empty
    /\ UNCHANGED <<rx_ring, rx_head, rx_tail, rpc, frame, writerVars, powerVars>>

ReadStart ==
    /\ rpc = "idle"
    /\ powered
    /\ rx_tail # rx_head
    /\ rpc' = "copyfirst"
    /\ UNCHANGED <<rx_ring, rx_head, rx_tail, frame, returned, writerVars, powerVars>>

CopyFirst ==
    /\ rpc = "copyfirst"
    /\ rpc' = "copylast"
    /\ frame' = [frame EXCEPT !.first = rx_ring[rx_tail].first]
    /\ UNCHANGED <<rx_ring, rx_head, rx_tail, returned, writerVars, powerVars>>

CopyLast ==
    /\ rpc = "copylast"
    /\ rpc' = "advance"
    /\ frame' = [frame EXCEPT !.last = rx_ring[rx_tail].last]
    /\ UNCHANGED <<rx_ring, rx_head, rx_tail, returned, writerVars, powerVars>>

\* The slot is given back only after the copy; the conversion to
\* ARM_CAN_MSG_INFO that follows works on the local copy.
Advance ==
    /\ rpc = "advance"
    /\ rpc' = "idle"
    /\ rx_tail' = Succ(rx_tail)
    /\ returned' = frame
    /\ UNCHANGED <<rx_ring, rx_head, frame, writerVars, powerVars>>

----------------------------------------------------------------------------
(* The thread.  It runs while no interrupt does, and is not itself inside a *)
(* MessageRead.                                                            *)

Thread == wpc = "idle" /\ rpc = "idle"

\* PowerControl(FULL) of a driver whose flag is clear, "ctx->rx_head = 0u".
RewindHead ==
    /\ Thread
    /\ ppc = "idle" /\ ~powered
    /\ ppc' = "rewind"
    /\ rx_head' = 0
    /\ UNCHANGED <<rx_ring, rx_tail, powered, writerVars, readerVars>>

\* "ctx->rx_tail = 0u", then the call of can_apply_init.
RewindTail ==
    /\ Thread
    /\ ppc = "rewind"
    /\ ppc' = "apply"
    /\ rx_tail' = 0
    /\ UNCHANGED <<rx_ring, rx_head, powered, writerVars, readerVars>>

\* can_apply_init failed: powered stays clear.
ApplyFails ==
    /\ Thread
    /\ ppc = "apply"
    /\ ppc' = "idle"
    /\ UNCHANGED <<rx_ring, rx_head, rx_tail, powered, writerVars, readerVars>>

\* can_apply_init has armed the interrupt; only now powered is set.
PowerUp ==
    /\ Thread
    /\ ppc = "apply"
    /\ ppc' = "idle"
    /\ powered' = TRUE
    /\ UNCHANGED <<rx_ring, rx_head, rx_tail, writerVars, readerVars>>

\* PowerControl(OFF), and Initialize, which leaves the interrupt as it is.
PowerDown ==
    /\ Thread
    /\ powered
    /\ powered' = FALSE
    /\ UNCHANGED <<rx_ring, rx_head, rx_tail, ppc, writerVars, readerVars>>

Store  == StoreFirst \/ StoreLast \/ Publish
Signal == SignalReceive \/ SignalOverrun
Reader == ReadRefused \/ ReadEmpty \/ ReadStart \/ CopyFirst \/ CopyLast \/ Advance
Power  == RewindHead \/ RewindTail \/ ApplyFails \/ PowerUp \/ PowerDown

RingNext == \/ DrainStart
            \/ \E x \in Frame : Push(x)
            \/ Store
            \/ DrainEnd
            \/ Signal
            \/ EventReturn
            \/ Reader
            \/ Power

RingSpec == RingInit /\ [][RingNext]_ringVars

----------------------------------------------------------------------------
RingTypeOK ==
    /\ rx_ring \in [Index -> Slot]
    /\ rx_head \in Index
    /\ rx_tail \in Index
    /\ wpc \in {"idle", "drain", "storefirst", "storelast", "publish", "signal"}
    /\ f \in Word
    /\ received \in BOOLEAN
    /\ dropped \in BOOLEAN
    /\ rpc \in {"idle", "copyfirst", "copylast", "advance"}
    /\ frame \in Slot
    /\ returned \in Slot
    /\ event \in {"none", "RECEIVE", "RECEIVE_OVERRUN"}
    /\ powered \in BOOLEAN
    /\ ppc \in {"idle", "rewind", "apply"}

\* The index of the oldest frame.  Between the two stores of a rewind rx_tail
\* still has its old value, and the frames that count start at slot 0.
Oldest == IF ppc = "rewind" THEN 0 ELSE rx_tail

\* The published slots: from Oldest up to, but not including, rx_head.
Live(i) == IF Oldest <= rx_head THEN Oldest <= i /\ i < rx_head
                                ELSE Oldest <= i \/ i < rx_head

Whole(slot) == slot.first \in Frame /\ slot.last = slot.first

\* The inductive invariant.  A published slot holds one whole frame; the
\* writer only ever works outside the published slots, with room for one
\* more; and what the reader has copied so far is still what the slot holds.
Published == \A i \in Index : Live(i) => Whole(rx_ring[i])
WriterHasRoom == wpc \in {"storefirst", "storelast", "publish"} =>
                    /\ f \in Frame
                    /\ Succ(rx_head) # rx_tail
StoredSoFar == /\ wpc \in {"storelast", "publish"} => rx_ring[rx_head].first = f
               /\ wpc = "publish" => rx_ring[rx_head].last = f
ReaderHasFrame == rpc # "idle" => rx_tail # rx_head
CopiedSoFar == /\ rpc \in {"copylast", "advance"} =>
                     frame.first = rx_ring[rx_tail].first
               /\ rpc = "advance" => frame.last = rx_ring[rx_tail].last

\* MessageRead runs only while powered, a rewind only while not; what is
\* drained in a rewind stays below the old rx_tail.
ReaderPowered == rpc # "idle" => powered
RewindUnpowered == ppc # "idle" => ~powered
RewindBelowTail == ppc = "rewind" /\ rx_tail # 0 => rx_head < rx_tail

\* The handler returns only once it has signalled what it did.
IdleOwesNothing == wpc = "idle" => ~received /\ ~dropped

\* CAN_MessageRead never returns a frame whose words come from two receptions,
\* whatever the interrupt does while it copies.
NoTornRead == returned.first = returned.last

RingInv == /\ RingTypeOK
           /\ Published
           /\ WriterHasRoom
           /\ StoredSoFar
           /\ ReaderHasFrame
           /\ CopiedSoFar
           /\ ReaderPowered
           /\ RewindUnpowered
           /\ RewindBelowTail
           /\ IdleOwesNothing
           /\ NoTornRead

\* How many frames are published, and where the i-th oldest of them is.
Used == IF Oldest <= rx_head THEN rx_head - Oldest
                             ELSE rx_head + RingLen - Oldest
At(i) == IF Oldest + i <= RingLen THEN Oldest + i - 1
                                  ELSE Oldest + i - 1 - RingLen

\* The ring is a queue of RingLen - 1 frames: one slot stays unused so that
\* equal indices mean "empty".
Contents == [i \in 1 .. Used |-> rx_ring[At(i)].first]
Owed     == (IF received THEN {"RECEIVE"} ELSE {}) \cup
            (IF dropped THEN {"RECEIVE_OVERRUN"} ELSE {})

Queue == INSTANCE RxQueue WITH
           Capacity <- RingLen - 1,
           queue    <- Contents,
           owed     <- Owed,
           returned <- returned.first

\* The ring implements the abstract receive queue: order kept, nothing lost
\* but by a rejection when all RingLen - 1 places are taken or by a drain or a
\* rewind while the driver is not powered, nothing read twice, no failed read
\* of a powered driver that has a frame, and no event but for a reason.
ImplementsQueue == Queue!Spec
=============================================================================

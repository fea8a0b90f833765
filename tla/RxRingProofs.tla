---------------------------- MODULE RxRingProofs -----------------------------
(***************************************************************************)
(* Proofs about RxRing, for every set of frames and every ring length: the *)
(* inductive invariant, the absence of torn reads, and the refinement of   *)
(* the abstract queue.                                                     *)
(***************************************************************************)
EXTENDS RxRing, SequenceTheorems, TLAPS

\* The modulo of an index that moves by one is a wrap.
LEMMA SuccLinear ==
  ASSUME NEW i \in Index
  PROVE  /\ Succ(i) = IF i + 1 = RingLen THEN 0 ELSE i + 1
         /\ Succ(i) \in Index
<1>1. CASE i + 1 = RingLen
  BY <1>1, RingAssumption DEF Succ, Index
<1>2. CASE i + 1 # RingLen
  <2>1. i + 1 \in 0 .. RingLen - 1
    BY <1>2, RingAssumption DEF Index
  <2>2. (i + 1) % RingLen = i + 1
    BY <2>1, RingAssumption
  <2> QED BY <2>1, <2>2, <1>2 DEF Succ, Index
<1> QED BY <1>1, <1>2

\* The empty ring satisfies the invariant.
LEMMA InitInv == RingInit => RingInv
<1> SUFFICES ASSUME RingInit PROVE RingInv
  OBVIOUS
<1>1. Empty \in Slot
  BY DEF Empty, Slot, Word
<1>2. 0 \in Index
  BY RingAssumption DEF Index
<1>3. RingTypeOK
  BY <1>1, <1>2 DEF RingInit, RingTypeOK, Word
<1>4. Published
  BY <1>2 DEF RingInit, Published, Live, Oldest, Index
<1> QED
  BY <1>3, <1>4 DEF RingInit, RingInv, WriterHasRoom, StoredSoFar,
     ReaderHasFrame, CopiedSoFar, ReaderPowered, RewindUnpowered, RewindBelowTail,
     IdleOwesNothing, NoTornRead, Empty

\* Storing a word into the slot at rx_head disturbs no published slot, and
\* not the one the reader is copying.
LEMMA HeadNotLive ==
  ASSUME RingTypeOK
  PROVE  ~Live(rx_head)
BY RingAssumption DEF RingTypeOK, Live, Oldest, Index

\* If the ring is not empty the slot at rx_tail is published, but in a rewind.
LEMMA TailLive ==
  ASSUME RingTypeOK, rx_tail # rx_head
  PROVE  ppc # "rewind" => Live(rx_tail)
BY RingAssumption DEF RingTypeOK, Live, Oldest, Index

\* Every step of either side, and of the thread, keeps the invariant.
LEMMA StepInv == RingInv /\ [RingNext]_ringVars => RingInv'
<1> SUFFICES ASSUME RingInv, [RingNext]_ringVars PROVE RingInv'
  OBVIOUS
<1> USE RingAssumption DEF RingInv
<1>1. CASE DrainStart
  BY <1>1 DEF DrainStart, readerVars, powerVars, RingTypeOK, Published, Live,
     Oldest, Whole, WriterHasRoom, StoredSoFar, ReaderHasFrame, CopiedSoFar,
     ReaderPowered, RewindUnpowered, RewindBelowTail, IdleOwesNothing, NoTornRead
<1>2. ASSUME NEW x \in Frame, Push(x) PROVE RingInv'
  BY <1>2 DEF Push, RoomFor, Word, readerVars, powerVars, RingTypeOK, Published,
     Live, Oldest, Whole, WriterHasRoom, StoredSoFar, ReaderHasFrame, CopiedSoFar,
     ReaderPowered, RewindUnpowered, RewindBelowTail, IdleOwesNothing, NoTornRead
<1>3. CASE StoreFirst
  <2>1. RingTypeOK'
    BY <1>3 DEF StoreFirst, readerVars, powerVars, RingTypeOK, Slot
  <2>2. \A i \in Index : i # rx_head => rx_ring'[i] = rx_ring[i]
    BY <1>3 DEF StoreFirst, RingTypeOK
  <2>3. Published'
    BY <1>3, <2>2, HeadNotLive DEF StoreFirst, powerVars, Published, Live, Oldest
  <2>4. rx_ring'[rx_head].first = f
    BY <1>3 DEF StoreFirst, RingTypeOK, Slot
  <2>5. CopiedSoFar'
    BY <1>3, <2>2 DEF StoreFirst, readerVars, CopiedSoFar, ReaderHasFrame,
       RingTypeOK
  <2> QED
    BY <1>3, <2>1, <2>3, <2>4, <2>5 DEF StoreFirst, readerVars, powerVars,
       WriterHasRoom, StoredSoFar, ReaderHasFrame, ReaderPowered,
       RewindUnpowered, RewindBelowTail, IdleOwesNothing, NoTornRead
<1>4. CASE StoreLast
  <2>1. RingTypeOK'
    BY <1>4 DEF StoreLast, readerVars, powerVars, RingTypeOK, Slot
  <2>2. \A i \in Index : i # rx_head => rx_ring'[i] = rx_ring[i]
    BY <1>4 DEF StoreLast, RingTypeOK
  <2>3. Published'
    BY <1>4, <2>2, HeadNotLive DEF StoreLast, powerVars, Published, Live, Oldest
  <2>4. rx_ring'[rx_head].last = f /\ rx_ring'[rx_head].first = f
    BY <1>4 DEF StoreLast, RingTypeOK, Slot, StoredSoFar
  <2>5. CopiedSoFar'
    BY <1>4, <2>2 DEF StoreLast, readerVars, CopiedSoFar, ReaderHasFrame,
       RingTypeOK
  <2> QED
    BY <1>4, <2>1, <2>3, <2>4, <2>5 DEF StoreLast, readerVars, powerVars,
       WriterHasRoom, StoredSoFar, ReaderHasFrame, ReaderPowered,
       RewindUnpowered, RewindBelowTail, IdleOwesNothing, NoTornRead
<1>5. CASE Publish
  <2>1. rx_head' \in Index /\ rx_head' = IF rx_head + 1 = RingLen THEN 0
                                         ELSE rx_head + 1
    BY <1>5, SuccLinear DEF Publish, RingTypeOK
  <2>2. rx_head' # rx_tail
    BY <1>5 DEF Publish, WriterHasRoom
  <2>3. \A i \in Index : Live(i)' => Live(i) \/ i = rx_head
    BY <1>5, <2>1, <2>2 DEF Publish, powerVars, RingTypeOK, RewindBelowTail,
       Live, Oldest, Index
  <2>4. Whole(rx_ring[rx_head])
    BY <1>5 DEF Publish, Whole, StoredSoFar, WriterHasRoom
  <2>5. Published'
    BY <1>5, <2>3, <2>4 DEF Publish, Published
  <2>6. RewindBelowTail'
    BY <1>5, <2>1, <2>2 DEF Publish, powerVars, RewindBelowTail, RingTypeOK, Index
  <2> QED
    BY <1>5, <2>1, <2>2, <2>5, <2>6 DEF Publish, readerVars, powerVars,
       RingTypeOK, WriterHasRoom, StoredSoFar, ReaderHasFrame, CopiedSoFar,
       ReaderPowered, RewindUnpowered, IdleOwesNothing, NoTornRead
<1>6. CASE DrainEnd \/ SignalReceive \/ SignalOverrun \/ EventReturn
  <2>1. RingTypeOK'
    BY <1>6 DEF DrainEnd, SignalReceive, SignalOverrun, EventReturn,
       readerVars, powerVars, RingTypeOK
  <2>2. IdleOwesNothing'
    BY <1>6 DEF DrainEnd, SignalReceive, SignalOverrun, EventReturn,
       IdleOwesNothing
  <2>3. Published'
    BY <1>6 DEF DrainEnd, SignalReceive, SignalOverrun, EventReturn, powerVars,
       Published, Live, Oldest
  <2> QED
    BY <1>6, <2>1, <2>2, <2>3 DEF DrainEnd, SignalReceive, SignalOverrun,
       EventReturn, readerVars, powerVars, WriterHasRoom, StoredSoFar,
       ReaderHasFrame, CopiedSoFar, ReaderPowered, RewindUnpowered,
       RewindBelowTail, NoTornRead
<1>7. CASE ReadRefused \/ ReadEmpty \/ ReadStart
  BY <1>7 DEF ReadRefused, ReadEmpty, ReadStart, writerVars, powerVars,
     RingTypeOK, Published, Live, Oldest, WriterHasRoom, StoredSoFar,
     ReaderHasFrame, CopiedSoFar, ReaderPowered, RewindUnpowered,
     RewindBelowTail, IdleOwesNothing, NoTornRead, Empty, Slot, Word
<1>8. CASE CopyFirst \/ CopyLast
  BY <1>8 DEF CopyFirst, CopyLast, writerVars, powerVars, RingTypeOK, Published,
     Live, Oldest, WriterHasRoom, StoredSoFar, ReaderHasFrame, CopiedSoFar,
     ReaderPowered, RewindUnpowered, RewindBelowTail, IdleOwesNothing,
     NoTornRead, Slot
<1>9. CASE Advance
  <2>0. ppc = "idle"
    BY <1>9 DEF Advance, ReaderPowered, RewindUnpowered
  <2>1. rx_tail' \in Index /\ rx_tail' = IF rx_tail + 1 = RingLen THEN 0
                                         ELSE rx_tail + 1
    BY <1>9, SuccLinear DEF Advance, RingTypeOK
  <2>2. rx_tail # rx_head
    BY <1>9 DEF Advance, ReaderHasFrame
  <2>3. \A i \in Index : Live(i)' => Live(i)
    BY <1>9, <2>0, <2>1, <2>2 DEF Advance, powerVars, RingTypeOK, Live, Oldest,
       Index
  <2>4. Published'
    BY <1>9, <2>3 DEF Advance, Published
  <2>5. WriterHasRoom'
    <3> SUFFICES ASSUME wpc \in {"storefirst", "storelast", "publish"}
                 PROVE  Succ(rx_head) # rx_tail'
      BY <1>9 DEF Advance, writerVars, WriterHasRoom
    <3> QED
      BY <2>1, <2>2, SuccLinear DEF RingTypeOK, Index
  <2>6. NoTornRead'
    BY <1>9, <2>0, <2>2, TailLive DEF Advance, NoTornRead, CopiedSoFar,
       Published, Whole, RingTypeOK
  <2> QED
    BY <1>9, <2>0, <2>1, <2>4, <2>5, <2>6 DEF Advance, writerVars, powerVars,
       RingTypeOK, StoredSoFar, ReaderHasFrame, CopiedSoFar, ReaderPowered,
       RewindUnpowered, RewindBelowTail, IdleOwesNothing
<1>10. CASE Power
  <2>1. wpc = "idle" /\ rpc = "idle" /\ UNCHANGED <<rx_ring, writerVars, readerVars>>
    BY <1>10 DEF Power, RewindHead, RewindTail, ApplyFails, PowerUp, PowerDown,
       Thread
  <2>2. RingTypeOK' /\ RewindUnpowered' /\ RewindBelowTail'
    <3>a. rx_head' \in Index /\ rx_tail' \in Index
      BY <1>10 DEF Power, RewindHead, RewindTail, ApplyFails, PowerUp, PowerDown,
         RingTypeOK, Index
    <3>b. powered' \in BOOLEAN /\ ppc' \in {"idle", "rewind", "apply"}
      BY <1>10, Zenon DEF Power, RewindHead, RewindTail, ApplyFails, PowerUp,
         PowerDown, RingTypeOK
    <3>1. RingTypeOK'
      BY <2>1, <3>a, <3>b DEF writerVars, readerVars, RingTypeOK
    <3>2. RewindUnpowered'
      BY <1>10 DEF Power, RewindHead, RewindTail, ApplyFails, PowerUp,
         PowerDown, RewindUnpowered
    <3>3. RewindBelowTail'
      BY <1>10 DEF Power, RewindHead, RewindTail, ApplyFails, PowerUp,
         PowerDown, RewindBelowTail, RewindUnpowered, RingTypeOK, Index
    <3> QED
      BY <3>1, <3>2, <3>3
  <2>3. \A i \in Index : Live(i)' => Live(i)
    BY <1>10 DEF Power, RewindHead, RewindTail, ApplyFails, PowerUp, PowerDown,
       RingTypeOK, RewindUnpowered, Live, Oldest, Index
  <2>4. Published'
    BY <2>1, <2>3 DEF Published
  <2> QED
    BY <2>1, <2>2, <2>4 DEF writerVars, readerVars, WriterHasRoom, StoredSoFar,
       ReaderHasFrame, CopiedSoFar, ReaderPowered, IdleOwesNothing, NoTornRead
<1>11. CASE UNCHANGED ringVars
  BY <1>11 DEF ringVars, RingTypeOK, Published, Live, Oldest, WriterHasRoom,
     StoredSoFar, ReaderHasFrame, CopiedSoFar, ReaderPowered, RewindUnpowered,
     RewindBelowTail, IdleOwesNothing, NoTornRead
<1> QED
  BY <1>1, <1>2, <1>3, <1>4, <1>5, <1>6, <1>7, <1>8, <1>9, <1>10, <1>11
     DEF RingNext, Store, Signal, Reader

\* For every set of frames and every ring length, the ring keeps its
\* inductive invariant: published slots hold whole frames, the writer of
\* can_hal_event stays outside them, and CAN_MessageRead copies a slot that
\* nobody changes.
THEOREM RingInvariant == RingSpec => []RingInv
<1> QED BY InitInv, StepInv, PTL DEF RingSpec

\* CAN_MessageRead never returns the words of two different receptions.
THEOREM NeverTorn == RingSpec => []NoTornRead
<1>1. RingInv => NoTornRead
  BY DEF RingInv
<1> QED BY <1>1, RingInvariant, PTL

----------------------------------------------------------------------------
(* Refinement of the abstract queue.                                       *)

\* The contents are a sequence of the frames in the published slots.
LEMMA ContentsFacts ==
  ASSUME RingInv
  PROVE  /\ Used \in 0 .. RingLen - 1
         /\ Contents \in Seq(Frame)
         /\ Len(Contents) = Used
         /\ \A i \in 1 .. Used : /\ At(i) \in Index
                                /\ Live(At(i))
                                /\ Contents[i] = rx_ring[At(i)].first
<1> USE RingAssumption
<1>1. Used \in 0 .. RingLen - 1
  BY DEF RingInv, RingTypeOK, Used, Oldest, Index
<1>2. \A i \in 1 .. Used : At(i) \in Index /\ Live(At(i))
  BY DEF RingInv, RingTypeOK, Used, At, Live, Oldest, Index
<1>3. \A i \in 1 .. Used : rx_ring[At(i)].first \in Frame
  BY <1>2 DEF RingInv, Published, Whole
<1>4. Contents \in [1 .. Used -> Frame]
  BY <1>3 DEF Contents
<1>5. Contents \in Seq(Frame) /\ Len(Contents) = Used
  BY <1>1, <1>4
<1> QED
  BY <1>1, <1>2, <1>5 DEF Contents

\* A step that moves neither index and no published slot keeps the contents.
LEMMA ContentsKept ==
  ASSUME RingInv, UNCHANGED <<rx_head, Oldest>>,
         \A i \in Index : Live(i) => rx_ring'[i].first = rx_ring[i].first
  PROVE  Contents' = Contents
<1>1. Used' = Used /\ \A i \in 1 .. Used : At(i)' = At(i)
  BY DEF Used, At
<1>2. \A i \in 1 .. Used : rx_ring'[At(i)].first = rx_ring[At(i)].first
  BY ContentsFacts
<1> QED
  BY <1>1, <1>2 DEF Contents

\* Moving rx_head appends the stored frame to the contents.
LEMMA PublishAppends ==
  ASSUME RingInv, Publish
  PROVE  Contents' = Append(Contents, f) /\ Used < RingLen - 1
<1> USE RingAssumption
<1>1. rx_head' = IF rx_head + 1 = RingLen THEN 0 ELSE rx_head + 1
  BY SuccLinear DEF Publish, RingInv, RingTypeOK
<1>2. rx_head' # rx_tail /\ UNCHANGED <<rx_ring, rx_tail, Oldest>>
  BY DEF Publish, powerVars, Oldest, RingInv, WriterHasRoom
<1>3. Used' = Used + 1 /\ Used \in 0 .. RingLen - 2
  BY <1>1, <1>2 DEF RingInv, RingTypeOK, RewindBelowTail, Used, Oldest, Index
<1>4. \A i \in 1 .. Used : At(i)' = At(i)
  BY <1>2 DEF At
<1>5. \A i \in Nat : i = Used + 1 => At(i)' = rx_head
  BY <1>1, <1>2 DEF RingInv, RingTypeOK, RewindBelowTail, Used, At, Oldest, Index
<1>6. rx_ring[rx_head].first = f /\ f \in Frame
  BY DEF Publish, RingInv, StoredSoFar, WriterHasRoom
<1>7. /\ Append(Contents, f) \in Seq(Frame)
      /\ Len(Append(Contents, f)) = Used + 1
      /\ \A i \in 1 .. Used : Append(Contents, f)[i] = rx_ring[At(i)].first
      /\ Append(Contents, f)[Used + 1] = f
  BY <1>6, ContentsFacts, AppendProperties
<1>8. ASSUME NEW i \in 1 .. Used + 1
      PROVE  rx_ring'[At(i)'].first = Append(Contents, f)[i]
  <2>1. CASE i = Used + 1
    <3>1. At(i)' = rx_head
      BY <2>1, <1>3, <1>5
    <3> QED
      BY <1>2, <1>6, <1>7, <2>1, <3>1
  <2>2. CASE i # Used + 1
    <3>1. i \in 1 .. Used
      BY <2>2, <1>3
    <3> QED
      BY <1>2, <1>4, <1>7, <3>1
  <2> QED
    BY <2>1, <2>2
<1>9. Contents' = [i \in 1 .. Used + 1 |-> Append(Contents, f)[i]]
  BY <1>3, <1>8 DEF Contents
<1>10. Append(Contents, f) = [i \in 1 .. Used + 1 |-> Append(Contents, f)[i]]
  BY <1>7, LenProperties
<1> QED
  BY <1>3, <1>9, <1>10

\* Moving rx_tail takes the first frame, the one returned, off the contents.
LEMMA AdvanceRemoves ==
  ASSUME RingInv, Advance
  PROVE  /\ Contents # <<>>
         /\ Contents' = Tail(Contents)
         /\ returned'.first = Head(Contents)
<1> USE RingAssumption
<1>1. rx_tail' = IF rx_tail + 1 = RingLen THEN 0 ELSE rx_tail + 1
  BY SuccLinear DEF Advance, RingInv, RingTypeOK
<1>2. rx_head # rx_tail /\ UNCHANGED <<rx_ring, rx_head>>
  BY DEF Advance, RingInv, ReaderHasFrame
<1>o. Oldest = rx_tail /\ Oldest' = rx_tail'
  BY DEF Advance, powerVars, Oldest, RingInv, ReaderPowered, RewindUnpowered
<1>3. Used' = Used - 1 /\ Used \in 1 .. RingLen - 1
  BY <1>1, <1>2, <1>o DEF RingInv, RingTypeOK, Used, Index
<1>4. \A i \in 1 .. Used - 1 : At(i)' = At(i + 1)
  BY <1>1, <1>2, <1>o DEF RingInv, RingTypeOK, Used, At, Index
<1>5. At(1) = rx_tail
  BY <1>o DEF At, RingInv, RingTypeOK, Index
<1>6. Contents # <<>>
  BY <1>3, ContentsFacts
<1>7. /\ Head(Contents) = Contents[1]
      /\ Tail(Contents) \in Seq(Frame)
      /\ Len(Tail(Contents)) = Used - 1
      /\ \A i \in 1 .. Used - 1 : Tail(Contents)[i] = Contents[i + 1]
  BY <1>3, <1>6, ContentsFacts, HeadTailProperties
<1>8. \A i \in 1 .. Used - 1 : Contents[i + 1] = rx_ring[At(i + 1)].first
  BY <1>3, ContentsFacts
<1>9. \A i \in 1 .. Used - 1 : rx_ring'[At(i)'].first = Tail(Contents)[i]
  BY <1>2, <1>4, <1>7, <1>8
<1>10. Contents' = [i \in 1 .. Used - 1 |-> Tail(Contents)[i]]
  BY <1>3, <1>9 DEF Contents
<1>11. Tail(Contents) = [i \in 1 .. Used - 1 |-> Tail(Contents)[i]]
  BY <1>7, LenProperties
<1>12. returned'.first = rx_ring[rx_tail].first
  BY DEF Advance, RingInv, CopiedSoFar
<1> QED
  BY <1>3, <1>5, <1>6, <1>7, <1>10, <1>11, <1>12, ContentsFacts

\* The ring, with its indices, its split copies and its two unsynchronised
\* sides, implements the bounded queue of RxQueue.
THEOREM RingImplementsQueue == RingSpec => ImplementsQueue
<1>1. RingInit => Queue!Init
  <2> SUFFICES ASSUME RingInit PROVE Queue!Init
    OBVIOUS
  <2>1. Used = 0
    BY DEF RingInit, Used, Oldest
  <2>2. Contents = <<>>
    BY <2>1 DEF Contents
  <2> QED
    BY <2>2 DEF RingInit, Queue!Init, Owed, Empty
<1>2. RingInv /\ RingInv' /\ [RingNext]_ringVars => [Queue!Next]_Queue!vars
  <2> SUFFICES ASSUME RingInv, RingInv', [RingNext]_ringVars
               PROVE  [Queue!Next]_Queue!vars
    OBVIOUS
  <2> USE RingAssumption
  <2> DEFINE Stutter == Contents' = Contents /\ Owed' = Owed
                        /\ event' = event /\ returned' = returned
                        /\ powered' = powered
  <2>s. Stutter => UNCHANGED Queue!vars
    BY DEF Queue!vars
  <2>1. CASE \/ DrainEnd \/ EventReturn \/ ReadStart
             \/ CopyFirst \/ CopyLast \/ UNCHANGED ringVars
    <3>1. Contents' = Contents
      BY <2>1, ContentsKept DEF DrainEnd, EventReturn, ReadStart, CopyFirst,
         CopyLast, Oldest, ringVars, readerVars, writerVars, powerVars
    <3> QED
      BY <2>1, <2>s, <3>1 DEF DrainEnd, EventReturn, ReadStart, CopyFirst,
         CopyLast, ringVars, readerVars, writerVars, powerVars, Owed
  <2>2. CASE DrainStart
    <3>1. Contents' = Contents
      BY <2>2, ContentsKept DEF DrainStart, powerVars, Oldest
    <3> QED
      BY <2>2, <2>s, <3>1 DEF DrainStart, readerVars, powerVars, Owed, RingInv,
         IdleOwesNothing
  <2>3. ASSUME NEW x \in Frame, Push(x) PROVE [Queue!Next]_Queue!vars
    <3>1. Contents' = Contents
      BY <2>3, ContentsKept DEF Push, powerVars, Oldest
    <3>2. CASE RoomFor(Succ(rx_head))
      BY <2>3, <2>s, <3>1, <3>2 DEF Push, readerVars, powerVars, Owed
    <3>3. CASE ~RoomFor(Succ(rx_head))
      <4>0. rx_tail = IF rx_head + 1 = RingLen THEN 0 ELSE rx_head + 1
        BY <3>3, SuccLinear DEF RoomFor, RingInv, RingTypeOK
      <4>1. ppc = "rewind" \/ Used = RingLen - 1
        BY <4>0 DEF RingInv, RingTypeOK, Used, Oldest, Index
      <4>2. Len(Contents) = RingLen - 1 \/ ~powered
        BY <4>1, ContentsFacts DEF RingInv, RewindUnpowered
      <4>3. Owed' = Owed \cup {"RECEIVE_OVERRUN"}
        BY <2>3, <3>3 DEF Push, Owed
      <4> QED
        BY <2>3, <3>1, <4>2, <4>3 DEF Push, readerVars, powerVars, Queue!Reject, Queue!Next
    <3> QED
      BY <3>2, <3>3
  <2>4. CASE StoreFirst \/ StoreLast
    <3>1. \A i \in Index : Live(i) => rx_ring'[i].first = rx_ring[i].first
      BY <2>4, HeadNotLive DEF StoreFirst, StoreLast, RingInv, RingTypeOK
    <3>2. Contents' = Contents
      BY <2>4, <3>1, ContentsKept DEF StoreFirst, StoreLast, powerVars, Oldest
    <3> QED
      BY <2>4, <2>s, <3>2 DEF StoreFirst, StoreLast, readerVars, powerVars, Owed
  <2>5. CASE Publish
    <3>1. f \in Frame
      BY <2>5 DEF Publish, RingInv, WriterHasRoom
    <3>2. Len(Contents) < RingLen - 1 /\ Contents' = Append(Contents, f)
      BY <2>5, PublishAppends, ContentsFacts
    <3>3. Owed' = Owed \cup {"RECEIVE"}
      BY <2>5 DEF Publish, Owed
    <3> QED
      BY <2>5, <3>1, <3>2, <3>3 DEF Publish, readerVars, powerVars, Queue!Accept,
         Queue!Next
  <2>6. CASE SignalReceive
    <3>1. Contents' = Contents
      BY <2>6, ContentsKept DEF SignalReceive, powerVars, Oldest
    <3>2. "RECEIVE" \in Owed /\ Owed' = Owed \ {"RECEIVE"}
      BY <2>6 DEF SignalReceive, Owed
    <3> QED
      BY <2>6, <3>1, <3>2 DEF SignalReceive, readerVars, powerVars, Queue!Signal,
         Queue!Event, Queue!Next
  <2>7. CASE SignalOverrun
    <3>1. Contents' = Contents
      BY <2>7, ContentsKept DEF SignalOverrun, powerVars, Oldest
    <3>2. "RECEIVE_OVERRUN" \in Owed /\ Owed' = Owed \ {"RECEIVE_OVERRUN"}
      BY <2>7 DEF SignalOverrun, Owed
    <3> QED
      BY <2>7, <3>1, <3>2 DEF SignalOverrun, readerVars, powerVars, Queue!Signal,
         Queue!Event, Queue!Next
  <2>8. CASE ReadEmpty
    <3>1. Contents' = Contents
      BY <2>8, ContentsKept DEF ReadEmpty, powerVars, Oldest
    <3>2. Used = 0
      BY <2>8 DEF ReadEmpty, Used, Oldest, RingInv, RewindUnpowered, RingTypeOK,
         Index
    <3>3. Contents = <<>>
      BY <3>2, ContentsFacts, EmptySeq
    <3> QED
      BY <2>8, <3>1, <3>3 DEF ReadEmpty, writerVars, powerVars, Empty, Owed,
         Queue!ReadNothing, Queue!Next
  <2>9. CASE ReadRefused
    <3>1. Contents' = Contents
      BY <2>9, ContentsKept DEF ReadRefused, powerVars, Oldest
    <3> QED
      BY <2>9, <3>1 DEF ReadRefused, writerVars, powerVars, Empty, Owed,
         Queue!ReadNothing, Queue!Next
  <2>10. CASE Advance
    <3>1. powered
      BY <2>10 DEF Advance, RingInv, ReaderPowered
    <3> QED
      BY <2>10, <3>1, AdvanceRemoves DEF Advance, writerVars, powerVars, Owed,
         Queue!Read, Queue!Next
  <2>11. CASE RewindHead
    <3>1. Used' = 0
      BY <2>11 DEF RewindHead, Used, Oldest
    <3>2. Contents' = <<>>
      BY <3>1 DEF Contents
    <3> QED
      BY <2>11, <3>2 DEF RewindHead, writerVars, readerVars, Owed, Queue!Clear,
         Queue!Next
  <2>12. CASE RewindTail
    <3>1. Contents' = Contents
      BY <2>12, ContentsKept DEF RewindTail, Oldest
    <3> QED
      BY <2>12, <2>s, <3>1 DEF RewindTail, writerVars, readerVars, Owed
  <2>13. CASE ApplyFails
    <3>1. Contents' = Contents
      BY <2>13, ContentsKept DEF ApplyFails, Oldest
    <3> QED
      BY <2>13, <2>s, <3>1 DEF ApplyFails, writerVars, readerVars, Owed
  <2>14. CASE PowerUp
    <3>1. Contents' = Contents
      BY <2>14, ContentsKept DEF PowerUp, Oldest
    <3>2. ~powered
      BY <2>14 DEF PowerUp, RingInv, RewindUnpowered
    <3> QED
      BY <2>14, <3>1, <3>2 DEF PowerUp, writerVars, readerVars, Owed,
         Queue!Power, Queue!Next
  <2>15. CASE PowerDown
    <3>1. Contents' = Contents
      BY <2>15, ContentsKept DEF PowerDown, Oldest
    <3> QED
      BY <2>15, <3>1 DEF PowerDown, writerVars, readerVars, Owed, Queue!Power,
         Queue!Next
  <2> QED
    BY <2>1, <2>2, <2>3, <2>4, <2>5, <2>6, <2>7, <2>8, <2>9, <2>10, <2>11,
       <2>12, <2>13, <2>14, <2>15 DEF RingNext, Store, Signal, Reader, Power
<1> QED
  BY <1>1, <1>2, RingInvariant, PTL DEF RingSpec, ImplementsQueue, Queue!Spec
=============================================================================

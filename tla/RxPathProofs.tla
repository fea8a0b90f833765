---------------------------- MODULE RxPathProofs -----------------------------
(***************************************************************************)
(* Proofs about RxPath, for every ring length, FIFO depth and number of    *)
(* frames: the path takes only the ring's steps, so it implements the      *)
(* queue; no loss is forgotten; the handler never waits for a frame; every *)
(* frame is in one place, in the order of arrival, or lost; the whole path *)
(* implements the delivery of RxDelivery; the handler comes to its end.    *)
(***************************************************************************)
EXTENDS RxPath, RxRingProofs

\* The part of the type invariant a step of the ring depends on, and the ring not
\* in the middle of a rewind.
FifoTypeOK == /\ fifo \in Seq(Frame)
              /\ arrived \in Nat
              /\ ppc # "rewind"

\* The FIFO only ever holds frames.
LEMMA StepFifo ==
  ASSUME FifoTypeOK, [PathNext]_pathVars
  PROVE  FifoTypeOK'
<1> USE DEF FifoTypeOK
<1>1. CASE Arrive
  <2>1. arrived' \in Nat /\ arrived' \in Frame
    BY <1>1, PathAssumption DEF Arrive
  <2> QED
    BY <1>1, <2>1, AppendProperties DEF Arrive, ringVars
<1>2. CASE Receive
  <2>1. Tail(fifo) \in Seq(Frame)
    BY <1>2, HeadTailProperties DEF Receive
  <2> QED
    BY <1>2, <2>1 DEF Receive, Push, powerVars
<1>3. CASE LatchRx \/ LatchGeneral \/ BusOff
  BY <1>3 DEF LatchRx, LatchGeneral, BusOff, ringVars, histVars
<1>a. CASE App \/ PowerFullReturns
  BY <1>a DEF App, AppNoMessage, AppCopy, AppRead, PowerFullReturns, PowerUp,
     ReadRefused, ReadEmpty, ReadStart, CopyFirst, CopyLast, Advance, powerVars,
     hwVars, histVars
<1>4. CASE Enter \/ ReadInt \/ AckOverflow \/ ReadTrec \/ CallbackNoRx
           \/ RxAvailable \/ TellReceiveReturn \/ TellHwOverrun \/ TellBusOff
           \/ Exit
  BY <1>4 DEF Enter, ReadInt, AckOverflow, ReadTrec, CallbackNoRx, RxAvailable,
     TellReceiveReturn, TellHwOverrun, TellBusOff, Exit, ringVars, hwVars, histVars
<1>b. CASE CallbackDrain \/ StoreFrame \/ NoneAvailable \/ TellReceive
           \/ TellOverrun \/ DrainReturn
  BY <1>b DEF CallbackDrain, StoreFrame, NoneAvailable, TellReceive, TellOverrun,
     DrainReturn, DrainStart, Store, StoreFirst, StoreLast, Publish, DrainEnd,
     SignalReceive, SignalOverrun, EventReturn, powerVars, hwVars, histVars
<1>5. CASE UNCHANGED pathVars
  BY <1>5 DEF pathVars, ringVars, hwVars, histVars
<1> QED
  BY <1>1, <1>2, <1>3, <1>a, <1>4, <1>b, <1>5 DEF PathNext, Handler

\* Every step of the path is a step of the ring or leaves it alone.
LEMMA StepRing ==
  ASSUME FifoTypeOK, [PathNext]_pathVars
  PROVE  [RingNext]_ringVars
<1>1. CASE Receive
  <2>1. Head(fifo) \in Frame
    BY <1>1, HeadTailProperties DEF Receive, FifoTypeOK
  <2> QED
    BY <1>1, <2>1 DEF Receive, RingNext
<1>2. CASE CallbackDrain \/ StoreFrame \/ NoneAvailable \/ TellReceive
           \/ TellOverrun \/ DrainReturn
  BY <1>2 DEF CallbackDrain, StoreFrame, NoneAvailable, TellReceive,
     TellOverrun,
     DrainReturn, RingNext, Signal
<1>3. CASE Enter \/ ReadInt \/ AckOverflow \/ ReadTrec \/ CallbackNoRx
           \/ RxAvailable \/ TellReceiveReturn \/ TellHwOverrun \/ TellBusOff
           \/ Exit
  BY <1>3 DEF Enter, ReadInt, AckOverflow, ReadTrec, CallbackNoRx, RxAvailable,
     TellReceiveReturn, TellHwOverrun, TellBusOff, Exit
<1>4. CASE App \/ PowerFullReturns
  BY <1>4 DEF App, AppNoMessage, AppCopy, AppRead, PowerFullReturns, RingNext,
     Reader, Power
<1>5. CASE Arrive \/ LatchRx \/ LatchGeneral \/ BusOff
  BY <1>5 DEF Arrive, LatchRx, LatchGeneral, BusOff
<1>6. CASE UNCHANGED pathVars
  BY <1>6 DEF pathVars
<1> QED
  BY <1>1, <1>2, <1>3, <1>4, <1>5, <1>6 DEF PathNext, Handler

\* The handler, its callback and the application use the ring only by the
\* ring's own steps.
THEOREM PathUsesRing == PathSpec => RingSpec
<1>1. PathInit => RingInit /\ FifoTypeOK
  BY DEF PathInit, FifoTypeOK
<1>2. FifoTypeOK /\ [PathNext]_pathVars => FifoTypeOK' /\ [RingNext]_ringVars
  BY StepFifo, StepRing
<1> QED
  BY <1>1, <1>2, PTL DEF PathSpec, RingSpec

\* So the whole receive path, interrupt handler included, implements the
\* bounded queue.
THEOREM PathImplementsQueue == PathSpec => ImplementsQueue
<1> QED
  BY PathUsesRing, RingImplementsQueue, PTL

----------------------------------------------------------------------------
(* No loss is silent, no receive waits.                                    *)

LossInv == /\ LossRemembered
           /\ ipc \in {"idle", "int"} => events = {}

\* Every step keeps an unreported loss in a flag or an event.
LEMMA StepLoss ==
  ASSUME RingInv, LossInv, [PathNext]_pathVars
  PROVE  LossInv'
<1> USE DEF LossInv, LossRemembered
<1>1. CASE Arrive
  BY <1>1 DEF Arrive, ringVars, isrVars
<1>2. CASE LatchRx \/ LatchGeneral \/ BusOff
  BY <1>2 DEF LatchRx, LatchGeneral, BusOff, ringVars, isrVars, histVars
<1>3. CASE Enter \/ ReadInt \/ ReadTrec \/ CallbackNoRx \/ RxAvailable
           \/ TellReceiveReturn \/ TellBusOff \/ Exit
  BY <1>3 DEF Enter, ReadInt, ReadTrec, CallbackNoRx, RxAvailable,
     TellReceiveReturn, TellBusOff, Exit, ringVars, hwVars, histVars
<1>4. CASE AckOverflow
  BY <1>4 DEF AckOverflow, ringVars, histVars
<1>5. CASE CallbackDrain
  <2>1. ~dropped
    BY <1>5 DEF CallbackDrain, DrainStart, RingInv, IdleOwesNothing
  <2> QED
    BY <1>5, <2>1 DEF CallbackDrain, hwVars, histVars
<1>6. CASE Receive
  BY <1>6 DEF Receive, Push
<1>7. CASE StoreFrame \/ NoneAvailable \/ TellReceive \/ DrainReturn
  BY <1>7 DEF StoreFrame, NoneAvailable, TellReceive, DrainReturn, Store,
     StoreFirst, StoreLast, Publish, DrainEnd, SignalReceive, EventReturn,
     hwVars, isrVars, histVars
<1>8. CASE TellOverrun \/ TellHwOverrun
  BY <1>8 DEF TellOverrun, TellHwOverrun, ringVars, hwVars, isrVars
<1>9. CASE App
  BY <1>9 DEF App, AppNoMessage, AppCopy, AppRead, ReadRefused, ReadEmpty,
     ReadStart, CopyFirst, CopyLast, Advance, writerVars, hwVars, isrVars, histVars
<1>11. CASE PowerFullReturns
  BY <1>11 DEF PowerFullReturns, PowerUp, writerVars, hwVars, isrVars
<1>10. CASE UNCHANGED pathVars
  BY <1>10 DEF pathVars, ringVars, hwVars, isrVars, histVars
<1> QED
  BY <1>1, <1>2, <1>3, <1>4, <1>5, <1>6, <1>7, <1>8, <1>9, <1>10, <1>11
     DEF PathNext, Handler

\* A frame lost in the FIFO or in the ring is remembered by a flag or an event
\* of the handler until RECEIVE_OVERRUN has been signalled after it.
THEOREM LossAlwaysRemembered == PathSpec => []LossRemembered
<1>1. PathInit => LossInv
  BY DEF PathInit, LossInv, LossRemembered
<1>2. RingInv /\ LossInv /\ [PathNext]_pathVars => LossInv'
  BY StepLoss
<1>3. LossInv => LossRemembered
  BY DEF LossInv
<1> QED
  BY <1>1, <1>2, <1>3, PathUsesRing, RingInvariant, PTL DEF PathSpec

\* No step takes the frame away that the handler is about to receive.
LEMMA StepReceive ==
  ASSUME FifoTypeOK, ReceiveNeverWaits, [PathNext]_pathVars
  PROVE  ReceiveNeverWaits'
<1> USE DEF ReceiveNeverWaits
<1>1. CASE Arrive
  <2>1. fifo' = fifo \/ fifo' = Append(fifo, arrived')
    BY <1>1 DEF Arrive
  <2>2. arrived' \in Frame
    BY <1>1, PathAssumption DEF Arrive, FifoTypeOK
  <2>3. Append(fifo, arrived') # <<>>
    BY <2>2, AppendProperties DEF FifoTypeOK
  <2> QED
    BY <1>1, <2>1, <2>3 DEF Arrive, isrVars
<1>2. CASE LatchRx \/ LatchGeneral \/ BusOff \/ App \/ PowerFullReturns
  BY <1>2 DEF LatchRx, LatchGeneral, BusOff, App, AppNoMessage, AppCopy,
     AppRead, PowerFullReturns, hwVars, isrVars
<1>3. CASE Handler
  BY <1>3 DEF Handler, Enter, ReadInt, AckOverflow, ReadTrec, CallbackDrain,
     CallbackNoRx, RxAvailable, Receive, StoreFrame, NoneAvailable,
     TellReceive, TellReceiveReturn, TellOverrun, DrainReturn, TellHwOverrun,
     TellBusOff, Exit, hwVars, isrVars
<1>4. CASE UNCHANGED pathVars
  BY <1>4 DEF pathVars, hwVars, isrVars
<1> QED
  BY <1>1, <1>2, <1>3, <1>4 DEF PathNext

\* nora_canfd_receive never waits in the interrupt for a frame.
THEOREM ReceiveNeverWaitsEver == PathSpec => []ReceiveNeverWaits
<1>1. PathInit => FifoTypeOK /\ ReceiveNeverWaits
  BY DEF PathInit, FifoTypeOK, ReceiveNeverWaits
<1>2. FifoTypeOK /\ ReceiveNeverWaits /\ [PathNext]_pathVars => ReceiveNeverWaits'
  BY StepReceive
<1>3. FifoTypeOK /\ [PathNext]_pathVars => FifoTypeOK'
  BY StepFifo
<1> QED
  BY <1>1, <1>2, <1>3, PTL DEF PathSpec

----------------------------------------------------------------------------
(* The history, and the types of the whole path.                           *)

\* What was lost has arrived, what was read or stranded is frames, and no more
\* arrives than the bus delivers.
HistoryOK == /\ arrived \in 0 .. MaxFrames
             /\ lost \subseteq 1 .. arrived
             /\ read \in Seq(Frame)
             /\ stranded \subseteq Frame

\* Every step keeps the history so, a lost frame being the one that just arrived
\* or one that waited in the FIFO.
LEMMA StepHistory ==
  ASSUME RingInv, FifoTypeOK, HistoryOK, [PathNext]_pathVars,
         \A i \in 1 .. Len(fifo) : fifo[i] <= arrived
  PROVE  HistoryOK'
<1> USE PathAssumption DEF FifoTypeOK, HistoryOK
<1>1. CASE Arrive
  <2>1. /\ arrived' = arrived + 1 /\ arrived' \in 1 .. MaxFrames
        /\ lost' \in {lost, lost \cup {arrived'}} /\ read' = read
        /\ stranded' = stranded
    BY <1>1 DEF Arrive
  <2>2. lost' \subseteq 1 .. arrived'
    BY <2>1
  <2> QED
    BY <2>1, <2>2
<1>2. CASE Receive
  <2>1. Len(fifo) \in Nat \ {0} /\ Head(fifo) = fifo[1] /\ fifo[1] \in Frame
    BY <1>2, EmptySeq, ElementOfSeq DEF Receive
  <2>2. Head(fifo) \in 1 .. arrived
    BY <2>1
  <2> QED
    BY <1>2, <2>2 DEF Receive
<1>3. CASE AppRead
  <2>1. frame.first \in Frame
    BY <1>3, TailLive DEF AppRead, Advance, RingInv, ReaderHasFrame, CopiedSoFar,
       ReaderPowered, RewindUnpowered, Published, Whole, RingTypeOK
  <2>2. Append(read, frame.first) \in Seq(Frame)
    BY <2>1, AppendProperties
  <2> QED
    BY <1>3, <2>2 DEF AppRead
<1>4. CASE LatchRx \/ LatchGeneral \/ BusOff \/ AppNoMessage \/ AppCopy
  BY <1>4 DEF LatchRx, LatchGeneral, BusOff, AppNoMessage, AppCopy, histVars
<1>5. CASE Handler /\ ~Receive
  BY <1>5 DEF Handler, Enter, ReadInt, AckOverflow, ReadTrec, CallbackDrain,
     CallbackNoRx, RxAvailable, StoreFrame, NoneAvailable, TellReceive,
     TellReceiveReturn, TellOverrun, DrainReturn, TellHwOverrun, TellBusOff, Exit,
     histVars
<1>6. CASE UNCHANGED pathVars
  BY <1>6 DEF pathVars, histVars
<1>7. CASE PowerFullReturns
  <2>1. InRing \subseteq Frame
    <3>1. Contents \in Seq(Frame)
      BY ContentsFacts
    <3> QED
      BY <3>1, ElementOfSeq DEF InRing
  <2> QED
    BY <1>7, <2>1 DEF PowerFullReturns
<1> QED
  BY <1>1, <1>2, <1>3, <1>4, <1>5, <1>6, <1>7 DEF PathNext, Handler, App

----------------------------------------------------------------------------
(* Order.                                                                  *)

\* s lists the numbers of S, each once, in increasing order.
Ordered(s, S) == /\ \A i, j \in 1 .. Len(s) : i < j => s[i] < s[j]
                 /\ {s[i] : i \in 1 .. Len(s)} = S

\* A number above all of them may be appended.
LEMMA OrderedAppend ==
  ASSUME NEW s \in Seq(Nat), NEW n \in Nat, NEW S, Ordered(s, S),
         \A x \in S : x < n
  PROVE  Ordered(Append(s, n), S \cup {n})
<1> DEFINE u == Append(s, n)
<1>1. /\ Len(s) \in Nat /\ Len(u) = Len(s) + 1
      /\ \A i \in 1 .. Len(s) : u[i] = s[i] /\ u[i] \in S
      /\ u[Len(s) + 1] = n
  BY AppendProperties, LenProperties DEF Ordered
<1> HIDE DEF u
<1>2. ASSUME NEW i \in 1 .. Len(u), NEW j \in 1 .. Len(u), i < j
      PROVE  u[i] < u[j]
  <2>1. i \in 1 .. Len(s) /\ (j \in 1 .. Len(s) \/ j = Len(s) + 1)
    BY <1>1, <1>2
  <2>2. CASE j \in 1 .. Len(s)
    BY <1>1, <1>2, <2>1, <2>2 DEF Ordered
  <2>3. CASE j = Len(s) + 1
    BY <1>1, <2>1, <2>3
  <2> QED
    BY <2>1, <2>2, <2>3
<1>3. {u[i] : i \in 1 .. Len(u)} = S \cup {n}
  <2>1. ASSUME NEW i \in 1 .. Len(u) PROVE u[i] \in S \cup {n}
    <3>1. i \in 1 .. Len(s) \/ i = Len(s) + 1
      BY <1>1
    <3> QED
      BY <1>1, <3>1
  <2>2. ASSUME NEW x \in S PROVE \E i \in 1 .. Len(u) : u[i] = x
    <3>1. PICK i \in 1 .. Len(s) : s[i] = x
      BY DEF Ordered
    <3>2. i \in 1 .. Len(u) /\ u[i] = x
      BY <1>1, <3>1
    <3> QED
      BY <3>2
  <2>3. \E i \in 1 .. Len(u) : u[i] = n
    BY <1>1
  <2> QED
    BY <2>1, <2>2, <2>3
<1> QED
  BY <1>2, <1>3 DEF Ordered, u

\* An element in the middle may be taken out.
LEMMA OrderedDrop ==
  ASSUME NEW a \in Seq(Nat), NEW t \in Seq(Nat), NEW h \in Nat, NEW S,
         Ordered(a \o (<<h>> \o t), S)
  PROVE  h \in S /\ Ordered(a \o t, S \ {h})
<1> DEFINE s == a \o (<<h>> \o t)
           u == a \o t
           k == Len(a) + 1
           At2(i) == IF i < k THEN i ELSE i + 1
<1>1. Len(a) \in Nat /\ Len(t) \in Nat
  BY LenProperties
<1>2. /\ <<h>> \o t \in Seq(Nat) /\ Len(<<h>> \o t) = Len(t) + 1
      /\ (<<h>> \o t)[1] = h
      /\ \A i \in 1 .. Len(t) : (<<h>> \o t)[i + 1] = t[i]
  <2>1. <<h>> \in Seq(Nat) /\ Len(<<h>>) = 1 /\ <<h>>[1] = h
    OBVIOUS
  <2> QED
    BY <1>1, <2>1, ConcatProperties
<1>3. /\ Len(s) = Len(a) + Len(t) + 1
      /\ \A i \in 1 .. Len(a) : s[i] = a[i]
      /\ s[k] = h
      /\ \A i \in 1 .. Len(t) : s[k + i] = t[i]
  <2>1. /\ Len(s) = Len(a) + Len(<<h>> \o t)
        /\ \A i \in 1 .. Len(a) + Len(<<h>> \o t) :
              s[i] = IF i <= Len(a) THEN a[i] ELSE (<<h>> \o t)[i - Len(a)]
    BY <1>2, ConcatProperties
  <2>2. ASSUME NEW i \in 1 .. Len(t) PROVE s[k + i] = t[i]
    <3>1. k + i \in 1 .. Len(a) + Len(<<h>> \o t) /\ ~(k + i <= Len(a))
          /\ (k + i) - Len(a) = i + 1
      BY <1>1, <1>2
    <3> QED
      BY <1>2, <2>1, <3>1
  <2>3. k \in 1 .. Len(a) + Len(<<h>> \o t) /\ ~(k <= Len(a)) /\ k - Len(a) = 1
    BY <1>1, <1>2
  <2>4. s[k] = h
    BY <1>2, <2>1, <2>3
  <2> QED
    BY <1>1, <1>2, <2>1, <2>2, <2>4
<1>4. /\ Len(u) = Len(a) + Len(t)
      /\ \A i \in 1 .. Len(a) + Len(t) :
            u[i] = IF i <= Len(a) THEN a[i] ELSE t[i - Len(a)]
  BY ConcatProperties
<1> HIDE DEF s, u
<1>5. ASSUME NEW i \in 1 .. Len(u)
      PROVE  At2(i) \in 1 .. Len(s) /\ At2(i) # k /\ u[i] = s[At2(i)]
  <2>1. CASE i <= Len(a)
    <3>1. i \in 1 .. Len(a) /\ i < k
      BY <1>1, <1>4, <2>1
    <3>2. At2(i) = i /\ i \in 1 .. Len(s) /\ i # k
      BY <1>1, <1>3, <3>1
    <3>3. u[i] = s[i]
      BY <1>3, <1>4, <2>1, <3>1
    <3> QED
      BY <3>2, <3>3
  <2>2. CASE ~(i <= Len(a))
    <3>1. i - Len(a) \in 1 .. Len(t) /\ k + (i - Len(a)) = i + 1
      BY <1>1, <1>4, <2>2
    <3>2. s[i + 1] = t[i - Len(a)]
      BY <1>3, <3>1
    <3> QED
      BY <1>1, <1>3, <1>4, <2>2, <3>1, <3>2
  <2> QED
    BY <2>1, <2>2
<1>6. \A i, j \in 1 .. Len(s) : i < j => s[i] < s[j]
  BY DEF Ordered, s
<1>7. {s[i] : i \in 1 .. Len(s)} = S
  BY DEF Ordered, s
<1>8. k \in 1 .. Len(s) /\ h \in S
  BY <1>1, <1>3, <1>7
<1>9. ASSUME NEW i \in 1 .. Len(u), NEW j \in 1 .. Len(u), i < j
      PROVE  u[i] < u[j]
  <2>1. At2(i) < At2(j)
    BY <1>1, <1>4, <1>9
  <2> QED
    BY <1>5, <1>6, <2>1
<1>10. ASSUME NEW i \in 1 .. Len(s), i # k PROVE s[i] # h
  <2>1. CASE i < k
    <3>1. s[i] < s[k]
      BY <1>6, <1>8, <2>1
    <3>2. i \in 1 .. Len(a) /\ a[i] \in Nat
      BY <1>1, <2>1, ElementOfSeq
    <3> QED
      BY <1>3, <3>1, <3>2
  <2>2. CASE k < i
    <3>1. s[k] < s[i]
      BY <1>6, <1>8, <2>2
    <3> QED
      BY <1>3, <3>1
  <2> QED
    BY <1>1, <1>10, <2>1, <2>2
<1>11. {u[i] : i \in 1 .. Len(u)} = S \ {h}
  <2>1. ASSUME NEW i \in 1 .. Len(u) PROVE u[i] \in S \ {h}
    BY <1>5, <1>7, <1>10
  <2>2. ASSUME NEW x \in S \ {h} PROVE \E i \in 1 .. Len(u) : u[i] = x
    <3>1. PICK j \in 1 .. Len(s) : s[j] = x
      BY <1>7
    <3>2. j # k
      BY <1>3, <3>1
    <3> DEFINE i == IF j < k THEN j ELSE j - 1
    <3>3. i \in 1 .. Len(u) /\ At2(i) = j
      <4>1. CASE j < k
        <5>1. i = j /\ At2(j) = j /\ j \in 1 .. Len(u)
          BY <1>1, <1>3, <1>4, <3>1, <4>1
        <5> QED
          BY <5>1
      <4>2. CASE ~(j < k)
        <5>1. i = j - 1
          BY <4>2
        <5>2. j \in Nat /\ k \in Nat /\ j > k /\ j <= Len(a) + Len(t) + 1
          BY <1>1, <1>3, <3>1, <3>2, <4>2
        <5>3. j - 1 \in 1 .. Len(u) /\ ~(j - 1 < k)
          BY <1>1, <1>4, <5>2
        <5> QED
          BY <5>1, <5>2, <5>3
      <4> QED
        BY <4>1, <4>2
    <3> QED
      BY <1>5, <3>1, <3>3
  <2> QED
    BY <2>1, <2>2
<1> QED
  BY <1>8, <1>9, <1>11 DEF Ordered, u

\* A sequence that is not empty is its head and its tail.
LEMMA HeadTail ==
  ASSUME NEW S, NEW c \in Seq(S), c # <<>>
  PROVE  Head(c) \in S /\ Tail(c) \in Seq(S) /\ c = <<Head(c)>> \o Tail(c)
<1>1. Head(c) \in S /\ Tail(c) \in Seq(S)
  BY HeadTailProperties
<1>2. Len(c) \in Nat \ {0}
  BY EmptySeq
<1>3. Head(c) = c[1] /\ SubSeq(c, 1, Len(c)) = c /\ Tail(c) = SubSeq(c, 2, Len(c))
  BY <1>2, TailIsSubSeq, LenProperties
<1>4. SubSeq(c, 1, Len(c)) = <<c[1]>> \o SubSeq(c, 2, Len(c))
  BY <1>2, SubSeqRecursiveFirst
<1> QED
  BY <1>1, <1>3, <1>4

\* And the head and tail of one put in front are that one and the rest.
LEMMA HeadTailOfJoin ==
  ASSUME NEW S, NEW h \in S, NEW t \in Seq(S)
  PROVE  LET c == <<h>> \o t IN c # <<>> /\ Head(c) = h /\ Tail(c) = t
<1> DEFINE c == <<h>> \o t
<1>1. Len(t) \in Nat /\ t = [i \in 1 .. Len(t) |-> t[i]]
  BY LenProperties
<1>2. /\ c \in Seq(S) /\ Len(c) = Len(t) + 1 /\ c[1] = h
      /\ \A i \in 1 .. Len(t) : c[i + 1] = t[i]
  <2>1. <<h>> \in Seq(S) /\ Len(<<h>>) = 1 /\ <<h>>[1] = h
    OBVIOUS
  <2> QED
    BY <1>1, <2>1, ConcatProperties
<1> HIDE DEF c
<1>3. c # <<>>
  BY <1>1, <1>2
<1>4. /\ Head(c) = c[1] /\ Tail(c) \in Seq(S) /\ Len(Tail(c)) = Len(t)
      /\ \A i \in 1 .. Len(t) : Tail(c)[i] = c[i + 1]
  BY <1>1, <1>2, <1>3, HeadTailProperties
<1>5. Tail(c) = [i \in 1 .. Len(t) |-> Tail(c)[i]]
  BY <1>4, LenProperties
<1>6. Tail(c) = t
  BY <1>1, <1>2, <1>4, <1>5
<1> QED
  BY <1>2, <1>3, <1>4, <1>6 DEF c

\* Frames are numbers.
LEMMA FrameNumbers == ASSUME NEW s \in Seq(Frame) PROVE s \in Seq(Nat)
<1>1. Len(s) \in Nat /\ s \in [1 .. Len(s) -> Frame]
  BY LenProperties
<1>2. s \in [1 .. Len(s) -> Nat]
  BY <1>1, PathAssumption
<1> QED
  BY <1>1, <1>2

\* The path as it lies between FIFO and application.
LEMMA PipelineParts ==
  ASSUME RingInv, FifoTypeOK, HistoryOK
  PROVE  /\ read \in Seq(Frame) /\ Contents \in Seq(Frame) /\ InHand \in Seq(Frame)
         /\ fifo \in Seq(Frame) /\ read \o Contents \in Seq(Frame)
         /\ (read \o Contents) \o InHand \in Seq(Frame)
         /\ Pipeline \in Seq(Frame)
<1>1. InHand \in Seq(Frame)
  BY DEF InHand, RingInv, WriterHasRoom
<1>2. Contents \in Seq(Frame) /\ read \in Seq(Frame) /\ fifo \in Seq(Frame)
  BY ContentsFacts DEF FifoTypeOK, HistoryOK
<1>3. read \o Contents \in Seq(Frame)
  BY <1>2, ConcatProperties
<1>4. (read \o Contents) \o InHand \in Seq(Frame)
  BY <1>1, <1>3, ConcatProperties
<1>5. Pipeline \in Seq(Frame)
  BY <1>2, <1>4, ConcatProperties DEF Pipeline
<1> QED
  BY <1>1, <1>2, <1>3, <1>4, <1>5

\* A frame that arrives is the last on the path, or lost.
LEMMA ArriveOrdered ==
  ASSUME RingInv, FifoTypeOK, HistoryOK, EachFrameOnceInOrder, Arrive
  PROVE  EachFrameOnceInOrder'
<1> DEFINE n == arrived + 1
           p == (read \o Contents) \o InHand
           S == (1 .. arrived) \ lost
<1>1. /\ read' = read /\ Contents' = Contents /\ InHand' = InHand /\ arrived' = n
      /\ n \in Nat /\ n \in Frame /\ n \notin lost
  BY PathAssumption
     DEF Arrive, ringVars, Contents, Used, At, Oldest, InHand, HistoryOK, FifoTypeOK
<1>2. p \in Seq(Frame) /\ p' = p /\ Pipeline = p \o fifo /\ Pipeline' = p \o fifo'
  BY <1>1, PipelineParts DEF Pipeline
<1>3. Ordered(Pipeline, S)
  BY DEF EachFrameOnceInOrder, Ordered
<1>4. CASE fifo' = Append(fifo, n) /\ lost' = lost
  <2>1. Pipeline' = Append(Pipeline, n)
    <3>1. fifo \in Seq(Frame) /\ <<n>> \in Seq(Frame) /\ p \o fifo \in Seq(Frame)
      BY <1>1, <1>2, PipelineParts
    <3>2. Append(fifo, n) = fifo \o <<n>> /\ Append(p \o fifo, n) = (p \o fifo) \o <<n>>
      BY <1>1, <3>1, AppendIsConcat
    <3> HIDE DEF p
    <3>3. (p \o fifo) \o <<n>> = p \o (fifo \o <<n>>)
      BY <1>2, <3>1, ConcatAssociative
    <3> QED
      BY <1>2, <1>4, <3>2, <3>3
  <2>2. Pipeline \in Seq(Nat)
    BY PipelineParts, FrameNumbers
  <2>3. \A x \in S : x < n
    BY <1>1 DEF HistoryOK
  <2>4. Ordered(Append(Pipeline, n), S \cup {n})
    BY <1>1, <1>3, <2>2, <2>3, OrderedAppend
  <2>5. (1 .. arrived') \ lost' = S \cup {n}
    BY <1>1, <1>4 DEF HistoryOK
  <2> QED
    BY <2>1, <2>4, <2>5 DEF EachFrameOnceInOrder, Ordered
<1>5. CASE fifo' = fifo /\ lost' = lost \cup {n}
  <2>1. (1 .. arrived') \ lost' = S
    BY <1>1, <1>5 DEF HistoryOK
  <2>2. Pipeline' = Pipeline
    BY <1>2, <1>5
  <2> QED
    BY <1>3, <2>1, <2>2 DEF EachFrameOnceInOrder, Ordered
<1> QED
  BY <1>1, <1>4, <1>5 DEF Arrive

\* The handler takes the frame the FIFO releases in its hands, or drops it.
LEMMA ReceiveOrdered ==
  ASSUME RingInv, FifoTypeOK, HistoryOK, EachFrameOnceInOrder, Receive
  PROVE  EachFrameOnceInOrder'
<1> DEFINE h == Head(fifo)
           p == read \o Contents
           S == (1 .. arrived) \ lost
<1>1. /\ read' = read /\ Contents' = Contents /\ arrived' = arrived
      /\ InHand = <<>> /\ fifo' = Tail(fifo)
  BY DEF Receive, Push, powerVars, Contents, Used, At, Oldest, InHand
<1>2. /\ h \in Frame /\ Tail(fifo) \in Seq(Frame) /\ fifo = <<h>> \o Tail(fifo)
      /\ p \in Seq(Frame)
  BY HeadTail, PipelineParts DEF Receive, FifoTypeOK
<1>3. Pipeline = p \o (<<h>> \o Tail(fifo))
  BY <1>1, <1>2, ConcatEmptySeq DEF Pipeline
<1>4. Ordered(Pipeline, S)
  BY DEF EachFrameOnceInOrder, Ordered
<1>5. p' = p
  BY <1>1
<1> HIDE DEF p, h
<1>6. CASE RoomFor(Succ(rx_head))
  <2>1. InHand' = <<h>> /\ lost' = lost
    BY <1>6 DEF Receive, Push, InHand, h
  <2>2. Pipeline' = (p \o <<h>>) \o Tail(fifo)
    BY <1>1, <1>5, <2>1 DEF Pipeline, p
  <2>3. Pipeline' = Pipeline
    <3>1. <<h>> \in Seq(Frame)
      BY <1>2
    <3>2. (p \o <<h>>) \o Tail(fifo) = p \o (<<h>> \o Tail(fifo))
      BY <1>2, <3>1, ConcatAssociative
    <3> QED
      BY <1>3, <2>2, <3>2
  <2> QED
    BY <1>1, <1>4, <2>1, <2>3 DEF EachFrameOnceInOrder, Ordered
<1>7. CASE ~RoomFor(Succ(rx_head))
  <2>1. InHand' = <<>> /\ lost' = lost \cup {h}
    BY <1>7 DEF Receive, Push, InHand, h
  <2>2. Pipeline' = p \o Tail(fifo)
    BY <1>1, <1>2, <1>5, <2>1, ConcatEmptySeq DEF Pipeline, p
  <2>3. p \in Seq(Nat) /\ Tail(fifo) \in Seq(Nat) /\ h \in Nat
    BY <1>2, FrameNumbers, PathAssumption
  <2>4. Ordered(p \o Tail(fifo), S \ {h})
    BY <1>3, <1>4, <2>3, OrderedDrop
  <2>5. (1 .. arrived') \ lost' = S \ {h}
    BY <1>1, <2>1
  <2> QED
    BY <2>2, <2>4, <2>5 DEF EachFrameOnceInOrder, Ordered
<1> QED
  BY <1>6, <1>7

\* Storing a frame and moving rx_head past it takes it from the handler's hands to
\* the back of the ring.
LEMMA StoreKeeps ==
  ASSUME RingInv, FifoTypeOK, HistoryOK, StoreFrame
  PROVE  /\ Contents' \o InHand' = Contents \o InHand
         /\ InHand' \in Seq(Frame) /\ Contents' \in Seq(Frame)
<1>1. CASE StoreFirst \/ StoreLast
  <2>1. Contents' = Contents
    <3>1. \A i \in Index : Live(i) => rx_ring'[i].first = rx_ring[i].first
      BY <1>1, HeadNotLive DEF StoreFirst, StoreLast, RingInv, RingTypeOK, Slot
    <3> QED
      BY <1>1, <3>1, ContentsKept DEF StoreFirst, StoreLast, powerVars, Oldest
  <2>2. InHand' = InHand
    BY <1>1 DEF StoreFirst, StoreLast, InHand
  <2> QED
    BY <2>1, <2>2, PipelineParts
<1>2. CASE Publish
  <2>1. Contents' = Append(Contents, f) /\ InHand = <<f>> /\ InHand' = <<>>
    BY <1>2, PublishAppends DEF Publish, InHand
  <2>2. f \in Frame /\ Contents \in Seq(Frame)
    BY <1>2, PipelineParts DEF Publish, RingInv, WriterHasRoom
  <2>3. Append(Contents, f) = Contents \o <<f>> /\ Append(Contents, f) \in Seq(Frame)
    BY <2>2, AppendIsConcat, AppendProperties
  <2>4. Append(Contents, f) \o <<>> = Append(Contents, f)
    BY <2>3, ConcatEmptySeq
  <2> QED
    BY <2>1, <2>3, <2>4, EmptySeq
<1> QED
  BY <1>1, <1>2 DEF StoreFrame, Store

\* Storing a frame and moving rx_head past it change nothing of the order.
LEMMA StoreOrdered ==
  ASSUME RingInv, FifoTypeOK, HistoryOK, EachFrameOnceInOrder, StoreFrame
  PROVE  EachFrameOnceInOrder'
<1>1. read' = read /\ fifo' = fifo /\ arrived' = arrived /\ lost' = lost
  BY DEF StoreFrame, hwVars, histVars
<1>2. (Contents' \o InHand' = Contents \o InHand) /\ InHand' \in Seq(Frame)
      /\ Contents' \in Seq(Frame)
  BY StoreKeeps
<1>3. (read \o Contents) \o InHand = read \o (Contents \o InHand)
  BY PipelineParts, ConcatAssociative
<1>4. (read \o Contents') \o InHand' = read \o (Contents' \o InHand')
  <2>1. ASSUME NEW c \in Seq(Frame), NEW x \in Seq(Frame)
        PROVE  (read \o c) \o x = read \o (c \o x)
    <3>1. read \in Seq(Frame)
      BY PipelineParts
    <3> QED
      BY <3>1, ConcatAssociative
  <2> QED
    BY <1>2, <2>1
<1>5. Pipeline' = Pipeline
  BY <1>1, <1>2, <1>3, <1>4 DEF Pipeline
<1> QED
  BY <1>1, <1>5 DEF EachFrameOnceInOrder

\* The frame MessageRead returns is the oldest of the ring.
LEMMA ReadOrdered ==
  ASSUME RingInv, FifoTypeOK, HistoryOK, EachFrameOnceInOrder, AppRead
  PROVE  EachFrameOnceInOrder'
<1> DEFINE h == Head(Contents)
           t == Tail(Contents)
<1>1. /\ fifo' = fifo /\ arrived' = arrived /\ lost' = lost /\ InHand' = InHand
      /\ read' = Append(read, frame.first)
  BY DEF AppRead, Advance, writerVars, hwVars, InHand
<1>2. Contents # <<>> /\ Contents' = t /\ frame.first = h
  BY AdvanceRemoves DEF AppRead, Advance
<1>3. /\ h \in Frame /\ t \in Seq(Frame) /\ Contents = <<h>> \o t
      /\ read \in Seq(Frame)
  BY <1>2, HeadTail, PipelineParts
<1> HIDE DEF h, t
<1>4. read' \o Contents' = read \o Contents
  <2>1. read' = read \o <<h>> /\ <<h>> \in Seq(Frame)
    BY <1>1, <1>2, <1>3, AppendIsConcat
  <2>2. (read \o <<h>>) \o t = read \o (<<h>> \o t)
    BY <1>3, <2>1, ConcatAssociative
  <2> QED
    BY <1>2, <1>3, <2>1, <2>2
<1> QED
  BY <1>1, <1>4 DEF Pipeline, EachFrameOnceInOrder

\* No other step moves a frame.
LEMMA OthersKeep ==
  ASSUME [PathNext]_pathVars, ~Arrive, ~Receive, ~StoreFrame, ~AppRead
  PROVE  /\ Contents' = Contents /\ InHand' = InHand
         /\ UNCHANGED <<fifo, read, arrived, lost>>
<1>1. /\ UNCHANGED <<rx_ring, rx_head, Oldest, f, fifo, read, arrived, lost>>
      /\ (wpc' \in {"storefirst", "storelast", "publish"}) =
            (wpc \in {"storefirst", "storelast", "publish"})
  <2>1. CASE LatchRx \/ LatchGeneral \/ BusOff
    BY <2>1 DEF LatchRx, LatchGeneral, BusOff, ringVars, histVars, Oldest
  <2>2. CASE AppNoMessage \/ AppCopy
    BY <2>2 DEF AppNoMessage, AppCopy, ReadRefused, ReadEmpty, ReadStart,
       CopyFirst, CopyLast, writerVars, powerVars, hwVars, histVars, Oldest
  <2>6. CASE PowerFullReturns
    BY <2>6 DEF PowerFullReturns, PowerUp, writerVars, hwVars, Oldest
  <2>3. CASE Enter \/ ReadInt \/ AckOverflow \/ ReadTrec \/ CallbackNoRx
             \/ RxAvailable \/ TellReceiveReturn \/ TellHwOverrun \/ TellBusOff
             \/ Exit
    BY <2>3 DEF Enter, ReadInt, AckOverflow, ReadTrec, CallbackNoRx, RxAvailable,
       TellReceiveReturn, TellHwOverrun, TellBusOff, Exit, ringVars, hwVars,
       histVars, Oldest
  <2>4. CASE CallbackDrain \/ NoneAvailable \/ TellReceive \/ TellOverrun
             \/ DrainReturn
    BY <2>4 DEF CallbackDrain, NoneAvailable, TellReceive, TellOverrun, DrainReturn,
       DrainStart, DrainEnd, SignalReceive, SignalOverrun, EventReturn, powerVars,
       hwVars, histVars, Oldest
  <2>5. CASE UNCHANGED pathVars
    BY <2>5 DEF pathVars, ringVars, hwVars, histVars, Oldest
  <2> QED
    BY <2>1, <2>2, <2>3, <2>4, <2>5, <2>6 DEF PathNext, Handler, App
<1>2. Contents' = Contents
  BY <1>1 DEF Contents, Used, At
<1>3. InHand' = InHand
  BY <1>1 DEF InHand
<1> QED
  BY <1>1, <1>2, <1>3

\* So the order stays.
LEMMA OthersOrdered ==
  ASSUME EachFrameOnceInOrder, [PathNext]_pathVars,
         ~Arrive, ~Receive, ~StoreFrame, ~AppRead
  PROVE  EachFrameOnceInOrder'
<1> QED
  BY OthersKeep DEF Pipeline, EachFrameOnceInOrder

\* What waits in the FIFO has arrived.
LEMMA FifoHasArrived ==
  ASSUME RingInv, FifoTypeOK, HistoryOK, EachFrameOnceInOrder
  PROVE  \A i \in 1 .. Len(fifo) : fifo[i] <= arrived
<1> DEFINE p == (read \o Contents) \o InHand
<1>1. p \in Seq(Frame) /\ fifo \in Seq(Frame) /\ Pipeline = p \o fifo
  BY PipelineParts DEF Pipeline
<1> HIDE DEF p
<1>2. /\ Len(p) \in Nat /\ Len(fifo) \in Nat /\ Len(Pipeline) = Len(p) + Len(fifo)
      /\ \A i \in 1 .. Len(p) + Len(fifo) :
            Pipeline[i] = IF i <= Len(p) THEN p[i] ELSE fifo[i - Len(p)]
  BY <1>1, ConcatProperties, LenProperties
<1>3. ASSUME NEW i \in 1 .. Len(fifo) PROVE fifo[i] <= arrived
  <2>1. Len(p) + i \in 1 .. Len(Pipeline) /\ Pipeline[Len(p) + i] = fifo[i]
    BY <1>2
  <2>2. Pipeline[Len(p) + i] \in 1 .. arrived
    BY <2>1 DEF EachFrameOnceInOrder
  <2> QED
    BY <2>1, <2>2 DEF HistoryOK
<1> QED
  BY <1>3

\* Types, history and order, with what the ring guarantees.
OrderInv == FifoTypeOK /\ HistoryOK /\ EachFrameOnceInOrder

\* Every step keeps them.
LEMMA StepOrder ==
  ASSUME RingInv, OrderInv, [PathNext]_pathVars
  PROVE  OrderInv'
<1> USE DEF OrderInv
<1>1. FifoTypeOK' /\ HistoryOK'
  BY StepFifo, StepHistory, FifoHasArrived
<1>2. EachFrameOnceInOrder'
  BY ArriveOrdered, ReceiveOrdered, StoreOrdered, ReadOrdered, OthersOrdered
<1> QED
  BY <1>1, <1>2

\* At the start nothing is on the path.
LEMMA InitOrder == PathInit => OrderInv
<1> SUFFICES ASSUME PathInit PROVE OrderInv
  OBVIOUS
<1>1. /\ read = <<>> /\ fifo = <<>> /\ InHand = <<>> /\ arrived = 0 /\ lost = {}
      /\ stranded = {} /\ ppc = "apply"
  BY DEF PathInit, RingInit, InHand
<1>2. Contents = <<>>
  <2>1. Used = 0
    BY DEF PathInit, RingInit, Used, Oldest
  <2> QED
    BY <2>1 DEF Contents
<1>3. Pipeline = <<>>
  BY <1>1, <1>2 DEF Pipeline
<1>4. EachFrameOnceInOrder
  BY <1>1, <1>3 DEF EachFrameOnceInOrder
<1> QED
  BY <1>1, <1>4, PathAssumption DEF OrderInv, FifoTypeOK, HistoryOK

\* A frame the bus delivered is in exactly one place between FIFO and application,
\* or counted as lost, and none overtakes another.
THEOREM EachFrameAlwaysOnceInOrder == PathSpec => []EachFrameOnceInOrder
<1>1. RingInv /\ OrderInv /\ [PathNext]_pathVars => OrderInv'
  BY StepOrder
<1>2. OrderInv => EachFrameOnceInOrder
  BY DEF OrderInv
<1> QED
  BY <1>1, <1>2, InitOrder, PathUsesRing, RingInvariant, PTL DEF PathSpec

\* The rest of the types: places, flags and events.
PlaceOK ==
    /\ Len(fifo) <= FifoDepth
    /\ {rxov, rxif, genif, busoff, cbdone, unreported} \subseteq BOOLEAN
    /\ ipc \in {"idle", "int", "ackov", "trec", "callback", "drain", "receive",
                "event", "hwov", "unit", "exit"}
    /\ events \subseteq {"RX_AVAILABLE", "RX_OVERFLOW", "BUS_OFF"}
    /\ policy \in Policies
    /\ unitevent \in {"none", "UNIT_BUS_OFF"}

\* Every step keeps them.
LEMMA StepPlace ==
  ASSUME FifoTypeOK, PlaceOK, [PathNext]_pathVars
  PROVE  PlaceOK'
<1> USE DEF PlaceOK
<1>1. CASE Arrive
  <2>1. Len(fifo) \in Nat
    BY LenProperties DEF FifoTypeOK
  <2>2. arrived' \in Frame
    BY <1>1, PathAssumption DEF Arrive, FifoTypeOK
  <2>3. Len(Append(fifo, arrived')) = Len(fifo) + 1
    BY <2>2, AppendProperties DEF FifoTypeOK
  <2>4. Len(fifo') <= FifoDepth
    BY <1>1, <2>1, <2>3, PathAssumption DEF Arrive
  <2> QED
    BY <1>1, <2>4 DEF Arrive, isrVars, appVars
<1>2. CASE Receive
  <2>1. Len(Tail(fifo)) = Len(fifo) - 1 /\ Len(fifo) \in Nat
    BY <1>2, HeadTailProperties, LenProperties DEF Receive, FifoTypeOK
  <2>2. Len(fifo') <= FifoDepth
    BY <1>2, <2>1, PathAssumption DEF Receive
  <2> QED
    BY <1>2, <2>2 DEF Receive, appVars
<1>3. CASE LatchRx \/ LatchGeneral \/ BusOff
  BY <1>3 DEF LatchRx, LatchGeneral, BusOff, isrVars, appVars, histVars
<1>4. CASE App \/ PowerFullReturns
  BY <1>4 DEF App, AppNoMessage, AppCopy, AppRead, PowerFullReturns, hwVars,
     isrVars, appVars, histVars
<1>5. CASE Enter \/ ReadInt \/ AckOverflow \/ ReadTrec \/ CallbackDrain
           \/ CallbackNoRx \/ RxAvailable
  BY <1>5 DEF Enter, ReadInt, AckOverflow, ReadTrec, CallbackDrain, CallbackNoRx,
     RxAvailable, hwVars, appVars, histVars
<1>6. CASE StoreFrame \/ NoneAvailable \/ TellReceive \/ TellReceiveReturn
           \/ TellOverrun \/ DrainReturn \/ TellHwOverrun \/ TellBusOff \/ Exit
  BY <1>6 DEF StoreFrame, NoneAvailable, TellReceive, TellReceiveReturn, TellOverrun,
     DrainReturn, TellHwOverrun, TellBusOff, Exit, hwVars, isrVars, appVars, histVars
<1>7. CASE UNCHANGED pathVars
  BY <1>7 DEF pathVars, hwVars, isrVars, appVars, histVars
<1> QED
  BY <1>1, <1>2, <1>3, <1>4, <1>5, <1>6, <1>7 DEF PathNext, Handler

\* And they hold at the start.
LEMMA InitPlace == PathInit => PlaceOK
<1> SUFFICES ASSUME PathInit PROVE PlaceOK
  OBVIOUS
<1>1. Len(fifo) = 0
  BY EmptySeq DEF PathInit
<1>2. Len(fifo) <= FifoDepth
  BY <1>1, PathAssumption
<1> QED
  BY <1>2 DEF PathInit, PlaceOK

\* FIFO, flags, handler and history keep their types, for every ring and FIFO.
THEOREM PathTypeAlwaysOK == PathSpec => []PathTypeOK
<1>1. RingInv /\ OrderInv /\ [PathNext]_pathVars => OrderInv'
  BY StepOrder
<1>2. OrderInv /\ PlaceOK /\ [PathNext]_pathVars => PlaceOK'
  BY StepPlace DEF OrderInv
<1>3. RingInv /\ OrderInv /\ PlaceOK => PathTypeOK
  <2> SUFFICES ASSUME RingInv, OrderInv, PlaceOK PROVE PathTypeOK
    OBVIOUS
  <2>1. lost \subseteq Frame
    BY PathAssumption DEF OrderInv, HistoryOK
  <2> QED
    BY <2>1 DEF RingInv, OrderInv, FifoTypeOK, HistoryOK, PlaceOK, PathTypeOK
<1> QED
  BY <1>1, <1>2, <1>3, InitOrder, InitPlace, PathUsesRing, RingInvariant, PTL
     DEF PathSpec

----------------------------------------------------------------------------
(* FIFO, handler and ring are one queue.                                   *)

\* To take an element out of the middle is to join what is before and after it.
LEMMA WithoutMiddle ==
  ASSUME NEW S, NEW a \in Seq(S), NEW t \in Seq(S), NEW h \in S
  PROVE  LET s == a \o (<<h>> \o t)
         IN  /\ Len(s) = Len(a) + Len(t) + 1
             /\ Delivery!Without(s, Len(a) + 1) = a \o t
<1> DEFINE s == a \o (<<h>> \o t)
           k == Len(a) + 1
<1>1. Len(a) \in Nat /\ Len(t) \in Nat
  BY LenProperties
<1>2. /\ <<h>> \o t \in Seq(S) /\ Len(<<h>> \o t) = Len(t) + 1
      /\ \A i \in 1 .. Len(t) : (<<h>> \o t)[i + 1] = t[i]
  <2>1. <<h>> \in Seq(S) /\ Len(<<h>>) = 1
    OBVIOUS
  <2> QED
    BY <1>1, <2>1, ConcatProperties
<1>3. /\ Len(s) = Len(a) + Len(t) + 1
      /\ \A i \in 1 .. Len(s) :
            s[i] = IF i <= Len(a) THEN a[i] ELSE (<<h>> \o t)[i - Len(a)]
  BY <1>1, <1>2, ConcatProperties
<1>4. /\ a \o t \in Seq(S) /\ Len(a \o t) = Len(a) + Len(t)
      /\ \A i \in 1 .. Len(a) + Len(t) :
            (a \o t)[i] = IF i <= Len(a) THEN a[i] ELSE t[i - Len(a)]
  BY ConcatProperties
<1>5. a \o t = [i \in 1 .. Len(a) + Len(t) |-> (a \o t)[i]]
  BY <1>4, LenProperties
<1> HIDE DEF s
<1>6. ASSUME NEW j \in 1 .. Len(a) + Len(t)
      PROVE  (IF j < k THEN s[j] ELSE s[j + 1]) = (a \o t)[j]
  <2>1. CASE j < k
    <3>1. j <= Len(a) /\ j \in 1 .. Len(s)
      BY <1>1, <1>3, <2>1
    <3> QED
      BY <1>3, <1>4, <2>1, <3>1
  <2>2. CASE ~(j < k)
    <3>1. /\ ~(j <= Len(a)) /\ ~(j + 1 <= Len(a)) /\ j + 1 \in 1 .. Len(s)
          /\ j - Len(a) \in 1 .. Len(t) /\ (j + 1) - Len(a) = (j - Len(a)) + 1
      BY <1>1, <1>3, <2>2
    <3>2. s[j + 1] = t[j - Len(a)]
      BY <1>2, <1>3, <3>1
    <3> QED
      BY <1>4, <2>2, <3>1, <3>2
  <2> QED
    BY <2>1, <2>2
<1>7. Len(s) - 1 = Len(a) + Len(t)
  BY <1>1, <1>3
<1>8. Delivery!Without(s, k) = [j \in 1 .. Len(a) + Len(t) |-> (a \o t)[j]]
  BY <1>6, <1>7 DEF Delivery!Without
<1> QED
  BY <1>3, <1>5, <1>8 DEF s

\* What waits is what the ring, the handler and the FIFO hold.
LEMMA WaitingParts ==
  ASSUME RingInv, FifoTypeOK, HistoryOK
  PROVE  /\ Contents \in Seq(Frame) /\ InHand \in Seq(Frame) /\ fifo \in Seq(Frame)
         /\ Contents \o InHand \in Seq(Frame) /\ Waiting \in Seq(Frame)
         /\ Len(Waiting) = Len(Contents) + Len(InHand) + Len(fifo)
<1>1. /\ Contents \in Seq(Frame) /\ InHand \in Seq(Frame) /\ fifo \in Seq(Frame)
  BY PipelineParts
<1>2. /\ Contents \o InHand \in Seq(Frame)
      /\ Len(Contents \o InHand) = Len(Contents) + Len(InHand)
  BY <1>1, ConcatProperties
<1>3. /\ Waiting \in Seq(Frame)
      /\ Len(Waiting) = Len(Contents \o InHand) + Len(fifo)
  BY <1>1, <1>2, ConcatProperties DEF Waiting
<1> QED
  BY <1>1, <1>2, <1>3

\* A frame that arrives is accepted at the back, or refused by a full FIFO.
LEMMA ArriveDelivers ==
  ASSUME RingInv, FifoTypeOK, HistoryOK, Arrive
  PROVE  Delivery!Next
<1> DEFINE n == arrived + 1
           p == Contents \o InHand
<1>1. /\ read' = read /\ Contents' = Contents /\ InHand' = InHand /\ arrived' = n
      /\ n \in Frame
  BY PathAssumption
     DEF Arrive, ringVars, Contents, Used, At, Oldest, InHand, HistoryOK, FifoTypeOK
<1>2. /\ p \in Seq(Frame) /\ fifo \in Seq(Frame)
      /\ Waiting = p \o fifo /\ Waiting' = p \o fifo'
  BY <1>1, WaitingParts DEF Waiting
<1> HIDE DEF p
<1>3. CASE fifo' = Append(fifo, n)
  <2>1. <<n>> \in Seq(Frame) /\ p \o fifo \in Seq(Frame)
    BY <1>1, <1>2, ConcatProperties
  <2>2. Append(fifo, n) = fifo \o <<n>> /\ Append(p \o fifo, n) = (p \o fifo) \o <<n>>
    BY <1>1, <1>2, <2>1, AppendIsConcat
  <2>3. (p \o fifo) \o <<n>> = p \o (fifo \o <<n>>)
    BY <1>2, <2>1, ConcatAssociative
  <2>4. Waiting' = Append(Waiting, arrived')
    BY <1>1, <1>2, <1>3, <2>2, <2>3
  <2> QED
    BY <1>1, <2>4 DEF Delivery!Accept, Delivery!Next
<1>4. CASE ~(Len(fifo) < FifoDepth) /\ fifo' = fifo
  <2>1. Len(Contents) \in Nat /\ Len(InHand) \in Nat /\ Len(fifo) \in Nat
    BY WaitingParts, LenProperties
  <2>2. Buffer <= FifoDepth
    BY PathAssumption, RingAssumption DEF Buffer
  <2>3. Len(Waiting) >= FifoDepth /\ Buffer \in Int /\ Len(Waiting) \in Nat
    BY <1>4, <2>1, WaitingParts, PathAssumption, RingAssumption DEF Buffer
  <2>4. Len(Waiting) >= Buffer
    BY <2>2, <2>3, PathAssumption
  <2>5. Waiting' = Waiting
    BY <1>2, <1>4
  <2> QED
    BY <1>1, <2>4, <2>5 DEF Delivery!Refuse, Delivery!Next
<1> QED
  BY <1>1, <1>3, <1>4 DEF Arrive

\* A frame the handler takes from the FIFO still waits, or it is dropped behind a
\* ring that is full.
LEMMA ReceiveDelivers ==
  ASSUME RingInv, FifoTypeOK, HistoryOK, Receive
  PROVE  [Delivery!Next]_(Delivery!deliveryVars)
<1> DEFINE h == Head(fifo)
           t == Tail(fifo)
<1>1. /\ read' = read /\ Contents' = Contents /\ arrived' = arrived
      /\ InHand = <<>> /\ fifo' = t
  BY DEF Receive, Push, powerVars, Contents, Used, At, Oldest, InHand
<1>2. /\ h \in Frame /\ t \in Seq(Frame) /\ fifo = <<h>> \o t
      /\ Contents \in Seq(Frame) /\ Contents \o <<>> = Contents
  BY HeadTail, WaitingParts, ConcatEmptySeq DEF Receive, FifoTypeOK
<1>3. Waiting = Contents \o (<<h>> \o t)
  BY <1>1, <1>2 DEF Waiting
<1>4. CASE RoomFor(Succ(rx_head))
  <2>1. InHand' = <<h>>
    BY <1>4 DEF Receive, Push, InHand
  <2>2. Waiting' = (Contents \o <<h>>) \o t
    BY <1>1, <2>1 DEF Waiting
  <2>3. <<h>> \in Seq(Frame)
    BY <1>2
  <2>4. (Contents \o <<h>>) \o t = Contents \o (<<h>> \o t)
    BY <1>2, <2>3, ConcatAssociative
  <2> QED
    BY <1>1, <1>3, <2>2, <2>4 DEF Delivery!deliveryVars
<1>5. CASE ~RoomFor(Succ(rx_head))
  <2> DEFINE i == Len(Contents) + 1
  <2>1. InHand' = <<>>
    BY <1>5 DEF Receive, Push, InHand
  <2>2. Waiting' = Contents \o t
    BY <1>1, <1>2, <2>1 DEF Waiting
  <2>3. Len(Contents) = RingLen - 1
    <3>1. rx_tail = IF rx_head + 1 = RingLen THEN 0 ELSE rx_head + 1
      BY <1>5, SuccLinear DEF RoomFor, RingInv, RingTypeOK
    <3>2. Used = RingLen - 1
      BY <3>1, RingAssumption DEF RingInv, RingTypeOK, FifoTypeOK, Used, Oldest,
         Index
    <3> QED
      BY <3>2, ContentsFacts
  <2>4. /\ Len(Waiting) = Len(Contents) + Len(t) + 1
        /\ Delivery!Without(Waiting, i) = Contents \o t
    BY <1>2, <1>3, WithoutMiddle
  <2>5. i \in 1 .. Len(Waiting) /\ i > Buffer
    <3>1. Len(t) \in Nat /\ RingLen \in Nat \ {0} /\ FifoDepth \in Nat
      BY <1>2, LenProperties, RingAssumption, PathAssumption
    <3>2. Buffer <= RingLen - 1 /\ Buffer \in Int
      BY <3>1 DEF Buffer
    <3> QED
      BY <2>3, <2>4, <3>1, <3>2
  <2>6. Delivery!Drop(i)
    BY <1>1, <2>2, <2>4, <2>5 DEF Delivery!Drop
  <2> QED
    BY <2>5, <2>6 DEF Delivery!Next
<1> QED
  BY <1>4, <1>5

\* The frame MessageRead returns is the one that waited longest.
LEMMA ReadDelivers ==
  ASSUME RingInv, FifoTypeOK, HistoryOK, AppRead
  PROVE  Delivery!Next
<1> DEFINE h == Head(Contents)
           t == Tail(Contents)
           u == InHand \o fifo
<1>1. /\ fifo' = fifo /\ arrived' = arrived /\ InHand' = InHand
      /\ read' = Append(read, frame.first)
  BY DEF AppRead, Advance, writerVars, hwVars, InHand
<1>2. Contents # <<>> /\ Contents' = t /\ frame.first = h
  BY AdvanceRemoves DEF AppRead, Advance
<1>3. /\ h \in Frame /\ t \in Seq(Frame) /\ Contents = <<h>> \o t
      /\ InHand \in Seq(Frame) /\ fifo \in Seq(Frame) /\ u \in Seq(Frame)
  BY <1>2, HeadTail, WaitingParts, ConcatProperties
<1> HIDE DEF h, t
<1>4. ASSUME NEW c \in Seq(Frame) PROVE (c \o InHand) \o fifo = c \o u
  <2>1. InHand \in Seq(Frame) /\ fifo \in Seq(Frame)
    BY <1>3
  <2> HIDE DEF InHand
  <2>2. (c \o InHand) \o fifo = c \o (InHand \o fifo)
    BY <2>1, ConcatAssociative
  <2> QED
    BY <2>2
<1>5. Waiting' = t \o u
  BY <1>1, <1>2, <1>3, <1>4 DEF Waiting
<1>6. Waiting = <<h>> \o (t \o u)
  <2>1. <<h>> \in Seq(Frame) /\ Contents \in Seq(Frame)
    BY <1>3, WaitingParts
  <2>2. Waiting = (<<h>> \o t) \o u
    BY <1>3, <1>4, <2>1 DEF Waiting
  <2> HIDE DEF u
  <2>3. (<<h>> \o t) \o u = <<h>> \o (t \o u)
    BY <1>3, <2>1, ConcatAssociative
  <2> QED
    BY <2>2, <2>3
<1>7. t \o u \in Seq(Frame)
  BY <1>3, ConcatProperties
<1>8. Waiting # <<>> /\ Head(Waiting) = h /\ Tail(Waiting) = t \o u
  BY <1>3, <1>6, <1>7, HeadTailOfJoin
<1> QED
  BY <1>1, <1>2, <1>5, <1>8 DEF Delivery!Read, Delivery!Next

\* Every step of the path is a step of the abstract delivery or leaves it alone.
LEMMA StepDelivery ==
  ASSUME RingInv, FifoTypeOK, HistoryOK, [PathNext]_pathVars
  PROVE  [Delivery!Next]_(Delivery!deliveryVars)
<1>1. CASE Arrive
  BY <1>1, ArriveDelivers
<1>2. CASE Receive
  BY <1>2, ReceiveDelivers
<1>3. CASE AppRead
  BY <1>3, ReadDelivers
<1>4. CASE StoreFrame
  BY <1>4, StoreKeeps DEF StoreFrame, hwVars, histVars, Waiting, Delivery!deliveryVars
<1>5. CASE ~Arrive /\ ~Receive /\ ~StoreFrame /\ ~AppRead
  BY <1>5, OthersKeep DEF Waiting, Delivery!deliveryVars
<1> QED
  BY <1>1, <1>2, <1>3, <1>4, <1>5

\* For every FIFO and every ring: the path from the bus to the application is a
\* queue that delivers in order of arrival, each frame once, and loses one only
\* behind as many waiting ones as the smaller of FIFO and ring can hold.
THEOREM PathImplementsDelivery == PathSpec => ImplementsDelivery
<1>1. PathInit => Delivery!Init
  <2> SUFFICES ASSUME PathInit PROVE Delivery!Init
    OBVIOUS
  <2>1. Used = 0
    BY DEF PathInit, RingInit, Used, Oldest
  <2>2. Contents = <<>> /\ InHand = <<>> /\ fifo = <<>>
    BY <2>1 DEF Contents, PathInit, RingInit, InHand
  <2>3. Waiting = <<>>
    BY <2>2 DEF Waiting
  <2> QED
    BY <2>3 DEF PathInit, Delivery!Init
<1>2. RingInv /\ OrderInv /\ [PathNext]_pathVars
         => OrderInv' /\ [Delivery!Next]_(Delivery!deliveryVars)
  BY StepOrder, StepDelivery DEF OrderInv
<1> QED
  BY <1>1, <1>2, InitOrder, PathUsesRing, RingInvariant, PTL
     DEF PathSpec, ImplementsDelivery, Delivery!Spec

----------------------------------------------------------------------------
(* The handler empties what it should, and comes to its end.               *)

\* Inside can_hal_event and nowhere else the handler uses the ring.
NestInv ==
    /\ ipc \notin {"drain", "receive", "event"} => wpc = "idle"
    /\ ipc = "receive" => wpc = "drain"
    /\ ipc = "event" => wpc = "signal" /\ ~received /\ policy # "thread"
    /\ ipc = "drain" => wpc # "idle"

\* An application that reads in the event reads only there.  If it reads all, and
\* powered is set, it comes to the end of the ring in its event, and up to the
\* next frame published there is nothing in the ring but what was stranded.
OnlyStranded == InRing \subseteq stranded
EmptyInv ==
    policy = "all" =>
        /\ ipc # "event" \/ cbdone => rpc = "idle"
        /\ powered /\ ipc \notin {"drain", "receive", "event"} => OnlyStranded
        /\ powered /\ ipc \in {"drain", "receive"} /\ ~received => OnlyStranded
        /\ powered /\ ipc = "event" /\ cbdone => OnlyStranded

\* Every step keeps the nesting.
LEMMA StepNest ==
  ASSUME NestInv, [PathNext]_pathVars
  PROVE  NestInv'
<1> USE DEF NestInv
<1>1. CASE Arrive
  BY <1>1 DEF Arrive, ringVars, isrVars, appVars
<1>2. CASE LatchRx \/ LatchGeneral \/ BusOff
  BY <1>2 DEF LatchRx, LatchGeneral, BusOff, ringVars, isrVars, appVars
<1>3. CASE Enter \/ ReadInt \/ AckOverflow \/ ReadTrec \/ CallbackNoRx
  BY <1>3 DEF Enter, ReadInt, AckOverflow, ReadTrec, CallbackNoRx,
     ringVars, appVars
<1>4. CASE CallbackDrain
  BY <1>4 DEF CallbackDrain, DrainStart, readerVars, appVars
<1>5. CASE RxAvailable
  BY <1>5 DEF RxAvailable, ringVars, appVars
<1>6. CASE Receive
  BY <1>6 DEF Receive, Push, readerVars, appVars
<1>7. CASE StoreFrame
  BY <1>7 DEF StoreFrame, Store, StoreFirst, StoreLast, Publish,
     isrVars, appVars, readerVars
<1>8. CASE NoneAvailable
  BY <1>8 DEF NoneAvailable, DrainEnd, isrVars, appVars, readerVars
<1>9. CASE TellReceive
  BY <1>9 DEF TellReceive, SignalReceive, readerVars
<1>10. CASE TellReceiveReturn
  BY <1>10 DEF TellReceiveReturn, ringVars, appVars
<1>11. CASE TellOverrun
  BY <1>11 DEF TellOverrun, SignalOverrun, isrVars, appVars, readerVars
<1>12. CASE DrainReturn
  BY <1>12 DEF DrainReturn, EventReturn, appVars, readerVars
<1>13. CASE TellHwOverrun \/ TellBusOff \/ Exit
  BY <1>13 DEF TellHwOverrun, TellBusOff, Exit, ringVars, appVars
<1>14. CASE AppNoMessage
  BY <1>14 DEF AppNoMessage, Where, ReadRefused, ReadEmpty, isrVars, writerVars
<1>15. CASE AppCopy
  BY <1>15 DEF AppCopy, Where, ReadStart, CopyFirst, CopyLast, isrVars, appVars,
     writerVars
<1>16. CASE AppRead
  BY <1>16 DEF AppRead, Where, Advance, isrVars, writerVars
<1>17. CASE UNCHANGED pathVars
  BY <1>17 DEF pathVars, ringVars, isrVars, appVars
<1>18. CASE PowerFullReturns
  BY <1>18 DEF PowerFullReturns, PowerUp, isrVars, appVars, writerVars
<1> QED
  BY <1>1, <1>2, <1>3, <1>4, <1>5, <1>6, <1>7, <1>8, <1>9, <1>10, <1>11, <1>12, <1>13, <1>14, <1>15, <1>16, <1>17,
     <1>18
     DEF PathNext, Handler, App

\* A frame in the ring stays one of the stranded or of the others, as long as
\* none is published or read.
LEMMA StrandedKept ==
  ASSUME RingInv, FifoTypeOK, [PathNext]_pathVars, ~Publish, ~AppRead,
         ~PowerFullReturns
  PROVE  OnlyStranded' = OnlyStranded
<1>1. Contents' = Contents
  <2>1. CASE Arrive
    BY <2>1 DEF Arrive, ringVars, Contents, Used, At, Oldest
  <2>2. CASE Receive
    BY <2>2 DEF Receive, Push, powerVars, Contents, Used, At, Oldest
  <2>3. CASE StoreFrame
    <3>1. StoreFirst \/ StoreLast
      BY <2>3 DEF StoreFrame, Store
    <3>2. \A i \in Index : Live(i) => rx_ring'[i].first = rx_ring[i].first
      BY <3>1, HeadNotLive DEF StoreFirst, StoreLast, RingInv, RingTypeOK, Slot
    <3> QED
      BY <3>1, <3>2, ContentsKept DEF StoreFirst, StoreLast, powerVars, Oldest
  <2> QED
    BY <2>1, <2>2, <2>3, OthersKeep
<1>2. stranded' = stranded
  BY DEF PathNext, Handler, App, Arrive, LatchRx, LatchGeneral, BusOff, Enter,
     ReadInt, AckOverflow, ReadTrec, CallbackDrain, CallbackNoRx, RxAvailable,
     Receive, StoreFrame, NoneAvailable, TellReceive, TellReceiveReturn,
     TellOverrun, DrainReturn, TellHwOverrun, TellBusOff, Exit, AppNoMessage,
     AppCopy, AppRead, pathVars, histVars
<1> QED
  BY <1>1, <1>2 DEF OnlyStranded, InRing

\* Every step keeps it so.
LEMMA StepEmpty ==
  ASSUME RingInv, FifoTypeOK, NestInv, EmptyInv, [PathNext]_pathVars
  PROVE  EmptyInv'
<1> USE DEF EmptyInv, NestInv
<1>0. ~Publish /\ ~AppRead /\ ~PowerFullReturns => OnlyStranded' = OnlyStranded
  BY StrandedKept
<1>1. CASE Arrive
  BY <1>0, <1>1 DEF Arrive, Publish, AppRead, PowerFullReturns, hwVars, ringVars,
     isrVars, appVars
<1>2. CASE LatchRx \/ LatchGeneral \/ BusOff
  <2>1. ~Publish /\ ~AppRead /\ ~PowerFullReturns
    BY <1>2 DEF LatchRx, LatchGeneral, BusOff, Publish, AppRead, Advance,
       PowerFullReturns, PowerUp, ringVars
  <2> QED
    BY <1>0, <1>2, <2>1 DEF LatchRx, LatchGeneral, BusOff, ringVars, isrVars, appVars
<1>3. CASE Enter \/ ReadInt \/ AckOverflow \/ ReadTrec \/ CallbackNoRx
  <2>1. ~Publish /\ ~AppRead /\ ~PowerFullReturns
    BY <1>3 DEF Enter, ReadInt, AckOverflow, ReadTrec, CallbackNoRx, Publish,
       AppRead, Advance, PowerFullReturns, PowerUp, ringVars
  <2> QED
    BY <1>0, <1>3, <2>1 DEF Enter, ReadInt, AckOverflow, ReadTrec, CallbackNoRx,
       ringVars, appVars
<1>4. CASE CallbackDrain
  BY <1>0, <1>4 DEF CallbackDrain, DrainStart, Publish, AppRead, Advance,
     PowerFullReturns, readerVars, powerVars, appVars
<1>5. CASE RxAvailable
  <2>1. ~Publish /\ ~AppRead /\ ~PowerFullReturns
    BY <1>5 DEF RxAvailable, Publish, AppRead, Advance, PowerFullReturns, ringVars
  <2> QED
    BY <1>0, <1>5, <2>1 DEF RxAvailable, ringVars, appVars
<1>6. CASE Receive
  BY <1>0, <1>6 DEF Receive, Push, Publish, AppRead, Advance, PowerFullReturns,
     readerVars, powerVars, appVars
<1>7. CASE StoreFrame
  <2>1. CASE Publish
    BY <1>7, <2>1 DEF StoreFrame, Publish, isrVars, appVars, readerVars
  <2>2. CASE StoreFirst \/ StoreLast
    BY <1>0, <1>7, <2>2 DEF StoreFrame, StoreFirst, StoreLast, Publish, AppRead,
       Advance, PowerFullReturns, PowerUp, isrVars, appVars, readerVars, powerVars
  <2> QED
    BY <1>7, <2>1, <2>2 DEF StoreFrame, Store
<1>8. CASE NoneAvailable
  BY <1>0, <1>8 DEF NoneAvailable, DrainEnd, Publish, AppRead, Advance,
     PowerFullReturns, isrVars, appVars, readerVars, powerVars
<1>9. CASE TellReceive
  BY <1>9 DEF TellReceive, SignalReceive, readerVars
<1>10. CASE TellReceiveReturn
  <2>1. ~Publish /\ ~AppRead /\ ~PowerFullReturns
    BY <1>10 DEF TellReceiveReturn, Publish, AppRead, Advance, PowerFullReturns,
       ringVars
  <2> QED
    BY <1>0, <1>10, <2>1 DEF TellReceiveReturn, ringVars, appVars
<1>11. CASE TellOverrun
  BY <1>0, <1>11 DEF TellOverrun, SignalOverrun, Publish, AppRead, Advance,
     PowerFullReturns, isrVars, appVars, readerVars, powerVars
<1>12. CASE DrainReturn
  BY <1>0, <1>12 DEF DrainReturn, EventReturn, Publish, AppRead, Advance,
     PowerFullReturns, appVars, readerVars, powerVars
<1>13. CASE TellHwOverrun \/ TellBusOff \/ Exit
  <2>1. ~Publish /\ ~AppRead /\ ~PowerFullReturns
    BY <1>13 DEF TellHwOverrun, TellBusOff, Exit, Publish, AppRead, Advance,
       PowerFullReturns, ringVars
  <2> QED
    BY <1>0, <1>13, <2>1 DEF TellHwOverrun, TellBusOff, Exit, ringVars, appVars
<1>14. CASE AppNoMessage
  <2>1. policy = "all" /\ powered => OnlyStranded'
    <3>1. SUFFICES ASSUME policy = "all", powered PROVE OnlyStranded'
      OBVIOUS
    <3>2. rx_tail = rx_head /\ UNCHANGED <<rx_head, rx_tail, powerVars>>
      BY <1>14, <3>1 DEF AppNoMessage, ReadRefused, ReadEmpty
    <3>3. Used' = 0
      BY <3>2 DEF Used, Oldest, powerVars, FifoTypeOK, RingInv, RingTypeOK, Index
    <3> QED
      BY <3>3 DEF OnlyStranded, InRing, Contents
  <2> QED
    BY <1>14, <2>1 DEF AppNoMessage, Where, ReadRefused, ReadEmpty, isrVars,
       writerVars, powerVars
<1>15. CASE AppCopy
  <2>1. ~Publish /\ ~AppRead /\ ~PowerFullReturns
    BY <1>15 DEF AppCopy, ReadStart, CopyFirst, CopyLast, Publish, AppRead,
       Advance, PowerFullReturns, PowerUp, writerVars, powerVars
  <2> QED
    BY <1>0, <1>15, <2>1 DEF AppCopy, Where, ReadStart, CopyFirst, CopyLast,
       isrVars, appVars, writerVars, powerVars
<1>16. CASE AppRead
  BY <1>16 DEF AppRead, Where, Advance, isrVars, writerVars
<1>17. CASE PowerFullReturns
  <2>1. InRing' = InRing
    BY <1>17 DEF PowerFullReturns, PowerUp, Oldest, Used, At, Contents, InRing
  <2> QED
    BY <1>17, <2>1 DEF PowerFullReturns, PowerUp, OnlyStranded, isrVars, appVars,
       writerVars, readerVars
<1>18. CASE UNCHANGED pathVars
  <2>1. OnlyStranded' = OnlyStranded
    BY <1>18 DEF pathVars, ringVars, histVars, OnlyStranded, InRing, Contents, Used,
       At, Oldest
  <2> QED
    BY <1>18, <2>1 DEF pathVars, ringVars, isrVars, appVars
<1> QED
  BY <1>1, <1>2, <1>3, <1>4, <1>5, <1>6, <1>7, <1>8, <1>9, <1>10, <1>11, <1>12,
     <1>13, <1>14, <1>15, <1>16, <1>17, <1>18 DEF PathNext, Handler, App

\* After an interrupt of a powered driver an application that reads in the RECEIVE
\* event until MessageRead fails has left nothing in the ring, but for frames that
\* were there already when powered was set.
NothingLeftBehind ==
    policy = "all" /\ powered /\ ipc \in {"idle", "exit"} => InRing \subseteq stranded

\* What the run rx_one_read finds of one read per event, a frame that came in its
\* turn and waits in the ring for the next interrupt, cannot happen to the usage of
\* MessageRead that "all" stands for.  It still can to the frames drained between
\* the isr_enable of can_apply_init and "ctx->powered = 1u" in PowerControl(FULL):
\* MessageRead refuses them in their event.
THEOREM NothingIsLeftBehind == PathSpec => []NothingLeftBehind
<1>1. PathInit => OrderInv /\ NestInv /\ EmptyInv
  BY InitOrder DEF PathInit, RingInit, NestInv, EmptyInv
<1>2. RingInv /\ OrderInv /\ NestInv /\ EmptyInv /\ [PathNext]_pathVars
         => OrderInv' /\ NestInv' /\ EmptyInv'
  BY StepOrder, StepNest, StepEmpty DEF OrderInv
<1>3. EmptyInv => NothingLeftBehind
  BY DEF EmptyInv, OnlyStranded, NothingLeftBehind
<1> QED
  BY <1>1, <1>2, <1>3, PathUsesRing, RingInvariant, PTL DEF PathSpec

\* The steps the handler has before it: for each frame of the FIFO, for each of
\* the ring, for the one the application copies, and for its own place.
One(b) == IF b THEN 1 ELSE 0
ReaderWork == CASE rpc = "idle" -> 3     [] rpc = "copyfirst" -> 2
                [] rpc = "copylast" -> 1 [] rpc = "advance" -> 0
DrainWork == CASE wpc = "storefirst" -> 16 [] wpc = "storelast" -> 15
               [] wpc = "publish" -> 14    [] wpc = "drain" -> 9
               [] wpc = "signal" -> 4 + One(dropped) + 3 * One(received)
               [] wpc = "idle" -> 0
HandlerWork ==
    CASE ipc = "int" -> 13     [] ipc = "ackov" -> 12  [] ipc = "trec" -> 11
      [] ipc = "callback" -> 10 [] ipc = "receive" -> 8 [] ipc = "drain" -> DrainWork
      [] ipc = "event" -> 5 + One(dropped) + One(~cbdone)
      [] ipc = "hwov" -> 3     [] ipc = "unit" -> 2    [] ipc = "exit" -> 1
      [] ipc = "idle" -> 0
Work == 9 * Len(fifo) + 4 * Len(Contents) + ReaderWork + HandlerWork

\* The lengths Work counts with are numbers.
LEMMA Lengths ==
  ASSUME RingInv, FifoTypeOK
  PROVE  Len(fifo) \in Nat /\ Len(Contents) \in Nat
<1> QED
  BY ContentsFacts, LenProperties DEF FifoTypeOK

\* A step that moves no frame and not the reader lowers Work as it lowers the
\* handler's own part.
LEMMA OwnPartOnly ==
  ASSUME RingInv, FifoTypeOK, [PathNext]_pathVars,
         ~Arrive, ~Receive, ~StoreFrame, ~AppRead, rpc' = rpc,
         HandlerWork \in Int, HandlerWork' \in Int
  PROVE  /\ HandlerWork' < HandlerWork => Work' < Work
         /\ HandlerWork' = HandlerWork => Work' = Work
<1>1. Len(fifo') = Len(fifo) /\ Len(Contents)' = Len(Contents)
  BY OthersKeep
<1>2. ReaderWork' = ReaderWork /\ ReaderWork \in Int
  BY DEF ReaderWork, RingInv, RingTypeOK
<1> QED
  BY <1>1, <1>2, Lengths DEF Work

\* The hardware's steps.
LEMMA HardwareKeepsWork ==
  ASSUME RingInv, FifoTypeOK, PlaceOK, NestInv, [PathNext]_pathVars,
         LatchRx \/ LatchGeneral \/ BusOff
  PROVE  Work' = Work
<1>1. UNCHANGED <<ringVars, fifo, isrVars, appVars>>
  BY DEF LatchRx, LatchGeneral, BusOff
<1>2. HandlerWork' = HandlerWork
  BY <1>1 DEF ringVars, isrVars, appVars, HandlerWork, DrainWork, One
<1>3. ReaderWork' = ReaderWork /\ Contents' = Contents /\ fifo' = fifo
  BY <1>1 DEF ringVars, ReaderWork, Contents, Used, At, Oldest
<1> QED
  BY <1>2, <1>3 DEF Work

\* A frame that arrives adds at most the nine steps it takes.
LEMMA ArriveAddsNine ==
  ASSUME RingInv, FifoTypeOK, HandlerWork \in Int, Arrive
  PROVE  Work' <= Work + 9
<1>1. UNCHANGED <<ringVars, isrVars, appVars>>
  BY DEF Arrive
<1>2. HandlerWork' = HandlerWork
  BY <1>1 DEF ringVars, isrVars, appVars, HandlerWork, DrainWork, One
<1>3. ReaderWork' = ReaderWork /\ Contents' = Contents
  BY <1>1 DEF ringVars, ReaderWork, Contents, Used, At, Oldest
<1>4. Len(fifo') = Len(fifo) \/ Len(fifo') = Len(fifo) + 1
  <2>1. arrived' \in Frame
    BY PathAssumption DEF Arrive, FifoTypeOK
  <2> QED
    BY <2>1, AppendProperties DEF Arrive, FifoTypeOK
<1>5. ReaderWork \in Int
  BY DEF ReaderWork, RingInv, RingTypeOK
<1> QED
  BY <1>2, <1>3, <1>4, <1>5, Lengths DEF Work

\* The handler's steps that move no frame.
LEMMA HandlerLowersOwnPart ==
  ASSUME RingInv, PlaceOK, NestInv, Handler,
         ~Receive, ~StoreFrame, ipc # "idle"
  PROVE  HandlerWork' < HandlerWork /\ rpc' = rpc
<1>1. CASE ReadInt \/ AckOverflow \/ ReadTrec \/ CallbackNoRx
  <2>1. /\ <<ipc, ipc'>> \in {<<"int", "ackov">>, <<"ackov", "trec">>,
                              <<"trec", "callback">>, <<"callback", "hwov">>}
        /\ rpc' = rpc
    BY <1>1 DEF ReadInt, AckOverflow, ReadTrec, CallbackNoRx, ringVars
  <2> QED
    BY <2>1 DEF HandlerWork
<1>2. CASE CallbackDrain
  BY <1>2 DEF CallbackDrain, DrainStart, readerVars, HandlerWork, DrainWork
<1>3. CASE RxAvailable
  BY <1>3 DEF RxAvailable, ringVars, HandlerWork, DrainWork
<1>4. CASE NoneAvailable
  BY <1>4 DEF NoneAvailable, DrainEnd, readerVars, isrVars, HandlerWork,
     DrainWork, One
<1>5. CASE TellReceive
  <2>1. /\ HandlerWork = 4 + One(dropped) + 3 /\ dropped' = dropped
        /\ wpc' = "signal" /\ ~received' /\ ~cbdone' /\ ipc' \in {"drain", "event"}
        /\ rpc' = rpc
    BY <1>5 DEF TellReceive, SignalReceive, readerVars, HandlerWork, DrainWork, One
  <2>2. HandlerWork' \in {4 + One(dropped), 5 + One(dropped) + 1}
    BY <2>1 DEF HandlerWork, DrainWork, One
  <2>3. One(dropped) \in 0 .. 1
    BY DEF One
  <2> QED
    BY <2>1, <2>2, <2>3
<1>6. CASE TellReceiveReturn
  BY <1>6 DEF TellReceiveReturn, NestInv, ringVars, HandlerWork, DrainWork, One
<1>7. CASE TellOverrun
  BY <1>7 DEF TellOverrun, SignalOverrun, readerVars, isrVars, HandlerWork,
     DrainWork, One
<1>8. CASE DrainReturn
  BY <1>8 DEF DrainReturn, EventReturn, readerVars, HandlerWork, DrainWork, One
<1>9. CASE TellHwOverrun \/ TellBusOff \/ Exit
  <2>1. /\ <<ipc, ipc'>> \in {<<"hwov", "unit">>, <<"unit", "exit">>, <<"exit", "idle">>}
        /\ rpc' = rpc
    BY <1>9 DEF TellHwOverrun, TellBusOff, Exit, ringVars
  <2> QED
    BY <2>1 DEF HandlerWork
<1> QED
  BY <1>1, <1>2, <1>3, <1>4, <1>5, <1>6, <1>7, <1>8, <1>9 DEF Handler, Enter

\* A frame taken from the FIFO is worth the steps of storing it.
LEMMA ReceiveLowersWork ==
  ASSUME RingInv, FifoTypeOK, Receive
  PROVE  Work' < Work
<1>1. Len(fifo') = Len(fifo) - 1
  BY HeadTailProperties DEF Receive, FifoTypeOK
<1>2. ReaderWork' = ReaderWork /\ Contents' = Contents /\ ReaderWork \in Int
  BY DEF Receive, Push, readerVars, powerVars, ReaderWork, Contents, Used, At,
     Oldest, RingInv, RingTypeOK
<1>3. HandlerWork = 8 /\ HandlerWork' \in {9, 16}
  BY DEF Receive, Push, HandlerWork, DrainWork
<1> QED
  BY <1>1, <1>2, <1>3, Lengths DEF Work

\* A frame stored and published is worth the steps of reading it.
LEMMA StoreLowersWork ==
  ASSUME RingInv, FifoTypeOK, HistoryOK, StoreFrame
  PROVE  Work' < Work
<1>1. fifo' = fifo /\ ReaderWork' = ReaderWork /\ ReaderWork \in Int
  BY DEF StoreFrame, Store, StoreFirst, StoreLast, Publish, hwVars, readerVars,
     ReaderWork, RingInv, RingTypeOK
<1>2. CASE StoreFirst \/ StoreLast
  <2>1. HandlerWork' = HandlerWork - 1 /\ HandlerWork \in {15, 16}
    BY <1>2 DEF StoreFrame, StoreFirst, StoreLast, isrVars, HandlerWork, DrainWork
  <2>2. Contents' = Contents
    <3>1. \A i \in Index : Live(i) => rx_ring'[i].first = rx_ring[i].first
      BY <1>2, HeadNotLive DEF StoreFirst, StoreLast, RingInv, RingTypeOK, Slot
    <3> QED
      BY <1>2, <3>1, ContentsKept DEF StoreFirst, StoreLast, powerVars, Oldest
  <2> QED
    BY <1>1, <2>1, <2>2, Lengths DEF Work
<1>3. CASE Publish
  <2>1. HandlerWork = 14 /\ HandlerWork' = 9
    BY <1>3 DEF StoreFrame, Publish, isrVars, HandlerWork, DrainWork
  <2>2. Len(Contents') = Len(Contents) + 1
    <3>1. Contents \in Seq(Frame) /\ f \in Frame
      BY <1>3, ContentsFacts DEF Publish, RingInv, WriterHasRoom
    <3> QED
      BY <1>3, <3>1, PublishAppends, AppendProperties
  <2> QED
    BY <1>1, <2>1, <2>2, Lengths DEF Work
<1> QED
  BY <1>2, <1>3 DEF StoreFrame, Store

\* The application's steps inside the event.
LEMMA AppLowersWork ==
  ASSUME RingInv, FifoTypeOK, PlaceOK, NestInv, App, ipc # "idle"
  PROVE  Work' < Work
<1>1. ipc = "event" /\ ~cbdone
  BY DEF App, AppNoMessage, AppCopy, AppRead, Where
<1>2. UNCHANGED <<ipc, dropped, fifo>>
  BY DEF App, AppNoMessage, AppCopy, AppRead, ReadRefused, ReadEmpty, ReadStart,
     CopyFirst, CopyLast, Advance, isrVars, hwVars, writerVars
<1>3. HandlerWork = 6 + One(dropped) /\ HandlerWork' = 5 + One(dropped) + One(~cbdone')
  BY <1>1, <1>2 DEF HandlerWork, One
<1>4. One(dropped) \in 0 .. 1 /\ One(~cbdone') \in 0 .. 1
  BY DEF One
<1>5. CASE AppNoMessage
  <2>1. HandlerWork' = 5 + One(dropped)
    <3>1. cbdone' = TRUE
      BY <1>1, <1>5 DEF AppNoMessage, NestInv
    <3>2. One(~cbdone') = 0
      BY <3>1 DEF One
    <3> QED
      BY <1>3, <1>4, <3>2
  <2>2. Contents' = Contents /\ ReaderWork' = ReaderWork /\ ReaderWork \in Int
    BY <1>5 DEF AppNoMessage, ReadRefused, ReadEmpty, powerVars, Contents, Used,
       At, Oldest, ReaderWork, RingInv, RingTypeOK
  <2> QED
    BY <1>2, <1>3, <1>4, <2>1, <2>2, Lengths DEF Work
<1>6. CASE AppCopy
  <2>1. cbdone' = cbdone
    BY <1>6 DEF AppCopy, appVars
  <2>2. Contents' = Contents
    BY <1>6 DEF AppCopy, ReadStart, CopyFirst, CopyLast, powerVars, Contents, Used,
       At, Oldest
  <2>3. ReaderWork' = ReaderWork - 1 /\ ReaderWork \in 1 .. 3
    BY <1>6 DEF AppCopy, ReadStart, CopyFirst, CopyLast, ReaderWork
  <2>4. HandlerWork' = HandlerWork
    BY <1>1, <1>3, <2>1 DEF One
  <2> QED
    BY <1>2, <1>3, <1>4, <2>2, <2>3, <2>4, Lengths DEF Work
<1>7. CASE AppRead
  <2>1. Len(Contents') = Len(Contents) - 1
    <3>1. Contents \in Seq(Frame)
      BY ContentsFacts
    <3>2. Contents # <<>> /\ Contents' = Tail(Contents)
      BY <1>7, AdvanceRemoves DEF AppRead
    <3> QED
      BY <3>1, <3>2, HeadTailProperties
  <2>2. ReaderWork = 0 /\ ReaderWork' = 3
    BY <1>7 DEF AppRead, Advance, ReaderWork
  <2>3. HandlerWork' <= HandlerWork
    BY <1>3, <1>4
  <2> QED
    BY <1>2, <1>3, <1>4, <2>1, <2>2, <2>3, Lengths DEF Work
<1> QED
  BY <1>5, <1>6, <1>7 DEF App

\* Every step of the handler, and of the application that reads in its event, brings
\* the return from the interrupt closer; only a frame that arrives meanwhile can
\* put it off, by the nine steps from the FIFO to the application.
HandlerAdvances ==
    ipc # "idle" => \/ Work' < Work
                    \/ Arrive /\ Work' <= Work + 9
                    \/ (LatchRx \/ LatchGeneral \/ BusOff) /\ Work' = Work

\* The handler's own part is bounded by a number,
LEMMA OwnPartBounded ==
  ASSUME RingInv, PlaceOK
  PROVE  HandlerWork \in 0 .. 16
<1>1. One(dropped) \in 0 .. 1 /\ One(received) \in 0 .. 1 /\ One(~cbdone) \in 0 .. 1
  BY DEF One
<1>2. DrainWork \in 0 .. 16
  BY <1>1 DEF DrainWork, RingInv, RingTypeOK
<1> QED
  BY <1>1, <1>2 DEF HandlerWork, PlaceOK

\* and all there is to do by the depths of FIFO and ring.
LEMMA WorkBounded ==
  ASSUME RingInv, FifoTypeOK, PlaceOK
  PROVE  Work \in 0 .. 9 * FifoDepth + 4 * RingLen + 15
<1>1. ReaderWork \in 0 .. 3
  BY DEF ReaderWork, RingInv, RingTypeOK
<1>2. Len(fifo) \in 0 .. FifoDepth /\ Len(Contents) \in 0 .. RingLen - 1
  BY Lengths, ContentsFacts, PathAssumption, RingAssumption DEF PlaceOK
<1>3. HandlerWork \in 0 .. 16
  BY OwnPartBounded
<1>4. FifoDepth \in Nat /\ RingLen \in Nat
  BY PathAssumption, RingAssumption
<1> QED
  BY <1>1, <1>2, <1>3, <1>4 DEF Work

\* The interrupt comes to its end: as long as no frame arrives, the handler, its
\* callback and an application that reads in it return after at most Work steps, and
\* Work never exceeds what FIFO and ring can hold.
THEOREM HandlerAlwaysAdvances ==
  PathSpec => /\ [][HandlerAdvances]_pathVars
              /\ [](Work \in 0 .. 9 * FifoDepth + 4 * RingLen + 15)
<1> DEFINE IInv == RingInv /\ OrderInv /\ PlaceOK /\ NestInv
<1>1. PathInit => OrderInv /\ PlaceOK /\ NestInv
  BY InitOrder, InitPlace DEF PathInit, RingInit, NestInv
<1>2. IInv /\ [PathNext]_pathVars => OrderInv' /\ PlaceOK' /\ NestInv'
  BY StepOrder, StepPlace, StepNest DEF OrderInv
<1>3. IInv => HandlerWork \in 0 .. 16 /\ Work \in 0 .. 9 * FifoDepth + 4 * RingLen + 15
  BY OwnPartBounded, WorkBounded DEF OrderInv
<1>4. IInv /\ [PathNext]_pathVars /\ (HandlerWork \in 0 .. 16) /\ (HandlerWork \in 0 .. 16)'
         => [HandlerAdvances]_pathVars
  <2> SUFFICES ASSUME IInv, PathNext, ipc # "idle", HandlerWork \in 0 .. 16,
                      HandlerWork' \in 0 .. 16
               PROVE  HandlerAdvances
    BY DEF HandlerAdvances
  <2>1. HandlerWork \in Int /\ HandlerWork' \in Int
    OBVIOUS
  <2>2. CASE Arrive
    BY <2>1, <2>2, ArriveAddsNine DEF OrderInv, HandlerAdvances
  <2>3. CASE LatchRx \/ LatchGeneral \/ BusOff
    BY <2>3, HardwareKeepsWork DEF OrderInv, HandlerAdvances
  <2>4. CASE Receive \/ StoreFrame \/ App
    BY <2>4, ReceiveLowersWork, StoreLowersWork, AppLowersWork
       DEF OrderInv, HandlerAdvances
  <2>5. CASE Handler /\ ~Receive /\ ~StoreFrame /\ ~Arrive
    <3>1. HandlerWork' < HandlerWork /\ rpc' = rpc
      BY <2>5, HandlerLowersOwnPart
    <3>2. ~AppRead
      BY <2>5, <3>1 DEF AppRead, Advance
    <3> QED
      BY <2>1, <2>5, <3>1, <3>2, OwnPartOnly DEF OrderInv, HandlerAdvances
  <2>6. ~PowerFullReturns
    BY DEF PowerFullReturns
  <2> QED
    BY <2>2, <2>3, <2>4, <2>5, <2>6 DEF PathNext
<1> QED
  BY <1>1, <1>2, <1>3, <1>4, PathUsesRing, RingInvariant, PTL DEF PathSpec
=============================================================================

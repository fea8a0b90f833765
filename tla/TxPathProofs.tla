----------------------------- MODULE TxPathProofs ------------------------------
(***************************************************************************)
(* Proofs about TxPath, for every queue depth, with or without a timeout:  *)
(* the types, that a disable from the sending thread is final, that a      *)
(* completion that is due stays armed, and that the transmit path is the   *)
(* queue of TxQueue.                                                       *)
(***************************************************************************)
EXTENDS TxPath, TLAPS

\* Room found stays: between the test and the commit the queue only shrinks.
RoomKept == tpc = "uinc" => queued < TxqDepth

\* The event layer is on from the test of tx_start to its last store, and off
\* means that the lines are off, but for the calls that are switching them.
Arming == {"busy", "txqeie", "txie", "txline"}
Gate == /\ tpc \in Arming => g_isr_enabled
        /\ tpc \in {"room", "uinc", "read", "txreq"} /\ call = "tx_start" =>
               g_isr_enabled
        /\ tpc \in {"enflag", "lines"} => ~g_isr_enabled
        /\ ~g_isr_enabled /\ tpc # "lines" => ~txline

\* For the receive line that holds whoever disables: no call leaves it on without
\* the flag that says so.
RxGate == ~g_isr_enabled /\ tpc \notin {"lines", "enflag"} => ~rxline

\* Busy means armed, but for what tx_start has still to arm and what tx_abort
\* and isr_disable have already disarmed; the copy of TXQCON that is about to be
\* written back is never older than an arming.
Leaving == {"abtxie", "abline", "abbusy", "lines"}
Armed == /\ tpc \in {"uinc", "txreq"} /\ txqeie => txqcon
         /\ g_tx_busy /\ tpc \notin Leaving =>
               /\ g_isr_enabled
               /\ tpc # "txqeie" => txqeie
               /\ tpc \notin {"txqeie", "txie"} => txie
               /\ tpc \notin {"txqeie", "txie", "txline"} => txline

\* A completion is due only if it is coming, or on its way to the callback.
Due == /\ owed => \/ g_tx_busy
                  \/ tpc \in {"read", "txreq"} /\ call = "tx_start"
                  \/ tpc = "busy"
                  \/ ipc = "callback" /\ events = "TX_COMPLETE"
       /\ tpc \in {"abtxie", "abline", "abbusy"} => ~owed

TxInv == /\ TxTypeOK
         /\ RoomKept
         /\ RxGate
         /\ policy = "nothing" => Gate /\ Armed /\ Due

\* The queue never holds more than TXQ_DEPTH objects.
LEMMA StepModuleType ==
  ASSUME ModuleTypeOK, FlagTypeOK, RoomKept, [TxNext]_txVars
  PROVE  ModuleTypeOK' /\ RoomKept'
<1> USE TxAssumption DEF ModuleTypeOK, FlagTypeOK, RoomKept, armVars,
        stateVars, threadVars, irqVars
<1>1. CASE TxStart
  BY <1>1 DEF TxStart, Begin, At
<1>2. CASE Transmit
  BY <1>2 DEF Transmit, Begin, At
<1>3. CASE TxAbort
  BY <1>3 DEF TxAbort, Begin, At
<1>4. CASE IsrEnable
  BY <1>4 DEF IsrEnable, Begin, At
<1>5. CASE IsrDisable
  BY <1>5 DEF IsrDisable, Begin, At
<1>6. CASE Room
  BY <1>6 DEF Room, At, Goto
<1>7. CASE RoomTimeout
  BY <1>7 DEF RoomTimeout, At, Goto
<1>8. CASE Commit
  BY <1>8 DEF Commit, At, Goto
<1>9. CASE ReadTxqcon
  BY <1>9 DEF ReadTxqcon, At, Goto
<1>10. CASE Request
  BY <1>10 DEF Request, At, Goto
<1>11. CASE Busy
  BY <1>11 DEF Busy, At, Goto
<1>12. CASE ArmQueue
  BY <1>12 DEF ArmQueue, At, Goto
<1>13. CASE ArmModule
  BY <1>13 DEF ArmModule, At, Goto
<1>14. CASE TxLineEnable
  BY <1>14 DEF TxLineEnable, At, Goto
<1>15. CASE AbortModule
  BY <1>15 DEF AbortModule, At, Goto
<1>16. CASE AbortLine
  BY <1>16 DEF AbortLine, At, Goto
<1>17. CASE AbortDone
  BY <1>17 DEF AbortDone, At, Goto
<1>18. CASE EnableDone
  BY <1>18 DEF EnableDone, At, Goto
<1>19. CASE LinesDisable
  BY <1>19 DEF LinesDisable, At, Goto
<1>20. CASE Send
  BY <1>20 DEF Send
<1>21. CASE LatchTx
  BY <1>21 DEF LatchTx, TXIF
<1>22. CASE EnterTx
  BY <1>22 DEF EnterTx
<1>23. CASE EnterRx
  BY <1>23 DEF EnterRx
<1>24. CASE HandleTx
  BY <1>24 DEF HandleTx, TXIF
<1>25. CASE Callback
  BY <1>25 DEF Callback
<1>26. CASE CallbackDisable
  BY <1>26 DEF CallbackDisable
<1>27. CASE Exit
  BY <1>27 DEF Exit
<1>28. CASE UNCHANGED txVars
  BY <1>28 DEF txVars
<1> QED
  BY <1>1, <1>2, <1>3, <1>4, <1>5, <1>6, <1>7, <1>8, <1>9, <1>10, <1>11,
     <1>12, <1>13, <1>14, <1>15, <1>16, <1>17, <1>18, <1>19, <1>20, <1>21,
     <1>22, <1>23, <1>24, <1>25, <1>26, <1>27, <1>28 DEF TxNext, App,
     Thread, Handler

\* No step leaves the types of the flags.
LEMMA StepFlagType ==
  ASSUME ModuleTypeOK, FlagTypeOK, [TxNext]_txVars
  PROVE  FlagTypeOK'
<1> USE DEF ModuleTypeOK, FlagTypeOK, armVars, stateVars, threadVars, irqVars
<1>1. CASE App
  BY <1>1 DEF App, TxStart, Transmit, TxAbort, IsrEnable, IsrDisable, Begin
<1>2. CASE Thread
  BY <1>2 DEF Thread, Room, RoomTimeout, Commit, ReadTxqcon, Request, Busy,
     ArmQueue, ArmModule, TxLineEnable, AbortModule, AbortLine, AbortDone,
     EnableDone, LinesDisable, Goto
<1>3. CASE Send \/ LatchTx \/ EnterTx \/ EnterRx
  BY <1>3 DEF Send, LatchTx, EnterTx, EnterRx
<1>4. CASE Handler
  BY <1>4 DEF Handler, HandleTx, Callback, CallbackDisable, Exit
<1>5. CASE UNCHANGED txVars
  BY <1>5 DEF txVars
<1> QED
  BY <1>1, <1>2, <1>3, <1>4, <1>5 DEF TxNext

\* No step leaves the places of the thread and the handler.
LEMMA StepPlaceType ==
  ASSUME PlaceTypeOK, [TxNext]_txVars
  PROVE  PlaceTypeOK'
<1> USE DEF PlaceTypeOK, armVars, stateVars, threadVars, irqVars
<1>1. CASE App
  BY <1>1 DEF App, TxStart, Transmit, TxAbort, IsrEnable, IsrDisable, Begin
<1>2. CASE Thread
  BY <1>2 DEF Thread, Room, RoomTimeout, Commit, ReadTxqcon, Request, Busy,
     ArmQueue, ArmModule, TxLineEnable, AbortModule, AbortLine, AbortDone,
     EnableDone, LinesDisable, Goto
<1>3. CASE Send \/ LatchTx \/ EnterTx \/ EnterRx
  BY <1>3 DEF Send, LatchTx, EnterTx, EnterRx
<1>4. CASE Handler
  BY <1>4 DEF Handler, HandleTx, Callback, CallbackDisable, Exit
<1>5. CASE UNCHANGED txVars
  BY <1>5 DEF txVars
<1> QED
  BY <1>1, <1>2, <1>3, <1>4, <1>5 DEF TxNext

\* No step leaves the types of the event word.
LEMMA StepEvents ==
  ASSUME events \in {"none", "TX_COMPLETE"}, [TxNext]_txVars
  PROVE  events' \in {"none", "TX_COMPLETE"}
<1> USE DEF armVars, stateVars, threadVars, irqVars
<1>1. CASE App
  BY <1>1 DEF App, TxStart, Transmit, TxAbort, IsrEnable, IsrDisable, Begin
<1>2. CASE Thread
  BY <1>2 DEF Thread, Room, RoomTimeout, Commit, ReadTxqcon, Request, Busy,
     ArmQueue, ArmModule, TxLineEnable, AbortModule, AbortLine, AbortDone,
     EnableDone, LinesDisable, Goto
<1>3. CASE Send \/ LatchTx \/ EnterTx \/ EnterRx
  BY <1>3 DEF Send, LatchTx, EnterTx, EnterRx
<1>4. CASE Handler
  BY <1>4 DEF Handler, HandleTx, Callback, CallbackDisable, Exit
<1>5. CASE UNCHANGED txVars
  BY <1>5 DEF txVars
<1> QED
  BY <1>1, <1>2, <1>3, <1>4, <1>5 DEF TxNext

\* Every step keeps the transmit line closed on a disabled event layer.
LEMMA StepGate ==
  ASSUME TxTypeOK, Gate, policy = "nothing", [TxNext]_txVars
  PROVE  Gate'
<1> USE TxAssumption DEF TxTypeOK, ModuleTypeOK, FlagTypeOK, PlaceTypeOK,
        Gate, Arming, armVars, stateVars, threadVars, irqVars
<1>1. CASE TxStart
  BY <1>1 DEF TxStart, Begin, At
<1>2. CASE Transmit
  BY <1>2 DEF Transmit, Begin, At
<1>3. CASE TxAbort
  BY <1>3 DEF TxAbort, Begin, At
<1>4. CASE IsrEnable
  BY <1>4 DEF IsrEnable, Begin, At
<1>5. CASE IsrDisable
  BY <1>5 DEF IsrDisable, Begin, At
<1>6. CASE Room
  BY <1>6 DEF Room, At, Goto
<1>7. CASE RoomTimeout
  BY <1>7 DEF RoomTimeout, At, Goto
<1>8. CASE Commit
  BY <1>8 DEF Commit, At, Goto
<1>9. CASE ReadTxqcon
  BY <1>9 DEF ReadTxqcon, At, Goto
<1>10. CASE Request
  BY <1>10 DEF Request, At, Goto
<1>11. CASE Busy
  BY <1>11 DEF Busy, At, Goto
<1>12. CASE ArmQueue
  BY <1>12 DEF ArmQueue, At, Goto
<1>13. CASE ArmModule
  BY <1>13 DEF ArmModule, At, Goto
<1>14. CASE TxLineEnable
  BY <1>14 DEF TxLineEnable, At, Goto
<1>15. CASE AbortModule
  BY <1>15 DEF AbortModule, At, Goto
<1>16. CASE AbortLine
  BY <1>16 DEF AbortLine, At, Goto
<1>17. CASE AbortDone
  BY <1>17 DEF AbortDone, At, Goto
<1>18. CASE EnableDone
  BY <1>18 DEF EnableDone, At, Goto
<1>19. CASE LinesDisable
  BY <1>19 DEF LinesDisable, At, Goto
<1>20. CASE Send
  BY <1>20 DEF Send
<1>21. CASE LatchTx
  BY <1>21 DEF LatchTx, TXIF
<1>22. CASE EnterTx
  BY <1>22 DEF EnterTx
<1>23. CASE EnterRx
  BY <1>23 DEF EnterRx
<1>24. CASE HandleTx
  BY <1>24 DEF HandleTx, TXIF
<1>25. CASE Callback
  BY <1>25 DEF Callback
<1>26. CASE CallbackDisable
  BY <1>26 DEF CallbackDisable
<1>27. CASE Exit
  BY <1>27 DEF Exit
<1>28. CASE UNCHANGED txVars
  BY <1>28 DEF txVars
<1> QED
  BY <1>1, <1>2, <1>3, <1>4, <1>5, <1>6, <1>7, <1>8, <1>9, <1>10, <1>11,
     <1>12, <1>13, <1>14, <1>15, <1>16, <1>17, <1>18, <1>19, <1>20, <1>21,
     <1>22, <1>23, <1>24, <1>25, <1>26, <1>27, <1>28 DEF TxNext, App,
     Thread, Handler

\* Every step keeps the receive line closed on a disabled event layer.
LEMMA StepRxGate ==
  ASSUME RxGate, [TxNext]_txVars
  PROVE  RxGate'
<1> USE DEF RxGate, armVars, stateVars, threadVars, irqVars
<1>1. CASE App
  BY <1>1 DEF App, TxStart, Transmit, TxAbort, IsrEnable, IsrDisable, Begin, At
<1>2. CASE Thread
  BY <1>2 DEF Thread, Room, RoomTimeout, Commit, ReadTxqcon, Request, Busy,
     ArmQueue, ArmModule, TxLineEnable, AbortModule, AbortLine, AbortDone,
     EnableDone, LinesDisable, Goto, At
<1>3. CASE Send \/ LatchTx \/ EnterTx \/ EnterRx
  BY <1>3 DEF Send, LatchTx, EnterTx, EnterRx
<1>4. CASE Handler
  BY <1>4 DEF Handler, HandleTx, Callback, CallbackDisable, Exit
<1>5. CASE UNCHANGED txVars
  BY <1>5 DEF txVars
<1> QED
  BY <1>1, <1>2, <1>3, <1>4, <1>5 DEF TxNext

\* Every step keeps a busy transmitter armed, or about to be.
LEMMA StepArmed ==
  ASSUME TxTypeOK, Gate, Armed, policy = "nothing", [TxNext]_txVars
  PROVE  Armed'
<1> USE TxAssumption DEF TxTypeOK, ModuleTypeOK, FlagTypeOK, PlaceTypeOK,
        Gate, Armed, Arming, Leaving, armVars, stateVars, threadVars, irqVars
<1>1. CASE TxStart
  BY <1>1 DEF TxStart, Begin, At
<1>2. CASE Transmit
  BY <1>2 DEF Transmit, Begin, At
<1>3. CASE TxAbort
  BY <1>3 DEF TxAbort, Begin, At
<1>4. CASE IsrEnable
  BY <1>4 DEF IsrEnable, Begin, At
<1>5. CASE IsrDisable
  BY <1>5 DEF IsrDisable, Begin, At
<1>6. CASE Room
  BY <1>6 DEF Room, At, Goto
<1>7. CASE RoomTimeout
  BY <1>7 DEF RoomTimeout, At, Goto
<1>8. CASE Commit
  BY <1>8 DEF Commit, At, Goto
<1>9. CASE ReadTxqcon
  BY <1>9 DEF ReadTxqcon, At, Goto
<1>10. CASE Request
  BY <1>10 DEF Request, At, Goto
<1>11. CASE Busy
  BY <1>11 DEF Busy, At, Goto
<1>12. CASE ArmQueue
  BY <1>12 DEF ArmQueue, At, Goto
<1>13. CASE ArmModule
  BY <1>13 DEF ArmModule, At, Goto
<1>14. CASE TxLineEnable
  BY <1>14 DEF TxLineEnable, At, Goto
<1>15. CASE AbortModule
  BY <1>15 DEF AbortModule, At, Goto
<1>16. CASE AbortLine
  BY <1>16 DEF AbortLine, At, Goto
<1>17. CASE AbortDone
  BY <1>17 DEF AbortDone, At, Goto
<1>18. CASE EnableDone
  BY <1>18 DEF EnableDone, At, Goto
<1>19. CASE LinesDisable
  BY <1>19 DEF LinesDisable, At, Goto
<1>20. CASE Send
  BY <1>20 DEF Send
<1>21. CASE LatchTx
  BY <1>21 DEF LatchTx, TXIF
<1>22. CASE EnterTx
  BY <1>22 DEF EnterTx
<1>23. CASE EnterRx
  BY <1>23 DEF EnterRx
<1>24. CASE HandleTx
  BY <1>24 DEF HandleTx, TXIF
<1>25. CASE Callback
  BY <1>25 DEF Callback
<1>26. CASE CallbackDisable
  BY <1>26 DEF CallbackDisable
<1>27. CASE Exit
  BY <1>27 DEF Exit
<1>28. CASE UNCHANGED txVars
  BY <1>28 DEF txVars
<1> QED
  BY <1>1, <1>2, <1>3, <1>4, <1>5, <1>6, <1>7, <1>8, <1>9, <1>10, <1>11,
     <1>12, <1>13, <1>14, <1>15, <1>16, <1>17, <1>18, <1>19, <1>20, <1>21,
     <1>22, <1>23, <1>24, <1>25, <1>26, <1>27, <1>28 DEF TxNext, App,
     Thread, Handler

\* Every step keeps a due completion busy, or about to be.
LEMMA StepDue ==
  ASSUME TxTypeOK, Gate, Armed, Due, policy = "nothing", [TxNext]_txVars
  PROVE  Due'
<1> USE TxAssumption DEF TxTypeOK, ModuleTypeOK, FlagTypeOK, PlaceTypeOK,
        Gate, Armed, Due, Arming, Leaving, armVars, stateVars, threadVars,
        irqVars
<1>1. CASE TxStart
  BY <1>1 DEF TxStart, Begin, At
<1>2. CASE Transmit
  BY <1>2 DEF Transmit, Begin, At
<1>3. CASE TxAbort
  BY <1>3 DEF TxAbort, Begin, At
<1>4. CASE IsrEnable
  BY <1>4 DEF IsrEnable, Begin, At
<1>5. CASE IsrDisable
  BY <1>5 DEF IsrDisable, Begin, At
<1>6. CASE Room
  BY <1>6 DEF Room, At, Goto
<1>7. CASE RoomTimeout
  BY <1>7 DEF RoomTimeout, At, Goto
<1>8. CASE Commit
  BY <1>8 DEF Commit, At, Goto
<1>9. CASE ReadTxqcon
  BY <1>9 DEF ReadTxqcon, At, Goto
<1>10. CASE Request
  BY <1>10 DEF Request, At, Goto
<1>11. CASE Busy
  BY <1>11 DEF Busy, At, Goto
<1>12. CASE ArmQueue
  BY <1>12 DEF ArmQueue, At, Goto
<1>13. CASE ArmModule
  BY <1>13 DEF ArmModule, At, Goto
<1>14. CASE TxLineEnable
  BY <1>14 DEF TxLineEnable, At, Goto
<1>15. CASE AbortModule
  BY <1>15 DEF AbortModule, At, Goto
<1>16. CASE AbortLine
  BY <1>16 DEF AbortLine, At, Goto
<1>17. CASE AbortDone
  BY <1>17 DEF AbortDone, At, Goto
<1>18. CASE EnableDone
  BY <1>18 DEF EnableDone, At, Goto
<1>19. CASE LinesDisable
  BY <1>19 DEF LinesDisable, At, Goto
<1>20. CASE Send
  BY <1>20 DEF Send
<1>21. CASE LatchTx
  BY <1>21 DEF LatchTx, TXIF
<1>22. CASE EnterTx
  BY <1>22 DEF EnterTx
<1>23. CASE EnterRx
  BY <1>23 DEF EnterRx
<1>24. CASE HandleTx
  BY <1>24 DEF HandleTx, TXIF
<1>25. CASE Callback
  BY <1>25 DEF Callback
<1>26. CASE CallbackDisable
  BY <1>26 DEF CallbackDisable
<1>27. CASE Exit
  BY <1>27 DEF Exit
<1>28. CASE UNCHANGED txVars
  BY <1>28 DEF txVars
<1> QED
  BY <1>1, <1>2, <1>3, <1>4, <1>5, <1>6, <1>7, <1>8, <1>9, <1>10, <1>11,
     <1>12, <1>13, <1>14, <1>15, <1>16, <1>17, <1>18, <1>19, <1>20, <1>21,
     <1>22, <1>23, <1>24, <1>25, <1>26, <1>27, <1>28 DEF TxNext, App,
     Thread, Handler

\* The application's callback does not change.
LEMMA StepPolicy ==
  ASSUME [TxNext]_txVars
  PROVE  policy' = policy
<1> USE DEF armVars, stateVars, threadVars, irqVars
<1>1. CASE App
  BY <1>1 DEF App, TxStart, Transmit, TxAbort, IsrEnable, IsrDisable, Begin
<1>2. CASE Thread
  BY <1>2 DEF Thread, Room, RoomTimeout, Commit, ReadTxqcon, Request, Busy,
     ArmQueue, ArmModule, TxLineEnable, AbortModule, AbortLine, AbortDone,
     EnableDone, LinesDisable, Goto
<1>3. CASE Send \/ LatchTx \/ EnterTx \/ EnterRx
  BY <1>3 DEF Send, LatchTx, EnterTx, EnterRx
<1>4. CASE Handler
  BY <1>4 DEF Handler, HandleTx, Callback, CallbackDisable, Exit
<1>5. CASE UNCHANGED txVars
  BY <1>5 DEF txVars
<1> QED
  BY <1>1, <1>2, <1>3, <1>4, <1>5 DEF TxNext

\* Whatever the queue depth and the interleaving of handler, bus and calls.
THEOREM TxInvariant == TxSpec => []TxInv
<1>1. TxInit => TxInv
  <2> SUFFICES ASSUME TxInit PROVE TxInv
    OBVIOUS
  <2>a. ModuleTypeOK
    <3>1. queued \in 0 .. TxqDepth
      BY TxAssumption DEF TxInit
    <3> QED
      BY <3>1 DEF TxInit, ModuleTypeOK
  <2>1. RoomKept
    BY DEF TxInit, RoomKept
  <2>2. FlagTypeOK
    BY DEF TxInit, FlagTypeOK
  <2>3. PlaceTypeOK
    BY DEF TxInit, PlaceTypeOK
  <2>4. events \in {"none", "TX_COMPLETE"} /\ policy \in Policies
    BY DEF TxInit
  <2>5. Gate /\ Armed /\ Due
    BY DEF TxInit, Gate, Armed, Due, Arming
  <2>6. RxGate
    BY DEF TxInit, RxGate
  <2> QED
    BY <2>a, <2>1, <2>2, <2>3, <2>4, <2>5, <2>6 DEF TxInv, TxTypeOK
<1>2. TxInv /\ [TxNext]_txVars => TxInv'
  <2> SUFFICES ASSUME TxInv, [TxNext]_txVars PROVE TxInv'
    OBVIOUS
  <2>1. policy' = policy
    BY StepPolicy
  <2>2. TxTypeOK' /\ RoomKept'
    BY <2>1, StepModuleType, StepFlagType, StepPlaceType, StepEvents
       DEF TxInv, TxTypeOK
  <2>3. RxGate'
    BY StepRxGate DEF TxInv
  <2>4. CASE policy = "nothing"
    <3>1. Gate' /\ Armed' /\ Due'
      BY <2>4, StepGate, StepArmed, StepDue DEF TxInv
    <3> QED
      BY <2>2, <2>3, <3>1 DEF TxInv
  <2> QED
    BY <2>1, <2>2, <2>3, <2>4 DEF TxInv
<1> QED
  BY <1>1, <1>2, PTL DEF TxSpec

\* The transmit queue is never overfilled, and every flag keeps its type.
THEOREM TxTypeAlwaysOK == TxSpec => []TxTypeOK
<1>1. TxInv => TxTypeOK
  BY DEF TxInv
<1> QED BY <1>1, TxInvariant, PTL

\* Nothing re-arms a CPU line behind an isr_disable of the thread that sends, nor
\* the receive line behind one of the event callback.
THEOREM DisabledStaysSilent == TxSpec => []DisabledIsSilent
<1>1. TxInv => DisabledIsSilent
  BY DEF TxInv, DisabledIsSilent, NothingRearms, Quiet, Gate, RxGate
<1> QED BY <1>1, TxInvariant, PTL

\* A completion that is due is never disarmed.
THEOREM CompletionStaysArmed == TxSpec => []CompletionArmed
<1>1. TxInv => CompletionArmed
  BY DEF TxInv, CompletionArmed, Quiet, Armed, Due, Leaving
<1> QED BY <1>1, TxInvariant, PTL
----------------------------------------------------------------------------
(* The transmit path implements the queue its callers are promised.        *)

\* The event word is empty outside the handler, and holds TX_COMPLETE before the
\* callback only if all that was queued is on the bus and the queue is disarmed;
\* the handler disarms behind a read of TXQCON, it never arms.
EventInv == /\ ipc \in {"idle", "handle"} => events = "none"
            /\ ipc = "callback" /\ events = "TX_COMPLETE" =>
                   queued = 0 /\ ~txqeie
            /\ tpc \in {"uinc", "txreq"} /\ txqeie => txqcon

\* Every step keeps it: the thread queues nothing while the handler runs.
LEMMA StepEventInv ==
  ASSUME TxTypeOK, EventInv, [TxNext]_txVars
  PROVE  EventInv'
<1> USE DEF TxTypeOK, ModuleTypeOK, PlaceTypeOK, EventInv, armVars, stateVars,
        threadVars, irqVars
<1>1. CASE App
  BY <1>1 DEF App, TxStart, Transmit, TxAbort, IsrEnable, IsrDisable, Begin, At
<1>2. CASE Thread
  BY <1>2 DEF Thread, Room, RoomTimeout, Commit, ReadTxqcon, Request, Busy,
     ArmQueue, ArmModule, TxLineEnable, AbortModule, AbortLine, AbortDone,
     EnableDone, LinesDisable, Goto, At
<1>3. CASE Send \/ LatchTx \/ EnterTx \/ EnterRx
  BY <1>3 DEF Send, LatchTx, EnterTx, EnterRx
<1>4. CASE Handler
  BY <1>4 DEF Handler, HandleTx, TXIF, Callback, CallbackDisable, Exit
<1>5. CASE UNCHANGED txVars
  BY <1>5 DEF txVars
<1> QED
  BY <1>1, <1>2, <1>3, <1>4, <1>5 DEF TxNext

\* The caller sees nothing of a step that leaves this alone.
Unseen == UNCHANGED <<queued, owed, Telling, Spare>>

\* A step of the thread that queues nothing and gives nothing up is not seen: a
\* TX_COMPLETE that is not due comes from no store of its own.
LEMMA StepUnseenThread ==
  ASSUME TxTypeOK, EventInv, Thread, ~Commit, ~LinesDisable
  PROVE  Unseen
<1> USE DEF TxTypeOK, FlagTypeOK, PlaceTypeOK, EventInv, Unseen, Spare, Telling,
        armVars, stateVars, threadVars, irqVars, At, Goto
<1>1. CASE Room \/ RoomTimeout
  BY <1>1 DEF Room, RoomTimeout
<1>2. CASE ReadTxqcon \/ Busy
  BY <1>2 DEF ReadTxqcon, Busy
<1>3. CASE Request
  BY <1>3 DEF Request
<1>4. CASE ArmQueue
  BY <1>4 DEF ArmQueue
<1>5. CASE ArmModule \/ TxLineEnable
  BY <1>5 DEF ArmModule, TxLineEnable
<1>6. CASE AbortModule \/ AbortLine \/ AbortDone \/ EnableDone
  BY <1>6 DEF AbortModule, AbortLine, AbortDone, EnableDone
<1> QED
  BY <1>1, <1>2, <1>3, <1>4, <1>5, <1>6 DEF Thread

\* Nor is a call of the application, but for tx_abort, nor the entry of the handler.
LEMMA StepUnseenOther ==
  ASSUME TxTypeOK, EventInv,
         (App /\ ~TxAbort) \/ LatchTx \/ EnterTx \/ EnterRx \/ HandleTx
  PROVE  Unseen
<1> USE DEF TxTypeOK, FlagTypeOK, PlaceTypeOK, Unseen, Spare, Telling, armVars,
        stateVars, threadVars, irqVars, EventInv
<1>1. CASE App /\ ~TxAbort
  BY <1>1 DEF App, TxStart, Transmit, IsrEnable, IsrDisable, Begin, At
<1>2. CASE LatchTx
  BY <1>2 DEF LatchTx
<1>3. CASE EnterTx \/ EnterRx
  BY <1>3 DEF EnterTx, EnterRx
<1>4. CASE HandleTx
  BY <1>4 DEF HandleTx, TXIF
<1> QED
  BY <1>1, <1>2, <1>3, <1>4

\* Every step is a step of the queue or leaves it alone.
LEMMA StepService ==
  ASSUME TxTypeOK, RoomKept, EventInv, [TxNext]_txVars
  PROVE  [Service!Next]_(Service!serviceVars)
<1> USE DEF TxTypeOK, FlagTypeOK, armVars, stateVars, threadVars, irqVars
<1>0. Sending' \in BOOLEAN /\ Stopping' \in BOOLEAN
  BY DEF Sending, Stopping
<1>1. CASE Commit
  <2>1. /\ Sending /\ ~Telling /\ queued < TxqDepth
        /\ queued' = queued + 1 /\ owed' = (owed \/ call = "tx_start")
        /\ Telling' = Telling
    BY <1>1 DEF Commit, At, Goto, RoomKept, Sending, Telling
  <2>2. Spare' \in {Spare, FALSE}
    BY <1>1 DEF Commit, At, Goto, Spare
  <2>3. (call = "tx_start") \in BOOLEAN
    OBVIOUS
  <2>4. Service!Queue(call = "tx_start")
    BY <2>1, <2>2 DEF Service!Queue
  <2> QED
    BY <1>0, <2>3, <2>4 DEF Service!Next
<1>2. CASE Send
  <2>1. Spare' = Spare /\ Telling' = Telling
    BY <1>2 DEF Send, Spare, Telling
  <2>2. Service!Sent
    BY <1>2, <2>1 DEF Send, Service!Sent
  <2> QED
    BY <1>0, <2>2 DEF Service!Next
<1>3. CASE Callback \/ CallbackDisable
  <2>1. CASE events = "TX_COMPLETE"
    <3>1. /\ ~Telling /\ Telling' /\ queued = 0 /\ queued' = queued
          /\ owed \/ Spare
          /\ owed' = FALSE
      BY <1>3, <2>1 DEF Callback, CallbackDisable, EventInv, Telling, Spare
    <3>2. Spare' \in {Sending, FALSE}
      <4>1. ~txqeie' /\ tpc' = tpc /\ ipc' = "exit"
        BY <1>3, <2>1 DEF Callback, CallbackDisable, EventInv
      <4>2. Spare' => Sending
        BY <4>1 DEF Spare, Sending
      <4>3. Spare' \in BOOLEAN /\ Sending \in BOOLEAN
        BY DEF Spare, Sending
      <4> QED
        BY <4>2, <4>3
    <3>3. Service!Complete
      BY <3>1, <3>2 DEF Service!Complete
    <3> QED
      BY <1>0, <3>3 DEF Service!Next
  <2>2. CASE events # "TX_COMPLETE"
    <3>1. CASE Callback
      <4>1. queued' = queued /\ owed' = owed /\ Telling' = Telling
            /\ Spare' = Spare
        BY <2>2, <3>1 DEF Callback, Telling, Spare
      <4> QED
        BY <1>0, <4>1 DEF Service!Next, Service!promiseVars
    <3>2. CASE CallbackDisable
      <4>1. Stopping /\ owed' = FALSE /\ queued' = queued /\ Telling' = Telling
        BY <2>2, <3>2 DEF CallbackDisable, Stopping, Telling
      <4>2. Spare' \in {Sending, FALSE}
        BY <2>2, <3>2 DEF CallbackDisable, Spare, Sending
      <4>3. Service!GiveUp
        BY <4>1, <4>2 DEF Service!GiveUp
      <4> QED
        BY <1>0, <4>3 DEF Service!Next
    <3> QED
      BY <1>3, <3>1, <3>2
  <2> QED
    BY <2>1, <2>2
<1>4. CASE TxAbort \/ LinesDisable
  <2>1. /\ Stopping \/ Stopping'
        /\ owed' = FALSE /\ queued' = queued /\ Telling' = Telling
    BY <1>4 DEF TxAbort, LinesDisable, Begin, Goto, At, Stopping, Telling
  <2>2. Spare' = FALSE
    BY <1>4 DEF TxAbort, LinesDisable, Begin, Goto, At, Spare
  <2>3. Service!GiveUp
    BY <2>1, <2>2 DEF Service!GiveUp
  <2> QED
    BY <1>0, <2>3 DEF Service!Next
<1>5. CASE Exit
  <2>1. queued' = queued /\ owed' = owed /\ ~Telling' /\ Spare' = Spare
    BY <1>5 DEF Exit, Telling, Spare
  <2>2. Telling => Service!Told
    BY <2>1 DEF Service!Told
  <2>3. ~Telling => UNCHANGED Service!promiseVars
    BY <2>1 DEF Service!promiseVars, Telling
  <2> QED
    BY <1>0, <2>2, <2>3 DEF Service!Next
<1>6. CASE \/ App /\ ~TxAbort
           \/ Thread /\ ~Commit /\ ~LinesDisable
           \/ LatchTx \/ EnterTx \/ EnterRx \/ HandleTx
  <2>1. Unseen
    BY <1>6, StepUnseenThread, StepUnseenOther
  <2>2. UNCHANGED Service!promiseVars
    BY <2>1 DEF Unseen, Service!promiseVars
  <2> QED
    BY <1>0, <2>2 DEF Service!Next
<1>7. CASE UNCHANGED txVars
  BY <1>7 DEF txVars, Service!serviceVars, Service!promiseVars, Telling, Spare,
     Sending, Stopping
<1> QED
  BY <1>1, <1>2, <1>3, <1>4, <1>5, <1>6, <1>7
     DEF TxNext, App, Thread, Handler

\* For every queue depth, and whatever the event callback does: TX_COMPLETE is
\* given only with the queue empty, a full queue takes no frame, a completion that
\* is due is dropped by tx_abort and isr_disable only, and one that is not due is
\* given only after one given, or given up, between the stores of a send.
THEOREM TxImplementsQueue == TxSpec => ImplementsTxQueue
<1>1. TxInit => EventInv /\ Service!Init
  BY DEF TxInit, EventInv, Service!Init, Telling, Spare, Sending, Stopping
<1>2. TxInv => TxTypeOK /\ RoomKept
  BY DEF TxInv
<1>3. TxTypeOK /\ EventInv /\ [TxNext]_txVars => EventInv'
  BY StepEventInv
<1>4. TxTypeOK /\ RoomKept /\ EventInv /\ [TxNext]_txVars
         => [Service!Next]_(Service!serviceVars)
  BY StepService
<1> QED
  BY <1>1, <1>2, <1>3, <1>4, TxInvariant, PTL
     DEF TxSpec, ImplementsTxQueue, Service!Spec
=============================================================================

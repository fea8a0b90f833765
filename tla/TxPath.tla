-------------------------------- MODULE TxPath --------------------------------
(***************************************************************************)
(* The transmit path of the HAL's event layer on an initialized node:      *)
(* nora_canfd_tx_start and tx_abort, the blocking nora_canfd_transmit they *)
(* share the queue with, isr_enable, isr_disable, and the TX_COMPLETE      *)
(* branch of nora_canfd_irq_handler.                                       *)
(*                                                                         *)
(* One thread makes the calls, cut at each store the handler can observe;  *)
(* the interrupt preempts it anywhere and the module sends at any time.    *)
(* The event callback sends nothing itself (the driver is not re-entrant)  *)
(* but may switch the event layer off.  isr_enable is called only on a     *)
(* disabled event layer, as can_apply_init does.                           *)
(***************************************************************************)
EXTENDS Naturals

CONSTANTS TxqDepth,          \* TXQ_DEPTH
          HasTimeout,        \* timeout_ms # 0 and get_ms counts
          Policies           \* what the event callback may do, see below

\* The event callback calls nothing of the event layer, or may switch it off.
ASSUME TxAssumption == /\ TxqDepth \in Nat \ {0}
                       /\ HasTimeout \in BOOLEAN
                       /\ Policies \subseteq {"nothing", "isr_disable"}

VARIABLES queued,                    \* objects in the transmit queue
          txqeie, txie,              \* TXQCON.TXQEIE, INT.TXIE
          txline, txflag,            \* _CxTXIE, _CxTXIF
          rxline,                    \* the CPU lines _CxRXIE and _CxIE
          g_tx_busy, g_isr_enabled,  \* event layer state
          tpc, call, txqcon,         \* the thread: where, in which call, the
                                     \* TXQEIE bit a read of TXQCON returned
          ipc, events,               \* the handler: where, its event word
          policy,                    \* what the callback may do
          owed                       \* history: a TX_COMPLETE is due for a
                                     \* frame that tx_start queued

armVars    == <<txqeie, txie, txline, txflag>>
stateVars  == <<g_tx_busy, g_isr_enabled>>
threadVars == <<tpc, call, txqcon>>
irqVars    == <<ipc, events, policy>>
txVars     == <<queued, armVars, rxline, stateVars, threadVars, irqVars, owed>>

TxInit == /\ queued = 0
          /\ txqeie = FALSE /\ txie = FALSE
          /\ txline = FALSE /\ txflag = FALSE /\ rxline = FALSE
          /\ g_tx_busy = FALSE /\ g_isr_enabled = FALSE
          /\ tpc = "idle" /\ call = "none" /\ txqcon = FALSE
          /\ ipc = "idle" /\ events = "none" /\ policy \in Policies
          /\ owed = FALSE

\* The thread runs only while no interrupt does.
At(p)    == ipc = "idle" /\ tpc = p
Goto(p)  == tpc' = p /\ UNCHANGED call
Begin(c, p) == At("idle") /\ call' = c /\ tpc' = p

----------------------------------------------------------------------------
(* nora_canfd_transmit, alone or inside tx_start.                          *)

\* Mutant: tx_start does not ask whether the event layer is on.
BugStartUngated ==
    /\ Begin("tx_start", "room")
    /\ UNCHANGED <<queued, armVars, rxline, stateVars, txqcon, irqVars, owed>>

TxStart ==
    /\ g_isr_enabled
    /\ Begin("tx_start", "room")
    /\ UNCHANGED <<queued, armVars, rxline, stateVars, txqcon, irqVars, owed>>

Transmit ==
    /\ Begin("transmit", "room")
    /\ UNCHANGED <<queued, armVars, rxline, stateVars, txqcon, irqVars, owed>>

\* Mutant: nobody waits for room.
BugNoRoomTest ==
    /\ At("room")
    /\ Goto("uinc")
    /\ txqcon' = txqeie
    /\ UNCHANGED <<queued, armVars, rxline, stateVars, irqVars, owed>>

\* wait_flag on TXQSTA found room; TXQCON is read to set UINC in it.
Room ==
    /\ At("room") /\ queued < TxqDepth
    /\ Goto("uinc")
    /\ txqcon' = txqeie
    /\ UNCHANGED <<queued, armVars, rxline, stateVars, irqVars, owed>>

\* Mutant: the wait for room has no timeout.
BugRoomForever == FALSE

RoomTimeout ==
    /\ HasTimeout
    /\ At("room") /\ queued = TxqDepth
    /\ Goto("idle")
    /\ UNCHANGED <<queued, armVars, rxline, stateVars, txqcon, irqVars, owed>>

\* UINC and TXREQ are two read-modify-writes of TXQCON, and each writes back the
\* TXQEIE it read.  From UINC on the module may send the frame: TXREQ may still
\* be set from an earlier one.
Commit ==
    /\ At("uinc") /\ Goto("read")
    /\ queued' = queued + 1
    /\ txqeie' = txqcon
    /\ owed' = (owed \/ call = "tx_start")
    /\ UNCHANGED <<txie, txline, txflag, rxline, stateVars, txqcon, irqVars>>

ReadTxqcon ==
    /\ At("read") /\ Goto("txreq")
    /\ txqcon' = txqeie
    /\ UNCHANGED <<queued, armVars, rxline, stateVars, irqVars, owed>>

Request ==
    /\ At("txreq")
    /\ Goto(IF call = "tx_start" THEN "busy" ELSE "idle")
    /\ txqeie' = txqcon
    /\ UNCHANGED <<queued, txie, txline, txflag, rxline, stateVars, txqcon,
                   irqVars, owed>>

----------------------------------------------------------------------------
(* The rest of nora_canfd_tx_start: busy, TXQEIE, TXIE, the CPU line.      *)

Busy ==
    /\ At("busy") /\ Goto("txqeie")
    /\ g_tx_busy' = TRUE
    /\ UNCHANGED <<queued, armVars, rxline, g_isr_enabled, txqcon, irqVars, owed>>

ArmQueue ==
    /\ At("txqeie") /\ Goto("txie")
    /\ txqeie' = TRUE
    /\ UNCHANGED <<queued, txie, txline, txflag, rxline, stateVars, txqcon,
                   irqVars, owed>>

\* Mutant: TXIE is not set.
BugNoTxie ==
    /\ At("txie") /\ Goto("txline")
    /\ UNCHANGED <<queued, armVars, rxline, stateVars, txqcon, irqVars, owed>>

ArmModule ==
    /\ At("txie") /\ Goto("txline")
    /\ txie' = TRUE
    /\ UNCHANGED <<queued, txqeie, txline, txflag, rxline, stateVars, txqcon,
                   irqVars, owed>>

\* irq_tx_line_enable: the flag is cleared before the line is enabled.
TxLineEnable ==
    /\ At("txline") /\ Goto("idle")
    /\ txflag' = FALSE
    /\ txline' = TRUE
    /\ UNCHANGED <<queued, txqeie, txie, rxline, stateVars, txqcon, irqVars, owed>>

----------------------------------------------------------------------------
(* nora_canfd_tx_abort: a frame in the queue is sent all the same.         *)

TxAbort ==
    /\ Begin("tx_abort", "abtxie")
    /\ txqeie' = FALSE
    /\ owed' = FALSE
    /\ UNCHANGED <<queued, txie, txline, txflag, rxline, stateVars, txqcon, irqVars>>

AbortModule ==
    /\ At("abtxie") /\ Goto("abline")
    /\ txie' = FALSE
    /\ UNCHANGED <<queued, txqeie, txline, txflag, rxline, stateVars, txqcon,
                   irqVars, owed>>

AbortLine ==
    /\ At("abline") /\ Goto("abbusy")
    /\ txline' = FALSE
    /\ txflag' = FALSE
    /\ UNCHANGED <<queued, txqeie, txie, rxline, stateVars, txqcon, irqVars, owed>>

\* Mutant: the busy flag stays.
BugAbortStaysBusy ==
    /\ At("abbusy") /\ Goto("idle")
    /\ UNCHANGED <<queued, armVars, rxline, stateVars, txqcon, irqVars, owed>>

AbortDone ==
    /\ At("abbusy") /\ Goto("idle")
    /\ g_tx_busy' = FALSE
    /\ UNCHANGED <<queued, armVars, rxline, g_isr_enabled, txqcon, irqVars, owed>>

----------------------------------------------------------------------------
(* nora_canfd_isr_enable and isr_disable.                                  *)

\* busy = false, then the receive and general lines; the flag comes last.
IsrEnable ==
    /\ ~g_isr_enabled
    /\ Begin("isr_enable", "enflag")
    /\ g_tx_busy' = FALSE
    /\ rxline' = TRUE
    /\ UNCHANGED <<queued, armVars, g_isr_enabled, txqcon, irqVars, owed>>

EnableDone ==
    /\ At("enflag") /\ Goto("idle")
    /\ g_isr_enabled' = TRUE
    /\ UNCHANGED <<queued, armVars, rxline, g_tx_busy, txqcon, irqVars, owed>>

IsrDisable ==
    /\ Begin("isr_disable", "lines")
    /\ g_isr_enabled' = FALSE
    /\ UNCHANGED <<queued, armVars, rxline, g_tx_busy, txqcon, irqVars, owed>>

\* irq_line_disable; with the lines off nothing observes the order of the rest.
LinesDisable ==
    /\ At("lines") /\ Goto("idle")
    /\ txline' = FALSE /\ txflag' = FALSE /\ rxline' = FALSE
    /\ txie' = FALSE
    /\ txqeie' = FALSE
    /\ g_tx_busy' = FALSE
    /\ owed' = FALSE
    /\ UNCHANGED <<queued, g_isr_enabled, txqcon, irqVars>>

----------------------------------------------------------------------------
(* The module.                                                             *)

Send ==
    /\ queued > 0
    /\ queued' = queued - 1
    /\ UNCHANGED <<armVars, rxline, stateVars, threadVars, irqVars, owed>>

\* INT.TXIF is the level "TXQEIE and queue empty"; with TXIE it sets _CxTXIF.
TXIF == txqeie /\ queued = 0

LatchTx ==
    /\ TXIF /\ txie /\ ~txflag
    /\ txflag' = TRUE
    /\ UNCHANGED <<queued, txqeie, txie, txline, rxline, stateVars, threadVars,
                   irqVars, owed>>

----------------------------------------------------------------------------
(* nora_canfd_irq_handler; a receive interrupt may enter it at any time.   *)

EnterTx ==
    /\ ipc = "idle"
    /\ txline /\ txflag
    /\ ipc' = "handle"
    /\ UNCHANGED <<queued, armVars, rxline, stateVars, threadVars, events, policy,
                   owed>>

EnterRx ==
    /\ ipc = "idle"
    /\ rxline
    /\ ipc' = "handle"
    /\ UNCHANGED <<queued, armVars, rxline, stateVars, threadVars, events, policy,
                   owed>>

\* Mutant: the branch does not look whether the queue is empty.
BugHandleTxUntested ==
    /\ ipc = "handle"
    /\ ipc' = "callback"
    /\ IF txqeie
         THEN /\ events' = "TX_COMPLETE"
              /\ txqeie' = FALSE /\ txie' = FALSE
              /\ txline' = FALSE /\ txflag' = FALSE
              /\ g_tx_busy' = FALSE
         ELSE UNCHANGED <<events, armVars, g_tx_busy>>
    /\ UNCHANGED <<queued, rxline, g_isr_enabled, threadVars, policy, owed>>

\* The TX_COMPLETE branch disarms: TXQEIE, TXIE, the CPU line, busy.
HandleTx ==
    /\ ipc = "handle"
    /\ ipc' = "callback"
    /\ IF TXIF
         THEN /\ events' = "TX_COMPLETE"
              /\ txqeie' = FALSE /\ txie' = FALSE
              /\ txline' = FALSE /\ txflag' = FALSE
              /\ g_tx_busy' = FALSE
         ELSE UNCHANGED <<events, armVars, g_tx_busy>>
    /\ UNCHANGED <<queued, rxline, g_isr_enabled, threadVars, policy, owed>>

Callback ==
    /\ ipc = "callback"
    /\ ipc' = "exit"
    /\ owed' = (owed /\ events # "TX_COMPLETE")
    /\ UNCHANGED <<queued, armVars, rxline, stateVars, threadVars, events, policy>>

\* The callback switches the event layer off, all of isr_disable at once.
CallbackDisable ==
    /\ policy = "isr_disable"
    /\ ipc = "callback"
    /\ ipc' = "exit"
    /\ g_isr_enabled' = FALSE
    /\ txline' = FALSE /\ txflag' = FALSE /\ rxline' = FALSE
    /\ txie' = FALSE /\ txqeie' = FALSE
    /\ g_tx_busy' = FALSE
    /\ owed' = FALSE
    /\ UNCHANGED <<queued, threadVars, events, policy>>

Exit ==
    /\ ipc = "exit"
    /\ ipc' = "idle"
    /\ txflag' = FALSE
    /\ events' = "none"
    /\ UNCHANGED <<queued, txqeie, txie, txline, rxline, stateVars, threadVars,
                   policy, owed>>

App     == TxStart \/ Transmit \/ TxAbort \/ IsrEnable \/ IsrDisable
Thread  == \/ Room \/ RoomTimeout \/ Commit \/ ReadTxqcon \/ Request
           \/ Busy \/ ArmQueue \/ ArmModule \/ TxLineEnable
           \/ AbortModule \/ AbortLine \/ AbortDone
           \/ EnableDone \/ LinesDisable
Handler == HandleTx \/ Callback \/ CallbackDisable \/ Exit
TxNext  == App \/ Thread \/ Send \/ LatchTx \/ EnterTx \/ EnterRx \/ Handler

\* The handler and the level-sensitive flag are prompt.  A call goes on whenever
\* the interrupts leave the thread the CPU.  Nothing is assumed of the bus.
TxSpec == /\ TxInit
          /\ [][TxNext]_txVars
          /\ WF_txVars(LatchTx) /\ WF_txVars(EnterTx) /\ WF_txVars(Handler)
          /\ SF_txVars(Thread)

----------------------------------------------------------------------------
ModuleTypeOK ==
    /\ queued \in 0 .. TxqDepth
    /\ txqeie \in BOOLEAN /\ txie \in BOOLEAN
    /\ txline \in BOOLEAN /\ txflag \in BOOLEAN /\ rxline \in BOOLEAN

FlagTypeOK ==
    /\ g_tx_busy \in BOOLEAN /\ g_isr_enabled \in BOOLEAN
    /\ txqcon \in BOOLEAN
    /\ owed \in BOOLEAN

PlaceTypeOK ==
    /\ tpc \in {"idle", "room", "uinc", "read", "txreq", "busy", "txqeie",
                "txie", "txline", "abtxie", "abline", "abbusy", "enflag", "lines"}
    /\ call \in {"none", "tx_start", "transmit", "tx_abort", "isr_enable",
                 "isr_disable"}
    /\ ipc \in {"idle", "handle", "callback", "exit"}

TxTypeOK == /\ ModuleTypeOK
            /\ FlagTypeOK
            /\ PlaceTypeOK
            /\ events \in {"none", "TX_COMPLETE"}
            /\ policy \in Policies

Quiet == tpc = "idle" /\ ipc = "idle"

\* isr.h on isr_disable: nothing can re-arm the TX CPU line behind this call.  The
\* lines are what is asked for: the read-modify-write of INT in tx_start may write
\* RXIE and RXOVIE back behind a callback's isr_disable, which nobody sees while
\* the lines are off, and which the model leaves out.
NothingRearms == Quiet /\ ~g_isr_enabled => ~txline /\ ~rxline

\* It holds as long as the call comes from the thread that sends, at any point
\* of what the handler does.  The receive line stays off whoever calls.
DisabledIsSilent == /\ policy = "nothing" => NothingRearms
                    /\ Quiet /\ ~g_isr_enabled => ~rxline

\* A completion that is still due is never disarmed: whatever the handler did
\* between the stores of tx_start, and whatever a read-modify-write of TXQCON
\* brought back, a busy transmitter has the queue, the module and the line armed.
CompletionArmed ==
    Quiet /\ policy = "nothing" =>
        /\ owed => g_tx_busy
        /\ g_tx_busy => txqeie /\ txie /\ txline /\ g_isr_enabled

\* A TX_COMPLETE that nobody is owed is coming: TXQEIE is set or about to be set,
\* or the branch of the handler has been taken.
Spare == /\ ~owed
         /\ \/ txqeie
            \/ tpc \in {"uinc", "txreq"} /\ txqcon
            \/ tpc \in {"read", "txreq"} /\ call = "tx_start"
            \/ tpc \in {"busy", "txqeie"}
            \/ ipc = "callback" /\ events = "TX_COMPLETE"

\* The transmit path is the queue its callers are promised: the event is given
\* only when all that was queued is on the bus, a full queue takes no frame, a
\* completion that is due is dropped by nothing but tx_abort or isr_disable, and
\* one that is not due comes only after a TX_COMPLETE or a disable by the callback
\* fell between the stores of a send, whose remaining stores then arm TXQEIE
\* again.
Sending  == tpc \in {"uinc", "read", "txreq", "busy", "txqeie"}
Stopping == \/ tpc \in {"abtxie", "abline", "abbusy", "lines"}
            \/ ipc = "callback" /\ policy = "isr_disable"
Telling  == ipc = "exit" /\ events = "TX_COMPLETE"
Service  == INSTANCE TxQueue WITH Depth <- TxqDepth, waiting <- queued,
                                  due <- owed, spare <- Spare,
                                  telling <- Telling, sending <- Sending,
                                  stopping <- Stopping
ImplementsTxQueue == Service!Spec

\* If the application stops and the bus takes what is queued, every tx_start
\* has had its TX_COMPLETE, and the transmitter is not busy.  The application's
\* _CxTXInterrupt is taken to forward to the handler, as isr.h asks.
CompletionFollows ==
    <>[](tpc = "idle" /\ queued = 0) => <>[](~owed /\ ~g_tx_busy)

\* With a timeout every call returns, also on a bus that takes nothing.
SendReturns == tpc # "idle" ~> tpc = "idle"
=============================================================================

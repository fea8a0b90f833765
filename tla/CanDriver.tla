------------------------------ MODULE CanDriver ------------------------------
(***************************************************************************)
(* The life cycle of one driver instance: Initialize, PowerControl,        *)
(* SetBitrate, SetMode, Control(SET_FD_MODE) and MessageSend of the CMSIS  *)
(* wrapper, down to the HAL calls they make (nora_canfd_init, set_bitrate, *)
(* deinit, isr_enable, isr_disable, set_callback) and the module's mode    *)
(* handshake, with every failure the code handles.                         *)
(*                                                                         *)
(* One thread makes the calls.  A call is cut at each store the interrupt  *)
(* handler can observe, so that an invariant over all states says what the *)
(* handler finds if it preempts the thread there; the handler itself       *)
(* changes nothing of this state (RxPath models it).                       *)
(***************************************************************************)
EXTENDS Naturals

CONSTANTS Rate,        \* settings SetBitrate may leave in the context:
                       \* nominal and data bit rate and sample point
          Solvable,    \* those nora_canfd_calc_bit_timing has a solution for
          HasTimeout,  \* timeout_ms # 0 and Driver_CAN_dsPIC33AK_GetMs counts
          Reinit       \* Initialize may be called on a powered driver

ASSUME DriverAssumption == /\ Solvable \subseteq Rate
                           /\ HasTimeout \in BOOLEAN
                           /\ Reinit \in BOOLEAN

VARIABLES initialized, powered, fd_mode, mode, rate,  \* can_cmsis_context_t
          irq_priority,                               \* and its RTE priority
          g_mode, node_initialized,                   \* node layer state
          g_cb, g_isr_enabled,                        \* event layer state
          line, armed,           \* CPU line and module interrupt enables
          on, reqop, opmod,      \* CON.ON, CON.REQOP, CON.OPMOD
          hwrate, hwbrs,         \* NBTCFG/DBTCFG/TDC, and ~CON.BRSDIS
          pc, op, arg,           \* the call in progress
          sent,                  \* what the last MessageSend queued
          failed                 \* a configuration call returned an error since
                                 \* the settings were last applied as a whole

ctxVars  == <<initialized, powered, fd_mode, mode, rate, irq_priority>>
nodeVars == <<g_mode, node_initialized>>
isrVars  == <<g_cb, g_isr_enabled, line, armed>>
hwVars   == <<on, reqop, opmod, hwrate, hwbrs>>
callVars == <<pc, op, arg>>
vars == <<ctxVars, nodeVars, isrVars, hwVars, callVars, sent, failed>>

\* NORMAL_CLASSIC and NORMAL_FD are the two faces of ARM_CAN_MODE_NORMAL; the
\* two loopback modes are handled alike and stand as one.
HalMode == {"NORMAL_FD", "NORMAL_CLASSIC", "LISTEN_ONLY", "LOOPBACK"}
Op == {"PowerFull", "PowerOff", "Uninitialize", "SetMode", "SetFdMode",
       "SetBitrate"}

Init == /\ initialized = FALSE /\ powered = FALSE
        /\ fd_mode \in BOOLEAN            \* RTE_CANx_FD_MODE
        /\ mode = "NORMAL_FD"
        /\ rate \in Solvable              \* the RTE_CANx_ defaults
        /\ irq_priority \in {"ok", "bad"} \* RTE_CANx_IRQ_PRIORITY: bad is > 7
        /\ g_mode = "NONE" /\ node_initialized = FALSE
        /\ g_cb = "NULL" /\ g_isr_enabled = FALSE
        /\ line = FALSE /\ armed = FALSE
        /\ on = FALSE /\ reqop = "CONFIG" /\ opmod = "CONFIG"
        /\ hwrate = rate /\ hwbrs = FALSE
        /\ pc = "idle" /\ op = "PowerOff" /\ arg = "NORMAL_FD"
        /\ sent = "none"
        /\ failed = FALSE

NormalMode(fd) == IF fd THEN "NORMAL_FD" ELSE "NORMAL_CLASSIC"

----------------------------------------------------------------------------
(* The steps of a call.                                                    *)

At(p)   == pc = p
Goto(p) == pc' = p /\ UNCHANGED <<op, arg>>

\* A call begins; it makes HAL calls from step p on.
Begin(o, m, p) == /\ op' = o
                  /\ arg' = m
                  /\ pc' = p
                  /\ sent' = "none"

\* The call returns: PowerControl and Uninitialize then set the context flags,
\* PowerControl(FULL) only if it succeeded.  A can_apply_init that succeeds mends
\* what earlier failures have left; a SetBitrate does not.
Return(ok) ==
    /\ pc' = "idle" /\ UNCHANGED <<op, arg>>
    /\ powered' = CASE op = "PowerFull" -> ok
                    [] op \in {"PowerOff", "Uninitialize"} -> FALSE
                    [] OTHER -> powered
    /\ initialized' = (initialized /\ op # "Uninitialize")
    /\ failed' = CASE op \in {"PowerFull", "SetMode", "SetFdMode"} -> ~ok
                   [] op = "SetBitrate" -> failed \/ ~ok
                   [] OTHER -> failed

\* The end of can_apply_init records the mode it applied.
ReturnApplied == /\ mode' = arg
                 /\ Return(TRUE)
                 /\ UNCHANGED <<fd_mode, rate, irq_priority, sent>>

ReturnWith(ok) == /\ Return(ok)
                 /\ UNCHANGED <<fd_mode, mode, rate, irq_priority, sent>>

----------------------------------------------------------------------------
(* CAN_Initialize and the entries of the other calls.                      *)

\* It forgets that the driver was powered and leaves the HAL as it is.
Initialize ==
    /\ At("idle")
    /\ Reinit \/ ~powered
    /\ initialized' = TRUE
    /\ powered' = FALSE
    /\ UNCHANGED <<fd_mode, mode, rate, irq_priority, nodeVars, isrVars, hwVars,
                   callVars, sent, failed>>

PowerFull ==
    /\ At("idle") /\ initialized /\ ~powered
    /\ Begin("PowerFull", NormalMode(fd_mode), "ringreset")
    /\ UNCHANGED <<ctxVars, nodeVars, isrVars, hwVars, failed>>

PowerOff ==
    /\ At("idle") /\ initialized /\ powered
    /\ Begin("PowerOff", arg, "isroff")
    /\ UNCHANGED <<ctxVars, nodeVars, isrVars, hwVars, failed>>

Uninitialize ==
    /\ At("idle")
    /\ IF powered
         THEN Begin("Uninitialize", arg, "isroff") /\ UNCHANGED initialized
         ELSE initialized' = FALSE /\ UNCHANGED <<callVars, sent>>
    /\ UNCHANGED <<powered, fd_mode, mode, rate, irq_priority, nodeVars, isrVars,
                   hwVars, failed>>

\* The setting is cached before anything checks that it has a solution.
SetBitrate(r) ==
    /\ At("idle")
    /\ rate' = r
    /\ IF powered THEN Begin("SetBitrate", arg, "bitrate")
                  ELSE UNCHANGED <<callVars, sent>>
    /\ UNCHANGED <<initialized, powered, fd_mode, mode, irq_priority, nodeVars,
                   isrVars, hwVars, failed>>

\* An unknown ARM_CAN_BITRATE_SELECT with bit segments: the sample point has
\* been replaced by the time the call is refused.
SetBitrateBadSelect(r) ==
    /\ At("idle")
    /\ rate' = r
    /\ failed' = TRUE
    /\ UNCHANGED <<initialized, powered, fd_mode, mode, irq_priority, nodeVars,
                   isrVars, hwVars, callVars, sent>>

\* m is the HAL mode can_map_mode gives, NORMAL resolved by fd_mode.
SetMode(m) ==
    /\ At("idle") /\ initialized /\ powered
    /\ m \in {NormalMode(fd_mode), "LISTEN_ONLY", "LOOPBACK"}
    /\ m # mode
    /\ Begin("SetMode", m, "isroff")
    /\ UNCHANGED <<ctxVars, nodeVars, isrVars, hwVars, failed>>

\* Mutant: re-applied only in normal mode, the other modes being neither FD nor
\* classic.
BugFdModeUnapplied(fd) ==
    /\ At("idle") /\ initialized
    /\ fd_mode' = fd
    /\ IF powered /\ mode \in {"NORMAL_FD", "NORMAL_CLASSIC"}
         THEN Begin("SetFdMode", NormalMode(fd), "isroff")
         ELSE UNCHANGED <<callVars, sent>>
    /\ UNCHANGED <<initialized, powered, mode, rate, irq_priority, nodeVars,
                   isrVars, hwVars, failed>>

\* Mutant: the new setting is noted and waits for the next mode change.
BugFdModeNoted(fd) ==
    /\ At("idle") /\ initialized
    /\ fd_mode' = fd
    /\ UNCHANGED <<callVars, sent>>
    /\ UNCHANGED <<initialized, powered, mode, rate, irq_priority, nodeVars,
                   isrVars, hwVars, failed>>

SetFdMode(fd) ==
    /\ At("idle") /\ initialized
    /\ fd_mode' = fd
    /\ IF powered
         THEN Begin("SetFdMode",
                    IF mode \in {"NORMAL_FD", "NORMAL_CLASSIC"}
                      THEN NormalMode(fd) ELSE mode,
                    "isroff")
         ELSE UNCHANGED <<callVars, sent>>
    /\ UNCHANGED <<initialized, powered, mode, rate, irq_priority, nodeVars,
                   isrVars, hwVars, failed>>

\* CAN_MessageSend down to the commit in nora_canfd_transmit, for an FD frame
\* or not; the queue has room.  sent is what went into the queue.
MessageSend(edl) ==
    /\ At("idle")
    /\ powered
    /\ edl => fd_mode
    /\ node_initialized
    /\ sent' = IF edl THEN "fd" ELSE "classic"
    /\ UNCHANGED <<ctxVars, nodeVars, isrVars, hwVars, callVars, failed>>

----------------------------------------------------------------------------
(* nora_canfd_isr_disable and set_callback(NULL), then init or deinit.     *)

\* CAN_PowerControl(FULL): rx_head = rx_tail = 0, with the line still live if
\* the driver was initialized anew while powered.  What that does to the ring is
\* in RxRing.
RingReset ==
    /\ At("ringreset") /\ Goto("isroff")
    /\ UNCHANGED <<ctxVars, nodeVars, isrVars, hwVars, sent, failed>>

\* Mutants: the callback goes before the line; the flag tx_start asks stays.
BugCallbackFirst ==
    /\ At("isroff") /\ Goto("lineoff")
    /\ g_isr_enabled' = FALSE
    /\ g_cb' = "NULL"
    /\ UNCHANGED <<ctxVars, nodeVars, line, armed, hwVars, sent, failed>>
BugIsrFlagStays ==
    /\ At("isroff") /\ Goto("lineoff")
    /\ UNCHANGED <<ctxVars, nodeVars, isrVars, hwVars, sent, failed>>

IsrDisable ==
    /\ At("isroff") /\ Goto("lineoff")
    /\ g_isr_enabled' = FALSE
    /\ UNCHANGED <<ctxVars, nodeVars, g_cb, line, armed, hwVars, sent, failed>>

LineDisable ==
    /\ At("lineoff") /\ Goto("disarm")
    /\ line' = FALSE
    /\ UNCHANGED <<ctxVars, nodeVars, g_cb, g_isr_enabled, armed, hwVars, sent, failed>>

Disarm ==
    /\ At("disarm") /\ Goto("cboff")
    /\ armed' = FALSE
    /\ UNCHANGED <<ctxVars, nodeVars, g_cb, g_isr_enabled, line, hwVars, sent, failed>>

\* Off and Uninitialize go on to deinit, the others to init.
CallbackOff ==
    /\ At("cboff")
    /\ g_cb' = "NULL"
    /\ Goto(IF op \in {"PowerOff", "Uninitialize"} THEN "deinit" ELSE "calc")
    /\ UNCHANGED <<ctxVars, nodeVars, g_isr_enabled, line, armed, hwVars, sent, failed>>

----------------------------------------------------------------------------
(* nora_canfd_init.                                                        *)

\* An impossible bit timing is refused before anything is touched.
CalcFails ==
    /\ At("calc") /\ rate \notin Solvable
    /\ ReturnWith(FALSE)
    /\ UNCHANGED <<nodeVars, isrVars, hwVars>>

CalcOk ==
    /\ At("calc") /\ rate \in Solvable
    /\ Goto("setnone")
    /\ node_initialized' = FALSE
    /\ UNCHANGED <<ctxVars, g_mode, isrVars, hwVars, sent, failed>>

\* Mutant: the public mode is not invalidated up-front.
BugModeStays ==
    /\ At("setnone") /\ Goto("waitconfig")
    /\ on' = TRUE
    /\ reqop' = "CONFIG"
    /\ UNCHANGED <<ctxVars, nodeVars, isrVars, opmod, hwrate, hwbrs, sent, failed>>

\* set_mode(NONE), CON.ON, request_mode(CONFIG).
InitRequestConfig ==
    /\ At("setnone") /\ Goto("waitconfig")
    /\ g_mode' = "NONE"
    /\ on' = TRUE
    /\ reqop' = "CONFIG"
    /\ UNCHANGED <<ctxVars, node_initialized, isrVars, opmod, hwrate, hwbrs, sent,
                   failed>>

\* Timing, brs, and FIFOCON1 without its interrupt enables; then the mode.
InitConfigure ==
    /\ At("waitconfig") /\ opmod = "CONFIG"
    /\ Goto("waitmode")
    /\ hwrate' = rate
    /\ hwbrs' = fd_mode
    /\ armed' = FALSE
    /\ reqop' = arg
    /\ UNCHANGED <<ctxVars, nodeVars, g_cb, g_isr_enabled, line, on, opmod, sent,
                   failed>>

\* Mutants: a failed init leaves the module on; only its first wait times out.
BugTimeoutLeavesOn ==
    /\ HasTimeout
    /\ \/ At("waitconfig") /\ opmod # "CONFIG"
       \/ At("waitmode") /\ opmod # arg
    /\ ReturnWith(FALSE)
    /\ UNCHANGED <<nodeVars, isrVars, hwVars>>
BugNoSecondTimeout ==
    /\ HasTimeout
    /\ At("waitconfig") /\ opmod # "CONFIG"
    /\ on' = FALSE
    /\ ReturnWith(FALSE)
    /\ UNCHANGED <<nodeVars, isrVars, reqop, opmod, hwrate, hwbrs>>

InitTimeout ==
    /\ HasTimeout
    /\ \/ At("waitconfig") /\ opmod # "CONFIG"
       \/ At("waitmode") /\ opmod # arg
    /\ on' = FALSE
    /\ ReturnWith(FALSE)
    /\ UNCHANGED <<nodeVars, isrVars, reqop, opmod, hwrate, hwbrs>>

InitPublish ==
    /\ At("waitmode") /\ opmod = arg
    /\ Goto("setinit")
    /\ g_mode' = arg
    /\ UNCHANGED <<ctxVars, node_initialized, isrVars, hwVars, sent, failed>>

InitDone ==
    /\ At("setinit") /\ Goto("cbon")
    /\ node_initialized' = TRUE
    /\ UNCHANGED <<ctxVars, g_mode, isrVars, hwVars, sent, failed>>

----------------------------------------------------------------------------
(* The rest of can_apply_init: set_callback and nora_canfd_isr_enable.     *)

CallbackOn ==
    /\ At("cbon") /\ Goto("arm")
    /\ g_cb' = "can_hal_event"
    /\ UNCHANGED <<ctxVars, nodeVars, g_isr_enabled, line, armed, hwVars, sent, failed>>

\* Mutant: a refused isr_enable is not rolled back.
BugNoRollBack ==
    /\ At("arm")
    /\ irq_priority = "bad" \/ g_mode = "NONE"
    /\ g_cb' = "NULL"
    /\ ReturnWith(FALSE)
    /\ UNCHANGED <<nodeVars, g_isr_enabled, line, armed, hwVars>>

\* isr_enable refuses a priority above 7 and a node that is not initialized.
EnableFails ==
    /\ At("arm")
    /\ irq_priority = "bad" \/ g_mode = "NONE"
    /\ Goto("deinit")
    /\ g_cb' = "NULL"
    /\ UNCHANGED <<ctxVars, nodeVars, g_isr_enabled, line, armed, hwVars, sent, failed>>

Arm ==
    /\ At("arm")
    /\ irq_priority = "ok" /\ g_mode # "NONE"
    /\ Goto("lineon")
    /\ armed' = TRUE
    /\ UNCHANGED <<ctxVars, nodeVars, g_cb, g_isr_enabled, line, hwVars, sent, failed>>

LineEnable ==
    /\ At("lineon") /\ Goto("enabled")
    /\ line' = TRUE
    /\ UNCHANGED <<ctxVars, nodeVars, g_cb, g_isr_enabled, armed, hwVars, sent, failed>>

Enabled ==
    /\ At("enabled")
    /\ g_isr_enabled' = TRUE
    /\ ReturnApplied
    /\ UNCHANGED <<nodeVars, g_cb, line, armed, hwVars>>

----------------------------------------------------------------------------
(* nora_canfd_deinit, of PowerControl(OFF), Uninitialize and the roll-back *)
(* of can_apply_init, whose error stands; for the other two, Return makes  *)
(* no difference between success and failure.                              *)

DeinitNothing ==
    /\ At("deinit") /\ g_mode = "NONE"
    /\ node_initialized' = FALSE
    /\ ReturnWith(FALSE)
    /\ UNCHANGED <<g_mode, isrVars, hwVars>>

DeinitRequest ==
    /\ At("deinit") /\ g_mode # "NONE"
    /\ Goto("waitoff")
    /\ reqop' = "CONFIG"
    /\ UNCHANGED <<ctxVars, nodeVars, isrVars, on, opmod, hwrate, hwbrs, sent, failed>>

DeinitOff ==
    /\ At("waitoff")
    /\ opmod = "CONFIG" \/ HasTimeout
    /\ Goto("unmark")
    /\ on' = FALSE
    /\ UNCHANGED <<ctxVars, nodeVars, isrVars, reqop, opmod, hwrate, hwbrs, sent, failed>>

DeinitUnmark ==
    /\ At("unmark") /\ Goto("unmode")
    /\ node_initialized' = FALSE
    /\ UNCHANGED <<ctxVars, g_mode, isrVars, hwVars, sent, failed>>

DeinitDone ==
    /\ At("unmode")
    /\ g_mode' = "NONE"
    /\ ReturnWith(FALSE)
    /\ UNCHANGED <<node_initialized, isrVars, hwVars>>

----------------------------------------------------------------------------
(* nora_canfd_set_bitrate; the event layer stays on.                       *)

BitrateRefused ==
    /\ At("bitrate")
    /\ ~node_initialized \/ rate \notin Solvable
    /\ ReturnWith(FALSE)
    /\ UNCHANGED <<nodeVars, isrVars, hwVars>>

\* Mutant: the node need not be initialized.
BugBitrateUnasked ==
    /\ At("bitrate") /\ rate \in Solvable
    /\ Goto("bitratewait")
    /\ reqop' = "CONFIG"
    /\ UNCHANGED <<ctxVars, nodeVars, isrVars, on, opmod, hwrate, hwbrs, sent, failed>>

BitrateRequestConfig ==
    /\ At("bitrate")
    /\ node_initialized /\ rate \in Solvable
    /\ Goto("bitratewait")
    /\ reqop' = "CONFIG"
    /\ UNCHANGED <<ctxVars, nodeVars, isrVars, on, opmod, hwrate, hwbrs, sent, failed>>

BitrateWrite ==
    /\ At("bitratewait") /\ opmod = "CONFIG"
    /\ Goto("bitrateback")
    /\ hwrate' = rate
    /\ reqop' = g_mode
    /\ UNCHANGED <<ctxVars, nodeVars, isrVars, on, opmod, hwbrs, sent, failed>>

\* REQOP is left as the failed request wrote it.
BitrateTimeout ==
    /\ HasTimeout
    /\ \/ At("bitratewait") /\ opmod # "CONFIG"
       \/ At("bitrateback") /\ opmod # g_mode
    /\ ReturnWith(FALSE)
    /\ UNCHANGED <<nodeVars, isrVars, hwVars>>

BitrateRestored ==
    /\ At("bitrateback") /\ opmod = g_mode
    /\ ReturnWith(TRUE)
    /\ UNCHANGED <<nodeVars, isrVars, hwVars>>

----------------------------------------------------------------------------
(* The module: OPMOD follows REQOP, in its own time, while the module is   *)
(* on; switched off it may fall back to configuration mode.                *)

ModeFollows ==
    /\ on /\ opmod # reqop
    /\ opmod' = reqop
    /\ UNCHANGED <<ctxVars, nodeVars, isrVars, on, reqop, hwrate, hwbrs, callVars,
                   sent, failed>>

ModuleReset ==
    /\ ~on /\ opmod # "CONFIG"
    /\ opmod' = "CONFIG"
    /\ UNCHANGED <<ctxVars, nodeVars, isrVars, on, reqop, hwrate, hwbrs, callVars,
                   sent, failed>>

App == \/ Initialize \/ PowerFull \/ PowerOff \/ Uninitialize
       \/ \E r \in Rate : SetBitrate(r) \/ SetBitrateBadSelect(r)
       \/ \E m \in HalMode : SetMode(m)
       \/ \E b \in BOOLEAN : SetFdMode(b) \/ MessageSend(b)

Quiesce == RingReset \/ IsrDisable \/ LineDisable \/ Disarm \/ CallbackOff
HalInit == \/ CalcFails \/ CalcOk \/ InitRequestConfig \/ InitConfigure
           \/ InitTimeout \/ InitPublish \/ InitDone
Enable  == CallbackOn \/ EnableFails \/ Arm \/ LineEnable \/ Enabled
Deinit  == DeinitNothing \/ DeinitRequest \/ DeinitOff \/ DeinitUnmark \/ DeinitDone
Bitrate == \/ BitrateRefused \/ BitrateRequestConfig \/ BitrateWrite
           \/ BitrateTimeout \/ BitrateRestored
Call    == Quiesce \/ HalInit \/ Enable \/ Deinit \/ Bitrate
Module  == ModeFollows \/ ModuleReset

Next == App \/ Call \/ Module

\* The thread that makes a call runs it on; a mode change is not owed.
Spec == Init /\ [][Next]_vars /\ WF_vars(Call)

----------------------------------------------------------------------------
ContextTypeOK == /\ initialized \in BOOLEAN
                 /\ powered \in BOOLEAN
                 /\ fd_mode \in BOOLEAN
                 /\ mode \in HalMode
                 /\ rate \in Rate
                 /\ irq_priority \in {"ok", "bad"}

HalTypeOK == /\ g_mode \in HalMode \cup {"NONE"}
             /\ node_initialized \in BOOLEAN
             /\ g_cb \in {"NULL", "can_hal_event"}
             /\ g_isr_enabled \in BOOLEAN
             /\ line \in BOOLEAN
             /\ armed \in BOOLEAN

ModuleTypeOK == /\ on \in BOOLEAN
                /\ reqop \in HalMode \cup {"CONFIG"}
                /\ opmod \in HalMode \cup {"CONFIG"}
                /\ hwrate \in Rate
                /\ hwbrs \in BOOLEAN

CallTypeOK ==
    /\ pc \in {"idle", "ringreset", "isroff", "lineoff", "disarm", "cboff",
              "calc", "setnone", "waitconfig", "waitmode", "setinit", "cbon",
              "arm", "lineon", "enabled", "deinit", "waitoff", "unmark",
              "unmode", "bitrate", "bitratewait", "bitrateback"}
    /\ op \in Op
    /\ arg \in HalMode
    /\ sent \in {"none", "classic", "fd"}
    /\ failed \in BOOLEAN

TypeOK == ContextTypeOK /\ HalTypeOK /\ ModuleTypeOK /\ CallTypeOK

\* Wherever the thread is preempted, an interrupt finds the driver's callback
\* and an initialized node: the level-sensitive receive interrupt is always
\* drained and so never fires without end.
HandlerServed == line => /\ g_cb = "can_hal_event"
                         /\ node_initialized

\* g_isr_enabled, the flag nora_canfd_tx_start goes by, is set only while the
\* receive line and the receive sources are enabled: at no point of isr_enable,
\* isr_disable, init or deinit would a tx_start that tests the flag there be let
\* through to an event layer that is down.  It says nothing of an isr_disable
\* that comes after the test; TxPath has that one.
AsyncTxGated == g_isr_enabled => line /\ armed

\* The two records of "initialized" never contradict each other where the
\* handler can see them, and agree whenever no call is in progress, also
\* after an init that failed half way.  The mode in the context may then be that
\* of a node which is gone, but never another than the one a node runs in.
PublicStateAgrees == /\ node_initialized => g_mode # "NONE"
                     /\ pc = "idle" => (node_initialized <=> g_mode # "NONE")
                     /\ pc = "idle" /\ powered => g_mode \in {mode, "NONE"}

\* No call, failed ones included, leaves the module on without a node that
\* deinit would take down, or a node on a module that is off.
OnIffInitialized == pc = "idle" => (on <=> node_initialized)

\* A powered driver runs as the context says, events on, mode and bit rate
\* applied, FD frames possible exactly if fd_mode says so, unless a configuration
\* call has reported an error; and the next PowerControl(FULL), mode change or
\* SET_FD_MODE that succeeds makes good whatever such calls have left behind,
\* settings cached unchecked and a module stuck on its way included.
LiveUnlessReported ==
    pc = "idle" /\ powered /\ ~failed =>
        /\ line /\ armed /\ g_isr_enabled /\ on
        /\ g_mode = mode /\ reqop = mode /\ opmod = mode
        /\ hwrate = rate /\ hwbrs = fd_mode
        /\ mode \in {"NORMAL_FD", "NORMAL_CLASSIC"} => mode = NormalMode(fd_mode)

\* A driver that is not powered, or not initialized, has no interrupt, no
\* callback and no module running, whatever failed before.
OffIsDown ==
    pc = "idle" /\ ~(powered /\ initialized) =>
        ~line /\ ~armed /\ g_cb = "NULL" /\ ~node_initialized /\ ~on

\* Every call returns, although the module may refuse a mode for ever.
CallReturns == pc # "idle" ~> pc = "idle"

\* The comment on the context's mode, "HAL operating mode currently applied".
ModeIsApplied == pc = "idle" /\ powered => g_mode = mode

\* The docs on Uninitialize: it is nora_canfd_deinit.
UninitializeIsDeinit ==
    [][initialized /\ ~initialized' => g_mode' = "NONE" /\ ~line']_vars

\* No FD frame reaches a module in classic mode, unless the last configuration call
\* to apply the settings has failed or a SetBitrate since: fd_mode, which
\* MessageSend goes by, and the mode applied agree whenever a message can be sent.
FdFramesInFdMode ==
    [][sent' = "fd" /\ sent' # sent /\ ~failed => g_mode # "NORMAL_CLASSIC"]_vars
=============================================================================

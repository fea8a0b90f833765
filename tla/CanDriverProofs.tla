--------------------------- MODULE CanDriverProofs ---------------------------
(***************************************************************************)
(* Proofs about CanDriver, for every set of settings, with and without a   *)
(* timeout, and (but for the last section) with and without an application *)
(* that initializes a powered driver again.                                *)
(***************************************************************************)
EXTENDS CanDriver, TLAPS

----------------------------------------------------------------------------
(* The inductive invariant, by what a preempting interrupt can observe at  *)
(* each point of a call.                                                   *)

\* From LineDisable to LineEnable.
Quiesced == {"disarm", "cboff", "calc", "setnone", "waitconfig", "waitmode",
             "setinit", "cbon", "arm", "lineon", "deinit", "waitoff", "unmark",
             "unmode"}

EventLayer ==
    /\ pc \in Quiesced => ~line
    /\ pc \in Quiesced \cup {"lineoff", "enabled"} => ~g_isr_enabled
    /\ pc \in {"lineon", "enabled"} => armed
    /\ pc = "enabled" => line
    /\ pc \in {"arm", "lineon", "enabled"} => g_cb = "can_hal_event"
    /\ pc \in {"calc", "setnone", "waitconfig", "waitmode", "setinit", "cbon",
              "deinit", "waitoff", "unmark", "unmode"} => g_cb = "NULL" /\ ~armed
    /\ pc \in {"cboff", "arm"} => ~armed

NodeLayer ==
    /\ pc \in {"cbon", "arm", "lineon", "enabled"} => g_mode = arg
    /\ pc \in {"setnone", "waitconfig", "waitmode", "setinit", "unmode"} =>
           ~node_initialized
    /\ pc \in {"waitconfig", "waitmode"} => g_mode = "NONE"
    /\ pc = "setinit" => g_mode = arg
    /\ pc \in {"waitoff", "unmark", "unmode"} => g_mode # "NONE"
    /\ pc \notin {"setnone", "setinit", "unmode"} =>
           (node_initialized <=> g_mode # "NONE")
    /\ pc \in {"bitratewait", "bitrateback"} => node_initialized

ModuleOn ==
    /\ pc \in {"waitconfig", "waitmode", "setinit"} => on
    /\ pc \in {"unmark", "unmode"} => ~on
    /\ pc \notin {"setnone", "waitconfig", "waitmode", "setinit", "unmark"} =>
           (on <=> node_initialized)

IInv == /\ TypeOK
        /\ HandlerServed
        /\ AsyncTxGated
        /\ EventLayer
        /\ NodeLayer
        /\ ModuleOn

\* Before the first call everything is down, which is one of the allowed states.
LEMMA InitIInv == Init => IInv
BY DriverAssumption DEF Init, IInv, TypeOK, ContextTypeOK, HalTypeOK,
   ModuleTypeOK, CallTypeOK, Op, HalMode, HandlerServed,
   AsyncTxGated, EventLayer, NodeLayer, ModuleOn, Quiesced

\* No step leaves the types of the context's fields.
LEMMA StepContextTypeOK ==
  ASSUME ContextTypeOK, CallTypeOK, [Next]_vars
  PROVE  ContextTypeOK'
<1> USE DEF ContextTypeOK, CallTypeOK, HalMode
<1>1. CASE Initialize
  BY <1>1 DEF Initialize, At, nodeVars, isrVars, hwVars, callVars
<1>2. CASE PowerFull
  BY <1>2 DEF PowerFull, At, Begin, NormalMode, ctxVars, nodeVars, isrVars,
     hwVars
<1>3. CASE PowerOff
  BY <1>3 DEF PowerOff, At, Begin, ctxVars, nodeVars, isrVars, hwVars
<1>4. CASE Uninitialize
  BY <1>4 DEF Uninitialize, At, Begin, nodeVars, isrVars, hwVars, callVars
<1>5. CASE Quiesce
  BY <1>5 DEF Quiesce, RingReset, IsrDisable, LineDisable, Disarm,
     CallbackOff, At, Goto, ctxVars, nodeVars, isrVars, hwVars
<1>6. CASE HalInit
  BY <1>6 DEF HalInit, CalcFails, CalcOk, InitRequestConfig, InitConfigure,
     InitTimeout, InitPublish, InitDone, Return, At, ReturnWith, nodeVars,
     isrVars, hwVars, Goto, ctxVars
<1>7. CASE Enable
  BY <1>7 DEF Enable, CallbackOn, EnableFails, Arm, LineEnable, Enabled, At,
     Goto, ctxVars, nodeVars, hwVars, Return, ReturnApplied
<1>8. CASE Deinit
  <2>1. CASE DeinitNothing
    BY <2>1 DEF DeinitNothing, Return, At, ReturnWith, isrVars, hwVars
  <2>2. CASE DeinitRequest
    BY <2>2 DEF DeinitRequest, At, Goto, ctxVars, nodeVars, isrVars
  <2>3. CASE DeinitOff
    BY <2>3 DEF DeinitOff, At, Goto, ctxVars, nodeVars, isrVars
  <2>4. CASE DeinitUnmark
    BY <2>4 DEF DeinitUnmark, At, Goto, ctxVars, isrVars, hwVars
  <2>5. CASE DeinitDone
    BY <2>5 DEF DeinitDone, Return, At, ReturnWith, isrVars, hwVars
  <2> QED
    BY <1>8, <2>1, <2>2, <2>3, <2>4, <2>5 DEF Deinit
<1>9. CASE Bitrate
  <2>1. CASE BitrateRefused
    BY <2>1 DEF BitrateRefused, Return, At, ReturnWith, nodeVars, isrVars,
       hwVars
  <2>2. CASE BitrateRequestConfig
    BY <2>2 DEF BitrateRequestConfig, At, Goto, ctxVars, nodeVars, isrVars
  <2>3. CASE BitrateWrite
    BY <2>3 DEF BitrateWrite, At, Goto, ctxVars, nodeVars, isrVars
  <2>4. CASE BitrateTimeout
    BY <2>4 DEF BitrateTimeout, Return, At, ReturnWith, nodeVars, isrVars,
       hwVars
  <2>5. CASE BitrateRestored
    BY <2>5 DEF BitrateRestored, Return, At, ReturnWith, nodeVars, isrVars,
       hwVars
  <2> QED
    BY <1>9, <2>1, <2>2, <2>3, <2>4, <2>5 DEF Bitrate
<1>10. CASE Module
  BY <1>10 DEF Module, ModeFollows, ModuleReset, ctxVars, nodeVars, isrVars,
     callVars
<1>11. ASSUME NEW r \in Rate, SetBitrate(r) PROVE ContextTypeOK'
  BY <1>11 DEF SetBitrate, At, Begin, nodeVars, isrVars, hwVars, callVars
<1>12. ASSUME NEW r \in Rate, SetBitrateBadSelect(r) PROVE ContextTypeOK'
  BY <1>12 DEF SetBitrateBadSelect, At, nodeVars, isrVars, hwVars, callVars
<1>13. ASSUME NEW m \in HalMode, SetMode(m) PROVE ContextTypeOK'
  BY <1>13 DEF SetMode, At, Begin, NormalMode, ctxVars, nodeVars, isrVars,
     hwVars
<1>14. ASSUME NEW b \in BOOLEAN, SetFdMode(b) PROVE ContextTypeOK'
  BY <1>14 DEF SetFdMode, At, Begin, NormalMode, nodeVars, isrVars, hwVars,
     callVars
<1>15. ASSUME NEW b \in BOOLEAN, MessageSend(b) PROVE ContextTypeOK'
  BY <1>15 DEF MessageSend, At, ctxVars, nodeVars, isrVars, hwVars, callVars
<1>16. CASE UNCHANGED vars
  BY <1>16 DEF vars, ctxVars, nodeVars, isrVars, hwVars, callVars
<1> QED
  BY <1>1, <1>2, <1>3, <1>4, <1>5, <1>6, <1>7, <1>8, <1>9, <1>10, <1>11,
     <1>12, <1>13, <1>14, <1>15, <1>16 DEF Next, App, Call

\* No step leaves the types of the HAL's state.
LEMMA StepHalTypeOK ==
  ASSUME HalTypeOK, CallTypeOK, [Next]_vars
  PROVE  HalTypeOK'
<1> USE DEF HalTypeOK, CallTypeOK, HalMode
<1>1. CASE Initialize
  BY <1>1 DEF Initialize, At, nodeVars, isrVars, hwVars, callVars
<1>2. CASE PowerFull
  BY <1>2 DEF PowerFull, At, Begin, NormalMode, ctxVars, nodeVars, isrVars,
     hwVars
<1>3. CASE PowerOff
  BY <1>3 DEF PowerOff, At, Begin, ctxVars, nodeVars, isrVars, hwVars
<1>4. CASE Uninitialize
  BY <1>4 DEF Uninitialize, At, Begin, nodeVars, isrVars, hwVars, callVars
<1>5. CASE Quiesce
  BY <1>5 DEF Quiesce, RingReset, IsrDisable, LineDisable, Disarm,
     CallbackOff, At, Goto, ctxVars, nodeVars, isrVars, hwVars
<1>6. CASE HalInit
  BY <1>6 DEF HalInit, CalcFails, CalcOk, InitRequestConfig, InitConfigure,
     InitTimeout, InitPublish, InitDone, Return, At, ReturnWith, nodeVars,
     isrVars, hwVars, Goto, ctxVars
<1>7. CASE Enable
  BY <1>7 DEF Enable, CallbackOn, EnableFails, Arm, LineEnable, Enabled, At,
     Goto, ctxVars, nodeVars, hwVars, Return, ReturnApplied
<1>8. CASE Deinit
  BY <1>8 DEF Deinit, DeinitNothing, DeinitRequest, DeinitOff, DeinitUnmark,
     DeinitDone, Return, At, ReturnWith, isrVars, hwVars, Goto, ctxVars,
     nodeVars
<1>9. CASE Bitrate
  BY <1>9 DEF Bitrate, BitrateRefused, BitrateRequestConfig, BitrateWrite,
     BitrateTimeout, BitrateRestored, Return, At, ReturnWith, nodeVars,
     isrVars, hwVars, Goto, ctxVars
<1>10. CASE Module
  BY <1>10 DEF Module, ModeFollows, ModuleReset, ctxVars, nodeVars, isrVars,
     callVars
<1>11. ASSUME NEW r \in Rate, SetBitrate(r) PROVE HalTypeOK'
  BY <1>11 DEF SetBitrate, At, Begin, nodeVars, isrVars, hwVars, callVars
<1>12. ASSUME NEW r \in Rate, SetBitrateBadSelect(r) PROVE HalTypeOK'
  BY <1>12 DEF SetBitrateBadSelect, At, nodeVars, isrVars, hwVars, callVars
<1>13. ASSUME NEW m \in HalMode, SetMode(m) PROVE HalTypeOK'
  BY <1>13 DEF SetMode, At, Begin, NormalMode, ctxVars, nodeVars, isrVars,
     hwVars
<1>14. ASSUME NEW b \in BOOLEAN, SetFdMode(b) PROVE HalTypeOK'
  BY <1>14 DEF SetFdMode, At, Begin, NormalMode, nodeVars, isrVars, hwVars,
     callVars
<1>15. ASSUME NEW b \in BOOLEAN, MessageSend(b) PROVE HalTypeOK'
  BY <1>15 DEF MessageSend, At, ctxVars, nodeVars, isrVars, hwVars, callVars
<1>16. CASE UNCHANGED vars
  BY <1>16 DEF vars, ctxVars, nodeVars, isrVars, hwVars, callVars
<1> QED
  BY <1>1, <1>2, <1>3, <1>4, <1>5, <1>6, <1>7, <1>8, <1>9, <1>10, <1>11,
     <1>12, <1>13, <1>14, <1>15, <1>16 DEF Next, App, Call

\* No step leaves the types of the module's registers.
LEMMA StepModuleTypeOK ==
  ASSUME ModuleTypeOK, HalTypeOK, ContextTypeOK, CallTypeOK, NodeLayer, [Next]_vars
  PROVE  ModuleTypeOK'
<1> USE DriverAssumption DEF NodeLayer, ModuleTypeOK, CallTypeOK,
      ContextTypeOK, HalTypeOK, HalMode
<1>1. CASE Initialize
  BY <1>1 DEF Initialize, At, nodeVars, isrVars, hwVars, callVars
<1>2. CASE PowerFull
  BY <1>2 DEF PowerFull, At, Begin, NormalMode, ctxVars, nodeVars, isrVars,
     hwVars
<1>3. CASE PowerOff
  BY <1>3 DEF PowerOff, At, Begin, ctxVars, nodeVars, isrVars, hwVars
<1>4. CASE Uninitialize
  BY <1>4 DEF Uninitialize, At, Begin, nodeVars, isrVars, hwVars, callVars
<1>5. CASE Quiesce
  BY <1>5 DEF Quiesce, RingReset, IsrDisable, LineDisable, Disarm,
     CallbackOff, At, Goto, ctxVars, nodeVars, isrVars, hwVars
<1>6. CASE HalInit
  <2>1. CASE CalcFails
    BY <2>1 DEF CalcFails, Return, At, ReturnWith, nodeVars, isrVars, hwVars
  <2>2. CASE CalcOk
    BY <2>2 DEF CalcOk, At, Goto, ctxVars, isrVars, hwVars
  <2>3. CASE InitRequestConfig
    BY <2>3 DEF InitRequestConfig, At, Goto, ctxVars, isrVars
  <2>4. CASE InitConfigure
    BY <2>4 DEF InitConfigure, At, Goto, ctxVars, nodeVars
  <2>5. CASE InitTimeout
    BY <2>5 DEF InitTimeout, Return, At, ReturnWith, nodeVars, isrVars
  <2>6. CASE InitPublish
    BY <2>6 DEF InitPublish, At, Goto, ctxVars, isrVars, hwVars
  <2>7. CASE InitDone
    BY <2>7 DEF InitDone, At, Goto, ctxVars, isrVars, hwVars
  <2> QED
    BY <1>6, <2>1, <2>2, <2>3, <2>4, <2>5, <2>6, <2>7 DEF HalInit
<1>7. CASE Enable
  BY <1>7 DEF Enable, CallbackOn, EnableFails, Arm, LineEnable, Enabled, At,
     Goto, ctxVars, nodeVars, hwVars, Return, ReturnApplied
<1>8. CASE Deinit
  <2>1. CASE DeinitNothing
    BY <2>1 DEF DeinitNothing, Return, At, ReturnWith, isrVars, hwVars
  <2>2. CASE DeinitRequest
    BY <2>2 DEF DeinitRequest, At, Goto, ctxVars, nodeVars, isrVars
  <2>3. CASE DeinitOff
    BY <2>3 DEF DeinitOff, At, Goto, ctxVars, nodeVars, isrVars
  <2>4. CASE DeinitUnmark
    BY <2>4 DEF DeinitUnmark, At, Goto, ctxVars, isrVars, hwVars
  <2>5. CASE DeinitDone
    BY <2>5 DEF DeinitDone, Return, At, ReturnWith, isrVars, hwVars
  <2> QED
    BY <1>8, <2>1, <2>2, <2>3, <2>4, <2>5 DEF Deinit
<1>9. CASE Bitrate
  <2>1. CASE BitrateRefused
    BY <2>1 DEF BitrateRefused, Return, At, ReturnWith, nodeVars, isrVars,
       hwVars
  <2>2. CASE BitrateRequestConfig
    BY <2>2 DEF BitrateRequestConfig, At, Goto, ctxVars, nodeVars, isrVars
  <2>3. CASE BitrateWrite
    BY <2>3 DEF BitrateWrite, At, Goto, ctxVars, nodeVars, isrVars
  <2>4. CASE BitrateTimeout
    BY <2>4 DEF BitrateTimeout, Return, At, ReturnWith, nodeVars, isrVars,
       hwVars
  <2>5. CASE BitrateRestored
    BY <2>5 DEF BitrateRestored, Return, At, ReturnWith, nodeVars, isrVars,
       hwVars
  <2> QED
    BY <1>9, <2>1, <2>2, <2>3, <2>4, <2>5 DEF Bitrate
<1>10. CASE Module
  BY <1>10 DEF Module, ModeFollows, ModuleReset, ctxVars, nodeVars, isrVars,
     callVars
<1>11. ASSUME NEW r \in Rate, SetBitrate(r) PROVE ModuleTypeOK'
  BY <1>11 DEF SetBitrate, At, Begin, nodeVars, isrVars, hwVars, callVars
<1>12. ASSUME NEW r \in Rate, SetBitrateBadSelect(r) PROVE ModuleTypeOK'
  BY <1>12 DEF SetBitrateBadSelect, At, nodeVars, isrVars, hwVars, callVars
<1>13. ASSUME NEW m \in HalMode, SetMode(m) PROVE ModuleTypeOK'
  BY <1>13 DEF SetMode, At, Begin, NormalMode, ctxVars, nodeVars, isrVars,
     hwVars
<1>14. ASSUME NEW b \in BOOLEAN, SetFdMode(b) PROVE ModuleTypeOK'
  BY <1>14 DEF SetFdMode, At, Begin, NormalMode, nodeVars, isrVars, hwVars,
     callVars
<1>15. ASSUME NEW b \in BOOLEAN, MessageSend(b) PROVE ModuleTypeOK'
  BY <1>15 DEF MessageSend, At, ctxVars, nodeVars, isrVars, hwVars, callVars
<1>16. CASE UNCHANGED vars
  BY <1>16 DEF vars, ctxVars, nodeVars, isrVars, hwVars, callVars
<1> QED
  BY <1>1, <1>2, <1>3, <1>4, <1>5, <1>6, <1>7, <1>8, <1>9, <1>10, <1>11,
     <1>12, <1>13, <1>14, <1>15, <1>16 DEF Next, App, Call

\* No step leaves the types of the call in progress.
LEMMA StepCallTypeOK ==
  ASSUME ContextTypeOK, CallTypeOK, [Next]_vars
  PROVE  CallTypeOK'
<1> USE DEF CallTypeOK, ContextTypeOK, HalMode, Op
<1>1. CASE Initialize
  BY <1>1 DEF Initialize, At, nodeVars, isrVars, hwVars, callVars
<1>2. CASE PowerFull
  BY <1>2 DEF PowerFull, At, Begin, NormalMode, ctxVars, nodeVars, isrVars,
     hwVars
<1>3. CASE PowerOff
  BY <1>3 DEF PowerOff, At, Begin, ctxVars, nodeVars, isrVars, hwVars
<1>4. CASE Uninitialize
  BY <1>4 DEF Uninitialize, At, Begin, nodeVars, isrVars, hwVars, callVars
<1>5. CASE Quiesce
  BY <1>5 DEF Quiesce, RingReset, IsrDisable, LineDisable, Disarm,
     CallbackOff, At, Goto, ctxVars, nodeVars, isrVars, hwVars
<1>6. CASE HalInit
  BY <1>6 DEF HalInit, CalcFails, CalcOk, InitRequestConfig, InitConfigure,
     InitTimeout, InitPublish, InitDone, Return, At, ReturnWith, nodeVars,
     isrVars, hwVars, Goto, ctxVars
<1>7. CASE Enable
  BY <1>7 DEF Enable, CallbackOn, EnableFails, Arm, LineEnable, Enabled, At,
     Goto, ctxVars, nodeVars, hwVars, Return, ReturnApplied
<1>8. CASE Deinit
  BY <1>8 DEF Deinit, DeinitNothing, DeinitRequest, DeinitOff, DeinitUnmark,
     DeinitDone, Return, At, ReturnWith, isrVars, hwVars, Goto, ctxVars,
     nodeVars
<1>9. CASE Bitrate
  BY <1>9 DEF Bitrate, BitrateRefused, BitrateRequestConfig, BitrateWrite,
     BitrateTimeout, BitrateRestored, Return, At, ReturnWith, nodeVars,
     isrVars, hwVars, Goto, ctxVars
<1>10. CASE Module
  BY <1>10 DEF Module, ModeFollows, ModuleReset, ctxVars, nodeVars, isrVars,
     callVars
<1>11. ASSUME NEW r \in Rate, SetBitrate(r) PROVE CallTypeOK'
  BY <1>11 DEF SetBitrate, At, Begin, nodeVars, isrVars, hwVars, callVars
<1>12. ASSUME NEW r \in Rate, SetBitrateBadSelect(r) PROVE CallTypeOK'
  BY <1>12 DEF SetBitrateBadSelect, At, nodeVars, isrVars, hwVars, callVars
<1>13. ASSUME NEW m \in HalMode, SetMode(m) PROVE CallTypeOK'
  BY <1>13 DEF SetMode, At, Begin, NormalMode, ctxVars, nodeVars, isrVars,
     hwVars
<1>14. ASSUME NEW b \in BOOLEAN, SetFdMode(b) PROVE CallTypeOK'
  BY <1>14 DEF SetFdMode, At, Begin, NormalMode, nodeVars, isrVars, hwVars,
     callVars
<1>15. ASSUME NEW b \in BOOLEAN, MessageSend(b) PROVE CallTypeOK'
  BY <1>15 DEF MessageSend, At, ctxVars, nodeVars, isrVars, hwVars, callVars
<1>16. CASE UNCHANGED vars
  BY <1>16 DEF vars, ctxVars, nodeVars, isrVars, hwVars, callVars
<1> QED
  BY <1>1, <1>2, <1>3, <1>4, <1>5, <1>6, <1>7, <1>8, <1>9, <1>10, <1>11,
     <1>12, <1>13, <1>14, <1>15, <1>16 DEF Next, App, Call

\* Every step keeps what the node layer promises at each place of a call.
LEMMA StepNode ==
  ASSUME TypeOK, NodeLayer, ModuleOn, [Next]_vars
  PROVE  (NodeLayer /\ ModuleOn)'
<1> USE DEF TypeOK, ContextTypeOK, HalTypeOK, ModuleTypeOK, CallTypeOK,
      HalMode, NodeLayer, ModuleOn
<1>1. CASE Initialize
  BY <1>1 DEF Initialize, At, nodeVars, isrVars, hwVars, callVars
<1>2. CASE PowerFull
  BY <1>2 DEF PowerFull, At, Begin, NormalMode, ctxVars, nodeVars, isrVars,
     hwVars
<1>3. CASE PowerOff
  BY <1>3 DEF PowerOff, At, Begin, ctxVars, nodeVars, isrVars, hwVars
<1>4. CASE Uninitialize
  BY <1>4 DEF Uninitialize, At, Begin, nodeVars, isrVars, hwVars, callVars
<1>5. CASE Quiesce
  BY <1>5 DEF Quiesce, RingReset, IsrDisable, LineDisable, Disarm,
     CallbackOff, At, Goto, ctxVars, nodeVars, isrVars, hwVars
<1>6. CASE HalInit
  <2>1. CASE CalcFails
    BY <2>1 DEF CalcFails, Return, At, ReturnWith, nodeVars, isrVars, hwVars
  <2>2. CASE CalcOk
    BY <2>2 DEF CalcOk, At, Goto, ctxVars, isrVars, hwVars
  <2>3. CASE InitRequestConfig
    BY <2>3 DEF InitRequestConfig, At, Goto, ctxVars, isrVars
  <2>4. CASE InitConfigure
    BY <2>4 DEF InitConfigure, At, Goto, ctxVars, nodeVars
  <2>5. CASE InitTimeout
    BY <2>5 DEF InitTimeout, Return, At, ReturnWith, nodeVars, isrVars
  <2>6. CASE InitPublish
    BY <2>6 DEF InitPublish, At, Goto, ctxVars, isrVars, hwVars
  <2>7. CASE InitDone
    BY <2>7 DEF InitDone, At, Goto, ctxVars, isrVars, hwVars
  <2> QED
    BY <1>6, <2>1, <2>2, <2>3, <2>4, <2>5, <2>6, <2>7 DEF HalInit
<1>7. CASE Enable
  BY <1>7 DEF Enable, CallbackOn, EnableFails, Arm, LineEnable, Enabled, At,
     Goto, ctxVars, nodeVars, hwVars, Return, ReturnApplied
<1>8. CASE Deinit
  <2>1. CASE DeinitNothing
    BY <2>1 DEF DeinitNothing, Return, At, ReturnWith, isrVars, hwVars
  <2>2. CASE DeinitRequest
    BY <2>2 DEF DeinitRequest, At, Goto, ctxVars, nodeVars, isrVars
  <2>3. CASE DeinitOff
    BY <2>3 DEF DeinitOff, At, Goto, ctxVars, nodeVars, isrVars
  <2>4. CASE DeinitUnmark
    BY <2>4 DEF DeinitUnmark, At, Goto, ctxVars, isrVars, hwVars
  <2>5. CASE DeinitDone
    BY <2>5 DEF DeinitDone, Return, At, ReturnWith, isrVars, hwVars
  <2> QED
    BY <1>8, <2>1, <2>2, <2>3, <2>4, <2>5 DEF Deinit
<1>9. CASE Bitrate
  <2>1. CASE BitrateRefused
    BY <2>1 DEF BitrateRefused, Return, At, ReturnWith, nodeVars, isrVars,
       hwVars
  <2>2. CASE BitrateRequestConfig
    BY <2>2 DEF BitrateRequestConfig, At, Goto, ctxVars, nodeVars, isrVars
  <2>3. CASE BitrateWrite
    BY <2>3 DEF BitrateWrite, At, Goto, ctxVars, nodeVars, isrVars
  <2>4. CASE BitrateTimeout
    BY <2>4 DEF BitrateTimeout, Return, At, ReturnWith, nodeVars, isrVars,
       hwVars
  <2>5. CASE BitrateRestored
    BY <2>5 DEF BitrateRestored, Return, At, ReturnWith, nodeVars, isrVars,
       hwVars
  <2> QED
    BY <1>9, <2>1, <2>2, <2>3, <2>4, <2>5 DEF Bitrate
<1>10. CASE Module
  BY <1>10 DEF Module, ModeFollows, ModuleReset, ctxVars, nodeVars, isrVars,
     callVars
<1>11. ASSUME NEW r \in Rate, SetBitrate(r) PROVE (NodeLayer /\ ModuleOn)'
  BY <1>11 DEF SetBitrate, At, Begin, nodeVars, isrVars, hwVars, callVars
<1>12. ASSUME NEW r \in Rate, SetBitrateBadSelect(r) PROVE (NodeLayer /\ ModuleOn)'
  BY <1>12 DEF SetBitrateBadSelect, At, nodeVars, isrVars, hwVars, callVars
<1>13. ASSUME NEW m \in HalMode, SetMode(m) PROVE (NodeLayer /\ ModuleOn)'
  BY <1>13 DEF SetMode, At, Begin, NormalMode, ctxVars, nodeVars, isrVars,
     hwVars
<1>14. ASSUME NEW b \in BOOLEAN, SetFdMode(b) PROVE (NodeLayer /\ ModuleOn)'
  BY <1>14 DEF SetFdMode, At, Begin, NormalMode, nodeVars, isrVars, hwVars,
     callVars
<1>15. ASSUME NEW b \in BOOLEAN, MessageSend(b) PROVE (NodeLayer /\ ModuleOn)'
  BY <1>15 DEF MessageSend, At, ctxVars, nodeVars, isrVars, hwVars, callVars
<1>16. CASE UNCHANGED vars
  BY <1>16 DEF vars, ctxVars, nodeVars, isrVars, hwVars, callVars
<1> QED
  BY <1>1, <1>2, <1>3, <1>4, <1>5, <1>6, <1>7, <1>8, <1>9, <1>10, <1>11,
     <1>12, <1>13, <1>14, <1>15, <1>16 DEF Next, App, Call

\* Every step keeps what the event layer promises at each place of a call.
LEMMA StepEvent ==
  ASSUME IInv, [Next]_vars
  PROVE  (EventLayer /\ HandlerServed /\ AsyncTxGated)'
<1> USE DEF IInv, TypeOK, ContextTypeOK, HalTypeOK, ModuleTypeOK, CallTypeOK,
      EventLayer, Quiesced, HandlerServed, AsyncTxGated, NodeLayer, HalMode
<1>1. CASE Initialize
  BY <1>1 DEF Initialize, At, nodeVars, isrVars, hwVars, callVars
<1>2. CASE PowerFull
  BY <1>2 DEF PowerFull, At, Begin, NormalMode, ctxVars, nodeVars, isrVars,
     hwVars
<1>3. CASE PowerOff
  BY <1>3 DEF PowerOff, At, Begin, ctxVars, nodeVars, isrVars, hwVars
<1>4. CASE Uninitialize
  BY <1>4 DEF Uninitialize, At, Begin, nodeVars, isrVars, hwVars, callVars
<1>5. CASE Quiesce
  BY <1>5 DEF Quiesce, RingReset, IsrDisable, LineDisable, Disarm,
     CallbackOff, At, Goto, ctxVars, nodeVars, isrVars, hwVars
<1>6. CASE HalInit
  <2>1. CASE CalcFails
    BY <2>1 DEF CalcFails, Return, At, ReturnWith, nodeVars, isrVars, hwVars
  <2>2. CASE CalcOk
    BY <2>2 DEF CalcOk, At, Goto, ctxVars, isrVars, hwVars
  <2>3. CASE InitRequestConfig
    BY <2>3 DEF InitRequestConfig, At, Goto, ctxVars, isrVars
  <2>4. CASE InitConfigure
    BY <2>4 DEF InitConfigure, At, Goto, ctxVars, nodeVars
  <2>5. CASE InitTimeout
    BY <2>5 DEF InitTimeout, Return, At, ReturnWith, nodeVars, isrVars
  <2>6. CASE InitPublish
    BY <2>6 DEF InitPublish, At, Goto, ctxVars, isrVars, hwVars
  <2>7. CASE InitDone
    BY <2>7 DEF InitDone, At, Goto, ctxVars, isrVars, hwVars
  <2> QED
    BY <1>6, <2>1, <2>2, <2>3, <2>4, <2>5, <2>6, <2>7 DEF HalInit
<1>7. CASE Enable
  <2>1. CASE CallbackOn
    BY <2>1 DEF CallbackOn, At, Goto, ctxVars, nodeVars, hwVars
  <2>2. CASE EnableFails
    BY <2>2 DEF EnableFails, At, Goto, ctxVars, nodeVars, hwVars
  <2>3. CASE Arm
    BY <2>3 DEF Arm, At, Goto, ctxVars, nodeVars, hwVars
  <2>4. CASE LineEnable
    <3>1. node_initialized /\ g_cb = "can_hal_event" /\ armed
      BY <2>4 DEF LineEnable, At
    <3> QED
      BY <2>4, <3>1 DEF LineEnable, At, Goto, ctxVars, nodeVars, hwVars
  <2>5. CASE Enabled
    BY <2>5 DEF Enabled, Return, At, ReturnApplied, nodeVars, hwVars
  <2> QED
    BY <1>7, <2>1, <2>2, <2>3, <2>4, <2>5 DEF Enable
<1>8. CASE Deinit
  <2>1. CASE DeinitNothing
    BY <2>1 DEF DeinitNothing, Return, At, ReturnWith, isrVars, hwVars
  <2>2. CASE DeinitRequest
    BY <2>2 DEF DeinitRequest, At, Goto, ctxVars, nodeVars, isrVars
  <2>3. CASE DeinitOff
    BY <2>3 DEF DeinitOff, At, Goto, ctxVars, nodeVars, isrVars
  <2>4. CASE DeinitUnmark
    BY <2>4 DEF DeinitUnmark, At, Goto, ctxVars, isrVars, hwVars
  <2>5. CASE DeinitDone
    BY <2>5 DEF DeinitDone, Return, At, ReturnWith, isrVars, hwVars
  <2> QED
    BY <1>8, <2>1, <2>2, <2>3, <2>4, <2>5 DEF Deinit
<1>9. CASE Bitrate
  <2>1. CASE BitrateRefused
    BY <2>1 DEF BitrateRefused, Return, At, ReturnWith, nodeVars, isrVars,
       hwVars
  <2>2. CASE BitrateRequestConfig
    BY <2>2 DEF BitrateRequestConfig, At, Goto, ctxVars, nodeVars, isrVars
  <2>3. CASE BitrateWrite
    BY <2>3 DEF BitrateWrite, At, Goto, ctxVars, nodeVars, isrVars
  <2>4. CASE BitrateTimeout
    BY <2>4 DEF BitrateTimeout, Return, At, ReturnWith, nodeVars, isrVars,
       hwVars
  <2>5. CASE BitrateRestored
    BY <2>5 DEF BitrateRestored, Return, At, ReturnWith, nodeVars, isrVars,
       hwVars
  <2> QED
    BY <1>9, <2>1, <2>2, <2>3, <2>4, <2>5 DEF Bitrate
<1>10. CASE Module
  BY <1>10 DEF Module, ModeFollows, ModuleReset, ctxVars, nodeVars, isrVars,
     callVars
<1>11. ASSUME NEW r \in Rate, SetBitrate(r) PROVE (EventLayer /\ HandlerServed /\ AsyncTxGated)'
  BY <1>11 DEF SetBitrate, At, Begin, nodeVars, isrVars, hwVars, callVars
<1>12. ASSUME NEW r \in Rate, SetBitrateBadSelect(r) PROVE (EventLayer /\ HandlerServed /\ AsyncTxGated)'
  BY <1>12 DEF SetBitrateBadSelect, At, nodeVars, isrVars, hwVars, callVars
<1>13. ASSUME NEW m \in HalMode, SetMode(m) PROVE (EventLayer /\ HandlerServed /\ AsyncTxGated)'
  BY <1>13 DEF SetMode, At, Begin, NormalMode, ctxVars, nodeVars, isrVars,
     hwVars
<1>14. ASSUME NEW b \in BOOLEAN, SetFdMode(b) PROVE (EventLayer /\ HandlerServed /\ AsyncTxGated)'
  BY <1>14 DEF SetFdMode, At, Begin, NormalMode, nodeVars, isrVars, hwVars,
     callVars
<1>15. ASSUME NEW b \in BOOLEAN, MessageSend(b) PROVE (EventLayer /\ HandlerServed /\ AsyncTxGated)'
  BY <1>15 DEF MessageSend, At, ctxVars, nodeVars, isrVars, hwVars, callVars
<1>16. CASE UNCHANGED vars
  BY <1>16 DEF vars, ctxVars, nodeVars, isrVars, hwVars, callVars
<1> QED
  BY <1>1, <1>2, <1>3, <1>4, <1>5, <1>6, <1>7, <1>8, <1>9, <1>10, <1>11,
     <1>12, <1>13, <1>14, <1>15, <1>16 DEF Next, App, Call

\* For every set of settings, with and without timeouts: the invariant holds
\* wherever an interrupt may preempt a call.
THEOREM DriverInvariant == Spec => []IInv
<1>1. IInv /\ [Next]_vars => IInv'
  <2> SUFFICES ASSUME IInv, [Next]_vars PROVE IInv'
    OBVIOUS
  <2>1. TypeOK'
    BY StepContextTypeOK, StepHalTypeOK, StepModuleTypeOK, StepCallTypeOK
       DEF IInv, TypeOK
  <2>2. (NodeLayer /\ ModuleOn)'
    BY StepNode DEF IInv
  <2>3. (EventLayer /\ HandlerServed /\ AsyncTxGated)'
    BY StepEvent
  <2> QED
    BY <2>1, <2>2, <2>3 DEF IInv
<1> QED
  BY <1>1, InitIInv, PTL DEF Spec

\* Every variable of driver, HAL and module keeps its type; in particular the
\* mode requested of the module is always one the driver knows.
THEOREM DriverTypeAlwaysOK == Spec => []TypeOK
<1>1. IInv => TypeOK
  BY DEF IInv
<1> QED BY <1>1, DriverInvariant, PTL

\* The interrupt line is never enabled without the driver's callback and an
\* initialized node, at whatever step of Initialize, PowerControl, SetMode,
\* SET_FD_MODE or SetBitrate the interrupt arrives.
THEOREM HandlerAlwaysServed == Spec => []HandlerServed
<1>1. IInv => HandlerServed
  BY DEF IInv
<1> QED BY <1>1, DriverInvariant, PTL

\* The flag nora_canfd_tx_start tests is set only while line and sources are on.
THEOREM AsyncTxAlwaysGated == Spec => []AsyncTxGated
<1>1. IInv => AsyncTxGated
  BY DEF IInv
<1> QED BY <1>1, DriverInvariant, PTL

\* isr_enable, the last HAL call of can_apply_init, finds the event layer disabled
\* in every part, whatever was called before.
EnabledFromDisabled == pc \in {"cbon", "arm"} => ~g_isr_enabled /\ ~line /\ ~armed

\* So it never runs on an event layer that is on: what TxPath takes as the guard
\* of its IsrEnable.
THEOREM AlwaysEnabledFromDisabled == Spec => []EnabledFromDisabled
<1>1. IInv => EnabledFromDisabled
  BY DEF IInv, EventLayer, Quiesced, EnabledFromDisabled
<1> QED BY <1>1, DriverInvariant, PTL

\* No sequence of calls and failures leaves CON.ON and the node apart.
THEOREM OnAlwaysIffInitialized == Spec => []OnIffInitialized
<1>1. IInv => OnIffInitialized
  BY DEF IInv, ModuleOn, OnIffInitialized
<1> QED BY <1>1, DriverInvariant, PTL

----------------------------------------------------------------------------
(* The safety half of "every call returns".                                *)

\* How many steps a call has left at most; the mode handshakes are the waits.
Left(p) ==
    CASE p = "idle" -> 0        [] p = "unmode" -> 1     [] p = "unmark" -> 2
      [] p = "waitoff" -> 3     [] p = "deinit" -> 4     [] p = "enabled" -> 1
      [] p = "lineon" -> 2      [] p = "arm" -> 5        [] p = "cbon" -> 6
      [] p = "setinit" -> 7     [] p = "waitmode" -> 8   [] p = "waitconfig" -> 9
      [] p = "setnone" -> 10    [] p = "calc" -> 11      [] p = "cboff" -> 12
      [] p = "disarm" -> 13     [] p = "lineoff" -> 14   [] p = "isroff" -> 15
      [] p = "ringreset" -> 16  [] p = "bitrateback" -> 1
      [] p = "bitratewait" -> 2 [] p = "bitrate" -> 3

\* While a call runs nothing begins another one, the module does not touch it, and
\* each of its own steps, a failed wait and the roll-back too, brings its return
\* closer.
CallAdvances == pc # "idle" => \/ Module /\ UNCHANGED callVars
                               \/ Call /\ Left(pc') < Left(pc)

\* No call of the driver loops: but for the two waits for OPMOD it is at most 16
\* steps long.  CallReturns adds that each step is taken at last.
THEOREM CallsAlwaysAdvance == Spec => [][CallAdvances]_vars
<1>1. ASSUME Next, pc # "idle" PROVE CallAdvances
  <2>1. Call \/ Module
    BY <1>1 DEF Next, App, At, Initialize, PowerFull, PowerOff, Uninitialize,
       SetBitrate, SetBitrateBadSelect, SetMode, SetFdMode, MessageSend
  <2>2. CASE Module
    BY <2>2 DEF CallAdvances, Module, ModeFollows, ModuleReset
  <2>3. CASE Quiesce
    <3>1. \/ pc = "ringreset" /\ pc' = "isroff"
          \/ pc = "isroff" /\ pc' = "lineoff"
          \/ pc = "lineoff" /\ pc' = "disarm"
          \/ pc = "disarm" /\ pc' = "cboff"
          \/ pc = "cboff" /\ pc' \in {"deinit", "calc"}
      BY <2>3 DEF Quiesce, RingReset, IsrDisable, LineDisable, Disarm, CallbackOff, At, Goto
    <3> QED BY <2>3, <3>1 DEF CallAdvances, Call, Left
  <2>4. CASE HalInit
    <3>1. \/ pc = "calc" /\ pc' \in {"idle", "setnone"}
          \/ pc = "setnone" /\ pc' = "waitconfig"
          \/ pc = "waitconfig" /\ pc' \in {"waitmode", "idle"}
          \/ pc = "waitmode" /\ pc' \in {"idle", "setinit"}
          \/ pc = "setinit" /\ pc' = "cbon"
      BY <2>4 DEF HalInit, CalcFails, CalcOk, InitRequestConfig, InitConfigure,
           InitTimeout, InitPublish, InitDone, At, Goto, ReturnWith, Return
    <3> QED BY <2>4, <3>1 DEF CallAdvances, Call, Left
  <2>5. CASE Enable
    <3>1. \/ pc = "cbon" /\ pc' = "arm"
          \/ pc = "arm" /\ pc' \in {"deinit", "lineon"}
          \/ pc = "lineon" /\ pc' = "enabled"
          \/ pc = "enabled" /\ pc' = "idle"
      BY <2>5 DEF Enable, CallbackOn, EnableFails, Arm, LineEnable, Enabled, At,
           Goto, ReturnApplied, Return
    <3> QED BY <2>5, <3>1 DEF CallAdvances, Call, Left
  <2>6. CASE Deinit
    <3>1. \/ pc = "deinit" /\ pc' \in {"idle", "waitoff"}
          \/ pc = "waitoff" /\ pc' = "unmark"
          \/ pc = "unmark" /\ pc' = "unmode"
          \/ pc = "unmode" /\ pc' = "idle"
      BY <2>6 DEF Deinit, DeinitNothing, DeinitRequest, DeinitOff, DeinitUnmark,
           DeinitDone, At, Goto, ReturnWith, Return
    <3> QED BY <2>6, <3>1 DEF CallAdvances, Call, Left
  <2>7. CASE Bitrate
    <3>1. \/ pc = "bitrate" /\ pc' \in {"idle", "bitratewait"}
          \/ pc = "bitratewait" /\ pc' \in {"bitrateback", "idle"}
          \/ pc = "bitrateback" /\ pc' = "idle"
      BY <2>7 DEF Bitrate, BitrateRefused, BitrateRequestConfig, BitrateWrite,
           BitrateTimeout, BitrateRestored, At, Goto, ReturnWith, Return
    <3> QED BY <2>7, <3>1 DEF CallAdvances, Call, Left
  <2> QED BY <2>1, <2>2, <2>3, <2>4, <2>5, <2>6, <2>7 DEF Call
<1>2. [Next]_vars => [CallAdvances]_vars
  BY <1>1 DEF CallAdvances
<1> QED BY <1>2, PTL DEF Spec

----------------------------------------------------------------------------
(* What a configuration call that reported no error has achieved.          *)

Fits(m) == m \in {"NORMAL_FD", "NORMAL_CLASSIC"} => m = NormalMode(fd_mode)

Running == /\ line /\ armed /\ g_isr_enabled /\ on
           /\ g_mode = mode
           /\ hwbrs = fd_mode
           /\ Fits(mode)

Applying == {"calc", "setnone", "waitconfig", "waitmode", "setinit", "cbon",
             "arm", "lineon", "enabled"}

LiveInv ==
    /\ LiveUnlessReported
    /\ pc \in {"bitrate", "bitratewait", "bitrateback"} =>
           op = "SetBitrate" /\ powered /\ (~failed => Running)
    /\ pc = "bitrateback" => reqop = g_mode /\ hwrate = rate
    /\ pc \in {"ringreset", "isroff", "lineoff", "disarm", "cboff"} =>
           op # "SetBitrate"
    /\ pc \in Applying => op \in {"PowerFull", "SetMode", "SetFdMode"}
    /\ pc # "idle" /\ op \in {"PowerFull", "SetMode", "SetFdMode"} => Fits(arg)
    /\ pc \in {"waitmode", "setinit", "cbon", "arm", "lineon", "enabled"} =>
           hwrate = rate /\ hwbrs = fd_mode /\ reqop = arg
    /\ pc \in {"setinit", "cbon", "arm", "lineon", "enabled"} => opmod = arg

\* Every step keeps a driver live whose calls reported no error.
LEMMA StepLive ==
  ASSUME IInv, LiveInv, [Next]_vars
  PROVE  LiveInv'
<1> USE DEF IInv, TypeOK, ContextTypeOK, HalTypeOK, ModuleTypeOK, CallTypeOK,
      HalMode, Op, EventLayer, NodeLayer, ModuleOn, Quiesced, LiveInv,
      LiveUnlessReported, Running, Applying, Fits, NormalMode
<1>1. CASE Initialize
  BY <1>1 DEF Initialize, At, nodeVars, isrVars, hwVars, callVars
<1>2. CASE PowerFull
  BY <1>2 DEF PowerFull, At, Begin, NormalMode, ctxVars, nodeVars, isrVars,
     hwVars
<1>3. CASE PowerOff
  BY <1>3 DEF PowerOff, At, Begin, ctxVars, nodeVars, isrVars, hwVars
<1>4. CASE Uninitialize
  BY <1>4 DEF Uninitialize, At, Begin, nodeVars, isrVars, hwVars, callVars
<1>5. CASE Quiesce
  BY <1>5 DEF Quiesce, RingReset, IsrDisable, LineDisable, Disarm,
     CallbackOff, At, Goto, ctxVars, nodeVars, isrVars, hwVars
<1>6. CASE HalInit
  <2>1. CASE CalcFails
    BY <2>1 DEF CalcFails, Return, At, ReturnWith, nodeVars, isrVars, hwVars
  <2>2. CASE CalcOk
    BY <2>2 DEF CalcOk, At, Goto, ctxVars, isrVars, hwVars
  <2>3. CASE InitRequestConfig
    BY <2>3 DEF InitRequestConfig, At, Goto, ctxVars, isrVars
  <2>4. CASE InitConfigure
    BY <2>4 DEF InitConfigure, At, Goto, ctxVars, nodeVars
  <2>5. CASE InitTimeout
    BY <2>5 DEF InitTimeout, Return, At, ReturnWith, nodeVars, isrVars
  <2>6. CASE InitPublish
    BY <2>6 DEF InitPublish, At, Goto, ctxVars, isrVars, hwVars
  <2>7. CASE InitDone
    BY <2>7 DEF InitDone, At, Goto, ctxVars, isrVars, hwVars
  <2> QED
    BY <1>6, <2>1, <2>2, <2>3, <2>4, <2>5, <2>6, <2>7 DEF HalInit
<1>7. CASE Enable
  <2>1. CASE CallbackOn
    BY <2>1 DEF CallbackOn, At, Goto, ctxVars, nodeVars, hwVars
  <2>2. CASE EnableFails
    BY <2>2 DEF EnableFails, At, Goto, ctxVars, nodeVars, hwVars
  <2>3. CASE Arm
    BY <2>3 DEF Arm, At, Goto, ctxVars, nodeVars, hwVars
  <2>4. CASE LineEnable
    <3>1. node_initialized /\ g_cb = "can_hal_event" /\ armed
      BY <2>4 DEF LineEnable, At
    <3> QED
      BY <2>4, <3>1 DEF LineEnable, At, Goto, ctxVars, nodeVars, hwVars
  <2>5. CASE Enabled
    BY <2>5 DEF Enabled, Return, At, ReturnApplied, nodeVars, hwVars
  <2> QED
    BY <1>7, <2>1, <2>2, <2>3, <2>4, <2>5 DEF Enable
<1>8. CASE Deinit
  <2>1. CASE DeinitNothing
    BY <2>1 DEF DeinitNothing, Return, At, ReturnWith, isrVars, hwVars
  <2>2. CASE DeinitRequest
    BY <2>2 DEF DeinitRequest, At, Goto, ctxVars, nodeVars, isrVars
  <2>3. CASE DeinitOff
    BY <2>3 DEF DeinitOff, At, Goto, ctxVars, nodeVars, isrVars
  <2>4. CASE DeinitUnmark
    BY <2>4 DEF DeinitUnmark, At, Goto, ctxVars, isrVars, hwVars
  <2>5. CASE DeinitDone
    BY <2>5 DEF DeinitDone, Return, At, ReturnWith, isrVars, hwVars
  <2> QED
    BY <1>8, <2>1, <2>2, <2>3, <2>4, <2>5 DEF Deinit
<1>9. CASE Bitrate
  <2>1. CASE BitrateRefused
    BY <2>1 DEF BitrateRefused, Return, At, ReturnWith, nodeVars, isrVars,
       hwVars
  <2>2. CASE BitrateRequestConfig
    BY <2>2 DEF BitrateRequestConfig, At, Goto, ctxVars, nodeVars, isrVars
  <2>3. CASE BitrateWrite
    BY <2>3 DEF BitrateWrite, At, Goto, ctxVars, nodeVars, isrVars
  <2>4. CASE BitrateTimeout
    BY <2>4 DEF BitrateTimeout, Return, At, ReturnWith, nodeVars, isrVars,
       hwVars
  <2>5. CASE BitrateRestored
    BY <2>5 DEF BitrateRestored, Return, At, ReturnWith, nodeVars, isrVars,
       hwVars
  <2> QED
    BY <1>9, <2>1, <2>2, <2>3, <2>4, <2>5 DEF Bitrate
<1>10. CASE Module
  BY <1>10 DEF Module, ModeFollows, ModuleReset, ctxVars, nodeVars, isrVars,
     callVars
<1>11. ASSUME NEW r \in Rate, SetBitrate(r) PROVE LiveInv'
  BY <1>11 DEF SetBitrate, At, Begin, nodeVars, isrVars, hwVars, callVars
<1>12. ASSUME NEW r \in Rate, SetBitrateBadSelect(r) PROVE LiveInv'
  BY <1>12 DEF SetBitrateBadSelect, At, nodeVars, isrVars, hwVars, callVars
<1>13. ASSUME NEW m \in HalMode, SetMode(m) PROVE LiveInv'
  BY <1>13 DEF SetMode, At, Begin, NormalMode, ctxVars, nodeVars, isrVars,
     hwVars
<1>14. ASSUME NEW b \in BOOLEAN, SetFdMode(b) PROVE LiveInv'
  BY <1>14 DEF SetFdMode, At, Begin, NormalMode, nodeVars, isrVars, hwVars,
     callVars
<1>15. ASSUME NEW b \in BOOLEAN, MessageSend(b) PROVE LiveInv'
  BY <1>15 DEF MessageSend, At, ctxVars, nodeVars, isrVars, hwVars, callVars
<1>16. CASE UNCHANGED vars
  BY <1>16 DEF vars, ctxVars, nodeVars, isrVars, hwVars, callVars
<1> QED
  BY <1>1, <1>2, <1>3, <1>4, <1>5, <1>6, <1>7, <1>8, <1>9, <1>10, <1>11,
     <1>12, <1>13, <1>14, <1>15, <1>16 DEF Next, App, Call

\* A powered driver is live in the mode, bit rate and FD setting the context names,
\* unless a configuration call has failed since they were last applied as a whole:
\* a re-apply that succeeds mends whatever failed before it.
THEOREM AlwaysLiveUnlessReported == Spec => []LiveUnlessReported
<1>1. Init => LiveInv
  BY DEF Init, LiveInv, LiveUnlessReported, Applying
<1>2. IInv /\ LiveInv /\ [Next]_vars => LiveInv'
  BY StepLive
<1>3. LiveInv => LiveUnlessReported
  BY DEF LiveInv
<1> QED BY <1>1, <1>2, <1>3, DriverInvariant, PTL DEF Spec

\* No frame of CAN FD goes to a module in classic mode, unless a configuration call
\* has failed since the settings were last applied as a whole.
THEOREM FdFramesAlwaysInFdMode == Spec => FdFramesInFdMode
<1> DEFINE Ok == sent' = "fd" /\ sent' # sent /\ ~failed => g_mode # "NORMAL_CLASSIC"
<1>1. Init => LiveInv
  BY DEF Init, LiveInv, LiveUnlessReported, Applying
<1>2. IInv /\ LiveInv /\ [Next]_vars => LiveInv'
  BY StepLive
<1>3. ASSUME IInv, LiveInv, [Next]_vars PROVE [Ok]_vars
  <2>1. ASSUME NEW b \in BOOLEAN, MessageSend(b) PROVE Ok
    BY <1>3, <2>1 DEF MessageSend, At, LiveInv, LiveUnlessReported, NormalMode
  <2>2. ASSUME sent' \in {sent, "none"} PROVE Ok
    BY <2>2
  <2>3. ASSUME Next, \A b \in BOOLEAN : ~MessageSend(b)
        PROVE  sent' \in {sent, "none"}
    <3>1. CASE App
      BY <2>3, <3>1
         DEF App, Begin, Initialize, PowerFull, PowerOff, Uninitialize, SetBitrate,
             SetBitrateBadSelect, SetMode, SetFdMode
    <3>2. CASE Quiesce
      BY <3>2 DEF Quiesce, RingReset, IsrDisable, LineDisable, Disarm, CallbackOff
    <3>3. CASE HalInit
      BY <3>3
         DEF HalInit, ReturnWith, CalcFails, CalcOk, InitRequestConfig, InitConfigure,
             InitTimeout, InitPublish, InitDone
    <3>4. CASE Enable
      BY <3>4
         DEF Enable, ReturnApplied, CallbackOn, EnableFails, Arm, LineEnable, Enabled
    <3>5. CASE Deinit
      BY <3>5
         DEF Deinit, ReturnWith, DeinitNothing, DeinitRequest, DeinitOff, DeinitUnmark,
             DeinitDone
    <3>6. CASE Bitrate
      BY <3>6
         DEF Bitrate, ReturnWith, BitrateRefused, BitrateRequestConfig, BitrateWrite,
             BitrateTimeout, BitrateRestored
    <3>7. CASE Module
      BY <3>7 DEF Module, ModeFollows, ModuleReset
    <3> QED BY <2>3, <3>1, <3>2, <3>3, <3>4, <3>5, <3>6, <3>7 DEF Next, Call
  <2> QED BY <1>3, <2>1, <2>2, <2>3
<1> QED BY <1>1, <1>2, <1>3, DriverInvariant, PTL DEF Spec, FdFramesInFdMode

----------------------------------------------------------------------------
(* What the context says of the mode, also after calls that failed.        *)

\* A node runs in the mode of the context, but from the point where init has made
\* it public to the end of the call or of its roll-back.
ModeInv ==
    /\ powered /\ pc \notin {"setinit", "cbon", "arm", "lineon", "enabled",
                              "deinit", "waitoff", "unmark", "unmode"} =>
           g_mode \in {mode, "NONE"}
    /\ pc \in {"bitrate", "bitratewait", "bitrateback"} => op = "SetBitrate"

\* Every step keeps the mode of the context that of a node which runs.
LEMMA StepMode ==
  ASSUME IInv, LiveInv, ModeInv, [Next]_vars
  PROVE  ModeInv'
<1> USE DEF IInv, TypeOK, ContextTypeOK, HalTypeOK, ModuleTypeOK, CallTypeOK,
      HalMode, Op, NodeLayer, LiveInv, Applying, ModeInv
<1>1. CASE Initialize
  BY <1>1 DEF Initialize, At, nodeVars, isrVars, hwVars, callVars
<1>2. CASE PowerFull
  BY <1>2 DEF PowerFull, At, Begin, NormalMode, ctxVars, nodeVars, isrVars,
     hwVars
<1>3. CASE PowerOff
  BY <1>3 DEF PowerOff, At, Begin, ctxVars, nodeVars, isrVars, hwVars
<1>4. CASE Uninitialize
  BY <1>4 DEF Uninitialize, At, Begin, nodeVars, isrVars, hwVars, callVars
<1>5. CASE Quiesce
  BY <1>5 DEF Quiesce, RingReset, IsrDisable, LineDisable, Disarm,
     CallbackOff, At, Goto, ctxVars, nodeVars, isrVars, hwVars
<1>6. CASE HalInit
  <2>1. CASE CalcFails
    BY <2>1 DEF CalcFails, Return, At, ReturnWith, nodeVars, isrVars, hwVars
  <2>2. CASE CalcOk
    BY <2>2 DEF CalcOk, At, Goto, ctxVars, isrVars, hwVars
  <2>3. CASE InitRequestConfig
    BY <2>3 DEF InitRequestConfig, At, Goto, ctxVars, isrVars
  <2>4. CASE InitConfigure
    BY <2>4 DEF InitConfigure, At, Goto, ctxVars, nodeVars
  <2>5. CASE InitTimeout
    BY <2>5 DEF InitTimeout, Return, At, ReturnWith, nodeVars, isrVars
  <2>6. CASE InitPublish
    BY <2>6 DEF InitPublish, At, Goto, ctxVars, isrVars, hwVars
  <2>7. CASE InitDone
    BY <2>7 DEF InitDone, At, Goto, ctxVars, isrVars, hwVars
  <2> QED
    BY <1>6, <2>1, <2>2, <2>3, <2>4, <2>5, <2>6, <2>7 DEF HalInit
<1>7. CASE Enable
  <2>1. CASE CallbackOn
    BY <2>1 DEF CallbackOn, At, Goto, ctxVars, nodeVars, hwVars
  <2>2. CASE EnableFails
    BY <2>2 DEF EnableFails, At, Goto, ctxVars, nodeVars, hwVars
  <2>3. CASE Arm
    BY <2>3 DEF Arm, At, Goto, ctxVars, nodeVars, hwVars
  <2>4. CASE LineEnable
    BY <2>4 DEF LineEnable, At, Goto, ctxVars, nodeVars, hwVars
  <2>5. CASE Enabled
    BY <2>5 DEF Enabled, Return, At, ReturnApplied, nodeVars, hwVars
  <2> QED
    BY <1>7, <2>1, <2>2, <2>3, <2>4, <2>5 DEF Enable
<1>8. CASE Deinit
  <2>1. CASE DeinitNothing
    BY <2>1 DEF DeinitNothing, Return, At, ReturnWith, isrVars, hwVars
  <2>2. CASE DeinitRequest
    BY <2>2 DEF DeinitRequest, At, Goto, ctxVars, nodeVars, isrVars
  <2>3. CASE DeinitOff
    BY <2>3 DEF DeinitOff, At, Goto, ctxVars, nodeVars, isrVars
  <2>4. CASE DeinitUnmark
    BY <2>4 DEF DeinitUnmark, At, Goto, ctxVars, isrVars, hwVars
  <2>5. CASE DeinitDone
    BY <2>5 DEF DeinitDone, Return, At, ReturnWith, isrVars, hwVars
  <2> QED
    BY <1>8, <2>1, <2>2, <2>3, <2>4, <2>5 DEF Deinit
<1>9. CASE Bitrate
  <2>1. CASE BitrateRefused
    BY <2>1 DEF BitrateRefused, Return, At, ReturnWith, nodeVars, isrVars,
       hwVars
  <2>2. CASE BitrateRequestConfig
    BY <2>2 DEF BitrateRequestConfig, At, Goto, ctxVars, nodeVars, isrVars
  <2>3. CASE BitrateWrite
    BY <2>3 DEF BitrateWrite, At, Goto, ctxVars, nodeVars, isrVars
  <2>4. CASE BitrateTimeout
    BY <2>4 DEF BitrateTimeout, Return, At, ReturnWith, nodeVars, isrVars,
       hwVars
  <2>5. CASE BitrateRestored
    BY <2>5 DEF BitrateRestored, Return, At, ReturnWith, nodeVars, isrVars,
       hwVars
  <2> QED
    BY <1>9, <2>1, <2>2, <2>3, <2>4, <2>5 DEF Bitrate
<1>10. CASE Module
  BY <1>10 DEF Module, ModeFollows, ModuleReset, ctxVars, nodeVars, isrVars,
     callVars
<1>11. ASSUME NEW r \in Rate, SetBitrate(r) PROVE ModeInv'
  BY <1>11 DEF SetBitrate, At, Begin, nodeVars, isrVars, hwVars, callVars
<1>12. ASSUME NEW r \in Rate, SetBitrateBadSelect(r) PROVE ModeInv'
  BY <1>12 DEF SetBitrateBadSelect, At, nodeVars, isrVars, hwVars, callVars
<1>13. ASSUME NEW m \in HalMode, SetMode(m) PROVE ModeInv'
  BY <1>13 DEF SetMode, At, Begin, NormalMode, ctxVars, nodeVars, isrVars,
     hwVars
<1>14. ASSUME NEW b \in BOOLEAN, SetFdMode(b) PROVE ModeInv'
  BY <1>14 DEF SetFdMode, At, Begin, NormalMode, nodeVars, isrVars, hwVars,
     callVars
<1>15. ASSUME NEW b \in BOOLEAN, MessageSend(b) PROVE ModeInv'
  BY <1>15 DEF MessageSend, At, ctxVars, nodeVars, isrVars, hwVars, callVars
<1>16. CASE UNCHANGED vars
  BY <1>16 DEF vars, ctxVars, nodeVars, isrVars, hwVars, callVars
<1> QED
  BY <1>1, <1>2, <1>3, <1>4, <1>5, <1>6, <1>7, <1>8, <1>9, <1>10, <1>11,
     <1>12, <1>13, <1>14, <1>15, <1>16 DEF Next, App, Call

\* g_mode and g_node agree, whatever init, deinit or re-init failed half way, and
\* a mode in the context that was not applied is that of no node.
THEOREM PublicStateAlwaysAgrees == Spec => []PublicStateAgrees
<1>1. Init => LiveInv /\ ModeInv
  BY DEF Init, LiveInv, LiveUnlessReported, Applying, ModeInv
<1>2. IInv /\ LiveInv /\ ModeInv /\ [Next]_vars => LiveInv' /\ ModeInv'
  BY StepLive, StepMode
<1>3. IInv /\ ModeInv => PublicStateAgrees
  BY DEF IInv, NodeLayer, ModeInv, PublicStateAgrees
<1> QED BY <1>1, <1>2, <1>3, DriverInvariant, PTL DEF Spec

----------------------------------------------------------------------------
(* What is left of a driver that is not powered, if Initialize is never    *)
(* called on a powered one.                                                *)

Down == ~line /\ ~armed /\ g_cb = "NULL" /\ ~node_initialized /\ ~on

OffInv ==
    /\ powered => initialized
    /\ OffIsDown
    /\ pc # "idle" /\ op = "PowerFull" => initialized /\ ~powered
    /\ /\ op = "PowerFull"
       /\ pc \in {"ringreset", "isroff", "lineoff", "disarm", "cboff", "calc"}
       => Down
    /\ pc # "idle" /\ op \in {"SetMode", "SetFdMode", "SetBitrate"} => powered
    /\ pc = "ringreset" => op = "PowerFull"

\* Every step keeps what is off off, unless Initialize is called while powered.
LEMMA StepOff ==
  ASSUME ~Reinit, IInv, LiveInv, OffInv, [Next]_vars
  PROVE  OffInv'
<1> USE DEF IInv, TypeOK, ContextTypeOK, HalTypeOK, ModuleTypeOK, CallTypeOK,
      HalMode, Op, EventLayer, NodeLayer, ModuleOn, Quiesced, LiveInv,
      Applying, OffInv, OffIsDown, Down
<1>1. CASE Initialize
  BY <1>1 DEF Initialize, At, nodeVars, isrVars, hwVars, callVars
<1>2. CASE PowerFull
  BY <1>2 DEF PowerFull, At, Begin, NormalMode, ctxVars, nodeVars, isrVars,
     hwVars
<1>3. CASE PowerOff
  BY <1>3 DEF PowerOff, At, Begin, ctxVars, nodeVars, isrVars, hwVars
<1>4. CASE Uninitialize
  BY <1>4 DEF Uninitialize, At, Begin, nodeVars, isrVars, hwVars, callVars
<1>5. CASE Quiesce
  BY <1>5 DEF Quiesce, RingReset, IsrDisable, LineDisable, Disarm,
     CallbackOff, At, Goto, ctxVars, nodeVars, isrVars, hwVars
<1>6. CASE HalInit
  <2>1. CASE CalcFails
    BY <2>1 DEF CalcFails, Return, At, ReturnWith, nodeVars, isrVars, hwVars
  <2>2. CASE CalcOk
    BY <2>2 DEF CalcOk, At, Goto, ctxVars, isrVars, hwVars
  <2>3. CASE InitRequestConfig
    BY <2>3 DEF InitRequestConfig, At, Goto, ctxVars, isrVars
  <2>4. CASE InitConfigure
    BY <2>4 DEF InitConfigure, At, Goto, ctxVars, nodeVars
  <2>5. CASE InitTimeout
    BY <2>5 DEF InitTimeout, Return, At, ReturnWith, nodeVars, isrVars
  <2>6. CASE InitPublish
    BY <2>6 DEF InitPublish, At, Goto, ctxVars, isrVars, hwVars
  <2>7. CASE InitDone
    BY <2>7 DEF InitDone, At, Goto, ctxVars, isrVars, hwVars
  <2> QED
    BY <1>6, <2>1, <2>2, <2>3, <2>4, <2>5, <2>6, <2>7 DEF HalInit
<1>7. CASE Enable
  <2>1. CASE CallbackOn
    BY <2>1 DEF CallbackOn, At, Goto, ctxVars, nodeVars, hwVars
  <2>2. CASE EnableFails
    BY <2>2 DEF EnableFails, At, Goto, ctxVars, nodeVars, hwVars
  <2>3. CASE Arm
    BY <2>3 DEF Arm, At, Goto, ctxVars, nodeVars, hwVars
  <2>4. CASE LineEnable
    <3>1. node_initialized /\ g_cb = "can_hal_event" /\ armed
      BY <2>4 DEF LineEnable, At
    <3> QED
      BY <2>4, <3>1 DEF LineEnable, At, Goto, ctxVars, nodeVars, hwVars
  <2>5. CASE Enabled
    BY <2>5 DEF Enabled, Return, At, ReturnApplied, nodeVars, hwVars
  <2> QED
    BY <1>7, <2>1, <2>2, <2>3, <2>4, <2>5 DEF Enable
<1>8. CASE Deinit
  <2>1. CASE DeinitNothing
    BY <2>1 DEF DeinitNothing, Return, At, ReturnWith, isrVars, hwVars
  <2>2. CASE DeinitRequest
    BY <2>2 DEF DeinitRequest, At, Goto, ctxVars, nodeVars, isrVars
  <2>3. CASE DeinitOff
    BY <2>3 DEF DeinitOff, At, Goto, ctxVars, nodeVars, isrVars
  <2>4. CASE DeinitUnmark
    BY <2>4 DEF DeinitUnmark, At, Goto, ctxVars, isrVars, hwVars
  <2>5. CASE DeinitDone
    BY <2>5 DEF DeinitDone, Return, At, ReturnWith, isrVars, hwVars
  <2> QED
    BY <1>8, <2>1, <2>2, <2>3, <2>4, <2>5 DEF Deinit
<1>9. CASE Bitrate
  BY <1>9 DEF Bitrate, BitrateRefused, BitrateRequestConfig, BitrateWrite,
     BitrateTimeout, BitrateRestored, Return, At, ReturnWith, nodeVars,
     isrVars, hwVars, Goto, ctxVars
<1>10. CASE Module
  BY <1>10 DEF Module, ModeFollows, ModuleReset, ctxVars, nodeVars, isrVars,
     callVars
<1>11. ASSUME NEW r \in Rate, SetBitrate(r) PROVE OffInv'
  BY <1>11 DEF SetBitrate, At, Begin, nodeVars, isrVars, hwVars, callVars
<1>12. ASSUME NEW r \in Rate, SetBitrateBadSelect(r) PROVE OffInv'
  BY <1>12 DEF SetBitrateBadSelect, At, nodeVars, isrVars, hwVars, callVars
<1>13. ASSUME NEW m \in HalMode, SetMode(m) PROVE OffInv'
  BY <1>13 DEF SetMode, At, Begin, NormalMode, ctxVars, nodeVars, isrVars,
     hwVars
<1>14. ASSUME NEW b \in BOOLEAN, SetFdMode(b) PROVE OffInv'
  BY <1>14 DEF SetFdMode, At, Begin, NormalMode, nodeVars, isrVars, hwVars,
     callVars
<1>15. ASSUME NEW b \in BOOLEAN, MessageSend(b) PROVE OffInv'
  BY <1>15 DEF MessageSend, At, ctxVars, nodeVars, isrVars, hwVars, callVars
<1>16. CASE UNCHANGED vars
  BY <1>16 DEF vars, ctxVars, nodeVars, isrVars, hwVars, callVars
<1> QED
  BY <1>1, <1>2, <1>3, <1>4, <1>5, <1>6, <1>7, <1>8, <1>9, <1>10, <1>11,
     <1>12, <1>13, <1>14, <1>15, <1>16 DEF Next, App, Call

\* What is left of an unpowered driver, step by step.
LEMMA OffInvariant == ASSUME ~Reinit PROVE Spec => []OffInv
<1>1. Init => LiveInv /\ OffInv
  BY DEF Init, LiveInv, LiveUnlessReported, Applying, OffInv, OffIsDown
<1>2. IInv /\ LiveInv /\ OffInv /\ [Next]_vars => LiveInv' /\ OffInv'
  BY StepLive, StepOff
<1> QED BY <1>1, <1>2, DriverInvariant, PTL DEF Spec

\* Whatever failed before, a driver that is not powered has no interrupt, no
\* callback and no module running, unless Initialize was called on a powered one.
THEOREM OffIsAlwaysDown == ASSUME ~Reinit PROVE Spec => []OffIsDown
<1>1. OffInv => OffIsDown
  BY DEF OffInv
<1> QED BY <1>1, OffInvariant, PTL

\* A driver that stops being initialized is one that deinit has taken down, or
\* that was down already: Uninitialize is nora_canfd_deinit, unless Initialize was
\* called on a powered driver.
THEOREM UninitializeAlwaysDeinit == ASSUME ~Reinit PROVE Spec => UninitializeIsDeinit
<1> DEFINE Ok == initialized /\ ~initialized' => g_mode' = "NONE" /\ ~line'
<1>1. ASSUME IInv, LiveInv, OffInv, [Next]_vars PROVE [Ok]_vars
  <2> USE DEF IInv, TypeOK, ContextTypeOK, CallTypeOK
  <2>1. CASE Uninitialize
    BY <1>1, <2>1
       DEF Uninitialize, At, Begin, nodeVars, isrVars, OffInv, OffIsDown, NodeLayer
  <2>2. CASE DeinitNothing
    BY <1>1, <2>2 DEF DeinitNothing, At, isrVars, EventLayer, Quiesced
  <2>3. CASE DeinitDone
    BY <1>1, <2>3 DEF DeinitDone, At, isrVars, EventLayer, Quiesced
  <2>4. ASSUME initialized' = initialized PROVE Ok
    BY <2>4
  <2>5. CASE Initialize
    BY <2>5 DEF Initialize
  <2>6. ASSUME Return(TRUE) \/ Return(FALSE), op # "Uninitialize" PROVE initialized' = initialized
    BY <1>1, <2>6 DEF Return
  <2>7. ASSUME App, ~Initialize, ~Uninitialize PROVE initialized' = initialized
    BY <2>7 DEF App, Begin, PowerFull, PowerOff, SetBitrate, SetBitrateBadSelect,
                SetMode, SetFdMode, MessageSend, ctxVars
  <2>8. CASE Quiesce
    BY <2>8 DEF Quiesce, RingReset, IsrDisable, LineDisable, Disarm, CallbackOff, ctxVars
  <2>9. ASSUME HalInit PROVE initialized' = initialized
    <3>1. op # "Uninitialize"
      BY <1>1, <2>9 DEF HalInit, CalcFails, CalcOk, InitRequestConfig, InitConfigure,
            InitTimeout, InitPublish, InitDone, At, LiveInv, Applying
    <3> QED BY <2>6, <2>9, <3>1
            DEF HalInit, CalcFails, CalcOk, InitRequestConfig, InitConfigure,
                InitTimeout, InitPublish, InitDone, ReturnWith, ctxVars
  <2>10. ASSUME Enable PROVE initialized' = initialized
    <3>1. op # "Uninitialize"
      BY <1>1, <2>10 DEF Enable, CallbackOn, EnableFails, Arm, LineEnable, Enabled, At,
                         LiveInv, Applying
    <3> QED BY <2>6, <2>10, <3>1
            DEF Enable, CallbackOn, EnableFails, Arm, LineEnable, Enabled,
                ReturnApplied, ctxVars
  <2>11. ASSUME DeinitRequest \/ DeinitOff \/ DeinitUnmark PROVE initialized' = initialized
    BY <2>11 DEF DeinitRequest, DeinitOff, DeinitUnmark, ctxVars
  <2>12. ASSUME Bitrate PROVE initialized' = initialized
    <3>1. op # "Uninitialize"
      BY <1>1, <2>12 DEF Bitrate, BitrateRefused, BitrateRequestConfig, BitrateWrite,
                         BitrateTimeout, BitrateRestored, At, LiveInv
    <3> QED BY <2>6, <2>12, <3>1
            DEF Bitrate, BitrateRefused, BitrateRequestConfig, BitrateWrite,
                BitrateTimeout, BitrateRestored, ReturnWith, ctxVars
  <2>13. CASE Module
    BY <2>13 DEF Module, ModeFollows, ModuleReset, ctxVars
  <2> QED BY <1>1, <2>1, <2>2, <2>3, <2>4, <2>5, <2>7, <2>8, <2>9, <2>10, <2>11,
             <2>12, <2>13 DEF Next, Call, Deinit
<1>2. Init => LiveInv
  BY DEF Init, LiveInv, LiveUnlessReported, Applying
<1>3. IInv /\ LiveInv /\ [Next]_vars => LiveInv'
  BY StepLive
<1> QED BY <1>1, <1>2, <1>3, DriverInvariant, OffInvariant, PTL DEF Spec, UninitializeIsDeinit
=============================================================================

------------------------------- MODULE TxQueue -------------------------------
(***************************************************************************)
(* What the transmit path of the HAL promises its caller:                  *)
(*                                                                         *)
(*   - a frame is queued only by a call that sends and only if there is    *)
(*     room, and leaves the queue only by being sent: an abort or a        *)
(*     disable takes none back;                                            *)
(*   - TX_COMPLETE is given only when everything queued has been sent, and *)
(*     nothing is queued while it is being given;                          *)
(*   - the completion of a tx_start is due until TX_COMPLETE is given, or  *)
(*     until it is given up by tx_abort or isr_disable, and by these only; *)
(*   - a TX_COMPLETE that is not due is given at most once for each one    *)
(*     that was given, or given up, while a call was sending.              *)
(***************************************************************************)
EXTENDS Naturals

CONSTANT Depth       \* how many frames the queue holds

VARIABLES waiting,   \* frames queued and not yet sent
          due,       \* a TX_COMPLETE is due to the caller
          spare,     \* one that is not due may be given
          telling,   \* TX_COMPLETE is being given
          sending,   \* input: a call is queueing a frame
          stopping   \* input: tx_abort or isr_disable is under way, or a
                     \* callback that may make the call

promiseVars == <<waiting, due, spare, telling>>
serviceVars == <<promiseVars, sending, stopping>>

Init == /\ waiting = 0 /\ due = FALSE /\ spare = FALSE /\ telling = FALSE
        /\ sending = FALSE /\ stopping = FALSE

\* By tx_start, with a completion, or by transmit, without.
Queue(completion) ==
    /\ sending /\ ~telling
    /\ waiting < Depth
    /\ waiting' = waiting + 1
    /\ due' = (due \/ completion)
    /\ spare' \in {spare, FALSE}
    /\ UNCHANGED telling

Sent == /\ waiting > 0
        /\ waiting' = waiting - 1
        /\ UNCHANGED <<due, spare, telling>>

Complete == /\ ~telling
            /\ waiting = 0
            /\ due \/ spare
            /\ telling' = TRUE
            /\ due' = FALSE
            /\ spare' \in {sending, FALSE}
            /\ UNCHANGED waiting

Told == /\ telling
        /\ telling' = FALSE
        /\ UNCHANGED <<waiting, due, spare>>

\* With the first store of the call or with a later one.
GiveUp == /\ stopping \/ stopping'
          /\ due' = FALSE
          /\ spare' \in {sending, FALSE}
          /\ UNCHANGED <<waiting, telling>>

Next == /\ \/ \E completion \in BOOLEAN : Queue(completion)
           \/ Sent
           \/ Complete
           \/ Told
           \/ GiveUp
           \/ UNCHANGED promiseVars
        /\ sending' \in BOOLEAN
        /\ stopping' \in BOOLEAN

Spec == Init /\ [][Next]_serviceVars
=============================================================================

----------------------------- MODULE AnchorSend -----------------------------
(***************************************************************************)
(* What AnchorBlockByHeight relies on when it calls                        *)
(* SendRawTransactionToBTC: one call sends at most one transaction; a txid *)
(* says that one was sent and "" that none was; an error says nothing; and *)
(* a process that dies in the call by itself had sent none.                *)
(***************************************************************************)
EXTENDS Integers

VARIABLES
    phase,   \* "idle", "busy", or "panic" when the process is gone
    answer,  \* what the last call returned
    onNet    \* transactions bitcoind took so far

sendVars == <<phase, answer, onNet>>

Answers == {"none", "txid", "empty", "error"}

AnchorSendInit == phase = "idle" /\ answer = "none" /\ onNet = 0

Begin == phase = "idle" /\ phase' = "busy" /\ answer' = "none" /\ UNCHANGED onNet

Return(a) == phase = "busy" /\ phase' = "idle" /\ answer' = a

Sent == Return("txid") /\ onNet' = onNet + 1
Declined == Return("empty") /\ UNCHANGED onNet
Unclear == Return("error") /\ onNet' \in {onNet, onNet + 1}
Panic == phase = "busy" /\ phase' = "panic" /\ UNCHANGED <<answer, onNet>>

\* The process is killed in the call, or started again after a panic.
Killed == phase = "busy" /\ phase' = "idle" /\ UNCHANGED <<answer, onNet>>
Relaunched == phase = "panic" /\ phase' = "idle" /\ UNCHANGED <<answer, onNet>>

AnchorSendNext ==
    Begin \/ Sent \/ Declined \/ Unclear \/ Panic \/ Killed \/ Relaunched

AnchorSendSpec == AnchorSendInit /\ [][AnchorSendNext]_sendVars
=============================================================================

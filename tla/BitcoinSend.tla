---------------------------- MODULE BitcoinSend ----------------------------
(***************************************************************************)
(* SendRawTransactionToBTC and SendTransaction (bitcoin/bitcoind.go), one  *)
(* bitcoind call per step: list the spendable outputs, choose inputs and   *)
(* fee, create, unlock the wallet, sign, lock it, send.  Amounts are in    *)
(* satoshi; a fee in BTC is a number of satoshi per byte times a size.     *)
(*                                                                         *)
(* The wallet is external: its coins, whether it is unlocked, what it      *)
(* refuses to send.  AnchorBlockByHeight calls again whatever the outcome. *)
(***************************************************************************)
EXTENDS OpReturn, FiniteSets, FiniteSetsExt, Sequences

CONSTANTS
    Rates,         \* first line of satoshifee.txt: satoshi per byte
    Amounts,       \* values of the coins the wallet starts with
    NumCoins,      \* how many these are
    Heights,       \* directory blocks to anchor
    Dust,          \* bitcoind refuses a smaller output
    MinRelayRate,  \* bitcoind refuses fewer satoshi per byte
    MaxCalls,      \* bound on the calls
    MaxMishaps     \* bound on failures and on other uses of the wallet

ASSUME SendAssumption ==
    /\ Rates \subseteq Nat /\ Amounts \subseteq Nat /\ Heights \subseteq U32
    /\ {NumCoins, Dust, MinRelayRate, MaxCalls, MaxMishaps} \subseteq Nat

VARIABLES
    coins,     \* every output of the wallet ever: its value and its state
    wallet,    \* "locked" or "open"
    lockMissed,    \* history: a walletlock failed, or the process was killed
                   \* before it, and the wallet has been open since
    txs,       \* transactions bitcoind took
    step,      \* the call being made, "idle" or "panic"
    h,         \* the directory block to anchor
    rate,      \* BTCFee as of UpdateFee, in satoshi per byte
    list,      \* the outputs listunspent returned
    used,      \* usedList
    total,     \* totalInputs
    change,    \* the amount of the output that goes back to the address
    signed,    \* what signrawtransactionwithwallet gave: see SignedBy
    result,    \* what the call before returned
    calls, mishaps

walletVars == <<coins, wallet, lockMissed, txs>>
txVars == <<h, rate, list, used, total, change, signed>>
countVars == <<calls, mishaps>>
bitcoinSendVars == <<walletVars, step, txVars, result, countVars>>

CoinIds == DOMAIN coins
Confirmed == {i \in CoinIds : coins[i].state = "confirmed"}
KeyMR(height) == <<"KeyMR of", height>>

\* UpdateFee takes 243 bytes for a transaction with one input; each further
\* one is 146 more.
TxSize(inputs) == 243 + 146 * (inputs - 1)
BTCFee == TxSize(1) * rate

\* Mutant of FeeFor: up to eight inputs are paid for.
FeeForEight(inputs) ==
    rate * (CASE inputs <= 1 -> TxSize(1)
              [] inputs \in 2..8 -> TxSize(inputs)
              [] OTHER -> TxSize(8))

\* At most five inputs are paid for; the cap of the multiplier is out of reach.
FeeFor(inputs) ==
    rate * (CASE inputs <= 1 -> TxSize(1)
              [] inputs \in 2..5 -> TxSize(inputs)
              [] OTHER -> TxSize(5))

-----------------------------------------------------------------------------
(* The steps of one call. *)

Mishap == mishaps < MaxMishaps /\ mishaps' = mishaps + 1 /\ UNCHANGED calls

Return(r) == step' = "idle" /\ result' = r

Begin ==
    /\ step = "idle"
    /\ calls < MaxCalls
    /\ step' = "list"
    /\ \E x \in Heights : h' = x
    /\ \E r \in Rates : rate' = r
    /\ list' = {} /\ used' = {} /\ total' = 0 /\ change' = 0 /\ signed' = "no"
    /\ result' = "none"
    /\ calls' = calls + 1
    /\ UNCHANGED <<walletVars, mishaps>>

\* Mutant of ListUnspent: unconfirmed outputs are listed as well.
ListUnspentAll ==
    /\ step = "list"
    /\ list' = {i \in CoinIds : coins[i].state # "spent"}
    /\ step' = "choose"
    /\ UNCHANGED <<walletVars, h, rate, used, total, change, signed, result,
                   countVars>>

\* listunspent with at least one confirmation
ListUnspent ==
    /\ step = "list"
    /\ list' = Confirmed
    /\ step' = "choose"
    /\ UNCHANGED <<walletVars, h, rate, used, total, change, signed, result,
                   countVars>>

\* The comparisons are of floats: at equality both outcomes are possible.
EnoughInputs == used # {} /\ total >= 4 * BTCFee
MoreWanted == used = {} \/ total <= 4 * BTCFee

\* The outputs are taken in the order they are listed in.
IsNext(v) == \A w \in list : v <= w

\* Mutant of TakeInput: the break comes before the input is noted.
TakeInputLate ==
    /\ step = "choose"
    /\ MoreWanted
    /\ \E v \in list :
        /\ IsNext(v)
        /\ total' = total + coins[v].sat
        /\ used' = IF total' > 4 * BTCFee THEN used ELSE used \cup {v}
        /\ list' = list \ {v}
    /\ UNCHANGED <<walletVars, step, h, rate, change, signed, result, countVars>>

\* The next listed output becomes an input.
TakeInput ==
    /\ step = "choose"
    /\ MoreWanted
    /\ \E v \in list :
        /\ IsNext(v)
        /\ total' = total + coins[v].sat
        /\ used' = used \cup {v}
        /\ list' = list \ {v}
    /\ UNCHANGED <<walletVars, step, h, rate, change, signed, result, countVars>>

ChoiceMade == step = "choose" /\ (EnoughInputs \/ list = {})

\* Not enough money: "" and no error.
Decline ==
    /\ ChoiceMade
    /\ total <= FeeFor(Cardinality(used))
    /\ total = FeeFor(Cardinality(used)) => total # 0
    /\ Return("empty")
    /\ UNCHANGED <<walletVars, txVars, countVars>>

\* Mutant of CreateRawTransaction: the inputs are not compared with the fee.
CreateRawTransactionUnchecked ==
    /\ ChoiceMade
    /\ change' = total - FeeFor(Cardinality(used))
    /\ step' = "unlock"
    /\ UNCHANGED <<walletVars, h, rate, list, used, total, signed, result,
                   countVars>>

CreateRawTransaction ==
    /\ ChoiceMade
    /\ total >= FeeFor(Cardinality(used))
    /\ change' = total - FeeFor(Cardinality(used))
    /\ step' = "unlock"
    /\ UNCHANGED <<walletVars, h, rate, list, used, total, signed, result,
                   countVars>>

\* The answer to walletpassphrase is not looked at.
WalletPassPhrase ==
    /\ step = "unlock"
    /\ wallet' = "open"
    /\ step' = "sign"
    /\ UNCHANGED <<coins, lockMissed, txs, txVars, result, countVars>>

WalletPassPhraseFails ==
    /\ step = "unlock"
    /\ Mishap
    /\ step' = "sign"
    /\ UNCHANGED <<walletVars, txVars, result>>

\* A locked wallet answers with an RPC error, which the wrapper turns into no
\* result and no error.
SignRawTransaction ==
    /\ step = "sign"
    /\ signed' = IF wallet = "open" THEN "yes" ELSE "nil"
    /\ step' = "lock"
    /\ UNCHANGED <<walletVars, h, rate, list, used, total, change, result,
                   countVars>>

\* Any other RPC error, or no answer.
SignFails ==
    /\ step = "sign"
    /\ Mishap
    /\ signed' \in {"nil", "error"}
    /\ step' = "lock"
    /\ UNCHANGED <<walletVars, h, rate, list, used, total, change, result>>

\* What SendTransaction does once walletlock returned.
AfterLock ==
    \/ signed = "yes" /\ step' = "send" /\ UNCHANGED result
    \/ signed = "error" /\ Return("error")
    \/ signed = "nil" /\ step' = "panic" /\ UNCHANGED result

\* walletlock, or the end of the ten seconds of walletpassphrase
Locked == wallet' = "locked" /\ lockMissed' = FALSE

\* Mutant of WalletLock: the outcome of the signature is looked at first.
WalletLockLate ==
    /\ step = "lock"
    /\ IF signed = "yes" THEN Locked ELSE UNCHANGED <<wallet, lockMissed>>
    /\ AfterLock
    /\ UNCHANGED <<coins, txs, txVars, countVars>>

\* The wallet is locked before the outcome of the signature is looked at.
WalletLock ==
    /\ step = "lock"
    /\ Locked
    /\ AfterLock
    /\ UNCHANGED <<coins, txs, txVars, countVars>>

\* Nor is the answer to walletlock.
WalletLockFails ==
    /\ step = "lock"
    /\ Mishap
    /\ AfterLock
    /\ lockMissed' = (wallet = "open")
    /\ UNCHANGED <<coins, wallet, txs, txVars>>

\* What bitcoind takes into its pool.
Accepts ==
    /\ used # {}
    /\ \A i \in used : coins[i].state # "spent"
    /\ change >= Dust
    /\ FeeFor(Cardinality(used)) >= MinRelayRate * TxSize(Cardinality(used))

Broadcast ==
    /\ Accepts
    /\ txs' = Append(txs, [inputs |-> used, out |-> change,
                           fee |-> FeeFor(Cardinality(used)), h |-> h,
                           script |-> ScriptOf(PrependBlockHeight(h, KeyMR(h))),
                           unconfirmed |-> used \ Confirmed])
    /\ coins' = Append([i \in CoinIds |->
                           IF i \in used THEN [coins[i] EXCEPT !.state = "spent"]
                           ELSE coins[i]],
                       [sat |-> change, state |-> "unconfirmed"])
    /\ UNCHANGED <<wallet, lockMissed>>

\* Mutant of SendRawTransaction: the txid is lost in a shadowed variable.
SendRawTransactionShadowed ==
    /\ step = "send"
    /\ \/ Broadcast /\ Return("empty")
       \/ ~Accepts /\ Return("error") /\ UNCHANGED walletVars
    /\ UNCHANGED <<txVars, countVars>>

SendRawTransaction ==
    /\ step = "send"
    /\ \/ Broadcast /\ Return("txid")
       \/ ~Accepts /\ Return("error") /\ UNCHANGED walletVars
    /\ UNCHANGED <<txVars, countVars>>

-----------------------------------------------------------------------------
(* Failures. *)

\* No answer from a call, or createrawtransaction answers with an RPC error.
CallFails ==
    /\ step \in {"list", "choose", "send"}
    /\ step = "choose" => ChoiceMade /\ total >= FeeFor(Cardinality(used))
    /\ Mishap
    /\ Return("error")
    /\ UNCHANGED <<walletVars, txVars>>

\* bitcoind took the transaction and its answer is lost.
SendReplyLost ==
    /\ step = "send"
    /\ Mishap
    /\ Broadcast
    /\ Return("error")
    /\ UNCHANGED txVars

\* listunspent is answered with an RPC error: its wrapper returns nil, too.
ListPanics ==
    /\ step = "list"
    /\ Mishap
    /\ step' = "panic"
    /\ UNCHANGED <<walletVars, txVars, result>>

Killed ==
    /\ step \notin {"idle", "panic"}
    /\ Mishap
    /\ step' = "idle"
    /\ lockMissed' = (lockMissed \/ (step \in {"sign", "lock"} /\ wallet = "open"))
    /\ UNCHANGED <<coins, wallet, txs, txVars, result>>

Relaunch ==
    /\ step = "panic"
    /\ step' = "idle"
    /\ UNCHANGED <<walletVars, txVars, result, countVars>>

-----------------------------------------------------------------------------
(* The wallet on its own. *)

\* The ten seconds of walletpassphrase are over.
Relock ==
    /\ wallet = "open"
    /\ Locked
    /\ UNCHANGED <<coins, txs, step, txVars, result, countVars>>

\* For good: no reorganisation takes a coin out of the chain while it is listed.
CoinConfirmed ==
    /\ \E i \in CoinIds :
        /\ coins[i].state = "unconfirmed"
        /\ coins' = [coins EXCEPT ![i].state = "confirmed"]
    /\ UNCHANGED <<wallet, lockMissed, txs, step, txVars, result, countVars>>

\* Somebody else uses the wallet.
SpentElsewhere ==
    /\ Mishap
    /\ \E i \in Confirmed : coins' = [coins EXCEPT ![i].state = "spent"]
    /\ UNCHANGED <<wallet, lockMissed, txs, step, txVars, result>>

BitcoinSendInit ==
    /\ coins \in [1..NumCoins -> [sat: Amounts, state: {"confirmed"}]]
    /\ wallet = "locked" /\ lockMissed = FALSE /\ txs = <<>>
    /\ step = "idle" /\ result = "none" /\ calls = 0 /\ mishaps = 0
    /\ h = 0 /\ rate = 0 /\ list = {} /\ used = {} /\ total = 0 /\ change = 0
    /\ signed = "no"

BitcoinSendNext ==
    \/ Begin \/ ListUnspent \/ TakeInput \/ Decline \/ CreateRawTransaction
    \/ WalletPassPhrase \/ SignRawTransaction \/ WalletLock \/ SendRawTransaction
    \/ WalletPassPhraseFails \/ SignFails \/ WalletLockFails
    \/ CallFails \/ SendReplyLost \/ ListPanics \/ Killed \/ Relaunch
    \/ Relock \/ CoinConfirmed \/ SpentElsewhere

BitcoinSendSpec == BitcoinSendInit /\ [][BitcoinSendNext]_bitcoinSendVars

-----------------------------------------------------------------------------
(* Properties. *)

Steps == {"idle", "list", "choose", "unlock", "sign", "lock", "send", "panic"}

BitcoinSendTypeOK ==
    /\ coins \in Seq([sat: Nat, state: {"unconfirmed", "confirmed", "spent"}])
    /\ wallet \in {"locked", "open"} /\ lockMissed \in BOOLEAN
    /\ step \in Steps
    /\ h \in U32
    /\ rate \in Nat
    /\ list \subseteq CoinIds
    /\ used \subseteq CoinIds
    /\ total \in Nat
    /\ change \in Nat
    /\ signed \in {"no", "yes", "nil", "error"}
    /\ result \in {"none", "txid", "empty", "error"}
    /\ calls \in 0..MaxCalls
    /\ mishaps \in 0..MaxMishaps

Value(S) == MapThenSumSet(LAMBDA i : coins[i].sat, S)

\* What a transaction spends is what it pays back and the fee, so the inputs
\* that were added up are the inputs that are spent.
TxsBalance == \A i \in DOMAIN txs : Value(txs[i].inputs) = txs[i].out + txs[i].fee

\* "never try to double-spend themselves or spend unconfirmed transactions": no
\* coin is in two transactions, though replies are lost and calls are repeated.
NoDoubleOrUnconfirmedSpend ==
    \A i \in DOMAIN txs :
        /\ txs[i].unconfirmed = {}
        /\ \A j \in DOMAIN txs : i # j => txs[i].inputs \cap txs[j].inputs = {}

\* Where the inputs add up to more than four fees, the call neither gives up nor
\* offers what bitcoind refuses: the fee, which grows with the inputs up to five,
\* leaves more than dust (from 3.8 satoshi per byte on) and covers the size, as
\* far as the fee for five inputs does.
FundedIsAccepted ==
    (/\ ChoiceMade \/ step \in {"unlock", "sign", "lock", "send"}
     /\ total > 4 * BTCFee
     /\ 145 * rate >= Dust
     /\ MinRelayRate <= rate
     /\ MinRelayRate * TxSize(Cardinality(used)) <= rate * TxSize(5)) =>
        LET fee == FeeFor(Cardinality(used)) IN
        /\ total - fee >= Dust
        /\ fee >= MinRelayRate * TxSize(Cardinality(used))

\* A transaction is read back as the anchor of the block it was sent for.
ReadBackAsSent ==
    \A i \in DOMAIN txs :
        OpReturnScriptToParts(txs[i].script)
            = [height |-> txs[i].h, keyMR |-> KeyMR(txs[i].h)]

\* Once a call is past its walletlock, or over, the wallet is open only because
\* that walletlock failed or the process was killed before it: whatever became of
\* the signature (error, RPC error turned into nil) the wallet is locked first.
LockedBetweenCalls ==
    step \in {"idle", "send", "panic"} /\ wallet = "open" => lockMissed

\* The call keeps the promise its caller relies on.
Promise == INSTANCE AnchorSend WITH
    phase <- IF step \in {"idle", "panic"} THEN step ELSE "busy",
    answer <- result, onNet <- Len(txs)
ImplementsAnchorSend == Promise!AnchorSendSpec
=============================================================================

--------------------------- MODULE BitcoinAnchor ---------------------------
(***************************************************************************)
(* SynchronizeBitcoinData and AnchorBlocksIntoBitcoin (bitcoin/bitcoin.go) *)
(* with the calls to bitcoind they make (bitcoin/bitcoind.go): find the    *)
(* confirmed anchors, then send transactions for the blocks that have      *)
(* none, the newest first and then a batch of the older ones.              *)
(*                                                                         *)
(* BitcoinAnchorSpec leaves the Factom side to a general environment that  *)
(* learns of new directory blocks and of anchor records at any time the    *)
(* process is not in this component.                                       *)
(***************************************************************************)
EXTENDS AnchorProcess, BitcoinNetwork

CONSTANTS
    FundsRunOut,    \* the wallet may not cover a fee
    RecordIds       \* transaction and block ids in the records of other signers

ASSUME AnchorAssumption ==
    /\ FundsRunOut \in BOOLEAN
    /\ RecordIds \subseteq Nat \ {0}

VARIABLES
    listed,    \* the listed transactions still to process, with their block
    newBlock,  \* lastblock of the same reply
    height,    \* the directory block the older-blocks loop is at
    count,     \* transactions this loop has sent
    sent       \* txid of the transaction just sent

anchorVars == <<listed, newBlock, height, count, sent>>
bitcoinAnchorVars == <<processVars, dbVars, btcVars, anchorVars>>

\* A function returns, and its locals are gone.
ForgetAnchoring ==
    listed' = {} /\ newBlock' = 0 /\ height' = 0 /\ count' = 0 /\ sent' = 0

-----------------------------------------------------------------------------
(* SynchronizeBitcoinData. *)

\* The list is empty: return.  lastBitcoin is not moved in this case.
NothingListed ==
    /\ pc = "syncBitcoin"
    /\ ListSince(lastBitcoin) = {}
    /\ Normally("synced")
    /\ UNCHANGED <<progress, dbVars, btcVars, anchorVars>>

ListTransactions ==
    /\ pc = "syncBitcoin"
    /\ ListSince(lastBitcoin) # {}
    /\ listed' = ListSince(lastBitcoin)
    /\ newBlock' = LastBlock
    /\ progress' = TRUE
    /\ Normally("tx")
    /\ UNCHANGED <<dbVars, btcVars, height, count, sent>>

\* Mutant of IsNewAnchor: an anchor that was found before is taken again.
IsNewAnchorAgain(t) ==
    /\ btcTx[t.id].kind = "anchor"
    /\ Known(btcTx[t.id].h)

\* An anchor of a known block that has neither a record nor a block hash yet.
IsNewAnchor(t) ==
    /\ btcTx[t.id].kind = "anchor"
    /\ LET h == btcTx[t.id].h IN
        /\ Known(h)
        /\ anchorData[h]["Bitcoin"].rec = 0
        /\ anchorData[h]["Bitcoin"].block = 0

\* Mutants of SaveTx: the block is the last one listed; a txid that is already
\* there is kept.
SaveTxInNewBlock(t) ==
    LET h == btcTx[t.id].h IN
    InsertAnchorData(h, [anchorData[h] EXCEPT
        !["Bitcoin"].txid = t.id, !["Bitcoin"].block = Tip])

SaveTxKeepsTxid(t) ==
    LET h == btcTx[t.id].h IN
    InsertAnchorData(h, [anchorData[h] EXCEPT
        !["Bitcoin"].txid = IF @ = 0 THEN t.id ELSE @,
        !["Bitcoin"].block = t.block])

SaveTx(t) ==
    LET h == btcTx[t.id].h IN
    InsertAnchorData(h, [anchorData[h] EXCEPT !["Bitcoin"].txid = t.id,
                                              !["Bitcoin"].block = t.block])

ProcessTx ==
    /\ pc = "tx"
    /\ \E t \in listed :
        /\ listed' = listed \ {t}
        /\ IF IsNewAnchor(t) THEN SaveTx(t) ELSE UNCHANGED anchorData
    /\ UNCHANGED <<processVars, chainHead, lastFactom, lastBitcoin, btcVars,
                   newBlock, height, count, sent>>

\* Mutants of SaveBitcoinState: a new ProgramState is saved instead of the one
\* that was read; none is saved; the current block is saved, not the listed one.
SaveBitcoinStateAlone ==
    /\ pc = "tx"
    /\ listed = {}
    /\ lastBitcoin' = newBlock
    /\ lastFactom' = 0
    /\ Normally("syncBitcoin")
    /\ ForgetAnchoring
    /\ UNCHANGED <<progress, anchorData, chainHead, btcVars>>

SaveBitcoinStateNot ==
    /\ pc = "tx"
    /\ listed = {}
    /\ Normally("syncBitcoin")
    /\ ForgetAnchoring
    /\ UNCHANGED <<progress, dbVars, btcVars>>

SaveBitcoinStateOfTip ==
    /\ pc = "tx"
    /\ listed = {}
    /\ lastBitcoin' = LastBlock
    /\ Normally("syncBitcoin")
    /\ ForgetAnchoring
    /\ UNCHANGED <<progress, anchorData, chainHead, lastFactom, btcVars>>

\* All listed transactions are done: save the state and list again.
SaveBitcoinState ==
    /\ pc = "tx"
    /\ listed = {}
    /\ lastBitcoin' = newBlock
    /\ Normally("syncBitcoin")
    /\ ForgetAnchoring
    /\ UNCHANGED <<progress, anchorData, chainHead, lastFactom, btcVars>>

SynchronizeBitcoinData ==
    NothingListed \/ ListTransactions \/ ProcessTx \/ SaveBitcoinState

-----------------------------------------------------------------------------
(* AnchorBlocksIntoBitcoin. *)

\* Mutant of BeginAnchoring: the older blocks start at the checkpoint.
BeginAnchoringAtNewest ==
    /\ pc = "anchor"
    /\ height' = lastFactom
    /\ count' = 0
    /\ Normally("newest")
    /\ UNCHANGED <<progress, dbVars, btcVars, listed, newBlock, sent>>

\* CheckAndTopupBalances, UpdateFee and the reads of head and program state.
BeginAnchoring ==
    /\ pc = "anchor"
    /\ height' = AfterHead
    /\ count' = 0
    /\ Normally("newest")
    /\ UNCHANGED <<progress, dbVars, btcVars, listed, newBlock, sent>>

NeedsAnchor(h) == Known(h) /\ anchorData[h]["Bitcoin"].txid = 0

\* SendRawTransactionToBTC answers with the txid ...
SendAnchor(h) ==
    /\ NeedsAnchor(h)
    /\ Broadcast(h, faults)
    /\ sent' = NextTxId
\* ... or with "" when the outputs do not cover the fee.
OutOfFunds(h) == NeedsAnchor(h) /\ FundsRunOut

\* The txid is written into the AnchorData that was read before the send.
RecordTxid(h) ==
    InsertAnchorData(h, [anchorData[h] EXCEPT !["Bitcoin"].txid = sent])

\* AnchorBlockByHeight(LastFactomDBlockHeightChecked); done and skip are ignored.
NewestNotSent ==
    /\ pc = "newest"
    /\ ~NeedsAnchor(lastFactom) \/ OutOfFunds(lastFactom)
    /\ Normally("older")
    /\ UNCHANGED <<progress, dbVars, btcVars, anchorVars>>

SendNewest ==
    /\ pc = "newest"
    /\ SendAnchor(lastFactom)
    /\ Normally("recordNewest")
    /\ UNCHANGED <<progress, dbVars, listed, newBlock, height, count>>

\* Mutant of RecordNewest: the txid is not written.
RecordNewestUnsaved ==
    /\ pc = "recordNewest"
    /\ sent' = 0
    /\ Normally("older")
    /\ UNCHANGED <<progress, dbVars, btcVars, listed, newBlock, height, count>>

RecordNewest ==
    /\ pc = "recordNewest"
    /\ RecordTxid(lastFactom)
    /\ sent' = 0
    /\ Normally("older")
    /\ UNCHANGED <<progress, chainHead, lastFactom, lastBitcoin, btcVars,
                   listed, newBlock, height, count>>

\* Mutant of SkipOlder: a block that is not there is skipped as well.
SkipOlderUnknown ==
    /\ pc = "older"
    /\ count < AnchorBatch
    /\ ~NeedsAnchor(height)
    /\ height' = height + 1
    /\ UNCHANGED <<processVars, dbVars, btcVars, listed, newBlock, count, sent>>

SkipOlder ==
    /\ pc = "older"
    /\ count < AnchorBatch
    /\ Known(height)
    /\ ~NeedsAnchor(height)
    /\ height' = height + 1
    /\ UNCHANGED <<processVars, dbVars, btcVars, listed, newBlock, count, sent>>

SendOlder ==
    /\ pc = "older"
    /\ count < AnchorBatch
    /\ SendAnchor(height)
    /\ Normally("recordOlder")
    /\ UNCHANGED <<progress, dbVars, listed, newBlock, height, count>>

RecordOlder ==
    /\ pc = "recordOlder"
    /\ RecordTxid(height)
    /\ height' = height + 1
    /\ count' = count + 1
    /\ sent' = 0
    /\ Normally("older")
    /\ UNCHANGED <<progress, chainHead, lastFactom, lastBitcoin, btcVars,
                   listed, newBlock>>

\* The batch is full, there is no further block, or the funds are used up.
OlderDone ==
    /\ pc = "older"
    /\ count = AnchorBatch \/ ~Known(height) \/ OutOfFunds(height)
    /\ Normally("save")
    /\ ForgetAnchoring
    /\ UNCHANGED <<progress, dbVars, btcVars>>

AnchorBlocksIntoBitcoin ==
    \/ BeginAnchoring
    \/ NewestNotSent \/ SendNewest \/ RecordNewest
    \/ SkipOlder \/ SendOlder \/ RecordOlder \/ OlderDone

-----------------------------------------------------------------------------
(* Failures. *)

\* Any call before a transaction is sent.
BitcoinAnchorFails ==
    /\ pc \in BitcoinSteps \cup {"anchor", "newest", "older"}
    /\ FailedCall
    /\ ForgetAnchoring
    /\ UNCHANGED <<dbVars, btcVars>>

\* The block that SendRawTransactionToBTC is about to be called for.
SendingFor(h) ==
    /\ \/ pc = "newest" /\ h = lastFactom
       \/ pc = "older" /\ count < AnchorBatch /\ h = height
    /\ NeedsAnchor(h)

\* listunspent or signrawtransactionwithwallet is answered with an RPC error:
\* the wrapper returns neither a result nor an error, and the caller reads
\* resp.Error through nil.  A Map database dies with the process.
RpcErrorPanics ==
    /\ \E h \in Height : SendingFor(h)
    /\ IF Persistent THEN Failed("rpcPanic") ELSE Fault("crash", "rpcPanic")
    /\ ReopenDatabase
    /\ ForgetAnchoring
    /\ UNCHANGED btcVars

\* bitcoind took the transaction but its reply is an error or never arrives.
SendReplyLost ==
    /\ \E h \in Height : SendingFor(h) /\ Broadcast(h, faults)
    /\ Fault("lostReply", "loop")
    /\ ForgetAnchoring
    /\ UNCHANGED dbVars

\* The write of the txid fails.
RecordTxidFails ==
    /\ pc \in {"recordNewest", "recordOlder"}
    /\ Fault("unsaved", "loop")
    /\ ForgetAnchoring
    /\ UNCHANGED <<dbVars, btcVars>>

BitcoinAnchorFailures ==
    BitcoinAnchorFails \/ RpcErrorPanics \/ SendReplyLost \/ RecordTxidFails

-----------------------------------------------------------------------------
(* The environment: the rest of the main loop, and Bitcoin. *)

\* SynchronizeFactomData learns of the next directory block,
LearnBlock ==
    /\ \E h \in Height :
        /\ ~Known(h) /\ \A k \in 0..(h - 1) : Known(k)
        /\ InsertAnchorData(h, NewAnchorData)
    /\ UNCHANGED <<chainHead, lastFactom, lastBitcoin>>

\* of an anchor record of another signer or of its own, which is never in block 0,
LearnRecord ==
    /\ MaxHeight > 0
    /\ \E h \in Height, t, b \in RecordIds :
        /\ Known(h)
        /\ InsertAnchorData(h, [anchorData[h] EXCEPT !["Bitcoin"] =
                [txid |-> t, block |-> b, entry |-> 1, rec |-> MaxHeight]])
    /\ UNCHANGED <<chainHead, lastFactom, lastBitcoin>>

\* moves the chain head and the checkpoint.
MoveHead ==
    /\ UpdateAnchorDataHead
    /\ UNCHANGED <<anchorData, lastFactom, lastBitcoin>>
Checkpoint ==
    /\ lastFactom + 1 \in Height /\ Known(lastFactom + 1)
    /\ lastFactom' = lastFactom + 1
    /\ UNCHANGED <<anchorData, chainHead, lastBitcoin>>

\* SaveAnchorsIntoFactom reveals a record of a confirmed anchor.
RevealRecord ==
    /\ \E h \in Height :
        /\ Known(h)
        /\ anchorData[h]["Bitcoin"].entry = 0
        /\ anchorData[h]["Bitcoin"].block # 0
        /\ InsertAnchorData(h, [anchorData[h] EXCEPT !["Bitcoin"].entry = 1])
    /\ UNCHANGED <<chainHead, lastFactom, lastBitcoin>>

FactomElsewhere ==
    /\ \/ pc = "loop" /\ (LearnBlock \/ LearnRecord \/ MoveHead \/ Checkpoint)
       \/ pc = "save" /\ RevealRecord
    /\ UNCHANGED <<processVars, btcVars, anchorVars>>

\* The main loop goes on: it calls the Bitcoin synchronization, repeats the
\* synchronizations or starts anchoring, and comes round again.
Round ==
    /\ \/ pc = "loop" /\ Normally("syncBitcoin") /\ progress' = FALSE
       \/ pc = "synced" /\ progress /\ Normally("loop") /\ UNCHANGED progress
       \/ pc = "synced" /\ ~progress /\ Normally("anchor") /\ UNCHANGED progress
       \/ pc = "save" /\ Normally("loop") /\ UNCHANGED progress
    /\ UNCHANGED <<dbVars, btcVars, anchorVars>>

BitcoinMoves ==
    /\ BitcoinNetworkStep
    /\ UNCHANGED <<processVars, dbVars, anchorVars>>

\* The operator starts the process again after a panic.
BitcoinRelaunch ==
    /\ pc = "rpcPanic"
    /\ Normally("loop")
    /\ UNCHANGED <<progress, dbVars, btcVars, anchorVars>>

BitcoinAnchorInit ==
    /\ pc = "loop" /\ faults = 0 /\ errors = 0 /\ progress = FALSE
    /\ DatabaseInit
    /\ BitcoinInit
    /\ listed = {} /\ newBlock = 0 /\ height = 0 /\ count = 0 /\ sent = 0

\* The faults that lose track of a send, each of which may cost one more
\* transaction, are left to the whole program (Anchormaker).
BitcoinAnchorNext ==
    \/ SynchronizeBitcoinData
    \/ AnchorBlocksIntoBitcoin
    \/ BitcoinAnchorFails \/ RpcErrorPanics
    \/ FactomElsewhere
    \/ Round
    \/ BitcoinMoves
    \/ BitcoinRelaunch

BitcoinAnchorSpec == BitcoinAnchorInit /\ [][BitcoinAnchorNext]_bitcoinAnchorVars

\* The process runs on and is restarted after a panic, and Bitcoin mines what is
\* in its pool and goes on while listsinceblock waits for more confirmations.
BitcoinAnchorFairSpec ==
    /\ BitcoinAnchorSpec
    /\ WF_bitcoinAnchorVars(SynchronizeBitcoinData)
    /\ WF_bitcoinAnchorVars(AnchorBlocksIntoBitcoin)
    /\ WF_bitcoinAnchorVars(Round \/ BitcoinRelaunch)
    /\ WF_bitcoinAnchorVars(MineAll /\ UNCHANGED <<processVars, dbVars, anchorVars>>)

-----------------------------------------------------------------------------
(* Properties. *)

AnchorTxs(h) == {i \in DOMAIN btcTx : btcTx[i].kind = "anchor" /\ btcTx[i].h = h}

\* Between two failures that lose track of a send, a directory block is sent
\* into Bitcoin at most once: no replay, malleation or failed
\* call makes the loops send it again.
AnchoredOncePerFault ==
    \A h \in Height : \A i, j \in AnchorTxs(h) :
        btcTx[i].of # btcTx[j].of => btcTx[i].epoch # btcTx[j].epoch

\* Once the lastBitcoin of a database on disk has passed a confirmed anchor, its
\* block has a txid and a block hash, so it will not be anchored again.
CheckedAnchorsAreKnown ==
    Persistent =>
        \A id \in TxsBetween(0, ForkPoint(lastBitcoin)) :
            btcTx[id].kind = "anchor" =>
                /\ Known(btcTx[id].h)
                /\ anchorData[btcTx[id].h]["Bitcoin"].txid # 0
                /\ anchorData[btcTx[id].h]["Bitcoin"].block # 0

\* The block hash kept for an anchor is that of a block that includes the
\* transaction kept with it, for the same directory block.
StoredHashHoldsAnchor ==
    \A h \in Height : Known(h) =>
        LET a == anchorData[h]["Bitcoin"] IN
        a.block # 0 /\ a.rec = 0 =>
            /\ a.txid \in btcBlocks[a.block].txs
            /\ a.txid \in AnchorTxs(h)

\* The older-blocks loop does not end before its batch is used up, or the funds
\* are, while a known block is left without a transaction.
NoBlockPassedOver ==
    [][pc = "older" /\ pc' = "save" /\ count < AnchorBatch /\ ~OutOfFunds(height) =>
        \A h \in Height : ~NeedsAnchor(h)]_bitcoinAnchorVars

\* Neither component step changes an anchor that has its block hash or its
\* record, whatever other transactions for the same block are found.
ConfirmedAnchorKept ==
    [][(SynchronizeBitcoinData \/ AnchorBlocksIntoBitcoin) =>
        \A h \in Height :
            Known(h) /\ (\/ anchorData[h]["Bitcoin"].block # 0
                         \/ anchorData[h]["Bitcoin"].rec > 0) =>
                anchorData'[h] = anchorData[h]]_bitcoinAnchorVars

\* bitcoind knows the transaction of a block no more, in any form of it.
TxDropped(h) ==
    LET t == anchorData[h]["Bitcoin"].txid IN
    /\ t \in DOMAIN btcTx
    /\ \A i \in mempool \cup Confirmed : btcTx[i].of # btcTx[t].of

\* Every known block is confirmed in Bitcoin or has a record in the end, when
\* failures are finite and the wallet has funds; only a block whose transaction
\* bitcoind has dropped is left, since its txid makes the loop pass it for good.
EveryBlockConfirmed ==
    \A h \in Height :
        Known(h) ~> Known(h) /\ (\/ anchorData[h]["Bitcoin"].block # 0
                                 \/ anchorData[h]["Bitcoin"].rec > 0
                                 \/ TxDropped(h))

\* Anchoring is reached again and again: the synchronization, which lists a
\* transaction again and again until it has MinConfirmations, comes to an end.
AnchoringReached == []<>(pc = "anchor")

\* "To ensure the program is safely shut down, interrupts only happen after a full
\* loop": an error bitcoind answers with does not end the process in mid-loop.
RpcErrorEndsNothing == pc # "rpcPanic"

\* The block hash is stored when the anchor is "embedded into the blockchain
\* permanently": a block replaced at the tip was not.
StoredHashOnMainChain ==
    \A h \in Height :
        Known(h) /\ anchorData[h]["Bitcoin"].block # 0 =>
            \E i \in DOMAIN mainChain : mainChain[i] = anchorData[h]["Bitcoin"].block
=============================================================================

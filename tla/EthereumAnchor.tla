--------------------------- MODULE EthereumAnchor ---------------------------
(***************************************************************************)
(* SynchronizeEthereumData and AnchorBlocksIntoEthereum                    *)
(* (ethereum/ethereum.go).  main has their calls commented out; they are   *)
(* modelled where those calls stand, in a loop of synchronization and      *)
(* anchoring, and with the database as the first argument of               *)
(* AnchorBlockByHeight, which one call lacks.                              *)
(*                                                                         *)
(* As in BitcoinAnchor, the Factom side is a general environment.          *)
(***************************************************************************)
EXTENDS AnchorProcess, EthereumNetwork, FiniteSetsExt

CONSTANT IgnoreWrongEntries   \* the setting of that name

ASSUME IgnoreAssumption == IgnoreWrongEntries \in BOOLEAN

VARIABLES
    lastEthereum,  \* ProgramState.LastEthereumBlockChecked
    txs,           \* the listed transactions still to process
    page,          \* the block that is checked up to once they are
    height, count, sent   \* as in BitcoinAnchor

ethAnchorVars == <<txs, page, height, count, sent>>
ethereumAnchorVars == <<processVars, dbVars, lastEthereum, ethVars, ethAnchorVars>>

\* A function returns, and its locals are gone.
Forget == txs' = {} /\ page' = 0 /\ height' = 0 /\ count' = 0 /\ sent' = 0

-----------------------------------------------------------------------------
(* SynchronizeEthereumData. *)

NoTxs ==
    /\ pc = "syncEthereum"
    /\ TxsFrom(lastEthereum) = {}
    /\ Normally("synced")
    /\ UNCHANGED <<progress, dbVars, lastEthereum, ethVars, ethAnchorVars>>

\* Mutants of Checked: every page ends with its last block; none does.
CheckedAlways(S) == Max({t.block : t \in S}) + 1
CheckedNever(S) == Max({t.block : t \in S})

\* The last block of a full page may have more transactions.
Checked(S) ==
    LET lastBlock == Max({t.block : t \in S}) IN
    IF Cardinality(S) < EthPage THEN lastBlock + 1 ELSE lastBlock

ListTxs ==
    /\ pc = "syncEthereum"
    /\ TxsFrom(lastEthereum) # {}
    /\ txs' \in FirstPages(TxsFrom(lastEthereum))
    /\ page' = Checked(txs')
    /\ progress' = TRUE
    /\ Normally("ethTx")
    /\ UNCHANGED <<dbVars, lastEthereum, ethVars, height, count, sent>>

\* An anchor of a known block that has neither a record nor a txid.
IsNewEthAnchor(t) ==
    /\ ethTx[t.id].kind = "anchor"
    /\ LET h == ethTx[t.id].h IN
        /\ Known(h)
        /\ anchorData[h]["Ethereum"].rec = 0
        /\ anchorData[h]["Ethereum"].txid = 0

SaveEthTx(t) ==
    LET h == ethTx[t.id].h IN
    InsertAnchorData(h, [anchorData[h] EXCEPT !["Ethereum"].txid = t.id,
                                              !["Ethereum"].block = t.block])

\* An anchor of a block that is not in the database ends the call with an error
\* unless wrong entries are ignored.
Refused(t) ==
    ethTx[t.id].kind = "anchor" /\ ~Known(ethTx[t.id].h) /\ ~IgnoreWrongEntries

NextTx(t) == t \in txs /\ \A u \in txs : t.block <= u.block

ProcessEthTx ==
    /\ pc = "ethTx"
    /\ \E t \in txs :
        /\ NextTx(t) /\ ~Refused(t)
        /\ txs' = txs \ {t}
        /\ IF IsNewEthAnchor(t) THEN SaveEthTx(t) ELSE UNCHANGED anchorData
    /\ UNCHANGED <<processVars, chainHead, lastFactom, lastBitcoin, lastEthereum,
                   ethVars, page, height, count, sent>>

RefuseEthTx ==
    /\ pc = "ethTx"
    /\ \E t \in txs : NextTx(t) /\ Refused(t)
    /\ Normally("loop")
    /\ Forget
    /\ UNCHANGED <<progress, dbVars, lastEthereum, ethVars>>

SaveEthereumState ==
    /\ pc = "ethTx"
    /\ txs = {}
    /\ lastEthereum' = page
    /\ Normally("syncEthereum")
    /\ Forget
    /\ UNCHANGED <<progress, dbVars, ethVars>>

SynchronizeEthereumData ==
    NoTxs \/ ListTxs \/ ProcessEthTx \/ RefuseEthTx \/ SaveEthereumState

-----------------------------------------------------------------------------
(* AnchorBlocksIntoEthereum. *)

BeginEthereum ==
    /\ pc = "anchor"
    /\ height' = AfterHead
    /\ count' = 0
    /\ Normally("newest")
    /\ UNCHANGED <<progress, dbVars, lastEthereum, ethVars, txs, page, sent>>

NeedsEthAnchor(h) == Known(h) /\ anchorData[h]["Ethereum"].txid = 0

\* Where AnchorBlockByHeight is, and the height it is called with.
At(h) ==
    \/ pc = "newest" /\ h = lastFactom
    \/ pc = "older" /\ count < AnchorBatch /\ h = height

\* PersonalSignAndSendTransaction answers with the hash.
SendEthAnchor ==
    /\ \E h \in Height : At(h) /\ NeedsEthAnchor(h) /\ SendEthTx(h, "anchor", faults)
    /\ sent' = Len(ethTx')
    /\ Normally(IF pc = "newest" THEN "recordNewest" ELSE "recordOlder")
    /\ UNCHANGED <<progress, dbVars, lastEthereum, txs, page, height, count>>

\* done and skip of the newest block are ignored.
NewestEthNotSent ==
    /\ pc = "newest"
    /\ ~NeedsEthAnchor(lastFactom)
    /\ Normally("older")
    /\ UNCHANGED <<progress, dbVars, lastEthereum, ethVars, ethAnchorVars>>

\* Mutant of RecordEthHash: the hash of the newest block is not written.
RecordEthHashOlder ==
    /\ \/ pc = "recordNewest" /\ UNCHANGED <<anchorData, height, count>>
       \/ /\ pc = "recordOlder"
          /\ InsertAnchorData(height, [anchorData[height] EXCEPT !["Ethereum"].txid = sent])
          /\ height' = height + 1 /\ count' = count + 1
    /\ sent' = 0
    /\ Normally("older")
    /\ UNCHANGED <<progress, chainHead, lastFactom, lastBitcoin, lastEthereum,
                   ethVars, txs, page>>

RecordEthHash ==
    /\ pc \in {"recordNewest", "recordOlder"}
    /\ LET h == IF pc = "recordNewest" THEN lastFactom ELSE height IN
        InsertAnchorData(h, [anchorData[h] EXCEPT !["Ethereum"].txid = sent])
    /\ \/ pc = "recordNewest" /\ UNCHANGED <<height, count>>
       \/ pc = "recordOlder" /\ height' = height + 1 /\ count' = count + 1
    /\ sent' = 0
    /\ Normally("older")
    /\ UNCHANGED <<progress, chainHead, lastFactom, lastBitcoin, lastEthereum,
                   ethVars, txs, page>>

SkipOlderEth ==
    /\ pc = "older"
    /\ count < AnchorBatch
    /\ Known(height) /\ ~NeedsEthAnchor(height)
    /\ height' = height + 1
    /\ UNCHANGED <<processVars, dbVars, lastEthereum, ethVars, txs, page, count, sent>>

OlderEthDone ==
    /\ pc = "older"
    /\ count = AnchorBatch \/ ~Known(height)
    /\ Normally("loop")
    /\ Forget
    /\ UNCHANGED <<progress, dbVars, lastEthereum, ethVars>>

AnchorBlocksIntoEthereum ==
    \/ BeginEthereum \/ SendEthAnchor \/ NewestEthNotSent \/ RecordEthHash
    \/ SkipOlderEth \/ OlderEthDone

-----------------------------------------------------------------------------
(* Failures. *)

EthereumFails ==
    /\ pc \in {"syncEthereum", "ethTx", "anchor", "newest", "older"}
    /\ FailedCall
    /\ Forget
    /\ UNCHANGED <<dbVars, lastEthereum, ethVars>>

\* The transaction is sent and its reply is lost.
EthReplyLost ==
    /\ \E h \in Height : At(h) /\ NeedsEthAnchor(h) /\ SendEthTx(h, "anchor", faults)
    /\ Fault("lostReply", "loop")
    /\ Forget
    /\ UNCHANGED <<dbVars, lastEthereum>>

\* The write of its hash fails.
RecordEthHashFails ==
    /\ pc \in {"recordNewest", "recordOlder"}
    /\ Fault("unsaved", "loop")
    /\ Forget
    /\ UNCHANGED <<dbVars, lastEthereum, ethVars>>

-----------------------------------------------------------------------------
(* The environment. *)

\* SynchronizeFactomData, in a loop without failures up to the last block of the
\* instance: a new block and the checkpoint, or a record of this network, which is
\* never in block 0.
FactomMoves ==
    /\ pc = "loop"
    /\ \/ \E h \in Height :
            /\ ~Known(h) /\ \A k \in 0..(h - 1) : Known(k)
            /\ InsertAnchorData(h, NewAnchorData)
            /\ lastFactom' = h
       \/ \E h \in Height :
            /\ Known(h) /\ anchorData[h]["Ethereum"].rec = 0 /\ MaxHeight > 0
            /\ InsertAnchorData(h, [anchorData[h] EXCEPT !["Ethereum"] =
                    [txid |-> 1, block |-> 1, entry |-> 1, rec |-> MaxHeight]])
            /\ UNCHANGED lastFactom
    /\ UNCHANGED <<processVars, chainHead, lastBitcoin, lastEthereum, ethVars,
                   ethAnchorVars>>

EthRound ==
    /\ \/ pc = "loop" /\ Normally("syncEthereum") /\ progress' = FALSE
       \/ pc = "synced" /\ progress /\ Normally("loop") /\ UNCHANGED progress
       \/ pc = "synced" /\ ~progress /\ Normally("anchor") /\ UNCHANGED progress
    /\ UNCHANGED <<dbVars, lastEthereum, ethVars, ethAnchorVars>>

\* Ethereum mines, and others use the contract or the wallet.
EthereumMoves ==
    /\ MineEthBlock \/ OtherEthTx(MaxFaults + 1)
    /\ UNCHANGED <<processVars, dbVars, lastEthereum, ethAnchorVars>>

EthereumRestart ==
    /\ Fault("crash", "loop")
    /\ ReopenDatabase
    /\ IF Persistent THEN UNCHANGED lastEthereum ELSE lastEthereum' = 0
    /\ Forget
    /\ UNCHANGED ethVars

EthereumAnchorInit ==
    /\ pc = "loop" /\ faults = 0 /\ errors = 0 /\ progress = FALSE
    /\ DatabaseInit /\ lastEthereum = 0
    /\ EthereumInit
    /\ txs = {} /\ page = 0 /\ height = 0 /\ count = 0 /\ sent = 0

EthereumAnchorNext ==
    \/ SynchronizeEthereumData \/ AnchorBlocksIntoEthereum
    \/ EthereumFails \/ EthReplyLost \/ RecordEthHashFails
    \/ FactomMoves \/ EthRound \/ EthereumMoves \/ EthereumRestart

EthereumAnchorSpec == EthereumAnchorInit /\ [][EthereumAnchorNext]_ethereumAnchorVars

EthereumAnchorFairSpec ==
    /\ EthereumAnchorSpec
    /\ WF_ethereumAnchorVars(SynchronizeEthereumData)
    /\ WF_ethereumAnchorVars(AnchorBlocksIntoEthereum)
    /\ WF_ethereumAnchorVars(EthRound)

-----------------------------------------------------------------------------
(* Properties. *)

\* Between two faults this process sends a directory block to the contract once.
EthSentOncePerFault ==
    \A i, j \in DOMAIN ethTx :
        /\ i # j /\ ethTx[i].kind = "anchor" /\ ethTx[j].kind = "anchor"
        /\ ethTx[i].epoch <= MaxFaults
        /\ ethTx[i].h = ethTx[j].h
        => ethTx[i].epoch # ethTx[j].epoch

\* No page is left half read: once the checked block is past a transaction that
\* anchors a block which is known all along, that block has a txid.
CheckedEthAnchorsAreKnown ==
    ~IgnoreWrongEntries /\ Persistent =>
        \A b \in DOMAIN ethBlocks : b < lastEthereum =>
            \A id \in ethBlocks[b] : ethTx[id].kind = "anchor" =>
                /\ Known(ethTx[id].h)
                /\ anchorData[ethTx[id].h]["Ethereum"].txid # 0

\* The synchronization comes to an end and anchoring is reached, unless a block
\* fills a page, or an anchor of a block outside of the database is refused.
FullBlock == \E b \in DOMAIN ethBlocks : Cardinality(ethBlocks[b]) >= EthPage
AnchorOutside ==
    /\ ~IgnoreWrongEntries
    /\ \E t \in TxsFrom(lastEthereum) : Refused(t)
EthereumGoesOn == []<>(pc = "anchor") \/ <>[]FullBlock \/ <>[]AnchorOutside
=============================================================================

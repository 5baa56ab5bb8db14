----------------------------- MODULE Anchormaker -----------------------------
(***************************************************************************)
(* The whole program (newMain.go): the main loop with SynchronizationLoop  *)
(* and AnchorLoop, run against factomd and bitcoind, with clean stops,     *)
(* crashes and restarts.                                                   *)
(***************************************************************************)
EXTENDS FactomSync, BitcoinAnchor, FactomRecord

CONSTANTS
    Interrupts,  \* the operator may stop the process after a full loop
    NetworkIds   \* the ids that transactions, blocks and entries get

ASSUME ProgramAssumption ==
    /\ Interrupts \in BOOLEAN
    /\ NetworkIds \subseteq Nat \ {0}

vars == <<processVars, dbVars, factomVars, syncVars, btcVars, anchorVars,
          recordVars>>

-----------------------------------------------------------------------------
(* The components. *)

FactomSyncStep ==
    /\ SynchronizeFactomData \/ FactomSyncFails
    /\ UNCHANGED <<btcVars, anchorVars, recordVars>>

BitcoinAnchorStep ==
    /\ SynchronizeBitcoinData \/ AnchorBlocksIntoBitcoin \/ BitcoinAnchorFailures
    /\ UNCHANGED <<factomVars, syncVars, recordVars>>

FactomRecordStep ==
    /\ SaveAnchorsIntoFactom \/ FactomRecordFailures
    /\ UNCHANGED <<syncVars, btcVars, anchorVars>>

-----------------------------------------------------------------------------
(* The main loop. *)

OtherVars == <<progress, factomVars, syncVars, btcVars, anchorVars>>

\* No interrupt is waiting: SynchronizationLoop starts.
StartLoop ==
    /\ pc = "loop"
    /\ Normally("syncFactom")
    /\ UNCHANGED <<OtherVars, dbVars, recordVars>>

\* The synchronizations repeat until neither found anything, then AnchorLoop.
SynchronizedOnce ==
    /\ pc = "synced"
    /\ IF progress THEN Normally("syncFactom") ELSE Normally("anchor")
    /\ UNCHANGED <<OtherVars, dbVars, recordVars>>

\* The interrupt is taken between two loops.  A Map database is gone with it.
Stop ==
    /\ Interrupts
    /\ pc = "loop"
    /\ IF Persistent THEN Normally("down") ELSE Fault("crash", "down")
    /\ ReopenDatabase
    /\ UNCHANGED <<OtherVars, recordVars>>

\* The fifth interrupt, or any other death of the process.
Crash ==
    /\ pc \notin {"panic", "rpcPanic", "down"}
    /\ Fault("crash", "down")
    /\ ReopenDatabase
    /\ ForgetAnchoring
    /\ ForgetSaving
    /\ UNCHANGED <<factomVars, syncVars, btcVars, revealed>>

Start ==
    /\ pc = "down"
    /\ Normally("loop")
    /\ UNCHANGED <<OtherVars, dbVars, recordVars>>

\* After a panic of the Bitcoin anchoring.
StartAfterPanic ==
    /\ BitcoinRelaunch
    /\ UNCHANGED <<factomVars, syncVars, recordVars>>

MainStep == StartLoop \/ SynchronizedOnce

-----------------------------------------------------------------------------
(* The networks. *)

FactomGrows ==
    /\ MineDBlock \/ SomeoneReveals
    /\ UNCHANGED <<processVars, dbVars, syncVars, btcVars, anchorVars, recordVars>>

BitcoinGrows ==
    /\ BitcoinMoves
    /\ UNCHANGED <<factomVars, syncVars, recordVars>>

Init == FactomSyncInit /\ BitcoinAnchorInit /\ FactomRecordInit

Next ==
    \/ FactomSyncStep
    \/ BitcoinAnchorStep
    \/ FactomRecordStep
    \/ MainStep
    \/ Stop
    \/ Crash
    \/ Start
    \/ StartAfterPanic
    \/ FactomGrows
    \/ BitcoinGrows

Spec == Init /\ [][Next]_vars

\* The process runs and is restarted; both networks take up what they were sent.
FairSpec ==
    /\ Spec
    /\ WF_vars(FactomSyncStep)
    /\ WF_vars(BitcoinAnchorStep)
    /\ WF_vars(FactomRecordStep)
    /\ WF_vars(MainStep \/ Start \/ StartAfterPanic)
    /\ WF_vars(BitcoinGrows /\ MineBtcBlock /\ mempool # {} /\ mempool' = {})

-----------------------------------------------------------------------------
(* Properties of the composition. *)

TypeOK ==
    /\ ProcessTypeOK
    /\ DatabaseTypeOK
    /\ FactomTypeOK
    /\ BitcoinTypeOK
    /\ nextHeight \in 0..(MaxHeight + 1) /\ cur \in 0..(MaxHeight + 1)
    /\ listed \subseteq [id: DOMAIN btcTx, block: DOMAIN btcBlocks]
    /\ newBlock \in 0..Len(btcBlocks) /\ sent \in 0..Len(btcTx)
    /\ height \in 0..(MaxHeight + 1) /\ at \in 0..(MaxHeight + 1)
    /\ count \in 0..AnchorBatch /\ batch \in 0..AnchorBatch
    /\ held \in [Networks -> 0..Len(entries)]
    /\ revealed \subseteq [id: DOMAIN entries, epoch: 0..MaxFaults]

\* Every record this process reveals is true: the block it cites was mined and
\* includes the transaction it cites, which anchors the block it is about.
OwnRecordsAreTrue ==
    \A r \in revealed :
        LET e == entries[r.id] IN
        /\ e.net = "Bitcoin"
        /\ e.block \in DOMAIN btcBlocks
        /\ e.txid \in btcBlocks[e.block].txs
        /\ e.txid \in AnchorTxs(e.h)

\* A directory block is not sent again when an anchor for it is confirmed at or
\* below the checked Bitcoin block.
SendsAgain(h) ==
    /\ Len(btcTx') = Len(btcTx) + 1
    /\ btcTx'[Len(btcTx')].kind = "anchor"
    /\ btcTx'[Len(btcTx')].h = h
    /\ btcTx'[Len(btcTx')].of = Len(btcTx')
    /\ \E id \in TxsBetween(0, ForkPoint(lastBitcoin)) : id \in AnchorTxs(h)
ConfirmedNeverSentAgain == [][\A h \in Height : ~SendsAgain(h)]_vars

\* Every closed directory block gets its record revealed in the end.
EveryBlockGetsRecord ==
    \A h \in Height :
        BlockExists(h) ~> Known(h) /\ anchorData[h]["Bitcoin"].entry # 0

-----------------------------------------------------------------------------
(* The program implements the component specification of its first part. *)

\* Where FactomSync stands while other parts of the loop run.
SyncPc ==
    IF pc \in FactomSteps \cup {"panic"} THEN pc
    ELSE IF pc \in {"loop", "down", "rpcPanic"} THEN "loop"
    ELSE "syncBitcoin"

\* The other signers' entries, and one for each block and fault of this process.
EntriesOfAll == MaxEntries + (MaxHeight + 1) * (MaxFaults + 1)

Sync == INSTANCE FactomSync WITH
    pc <- SyncPc, lastBitcoin <- 0, Ids <- NetworkIds, MaxEntries <- EntriesOfAll
ImplementsFactomSync == Sync!FactomSyncSpec

-----------------------------------------------------------------------------
(* The program keeps the promise made for each directory block. *)

\* The stage of a block, read off its AnchorData.
StageOf(h) ==
    IF ~Known(h) THEN "unknown"
    ELSE LET a == anchorData[h]["Bitcoin"] IN
         IF a.rec > 0 THEN "finished"
         ELSE IF a.entry # 0 THEN "revealed"
         ELSE IF a.block # 0 THEN "confirmed"
         ELSE IF a.txid # 0 THEN "sent"
         ELSE "new"

Lifecycle == INSTANCE AnchorLifecycle WITH
    Heights <- Height, stage <- [h \in Height |-> StageOf(h)], done <- AfterHead
ImplementsLifecycle == Lifecycle!LifecycleSpec
=============================================================================

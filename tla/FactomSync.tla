----------------------------- MODULE FactomSync -----------------------------
(***************************************************************************)
(* SynchronizeFactomData (factom/factom.go): read the new directory        *)
(* blocks, save the anchor records found in them, move the AnchorData      *)
(* chain head and advance the program state, one database write at a time. *)
(*                                                                         *)
(* FactomSyncSpec puts it in a general environment: factomd closes blocks, *)
(* any trusted signer reveals records, the rest of the loop fills in       *)
(* anchors, and the process fails or restarts between any two writes.      *)
(***************************************************************************)
EXTENDS AnchorProcess, FactomNetwork, FiniteSets

CONSTANTS
    Ids,          \* transaction, block and entry ids of the environment
    MaxEntries    \* bound on the entries revealed

ASSUME SyncAssumption == Ids \subseteq Nat \ {0} /\ MaxEntries \in Nat

VARIABLES
    nextHeight,  \* next directory block to fetch
    cur,         \* dBlockList is cur..(nextHeight - 1); cur is being processed
    todo         \* anchor-chain entries of cur still to process

syncVars == <<nextHeight, cur, todo>>
factomSyncVars == <<processVars, dbVars, factomVars, syncVars>>

-----------------------------------------------------------------------------
(* The steps of SynchronizeFactomData. *)

\* Mutants of SyncFactom: the last block is always read again; height 0 is not
\* special.
SyncFactomRereads ==
    /\ pc = "syncFactom"
    /\ nextHeight' = lastFactom
    /\ cur' = nextHeight'
    /\ todo' = {}
    /\ progress' = FALSE
    /\ Normally("fetch")
    /\ UNCHANGED <<dbVars, factomVars>>

SyncFactomSkipsGenesis ==
    /\ pc = "syncFactom"
    /\ nextHeight' = lastFactom + 1
    /\ cur' = nextHeight'
    /\ todo' = {}
    /\ progress' = FALSE
    /\ Normally("fetch")
    /\ UNCHANGED <<dbVars, factomVars>>

\* The call: height 0 is read again for as long as nothing beyond it is known.
SyncFactom ==
    /\ pc = "syncFactom"
    /\ nextHeight' = IF lastFactom > 0 THEN lastFactom + 1 ELSE 0
    /\ cur' = nextHeight'
    /\ todo' = {}
    /\ progress' = FALSE
    /\ Normally("fetch")
    /\ UNCHANGED <<dbVars, factomVars>>

FetchDBlock ==
    /\ pc = "fetch"
    /\ BlockExists(nextHeight)
    /\ nextHeight' = nextHeight + 1
    /\ UNCHANGED <<processVars, dbVars, factomVars, cur, todo>>

\* "Block not found" ends the list: process it, or return when it is empty.
FetchDone ==
    /\ pc = "fetch"
    /\ BlockNotFound(nextHeight)
    /\ \/ /\ cur < nextHeight
          /\ todo' = EntriesIn(cur)
          /\ Normally("entries")
       \/ /\ cur = nextHeight
          /\ todo' = todo
          /\ Normally("syncBitcoin")
    /\ UNCHANGED <<dbVars, factomVars, nextHeight, cur, progress>>

\* Mutant of WithRecord: the block hash of the record is not taken over.
WithRecordOldBlock(ad, id) ==
    [ad EXCEPT ![entries[id].net] =
        [txid |-> entries[id].txid, block |-> @.block, entry |-> id, rec |-> cur]]

\* What an accepted record makes of the AnchorData it is about.
WithRecord(ad, id) ==
    [ad EXCEPT ![entries[id].net] =
        [txid |-> entries[id].txid, block |-> entries[id].block,
         entry |-> id, rec |-> cur]]

\* An invalid record and one with the wrong KeyMR are skipped.
SkipEntry(id) ==
    /\ \/ entries[id].kind = "unsigned"
       \/ entries[id].kind = "wrongKeyMR" /\ Known(entries[id].h)
    /\ UNCHANGED <<processVars, dbVars>>

SaveRecord(id) ==
    /\ entries[id].kind = "anchor"
    /\ Known(entries[id].h)
    /\ InsertAnchorData(entries[id].h,
                        WithRecord(FetchAnchorData(entries[id].h), id))
    /\ progress' = TRUE
    /\ UNCHANGED <<pc, faults, errors, chainHead, lastFactom, lastBitcoin>>

\* FetchAnchorData found nothing and DBlockKeyMR is read through nil.
RecordOfUnknownBlock(id) ==
    /\ entries[id].kind # "unsigned"
    /\ ~Known(entries[id].h)
    /\ Normally("panic")
    /\ UNCHANGED <<dbVars, progress>>

ProcessEntry ==
    /\ pc = "entries"
    /\ \E id \in todo :
        /\ SkipEntry(id) \/ SaveRecord(id) \/ RecordOfUnknownBlock(id)
        /\ todo' = todo \ {id}
    /\ UNCHANGED <<factomVars, nextHeight, cur>>

\* Mutant of InsertDBlock: it does not look whether the block is known.
InsertDBlockAnew ==
    /\ pc = "entries"
    /\ todo = {}
    /\ InsertAnchorData(cur, NewAnchorData)
    /\ progress' = TRUE
    /\ Normally("head")
    /\ UNCHANGED <<factomVars, chainHead, lastFactom, lastBitcoin,
                   nextHeight, cur, todo>>

InsertDBlock ==
    /\ pc = "entries"
    /\ todo = {}
    /\ \/ Known(cur) /\ UNCHANGED <<anchorData, progress>>
       \/ ~Known(cur) /\ InsertAnchorData(cur, NewAnchorData) /\ progress' = TRUE
    /\ Normally("head")
    /\ UNCHANGED <<factomVars, chainHead, lastFactom, lastBitcoin,
                   nextHeight, cur, todo>>

UpdateHead ==
    /\ pc = "head"
    /\ \/ UpdateAnchorDataHead /\ Normally("state")
       \/ ScanDereferencesNil /\ Normally("panic") /\ UNCHANGED chainHead
    /\ UNCHANGED <<progress, factomVars, anchorData, lastFactom, lastBitcoin,
                   syncVars>>

\* Mutants of SaveFactomState: the next block to read, or the end of the list,
\* is saved as checked.
SaveFactomStateNext ==
    /\ pc = "state"
    /\ lastFactom' = cur + 1
    /\ cur' = cur + 1
    /\ \/ cur + 1 < nextHeight /\ todo' = EntriesIn(cur + 1) /\ Normally("entries")
       \/ cur + 1 = nextHeight /\ todo' = {} /\ Normally("syncBitcoin")
    /\ UNCHANGED <<factomVars, anchorData, chainHead, lastBitcoin,
                   nextHeight, progress>>

SaveFactomStateOfList ==
    /\ pc = "state"
    /\ lastFactom' = nextHeight - 1
    /\ cur' = cur + 1
    /\ \/ cur + 1 < nextHeight /\ todo' = EntriesIn(cur + 1) /\ Normally("entries")
       \/ cur + 1 = nextHeight /\ todo' = {} /\ Normally("syncBitcoin")
    /\ UNCHANGED <<factomVars, anchorData, chainHead, lastBitcoin,
                   nextHeight, progress>>

\* Save the program state; go on with the next block of the list or return.
SaveFactomState ==
    /\ pc = "state"
    /\ lastFactom' = cur
    /\ cur' = cur + 1
    /\ \/ cur + 1 < nextHeight /\ todo' = EntriesIn(cur + 1) /\ Normally("entries")
       \/ cur + 1 = nextHeight /\ todo' = {} /\ Normally("syncBitcoin")
    /\ UNCHANGED <<factomVars, anchorData, chainHead, lastBitcoin,
                   nextHeight, progress>>

\* A call to factomd or to the database fails: what was written stays.
FactomSyncFails ==
    /\ pc \in FactomSteps
    /\ FailedCall
    /\ UNCHANGED <<dbVars, factomVars, syncVars>>

SynchronizeFactomData ==
    \/ SyncFactom \/ FetchDBlock \/ FetchDone \/ ProcessEntry
    \/ InsertDBlock \/ UpdateHead \/ SaveFactomState

-----------------------------------------------------------------------------
(* The environment of the synchronization. *)

CloseBlock ==
    /\ MineDBlock
    /\ UNCHANGED <<processVars, dbVars, syncVars>>

\* A trusted signer, this process or another one, records a closed block.
SomeoneReveals ==
    /\ Len(entries) < MaxEntries
    /\ \E h \in Height, n \in Networks, t \in Ids, b \in Ids, k \in Kinds :
        /\ k = "anchor" => BlockExists(h)
        /\ k # "anchor" => n = "Bitcoin"  \* its network is never read
        /\ k = "unsigned" => h = 0        \* nor is the height of an invalid one
        /\ RevealEntry([h |-> h, net |-> n, txid |-> t, block |-> b, kind |-> k])

SignerReveals ==
    /\ SomeoneReveals
    /\ UNCHANGED <<processVars, dbVars, syncVars>>

Outside == {"loop", "syncBitcoin"}

\* The rest of the loop (which anchors into Bitcoin only) fills in anchors that
\* have no record yet, and leaves no field empty that was not.
FillAnchor ==
    \E h \in Height, t \in Ids, b, e \in Ids \cup {0} :
        /\ Known(h)
        /\ LET a == anchorData[h]["Bitcoin"] IN
            a.rec = 0 /\ (a.block # 0 => b # 0) /\ (a.entry # 0 => e # 0)
        /\ InsertAnchorData(h, [anchorData[h] EXCEPT !["Bitcoin"] =
                [txid |-> t, block |-> b, entry |-> e, rec |-> 0]])

\* It goes on until it ends,
RestOfLoopSteps ==
    /\ pc = "syncBitcoin"
    /\ FillAnchor \/ UNCHANGED anchorData
    /\ Normally("syncBitcoin") \/ Normally("loop")
    /\ progress' \in {progress, TRUE}
    /\ UNCHANGED <<chainHead, lastFactom, lastBitcoin, factomVars, syncVars>>

\* or until it fails, perhaps with a record revealed.
RestOfLoopFails ==
    /\ pc = "syncBitcoin"
    /\ FailedCall \/ \E k \in FaultKinds : Fault(k, "loop")
    /\ SomeoneReveals \/ UNCHANGED factomVars
    /\ UNCHANGED <<dbVars, syncVars>>

\* The main loop comes round to the synchronization again.
CallAgain ==
    /\ pc \in Outside
    /\ Normally("syncFactom")
    /\ UNCHANGED <<progress, dbVars, factomVars, syncVars>>

\* The process dies between any two writes and is started again.
Restart ==
    /\ pc # "panic"
    /\ Fault("crash", "loop")
    /\ ReopenDatabase
    /\ UNCHANGED <<factomVars, syncVars>>

FactomSyncInit ==
    /\ pc = "loop" /\ faults = 0 /\ errors = 0
    /\ DatabaseInit
    /\ FactomInit
    /\ nextHeight = 0 /\ cur = 0 /\ todo = {} /\ progress = FALSE

FactomSyncNext ==
    \/ SynchronizeFactomData
    \/ FactomSyncFails
    \/ CloseBlock
    \/ SignerReveals
    \/ RestOfLoopSteps
    \/ RestOfLoopFails
    \/ CallAgain
    \/ Restart

FactomSyncSpec == FactomSyncInit /\ [][FactomSyncNext]_factomSyncVars

FactomSyncFairSpec ==
    /\ FactomSyncSpec
    /\ WF_factomSyncVars(SynchronizeFactomData)
    /\ WF_factomSyncVars(CallAgain)

-----------------------------------------------------------------------------
(* Properties. *)

FactomSyncTypeOK ==
    /\ pc \in FactomSteps \cup Outside \cup {"panic"}
    /\ ProcessTypeOK
    /\ DatabaseTypeOK
    /\ FactomTypeOK
    /\ nextHeight \in 0..(MaxHeight + 1)
    /\ cur \in 0..(MaxHeight + 1)
    /\ todo \subseteq DOMAIN entries

\* The anchoring loops skip every block up to the chain head, so no block at
\* or below it may lack its record, whatever was replayed or failed.
HeadIsCompletePrefix ==
    chainHead # Nil => \A k \in 0..chainHead : Complete(k)

\* A RecordHeight is the height of a directory block that really includes the
\* record kept in the same AnchorData, for that block and network.
RecordPointsIntoChain ==
    \A h \in Height, n \in Networks :
        Known(h) /\ anchorData[h][n].rec > 0 =>
            LET a == anchorData[h][n] IN
            /\ BlockExists(a.rec)
            /\ a.entry \in EntriesIn(a.rec)
            /\ entries[a.entry] = [h |-> h, net |-> n, txid |-> a.txid,
                                   block |-> a.block, kind |-> "anchor"]

\* A restarted process reads on after the checkpoint, so no directory block and
\* no anchor record at or below it may have been missed.
CheckpointCoversRecords ==
    lastFactom > 0 =>
        \A b \in 0..lastFactom :
            /\ Known(b)
            /\ \A id \in EntriesIn(b) : entries[id].kind = "anchor" =>
                    anchorData[entries[id].h][entries[id].net].rec > 0

\* With a stored database no step, replay or restart takes back what is known:
\* a sent transaction, a finished record, the chain head or the checkpoint.
ProgressKept ==
    /\ lastFactom <= lastFactom'
    /\ AfterHead <= AfterHead'
    /\ \A h \in Height : Known(h) =>
        /\ Known(h)'
        /\ \A n \in Networks :
            /\ anchorData[h][n].txid # 0 => anchorData'[h][n].txid # 0
            /\ anchorData[h][n].rec > 0 => anchorData'[h][n].rec > 0
StoredProgressKept == [][Persistent => ProgressKept]_factomSyncVars

\* The head update and the record lookup never read through a nil pointer.
NoNilDereference == pc # "panic"

\* The two ways they can: block 0 is replayed (the checkpoint is still 0)
\* after the record for it was taken from block 1, or a record names a block
\* that was never read.
GenesisReplayed == RecordDelay = 1 /\ lastFactom = 0 /\ Complete(0)
RecordAhead ==
    /\ StrayRecords
    /\ \E id \in DOMAIN entries :
        entries[id].kind = "wrongKeyMR" /\ ~Known(entries[id].h)
OnlyKnownPanics == pc = "panic" => GenesisReplayed \/ RecordAhead

\* Every directory block that factomd closes is read in the end, whatever
\* finite number of calls fail or restarts happen.
EveryBlockRead ==
    \A h \in Height : BlockExists(h) ~> Known(h) /\ (h <= lastFactom)
=============================================================================

------------------------- MODULE AnchormakerProofs -------------------------
(***************************************************************************)
(* Proofs about the whole program (Anchormaker).  Each component's proofs  *)
(* say what its own steps keep, and what the steps of others must do for   *)
(* its invariant to stay; here the components are the others of each other.*)
(* The part that SynchronizeFactomData plays is carried over whole: the    *)
(* program implements FactomSync, so its inductive invariant holds of the  *)
(* mapped variables.  The last three sections are about what this comes    *)
(* to: that the database is right, what an anchor costs, what each         *)
(* component still promises, and that a round of the main loop ends.       *)
(***************************************************************************)
EXTENDS Anchormaker, BitcoinAnchorProofs, FactomRecordProofs, FiniteSetTheorems

\* FactomSync, and its proofs, as the program implements it: an id is any number.
S == INSTANCE FactomSyncProofs WITH
    pc <- SyncPc, lastBitcoin <- 0, Ids <- Nat \ {0}, MaxEntries <- EntriesOfAll

-----------------------------------------------------------------------------
(* The inductive invariant. *)

\* What is known was closed; nobody but the records of others fills in Ethereum.
KnownAreClosed == \A h \in Height : Known(h) => BlockExists(h)
EthereumByRecord ==
    \A h \in Height : Known(h) /\ anchorData[h]["Ethereum"].entry = 0 =>
        anchorData[h]["Ethereum"].block = 0

\* The entries beyond what others may reveal are this process' own.
OwnEntries ==
    \A id \in DOMAIN entries : id > MaxEntries => \E r \in revealed : r.id = id

ProgramInv ==
    /\ S!IInv
    /\ BitcoinInv
    /\ RecordInv
    /\ KnownAreClosed
    /\ EthereumByRecord
    /\ OwnEntries
    /\ OwnRecordsAreTrue

-----------------------------------------------------------------------------
(* The Factom synchronization in the program. *)

\* Where the synchronization stands is where the program stands.
LEMMA SyncPlace ==
    /\ pc \in {"syncFactom", "fetch", "entries", "head", "state", "panic"} => SyncPc = pc
    /\ pc \in {"loop", "down", "rpcPanic"} => SyncPc = "loop"
    /\ pc \notin {"syncFactom", "fetch", "entries", "head", "state", "panic", "loop",
                  "down", "rpcPanic"} => SyncPc = "syncBitcoin"
BY DEF SyncPc, FactomSteps

\* The instance reads the same variables but for pc and lastBitcoin.
LEMMA SameDatabase ==
    /\ S!Height = Height /\ S!Networks = Networks /\ S!NetAnchor = NetAnchor
    /\ S!AnchorData = AnchorData /\ S!NewAnchorData = NewAnchorData
    /\ \A h : S!FetchAnchorData(h) = FetchAnchorData(h)
    /\ \A h : S!Known(h) <=> Known(h)
    /\ \A h : S!Complete(h) <=> Complete(h)
    /\ \A h : S!BlockExists(h) <=> BlockExists(h)
    /\ \A h : S!EntriesIn(h) = EntriesIn(h)
    /\ S!AfterHead = AfterHead
BY DEF S!Height, Height, S!Networks, Networks, S!NetAnchor, NetAnchor, S!AnchorData,
       AnchorData, S!NewAnchorData, NewAnchorData, S!FetchAnchorData, FetchAnchorData,
       S!Known, Known, S!Complete, Complete, S!IsComplete, IsComplete, S!BlockExists,
       BlockExists, S!EntriesIn, EntriesIn, S!AfterHead, AfterHead

\* What the invariant of the synchronization says about the program.
LEMMA SyncFacts ==
    ASSUME S!IInv
    PROVE  /\ FactomTypeOK
           /\ nextHeight \in 0..(MaxHeight + 1) /\ cur \in 0..(MaxHeight + 1)
           /\ todo \subseteq DOMAIN entries
           /\ nextHeight <= Len(dblocks)
           /\ pc \in {"entries", "head", "state"} => cur < nextHeight
           /\ pc \in {"entries", "head", "state"} => \A k \in 0..(cur - 1) : Known(k)
           /\ HeadComplete
           /\ pc = "entries" => todo \subseteq EntriesIn(cur)
           /\ \A id \in DOMAIN entries : entries[id].txid # 0
           /\ \A b \in DOMAIN dblocks : \A id \in dblocks[b] :
                entries[id].kind = "anchor" => entries[id].h + RecordDelay <= b - 1
<1> USE DEF S!IInv
<1>1. /\ FactomTypeOK
      /\ nextHeight \in 0..(MaxHeight + 1) /\ cur \in 0..(MaxHeight + 1)
      /\ todo \subseteq DOMAIN entries
  BY SameDatabase
     DEF S!TypeInv, S!FactomSyncTypeOK, S!FactomTypeOK, FactomTypeOK, S!Entry, Entry,
         S!Kinds, Kinds
<1>2. /\ nextHeight <= Len(dblocks)
      /\ pc \in {"entries", "head", "state"} => cur < nextHeight
  BY SyncPlace DEF S!TypeInv, S!ListInChain, S!InBlock
<1>3. pc \in {"entries", "head", "state"} => \A k \in 0..(cur - 1) : Known(k)
  BY SyncPlace, SameDatabase DEF S!CoverInv, S!ListCovered, S!Reading, S!InBlock, S!Covered
<1>4. HeadComplete
  BY SameDatabase DEF S!HeadIsCompletePrefix, HeadComplete
<1>5. /\ pc = "entries" => todo \subseteq EntriesIn(cur)
      /\ \A id \in DOMAIN entries : entries[id].txid # 0
  BY SyncPlace, SameDatabase DEF S!OrderInv, S!TodoIsOfCur, S!RecordsNameTxs
<1>6. \A b \in DOMAIN dblocks : \A id \in dblocks[b] :
        entries[id].kind = "anchor" => entries[id].h + RecordDelay <= b - 1
  BY DEF S!OrderInv, S!RecordsAreLater, S!Timely
<1> QED
  BY <1>1, <1>2, <1>3, <1>4, <1>5, <1>6

-----------------------------------------------------------------------------
(* Every step of the program is a step of FactomSync, or none. *)

\* The control point and the counts, as FactomSync sees a step.
LEMMA SyncMoves ==
    /\ \A l \in {"syncFactom", "fetch", "entries", "head", "state", "panic", "syncBitcoin",
                 "loop"} : Normally(l) => S!Normally(l)
    /\ \A l \in {"synced", "tx", "anchor", "newest", "recordNewest", "older",
                 "recordOlder", "save", "saving"} :
            Normally(l) => S!Normally("syncBitcoin")
    /\ Normally("down") => S!Normally("loop")
    /\ FailedCall => S!FailedCall
    /\ Failed("rpcPanic") => S!FailedCall
    /\ \A k \in {"crash", "lostReply", "unsaved"}, l \in {"loop", "down", "rpcPanic"} :
            Fault(k, l) => S!Fault(k, "loop")
BY DEF Normally, S!Normally, FailedCall, S!FailedCall, Failed, S!Failed, Fault, S!Fault,
       Goto, S!Goto, SyncPc, FactomSteps

\* Its own steps.
LEMMA SyncKnown ==
    ASSUME NEW id
    PROVE  /\ SkipEntry(id) => S!SkipEntry(id)
           /\ SaveRecord(id) => S!SaveRecord(id)
           /\ RecordOfUnknownBlock(id) => S!RecordOfUnknownBlock(id)
<1>1. SkipEntry(id) => S!SkipEntry(id)
  BY SameDatabase
  DEF SkipEntry, S!SkipEntry, processVars, S!processVars, dbVars, S!dbVars, SyncPc
<1>2. SaveRecord(id) => S!SaveRecord(id)
  BY SameDatabase
  DEF SaveRecord, S!SaveRecord, InsertAnchorData, S!InsertAnchorData, WithRecord,
      S!WithRecord, SyncPc
<1>3. RecordOfUnknownBlock(id) => S!RecordOfUnknownBlock(id)
  BY SameDatabase, SyncMoves
  DEF RecordOfUnknownBlock, S!RecordOfUnknownBlock, dbVars, S!dbVars
<1> QED
  BY <1>1, <1>2, <1>3

LEMMA SyncHead ==
    /\ UpdateAnchorDataHead => S!UpdateAnchorDataHead
    /\ ScanDereferencesNil => S!ScanDereferencesNil
BY SameDatabase
DEF UpdateAnchorDataHead, S!UpdateAnchorDataHead, ScanDereferencesNil,
    S!ScanDereferencesNil, ScanStopsAt, S!ScanStopsAt

LEMMA SyncOwnSteps ==
    ASSUME SynchronizeFactomData \/ FactomSyncFails
    PROVE  S!SynchronizeFactomData \/ S!FactomSyncFails
<1> USE SyncPlace, SyncMoves, SameDatabase
    DEF dbVars, S!dbVars, factomVars, S!factomVars, syncVars, S!syncVars
<1>1. CASE SyncFactom
  BY <1>1 DEF SyncFactom, S!SyncFactom, S!SynchronizeFactomData
<1>2. CASE FetchDBlock
  BY <1>2 DEF FetchDBlock, S!FetchDBlock, S!SynchronizeFactomData, processVars,
              S!processVars, SyncPc
<1>3. CASE FetchDone
  BY <1>3 DEF FetchDone, S!FetchDone, S!SynchronizeFactomData, BlockNotFound,
              S!BlockNotFound
<1>4. CASE ProcessEntry
  BY <1>4, SyncKnown DEF ProcessEntry, S!ProcessEntry, S!SynchronizeFactomData
<1>5. CASE InsertDBlock
  BY <1>5 DEF InsertDBlock, S!InsertDBlock, S!SynchronizeFactomData, InsertAnchorData,
              S!InsertAnchorData
<1>6. CASE UpdateHead
  BY <1>6, SyncHead DEF UpdateHead, S!UpdateHead, S!SynchronizeFactomData
<1>7. CASE SaveFactomState
  BY <1>7 DEF SaveFactomState, S!SaveFactomState, S!SynchronizeFactomData
<1>8. CASE FactomSyncFails
  BY <1>8 DEF FactomSyncFails, S!FactomSyncFails, FactomSteps, S!FactomSteps
<1> QED
  BY <1>1, <1>2, <1>3, <1>4, <1>5, <1>6, <1>7, <1>8 DEF SynchronizeFactomData

-----------------------------------------------------------------------------
(* What the steps of the Bitcoin part do to what others read. *)

BitcoinPlaces == BitcoinSteps \cup AnchorSteps

\* An anchor without block hash and record gets a txid, perhaps with its block.
Filled(h, a) ==
    /\ Known(h)
    /\ InsertAnchorData(h, [anchorData[h] EXCEPT !["Bitcoin"] = a])
    /\ BtcAnchor(h).block = 0 /\ BtcAnchor(h).rec = 0
    /\ a.txid # 0 /\ a.entry = BtcAnchor(h).entry /\ a.rec = 0
    /\ a.block = 0 => BtcAnchor(h).txid = 0

LEMMA TxFills ==
    ASSUME BitcoinInv, NEW t \in listed, IsNewAnchor(t), SaveTx(t)
    PROVE  \E h \in Height, a \in NetAnchor : Filled(h, a)
<1>0. NetworkInv /\ BitcoinTypeInv
  BY DEF BitcoinInv, BitcoinTypeInv
<1>1. t.id \in DOMAIN btcTx /\ t.block \in DOMAIN btcBlocks
  BY <1>0, BitcoinTypes
<1>2. PICK h \in Height : h = btcTx[t.id].h
  BY <1>0, <1>1, NetworkTypes
<1>3. Known(h) /\ BtcAnchor(h).rec = 0 /\ BtcAnchor(h).block = 0
  BY <1>2 DEF IsNewAnchor, BtcAnchor
<1>4. BtcAnchor(h) \in NetAnchor /\ anchorData[h] \in [Networks -> NetAnchor]
  BY <1>0, <1>3, AnchorType, BitcoinTypes, KnownData DEF BtcAnchor, Networks, AnchorData
<1>5. t.id \in Nat \ {0} /\ t.block \in Nat \ {0}
  BY <1>0, <1>1, NetworkTypes
<1> DEFINE a == [BtcAnchor(h) EXCEPT !.txid = t.id, !.block = t.block]
<1>6. /\ a \in NetAnchor /\ a.txid # 0 /\ a.block # 0 /\ a.rec = 0
      /\ a.entry = BtcAnchor(h).entry
  BY <1>3, <1>4, <1>5 DEF NetAnchor
<1>7. [anchorData[h] EXCEPT !["Bitcoin"].txid = t.id, !["Bitcoin"].block = t.block]
        = [anchorData[h] EXCEPT !["Bitcoin"] = a]
  BY <1>4 DEF BtcAnchor, Networks, NetAnchor
<1> HIDE DEF a
<1>8. InsertAnchorData(h, [anchorData[h] EXCEPT !["Bitcoin"] = a])
  BY <1>2, <1>7 DEF SaveTx
<1> QED
  BY <1>3, <1>6, <1>8 DEF Filled

LEMMA TxidFills ==
    ASSUME BitcoinInv, Recording, RecordTxid(Target)
    PROVE  \E h \in Height, a \in NetAnchor : Filled(h, a)
<1>0. NetworkInv /\ BitcoinTypeInv
  BY DEF BitcoinInv, BitcoinTypeInv
<1>1. PICK h : h = Target
  OBVIOUS
<1>2. sent # 0 /\ sent \in Nat /\ Known(h) /\ h \in Height /\ BtcAnchor(h).txid = 0
  <2>1. sent \in 0..Len(btcTx) /\ Len(btcTx) \in Nat
    BY <1>0, NetworkTypes DEF BitcoinTypeInv
  <2>2. sent # 0 /\ NeedsAnchor(h)
    BY <1>1 DEF BitcoinInv, SendingInv
  <2> QED
    BY <1>0, <2>1, <2>2, KnownData, BitcoinTypes DEF NeedsAnchor, BtcAnchor
<1>3. BtcAnchor(h) \in NetAnchor /\ anchorData[h] \in [Networks -> NetAnchor]
  BY <1>0, <1>2, AnchorType, BitcoinTypes, KnownData DEF BtcAnchor, Networks, AnchorData
<1>4. BtcAnchor(h).block = 0 /\ BtcAnchor(h).rec = 0
  <2>1. BtcAnchor(h).rec \in Nat
    BY <1>3, DatabaseAssumption DEF NetAnchor, Height
  <2> QED
    BY <1>2, <2>1 DEF BitcoinInv, TxidFirst
<1> DEFINE a == [BtcAnchor(h) EXCEPT !.txid = sent]
<1>5. /\ a \in NetAnchor /\ a.txid # 0 /\ a.block = 0 /\ a.rec = 0
      /\ a.entry = BtcAnchor(h).entry
  BY <1>2, <1>3, <1>4 DEF NetAnchor
<1>6. [anchorData[h] EXCEPT !["Bitcoin"].txid = sent]
        = [anchorData[h] EXCEPT !["Bitcoin"] = a]
  BY <1>3 DEF BtcAnchor, Networks, NetAnchor
<1> HIDE DEF a
<1>7. InsertAnchorData(h, [anchorData[h] EXCEPT !["Bitcoin"] = a])
  BY <1>1, <1>6 DEF RecordTxid
<1> QED
  BY <1>2, <1>4, <1>5, <1>7 DEF Filled

\* A step of the component goes on, fails without effect, or loses something.
LEMMA BitcoinSteppings ==
    ASSUME BitcoinInv,
           SynchronizeBitcoinData \/ AnchorBlocksIntoBitcoin \/ BitcoinAnchorFailures
    PROVE  /\ pc \in BitcoinPlaces
           /\ \/ /\ \E l \in BitcoinPlaces \cup {"synced", "save"} : Normally(l)
                 /\ progress' \in {progress, TRUE}
                 /\ UNCHANGED <<chainHead, lastFactom>>
                 /\ \/ UNCHANGED anchorData
                    \/ \E h \in Height, a \in NetAnchor : Filled(h, a)
              \/ (FailedCall \/ Failed("rpcPanic")) /\ UNCHANGED dbVars
              \/ (\E k \in FaultKinds : Fault(k, "loop")) /\ UNCHANGED dbVars
              \/ Fault("crash", "rpcPanic") /\ ReopenDatabase /\ ~Persistent
<1> USE DEF BitcoinPlaces, BitcoinSteps, AnchorSteps
<1>1. CASE NothingListed \/ ListTransactions \/ SaveBitcoinState
  BY <1>1 DEF NothingListed, ListTransactions, SaveBitcoinState, dbVars
<1>2. CASE ProcessTx
  <2>1. /\ pc = "tx" /\ Normally("tx")
        /\ UNCHANGED <<progress, chainHead, lastFactom>>
    BY <1>2 DEF ProcessTx, processVars, Normally, Goto
  <2>2. UNCHANGED anchorData \/ \E h \in Height, a \in NetAnchor : Filled(h, a)
    BY <1>2, TxFills DEF ProcessTx
  <2> QED
    BY <2>1, <2>2
<1>3. CASE BeginAnchoring \/ NewestNotSent \/ SendNewest \/ SendOlder \/ OlderDone
  BY <1>3 DEF BeginAnchoring, NewestNotSent, SendNewest, SendOlder, OlderDone, dbVars
<1>4. CASE SkipOlder
  BY <1>4 DEF SkipOlder, processVars, dbVars, Normally, Goto
<1>5. CASE RecordNewest \/ RecordOlder
  <2>1. Recording /\ RecordTxid(Target) /\ Normally("older")
        /\ UNCHANGED <<progress, chainHead, lastFactom>>
    BY <1>5 DEF RecordNewest, RecordOlder, Recording, Target
  <2> QED
    BY <2>1, TxidFills DEF Recording
<1>6. CASE BitcoinAnchorFails
  BY <1>6 DEF BitcoinAnchorFails
<1>7. CASE RpcErrorPanics
  BY <1>7 DEF RpcErrorPanics, SendingFor, ReopenDatabase
<1>8. CASE SendReplyLost
  BY <1>8 DEF SendReplyLost, SendingFor, Fault
<1>9. CASE RecordTxidFails
  BY <1>9 DEF RecordTxidFails, Fault
<1> QED
  BY <1>1, <1>2, <1>3, <1>4, <1>5, <1>6, <1>7, <1>8, <1>9
  DEF SynchronizeBitcoinData, AnchorBlocksIntoBitcoin, BitcoinAnchorFailures

-----------------------------------------------------------------------------
(* What the steps of the record saving do to what others read. *)

\* Ethereum never has its turn: who fills it in reveals its record.
LEMMA BitcoinTurnOnly ==
    ASSUME RecordInv, EthereumByRecord, pc = "saving"
    PROVE  held["Ethereum"] = 0 /\ \A n \in Networks : Turn(n) => n = "Bitcoin"
<1>1. Known(at) /\ at \in Height
  BY RecordTypes DEF RecordInv, HeldInv
<1>2. anchorData[at]["Ethereum"].entry = 0 => anchorData[at]["Ethereum"].block = 0
  BY <1>1 DEF EthereumByRecord
<1> QED
  BY <1>2 DEF RecordInv, HeldInv, Networks, Turn, Unrecorded

\* A confirmed anchor gets the hash of its entry.
Saved(h, a) ==
    /\ Known(h)
    /\ InsertAnchorData(h, [anchorData[h] EXCEPT !["Bitcoin"] = a])
    /\ BtcAnchor(h).block # 0 /\ BtcAnchor(h).entry = 0 /\ BtcAnchor(h).rec = 0
    /\ a.txid = BtcAnchor(h).txid /\ a.block = BtcAnchor(h).block
    /\ a.entry # 0 /\ a.rec = 0

LEMMA HashSaves ==
    ASSUME RecordInv, EthereumByRecord, SaveHashes
    PROVE  \E h \in Height, a \in NetAnchor : Saved(h, a)
<1>1. pc = "saving" /\ Known(at) /\ at \in Height
  BY RecordTypes DEF SaveHashes, RecordInv, HeldInv
<1>2. held["Ethereum"] = 0 /\ held["Bitcoin"] # 0 /\ held["Bitcoin"] \in Nat
  <2>1. held["Ethereum"] = 0
    BY <1>1, BitcoinTurnOnly
  <2>2. \E n \in Networks : held[n] # 0
    BY NothingHeld DEF SaveHashes
  <2> QED
    BY <2>1, <2>2, RecordTypes DEF Networks, RecordInv
<1>3. BtcAnchor(at).entry = 0 /\ BtcAnchor(at).block # 0
  BY <1>2 DEF RecordInv, HeldInv, BtcAnchor, Networks
<1>4. BtcAnchor(at) \in NetAnchor /\ anchorData[at] \in [Networks -> NetAnchor]
  BY <1>1, AnchorType, RecordTypes, KnownData DEF BtcAnchor, Networks, AnchorData, RecordInv
<1>5. BtcAnchor(at).rec = 0
  <2>1. BtcAnchor(at).rec \in Nat
    BY <1>4, DatabaseAssumption DEF NetAnchor, Height
  <2>2. ~(BtcAnchor(at).rec > 0)
    BY <1>1, <1>3 DEF RecordInv, AnchorsInOrder, FilledInOrder, BtcAnchor, Networks
  <2> QED
    BY <2>1, <2>2
<1> DEFINE a == [BtcAnchor(at) EXCEPT !.entry = held["Bitcoin"]]
<1>6. /\ a \in NetAnchor /\ a.entry # 0 /\ a.rec = 0
      /\ a.txid = BtcAnchor(at).txid /\ a.block = BtcAnchor(at).block
  BY <1>2, <1>4, <1>5 DEF NetAnchor
<1>7. [n \in Networks |-> IF held[n] = 0 THEN anchorData[at][n]
                          ELSE [anchorData[at][n] EXCEPT !.entry = held[n]]]
        = [anchorData[at] EXCEPT !["Bitcoin"] = a]
  BY <1>2, <1>4 DEF BtcAnchor, Networks
<1> HIDE DEF a
<1>8. InsertAnchorData(at, [anchorData[at] EXCEPT !["Bitcoin"] = a])
  BY <1>7 DEF SaveHashes
<1> QED
  BY <1>1, <1>3, <1>5, <1>6, <1>8 DEF Saved

\* A step of the call goes on, reveals, fails without effect, or loses something.
LEMMA SavingSteps ==
    ASSUME RecordInv, EthereumByRecord, SaveAnchorsIntoFactom \/ FactomRecordFailures
    PROVE  /\ pc \in SaveSteps
           /\ \/ /\ Normally("loop") \/ Normally("saving")
                 /\ UNCHANGED <<progress, chainHead, lastFactom, lastBitcoin, factomVars,
                                revealed>>
                 /\ UNCHANGED anchorData \/ \E h \in Height, a \in NetAnchor : Saved(h, a)
              \/ /\ pc = "saving" /\ Turn("Bitcoin") /\ Reveal("Bitcoin")
                 /\ UNCHANGED dbVars
                 /\ UNCHANGED processVars \/ \E k \in FaultKinds : Fault(k, "loop")
              \/ /\ FailedCall \/ \E k \in FaultKinds : Fault(k, "loop")
                 /\ UNCHANGED <<dbVars, factomVars, revealed>>
<1> USE DEF SaveSteps
<1>1. CASE BeginSaving \/ PassOver \/ BatchFull
  BY <1>1 DEF BeginSaving, PassOver, BatchFull, Advance, dbVars
<1>2. CASE SaveHashes
  BY <1>2, HashSaves DEF SaveHashes, Advance
<1>3. CASE SendRecord
  BY <1>3, BitcoinTurnOnly DEF SendRecord
<1>4. CASE SavingFails
  BY <1>4 DEF SavingFails
<1>5. CASE RevealReplyLost
  <2>1. PICK n \in Networks : Turn(n) /\ Reveal(n)
    BY <1>5 DEF RevealReplyLost
  <2>2. n = "Bitcoin"
    BY <1>5, <2>1, BitcoinTurnOnly DEF RevealReplyLost
  <2> QED
    BY <1>5, <2>1, <2>2 DEF RevealReplyLost, Fault
<1>6. CASE HashesLost
  BY <1>6 DEF HashesLost, Fault
<1> QED
  BY <1>1, <1>2, <1>3, <1>4, <1>5, <1>6 DEF SaveAnchorsIntoFactom, FactomRecordFailures

-----------------------------------------------------------------------------
(* The steps of the others, as FactomSync sees them. *)

LEMMA SyncFilled ==
    ASSUME NEW h \in Height, NEW a \in NetAnchor,
           Filled(h, a) \/ Saved(h, a), RecordInv
    PROVE  S!FillAnchor
<1>1. /\ a.txid \in Nat \ {0} /\ a.block \in Nat
      /\ a.entry \in Nat
  <2>1. Saved(h, a) => a.txid # 0
    BY DEF Saved, BtcAnchor, RecordInv, AnchorsInOrder, FilledInOrder, Networks
  <2> QED
    BY <2>1 DEF NetAnchor, Filled
<1>2. a = [txid |-> a.txid, block |-> a.block, entry |-> a.entry, rec |-> 0]
  BY DEF NetAnchor, Filled, Saved
<1>3. /\ anchorData[h]["Bitcoin"].rec = 0
      /\ anchorData[h]["Bitcoin"].block # 0 => a.block # 0
      /\ anchorData[h]["Bitcoin"].entry # 0 => a.entry # 0
      /\ Known(h) /\ InsertAnchorData(h, [anchorData[h] EXCEPT !["Bitcoin"] = a])
  BY DEF Filled, Saved, BtcAnchor
<1>4. S!InsertAnchorData(h, [anchorData[h] EXCEPT !["Bitcoin"] =
            [txid |-> a.txid, block |-> a.block, entry |-> a.entry, rec |-> 0]])
  BY <1>2, <1>3 DEF InsertAnchorData, S!InsertAnchorData
<1> QED
  BY <1>1, <1>3, <1>4, SameDatabase DEF S!FillAnchor

\* A reveal of this process is one of some signer.
LEMMA SyncReveals ==
    ASSUME RecordInv, KnownAreClosed, pc = "saving",
           Turn("Bitcoin"), Reveal("Bitcoin"), Len(entries) < EntriesOfAll
    PROVE  S!SomeoneReveals
<1>1. /\ at \in Height /\ Known(at) /\ BlockExists(at)
  BY RecordTypes DEF RecordInv, HeldInv, KnownAreClosed
<1>2. BtcAnchor(at).txid \in Nat \ {0} /\ BtcAnchor(at).block \in Nat \ {0}
  <2>1. BtcAnchor(at).txid \in Nat /\ BtcAnchor(at).block \in Nat
    BY <1>1, AnchorType, RecordTypes DEF BtcAnchor, Networks, RecordInv
  <2>2. BtcAnchor(at).txid # 0 /\ BtcAnchor(at).block # 0
    BY <1>1
       DEF Turn, Unrecorded, RecordInv, AnchorsInOrder, FilledInOrder, BtcAnchor, Networks
  <2> QED
    BY <2>1, <2>2
<1>3. S!RevealEntry([h |-> at, net |-> "Bitcoin", txid |-> BtcAnchor(at).txid,
                     block |-> BtcAnchor(at).block, kind |-> "anchor"])
  BY DEF Reveal, RevealEntry, S!RevealEntry, BtcAnchor
<1> QED
  BY <1>1, <1>2, <1>3, SameDatabase DEF S!SomeoneReveals, S!Networks, S!Kinds

LEMMA SyncBitcoinSteps ==
    ASSUME BitcoinInv, RecordInv, BitcoinAnchorStep
    PROVE  [S!FactomSyncNext]_(S!factomSyncVars)
<1> USE DEF BitcoinAnchorStep
<1>1. SyncPc = "syncBitcoin"
  BY BitcoinSteppings, SyncPlace DEF BitcoinPlaces, BitcoinSteps, AnchorSteps
<1>2. UNCHANGED <<factomVars, syncVars>>
  OBVIOUS
<1>3. S!factomVars' = S!factomVars /\ S!syncVars' = S!syncVars
  BY <1>2 DEF factomVars, syncVars, S!factomVars, S!syncVars
<1>4. UNCHANGED dbVars => S!dbVars' = S!dbVars
  BY DEF dbVars, S!dbVars
<1>5. ASSUME NEW l \in BitcoinPlaces \cup {"synced", "save"}, Normally(l),
             progress' \in {progress, TRUE}, UNCHANGED <<chainHead, lastFactom>>,
             UNCHANGED anchorData \/ \E h \in Height, a \in NetAnchor : Filled(h, a)
      PROVE  S!RestOfLoopSteps
  <2>1. S!Normally("syncBitcoin")
    BY <1>5, SyncMoves DEF BitcoinPlaces, BitcoinSteps, AnchorSteps
  <2>2. S!FillAnchor \/ UNCHANGED anchorData
    BY <1>5, SyncFilled
  <2> QED
    BY <1>1, <1>3, <1>5, <2>1, <2>2 DEF S!RestOfLoopSteps
<1>6. ASSUME FailedCall \/ Failed("rpcPanic"), UNCHANGED dbVars
      PROVE  S!RestOfLoopFails
  BY <1>1, <1>3, <1>4, <1>6, SyncMoves DEF S!RestOfLoopFails
<1>7. ASSUME NEW k \in FaultKinds, Fault(k, "loop"), UNCHANGED dbVars
      PROVE  S!RestOfLoopFails
  <2>1. S!Fault(k, "loop")
    BY <1>7, SyncMoves, FaultAssumption
  <2> QED
    BY <1>1, <1>3, <1>4, <1>7, <2>1 DEF S!RestOfLoopFails
<1>8. ASSUME Fault("crash", "rpcPanic"), ReopenDatabase, ~Persistent
      PROVE  S!Restart
  <2>1. S!ReopenDatabase
    BY <1>8 DEF ReopenDatabase, S!ReopenDatabase, S!Height, Height
  <2>2. S!Fault("crash", "loop")
    BY <1>8, SyncMoves
  <2> QED
    BY <1>1, <1>3, <1>8, <2>1, <2>2 DEF S!Restart
<1> QED
  BY <1>5, <1>6, <1>7, <1>8, BitcoinSteppings DEF S!FactomSyncNext

LEMMA SyncRecordSteps ==
    ASSUME RecordInv, EthereumByRecord, KnownAreClosed,
           FactomRecordStep,
           pc = "saving" /\ Turn("Bitcoin") /\ Reveal("Bitcoin") =>
                Len(entries) < EntriesOfAll
    PROVE  [S!FactomSyncNext]_(S!factomSyncVars)
<1> USE DEF FactomRecordStep
<1>1. SyncPc = "syncBitcoin"
  BY SavingSteps, SyncPlace DEF SaveSteps
<1>2. S!syncVars' = S!syncVars
  BY DEF syncVars, S!syncVars
<1>3. /\ UNCHANGED dbVars => S!dbVars' = S!dbVars
      /\ UNCHANGED factomVars => S!factomVars' = S!factomVars
  BY DEF dbVars, S!dbVars, factomVars, S!factomVars
<1>4. ASSUME Normally("loop") \/ Normally("saving"),
             UNCHANGED <<progress, chainHead, lastFactom, lastBitcoin, factomVars, revealed>>,
             UNCHANGED anchorData \/ \E h \in Height, a \in NetAnchor : Saved(h, a)
      PROVE  S!RestOfLoopSteps
  <2>1. S!Normally("syncBitcoin") \/ S!Normally("loop")
    BY <1>4, SyncMoves
  <2>2. S!FillAnchor \/ UNCHANGED anchorData
    BY <1>4, SyncFilled
  <2> QED
    BY <1>1, <1>2, <1>3, <1>4, <2>1, <2>2 DEF S!RestOfLoopSteps
<1>5. ASSUME pc = "saving", Turn("Bitcoin"), Reveal("Bitcoin"), UNCHANGED dbVars,
             UNCHANGED processVars
      PROVE  S!SignerReveals
  <2>1. S!SomeoneReveals
    BY <1>5, SyncReveals
  <2> QED
    BY <1>2, <1>3, <1>5, <2>1 DEF S!SignerReveals, processVars, S!processVars, SyncPc
<1>6. ASSUME pc = "saving", Turn("Bitcoin"), Reveal("Bitcoin"), UNCHANGED dbVars,
             NEW k \in FaultKinds, Fault(k, "loop")
      PROVE  S!RestOfLoopFails
  <2>1. S!SomeoneReveals /\ S!Fault(k, "loop")
    BY <1>6, SyncReveals, SyncMoves, FaultAssumption
  <2> QED
    BY <1>1, <1>2, <1>3, <1>6, <2>1 DEF S!RestOfLoopFails
<1>7. ASSUME FailedCall \/ \E k \in FaultKinds : Fault(k, "loop"),
             UNCHANGED <<dbVars, factomVars, revealed>>
      PROVE  S!RestOfLoopFails
  <2>1. S!FailedCall \/ \E k \in FaultKinds : S!Fault(k, "loop")
    BY <1>7, SyncMoves, FaultAssumption
  <2> QED
    BY <1>1, <1>2, <1>3, <1>7, <2>1 DEF S!RestOfLoopFails
<1> QED
  BY <1>4, <1>5, <1>6, <1>7, SavingSteps DEF S!FactomSyncNext

LEMMA SyncMainSteps ==
    ASSUME MainStep \/ Stop \/ Crash \/ Start \/ StartAfterPanic
    PROVE  [S!FactomSyncNext]_(S!factomSyncVars)
<1>a. /\ UNCHANGED factomVars => S!factomVars' = S!factomVars
      /\ UNCHANGED syncVars => S!syncVars' = S!syncVars
      /\ UNCHANGED dbVars => S!dbVars' = S!dbVars
  BY DEF dbVars, S!dbVars, factomVars, S!factomVars, syncVars, S!syncVars
<1>b. ReopenDatabase => S!ReopenDatabase
  BY DEF ReopenDatabase, S!ReopenDatabase, S!Height, Height, dbVars, S!dbVars
<1>c. Persistent /\ ReopenDatabase => UNCHANGED dbVars
  BY DEF ReopenDatabase
<1>1. CASE StartLoop \/ (SynchronizedOnce /\ progress)
  <2>1. /\ SyncPc \in {"loop", "syncBitcoin"} /\ Normally("syncFactom")
        /\ UNCHANGED <<progress, dbVars, factomVars, syncVars>>
    BY <1>1, SyncPlace DEF StartLoop, SynchronizedOnce, OtherVars
  <2>2. S!CallAgain
    BY <2>1, <1>a, SyncMoves DEF S!CallAgain, S!Outside
  <2> QED
    BY <2>2 DEF S!FactomSyncNext
<1>2. CASE \/ SynchronizedOnce /\ ~progress
           \/ Stop /\ Persistent
           \/ Start
           \/ StartAfterPanic
  <2>1. /\ UNCHANGED <<progress, dbVars, factomVars, syncVars, faults, errors>>
        /\ \/ pc = "synced" /\ pc' = "anchor"
           \/ pc = "loop" /\ pc' = "down"
           \/ pc = "down" /\ pc' = "loop"
           \/ pc = "rpcPanic" /\ pc' = "loop"
    BY <1>2, <1>c DEF SynchronizedOnce, Stop, Start, StartAfterPanic, OtherVars,
                      BitcoinRelaunch, Normally, Goto
  <2>2. SyncPc' = SyncPc
    BY <2>1 DEF SyncPc, FactomSteps
  <2>3. S!factomSyncVars' = S!factomSyncVars
    BY <2>1, <2>2, <1>a DEF S!factomSyncVars, S!processVars
  <2> QED
    BY <2>3
<1>3. CASE (Stop /\ ~Persistent) \/ Crash
  <2>1. /\ pc # "panic" /\ Fault("crash", "down") /\ ReopenDatabase
        /\ UNCHANGED <<factomVars, syncVars>>
    BY <1>3 DEF Stop, Crash, OtherVars
  <2>2. SyncPc # "panic"
    BY <2>1 DEF SyncPc
  <2>3. S!Fault("crash", "loop")
    BY <2>1, SyncMoves
  <2>4. S!Restart
    BY <2>1, <2>2, <2>3, <1>a, <1>b DEF S!Restart
  <2> QED
    BY <2>4 DEF S!FactomSyncNext
<1> QED
  BY <1>1, <1>2, <1>3 DEF MainStep

LEMMA EntriesBounds ==
    MaxEntries <= EntriesOfAll /\ EntriesOfAll \in Nat /\ MaxEntries \in Nat
<1>1. (MaxHeight + 1) * (MaxFaults + 1) \in Nat
  BY DatabaseAssumption, FaultAssumption
<1>2. MaxEntries \in Nat
  BY SyncAssumption
<1> DEFINE own == (MaxHeight + 1) * (MaxFaults + 1)
<1>3. own \in Nat /\ EntriesOfAll = MaxEntries + own
  BY <1>1 DEF EntriesOfAll
<1> HIDE DEF own
<1> QED
  BY <1>2, <1>3

LEMMA SyncNetworkSteps ==
    ASSUME FactomTypeOK,
           FactomGrows \/ BitcoinGrows \/ UNCHANGED vars
    PROVE  [S!FactomSyncNext]_(S!factomSyncVars)
<1>a. UNCHANGED <<processVars, dbVars, syncVars>> =>
        /\ S!processVars' = S!processVars /\ S!dbVars' = S!dbVars
        /\ S!syncVars' = S!syncVars
  BY DEF processVars, S!processVars, dbVars, S!dbVars, syncVars, S!syncVars, SyncPc
<1>1. CASE FactomGrows /\ MineDBlock
  <2>1. S!MineDBlock
    BY <1>1 DEF MineDBlock, S!MineDBlock, Timely, S!Timely
  <2>2. S!CloseBlock
    BY <1>1, <1>a, <2>1 DEF FactomGrows, S!CloseBlock
  <2> QED
    BY <2>2 DEF S!FactomSyncNext
<1>2. CASE FactomGrows /\ SomeoneReveals
  <2>1. MaxEntries <= EntriesOfAll /\ EntriesOfAll \in Nat /\ MaxEntries \in Nat
    BY EntriesBounds
  <2>2. S!SomeoneReveals
    <3>0. Len(entries) \in Nat
      BY DEF FactomTypeOK
    <3>1. Len(entries) < EntriesOfAll
      <4>1. Len(entries) < MaxEntries
        BY <1>2 DEF SomeoneReveals
      <4> QED
        BY <2>1, <3>0, <4>1
    <3>2. PICK h \in Height, n \in Networks, t \in Ids, b \in Ids, k \in Kinds :
            /\ k = "anchor" => BlockExists(h)
            /\ k # "anchor" => n = "Bitcoin"
            /\ k = "unsigned" => h = 0
            /\ RevealEntry([h |-> h, net |-> n, txid |-> t, block |-> b, kind |-> k])
      BY <1>2 DEF SomeoneReveals
    <3>3. t \in Nat \ {0} /\ b \in Nat \ {0}
      BY SyncAssumption
    <3>4. S!RevealEntry([h |-> h, net |-> n, txid |-> t, block |-> b, kind |-> k])
      BY <3>2 DEF RevealEntry, S!RevealEntry
    <3> QED
      BY <3>1, <3>2, <3>3, <3>4, SameDatabase DEF S!SomeoneReveals, S!Kinds, Kinds
  <2>3. S!SignerReveals
    BY <1>2, <1>a, <2>2 DEF FactomGrows, S!SignerReveals
  <2> QED
    BY <2>3 DEF S!FactomSyncNext
<1>3. CASE BitcoinGrows \/ UNCHANGED vars
  <2>1. UNCHANGED <<processVars, dbVars, factomVars, syncVars>>
    BY <1>3 DEF BitcoinGrows, BitcoinMoves, vars
  <2>2. S!factomSyncVars' = S!factomSyncVars
    BY <2>1, <1>a DEF S!factomSyncVars, factomVars, S!factomVars
  <2> QED
    BY <2>2
<1> QED
  BY <1>1, <1>2, <1>3 DEF FactomGrows

-----------------------------------------------------------------------------
(* There is room for what this process reveals. *)

\* What is told apart by a pair of bounded numbers is bounded.
LEMMA ToldApart ==
    ASSUME NEW m \in Nat, NEW n \in Nat, NEW a \in Nat, NEW b \in Nat,
           NEW f \in [(m + 1)..n -> (0..a) \X (0..b)],
           \A x, y \in (m + 1)..n : f[x] = f[y] => x = y
    PROVE  n <= m + (a + 1) * (b + 1)
<1> DEFINE New == (m + 1)..n
           T == (0..a) \X (0..b)
           ab == (a + 1) * (b + 1)
<1>1. IsFiniteSet(0..a) /\ Cardinality(0..a) = a + 1
  BY FS_Interval
<1>2. IsFiniteSet(0..b) /\ Cardinality(0..b) = b + 1
  BY FS_Interval
<1>3. IsFiniteSet(T) /\ Cardinality(T) = ab
  <2>1. IsFiniteSet(T) /\ Cardinality(T) = Cardinality(0..a) * Cardinality(0..b)
    BY <1>1, <1>2, FS_Product, Zenon
  <2> QED
    BY <1>1, <1>2, <2>1, Zenon
<1>4. Cardinality(New) = IF m + 1 > n THEN 0 ELSE n - (m + 1) + 1
  BY FS_Interval
<1>5. f \in Injection(New, T)
  BY DEF Injection, IsInjective
<1>6. Cardinality(New) <= Cardinality(T)
  BY <1>3, <1>5, FS_Injection
<1>7. ab \in Nat
  OBVIOUS
<1> HIDE DEF New, T, ab
<1>8. n <= m + ab
  BY <1>3, <1>4, <1>6, <1>7
<1> QED
  BY <1>8 DEF ab

\* One entry for each directory block and epoch, after those of others.
RevealedApart(n, es, rs) ==
    /\ \A id \in 1..n : id > MaxEntries => \E r \in rs : r.id = id
    /\ \A r \in rs : es[r.id].h \in Height /\ r.epoch \in 0..MaxFaults
    /\ \A r, s \in rs : r.id # s.id /\ es[r.id].h = es[s.id].h => r.epoch # s.epoch

LEMMA OneEach ==
    ASSUME NEW n \in Nat, NEW es, NEW rs, RevealedApart(n, es, rs)
    PROVE  n <= EntriesOfAll
<1> USE DEF RevealedApart
<1> DEFINE New == (MaxEntries + 1)..n
           of(id) == CHOOSE r \in rs : r.id = id
           f == [id \in New |-> <<es[id].h, of(id).epoch>>]
<1>0. MaxEntries \in Nat /\ MaxHeight \in Nat /\ MaxFaults \in Nat
  BY SyncAssumption, DatabaseAssumption, FaultAssumption
<1>1. \A id \in New : of(id) \in rs /\ of(id).id = id
  BY <1>0
<1> HIDE DEF of
<1>2. \A id \in New : <<es[id].h, of(id).epoch>> \in (0..MaxHeight) \X (0..MaxFaults)
  BY <1>1 DEF Height
<1>3. f \in [New -> (0..MaxHeight) \X (0..MaxFaults)]
  BY <1>2
<1>4. ASSUME NEW x \in New, NEW y \in New, f[x] = f[y]
      PROVE  x = y
  <2>1. es[x].h = es[y].h /\ of(x).epoch = of(y).epoch
    BY <1>4
  <2> QED
    BY <1>1, <2>1
<1> HIDE DEF f
<1> QED
  BY <1>0, <1>3, <1>4, ToldApart DEF EntriesOfAll

\* When this process reveals a record, the bound on all entries is not reached.
LEMMA RoomToReveal ==
    ASSUME RecordInv, OwnEntries, OwnRecordsAreTrue, pc = "saving",
           Turn("Bitcoin"), Reveal("Bitcoin")
    PROVE  Len(entries) < EntriesOfAll
<1> DEFINE new == Len(entries) + 1
<1>1. /\ Len(entries') = new
      /\ DOMAIN entries' = DOMAIN entries \cup {new}
      /\ new \notin DOMAIN entries
      /\ \A id \in DOMAIN entries : entries'[id] = entries[id]
      /\ entries'[new].h = at /\ entries'[new].net = "Bitcoin"
      /\ revealed' = revealed \cup {[id |-> new, epoch |-> faults]}
      /\ RevealedOncePerFault'
  <2>1. "Bitcoin" \in Networks
    BY DEF Networks
  <2>2. PICK e : e = [h |-> at, net |-> "Bitcoin", txid |-> anchorData[at]["Bitcoin"].txid,
                      block |-> anchorData[at]["Bitcoin"].block, kind |-> "anchor"]
    OBVIOUS
  <2>3. e.h = at /\ e.net = "Bitcoin"
    BY <2>2
  <2>4. entries'[new] = e
    BY <2>1, <2>2, RevealOfTurn
  <2> QED
    BY <2>1, <2>3, <2>4, RevealOfTurn
<1>2. /\ Len(entries) \in Nat /\ new \in Nat /\ DOMAIN entries = 1..Len(entries)
      /\ at \in Height /\ faults \in 0..MaxFaults
  BY RecordTypes DEF RecordInv
<1>3. \A r \in revealed : /\ r.id \in DOMAIN entries /\ r.epoch \in 0..MaxFaults
                          /\ entries[r.id].h \in Height /\ entries[r.id].net = "Bitcoin"
  BY RecordTypes DEF RecordInv, OwnRecordsAreTrue
<1>4. \A r \in revealed' : /\ entries'[r.id].h \in Height /\ r.epoch \in 0..MaxFaults
                           /\ entries'[r.id].net = "Bitcoin"
  <2> HIDE DEF new
  <2> QED
    BY <1>1, <1>2, <1>3
<1>5. \A r, s \in revealed' : r.id # s.id /\ entries'[r.id].h = entries'[s.id].h =>
            r.epoch # s.epoch
  BY <1>1, <1>4 DEF RevealedOncePerFault, SameAnchor
<1>6. \A id \in 1..new : id > MaxEntries => \E r \in revealed' : r.id = id
  <2> SUFFICES ASSUME NEW id \in 1..new, id > MaxEntries
               PROVE  \E r \in revealed' : r.id = id
    OBVIOUS
  <2> HIDE DEF new
  <2>1. CASE id = new
    <3>1. [id |-> new, epoch |-> faults].id = id
      BY <2>1
    <3> QED
      BY <1>1, <3>1
  <2>2. CASE id # new
    <3>1. id \in DOMAIN entries
      BY <1>2, <2>2 DEF new
    <3> QED
      BY <1>1, <3>1 DEF OwnEntries
  <2> QED
    BY <2>1, <2>2
<1> HIDE DEF new
<1>7. new <= EntriesOfAll
  <2>1. RevealedApart(new, entries', revealed')
    BY <1>4, <1>5, <1>6 DEF RevealedApart
  <2>2. new \in Nat
    BY <1>2
  <2> QED
    BY <2>1, <2>2, OneEach
<1> QED
  BY <1>2, <1>7, EntriesBounds DEF new

\* The refinement, step by step.
LEMMA SyncNext ==
    ASSUME ProgramInv, [Next]_vars
    PROVE  [S!FactomSyncNext]_(S!factomSyncVars)
<1> USE DEF ProgramInv
<1>1. CASE FactomSyncStep
  BY <1>1, SyncOwnSteps DEF FactomSyncStep, S!FactomSyncNext
<1>2. CASE BitcoinAnchorStep
  BY <1>2, SyncBitcoinSteps
<1>3. CASE FactomRecordStep
  <2>1. pc = "saving" /\ Turn("Bitcoin") /\ Reveal("Bitcoin") => Len(entries) < EntriesOfAll
    BY RoomToReveal
  <2> QED
    BY <1>3, <2>1, SyncRecordSteps
<1>4. CASE MainStep \/ Stop \/ Crash \/ Start \/ StartAfterPanic
  BY <1>4, SyncMainSteps
<1>5. CASE FactomGrows \/ BitcoinGrows \/ UNCHANGED vars
  BY <1>5, SyncFacts, SyncNetworkSteps
<1> QED
  BY <1>1, <1>2, <1>3, <1>4, <1>5 DEF Next

\* The constants of the instance are such as FactomSync asks for.
LEMMA SyncAssumptions ==
    Nat \ {0} \subseteq Nat \ {0} /\ EntriesOfAll \in Nat
BY EntriesBounds

\* So the invariant of the synchronization stays.
LEMMA SyncKeeps ==
    ASSUME ProgramInv, [Next]_vars
    PROVE  S!IInv'
<1>1. S!IInv /\ [S!FactomSyncNext]_(S!factomSyncVars)
  BY SyncNext DEF ProgramInv
<1> QED
  BY <1>1, S!NextIInv, FaultAssumption, DatabaseAssumption, NilAssumption,
     RecordDelayAssumption, SyncAssumptions, SameDatabase

-----------------------------------------------------------------------------
(* What the steps of the Factom synchronization do to what others read. *)

\* A record of an anchor is found in Factom.
Found(h, n, a) ==
    /\ Known(h)
    /\ InsertAnchorData(h, [anchorData[h] EXCEPT ![n] = a])
    /\ a.rec > 0 /\ a.txid # 0 /\ a.block # 0
    /\ a.entry \in DOMAIN entries /\ a.entry # 0
    /\ About(a.entry, h, n, a)

\* A closed block is the next that becomes known.
Learned(h) ==
    /\ ~Known(h) /\ BlockExists(h)
    /\ \A k \in 0..(h - 1) : Known(k)
    /\ InsertAnchorData(h, NewAnchorData)

LEMMA EntrySaves ==
    ASSUME ProgramInv, pc = "entries", NEW id \in todo, SaveRecord(id)
    PROVE  \E h \in Height, n \in Networks, a \in NetAnchor : Found(h, n, a)
<1>1. /\ FactomTypeOK /\ cur \in 0..(MaxHeight + 1) /\ nextHeight \in 0..(MaxHeight + 1)
      /\ cur < nextHeight /\ nextHeight <= Len(dblocks)
      /\ todo \subseteq DOMAIN entries /\ todo \subseteq EntriesIn(cur)
      /\ \A i \in DOMAIN dblocks : \A e \in dblocks[i] :
            entries[e].kind = "anchor" => entries[e].h + RecordDelay <= i - 1
  BY SyncFacts DEF ProgramInv
<1>2. /\ id \in DOMAIN entries /\ id \in Nat \ {0} /\ entries[id] \in Entry
      /\ cur + 1 \in DOMAIN dblocks /\ cur \in Height
  BY <1>1, DatabaseAssumption DEF FactomTypeOK, Height
<1>3. cur > 0
  <2>1. id \in dblocks[cur + 1]
    BY <1>1 DEF EntriesIn
  <2>2. entries[id].h + RecordDelay <= cur
    BY <1>1, <1>2, <2>1 DEF SaveRecord, Height
  <2> QED
    BY <1>2, <2>2, RecordDelayAssumption DEF Entry, Height
<1>4. PICK h, n, a : /\ h = entries[id].h /\ n = entries[id].net
                     /\ a = [txid |-> entries[id].txid, block |-> entries[id].block,
                             entry |-> id, rec |-> cur]
  OBVIOUS
<1>5. h \in Height /\ n \in Networks /\ a \in NetAnchor
  BY <1>2, <1>4 DEF Entry, NetAnchor
<1>6. /\ a.rec > 0 /\ a.entry = id /\ About(id, h, n, a)
      /\ a.txid = entries[id].txid /\ a.block = entries[id].block
  BY <1>3, <1>4 DEF About
<1>7. a.txid # 0 /\ a.block # 0
  BY <1>2, <1>6 DEF ProgramInv, RecordInv, EntriesNameAnchors
<1>8. Known(h) /\ InsertAnchorData(h, [anchorData[h] EXCEPT ![n] = a])
  BY <1>4, <1>5 DEF SaveRecord, WithRecord, FetchAnchorData
<1> QED
  BY <1>2, <1>5, <1>6, <1>7, <1>8 DEF Found

LEMMA FactomSteppings ==
    ASSUME ProgramInv, FactomSyncStep
    PROVE  /\ pc \in FactomSteps
           /\ pc' \in FactomSteps \cup {"syncBitcoin", "panic", "loop"}
           /\ UNCHANGED <<faults, lastBitcoin, factomVars, btcVars, anchorVars, recordVars>>
           /\ \/ UNCHANGED anchorData
              \/ UNCHANGED chainHead /\ \E h \in Height : Learned(h)
              \/ /\ UNCHANGED chainHead
                 /\ \E h \in Height, n \in Networks, a \in NetAnchor : Found(h, n, a)
<1> USE DEF FactomSyncStep, FactomSteps, Normally, Goto, dbVars, processVars
<1>1. CASE SyncFactom \/ FetchDBlock \/ FetchDone
  BY <1>1 DEF SyncFactom, FetchDBlock, FetchDone
<1>2. CASE ProcessEntry
  <2>1. PICK id \in todo : SkipEntry(id) \/ SaveRecord(id) \/ RecordOfUnknownBlock(id)
    BY <1>2 DEF ProcessEntry
  <2>2. pc = "entries" /\ UNCHANGED factomVars
    BY <1>2 DEF ProcessEntry
  <2>3. CASE SkipEntry(id) \/ RecordOfUnknownBlock(id)
    BY <2>2, <2>3 DEF SkipEntry, RecordOfUnknownBlock
  <2>4. CASE SaveRecord(id)
    <3>1. \E h \in Height, n \in Networks, a \in NetAnchor : Found(h, n, a)
      BY <2>2, <2>4, EntrySaves
    <3> QED
      BY <2>2, <2>4, <3>1 DEF SaveRecord
  <2> QED
    BY <2>1, <2>3, <2>4
<1>3. CASE InsertDBlock
  <2>1. /\ pc = "entries" /\ pc' = "head"
        /\ UNCHANGED <<faults, chainHead, lastBitcoin, factomVars>>
        /\ Known(cur) \/ InsertAnchorData(cur, NewAnchorData)
        /\ Known(cur) => UNCHANGED anchorData
    BY <1>3 DEF InsertDBlock
  <2>2. ~Known(cur) => cur \in Height /\ Learned(cur)
    <3>1. /\ cur \in 0..(MaxHeight + 1) /\ nextHeight \in 0..(MaxHeight + 1)
          /\ cur < nextHeight /\ nextHeight <= Len(dblocks) /\ FactomTypeOK
          /\ \A k \in 0..(cur - 1) : Known(k)
      BY <2>1, SyncFacts DEF ProgramInv
    <3>2. Len(dblocks) \in Nat
      BY <3>1 DEF FactomTypeOK
    <3>3. cur \in Height /\ BlockExists(cur)
      BY <3>1, <3>2, DatabaseAssumption DEF Height, BlockExists
    <3> QED
      BY <2>1, <3>1, <3>3 DEF Learned
  <2> QED
    BY <2>1, <2>2
<1>4. CASE UpdateHead \/ SaveFactomState
  BY <1>4 DEF UpdateHead, SaveFactomState
<1>5. CASE FactomSyncFails
  BY <1>5 DEF FactomSyncFails, FailedCall, Failed
<1> QED
  BY <1>1, <1>2, <1>3, <1>4, <1>5 DEF SynchronizeFactomData

-----------------------------------------------------------------------------
(* What every step keeps. *)

\* What the invariant of the synchronization says of the types after a step.
LEMMA TypesAfter ==
    ASSUME ProgramInv, [Next]_vars
    PROVE  /\ anchorData' \in [Height -> AnchorData \cup {Nil}]
           /\ lastBitcoin' \in Nat => DatabaseTypeOK'
           /\ FactomTypeOK'
           /\ pc' \in PCs => ProcessTypeOK'
           /\ HeadComplete'
<1>0. S!IInv'
  BY SyncKeeps
<1>1. /\ S!ProcessTypeOK' /\ S!DatabaseTypeOK' /\ S!FactomTypeOK'
      /\ S!HeadIsCompletePrefix'
  BY <1>0 DEF S!IInv, S!TypeInv, S!FactomSyncTypeOK
<1>2. /\ anchorData' \in [Height -> AnchorData \cup {Nil}]
      /\ lastBitcoin' \in Nat => DatabaseTypeOK'
  BY <1>1, SameDatabase DEF S!DatabaseTypeOK, DatabaseTypeOK
<1>3. FactomTypeOK'
  BY <1>1, SameDatabase DEF S!FactomTypeOK, FactomTypeOK, S!Entry, Entry, S!Kinds, Kinds
<1>4. pc' \in PCs => ProcessTypeOK'
  BY <1>1 DEF S!ProcessTypeOK, ProcessTypeOK
<1>5. HeadComplete'
  BY <1>1 DEF S!HeadIsCompletePrefix, HeadComplete, S!Complete, Complete, S!IsComplete,
              IsComplete, S!Known, Known, S!FetchAnchorData, FetchAnchorData, S!Height, Height
<1> QED
  BY <1>2, <1>3, <1>4, <1>5

\* What is known was closed before, and Ethereum anchors are complete or not begun.
EthereumLeft ==
    \A h \in Height : Known(h)' =>
        /\ Known(h) \/ BlockExists(h)
        /\ \/ Known(h) /\ anchorData'[h]["Ethereum"] = anchorData[h]["Ethereum"]
           \/ anchorData'[h]["Ethereum"].entry # 0
           \/ anchorData'[h]["Ethereum"].block = 0

LEMMA DataKept ==
    ASSUME KnownAreClosed, EthereumByRecord, EthereumLeft,
           \A h \in Height : BlockExists(h) => BlockExists(h)'
    PROVE  KnownAreClosed' /\ EthereumByRecord'
BY DEF KnownAreClosed, EthereumByRecord, EthereumLeft

LEMMA DataUnchanged ==
    ASSUME UNCHANGED anchorData, KnownAreClosed
    PROVE  EthereumLeft
BY DEF EthereumLeft, Known, FetchAnchorData, KnownAreClosed

\* What was revealed stays true: nothing is taken back anywhere.
LEMMA OwnKept ==
    ASSUME RecordInv, OwnEntries, OwnRecordsAreTrue, BlocksKept, TxsKept,
           UNCHANGED revealed, \A id \in DOMAIN entries : entries'[id] = entries[id]
    PROVE  OwnRecordsAreTrue'
<1> SUFFICES ASSUME NEW r \in revealed, NEW e, e = entries[r.id]
             PROVE  /\ entries'[r.id] = e
                    /\ e.net = "Bitcoin"
                    /\ e.block \in DOMAIN btcBlocks'
                    /\ e.txid \in btcBlocks'[e.block].txs
                    /\ e.txid \in DOMAIN btcTx'
                    /\ btcTx'[e.txid].kind = "anchor" /\ btcTx'[e.txid].h = e.h
  BY DEF OwnRecordsAreTrue, AnchorTxs
<1>1. entries'[r.id] = e
  BY RecordTypes DEF RecordInv
<1>2. /\ e.net = "Bitcoin" /\ e.block \in DOMAIN btcBlocks
      /\ e.txid \in btcBlocks[e.block].txs /\ e.txid \in AnchorTxs(e.h)
  BY DEF OwnRecordsAreTrue
<1>3. e.block \in DOMAIN btcBlocks' /\ e.txid \in btcBlocks'[e.block].txs
  BY <1>2 DEF BlocksKept
<1>4. /\ e.txid \in DOMAIN btcTx'
      /\ btcTx'[e.txid].kind = "anchor" /\ btcTx'[e.txid].h = e.h
  BY <1>2 DEF TxsKept, AnchorTxs
<1> QED
  BY <1>1, <1>2, <1>3, <1>4

\* Bitcoin keeps what it has when it does not move.
LEMMA BitcoinUnmoved ==
    ASSUME NetworkInv, UNCHANGED btcVars
    PROVE  NetworkInv' /\ BlocksKept /\ TxsKept
<1>1. UNCHANGED <<btcTx, mempool, btcBlocks, mainChain>>
  BY DEF btcVars
<1>2. NetworkInv'
  BY <1>1 DEF NetworkInv, BitcoinTypeOK
<1> QED
  BY <1>1, <1>2, ChainUnmoved, NetworkTypes DEF TxsKept

\* The parts of the invariant that are about no single component.
SharedInv == KnownAreClosed /\ EthereumByRecord /\ OwnEntries /\ OwnRecordsAreTrue

\* They stay when this process reveals nothing, and Bitcoin and Factom keep what
\* they have.
LEMMA SharedKeeps ==
    ASSUME ProgramInv, EthereumLeft, BlocksKept, TxsKept, UNCHANGED <<entries, revealed>>,
           \A h \in Height : BlockExists(h) => BlockExists(h)'
    PROVE  SharedInv'
<1>1. OwnEntries'
  BY DEF ProgramInv, OwnEntries
<1> QED
  BY <1>1, DataKept, OwnKept DEF ProgramInv, SharedInv

-----------------------------------------------------------------------------
(* The Factom synchronization keeps the invariant. *)

LEMMA KnownPrefixKept ==
    ASSUME KnownPrefix, UNCHANGED anchorData
    PROVE  KnownPrefix'
BY DEF KnownPrefix, Known, FetchAnchorData

LEMMA LearnedKeepsPrefix ==
    ASSUME KnownPrefix, NEW h \in Height, Learned(h),
           \A k \in Height : Known(k)' <=> Known(k) \/ k = h
    PROVE  KnownPrefix'
<1> SUFFICES ASSUME NEW i \in Height, Known(i)', NEW k \in 0..i
             PROVE  Known(k)'
  BY DEF KnownPrefix
<1>1. k \in Height /\ (i = h => k = h \/ k \in 0..(h - 1))
  BY DatabaseAssumption DEF Height
<1> QED
  BY <1>1 DEF KnownPrefix, Learned

\* What a known block learns from Factom, as the Bitcoin part sees it.
LEMMA FoundFills ==
    ASSUME ProgramInv, NEW h \in Height, NEW n \in Networks, NEW a \in NetAnchor,
           Found(h, n, a)
    PROVE  OthersFill /\ EthereumLeft /\ KnownPrefix'
<1>1. /\ \A k \in Height : Known(k)' <=> Known(k)
      /\ \A k \in Height, m \in Networks : Known(k) =>
            anchorData'[k][m] = IF k = h /\ m = n THEN a ELSE anchorData[k][m]
  BY BitcoinTypes, OneAnchor DEF Found, ProgramInv, BitcoinInv
<1>2. OthersFill
  BY <1>1 DEF OthersFill, BtcAnchor, Networks, Found
<1>3. EthereumLeft
  BY <1>1 DEF EthereumLeft, Networks, Found
<1>4. KnownPrefix'
  <2>1. \A k \in Height : \A i \in 0..k : i \in Height
    BY DatabaseAssumption DEF Height
  <2> QED
    BY <1>1, <2>1 DEF ProgramInv, BitcoinInv, KnownPrefix
<1> QED
  BY <1>2, <1>3, <1>4

LEMMA LearnedFills ==
    ASSUME ProgramInv, NEW h \in Height, Learned(h)
    PROVE  OthersFill /\ EthereumLeft /\ KnownPrefix'
<1>1. /\ \A k \in Height : Known(k)' <=> Known(k) \/ k = h
      /\ \A m \in Networks :
            anchorData'[h][m] = [txid |-> 0, block |-> 0, entry |-> 0, rec |-> 0]
      /\ \A k \in Height : Known(k) => k # h /\ anchorData'[k] = anchorData[k]
  BY BitcoinTypes, OneBlock DEF Learned, ProgramInv, BitcoinInv
<1>2. OthersFill
  BY <1>1 DEF OthersFill, BtcAnchor, Networks
<1>3. EthereumLeft
  BY <1>1 DEF EthereumLeft, Networks, Learned
<1>4. KnownPrefix'
  BY <1>1, LearnedKeepsPrefix DEF ProgramInv, BitcoinInv
<1> QED
  BY <1>2, <1>3, <1>4

LEMMA FactomSyncKeeps ==
    ASSUME ProgramInv, FactomSyncStep
    PROVE  ProgramInv'
<1>0. [Next]_vars
  BY DEF Next
<1>1. /\ pc \in FactomSteps /\ pc' \in FactomSteps \cup {"syncBitcoin", "panic", "loop"}
      /\ UNCHANGED <<faults, lastBitcoin, factomVars, btcVars, anchorVars, recordVars>>
      /\ \/ UNCHANGED anchorData
         \/ \E h \in Height : Learned(h)
         \/ \E h \in Height, n \in Networks, a \in NetAnchor : Found(h, n, a)
  BY FactomSteppings
<1>2. BitcoinInv /\ RecordInv /\ NetworkInv /\ KnownPrefix /\ KnownAreClosed
  BY DEF ProgramInv, BitcoinInv, BitcoinTypeInv
<1>3. ProcessTypeOK' /\ DatabaseTypeOK' /\ FactomTypeOK' /\ HeadComplete'
  <2>1. pc' \in PCs
    BY <1>1 DEF PCs, FactomSteps, BitcoinSteps
  <2>2. lastBitcoin' \in Nat
    BY <1>1, <1>2 DEF BitcoinInv, BitcoinTypeInv, DatabaseTypeOK
  <2> QED
    BY <1>0, <2>1, <2>2, TypesAfter
<1>4. OthersFill /\ EthereumLeft /\ KnownPrefix'
  BY <1>1, <1>2, WaitingFillsNothing, DataUnchanged, KnownPrefixKept, FoundFills,
     LearnedFills
<1>5. BitcoinInv'
  <2>1. Elsewhere
    BY <1>1 DEF Elsewhere, Busy, FactomSteps
  <2> QED
    BY <1>1, <1>2, <1>3, <1>4, <2>1, OthersKeep
<1>6. RecordInv'
  <2>1. pc # "saving" /\ pc' # "saving" /\ UNCHANGED <<entries, recordVars>> /\ faults' = faults
    BY <1>1 DEF FactomSteps, factomVars
  <2>2. CASE UNCHANGED anchorData
    BY <1>2, <1>3, <2>1, <2>2, OthersMove
  <2>3. CASE \E h \in Height : Learned(h)
    BY <1>2, <1>3, <2>1, <2>3, OthersLearn DEF Learned
  <2>4. CASE \E h \in Height, n \in Networks, a \in NetAnchor : Found(h, n, a)
    <3>1. PICK h \in Height, n \in Networks, a \in NetAnchor : Found(h, n, a)
      BY <2>4
    <3>2. FilledInOrder(a)
      BY <3>1 DEF Found, FilledInOrder
    <3> QED
      BY <1>2, <1>3, <2>1, <3>1, <3>2, OthersFillIn DEF Found
  <2> QED
    BY <1>1, <2>2, <2>3, <2>4
<1>7. SharedInv'
  <2>1. BlocksKept /\ TxsKept
    BY <1>1, <1>2, BitcoinUnmoved
  <2>2. UNCHANGED <<entries, revealed>> /\ \A h : BlockExists(h)' <=> BlockExists(h)
    BY <1>1 DEF factomVars, recordVars, BlockExists
  <2> QED
    BY <1>4, <2>1, <2>2, SharedKeeps
<1> QED
  BY <1>0, <1>5, <1>6, <1>7, SyncKeeps DEF ProgramInv, SharedInv

-----------------------------------------------------------------------------
(* The Bitcoin part keeps the invariant. *)

\* Its steps send at most one transaction more.
LEMMA SendingKeepsChain ==
    ASSUME BitcoinInv,
           SynchronizeBitcoinData \/ AnchorBlocksIntoBitcoin \/ BitcoinAnchorFailures
    PROVE  BlocksKept /\ TxsKept
<1>0. NetworkInv
  BY DEF BitcoinInv, BitcoinTypeInv
<1>1. CASE UNCHANGED btcVars
  BY <1>0, <1>1, BitcoinUnmoved
<1>2. CASE SendNewest \/ SendOlder
  <2>1. PICK h : SendAnchor(h)
    BY <1>2 DEF SendNewest, SendOlder
  <2>2. /\ ~Recording /\ listed' = listed
        /\ UNCHANGED <<anchorData, chainHead, lastBitcoin>>
    BY <1>2 DEF SendNewest, SendOlder, dbVars, Recording
  <2> QED
    BY <2>1, <2>2, SendKeeps DEF SendAnchor
<1>3. CASE SendReplyLost
  <2>1. PICK h \in Height : SendingFor(h) /\ Broadcast(h, faults)
    BY <1>3 DEF SendReplyLost
  <2>2. /\ ~Recording /\ listed' \subseteq listed
        /\ UNCHANGED <<anchorData, chainHead, lastBitcoin>>
    BY <1>3, <2>1 DEF SendReplyLost, SendingFor, dbVars, Recording, ForgetAnchoring
  <2> QED
    BY <2>1, <2>2, SendKeeps DEF SendingFor
<1>4. SynchronizeBitcoinData => UNCHANGED btcVars
  BY DEF SynchronizeBitcoinData, NothingListed, ListTransactions, ProcessTx, SaveBitcoinState
<1>5. AnchorBlocksIntoBitcoin => UNCHANGED btcVars \/ SendNewest \/ SendOlder
  BY DEF AnchorBlocksIntoBitcoin, BeginAnchoring, NewestNotSent, RecordNewest, SkipOlder,
         RecordOlder, OlderDone
<1>6. BitcoinAnchorFailures => UNCHANGED btcVars \/ SendReplyLost
  BY DEF BitcoinAnchorFailures, BitcoinAnchorFails, RpcErrorPanics, RecordTxidFails
<1> QED
  BY <1>1, <1>2, <1>3, <1>4, <1>5, <1>6

\* Filling in an anchor changes nothing about Ethereum, and keeps the fields in order.
LEMMA FilledData ==
    ASSUME ProgramInv, NEW h \in Height, NEW a \in NetAnchor, Filled(h, a)
    PROVE  /\ FilledInOrder(a) /\ a.entry = 0 /\ anchorData[h]["Bitcoin"].entry = 0
           /\ \A k \in Height : Known(k)' <=> Known(k)
           /\ \A k \in Height, m \in Networks : Known(k) =>
                anchorData'[k][m] = IF k = h /\ m = "Bitcoin" THEN a ELSE anchorData[k][m]
<1>1. BtcAnchor(h).entry = 0
  BY DEF Filled, BtcAnchor, Networks, ProgramInv, RecordInv, AnchorsInOrder, FilledInOrder
<1>2. FilledInOrder(a) /\ a.entry = 0
  BY <1>1 DEF Filled, FilledInOrder
<1>3. "Bitcoin" \in Networks
  BY DEF Networks
<1> QED
  BY <1>1, <1>2, <1>3, BitcoinTypes, OneAnchor DEF Filled, ProgramInv, BitcoinInv, BtcAnchor

\* Whatever loses the locals leaves a database that knows no more than before.
LEMMA LostData ==
    ASSUME UNCHANGED dbVars \/ ReopenDatabase
    PROVE  \A h \in Height : Known(h)' => Known(h) /\ anchorData'[h] = anchorData[h]
BY DEF ReopenDatabase, Known, FetchAnchorData, dbVars

LEMMA BitcoinAnchorKeeps ==
    ASSUME ProgramInv, BitcoinAnchorStep
    PROVE  ProgramInv'
<1>0. [Next]_vars
  BY DEF Next
<1>1. /\ pc \in BitcoinPlaces
      /\ UNCHANGED <<factomVars, syncVars, recordVars>>
      /\ UNCHANGED <<entries, dblocks, at, batch, held, revealed>>
  BY BitcoinSteppings DEF ProgramInv, BitcoinAnchorStep, factomVars, recordVars
<1>2. BitcoinInv /\ RecordInv /\ KnownAreClosed
  BY DEF ProgramInv
<1>3. BitcoinInv'
  BY <1>2, BitcoinComponentKeeps DEF BitcoinAnchorStep
<1>4. ProcessTypeOK' /\ DatabaseTypeOK' /\ FactomTypeOK'
  BY <1>0, <1>3, TypesAfter DEF BitcoinInv, BitcoinTypeInv
<1>5. \/ /\ faults' = faults /\ pc # "saving" /\ pc' # "saving"
         /\ \/ UNCHANGED anchorData
            \/ \E h \in Height, a \in NetAnchor : Filled(h, a)
      \/ /\ faults' = faults + 1 /\ pc # "saving" /\ pc' # "saving"
         /\ UNCHANGED dbVars \/ ReopenDatabase
  BY <1>2, BitcoinSteppings
     DEF BitcoinAnchorStep, BitcoinPlaces, BitcoinSteps, AnchorSteps, Normally, FailedCall,
         Failed, Fault, Goto, dbVars
<1>6. RecordInv' /\ EthereumLeft
  <2>1. CASE faults' = faults /\ UNCHANGED anchorData
    BY <1>1, <1>2, <1>4, <1>5, <2>1, OthersMove, DataUnchanged DEF recordVars
  <2>2. CASE faults' = faults /\ \E h \in Height, a \in NetAnchor : Filled(h, a)
    <3>1. PICK h \in Height, a \in NetAnchor : Filled(h, a)
      BY <2>2
    <3>2. /\ FilledInOrder(a) /\ a.entry = 0 /\ anchorData[h]["Bitcoin"].entry = 0
          /\ \A k \in Height : Known(k)' <=> Known(k)
          /\ \A k \in Height, m \in Networks : Known(k) =>
                anchorData'[k][m] = IF k = h /\ m = "Bitcoin" THEN a ELSE anchorData[k][m]
      BY <3>1, FilledData
    <3>3. RecordInv'
      <4>1. pc # "saving" /\ pc' # "saving"
        BY <1>5
      <4>2. "Bitcoin" \in Networks /\ UNCHANGED <<entries, recordVars>>
        BY <1>1 DEF Networks
      <4>3. Known(h) /\ InsertAnchorData(h, [anchorData[h] EXCEPT !["Bitcoin"] = a])
        BY <3>1 DEF Filled
      <4> QED
        BY <1>2, <1>4, <2>2, <3>2, <4>1, <4>2, <4>3, OthersFillIn
    <3>4. EthereumLeft
      BY <3>2 DEF EthereumLeft, Networks
    <3> QED
      BY <3>3, <3>4
  <2>3. CASE faults' = faults + 1 /\ (UNCHANGED dbVars \/ ReopenDatabase)
    <3>1. \A h \in Height : Known(h)' => Known(h) /\ anchorData'[h] = anchorData[h]
      BY <2>3, LostData
    <3>2. RecordInv'
      BY <1>1, <1>2, <1>4, <1>5, <2>3, <3>1, CallLost
    <3> QED
      BY <3>1, <3>2 DEF EthereumLeft
  <2> QED
    BY <1>5, <2>1, <2>2, <2>3
<1>7. SharedInv'
  <2>1. BlocksKept /\ TxsKept
    BY <1>2, SendingKeepsChain DEF BitcoinAnchorStep
  <2>2. \A h : BlockExists(h)' <=> BlockExists(h)
    BY <1>1 DEF BlockExists
  <2> QED
    BY <1>1, <1>6, <2>1, <2>2, SharedKeeps
<1> QED
  BY <1>0, <1>3, <1>6, <1>7, SyncKeeps DEF ProgramInv, SharedInv

-----------------------------------------------------------------------------
(* The record saving keeps the invariant. *)

\* What is revealed is what is stored of the anchor, and that is true.
LEMMA RevealedIsTrue ==
    ASSUME ProgramInv, pc = "saving", Turn("Bitcoin")
    PROVE  /\ BtcAnchor(at).block \in DOMAIN btcBlocks
           /\ BtcAnchor(at).txid \in btcBlocks[BtcAnchor(at).block].txs
           /\ BtcAnchor(at).txid \in AnchorTxs(at)
<1>1. Known(at) /\ at \in Height
  BY RecordTypes DEF ProgramInv, RecordInv, HeldInv
<1>2. BtcAnchor(at).block # 0 /\ BtcAnchor(at).entry = 0
  BY DEF Turn, Unrecorded, BtcAnchor
<1>3. BtcAnchor(at).rec = 0
  <2>1. BtcAnchor(at).rec \in Nat
    BY <1>1, AnchorType, RecordTypes, DatabaseAssumption
       DEF ProgramInv, RecordInv, BtcAnchor, Networks, Height
  <2>2. ~(BtcAnchor(at).rec > 0)
    BY <1>1, <1>2
       DEF ProgramInv, RecordInv, AnchorsInOrder, FilledInOrder, BtcAnchor, Networks
  <2> QED
    BY <2>1, <2>2
<1>4. BtcAnchor(at).block \in DOMAIN btcBlocks
  <2>1. BtcAnchor(at).block \in 0..Len(btcBlocks) /\ NetworkInv
    BY <1>1, <1>3 DEF ProgramInv, BitcoinInv, BitcoinTypeInv, StoredBlocksExist
  <2> QED
    BY <1>2, <2>1, NetworkTypes
<1> QED
  BY <1>1, <1>2, <1>3, <1>4 DEF ProgramInv, BitcoinInv, StoredHashHoldsAnchor, BtcAnchor

LEMMA OwnRevealKeepsShared ==
    ASSUME ProgramInv, pc = "saving", Turn("Bitcoin"), Reveal("Bitcoin"),
           UNCHANGED <<dbVars, btcVars>>
    PROVE  SharedInv'
<1> DEFINE new == Len(entries) + 1
<1>1. PICK e : e = [h |-> at, net |-> "Bitcoin", txid |-> anchorData[at]["Bitcoin"].txid,
                    block |-> anchorData[at]["Bitcoin"].block, kind |-> "anchor"]
  OBVIOUS
<1>2. /\ e.h = at /\ e.net = "Bitcoin"
      /\ e.txid = BtcAnchor(at).txid /\ e.block = BtcAnchor(at).block
  BY <1>1 DEF BtcAnchor
<1>3. /\ DOMAIN entries' = DOMAIN entries \cup {new}
      /\ new \notin DOMAIN entries
      /\ \A id \in DOMAIN entries : entries'[id] = entries[id]
      /\ entries'[new] = e
      /\ revealed' = revealed \cup {[id |-> new, epoch |-> faults]}
  <2>1. RecordInv /\ "Bitcoin" \in Networks
    BY DEF ProgramInv, Networks
  <2> QED
    BY <1>1, <2>1, RevealOfTurn
<1> HIDE DEF new
<1>4. UNCHANGED <<anchorData, dblocks, btcTx, btcBlocks>>
  BY DEF Reveal, RevealEntry, dbVars, btcVars
<1>5. KnownAreClosed' /\ EthereumByRecord'
  BY <1>4, DataUnchanged, DataKept DEF ProgramInv, BlockExists
<1>6. OwnEntries'
  <2> SUFFICES ASSUME NEW id \in DOMAIN entries', id > MaxEntries
               PROVE  \E r \in revealed' : r.id = id
    BY DEF OwnEntries
  <2>1. CASE id = new
    <3>1. [id |-> new, epoch |-> faults].id = id
      BY <2>1
    <3> QED
      BY <1>3, <3>1
  <2>2. CASE id \in DOMAIN entries
    BY <1>3, <2>2 DEF ProgramInv, OwnEntries
  <2> QED
    BY <1>3, <2>1, <2>2
<1>7. OwnRecordsAreTrue'
  <2> SUFFICES ASSUME NEW r \in revealed', NEW f, f = entries'[r.id]
               PROVE  /\ f.net = "Bitcoin" /\ f.block \in DOMAIN btcBlocks
                      /\ f.txid \in btcBlocks[f.block].txs
                      /\ f.txid \in DOMAIN btcTx
                      /\ btcTx[f.txid].kind = "anchor" /\ btcTx[f.txid].h = f.h
    BY <1>4 DEF OwnRecordsAreTrue, AnchorTxs
  <2>1. CASE r \in revealed
    <3>1. f = entries[r.id]
      BY <1>3, <2>1, RecordTypes DEF ProgramInv, RecordInv
    <3> QED
      BY <2>1, <3>1 DEF ProgramInv, OwnRecordsAreTrue, AnchorTxs
  <2>2. CASE r = [id |-> new, epoch |-> faults]
    <3>1. f = e
      BY <1>3, <2>2
    <3> QED
      BY <1>2, <3>1, RevealedIsTrue DEF AnchorTxs
  <2> QED
    BY <1>3, <2>1, <2>2
<1> QED
  BY <1>5, <1>6, <1>7 DEF SharedInv

LEMMA SavedFills ==
    ASSUME ProgramInv, NEW h \in Height, NEW a \in NetAnchor, Saved(h, a)
    PROVE  OthersFill /\ EthereumLeft /\ KnownPrefix'
<1>1. "Bitcoin" \in Networks
  BY DEF Networks
<1>2. /\ \A k \in Height : Known(k)' <=> Known(k)
      /\ \A k \in Height, m \in Networks : Known(k) =>
            anchorData'[k][m] = IF k = h /\ m = "Bitcoin" THEN a ELSE anchorData[k][m]
  BY <1>1, BitcoinTypes, OneAnchor DEF Saved, ProgramInv, BitcoinInv
<1>3. OthersFill
  BY <1>2 DEF OthersFill, BtcAnchor, Networks, Saved
<1>4. EthereumLeft
  BY <1>2 DEF EthereumLeft, Networks
<1>5. KnownPrefix'
  <2>1. \A k \in Height : \A i \in 0..k : i \in Height
    BY DatabaseAssumption DEF Height
  <2> QED
    BY <1>2, <2>1 DEF ProgramInv, BitcoinInv, KnownPrefix
<1> QED
  BY <1>3, <1>4, <1>5

LEMMA FactomRecordKeeps ==
    ASSUME ProgramInv, FactomRecordStep
    PROVE  ProgramInv'
<1>0. [Next]_vars
  BY DEF Next
<1>1. BitcoinInv /\ RecordInv /\ KnownAreClosed /\ EthereumByRecord /\ NetworkInv /\ KnownPrefix
  BY DEF ProgramInv, BitcoinInv, BitcoinTypeInv
<1>2. RecordInv'
  BY <1>1, SavingKeeps DEF FactomRecordStep
<1>3. ProcessTypeOK' /\ DatabaseTypeOK' /\ FactomTypeOK' /\ HeadComplete'
  BY <1>0, <1>2, TypesAfter DEF RecordInv, RecordTypeInv
<1>4. BlocksKept /\ TxsKept /\ UNCHANGED <<btcVars, anchorVars>>
  BY <1>1, BitcoinUnmoved DEF FactomRecordStep
<1>5. pc \notin Busy /\ pc' \notin Busy
  BY <1>1, SavingSteps
     DEF FactomRecordStep, SaveSteps, Busy, Normally, FailedCall, Failed, Fault, Goto,
         processVars
<1>6. \/ /\ faults' = faults /\ UNCHANGED <<lastBitcoin, dblocks>>
         /\ UNCHANGED anchorData \/ \E h \in Height, a \in NetAnchor : Saved(h, a)
         /\ UNCHANGED <<entries, revealed>>
      \/ /\ pc = "saving" /\ Turn("Bitcoin") /\ Reveal("Bitcoin") /\ UNCHANGED dbVars
         /\ faults' \in {faults, faults + 1}
      \/ /\ faults' \in {faults, faults + 1}
         /\ UNCHANGED <<dbVars, dblocks, entries, revealed>>
  BY <1>1, SavingSteps
     DEF FactomRecordStep, Normally, FailedCall, Failed, Fault, factomVars, processVars
<1>7. /\ faults' = faults + 1 /\ UNCHANGED dbVars
      \/ /\ faults' = faults /\ UNCHANGED lastBitcoin
         /\ UNCHANGED anchorData \/ \E h \in Height, a \in NetAnchor : Saved(h, a)
  BY <1>6 DEF dbVars
<1>8. UNCHANGED anchorData \/ (\E h \in Height, a \in NetAnchor : Saved(h, a)) =>
        OthersFill /\ EthereumLeft /\ KnownPrefix'
  BY <1>1, WaitingFillsNothing, KnownPrefixKept, DataUnchanged, SavedFills
<1>9. BitcoinInv'
  <2>1. CASE faults' = faults
    BY <1>1, <1>3, <1>4, <1>5, <1>7, <1>8, <2>1, OthersKeep DEF Elsewhere, ProgramInv,
       RecordInv, RecordTypeInv, ProcessTypeOK
  <2>2. CASE faults' = faults + 1 /\ UNCHANGED dbVars
    BY <1>1, <1>3, <1>4, <1>5, <2>2, FaultKeeps
  <2> QED
    BY <1>7, <2>1, <2>2
<1>10. SharedInv'
  <2>1. CASE UNCHANGED <<entries, dblocks, revealed>>
    <3>1. EthereumLeft
      BY <1>6, <1>8 DEF dbVars, Reveal, RevealEntry
    <3>2. \A h : BlockExists(h)' <=> BlockExists(h)
      BY <2>1 DEF BlockExists
    <3> QED
      BY <1>4, <2>1, <3>1, <3>2, SharedKeeps
  <2>2. CASE pc = "saving" /\ Turn("Bitcoin") /\ Reveal("Bitcoin") /\ UNCHANGED dbVars
    BY <1>4, <2>2, OwnRevealKeepsShared
  <2> QED
    BY <1>6, <2>1, <2>2
<1> QED
  BY <1>0, <1>2, <1>9, <1>10, SyncKeeps DEF ProgramInv, SharedInv

-----------------------------------------------------------------------------
(* The main loop and the networks keep the invariant. *)

LEMMA MainLoopKeeps ==
    ASSUME ProgramInv,
           MainStep \/ Stop \/ Crash \/ Start \/ StartAfterPanic
    PROVE  ProgramInv'
<1>0. [Next]_vars
  BY DEF Next
<1>1. BitcoinInv /\ RecordInv /\ KnownAreClosed /\ NetworkInv /\ KnownPrefix
  BY DEF ProgramInv, BitcoinInv, BitcoinTypeInv
<1>2. /\ UNCHANGED <<factomVars, btcVars, revealed>> /\ pc' \notin Busy /\ pc' # "saving"
      /\ \/ /\ pc \notin Busy /\ pc # "saving" /\ faults' = faults
            /\ UNCHANGED <<dbVars, anchorVars, recordVars>>
         \/ /\ faults' = faults + 1 /\ ReopenDatabase
            /\ UNCHANGED anchorVars \/ ForgetAnchoring
            /\ ForgetSaving \/ (pc # "saving" /\ UNCHANGED <<at, batch, held>>)
  <2> USE DEF Normally, Fault, Goto, OtherVars, recordVars, Busy
  <2>1. CASE MainStep \/ Start \/ StartAfterPanic
    BY <2>1 DEF MainStep, StartLoop, SynchronizedOnce, Start, StartAfterPanic,
                BitcoinRelaunch
  <2>2. CASE Stop
    BY <2>2 DEF Stop, ReopenDatabase
  <2>3. CASE Crash
    BY <2>3 DEF Crash
  <2> QED
    BY <2>1, <2>2, <2>3
<1>3. BlocksKept /\ TxsKept
  BY <1>1, <1>2, BitcoinUnmoved
<1>4. ProcessTypeOK' /\ DatabaseTypeOK' /\ FactomTypeOK' /\ HeadComplete'
  <2>1. pc' \in PCs
    BY DEF MainStep, StartLoop, SynchronizedOnce, Stop, Crash, Start, StartAfterPanic,
           BitcoinRelaunch, Normally, Fault, Goto, PCs, FactomSteps, AnchorSteps
  <2>2. lastBitcoin \in Nat
    BY <1>1 DEF BitcoinInv, BitcoinTypeInv, DatabaseTypeOK
  <2>3. lastBitcoin' \in Nat
    BY <1>2, <2>2 DEF dbVars, ReopenDatabase
  <2> QED
    BY <1>0, <2>1, <2>3, TypesAfter
<1>5. \A h \in Height : Known(h)' => Known(h) /\ anchorData'[h] = anchorData[h]
  BY <1>2, LostData
<1>6. BitcoinInv'
  <2>1. CASE pc \notin Busy /\ faults' = faults /\ UNCHANGED <<dbVars, anchorVars>>
    <3>1. UNCHANGED <<anchorData, lastBitcoin>>
      BY <2>1 DEF dbVars
    <3> QED
      BY <1>1, <1>2, <1>4, <2>1, <3>1, WaitingFillsNothing, KnownPrefixKept, OthersKeep
         DEF Elsewhere
  <2>2. CASE faults' = faults + 1 /\ ReopenDatabase /\ (UNCHANGED anchorVars \/ ForgetAnchoring)
    BY <1>1, <1>2, <1>4, <2>2, FaultKeeps
  <2> QED
    BY <1>2, <2>1, <2>2
<1>7. RecordInv'
  <2>1. UNCHANGED entries
    BY <1>2 DEF factomVars
  <2>2. CASE pc # "saving" /\ faults' = faults /\ UNCHANGED <<dbVars, recordVars>>
    BY <1>1, <1>2, <1>4, <2>1, <2>2, OthersMove DEF dbVars
  <2>3. CASE faults' = faults + 1
    BY <1>1, <1>2, <1>4, <1>5, <2>1, <2>3, CallLost
  <2> QED
    BY <1>2, <2>2, <2>3
<1>8. SharedInv'
  <2>1. EthereumLeft
    BY <1>5 DEF EthereumLeft
  <2>2. UNCHANGED <<entries, revealed>> /\ \A h : BlockExists(h)' <=> BlockExists(h)
    BY <1>2 DEF factomVars, BlockExists
  <2> QED
    BY <1>3, <2>1, <2>2, SharedKeeps
<1> QED
  BY <1>0, <1>6, <1>7, <1>8, SyncKeeps DEF ProgramInv, SharedInv

LEMMA FactomGrowsKeeps ==
    ASSUME ProgramInv, FactomGrows
    PROVE  ProgramInv'
<1>0. [Next]_vars
  BY DEF Next
<1>1. BitcoinInv /\ RecordInv /\ KnownAreClosed /\ EthereumByRecord /\ NetworkInv /\ KnownPrefix
  BY DEF ProgramInv, BitcoinInv, BitcoinTypeInv
<1>2. /\ UNCHANGED <<processVars, dbVars, btcVars, anchorVars, recordVars>>
      /\ UNCHANGED <<pc, faults, errors, progress, anchorData, chainHead, lastFactom,
                     lastBitcoin, revealed>>
  BY DEF FactomGrows, processVars, dbVars, recordVars
<1>3. ProcessTypeOK' /\ DatabaseTypeOK' /\ FactomTypeOK' /\ HeadComplete'
  <2>1. pc' \in PCs /\ lastBitcoin' \in Nat
    BY <1>1, <1>2 DEF BitcoinInv, BitcoinTypeInv, DatabaseTypeOK, ProcessTypeOK
  <2> QED
    BY <1>0, <2>1, TypesAfter
<1>4. BlocksKept /\ TxsKept
  BY <1>1, <1>2, BitcoinUnmoved
<1>5. BitcoinInv'
  BY <1>1, <1>2, <1>3, WaitingFillsNothing, KnownPrefixKept, OthersKeep DEF Waits
<1>6. FactomTypeOK /\ Len(dblocks) \in Nat /\ Len(entries) \in Nat
  BY <1>1 DEF RecordInv, RecordTypeInv, FactomTypeOK
<1>7. EthereumLeft
  BY <1>1, <1>2, DataUnchanged
<1>8. CASE MineDBlock
  <2>1. UNCHANGED entries /\ \A h \in Height : BlockExists(h) => BlockExists(h)'
    <3>1. Len(dblocks') = Len(dblocks) + 1
      BY <1>6, <1>8 DEF MineDBlock, FactomTypeOK
    <3> QED
      BY <1>6, <1>8, <3>1 DEF MineDBlock, BlockExists, Height
  <2>2. RecordInv'
    BY <1>1, <1>2, <1>3, <2>1, OthersMove
  <2>3. SharedInv'
    BY <1>2, <1>4, <1>7, <2>1, SharedKeeps
  <2> QED
    BY <1>0, <1>5, <2>2, <2>3, SyncKeeps DEF ProgramInv, SharedInv
<1>9. CASE SomeoneReveals
  <2>1. PICK e \in Entry : RevealEntry(e) /\ e.txid # 0 /\ e.block # 0
    <3>1. PICK h \in Height, n \in Networks, t \in Ids, b \in Ids, k \in Kinds :
            RevealEntry([h |-> h, net |-> n, txid |-> t, block |-> b, kind |-> k])
      BY <1>9 DEF SomeoneReveals
    <3>2. t \in Nat \ {0} /\ b \in Nat \ {0}
      BY SyncAssumption
    <3>3. [h |-> h, net |-> n, txid |-> t, block |-> b, kind |-> k] \in Entry
      BY <3>2 DEF Entry
    <3> QED
      BY <3>1, <3>2, <3>3
  <2>2. RecordInv'
    BY <1>1, <1>2, <2>1, OthersReveal
  <2>3. /\ Len(entries') = Len(entries) + 1
        /\ DOMAIN entries' = DOMAIN entries \cup {Len(entries) + 1}
        /\ \A id \in DOMAIN entries : entries'[id] = entries[id]
    BY <1>6, <2>1, EntriesGrow
  <2>4. OwnEntries'
    <3>1. Len(entries) < MaxEntries /\ MaxEntries \in Nat
      BY <1>9, SyncAssumption DEF SomeoneReveals
    <3>2. ~(Len(entries) + 1 > MaxEntries)
      BY <1>6, <3>1
    <3> QED
      BY <1>2, <2>3, <3>2 DEF ProgramInv, OwnEntries
  <2>5. KnownAreClosed' /\ EthereumByRecord'
    BY <1>1, <1>7, <2>1, DataKept DEF RevealEntry, BlockExists
  <2>6. OwnRecordsAreTrue'
    BY <1>1, <1>2, <1>4, <2>3, OwnKept DEF ProgramInv
  <2> QED
    BY <1>0, <1>5, <2>2, <2>4, <2>5, <2>6, SyncKeeps DEF ProgramInv
<1> QED
  BY <1>8, <1>9 DEF FactomGrows

LEMMA BitcoinGrowsKeeps ==
    ASSUME ProgramInv, BitcoinGrows \/ UNCHANGED vars
    PROVE  ProgramInv'
<1>0. [Next]_vars
  BY DEF Next
<1>1. BitcoinInv /\ RecordInv /\ KnownAreClosed /\ NetworkInv /\ KnownPrefix
  BY DEF ProgramInv, BitcoinInv, BitcoinTypeInv
<1>2. /\ UNCHANGED <<processVars, dbVars, anchorVars, factomVars, recordVars>>
      /\ UNCHANGED <<pc, faults, errors, progress, anchorData, chainHead, lastFactom,
                     lastBitcoin, entries, dblocks, revealed>>
  BY DEF BitcoinGrows, BitcoinMoves, vars, processVars, dbVars, factomVars, recordVars
<1>3. ProcessTypeOK' /\ DatabaseTypeOK' /\ FactomTypeOK' /\ HeadComplete'
  <2>1. pc' \in PCs /\ lastBitcoin' \in Nat
    BY <1>1, <1>2 DEF BitcoinInv, BitcoinTypeInv, DatabaseTypeOK, ProcessTypeOK
  <2> QED
    BY <1>0, <2>1, TypesAfter
<1>4. BlocksKept /\ TxsKept /\ BitcoinInv'
  <2>1. CASE BitcoinGrows
    BY <1>1, <1>2, <2>1, NetworkKeeps, BitcoinMovesKeeps DEF BitcoinGrows, BitcoinMoves
  <2>2. CASE UNCHANGED vars
    <3>1. UNCHANGED btcVars
      BY <2>2 DEF vars
    <3> QED
      BY <1>1, <1>2, <1>3, <3>1, BitcoinUnmoved, WaitingFillsNothing, KnownPrefixKept,
         OthersKeep DEF Waits
  <2> QED
    BY <2>1, <2>2
<1>5. RecordInv'
  BY <1>1, <1>2, <1>3, OthersMove
<1>6. SharedInv'
  <2>1. EthereumLeft /\ \A h : BlockExists(h)' <=> BlockExists(h)
    BY <1>1, <1>2, DataUnchanged DEF BlockExists
  <2> QED
    BY <1>2, <1>4, <2>1, SharedKeeps
<1> QED
  BY <1>0, <1>4, <1>5, <1>6, SyncKeeps DEF ProgramInv, SharedInv

-----------------------------------------------------------------------------
(* The theorems. *)

LEMMA ProgramInit == Init => ProgramInv
<1> SUFFICES ASSUME Init PROVE ProgramInv
  OBVIOUS
<1>1. /\ pc = "loop" /\ faults = 0 /\ errors = 0 /\ progress = FALSE
      /\ DatabaseInit /\ FactomInit /\ BitcoinInit
      /\ listed = {} /\ newBlock = 0 /\ height = 0 /\ count = 0 /\ sent = 0
      /\ nextHeight = 0 /\ cur = 0 /\ todo = {} /\ revealed = {}
  BY DEF Init, FactomSyncInit, BitcoinAnchorInit, FactomRecordInit
<1>2. RecordInv
  BY RecordInit DEF Init
<1>3. BitcoinInv
  <2>1. ProcessTypeOK /\ pc \notin Busy
    BY <1>1, <1>2 DEF RecordInv, RecordTypeInv, Busy
  <2> QED
    BY <1>1, <2>1, BitcoinInitInv
<1>4. S!IInv
  <2>1. S!FactomSyncInit
    BY <1>1, SyncPlace
       DEF S!FactomSyncInit, S!DatabaseInit, DatabaseInit, S!FactomInit, FactomInit,
           S!Height, Height
  <2> QED
    BY <2>1, S!InitIInv, FaultAssumption, DatabaseAssumption, NilAssumption,
       RecordDelayAssumption, SyncAssumptions, SameDatabase
<1>5. SharedInv
  <2>1. \A h : ~Known(h)
    BY <1>1 DEF DatabaseInit, Known, FetchAnchorData
  <2>2. DOMAIN entries = {}
    BY <1>1 DEF FactomInit
  <2> QED
    BY <1>1, <2>1, <2>2
       DEF SharedInv, KnownAreClosed, EthereumByRecord, OwnEntries, OwnRecordsAreTrue
<1> QED
  BY <1>2, <1>3, <1>4, <1>5 DEF ProgramInv, SharedInv

LEMMA ProgramNext == ProgramInv /\ [Next]_vars => ProgramInv'
BY FactomSyncKeeps, BitcoinAnchorKeeps, FactomRecordKeeps, MainLoopKeeps,
   FactomGrowsKeeps, BitcoinGrowsKeeps DEF Next

\* The inductive invariant of the whole program: that of each of its parts, and what
\* they say about one another.
THEOREM ProgramInvariance == Spec => []ProgramInv
BY ProgramInit, ProgramNext, PTL DEF Spec

\* Every variable of the program keeps its type, over all failures and restarts: no
\* loop leaves the directory blocks, its batch, the transactions sent or the entries
\* revealed.
THEOREM ProgramTypeCorrect == Spec => []TypeOK
<1>1. ProgramInv => TypeOK
  <2> SUFFICES ASSUME ProgramInv PROVE TypeOK
    OBVIOUS
  <2>1. FactomTypeOK /\ nextHeight \in 0..(MaxHeight + 1) /\ cur \in 0..(MaxHeight + 1)
    BY SyncFacts DEF ProgramInv
  <2>2. at \in 0..(MaxHeight + 1)
    BY RecordTypes, DatabaseAssumption DEF ProgramInv, RecordInv, Height
  <2> QED
    BY <2>1, <2>2
       DEF ProgramInv, RecordInv, RecordTypeInv, BitcoinInv, BitcoinTypeInv, NetworkInv,
           TypeOK
<1> QED
  BY <1>1, ProgramInvariance, PTL

\* Every record that the program reveals is true, for good: the Bitcoin block it
\* cites was mined and holds the transaction it cites, which anchors the directory
\* block it is about.  No order of failures, replies and reorganizations
\* makes it sign anything else.
THEOREM OwnRecordsAlwaysTrue == Spec => []OwnRecordsAreTrue
BY ProgramInvariance, PTL DEF ProgramInv

\* The whole program sends a directory block into Bitcoin at most once between two
\* failures that lose track of a send.
THEOREM ProgramNoSecondSend == Spec => []AnchoredOncePerFault
<1>1. ProgramInv => AnchoredOncePerFault
  BY DEF ProgramInv, BitcoinInv
<1> QED
  BY <1>1, ProgramInvariance, PTL

\* In the whole program LastBitcoinBlockChecked passes only anchors whose blocks have
\* a txid and a block hash by then, when the database is kept on disk.
THEOREM ProgramCheckpointCovers == Spec => []CheckedAnchorsAreKnown
<1>1. ProgramInv => CheckedAnchorsAreKnown
  BY DEF ProgramInv, BitcoinInv
<1> QED
  BY <1>1, ProgramInvariance, PTL

\* In the whole program no other transaction replaces an anchor that is confirmed or
\* recorded.
THEOREM ProgramAnchorsStay == Spec => ConfirmedAnchorKept
<1>1. ProgramInv =>
        ((SynchronizeBitcoinData \/ AnchorBlocksIntoBitcoin) =>
            \A h \in Height :
                Known(h) /\ (\/ anchorData[h]["Bitcoin"].block # 0
                             \/ anchorData[h]["Bitcoin"].rec > 0) =>
                    anchorData'[h] = anchorData[h])
  BY ConfirmedStepKeeps DEF BtcAnchor, ProgramInv
<1> QED
  BY <1>1, ProgramInvariance, PTL DEF ConfirmedAnchorKept

-----------------------------------------------------------------------------
(* The program implements the specification of its first part. *)

\* The two instances of FactomSync are one when every number may be an id.
LEMMA OneDatabase ==
    /\ Sync!Height = S!Height /\ Sync!Networks = S!Networks /\ Sync!Kinds = S!Kinds
    /\ Sync!FactomSteps = S!FactomSteps /\ Sync!Outside = S!Outside
    /\ Sync!NewAnchorData = S!NewAnchorData /\ Sync!AfterHead = S!AfterHead
    /\ \A h : Sync!FetchAnchorData(h) = S!FetchAnchorData(h)
    /\ \A h : Sync!Known(h) <=> S!Known(h)
    /\ \A h : Sync!Complete(h) <=> S!Complete(h)
    /\ \A h : Sync!BlockExists(h) <=> S!BlockExists(h)
    /\ \A h : Sync!BlockNotFound(h) <=> S!BlockNotFound(h)
    /\ \A h : Sync!EntriesIn(h) = S!EntriesIn(h)
BY DEF Sync!Height, S!Height, Sync!Networks, S!Networks, Sync!Kinds, S!Kinds,
       Sync!FactomSteps, S!FactomSteps, Sync!Outside, S!Outside,
       Sync!NewAnchorData, S!NewAnchorData, Sync!AfterHead, S!AfterHead,
       Sync!FetchAnchorData, S!FetchAnchorData, Sync!Known, S!Known,
       Sync!Complete, S!Complete, Sync!IsComplete, S!IsComplete,
       Sync!BlockExists, S!BlockExists, Sync!BlockNotFound, S!BlockNotFound,
       Sync!EntriesIn, S!EntriesIn

LEMMA OneProcess ==
    /\ \A l : Sync!Normally(l) <=> S!Normally(l)
    /\ Sync!FailedCall <=> S!FailedCall
    /\ \A k, l : Sync!Fault(k, l) <=> S!Fault(k, l)
    /\ \A h, ad : Sync!InsertAnchorData(h, ad) <=> S!InsertAnchorData(h, ad)
    /\ Sync!ReopenDatabase <=> S!ReopenDatabase
    /\ Sync!UpdateAnchorDataHead <=> S!UpdateAnchorDataHead
    /\ Sync!ScanDereferencesNil <=> S!ScanDereferencesNil
    /\ \A e : Sync!RevealEntry(e) <=> S!RevealEntry(e)
    /\ Sync!MineDBlock <=> S!MineDBlock
BY OneDatabase
DEF Sync!dbVars, S!dbVars, Sync!Normally, S!Normally, Sync!FailedCall, S!FailedCall, Sync!Failed, S!Failed,
    Sync!Fault, S!Fault, Sync!Goto, S!Goto, Sync!InsertAnchorData, S!InsertAnchorData,
    Sync!ReopenDatabase, S!ReopenDatabase, Sync!UpdateAnchorDataHead,
    S!UpdateAnchorDataHead, Sync!ScanDereferencesNil, S!ScanDereferencesNil,
    Sync!ScanStopsAt, S!ScanStopsAt, Sync!RevealEntry, S!RevealEntry,
    Sync!MineDBlock, S!MineDBlock, Sync!Timely, S!Timely

LEMMA OneSync ==
    ASSUME NetworkIds = Nat \ {0}
    PROVE  S!FactomSyncNext => Sync!FactomSyncNext
<1> USE DEF Sync!dbVars, S!dbVars, Sync!processVars, S!processVars, Sync!factomVars,
            S!factomVars, Sync!syncVars, S!syncVars
<1>1. S!SynchronizeFactomData => Sync!SynchronizeFactomData
  <2>1. S!ProcessEntry => Sync!ProcessEntry
    <3>1. \A id : /\ S!SkipEntry(id) => Sync!SkipEntry(id)
                  /\ S!SaveRecord(id) => Sync!SaveRecord(id)
                  /\ S!RecordOfUnknownBlock(id) => Sync!RecordOfUnknownBlock(id)
      BY OneDatabase, OneProcess
      DEF S!SkipEntry, Sync!SkipEntry, S!SaveRecord, Sync!SaveRecord, S!WithRecord,
          Sync!WithRecord, S!RecordOfUnknownBlock, Sync!RecordOfUnknownBlock
    <3> QED
      BY <3>1, OneDatabase DEF S!ProcessEntry, Sync!ProcessEntry
  <2>2. S!SyncFactom \/ S!FetchDBlock \/ S!FetchDone =>
            Sync!SyncFactom \/ Sync!FetchDBlock \/ Sync!FetchDone
    BY OneDatabase, OneProcess
    DEF S!SyncFactom, Sync!SyncFactom, S!FetchDBlock, Sync!FetchDBlock, S!FetchDone,
        Sync!FetchDone
  <2>3. S!InsertDBlock \/ S!UpdateHead \/ S!SaveFactomState =>
            Sync!InsertDBlock \/ Sync!UpdateHead \/ Sync!SaveFactomState
    BY OneDatabase, OneProcess
    DEF S!InsertDBlock, Sync!InsertDBlock, S!UpdateHead, Sync!UpdateHead,
        S!SaveFactomState, Sync!SaveFactomState
  <2> QED
    BY <2>1, <2>2, <2>3 DEF S!SynchronizeFactomData, Sync!SynchronizeFactomData
<1>2. S!SomeoneReveals => Sync!SomeoneReveals
  BY OneDatabase, OneProcess DEF S!SomeoneReveals, Sync!SomeoneReveals
<1>3. S!FillAnchor => Sync!FillAnchor
  BY OneDatabase, OneProcess DEF S!FillAnchor, Sync!FillAnchor
<1>4. S!FactomSyncFails \/ S!CallAgain \/ S!Restart =>
        Sync!FactomSyncFails \/ Sync!CallAgain \/ Sync!Restart
  BY OneDatabase, OneProcess
  DEF S!FactomSyncFails, Sync!FactomSyncFails, S!CallAgain, Sync!CallAgain, S!Restart,
      Sync!Restart
<1>5. S!CloseBlock \/ S!SignerReveals => Sync!CloseBlock \/ Sync!SignerReveals
  BY <1>2, OneDatabase, OneProcess
  DEF S!CloseBlock, Sync!CloseBlock, S!SignerReveals, Sync!SignerReveals
<1>6. S!RestOfLoopSteps \/ S!RestOfLoopFails => Sync!RestOfLoopSteps \/ Sync!RestOfLoopFails
  BY <1>2, <1>3, OneDatabase, OneProcess
  DEF S!RestOfLoopSteps, Sync!RestOfLoopSteps, S!RestOfLoopFails, Sync!RestOfLoopFails
<1> QED
  BY <1>1, <1>4, <1>5, <1>6 DEF S!FactomSyncNext, Sync!FactomSyncNext

\* The whole program implements the specification of the Factom synchronization:
\* anchoring, record saving and the main loop do nothing that its general environment
\* may not do.  What the environment may name is any number (a run gives NetworkIds
\* the finitely many ids that its networks reach).
THEOREM ProgramImplementsSync ==
    ASSUME NetworkIds = Nat \ {0}
    PROVE  Spec => ImplementsFactomSync
<1>1. Init => Sync!FactomSyncInit
  <2> SUFFICES ASSUME Init PROVE Sync!FactomSyncInit
    OBVIOUS
  <2>1. SyncPc = "loop"
    BY SyncPlace DEF Init, FactomSyncInit
  <2> QED
    BY <2>1
       DEF Init, FactomSyncInit, Sync!FactomSyncInit, Sync!DatabaseInit, DatabaseInit,
           Sync!FactomInit, FactomInit, Sync!Height, Height
<1>2. ProgramInv /\ [Next]_vars => [Sync!FactomSyncNext]_(Sync!factomSyncVars)
  <2> SUFFICES ASSUME ProgramInv, [Next]_vars
               PROVE  [Sync!FactomSyncNext]_(Sync!factomSyncVars)
    OBVIOUS
  <2>1. CASE S!FactomSyncNext
    BY <2>1, OneSync
  <2>2. CASE UNCHANGED S!factomSyncVars
    BY <2>2
       DEF S!factomSyncVars, Sync!factomSyncVars, S!processVars, Sync!processVars,
           S!dbVars, Sync!dbVars, S!factomVars, Sync!factomVars, S!syncVars, Sync!syncVars
  <2> QED
    BY <2>1, <2>2, SyncNext
<1> QED
  BY <1>1, <1>2, ProgramInvariance, PTL DEF Spec, ImplementsFactomSync, Sync!FactomSyncSpec

-----------------------------------------------------------------------------
(* The program keeps the promise of AnchorLifecycle. *)

\* The stages of all blocks, as the promise sees them.
BlockStages == [h \in Height |-> StageOf(h)]

LEMMA StagesKept ==
    ASSUME UNCHANGED <<anchorData, chainHead>>
    PROVE  UNCHANGED Lifecycle!lifecycleVars
<1>1. \A h \in Height : StageOf(h)' = StageOf(h)
  BY DEF StageOf, Known, FetchAnchorData
<1>2. UNCHANGED BlockStages /\ UNCHANGED AfterHead
  BY <1>1 DEF BlockStages, AfterHead
<1> QED
  BY <1>2 DEF Lifecycle!lifecycleVars, BlockStages

\* One block goes on to another stage.
LEMMA OneMoves ==
    ASSUME NEW h \in Height, NEW from, NEW to, StageOf(h) \in from,
           \A k \in Height : StageOf(k)' = (IF k = h THEN to ELSE StageOf(k)),
           UNCHANGED chainHead
    PROVE  Lifecycle!Moves(h, from, to)
<1>1. BlockStages' = [BlockStages EXCEPT ![h] = to]
  BY DEF BlockStages
<1>2. BlockStages[h] \in from
  BY DEF BlockStages
<1>3. UNCHANGED AfterHead
  BY DEF AfterHead
<1> QED
  BY <1>1, <1>2, <1>3 DEF Lifecycle!Moves, BlockStages

\* The stage of a block depends on its own anchor in Bitcoin.
LEMMA SameStage ==
    ASSUME NEW k \in Height, Known(k)' <=> Known(k),
           Known(k) => anchorData'[k]["Bitcoin"] = anchorData[k]["Bitcoin"]
    PROVE  StageOf(k)' = StageOf(k)
BY DEF StageOf

\* A block is learned of, after all those below it.
LEMMA LearnedMoves ==
    ASSUME ProgramInv, NEW h \in Height, Learned(h), UNCHANGED chainHead
    PROVE  Lifecycle!Learn(h)
<1>1. /\ \A k \in Height : Known(k)' <=> Known(k) \/ k = h
      /\ \A m \in Networks :
            anchorData'[h][m] = [txid |-> 0, block |-> 0, entry |-> 0, rec |-> 0]
      /\ \A k \in Height : Known(k) => k # h /\ anchorData'[k] = anchorData[k]
  BY BitcoinTypes, OneBlock DEF Learned, ProgramInv, BitcoinInv
<1>2. StageOf(h) = "unknown" /\ StageOf(h)' = "new"
  BY <1>1 DEF StageOf, Learned, Networks
<1>3. \A k \in Height : k # h => StageOf(k)' = StageOf(k)
  BY <1>1, SameStage
<1>4. \A k \in Height : k < h => BlockStages[k] # "unknown"
  <2> SUFFICES ASSUME NEW k \in Height, k < h PROVE StageOf(k) # "unknown"
    BY DEF BlockStages
  <2>1. k \in 0..(h - 1)
    BY DatabaseAssumption DEF Height
  <2> QED
    BY <2>1 DEF Learned, StageOf
<1>5. Lifecycle!Moves(h, {"unknown"}, "new")
  BY <1>2, <1>3, OneMoves
<1> QED
  BY <1>4, <1>5 DEF Lifecycle!Learn, BlockStages

\* A record finishes the block it is about, from any stage.
LEMMA FoundMoves ==
    ASSUME ProgramInv, NEW h \in Height, NEW n \in Networks, NEW a \in NetAnchor,
           Found(h, n, a), UNCHANGED chainHead
    PROVE  Lifecycle!Finish(h) \/ UNCHANGED Lifecycle!lifecycleVars
<1>1. /\ \A k \in Height : Known(k)' <=> Known(k)
      /\ \A k \in Height, m \in Networks : Known(k) =>
            anchorData'[k][m] = IF k = h /\ m = n THEN a ELSE anchorData[k][m]
  BY BitcoinTypes, OneAnchor DEF Found, ProgramInv, BitcoinInv
<1>2. \A k \in Height : k # h \/ n # "Bitcoin" => StageOf(k)' = StageOf(k)
  BY <1>1, SameStage DEF Networks
<1>3. CASE n = "Bitcoin"
  <2>1. StageOf(h)' = "finished" /\ StageOf(h) \in Lifecycle!Stages \ {"unknown"}
    BY <1>1, <1>3 DEF StageOf, Found, Lifecycle!Stages, Networks
  <2> QED
    BY <1>2, <2>1, OneMoves DEF Lifecycle!Finish
<1>4. CASE n # "Bitcoin"
  <2>1. UNCHANGED BlockStages /\ UNCHANGED AfterHead
    BY <1>2, <1>4 DEF BlockStages, AfterHead
  <2> QED
    BY <2>1 DEF Lifecycle!lifecycleVars, BlockStages
<1> QED
  BY <1>3, <1>4

\* An anchor is sent, or found confirmed.
LEMMA FilledMoves ==
    ASSUME ProgramInv, NEW h \in Height, NEW a \in NetAnchor, Filled(h, a),
           UNCHANGED chainHead
    PROVE  Lifecycle!Send(h) \/ Lifecycle!Confirm(h)
<1>1. /\ \A k \in Height : Known(k)' <=> Known(k)
      /\ \A k \in Height, m \in Networks : Known(k) =>
            anchorData'[k][m] = IF k = h /\ m = "Bitcoin" THEN a ELSE anchorData[k][m]
  BY BitcoinTypes, OneAnchor DEF Filled, ProgramInv, BitcoinInv, Networks
<1>2. \A k \in Height : k # h => StageOf(k)' = StageOf(k)
  BY <1>1, SameStage DEF Networks
<1>3. BtcAnchor(h).entry = 0 /\ BtcAnchor(h).block = 0 /\ BtcAnchor(h).rec = 0
  BY DEF Filled, ProgramInv, RecordInv, AnchorsInOrder, FilledInOrder, BtcAnchor, Networks
<1>4. StageOf(h) = IF BtcAnchor(h).txid # 0 THEN "sent" ELSE "new"
  BY <1>3 DEF StageOf, BtcAnchor, Filled
<1>5. StageOf(h)' = IF a.block # 0 THEN "confirmed" ELSE "sent"
  BY <1>1, <1>3 DEF StageOf, Filled, Networks
<1>6. CASE a.block = 0
  <2>1. BtcAnchor(h).txid = 0
    BY <1>6 DEF Filled
  <2> QED
    BY <1>2, <1>4, <1>5, <1>6, <2>1, OneMoves DEF Lifecycle!Send
<1>7. CASE a.block # 0
  BY <1>2, <1>4, <1>5, <1>7, OneMoves DEF Lifecycle!Confirm
<1> QED
  BY <1>6, <1>7

\* A record of a confirmed anchor is revealed.
LEMMA SavedMoves ==
    ASSUME ProgramInv, NEW h \in Height, NEW a \in NetAnchor, Saved(h, a),
           UNCHANGED chainHead
    PROVE  Lifecycle!RevealRecordOf(h)
<1>1. /\ \A k \in Height : Known(k)' <=> Known(k)
      /\ \A k \in Height, m \in Networks : Known(k) =>
            anchorData'[k][m] = IF k = h /\ m = "Bitcoin" THEN a ELSE anchorData[k][m]
  BY BitcoinTypes, OneAnchor DEF Saved, ProgramInv, BitcoinInv, Networks
<1>2. \A k \in Height : k # h => StageOf(k)' = StageOf(k)
  BY <1>1, SameStage DEF Networks
<1>3. StageOf(h) = "confirmed" /\ StageOf(h)' = "revealed"
  BY <1>1 DEF StageOf, Saved, BtcAnchor, Networks
<1> QED
  BY <1>2, <1>3, OneMoves DEF Lifecycle!RevealRecordOf

\* The chain head moves on over finished blocks only.
LEMMA HeadLeaves ==
    ASSUME ProgramInv, UpdateAnchorDataHead, UNCHANGED anchorData, HeadComplete'
    PROVE  Lifecycle!Leave \/ UNCHANGED Lifecycle!lifecycleVars
<1> SUFFICES ASSUME NEW s \in Height, AfterHead <= s,
                    s = 0 => chainHead' = Nil, s # 0 => chainHead' = s - 1
             PROVE  Lifecycle!Leave \/ UNCHANGED Lifecycle!lifecycleVars
  BY DEF UpdateAnchorDataHead, ScanStopsAt
<1>1. s \in Nat /\ AfterHead \in Nat
  BY DatabaseAssumption
     DEF Height, AfterHead, ProgramInv, BitcoinInv, BitcoinTypeInv, DatabaseTypeOK
<1>2. AfterHead' = s
  BY <1>1, NilAssumption, DatabaseAssumption DEF AfterHead, Height
<1>3. UNCHANGED BlockStages
  BY DEF BlockStages, StageOf, Known, FetchAnchorData
<1>4. \A h \in Height : h < s => BlockStages[h] = "finished"
  <2> SUFFICES ASSUME NEW h \in Height, h < s PROVE StageOf(h) = "finished"
    BY DEF BlockStages
  <2>1. chainHead' # Nil /\ h \in 0..chainHead'
    BY <1>1, NilAssumption, DatabaseAssumption DEF Height
  <2>2. Complete(h)'
    BY <2>1 DEF HeadComplete
  <2> QED
    BY <2>2 DEF Complete, IsComplete, StageOf, Known, FetchAnchorData
<1>5. ASSUME AfterHead = s PROVE UNCHANGED Lifecycle!lifecycleVars
  BY <1>2, <1>3, <1>5 DEF Lifecycle!lifecycleVars, BlockStages
<1>6. ASSUME AfterHead < s PROVE Lifecycle!Leave
  BY <1>2, <1>3, <1>4, <1>6 DEF Lifecycle!Leave, BlockStages
<1>7. AfterHead = s \/ AfterHead < s
  BY <1>1
<1> QED
  BY <1>5, <1>6, <1>7

\* The head is all that the other steps of the Factom synchronization may move.
LEMMA OnlyHead ==
    ASSUME FactomSyncStep, UNCHANGED anchorData
    PROVE  UNCHANGED chainHead \/ UpdateAnchorDataHead
<1> USE DEF FactomSyncStep, dbVars
<1>1. CASE ProcessEntry
  BY <1>1 DEF ProcessEntry, SkipEntry, SaveRecord, RecordOfUnknownBlock
<1>2. CASE SyncFactom \/ FetchDBlock \/ FetchDone \/ InsertDBlock
  BY <1>2 DEF SyncFactom, FetchDBlock, FetchDone, InsertDBlock
<1>3. CASE UpdateHead \/ SaveFactomState \/ FactomSyncFails
  BY <1>3 DEF UpdateHead, SaveFactomState, FactomSyncFails
<1> QED
  BY <1>1, <1>2, <1>3 DEF SynchronizeFactomData

LEMMA LifecycleSteps ==
    ASSUME ProgramInv, [Next]_vars, Persistent
    PROVE  [Lifecycle!LifecycleNext]_(Lifecycle!lifecycleVars)
<1>1. CASE FactomSyncStep
  <2>1. CASE UNCHANGED anchorData
    <3>1. HeadComplete'
      BY TypesAfter
    <3>2. Lifecycle!Leave \/ UNCHANGED Lifecycle!lifecycleVars
      BY <1>1, <2>1, <3>1, OnlyHead, HeadLeaves, StagesKept
    <3> QED
      BY <3>2 DEF Lifecycle!LifecycleNext
  <2>2. ASSUME UNCHANGED chainHead, NEW h \in Height, Learned(h)
        PROVE  Lifecycle!LifecycleNext
    BY <2>2, LearnedMoves DEF Lifecycle!LifecycleNext
  <2>3. ASSUME UNCHANGED chainHead, NEW h \in Height, NEW n \in Networks,
               NEW a \in NetAnchor, Found(h, n, a)
        PROVE  Lifecycle!LifecycleNext \/ UNCHANGED Lifecycle!lifecycleVars
    BY <2>3, FoundMoves DEF Lifecycle!LifecycleNext
  <2> QED
    BY <1>1, <2>1, <2>2, <2>3, FactomSteppings
<1>2. CASE BitcoinAnchorStep
  <2>1. ASSUME UNCHANGED chainHead, NEW h \in Height, NEW a \in NetAnchor, Filled(h, a)
        PROVE  Lifecycle!LifecycleNext
    BY <2>1, FilledMoves DEF Lifecycle!LifecycleNext
  <2>2. \/ UNCHANGED <<anchorData, chainHead>>
        \/ UNCHANGED chainHead /\ \E h \in Height, a \in NetAnchor : Filled(h, a)
    BY <1>2, BitcoinSteppings DEF BitcoinAnchorStep, ProgramInv, dbVars
  <2> QED
    BY <2>1, <2>2, StagesKept
<1>3. CASE FactomRecordStep
  <2>1. ASSUME UNCHANGED chainHead, NEW h \in Height, NEW a \in NetAnchor, Saved(h, a)
        PROVE  Lifecycle!LifecycleNext
    BY <2>1, SavedMoves DEF Lifecycle!LifecycleNext
  <2>2. \/ UNCHANGED <<anchorData, chainHead>>
        \/ UNCHANGED chainHead /\ \E h \in Height, a \in NetAnchor : Saved(h, a)
    BY <1>3, SavingSteps DEF FactomRecordStep, ProgramInv, dbVars
  <2> QED
    BY <2>1, <2>2, StagesKept
<1>4. CASE MainStep \/ Stop \/ Crash \/ Start \/ StartAfterPanic
  <2>1. UNCHANGED dbVars
    BY <1>4
       DEF MainStep, StartLoop, SynchronizedOnce, Stop, Crash, Start, StartAfterPanic,
           BitcoinRelaunch, ReopenDatabase
  <2> QED
    BY <2>1, StagesKept DEF dbVars
<1>5. CASE FactomGrows \/ BitcoinGrows \/ UNCHANGED vars
  <2>1. UNCHANGED dbVars
    BY <1>5 DEF FactomGrows, BitcoinGrows, BitcoinMoves, vars
  <2> QED
    BY <2>1, StagesKept DEF dbVars
<1> QED
  BY <1>1, <1>2, <1>3, <1>4, <1>5 DEF Next

\* With a database on disk the whole program keeps the promise made for each block:
\* whatever fails, is lost or restarted, a block goes through its stages in order, is
\* finished by a record in Factom only, and is left behind by the loops only when all
\* blocks up to it are finished.
THEOREM ProgramKeepsPromise ==
    ASSUME Persistent
    PROVE  Spec => ImplementsLifecycle
<1>1. Init => Lifecycle!LifecycleInit
  <2> SUFFICES ASSUME Init PROVE Lifecycle!LifecycleInit
    OBVIOUS
  <2>1. DatabaseInit
    BY DEF Init, FactomSyncInit
  <2>2. \A h \in Height : StageOf(h) = "unknown"
    BY <2>1 DEF DatabaseInit, StageOf, Known, FetchAnchorData
  <2> QED
    BY <2>1, <2>2 DEF Lifecycle!LifecycleInit, DatabaseInit, AfterHead
<1>2. ProgramInv /\ [Next]_vars =>
        [Lifecycle!LifecycleNext]_(Lifecycle!lifecycleVars)
  BY LifecycleSteps
<1> QED
  BY <1>1, <1>2, ProgramInvariance, PTL DEF Spec, ImplementsLifecycle, Lifecycle!LifecycleSpec
-----------------------------------------------------------------------------
(* No block that is confirmed in the checked part of the chain is sent again.  *)

\* What a step may do to Bitcoin: nothing, what Bitcoin does, or a send.
LEMMA BitcoinWrites ==
    ASSUME ProgramInv, [Next]_vars
    PROVE  \/ UNCHANGED btcVars
           \/ BitcoinNetworkStep
           \/ \E h \in Height : SendingFor(h) /\ Broadcast(h, faults)
<1>1. CASE BitcoinAnchorStep
  <2>1. CASE SendNewest \/ SendOlder
    <3>1. PICK h : SendingFor(h) /\ Broadcast(h, faults)
      BY <2>1 DEF SendNewest, SendOlder, SendAnchor, SendingFor
    <3>2. h \in Height
      BY <3>1, KnownData, BitcoinTypes
         DEF SendingFor, NeedsAnchor, ProgramInv, BitcoinInv, FetchAnchorData, Known
    <3> QED
      BY <3>1, <3>2
  <2>2. CASE SendReplyLost
    BY <2>2 DEF SendReplyLost
  <2>3. SynchronizeBitcoinData => UNCHANGED btcVars
    BY DEF SynchronizeBitcoinData, NothingListed, ListTransactions, ProcessTx,
           SaveBitcoinState
  <2>4. AnchorBlocksIntoBitcoin => UNCHANGED btcVars \/ SendNewest \/ SendOlder
    BY DEF AnchorBlocksIntoBitcoin, BeginAnchoring, NewestNotSent, RecordNewest, SkipOlder,
           RecordOlder, OlderDone
  <2>5. BitcoinAnchorFailures => UNCHANGED btcVars \/ SendReplyLost
    BY DEF BitcoinAnchorFailures, BitcoinAnchorFails, RpcErrorPanics, RecordTxidFails
  <2> QED
    BY <1>1, <2>1, <2>2, <2>3, <2>4, <2>5 DEF BitcoinAnchorStep
<1>2. CASE BitcoinGrows
  BY <1>2 DEF BitcoinGrows, BitcoinMoves
<1>3. FactomSyncStep \/ FactomRecordStep \/ FactomGrows \/ (UNCHANGED vars)
        => UNCHANGED btcVars
  BY DEF FactomSyncStep, FactomRecordStep, FactomGrows, vars
<1>4. MainStep \/ Stop \/ Crash \/ Start \/ StartAfterPanic => UNCHANGED btcVars
  BY DEF MainStep, StartLoop, SynchronizedOnce, Stop, Crash, Start, StartAfterPanic,
         BitcoinRelaunch, OtherVars
<1> QED
  BY <1>1, <1>2, <1>3, <1>4 DEF Next

\* No step takes back what Bitcoin holds; a transaction that is new copies another
\* one, or is sent for a block that has none.
LEMMA BitcoinOnlyAdds ==
    ASSUME ProgramInv, [Next]_vars
    PROVE  /\ BlocksKept /\ TxsKept
           /\ \A id \in DOMAIN btcTx' :
                \/ \E o \in DOMAIN btcTx : btcTx'[id] = btcTx[o]
                \/ pc \in {"newest", "older"} /\ NeedsAnchor(btcTx'[id].h)
<1>0. NetworkInv /\ faults \in Nat
  BY BitcoinTypes DEF ProgramInv, BitcoinInv, BitcoinTypeInv
<1>1. CASE UNCHANGED btcVars
  <2>1. UNCHANGED btcTx
    BY <1>1 DEF btcVars
  <2> QED
    BY <1>0, <1>1, <2>1, BitcoinUnmoved
<1>2. CASE BitcoinNetworkStep
  BY <1>0, <1>2, NetworkKeeps DEF NoNewTx
<1>3. CASE \E h \in Height : SendingFor(h) /\ Broadcast(h, faults)
  <2>1. PICK h \in Height : SendingFor(h) /\ Broadcast(h, faults)
    BY <1>3
  <2>2. NextTxId \in Nat
    BY <1>0, NetworkTypes DEF NextTxId
  <2>3. PICK tx \in Tx : /\ btcTx' = Append(btcTx, tx) /\ tx.of = NextTxId /\ tx.h = h
                         /\ mempool' \subseteq mempool \cup {NextTxId}
                         /\ UNCHANGED <<btcBlocks, mainChain>>
    <3>1. [h |-> h, kind |-> "anchor", epoch |-> faults, of |-> NextTxId] \in Tx
      BY <1>0, <2>2 DEF Tx
    <3> QED
      BY <2>1, <3>1 DEF Broadcast
  <2>4. /\ BlocksKept /\ TxsKept
        /\ DOMAIN btcTx' = DOMAIN btcTx \cup {NextTxId} /\ btcTx'[NextTxId] = tx
    BY <1>0, <2>3, AppendTx
  <2>5. pc \in {"newest", "older"} /\ NeedsAnchor(h)
    BY <2>1 DEF SendingFor
  <2>6. \A id \in DOMAIN btcTx : btcTx'[id] = btcTx[id]
    BY <2>4 DEF TxsKept
  <2> QED
    BY <2>3, <2>4, <2>5, <2>6
<1> QED
  BY <1>1, <1>2, <1>3, BitcoinWrites

\* What is sent of its own, and not as a copy, is sent for a block without txid.
LEMMA SendsOnlyNeeded ==
    ASSUME ProgramInv, [Next]_vars, NEW h \in Height, SendsAgain(h)
    PROVE  /\ NeedsAnchor(h)
           /\ \E id \in TxsBetween(0, ForkPoint(lastBitcoin)) : id \in AnchorTxs(h)
<1>0. NetworkInv
  BY DEF ProgramInv, BitcoinInv, BitcoinTypeInv
<1>1. PICK new : /\ new = Len(btcTx') /\ new = Len(btcTx) + 1
                 /\ btcTx'[new].h = h /\ btcTx'[new].of = new
                 /\ new \in DOMAIN btcTx'
  <2>1. NetworkInv'
    BY ProgramNext DEF ProgramInv, BitcoinInv, BitcoinTypeInv
  <2>2. btcTx' \in Seq(Tx)
    BY <2>1 DEF NetworkInv, BitcoinTypeOK
  <2>3. Len(btcTx) \in Nat
    BY <1>0, NetworkTypes
  <2> QED
    BY <2>2, <2>3 DEF SendsAgain
<1>2. ~ \E o \in DOMAIN btcTx : btcTx'[new] = btcTx[o]
  BY <1>0, <1>1, NetworkTypes
<1> QED
  BY <1>1, <1>2, BitcoinOnlyAdds DEF SendsAgain

-----------------------------------------------------------------------------
(* Without a lagging factomd: what was sent for is known again before anything *)
(* is listed or sent, so a Map database settles it all once more.              *)

\* Where the Factom synchronization is complete; where its list is being read.
SyncedPlaces == BitcoinPlaces \cup {"synced"}
ListPlaces == {"entries", "head", "state"}

\* A directory block that a transaction was sent for is closed, then in the list
\* that was fetched, and then known.
SentFor(h) == AnchorTxs(h) # {}
SentAreClosed == \A h \in Height : SentFor(h) => BlockExists(h)
SentAreFetched ==
    pc \in ListPlaces => \A h \in Height : SentFor(h) => h < nextHeight
SentAreKnown ==
    pc \in SyncedPlaces => \A h \in Height : SentFor(h) => Known(h)

\* What was checked is settled, what the next checkpoint covers is so or listed.
CheckedSettled == \A id \in TxsBetween(0, ForkPoint(lastBitcoin)) : Settled(id)
ListedSettled ==
    pc = "tx" =>
        \A id \in TxsBetween(0, ForkPoint(newBlock)) : Settled(id) \/ StillListed(id)

CaughtUpInv ==
    /\ SentAreClosed
    /\ SentAreFetched
    /\ SentAreKnown
    /\ CheckedSettled
    /\ ListedSettled

\* A step that takes nothing back from the database.
KeepsSettled ==
    \A h \in Height : Known(h) =>
        /\ Known(h)'
        /\ BtcAnchor(h).txid # 0 => BtcAnchor(h)'.txid # 0
        /\ BtcAnchor(h).block # 0 => BtcAnchor(h)'.block # 0

LEMMA FillingSettles ==
    OthersFill => KeepsSettled
BY DEF OthersFill, KeepsSettled

LEMMA SameDataSettles ==
    UNCHANGED anchorData => KeepsSettled
BY DEF KeepsSettled, Known, FetchAnchorData, BtcAnchor

\* What a step does to the database: it adds, saves the Bitcoin checkpoint, or
\* loses all.
LEMMA DatabaseSteps ==
    ASSUME ProgramInv, [Next]_vars
    PROVE  \/ KeepsSettled /\ lastBitcoin' = lastBitcoin
           \/ SaveBitcoinState
           \/ lastBitcoin' = 0 /\ pc' \in {"down", "rpcPanic"}
<1>0. BitcoinInv /\ RecordInv /\ EthereumByRecord
  BY DEF ProgramInv
<1>1. CASE FactomSyncStep
  <2>1. KeepsSettled
    BY <1>1, FactomSteppings, SameDataSettles, FillingSettles, FoundFills, LearnedFills
  <2> QED
    BY <1>1, <2>1, FactomSteppings
<1>2. CASE BitcoinAnchorStep
  <2>1. CASE KeepsSettled
    <3>1. SynchronizeBitcoinData => UNCHANGED lastBitcoin \/ SaveBitcoinState
      BY DEF SynchronizeBitcoinData, NothingListed, ListTransactions, ProcessTx, dbVars
    <3>2. AnchorBlocksIntoBitcoin => UNCHANGED lastBitcoin
      BY DEF AnchorBlocksIntoBitcoin, BeginAnchoring, NewestNotSent, SendNewest, SendOlder,
             RecordNewest, SkipOlder, RecordOlder, OlderDone, dbVars
    <3>3. BitcoinAnchorFailures => UNCHANGED lastBitcoin \/ lastBitcoin' = 0
      BY DEF BitcoinAnchorFailures, BitcoinAnchorFails, SendReplyLost, RecordTxidFails,
             RpcErrorPanics, ReopenDatabase, dbVars
    <3>4. RpcErrorPanics => pc' = "rpcPanic"
      BY DEF RpcErrorPanics, Failed, Fault, Goto
    <3>5. BitcoinAnchorFailures => UNCHANGED lastBitcoin \/ RpcErrorPanics
      BY DEF BitcoinAnchorFailures, BitcoinAnchorFails, SendReplyLost, RecordTxidFails,
             dbVars
    <3> QED
      BY <1>2, <2>1, <3>1, <3>2, <3>3, <3>4, <3>5 DEF BitcoinAnchorStep
  <2>2. CASE UNCHANGED anchorData
    BY <2>1, <2>2, SameDataSettles
  <2>3. CASE \E h \in Height, a \in NetAnchor : Filled(h, a)
    <3>1. PICK h \in Height, a \in NetAnchor : Filled(h, a)
      BY <2>3
    <3>2. KeepsSettled
      BY <3>1, FilledData DEF KeepsSettled, BtcAnchor, Networks, Filled
    <3> QED
      BY <2>1, <3>2
  <2>4. CASE Fault("crash", "rpcPanic") /\ ReopenDatabase /\ ~Persistent
    BY <2>4 DEF Fault, Goto, ReopenDatabase
  <2> QED
    BY <1>0, <1>2, <2>2, <2>3, <2>4, BitcoinSteppings DEF BitcoinAnchorStep, dbVars
<1>3. CASE FactomRecordStep
  <2>1. UNCHANGED dbVars \/ /\ UNCHANGED lastBitcoin
                            /\ \/ UNCHANGED anchorData
                               \/ \E h \in Height, a \in NetAnchor : Saved(h, a)
    BY <1>0, <1>3, SavingSteps DEF FactomRecordStep
  <2>2. KeepsSettled
    BY <2>1, SameDataSettles, SavedFills, FillingSettles DEF dbVars
  <2> QED
    BY <2>1, <2>2 DEF dbVars
<1>4. CASE UNCHANGED dbVars
  BY <1>4, SameDataSettles DEF dbVars
<1>5. CASE Stop \/ Crash
  <2>1. ReopenDatabase
    BY <1>5 DEF Stop, Crash
  <2>2. CASE Persistent
    BY <1>4, <2>1, <2>2 DEF ReopenDatabase
  <2>3. CASE ~Persistent
    BY <1>5, <2>1, <2>3 DEF ReopenDatabase, Stop, Crash, Fault, Goto
  <2> QED
    BY <2>2, <2>3
<1>6. MainStep \/ Start \/ StartAfterPanic \/ FactomGrows \/ BitcoinGrows \/ (UNCHANGED vars)
        => UNCHANGED dbVars
  BY DEF MainStep, StartLoop, SynchronizedOnce, Start, StartAfterPanic, BitcoinRelaunch,
         FactomGrows, BitcoinGrows, BitcoinMoves, vars
<1> QED
  BY <1>1, <1>2, <1>3, <1>4, <1>5, <1>6 DEF Next

-----------------------------------------------------------------------------
(* Each part of it stays. *)

LEMMA SentForOnly ==
    ASSUME ProgramInv, [Next]_vars, NEW h \in Height, SentFor(h)'
    PROVE  SentFor(h) \/ (pc \in {"newest", "older"} /\ NeedsAnchor(h))
<1>1. PICK id \in DOMAIN btcTx' : btcTx'[id].kind = "anchor" /\ btcTx'[id].h = h
  BY DEF SentFor, AnchorTxs
<1> QED
  BY <1>1, BitcoinOnlyAdds DEF SentFor, AnchorTxs

LEMMA BlocksStayClosed ==
    ASSUME ProgramInv, [Next]_vars, NEW h \in Height, BlockExists(h)
    PROVE  BlockExists(h)'
<1>1. CASE MineDBlock
  <2>1. dblocks \in Seq(SUBSET DOMAIN entries)
    BY SyncFacts DEF ProgramInv, FactomTypeOK
  <2>2. Len(dblocks') = Len(dblocks) + 1
    BY <1>1, <2>1 DEF MineDBlock
  <2>3. Len(dblocks) \in Nat
    BY <2>1
  <2> QED
    BY <2>2, <2>3 DEF BlockExists, Height
<1>2. CASE UNCHANGED dblocks
  BY <1>2 DEF BlockExists
<1>3. FactomSyncStep \/ BitcoinAnchorStep => UNCHANGED dblocks
  BY FactomSteppings DEF BitcoinAnchorStep, factomVars
<1>4. FactomRecordStep => UNCHANGED dblocks
  BY SavingSteps DEF ProgramInv, FactomRecordStep, Reveal, RevealEntry, factomVars
<1>5. FactomGrows => MineDBlock \/ UNCHANGED dblocks
  BY DEF FactomGrows, SomeoneReveals, RevealEntry
<1>6. MainStep \/ Stop \/ Crash \/ Start \/ StartAfterPanic \/ BitcoinGrows \/ (UNCHANGED vars)
        => UNCHANGED dblocks
  BY DEF MainStep, StartLoop, SynchronizedOnce, Stop, Crash, Start, StartAfterPanic,
         OtherVars, BitcoinGrows, vars, factomVars
<1> QED
  BY <1>1, <1>2, <1>3, <1>4, <1>5, <1>6 DEF Next

LEMMA SentStayClosed ==
    ASSUME ProgramInv, [Next]_vars, SentAreClosed
    PROVE  SentAreClosed'
<1> SUFFICES ASSUME NEW h \in Height, SentFor(h)'
             PROVE  BlockExists(h)'
  BY DEF SentAreClosed
<1>1. BlockExists(h)
  BY SentForOnly DEF SentAreClosed, NeedsAnchor, ProgramInv, KnownAreClosed
<1> QED
  BY <1>1, BlocksStayClosed

\* The steps that lead to the list, and to the places after it.
LEMMA ListArrives ==
    ASSUME ProgramInv, [Next]_vars
    PROVE  /\ pc' \in ListPlaces =>
                /\ UNCHANGED nextHeight
                /\ pc \in ListPlaces \/ FetchDone
           /\ pc' \in SyncedPlaces =>
                \/ pc \in SyncedPlaces
                \/ FetchDone /\ cur = nextHeight /\ UNCHANGED anchorData
                \/ SaveFactomState /\ cur + 1 = nextHeight /\ UNCHANGED anchorData
<1> USE DEF ListPlaces, SyncedPlaces, BitcoinPlaces, BitcoinSteps, AnchorSteps
<1>0. BitcoinInv /\ RecordInv /\ EthereumByRecord
  BY DEF ProgramInv
<1>1. CASE FactomSyncStep
  <2> USE DEF Normally, Goto
  <2>1. CASE SyncFactom
    BY <2>1 DEF SyncFactom
  <2>2. CASE FetchDBlock
    BY <2>2 DEF FetchDBlock, processVars
  <2>3. CASE FetchDone
    BY <2>3 DEF FetchDone, dbVars
  <2>4. CASE ProcessEntry
    BY <2>4 DEF ProcessEntry, SkipEntry, SaveRecord, RecordOfUnknownBlock, processVars
  <2>5. CASE InsertDBlock
    BY <2>5 DEF InsertDBlock
  <2>6. CASE UpdateHead
    BY <2>6 DEF UpdateHead, syncVars
  <2>7. CASE SaveFactomState
    BY <2>7 DEF SaveFactomState
  <2>8. CASE FactomSyncFails
    BY <2>8 DEF FactomSyncFails, FailedCall, Failed
  <2> QED
    BY <1>1, <2>1, <2>2, <2>3, <2>4, <2>5, <2>6, <2>7, <2>8
       DEF FactomSyncStep, SynchronizeFactomData
<1>2. CASE BitcoinAnchorStep
  <2>1. pc \in SyncedPlaces
    BY <1>0, <1>2, BitcoinSteppings DEF BitcoinAnchorStep
  <2>2. pc' \notin ListPlaces
    BY <1>0, <1>2, BitcoinSteppings
       DEF BitcoinAnchorStep, Normally, FailedCall, Failed, Fault, Goto
  <2> QED
    BY <2>1, <2>2
<1>3. CASE FactomRecordStep
  BY <1>0, <1>3, SavingSteps
     DEF FactomRecordStep, SaveSteps, Normally, FailedCall, Failed, Fault, Goto, processVars
<1>4. CASE MainStep \/ Stop \/ Crash \/ Start \/ StartAfterPanic
  BY <1>4 DEF MainStep, StartLoop, SynchronizedOnce, Stop, Crash, Start, StartAfterPanic,
              BitcoinRelaunch, Normally, Fault, Goto
<1>5. CASE FactomGrows \/ BitcoinGrows \/ UNCHANGED vars
  BY <1>5 DEF FactomGrows, BitcoinGrows, BitcoinMoves, vars, processVars, syncVars
<1> QED
  BY <1>1, <1>2, <1>3, <1>4, <1>5 DEF Next

\* What was read before the list ends.
LEMMA ReadSoFar ==
    ASSUME S!IInv
    PROVE  /\ pc \in {"fetch", "state"} => \A k \in 0..(cur - 1) : Known(k)
           /\ pc = "state" => Known(cur)
           /\ nextHeight \in Nat /\ cur \in Nat /\ Len(dblocks) \in Nat
           /\ nextHeight <= Len(dblocks)
<1>1. /\ pc \in {"fetch", "state"} => \A k \in 0..(cur - 1) : Known(k)
      /\ pc = "state" => Known(cur)
  BY SyncPlace, SameDatabase
     DEF S!IInv, S!CoverInv, S!ListCovered, S!Reading, S!InBlock, S!Covered
<1>2. /\ nextHeight \in Nat /\ cur \in Nat /\ Len(dblocks) \in Nat
      /\ nextHeight <= Len(dblocks)
  BY SyncFacts, DatabaseAssumption DEF FactomTypeOK
<1> QED
  BY <1>1, <1>2

\* The fetched list ends where the chain does, if factomd has caught up.
LEMMA ListEndsWithChain ==
    ASSUME ~FactomdLags, FetchDone, S!IInv, NEW h \in Height, BlockExists(h)
    PROVE  h < nextHeight
<1>1. ~(nextHeight < Len(dblocks)) /\ h < Len(dblocks)
  BY DEF FetchDone, BlockNotFound, BlockExists
<1> QED
  BY <1>1, ReadSoFar DEF Height

LEMMA SentStayFetched ==
    ASSUME ~FactomdLags, ProgramInv, [Next]_vars, SentAreClosed, SentAreFetched
    PROVE  SentAreFetched'
<1> SUFFICES ASSUME pc' \in ListPlaces, NEW h \in Height, SentFor(h)'
             PROVE  h < nextHeight'
  BY DEF SentAreFetched
<1>1. UNCHANGED nextHeight /\ (pc \in ListPlaces \/ FetchDone)
  BY ListArrives
<1>2. SentFor(h)
  BY <1>1, SentForOnly DEF ListPlaces, FetchDone
<1>3. CASE pc \in ListPlaces
  BY <1>1, <1>2, <1>3 DEF SentAreFetched
<1>4. CASE FetchDone
  BY <1>1, <1>2, <1>4, ListEndsWithChain DEF SentAreClosed, ProgramInv
<1> QED
  BY <1>1, <1>3, <1>4

LEMMA SentStayKnown ==
    ASSUME ~FactomdLags, ProgramInv, [Next]_vars, SentAreClosed, SentAreFetched,
           SentAreKnown
    PROVE  SentAreKnown'
<1> SUFFICES ASSUME pc' \in SyncedPlaces, NEW h \in Height, SentFor(h)'
             PROVE  Known(h)'
  BY DEF SentAreKnown
<1>0. UNCHANGED anchorData => (Known(h)' <=> Known(h))
  BY DEF Known, FetchAnchorData
<1>1. CASE pc \in SyncedPlaces
  <2>1. Known(h)
    BY <1>1, SentForOnly DEF SentAreKnown, NeedsAnchor
  <2>2. pc' \notin {"down", "rpcPanic"}
    BY DEF SyncedPlaces, BitcoinPlaces, BitcoinSteps, AnchorSteps
  <2>3. SaveBitcoinState => UNCHANGED anchorData
    BY DEF SaveBitcoinState
  <2> QED
    BY <1>0, <2>1, <2>2, <2>3, DatabaseSteps DEF KeepsSettled
<1>2. CASE FetchDone /\ cur = nextHeight /\ UNCHANGED anchorData
  <2>1. pc = "fetch"
    BY <1>2 DEF FetchDone
  <2>2. BlockExists(h)
    BY <2>1, SentForOnly DEF SentAreClosed
  <2>3. h < cur
    BY <1>2, <2>2, ListEndsWithChain DEF ProgramInv
  <2>4. h \in 0..(cur - 1)
    BY <2>3, ReadSoFar DEF Height, ProgramInv
  <2> QED
    BY <1>0, <1>2, <2>1, <2>4, ReadSoFar DEF ProgramInv
<1>3. CASE SaveFactomState /\ cur + 1 = nextHeight /\ UNCHANGED anchorData
  <2>1. pc = "state"
    BY <1>3 DEF SaveFactomState
  <2>2. h < cur + 1
    BY <1>3, <2>1, SentForOnly DEF SentAreFetched, ListPlaces
  <2>3. h \in 0..(cur - 1) \/ h = cur
    BY <2>2, ReadSoFar DEF Height, ProgramInv
  <2> QED
    BY <1>0, <1>3, <2>1, <2>3, ReadSoFar DEF ProgramInv
<1> QED
  BY <1>1, <1>2, <1>3, ListArrives

LEMMA SettledStays ==
    ASSUME ProgramInv, TxsKept, KeepsSettled, NEW id \in DOMAIN btcTx, Settled(id)
    PROVE  Settled(id)'
<1>1. PICK h \in Height : h = btcTx[id].h
  BY NetworkTypes DEF ProgramInv, BitcoinInv, BitcoinTypeInv
<1>2. btcTx'[id] = btcTx[id]
  BY DEF TxsKept
<1>3. IsAnchor(id) => Known(h) /\ BtcAnchor(h).txid # 0 /\ BtcAnchor(h).block # 0
  BY <1>1 DEF Settled
<1>4. IsAnchor(id) => Known(h)' /\ BtcAnchor(h)'.txid # 0 /\ BtcAnchor(h)'.block # 0
  BY <1>3 DEF KeepsSettled
<1> QED
  BY <1>1, <1>2, <1>4 DEF Settled, IsAnchor, Known, FetchAnchorData, BtcAnchor

\* What is below a known block's fork point was there before, and is a transaction.
LEMMA BelowBefore ==
    ASSUME ProgramInv, BlocksKept, NEW b \in 0..Len(btcBlocks),
           NEW id \in TxsBetween(0, ForkPoint(b))'
    PROVE  id \in TxsBetween(0, ForkPoint(b)) /\ id \in DOMAIN btcTx
<1>1. id \in TxsBetween(0, ForkPoint(b))
  BY DEF BlocksKept
<1> QED
  BY <1>1, CheckedTxs DEF ProgramInv, BitcoinInv, BitcoinTypeInv

\* Nothing is below block 0, which there is not.
LEMMA NothingBelow ==
    ASSUME NetworkInv
    PROVE  TxsBetween(0, ForkPoint(0)) = {}
<1>1. \A i \in DOMAIN mainChain : mainChain[i] # 0
  BY NetworkTypes, ElementType
<1>2. ForkPoint(0) = 0
  BY <1>1 DEF ForkPoint, Lineage
<1> QED
  BY <1>2 DEF TxsBetween

LEMMA CheckedStaysSettled ==
    ASSUME ProgramInv, [Next]_vars, CheckedSettled, ListedSettled
    PROVE  CheckedSettled'
<1>0. BlocksKept /\ TxsKept
  BY BitcoinOnlyAdds
<1>1. /\ lastBitcoin \in 0..Len(btcBlocks) /\ newBlock \in 0..Len(btcBlocks)
      /\ 0 \in 0..Len(btcBlocks) /\ NetworkInv
  BY BitcoinTypes, NetworkTypes DEF ProgramInv, BitcoinInv, BitcoinTypeInv
<1> SUFFICES ASSUME NEW id \in TxsBetween(0, ForkPoint(lastBitcoin))'
             PROVE  Settled(id)'
  BY DEF CheckedSettled
<1>2. CASE KeepsSettled /\ lastBitcoin' = lastBitcoin
  <2>1. PICK b : b = lastBitcoin
    OBVIOUS
  <2>2. id \in TxsBetween(0, ForkPoint(b))'
    BY <1>2, <2>1 DEF TxsBetween, ForkPoint, Lineage
  <2>3. id \in TxsBetween(0, ForkPoint(b)) /\ id \in DOMAIN btcTx
    BY <1>0, <1>1, <2>1, <2>2, BelowBefore
  <2>4. Settled(id)
    BY <2>1, <2>3 DEF CheckedSettled
  <2> QED
    BY <1>0, <1>2, <2>3, <2>4, SettledStays
<1>3. CASE SaveBitcoinState
  <2>1. PICK b : b = newBlock
    OBVIOUS
  <2>2. /\ pc = "tx" /\ listed = {} /\ lastBitcoin' = newBlock
        /\ UNCHANGED anchorData
    BY <1>3 DEF SaveBitcoinState
  <2>3. id \in TxsBetween(0, ForkPoint(b))'
    BY <2>1, <2>2 DEF TxsBetween, ForkPoint, Lineage
  <2>4. id \in TxsBetween(0, ForkPoint(b)) /\ id \in DOMAIN btcTx
    BY <1>0, <1>1, <2>1, <2>3, BelowBefore
  <2>5. Settled(id)
    BY <2>1, <2>2, <2>4 DEF ListedSettled, StillListed
  <2> QED
    BY <1>0, <2>2, <2>4, <2>5, SameDataSettles, SettledStays
<1>4. CASE lastBitcoin' = 0
  <2>1. PICK b : b = 0
    OBVIOUS
  <2>2. id \in TxsBetween(0, ForkPoint(b))'
    BY <1>4, <2>1 DEF TxsBetween, ForkPoint, Lineage
  <2>3. id \in TxsBetween(0, ForkPoint(b))
    BY <1>0, <1>1, <2>1, <2>2, BelowBefore
  <2> QED
    BY <1>1, <2>1, <2>3, NothingBelow
<1> QED
  BY <1>2, <1>3, <1>4, DatabaseSteps

\* The steps while transactions are listed.
LEMMA ListingSteps ==
    ASSUME ProgramInv, [Next]_vars, pc' = "tx"
    PROVE  \/ ListTransactions
           \/ ProcessTx
           \/ pc = "tx" /\ UNCHANGED <<anchorData, listed, newBlock>>
<1> USE DEF Normally, Goto, FailedCall, Failed, Fault, processVars, dbVars, anchorVars
<1>0. BitcoinInv /\ RecordInv /\ EthereumByRecord
  BY DEF ProgramInv
<1>1. CASE FactomSyncStep
  BY <1>1, FactomSteppings DEF FactomSteps
<1>2. CASE BitcoinAnchorStep
  <2>1. SynchronizeBitcoinData => ListTransactions \/ ProcessTx
    BY DEF SynchronizeBitcoinData, NothingListed, SaveBitcoinState
  <2>2. ~AnchorBlocksIntoBitcoin
    BY DEF AnchorBlocksIntoBitcoin, BeginAnchoring, NewestNotSent, SendNewest, SendOlder,
           RecordNewest, SkipOlder, RecordOlder, OlderDone
  <2>3. ~BitcoinAnchorFailures
    BY DEF BitcoinAnchorFailures, BitcoinAnchorFails, SendReplyLost, RecordTxidFails,
           RpcErrorPanics
  <2> QED
    BY <1>2, <2>1, <2>2, <2>3 DEF BitcoinAnchorStep
<1>3. CASE FactomRecordStep
  BY <1>0, <1>3, SavingSteps DEF FactomRecordStep, SaveSteps
<1>4. ~(MainStep \/ Stop \/ Crash \/ Start \/ StartAfterPanic)
  BY DEF MainStep, StartLoop, SynchronizedOnce, Stop, Crash, Start, StartAfterPanic,
         BitcoinRelaunch
<1>5. CASE FactomGrows \/ BitcoinGrows \/ UNCHANGED vars
  BY <1>5 DEF FactomGrows, BitcoinGrows, BitcoinMoves, vars
<1> QED
  BY <1>1, <1>2, <1>3, <1>4, <1>5 DEF Next

\* A listed transaction is settled when it is taken off the list.
LEMMA TakenIsSettled ==
    ASSUME ProgramInv, KeepsSettled, SentAreKnown, pc = "tx", UNCHANGED btcTx, TxsKept,
           NEW t \in listed,
           IF IsNewAnchor(t) THEN SaveTx(t) ELSE UNCHANGED anchorData
    PROVE  Settled(t.id)'
<1>0. NetworkInv /\ BitcoinInv /\ t.id \in DOMAIN btcTx
  BY BitcoinTypes DEF ProgramInv, BitcoinInv, BitcoinTypeInv
<1>1. PICK h \in Height : h = btcTx[t.id].h
  BY <1>0, NetworkTypes
<1>2. IsAnchor(t.id) => Known(h)
  BY <1>0, <1>1 DEF SentAreKnown, SentFor, AnchorTxs, IsAnchor, SyncedPlaces, BitcoinPlaces,
                    BitcoinSteps
<1>3. CASE ~IsNewAnchor(t)
  <2>1. Settled(t.id)
    BY <1>0, <1>1, <1>2, <1>3, PassedTxSettled
  <2> QED
    BY <1>0, <2>1, SettledStays
<1>4. CASE IsNewAnchor(t)
  <2>1. Known(h) /\ InsertAnchorData(h, [anchorData[h] EXCEPT
                !["Bitcoin"].txid = t.id, !["Bitcoin"].block = t.block])
    BY <1>1, <1>4 DEF IsNewAnchor, SaveTx
  <2>2. anchorData[h] \in [Networks -> NetAnchor] /\ BtcAnchor(h) \in NetAnchor
    BY <1>0, <2>1, AnchorType, BitcoinTypes, KnownData
       DEF BitcoinInv, BtcAnchor, Networks, AnchorData
  <2>3. /\ anchorData'[h]["Bitcoin"].txid = t.id
        /\ anchorData'[h]["Bitcoin"].block = t.block
    BY <1>0, <2>1, <2>2, BitcoinTypes
       DEF BitcoinInv, InsertAnchorData, BtcAnchor, Networks, NetAnchor
  <2>4. t.id # 0 /\ t.block # 0
    BY <1>0, NetworkTypes, BitcoinTypes DEF BitcoinInv
  <2>5. Known(h)'
    BY <2>1 DEF KeepsSettled
  <2> QED
    BY <1>1, <2>3, <2>4, <2>5 DEF Settled, BtcAnchor, Known, FetchAnchorData
<1> QED
  BY <1>3, <1>4

LEMMA ListedStaysSettled ==
    ASSUME ProgramInv, [Next]_vars, CheckedSettled, ListedSettled, SentAreKnown
    PROVE  ListedSettled'
<1>0. BlocksKept /\ TxsKept
  BY BitcoinOnlyAdds
<1>1. newBlock \in 0..Len(btcBlocks) /\ NetworkInv
  BY BitcoinTypes DEF ProgramInv, BitcoinInv, BitcoinTypeInv
<1> SUFFICES ASSUME pc' = "tx", NEW id \in TxsBetween(0, ForkPoint(newBlock))'
             PROVE  Settled(id)' \/ StillListed(id)'
  BY DEF ListedSettled
<1>2. CASE ListTransactions
  <2>1. PICK b : b = newBlock'
    OBVIOUS
  <2>2. UNCHANGED <<anchorData, btcTx, btcBlocks, mainChain>> /\ listed' = ListSince(lastBitcoin)
    BY <1>2 DEF ListTransactions, dbVars, btcVars
  <2>3. id \in TxsBetween(0, ForkPoint(b))
    BY <2>1, <2>2 DEF TxsBetween, ForkPoint, Lineage
  <2>4. CASE id \in TxsBetween(0, ForkPoint(lastBitcoin))
    <3>1. Settled(id) /\ id \in DOMAIN btcTx
      BY <1>1, <2>4, CheckedTxs DEF CheckedSettled
    <3> QED
      BY <1>0, <2>2, <3>1, SameDataSettles, SettledStays
  <2>5. CASE \E t \in ListSince(lastBitcoin) : t.id = id
    BY <2>2, <2>5 DEF StillListed
  <2> QED
    BY <1>1, <2>3, <2>4, <2>5, ListCovers
<1>3. CASE ProcessTx \/ (pc = "tx" /\ UNCHANGED <<anchorData, listed, newBlock>>)
  <2>1. PICK b : b = newBlock
    OBVIOUS
  <2>2. pc = "tx" /\ UNCHANGED newBlock /\ KeepsSettled
    BY <1>3, DatabaseSteps, SameDataSettles DEF ProcessTx, SaveBitcoinState, Normally, Goto
  <2>3. id \in TxsBetween(0, ForkPoint(b))'
    BY <2>1, <2>2 DEF TxsBetween, ForkPoint, Lineage
  <2>4. id \in TxsBetween(0, ForkPoint(b)) /\ id \in DOMAIN btcTx
    BY <1>0, <1>1, <2>1, <2>3, BelowBefore
  <2>5. CASE Settled(id)
    BY <1>0, <2>2, <2>4, <2>5, SettledStays
  <2>6. CASE StillListed(id) /\ ProcessTx
    <3>1. PICK t \in listed :
            /\ listed' = listed \ {t}
            /\ IF IsNewAnchor(t) THEN SaveTx(t) ELSE UNCHANGED anchorData
      BY <2>6 DEF ProcessTx
    <3>2. UNCHANGED btcTx
      BY <2>6 DEF ProcessTx, btcVars
    <3>3. Settled(t.id)'
      BY <1>0, <2>2, <3>1, <3>2, TakenIsSettled
    <3> QED
      BY <2>6, <3>1, <3>3 DEF StillListed
  <2>7. CASE StillListed(id) /\ UNCHANGED listed
    BY <2>7 DEF StillListed
  <2> QED
    BY <1>3, <2>1, <2>2, <2>4, <2>5, <2>6, <2>7 DEF ListedSettled
<1> QED
  BY <1>2, <1>3, ListingSteps

-----------------------------------------------------------------------------
(* The theorems about it. *)

LEMMA CaughtUpNext ==
    ASSUME ~FactomdLags, ProgramInv, [Next]_vars, CaughtUpInv
    PROVE  CaughtUpInv'
BY SentStayClosed, SentStayFetched, SentStayKnown, CheckedStaysSettled, ListedStaysSettled
DEF CaughtUpInv

LEMMA CaughtUpInit == Init => CaughtUpInv
<1> SUFFICES ASSUME Init PROVE CaughtUpInv
  OBVIOUS
<1>1. pc = "loop" /\ lastBitcoin = 0 /\ BitcoinInit
  BY DEF Init, BitcoinAnchorInit, DatabaseInit
<1>2. \A id \in DOMAIN btcTx : btcTx[id].kind # "anchor"
  BY <1>1 DEF BitcoinInit, UnrelatedTx
<1>3. CheckedSettled
  <2>1. NetworkInv
    BY ProgramInit DEF ProgramInv, BitcoinInv, BitcoinTypeInv
  <2> QED
    BY <1>1, <2>1, NothingBelow DEF CheckedSettled
<1> QED
  BY <1>1, <1>2, <1>3
     DEF CaughtUpInv, SentAreClosed, SentAreFetched, SentAreKnown, ListedSettled, SentFor,
         AnchorTxs, ListPlaces, SyncedPlaces, BitcoinPlaces, BitcoinSteps, AnchorSteps

\* With either kind of database, and a factomd that has caught up: what the Bitcoin
\* checkpoint has passed is known with a txid and a block hash, and everything that
\* was ever sent for is known again before a transaction is listed or sent
\* (newMain.go: both synchronizations come before the anchoring).
THEOREM CaughtUpInvariance ==
    ASSUME ~FactomdLags
    PROVE  Spec => []CaughtUpInv
<1>1. ProgramInv /\ CaughtUpInv /\ [Next]_vars => CaughtUpInv'
  BY CaughtUpNext
<1> QED
  BY <1>1, CaughtUpInit, ProgramInvariance, PTL DEF Spec

\* No directory block is sent again whose anchor is confirmed in the checked part of
\* the chain, when the database is kept on disk or factomd has caught up: "Before any
\* new anchor is allowed to be created, Anchormaker needs to fully synchronize itself".
THEOREM ProgramNeverSendsAgain ==
    ASSUME Persistent \/ ~FactomdLags
    PROVE  Spec => ConfirmedNeverSentAgain
<1>1. ASSUME ProgramInv, [Next]_vars, NEW h \in Height, SendsAgain(h),
             \A id \in TxsBetween(0, ForkPoint(lastBitcoin)) : Settled(id)
      PROVE  FALSE
  <2>1. PICK id \in TxsBetween(0, ForkPoint(lastBitcoin)) : id \in AnchorTxs(h)
    BY <1>1, SendsOnlyNeeded
  <2>2. Known(h) /\ BtcAnchor(h).txid # 0
    BY <1>1, <2>1 DEF Settled, IsAnchor, AnchorTxs
  <2> QED
    BY <1>1, <2>2, SendsOnlyNeeded DEF NeedsAnchor, BtcAnchor
<1>2. CASE Persistent
  <2>1. ProgramInv /\ [Next]_vars => [\A h \in Height : ~SendsAgain(h)]_vars
    BY <1>1, <1>2 DEF ProgramInv, BitcoinInv, CheckedAnchorsAreKnown, Settled, IsAnchor,
                      BtcAnchor
  <2> QED
    BY <2>1, ProgramInvariance, PTL DEF Spec, ConfirmedNeverSentAgain
<1>3. CASE ~FactomdLags
  <2>1. ProgramInv /\ CaughtUpInv /\ [Next]_vars => [\A h \in Height : ~SendsAgain(h)]_vars
    BY <1>1 DEF CaughtUpInv, CheckedSettled
  <2>2. Spec => []CaughtUpInv
    BY <1>3, CaughtUpInvariance
  <2> QED
    BY <2>1, <2>2, ProgramInvariance, PTL DEF Spec, ConfirmedNeverSentAgain
<1> QED
  BY <1>2, <1>3

-----------------------------------------------------------------------------
(* What the database says is so. *)

\* The transaction stored for a block anchors it, and is in the Bitcoin block stored
\* with it.
AnchorIsTrue(h) ==
    /\ BtcAnchor(h).block \in DOMAIN btcBlocks
    /\ BtcAnchor(h).txid \in btcBlocks[BtcAnchor(h).block].txs
    /\ BtcAnchor(h).txid \in AnchorTxs(h)

\* The entry is one that this program revealed.
IsOwn(id) == \E r \in revealed : r.id = id

\* Every block hash in the database is true, whether it was found in Bitcoin or read
\* back from Factom, unless the record that brought it is another signer's.
StoredIsTrue ==
    \A h \in Height :
        /\ Known(h) /\ BtcAnchor(h).block # 0
        /\ BtcAnchor(h).rec = 0 \/ IsOwn(BtcAnchor(h).entry)
        => AnchorIsTrue(h)

\* The evidence that a block is anchored: its record is in a directory block that came
\* RecordDelay blocks later or more, and says of it what is stored.
HasRecord(h) ==
    LET a == BtcAnchor(h) IN
    /\ a.rec \in (h + RecordDelay)..(Len(dblocks) - 1)
    /\ a.entry \in EntriesIn(a.rec)
    /\ entries[a.entry] = [h |-> h, net |-> "Bitcoin", txid |-> a.txid,
                           block |-> a.block, kind |-> "anchor"]

\* Every directory block up to the chain head of the database has that evidence, and
\* where it is this program's own, it is true.
HeadIsRecorded ==
    chainHead # Nil => \A k \in 0..chainHead :
        HasRecord(k) /\ (IsOwn(BtcAnchor(k).entry) => AnchorIsTrue(k))

\* Every directory block up to the chain head of the database is anchored.
HeadIsAnchored == chainHead # Nil => \A k \in 0..chainHead : AnchorIsTrue(k)

\* What the anchoring of a block costs: the transactions sent for it, copies with
\* another txid not counted, and the records revealed of it.
SendsFor(h) == {btcTx[i].of : i \in AnchorTxs(h)}
RevealedFor(h) == {r \in revealed : entries[r.id].h = h}
CostIsBounded ==
    \A h \in Height :
        Cardinality(SendsFor(h)) <= faults + 1 /\ Cardinality(RevealedFor(h)) <= faults + 1

\* What is not recorded by another signer is true.
LEMMA KnownIsTrue == ProgramInv => StoredIsTrue
<1> SUFFICES ASSUME ProgramInv, NEW h \in Height, Known(h), BtcAnchor(h).block # 0,
                    BtcAnchor(h).rec = 0 \/ IsOwn(BtcAnchor(h).entry)
             PROVE  AnchorIsTrue(h)
  BY DEF StoredIsTrue
<1>1. CASE BtcAnchor(h).rec = 0
  <2>1. BtcAnchor(h).block \in 0..Len(btcBlocks) /\ NetworkInv
    BY <1>1 DEF ProgramInv, BitcoinInv, BitcoinTypeInv, StoredBlocksExist
  <2>2. BtcAnchor(h).block \in DOMAIN btcBlocks
    BY <2>1, NetworkTypes
  <2> QED
    BY <1>1, <2>2
       DEF ProgramInv, BitcoinInv, StoredHashHoldsAnchor, BtcAnchor, AnchorIsTrue
<1>2. CASE IsOwn(BtcAnchor(h).entry)
  <2>1. PICK r \in revealed : r.id = BtcAnchor(h).entry
    BY <1>2 DEF IsOwn
  <2>2. BtcAnchor(h).entry # 0
    <3>1. r.id \in DOMAIN entries /\ 0 \notin DOMAIN entries
      BY RecordTypes DEF ProgramInv, RecordInv, RecordTypeInv
    <3> QED
      BY <2>1, <3>1
  <2>3. /\ entries[r.id].h = h
        /\ entries[r.id].txid = BtcAnchor(h).txid /\ entries[r.id].block = BtcAnchor(h).block
    BY <2>1, <2>2 DEF ProgramInv, RecordInv, EntryIsAboutAnchor, BtcAnchor, Networks
  <2> QED
    BY <2>1, <2>3 DEF ProgramInv, OwnRecordsAreTrue, AnchorIsTrue
<1> QED
  BY <1>1, <1>2

\* In the whole program, the stored block hash of an anchor is that of a Bitcoin block
\* with an anchor of this very directory block, before and after its record is read
\* back from Factom; only records of other signers are taken on trust.
THEOREM StoredAlwaysTrue == Spec => []StoredIsTrue
BY KnownIsTrue, ProgramInvariance, PTL

\* A block is finished by a record in a directory block after it, which says what is
\* stored.
LEMMA FinishedHasRecord ==
    ASSUME ProgramInv, NEW h \in Height, Complete(h)
    PROVE  LET a == BtcAnchor(h) IN
           /\ a.rec \in (h + RecordDelay)..(Len(dblocks) - 1)
           /\ a.entry \in EntriesIn(a.rec)
           /\ a.entry \in DOMAIN entries /\ a.entry > 0
           /\ entries[a.entry] = [h |-> h, net |-> "Bitcoin", txid |-> a.txid,
                                  block |-> a.block, kind |-> "anchor"]
<1> DEFINE a == BtcAnchor(h)
<1>1. Known(h) /\ a.rec > 0 /\ a.rec \in Nat
  <2>1. Known(h) /\ a.rec > 0
    BY DEF Complete, IsComplete, FetchAnchorData, BtcAnchor
  <2> QED
    BY <2>1, AnchorType, RecordTypes, DatabaseAssumption
       DEF ProgramInv, RecordInv, BtcAnchor, Networks, Height
<1>2. /\ BlockExists(a.rec) /\ a.entry \in EntriesIn(a.rec)
      /\ entries[a.entry] = [h |-> h, net |-> "Bitcoin", txid |-> a.txid,
                             block |-> a.block, kind |-> "anchor"]
  <2>1. S!RecordPointsIntoChain
    BY DEF ProgramInv, S!IInv
  <2>2. "Bitcoin" \in S!Networks /\ h \in S!Height /\ S!Known(h)
    BY <1>1, SameDatabase DEF Networks
  <2> QED
    BY <1>1, <2>1, <2>2, SameDatabase DEF S!RecordPointsIntoChain, BtcAnchor
<1>3. /\ Len(dblocks) \in Nat /\ dblocks \in Seq(SUBSET DOMAIN entries)
      /\ entries \in Seq(Entry)
  BY RecordTypes DEF ProgramInv, RecordInv, RecordTypeInv, FactomTypeOK
<1>4. a.rec < Len(dblocks) /\ a.rec + 1 \in DOMAIN dblocks
  BY <1>1, <1>2, <1>3 DEF BlockExists
<1>5. a.entry \in dblocks[a.rec + 1] /\ a.entry \in DOMAIN entries
  BY <1>2, <1>3, <1>4 DEF EntriesIn
<1>6. a.entry > 0
  BY <1>3, <1>5
<1>7. h + RecordDelay <= a.rec
  <2>1. entries[a.entry].kind = "anchor" /\ entries[a.entry].h = h
    BY <1>2
  <2>2. h + RecordDelay <= (a.rec + 1) - 1
    BY <1>4, <1>5, <2>1, SyncFacts DEF ProgramInv
  <2> QED
    BY <1>1, <2>2
<1> QED
  BY <1>1, <1>2, <1>3, <1>4, <1>5, <1>6, <1>7, RecordDelayAssumption DEF Height

\* A record of this program about a finished block is true.
LEMMA FinishedIsTrue ==
    ASSUME ProgramInv, NEW h \in Height, Complete(h), IsOwn(BtcAnchor(h).entry)
    PROVE  AnchorIsTrue(h)
<1>1. BtcAnchor(h).block # 0
  <2>1. BtcAnchor(h).entry \in DOMAIN entries /\ BtcAnchor(h).entry > 0
    BY FinishedHasRecord
  <2>2. Known(h) /\ "Bitcoin" \in Networks
    BY DEF Complete, Networks
  <2>3. FilledInOrder(BtcAnchor(h))
    BY <2>2 DEF ProgramInv, RecordInv, AnchorsInOrder, BtcAnchor
  <2>4. BtcAnchor(h).entry # 0
    BY <2>1
  <2> QED
    BY <2>3, <2>4 DEF FilledInOrder
<1> QED
  BY <1>1, KnownIsTrue DEF StoredIsTrue, Complete

\* Up to the chain head all blocks are finished.
LEMMA HeadIsFinished ==
    ASSUME ProgramInv, chainHead # Nil, NEW k \in 0..chainHead
    PROVE  k \in Height /\ Complete(k)
<1>1. Complete(k)
  BY DEF ProgramInv, BitcoinInv, HeadComplete
<1>2. chainHead \in Height
  BY DEF ProgramInv, RecordInv, RecordTypeInv, DatabaseTypeOK
<1> QED
  BY <1>1, <1>2, DatabaseAssumption DEF Height

\* What UpdateAnchorDataHead has passed is recorded: every directory block up to the
\* chain head has a record in a later directory block, which is true if it is one of
\* this program's.
THEOREM HeadAlwaysRecorded == Spec => []HeadIsRecorded
<1>1. ProgramInv => HeadIsRecorded
  <2> SUFFICES ASSUME ProgramInv, chainHead # Nil, NEW k \in 0..chainHead
               PROVE  HasRecord(k) /\ (IsOwn(BtcAnchor(k).entry) => AnchorIsTrue(k))
    BY DEF HeadIsRecorded
  <2>1. k \in Height /\ Complete(k)
    BY HeadIsFinished
  <2>2. HasRecord(k)
    BY <2>1, FinishedHasRecord DEF HasRecord
  <2> QED
    BY <2>1, <2>2, FinishedIsTrue
<1> QED
  BY <1>1, ProgramInvariance, PTL

\* When this program is the only signer, every directory block up to the chain head has
\* a transaction in a Bitcoin block that anchors it.
THEOREM HeadAlwaysAnchored ==
    ASSUME MaxEntries = 0
    PROVE  Spec => []HeadIsAnchored
<1>1. ASSUME MaxEntries = 0
      PROVE  ProgramInv => HeadIsAnchored
  <2> SUFFICES ASSUME ProgramInv, chainHead # Nil, NEW k \in 0..chainHead
               PROVE  AnchorIsTrue(k)
    BY DEF HeadIsAnchored
  <2>1. k \in Height /\ Complete(k)
    BY HeadIsFinished
  <2>2. IsOwn(BtcAnchor(k).entry)
    BY <1>1, <2>1, FinishedHasRecord DEF ProgramInv, OwnEntries, IsOwn
  <2> QED
    BY <2>1, <2>2, FinishedIsTrue
<1> QED
  BY <1>1, ProgramInvariance, PTL

\* What is told apart by its epoch is no more than the epochs there were.
LEMMA EpochsTellApart ==
    ASSUME NEW n \in Nat, NEW T, NEW f \in [T -> 0..n],
           \A x, y \in T : x # y => f[x] # f[y]
    PROVE  Cardinality(T) <= n + 1
<1>1. IsFiniteSet(0..n) /\ Cardinality(0..n) = n + 1
  BY FS_Interval
<1>2. f \in Injection(T, 0..n)
  BY DEF Injection, IsInjective
<1> QED
  BY <1>1, <1>2, FS_Injection

\* Each directory block costs one transaction and one record, and at most one more of
\* each for every failure that lost track of one: neither restarts, replays, malleated
\* transactions nor reorganizations make the program pay again.
THEOREM CostAlwaysBounded == Spec => []CostIsBounded
<1>1. ASSUME ProgramInv, NEW h \in Height
      PROVE  Cardinality(SendsFor(h)) <= faults + 1
  <2> DEFINE one(o) == CHOOSE i \in AnchorTxs(h) : btcTx[i].of = o
             f == [o \in SendsFor(h) |-> btcTx[one(o)].epoch]
  <2>1. \A o \in SendsFor(h) : one(o) \in AnchorTxs(h) /\ btcTx[one(o)].of = o
    BY DEF SendsFor
  <2> HIDE DEF one
  <2>2. faults \in Nat
    BY <1>1, RecordTypes DEF ProgramInv, RecordInv
  <2>3. \A i \in AnchorTxs(h) : btcTx[i].epoch \in 0..faults
    <3>1. \A i \in DOMAIN btcTx : btcTx[i].epoch \in Nat
      BY <1>1, NetworkTypes DEF ProgramInv, BitcoinInv, BitcoinTypeInv
    <3>2. \A i \in AnchorTxs(h) : i \in DOMAIN btcTx /\ btcTx[i].epoch <= faults
      BY <1>1 DEF ProgramInv, BitcoinInv, TxEpochs, AnchorTxs, IsAnchor
    <3> QED
      BY <2>2, <3>1, <3>2
  <2>4. f \in [SendsFor(h) -> 0..faults]
    BY <2>1, <2>3
  <2>5. \A x, y \in SendsFor(h) : x # y => f[x] # f[y]
    BY <1>1, <2>1 DEF ProgramInv, BitcoinInv, AnchoredOncePerFault
  <2> HIDE DEF f
  <2> QED
    BY <2>2, <2>4, <2>5, EpochsTellApart
<1>2. ASSUME ProgramInv, NEW h \in Height
      PROVE  Cardinality(RevealedFor(h)) <= faults + 1
  <2> DEFINE f == [r \in RevealedFor(h) |-> r.epoch]
  <2>1. faults \in Nat
    BY <1>2, RecordTypes DEF ProgramInv, RecordInv
  <2>2. \A r \in RevealedFor(h) :
            /\ r \in [id: DOMAIN entries, epoch: 0..MaxFaults] /\ r.epoch <= faults
            /\ entries[r.id].h = h /\ entries[r.id].net = "Bitcoin"
    BY <1>2
       DEF ProgramInv, RecordInv, RecordTypeInv, RevealedInv, OwnRecordsAreTrue,
           RevealedFor
  <2>3. f \in [RevealedFor(h) -> 0..faults]
    BY <2>1, <2>2, FaultAssumption
  <2>4. \A x, y \in RevealedFor(h) : x # y => f[x] # f[y]
    <3> SUFFICES ASSUME NEW x \in RevealedFor(h), NEW y \in RevealedFor(h),
                        x.epoch = y.epoch
                 PROVE  x = y
      OBVIOUS
    <3>1. x.id = y.id
      BY <1>2, <2>2
         DEF ProgramInv, RecordInv, RevealedOncePerFault, SameAnchor, RevealedFor
    <3> QED
      BY <2>2, <3>1
  <2> HIDE DEF f
  <2> QED
    BY <2>1, <2>3, <2>4, EpochsTellApart
<1>3. ProgramInv => CostIsBounded
  BY <1>1, <1>2 DEF CostIsBounded
<1> QED
  BY <1>3, ProgramInvariance, PTL

-----------------------------------------------------------------------------
(* What the components promise holds in the program as well. *)

\* In the whole program the Factom checkpoint and the chain head have missed nothing,
\* and a record that is stored is in the directory block it is stored with.
THEOREM ProgramMissesNoRecord ==
    Spec => [](S!HeadIsCompletePrefix /\ S!CheckpointCoversRecords /\ S!RecordPointsIntoChain)
<1>1. ProgramInv => S!HeadIsCompletePrefix /\ S!CheckpointCoversRecords
                        /\ S!RecordPointsIntoChain
  BY SameDatabase
     DEF ProgramInv, S!IInv, S!CoverInv, S!CheckpointCovered, S!CheckpointCoversRecords,
         S!Covered, S!Recorded
<1> QED
  BY <1>1, ProgramInvariance, PTL

\* In the whole program the Factom synchronization panics in two ways only: block 0 is
\* replayed after its record was taken from block 1, or a record names a block that was
\* never read.
THEOREM ProgramPanicsAreKnown == Spec => []S!OnlyKnownPanics
<1>1. ProgramInv => S!OnlyKnownPanics
  BY DEF ProgramInv, S!IInv
<1> QED
  BY <1>1, ProgramInvariance, PTL

\* In the whole program a saved entry hash is that of an entry about its anchor, and a
\* record is revealed at most once between two failures that lose track of one.
THEOREM ProgramRecordsOnce == Spec => [](EntryIsAboutAnchor /\ RevealedOncePerFault)
<1>1. ProgramInv => EntryIsAboutAnchor /\ RevealedOncePerFault
  BY DEF ProgramInv, RecordInv
<1> QED
  BY <1>1, ProgramInvariance, PTL

\* In the whole program, with a stored database, no failure, restart or replay takes
\* back what is known of an anchor, the chain head or the Factom checkpoint.
THEOREM ProgramKeepsProgress == Spec => S!StoredProgressKept
<1>1. ASSUME ProgramInv, [Next]_vars, Persistent
      PROVE  S!ProgressKept
  <2>1. S!IInv /\ [S!FactomSyncNext]_(S!factomSyncVars)
    BY <1>1, SyncNext DEF ProgramInv
  <2> QED
    BY <1>1, <2>1, S!NextProgressKept, FaultAssumption, DatabaseAssumption,
       NilAssumption, RecordDelayAssumption, SyncAssumptions, SameDatabase
<1>2. ProgramInv /\ [Next]_vars => [Persistent => S!ProgressKept]_(S!factomSyncVars)
  BY <1>1
<1> QED
  BY <1>2, ProgramInvariance, PTL DEF Spec, S!StoredProgressKept

\* In the whole program the older-blocks loop ends early only when no known block is
\* left to anchor.
THEOREM ProgramPassesNoBlock == Spec => NoBlockPassedOver
<1>1. ASSUME ProgramInv, [Next]_vars,
             pc = "older" /\ pc' = "save" /\ count < AnchorBatch /\ ~OutOfFunds(height)
      PROVE  \A h \in Height : ~NeedsAnchor(h)
  <2>1. Next
    BY <1>1 DEF vars, processVars
  <2>2. ~(FactomSyncStep \/ FactomRecordStep)
    <3>1. pc \notin FactomSteps /\ pc \notin {"save", "saving"}
      BY <1>1 DEF FactomSteps
    <3> QED
      BY <3>1
         DEF FactomSyncStep, SynchronizeFactomData, SyncFactom, FetchDBlock, FetchDone,
             ProcessEntry, InsertDBlock, UpdateHead, SaveFactomState, FactomSyncFails,
             FactomSteps, FactomRecordStep, SaveAnchorsIntoFactom, BeginSaving, SendRecord,
             SaveHashes, PassOver, BatchFull, FactomRecordFailures, SavingFails,
             RevealReplyLost, HashesLost
  <2>3. ~(MainStep \/ Stop \/ Crash \/ Start \/ StartAfterPanic \/ FactomGrows \/ BitcoinGrows)
    BY <1>1
       DEF MainStep, StartLoop, SynchronizedOnce, Stop, Crash, Start, StartAfterPanic,
           BitcoinRelaunch, FactomGrows, BitcoinGrows, BitcoinMoves, Fault, Goto, processVars
  <2>4. ~(SynchronizeBitcoinData \/ BitcoinAnchorFailures)
    BY <1>1
       DEF SynchronizeBitcoinData, NothingListed, ListTransactions, ProcessTx,
           SaveBitcoinState, BitcoinAnchorFailures, BitcoinAnchorFails, RpcErrorPanics,
           SendReplyLost, RecordTxidFails, FailedCall, Failed, Fault, Goto
  <2>5. OlderDone
    <3>1. AnchorBlocksIntoBitcoin
      BY <2>1, <2>2, <2>3, <2>4 DEF Next, BitcoinAnchorStep
    <3> QED
      BY <1>1, <3>1
         DEF AnchorBlocksIntoBitcoin, BeginAnchoring, NewestNotSent, SendNewest,
             RecordNewest, SkipOlder, SendOlder, RecordOlder, Normally, Goto, processVars
  <2> QED
    BY <1>1, <2>5, OlderDonePasses DEF ProgramInv
<1>2. ProgramInv /\ [Next]_vars =>
        [pc = "older" /\ pc' = "save" /\ count < AnchorBatch /\ ~OutOfFunds(height) =>
            \A h \in Height : ~NeedsAnchor(h)]_bitcoinAnchorVars
  BY <1>1
<1> QED
  BY <1>2, ProgramInvariance, PTL DEF Spec, NoBlockPassedOver
-----------------------------------------------------------------------------
(* A round of the main loop ends, unless SynchronizeBitcoinData lists for ever. *)

\* A round is one pass of SynchronizationLoop and, if that found nothing, AnchorLoop
\* with SaveAnchorsIntoFactom.  How far it is from its end: the calls that are still
\* to come, listsinceblock counted among them, the turns left in the loop that is
\* running, and the steps left in its turn.
CallsLeft ==
    IF pc = "syncFactom" THEN 12 ELSE IF pc = "fetch" THEN 11
    ELSE IF pc \in {"entries", "head", "state"} THEN 10
    ELSE IF pc = "tx" THEN IF ListSince(newBlock) = {} THEN 7 ELSE 9
    ELSE IF pc = "syncBitcoin" THEN IF ListSince(lastBitcoin) = {} THEN 6 ELSE 8
    ELSE IF pc = "synced" THEN 5 ELSE IF pc = "anchor" THEN 4
    ELSE IF pc \in {"newest", "recordNewest"} THEN 3
    ELSE IF pc \in {"older", "recordOlder"} THEN 2
    ELSE IF pc = "save" THEN 1 ELSE 0

TurnsLeft ==
    IF pc = "fetch" THEN Len(dblocks) - nextHeight
    ELSE IF pc \in {"entries", "head", "state"} THEN nextHeight - cur
    ELSE IF pc = "tx" THEN Cardinality(listed)
    ELSE IF pc \in {"older", "recordOlder"} THEN MaxHeight + 1 - height
    ELSE IF pc = "saving" THEN MaxHeight - at
    ELSE 0

NotHeld == {n \in Networks : held[n] = 0}
StepsLeft ==
    IF pc = "entries" THEN Cardinality(todo) + 2
    ELSE IF pc \in {"head", "newest", "older"} THEN 1
    ELSE IF pc = "saving" THEN Cardinality(NotHeld)
    ELSE 0

\* Compared in this order; no sequence of them goes down for ever.
RoundLeft == <<CallsLeft, TurnsLeft, StepsLeft>>
Shorter == LexProductOrdering(OpToRel(<, Nat), Nat, 3)

\* The round is over: it returns, fails or panics, or its synchronizations found
\* something and are made once more.
RoundOver ==
    \/ pc' \in {"loop", "down", "panic", "rpcPanic"}
    \/ SynchronizedOnce /\ progress

\* The loop of SynchronizeBitcoinData (bitcoin.go:25-101) gets a list that it will get
\* again: blocks with fewer than MinConfirmations confirmations are listed each time.
ListsAgain ==
    /\ MinConfirmations > 1
    /\ ListTransactions
    /\ ListSince(LastBlock) # {}

ProcessStep ==
    FactomSyncStep \/ BitcoinAnchorStep \/ FactomRecordStep \/ SynchronizedOnce

\* Every step of the process gets its round nearer to its end, but for a list that
\* will be listed again.  Nobody else puts a round back, but for factomd, which may
\* close one more block to fetch, and Bitcoin, which may mine one more to list.
RoundEnds ==
    [][/\ ProcessStep => <<RoundLeft', RoundLeft>> \in Shorter \/ RoundOver \/ ListsAgain
       /\ FactomGrows /\ pc # "fetch" => UNCHANGED RoundLeft
       /\ BitcoinGrows /\ pc \notin {"syncBitcoin", "tx"} => UNCHANGED RoundLeft]_vars

\* Triples of natural numbers, compared like this, go down only finitely often.
LEMMA ShorterEnds == IsWellFoundedOn(Shorter, [1..3 -> Nat])
<1> DEFINE R == OpToRel(<, Nat)
<1>1. IsWellFoundedOn(R, Nat)
  BY NatLessThanWellFounded
<1>2. Shorter = LexProductOrdering(R, Nat, 3)
  BY DEF Shorter
<1> HIDE DEF R
<1> QED
  BY <1>1, <1>2, WFLexProductOrdering

LEMMA ShorterTriples ==
    ASSUME NEW a \in Nat, NEW b \in Nat, NEW c \in Nat,
           NEW x \in Nat, NEW y \in Nat, NEW z \in Nat,
           x < a \/ (x = a /\ y < b) \/ (x = a /\ y = b /\ z < c)
    PROVE  <<<<x, y, z>>, <<a, b, c>>>> \in Shorter
<1> DEFINE R == {p \in Nat \X Nat : p[1] < p[2]}
           new == <<x, y, z>>
           old == <<a, b, c>>
<1>1. R = OpToRel(<, Nat)
  BY DEF OpToRel
<1>2. Shorter = LexProductOrdering(R, Nat, 3)
  BY <1>1 DEF Shorter
<1>3. \A m, n \in Nat : <<m, n>> \in R <=> m < n
  OBVIOUS
<1> HIDE DEF R
<1>4. new \in [1..3 -> Nat] /\ old \in [1..3 -> Nat]
  OBVIOUS
<1>5. /\ new[1] = x /\ new[2] = y /\ new[3] = z
      /\ old[1] = a /\ old[2] = b /\ old[3] = c
  OBVIOUS
<1> HIDE DEF new, old
<1>6. \E j \in 1..3 :
        (\A i \in 1..(j - 1) : new[i] = old[i]) /\ <<new[j], old[j]>> \in R
  <2>1. CASE x < a
    <3>1. <<new[1], old[1]>> \in R /\ \A i \in 1..(1 - 1) : new[i] = old[i]
      BY <1>3, <1>5, <2>1
    <3> QED
      BY <3>1
  <2>2. CASE x = a /\ y < b
    <3>1. <<new[2], old[2]>> \in R /\ \A i \in 1..(2 - 1) : new[i] = old[i]
      BY <1>3, <1>5, <2>2
    <3> QED
      BY <3>1
  <2>3. CASE x = a /\ y = b /\ z < c
    <3>1. <<new[3], old[3]>> \in R /\ \A i \in 1..(3 - 1) : new[i] = old[i]
      <4>1. \A i \in 1..(3 - 1) : i = 1 \/ i = 2
        OBVIOUS
      <4> QED
        BY <1>3, <1>5, <2>3, <4>1
    <3> QED
      BY <3>1
  <2> QED
    BY <2>1, <2>2, <2>3
<1>7. <<new, old>> \in [1..3 -> Nat] \X [1..3 -> Nat]
  BY <1>4
<1>8. <<new, old>> \in LexProductOrdering(R, Nat, 3)
  BY <1>6, <1>7 DEF LexProductOrdering
<1> QED
  BY <1>2, <1>8 DEF new, old

\* The sets that the loops work off are finite.
LEMMA WorkIsFinite ==
    ASSUME ProgramInv
    PROVE  IsFiniteSet(todo) /\ IsFiniteSet(listed) /\ IsFiniteSet(NotHeld)
<1>1. IsFiniteSet(todo)
  <2>1. DOMAIN entries = 1..Len(entries) /\ Len(entries) \in Nat
    BY RecordTypes DEF ProgramInv, RecordInv
  <2>2. todo \subseteq DOMAIN entries
    BY SyncFacts DEF ProgramInv
  <2>3. IsFiniteSet(1..Len(entries))
    BY <2>1, FS_Interval
  <2> QED
    BY <2>1, <2>2, <2>3, FS_Subset
<1>2. IsFiniteSet(listed)
  <2> DEFINE A == DOMAIN btcTx
             B == DOMAIN btcBlocks
             f == [t \in listed |-> <<t.id, t.block>>]
  <2>1. IsFiniteSet(A) /\ IsFiniteSet(B)
    <3>1. /\ A = 1..Len(btcTx) /\ Len(btcTx) \in Nat
          /\ B = 1..Len(btcBlocks) /\ Len(btcBlocks) \in Nat
      BY NetworkTypes DEF ProgramInv, BitcoinInv, BitcoinTypeInv
    <3> QED
      BY <3>1, FS_Interval
  <2>2. listed \subseteq [id: A, block: B]
    BY DEF ProgramInv, BitcoinInv, BitcoinTypeInv
  <2> HIDE DEF A, B
  <2>3. IsFiniteSet(A \X B)
    BY <2>1, FS_Product
  <2>4. f \in Injection(listed, A \X B)
    BY <2>2 DEF Injection, IsInjective
  <2> QED
    BY <2>3, <2>4, FS_Injection
<1>3. IsFiniteSet(NotHeld)
  <2>1. IsFiniteSet({}) /\ IsFiniteSet({"Bitcoin"}) /\ IsFiniteSet({"Bitcoin", "Ethereum"})
    <3>1. IsFiniteSet({}) /\ IsFiniteSet({} \cup {"Bitcoin"})
      BY FS_EmptySet, FS_AddElement
    <3>2. IsFiniteSet({"Bitcoin"}) /\ {"Bitcoin"} \cup {"Ethereum"} = {"Bitcoin", "Ethereum"}
      BY <3>1
    <3> QED
      BY <3>1, <3>2, FS_AddElement
  <2> QED
    BY <2>1, FS_Subset DEF NotHeld, Networks
<1> QED
  BY <1>1, <1>2, <1>3

LeftIsNat == CallsLeft \in Nat /\ TurnsLeft \in Nat /\ StepsLeft \in Nat

LEMMA LeftTypes == ProgramInv => LeftIsNat
<1> SUFFICES ASSUME ProgramInv PROVE LeftIsNat
  OBVIOUS
<1>1. CallsLeft \in Nat
  BY DEF CallsLeft
<1>2. /\ Cardinality(todo) \in Nat /\ Cardinality(listed) \in Nat
      /\ Cardinality(NotHeld) \in Nat
  BY WorkIsFinite, FS_CardinalityType
<1>3. TurnsLeft \in Nat
  <2>1. /\ nextHeight <= Len(dblocks) /\ Len(dblocks) \in Nat
        /\ nextHeight \in 0..(MaxHeight + 1) /\ cur \in 0..(MaxHeight + 1)
        /\ pc \in {"entries", "head", "state"} => cur < nextHeight
    BY SyncFacts DEF ProgramInv, FactomTypeOK
  <2>2. height \in 0..(MaxHeight + 1) /\ at \in 0..MaxHeight /\ MaxHeight \in Nat
    BY RecordTypes, DatabaseAssumption
       DEF ProgramInv, RecordInv, BitcoinInv, BitcoinTypeInv, Height
  <2> QED
    BY <1>2, <2>1, <2>2 DEF TurnsLeft
<1>4. StepsLeft \in Nat
  BY <1>2 DEF StepsLeft
<1> QED
  BY <1>1, <1>3, <1>4 DEF LeftIsNat

\* What a step of the process that is not the last of its round does to what is left.
Nearer ==
    \/ CallsLeft' < CallsLeft
    \/ CallsLeft' = CallsLeft /\ TurnsLeft' < TurnsLeft
    \/ CallsLeft' = CallsLeft /\ TurnsLeft' = TurnsLeft /\ StepsLeft' < StepsLeft

\* SynchronizeFactomData: a block fetched, an entry processed, a block done.
LEMMA FactomSyncNearer ==
    ASSUME ProgramInv, FactomSyncStep
    PROVE  Nearer \/ RoundOver
<1> USE DEF Normally, Goto
<1>0. /\ nextHeight <= Len(dblocks) /\ Len(dblocks) \in Nat
      /\ nextHeight \in 0..(MaxHeight + 1) /\ cur \in 0..(MaxHeight + 1)
      /\ pc \in {"entries", "head", "state"} => cur < nextHeight
      /\ MaxHeight \in Nat
  BY SyncFacts, DatabaseAssumption DEF ProgramInv, FactomTypeOK
<1>1. CASE SyncFactom
  BY <1>1 DEF SyncFactom, Nearer, CallsLeft
<1>2. CASE FetchDBlock
  <2>1. /\ pc = "fetch" /\ pc' = "fetch" /\ nextHeight' = nextHeight + 1
        /\ Len(dblocks)' = Len(dblocks)
    BY <1>2 DEF FetchDBlock, processVars, factomVars
  <2>2. CallsLeft' = CallsLeft
    BY <2>1 DEF CallsLeft
  <2>3. TurnsLeft = Len(dblocks) - nextHeight /\ TurnsLeft' = Len(dblocks) - (nextHeight + 1)
    BY <2>1 DEF TurnsLeft
  <2> QED
    BY <1>0, <2>2, <2>3 DEF Nearer
<1>3. CASE FetchDone
  BY <1>3 DEF FetchDone, Nearer, CallsLeft
<1>4. CASE ProcessEntry
  <2>1. PICK id \in todo :
            /\ SkipEntry(id) \/ SaveRecord(id) \/ RecordOfUnknownBlock(id)
            /\ todo' = todo \ {id}
    BY <1>4 DEF ProcessEntry
  <2>2. pc = "entries" /\ UNCHANGED <<nextHeight, cur>>
    BY <1>4 DEF ProcessEntry
  <2>3. pc' = "entries" \/ pc' = "panic"
    BY <2>1, <2>2 DEF SkipEntry, SaveRecord, RecordOfUnknownBlock, processVars
  <2>4. CASE pc' = "entries"
    <3>1. CallsLeft' = CallsLeft /\ TurnsLeft' = TurnsLeft
      BY <2>2, <2>4 DEF CallsLeft, TurnsLeft
    <3>2. Cardinality(todo \ {id}) = Cardinality(todo) - 1 /\ Cardinality(todo) \in Nat
      BY <2>1, WorkIsFinite, FS_RemoveElement, FS_CardinalityType
    <3>3. StepsLeft = Cardinality(todo) + 2 /\ StepsLeft' = Cardinality(todo \ {id}) + 2
      BY <2>1, <2>2, <2>4 DEF StepsLeft
    <3> QED
      BY <3>1, <3>2, <3>3 DEF Nearer
  <2> QED
    BY <2>3, <2>4 DEF RoundOver
<1>5. CASE InsertDBlock
  <2>1. pc = "entries" /\ pc' = "head" /\ UNCHANGED <<nextHeight, cur>>
    BY <1>5 DEF InsertDBlock
  <2>2. CallsLeft' = CallsLeft /\ TurnsLeft' = TurnsLeft
    BY <2>1 DEF CallsLeft, TurnsLeft
  <2>3. StepsLeft = Cardinality(todo) + 2 /\ StepsLeft' = 1 /\ Cardinality(todo) \in Nat
    BY <2>1, WorkIsFinite, FS_CardinalityType DEF StepsLeft
  <2> QED
    BY <2>2, <2>3 DEF Nearer
<1>6. CASE UpdateHead
  <2>1. /\ pc = "head" /\ (pc' = "state" \/ pc' = "panic")
        /\ UNCHANGED <<nextHeight, cur>>
    BY <1>6 DEF UpdateHead, syncVars
  <2> QED
    BY <2>1 DEF CallsLeft, TurnsLeft, StepsLeft, Nearer, RoundOver
<1>7. CASE SaveFactomState
  <2>1. /\ pc = "state" /\ (pc' = "entries" \/ pc' = "syncBitcoin")
        /\ nextHeight' = nextHeight /\ cur' = cur + 1
    BY <1>7 DEF SaveFactomState
  <2> QED
    BY <1>0, <2>1 DEF CallsLeft, TurnsLeft, Nearer
<1>8. CASE FactomSyncFails
  BY <1>8 DEF FactomSyncFails, FailedCall, Failed, RoundOver
<1> QED
  BY <1>1, <1>2, <1>3, <1>4, <1>5, <1>6, <1>7, <1>8
     DEF FactomSyncStep, SynchronizeFactomData

\* With MinConfirmations 1 nothing follows the block of a list before one is mined.
LEMMA ListedOnce ==
    ASSUME NetworkInv, MinConfirmations = 1
    PROVE  ListSince(LastBlock) = {}
<1>1. mainChain \in Seq(DOMAIN btcBlocks) /\ Len(mainChain) \in Nat
  BY NetworkTypes DEF NetworkInv, BitcoinTypeOK
<1> DEFINE n == Len(mainChain)
<1>2. PICK b : b = LastBlock
  OBVIOUS
<1>3. ForkPoint(b) = n
  <2>1. CASE n = 0
    <3>1. {i \in DOMAIN mainChain : mainChain[i] \in Lineage(b)} = {}
      BY <1>1, <2>1
    <3> QED
      BY <2>1, <3>1 DEF ForkPoint
  <2>2. CASE n > 0
    <3> DEFINE on == {i \in DOMAIN mainChain : mainChain[i] \in Lineage(b)}
    <3>1. b = mainChain[n]
      BY <1>1, <1>2, <2>2 DEF LastBlock
    <3>2. b \in Lineage(b)
      BY DEF Lineage
    <3>3. n \in on /\ on \subseteq 1..n
      BY <1>1, <2>2, <3>1, <3>2
    <3>4. ForkPoint(b) = Max(on)
      BY <3>3 DEF ForkPoint
    <3> HIDE DEF on
    <3>5. PICK m : m = Max(on)
      OBVIOUS
    <3>6. m \in on /\ \A i \in on : i <= m
      BY <1>1, <3>3, <3>5, MaxOfPositions
    <3>7. m \in 1..n /\ n <= m
      BY <3>3, <3>6
    <3> QED
      BY <1>1, <3>4, <3>5, <3>7
  <2> QED
    BY <1>1, <2>1, <2>2
<1>4. (n + 1)..n = {}
  BY <1>1
<1> QED
  BY <1>2, <1>3, <1>4 DEF ListSince

\* SynchronizeBitcoinData and AnchorBlocksIntoBitcoin: a transaction processed, a block
\* passed or sent.
LEMMA BitcoinNearer ==
    ASSUME ProgramInv, BitcoinAnchorStep
    PROVE  Nearer \/ RoundOver \/ ListsAgain
<1> USE DEF Normally, Goto
<1>0. height \in 0..(MaxHeight + 1) /\ MaxHeight \in Nat
  BY DatabaseAssumption DEF ProgramInv, BitcoinInv, BitcoinTypeInv
<1>1. CASE NothingListed
  BY <1>1 DEF NothingListed, Nearer, CallsLeft
<1>8. CASE ListTransactions
  <2>1. pc = "syncBitcoin" /\ ListSince(lastBitcoin) # {}
    BY <1>8 DEF ListTransactions
  <2>2. PICK b : b = LastBlock
    OBVIOUS
  <2>3. pc' = "tx" /\ newBlock' = b /\ UNCHANGED btcVars
    BY <1>8, <2>2 DEF ListTransactions
  <2>4. ListSince(newBlock)' = ListSince(b)
    BY <2>3 DEF btcVars, ListSince, ForkPoint, Lineage
  <2>5. CASE ListSince(b) = {}
    BY <2>1, <2>3, <2>4, <2>5 DEF Nearer, CallsLeft
  <2>6. CASE ListSince(b) # {}
    <3>1. MinConfirmations # 1 /\ MinConfirmations \in Nat \ {0}
      BY <2>2, <2>6, ListedOnce, BitcoinAssumption
         DEF ProgramInv, BitcoinInv, BitcoinTypeInv
    <3> QED
      BY <1>8, <2>2, <2>6, <3>1 DEF ListsAgain
  <2> QED
    BY <2>5, <2>6
<1>2. CASE ProcessTx
  <2>1. PICK t \in listed : listed' = listed \ {t}
    BY <1>2 DEF ProcessTx
  <2>2. pc = "tx" /\ pc' = "tx" /\ UNCHANGED <<newBlock, btcVars>>
    BY <1>2 DEF ProcessTx, processVars
  <2>5. ListSince(newBlock)' = ListSince(newBlock)
    BY <2>2 DEF btcVars, ListSince, ForkPoint, Lineage
  <2>3. Cardinality(listed \ {t}) = Cardinality(listed) - 1 /\ Cardinality(listed) \in Nat
    BY <2>1, WorkIsFinite, FS_RemoveElement, FS_CardinalityType
  <2>4. /\ CallsLeft' = CallsLeft
        /\ TurnsLeft = Cardinality(listed) /\ TurnsLeft' = Cardinality(listed \ {t})
    BY <2>1, <2>2, <2>5 DEF CallsLeft, TurnsLeft
  <2> QED
    BY <2>3, <2>4 DEF Nearer
<1>3. CASE BeginAnchoring \/ NewestNotSent \/ RecordNewest \/ OlderDone
  BY <1>3 DEF BeginAnchoring, NewestNotSent, RecordNewest, OlderDone, Nearer, CallsLeft
<1>4. CASE SendNewest
  BY <1>4 DEF SendNewest, Nearer, CallsLeft, TurnsLeft, StepsLeft
<1>5. CASE SendOlder
  <2>1. pc = "older" /\ pc' = "recordOlder" /\ height' = height
    BY <1>5 DEF SendOlder
  <2> QED
    BY <2>1 DEF Nearer, CallsLeft, TurnsLeft, StepsLeft
<1>6. CASE SkipOlder \/ RecordOlder
  <2>1. height' = height + 1 /\ pc \in {"older", "recordOlder"} /\ pc' = "older"
    BY <1>6 DEF SkipOlder, RecordOlder, processVars
  <2>2. Known(height)
    BY <1>6
       DEF SkipOlder, RecordOlder, ProgramInv, BitcoinInv, SendingInv, Recording, Target,
           NeedsAnchor
  <2>3. height <= MaxHeight
    BY <1>0, <2>2 DEF Known, FetchAnchorData, Height
  <2>4. CallsLeft' = CallsLeft
    BY <2>1 DEF CallsLeft
  <2>5. TurnsLeft = MaxHeight + 1 - height /\ TurnsLeft' = MaxHeight + 1 - (height + 1)
    BY <2>1 DEF TurnsLeft
  <2> QED
    BY <1>0, <2>3, <2>4, <2>5 DEF Nearer
<1>9. CASE SaveBitcoinState
  <2>1. PICK b : b = newBlock
    OBVIOUS
  <2>2. pc = "tx" /\ pc' = "syncBitcoin" /\ lastBitcoin' = b /\ UNCHANGED btcVars
    BY <1>9, <2>1 DEF SaveBitcoinState
  <2>3. ListSince(lastBitcoin)' = ListSince(b)
    BY <2>2 DEF btcVars, ListSince, ForkPoint, Lineage
  <2> QED
    BY <2>1, <2>2, <2>3 DEF Nearer, CallsLeft
<1>7. CASE BitcoinAnchorFailures
  BY <1>7
     DEF RoundOver, BitcoinAnchorFailures, BitcoinAnchorFails, RpcErrorPanics,
         SendReplyLost, RecordTxidFails, FailedCall, Failed, Fault
<1> QED
  BY <1>1, <1>2, <1>3, <1>4, <1>5, <1>6, <1>7, <1>8, <1>9
     DEF BitcoinAnchorStep, SynchronizeBitcoinData, AnchorBlocksIntoBitcoin

\* SaveAnchorsIntoFactom: a record revealed, an AnchorData saved or passed over.
LEMMA RecordNearer ==
    ASSUME ProgramInv, FactomRecordStep
    PROVE  Nearer \/ RoundOver
<1> USE DEF Normally, Goto
<1>0. at \in 0..MaxHeight /\ MaxHeight \in Nat
  BY RecordTypes, DatabaseAssumption DEF ProgramInv, RecordInv, Height
<1>1. CASE BeginSaving
  BY <1>1 DEF BeginSaving, Nearer, RoundOver, CallsLeft
<1>2. CASE SendRecord
  <2>1. PICK n \in Networks : Turn(n) /\ Reveal(n) /\ held' = [held EXCEPT ![n] = Len(entries')]
    BY <1>2 DEF SendRecord
  <2>2. pc = "saving" /\ pc' = "saving" /\ at' = at
    BY <1>2 DEF SendRecord, processVars
  <2>3. n \in NotHeld /\ NotHeld' = NotHeld \ {n}
    <3>1. held[n] = 0
      BY <2>1 DEF Turn, Unrecorded
    <3>2. Len(entries') # 0
      <4>1. entries \in Seq(Entry) /\ Len(entries) \in Nat
        BY RecordTypes DEF ProgramInv, RecordInv
      <4>2. Len(entries') = Len(entries) + 1
        BY <2>1, <4>1 DEF Reveal, RevealEntry
      <4> QED
        BY <4>1, <4>2
    <3>3. held \in [Networks -> 0..Len(entries)]
      BY DEF ProgramInv, RecordInv, RecordTypeInv
    <3>4. \A m \in Networks : held'[m] = IF m = n THEN Len(entries') ELSE held[m]
      BY <2>1, <3>3
    <3> QED
      BY <3>1, <3>2, <3>4 DEF NotHeld
  <2>4. Cardinality(NotHeld \ {n}) = Cardinality(NotHeld) - 1 /\ Cardinality(NotHeld) \in Nat
    BY <2>3, WorkIsFinite, FS_RemoveElement, FS_CardinalityType
  <2>5. CallsLeft' = CallsLeft /\ TurnsLeft' = TurnsLeft
    BY <2>2 DEF CallsLeft, TurnsLeft
  <2>6. StepsLeft = Cardinality(NotHeld) /\ StepsLeft' = Cardinality(NotHeld \ {n})
    BY <2>2, <2>3 DEF StepsLeft
  <2> QED
    BY <2>4, <2>5, <2>6 DEF Nearer
<1>3. CASE SaveHashes \/ PassOver
  <2>1. pc = "saving" /\ (Advance(1) \/ Advance(0))
    BY <1>3 DEF SaveHashes, PassOver
  <2>2. pc' = "loop" \/ (pc' = "saving" /\ at' = at + 1)
    BY <2>1 DEF Advance
  <2> QED
    BY <1>0, <2>1, <2>2 DEF Nearer, RoundOver, CallsLeft, TurnsLeft
<1>4. CASE BatchFull \/ FactomRecordFailures
  BY <1>4
     DEF BatchFull, RoundOver, FactomRecordFailures, SavingFails, RevealReplyLost,
         HashesLost, FailedCall, Failed, Fault
<1> QED
  BY <1>1, <1>2, <1>3, <1>4 DEF FactomRecordStep, SaveAnchorsIntoFactom

\* With MinConfirmations 1, the default (config.go:105), every call of the main loop
\* ends and so does every round: each step of the process leaves less to do, in an
\* order that goes down only finitely often (ShorterEnds), until the round is over.
\* With more, the only step that does not is SynchronizeBitcoinData's listing of blocks
\* that it will list again (bitcoin.go:25-101), which it repeats until Bitcoin buries
\* them.  That the process takes its steps is what fairness adds.
THEOREM RoundsEnd == Spec => RoundEnds
<1>1. ASSUME ProgramInv, LeftIsNat, LeftIsNat', ProcessStep
      PROVE  <<RoundLeft', RoundLeft>> \in Shorter \/ RoundOver \/ ListsAgain
  <2>1. Nearer \/ RoundOver \/ ListsAgain
    <3>1. SynchronizedOnce => Nearer \/ RoundOver
      BY DEF SynchronizedOnce, Normally, Goto, Nearer, RoundOver, CallsLeft
    <3> QED
      BY <1>1, <3>1, FactomSyncNearer, BitcoinNearer, RecordNearer DEF ProcessStep
  <2>2. Nearer => <<RoundLeft', RoundLeft>> \in Shorter
    BY <1>1, ShorterTriples DEF Nearer, RoundLeft, LeftIsNat
  <2> QED
    BY <2>1, <2>2
<1>2. ASSUME FactomGrows, pc # "fetch"
      PROVE  UNCHANGED RoundLeft
  <2>1. /\ UNCHANGED <<pc, nextHeight, cur, todo, listed, height, at, held>>
        /\ UNCHANGED <<newBlock, lastBitcoin, btcVars>>
    BY <1>2 DEF FactomGrows, processVars, syncVars, anchorVars, recordVars, dbVars
  <2>3. ListSince(newBlock)' = ListSince(newBlock)
    BY <2>1 DEF btcVars, ListSince, ForkPoint, Lineage
  <2>2. ListSince(lastBitcoin)' = ListSince(lastBitcoin)
    BY <2>1 DEF btcVars, ListSince, ForkPoint, Lineage
  <2>5. UNCHANGED CallsLeft
    BY <2>1, <2>2, <2>3 DEF CallsLeft
  <2>6. UNCHANGED TurnsLeft
    BY <1>2, <2>1 DEF TurnsLeft
  <2>7. UNCHANGED StepsLeft
    BY <2>1 DEF StepsLeft, NotHeld
  <2> QED
    BY <2>5, <2>6, <2>7 DEF RoundLeft
<1>3. ASSUME BitcoinGrows, pc \notin {"syncBitcoin", "tx"}
      PROVE  UNCHANGED RoundLeft
  <2>1. UNCHANGED <<pc, nextHeight, cur, todo, listed, height, at, held, dblocks>>
    BY <1>3
       DEF BitcoinGrows, BitcoinMoves, processVars, syncVars, anchorVars, recordVars,
           factomVars
  <2>2. UNCHANGED <<CallsLeft, TurnsLeft>>
    BY <1>3, <2>1 DEF CallsLeft, TurnsLeft
  <2>3. UNCHANGED StepsLeft
    BY <2>1 DEF StepsLeft, NotHeld
  <2> QED
    BY <2>2, <2>3 DEF RoundLeft
<1>4. /\ ProgramInv /\ LeftIsNat /\ LeftIsNat' /\ [Next]_vars =>
            [/\ ProcessStep =>
                    <<RoundLeft', RoundLeft>> \in Shorter \/ RoundOver \/ ListsAgain
             /\ FactomGrows /\ pc # "fetch" => UNCHANGED RoundLeft
             /\ BitcoinGrows /\ pc \notin {"syncBitcoin", "tx"} => UNCHANGED RoundLeft]_vars
      /\ ProgramInv => LeftIsNat
  BY <1>1, <1>2, <1>3, LeftTypes
<1> QED
  BY <1>4, ProgramInvariance, PTL DEF Spec, RoundEnds
=============================================================================

-------------------------- MODULE FactomSyncProofs --------------------------
(***************************************************************************)
(* Proofs about SynchronizeFactomData in its general environment           *)
(* (FactomSync).  The inductive invariant has layers, each proved from the *)
(* ones before it: where the list of directory blocks stands (TypeInv),    *)
(* where records can be (OrderInv), what the stored AnchorData and the     *)
(* chain head say (HeadIsCompletePrefix, RecordPointsIntoChain), what was  *)
(* read (CoverInv), and what was not (ReadUpTo).                           *)
(***************************************************************************)
EXTENDS FactomSync, AnchorDatabaseProofs

-----------------------------------------------------------------------------
(* The inductive invariant. *)

\* The control points at which the list is built, and at which block cur of it
\* is being processed.
InBlock == {"entries", "head", "state"}
Reading == {"fetch"} \cup InBlock

\* The list of blocks to process, and the checkpoint, stay inside the chain.
ListInChain ==
    /\ nextHeight <= Len(dblocks)
    /\ lastFactom > 0 => lastFactom < Len(dblocks)
    /\ pc = "fetch" => cur <= nextHeight
    /\ pc \in InBlock => cur < nextHeight

TypeInv == FactomSyncTypeOK /\ ListInChain

\* A directory block holds records of earlier blocks only, each with a txid.
RecordsAreLater ==
    \A b \in DOMAIN dblocks : \A id \in dblocks[b] : Timely(entries[id], b - 1)
RecordsNameTxs == \A id \in DOMAIN entries : entries[id].txid # 0

\* The entries still to process are entries of the block being processed.
TodoIsOfCur == pc = "entries" => todo \subseteq EntriesIn(cur)

OrderInv == RecordsAreLater /\ RecordsNameTxs /\ TodoIsOfCur

\* What the AnchorData say of an entry, or of all entries of a block, that was
\* read.
Recorded(id) ==
    entries[id].kind = "anchor" =>
        /\ Known(entries[id].h)
        /\ anchorData[entries[id].h][entries[id].net].rec > 0
Covered(b) == Known(b) /\ \A id \in EntriesIn(b) : Recorded(id)

\* Everything up to the checkpoint, before the block being processed, and so
\* far in that block was read.
CheckpointCovered == lastFactom > 0 => \A b \in 0..lastFactom : Covered(b)
ListCovered ==
    /\ pc \in Reading => lastFactom <= cur /\ \A b \in 0..(cur - 1) : Covered(b)
    /\ pc = "entries" => \A id \in EntriesIn(cur) \ todo : Recorded(id)
    /\ pc \in {"head", "state"} => Covered(cur)

CoverInv == CheckpointCovered /\ ListCovered

\* Nothing is known of blocks more than one beyond the checkpoint.
ReadUpTo ==
    /\ \A h \in Height : Known(h) =>
        /\ h <= lastFactom + 1
        /\ \A n \in Networks : anchorData[h][n].rec <= lastFactom + 1
    /\ pc \in Reading => cur = lastFactom + 1 \/ (lastFactom = 0 /\ cur = 0)

IInv ==
    /\ TypeInv
    /\ OrderInv
    /\ HeadIsCompletePrefix
    /\ RecordPointsIntoChain
    /\ CoverInv
    /\ ReadUpTo
    /\ OnlyKnownPanics

-----------------------------------------------------------------------------
(* Types. *)

\* What a well-typed record makes of well-typed AnchorData is well typed.
LEMMA WithRecordType ==
    ASSUME NEW ad \in AnchorData, NEW id \in DOMAIN entries,
           entries \in Seq(Entry), cur \in Height
    PROVE  WithRecord(ad, id) \in AnchorData
<1>1. entries[id] \in Entry
  OBVIOUS
<1>2. id \in Nat
  OBVIOUS
<1>3. [txid |-> entries[id].txid, block |-> entries[id].block,
       entry |-> id, rec |-> cur] \in NetAnchor
  BY <1>1, <1>2 DEF Entry, NetAnchor
<1> QED
  BY <1>3 DEF WithRecord, AnchorData

\* A revealed entry keeps what is known of the others.
LEMMA RevealType ==
    ASSUME NEW e \in Entry, FactomTypeOK, RevealEntry(e)
    PROVE  /\ FactomTypeOK'
           /\ DOMAIN entries \subseteq DOMAIN entries'
           /\ \A id \in DOMAIN entries : entries'[id] = entries[id]
           /\ \A id \in DOMAIN entries' \ DOMAIN entries : entries'[id] = e
           /\ dblocks' = dblocks
<1> USE DEF FactomTypeOK, RevealEntry
<1>1. /\ entries' \in Seq(Entry)
      /\ entries'[Len(entries) + 1] = e
      /\ Len(entries') = Len(entries) + 1
      /\ DOMAIN entries' = DOMAIN entries \cup {Len(entries) + 1}
      /\ \A id \in DOMAIN entries : entries'[id] = entries[id]
  OBVIOUS
<1>2. dblocks' \in Seq(SUBSET DOMAIN entries')
  <2>1. dblocks \in Seq(SUBSET DOMAIN entries)
    OBVIOUS
  <2> QED
    BY <1>1, <2>1
<1> QED
  BY <1>1, <1>2

\* The same for a record of any signer, which has a txid.
LEMMA SomeoneRevealsType ==
    ASSUME FactomTypeOK, SomeoneReveals
    PROVE  /\ FactomTypeOK'
           /\ DOMAIN entries \subseteq DOMAIN entries'
           /\ \A id \in DOMAIN entries : entries'[id] = entries[id]
           /\ \A id \in DOMAIN entries' \ DOMAIN entries : entries'[id].txid # 0
           /\ dblocks' = dblocks
<1>1. PICK h \in Height, n \in Networks, t \in Ids, b \in Ids, k \in Kinds :
        RevealEntry([h |-> h, net |-> n, txid |-> t, block |-> b, kind |-> k])
  BY DEF SomeoneReveals
<1>2. [h |-> h, net |-> n, txid |-> t, block |-> b, kind |-> k] \in Entry
  BY SyncAssumption DEF Entry
<1> QED
  BY <1>1, <1>2, RevealType, SyncAssumption

\* A new directory block is put after the others.
LEMMA MineType ==
    ASSUME FactomTypeOK, MineDBlock
    PROVE  /\ FactomTypeOK'
           /\ entries' = entries
           /\ Len(dblocks') = Len(dblocks) + 1
           /\ DOMAIN dblocks' = 1..(Len(dblocks) + 1)
           /\ \A b \in DOMAIN dblocks : dblocks'[b] = dblocks[b]
           /\ \A id \in dblocks'[Len(dblocks) + 1] :
                /\ id \in DOMAIN entries
                /\ Timely(entries[id], Len(dblocks))
<1> USE DEF FactomTypeOK, MineDBlock
<1>1. PICK S \in SUBSET pending :
        /\ \A id \in S : Timely(entries[id], Len(dblocks))
        /\ dblocks' = Append(dblocks, S)
        /\ pending' = pending \ S
  OBVIOUS
<1>2. S \in SUBSET DOMAIN entries
  OBVIOUS
<1>3. MaxHeight \in Nat
  BY DatabaseAssumption
<1>4. /\ dblocks' \in Seq(SUBSET DOMAIN entries)
      /\ Len(dblocks') = Len(dblocks) + 1
      /\ DOMAIN dblocks' = 1..(Len(dblocks) + 1)
      /\ \A b \in DOMAIN dblocks : dblocks'[b] = dblocks[b]
      /\ dblocks'[Len(dblocks) + 1] = S
  BY <1>1, <1>2
<1> QED
  BY <1>1, <1>2, <1>3, <1>4

\* The list is empty and inside the empty chain at first.
LEMMA InitTypeInv == FactomSyncInit => TypeInv
<1> SUFFICES ASSUME FactomSyncInit
             PROVE  TypeInv
  OBVIOUS
<1> USE DEF FactomSyncInit, DatabaseInit, FactomInit
<1>1. ProcessTypeOK
  <2>1. progress \in BOOLEAN
    BY Zenon
  <2>2. pc \in PCs /\ faults \in 0..MaxFaults /\ errors \in 0..MaxErrors
    BY FaultAssumption, SMT DEF PCs
  <2> QED
    BY <2>1, <2>2, Zenon DEF ProcessTypeOK
<1>2. DatabaseTypeOK
  BY DatabaseAssumption DEF DatabaseTypeOK, Height
<1>3. FactomTypeOK
  BY DatabaseAssumption DEF FactomTypeOK
<1>4. FactomSyncTypeOK
  BY <1>1, <1>2, <1>3, DatabaseAssumption DEF FactomSyncTypeOK, Outside
<1> QED
  BY <1>4 DEF TypeInv, ListInChain, InBlock

\* The entries of a block of the list.
LEMMA EntriesType ==
    ASSUME FactomTypeOK, NEW h \in Nat, h < Len(dblocks)
    PROVE  /\ h + 1 \in DOMAIN dblocks
           /\ EntriesIn(h) = dblocks[h + 1]
           /\ EntriesIn(h) \subseteq DOMAIN entries
<1>1. dblocks \in Seq(SUBSET DOMAIN entries) /\ h + 1 \in DOMAIN dblocks
  BY DEF FactomTypeOK
<1> QED
  BY <1>1 DEF EntriesIn

\* Every step keeps the types and the list inside the chain.
LEMMA NextTypeInv == TypeInv /\ [FactomSyncNext]_factomSyncVars => TypeInv'
<1> SUFFICES ASSUME TypeInv, [FactomSyncNext]_factomSyncVars
             PROVE  TypeInv'
  OBVIOUS
<1> USE DEF TypeInv, FactomSyncTypeOK, ListInChain, InBlock
<1>a. /\ FactomSteps \cup Outside \cup {"panic"} \subseteq PCs
      /\ MaxHeight \in Nat
      /\ Height = 0..MaxHeight
      /\ dblocks \in Seq(SUBSET DOMAIN entries)
      /\ Len(dblocks) \in Nat
      /\ Len(dblocks) <= MaxHeight + 1
      /\ lastFactom \in Height
      /\ progress \in BOOLEAN
  BY DatabaseAssumption
  DEF PCs, FactomSteps, Outside, BitcoinSteps, Height, FactomTypeOK,
      DatabaseTypeOK, ProcessTypeOK
<1>1. CASE SyncFactom
  <2>1. ProcessTypeOK' /\ pc' = "fetch"
    BY <1>1, <1>a, ProcessSteps DEF SyncFactom, FactomSteps
  <2>2. DatabaseTypeOK' /\ FactomTypeOK' /\ UNCHANGED <<dbVars, factomVars>>
    BY <1>1 DEF SyncFactom, dbVars, factomVars, DatabaseTypeOK, FactomTypeOK
  <2> QED
    BY <1>1, <1>a, <2>1, <2>2
    DEF SyncFactom, FactomSteps, dbVars, factomVars
<1>2. CASE FetchDBlock
  <2>1. ProcessTypeOK' /\ DatabaseTypeOK' /\ FactomTypeOK'
    BY <1>2 DEF FetchDBlock, processVars, dbVars, factomVars, ProcessTypeOK,
                DatabaseTypeOK, FactomTypeOK
  <2> QED
    BY <1>2, <1>a, <2>1
    DEF FetchDBlock, BlockExists, processVars, dbVars, factomVars
<1>3. CASE FetchDone
  <2>1. DatabaseTypeOK' /\ FactomTypeOK' /\ UNCHANGED <<dbVars, factomVars>>
    BY <1>3 DEF FetchDone, dbVars, factomVars, DatabaseTypeOK, FactomTypeOK
  <2>2. CASE cur < nextHeight /\ todo' = EntriesIn(cur) /\ Normally("entries")
    <3>1. ProcessTypeOK' /\ pc' = "entries"
      BY <1>3, <2>2, <1>a, ProcessSteps DEF FetchDone, FactomSteps
    <3>2. EntriesIn(cur) \subseteq DOMAIN entries
      <4>1. cur \in Nat /\ cur < Len(dblocks)
        BY <2>2, <1>a
      <4> QED
        BY <4>1, EntriesType
    <3> QED
      BY <1>3, <1>a, <2>1, <2>2, <3>1, <3>2
      DEF FetchDone, FactomSteps, dbVars, factomVars
  <2>3. CASE cur = nextHeight /\ todo' = todo /\ Normally("syncBitcoin")
    <3>1. ProcessTypeOK' /\ pc' = "syncBitcoin"
      BY <1>3, <2>3, <1>a, ProcessSteps DEF FetchDone, Outside
    <3> QED
      BY <1>3, <1>a, <2>1, <2>3, <3>1
      DEF FetchDone, Outside, dbVars, factomVars
  <2> QED
    BY <1>3, <2>2, <2>3 DEF FetchDone
<1>4. CASE ProcessEntry
  <2>1. PICK id \in todo :
          /\ SkipEntry(id) \/ SaveRecord(id) \/ RecordOfUnknownBlock(id)
          /\ todo' = todo \ {id}
    BY <1>4 DEF ProcessEntry
  <2>2. FactomTypeOK' /\ UNCHANGED <<factomVars, nextHeight, cur>> /\ pc = "entries"
    BY <1>4 DEF ProcessEntry, factomVars, FactomTypeOK
  <2>3. CASE SkipEntry(id)
    <3>1. ProcessTypeOK' /\ DatabaseTypeOK' /\ UNCHANGED <<pc, lastFactom>>
      BY <2>3 DEF SkipEntry, processVars, dbVars, ProcessTypeOK, DatabaseTypeOK
    <3> QED
      BY <2>1, <2>2, <3>1, <1>a DEF factomVars
  <2>4. CASE SaveRecord(id)
    <3>1. cur \in Height /\ id \in DOMAIN entries /\ entries \in Seq(Entry)
      BY <2>2, <1>a DEF FactomTypeOK
    <3>2. WithRecord(FetchAnchorData(entries[id].h), id) \in AnchorData
      BY <2>4, <3>1, WithRecordType, KnownData DEF SaveRecord, DatabaseTypeOK
    <3>3. DatabaseTypeOK'
      BY <2>4, <3>2, InsertType DEF SaveRecord, DatabaseTypeOK
    <3>4. ProcessTypeOK' /\ UNCHANGED <<pc, lastFactom>>
      BY <2>4 DEF SaveRecord, ProcessTypeOK
    <3> QED
      BY <2>1, <2>2, <3>3, <3>4, <1>a DEF factomVars
  <2>5. CASE RecordOfUnknownBlock(id)
    <3>1. ProcessTypeOK' /\ pc' = "panic"
      BY <2>5, <1>a, ProcessSteps DEF RecordOfUnknownBlock
    <3>2. DatabaseTypeOK' /\ UNCHANGED lastFactom
      BY <2>5 DEF RecordOfUnknownBlock, dbVars, DatabaseTypeOK
    <3> QED
      BY <2>1, <2>2, <3>1, <3>2, <1>a DEF factomVars
  <2> QED
    BY <2>1, <2>3, <2>4, <2>5
<1>5. CASE InsertDBlock
  <2>1. ProcessTypeOK' /\ pc' = "head"
    BY <1>5, <1>a, ProcessSteps DEF InsertDBlock, FactomSteps
  <2>2. DatabaseTypeOK'
    BY <1>5, NewAnchorDataType, InsertType DEF InsertDBlock, DatabaseTypeOK
  <2>3. FactomTypeOK'
    BY <1>5 DEF InsertDBlock, factomVars, FactomTypeOK
  <2> QED
    BY <1>5, <1>a, <2>1, <2>2, <2>3 DEF InsertDBlock, FactomSteps, factomVars
<1>6. CASE UpdateHead
  <2>1. ProcessTypeOK' /\ pc' \in {"state", "panic"}
    BY <1>6, <1>a, ProcessSteps DEF UpdateHead, FactomSteps
  <2>2. DatabaseTypeOK'
    BY <1>6, <1>a DEF UpdateHead, UpdateAnchorDataHead, DatabaseTypeOK
  <2>3. FactomTypeOK'
    BY <1>6 DEF UpdateHead, factomVars, FactomTypeOK
  <2> QED
    BY <1>6, <1>a, <2>1, <2>2, <2>3
    DEF UpdateHead, FactomSteps, factomVars, syncVars
<1>7. CASE SaveFactomState
  <2>1. FactomTypeOK' /\ UNCHANGED <<factomVars, nextHeight>> /\ pc = "state"
    BY <1>7 DEF SaveFactomState, factomVars, FactomTypeOK
  <2>2. cur \in Height /\ cur < Len(dblocks)
    BY <2>1, <1>a
  <2>3. DatabaseTypeOK'
    BY <1>7, <2>2 DEF SaveFactomState, DatabaseTypeOK
  <2>4. CASE cur + 1 < nextHeight /\ todo' = EntriesIn(cur + 1) /\ Normally("entries")
    <3>1. ProcessTypeOK' /\ pc' = "entries"
      BY <1>7, <2>4, <1>a, ProcessSteps DEF SaveFactomState, FactomSteps
    <3>2. EntriesIn(cur + 1) \subseteq DOMAIN entries
      <4>1. cur + 1 \in Nat /\ cur + 1 < Len(dblocks)
        BY <2>4, <1>a
      <4> QED
        BY <4>1, EntriesType
    <3> QED
      BY <1>7, <1>a, <2>1, <2>2, <2>3, <2>4, <3>1, <3>2
      DEF SaveFactomState, FactomSteps, factomVars
  <2>5. CASE cur + 1 = nextHeight /\ todo' = {} /\ Normally("syncBitcoin")
    <3>1. ProcessTypeOK' /\ pc' = "syncBitcoin"
      BY <1>7, <2>5, <1>a, ProcessSteps DEF SaveFactomState, Outside
    <3> QED
      BY <1>7, <1>a, <2>1, <2>2, <2>3, <2>5, <3>1
      DEF SaveFactomState, Outside, factomVars
  <2> QED
    BY <1>7, <2>4, <2>5 DEF SaveFactomState
<1>8. CASE FactomSyncFails
  <2>1. ProcessTypeOK' /\ pc' = "loop"
    BY <1>8, <1>a, ProcessSteps DEF FactomSyncFails, FailedCall, Outside
  <2>2. DatabaseTypeOK' /\ FactomTypeOK'
    BY <1>8 DEF FactomSyncFails, dbVars, factomVars, DatabaseTypeOK, FactomTypeOK
  <2> QED
    BY <1>8, <2>1, <2>2
    DEF FactomSyncFails, Outside, dbVars, factomVars, syncVars
<1>9. CASE CloseBlock
  <2>1. ProcessTypeOK' /\ DatabaseTypeOK' /\ UNCHANGED <<pc, lastFactom, syncVars>>
    BY <1>9 DEF CloseBlock, processVars, dbVars, ProcessTypeOK, DatabaseTypeOK
  <2> QED
    BY <1>9, <1>a, <2>1, MineType DEF CloseBlock, syncVars
<1>10. CASE SignerReveals
  <2>1. ProcessTypeOK' /\ DatabaseTypeOK' /\ UNCHANGED <<pc, lastFactom, syncVars>>
    BY <1>10 DEF SignerReveals, processVars, dbVars, ProcessTypeOK, DatabaseTypeOK
  <2> QED
    BY <1>10, <1>a, <2>1, SomeoneRevealsType DEF SignerReveals, syncVars
<1>11. CASE RestOfLoopSteps
  <2>1. ProcessTypeOK' /\ pc' \in Outside
    BY <1>11, <1>a, ProcessSteps DEF RestOfLoopSteps, Outside
  <2>2. DatabaseTypeOK'
    <3>1. CASE FillAnchor
      <4>1. PICK h \in Height, t \in Ids, b \in Ids \cup {0}, e \in Ids \cup {0} :
              /\ Known(h)
              /\ anchorData' = [anchorData EXCEPT ![h] =
                    [anchorData[h] EXCEPT !["Bitcoin"] =
                        [txid |-> t, block |-> b, entry |-> e, rec |-> 0]]]
        BY <3>1 DEF FillAnchor, InsertAnchorData
      <4>2. [txid |-> t, block |-> b, entry |-> e, rec |-> 0] \in NetAnchor
        BY SyncAssumption, <1>a DEF NetAnchor
      <4>3. anchorData[h] \in AnchorData
        BY <4>1, KnownData DEF DatabaseTypeOK
      <4>4. [anchorData[h] EXCEPT !["Bitcoin"] =
               [txid |-> t, block |-> b, entry |-> e, rec |-> 0]] \in AnchorData
        BY <4>2, <4>3 DEF AnchorData
      <4> QED
        BY <1>11, <4>1, <4>4 DEF RestOfLoopSteps, DatabaseTypeOK
    <3>2. CASE UNCHANGED anchorData
      BY <1>11, <3>2 DEF RestOfLoopSteps, DatabaseTypeOK
    <3> QED
      BY <1>11, <3>1, <3>2 DEF RestOfLoopSteps
  <2>3. FactomTypeOK'
    BY <1>11 DEF RestOfLoopSteps, factomVars, FactomTypeOK
  <2> QED
    BY <1>11, <2>1, <2>2, <2>3 DEF RestOfLoopSteps, Outside, factomVars, syncVars
<1>12. CASE RestOfLoopFails
  <2>1. ProcessTypeOK' /\ pc' = "loop"
    BY <1>12, <1>a, ProcessSteps DEF RestOfLoopFails, FailedCall, Outside
  <2>2. DatabaseTypeOK' /\ UNCHANGED <<lastFactom, syncVars>>
    BY <1>12 DEF RestOfLoopFails, dbVars, DatabaseTypeOK
  <2>3. FactomTypeOK' /\ dblocks' = dblocks /\ DOMAIN entries \subseteq DOMAIN entries'
    <3>1. CASE SomeoneReveals
      BY <3>1, SomeoneRevealsType
    <3>2. CASE UNCHANGED factomVars
      BY <3>2 DEF factomVars, FactomTypeOK
    <3> QED
      BY <1>12, <3>1, <3>2 DEF RestOfLoopFails
  <2> QED
    BY <2>1, <2>2, <2>3 DEF Outside, syncVars
<1>13. CASE CallAgain
  <2>1. ProcessTypeOK' /\ pc' = "syncFactom"
    BY <1>13, <1>a, ProcessSteps DEF CallAgain, FactomSteps
  <2>2. DatabaseTypeOK' /\ FactomTypeOK'
    BY <1>13 DEF CallAgain, dbVars, factomVars, DatabaseTypeOK, FactomTypeOK
  <2> QED
    BY <1>13, <2>1, <2>2
    DEF CallAgain, FactomSteps, dbVars, factomVars, syncVars
<1>14. CASE Restart
  <2>1. ProcessTypeOK' /\ pc' = "loop"
    BY <1>14, <1>a, ProcessSteps DEF Restart, Outside
  <2>2. DatabaseTypeOK' /\ lastFactom' \in {0, lastFactom}
    BY <1>14, ReopenType DEF Restart
  <2>3. FactomTypeOK'
    BY <1>14 DEF Restart, factomVars, FactomTypeOK
  <2> QED
    BY <1>14, <1>a, <2>1, <2>2, <2>3 DEF Restart, Outside, factomVars, syncVars
<1>15. CASE UNCHANGED factomSyncVars
  BY <1>15
  DEF factomSyncVars, processVars, dbVars, factomVars, syncVars, ProcessTypeOK,
      DatabaseTypeOK, FactomTypeOK
<1> QED
  BY <1>1, <1>2, <1>3, <1>4, <1>5, <1>6, <1>7, <1>8, <1>9, <1>10, <1>11,
     <1>12, <1>13, <1>14, <1>15
  DEF FactomSyncNext, SynchronizeFactomData

-----------------------------------------------------------------------------
(* The chain of directory blocks only grows. *)

\* Only factomd and the signers change the chain and its entries.
LEMMA ChainSteps ==
    ASSUME [FactomSyncNext]_factomSyncVars
    PROVE  UNCHANGED factomVars \/ MineDBlock \/ SomeoneReveals
BY DEF FactomSyncNext, SynchronizeFactomData, SyncFactom, FetchDBlock, FetchDone,
       ProcessEntry, InsertDBlock, UpdateHead, SaveFactomState, FactomSyncFails,
       CloseBlock, SignerReveals, RestOfLoopSteps, RestOfLoopFails, CallAgain,
       Restart, factomSyncVars

\* Entries and blocks that were there stay as they are.
LEMMA ChainKept ==
    ASSUME TypeInv, [FactomSyncNext]_factomSyncVars
    PROVE  /\ DOMAIN entries \subseteq DOMAIN entries'
           /\ \A id \in DOMAIN entries : entries'[id] = entries[id]
           /\ Len(dblocks) <= Len(dblocks')
           /\ \A b \in DOMAIN dblocks : b \in DOMAIN dblocks' /\ dblocks'[b] = dblocks[b]
<1>1. /\ FactomTypeOK
      /\ DOMAIN dblocks = 1..Len(dblocks)
      /\ Len(dblocks) \in Nat
  BY DEF TypeInv, FactomSyncTypeOK, FactomTypeOK
<1>2. CASE UNCHANGED factomVars
  BY <1>1, <1>2 DEF factomVars
<1>3. CASE MineDBlock
  <2>1. /\ entries' = entries
        /\ Len(dblocks') = Len(dblocks) + 1
        /\ DOMAIN dblocks' = 1..(Len(dblocks) + 1)
        /\ \A b \in DOMAIN dblocks : dblocks'[b] = dblocks[b]
    BY <1>1, <1>3, MineType
  <2> QED
    BY <1>1, <2>1
<1>4. CASE SomeoneReveals
  BY <1>1, <1>4, SomeoneRevealsType
<1> QED
  BY <1>2, <1>3, <1>4, ChainSteps

\* The same, told of the entries in a block of a given height.
LEMMA EntriesKept ==
    ASSUME TypeInv, [FactomSyncNext]_factomSyncVars,
           NEW h \in Nat, h < Len(dblocks)
    PROVE  /\ h < Len(dblocks')
           /\ EntriesIn(h) = dblocks[h + 1]
           /\ dblocks'[h + 1] = EntriesIn(h)
           /\ \A id \in EntriesIn(h) :
                id \in DOMAIN entries /\ entries'[id] = entries[id]
<1>1. FactomTypeOK /\ Len(dblocks) \in Nat
  BY DEF TypeInv, FactomSyncTypeOK, FactomTypeOK
<1>2. /\ h + 1 \in DOMAIN dblocks
      /\ EntriesIn(h) = dblocks[h + 1]
      /\ EntriesIn(h) \subseteq DOMAIN entries
  BY <1>1, EntriesType
<1>3. Len(dblocks') \in Nat
  BY NextTypeInv DEF TypeInv, FactomSyncTypeOK, FactomTypeOK
<1> QED
  BY <1>1, <1>2, <1>3, ChainKept

-----------------------------------------------------------------------------
(* Where records can be. *)

\* There are no entries at first.
LEMMA InitOrderInv == FactomSyncInit => OrderInv
BY DEF FactomSyncInit, FactomInit, OrderInv, RecordsAreLater, RecordsNameTxs,
       TodoIsOfCur

\* Records stay in blocks above the blocks they are about.
LEMMA NextRecordsAreLater ==
    ASSUME TypeInv, OrderInv, [FactomSyncNext]_factomSyncVars
    PROVE  RecordsAreLater' /\ RecordsNameTxs'
<1> USE DEF OrderInv, RecordsAreLater, RecordsNameTxs
<1>1. /\ FactomTypeOK
      /\ DOMAIN dblocks = 1..Len(dblocks)
      /\ Len(dblocks) \in Nat
      /\ \A b \in DOMAIN dblocks : dblocks[b] \subseteq DOMAIN entries
  BY DEF TypeInv, FactomSyncTypeOK, FactomTypeOK
<1>2. CASE UNCHANGED factomVars
  BY <1>2 DEF factomVars, Timely
<1>3. CASE MineDBlock
  <2>1. /\ entries' = entries
        /\ DOMAIN dblocks' = 1..(Len(dblocks) + 1)
        /\ \A b \in DOMAIN dblocks : dblocks'[b] = dblocks[b]
        /\ \A id \in dblocks'[Len(dblocks) + 1] : Timely(entries[id], Len(dblocks))
    BY <1>1, <1>3, MineType
  <2>2. ASSUME NEW b \in DOMAIN dblocks', NEW id \in dblocks'[b]
        PROVE  Timely(entries[id], b - 1)
    <3>1. CASE b \in DOMAIN dblocks
      BY <2>1, <3>1
    <3>2. CASE b = Len(dblocks) + 1
      <4>1. b - 1 = Len(dblocks)
        BY <1>1, <3>2
      <4> QED
        BY <2>1, <2>2, <3>2, <4>1
    <3> QED
      BY <1>1, <2>1, <3>1, <3>2
  <2> QED
    BY <2>1, <2>2 DEF Timely
<1>4. CASE SomeoneReveals
  <2>1. /\ DOMAIN entries \subseteq DOMAIN entries'
        /\ \A id \in DOMAIN entries : entries'[id] = entries[id]
        /\ \A id \in DOMAIN entries' \ DOMAIN entries : entries'[id].txid # 0
        /\ dblocks' = dblocks
    BY <1>1, <1>4, SomeoneRevealsType
  <2> QED
    BY <1>1, <2>1 DEF Timely
<1> QED
  BY <1>2, <1>3, <1>4, ChainSteps

\* The entries to process stay those of the block being processed.
LEMMA NextTodoIsOfCur ==
    ASSUME TypeInv, OrderInv, [FactomSyncNext]_factomSyncVars
    PROVE  TodoIsOfCur'
<1> USE DEF OrderInv, TodoIsOfCur
<1>1. CASE UNCHANGED factomVars /\ (pc' # "entries" \/ UNCHANGED <<pc, cur, todo>>)
  BY <1>1 DEF EntriesIn, factomVars
<1>2. CASE FetchDone \/ SaveFactomState
  BY <1>2 DEF FetchDone, SaveFactomState, EntriesIn, factomVars, Normally, Goto
<1>3. CASE ProcessEntry
  <2>1. pc = "entries" /\ todo' \subseteq todo /\ UNCHANGED <<factomVars, cur>>
    BY <1>3 DEF ProcessEntry
  <2> QED
    BY <2>1 DEF EntriesIn, factomVars
<1>4. CASE CloseBlock \/ SignerReveals
  <2>1. UNCHANGED <<pc, cur, todo>>
    BY <1>4 DEF CloseBlock, SignerReveals, processVars, syncVars
  <2>2. CASE pc = "entries"
    <3>1. cur \in Nat /\ cur < Len(dblocks)
      BY <2>2, DatabaseAssumption
      DEF TypeInv, FactomSyncTypeOK, FactomTypeOK, ListInChain, InBlock
    <3>2. dblocks'[cur + 1] = EntriesIn(cur)
      BY <3>1, EntriesKept
    <3> QED
      BY <2>1, <3>2 DEF EntriesIn
  <2> QED
    BY <2>1, <2>2
<1> QED
  <2>1. CASE SyncFactom \/ FetchDBlock \/ InsertDBlock \/ UpdateHead
    BY <1>1, <2>1
    DEF SyncFactom, FetchDBlock, InsertDBlock, UpdateHead, Normally, Goto,
        processVars
  <2>2. CASE FactomSyncFails \/ RestOfLoopSteps \/ CallAgain \/ Restart
    BY <1>1, <2>2
    DEF FactomSyncFails, RestOfLoopSteps, CallAgain, Restart, Normally, Goto,
        FailedCall, Failed, Fault
  <2>3. CASE RestOfLoopFails
    BY <2>3 DEF RestOfLoopFails, FailedCall, Failed, Fault, Goto
  <2>4. CASE UNCHANGED factomSyncVars
    BY <1>1, <2>4 DEF factomSyncVars, processVars, syncVars
  <2> QED
    BY <1>2, <1>3, <1>4, <2>1, <2>2, <2>3, <2>4
    DEF FactomSyncNext, SynchronizeFactomData

\* Every step keeps where records can be.
LEMMA NextOrderInv ==
    TypeInv /\ OrderInv /\ [FactomSyncNext]_factomSyncVars => OrderInv'
BY NextRecordsAreLater, NextTodoIsOfCur DEF OrderInv

-----------------------------------------------------------------------------
(* How the AnchorData and the chain head change. *)

\* No block, sent transaction or record is forgotten.
AnchorsKept ==
    \A h \in Height : Known(h) =>
        /\ Known(h)'
        /\ \A n \in Networks :
            /\ anchorData[h][n].txid # 0 => anchorData'[h][n].txid # 0
            /\ anchorData[h][n].rec > 0 => anchorData'[h][n].rec > 0

\* A new process with an empty database.
DatabaseLost ==
    /\ ~Persistent
    /\ pc' = "loop" /\ lastFactom' = 0 /\ chainHead' = Nil
    /\ \A h \in Height : ~Known(h)'

\* What a record that is being saved is about.
LEMMA SavedRecord ==
    ASSUME TypeInv, OrderInv, pc = "entries", NEW id \in todo, SaveRecord(id)
    PROVE  /\ id \in DOMAIN entries
           /\ id \in EntriesIn(cur)
           /\ entries[id] \in Entry
           /\ entries[id].txid # 0
           /\ cur \in Height /\ cur < Len(dblocks)
           /\ entries[id].h < cur
           /\ entries[id].h + RecordDelay <= cur
           /\ anchorData' = [anchorData EXCEPT ![entries[id].h] =
                [anchorData[entries[id].h] EXCEPT ![entries[id].net] =
                    [txid |-> entries[id].txid, block |-> entries[id].block,
                     entry |-> id, rec |-> cur]]]
<1>1. /\ cur \in Nat /\ cur < Len(dblocks) /\ cur \in Height
      /\ id \in DOMAIN entries /\ entries \in Seq(Entry)
      /\ FactomTypeOK
  BY DatabaseAssumption
  DEF TypeInv, FactomSyncTypeOK, FactomTypeOK, ListInChain, InBlock, Height
<1>2. /\ cur + 1 \in DOMAIN dblocks
      /\ EntriesIn(cur) = dblocks[cur + 1]
  BY <1>1, EntriesType
<1>3. id \in EntriesIn(cur) /\ Timely(entries[id], (cur + 1) - 1)
  BY <1>2 DEF OrderInv, TodoIsOfCur, RecordsAreLater
<1>4. entries[id] \in Entry /\ entries[id].h \in Nat
  <2>1. entries[id] \in Entry
    BY <1>1
  <2> QED
    BY <2>1, DatabaseAssumption DEF Entry, Height
<1>5. entries[id].h + RecordDelay <= cur
  BY <1>1, <1>3 DEF Timely, SaveRecord
<1>6. entries[id].h < cur
  BY <1>1, <1>4, <1>5, RecordDelayAssumption
<1>7. FetchAnchorData(entries[id].h) = anchorData[entries[id].h]
  BY KnownData DEF SaveRecord, TypeInv, FactomSyncTypeOK, DatabaseTypeOK
<1> QED
  BY <1>1, <1>3, <1>4, <1>5, <1>6, <1>7
  DEF SaveRecord, InsertAnchorData, WithRecord, OrderInv, RecordsNameTxs

\* What the rest of the loop fills in.
LEMMA FilledAnchor ==
    ASSUME TypeInv, FillAnchor
    PROVE  \E h \in Height, t \in Ids, b \in Ids \cup {0}, e \in Ids \cup {0} :
            /\ Known(h)
            /\ anchorData[h]["Bitcoin"].rec = 0
            /\ anchorData' = [anchorData EXCEPT ![h] =
                [anchorData[h] EXCEPT !["Bitcoin"] =
                    [txid |-> t, block |-> b, entry |-> e, rec |-> 0]]]
BY DEF FillAnchor, InsertAnchorData

\* Every step that changes the AnchorData is one of four.
LEMMA DataSteps ==
    ASSUME [FactomSyncNext]_factomSyncVars
    PROVE  \/ UNCHANGED anchorData
           \/ pc = "entries" /\ UNCHANGED <<factomVars, cur, chainHead, lastFactom>>
                /\ pc' = pc
                /\ \E id \in todo : SaveRecord(id) /\ todo' = todo \ {id}
           \/ InsertDBlock /\ UNCHANGED <<factomVars, cur, chainHead, lastFactom>>
           \/ FillAnchor /\ UNCHANGED <<factomVars, cur, chainHead, lastFactom>>
                /\ pc = "syncBitcoin" /\ pc' \in Outside
           \/ Restart
<1>1. CASE ProcessEntry
  <2>1. PICK id \in todo :
          /\ SkipEntry(id) \/ SaveRecord(id) \/ RecordOfUnknownBlock(id)
          /\ todo' = todo \ {id}
    BY <1>1 DEF ProcessEntry
  <2>2. CASE SkipEntry(id) \/ RecordOfUnknownBlock(id)
    BY <2>2 DEF SkipEntry, RecordOfUnknownBlock, dbVars
  <2>3. CASE SaveRecord(id)
    <3>1. pc = "entries" /\ UNCHANGED <<factomVars, cur>>
      BY <1>1 DEF ProcessEntry
    <3>2. UNCHANGED <<pc, chainHead, lastFactom>>
      BY <2>3 DEF SaveRecord
    <3> QED
      BY <2>1, <2>3, <3>1, <3>2
  <2> QED
    BY <2>1, <2>2, <2>3
<1>2. CASE SyncFactom \/ FetchDBlock \/ FetchDone \/ UpdateHead \/ SaveFactomState
  BY <1>2
  DEF SyncFactom, FetchDBlock, FetchDone, UpdateHead, SaveFactomState, dbVars
<1>3. CASE InsertDBlock
  BY <1>3 DEF InsertDBlock
<1>4. CASE FactomSyncFails \/ CloseBlock \/ SignerReveals \/ RestOfLoopFails \/ CallAgain
  BY <1>4
  DEF FactomSyncFails, CloseBlock, SignerReveals, RestOfLoopFails, CallAgain, dbVars
<1>5. CASE RestOfLoopSteps
  BY <1>5 DEF RestOfLoopSteps, Normally, Goto, Outside, syncVars
<1>6. CASE UNCHANGED factomSyncVars
  BY <1>6 DEF factomSyncVars, dbVars
<1> QED
  BY <1>1, <1>2, <1>3, <1>4, <1>5, <1>6
  DEF FactomSyncNext, SynchronizeFactomData

\* A restart keeps the database or loses all of it.
LEMMA RestartSteps ==
    ASSUME Restart
    PROVE  \/ UNCHANGED <<dbVars, factomVars>> /\ pc' = "loop"
           \/ DatabaseLost
BY DatabaseAssumption
DEF Restart, ReopenDatabase, DatabaseLost, Known, FetchAnchorData, Fault, Goto

\* Nothing is forgotten but by the loss of a Map database.
LEMMA AnchorsKeptOrLost ==
    ASSUME TypeInv, OrderInv, [FactomSyncNext]_factomSyncVars
    PROVE  AnchorsKept \/ DatabaseLost
<1> USE DEF AnchorsKept, Known, FetchAnchorData
<1>a. anchorData \in [Height -> AnchorData \cup {Nil}]
  BY DEF TypeInv, FactomSyncTypeOK, DatabaseTypeOK
<1>1. CASE UNCHANGED anchorData
  BY <1>1
<1>2. ASSUME pc = "entries", NEW id \in todo, SaveRecord(id)
      PROVE  AnchorsKept
  <2> DEFINE e == entries[id]
             ad == [anchorData[e.h] EXCEPT ![e.net] =
                     [txid |-> e.txid, block |-> e.block, entry |-> id, rec |-> cur]]
  <2>1. /\ e.h \in Height /\ e.net \in Networks /\ e.txid # 0 /\ cur > 0
        /\ anchorData' = [anchorData EXCEPT ![e.h] = ad]
    BY <1>2, SavedRecord, DatabaseAssumption DEF Entry, Height
  <2>2. anchorData[e.h] \in AnchorData
    BY <1>a, <1>2, KnownData DEF SaveRecord
  <2>3. /\ ad[e.net].txid = e.txid /\ ad[e.net].rec = cur
        /\ \A n \in Networks : n # e.net => ad[n] = anchorData[e.h][n]
    BY <2>1, <2>2 DEF AnchorData
  <2>4. ad \in AnchorData
    <3>1. id \in DOMAIN entries /\ entries \in Seq(Entry) /\ cur \in Height
      BY <1>2, SavedRecord DEF TypeInv, FactomSyncTypeOK, FactomTypeOK
    <3>2. WithRecord(anchorData[e.h], id) = ad
      BY DEF WithRecord
    <3> HIDE DEF ad
    <3> QED
      BY <2>2, <3>1, <3>2, WithRecordType
  <2>5. ad # Nil
    BY <2>4, NilAssumption
  <2>6. anchorData'[e.h] = ad /\ \A h \in Height : h # e.h => anchorData'[h] = anchorData[h]
    BY <1>a, <2>1
  <2> HIDE DEF ad, e
  <2> QED
    BY <2>1, <2>3, <2>5, <2>6
<1>3. CASE InsertDBlock
  <2>1. CASE UNCHANGED anchorData
    BY <2>1
  <2>2. CASE ~Known(cur) /\ InsertAnchorData(cur, NewAnchorData)
    <3>1. \A h \in Height : Known(h) => anchorData'[h] = anchorData[h]
      BY <1>a, <2>2 DEF InsertAnchorData
    <3> QED
      BY <3>1
  <2> QED
    BY <1>3, <2>1, <2>2 DEF InsertDBlock
<1>4. CASE FillAnchor
  <2>1. PICK h \in Height, t \in Ids, b \in Ids \cup {0}, e \in Ids \cup {0} :
            /\ Known(h)
            /\ anchorData[h]["Bitcoin"].rec = 0
            /\ anchorData' = [anchorData EXCEPT ![h] =
                [anchorData[h] EXCEPT !["Bitcoin"] =
                    [txid |-> t, block |-> b, entry |-> e, rec |-> 0]]]
    BY <1>4, FilledAnchor
  <2> DEFINE ad == [anchorData[h] EXCEPT !["Bitcoin"] =
                      [txid |-> t, block |-> b, entry |-> e, rec |-> 0]]
  <2>2. anchorData[h] \in AnchorData
    BY <1>a, <2>1, KnownData
  <2>3. /\ ad["Bitcoin"].txid = t /\ t # 0
        /\ ad["Ethereum"] = anchorData[h]["Ethereum"]
    BY <2>2, SyncAssumption DEF AnchorData, Networks
  <2>4. [txid |-> t, block |-> b, entry |-> e, rec |-> 0] \in NetAnchor
    BY SyncAssumption, DatabaseAssumption DEF NetAnchor, Height
  <2>5. ad \in AnchorData
    BY <2>2, <2>4 DEF AnchorData
  <2>6. ad # Nil
    BY <2>5, NilAssumption
  <2>7. anchorData'[h] = ad /\ \A k \in Height : k # h => anchorData'[k] = anchorData[k]
    BY <1>a, <2>1
  <2> HIDE DEF ad
  <2> QED
    BY <2>1, <2>3, <2>6, <2>7 DEF Networks
<1>5. CASE Restart
  BY <1>1, <1>5, RestartSteps DEF dbVars
<1> QED
  BY <1>1, <1>2, <1>3, <1>4, <1>5, DataSteps

\* The chain head moves in the head update only.
LEMMA HeadSteps ==
    ASSUME [FactomSyncNext]_factomSyncVars
    PROVE  \/ UNCHANGED chainHead
           \/ pc = "head" /\ UpdateAnchorDataHead
                /\ UNCHANGED <<anchorData, lastFactom, factomVars, cur>>
           \/ DatabaseLost
<1>1. CASE SyncFactom \/ FetchDBlock \/ FetchDone \/ InsertDBlock \/ SaveFactomState
  BY <1>1
  DEF SyncFactom, FetchDBlock, FetchDone, InsertDBlock, SaveFactomState, dbVars
<1>2. CASE ProcessEntry
  BY <1>2 DEF ProcessEntry, SkipEntry, RecordOfUnknownBlock, SaveRecord, dbVars
<1>3. CASE UpdateHead
  BY <1>3 DEF UpdateHead, syncVars
<1>4. CASE FactomSyncFails \/ CloseBlock \/ SignerReveals \/ RestOfLoopSteps
             \/ RestOfLoopFails \/ CallAgain
  BY <1>4
  DEF FactomSyncFails, CloseBlock, SignerReveals, RestOfLoopSteps,
      RestOfLoopFails, CallAgain, dbVars
<1>5. CASE Restart
  BY <1>5, RestartSteps DEF dbVars
<1>6. CASE UNCHANGED factomSyncVars
  BY <1>6 DEF factomSyncVars, dbVars
<1> QED
  BY <1>1, <1>2, <1>3, <1>4, <1>5, <1>6
  DEF FactomSyncNext, SynchronizeFactomData

\* A complete block stays complete.
LEMMA CompleteKept ==
    ASSUME AnchorsKept, NEW h, Complete(h)
    PROVE  Complete(h)'
BY DEF AnchorsKept, Complete, Known, FetchAnchorData, IsComplete, Networks

-----------------------------------------------------------------------------
(* The chain head and the records. *)

\* The head moves over complete blocks only, and they stay complete.
LEMMA NextHeadIsCompletePrefix ==
    ASSUME TypeInv, OrderInv, HeadIsCompletePrefix,
           [FactomSyncNext]_factomSyncVars
    PROVE  HeadIsCompletePrefix'
<1> USE DEF HeadIsCompletePrefix
<1>1. CASE DatabaseLost
  BY <1>1 DEF DatabaseLost
<1>2. CASE AnchorsKept /\ UNCHANGED chainHead
  BY <1>2, CompleteKept
<1>3. CASE UpdateAnchorDataHead /\ UNCHANGED anchorData
  <2>1. PICK s \in Height : /\ ScanStopsAt(s)
                            /\ chainHead' = IF s = 0 THEN Nil ELSE s - 1
    BY <1>3 DEF UpdateAnchorDataHead
  <2>2. s \in Nat /\ (chainHead # Nil => chainHead \in Nat)
    BY DatabaseAssumption
    DEF Height, TypeInv, FactomSyncTypeOK, DatabaseTypeOK
  <2>3. \A k \in 0..(s - 1) : Complete(k)
    BY <2>1, <2>2 DEF ScanStopsAt, AfterHead
  <2> QED
    BY <1>3, <2>1, <2>2, <2>3 DEF Complete, Known, FetchAnchorData, IsComplete
<1> QED
  BY <1>1, <1>2, <1>3, HeadSteps, AnchorsKeptOrLost

\* A pointer to a record goes on to point to it.
LEMMA PointerKept ==
    ASSUME TypeInv, [FactomSyncNext]_factomSyncVars, NEW r \in Nat, NEW id,
           BlockExists(r), id \in EntriesIn(r)
    PROVE  /\ r < Len(dblocks')
           /\ id \in dblocks'[r + 1]
           /\ entries'[id] = entries[id]
BY EntriesKept DEF BlockExists

\* A record is saved with the block it is in, and that block stays.
LEMMA NextRecordPointsIntoChain ==
    ASSUME TypeInv, OrderInv, RecordPointsIntoChain,
           [FactomSyncNext]_factomSyncVars
    PROVE  RecordPointsIntoChain'
<1>a. anchorData \in [Height -> AnchorData \cup {Nil}]
  BY DEF TypeInv, FactomSyncTypeOK, DatabaseTypeOK
<1> SUFFICES ASSUME NEW h \in Height, NEW n \in Networks,
                    Known(h)', anchorData'[h][n].rec > 0
             PROVE  LET a == anchorData'[h][n] IN
                    /\ a.rec < Len(dblocks')
                    /\ a.entry \in dblocks'[a.rec + 1]
                    /\ entries'[a.entry] = [h |-> h, net |-> n, txid |-> a.txid,
                                            block |-> a.block, kind |-> "anchor"]
  BY DEF RecordPointsIntoChain, BlockExists, EntriesIn
\* It is enough that the anchor is an old one.
<1>b. ASSUME Known(h), anchorData'[h][n] = anchorData[h][n]
      PROVE  LET a == anchorData'[h][n] IN
             /\ a.rec < Len(dblocks')
             /\ a.entry \in dblocks'[a.rec + 1]
             /\ entries'[a.entry] = [h |-> h, net |-> n, txid |-> a.txid,
                                     block |-> a.block, kind |-> "anchor"]
  <2> DEFINE a == anchorData[h][n]
  <2>1. a \in NetAnchor
    BY <1>a, <1>b, KnownData DEF AnchorData
  <2>2. a.rec \in Nat
    BY <2>1, DatabaseAssumption DEF NetAnchor, Height
  <2>3. /\ BlockExists(a.rec) /\ a.entry \in EntriesIn(a.rec)
        /\ entries[a.entry] = [h |-> h, net |-> n, txid |-> a.txid,
                               block |-> a.block, kind |-> "anchor"]
    BY <1>b DEF RecordPointsIntoChain
  <2> HIDE DEF a
  <2>4. /\ a.rec < Len(dblocks')
        /\ a.entry \in dblocks'[a.rec + 1]
        /\ entries'[a.entry] = entries[a.entry]
    BY <2>2, <2>3, PointerKept
  <2> QED
    BY <1>b, <2>3, <2>4 DEF a
<1>1. CASE UNCHANGED anchorData
  BY <1>1, <1>b DEF Known, FetchAnchorData
<1>2. ASSUME pc = "entries", NEW id \in todo, SaveRecord(id), UNCHANGED factomVars
      PROVE  LET a == anchorData'[h][n] IN
             /\ a.rec < Len(dblocks')
             /\ a.entry \in dblocks'[a.rec + 1]
             /\ entries'[a.entry] = [h |-> h, net |-> n, txid |-> a.txid,
                                     block |-> a.block, kind |-> "anchor"]
  <2> DEFINE e == entries[id]
             r == [txid |-> e.txid, block |-> e.block, entry |-> id, rec |-> cur]
  <2>1. /\ id \in EntriesIn(cur) /\ cur < Len(dblocks)
        /\ e \in Entry /\ e.h \in Height /\ e.net \in Networks
        /\ anchorData' = [anchorData EXCEPT ![e.h] = [anchorData[e.h] EXCEPT ![e.net] = r]]
    BY <1>2, SavedRecord DEF Entry
  <2>2. Known(e.h) /\ anchorData[e.h] \in AnchorData /\ e.kind = "anchor"
    BY <1>a, <1>2, KnownData DEF SaveRecord
  <2>3. CASE h = e.h /\ n = e.net
    <3>1. anchorData'[h][n] = r
      BY <1>a, <2>1, <2>2, <2>3 DEF AnchorData
    <3>2. e = [h |-> e.h, net |-> e.net, txid |-> e.txid, block |-> e.block,
               kind |-> e.kind]
      BY <2>1 DEF Entry
    <3>3. /\ r.rec = cur /\ r.entry = id /\ r.txid = e.txid /\ r.block = e.block
      OBVIOUS
    <3>4. entries' = entries /\ dblocks' = dblocks /\ dblocks[cur + 1] = EntriesIn(cur)
      BY <1>2 DEF factomVars, EntriesIn
    <3> HIDE DEF r
    <3> QED
      BY <2>1, <2>2, <2>3, <3>1, <3>2, <3>3, <3>4
  <2>4. CASE ~(h = e.h /\ n = e.net)
    <3>1. anchorData'[h][n] = anchorData[h][n]
      BY <1>a, <2>1, <2>2, <2>4 DEF AnchorData
    <3>2. Known(h)
      BY <1>a, <2>1, <2>2 DEF Known, FetchAnchorData
    <3> QED
      BY <1>b, <3>1, <3>2
  <2> QED
    BY <2>3, <2>4
<1>3. CASE InsertDBlock
  <2>1. CASE UNCHANGED anchorData
    BY <1>1, <2>1
  <2>2. CASE ~Known(cur) /\ InsertAnchorData(cur, NewAnchorData)
    <3>1. CASE h = cur
      <4>1. anchorData'[h][n].rec = 0
        BY <1>a, <2>2, <3>1 DEF InsertAnchorData, NewAnchorData
      <4> QED
        BY <4>1
    <3>2. CASE h # cur
      <4>1. anchorData'[h] = anchorData[h]
        BY <1>a, <2>2, <3>2 DEF InsertAnchorData
      <4> QED
        BY <1>b, <4>1 DEF Known, FetchAnchorData
    <3> QED
      BY <3>1, <3>2
  <2> QED
    BY <1>3, <2>1, <2>2 DEF InsertDBlock
<1>4. CASE FillAnchor
  <2>1. PICK k \in Height, t \in Ids, b \in Ids \cup {0}, e \in Ids \cup {0} :
            /\ Known(k)
            /\ anchorData' = [anchorData EXCEPT ![k] =
                [anchorData[k] EXCEPT !["Bitcoin"] =
                    [txid |-> t, block |-> b, entry |-> e, rec |-> 0]]]
    BY <1>4, FilledAnchor
  <2>2. anchorData[k] \in AnchorData
    BY <1>a, <2>1, KnownData
  <2>3. CASE h = k /\ n = "Bitcoin"
    <3>1. anchorData'[h][n].rec = 0
      BY <1>a, <2>1, <2>2, <2>3 DEF AnchorData
    <3> QED
      BY <3>1
  <2>4. CASE ~(h = k /\ n = "Bitcoin")
    <3>1. anchorData'[h][n] = anchorData[h][n]
      BY <1>a, <2>1, <2>2, <2>4 DEF AnchorData
    <3>2. Known(h)
      BY <1>a, <2>1, <2>2 DEF Known, FetchAnchorData
    <3> QED
      BY <1>b, <3>1, <3>2
  <2> QED
    BY <2>3, <2>4
<1>5. CASE Restart
  BY <1>1, <1>5, RestartSteps DEF dbVars, DatabaseLost
<1> QED
  BY <1>1, <1>2, <1>3, <1>4, <1>5, DataSteps

-----------------------------------------------------------------------------
(* What was read. *)

\* A record that is stored stays stored.
LEMMA RecordedKept ==
    ASSUME TypeInv, [FactomSyncNext]_factomSyncVars, AnchorsKept,
           NEW id \in DOMAIN entries, Recorded(id)
    PROVE  Recorded(id)'
<1>1. entries \in Seq(Entry)
  BY DEF TypeInv, FactomSyncTypeOK, FactomTypeOK
<1>2. entries[id] \in Entry
  BY <1>1
<1>3. entries[id].h \in Height /\ entries[id].net \in Networks
  BY <1>2 DEF Entry
<1>4. entries'[id] = entries[id]
  BY ChainKept
<1> QED
  BY <1>3, <1>4 DEF Recorded, AnchorsKept

\* A block that was read, with its records, stays so.
LEMMA CoveredKept ==
    ASSUME TypeInv, [FactomSyncNext]_factomSyncVars, AnchorsKept,
           NEW b \in Nat, b < Len(dblocks), Covered(b)
    PROVE  Covered(b)'
<1>1. dblocks'[b + 1] = EntriesIn(b) /\ EntriesIn(b) \subseteq DOMAIN entries
  BY EntriesKept
<1>2. Known(b)'
  BY DEF Covered, AnchorsKept, Known, FetchAnchorData
<1>3. ASSUME NEW id \in EntriesIn(b)
      PROVE  Recorded(id)'
  BY <1>1, <1>3, RecordedKept DEF Covered
<1> QED
  BY <1>1, <1>2, <1>3 DEF Covered, EntriesIn

\* The checkpoint moves at the end of a block, or is lost.
LEMMA CheckpointSteps ==
    ASSUME [FactomSyncNext]_factomSyncVars
    PROVE  \/ UNCHANGED lastFactom
           \/ SaveFactomState
           \/ DatabaseLost
<1>1. CASE SyncFactom \/ FetchDBlock \/ FetchDone \/ InsertDBlock \/ UpdateHead
  BY <1>1
  DEF SyncFactom, FetchDBlock, FetchDone, InsertDBlock, UpdateHead, dbVars
<1>2. CASE ProcessEntry
  BY <1>2 DEF ProcessEntry, SkipEntry, RecordOfUnknownBlock, SaveRecord, dbVars
<1>3. CASE FactomSyncFails \/ CloseBlock \/ SignerReveals \/ RestOfLoopSteps
             \/ RestOfLoopFails \/ CallAgain
  BY <1>3
  DEF FactomSyncFails, CloseBlock, SignerReveals, RestOfLoopSteps,
      RestOfLoopFails, CallAgain, dbVars
<1>4. CASE Restart
  BY <1>4, RestartSteps DEF dbVars
<1>5. CASE UNCHANGED factomSyncVars
  BY <1>5 DEF factomSyncVars, dbVars
<1> QED
  BY <1>1, <1>2, <1>3, <1>4, <1>5 DEF FactomSyncNext, SynchronizeFactomData

\* Nothing has to be read at first.
LEMMA InitCoverInv == FactomSyncInit => CoverInv
BY DEF FactomSyncInit, DatabaseInit, CoverInv, CheckpointCovered, ListCovered,
       Reading, InBlock

\* What ListInChain and ListCovered say while the list is read.
LEMMA ReadingFacts ==
    ASSUME TypeInv, CoverInv
    PROVE  /\ cur \in Nat /\ lastFactom \in Nat /\ Len(dblocks) \in Nat
           /\ pc \in Reading =>
                /\ lastFactom <= cur
                /\ \A b \in 0..(cur - 1) : b \in Nat /\ b < Len(dblocks) /\ Covered(b)
           /\ pc \in InBlock => cur < Len(dblocks)
           /\ lastFactom > 0 =>
                \A b \in 0..lastFactom : b \in Nat /\ b < Len(dblocks) /\ Covered(b)
BY DatabaseAssumption
DEF TypeInv, FactomSyncTypeOK, DatabaseTypeOK, FactomTypeOK, Height, ListInChain,
    CoverInv, CheckpointCovered, ListCovered, Reading, InBlock

\* The checkpoint moves to a block that was covered.
LEMMA NextCheckpointCovered ==
    ASSUME TypeInv, OrderInv, CoverInv, [FactomSyncNext]_factomSyncVars
    PROVE  CheckpointCovered'
<1>1. CASE DatabaseLost
  BY <1>1 DEF DatabaseLost, CheckpointCovered
<1>2. CASE AnchorsKept /\ UNCHANGED lastFactom
  BY <1>2, ReadingFacts, CoveredKept DEF CheckpointCovered
<1>3. CASE AnchorsKept /\ SaveFactomState
  <2>1. pc = "state" /\ lastFactom' = cur
    BY <1>3 DEF SaveFactomState
  <2>2. \A b \in 0..cur : b \in Nat /\ b < Len(dblocks) /\ Covered(b)
    <3>1. pc \in Reading /\ pc \in InBlock
      BY <2>1 DEF Reading, InBlock
    <3>2. Covered(cur)
      BY <2>1 DEF CoverInv, ListCovered
    <3>3. \A b \in 0..cur : b = cur \/ b \in 0..(cur - 1)
      BY ReadingFacts
    <3> QED
      BY <3>1, <3>2, <3>3, ReadingFacts
  <2> QED
    BY <1>3, <2>1, <2>2, CoveredKept DEF CheckpointCovered
<1> QED
  BY <1>1, <1>2, <1>3, AnchorsKeptOrLost, CheckpointSteps

\* A step that stays in the block being processed keeps what was read before.
LEMMA BeforeCurKept ==
    ASSUME TypeInv, CoverInv, [FactomSyncNext]_factomSyncVars, AnchorsKept,
           pc \in Reading, cur' = cur, lastFactom' = lastFactom
    PROVE  lastFactom' <= cur' /\ \A b \in 0..(cur' - 1) : Covered(b)'
BY ReadingFacts, CoveredKept

\* Every step of the list covers what it goes past.
LEMMA NextListCovered ==
    ASSUME TypeInv, OrderInv, CoverInv, [FactomSyncNext]_factomSyncVars
    PROVE  ListCovered'
<1> USE DEF ListCovered
<1>a. "fetch" \in Reading /\ "entries" \in Reading /\ "head" \in Reading
      /\ "state" \in Reading /\ InBlock = {"entries", "head", "state"}
      /\ Reading = {"fetch", "entries", "head", "state"}
  BY DEF Reading, InBlock
<1>1. CASE pc' \notin Reading
  BY <1>a, <1>1
<1>2. CASE DatabaseLost
  BY <1>2, <1>a DEF DatabaseLost
<1>3. CASE AnchorsKept /\ SyncFactom
  <2>1. /\ cur' = IF lastFactom > 0 THEN lastFactom + 1 ELSE 0
        /\ lastFactom' = lastFactom
        /\ pc' = "fetch"
    BY <1>3 DEF SyncFactom, Normally, Goto, dbVars
  <2>2. \A b \in 0..(cur' - 1) : b \in Nat /\ b < Len(dblocks) /\ Covered(b)
    BY <2>1, ReadingFacts
  <2>3. \A b \in 0..(cur' - 1) : Covered(b)'
    BY <1>3, <2>2, CoveredKept
  <2> QED
    BY <2>1, <2>3, ReadingFacts
<1>4. CASE AnchorsKept /\ FetchDBlock
  <2>1. pc = "fetch" /\ pc' = "fetch" /\ cur' = cur /\ lastFactom' = lastFactom
    BY <1>4 DEF FetchDBlock, processVars, dbVars
  <2> QED
    BY <1>4, <1>a, <2>1, BeforeCurKept
<1>5. CASE AnchorsKept /\ FetchDone
  <2>1. pc = "fetch" /\ cur' = cur /\ lastFactom' = lastFactom
    BY <1>5 DEF FetchDone, dbVars
  <2>2. CASE pc' = "entries"
    <3>1. todo' = EntriesIn(cur) /\ dblocks' = dblocks
      BY <1>5, <2>2 DEF FetchDone, Normally, Goto, factomVars
    <3>2. EntriesIn(cur)' = todo'
      BY <2>1, <3>1 DEF EntriesIn
    <3> QED
      BY <1>5, <1>a, <2>1, <2>2, <3>2, BeforeCurKept
  <2>3. CASE pc' # "entries"
    BY <1>1, <1>5, <2>3, <1>a DEF FetchDone, Normally, Goto
  <2> QED
    BY <2>2, <2>3
<1>6. CASE AnchorsKept /\ ProcessEntry
  <2>1. PICK id \in todo :
          /\ SkipEntry(id) \/ SaveRecord(id) \/ RecordOfUnknownBlock(id)
          /\ todo' = todo \ {id}
    BY <1>6 DEF ProcessEntry
  <2>2. pc = "entries" /\ cur' = cur /\ UNCHANGED factomVars
    BY <1>6 DEF ProcessEntry
  <2>3. CASE RecordOfUnknownBlock(id)
    BY <1>1, <1>a, <2>3 DEF RecordOfUnknownBlock, Normally, Goto
  <2>4. CASE SkipEntry(id) \/ SaveRecord(id)
    <3>1. pc' = "entries" /\ lastFactom' = lastFactom
      BY <2>2, <2>4 DEF SkipEntry, SaveRecord, processVars, dbVars
    <3>2. Recorded(id)'
      <4>1. CASE SkipEntry(id)
        BY <2>2, <4>1 DEF SkipEntry, Recorded, factomVars
      <4>2. CASE SaveRecord(id)
        <5> DEFINE e == entries[id]
        <5>1. /\ e.h \in Height /\ e.net \in Networks /\ cur > 0
              /\ anchorData' = [anchorData EXCEPT ![e.h] =
                   [anchorData[e.h] EXCEPT ![e.net] =
                      [txid |-> e.txid, block |-> e.block, entry |-> id, rec |-> cur]]]
          BY <2>2, <4>2, SavedRecord, DatabaseAssumption DEF Entry, Height
        <5>2. anchorData \in [Height -> AnchorData \cup {Nil}]
          BY DEF TypeInv, FactomSyncTypeOK, DatabaseTypeOK
        <5>3. Known(e.h) /\ anchorData[e.h] \in AnchorData
          BY <4>2, <5>2, KnownData DEF SaveRecord
        <5>4. anchorData'[e.h][e.net].rec > 0
          BY <5>1, <5>2, <5>3 DEF AnchorData
        <5>5. entries' = entries
          BY <2>2 DEF factomVars
        <5>6. Known(e.h)'
          BY <1>6, <5>1, <5>3, <5>5 DEF AnchorsKept, Known, FetchAnchorData
        <5> QED
          BY <5>4, <5>5, <5>6 DEF Recorded
      <4> QED
        BY <2>4, <4>1, <4>2
    <3>3. ASSUME NEW i \in EntriesIn(cur) \ todo
          PROVE  Recorded(i)'
      <4>1. Recorded(i)
        BY <2>2 DEF CoverInv
      <4>2. i \in DOMAIN entries
        BY <1>a, <2>2, ReadingFacts, EntriesKept
      <4> QED
        BY <1>6, <4>1, <4>2, RecordedKept
    <3>4. EntriesIn(cur)' = EntriesIn(cur)
      BY <2>2 DEF EntriesIn, factomVars
    <3>5. \A i \in EntriesIn(cur)' \ todo' : Recorded(i)'
      BY <2>1, <3>2, <3>3, <3>4
    <3>6. lastFactom' <= cur' /\ \A b \in 0..(cur' - 1) : Covered(b)'
      BY <1>6, <1>a, <2>2, <3>1, BeforeCurKept
    <3> QED
      BY <3>1, <3>5, <3>6
  <2> QED
    BY <2>1, <2>3, <2>4
<1>7. CASE AnchorsKept /\ InsertDBlock
  <2>1. /\ pc = "entries" /\ pc' = "head" /\ todo = {}
        /\ cur' = cur /\ lastFactom' = lastFactom /\ UNCHANGED factomVars
    BY <1>7 DEF InsertDBlock, Normally, Goto
  <2>2. lastFactom' <= cur' /\ \A b \in 0..(cur' - 1) : Covered(b)'
    BY <1>7, <1>a, <2>1, BeforeCurKept
  <2>3. \A i \in EntriesIn(cur) : Recorded(i)'
    <3>1. \A i \in EntriesIn(cur) : Recorded(i) /\ i \in DOMAIN entries
      BY <1>a, <2>1, ReadingFacts, EntriesKept DEF CoverInv
    <3> QED
      BY <1>7, <3>1, RecordedKept
  <2>4. Known(cur)'
    <3>1. cur \in Height /\ anchorData \in [Height -> AnchorData \cup {Nil}]
      BY <2>1, <1>a, DatabaseAssumption
      DEF TypeInv, FactomSyncTypeOK, DatabaseTypeOK, FactomTypeOK, ListInChain, Height
    <3>2. NewAnchorData # Nil
      BY NewAnchorDataType, NilAssumption
    <3> QED
      BY <1>7, <2>1, <3>1, <3>2
      DEF InsertDBlock, InsertAnchorData, Known, FetchAnchorData
  <2>5. Covered(cur)'
    BY <2>1, <2>3, <2>4 DEF Covered, EntriesIn, factomVars
  <2> QED
    BY <2>1, <2>2, <2>5
<1>8. CASE AnchorsKept /\ UpdateHead
  <2>1. /\ pc = "head" /\ cur' = cur /\ lastFactom' = lastFactom
        /\ pc' \in {"state", "panic"}
    BY <1>8 DEF UpdateHead, Normally, Goto, syncVars
  <2>2. lastFactom' <= cur' /\ \A b \in 0..(cur' - 1) : Covered(b)'
    BY <1>8, <1>a, <2>1, BeforeCurKept
  <2>3. Covered(cur) /\ cur \in Nat /\ cur < Len(dblocks)
    BY <1>a, <2>1, ReadingFacts DEF CoverInv
  <2>4. \A b \in {cur} : Covered(b)'
    BY <1>8, <2>3, CoveredKept
  <2>5. Covered(cur)'
    BY <2>1, <2>4 DEF Covered, Known, FetchAnchorData, EntriesIn
  <2> QED
    BY <2>1, <2>2, <2>5, <1>a
<1>9. CASE AnchorsKept /\ SaveFactomState
  <2>1. pc = "state" /\ lastFactom' = cur /\ cur' = cur + 1 /\ UNCHANGED factomVars
    BY <1>9 DEF SaveFactomState
  <2>2. CASE pc' = "entries"
    <3>1. todo' = EntriesIn(cur + 1)
      BY <1>9, <2>2 DEF SaveFactomState, Normally, Goto
    <3>2. EntriesIn(cur)' = todo'
      BY <2>1, <3>1 DEF EntriesIn, factomVars
    <3>3. \A b \in 0..cur : b \in Nat /\ b < Len(dblocks) /\ Covered(b)
      <4>1. \A b \in 0..cur : b = cur \/ b \in 0..(cur - 1)
        BY ReadingFacts
      <4>2. Covered(cur)
        BY <2>1 DEF CoverInv
      <4> QED
        BY <1>a, <2>1, <4>1, <4>2, ReadingFacts
    <3>4. \A b \in 0..cur : Covered(b)'
      BY <1>9, <3>3, CoveredKept
    <3>5. lastFactom' <= cur' /\ cur' - 1 = cur
      BY <2>1, ReadingFacts
    <3> QED
      BY <2>2, <3>2, <3>4, <3>5
  <2>3. CASE pc' # "entries"
    BY <1>1, <1>9, <2>3, <1>a DEF SaveFactomState, Normally, Goto
  <2> QED
    BY <2>2, <2>3
<1>10. CASE AnchorsKept /\ UNCHANGED <<processVars, dbVars, syncVars>>
  <2>1. pc' = pc /\ cur' = cur /\ lastFactom' = lastFactom /\ todo' = todo
    BY <1>10 DEF processVars, dbVars, syncVars
  <2>2. CASE pc \in Reading
    <3>1. lastFactom' <= cur' /\ \A b \in 0..(cur' - 1) : Covered(b)'
      BY <1>10, <2>1, <2>2, BeforeCurKept
    <3>2. pc \in InBlock => EntriesIn(cur)' = EntriesIn(cur)
                            /\ EntriesIn(cur) \subseteq DOMAIN entries
      BY <2>1, ReadingFacts, EntriesKept DEF EntriesIn
    <3>3. pc = "entries" => \A i \in EntriesIn(cur) \ todo : Recorded(i)'
      BY <1>10, <1>a, <3>2, RecordedKept DEF CoverInv
    <3>4. pc \in {"head", "state"} => \A b \in {cur} : Covered(b)'
      BY <1>10, <1>a, ReadingFacts, CoveredKept DEF CoverInv
    <3>5. pc \in {"head", "state"} => Covered(cur)'
      BY <2>1, <3>4 DEF Covered, Known, FetchAnchorData, EntriesIn
    <3> QED
      BY <2>1, <1>a, <3>1, <3>2, <3>3, <3>5
  <2>3. CASE pc \notin Reading
    BY <1>1, <2>1, <2>3
  <2> QED
    BY <2>2, <2>3
<1> QED
  <2>1. CASE FactomSyncFails \/ RestOfLoopSteps \/ RestOfLoopFails \/ CallAgain \/ Restart
    BY <1>1, <2>1, <1>a
    DEF FactomSyncFails, RestOfLoopSteps, RestOfLoopFails, CallAgain, Restart,
        Normally, FailedCall, Failed, Fault, Goto
  <2>2. CASE CloseBlock \/ SignerReveals \/ UNCHANGED factomSyncVars
    BY <1>2, <1>10, <2>2, AnchorsKeptOrLost
    DEF CloseBlock, SignerReveals, factomSyncVars
  <2> QED
    BY <1>2, <1>3, <1>4, <1>5, <1>6, <1>7, <1>8, <1>9, <2>1, <2>2,
       AnchorsKeptOrLost
    DEF FactomSyncNext, SynchronizeFactomData

-----------------------------------------------------------------------------
(* What was not read. *)

\* Nothing is known at first.
LEMMA InitReadUpTo == FactomSyncInit => ReadUpTo
BY DEF FactomSyncInit, DatabaseInit, ReadUpTo, Known, FetchAnchorData, Reading, InBlock

\* No step learns of a block more than one beyond the checkpoint.
LEMMA NextReadUpTo ==
    ASSUME TypeInv, OrderInv, CoverInv, ReadUpTo,
           [FactomSyncNext]_factomSyncVars
    PROVE  ReadUpTo'
<1>a. /\ anchorData \in [Height -> AnchorData \cup {Nil}]
      /\ cur \in Nat /\ lastFactom \in Nat
      /\ InBlock = {"entries", "head", "state"}
      /\ Reading = {"fetch", "entries", "head", "state"}
  BY DatabaseAssumption
  DEF TypeInv, FactomSyncTypeOK, DatabaseTypeOK, Height, Reading, InBlock
<1>1. CASE DatabaseLost
  BY <1>1, <1>a DEF DatabaseLost, ReadUpTo
<1>2. ASSUME ~DatabaseLost
      PROVE  lastFactom <= lastFactom' /\ lastFactom' \in Nat
  BY <1>2, <1>a, CheckpointSteps, ReadingFacts
  DEF SaveFactomState, Reading, InBlock
\* The stored heights: an anchor that did not change needs no look.
<1>3. ASSUME ~DatabaseLost, NEW h \in Height, Known(h)',
             \/ Known(h) /\ UNCHANGED <<anchorData, lastFactom>>
             \/ Known(h) /\ anchorData'[h] = anchorData[h]
      PROVE  h <= lastFactom' + 1 /\ \A n \in Networks : anchorData'[h][n].rec <= lastFactom' + 1
  <2>1. \A n \in Networks : anchorData[h][n].rec \in Nat
    BY <1>a, <1>3, KnownData, DatabaseAssumption DEF AnchorData, NetAnchor, Height
  <2>2. h \in Nat
    BY DatabaseAssumption DEF Height
  <2> QED
    BY <1>2, <1>3, <1>a, <2>1, <2>2 DEF ReadUpTo
<1>4. ASSUME ~DatabaseLost, NEW h \in Height, Known(h)'
      PROVE  h <= lastFactom' + 1 /\ \A n \in Networks : anchorData'[h][n].rec <= lastFactom' + 1
  <2>1. CASE UNCHANGED anchorData
    BY <1>3, <1>4, <2>1 DEF Known, FetchAnchorData
  <2>2. ASSUME pc = "entries", UNCHANGED lastFactom, NEW id \in todo, SaveRecord(id)
        PROVE  h <= lastFactom' + 1
               /\ \A n \in Networks : anchorData'[h][n].rec <= lastFactom' + 1
    <3> DEFINE e == entries[id]
    <3>1. /\ e.h \in Height /\ e.net \in Networks
          /\ anchorData' = [anchorData EXCEPT ![e.h] =
               [anchorData[e.h] EXCEPT ![e.net] =
                  [txid |-> e.txid, block |-> e.block, entry |-> id, rec |-> cur]]]
      BY <2>2, SavedRecord DEF Entry
    <3>2. Known(e.h) /\ anchorData[e.h] \in AnchorData
      BY <2>2, <1>a, KnownData DEF SaveRecord
    <3>3. CASE h = e.h
      <4>1. \A n \in Networks : anchorData'[h][n].rec \in {cur, anchorData[h][n].rec}
        BY <1>a, <3>1, <3>2, <3>3 DEF AnchorData
      <4>2. cur <= lastFactom + 1
        BY <1>a, <2>2 DEF ReadUpTo
      <4>3. h <= lastFactom + 1 /\ \A n \in Networks : anchorData[h][n].rec <= lastFactom + 1
        BY <3>2, <3>3 DEF ReadUpTo
      <4> QED
        BY <2>2, <4>1, <4>2, <4>3
    <3>4. CASE h # e.h
      <4>1. anchorData'[h] = anchorData[h]
        BY <1>a, <3>1, <3>4
      <4> QED
        BY <1>3, <1>4, <4>1 DEF Known, FetchAnchorData
    <3> QED
      BY <3>3, <3>4
  <2>3. CASE InsertDBlock /\ UNCHANGED lastFactom
    <3>1. CASE Known(cur) /\ UNCHANGED anchorData
      BY <2>1, <3>1
    <3>2. CASE ~Known(cur) /\ InsertAnchorData(cur, NewAnchorData)
      <4>1. CASE h = cur
        <5>1. \A n \in Networks : anchorData'[h][n].rec = 0
          BY <1>a, <3>2, <4>1 DEF InsertAnchorData, NewAnchorData
        <5>2. cur <= lastFactom + 1
          BY <1>a, <2>3 DEF ReadUpTo, InsertDBlock
        <5> QED
          BY <1>a, <2>3, <4>1, <5>1, <5>2
      <4>2. CASE h # cur
        <5>1. anchorData'[h] = anchorData[h]
          BY <1>a, <3>2, <4>2 DEF InsertAnchorData
        <5> QED
          BY <1>3, <1>4, <5>1 DEF Known, FetchAnchorData
      <4> QED
        BY <4>1, <4>2
    <3> QED
      BY <2>3, <3>1, <3>2 DEF InsertDBlock
  <2>4. CASE FillAnchor /\ UNCHANGED lastFactom
    <3>1. PICK k \in Height, t \in Ids, b \in Ids \cup {0}, e \in Ids \cup {0} :
            /\ Known(k)
            /\ anchorData' = [anchorData EXCEPT ![k] =
                [anchorData[k] EXCEPT !["Bitcoin"] =
                    [txid |-> t, block |-> b, entry |-> e, rec |-> 0]]]
      BY <2>4, FilledAnchor
    <3>2. anchorData[k] \in AnchorData
      BY <1>a, <3>1, KnownData
    <3>3. CASE h = k
      <4>1. \A n \in Networks : anchorData'[h][n].rec \in {0, anchorData[h][n].rec}
        BY <1>a, <3>1, <3>2, <3>3 DEF AnchorData
      <4>2. h <= lastFactom + 1 /\ \A n \in Networks : anchorData[h][n].rec <= lastFactom + 1
        BY <3>1, <3>3 DEF ReadUpTo
      <4> QED
        BY <1>a, <2>4, <4>1, <4>2
    <3>4. CASE h # k
      <4>1. anchorData'[h] = anchorData[h]
        BY <1>a, <3>1, <3>4
      <4> QED
        BY <1>3, <1>4, <4>1 DEF Known, FetchAnchorData
    <3> QED
      BY <3>3, <3>4
  <2>5. CASE Restart
    BY <1>4, <2>1, <2>5, RestartSteps DEF dbVars
  <2> QED
    BY <2>1, <2>2, <2>3, <2>4, <2>5, DataSteps
\* Where the list stands.
<1>5. ASSUME ~DatabaseLost, pc' \in Reading
      PROVE  cur' = lastFactom' + 1 \/ (lastFactom' = 0 /\ cur' = 0)
  <2>1. CASE pc \in Reading /\ cur' = cur /\ lastFactom' = lastFactom
    BY <2>1 DEF ReadUpTo
  <2>2. CASE SyncFactom
    BY <1>a, <2>2 DEF SyncFactom, dbVars
  <2>3. CASE SaveFactomState
    BY <2>3 DEF SaveFactomState
  <2>4. CASE FetchDBlock \/ FetchDone \/ ProcessEntry \/ InsertDBlock \/ UpdateHead
    <3>1. pc \in Reading /\ cur' = cur
      BY <1>a, <2>4
      DEF FetchDBlock, FetchDone, ProcessEntry, InsertDBlock, UpdateHead, syncVars
    <3>2. lastFactom' = lastFactom
      BY <2>4
      DEF FetchDBlock, FetchDone, ProcessEntry, SkipEntry, SaveRecord,
          RecordOfUnknownBlock, InsertDBlock, UpdateHead, dbVars
    <3> QED
      BY <2>1, <3>1, <3>2
  <2>5. CASE CloseBlock \/ SignerReveals \/ UNCHANGED factomSyncVars
    BY <1>5, <2>1, <2>5
    DEF CloseBlock, SignerReveals, factomSyncVars, processVars, dbVars, syncVars
  <2>6. CASE FactomSyncFails \/ RestOfLoopSteps \/ RestOfLoopFails \/ CallAgain \/ Restart
    BY <1>5, <1>a, <2>6
    DEF FactomSyncFails, RestOfLoopSteps, RestOfLoopFails, CallAgain, Restart,
        Normally, FailedCall, Failed, Fault, Goto
  <2> QED
    BY <2>2, <2>3, <2>4, <2>5, <2>6 DEF FactomSyncNext, SynchronizeFactomData
<1> QED
  BY <1>1, <1>4, <1>5 DEF ReadUpTo

-----------------------------------------------------------------------------
(* Panics. *)

\* The head update reads past the last known block only when block 0 is
\* replayed.
LEMMA ScanPanics ==
    ASSUME TypeInv, OrderInv, HeadIsCompletePrefix, RecordPointsIntoChain,
           CoverInv, ReadUpTo, pc = "head", ScanDereferencesNil
    PROVE  GenesisReplayed
<1>1. /\ pc \in Reading /\ pc \in InBlock
      /\ cur \in Nat /\ lastFactom \in Nat /\ MaxHeight \in Nat
      /\ Height = 0..MaxHeight
      /\ chainHead \in Height \cup {Nil}
      /\ anchorData \in [Height -> AnchorData \cup {Nil}]
  BY ReadingFacts, DatabaseAssumption
  DEF TypeInv, FactomSyncTypeOK, DatabaseTypeOK, Height, Reading, InBlock
<1>2. PICK s \in 0..(MaxHeight + 1) : ScanStopsAt(s) /\ ~Known(s)
  BY DEF ScanDereferencesNil
<1>3. \A k \in 0..(s - 1) : Complete(k)
  BY <1>1, <1>2 DEF ScanStopsAt, AfterHead, HeadIsCompletePrefix
<1>4. s > cur
  <2>1. \A k \in 0..cur : k = cur \/ k \in 0..(cur - 1)
    BY <1>1
  <2>2. \A k \in 0..cur : Known(k)
    BY <1>1, <2>1, ReadingFacts DEF CoverInv, ListCovered, Covered
  <2> QED
    BY <1>1, <1>2, <2>2
<1> DEFINE h == s - 1
           a == anchorData[h]["Bitcoin"]
<1>5. h \in Height /\ h >= cur /\ Complete(h) /\ Known(h) /\ a.rec > 0
  BY <1>1, <1>3, <1>4 DEF Complete, IsComplete, Known, FetchAnchorData
<1>6. a.rec \in Nat /\ a.rec <= lastFactom + 1
  BY <1>1, <1>5, KnownData DEF AnchorData, NetAnchor, Networks, ReadUpTo
<1>7. /\ BlockExists(a.rec) /\ a.entry \in EntriesIn(a.rec)
      /\ entries[a.entry].h = h /\ entries[a.entry].kind = "anchor"
  <2>1. h \in Height /\ Known(h) /\ anchorData[h]["Bitcoin"].rec > 0
    BY <1>5
  <2> HIDE DEF h
  <2>2. /\ BlockExists(a.rec) /\ a.entry \in EntriesIn(a.rec)
        /\ entries[a.entry] = [h |-> h, net |-> "Bitcoin", txid |-> a.txid,
                               block |-> a.block, kind |-> "anchor"]
    BY <2>1 DEF RecordPointsIntoChain, Networks
  <2> HIDE DEF a
  <2> QED
    BY <2>2
<1> HIDE DEF h, a
<1>8. h + RecordDelay <= a.rec
  <2>1. FactomTypeOK
    BY DEF TypeInv, FactomSyncTypeOK
  <2>2. a.rec + 1 \in DOMAIN dblocks /\ EntriesIn(a.rec) = dblocks[a.rec + 1]
    BY <1>6, <1>7, <2>1, EntriesType DEF BlockExists
  <2>3. Timely(entries[a.entry], (a.rec + 1) - 1)
    BY <1>7, <2>2 DEF OrderInv, RecordsAreLater
  <2>4. (a.rec + 1) - 1 = a.rec
    BY <1>6
  <2> QED
    BY <1>7, <2>3, <2>4 DEF Timely
<1>9. h = 0 /\ lastFactom = 0 /\ RecordDelay = 1
  <2>1. cur = lastFactom + 1 \/ (lastFactom = 0 /\ cur = 0)
    BY <1>1 DEF ReadUpTo
  <2>2. h \in Nat
    BY <1>1, <1>5
  <2> QED
    BY <1>1, <1>5, <1>6, <1>8, <2>1, <2>2, RecordDelayAssumption
<1> QED
  BY <1>5, <1>9 DEF GenesisReplayed

\* A record of an unknown block is a stray one.
LEMMA RecordPanics ==
    ASSUME TypeInv, OrderInv, CoverInv, pc = "entries",
           NEW id \in todo, RecordOfUnknownBlock(id)
    PROVE  RecordAhead
<1>1. /\ pc \in Reading /\ pc \in InBlock
      /\ cur \in Nat /\ cur < Len(dblocks)
      /\ FactomTypeOK /\ id \in DOMAIN entries /\ entries \in Seq(Entry)
  BY ReadingFacts
  DEF TypeInv, FactomSyncTypeOK, FactomTypeOK, Reading, InBlock
<1>2. cur + 1 \in DOMAIN dblocks /\ EntriesIn(cur) = dblocks[cur + 1]
  BY <1>1, EntriesType
<1>3. Timely(entries[id], (cur + 1) - 1) /\ (cur + 1) - 1 = cur
  BY <1>1, <1>2 DEF OrderInv, TodoIsOfCur, RecordsAreLater
<1>4. entries[id] \in Entry
  BY <1>1
<1>5. entries[id].h \in Nat /\ entries[id].kind \in {"anchor", "wrongKeyMR"}
  BY <1>4, DatabaseAssumption DEF Entry, Kinds, Height, RecordOfUnknownBlock
<1>6. ASSUME entries[id].h + RecordDelay <= cur
      PROVE  FALSE
  <2>1. entries[id].h \in 0..(cur - 1)
    BY <1>1, <1>5, <1>6, RecordDelayAssumption
  <2>2. Known(entries[id].h)
    BY <1>1, <2>1, ReadingFacts DEF Covered
  <2> QED
    BY <2>2 DEF RecordOfUnknownBlock
<1>7. entries[id].kind = "wrongKeyMR" /\ StrayRecords
  BY <1>3, <1>5, <1>6, RecordDelayAssumption DEF Timely
<1> QED
  BY <1>1, <1>7 DEF RecordAhead, RecordOfUnknownBlock

\* A panic is of a known sort, and stays of it.
LEMMA NextOnlyKnownPanics ==
    ASSUME IInv, [FactomSyncNext]_factomSyncVars
    PROVE  OnlyKnownPanics'
<1> USE DEF OnlyKnownPanics
<1> SUFFICES ASSUME pc' = "panic"
             PROVE  (GenesisReplayed \/ RecordAhead)'
  OBVIOUS
\* The reasons stay as long as the database does.
<1>1. ASSUME UNCHANGED dbVars, GenesisReplayed \/ RecordAhead
      PROVE  (GenesisReplayed \/ RecordAhead)'
  <2>1. CASE GenesisReplayed
    BY <1>1, <2>1
    DEF GenesisReplayed, Complete, Known, FetchAnchorData, IsComplete, dbVars
  <2>2. CASE RecordAhead
    <3>1. PICK id \in DOMAIN entries :
            entries[id].kind = "wrongKeyMR" /\ ~Known(entries[id].h)
      BY <2>2 DEF RecordAhead
    <3>2. id \in DOMAIN entries' /\ entries'[id] = entries[id]
      BY ChainKept DEF IInv
    <3> QED
      BY <1>1, <2>2, <3>1, <3>2 DEF RecordAhead, Known, FetchAnchorData, dbVars
  <2> QED
    BY <1>1, <2>1, <2>2
<1>2. CASE ProcessEntry
  <2>1. PICK id \in todo :
          SkipEntry(id) \/ SaveRecord(id) \/ RecordOfUnknownBlock(id)
    BY <1>2 DEF ProcessEntry
  <2>2. pc = "entries"
    BY <1>2 DEF ProcessEntry
  <2>3. RecordOfUnknownBlock(id)
    BY <2>1, <2>2 DEF SkipEntry, SaveRecord, processVars
  <2>4. UNCHANGED dbVars
    BY <2>3 DEF RecordOfUnknownBlock
  <2> QED
    BY <1>1, <2>2, <2>3, <2>4, RecordPanics DEF IInv
<1>3. CASE UpdateHead
  <2>1. pc = "head" /\ ScanDereferencesNil /\ UNCHANGED dbVars
    BY <1>3 DEF UpdateHead, Normally, Goto, dbVars
  <2> QED
    BY <1>1, <2>1, ScanPanics DEF IInv
<1>4. CASE CloseBlock \/ SignerReveals \/ UNCHANGED factomSyncVars
  <2>1. pc = "panic" /\ UNCHANGED dbVars
    BY <1>4 DEF CloseBlock, SignerReveals, factomSyncVars, processVars, dbVars
  <2> QED
    BY <1>1, <2>1 DEF IInv
<1>5. ~(SyncFactom \/ FetchDBlock \/ FetchDone \/ InsertDBlock \/ SaveFactomState)
  BY DEF SyncFactom, FetchDBlock, FetchDone, InsertDBlock, SaveFactomState,
         Normally, Goto, processVars
<1>6. ~(FactomSyncFails \/ RestOfLoopSteps \/ RestOfLoopFails \/ CallAgain \/ Restart)
  BY DEF FactomSyncFails, RestOfLoopSteps, RestOfLoopFails, CallAgain, Restart,
         Normally, FailedCall, Failed, Fault, Goto
<1> QED
  BY <1>2, <1>3, <1>4, <1>5, <1>6 DEF FactomSyncNext, SynchronizeFactomData

-----------------------------------------------------------------------------
(* The theorems. *)

\* The inductive invariant holds at first,
LEMMA InitIInv == FactomSyncInit => IInv
<1> SUFFICES ASSUME FactomSyncInit
             PROVE  IInv
  OBVIOUS
<1>1. HeadIsCompletePrefix /\ RecordPointsIntoChain /\ OnlyKnownPanics
  BY DEF FactomSyncInit, DatabaseInit, HeadIsCompletePrefix,
         RecordPointsIntoChain, OnlyKnownPanics, Known, FetchAnchorData
<1> QED
  BY <1>1, InitTypeInv, InitOrderInv, InitCoverInv, InitReadUpTo DEF IInv

\* every step keeps it,
LEMMA NextIInv == IInv /\ [FactomSyncNext]_factomSyncVars => IInv'
BY NextTypeInv, NextOrderInv, NextHeadIsCompletePrefix,
   NextRecordPointsIntoChain, NextCheckpointCovered, NextListCovered,
   NextReadUpTo, NextOnlyKnownPanics
DEF IInv, CoverInv

\* and so it always holds.
LEMMA Invariance == FactomSyncSpec => []IInv
BY InitIInv, NextIInv, PTL DEF FactomSyncSpec

\* Every variable of the synchronization keeps its type: the list of blocks
\* never leaves the chain, and no entry is processed that does not exist.
THEOREM FactomSyncTypeCorrect == FactomSyncSpec => []FactomSyncTypeOK
<1>1. IInv => FactomSyncTypeOK
  BY DEF IInv, TypeInv
<1> QED
  BY <1>1, Invariance, PTL

\* The chain head of the database is only ever moved over blocks that have
\* their record, however reads are replayed and calls fail.
THEOREM HeadIsAlwaysComplete == FactomSyncSpec => []HeadIsCompletePrefix
<1>1. IInv => HeadIsCompletePrefix
  BY DEF IInv
<1> QED
  BY <1>1, Invariance, PTL

\* What SynchronizeFactomData saves as the record of an anchor is a record of
\* that anchor in the directory block it names.
THEOREM RecordsAlwaysPointIntoChain == FactomSyncSpec => []RecordPointsIntoChain
<1>1. IInv => RecordPointsIntoChain
  BY DEF IInv
<1> QED
  BY <1>1, Invariance, PTL

\* Up to LastFactomDBlockHeightChecked no directory block and no record was
\* missed, so a restart may go on after it.
THEOREM CheckpointAlwaysCovers == FactomSyncSpec => []CheckpointCoversRecords
<1>1. IInv => CheckpointCoversRecords
  BY DEF IInv, CoverInv, CheckpointCovered, CheckpointCoversRecords, Covered,
         Recorded
<1> QED
  BY <1>1, Invariance, PTL

\* SynchronizeFactomData reads through a nil pointer in two situations only: a
\* replay of block 0, and a signed record with a wrong KeyMR of a block not read.
THEOREM OnlyKnownPanicsHappen == FactomSyncSpec => []OnlyKnownPanics
<1>1. IInv => OnlyKnownPanics
  BY DEF IInv
<1> QED
  BY <1>1, Invariance, PTL

\* No step takes progress back when the database is stored.
LEMMA NextProgressKept ==
    ASSUME IInv, [FactomSyncNext]_factomSyncVars, Persistent
    PROVE  ProgressKept
<1>1. ~DatabaseLost
  BY DEF DatabaseLost
<1>2. AnchorsKept
  BY <1>1, AnchorsKeptOrLost DEF IInv
<1>3. lastFactom <= lastFactom'
  BY <1>1, CheckpointSteps, ReadingFacts
  DEF IInv, SaveFactomState, Reading, InBlock
<1>4. AfterHead <= AfterHead'
  <2>1. chainHead # Nil => chainHead \in Nat
    BY DatabaseAssumption
    DEF IInv, TypeInv, FactomSyncTypeOK, DatabaseTypeOK, Height
  <2>2. CASE UNCHANGED chainHead
    BY <2>1, <2>2 DEF AfterHead
  <2>3. CASE UpdateAnchorDataHead
    <3>1. PICK s \in Height : /\ AfterHead <= s
                              /\ chainHead' = IF s = 0 THEN Nil ELSE s - 1
      BY <2>3 DEF UpdateAnchorDataHead, ScanStopsAt
    <3>2. s \in Nat /\ (s # 0 => s - 1 \in Height)
      BY DatabaseAssumption DEF Height
    <3>3. AfterHead' = s
      BY <3>1, <3>2, NilAssumption DEF AfterHead
    <3> QED
      BY <3>1, <3>3
  <2> QED
    BY <1>1, <2>2, <2>3, HeadSteps
<1> QED
  BY <1>2, <1>3, <1>4 DEF ProgressKept, AnchorsKept

\* With a stored database, a step of SynchronizeFactomData or a crash between
\* any two of its writes takes back nothing that is known.
THEOREM StoredProgressAlwaysKept == FactomSyncSpec => StoredProgressKept
<1>1. IInv /\ [FactomSyncNext]_factomSyncVars
        => [Persistent => ProgressKept]_factomSyncVars
  BY NextProgressKept
<1> QED
  BY <1>1, Invariance, PTL DEF FactomSyncSpec, StoredProgressKept

=============================================================================

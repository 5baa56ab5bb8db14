------------------------- MODULE EthereumAnchorProofs -------------------------
(***************************************************************************)
(* Proofs about the Ethereum synchronization and anchoring                 *)
(* (EthereumAnchor): this process sends no block twice without a failure   *)
(* in between, no page of transactions is left half read, and what is      *)
(* stored of a transaction is so and is not replaced.                      *)
(***************************************************************************)
EXTENDS EthereumAnchor, AnchorDatabaseProofs, FiniteSetTheorems

-----------------------------------------------------------------------------
(* The inductive invariant. *)

\* The anchor of a block; where a send waits for its hash to be recorded, and the
\* block it was sent for; a transaction whose block has a txid, or that is no anchor.
EthAnchor(h) == anchorData[h]["Ethereum"]
EthRecording == pc \in {"recordNewest", "recordOlder"}
EthTarget == IF pc = "recordNewest" THEN lastFactom ELSE height
EthSettled(id) ==
    ethTx[id].kind = "anchor" => Known(ethTx[id].h) /\ EthAnchor(ethTx[id].h).txid # 0

\* The types, with every id and block number within what there is so far.
EthTypeInv ==
    /\ faults \in 0..MaxFaults
    /\ DatabaseTypeOK
    /\ ethTx \in Seq(EthTx)
    /\ ethPool \subseteq DOMAIN ethTx
    /\ ethBlocks \in Seq(SUBSET DOMAIN ethTx)
    /\ lastEthereum \in 0..(Len(ethBlocks) + 1)
    /\ page \in 0..(Len(ethBlocks) + 1)
    /\ txs \subseteq [id: DOMAIN ethTx, block: DOMAIN ethBlocks]
    /\ height \in 0..(MaxHeight + 1)
    /\ count \in 0..AnchorBatch
    /\ sent \in 0..Len(ethTx)

\* A record comes with a txid.
EthTxidFirst == \A h \in Height : Known(h) /\ EthAnchor(h).rec # 0 => EthAnchor(h).txid # 0

\* A send that waits for its hash was one of a block that needed it.
EthSendingInv ==
    EthRecording =>
        /\ sent # 0
        /\ NeedsEthAnchor(EthTarget)
        /\ pc = "recordOlder" => count < AnchorBatch

\* Every transaction of the present epoch is recorded or about to be.
EthEpochs ==
    \A id \in DOMAIN ethTx : ethTx[id].kind = "anchor" /\ ethTx[id].epoch <= MaxFaults =>
        /\ ethTx[id].epoch <= faults
        /\ ethTx[id].epoch = faults =>
            LET h == ethTx[id].h IN
            Known(h) /\ (EthAnchor(h).txid # 0 \/ (EthRecording /\ h = EthTarget))

\* What the next checked block is to cover is settled or still listed.
EthPageCovers ==
    ~IgnoreWrongEntries /\ Persistent /\ pc = "ethTx" =>
        \A b \in DOMAIN ethBlocks : b < page =>
            \A id \in ethBlocks[b] : EthSettled(id) \/ \E t \in txs : t.id = id

\* All of it: the inductive invariant.
EthereumInv ==
    /\ EthTypeInv
    /\ EthTxidFirst
    /\ EthSendingInv
    /\ EthEpochs
    /\ EthSentOncePerFault
    /\ EthPageCovers
    /\ CheckedEthAnchorsAreKnown

-----------------------------------------------------------------------------
(* Types, and what is never taken back. *)

\* The parts of the types that the proofs need all the time.
LEMMA EthTypes ==
    ASSUME EthTypeInv
    PROVE  /\ anchorData \in [Height -> AnchorData \cup {Nil}] /\ faults \in Nat
           /\ MaxHeight \in Nat /\ AnchorBatch \in Nat
           /\ Len(ethTx) \in Nat /\ DOMAIN ethTx = 1..Len(ethTx)
           /\ Len(ethBlocks) \in Nat /\ DOMAIN ethBlocks = 1..Len(ethBlocks)
           /\ \A id \in DOMAIN ethTx : ethTx[id].h \in Height /\ ethTx[id].epoch \in Nat
           /\ \A b \in DOMAIN ethBlocks : ethBlocks[b] \subseteq DOMAIN ethTx
           /\ \A t \in txs : t.id \in DOMAIN ethTx /\ t.block \in DOMAIN ethBlocks
<1>1. \A id \in DOMAIN ethTx : ethTx[id].h \in Height /\ ethTx[id].epoch \in Nat
  <2>1. \A id \in DOMAIN ethTx : ethTx[id] \in EthTx
    BY ElementType DEF EthTypeInv
  <2> QED
    BY <2>1 DEF EthTx
<1>2. \A b \in DOMAIN ethBlocks : ethBlocks[b] \subseteq DOMAIN ethTx
  BY ElementType DEF EthTypeInv
<1> QED
  BY <1>1, <1>2, FaultAssumption, DatabaseAssumption DEF EthTypeInv, DatabaseTypeOK

\* Ethereum keeps its transactions and blocks, a database on disk its hashes.
EthKept ==
    /\ Len(ethBlocks) <= Len(ethBlocks')
    /\ \A id \in DOMAIN ethTx : id \in DOMAIN ethTx' /\ ethTx'[id] = ethTx[id]
    /\ \A b \in DOMAIN ethBlocks : ethBlocks'[b] = ethBlocks[b]
    /\ \A b \in DOMAIN ethBlocks' : b \in DOMAIN ethBlocks \/ b = Len(ethBlocks) + 1
HashesKept ==
    Persistent => \A h \in Height :
        Known(h) /\ EthAnchor(h).txid # 0 => Known(h)' /\ EthAnchor(h)'.txid # 0

\* A transaction of which the block has a hash keeps that.
LEMMA SettledStays ==
    ASSUME EthTypeInv, EthKept, HashesKept, Persistent,
           NEW id \in DOMAIN ethTx, EthSettled(id)
    PROVE  EthSettled(id)'
<1>1. PICK h \in Height : h = ethTx[id].h
  BY EthTypes
<1>2. ethTx'[id] = ethTx[id]
  BY DEF EthKept
<1>3. ethTx[id].kind = "anchor" => Known(h)' /\ EthAnchor(h)'.txid # 0
  BY <1>1 DEF EthSettled, HashesKept
<1> QED
  BY <1>1, <1>2, <1>3 DEF EthSettled, Known, FetchAnchorData, EthAnchor

\* What was checked stays so, since a new block comes behind the checked ones.
LEMMA CheckedStays ==
    ASSUME EthereumInv, EthKept, HashesKept, lastEthereum' = lastEthereum
    PROVE  CheckedEthAnchorsAreKnown'
<1> USE DEF EthereumInv
<1> SUFFICES ASSUME ~IgnoreWrongEntries, Persistent, NEW b \in DOMAIN ethBlocks',
                    b < lastEthereum, NEW id \in ethBlocks'[b]
             PROVE  EthSettled(id)'
  BY DEF CheckedEthAnchorsAreKnown, EthSettled, EthAnchor
<1>1. b \in DOMAIN ethBlocks
  <2>1. lastEthereum \in 0..(Len(ethBlocks) + 1)
    BY DEF EthTypeInv
  <2> QED
    BY <2>1, EthTypes DEF EthKept
<1>2. id \in ethBlocks[b] /\ id \in DOMAIN ethTx
  BY <1>1, EthTypes DEF EthKept
<1>3. EthSettled(id)
  BY <1>1, <1>2 DEF CheckedEthAnchorsAreKnown, EthSettled, EthAnchor
<1> QED
  BY <1>2, <1>3, SettledStays

\* The same of the page while it is processed.
LEMMA CoverStays ==
    ASSUME EthereumInv, EthKept, HashesKept, UNCHANGED <<txs, page>>, pc' = pc
    PROVE  EthPageCovers'
<1> USE DEF EthereumInv
<1> SUFFICES ASSUME ~IgnoreWrongEntries, Persistent, pc = "ethTx",
                    NEW b \in DOMAIN ethBlocks', b < page, NEW id \in ethBlocks'[b]
             PROVE  EthSettled(id)' \/ \E t \in txs : t.id = id
  BY DEF EthPageCovers
<1>1. b \in DOMAIN ethBlocks
  <2>1. page \in 0..(Len(ethBlocks) + 1)
    BY DEF EthTypeInv
  <2> QED
    BY <2>1, EthTypes DEF EthKept
<1>2. id \in ethBlocks[b] /\ id \in DOMAIN ethTx
  BY <1>1, EthTypes DEF EthKept
<1>3. EthSettled(id) \/ \E t \in txs : t.id = id
  BY <1>1, <1>2 DEF EthPageCovers
<1> QED
  BY <1>2, <1>3, SettledStays

\* Nothing moves in Ethereum.
LEMMA EthUnmoved ==
    ASSUME EthTypeInv, UNCHANGED ethVars
    PROVE  EthKept
BY EthTypes DEF EthKept, ethVars

\* No block of Ethereum is taken back.
LEMMA EthBlocksStay ==
    ASSUME EthTypeInv, EthTypeInv', EthKept
    PROVE  \A b \in DOMAIN ethBlocks : b \in DOMAIN ethBlocks' /\ ethBlocks'[b] = ethBlocks[b]
<1>1. Len(ethBlocks') \in Nat /\ DOMAIN ethBlocks' = 1..Len(ethBlocks')
  <2> DEFINE T == SUBSET DOMAIN ethTx'
  <2>1. ethBlocks' \in Seq(T)
    BY DEF EthTypeInv
  <2> HIDE DEF T
  <2> QED
    BY <2>1
<1> QED
  BY <1>1, EthTypes DEF EthKept

-----------------------------------------------------------------------------
(* Steps of Ethereum, and those that only move the control point. *)

\* A transaction is sent to the contract, by this process or another one.
LEMMA SendType ==
    ASSUME EthTypeInv, NEW h \in Height, NEW kind \in {"anchor", "other"},
           NEW e \in Nat, SendEthTx(h, kind, e)
    PROVE  /\ ethTx' \in Seq(EthTx) /\ Len(ethTx') = Len(ethTx) + 1
           /\ DOMAIN ethTx' = DOMAIN ethTx \cup {Len(ethTx) + 1}
           /\ Len(ethTx) + 1 \notin DOMAIN ethTx
           /\ ethTx'[Len(ethTx) + 1] = [h |-> h, kind |-> kind, epoch |-> e]
           /\ \A id \in DOMAIN ethTx : ethTx'[id] = ethTx[id]
           /\ ethPool' \subseteq DOMAIN ethTx'
           /\ ethBlocks' = ethBlocks /\ ethBlocks' \in Seq(SUBSET DOMAIN ethTx')
           /\ EthKept
<1> DEFINE tx == [h |-> h, kind |-> kind, epoch |-> e]
<1>1. tx \in EthTx
  BY DEF EthTx
<1>2. /\ ethTx' = Append(ethTx, tx) /\ ethPool' = ethPool \cup {Len(ethTx) + 1}
      /\ ethBlocks' = ethBlocks
  BY DEF SendEthTx
<1> HIDE DEF tx
<1>3. /\ ethTx' \in Seq(EthTx) /\ Len(ethTx') = Len(ethTx) + 1
      /\ DOMAIN ethTx' = DOMAIN ethTx \cup {Len(ethTx) + 1}
      /\ Len(ethTx) + 1 \notin DOMAIN ethTx
      /\ ethTx'[Len(ethTx) + 1] = tx
      /\ \A id \in DOMAIN ethTx : ethTx'[id] = ethTx[id]
  <2>1. ethTx \in Seq(EthTx) /\ Len(ethTx) \in Nat /\ DOMAIN ethTx = 1..Len(ethTx)
    BY EthTypes DEF EthTypeInv
  <2>2. ethTx' \in Seq(EthTx) /\ Len(ethTx') = Len(ethTx) + 1
    BY <1>1, <1>2, <2>1
  <2>3. DOMAIN ethTx' = 1..(Len(ethTx) + 1)
    BY <2>2
  <2>4. /\ ethTx'[Len(ethTx) + 1] = tx
        /\ \A id \in 1..Len(ethTx) : ethTx'[id] = ethTx[id]
    BY <1>1, <1>2, <2>1
  <2>5. 1..(Len(ethTx) + 1) = 1..Len(ethTx) \cup {Len(ethTx) + 1}
        /\ Len(ethTx) + 1 \notin 1..Len(ethTx)
    BY <2>1
  <2> QED
    BY <2>1, <2>2, <2>3, <2>4, <2>5
<1>4. ethPool' \subseteq DOMAIN ethTx'
  BY <1>2, <1>3 DEF EthTypeInv
<1>5. ethBlocks' \in Seq(SUBSET DOMAIN ethTx')
  <2> DEFINE A == SUBSET DOMAIN ethTx
             B == SUBSET DOMAIN ethTx'
  <2>1. ethBlocks \in Seq(A) /\ A \subseteq B
    BY <1>3 DEF EthTypeInv
  <2> HIDE DEF A, B
  <2>2. ethBlocks' \in Seq(B)
    BY <1>2, <2>1, WiderType
  <2> QED
    BY <2>2 DEF B
<1>6. EthKept
  BY <1>2, <1>3, EthTypes DEF EthKept
<1> QED
  BY <1>2, <1>3, <1>4, <1>5, <1>6 DEF tx

\* The locals, when they stay within what there was or are forgotten.
LEMMA EthTypesKept ==
    ASSUME EthTypeInv, EthKept, faults' \in 0..MaxFaults, DatabaseTypeOK',
           ethTx' \in Seq(EthTx), ethPool' \subseteq DOMAIN ethTx',
           ethBlocks' \in Seq(SUBSET DOMAIN ethTx'), Len(ethTx) <= Len(ethTx'),
           lastEthereum' \in {0, lastEthereum, page}, page' \in {0, page},
           txs' \subseteq txs, sent' \in {0, sent},
           height' \in 0..(MaxHeight + 1), count' \in 0..AnchorBatch
    PROVE  EthTypeInv'
<1>1. /\ Len(ethTx) \in Nat /\ Len(ethTx') \in Nat
      /\ Len(ethBlocks) \in Nat /\ Len(ethBlocks') \in Nat
      /\ Len(ethBlocks) <= Len(ethBlocks')
      /\ DOMAIN ethBlocks = 1..Len(ethBlocks) /\ DOMAIN ethBlocks' = 1..Len(ethBlocks')
  BY EthTypes DEF EthKept
<1>2. DOMAIN ethTx \subseteq DOMAIN ethTx' /\ DOMAIN ethBlocks \subseteq DOMAIN ethBlocks'
  <2>1. DOMAIN ethBlocks \subseteq DOMAIN ethBlocks'
    BY <1>1
  <2> QED
    BY <2>1 DEF EthKept
<1>3. txs' \subseteq [id: DOMAIN ethTx', block: DOMAIN ethBlocks']
  BY <1>2 DEF EthTypeInv
<1>4. sent' \in 0..Len(ethTx')
  <2>1. sent \in 0..Len(ethTx)
    BY DEF EthTypeInv
  <2> QED
    BY <1>1, <2>1
<1>5. /\ lastEthereum' \in 0..(Len(ethBlocks') + 1)
      /\ page' \in 0..(Len(ethBlocks') + 1)
  <2>1. lastEthereum \in 0..(Len(ethBlocks) + 1) /\ page \in 0..(Len(ethBlocks) + 1)
    BY DEF EthTypeInv
  <2>2. \A n \in 0..(Len(ethBlocks) + 1) : n \in 0..(Len(ethBlocks') + 1)
    BY <1>1
  <2>3. 0 \in 0..(Len(ethBlocks') + 1)
    BY <1>1
  <2> QED
    BY <2>1, <2>2, <2>3
<1> QED
  BY <1>3, <1>4, <1>5 DEF EthTypeInv

\* Ethereum mines, or others send: only behind what there is.
LEMMA EthereumGrows ==
    ASSUME EthTypeInv, EthereumMoves
    PROVE  /\ EthKept /\ Len(ethTx) <= Len(ethTx')
           /\ ethTx' \in Seq(EthTx) /\ ethPool' \subseteq DOMAIN ethTx'
           /\ ethBlocks' \in Seq(SUBSET DOMAIN ethTx')
           /\ \A id \in DOMAIN ethTx' :
                id \in DOMAIN ethTx \/ ethTx'[id].epoch = MaxFaults + 1
<1>1. CASE MineEthBlock
  <2>1. PICK S \in SUBSET ethPool :
          /\ ethBlocks' = Append(ethBlocks, S) /\ ethPool' = ethPool \ S
          /\ ethTx' = ethTx
    BY <1>1 DEF MineEthBlock
  <2> DEFINE T == SUBSET DOMAIN ethTx
  <2>2. S \in T /\ ethBlocks \in Seq(T)
    BY DEF EthTypeInv
  <2> HIDE DEF T
  <2>3. /\ ethBlocks' \in Seq(T) /\ Len(ethBlocks') = Len(ethBlocks) + 1
        /\ DOMAIN ethBlocks' = 1..(Len(ethBlocks) + 1)
        /\ \A b \in DOMAIN ethBlocks : ethBlocks'[b] = ethBlocks[b]
    BY <2>1, <2>2, EthTypes
  <2>4. EthKept
    BY <2>1, <2>3, EthTypes DEF EthKept
  <2> QED
    BY <2>1, <2>3, <2>4, EthTypes DEF T, EthTypeInv
<1>2. CASE OtherEthTx(MaxFaults + 1)
  <2>1. PICK h \in Height, kind \in {"anchor", "other"} :
          SendEthTx(h, kind, MaxFaults + 1)
    <3>1. 0 \in Height
      BY DatabaseAssumption DEF Height
    <3> QED
      BY <1>2, <3>1 DEF OtherEthTx
  <2>2. MaxFaults + 1 \in Nat
    BY FaultAssumption
  <2>3. /\ EthKept /\ Len(ethTx') = Len(ethTx) + 1
        /\ ethTx' \in Seq(EthTx) /\ ethPool' \subseteq DOMAIN ethTx'
        /\ ethBlocks' \in Seq(SUBSET DOMAIN ethTx')
        /\ DOMAIN ethTx' = DOMAIN ethTx \cup {Len(ethTx) + 1}
        /\ ethTx'[Len(ethTx) + 1] = [h |-> h, kind |-> kind, epoch |-> MaxFaults + 1]
    BY <2>1, <2>2, SendType
  <2> QED
    BY <2>3, EthTypes
<1> QED
  BY <1>1, <1>2 DEF EthereumMoves

\* The invariant does not depend on what others send.
LEMMA EthereumMovesKeeps ==
    ASSUME EthereumInv, EthereumMoves
    PROVE  EthereumInv'
<1> USE DEF EthereumInv
<1>1. /\ UNCHANGED <<pc, faults, anchorData, chainHead, lastFactom, lastBitcoin>>
      /\ UNCHANGED <<lastEthereum, txs, page, height, count, sent>>
  BY DEF EthereumMoves, processVars, dbVars, ethAnchorVars
<1>2. /\ EthKept /\ Len(ethTx) <= Len(ethTx')
      /\ ethTx' \in Seq(EthTx) /\ ethPool' \subseteq DOMAIN ethTx'
      /\ ethBlocks' \in Seq(SUBSET DOMAIN ethTx')
      /\ \A id \in DOMAIN ethTx' :
            id \in DOMAIN ethTx \/ ethTx'[id].epoch = MaxFaults + 1
  BY EthereumGrows
<1>3. EthTypeInv'
  <2>1. DatabaseTypeOK'
    BY <1>1 DEF EthTypeInv, DatabaseTypeOK
  <2>2. /\ faults' \in 0..MaxFaults /\ height' \in 0..(MaxHeight + 1)
        /\ count' \in 0..AnchorBatch
    BY <1>1 DEF EthTypeInv
  <2> QED
    BY <1>1, <1>2, <2>1, <2>2, EthTypesKept
<1>4. \A h : /\ Known(h)' <=> Known(h)
             /\ EthAnchor(h)' = EthAnchor(h)
             /\ NeedsEthAnchor(h)' <=> NeedsEthAnchor(h)
  BY <1>1 DEF Known, FetchAnchorData, EthAnchor, NeedsEthAnchor
<1>5. EthTxidFirst' /\ EthSendingInv' /\ HashesKept
  BY <1>1, <1>4
     DEF EthTxidFirst, EthSendingInv, HashesKept, EthRecording, EthTarget
<1>6. \A id \in DOMAIN ethTx' : ethTx'[id].epoch <= MaxFaults =>
        id \in DOMAIN ethTx /\ ethTx'[id] = ethTx[id]
  BY <1>2, FaultAssumption DEF EthKept
<1>7. EthEpochs'
  BY <1>1, <1>4, <1>6 DEF EthEpochs, EthRecording, EthTarget
<1>8. EthSentOncePerFault'
  <2> SUFFICES ASSUME NEW i \in DOMAIN ethTx', NEW j \in DOMAIN ethTx', i # j,
                      ethTx'[i].kind = "anchor", ethTx'[j].kind = "anchor",
                      ethTx'[i].epoch <= MaxFaults, ethTx'[i].h = ethTx'[j].h,
                      ethTx'[i].epoch = ethTx'[j].epoch
               PROVE  FALSE
    BY DEF EthSentOncePerFault
  <2> QED
    BY <1>6 DEF EthSentOncePerFault
<1> QED
  BY <1>1, <1>2, <1>3, <1>5, <1>7, <1>8, CheckedStays, CoverStays

\* A step that only moves the control point and the locals of a loop.
LEMMA EthMoveKeeps ==
    ASSUME EthereumInv, faults' = faults, UNCHANGED <<dbVars, ethVars, lastEthereum>>,
           ~EthRecording, pc' \notin {"ethTx", "recordNewest", "recordOlder"},
           txs' \subseteq txs, page' \in {0, page}, sent' \in {0, sent},
           height' \in 0..(MaxHeight + 1), count' \in 0..AnchorBatch
    PROVE  EthereumInv'
<1> USE DEF EthereumInv
<1>1. UNCHANGED <<anchorData, chainHead, lastFactom, lastBitcoin, ethTx, ethPool, ethBlocks>>
  BY DEF dbVars, ethVars
<1>2. EthKept
  BY EthUnmoved
<1>3. EthTypeInv'
  <2>1. DatabaseTypeOK'
    BY <1>1 DEF EthTypeInv, DatabaseTypeOK
  <2>2. /\ ethTx' \in Seq(EthTx) /\ ethPool' \subseteq DOMAIN ethTx'
        /\ ethBlocks' \in Seq(SUBSET DOMAIN ethTx') /\ faults' \in 0..MaxFaults
        /\ Len(ethTx) <= Len(ethTx')
    BY <1>1, EthTypes DEF EthTypeInv
  <2> QED
    BY <1>2, <2>1, <2>2, EthTypesKept
<1>4. \A h : /\ Known(h)' <=> Known(h)
             /\ EthAnchor(h)' = EthAnchor(h)
  BY <1>1 DEF Known, FetchAnchorData, EthAnchor
<1>5. EthTxidFirst' /\ HashesKept /\ EthSendingInv' /\ EthPageCovers'
  BY <1>4 DEF EthTxidFirst, HashesKept, EthSendingInv, EthPageCovers, EthRecording
<1>6. EthEpochs' /\ EthSentOncePerFault'
  BY <1>1, <1>4 DEF EthEpochs, EthSentOncePerFault
<1> QED
  BY <1>2, <1>3, <1>5, <1>6, CheckedStays

-----------------------------------------------------------------------------
(* SynchronizeEthereumData. *)

\* The last block of a page, and the block it is checked up to.
LEMMA PageChecked ==
    ASSUME EthTypeInv, TxsFrom(lastEthereum) # {},
           NEW S \in FirstPages(TxsFrom(lastEthereum))
    PROVE  /\ S \subseteq [id: DOMAIN ethTx, block: DOMAIN ethBlocks]
           /\ Checked(S) \in 0..(Len(ethBlocks) + 1)
           /\ \A b \in DOMAIN ethBlocks : \A id \in ethBlocks[b] : b < Checked(S) =>
                b < lastEthereum \/ [id |-> id, block |-> b] \in S
<1> DEFINE all == TxsFrom(lastEthereum)
<1>1. /\ S \subseteq all /\ (S = all \/ Cardinality(S) = EthPage)
      /\ \A t \in S, u \in all \ S : t.block <= u.block
  BY DEF FirstPages
<1>2. all \subseteq [id: DOMAIN ethTx, block: DOMAIN ethBlocks]
  BY EthTypes DEF TxsFrom
<1>3. S # {}
  <2>1. Cardinality({}) = 0 /\ EthPage # 0
    BY FS_EmptySet, EthereumAssumption
  <2> QED
    BY <1>1, <2>1
<1> DEFINE blocks == {t.block : t \in S}
<1>4. /\ Len(ethBlocks) \in Nat /\ DOMAIN ethBlocks = 1..Len(ethBlocks)
      /\ blocks \in SUBSET (1..Len(ethBlocks)) /\ blocks # {}
  BY <1>1, <1>2, <1>3, EthTypes
<1>5. PICK m : m = Max(blocks)
  OBVIOUS
<1>6. m \in 1..Len(ethBlocks) /\ m \in blocks /\ \A b \in blocks : b <= m
  <2> HIDE DEF blocks
  <2> QED
    BY <1>4, <1>5, MaxOfPositions
<1>7. Checked(S) = IF Cardinality(S) < EthPage THEN m + 1 ELSE m
  BY <1>5 DEF Checked
<1>8. ASSUME NEW b \in DOMAIN ethBlocks, NEW id \in ethBlocks[b], b < Checked(S),
             ~(b < lastEthereum)
      PROVE  [id |-> id, block |-> b] \in S
  <2> DEFINE u == [id |-> id, block |-> b]
  <2>1. lastEthereum \in Nat /\ b \in Nat /\ EthPage \in Nat
    BY <1>4, EthereumAssumption DEF EthTypeInv
  <2>2. u \in all /\ u.block = b
    BY <1>8, <2>1 DEF TxsFrom
  <2>3. PICK t \in S : t.block = m
    BY <1>6
  <2> SUFFICES ASSUME u \notin S
               PROVE  FALSE
    OBVIOUS
  <2>4. m <= b
    BY <1>1, <2>2, <2>3
  <2>5. Cardinality(S) = EthPage
    BY <1>1, <2>2
  <2>6. Checked(S) = m
    BY <1>7, <2>1, <2>5
  <2> QED
    BY <1>6, <1>8, <2>1, <2>4, <2>6
<1> QED
  BY <1>1, <1>2, <1>4, <1>6, <1>7, <1>8

\* A page is listed.
LEMMA ListTxsKeeps ==
    ASSUME EthereumInv, ListTxs
    PROVE  EthereumInv'
<1> USE DEF EthereumInv
<1>1. /\ pc = "syncEthereum" /\ pc' = "ethTx" /\ faults' = faults
      /\ UNCHANGED <<anchorData, chainHead, lastFactom, lastBitcoin, lastEthereum>>
      /\ UNCHANGED <<ethTx, ethPool, ethBlocks, height, count, sent>>
      /\ UNCHANGED ethVars
      /\ TxsFrom(lastEthereum) # {} /\ txs' \in FirstPages(TxsFrom(lastEthereum))
      /\ page' = Checked(txs')
  BY DEF ListTxs, Normally, Goto, dbVars, ethVars
<1>2. PICK S \in FirstPages(TxsFrom(lastEthereum)) : S = txs'
  BY <1>1
<1>3. /\ S \subseteq [id: DOMAIN ethTx, block: DOMAIN ethBlocks]
      /\ Checked(S) \in 0..(Len(ethBlocks) + 1)
      /\ \A b \in DOMAIN ethBlocks : \A id \in ethBlocks[b] : b < Checked(S) =>
            b < lastEthereum \/ [id |-> id, block |-> b] \in S
  BY <1>1, PageChecked
<1>4. page' = Checked(S)
  BY <1>1, <1>2
<1>5. EthTypeInv'
  <2>1. DatabaseTypeOK'
    BY <1>1 DEF EthTypeInv, DatabaseTypeOK
  <2> QED
    BY <1>1, <1>2, <1>3, <1>4, <2>1 DEF EthTypeInv
<1>6. \A h : /\ Known(h)' <=> Known(h)
             /\ EthAnchor(h)' = EthAnchor(h)
  BY <1>1 DEF Known, FetchAnchorData, EthAnchor
<1>7. /\ EthTxidFirst' /\ EthSendingInv' /\ EthEpochs' /\ EthSentOncePerFault'
      /\ HashesKept
  BY <1>1, <1>6
     DEF EthTxidFirst, EthSendingInv, EthEpochs, EthSentOncePerFault, HashesKept,
         EthRecording
<1>8. EthPageCovers'
  <2> SUFFICES ASSUME ~IgnoreWrongEntries, Persistent, NEW b \in DOMAIN ethBlocks,
                      b < Checked(S), NEW id \in ethBlocks[b]
               PROVE  EthSettled(id)' \/ \E t \in S : t.id = id
    BY <1>1, <1>2, <1>4 DEF EthPageCovers
  <2>1. CASE b < lastEthereum
    <3>1. EthSettled(id)
      BY <2>1 DEF CheckedEthAnchorsAreKnown, EthSettled, EthAnchor
    <3> QED
      BY <1>1, <3>1 DEF EthSettled, EthAnchor, Known, FetchAnchorData
  <2>2. CASE [id |-> id, block |-> b] \in S
    BY <2>2
  <2> QED
    BY <1>3, <2>1, <2>2
<1> QED
  BY <1>1, <1>5, <1>7, <1>8, EthUnmoved, CheckedStays

\* A hash is written into the anchor of a known block.
LEMMA HashWritten ==
    ASSUME EthereumInv, NEW h, Known(h), NEW a \in NetAnchor, a.txid # 0,
           InsertAnchorData(h, [anchorData[h] EXCEPT !["Ethereum"] = a]),
           UNCHANGED <<chainHead, lastFactom, lastBitcoin, ethVars, faults>>
    PROVE  /\ DatabaseTypeOK' /\ EthTxidFirst' /\ EthKept /\ HashesKept
           /\ EthSentOncePerFault' /\ h \in Height
           /\ \A k \in Height : Known(k)' <=> Known(k)
           /\ \A k \in Height : Known(k) =>
                EthAnchor(k)' = IF k = h THEN a ELSE EthAnchor(k)
           /\ ~EthRecording' /\ (EthRecording => EthTarget = h) => EthEpochs'
<1> USE DEF EthereumInv
<1>1. UNCHANGED <<ethTx, ethPool, ethBlocks>>
  BY DEF ethVars
<1>2. /\ anchorData' \in [Height -> AnchorData \cup {Nil}]
      /\ h \in Height
      /\ \A k \in Height : Known(k)' <=> Known(k)
      /\ \A k \in Height, m \in Networks : Known(k) =>
            anchorData'[k][m] = IF k = h /\ m = "Ethereum" THEN a ELSE anchorData[k][m]
  BY OneAnchor, EthTypes, KnownData DEF Networks
<1>3. \A k \in Height : Known(k) =>
        EthAnchor(k)' = IF k = h THEN a ELSE EthAnchor(k)
  BY <1>2 DEF EthAnchor, Networks
<1>4. DatabaseTypeOK' /\ EthTxidFirst' /\ HashesKept /\ EthSentOncePerFault'
  <2>1. DatabaseTypeOK'
    BY <1>2 DEF EthTypeInv, DatabaseTypeOK
  <2>2. EthTxidFirst' /\ HashesKept
    BY <1>2, <1>3 DEF EthTxidFirst, HashesKept
  <2>3. EthSentOncePerFault'
    BY <1>1 DEF EthSentOncePerFault
  <2> QED
    BY <2>1, <2>2, <2>3
<1>5. ASSUME ~EthRecording', EthRecording => EthTarget = h
      PROVE  EthEpochs'
  <2> SUFFICES ASSUME NEW id \in DOMAIN ethTx, ethTx[id].kind = "anchor",
                      ethTx[id].epoch <= MaxFaults, ethTx[id].epoch = faults
               PROVE  Known(ethTx[id].h)' /\ EthAnchor(ethTx[id].h)'.txid # 0
    BY <1>1, <1>5 DEF EthEpochs, Known, FetchAnchorData, EthAnchor
  <2>1. PICK k \in Height : k = ethTx[id].h
    BY EthTypes
  <2>2. Known(k) /\ (EthAnchor(k).txid # 0 \/ k = h)
    BY <1>5, <2>1 DEF EthEpochs
  <2>3. Known(k)' /\ EthAnchor(k)'.txid # 0
    BY <1>2, <1>3, <2>2
  <2> QED
    BY <1>1, <2>1, <2>3 DEF Known, FetchAnchorData, EthAnchor
<1> QED
  BY <1>1, <1>2, <1>3, <1>4, <1>5, EthUnmoved

\* A listed transaction is taken or passed.
LEMMA ProcessEthTxKeeps ==
    ASSUME EthereumInv, ProcessEthTx
    PROVE  EthereumInv'
<1> USE DEF EthereumInv
<1>1. PICK t \in txs :
        /\ ~Refused(t) /\ txs' = txs \ {t}
        /\ IF IsNewEthAnchor(t) THEN SaveEthTx(t) ELSE UNCHANGED anchorData
  BY DEF ProcessEthTx
<1>2. /\ pc = "ethTx" /\ pc' = "ethTx"
      /\ UNCHANGED <<faults, chainHead, lastFactom, lastBitcoin, lastEthereum, ethVars,
                     ethTx, ethPool, ethBlocks, page, height, count, sent>>
  BY DEF ProcessEthTx, processVars, ethVars
<1>3. t.id \in DOMAIN ethTx /\ t.block \in DOMAIN ethBlocks
  BY EthTypes
<1>4. PICK h \in Height : h = ethTx[t.id].h
  BY <1>3, EthTypes
<1>5. EthSendingInv' /\ ~EthRecording'
  BY <1>2 DEF EthSendingInv, EthRecording
<1>6. /\ EthTxidFirst' /\ EthEpochs' /\ EthSentOncePerFault' /\ DatabaseTypeOK'
      /\ EthKept /\ HashesKept /\ (Known(h) => EthSettled(t.id)')
  <2>1. CASE IsNewEthAnchor(t)
    <3>1. Known(h) /\ EthAnchor(h).rec = 0 /\ EthAnchor(h).txid = 0
      BY <1>4, <2>1 DEF IsNewEthAnchor, EthAnchor
    <3> DEFINE a == [EthAnchor(h) EXCEPT !.txid = t.id, !.block = t.block]
    <3>2. EthAnchor(h) \in NetAnchor /\ anchorData[h] \in [Networks -> NetAnchor]
      BY <3>1, AnchorType, EthTypes, KnownData DEF EthAnchor, Networks, AnchorData
    <3>3. a \in NetAnchor /\ a.txid = t.id /\ t.id # 0
      <4>1. t.id \in Nat \ {0} /\ t.block \in Nat
        BY <1>3, EthTypes
      <4> QED
        BY <3>2, <4>1 DEF NetAnchor
    <3>4. InsertAnchorData(h, [anchorData[h] EXCEPT !["Ethereum"] = a])
      <4>1. [anchorData[h] EXCEPT !["Ethereum"].txid = t.id, !["Ethereum"].block = t.block]
              = [anchorData[h] EXCEPT !["Ethereum"] = a]
        BY <3>2 DEF EthAnchor, Networks, NetAnchor
      <4> QED
        BY <1>1, <1>4, <2>1, <4>1 DEF SaveEthTx
    <3> HIDE DEF a
    <3>5. /\ DatabaseTypeOK' /\ EthTxidFirst' /\ EthKept /\ HashesKept
          /\ EthSentOncePerFault' /\ EthEpochs'
          /\ Known(h)' /\ EthAnchor(h)' = a
      BY <1>2, <1>5, <3>1, <3>3, <3>4, HashWritten DEF EthRecording
    <3>6. EthSettled(t.id)'
      BY <1>2, <1>4, <3>3, <3>5 DEF EthSettled, Known, FetchAnchorData, EthAnchor
    <3> QED
      BY <3>5, <3>6
  <2>2. CASE ~IsNewEthAnchor(t)
    <3>1. anchorData' = anchorData
      BY <1>1, <2>2
    <3>2. \A k : /\ Known(k)' <=> Known(k)
                 /\ EthAnchor(k)' = EthAnchor(k)
      BY <3>1 DEF Known, FetchAnchorData, EthAnchor
    <3>3. EthTxidFirst' /\ EthEpochs' /\ EthSentOncePerFault' /\ HashesKept
      BY <1>2, <3>2
         DEF EthTxidFirst, EthEpochs, EthSentOncePerFault, HashesKept, EthRecording
    <3>4. DatabaseTypeOK' /\ EthKept
      BY <1>2, <3>1, EthUnmoved DEF EthTypeInv, DatabaseTypeOK
    <3>5. ASSUME Known(h)
          PROVE  EthSettled(t.id)'
      <4>1. ethTx[t.id].kind = "anchor" => EthAnchor(h).txid # 0
        BY <1>4, <2>2, <3>5 DEF IsNewEthAnchor, EthTxidFirst, EthAnchor
      <4> QED
        BY <1>2, <1>4, <3>1, <3>5, <4>1 DEF EthSettled, Known, FetchAnchorData, EthAnchor
    <3> QED
      BY <3>3, <3>4, <3>5
  <2> QED
    BY <2>1, <2>2
<1>7. EthTypeInv'
  <2>1. txs' \subseteq [id: DOMAIN ethTx, block: DOMAIN ethBlocks]
    BY <1>1 DEF EthTypeInv
  <2> QED
    BY <1>2, <1>6, <2>1 DEF EthTypeInv
<1>8. EthPageCovers'
  <2> SUFFICES ASSUME ~IgnoreWrongEntries, Persistent, NEW b \in DOMAIN ethBlocks,
                      b < page, NEW id \in ethBlocks[b]
               PROVE  EthSettled(id)' \/ \E u \in txs' : u.id = id
    BY <1>2 DEF EthPageCovers
  <2>1. id \in DOMAIN ethTx
    BY EthTypes
  <2>2. EthSettled(id) \/ \E u \in txs : u.id = id
    BY <1>2 DEF EthPageCovers
  <2>3. EthSettled(id) => EthSettled(id)'
    BY <1>6, <2>1, SettledStays
  <2>4. EthSettled(t.id)'
    <3>1. CASE ethTx[t.id].kind = "anchor"
      <4>1. Known(h)
        BY <1>1, <1>4, <3>1 DEF Refused
      <4> QED
        BY <1>6, <4>1
    <3>2. CASE ethTx[t.id].kind # "anchor"
      BY <1>2, <3>2 DEF EthSettled
    <3> QED
      BY <3>1, <3>2
  <2> QED
    BY <1>1, <2>2, <2>3, <2>4
<1> QED
  BY <1>2, <1>5, <1>6, <1>7, <1>8, CheckedStays

\* The page is done, and the block it reaches up to is checked.
LEMMA SaveEthereumStateKeeps ==
    ASSUME EthereumInv, SaveEthereumState
    PROVE  EthereumInv'
<1> USE DEF EthereumInv
<1>1. /\ pc = "ethTx" /\ pc' = "syncEthereum" /\ txs = {} /\ lastEthereum' = page
      /\ Forget /\ faults' = faults /\ UNCHANGED ethVars
      /\ UNCHANGED <<anchorData, chainHead, lastFactom, lastBitcoin, ethTx, ethPool,
                     ethBlocks>>
      /\ txs' = {} /\ page' = 0 /\ height' = 0 /\ count' = 0 /\ sent' = 0
  BY DEF SaveEthereumState, Normally, Goto, dbVars, ethVars, Forget
<1>2. EthTypeInv'
  <2>1. DatabaseTypeOK' /\ faults' \in 0..MaxFaults
    BY <1>1 DEF EthTypeInv, DatabaseTypeOK
  <2>2. height' \in 0..(MaxHeight + 1) /\ count' \in 0..AnchorBatch
    BY <1>1, EthTypes
  <2>3. /\ ethTx' \in Seq(EthTx) /\ ethPool' \subseteq DOMAIN ethTx'
        /\ ethBlocks' \in Seq(SUBSET DOMAIN ethTx') /\ Len(ethTx) <= Len(ethTx')
    BY <1>1, EthTypes DEF EthTypeInv
  <2> QED
    BY <1>1, <2>1, <2>2, <2>3, EthUnmoved, EthTypesKept
<1>3. \A h : /\ Known(h)' <=> Known(h)
             /\ EthAnchor(h)' = EthAnchor(h)
  BY <1>1 DEF Known, FetchAnchorData, EthAnchor
<1>4. /\ EthTxidFirst' /\ EthSendingInv' /\ EthEpochs' /\ EthSentOncePerFault'
      /\ EthPageCovers'
  BY <1>1, <1>3
     DEF EthTxidFirst, EthSendingInv, EthEpochs, EthSentOncePerFault, EthPageCovers,
         EthRecording
<1>5. CheckedEthAnchorsAreKnown'
  <2> SUFFICES ASSUME ~IgnoreWrongEntries, Persistent, NEW b \in DOMAIN ethBlocks,
                      b < page, NEW id \in ethBlocks[b]
               PROVE  EthSettled(id)'
    BY <1>1 DEF CheckedEthAnchorsAreKnown, EthSettled, EthAnchor
  <2>1. EthSettled(id)
    BY <1>1 DEF EthPageCovers
  <2> QED
    BY <1>1, <2>1 DEF EthSettled, EthAnchor, Known, FetchAnchorData
<1> QED
  BY <1>2, <1>4, <1>5

-----------------------------------------------------------------------------
(* AnchorBlocksIntoEthereum. *)

\* A transaction is sent for a block that has none: none of the same epoch was
\* sent for it by this process.
LEMMA EthSendKeeps ==
    ASSUME EthereumInv, ~EthRecording, NEW h \in Height, NeedsEthAnchor(h),
           SendEthTx(h, "anchor", faults)
    PROVE  /\ ethTx' \in Seq(EthTx) /\ ethPool' \subseteq DOMAIN ethTx'
           /\ ethBlocks' = ethBlocks /\ ethBlocks' \in Seq(SUBSET DOMAIN ethTx')
           /\ EthKept /\ Len(ethTx') = Len(ethTx) + 1
           /\ EthSentOncePerFault'
           /\ \A id \in DOMAIN ethTx' :
                ethTx'[id].kind = "anchor" /\ ethTx'[id].epoch <= MaxFaults =>
                    /\ ethTx'[id].epoch \in Nat /\ ethTx'[id].epoch <= faults
                    /\ ethTx'[id].epoch = faults =>
                         \/ ethTx'[id].h = h
                         \/ Known(ethTx'[id].h) /\ EthAnchor(ethTx'[id].h).txid # 0
<1> USE DEF EthereumInv
<1> DEFINE new == Len(ethTx) + 1
<1>1. /\ ethTx' \in Seq(EthTx) /\ ethPool' \subseteq DOMAIN ethTx'
      /\ ethBlocks' = ethBlocks /\ ethBlocks' \in Seq(SUBSET DOMAIN ethTx')
      /\ EthKept /\ Len(ethTx') = new /\ new \notin DOMAIN ethTx
      /\ DOMAIN ethTx' = DOMAIN ethTx \cup {new}
      /\ ethTx'[new] = [h |-> h, kind |-> "anchor", epoch |-> faults]
      /\ \A id \in DOMAIN ethTx : ethTx'[id] = ethTx[id]
  BY EthTypes, SendType
<1> HIDE DEF new
<1>2. Known(h) /\ EthAnchor(h).txid = 0 /\ faults \in Nat /\ faults <= faults
  BY EthTypes DEF NeedsEthAnchor, EthAnchor
<1>3. \A id \in DOMAIN ethTx :
        ethTx[id].kind = "anchor" /\ ethTx[id].epoch <= MaxFaults =>
            /\ ethTx[id].epoch \in Nat /\ ethTx[id].epoch <= faults
            /\ ethTx[id].epoch = faults =>
                 Known(ethTx[id].h) /\ EthAnchor(ethTx[id].h).txid # 0
  BY EthTypes DEF EthEpochs
<1>4. \A id \in DOMAIN ethTx' :
        ethTx'[id].kind = "anchor" /\ ethTx'[id].epoch <= MaxFaults =>
            /\ ethTx'[id].epoch \in Nat /\ ethTx'[id].epoch <= faults
            /\ ethTx'[id].epoch = faults =>
                 \/ ethTx'[id].h = h
                 \/ Known(ethTx'[id].h) /\ EthAnchor(ethTx'[id].h).txid # 0
  BY <1>1, <1>2, <1>3
<1>5. EthSentOncePerFault'
  <2> SUFFICES ASSUME NEW i \in DOMAIN ethTx', NEW j \in DOMAIN ethTx', i # j,
                      ethTx'[i].kind = "anchor", ethTx'[j].kind = "anchor",
                      ethTx'[i].epoch <= MaxFaults, ethTx'[i].h = ethTx'[j].h,
                      ethTx'[i].epoch = ethTx'[j].epoch
               PROVE  FALSE
    BY DEF EthSentOncePerFault
  <2>1. \A id \in DOMAIN ethTx :
            ethTx[id].kind = "anchor" /\ ethTx[id].epoch <= MaxFaults /\ ethTx[id].h = h =>
                ethTx[id].epoch # faults
    BY <1>2, <1>3
  <2>2. CASE i \in DOMAIN ethTx /\ j \in DOMAIN ethTx
    BY <1>1, <2>2 DEF EthSentOncePerFault
  <2>3. CASE i \in DOMAIN ethTx /\ j = new
    BY <1>1, <2>1, <2>3
  <2>4. CASE i = new /\ j \in DOMAIN ethTx
    BY <1>1, <2>1, <2>4
  <2> QED
    BY <1>1, <2>2, <2>3, <2>4
<1> QED
  BY <1>1, <1>4, <1>5 DEF new

\* A transaction is sent and its hash is to be recorded, or its reply is lost.
LEMMA EthSentKeeps ==
    ASSUME EthereumInv, SendEthAnchor \/ EthReplyLost
    PROVE  EthereumInv'
<1> USE DEF EthereumInv
<1>1. PICK h \in Height : At(h) /\ NeedsEthAnchor(h) /\ SendEthTx(h, "anchor", faults)
  BY DEF SendEthAnchor, EthReplyLost
<1>2. UNCHANGED <<anchorData, chainHead, lastFactom, lastBitcoin, lastEthereum>>
  BY DEF SendEthAnchor, EthReplyLost, dbVars
<1>3. ~EthRecording
  BY <1>1 DEF At, EthRecording
<1>4. /\ ethTx' \in Seq(EthTx) /\ ethPool' \subseteq DOMAIN ethTx'
      /\ ethBlocks' = ethBlocks /\ ethBlocks' \in Seq(SUBSET DOMAIN ethTx')
      /\ EthKept /\ Len(ethTx') = Len(ethTx) + 1
      /\ EthSentOncePerFault'
      /\ \A id \in DOMAIN ethTx' :
           ethTx'[id].kind = "anchor" /\ ethTx'[id].epoch <= MaxFaults =>
               /\ ethTx'[id].epoch \in Nat /\ ethTx'[id].epoch <= faults
               /\ ethTx'[id].epoch = faults =>
                    \/ ethTx'[id].h = h
                    \/ Known(ethTx'[id].h) /\ EthAnchor(ethTx'[id].h).txid # 0
  BY <1>1, <1>3, EthSendKeeps
<1>5. \A k : /\ Known(k)' <=> Known(k)
             /\ EthAnchor(k)' = EthAnchor(k)
             /\ NeedsEthAnchor(k)' <=> NeedsEthAnchor(k)
  BY <1>2 DEF Known, FetchAnchorData, EthAnchor, NeedsEthAnchor
<1>6. DatabaseTypeOK' /\ EthTxidFirst' /\ HashesKept
  BY <1>2, <1>5 DEF EthTypeInv, DatabaseTypeOK, EthTxidFirst, HashesKept
<1>7. CheckedEthAnchorsAreKnown'
  BY <1>2, <1>4, <1>6, CheckedStays
<1>8. faults \in Nat /\ Len(ethTx) \in Nat /\ Len(ethTx) <= Len(ethTx')
  BY <1>4, EthTypes
<1>9. CASE SendEthAnchor
  <2>1. /\ pc \in {"newest", "older"} /\ faults' = faults
        /\ pc' = IF pc = "newest" THEN "recordNewest" ELSE "recordOlder"
        /\ sent' = Len(ethTx') /\ UNCHANGED <<lastEthereum, txs, page, height, count>>
    BY <1>1, <1>9 DEF SendEthAnchor, At, Normally, Goto
  <2>2. EthTarget' = h /\ EthRecording' /\ (pc' = "recordOlder" => count < AnchorBatch)
    BY <1>1, <1>2, <2>1 DEF At, EthTarget, EthRecording
  <2>3. EthTypeInv'
    <3>1. txs' \subseteq [id: DOMAIN ethTx', block: DOMAIN ethBlocks']
      BY <1>4, <2>1 DEF EthTypeInv, EthKept
    <3>2. sent' \in 0..Len(ethTx')
      BY <1>4, <1>8, <2>1
    <3> QED
      BY <1>2, <1>4, <1>6, <2>1, <3>1, <3>2 DEF EthTypeInv
  <2>4. EthSendingInv'
    <3>1. NeedsEthAnchor(h)' /\ sent' # 0
      BY <1>1, <1>4, <1>5, <1>8, <2>1
    <3>2. NeedsEthAnchor(EthTarget)'
      BY <2>2, <3>1 DEF NeedsEthAnchor, Known, FetchAnchorData
    <3> QED
      BY <2>1, <2>2, <3>1, <3>2 DEF EthSendingInv
  <2>5. EthEpochs'
    <3>1. \A id \in DOMAIN ethTx' : ethTx'[id].h = h => Known(ethTx'[id].h)
      BY <1>1 DEF NeedsEthAnchor
    <3>2. \A k : (Known(k) <=> Known(k)') /\ EthAnchor(k)' = EthAnchor(k)
      BY <1>5
    <3> QED
      BY <1>4, <2>1, <2>2, <3>1, <3>2 DEF EthEpochs, Known, FetchAnchorData, EthAnchor
  <2>6. EthPageCovers'
    BY <2>1 DEF EthPageCovers
  <2> QED
    BY <1>4, <1>6, <1>7, <2>3, <2>4, <2>5, <2>6
<1>10. CASE EthReplyLost
  <2>1. /\ pc' = "loop" /\ faults' = faults + 1 /\ faults < MaxFaults
        /\ lastEthereum' = lastEthereum
        /\ txs' = {} /\ page' = 0 /\ height' = 0 /\ count' = 0 /\ sent' = 0
    BY <1>10 DEF EthReplyLost, Fault, Goto, Forget
  <2>2. EthTypeInv'
    <3>1. /\ faults' \in 0..MaxFaults /\ height' \in 0..(MaxHeight + 1)
          /\ count' \in 0..AnchorBatch
      BY <1>8, <2>1, EthTypes, FaultAssumption
    <3> QED
      BY <1>4, <1>6, <1>8, <2>1, <3>1, EthTypesKept
  <2>3. EthEpochs'
    BY <1>4, <1>8, <2>1 DEF EthEpochs
  <2>4. EthSendingInv' /\ EthPageCovers'
    BY <2>1 DEF EthSendingInv, EthPageCovers, EthRecording
  <2> QED
    BY <1>4, <1>6, <1>7, <2>2, <2>3, <2>4
<1> QED
  BY <1>9, <1>10

\* The hash of a send is recorded.
LEMMA RecordEthHashKeeps ==
    ASSUME EthereumInv, RecordEthHash
    PROVE  EthereumInv'
<1> USE DEF EthereumInv
<1>1. PICK h : h = EthTarget
  OBVIOUS
<1>2. /\ EthRecording /\ pc' = "older" /\ faults' = faults /\ sent' = 0
      /\ InsertAnchorData(h, [anchorData[h] EXCEPT !["Ethereum"].txid = sent])
      /\ UNCHANGED <<chainHead, lastFactom, lastBitcoin, lastEthereum, ethVars, txs, page>>
      /\ UNCHANGED <<ethTx, ethPool, ethBlocks>>
      /\ \/ pc = "recordNewest" /\ UNCHANGED <<height, count>>
         \/ pc = "recordOlder" /\ height' = height + 1 /\ count' = count + 1
  BY <1>1 DEF RecordEthHash, EthRecording, EthTarget, Normally, Goto, ethVars
<1>3. /\ sent \in Nat \ {0} /\ Known(h) /\ h \in Height
      /\ pc = "recordOlder" => h = height /\ count < AnchorBatch
  <2>1. sent # 0 /\ NeedsEthAnchor(h) /\ (pc = "recordOlder" => count < AnchorBatch)
    BY <1>1, <1>2 DEF EthSendingInv
  <2>2. sent \in 0..Len(ethTx) /\ Len(ethTx) \in Nat
    BY EthTypes DEF EthTypeInv
  <2>3. h \in Height
    BY <2>1, KnownData, EthTypes DEF NeedsEthAnchor
  <2> QED
    BY <1>1, <2>1, <2>2, <2>3 DEF NeedsEthAnchor, EthTarget
<1> DEFINE a == [EthAnchor(h) EXCEPT !.txid = sent]
<1>4. EthAnchor(h) \in NetAnchor /\ anchorData[h] \in [Networks -> NetAnchor]
  BY <1>3, AnchorType, EthTypes, KnownData DEF EthAnchor, Networks, AnchorData
<1>5. a \in NetAnchor /\ a.txid = sent
  BY <1>3, <1>4 DEF NetAnchor
<1>6. InsertAnchorData(h, [anchorData[h] EXCEPT !["Ethereum"] = a])
  <2>1. [anchorData[h] EXCEPT !["Ethereum"].txid = sent]
          = [anchorData[h] EXCEPT !["Ethereum"] = a]
    BY <1>4 DEF EthAnchor, Networks, NetAnchor
  <2> QED
    BY <1>2, <2>1
<1> HIDE DEF a
<1>7. /\ DatabaseTypeOK' /\ EthTxidFirst' /\ EthKept /\ HashesKept
      /\ EthSentOncePerFault' /\ EthEpochs'
  BY <1>1, <1>2, <1>3, <1>5, <1>6, HashWritten DEF EthRecording
<1>8. EthTypeInv'
  <2>1. /\ height \in 0..(MaxHeight + 1) /\ count \in 0..AnchorBatch
        /\ MaxHeight \in Nat /\ AnchorBatch \in Nat
    BY EthTypes DEF EthTypeInv
  <2>2. height' \in 0..(MaxHeight + 1) /\ count' \in 0..AnchorBatch
    <3>1. CASE UNCHANGED <<height, count>>
      BY <2>1, <3>1
    <3>2. CASE pc = "recordOlder" /\ height' = height + 1 /\ count' = count + 1
      BY <1>3, <2>1, <3>2 DEF Height
    <3> QED
      BY <1>2, <3>1, <3>2
  <2>3. sent' \in 0..Len(ethTx')
    BY <1>2, EthTypes
  <2> QED
    BY <1>2, <1>7, <2>2, <2>3 DEF EthTypeInv
<1>9. EthSendingInv' /\ EthPageCovers'
  BY <1>2 DEF EthSendingInv, EthPageCovers, EthRecording
<1> QED
  BY <1>2, <1>7, <1>8, <1>9, CheckedStays

-----------------------------------------------------------------------------
(* Faults and the Factom side. *)

\* A write that fails, or a new process: a new epoch begins.
LEMMA EthFaultKeeps ==
    ASSUME EthereumInv, RecordEthHashFails \/ EthereumRestart
    PROVE  EthereumInv'
<1> USE DEF EthereumInv
<1>1. /\ pc' = "loop" /\ faults' = faults + 1 /\ faults < MaxFaults
      /\ UNCHANGED ethVars /\ UNCHANGED <<ethTx, ethPool, ethBlocks>>
      /\ txs' = {} /\ page' = 0 /\ height' = 0 /\ count' = 0 /\ sent' = 0
      /\ \/ UNCHANGED <<dbVars, lastEthereum>>
         \/ ~Persistent /\ ReopenDatabase /\ lastEthereum' = 0
  BY DEF RecordEthHashFails, EthereumRestart, Fault, Goto, Forget, ReopenDatabase, ethVars
<1>2. DatabaseTypeOK'
  <2>1. CASE UNCHANGED dbVars
    BY <2>1 DEF EthTypeInv, DatabaseTypeOK, dbVars
  <2>2. CASE ReopenDatabase
    BY <2>2, ReopenType DEF EthTypeInv
  <2> QED
    BY <1>1, <2>1, <2>2
<1>3. EthTypeInv'
  <2>1. /\ faults' \in 0..MaxFaults /\ height' \in 0..(MaxHeight + 1)
        /\ count' \in 0..AnchorBatch
    BY <1>1, EthTypes, FaultAssumption
  <2>2. /\ ethTx' \in Seq(EthTx) /\ ethPool' \subseteq DOMAIN ethTx'
        /\ ethBlocks' \in Seq(SUBSET DOMAIN ethTx') /\ Len(ethTx) <= Len(ethTx')
    BY <1>1, EthTypes DEF EthTypeInv
  <2> QED
    BY <1>1, <1>2, <2>1, <2>2, EthUnmoved, EthTypesKept
<1>4. EthEpochs'
  <2>1. \A id \in DOMAIN ethTx :
            ethTx[id].kind = "anchor" /\ ethTx[id].epoch <= MaxFaults =>
                ethTx[id].epoch \in Nat /\ ethTx[id].epoch <= faults
    BY EthTypes DEF EthEpochs
  <2>2. faults \in Nat
    BY EthTypes
  <2> QED
    BY <1>1, <2>1, <2>2 DEF EthEpochs
<1>5. EthSentOncePerFault' /\ EthSendingInv' /\ EthPageCovers'
  BY <1>1 DEF EthSentOncePerFault, EthSendingInv, EthPageCovers, EthRecording
<1>6. EthTxidFirst' /\ CheckedEthAnchorsAreKnown'
  <2>1. CASE UNCHANGED <<dbVars, lastEthereum>>
    <3>1. anchorData' = anchorData
      BY <2>1 DEF dbVars
    <3>2. \A k : /\ Known(k)' <=> Known(k)
                 /\ EthAnchor(k)' = EthAnchor(k)
      BY <3>1 DEF Known, FetchAnchorData, EthAnchor
    <3>3. EthTxidFirst' /\ HashesKept
      BY <3>2 DEF EthTxidFirst, HashesKept
    <3> QED
      BY <1>1, <2>1, <3>3, EthUnmoved, CheckedStays
  <2>2. CASE ~Persistent /\ ReopenDatabase
    BY <2>2
       DEF ReopenDatabase, EthTxidFirst, CheckedEthAnchorsAreKnown, Known, FetchAnchorData
  <2> QED
    BY <1>1, <2>1, <2>2
<1> QED
  BY <1>3, <1>4, <1>5, <1>6

\* The Factom side learns of a block or of a record.
LEMMA FactomMovesKeeps ==
    ASSUME EthereumInv, FactomMoves
    PROVE  EthereumInv'
<1> USE DEF EthereumInv
<1>1. /\ pc = "loop" /\ pc' = "loop" /\ faults' = faults
      /\ UNCHANGED <<chainHead, lastBitcoin, lastEthereum, ethVars, txs, page, height,
                     count, sent, ethTx, ethPool, ethBlocks>>
  BY DEF FactomMoves, processVars, ethVars, ethAnchorVars
<1>2. /\ DatabaseTypeOK' /\ EthTxidFirst' /\ EthKept /\ HashesKept
      /\ EthSentOncePerFault' /\ EthEpochs'
  <2>1. CASE \E h \in Height :
                /\ ~Known(h) /\ InsertAnchorData(h, NewAnchorData)
                /\ lastFactom' = h
    <3>1. PICK h \in Height :
            ~Known(h) /\ InsertAnchorData(h, NewAnchorData) /\ lastFactom' = h
      BY <2>1
    <3>2. /\ anchorData' \in [Height -> AnchorData \cup {Nil}]
          /\ \A k \in Height : Known(k)' <=> Known(k) \/ k = h
          /\ \A m \in Networks :
                anchorData'[h][m] = [txid |-> 0, block |-> 0, entry |-> 0, rec |-> 0]
          /\ \A k \in Height : Known(k) =>
                k # h /\ anchorData'[k] = anchorData[k]
      BY <3>1, EthTypes, OneBlock
    <3>3. /\ \A k \in Height : Known(k) => Known(k)' /\ EthAnchor(k)' = EthAnchor(k)
          /\ EthAnchor(h)'.rec = 0
      BY <3>2 DEF EthAnchor, Networks
    <3>4. DatabaseTypeOK' /\ EthKept
      BY <1>1, <3>1, <3>2, EthUnmoved DEF EthTypeInv, DatabaseTypeOK
    <3>5. EthTxidFirst' /\ HashesKept /\ EthSentOncePerFault'
      BY <1>1, <3>2, <3>3 DEF EthTxidFirst, HashesKept, EthSentOncePerFault
    <3>6. EthEpochs'
      <4> SUFFICES ASSUME NEW id \in DOMAIN ethTx, ethTx[id].kind = "anchor",
                          ethTx[id].epoch <= MaxFaults, ethTx[id].epoch = faults
                   PROVE  Known(ethTx[id].h)' /\ EthAnchor(ethTx[id].h)'.txid # 0
        BY <1>1 DEF EthEpochs, Known, FetchAnchorData, EthAnchor
      <4>1. PICK k \in Height : k = ethTx[id].h
        BY EthTypes
      <4>2. Known(k) /\ EthAnchor(k).txid # 0
        BY <1>1, <4>1 DEF EthEpochs, EthRecording
      <4>3. Known(k)' /\ EthAnchor(k)'.txid # 0
        BY <3>3, <4>2
      <4> QED
        BY <1>1, <4>1, <4>3 DEF Known, FetchAnchorData, EthAnchor
    <3> QED
      BY <3>4, <3>5, <3>6
  <2>2. CASE \E h \in Height :
                /\ Known(h)
                /\ InsertAnchorData(h, [anchorData[h] EXCEPT !["Ethereum"] =
                        [txid |-> 1, block |-> 1, entry |-> 1, rec |-> MaxHeight]])
                /\ UNCHANGED lastFactom
    <3> DEFINE a == [txid |-> 1, block |-> 1, entry |-> 1, rec |-> MaxHeight]
    <3>1. a \in NetAnchor /\ a.txid # 0
      BY DatabaseAssumption DEF NetAnchor, Height
    <3>2. PICK h \in Height :
            /\ Known(h) /\ UNCHANGED lastFactom
            /\ InsertAnchorData(h, [anchorData[h] EXCEPT !["Ethereum"] = a])
      BY <2>2
    <3> HIDE DEF a
    <3> QED
      BY <1>1, <3>1, <3>2, HashWritten DEF EthRecording
  <2> QED
    BY <2>1, <2>2 DEF FactomMoves
<1>3. EthTypeInv'
  BY <1>1, <1>2 DEF EthTypeInv
<1>4. EthSendingInv' /\ EthPageCovers'
  BY <1>1 DEF EthSendingInv, EthPageCovers, EthRecording
<1> QED
  BY <1>1, <1>2, <1>3, <1>4, CheckedStays

-----------------------------------------------------------------------------
(* The theorems. *)

\* The steps that end, begin or pass something: no send and no hash.
LEMMA EthPassKeeps ==
    ASSUME EthereumInv,
           \/ NoTxs \/ RefuseEthTx \/ BeginEthereum \/ NewestEthNotSent \/ SkipOlderEth
           \/ OlderEthDone \/ EthereumFails \/ EthRound
    PROVE  EthereumInv'
<1>1. /\ height \in 0..(MaxHeight + 1) /\ count \in 0..AnchorBatch
      /\ MaxHeight \in Nat /\ AnchorBatch \in Nat
      /\ chainHead # Nil => chainHead \in Height
  BY EthTypes DEF EthereumInv, EthTypeInv, DatabaseTypeOK
<1>2. CASE BeginEthereum
  <2>1. AfterHead \in 0..(MaxHeight + 1)
    BY <1>1 DEF AfterHead, Height
  <2> QED
    BY <1>1, <1>2, <2>1, EthMoveKeeps DEF BeginEthereum, Normally, Goto, EthRecording
<1>3. CASE SkipOlderEth
  <2>1. height + 1 \in 0..(MaxHeight + 1)
    <3>1. height \in Height
      BY <1>3 DEF SkipOlderEth, Known, FetchAnchorData
    <3> QED
      BY <1>1, <3>1 DEF Height
  <2> QED
    BY <1>1, <1>3, <2>1, EthMoveKeeps DEF SkipOlderEth, processVars, EthRecording
<1>4. CASE NoTxs \/ NewestEthNotSent \/ EthRound
  <2>1. /\ faults' = faults /\ UNCHANGED <<dbVars, ethVars, lastEthereum>>
        /\ ~EthRecording /\ pc' \notin {"ethTx", "recordNewest", "recordOlder"}
        /\ UNCHANGED <<txs, page, height, count, sent>>
    BY <1>4
       DEF NoTxs, NewestEthNotSent, EthRound, Normally, Goto, EthRecording, ethAnchorVars
  <2> QED
    BY <1>1, <2>1, EthMoveKeeps
<1>5. CASE RefuseEthTx \/ OlderEthDone \/ EthereumFails
  <2>1. /\ faults' = faults /\ UNCHANGED <<dbVars, ethVars, lastEthereum>>
        /\ ~EthRecording /\ pc' = "loop"
        /\ txs' = {} /\ page' = 0 /\ height' = 0 /\ count' = 0 /\ sent' = 0
    BY <1>5
       DEF RefuseEthTx, OlderEthDone, EthereumFails, FailedCall, Failed, Normally, Goto,
           EthRecording, Forget
  <2>2. height' \in 0..(MaxHeight + 1) /\ count' \in 0..AnchorBatch
    BY <1>1, <2>1
  <2> QED
    BY <2>1, <2>2, EthMoveKeeps
<1> QED
  BY <1>2, <1>3, <1>4, <1>5

\* Nothing is known, sent or mined at first.
LEMMA EthereumInitInv ==
    ASSUME EthereumAnchorInit
    PROVE  EthereumInv
<1>1. /\ pc = "loop" /\ faults = 0 /\ DatabaseInit /\ lastEthereum = 0
      /\ ethTx = <<>> /\ ethPool = {} /\ ethBlocks = <<>>
      /\ txs = {} /\ page = 0 /\ height = 0 /\ count = 0 /\ sent = 0
  BY DEF EthereumAnchorInit, EthereumInit
<1>2. DatabaseTypeOK /\ \A h : ~Known(h)
  BY <1>1, DatabaseAssumption
     DEF DatabaseInit, DatabaseTypeOK, Height, Known, FetchAnchorData
<1>3. EthTypeInv
  <2>1. <<>> \in Seq(EthTx) /\ <<>> \in Seq(SUBSET DOMAIN ethTx) /\ Len(<<>>) = 0
    OBVIOUS
  <2>2. /\ faults \in 0..MaxFaults /\ height \in 0..(MaxHeight + 1)
        /\ count \in 0..AnchorBatch
    BY <1>1, FaultAssumption, DatabaseAssumption
  <2> QED
    BY <1>1, <1>2, <2>1, <2>2 DEF EthTypeInv
<1>4. DOMAIN ethTx = {} /\ DOMAIN ethBlocks = {}
  BY <1>1
<1> QED
  BY <1>1, <1>2, <1>3, <1>4
     DEF EthereumInv, EthTxidFirst, EthSendingInv, EthEpochs, EthSentOncePerFault,
         EthPageCovers, CheckedEthAnchorsAreKnown, EthRecording

\* Every step of the component with its environment, a stuttering one included.
LEMMA EthereumNextKeeps ==
    ASSUME EthereumInv, [EthereumAnchorNext]_ethereumAnchorVars
    PROVE  EthereumInv'
<1>1. CASE SynchronizeEthereumData
  BY <1>1, EthPassKeeps, ListTxsKeeps, ProcessEthTxKeeps, SaveEthereumStateKeeps
     DEF SynchronizeEthereumData
<1>2. CASE AnchorBlocksIntoEthereum
  BY <1>2, EthPassKeeps, EthSentKeeps, RecordEthHashKeeps DEF AnchorBlocksIntoEthereum
<1>3. CASE UNCHANGED ethereumAnchorVars
  <2>1. /\ UNCHANGED <<pc, faults, dbVars, ethVars, lastEthereum, txs, page, height, count,
                       sent>>
        /\ UNCHANGED <<anchorData, chainHead, lastFactom, lastBitcoin, ethTx, ethPool,
                       ethBlocks>>
    BY <1>3 DEF ethereumAnchorVars, processVars, dbVars, ethVars, ethAnchorVars
  <2>2. EthTypeInv'
    BY <2>1 DEF EthereumInv, EthTypeInv, DatabaseTypeOK
  <2>3. \A h : /\ Known(h)' <=> Known(h)
               /\ EthAnchor(h)' = EthAnchor(h)
               /\ NeedsEthAnchor(h)' <=> NeedsEthAnchor(h)
    BY <2>1 DEF Known, FetchAnchorData, EthAnchor, NeedsEthAnchor
  <2>4. /\ EthTxidFirst' /\ EthSendingInv' /\ EthEpochs' /\ EthSentOncePerFault'
        /\ HashesKept
    BY <2>1, <2>3
       DEF EthereumInv, EthTxidFirst, EthSendingInv, EthEpochs, EthSentOncePerFault,
           HashesKept, EthRecording, EthTarget
  <2>5. EthKept
    BY <2>1, EthUnmoved DEF EthereumInv
  <2> QED
    BY <2>1, <2>2, <2>4, <2>5, CheckedStays, CoverStays DEF EthereumInv
<1> QED
  BY <1>1, <1>2, <1>3, EthPassKeeps, EthSentKeeps, EthFaultKeeps, FactomMovesKeeps,
     EthereumMovesKeeps
     DEF EthereumAnchorNext

\* The invariant holds of the component in its environment.
THEOREM EthereumInvariance == EthereumAnchorSpec => []EthereumInv
BY EthereumInitInv, EthereumNextKeeps, PTL DEF EthereumAnchorSpec

\* AnchorBlocksIntoEthereum sends no directory block again unless a failure lost
\* track of a transaction, whatever others with the same wallet send.
THEOREM NoSecondEthSend == EthereumAnchorSpec => []EthSentOncePerFault
BY EthereumInvariance, PTL DEF EthereumInv

\* SynchronizeEthereumData moves LastEthereumBlockChecked only past anchors whose
\* blocks have a hash by then, whatever of a block a full page leaves out.
THEOREM NoPageHalfRead == EthereumAnchorSpec => []CheckedEthAnchorsAreKnown
BY EthereumInvariance, PTL DEF EthereumInv

-----------------------------------------------------------------------------
(* What the database says of Ethereum is so. *)

\* Unless a record said it, a stored hash is that of a transaction with the KeyMR
\* of its block, and a stored Ethereum block holds that transaction.
EthAnchorIsTrue(h) ==
    Known(h) /\ EthAnchor(h).rec = 0 =>
        /\ EthAnchor(h).txid # 0 =>
            /\ EthAnchor(h).txid \in DOMAIN ethTx
            /\ ethTx[EthAnchor(h).txid].kind = "anchor"
            /\ ethTx[EthAnchor(h).txid].h = h
        /\ EthAnchor(h).block # 0 =>
            /\ EthAnchor(h).block \in DOMAIN ethBlocks
            /\ EthAnchor(h).txid \in ethBlocks[EthAnchor(h).block]
EthStoredIsTrue == \A h \in Height : EthAnchorIsTrue(h)

\* The listed transactions are in the blocks that the list names, and the hash to
\* be recorded is that of the transaction just sent for the block.
EthListIsTrue == \A t \in txs : t.id \in ethBlocks[t.block]
EthSentIsTrue ==
    EthRecording =>
        /\ sent \in DOMAIN ethTx
        /\ ethTx[sent].kind = "anchor" /\ ethTx[sent].h = EthTarget

\* The three together are inductive.
EthTruth == EthStoredIsTrue /\ EthListIsTrue /\ EthSentIsTrue

\* The hash of a block, once there, is replaced by nothing but a record, and until
\* then neither is the Ethereum block that was stored with it, if one was.
EthHashIsFinal ==
    [][\A h \in Height :
        Known(h) /\ EthAnchor(h).txid # 0 /\ Known(h)' =>
            \/ EthAnchor(h)' = EthAnchor(h)
            \/ pc = "loop" /\ EthAnchor(h)'.rec # 0]_ethereumAnchorVars

\* An anchor that stays as it was is as true as it was.
LEMMA EthAnchorStaysTrue ==
    ASSUME EthTypeInv, EthTypeInv', EthKept, NEW h \in Height, EthAnchorIsTrue(h),
           Known(h), EthAnchor(h)' = EthAnchor(h)
    PROVE  EthAnchorIsTrue(h)'
<1>1. PICK a : a = EthAnchor(h) /\ a = EthAnchor(h)'
  OBVIOUS
<1>2. SUFFICES ASSUME a.rec = 0
               PROVE  /\ a.txid # 0 => /\ a.txid \in DOMAIN ethTx'
                                       /\ ethTx'[a.txid].kind = "anchor"
                                       /\ ethTx'[a.txid].h = h
                      /\ a.block # 0 => /\ a.block \in DOMAIN ethBlocks'
                                        /\ a.txid \in ethBlocks'[a.block]
  BY <1>1 DEF EthAnchorIsTrue
<1>3. /\ a.txid # 0 => /\ a.txid \in DOMAIN ethTx
                       /\ ethTx[a.txid].kind = "anchor" /\ ethTx[a.txid].h = h
      /\ a.block # 0 => /\ a.block \in DOMAIN ethBlocks
                        /\ a.txid \in ethBlocks[a.block]
  BY <1>1, <1>2 DEF EthAnchorIsTrue
<1>4. \A b \in DOMAIN ethBlocks : b \in DOMAIN ethBlocks' /\ ethBlocks'[b] = ethBlocks[b]
  BY EthBlocksStay
<1> QED
  BY <1>3, <1>4 DEF EthKept

\* What a step does to the anchors: it leaves one alone, takes it from a record, or
\* writes what is so where there was no hash.
EthStoredStep ==
    \A h \in Height : Known(h)' =>
        \/ Known(h) /\ EthAnchor(h)' = EthAnchor(h)
        \/ pc = "loop" /\ EthAnchor(h)'.rec # 0
        \/ (Known(h) => EthAnchor(h).txid = 0) /\ EthAnchorIsTrue(h)'

\* Where there is no hash there is no record and no block either.
LEMMA NoHashNoBlock ==
    ASSUME EthereumInv, EthStoredIsTrue, NEW h \in Height, Known(h), EthAnchor(h).txid = 0
    PROVE  EthAnchor(h).rec = 0 /\ EthAnchor(h).block = 0
<1>1. EthAnchor(h).rec = 0
  BY DEF EthereumInv, EthTxidFirst
<1>2. ASSUME EthAnchor(h).block # 0
      PROVE  FALSE
  <2>1. /\ EthAnchor(h).block \in DOMAIN ethBlocks
        /\ EthAnchor(h).txid \in ethBlocks[EthAnchor(h).block]
    BY <1>1, <1>2 DEF EthStoredIsTrue, EthAnchorIsTrue
  <2> QED
    BY <2>1, EthTypes DEF EthereumInv
<1> QED
  BY <1>1, <1>2

\* A hash is written where there was none.
LEMMA HashIsTrue ==
    ASSUME EthereumInv, EthStoredIsTrue, NEW h \in Height, Known(h), EthAnchor(h).txid = 0,
           NEW id \in DOMAIN ethTx, NEW b \in Nat,
           ethTx[id].kind = "anchor", ethTx[id].h = h,
           b # 0 => b \in DOMAIN ethBlocks /\ id \in ethBlocks[b],
           InsertAnchorData(h, [anchorData[h] EXCEPT
                !["Ethereum"] = [EthAnchor(h) EXCEPT !.txid = id, !.block = b]]),
           UNCHANGED <<chainHead, lastFactom, lastBitcoin, ethVars, faults>>
    PROVE  EthKept /\ EthStoredStep
<1> DEFINE a == [EthAnchor(h) EXCEPT !.txid = id, !.block = b]
<1>1. a \in NetAnchor /\ a.txid = id /\ a.block = b /\ id # 0
  <2>1. EthAnchor(h) \in NetAnchor
    BY AnchorType, EthTypes, KnownData DEF EthAnchor, Networks, AnchorData, EthereumInv
  <2>2. id \in Nat \ {0}
    BY EthTypes DEF EthereumInv
  <2> QED
    BY <2>1, <2>2 DEF NetAnchor
<1>2. InsertAnchorData(h, [anchorData[h] EXCEPT !["Ethereum"] = a])
  OBVIOUS
<1> HIDE DEF a
<1>3. /\ EthKept
      /\ \A k \in Height : Known(k)' <=> Known(k)
      /\ \A k \in Height : Known(k) =>
            EthAnchor(k)' = IF k = h THEN a ELSE EthAnchor(k)
  BY <1>1, <1>2, HashWritten
<1>4. EthAnchorIsTrue(h)'
  <2>1. EthAnchor(h)' = a
    BY <1>3
  <2> QED
    BY <1>1, <2>1 DEF EthAnchorIsTrue, ethVars
<1> QED
  BY <1>3, <1>4 DEF EthStoredStep

\* A listed transaction is taken or passed.
LEMMA ProcessEthTxIsTrue ==
    ASSUME EthereumInv, EthTruth, ProcessEthTx
    PROVE  EthKept /\ EthStoredStep
<1> USE DEF EthereumInv, EthTruth
<1>1. PICK t \in txs :
        IF IsNewEthAnchor(t) THEN SaveEthTx(t) ELSE UNCHANGED anchorData
  BY DEF ProcessEthTx
<1>2. UNCHANGED <<faults, chainHead, lastFactom, lastBitcoin, ethVars>>
  BY DEF ProcessEthTx, processVars
<1>3. CASE IsNewEthAnchor(t)
  <2>1. PICK h \in Height : h = ethTx[t.id].h
    BY EthTypes
  <2>2. /\ t.id \in DOMAIN ethTx /\ t.block \in DOMAIN ethBlocks /\ t.block \in Nat
        /\ t.id \in ethBlocks[t.block]
    BY EthTypes DEF EthListIsTrue
  <2>3. ethTx[t.id].kind = "anchor" /\ Known(h) /\ EthAnchor(h).txid = 0
    BY <1>3, <2>1 DEF IsNewEthAnchor, EthAnchor
  <2>4. InsertAnchorData(h, [anchorData[h] EXCEPT
            !["Ethereum"] = [EthAnchor(h) EXCEPT !.txid = t.id, !.block = t.block]])
    <3>1. anchorData[h] \in [Networks -> NetAnchor]
      BY <2>3, EthTypes, KnownData DEF AnchorData
    <3>2. [anchorData[h] EXCEPT !["Ethereum"].txid = t.id, !["Ethereum"].block = t.block]
            = [anchorData[h] EXCEPT
                 !["Ethereum"] = [EthAnchor(h) EXCEPT !.txid = t.id, !.block = t.block]]
      BY <3>1 DEF EthAnchor, Networks, NetAnchor
    <3> QED
      BY <1>1, <1>3, <2>1, <3>2 DEF SaveEthTx
  <2> QED
    BY <1>2, <2>1, <2>2, <2>3, <2>4, HashIsTrue
<1>4. CASE ~IsNewEthAnchor(t)
  <2>1. anchorData' = anchorData
    BY <1>1, <1>4
  <2> QED
    BY <1>2, <2>1, EthUnmoved DEF EthStoredStep, Known, FetchAnchorData, EthAnchor
<1> QED
  BY <1>3, <1>4

\* The hash of a send is recorded: that of the transaction of this block.
LEMMA RecordEthHashIsTrue ==
    ASSUME EthereumInv, EthTruth, RecordEthHash
    PROVE  EthKept /\ EthStoredStep
<1>1. PICK h : h = EthTarget
  OBVIOUS
<1>2. /\ EthRecording
      /\ InsertAnchorData(h, [anchorData[h] EXCEPT !["Ethereum"].txid = sent])
      /\ UNCHANGED <<chainHead, lastFactom, lastBitcoin, ethVars, faults>>
  BY <1>1 DEF RecordEthHash, EthRecording, EthTarget, Normally, Goto
<1>3. /\ NeedsEthAnchor(h) /\ sent \in DOMAIN ethTx
      /\ ethTx[sent].kind = "anchor" /\ ethTx[sent].h = h
  BY <1>1, <1>2 DEF EthereumInv, EthTruth, EthSendingInv, EthSentIsTrue
<1>4. Known(h) /\ EthAnchor(h).txid = 0 /\ h \in Height
  BY <1>3, KnownData, EthTypes DEF EthereumInv, NeedsEthAnchor, EthAnchor
<1>5. PICK b \in Nat : b = 0 /\ EthAnchor(h).block = b
  BY <1>4, NoHashNoBlock DEF EthTruth
<1>6. InsertAnchorData(h, [anchorData[h] EXCEPT
        !["Ethereum"] = [EthAnchor(h) EXCEPT !.txid = sent, !.block = b]])
  <2>1. anchorData[h] \in [Networks -> NetAnchor]
    BY <1>4, EthTypes, KnownData DEF EthereumInv, AnchorData
  <2>2. [anchorData[h] EXCEPT !["Ethereum"].txid = sent]
          = [anchorData[h] EXCEPT
               !["Ethereum"] = [EthAnchor(h) EXCEPT !.txid = sent, !.block = b]]
    BY <1>5, <2>1 DEF EthAnchor, Networks, NetAnchor
  <2> QED
    BY <1>2, <2>2
<1>7. EthStoredIsTrue /\ (b # 0 => b \in DOMAIN ethBlocks /\ sent \in ethBlocks[b])
  BY <1>5 DEF EthTruth
<1> QED
  BY <1>2, <1>3, <1>4, <1>6, <1>7, HashIsTrue

\* The Factom side learns of a block, which has no hash, or of a record.
LEMMA FactomMovesIsTrue ==
    ASSUME EthereumInv, FactomMoves
    PROVE  EthKept /\ EthStoredStep
<1> USE DEF EthereumInv
<1>1. pc = "loop" /\ UNCHANGED <<chainHead, lastBitcoin, ethVars, faults>>
  BY DEF FactomMoves, processVars
<1>2. CASE \E h \in Height :
            ~Known(h) /\ InsertAnchorData(h, NewAnchorData)
  <2>1. PICK h \in Height : ~Known(h) /\ InsertAnchorData(h, NewAnchorData)
    BY <1>2
  <2>2. /\ \A k \in Height : Known(k)' <=> Known(k) \/ k = h
        /\ \A m \in Networks :
              anchorData'[h][m] = [txid |-> 0, block |-> 0, entry |-> 0, rec |-> 0]
        /\ \A k \in Height : Known(k) => k # h /\ anchorData'[k] = anchorData[k]
    BY <2>1, EthTypes, OneBlock
  <2>3. EthAnchorIsTrue(h)'
    BY <2>2 DEF EthAnchorIsTrue, EthAnchor, Networks
  <2> QED
    BY <1>1, <2>1, <2>2, <2>3, EthUnmoved DEF EthStoredStep, EthAnchor
<1>3. CASE \E h \in Height :
            /\ Known(h) /\ MaxHeight > 0
            /\ InsertAnchorData(h, [anchorData[h] EXCEPT !["Ethereum"] =
                    [txid |-> 1, block |-> 1, entry |-> 1, rec |-> MaxHeight]])
            /\ UNCHANGED lastFactom
  <2> DEFINE a == [txid |-> 1, block |-> 1, entry |-> 1, rec |-> MaxHeight]
  <2>1. a \in NetAnchor /\ a.txid # 0 /\ (MaxHeight > 0 => a.rec # 0)
    BY DatabaseAssumption DEF NetAnchor, Height
  <2>2. PICK h \in Height :
          /\ Known(h) /\ MaxHeight > 0 /\ UNCHANGED lastFactom
          /\ InsertAnchorData(h, [anchorData[h] EXCEPT !["Ethereum"] = a])
    BY <1>3
  <2> HIDE DEF a
  <2>3. /\ EthKept
        /\ \A k \in Height : Known(k)' <=> Known(k)
        /\ \A k \in Height : Known(k) =>
              EthAnchor(k)' = IF k = h THEN a ELSE EthAnchor(k)
    BY <1>1, <2>1, <2>2, HashWritten
  <2> QED
    BY <1>1, <2>1, <2>2, <2>3 DEF EthStoredStep
<1> QED
  BY <1>2, <1>3 DEF FactomMoves

\* Every step, a stuttering one included, keeps what was stored and writes what is so.
LEMMA EthereumNextStores ==
    ASSUME EthereumInv, EthTruth, [EthereumAnchorNext]_ethereumAnchorVars
    PROVE  EthKept /\ EthStoredStep
<1> USE DEF EthereumInv
<1>1. ASSUME EthKept, anchorData' = anchorData
      PROVE  EthKept /\ EthStoredStep
  BY <1>1 DEF EthStoredStep, Known, FetchAnchorData, EthAnchor
<1>2. ASSUME UNCHANGED ethVars, anchorData' = anchorData
      PROVE  EthKept /\ EthStoredStep
  BY <1>1, <1>2, EthUnmoved
<1>3. CASE SynchronizeEthereumData
  <2>1. CASE NoTxs \/ ListTxs \/ RefuseEthTx \/ SaveEthereumState
    BY <1>2, <2>1 DEF NoTxs, ListTxs, RefuseEthTx, SaveEthereumState, dbVars
  <2> QED
    BY <1>3, <2>1, ProcessEthTxIsTrue DEF SynchronizeEthereumData
<1>4. CASE SendEthAnchor \/ EthReplyLost
  <2>1. PICK h \in Height : SendEthTx(h, "anchor", faults)
    BY <1>4 DEF SendEthAnchor, EthReplyLost
  <2>2. EthKept
    BY <2>1, SendType, EthTypes
  <2> QED
    BY <1>1, <1>4, <2>2 DEF SendEthAnchor, EthReplyLost, dbVars
<1>5. CASE AnchorBlocksIntoEthereum
  <2>1. CASE BeginEthereum \/ NewestEthNotSent \/ SkipOlderEth \/ OlderEthDone
    BY <1>2, <2>1
       DEF BeginEthereum, NewestEthNotSent, SkipOlderEth, OlderEthDone, dbVars
  <2> QED
    BY <1>4, <1>5, <2>1, RecordEthHashIsTrue DEF AnchorBlocksIntoEthereum
<1>6. CASE EthereumFails \/ RecordEthHashFails \/ EthRound
  BY <1>2, <1>6 DEF EthereumFails, RecordEthHashFails, EthRound, dbVars
<1>7. CASE EthereumMoves
  BY <1>1, <1>7, EthereumGrows DEF EthereumMoves, dbVars
<1>8. CASE EthereumRestart
  <2>1. UNCHANGED ethVars /\ ReopenDatabase
    BY <1>8 DEF EthereumRestart
  <2>2. CASE Persistent
    BY <1>2, <2>1, <2>2 DEF ReopenDatabase, dbVars
  <2>3. CASE ~Persistent
    BY <2>1, <2>3, EthUnmoved DEF ReopenDatabase, EthStoredStep, Known, FetchAnchorData
  <2> QED
    BY <2>2, <2>3
<1>9. CASE UNCHANGED ethereumAnchorVars
  BY <1>2, <1>9 DEF ethereumAnchorVars, dbVars
<1> QED
  BY <1>3, <1>4, <1>5, <1>6, <1>7, <1>8, <1>9, FactomMovesIsTrue DEF EthereumAnchorNext

\* What is listed stays in its block, and a new list is read from the blocks.
LEMMA EthListStaysTrue ==
    ASSUME EthereumInv, EthereumInv', EthTruth, EthKept,
           [EthereumAnchorNext]_ethereumAnchorVars
    PROVE  EthListIsTrue'
<1> USE DEF EthereumInv, EthTruth
<1>1. ASSUME txs' \subseteq txs
      PROVE  EthListIsTrue'
  BY <1>1, EthTypes, EthBlocksStay DEF EthListIsTrue
<1>2. CASE ListTxs
  <2>1. txs' \in FirstPages(TxsFrom(lastEthereum)) /\ ethBlocks' = ethBlocks
    BY <1>2 DEF ListTxs, ethVars
  <2>2. txs' \subseteq TxsFrom(lastEthereum)
    BY <2>1 DEF FirstPages
  <2>3. \A t \in TxsFrom(lastEthereum) : t.id \in ethBlocks[t.block]
    BY DEF TxsFrom
  <2> QED
    BY <2>1, <2>2, <2>3 DEF EthListIsTrue
<1>3. CASE ProcessEthTx
  BY <1>1, <1>3 DEF ProcessEthTx
<1>4. CASE \/ RefuseEthTx \/ SaveEthereumState \/ OlderEthDone \/ EthereumFails
           \/ EthReplyLost \/ RecordEthHashFails \/ EthereumRestart
  <2>1. Forget
    BY <1>4
       DEF RefuseEthTx, SaveEthereumState, OlderEthDone, EthereumFails, EthReplyLost,
           RecordEthHashFails, EthereumRestart
  <2> QED
    BY <1>1, <2>1 DEF Forget
<1>5. CASE \/ NoTxs \/ BeginEthereum \/ SendEthAnchor \/ NewestEthNotSent \/ RecordEthHash
           \/ SkipOlderEth \/ FactomMoves \/ EthRound \/ EthereumMoves
  <2>1. txs' = txs
    BY <1>5
       DEF NoTxs, BeginEthereum, SendEthAnchor, NewestEthNotSent, RecordEthHash,
           SkipOlderEth, FactomMoves, EthRound, EthereumMoves, ethAnchorVars
  <2> QED
    BY <1>1, <2>1
<1>6. CASE UNCHANGED ethereumAnchorVars
  BY <1>1, <1>6 DEF ethereumAnchorVars, ethAnchorVars
<1> QED
  BY <1>2, <1>3, <1>4, <1>5, <1>6
     DEF EthereumAnchorNext, SynchronizeEthereumData, AnchorBlocksIntoEthereum

\* The transaction that waits for its hash to be recorded stays what it is, and
\* so does the block it was sent for.
LEMMA EthSentStaysTrue ==
    ASSUME EthereumInv, EthTruth, EthKept, [EthereumAnchorNext]_ethereumAnchorVars
    PROVE  EthSentIsTrue'
<1> USE DEF EthereumInv, EthTruth
<1>1. CASE SendEthAnchor
  <2>1. PICK h \in Height : At(h) /\ SendEthTx(h, "anchor", faults)
    BY <1>1 DEF SendEthAnchor
  <2>2. /\ sent' = Len(ethTx')
        /\ pc' = IF pc = "newest" THEN "recordNewest" ELSE "recordOlder"
        /\ UNCHANGED <<lastFactom, height>>
    BY <1>1 DEF SendEthAnchor, Normally, Goto, dbVars
  <2>3. EthTarget' = h
    BY <2>1, <2>2 DEF At, EthTarget
  <2>4. /\ Len(ethTx') = Len(ethTx) + 1
        /\ DOMAIN ethTx' = DOMAIN ethTx \cup {Len(ethTx) + 1}
        /\ ethTx'[Len(ethTx) + 1] = [h |-> h, kind |-> "anchor", epoch |-> faults]
    BY <2>1, SendType, EthTypes
  <2> QED
    BY <2>2, <2>3, <2>4 DEF EthSentIsTrue
<1>2. ASSUME UNCHANGED <<pc, sent, height, lastFactom>>
      PROVE  EthSentIsTrue'
  <2>1. EthTarget' = EthTarget /\ EthRecording' = EthRecording
    BY <1>2 DEF EthTarget, EthRecording
  <2> QED
    BY <1>2, <2>1 DEF EthSentIsTrue, EthKept
<1>3. CASE EthereumMoves \/ UNCHANGED ethereumAnchorVars
  BY <1>2, <1>3 DEF EthereumMoves, ethereumAnchorVars, processVars, dbVars, ethAnchorVars
<1>4. ASSUME pc' \notin {"recordNewest", "recordOlder"}
      PROVE  EthSentIsTrue'
  BY <1>4 DEF EthSentIsTrue, EthRecording
<1>5. CASE SynchronizeEthereumData
  BY <1>4, <1>5
     DEF SynchronizeEthereumData, NoTxs, ListTxs, ProcessEthTx, RefuseEthTx,
         SaveEthereumState, Normally, Goto, processVars
<1>6. CASE \/ BeginEthereum \/ NewestEthNotSent \/ RecordEthHash \/ SkipOlderEth
           \/ OlderEthDone
  BY <1>4, <1>6
     DEF BeginEthereum, NewestEthNotSent, RecordEthHash, SkipOlderEth, OlderEthDone,
         Normally, Goto, processVars
<1>7. CASE \/ EthereumFails \/ EthReplyLost \/ RecordEthHashFails \/ FactomMoves
           \/ EthRound \/ EthereumRestart
  BY <1>4, <1>7
     DEF EthereumFails, EthReplyLost, RecordEthHashFails, FactomMoves, EthRound,
         EthereumRestart, FailedCall, Failed, Fault, Normally, Goto, processVars
<1> QED
  BY <1>1, <1>3, <1>5, <1>6, <1>7 DEF EthereumAnchorNext, AnchorBlocksIntoEthereum

\* The three together are kept.
LEMMA EthereumNextKeepsTruth ==
    ASSUME EthereumInv, EthereumInv', EthTruth, [EthereumAnchorNext]_ethereumAnchorVars
    PROVE  EthTruth'
<1>1. EthKept /\ EthStoredStep
  BY EthereumNextStores
<1>2. EthStoredIsTrue'
  <2> SUFFICES ASSUME NEW h \in Height
               PROVE  EthAnchorIsTrue(h)'
    BY DEF EthStoredIsTrue
  <2>1. CASE Known(h) /\ EthAnchor(h)' = EthAnchor(h)
    BY <1>1, <2>1, EthAnchorStaysTrue DEF EthTruth, EthStoredIsTrue, EthereumInv
  <2>2. CASE ~Known(h)' \/ EthAnchor(h)'.rec # 0
    BY <2>2 DEF EthAnchorIsTrue
  <2> QED
    BY <1>1, <2>1, <2>2 DEF EthStoredStep
<1> QED
  BY <1>1, <1>2, EthListStaysTrue, EthSentStaysTrue DEF EthTruth

\* Nothing is known, listed or sent at first.
LEMMA EthereumInitTruth ==
    ASSUME EthereumAnchorInit
    PROVE  EthTruth
BY DatabaseAssumption
   DEF EthereumAnchorInit, DatabaseInit, EthTruth, EthStoredIsTrue, EthAnchorIsTrue,
       EthListIsTrue, EthSentIsTrue, EthRecording, Known, FetchAnchorData, Height

\* It holds of the component in its environment.
THEOREM EthereumTruth == EthereumAnchorSpec => []EthTruth
BY EthereumInitTruth, EthereumNextKeepsTruth, EthereumInvariance, PTL
   DEF EthereumAnchorSpec

\* SynchronizeEthereumData and AnchorBlocksIntoEthereum store for a block only the
\* hash of a transaction that carries its KeyMR, and only the Ethereum block that
\* holds this transaction, whatever others send and however calls fail.
THEOREM EthStoredAlwaysTrue == EthereumAnchorSpec => []EthStoredIsTrue
BY EthereumTruth, PTL DEF EthTruth

\* No second transaction, no later page and no recorded send replaces the hash of a
\* block; so a hash that was recorded when it was sent gets its Ethereum block from
\* a record only.
THEOREM EthHashStays == EthereumAnchorSpec => EthHashIsFinal
<1>1. ASSUME EthStoredStep
      PROVE  [\A h \in Height :
                Known(h) /\ EthAnchor(h).txid # 0 /\ Known(h)' =>
                    \/ EthAnchor(h)' = EthAnchor(h)
                    \/ pc = "loop" /\ EthAnchor(h)'.rec # 0]_ethereumAnchorVars
  BY <1>1 DEF EthStoredStep
<1> QED
  BY <1>1, EthereumNextStores, EthereumTruth, EthereumInvariance, PTL
     DEF EthereumAnchorSpec, EthHashIsFinal
=============================================================================

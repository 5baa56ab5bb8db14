-------------------------- MODULE BitcoinAnchorProofs --------------------------
(***************************************************************************)
(* Proofs about the Bitcoin synchronization and anchoring (BitcoinAnchor): *)
(* no directory block is sent twice without a failure in between, what the *)
(* checked part of the chain holds is known, and what is stored of an      *)
(* anchor is true.  The lemmas about its own steps, about Bitcoin and      *)
(* about what others may do are cited for the whole program as well.       *)
(***************************************************************************)
EXTENDS BitcoinAnchor, AnchorDatabaseProofs, WellFoundedInduction, SequenceTheorems

-----------------------------------------------------------------------------
(* The inductive invariant. *)

\* The anchor of a block; where the locals of the component are in use; where a
\* send waits for its txid to be recorded, and the block it was sent for.
BtcAnchor(h) == anchorData[h]["Bitcoin"]
Busy == {"tx", "newest", "recordNewest", "older", "recordOlder"}
Recording == pc \in {"recordNewest", "recordOlder"}
Target == IF pc = "recordNewest" THEN lastFactom ELSE height

\* A transaction that is an anchor of a block known with txid and block hash, or no
\* anchor.
IsAnchor(id) == btcTx[id].kind = "anchor"
Settled(id) ==
    IsAnchor(id) =>
        /\ Known(btcTx[id].h)
        /\ BtcAnchor(btcTx[id].h).txid # 0
        /\ BtcAnchor(btcTx[id].h).block # 0

\* What is below a block was mined, and a malleated transaction copies one there is.
NetworkInv ==
    /\ BitcoinTypeOK
    /\ \A b \in DOMAIN btcBlocks : btcBlocks[b].below \subseteq DOMAIN btcBlocks
    /\ \A id \in DOMAIN btcTx : btcTx[id].of \in DOMAIN btcTx

\* The types, with every id and block number within what there is so far.
BitcoinTypeInv ==
    /\ ProcessTypeOK
    /\ DatabaseTypeOK
    /\ NetworkInv
    /\ lastBitcoin \in 0..Len(btcBlocks)
    /\ listed \subseteq [id: DOMAIN btcTx, block: DOMAIN btcBlocks]
    /\ newBlock \in 0..Len(btcBlocks)
    /\ sent \in 0..Len(btcTx)
    /\ height \in 0..(MaxHeight + 1)
    /\ count \in 0..AnchorBatch

\* A block hash comes with a txid, and a record with a block hash.
TxidFirst ==
    \A h \in Height : Known(h) =>
        /\ BtcAnchor(h).block # 0 => BtcAnchor(h).txid # 0
        /\ BtcAnchor(h).rec > 0 => BtcAnchor(h).block # 0

\* A send that waits for its txid was one of a block that needed it.
SendingInv ==
    Recording =>
        /\ sent # 0
        /\ NeedsAnchor(Target)
        /\ pc = "recordOlder" => count < AnchorBatch

\* Every anchor of the present epoch is recorded or about to be.
TxEpochs ==
    \A id \in DOMAIN btcTx : IsAnchor(id) =>
        /\ btcTx[id].epoch <= faults
        /\ btcTx[id].epoch = faults =>
            LET h == btcTx[id].h IN
            Known(h) /\ (BtcAnchor(h).txid # 0 \/ (Recording /\ h = Target))

\* A database on disk knows every block that was ever sent for.
SentBlocksKnown ==
    Persistent => \A id \in DOMAIN btcTx : IsAnchor(id) => Known(btcTx[id].h)

\* A transaction is listed with the block that holds it; stored blocks were mined.
ListedInBlocks == \A t \in listed : t.id \in btcBlocks[t.block].txs
StoredBlocksExist ==
    \A h \in Height : Known(h) /\ BtcAnchor(h).rec = 0 =>
        BtcAnchor(h).block \in 0..Len(btcBlocks)

\* What the next checkpoint is to cover is settled or still listed.
StillListed(id) == \E t \in listed : t.id = id
ListedCovers ==
    Persistent /\ pc = "tx" =>
        \A id \in TxsBetween(0, ForkPoint(newBlock)) : Settled(id) \/ StillListed(id)

\* The known blocks have no gap; those up to the chain head are complete.
KnownPrefix ==
    \A h \in Height : Known(h) => \A k \in 0..h : Known(k)
HeadComplete == chainHead # Nil => \A k \in 0..chainHead : Complete(k)

\* The older-blocks loop leaves no block behind that needs a transaction.
OlderDoneBelow ==
    pc \in Busy \ {"tx"} =>
        \A k \in 0..(height - 1) : Known(k) /\ ~NeedsAnchor(k)

\* All of it: the inductive invariant.
BitcoinInv ==
    /\ BitcoinTypeInv
    /\ TxidFirst
    /\ SendingInv
    /\ TxEpochs
    /\ AnchoredOncePerFault
    /\ SentBlocksKnown
    /\ ListedInBlocks
    /\ StoredBlocksExist
    /\ StoredHashHoldsAnchor
    /\ CheckedAnchorsAreKnown
    /\ ListedCovers
    /\ KnownPrefix
    /\ HeadComplete
    /\ OlderDoneBelow

-----------------------------------------------------------------------------
(* The chain of Bitcoin. *)

\* The last of some positions, or 0 when there is none.
LEMMA LastPosition ==
    ASSUME NEW n \in Nat, NEW S \in SUBSET (1..n), NEW f,
           f = IF S = {} THEN 0 ELSE Max(S)
    PROVE  f \in 0..n /\ (f # 0 => f \in S) /\ \A i \in S : i <= f
<1>1. CASE S = {}
  BY <1>1
<1>2. CASE S # {}
  <2>1. f \in S /\ \A i \in S : i <= f
    BY <1>2, MaxOfPositions
  <2> QED
    BY <2>1
<1> QED
  BY <1>1, <1>2

\* When Bitcoin keeps the first k blocks of its main chain and puts blocks behind
\* them that nobody knew, no known block meets it at a later one than before.
LEMMA ChainKept ==
    ASSUME mainChain \in Seq(DOMAIN btcBlocks), mainChain' \in Seq(DOMAIN btcBlocks'),
           Len(btcBlocks) \in Nat, DOMAIN btcBlocks = 1..Len(btcBlocks),
           \A c \in DOMAIN btcBlocks :
                btcBlocks'[c] = btcBlocks[c] /\ btcBlocks[c].below \subseteq DOMAIN btcBlocks,
           NEW k \in 0..Len(mainChain),
           \A i \in 1..k : i \in DOMAIN mainChain' /\ mainChain'[i] = mainChain[i],
           \A i \in DOMAIN mainChain' : i > k => mainChain'[i] > Len(btcBlocks),
           NEW b \in 0..Len(btcBlocks)
    PROVE  TxsBetween(0, ForkPoint(b))' \subseteq TxsBetween(0, ForkPoint(b))
<1> DEFINE on == {i \in DOMAIN mainChain : mainChain[i] \in Lineage(b)}
<1>1. Lineage(b)' = Lineage(b) /\ Lineage(b) \subseteq 0..Len(btcBlocks)
  BY DEF Lineage
<1>2. /\ Len(mainChain) \in Nat /\ DOMAIN mainChain = 1..Len(mainChain)
      /\ Len(mainChain') \in Nat /\ DOMAIN mainChain' = 1..Len(mainChain')
      /\ on \in SUBSET (1..Len(mainChain))
      /\ on' \in SUBSET (1..Len(mainChain'))
  OBVIOUS
<1>3. \A i \in on' : i <= k /\ i \in on
  <2> TAKE i \in on'
  <2>1. i \in DOMAIN mainChain' /\ mainChain'[i] \in Lineage(b)
    BY <1>1
  <2>2. i \in Nat /\ i <= k
    BY <1>1, <1>2, <2>1
  <2>3. i \in DOMAIN mainChain /\ mainChain'[i] = mainChain[i]
    BY <1>2, <2>1, <2>2
  <2> QED
    BY <2>1, <2>2, <2>3
<1>4. PICK f : f = ForkPoint(b)
  OBVIOUS
<1>5. PICK g : g = ForkPoint(b)'
  OBVIOUS
<1>6. f = IF on = {} THEN 0 ELSE Max(on)
  BY <1>4 DEF ForkPoint
<1>7. g = IF on' = {} THEN 0 ELSE Max(on')
  BY <1>5 DEF ForkPoint
<1> HIDE DEF on
<1>8. f \in 0..Len(mainChain) /\ \A i \in on : i <= f
  BY <1>2, <1>6, LastPosition
<1>9. g \in 0..Len(mainChain') /\ (g # 0 => g \in on')
  BY <1>2, <1>7, LastPosition
<1>10. g <= f /\ g <= k
  BY <1>2, <1>3, <1>8, <1>9
<1>11. \A i \in 1..g : /\ i \in 1..f /\ i \in DOMAIN mainChain /\ mainChain'[i] = mainChain[i]
                       /\ btcBlocks'[mainChain'[i]] = btcBlocks[mainChain[i]]
  BY <1>2, <1>8, <1>9, <1>10
<1>12. TxsBetween(0, g)' \subseteq TxsBetween(0, f)
  <2>1. TxsBetween(0, f) = UNION {btcBlocks[mainChain[i]].txs : i \in 1..f}
    BY DEF TxsBetween
  <2>2. TxsBetween(0, g)' = UNION {btcBlocks'[mainChain'[i]].txs : i \in 1..g}
    BY DEF TxsBetween
  <2>3. SUFFICES ASSUME NEW i \in 1..g, NEW x \in btcBlocks'[mainChain'[i]].txs
                 PROVE  x \in TxsBetween(0, f)
    BY <2>2
  <2>4. i \in 1..f /\ x \in btcBlocks[mainChain[i]].txs
    BY <1>11
  <2> QED
    BY <2>1, <2>4
<1> QED
  BY <1>4, <1>5, <1>12 DEF TxsBetween

-----------------------------------------------------------------------------
(* Types. *)

\* The parts of the types that the proofs need all the time.
LEMMA NetworkTypes ==
    ASSUME NetworkInv
    PROVE  /\ btcTx \in Seq(Tx) /\ Len(btcTx) \in Nat /\ DOMAIN btcTx = 1..Len(btcTx)
           /\ Len(btcBlocks) \in Nat /\ DOMAIN btcBlocks = 1..Len(btcBlocks)
           /\ mainChain \in Seq(DOMAIN btcBlocks) /\ Len(mainChain) \in Nat
           /\ DOMAIN mainChain = 1..Len(mainChain)
           /\ \A id \in DOMAIN btcTx :
                /\ btcTx[id].h \in Height /\ btcTx[id].epoch \in Nat
                /\ btcTx[id].of \in DOMAIN btcTx
           /\ \A b \in DOMAIN btcBlocks :
                /\ btcBlocks[b].below \subseteq DOMAIN btcBlocks
                /\ btcBlocks[b].txs \subseteq DOMAIN btcTx
           /\ mempool \subseteq DOMAIN btcTx
           /\ ToSet(mainChain) \subseteq DOMAIN btcBlocks
<1> USE DEF NetworkInv, BitcoinTypeOK
<1>1. /\ btcTx \in Seq(Tx) /\ Len(btcTx) \in Nat /\ DOMAIN btcTx = 1..Len(btcTx)
      /\ Len(btcBlocks) \in Nat /\ DOMAIN btcBlocks = 1..Len(btcBlocks)
      /\ mainChain \in Seq(DOMAIN btcBlocks) /\ Len(mainChain) \in Nat
      /\ DOMAIN mainChain = 1..Len(mainChain)
      /\ mempool \subseteq DOMAIN btcTx
  OBVIOUS
<1>2. \A id \in DOMAIN btcTx : btcTx[id] \in Tx
  OBVIOUS
<1>3. \A id \in DOMAIN btcTx : btcTx[id].h \in Height /\ btcTx[id].epoch \in Nat
  BY <1>2 DEF Tx
<1>4. \A b \in DOMAIN btcBlocks :
        btcBlocks[b] \in [below: SUBSET Nat, txs: SUBSET DOMAIN btcTx]
  BY ElementType
<1>5. \A b \in DOMAIN btcBlocks :
        /\ btcBlocks[b].below \subseteq DOMAIN btcBlocks
        /\ btcBlocks[b].txs \subseteq DOMAIN btcTx
  BY <1>1, <1>4
<1>6. ToSet(mainChain) \subseteq DOMAIN btcBlocks
  BY <1>1, ElementType DEF ToSet
<1> QED
  BY <1>1, <1>3, <1>5, <1>6

-----------------------------------------------------------------------------
(* Bitcoin. *)

\* What Bitcoin never does: forget a block or a transaction, or bring a known
\* block to a later position of the main chain.
BlocksKept ==
    /\ Len(btcBlocks) <= Len(btcBlocks')
    /\ \A b \in DOMAIN btcBlocks :
        b \in DOMAIN btcBlocks' /\ btcBlocks'[b] = btcBlocks[b]
    /\ \A b \in 0..Len(btcBlocks) :
        TxsBetween(0, ForkPoint(b))' \subseteq TxsBetween(0, ForkPoint(b))
TxsKept ==
    /\ Len(btcTx) <= Len(btcTx')
    /\ \A id \in DOMAIN btcTx : id \in DOMAIN btcTx' /\ btcTx'[id] = btcTx[id]
NoNewTx == \A id \in DOMAIN btcTx' : \E o \in DOMAIN btcTx : btcTx'[id] = btcTx[o]

\* A block is put on top of the tip.
LEMMA MineKeeps ==
    ASSUME NetworkInv, MineBtcBlock
    PROVE  NetworkInv' /\ BlocksKept /\ TxsKept /\ NoNewTx
<1>1. PICK S \in SUBSET mempool :
        /\ btcBlocks' = Append(btcBlocks, [below |-> ToSet(mainChain), txs |-> S])
        /\ mainChain' = Append(mainChain, Len(btcBlocks'))
        /\ mempool' = mempool \ S
        /\ btcTx' = btcTx
  BY DEF MineBtcBlock
<1> DEFINE new == Len(btcBlocks) + 1
           block == [below |-> ToSet(mainChain), txs |-> S]
<1>2. /\ block \in [below: SUBSET Nat, txs: SUBSET DOMAIN btcTx]
      /\ block.below \subseteq DOMAIN btcBlocks
  BY NetworkTypes
<1> HIDE DEF block
<1>3. /\ btcBlocks' \in Seq([below: SUBSET Nat, txs: SUBSET DOMAIN btcTx])
      /\ Len(btcBlocks') = new
      /\ DOMAIN btcBlocks' = 1..new
      /\ btcBlocks'[new] = block
      /\ \A b \in DOMAIN btcBlocks : b # new /\ btcBlocks'[b] = btcBlocks[b]
  BY <1>1, <1>2, NetworkTypes DEF block, NetworkInv, BitcoinTypeOK
<1>4. /\ mainChain' \in Seq(DOMAIN btcBlocks')
      /\ Len(mainChain') = Len(mainChain) + 1
      /\ DOMAIN mainChain' = 1..(Len(mainChain) + 1)
      /\ mainChain'[Len(mainChain) + 1] = new
      /\ \A i \in DOMAIN mainChain : mainChain'[i] = mainChain[i]
  <2>1. mainChain \in Seq(1..new) /\ new \in 1..new
    BY NetworkTypes
  <2> QED
    BY <1>1, <1>3, <2>1
<1>5. BitcoinTypeOK'
  BY <1>1, <1>3, <1>4 DEF BitcoinTypeOK, NetworkInv
<1>6. NetworkInv'
  BY <1>1, <1>2, <1>3, <1>5, NetworkTypes DEF NetworkInv, block
<1>7. \A b \in 0..Len(btcBlocks) :
        TxsBetween(0, ForkPoint(b))' \subseteq TxsBetween(0, ForkPoint(b))
  <2> TAKE b \in 0..Len(btcBlocks)
  <2> DEFINE k == Len(mainChain)
  <2>1. /\ k \in 0..Len(mainChain)
        /\ \A i \in 1..k : i \in DOMAIN mainChain' /\ mainChain'[i] = mainChain[i]
        /\ \A i \in DOMAIN mainChain' : i > k => mainChain'[i] > Len(btcBlocks)
    <3>1. Len(mainChain) \in Nat /\ DOMAIN mainChain = 1..Len(mainChain)
      BY NetworkTypes
    <3>2. \A i \in DOMAIN mainChain' : i > k => i = Len(mainChain) + 1
      BY <1>4, <3>1
    <3>3. Len(btcBlocks) \in Nat
      BY NetworkTypes
    <3> QED
      BY <1>4, <3>1, <3>2, <3>3
  <2> QED
    BY <1>3, <1>4, <2>1, NetworkTypes, ChainKept
<1> QED
  BY <1>1, <1>3, <1>6, <1>7, NetworkTypes DEF BlocksKept, TxsKept, NoNewTx

\* A function on the numbers up to m is a sequence of that length.
LEMMA FunctionAsSeq ==
    ASSUME NEW A, NEW m \in Nat, NEW f \in [1..m -> A]
    PROVE  f \in Seq(A) /\ Len(f) = m
OBVIOUS

\* A branch takes the place of the last d blocks.
LEMMA ReorgKeeps ==
    ASSUME NetworkInv, NEW d \in Nat \ {0}, Reorganise(d)
    PROVE  NetworkInv' /\ BlocksKept /\ TxsKept /\ NoNewTx
<1> DEFINE old == Len(btcBlocks)
           n == Len(mainChain) - d
           m == d + 1
           Block == [below: SUBSET Nat, txs: SUBSET DOMAIN btcTx]
<1>1. PICK kept, branch, blocks, txs :
        /\ kept = SubSeq(mainChain, 1, n)
        /\ branch = [i \in 1..m |-> old + i]
        /\ txs \in [1..m -> SUBSET (mempool \cup TxsBetween(Len(kept), Len(mainChain)))]
        /\ blocks = [i \in 1..m |->
                        [below |-> ToSet(kept) \cup {branch[j] : j \in 1..(i - 1)},
                         txs |-> txs[i]]]
        /\ btcBlocks' = btcBlocks \o blocks
        /\ mainChain' = kept \o branch
        /\ mempool' \subseteq mempool \cup TxsBetween(Len(kept), Len(mainChain))
        /\ btcTx' = btcTx
        /\ d <= Len(mainChain)
  BY DEF Reorganise
<1>2. old \in Nat /\ n \in Nat /\ n <= Len(mainChain) /\ m \in Nat /\ Len(mainChain) \in Nat
  BY <1>1, NetworkTypes
<1> HIDE DEF n, m
<1>3. /\ kept \in Seq(DOMAIN btcBlocks) /\ Len(kept) = n /\ DOMAIN kept = 1..n
      /\ \A i \in 1..n : kept[i] = mainChain[i]
  <2>1. \A i \in 1..n : mainChain[i] \in DOMAIN btcBlocks
    BY <1>2, NetworkTypes, ElementType
  <2>2. /\ kept \in Seq(DOMAIN btcBlocks) /\ Len(kept) = IF 1 <= n THEN n - 1 + 1 ELSE 0
        /\ \A i \in 1..(n - 1 + 1) : kept[i] = mainChain[1 + i - 1]
    BY <1>1, <1>2, <2>1, SubSeqProperties
  <2> QED
    BY <1>2, <2>2
<1>4. /\ branch \in Seq(1..(old + m)) /\ Len(branch) = m
      /\ \A i \in 1..m : branch[i] = old + i
  <2>1. branch \in [1..m -> 1..(old + m)]
    BY <1>1, <1>2
  <2> QED
    BY <1>1, <1>2, <2>1, FunctionAsSeq
<1>5. mempool \cup TxsBetween(Len(kept), Len(mainChain)) \subseteq DOMAIN btcTx
  <2>1. \A i \in (n + 1)..Len(mainChain) : btcBlocks[mainChain[i]].txs \subseteq DOMAIN btcTx
    BY <1>2, NetworkTypes, ElementType
  <2> QED
    BY <1>3, <2>1, NetworkTypes DEF TxsBetween
<1>6. /\ blocks \in Seq(Block) /\ Len(blocks) = m
      /\ \A i \in 1..m : blocks[i].below \subseteq 1..(old + m)
  <2>1. ToSet(kept) \subseteq 1..old
    BY <1>3, ElementType, NetworkTypes DEF ToSet
  <2>2. ASSUME NEW i \in 1..m
        PROVE  /\ {branch[j] : j \in 1..(i - 1)} \subseteq 1..(old + m)
               /\ txs[i] \subseteq DOMAIN btcTx
    <3>1. \A j \in 1..(i - 1) : j \in 1..m /\ old + j \in 1..(old + m)
      BY <1>2
    <3>2. txs[i] \in SUBSET (mempool \cup TxsBetween(Len(kept), Len(mainChain)))
      BY <1>1
    <3> QED
      BY <1>4, <1>5, <3>1, <3>2
  <2>3. ASSUME NEW i \in 1..m
        PROVE  /\ blocks[i].below \subseteq 1..(old + m)
               /\ blocks[i] \in Block
    <3>1. blocks[i] = [below |-> ToSet(kept) \cup {branch[j] : j \in 1..(i - 1)},
                       txs |-> txs[i]]
      BY <1>1
    <3>2. ToSet(kept) \subseteq 1..(old + m)
      BY <1>2, <2>1
    <3> QED
      BY <1>2, <2>2, <3>1, <3>2
  <2>4. blocks \in [1..m -> Block]
    BY <1>1, <2>3
  <2> HIDE DEF Block
  <2> QED
    BY <1>2, <2>3, <2>4, FunctionAsSeq
<1>7. /\ btcBlocks' \in Seq(Block) /\ Len(btcBlocks') = old + m
      /\ DOMAIN btcBlocks' = 1..(old + m)
      /\ \A b \in DOMAIN btcBlocks : b \in DOMAIN btcBlocks' /\ btcBlocks'[b] = btcBlocks[b]
      /\ \A i \in 1..m : btcBlocks'[old + i] = blocks[i]
  <2>1. btcBlocks \in Seq(Block) /\ DOMAIN btcBlocks = 1..old
    BY NetworkTypes DEF NetworkInv, BitcoinTypeOK
  <2> HIDE DEF Block
  <2>2. /\ btcBlocks' \in Seq(Block) /\ Len(btcBlocks') = old + m
        /\ \A i \in 1..(old + m) :
              btcBlocks'[i] = IF i <= old THEN btcBlocks[i] ELSE blocks[i - old]
    BY <1>1, <1>6, <2>1, ConcatProperties
  <2>3. DOMAIN btcBlocks' = 1..(old + m)
    BY <2>2
  <2>4. \A b \in 1..old : b \in 1..(old + m) /\ b <= old
    BY <1>2
  <2>5. \A i \in 1..m : old + i \in 1..(old + m) /\ ~(old + i <= old) /\ old + i - old = i
    BY <1>2
  <2> QED
    BY <2>1, <2>2, <2>3, <2>4, <2>5
<1>8. /\ mainChain' \in Seq(DOMAIN btcBlocks') /\ Len(mainChain') = n + m
      /\ DOMAIN mainChain' = 1..(n + m)
      /\ \A i \in 1..n : i \in DOMAIN mainChain' /\ mainChain'[i] = mainChain[i]
      /\ \A i \in DOMAIN mainChain' : i > n => mainChain'[i] > old
  <2> DEFINE T == 1..(old + m)
  <2>1. kept \in Seq(T) /\ branch \in Seq(T)
    <3>1. DOMAIN btcBlocks \subseteq T
      BY <1>2, NetworkTypes
    <3> QED
      BY <1>3, <1>4, <3>1, WiderType
  <2>2. T = DOMAIN btcBlocks'
    BY <1>7
  <2> HIDE DEF T
  <2>3. /\ mainChain' \in Seq(T) /\ Len(mainChain') = n + m
        /\ \A i \in 1..(n + m) :
              mainChain'[i] = IF i <= n THEN kept[i] ELSE branch[i - n]
    <3>1. Len(kept) = n /\ Len(branch) = m /\ mainChain' = kept \o branch
      BY <1>1, <1>3, <1>4
    <3> QED
      BY <2>1, <3>1, ConcatProperties, Zenon
  <2>4. DOMAIN mainChain' = 1..(n + m)
    BY <2>3
  <2>5. \A i \in 1..n : i \in 1..(n + m) /\ i <= n
    BY <1>2
  <2>6. ASSUME NEW i \in 1..(n + m), i > n
        PROVE  mainChain'[i] > old
    <3>1. ~(i <= n) /\ i - n \in 1..m
      BY <1>2, <2>6
    <3>2. mainChain'[i] = old + (i - n)
      BY <1>4, <2>3, <3>1
    <3> QED
      BY <1>2, <3>1, <3>2
  <2> QED
    BY <1>3, <2>2, <2>3, <2>4, <2>5, <2>6
<1>9. BitcoinTypeOK'
  <2>1. mempool' \subseteq DOMAIN btcTx
    BY <1>1, <1>5
  <2>2. btcTx \in Seq(Tx)
    BY NetworkTypes
  <2> QED
    BY <1>1, <1>7, <1>8, <2>1, <2>2 DEF BitcoinTypeOK
<1>10. NetworkInv'
  <2>1. ASSUME NEW b \in DOMAIN btcBlocks'
        PROVE  btcBlocks'[b].below \subseteq DOMAIN btcBlocks'
    <3>1. CASE b \in DOMAIN btcBlocks
      BY <1>7, <3>1, NetworkTypes
    <3>2. CASE b \notin DOMAIN btcBlocks
      <4>1. b - old \in 1..m /\ b = old + (b - old)
        BY <1>2, <1>7, <3>2, NetworkTypes
      <4>2. btcBlocks'[b] = blocks[b - old]
        BY <1>7, <4>1
      <4> QED
        BY <1>6, <1>7, <4>1, <4>2
    <3> QED
      BY <3>1, <3>2
  <2> QED
    BY <1>1, <1>9, <2>1, NetworkTypes DEF NetworkInv
<1>11. \A b \in 0..Len(btcBlocks) :
        TxsBetween(0, ForkPoint(b))' \subseteq TxsBetween(0, ForkPoint(b))
  <2> TAKE b \in 0..Len(btcBlocks)
  <2>1. n \in 0..Len(mainChain)
    BY <1>2
  <2> QED
    BY <1>7, <1>8, <2>1, NetworkTypes, ChainKept
<1>12. TxsKept /\ NoNewTx
  BY <1>1, NetworkTypes DEF TxsKept, NoNewTx
<1>13. Len(btcBlocks) <= Len(btcBlocks')
  BY <1>2, <1>7
<1> QED
  BY <1>7, <1>10, <1>11, <1>12, <1>13 DEF BlocksKept

\* The chain does not move and no block is mined.
LEMMA ChainUnmoved ==
    ASSUME NetworkInv, UNCHANGED <<btcBlocks, mainChain>>
    PROVE  BlocksKept
<1>1. \A b : TxsBetween(0, ForkPoint(b))' = TxsBetween(0, ForkPoint(b))
  BY DEF TxsBetween, ForkPoint, Lineage
<1> QED
  BY <1>1, NetworkTypes DEF BlocksKept

\* A transaction is appended, of its own or a copy of another one.
LEMMA AppendTx ==
    ASSUME NetworkInv, NEW tx \in Tx, tx.of \in DOMAIN btcTx \cup {NextTxId},
           btcTx' = Append(btcTx, tx), mempool' \subseteq mempool \cup {NextTxId},
           UNCHANGED <<btcBlocks, mainChain>>
    PROVE  /\ NetworkInv' /\ BlocksKept /\ TxsKept
           /\ Len(btcTx') = NextTxId /\ NextTxId \notin DOMAIN btcTx
           /\ DOMAIN btcTx' = DOMAIN btcTx \cup {NextTxId}
           /\ btcTx'[NextTxId] = tx
<1> DEFINE new == NextTxId
<1>1. /\ btcTx' \in Seq(Tx)
      /\ Len(btcTx') = new
      /\ new \notin DOMAIN btcTx
      /\ DOMAIN btcTx' = DOMAIN btcTx \cup {new}
      /\ btcTx'[new] = tx
      /\ \A id \in DOMAIN btcTx : btcTx'[id] = btcTx[id]
  BY NetworkTypes DEF NextTxId
<1> HIDE DEF new
<1>2. btcBlocks' \in Seq([below: SUBSET Nat, txs: SUBSET DOMAIN btcTx'])
  <2> DEFINE A == [below: SUBSET Nat, txs: SUBSET DOMAIN btcTx]
             B == [below: SUBSET Nat, txs: SUBSET DOMAIN btcTx']
  <2>1. btcBlocks \in Seq(A)
    BY DEF NetworkInv, BitcoinTypeOK
  <2>2. A \subseteq B
    BY <1>1
  <2> HIDE DEF A, B
  <2>3. btcBlocks' \in Seq(B)
    BY <2>1, <2>2, WiderType
  <2> QED
    BY <2>3 DEF B
<1>3. BitcoinTypeOK'
  BY <1>1, <1>2, NetworkTypes DEF BitcoinTypeOK, NetworkInv, new
<1>4. NetworkInv'
  BY <1>1, <1>3, NetworkTypes DEF NetworkInv, new
<1>5. TxsKept
  BY <1>1, NetworkTypes DEF TxsKept, new, NextTxId
<1> QED
  BY <1>1, <1>4, <1>5, ChainUnmoved DEF new

\* No step of Bitcoin takes back a block, or sends a transaction.
LEMMA NetworkKeeps ==
    ASSUME NetworkInv, BitcoinNetworkStep
    PROVE  NetworkInv' /\ BlocksKept /\ TxsKept /\ NoNewTx
<1>1. CASE EvictTx
  <2>1. mempool' \subseteq mempool /\ UNCHANGED <<btcTx, btcBlocks, mainChain>>
    BY <1>1 DEF EvictTx
  <2>2. NetworkInv'
    BY <2>1 DEF NetworkInv, BitcoinTypeOK
  <2> QED
    BY <2>1, <2>2, ChainUnmoved, NetworkTypes DEF TxsKept, NoNewTx
<1>2. CASE MalleateTx
  <2>1. PICK id \in mempool :
            /\ btcTx' = Append(btcTx, btcTx[id])
            /\ mempool' = (mempool \ {id}) \cup {NextTxId}
            /\ UNCHANGED <<btcBlocks, mainChain>>
    BY <1>2 DEF MalleateTx
  <2>2. id \in DOMAIN btcTx /\ btcTx[id] \in Tx /\ btcTx[id].of \in DOMAIN btcTx
    BY NetworkTypes
  <2> QED
    BY <2>1, <2>2, AppendTx DEF TxsKept, NoNewTx
<1> QED
  BY <1>1, <1>2, MineKeeps, ReorgKeeps, BitcoinAssumption DEF BitcoinNetworkStep, Reorg

-----------------------------------------------------------------------------
(* What stays when Bitcoin moves on. *)

\* The rest of the types.
LEMMA BitcoinTypes ==
    ASSUME BitcoinTypeInv
    PROVE  /\ anchorData \in [Height -> AnchorData \cup {Nil}]
           /\ faults \in 0..MaxFaults /\ faults \in Nat
           /\ lastBitcoin \in 0..Len(btcBlocks) /\ newBlock \in 0..Len(btcBlocks)
           /\ lastFactom \in Height /\ height \in 0..(MaxHeight + 1)
           /\ MaxHeight \in Nat /\ AnchorBatch \in Nat /\ count \in 0..AnchorBatch
           /\ \A t \in listed : t.id \in DOMAIN btcTx /\ t.block \in DOMAIN btcBlocks
BY FaultAssumption, DatabaseAssumption
   DEF BitcoinTypeInv, ProcessTypeOK, DatabaseTypeOK

\* What the chain holds below a fork point are transactions.
LEMMA CheckedTxs ==
    ASSUME NetworkInv, NEW b, NEW id \in TxsBetween(0, ForkPoint(b))
    PROVE  id \in DOMAIN btcTx
<1>1. PICK f : f = ForkPoint(b)
  OBVIOUS
<1> DEFINE on == {i \in DOMAIN mainChain : mainChain[i] \in Lineage(b)}
<1>2. f = IF on = {} THEN 0 ELSE Max(on)
  BY <1>1 DEF ForkPoint
<1>3. on \in SUBSET (1..Len(mainChain)) /\ Len(mainChain) \in Nat
  BY NetworkTypes
<1> HIDE DEF on
<1>4. f \in 0..Len(mainChain)
  BY <1>2, <1>3, LastPosition
<1>5. PICK k \in 1..f : id \in btcBlocks[mainChain[k]].txs
  BY <1>1 DEF TxsBetween
<1>6. k \in DOMAIN mainChain
  BY <1>3, <1>4, NetworkTypes
<1>7. mainChain[k] \in DOMAIN btcBlocks
  BY <1>6, NetworkTypes, ElementType
<1> QED
  BY <1>5, <1>7, NetworkTypes

\* A transaction or block that is kept says what it said.
LEMMA TxsSayTheSame ==
    ASSUME NetworkInv, TxsKept, UNCHANGED anchorData
    PROVE  /\ \A h : Known(h)' <=> Known(h)
           /\ \A id \in DOMAIN btcTx : Settled(id) => Settled(id)'
BY DEF TxsKept, Settled, IsAnchor, BtcAnchor, Known, FetchAnchorData

\* While the AnchorData stays, what is stored of the chain stays true.
LEMMA StoredStaysTrue ==
    ASSUME BitcoinInv, NetworkInv', BlocksKept, TxsKept, UNCHANGED anchorData
    PROVE  /\ TxidFirst' /\ StoredBlocksExist' /\ StoredHashHoldsAnchor' /\ KnownPrefix'
           /\ chainHead' = chainHead => HeadComplete'
           /\ listed' \subseteq listed => ListedInBlocks'
           /\ lastBitcoin' = lastBitcoin => CheckedAnchorsAreKnown'
<1> USE DEF BitcoinInv
<1>0. NetworkInv
  BY DEF BitcoinTypeInv
<1>1. \A h : /\ Known(h)' <=> Known(h)
             /\ anchorData'[h] = anchorData[h] /\ BtcAnchor(h)' = BtcAnchor(h)
             /\ Complete(h)' <=> Complete(h)
  BY DEF Known, FetchAnchorData, BtcAnchor, Complete, IsComplete
<1>2. TxidFirst' /\ KnownPrefix' /\ (chainHead' = chainHead => HeadComplete')
  BY <1>1 DEF TxidFirst, KnownPrefix, HeadComplete
<1>3. /\ Len(btcBlocks) \in Nat /\ Len(btcBlocks') \in Nat
      /\ Len(btcBlocks) <= Len(btcBlocks')
      /\ DOMAIN btcBlocks = 1..Len(btcBlocks)
      /\ \A b \in DOMAIN btcBlocks : btcBlocks'[b] = btcBlocks[b]
      /\ \A id \in DOMAIN btcTx : id \in DOMAIN btcTx' /\ btcTx'[id] = btcTx[id]
  <2>1. Len(btcBlocks') \in Nat
    BY DEF NetworkInv, BitcoinTypeOK
  <2> QED
    BY <1>0, <2>1, NetworkTypes DEF BlocksKept, TxsKept
<1>4. StoredBlocksExist'
  <2>1. \A b \in 0..Len(btcBlocks) : b \in 0..Len(btcBlocks')
    BY <1>3
  <2> QED
    BY <1>1, <2>1 DEF StoredBlocksExist
<1>5. StoredHashHoldsAnchor'
  <2> SUFFICES ASSUME NEW h \in Height, Known(h), anchorData[h]["Bitcoin"].block # 0,
                      anchorData[h]["Bitcoin"].rec = 0
               PROVE  LET a == anchorData[h]["Bitcoin"] IN
                      /\ a.txid \in btcBlocks'[a.block].txs
                      /\ a.txid \in AnchorTxs(h)'
    BY <1>1 DEF StoredHashHoldsAnchor
  <2> DEFINE a == anchorData[h]["Bitcoin"]
  <2>1. a.txid \in btcBlocks[a.block].txs /\ a.txid \in AnchorTxs(h)
    BY DEF StoredHashHoldsAnchor
  <2>2. a.block \in DOMAIN btcBlocks
    BY <1>3 DEF StoredBlocksExist, BtcAnchor
  <2> QED
    BY <1>3, <2>1, <2>2 DEF AnchorTxs
<1>6. listed' \subseteq listed => ListedInBlocks'
  BY <1>3, BitcoinTypes DEF ListedInBlocks
<1>7. lastBitcoin' = lastBitcoin => CheckedAnchorsAreKnown'
  <2> SUFFICES ASSUME lastBitcoin' = lastBitcoin, Persistent,
                      NEW id \in TxsBetween(0, ForkPoint(lastBitcoin))',
                      btcTx'[id].kind = "anchor"
               PROVE  /\ Known(btcTx[id].h)'
                      /\ anchorData'[btcTx'[id].h]["Bitcoin"].txid # 0
                      /\ anchorData'[btcTx'[id].h]["Bitcoin"].block # 0
    BY DEF CheckedAnchorsAreKnown
  <2>1. PICK b : b = lastBitcoin
    OBVIOUS
  <2>2. id \in TxsBetween(0, ForkPoint(b))'
    BY <2>1 DEF TxsBetween, ForkPoint, Lineage
  <2>3. id \in TxsBetween(0, ForkPoint(b)) /\ b \in 0..Len(btcBlocks)
    BY <2>1, <2>2, BitcoinTypes DEF BlocksKept
  <2>4. id \in DOMAIN btcTx
    BY <1>0, <2>3, CheckedTxs
  <2>5. btcTx[id].kind = "anchor" =>
            /\ Known(btcTx[id].h)
            /\ anchorData[btcTx[id].h]["Bitcoin"].txid # 0
            /\ anchorData[btcTx[id].h]["Bitcoin"].block # 0
    BY <2>1, <2>3 DEF CheckedAnchorsAreKnown
  <2>6. btcTx'[id] = btcTx[id]
    BY <1>3, <2>4
  <2>7. /\ Known(btcTx[id].h)
        /\ anchorData[btcTx[id].h]["Bitcoin"].txid # 0
        /\ anchorData[btcTx[id].h]["Bitcoin"].block # 0
    BY <2>5, <2>6
  <2> QED
    BY <1>1, <2>6, <2>7 DEF Known, FetchAnchorData
<1> QED
  BY <1>2, <1>4, <1>5, <1>6, <1>7

\* While the chain moves on, what was found settled or listed stays so.
LEMMA ListedStaysCovered ==
    ASSUME BitcoinInv, BlocksKept, TxsKept, UNCHANGED <<anchorData, newBlock, listed>>,
           pc' = pc
    PROVE  ListedCovers'
<1> USE DEF BitcoinInv
<1>0. NetworkInv
  BY DEF BitcoinTypeInv
<1> SUFFICES ASSUME Persistent, pc = "tx",
                    NEW id \in TxsBetween(0, ForkPoint(newBlock))'
             PROVE  Settled(id)' \/ StillListed(id)'
  BY DEF ListedCovers
<1>1. PICK b : b = newBlock
  OBVIOUS
<1>2. id \in TxsBetween(0, ForkPoint(b))'
  BY <1>1 DEF TxsBetween, ForkPoint, Lineage
<1>3. id \in TxsBetween(0, ForkPoint(b)) /\ b \in 0..Len(btcBlocks)
  BY <1>1, <1>2, BitcoinTypes DEF BlocksKept
<1>4. id \in DOMAIN btcTx
  BY <1>0, <1>3, CheckedTxs
<1>5. Settled(id) \/ StillListed(id)
  BY <1>1, <1>3 DEF ListedCovers
<1> QED
  BY <1>0, <1>4, <1>5, TxsSayTheSame DEF StillListed

-----------------------------------------------------------------------------
(* Steps of others. *)

\* The types after a step that leaves what Bitcoin holds, or adds to it.
LEMMA BitcoinTypesKept ==
    ASSUME BitcoinTypeInv, ProcessTypeOK', DatabaseTypeOK', NetworkInv', BlocksKept,
           TxsKept, lastBitcoin' \in {0, lastBitcoin, newBlock},
           (UNCHANGED anchorVars) \/ ForgetAnchoring
    PROVE  BitcoinTypeInv'
<1> USE DEF BitcoinTypeInv
<1>1. /\ Len(btcBlocks) \in Nat /\ Len(btcBlocks') \in Nat
      /\ Len(btcBlocks) <= Len(btcBlocks')
      /\ Len(btcTx) \in Nat /\ Len(btcTx') \in Nat /\ Len(btcTx) <= Len(btcTx')
      /\ DOMAIN btcBlocks \subseteq DOMAIN btcBlocks' /\ DOMAIN btcTx \subseteq DOMAIN btcTx'
  <2>1. Len(btcBlocks') \in Nat /\ Len(btcTx') \in Nat
    BY DEF NetworkInv, BitcoinTypeOK
  <2> QED
    BY <2>1, NetworkTypes DEF BlocksKept, TxsKept
<1>2. lastBitcoin' \in 0..Len(btcBlocks')
  BY <1>1, BitcoinTypes
<1>3. CASE UNCHANGED anchorVars
  <2>1. UNCHANGED <<listed, newBlock, sent, height, count>>
    BY <1>3 DEF anchorVars
  <2>2. listed' \subseteq [id: DOMAIN btcTx', block: DOMAIN btcBlocks']
    BY <1>1, <2>1
  <2>3. newBlock' \in 0..Len(btcBlocks') /\ sent' \in 0..Len(btcTx')
    BY <1>1, <2>1
  <2> QED
    BY <1>2, <2>1, <2>2, <2>3
<1>4. CASE ForgetAnchoring
  <2>1. listed' = {} /\ newBlock' = 0 /\ sent' = 0 /\ height' = 0 /\ count' = 0
    BY <1>4 DEF ForgetAnchoring
  <2>2. /\ newBlock' \in 0..Len(btcBlocks') /\ sent' \in 0..Len(btcTx')
        /\ height' \in 0..(MaxHeight + 1) /\ count' \in 0..AnchorBatch
    BY <1>1, <2>1, BitcoinTypes
  <2> QED
    BY <1>2, <2>1, <2>2
<1> QED
  BY <1>3, <1>4

\* Bitcoin mines, reorganises, drops or malleates.
LEMMA BitcoinMovesKeeps ==
    ASSUME BitcoinInv, BitcoinNetworkStep,
           UNCHANGED <<processVars, dbVars, anchorVars>>
    PROVE  BitcoinInv'
<1> USE DEF BitcoinInv
<1>0. NetworkInv
  BY DEF BitcoinTypeInv
<1>1. NetworkInv' /\ BlocksKept /\ TxsKept /\ NoNewTx
  BY <1>0, NetworkKeeps
<1>2. UNCHANGED <<pc, faults, errors, progress, anchorData, chainHead, lastFactom,
                  lastBitcoin, listed, newBlock, height, count, sent>>
  BY DEF processVars, dbVars, anchorVars
<1>3. BitcoinTypeInv'
  <2>1. ProcessTypeOK' /\ DatabaseTypeOK'
    BY <1>2 DEF BitcoinTypeInv, ProcessTypeOK, DatabaseTypeOK
  <2> QED
    BY <1>1, <1>2, <2>1, BitcoinTypesKept
<1>4. \A h : (Known(h)' <=> Known(h)) /\ BtcAnchor(h)' = BtcAnchor(h)
             /\ (NeedsAnchor(h)' <=> NeedsAnchor(h))
  BY <1>2 DEF Known, FetchAnchorData, BtcAnchor, NeedsAnchor
<1>5. SendingInv' /\ OlderDoneBelow'
  BY <1>2, <1>4 DEF SendingInv, OlderDoneBelow, Recording, Target
<1>6. \A id \in DOMAIN btcTx' : \E o \in DOMAIN btcTx : btcTx'[id] = btcTx[o]
  BY <1>1 DEF NoNewTx
<1>7. TxEpochs' /\ SentBlocksKnown'
  BY <1>2, <1>4, <1>6 DEF TxEpochs, SentBlocksKnown, IsAnchor, Recording, Target
<1>8. AnchoredOncePerFault'
  BY <1>6 DEF AnchoredOncePerFault, AnchorTxs
<1> QED
  BY <1>1, <1>2, <1>3, <1>5, <1>7, <1>8, StoredStaysTrue, ListedStaysCovered

\* What the rest of the loop may do to the AnchorData: learn of a block, or of a
\* record, or fill in what is not about the transaction.
OthersFill ==
    \A h \in Height :
        /\ Known(h) =>
            /\ Known(h)'
            /\ \/ /\ BtcAnchor(h)'.txid = BtcAnchor(h).txid
                  /\ BtcAnchor(h)'.block = BtcAnchor(h).block
                  /\ BtcAnchor(h)'.rec = BtcAnchor(h).rec
               \/ /\ BtcAnchor(h)'.rec > 0
                  /\ BtcAnchor(h)'.txid # 0 /\ BtcAnchor(h)'.block # 0
        /\ ~Known(h) /\ Known(h)' =>
            BtcAnchor(h)'.txid = 0 /\ BtcAnchor(h)'.block = 0 /\ BtcAnchor(h)'.rec = 0

\* The process is elsewhere before and after, or it waits.
Elsewhere == pc \notin Busy /\ pc' \notin Busy
Waits == pc' = pc /\ UNCHANGED <<dbVars, anchorVars>>

LEMMA WaitingFillsNothing ==
    ASSUME UNCHANGED anchorData
    PROVE  OthersFill
BY DEF OthersFill, Known, FetchAnchorData, BtcAnchor

LEMMA OthersKeep ==
    ASSUME BitcoinInv, ProcessTypeOK', DatabaseTypeOK', faults' = faults,
           UNCHANGED <<lastBitcoin, btcVars>>, (UNCHANGED anchorVars) \/ ForgetAnchoring,
           OthersFill, Elsewhere \/ Waits, KnownPrefix', HeadComplete'
    PROVE  BitcoinInv'
<1> USE DEF BitcoinInv
<1>0. NetworkInv
  BY DEF BitcoinTypeInv
<1>1. UNCHANGED <<btcTx, mempool, btcBlocks, mainChain>>
  BY DEF btcVars
<1>2. NetworkInv' /\ BlocksKept /\ TxsKept
  <2>1. NetworkInv'
    BY <1>0, <1>1 DEF NetworkInv, BitcoinTypeOK
  <2> QED
    BY <1>0, <1>1, <2>1, ChainUnmoved, NetworkTypes DEF TxsKept
<1>3. BitcoinTypeInv'
  BY <1>2, BitcoinTypesKept
<1>4. listed' \subseteq listed
  BY DEF anchorVars, ForgetAnchoring
<1>5. TxidFirst'
  BY DEF TxidFirst, OthersFill, BtcAnchor
<1>6. SendingInv' /\ OlderDoneBelow' /\ ListedCovers'
  <2>1. CASE Elsewhere
    BY <2>1 DEF SendingInv, OlderDoneBelow, ListedCovers, Elsewhere, Busy, Recording
  <2>2. CASE Waits
    <3>1. /\ UNCHANGED <<pc, anchorData, chainHead, lastFactom, lastBitcoin, listed,
                         newBlock, height, count, sent>>
      BY <2>2 DEF Waits, dbVars, anchorVars
    <3>2. \A h : Known(h)' <=> Known(h)
      BY <3>1 DEF Known, FetchAnchorData
    <3>3. SendingInv' /\ OlderDoneBelow'
      BY <3>1, <3>2 DEF SendingInv, OlderDoneBelow, Recording, Target, NeedsAnchor
    <3> QED
      BY <1>2, <3>1, <3>3, ListedStaysCovered
  <2> QED
    BY <2>1, <2>2
<1>7. /\ \A h \in Height : Known(h) => Known(h)'
      /\ \A h \in Height : Known(h) /\ BtcAnchor(h).txid # 0 => BtcAnchor(h)'.txid # 0
      /\ \A h \in Height : Known(h) /\ BtcAnchor(h).block # 0 => BtcAnchor(h)'.block # 0
  BY DEF OthersFill
<1>8. SentBlocksKnown'
  BY <1>0, <1>1, <1>7, NetworkTypes DEF SentBlocksKnown, IsAnchor
<1>9. TxEpochs'
  <2>1. Recording => Recording' /\ Target' = Target
    BY DEF Recording, Target, Elsewhere, Waits, Busy, dbVars, anchorVars
  <2> QED
    BY <1>0, <1>1, <1>7, <2>1, NetworkTypes DEF TxEpochs, IsAnchor
<1>10. AnchoredOncePerFault'
  BY <1>1 DEF AnchoredOncePerFault, AnchorTxs
<1>11. ListedInBlocks'
  BY <1>1, <1>4 DEF ListedInBlocks
<1>12. StoredBlocksExist'
  <2>1. Len(btcBlocks) \in Nat
    BY <1>0, NetworkTypes
  <2> QED
    BY <1>1, <2>1 DEF StoredBlocksExist, OthersFill
<1>13. StoredHashHoldsAnchor'
  BY <1>1 DEF StoredHashHoldsAnchor, OthersFill, BtcAnchor, AnchorTxs
<1>14. CheckedAnchorsAreKnown'
  <2> SUFFICES ASSUME Persistent, NEW id \in TxsBetween(0, ForkPoint(lastBitcoin)),
                      btcTx[id].kind = "anchor"
               PROVE  /\ Known(btcTx[id].h)'
                      /\ anchorData'[btcTx[id].h]["Bitcoin"].txid # 0
                      /\ anchorData'[btcTx[id].h]["Bitcoin"].block # 0
    BY <1>1 DEF CheckedAnchorsAreKnown, TxsBetween, ForkPoint, Lineage
  <2>1. id \in DOMAIN btcTx
    BY <1>0, CheckedTxs
  <2>2. PICK h \in Height : h = btcTx[id].h
    BY <1>0, <2>1, NetworkTypes
  <2>3. Known(h) /\ BtcAnchor(h).txid # 0 /\ BtcAnchor(h).block # 0
    BY <2>2 DEF CheckedAnchorsAreKnown, BtcAnchor
  <2>4. Known(h)' /\ BtcAnchor(h)'.txid # 0 /\ BtcAnchor(h)'.block # 0
    BY <1>7, <2>3
  <2> QED
    BY <1>1, <2>2, <2>4 DEF BtcAnchor, Known, FetchAnchorData
<1> QED
  BY <1>3, <1>5, <1>6, <1>8, <1>9, <1>10, <1>11, <1>12, <1>13, <1>14

\* A failure that may lose track of something, a Map database included.
LEMMA FaultKeeps ==
    ASSUME BitcoinInv, ProcessTypeOK', faults' = faults + 1, pc' \notin Busy,
           UNCHANGED btcVars, (UNCHANGED anchorVars) \/ ForgetAnchoring,
           (UNCHANGED dbVars) \/ ReopenDatabase
    PROVE  BitcoinInv'
<1> USE DEF BitcoinInv
<1>0. NetworkInv
  BY DEF BitcoinTypeInv
<1>1. UNCHANGED <<btcTx, mempool, btcBlocks, mainChain>>
  BY DEF btcVars
<1>2. NetworkInv' /\ BlocksKept /\ TxsKept
  <2>1. NetworkInv'
    BY <1>0, <1>1 DEF NetworkInv, BitcoinTypeOK
  <2> QED
    BY <1>0, <1>1, <2>1, ChainUnmoved, NetworkTypes DEF TxsKept
<1>3. DatabaseTypeOK' /\ lastBitcoin' \in {0, lastBitcoin}
  <2>1. CASE UNCHANGED dbVars
    BY <2>1 DEF BitcoinTypeInv, DatabaseTypeOK, dbVars
  <2>2. CASE ReopenDatabase
    BY <2>2, ReopenType DEF BitcoinTypeInv, ReopenDatabase, dbVars
  <2> QED
    BY <2>1, <2>2
<1>4. BitcoinTypeInv'
  BY <1>2, <1>3, BitcoinTypesKept
<1>5. listed' \subseteq listed
  BY DEF anchorVars, ForgetAnchoring
<1>6. SendingInv' /\ OlderDoneBelow' /\ ListedCovers'
  BY DEF SendingInv, OlderDoneBelow, ListedCovers, Busy, Recording
<1>7. AnchoredOncePerFault' /\ ListedInBlocks'
  BY <1>1, <1>5 DEF AnchoredOncePerFault, AnchorTxs, ListedInBlocks
<1>8. TxEpochs'
  <2>1. \A id \in DOMAIN btcTx : IsAnchor(id) =>
            btcTx[id].epoch \in Nat /\ btcTx[id].epoch <= faults
    BY <1>0, NetworkTypes DEF TxEpochs
  <2> QED
    BY <1>1, <2>1, BitcoinTypes DEF TxEpochs, IsAnchor
<1>9. CASE UNCHANGED dbVars
  <2>1. UNCHANGED <<anchorData, chainHead, lastBitcoin>>
    BY <1>9 DEF dbVars
  <2>2. SentBlocksKnown'
    BY <1>1, <2>1 DEF SentBlocksKnown, IsAnchor, Known, FetchAnchorData
  <2> QED
    BY <1>2, <1>4, <1>5, <1>6, <1>7, <1>8, <2>1, <2>2, StoredStaysTrue
<1>10. CASE ~Persistent /\ ReopenDatabase
  <2>1. chainHead' = Nil /\ \A h : ~Known(h)'
    BY <1>10 DEF ReopenDatabase, Known, FetchAnchorData
  <2>2. /\ TxidFirst' /\ SentBlocksKnown' /\ StoredBlocksExist'
        /\ StoredHashHoldsAnchor' /\ CheckedAnchorsAreKnown' /\ KnownPrefix'
        /\ HeadComplete'
    BY <1>10, <2>1
       DEF TxidFirst, SentBlocksKnown, StoredBlocksExist, StoredHashHoldsAnchor,
           CheckedAnchorsAreKnown, KnownPrefix, HeadComplete
  <2> QED
    BY <1>4, <1>6, <1>7, <1>8, <2>2
<1> QED
  BY <1>9, <1>10 DEF ReopenDatabase

-----------------------------------------------------------------------------
(* SynchronizeBitcoinData. *)

\* A txid is written into an anchor that has neither block nor record yet, alone
\* or with the block that holds the transaction.
LEMMA TxidWritten ==
    ASSUME BitcoinInv, NEW h, Known(h), NEW a \in NetAnchor,
           BtcAnchor(h).block = 0, BtcAnchor(h).rec = 0, a.txid # 0, a.rec = 0,
           a.block # 0 =>
                a.block \in DOMAIN btcBlocks /\ a.txid \in btcBlocks[a.block].txs
                /\ a.txid \in AnchorTxs(h),
           InsertAnchorData(h, [anchorData[h] EXCEPT !["Bitcoin"] = a]),
           UNCHANGED <<chainHead, lastFactom, lastBitcoin, btcVars>>
    PROVE  /\ NetworkInv' /\ BlocksKept /\ TxsKept /\ DatabaseTypeOK'
           /\ TxidFirst' /\ StoredBlocksExist' /\ StoredHashHoldsAnchor'
           /\ KnownPrefix' /\ HeadComplete' /\ SentBlocksKnown'
           /\ CheckedAnchorsAreKnown' /\ AnchoredOncePerFault'
           /\ \A k \in Height : Known(k)' <=> Known(k)
           /\ \A k \in Height : Known(k) =>
                BtcAnchor(k)' = IF k = h THEN a ELSE BtcAnchor(k)
           /\ \A id \in DOMAIN btcTx : Settled(id) => Settled(id)'
<1> USE DEF BitcoinInv
<1>0. NetworkInv
  BY DEF BitcoinTypeInv
<1>1. UNCHANGED <<btcTx, mempool, btcBlocks, mainChain>>
  BY DEF btcVars
<1>2. NetworkInv' /\ BlocksKept /\ TxsKept
  <2>1. NetworkInv'
    BY <1>0, <1>1 DEF NetworkInv, BitcoinTypeOK
  <2> QED
    BY <1>0, <1>1, <2>1, ChainUnmoved, NetworkTypes DEF TxsKept
<1>3. /\ anchorData' \in [Height -> AnchorData \cup {Nil}]
      /\ h \in Height
      /\ \A k \in Height : Known(k)' <=> Known(k)
      /\ \A k \in Height, m \in Networks : Known(k) =>
            anchorData'[k][m] = IF k = h /\ m = "Bitcoin" THEN a ELSE anchorData[k][m]
  BY OneAnchor, BitcoinTypes, KnownData DEF Networks
<1>4. \A k \in Height : Known(k) =>
        BtcAnchor(k)' = IF k = h THEN a ELSE BtcAnchor(k)
  BY <1>3 DEF BtcAnchor, Networks
<1>5. DatabaseTypeOK'
  BY <1>3 DEF BitcoinTypeInv, DatabaseTypeOK
<1>6. TxidFirst' /\ KnownPrefix'
  <2>1. TxidFirst'
    BY <1>3, <1>4 DEF TxidFirst
  <2>2. MaxHeight \in Nat
    BY DatabaseAssumption
  <2>3. KnownPrefix'
    BY <1>3, <2>2 DEF KnownPrefix, Height
  <2> QED
    BY <2>1, <2>3
<1>7. StoredBlocksExist'
  <2>1. Len(btcBlocks) \in Nat /\ DOMAIN btcBlocks = 1..Len(btcBlocks)
    BY <1>0, NetworkTypes
  <2>2. a.block \in 0..Len(btcBlocks)
    BY <2>1
  <2> QED
    BY <1>1, <1>3, <1>4, <2>2 DEF StoredBlocksExist
<1>8. StoredHashHoldsAnchor'
  <2>1. \A k : AnchorTxs(k)' = AnchorTxs(k)
    BY <1>1 DEF AnchorTxs
  <2> QED
    BY <1>1, <1>3, <1>4, <2>1 DEF StoredHashHoldsAnchor, BtcAnchor
<1>9. HeadComplete'
  <2>1. chainHead # Nil => chainHead \in Height /\ \A k \in 0..chainHead : k \in Height
    BY DatabaseAssumption DEF BitcoinTypeInv, DatabaseTypeOK, Height
  <2>2. \A k \in Height : Complete(k) => Complete(k)'
    BY <1>3, <1>4 DEF Complete, IsComplete, Known, FetchAnchorData, BtcAnchor
  <2> QED
    BY <2>1, <2>2 DEF HeadComplete
<1>10. \A k \in Height :
        Known(k) /\ BtcAnchor(k).txid # 0 /\ BtcAnchor(k).block # 0 =>
            Known(k)' /\ BtcAnchor(k)'.txid # 0 /\ BtcAnchor(k)'.block # 0
  BY <1>3, <1>4
<1>11. SentBlocksKnown'
  BY <1>0, <1>1, <1>3, NetworkTypes DEF SentBlocksKnown, IsAnchor
<1>12. \A id \in DOMAIN btcTx : Settled(id) => Settled(id)'
  <2> TAKE id \in DOMAIN btcTx
  <2>1. PICK k \in Height : k = btcTx[id].h
    BY <1>0, NetworkTypes
  <2>2. Known(k) /\ BtcAnchor(k).txid # 0 /\ BtcAnchor(k).block # 0 =>
            Known(k)' /\ BtcAnchor(k)'.txid # 0 /\ BtcAnchor(k)'.block # 0
    BY <1>10
  <2> QED
    BY <1>1, <2>1, <2>2 DEF Settled, IsAnchor, BtcAnchor, Known, FetchAnchorData
<1>13. CheckedAnchorsAreKnown'
  <2> SUFFICES ASSUME Persistent, NEW id \in TxsBetween(0, ForkPoint(lastBitcoin)),
                      btcTx[id].kind = "anchor"
               PROVE  Settled(id)'
    BY <1>1 DEF CheckedAnchorsAreKnown, TxsBetween, ForkPoint, Lineage, Settled, IsAnchor,
                BtcAnchor
  <2>1. id \in DOMAIN btcTx
    BY <1>0, CheckedTxs
  <2>2. Settled(id)
    BY DEF CheckedAnchorsAreKnown, Settled, BtcAnchor
  <2> QED
    BY <1>12, <2>1, <2>2
<1>14. AnchoredOncePerFault'
  BY <1>1 DEF AnchoredOncePerFault, AnchorTxs
<1> QED
  BY <1>2, <1>3, <1>4, <1>5, <1>6, <1>7, <1>8, <1>9, <1>11, <1>12, <1>13, <1>14

\* The types of what is listed.
LEMMA ListType ==
    ASSUME NetworkInv, NEW t \in ListSince(lastBitcoin)
    PROVE  /\ t \in [id: DOMAIN btcTx, block: DOMAIN btcBlocks]
           /\ t.id \in btcBlocks[t.block].txs
<1>1. PICK f : f = ForkPoint(lastBitcoin)
  OBVIOUS
<1> DEFINE on == {i \in DOMAIN mainChain : mainChain[i] \in Lineage(lastBitcoin)}
<1>2. f = IF on = {} THEN 0 ELSE Max(on)
  BY <1>1 DEF ForkPoint
<1>3. on \in SUBSET (1..Len(mainChain)) /\ Len(mainChain) \in Nat
  BY NetworkTypes
<1> HIDE DEF on
<1>4. f \in 0..Len(mainChain)
  BY <1>2, <1>3, LastPosition
<1>5. PICK k \in (f + 1)..Len(mainChain) :
        \E id \in btcBlocks[mainChain[k]].txs : t = [id |-> id, block |-> mainChain[k]]
  BY <1>1 DEF ListSince
<1>6. k \in DOMAIN mainChain
  BY <1>3, <1>4, NetworkTypes
<1>7. mainChain[k] \in DOMAIN btcBlocks
  BY <1>6, NetworkTypes, ElementType
<1>8. btcBlocks[mainChain[k]].txs \subseteq DOMAIN btcTx
  BY <1>7, NetworkTypes
<1> QED
  BY <1>5, <1>7, <1>8

\* Every transaction of the chain is in its checked part or listed.
LEMMA ListCovers ==
    ASSUME NetworkInv, NEW b, NEW id \in TxsBetween(0, ForkPoint(b))
    PROVE  \/ id \in TxsBetween(0, ForkPoint(lastBitcoin))
           \/ \E t \in ListSince(lastBitcoin) : t.id = id
<1>1. PICK f : f = ForkPoint(b)
  OBVIOUS
<1>2. PICK g : g = ForkPoint(lastBitcoin)
  OBVIOUS
<1> DEFINE at == {i \in DOMAIN mainChain : mainChain[i] \in Lineage(b)}
           from == {i \in DOMAIN mainChain : mainChain[i] \in Lineage(lastBitcoin)}
<1>3. /\ Len(mainChain) \in Nat
      /\ at \in SUBSET (1..Len(mainChain)) /\ from \in SUBSET (1..Len(mainChain))
  BY NetworkTypes
<1>4. /\ f = IF at = {} THEN 0 ELSE Max(at)
      /\ g = IF from = {} THEN 0 ELSE Max(from)
  BY <1>1, <1>2 DEF ForkPoint
<1> HIDE DEF at, from
<1>5. f \in 0..Len(mainChain) /\ g \in 0..Len(mainChain)
  BY <1>3, <1>4, LastPosition
<1>6. PICK k \in 1..f : id \in btcBlocks[mainChain[k]].txs
  BY <1>1 DEF TxsBetween
<1>7. CASE k <= g
  <2>1. k \in (0 + 1)..g
    BY <1>5, <1>7
  <2> QED
    BY <1>2, <1>6, <2>1 DEF TxsBetween
<1>8. CASE k > g
  <2>1. k \in (g + 1)..Len(mainChain)
    BY <1>3, <1>5, <1>8
  <2>2. [id |-> id, block |-> mainChain[k]] \in ListSince(lastBitcoin)
    BY <1>2, <1>6, <2>1 DEF ListSince
  <2> QED
    BY <2>2
<1> QED
  BY <1>5, <1>7, <1>8

\* lastblock is a block of the main chain or none.
LEMMA LastBlockType ==
    ASSUME NetworkInv
    PROVE  LastBlock \in 0..Len(btcBlocks)
<1> DEFINE k == Len(mainChain) + 1 - MinConfirmations
<1>1. CASE k > 0
  <2>1. k \in DOMAIN mainChain
    BY <1>1, NetworkTypes, BitcoinAssumption
  <2>2. mainChain[k] \in DOMAIN btcBlocks
    BY <2>1, NetworkTypes, ElementType
  <2> QED
    BY <1>1, <2>2, NetworkTypes DEF LastBlock
<1>2. CASE ~(k > 0)
  BY <1>2, NetworkTypes DEF LastBlock
<1> QED
  BY <1>1, <1>2

\* The database and Bitcoin stay, and no send is being recorded: most of what is
\* known stays known.
LEMMA QuietKeeps ==
    ASSUME BitcoinInv, ~Recording, faults' = faults,
           UNCHANGED <<anchorData, chainHead, lastFactom, btcVars>>
    PROVE  /\ NetworkInv' /\ BlocksKept /\ TxsKept
           /\ TxidFirst' /\ TxEpochs' /\ AnchoredOncePerFault' /\ SentBlocksKnown'
           /\ StoredBlocksExist' /\ StoredHashHoldsAnchor' /\ KnownPrefix' /\ HeadComplete'
           /\ listed' \subseteq listed => ListedInBlocks'
           /\ lastBitcoin' = lastBitcoin => CheckedAnchorsAreKnown'
           /\ \A h : /\ Known(h)' <=> Known(h)
                     /\ NeedsAnchor(h)' <=> NeedsAnchor(h)
<1> USE DEF BitcoinInv
<1>0. NetworkInv
  BY DEF BitcoinTypeInv
<1>1. UNCHANGED <<btcTx, mempool, btcBlocks, mainChain>>
  BY DEF btcVars
<1>2. NetworkInv' /\ BlocksKept /\ TxsKept
  <2>1. NetworkInv'
    BY <1>0, <1>1 DEF NetworkInv, BitcoinTypeOK
  <2> QED
    BY <1>0, <1>1, <2>1, ChainUnmoved, NetworkTypes DEF TxsKept
<1>3. \A h : /\ Known(h)' <=> Known(h)
             /\ BtcAnchor(h)' = BtcAnchor(h)
             /\ NeedsAnchor(h)' <=> NeedsAnchor(h)
  BY DEF Known, FetchAnchorData, BtcAnchor, NeedsAnchor
<1>4. TxEpochs'
  BY <1>1, <1>3 DEF TxEpochs, IsAnchor
<1>5. AnchoredOncePerFault' /\ SentBlocksKnown'
  BY <1>1, <1>3 DEF AnchoredOncePerFault, AnchorTxs, SentBlocksKnown, IsAnchor
<1> QED
  BY <1>2, <1>3, <1>4, <1>5, StoredStaysTrue

\* The transactions after the checkpoint are listed.
LEMMA ListTransactionsKeeps ==
    ASSUME BitcoinInv, ListTransactions
    PROVE  BitcoinInv'
<1> USE DEF BitcoinInv, ListTransactions
<1>0. NetworkInv /\ ProcessTypeOK /\ DatabaseTypeOK
  BY DEF BitcoinTypeInv
<1>1. /\ pc = "syncBitcoin" /\ pc' = "tx" /\ faults' = faults
      /\ UNCHANGED <<anchorData, chainHead, lastFactom, lastBitcoin, btcVars, height,
                     count, sent>>
      /\ UNCHANGED <<btcTx, mempool, btcBlocks, mainChain>>
      /\ listed' = ListSince(lastBitcoin) /\ newBlock' = LastBlock
  BY DEF Normally, Goto, dbVars, btcVars
<1>2. /\ NetworkInv' /\ TxidFirst' /\ TxEpochs' /\ AnchoredOncePerFault' /\ SentBlocksKnown'
      /\ StoredBlocksExist' /\ StoredHashHoldsAnchor' /\ KnownPrefix' /\ HeadComplete'
      /\ CheckedAnchorsAreKnown'
  BY <1>1, QuietKeeps DEF Recording
<1>3. BitcoinTypeInv'
  <2>1. ProcessTypeOK' /\ DatabaseTypeOK'
    BY <1>0, <1>1, ProcessSteps DEF PCs, BitcoinSteps, DatabaseTypeOK
  <2>2. listed' \subseteq [id: DOMAIN btcTx, block: DOMAIN btcBlocks]
    BY <1>0, <1>1, ListType
  <2>3. newBlock' \in 0..Len(btcBlocks)
    BY <1>0, <1>1, LastBlockType
  <2> QED
    BY <1>1, <1>2, <2>1, <2>2, <2>3 DEF BitcoinTypeInv
<1>4. ListedInBlocks'
  BY <1>0, <1>1, ListType DEF ListedInBlocks
<1>5. SendingInv' /\ OlderDoneBelow'
  BY <1>1 DEF SendingInv, OlderDoneBelow, Recording
<1>6. ListedCovers'
  <2> SUFFICES ASSUME Persistent, NEW id \in TxsBetween(0, ForkPoint(newBlock))'
               PROVE  Settled(id)' \/ StillListed(id)'
    BY DEF ListedCovers
  <2>1. PICK b : b = newBlock'
    OBVIOUS
  <2>2. id \in TxsBetween(0, ForkPoint(b))
    BY <1>1, <2>1 DEF TxsBetween, ForkPoint, Lineage
  <2>3. CASE id \in TxsBetween(0, ForkPoint(lastBitcoin))
    <3>1. Settled(id)
      BY <2>3 DEF CheckedAnchorsAreKnown, Settled, IsAnchor, BtcAnchor
    <3> QED
      BY <1>1, <3>1 DEF Settled, IsAnchor, BtcAnchor, Known, FetchAnchorData
  <2>4. CASE \E t \in ListSince(lastBitcoin) : t.id = id
    BY <1>1, <2>4 DEF StillListed
  <2> QED
    BY <1>0, <2>2, <2>3, <2>4, ListCovers
<1> QED
  BY <1>2, <1>3, <1>4, <1>5, <1>6

\* What a listed transaction leaves when it is not taken: its block had been
\* found before.
LEMMA PassedTxSettled ==
    ASSUME BitcoinInv, NEW t \in listed, ~IsNewAnchor(t),
           IsAnchor(t.id) => Known(btcTx[t.id].h)
    PROVE  Settled(t.id)
<1> USE DEF BitcoinInv
<1> SUFFICES ASSUME IsAnchor(t.id)
             PROVE  /\ Known(btcTx[t.id].h)
                    /\ BtcAnchor(btcTx[t.id].h).txid # 0
                    /\ BtcAnchor(btcTx[t.id].h).block # 0
  BY DEF Settled
<1>1. NetworkInv /\ t.id \in DOMAIN btcTx
  BY BitcoinTypes DEF BitcoinTypeInv
<1>2. PICK h \in Height : h = btcTx[t.id].h
  BY <1>1, NetworkTypes
<1>3. Known(h)
  BY <1>2
<1>4. BtcAnchor(h).rec # 0 \/ BtcAnchor(h).block # 0
  BY <1>2, <1>3 DEF IsNewAnchor, IsAnchor, BtcAnchor
<1>5. BtcAnchor(h).rec \in Height
  BY <1>3, BitcoinTypes, AnchorType DEF BtcAnchor, Networks
<1>6. BtcAnchor(h).rec # 0 => BtcAnchor(h).rec > 0
  BY <1>5, DatabaseAssumption DEF Height
<1> QED
  BY <1>2, <1>3, <1>4, <1>6 DEF TxidFirst

\* A listed transaction is taken or passed.
LEMMA ProcessTxKeeps ==
    ASSUME BitcoinInv, ProcessTx
    PROVE  BitcoinInv'
<1> USE DEF BitcoinInv
<1>0. NetworkInv /\ ProcessTypeOK /\ DatabaseTypeOK
  BY DEF BitcoinTypeInv
<1>1. PICK t \in listed :
        /\ listed' = listed \ {t}
        /\ IF IsNewAnchor(t) THEN SaveTx(t) ELSE UNCHANGED anchorData
  BY DEF ProcessTx
<1>2. /\ pc = "tx" /\ pc' = "tx"
      /\ UNCHANGED <<faults, errors, progress, chainHead, lastFactom, lastBitcoin, btcVars,
                     newBlock, height, count, sent>>
      /\ UNCHANGED <<btcTx, mempool, btcBlocks, mainChain>>
  BY DEF ProcessTx, processVars, btcVars
<1>3. t.id \in DOMAIN btcTx /\ t.block \in DOMAIN btcBlocks
  BY BitcoinTypes
<1>4. SendingInv' /\ OlderDoneBelow'
  BY <1>2 DEF SendingInv, OlderDoneBelow, Recording
<1>5. ListedInBlocks'
  BY <1>1, <1>2 DEF ListedInBlocks
<1>6. ~Recording /\ ~Recording'
  BY <1>2 DEF Recording
<1>7. CASE ~IsNewAnchor(t)
  <2>1. UNCHANGED anchorData
    BY <1>1, <1>7
  <2>2. /\ NetworkInv' /\ TxidFirst' /\ TxEpochs' /\ AnchoredOncePerFault'
        /\ SentBlocksKnown' /\ StoredBlocksExist' /\ StoredHashHoldsAnchor'
        /\ KnownPrefix' /\ HeadComplete' /\ CheckedAnchorsAreKnown'
    BY <1>2, <1>6, <2>1, QuietKeeps
  <2>3. BitcoinTypeInv'
    <3>1. ProcessTypeOK' /\ DatabaseTypeOK'
      BY <1>0, <1>2, <2>1 DEF ProcessTypeOK, DatabaseTypeOK
    <3>2. listed' \subseteq [id: DOMAIN btcTx, block: DOMAIN btcBlocks]
      BY <1>1 DEF BitcoinTypeInv
    <3> QED
      BY <1>2, <2>2, <3>1, <3>2 DEF BitcoinTypeInv
  <2>4. ListedCovers'
    <3> SUFFICES ASSUME Persistent, NEW id \in TxsBetween(0, ForkPoint(newBlock))'
                 PROVE  Settled(id)' \/ StillListed(id)'
      BY DEF ListedCovers
    <3>1. id \in TxsBetween(0, ForkPoint(newBlock))
      BY <1>2 DEF TxsBetween, ForkPoint, Lineage
    <3>2. Settled(id) \/ StillListed(id)
      BY <1>2, <3>1 DEF ListedCovers
    <3>3. \A i : Settled(i) => Settled(i)'
      BY <1>2, <2>1 DEF Settled, IsAnchor, BtcAnchor, Known, FetchAnchorData
    <3>4. Settled(t.id)
      BY <1>3, <1>7, PassedTxSettled DEF SentBlocksKnown
    <3> QED
      BY <1>1, <3>2, <3>3, <3>4 DEF StillListed
  <2> QED
    BY <1>4, <1>5, <2>2, <2>3, <2>4
<1>8. CASE IsNewAnchor(t)
  <2>1. PICK h \in Height : h = btcTx[t.id].h
    BY <1>0, <1>3, NetworkTypes
  <2>2. /\ Known(h) /\ BtcAnchor(h).rec = 0 /\ BtcAnchor(h).block = 0
        /\ IsAnchor(t.id)
    BY <1>8, <2>1 DEF IsNewAnchor, BtcAnchor, IsAnchor
  <2> DEFINE a == [BtcAnchor(h) EXCEPT !.txid = t.id, !.block = t.block]
  <2>3. BtcAnchor(h) \in NetAnchor /\ anchorData[h] \in [Networks -> NetAnchor]
    BY <2>2, AnchorType, BitcoinTypes, KnownData DEF BtcAnchor, Networks, AnchorData
  <2>4. t.id \in Nat \ {0} /\ t.block \in Nat \ {0}
    BY <1>0, <1>3, NetworkTypes
  <2>5. a \in NetAnchor /\ a.txid = t.id /\ a.block = t.block /\ a.rec = 0
    BY <2>2, <2>3, <2>4 DEF NetAnchor
  <2>6. InsertAnchorData(h, [anchorData[h] EXCEPT !["Bitcoin"] = a])
    <3>1. [anchorData[h] EXCEPT !["Bitcoin"].txid = t.id, !["Bitcoin"].block = t.block]
            = [anchorData[h] EXCEPT !["Bitcoin"] = a]
      BY <2>3 DEF BtcAnchor, Networks, NetAnchor
    <3> QED
      BY <1>1, <1>8, <2>1, <3>1 DEF SaveTx
  <2> HIDE DEF a
  <2>7. a.txid \in btcBlocks[a.block].txs /\ a.txid \in AnchorTxs(h)
    BY <1>3, <2>1, <2>2, <2>5 DEF ListedInBlocks, AnchorTxs, IsAnchor
  <2>8. /\ NetworkInv' /\ DatabaseTypeOK' /\ TxidFirst' /\ StoredBlocksExist'
        /\ StoredHashHoldsAnchor' /\ KnownPrefix' /\ HeadComplete' /\ SentBlocksKnown'
        /\ CheckedAnchorsAreKnown' /\ AnchoredOncePerFault'
        /\ \A k \in Height : Known(k)' <=> Known(k)
        /\ \A k \in Height : Known(k) =>
            BtcAnchor(k)' = IF k = h THEN a ELSE BtcAnchor(k)
        /\ \A id \in DOMAIN btcTx : Settled(id) => Settled(id)'
    BY <1>2, <1>3, <2>2, <2>4, <2>5, <2>6, <2>7, TxidWritten
  <2>9. BitcoinTypeInv'
    <3>1. ProcessTypeOK'
      BY <1>0, <1>2 DEF ProcessTypeOK
    <3>2. listed' \subseteq [id: DOMAIN btcTx, block: DOMAIN btcBlocks]
      BY <1>1 DEF BitcoinTypeInv
    <3> QED
      BY <1>2, <2>8, <3>1, <3>2 DEF BitcoinTypeInv
  <2>10. \A k \in Height : Known(k) /\ BtcAnchor(k).txid # 0 =>
            Known(k)' /\ BtcAnchor(k)'.txid # 0
    BY <2>4, <2>5, <2>8
  <2>11. TxEpochs'
    <3> SUFFICES ASSUME NEW id \in DOMAIN btcTx, IsAnchor(id), btcTx[id].epoch = faults
                 PROVE  Known(btcTx[id].h)' /\ BtcAnchor(btcTx[id].h)'.txid # 0
      BY <1>2, <1>6 DEF TxEpochs, IsAnchor, BtcAnchor, Known, FetchAnchorData
    <3>1. PICK k \in Height : k = btcTx[id].h
      BY <1>0, NetworkTypes
    <3>2. Known(k) /\ BtcAnchor(k).txid # 0
      BY <1>6, <3>1 DEF TxEpochs
    <3> QED
      BY <1>2, <2>10, <3>1, <3>2 DEF Known, FetchAnchorData, BtcAnchor
  <2>12. Settled(t.id)'
    BY <1>2, <2>1, <2>2, <2>4, <2>5, <2>8
       DEF Settled, IsAnchor, Known, FetchAnchorData, BtcAnchor
  <2>13. ListedCovers'
    <3> SUFFICES ASSUME Persistent, NEW id \in TxsBetween(0, ForkPoint(newBlock))'
                 PROVE  Settled(id)' \/ StillListed(id)'
      BY DEF ListedCovers
    <3>1. id \in TxsBetween(0, ForkPoint(newBlock))
      BY <1>2 DEF TxsBetween, ForkPoint, Lineage
    <3>2. Settled(id) \/ StillListed(id)
      BY <1>2, <3>1 DEF ListedCovers
    <3>3. id \in DOMAIN btcTx
      BY <1>0, <3>1, CheckedTxs
    <3> QED
      BY <1>1, <2>8, <2>12, <3>2, <3>3 DEF StillListed
  <2> QED
    BY <1>4, <1>5, <2>8, <2>9, <2>11, <2>13
<1> QED
  BY <1>7, <1>8

\* The listed transactions are done, and the state is saved.
LEMMA SaveBitcoinStateKeeps ==
    ASSUME BitcoinInv, SaveBitcoinState
    PROVE  BitcoinInv'
<1> USE DEF BitcoinInv
<1>0. NetworkInv /\ ProcessTypeOK /\ DatabaseTypeOK
  BY DEF BitcoinTypeInv
<1>1. /\ pc = "tx" /\ pc' = "syncBitcoin" /\ faults' = faults /\ listed = {}
      /\ lastBitcoin' = newBlock /\ Normally("syncBitcoin") /\ ForgetAnchoring
      /\ UNCHANGED <<progress, anchorData, chainHead, lastFactom, btcVars>>
      /\ UNCHANGED <<btcTx, mempool, btcBlocks, mainChain>>
  BY DEF SaveBitcoinState, Normally, Goto, btcVars
<1>2. /\ NetworkInv' /\ BlocksKept /\ TxsKept
      /\ TxidFirst' /\ TxEpochs' /\ AnchoredOncePerFault' /\ SentBlocksKnown'
      /\ StoredBlocksExist' /\ StoredHashHoldsAnchor' /\ KnownPrefix' /\ HeadComplete'
  BY <1>1, QuietKeeps DEF Recording
<1>3. BitcoinTypeInv'
  <2>1. ProcessTypeOK'
    BY <1>0, <1>1, ProcessGoesOn DEF PCs, BitcoinSteps
  <2>2. newBlock \in Nat
    BY <1>0, BitcoinTypes, NetworkTypes
  <2>3. DatabaseTypeOK'
    BY <1>0, <1>1, <2>2 DEF DatabaseTypeOK
  <2> QED
    BY <1>1, <1>2, <2>1, <2>3, BitcoinTypesKept
<1>4. ListedInBlocks' /\ SendingInv' /\ OlderDoneBelow' /\ ListedCovers'
  BY <1>1 DEF ListedInBlocks, SendingInv, OlderDoneBelow, ListedCovers, Recording, Busy,
              ForgetAnchoring
<1>5. CheckedAnchorsAreKnown'
  <2> SUFFICES ASSUME Persistent,
                      NEW id \in TxsBetween(0, ForkPoint(lastBitcoin))',
                      btcTx[id].kind = "anchor"
               PROVE  Settled(id)'
    BY <1>1 DEF CheckedAnchorsAreKnown, Settled, IsAnchor, BtcAnchor, Known,
                FetchAnchorData
  <2>1. id \in TxsBetween(0, ForkPoint(newBlock))
    BY <1>1 DEF TxsBetween, ForkPoint, Lineage
  <2>2. Settled(id)
    BY <1>1, <2>1 DEF ListedCovers, StillListed
  <2> QED
    BY <1>1, <2>2 DEF Settled, IsAnchor, BtcAnchor, Known, FetchAnchorData
<1> QED
  BY <1>2, <1>3, <1>4, <1>5

-----------------------------------------------------------------------------
(* AnchorBlocksIntoBitcoin. *)

\* A step that only moves the control point and the locals of the loop.
LEMMA MoveKeeps ==
    ASSUME BitcoinInv, ProcessTypeOK', faults' = faults, UNCHANGED <<dbVars, btcVars>>,
           ~Recording, pc' \notin {"tx", "recordNewest", "recordOlder"},
           listed' \subseteq listed, newBlock' \in {0, newBlock}, sent' \in {0, sent},
           height' \in 0..(MaxHeight + 1), count' \in 0..AnchorBatch, OlderDoneBelow'
    PROVE  BitcoinInv'
<1> USE DEF BitcoinInv
<1>0. NetworkInv /\ DatabaseTypeOK
  BY DEF BitcoinTypeInv
<1>1. /\ UNCHANGED <<anchorData, chainHead, lastFactom, lastBitcoin>>
      /\ UNCHANGED <<btcTx, mempool, btcBlocks, mainChain>>
  BY DEF dbVars, btcVars
<1>2. /\ NetworkInv' /\ BlocksKept /\ TxsKept
      /\ TxidFirst' /\ TxEpochs' /\ AnchoredOncePerFault' /\ SentBlocksKnown'
      /\ StoredBlocksExist' /\ StoredHashHoldsAnchor' /\ KnownPrefix' /\ HeadComplete'
      /\ ListedInBlocks' /\ CheckedAnchorsAreKnown'
  BY <1>1, QuietKeeps
<1>3. DatabaseTypeOK'
  BY <1>0, <1>1 DEF DatabaseTypeOK
<1>4. newBlock' \in 0..Len(btcBlocks) /\ sent' \in 0..Len(btcTx)
  <2>1. Len(btcBlocks) \in Nat /\ Len(btcTx) \in Nat
    BY <1>0, NetworkTypes
  <2>2. newBlock \in 0..Len(btcBlocks) /\ sent \in 0..Len(btcTx)
    BY DEF BitcoinTypeInv
  <2> QED
    BY <2>1, <2>2
<1>5. BitcoinTypeInv'
  <2>1. listed' \subseteq [id: DOMAIN btcTx, block: DOMAIN btcBlocks]
    BY DEF BitcoinTypeInv
  <2>2. lastBitcoin' \in 0..Len(btcBlocks)
    BY <1>1 DEF BitcoinTypeInv
  <2> QED
    BY <1>1, <1>2, <1>3, <1>4, <2>1, <2>2 DEF BitcoinTypeInv
<1>6. SendingInv' /\ ListedCovers'
  BY DEF SendingInv, ListedCovers, Recording
<1> QED
  BY <1>2, <1>5, <1>6

\* Everything before the chain head is complete, so it has its transaction.
LEMMA BeginAnchoringKeeps ==
    ASSUME BitcoinInv, BeginAnchoring
    PROVE  BitcoinInv'
<1> USE DEF BitcoinInv
<1>1. /\ pc = "anchor" /\ pc' = "newest" /\ faults' = faults /\ ProcessTypeOK'
      /\ height' = AfterHead /\ count' = 0
      /\ UNCHANGED <<dbVars, btcVars, listed, newBlock, sent>>
      /\ UNCHANGED <<anchorData, chainHead>>
  <2>1. ProcessTypeOK' /\ pc' = "newest" /\ faults' = faults
    BY ProcessGoesOn DEF BeginAnchoring, BitcoinTypeInv, PCs, AnchorSteps
  <2> QED
    BY <2>1 DEF BeginAnchoring, dbVars
<1>2. /\ MaxHeight \in Nat /\ AnchorBatch \in Nat
      /\ chainHead # Nil => chainHead \in Height
  BY BitcoinTypes DEF BitcoinTypeInv, DatabaseTypeOK
<1>3. AfterHead \in 0..(MaxHeight + 1)
  BY <1>2 DEF AfterHead, Height
<1>4. ASSUME NEW k \in 0..(AfterHead - 1)
      PROVE  Known(k) /\ ~NeedsAnchor(k)
  <2>1. chainHead # Nil /\ k \in 0..chainHead /\ k \in Height
    BY <1>2, <1>4 DEF AfterHead, Height
  <2>2. Complete(k)
    BY <2>1 DEF HeadComplete
  <2>3. Known(k) /\ BtcAnchor(k).rec > 0
    BY <2>1, <2>2 DEF Complete, IsComplete, Known, FetchAnchorData, BtcAnchor
  <2> QED
    BY <2>1, <2>3 DEF TxidFirst, NeedsAnchor, BtcAnchor
<1>5. OlderDoneBelow'
  BY <1>1, <1>4 DEF OlderDoneBelow, Known, FetchAnchorData, NeedsAnchor
<1> QED
  BY <1>1, <1>2, <1>3, <1>5, MoveKeeps DEF Recording

\* The newest block needs no transaction, or the funds are used up.
LEMMA NewestNotSentKeeps ==
    ASSUME BitcoinInv, NewestNotSent
    PROVE  BitcoinInv'
<1> USE DEF BitcoinInv
<1>1. /\ pc = "newest" /\ pc' = "older" /\ faults' = faults /\ ProcessTypeOK'
      /\ UNCHANGED <<dbVars, btcVars, listed, newBlock, height, count, sent>>
      /\ UNCHANGED <<anchorData, chainHead>>
  <2>1. ProcessTypeOK' /\ pc' = "older" /\ faults' = faults
    BY ProcessGoesOn DEF NewestNotSent, BitcoinTypeInv, PCs, AnchorSteps
  <2> QED
    BY <2>1 DEF NewestNotSent, dbVars, anchorVars
<1>2. OlderDoneBelow'
  BY <1>1 DEF OlderDoneBelow, Busy, Known, FetchAnchorData, NeedsAnchor
<1> QED
  BY <1>1, <1>2, MoveKeeps DEF Recording, BitcoinTypeInv

\* A block that needs no transaction is behind the loop.
LEMMA SkipOlderKeeps ==
    ASSUME BitcoinInv, SkipOlder
    PROVE  BitcoinInv'
<1> USE DEF BitcoinInv
<1>1. /\ pc = "older" /\ pc' = pc /\ faults' = faults
      /\ Known(height) /\ ~NeedsAnchor(height) /\ height' = height + 1
      /\ UNCHANGED <<errors, progress, dbVars, btcVars, listed, newBlock, count, sent>>
      /\ UNCHANGED <<anchorData, chainHead>>
  BY DEF SkipOlder, dbVars, processVars
<1>2. ProcessTypeOK'
  BY <1>1 DEF ProcessTypeOK, BitcoinTypeInv
<1>3. height \in Height /\ MaxHeight \in Nat
  BY <1>1, DatabaseAssumption DEF Known, FetchAnchorData
<1>4. height + 1 \in 0..(MaxHeight + 1)
  BY <1>3 DEF Height
<1>5. OlderDoneBelow'
  <2>1. \A k : (Known(k)' <=> Known(k)) /\ (NeedsAnchor(k)' <=> NeedsAnchor(k))
    BY <1>1 DEF Known, FetchAnchorData, NeedsAnchor
  <2>2. \A k \in 0..(height - 1) : Known(k) /\ ~NeedsAnchor(k)
    BY <1>1 DEF OlderDoneBelow, Busy
  <2>3. \A k \in 0..(height' - 1) : Known(k) /\ ~NeedsAnchor(k)
    <3> TAKE k \in 0..(height' - 1)
    <3>1. k \in 0..(height - 1) \/ k = height
      <4>1. height' = height + 1 /\ height \in Nat
        BY <1>1, <1>3 DEF Height
      <4>2. k \in Int /\ 0 <= k /\ k <= height
        BY <4>1
      <4> QED
        BY <4>1, <4>2
    <3>2. CASE k = height
      BY <1>1, <3>2, Zenon
    <3> QED
      BY <2>2, <3>1, <3>2
  <2> QED
    BY <2>1, <2>3 DEF OlderDoneBelow
<1> QED
  BY <1>1, <1>2, <1>4, <1>5, MoveKeeps DEF Recording, BitcoinTypeInv

\* The loop ends, or a call before a send fails: the locals are forgotten.
LEMMA LeaveKeeps ==
    ASSUME BitcoinInv, ~Recording, ProcessTypeOK', pc' \notin Busy, faults' = faults,
           UNCHANGED <<dbVars, btcVars>>, ForgetAnchoring
    PROVE  BitcoinInv'
<1>1. OlderDoneBelow' /\ pc' \notin {"tx", "recordNewest", "recordOlder"}
  BY DEF OlderDoneBelow, Busy
<1>2. /\ listed' \subseteq listed /\ newBlock' \in {0, newBlock} /\ sent' \in {0, sent}
      /\ height' \in 0..(MaxHeight + 1) /\ count' \in 0..AnchorBatch
  BY BitcoinTypes DEF ForgetAnchoring, BitcoinInv
<1> QED
  BY <1>1, <1>2, MoveKeeps

\* A transaction is broadcast for a block that has none: none of the same epoch
\* was sent for it.
LEMMA SendKeeps ==
    ASSUME BitcoinInv, ~Recording, NEW h, NeedsAnchor(h), Broadcast(h, faults),
           UNCHANGED <<anchorData, chainHead, lastBitcoin>>, listed' \subseteq listed
    PROVE  /\ NetworkInv' /\ BlocksKept /\ TxsKept
           /\ h \in Height /\ NextTxId \in 1..Len(btcTx')
           /\ TxidFirst' /\ StoredBlocksExist' /\ StoredHashHoldsAnchor' /\ KnownPrefix'
           /\ HeadComplete' /\ ListedInBlocks' /\ CheckedAnchorsAreKnown'
           /\ AnchoredOncePerFault' /\ SentBlocksKnown'
           /\ \A k : Known(k)' <=> Known(k)
           /\ \A id \in DOMAIN btcTx' : btcTx'[id].kind = "anchor" =>
                /\ btcTx'[id].epoch \in Nat /\ btcTx'[id].epoch <= faults
                /\ btcTx'[id].epoch = faults =>
                     \/ btcTx'[id].h = h
                     \/ Known(btcTx'[id].h) /\ BtcAnchor(btcTx'[id].h).txid # 0
<1> USE DEF BitcoinInv
<1>0. NetworkInv
  BY DEF BitcoinTypeInv
<1>1. Known(h) /\ h \in Height /\ BtcAnchor(h).txid = 0
  BY BitcoinTypes, KnownData DEF NeedsAnchor, BtcAnchor
<1> DEFINE tx == [h |-> h, kind |-> "anchor", epoch |-> faults, of |-> NextTxId]
<1>2. tx \in Tx /\ tx.h = h /\ tx.epoch = faults /\ tx.of = NextTxId
  <2>1. faults \in Nat /\ NextTxId \in Nat
    BY <1>0, BitcoinTypes, NetworkTypes DEF NextTxId
  <2> QED
    BY <1>1, <2>1 DEF Tx
<1>3. /\ btcTx' = Append(btcTx, tx) /\ mempool' \subseteq mempool \cup {NextTxId}
      /\ UNCHANGED <<btcBlocks, mainChain>>
  BY DEF Broadcast
<1> HIDE DEF tx
<1>4. /\ NetworkInv' /\ BlocksKept /\ TxsKept
      /\ Len(btcTx') = NextTxId /\ NextTxId \notin DOMAIN btcTx
      /\ DOMAIN btcTx' = DOMAIN btcTx \cup {NextTxId}
      /\ btcTx'[NextTxId] = tx
  BY <1>0, <1>2, <1>3, AppendTx
<1>5. NextTxId \in 1..Len(btcTx')
  BY <1>0, <1>4, NetworkTypes DEF NextTxId
<1>6. /\ TxidFirst' /\ StoredBlocksExist' /\ StoredHashHoldsAnchor' /\ KnownPrefix'
      /\ HeadComplete' /\ ListedInBlocks' /\ CheckedAnchorsAreKnown'
  BY <1>4, StoredStaysTrue
<1>7. \A k : Known(k)' <=> Known(k)
  BY DEF Known, FetchAnchorData
<1>8. \A id \in DOMAIN btcTx : btcTx'[id] = btcTx[id]
  BY <1>4 DEF TxsKept
<1>9. \A id \in DOMAIN btcTx : btcTx[id].kind = "anchor" =>
        /\ btcTx[id].epoch \in Nat /\ btcTx[id].epoch <= faults
        /\ btcTx[id].epoch = faults =>
             Known(btcTx[id].h) /\ BtcAnchor(btcTx[id].h).txid # 0
  BY <1>0, NetworkTypes DEF TxEpochs, IsAnchor
<1>10. faults \in Nat /\ faults <= faults
  BY BitcoinTypes
<1>11. \A id \in DOMAIN btcTx' : btcTx'[id].kind = "anchor" =>
        /\ btcTx'[id].epoch \in Nat /\ btcTx'[id].epoch <= faults
        /\ btcTx'[id].epoch = faults =>
             \/ btcTx'[id].h = h
             \/ Known(btcTx'[id].h) /\ BtcAnchor(btcTx'[id].h).txid # 0
  BY <1>2, <1>4, <1>8, <1>9, <1>10
<1>12. AnchoredOncePerFault'
  <2>1. \A id \in DOMAIN btcTx : btcTx[id].kind = "anchor" /\ btcTx[id].h = h =>
            btcTx[id].epoch # faults
    BY <1>1, <1>9
  <2> SUFFICES ASSUME NEW k \in Height, NEW i \in AnchorTxs(k)', NEW j \in AnchorTxs(k)',
                      btcTx'[i].of # btcTx'[j].of
               PROVE  btcTx'[i].epoch # btcTx'[j].epoch
    BY DEF AnchoredOncePerFault
  <2>2. /\ i \in DOMAIN btcTx \cup {NextTxId} /\ j \in DOMAIN btcTx \cup {NextTxId}
        /\ btcTx'[i].kind = "anchor" /\ btcTx'[j].kind = "anchor"
        /\ btcTx'[i].h = k /\ btcTx'[j].h = k
    BY <1>4 DEF AnchorTxs
  <2>3. CASE i \in DOMAIN btcTx /\ j \in DOMAIN btcTx
    BY <1>8, <2>2, <2>3 DEF AnchoredOncePerFault, AnchorTxs
  <2>4. CASE i \in DOMAIN btcTx /\ j = NextTxId
    BY <1>2, <1>4, <1>8, <2>1, <2>2, <2>4
  <2>5. CASE i = NextTxId /\ j \in DOMAIN btcTx
    BY <1>2, <1>4, <1>8, <2>1, <2>2, <2>5
  <2> QED
    BY <2>2, <2>3, <2>4, <2>5
<1>13. SentBlocksKnown'
  BY <1>1, <1>2, <1>4, <1>7, <1>8 DEF SentBlocksKnown, IsAnchor, Known, FetchAnchorData
<1> QED
  BY <1>1, <1>4, <1>5, <1>6, <1>7, <1>11, <1>12, <1>13

\* After a send the txid is to be recorded: the only block whose transaction of
\* this epoch is not known yet is the one it was sent for.
LEMMA SentKeeps ==
    ASSUME BitcoinInv, NEW h, NeedsAnchor(h), Broadcast(h, faults), sent' = NextTxId,
           UNCHANGED <<progress, dbVars, listed, newBlock, height, count>>,
           \/ pc = "newest" /\ h = lastFactom /\ Normally("recordNewest")
           \/ pc = "older" /\ h = height /\ count < AnchorBatch /\ Normally("recordOlder")
    PROVE  BitcoinInv'
<1> USE DEF BitcoinInv
<1>0. NetworkInv /\ ProcessTypeOK /\ DatabaseTypeOK
  BY DEF BitcoinTypeInv
<1>1. UNCHANGED <<anchorData, chainHead, lastFactom, lastBitcoin>>
  BY DEF dbVars
<1>2. /\ ~Recording /\ pc' \in {"recordNewest", "recordOlder"}
      /\ pc' = "recordOlder" => count < AnchorBatch
      /\ Target' = h /\ faults' = faults
  BY <1>1 DEF Recording, Target, Normally, Goto
<1>3. /\ NetworkInv' /\ BlocksKept /\ TxsKept
      /\ h \in Height /\ NextTxId \in 1..Len(btcTx')
      /\ TxidFirst' /\ StoredBlocksExist' /\ StoredHashHoldsAnchor' /\ KnownPrefix'
      /\ HeadComplete' /\ ListedInBlocks' /\ CheckedAnchorsAreKnown'
      /\ AnchoredOncePerFault' /\ SentBlocksKnown'
      /\ \A k : Known(k)' <=> Known(k)
      /\ \A id \in DOMAIN btcTx' : btcTx'[id].kind = "anchor" =>
           /\ btcTx'[id].epoch \in Nat /\ btcTx'[id].epoch <= faults
           /\ btcTx'[id].epoch = faults =>
                \/ btcTx'[id].h = h
                \/ Known(btcTx'[id].h) /\ BtcAnchor(btcTx'[id].h).txid # 0
  BY <1>1, <1>2, SendKeeps
<1>4. BitcoinTypeInv'
  <2>1. ProcessTypeOK'
    BY <1>0, ProcessGoesOn DEF PCs, AnchorSteps
  <2>2. DatabaseTypeOK'
    BY <1>0, <1>1 DEF DatabaseTypeOK
  <2>3. listed' \subseteq [id: DOMAIN btcTx', block: DOMAIN btcBlocks']
    <3>1. listed \subseteq [id: DOMAIN btcTx, block: DOMAIN btcBlocks]
      BY DEF BitcoinTypeInv
    <3> QED
      BY <1>3, <3>1 DEF TxsKept, BlocksKept
  <2>4. btcBlocks' = btcBlocks
    BY DEF Broadcast
  <2>5. sent' \in 0..Len(btcTx')
    <3>1. Len(btcTx') \in Nat
      BY <1>3 DEF NetworkInv, BitcoinTypeOK
    <3> QED
      BY <1>3, <3>1
  <2> QED
    BY <1>1, <1>3, <2>1, <2>2, <2>3, <2>4, <2>5 DEF BitcoinTypeInv
<1>5. \A k : /\ BtcAnchor(k)' = BtcAnchor(k)
             /\ NeedsAnchor(k)' <=> NeedsAnchor(k)
  BY <1>1 DEF BtcAnchor, NeedsAnchor, Known, FetchAnchorData
<1>6. SendingInv'
  <2>1. sent' # 0
    BY <1>3
  <2>2. NeedsAnchor(Target)'
    BY <1>1, <1>2 DEF NeedsAnchor, Known, FetchAnchorData
  <2> QED
    BY <1>2, <2>1, <2>2 DEF SendingInv
<1>7. TxEpochs'
  <2>1. Known(h)' /\ Recording'
    BY <1>2, <1>3 DEF NeedsAnchor, Recording
  <2>2. \A id \in DOMAIN btcTx' : btcTx'[id].h = h => Known(btcTx'[id].h)
    BY <1>3, <2>1
  <2>3. \A k : (Known(k) <=> Known(k)') /\ BtcAnchor(k)' = BtcAnchor(k)
    BY <1>3, <1>5
  <2> QED
    BY <1>2, <1>3, <2>1, <2>2, <2>3
       DEF TxEpochs, IsAnchor, Known, FetchAnchorData, BtcAnchor
<1>8. ListedCovers'
  BY <1>2 DEF ListedCovers
<1>9. OlderDoneBelow'
  <2>1. pc \in Busy \ {"tx"}
    BY DEF Busy
  <2> QED
    BY <1>3, <1>5, <2>1 DEF OlderDoneBelow
<1> QED
  BY <1>3, <1>4, <1>6, <1>7, <1>8, <1>9

\* The reply to a send is lost: a new epoch begins.
LEMMA SendReplyLostKeeps ==
    ASSUME BitcoinInv, SendReplyLost
    PROVE  BitcoinInv'
<1> USE DEF BitcoinInv
<1>0. NetworkInv /\ ProcessTypeOK /\ DatabaseTypeOK
  BY DEF BitcoinTypeInv
<1>1. PICK h \in Height : SendingFor(h) /\ Broadcast(h, faults)
  BY DEF SendReplyLost
<1>2. /\ Fault("lostReply", "loop") /\ ForgetAnchoring /\ UNCHANGED dbVars
      /\ UNCHANGED <<anchorData, chainHead, lastFactom, lastBitcoin>>
  BY DEF SendReplyLost, dbVars
<1>3. NeedsAnchor(h) /\ ~Recording
  BY <1>1 DEF SendingFor, Recording
<1>4. listed' \subseteq listed
  BY <1>2 DEF ForgetAnchoring
<1>5. /\ NetworkInv' /\ BlocksKept /\ TxsKept
      /\ TxidFirst' /\ StoredBlocksExist' /\ StoredHashHoldsAnchor' /\ KnownPrefix'
      /\ HeadComplete' /\ ListedInBlocks' /\ CheckedAnchorsAreKnown'
      /\ AnchoredOncePerFault' /\ SentBlocksKnown'
      /\ \A id \in DOMAIN btcTx' : btcTx'[id].kind = "anchor" =>
           btcTx'[id].epoch \in Nat /\ btcTx'[id].epoch <= faults
  BY <1>1, <1>2, <1>3, <1>4, SendKeeps
<1>6. ProcessTypeOK' /\ pc' = "loop" /\ faults' = faults + 1 /\ faults \in Nat
  BY <1>0, <1>2, ProcessSteps, BitcoinTypes DEF PCs, Fault
<1>7. BitcoinTypeInv'
  <2>1. DatabaseTypeOK'
    BY <1>0, <1>2 DEF DatabaseTypeOK
  <2> QED
    BY <1>2, <1>5, <1>6, <2>1, BitcoinTypesKept
<1>8. TxEpochs'
  BY <1>5, <1>6 DEF TxEpochs, IsAnchor
<1>9. SendingInv' /\ ListedCovers' /\ OlderDoneBelow'
  BY <1>6 DEF SendingInv, ListedCovers, OlderDoneBelow, Busy, Recording
<1> QED
  BY <1>5, <1>7, <1>8, <1>9

\* The txid of a send is recorded, and the loop goes on behind its block.
LEMMA RecordKeeps ==
    ASSUME BitcoinInv, Recording, RecordTxid(Target), sent' = 0, Normally("older"),
           UNCHANGED <<progress, chainHead, lastFactom, lastBitcoin, btcVars,
                       listed, newBlock>>,
           \/ UNCHANGED <<height, count>>
           \/ pc = "recordOlder" /\ height' = height + 1 /\ count' = count + 1
    PROVE  BitcoinInv'
<1> USE DEF BitcoinInv
<1>0. NetworkInv /\ ProcessTypeOK /\ DatabaseTypeOK
  BY DEF BitcoinTypeInv
<1>1. PICK h : h = Target
  OBVIOUS
<1>2. /\ sent \in Nat \ {0} /\ Known(h) /\ h \in Height /\ BtcAnchor(h).txid = 0
      /\ pc = "recordOlder" => h = height /\ count < AnchorBatch
  <2>1. sent # 0 /\ NeedsAnchor(h) /\ (pc = "recordOlder" => count < AnchorBatch)
    BY <1>1 DEF SendingInv
  <2>2. sent \in 0..Len(btcTx) /\ Len(btcTx) \in Nat
    BY <1>0, NetworkTypes DEF BitcoinTypeInv
  <2>3. h \in Height
    BY <2>1, KnownData, BitcoinTypes DEF NeedsAnchor
  <2> QED
    BY <1>1, <2>1, <2>2, <2>3 DEF NeedsAnchor, BtcAnchor, Target
<1>3. BtcAnchor(h).block = 0 /\ BtcAnchor(h).rec = 0
  <2>1. BtcAnchor(h).rec \in Height
    BY <1>2, BitcoinTypes, AnchorType DEF BtcAnchor, Networks
  <2>2. BtcAnchor(h).rec # 0 => BtcAnchor(h).rec > 0
    BY <2>1, DatabaseAssumption DEF Height
  <2> QED
    BY <1>2, <2>2 DEF TxidFirst
<1> DEFINE a == [BtcAnchor(h) EXCEPT !.txid = sent]
<1>4. BtcAnchor(h) \in NetAnchor /\ anchorData[h] \in [Networks -> NetAnchor]
  BY <1>2, AnchorType, BitcoinTypes, KnownData DEF BtcAnchor, Networks, AnchorData
<1>5. a \in NetAnchor /\ a.txid = sent /\ a.block = 0 /\ a.rec = 0
  BY <1>2, <1>3, <1>4 DEF NetAnchor
<1>6. InsertAnchorData(h, [anchorData[h] EXCEPT !["Bitcoin"] = a])
  <2>1. [anchorData[h] EXCEPT !["Bitcoin"].txid = sent]
          = [anchorData[h] EXCEPT !["Bitcoin"] = a]
    BY <1>4 DEF BtcAnchor, Networks, NetAnchor
  <2> QED
    BY <1>1, <2>1 DEF RecordTxid
<1> HIDE DEF a
<1>7. /\ NetworkInv' /\ DatabaseTypeOK' /\ TxidFirst' /\ StoredBlocksExist'
      /\ StoredHashHoldsAnchor' /\ KnownPrefix' /\ HeadComplete' /\ SentBlocksKnown'
      /\ CheckedAnchorsAreKnown' /\ AnchoredOncePerFault'
      /\ \A k \in Height : Known(k)' <=> Known(k)
      /\ \A k \in Height : Known(k) =>
          BtcAnchor(k)' = IF k = h THEN a ELSE BtcAnchor(k)
  BY <1>2, <1>3, <1>5, <1>6, TxidWritten
<1>8. UNCHANGED <<btcTx, mempool, btcBlocks, mainChain>>
  BY DEF btcVars
<1>9. /\ ProcessTypeOK' /\ pc' = "older" /\ faults' = faults
  BY <1>0, ProcessGoesOn DEF PCs, AnchorSteps
<1>10. /\ height \in 0..(MaxHeight + 1) /\ MaxHeight \in Nat
       /\ count \in 0..AnchorBatch /\ AnchorBatch \in Nat
  BY BitcoinTypes
<1>11. height' \in 0..(MaxHeight + 1) /\ count' \in 0..AnchorBatch
  <2>1. CASE UNCHANGED <<height, count>>
    BY <1>10, <2>1
  <2>2. CASE pc = "recordOlder" /\ height' = height + 1 /\ count' = count + 1
    BY <1>2, <1>10, <2>2 DEF Height
  <2> QED
    BY <2>1, <2>2
<1>12. BitcoinTypeInv'
  <2>1. sent' \in 0..Len(btcTx')
    BY <1>0, <1>8, NetworkTypes
  <2> QED
    BY <1>7, <1>8, <1>9, <1>11, <2>1 DEF BitcoinTypeInv
<1>13. \A k \in Height : Known(k) /\ (BtcAnchor(k).txid # 0 \/ k = h) =>
        Known(k)' /\ BtcAnchor(k)'.txid # 0
  BY <1>2, <1>5, <1>7
<1>14. TxEpochs'
  <2> SUFFICES ASSUME NEW id \in DOMAIN btcTx, IsAnchor(id), btcTx[id].epoch = faults
               PROVE  Known(btcTx[id].h)' /\ BtcAnchor(btcTx[id].h)'.txid # 0
    BY <1>8, <1>9 DEF TxEpochs, IsAnchor, BtcAnchor, Known, FetchAnchorData
  <2>1. PICK k \in Height : k = btcTx[id].h
    BY <1>0, NetworkTypes
  <2>2. Known(k) /\ (BtcAnchor(k).txid # 0 \/ k = h)
    BY <1>1, <2>1 DEF TxEpochs
  <2> QED
    BY <1>8, <1>13, <2>1, <2>2 DEF Known, FetchAnchorData, BtcAnchor
<1>15. OlderDoneBelow'
  <2>1. \A k \in 0..(height - 1) : Known(k) /\ ~NeedsAnchor(k)
    BY DEF OlderDoneBelow, Busy, Recording
  <2>2. \A k \in 0..(height' - 1) : k \in 0..(height - 1) \/ k = h
    BY <1>2, <1>10
  <2>3. \A k \in 0..(height' - 1) :
            k \in Height /\ Known(k) /\ (BtcAnchor(k).txid # 0 \/ k = h)
    <3>1. \A k \in 0..(height' - 1) : Known(k) /\ (BtcAnchor(k).txid # 0 \/ k = h)
      BY <1>2, <2>1, <2>2 DEF NeedsAnchor, BtcAnchor
    <3> QED
      BY <3>1 DEF Known, FetchAnchorData
  <2>4. \A k \in 0..(height' - 1) : Known(k)' /\ ~NeedsAnchor(k)'
    BY <1>13, <2>3 DEF NeedsAnchor, BtcAnchor
  <2> QED
    BY <2>4 DEF OlderDoneBelow
<1>16. SendingInv' /\ ListedCovers' /\ ListedInBlocks'
  BY <1>8, <1>9 DEF SendingInv, ListedCovers, ListedInBlocks, Recording
<1> QED
  BY <1>7, <1>12, <1>14, <1>15, <1>16

-----------------------------------------------------------------------------
(* The component as a whole. *)

\* No step and no failure of the component breaks the invariant.
LEMMA BitcoinComponentKeeps ==
    ASSUME BitcoinInv,
           SynchronizeBitcoinData \/ AnchorBlocksIntoBitcoin \/ BitcoinAnchorFailures
    PROVE  BitcoinInv'
<1>0. ProcessTypeOK /\ DatabaseTypeOK /\ NetworkInv /\ KnownPrefix /\ HeadComplete
  BY DEF BitcoinInv, BitcoinTypeInv
<1>1. CASE NothingListed
  <2>1. /\ pc = "syncBitcoin" /\ UNCHANGED <<progress, dbVars, btcVars, anchorVars>>
        /\ UNCHANGED <<anchorData, chainHead, lastBitcoin>>
        /\ Normally("synced")
    BY <1>1 DEF NothingListed, dbVars
  <2>2. ProcessTypeOK' /\ pc' = "synced" /\ faults' = faults
    BY <1>0, <2>1, ProcessGoesOn DEF PCs
  <2>3. DatabaseTypeOK' /\ KnownPrefix' /\ HeadComplete'
    BY <1>0, <2>1
       DEF DatabaseTypeOK, dbVars, KnownPrefix, HeadComplete, Known, Complete,
           FetchAnchorData
  <2>4. Elsewhere /\ OthersFill
    BY <2>1, <2>2, WaitingFillsNothing DEF Elsewhere, Busy
  <2> QED
    BY <2>1, <2>2, <2>3, <2>4, OthersKeep
<1>2. CASE OlderDone
  <2>1. /\ pc = "older" /\ Normally("save") /\ ForgetAnchoring
        /\ UNCHANGED <<progress, dbVars, btcVars>>
    BY <1>2 DEF OlderDone
  <2>2. ProcessTypeOK' /\ pc' = "save" /\ faults' = faults
    BY <1>0, <2>1, ProcessGoesOn DEF PCs, SaveSteps
  <2> QED
    BY <2>1, <2>2, LeaveKeeps DEF Recording, Busy
<1>3. CASE SendNewest
  BY <1>3, SentKeeps DEF SendNewest, SendAnchor
<1>4. CASE SendOlder
  BY <1>4, SentKeeps DEF SendOlder, SendAnchor
<1>5. CASE RecordNewest
  <2>1. Recording /\ Target = lastFactom
    BY <1>5 DEF RecordNewest, Recording, Target
  <2> QED
    BY <1>5, <2>1, RecordKeeps DEF RecordNewest
<1>6. CASE RecordOlder
  <2>1. Recording /\ Target = height
    BY <1>6 DEF RecordOlder, Recording, Target
  <2> QED
    BY <1>6, <2>1, RecordKeeps DEF RecordOlder
<1>7. CASE BitcoinAnchorFails
  <2>1. /\ pc \in BitcoinSteps \cup {"anchor", "newest", "older"} /\ Failed("loop")
        /\ ForgetAnchoring /\ UNCHANGED <<dbVars, btcVars>>
    BY <1>7 DEF BitcoinAnchorFails, FailedCall
  <2>2. ProcessTypeOK' /\ pc' = "loop" /\ faults' = faults
    BY <1>0, <2>1, ProcessGoesOn DEF PCs
  <2> QED
    BY <2>1, <2>2, LeaveKeeps DEF Recording, Busy, BitcoinSteps
<1>8. CASE RpcErrorPanics
  <2>1. /\ ~Recording /\ ForgetAnchoring /\ ReopenDatabase /\ UNCHANGED btcVars
        /\ IF Persistent THEN Failed("rpcPanic") ELSE Fault("crash", "rpcPanic")
    BY <1>8 DEF RpcErrorPanics, SendingFor, Recording
  <2>2. CASE Persistent
    <3>1. Failed("rpcPanic") /\ UNCHANGED dbVars
      BY <2>1, <2>2 DEF ReopenDatabase
    <3>2. ProcessTypeOK' /\ pc' = "rpcPanic" /\ faults' = faults
      BY <1>0, <3>1, ProcessGoesOn DEF PCs
    <3> QED
      BY <2>1, <3>1, <3>2, LeaveKeeps DEF Busy
  <2>3. CASE ~Persistent
    <3>1. ProcessTypeOK' /\ pc' = "rpcPanic" /\ faults' = faults + 1
      BY <1>0, <2>1, <2>3, ProcessSteps DEF PCs, Fault
    <3> QED
      BY <2>1, <3>1, FaultKeeps DEF Busy
  <2> QED
    BY <2>2, <2>3
<1>9. CASE RecordTxidFails
  <2>1. /\ Fault("unsaved", "loop") /\ ForgetAnchoring /\ UNCHANGED <<dbVars, btcVars>>
    BY <1>9 DEF RecordTxidFails
  <2>2. ProcessTypeOK' /\ pc' = "loop" /\ faults' = faults + 1
    BY <1>0, <2>1, ProcessSteps DEF PCs, Fault
  <2> QED
    BY <2>1, <2>2, FaultKeeps DEF Busy
<1>10. CASE SynchronizeBitcoinData
  BY <1>1, <1>10, ListTransactionsKeeps, ProcessTxKeeps, SaveBitcoinStateKeeps
     DEF SynchronizeBitcoinData
<1>11. CASE AnchorBlocksIntoBitcoin
  BY <1>2, <1>3, <1>4, <1>5, <1>6, <1>11, BeginAnchoringKeeps, NewestNotSentKeeps,
     SkipOlderKeeps
     DEF AnchorBlocksIntoBitcoin
<1>12. CASE BitcoinAnchorFailures
  BY <1>7, <1>8, <1>9, <1>12, SendReplyLostKeeps DEF BitcoinAnchorFailures
<1> QED
  BY <1>10, <1>11, <1>12

\* Nothing is known, sent or mined at first but, perhaps, a transaction that is
\* no anchor.
LEMMA BitcoinInitInv ==
    ASSUME ProcessTypeOK, pc \notin Busy, DatabaseInit, BitcoinInit,
           listed = {}, newBlock = 0, height = 0, count = 0, sent = 0
    PROVE  BitcoinInv
<1>1. \A h : ~Known(h)
  BY DEF DatabaseInit, Known, FetchAnchorData
<1>2. chainHead = Nil /\ lastFactom = 0 /\ lastBitcoin = 0 /\ DatabaseTypeOK
  BY DatabaseAssumption DEF DatabaseInit, DatabaseTypeOK, Height
<1>3. /\ NetworkInv /\ mempool = {}
      /\ \A id \in DOMAIN btcTx : btcTx[id].kind = "other"
  <2>1. CASE ~Unrelated
    <3>1. btcTx = <<>> /\ btcBlocks = <<>> /\ mainChain = <<>> /\ mempool = {}
      BY <2>1 DEF BitcoinInit
    <3>2. <<>> \in Seq(Tx) /\ <<>> \in Seq([below: SUBSET Nat, txs: SUBSET DOMAIN btcTx])
          /\ <<>> \in Seq(DOMAIN btcBlocks) /\ DOMAIN <<>> = {}
      OBVIOUS
    <3> QED
      BY <3>1, <3>2 DEF NetworkInv, BitcoinTypeOK
  <2>2. CASE Unrelated
    <3>1. /\ btcTx = <<UnrelatedTx>> /\ mempool = {} /\ mainChain = <<1>>
          /\ btcBlocks = <<[below |-> {}, txs |-> {1}]>>
      BY <2>2 DEF BitcoinInit
    <3>2. UnrelatedTx \in Tx /\ UnrelatedTx.of = 1 /\ UnrelatedTx.kind = "other"
      BY DatabaseAssumption DEF UnrelatedTx, Tx, Height
    <3>3. /\ btcTx \in Seq(Tx) /\ DOMAIN btcTx = {1} /\ btcTx[1] = UnrelatedTx
      BY <3>1, <3>2
    <3> DEFINE block == [below |-> {}, txs |-> {1}]
    <3>4. block \in [below: SUBSET Nat, txs: SUBSET DOMAIN btcTx] /\ block.below = {}
      BY <3>3
    <3>5. btcBlocks = <<block>>
      BY <3>1
    <3> HIDE DEF block
    <3>6. /\ btcBlocks \in Seq([below: SUBSET Nat, txs: SUBSET DOMAIN btcTx])
          /\ DOMAIN btcBlocks = {1} /\ btcBlocks[1] = block
      BY <3>4, <3>5
    <3>7. mainChain \in Seq(DOMAIN btcBlocks)
      BY <3>1, <3>6
    <3> QED
      BY <3>1, <3>2, <3>3, <3>4, <3>6, <3>7 DEF NetworkInv, BitcoinTypeOK
  <2> QED
    BY <2>1, <2>2
<1>4. BitcoinTypeInv
  BY <1>2, <1>3, NetworkTypes, DatabaseAssumption, FaultAssumption DEF BitcoinTypeInv
<1>5. /\ TxidFirst /\ TxEpochs /\ SentBlocksKnown /\ StoredBlocksExist
      /\ StoredHashHoldsAnchor /\ KnownPrefix /\ HeadComplete
      /\ AnchoredOncePerFault
  BY <1>1, <1>2, <1>3
     DEF TxidFirst, TxEpochs, SentBlocksKnown, StoredBlocksExist, IsAnchor,
         StoredHashHoldsAnchor, KnownPrefix, HeadComplete, AnchoredOncePerFault, AnchorTxs
<1>6. SendingInv /\ ListedInBlocks /\ ListedCovers /\ OlderDoneBelow
  BY DEF SendingInv, ListedInBlocks, ListedCovers, OlderDoneBelow, Busy, Recording
<1>7. CheckedAnchorsAreKnown
  <2> SUFFICES ASSUME NEW id \in TxsBetween(0, ForkPoint(lastBitcoin))
               PROVE  btcTx[id].kind # "anchor"
    BY DEF CheckedAnchorsAreKnown
  <2> QED
    BY <1>3, CheckedTxs
<1> QED
  BY <1>4, <1>5, <1>6, <1>7 DEF BitcoinInv

\* The rest of the loop, the Factom side and Bitcoin keep the invariant.
LEMMA BitcoinEnvironmentKeeps ==
    ASSUME BitcoinInv, FactomElsewhere \/ Round \/ BitcoinMoves \/ BitcoinRelaunch
    PROVE  BitcoinInv'
<1>0. ProcessTypeOK /\ DatabaseTypeOK /\ NetworkInv /\ KnownPrefix /\ HeadComplete
  BY DEF BitcoinInv, BitcoinTypeInv
<1>1. /\ anchorData \in [Height -> AnchorData \cup {Nil}] /\ MaxHeight \in Nat
      /\ chainHead # Nil => chainHead \in Height
  BY <1>0, DatabaseAssumption DEF DatabaseTypeOK
<1>2. CASE BitcoinMoves
  BY <1>2, BitcoinMovesKeeps DEF BitcoinMoves
<1>3. CASE Round \/ BitcoinRelaunch
  <2>1. /\ UNCHANGED <<dbVars, btcVars, anchorVars>>
        /\ UNCHANGED <<anchorData, chainHead, lastBitcoin>>
    BY <1>3 DEF Round, BitcoinRelaunch, dbVars
  <2>2. PICK l \in {"syncBitcoin", "loop", "anchor"} :
            Normally(l) /\ progress' \in BOOLEAN
    BY <1>0, <1>3 DEF Round, BitcoinRelaunch, ProcessTypeOK
  <2>3. ProcessTypeOK' /\ pc' = l /\ faults' = faults
    BY <1>0, <2>2, ProcessSteps DEF PCs, BitcoinSteps, AnchorSteps, Normally
  <2>4. Elsewhere /\ OthersFill
    <3>1. pc \notin Busy
      BY <1>3 DEF Round, BitcoinRelaunch, Busy
    <3> QED
      BY <2>1, <2>3, <3>1, WaitingFillsNothing DEF Elsewhere, Busy
  <2>5. DatabaseTypeOK' /\ KnownPrefix' /\ HeadComplete'
    BY <1>0, <2>1
       DEF DatabaseTypeOK, dbVars, KnownPrefix, HeadComplete, Known, Complete,
           FetchAnchorData
  <2> QED
    BY <2>1, <2>3, <2>4, <2>5, OthersKeep
<1>4. CASE FactomElsewhere
  <2>1. /\ UNCHANGED <<btcVars, anchorVars, lastBitcoin, pc, faults, errors, progress>>
        /\ LearnBlock \/ LearnRecord \/ MoveHead \/ Checkpoint \/ RevealRecord
        /\ Elsewhere /\ ProcessTypeOK'
    BY <1>0, <1>4
       DEF FactomElsewhere, processVars, LearnBlock, LearnRecord, MoveHead, Checkpoint,
           RevealRecord, Elsewhere, Busy, ProcessTypeOK
  <2>2. SUFFICES OthersFill /\ DatabaseTypeOK' /\ KnownPrefix' /\ HeadComplete'
    BY <2>1, OthersKeep
  <2>3. CASE LearnBlock
    <3>1. PICK h \in Height :
            /\ ~Known(h) /\ \A k \in 0..(h - 1) : Known(k)
            /\ InsertAnchorData(h, NewAnchorData)
            /\ UNCHANGED <<chainHead, lastFactom, lastBitcoin>>
      BY <2>3 DEF LearnBlock
    <3>2. /\ anchorData' \in [Height -> AnchorData \cup {Nil}]
          /\ \A k \in Height : Known(k)' <=> Known(k) \/ k = h
          /\ \A m \in Networks :
                anchorData'[h][m] = [txid |-> 0, block |-> 0, entry |-> 0, rec |-> 0]
          /\ \A k \in Height : Known(k) =>
                k # h /\ anchorData'[k] = anchorData[k]
      BY <1>1, <3>1, OneBlock
    <3>3. OthersFill
      BY <3>2 DEF OthersFill, BtcAnchor, Networks
    <3>4. DatabaseTypeOK'
      BY <1>0, <3>1, <3>2 DEF DatabaseTypeOK
    <3>5. KnownPrefix'
      <4> SUFFICES ASSUME NEW i \in Height, Known(i)', NEW k \in 0..i
                   PROVE  Known(k)'
        BY DEF KnownPrefix
      <4>1. k \in Height /\ (i = h => k = h \/ k \in 0..(h - 1))
        BY <1>1 DEF Height
      <4> QED
        BY <1>0, <3>1, <3>2, <4>1 DEF KnownPrefix
    <3>6. HeadComplete'
      <4>1. \A k \in Height : Complete(k) => Complete(k)'
        BY <3>2 DEF Complete, IsComplete, Known, FetchAnchorData
      <4>2. chainHead # Nil => \A k \in 0..chainHead : k \in Height
        BY <1>1 DEF Height
      <4> QED
        BY <1>0, <3>1, <4>1, <4>2 DEF HeadComplete
    <3> QED
      BY <3>3, <3>4, <3>5, <3>6
  <2>4. CASE LearnRecord \/ RevealRecord
    <3>1. PICK h \in Height, a \in NetAnchor :
            /\ Known(h) /\ UNCHANGED <<chainHead, lastFactom, lastBitcoin>>
            /\ InsertAnchorData(h, [anchorData[h] EXCEPT !["Bitcoin"] = a])
            /\ \/ a.rec > 0 /\ a.txid # 0 /\ a.block # 0
               \/ /\ a.txid = BtcAnchor(h).txid /\ a.block = BtcAnchor(h).block
                  /\ a.rec = BtcAnchor(h).rec
      <4>1. CASE LearnRecord
        <5>1. PICK h \in Height, t \in RecordIds, b \in RecordIds :
                /\ Known(h) /\ MaxHeight > 0
                /\ InsertAnchorData(h, [anchorData[h] EXCEPT !["Bitcoin"] =
                        [txid |-> t, block |-> b, entry |-> 1, rec |-> MaxHeight]])
                /\ UNCHANGED <<chainHead, lastFactom, lastBitcoin>>
          BY <4>1 DEF LearnRecord
        <5> DEFINE a == [txid |-> t, block |-> b, entry |-> 1, rec |-> MaxHeight]
        <5>2. a \in NetAnchor /\ a.rec > 0 /\ a.txid # 0 /\ a.block # 0
          BY <1>1, <5>1, AnchorAssumption DEF NetAnchor, Height
        <5> QED
          BY <5>1, <5>2
      <4>2. CASE RevealRecord
        <5>1. PICK h \in Height :
                /\ Known(h)
                /\ InsertAnchorData(h, [anchorData[h] EXCEPT !["Bitcoin"].entry = 1])
                /\ UNCHANGED <<chainHead, lastFactom, lastBitcoin>>
          BY <4>2 DEF RevealRecord
        <5> DEFINE a == [BtcAnchor(h) EXCEPT !.entry = 1]
        <5>2. BtcAnchor(h) \in NetAnchor /\ anchorData[h] \in [Networks -> NetAnchor]
          BY <1>1, <5>1, AnchorType, KnownData DEF BtcAnchor, Networks, AnchorData
        <5>3. /\ a \in NetAnchor /\ a.txid = BtcAnchor(h).txid
              /\ a.block = BtcAnchor(h).block /\ a.rec = BtcAnchor(h).rec
          BY <5>2 DEF NetAnchor
        <5>4. [anchorData[h] EXCEPT !["Bitcoin"].entry = 1]
                = [anchorData[h] EXCEPT !["Bitcoin"] = a]
          BY <5>2 DEF BtcAnchor, Networks, NetAnchor
        <5> HIDE DEF a
        <5> QED
          BY <5>1, <5>3, <5>4
      <4> QED
        BY <2>4, <4>1, <4>2
    <3>2. /\ anchorData' \in [Height -> AnchorData \cup {Nil}]
          /\ \A k \in Height : Known(k)' <=> Known(k)
          /\ \A k \in Height, m \in Networks : Known(k) =>
                anchorData'[k][m] =
                    IF k = h /\ m = "Bitcoin" THEN a ELSE anchorData[k][m]
      BY <1>1, <3>1, OneAnchor DEF Networks
    <3>3. \A k \in Height : Known(k) =>
            BtcAnchor(k)' = IF k = h THEN a ELSE BtcAnchor(k)
      BY <3>2 DEF BtcAnchor, Networks
    <3>4. OthersFill
      BY <3>1, <3>2, <3>3 DEF OthersFill
    <3>5. DatabaseTypeOK'
      BY <1>0, <3>1, <3>2 DEF DatabaseTypeOK
    <3>6. KnownPrefix'
      <4>1. \A i \in Height : \A k \in 0..i : k \in Height
        BY <1>1 DEF Height
      <4> QED
        BY <1>0, <3>2, <4>1 DEF KnownPrefix
    <3>7. HeadComplete'
      <4>1. \A k \in Height : Complete(k) => Complete(k)'
        BY <3>1, <3>2, <3>3
           DEF Complete, IsComplete, Known, FetchAnchorData, BtcAnchor
      <4>2. chainHead # Nil => \A k \in 0..chainHead : k \in Height
        BY <1>1 DEF Height
      <4> QED
        BY <1>0, <3>1, <4>1, <4>2 DEF HeadComplete
    <3> QED
      BY <3>4, <3>5, <3>6, <3>7
  <2>5. CASE MoveHead \/ Checkpoint
    <3>1. anchorData' = anchorData
      BY <2>5 DEF MoveHead, Checkpoint
    <3>2. OthersFill /\ KnownPrefix'
      BY <1>0, <3>1, WaitingFillsNothing DEF KnownPrefix, Known, FetchAnchorData
    <3>3. \A k : Complete(k)' <=> Complete(k)
      BY <3>1 DEF Complete, Known, FetchAnchorData
    <3>4. CASE Checkpoint
      BY <1>0, <3>1, <3>2, <3>3, <3>4 DEF Checkpoint, DatabaseTypeOK, HeadComplete
    <3>5. CASE MoveHead
      <4>1. PICK s \in Height :
                /\ ScanStopsAt(s)
                /\ chainHead' = IF s = 0 THEN Nil ELSE s - 1
                /\ UNCHANGED <<anchorData, lastFactom, lastBitcoin>>
        BY <3>5 DEF MoveHead, UpdateAnchorDataHead
      <4>2. DatabaseTypeOK'
        <5>1. s # 0 => s - 1 \in Height
          BY <1>1 DEF Height
        <5> QED
          BY <1>0, <4>1, <5>1 DEF DatabaseTypeOK
      <4>3. ASSUME s # 0, NEW k \in 0..(s - 1)
            PROVE  Complete(k)
        <5>1. CASE k \in AfterHead..(s - 1)
          BY <4>1, <5>1 DEF ScanStopsAt
        <5>2. CASE k < AfterHead
          <6>1. chainHead # Nil /\ k \in 0..chainHead
            BY <1>1, <4>3, <5>2 DEF AfterHead, Height
          <6> QED
            BY <1>0, <6>1 DEF HeadComplete
        <5>3. AfterHead \in Nat
          BY <1>1 DEF AfterHead, Height
        <5> QED
          BY <4>3, <5>1, <5>2, <5>3
      <4>4. HeadComplete'
        <5>1. \A k : Complete(k) => Complete(k)'
          BY <3>3
        <5>2. CASE s = 0
          BY <4>1, <5>2 DEF HeadComplete
        <5>3. CASE s # 0
          BY <4>1, <4>3, <5>1, <5>3 DEF HeadComplete
        <5> QED
          BY <5>2, <5>3
      <4> QED
        BY <3>2, <4>2, <4>4
    <3> QED
      BY <2>5, <3>4, <3>5
  <2> QED
    BY <2>1, <2>3, <2>4, <2>5
<1> QED
  BY <1>2, <1>3, <1>4

-----------------------------------------------------------------------------
(* The theorems. *)

\* Every step of the component with its environment, a stuttering one included.
LEMMA BitcoinNextKeeps ==
    ASSUME BitcoinInv, [BitcoinAnchorNext]_bitcoinAnchorVars
    PROVE  BitcoinInv'
<1>1. CASE BitcoinAnchorNext
  BY <1>1, BitcoinComponentKeeps, BitcoinEnvironmentKeeps
     DEF BitcoinAnchorNext, BitcoinAnchorFailures
<1>2. CASE UNCHANGED bitcoinAnchorVars
  <2>1. /\ UNCHANGED <<pc, faults, errors, progress>>
        /\ UNCHANGED <<dbVars, btcVars, anchorVars, lastBitcoin>>
        /\ UNCHANGED <<anchorData, chainHead, lastFactom>>
    BY <1>2 DEF bitcoinAnchorVars, processVars, dbVars
  <2>2. /\ ProcessTypeOK' /\ DatabaseTypeOK' /\ KnownPrefix' /\ HeadComplete'
        /\ Waits /\ OthersFill
    BY <2>1, WaitingFillsNothing
       DEF BitcoinInv, BitcoinTypeInv, ProcessTypeOK, DatabaseTypeOK, KnownPrefix,
           HeadComplete, Known, Complete, FetchAnchorData, Waits
  <2> QED
    BY <2>1, <2>2, OthersKeep
<1> QED
  BY <1>1, <1>2

\* The invariant holds of the component in its environment.
THEOREM BitcoinInvariance == BitcoinAnchorSpec => []BitcoinInv
<1>1. BitcoinAnchorInit => BitcoinInv
  <2> SUFFICES ASSUME BitcoinAnchorInit
               PROVE  BitcoinInv
    OBVIOUS
  <2>1. pc \in PCs \ Busy /\ progress \in BOOLEAN /\ faults = 0 /\ errors = 0
    BY Zenon DEF BitcoinAnchorInit, PCs, Busy
  <2>2. ProcessTypeOK
    BY <2>1, FaultAssumption DEF ProcessTypeOK
  <2> QED
    BY <2>1, <2>2, BitcoinInitInv DEF BitcoinAnchorInit
<1>2. BitcoinInv /\ [BitcoinAnchorNext]_bitcoinAnchorVars => BitcoinInv'
  BY BitcoinNextKeeps
<1> QED
  BY <1>1, <1>2, PTL DEF BitcoinAnchorSpec

\* AnchorBlocksIntoBitcoin sends no directory block again unless a failure lost
\* track of a transaction, whatever Bitcoin and the Factom side do in between.
THEOREM NoSecondSend == BitcoinAnchorSpec => []AnchoredOncePerFault
BY BitcoinInvariance, PTL DEF BitcoinInv

\* SynchronizeBitcoinData moves the LastBitcoinBlockChecked of a stored database
\* only past anchors whose blocks have txid and block hash by then, however many
\* blocks a longer branch replaces.
THEOREM CheckpointCoversAnchors == BitcoinAnchorSpec => []CheckedAnchorsAreKnown
BY BitcoinInvariance, PTL DEF BitcoinInv

\* A stored block hash is that of a block that holds the stored transaction, an
\* anchor of the block it is stored for.
THEOREM StoredAnchorsAreTrue == BitcoinAnchorSpec => []StoredHashHoldsAnchor
BY BitcoinInvariance, PTL DEF BitcoinInv

\* A confirmed anchor is changed neither by a listed transaction nor by a send.
LEMMA ConfirmedStepKeeps ==
    ASSUME BitcoinInv, SynchronizeBitcoinData \/ AnchorBlocksIntoBitcoin,
           NEW h \in Height, Known(h), BtcAnchor(h).block # 0 \/ BtcAnchor(h).rec > 0
    PROVE  anchorData'[h] = anchorData[h]
<1>1. BtcAnchor(h).txid # 0
  BY DEF BitcoinInv, TxidFirst
<1>2. CASE ProcessTx
  <2>1. PICK t \in listed : IF IsNewAnchor(t) THEN SaveTx(t) ELSE UNCHANGED anchorData
    BY <1>2 DEF ProcessTx
  <2>2. CASE IsNewAnchor(t)
    <3>1. btcTx[t.id].h # h
      <4>1. BtcAnchor(h).rec > 0 => BtcAnchor(h).rec # 0
        OBVIOUS
      <4> QED
        BY <2>2, <4>1 DEF IsNewAnchor, BtcAnchor
    <3> QED
      BY <2>1, <2>2, <3>1, BitcoinTypes DEF SaveTx, InsertAnchorData, BitcoinInv
  <2> QED
    BY <2>1, <2>2
<1>3. CASE RecordNewest \/ RecordOlder
  <2>1. Recording /\ RecordTxid(Target)
    BY <1>3 DEF RecordNewest, RecordOlder, Recording, Target
  <2>2. NeedsAnchor(Target)
    BY <2>1 DEF BitcoinInv, SendingInv
  <2>3. Target # h
    BY <1>1, <2>2 DEF NeedsAnchor, BtcAnchor
  <2> QED
    BY <2>1, <2>3, BitcoinTypes DEF RecordTxid, InsertAnchorData, BitcoinInv
<1>4. CASE NothingListed \/ ListTransactions \/ SaveBitcoinState
  BY <1>4 DEF NothingListed, ListTransactions, SaveBitcoinState, dbVars
<1>5. CASE BeginAnchoring \/ NewestNotSent \/ SendNewest \/ SkipOlder \/ SendOlder \/ OlderDone
  BY <1>5
     DEF BeginAnchoring, NewestNotSent, SendNewest, SkipOlder, SendOlder, OlderDone, dbVars
<1> QED
  BY <1>2, <1>3, <1>4, <1>5 DEF SynchronizeBitcoinData, AnchorBlocksIntoBitcoin

\* No step of the component replaces an anchor that is confirmed.
THEOREM ConfirmedAnchorsStay == BitcoinAnchorSpec => ConfirmedAnchorKept
<1>1. BitcoinInv =>
        ((SynchronizeBitcoinData \/ AnchorBlocksIntoBitcoin) =>
            \A h \in Height :
                Known(h) /\ (\/ anchorData[h]["Bitcoin"].block # 0
                             \/ anchorData[h]["Bitcoin"].rec > 0) =>
                    anchorData'[h] = anchorData[h])
  BY ConfirmedStepKeeps DEF BtcAnchor
<1> QED
  BY <1>1, BitcoinInvariance, PTL DEF ConfirmedAnchorKept

\* When the loop ends early there is no block at its height: every known block is
\* behind it.
LEMMA OlderDonePasses ==
    ASSUME BitcoinInv, OlderDone, count < AnchorBatch, ~OutOfFunds(height),
           NEW h \in Height
    PROVE  ~NeedsAnchor(h)
<1> USE DEF BitcoinInv
<1>1. pc = "older" /\ ~Known(height)
  <2>1. count \in Nat /\ AnchorBatch \in Nat
    BY BitcoinTypes
  <2> QED
    BY <2>1 DEF OlderDone
<1>2. /\ height \in 0..(MaxHeight + 1) /\ MaxHeight \in Nat
      /\ \A k \in 0..(height - 1) : Known(k) /\ ~NeedsAnchor(k)
  BY <1>1, BitcoinTypes DEF OlderDoneBelow, Busy
<1>3. CASE h < height
  BY <1>2, <1>3 DEF Height
<1>4. CASE height <= h
  <2>1. height \in 0..h
    BY <1>2, <1>4 DEF Height
  <2>2. ~Known(h)
    BY <1>1, <2>1 DEF KnownPrefix
  <2> QED
    BY <2>2 DEF NeedsAnchor
<1> QED
  BY <1>2, <1>3, <1>4 DEF Height

\* AnchorBlocksIntoBitcoin leaves no known block behind while its batch and the
\* funds last: what it starts at, the block after the chain head, has only
\* anchored blocks before it.
THEOREM EveryBlockConsidered == BitcoinAnchorSpec => NoBlockPassedOver
<1>1. ASSUME BitcoinInv, [BitcoinAnchorNext]_bitcoinAnchorVars,
             pc = "older" /\ pc' = "save" /\ count < AnchorBatch /\ ~OutOfFunds(height)
      PROVE  \A h \in Height : ~NeedsAnchor(h)
  <2>1. BitcoinAnchorNext
    BY <1>1 DEF bitcoinAnchorVars, processVars
  <2>2. ~(SynchronizeBitcoinData \/ BitcoinAnchorFails \/ RpcErrorPanics)
    BY <1>1
       DEF SynchronizeBitcoinData, NothingListed, ListTransactions, ProcessTx,
           SaveBitcoinState, BitcoinAnchorFails, RpcErrorPanics, FailedCall, Failed, Fault,
           Goto
  <2>3. ~(FactomElsewhere \/ Round \/ BitcoinMoves \/ BitcoinRelaunch)
    BY <1>1
       DEF FactomElsewhere, Round, BitcoinMoves, BitcoinRelaunch, processVars
  <2>4. OlderDone
    BY <1>1, <2>1, <2>2, <2>3
       DEF BitcoinAnchorNext, AnchorBlocksIntoBitcoin, BeginAnchoring, NewestNotSent,
           SendNewest, RecordNewest, SkipOlder, SendOlder, RecordOlder, Normally, Goto,
           processVars
  <2> QED
    BY <1>1, <2>4, OlderDonePasses
<1> QED
  BY <1>1, BitcoinInvariance, PTL DEF BitcoinAnchorSpec, NoBlockPassedOver
=============================================================================

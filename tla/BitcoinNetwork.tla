--------------------------- MODULE BitcoinNetwork ---------------------------
(***************************************************************************)
(* bitcoind and its wallet as anchormaker uses them (external): a pool of  *)
(* unconfirmed transactions, a tree of blocks of which one branch is the   *)
(* main chain, and the listsinceblock call.  A block's hash is its index   *)
(* in btcBlocks and a transaction's id its index in btcTx.                 *)
(***************************************************************************)
EXTENDS AnchorDatabase, Sequences, SequencesExt

CONSTANTS
    MaxTxs,            \* bound on the transactions ever sent
    MaxBtcBlocks,      \* bound on the blocks, those that confirm something or
                       \* bury it below MinConfirmations apart
    Unrelated,         \* the first block includes a transaction that is no anchor
    MinConfirmations,  \* the parameter of listsinceblock
    ReorgDepth,        \* how many blocks a longer branch may replace at once
    Evictions,         \* an unconfirmed transaction may be dropped for good
    Malleated          \* one transaction may be mined under another id

ASSUME BitcoinAssumption ==
    /\ {MaxTxs, MaxBtcBlocks, ReorgDepth} \subseteq Nat
    /\ MinConfirmations \in Nat \ {0}
    /\ {Unrelated, Evictions, Malleated} \subseteq BOOLEAN

VARIABLES
    btcTx,      \* every transaction of the wallet that was ever sent
    mempool,    \* ids of the unconfirmed ones
    btcBlocks,  \* every block ever mined: what is below it, its transactions
    mainChain   \* the blocks of the main chain, the tip last

btcVars == <<btcTx, mempool, btcBlocks, mainChain>>

\* "anchor": from BTCAddress with the KeyMR of directory block h; "other": not
\* from BTCAddress, without anchor data or with another KeyMR.  epoch is
\* history: the faults before it was sent; of is the transaction it has the
\* same inputs and outputs as (another one only when it was malleated).
Tx == [h: Height, kind: {"anchor", "other"}, epoch: Nat, of: Nat]

\* A transaction of this wallet that has an OP_RETURN output, so that it is listed,
\* and is no anchor: it is not from BTCAddress or its data are others.
UnrelatedTx == [h |-> 0, kind |-> "other", epoch |-> 0, of |-> 1]

BitcoinInit ==
    /\ mempool = {}
    /\ IF Unrelated
       THEN /\ btcTx = <<UnrelatedTx>>
            /\ btcBlocks = <<[below |-> {}, txs |-> {1}]>>
            /\ mainChain = <<1>>
       ELSE btcTx = <<>> /\ btcBlocks = <<>> /\ mainChain = <<>>

NextTxId == Len(btcTx) + 1

\* sendrawtransaction
Broadcast(h, epoch) ==
    /\ Len(btcTx) < MaxTxs
    /\ btcTx' = Append(btcTx, [h |-> h, kind |-> "anchor", epoch |-> epoch,
                               of |-> NextTxId])
    /\ mempool' = mempool \cup {NextTxId}
    /\ UNCHANGED <<btcBlocks, mainChain>>

\* A block and all that are below it.
Lineage(b) == {b} \cup (IF b = 0 THEN {} ELSE btcBlocks[b].below)
Tip == IF mainChain = <<>> THEN 0 ELSE Last(mainChain)

\* Where the branch of a block the caller knows leaves the main chain.
ForkPoint(b) ==
    LET on == {i \in DOMAIN mainChain : mainChain[i] \in Lineage(b)}
    IN  IF on = {} THEN 0 ELSE Max(on)

TxsBetween(i, j) ==
    UNION {btcBlocks[mainChain[k]].txs : k \in (i + 1)..j}
Confirmed == TxsBetween(0, Len(mainChain))

\* listsinceblock: the transactions after the given block, and the block whose
\* successors the next call is to list.  Unconfirmed ones are dropped
\* by ToTransactions.
ListSince(since) ==
    UNION {{[id |-> id, block |-> mainChain[k]] : id \in btcBlocks[mainChain[k]].txs} :
           k \in (ForkPoint(since) + 1)..Len(mainChain)}
LastBlock ==
    LET k == Len(mainChain) + 1 - MinConfirmations
    IN  IF k > 0 THEN mainChain[k] ELSE 0

MineBtcBlock ==
    /\ \E S \in SUBSET mempool :
        /\ S = {} => Len(btcBlocks) < MaxBtcBlocks \/ ListSince(LastBlock) # {}
        /\ btcBlocks' = Append(btcBlocks, [below |-> ToSet(mainChain), txs |-> S])
        /\ mainChain' = Append(mainChain, Len(btcBlocks'))
        /\ mempool' = mempool \ S
    /\ UNCHANGED btcTx

\* What Bitcoin does in the end: the next block takes up the whole pool.
MineAll ==
    /\ mempool # {} \/ ListSince(LastBlock) # {}
    /\ btcBlocks' = Append(btcBlocks, [below |-> ToSet(mainChain), txs |-> mempool])
    /\ mainChain' = Append(mainChain, Len(btcBlocks'))
    /\ mempool' = {}
    /\ UNCHANGED btcTx

\* A branch that is longer by one replaces the last d blocks; their transactions are
\* mined again in its blocks or go back to the pool.
Reorganise(d) ==
    /\ d <= Len(mainChain)
    /\ Len(btcBlocks) + d + 1 <= MaxBtcBlocks
    /\ LET kept == SubSeq(mainChain, 1, Len(mainChain) - d)
           branch == [i \in 1..(d + 1) |-> Len(btcBlocks) + i]
           free == mempool \cup TxsBetween(Len(kept), Len(mainChain))
       IN  \E txs \in [1..(d + 1) -> SUBSET free] :
            /\ \A i, j \in 1..(d + 1) : i # j => txs[i] \cap txs[j] = {}
            /\ btcBlocks' = btcBlocks \o [i \in 1..(d + 1) |->
                    [below |-> ToSet(kept) \cup {branch[j] : j \in 1..(i - 1)},
                     txs |-> txs[i]]]
            /\ mainChain' = kept \o branch
            /\ mempool' = free \ UNION {txs[i] : i \in 1..(d + 1)}
    /\ UNCHANGED btcTx

Reorg == \E d \in 1..ReorgDepth : Reorganise(d)

EvictTx ==
    /\ Evictions
    /\ \E id \in mempool : mempool' = mempool \ {id}
    /\ UNCHANGED <<btcTx, btcBlocks, mainChain>>

\* The same transaction with another id takes the place of an unconfirmed one.
MalleateTx ==
    /\ Malleated
    /\ \A id \in DOMAIN btcTx : btcTx[id].of = id
    /\ \E id \in mempool :
        /\ btcTx' = Append(btcTx, btcTx[id])
        /\ mempool' = (mempool \ {id}) \cup {NextTxId}
    /\ UNCHANGED <<btcBlocks, mainChain>>

BitcoinNetworkStep == MineBtcBlock \/ Reorg \/ EvictTx \/ MalleateTx

BitcoinTypeOK ==
    /\ btcTx \in Seq(Tx)
    /\ mempool \subseteq DOMAIN btcTx
    /\ btcBlocks \in Seq([below: SUBSET Nat, txs: SUBSET DOMAIN btcTx])
    /\ mainChain \in Seq(DOMAIN btcBlocks)
=============================================================================

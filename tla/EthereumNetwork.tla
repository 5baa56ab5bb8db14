-------------------------- MODULE EthereumNetwork --------------------------
(***************************************************************************)
(* Ethereum and Etherscan as ethereum/ethereum.go uses them (external):    *)
(* transactions to the anchor contract, the blocks that hold them, and the *)
(* list of those from a block on, of which Etherscan returns one page.     *)
(***************************************************************************)
EXTENDS AnchorDatabase, FiniteSets, Sequences

CONSTANTS
    EthPage,         \* the 1000 transactions of a full page
    MaxOtherEthTxs,  \* bound on the transactions of others
    MaxEthBlocks     \* bound on the blocks that hold some

ASSUME EthereumAssumption ==
    /\ EthPage \in Nat \ {0}
    /\ {MaxOtherEthTxs, MaxEthBlocks} \subseteq Nat

VARIABLES
    ethTx,      \* every transaction to the contract; its hash is its index
    ethPool,    \* those that no block holds yet
    ethBlocks   \* the transactions of each block

ethVars == <<ethTx, ethPool, ethBlocks>>

\* "anchor": setAnchor from WalletAddress with the KeyMR of block h; "other":
\* anything else.  epoch is history: the faults before it was sent.
EthTx == [h: Height, kind: {"anchor", "other"}, epoch: Nat]

EthereumInit == ethTx = <<>> /\ ethPool = {} /\ ethBlocks = <<>>

SendEthTx(h, kind, epoch) ==
    /\ ethTx' = Append(ethTx, [h |-> h, kind |-> kind, epoch |-> epoch])
    /\ ethPool' = ethPool \cup {Len(ethTx) + 1}
    /\ UNCHANGED ethBlocks

\* Somebody else calls the contract, or another process with the same wallet does.
OtherEthTx(epoch) ==
    /\ Cardinality({i \in DOMAIN ethTx : ethTx[i].epoch = epoch}) < MaxOtherEthTxs
    /\ \/ SendEthTx(0, "other", epoch)
       \/ \E h \in Height : SendEthTx(h, "anchor", epoch)

MineEthBlock ==
    /\ Len(ethBlocks) < MaxEthBlocks
    /\ \E S \in SUBSET ethPool \ {{}} :
        /\ ethBlocks' = Append(ethBlocks, S)
        /\ ethPool' = ethPool \ S
    /\ UNCHANGED ethTx

\* What EtherscanTxListWithStartBlock may return: the first page in the order
\* of the blocks.
TxsFrom(start) ==
    UNION {{[id |-> id, block |-> b] : id \in ethBlocks[b]} :
           b \in {c \in DOMAIN ethBlocks : c >= start}}
FirstPages(all) ==
    {S \in SUBSET all :
        /\ S = all \/ Cardinality(S) = EthPage
        /\ Cardinality(S) <= EthPage
        /\ \A t \in S, u \in all \ S : t.block <= u.block}
=============================================================================

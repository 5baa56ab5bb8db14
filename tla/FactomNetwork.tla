--------------------------- MODULE FactomNetwork ---------------------------
(***************************************************************************)
(* factomd as anchormaker uses it (external): it closes directory blocks   *)
(* one after the other, and takes revealed anchor-chain entries that a     *)
(* later block includes, in an order anchormaker has no say in.            *)
(***************************************************************************)
EXTENDS AnchorDatabase, Sequences

CONSTANTS
    RecordDelay,  \* an entry about block h is in block h + RecordDelay or later
    FactomdLags,  \* factomd may not have caught up with its own network
    StrayRecords  \* a record with a wrong KeyMR may name a block not closed yet

\* The KeyMR of block h is known once h is closed, so its record comes after it.
ASSUME RecordDelayAssumption == /\ RecordDelay \in Nat \ {0}
                                 /\ FactomdLags \in BOOLEAN
                                 /\ StrayRecords \in BOOLEAN

VARIABLES
    entries,   \* every entry ever revealed; an entry's hash is its index
    pending,   \* revealed entries that no block includes yet
    dblocks    \* dblocks[h + 1]: the anchor-chain entries in directory block h

factomVars == <<entries, pending, dblocks>>

\* "anchor": signed by a known key, with the KeyMR of block h;
\* "wrongKeyMR": signed, with another KeyMR; "unsigned": fails the validation.
Kinds == {"anchor", "wrongKeyMR", "unsigned"}

\* An anchor record of block h for one network.
Entry == [h: Height, net: Networks, txid: Nat, block: Nat, kind: Kinds]

FactomInit == entries = <<>> /\ pending = {} /\ dblocks = <<>>

RevealEntry(e) ==
    /\ entries' = Append(entries, e)
    /\ pending' = pending \cup {Len(entries) + 1}
    /\ UNCHANGED dblocks

\* An anchor record cites the KeyMR of its block, so that block was closed.
Timely(e, height) ==
    e.kind = "anchor" \/ (e.kind = "wrongKeyMR" /\ ~StrayRecords)
        => e.h + RecordDelay <= height

MineDBlock ==
    /\ Len(dblocks) <= MaxHeight
    /\ \E S \in SUBSET pending :
        /\ \A id \in S : Timely(entries[id], Len(dblocks))
        /\ dblocks' = Append(dblocks, S)
        /\ pending' = pending \ S
    /\ UNCHANGED entries

BlockExists(h) == h < Len(dblocks)
\* GetDBlockByHeight answers "Block not found".
BlockNotFound(h) == ~BlockExists(h) \/ FactomdLags
EntriesIn(h) == dblocks[h + 1]

FactomTypeOK ==
    /\ entries \in Seq(Entry)
    /\ pending \subseteq DOMAIN entries
    /\ dblocks \in Seq(SUBSET DOMAIN entries)
    /\ Len(dblocks) <= MaxHeight + 1
=============================================================================

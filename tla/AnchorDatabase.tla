--------------------------- MODULE AnchorDatabase ---------------------------
(***************************************************************************)
(* The AnchorDatabaseOverlay (database/): one AnchorData per directory     *)
(* block, the AnchorData chain head and the ProgramState.                  *)
(*                                                                         *)
(* Identities are numbers and 0 stands for Go's empty string.  The KeyMR   *)
(* of a block is left out: it is a function of the height, and a record or *)
(* transaction with another KeyMR is marked as such where it is made.      *)
(***************************************************************************)
EXTENDS Integers

CONSTANTS
    MaxHeight,   \* bound on the height of a directory block
    Nil,         \* Go's nil: no AnchorData stored, no chain head
    Persistent   \* TRUE for the LDB and Bolt databases, FALSE for Map

ASSUME DatabaseAssumption ==
    /\ MaxHeight \in Nat
    /\ Persistent \in BOOLEAN

VARIABLES
    anchorData,   \* anchorData[h]: the AnchorData of directory block h, or Nil
    chainHead,    \* height the CHAIN_HEAD record points at, or Nil
    lastFactom,   \* ProgramState.LastFactomDBlockHeightChecked
    lastBitcoin   \* ProgramState.LastBitcoinBlockChecked

dbVars == <<anchorData, chainHead, lastFactom, lastBitcoin>>

Height == 0..MaxHeight
Networks == {"Bitcoin", "Ethereum"}

\* TXID, BlockHash, RecordEntryHash and RecordHeight of one network.
NetAnchor == [txid: Nat, block: Nat, entry: Nat, rec: Height]
AnchorData == [Networks -> NetAnchor]
NewAnchorData ==
    [n \in Networks |-> [txid |-> 0, block |-> 0, entry |-> 0, rec |-> 0]]

ASSUME NilAssumption == Nil \notin AnchorData /\ Nil \notin Height

IsComplete(ad) == ad["Bitcoin"].rec > 0

FetchAnchorData(h) == IF h \in Height THEN anchorData[h] ELSE Nil
Known(h) == FetchAnchorData(h) # Nil
Complete(h) == Known(h) /\ IsComplete(FetchAnchorData(h))

InsertAnchorData(h, ad) == anchorData' = [anchorData EXCEPT ![h] = ad]

\* The height after the chain head: where the head update and the Bitcoin
\* anchoring loop both start.
AfterHead == IF chainHead = Nil THEN 0 ELSE chainHead + 1

\* UpdateAnchorDataHead reads forward from AfterHead and stops at s.
ScanStopsAt(s) ==
    /\ AfterHead <= s
    /\ \A k \in AfterHead..(s - 1) : Complete(k)
    /\ ~Complete(s)

\* Mutant of UpdateAnchorDataHead: the head is where the scan stopped.
UpdateAnchorDataHeadTooFar ==
    \E s \in Height : ScanStopsAt(s) /\ Known(s) /\ chainHead' = s

\* The scan stops at a stored block that is not complete.
UpdateAnchorDataHead ==
    \E s \in Height :
        /\ ScanStopsAt(s)
        /\ Known(s)
        /\ chainHead' = IF s = 0 THEN Nil ELSE s - 1

\* The scan runs past the last stored block: IsComplete reads a nil pointer.
ScanDereferencesNil ==
    \E s \in 0..(MaxHeight + 1) : ScanStopsAt(s) /\ ~Known(s)

DatabaseInit ==
    /\ anchorData = [h \in Height |-> Nil]
    /\ chainHead = Nil
    /\ lastFactom = 0
    /\ lastBitcoin = 0

\* What a new process finds: the stored data, or with Map an empty database.
ReopenDatabase ==
    IF Persistent
    THEN UNCHANGED dbVars
    ELSE /\ anchorData' = [h \in Height |-> Nil]
         /\ chainHead' = Nil
         /\ lastFactom' = 0
         /\ lastBitcoin' = 0

DatabaseTypeOK ==
    /\ anchorData \in [Height -> AnchorData \cup {Nil}]
    /\ chainHead \in Height \cup {Nil}
    /\ lastFactom \in Height
    /\ lastBitcoin \in Nat
=============================================================================

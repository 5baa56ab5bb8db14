--------------------------- MODULE AnchorProcess ---------------------------
(***************************************************************************)
(* The single-threaded anchormaker process (newMain.go): its control       *)
(* point and the faults it has met.  Every component extends this module   *)
(* and moves the same program counter, because the program calls them in   *)
(* sequence from one loop.                                                 *)
(***************************************************************************)
EXTENDS Integers

CONSTANTS
    MaxFaults,  \* bound on the failures that lose track of something
    MaxErrors,  \* bound on failed calls that had no effect outside
    FaultKinds, \* the failures of the first sort that may happen
    AnchorBatch \* the 10 of the anchoring and of the saving loop

ASSUME FaultAssumption ==
    /\ MaxFaults \in Nat
    /\ MaxErrors \in Nat
    /\ FaultKinds \subseteq {"crash", "lostReply", "unsaved"}
    /\ AnchorBatch \in Nat \ {0}

VARIABLES
    pc,       \* where the process is; the values are listed below
    faults,   \* failures so far after which something sent may be unrecorded
    errors,   \* failed calls so far
    progress  \* blockCount + btcCount of this iteration is not 0

processVars == <<pc, faults, errors, progress>>

\* SynchronizeFactomData: the call, the fetch loop, the entries of one directory
\* block and then the block itself, the chain head, the program state.
FactomSteps == {"syncFactom", "fetch", "entries", "head", "state"}
\* SynchronizeBitcoinData: the list call and the transactions it returned.
BitcoinSteps == {"syncBitcoin", "tx"}
\* AnchorLoop: balances and fee, the newest block, the older ones (each with
\* the write that records the txid).
AnchorSteps == {"anchor", "newest", "recordNewest", "older", "recordOlder"}
\* SaveAnchorsIntoFactom: the call and the AnchorData it walks over.
SaveSteps == {"save", "saving"}
PCs == FactomSteps \cup BitcoinSteps \cup AnchorSteps \cup SaveSteps
         \cup {"loop", "synced", "panic", "rpcPanic", "down"}

Goto(l) == pc' = l

\* A step without a failure.
Normally(l) == Goto(l) /\ UNCHANGED <<faults, errors>>

\* A call fails before it had an effect outside, and the process goes on at l.
Failed(l) ==
    /\ errors < MaxErrors
    /\ errors' = errors + 1
    /\ UNCHANGED <<faults, progress>>
    /\ Goto(l)

\* The function returns the error: main prints it, sleeps and starts the loop
\* again.
FailedCall == Failed("loop")

\* A failure after which the process goes on at l, no longer knowing what it
\* has sent: it died, the reply to a send was lost, or the send went
\* unrecorded because a later call of the same function failed.
Fault(kind, l) ==
    /\ kind \in FaultKinds
    /\ faults < MaxFaults
    /\ faults' = faults + 1
    /\ UNCHANGED <<errors, progress>>
    /\ Goto(l)

ProcessTypeOK ==
    /\ pc \in PCs
    /\ faults \in 0..MaxFaults
    /\ errors \in 0..MaxErrors
    /\ progress \in BOOLEAN
=============================================================================

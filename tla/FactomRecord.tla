---------------------------- MODULE FactomRecord ----------------------------
(***************************************************************************)
(* SaveAnchorsIntoFactom (factom/factom.go): walk over the AnchorData from *)
(* the chain head on, reveal an entry for each anchor that is confirmed    *)
(* and has none, the Bitcoin one before the Ethereum one, and save both    *)
(* entry hashes with one write.                                            *)
(*                                                                         *)
(* FactomRecordSpec leaves the rest of the loop to a general environment   *)
(* that confirms anchors and finds the records in directory blocks.        *)
(***************************************************************************)
EXTENDS AnchorProcess, FactomNetwork

VARIABLES
    at,       \* height of the AnchorData being looked at
    batch,    \* AnchorData records saved by this call
    held,     \* entry hashes in memory, not saved yet
    revealed  \* history: what this process revealed, and the faults before it

recordVars == <<at, batch, held, revealed>>
factomRecordVars == <<processVars, dbVars, factomVars, recordVars>>

NoneHeld == [n \in Networks |-> 0]
First == IF chainHead = Nil THEN 0 ELSE chainHead

\* The call returns, and its locals are gone.
ForgetSaving == at' = 0 /\ batch' = 0 /\ held' = NoneHeld

-----------------------------------------------------------------------------
(* SaveAnchorsIntoFactom. *)

BeginSaving ==
    /\ pc = "save"
    /\ IF Known(First) THEN Normally("saving") /\ at' = First
       ELSE Normally("loop") /\ at' = 0
    /\ batch' = 0
    /\ held' = NoneHeld
    /\ UNCHANGED <<progress, dbVars, factomVars, revealed>>

\* Mutant of Unrecorded: the record height is looked at, not the entry hash.
UnrecordedUntilFound(n) ==
    LET a == anchorData[at][n] IN a.rec = 0 /\ a.block # 0 /\ held[n] = 0

\* Confirmed in network n, and no entry was revealed for it.
Unrecorded(n) ==
    LET a == anchorData[at][n] IN a.entry = 0 /\ a.block # 0 /\ held[n] = 0

\* Where the call looks next: Ethereum only after Bitcoin.
Turn(n) == Unrecorded(n) /\ (n = "Ethereum" => ~Unrecorded("Bitcoin"))

\* The entry that CreateAndSendAnchor commits and reveals.
Reveal(n) ==
    LET a == anchorData[at][n] IN
    /\ RevealEntry([h |-> at, net |-> n, txid |-> a.txid, block |-> a.block,
                    kind |-> "anchor"])
    /\ revealed' = revealed \cup {[id |-> Len(entries'), epoch |-> faults]}

SendRecord ==
    /\ pc = "saving"
    /\ batch < AnchorBatch
    /\ \E n \in Networks :
        /\ Turn(n)
        /\ Reveal(n)
        /\ held' = [held EXCEPT ![n] = Len(entries')]
    /\ UNCHANGED <<processVars, dbVars, at, batch>>

\* The next AnchorData; none ends the call.
Advance(saved) ==
    IF Known(at + 1)
    THEN at' = at + 1 /\ batch' = batch + saved /\ held' = NoneHeld /\ Normally("saving")
    ELSE ForgetSaving /\ Normally("loop")

\* Mutant of SaveHashes: both networks get the Bitcoin hash.
SaveHashesMixed ==
    /\ pc = "saving"
    /\ held # NoneHeld
    /\ \A n \in Networks : ~Unrecorded(n)
    /\ InsertAnchorData(at, [n \in Networks |->
            IF held[n] = 0 THEN anchorData[at][n]
            ELSE [anchorData[at][n] EXCEPT !.entry = held["Bitcoin"]]])
    /\ Advance(1)
    /\ UNCHANGED <<progress, chainHead, lastFactom, lastBitcoin, factomVars, revealed>>

SaveHashes ==
    /\ pc = "saving"
    /\ held # NoneHeld
    /\ \A n \in Networks : ~Unrecorded(n)
    /\ InsertAnchorData(at, [n \in Networks |->
            IF held[n] = 0 THEN anchorData[at][n]
            ELSE [anchorData[at][n] EXCEPT !.entry = held[n]]])
    /\ Advance(1)
    /\ UNCHANGED <<progress, chainHead, lastFactom, lastBitcoin, factomVars, revealed>>

\* Mutant of PassOver: AnchorData that needs nothing counts as well.
PassOverCounts ==
    /\ pc = "saving"
    /\ batch < AnchorBatch
    /\ held = NoneHeld
    /\ \A n \in Networks : ~Unrecorded(n)
    /\ Advance(1)
    /\ UNCHANGED <<progress, dbVars, factomVars, revealed>>

PassOver ==
    /\ pc = "saving"
    /\ batch < AnchorBatch
    /\ held = NoneHeld
    /\ \A n \in Networks : ~Unrecorded(n)
    /\ Advance(0)
    /\ UNCHANGED <<progress, dbVars, factomVars, revealed>>

BatchFull ==
    /\ pc = "saving"
    /\ batch = AnchorBatch
    /\ Normally("loop")
    /\ ForgetSaving
    /\ UNCHANGED <<progress, dbVars, factomVars, revealed>>

SaveAnchorsIntoFactom ==
    BeginSaving \/ SendRecord \/ SaveHashes \/ PassOver \/ BatchFull

\* A call fails with nothing revealed that is not saved.
SavingFails ==
    /\ pc = "save" \/ (pc = "saving" /\ held = NoneHeld)
    /\ FailedCall
    /\ ForgetSaving
    /\ UNCHANGED <<dbVars, factomVars, revealed>>

\* The reveal takes effect but its reply is an error or never arrives.
RevealReplyLost ==
    /\ pc = "saving"
    /\ batch < AnchorBatch
    /\ \E n \in Networks : Turn(n) /\ Reveal(n)
    /\ Fault("lostReply", "loop")
    /\ ForgetSaving
    /\ UNCHANGED dbVars

\* A call fails with hashes in memory: sending the Ethereum record, or the write.
HashesLost ==
    /\ pc = "saving"
    /\ held # NoneHeld
    /\ Fault("unsaved", "loop")
    /\ ForgetSaving
    /\ UNCHANGED <<dbVars, factomVars, revealed>>

FactomRecordFailures == SavingFails \/ RevealReplyLost \/ HashesLost

-----------------------------------------------------------------------------
(* The environment: the rest of the main loop. *)

\* A directory block becomes known.
BlockAppears ==
    /\ \E h \in Height :
        /\ ~Known(h) /\ \A k \in 0..(h - 1) : Known(k)
        /\ InsertAnchorData(h, NewAnchorData)
    /\ UNCHANGED <<chainHead, lastFactom, lastBitcoin>>

\* An anchor is found confirmed.
AnchorConfirmed ==
    /\ \E h \in Height, n \in Networks :
        /\ Known(h)
        /\ anchorData[h][n].block = 0
        /\ anchorData[h][n].rec = 0
        /\ InsertAnchorData(h, [anchorData[h] EXCEPT ![n].txid = 1, ![n].block = 1])
    /\ UNCHANGED <<chainHead, lastFactom, lastBitcoin>>

\* A revealed entry is found in a directory block.
RecordFound ==
    /\ pc = "loop"
    /\ \E id \in pending :
        LET e == entries[id] IN
        /\ Known(e.h)
        /\ InsertAnchorData(e.h, [anchorData[e.h] EXCEPT ![e.net] =
            [txid |-> e.txid, block |-> e.block, entry |-> id, rec |-> MaxHeight]])
        /\ pending' = pending \ {id}
    /\ UNCHANGED <<processVars, chainHead, lastFactom, lastBitcoin, entries, dblocks,
                   recordVars>>

HeadMoves == UpdateAnchorDataHead /\ UNCHANGED <<anchorData, lastFactom, lastBitcoin>>

RestOfLoop ==
    /\ pc = "loop"
    /\ BlockAppears \/ AnchorConfirmed \/ HeadMoves
    /\ UNCHANGED <<processVars, factomVars, recordVars>>

\* factomd never includes a revealed entry.  When it lets go of it matters only
\* where records are looked for.
DropEntry ==
    /\ pc = "loop"
    /\ \E id \in pending : pending' = pending \ {id}
    /\ UNCHANGED <<processVars, dbVars, entries, dblocks, recordVars>>

SaveAgain ==
    /\ pc = "loop"
    /\ Normally("save")
    /\ UNCHANGED <<progress, dbVars, factomVars, recordVars>>

RecordRestart ==
    /\ Fault("crash", "loop")
    /\ ForgetSaving
    /\ ReopenDatabase
    /\ UNCHANGED <<factomVars, revealed>>

FactomRecordInit ==
    /\ pc = "loop" /\ faults = 0 /\ errors = 0 /\ progress = FALSE
    /\ DatabaseInit
    /\ FactomInit
    /\ at = 0 /\ batch = 0 /\ held = NoneHeld /\ revealed = {}

FactomRecordNext ==
    \/ SaveAnchorsIntoFactom
    \/ FactomRecordFailures
    \/ RestOfLoop
    \/ RecordFound
    \/ DropEntry
    \/ SaveAgain
    \/ RecordRestart

FactomRecordSpec == FactomRecordInit /\ [][FactomRecordNext]_factomRecordVars

\* Each loop synchronizes, so records that go on waiting are found: fairness of
\* RecordFound is strong because it is off while the call runs.
FactomRecordFairSpec ==
    /\ FactomRecordSpec
    /\ WF_factomRecordVars(SaveAnchorsIntoFactom)
    /\ WF_factomRecordVars(SaveAgain)
    /\ SF_factomRecordVars(RecordFound)

-----------------------------------------------------------------------------
(* Properties. *)

SameAnchor(i, j) ==
    entries[i].h = entries[j].h /\ entries[i].net = entries[j].net

\* Between two failures that lose track of a reveal, the process reveals at most
\* one record per directory block and network, over all calls and batches.
RevealedOncePerFault ==
    \A r, s \in revealed :
        r.id # s.id /\ SameAnchor(r.id, s.id) => r.epoch # s.epoch

\* What is saved as the entry of an anchor is an entry about that anchor.
EntryIsAboutAnchor ==
    \A h \in Height, n \in Networks :
        Known(h) /\ anchorData[h][n].entry # 0 =>
            LET e == entries[anchorData[h][n].entry] IN
            /\ e.h = h /\ e.net = n
            /\ e.txid = anchorData[h][n].txid /\ e.block = anchorData[h][n].block

\* Every anchor confirmed in Bitcoin gets its record in the end, with finitely many
\* failures: no batch bound or failing neighbour starves it.  Only a record that
\* factomd dropped is missing, since the saved hash keeps it from being sent again.
EveryAnchorRecorded ==
    \A h \in Height :
        Known(h) /\ anchorData[h]["Bitcoin"].block # 0
            ~> /\ Known(h)
               /\ LET a == anchorData[h]["Bitcoin"] IN
                    a.entry # 0 /\ (a.rec > 0 \/ a.entry \notin pending)
=============================================================================

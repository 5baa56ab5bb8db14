-------------------------- MODULE FactomRecordProofs --------------------------
(***************************************************************************)
(* Proofs about SaveAnchorsIntoFactom (FactomRecord): what is saved as the *)
(* entry of an anchor is about that anchor, and no record is revealed      *)
(* twice without a failure in between.  The lemmas about its own steps and *)
(* about what others may do are cited for the whole program as well.       *)
(***************************************************************************)
EXTENDS FactomRecord, AnchorDatabaseProofs

-----------------------------------------------------------------------------
(* The inductive invariant. *)

RecordTypeInv ==
    /\ ProcessTypeOK
    /\ DatabaseTypeOK
    /\ FactomTypeOK
    /\ at \in Height
    /\ batch \in 0..AnchorBatch
    /\ held \in [Networks -> 0..Len(entries)]
    /\ revealed \subseteq [id: DOMAIN entries, epoch: 0..MaxFaults]

\* Who reveals a record fills it in.
EntriesNameAnchors ==
    \A id \in DOMAIN entries : entries[id].txid # 0 /\ entries[id].block # 0

\* The fields of an anchor are filled in one after the other.
FilledInOrder(a) ==
    /\ a.block # 0 => a.txid # 0
    /\ a.entry # 0 => a.block # 0 /\ a.entry \in DOMAIN entries
    /\ a.rec > 0 => a.entry # 0
AnchorsInOrder ==
    \A h \in Height, n \in Networks : Known(h) => FilledInOrder(anchorData[h][n])

\* Entry id is about the anchor a of block h in network n.
About(id, h, n, a) ==
    /\ entries[id].h = h /\ entries[id].net = n
    /\ entries[id].txid = a.txid /\ entries[id].block = a.block

\* What is held in memory is about the anchor that is being looked at, which has
\* no entry yet; it is always saved before the batch is full.
HeldInv ==
    /\ pc = "saving" => Known(at)
    /\ \A n \in Networks : held[n] # 0 =>
        /\ pc = "saving"
        /\ batch < AnchorBatch
        /\ anchorData[at][n].entry = 0
        /\ anchorData[at][n].block # 0
        /\ About(held[n], at, n, anchorData[at][n])

\* What was revealed since the last failure is saved, or held.
RevealedInv ==
    \A r \in revealed :
        /\ r.epoch <= faults
        /\ r.epoch = faults =>
            LET e == entries[r.id] IN
            /\ Known(e.h)
            /\ \/ anchorData[e.h][e.net].entry # 0
               \/ at = e.h /\ held[e.net] # 0

RecordInv ==
    /\ RecordTypeInv
    /\ EntriesNameAnchors
    /\ AnchorsInOrder
    /\ HeldInv
    /\ EntryIsAboutAnchor
    /\ RevealedInv
    /\ RevealedOncePerFault

-----------------------------------------------------------------------------
(* Types. *)

\* The parts of the types that the proofs need all the time.
LEMMA RecordTypes ==
    ASSUME RecordTypeInv
    PROVE  /\ anchorData \in [Height -> AnchorData \cup {Nil}]
           /\ entries \in Seq(Entry) /\ Len(entries) \in Nat
           /\ DOMAIN entries = 1..Len(entries)
           /\ faults \in 0..MaxFaults /\ MaxFaults \in Nat /\ AnchorBatch \in Nat \ {0}
           /\ at \in Height /\ batch \in 0..AnchorBatch
           /\ \A n \in Networks : held[n] \in 0..Len(entries)
           /\ \A r \in revealed :
                /\ r.id \in DOMAIN entries /\ r.epoch \in 0..MaxFaults
                /\ entries[r.id] \in Entry
                /\ entries[r.id].h \in Height /\ entries[r.id].net \in Networks
<1> USE DEF RecordTypeInv
<1>1. entries \in Seq(Entry) /\ Len(entries) \in Nat /\ DOMAIN entries = 1..Len(entries)
  BY DEF FactomTypeOK
<1>2. \A r \in revealed : r.id \in DOMAIN entries /\ r.epoch \in 0..MaxFaults
  OBVIOUS
<1>3. \A r \in revealed : entries[r.id] \in Entry
  BY <1>1, <1>2
<1>4. \A r \in revealed : entries[r.id].h \in Height /\ entries[r.id].net \in Networks
  BY <1>3 DEF Entry
<1>5. anchorData \in [Height -> AnchorData \cup {Nil}]
  BY DEF DatabaseTypeOK
<1>6. faults \in 0..MaxFaults /\ MaxFaults \in Nat /\ AnchorBatch \in Nat \ {0}
  BY FaultAssumption DEF ProcessTypeOK
<1> QED
  BY <1>1, <1>2, <1>3, <1>4, <1>5, <1>6

\* The types that outlive one step more: entries are only added.
LEMMA EntriesGrow ==
    ASSUME FactomTypeOK, NEW e \in Entry, RevealEntry(e)
    PROVE  /\ FactomTypeOK'
           /\ Len(entries') = Len(entries) + 1
           /\ DOMAIN entries' = DOMAIN entries \cup {Len(entries) + 1}
           /\ entries'[Len(entries) + 1] = e
           /\ \A id \in DOMAIN entries : entries'[id] = entries[id]
<1> USE DEF FactomTypeOK, RevealEntry
<1>1. /\ entries' \in Seq(Entry)
      /\ entries'[Len(entries) + 1] = e
      /\ Len(entries') = Len(entries) + 1
      /\ DOMAIN entries' = DOMAIN entries \cup {Len(entries) + 1}
      /\ \A id \in DOMAIN entries : entries'[id] = entries[id]
  OBVIOUS
<1>2. dblocks' \in Seq(SUBSET DOMAIN entries')
  <2>1. dblocks \in Seq(SUBSET DOMAIN entries)
    OBVIOUS
  <2> QED
    BY <1>1, <2>1
<1> QED
  BY <1>1, <1>2

-----------------------------------------------------------------------------
(* What others may do. *)

\* Somebody else fills in an anchor, in order, and with an entry only if the
\* entry is about it.
LEMMA OthersFillIn ==
    ASSUME RecordInv, ProcessTypeOK', DatabaseTypeOK', FactomTypeOK',
           pc # "saving", pc' # "saving",
           UNCHANGED <<entries, recordVars>>, faults' = faults,
           NEW h, Known(h), NEW n \in Networks, NEW a \in NetAnchor,
           InsertAnchorData(h, [anchorData[h] EXCEPT ![n] = a]),
           FilledInOrder(a),
           anchorData[h][n].entry # 0 => a.entry # 0,
           a.entry # 0 => About(a.entry, h, n, a)
    PROVE  RecordInv'
<1> USE DEF RecordInv, recordVars
<1>1. /\ \A k \in Height : Known(k)' <=> Known(k)
      /\ \A k \in Height, m \in Networks : Known(k) =>
            anchorData'[k][m] = IF k = h /\ m = n THEN a ELSE anchorData[k][m]
  BY RecordTypes, OneAnchor
<1>2. RecordTypeInv'
  BY DEF RecordTypeInv
<1>3. EntriesNameAnchors'
  BY DEF EntriesNameAnchors
<1>4. AnchorsInOrder'
  BY <1>1 DEF AnchorsInOrder, FilledInOrder
<1>5. held = NoneHeld /\ \A m \in Networks : held[m] = 0
  BY RecordTypes DEF HeldInv, NoneHeld, RecordTypeInv
<1>6. HeldInv'
  BY <1>5 DEF HeldInv
<1>7. EntryIsAboutAnchor'
  BY <1>1 DEF EntryIsAboutAnchor, About
<1>8. RevealedInv'
  BY <1>1, <1>5, RecordTypes DEF RevealedInv
<1>9. RevealedOncePerFault'
  BY DEF RevealedOncePerFault, SameAnchor
<1> QED
  BY <1>2, <1>3, <1>4, <1>6, <1>7, <1>8, <1>9

\* Somebody else puts a new block into the database.
LEMMA OthersLearn ==
    ASSUME RecordInv, ProcessTypeOK', DatabaseTypeOK', FactomTypeOK',
           pc # "saving", pc' # "saving",
           UNCHANGED <<entries, recordVars>>, faults' = faults,
           NEW h \in Height, ~Known(h), InsertAnchorData(h, NewAnchorData)
    PROVE  RecordInv'
<1> USE DEF RecordInv, recordVars
<1>1. /\ \A k \in Height : Known(k)' <=> Known(k) \/ k = h
      /\ \A m \in Networks :
            anchorData'[h][m] = [txid |-> 0, block |-> 0, entry |-> 0, rec |-> 0]
      /\ \A k \in Height : Known(k) => k # h /\ anchorData'[k] = anchorData[k]
  BY RecordTypes, OneBlock
<1>2. RecordTypeInv'
  BY DEF RecordTypeInv
<1>3. EntriesNameAnchors'
  BY DEF EntriesNameAnchors
<1>4. AnchorsInOrder'
  BY <1>1 DEF AnchorsInOrder, FilledInOrder
<1>5. held = NoneHeld /\ \A m \in Networks : held[m] = 0
  BY RecordTypes DEF HeldInv, NoneHeld, RecordTypeInv
<1>6. HeldInv'
  BY <1>5 DEF HeldInv
<1>7. EntryIsAboutAnchor'
  BY <1>1 DEF EntryIsAboutAnchor, About
<1>8. RevealedInv'
  BY <1>1, <1>5, RecordTypes DEF RevealedInv
<1>9. RevealedOncePerFault'
  BY DEF RevealedOncePerFault, SameAnchor
<1> QED
  BY <1>2, <1>3, <1>4, <1>6, <1>7, <1>8, <1>9

\* Somebody else moves the program on, the AnchorData and the entries stay.
LEMMA OthersMove ==
    ASSUME RecordInv, ProcessTypeOK', DatabaseTypeOK', FactomTypeOK',
           pc' = pc \/ (pc # "saving" /\ pc' # "saving"),
           UNCHANGED <<anchorData, entries, recordVars>>, faults' = faults
    PROVE  RecordInv'
<1> USE DEF RecordInv, recordVars
<1>1. \A h : Known(h)' <=> Known(h)
  BY DEF Known, FetchAnchorData
<1>2. RecordTypeInv'
  BY DEF RecordTypeInv
<1>3. EntriesNameAnchors' /\ RevealedOncePerFault'
  BY DEF EntriesNameAnchors, RevealedOncePerFault, SameAnchor
<1>4. AnchorsInOrder' /\ EntryIsAboutAnchor'
  BY <1>1 DEF AnchorsInOrder, FilledInOrder, EntryIsAboutAnchor
<1>5. HeldInv'
  BY <1>1 DEF HeldInv, About
<1>6. RevealedInv'
  BY <1>1 DEF RevealedInv
<1> QED
  BY <1>2, <1>3, <1>4, <1>5, <1>6

\* Somebody else reveals an entry that names an anchor.
LEMMA OthersReveal ==
    ASSUME RecordInv, UNCHANGED <<processVars, dbVars, recordVars>>,
           NEW e \in Entry, RevealEntry(e), e.txid # 0, e.block # 0
    PROVE  RecordInv'
<1> USE DEF RecordInv, recordVars
<1>1. /\ FactomTypeOK'
      /\ Len(entries') = Len(entries) + 1
      /\ DOMAIN entries' = DOMAIN entries \cup {Len(entries) + 1}
      /\ entries'[Len(entries) + 1] = e
      /\ \A id \in DOMAIN entries : entries'[id] = entries[id]
  BY EntriesGrow DEF RecordTypeInv
<1>2. \A h : Known(h)' <=> Known(h)
  BY DEF Known, FetchAnchorData, dbVars
<1>3. UNCHANGED <<pc, faults, errors, progress, anchorData, chainHead, lastFactom,
                  lastBitcoin, at, batch, held, revealed>>
  BY DEF processVars, dbVars
<1>4. RecordTypeInv'
  <2>1. ProcessTypeOK' /\ DatabaseTypeOK'
    BY <1>3 DEF RecordTypeInv, ProcessTypeOK, DatabaseTypeOK
  <2>2. held' \in [Networks -> 0..Len(entries')]
    BY <1>1, <1>3, RecordTypes DEF RecordTypeInv
  <2>3. revealed' \subseteq [id: DOMAIN entries', epoch: 0..MaxFaults]
    BY <1>1, <1>3 DEF RecordTypeInv
  <2> QED
    BY <1>1, <1>3, <2>1, <2>2, <2>3 DEF RecordTypeInv
<1>5. EntriesNameAnchors'
  BY <1>1 DEF EntriesNameAnchors
<1>6. AnchorsInOrder'
  BY <1>1, <1>2, <1>3 DEF AnchorsInOrder, FilledInOrder
<1>7. EntryIsAboutAnchor'
  BY <1>1, <1>2, <1>3 DEF AnchorsInOrder, FilledInOrder, EntryIsAboutAnchor
<1>8. HeldInv'
  <2>1. \A m \in Networks : held[m] # 0 => held[m] \in DOMAIN entries
    BY RecordTypes
  <2> QED
    BY <1>1, <1>2, <1>3, <2>1 DEF HeldInv, About
<1>9. RevealedInv' /\ RevealedOncePerFault'
  BY <1>1, <1>2, <1>3, RecordTypes DEF RevealedInv, RevealedOncePerFault, SameAnchor
<1> QED
  BY <1>4, <1>5, <1>6, <1>7, <1>8, <1>9

\* After a failure that may lose something, the call starts anew; what was
\* revealed before does not count, and a lost database is empty.
LEMMA CallLost ==
    ASSUME RecordInv, ProcessTypeOK', DatabaseTypeOK', FactomTypeOK',
           faults' = faults + 1, pc' # "saving",
           ForgetSaving \/ (pc # "saving" /\ UNCHANGED <<at, batch, held>>),
           UNCHANGED <<entries, revealed>>,
           \A h \in Height : Known(h)' => Known(h) /\ anchorData'[h] = anchorData[h]
    PROVE  RecordInv'
<1> USE DEF RecordInv, ForgetSaving
<1>1. \A n \in Networks : held'[n] = 0
  BY DEF NoneHeld, HeldInv
<1>2. RecordTypeInv'
  <2>1. 0 \in Height /\ 0 \in 0..AnchorBatch
    BY RecordTypes, DatabaseAssumption DEF Height
  <2>2. held' \in [Networks -> 0..Len(entries')]
    BY RecordTypes DEF NoneHeld, RecordTypeInv
  <2> QED
    BY <2>1, <2>2 DEF RecordTypeInv
<1>3. EntriesNameAnchors' /\ RevealedOncePerFault'
  BY DEF EntriesNameAnchors, RevealedOncePerFault, SameAnchor
<1>4. AnchorsInOrder' /\ EntryIsAboutAnchor'
  BY DEF AnchorsInOrder, FilledInOrder, EntryIsAboutAnchor
<1>5. HeldInv'
  BY <1>1 DEF HeldInv
<1>6. RevealedInv'
  BY RecordTypes DEF RevealedInv
<1> QED
  BY <1>2, <1>3, <1>4, <1>5, <1>6

-----------------------------------------------------------------------------
(* The steps of SaveAnchorsIntoFactom. *)

\* Nothing held means that every network's place is empty.
LEMMA NothingHeld ==
    ASSUME RecordInv
    PROVE  held = NoneHeld <=> \A n \in Networks : held[n] = 0
BY DEF RecordInv, RecordTypeInv, NoneHeld

\* The call starts, goes on or ends with nothing in memory.
LEMMA LooksElsewhere ==
    ASSUME RecordInv, ProcessTypeOK', held = NoneHeld, held' = NoneHeld,
           at' \in Height, batch' \in 0..AnchorBatch, pc' = "saving" => Known(at'),
           faults' = faults, UNCHANGED <<dbVars, factomVars, revealed>>
    PROVE  RecordInv'
<1> USE DEF RecordInv
<1>1. UNCHANGED <<anchorData, chainHead, lastFactom, lastBitcoin, entries, pending,
                  dblocks>>
  BY DEF dbVars, factomVars
<1>2. \A h : Known(h)' <=> Known(h)
  BY <1>1 DEF Known, FetchAnchorData
<1>3. \A n \in Networks : held[n] = 0 /\ held'[n] = 0
  BY DEF NoneHeld
<1>4. RecordTypeInv'
  <2>1. DatabaseTypeOK' /\ FactomTypeOK'
    BY <1>1 DEF RecordTypeInv, DatabaseTypeOK, FactomTypeOK
  <2> QED
    BY <1>1, <2>1 DEF RecordTypeInv
<1>5. EntriesNameAnchors' /\ RevealedOncePerFault'
  BY <1>1 DEF EntriesNameAnchors, RevealedOncePerFault, SameAnchor
<1>6. AnchorsInOrder' /\ EntryIsAboutAnchor'
  BY <1>1, <1>2 DEF AnchorsInOrder, FilledInOrder, EntryIsAboutAnchor
<1>7. HeldInv'
  <2>1. pc' = "saving" => Known(at)'
    BY <1>1 DEF Known, FetchAnchorData
  <2> QED
    BY <1>3, <2>1 DEF HeldInv
<1>8. RevealedInv'
  BY <1>1, <1>2, <1>3, RecordTypes DEF RevealedInv
<1> QED
  BY <1>4, <1>5, <1>6, <1>7, <1>8

\* The values of the locals outside the call.
LEMMA NoLocals ==
    ASSUME RecordInv
    PROVE  0 \in Height /\ 0 \in 0..AnchorBatch
BY RecordTypes, DatabaseAssumption DEF Height, RecordInv

\* Where the call starts, if anywhere.
LEMMA BeginSavingKeeps ==
    ASSUME RecordInv, BeginSaving
    PROVE  RecordInv'
<1> USE DEF BeginSaving
<1>1. held = NoneHeld
  BY NothingHeld DEF RecordInv, HeldInv
<1>2. ProcessTypeOK' /\ faults' = faults
  <2>1. Normally("saving") \/ Normally("loop")
    OBVIOUS
  <2>2. faults' = faults
    BY <2>1 DEF Normally
  <2> QED
    BY <2>1, <2>2, ProcessGoesOn DEF RecordInv, RecordTypeInv, PCs, SaveSteps
<1>3. at' \in Height /\ batch' \in 0..AnchorBatch
  BY NoLocals DEF Known, FetchAnchorData
<1>4. pc' = "saving" => Known(at')
  BY DEF Normally, Goto
<1> QED
  BY <1>1, <1>2, <1>3, <1>4, LooksElsewhere

\* The next AnchorData, or the end of the call.
LEMMA AdvanceKeeps ==
    ASSUME RecordInv, held = NoneHeld, Advance(0),
           UNCHANGED <<progress, dbVars, factomVars, revealed>>
    PROVE  RecordInv'
<1> USE DEF Advance
<1>1. held' = NoneHeld
  BY DEF ForgetSaving
<1>2. ProcessTypeOK' /\ faults' = faults
  <2>1. Normally("saving") \/ Normally("loop")
    OBVIOUS
  <2>2. faults' = faults
    BY <2>1 DEF Normally
  <2> QED
    BY <2>1, <2>2, ProcessGoesOn DEF RecordInv, RecordTypeInv, PCs, SaveSteps
<1>3. at' \in Height /\ batch' \in 0..AnchorBatch
  <2>1. batch + 0 = batch /\ batch \in 0..AnchorBatch
    BY RecordTypes DEF RecordInv
  <2> QED
    BY <2>1, NoLocals DEF ForgetSaving, Known, FetchAnchorData
<1>4. pc' = "saving" => Known(at')
  BY DEF Normally, Goto
<1> QED
  BY <1>1, <1>2, <1>3, <1>4, LooksElsewhere

\* The call ends without losing anything.
LEMMA EndKeeps ==
    ASSUME RecordInv, held = NoneHeld, ForgetSaving,
           (Normally("loop") /\ UNCHANGED progress) \/ FailedCall,
           UNCHANGED <<dbVars, factomVars, revealed>>
    PROVE  RecordInv'
<1>1. ProcessTypeOK' /\ faults' = faults /\ pc' = "loop"
  BY ProcessGoesOn DEF FailedCall, RecordInv, RecordTypeInv, PCs
<1>2. at' \in Height /\ batch' \in 0..AnchorBatch
  BY NoLocals DEF ForgetSaving
<1> QED
  BY <1>1, <1>2, LooksElsewhere DEF ForgetSaving

\* The entry revealed for an anchor is new, well typed, names the anchor and is
\* the first one about it since the last failure.
LEMMA RevealOfTurn ==
    ASSUME RecordInv, pc = "saving", NEW n \in Networks, Turn(n), Reveal(n)
    PROVE  LET new == Len(entries) + 1 IN
           /\ FactomTypeOK'
           /\ Len(entries') = new
           /\ DOMAIN entries' = DOMAIN entries \cup {new}
           /\ new \notin DOMAIN entries
           /\ \A id \in DOMAIN entries : entries'[id] = entries[id]
           /\ entries'[new] = [h |-> at, net |-> n, txid |-> anchorData[at][n].txid,
                               block |-> anchorData[at][n].block, kind |-> "anchor"]
           /\ revealed' = revealed \cup {[id |-> new, epoch |-> faults]}
           /\ anchorData[at][n].txid # 0 /\ anchorData[at][n].block # 0
           /\ anchorData[at][n].entry = 0 /\ held[n] = 0
           /\ RevealedOncePerFault' /\ EntriesNameAnchors'
<1> DEFINE new == Len(entries) + 1
           e == [h |-> at, net |-> n, txid |-> anchorData[at][n].txid,
                 block |-> anchorData[at][n].block, kind |-> "anchor"]
<1>1. Known(at) /\ at \in Height /\ faults \in 0..MaxFaults
  BY RecordTypes DEF RecordInv, HeldInv
<1>2. /\ anchorData[at][n].entry = 0 /\ anchorData[at][n].block # 0 /\ held[n] = 0
      /\ anchorData[at][n].txid # 0
  BY <1>1 DEF Turn, Unrecorded, RecordInv, AnchorsInOrder, FilledInOrder
<1>3. e \in Entry
  BY <1>1, RecordTypes, AnchorType DEF Entry, Kinds, RecordInv
<1>4. RevealEntry(e) /\ revealed' = revealed \cup {[id |-> Len(entries'), epoch |-> faults]}
  BY DEF Reveal
<1> HIDE DEF e
<1>5. /\ FactomTypeOK'
      /\ Len(entries') = new
      /\ DOMAIN entries' = DOMAIN entries \cup {new}
      /\ entries'[new] = e
      /\ \A id \in DOMAIN entries : entries'[id] = entries[id]
  BY <1>3, <1>4, EntriesGrow DEF RecordInv, RecordTypeInv
<1>6. new \notin DOMAIN entries
  BY RecordTypes DEF RecordInv
<1>7. e.h = at /\ e.net = n /\ e.txid # 0 /\ e.block # 0
  BY <1>2 DEF e
<1>8. RevealedOncePerFault'
  <2> HIDE DEF new
  <2>1. revealed' = revealed \cup {[id |-> new, epoch |-> faults]}
    BY <1>4, <1>5
  <2>2. \A r \in revealed : r.id \in DOMAIN entries /\ entries'[r.id] = entries[r.id]
    BY <1>5, RecordTypes DEF RecordInv
  <2>3. \A r \in revealed : entries[r.id].h = at /\ entries[r.id].net = n =>
            r.epoch # faults
    BY <1>2 DEF RecordInv, RevealedInv
  <2> QED
    BY <1>5, <1>6, <1>7, <2>1, <2>2, <2>3
       DEF RecordInv, RevealedOncePerFault, SameAnchor
<1>9. EntriesNameAnchors'
  BY <1>5, <1>7 DEF RecordInv, EntriesNameAnchors
<1> QED
  BY <1>2, <1>4, <1>5, <1>6, <1>8, <1>9 DEF e

\* One record is sent, and its hash is held.
LEMMA SendRecordKeeps ==
    ASSUME RecordInv, SendRecord
    PROVE  RecordInv'
<1>1. PICK n \in Networks :
        Turn(n) /\ Reveal(n) /\ held' = [held EXCEPT ![n] = Len(entries')]
  BY DEF SendRecord
<1> DEFINE new == Len(entries) + 1
<1>2. /\ pc = "saving" /\ batch < AnchorBatch
      /\ UNCHANGED <<pc, faults, errors, progress, anchorData, chainHead, lastFactom,
                     lastBitcoin, at, batch>>
  BY DEF SendRecord, processVars, dbVars
<1>3. /\ FactomTypeOK'
      /\ Len(entries') = new
      /\ DOMAIN entries' = DOMAIN entries \cup {new}
      /\ new \notin DOMAIN entries
      /\ \A id \in DOMAIN entries : entries'[id] = entries[id]
      /\ entries'[new] = [h |-> at, net |-> n, txid |-> anchorData[at][n].txid,
                          block |-> anchorData[at][n].block, kind |-> "anchor"]
      /\ revealed' = revealed \cup {[id |-> new, epoch |-> faults]}
      /\ anchorData[at][n].txid # 0 /\ anchorData[at][n].block # 0
      /\ anchorData[at][n].entry = 0 /\ held[n] = 0
      /\ RevealedOncePerFault' /\ EntriesNameAnchors'
  BY <1>1, <1>2, RevealOfTurn
<1>4. /\ Len(entries) \in Nat /\ DOMAIN entries = 1..Len(entries)
      /\ at \in Height /\ Known(at) /\ faults \in 0..MaxFaults /\ MaxFaults \in Nat
  BY <1>2, RecordTypes DEF RecordInv, HeldInv
<1>5. \A h : Known(h)' <=> Known(h)
  BY <1>2 DEF Known, FetchAnchorData
<1>6. /\ held' \in [Networks -> 0..Len(entries')]
      /\ \A m \in Networks : held'[m] = IF m = n THEN new ELSE held[m]
  <2>1. held \in [Networks -> 0..Len(entries)]
    BY DEF RecordInv, RecordTypeInv
  <2> QED
    BY <1>1, <1>3, <1>4, <2>1
<1> HIDE DEF new
<1>7. RecordTypeInv'
  <2>1. ProcessTypeOK' /\ DatabaseTypeOK'
    BY <1>2 DEF RecordInv, RecordTypeInv, ProcessTypeOK, DatabaseTypeOK
  <2>2. revealed' \subseteq [id: DOMAIN entries', epoch: 0..MaxFaults]
    BY <1>3, <1>4 DEF RecordInv, RecordTypeInv
  <2>3. at' \in Height /\ batch' \in 0..AnchorBatch
    BY <1>2 DEF RecordInv, RecordTypeInv
  <2> QED
    BY <1>3, <1>6, <2>1, <2>2, <2>3 DEF RecordTypeInv
<1>8. AnchorsInOrder'
  BY <1>2, <1>3, <1>5 DEF RecordInv, AnchorsInOrder, FilledInOrder
<1>9. EntryIsAboutAnchor'
  BY <1>2, <1>3, <1>5 DEF RecordInv, AnchorsInOrder, FilledInOrder, EntryIsAboutAnchor
<1>10. HeldInv'
  <2>1. ASSUME NEW m \in Networks, m # n, held[m] # 0
        PROVE  held[m] \in DOMAIN entries /\ About(held[m], at, m, anchorData[at][m])
               /\ anchorData[at][m].entry = 0 /\ anchorData[at][m].block # 0
    BY <1>4, <2>1, RecordTypes DEF RecordInv, HeldInv
  <2> QED
    BY <1>2, <1>3, <1>4, <1>5, <1>6, <2>1 DEF HeldInv, About
<1>11. RevealedInv'
  <2>1. ASSUME NEW r \in revealed
        PROVE  /\ r.id \in DOMAIN entries /\ entries'[r.id] = entries[r.id]
               /\ entries[r.id].net \in Networks
    BY <1>3, RecordTypes DEF RecordInv
  <2>2. new # 0
    BY <1>4 DEF new
  <2> QED
    BY <1>2, <1>3, <1>4, <1>5, <1>6, <2>1, <2>2 DEF RecordInv, RevealedInv
<1> QED
  BY <1>3, <1>7, <1>8, <1>9, <1>10, <1>11 DEF RecordInv

\* The held hashes are saved, both with one write.
LEMMA SaveHashesKeeps ==
    ASSUME RecordInv, SaveHashes
    PROVE  /\ RecordInv'
           /\ \A k \in Height : Known(k)' <=> Known(k)
           /\ \A k \in Height, m \in Networks : Known(k) =>
                anchorData'[k][m] =
                    IF k = at /\ held[m] # 0
                    THEN [anchorData[k][m] EXCEPT !.entry = held[m]]
                    ELSE anchorData[k][m]
<1> DEFINE ad == [n \in Networks |->
            IF held[n] = 0 THEN anchorData[at][n]
            ELSE [anchorData[at][n] EXCEPT !.entry = held[n]]]
<1>1. /\ pc = "saving" /\ InsertAnchorData(at, ad) /\ Advance(1)
      /\ UNCHANGED <<progress, chainHead, lastFactom, lastBitcoin, entries, pending,
                     dblocks, revealed>>
  BY DEF SaveHashes, factomVars
<1>2. PICK n \in Networks : held[n] # 0
  BY NothingHeld DEF SaveHashes
<1>3. Known(at) /\ batch < AnchorBatch
  BY <1>1, <1>2 DEF RecordInv, HeldInv
<1>4. /\ at \in Height /\ batch \in 0..AnchorBatch /\ AnchorBatch \in Nat
      /\ \A m \in Networks : held[m] \in Nat
      /\ \A m \in Networks : held[m] # 0 => held[m] \in DOMAIN entries
  BY RecordTypes DEF RecordInv
<1>5. \A m \in Networks : anchorData[at][m] \in NetAnchor
  BY <1>3, RecordTypes, AnchorType DEF RecordInv
<1>6. ad \in AnchorData
  BY <1>4, <1>5 DEF AnchorData, NetAnchor
<1>7. \A m \in Networks :
        ad[m] = IF held[m] # 0 THEN [anchorData[at][m] EXCEPT !.entry = held[m]]
                ELSE anchorData[at][m]
  OBVIOUS
<1> HIDE DEF ad
<1>8. /\ anchorData' \in [Height -> AnchorData \cup {Nil}]
      /\ \A k \in Height : anchorData'[k] = IF k = at THEN ad ELSE anchorData[k]
  BY <1>1, <1>4, <1>6, RecordTypes DEF InsertAnchorData, RecordInv
<1>9. \A k : Known(k)' <=> Known(k)
  BY <1>3, <1>4, <1>6, <1>8, NilAssumption DEF Known, FetchAnchorData
<1>10. \A k \in Height, m \in Networks : Known(k) =>
        anchorData'[k][m] =
            IF k = at /\ held[m] # 0
            THEN [anchorData[k][m] EXCEPT !.entry = held[m]]
            ELSE anchorData[k][m]
  BY <1>7, <1>8
<1>11. \A k \in Height, m \in Networks : Known(k) =>
        /\ anchorData'[k][m].txid = anchorData[k][m].txid
        /\ anchorData'[k][m].block = anchorData[k][m].block
        /\ anchorData'[k][m].rec = anchorData[k][m].rec
        /\ anchorData'[k][m].entry = IF k = at /\ held[m] # 0 THEN held[m]
                                     ELSE anchorData[k][m].entry
  <2> SUFFICES ASSUME NEW k \in Height, NEW m \in Networks, Known(k)
               PROVE  /\ anchorData'[k][m].txid = anchorData[k][m].txid
                      /\ anchorData'[k][m].block = anchorData[k][m].block
                      /\ anchorData'[k][m].rec = anchorData[k][m].rec
                      /\ anchorData'[k][m].entry = IF k = at /\ held[m] # 0 THEN held[m]
                                                   ELSE anchorData[k][m].entry
    OBVIOUS
  <2>1. anchorData[k][m] \in NetAnchor
    BY RecordTypes, AnchorType DEF RecordInv
  <2> QED
    BY <1>10, <2>1 DEF NetAnchor
<1>12. /\ held' = NoneHeld /\ at' \in Height /\ batch' \in 0..AnchorBatch
       /\ pc' = "saving" => Known(at')
       /\ Normally("saving") \/ Normally("loop")
  BY <1>1, <1>3, <1>4, NoLocals
     DEF Advance, ForgetSaving, Known, FetchAnchorData, Normally, Goto
<1>13. ProcessTypeOK' /\ faults' = faults
  BY <1>1, <1>12, ProcessGoesOn, ProcessSteps
     DEF RecordInv, RecordTypeInv, PCs, SaveSteps, Normally
<1>14. RecordTypeInv'
  <2>1. DatabaseTypeOK' /\ FactomTypeOK'
    BY <1>1, <1>8 DEF RecordInv, RecordTypeInv, DatabaseTypeOK, FactomTypeOK
  <2>2. held' \in [Networks -> 0..Len(entries')]
    BY <1>12, RecordTypes DEF NoneHeld, RecordInv
  <2> QED
    BY <1>1, <1>12, <1>13, <2>1, <2>2 DEF RecordInv, RecordTypeInv
<1>15. EntriesNameAnchors' /\ RevealedOncePerFault'
  BY <1>1 DEF RecordInv, EntriesNameAnchors, RevealedOncePerFault, SameAnchor
<1>16. AnchorsInOrder'
  BY <1>1, <1>2, <1>4, <1>9, <1>11 DEF RecordInv, AnchorsInOrder, FilledInOrder, HeldInv
<1>17. EntryIsAboutAnchor'
  BY <1>1, <1>9, <1>11 DEF RecordInv, EntryIsAboutAnchor, HeldInv, About
<1>18. HeldInv'
  <2>1. pc' = "saving" => Known(at)'
    BY <1>12, <1>9 DEF Known, FetchAnchorData
  <2> QED
    BY <1>12, <2>1 DEF HeldInv, NoneHeld
<1>19. RevealedInv'
  <2>1. entries' = entries /\ revealed' = revealed /\ faults' = faults
    BY <1>1, <1>13
  <2>2. ASSUME NEW r \in revealed, r.epoch = faults
        PROVE  Known(entries[r.id].h)'
               /\ anchorData'[entries[r.id].h][entries[r.id].net].entry # 0
    <3>1. PICK k \in Height, m \in Networks :
            k = entries[r.id].h /\ m = entries[r.id].net
      BY RecordTypes DEF RecordInv
    <3>2. /\ Known(k)
          /\ anchorData[k][m].entry # 0 \/ (at = k /\ held[m] # 0)
      BY <2>2, <3>1 DEF RecordInv, RevealedInv
    <3>3. Known(k)' /\ anchorData'[k][m].entry # 0
      BY <3>2, <1>9, <1>11
    <3> QED
      BY <2>1, <3>1, <3>3 DEF Known, FetchAnchorData
  <2>3. \A r \in revealed : r.epoch <= faults
    BY DEF RecordInv, RevealedInv
  <2> QED
    BY <2>1, <2>2, <2>3 DEF RevealedInv
<1> QED
  BY <1>9, <1>10, <1>14, <1>15, <1>16, <1>17, <1>18, <1>19 DEF RecordInv

\* What was revealed is forgotten with its reply: the failure counts as one.
LEMMA RevealReplyLostKeeps ==
    ASSUME RecordInv, RevealReplyLost
    PROVE  RecordInv'
<1>1. /\ pc = "saving" /\ Fault("lostReply", "loop") /\ ForgetSaving
      /\ UNCHANGED <<anchorData, chainHead, lastFactom, lastBitcoin>>
  BY DEF RevealReplyLost, dbVars
<1>2. PICK n \in Networks : Turn(n) /\ Reveal(n)
  BY DEF RevealReplyLost
<1> DEFINE new == Len(entries) + 1
<1>3. /\ FactomTypeOK'
      /\ Len(entries') = new
      /\ DOMAIN entries' = DOMAIN entries \cup {new}
      /\ new \notin DOMAIN entries
      /\ \A id \in DOMAIN entries : entries'[id] = entries[id]
      /\ revealed' = revealed \cup {[id |-> new, epoch |-> faults]}
      /\ RevealedOncePerFault' /\ EntriesNameAnchors'
  BY <1>1, <1>2, RevealOfTurn
<1>4. Len(entries) \in Nat /\ faults \in 0..MaxFaults /\ MaxFaults \in Nat
  BY RecordTypes DEF RecordInv
<1>5. ProcessTypeOK' /\ pc' = "loop" /\ faults' = faults + 1
  BY <1>1, ProcessSteps DEF RecordInv, RecordTypeInv, PCs, Fault
<1>6. \A h : Known(h)' <=> Known(h)
  BY <1>1 DEF Known, FetchAnchorData
<1>7. held' = NoneHeld /\ \A m \in Networks : held'[m] = 0
  BY <1>1 DEF ForgetSaving, NoneHeld
<1>8. RecordTypeInv'
  <2>1. DatabaseTypeOK'
    BY <1>1 DEF RecordInv, RecordTypeInv, DatabaseTypeOK
  <2>2. revealed' \subseteq [id: DOMAIN entries', epoch: 0..MaxFaults]
    BY <1>3, <1>4 DEF RecordInv, RecordTypeInv
  <2>3. at' \in Height /\ batch' \in 0..AnchorBatch
    BY <1>1, NoLocals DEF ForgetSaving
  <2>4. held' \in [Networks -> 0..Len(entries')]
    BY <1>3, <1>4, <1>7 DEF NoneHeld
  <2> QED
    BY <1>3, <1>5, <2>1, <2>2, <2>3, <2>4 DEF RecordTypeInv
<1> HIDE DEF new
<1>9. AnchorsInOrder'
  BY <1>1, <1>3, <1>6 DEF RecordInv, AnchorsInOrder, FilledInOrder
<1>10. EntryIsAboutAnchor'
  BY <1>1, <1>3, <1>6 DEF RecordInv, AnchorsInOrder, FilledInOrder, EntryIsAboutAnchor
<1>11. HeldInv'
  BY <1>5, <1>7 DEF HeldInv
<1>12. RevealedInv'
  BY <1>3, <1>4, <1>5, RecordTypes DEF RecordInv, RevealedInv
<1> QED
  BY <1>3, <1>8, <1>9, <1>10, <1>11, <1>12 DEF RecordInv

\* The hashes in memory are lost.
LEMMA HashesLostKeeps ==
    ASSUME RecordInv, HashesLost
    PROVE  RecordInv'
<1>1. /\ Fault("unsaved", "loop") /\ ForgetSaving
      /\ UNCHANGED <<anchorData, chainHead, lastFactom, lastBitcoin, entries, pending,
                     dblocks, revealed>>
  BY DEF HashesLost, dbVars, factomVars
<1>2. ProcessTypeOK' /\ pc' = "loop" /\ faults' = faults + 1
  BY <1>1, ProcessSteps DEF RecordInv, RecordTypeInv, PCs, Fault
<1>3. DatabaseTypeOK' /\ FactomTypeOK'
  BY <1>1 DEF RecordInv, RecordTypeInv, DatabaseTypeOK, FactomTypeOK
<1>4. \A h \in Height : Known(h)' => Known(h) /\ anchorData'[h] = anchorData[h]
  BY <1>1 DEF Known, FetchAnchorData
<1> QED
  BY <1>1, <1>2, <1>3, <1>4, CallLost

\* The steps of SaveAnchorsIntoFactom and its failures.
LEMMA SavingKeeps ==
    ASSUME RecordInv, SaveAnchorsIntoFactom \/ FactomRecordFailures
    PROVE  RecordInv'
<1>1. CASE BeginSaving
  BY <1>1, BeginSavingKeeps
<1>2. CASE SendRecord
  BY <1>2, SendRecordKeeps
<1>3. CASE SaveHashes
  BY <1>3, SaveHashesKeeps
<1>4. CASE PassOver
  BY <1>4, AdvanceKeeps DEF PassOver
<1>5. CASE BatchFull
  <2>1. held = NoneHeld
    BY <1>5, NothingHeld, RecordTypes DEF BatchFull, RecordInv, HeldInv
  <2> QED
    BY <1>5, <2>1, EndKeeps DEF BatchFull
<1>6. CASE SavingFails
  <2>1. held = NoneHeld
    BY <1>6, NothingHeld DEF SavingFails, RecordInv, HeldInv
  <2> QED
    BY <1>6, <2>1, EndKeeps DEF SavingFails
<1>7. CASE RevealReplyLost
  BY <1>7, RevealReplyLostKeeps
<1>8. CASE HashesLost
  BY <1>8, HashesLostKeeps
<1> QED
  BY <1>1, <1>2, <1>3, <1>4, <1>5, <1>6, <1>7, <1>8
     DEF SaveAnchorsIntoFactom, FactomRecordFailures

-----------------------------------------------------------------------------
(* SaveAnchorsIntoFactom in its own environment. *)

LEMMA RecordInit == FactomRecordInit => RecordInv
<1> SUFFICES ASSUME FactomRecordInit PROVE RecordInv
  OBVIOUS
<1> USE DEF FactomRecordInit, FactomInit, DatabaseInit
<1>1. /\ \A h \in Height : ~Known(h)
      /\ DatabaseTypeOK
  BY DatabaseAssumption DEF Known, FetchAnchorData, DatabaseTypeOK, Height
<1>2. entries = <<>> /\ DOMAIN entries = {} /\ Len(entries) = 0
  OBVIOUS
<1>3. FactomTypeOK
  BY DatabaseAssumption DEF FactomTypeOK
<1>4. ProcessTypeOK
  <2>1. pc \in PCs /\ progress \in BOOLEAN
    BY DEF PCs
  <2>2. faults \in 0..MaxFaults /\ errors \in 0..MaxErrors
    BY FaultAssumption
  <2> QED
    BY <2>1, <2>2 DEF ProcessTypeOK
<1>5. at \in Height /\ batch \in 0..AnchorBatch
  BY DatabaseAssumption, FaultAssumption DEF Height
<1>6. held \in [Networks -> 0..Len(entries)] /\ \A n \in Networks : held[n] = 0
  BY <1>2 DEF NoneHeld
<1>7. RecordTypeInv
  BY <1>1, <1>3, <1>4, <1>5, <1>6 DEF RecordTypeInv
<1> QED
  BY <1>1, <1>2, <1>6, <1>7
     DEF RecordInv, EntriesNameAnchors, AnchorsInOrder, HeldInv, EntryIsAboutAnchor,
         RevealedInv, RevealedOncePerFault

\* What the environment does between two calls.
LEMMA EnvironmentKeeps ==
    ASSUME RecordInv, RestOfLoop \/ RecordFound \/ DropEntry \/ SaveAgain
    PROVE  RecordInv'
<1> USE DEF RecordInv
<1>1. CASE RestOfLoop
  <2>1. /\ pc = "loop" /\ pc' = pc /\ faults' = faults
        /\ UNCHANGED <<entries, recordVars>>
        /\ ProcessTypeOK' /\ FactomTypeOK'
    BY <1>1 DEF RestOfLoop, processVars, factomVars, RecordTypeInv, ProcessTypeOK,
                FactomTypeOK
  <2>2. CASE BlockAppears
    <3>1. PICK h \in Height : ~Known(h) /\ InsertAnchorData(h, NewAnchorData)
      BY <2>2 DEF BlockAppears
    <3>2. DatabaseTypeOK'
      BY <2>2, <3>1, RecordTypes, InsertType, NewAnchorDataType
         DEF BlockAppears, RecordTypeInv, DatabaseTypeOK
    <3> QED
      BY <2>1, <3>1, <3>2, OthersLearn
  <2>3. CASE AnchorConfirmed
    <3>1. PICK h \in Height, n \in Networks :
            /\ Known(h) /\ anchorData[h][n].block = 0 /\ anchorData[h][n].rec = 0
            /\ InsertAnchorData(h, [anchorData[h] EXCEPT ![n].txid = 1, ![n].block = 1])
      BY <2>3 DEF AnchorConfirmed
    <3> DEFINE a == [anchorData[h][n] EXCEPT !.txid = 1, !.block = 1]
    <3>2. anchorData[h][n] \in NetAnchor /\ anchorData[h] \in AnchorData
      BY <3>1, RecordTypes, AnchorType, KnownData
    <3>3. [anchorData[h] EXCEPT ![n].txid = 1, ![n].block = 1]
            = [anchorData[h] EXCEPT ![n] = a]
      BY <3>2 DEF AnchorData
    <3>4. /\ a \in NetAnchor /\ a.txid = 1 /\ a.block = 1 /\ a.rec = 0
          /\ a.entry = anchorData[h][n].entry
      BY <3>1, <3>2 DEF NetAnchor
    <3>5. anchorData[h][n].entry = 0
      BY <3>1 DEF AnchorsInOrder, FilledInOrder
    <3> HIDE DEF a
    <3>6. FilledInOrder(a)
      BY <3>4, <3>5 DEF FilledInOrder
    <3>7. DatabaseTypeOK'
      BY <2>3, <3>1, <3>3, <3>4, RecordTypes, OneAnchor
         DEF AnchorConfirmed, RecordTypeInv, DatabaseTypeOK
    <3> QED
      BY <2>1, <3>1, <3>3, <3>4, <3>5, <3>6, <3>7, OthersFillIn
  <2>4. CASE HeadMoves
    <3>1. anchorData' = anchorData /\ DatabaseTypeOK'
      BY <2>4, DatabaseAssumption
         DEF HeadMoves, UpdateAnchorDataHead, RecordTypeInv, DatabaseTypeOK, Height
    <3> QED
      BY <2>1, <3>1, OthersMove
  <2> QED
    BY <1>1, <2>2, <2>3, <2>4 DEF RestOfLoop
<1>2. CASE RecordFound
  <2>1. PICK id \in pending :
            /\ Known(entries[id].h)
            /\ InsertAnchorData(entries[id].h,
                 [anchorData[entries[id].h] EXCEPT ![entries[id].net] =
                    [txid |-> entries[id].txid, block |-> entries[id].block,
                     entry |-> id, rec |-> MaxHeight]])
            /\ pending' = pending \ {id}
    BY <1>2 DEF RecordFound
  <2>2. /\ pc = "loop" /\ UNCHANGED <<pc, faults, errors, progress, chainHead, lastFactom,
                                      lastBitcoin, entries, dblocks, recordVars>>
    BY <1>2 DEF RecordFound, processVars
  <2>3. id \in DOMAIN entries /\ id \in Nat \ {0} /\ entries[id] \in Entry
    BY RecordTypes DEF RecordTypeInv, FactomTypeOK
  <2>4. PICK h \in Height, n \in Networks, a \in NetAnchor :
            /\ h = entries[id].h /\ n = entries[id].net
            /\ a = [txid |-> entries[id].txid, block |-> entries[id].block,
                    entry |-> id, rec |-> MaxHeight]
    <3>1. /\ entries[id].h \in Height /\ entries[id].net \in Networks
          /\ entries[id].txid \in Nat /\ entries[id].block \in Nat
      BY <2>3 DEF Entry
    <3>2. MaxHeight \in Height
      BY DatabaseAssumption DEF Height
    <3>3. [txid |-> entries[id].txid, block |-> entries[id].block, entry |-> id,
           rec |-> MaxHeight] \in NetAnchor
      BY <2>3, <3>1, <3>2 DEF NetAnchor
    <3> QED
      BY <3>1, <3>3
  <2>5. FilledInOrder(a) /\ About(id, h, n, a) /\ a.entry = id
    BY <2>3, <2>4 DEF FilledInOrder, About, EntriesNameAnchors
  <2>6. Known(h) /\ InsertAnchorData(h, [anchorData[h] EXCEPT ![n] = a])
    BY <2>1, <2>4
  <2>7. ProcessTypeOK' /\ DatabaseTypeOK' /\ FactomTypeOK'
    BY <2>1, <2>2, <2>6, RecordTypes, OneAnchor
       DEF RecordTypeInv, DatabaseTypeOK, ProcessTypeOK, FactomTypeOK
  <2> QED
    BY <2>2, <2>3, <2>5, <2>6, <2>7, OthersFillIn
<1>3. CASE DropEntry
  <2>1. /\ UNCHANGED <<pc, faults, errors, progress, anchorData, chainHead, lastFactom,
                       lastBitcoin, entries, dblocks, recordVars>>
        /\ pending' \subseteq pending
    BY <1>3 DEF DropEntry, processVars, dbVars
  <2>2. ProcessTypeOK' /\ DatabaseTypeOK' /\ FactomTypeOK'
    BY <2>1 DEF RecordTypeInv, DatabaseTypeOK, ProcessTypeOK, FactomTypeOK
  <2> QED
    BY <2>1, <2>2, OthersMove
<1>4. CASE SaveAgain
  <2>1. /\ UNCHANGED <<faults, errors, progress, anchorData, chainHead, lastFactom,
                       lastBitcoin, entries, pending, dblocks, recordVars>>
        /\ pc = "loop" /\ pc' = "save"
    BY <1>4 DEF SaveAgain, Normally, Goto, dbVars, factomVars
  <2>2. ProcessTypeOK' /\ DatabaseTypeOK' /\ FactomTypeOK'
    BY <2>1 DEF RecordTypeInv, DatabaseTypeOK, ProcessTypeOK, FactomTypeOK, PCs, SaveSteps
  <2> QED
    BY <2>1, <2>2, OthersMove
<1> QED
  BY <1>1, <1>2, <1>3, <1>4

\* The process dies and is started again.
LEMMA RecordRestartKeeps ==
    ASSUME RecordInv, RecordRestart
    PROVE  RecordInv'
<1> USE DEF RecordInv, RecordRestart
<1>1. ProcessTypeOK' /\ pc' = "loop" /\ faults' = faults + 1
  BY ProcessSteps DEF RecordTypeInv, PCs, Fault
<1>2. DatabaseTypeOK' /\ FactomTypeOK' /\ UNCHANGED <<entries, revealed>>
  BY ReopenType DEF RecordTypeInv, factomVars, FactomTypeOK
<1>3. \A h \in Height : Known(h)' => Known(h) /\ anchorData'[h] = anchorData[h]
  BY DEF ReopenDatabase, Known, FetchAnchorData, dbVars
<1> QED
  BY <1>1, <1>2, <1>3, CallLost

\* Every step keeps the invariant.
LEMMA RecordNext ==
    ASSUME RecordInv, [FactomRecordNext]_factomRecordVars
    PROVE  RecordInv'
<1>1. CASE UNCHANGED factomRecordVars
  <2>1. UNCHANGED <<pc, faults, errors, progress, anchorData, chainHead, lastFactom,
                    lastBitcoin, entries, pending, dblocks, recordVars>>
    BY <1>1 DEF factomRecordVars, processVars, dbVars, factomVars
  <2>2. ProcessTypeOK' /\ DatabaseTypeOK' /\ FactomTypeOK'
    BY <2>1 DEF RecordInv, RecordTypeInv, DatabaseTypeOK, ProcessTypeOK, FactomTypeOK
  <2> QED
    BY <2>1, <2>2, OthersMove
<1> QED
  BY <1>1, SavingKeeps, EnvironmentKeeps, RecordRestartKeeps DEF FactomRecordNext

-----------------------------------------------------------------------------
(* The theorems. *)

\* The inductive invariant of SaveAnchorsIntoFactom.
THEOREM RecordInvariance == FactomRecordSpec => []RecordInv
<1>1. FactomRecordInit => RecordInv
  BY RecordInit
<1>2. RecordInv /\ [FactomRecordNext]_factomRecordVars => RecordInv'
  BY RecordNext
<1> QED
  BY <1>1, <1>2, PTL DEF FactomRecordSpec

\* What is saved as the entry of an anchor is about that anchor, whichever calls
\* fail, however the rest of the loop fills the AnchorData in the meantime.
THEOREM SavedEntriesAreAboutTheirAnchor == FactomRecordSpec => []EntryIsAboutAnchor
<1>1. RecordInv => EntryIsAboutAnchor
  BY DEF RecordInv
<1> QED
  BY <1>1, RecordInvariance, PTL

\* SaveAnchorsIntoFactom reveals a second record of an anchor only after a failure
\* that lost the first one.
THEOREM OneRecordPerFault == FactomRecordSpec => []RevealedOncePerFault
<1>1. RecordInv => RevealedOncePerFault
  BY DEF RecordInv
<1> QED
  BY <1>1, RecordInvariance, PTL
=============================================================================

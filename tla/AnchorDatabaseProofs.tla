------------------------ MODULE AnchorDatabaseProofs ------------------------
(***************************************************************************)
(* What the proofs about the components share: the types of the process    *)
(* and of the database, what a step does to them, and a few facts of       *)
(* positions in sequences.                                                 *)
(***************************************************************************)
EXTENDS AnchorProcess, AnchorDatabase, Sequences, FiniteSetsExt, TLAPS,
        WellFoundedInduction

-----------------------------------------------------------------------------
(* The process. *)

\* How a step of the process moves its control point and counts.
LEMMA ProcessSteps ==
    ASSUME ProcessTypeOK, NEW l \in PCs
    PROVE  /\ Normally(l) /\ progress' \in BOOLEAN => ProcessTypeOK' /\ pc' = l
           /\ Failed(l) => ProcessTypeOK' /\ pc' = l
           /\ \A k : Fault(k, l) => ProcessTypeOK' /\ pc' = l
BY FaultAssumption DEF ProcessTypeOK, Normally, Failed, Fault, Goto

\* A step that loses nothing: it fails no call, or one without an effect.
LEMMA ProcessGoesOn ==
    ASSUME ProcessTypeOK, NEW l \in PCs,
           (Normally(l) /\ UNCHANGED progress) \/ Failed(l)
    PROVE  ProcessTypeOK' /\ pc' = l /\ faults' = faults
BY ProcessSteps DEF ProcessTypeOK, Normally, Failed


-----------------------------------------------------------------------------
(* The database. *)

\* The AnchorData of a new block is well typed.
LEMMA NewAnchorDataType == NewAnchorData \in AnchorData
BY DatabaseAssumption DEF NewAnchorData, AnchorData, NetAnchor, Height

\* A well-typed AnchorData put in the place of another keeps the type.
LEMMA InsertType ==
    ASSUME NEW h, NEW ad \in AnchorData,
           anchorData \in [Height -> AnchorData \cup {Nil}],
           InsertAnchorData(h, ad)
    PROVE  anchorData' \in [Height -> AnchorData \cup {Nil}]
BY DEF InsertAnchorData

\* Known blocks have heights and AnchorData.
LEMMA KnownData ==
    ASSUME NEW h, Known(h), anchorData \in [Height -> AnchorData \cup {Nil}]
    PROVE  /\ h \in Height
           /\ FetchAnchorData(h) = anchorData[h]
           /\ anchorData[h] \in AnchorData
BY DEF Known, FetchAnchorData

\* A new process starts at the stored checkpoint or at 0.
LEMMA ReopenType ==
    ASSUME DatabaseTypeOK, ReopenDatabase
    PROVE  DatabaseTypeOK' /\ lastFactom' \in {0, lastFactom}
BY DatabaseAssumption DEF DatabaseTypeOK, ReopenDatabase, dbVars, Height

\* The anchor in one network, of one known block, is replaced; all else is kept.
LEMMA OneAnchor ==
    ASSUME anchorData \in [Height -> AnchorData \cup {Nil}],
           NEW h, Known(h), NEW n \in Networks, NEW a \in NetAnchor,
           InsertAnchorData(h, [anchorData[h] EXCEPT ![n] = a])
    PROVE  /\ anchorData' \in [Height -> AnchorData \cup {Nil}]
           /\ \A k \in Height : Known(k)' <=> Known(k)
           /\ \A k \in Height, m \in Networks : Known(k) =>
                anchorData'[k][m] = IF k = h /\ m = n THEN a ELSE anchorData[k][m]
<1> DEFINE ad == [anchorData[h] EXCEPT ![n] = a]
<1>1. h \in Height /\ anchorData[h] \in AnchorData
  BY KnownData
<1>2. /\ ad \in AnchorData
      /\ \A m \in Networks : ad[m] = IF m = n THEN a ELSE anchorData[h][m]
  BY <1>1 DEF AnchorData
<1> HIDE DEF ad
<1>3. /\ anchorData' \in [Height -> AnchorData \cup {Nil}]
      /\ \A k \in Height : anchorData'[k] = IF k = h THEN ad ELSE anchorData[k]
  BY <1>1, <1>2 DEF InsertAnchorData, ad
<1>4. ad # Nil /\ anchorData[h] # Nil
  BY <1>1, <1>2, NilAssumption
<1> QED
  BY <1>1, <1>2, <1>3, <1>4 DEF Known, FetchAnchorData

\* A block that was not known gets an empty AnchorData; all else is kept.
LEMMA OneBlock ==
    ASSUME anchorData \in [Height -> AnchorData \cup {Nil}],
           NEW h \in Height, ~Known(h), InsertAnchorData(h, NewAnchorData)
    PROVE  /\ anchorData' \in [Height -> AnchorData \cup {Nil}]
           /\ \A k \in Height : Known(k)' <=> Known(k) \/ k = h
           /\ \A m \in Networks :
                anchorData'[h][m] = [txid |-> 0, block |-> 0, entry |-> 0, rec |-> 0]
           /\ \A k \in Height : Known(k) =>
                k # h /\ anchorData'[k] = anchorData[k]
<1>1. /\ anchorData' \in [Height -> AnchorData \cup {Nil}]
      /\ \A k \in Height :
            anchorData'[k] = IF k = h THEN NewAnchorData ELSE anchorData[k]
  BY NewAnchorDataType DEF InsertAnchorData
<1>2. NewAnchorData # Nil
  BY NewAnchorDataType, NilAssumption
<1>3. \A m \in Networks :
        NewAnchorData[m] = [txid |-> 0, block |-> 0, entry |-> 0, rec |-> 0]
  BY DEF NewAnchorData
<1> QED
  BY <1>1, <1>2, <1>3 DEF Known, FetchAnchorData

\* What is in the AnchorData of a known block.
LEMMA AnchorType ==
    ASSUME anchorData \in [Height -> AnchorData \cup {Nil}],
           NEW h, Known(h), NEW n \in Networks
    PROVE  /\ anchorData[h][n] \in NetAnchor
           /\ anchorData[h][n].txid \in Nat /\ anchorData[h][n].block \in Nat
           /\ anchorData[h][n].entry \in Nat /\ anchorData[h][n].rec \in Height
<1>1. anchorData[h] \in [Networks -> NetAnchor]
  BY KnownData DEF AnchorData
<1>2. anchorData[h][n] \in NetAnchor
  BY <1>1
<1> QED
  BY <1>2 DEF NetAnchor

-----------------------------------------------------------------------------
(* Sequences and their positions. *)

\* The elements of a sequence; a sequence over a set is one over a greater set.
LEMMA ElementType ==
    ASSUME NEW S, NEW s \in Seq(S), NEW i \in DOMAIN s
    PROVE  s[i] \in S
OBVIOUS

LEMMA WiderType ==
    ASSUME NEW S, NEW T, S \subseteq T, NEW s \in Seq(S)
    PROVE  s \in Seq(T)
OBVIOUS

\* A set of positions has a greatest one.
LEMMA MaxOfPositions ==
    ASSUME NEW n \in Nat, NEW S \in SUBSET (1..n), S # {}
    PROVE  Max(S) \in S /\ \A y \in S : y <= Max(S)
<1> DEFINE T == {y \in Nat : n - y \in S}
<1>1. T # {}
  <2>1. PICK x \in S : TRUE
    OBVIOUS
  <2>2. n - x \in Nat /\ n - (n - x) = x
    OBVIOUS
  <2> QED
    BY <2>1, <2>2
<1>2. PICK m \in T : \A y \in T : ~(<<y, m>> \in OpToRel(<, Nat))
  <2>1. T \subseteq Nat
    OBVIOUS
  <2> QED
    BY <1>1, <2>1, WFMin, NatLessThanWellFounded
<1>3. \A y \in T : m <= y
  <2> TAKE y \in T
  <2>1. y \in Nat /\ m \in Nat /\ ~(y < m)
    BY <1>2 DEF OpToRel
  <2> QED
    BY <2>1
<1>4. m \in Nat /\ n - m \in S
  OBVIOUS
<1>5. \A y \in S : n - m >= y
  <2> TAKE y \in S
  <2>1. n - y \in Nat /\ n - (n - y) = y
    OBVIOUS
  <2>2. m <= n - y
    BY <1>3, <2>1
  <2> QED
    BY <1>4, <2>1, <2>2
<1> HIDE DEF T
<1>6. Max(S) \in S /\ \A y \in S : Max(S) >= y
  BY <1>4, <1>5 DEF Max
<1> QED
  BY <1>6
=============================================================================

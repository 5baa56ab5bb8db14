------------------------------ MODULE OpReturn ------------------------------
(***************************************************************************)
(* The OP_RETURN payload of an anchor transaction (bitcoin/tx.go): "Fa",   *)
(* six big-endian bytes of the directory block height, and the KeyMR; and  *)
(* what is read back from the script of a listed transaction.              *)
(***************************************************************************)
EXTENDS Integers

CONSTANT Base   \* values of a byte: 256 in the program

ASSUME BaseAssumption == Base \in Nat \ {0, 1}

Byte == 0..(Base - 1)
U32 == 0..(Base * Base * Base * Base - 1)

\* Mutant of BigEndian: the slice starts one byte early.
BigEndianShifted(h) ==
    << 0, 0, 0, h \div (Base * Base * Base), (h \div (Base * Base)) % Base,
       (h \div Base) % Base >>

\* big[2:8] of PutUint64: a uint32 leaves the first two of the six bytes 0.
BigEndian(h) ==
    << 0, 0, h \div (Base * Base * Base), (h \div (Base * Base)) % Base,
       (h \div Base) % Base, h % Base >>

PrependBlockHeight(h, keyMR) ==
    [tag |-> "Fa", height |-> BigEndian(h), keyMR |-> keyMR]

\* bitcoind makes the output of the payload: OP_RETURN and a push of 40 bytes.
ScriptOf(data) == [op |-> "6a28", data |-> data]

\* strconv.ParseInt of the twelve digits
ParseInt(b) ==
    ((((b[1] * Base + b[2]) * Base + b[3]) * Base + b[4]) * Base + b[5]) * Base + b[6]

\* A script without the prefix has no parts; a height is cut to 32 bits.
OpReturnScriptToParts(script) ==
    IF script.op # "6a28" \/ script.data.tag # "Fa"
    THEN [height |-> 0, keyMR |-> ""]
    ELSE [height |-> ParseInt(script.data.height) % (Base * Base * Base * Base),
          keyMR |-> script.data.keyMR]
=============================================================================

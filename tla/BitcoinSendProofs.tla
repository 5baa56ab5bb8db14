-------------------------- MODULE BitcoinSendProofs --------------------------
(***************************************************************************)
(* Proofs about one call of SendRawTransactionToBTC after another          *)
(* (BitcoinSend), for any wallet, fee rates and failures: types, the coins *)
(* that are spent, the lock, the balance, what the caller relies on; and   *)
(* about the OP_RETURN it sends (OpReturn): what is put into it is what is *)
(* read back, for every height a uint32 holds and every size of a byte.    *)
(***************************************************************************)
EXTENDS BitcoinSend, FiniteSetTheorems, WellFoundedInduction, TLAPS

-----------------------------------------------------------------------------
(* Division. *)

\* A difference taken apart.
LEMMA Difference ==
    ASSUME NEW p \in Int, NEW m \in Int, NEW x \in Int, m = x - p
    PROVE  x = p + m
OBVIOUS

\* Division with a remainder.
LEMMA Euclid ==
    ASSUME NEW d \in Nat \ {0}, NEW x \in Nat
    PROVE  /\ x \div d \in Nat /\ x % d \in 0..(d - 1)
           /\ x = (x \div d) * d + (x % d)
<1>1. x \div d \in Nat
  OBVIOUS
<1>2. x % d \in 0..(d - 1)
  OBVIOUS
<1>3. x % d = x - d * (x \div d)
  BY Z3T(30)
<1>4. d * (x \div d) = (x \div d) * d /\ d * (x \div d) \in Int
  BY <1>1
<1>5. x \in Int /\ x % d \in Int
  BY <1>2
<1>6. x = d * (x \div d) + (x % d)
  BY <1>3, <1>4, <1>5, Difference, Zenon
<1> QED
  BY <1>1, <1>2, <1>4, <1>6, Zenon

\* A number is the quotient if what is left is a remainder.
LEMMA Quotient ==
    ASSUME NEW d \in Nat \ {0}, NEW q \in Nat, NEW r \in 0..(d - 1), NEW x \in Nat,
           x = d * q + r
    PROVE  x \div d = q
OBVIOUS

\* To divide by a product is to divide by its factors in turn.
LEMMA Nested ==
    ASSUME NEW d \in Nat \ {0}, NEW e \in Nat \ {0}, NEW x \in Nat
    PROVE  x \div (d * e) = (x \div d) \div e
<1> DEFINE q == x \div d
           r == x % d
           p == q \div e
           s == q % e
<1>1. q \in Nat /\ r \in 0..(d - 1) /\ x = q * d + r
  BY Euclid
<1>2. p \in Nat /\ s \in 0..(e - 1) /\ q = p * e + s
  BY <1>1, Euclid
<1> HIDE DEF q, r, p, s
<1>3. d * e \in Nat \ {0}
  <2>1. d * e >= 1
    OBVIOUS
  <2> QED
    BY <2>1
<1>4. x = (d * e) * p + (s * d + r)
  BY <1>1, <1>2
<1>5. s * d + r \in 0..(d * e - 1)
  <2>1. s * d >= 0 /\ s * d \in Int
    BY <1>2
  <2>2. s * d <= (e - 1) * d
    BY <1>2
  <2>3. (e - 1) * d = d * e - d
    OBVIOUS
  <2>4. d * e \in Int
    OBVIOUS
  <2> QED
    BY <1>1, <2>1, <2>2, <2>3, <2>4
<1>6. x \div (d * e) = p
  <2> DEFINE m == d * e
             t == s * d + r
  <2>1. m \in Nat \ {0} /\ t \in 0..(m - 1) /\ x = m * p + t
    BY <1>3, <1>4, <1>5
  <2> HIDE DEF m, t
  <2>2. x \div m = p
    BY <1>2, <2>1, Quotient
  <2> QED
    BY <2>2 DEF m
<1> QED
  BY <1>6 DEF p, q

-----------------------------------------------------------------------------
(* The height. *)

\* Four digits of a number make up the number.
LEMMA FourDigits ==
    ASSUME NEW B \in Nat \ {0, 1}, NEW n \in 0..(B * B * B * B - 1)
    PROVE  LET b1 == n \div (B * B * B)
               b2 == (n \div (B * B)) % B
               b3 == (n \div B) % B
               b4 == n % B
           IN  /\ b1 \in Nat
               /\ ((b1 * B + b2) * B + b3) * B + b4 = n
               /\ n % (B * B * B * B) = n
<1> DEFINE q1 == n \div B
           q2 == q1 \div B
           q3 == q2 \div B
           r0 == n % B
           r1 == q1 % B
           r2 == q2 % B
<1>1. n \in Nat /\ B \in Nat \ {0} /\ B * B \in Nat \ {0}
  <2>1. B * B >= B
    OBVIOUS
  <2>2. B * B * B * B \in Int
    OBVIOUS
  <2> QED
    BY <2>1, <2>2
<1>2. q1 \in Nat /\ n = q1 * B + r0
  BY <1>1, Euclid
<1>3. q2 \in Nat /\ q1 = q2 * B + r1
  BY <1>1, <1>2, Euclid
<1>4. q3 \in Nat /\ q2 = q3 * B + r2
  BY <1>1, <1>3, Euclid
<1>5. n \div (B * B) = q2
  BY <1>1, Nested
<1>6. n \div (B * B * B) = q3
  BY <1>1, <1>5, Nested
<1>7. n % (B * B * B * B) = n
  <2> DEFINE m == B * B * B * B
  <2>1. m \in Nat \ {0} /\ n \in 0..(m - 1)
    <3>1. B * B * B * B \in Int
      OBVIOUS
    <3> QED
      BY <3>1, <1>1
  <2> HIDE DEF m
  <2>2. n % m = n
    BY <2>1
  <2> QED
    BY <2>2 DEF m
<1>8. ((q3 * B + r2) * B + r1) * B + r0 = n
  BY <1>2, <1>3, <1>4
<1> QED
  BY <1>4, <1>5, <1>6, <1>7, <1>8, Zenon

\* strconv.ParseInt reads the digits PutUint64 wrote, and a uint32 is not cut.
LEMMA HeightReadBack ==
    ASSUME NEW n \in U32
    PROVE  ParseInt(BigEndian(n)) % (Base * Base * Base * Base) = n
<1> DEFINE b1 == n \div (Base * Base * Base)
           b2 == (n \div (Base * Base)) % Base
           b3 == (n \div Base) % Base
           b4 == n % Base
<1>1. /\ b1 \in Nat
      /\ ((b1 * Base + b2) * Base + b3) * Base + b4 = n
      /\ n % (Base * Base * Base * Base) = n
  BY BaseAssumption, FourDigits, Zenon DEF U32
<1>2. BigEndian(n) = <<0, 0, b1, b2, b3, b4>>
  BY Zenon DEF BigEndian
<1> HIDE DEF b1, b2, b3, b4
<1>3. ParseInt(BigEndian(n))
        = ((((0 * Base + 0) * Base + b1) * Base + b2) * Base + b3) * Base + b4
  BY <1>2 DEF ParseInt
<1>4. (0 * Base + 0) * Base + b1 = b1
  BY <1>1, BaseAssumption
<1> QED
  BY <1>1, <1>3, <1>4, Zenon

\* bitcoin/tx.go: what OpReturnScriptToParts reads is what prependBlockHeight was
\* given, for every height of a directory block.
THEOREM ReadBack ==
    ASSUME NEW n \in U32, NEW keyMR
    PROVE  OpReturnScriptToParts(ScriptOf(PrependBlockHeight(n, keyMR)))
             = [height |-> n, keyMR |-> keyMR]
<1> DEFINE data == PrependBlockHeight(n, keyMR)
<1>1. data.tag = "Fa" /\ data.height = BigEndian(n) /\ data.keyMR = keyMR
  BY Zenon DEF PrependBlockHeight
<1>2. ScriptOf(data).op = "6a28" /\ ScriptOf(data).data = data
  BY Zenon DEF ScriptOf
<1>3. OpReturnScriptToParts(ScriptOf(data))
        = [height |-> ParseInt(BigEndian(n)) % (Base * Base * Base * Base),
           keyMR |-> keyMR]
  BY <1>1, <1>2, Zenon DEF OpReturnScriptToParts
<1> QED
  BY <1>3, HeightReadBack, Zenon

-----------------------------------------------------------------------------
(* The inductive invariant. *)

\* The transactions are a sequence of something; the other variables have types
\* of their own.
TypeInv == BitcoinSendTypeOK /\ \E S : txs \in Seq(S)

\* Listed outputs and inputs were confirmed when they were listed.
OldCoins ==
    \A i \in list \cup used : coins[i].state # "unconfirmed"

\* A transaction spent what it says, and nothing unconfirmed.
InputsSpent ==
    \A i \in DOMAIN txs :
        /\ txs[i].unconfirmed = {}
        /\ txs[i].inputs \subseteq {c \in CoinIds : coins[c].state = "spent"}

SpendInv == OldCoins /\ InputsSpent /\ NoDoubleOrUnconfirmedSpend

\* The wallet is open for signing, or because a walletlock did not happen.
LockInv ==
    wallet = "open" => lockMissed \/ step \in {"sign", "lock"}

\* The script of a transaction was made from the height it was sent for.
ScriptInv ==
    \A i \in DOMAIN txs :
        /\ txs[i].h \in U32
        /\ txs[i].script = ScriptOf(PrependBlockHeight(txs[i].h, KeyMR(txs[i].h)))

\* What a set of the coins c adds up to.
SumOf(c, S) == MapThenSumSet(LAMBDA i : c[i].sat, S)

\* What was chosen adds up; fee and change are the whole of it once they are made.
BalanceInv ==
    /\ step = "list" => used = {}
    /\ list \cap used = {}
    /\ SumOf(coins, used) = total
    /\ step \in {"unlock", "sign", "lock", "send"} =>
        total = change + FeeFor(Cardinality(used))
    /\ \A i \in DOMAIN txs : SumOf(coins, txs[i].inputs) = txs[i].out + txs[i].fee

IInv == TypeInv /\ SpendInv /\ LockInv /\ ScriptInv /\ BalanceInv

-----------------------------------------------------------------------------
(* Operators. *)

\* The fee for a number of inputs is a number of satoshi.
LEMMA FeeType ==
    ASSUME NEW n \in Nat, rate \in Nat
    PROVE  FeeFor(n) \in Nat
BY DEF FeeFor, TxSize

\* Sets of coins are finite.
LEMMA CoinsFinite ==
    ASSUME BitcoinSendTypeOK, NEW S \in SUBSET CoinIds
    PROVE  Cardinality(S) \in Nat
<1>1. CoinIds = 1..Len(coins) /\ Len(coins) \in Nat
  BY DEF BitcoinSendTypeOK, CoinIds
<1>2. IsFiniteSet(CoinIds)
  BY <1>1, FS_Interval
<1> QED
  BY <1>2, FS_Subset, FS_CardinalityType

States == {"unconfirmed", "confirmed", "spent"}
Coin == [sat: Nat, state: States]

\* A function on an interval from 1 is a sequence.
LEMMA FunctionIsSeq ==
    ASSUME NEW S, NEW n \in Nat, NEW f \in [1..n -> S]
    PROVE  f \in Seq(S)
OBVIOUS

\* A coin in another state is a coin of the same value.
LEMMA SetState ==
    ASSUME NEW c \in Coin, NEW s \in States
    PROVE  /\ [c EXCEPT !.state = s] \in Coin
           /\ [c EXCEPT !.state = s].state = s
           /\ [c EXCEPT !.state = s].sat = c.sat
BY DEF Coin

\* The coins are a sequence of coins.
LEMMA CoinsType ==
    ASSUME BitcoinSendTypeOK
    PROVE  /\ coins \in Seq(Coin)
           /\ CoinIds = 1..Len(coins) /\ Len(coins) \in Nat
           /\ \A i \in CoinIds : coins[i] \in Coin
                /\ coins[i].sat \in Nat /\ coins[i].state \in States
<1>1. coins \in Seq(Coin) /\ CoinIds = 1..Len(coins) /\ Len(coins) \in Nat
  BY DEF BitcoinSendTypeOK, CoinIds, Coin, States
<1>2. \A i \in CoinIds : coins[i] \in Coin
  BY <1>1
<1> QED
  BY <1>1, <1>2 DEF Coin

\* One coin in another state leaves a sequence of coins.
LEMMA OneCoin ==
    ASSUME BitcoinSendTypeOK, NEW j \in CoinIds, NEW s \in States,
           coins' = [coins EXCEPT ![j].state = s]
    PROVE  /\ coins' \in Seq(Coin) /\ CoinIds' = CoinIds
           /\ coins'[j].state = s
           /\ \A i \in CoinIds \ {j} : coins'[i] = coins[i]
<1>1. [coins[j] EXCEPT !.state = s] \in Coin
      /\ [coins[j] EXCEPT !.state = s].state = s
  BY CoinsType, SetState
<1> DEFINE new == [coins[j] EXCEPT !.state = s]
<1>2. coins' = [coins EXCEPT ![j] = new]
  OBVIOUS
<1> HIDE DEF new
<1>3. coins' \in Seq(Coin) /\ Len(coins') = Len(coins) /\ coins'[j] = new
      /\ \A i \in CoinIds \ {j} : coins'[i] = coins[i]
  <2>1. new \in Coin
    BY <1>1 DEF new
  <2> QED
    BY <1>2, <2>1, CoinsType DEF CoinIds
<1>4. CoinIds' = CoinIds
  BY <1>3, CoinsType DEF CoinIds
<1> QED
  BY <1>1, <1>3, <1>4 DEF new

\* The coins after a transaction was taken: the inputs are spent and the change
\* is a new coin.
LEMMA BroadcastCoins ==
    ASSUME BitcoinSendTypeOK, Broadcast
    PROVE  /\ CoinIds' = CoinIds \cup {Len(coins) + 1}
           /\ coins' \in Seq(Coin)
           /\ \A i \in CoinIds : coins'[i] = IF i \in used
                                            THEN [coins[i] EXCEPT !.state = "spent"]
                                            ELSE coins[i]
<1> DEFINE old == [i \in CoinIds |->
                     IF i \in used THEN [coins[i] EXCEPT !.state = "spent"]
                     ELSE coins[i]]
          new == [sat |-> change, state |-> "unconfirmed"]
<1>1. coins \in Seq(Coin) /\ CoinIds = 1..Len(coins) /\ Len(coins) \in Nat
  BY CoinsType
<1>2. \A i \in CoinIds : old[i] \in Coin
  BY CoinsType, SetState DEF States
<1>3. old \in Seq(Coin) /\ Len(old) = Len(coins)
  <2>1. old \in [1..Len(coins) -> Coin]
    BY <1>1, <1>2
  <2> QED
    BY <1>1, <2>1
<1>4. new \in Coin
  BY DEF BitcoinSendTypeOK, Coin, States
<1>5. coins' = Append(old, new)
  BY DEF Broadcast
<1> HIDE DEF old, new
<1>6. /\ coins' \in Seq(Coin)
      /\ DOMAIN coins' = 1..(Len(coins) + 1)
      /\ \A i \in 1..Len(coins) : coins'[i] = old[i]
  BY <1>1, <1>3, <1>4, <1>5
<1>7. CoinIds' = CoinIds \cup {Len(coins) + 1}
  BY <1>1, <1>6 DEF CoinIds
<1> QED
  BY <1>1, <1>6, <1>7 DEF old

-----------------------------------------------------------------------------
(* Sums. *)

\* A nonempty set of natural numbers has a least element: the library's induction
\* on the natural numbers, for a set in the place of a predicate.
LEMMA LeastNat ==
    ASSUME NEW T, T \subseteq Nat, T # {}
    PROVE  \E n \in T : \A m \in T : n <= m
<1> DEFINE R == {p \in Nat \X Nat : p[1] < p[2]}
<1>1. R = OpToRel(<, Nat)
  BY DEF OpToRel
<1>2. IsWellFoundedOn(R, Nat)
  BY <1>1, NatLessThanWellFounded
<1>3. \A m, n \in Nat : <<m, n>> \in R <=> m < n
  OBVIOUS
<1> HIDE DEF R
<1>4. PICK n \in T : \A m \in T : ~ (<<m, n>> \in R)
  BY <1>2, WFMin
<1>5. \A m \in T : m \in Nat /\ n \in Nat /\ ~(m < n)
  BY <1>3, <1>4
<1>6. \A m \in T : n <= m
  BY <1>5
<1> QED
  BY <1>6

\* The satoshi of a set of coins, one by one.
Satoshi(c, S) == UNION {{i} \X (1..c[i].sat) : i \in S}

\* The numbers up to n are n.
LEMMA UpTo ==
    ASSUME NEW n \in Nat
    PROVE  IsFiniteSet(1..n) /\ Cardinality(1..n) = n
<1>1. Cardinality(1..n) = IF 1 > n THEN 0 ELSE n - 1 + 1
  BY FS_Interval
<1>2. IsFiniteSet(1..n)
  BY FS_Interval
<1> QED
  BY <1>1, <1>2

\* A finite set of coins has finitely many satoshi,
LEMMA SatoshiFinite ==
    ASSUME NEW c, NEW S, IsFiniteSet(S), \A i \in S : c[i].sat \in Nat
    PROVE  IsFiniteSet(Satoshi(c, S))
<1> DEFINE Of(i) == {i} \X (1..c[i].sat)
           f == [i \in S |-> Of(i)]
           A == {Of(i) : i \in S}
<1>1. f \in Surjection(S, A)
  BY DEF Surjection
<1>2. IsFiniteSet(A)
  <2> HIDE DEF f, A
  <2> QED
    BY <1>1, FS_Surjection
<1>3. ASSUME NEW i \in S PROVE IsFiniteSet(Of(i))
  <2>1. IsFiniteSet({i}) /\ IsFiniteSet(1..c[i].sat)
    BY <1>3, UpTo, FS_Singleton
  <2> QED
    BY <2>1, FS_Product
<1>4. \A T \in A : IsFiniteSet(T)
  BY <1>3
<1>5. IsFiniteSet(UNION A)
  <2> HIDE DEF A
  <2> QED
    BY <1>2, <1>4, FS_UNION
<1> QED
  BY <1>5 DEF Satoshi

\* and each coin adds its own.
LEMMA SatoshiAdd ==
    ASSUME NEW c, NEW S, IsFiniteSet(S), \A i \in S : c[i].sat \in Nat, NEW x \in S
    PROVE  /\ Cardinality(Satoshi(c, S)) \in Nat
           /\ Cardinality(Satoshi(c, S \ {x})) \in Nat
           /\ Cardinality(Satoshi(c, S)) = c[x].sat + Cardinality(Satoshi(c, S \ {x}))
<1> DEFINE X == {x} \X (1..c[x].sat)
           R == Satoshi(c, S \ {x})
<1>1. Satoshi(c, S) = X \cup R
  BY DEF Satoshi
<1>2. X \cap R = {}
  BY DEF Satoshi
<1>3. IsFiniteSet(X) /\ Cardinality(X) = c[x].sat
  <2>1. IsFiniteSet({x}) /\ Cardinality({x}) = 1
    BY FS_Singleton
  <2>2. IsFiniteSet(1..c[x].sat) /\ Cardinality(1..c[x].sat) = c[x].sat
    BY UpTo
  <2>3. IsFiniteSet(X) /\ Cardinality(X) = 1 * c[x].sat
    BY <2>1, <2>2, FS_Product
  <2> HIDE DEF X
  <2> QED
    BY <2>3
<1>4. IsFiniteSet(R)
  <2>1. IsFiniteSet(S \ {x})
    BY FS_RemoveElement
  <2> QED
    BY <2>1, SatoshiFinite
<1>5. Cardinality(R) \in Nat
  BY <1>4, FS_CardinalityType
<1> HIDE DEF X, R
<1>6. Cardinality(X \cup R) = Cardinality(X) + Cardinality(R) - Cardinality({})
  BY <1>2, <1>3, <1>4, FS_Union
<1>7. Cardinality({}) = 0
  BY FS_EmptySet
<1>8. Cardinality(Satoshi(c, S)) = c[x].sat + Cardinality(R)
  BY <1>1, <1>3, <1>5, <1>6, <1>7
<1> QED
  BY <1>5, <1>8 DEF R

\* The recursion that MapThenSumSet sums up with has one solution: the sum is the
\* number of satoshi.
LEMMA SumIsCount ==
    ASSUME NEW c, NEW S, IsFiniteSet(S), \A i \in S : c[i].sat \in Nat
    PROVE  SumOf(c, S) = Cardinality(Satoshi(c, S))
<1> DEFINE F(g) == [s \in SUBSET S |->
                       IF s = {} THEN 0
                       ELSE LET x == CHOOSE x \in s : TRUE IN c[x].sat + g[s \ {x}]]
           N == [s \in SUBSET S |-> Cardinality(Satoshi(c, s))]
           g == CHOOSE g : g = F(g)
<1>1. SumOf(c, S) = g[S]
  BY DEF SumOf, MapThenSumSet, MapThenFoldSet
<1>2. \A s \in SUBSET S : IsFiniteSet(s)
  BY FS_Subset
<1>3. Cardinality(Satoshi(c, {})) = 0
  BY FS_EmptySet DEF Satoshi
<1>4. ASSUME NEW s \in SUBSET S, s # {}, NEW x \in s
      PROVE  N[s] = c[x].sat + N[s \ {x}]
  BY <1>2, <1>4, SatoshiAdd
<1>5. N = F(N)
  <2> SUFFICES ASSUME NEW s \in SUBSET S
               PROVE  N[s] = IF s = {} THEN 0
                             ELSE LET x == CHOOSE x \in s : TRUE IN c[x].sat + N[s \ {x}]
    OBVIOUS
  <2>1. CASE s = {}
    BY <1>3, <2>1
  <2>2. CASE s # {}
    <3>1. PICK x : x = CHOOSE y \in s : TRUE
      OBVIOUS
    <3>2. x \in s
      BY <2>2, <3>1
    <3> QED
      BY <1>4, <2>2, <3>1, <3>2
  <2> QED
    BY <2>1, <2>2
<1>6. g = F(g)
  <2> HIDE DEF F, N
  <2> QED
    BY <1>5
<1>7. PICK sum : sum = g
  OBVIOUS
<1>8. \A s \in SUBSET S : s # {} => \E x \in s : sum[s] = c[x].sat + sum[s \ {x}]
  <2> SUFFICES ASSUME NEW s \in SUBSET S, s # {}
               PROVE  \E x \in s : sum[s] = c[x].sat + sum[s \ {x}]
    OBVIOUS
  <2>1. sum = F(sum)
    BY <1>6, <1>7
  <2>2. sum[s] = LET x == CHOOSE x \in s : TRUE IN c[x].sat + sum[s \ {x}]
    BY <2>1
  <2> QED
    BY <2>2
<1>9. sum[{}] = 0
  <2>1. sum = F(sum)
    BY <1>6, <1>7
  <2> QED
    BY <2>1
<1> DEFINE Wrong == {n \in Nat : \E s \in SUBSET S : Cardinality(s) = n /\ sum[s] # N[s]}
<1>10. Wrong = {}
  <2> SUFFICES ASSUME Wrong # {} PROVE FALSE
    OBVIOUS
  <2>1. PICK n \in Wrong : \A m \in Wrong : n <= m
    <3> HIDE DEF Wrong
    <3>1. Wrong \subseteq Nat
      BY DEF Wrong
    <3> QED
      BY <3>1, LeastNat
  <2>2. PICK s \in SUBSET S : Cardinality(s) = n /\ sum[s] # N[s]
    BY <2>1
  <2>3. s # {}
    BY <1>3, <1>9, <2>2
  <2>4. PICK x \in s : sum[s] = c[x].sat + sum[s \ {x}]
    BY <1>8, <2>3
  <2>5. Cardinality(s \ {x}) = n - 1 /\ n \in Nat /\ Cardinality(s \ {x}) \in Nat
    <3>1. IsFiniteSet(s)
      BY <1>2
    <3> QED
      BY <2>1, <2>2, <3>1, FS_RemoveElement, FS_CardinalityType
  <2>6. sum[s \ {x}] = N[s \ {x}]
    <3>1. n - 1 \notin Wrong
      <4> HIDE DEF Wrong
      <4> QED
        BY <2>1, <2>5
    <3>2. s \ {x} \in SUBSET S
      OBVIOUS
    <3> QED
      BY <2>5, <3>1, <3>2
  <2> QED
    BY <1>4, <2>2, <2>3, <2>4, <2>6
<1>11. sum[S] = N[S]
  <2>1. Cardinality(S) \in Nat
    BY FS_CardinalityType
  <2> QED
    BY <1>10, <2>1
<1> QED
  BY <1>1, <1>7, <1>11

\* Another coin adds its value to the sum.
LEMMA SumAdd ==
    ASSUME NEW c, NEW S, IsFiniteSet(S), NEW x, x \notin S,
           \A i \in S \cup {x} : c[i].sat \in Nat
    PROVE  SumOf(c, S \cup {x}) = SumOf(c, S) + c[x].sat
<1> DEFINE T == S \cup {x}
<1>1. IsFiniteSet(T)
  BY FS_AddElement
<1>2. T \ {x} = S /\ x \in T /\ \A i \in T : c[i].sat \in Nat
  OBVIOUS
<1> HIDE DEF T
<1>3. SumOf(c, T) = Cardinality(Satoshi(c, T)) /\ SumOf(c, S) = Cardinality(Satoshi(c, S))
  BY <1>1, <1>2, SumIsCount
<1>4. /\ Cardinality(Satoshi(c, S)) \in Nat
      /\ Cardinality(Satoshi(c, T)) = c[x].sat + Cardinality(Satoshi(c, S))
  BY <1>1, <1>2, SatoshiAdd
<1>5. SumOf(c, T) = SumOf(c, S) + c[x].sat
  BY <1>2, <1>3, <1>4
<1> QED
  BY <1>5 DEF T

\* Coins of the same values have the same sum.
LEMMA SumSame ==
    ASSUME NEW c, NEW d, NEW S, IsFiniteSet(S),
           \A i \in S : c[i].sat \in Nat /\ d[i].sat = c[i].sat
    PROVE  SumOf(d, S) = SumOf(c, S)
<1>1. Satoshi(d, S) = Satoshi(c, S)
  BY DEF Satoshi
<1> QED
  BY <1>1, SumIsCount

\* No coins are worth nothing.
LEMMA SumOfNone == \A c : SumOf(c, {}) = 0
<1> SUFFICES ASSUME NEW c PROVE SumOf(c, {}) = 0
  OBVIOUS
<1>1. SumOf(c, {}) = Cardinality(Satoshi(c, {}))
  BY SumIsCount, FS_EmptySet
<1>2. Satoshi(c, {}) = {}
  BY DEF Satoshi
<1> QED
  BY <1>1, <1>2, FS_EmptySet

-----------------------------------------------------------------------------
(* Types. *)

\* Mishaps are counted up to the bound, and are no calls.
LEMMA MishapType ==
    ASSUME BitcoinSendTypeOK, Mishap
    PROVE  calls' \in 0..MaxCalls /\ mishaps' \in 0..MaxMishaps
<1>1. mishaps \in 0..MaxMishaps /\ mishaps < MaxMishaps /\ mishaps' = mishaps + 1
  BY DEF BitcoinSendTypeOK, Mishap
<1>2. calls \in 0..MaxCalls /\ calls' = calls
  BY DEF BitcoinSendTypeOK, Mishap
<1>3. MaxMishaps \in Nat
  BY SendAssumption
<1> QED
  BY <1>1, <1>2, <1>3

\* Every step keeps the types of the call, of the wallet and of the counts.
LEMMA TypeStep ==
    ASSUME BitcoinSendTypeOK, [BitcoinSendNext]_bitcoinSendVars
    PROVE  BitcoinSendTypeOK'
<1> USE DEF BitcoinSendTypeOK, txVars, countVars, walletVars, Return, Steps, CoinIds
<1>1. CASE Begin
  BY <1>1, SendAssumption DEF Begin
<1>2. CASE ListUnspent
  BY <1>2 DEF ListUnspent, Confirmed
<1>3. CASE TakeInput
  <2>1. PICK v \in list :
            /\ total' = total + coins[v].sat
            /\ used' = used \cup {v}
            /\ list' = list \ {v}
    BY <1>3 DEF TakeInput
  <2>2. total' \in Nat
    BY <2>1, CoinsType
  <2>3. UNCHANGED <<walletVars, step, h, rate, change, signed, result, countVars>>
    BY <1>3 DEF TakeInput
  <2> QED
    BY <2>1, <2>2, <2>3
<1>4. CASE Decline \/ ListPanics \/ Killed \/ Relaunch \/ Relock
  <2>1. CASE Decline
    BY <2>1 DEF Decline
  <2>2. CASE ListPanics
    BY <2>2, MishapType DEF ListPanics
  <2>3. CASE Killed
    BY <2>3, MishapType DEF Killed
  <2>4. CASE Relaunch
    BY <2>4 DEF Relaunch
  <2>5. CASE Relock
    BY <2>5 DEF Relock, Locked
  <2> QED
    BY <1>4, <2>1, <2>2, <2>3, <2>4, <2>5
<1>5. CASE CreateRawTransaction
  <2>1. FeeFor(Cardinality(used)) \in Nat
    BY FeeType, CoinsFinite
  <2>2. change' \in Nat
    BY <1>5, <2>1 DEF CreateRawTransaction
  <2> QED
    BY <1>5, <2>2 DEF CreateRawTransaction
<1>6. CASE WalletPassPhrase \/ WalletPassPhraseFails
  BY <1>6, MishapType DEF WalletPassPhrase, WalletPassPhraseFails
<1>7. CASE SignRawTransaction \/ SignFails
  BY <1>7, MishapType DEF SignRawTransaction, SignFails
<1>8. CASE WalletLock \/ WalletLockFails
  BY <1>8, MishapType DEF WalletLock, Locked, WalletLockFails, AfterLock
<1>9. CASE SendRawTransaction \/ SendReplyLost
  <2>1. CASE Broadcast
    <3>1. /\ CoinIds \subseteq CoinIds'
          /\ coins' \in Seq([sat: Nat, state: {"unconfirmed", "confirmed", "spent"}])
      BY <2>1, BroadcastCoins DEF Coin, States
    <3>2. UNCHANGED <<wallet, lockMissed>>
      BY <2>1 DEF Broadcast
    <3>3. UNCHANGED txVars
      BY <1>9 DEF SendRawTransaction, SendReplyLost
    <3>4. step' = "idle" /\ result' \in {"txid", "error"}
      BY <1>9, <2>1 DEF SendRawTransaction, SendReplyLost
    <3>5. calls' \in 0..MaxCalls /\ mishaps' \in 0..MaxMishaps
      BY <1>9, MishapType DEF SendRawTransaction, SendReplyLost
    <3> QED
      BY <3>1, <3>2, <3>3, <3>4, <3>5
  <2>2. CASE ~Broadcast
    BY <1>9, <2>2 DEF SendRawTransaction, SendReplyLost
  <2> QED
    BY <2>1, <2>2
<1>10. CASE CallFails
  BY <1>10, MishapType DEF CallFails
<1>11. CASE CoinConfirmed \/ SpentElsewhere
  <2>1. PICK i \in CoinIds, s \in States : coins' = [coins EXCEPT ![i].state = s]
    BY <1>11 DEF CoinConfirmed, SpentElsewhere, Confirmed, States
  <2>2. coins' \in Seq(Coin) /\ CoinIds' = CoinIds
    BY <2>1, OneCoin
  <2>3. coins' \in Seq([sat: Nat, state: {"unconfirmed", "confirmed", "spent"}])
    BY <2>2 DEF Coin, States
  <2>4. /\ UNCHANGED <<wallet, lockMissed, step, txVars, result>>
        /\ calls' \in 0..MaxCalls /\ mishaps' \in 0..MaxMishaps
    <3>1. CASE CoinConfirmed
      BY <3>1 DEF CoinConfirmed
    <3>2. CASE SpentElsewhere
      <4>1. UNCHANGED <<wallet, lockMissed, step, txVars, result>>
        BY <3>2 DEF SpentElsewhere
      <4>2. calls' \in 0..MaxCalls /\ mishaps' \in 0..MaxMishaps
        BY <3>2, MishapType DEF SpentElsewhere
      <4> QED
        BY <4>1, <4>2
    <3> QED
      BY <1>11, <3>1, <3>2
  <2> QED
    BY <2>2, <2>3, <2>4
<1>12. CASE UNCHANGED bitcoinSendVars
  BY <1>12 DEF bitcoinSendVars
<1> QED
  BY <1>1, <1>2, <1>3, <1>4, <1>5, <1>6, <1>7, <1>8, <1>9, <1>10, <1>11, <1>12
     DEF BitcoinSendNext

-----------------------------------------------------------------------------
(* What is spent. *)

\* A transaction that bitcoind takes is one more in the sequence.
LEMMA BroadcastTxs ==
    ASSUME NEW S, txs \in Seq(S), Broadcast
    PROVE  /\ \E T : txs' \in Seq(T)
           /\ Len(txs') = Len(txs) + 1
           /\ DOMAIN txs' = DOMAIN txs \cup {Len(txs) + 1}
           /\ Len(txs) + 1 \notin DOMAIN txs
           /\ \A i \in DOMAIN txs : txs'[i] = txs[i]
           /\ txs'[Len(txs) + 1].inputs = used
           /\ txs'[Len(txs) + 1].unconfirmed = used \ Confirmed
           /\ txs'[Len(txs) + 1].h = h
           /\ txs'[Len(txs) + 1].script = ScriptOf(PrependBlockHeight(h, KeyMR(h)))
           /\ txs'[Len(txs) + 1].out = change
           /\ txs'[Len(txs) + 1].fee = FeeFor(Cardinality(used))
<1> DEFINE e == [inputs |-> used, out |-> change,
                 fee |-> FeeFor(Cardinality(used)), h |-> h,
                 script |-> ScriptOf(PrependBlockHeight(h, KeyMR(h))),
                 unconfirmed |-> used \ Confirmed]
<1>1. txs' = Append(txs, e)
  BY DEF Broadcast
<1>2. /\ e.inputs = used /\ e.unconfirmed = used \ Confirmed
      /\ e.h = h /\ e.script = ScriptOf(PrependBlockHeight(h, KeyMR(h)))
      /\ e.out = change /\ e.fee = FeeFor(Cardinality(used))
  OBVIOUS
<1> HIDE DEF e
<1>3. txs \in Seq(S \cup {e})
  OBVIOUS
<1>4. txs' \in Seq(S \cup {e})
  BY <1>1, <1>3
<1>5. /\ Len(txs') = Len(txs) + 1
      /\ DOMAIN txs' = DOMAIN txs \cup {Len(txs) + 1}
      /\ Len(txs) + 1 \notin DOMAIN txs
      /\ \A i \in DOMAIN txs : txs'[i] = txs[i]
      /\ txs'[Len(txs) + 1] = e
  BY <1>1, <1>3
<1> QED
  BY <1>2, <1>4, <1>5

\* A transaction spends confirmed coins that no other has spent.
LEMMA BroadcastSpends ==
    ASSUME TypeInv, SpendInv, Broadcast, UNCHANGED <<list, used>>
    PROVE  SpendInv'
<1>1. PICK S : txs \in Seq(S)
  BY DEF TypeInv
<1> DEFINE new == Len(txs) + 1
<1>2. /\ DOMAIN txs' = DOMAIN txs \cup {new}
      /\ \A i \in DOMAIN txs : txs'[i] = txs[i]
      /\ txs'[new].inputs = used
      /\ txs'[new].unconfirmed = used \ Confirmed
  BY <1>1, BroadcastTxs
<1>3. /\ CoinIds \subseteq CoinIds'
      /\ \A i \in CoinIds : coins'[i] = IF i \in used
                                        THEN [coins[i] EXCEPT !.state = "spent"]
                                        ELSE coins[i]
  BY BroadcastCoins DEF TypeInv
<1>4. list \subseteq CoinIds /\ used \subseteq CoinIds
  BY DEF TypeInv, BitcoinSendTypeOK
<1>5. \A i \in used : coins[i].state = "confirmed"
  <2> SUFFICES ASSUME NEW i \in used PROVE coins[i].state = "confirmed"
    OBVIOUS
  <2>1. coins[i].state \in States
    BY <1>4, CoinsType DEF TypeInv
  <2>2. coins[i].state # "unconfirmed"
    BY DEF SpendInv, OldCoins
  <2>3. coins[i].state # "spent"
    BY DEF Broadcast, Accepts
  <2> QED
    BY <2>1, <2>2, <2>3 DEF States
<1>6. \A i \in used : coins'[i].state = "spent"
  <2> SUFFICES ASSUME NEW i \in used PROVE coins'[i].state = "spent"
    OBVIOUS
  <2>1. coins'[i] = [coins[i] EXCEPT !.state = "spent"]
    BY <1>3, <1>4
  <2>2. coins[i] \in Coin /\ "spent" \in States
    BY <1>4, CoinsType DEF TypeInv, States
  <2> QED
    BY <2>1, <2>2, SetState
<1>7. \A i \in CoinIds \ used : coins'[i] = coins[i]
  BY <1>3
<1>8. \A i \in CoinIds : coins[i].state = "spent" => coins'[i].state = "spent"
  BY <1>6, <1>7
<1>9. OldCoins'
  BY <1>4, <1>6, <1>7 DEF SpendInv, OldCoins
<1>10. used \ Confirmed = {}
  BY <1>4, <1>5 DEF Confirmed
<1> HIDE DEF new
<1>11. InputsSpent'
  BY <1>2, <1>3, <1>4, <1>6, <1>8, <1>10 DEF SpendInv, InputsSpent
<1>12. \A i \in DOMAIN txs : txs[i].inputs \cap used = {}
  BY <1>5 DEF SpendInv, InputsSpent
<1>13. NoDoubleOrUnconfirmedSpend'
  BY <1>2, <1>10, <1>12 DEF SpendInv, NoDoubleOrUnconfirmedSpend
<1> QED
  BY <1>9, <1>11, <1>13 DEF SpendInv

\* Inputs that were listed, while coins and transactions stay.
LEMMA SameCoins ==
    ASSUME SpendInv, UNCHANGED <<coins, txs>>,
           list' \cup used' \subseteq list \cup used \cup Confirmed
    PROVE  SpendInv'
<1>1. OldCoins'
  BY DEF SpendInv, OldCoins, Confirmed
<1>2. InputsSpent' /\ NoDoubleOrUnconfirmedSpend'
  BY DEF SpendInv, InputsSpent, NoDoubleOrUnconfirmedSpend, CoinIds
<1> QED
  BY <1>1, <1>2 DEF SpendInv

\* A coin that is confirmed, or spent by somebody else.
LEMMA OtherCoin ==
    ASSUME TypeInv, SpendInv, UNCHANGED <<txs, list, used>>,
           NEW j \in CoinIds, NEW s \in States \ {"unconfirmed"},
           coins[j].state # "spent", coins' = [coins EXCEPT ![j].state = s]
    PROVE  SpendInv'
<1>1. /\ CoinIds' = CoinIds /\ coins'[j].state = s
      /\ \A i \in CoinIds \ {j} : coins'[i] = coins[i]
  BY OneCoin DEF TypeInv
<1>2. list \subseteq CoinIds /\ used \subseteq CoinIds
  BY DEF TypeInv, BitcoinSendTypeOK
<1>3. OldCoins'
  BY <1>1, <1>2 DEF SpendInv, OldCoins
<1>4. InputsSpent'
  BY <1>1 DEF SpendInv, InputsSpent
<1>5. NoDoubleOrUnconfirmedSpend'
  BY DEF SpendInv, NoDoubleOrUnconfirmedSpend
<1> QED
  BY <1>3, <1>4, <1>5 DEF SpendInv

\* Every step keeps what is said of the spent coins.
LEMMA SpendStep ==
    ASSUME TypeInv, SpendInv, [BitcoinSendNext]_bitcoinSendVars
    PROVE  SpendInv'
<1> USE DEF txVars, walletVars
<1>1. CASE Begin
  BY <1>1, SameCoins DEF Begin
<1>2. CASE ListUnspent
  BY <1>2, SameCoins DEF ListUnspent
<1>3. CASE TakeInput
  BY <1>3, SameCoins DEF TakeInput
<1>4. CASE Decline \/ CreateRawTransaction \/ CallFails
  BY <1>4, SameCoins DEF Decline, CreateRawTransaction, CallFails
<1>5. CASE WalletPassPhrase \/ WalletPassPhraseFails \/ Relock
  BY <1>5, SameCoins DEF WalletPassPhrase, WalletPassPhraseFails, Relock, Locked
<1>6. CASE SignRawTransaction \/ SignFails \/ WalletLock \/ WalletLockFails
  BY <1>6, SameCoins DEF SignRawTransaction, SignFails, WalletLock, Locked, WalletLockFails
<1>7. CASE ListPanics \/ Killed \/ Relaunch
  BY <1>7, SameCoins DEF ListPanics, Killed, Relaunch
<1>8. CASE SendRawTransaction \/ SendReplyLost
  <2>1. CASE Broadcast
    BY <1>8, <2>1, BroadcastSpends DEF SendRawTransaction, SendReplyLost
  <2>2. CASE ~Broadcast
    BY <1>8, <2>2, SameCoins DEF SendRawTransaction, SendReplyLost
  <2> QED
    BY <2>1, <2>2
<1>9. CASE CoinConfirmed \/ SpentElsewhere
  <2>1. PICK j \in CoinIds, s \in States \ {"unconfirmed"} :
            coins[j].state # "spent" /\ coins' = [coins EXCEPT ![j].state = s]
    BY <1>9 DEF CoinConfirmed, SpentElsewhere, Confirmed, States
  <2>2. UNCHANGED <<txs, list, used>>
    BY <1>9 DEF CoinConfirmed, SpentElsewhere
  <2> QED
    BY <2>1, <2>2, OtherCoin
<1>10. CASE UNCHANGED bitcoinSendVars
  BY <1>10, SameCoins DEF bitcoinSendVars
<1> QED
  BY <1>1, <1>2, <1>3, <1>4, <1>5, <1>6, <1>7, <1>8, <1>9, <1>10
     DEF BitcoinSendNext

-----------------------------------------------------------------------------
(* The lock of the wallet. *)

\* Every step keeps what is said of the lock.
LEMMA LockStep ==
    ASSUME TypeInv, LockInv, [BitcoinSendNext]_bitcoinSendVars
    PROVE  LockInv'
<1>1. wallet \in {"locked", "open"} /\ lockMissed \in BOOLEAN
  BY DEF TypeInv, BitcoinSendTypeOK
<1> USE <1>1 DEF LockInv, txVars, countVars, walletVars, Return
<1>2. CASE Begin
  BY <1>2 DEF Begin
<1>3. CASE ListUnspent \/ TakeInput \/ Decline \/ CreateRawTransaction
  BY <1>3 DEF ListUnspent, TakeInput, Decline, CreateRawTransaction, ChoiceMade
<1>4. CASE WalletPassPhrase \/ WalletPassPhraseFails
  BY <1>4 DEF WalletPassPhrase, WalletPassPhraseFails
<1>5. CASE SignRawTransaction \/ SignFails
  BY <1>5 DEF SignRawTransaction, SignFails
<1>6. CASE WalletLock
  BY <1>6 DEF WalletLock, Locked, AfterLock
<1>7. CASE WalletLockFails
  BY <1>7 DEF WalletLockFails, AfterLock
<1>8. CASE SendRawTransaction \/ SendReplyLost
  <2>1. step = "send" /\ UNCHANGED <<wallet, lockMissed>>
    BY <1>8 DEF SendRawTransaction, SendReplyLost, Broadcast
  <2> QED
    BY <2>1
<1>9. CASE CallFails \/ ListPanics
  BY <1>9 DEF CallFails, ListPanics
<1>10. CASE Killed \/ Relaunch
  BY <1>10 DEF Killed, Relaunch
<1>11. CASE Relock \/ CoinConfirmed \/ SpentElsewhere
  BY <1>11 DEF Relock, Locked, CoinConfirmed, SpentElsewhere
<1>12. CASE UNCHANGED bitcoinSendVars
  BY <1>12 DEF bitcoinSendVars
<1> QED
  BY <1>2, <1>3, <1>4, <1>5, <1>6, <1>7, <1>8, <1>9, <1>10, <1>11, <1>12
     DEF BitcoinSendNext

-----------------------------------------------------------------------------
(* What is paid. *)

\* A set of coins is finite, and its coins have values.
LEMMA CoinsAdd ==
    ASSUME BitcoinSendTypeOK, NEW S \in SUBSET CoinIds
    PROVE  IsFiniteSet(S) /\ \A i \in S : coins[i].sat \in Nat
<1>1. CoinIds = 1..Len(coins) /\ Len(coins) \in Nat
  BY CoinsType
<1>2. IsFiniteSet(CoinIds)
  BY <1>1, UpTo
<1> QED
  BY <1>2, CoinsType, FS_Subset

\* A coin keeps its value, whatever becomes of it.
LEMMA ValuesKept ==
    ASSUME BitcoinSendTypeOK, [BitcoinSendNext]_bitcoinSendVars
    PROVE  \A i \in CoinIds : coins'[i].sat = coins[i].sat
<1> USE DEF walletVars
<1>1. CASE Broadcast
  <2> SUFFICES ASSUME NEW i \in CoinIds PROVE coins'[i].sat = coins[i].sat
    OBVIOUS
  <2>1. coins'[i] = IF i \in used THEN [coins[i] EXCEPT !.state = "spent"] ELSE coins[i]
    BY <1>1, BroadcastCoins
  <2>2. coins[i] \in Coin /\ "spent" \in States
    BY CoinsType DEF States
  <2> QED
    BY <2>1, <2>2, SetState
<1>2. CASE CoinConfirmed \/ SpentElsewhere
  <2>1. PICK j \in CoinIds, s \in States : coins' = [coins EXCEPT ![j].state = s]
    BY <1>2 DEF CoinConfirmed, SpentElsewhere, Confirmed, States
  <2> SUFFICES ASSUME NEW i \in CoinIds PROVE coins'[i].sat = coins[i].sat
    OBVIOUS
  <2>2. coins' = [coins EXCEPT ![j] = [coins[j] EXCEPT !.state = s]]
    BY <2>1
  <2>3. [coins[j] EXCEPT !.state = s].sat = coins[j].sat
    BY <2>1, CoinsType, SetState
  <2>4. i \in DOMAIN coins
    BY DEF CoinIds
  <2> HIDE DEF walletVars
  <2> QED
    BY <2>2, <2>3, <2>4
<1>3. CASE ~Broadcast /\ ~(CoinConfirmed \/ SpentElsewhere)
  <2>1. UNCHANGED coins
    BY <1>3 DEF BitcoinSendNext, bitcoinSendVars, walletVars, Begin, ListUnspent,
       TakeInput, Decline, CreateRawTransaction, WalletPassPhrase,
       SignRawTransaction, WalletLock, SendRawTransaction, WalletPassPhraseFails,
       SignFails, WalletLockFails, CallFails, SendReplyLost, ListPanics, Killed,
       Relaunch, Relock
  <2> QED
    BY <2>1
<1> QED
  BY <1>1, <1>2, <1>3

\* What the transactions so far spent is worth the same after every step.
LEMMA OldTxsBalance ==
    ASSUME TypeInv, InputsSpent, BalanceInv, [BitcoinSendNext]_bitcoinSendVars
    PROVE  \A i \in DOMAIN txs : SumOf(coins', txs[i].inputs) = txs[i].out + txs[i].fee
<1> SUFFICES ASSUME NEW i \in DOMAIN txs
             PROVE  SumOf(coins', txs[i].inputs) = txs[i].out + txs[i].fee
  OBVIOUS
<1>1. txs[i].inputs \subseteq CoinIds
  BY DEF InputsSpent
<1>2. SumOf(coins', txs[i].inputs) = SumOf(coins, txs[i].inputs)
  BY <1>1, CoinsAdd, ValuesKept, SumSame DEF TypeInv
<1> QED
  BY <1>2 DEF BalanceInv

\* Every step keeps the sums.
LEMMA BalanceStep ==
    ASSUME TypeInv, InputsSpent, BalanceInv, [BitcoinSendNext]_bitcoinSendVars
    PROVE  BalanceInv'
<1> USE DEF txVars, countVars, walletVars, Return
<1>0. used \subseteq CoinIds /\ list \subseteq CoinIds /\ BitcoinSendTypeOK
  BY DEF TypeInv, BitcoinSendTypeOK
<1>1. \A i \in DOMAIN txs : SumOf(coins', txs[i].inputs) = txs[i].out + txs[i].fee
  BY OldTxsBalance
<1>2. SumOf(coins', used) = total
  <2>1. SumOf(coins', used) = SumOf(coins, used)
    BY <1>0, CoinsAdd, ValuesKept, SumSame
  <2> QED
    BY <2>1 DEF BalanceInv
<1>3. CASE Begin
  <2>1. /\ used' = {} /\ list' = {} /\ total' = 0 /\ step' = "list"
        /\ UNCHANGED txs
    BY <1>3 DEF Begin
  <2>2. SumOf(coins', {}) = 0
    BY SumOfNone
  <2> QED
    BY <1>1, <2>1, <2>2 DEF BalanceInv
<1>4. CASE ListUnspent
  <2>1. /\ step = "list" /\ step' = "choose" /\ UNCHANGED <<used, total, txs>>
    BY <1>4 DEF ListUnspent
  <2> QED
    BY <1>1, <1>2, <2>1 DEF BalanceInv
<1>5. CASE TakeInput
  <2>1. PICK v \in list :
            /\ total' = total + coins[v].sat
            /\ used' = used \cup {v} /\ list' = list \ {v}
            /\ UNCHANGED <<coins, txs>> /\ step = "choose" /\ step' = step
    BY <1>5 DEF TakeInput
  <2>2. v \notin used
    BY DEF BalanceInv
  <2>3. SumOf(coins, used \cup {v}) = SumOf(coins, used) + coins[v].sat
    <3>1. used \cup {v} \subseteq CoinIds
      BY <1>0
    <3>2. IsFiniteSet(used) /\ \A i \in used \cup {v} : coins[i].sat \in Nat
      BY <1>0, <3>1, CoinsAdd
    <3> QED
      BY <2>2, <3>2, SumAdd
  <2>4. SumOf(coins', used') = total'
    BY <2>1, <2>3 DEF BalanceInv
  <2>5. step' = "choose" /\ list' \cap used' = {}
    BY <2>1 DEF BalanceInv
  <2> QED
    BY <1>1, <2>1, <2>4, <2>5 DEF BalanceInv
<1>6. CASE CreateRawTransaction
  <2>1. /\ UNCHANGED <<coins, txs, rate, list, used, total>> /\ step' = "unlock"
        /\ change' = total - FeeFor(Cardinality(used))
    BY <1>6 DEF CreateRawTransaction
  <2>2. FeeFor(Cardinality(used)) \in Nat /\ total \in Nat
    BY <1>0, FeeType, CoinsFinite DEF BitcoinSendTypeOK
  <2>3. total' = change' + FeeFor(Cardinality(used))
    BY <2>1, <2>2
  <2>4. FeeFor(Cardinality(used))' = FeeFor(Cardinality(used))
    BY <2>1 DEF FeeFor
  <2> QED
    BY <1>1, <1>2, <2>1, <2>3, <2>4 DEF BalanceInv
<1>7. CASE ~(Begin \/ ListUnspent \/ TakeInput \/ CreateRawTransaction)
  <2>1. /\ UNCHANGED <<rate, list, used, total, change>>
        /\ step' \in {"unlock", "sign", "lock", "send"} =>
            step \in {"unlock", "sign", "lock", "send"}
        /\ step' # "list" \/ step = "list"
    BY <1>7 DEF BitcoinSendNext, bitcoinSendVars, Decline, WalletPassPhrase,
       SignRawTransaction, WalletLock, SendRawTransaction, WalletPassPhraseFails,
       SignFails, WalletLockFails, AfterLock, CallFails, SendReplyLost, ListPanics,
       Killed, Relaunch, Relock, CoinConfirmed, SpentElsewhere
  <2>2. UNCHANGED txs \/ (Broadcast /\ step = "send")
    BY <1>7 DEF BitcoinSendNext, bitcoinSendVars, Decline, WalletPassPhrase,
       SignRawTransaction, WalletLock, SendRawTransaction, WalletPassPhraseFails,
       SignFails, WalletLockFails, CallFails, SendReplyLost, ListPanics,
       Killed, Relaunch, Relock, CoinConfirmed, SpentElsewhere
  <2>3. FeeFor(Cardinality(used))' = FeeFor(Cardinality(used))
    BY <2>1 DEF FeeFor
  <2>4. \A i \in DOMAIN txs' : SumOf(coins', txs'[i].inputs) = txs'[i].out + txs'[i].fee
    <3>1. CASE Broadcast /\ step = "send"
      <4>1. PICK S : txs \in Seq(S)
        BY DEF TypeInv
      <4>2. /\ DOMAIN txs' = DOMAIN txs \cup {Len(txs) + 1}
            /\ \A i \in DOMAIN txs : txs'[i] = txs[i]
            /\ txs'[Len(txs) + 1].inputs = used
            /\ txs'[Len(txs) + 1].out = change
            /\ txs'[Len(txs) + 1].fee = FeeFor(Cardinality(used))
        BY <3>1, <4>1, BroadcastTxs
      <4>3. SumOf(coins', used) = change + FeeFor(Cardinality(used))
        BY <1>2, <3>1 DEF BalanceInv
      <4> QED
        BY <1>1, <4>2, <4>3
    <3>2. CASE UNCHANGED txs
      BY <1>1, <3>2
    <3> QED
      BY <2>2, <3>1, <3>2
  <2> QED
    BY <1>2, <2>1, <2>3, <2>4 DEF BalanceInv
<1> QED
  BY <1>3, <1>4, <1>5, <1>6, <1>7

-----------------------------------------------------------------------------
(* The invariant. *)

\* A wallet of confirmed coins, before the first call.
LEMMA InitInv == BitcoinSendInit => IInv
<1> SUFFICES ASSUME BitcoinSendInit PROVE IInv
  OBVIOUS
<1> USE SendAssumption DEF BitcoinSendInit
<1>1. BitcoinSendTypeOK
  <2>1. coins \in Seq([sat: Nat, state: {"unconfirmed", "confirmed", "spent"}])
    <3>1. coins \in [1..NumCoins -> [sat: Nat, state: {"unconfirmed", "confirmed", "spent"}]]
      OBVIOUS
    <3>2. NumCoins \in Nat
      OBVIOUS
    <3> QED
      BY <3>1, <3>2, FunctionIsSeq
  <2>2. 0 \in U32
    <3>1. Base * Base * Base * Base - 1 \in Nat
      BY BaseAssumption
    <3> QED
      BY <3>1 DEF U32
  <2>3. lockMissed \in BOOLEAN
    BY Zenon
  <2> QED
    BY <2>1, <2>2, <2>3 DEF BitcoinSendTypeOK, Steps
<1>2. txs \in Seq({})
  OBVIOUS
<1>3. SpendInv
  BY DEF SpendInv, OldCoins, InputsSpent, NoDoubleOrUnconfirmedSpend
<1>4. LockInv
  BY DEF LockInv
<1>5. ScriptInv
  BY DEF ScriptInv
<1>6. BalanceInv
  BY SumOfNone DEF BalanceInv
<1> QED
  BY <1>1, <1>2, <1>3, <1>4, <1>5, <1>6 DEF IInv, TypeInv

\* Nothing but a broadcast changes the transactions.
LEMMA TxsKept ==
    ASSUME ~Broadcast, [BitcoinSendNext]_bitcoinSendVars
    PROVE  UNCHANGED txs
BY DEF BitcoinSendNext, bitcoinSendVars, walletVars, Begin, ListUnspent,
   TakeInput, Decline, CreateRawTransaction, WalletPassPhrase,
   SignRawTransaction, WalletLock, SendRawTransaction, WalletPassPhraseFails,
   SignFails, WalletLockFails, CallFails, SendReplyLost, ListPanics, Killed,
   Relaunch, Relock, CoinConfirmed, SpentElsewhere

\* Every step leaves the transactions a sequence.
LEMMA TxsStep ==
    ASSUME NEW S, txs \in Seq(S), [BitcoinSendNext]_bitcoinSendVars
    PROVE  \E T : txs' \in Seq(T)
BY BroadcastTxs, TxsKept

\* Every step keeps what is said of the scripts.
LEMMA ScriptStep ==
    ASSUME TypeInv, ScriptInv, [BitcoinSendNext]_bitcoinSendVars
    PROVE  ScriptInv'
<1>1. CASE Broadcast
  <2>1. PICK S : txs \in Seq(S)
    BY DEF TypeInv
  <2>2. h \in U32
    BY DEF TypeInv, BitcoinSendTypeOK
  <2> QED
    BY <1>1, <2>1, <2>2, BroadcastTxs DEF ScriptInv
<1>2. CASE ~Broadcast
  BY <1>2, TxsKept DEF ScriptInv
<1> QED
  BY <1>1, <1>2

\* IInv is inductive.
LEMMA NextInv == IInv /\ [BitcoinSendNext]_bitcoinSendVars => IInv'
<1> SUFFICES ASSUME IInv, [BitcoinSendNext]_bitcoinSendVars PROVE IInv'
  OBVIOUS
<1>1. BitcoinSendTypeOK'
  BY TypeStep DEF IInv, TypeInv
<1>2. \E T : txs' \in Seq(T)
  <2>1. PICK S : txs \in Seq(S)
    BY DEF IInv, TypeInv
  <2> QED
    BY <2>1, TxsStep
<1>3. SpendInv'
  BY SpendStep DEF IInv
<1>4. LockInv'
  BY LockStep DEF IInv
<1>5. ScriptInv'
  BY ScriptStep DEF IInv
<1>6. BalanceInv'
  BY BalanceStep DEF IInv, SpendInv
<1> QED
  BY <1>1, <1>2, <1>3, <1>4, <1>5, <1>6 DEF IInv, TypeInv

\* The inductive invariant holds in every reachable state.
THEOREM BitcoinSendInvariant == BitcoinSendSpec => []IInv
BY InitInv, NextInv, PTL DEF BitcoinSendSpec

-----------------------------------------------------------------------------
(* The theorems. *)

\* SendTransaction keeps its types: the change it computes is never negative.
THEOREM BitcoinSendTypeCorrect == BitcoinSendSpec => []BitcoinSendTypeOK
<1>1. IInv => BitcoinSendTypeOK
  BY DEF IInv, TypeInv
<1> QED
  BY <1>1, BitcoinSendInvariant, PTL

\* SendRawTransactionToBTC: no coin is in two transactions and none was unconfirmed,
\* whatever is lost, and whoever else uses the wallet.
THEOREM NeverSpendsTwice == BitcoinSendSpec => []NoDoubleOrUnconfirmedSpend
<1>1. IInv => NoDoubleOrUnconfirmedSpend
  BY DEF IInv, SpendInv
<1> QED
  BY <1>1, BitcoinSendInvariant, PTL

\* SendTransaction pays what it takes: the inputs of every transaction are worth its
\* output and its fee, for any number of inputs.
THEOREM AlwaysBalanced == BitcoinSendSpec => []TxsBalance
<1>1. IInv => TxsBalance
  BY DEF IInv, BalanceInv, TxsBalance, Value, SumOf
<1> QED
  BY <1>1, BitcoinSendInvariant, PTL

\* SendTransaction calls walletlock before it looks at the signature: past that the
\* wallet is open only because that call failed or was never made.
THEOREM WalletIsLocked == BitcoinSendSpec => []LockedBetweenCalls
<1>1. IInv => LockedBetweenCalls
  BY DEF IInv, LockInv, LockedBetweenCalls
<1> QED
  BY <1>1, BitcoinSendInvariant, PTL

\* Every transaction that is sent is read back as the anchor of its block.
THEOREM AlwaysReadBack == BitcoinSendSpec => []ReadBackAsSent
<1>1. IInv => ReadBackAsSent
  BY ReadBack, Zenon DEF IInv, ScriptInv, ReadBackAsSent
<1> QED
  BY <1>1, BitcoinSendInvariant, PTL

\* The fee and the inputs that SendTransaction chooses: from more than four fees
\* it never makes what bitcoind refuses, for any number of inputs.
THEOREM FundedAlwaysAccepted == BitcoinSendSpec => []FundedIsAccepted
<1>1. ASSUME IInv PROVE FundedIsAccepted
  <2> DEFINE n == Cardinality(used)
  <2>1. /\ total \in Nat /\ rate \in Nat /\ used \in SUBSET CoinIds
        /\ Dust \in Nat /\ MinRelayRate \in Nat
    BY <1>1, SendAssumption DEF IInv, TypeInv, BitcoinSendTypeOK
  <2>2. n \in Nat
    BY <1>1, <2>1, CoinsFinite DEF IInv, TypeInv
  <2> HIDE DEF n
  <2>3. ASSUME total > 972 * rate, 145 * rate >= Dust, MinRelayRate <= rate,
               MinRelayRate * TxSize(n) <= rate * 827
        PROVE  total - FeeFor(n) >= Dust /\ FeeFor(n) >= MinRelayRate * TxSize(n)
    <3>1. CASE n = 0
      BY <2>1, <2>3, <3>1 DEF FeeFor, TxSize
    <3>2. CASE n \in 1..5
      <4>1. n = 1 \/ n = 2 \/ n = 3 \/ n = 4 \/ n = 5
        BY <3>2
      <4> QED
        BY <2>1, <2>3, <4>1 DEF FeeFor, TxSize
    <3>3. CASE n > 5
      <4>1. FeeFor(n) = rate * 827
        BY <2>1, <2>2, <3>3 DEF FeeFor, TxSize
      <4> QED
        BY <2>1, <2>3, <4>1
    <3> QED
      BY <2>2, <3>1, <3>2, <3>3
  <2>4. 4 * BTCFee = 972 * rate /\ TxSize(5) = 827
    BY <2>1 DEF BTCFee, TxSize
  <2> QED
    BY <2>1, <2>3, <2>4 DEF FundedIsAccepted, n
<1> QED
  BY <1>1, BitcoinSendInvariant, PTL

\* A call implements the promise AnchorBlockByHeight relies on: at most one
\* transaction, and an answer that says whether it was sent.
THEOREM CallKeepsPromise == BitcoinSendSpec => ImplementsAnchorSend
<1>1. BitcoinSendInit => Promise!AnchorSendInit
  BY DEF BitcoinSendInit, Promise!AnchorSendInit
<1>2. ASSUME IInv, [BitcoinSendNext]_bitcoinSendVars
      PROVE  [Promise!AnchorSendNext]_(Promise!sendVars)
  <2>1. PICK S : txs \in Seq(S)
    BY <1>2 DEF IInv, TypeInv
  <2>2. Len(txs) \in Nat
    BY <2>1
  <2> USE DEF Promise!sendVars, Promise!AnchorSendNext, Promise!Return, Return,
              walletVars
  <2>3. CASE Begin
    BY <2>3 DEF Begin, Promise!Begin
  <2>4. CASE ListUnspent \/ TakeInput \/ CreateRawTransaction
    BY <2>4 DEF ListUnspent, TakeInput, CreateRawTransaction, ChoiceMade
  <2>5. CASE WalletPassPhrase \/ WalletPassPhraseFails \/ SignRawTransaction \/ SignFails
    BY <2>5 DEF WalletPassPhrase, WalletPassPhraseFails, SignRawTransaction, SignFails,
       txVars, countVars
  <2>6. CASE WalletLock \/ WalletLockFails
    BY <2>2, <2>6 DEF WalletLock, Locked, WalletLockFails, AfterLock, Promise!Unclear, Promise!Panic
  <2>7. CASE Decline
    BY <2>7 DEF Decline, ChoiceMade, Promise!Declined
  <2>8. CASE SendRawTransaction
    <3>1. CASE Broadcast
      BY <2>1, <2>8, <3>1, BroadcastTxs DEF SendRawTransaction, Promise!Sent
    <3>2. CASE ~Broadcast
      BY <2>2, <2>8, <3>2 DEF SendRawTransaction, Promise!Unclear
    <3> QED
      BY <3>1, <3>2
  <2>9. CASE SendReplyLost
    BY <2>1, <2>2, <2>9, BroadcastTxs DEF SendReplyLost, Promise!Unclear
  <2>10. CASE CallFails
    BY <2>2, <2>10 DEF CallFails, Promise!Unclear
  <2>11. CASE ListPanics \/ Killed \/ Relaunch
    BY <2>11 DEF ListPanics, Killed, Relaunch, Promise!Panic, Promise!Killed,
       Promise!Relaunched
  <2>12. CASE Relock \/ CoinConfirmed \/ SpentElsewhere
    BY <2>12 DEF Relock, CoinConfirmed, SpentElsewhere
  <2>13. CASE UNCHANGED bitcoinSendVars
    BY <2>13 DEF bitcoinSendVars
  <2> QED
    BY <1>2, <2>3, <2>4, <2>5, <2>6, <2>7, <2>8, <2>9, <2>10, <2>11, <2>12, <2>13
       DEF BitcoinSendNext
<1> QED
  BY <1>1, <1>2, BitcoinSendInvariant, PTL
     DEF BitcoinSendSpec, ImplementsAnchorSend, Promise!AnchorSendSpec
=============================================================================

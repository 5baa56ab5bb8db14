# anchormaker in TLA+

This directory specifies and verifies anchormaker, the program that anchors the
directory blocks of the Factom blockchain into Bitcoin and reports the anchors
back to Factom as anchor records. The definitions are translated from the Go
source under `src/`; `PROJECT.json` names the lines of each one.

## 1. The system

anchormaker is one goroutine that runs a loop (`newMain.go`), plus one that
counts interrupts. It owns one database and talks to two daemons over HTTP:
`factomd` (with `factom-walletd`) and `bitcoind` (with its wallet). It is not told
of anything; it asks.

| Component | State | Operations | Talks to |
|---|---|---|---|
| Main loop, interrupts (`newMain.go`) | where the process is; `blockCount + btcCount` of the iteration | `SynchronizationLoop` (both synchronizations until both find nothing), `AnchorLoop` (balances, Bitcoin, records), stop between two loops, emergency exit | calls all others |
| Anchor database (`database/`) | one `AnchorData` per directory block, the chain head, `ProgramState` | `InsertAnchorData`, `FetchAnchorData`, `UpdateAnchorDataHead`, `FetchProgramState`, `InsertProgramState` | called by the loops |
| Factom synchronization (`factom.SynchronizeFactomData`) | the list of fetched blocks, `LastFactomDBlockHeightChecked` | read new directory blocks, accept anchor records, add new blocks, move the head, save the checkpoint | factomd, database |
| Bitcoin synchronization (`bitcoin.SynchronizeBitcoinData`) | the listed transactions, `LastBitcoinBlockChecked` | find confirmed anchors, save txid and block hash, save the checkpoint | bitcoind, database |
| Bitcoin anchoring (`bitcoin.AnchorBlocksIntoBitcoin`) | a batch counter | send a transaction for the newest block, then for up to ten older ones | bitcoind, database |
| Record saving (`factom.SaveAnchorsIntoFactom`) | entry hashes in memory, a batch counter | reveal a record for each confirmed anchor, Bitcoin before Ethereum, and save both hashes | factomd, database |
| Setup and topup (`setup/`, `factom/`) | none of its own | create the two anchor chains and wait for them, buy entry credits and wait for them | factomd, walletd |
| Fees, inputs and wallet (`bitcoin/bitcoind.go`) | fee and fee multiplier | choose inputs, compute fee and change, create, unlock, sign, lock, send | bitcoind |
| OP_RETURN encoding (`bitcoin/tx.go`) | none | height and KeyMR to bytes and back | - |
| Ethereum (`ethereum/`) | the listed page, `LastEthereumBlockChecked` | as Bitcoin, over Etherscan's pages; `main` has the calls commented out, one call lacks an argument (`ethereum.go:180`) and `ad` is not declared where it is assigned (`ethereum.go:200`), so it is not part of the build | geth, Etherscan, database |
| Configuration and logging (`config/`, `anchorLog/`) | settings read once | - | all |
| bitcoind RPC client (`bitcoin/bitcoind/`) | none | one HTTP call each | bitcoind |
| factomd, bitcoind | chains, pools, wallet, accounts | external | - |

What each must get right: the database and the Factom synchronization must never let
head or checkpoint pass something that was not read; Bitcoin anchoring must send
each block once, unless a failure made it forget, and never leave one out; the
wallet call must spend only its own confirmed coins and leave the wallet locked;
record saving must reveal a true record for each confirmed anchor; setup must not
pay twice without a cause, and must not let the loop start unless its records can be
made; an interrupt must end the program, and only at the right place.

What makes it hard to test:

* **Several writes, no transaction.** `AnchorData`, chain head and `ProgramState` are
  written one after the other, and sending is never atomic with recording what
  was sent. The process can die, and a call can fail, between any two.
* **Replies get lost.** `sendrawtransaction` and the reveal may take effect although
  the caller sees an error.
* **The networks move on.** Blocks are mined, reorganised and transactions are
  evicted or malleated between two calls.
* **Replays.** Checkpoint 0 means both "nothing read" and "block 0 read"
  (`factom.go:106`), so block 0 is read again on top of what was learnt later.
* **Two kinds of database.** LDB and Bolt keep everything over a restart; Map loses
  anchors and checkpoints together.
* **Bounded batches that start at the chain head**, which must not starve anybody.
* **Paid steps that are waited for.** Entry credits and anchor chains are paid for and then
  waited for without limit; an error in between forgets the payment.
* **Two goroutines and two channels of one signal** share the interrupts, registered at
  different times.

`PROJECT.json` lists the hazards one by one, each at its line, with the properties
that would catch it.

## 2. The modules

```
AnchorProcess            AnchorDatabase ---------------------+
      |                   /          \                       |
      |        FactomNetwork        BitcoinNetwork      EthereumNetwork
      |          /        \               |                  |
      +-- FactomSync   FactomRecord   BitcoinAnchor     EthereumAnchor
      |        \            |             /
      +--------------- Anchormaker ------+        AnchorLifecycle (abstract)

OpReturn --- BitcoinSend      AnchorSend (abstract)          Startup
```

* `AnchorProcess` - the process: its program counter `pc`, and counts of the faults
  and failed calls it has met. Every part of the loop extends it, because the program is
  one thread that calls the components in sequence. `pc` has one value per place
  between two calls that change something: a crash can happen at each.
* `AnchorDatabase` - `AnchorDatabaseOverlay`: `anchorData[h]` is the `AnchorData` of
  directory block `h` or `Nil`, `chainHead` the height the `CHAIN_HEAD` record points
  at, `lastFactom` and `lastBitcoin` two fields of `ProgramState`.
  `UpdateAnchorDataHead` is the forward scan; `ScanDereferencesNil` is its other
  outcome. `ReopenDatabase` is what a new process finds.
* `FactomNetwork` (external) - factomd: entries that were revealed, those pending, and
  directory blocks that include them. An anchor record cites the KeyMR of its
  block, so it is in a later block (`RecordDelay`).
* `FactomSync` - `SynchronizeFactomData`. `SyncFactom` is the call, `FetchDBlock` and
  `FetchDone` the fetch loop, `ProcessEntry` the body of the entry loop (skip, save, or
  read through nil), `InsertDBlock`, `UpdateHead` and `SaveFactomState` the three
  writes that end a block.
* `BitcoinNetwork` (external) - bitcoind and its wallet: pool, block tree, main chain,
  `listsinceblock` with its fork point and `lastblock`.
* `BitcoinAnchor` - `SynchronizeBitcoinData` (`ListTransactions`, `ProcessTx`,
  `SaveBitcoinState`, `NothingListed`) and `AnchorBlocksIntoBitcoin` (`BeginAnchoring`,
  the newest block, the older ones), where sending (`SendNewest`, `SendOlder`) and the
  write of the txid (`RecordNewest`, `RecordOlder`) are steps of their own. Sending is
  one step here; the next two modules are about it.
* `BitcoinSend` - `SendRawTransactionToBTC` and `SendTransaction`, one bitcoind call per
  step, in satoshi: `ListUnspent`, `TakeInput` (the input loop), `Decline` or
  `CreateRawTransaction`, `WalletPassPhrase`, `SignRawTransaction`, `WalletLock`,
  `SendRawTransaction`. The wallet around it has coins, a lock and reasons to refuse.
  `OpReturn` is the payload, written and read back byte by byte.
* `AnchorSend` - what `AnchorBlockByHeight` relies on, and `BitcoinAnchor` assumes: a call
  sends at most one transaction, a txid says that it did, "" that it did not.
* `FactomRecord` - `SaveAnchorsIntoFactom`: one step per entry revealed, and one write
  per `AnchorData` for both hashes. factomd may drop an entry (`DropEntry`).
* `Anchormaker` - the composition: the main loop calls the three components; `Stop`,
  `Crash` and `Start` end and begin processes; both networks move at any time. Each
  component module also has a specification of its own, in which the rest of the
  program is a more general environment; that the composition is such an environment for
  `FactomSync` is checked and proved (`ImplementsFactomSync`).
  There `Ids` is `NetworkIds`, a finite set in a run and all numbers above 0 in the
  theorem, and `EntriesOfAll` allows for the entries of this process besides those of others.
* `AnchorLifecycle` - the promise in terms of one stage per block: unknown, new, sent,
  confirmed, revealed, finished, in this order, finished at any time.
* `Startup` - `main` from start to end: `CheckAndTopupBalances` and `TopupECAddress`
  (`BuyExactEC`, `TopupConfirmed`), `Setup` for both chains (`CheckChainHead`,
  `CommitChain`, `RevealChain`, `ChainConfirmed`), the databases, the two interrupt
  handlers with their channels, and the loop in three steps. It shares no state
  with the other modules: accounts, chains and signals here, anchors there.
* `EthereumNetwork` (external), `EthereumAnchor` - `SynchronizeEthereumData` with Etherscan's
  pages and `AnchorBlocksIntoEthereum`, in the places `main` has their calls commented
  out, with the missing argument supplied and `ad` declared.
* `AnchorDatabaseProofs` - lemmas about the operators of `AnchorDatabase`, which the proofs
  of all its users cite. `FactomSyncProofs`, `BitcoinAnchorProofs`, `FactomRecordProofs`,
  `EthereumAnchorProofs`, `BitcoinSendProofs` (also about `OpReturn`), `StartupProofs` -
  the theorems of one component each. `AnchormakerProofs` - those of the whole program,
  from the ones of its components. `MC*` - the modules TLC runs.

### Abstractions

Heights, txids, block hashes and entry hashes are numbers; 0 is Go's empty string.
A KeyMR is a function of the height, so it is not stored: a record or transaction
with another KeyMR is of another kind. The entries of one directory block and the
transactions of one listing are processed in any order. A listing, which is one
`listsinceblock` call and a few per transaction, is one step; so are commit and
reveal of an entry. Validation of a record is its kind: `anchor`, `wrongKeyMR` or
`unsigned`. Signatures, encodings other than OP_RETURN, logging and sleeping are left out.
In `BitcoinSend` a fee in BTC is a number of satoshi; the code compares floats, so at
equality both outcomes are possible. A byte has `Base` values, 256 in the program.
A coin that was confirmed stays so: no reorganisation comes between `listunspent` and
`sendrawtransaction`, and the second half of `NoDoubleOrUnconfirmedSpend` rests on it.

Two branches of the code are left out. `SkipEntry` skips a record with a wrong KeyMR; the panic
instead (`factom.go:173`) needs `IgnoreWrongEntries` off, which is on and never loaded from the
configuration. `TopupConfirmed` does not fail with "Balance was not increased!"
(`factom.go:526`): it is assumed that a purchase shows on the account once it is confirmed.

A failure is of one of two sorts. `errors` counts calls that fail without effect outside; `faults`
counts those after which something sent may be unrecorded (`crash`, `lostReply`, `unsaved`). Both
are bounded (`MaxErrors`, `MaxFaults`), as are heights (`MaxHeight`), entries (`MaxEntries`),
transactions (`MaxTxs`) and Bitcoin blocks that neither confirm nor bury anything, or replace others
(`MaxBtcBlocks`); `ReorgDepth` is how many blocks a reorganisation may replace. `AnchorBatch` is the
10 of both batches. `BitcoinSend` has `MaxCalls` and `MaxMishaps`, `Startup` has `MaxSignals`,
`MaxLosses` (deaths and failures after a payment) and `MaxErrors`, `EthereumNetwork`
`MaxOtherEthTxs` and `MaxEthBlocks`.

`epoch` and `of` of a transaction, `revealed`, `lockMissed` and the transactions' `unconfirmed` of
`BitcoinSend`, and `commits` and `exit` of `Startup` are history: the faults before a send, the
transaction a malleated one is a copy of, what this program revealed, whether it missed to lock the
wallet, what it spent, what it paid and how it ended. No action of the program reads them.

## 3. What is checked

| Run | Module | Shows |
|---|---|---|
| `FactomSyncStray` | `FactomSync` | Types; head, records and checkpoint consistent; progress kept; the process panics in the two known ways only. Three blocks, two records of any kind, one crash anywhere, one failed call |
| `BitcoinAnchorReorg` | `BitcoinAnchor` | With reorganisations of the tip, evictions, `MinConfirmations` 2 and a failed call: a stored block hash is that of a block with the stored transaction; a loop that ends with its batch not used up leaves no block out; every known block is confirmed in the end unless its transaction was dropped; the synchronization comes to an end again and again although it lists an anchor until that has two confirmations |
| `BitcoinSend` | `BitcoinSend` | Types; inputs equal outputs and fee; no coin is spent twice and none unconfirmed, over repeated calls; enough inputs are never refused; the height is read back; past its `walletlock` the wallet is open only if that call failed or the process was killed before it; the call implements `AnchorSend` |
| `FactomRecordLive` | `FactomRecord` | One record per anchor between two faults; a saved entry is about its anchor; every anchor confirmed in Bitcoin gets a record that is found, or was dropped by factomd |
| `EthereumAnchor` | `EthereumAnchor` | One transaction per block between two faults; no page is left half read; anchoring is reached unless a block fills a page or a foreign anchor is refused |
| `Startup` | `Startup` | Types; one purchase and one payment per chain, and one more for each loss; the loop runs with both chains and anchors with credits for all its records; the emergency exit needs five interrupts, an interrupt ends the process; anchoring goes on unless it cannot be paid |
| `Anchormaker` | `Anchormaker` | Types; one transaction per block between two faults; what the checkpoint has passed is known with txid and block hash; a confirmed anchor is not changed; every record revealed is true; it implements `AnchorLifecycle`. A stored database, a factomd that lags, a foreign record, a malleated transaction, clean stops, one fault of any kind |
| `AnchormakerMap` | `Anchormaker` | With a Map database that a crash empties: a confirmed anchor is found again before anything is sent, every block is read and gets its record, and the program implements `FactomSync` |
| `AnchormakerReplay` | `Anchormaker` | violation, see 5 |
| `AnchormakerLag` | `Anchormaker` | violation, see 5 |
| `BitcoinAnchorStale` | `BitcoinAnchor` | violation, see 5 |
| `BitcoinAnchorRpcError` | `BitcoinAnchor` | violation, see 5 |

**Bounds.** Two blocks are the least with a newest and an older one, and a batch of one makes both
batches overflow; `FactomSyncStray` has three blocks, so that a list of fetched blocks has a first,
a middle and a last one and a record can come one or two blocks after its block. One fault per run
is enough for every property that speaks of two sends "between faults", since both outcomes of each
fault and all places are tried; `MaxTxs` leaves room for a second transaction for a block after the
fault. The faults that lose a send are in `Anchormaker` only, and reorganisations in
`BitcoinAnchorReorg` (and `BitcoinAnchorStale`) only, one block at a time (`ReorgDepth` 1): a
replaced tip and two new blocks need `MaxBtcBlocks` 3, and deeper ones are left to the theorems.
`Unrelated` puts a listed transaction that is no anchor into the first Bitcoin block, so that a
listing is not empty at first and the checkpoint can move without an anchor. `BitcoinSend` has six
coins of two values, so that calls take one to six inputs, and two rates, one at which the change
can be dust and one at which it cannot; bytes of two bits, so that a height of 201 fills all four.
`Startup` has small costs, so that each balance can be below and above each threshold and enough to
try a purchase but not to pay it; five signals, for the emergency exit. `EthereumAnchor` has pages
of two, so that a page can end inside a block and a block can fill one. Deadlock is not checked: a
bounded run ends when its bounds are used up or the process has panicked.

**Fairness.** The process is a loop that never waits for anything but replies and
`time.Sleep`, so weak fairness of each component's steps and of the main loop says
that it runs. Failures are bounded, not fair. Of the environment, Bitcoin taking up its
whole pool, and mining on while `listsinceblock` waits for confirmations (`MineAll`),
is weakly fair: the program cannot confirm anything itself. factomd taking up a
purchase or a chain is weakly fair for the same reason. In `FactomRecord`, finding a record
that waits to be included (`RecordFound`) is strongly fair, since it is off while the
call runs and a loop passes through the synchronization again and again; an entry may
be dropped instead. The operator restarts a process that died. Other signers,
reorganisations and evictions have no fairness at all.

## 4. What is proved

With TLAPS, for every value of the constants that the `ASSUME`s allow:

| Theorem | Module | States |
|---|---|---|
| `FactomSyncTypeCorrect` | `FactomSyncProofs` | `[]FactomSyncTypeOK` |
| `HeadIsAlwaysComplete` | | `[]HeadIsCompletePrefix` |
| `RecordsAlwaysPointIntoChain` | | `[]RecordPointsIntoChain` |
| `CheckpointAlwaysCovers` | | `[]CheckpointCoversRecords` |
| `OnlyKnownPanicsHappen` | | `[]OnlyKnownPanics` |
| `StoredProgressAlwaysKept` | | `StoredProgressKept`, an action property |
| `StartupTypeCorrect` | `StartupProofs` | `[]StartupTypeOK` |
| `PurchasesAreBounded` | | `[]OnePurchasePerLoss` |
| `ChainsArePaidOnce` | | `[]ChainPaidOncePerLoss` |
| `LoopIsPrepared` | | `[]RecordsCanBeMade` |
| `EmergencyAfterFive` | | `[]EmergencyNeedsFive` |
| `BitcoinSendTypeCorrect` | `BitcoinSendProofs` | `[]BitcoinSendTypeOK` |
| `NeverSpendsTwice` | | `[]NoDoubleOrUnconfirmedSpend` |
| `WalletIsLocked` | | `[]LockedBetweenCalls` |
| `FundedAlwaysAccepted` | | `[]FundedIsAccepted` |
| `AlwaysReadBack` | | `[]ReadBackAsSent` |
| `AlwaysBalanced` | | `[]TxsBalance` |
| `CallKeepsPromise` | | `ImplementsAnchorSend`, the refinement of `AnchorSend` |
| `ReadBack` | | any 32-bit height and KeyMR are read back from the script made of them |
| `NoSecondSend` | `BitcoinAnchorProofs` | `[]AnchoredOncePerFault` |
| `CheckpointCoversAnchors` | | `[]CheckedAnchorsAreKnown` |
| `StoredAnchorsAreTrue` | | `[]StoredHashHoldsAnchor` |
| `ConfirmedAnchorsStay` | | `ConfirmedAnchorKept`, an action property |
| `EveryBlockConsidered` | | `NoBlockPassedOver`, an action property |
| `SavedEntriesAreAboutTheirAnchor` | `FactomRecordProofs` | `[]EntryIsAboutAnchor` |
| `OneRecordPerFault` | | `[]RevealedOncePerFault` |
| `NoSecondEthSend` | `EthereumAnchorProofs` | `[]EthSentOncePerFault` |
| `NoPageHalfRead` | | `[]CheckedEthAnchorsAreKnown` |
| `EthStoredAlwaysTrue` | | `[]EthStoredIsTrue`: a hash no record brought is that of a transaction with this KeyMR, in the stored Ethereum block if there is one |
| `EthHashStays` | | `EthHashIsFinal`, an action property: only a record changes an anchor that has a hash |
| `ProgramTypeCorrect` | `AnchormakerProofs` | `[]TypeOK` |
| `OwnRecordsAlwaysTrue` | | `[]OwnRecordsAreTrue` |
| `ProgramNoSecondSend` | | `[]AnchoredOncePerFault`, of the whole program |
| `ProgramCheckpointCovers` | | `[]CheckedAnchorsAreKnown`, of the whole program |
| `ProgramAnchorsStay` | | `ConfirmedAnchorKept`, of the whole program |
| `ProgramImplementsSync` | | `ImplementsFactomSync`, the refinement of `FactomSyncSpec`, if `NetworkIds = Nat \ {0}` |
| `ProgramKeepsPromise` | | `ImplementsLifecycle`, the refinement of `AnchorLifecycle`, if `Persistent` |
| `ProgramNeverSendsAgain` | | `ConfirmedNeverSentAgain`, an action property, if `Persistent` or not `FactomdLags` |
| `StoredAlwaysTrue` | | `[]StoredIsTrue`: a stored block hash is that of a block that holds an anchor of this directory block, unless another signer's record brought it |
| `HeadAlwaysRecorded` | | `[]HeadIsRecorded`: each block up to the chain head has its record in a later directory block, and a true anchor if the record is our own |
| `HeadAlwaysAnchored` | | `[]HeadIsAnchored`: each block up to the chain head has a true anchor, if nobody else signs records |
| `CostAlwaysBounded` | | `[]CostIsBounded`: at most `faults + 1` sends and `faults + 1` records of a block |
| `ProgramMissesNoRecord` | | `HeadIsCompletePrefix`, `CheckpointCoversRecords` and `RecordPointsIntoChain`, of the whole program |
| `ProgramPanicsAreKnown` | | `[]OnlyKnownPanics`, of the whole program |
| `ProgramRecordsOnce` | | `EntryIsAboutAnchor` and `RevealedOncePerFault`, of the whole program |
| `ProgramKeepsProgress` | | `StoredProgressKept`, of the whole program |
| `ProgramPassesNoBlock` | | `NoBlockPassedOver`, of the whole program |
| `RoundsEnd` | | `RoundEnds`, an action property: a rank decreases at every step of a round, but for a list that will be listed again (`MinConfirmations` above 1) |

**`FactomSync`**: any number of blocks and entries, any bound on the failures, every
`RecordDelay`, both kinds of database, a lagging factomd and foreign records. The
theorems follow from one inductive invariant `IInv`, whose parts are proved in turn:

1. `TypeInv` - types do not suffice on their own: `RecordHeight` gets the value of `cur`, which is a
   height only because the list of blocks lies inside the chain (`ListInChain`).
2. `OrderInv` - a record in block `b` is about a block at least `RecordDelay` below. So
   the height a record is saved with is never 0, which is what `IsComplete` tests.
3. `HeadIsCompletePrefix` and `RecordPointsIntoChain` - from 1 and 2, and from
   `AnchorsKeptOrLost`: every step keeps what is known, but for the loss of a Map
   database, which also loses the head.
4. `CoverInv` - every record below the block being processed is stored. The
   checkpoint property alone is not inductive: the checkpoint moves to a block that
   was covered piece by piece, and stays 0 while block 0 is read.
5. `ReadUpTo` - nothing is known of blocks more than one beyond the checkpoint.
   With 2 to 4 it leaves `lastFactom = 0`, `cur = 0` and `RecordDelay = 1` as the only
   way in which the scan of the head update can run past the last known block.

The environment of `FactomSyncSpec` is assumed to reveal true records only for closed blocks;
`ProgramImplementsSync` says that the rest of the program does. `Nil` is assumed to be neither an
`AnchorData` nor a height.

**`Startup`**: any balances, prices and thresholds, any number of starts, deaths, errors
and signals. It is assumed that a loop costs no more credits than the topup threshold
and the 100 the code asks for. The inductive invariant has a part per promise:

1. `PurchaseInv` - a process holds a purchase only while it waits, a finished one has
   put the threshold on the account, and each one without a process is a loss.
   `OnePurchasePerLoss` alone does not say why a forgotten purchase was counted.
2. `ChainInv` - a chain that is neither there nor between its commit and its
   confirmation has cost no more than the losses, so that there is room for one
   commit more; between head query and commit this has to be kept although the
   chain of an earlier process may appear.
3. `ChainOrder` - Setup enters with the Bitcoin chain and leaves it when that exists.
4. `SignalInv` - what `interruptLoop` counted and what waits for it was sent.

**`BitcoinSend`**: any coins, fee rates, dust limit and relay rate, any number of calls,
failures and other uses of the wallet. The parts of the inductive invariant:

1. `TypeInv` - also that `txs` is a sequence; the refinement counts with its length.
2. `SpendInv` - what is listed or chosen was confirmed when it was listed
   (`OldCoins`), and what a transaction spent is spent (`InputsSpent`).
   `NoDoubleOrUnconfirmedSpend` follows because bitcoind takes only coins that are not
   spent when they arrive: a coin that somebody else spends after `listunspent` is
   refused, not spent twice.
3. `LockInv` - the wallet is open between `walletpassphrase` and `walletlock`, or since
   a `walletlock` that failed or that the process did not live to call (`lockMissed`). A signature
   that failed, in either way, does not skip it.
4. `ScriptInv` - a script was made of the height it was sent for; `ReadBack`, a lemma
   of division with remainder, says what is read from it.

5. `BalanceInv` - what is listed and what is an input are different coins, `total` is what
   the inputs are worth, and once there is a transaction, also the change and the fee
   together. That inputs and total agree in every turn of the loop is what the fee
   arithmetic rests on.

`TxsBalance` is about a sum over a set of any size. The lemmas (`SumIsCount`, one coin more)
say what such a sum is and come by induction over the size; since no induction rule with a
predicate can be used here, `LeastNat` takes the least element of the set of sizes for which
the lemma fails. `FundedIsAccepted` is arithmetic on the definitions and the types. The refinement has a
step for every action: each is a stutter or one of `AnchorSend`'s.

**`BitcoinAnchor`**: any number of blocks and transactions, any batch and `MinConfirmations`,
reorganisations of any depth (`ReorgDepth`), evictions and malleated transactions, both kinds of
database; `ProgramInv` below adds the failures that lose a send, to all of these at once, where a
run has to choose among them. `BitcoinInv` consists of:

1. `BitcoinTypeInv` - ids and block numbers lie within what there is so far, and a block is
   younger than those below it.
2. `TxidFirst`, `SendingInv`, `TxEpochs` - what was sent since the last fault is recorded,
   or is the one transaction between `SendNewest`/`SendOlder` and its write, and the block that
   is being recorded still needs it. `AnchoredOncePerFault` alone does not say why the
   next send is for another block. A malleated copy counts with its original.
3. `ListedInBlocks`, `StoredBlocksExist`, `StoredHashHoldsAnchor` - a hash is stored with the
   txid from one and the same listing, and a block never changes its transactions when it
   leaves the main chain.
4. `SentBlocksKnown`, `ListedCovers`, `CheckedAnchorsAreKnown` - while a listing is worked
   off, what its `lastblock` will cover is settled or still listed. The fork point
   of a block is the key: all that is below it in a later main chain was in the earlier one
   as well (`ChainKept`).
5. `KnownPrefix`, `HeadComplete`, `OlderDoneBelow` - the loop over older blocks starts
   at the head, below which all is complete, and leaves nothing behind it.

`ConfirmedAnchorKept` needs 2: only the target of a send is written to without a look
at what is there, and it had no txid. `NoBlockPassedOver` needs 5.

**`FactomRecord`**: any number of blocks and entries, dropped entries and failures. The parts
of `RecordInv`: `AnchorsInOrder` (txid before hash before entry before record),
`EntriesNameAnchors`, `HeldInv` (an entry hash in memory is about the anchor at which
the loop stands, and that anchor has none yet), `RevealedInv` (what was revealed since
the last fault is saved or held). The last two give both properties.

**`EthereumAnchor`**: any page size, both settings of `IgnoreWrongEntries`. `EthereumInv` has
`EthSendingInv` and `EthEpochs` for the sends, as in `BitcoinAnchor`, and `EthPageCovers`: what
is in the blocks below the next checkpoint is settled or still on the page. It holds
because the block in which a full page ends is not checked yet: it is read again.
`EthTruth` is a second invariant on top of it: listed transactions are in the blocks they are
listed with, the hash that waits to be recorded is of the block it was sent for, and what is stored
is so. `EthStoredStep` says what one step does to the anchors; `EthHashStays` is read off it.

**`Anchormaker`**: `ProgramInv` joins the invariants of the three components, each of
which holds although the other two run: for each component the steps of the others are
shown to be steps of an environment that keeps its invariant. `FactomSync`'s, `IInv`, is
carried over whole by instantiating `FactomSyncProofs` with the refinement
mapping (`S`) and showing that every step of the program is one of `FactomSyncNext` or a
stutter; this is also `ProgramImplementsSync`. Four conjuncts relate the components:
`KnownAreClosed`, `EthereumByRecord` (no loop that is in the build fills in an Ethereum block
hash), `OwnEntries` and `OwnRecordsAreTrue`. `OwnEntries` bounds the entries of this process:
two of them differ in block or epoch (`OneRecordPerFault` again), so there are at most
`EntriesOfAll` entries in all, by a counting argument (`RoomToReveal`).

`ProgramKeepsPromise` maps a block to the stage that its `AnchorData` shows; `TxidFirst`,
`AnchorsInOrder` and `ConfirmedAnchorKept` make each write one step of `AnchorLifecycle`.

`ProgramNeverSendsAgain` follows from `ProgramCheckpointCovers` when the database is stored. For
a Map database it needs the order of `newMain.go`, both synchronizations before the
anchoring, as an invariant of its own, `CaughtUpInv`: what was ever sent for is closed
(`SentAreClosed`), is in the list once that is fetched (`SentAreFetched`), and known once the
Factom synchronization is through (`SentAreKnown`); so no listed anchor is skipped as unknown
(`ListedSettled`), and what the checkpoint passes is settled (`CheckedSettled`), even in a
database that was emptied a moment ago. The assumption that factomd does not lag is
needed: `AnchormakerLag` shows what happens otherwise, and `CostAlwaysBounded` what it can
cost: one send more of a block for every failure.

*What the database says is so.* `StoredIsTrue`: as long as there is no record, a block hash was
found in Bitcoin (`StoredHashHoldsAnchor`); with a record of our own, it is what the entry says
(`EntryIsAboutAnchor`), and our entries are true (`OwnRecordsAreTrue`). A record of another signer
is believed, by the code and so here. `HeadIsRecorded` adds that the record is in the chain, from
`OrderInv` and `RecordPointsIntoChain`, for every block that the chain head has passed; for
`HeadIsAnchored` all records have to be ours (`MaxEntries = 0`, no other signer). `CostIsBounded`
counts: transactions and records of one block differ in their epochs.

*What the components promise holds in the program.* Each invariant and action property
of `FactomSync`, `BitcoinAnchor` and `FactomRecord` that is proved of the component in an
environment of its own is also proved of the program in which the others are that
environment, from `ProgramInv`.

*Rounds end.* A round is one pass of `SynchronizationLoop` and, if that found nothing, `AnchorLoop`.
`RoundLeft` is the calls of the round that are still to come, each `listsinceblock` among them, the
turns left in the running loop, and the steps left in that turn: three naturals in lexicographic
order (`Shorter`, which `ShorterEnds` shows to be well-founded). Every step of the process decreases
it (`FactomSyncNearer`, `BitcoinNearer`, `RecordNearer`), ends the round, or is `ListsAgain`: a list
with blocks that have fewer than `MinConfirmations` confirmations, which the loop of
`SynchronizeBitcoinData` (`bitcoin.go:25-101`) lists, works off and asks for again, in the same
call, until Bitcoin has buried them. With `MinConfirmations` 1, the default (`config.go:105`), there
is no such list (`ListedOnce`), so no loop of a round runs for ever, unless Factom or Bitcoin grow
as fast as they are read: factomd may close a block while blocks are fetched, Bitcoin may mine one
while its blocks are listed, and nothing else puts a round back. With more, that one loop does run
until Bitcoin goes on, and `AnchoringReached` is model-checked under the fairness that it does. What
this leaves to fairness is that the calls return. Nor does it bound the passes of
`SynchronizationLoop`, which repeat while they find something.

**Only model-checked.** Liveness under fairness (`EveryBlockConfirmed`, `AnchoringReached`,
`EveryAnchorRecorded`, `EthereumGoesOn`, `InterruptHeeded`, `AnchoringGoesOn`, `EveryBlockRead`,
`EveryBlockGetsRecord`) cannot be proved with this prover; `RoundsEnd` is the part of it that needs no
fairness. Every other property of a passing run is a
theorem, and TLC checks it on the instances of section 3 as well.

## 5. Findings

* **Panic in the head update** (`AnchormakerReplay`, `database.go:117`). If the record for
  block 0 is in block 1 and a call fails before block 1 is inserted, block 0 is read
  again, is complete by now, and the scan reads the `AnchorData` of block 1, which is
  nil. Each restart does the same. `OnlyKnownPanicsHappen` proves that the replay of block
  0 is the only way to it, and that with records two blocks later it cannot happen.
* **Panic for an RPC error** (`BitcoinAnchorRpcError`, `bitcoind/bitcoind.go:748` and
  `:878`). The wrappers return neither a result nor an error; the callers at
  `bitcoin/bitcoind.go:212` and `:166` read through nil.
* **The block hash of the tip is stored** (`BitcoinAnchorStale`). `MinConfirmations` moves only the
  block the next listing starts from, and a stored hash is never updated.
* **A confirmed anchor is sent again** (`AnchormakerLag`). With a Map database, a
  restart while factomd lags skips anchors of blocks it does not know, moves the
  Bitcoin checkpoint past them, and sends those blocks again.

More that the models show and no property is violated by:

* `IsComplete` looks at Bitcoin only although a comment names both networks.
* A transaction that bitcoind drops, and an entry that factomd drops, are never sent
  again, since the txid or the hash is stored (`TxDropped` in `EveryBlockConfirmed`;
  the last conjunct of `EveryAnchorRecorded`).
* An Ethereum transaction whose hash was recorded when it was sent is skipped
  when it is listed, so its block hash stays empty and it gets no record
  (`EthHashStays`).
* Below 3.8 satoshi per byte the change can be dust, and with many inputs the fee for five
  can be less than the minimum: bitcoind refuses, in every loop (`FundedIsAccepted`
  says from where on it does not).
* With enough factoids to try a topup and too few to pay it, the loop does not
  anchor although the credits would do (`CannotPay` in `AnchoringGoesOn`).

## 6. What is not modelled

* The HTTP client has no timeout, so a daemon that never answers stops the loop; the
  models' calls return or fail.
* `UpdateFee`'s file, the rounding of floats, the wallet server that a purchase
  starts, the retries of the acknowledgement requests.
* Commit and reveal of an entry as two calls: an entry that is committed and not
  revealed has no effect but its cost, which `Startup` counts.
* Configuration and logging: read once, written only. The RPC client: one HTTP call
  per function, most of them never called; what matters of those that are, nil
  results for RPC errors, is in `BitcoinAnchor` and `BitcoinSend`.
* In the runs, reorganisations deeper than one block, and faults that lose a send together
  with reorganisations: the instances are too large for TLC. The theorems of section 4
  cover them, and both together.
* Reorganisations in `BitcoinSend`, and what it would take for a confirmed purchase not to show
  on the account (section 2).

## 7. Plan

What the plan had and was dropped: the refinement of `BitcoinAnchorSpec` and `FactomRecordSpec` by
the composition. Their environments leave out the faults that lose a send and make up entry ids, so
that their runs stay small; the program has both. `ProgramInv` carries their invariants over
instead, and the theorems about them are stated again for the program.

What is left:

1. Ethereum in the composition, if its calls in `main` are ever enabled: `EthereumByRecord` is then
   to be replaced by `EthStoredIsTrue`, and the head update to be asked about both networks.
2. A bound on the rounds, not only on the steps of one, until a block is recorded, in terms of the
   blocks that Bitcoin and Factom add meanwhile.

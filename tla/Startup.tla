------------------------------ MODULE Startup ------------------------------
(***************************************************************************)
(* main from its start to its end: Setup with the topup and the two anchor *)
(* chains (setup/setup.go, factom/factom.go), the databases, the handlers  *)
(* of interrupts, and the loop as a sequence of synchronization, balances  *)
(* and anchoring.  The anchoring itself is one step here, with what it     *)
(* spends; it is modelled by the other modules.                            *)
(*                                                                         *)
(* factomd's accounts and the operator are external.                       *)
(***************************************************************************)
EXTENDS Integers

CONSTANTS
    ECBalanceThreshold,       \* entry credits below which more are bought
    FactoidBalanceThreshold,  \* factoids below which none are bought
    LoopMinimum,              \* the 100 entry credits of AnchorLoop
    TopupPrice,               \* factoids that ECBalanceThreshold credits cost
    ChainCost,                \* entry credits of a new chain
    LoopCost,                 \* most entry credits of one AnchorLoop
    StartEC, StartFactoids,   \* what the accounts may hold at first
    Deposits,                 \* what the operator may pay in, once
    MaxSignals,               \* bound on the interrupts
    MaxLosses,                \* bound on deaths and failures after a send
    MaxErrors                 \* bound on failed calls with nothing sent

ASSUME StartupAssumption ==
    /\ {ECBalanceThreshold, FactoidBalanceThreshold, LoopMinimum, TopupPrice,
        ChainCost, LoopCost, MaxSignals, MaxLosses, MaxErrors} \subseteq Nat
    /\ StartEC \subseteq Nat /\ StartFactoids \subseteq Nat /\ Deposits \subseteq Nat
    /\ LoopCost <= LoopMinimum /\ LoopCost <= ECBalanceThreshold

VARIABLES
    ec, fct,     \* the balances factomd answers with
    own,         \* the purchase that TopupECAddress waits for
    lost,        \* purchases under way that no process waits for
    chain,       \* the two anchor chains
    commits,     \* history: commits paid for each of them
    pc,          \* where main is; "down" is no process
    caller,      \* who called CheckAndTopupBalances
    net,         \* the chain Setup is at
    listening,   \* the handlers of interrupts that are registered
    safe, quick, \* interrupts that wait in main's channel, in interruptLoop's
    taken,       \* interrupts interruptLoop has counted
    exit,        \* history: how the last process ended
    signals, paidIn, losses, errors   \* the bounded events so far

accountVars == <<ec, fct, own, lost, paidIn>>
chainVars == <<chain, commits>>
signalVars == <<listening, safe, quick, taken, signals>>
startupVars == <<accountVars, chainVars, signalVars, pc, caller, net, exit,
                 losses, errors>>

AnchorChains == {"Bitcoin", "Ethereum"}

\* The process is gone: its channels with it, and what it waited for.
Die(how) ==
    /\ pc' = "down" /\ exit' = how
    /\ listening' = "none" /\ safe' = 0 /\ quick' = 0 /\ taken' = 0
    /\ IF own = "pending" THEN own' = "none" /\ lost' = lost + 1
       ELSE own' = "none" /\ UNCHANGED lost

GoOn(l) ==
    /\ pc' = l
    /\ UNCHANGED <<exit, listening, safe, quick, taken>>

\* main panics when Setup returns an error; after one of AnchorLoop it goes on.
ReturnError ==
    IF caller = "setup" THEN Die("error") ELSE
        /\ GoOn("loop")
        /\ IF own = "pending" THEN own' = "none" /\ lost' = lost + 1
           ELSE own' = "none" /\ UNCHANGED lost

-----------------------------------------------------------------------------
(* CheckAndTopupBalances and TopupECAddress. *)

MinimumEC == IF caller = "setup" THEN ECBalanceThreshold \div 10 ELSE LoopMinimum

\* No topup, or it is done: Setup goes on with the chains, AnchorLoop anchors.
BalancesChecked ==
    /\ IF caller = "setup" THEN GoOn("head") ELSE GoOn("work")
    /\ own' = "none" /\ UNCHANGED lost

\* Mutants of CheckAndTopupBalances: without the lower bound; without the return
\* that goes on with the credits there are.
CheckAndTopupNoMinimum ==
    /\ pc = "balances"
    /\ \/ ec >= ECBalanceThreshold /\ BalancesChecked
       \/ ec < ECBalanceThreshold /\ fct < FactoidBalanceThreshold /\ BalancesChecked
       \/ ec < ECBalanceThreshold /\ fct >= FactoidBalanceThreshold
            /\ GoOn("buy") /\ UNCHANGED <<own, lost>>
    /\ UNCHANGED <<ec, fct, paidIn, chainVars, caller, net, signals,
                   losses, errors>>

CheckAndTopupAlwaysBuys ==
    /\ pc = "balances"
    /\ \/ ec >= ECBalanceThreshold /\ BalancesChecked
       \/ ec < ECBalanceThreshold /\ GoOn("buy") /\ UNCHANGED <<own, lost>>
    /\ UNCHANGED <<ec, fct, paidIn, chainVars, caller, net, signals,
                   losses, errors>>

CheckAndTopupBalances ==
    /\ pc = "balances"
    /\ \/ ec >= ECBalanceThreshold /\ BalancesChecked
       \/ /\ ec < ECBalanceThreshold /\ fct < FactoidBalanceThreshold
          /\ IF ec < MinimumEC THEN ReturnError ELSE BalancesChecked
       \/ /\ ec < ECBalanceThreshold /\ fct >= FactoidBalanceThreshold
          /\ GoOn("buy") /\ UNCHANGED <<own, lost>>
    /\ UNCHANGED <<ec, fct, paidIn, chainVars, caller, net, signals,
                   losses, errors>>

\* BuyExactEC buys the threshold, however much is missing; enough factoids to
\* try may be too few to pay.
BuyExactEC ==
    /\ pc = "buy"
    /\ IF fct >= TopupPrice
       THEN fct' = fct - TopupPrice /\ own' = "pending" /\ GoOn("topup")
            /\ UNCHANGED lost
       ELSE ReturnError /\ UNCHANGED fct
    /\ UNCHANGED <<ec, paidIn, chainVars, caller, net, signals,
                   losses, errors>>

\* Mutant of TopupConfirmed: an acknowledgement of any status ends the wait.
TopupAcknowledged ==
    /\ pc = "topup"
    /\ IF caller = "setup" THEN GoOn("head") ELSE GoOn("work")
    /\ own' = "none" /\ lost' = IF own = "pending" THEN lost + 1 ELSE lost
    /\ UNCHANGED <<ec, fct, paidIn, chainVars, caller, net, signals, losses, errors>>

\* The wait for "DBlockConfirmed" has no limit.  The balance is read again: it
\* is the threshold at least, since only this process spends from it.
TopupConfirmed ==
    /\ pc = "topup"
    /\ own = "done"
    /\ BalancesChecked
    /\ UNCHANGED <<ec, fct, paidIn, chainVars, caller, net, signals,
                   losses, errors>>

-----------------------------------------------------------------------------
(* The rest of Setup, and main up to its loop. *)

StartSetup ==
    /\ pc = "down"
    /\ pc' = "balances" /\ caller' = "setup" /\ net' = "Bitcoin"
    /\ exit' = "none"
    /\ UNCHANGED <<accountVars, chainVars, signalVars, losses, errors>>

\* Both anchor chains in turn, then the database.
NextChain ==
    IF net = "Bitcoin" THEN net' = "Ethereum" /\ GoOn("head")
    ELSE UNCHANGED net /\ GoOn("open")

\* Mutant of CheckChainHead: every start makes the chains.
CheckChainHeadAnew ==
    /\ pc = "head"
    /\ GoOn("commit")
    /\ UNCHANGED <<accountVars, chainVars, caller, net, signals, losses, errors>>

\* A chain that no block holds yet has no head.
CheckChainHead ==
    /\ pc = "head"
    /\ IF chain[net] = "exists" THEN NextChain ELSE GoOn("commit") /\ UNCHANGED net
    /\ UNCHANGED <<accountVars, chainVars, caller, signals, losses, errors>>

\* Mutant of CommitChain: the credits are not looked at.
CommitChainUnpaid ==
    /\ pc = "commit"
    /\ ec' = ec - ChainCost
    /\ commits' = [commits EXCEPT ![net] = @ + 1]
    /\ GoOn("reveal")
    /\ UNCHANGED <<own, lost, fct, paidIn, chain, caller, net, signals, losses, errors>>

\* factomd refuses a commit that the credits do not pay for.
CommitChain ==
    /\ pc = "commit"
    /\ IF ec >= ChainCost
       THEN /\ ec' = ec - ChainCost
            /\ commits' = [commits EXCEPT ![net] = @ + 1]
            /\ GoOn("reveal") /\ UNCHANGED <<own, lost>>
       ELSE Die("error") /\ UNCHANGED <<ec, commits>>
    /\ UNCHANGED <<fct, paidIn, chain, caller, net, signals, losses, errors>>

RevealChain ==
    /\ pc = "reveal"
    /\ chain' = [chain EXCEPT ![net] = IF @ = "none" THEN "pending" ELSE @]
    /\ GoOn("chain")
    /\ UNCHANGED <<accountVars, commits, caller, net, signals, losses, errors>>

\* Two waits, for the commit and for the reveal, again without limit.
ChainConfirmed ==
    /\ pc = "chain"
    /\ chain[net] = "exists"
    /\ NextChain
    /\ UNCHANGED <<accountVars, chainVars, caller, signals, losses, errors>>

OpenDatabase ==
    /\ pc = "open"
    /\ GoOn("notify")
    /\ UNCHANGED <<accountVars, chainVars, caller, net, signals,
                   losses, errors>>

\* main's handler; interruptLoop registers its own when it gets to run.
Notify ==
    /\ pc = "notify"
    /\ pc' = "loop" /\ listening' = "main"
    /\ UNCHANGED <<accountVars, chainVars, caller, net, safe, quick, taken, exit,
                   signals, losses, errors>>

Setup ==
    \/ StartSetup \/ CheckChainHead \/ CommitChain \/ RevealChain \/ ChainConfirmed
    \/ OpenDatabase \/ Notify

-----------------------------------------------------------------------------
(* The loop and the interrupts. *)

\* Mutant of LoopTop: an interrupt is only looked at when funds allow anchoring.
LoopTopFunded ==
    /\ pc = "loop"
    /\ IF safe = 1 /\ ec >= LoopMinimum THEN Die("clean")
       ELSE GoOn("sync") /\ UNCHANGED <<own, lost>>
    /\ UNCHANGED <<ec, fct, paidIn, chainVars, caller, net, signals,
                   losses, errors>>

LoopTop ==
    /\ pc = "loop"
    /\ IF safe = 1 THEN Die("clean") ELSE GoOn("sync") /\ UNCHANGED <<own, lost>>
    /\ UNCHANGED <<ec, fct, paidIn, chainVars, caller, net, signals,
                   losses, errors>>

Synchronized ==
    /\ pc = "sync"
    /\ caller' = "loop"
    /\ GoOn("balances")
    /\ UNCHANGED <<accountVars, chainVars, net, signals, losses, errors>>

\* The anchoring, and the records with the credits they cost.
Anchor ==
    /\ pc = "work"
    /\ \E k \in {0, LoopCost} : k <= ec /\ ec' = ec - k
    /\ GoOn("loop")
    /\ UNCHANGED <<fct, own, lost, paidIn, chainVars, caller, net, signals, losses, errors>>

Loop == LoopTop \/ Synchronized \/ Anchor

InterruptLoopListens ==
    /\ listening = "main"
    /\ listening' = "both"
    /\ UNCHANGED <<accountVars, chainVars, pc, caller, net, safe, quick, taken,
                   exit, signals, losses, errors>>

\* Mutant of CountInterrupt: the fourth interrupt ends the process.
CountInterruptToFour ==
    /\ quick = 1
    /\ IF taken = 3 THEN Die("emergency") /\ losses' = losses + 1 ELSE
        /\ quick' = 0 /\ taken' = taken + 1
        /\ UNCHANGED <<pc, exit, listening, safe, own, lost, losses>>
    /\ UNCHANGED <<ec, fct, paidIn, chainVars, caller, net, signals, errors>>

\* interruptLoop takes the next interrupt; the fifth ends the process at once.
CountInterrupt ==
    /\ quick = 1
    /\ IF taken = 4 THEN Die("emergency") /\ losses' = losses + 1 ELSE
        /\ quick' = 0 /\ taken' = taken + 1
        /\ UNCHANGED <<pc, exit, listening, safe, own, lost, losses>>
    /\ UNCHANGED <<ec, fct, paidIn, chainVars, caller, net, signals, errors>>

-----------------------------------------------------------------------------
(* Failures. *)

\* A call fails and nothing it sent is under way.
CallFails ==
    /\ errors < MaxErrors /\ errors' = errors + 1
    /\ \/ pc \in {"balances", "buy"} /\ ReturnError
       \/ pc \in {"head", "commit", "open"} /\ Die("error")
       \/ pc \in {"sync", "work"} /\ GoOn("loop") /\ UNCHANGED <<own, lost>>
    /\ UNCHANGED <<ec, fct, paidIn, chainVars, caller, net, signals, losses>>

Loses == losses < MaxLosses /\ losses' = losses + 1

\* The purchase is made but its reply, or an acknowledgement, does not arrive.
PurchaseLost ==
    /\ Loses
    /\ \/ pc = "topup" /\ UNCHANGED fct /\ ReturnError
       \/ /\ pc = "buy" /\ fct >= TopupPrice
          /\ fct' = fct - TopupPrice
          /\ lost' = lost + 1 /\ UNCHANGED own
          /\ IF caller = "setup"
             THEN /\ pc' = "down" /\ exit' = "error"
                  /\ UNCHANGED <<listening, safe, quick, taken>>
             ELSE GoOn("loop")
    /\ UNCHANGED <<ec, paidIn, chainVars, caller, net, signals, errors>>

\* The reveal or an acknowledgement fails once the commit is paid for.
ChainLost ==
    /\ Loses
    /\ pc \in {"reveal", "chain"}
    /\ Die("error")
    /\ UNCHANGED <<ec, fct, paidIn, chainVars, caller, net, signals, errors>>

Crash ==
    /\ Loses
    /\ pc # "down"
    /\ Die("crash")
    /\ UNCHANGED <<ec, fct, paidIn, chainVars, caller, net, signals, errors>>

-----------------------------------------------------------------------------
(* The operator and factomd. *)

\* Each registered channel holds one signal and takes no more; without a
\* handler the signal ends the process.
Interrupt ==
    /\ pc # "down"
    /\ signals < MaxSignals /\ signals' = signals + 1
    /\ IF listening = "none" THEN Die("killed") /\ losses' = losses + 1 ELSE
        /\ safe' = 1
        /\ quick' = IF listening = "both" THEN 1 ELSE quick
        /\ UNCHANGED <<pc, exit, listening, taken, own, lost, losses>>
    /\ UNCHANGED <<ec, fct, paidIn, chainVars, caller, net, errors>>

Deposit ==
    /\ paidIn = 0 /\ paidIn' = 1
    /\ \E d \in Deposits : fct' = fct + d
    /\ UNCHANGED <<ec, own, lost, chainVars, signalVars, pc, caller, net, exit,
                   losses, errors>>

\* A directory block takes up a purchase or a chain.
IncludePurchase ==
    /\ \/ own = "pending" /\ own' = "done" /\ UNCHANGED lost
       \/ lost > 0 /\ lost' = lost - 1 /\ UNCHANGED own
    /\ ec' = ec + ECBalanceThreshold
    /\ UNCHANGED <<fct, paidIn, chainVars, signalVars, pc, caller, net, exit,
                   losses, errors>>

IncludeChain ==
    /\ \E n \in AnchorChains :
        chain[n] = "pending" /\ chain' = [chain EXCEPT ![n] = "exists"]
    /\ UNCHANGED <<accountVars, commits, signalVars, pc, caller, net, exit,
                   losses, errors>>

StartupInit ==
    /\ ec \in StartEC /\ fct \in StartFactoids
    /\ own = "none" /\ lost = 0 /\ paidIn = 0
    /\ chain = [n \in AnchorChains |-> "none"]
    /\ commits = [n \in AnchorChains |-> 0]
    /\ pc = "down" /\ caller = "setup" /\ net = "Bitcoin" /\ exit = "none"
    /\ listening = "none" /\ safe = 0 /\ quick = 0 /\ taken = 0
    /\ signals = 0 /\ losses = 0 /\ errors = 0

Topup == CheckAndTopupBalances \/ BuyExactEC \/ TopupConfirmed

StartupNext ==
    \/ Topup \/ Setup \/ Loop
    \/ InterruptLoopListens \/ CountInterrupt
    \/ CallFails \/ PurchaseLost \/ ChainLost \/ Crash
    \/ Interrupt \/ Deposit \/ IncludePurchase \/ IncludeChain

StartupSpec == StartupInit /\ [][StartupNext]_startupVars

\* The process runs and is started again, and factomd takes up what it was sent.
StartupFairSpec ==
    /\ StartupSpec
    /\ WF_startupVars(Topup \/ Setup \/ Loop)
    /\ WF_startupVars(IncludePurchase)
    /\ WF_startupVars(IncludeChain)

-----------------------------------------------------------------------------
(* Properties. *)

InSetup == {"head", "commit", "reveal", "chain", "open", "notify"}
InLoop == {"loop", "sync", "work"}
Purchasing == {"balances", "buy", "topup"}

StartupTypeOK ==
    /\ ec \in Nat /\ fct \in Nat /\ lost \in Nat /\ paidIn \in 0..1
    /\ own \in {"none", "pending", "done"}
    /\ chain \in [AnchorChains -> {"none", "pending", "exists"}]
    /\ commits \in [AnchorChains -> Nat]
    /\ pc \in {"down"} \cup InSetup \cup InLoop \cup Purchasing
    /\ caller \in {"setup", "loop"}
    /\ net \in AnchorChains
    /\ listening \in {"none", "main", "both"}
    /\ safe \in 0..1 /\ quick \in 0..1 /\ taken \in 0..4
    /\ exit \in {"none", "clean", "error", "crash", "killed", "emergency"}
    /\ signals \in Nat /\ losses \in Nat /\ errors \in Nat

\* No more purchases are under way than one and one for each death or lost
\* reply, over all loops and restarts.
OnePurchasePerLoss ==
    lost + (IF own = "pending" THEN 1 ELSE 0) <= 1 + losses

\* A chain is paid for once, and again only after a death or a failure that came
\* between its commit and its confirmation.
ChainPaidOncePerLoss == \A n \in AnchorChains : commits[n] <= 1 + losses

\* The loop runs only when both anchor chains are in the blockchain, and anchors
\* only when the credits pay for all records of the loop.
RecordsCanBeMade ==
    /\ pc \in InLoop \/ (pc \in Purchasing /\ caller = "loop") =>
        \A n \in AnchorChains : chain[n] = "exists"
    /\ pc = "work" => ec >= LoopCost

\* "There is a separate goroutine for hard interrupts": it ends no process before
\* five interrupts were sent, though they reach two channels that drop some.
EmergencyNeedsFive == exit = "emergency" => signals >= 5

\* An interrupt that main was told of ends the process, also while every loop
\* ends in an error.
InterruptHeeded == safe = 1 ~> pc = "down"

\* Anchoring is tried again and again, unless the credits are used up and
\* the factoids are too few to try, or are enough to try and too few to pay.
CannotPay ==
    \/ ec < ECBalanceThreshold \div 10 /\ fct < FactoidBalanceThreshold
    \/ ec < LoopMinimum /\ fct < FactoidBalanceThreshold
    \/ ec < ECBalanceThreshold /\ fct >= FactoidBalanceThreshold /\ fct < TopupPrice
    \/ ec < ChainCost
AnchoringGoesOn == []<>(pc = "work") \/ <>[]CannotPay
=============================================================================

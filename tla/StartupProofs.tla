--------------------------- MODULE StartupProofs ---------------------------
(***************************************************************************)
(* Proofs about the start, the topup and the interrupts (Startup), for any *)
(* costs, thresholds and numbers of deaths and errors.  The inductive      *)
(* invariant has one part per promise, each proved from the types alone or *)
(* from the parts before it.                                               *)
(***************************************************************************)
EXTENDS Startup, TLAPS

-----------------------------------------------------------------------------
(* The inductive invariant. *)

\* A process has a purchase only while it waits for one; a finished one left
\* the threshold on the account; each purchase without a process cost a loss.
PurchaseInv ==
    /\ own # "none" => pc = "topup"
    /\ own = "done" => ec >= ECBalanceThreshold
    /\ lost <= losses

\* The process is between the commit of chain n and its confirmation.
Making(n) == pc \in {"reveal", "chain"} /\ net = n

\* A chain that is not there and not being made has cost at most the losses.
ChainInv ==
    \A n \in AnchorChains :
        /\ commits[n] <= losses + 1
        /\ chain[n] # "exists" /\ ~Making(n) => commits[n] <= losses
        /\ pc = "commit" /\ net = n => commits[n] <= losses

\* Setup is at the Bitcoin chain first, and leaves it when it exists.
ChainOrder ==
    /\ pc \in Purchasing /\ caller = "setup" => net = "Bitcoin"
    /\ pc \in {"head", "commit", "reveal", "chain"} /\ net = "Ethereum" =>
        chain["Bitcoin"] = "exists"
    /\ pc \in {"open", "notify"} =>
        \A n \in AnchorChains : chain[n] = "exists"
    /\ pc = "work" => caller = "loop"

\* What interruptLoop has counted and what waits for it was sent.
SignalInv == taken + quick <= signals

IInv ==
    /\ StartupTypeOK
    /\ PurchaseInv
    /\ ChainInv
    /\ ChainOrder
    /\ RecordsCanBeMade
    /\ SignalInv
    /\ EmergencyNeedsFive

-----------------------------------------------------------------------------
(* Types. *)

\* Every step keeps the types.
LEMMA TypeStep ==
    ASSUME StartupTypeOK, [StartupNext]_startupVars
    PROVE  StartupTypeOK'
<1> USE StartupAssumption
    DEF StartupTypeOK, accountVars, chainVars, signalVars, InSetup, InLoop,
        Purchasing, AnchorChains
<1>1. CASE CheckAndTopupBalances
  BY <1>1 DEF CheckAndTopupBalances, BalancesChecked, ReturnError, GoOn, Die
<1>2. CASE BuyExactEC
  BY <1>2 DEF BuyExactEC, ReturnError, GoOn, Die
<1>3. CASE TopupConfirmed
  BY <1>3 DEF TopupConfirmed, BalancesChecked, GoOn
<1>4. CASE StartSetup \/ OpenDatabase \/ Notify \/ InterruptLoopListens
  BY <1>4 DEF StartSetup, OpenDatabase, Notify, InterruptLoopListens, GoOn
<1>5. CASE CheckChainHead \/ ChainConfirmed
  BY <1>5 DEF CheckChainHead, ChainConfirmed, NextChain, GoOn
<1>6. CASE CommitChain
  BY <1>6 DEF CommitChain, GoOn, Die
<1>7. CASE RevealChain
  BY <1>7 DEF RevealChain, GoOn
<1>8. CASE LoopTop
  BY <1>8 DEF LoopTop, GoOn, Die
<1>9. CASE Synchronized \/ Anchor
  BY <1>9 DEF Synchronized, Anchor, GoOn
<1>10. CASE CountInterrupt
  BY <1>10 DEF CountInterrupt, Die
<1>11. CASE CallFails
  BY <1>11 DEF CallFails, ReturnError, GoOn, Die
<1>12. CASE PurchaseLost
  BY <1>12 DEF PurchaseLost, Loses, ReturnError, GoOn, Die
<1>13. CASE ChainLost \/ Crash
  BY <1>13 DEF ChainLost, Crash, Loses, Die
<1>14. CASE Interrupt
  BY <1>14 DEF Interrupt, Die
<1>15. CASE Deposit \/ IncludePurchase
  BY <1>15 DEF Deposit, IncludePurchase
<1>16. CASE IncludeChain
  BY <1>16 DEF IncludeChain
<1>17. CASE UNCHANGED startupVars
  BY <1>17 DEF startupVars
<1> QED
  BY <1>1, <1>2, <1>3, <1>4, <1>5, <1>6, <1>7, <1>8, <1>9, <1>10, <1>11, <1>12,
     <1>13, <1>14, <1>15, <1>16, <1>17 DEF StartupNext, Topup, Setup, Loop

-----------------------------------------------------------------------------
(* Purchases. *)

\* Every step keeps the account of the purchases.
LEMMA PurchaseStep ==
    ASSUME StartupTypeOK, PurchaseInv, [StartupNext]_startupVars
    PROVE  PurchaseInv'
<1> USE StartupAssumption DEF StartupTypeOK, PurchaseInv, accountVars
<1>1. CASE CheckAndTopupBalances
  BY <1>1 DEF CheckAndTopupBalances, BalancesChecked, ReturnError, GoOn, Die
<1>2. CASE BuyExactEC
  BY <1>2 DEF BuyExactEC, ReturnError, GoOn, Die
<1>3. CASE TopupConfirmed
  BY <1>3 DEF TopupConfirmed, BalancesChecked, GoOn
<1>4. CASE StartSetup \/ OpenDatabase \/ Notify \/ InterruptLoopListens
  BY <1>4 DEF StartSetup, OpenDatabase, Notify, InterruptLoopListens, GoOn
<1>5. CASE CheckChainHead \/ ChainConfirmed
  BY <1>5 DEF CheckChainHead, ChainConfirmed, NextChain, GoOn
<1>6. CASE CommitChain
  BY <1>6 DEF CommitChain, GoOn, Die
<1>7. CASE RevealChain \/ Synchronized \/ Anchor
  BY <1>7 DEF RevealChain, Synchronized, Anchor, GoOn
<1>8. CASE LoopTop
  BY <1>8 DEF LoopTop, GoOn, Die
<1>9. CASE CountInterrupt
  BY <1>9 DEF CountInterrupt, Die
<1>10. CASE CallFails
  BY <1>10 DEF CallFails, ReturnError, GoOn, Die
<1>11. CASE PurchaseLost
  BY <1>11 DEF PurchaseLost, Loses, ReturnError, GoOn, Die
<1>12. CASE ChainLost \/ Crash
  BY <1>12 DEF ChainLost, Crash, Loses, Die
<1>13. CASE Interrupt
  BY <1>13 DEF Interrupt, Die
<1>14. CASE Deposit \/ IncludePurchase \/ IncludeChain
  BY <1>14 DEF Deposit, IncludePurchase, IncludeChain
<1>15. CASE UNCHANGED startupVars
  BY <1>15 DEF startupVars
<1> QED
  BY <1>1, <1>2, <1>3, <1>4, <1>5, <1>6, <1>7, <1>8, <1>9, <1>10, <1>11, <1>12,
     <1>13, <1>14, <1>15 DEF StartupNext, Topup, Setup, Loop

-----------------------------------------------------------------------------
(* Chains. *)

\* A step that leaves the chains alone, and the chain Setup is making too or
\* else counts a loss, keeps what they may have cost.
LEMMA ChainsLeft ==
    ASSUME StartupTypeOK, ChainInv, StartupTypeOK', UNCHANGED chainVars,
           \/ UNCHANGED <<net, losses>> /\ pc \notin {"reveal", "chain"}
           \/ UNCHANGED <<pc, net, losses>>
           \/ losses' = losses + 1,
           pc' = "commit" => pc = "commit" /\ UNCHANGED net
    PROVE  ChainInv'
BY DEF StartupTypeOK, ChainInv, Making, chainVars, AnchorChains

\* Every step keeps what the chains may have cost.
LEMMA ChainStep ==
    ASSUME StartupTypeOK, StartupTypeOK', ChainInv, [StartupNext]_startupVars
    PROVE  ChainInv'
<1>1. CASE CheckAndTopupBalances \/ BuyExactEC \/ TopupConfirmed
  BY <1>1, ChainsLeft DEF CheckAndTopupBalances, BuyExactEC, TopupConfirmed,
     BalancesChecked, ReturnError, GoOn, Die
<1>2. CASE StartSetup
  BY <1>2 DEF StartupTypeOK, StartSetup, ChainInv, Making, chainVars, AnchorChains
<1>3. CASE OpenDatabase \/ Notify \/ InterruptLoopListens
  BY <1>3, ChainsLeft DEF OpenDatabase, Notify, InterruptLoopListens, GoOn
<1>4. CASE CheckChainHead \/ ChainConfirmed
  BY <1>4 DEF CheckChainHead, ChainConfirmed, NextChain, GoOn, StartupTypeOK,
     ChainInv, Making, chainVars, AnchorChains
<1>5. CASE CommitChain
  BY <1>5 DEF CommitChain, GoOn, Die, StartupTypeOK, ChainInv, Making, AnchorChains
<1>6. CASE RevealChain
  BY <1>6 DEF RevealChain, GoOn, StartupTypeOK, ChainInv, Making, AnchorChains
<1>7. CASE LoopTop \/ Synchronized \/ Anchor
  BY <1>7, ChainsLeft DEF LoopTop, Synchronized, Anchor, GoOn, Die
<1>8. CASE CountInterrupt \/ Interrupt
  BY <1>8, ChainsLeft DEF CountInterrupt, Interrupt, Die
<1>9. CASE CallFails
  BY <1>9, ChainsLeft DEF CallFails, ReturnError, GoOn, Die
<1>10. CASE PurchaseLost \/ ChainLost \/ Crash
  BY <1>10, ChainsLeft DEF PurchaseLost, ChainLost, Crash, Loses, ReturnError,
     GoOn, Die
<1>11. CASE Deposit \/ IncludePurchase
  BY <1>11, ChainsLeft DEF Deposit, IncludePurchase
<1>12. CASE IncludeChain
  BY <1>12 DEF IncludeChain, StartupTypeOK, ChainInv, Making, AnchorChains
<1>13. CASE UNCHANGED startupVars
  BY <1>13, ChainsLeft DEF startupVars
<1> QED
  BY <1>1, <1>2, <1>3, <1>4, <1>5, <1>6, <1>7, <1>8, <1>9, <1>10, <1>11, <1>12,
     <1>13 DEF StartupNext, Topup, Setup, Loop

-----------------------------------------------------------------------------
(* Chains and credits before the loop. *)

\* Every step keeps the order of Setup and what the loop needs.
LEMMA LoopStep ==
    ASSUME StartupTypeOK, StartupTypeOK', PurchaseInv, ChainOrder,
           RecordsCanBeMade, [StartupNext]_startupVars
    PROVE  ChainOrder' /\ RecordsCanBeMade'
<1> USE StartupAssumption
    DEF StartupTypeOK, ChainOrder, RecordsCanBeMade, chainVars, accountVars,
        InSetup, InLoop, Purchasing, AnchorChains
<1>1. CASE CheckAndTopupBalances
  BY <1>1 DEF CheckAndTopupBalances, BalancesChecked, ReturnError, GoOn, Die,
     MinimumEC
<1>2. CASE BuyExactEC
  BY <1>2 DEF BuyExactEC, ReturnError, GoOn, Die
<1>3. CASE TopupConfirmed
  BY <1>3 DEF TopupConfirmed, BalancesChecked, GoOn, PurchaseInv
<1>4. CASE StartSetup \/ OpenDatabase \/ Notify \/ InterruptLoopListens
  BY <1>4 DEF StartSetup, OpenDatabase, Notify, InterruptLoopListens, GoOn
<1>5. CASE CheckChainHead \/ ChainConfirmed
  BY <1>5 DEF CheckChainHead, ChainConfirmed, NextChain, GoOn
<1>6. CASE CommitChain
  BY <1>6 DEF CommitChain, GoOn, Die
<1>7. CASE RevealChain
  BY <1>7 DEF RevealChain, GoOn
<1>8. CASE LoopTop \/ Synchronized \/ Anchor
  BY <1>8 DEF LoopTop, Synchronized, Anchor, GoOn, Die
<1>9. CASE CountInterrupt \/ Interrupt
  BY <1>9 DEF CountInterrupt, Interrupt, Die
<1>10. CASE CallFails
  BY <1>10 DEF CallFails, ReturnError, GoOn, Die
<1>11. CASE PurchaseLost \/ ChainLost \/ Crash
  BY <1>11 DEF PurchaseLost, ChainLost, Crash, Loses, ReturnError, GoOn, Die
<1>12. CASE Deposit \/ IncludePurchase
  BY <1>12 DEF Deposit, IncludePurchase
<1>13. CASE IncludeChain
  BY <1>13 DEF IncludeChain
<1>14. CASE UNCHANGED startupVars
  BY <1>14 DEF startupVars
<1> QED
  BY <1>1, <1>2, <1>3, <1>4, <1>5, <1>6, <1>7, <1>8, <1>9, <1>10, <1>11, <1>12,
     <1>13, <1>14 DEF StartupNext, Topup, Setup, Loop

-----------------------------------------------------------------------------
(* Interrupts. *)

\* What every other step does to the handlers: nothing, or the process is gone.
HandlersLeft ==
    /\ signals' = signals
    /\ \/ taken' = taken /\ quick' = quick
       \/ taken' = 0 /\ quick' = 0
    /\ exit' = "emergency" => exit = "emergency"

LEMMA OtherStep ==
    ASSUME \/ Topup \/ Setup \/ Loop \/ InterruptLoopListens
           \/ CallFails \/ PurchaseLost \/ ChainLost \/ Crash
           \/ Deposit \/ IncludePurchase \/ IncludeChain \/ UNCHANGED startupVars
    PROVE  HandlersLeft
<1> USE DEF HandlersLeft, signalVars
<1>1. CASE Topup
  BY <1>1 DEF Topup, CheckAndTopupBalances, BuyExactEC, TopupConfirmed,
     BalancesChecked, ReturnError, GoOn, Die
<1>2. CASE Setup
  BY <1>2 DEF Setup, StartSetup, CheckChainHead, CommitChain, RevealChain,
     ChainConfirmed, OpenDatabase, Notify, NextChain, GoOn, Die
<1>3. CASE Loop
  BY <1>3 DEF Loop, LoopTop, Synchronized, Anchor, GoOn, Die
<1>4. CASE CallFails
  BY <1>4 DEF CallFails, ReturnError, GoOn, Die
<1>5. CASE PurchaseLost \/ ChainLost \/ Crash
  BY <1>5 DEF PurchaseLost, ChainLost, Crash, ReturnError, GoOn, Die
<1>6. CASE InterruptLoopListens \/ Deposit \/ IncludePurchase \/ IncludeChain
  BY <1>6 DEF InterruptLoopListens, Deposit, IncludePurchase, IncludeChain
<1>7. CASE UNCHANGED startupVars
  BY <1>7 DEF startupVars
<1> QED
  BY <1>1, <1>2, <1>3, <1>4, <1>5, <1>6, <1>7

\* Every step keeps the count of the interrupts.
LEMMA SignalStep ==
    ASSUME StartupTypeOK, SignalInv, EmergencyNeedsFive,
           [StartupNext]_startupVars
    PROVE  SignalInv' /\ EmergencyNeedsFive'
<1> USE DEF SignalInv, EmergencyNeedsFive
<1>1. /\ signals \in Nat /\ taken \in Nat /\ taken <= 4
      /\ quick = 0 \/ quick = 1
  BY DEF StartupTypeOK
<1>2. CASE HandlersLeft
  BY <1>1, <1>2 DEF HandlersLeft
<1>3. CASE CountInterrupt
  BY <1>1, <1>3 DEF CountInterrupt, Die
<1>4. CASE Interrupt
  BY <1>1, <1>4 DEF Interrupt, Die
<1> QED
  BY <1>2, <1>3, <1>4, OtherStep DEF StartupNext

-----------------------------------------------------------------------------
(* The theorems. *)

\* A first start has no purchase, chain or interrupt.
LEMMA InitInv == StartupInit => IInv
BY StartupAssumption DEF StartupInit, IInv, StartupTypeOK, PurchaseInv, ChainInv,
   Making, ChainOrder, RecordsCanBeMade, SignalInv, EmergencyNeedsFive, InSetup,
   InLoop, Purchasing, AnchorChains

\* IInv is inductive.
LEMMA NextInv == IInv /\ [StartupNext]_startupVars => IInv'
<1> SUFFICES ASSUME IInv, [StartupNext]_startupVars PROVE IInv'
  OBVIOUS
<1>1. StartupTypeOK'
  BY TypeStep DEF IInv
<1>2. PurchaseInv'
  BY PurchaseStep DEF IInv
<1>3. ChainInv'
  BY <1>1, ChainStep DEF IInv
<1>4. ChainOrder' /\ RecordsCanBeMade'
  BY <1>1, LoopStep DEF IInv
<1>5. SignalInv' /\ EmergencyNeedsFive'
  BY SignalStep DEF IInv
<1> QED
  BY <1>1, <1>2, <1>3, <1>4, <1>5 DEF IInv

\* The inductive invariant holds in every reachable state.
THEOREM StartupInvariant == StartupSpec => []IInv
BY InitInv, NextInv, PTL DEF StartupSpec

\* main, its accounts and its handlers keep their types; a balance is never
\* negative.
THEOREM StartupTypeCorrect == StartupSpec => []StartupTypeOK
<1>1. IInv => StartupTypeOK
  BY DEF IInv
<1> QED
  BY <1>1, StartupInvariant, PTL

\* TopupECAddress: whatever the number of starts, no more purchases are under way
\* than one and one for each death or lost reply.
THEOREM PurchasesAreBounded == StartupSpec => []OnePurchasePerLoss
<1>1. IInv => OnePurchasePerLoss
  BY DEF IInv, StartupTypeOK, PurchaseInv, OnePurchasePerLoss
<1> QED
  BY <1>1, StartupInvariant, PTL

\* CheckAndCreateBitcoinAnchorChain (and the one for Ethereum) pays for a chain once, and once more for each death
\* or failure between a commit and its confirmation.
THEOREM ChainsArePaidOnce == StartupSpec => []ChainPaidOncePerLoss
<1>1. IInv => ChainPaidOncePerLoss
  BY DEF IInv, StartupTypeOK, ChainInv, ChainPaidOncePerLoss, AnchorChains
<1> QED
  BY <1>1, StartupInvariant, PTL

\* The loop runs with both anchor chains, and anchors with the credits for all
\* its records.
THEOREM LoopIsPrepared == StartupSpec => []RecordsCanBeMade
<1>1. IInv => RecordsCanBeMade
  BY DEF IInv
<1> QED
  BY <1>1, StartupInvariant, PTL

\* interruptLoop ends the process only after five interrupts.
THEOREM EmergencyAfterFive == StartupSpec => []EmergencyNeedsFive
<1>1. IInv => EmergencyNeedsFive
  BY DEF IInv
<1> QED
  BY <1>1, StartupInvariant, PTL
=============================================================================

-------------------------- MODULE AnchorLifecycle --------------------------
(***************************************************************************)
(* What anchormaker promises for each directory block, told without its    *)
(* database, its loops or the networks ("Anchoring order" in               *)
(* Anchormaker Design.md): a block goes through its stages in order, may   *)
(* be finished at any time by a record found in Factom, and is left alone  *)
(* by the loops only when it and all blocks below it are finished.         *)
(***************************************************************************)
EXTENDS Integers

CONSTANT Heights   \* the heights of the directory blocks

VARIABLES
    stage,  \* the stage of each block
    done    \* blocks below done are no longer looked at

lifecycleVars == <<stage, done>>

Stages == {"unknown", "new", "sent", "confirmed", "revealed", "finished"}

LifecycleInit ==
    /\ stage = [h \in Heights |-> "unknown"]
    /\ done = 0

Moves(h, from, to) ==
    /\ stage[h] \in from
    /\ stage' = [stage EXCEPT ![h] = to]
    /\ UNCHANGED done

Learn(h) ==
    /\ \A k \in Heights : k < h => stage[k] # "unknown"
    /\ Moves(h, {"unknown"}, "new")
Send(h) == Moves(h, {"new"}, "sent")
\* A confirmed anchor may be one whose sending was not recorded.
Confirm(h) == Moves(h, {"new", "sent"}, "confirmed")
RevealRecordOf(h) == Moves(h, {"confirmed"}, "revealed")
Finish(h) == Moves(h, Stages \ {"unknown"}, "finished")

Leave ==
    /\ done' > done
    /\ \A h \in Heights : h < done' => stage[h] = "finished"
    /\ UNCHANGED stage

LifecycleNext ==
    \/ \E h \in Heights :
        Learn(h) \/ Send(h) \/ Confirm(h) \/ RevealRecordOf(h) \/ Finish(h)
    \/ Leave

LifecycleSpec == LifecycleInit /\ [][LifecycleNext]_lifecycleVars
=============================================================================

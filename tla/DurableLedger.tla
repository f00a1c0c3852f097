--------------------------- MODULE DurableLedger ---------------------------
(***************************************************************************)
(* What a node promises about irreversible blocks: they are a sequence     *)
(* that only grows while the node runs, and the part of it that was        *)
(* written out is still there after a crash, whatever was lost on the way. *)
(* Forks, undo sessions, the fork database and the files are left out:     *)
(* ChainDatabase implements it.                                            *)
(***************************************************************************)
EXTENDS Integers, Sequences, SequencesExt

VARIABLES blocks,   \* the irreversible blocks
          durable,  \* how many of them are safe on disk
          opened    \* whether the node has just been started

vars == <<blocks, durable, opened>>

Init == blocks = <<>> /\ durable = 0 /\ opened = TRUE

\* While it runs the node adds blocks and writes them out.
Run == /\ opened' = FALSE
       /\ IsPrefix(blocks, blocks')
       /\ durable' \in durable .. Len(blocks')

\* The node stops and is started again: blocks that were not written out may
\* be gone, the last ones first.
Restart == /\ opened' = TRUE
           /\ \E n \in durable .. Len(blocks) : /\ blocks' = SubSeq(blocks, 1, n)
                                                /\ durable' \in durable .. n

Next == Run \/ Restart

Spec == Init /\ [][Next]_vars
=============================================================================

------------------------------- MODULE MCSmpp -------------------------------
(* The SMPP service for TLC, with gateways that fail and are replaced: two  *)
(* messages of one part each, named like its message, for the safety run,   *)
(* and one message of all the parts for the liveness run.                   *)
EXTENDS Smpp, TLC, SequencesExt

MCParts == [m \in Messages |-> <<m>>]
MCAllParts == [m \in Messages |-> SetToSeq(Chunks)]

MCSymmetry == Permutations(Chunks)
=============================================================================

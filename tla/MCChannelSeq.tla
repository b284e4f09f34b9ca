---------------------------- MODULE MCChannelSeq ----------------------------
(* Instances of the sequence numbers: the callers, the store and the number  *)
(* of calls are chosen in the configurations.                                *)
EXTENDS ChannelSeq, TLC

Symmetry == Permutations(Caller)
=============================================================================

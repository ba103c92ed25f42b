-------------------------- MODULE MCLongTermMemory --------------------------
(* Small instances of LongTermMemory for TLC. *)
EXTENDS LongTermMemory, TLC

Setting(enabled, auto, ttl) ==
    [enabled |-> enabled, auto |-> auto, detection |-> TRUE, ttl |-> ttl]
MCSettings == {Setting(TRUE, FALSE, FALSE), Setting(FALSE, FALSE, FALSE), Setting(TRUE, TRUE, TRUE)}
CallerSymmetry == Permutations(Callers)
=============================================================================

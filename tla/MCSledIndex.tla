---------------------------- MODULE MCSledIndex ----------------------------
(* Small instances of SledIndex for TLC. *)
EXTENDS SledIndex, TLC

MCDatum == (Val \cup {SchemaSlot, Indexed}) \X {1, 2}

Symmetry == Permutations(Conn) \cup Permutations(Val)
            \cup Permutations(Table)
=============================================================================

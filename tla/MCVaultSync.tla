----------------------------- MODULE MCVaultSync -----------------------------
(* Small instances of VaultSync for TLC. *)
EXTENDS VaultSync, TLC

\* Frames and edits are interchangeable.  Devices are kept apart only where a
\* temporal property is checked.
Symmetry == Permutations(Frames) \cup Permutations(Edits) \cup Permutations(Devices)
=============================================================================

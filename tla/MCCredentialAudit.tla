------------------------- MODULE MCCredentialAudit --------------------------
(***************************************************************************)
(* CredentialAudit instantiated for TLC.                                   *)
(***************************************************************************)
EXTENDS CredentialAudit, TLC

\* Accounts are interchangeable, and so are hashes.
Symmetry == Permutations(Addresses) \cup Permutations(Hashes)
=============================================================================

------------------------- MODULE MCAcrediaCredential -------------------------
(***************************************************************************)
(* The contract and the loop of batch_issue_credential, for TLC.           *)
(***************************************************************************)
EXTENDS BatchLoop, TLC

\* Accounts are interchangeable, and so are hashes.
Symmetry == Permutations(Addresses) \cup Permutations(Hashes)
=============================================================================

-------------------------- MODULE MCStudentAccounts --------------------------
(* StudentAccounts instantiated for TLC.                                    *)
EXTENDS StudentAccounts, TLC

\* Ids, addresses, wallets, challenges and requests are interchangeable.
Symmetry == Permutations(RowIds) \cup Permutations(AccountIds) \cup Permutations(Emails)
            \cup Permutations(Nonces) \cup Permutations(Requests)
=============================================================================

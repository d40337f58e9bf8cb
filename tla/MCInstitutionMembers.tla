------------------------ MODULE MCInstitutionMembers ------------------------
(* InstitutionMembers instantiated for TLC.                                 *)
EXTENDS InstitutionMembers, TLC

\* Users are interchangeable, and so are requests.
Symmetry == Permutations(Users) \cup Permutations(Requests)
=============================================================================

------------------------ MODULE MCPublicVerification ------------------------
(* PublicVerification instantiated for TLC.                                 *)
EXTENDS PublicVerification, TLC
=============================================================================

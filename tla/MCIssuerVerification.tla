------------------------ MODULE MCIssuerVerification ------------------------
(* IssuerVerification on a small instance.                                  *)
EXTENDS IssuerVerification
=============================================================================

------------------------- MODULE CredentialRegistry -------------------------
(***************************************************************************)
(* What the contract promises to a verifier: a registry of credentials,    *)
(* looked up by hash, to which transactions add entries and in which the   *)
(* only later change to an entry is that it becomes revoked.               *)
(***************************************************************************)
EXTENDS Integers

VARIABLE registry   \* the credential found under each anchored hash

Anchored == DOMAIN registry

Init == registry = [h \in {} |-> 0]

(* One transaction anchors credentials of one issuer, unrevoked, each under *)
(* its own hash, and touches no entry that was there.                       *)
Anchor ==
    LET new == DOMAIN registry' \ Anchored IN
    /\ Anchored \subseteq DOMAIN registry'
    /\ \A h \in Anchored : registry'[h] = registry[h]
    /\ \A h \in new : /\ registry'[h].credential_hash = h
                      /\ ~registry'[h].revoked
    /\ \A g, h \in new : /\ registry'[g].issuer = registry'[h].issuer
                         /\ registry'[g].issued_at = registry'[h].issued_at
                         /\ registry'[g].token_id = registry'[h].token_id => g = h

Revoke ==
    \E h \in Anchored :
        /\ ~registry[h].revoked
        /\ registry' = [registry EXCEPT ![h].revoked = TRUE]

Next == Anchor \/ Revoke

Spec == Init /\ [][Next]_registry
=============================================================================

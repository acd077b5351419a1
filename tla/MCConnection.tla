---------------------------- MODULE MCConnection ----------------------------
(* Model checking instance of Connection.  The connections belong to one   *)
(* transceiver that re-opens, or to two.  Only the secret for the          *)
(* protected endpoint matters.                                             *)
EXTENDS Connection

CONSTANTS c1, c2, g1, g2
MCOwners == {[c \in Conn |-> g1], [c \in Conn |-> IF c = c1 THEN g1 ELSE g2]}
MCProtected == {c1}
MCSecrets == {[c \in Conn |-> IF c = c1 THEN s ELSE "none"] : s \in SecretKind}
=============================================================================

------------------------------ MODULE MCListener ------------------------------
(* A listener with a payload cache and one without.                        *)
EXTENDS Listener, TLC

MCKind == ("tcp" :> "tcp") @@ ("websocket" :> "websocket")
=============================================================================

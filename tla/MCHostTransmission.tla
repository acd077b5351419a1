------------------------- MODULE MCHostTransmission -------------------------
(* Model checking instance of HostTransmission.                            *)
EXTENDS HostTransmission

(* Handlers that publish in answer to an event or a transition.            *)
Reactions == {<<"event", "update">>, <<"transition", "update">>}
NoReaction == {}
=============================================================================

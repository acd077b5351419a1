------------------------------- MODULE MCDaemon -------------------------------
(* Guests at an address that rules match by every length of prefix, with   *)
(* and without a name of their own; one guest is at a local endpoint.      *)
EXTENDS Daemon

At(bits) == [version |-> "v4", bits |-> bits]
All      == At(<<0, 0>>) @@ [prefix |-> 0]
Half     == At(<<1, 1>>) @@ [prefix |-> 1]
One      == At(<<1, 0>>) @@ [prefix |-> 2]
Other    == [version |-> "v6", bits |-> <<1, 0, 0>>, prefix |-> 0]

MCRuleKeys ==
    {[network |-> All, client |-> "", priority |-> 1],
     [network |-> Half, client |-> "", priority |-> 0],
     [network |-> One, client |-> "n", priority |-> 1],
     [network |-> Other, client |-> "", priority |-> 0]}

MCEndpointOf == (2 :> [scheme |-> "tcp", address |-> At(<<1, 0>>)]) @@ (3 :> [scheme |-> "local"])
MCNameOf     == (2 :> "n") @@ (3 :> "m")
MCSecretOf   == (2 :> "s") @@ (3 :> Unset)
MCKey     == {[key |-> "kept"], [key |-> "cleaned"]}
MCCleanup == {[key |-> "cleaned"]}
=============================================================================

------------------------- MODULE MCUpgradeLongevity -------------------------
(* Instances of UpgradeLongevity for TLC. *)
EXTENDS UpgradeLongevity

MCOtherEvents == {"deployApps", UpgradeVolumeDriver, UpgradeCluster}
MCInitialEvents == <<"deployApps">>
MCHopNames == {"px-2.9", "px-3.1", "px-3.2", "px-3.3", "k8s-1.29"}
OneEndpoint == <<"px-3.1">>
TwoEndpoints == <<"px-3.1", "px-3.2">>
OneHop == <<"k8s-1.29">>
AllEnabled == Goroutines
TestsEnabled == Tests
NoHops == <<>>

\* An edit that appends an endpoint and disables a trigger, and one with a single
\* endpoint, no hops, and a level that is not a number.
LongerList == [endpoints |-> <<"px-3.1", "px-3.2", "px-3.3">>, hops |-> OneHop,
               keys |-> Tests, enabled |-> {}, malformed |-> FALSE]
ShorterList == [endpoints |-> <<"px-2.9">>, hops |-> NoHops,
                keys |-> Goroutines, enabled |-> Tests, malformed |-> TRUE]
Edits == {LongerList, ShorterList}
=============================================================================

-------------------------- MODULE MCProtocolStack --------------------------
(***************************************************************************)
(* Addresses for model checking ProtocolStack: one local IP address and    *)
(* INADDR_ANY on one port, or one address only.                            *)
(***************************************************************************)
EXTENDS ProtocolStack, TLC

OneIp == [ip |-> "ip", port |-> 80]
AnyIp == [ip |-> "any", port |-> 80]

OneLocal == {OneIp}
LocalAndAny == {OneIp, AnyIp}
AnyOnly == {AnyIp}
NoAny == {}

Symmetry == Permutations(Threads) \cup Permutations(Peers)
=============================================================================

---------------------------- MODULE MCTcpSegment ----------------------------
(***************************************************************************)
(* Two hosts, and the words at which carries and complements turn over.    *)
(***************************************************************************)
EXTENDS TcpSegment

TwoHosts == {[hi |-> 2560, lo |-> 1], [hi |-> 65535, lo |-> 65534]}
=============================================================================

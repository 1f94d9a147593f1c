------------------------------ MODULE MCProxy -------------------------------
(* Bounds of the proxy: see Proxy.cfg. *)
EXTENDS Proxy

CONSTANTS c1, c2, c3

EveryHost == [method : {"GET"}, host : {"none", "origin", "self"}]
=============================================================================

----------------------------- MODULE MCRpcServer ----------------------------
(* Node a calls node b, which pings it back and is also seen under a second*)
(* address.                                                                *)
EXTENDS RpcServer

TwoNodes == {"a", "b"}

ThreeAddrs == {"addr_a", "addr_b", "alias_b"}

Owners == [x \in ThreeAddrs |-> IF x = "addr_a" THEN "a" ELSE "b"]

Addresses == [n \in TwoNodes |-> IF n = "a" THEN "addr_a" ELSE "addr_b"]

SameTxid == [n \in TwoNodes |-> 1]

OneCaller == [n \in TwoNodes |-> IF n = "a" THEN {"b"} ELSE {}]
=============================================================================

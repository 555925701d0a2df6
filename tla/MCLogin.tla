------------------------------ MODULE MCLogin ------------------------------
(* Login for TLC: two browsers, each behind an address of its own.         *)
EXTENDS Login

CONSTANTS b1, b2, ip1, ip2

MCIpOf == [b \in Browsers |-> IF b = b1 THEN ip1 ELSE ip2]
=============================================================================

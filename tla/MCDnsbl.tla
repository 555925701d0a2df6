------------------------------ MODULE MCDnsbl ------------------------------
(* Dnsbl for TLC: one zone, which can become listed and be cleared.         *)
EXTENDS Dnsbl, TLC

CONSTANTS z1

OneZone == <<z1>>
=============================================================================

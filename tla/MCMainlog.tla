----------------------------- MODULE MCMainlog -----------------------------
(* One message and lines that are no events; an arrival's line is longer.  *)
EXTENDS Mainlog

MCLength == [sym \in Symbols \cup {"other"} |-> IF sym = "<=" THEN 2 ELSE 1]
=============================================================================

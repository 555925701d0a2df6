---------------------------- MODULE MCReputation ----------------------------
(* Reputation for TLC: a message that a local mailbox sends, and one that   *)
(* it receives.                                                             *)
EXTENDS Reputation

CONSTANTS out, in

Inside == [box |-> "info", domain |-> "local"]
Outside == [box |-> "someone", domain |-> "remote"]
MCSenderOf == [m \in Msgs |-> IF m = out THEN Inside ELSE Outside]
MCRecipientOf == [m \in Msgs |-> IF m = out THEN Outside ELSE Inside]
MCEvents == ({out} \X {"<=", "=>", "==", "**", "Completed"}) \cup ({in} \X {"<=", "=>"})
=============================================================================

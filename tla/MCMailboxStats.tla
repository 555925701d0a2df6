--------------------------- MODULE MCMailboxStats ---------------------------
(* One domain with a mailbox and one without.                              *)
EXTENDS MailboxStats

CONSTANTS a

MCDomainOf == [x \in {a} |-> "d"]
MCSteps == <<"du", "forwarders">>
=============================================================================

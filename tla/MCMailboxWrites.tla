-------------------------- MODULE MCMailboxWrites --------------------------
(* MailboxWrites for TLC: one alias or two forwards, short create forms.   *)
EXTENDS MailboxWrites, TLC

CONSTANTS a1, a2, f1, f2

UpToOneAlias == {<<>>, <<a1>>, <<a2>>}
MCSymmetry == Permutations(Requests) \cup Permutations({a1, a2}) \cup Permutations({f1, f2})
=============================================================================

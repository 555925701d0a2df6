------------------------------ MODULE Messages ------------------------------
(***************************************************************************)
(* services/exim.py: what the activity page makes of the lines of Exim's   *)
(* mainlog.  A line is [msg, sym]; sym is "other" on a line that LOG_LINE  *)
(* does not match (queue runs, "Frozen").  Addresses, sizes, hosts and     *)
(* time stamps are left out.                                               *)
(***************************************************************************)
EXTENDS Naturals, Sequences, SequencesExt

CONSTANTS
  Msgs,   \* message ids
  None

ASSUME MessagesAssumption == None \notin Msgs

Symbols == {"<=", "=>", "->", "==", "**", "Completed"}

\* parse_line: None for a line that is no event of a message.
IsEvent(line) == line.sym \in Symbols

\* read_tail: the last n lines.
LastLines(lines, n) == SubSeq(lines, IF Len(lines) > n THEN Len(lines) - n + 1 ELSE 1, Len(lines))

\* Mutant: a deferral overrides what was known.
StatusAfterDeferral(status, sym) ==
  CASE sym = "=>" -> IF status = "bounced" THEN status ELSE "delivered"
    [] sym = "==" -> "deferred"
    [] sym = "**" -> "bounced"
    [] sym = "Completed" /\ status = "pending" -> "delivered"
    [] OTHER -> status

\* aggregate_messages, one line of a message.
StatusAfter(status, sym) ==
  CASE sym = "=>" -> IF status = "bounced" THEN status ELSE "delivered"
    [] sym = "==" -> IF status = "pending" THEN "deferred" ELSE status
    [] sym = "**" -> "bounced"
    [] sym = "Completed" /\ status = "pending" -> "delivered"
    [] OTHER -> status

\* aggregate_messages: the status of m after all lines.
StatusOf(lines, m) ==
  LET status[n \in 0 .. Len(lines)] ==
        IF n = 0 THEN "pending"
        ELSE IF lines[n].msg = m /\ IsEvent(lines[n])
             THEN StatusAfter(status[n - 1], lines[n].sym)
             ELSE status[n - 1]
  IN  status[Len(lines)]

\* aggregate_messages: the status of each message that has an event in lines.
Aggregate(lines) ==
  [m \in {lines[i].msg : i \in {j \in DOMAIN lines : IsEvent(lines[j])}} |-> StatusOf(lines, m)]

\* The symbols that lines tell of m.
SymbolsOf(lines, m) == {lines[i].sym : i \in {j \in DOMAIN lines : lines[j].msg = m}}
=============================================================================

------------------------------ MODULE Reports ------------------------------
(***************************************************************************)
(* What the panel counts in the tail of Exim's mainlog: the message        *)
(* records of aggregate_messages (services/exim.py) and the figures that   *)
(* four pages make of them - the week (count_by_day), the overview, the    *)
(* mail flow and the mailboxes (app.py) - and the reputation score.        *)
(*                                                                         *)
(* A line is [msg, sym, at, addr]: at is its time stamp, addr the sender   *)
(* of a "<=" line and the recipient of any other.  An address is           *)
(* [box, domain].  Order is left out where only counts are made.           *)
(***************************************************************************)
EXTENDS Messages, Integers, FiniteSets

CONSTANTS
  Day,          \* units of time in a day
  LocalDomains  \* hestia_list_mail_domains and Exim's directory of domains

NoAddress == [box |-> "", domain |-> ""]
DayOf(t) == t \div Day

\* Mutant: the time of a message is that of its last line.
MessageByLastLine(lines, m) ==
  LET mine == {i \in DOMAIN lines : lines[i].msg = m /\ IsEvent(lines[i])}
      arrivals == {i \in mine : lines[i].sym = "<="}
      from == IF arrivals = {} THEN NoAddress ELSE lines[Max(arrivals)].addr
  IN  [msg |-> m, at |-> lines[Max(mine)].at, from |-> from,
       to |-> {[line |-> i, addr |-> lines[i].addr] :
                 i \in {j \in mine : lines[j].sym \in {"=>", "->"}}},
       status |-> Aggregate(lines)[m],
       direction |-> IF from.domain \in LocalDomains THEN "out" ELSE "in"]

\* aggregate_messages: the record of one message.  Without a "<=" line it has no
\* sender, the time of its first line, and counts as incoming.
Message(lines, m) ==
  LET mine == {i \in DOMAIN lines : lines[i].msg = m /\ IsEvent(lines[i])}
      arrivals == {i \in mine : lines[i].sym = "<="}
      from == IF arrivals = {} THEN NoAddress ELSE lines[Max(arrivals)].addr
  IN  [msg |-> m,
       at |-> lines[IF arrivals = {} THEN Min(mine) ELSE Max(arrivals)].at,
       from |-> from,
       to |-> {[line |-> i, addr |-> lines[i].addr] :
                 i \in {j \in mine : lines[j].sym \in {"=>", "->"}}},
       status |-> Aggregate(lines)[m],
       direction |-> IF from.domain \in LocalDomains THEN "out" ELSE "in"]

MessagesIn(lines) == {Message(lines, m) : m \in DOMAIN Aggregate(lines)}

Outgoing(msgs, d) == {m \in msgs : DayOf(m.at) = d /\ m.direction = "out"}
Incoming(msgs, d) == {m \in msgs : DayOf(m.at) = d /\ m.direction = "in"}
With(msgs, status) == Cardinality({m \in msgs : m.status = status})

Counts(msgs) ==
  [sent |-> Cardinality(msgs), delivered |-> With(msgs, "delivered"),
   deferred |-> With(msgs, "deferred"), bounced |-> With(msgs, "bounced")]

\* count_by_day: the last days days.
CountByDay(msgs, today, days) ==
  [d \in (today - days + 1) .. today |->
     [out |-> Counts(Outgoing(msgs, d)), in |-> Cardinality(Incoming(msgs, d))]]

\* api_overview: the domains that sent today.
OverviewByDomain(msgs, today) ==
  LET sent == Outgoing(msgs, today)
  IN  [dom \in {m.from.domain : m \in sent} |-> Counts({m \in sent : m.from.domain = dom})]

\* What was delivered to dom of the messages that came in on day d: by_domain_in
\* of the overview, and "in" of the mail flow.
DeliveredTo(msgs, dom, d) ==
  Cardinality({r \in UNION {m.to : m \in Incoming(msgs, d)} : r.addr.domain = dom})

\* api_reports_mailflow, for one domain and one day.
Mailflow(msgs, dom, d) ==
  LET sent == {m \in Outgoing(msgs, d) : m.from.domain = dom}
  IN  [out |-> Cardinality(sent), delivered |-> With(sent, "delivered"),
       bounced |-> With(sent, "bounced"),
       in |-> DeliveredTo(msgs, dom, d)]

\* api_mailboxes: sent_7d and received_7d, from the day seven days ago on.
Mailbox(msgs, address, today, days) ==
  LET recent == {m \in msgs : DayOf(m.at) >= today - days}
  IN  [sent |-> Cardinality({m \in recent : m.from = address}),
       received |-> Cardinality({m \in recent : \E r \in m.to : r.addr = address})]

\* Mutant: deferred messages are not counted against the score.
ScoreWithoutDeferrals(total, bounced, deferred, complaints) ==
  IF total = 0 THEN 100
  ELSE LET lost(cap, perPercent, n) == IF cap * total < perPercent * 100 * n
                                       THEN cap * total ELSE perPercent * 100 * n
       IN  (100 * total - lost(50, 5, bounced) - lost(30, 30, complaints)) \div total

\* composite_score, with exact fractions; complaints is 0 when Brevo is down.
\* The three caps add up to 90, so that its outer bounds are never reached.
Score(total, bounced, deferred, complaints) ==
  IF total = 0 THEN 100
  ELSE LET lost(cap, perPercent, n) == IF cap * total < perPercent * 100 * n
                                       THEN cap * total ELSE perPercent * 100 * n
       IN  (100 * total - lost(50, 5, bounced) - lost(30, 30, complaints)
                        - lost(10, 1, deferred)) \div total

\* _fetch_exim_window: the messages of the last days days.
InWindow(msgs, now, days) == {m \in msgs : m.at > now - days * Day}
ScoreOf(msgs, now, days, complaints) ==
  LET recent == InWindow(msgs, now, days)
  IN  Score(Cardinality(recent), With(recent, "bounced"), With(recent, "deferred"), complaints)
=============================================================================

---------------------------- MODULE DnsblLedger ----------------------------
(***************************************************************************)
(* What services/dnsbl.py promises about its three files, said without     *)
(* requests, locks or lookups: snapshots are recorded one after the other, *)
(* each compared with the one recorded before it.                          *)
(*                                                                         *)
(* A snapshot is [id, listed]: which lookup it is, and the zones that list *)
(* the address (clean, timeout and error are alike to the diff).           *)
(***************************************************************************)
EXTENDS Naturals, FiniteSets, Sequences, SequencesExt

CONSTANTS
  Zones,       \* DNSBL_ZONES, a sequence
  HistoryMax,  \* HISTORY_MAX
  AlertsMax,   \* ALERTS_MAX
  MaxLookups,  \* bound on the number of lookups
  None

VARIABLES latest, history, alerts

vars == <<latest, history, alerts>>

Snapshots == [id : 1 .. MaxLookups, listed : SUBSET ToSet(Zones)]

\* The last n elements of s.
Newest(s, n) == IF Len(s) > n THEN SubSeq(s, Len(s) - n + 1, Len(s)) ELSE s

\* A set of numbers, the least one first.
Ascending(S) ==
  [n \in 1 .. Cardinality(S) |-> CHOOSE i \in S : Cardinality({j \in S : j <= i}) = n]

\* The zones that are in S, in the order of Zones.
InOrder(S) ==
  LET at == Ascending({i \in DOMAIN Zones : Zones[i] \in S})
  IN  [n \in DOMAIN at |-> Zones[at[n]]]

\* Mutant: every listed zone is announced, also when it already was.
RisesAlways(prev, snap) == InOrder(snap.listed)

\* diff_for_alert: no snapshot before counts as nothing listed before.
Rises(prev, snap) ==
  InOrder(snap.listed \ IF prev = None THEN {} ELSE prev.listed)

Events(prev, snap) ==
  LET zones == Rises(prev, snap)
  IN  [i \in DOMAIN zones |-> [zone |-> zones[i], id |-> snap.id]]

\* The first n of the three writes of refresh_and_persist: latest, history,
\* alerts.  Each write replaces its file atomically; what comes after a write
\* that fails, or after the process stops, does not happen.
Persist(prev, snap, n) ==
  /\ latest' = IF n >= 1 THEN snap ELSE latest
  /\ history' = IF n >= 2 THEN Newest(Append(history, snap), HistoryMax) ELSE history
  /\ alerts' = IF n >= 3 THEN Newest(alerts \o Events(prev, snap), AlertsMax) ELSE alerts

Init == latest = None /\ history = <<>> /\ alerts = <<>>

Next == \E snap \in Snapshots, n \in 0 .. 3 : Persist(latest, snap, n)

Spec == Init /\ [][Next]_vars
=============================================================================

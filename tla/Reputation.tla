----------------------------- MODULE Reputation -----------------------------
(***************************************************************************)
(* The reputation of the server (services/reputation.py,                   *)
(* routers/reputation.py, services/db.py) over a mainlog that grows and is *)
(* rotated: the score that /current caches for five minutes, and the       *)
(* hourly snapshot - insert, commit, prune, commit, clear the cache - on   *)
(* the one SQLite connection of the process.                               *)
(*                                                                         *)
(* The handlers await nothing, so that one request ends before the next    *)
(* begins; time passes and Exim logs while Brevo is asked.  A statement    *)
(* that raises leaves the transaction open: the rows it changed are seen   *)
(* by this connection, saved by its next commit and lost in a crash.       *)
(*                                                                         *)
(* now is in parts of a day.  A snapshot has a number; taken and answered  *)
(* are history, and so is the part of the log that a score was made from.  *)
(***************************************************************************)
EXTENDS Reports

CONSTANTS
  SenderOf, RecipientOf,        \* [Msgs -> addresses]
  Events,                       \* which events of which message are logged: <<msg, sym>>
  TailLines,                    \* lines that a page reads
  WeekDays,                     \* days of count_by_day
  ScoreDays,                    \* days that the score covers
  KeepDays,                     \* days that a snapshot is kept
  CacheTTL,
  MaxTime, MaxRotations, MaxFaults,
  MaxEvents                     \* bound on lines and snapshots together

ASSUME ReputationAssumption ==
  /\ Events \subseteq Msgs \X (Symbols \ {"->"})
  /\ NoAddress.domain \notin LocalDomains /\ \A m \in Msgs : SenderOf[m] # NoAddress
  /\ {Day, TailLines, WeekDays, ScoreDays, KeepDays, CacheTTL} \subseteq Nat \ {0}

VARIABLES
  now,
  log, start,   \* every line so far; those before the current file
  rotations,
  disk,         \* committed rows
  view,         \* rows that the connection sees
  cache,        \* _cache: [seen, ts], or None
  handler,      \* the request in progress: [pc, seen, ts]
  taken,        \* when each snapshot was taken
  answered,     \* the snapshots whose request succeeded
  reported,     \* lines that the last of them had seen
  faults

vars == <<now, log, start, rotations, disk, view, cache, handler, taken, answered, reported, faults>>
mainlog == <<log, start, rotations>>
database == <<disk, view, taken>>

Room == Len(log) + Len(taken) < MaxEvents

Idle == [pc |-> "idle", seen |-> 0, ts |-> 0]

Init ==
  /\ now = 0 /\ log = <<>> /\ start = 0 /\ rotations = 0
  /\ disk = {} /\ view = {}
  /\ cache = None /\ handler = Idle
  /\ taken = <<>> /\ answered = {} /\ reported = 0
  /\ faults = 0

At(pc) == handler.pc = pc
Goto(pc) == handler' = [handler EXCEPT !.pc = pc]
Begin(pc) == At("idle") /\ handler' = [pc |-> pc, seen |-> Len(log), ts |-> now]

-----------------------------------------------------------------------------
(* Exim, logrotate and the clock.                                          *)

\* A message is completed when nobody is left to try, or when it is removed from
\* the queue (exim -Mrm, which the panel runs for its delete button), tried or not.
CanLog(m, sym) ==
  LET told == SymbolsOf(log, m)
  IN  IF sym = "<=" THEN told = {} ELSE "<=" \in told /\ "Completed" \notin told

\* The log grows and time passes between requests and while Brevo is asked; the
\* rest of a handler takes no time and does not look at the log.
Waiting == handler.pc \in {"idle", "current", "insert"}

LogEvent(m, sym) ==
  /\ Waiting
  /\ Room
  /\ CanLog(m, sym)
  /\ log' = Append(log, [msg |-> m, sym |-> sym, at |-> now,
                         addr |-> IF sym = "<=" THEN SenderOf[m] ELSE RecipientOf[m]])
  /\ UNCHANGED <<now, start, rotations, database, cache, handler, answered, reported, faults>>

Rotate ==
  /\ Waiting
  /\ rotations < MaxRotations
  /\ rotations' = rotations + 1
  /\ start' = Len(log)
  /\ UNCHANGED <<now, log, database, cache, handler, answered, reported, faults>>

Tick ==
  /\ Waiting
  /\ now < MaxTime
  /\ now' = now + 1
  /\ UNCHANGED <<mainlog, database, cache, handler, answered, reported, faults>>

-----------------------------------------------------------------------------
(* GET /api/reputation/current.                                            *)

Hit == cache # None /\ now - cache.ts < CacheTTL

CurrentHit ==
  /\ At("idle") /\ Hit
  /\ UNCHANGED vars

\* The log is read, and Brevo is asked.
CurrentFetches ==
  /\ ~Hit
  /\ Begin("current")
  /\ UNCHANGED <<now, mainlog, database, cache, answered, reported, faults>>

\* The time in the cache is the one from before the fetch.
CurrentStores ==
  /\ At("current")
  /\ cache' = [seen |-> handler.seen, ts |-> handler.ts]
  /\ handler' = Idle
  /\ UNCHANGED <<now, mainlog, database, answered, reported, faults>>

-----------------------------------------------------------------------------
(* POST /api/reputation/snapshot: snapshot_now, and _cache_clear.          *)

SnapshotFetches ==
  /\ Room
  /\ Begin("insert")
  /\ UNCHANGED <<now, mainlog, database, cache, answered, reported, faults>>

Insert ==
  /\ At("insert")
  /\ taken' = Append(taken, now)
  /\ view' = view \cup {Len(taken')}
  /\ Goto("commit")
  /\ UNCHANGED <<now, mainlog, disk, cache, answered, reported, faults>>

Commit ==
  /\ At("commit")
  /\ disk' = view
  /\ Goto("prune")
  /\ UNCHANGED <<now, mainlog, view, taken, cache, answered, reported, faults>>

\* Mutant: the last day is not kept.
ExpiredADayEarly(i) == DayOf(taken[i]) <= DayOf(now) - KeepDays
\* _prune_old: stamps are compared as strings.  One with a T is greater than one
\* of the same date that has a space instead, so that only the dates count.
Expired(i) == DayOf(taken[i]) < DayOf(now) - KeepDays

Prune ==
  /\ At("prune")
  /\ view' = {i \in view : ~Expired(i)}
  /\ Goto("commit prune")
  /\ UNCHANGED <<now, mainlog, disk, taken, cache, answered, reported, faults>>

CommitPrune ==
  /\ At("commit prune")
  /\ disk' = view
  /\ Goto("answer")
  /\ UNCHANGED <<now, mainlog, view, taken, cache, answered, reported, faults>>

\* Mutant: the cache is not cleared.
AnswerKeepingCache ==
  /\ At("answer")
  /\ answered' = answered \cup {Len(taken)}
  /\ reported' = handler.seen
  /\ handler' = Idle
  /\ UNCHANGED <<now, mainlog, database, cache, faults>>

Answer ==
  /\ At("answer")
  /\ cache' = None
  /\ answered' = answered \cup {Len(taken)}
  /\ reported' = handler.seen
  /\ handler' = Idle
  /\ UNCHANGED <<now, mainlog, database, faults>>

\* A statement or a commit raises, and the request fails.
Fail ==
  /\ handler.pc \in {"insert", "commit", "prune", "commit prune"}
  /\ faults < MaxFaults
  /\ faults' = faults + 1
  /\ handler' = Idle
  /\ UNCHANGED <<now, mainlog, database, cache, answered, reported>>

\* GET /api/reputation/history?days=d: the rows of the connection.
\* Mutant: the first date is left out.
HistoryOfFewerDays(d) == {i \in view : DayOf(taken[i]) > DayOf(now) - d}
History(d) == {i \in view : DayOf(taken[i]) >= DayOf(now) - d}

\* The process is killed and started again.
Crash ==
  /\ faults < MaxFaults
  /\ faults' = faults + 1
  /\ view' = disk
  /\ cache' = None /\ handler' = Idle
  /\ UNCHANGED <<now, mainlog, disk, taken, answered, reported>>

\* It is stopped between two requests: close() commits what is open.
Shutdown ==
  /\ At("idle")
  /\ view # disk
  /\ disk' = view
  /\ cache' = None
  /\ UNCHANGED <<now, mainlog, view, taken, handler, answered, reported, faults>>

Next ==
  \/ \E e \in Events : LogEvent(e[1], e[2])
  \/ Rotate \/ Tick
  \/ CurrentHit \/ CurrentFetches \/ CurrentStores
  \/ SnapshotFetches \/ Insert \/ Commit \/ Prune \/ CommitPrune \/ Answer \/ Fail
  \/ Crash \/ Shutdown

Spec == Init /\ [][Next]_vars

-----------------------------------------------------------------------------
(* Properties.                                                             *)

\* A snapshot that was answered with success stays on disk for KeepDays, through
\* crashes, failed requests that leave a transaction open, and the pruning of
\* every later one (services/reputation.py:154-200).
AnsweredIsKept ==
  \A i \in answered : now - taken[i] <= KeepDays * Day => i \in disk

\* A history of d days holds every answered snapshot of that time and none that
\* is a day older, although its stamps are compared as strings of two formats
\* (services/reputation.py:192-213).
HistoryIsWindow ==
  At("idle") => \A d \in 1 .. KeepDays :
    /\ \A i \in answered : now - taken[i] <= d * Day => i \in History(d)
    /\ \A i \in History(d) : now - taken[i] < (d + 1) * Day

\* A score that is served from the cache misses no line that is older than the
\* cache's time to live, and none that the last successful snapshot had seen,
\* however long the fetch took (routers/reputation.py:29-58 and 76-78).
CurrentKeepsUp ==
  At("idle") /\ Hit => \A i \in DOMAIN log :
    i > cache.seen => i > reported /\ now - log[i].at < CacheTTL

Shown == LastLines(SubSeq(log, start + 1, Len(log)), TailLines)
\* The tail holds every line of day d and later.
Covers(d) == \A i \in DOMAIN log : i <= Len(log) - Len(Shown) => DayOf(log[i].at) < d

\* What really happened: the messages that a domain sent on day d, the lines
\* that deliver those of other domains, and the gravest that befell a message.
SentOn(d, dom) ==
  {m \in Msgs : \E i \in DOMAIN log :
     log[i].msg = m /\ log[i].sym = "<=" /\ DayOf(log[i].at) = d /\ log[i].addr.domain = dom}
Sent(d) == UNION {SentOn(d, dom) : dom \in LocalDomains}
ReceivedOn(d, dom) ==
  {i \in DOMAIN log : /\ log[i].sym = "=>" /\ log[i].addr.domain = dom
                      /\ SenderOf[log[i].msg].domain \notin LocalDomains
                      /\ log[i].msg \in SentOn(d, SenderOf[log[i].msg].domain)}
Bounced(m) == "**" \in SymbolsOf(log, m)
Delivered(m) == ~Bounced(m) /\ "=>" \in SymbolsOf(log, m)
Deferred(m) == "==" \in SymbolsOf(log, m) /\ ~Bounced(m) /\ ~Delivered(m)
\* Taken off the queue before anybody was tried.
RemovedUntried(m) == /\ "Completed" \in SymbolsOf(log, m)
                     /\ SymbolsOf(log, m) \cap {"=>", "==", "**"} = {}

\* On every day that the tail covers, the week, the overview and the mail flow
\* count the messages that were sent on that day by what has become of them since
\* - as delivered also those that were removed from the queue before any try, and
\* no others - and no fewer deliveries than there were.  That holds also when the
\* log was rotated or the beginning of another message is cut off, which then counts
\* as incoming.  A mailbox is credited with what it sent in WeekDays + 1 days
\* (services/exim.py:115-213, app.py:521-639 and 718-759).
ReportsTellTruth ==
  LET msgs == MessagesIn(Shown)
      today == DayOf(now)
  IN  At("idle") =>
      /\ \A d \in today - WeekDays + 1 .. today : Covers(d) =>
           /\ CountByDay(msgs, today, WeekDays)[d].out =
                [sent |-> Cardinality(Sent(d)),
                 delivered |-> Cardinality({m \in Sent(d) : Delivered(m) \/ RemovedUntried(m)}),
                 deferred |-> Cardinality({m \in Sent(d) : Deferred(m)}),
                 bounced |-> Cardinality({m \in Sent(d) : Bounced(m)})]
           /\ \A dom \in LocalDomains :
                /\ Mailflow(msgs, dom, d).out = Cardinality(SentOn(d, dom))
                /\ Mailflow(msgs, dom, d).in >= Cardinality(ReceivedOn(d, dom))
      /\ Covers(today) => \A dom \in LocalDomains :
           SentOn(today, dom) # {} =>
             OverviewByDomain(msgs, today)[dom].sent = Cardinality(SentOn(today, dom))
      /\ Covers(today - WeekDays) => \A m \in Msgs :
           Mailbox(msgs, SenderOf[m], today, WeekDays).sent =
             Cardinality({n \in Msgs : /\ SenderOf[n] = SenderOf[m]
                                       /\ \E d \in today - WeekDays .. today :
                                            n \in SentOn(d, SenderOf[m].domain)})

\* The score is 100 exactly when nothing that is shown of the last ScoreDays
\* bounced or was deferred and not delivered; complaints never raise it, and it never
\* falls below 10 (services/reputation.py:58-75 and 82-113).
PerfectScoreIsEarned ==
  LET msgs == MessagesIn(Shown)
      score(complaints) == ScoreOf(msgs, now, ScoreDays, complaints)
      told(m) == SymbolsOf(Shown, m.msg)
  IN  At("idle") =>
      /\ score(0) = 100 <=>
           \A m \in InWindow(msgs, now, ScoreDays) :
             "**" \notin told(m) /\ ("==" \in told(m) => "=>" \in told(m))
      /\ \A c \in 0 .. 1 : 10 <= score(c) /\ score(c) <= score(0)
=============================================================================

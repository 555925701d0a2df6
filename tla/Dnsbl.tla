------------------------------- MODULE Dnsbl -------------------------------
(***************************************************************************)
(* services/dnsbl.py with its callers in routers/blacklist.py and          *)
(* routers/cron.py: the blacklist lookup behind one asyncio.Lock, its      *)
(* 60-second cache, its three files and the recheck rate limit.            *)
(*                                                                         *)
(* Requests are coroutines of one event loop: what a coroutine does        *)
(* between two awaits is one step.  The awaits are the lock and the        *)
(* lookup.  asyncio.Lock is first in, first out: lock is the sequence of   *)
(* its owner and its waiters.  lookups and snap.start are history          *)
(* variables; the code dates a snapshot in whole seconds.                  *)
(***************************************************************************)
EXTENDS Integers, Sequences, SequencesExt

CONSTANTS
  Zones, HistoryMax, AlertsMax, MaxLookups, None,  \* see DnsblLedger
  Statuses,    \* requests to GET /blacklist/api/status
  Crons,       \* requests to POST /cron/dnsbl-snapshot
  Rechecks,    \* requests to POST /blacklist/recheck
  TTL,         \* CACHE_TTL_S
  RateLimit,   \* RECHECK_RATE_LIMIT_S
  LookupMax,   \* the resolver's lifetime: longest lookup
  MaxTime,     \* bound on the clock
  MaxFailures  \* bound on failed writes and restarts

Tasks == Statuses \cup Crons \cup Rechecks

ASSUME TaskAssumption ==
  /\ Statuses \cap Crons = {} /\ Statuses \cap Rechecks = {} /\ Crons \cap Rechecks = {}
  /\ None \notin Tasks
ASSUME ZonesAssumption == Zones \in Seq(ToSet(Zones))
ASSUME BoundAssumption ==
  /\ {TTL, RateLimit, HistoryMax, AlertsMax} \subseteq Nat \ {0}
  /\ {LookupMax, MaxLookups, MaxTime, MaxFailures} \subseteq Nat

VARIABLES
  now,       \* time.time()
  lock,      \* _lock: its owner, then its waiters
  task,      \* the requests in flight
  cache,     \* _cache and _cache_at
  latest, history, alerts,  \* the three files
  lockfile,  \* last_at in blacklist_recheck_lock.json as it is read
  lookups,   \* number of lookups started
  failures

files == <<latest, history, alerts>>
vars == <<now, lock, task, cache, latest, history, alerts, lockfile, lookups, failures>>

Ledger == INSTANCE DnsblLedger

ASSUME SnapshotAssumption == None \notin Ledger!Snapshots

\* A request: since when (a recheck only), and the lookup it is in.
In(pc, since, prev, id, start) ==
  [pc |-> pc, since |-> since, prev |-> prev, id |-> id, start |-> start]
Idle == In("idle", 0, None, 0, 0)

\* What _read_recheck_lock makes of a lock file that is missing, empty or torn: 0.0,
\* which no recheck is too early for.
Never == -RateLimit

Init ==
  /\ now = 0
  /\ lock = <<>>
  /\ task = [t \in Tasks |-> Idle]
  /\ cache = None
  /\ Ledger!Init
  /\ lockfile = Never
  /\ lookups = 0
  /\ failures = 0

\* Mutant: a snapshot as old as the TTL is still served.
CacheFreshAtTTL == cache # None /\ now - cache.at <= TTL
CacheFresh == cache # None /\ now - cache.at < TTL

-----------------------------------------------------------------------------
(* The handlers up to the lock.                                            *)

\* asyncio.Lock.acquire: at once when it is free, else behind its waiters.
Enqueue(t, since) ==
  /\ task[t].pc = "idle"
  /\ lock' = Append(lock, t)
  /\ task' = [task EXCEPT ![t] = In("waiting", since, None, 0, 0)]

\* api_status, cron_dnsbl_snapshot.
Request(t) ==
  /\ t \in Statuses \cup Crons
  /\ Enqueue(t, 0)
  /\ UNCHANGED <<now, cache, files, lockfile, lookups, failures>>

\* recheck: the lock file is read and the time taken before the first await; a
\* recheck that comes too early is answered 429 and changes nothing.
Recheck(t) ==
  /\ t \in Rechecks
  /\ now - lockfile >= RateLimit
  /\ Enqueue(t, now)
  /\ UNCHANGED <<now, cache, files, lockfile, lookups, failures>>

-----------------------------------------------------------------------------
(* The locked blocks of get_status and refresh_and_persist.                *)

Owner(t) == lock # <<>> /\ Head(lock) = t

\* async with _lock ends, whether the block returned or raised.
Release == lock' = Tail(lock)
Return(t) == task' = [task EXCEPT ![t] = Idle]

\* get_status finds a snapshot younger than the TTL.
StatusHit(t) ==
  /\ t \in Statuses /\ Owner(t) /\ task[t].pc = "waiting"
  /\ CacheFresh
  /\ Release /\ Return(t)
  /\ UNCHANGED <<now, cache, files, lockfile, lookups, failures>>

\* Mutant: the lookup begins before the lock is held.
StartLookupUnlocked(t) ==
  /\ task[t].pc = "waiting"
  /\ lookups < MaxLookups
  /\ lookups' = lookups + 1
  /\ task' = [task EXCEPT ![t] = In("looking", @.since, latest, lookups + 1, now)]
  /\ UNCHANGED <<now, lock, cache, files, lockfile, failures>>

\* A refresh reads the snapshot before it here, before its lookup.
StartLookup(t) ==
  /\ Owner(t) /\ task[t].pc = "waiting"
  /\ t \in Statuses => ~CacheFresh
  /\ lookups < MaxLookups
  /\ lookups' = lookups + 1
  /\ task' = [task EXCEPT ![t] = In("looking", @.since, latest, lookups + 1, now)]
  /\ UNCHANGED <<now, lock, cache, files, lockfile, failures>>

Cached(t, snap, at) == [id |-> snap.id, start |-> task[t].start, at |-> at]

\* get_status ends: nothing is persisted, and the cache is dated from before
\* the lookup.
StatusEnds(t, snap) ==
  /\ t \in Statuses /\ task[t].pc = "looking"
  /\ snap.id = task[t].id
  /\ cache' = Cached(t, snap, task[t].start)
  /\ Release /\ Return(t)
  /\ UNCHANGED <<now, files, lockfile, lookups, failures>>

\* Mutant: cron's refresh records itself as well.
StampAlways(t) == task[t].since
\* What a recheck writes into the lock file, read back: the time it came in.
Stamp(t) == IF t \in Rechecks THEN task[t].since ELSE lockfile

\* ... and what the lock file may hold when that write does not get through:
\* write_text empties the file before it writes.  Only a recheck writes it, last.
Torn(t, n) == IF n = 3 /\ t \in Rechecks THEN {Never} ELSE {}

\* refresh_and_persist ends; its caller returns without another await.
RefreshEnds(t, snap) ==
  /\ t \in Crons \cup Rechecks /\ task[t].pc = "looking"
  /\ snap.id = task[t].id
  /\ Ledger!Persist(task[t].prev, snap, 3)
  /\ cache' = Cached(t, snap, now)
  /\ lockfile' = Stamp(t)
  /\ Release /\ Return(t)
  /\ UNCHANGED <<now, lookups, failures>>

\* What a refresh leaves that fails behind its n-th write: the cache is set
\* behind the third, and the recheck's lock file would be the fourth.  Without a
\* zone to announce there is no third.
Failing(t, snap, n) ==
  /\ t \in Crons \cup Rechecks /\ task[t].pc = "looking"
  /\ failures < MaxFailures
  /\ snap.id = task[t].id
  /\ n = 2 => Ledger!Rises(task[t].prev, snap) # <<>>
  /\ n = 3 => t \in Rechecks
  /\ Ledger!Persist(task[t].prev, snap, n)
  /\ cache' = IF n = 3 THEN Cached(t, snap, now) ELSE cache
  /\ lockfile' \in {lockfile} \cup Torn(t, n)
  /\ failures' = failures + 1
  /\ UNCHANGED <<now, lookups>>

\* Mutant: the error path of a refresh keeps the lock.
RefreshFailsHolding(t, snap, n) == Failing(t, snap, n) /\ Return(t) /\ UNCHANGED lock

\* A write raises OSError: the request is answered 500.
RefreshFails(t, snap, n) == Failing(t, snap, n) /\ Release /\ Return(t)

\* The process stops and is started again.
Reset ==
  /\ failures < MaxFailures
  /\ failures' = failures + 1
  /\ lock' = <<>>
  /\ task' = [t \in Tasks |-> Idle]
  /\ cache' = None

Restart == Reset /\ UNCHANGED <<now, files, lockfile, lookups>>

\* ... behind the n-th write of a refresh; the one of the lock file may be through.
CrashWhilePersisting(t, snap, n) ==
  /\ t \in Crons \cup Rechecks /\ task[t].pc = "looking"
  /\ snap.id = task[t].id
  /\ Ledger!Persist(task[t].prev, snap, n)
  /\ lockfile' \in {lockfile} \cup Torn(t, n) \cup (IF n = 3 THEN {Stamp(t)} ELSE {})
  /\ Reset
  /\ UNCHANGED <<now, lookups>>

\* Each zone's query ends within the resolver's lifetime.
Tick ==
  /\ now < MaxTime
  /\ \A t \in Tasks : task[t].pc = "looking" => now < task[t].start + LookupMax
  /\ now' = now + 1
  /\ UNCHANGED <<lock, task, cache, files, lockfile, lookups, failures>>

Next ==
  \/ \E t \in Tasks : Request(t) \/ Recheck(t) \/ StatusHit(t) \/ StartLookup(t)
  \/ \E t \in Tasks, snap \in Ledger!Snapshots :
       \/ StatusEnds(t, snap)
       \/ RefreshEnds(t, snap)
       \/ \E n \in 0 .. 3 : RefreshFails(t, snap, n) \/ CrashWhilePersisting(t, snap, n)
  \/ Restart
  \/ Tick

Spec == Init /\ [][Next]_vars

\* The event loop runs every coroutine that can run.
Progress(t) ==
  \/ StatusHit(t)
  \/ StartLookup(t)
  \/ \E snap \in Ledger!Snapshots : StatusEnds(t, snap) \/ RefreshEnds(t, snap)

FairSpec == Spec /\ \A t \in Tasks : WF_vars(Progress(t))

-----------------------------------------------------------------------------
(* Properties.                                                             *)

\* Whatever requests, failed writes and restarts interleave, each recorded
\* snapshot is compared with the one recorded just before it: no listing is
\* announced twice, none is missed because two refreshes overlapped, and no
\* history entry is lost (read-modify-write of the three files, :245-272).
RefreshesAreSerial == Ledger!Spec

\* As long as no write failed, alerts and history tell one story: a zone has an alert
\* for exactly the snapshots where it became listed (as long as the alert has
\* not been dropped from the front of a full file).
AlertsMatchHistory == failures = 0 => \A i \in 2 .. Len(history), j \in DOMAIN Zones :
  LET rise == Zones[j] \in history[i].listed \ history[i - 1].listed
      alerted == \E a \in ToSet(alerts) : a.zone = Zones[j] /\ a.id = history[i].id
  IN  /\ alerted => rise
      /\ rise => alerted \/ Len(alerts) = AlertsMax

\* The time in the recheck lock file never goes back, though every recheck
\* writes the time at which it came in: overlapping rechecks end in the order
\* in which they came.  Only a write that fails or is cut short by a stop can
\* take it back, and then to nothing at all, never to an earlier time.
LockfileAdvances ==
  [][lockfile' >= lockfile \/ (failures' > failures /\ lockfile' = Never)]_lockfile

\* The status page never shows a lookup begun more than TTL + LookupMax ago.
StatusIsRecent == CacheFresh => now - cache.start < TTL + LookupMax

\* Every request is answered: no error path keeps the lock.
RequestsEnd == \A t \in Tasks :
  task[t].pc = "waiting" ~> (task[t].pc = "idle" \/ lookups = MaxLookups)
=============================================================================

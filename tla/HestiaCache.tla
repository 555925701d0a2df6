---------------------------- MODULE HestiaCache ----------------------------
(***************************************************************************)
(* services/hestia.py: the TTL cache in front of the HestiaCP read         *)
(* commands, and the write commands that invalidate it.                    *)
(*                                                                         *)
(* Requests run on one event loop.  A fetch leaves the loop (a subprocess  *)
(* in a worker thread), and every write function runs in a worker thread   *)
(* from its subprocess to its last dictionary operation, so a write's      *)
(* invalidation interleaves with lookups, fetches and stores.  _cache_lock *)
(* is never held across a suspension: each locked block is one step.       *)
(*                                                                         *)
(* A value is its version: see BoundedStaleness for history.  hidden[k] is *)
(* the last version of k that no invalidation announces (the HestiaCP      *)
(* panel, the v1 endpoints of app.py, a write whose CLI timed out after    *)
(* taking effect).  entry.readAt, entry.raced and served are history       *)
(* variables; the code keeps (time.time(), value) only.                    *)
(***************************************************************************)
EXTENDS Integers, Sequences

CONSTANTS
  Keys,        \* cache keys: (function name, *arguments)
  Domains,     \* mail domains that write functions are called for
  DomainOf,    \* the domain a key carries, NoDomain for list_mail_domains
  Readers,     \* concurrent requests that read
  Writers,     \* concurrent requests that write
  TTL,         \* CACHE_TTL_SEC
  FetchMax,    \* longest time from upstream's answer to the store
  MaxTime,     \* bound on the clock
  MaxVersion,  \* bound on the number of changes of a key
  NoValue, NoDomain

ASSUME DomainAssumption == DomainOf \in [Keys -> Domains \cup {NoDomain}]
ASSUME NoValueAssumption == NoValue \notin Keys
ASSUME TimeAssumption ==
  /\ TTL \in Nat \ {0}
  /\ FetchMax \in Nat
  /\ MaxTime \in Nat
  /\ MaxVersion \in Nat

VARIABLES
  now,      \* time.time()
  history,  \* [Keys -> Seq(Nat)]: when the value of a key changed
  hidden,   \* [Keys -> Nat]: last version no invalidation announces
  cache,    \* _cache
  reader,   \* the requests inside _cached
  writer,   \* the requests inside _cli_or_raise
  served,   \* what _cached last returned to each request
  trigger   \* data/mailbox_stats.trigger exists

cacheVars == <<now, history, hidden, cache, reader, writer, served, trigger>>

Version(k) == Len(history[k])
KeysOf(d) == {k \in Keys : DomainOf[k] = d}

\* A request inside _cached, and one inside _cli_or_raise.
Reading(pc, k, v, t, raced) ==
  [pc |-> pc, key |-> k, val |-> v, readAt |-> t, raced |-> raced]
Writing(pc, d, S, todo) == [pc |-> pc, dom |-> d, keys |-> S, todo |-> todo]

IdleReader == Reading("idle", NoValue, 0, 0, FALSE)
IdleWriter == Writing("idle", NoDomain, {}, {})

\* Mutant: an entry as old as the TTL is still served.
FreshAtTTL(k) == cache[k] # NoValue /\ now - cache[k].at <= TTL
Fresh(k) == cache[k] # NoValue /\ now - cache[k].at < TTL

CacheInit ==
  /\ now = 0
  /\ history = [k \in Keys |-> <<>>]
  /\ hidden = [k \in Keys |-> 0]
  /\ cache = [k \in Keys |-> NoValue]
  /\ reader = [r \in Readers |-> IdleReader]
  /\ writer = [w \in Writers |-> IdleWriter]
  /\ served = [r \in Readers |-> NoValue]
  /\ trigger = FALSE

-----------------------------------------------------------------------------
(* _cached: lookup under the lock, fetch outside it, store under it.       *)

Hit(r, k) ==
  /\ reader[r].pc = "idle"
  /\ Fresh(k)
  /\ served' = [served EXCEPT ![r] = [key |-> k, val |-> cache[k].val]]
  /\ UNCHANGED <<now, history, hidden, cache, reader, writer, trigger>>

Miss(r, k) ==
  /\ reader[r].pc = "idle"
  /\ ~Fresh(k)
  /\ reader' = [reader EXCEPT ![r] = Reading("fetch", k, 0, 0, FALSE)]
  /\ served' = [served EXCEPT ![r] = NoValue]
  /\ UNCHANGED <<now, history, hidden, cache, writer, trigger>>

\* Mutant: an empty answer is kept as no value instead of as an empty list.
ReadUpstreamNone(r) ==
  /\ reader[r].pc = "fetch"
  /\ reader' = [reader EXCEPT ![r] = Reading("loaded", reader[r].key, NoValue, now, FALSE)]
  /\ UNCHANGED <<now, history, hidden, cache, writer, served, trigger>>

\* The v-list command reads HestiaCP's state.  get_autoreply makes two such
\* calls: its value is as old as the first.
ReadUpstream(r) ==
  /\ reader[r].pc = "fetch"
  /\ reader' = [reader EXCEPT ![r] =
       Reading("loaded", reader[r].key, Version(reader[r].key), now, FALSE)]
  /\ UNCHANGED <<now, history, hidden, cache, writer, served, trigger>>

\* HestiaAPIError, a timeout, or output that is no JSON: nothing is cached.
FetchFails(r) ==
  /\ reader[r].pc \in {"fetch", "loaded"}
  /\ reader' = [reader EXCEPT ![r] = IdleReader]
  /\ UNCHANGED <<now, history, hidden, cache, writer, served, trigger>>

EntryOf(r) == [at |-> now, val |-> reader[r].val,
               readAt |-> reader[r].readAt, raced |-> reader[r].raced]

Store(r) ==
  /\ reader[r].pc = "loaded"
  /\ cache' = [cache EXCEPT ![reader[r].key] = EntryOf(r)]
  /\ served' = [served EXCEPT ![r] = [key |-> reader[r].key, val |-> reader[r].val]]
  /\ reader' = [reader EXCEPT ![r] = IdleReader]
  /\ UNCHANGED <<now, history, hidden, writer, trigger>>

-----------------------------------------------------------------------------
(* _cli_or_raise and _post_write.                                          *)

\* HestiaCP's state of the keys in S changes.
Changed(S) ==
  /\ \A k \in S : Version(k) < MaxVersion
  /\ history' = [k \in Keys |-> IF k \in S THEN Append(history[k], now)
                                           ELSE history[k]]

StartWrite(w, d) ==
  /\ writer[w].pc = "idle"
  /\ writer' = [writer EXCEPT ![w] = Writing("cli", d, {}, {})]
  /\ UNCHANGED <<now, history, hidden, cache, reader, served, trigger>>

\* The command does what it was asked and will exit with 0.
CliApplies(w, S) ==
  /\ writer[w].pc = "cli"
  /\ Changed(S)
  /\ writer' = [writer EXCEPT ![w] = Writing("applied", writer[w].dom, S, {})]
  /\ UNCHANGED <<now, hidden, cache, reader, served, trigger>>

\* The command takes effect but is killed at its timeout, or exits non-zero.
CliAppliesUnreported(w, S) ==
  /\ writer[w].pc = "cli"
  /\ Changed(S)
  /\ hidden' = [k \in Keys |-> IF k \in S THEN Version(k) + 1 ELSE hidden[k]]
  /\ writer' = [writer EXCEPT ![w] = IdleWriter]
  /\ UNCHANGED <<now, cache, reader, served, trigger>>

\* A _check_* refuses, the command refuses, or it is killed without effect.
CliRefuses(w) ==
  /\ writer[w].pc = "cli"
  /\ writer' = [writer EXCEPT ![w] = IdleWriter]
  /\ UNCHANGED <<now, history, hidden, cache, reader, served, trigger>>

\* Mutant: the invalidation purges what has expired only.
SnapshotExpired(w) ==
  /\ writer[w].pc = "applied"
  /\ writer' = [writer EXCEPT ![w] =
       Writing("dropping", writer[w].dom, writer[w].keys,
               {k \in KeysOf(writer[w].dom) : cache[k] # NoValue /\ ~Fresh(k)})]
  /\ UNCHANGED <<now, history, hidden, cache, reader, served, trigger>>

\* _cache_invalidate_domain: list(_cache.keys()) in the worker thread.
SnapshotKeys(w) ==
  /\ writer[w].pc = "applied"
  /\ writer' = [writer EXCEPT ![w] =
       Writing("dropping", writer[w].dom, writer[w].keys,
               {k \in KeysOf(writer[w].dom) : cache[k] # NoValue})]
  /\ reader' = [r \in Readers |->
       IF reader[r].pc = "loaded" /\ reader[r].key \in KeysOf(writer[w].dom)
       THEN Reading("loaded", reader[r].key, reader[r].val, reader[r].readAt, TRUE)
       ELSE reader[r]]
  /\ UNCHANGED <<now, history, hidden, cache, served, trigger>>

\* _cache.pop(key, None) for one key of the snapshot.
DropKey(w, k) ==
  /\ writer[w].pc = "dropping"
  /\ k \in writer[w].todo
  /\ cache' = [cache EXCEPT ![k] = NoValue]
  /\ writer' = [writer EXCEPT ![w] =
       Writing("dropping", writer[w].dom, writer[w].keys, writer[w].todo \ {k})]
  /\ UNCHANGED <<now, history, hidden, reader, served, trigger>>

\* TRIGGER_FILE.touch(), whose OSError is swallowed; the function returns.
TouchTrigger(w) ==
  /\ writer[w].pc = "dropping"
  /\ writer[w].todo = {}
  /\ trigger' \in {trigger, TRUE}
  /\ writer' = [writer EXCEPT ![w] = IdleWriter]
  /\ UNCHANGED <<now, history, hidden, cache, reader, served>>

-----------------------------------------------------------------------------
(* The surroundings.                                                       *)

\* The HestiaCP panel, its cron jobs, or the v1 endpoints of app.py.
OutsideChange(S) ==
  /\ Changed(S)
  /\ hidden' = [k \in Keys |-> IF k \in S THEN Version(k) + 1 ELSE hidden[k]]
  /\ UNCHANGED <<now, cache, reader, writer, served, trigger>>

\* mailbox_stats.refresh ends by removing the trigger file.
ConsumeTrigger ==
  /\ trigger
  /\ trigger' = FALSE
  /\ UNCHANGED <<now, history, hidden, cache, reader, writer, served>>

\* The service stops at any point and systemd starts it again.
CacheRestart ==
  /\ cache' = [k \in Keys |-> NoValue]
  /\ reader' = [r \in Readers |-> IdleReader]
  /\ writer' = [w \in Writers |-> IdleWriter]
  /\ served' = [r \in Readers |-> NoValue]
  /\ UNCHANGED <<now, history, hidden, trigger>>

\* Timeouts bound the time from upstream's answer to the store.
Tick ==
  /\ now < MaxTime
  /\ \A r \in Readers : reader[r].pc = "loaded" => now < reader[r].readAt + FetchMax
  /\ now' = now + 1
  /\ UNCHANGED <<history, hidden, cache, reader, writer, served, trigger>>

ReaderStep(r) == ReadUpstream(r) \/ FetchFails(r) \/ Store(r)

CacheNext ==
  \/ \E r \in Readers, k \in Keys : Hit(r, k) \/ Miss(r, k)
  \/ \E r \in Readers : ReaderStep(r)
  \/ \E w \in Writers, d \in Domains : StartWrite(w, d)
  \/ \E w \in Writers : \E S \in SUBSET KeysOf(writer[w].dom) \ {{}} :
       CliApplies(w, S) \/ CliAppliesUnreported(w, S)
  \/ \E w \in Writers : CliRefuses(w) \/ SnapshotKeys(w) \/ TouchTrigger(w)
  \/ \E w \in Writers, k \in Keys : DropKey(w, k)
  \/ \E k \in Keys : OutsideChange({k})
  \/ ConsumeTrigger
  \/ CacheRestart
  \/ Tick

CacheSpec == CacheInit /\ [][CacheNext]_cacheVars

-----------------------------------------------------------------------------
(* Properties.                                                             *)

Entry == [at : Nat, val : Nat, readAt : Nat, raced : BOOLEAN]

ReaderState == [pc : {"idle", "fetch", "loaded"}, key : Keys \cup {NoValue},
                val : Nat, readAt : Nat, raced : BOOLEAN]
WriterState == [pc : {"idle", "cli", "applied", "dropping"},
                dom : Domains \cup {NoDomain}, keys : SUBSET Keys, todo : SUBSET Keys]

CacheTypeOK ==
  /\ now \in Nat
  /\ history \in [Keys -> Seq(Nat)]
  /\ hidden \in [Keys -> Nat]
  /\ cache \in [Keys -> Entry \cup {NoValue}]
  /\ reader \in [Readers -> ReaderState]
  /\ \A r \in Readers : reader[r].pc # "idle" => reader[r].key \in Keys
  /\ writer \in [Writers -> WriterState]
  /\ \A w \in Writers : writer[w].keys \subseteq KeysOf(writer[w].dom)
  /\ served \in [Readers -> [key : Keys, val : Nat] \cup {NoValue}]
  /\ trigger \in BOOLEAN

\* Some write that changed k has not yet looked for k in the cache, or has
\* found it there and will drop it.
Announcing(k) == \E w \in Writers :
  \/ writer[w].pc = "applied" /\ k \in writer[w].keys
  \/ writer[w].pc = "dropping" /\ k \in writer[w].todo

\* Why an outdated version of k can be in the cache.
Excused(k, v) == v < hidden[k] \/ Announcing(k)

\* A cached value is outdated only when a change nobody announces made it so,
\* while a write is about to drop it, or when the fetch that stored it was in
\* flight across a write's invalidation (_cached stores without checking what
\* happened since it looked).
StaleOnlyWhenExcused == \A k \in Keys :
  cache[k] # NoValue /\ cache[k].val < Version(k) => cache[k].raced \/ Excused(k, cache[k].val)

\* A hit is never older than the TTL plus one fetch: whatever raced, failed or
\* went unannounced, the value _cached returns was current less than
\* TTL + FetchMax time units ago.
HitsAreRecent == \A k \in Keys :
  Fresh(k) /\ cache[k].val < Version(k)
    => now < history[k][cache[k].val + 1] + TTL + FetchMax

\* What _cached returns, hit or miss, across races and restarts, is what a
\* register of bounded staleness returns.
Promise == INSTANCE BoundedStaleness WITH Bound <- TTL + FetchMax, NoAnswer <- NoValue
ImplementsBoundedStaleness == Promise!Spec
=============================================================================

# Verification of Mail Admin v2

Mail Admin v2 is a FastAPI panel for a mail server: HestiaCP keeps domains and
mailboxes, Exim and Dovecot carry the mail, Brevo relays it.  The panel has one
uvicorn worker with one asyncio event loop, a thread pool for blocking calls, a
few JSON files under `data/`, and two systemd timers that call its `/cron`
endpoints.  What is hard about it is seldom in one function: it is what another
coroutine, a worker thread, a second program or a restart does between two of
its steps.  These modules say what those functions promise under such company.

Paths below are relative to the repository's root.

## 1. Inventory

| Component | State it keeps | Operations | Modelled by |
|---|---|---|---|
| HestiaCP client, `services/hestia.py` | `_cache` (key -> time, value), trigger file | cached reads, `v-*` commands, invalidation | `BoundedStaleness`, `HestiaCache`, `HestiaProofs` |
| DNSBL watch, `services/dnsbl.py`, `routers/blacklist.py`, `routers/cron.py` | `_cache`, `_lock`, three JSON files, recheck lock file | status, cron refresh, manual recheck | `DnsblLedger`, `Dnsbl`, `DnsblProofs` |
| Exim list files, `services/exim_filters.py`, `routers/filters.py` | the list file and its modification time | add, remove, validate, reload, roll back; the reload button | `EximFilters`, `EximFiltersProofs` |
| Error translator, `services/error_translator.py` | dictionary, compiled patterns, lock | `translate` | `ErrorTranslator`, `ServiceProofs` |
| Mailbox and forward handlers, `routers/mailboxes.py`, `routers/forwards.py`, `services/audit.py` | none of their own: HestiaCP's entries and the audit log | create, delete, change, replace | `MailboxWrites`, `HestiaProofs` |
| Mailbox statistics, `services/mailbox_stats.py` | statistics file, trigger file, `_refresh_lock` | `refresh` | `MailboxStats`, `ServiceProofs` |
| Send-as test, `services/sendas.py`, `routers/sendas.py`, `services/maildir.py` | one file per run, poll task, cache of domain owners | dispatch, poll, search by message id | `SendAs`, `SendAsProofs` |
| Suppression list, `services/brevo_suppression.py`, `routers/suppression.py` | page cache, counts cache | list, add, remove, bulk remove | `Suppression`, `ServiceProofs` |
| Activity, `routers/activity.py`, `services/exim.py`, `static/js/sse.js` | offset of each live stream; stream, topic and timers in the browser | read and merge the tail, stream, reconnect | `Messages`, `Mainlog`, `LogProofs` |
| Reputation, `services/reputation.py`, `routers/reputation.py`, `services/db.py` | SQLite table, its open transaction, `_cache` of the score | current, snapshot, history, prune, close | `Reports`, `Reputation`, `ReputationProofs` |
| Login, `app.py` | OTP file, rate-limit file, signed cookies | request a code, verify, log out | `Login`, `LoginProofs` |
| Reports of `app.py` and `services/exim.py`: overview, week, mail flow, mailbox figures | none: the tail of the log | count | `Reports`, `Reputation`, `ReputationProofs` |
| Other legacy endpoints of `app.py` | relay configuration, queue | switch relay, retry, delete | not modelled |
| Quarantine, providers, CSRF, templates, browser modules, units | nothing between requests | one command or read each | not modelled |

How they interact: the handlers write through `hestia.py`'s commands, whose
success invalidates the cache that the pages and the statistics refresher read
and touches the trigger file; the legacy endpoints of `app.py` write to HestiaCP
without that.  Cron and the blacklist page share `dnsbl.py`'s lock, cache and
files.  The filters page shares Exim's list files with administrators and other
programs.  The activity page, the reports and the reputation score read the tail of
the same mainlog.  Every handler appends to the audit log.

What makes each part correct, and what is hard about it:

- *Cache*: a value served is the current one or outdated for a bounded time and a
  known reason.  Hard: fetches in flight across an invalidation, invalidation in a
  thread, commands that time out after they took effect, writes nobody announces.
- *DNSBL*: each snapshot is compared with the one before it, what is announced is
  what was newly listed, every request is answered.  Hard: overlapping refreshes,
  three writes that can fail one by one, a limit checked before an await.
- *List files*: no value added twice, answers that are true, rollbacks that restore,
  a reload that loads only what Exim accepted.  Hard: other programs between any two
  system calls, crashes, odd last lines, comments with newlines, a verdict that is 30 seconds old.
- *Translator*: one load, and patterns that belong to the dictionary at hand.
- *Write handlers*: the audit log is true, a failed replace leaves one entry.
  Hard: commands refused, timed out after taking effect, or never started.
- *Statistics*: no gap without an error, and every change arrives.  Hard: a trigger
  that is removed by a refresh older than the touch, refreshes that fail anywhere.
- *Send-as*: a time-out is honest, every run ends.  Hard: the searched mail moves
  and changes its name during the search; the task lives in memory only.
- *Suppression*: a walk misses nobody, a removed contact does not come back from the
  cache.  Hard: pages of different ages, answers in flight across a flush, a
  page size that Brevo caps and a filter that thins pages out.
- *Activity*: lines in order, once, with known gaps; a true status; a tail that
  comes back.  Hard: rotation, partial windows, timers that outlive a click.
- *Reputation*: an answered snapshot is kept, the history is the window asked for, the
  cached score keeps up with the log.  Hard: two commits per request on one connection,
  a failed commit that leaves its transaction open, time stamps of two formats that are
  compared as strings.
- *Reports*: each figure is what happened on that day.  Hard: messages that span days,
  a rotated log, a tail that cuts a message in two.
- *Login*: the limit counts exactly, a mailed code is good until it expires, is used or
  is replaced, a session goes back to one code.  Hard: stops between the emptying and
  the writing of a file, mails that arrive late, one stored code for all browsers.

## 2. Plan

Written, in this order: `HestiaCache` (every page reads through it), `Dnsbl`,
`ErrorTranslator`, `EximFilters`, `MailboxWrites`, `SendAs`, `Suppression`,
`MailboxStats`, `Mainlog`, `Login`, `Reports`, `Reputation`.  The proofs are in
`HestiaProofs` (the cache and the write handlers), `DnsblProofs`, `SendAsProofs`,
`EximFiltersProofs`, `LoginProofs`, `LogProofs` (`Messages`, `Mainlog`), `ReputationProofs`
(`Reports`, `Reputation`) and, for the other three services (translator, statistics,
suppression list), `ServiceProofs`.

What could follow, in the order of what can go wrong:

1. Refinements: the statistics file as a register that lags (`MailboxStats`), the
   stream as a log read in order with gaps (`Mainlog`).
2. The two reads of `get_autoreply` apart; the relay switch of `app.py` as a chain of
   commands; pagination of the mailbox list against a reference definition.

Composition: `Dnsbl` instantiates `DnsblLedger`, `HestiaCache` instantiates
`BoundedStaleness`, `Mainlog` and `Reports` extend `Messages`, `Reputation` extends
`Reports`.  `MailboxStats` has of the cache what `HestiaCache` shows of it, overtaken
fetches included, instead of carrying the cache again.

## 3. The modules

**`BoundedStaleness`** is the abstract register: values change, and an answer is
one that was current less than `Bound` ago.

**`HestiaCache`** has a history of values per key (HestiaCP's state), the cache,
readers and writers.  A reader looks (`Hit`, `Miss`), reads upstream
(`ReadUpstream` or `FetchFails`) and stores (`Store`), as `_cached` does; a
writer runs its command (`CliApplies`, `CliAppliesUnreported` when it timed out
after it took effect, `CliRefuses`), takes the list of keys (`SnapshotKeys`),
drops them one by one (`DropKey`) and touches the trigger (`TouchTrigger`), as
`_cli_or_raise` and `_post_write` do.  `OutsideChange` is the legacy endpoints and
the HestiaCP console.  `Tick` lets time pass within the time-outs.

**`DnsblLedger`** is the three files without requests: snapshots recorded one
after the other, possibly only in part.  `InOrder` puts the zones of an alert in the
order of `DNSBL_ZONES`, by numbering their positions.  **`Dnsbl`** has the requests as
coroutines with two awaits (lock and lookup), the FIFO `asyncio.Lock`, the cache
with its date, the lock file of the recheck limit, writes that fail
(`RefreshFails`) and a process that stops (`Restart`, `CrashWhilePersisting`).

**`ErrorTranslator`** has one program counter per thread for `load_dictionary`'s
double-checked locking and `translate`'s use of the patterns.

**`EximFilters`** has the file as a sequence of lines, the modification time, and
one operation as a chain of system calls: the outer read, the inner read, the
first look at the modification time, the decision, the second look, the
replacement, the validation, the restore.  A line knows whether it ends in a newline, since
an append to one that does not runs into it, and whether an add wrote it for its
value (`own`); what a comment with newlines adds besides are further lines (`Added`).
`Edit` is another program and may run anywhere in between, also without a
modification time that shows it; `Stop` ends the operation anywhere.  Requests do not overlap
each other: they hold the file's `asyncio.Lock` or run without an await.  `good` is
what Exim accepted last, `tainted` that something else may have come in since;
`verdict` is the cached result of a validation, which the page shows for 30 seconds,
and `PostReload` is the reload button with its limit.  One list file
and its reload stand for the three of them, which share nothing but that button.

**`MailboxWrites`** has HestiaCP's entries of one mailbox and requests that run
one, or a chain of, commands.  Each command is refused, succeeds, takes effect
and times out, or raises; `NextCommand`, `AuditDone`, `RollBack` and `GiveUp` are
the handlers' continuations.  `PasswordsDiffer` is the answer before any command,
without an entry; `EndAudited` is the append to the audit log, which swallows its
own failure.  Per slot, `effect` and `audit` count what took effect and what was logged
of the request that is there, or was last.

**`SendAs`** has the test mail as a file that is renamed (`Deliver`, `Rearrange`,
`GiveDomain`), the cached owner of the domain, the run file and the poll task.
`Look`, `IsDir`, `List`, `Found`, `NotFound`, `Verify` are the system calls of
`find_by_msgid` and of the `open` behind it; the task holds the event loop from
`Look` to the end of a search (`busy`), because nothing in it awaits.  A step that
raises ends the task for good: `ListRaises` (the directory went between `is_dir` and
`iterdir`), `OpenRaises` (the mail went before the `open`), and the failing half of
`Finish` (the run file cannot be read or written, and may be left empty); `died` records
which.  `Restart` ends all tasks.

**`Suppression`** keeps every version of Brevo's list, so that a page knows which
one it shows: a page is the positions of its rows in that version.  `Ask`, `Fetch`, `Store`, `Finish` are `list_blocked` and
`category_counts` as the HTML page and the API call them; a walk is an
administrator following `next_offset`.  `Apply`, `Confirm`, `WriteRefused` are a
write: its effect at Brevo, its answer, and its lost answer.

**`MailboxStats`** has `refresh()` with one step per await, each of which may
fail (`Failing`), the file it replaces and the trigger it removes in two steps,
and a write in two steps (`Write` invalidates, `Touch` touches).  `known` is the
oldest version that a read may still return, and `fetch` what a page's own read of a
mailbox holds: when it is stored behind an invalidation (`FetchStores`), `known` falls
back to it and the mailbox is `overtaken` until the entry expires or is dropped again.

**`Messages`** is `parse_line`, `read_tail` and `aggregate_messages` as operators
over lines: `StatusOf` is the loop over a message's lines.  **`Mainlog`** is the log with
its rotation (`Rename`, `Create`), the stream's generator
(`Connect`, `Poll`, `FileMissing`) and the browser's `EventSource` with the topic
and the timers of `sse.js` (`Drop`, `Fire`, `Click`).  `lines` is all that was ever logged,
each line with the offset `at` which it begins in its file; the file in place holds those
behind `base` and is `size` long, so that `EventsFrom` an offset is what a seek and a
read to the end find.

**`Login`** has the requests of `login_submit` and `verify_submit`, one at a time:
`Attempt` and `WriteRates` are `rate_check`, in two steps because `save_json` empties
the file before it writes it; `RightPassword` and `WriteOtp` store the code, `Mail` or
`MailFails` sends it; `Accept` removes it and `Open` signs the cookie.  `Stop` ends a
request between any two of them.

**`Reports`** is what the panel counts in the tail of the log, as operators:
`aggregate_messages`, `count_by_day`, the overview, the mail flow, the figures of a
mailbox, and the score.  Where the code appends to a list that is only counted later,
a record has the set of the entries with the positions of their lines.  **`Reputation`** puts a log under them that grows and is
rotated, and has the snapshot with one step per statement of the SQLite connection:
`disk` is what is committed, `view` what the connection sees.  `Fail` is a statement or
commit that raises, `Crash` a kill, `Shutdown` a stop that commits what was open.

`MC...` modules give the constants that a configuration cannot write.  A
definition whose comment begins with "Mutant:" is a plausible bug of the
definition behind it: no specification uses it, and the property it is listed for
in `PROJECT.json` must fail when it takes that definition's place.

## 4. The runs

| Run | Question | Bounds, and why they are enough |
|---|---|---|
| `HestiaCache` | Why, and for how long, is an outdated value served? Does the cache refine `BoundedStaleness`? | One reader, two writers, two keys of one domain: two overlapping key-by-key invalidations and a fetch across either. TTL 2 and FetchMax 1 in three time units let an entry expire, and be refetched. |
| `Dnsbl` | Are refreshes serial, alerts right, statuses recent, requests answered? | One status, one cron, two rechecks, three lookups: two writers and a reader at one lock, a full history and alert file (2 each), one failure. One zone, which can be listed, cleared and listed again. |
| `ErrorTranslator` | Is the double-checked load right? | Three threads: one that loads, one at the lock, one that comes late; five calls. |
| `EximFilters` | What do adds, removals and the reload button guarantee next to other programs? | Two operations, two foreign changes at any system call, two values; no file, one with a comment and an entry, one with an unterminated line; comments of one line, or with a second one that lists a value; a verdict that can grow old. |
| `MailboxWrites` | Is the audit log true, does it name all of a create, does a failed replace keep one entry? | Two requests at once on one mailbox with two aliases and two forwards, two faults (the second can hit the rollback, or the append to the log). |
| `SendAs` | Is a time-out honest, does every run end? | One run, two owners, three renames, one fault (a restart or a failed write: either ends the one task); Timeout 3, Interval 1, Lag 1, SearchMax 1 give up to three searches. Runs do not interact but by the event loop, which Lag stands for. |
| `Suppression` | Does a walk see everybody, is a removed contact gone? | Pages of two over three contacts: walks of up to three pages. One administrator, one writer, two changes. |
| `SuppressionFilter` | "False positive ... is acceptable" (violated) | As above, one filtered view. |
| `MailboxStats` | Are gaps reported, what does a consumed trigger stand for, does every change arrive? | One mailbox with two columns (one a probe of the machine), a second domain without, two changes, two failures, one fetch at a time across the writes: one change is enough to be overtaken, the second to be announced behind it. |
| `Mainlog` | What does a stream deliver, what does the page show, does the tail come back? | Four lines of two lengths, one rotation, a window of three, one broken connection, three clicks (on, off, on). |
| `Login` | What does the limit count, when is a mailed code refused, what does a session go back to? | Two browsers at two addresses, four attempts against a limit of two, one stop or lost mail. Window 2, OtpTTL 1 and SessionTTL 1 in three time units let each of them end. |
| `Reputation` | Is an answered snapshot kept, is the history its window, does the cached score keep up, do reports and score say what the log says? | Two messages, one out and one in; three lines and snapshots together, a tail of two lines, so that a message can be cut; days of two units, a week, a score and a history of one day in four units, so that each window is left; one rotation, one failure. |

Symmetry is used for requests, readers and writers, and for aliases and forwards,
where nothing orders them, and in no run with a liveness property.  `CHECK_DEADLOCK FALSE` is set
where the bounds on operations, clock or lines end a behaviour; `MailboxStats`
and `HestiaCache` are checked for deadlock.

The run that must fail is a disagreement with a sentence of the repository; section 7
quotes it.

## 5. Fairness

- `Dnsbl`, `ErrorTranslator`: weak fairness of each coroutine's or thread's next
  step.  The event loop runs what is ready, `asyncio.Lock` is first in, first out,
  a lookup ends within the resolver's lifetime, and `threading.Lock` is released by
  its `with` block.  Nothing is assumed of failures, restarts or new requests.
- `SendAs`: weak fairness of the poll task and of time.
- `MailboxStats`: weak fairness of `Begin` (the systemd timer calls the endpoint
  every five minutes), of a running refresh (each command and HTTP call has a
  timeout) and of a cache entry's expiry.
- `Mainlog`: weak fairness of the generator's loop, of `setTimeout`, and of the
  file's creation after a rotation.  None of clicks, lines or rotations.

## 6. What is proved

TLAPS proves these for every value of the constants that satisfies the named
assumptions (sets of requests of any size, any TTL, any bounds):

- `HestiaProofs`, the cache.  `CacheTypeCorrect`.  `StaleOnlyWhenExcusedHolds` needs more than
  the property: a value that was fetched but not yet stored is excused in the same
  way as a cached one, or was marked when an invalidation passed it.  Without that
  the step `Store` could put anything into the cache.  `HitsAreRecentHolds` rests on
  `CurrentAt`: a value that was read at time *t* was current at *t*, and no later
  change can be dated before *t*; with the bound on `Tick` this dates each entry.
  `CacheImplementsPromise` is the refinement, one lemma per kind of step, with
  `HitsAreRecent` as the fact that makes `Hit` a `Serve` of the abstract register.
  Assumptions: `DomainAssumption`, `NoValueAssumption`, `TimeAssumption`.
- `HestiaProofs`, the write handlers.  `AuditClaimsHappenedHolds` from `ClaimInv`: what the log
  says plus what the request in flight may let it say is covered by what took
  effect.  The property alone is not inductive, because `AuditDone` writes what
  `done` remembers.  `FlowInv` says how far a replace and its rollback are (`Phased`).
  `CreatesAreAuditedHolds` adds `NamedInv`: a create in flight has counted as done all
  that took effect (`Covers`), unless a command was killed at its timeout, and one that
  gives up has done nothing; so its entry names it all.  `ReplaceKeepsOneHolds`
  adds `LoneInv`: with nobody else writing, what the last command added is still
  there.  `TypeCorrect` needs `Phased` as well, for the old entry that a rollback adds
  back.  Assumptions: `ListAssumption`, `BoundAssumption`.
- `DnsblProofs`.  `RefreshesAreSerialHolds` (the files refine `DnsblLedger`) from
  `SerialInv`: who looks up owns the lock, and the snapshot it compares with is
  still the one in the file.  `StatusIsRecentHolds` from `DatedInv`, which dates the
  cache entry and the lookup in progress.  `LockfileAdvancesHolds` from `QueueInv`:
  each request is in the lock's queue once, rechecks stand there in the order in which
  they came, and none came before the time in the lock file, which an interrupted
  write can only empty.  `AlertsMatchHistoryHolds`
  from `StoryInv`: while nothing failed, the latest snapshot is the last of the history,
  the numbers of the lookups ascend through it and no alert is from a later one, so that
  a new snapshot can add alerts of its own only; what `Newest` drops from the front,
  and what `InOrder` selects, are lemmas.  Assumptions: `TaskAssumption`,
  `BoundAssumption`, `ZonesAssumption` (the zones are a sequence), `SnapshotAssumption`
  (None is no snapshot).
- `SendAsProofs`.  `TimedOutMeansLateHolds` needs to know, at the moment the poll
  task gives up, what its last search has shown.  `Searched` says it step by step:
  a mail whose path is older than the search is not in a directory that is done, is
  in the list of the one being read, and is nowhere when the search is over.
  `OnTime` bounds how old that search is, and `MovedIsNew` disposes of deliveries,
  renames and changes of owner.  Assumption: `SendAsAssumption`.
- `EximFiltersProofs`.  `RollbackUndoesHolds`, `LosesOnlyUnseenChangesHolds` and
  `LoadsOnlyValidatedHolds` from four parts.  `Validated`: while nothing untested came
  in, the file, or what a refusal will put back, is what Exim accepted last.
  `Undoable`: the lines to put back are those that the replacement found.  `Timed`: a
  foreign change after the look at the modification time shows in it.  The properties
  speak of the end of an operation only; these say it of every step before.
  `NoDuplicatesHolds` and `AnswerIsTrueHolds` from `Listing`: the file and both reads of it
  are `Fresh` (the lines that adds wrote for their values differ), an operation that has
  passed its decision was not to be refused, and from the replacement on, while nobody
  edits, the value is listed or not as the answer is going to say.  `TextFresh`,
  `ConcatFresh` and `RemoveFresh` say that an append, a comment's further lines and a removal
  keep lines fresh.  Assumptions: `ValueAssumption`, `CommentAssumption` (what comments may hold
  is any sequence of lines) and `FileAssumption` (no line was the panel's before it
  started); a file may otherwise hold anything, unterminated and repeated lines too.
- `LoginProofs`.  `RefusalIsExcusedHolds` and `AccessGoesBackToOneCodeHolds` from what
  is known of codes: their numbers follow the order of the attempts (`Numbered`), the
  stored one is unused and the one its expiry belongs to (`Stored`), a mailed one that is
  not stored was used or replaced (`Kept`), and a request on its way to a cookie holds
  a code that was used once (`Opened`).  `LimitIsExactHolds` from `Counted`: the file, or
  what is about to be written to it, holds exactly the attempts of the window.
  Assumption: `LoginAssumption`.
- `LogProofs`.  `StatusIsSummaryHolds`: `StatusIsGravest` follows the status through the
  lines, one at a time; a completed message has no later line.  Induction over the lines goes through a set of
  numbers: `SetInduction` is derived from the least element of a set (the library's
  induction theorems take a predicate as a parameter), and `Recursion` shows from it that
  a function defined step by step along a log exists; `ReputationProofs` uses their result, `StatusIsGravest`.
  `DeliversInOrderHolds` from `LogInv` (the file holds what is behind `base`, and every
  line in it begins before its end) and `StreamInv`, whose heart is `Reading`: while the
  file a connection read is in place, it has seen exactly the lines in front of its
  offset, and after a rotation nothing of the new one.  `PollFinds` then says that a poll
  finds what the connection has not seen but for `Missed`, and `EventsListed` that it
  finds it in order.  Assumptions: `MainlogAssumption` (a line
  has a length), `MessagesAssumption` (None is no message).
- `ReputationProofs`.  `AnsweredIsKeptHolds` from `Safe`: an answered snapshot that is not
  older than it may be is on disk and in the connection's view, and the one in progress
  is so from its commit on.  `Pending` orders the steps of a request, and `CurrentKeepsUpHolds`
  rests on `Current`, which dates a fetch in progress as well as the cache.  The comparison of
  stamps as strings enters as arithmetic of days, with a lemma for each way it is
  used; `Day` and `KeepDays` are any positive numbers.
  `PerfectScoreIsEarnedHolds` and `ReportsTellTruthHolds` need what the log tells
  (`Recorded`): a message arrives once and before all else and is completed last,
  its lines bear its addresses, and no stamp is in the future.  The score is arithmetic of quotients from there (`ScoreIs`).  For the figures,
  `WholeMessage` says that a message whose arrival is in the tail has the sender,
  time and status that the whole log gives it, and `CutMessage` what is left of one whose arrival is
  not: no sender, and so no outgoing message.  Each count is then a bijection between the
  records and the messages sent (`Images`, `Picked`), or, for deliveries, an injection
  of lines into entries.  Assumption: `ReputationAssumption`: the windows are
  positive, no local domain is empty, and every message has a sender (Exim logs `<>` for
  a bounce's).  Its set of symbols leaves out `->`, a further recipient of a delivery,
  which the activity page's model has.
- `ServiceProofs`.  *Translator*: `TranslatorTypeCorrect`, and
  `PatternsMatchDictionaryHolds` and `LoadedOnceHolds` from `IInv`: the lock's owner is
  the one thread in the locked block, and how far the one load has come.
  *Statistics*: `GapsAreReportedHolds` says of the rows a refresh is collecting what
  the property says of the file, with the domains and mailboxes still to come excused.
  `TriggerCoversWritesHolds` needs to know of each mailbox what the refresh in progress
  has read of it against what had been touched for when it began (`base`), and that a
  touch the refresh may have missed, because of its time, of an error, or of an
  overtaken fetch's value in the cache (`missed`), is marked as such before the trigger
  goes.
  Assumptions: `MailboxStatsAssumption`, `NoneAssumption` (None is no mailbox, version
  or file).
  *Suppression list*: one invariant, `SuppressionInv`, of five parts.  `ListsInv`:
  every version of Brevo's list names each contact once, and between two versions with
  additions only everybody moves by as many places as there are versions between them.
  `PagesInv`: a page, cached or on its way, is what `Fetched` took from a version that
  exists, and shows no removed contact unless it was raced.  `WalksInv`: everybody who
  was on the list when a walk began, and stands before its offset in the version of its
  last page, has been shown, when nobody was taken off; the shift is what makes
  additions harmless.  The end of a walk
  then follows from counting the positions of a page that is not full.  Assumptions:
  `SuppressionAssumption` (the initial lists name each contact once, as Brevo's do),
  `NothingAssumption`.

Only model-checked: the liveness properties (`RequestsEnd`, `CallsEnd`, `RunsEnd`,
`ChangesReachStats`, `TailRecovers`), which need fairness and ENABLED.  Every other property
of a passing run is a theorem, for any numbers of lines, requests, faults and changes.

## 7. Where the code and its words differ

Shown by a run:

- `routers/suppression.py:49-50` says that the heuristic's error is at most an extra
  click.  A page thinned out by the category filter ends the walk although contacts
  follow (`SuppressionFilter`).

Met while modelling, and visible in the models, without a run of their own:

- `services/hestia.py:5-6` says that a write "invalidates read cache entries matching
  the affected domain".  A fetch that began before the write stores its outdated value
  behind the invalidation (`ReadUpstream`, `Store`).  `HitsAreRecent` bounds how long
  it is served.
- `routers/activity.py:133-134` says that a rotated log is read from its beginning.  A
  new file that has grown to the old offset by the next poll is not recognised (`Poll`);
  `DeliversInOrder` names that gap.
- `services/reputation.py:89-101` means to warn when the tail does not reach back as far
  as the window, and looks at the first message; but the list is sorted with the newest
  first, so that it warns whenever anything is recent.  After a rotation the score
  covers the new file only (`Shown`).
- `services/reputation.py:176`: a commit that raises leaves its transaction open; the row
  of a snapshot that was answered with an error appears with the next commit or
  an orderly stop (`Fail`, `Shutdown`).
- `services/exim.py:166-168` takes a completed message without a delivery for delivered.
  The panel's own delete (`:260-264`, `exim -Mrm`) completes a message so; removed
  before any try it counts as delivered on every page (`RemovedUntried`), removed after
  a deferral it stays deferred.
- `app.py:725`: a mailbox's `sent_7d` counts eight calendar days (`Mailbox`), and a
  message whose beginning is cut off counts as incoming (`Message`).
- The log is stamped in local time and `reputation.py` compares it with UTC; the models
  have one clock.
- `services/dnsbl.py:214`, `:246`: the snapshot is written before the alerts, so a
  failure between the two writes loses the transition (`RefreshFails`, `Persist`).
- `routers/blacklist.py:102` calls the limit race-free in one worker; the lookup is
  awaited between its read and its write (`Recheck`, `RefreshEnds`).  The write empties
  the file first; cut short, it leaves no limit at all (`Torn`).
- `services/exim_filters.py:226` promises the state before the add; the lines come
  from an earlier read, and a change made during the validation is written over.
  `RollbackUndoes` says what holds.
- `tests/test_exim_filters.py:83-86` has every added value listed.  Behind a last line
  without a newline it becomes part of that line (`exim_filters.py:167`), and the
  answer is ok all the same (`AppendText`); `AnswerIsTrue` names it.
- `exim_filters.py:164` refuses a duplicate.  The comment goes into the file
  as it was sent (`:143-147`, `:166`), and a newline in it starts a line that nothing is
  compared with (`Added`); `NoDuplicates` is about the values, not these lines.
- `exim_filters.py:123` calls its check a lock.  It does not run when the file was
  missing at the read (`:158-160`), nor when it is missing at the check, and takes
  times up to a millisecond apart for the same (`:129`): what another program
  writes then is overwritten (`Check`, `UnseenGaps`).
- `routers/filters.py:178-179` confirms the value on a line that is read again
  before it is removed (`StartRemove`, `ReadInner`).
- `routers/mailboxes.py:182` has a failed create logged so that "silent failures aren't
  lost".  A command that raises something else than `HestiaCLIError` skips the entry, and
  `services/audit.py:20-21` drops one that cannot be appended (`CallRaises`,
  `EndAudited`); `CreatesAreAudited` names both.
- `routers/forwards.py:274` calls a replace atomic; it is two commands.
- `services/brevo_suppression.py:53` says that the soft tab is empty; no code to look
  for means no filter (`Matches`).  `routers/suppression.py:139-145` asks for one
  more than the limit, which is capped at 100, so a walk with such a limit ends
  early.
- `services/mailbox_stats.py:3-4` says that the trigger wakes cron; nothing in the
  repository watches the file, the timer fires every five minutes.  The refresh it stands
  for reads through the cache: a value that an overtaken fetch left there goes into the
  file, and the trigger goes all the same (`FetchStores`, `ConsumeTrigger`).
- `services/maildir.py:144` says that a restart invalidates the owner cache; it is
  read back from its file.
- `services/sendas.py:121` says that the run's state is updated with the result.  The task
  is not awaited and catches nothing: a directory or a mail that goes at the wrong
  moment, or a run file that cannot be written, leaves the run "sent" or its file
  empty, and nothing polls it again (`ListRaises`, `OpenRaises`, `Finish`, `Restart`).
  `RunsEnd` excuses these by name, and no other end.
- During the back-off of `sse.js` the tail's button still offers to switch it off,
  and a click then starts it.

## 8. What is not modelled

Quarantine, providers, CSRF, templates, most browser modules, and the
relay switch, queue, domain health and settings of `app.py` keep no state between
requests: each is a command, a read or a rendering.  The mailbox writes of
`app.py` appear as `OutsideChange`.  The two upstream reads of `get_autoreply`
(`services/hestia.py:319`) are one read.  In `SendAs` a `read_bytes` that fails although the
file is in place (`services/maildir.py:192`, skipped until the next search) does not
happen, and the recipient's mailbox moves but is not deleted; a deleted one raises in the same
places.  A JSON file that cannot be read for a moment, which `_read_json`
(`services/dnsbl.py:190-197`) and `load_json` (`app.py:199-203`) take for an empty one, is
modelled in `Login` where a write was cut short, and not for the DNSBL files, which are
replaced as a whole: with a read that fails for another reason the next write loses
history, alerts or the attempts of the other addresses.  HestiaCP's commands either answer or fail: an empty or
malformed answer, which `services/hestia.py:125-126`, `:223` and `:236-240` turn into
no domains and no mailboxes, without an error, is not among the answers of
`MailboxStats`.  The session does not expire while a tail runs (`routers/activity.py:112` refuses
it from then on, however often the page tries again).
In `Login` two random codes are different and nobody guesses one at `/verify`,
and in `Reputation` Brevo's answer is a number.  Left out everywhere: wording,
formatting, the text of log entries, argument checks that only refuse, and what a DNS
answer or a mail header means.  The search box of the suppression page filters what is already shown.
`du`, the Dovecot log and Brevo's category counts are values without content.

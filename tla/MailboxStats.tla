---------------------------- MODULE MailboxStats ----------------------------
(***************************************************************************)
(* services/mailbox_stats.py: the refresher that walks every mailbox of    *)
(* every domain and writes data/mailbox_stats.json, called by cron through *)
(* routers/cron.py, while mailboxes change.                                *)
(*                                                                         *)
(* Each column is one await, so a refresh interleaves with everything, and *)
(* its last two steps (os.replace, unlink) with the worker thread of a     *)
(* write, which invalidates the cache of services/hestia.py and then       *)
(* touches the trigger.  That cache appears as what HestiaCache shows of   *)
(* it: a read returns a version no older than the last one announced,      *)
(* unless a fetch that was in flight across the invalidation has stored an *)
(* older one; that, and a change that nobody announces, is over when the   *)
(* entry expires.  A value is its version.                                 *)
(***************************************************************************)
EXTENDS Naturals, Sequences

CONSTANTS
  Domains, Boxes,
  DomainOf,     \* the domain of a mailbox
  Steps,        \* the columns that are read one by one
  Probes,       \* those of the local machine: their readers answer None, not an error
  MaxVersion,   \* bound on the number of changes of a mailbox
  MaxFailures,  \* bound on failed reads and writes
  None

ASSUME MailboxStatsAssumption ==
  /\ DomainOf \in [Boxes -> Domains]
  /\ Steps \in Seq(STRING) /\ Steps # <<>>
  /\ Probes \subseteq {Steps[i] : i \in DOMAIN Steps}
  /\ MaxVersion \in Nat /\ MaxFailures \in Nat

\* What an error says failed, and for what; the file.
Errors == ({"list_domains", "list_mailboxes"} \cup {Steps[i] : i \in DOMAIN Steps})
            \X (Domains \cup Boxes \cup {None})
Files == [rows : [Boxes -> Seq(Nat \cup {None})], errors : SUBSET Errors]

ASSUME NoneAssumption == None \notin Boxes \cup Nat \cup Files

VARIABLES
  version,   \* [Boxes -> Nat]: HestiaCP's state
  known,     \* [Boxes -> Nat]: the oldest version a read may return
  fetch,     \* the version a page's fetch of a mailbox holds, None without one
  overtaken, \* the mailboxes of which a fetch has stored behind an invalidation
  write,     \* the mailbox and version invalidated, but not yet touched for
  trigger,   \* data/mailbox_stats.trigger exists
  file,      \* data/mailbox_stats.json, None before the first refresh
  refresh,   \* the refresh that holds _refresh_lock
  touched,   \* [Boxes -> Nat]: the version of the last touch
  lost,      \* [Boxes -> Nat]: the last touch that a refresh saw, but not its write
  failures

cached == <<known, fetch, overtaken>>
vars == <<version, cached, write, trigger, file, refresh, touched, lost, failures>>

Zero == [b \in Boxes |-> 0]
BoxesOf(d) == {b \in Boxes : DomainOf[b] = d}
NoRow == <<>>

\* base: what had been touched for when the refresh began; missed: the mailboxes
\* read while an overtaken fetch was in the cache.
Idle == [pc |-> "idle", domains |-> {}, boxes |-> {}, box |-> None,
         rows |-> [b \in Boxes |-> NoRow], errors |-> {}, base |-> Zero, missed |-> {}]

Init ==
  /\ version = Zero /\ known = Zero /\ touched = Zero /\ lost = Zero
  /\ fetch = [b \in Boxes |-> None] /\ overtaken = {}
  /\ write = None
  /\ trigger = FALSE
  /\ file = None
  /\ refresh = Idle
  /\ failures = 0

-----------------------------------------------------------------------------
(* refresh().                                                              *)

Fault == failures < MaxFailures /\ failures' = failures + 1
Unseen == UNCHANGED <<version, cached, write, touched>>

\* Mutant: cron refreshes only when a write has touched the trigger.
BeginOnTrigger ==
  /\ refresh.pc = "idle"
  /\ refresh' = IF trigger THEN [Idle EXCEPT !.pc = "domains", !.base = touched] ELSE refresh
  /\ UNCHANGED <<trigger, file, lost, failures>> /\ Unseen

\* A second call while one runs is answered {"status": "in_progress"}.
Begin ==
  /\ refresh.pc = "idle"
  /\ refresh' = [Idle EXCEPT !.pc = "domains", !.base = touched]
  /\ UNCHANGED <<trigger, file, lost, failures>> /\ Unseen

ListDomains ==
  /\ refresh.pc = "domains"
  /\ refresh' = [refresh EXCEPT !.pc = "walk", !.domains = Domains]
  /\ UNCHANGED <<trigger, file, lost, failures>> /\ Unseen

ListDomainsFails ==
  /\ refresh.pc = "domains"
  /\ Fault
  /\ refresh' = [refresh EXCEPT !.pc = "walk", !.errors = @ \cup {<<"list_domains", None>>}]
  /\ UNCHANGED <<trigger, file, lost>> /\ Unseen

\* The next domain, when the mailboxes of the last are done.
Walking == refresh.pc = "walk" /\ refresh.box = None /\ refresh.boxes = {}

ListBoxes(d) ==
  /\ Walking /\ d \in refresh.domains
  /\ refresh' = [refresh EXCEPT !.domains = @ \ {d}, !.boxes = BoxesOf(d)]
  /\ UNCHANGED <<trigger, file, lost, failures>> /\ Unseen

ListBoxesFails(d) ==
  /\ Walking /\ d \in refresh.domains
  /\ Fault
  /\ refresh' = [refresh EXCEPT !.domains = @ \ {d},
                                !.errors = @ \cup {<<"list_mailboxes", d>>}]
  /\ UNCHANGED <<trigger, file, lost>> /\ Unseen

NextBox(b) ==
  /\ refresh.pc = "walk" /\ refresh.box = None /\ b \in refresh.boxes
  /\ refresh' = [refresh EXCEPT !.boxes = @ \ {b}, !.box = b]
  /\ UNCHANGED <<trigger, file, lost, failures>> /\ Unseen

\* The row grows by one column; the mailbox is done after the last.
Column(b, value, errors) ==
  LET row == Append(refresh.rows[b], value)
  IN  refresh' = [refresh EXCEPT
        !.rows[b] = row,
        !.errors = @ \cup errors,
        !.missed = @ \cup (overtaken \cap {b}),
        !.box = IF Len(row) = Len(Steps) THEN None ELSE b]

StepAt(b) == Steps[Len(refresh.rows[b]) + 1]

ReadColumn(b) ==
  /\ refresh.pc = "walk" /\ refresh.box = b
  /\ \E v \in known[b]..version[b] : Column(b, v, {})
  /\ UNCHANGED <<trigger, file, lost, failures>> /\ Unseen

\* Mutant: the error is dropped.
ColumnFailsQuietly(b) ==
  /\ refresh.pc = "walk" /\ refresh.box = b
  /\ Fault
  /\ Column(b, None, {})
  /\ UNCHANGED <<trigger, file, lost>> /\ Unseen

\* A HestiaCP read raises; du times out or the log cannot be read.
ColumnFails(b) ==
  /\ refresh.pc = "walk" /\ refresh.box = b
  /\ Fault
  /\ Column(b, None, {<<StepAt(b), b>>} \ (Probes \X Boxes))
  /\ UNCHANGED <<trigger, file, lost>> /\ Unseen

Walked == Walking /\ refresh.domains = {}

\* _atomic_write: os.replace.
ReplaceFile ==
  /\ Walked
  /\ file' = [rows |-> refresh.rows, errors |-> refresh.errors]
  /\ lost' = [b \in Boxes |->
       IF refresh.errors # {} \/ b \in refresh.missed THEN touched[b] ELSE lost[b]]
  /\ refresh' = [refresh EXCEPT !.pc = "replaced"]
  /\ UNCHANGED <<trigger, failures>> /\ Unseen

\* An OSError leaves refresh() and frees the lock; the trigger stays.
WriteFails ==
  /\ Walked
  /\ Fault
  /\ refresh' = Idle
  /\ UNCHANGED <<trigger, file, lost>> /\ Unseen

\* TRIGGER_FILE.unlink(), also of a touch that came after the refresh began.
ConsumeTrigger ==
  /\ refresh.pc = "replaced"
  /\ trigger' = FALSE
  /\ lost' = [b \in Boxes |->
       IF touched[b] > refresh.base[b] THEN touched[b] ELSE lost[b]]
  /\ refresh' = Idle
  /\ UNCHANGED <<file, failures>> /\ Unseen

-----------------------------------------------------------------------------
(* The surroundings.                                                       *)

\* Mutant: the trigger is touched before the cache is invalidated.
WriteStale(b) ==
  /\ write = None
  /\ version[b] < MaxVersion
  /\ version' = [version EXCEPT ![b] = @ + 1]
  /\ write' = <<b, version[b] + 1>>
  /\ UNCHANGED <<cached, trigger, file, refresh, touched, lost, failures>>

\* A command took effect; _post_write invalidates ...
Write(b) ==
  /\ write = None
  /\ version[b] < MaxVersion
  /\ version' = [version EXCEPT ![b] = @ + 1]
  /\ known' = [known EXCEPT ![b] = version[b] + 1]
  /\ overtaken' = overtaken \ {b}
  /\ write' = <<b, version[b] + 1>>
  /\ UNCHANGED <<fetch, trigger, file, refresh, touched, lost, failures>>

\* ... and touches the trigger, unless the service stops or touch fails.
Touch ==
  /\ write # None
  /\ trigger' = TRUE
  /\ touched' = [touched EXCEPT ![write[1]] = write[2]]
  /\ write' = None
  /\ UNCHANGED <<version, cached, file, refresh, lost, failures>>

TouchFails ==
  /\ write # None
  /\ Fault
  /\ write' = None
  /\ UNCHANGED <<version, cached, trigger, file, refresh, touched, lost>>

\* The HestiaCP panel, or a write that was not reported.
OutsideChange(b) ==
  /\ version[b] < MaxVersion
  /\ version' = [version EXCEPT ![b] = @ + 1]
  /\ UNCHANGED <<cached, write, trigger, file, refresh, touched, lost, failures>>

\* A page, or the refresh itself, misses the cache and reads HestiaCP ...
FetchBegins(b) ==
  /\ fetch[b] = None
  /\ fetch' = [fetch EXCEPT ![b] = version[b]]
  /\ UNCHANGED <<version, known, overtaken, write, trigger, file, refresh, touched, lost, failures>>

\* ... fails, or stores what it has read, also when it was overtaken meanwhile.
FetchBreaks(b) ==
  /\ fetch[b] # None
  /\ fetch' = [fetch EXCEPT ![b] = None]
  /\ UNCHANGED <<version, known, overtaken, write, trigger, file, refresh, touched, lost, failures>>

FetchStores(b) ==
  /\ fetch[b] # None
  /\ fetch' = [fetch EXCEPT ![b] = None]
  /\ IF fetch[b] < known[b]
     THEN /\ known' = [known EXCEPT ![b] = fetch[b]]
          /\ overtaken' = overtaken \cup {b}
     ELSE UNCHANGED <<known, overtaken>>
  /\ UNCHANGED <<version, write, trigger, file, refresh, touched, lost, failures>>

\* Five minutes pass: what HestiaCP says now is read from now on.
Expire(b) ==
  /\ known[b] < version[b]
  /\ known' = [known EXCEPT ![b] = version[b]]
  /\ overtaken' = overtaken \ {b}
  /\ UNCHANGED <<version, fetch, write, trigger, file, refresh, touched, lost, failures>>

Restart ==
  /\ Fault
  /\ known' = version /\ overtaken' = {}
  /\ fetch' = [b \in Boxes |-> None]
  /\ write' = None
  /\ refresh' = Idle
  /\ UNCHANGED <<version, trigger, file, touched, lost>>

Refreshing ==
  \/ ListDomains
  \/ \E d \in Domains : ListBoxes(d)
  \/ \E b \in Boxes : NextBox(b) \/ ReadColumn(b)
  \/ ReplaceFile \/ ConsumeTrigger

Failing ==
  \/ ListDomainsFails
  \/ \E d \in Domains : ListBoxesFails(d)
  \/ \E b \in Boxes : ColumnFails(b)
  \/ WriteFails

Next ==
  \/ Begin \/ Refreshing \/ Failing
  \/ \E b \in Boxes : Write(b) \/ OutsideChange(b) \/ Expire(b)
  \/ \E b \in Boxes : FetchBegins(b) \/ FetchBreaks(b) \/ FetchStores(b)
  \/ Touch \/ TouchFails \/ Restart

Spec == Init /\ [][Next]_vars

\* The timer fires every five minutes, every command and every HTTP call has a
\* timeout, and a cache entry expires.
FairSpec ==
  Spec /\ WF_vars(Begin) /\ WF_vars(Refreshing) /\ \A b \in Boxes : WF_vars(Expire(b))

-----------------------------------------------------------------------------
(* Properties.                                                             *)

\* Nothing is missing from the statistics without a reason in their error list:
\* not a domain, not a mailbox, not a column that HestiaCP answers for
\* (services/mailbox_stats.py:4-5, "Per-mailbox errors collected, don't fail
\* entire refresh").  The probes of the local machine do leave gaps silently.
GapsAreReported ==
  file # None =>
    \A b \in Boxes :
      /\ file.rows[b] = NoRow =>
           \/ <<"list_domains", None>> \in file.errors
           \/ <<"list_mailboxes", DomainOf[b]>> \in file.errors
      /\ \A i \in DOMAIN file.rows[b] :
           file.rows[b][i] = None => <<Steps[i], b>> \in file.errors \/ Steps[i] \in Probes

UpToDate(b, v) ==
  /\ file # None
  /\ file.rows[b] # NoRow
  /\ \A i \in {j \in DOMAIN Steps : Steps[j] \notin Probes} :
       file.rows[b][i] # None /\ file.rows[b][i] >= v

\* When no trigger is left, every write that was announced by one is in the
\* statistics, except those whose touch came while a refresh was already running,
\* which it failed to read something of, or of which it read what a fetch stored
\* behind the write's invalidation (services/mailbox_stats.py:264-268 against
\* services/hestia.py:413-420 and 179-182).
TriggerCoversWrites ==
  \A b \in Boxes : ~trigger /\ touched[b] > lost[b] => UpToDate(b, touched[b])

\* Once failures stop, every change reaches the statistics, announced or not,
\* whether or not its trigger was lost.
ChangesReachStats ==
  \A b \in Boxes, v \in 1..MaxVersion : version[b] >= v ~> UpToDate(b, v)
=============================================================================

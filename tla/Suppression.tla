---------------------------- MODULE Suppression ----------------------------
(***************************************************************************)
(* The Brevo suppression list: services/brevo_suppression.py and           *)
(* routers/suppression.py.  Pages of Brevo's list are cached one by one,   *)
(* filtered by category after they are fetched, and walked by an           *)
(* administrator from next_offset to next_offset, while the panel and      *)
(* Brevo itself add and remove contacts.                                   *)
(*                                                                         *)
(* Everything between two requests to Brevo is one step: _cache_lock is    *)
(* never held across a suspension, so nobody ever waits for it.  Brevo     *)
(* lists the newest contact first, each once.  lists keeps every version   *)
(* of its list; a page is the positions of its rows in the version it was  *)
(* read from, and raced says that a flush passed while its answer was on   *)
(* the way.                                                                *)
(***************************************************************************)
EXTENDS Naturals, FiniteSets, Sequences, SequencesExt

CONSTANTS
  Contacts, Tabs,  \* tabs that stand for at least one reason code
  TabOf,           \* the tab of a contact's reason code
  Cap,             \* most contacts Brevo returns at once
  Views,           \* what is walked: category, limit, how many more are fetched
  Readers, Writers,
  InitialLists, MaxChanges,
  Nothing

ASSUME SuppressionAssumption ==
  /\ TabOf \in [Contacts -> Tabs]
  /\ Cap \in Nat \ {0} /\ MaxChanges \in Nat
  /\ Views \subseteq [cat : Tabs \cup {"all", "soft"}, limit : Nat \ {0}, peek : {0, 1}]
  /\ InitialLists \subseteq {l \in Seq(Contacts) : IsInjective(l)}

VARIABLES
  lists,      \* the versions of Brevo's list so far
  gone,       \* contacts removed by a write the panel has answered
  cache,      \* _cache: blocked pages by their key
  counts,     \* _cache holds the category counts
  walk,       \* each administrator's walk through the pages
  request,    \* the page request that waits for Brevo
  writer      \* the add, remove and bulk-remove requests

suppressionVars == <<lists, gone, cache, counts, walk, request, writer>>

Version == Len(lists)
List == lists[Version]

\* No reason code to look for means no filter: "all" has none, nor has "soft".
Wanted(cat) == {cat} \cap Tabs
Matches(c, cat) == Wanted(cat) # {} => TabOf[c] \in Wanted(cat)

Key(cat, limit, offset) == [cat |-> cat, limit |-> limit, offset |-> offset]
CountsKey == Key("all", Cap, 0)
Page(at, version, raced) == [at |-> at, version |-> version, raced |-> raced]
Pages == [at : SUBSET (Nat \ {0}), version : Nat \ {0}, raced : BOOLEAN]

ASSUME NothingAssumption == Nothing \notin Views \cup Pages

\* The contacts at some positions of a version of the list.
Rows(version, at) == {lists[version][i] : i \in at}

\* list_blocked past the cache: at most Cap rows of Brevo's list, then the filter.
Fetched(k) ==
  {i \in DOMAIN List : /\ k.offset < i /\ i <= k.offset + k.limit /\ i <= k.offset + Cap
                       /\ Matches(List[i], k.cat)}

NoWalk == [view |-> Nothing, offset |-> 0, shown |-> {}, first |-> 0, last |-> 0,
           back |-> FALSE, end |-> "open"]
NoRequest == [pc |-> "idle", key |-> Nothing, got |-> Nothing, answer |-> Nothing]
NoWrite == [pc |-> "idle", kind |-> Nothing, todo |-> {}, contact |-> Nothing]

SuppressionInit ==
  /\ lists \in {<<l>> : l \in InitialLists}
  /\ gone = {}
  /\ cache = <<>>
  /\ counts = FALSE
  /\ walk = [r \in Readers |-> NoWalk]
  /\ request = [r \in Readers |-> NoRequest]
  /\ writer = [w \in Writers |-> NoWrite]

-----------------------------------------------------------------------------
(* Pages.                                                                  *)

\* Mutant: a full page is not taken for a sign of more.
MoreThanFull(v, page) == Cardinality(page.at) > v.limit + v.peek
\* has_more: the HTML page compares with limit what it got, the API with
\* limit what it got on top.
More(v, page) == Cardinality(page.at) >= v.limit + v.peek

\* The n rows that come first.
FirstOf(n, at) == {i \in at : Cardinality({j \in at : j <= i}) <= n}

Turned(a, page) ==
  [view |-> a.view,
   shown |-> a.shown \cup Rows(page.version, FirstOf(a.view.limit, page.at)),
   first |-> IF a.first = 0 THEN page.version ELSE a.first,
   last |-> page.version,
   back |-> a.back \/ page.version < a.last,
   offset |-> a.offset + a.view.limit,
   end |-> IF More(a.view, page) THEN "open" ELSE "shown"]

Waits(k, answer) == [pc |-> "fetch", key |-> k, got |-> Nothing, answer |-> answer]

\* A page is at hand and c is the cache.  The HTML page still needs the
\* category counts, cached for themselves and taken from the first page of "all".
Finish(r, a, page, c) ==
  IF a.view.peek = 0 /\ ~counts /\ CountsKey \notin DOMAIN c
  THEN /\ request' = [request EXCEPT ![r] = Waits(CountsKey, page)]
       /\ walk' = [walk EXCEPT ![r] = a]
       /\ UNCHANGED counts
  ELSE /\ request' = [request EXCEPT ![r] = NoRequest]
       /\ walk' = [walk EXCEPT ![r] = IF page = Nothing THEN [a EXCEPT !.end = "error"]
                                                    ELSE Turned(a, page)]
       /\ counts' = (counts \/ a.view.peek = 0)

Ask(r, a) ==
  LET k == Key(a.view.cat, a.view.limit + a.view.peek, a.offset)
  IN  /\ IF k \in DOMAIN cache
         THEN Finish(r, a, cache[k], cache)
         ELSE /\ request' = [request EXCEPT ![r] = Waits(k, Nothing)]
              /\ walk' = [walk EXCEPT ![r] = a]
              /\ UNCHANGED counts
      /\ UNCHANGED <<lists, gone, cache, writer>>

Open(r, v) ==
  /\ request[r].pc = "idle"
  /\ Ask(r, [NoWalk EXCEPT !.view = v])

FollowNext(r) ==
  /\ request[r].pc = "idle"
  /\ walk[r].view # Nothing /\ walk[r].end = "open"
  /\ Ask(r, walk[r])

Fetch(r) ==
  /\ request[r].pc = "fetch"
  /\ request' = [request EXCEPT ![r].pc = "loaded",
                                ![r].got = Page(Fetched(request[r].key), Version, FALSE)]
  /\ UNCHANGED <<lists, gone, cache, counts, walk, writer>>

Caching(k, page) == [j \in DOMAIN cache \cup {k} |-> IF j = k THEN page ELSE cache[j]]

ForPage(r) == request[r].answer = Nothing /\ walk[r].end = "open"

\* Brevo's answer arrives: store it, then go on with what it was fetched for.
Store(r) ==
  /\ request[r].pc = "loaded"
  /\ cache' = Caching(request[r].key, request[r].got)
  /\ IF ForPage(r)
     THEN Finish(r, walk[r], request[r].got, cache')
     ELSE Finish(r, walk[r], request[r].answer, cache')
  /\ UNCHANGED <<lists, gone, writer>>

\* BrevoSuppressionError.  Without a page the HTML page shows the error, still
\* asks for the counts, and shows zeros when those fail; the API answers 500.
FetchFails(r) ==
  /\ request[r].pc \in {"fetch", "loaded"}
  /\ IF ForPage(r)
     THEN Finish(r, [walk[r] EXCEPT !.end = "error"], Nothing, cache)
     ELSE /\ request' = [request EXCEPT ![r] = NoRequest]
          /\ walk' = [walk EXCEPT ![r] =
               IF request[r].answer = Nothing THEN @ ELSE Turned(@, request[r].answer)]
          /\ UNCHANGED counts
  /\ UNCHANGED <<lists, gone, cache, writer>>

\* Five minutes pass.
PageExpires(k) ==
  /\ k \in DOMAIN cache
  /\ cache' = [j \in DOMAIN cache \ {k} |-> cache[j]]
  /\ UNCHANGED <<lists, gone, counts, walk, request, writer>>

CountsExpire ==
  /\ counts
  /\ counts' = FALSE
  /\ UNCHANGED <<lists, gone, cache, walk, request, writer>>

-----------------------------------------------------------------------------
(* Writes.                                                                 *)

\* Brevo's list after a contact is added, or removed: 404 counts as removed.
Becomes(l) ==
  /\ lists' = IF l = List THEN lists ELSE Append(lists, l)
  /\ Len(lists') <= MaxChanges + 1
Effect(kind, c) ==
  IF kind = "add"
  THEN IF c \in ToSet(List) THEN List ELSE <<c>> \o List
  ELSE IF c \in ToSet(List) THEN RemoveAt(List, CHOOSE i \in DOMAIN List : List[i] = c) ELSE List

Sending(kind, todo, c) ==
  [pc |-> "sent", kind |-> kind, todo |-> todo \ {c}, contact |-> c]

\* One address is added, one or several (bulk-remove) are removed, one by one.
StartWrite(w, kind, S) ==
  /\ writer[w].pc = "idle"
  /\ \E c \in S : writer' = [writer EXCEPT ![w] = Sending(kind, S, c)]
  /\ UNCHANGED <<lists, gone, cache, counts, walk, request>>

Apply(w) ==
  /\ writer[w].pc = "sent"
  /\ Becomes(Effect(writer[w].kind, writer[w].contact))
  /\ gone' = gone \ ToSet(List')
  /\ writer' = [writer EXCEPT ![w].pc = "applied"]
  /\ UNCHANGED <<cache, counts, walk, request>>

Proceed(w) ==
  IF writer[w].todo = {}
  THEN writer' = [writer EXCEPT ![w] = NoWrite]
  ELSE \E c \in writer[w].todo :
         writer' = [writer EXCEPT ![w] = Sending(writer[w].kind, writer[w].todo, c)]

\* A refusal, a timeout, a lost answer: reported as failed, nothing is flushed.
WriteRefused(w) ==
  /\ writer[w].pc \in {"sent", "applied"}
  /\ Proceed(w)
  /\ UNCHANGED <<lists, gone, cache, counts, walk, request>>

\* Mutant: only the first pages are dropped.
FlushedFirst == [k \in {j \in DOMAIN cache : j.offset # 0} |-> cache[k]]
\* _cache_flush_blocked: every page goes, the category counts stay.
Flushed == <<>>

Confirm(w) ==
  /\ writer[w].pc = "applied"
  /\ cache' = Flushed
  /\ request' = [r \in Readers |->
       IF request[r].pc = "loaded" THEN [request[r] EXCEPT !.got.raced = TRUE]
                                   ELSE request[r]]
  /\ gone' = IF writer[w].kind = "remove" THEN gone \cup ({writer[w].contact} \ ToSet(List))
                                          ELSE gone
  /\ Proceed(w)
  /\ UNCHANGED <<lists, counts, walk>>

\* A bounce, a complaint, Brevo's own panel.
Outside(kind, c) ==
  /\ Becomes(Effect(kind, c)) /\ lists' # lists
  /\ gone' = gone \ ToSet(List')
  /\ UNCHANGED <<cache, counts, walk, request, writer>>

SuppressionNext ==
  \/ \E r \in Readers :
       \/ \E v \in Views : Open(r, v)
       \/ FollowNext(r) \/ Fetch(r) \/ Store(r) \/ FetchFails(r)
  \/ \E k \in DOMAIN cache : PageExpires(k)
  \/ CountsExpire
  \/ \E w \in Writers :
       \/ \E c \in Contacts : StartWrite(w, "add", {c})
       \/ \E S \in SUBSET Contacts \ {{}} : StartWrite(w, "remove", S)
       \/ Apply(w) \/ WriteRefused(w) \/ Confirm(w)
  \/ \E kind \in {"add", "remove"}, c \in Contacts : Outside(kind, c)

SuppressionSpec == SuppressionInit /\ [][SuppressionNext]_suppressionVars

-----------------------------------------------------------------------------
(* Properties.                                                             *)

\* The walk went forward in time and nobody was taken off the list meanwhile
\* (additions move contacts to later pages, never to earlier ones).
Undisturbed(a) ==
  /\ a.end = "shown" /\ ~a.back
  /\ \A v \in a.first..(a.last - 1) : ToSet(lists[v]) \subseteq ToSet(lists[v + 1])

Complete(a) ==
  \A c \in ToSet(lists[a.first]) : Matches(c, a.view.cat) => c \in a.shown

\* Following next_offset to the end shows every contact that was on the list,
\* whatever mix of cached and fetched pages the walk saw and whatever was added
\* in between, for an unfiltered view whose over-fetch Brevo does not cap
\* (routers/suppression.py:64-66 and 142-148).
WalkIsComplete ==
  \A r \in Readers :
    LET a == walk[r]
    IN  (a.view # Nothing /\ Undisturbed(a) /\ Wanted(a.view.cat) = {}
           /\ a.view.limit + a.view.peek <= Cap)
          => Complete(a)

\* A contact whose removal the panel has reported is in no cached page,
\* except one whose answer was on the way when the removal flushed the cache
\* (services/brevo_suppression.py:80-84 and 241-242; the race is that of 124-158).
RemovedIsGone ==
  \A k \in DOMAIN cache : gone \cap Rows(cache[k].version, cache[k].at) # {} => cache[k].raced

\* routers/suppression.py:49-50: "if we got back the full page, assume there
\* might be more.  False positive (one extra empty next click) is acceptable."
\* So no view ends early.  The code compares the limit with the rows left after
\* the filter.
NeverEndsEarly ==
  \A r \in Readers :
    walk[r].view # Nothing /\ Undisturbed(walk[r]) => Complete(walk[r])
=============================================================================

------------------------------ MODULE Mainlog ------------------------------
(***************************************************************************)
(* Exim's mainlog and its two readers: the activity page, which reads and  *)
(* aggregates its tail (routers/activity.py, api_activity), and the event  *)
(* stream, which polls it for what was appended (api_events_stream), with  *)
(* the browser's side of the stream (static/js/sse.js).                    *)
(*                                                                         *)
(* Exim appends whole lines; logrotate renames the file.  A poll opens and *)
(* closes the file by name, so it is one step.  lines is all that was ever *)
(* logged, each with the offset at which it begins in its file; the file   *)
(* holds lines[base + 1] onwards.  Of conn, the fields got, from, seen,    *)
(* file and excused are history.                                           *)
(***************************************************************************)
EXTENDS Messages

CONSTANTS
  Length,        \* [Symbols \cup {"other"} -> Nat]: length of a line, in some unit
  Window,        \* how many lines the activity page reads
  MaxLines, MaxRenames, MaxBreaks, MaxClicks

ASSUME MainlogAssumption ==
  /\ Length \in [Symbols \cup {"other"} -> Nat \ {0}]
  /\ Window \in Nat \ {0}
  /\ {MaxLines, MaxRenames, MaxBreaks, MaxClicks} \subseteq Nat

VARIABLES
  lines,      \* every line so far
  base,       \* lines before the current file
  size,       \* length of the current file
  exists,     \* the file exists under its name
  conn,       \* STATE.eventSource and the generator that serves it, or None
  topic,      \* STATE.topic is set
  timers,     \* reconnect timers that have not fired
  renames, breaks, clicks

logVars == <<lines, base, size, exists, renames>>
browser == <<conn, topic, timers, breaks, clicks>>
mainlogVars == <<logVars, browser>>

\* A generator before its first look at the file.
Connecting == [initialized |-> FALSE, size |-> 0, got |-> <<>>,
               from |-> 0, seen |-> 0, file |-> 0, excused |-> {}]

MainlogInit ==
  /\ lines = <<>> /\ base = 0 /\ size = 0 /\ exists = TRUE
  /\ conn = None /\ topic = FALSE /\ timers = 0
  /\ renames = 0 /\ breaks = 0 /\ clicks = 0

-----------------------------------------------------------------------------
(* The log.                                                                *)

\* A message arrives, is tried, and is completed when nobody is left to try or
\* when it is removed from the queue, tried or not.
MayFollow(m, sym) ==
  LET told == SymbolsOf(lines, m)
  IN  IF sym = "<=" THEN told = {}
      ELSE /\ "<=" \in told /\ "Completed" \notin told
           /\ sym = "->" => "=>" \in told

Log(m, sym) ==
  /\ Len(lines) < MaxLines
  /\ lines' = Append(lines, [msg |-> m, sym |-> sym, at |-> size])
  /\ size' = size + Length[sym]
  /\ exists' = TRUE
  /\ UNCHANGED <<base, renames>> /\ UNCHANGED browser

LogLine(m, sym) == MayFollow(m, sym) /\ Log(m, sym)
LogOther == Log(None, "other")

\* logrotate renames the file; it or Exim creates the next one.
Rename ==
  /\ exists
  /\ renames < MaxRenames
  /\ renames' = renames + 1
  /\ base' = Len(lines) /\ size' = 0
  /\ exists' = FALSE
  /\ UNCHANGED lines /\ UNCHANGED browser

Create ==
  /\ ~exists
  /\ exists' = TRUE
  /\ UNCHANGED <<lines, base, size, renames>> /\ UNCHANGED browser

-----------------------------------------------------------------------------
(* api_events_stream: a look at the file every two seconds.                *)

Connect ==
  /\ conn # None /\ exists /\ ~conn.initialized
  /\ conn' = [Connecting EXCEPT !.initialized = TRUE, !.size = size,
                                !.from = Len(lines), !.seen = Len(lines),
                                !.file = base]
  /\ UNCHANGED logVars /\ UNCHANGED <<topic, timers, breaks, clicks>>

\* Mutant: a shrunken file is not read from its beginning.
SeekPastEnd == conn.size
\* A file that shrank was rotated.
Seek == IF size < conn.size THEN 0 ELSE conn.size

\* The events of the file that begin at or after the offset, line by line.
EventsFrom(offset) ==
  LET events[n \in 0 .. Len(lines) - base] ==
        IF n = 0 THEN <<>>
        ELSE IF IsEvent(lines[base + n]) /\ lines[base + n].at >= offset
             THEN Append(events[n - 1], base + n)
             ELSE events[n - 1]
  IN  events[Len(lines) - base]

\* What the code cannot know about: the rest of a file that was rotated away
\* since the last poll and, when the new file has outgrown the old offset, what
\* stands before that offset in it.
Missed ==
  IF base = conn.file THEN {}
  ELSE {i \in (conn.seen + 1)..Len(lines) :
          i <= base \/ (size >= conn.size /\ lines[i].at < conn.size)}

Poll ==
  /\ conn # None /\ exists /\ conn.initialized
  /\ conn' = [conn EXCEPT !.size = IF size > Seek THEN size ELSE Seek,
                          !.got = @ \o EventsFrom(Seek),
                          !.seen = Len(lines),
                          !.file = base,
                          !.excused = @ \cup Missed]
  /\ UNCHANGED logVars /\ UNCHANGED <<topic, timers, breaks, clicks>>

\* Mutant: no timer is set.
BrokenForGood ==
  /\ conn' = None
  /\ UNCHANGED timers

\* es.onerror: the connection broke, the service restarted, or the generator
\* sent "mainlog yok" and ended.  The topic stays and a timer is set.
Broken ==
  /\ conn' = None
  /\ timers' = timers + 1

FileMissing ==
  /\ conn # None /\ ~exists
  /\ Broken
  /\ UNCHANGED logVars /\ UNCHANGED <<topic, breaks, clicks>>

Drop ==
  /\ conn # None
  /\ breaks < MaxBreaks
  /\ breaks' = breaks + 1
  /\ Broken
  /\ UNCHANGED logVars /\ UNCHANGED <<topic, clicks>>

\* The timer starts the stream again, even one that was started meanwhile,
\* unless it was stopped.
Fire ==
  /\ timers > 0
  /\ timers' = timers - 1
  /\ conn' = IF topic THEN Connecting ELSE conn
  /\ UNCHANGED logVars /\ UNCHANGED <<topic, breaks, clicks>>

\* toggle(): stop() while connected, start() otherwise; timers are left alone.
Click ==
  /\ clicks < MaxClicks
  /\ clicks' = clicks + 1
  /\ IF conn # None THEN conn' = None /\ topic' = FALSE
                    ELSE conn' = Connecting /\ topic' = TRUE
  /\ UNCHANGED logVars /\ UNCHANGED <<timers, breaks>>

MainlogNext ==
  \/ \E m \in Msgs, sym \in Symbols : LogLine(m, sym)
  \/ LogOther \/ Rename \/ Create
  \/ Connect \/ Poll \/ FileMissing \/ Drop \/ Fire \/ Click

MainlogSpec == MainlogInit /\ [][MainlogNext]_mainlogVars

\* The generator loops every two seconds, timers fire, and a rotated log is
\* created again at once or by the next line.
MainlogFairSpec ==
  MainlogSpec /\ WF_mainlogVars(Connect) /\ WF_mainlogVars(Poll) /\ WF_mainlogVars(FileMissing)
       /\ WF_mainlogVars(Fire) /\ WF_mainlogVars(Create)

-----------------------------------------------------------------------------
(* Properties.                                                             *)

\* However often the tail is toggled during a back-off, a connection exists only
\* while it is on; it delivers the events logged after it connected in their order,
\* none of them twice, and skips only lines that a rotation took from it: those
\* of the old file since the last poll and, when the new file is by then as
\* long as what had been read of the old one, those before that offset
\* (routers/activity.py:129-142, static/js/sse.js:6-49).
DeliversInOrder ==
  conn # None =>
    /\ topic
    /\ \A j, k \in DOMAIN conn.got : j < k => conn.got[j] < conn.got[k]
    /\ ToSet(conn.got) = {i \in (conn.from + 1)..conn.seen :
                            IsEvent(lines[i]) /\ i \notin conn.excused}

\* The status of a message is the weightiest outcome that its lines in the window
\* tell of - bounced before delivered before deferred - in whatever order Exim tried the recipients, also when the beginning of
\* the message is no longer in the window (services/exim.py:44-49 and 146-168).
StatusIsSummary ==
  LET window == LastLines(SubSeq(lines, base + 1, Len(lines)), Window)
      shown == Aggregate(window)
      told(m) == SymbolsOf(window, m)
  IN  \A m \in DOMAIN shown :
        shown[m] = IF "**" \in told(m) THEN "bounced"
                   ELSE IF "=>" \in told(m) THEN "delivered"
                   ELSE IF "==" \in told(m) THEN "deferred"
                   ELSE IF "Completed" \in told(m) THEN "delivered" ELSE "pending"

\* A tail that is switched on and not switched off is connected again, after broken
\* connections and rotations and however often it was toggled, as long as the server
\* accepts its session (static/js/sse.js:28-35).
TailRecovers == topic ~> (~topic \/ (conn # None /\ conn.initialized))
=============================================================================

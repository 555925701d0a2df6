---------------------------- MODULE EximFilters ----------------------------
(***************************************************************************)
(* services/exim_filters.py and routers/filters.py: one exim list file     *)
(* (spam-blocks, white-blocks or dnsbl), edited by the panel with an       *)
(* optimistic check of the file's modification time, a validation by exim, *)
(* a rollback and a reload of exim; the reload button with its limit of    *)
(* one in ten seconds, and the validation that is cached for thirty.       *)
(*                                                                         *)
(* From its first read to its answer a handler never gives up the event    *)
(* loop (the per-file lock is always free, the subprocess calls block), so *)
(* one operation runs at a time; every system call of it is a step.  Other *)
(* programs (an editor, a deployment) change the file between any two.     *)
(*                                                                         *)
(* A line is the value it lists, whether a comment follows the value, and  *)
(* whether it ends in a newline (only the last line can fail to); own is a *)
(* history variable: the line is what an add wrote for its value.          *)
(***************************************************************************)
EXTENDS Integers, Sequences, SequencesExt

CONSTANTS
  Values,       \* normalised values: addresses, networks, zones
  NoValue,      \* what a comment line lists
  Garbled,      \* two values run together on one line
  Absent,       \* the file does not exist
  Comments,     \* what the further lines of an add's comment list
  InitialFiles, \* the files a run starts from
  MaxOps,       \* bound on the number of operations
  MaxEdits      \* bound on the number of changes by other programs

ASSUME ValueAssumption == {NoValue, Garbled, Absent} \cap Values = {} /\ NoValue # Garbled
ASSUME BoundAssumption == {MaxOps, MaxEdits} \subseteq Nat
ASSUME CommentAssumption == Comments \subseteq Seq(Values \cup {NoValue, Garbled})

Line(v, note, nl) == [val |-> v, note |-> note, nl |-> nl, own |-> FALSE]
OwnLine(v) == [val |-> v, note |-> TRUE, nl |-> TRUE, own |-> TRUE]
Lines == [val : Values \cup {NoValue, Garbled}, note : BOOLEAN, nl : BOOLEAN, own : BOOLEAN]

VARIABLES
  file,   \* the lines of the file, or Absent
  mtime,  \* its modification time: how often it was written, but for changes
          \* whose time is taken for equal to the one seen before
  op,     \* the operation in progress
  began,  \* history: the file when the operation replaced it
  gap,    \* history: where the operation was when another program changed
          \* the file it had read, or how it did
  answer, \* the last operation's answer
  ready,  \* RELOAD_RATE_LIMIT_S have passed since _last_reload_ts
  verdict,\* _validate_cache while it is fresh: "ok", "refused" or "none"
  good,   \* history: the lines that exim4 -bV accepted last
  tainted,\* history: lines came in that nobody validated
  ops, edits

vars == <<file, mtime, op, began, gap, answer, ready, verdict, good, tainted, ops, edits>>
button == <<ready, verdict>>
validity == <<good, tainted>>

\* The panel's operation: what it does (more: what the further lines of the
\* comment list), the outer and the inner read of the file, the time from
\* os.stat (-1 without a file).
Op(pc, kind, i, v, more, outer, inner, seen) ==
  [pc |-> pc, kind |-> kind, arg |-> i, value |-> v, more |-> more,
   outer |-> outer, inner |-> inner, seen |-> seen]
NoOp == Op("idle", "none", 0, NoValue, <<>>, <<>>, <<>>, -1)
NoAnswer == [ok |-> FALSE, kind |-> "none", value |-> NoValue]

\* readlines, with a missing file as an empty one.
Content(f) == IF f = Absent THEN <<>> ELSE f

\* _parse_line and list_entries: the line numbers that list something.
IsEntry(l) == l.val # NoValue
Entries(f) == {i \in DOMAIN Content(f) : IsEntry(Content(f)[i])}

Listed(f) == {Content(f)[i].val : i \in Entries(f)}

\* A run starts from any lines, none of them the panel's; a missing file is no lines.
ASSUME FileAssumption ==
  /\ Absent \notin Seq(Lines)
  /\ \A f \in InitialFiles : Content(f) \in Seq({l \in Lines : ~l.own})

Init ==
  /\ file \in InitialFiles
  /\ mtime = 0
  /\ op = NoOp
  /\ began = <<>>
  /\ gap = {}
  /\ answer = NoAnswer
  /\ ready = TRUE /\ verdict = "none"
  /\ good = Content(file) /\ tainted = FALSE
  /\ ops = 0
  /\ edits = 0

At(pc) == op.pc = pc
GoWith(pc, outer, inner, seen) ==
  op' = Op(pc, op.kind, op.arg, op.value, op.more, outer, inner, seen)
Go(pc) == GoWith(pc, op.outer, op.inner, op.seen)

\* The operation ends: the handler answers, with 200 or an error.
End(ok, value) ==
  /\ op' = NoOp
  /\ answer' = [ok |-> ok, kind |-> op.kind, value |-> value]
  /\ began' = <<>> /\ gap' = {}
\* It goes on.
GoOn == UNCHANGED <<answer, began, gap>>

-----------------------------------------------------------------------------
(* The handlers.                                                           *)

Start(kind, i, v, more) ==
  /\ At("idle")
  /\ ops < MaxOps
  /\ ops' = ops + 1
  /\ op' = Op("outer", kind, i, v, more, <<>>, <<>>, -1)
  /\ answer' = NoAnswer
  /\ UNCHANGED <<file, mtime, began, gap, button, validity, edits>>

\* post_add; a value validate_value refuses changes nothing.  The comment is
\* taken as it comes.
StartAdd(v, more) == Start("add", 0, v, more)

\* post_remove: the entry on the line is looked up, and the value typed to
\* confirm must be the one found.
StartRemove(i) == i \in Entries(file) /\ Start("remove", i, Content(file)[i].val, <<>>)

\* original_lines of add_entry_with_reload and remove_entry_with_reload.
ReadOuter ==
  /\ At("outer")
  /\ GoWith("inner", Content(file), op.inner, op.seen)
  /\ gap' = {}
  /\ UNCHANGED <<file, mtime, began, answer, button, validity, ops, edits>>

\* readlines of add_entry and remove_entry.
ReadInner ==
  /\ At("inner")
  /\ IF file # Absent
     THEN GoWith("stat", op.outer, file, op.seen) /\ GoOn
     ELSE IF op.kind = "add"
          THEN Go("decide") /\ GoOn
          ELSE End(FALSE, NoValue)
  /\ UNCHANGED <<file, mtime, button, validity, ops, edits>>

\* os.stat right after it, in the same try block.
Stat ==
  /\ At("stat")
  /\ IF file # Absent
     THEN GoWith("decide", op.outer, op.inner, mtime) /\ GoOn
     ELSE IF op.kind = "add"
          THEN GoWith("decide", op.outer, <<>>, op.seen) /\ GoOn
          ELSE End(FALSE, NoValue)
  /\ UNCHANGED <<file, mtime, button, validity, ops, edits>>

\* Mutant: a value is added without looking whether it is listed.
RefusedNothing == op.kind = "remove" /\ op.arg \notin Entries(op.inner)

\* A value already listed, a line out of range, a comment: the operation ends.
Refused ==
  IF op.kind = "add"
  THEN \E i \in Entries(op.inner) : op.inner[i].val = op.value
  ELSE op.arg \notin Entries(op.inner)

Decide ==
  /\ At("decide")
  /\ IF Refused THEN End(FALSE, NoValue) ELSE Go("check") /\ GoOn
  /\ UNCHANGED <<file, mtime, button, validity, ops, edits>>

\* Mutant: the modification time is not looked at.
CheckNothing ==
  /\ At("check")
  /\ Go("replace")
  /\ UNCHANGED <<file, mtime, began, gap, answer, button, validity, ops, edits>>

\* The second os.stat, in _atomic_write_lines: ConflictError when the time is
\* another than at the first (no check without a first; a file gone since counts
\* as unchanged, and so do times up to a millisecond apart).
Check ==
  /\ At("check")
  /\ IF op.seen # -1 /\ file # Absent /\ mtime # op.seen
     THEN End(FALSE, NoValue)
     ELSE Go("replace") /\ GoOn
  /\ UNCHANGED <<file, mtime, button, validity, ops, edits>>

\* Text written behind a last line without a newline becomes part of it.
Unterminated(f) == f # <<>> /\ ~Last(f).nl
AppendText(f, l) ==
  IF ~Unterminated(f)
  THEN Append(f, l)
  ELSE Front(f) \o <<Line(IF Last(f).note THEN Last(f).val ELSE Garbled, TRUE, TRUE)>>

\* The line of the value, "<value>   # <comment> (added <date>)"; a newline in the
\* comment makes further lines of it.
Added == AppendText(op.inner, OwnLine(op.value))
         \o [i \in DOMAIN op.more |-> Line(op.more[i], FALSE, TRUE)]

\* Mutant: the line after the one meant is dropped.
NewContentOffByOne ==
  IF op.kind = "add"
  THEN Added
  ELSE SubSeq(op.inner, 1, op.arg) \o SubSeq(op.inner, op.arg + 2, Len(op.inner))

NewContent ==
  IF op.kind = "add"
  THEN Added
  ELSE RemoveAt(op.inner, op.arg)

\* os.replace in _atomic_write_lines.
Replace ==
  /\ At("replace")
  /\ began' = file
  /\ file' = NewContent
  /\ mtime' = mtime + 1
  /\ Go("validate")
  /\ UNCHANGED <<gap, answer, button, validity, ops, edits>>

\* What the answer of a successful operation names.
Named == IF op.kind = "add" THEN op.value ELSE op.inner[op.arg].val

Accepted == good' = Content(file) /\ tainted' = FALSE

\* Mutant: a fresh verdict is taken instead of a validation.
ValidateByVerdict ==
  /\ At("validate")
  /\ Go("reload")
  /\ IF verdict = "ok" THEN UNCHANGED validity ELSE Accepted
  /\ UNCHANGED <<file, mtime, began, gap, answer, button, ops, edits>>

\* exim4 -bV accepts.
ValidateOk ==
  /\ At("validate")
  /\ Go("reload")
  /\ Accepted
  /\ UNCHANGED <<file, mtime, began, gap, answer, button, ops, edits>>

\* systemctl reload; that it fails only adds a warning.
Reload ==
  /\ At("reload")
  /\ End(TRUE, Named)
  /\ UNCHANGED <<file, mtime, button, validity, ops, edits>>

\* exim4 -bV refuses, times out or cannot be started.
ValidateFails ==
  /\ At("validate")
  /\ Go("restore")
  /\ UNCHANGED <<file, mtime, began, gap, answer, button, validity, ops, edits>>

\* Mutant: the new lines are written back instead of the old.
RestoreNew ==
  /\ At("restore")
  /\ file' = NewContent
  /\ mtime' = mtime + 1
  /\ End(FALSE, NoValue)
  /\ UNCHANGED <<button, validity, ops, edits>>

\* _force_restore.
Restore ==
  /\ At("restore")
  /\ file' = op.outer
  /\ mtime' = mtime + 1
  /\ End(FALSE, NoValue)
  /\ UNCHANGED <<button, validity, ops, edits>>

\* A write raises OSError, or the process stops and is started again: what the
\* operation has written stays.  (A restart also forgets the button's two
\* variables, as LimitEnds and VerdictEnds may do at any time.)
Stop ==
  /\ ~At("idle")
  /\ op' = NoOp
  /\ answer' = NoAnswer
  /\ began' = <<>> /\ gap' = {}
  /\ tainted' = (tainted \/ op.pc \in {"validate", "restore"})
  /\ UNCHANGED <<file, mtime, button, good, ops, edits>>

-----------------------------------------------------------------------------
(* The buttons.                                                            *)

\* post_reload; a reload that fails can be tried again at once.
PostReload(works) ==
  /\ At("idle") /\ ready
  /\ ready' = ~works
  /\ UNCHANGED <<file, mtime, op, began, gap, answer, verdict, validity, ops, edits>>

\* api_validate_config, with nothing fresh in the cache.
PostValidate(ok) ==
  /\ At("idle") /\ verdict = "none"
  /\ verdict' = IF ok THEN "ok" ELSE "refused"
  /\ IF ok THEN Accepted ELSE UNCHANGED validity
  /\ UNCHANGED <<file, mtime, op, began, gap, answer, ready, ops, edits>>

\* Ten seconds have passed, or thirty.
LimitEnds ==
  /\ At("idle") /\ ~ready
  /\ ready' = TRUE
  /\ UNCHANGED <<file, mtime, op, began, gap, answer, verdict, validity, ops, edits>>

VerdictEnds ==
  /\ At("idle") /\ verdict # "none"
  /\ verdict' = "none"
  /\ UNCHANGED <<file, mtime, op, began, gap, answer, ready, validity, ops, edits>>

-----------------------------------------------------------------------------
\* Another program appends a line, drops one, deletes or creates the file; what is
\* deleted before the operation replaces it is not lost by the operation.  A change
\* can be close to the time that was seen, or bring that time back with it, which
\* hides the changes before it too.
Edited ==
  \/ file' = Absent
  \/ \E v \in Values, nl \in BOOLEAN : file' = AppendText(Content(file), Line(v, FALSE, nl))
  \/ \E i \in DOMAIN Content(file) : file' = RemoveAt(Content(file), i)

Edit ==
  /\ edits < MaxEdits
  /\ edits' = edits + 1
  /\ Edited /\ file' # file
  /\ \E close \in BOOLEAN :
       /\ close => op.pc \in {"decide", "check"} /\ op.seen # -1
       /\ mtime' = IF close THEN op.seen ELSE mtime + 1
       /\ gap' = IF At("idle") THEN {}
                 ELSE IF file' = Absent /\ op.pc \notin {"validate", "restore", "reload"}
                 THEN {"deleted"}
                 ELSE IF close THEN (gap \ {"decide", "check"}) \cup {"close"}
                 ELSE gap \cup {op.pc}
  /\ tainted' = TRUE
  /\ UNCHANGED <<began, op, answer, button, good, ops>>

Next ==
  \/ \E v \in Values, more \in Comments : StartAdd(v, more)
  \/ \E i \in DOMAIN Content(file) : StartRemove(i)
  \/ ReadOuter \/ ReadInner \/ Stat \/ Decide \/ Check \/ Replace
  \/ ValidateOk \/ ValidateFails \/ Restore \/ Reload \/ Stop
  \/ \E b \in BOOLEAN : PostReload(b) \/ PostValidate(b)
  \/ LimitEnds \/ VerdictEnds
  \/ Edit

Spec == Init /\ [][Next]_vars

-----------------------------------------------------------------------------
(* Properties.                                                             *)

\* However adds, removals, rollbacks, stops and other programs' edits follow each
\* other, no two adds list the same value, and while no other program edits, no add
\* lists one that is listed above it (services/exim_filters.py:161-164).  What is
\* listed twice all the same was in the file before, or comes from the further
\* lines of a comment, which nothing looks at (:143-147).
NoDuplicates == \A i, j \in Entries(file) :
  i < j /\ Content(file)[i].val = Content(file)[j].val =>
    /\ ~(Content(file)[i].own /\ Content(file)[j].own)
    /\ edits = 0 => ~Content(file)[j].own

\* When an add answers ok its value is listed, and when a removal does its value is
\* not (tests/test_exim_filters.py:83-86 asserts it of an add), whatever was edited
\* before the file was replaced - but for an add to a file whose last line has no
\* newline, which runs into that line (services/exim_filters.py:167), and a value
\* that stood on another line too.  Changes after the replacement are others'.
AnswerIsTrue ==
  [][Reload /\ gap \cap {"validate", "reload"} = {} =>
       IF answer'.kind = "add"
       THEN answer'.value \in Listed(file') \/ Unterminated(op.inner)
       ELSE \/ answer'.value \notin Listed(file')
            \/ \E i \in Entries(op.inner) : i # op.arg /\ op.inner[i].val = answer'.value]_vars

\* services/exim_filters.py:226: "On validation fail: file is rolled back to
\* pre-add state via _force_restore" - a rollback brings back every line the
\* operation found when it replaced the file (a file that was not there is left
\* empty), whatever was edited before it and during the validation, unless
\* another program's change fell between the outer read and the replacement.
RollbackUndoes ==
  [][Restore /\ gap \subseteq {"validate", "restore"} => Content(file') = Content(began)]_vars

\* Where a change can fall that the comparison of the times does not show: between
\* the read and the first look at the time, or between the second look and the
\* write; anywhere, when there was no file to take a time of (original_mtime is
\* None, services/exim_filters.py:158-160); or its time was within a millisecond of
\* the one seen (:129); or it was a deletion of the file.  (What changed between the
\* outer and the inner read is in the lines that are written.)
UnseenGaps ==
  {"inner", "stat", "replace", "deleted", "close"}
  \cup IF op.seen = -1 THEN {"decide", "check"} ELSE {}

\* An operation overwrites another program's change only when it fell into such a gap.
LosesOnlyUnseenChanges == [][Replace => gap \subseteq UnseenGaps]_vars

\* Exim is never told to load lines that exim4 -bV has not accepted - neither by
\* the reload after an operation nor by the button, which validates nothing and
\* may follow a refused operation whose lines were rolled back, or a cached
\* verdict on older lines - unless another program wrote them or the panel was
\* stopped between its write and their validation (services/exim_filters.py:
\* 223-266, routers/filters.py:220-256).
LoadsOnlyValidated ==
  [][Reload \/ PostReload(TRUE) \/ PostReload(FALSE) => tainted \/ Content(file) = good]_vars
=============================================================================

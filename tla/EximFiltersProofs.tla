------------------------- MODULE EximFiltersProofs -------------------------
(* Proofs about EximFilters, for any number of values, operations, edits by *)
(* other programs and stops, and any initial file.                          *)
EXTENDS EximFilters, TLAPS

Reading == {"inner", "stat", "decide", "check", "replace"}
Judged == {"validate", "restore"}
Steps == {"idle", "outer", "reload"} \cup Reading \cup Judged

\* What an operation has read, and what exim has accepted, is the content of a
\* file (a missing one counts as empty).
Contents ==
  /\ op.pc \in Steps
  /\ Content(good) = good
  /\ op.pc \in Reading \cup Judged => Content(op.outer) = op.outer

\* While nothing untested came in, what is in the file or what a refusal will put
\* back is what exim accepted last.
Validated == ~tainted =>
  /\ op.pc \notin Judged => Content(file) = good
  /\ op.pc \in Reading \cup Judged => op.outer = good

\* The lines to put back are those that the replacement found.
Undoable ==
  /\ op.pc \in Reading => gap \cap (Judged \cup {"reload"}) = {} /\ (gap = {} => op.outer = Content(file))
  /\ op.pc \in Judged /\ gap \subseteq Judged => op.outer = Content(began)

\* A change that was made after the time was taken shows in the time, unless the
\* file is gone or the two times are too close.
Unseen == {"inner", "stat", "deleted", "close"}
Timed ==
  /\ mtime \in Nat /\ op.seen \in Int /\ -1 <= op.seen /\ op.seen <= mtime
  /\ op.pc = "outer" => op.seen = -1
  /\ op.pc = "inner" => op.seen = -1 /\ gap \subseteq {"inner", "deleted"}
  /\ op.pc = "stat" => op.seen = -1 /\ gap \subseteq Unseen
  /\ op.pc \in {"decide", "check"} /\ op.seen # -1 =>
       gap \subseteq Unseen \/ (mtime # op.seen /\ file # Absent)
  /\ op.pc = "replace" /\ op.seen # -1 => gap \subseteq Unseen \cup {"replace"}
  /\ op.pc \in {"decide", "check"} => gap \subseteq Unseen \cup {"decide", "check"}
  /\ op.pc = "replace" => gap \subseteq Unseen \cup {"decide", "check", "replace"}

IInv == Contents /\ Validated /\ Undoable /\ Timed

LEMMA ContentTwice == \A f : Content(Content(f)) = Content(f)
BY DEF Content

LEMMA OpFields ==
  ASSUME NEW pc, NEW kind, NEW i, NEW v, NEW more, NEW outer, NEW inner, NEW seen
  PROVE  LET o == Op(pc, kind, i, v, more, outer, inner, seen)
         IN  o.pc = pc /\ o.outer = outer /\ o.inner = inner /\ o.seen = seen
BY DEF Op

\* An operation ends at once: before it replaced the file, or after exim has
\* accepted it.
LEMMA Ends ==
  ASSUME IInv, NEW ok, NEW v, End(ok, v),
         op.pc \notin Judged, UNCHANGED <<file, mtime, validity>>
  PROVE  IInv'
<1>1. op' = NoOp /\ began' = <<>> /\ gap' = {}
  BY DEF End
<1>2. op'.pc = "idle" /\ op'.seen = -1
  BY <1>1, OpFields DEF NoOp
<1>3. UNCHANGED <<file, mtime, good, tainted>>
  BY DEF validity
<1>4. QED
  BY <1>1, <1>2, <1>3 DEF IInv, Contents, Validated, Undoable, Timed, Steps, Reading, Judged

\* An operation goes on from one step of reading to the next.
LEMMA GoesOn ==
  ASSUME IInv, NEW pc \in {"stat", "decide", "check", "replace"}, NEW inner, NEW seen,
         GoWith(pc, op.outer, inner, seen), op.pc \in Reading \ {"replace"},
         UNCHANGED <<file, mtime, gap, began, validity>>,
         (Timed)'
  PROVE  IInv'
<1>1. op'.pc = pc /\ op'.outer = op.outer
  BY OpFields DEF GoWith
<1>2. UNCHANGED <<file, mtime, gap, began, good, tainted>>
  BY DEF validity
<1>3. (Contents /\ Validated /\ Undoable)'
  BY <1>1, <1>2 DEF IInv, Contents, Validated, Undoable, Steps, Reading, Judged
<1>4. QED
  BY <1>3 DEF IInv

LEMMA Starts ==
  ASSUME IInv, NEW kind, NEW i, NEW v, NEW more, Start(kind, i, v, more)
  PROVE  IInv'
<1>1. op'.pc = "outer" /\ op'.seen = -1 /\ op.pc = "idle"
  BY OpFields DEF Start, At
<1>2. UNCHANGED <<file, mtime, gap, began, good, tainted>>
  BY DEF Start, validity
<1>3. QED
  BY <1>1, <1>2 DEF IInv, Contents, Validated, Undoable, Timed, Steps, Reading, Judged

LEMMA Reads == ASSUME IInv, ReadOuter PROVE IInv'
<1>1. op'.pc = "inner" /\ op'.outer = Content(file) /\ op'.seen = op.seen /\ op.pc = "outer"
  BY OpFields DEF ReadOuter, GoWith, At
<1>2. UNCHANGED <<file, mtime, began, good, tainted>> /\ gap' = {}
  BY DEF ReadOuter, validity
<1>3. QED
  BY <1>1, <1>2, ContentTwice
  DEF IInv, Contents, Validated, Undoable, Timed, Steps, Reading, Judged

LEMMA Pauses == ASSUME IInv, ReadInner \/ Stat \/ Decide \/ Check PROVE IInv'
<1>1. UNCHANGED <<file, mtime, validity>>
  BY DEF ReadInner, Stat, Decide, Check
<1>2. op.pc \in {"inner", "stat", "decide", "check"}
  BY DEF ReadInner, Stat, Decide, Check, At
<1>3. CASE \E ok, v : End(ok, v)
  <2>1. PICK ok, v : End(ok, v)
    BY <1>3
  <2>2. op.pc \notin Judged
    BY <1>2 DEF Judged
  <2>3. QED
    BY <1>1, <2>1, <2>2, Ends
<1>4. CASE GoOn /\ \E pc \in {"stat", "decide", "check", "replace"} :
             \E inner, seen : GoWith(pc, op.outer, inner, seen) /\ (Timed)'
  <2>0. PICK pc \in {"stat", "decide", "check", "replace"} :
          \E inner, seen : GoWith(pc, op.outer, inner, seen) /\ (Timed)'
    BY <1>4
  <2>1. PICK inner, seen : GoWith(pc, op.outer, inner, seen) /\ (Timed)'
    BY <2>0
  <2>2. op.pc \in Reading \ {"replace"}
    BY <1>2 DEF Reading
  <2>3. UNCHANGED <<file, mtime, gap, began, validity>>
    BY <1>1, <1>4 DEF GoOn
  <2>4. QED
    BY <2>1, <2>2, <2>3, GoesOn
<1>5. CASE GoOn /\ ReadInner /\ file # Absent
  <2>1. GoWith("stat", op.outer, file, op.seen)
    BY <1>5, <1>2 DEF ReadInner, GoOn, End
  <2>2. op'.pc = "stat" /\ op'.seen = op.seen /\ gap' = gap /\ mtime' = mtime
    BY <1>1, <1>5, <2>1, OpFields DEF GoWith, GoOn
  <2>3. (Timed)'
    BY <1>5, <2>2 DEF IInv, Timed, ReadInner, At, Unseen
  <2>4. QED
    BY <1>4, <1>5, <2>1, <2>3
<1>6. CASE GoOn /\ ReadInner /\ file = Absent /\ Go("decide")
  <2>1. GoWith("decide", op.outer, op.inner, op.seen)
    BY <1>6 DEF Go
  <2>2. op'.pc = "decide" /\ op'.seen = op.seen /\ gap' = gap /\ mtime' = mtime
    BY <1>1, <1>6, <2>1, OpFields DEF GoWith, GoOn
  <2>3. (Timed)'
    BY <1>6, <2>2 DEF IInv, Timed, ReadInner, At, Unseen
  <2>4. QED
    BY <1>4, <1>6, <2>1, <2>3
<1>7. CASE GoOn /\ Stat /\ file # Absent
  <2>1. GoWith("decide", op.outer, op.inner, mtime)
    BY <1>7 DEF Stat
  <2>2. op'.pc = "decide" /\ op'.seen = mtime /\ gap' = gap /\ mtime' = mtime
    BY <1>1, <1>7, <2>1, OpFields DEF GoWith, GoOn
  <2>3. (Timed)'
    BY <1>7, <2>2 DEF IInv, Timed, Stat, At
  <2>4. QED
    BY <1>4, <1>7, <2>1, <2>3
<1>8. CASE GoOn /\ Stat /\ GoWith("decide", op.outer, <<>>, op.seen)
  <2>1. op'.pc = "decide" /\ op'.seen = op.seen /\ gap' = gap /\ mtime' = mtime
    BY <1>1, <1>8, OpFields DEF GoWith, GoOn
  <2>2. (Timed)'
    BY <1>8, <2>1 DEF IInv, Timed, Stat, At
  <2>3. QED
    BY <1>4, <1>8, <2>2
<1>9. CASE GoOn /\ Decide /\ Go("check")
  <2>1. GoWith("check", op.outer, op.inner, op.seen)
    BY <1>9 DEF Go
  <2>2. op'.pc = "check" /\ op'.seen = op.seen /\ gap' = gap /\ mtime' = mtime /\ file' = file
    BY <1>1, <1>9, <2>1, OpFields DEF GoWith, GoOn
  <2>3. (Timed)'
    BY <1>9, <2>2 DEF IInv, Timed, Decide, At
  <2>4. QED
    BY <1>4, <1>9, <2>1, <2>3
<1>10. CASE GoOn /\ Check /\ Go("replace") /\ ~(op.seen # -1 /\ file # Absent /\ mtime # op.seen)
  <2>1. GoWith("replace", op.outer, op.inner, op.seen)
    BY <1>10 DEF Go
  <2>2. op'.pc = "replace" /\ op'.seen = op.seen /\ gap' = gap /\ mtime' = mtime
    BY <1>1, <1>10, <2>1, OpFields DEF GoWith, GoOn
  <2>3. op.pc = "check"
    BY <1>10 DEF Check, At
  <2>4. /\ op.seen # -1 => gap \subseteq Unseen
        /\ op.seen = -1 => gap \subseteq Unseen \cup {"decide", "check", "replace"}
    BY <1>10, <2>3 DEF IInv, Timed
  <2>5. (Timed)'
    BY <2>2, <2>4 DEF IInv, Timed
  <2>6. QED
    BY <1>4, <1>10, <2>1, <2>5
<1>11. CASE ReadInner
  BY <1>3, <1>5, <1>6, <1>11 DEF ReadInner
<1>12. CASE Stat
  BY <1>3, <1>7, <1>8, <1>12 DEF Stat
<1>13. CASE Decide
  BY <1>3, <1>9, <1>13 DEF Decide
<1>14. CASE Check
  BY <1>3, <1>10, <1>14 DEF Check
<1>15. QED
  BY <1>11, <1>12, <1>13, <1>14

\* The replacement: what it found is kept for a refusal.
LEMMA Replaces == ASSUME IInv, Replace PROVE IInv'
<1>1. op'.pc = "validate" /\ op'.outer = op.outer /\ op'.seen = op.seen /\ op.pc = "replace"
  BY OpFields DEF Replace, Go, GoWith, At
<1>2. began' = file /\ mtime' = mtime + 1 /\ UNCHANGED <<gap, good, tainted>>
  BY DEF Replace, validity
<1>3. gap \cap Judged = {} /\ (gap = {} => op.outer = Content(file))
  BY <1>1 DEF IInv, Undoable, Reading, Judged
<1>4. Undoable'
  <2>1. op'.pc \notin Reading
    BY <1>1 DEF Reading
  <2>2. gap \subseteq Judged => op.outer = Content(file)
    BY <1>3
  <2>3. QED
    BY <1>1, <1>2, <2>1, <2>2 DEF Undoable, Content
<1>5. Timed'
  BY <1>1, <1>2 DEF IInv, Timed
<1>6. Contents' /\ Validated'
  <2>1. op'.pc \in Steps /\ op'.pc \in Judged /\ op.pc \in Reading
    BY <1>1 DEF Steps, Reading, Judged
  <2>2. Content(op.outer) = op.outer /\ Content(good) = good /\ (~tainted => op.outer = good)
    BY <2>1 DEF IInv, Contents, Validated
  <2>3. QED
    BY <1>1, <1>2, <2>1, <2>2 DEF Contents, Validated, Content
<1>7. QED
  BY <1>4, <1>5, <1>6 DEF IInv

\* exim4 -bV accepts what is in the file, or refuses it.
LEMMA Validates == ASSUME IInv, ValidateOk \/ ValidateFails PROVE IInv'
<1>1. CASE ValidateOk
  <2>1. op'.pc = "reload" /\ op'.outer = op.outer /\ op'.seen = op.seen
    BY <1>1, OpFields DEF ValidateOk, Go, GoWith
  <2>2. good' = Content(file) /\ ~tainted' /\ UNCHANGED <<file, mtime, gap, began>>
    BY <1>1 DEF ValidateOk, Accepted
  <2>3. Content(good') = good' /\ Content(file') = good'
    BY <2>2, ContentTwice
  <2>4. QED
    BY <2>1, <2>2, <2>3
    DEF IInv, Contents, Validated, Undoable, Timed, Steps, Reading, Judged, Content
<1>2. CASE ValidateFails
  <2>1. op'.pc = "restore" /\ op'.outer = op.outer /\ op'.seen = op.seen /\ op.pc = "validate"
    BY <1>2, OpFields DEF ValidateFails, Go, GoWith, At
  <2>2. UNCHANGED <<file, mtime, gap, began, good, tainted>>
    BY <1>2 DEF ValidateFails, validity
  <2>3. QED
    BY <2>1, <2>2
    DEF IInv, Contents, Validated, Undoable, Timed, Steps, Reading, Judged, Content
<1>3. QED
  BY <1>1, <1>2

\* What a refusal puts back is what exim accepted last.
LEMMA Restores == ASSUME IInv, Restore PROVE IInv'
<1>1. op' = NoOp /\ op.pc = "restore"
  BY DEF Restore, End, At
<1>2. op'.pc = "idle" /\ op'.seen = -1
  BY <1>1, OpFields DEF NoOp
<1>3. file' = op.outer /\ mtime' = mtime + 1 /\ UNCHANGED <<good, tainted>>
  BY DEF Restore, validity
<1>4. Content(op.outer) = op.outer /\ (~tainted => op.outer = good)
  BY <1>1 DEF IInv, Contents, Validated, Judged
<1>5. Content(file') = op.outer
  BY <1>3, <1>4
<1>6. QED
  BY <1>2, <1>3, <1>4, <1>5
  DEF IInv, Contents, Validated, Undoable, Timed, Steps, Reading, Judged, Content

\* The end of a good operation, and a stop anywhere.
LEMMA Stops == ASSUME IInv, Reload \/ Stop PROVE IInv'
<1>1. CASE Reload
  <2>1. End(TRUE, Named) /\ UNCHANGED <<file, mtime, validity>> /\ op.pc \notin Judged
    BY <1>1 DEF Reload, At, Judged
  <2>2. QED
    BY <2>1, Ends
<1>2. CASE Stop
  <2>1. op' = NoOp /\ UNCHANGED <<file, mtime, good>>
        /\ tainted' = (tainted \/ op.pc \in {"validate", "restore"})
    BY <1>2 DEF Stop
  <2>2. op'.pc = "idle" /\ op'.seen = -1
    BY <2>1, OpFields DEF NoOp
  <2>3. Contents' /\ Undoable' /\ Timed'
    BY <2>1, <2>2 DEF IInv, Contents, Undoable, Timed, Steps, Reading, Judged, Content
  <2>4. ~tainted' => Content(file) = good
    BY <2>1 DEF IInv, Validated, Judged
  <2>5. Validated'
    BY <2>1, <2>2, <2>4 DEF Validated, Reading, Judged, Content
  <2>6. QED
    BY <2>3, <2>5 DEF IInv
<1>3. QED
  BY <1>1, <1>2

\* The buttons write no file.
LEMMA Buttons ==
  ASSUME IInv, (\E b \in BOOLEAN : PostReload(b) \/ PostValidate(b)) \/ LimitEnds \/ VerdictEnds
  PROVE  IInv'
<1>1. CASE UNCHANGED <<file, mtime, op, began, gap, good, tainted>>
  BY <1>1 DEF IInv, Contents, Validated, Undoable, Timed, Content
<1>2. CASE PostValidate(TRUE)
  <2>1. op.pc = "idle" /\ good' = Content(file) /\ ~tainted'
        /\ UNCHANGED <<file, mtime, op, began, gap>>
    BY <1>2 DEF PostValidate, Accepted, At
  <2>2. Content(good') = good' /\ Content(file') = good'
    BY <2>1, ContentTwice
  <2>3. QED
    BY <2>1, <2>2 DEF IInv, Contents, Validated, Undoable, Timed, Reading, Judged, Content
<1>3. CASE PostValidate(FALSE)
  BY <1>1, <1>3 DEF PostValidate, validity
<1>4. CASE \E b \in BOOLEAN : PostReload(b)
  BY <1>1, <1>4 DEF PostReload, validity
<1>5. CASE LimitEnds \/ VerdictEnds
  BY <1>1, <1>5 DEF LimitEnds, VerdictEnds, validity
<1>6. QED
  BY <1>2, <1>3, <1>4, <1>5

\* Another program's change is seen in the time, or leaves no file.
LEMMA Edits == ASSUME IInv, Edit PROVE IInv'
<1>1. /\ UNCHANGED <<began, op, good>> /\ tainted'
      /\ mtime' = mtime + 1 \/ (mtime' = op.seen /\ op.pc \in {"decide", "check"} /\ op.seen # -1)
      /\ \/ op.pc = "idle" /\ gap' = {}
         \/ op.pc # "idle" /\ file' = Absent /\ op.pc \notin {"validate", "restore", "reload"}
              /\ gap' = {"deleted"}
         \/ op.pc \in {"decide", "check"} /\ op.seen # -1 /\ file' # Absent
              /\ gap' = (gap \ {"decide", "check"}) \cup {"close"}
         \/ op.pc # "idle" /\ (op.pc \in {"validate", "restore", "reload"} \/ file' # Absent)
              /\ mtime' = mtime + 1 /\ gap' = gap \cup {op.pc}
  BY DEF Edit, At
<1>2. Contents' /\ Validated'
  BY <1>1 DEF IInv, Contents, Validated, Content
<1>3. Undoable'
  <2>1. op.pc \in Reading => gap' \cap (Judged \cup {"reload"}) = {} /\ gap' # {}
    BY <1>1 DEF IInv, Undoable, Reading, Judged
  <2>2. op.pc \in Judged /\ gap' \subseteq Judged => gap \subseteq Judged
    BY <1>1 DEF Judged
  <2>3. QED
    BY <1>1, <2>1, <2>2 DEF IInv, Undoable, Content
<1>4. Timed'
  <2>1. mtime' \in Nat /\ op.seen \in Int /\ -1 <= op.seen /\ op.seen <= mtime'
    BY <1>1 DEF IInv, Timed
  <2>2. op.pc \in {"inner", "stat", "replace"} =>
          gap' \subseteq {"deleted"} \/ gap' = gap \cup {op.pc}
    BY <1>1
  <2>3. op.pc \in {"decide", "check"} /\ op.seen # -1 =>
          gap' \subseteq Unseen \/ (mtime' # op.seen /\ file' # Absent)
    <3>1. CASE gap' = {"deleted"}
      BY <3>1 DEF Unseen
    <3>2. CASE op.pc \in {"decide", "check"} /\ op.seen # -1 /\ file' # Absent
               /\ gap' = (gap \ {"decide", "check"}) \cup {"close"}
      BY <3>2, <2>1 DEF IInv, Timed, Unseen
    <3>3. CASE op.pc \in {"decide", "check"} /\ file' # Absent /\ mtime' = mtime + 1
      BY <3>3 DEF IInv, Timed
    <3>4. QED
      BY <1>1, <3>1, <3>2, <3>3
  <2>4. /\ op.pc \in {"decide", "check"} => gap' \subseteq Unseen \cup {"decide", "check"}
        /\ op.pc = "replace" => gap' \subseteq Unseen \cup {"decide", "check", "replace"}
    BY <1>1 DEF IInv, Timed, Unseen
  <2>5. op'.pc = op.pc /\ op'.seen = op.seen
    BY <1>1
  <2>6. op.pc = "inner" => op.seen = -1 /\ gap' \subseteq {"inner", "deleted"}
    BY <2>2 DEF IInv, Timed
  <2>7. op.pc = "stat" => op.seen = -1 /\ gap' \subseteq Unseen
    BY <2>2 DEF IInv, Timed, Unseen
  <2>8. op.pc = "replace" /\ op.seen # -1 => gap' \subseteq Unseen \cup {"replace"}
    BY <2>2 DEF IInv, Timed, Unseen
  <2>9. QED
    BY <2>1, <2>3, <2>4, <2>5, <2>6, <2>7, <2>8 DEF IInv, Timed
<1>5. QED
  BY <1>2, <1>3, <1>4 DEF IInv

LEMMA Begins == Init => IInv
<1>1. SUFFICES ASSUME Init PROVE IInv
  OBVIOUS
<1>2. op.pc = "idle" /\ op.seen = -1
  BY <1>1, OpFields DEF Init, NoOp
<1>3. Content(good) = good /\ Content(file) = good
  BY <1>1, ContentTwice DEF Init
<1>4. mtime = 0
  BY <1>1 DEF Init
<1>5. QED
  BY <1>2, <1>3, <1>4
  DEF IInv, Contents, Validated, Undoable, Timed, Steps, Reading, Judged

LEMMA StepsKeep == IInv /\ [Next]_vars => IInv'
<1>1. SUFFICES ASSUME IInv, [Next]_vars PROVE IInv'
  OBVIOUS
<1>2. CASE \E v \in Values, more \in Comments : StartAdd(v, more)
  BY <1>1, <1>2, Starts DEF StartAdd
<1>3. CASE \E i \in DOMAIN Content(file) : StartRemove(i)
  BY <1>1, <1>3, Starts DEF StartRemove
<1>4. CASE ReadOuter
  BY <1>1, <1>4, Reads
<1>5. CASE ReadInner \/ Stat \/ Decide \/ Check
  BY <1>1, <1>5, Pauses
<1>6. CASE Replace
  BY <1>1, <1>6, Replaces
<1>7. CASE ValidateOk \/ ValidateFails
  BY <1>1, <1>7, Validates
<1>8. CASE Restore
  BY <1>1, <1>8, Restores
<1>9. CASE Reload \/ Stop
  BY <1>1, <1>9, Stops
<1>10. CASE (\E b \in BOOLEAN : PostReload(b) \/ PostValidate(b)) \/ LimitEnds \/ VerdictEnds
  BY <1>1, <1>10, Buttons
<1>11. CASE Edit
  BY <1>1, <1>11, Edits
<1>12. CASE UNCHANGED vars
  BY <1>1, <1>12 DEF vars, validity, IInv, Contents, Validated, Undoable, Timed, Content
<1>13. QED
  BY <1>1, <1>2, <1>3, <1>4, <1>5, <1>6, <1>7, <1>8, <1>9, <1>10, <1>11, <1>12 DEF Next

\* The panel keeps, through any sequence of operations, refusals, stops and edits,
\* the lines it would put back and the lines exim accepted last.
THEOREM InvariantHolds == Spec => []IInv
<1>1. Init => IInv
  BY Begins
<1>2. IInv /\ [Next]_vars => IInv'
  BY StepsKeep
<1>3. QED
  BY <1>1, <1>2, PTL DEF Spec

\* A rollback brings back what the replacement found.
THEOREM RollbackUndoesHolds == Spec => RollbackUndoes
<1>1. IInv /\ [Next]_vars =>
        [Restore /\ gap \subseteq {"validate", "restore"} => Content(file') = Content(began)]_vars
  <2>1. SUFFICES ASSUME IInv, Restore, gap \subseteq {"validate", "restore"}
                 PROVE  Content(file') = Content(began)
    OBVIOUS
  <2>2. op.pc = "restore" /\ file' = op.outer
    BY <2>1 DEF Restore, At
  <2>3. op.outer = Content(began)
    BY <2>1, <2>2 DEF IInv, Undoable, Judged
  <2>4. QED
    BY <2>2, <2>3, ContentTwice
<1>2. QED
  BY <1>1, InvariantHolds, PTL DEF Spec, RollbackUndoes

\* Only a change that no look at the time could show is overwritten.
THEOREM LosesOnlyUnseenChangesHolds == Spec => LosesOnlyUnseenChanges
<1>1. IInv /\ [Next]_vars =>
        [Replace => gap \subseteq UnseenGaps]_vars
  BY DEF IInv, Timed, Unseen, UnseenGaps, Replace, At
<1>2. QED
  BY <1>1, InvariantHolds, PTL DEF Spec, LosesOnlyUnseenChanges

\* Exim loads only what it accepted, or what another program or a stop left.
THEOREM LoadsOnlyValidatedHolds == Spec => LoadsOnlyValidated
<1>1. IInv /\ [Next]_vars =>
        [Reload \/ PostReload(TRUE) \/ PostReload(FALSE) => tainted \/ Content(file) = good]_vars
  <2>1. SUFFICES ASSUME IInv, Reload \/ PostReload(TRUE) \/ PostReload(FALSE)
                 PROVE  tainted \/ Content(file) = good
    OBVIOUS
  <2>2. op.pc \in {"idle", "reload"}
    BY <2>1 DEF Reload, PostReload, At
  <2>3. QED
    BY <2>1, <2>2 DEF IInv, Validated, Judged
<1>2. QED
  BY <1>1, InvariantHolds, PTL DEF Spec, LoadsOnlyValidated

-----------------------------------------------------------------------------
(* What the lists hold.                                                    *)

\* No line of the panel's lists what a line above it lists: it was not listed
\* when the panel added it at the end.
Fresh(lines) ==
  /\ lines \in Seq(Lines)
  /\ \A i \in DOMAIN lines : lines[i].own => lines[i].val \in Values /\ lines[i].nl
  /\ \A i, j \in DOMAIN lines : i < j /\ lines[j].own => lines[i].val # lines[j].val

Written == {"validate", "restore", "reload"}
Answering == {"validate", "reload"}

Files ==
  /\ Fresh(Content(file)) /\ Fresh(op.inner)
  /\ op.pc \in Reading \cup Judged => Fresh(op.outer)
Asked ==
  /\ op.pc # "idle" => op.kind = "remove" \/ (op.kind = "add" /\ op.value \in Values)
  /\ op.more \in Seq(Values \cup {NoValue, Garbled})
Decided ==
  /\ op.pc \in {"check", "replace"} \cup Written => ~Refused
  /\ op.pc \in Answering /\ gap \cap Answering = {} => file = NewContent
Listing == Files /\ Asked /\ Decided

LEMMA AllOpFields ==
  ASSUME NEW pc, NEW kind, NEW i, NEW v, NEW more, NEW outer, NEW inner, NEW seen
  PROVE  LET o == Op(pc, kind, i, v, more, outer, inner, seen)
         IN  /\ o.pc = pc /\ o.kind = kind /\ o.arg = i /\ o.value = v /\ o.more = more
             /\ o.outer = outer /\ o.inner = inner
BY DEF Op

LEMMA EmptyFresh == Fresh(<<>>)
BY DEF Fresh

\* What a file of lines holds is the file.
LEMMA LinesAreContent == \A f \in Seq(Lines) : Content(f) = f
BY FileAssumption DEF Content

\* Lines that are not the panel's can be put below.
LEMMA ConcatFresh ==
  ASSUME NEW s, Fresh(s), NEW t \in Seq(Lines), \A i \in DOMAIN t : ~t[i].own
  PROVE  Fresh(s \o t)
<1> DEFINE u == s \o t
<1>1. s \in Seq(Lines)
  BY DEF Fresh
<1>2. /\ u \in Seq(Lines) /\ Len(u) = Len(s) + Len(t) /\ DOMAIN u = 1 .. Len(u)
      /\ \A i \in 1 .. Len(s) : u[i] = s[i]
      /\ \A i \in (Len(s) + 1) .. Len(u) : u[i] = t[i - Len(s)] /\ i - Len(s) \in DOMAIN t
      /\ DOMAIN s = 1 .. Len(s) /\ Len(s) \in Nat
  BY <1>1
<1> HIDE DEF u
<1>3. ASSUME NEW j \in DOMAIN u, u[j].own PROVE j \in DOMAIN s /\ u[j] = s[j]
  <2>1. j \in 1 .. Len(s) \/ j \in (Len(s) + 1) .. Len(u)
    BY <1>2
  <2>2. QED
    BY <1>2, <1>3, <2>1
<1>4. ASSUME NEW i \in DOMAIN u, NEW j \in DOMAIN u, i < j, u[j].own PROVE u[i].val # u[j].val
  <2>1. j \in DOMAIN s /\ u[j] = s[j]
    BY <1>3, <1>4
  <2>2. i \in DOMAIN s /\ u[i] = s[i]
    BY <1>2, <1>4, <2>1
  <2>3. QED
    BY <1>4, <2>1, <2>2 DEF Fresh
<1>5. QED
  BY <1>2, <1>3, <1>4 DEF Fresh, u

\* A line behind the others: it is not the panel's, or lists what none of them lists.
LEMMA AppendFresh ==
  ASSUME NEW s, Fresh(s), NEW l \in Lines,
         l.own => l.val \in Values /\ l.nl /\ \A i \in DOMAIN s : s[i].val # l.val
  PROVE  Fresh(Append(s, l))
<1> DEFINE t == Append(s, l)
<1>1. s \in Seq(Lines)
  BY DEF Fresh
<1>2. /\ t \in Seq(Lines) /\ Len(t) = Len(s) + 1 /\ t[Len(t)] = l
      /\ DOMAIN t = 1 .. Len(t) /\ DOMAIN s = 1 .. Len(s) /\ Len(s) \in Nat
      /\ \A i \in DOMAIN s : t[i] = s[i]
  BY <1>1
<1> HIDE DEF t
<1>3. \A i \in DOMAIN t : i \in DOMAIN s \/ i = Len(t)
  BY <1>2
<1>4. \A i, j \in DOMAIN t : i < j => i \in DOMAIN s
  BY <1>2
<1>5. \A i \in DOMAIN t : t[i].own => t[i].val \in Values /\ t[i].nl
  BY <1>2, <1>3 DEF Fresh
<1>6. ASSUME NEW i \in DOMAIN t, NEW j \in DOMAIN t, i < j, t[j].own PROVE t[i].val # t[j].val
  <2>1. i \in DOMAIN s
    BY <1>4, <1>6
  <2>2. CASE j \in DOMAIN s
    BY <1>2, <1>6, <2>1, <2>2 DEF Fresh
  <2>3. CASE j = Len(t)
    BY <1>2, <1>6, <2>1, <2>3
  <2>4. QED
    BY <1>3, <2>2, <2>3
<1>7. QED
  BY <1>2, <1>5, <1>6 DEF Fresh, t

\* All lines but the last.
LEMMA FrontFresh ==
  ASSUME NEW s, Fresh(s), s # <<>>
  PROVE  Fresh(Front(s)) /\ Last(s) \in Lines
<1> DEFINE t == Front(s)
<1>1. s \in Seq(Lines) /\ Len(s) \in Nat /\ DOMAIN s = 1 .. Len(s)
  BY DEF Fresh
<1>2. Len(s) # 0
  BY <1>1
<1>3. /\ t \in Seq(Lines) /\ DOMAIN t = 1 .. (Len(s) - 1)
      /\ \A i \in 1 .. (Len(s) - 1) : t[i] = s[i]
  BY <1>1, <1>2 DEF Front
<1> HIDE DEF t
<1>4. \A i \in DOMAIN t : i \in DOMAIN s /\ t[i] = s[i]
  BY <1>1, <1>3
<1>5. Fresh(t)
  BY <1>3, <1>4 DEF Fresh
<1>6. Last(s) \in Lines
  BY <1>1, <1>2 DEF Last
<1>7. QED
  BY <1>5, <1>6 DEF t

\* Text at the end of the file: a line of its own, or a part of the last one.
LEMMA TextFresh ==
  ASSUME NEW s, Fresh(s), NEW l \in Lines,
         l.own => l.val \in Values /\ l.nl /\ \A i \in DOMAIN s : s[i].val # l.val
  PROVE  Fresh(AppendText(s, l))
<1>1. CASE ~Unterminated(s)
  BY <1>1, AppendFresh DEF AppendText
<1>2. CASE Unterminated(s)
  <2> DEFINE glued == Line(IF Last(s).note THEN Last(s).val ELSE Garbled, TRUE, TRUE)
  <2>1. Fresh(Front(s)) /\ Last(s) \in Lines
    BY <1>2, FrontFresh DEF Unterminated
  <2>2. glued \in Lines /\ ~glued.own
    BY <2>1 DEF Line, Lines
  <2> HIDE DEF glued
  <2>3. Fresh(Front(s) \o <<glued>>)
    <3>1. <<glued>> \in Seq(Lines) /\ \A i \in DOMAIN <<glued>> : ~(<<glued>>[i]).own
      BY <2>2
    <3>2. QED
      BY <2>1, <3>1, ConcatFresh
  <2>4. QED
    BY <1>2, <2>3 DEF AppendText, glued
<1>3. QED
  BY <1>1, <1>2

\* A line is removed: where the others come from.
LEMMA RemoveFresh ==
  ASSUME NEW s, Fresh(s), NEW k \in DOMAIN s
  PROVE  LET t == RemoveAt(s, k)
         IN  Fresh(t) /\ \A i \in DOMAIN t : \E j \in DOMAIN s : j # k /\ t[i] = s[j]
<1> DEFINE t == RemoveAt(s, k)
           Old(i) == IF i < k THEN i ELSE i + 1
<1>1. s \in Seq(Lines) /\ k \in 1..Len(s) /\ DOMAIN s = 1..Len(s) /\ Len(s) \in Nat
  BY DEF Fresh
<1>2. /\ t \in Seq(Lines) /\ Len(t) = Len(s) - 1 /\ DOMAIN t = 1..(Len(s) - 1)
      /\ \A i \in 1..(Len(s) - 1) : t[i] = s[Old(i)]
  <2> DEFINE front == SubSeq(s, 1, k - 1)
             back == SubSeq(s, k + 1, Len(s))
  <2>1. front \in Seq(Lines) /\ Len(front) = k - 1 /\ \A i \in 1..(k - 1) : front[i] = s[i]
    BY <1>1
  <2>2. back \in Seq(Lines) /\ Len(back) = Len(s) - k
        /\ \A i \in 1..(Len(s) - k) : back[i] = s[i + k]
    BY <1>1
  <2> HIDE DEF front, back
  <2>3. t = front \o back
    BY DEF RemoveAt, front, back
  <2>4. t \in Seq(Lines) /\ Len(t) = Len(s) - 1 /\ DOMAIN t = 1..(Len(s) - 1)
    <3>0. front \in Seq(Lines) /\ back \in Seq(Lines)
      BY <2>1, <2>2
    <3>a. t \in Seq(Lines)
      BY <2>3, <3>0
    <3>b. Len(t) = Len(front) + Len(back)
      BY <2>3, <3>0
    <3>1. t \in Seq(Lines) /\ Len(t) = Len(front) + Len(back) /\ DOMAIN t = 1..Len(t)
      BY <3>a, <3>b
    <3>2. (k - 1) + (Len(s) - k) = Len(s) - 1
      BY <1>1
    <3>3. QED
      BY <2>1, <2>2, <3>1, <3>2
  <2>5. ASSUME NEW i \in 1..(Len(s) - 1), i < k PROVE t[i] = s[Old(i)]
    BY <1>1, <2>1, <2>2, <2>3, <2>5
  <2>6. ASSUME NEW i \in 1..(Len(s) - 1), ~(i < k) PROVE t[i] = s[Old(i)]
    <3>1. t[i] = back[i - (k - 1)] /\ i - (k - 1) \in 1..(Len(s) - k)
      BY <1>1, <2>1, <2>2, <2>3, <2>6
    <3>2. (i - (k - 1)) + k = i + 1
      BY <1>1, <2>6
    <3>3. QED
      BY <2>2, <2>6, <3>1, <3>2
  <2>7. QED
    BY <2>4, <2>5, <2>6
<1> HIDE DEF t
<1>3. \A i \in DOMAIN t : Old(i) \in DOMAIN s /\ Old(i) # k
  BY <1>1, <1>2
<1>4. \A i, j \in DOMAIN t : i < j => Old(i) < Old(j)
  BY <1>1, <1>2
<1>5. \A i \in DOMAIN t : t[i] = s[Old(i)]
  BY <1>2
<1> HIDE DEF Old
<1>6. Fresh(t)
  BY <1>2, <1>3, <1>4, <1>5 DEF Fresh
<1>7. QED
  BY <1>3, <1>5, <1>6 DEF t

\* What the panel writes keeps the lists fresh, and says what its answer will say.
LEMMA WritesFresh ==
  ASSUME Fresh(op.inner), ~Refused, Asked, op.pc # "idle"
  PROVE  /\ Fresh(NewContent)
         /\ IF op.kind = "add"
            THEN Named \in Listed(NewContent) \/ Unterminated(op.inner)
            ELSE \/ Named \notin Listed(NewContent)
                 \/ \E i \in Entries(op.inner) : i # op.arg /\ op.inner[i].val = Named
<1>1. Content(op.inner) = op.inner /\ op.inner \in Seq(Lines)
  BY LinesAreContent DEF Fresh
<1>2. CASE op.kind = "add"
  <2> DEFINE l == OwnLine(op.value)
             s == op.inner
             t == AppendText(s, l)
             further == [i \in DOMAIN op.more |-> Line(op.more[i], FALSE, TRUE)]
  <2>1. op.value \in Values /\ op.more \in Seq(Values \cup {NoValue, Garbled})
    BY <1>2 DEF Asked
  <2>2. l \in Lines /\ l.val = op.value /\ l.nl /\ IsEntry(l)
    BY <2>1, ValueAssumption DEF OwnLine, Lines, IsEntry
  <2>3. \A i \in DOMAIN s : s[i].val # op.value
    <3>1. \A i \in DOMAIN s : IsEntry(s[i]) => s[i].val # op.value
      BY <1>1, <1>2 DEF Refused, Entries
    <3>2. op.value # NoValue
      BY <2>1, ValueAssumption
    <3>3. QED
      BY <3>1, <3>2 DEF IsEntry
  <2>4. further \in Seq(Lines) /\ \A i \in DOMAIN further : ~further[i].own
    <3>1. \A i \in 1 .. Len(op.more) : Line(op.more[i], FALSE, TRUE) \in Lines
      BY <2>1 DEF Line, Lines
    <3>2. further = [i \in 1 .. Len(op.more) |-> Line(op.more[i], FALSE, TRUE)] /\ Len(op.more) \in Nat
      BY <2>1
    <3>3. \A i \in DOMAIN further : ~further[i].own
      BY DEF Line
    <3> HIDE DEF further
    <3>4. further \in [1 .. Len(op.more) -> Lines]
      BY <3>1, <3>2
    <3>5. ASSUME NEW n \in Nat, NEW x \in [1 .. n -> Lines]
          PROVE  x \in Seq(Lines)
      OBVIOUS
    <3>6. QED
      BY <3>2, <3>3, <3>4, <3>5, Zenon
  <2>5. NewContent = t \o further /\ Named = op.value
    BY <1>2 DEF NewContent, Added, Named
  <2> HIDE DEF l, further
  <2>6. Fresh(t)
    BY <2>1, <2>2, <2>3, TextFresh
  <2>7. Fresh(NewContent)
    BY <2>4, <2>5, <2>6, ConcatFresh
  <2>8. ASSUME ~Unterminated(s) PROVE op.value \in Listed(NewContent)
    <3>1. t = Append(s, l)
      BY <2>8 DEF AppendText
    <3> DEFINE n == Len(s) + 1
    <3>2. t \in Seq(Lines) /\ n \in DOMAIN t /\ t[n] = l
      BY <1>1, <2>2, <3>1
    <3> HIDE DEF t, n
    <3>3. n \in DOMAIN (t \o further) /\ (t \o further)[n] = l
      BY <2>4, <3>2
    <3>4. Content(NewContent) = NewContent
      BY <2>7, LinesAreContent DEF Fresh
    <3>5. QED
      BY <2>2, <2>5, <3>3, <3>4 DEF Listed, Entries
  <2>9. QED
    BY <1>2, <2>5, <2>7, <2>8
<1>3. CASE op.kind = "remove"
  <2>1. op.arg \in DOMAIN op.inner
    BY <1>1, <1>3 DEF Refused, Entries
  <2>2. NewContent = RemoveAt(op.inner, op.arg) /\ Named = op.inner[op.arg].val
    BY <1>3 DEF NewContent, Named
  <2>3. /\ Fresh(NewContent)
        /\ \A i \in DOMAIN NewContent : \E j \in DOMAIN op.inner :
             j # op.arg /\ NewContent[i] = op.inner[j]
    BY <2>1, <2>2, RemoveFresh
  <2>4. Content(NewContent) = NewContent
    BY <2>3, LinesAreContent DEF Fresh
  <2>5. ASSUME Named \in Listed(NewContent)
        PROVE  \E i \in Entries(op.inner) : i # op.arg /\ op.inner[i].val = Named
    <3>1. PICK i \in DOMAIN NewContent : IsEntry(NewContent[i]) /\ NewContent[i].val = Named
      BY <2>4, <2>5 DEF Listed, Entries
    <3>2. PICK j \in DOMAIN op.inner : j # op.arg /\ NewContent[i] = op.inner[j]
      BY <2>3
    <3>3. j \in Entries(op.inner)
      BY <1>1, <3>1, <3>2 DEF Entries
    <3>4. QED
      BY <3>1, <3>2, <3>3
  <2>6. QED
    BY <1>3, <2>3, <2>5
<1>4. QED
  BY <1>2, <1>3 DEF Asked

\* The operation is over, and what is in the file was there or was read before.
LEMMA ListingEnds ==
  ASSUME Fresh(Content(file')), op' = NoOp
  PROVE  Listing'
<1>1. op'.pc = "idle" /\ op'.inner = <<>> /\ op'.more = <<>>
  BY AllOpFields DEF NoOp
<1>2. op'.more \in Seq(Values \cup {NoValue, Garbled})
  BY <1>1
<1>3. Fresh(op'.inner)
  BY <1>1, EmptyFresh
<1>4. QED
  BY <1>1, <1>2, <1>3 DEF Listing, Files, Asked, Decided, Reading, Judged, Written, Answering, Content, Fresh

\* The operation goes on, and the file is as it was.
LEMMA ListingGoesOn ==
  ASSUME Listing, NEW pc, NEW inner, NEW outer, NEW seen, GoWith(pc, outer, inner, seen),
         UNCHANGED file, op.pc # "idle", Fresh(outer), Fresh(inner), Decided'
  PROVE  Listing'
<1>1. /\ op'.pc = pc /\ op'.outer = outer /\ op'.inner = inner
      /\ op'.kind = op.kind /\ op'.value = op.value /\ op'.more = op.more
  BY AllOpFields DEF GoWith
<1>2. Content(file') = Content(file)
  BY DEF Content
<1>3. Files'
  BY <1>1, <1>2 DEF Listing, Files, Fresh
<1>4. Asked'
  BY <1>1 DEF Listing, Asked
<1>5. QED
  BY <1>3, <1>4 DEF Listing

LEMMA ListingStep == IInv /\ Listing /\ [Next]_vars => Listing'
<1> SUFFICES ASSUME IInv, Listing, [Next]_vars PROVE Listing'
  OBVIOUS
<1>a. /\ Fresh(Content(file)) /\ Fresh(op.inner)
      /\ op.pc \in Reading \cup Judged => Fresh(op.outer)
  BY DEF Listing, Files
<1>1. ASSUME NEW kind, NEW i, NEW v, NEW more \in Seq(Values \cup {NoValue, Garbled}),
             Start(kind, i, v, more), kind = "remove" \/ (kind = "add" /\ v \in Values)
      PROVE  Listing'
  <2>1. /\ op'.pc = "outer" /\ op'.kind = kind /\ op'.value = v /\ op'.more = more
        /\ op'.inner = <<>> /\ file' = file
    BY <1>1, AllOpFields DEF Start
  <2>2. Files'
    BY <1>a, <2>1, EmptyFresh DEF Files, Reading, Judged, Fresh, Content
  <2>3. Asked' /\ Decided'
    BY <1>1, <2>1 DEF Asked, Decided, Written, Answering
  <2>4. QED
    BY <2>2, <2>3 DEF Listing
<1>2. CASE ReadOuter
  <2>1. /\ GoWith("inner", Content(file), op.inner, op.seen) /\ op.pc = "outer" /\ file' = file
    BY <1>2 DEF ReadOuter, At
  <2>2. op'.pc = "inner"
    BY <2>1, AllOpFields DEF GoWith
  <2>3. Decided'
    BY <2>2 DEF Decided, Written, Answering
  <2>4. QED
    BY <1>a, <2>1, <2>3, ListingGoesOn
<1>3. ASSUME NEW ok, NEW v, End(ok, v), UNCHANGED file PROVE Listing'
  BY <1>3, <1>a, ListingEnds DEF End, Content
<1>4. ASSUME NEW pc \in {"stat", "decide"}, NEW inner, NEW seen, Fresh(inner), op.pc \in Reading,
             GoWith(pc, op.outer, inner, seen), UNCHANGED file
      PROVE  Listing'
  <2>1. op'.pc = pc
    BY <1>4, AllOpFields DEF GoWith
  <2>2. Decided'
    BY <2>1 DEF Decided, Written, Answering
  <2>3. Fresh(op.outer) /\ op.pc # "idle"
    BY <1>4, <1>a DEF Reading
  <2>4. QED
    BY <1>4, <2>2, <2>3, ListingGoesOn
<1>5. CASE ReadInner
  <2>1. op.pc \in Reading /\ UNCHANGED file
    BY <1>5 DEF ReadInner, At, Reading
  <2>2. CASE file # Absent
    <3>1. GoWith("stat", op.outer, file, op.seen) /\ Fresh(file)
      BY <1>5, <1>a, <2>2 DEF ReadInner, Content
    <3>2. QED
      BY <1>4, <2>1, <3>1
  <2>3. CASE file = Absent /\ op.kind = "add"
    BY <1>4, <1>5, <1>a, <2>1, <2>3 DEF ReadInner, Go
  <2>4. CASE file = Absent /\ op.kind # "add"
    BY <1>3, <1>5, <2>1, <2>4 DEF ReadInner
  <2>5. QED
    BY <2>2, <2>3, <2>4
<1>6. CASE Stat
  <2>1. op.pc \in Reading /\ UNCHANGED file
    BY <1>6 DEF Stat, At, Reading
  <2>2. CASE file # Absent
    BY <1>4, <1>6, <1>a, <2>1, <2>2 DEF Stat
  <2>3. CASE file = Absent /\ op.kind = "add"
    BY <1>4, <1>6, <2>1, <2>3, EmptyFresh DEF Stat
  <2>4. CASE file = Absent /\ op.kind # "add"
    BY <1>3, <1>6, <2>1, <2>4 DEF Stat
  <2>5. QED
    BY <2>2, <2>3, <2>4
<1>7. ASSUME NEW pc \in {"check", "replace"}, Go(pc), op.pc \in Reading, ~Refused, UNCHANGED file
      PROVE  Listing'
  <2>1. GoWith(pc, op.outer, op.inner, op.seen) /\ op.pc # "idle" /\ Fresh(op.outer)
    BY <1>7, <1>a DEF Go, Reading
  <2>2. /\ op'.pc = pc /\ op'.inner = op.inner /\ op'.kind = op.kind
        /\ op'.arg = op.arg /\ op'.value = op.value
    BY <2>1, AllOpFields DEF GoWith
  <2>3. ~Refused'
    BY <1>7, <2>2 DEF Refused, Entries, Content
  <2>4. Decided'
    BY <2>2, <2>3 DEF Decided, Written, Answering
  <2>5. QED
    BY <1>7, <1>a, <2>1, <2>4, ListingGoesOn
<1>8. CASE Decide
  <2>1. op.pc \in Reading /\ UNCHANGED file
    BY <1>8 DEF Decide, At, Reading
  <2>2. CASE Refused
    BY <1>3, <1>8, <2>1, <2>2 DEF Decide
  <2>3. CASE ~Refused
    BY <1>7, <1>8, <2>1, <2>3 DEF Decide
  <2>4. QED
    BY <2>2, <2>3
<1>9. CASE Check
  <2>1. op.pc \in Reading /\ UNCHANGED file /\ ~Refused
    BY <1>9 DEF Check, At, Reading, Listing, Decided
  <2>2. End(FALSE, NoValue) \/ Go("replace")
    BY <1>9 DEF Check
  <2>3. QED
    BY <1>3, <1>7, <2>1, <2>2
<1>10. CASE Replace
  <2>1. op.pc = "replace" /\ file' = NewContent /\ UNCHANGED gap /\ ~Refused
    BY <1>10 DEF Replace, At, Listing, Decided
  <2>2. /\ op'.pc = "validate" /\ op'.outer = op.outer /\ op'.inner = op.inner
        /\ op'.kind = op.kind /\ op'.arg = op.arg /\ op'.value = op.value /\ op'.more = op.more
    BY <1>10, AllOpFields DEF Replace, Go, GoWith
  <2>3. Fresh(NewContent)
    BY <1>a, <2>1, WritesFresh DEF Listing
  <2>4. Content(file') = file'
    BY <2>1, <2>3, LinesAreContent DEF Fresh
  <2>5. Files'
    BY <1>a, <2>1, <2>2, <2>3, <2>4 DEF Files, Fresh, Reading
  <2>6. Asked'
    BY <2>1, <2>2 DEF Listing, Asked
  <2>7. Refused' = Refused /\ NewContent' = NewContent
    BY <2>2 DEF Refused, NewContent, Added, Entries, Content
  <2>8. Decided'
    BY <2>1, <2>2, <2>7 DEF Decided, Written, Answering
  <2>9. QED
    BY <2>5, <2>6, <2>8 DEF Listing
<1>11. CASE ValidateOk \/ ValidateFails
  <2>1. PICK pc \in {"reload", "restore"} : Go(pc)
    BY <1>11 DEF ValidateOk, ValidateFails
  <2>2. op.pc = "validate" /\ UNCHANGED <<file, gap>>
    BY <1>11 DEF ValidateOk, ValidateFails, At
  <2>3. GoWith(pc, op.outer, op.inner, op.seen) /\ Fresh(op.outer)
    BY <1>a, <2>1, <2>2 DEF Go, Judged
  <2>4. /\ op'.pc = pc /\ op'.inner = op.inner /\ op'.kind = op.kind
        /\ op'.arg = op.arg /\ op'.value = op.value /\ op'.more = op.more
    BY <2>3, AllOpFields DEF GoWith
  <2>5. Refused' = Refused /\ NewContent' = NewContent
    BY <2>4 DEF Refused, NewContent, Added, Entries, Content
  <2>6. Decided'
    BY <2>2, <2>4, <2>5 DEF Listing, Decided, Written, Answering
  <2>7. QED
    BY <1>a, <2>2, <2>3, <2>6, ListingGoesOn
<1>12. CASE Reload
  BY <1>3, <1>12 DEF Reload
<1>13. CASE Restore
  <2>1. op' = NoOp /\ file' = op.outer /\ Fresh(op.outer)
    BY <1>13, <1>a DEF Restore, End, At, Judged
  <2>2. Content(file') = op.outer
    BY <2>1, LinesAreContent DEF Fresh
  <2>3. QED
    BY <2>1, <2>2, ListingEnds
<1>14. CASE Stop
  BY <1>14, <1>a, ListingEnds DEF Stop, Content
<1>15. CASE Edit
  <2>1. /\ UNCHANGED op /\ Edited
        /\ op.pc \notin Answering \/ op.pc \in gap'
    BY <1>15 DEF Edit, Answering, At
  <2>2. Fresh(Content(file'))
    <3> DEFINE f == Content(file)
    <3>1. CASE file' = Absent
      BY <3>1, EmptyFresh DEF Content
    <3>2. ASSUME NEW v \in Values, NEW nl \in BOOLEAN, file' = AppendText(f, Line(v, FALSE, nl))
          PROVE  Fresh(Content(file'))
      <4>1. Line(v, FALSE, nl) \in Lines /\ ~Line(v, FALSE, nl).own
        BY DEF Line, Lines
      <4>2. Fresh(file')
        BY <1>a, <3>2, <4>1, TextFresh
      <4>3. QED
        BY <4>2, LinesAreContent DEF Fresh
    <3>3. ASSUME NEW i \in DOMAIN f, file' = RemoveAt(f, i)
          PROVE  Fresh(Content(file'))
      <4>1. Fresh(file')
        BY <1>a, <3>3, RemoveFresh
      <4>2. QED
        BY <4>1, LinesAreContent DEF Fresh
    <3>4. \/ file' = Absent
          \/ \E v \in Values, nl \in BOOLEAN : file' = AppendText(f, Line(v, FALSE, nl))
          \/ \E i \in DOMAIN f : file' = RemoveAt(f, i)
      BY <2>1 DEF Edited
    <3> HIDE DEF f
    <3>5. QED
      BY <3>1, <3>2, <3>3, <3>4, Zenon
  <2>3. Files' /\ Asked'
    BY <1>a, <2>1, <2>2 DEF Listing, Files, Asked, Fresh
  <2>4. Refused' = Refused
    BY <2>1 DEF Refused, Entries, Content
  <2>5. Decided'
    BY <2>1, <2>4 DEF Listing, Decided, Written, Answering
  <2>6. QED
    BY <2>3, <2>5 DEF Listing
<1>16. CASE UNCHANGED <<file, op, gap>>
  BY <1>16 DEF Listing, Files, Asked, Decided, Fresh, Content, Refused, Entries, NewContent, Added
<1>17. CASE \E b \in BOOLEAN : PostReload(b) \/ PostValidate(b)
  BY <1>16, <1>17 DEF PostReload, PostValidate
<1>18. CASE LimitEnds \/ VerdictEnds
  BY <1>16, <1>18 DEF LimitEnds, VerdictEnds
<1>19. CASE UNCHANGED vars
  BY <1>16, <1>19 DEF vars
<1>20. CASE \E v \in Values, more \in Comments : StartAdd(v, more)
  BY <1>1, <1>20, CommentAssumption DEF StartAdd
<1>21. CASE \E i \in DOMAIN Content(file) : StartRemove(i)
  <2>1. <<>> \in Seq(Values \cup {NoValue, Garbled})
    OBVIOUS
  <2>2. QED
    BY <1>1, <1>21, <2>1 DEF StartRemove
<1>22. QED
  BY <1>2, <1>5, <1>6, <1>8, <1>9, <1>10, <1>11, <1>12, <1>13, <1>14, <1>15, <1>17, <1>18, <1>19, <1>20, <1>21
  DEF Next

LEMMA ListingHolds == Spec => []Listing
<1>1. Init => Listing
  <2> SUFFICES ASSUME Init PROVE Listing
    OBVIOUS
  <2>1. Content(file) \in Seq({l \in Lines : ~l.own})
    BY FileAssumption DEF Init
  <2> DEFINE f == Content(file)
  <2>2. f \in Seq(Lines) /\ \A i \in DOMAIN f : ~f[i].own
    <3>1. \A i \in DOMAIN f : f[i] \in {l \in Lines : ~l.own}
      BY <2>1
    <3>2. Len(f) \in Nat /\ f \in [1 .. Len(f) -> Lines]
      BY <2>1
    <3> HIDE DEF f
    <3>3. QED
      BY <3>1, <3>2
  <2>3. Fresh(f)
    BY <2>2 DEF Fresh
  <2>4. op = NoOp
    BY DEF Init
  <2>5. op.pc = "idle" /\ op.inner = <<>> /\ op.more = <<>>
    BY <2>4, AllOpFields DEF NoOp
  <2>6. <<>> \in Seq(Values \cup {NoValue, Garbled})
    OBVIOUS
  <2>7. QED
    BY <2>3, <2>5, <2>6, EmptyFresh DEF Listing, Files, Asked, Decided, Reading, Judged, Written, Answering
<1>2. QED
  BY <1>1, ListingStep, InvariantHolds, PTL DEF Spec

\* No two adds list the same value, and no add lists what is listed above it while
\* nobody else edits, for any files and comments, and any number of operations,
\* refusals and stops.
THEOREM NoDuplicatesHolds == Spec => []NoDuplicates
<1>1. Listing => NoDuplicates
  BY DEF Listing, Files, Fresh, NoDuplicates, Entries
<1>2. QED
  BY <1>1, ListingHolds, PTL

\* What an add or a removal answers is in the file, or not in it, whatever was
\* edited before the file was replaced, but for the two cases that are named.
THEOREM AnswerIsTrueHolds == Spec => AnswerIsTrue
<1> DEFINE Right ==
      gap \cap {"validate", "reload"} = {} =>
        IF answer'.kind = "add"
        THEN answer'.value \in Listed(file') \/ Unterminated(op.inner)
        ELSE \/ answer'.value \notin Listed(file')
             \/ \E i \in Entries(op.inner) : i # op.arg /\ op.inner[i].val = answer'.value
<1>1. Listing /\ Reload => Right
  <2> SUFFICES ASSUME Listing, Reload, gap \cap {"validate", "reload"} = {} PROVE Right
    OBVIOUS
  <2>1. /\ op.pc = "reload" /\ answer' = [ok |-> TRUE, kind |-> op.kind, value |-> Named]
        /\ UNCHANGED file
    BY DEF Reload, End, At
  <2>3. file = NewContent /\ ~Refused /\ Fresh(op.inner) /\ Asked
    BY <2>1 DEF Listing, Files, Decided, Written, Answering
  <2>4. Listed(file') = Listed(NewContent)
    BY <2>1, <2>3 DEF Listed, Entries, Content
  <2>5. QED
    BY <2>1, <2>3, <2>4, WritesFresh
<1>2. Listing /\ [Next]_vars => [Reload /\ gap \cap {"validate", "reload"} = {} =>
       IF answer'.kind = "add"
       THEN answer'.value \in Listed(file') \/ Unterminated(op.inner)
       ELSE \/ answer'.value \notin Listed(file')
            \/ \E i \in Entries(op.inner) : i # op.arg /\ op.inner[i].val = answer'.value]_vars
  BY <1>1
<1>3. QED
  BY <1>2, ListingHolds, PTL DEF Spec, AnswerIsTrue
=============================================================================

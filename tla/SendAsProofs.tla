---------------------------- MODULE SendAsProofs ----------------------------
(* Proofs about SendAs, for every number of runs and all times.            *)
EXTENDS SendAs, TLAPS

USE SendAsAssumption DEF Mail, Task

Pcs == {"none", "start", "due", "list", "dir", "read", "open"}
Searching == {"list", "dir", "read", "open"}
MailState == [dir : {"unsent", "queue", "new", "cur", "gone"}, name : 0 .. MaxRenames, since : Nat]
TaskState == [pc : Pcs, dir : {"cur", "new"}, seen : 0 .. MaxRenames \cup {None},
              deadline : Nat, wake : Nat]

\* What the argument needs of the types.
Typed ==
  /\ now \in Nat /\ owner \in Users
  /\ mail \in [Runs -> MailState]
  /\ task \in [Runs -> TaskState]
  /\ \A r \in Runs : mail[r].since <= now
  /\ \A r \in Runs : busy = r <=> task[r].pc \in Searching

\* A task is not left waiting, nor does a search take, longer than the bounds say.
OnTime == \A r \in Runs :
  /\ task[r].pc = "due" => task[r].wake <= now + Interval /\ now <= task[r].wake + Lag
  /\ task[r].pc \in Searching => task[r].wake <= now /\ now <= task[r].wake + SearchMax

\* Whoever searches, or has searched, has an owner to go by.
Looked == \A r \in Runs : task[r].pc \in Searching \cup {"due"} => known # None

\* The mail is where the search looks, in one of the directories dirs.
Here(r, dirs) == known = owner /\ mail[r].dir \in dirs

\* What a search has established so far.  A mail whose path is as old as the
\* search is not in a directory that is done, is listed in the one that is being
\* read, and is nowhere when the search is over.
Searched == \A r \in Runs :
  /\ task[r].pc \in {"list", "dir", "read"} /\ task[r].dir = "new" /\ Here(r, {"cur"})
       => task[r].wake <= mail[r].since
  /\ task[r].pc = "read" /\ Here(r, {task[r].dir}) /\ mail[r].since < task[r].wake
       => task[r].seen = mail[r].name
  /\ task[r].pc = "due" /\ Here(r, {"cur", "new"})
       => task[r].wake <= mail[r].since + SearchMax + Interval

IInv == Typed /\ OnTime /\ Looked /\ Searched

-----------------------------------------------------------------------------
(* The steps of the surroundings.                                          *)

\* Whoever gets a new path gets it now; the others stay where they were.
LEMMA MovedIsNew ==
  ASSUME IInv, UNCHANGED <<now, known, task, busy>>, mail' \in [Runs -> MailState], owner' \in Users,
         \A r \in Runs : \/ mail'[r].since = now
                         \/ mail'[r] = mail[r] /\ (Here(r, {"cur", "new"})' => owner' = owner)
  PROVE  IInv'
<1> USE DEF IInv, Typed, OnTime, Looked, Pcs, Searching
<1>1. Typed'
  BY DEF MailState
<1>2. OnTime' /\ Looked'
  OBVIOUS
<1>3. ASSUME NEW r \in Runs
      PROVE  /\ task[r].pc \in {"list", "dir", "read"} /\ task[r].dir = "new" /\ Here(r, {"cur"})'
                  => task[r].wake <= mail'[r].since
             /\ task[r].pc = "read" /\ Here(r, {task[r].dir})' /\ mail'[r].since < task[r].wake
                  => task[r].seen = mail'[r].name
             /\ task[r].pc = "due" /\ Here(r, {"cur", "new"})'
                  => task[r].wake <= mail'[r].since + SearchMax + Interval
  <2>1. task[r] \in TaskState
    OBVIOUS
  <2>2. CASE mail'[r].since = now
    BY <2>1, <2>2 DEF TaskState
  <2>3. CASE mail'[r] = mail[r] /\ (Here(r, {"cur", "new"})' => owner' = owner)
    BY <2>1, <2>3 DEF TaskState, Searched, Here
  <2>4. QED
    BY <2>2, <2>3
<1>4. QED
  BY <1>1, <1>2, <1>3 DEF Searched, Here

-----------------------------------------------------------------------------
(* The steps of a task.                                                    *)

\* Of all tasks only that of r changes, to t.
Only(r, t) == task' = [task EXCEPT ![r] = t]

\* A task goes on as t, where t satisfies the invariant, and nothing else moves.
LEMMA TaskMoves ==
  ASSUME IInv, NEW r \in Runs, NEW t \in TaskState, Only(r, t),
         UNCHANGED <<now, mail, owner>>, known # None => known' = known,
         busy' = (IF t.pc \in Searching THEN r ELSE None), busy \in {None, r},
         t.pc = "due" => t.wake <= now + Interval /\ now <= t.wake + Lag,
         t.pc \in Searching => t.wake <= now /\ now <= t.wake + SearchMax,
         t.pc \in Searching \cup {"due"} => known' # None,
         t.pc \in {"list", "dir", "read"} /\ t.dir = "new" /\ Here(r, {"cur"})' => t.wake <= mail[r].since,
         t.pc = "read" /\ Here(r, {t.dir})' /\ mail[r].since < t.wake => t.seen = mail[r].name,
         t.pc = "due" /\ Here(r, {"cur", "new"})' => t.wake <= mail[r].since + SearchMax + Interval
  PROVE  IInv'
<1> USE DEF IInv, Typed, OnTime, Looked, Only, Pcs, Searching
<1>1. task'[r] = t /\ \A q \in Runs \ {r} : task'[q] = task[q]
  OBVIOUS
<1>2. Typed'
  BY <1>1
<1>3. OnTime'
  BY <1>1
<1>4. Looked'
  BY <1>1
<1>5. ASSUME NEW q \in Runs \ {r}, task[q].pc \in {"list", "dir", "read", "due"}, NEW dirs
      PROVE  Here(q, dirs)' = Here(q, dirs)
  BY <1>5 DEF Here
<1>6. Searched'
  BY <1>1, <1>5 DEF Searched, Here
<1>7. QED
  BY <1>2, <1>3, <1>4, <1>6

LEMMA TaskEnds ==
  ASSUME IInv, NEW r \in Runs, Only(r, NoTask), busy \in {None, r}, busy' = None,
         UNCHANGED <<now, mail, owner, known>>
  PROVE  IInv'
<1>1. NoTask \in TaskState /\ NoTask.pc = "none"
  BY DEF NoTask, TaskState, Pcs
<1>2. QED
  BY <1>1, TaskMoves DEF Searching

LEMMA SearchBegins ==
  ASSUME IInv, NEW r \in Runs, NEW d \in Nat, busy = None, Look(r, d)
  PROVE  IInv'
<1> DEFINE t == Task("list", "cur", None, d, now)
<1>1. t \in TaskState
  BY DEF TaskState, Pcs, IInv, Typed
<1>2. known' # None /\ (known # None => known' = known)
  BY DEF Look, IInv, Typed
<1>3. t.pc = "list" /\ t.dir = "cur" /\ t.wake = now
  OBVIOUS
<1>4. Only(r, t) /\ busy' = r /\ UNCHANGED <<now, mail, owner>>
  BY DEF Look, Only
<1>5. t.wake <= now /\ now <= t.wake + SearchMax
  BY <1>3 DEF IInv, Typed
<1> HIDE DEF t
<1>6. QED
  BY <1>1, <1>2, <1>3, <1>4, <1>5, TaskMoves DEF Searching

\* A search in a directory where the mail is not, or only under a path as young as the
\* search, goes on with the next directory, or ends.
LEMMA DirDone ==
  ASSUME IInv, NEW r \in Runs, busy = r, NextDir(r), UNCHANGED <<now, mail, owner, known>>,
         task[r].pc \in {"list", "read"},
         Here(r, {task[r].dir}) => task[r].wake <= mail[r].since
  PROVE  IInv'
<1> USE DEF IInv, Typed, TaskState, Pcs, Searching
<1>1. /\ task[r] \in TaskState /\ mail[r] \in MailState
      /\ task[r].wake <= now /\ now <= task[r].wake + SearchMax
      /\ known # None
  BY DEF OnTime, Looked
<1>2. \A dirs : Here(r, dirs)' = Here(r, dirs)
  BY DEF Here
<1>3. CASE task[r].dir = "cur"
  <2> DEFINE t == Task("list", "new", None, task[r].deadline, task[r].wake)
  <2>1. t \in TaskState /\ t.pc = "list" /\ t.wake = task[r].wake
    BY <1>1
  <2>2. Only(r, t) /\ busy' = r
    BY <1>3 DEF NextDir, Goto, Only
  <2> HIDE DEF t
  <2>3. QED
    BY <1>1, <1>2, <1>3, <2>1, <2>2, TaskMoves
<1>4. CASE task[r].dir = "new"
  <2> DEFINE t == Task("due", "cur", None, task[r].deadline, now + Interval)
  <2>1. t \in TaskState /\ t.pc = "due" /\ t.wake = now + Interval
    BY <1>1
  <2>2. Only(r, t) /\ busy' = None
    BY <1>4 DEF NextDir, Goto, Only
  <2>3. Here(r, {"cur", "new"}) => task[r].wake <= mail[r].since
    BY <1>4 DEF Here, Searched
  <2>4. Here(r, {"cur", "new"}) => now + Interval <= mail[r].since + SearchMax + Interval
    BY <1>1, <2>3 DEF MailState
  <2>5. t.wake <= now + Interval /\ now <= t.wake + Lag
    BY <2>1
  <2>6. Here(r, {"cur", "new"})' => t.wake <= mail[r].since + SearchMax + Interval
    BY <1>2, <2>1, <2>4
  <2> HIDE DEF t
  <2>7. QED
    BY <1>1, <2>1, <2>2, <2>5, <2>6, TaskMoves
<1>5. QED
  BY <1>1, <1>3, <1>4

LEMMA StepOfSearch ==
  ASSUME IInv, NEW r \in Runs, IsDir(r) \/ List(r) \/ Found(r) \/ NotFound(r)
  PROVE  IInv'
<1> USE DEF IInv, Typed, TaskState, Pcs, Searching
<1>1. /\ busy = r /\ task[r] \in TaskState /\ mail[r] \in MailState
      /\ task[r].wake <= now /\ now <= task[r].wake + SearchMax
      /\ known # None
      /\ UNCHANGED <<now, mail, owner, known>>
  BY DEF OnTime, Looked, IsDir, List, Found, NotFound
<1>2. \A dirs : Here(r, dirs)' = Here(r, dirs)
  BY <1>1 DEF Here
<1>3. CASE IsDir(r) /\ known # owner
  BY <1>1, <1>3, DirDone DEF IsDir, Here
<1>4. CASE IsDir(r) /\ known = owner
  <2> DEFINE t == Task("dir", task[r].dir, None, task[r].deadline, task[r].wake)
  <2>1. t \in TaskState /\ t.pc = "dir" /\ t.wake = task[r].wake /\ t.dir = task[r].dir
    BY <1>1
  <2>2. Only(r, t) /\ busy' = r
    BY <1>1, <1>4 DEF IsDir, Goto, Only
  <2>3. t.dir = "new" /\ Here(r, {"cur"}) => t.wake <= mail[r].since
    BY <1>4, <2>1 DEF IsDir, Searched
  <2> HIDE DEF t
  <2>4. QED
    BY <1>1, <1>2, <2>1, <2>2, <2>3, TaskMoves
<1>5. CASE List(r)
  <2> DEFINE seen == IF mail[r].dir = task[r].dir THEN mail[r].name ELSE None
             t == Task("read", task[r].dir, seen, task[r].deadline, task[r].wake)
  <2>1. t \in TaskState
    BY <1>1 DEF MailState
  <2>2. Only(r, t) /\ busy' = r
    BY <1>5 DEF List, Goto, Only
  <2>3. Here(r, {t.dir}) => t.seen = mail[r].name
    BY DEF Here
  <2>4. t.dir = "new" /\ Here(r, {"cur"}) => t.wake <= mail[r].since
    BY <1>5 DEF List, Searched
  <2>5. t.pc = "read" /\ t.wake = task[r].wake
    OBVIOUS
  <2> HIDE DEF t
  <2>6. QED
    BY <1>1, <1>2, <2>1, <2>2, <2>3, <2>4, <2>5, TaskMoves
<1>6. CASE Found(r)
  <2> DEFINE t == Task("open", task[r].dir, task[r].seen, task[r].deadline, task[r].wake)
  <2>1. t \in TaskState /\ t.pc = "open" /\ t.wake = task[r].wake
    BY <1>1
  <2>2. Only(r, t) /\ busy' = r
    BY <1>6, <1>1 DEF Found, Goto, Only
  <2> HIDE DEF t
  <2>3. QED
    BY <1>1, <2>1, <2>2, TaskMoves
<1>7. CASE NotFound(r)
  <2>1. Here(r, {task[r].dir}) => task[r].wake <= mail[r].since
    BY <1>7, <1>1 DEF NotFound, InPlace, Here, Searched, MailState
  <2>2. QED
    BY <1>1, <1>7, <2>1, DirDone DEF NotFound
<1>8. QED
  BY <1>3, <1>4, <1>5, <1>6, <1>7

-----------------------------------------------------------------------------
(* Every step.                                                             *)

LEMMA Renames ==
  ASSUME IInv, NEW r \in Runs, NEW from, NEW to \in {"new", "cur", "gone"}, Rename(r, from, to)
  PROVE  IInv'
<1>1. /\ mail' \in [Runs -> MailState]
      /\ mail'[r].since = now
      /\ \A q \in Runs \ {r} : mail'[q] = mail[q]
  BY DEF Rename, IInv, Typed, MailState
<1>2. UNCHANGED <<now, owner, known, task, busy>>
  BY DEF Rename
<1>3. QED
  BY <1>1, <1>2, MovedIsNew DEF IInv, Typed

LEMMA OwnerChanges ==
  ASSUME IInv, NEW u \in Users, GiveDomain(u)
  PROVE  IInv'
<1>1. mail' \in [Runs -> MailState]
  BY DEF GiveDomain, IInv, Typed, MailState
<1>2. ASSUME NEW r \in Runs
      PROVE  mail'[r].since = now \/ (mail'[r] = mail[r] /\ ~Here(r, {"cur", "new"})')
  <2>1. mail'[r] = IF mail[r].dir \in {"new", "cur"}
                   THEN Mail(mail[r].dir, mail[r].name + 1, now) ELSE mail[r]
    BY DEF GiveDomain
  <2>2. CASE mail[r].dir \in {"new", "cur"}
    BY <2>1, <2>2
  <2>3. CASE mail[r].dir \notin {"new", "cur"}
    BY <2>1, <2>3 DEF Here
  <2>4. QED
    BY <2>2, <2>3
<1>3. QED
  <2>1. UNCHANGED <<now, known, task, busy>> /\ owner' \in Users
    BY DEF GiveDomain
  <2>2. QED
    BY <1>1, <1>2, <2>1, MovedIsNew

LEMMA Starts ==
  ASSUME IInv, NEW r \in Runs, NEW local, NEW msgid, Dispatch(r, local, msgid)
  PROVE  IInv'
<1> DEFINE t == Task("start", "cur", None, 0, now)
           m == Mail("queue", 0, now)
<1>1. t \in TaskState /\ m \in MailState /\ m.since = now /\ t.pc = "start"
  BY DEF IInv, Typed, TaskState, MailState, Pcs
<1>2. task' = [task EXCEPT ![r] = t] /\ mail' = [mail EXCEPT ![r] = m]
  BY DEF Dispatch
<1>3. UNCHANGED <<now, owner, known, busy>> /\ busy = None
  BY DEF Dispatch
<1> HIDE DEF t, m
<1>4. Typed'
  BY <1>1, <1>2, <1>3 DEF IInv, Typed, Searching
<1>5. OnTime' /\ Looked'
  BY <1>1, <1>2, <1>3 DEF IInv, Typed, OnTime, Looked, Searching
<1>6. Searched'
  BY <1>1, <1>2, <1>3 DEF IInv, Typed, Searched, Here
<1>7. QED
  BY <1>4, <1>5, <1>6 DEF IInv

LEMMA Inductive == IInv /\ [Next]_vars => IInv'
<1> SUFFICES ASSUME IInv, [Next]_vars PROVE IInv'
  OBVIOUS
<1>1. ASSUME NEW r \in Runs, NEW local, NEW msgid, Dispatch(r, local, msgid) PROVE IInv'
  BY <1>1, Starts
<1>2. ASSUME NEW r \in Runs, Skip(r) \/ ListRaises(r) \/ Verify(r) \/ OpenRaises(r) \/ TimeOut(r)
      PROVE  IInv'
  <2>1. /\ Only(r, NoTask) /\ busy \in {None, r} /\ busy' = None
        /\ UNCHANGED <<now, mail, owner, known>>
    BY <1>2 DEF Skip, ListRaises, Verify, OpenRaises, TimeOut, Due, Finish, Dies, Ends, Only
  <2>2. QED
    BY <2>1, TaskEnds
<1>3. ASSUME NEW r \in Runs, Begin(r) PROVE IInv'
  <2>1. now + Timeout \in Nat
    BY DEF IInv, Typed
  <2>2. QED
    BY <1>3, <2>1, SearchBegins DEF Begin
<1>4. ASSUME NEW r \in Runs, Again(r) PROVE IInv'
  <2>1. task[r].deadline \in Nat
    BY DEF IInv, Typed, TaskState
  <2>2. QED
    BY <1>4, <2>1, SearchBegins DEF Again, Due
<1>5. ASSUME NEW r \in Runs, IsDir(r) \/ List(r) \/ Found(r) \/ NotFound(r) PROVE IInv'
  BY <1>5, StepOfSearch
<1>6. ASSUME NEW r \in Runs, Deliver(r) \/ Rearrange(r) PROVE IInv'
  BY <1>6, Renames DEF Deliver, Rearrange
<1>7. ASSUME NEW u \in Users, GiveDomain(u) PROVE IInv'
  BY <1>7, OwnerChanges
<1>8. CASE Restart
  BY <1>8 DEF Restart, NoTask, IInv, Typed, TaskState, Pcs, Searching, OnTime, Looked, Searched
<1>9. CASE Tick
  BY <1>9 DEF Tick, IInv, Typed, TaskState, MailState, Pcs, Searching, OnTime, Looked, Searched, Here
<1>10. CASE UNCHANGED vars
  BY <1>10 DEF vars, IInv, Typed, OnTime, Looked, Searched, Here
<1>11. QED
  BY <1>1, <1>2, <1>3, <1>4, <1>5, <1>6, <1>7, <1>8, <1>9, <1>10 DEF Next, Poll

\* A time-out is honest, for any number of runs, renames, owners and restarts,
\* and for all times.
THEOREM TimedOutMeansLateHolds == Spec => TimedOutMeansLate
<1>1. Init => IInv
  BY DEF Init, IInv, Typed, MailState, TaskState, Pcs, Searching, OnTime, Looked, Searched, NoTask
<1>2. ASSUME IInv, NEW r \in Runs, TimeOut(r), mail[r].dir \in {"new", "cur"}, known = owner
      PROVE  task[r].deadline <= mail[r].since + SearchMax + Interval + Lag
  <2>1. /\ task[r].pc = "due" /\ now >= task[r].deadline
        /\ task[r] \in TaskState /\ mail[r] \in MailState
    BY <1>2 DEF TimeOut, Due, IInv, Typed
  <2>2. now <= task[r].wake + Lag
    BY <1>2, <2>1 DEF IInv, OnTime
  <2>3. task[r].wake <= mail[r].since + SearchMax + Interval
    BY <1>2, <2>1 DEF IInv, Searched, Here
  <2>4. QED
    BY <1>2, <2>1, <2>2, <2>3 DEF TaskState, MailState, IInv, Typed
<1>3. IInv /\ [Next]_vars =>
        [\A r \in Runs : TimeOut(r) /\ mail[r].dir \in {"new", "cur"} /\ known = owner
           => task[r].deadline <= mail[r].since + SearchMax + Interval + Lag]_vars
  BY <1>2
<1>4. QED
  BY <1>1, <1>3, Inductive, PTL DEF Spec, TimedOutMeansLate
=============================================================================

------------------------------- MODULE SendAs -------------------------------
(***************************************************************************)
(* The send-as test: services/sendas.py, routers/sendas.py and the search  *)
(* of services/maildir.py.  A test mail is handed to Exim, its run is      *)
(* recorded in a file, and a background task searches the recipient's      *)
(* mailbox for it until it is found or time is up.                         *)
(*                                                                         *)
(* The task blocks the event loop while it searches (busy), but Exim       *)
(* delivers, Dovecot renames and users move mail at any moment.  A mail    *)
(* gets a new path with every rename; name counts them, since is when the  *)
(* last one, or the delivery, was.  A step that raises ends the task, and  *)
(* nobody awaits it; died says which one did.                              *)
(***************************************************************************)
EXTENDS Naturals

CONSTANTS
  Runs,         \* run ids, one test mail each
  Users,        \* HestiaCP users that can own the recipients' domain
  Timeout, Interval,  \* poll_arrival's parameters
  Lag,          \* longest time the event loop leaves a task waiting
  SearchMax,    \* longest search
  LastDispatch, MaxTime, MaxRenames, MaxFaults,  \* bounds
  None

ASSUME SendAsAssumption ==
  /\ {Timeout, Interval, Lag, SearchMax, LastDispatch, MaxTime, MaxRenames, MaxFaults} \subseteq Nat
  /\ Timeout > 0 /\ None \notin Runs \cup Users

VARIABLES
  now,
  mail,   \* where each test mail is, under which name, and since when
  owner,  \* the user whose home holds the domain's mail
  known,  \* _user_cache and data/maildir_user_cache.json
  run,    \* the run files: status, is_local_to, msgid known
  task,   \* poll_arrival of each run
  busy,   \* the run whose task has the event loop
  died,   \* why a task ended without a result: "moved", "unwritten", "stopped"
  faults  \* failed writes and restarts

vars == <<now, mail, owner, known, run, task, busy, died, faults>>

Mail(dir, name, since) == [dir |-> dir, name |-> name, since |-> since]
Run(status, local, msgid) == [status |-> status, local |-> local, msgid |-> msgid]
Task(pc, dir, seen, deadline, wake) ==
  [pc |-> pc, dir |-> dir, seen |-> seen, deadline |-> deadline, wake |-> wake]

NoRun == Run("none", FALSE, FALSE)
NoTask == Task("none", "cur", None, 0, 0)

Init ==
  /\ now = 0
  /\ mail = [r \in Runs |-> Mail("unsent", 0, 0)]
  /\ owner \in Users
  /\ known = None
  /\ run = [r \in Runs |-> NoRun]
  /\ task = [r \in Runs |-> NoTask]
  /\ busy = None
  /\ died = [r \in Runs |-> "no"]
  /\ faults = 0

Goto(r, pc, dir, seen, wake) ==
  task' = [task EXCEPT ![r] = Task(pc, dir, seen, task[r].deadline, wake)]

Becomes(r, status) == run' = [run EXCEPT ![r] = Run(status, run[r].local, run[r].msgid)]
Fault == faults < MaxFaults /\ faults' = faults + 1

Ends(r) ==
  /\ task' = [task EXCEPT ![r] = NoTask]
  /\ busy' = None

\* Something raises in the task.
Dies(r, why) == Ends(r) /\ died' = [died EXCEPT ![r] = why]

\* update_run_state, then the task returns.  When the run file cannot be read or
\* written, it stays as it is, or is empty: write_text truncates it first.
Finish(r, status) ==
  \/ Becomes(r, status) /\ Ends(r) /\ UNCHANGED <<died, faults>>
  \/ /\ Fault /\ Dies(r, "unwritten")
     /\ UNCHANGED run \/ Becomes(r, "torn")

-----------------------------------------------------------------------------
(* The request and its task.                                               *)

\* dispatch and create_task: Exim has the mail, the run file says "sent".  A
\* dispatch that is refused leaves no run.
Dispatch(r, local, msgid) ==
  /\ busy = None /\ mail[r].dir = "unsent" /\ now <= LastDispatch
  /\ mail' = [mail EXCEPT ![r] = Mail("queue", 0, now)]
  /\ run' = [run EXCEPT ![r] = Run("sent", local, msgid)]
  /\ task' = [task EXCEPT ![r] = Task("start", "cur", None, 0, now)]
  /\ UNCHANGED <<now, owner, known, busy, died, faults>>

\* Mutant: a run to an external address is left as it is.
SkipQuietly(r) ==
  /\ busy = None /\ task[r].pc = "start"
  /\ ~run[r].local \/ ~run[r].msgid
  /\ IF run[r].local THEN Finish(r, "missing_msgid_or_recipient")
                     ELSE Finish(r, "sent")
  /\ UNCHANGED <<now, mail, owner, known>>

\* poll_arrival has nothing to wait for.
Skip(r) ==
  /\ busy = None /\ task[r].pc = "start"
  /\ ~run[r].local \/ ~run[r].msgid
  /\ Finish(r, IF run[r].local THEN "missing_msgid_or_recipient" ELSE "external_no_verify")
  /\ UNCHANGED <<now, mail, owner, known>>

\* find_by_msgid starts: the owner of the domain comes from the cache, or is
\* looked up once and for all.  wake is when the search began.
Look(r, deadline) ==
  /\ known' = IF known = None THEN owner ELSE known
  /\ task' = [task EXCEPT ![r] = Task("list", "cur", None, deadline, now)]
  /\ busy' = r
  /\ UNCHANGED <<now, mail, owner, run, died, faults>>

\* poll_arrival sets its deadline and goes into its loop without an await.
Begin(r) ==
  /\ busy = None /\ task[r].pc = "start"
  /\ run[r].local /\ run[r].msgid
  /\ Look(r, now + Timeout)

\* asyncio.sleep is over.
Due(r) == busy = None /\ task[r].pc = "due" /\ now >= task[r].wake

Again(r) == Due(r) /\ now < task[r].deadline /\ Look(r, task[r].deadline)

\* new comes after cur; after both the task sleeps.
NextDir(r) ==
  IF task[r].dir = "cur"
  THEN Goto(r, "list", "new", None, task[r].wake) /\ UNCHANGED busy
  ELSE Goto(r, "due", "cur", None, now + Interval) /\ busy' = None

\* is_dir, of one of the two directories under the cached owner's home: the
\* directory is there, or the mailbox has moved, and the search goes on.
IsDir(r) ==
  /\ busy = r /\ task[r].pc = "list"
  /\ IF known = owner
       THEN Goto(r, "dir", task[r].dir, None, task[r].wake) /\ UNCHANGED busy
       ELSE NextDir(r)
  /\ UNCHANGED <<now, mail, owner, known, run, died, faults>>

\* iterdir.
List(r) ==
  /\ busy = r /\ task[r].pc = "dir"
  /\ known = owner
  /\ LET seen == IF mail[r].dir = task[r].dir THEN mail[r].name ELSE None
     IN  Goto(r, "read", task[r].dir, seen, task[r].wake)
  /\ UNCHANGED <<now, mail, owner, known, run, busy, died, faults>>

\* The directory has gone since: iterdir raises, outside of the try.
ListRaises(r) ==
  /\ busy = r /\ task[r].pc = "dir"
  /\ known # owner
  /\ Dies(r, "moved")
  /\ UNCHANGED <<now, mail, owner, known, run, faults>>

\* The mail is still where the task has seen it, under that name.
InPlace(r) ==
  known = owner /\ mail[r].dir = task[r].dir /\ mail[r].name = task[r].seen

\* read_bytes finds the message id, and the path is returned.
Found(r) ==
  /\ busy = r /\ task[r].pc = "read"
  /\ InPlace(r)
  /\ Goto(r, "open", task[r].dir, task[r].seen, task[r].wake)
  /\ UNCHANGED <<now, mail, owner, known, run, busy, died, faults>>

\* Mutant: cur is searched, new is not.
NotFoundInCur(r) ==
  /\ busy = r /\ task[r].pc = "read" /\ ~InPlace(r)
  /\ Goto(r, "due", "cur", None, now + Interval)
  /\ busy' = None
  /\ UNCHANGED <<now, mail, owner, known, run, died, faults>>

\* A listed file that is gone or renamed when it is read is skipped.
NotFound(r) ==
  /\ busy = r /\ task[r].pc = "read" /\ ~InPlace(r)
  /\ NextDir(r)
  /\ UNCHANGED <<now, mail, owner, known, run, died, faults>>

\* poll_arrival opens the path again and reports.
Verify(r) ==
  /\ busy = r /\ task[r].pc = "open"
  /\ InPlace(r)
  /\ Finish(r, "verified")
  /\ UNCHANGED <<now, mail, owner, known>>

\* The path is gone: open raises.
OpenRaises(r) ==
  /\ busy = r /\ task[r].pc = "open"
  /\ ~InPlace(r)
  /\ Dies(r, "moved")
  /\ UNCHANGED <<now, mail, owner, known, run, faults>>

TimeOut(r) ==
  /\ Due(r) /\ now >= task[r].deadline
  /\ Finish(r, "timeout")
  /\ UNCHANGED <<now, mail, owner, known>>

-----------------------------------------------------------------------------
(* The surroundings.                                                       *)

\* Exim delivers; Dovecot moves a mail from new to cur or changes its flags,
\* both by a rename; the user moves it to another folder or deletes it.
Rename(r, from, to) ==
  /\ mail[r].dir = from
  /\ from = "queue" \/ mail[r].name < MaxRenames
  /\ mail' = [mail EXCEPT ![r] =
       Mail(to, IF from = "queue" THEN 0 ELSE mail[r].name + 1, now)]
  /\ UNCHANGED <<now, owner, known, run, task, busy, died, faults>>

Deliver(r) == run[r].local /\ Rename(r, "queue", "new")
Rearrange(r) ==
  \/ Rename(r, "new", "cur") \/ Rename(r, "cur", "cur")
  \/ Rename(r, "new", "gone") \/ Rename(r, "cur", "gone")

\* An administrator gives the domain, and its mail, to another user: the
\* directories go from the one home to the other.
GiveDomain(u) ==
  /\ u # owner
  /\ \A r \in Runs : mail[r].name < MaxRenames
  /\ owner' = u
  /\ mail' = [r \in Runs |-> IF mail[r].dir \in {"new", "cur"}
                              THEN Mail(mail[r].dir, mail[r].name + 1, now) ELSE mail[r]]
  /\ UNCHANGED <<now, known, run, task, busy, died, faults>>

\* The process stops and is started again; the owner cache is a file.  The run
\* file a task was about to write may be left empty.
Restart ==
  /\ Fault
  /\ \E torn \in SUBSET {r \in Runs : task[r].pc \in {"start", "open", "due"}} :
       run' = [r \in Runs |-> IF r \in torn THEN Run("torn", run[r].local, run[r].msgid)
                                            ELSE run[r]]
  /\ died' = [r \in Runs |-> IF task[r].pc # "none" THEN "stopped" ELSE died[r]]
  /\ task' = [r \in Runs |-> NoTask]
  /\ busy' = None
  /\ UNCHANGED <<now, mail, owner, known>>

Tick ==
  /\ now < MaxTime
  /\ \A r \in Runs :
       /\ task[r].pc \in {"start", "due"} => now < task[r].wake + Lag
       /\ task[r].pc \in {"list", "dir", "read", "open"} => now < task[r].wake + SearchMax
  /\ now' = now + 1
  /\ UNCHANGED <<mail, owner, known, run, task, busy, died, faults>>

Poll(r) ==
  Skip(r) \/ Begin(r) \/ Again(r) \/ IsDir(r) \/ List(r) \/ ListRaises(r)
    \/ Found(r) \/ NotFound(r) \/ Verify(r) \/ OpenRaises(r) \/ TimeOut(r)

Next ==
  \/ \E r \in Runs :
       \/ \E local, msgid \in BOOLEAN : Dispatch(r, local, msgid)
       \/ Poll(r) \/ Deliver(r) \/ Rearrange(r)
  \/ \E u \in Users : GiveDomain(u)
  \/ Restart
  \/ Tick

Spec == Init /\ [][Next]_vars

\* The event loop runs a task that can run, and time passes.
FairSpec == Spec /\ (\A r \in Runs : WF_vars(Poll(r))) /\ WF_vars(Tick)

-----------------------------------------------------------------------------
(* Properties.                                                             *)

Results == {"verified", "timeout", "external_no_verify", "missing_msgid_or_recipient"}

\* "Timeout (60s) - it did not reach the Maildir" (static/js/sendas.js:145) is
\* honest but for the last moments: a mail whose path did not change in the last
\* SearchMax + Interval + Lag before the deadline has been found, although it is
\* delivered, moved from new to cur and renamed at any point of a search - unless
\* the cached owner of the domain is outdated.
TimedOutMeansLate == [][\A r \in Runs :
  TimeOut(r) /\ mail[r].dir \in {"new", "cur"} /\ known = owner
    => task[r].deadline <= mail[r].since + SearchMax + Interval + Lag]_vars

\* services/sendas.py:121: "Poll Maildir until msgid arrives or timeout. Update
\* run state with result." - every run gets a result in the end, but for those
\* whose task died: the directory went between is_dir and iterdir, or the mail
\* between the search and the open (services/maildir.py:183-185,
\* services/sendas.py:141), the run file could not be written (:111-114), or the
\* process stopped.
RunsEnd == \A r \in Runs : run[r].status = "sent" ~>
  run[r].status \in Results \/ died[r] \in {"moved", "unwritten", "stopped"}
=============================================================================

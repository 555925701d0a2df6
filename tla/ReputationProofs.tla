-------------------------- MODULE ReputationProofs --------------------------
(* Proofs about Reputation, for any log, any number of snapshots, failures *)
(* and restarts, and all times; Day and KeepDays are symbols, too.  What   *)
(* a status and the tail of a log are is in LogProofs.                     *)
EXTENDS Reputation, LogProofs, FiniteSetTheorems

USE ReputationAssumption

-----------------------------------------------------------------------------
(* Days.                                                                   *)

LEMMA DayIs ==
  ASSUME NEW t \in Int
  PROVE  DayOf(t) \in Int /\ Day * DayOf(t) <= t /\ t < Day * DayOf(t) + Day
<1>1. \A D \in Nat \ {0} : t \div D \in Int /\ D * (t \div D) <= t /\ t < D * (t \div D) + D
  OBVIOUS
<1>2. QED
  BY <1>1 DEF DayOf

LEMMA Times ==
  ASSUME NEW p \in Int, NEW q \in Int, NEW D \in Nat, p < q
  PROVE  D * p + D <= D * q
<1>1. p + 1 <= q
  OBVIOUS
<1>2. D * (p + 1) <= D * q
  BY <1>1
<1>3. D * (p + 1) = D * p + D
  OBVIOUS
<1>4. QED
  BY <1>2, <1>3

LEMMA DaysGrow ==
  ASSUME NEW s \in Int, NEW t \in Int, s <= t PROVE DayOf(s) <= DayOf(t)
<1>1. /\ DayOf(s) \in Int /\ DayOf(t) \in Int
      /\ Day * DayOf(s) <= s /\ t < Day * DayOf(t) + Day
  BY DayIs
<1>2. CASE DayOf(t) < DayOf(s)
  <2>1. Day * DayOf(t) + Day <= Day * DayOf(s)
    BY <1>1, <1>2, Times
  <2>2. Day * DayOf(t) \in Int /\ Day * DayOf(s) \in Int
    BY <1>1
  <2>3. QED
    BY <1>1, <2>1, <2>2
<1>3. QED
  BY <1>1, <1>2

\* What is at most d days old is at most d dates old.
LEMMA AgeInDates ==
  ASSUME NEW s \in Int, NEW t \in Int, NEW d \in Nat, t - s <= d * Day
  PROVE  ~(DayOf(s) < DayOf(t) - d)
<1>1. SUFFICES ASSUME DayOf(s) < DayOf(t) - d PROVE FALSE
  OBVIOUS
<1>2. /\ DayOf(s) \in Int /\ DayOf(t) \in Int
      /\ s < Day * DayOf(s) + Day /\ Day * DayOf(t) <= t
  BY DayIs
<1>3. Day * DayOf(s) + Day <= Day * (DayOf(t) - d)
  BY <1>1, <1>2, Times
<1>4. Day * (DayOf(t) - d) = Day * DayOf(t) - d * Day
  BY <1>2
<1>5. Day * DayOf(t) \in Int /\ Day * DayOf(s) \in Int /\ d * Day \in Int
  BY <1>2
<1>6. QED
  BY <1>2, <1>3, <1>4, <1>5

\* What is at most d dates old is less than d + 1 days old.
LEMMA DatesInAge ==
  ASSUME NEW s \in Int, NEW t \in Int, NEW d \in Nat, DayOf(s) >= DayOf(t) - d
  PROVE  t - s < (d + 1) * Day
<1>1. /\ DayOf(s) \in Int /\ DayOf(t) \in Int
      /\ Day * DayOf(s) <= s /\ t < Day * DayOf(t) + Day
  BY DayIs
<1>2. DayOf(t) - d < DayOf(s) + 1
  BY <1>1
<1>3. Day * (DayOf(t) - d) + Day <= Day * (DayOf(s) + 1)
  BY <1>1, <1>2, Times
<1>4. /\ Day * (DayOf(t) - d) = Day * DayOf(t) - d * Day
      /\ Day * (DayOf(s) + 1) = Day * DayOf(s) + Day
      /\ (d + 1) * Day = d * Day + Day
  BY <1>1
<1>5. Day * DayOf(t) \in Int /\ Day * DayOf(s) \in Int /\ d * Day \in Int
  BY <1>1
<1>6. QED
  BY <1>1, <1>3, <1>4, <1>5

-----------------------------------------------------------------------------
(* The invariant.                                                          *)

Writing == {"commit", "prune", "commit prune", "answer"}
Pcs == {"idle", "current", "insert"} \cup Writing
LineType == [msg : Msgs, sym : Symbols, at : Nat,
             addr : {SenderOf[m] : m \in Msgs} \cup {RecipientOf[m] : m \in Msgs}]

\* What the argument needs of the types.
Typed ==
  /\ now \in Nat /\ log \in Seq(LineType) /\ taken \in Seq(Nat) /\ reported \in Nat
  /\ handler \in [pc : Pcs, seen : Nat, ts : Nat]
  /\ {view, disk, answered} \subseteq SUBSET (1 .. Len(taken))
  /\ \A i \in 1 .. Len(taken) : taken[i] <= now

\* The snapshot in progress is of this moment, and it is written.
Pending ==
  /\ handler.pc \in Writing => Len(taken) \in view /\ taken[Len(taken)] = now
  /\ handler.pc \in Writing \ {"commit"} => Len(taken) \in disk

\* An answered snapshot is on disk, and seen, until its date has expired.
Safe == \A i \in answered : ~Expired(i) => i \in view /\ i \in disk

\* Lines that were not seen were logged later.
SeenUntil(n, t) == \A i \in DOMAIN log : i > n => log[i].at >= t
Current ==
  /\ reported <= Len(log)
  /\ handler.pc # "idle" => /\ handler.seen <= Len(log) /\ handler.ts <= now
                            /\ SeenUntil(handler.seen, handler.ts)
  /\ handler.pc = "current" => reported <= handler.seen
  /\ cache # None => /\ cache.seen \in Nat /\ cache.ts \in Nat /\ cache.ts <= now
                     /\ reported <= cache.seen /\ SeenUntil(cache.seen, cache.ts)

IInv == Typed /\ Pending /\ Safe /\ Current

LEMMA Moves ==
  ASSUME NEW pc \in Pcs, handler \in [pc : Pcs, seen : Nat, ts : Nat], Goto(pc)
  PROVE  /\ handler' \in [pc : Pcs, seen : Nat, ts : Nat]
         /\ handler'.pc = pc /\ handler'.seen = handler.seen /\ handler'.ts = handler.ts
BY DEF Goto

LEMMA IdleIs == Idle \in [pc : Pcs, seen : Nat, ts : Nat] /\ Idle.pc = "idle"
BY DEF Idle, Pcs

LEMMA Starts == Init => IInv
<1>1. SUFFICES ASSUME Init PROVE IInv
  OBVIOUS
<1>2. Typed
  BY <1>1, IdleIs DEF Init, Typed
<1>3. Pending /\ Safe
  BY <1>1, IdleIs DEF Init, Pending, Safe, Writing
<1>4. Current
  BY <1>1, IdleIs DEF Init, Current
<1>5. QED
  BY <1>2, <1>3, <1>4 DEF IInv

\* Exim logs a line.
LEMMA Logs == ASSUME IInv, NEW m \in Msgs, NEW sym \in Symbols, LogEvent(m, sym) PROVE IInv'
<1> DEFINE line == [msg |-> m, sym |-> sym, at |-> now,
                    addr |-> IF sym = "<=" THEN SenderOf[m] ELSE RecipientOf[m]]
<1> USE DEF IInv
<1>1. log' = Append(log, line)
      /\ UNCHANGED <<now, disk, view, taken, cache, handler, answered, reported>>
  BY DEF LogEvent, database
<1>2. line \in LineType /\ line.at = now
  BY DEF Typed, LineType
<1> HIDE DEF line
<1>3. /\ log' \in Seq(LineType) /\ Len(log) \in Nat /\ Len(log') = Len(log) + 1
      /\ DOMAIN log' = 1 .. Len(log) + 1 /\ DOMAIN log = 1 .. Len(log)
      /\ log'[Len(log) + 1] = line /\ \A i \in 1 .. Len(log) : log'[i] = log[i]
  BY <1>1, <1>2 DEF Typed
<1>4. Typed' /\ Pending' /\ Safe'
  BY <1>1, <1>3 DEF Typed, Pending, Safe, Expired
<1>5. ASSUME NEW n \in Nat, NEW t \in Nat, t <= now, SeenUntil(n, t) PROVE SeenUntil(n, t)'
  BY <1>2, <1>3, <1>5 DEF SeenUntil
<1>6. Current'
  BY <1>1, <1>3, <1>5 DEF Typed, Current
<1>7. QED
  BY <1>4, <1>6

\* The log is rotated, or nothing at all happens.
LEMMA Rotates ==
  ASSUME IInv, UNCHANGED <<now, log, disk, view, taken, cache, handler, answered, reported>>
  PROVE  IInv'
BY DEF IInv, Typed, Pending, Safe, Expired, Current, SeenUntil

\* Time passes: what had not expired may now.
LEMMA Passes == ASSUME IInv, Tick PROVE IInv'
<1> USE DEF IInv
<1>1. handler.pc \notin Writing /\ now' = now + 1
      /\ UNCHANGED <<log, disk, view, taken, cache, handler, answered, reported>>
  BY DEF Tick, Waiting, Writing, mainlog, database
<1>2. now \in Nat /\ \A i \in 1 .. Len(taken) : taken[i] \in Nat /\ taken[i] <= now
  BY DEF Typed
<1>3. Typed'
  <2>1. now' \in Nat /\ \A i \in 1 .. Len(taken) : taken[i] <= now'
    BY <1>1, <1>2
  <2>2. QED
    BY <1>1, <2>1 DEF Typed
<1>4. Pending'
  BY <1>1 DEF Pending
<1>5. Safe'
  <2>1. ASSUME NEW i \in answered, ~Expired(i)' PROVE ~Expired(i)
    <3>1. DayOf(now) \in Int /\ DayOf(now') \in Int /\ DayOf(now) <= DayOf(now')
      <4>1. now \in Int /\ now' \in Int /\ now <= now'
        BY <1>1, <1>2
      <4>2. DayOf(now) <= DayOf(now')
        BY <4>1, DaysGrow
      <4>3. DayOf(now) \in Int /\ DayOf(now') \in Int
        BY <4>1, DayIs
      <4>4. QED
        BY <4>2, <4>3
    <3>2. taken[i] \in Int
      BY DEF Typed
    <3>3. DayOf(taken[i]) \in Int
      BY <3>2, DayIs
    <3>4. ~(DayOf(taken[i]) < DayOf(now') - KeepDays)
      BY <1>1, <2>1 DEF Expired, DayOf
    <3>5. QED
      BY <3>1, <3>3, <3>4 DEF Expired
  <2>2. QED
    BY <1>1, <2>1 DEF Safe
<1>6. Current'
  BY <1>1, <1>2 DEF Typed, Current, SeenUntil
<1>7. QED
  BY <1>3, <1>4, <1>5, <1>6

\* A request begins: every line so far has been seen.
LEMMA Begins ==
  ASSUME IInv, NEW pc \in {"current", "insert"}, Begin(pc),
         UNCHANGED <<now, log, disk, view, taken, cache, answered, reported>>
  PROVE  IInv'
<1> USE DEF IInv
<1>1. handler' = [pc |-> pc, seen |-> Len(log), ts |-> now]
  BY DEF Begin
<1>2. handler'.pc = pc /\ handler'.seen = Len(log) /\ handler'.ts = now
  BY <1>1
<1>3. Len(log) \in Nat /\ DOMAIN log = 1 .. Len(log) /\ now \in Nat
  BY DEF Typed
<1>4. Typed'
  BY <1>1, <1>3 DEF Typed, Pcs
<1>5. Pending' /\ Safe'
  BY <1>2 DEF Pending, Safe, Expired, Writing
<1>6. SeenUntil(Len(log), now)
  BY <1>3 DEF SeenUntil
<1>7. Current'
  BY <1>2, <1>3, <1>6 DEF Current, SeenUntil
<1>8. QED
  BY <1>4, <1>5, <1>7

LEMMA Caches == ASSUME IInv, CurrentStores PROVE IInv'
<1> USE DEF IInv
<1>1. handler.pc = "current" /\ cache' = [seen |-> handler.seen, ts |-> handler.ts] /\ handler' = Idle
      /\ UNCHANGED <<now, log, disk, view, taken, answered, reported>>
  BY DEF CurrentStores, At, mainlog, database
<1>2. cache'.seen = handler.seen /\ cache'.ts = handler.ts /\ handler'.pc = "idle"
  BY <1>1, IdleIs
<1>3. Typed'
  BY <1>1, IdleIs DEF Typed
<1>4. Pending' /\ Safe'
  BY <1>1, <1>2 DEF Pending, Safe, Expired, Writing
<1>5. Current'
  BY <1>1, <1>2 DEF Typed, Current, SeenUntil
<1>6. QED
  BY <1>3, <1>4, <1>5

\* The row is inserted, with the time of this moment.
LEMMA Inserts == ASSUME IInv, Insert PROVE IInv'
<1> USE DEF IInv
<1>1. taken' = Append(taken, now) /\ view' = view \cup {Len(taken')} /\ handler.pc = "insert"
      /\ UNCHANGED <<now, log, disk, cache, answered, reported>>
  BY DEF Insert, At, mainlog
<1>2. /\ handler' \in [pc : Pcs, seen : Nat, ts : Nat]
      /\ handler'.pc = "commit" /\ handler'.seen = handler.seen /\ handler'.ts = handler.ts
  BY Moves DEF Insert, Typed, Pcs, Writing
<1>3. /\ taken' \in Seq(Nat) /\ Len(taken) \in Nat /\ Len(taken') = Len(taken) + 1
      /\ taken'[Len(taken')] = now /\ \A i \in 1 .. Len(taken) : taken'[i] = taken[i]
  BY <1>1 DEF Typed
<1>4. Typed'
  <2>1. {view', disk', answered'} \subseteq SUBSET (1 .. Len(taken'))
    BY <1>1, <1>3 DEF Typed
  <2>2. \A i \in 1 .. Len(taken') : taken'[i] <= now
    <3>1. ASSUME NEW i \in 1 .. Len(taken') PROVE i = Len(taken') \/ i \in 1 .. Len(taken)
      BY <1>3
    <3>2. \A i \in 1 .. Len(taken) : taken'[i] <= now
      BY <1>3 DEF Typed
    <3>3. taken'[Len(taken')] <= now
      BY <1>3 DEF Typed
    <3>4. QED
      BY <3>1, <3>2, <3>3
  <2>3. QED
    BY <1>1, <1>2, <1>3, <2>1, <2>2 DEF Typed
<1>5. Pending'
  BY <1>1, <1>2, <1>3 DEF Pending
<1>6. Safe'
  <2>1. \A i \in answered : taken'[i] = taken[i]
    BY <1>3 DEF Typed
  <2>2. \A i \in answered : Expired(i)' <=> Expired(i)
    BY <1>1, <2>1 DEF Expired, DayOf
  <2>3. QED
    BY <1>1, <2>2 DEF Safe
<1>7. Current'
  BY <1>1, <1>2 DEF Current, SeenUntil
<1>8. QED
  BY <1>4, <1>5, <1>6, <1>7

\* What the connection sees is saved.
LEMMA Commits ==
  ASSUME IInv, Commit \/ CommitPrune \/ Shutdown
  PROVE  IInv'
<1> USE DEF IInv
<1>1. disk' = view /\ UNCHANGED <<now, log, view, taken, answered, reported>>
  BY DEF Commit, CommitPrune, Shutdown, mainlog
<1>2. cache' = cache \/ cache' = None
  BY DEF Commit, CommitPrune, Shutdown
<1>3. /\ handler' \in [pc : Pcs, seen : Nat, ts : Nat]
      /\ handler'.pc = handler.pc \/ (handler.pc \in Writing /\ handler'.pc \in Writing)
      /\ handler'.seen = handler.seen /\ handler'.ts = handler.ts
  <2>1. CASE Commit
    BY <2>1, Moves DEF Commit, At, Typed, Pcs, Writing
  <2>2. CASE CommitPrune
    BY <2>2, Moves DEF CommitPrune, At, Typed, Pcs, Writing
  <2>3. CASE Shutdown
    BY <2>3 DEF Shutdown, Typed
  <2>4. QED
    BY <2>1, <2>2, <2>3
<1>4. Typed'
  BY <1>1, <1>3 DEF Typed
<1>5. Pending'
  BY <1>1, <1>3 DEF Pending
<1>6. Safe'
  BY <1>1 DEF Safe, Expired
<1>7. Current'
  BY <1>1, <1>2, <1>3 DEF Current, SeenUntil, Writing
<1>8. QED
  BY <1>4, <1>5, <1>6, <1>7

\* Only what has expired is pruned.
LEMMA Prunes == ASSUME IInv, Prune PROVE IInv'
<1> USE DEF IInv
<1>1. handler.pc = "prune" /\ view' = {i \in view : ~Expired(i)}
      /\ UNCHANGED <<now, log, disk, taken, cache, answered, reported>>
  BY DEF Prune, At, mainlog
<1>2. /\ handler' \in [pc : Pcs, seen : Nat, ts : Nat]
      /\ handler'.pc = "commit prune" /\ handler'.seen = handler.seen /\ handler'.ts = handler.ts
  BY Moves DEF Prune, Typed, Pcs, Writing
<1>3. Typed'
  BY <1>1, <1>2 DEF Typed
<1>4. ~Expired(Len(taken))
  <2>1. taken[Len(taken)] = now
    BY <1>1 DEF Pending, Writing
  <2>2. DayOf(now) \in Int
    BY DayIs DEF Typed
  <2>3. QED
    BY <2>1, <2>2 DEF Expired
<1>5. Pending'
  BY <1>1, <1>2, <1>4 DEF Pending, Writing
<1>6. Safe'
  BY <1>1 DEF Safe, Expired
<1>7. Current'
  BY <1>1, <1>2 DEF Current, SeenUntil
<1>8. QED
  BY <1>3, <1>5, <1>6, <1>7

LEMMA Answers == ASSUME IInv, Answer PROVE IInv'
<1> USE DEF IInv
<1>1. handler.pc = "answer" /\ cache' = None /\ answered' = answered \cup {Len(taken)}
      /\ reported' = handler.seen /\ handler' = Idle
      /\ UNCHANGED <<now, log, disk, view, taken>>
  BY DEF Answer, At, mainlog, database
<1>2. Len(taken) \in view /\ Len(taken) \in disk
  BY <1>1 DEF Pending, Writing
<1>3. Typed'
  BY <1>1, <1>2, IdleIs DEF Typed
<1>4. Pending'
  BY <1>1, IdleIs DEF Pending, Writing
<1>5. Safe'
  BY <1>1, <1>2 DEF Safe, Expired
<1>6. Current'
  BY <1>1, IdleIs DEF Current, SeenUntil
<1>7. QED
  BY <1>3, <1>4, <1>5, <1>6

\* A request fails, or the process is killed: an open transaction stays, or is lost.
LEMMA Breaks == ASSUME IInv, Fail \/ Crash PROVE IInv'
<1> USE DEF IInv
<1>1. handler' = Idle /\ UNCHANGED <<now, log, disk, taken, answered, reported>>
  BY DEF Fail, Crash, mainlog, database
<1>2. (view' = view \/ view' = disk) /\ (cache' = cache \/ cache' = None)
  BY DEF Fail, Crash, database
<1>3. handler'.pc = "idle" /\ handler' \in [pc : Pcs, seen : Nat, ts : Nat]
  BY <1>1, IdleIs
<1>4. Typed'
  BY <1>1, <1>2, <1>3 DEF Typed
<1>5. Pending' /\ Safe'
  BY <1>1, <1>2, <1>3 DEF Pending, Safe, Expired, Writing
<1>6. Current'
  BY <1>1, <1>2, <1>3 DEF Current, SeenUntil
<1>7. QED
  BY <1>4, <1>5, <1>6

LEMMA StepsKeep == IInv /\ [Next]_vars => IInv'
<1>1. SUFFICES ASSUME IInv, [Next]_vars PROVE IInv'
  OBVIOUS
<1> USE <1>1
<1>2. ASSUME NEW e \in Events, LogEvent(e[1], e[2]) PROVE IInv'
  <2>1. e[1] \in Msgs /\ e[2] \in Symbols
    OBVIOUS
  <2>2. QED
    BY <1>2, <2>1, Logs
<1>3. CASE Rotate \/ CurrentHit \/ UNCHANGED vars
  <2>1. UNCHANGED <<now, log, disk, view, taken, cache, handler, answered, reported>>
    BY <1>3 DEF Rotate, CurrentHit, vars, database
  <2>2. QED
    BY <2>1, Rotates
<1>4. CASE Tick
  BY <1>4, Passes
<1>5. CASE CurrentFetches
  BY <1>5, Begins DEF CurrentFetches, mainlog, database
<1>6. CASE SnapshotFetches
  BY <1>6, Begins DEF SnapshotFetches, mainlog, database
<1>7. CASE CurrentStores \/ Insert \/ Prune \/ Answer
  BY <1>7, Caches, Inserts, Prunes, Answers
<1>8. CASE Commit \/ CommitPrune \/ Shutdown
  BY <1>8, Commits
<1>9. CASE Fail \/ Crash
  BY <1>9, Breaks
<1>10. QED
  BY <1>2, <1>3, <1>4, <1>5, <1>6, <1>7, <1>8, <1>9 DEF Next

LEMMA IInvHolds == Spec => []IInv
<1>1. QED
  BY Starts, StepsKeep, PTL DEF Spec

-----------------------------------------------------------------------------
(* The theorems.                                                           *)

\* No snapshot that was answered with success is lost before its time, however
\* long a day is and whatever fails.
THEOREM AnsweredIsKeptHolds == Spec => []AnsweredIsKept
<1>1. IInv => AnsweredIsKept
  <2>1. SUFFICES ASSUME IInv, NEW i \in answered, now - taken[i] <= KeepDays * Day PROVE i \in disk
    BY DEF AnsweredIsKept
  <2>2. taken[i] \in Int /\ now \in Int
    BY <2>1 DEF IInv, Typed
  <2>3. ~Expired(i)
    BY <2>1, <2>2, AgeInDates DEF Expired
  <2>4. QED
    BY <2>1, <2>3 DEF IInv, Safe
<1>2. QED
  BY <1>1, IInvHolds, PTL

\* The history is the window asked for, give or take a day, for every window.
THEOREM HistoryIsWindowHolds == Spec => []HistoryIsWindow
<1>1. IInv => HistoryIsWindow
  <2>1. SUFFICES ASSUME IInv, NEW d \in 1 .. KeepDays
                 PROVE  /\ \A i \in answered : now - taken[i] <= d * Day => i \in History(d)
                        /\ \A i \in History(d) : now - taken[i] < (d + 1) * Day
    BY DEF HistoryIsWindow
  <2>2. d \in Nat /\ d <= KeepDays /\ now \in Int /\ \A i \in 1 .. Len(taken) : taken[i] \in Int
    BY <2>1 DEF IInv, Typed
  <2>3. ASSUME NEW i \in answered, now - taken[i] <= d * Day PROVE i \in History(d)
    <3>1. taken[i] \in Int
      BY <2>1, <2>2 DEF IInv, Typed
    <3>2. ~(DayOf(taken[i]) < DayOf(now) - d)
      BY <2>2, <2>3, <3>1, AgeInDates
    <3>3. DayOf(taken[i]) \in Int /\ DayOf(now) \in Int
      BY <2>2, <3>1, DayIs
    <3>4. ~Expired(i)
      BY <2>2, <3>2, <3>3 DEF Expired
    <3>5. i \in view
      BY <2>1, <3>4 DEF IInv, Safe
    <3>6. QED
      BY <2>2, <3>2, <3>3, <3>5 DEF History
  <2>4. ASSUME NEW i \in History(d) PROVE now - taken[i] < (d + 1) * Day
    <3>1. taken[i] \in Int /\ DayOf(taken[i]) >= DayOf(now) - d
      BY <2>1, <2>2, <2>4 DEF IInv, Typed, History
    <3>2. QED
      BY <2>2, <3>1, DatesInAge
  <2>5. QED
    BY <2>3, <2>4
<1>2. QED
  BY <1>1, IInvHolds, PTL

\* A cached score misses nothing old, for every time to live.
THEOREM CurrentKeepsUpHolds == Spec => []CurrentKeepsUp
<1>1. IInv => CurrentKeepsUp
  <2>1. SUFFICES ASSUME IInv, Hit, NEW i \in DOMAIN log, i > cache.seen
                 PROVE  i > reported /\ now - log[i].at < CacheTTL
    BY DEF CurrentKeepsUp
  <2>2. /\ cache # None /\ now - cache.ts < CacheTTL
        /\ cache.seen \in Nat /\ cache.ts \in Nat /\ reported <= cache.seen /\ log[i].at >= cache.ts
    BY <2>1 DEF IInv, Hit, Current, SeenUntil
  <2>3. now \in Nat /\ reported \in Nat /\ i \in Nat /\ log[i].at \in Nat
    <3>1. log \in Seq(LineType) /\ now \in Nat /\ reported \in Nat
      BY <2>1 DEF IInv, Typed
    <3>2. i \in Nat /\ log[i] \in LineType
      BY <3>1
    <3>3. QED
      BY <3>1, <3>2 DEF LineType
  <2>4. QED
    BY <2>1, <2>2, <2>3
<1>2. QED
  BY <1>1, IInvHolds, PTL

-----------------------------------------------------------------------------
(* Counting.                                                               *)

\* An image is finite, and as large as its set if no two have the same image.
LEMMA Images ==
  ASSUME NEW S, IsFiniteSet(S), NEW f
  PROVE  /\ IsFiniteSet({f[x] : x \in S})
         /\ (\A x, y \in S : f[x] = f[y] => x = y) =>
              Cardinality({f[x] : x \in S}) = Cardinality(S)
<1> DEFINE T == {f[x] : x \in S}
           g == [x \in S |-> f[x]]
<1>1. g \in Surjection(S, T)
  BY DEF Surjection
<1>2. IsFiniteSet(T) /\ (g \in Injection(S, T) => Cardinality(T) = Cardinality(S))
  <2> HIDE DEF g, T
  <2> QED BY <1>1, FS_Surjection
<1>3. ASSUME \A x, y \in S : f[x] = f[y] => x = y PROVE g \in Injection(S, T)
  BY <1>3 DEF Injection, IsInjective
<1>4. QED
  BY <1>2, <1>3

\* Those of a finite set that have a property are no more than all, and none if
\* there is none.
LEMMA Fewer ==
  ASSUME NEW S, IsFiniteSet(S), NEW T \in SUBSET S
  PROVE  /\ IsFiniteSet(T) /\ Cardinality(T) \in Nat /\ Cardinality(S) \in Nat
         /\ Cardinality(T) <= Cardinality(S) /\ (Cardinality(T) = 0 <=> T = {})
BY FS_Subset, FS_CardinalityType, FS_EmptySet

\* The messages of finitely many lines are finitely many.
LEMMA FinitelyMany ==
  ASSUME NEW L, NEW w \in Seq(L)
  PROVE  IsFiniteSet(MessagesIn(w))
<1>1. IsFiniteSet(DOMAIN w)
  <2>1. Len(w) \in Nat /\ DOMAIN w = 1..Len(w)
    OBVIOUS
  <2>2. IsFiniteSet(1..Len(w))
    BY <2>1, FS_Interval
  <2>3. QED
    BY <2>1, <2>2
<1> DEFINE E == {j \in DOMAIN w : IsEvent(w[j])}
           id == [i \in DOMAIN w |-> w[i].msg]
           D == DOMAIN Aggregate(w)
           record == [m \in D |-> Message(w, m)]
<1>2. IsFiniteSet(E)
  BY <1>1, Fewer
<1>3. D = {id[i] : i \in E}
  BY DEF Aggregate
<1>4. IsFiniteSet(D)
  <2> HIDE DEF D, E, id
  <2> QED BY <1>2, <1>3, Images
<1>5. MessagesIn(w) = {record[m] : m \in D}
  BY DEF MessagesIn
<1>6. QED
  <2> HIDE DEF D, record
  <2> QED BY <1>4, <1>5, Images

LEMMA MessageIs ==
  ASSUME NEW w, NEW m
  PROVE  Message(w, m).msg = m /\ Message(w, m).status = Aggregate(w)[m]
BY DEF Message

-----------------------------------------------------------------------------
(* The score.                                                              *)

\* What is lost of 100 T points.
Lost(T, cap, perPercent, n) ==
  IF cap * T < perPercent * 100 * n THEN cap * T ELSE perPercent * 100 * n

LEMMA Division ==
  ASSUME NEW T \in Nat \ {0}, NEW a \in Int
  PROVE  a \div T \in Int /\ T * (a \div T) <= a /\ a < T * (a \div T) + T
BY SMT

LEMMA DivisionGrows ==
  ASSUME NEW T \in Nat \ {0}, NEW a \in Int, NEW b \in Int, a <= b
  PROVE  a \div T <= b \div T
<1>1. /\ a \div T \in Int /\ T * (a \div T) <= a
      /\ b \div T \in Int /\ b < T * (b \div T) + T
  BY Division
<1>2. CASE b \div T < a \div T
  <2>1. T * (b \div T) + T <= T * (a \div T)
    BY <1>1, <1>2, Times
  <2>2. T * (b \div T) \in Int /\ T * (a \div T) \in Int
    BY <1>1
  <2>3. QED
    BY <1>1, <2>1, <2>2
<1>3. QED
  BY <1>1, <1>2

LEMMA LostIs ==
  ASSUME NEW T \in Nat \ {0}, NEW n \in Nat, NEW cap \in {10, 30, 50}, NEW per \in {1, 5, 30}
  PROVE  /\ Lost(T, cap, per, n) \in Nat /\ Lost(T, cap, per, n) <= cap * T
         /\ Lost(T, cap, per, n) = 0 <=> n = 0
BY DEF Lost

LEMMA ScoreIs ==
  ASSUME NEW T \in Nat, NEW b \in Nat, NEW d \in Nat, NEW c \in Nat
  PROVE  /\ T # 0 => (Score(T, b, d, 0) = 100 <=> b = 0 /\ d = 0)
         /\ 10 <= Score(T, b, d, c) /\ Score(T, b, d, c) <= Score(T, b, d, 0)
<1>1. CASE T = 0
  BY <1>1 DEF Score
<1>2. CASE T # 0
  <2> DEFINE x == Lost(T, 50, 5, b)
             y == Lost(T, 10, 1, d)
             z == Lost(T, 30, 30, c)
  <2>1. /\ x \in Nat /\ x <= 50 * T /\ (x = 0 <=> b = 0)
        /\ y \in Nat /\ y <= 10 * T /\ (y = 0 <=> d = 0)
        /\ z \in Nat /\ z <= 30 * T
    <3> HIDE DEF x, y, z
    <3>1. x \in Nat /\ x <= 50 * T /\ (x = 0 <=> b = 0)
      BY <1>2, LostIs DEF x
    <3>2. y \in Nat /\ y <= 10 * T /\ (y = 0 <=> d = 0)
      BY <1>2, LostIs DEF y
    <3>3. z \in Nat /\ z <= 30 * T
      BY <1>2, LostIs DEF z
    <3>4. QED
      BY <3>1, <3>2, <3>3
  <2>2. Lost(T, 30, 30, 0) = 0
    BY <1>2, LostIs
  <2>3. Score(T, b, d, c) = (100 * T - x - z - y) \div T
    BY <1>2 DEF Score, Lost
  <2>4. Score(T, b, d, 0) = (100 * T - x - 0 - y) \div T
    BY <1>2, <2>2 DEF Score, Lost
  <2> HIDE DEF x, y, z
  <2>5. \A n \in Nat : (T * n) \div T = n
    <3>1. ASSUME NEW n \in Nat PROVE (T * n) \div T = n
      <4>1. T * n \in Int
        OBVIOUS
      <4> DEFINE q == (T * n) \div T
      <4>2. q \in Int /\ T * q <= T * n /\ T * n < T * q + T
        BY <1>2, <4>1, Division
      <4> HIDE DEF q
      <4>3. CASE n < q
        <5>1. T * n + T <= T * q
          BY <4>2, <4>3, Times
        <5>2. QED
          BY <1>2, <4>1, <4>2, <5>1
      <4>4. CASE q < n
        <5>1. T * q + T <= T * n
          BY <4>2, <4>4, Times
        <5>2. T * q \in Int
          BY <4>2
        <5>3. QED
          BY <4>1, <4>2, <5>1, <5>2
      <4>5. QED
        BY <4>2, <4>3, <4>4 DEF q
    <3>2. QED
      BY <3>1
  <2>6. (T * 100) \div T = 100 /\ (T * 10) \div T = 10
    BY <2>5
  <2>7. Score(T, b, d, 0) = 100 <=> x = 0 /\ y = 0
    <3>1. CASE x = 0 /\ y = 0
      <4>1. 100 * T - x - 0 - y = T * 100
        BY <3>1
      <4>2. QED
        BY <2>4, <2>6, <3>1, <4>1
    <3>2. CASE ~(x = 0 /\ y = 0)
      <4>1. 100 * T - x - 0 - y < T * 100 /\ 100 * T - x - 0 - y \in Int
        BY <2>1, <3>2
      <4>2. T * ((100 * T - x - 0 - y) \div T) <= 100 * T - x - 0 - y
        BY <1>2, <4>1, Division
      <4>3. Score(T, b, d, 0) # 100
        BY <2>4, <4>1, <4>2
      <4>4. QED
        BY <3>2, <4>3
    <3>3. QED
      BY <3>1, <3>2
  <2>8. 10 <= Score(T, b, d, c)
    <3>1. T * 10 <= 100 * T - x - z - y /\ T * 10 \in Int /\ 100 * T - x - z - y \in Int
      BY <2>1
    <3>2. QED
      BY <1>2, <2>3, <2>6, <3>1, DivisionGrows
  <2>9. Score(T, b, d, c) <= Score(T, b, d, 0)
    <3>1. /\ 100 * T - x - z - y <= 100 * T - x - 0 - y
          /\ 100 * T - x - z - y \in Int /\ 100 * T - x - 0 - y \in Int
      BY <2>1
    <3>2. QED
      BY <1>2, <2>3, <2>4, <3>1, DivisionGrows
  <2>10. QED
    BY <2>1, <2>7, <2>8, <2>9
<1>3. QED
  BY <1>1, <1>2

-----------------------------------------------------------------------------
(* What the log tells.                                                     *)

\* A message arrives once, before all else, and is completed once, after all
\* else; its lines bear its addresses.
Recorded ==
  /\ start \in 0..Len(log)
  /\ CompletedLast(log)
  /\ \A i \in DOMAIN log :
       /\ log[i].at <= now
       /\ log[i].addr = IF log[i].sym = "<=" THEN SenderOf[log[i].msg] ELSE RecipientOf[log[i].msg]
  /\ \A i, j \in DOMAIN log :
       log[i].msg = log[j].msg /\ log[j].sym = "<=" /\ i # j => j < i /\ log[i].sym # "<="

LEMMA RecordedOn ==
  ASSUME IInv, Recorded, NEW m \in Msgs, NEW sym \in Symbols, LogEvent(m, sym) PROVE Recorded'
<1> DEFINE line == [msg |-> m, sym |-> sym, at |-> now,
                    addr |-> IF sym = "<=" THEN SenderOf[m] ELSE RecipientOf[m]]
           told == SymbolsOf(log, m)
           N == Len(log)
<1>1. log' = Append(log, line) /\ start' = start /\ now' = now
  BY DEF LogEvent
<1>2. /\ line.msg = m /\ line.sym = sym /\ line.at = now
      /\ line.addr = IF sym = "<=" THEN SenderOf[m] ELSE RecipientOf[m]
  OBVIOUS
<1>3. log \in Seq(LineType) /\ now \in Nat
  BY DEF IInv, Typed
<1>4. /\ sym = "<=" => told = {}
      /\ sym # "<=" => "<=" \in told /\ "Completed" \notin told
  BY DEF LogEvent, CanLog
<1> HIDE DEF line
<1>5. /\ N \in Nat /\ DOMAIN log = 1..N /\ Len(log') = N + 1 /\ DOMAIN log' = 1..(N + 1)
      /\ log'[N + 1] = line /\ \A i \in 1..N : log'[i] = log[i]
  BY <1>1, <1>3
<1>6. \A i \in DOMAIN log : log[i].msg = m => log[i].sym \in told
  BY DEF SymbolsOf
<1> HIDE DEF told, N
<1>7. ASSUME NEW i \in DOMAIN log'
      PROVE  \/ i \in DOMAIN log /\ i < N + 1 /\ log'[i] = log[i]
             \/ i = N + 1 /\ log'[i] = line
  BY <1>5
<1>8. start' \in 0..Len(log')
  BY <1>1, <1>5 DEF Recorded, N
<1>9. CompletedLast(log)'
  <2> SUFFICES ASSUME NEW i \in DOMAIN log', NEW j \in DOMAIN log', log'[i].sym = "Completed", i < j
               PROVE  log'[i].msg # log'[j].msg
    BY DEF CompletedLast
  <2>1. i \in DOMAIN log /\ log'[i] = log[i]
    BY <1>5, <1>7
  <2>2. CASE j \in DOMAIN log /\ log'[j] = log[j]
    BY <2>1, <2>2 DEF Recorded, CompletedLast
  <2>3. CASE log'[j] = line
    BY <1>2, <1>4, <1>6, <2>1, <2>3
  <2>4. QED
    BY <1>7, <2>2, <2>3
<1>10. ASSUME NEW i \in DOMAIN log'
       PROVE  /\ log'[i].at <= now'
              /\ log'[i].addr = IF log'[i].sym = "<=" THEN SenderOf[log'[i].msg]
                                ELSE RecipientOf[log'[i].msg]
  <2>1. CASE i \in DOMAIN log /\ log'[i] = log[i]
    BY <1>1, <2>1 DEF Recorded
  <2>2. CASE log'[i] = line
    BY <1>1, <1>2, <1>3, <2>2
  <2>3. QED
    BY <1>7, <2>1, <2>2
<1>11. ASSUME NEW i \in DOMAIN log', NEW j \in DOMAIN log',
              log'[i].msg = log'[j].msg, log'[j].sym = "<=", i # j
       PROVE  j < i /\ log'[i].sym # "<="
  <2>1. CASE j = N + 1 /\ log'[j] = line
    <3>1. i \in DOMAIN log /\ log[i].msg = m
      BY <1>2, <1>7, <1>11, <2>1
    <3>2. QED
      BY <1>2, <1>4, <1>6, <1>11, <2>1, <3>1
  <2>2. CASE j \in DOMAIN log /\ j < N + 1 /\ log'[j] = log[j]
    <3>1. CASE i = N + 1 /\ log'[i] = line
      <4>1. log[j].msg = m
        BY <1>2, <1>11, <2>2, <3>1
      <4>2. told # {}
        BY <1>6, <2>2, <4>1
      <4>3. QED
        BY <1>2, <1>4, <2>2, <3>1, <4>2
    <3>2. CASE i \in DOMAIN log /\ log'[i] = log[i]
      BY <1>11, <2>2, <3>2 DEF Recorded
    <3>3. QED
      BY <1>7, <3>1, <3>2
  <2>3. QED
    BY <1>7, <2>1, <2>2
<1>12. QED
  BY <1>8, <1>9, <1>10, <1>11 DEF Recorded

LEMMA RecordedHolds == Spec => []Recorded
<1>1. Init => Recorded
  BY DEF Init, Recorded, CompletedLast
<1>2. ASSUME IInv, Recorded, [Next]_vars PROVE Recorded'
  <2>1. ASSUME NEW e \in Events, LogEvent(e[1], e[2]) PROVE Recorded'
    <3>1. e[1] \in Msgs /\ e[2] \in Symbols
      OBVIOUS
    <3>2. QED
      BY <1>2, <2>1, <3>1, RecordedOn
  <2>2. CASE log' = log /\ (start' = start \/ start' = Len(log)) /\ now <= now' /\ now' \in Nat
    <3>1. \A i \in DOMAIN log : log[i].at \in Nat
      <4>1. log \in Seq(LineType)
        BY <1>2 DEF IInv, Typed
      <4>2. \A i \in DOMAIN log : log[i] \in LineType
        BY <4>1
      <4>3. QED
        BY <4>2 DEF LineType
    <3>2. now \in Nat /\ Len(log) \in Nat
      BY <1>2 DEF IInv, Typed
    <3>3. start' \in 0..Len(log)
      BY <1>2, <2>2, <3>2 DEF Recorded
    <3>4. ASSUME NEW i \in DOMAIN log PROVE log[i].at <= now'
      <4>1. log[i].at <= now
        BY <1>2 DEF Recorded
      <4>2. now <= now' /\ now' \in Nat
        BY <2>2
      <4>3. QED
        BY <3>1, <3>2, <4>1, <4>2
    <3>5. CompletedLast(log)'
      BY <1>2, <2>2 DEF Recorded, CompletedLast
    <3>6. start' \in 0..Len(log') /\ \A i \in DOMAIN log' : log'[i].at <= now'
      BY <2>2, <3>3, <3>4
    <3>7. QED
      BY <1>2, <2>2, <3>5, <3>6 DEF Recorded
  <2>3. CASE Rotate \/ Tick
    BY <1>2, <2>2, <2>3 DEF Rotate, Tick, mainlog, IInv, Typed
  <2>4. CASE UNCHANGED <<now, log, start>>
    BY <1>2, <2>2, <2>4 DEF IInv, Typed
  <2>5. QED
    BY <1>2, <2>1, <2>3, <2>4 DEF Next, CurrentHit, CurrentFetches, CurrentStores, SnapshotFetches,
         Insert, Commit, Prune, CommitPrune, Answer, Fail, Crash, Shutdown, vars, mainlog
<1>3. QED
  BY <1>1, <1>2, IInvHolds, PTL DEF Spec

LEMMA ShownIs ==
  ASSUME IInv, Recorded
  PROVE  Shown \in Seq(LineType) /\ IsTail(Shown, log) /\ CompletedLast(Shown)
<1> DEFINE file == SubSeq(log, start + 1, Len(log))
<1>1. log \in Seq(LineType) /\ start \in Nat /\ start <= Len(log) /\ CompletedLast(log)
  BY DEF IInv, Typed, Recorded
<1>2. file \in Seq(LineType) /\ IsTail(file, log)
  BY <1>1, SubSeqIsTail
<1>3. Shown \in Seq(LineType) /\ IsTail(Shown, file)
  BY <1>2, LastLinesIsTail DEF Shown
<1> HIDE DEF file
<1>4. IsTail(Shown, log)
  BY <1>1, <1>2, <1>3, TailOfTail
<1>5. QED
  BY <1>1, <1>3, <1>4, TailCompleted

\* The score is perfect exactly when it should be, whatever the log and however
\* many complaints (services/reputation.py:58-75 and 82-113).
THEOREM PerfectScoreIsEarnedHolds == Spec => []PerfectScoreIsEarned
<1> DEFINE msgs == MessagesIn(Shown)
           recent == InWindow(msgs, now, ScoreDays)
           T == Cardinality(recent)
           bounced == {m \in recent : m.status = "bounced"}
           deferred == {m \in recent : m.status = "deferred"}
           told(m) == SymbolsOf(Shown, m.msg)
           perfect == \A m \in recent : "**" \notin told(m) /\ ("==" \in told(m) => "=>" \in told(m))
<1>1. ASSUME IInv, Recorded PROVE PerfectScoreIsEarned
  <2>1. Shown \in Seq(LineType) /\ CompletedLast(Shown)
    BY <1>1, ShownIs
  <2>2. IsFiniteSet(recent)
    <3>1. recent \subseteq msgs
      BY DEF InWindow
    <3>2. QED
      BY <2>1, <3>1, FinitelyMany, Fewer
  <2>3. \A m \in recent : m.status = Gravest(told(m))
    <3>1. ASSUME NEW m \in DOMAIN Aggregate(Shown)
          PROVE  Message(Shown, m).status = Gravest(SymbolsOf(Shown, Message(Shown, m).msg))
      <4>1. Message(Shown, m).msg = m /\ Message(Shown, m).status = StatusOf(Shown, m)
        BY <3>1, MessageIs DEF Aggregate
      <4>2. QED
        BY <2>1, <4>1, StatusIsGravest
    <3>2. QED
      BY <3>1 DEF InWindow, MessagesIn
  <2> HIDE DEF recent, msgs
  <2>4. /\ T \in Nat /\ (T = 0 <=> recent = {})
        /\ Cardinality(bounced) \in Nat /\ (Cardinality(bounced) = 0 <=> bounced = {})
        /\ Cardinality(deferred) \in Nat /\ (Cardinality(deferred) = 0 <=> deferred = {})
    BY <2>2, Fewer
  <2>5. perfect <=> bounced = {} /\ deferred = {}
    BY <2>3 DEF Gravest
  <2> HIDE DEF T, bounced, deferred, perfect
  <2>6. \A c : ScoreOf(msgs, now, ScoreDays, c)
                 = Score(T, Cardinality(bounced), Cardinality(deferred), c)
    BY DEF ScoreOf, With, T, bounced, deferred, recent
  <2>7. T = 0 => perfect
    BY <2>4 DEF perfect
  <2>8. ScoreOf(msgs, now, ScoreDays, 0) = 100 <=> perfect
    <3>1. CASE T = 0
      BY <2>6, <2>7, <3>1 DEF Score
    <3>2. CASE T # 0
      BY <2>4, <2>5, <2>6, <3>2, ScoreIs
    <3>3. QED
      BY <3>1, <3>2
  <2>9. ASSUME NEW c \in 0..1
        PROVE  /\ 10 <= ScoreOf(msgs, now, ScoreDays, c)
               /\ ScoreOf(msgs, now, ScoreDays, c) <= ScoreOf(msgs, now, ScoreDays, 0)
    BY <2>4, <2>6, ScoreIs
  <2>10. QED
    BY <2>8, <2>9 DEF PerfectScoreIsEarned, msgs, recent, perfect
<1>2. QED
  BY <1>1, IInvHolds, RecordedHolds, PTL

-----------------------------------------------------------------------------
(* The reports.                                                            *)

Arrives(m, i) == i \in DOMAIN log /\ log[i].msg = m /\ log[i].sym = "<="
Cut == Len(log) - Len(Shown)

\* The tail, line by line.
LEMMA ShownLines ==
  ASSUME IInv, Recorded
  PROVE  /\ Cut \in Nat /\ Len(Shown) \in Nat /\ DOMAIN Shown = 1..Len(Shown)
         /\ \A k \in DOMAIN Shown : Cut + k \in DOMAIN log /\ Shown[k] = log[Cut + k]
         /\ \A i \in DOMAIN log : i > Cut => i - Cut \in DOMAIN Shown /\ Shown[i - Cut] = log[i]
         /\ \A i \in DOMAIN log : /\ i \in Nat /\ log[i].msg \in Msgs /\ log[i].at \in Nat
                                  /\ log[i].sym \in Symbols
<1>1. log \in Seq(LineType) /\ Shown \in Seq(LineType) /\ IsTail(Shown, log)
  BY ShownIs DEF IInv, Typed
<1>2. Len(log) \in Nat /\ Len(Shown) \in Nat /\ Len(Shown) <= Len(log)
  BY <1>1 DEF IsTail
<1>3. DOMAIN log = 1..Len(log) /\ DOMAIN Shown = 1..Len(Shown)
  BY <1>1
<1>4. ASSUME NEW k \in DOMAIN Shown PROVE Cut + k \in DOMAIN log /\ Shown[k] = log[Cut + k]
  BY <1>1, <1>2, <1>3 DEF IsTail, Cut
<1>5. ASSUME NEW i \in DOMAIN log, i > Cut
      PROVE  i - Cut \in DOMAIN Shown /\ Shown[i - Cut] = log[i]
  <2>1. i - Cut \in DOMAIN Shown /\ Cut + (i - Cut) = i
    BY <1>2, <1>3, <1>5 DEF Cut
  <2>2. QED
    BY <1>4, <2>1
<1>6. \A i \in DOMAIN log : i \in Nat /\ log[i] \in LineType
  BY <1>1, <1>3
<1>7. Cut \in Nat
  BY <1>2 DEF Cut
<1>8. QED
  BY <1>2, <1>3, <1>4, <1>5, <1>6, <1>7 DEF LineType

\* What is told of a message whose arrival is in the tail.
LEMMA WholeMessage ==
  ASSUME IInv, Recorded, NEW m, NEW i, Arrives(m, i), i > Cut
  PROVE  /\ m \in DOMAIN Aggregate(Shown)
         /\ Message(Shown, m).msg = m /\ Message(Shown, m).from = SenderOf[m]
         /\ Message(Shown, m).at = log[i].at
         /\ Message(Shown, m).status = Gravest(SymbolsOf(log, m))
         /\ Message(Shown, m).direction = IF SenderOf[m].domain \in LocalDomains THEN "out" ELSE "in"
<1> DEFINE k == i - Cut
           mine == {j \in DOMAIN Shown : Shown[j].msg = m /\ IsEvent(Shown[j])}
           arrivals == {j \in mine : Shown[j].sym = "<="}
<1>1. /\ k \in DOMAIN Shown /\ Shown[k] = log[i] /\ k \in Nat /\ i = Cut + k /\ i \in DOMAIN log
      /\ log[i].msg = m /\ log[i].sym = "<=" /\ Cut \in Nat
  <2>1. i \in DOMAIN log /\ log[i].msg = m /\ log[i].sym = "<="
    BY DEF Arrives
  <2>2. Cut \in Nat /\ i \in Nat /\ k \in DOMAIN Shown /\ Shown[k] = log[i]
    BY <2>1, ShownLines
  <2>3. k \in Nat /\ i = Cut + k
    BY <2>2
  <2>4. QED
    BY <2>1, <2>2, <2>3
<1>2. \A j \in DOMAIN log : log[j].msg = m /\ j # i => i < j /\ log[j].sym # "<="
  BY <1>1 DEF Recorded
<1>3. \A j \in DOMAIN Shown : j \in Nat /\ Cut + j \in DOMAIN log /\ Shown[j] = log[Cut + j]
  BY ShownLines
<1> HIDE DEF k
<1>4. arrivals = {k}
  <2>1. k \in arrivals
    BY <1>1 DEF IsEvent, Symbols
  <2>2. ASSUME NEW j \in arrivals PROVE j = k
    <3>1. Shown[j] = log[Cut + j] /\ Cut + j \in DOMAIN log /\ j \in Nat
      BY <1>3
    <3>2. Cut + j = i
      BY <1>2, <3>1
    <3>3. QED
      BY <1>1, <3>1, <3>2
  <2>3. QED
    BY <2>1, <2>2
<1>5. Max(arrivals) = k
  <2>1. k >= k
    BY <1>1
  <2>2. QED
    BY <1>4, <2>1 DEF Max
<1>6. Message(Shown, m).from = log[i].addr /\ Message(Shown, m).at = log[i].at
  <2> HIDE DEF k
  <2>1. arrivals # {}
    BY <1>4
  <2> HIDE DEF arrivals
  <2>2. Message(Shown, m).from = Shown[Max(arrivals)].addr
    BY <2>1 DEF Message, arrivals, mine
  <2>3. Message(Shown, m).at = Shown[Max(arrivals)].at
    BY <2>1 DEF Message, arrivals, mine
  <2>4. QED
    BY <1>1, <1>5, <2>2, <2>3
<1>7. log[i].addr = SenderOf[m]
  BY <1>1 DEF Recorded
<1>8. Message(Shown, m).direction
        = IF Message(Shown, m).from.domain \in LocalDomains THEN "out" ELSE "in"
  BY DEF Message
<1>9. SymbolsOf(Shown, m) = SymbolsOf(log, m)
  <2>1. ASSUME NEW j \in DOMAIN log, log[j].msg = m
        PROVE  j - Cut \in DOMAIN Shown /\ Shown[j - Cut] = log[j]
    <3>1. j \in Nat
      BY ShownLines
    <3>2. j > Cut
      BY <1>1, <1>2, <2>1, <3>1
    <3>3. QED
      BY <3>2, ShownLines
  <2>2. QED
    BY <1>3, <2>1 DEF SymbolsOf
<1>10. m \in DOMAIN Aggregate(Shown)
  BY <1>1 DEF Aggregate, IsEvent, Symbols
<1>11. Message(Shown, m).status = Gravest(SymbolsOf(log, m))
  <2>1. Message(Shown, m).status = StatusOf(Shown, m)
    BY <1>10, MessageIs DEF Aggregate
  <2>2. StatusOf(Shown, m) = Gravest(SymbolsOf(Shown, m))
    BY ShownIs, StatusIsGravest
  <2>3. QED
    BY <1>9, <2>1, <2>2
<1>12. QED
  BY <1>6, <1>7, <1>8, <1>10, <1>11, MessageIs

\* One whose arrival is cut off has no sender, and counts as incoming.
LEMMA CutMessage ==
  ASSUME IInv, Recorded, NEW m, \A i : Arrives(m, i) => ~(i > Cut)
  PROVE  Message(Shown, m).from = NoAddress /\ Message(Shown, m).direction = "in"
<1> DEFINE mine == {j \in DOMAIN Shown : Shown[j].msg = m /\ IsEvent(Shown[j])}
           arrivals == {j \in mine : Shown[j].sym = "<="}
<1>1. arrivals = {}
  <2>1. ASSUME NEW j \in arrivals PROVE FALSE
    <3>1. Cut + j \in DOMAIN log /\ Shown[j] = log[Cut + j] /\ Cut \in Nat /\ j \in Nat /\ j > 0
      BY ShownLines
    <3>2. Arrives(m, Cut + j) /\ Cut + j > Cut
      BY <3>1 DEF Arrives
    <3>3. QED
      BY <3>2
  <2>2. QED
    BY <2>1
<1> HIDE DEF arrivals
<1>2. Message(Shown, m).from = NoAddress
  BY <1>1 DEF Message, arrivals, mine
<1>3. Message(Shown, m).direction
        = IF Message(Shown, m).from.domain \in LocalDomains THEN "out" ELSE "in"
  BY DEF Message
<1>4. QED
  BY <1>2, <1>3

\* A day that the tail covers.
LEMMA ArrivedOn ==
  ASSUME IInv, Recorded, NEW m, NEW d \in Int, NEW dom
  PROVE  m \in SentOn(d, dom) <=>
           SenderOf[m].domain = dom /\ \E i : Arrives(m, i) /\ DayOf(log[i].at) = d
<1>1. \A i : Arrives(m, i) => log[i].addr = SenderOf[m] /\ m \in Msgs
  BY ShownLines DEF Arrives, Recorded
<1>2. QED
  BY <1>1 DEF SentOn, Arrives

LEMMA CoveredArrival ==
  ASSUME IInv, Recorded, NEW d \in Int, Covers(d), NEW m, NEW i, Arrives(m, i), DayOf(log[i].at) >= d
  PROVE  i > Cut
<1>1. i \in DOMAIN log /\ i \in Nat /\ Cut \in Nat /\ log[i].at \in Nat
  BY ShownLines DEF Arrives
<1>2. DayOf(log[i].at) \in Int
  BY <1>1, DayIs
<1>3. ~(i <= Cut)
  BY <1>1, <1>2 DEF Covers, Cut
<1>4. QED
  BY <1>1, <1>3

\* The outgoing messages of a day are the ones that were sent on it.
LEMMA OutgoingIsSent ==
  ASSUME IInv, Recorded, NEW d \in Int, Covers(d)
  PROVE  /\ Outgoing(MessagesIn(Shown), d) = {Message(Shown, m) : m \in Sent(d)}
         /\ \A m \in Sent(d) : /\ m \in Msgs /\ Message(Shown, m).from = SenderOf[m]
                               /\ Message(Shown, m).status = Gravest(SymbolsOf(log, m))
<1>1. ASSUME NEW m \in Sent(d)
      PROVE  /\ Message(Shown, m) \in Outgoing(MessagesIn(Shown), d)
             /\ m \in Msgs /\ Message(Shown, m).from = SenderOf[m]
             /\ Message(Shown, m).status = Gravest(SymbolsOf(log, m))
  <2>1. PICK dom \in LocalDomains : m \in SentOn(d, dom)
    BY <1>1 DEF Sent
  <2>2. SenderOf[m].domain \in LocalDomains /\ m \in Msgs
    BY <2>1, ArrivedOn DEF SentOn
  <2>3. PICK i : Arrives(m, i) /\ DayOf(log[i].at) = d
    BY <2>1, ArrivedOn
  <2>4. i > Cut
    BY <2>3, CoveredArrival
  <2>5. /\ m \in DOMAIN Aggregate(Shown)
        /\ Message(Shown, m).from = SenderOf[m] /\ Message(Shown, m).at = log[i].at
        /\ Message(Shown, m).status = Gravest(SymbolsOf(log, m))
        /\ Message(Shown, m).direction = "out"
    BY <2>2, <2>3, <2>4, WholeMessage
  <2>6. QED
    BY <2>2, <2>3, <2>5 DEF Outgoing, MessagesIn
<1>2. ASSUME NEW r \in Outgoing(MessagesIn(Shown), d) PROVE \E m \in Sent(d) : r = Message(Shown, m)
  <2>1. PICK m \in DOMAIN Aggregate(Shown) : r = Message(Shown, m)
    BY <1>2 DEF Outgoing, MessagesIn
  <2>2. DayOf(r.at) = d /\ r.direction = "out"
    BY <1>2 DEF Outgoing
  <2>3. PICK i : Arrives(m, i) /\ i > Cut
    BY <2>1, <2>2, CutMessage
  <2>4. r.at = log[i].at /\ SenderOf[m].domain \in LocalDomains
    BY <2>1, <2>2, <2>3, WholeMessage
  <2>5. m \in SentOn(d, SenderOf[m].domain)
    BY <2>2, <2>3, <2>4, ArrivedOn
  <2>6. QED
    BY <2>1, <2>4, <2>5 DEF Sent
<1>3. QED
  BY <1>1, <1>2

\* The messages of a set are as many records.
LEMMA Records ==
  ASSUME NEW S, IsFiniteSet(S), NEW w
  PROVE  Cardinality({Message(w, m) : m \in S}) = Cardinality(S)
<1> DEFINE f == [m \in S |-> Message(w, m)]
<1>1. {Message(w, m) : m \in S} = {f[m] : m \in S}
  OBVIOUS
<1>2. \A m, n \in S : f[m] = f[n] => m = n
  BY MessageIs
<1> HIDE DEF f
<1>3. QED
  BY <1>1, <1>2, Images

\* Only finitely many messages were logged.
LEMMA LoggedAreFinite ==
  ASSUME IInv, NEW S, \A m \in S : \E i \in DOMAIN log : log[i].msg = m
  PROVE  IsFiniteSet(S)
<1> DEFINE id == [i \in DOMAIN log |-> log[i].msg]
           D == DOMAIN log
<1>1. IsFiniteSet(D)
  <2>1. log \in Seq(LineType)
    BY DEF IInv, Typed
  <2>2. Len(log) \in Nat /\ D = 1..Len(log)
    BY <2>1
  <2>3. IsFiniteSet(1..Len(log))
    BY <2>2, FS_Interval
  <2>4. QED
    BY <2>2, <2>3
<1>2. S \subseteq {id[i] : i \in D}
  OBVIOUS
<1> HIDE DEF id, D
<1>3. IsFiniteSet({id[i] : i \in D})
  BY <1>1, Images
<1>4. QED
  BY <1>2, <1>3, Fewer

LEMMA SentAreFinite ==
  ASSUME IInv, NEW d, NEW S \in SUBSET Sent(d)
  PROVE  IsFiniteSet(S)
BY LoggedAreFinite DEF Sent, SentOn

\* Of the outgoing messages of a day, those that a test of their records picks
\* are as many as the messages sent that it picks.
LEMMA Picked ==
  ASSUME IInv, Recorded, NEW d \in Int, Covers(d), NEW R, NEW S \in SUBSET Sent(d),
         \A r \in R : r \in Outgoing(MessagesIn(Shown), d),
         \A m \in Sent(d) : Message(Shown, m) \in R <=> m \in S
  PROVE  Cardinality(R) = Cardinality(S)
<1>1. R = {Message(Shown, m) : m \in S}
  BY OutgoingIsSent
<1>2. QED
  BY <1>1, SentAreFinite, Records

\* What the records of a day's outgoing messages say of them.
LEMMA Outcomes ==
  ASSUME IInv, Recorded, NEW d \in Int, Covers(d)
  PROVE  Counts(Outgoing(MessagesIn(Shown), d)) =
           [sent |-> Cardinality(Sent(d)),
            delivered |-> Cardinality({m \in Sent(d) : Delivered(m) \/ RemovedUntried(m)}),
            deferred |-> Cardinality({m \in Sent(d) : Deferred(m)}),
            bounced |-> Cardinality({m \in Sent(d) : Bounced(m)})]
<1> DEFINE out == Outgoing(MessagesIn(Shown), d)
<1>1. \A m \in Sent(d) : /\ Message(Shown, m) \in out
                         /\ Message(Shown, m).status = Gravest(SymbolsOf(log, m)) /\ m \in Msgs
  BY OutgoingIsSent
<1> HIDE DEF out
<1>2. ASSUME NEW m \in Sent(d)
      PROVE  /\ Message(Shown, m).status = "delivered" <=> Delivered(m) \/ RemovedUntried(m)
             /\ Message(Shown, m).status = "deferred" <=> Deferred(m)
             /\ Message(Shown, m).status = "bounced" <=> Bounced(m)
  BY <1>1, <1>2 DEF Gravest, Delivered, Deferred, Bounced, RemovedUntried
<1>3. Cardinality(out) = Cardinality(Sent(d))
  BY <1>1, Picked DEF out
<1>4. With(out, "delivered") = Cardinality({m \in Sent(d) : Delivered(m) \/ RemovedUntried(m)})
  <2>1. \A r \in {x \in out : x.status = "delivered"} : r \in out
    OBVIOUS
  <2>2. \A m \in Sent(d) : Message(Shown, m) \in {x \in out : x.status = "delivered"}
                             <=> m \in {n \in Sent(d) : Delivered(n) \/ RemovedUntried(n)}
    BY <1>1, <1>2
  <2>3. QED
    BY <2>1, <2>2, Picked DEF out, With
<1>5. With(out, "deferred") = Cardinality({m \in Sent(d) : Deferred(m)})
  <2>1. \A r \in {x \in out : x.status = "deferred"} : r \in out
    OBVIOUS
  <2>2. \A m \in Sent(d) : Message(Shown, m) \in {x \in out : x.status = "deferred"}
                             <=> m \in {n \in Sent(d) : Deferred(n)}
    BY <1>1, <1>2
  <2>3. QED
    BY <2>1, <2>2, Picked DEF out, With
<1>6. With(out, "bounced") = Cardinality({m \in Sent(d) : Bounced(m)})
  <2>1. \A r \in {x \in out : x.status = "bounced"} : r \in out
    OBVIOUS
  <2>2. \A m \in Sent(d) : Message(Shown, m) \in {x \in out : x.status = "bounced"}
                             <=> m \in {n \in Sent(d) : Bounced(n)}
    BY <1>1, <1>2
  <2>3. QED
    BY <2>1, <2>2, Picked DEF out, With
<1>7. QED
  BY <1>3, <1>4, <1>5, <1>6 DEF Counts, out

\* The share of a domain.
LEMMA ShareOfDomain ==
  ASSUME IInv, Recorded, NEW d \in Int, Covers(d), NEW dom \in LocalDomains
  PROVE  Cardinality({r \in Outgoing(MessagesIn(Shown), d) : r.from.domain = dom})
           = Cardinality(SentOn(d, dom))
<1> DEFINE out == Outgoing(MessagesIn(Shown), d)
           R == {r \in out : r.from.domain = dom}
<1>1. SentOn(d, dom) \in SUBSET Sent(d)
  BY DEF Sent
<1>2. \A m \in Sent(d) : Message(Shown, m) \in out /\ Message(Shown, m).from = SenderOf[m]
  BY OutgoingIsSent
<1>3. ASSUME NEW m \in Sent(d) PROVE SenderOf[m].domain = dom <=> m \in SentOn(d, dom)
  <2>1. PICK other \in LocalDomains : m \in SentOn(d, other)
    BY <1>3 DEF Sent
  <2>2. SenderOf[m].domain = other /\ \E i : Arrives(m, i) /\ DayOf(log[i].at) = d
    BY <2>1, ArrivedOn
  <2>3. QED
    BY <2>2, ArrivedOn
<1>4. \A m \in Sent(d) : Message(Shown, m) \in R <=> m \in SentOn(d, dom)
  BY <1>2, <1>3
<1>5. QED
  BY <1>1, <1>4, Picked

\* Every delivery to a domain is among the recipients of that day's incoming messages.
LEMMA DeliveriesCounted ==
  ASSUME IInv, Recorded, NEW d \in Int, Covers(d), NEW dom
  PROVE  DeliveredTo(MessagesIn(Shown), dom, d) >= Cardinality(ReceivedOn(d, dom))
<1> DEFINE msgs == MessagesIn(Shown)
           A == {r \in UNION {m.to : m \in Incoming(msgs, d)} : r.addr.domain = dom}
           line == [k \in DOMAIN Shown |-> [line |-> k, addr |-> Shown[k].addr]]
           K == DOMAIN Shown
           P == {k \in K : Cut + k \in ReceivedOn(d, dom)}
<1>1. /\ Cut \in Nat /\ Len(Shown) \in Nat /\ K = 1..Len(Shown)
      /\ \A k \in K : Cut + k \in DOMAIN log /\ Shown[k] = log[Cut + k] /\ k \in Nat
      /\ \A i \in DOMAIN log : i > Cut => i - Cut \in K /\ Shown[i - Cut] = log[i]
      /\ \A i \in DOMAIN log : i \in Nat
  <2>1. Len(Shown) \in Nat /\ K = 1..Len(Shown)
    BY ShownLines
  <2>2. \A k \in K : k \in Nat
    BY <2>1
  <2>3. QED
    BY <2>1, <2>2, ShownLines
<1>2. IsFiniteSet(K)
  <2>1. IsFiniteSet(1..Len(Shown))
    BY <1>1, FS_Interval
  <2>2. QED
    BY <1>1, <2>1
<1>3. IsFiniteSet({line[k] : k \in K})
  <2> HIDE DEF line, K
  <2> QED BY <1>2, Images
<1>4. \A m : Message(Shown, m).to =
        {line[k] : k \in {j \in K : /\ Shown[j].msg = m /\ IsEvent(Shown[j])
                                    /\ Shown[j].sym \in {"=>", "->"}}}
  BY DEF Message
<1>5. A \subseteq {line[k] : k \in K}
  <2>1. \A m \in Incoming(msgs, d) : m.to \subseteq {line[k] : k \in K}
    <3>1. \A m \in Incoming(msgs, d) : \E n : m = Message(Shown, n)
      BY DEF Incoming, MessagesIn
    <3> HIDE DEF line, K, msgs
    <3>2. QED
      BY <1>4, <3>1
  <2> HIDE DEF line, K, msgs
  <2>2. QED
    BY <2>1
<1>6. ASSUME NEW i \in ReceivedOn(d, dom)
      PROVE  i > Cut /\ i \in DOMAIN log /\ (i - Cut \in K => line[i - Cut] \in A)
  <2> DEFINE m == log[i].msg
             k == i - Cut
  <2>1. /\ i \in DOMAIN log /\ log[i].sym = "=>" /\ log[i].addr.domain = dom
        /\ SenderOf[m].domain \notin LocalDomains /\ m \in SentOn(d, SenderOf[m].domain)
    BY <1>6 DEF ReceivedOn
  <2> HIDE DEF m
  <2>2. PICK a : Arrives(m, a) /\ DayOf(log[a].at) = d
    BY <2>1, ArrivedOn
  <2>3. a > Cut
    BY <2>2, CoveredArrival
  <2>4. a < i
    <3>1. a \in DOMAIN log /\ log[a].msg = log[i].msg /\ log[a].sym = "<="
      BY <2>2 DEF Arrives, m
    <3>2. QED
      BY <2>1, <3>1 DEF Recorded
  <2>5. i > Cut
    <3>1. a \in Nat /\ i \in Nat /\ Cut \in Nat
      BY <1>1, <2>1, <2>2 DEF Arrives
    <3>2. QED
      BY <2>3, <2>4, <3>1
  <2>6. Message(Shown, m) \in Incoming(msgs, d)
    <3>1. /\ m \in DOMAIN Aggregate(Shown) /\ Message(Shown, m).at = log[a].at
          /\ Message(Shown, m).direction = "in"
      BY <2>1, <2>2, <2>3, WholeMessage
    <3>2. QED
      BY <2>2, <3>1 DEF Incoming, MessagesIn
  <2>7. k \in K /\ Shown[k] = log[i]
    BY <1>1, <2>1, <2>5
  <2> HIDE DEF k
  <2>8. line[k] \in Message(Shown, m).to
    BY <1>4, <2>1, <2>7 DEF IsEvent, Symbols, m
  <2>9. line[k].addr.domain = dom
    BY <2>1, <2>7
  <2> HIDE DEF line, K, msgs
  <2>10. line[k] \in A
    BY <2>6, <2>8, <2>9
  <2>11. QED
    BY <2>1, <2>5, <2>10 DEF k
<1>7. {line[k] : k \in P} \subseteq A
  <2>1. ASSUME NEW k \in P PROVE line[k] \in A
    <3>1. k \in K /\ Cut + k \in ReceivedOn(d, dom) /\ (Cut + k) - Cut = k
      BY <1>1
    <3> HIDE DEF line, A, K, P
    <3>2. QED
      BY <1>6, <3>1
  <2> HIDE DEF line, A, K, P
  <2>2. QED
    BY <2>1
<1>8. Cardinality({line[k] : k \in P}) = Cardinality(P)
  <2>1. \A k, l \in P : line[k] = line[l] => k = l
    OBVIOUS
  <2>2. IsFiniteSet(P)
    <3>1. P \in SUBSET K
      OBVIOUS
    <3> HIDE DEF P, K
    <3>2. QED
      BY <1>2, <3>1, Fewer
  <2> HIDE DEF line, P, K
  <2>3. QED
    BY <2>1, <2>2, Images
<1>9. Cardinality(ReceivedOn(d, dom)) = Cardinality(P)
  <2> DEFINE shift == [k \in P |-> Cut + k]
  <2>1. ReceivedOn(d, dom) = {shift[k] : k \in P}
    <3>1. ASSUME NEW i \in ReceivedOn(d, dom) PROVE i - Cut \in P /\ shift[i - Cut] = i
      <4>1. i > Cut /\ i \in DOMAIN log
        BY <1>6
      <4>2. i - Cut \in K /\ Cut + (i - Cut) = i
        BY <1>1, <4>1
      <4>3. QED
        BY <4>2
    <3>2. \A k \in P : shift[k] \in ReceivedOn(d, dom)
      OBVIOUS
    <3> HIDE DEF shift, P
    <3>3. QED
      BY <3>1, <3>2
  <2>2. \A k, l \in P : shift[k] = shift[l] => k = l
    BY <1>1
  <2>3. IsFiniteSet(P)
    <3>1. P \in SUBSET K
      OBVIOUS
    <3> HIDE DEF P, K
    <3>2. QED
      BY <1>2, <3>1, Fewer
  <2> HIDE DEF shift, P
  <2>4. QED
    BY <2>1, <2>2, <2>3, Images
<1>10. Cardinality({line[k] : k \in P}) <= Cardinality(A)
  <2> HIDE DEF line, A, P, K
  <2>1. IsFiniteSet(A)
    BY <1>3, <1>5, Fewer
  <2>2. QED
    BY <1>7, <2>1, Fewer
<1>11. Cardinality(A) \in Nat /\ Cardinality(P) \in Nat
  <2> HIDE DEF line, A, K
  <2>1. IsFiniteSet(A)
    BY <1>3, <1>5, Fewer
  <2>2. P \in SUBSET K
    OBVIOUS
  <2>3. QED
    BY <1>2, <2>1, <2>2, Fewer
<1>12. DeliveredTo(msgs, dom, d) = Cardinality(A)
  BY DEF DeliveredTo
<1>13. QED
  BY <1>8, <1>9, <1>10, <1>11, <1>12

\* What a mailbox has sent since a day that the tail covers.
LEMMA CreditedToMailbox ==
  ASSUME IInv, Recorded, NEW d \in Int, Covers(d), NEW m \in Msgs
  PROVE  Cardinality({r \in {x \in MessagesIn(Shown) : DayOf(x.at) >= d} : r.from = SenderOf[m]}) =
           Cardinality({n \in Msgs : /\ SenderOf[n] = SenderOf[m]
                                     /\ \E e \in d .. DayOf(now) : n \in SentOn(e, SenderOf[m].domain)})
<1> DEFINE R == {r \in {x \in MessagesIn(Shown) : DayOf(x.at) >= d} : r.from = SenderOf[m]}
           Q == {n \in Msgs : /\ SenderOf[n] = SenderOf[m]
                              /\ \E e \in d .. DayOf(now) : n \in SentOn(e, SenderOf[m].domain)}
<1>1. ASSUME NEW n \in Q PROVE Message(Shown, n) \in R
  <2>1. PICK e \in d .. DayOf(now) : n \in SentOn(e, SenderOf[m].domain)
    OBVIOUS
  <2>2. e \in Int /\ e >= d /\ SenderOf[n] = SenderOf[m]
    BY <2>1, DayIs DEF IInv, Typed
  <2>3. PICK i : Arrives(n, i) /\ DayOf(log[i].at) = e
    BY <2>1, <2>2, ArrivedOn
  <2>4. i > Cut
    BY <2>2, <2>3, CoveredArrival
  <2>5. /\ n \in DOMAIN Aggregate(Shown) /\ Message(Shown, n).from = SenderOf[n]
        /\ Message(Shown, n).at = log[i].at
    BY <2>3, <2>4, WholeMessage
  <2>6. QED
    BY <2>2, <2>3, <2>5 DEF MessagesIn
<1>2. ASSUME NEW r \in R PROVE \E n \in Q : r = Message(Shown, n)
  <2>1. PICK n \in DOMAIN Aggregate(Shown) : r = Message(Shown, n)
    BY DEF MessagesIn
  <2>2. DayOf(r.at) >= d /\ r.from = SenderOf[m]
    OBVIOUS
  <2>3. PICK i : Arrives(n, i) /\ i > Cut
    <3>1. r.from # NoAddress
      BY <2>2
    <3>2. QED
      BY <2>1, <3>1, CutMessage
  <2>4. r.at = log[i].at /\ SenderOf[n] = SenderOf[m]
    BY <2>1, <2>2, <2>3, WholeMessage
  <2>5. i \in DOMAIN log /\ log[i].at \in Nat /\ log[i].at <= now /\ n \in Msgs
    BY <2>3, ShownLines DEF Arrives, Recorded
  <2>6. now \in Nat
    BY DEF IInv, Typed
  <2>7. /\ DayOf(log[i].at) \in Int /\ DayOf(now) \in Int
        /\ DayOf(log[i].at) <= DayOf(now)
    <3>1. log[i].at \in Int /\ now \in Int /\ log[i].at <= now
      BY <2>5, <2>6
    <3>2. DayOf(log[i].at) <= DayOf(now)
      BY <3>1, DaysGrow
    <3>3. DayOf(log[i].at) \in Int /\ DayOf(now) \in Int
      BY <3>1, DayIs
    <3>4. QED
      BY <3>2, <3>3
  <2>8. DayOf(log[i].at) \in d .. DayOf(now)
    BY <2>2, <2>4, <2>7
  <2>9. n \in SentOn(DayOf(log[i].at), SenderOf[m].domain)
    BY <2>3, <2>4, <2>7, ArrivedOn
  <2>10. n \in Q
    BY <2>4, <2>5, <2>8, <2>9
  <2>11. QED
    BY <2>1, <2>10
<1>3. R = {Message(Shown, n) : n \in Q}
  <2> HIDE DEF R, Q
  <2> QED BY <1>1, <1>2
<1>4. IsFiniteSet(Q)
  <2>1. \A n \in Q : \E i \in DOMAIN log : log[i].msg = n
    BY DEF SentOn
  <2> HIDE DEF Q
  <2>2. QED
    BY <2>1, LoggedAreFinite
<1>5. QED
  <2> HIDE DEF R, Q
  <2>1. Cardinality(R) = Cardinality(Q)
    BY <1>3, <1>4, Records
  <2>2. QED
    BY <2>1 DEF R, Q

\* The week, the overview, the mail flow and the mailboxes tell of every day that
\* the tail covers what happened - but for messages removed untried, which they call
\* delivered - for any log (app.py:521-639 and 718-759).
THEOREM ReportsTellTruthHolds == Spec => []ReportsTellTruth
<1> DEFINE msgs == MessagesIn(Shown)
           today == DayOf(now)
<1>1. ASSUME IInv, Recorded PROVE ReportsTellTruth
  <2>1. today \in Int /\ WeekDays \in Nat /\ Day \in Nat
    BY <1>1, DayIs DEF IInv, Typed
  <2>2. ASSUME NEW d \in Int, Covers(d), NEW dom \in LocalDomains
        PROVE  /\ Mailflow(msgs, dom, d).out = Cardinality(SentOn(d, dom))
               /\ Mailflow(msgs, dom, d).in >= Cardinality(ReceivedOn(d, dom))
    BY <1>1, <2>2, ShareOfDomain, DeliveriesCounted DEF Mailflow
  <2>3. ASSUME NEW d \in today - WeekDays + 1 .. today, Covers(d)
        PROVE  CountByDay(msgs, today, WeekDays)[d].out =
                 [sent |-> Cardinality(Sent(d)),
                  delivered |-> Cardinality({m \in Sent(d) : Delivered(m) \/ RemovedUntried(m)}),
                  deferred |-> Cardinality({m \in Sent(d) : Deferred(m)}),
                  bounced |-> Cardinality({m \in Sent(d) : Bounced(m)})]
    <3>1. CountByDay(msgs, today, WeekDays)[d].out = Counts(Outgoing(msgs, d))
      BY DEF CountByDay
    <3>2. d \in Int
      BY <2>1
    <3>3. QED
      BY <1>1, <2>3, <3>1, <3>2, Outcomes
  <2>4. ASSUME Covers(today), NEW dom \in LocalDomains, SentOn(today, dom) # {}
        PROVE  OverviewByDomain(msgs, today)[dom].sent = Cardinality(SentOn(today, dom))
    <3> DEFINE out == Outgoing(msgs, today)
    <3>1. PICK m \in SentOn(today, dom) : TRUE
      BY <2>4
    <3>2. m \in Sent(today) /\ SenderOf[m].domain = dom
      <4>1. m \in Sent(today)
        BY DEF Sent
      <4>2. SenderOf[m].domain = dom
        BY <1>1, <2>1, ArrivedOn
      <4>3. QED
        BY <4>1, <4>2
    <3>3. Message(Shown, m) \in out /\ Message(Shown, m).from.domain = dom
      BY <1>1, <2>1, <2>4, <3>2, OutgoingIsSent
    <3> HIDE DEF out
    <3>4. dom \in {r.from.domain : r \in out}
      BY <3>3
    <3>5. OverviewByDomain(msgs, today)[dom] = Counts({r \in out : r.from.domain = dom})
      BY <3>4 DEF OverviewByDomain, out
    <3>6. QED
      BY <1>1, <2>1, <2>4, <3>5, ShareOfDomain DEF Counts, out
  <2>5. ASSUME Covers(today - WeekDays), NEW m \in Msgs
        PROVE  Mailbox(msgs, SenderOf[m], today, WeekDays).sent =
                 Cardinality({n \in Msgs : /\ SenderOf[n] = SenderOf[m]
                                           /\ \E d \in today - WeekDays .. today :
                                                n \in SentOn(d, SenderOf[m].domain)})
    <3>1. today - WeekDays \in Int
      BY <2>1
    <3>2. QED
      BY <1>1, <2>5, <3>1, CreditedToMailbox DEF Mailbox
  <2> HIDE DEF msgs, today
  <2>6. \A d \in today - WeekDays + 1 .. today : d \in Int
    BY <2>1
  <2>7. QED
    BY <2>2, <2>3, <2>4, <2>5, <2>6 DEF ReportsTellTruth, msgs, today
<1>2. QED
  BY <1>1, IInvHolds, RecordedHolds, PTL
=============================================================================

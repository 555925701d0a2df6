---------------------------- MODULE DnsblProofs ----------------------------
(* Proofs about Dnsbl, for every number of requests, zones and failures.   *)
EXTENDS Dnsbl, FiniteSetTheorems, TLAPS

USE TaskAssumption, BoundAssumption DEF Tasks, In

TaskState == [pc : {"idle", "waiting", "looking"}, since : Nat,
              prev : Ledger!Snapshots \cup {None}, id : 0 .. MaxLookups, start : Nat]

\* What the arguments below need of the types.
LockType ==
  /\ now \in Nat
  /\ lookups \in 0 .. MaxLookups
  /\ lock \in Seq(Tasks)
  /\ task \in [Tasks -> TaskState]
  /\ latest \in Ledger!Snapshots \cup {None}

\* Only the owner of the lock looks up, and what it compares with is what the
\* file still holds.
OwnerLooks == \A t \in Tasks : task[t].pc = "looking" => Owner(t) /\ task[t].prev = latest

SerialInv == LockType /\ OwnerLooks

-----------------------------------------------------------------------------
(* What a step does to the lock.                                           *)

LEMMA EnqueueKeepsOwner ==
  ASSUME SerialInv, NEW t \in Tasks, NEW s \in Nat, Enqueue(t, s), UNCHANGED <<now, lookups, latest>>
  PROVE  SerialInv'
<1> USE DEF SerialInv, LockType, TaskState
<1>1. task' = [task EXCEPT ![t] = In("waiting", s, None, 0, 0)]
  BY DEF Enqueue
<1>2. LockType'
  BY <1>1 DEF Enqueue
<1>3. \A u \in Tasks : Owner(u) => Owner(u)'
  BY DEF Enqueue, Owner
<1>4. OwnerLooks'
  BY <1>1, <1>3 DEF OwnerLooks
<1>5. QED
  BY <1>2, <1>4

LEMMA ReleaseFrees ==
  ASSUME SerialInv, NEW t \in Tasks, Owner(t), Release, Return(t),
         latest' \in Ledger!Snapshots \cup {None}, UNCHANGED <<now, lookups>>
  PROVE  SerialInv'
<1> USE DEF SerialInv, LockType, TaskState
<1>1. task' = [task EXCEPT ![t] = Idle] /\ Idle \in TaskState
  BY DEF Return, Idle
<1>2. LockType'
  BY <1>1 DEF Release, Owner
<1>3. \A u \in Tasks : task'[u].pc # "looking"
  BY <1>1 DEF OwnerLooks, Owner, Idle
<1>4. OwnerLooks'
  BY <1>3 DEF OwnerLooks
<1>5. QED
  BY <1>2, <1>4

LEMMA ResetFrees ==
  ASSUME SerialInv, Reset, latest' \in Ledger!Snapshots \cup {None}, UNCHANGED <<now, lookups>>
  PROVE  SerialInv'
BY DEF SerialInv, LockType, TaskState, OwnerLooks, Reset, Idle

LEMMA PersistType ==
  ASSUME LockType, NEW prev, NEW snap \in Ledger!Snapshots, NEW n \in 0 .. 3,
         Ledger!Persist(prev, snap, n)
  PROVE  latest' \in Ledger!Snapshots \cup {None}
BY DEF LockType, Ledger!Persist

LEMMA SerialStep == SerialInv /\ [Next]_vars => SerialInv'
<1> SUFFICES ASSUME SerialInv, [Next]_vars PROVE SerialInv'
  OBVIOUS
<1>1. ASSUME NEW t \in Tasks, Request(t) \/ Recheck(t) PROVE SerialInv'
  <2>1. now \in Nat /\ 0 \in Nat
    BY DEF SerialInv, LockType
  <2>2. QED
    BY <1>1, <2>1, EnqueueKeepsOwner DEF Request, Recheck, files
<1>2. ASSUME NEW t \in Tasks, StatusHit(t) PROVE SerialInv'
  BY <1>2, ReleaseFrees DEF StatusHit, files, SerialInv, LockType
<1>3. ASSUME NEW t \in Tasks, StartLookup(t) PROVE SerialInv'
  <2> DEFINE s == In("looking", task[t].since, latest, lookups + 1, now)
  <2>1. task' = [task EXCEPT ![t] = s]
    BY <1>3 DEF StartLookup, SerialInv, LockType, TaskState
  <2>2. s \in TaskState
    BY <1>3 DEF StartLookup, SerialInv, LockType, TaskState
  <2>3. LockType'
    BY <1>3, <2>1, <2>2 DEF StartLookup, files, SerialInv, LockType
  <2>4. OwnerLooks'
    BY <1>3, <2>1 DEF StartLookup, files, SerialInv, LockType, OwnerLooks, Owner
  <2>5. QED
    BY <2>3, <2>4 DEF SerialInv
<1>4. ASSUME NEW t \in Tasks, NEW snap \in Ledger!Snapshots, StatusEnds(t, snap)
      PROVE  SerialInv'
  BY <1>4, ReleaseFrees DEF StatusEnds, files, SerialInv, LockType, OwnerLooks
<1>5. ASSUME NEW t \in Tasks, NEW snap \in Ledger!Snapshots, NEW n \in 0 .. 3,
             RefreshEnds(t, snap) \/ RefreshFails(t, snap, n)
      PROVE  SerialInv'
  <2>1. /\ Owner(t) /\ Release /\ Return(t) /\ UNCHANGED <<now, lookups>>
        /\ \E m \in 0 .. 3 : Ledger!Persist(task[t].prev, snap, m)
    BY <1>5 DEF RefreshEnds, RefreshFails, Failing, SerialInv, OwnerLooks
  <2>2. QED
    BY <2>1, PersistType, ReleaseFrees DEF SerialInv
<1>6. ASSUME NEW t \in Tasks, NEW snap \in Ledger!Snapshots, NEW n \in 0 .. 3,
             CrashWhilePersisting(t, snap, n)
      PROVE  SerialInv'
  BY <1>6, PersistType, ResetFrees DEF CrashWhilePersisting, SerialInv
<1>7. CASE Restart
  BY <1>7, ResetFrees DEF Restart, files, SerialInv, LockType
<1>8. CASE Tick
  BY <1>8 DEF Tick, files, SerialInv, LockType, OwnerLooks, Owner
<1>9. CASE UNCHANGED vars
  BY <1>9 DEF vars, SerialInv, LockType, OwnerLooks, Owner
<1>10. QED
  BY <1>1, <1>2, <1>3, <1>4, <1>5, <1>6, <1>7, <1>8, <1>9 DEF Next

LEMMA SerialInvHolds == Spec => []SerialInv
<1>1. Init => SerialInv
  BY DEF Init, SerialInv, LockType, TaskState, OwnerLooks, Idle, Ledger!Init
<1>2. QED
  BY <1>1, SerialStep, PTL DEF Spec

-----------------------------------------------------------------------------
(* The three files, seen alone, are written by one refresh after another.  *)

LEMMA StepRefines == SerialInv /\ [Next]_vars => [Ledger!Next]_(Ledger!vars)
<1> SUFFICES ASSUME SerialInv, [Next]_vars PROVE [Ledger!Next]_(Ledger!vars)
  OBVIOUS
<1> USE DEF Ledger!Next, Ledger!vars
<1>1. ASSUME NEW t \in Tasks, NEW snap \in Ledger!Snapshots, NEW n \in 0 .. 3,
             \/ RefreshEnds(t, snap)
             \/ RefreshFails(t, snap, n)
             \/ CrashWhilePersisting(t, snap, n)
      PROVE  [Ledger!Next]_(Ledger!vars)
  <2>1. task[t].prev = latest
    BY <1>1 DEF SerialInv, OwnerLooks, RefreshEnds, RefreshFails, Failing, CrashWhilePersisting
  <2>2. PICK m \in 0 .. 3 : Ledger!Persist(latest, snap, m)
    BY <1>1, <2>1 DEF RefreshEnds, RefreshFails, Failing, CrashWhilePersisting
  <2>3. QED
    BY <2>2
<1>2. CASE UNCHANGED files
  BY <1>2 DEF files
<1>3. QED
  <2>1. CASE \E t \in Tasks : Request(t) \/ Recheck(t) \/ StatusHit(t) \/ StartLookup(t)
    BY <2>1, <1>2 DEF Request, Recheck, StatusHit, StartLookup
  <2>2. CASE \E t \in Tasks, snap \in Ledger!Snapshots : StatusEnds(t, snap)
    BY <2>2, <1>2 DEF StatusEnds
  <2>3. CASE Restart \/ Tick
    BY <2>3, <1>2 DEF Restart, Tick
  <2>4. CASE UNCHANGED vars
    BY <2>4, <1>2 DEF vars, files
  <2>5. ASSUME NEW t \in Tasks, NEW snap \in Ledger!Snapshots, RefreshEnds(t, snap)
        PROVE  [Ledger!Next]_(Ledger!vars)
    <3>1. 0 \in 0 .. 3
      OBVIOUS
    <3>2. QED
      BY <1>1, <2>5, <3>1
  <2>6. QED
    BY <1>1, <2>1, <2>2, <2>3, <2>4, <2>5 DEF Next

\* However cron runs, rechecks and status requests overlap, fail and crash, the
\* files change as if one refresh ran at a time, each compared with the
\* snapshot recorded before it.
THEOREM RefreshesAreSerialHolds == Spec => RefreshesAreSerial
<1>1. Init => Ledger!Init
  BY DEF Init
<1>2. QED
  BY <1>1, SerialInvHolds, StepRefines, PTL DEF Spec, RefreshesAreSerial, Ledger!Spec
-----------------------------------------------------------------------------
(* How old a served snapshot can be.                                       *)

DatedInv ==
  /\ cache # None => /\ cache.start \in Nat /\ cache.at \in Nat
                     /\ cache.at <= cache.start + LookupMax
  /\ \A t \in Tasks : task[t].pc = "looking" => now <= task[t].start + LookupMax

LEMMA DatedStep == SerialInv /\ DatedInv /\ [Next]_vars => DatedInv'
<1> SUFFICES ASSUME SerialInv, DatedInv, [Next]_vars PROVE DatedInv'
  OBVIOUS
<1> USE DEF DatedInv, SerialInv, LockType, TaskState
<1>1. ASSUME NEW t \in Tasks, Request(t) \/ Recheck(t) PROVE DatedInv'
  <2>1. PICK s \in {0, now} : task' = [task EXCEPT ![t] = In("waiting", s, None, 0, 0)]
    BY <1>1 DEF Request, Recheck, Enqueue
  <2>2. UNCHANGED <<now, cache>>
    BY <1>1 DEF Request, Recheck
  <2>3. \A u \in Tasks : task'[u].pc = "looking" => task'[u] = task[u]
    BY <2>1
  <2>4. QED
    BY <2>2, <2>3
<1>2. ASSUME NEW t \in Tasks, StatusHit(t) PROVE DatedInv'
  BY <1>2 DEF StatusHit, Return, Idle
<1>3. ASSUME NEW t \in Tasks, StartLookup(t) PROVE DatedInv'
  BY <1>3 DEF StartLookup
<1>4. ASSUME NEW t \in Tasks, NEW snap \in Ledger!Snapshots,
             StatusEnds(t, snap) \/ RefreshEnds(t, snap)
      PROVE  DatedInv'
  <2>1. /\ task[t].pc = "looking" /\ task[t].start \in Nat
        /\ now <= task[t].start + LookupMax
    BY <1>4 DEF StatusEnds, RefreshEnds
  <2>2. PICK at \in {task[t].start, now} : cache' = Cached(t, snap, at)
    BY <1>4 DEF StatusEnds, RefreshEnds
  <2>3. /\ cache'.start = task[t].start /\ cache'.at \in Nat
        /\ cache'.at <= task[t].start + LookupMax
    BY <2>1, <2>2 DEF Cached
  <2>4. task' = [task EXCEPT ![t] = Idle] /\ UNCHANGED now
    BY <1>4 DEF StatusEnds, RefreshEnds, Return
  <2>5. \A u \in Tasks : task'[u].pc = "looking" => task'[u] = task[u]
    BY <2>4 DEF Idle
  <2>6. QED
    BY <2>1, <2>3, <2>4, <2>5
<1>5. ASSUME NEW t \in Tasks, NEW snap \in Ledger!Snapshots, NEW n \in 0 .. 3,
             RefreshFails(t, snap, n)
      PROVE  DatedInv'
  <2>1. /\ task[t].pc = "looking" /\ task[t].start \in Nat
        /\ now <= task[t].start + LookupMax
    BY <1>5 DEF RefreshFails, Failing
  <2>2. task' = [task EXCEPT ![t] = Idle] /\ UNCHANGED now
    BY <1>5 DEF RefreshFails, Failing, Return
  <2>3. cache' \in {cache, Cached(t, snap, now)}
    BY <1>5 DEF RefreshFails, Failing
  <2>4. \A u \in Tasks : task'[u].pc = "looking" => task'[u] = task[u]
    BY <2>2 DEF Idle
  <2>5. cache' # None => /\ cache'.start \in Nat /\ cache'.at \in Nat
                         /\ cache'.at <= cache'.start + LookupMax
    BY <2>1, <2>3 DEF Cached
  <2>6. QED
    BY <2>2, <2>4, <2>5
<1>6. CASE \/ Restart
           \/ \E t \in Tasks, snap \in Ledger!Snapshots, n \in 0 .. 3 :
                CrashWhilePersisting(t, snap, n)
  BY <1>6 DEF Restart, CrashWhilePersisting, Reset, Idle
<1>7. CASE Tick
  BY <1>7 DEF Tick
<1>8. CASE UNCHANGED vars
  BY <1>8 DEF vars
<1>9. QED
  BY <1>1, <1>2, <1>3, <1>4, <1>5, <1>6, <1>7, <1>8 DEF Next

\* The status page never shows a lookup begun more than TTL + LookupMax ago,
\* for every TTL and lookup time, whoever filled the cache.
THEOREM StatusIsRecentHolds == Spec => []StatusIsRecent
<1>1. Init => DatedInv
  BY DEF Init, DatedInv, Idle
<1>2. SerialInv /\ DatedInv => StatusIsRecent
  BY DEF SerialInv, LockType, DatedInv, StatusIsRecent, CacheFresh
<1>3. QED
  BY <1>1, <1>2, SerialInvHolds, DatedStep, PTL DEF Spec
-----------------------------------------------------------------------------
(* The lock file of the rechecks.                                          *)

Places == 1 .. Len(lock)
Since(i) == task[lock[i]].since

\* Requests are in the queue once, rechecks in the order in which they came, and
\* none is older than the lock file.
QueueInv ==
  /\ lockfile \in Int /\ Never <= lockfile
  /\ \A i \in Places : task[lock[i]].pc # "idle"
  /\ \A i, j \in Places : i < j => lock[i] # lock[j]
  /\ \A i \in Places : lock[i] \in Rechecks => lockfile <= Since(i) /\ Since(i) <= now
  /\ \A i, j \in Places :
       i < j /\ lock[i] \in Rechecks /\ lock[j] \in Rechecks => Since(i) <= Since(j)

LEMMA EnqueueKeepsQueue ==
  ASSUME SerialInv, QueueInv, NEW t \in Tasks, NEW s \in Nat, Enqueue(t, s),
         t \in Rechecks => s = now /\ lockfile <= s,
         UNCHANGED <<now, lockfile>>
  PROVE  QueueInv'
<1> USE DEF Places, Since, SerialInv, LockType
<1>1. lock' = Append(lock, t) /\ lock \in Seq(Tasks) /\ task[t].pc = "idle"
  BY DEF Enqueue
<1>2. /\ Len(lock') = Len(lock) + 1 /\ lock'[Len(lock) + 1] = t /\ Len(lock) \in Nat
      /\ \A i \in 1 .. Len(lock) : lock'[i] = lock[i] /\ lock[i] \in Tasks
  BY <1>1
<1>3. \A i \in 1 .. Len(lock) : lock[i] # t
  BY <1>1 DEF QueueInv
<1>4. /\ task'[t].pc = "waiting" /\ task'[t].since = s
      /\ \A u \in Tasks \ {t} : task'[u] = task[u]
  BY DEF Enqueue, TaskState
<1>5. \A i \in 1 .. Len(lock) : task'[lock'[i]] = task[lock[i]] /\ lock'[i] = lock[i]
  BY <1>2, <1>3, <1>4
<1>6. \A i \in 1 .. Len(lock') : i \in 1 .. Len(lock) \/ (i = Len(lock) + 1 /\ lock'[i] = t)
  BY <1>2
<1>7. now \in Nat
  OBVIOUS
<1>8. \A i \in Places' : task'[lock'[i]].pc # "idle"
  BY <1>4, <1>5, <1>6 DEF QueueInv
<1>9. \A i, j \in Places' : i < j => lock'[i] # lock'[j]
  BY <1>2, <1>3, <1>5, <1>6 DEF QueueInv
<1>10. \A i \in Places' : lock'[i] \in Rechecks => lockfile' <= Since(i)' /\ Since(i)' <= now'
  <2>1. \A i \in Places : lock[i] \in Rechecks => lockfile <= Since(i) /\ Since(i) <= now
    BY DEF QueueInv
  <2>2. QED
    BY <1>4, <1>5, <1>6, <1>7, <2>1
<1>11. \A i, j \in Places' :
         i < j /\ lock'[i] \in Rechecks /\ lock'[j] \in Rechecks => Since(i)' <= Since(j)'
  <2> SUFFICES ASSUME NEW i \in Places', NEW j \in Places', i < j,
                      lock'[i] \in Rechecks, lock'[j] \in Rechecks
               PROVE  Since(i)' <= Since(j)'
    OBVIOUS
  <2>1. i \in Places /\ Since(i)' = Since(i) /\ lock[i] \in Rechecks
    BY <1>2, <1>5
  <2>2. CASE j \in 1 .. Len(lock)
    <3>1. Since(j)' = Since(j) /\ lock[j] \in Rechecks
      BY <1>5, <2>2
    <3>2. QED
      BY <2>1, <2>2, <3>1 DEF QueueInv
  <2>3. CASE j = Len(lock) + 1 /\ lock'[j] = t
    BY <1>4, <2>1, <2>3 DEF QueueInv
  <2>4. QED
    BY <1>6, <2>2, <2>3
<1>12. QED
  BY <1>8, <1>9, <1>10, <1>11 DEF QueueInv

\* What the owner of the lock would write is not before what the file holds.
LEMMA OwnStampLater ==
  ASSUME SerialInv, QueueInv, NEW t \in Tasks, Owner(t)
  PROVE  Stamp(t) \in Int /\ lockfile <= Stamp(t)
<1> USE DEF SerialInv, LockType
<1>1. lock \in Seq(Tasks) /\ 1 \in Places /\ lock[1] = t
  BY DEF Owner, Places
<1>2. task[t].since \in Int
  BY DEF TaskState
<1>3. QED
  BY <1>1, <1>2 DEF QueueInv, Stamp, Since

LEMMA ReleaseKeepsQueue ==
  ASSUME SerialInv, QueueInv, NEW t \in Tasks, Owner(t), Release, Return(t),
         lockfile' \in {lockfile, Stamp(t), Never}, UNCHANGED now
  PROVE  QueueInv' /\ (lockfile' >= lockfile \/ lockfile' = Never)
<1> USE DEF Places, Since, SerialInv, LockType
<1>1. lock \in Seq(Tasks) /\ lock # <<>> /\ lock[1] = t /\ lock' = Tail(lock)
  BY DEF Owner, Release
<1>2. /\ Len(lock') = Len(lock) - 1 /\ Len(lock) \in Nat /\ Len(lock) >= 1
      /\ \A i \in 1 .. Len(lock') : lock'[i] = lock[i + 1] /\ lock[i + 1] \in Tasks
                                  /\ i + 1 \in 1 .. Len(lock)
  BY <1>1
<1>3. \A u \in Tasks \ {t} : task'[u] = task[u]
  BY DEF Return
<1>4. \A i \in 1 .. Len(lock') : lock[i + 1] # t
  BY <1>1, <1>2 DEF QueueInv
<1>5. \A i \in 1 .. Len(lock') : task'[lock'[i]] = task[lock[i + 1]]
  BY <1>2, <1>3, <1>4
<1>6. 1 \in Places /\ \A i \in 1 .. Len(lock) : lock[i] \in Tasks /\ Since(i) \in Nat
  BY <1>2, <1>1 DEF TaskState
<1>0. Never \in Int
  BY DEF Never
<1>7. /\ lockfile' \in Int /\ Never <= lockfile'
      /\ lockfile' >= lockfile \/ lockfile' = Never
  BY <1>0, <1>1, <1>6 DEF QueueInv, Stamp
<1>8. \A i \in 1 .. Len(lock') : lock'[i] \in Rechecks => lockfile' <= Since(i + 1)
  <2>1. ASSUME NEW i \in 1 .. Len(lock'), lock'[i] \in Rechecks PROVE lockfile' <= Since(i + 1)
    <3>1. i + 1 \in Places /\ lock[i + 1] \in Rechecks /\ 1 < i + 1
      BY <1>2, <2>1
    <3>2. lockfile <= Since(i + 1)
      BY <3>1 DEF QueueInv
    <3>3. t \in Rechecks => Since(1) <= Since(i + 1)
      BY <1>1, <1>6, <3>1 DEF QueueInv
    <3>4. Never <= Since(i + 1)
      BY <1>0, <1>6, <3>1, <3>2 DEF QueueInv
    <3>5. QED
      BY <1>1, <3>2, <3>3, <3>4 DEF Stamp
  <2>2. QED
    BY <2>1
<1>9. \A i \in 1 .. Len(lock') : /\ i + 1 \in Places /\ lock'[i] = lock[i + 1]
                                 /\ task'[lock'[i]] = task[lock[i + 1]]
  BY <1>2, <1>5
<1>10. \A i \in Places' : task'[lock'[i]].pc # "idle"
  <2> SUFFICES ASSUME NEW i \in Places' PROVE task'[lock'[i]].pc # "idle"
    OBVIOUS
  <2>1. i + 1 \in Places /\ task'[lock'[i]] = task[lock[i + 1]]
    BY <1>9
  <2>2. task[lock[i + 1]].pc # "idle"
    BY <2>1 DEF QueueInv
  <2>3. QED
    BY <2>1, <2>2
<1>11. \A i \in Places' : lock'[i] \in Rechecks => lockfile' <= Since(i)' /\ Since(i)' <= now'
  <2> SUFFICES ASSUME NEW i \in Places', lock'[i] \in Rechecks
               PROVE  lockfile' <= Since(i)' /\ Since(i)' <= now'
    OBVIOUS
  <2>1. i + 1 \in Places /\ lock[i + 1] \in Rechecks /\ Since(i)' = Since(i + 1)
    BY <1>9
  <2>2. Since(i + 1) <= now
    BY <2>1 DEF QueueInv
  <2>3. lockfile' <= Since(i + 1)
    BY <1>8
  <2>4. QED
    BY <2>1, <2>2, <2>3
<1>12. ASSUME NEW i \in Places', NEW j \in Places', i < j
       PROVE  /\ lock'[i] # lock'[j]
              /\ lock'[i] \in Rechecks /\ lock'[j] \in Rechecks => Since(i)' <= Since(j)'
  <2>1. i + 1 < j + 1 /\ i + 1 \in Places /\ j + 1 \in Places
    BY <1>9, <1>12
  <2>2. lock[i + 1] # lock[j + 1]
    BY <2>1 DEF QueueInv
  <2>3. lock[i + 1] \in Rechecks /\ lock[j + 1] \in Rechecks => Since(i + 1) <= Since(j + 1)
    BY <2>1 DEF QueueInv
  <2>4. QED
    BY <2>2, <2>3, <1>9
<1>13. QED
  BY <1>7, <1>10, <1>11, <1>12 DEF QueueInv

LEMMA ResetKeepsQueue ==
  ASSUME Reset, lockfile' \in Int, Never <= lockfile'
  PROVE  QueueInv'
BY DEF QueueInv, Reset, Places

\* The lock file gains in time, or an interrupted write has emptied it.
Onward == lockfile' >= lockfile \/ (failures' > failures /\ lockfile' = Never)

LEMMA QueueStep ==
  ASSUME SerialInv, QueueInv, failures \in Nat, [Next]_vars
  PROVE  QueueInv' /\ Onward
<1> USE DEF Onward
<1>1. lockfile \in Int /\ now \in Nat /\ Never \in Int /\ Never <= lockfile
  BY DEF QueueInv, SerialInv, LockType, Never
<1>2. ASSUME NEW t \in Tasks, Request(t) PROVE QueueInv' /\ Onward
  <2>1. t \notin Rechecks /\ 0 \in Nat /\ lockfile' >= lockfile
    BY <1>1, <1>2 DEF Request
  <2>2. QED
    BY <1>2, <2>1, EnqueueKeepsQueue DEF Request
<1>3. ASSUME NEW t \in Tasks, Recheck(t) PROVE QueueInv' /\ Onward
  <2>1. lockfile <= now
    BY <1>1, <1>3 DEF Recheck
  <2>2. QED
    BY <1>1, <1>3, <2>1, EnqueueKeepsQueue DEF Recheck
<1>4. ASSUME NEW t \in Tasks, StatusHit(t) PROVE QueueInv' /\ Onward
  <2>1. /\ Owner(t) /\ Release /\ Return(t) /\ UNCHANGED <<now, lockfile>>
        /\ lockfile' >= lockfile
    BY <1>1, <1>4 DEF StatusHit
  <2>2. QED
    BY <2>1, ReleaseKeepsQueue
<1>5. ASSUME NEW t \in Tasks, StartLookup(t) PROVE QueueInv' /\ Onward
  <2>1. /\ \A u \in Tasks : task'[u].since = task[u].since /\ (u # t => task'[u] = task[u])
        /\ task'[t].pc = "looking"
    BY <1>5 DEF StartLookup, SerialInv, LockType, TaskState
  <2>2. \A i \in Places : lock[i] \in Tasks
    BY DEF SerialInv, LockType, Places
  <2>3. UNCHANGED <<lock, lockfile, now>>
    BY <1>5 DEF StartLookup
  <2>4. \A i \in Places : task'[lock[i]].since = task[lock[i]].since /\ task'[lock[i]].pc # "idle"
    BY <2>1, <2>2 DEF QueueInv
  <2>5. QED
    BY <1>1, <2>3, <2>4 DEF QueueInv, Places, Since
<1>6. ASSUME NEW t \in Tasks, NEW snap \in Ledger!Snapshots,
             \/ StatusEnds(t, snap) \/ RefreshEnds(t, snap)
             \/ \E n \in 0 .. 3 : RefreshFails(t, snap, n)
      PROVE  QueueInv' /\ Onward
  <2>1. /\ task[t].pc = "looking" /\ Release /\ Return(t) /\ UNCHANGED now
        /\ lockfile' \in {lockfile, Stamp(t), Never}
        /\ lockfile' \in {lockfile, Stamp(t)} \/ failures' = failures + 1
    BY <1>6 DEF StatusEnds, RefreshEnds, RefreshFails, Failing, Torn
  <2>2. Owner(t)
    BY <2>1 DEF SerialInv, OwnerLooks
  <2>3. QueueInv' /\ (lockfile' >= lockfile \/ lockfile' = Never)
    BY <2>1, <2>2, ReleaseKeepsQueue
  <2>4. lockfile' \in {lockfile, Stamp(t)} => lockfile' >= lockfile
    BY <1>1, <2>2, OwnStampLater
  <2>5. QED
    BY <2>1, <2>3, <2>4
<1>7. CASE Restart
  BY <1>1, <1>7, ResetKeepsQueue DEF Restart
<1>11. ASSUME NEW t \in Tasks, NEW snap \in Ledger!Snapshots, NEW n \in 0 .. 3,
              CrashWhilePersisting(t, snap, n)
       PROVE  QueueInv' /\ Onward
  <2>1. /\ task[t].pc = "looking" /\ Reset /\ failures' = failures + 1
        /\ lockfile' \in {lockfile, Stamp(t), Never}
    BY <1>11 DEF CrashWhilePersisting, Torn, Reset
  <2>2. Stamp(t) \in Int /\ lockfile <= Stamp(t)
    BY <2>1, OwnStampLater DEF SerialInv, OwnerLooks
  <2>3. lockfile' \in Int /\ Never <= lockfile' /\ (lockfile' >= lockfile \/ lockfile' = Never)
    BY <1>1, <2>1, <2>2
  <2>4. QED
    BY <2>1, <2>3, ResetKeepsQueue
<1>8. CASE Tick
  <2>1. now' = now + 1 /\ UNCHANGED <<lock, task, lockfile>>
    BY <1>8 DEF Tick
  <2>2. \A i \in Places : Since(i) \in Nat
    BY DEF SerialInv, LockType, TaskState, Places, Since
  <2>3. QED
    BY <1>1, <2>1, <2>2 DEF QueueInv, Places, Since
<1>9. CASE UNCHANGED vars
  <2>1. UNCHANGED <<lock, task, lockfile, now>> /\ lockfile' >= lockfile
    BY <1>1, <1>9 DEF vars
  <2>2. QED
    BY <2>1 DEF QueueInv, Places, Since
<1>10. QED
  BY <1>2, <1>3, <1>4, <1>5, <1>6, <1>7, <1>8, <1>9, <1>11 DEF Next

\* The time in the recheck lock file never goes back, for any number of
\* overlapping rechecks, failures and restarts, but to nothing in a write that
\* does not get through.
THEOREM LockfileAdvancesHolds == Spec => LockfileAdvances
<1>1. Init => QueueInv /\ failures \in Nat
  BY DEF Init, QueueInv, Places, Never
<1>2. SerialInv /\ QueueInv /\ failures \in Nat /\ [Next]_vars
       => QueueInv' /\ [lockfile' >= lockfile \/ (failures' > failures /\ lockfile' = Never)]_lockfile
  BY QueueStep DEF Onward
<1>3. failures \in Nat /\ [Next]_vars => (failures \in Nat)'
  BY DEF Next, vars, Request, Recheck, StatusHit, StartLookup, StatusEnds, RefreshEnds,
         RefreshFails, Failing, CrashWhilePersisting, Reset, Restart, Tick
<1>4. QED
  BY <1>1, <1>2, <1>3, SerialInvHolds, PTL DEF Spec, LockfileAdvances
-----------------------------------------------------------------------------
(* What the alerts say.                                                    *)

AlertState == [zone : ToSet(Zones), id : 1 .. MaxLookups]

\* The files of refreshes that all ended: the newest snapshot is the last of the
\* history, and every snapshot is of a later lookup than the one before it.
FilesInv ==
  /\ history \in Seq(Ledger!Snapshots) /\ alerts \in Seq(AlertState) /\ Len(alerts) <= AlertsMax
  /\ history = <<>> => latest = None
  /\ history # <<>> => latest = history[Len(history)]
  /\ \A i \in DOMAIN history : history[i].id <= lookups
  /\ \A i \in 2 .. Len(history) : history[i - 1].id < history[i].id
  /\ \A i \in DOMAIN alerts : alerts[i].id <= lookups

\* A lookup under way is the last begun, and nothing is recorded of it.
LookingInv ==
  \A t \in Tasks : task[t].pc = "looking" =>
    /\ task[t].id = lookups
    /\ \A i \in DOMAIN history : history[i].id < lookups
    /\ \A i \in DOMAIN alerts : alerts[i].id < lookups

StoryInv ==
  /\ failures \in Nat
  /\ failures = 0 => FilesInv /\ LookingInv /\ AlertsMatchHistory

\* The ledger counts as everybody does.
LEMMA SameCardinality == \A S : Ledger!Cardinality(S) = Cardinality(S)
BY DEF Ledger!Cardinality, Cardinality

\* Ascending lists the elements of a finite set of numbers, each of them once.
LEMMA AscendingLists ==
  ASSUME NEW S \in SUBSET Nat, IsFiniteSet(S), NEW at, at = Ledger!Ascending(S)
  PROVE  /\ Cardinality(S) \in Nat /\ DOMAIN at = 1 .. Cardinality(S)
         /\ \A n \in DOMAIN at : at[n] \in S
         /\ \A i \in S : \E n \in DOMAIN at : at[n] = i
<1> DEFINE Below(i) == {j \in S : j <= i}
           Rank(i) == Cardinality(Below(i))
           rank == [i \in S |-> Rank(i)]
           m == Cardinality(S)
<1>1. m \in Nat
  BY FS_CardinalityType
<1>2. ASSUME NEW i \in S PROVE Rank(i) \in 1 .. m /\ IsFiniteSet(Below(i))
  <2>1. Below(i) \in SUBSET S /\ Below(i) # {}
    BY <1>2
  <2>2. IsFiniteSet(Below(i)) /\ Rank(i) <= m
    BY <2>1, FS_Subset
  <2>3. Rank(i) # 0 /\ Rank(i) \in Nat
    BY <2>1, <2>2, FS_EmptySet, FS_CardinalityType
  <2>4. QED
    BY <1>1, <2>2, <2>3
<1>3. ASSUME NEW i \in S, NEW j \in S, i < j PROVE Rank(i) # Rank(j)
  <2>1. Below(i) \in SUBSET Below(j) /\ Below(i) # Below(j)
    <3>1. i \in Nat /\ j \in Nat /\ \A x \in S : x \in Nat
      OBVIOUS
    <3>2. \A x \in S : x <= i => x <= j
      BY <1>3, <3>1
    <3>3. j \in Below(j) /\ j \notin Below(i)
      BY <1>3, <3>1
    <3>4. QED
      BY <3>2, <3>3
  <2>2. QED
    BY <1>2, <2>1, FS_Subset
<1> HIDE DEF Rank
<1>0. ASSUME NEW i \in S, NEW j \in S, Rank(i) = Rank(j) PROVE i = j
  <2>1. i \in Nat /\ j \in Nat
    OBVIOUS
  <2>2. ~(i < j) /\ ~(j < i)
    BY <1>0, <1>3
  <2>3. QED
    BY <2>1, <2>2
<1>4. rank \in Injection(S, 1 .. m)
  <2>1. rank \in [S -> 1 .. m]
    BY <1>2
  <2>2. \A i, j \in S : rank[i] = rank[j] => i = j
    BY <1>0
  <2>3. QED
    BY <2>1, <2>2 DEF Injection, IsInjective
<1>5. IsFiniteSet(1 .. m) /\ Cardinality(1 .. m) = m
  BY <1>1, FS_Interval
<1>6. rank \in Surjection(S, 1 .. m)
  BY <1>4, <1>5, FS_Injection
<1>7. at = [n \in 1 .. Ledger!Cardinality(S) |->
              CHOOSE i \in S : Ledger!Cardinality({j \in S : j <= i}) = n]
  BY DEF Ledger!Ascending
<1>8. DOMAIN at = 1 .. m
  BY <1>7, SameCardinality
<1>9. ASSUME NEW n \in 1 .. m PROVE at[n] \in S /\ Rank(at[n]) = n
  <2>1. \E i \in S : Rank(i) = n
    BY <1>6 DEF Surjection
  <2>2. \E i \in S : Ledger!Cardinality({j \in S : j <= i}) = n
    BY <2>1, SameCardinality DEF Rank
  <2>3. at[n] = CHOOSE i \in S : Ledger!Cardinality({j \in S : j <= i}) = n
    BY <1>7, SameCardinality
  <2>4. at[n] \in S /\ Ledger!Cardinality({j \in S : j <= at[n]}) = n
    BY <2>2, <2>3, Zenon
  <2>5. QED
    BY <2>4, SameCardinality DEF Rank
<1>10. ASSUME NEW i \in S PROVE \E n \in 1 .. m : at[n] = i
  <2>1. Rank(i) \in 1 .. m
    BY <1>2
  <2>2. at[Rank(i)] \in S /\ Rank(at[Rank(i)]) = Rank(i)
    BY <1>9, <2>1
  <2>3. at[Rank(i)] = i
    BY <1>0, <2>2
  <2>4. QED
    BY <2>1, <2>3
<1>11. QED
  BY <1>1, <1>8, <1>9, <1>10

\* InOrder lists the zones of a set, and no other.
LEMMA InOrderLists ==
  ASSUME NEW S
  PROVE  LET zones == Ledger!InOrder(S)
         IN  /\ zones \in Seq(ToSet(Zones))
             /\ \A n \in DOMAIN zones : zones[n] \in S
             /\ \A j \in DOMAIN Zones : Zones[j] \in S => \E n \in DOMAIN zones : zones[n] = Zones[j]
<1> DEFINE zones == Ledger!InOrder(S)
           P == {i \in DOMAIN Zones : Zones[i] \in S}
           at == Ledger!Ascending(P)
<1>1. Len(Zones) \in Nat /\ DOMAIN Zones = 1 .. Len(Zones)
  BY ZonesAssumption
<1>2. P \in SUBSET Nat
  BY <1>1
<1>3. IsFiniteSet(P)
  <2>1. IsFiniteSet(1 .. Len(Zones)) /\ P \in SUBSET (1 .. Len(Zones))
    BY <1>1, FS_Interval
  <2>2. QED
    BY <2>1, FS_Subset
<1>4. /\ Cardinality(P) \in Nat /\ DOMAIN at = 1 .. Cardinality(P)
      /\ \A n \in DOMAIN at : at[n] \in P
      /\ \A i \in P : \E n \in DOMAIN at : at[n] = i
  BY <1>2, <1>3, AscendingLists
<1>5. zones = [n \in DOMAIN at |-> Zones[at[n]]]
  BY DEF Ledger!InOrder
<1> HIDE DEF at, zones
<1>6. DOMAIN zones = DOMAIN at /\ \A n \in DOMAIN zones : zones[n] = Zones[at[n]]
  BY <1>5
<1>7. \A n \in DOMAIN zones : zones[n] \in S /\ zones[n] \in ToSet(Zones)
  BY <1>4, <1>6 DEF ToSet
<1>8. zones \in [1 .. Cardinality(P) -> ToSet(Zones)]
  BY <1>4, <1>5, <1>7
<1>9. zones \in Seq(ToSet(Zones))
  <2>1. \A m \in Nat : \A f \in [1 .. m -> ToSet(Zones)] : f \in Seq(ToSet(Zones))
    OBVIOUS
  <2>2. QED
    BY <1>4, <1>8, <2>1
<1>10. \A j \in DOMAIN Zones : Zones[j] \in S => \E n \in DOMAIN zones : zones[n] = Zones[j]
  BY <1>4, <1>6
<1>11. QED
  BY <1>7, <1>9, <1>10 DEF zones

\* The zones that became listed.
Risen(prev, snap) == snap.listed \ IF prev = None THEN {} ELSE prev.listed

\* A refresh announces the zones that became listed, and no other.
LEMMA EventsTell ==
  ASSUME NEW prev \in Ledger!Snapshots \cup {None}, NEW snap \in Ledger!Snapshots
  PROVE  LET events == Ledger!Events(prev, snap)
             risen == Risen(prev, snap)
         IN  /\ events \in Seq(AlertState)
             /\ \A n \in DOMAIN events : events[n].id = snap.id /\ events[n].zone \in risen
             /\ \A j \in DOMAIN Zones : Zones[j] \in risen =>
                  \E n \in DOMAIN events : events[n].zone = Zones[j] /\ events[n].id = snap.id
<1> DEFINE events == Ledger!Events(prev, snap)
           risen == Risen(prev, snap)
           zones == Ledger!InOrder(risen)
<1>1. events = [i \in DOMAIN zones |-> [zone |-> zones[i], id |-> snap.id]]
  BY DEF Ledger!Events, Ledger!Rises, Risen
<1>2. /\ zones \in Seq(ToSet(Zones))
      /\ \A n \in DOMAIN zones : zones[n] \in risen
      /\ \A j \in DOMAIN Zones : Zones[j] \in risen => \E n \in DOMAIN zones : zones[n] = Zones[j]
  BY InOrderLists
<1> HIDE DEF events, risen, zones
<1>3. snap.id \in 1 .. MaxLookups
  BY DEF Ledger!Snapshots
<1>4. /\ DOMAIN events = DOMAIN zones
      /\ \A n \in DOMAIN events : events[n].zone = zones[n] /\ events[n].id = snap.id
  BY <1>1
<1>5. events \in Seq(AlertState)
  <2>1. Len(zones) \in Nat /\ DOMAIN zones = 1 .. Len(zones) /\ \A n \in DOMAIN zones : zones[n] \in ToSet(Zones)
    BY <1>2
  <2>2. \A n \in 1 .. Len(zones) : [zone |-> zones[n], id |-> snap.id] \in AlertState
    BY <1>3, <2>1 DEF AlertState
  <2>3. events \in [1 .. Len(zones) -> AlertState]
    BY <1>1, <2>1, <2>2
  <2>4. QED
    BY <2>1, <2>3
<1>6. QED
  BY <1>2, <1>4, <1>5 DEF events, risen

\* What is left of a sequence cut to its last n elements.
LEMMA NewestKeeps ==
  ASSUME NEW S, NEW s \in Seq(S), NEW n \in Nat \ {0}, NEW r, r = Ledger!Newest(s, n)
  PROVE  /\ r \in Seq(S) /\ Len(r) = (IF Len(s) > n THEN n ELSE Len(s))
         /\ \A i \in 1 .. Len(r) : r[i] = s[i + (Len(s) - Len(r))]
<1>1. Len(s) \in Nat
  OBVIOUS
<1>2. CASE Len(s) > n
  <2>1. r = SubSeq(s, Len(s) - n + 1, Len(s))
    BY <1>2 DEF Ledger!Newest
  <2>2. Len(s) - n + 1 \in 1 .. Len(s)
    BY <1>1, <1>2
  <2>3. r \in Seq(S) /\ Len(r) = n
    BY <1>1, <1>2, <2>1, <2>2
  <2>4. \A i \in 1 .. n : r[i] = s[(Len(s) - n + 1) + i - 1]
    BY <1>1, <1>2, <2>1, <2>2
  <2>5. \A i \in 1 .. n : (Len(s) - n + 1) + i - 1 = i + (Len(s) - n)
    BY <1>1
  <2>6. QED
    BY <1>2, <2>3, <2>4, <2>5
<1>3. CASE ~(Len(s) > n)
  <2>1. r = s
    BY <1>3 DEF Ledger!Newest
  <2>2. \A i \in 1 .. Len(s) : i + (Len(s) - Len(s)) = i
    BY <1>1
  <2>3. QED
    BY <1>3, <2>1, <2>2
<1>4. QED
  BY <1>2, <1>3
\* A refresh that ends adds its snapshot, and its events, to the story.
LEMMA StoryGoesOn ==
  ASSUME FilesInv, failures = 0, AlertsMatchHistory,
         latest \in Ledger!Snapshots \cup {None}, lookups \in Nat,
         NEW snap \in Ledger!Snapshots, snap.id = lookups,
         \A i \in DOMAIN history : history[i].id < lookups,
         \A i \in DOMAIN alerts : alerts[i].id < lookups,
         Ledger!Persist(latest, snap, 3), UNCHANGED <<lookups, failures>>
  PROVE  FilesInv' /\ AlertsMatchHistory'
<1> DEFINE n == Len(history)
           h == Append(history, snap)
           risen == Risen(latest, snap)
           events == Ledger!Events(latest, snap)
           c == alerts \o events
           d == Len(h) - Len(history')
           Alerted(s, z, id) == \E a \in ToSet(s) : a.zone = z /\ a.id = id
<1>1. /\ history \in Seq(Ledger!Snapshots) /\ alerts \in Seq(AlertState) /\ n \in Nat
      /\ Len(alerts) \in Nat /\ Len(alerts) <= AlertsMax /\ HistoryMax \in Nat \ {0}
      /\ AlertsMax \in Nat \ {0}
  BY DEF FilesInv
<1>2. /\ h \in Seq(Ledger!Snapshots) /\ Len(h) = n + 1 /\ h[n + 1] = snap
      /\ \A i \in 1 .. n : h[i] = history[i]
  BY <1>1
<1>3. /\ latest' = snap /\ history' = Ledger!Newest(h, HistoryMax)
      /\ alerts' = Ledger!Newest(c, AlertsMax)
  BY DEF Ledger!Persist
<1>4. /\ events \in Seq(AlertState)
      /\ \A m \in DOMAIN events : events[m].id = snap.id /\ events[m].zone \in risen
      /\ \A j \in DOMAIN Zones : Zones[j] \in risen =>
           \E m \in DOMAIN events : events[m].zone = Zones[j] /\ events[m].id = snap.id
  BY EventsTell
<1> HIDE DEF events, h, risen
<1>5. /\ c \in Seq(AlertState) /\ Len(c) = Len(alerts) + Len(events)
      /\ \A i \in 1 .. Len(alerts) : c[i] = alerts[i]
      /\ \A i \in 1 .. Len(events) : c[Len(alerts) + i] = events[i]
      /\ Len(events) \in Nat
  <2>1. events \in Seq(AlertState) /\ alerts \in Seq(AlertState)
    BY <1>1, <1>4
  <2>2. c \in Seq(AlertState)
    BY <2>1
  <2>3. Len(c) = Len(alerts) + Len(events) /\ Len(events) \in Nat
    BY <2>1
  <2>4. \A i \in 1 .. Len(alerts) : c[i] = alerts[i]
    BY <2>1
  <2>5. \A i \in 1 .. Len(events) : c[Len(alerts) + i] = events[i]
    BY <2>1
  <2>6. QED
    BY <2>2, <2>3, <2>4, <2>5
<1> HIDE DEF c
<1>6. /\ history' \in Seq(Ledger!Snapshots)
      /\ Len(history') = (IF Len(h) > HistoryMax THEN HistoryMax ELSE Len(h))
      /\ \A i \in 1 .. Len(history') : history'[i] = h[i + d]
  <2>1. h \in Seq(Ledger!Snapshots) /\ HistoryMax \in Nat \ {0}
    BY <1>1, <1>2
  <2>2. QED
    BY <1>3, <2>1, NewestKeeps
<1>7. d \in Nat /\ Len(history') \in Nat \ {0} /\ Len(history') + d = n + 1
  BY <1>1, <1>2, <1>6
<1>8. /\ alerts' \in Seq(AlertState)
      /\ Len(alerts') = (IF Len(c) > AlertsMax THEN AlertsMax ELSE Len(c))
      /\ \A i \in 1 .. Len(alerts') : alerts'[i] = c[i + (Len(c) - Len(alerts'))]
  <2>1. c \in Seq(AlertState) /\ AlertsMax \in Nat \ {0}
    BY <1>1, <1>5
  <2>2. QED
    BY <1>3, <2>1, NewestKeeps
<1>9. Len(c) \in Nat /\ Len(alerts') \in Nat /\ Len(alerts') <= AlertsMax /\ Len(alerts') <= Len(c)
  BY <1>1, <1>5, <1>8
<1>10. /\ \A i \in DOMAIN alerts' : \E k \in DOMAIN c : alerts'[i] = c[k]
       /\ Len(alerts') # AlertsMax => alerts' = c
  <2>1. ASSUME NEW i \in DOMAIN alerts' PROVE i + (Len(c) - Len(alerts')) \in DOMAIN c
    <3>1. i \in 1 .. Len(alerts') /\ DOMAIN c = 1 .. Len(c)
      BY <1>5, <1>8
    <3>2. QED
      BY <1>9, <3>1
  <2>2. \A i \in DOMAIN alerts' : alerts'[i] = c[i + (Len(c) - Len(alerts'))]
    <3>1. DOMAIN alerts' = 1 .. Len(alerts')
      BY <1>8
    <3>2. QED
      BY <1>8, <3>1
  <2>3. Len(alerts') # AlertsMax => alerts' = c
    <3>1. Len(alerts') # AlertsMax => ~(Len(c) > AlertsMax)
      BY <1>1, <1>8, <1>9
    <3>2. QED
      BY <1>3, <3>1 DEF Ledger!Newest
  <2>4. QED
    BY <2>1, <2>2, <2>3
<1>11. \A k \in DOMAIN c :
        (k \in DOMAIN alerts /\ c[k] = alerts[k]) \/ \E m \in DOMAIN events : c[k] = events[m]
  <2>1. ASSUME NEW k \in DOMAIN c, ~(k <= Len(alerts)) PROVE \E m \in DOMAIN events : c[k] = events[m]
    <3>1. k \in Nat /\ k <= Len(alerts) + Len(events)
      BY <1>5, <2>1
    <3>2. k - Len(alerts) \in 1 .. Len(events) /\ Len(alerts) + (k - Len(alerts)) = k
      BY <1>1, <1>5, <2>1, <3>1
    <3>3. c[k] = events[k - Len(alerts)]
      BY <1>5, <3>2
    <3>4. k - Len(alerts) \in DOMAIN events
      BY <1>4, <3>2
    <3>5. QED
      BY <3>3, <3>4
  <2>2. ASSUME NEW k \in DOMAIN c, k <= Len(alerts) PROVE k \in DOMAIN alerts /\ c[k] = alerts[k]
    BY <1>1, <1>5, <2>2
  <2>3. QED
    BY <2>1, <2>2
<1>12. \A i \in DOMAIN alerts : \E k \in DOMAIN c : c[k] = alerts[i]
  <2>1. ASSUME NEW i \in DOMAIN alerts PROVE i \in DOMAIN c /\ c[i] = alerts[i]
    <3>1. i \in 1 .. Len(alerts)
      BY <1>1
    <3>2. QED
      BY <1>1, <1>5, <3>1
  <2>2. QED
    BY <2>1
<1>13. \A i \in DOMAIN events : \E k \in DOMAIN c : c[k] = events[i]
  <2>1. ASSUME NEW i \in DOMAIN events PROVE Len(alerts) + i \in DOMAIN c /\ c[Len(alerts) + i] = events[i]
    <3>1. i \in 1 .. Len(events)
      BY <1>4
    <3>2. QED
      BY <1>1, <1>5, <3>1
  <2>2. QED
    BY <2>1
<1>14. ASSUME NEW z, NEW id, Alerted(alerts', z, id)
       PROVE  Alerted(alerts, z, id) \/ (id = snap.id /\ z \in risen)
  <2>1. PICK i \in DOMAIN alerts' : alerts'[i].zone = z /\ alerts'[i].id = id
    BY <1>14 DEF ToSet
  <2>2. \/ \E k \in DOMAIN alerts : alerts'[i] = alerts[k]
        \/ \E m \in DOMAIN events : alerts'[i] = events[m]
    BY <1>10, <1>11
  <2>3. QED
    BY <1>4, <2>1, <2>2 DEF ToSet
<1>15. ASSUME NEW k \in DOMAIN c PROVE Alerted(alerts', c[k].zone, c[k].id) \/ Len(alerts') = AlertsMax
  BY <1>10, <1>15 DEF ToSet
<1>16. ASSUME NEW z, NEW id, Alerted(alerts, z, id)
       PROVE  Alerted(alerts', z, id) \/ Len(alerts') = AlertsMax
  <2>1. PICK i \in DOMAIN alerts : alerts[i].zone = z /\ alerts[i].id = id
    BY <1>16 DEF ToSet
  <2>2. QED
    BY <1>12, <1>15, <2>1
<1>17. Len(alerts) = AlertsMax => Len(alerts') = AlertsMax
  BY <1>1, <1>5, <1>8
<1>18. ASSUME NEW i \in 2 .. Len(history'), NEW j \in DOMAIN Zones
       PROVE  LET rise == Zones[j] \in history'[i].listed \ history'[i - 1].listed
              IN  /\ Alerted(alerts', Zones[j], history'[i].id) => rise
                  /\ rise => Alerted(alerts', Zones[j], history'[i].id) \/ Len(alerts') = AlertsMax
  <2> DEFINE k == i + d
  <2>1. /\ i \in 1 .. Len(history') /\ i - 1 \in 1 .. Len(history')
        /\ k \in 2 .. (n + 1) /\ (i - 1) + d = k - 1
    BY <1>7
  <2>2. history'[i] = h[k] /\ history'[i - 1] = h[k - 1]
    BY <1>6, <2>1
  <2> HIDE DEF k
  <2>3. CASE k <= n
    <3>1. k \in 2 .. n /\ k \in DOMAIN history
      BY <1>1, <2>1, <2>3
    <3>2. h[k] = history[k] /\ h[k - 1] = history[k - 1]
      BY <1>1, <1>2, <3>1
    <3>3. LET rise == Zones[j] \in history[k].listed \ history[k - 1].listed
          IN  /\ Alerted(alerts, Zones[j], history[k].id) => rise
              /\ rise => Alerted(alerts, Zones[j], history[k].id) \/ Len(alerts) = AlertsMax
      BY <3>1 DEF AlertsMatchHistory
    <3>4. history[k].id # snap.id
      <4>1. history[k].id < lookups /\ history[k] \in Ledger!Snapshots
        BY <1>1, <3>1
      <4>2. QED
        BY <4>1 DEF Ledger!Snapshots
    <3> HIDE DEF Alerted
    <3>5. QED
      BY <1>14, <1>16, <1>17, <2>2, <3>2, <3>3, <3>4
  <2>4. CASE k = n + 1
    <3>1. n \in DOMAIN history /\ n >= 1 /\ history # <<>>
      BY <1>1, <2>1, <2>4
    <3>2. h[k] = snap /\ h[k - 1] = history[n] /\ latest = history[n]
      BY <1>1, <1>2, <2>4, <3>1 DEF FilesInv
    <3>3. latest \in Ledger!Snapshots
      BY <1>1, <3>1, <3>2
    <3>4. risen = snap.listed \ history[n].listed
      BY <3>2, <3>3, SnapshotAssumption DEF risen, Risen
    <3>5. ~Alerted(alerts, Zones[j], snap.id)
      BY <1>1 DEF ToSet
    <3>6. Zones[j] \in risen => Alerted(alerts', Zones[j], snap.id) \/ Len(alerts') = AlertsMax
      BY <1>4, <1>13, <1>15
    <3>7. Alerted(alerts', Zones[j], snap.id) => Zones[j] \in risen
      BY <1>14, <3>5
    <3>8. history'[i].id = snap.id /\ history'[i].listed \ history'[i - 1].listed = risen
      BY <2>2, <3>2, <3>4
    <3> HIDE DEF Alerted
    <3>9. QED
      BY <3>6, <3>7, <3>8
  <2>5. k <= n \/ k = n + 1
    BY <1>1, <2>1
  <2>6. QED
    BY <2>3, <2>4, <2>5
<1>19. AlertsMatchHistory'
  BY <1>18 DEF AlertsMatchHistory
<1>20. FilesInv'
  <2>1. ASSUME NEW i \in DOMAIN history' PROVE history'[i].id <= lookups
    <3>1. i \in 1 .. Len(history') /\ i + d \in 1 .. (n + 1) /\ i \in Nat
      BY <1>6, <1>7, <2>1
    <3>2. history'[i] = h[i + d]
      BY <1>6, <3>1
    <3>3. ASSUME NEW k \in 1 .. (n + 1) PROVE h[k].id <= lookups
      <4>1. CASE k = n + 1
        BY <1>2, <4>1
      <4>2. CASE k \in 1 .. n
        <5>1. k \in DOMAIN history /\ h[k] = history[k]
          BY <1>1, <1>2, <4>2
        <5>2. QED
          BY <5>1 DEF FilesInv
      <4>3. QED
        BY <1>1, <3>3, <4>1, <4>2
    <3>4. QED
      BY <3>1, <3>2, <3>3
  <2>2. ASSUME NEW i \in 2 .. Len(history') PROVE history'[i - 1].id < history'[i].id
    <3> DEFINE k == i + d
    <3>1. /\ i \in 1 .. Len(history') /\ i - 1 \in 1 .. Len(history')
          /\ k \in 2 .. (n + 1) /\ (i - 1) + d = k - 1
      BY <1>7, <2>2
    <3>2. history'[i] = h[k] /\ history'[i - 1] = h[k - 1]
      BY <1>6, <3>1
    <3> HIDE DEF k
    <3>3. CASE k \in 2 .. n
      <4>1. h[k] = history[k] /\ h[k - 1] = history[k - 1]
        BY <1>1, <1>2, <3>3
      <4>2. QED
        BY <3>2, <3>3, <4>1 DEF FilesInv
    <3>4. CASE k = n + 1
      <4>1. h[k] = snap /\ h[k - 1] = history[n] /\ n \in DOMAIN history
        BY <1>1, <1>2, <3>1, <3>4
      <4>2. QED
        BY <3>2, <4>1
    <3>5. QED
      BY <1>1, <3>1, <3>3, <3>4
  <2>3. ASSUME NEW i \in DOMAIN alerts' PROVE alerts'[i].id <= lookups
    <3>1. \/ \E k \in DOMAIN alerts : alerts'[i] = alerts[k]
          \/ \E m \in DOMAIN events : alerts'[i] = events[m]
      BY <1>10, <1>11, <2>3
    <3>2. QED
      BY <1>4, <3>1 DEF FilesInv
  <2>4. history' # <<>> /\ latest' = history'[Len(history')]
    <3>1. Len(history') \in 1 .. Len(history') /\ Len(history') + d = n + 1
      BY <1>7
    <3>2. history'[Len(history')] = h[n + 1]
      BY <1>6, <3>1
    <3>3. history' # <<>>
      BY <1>7
    <3>4. QED
      BY <1>2, <1>3, <3>2, <3>3
  <2>5. QED
    BY <1>6, <1>8, <1>9, <2>1, <2>2, <2>3, <2>4 DEF FilesInv
<1>21. QED
  BY <1>19, <1>20
\* Nothing is recorded, and no lookup begins.
LEMMA StoryStays ==
  ASSUME StoryInv, failures' = failures, UNCHANGED <<files, lookups>>,
         \A t \in Tasks : task'[t].pc = "looking" => task'[t] = task[t]
  PROVE  StoryInv'
BY DEF StoryInv, FilesInv, LookingInv, AlertsMatchHistory, files

LEMMA StoryStep == SerialInv /\ StoryInv /\ [Next]_vars => StoryInv'
<1> SUFFICES ASSUME SerialInv, StoryInv, [Next]_vars PROVE StoryInv'
  OBVIOUS
<1>0. /\ lookups \in Nat /\ now \in Nat /\ failures \in Nat /\ task \in [Tasks -> TaskState]
      /\ latest \in Ledger!Snapshots \cup {None}
      /\ \A t \in Tasks : task[t].pc = "looking" => Owner(t) /\ task[t].prev = latest
  BY DEF SerialInv, LockType, OwnerLooks, StoryInv
<1>1. ASSUME NEW t \in Tasks, Request(t) \/ Recheck(t) PROVE StoryInv'
  <2>1. /\ UNCHANGED <<files, lookups, failures>>
        /\ \E s : task' = [task EXCEPT ![t] = In("waiting", s, None, 0, 0)]
    BY <1>1 DEF Request, Recheck, Enqueue
  <2>2. QED
    BY <1>0, <2>1, StoryStays
<1>2. ASSUME NEW t \in Tasks, Return(t), UNCHANGED <<files, lookups, failures>> PROVE StoryInv'
  <2>1. task' = [task EXCEPT ![t] = Idle] /\ Idle.pc = "idle"
    BY <1>2 DEF Return, Idle
  <2>2. QED
    BY <1>0, <1>2, <2>1, StoryStays
<1>3. ASSUME NEW t \in Tasks, StartLookup(t) PROVE StoryInv'
  <2>1. /\ UNCHANGED <<files, failures>> /\ lookups' = lookups + 1 /\ Owner(t)
        /\ task[t].pc = "waiting"
        /\ task' = [task EXCEPT ![t] = In("looking", @.since, latest, lookups + 1, now)]
    BY <1>3 DEF StartLookup
  <2>2. task'[t].id = lookups' /\ \A u \in Tasks : u # t => task'[u].pc # "looking"
    BY <1>0, <2>1 DEF Owner
  <2>3. CASE failures = 0
    <3>1. FilesInv /\ AlertsMatchHistory
      BY <2>3 DEF StoryInv
    <3>2. /\ \A i \in DOMAIN history : history[i].id <= lookups /\ history[i].id \in Nat
          /\ \A i \in DOMAIN alerts : alerts[i].id <= lookups /\ alerts[i].id \in Nat
      <4>1. history \in Seq(Ledger!Snapshots) /\ alerts \in Seq(AlertState)
        BY <3>1 DEF FilesInv
      <4>2. /\ \A i \in DOMAIN history : history[i] \in Ledger!Snapshots
            /\ \A i \in DOMAIN alerts : alerts[i] \in AlertState
        BY <4>1
      <4>3. QED
        BY <3>1, <4>2 DEF FilesInv, Ledger!Snapshots, AlertState
    <3>3. /\ \A i \in DOMAIN history : history[i].id < lookups' /\ history[i].id <= lookups'
          /\ \A i \in DOMAIN alerts : alerts[i].id < lookups' /\ alerts[i].id <= lookups'
      BY <1>0, <2>1, <3>2
    <3>4. FilesInv' /\ AlertsMatchHistory'
      BY <2>1, <3>1, <3>3 DEF FilesInv, AlertsMatchHistory, files
    <3>5. LookingInv'
      BY <2>1, <2>2, <3>3 DEF LookingInv, files
    <3>6. QED
      BY <1>0, <2>1, <3>4, <3>5 DEF StoryInv
  <2>4. QED
    BY <1>0, <2>1, <2>3 DEF StoryInv
<1>4. ASSUME NEW t \in Tasks, NEW snap \in Ledger!Snapshots, RefreshEnds(t, snap) PROVE StoryInv'
  <2>1. /\ task[t].pc = "looking" /\ snap.id = task[t].id /\ Return(t)
        /\ Ledger!Persist(task[t].prev, snap, 3) /\ UNCHANGED <<lookups, failures>>
    BY <1>4 DEF RefreshEnds
  <2>2. task[t].prev = latest
    BY <1>0, <2>1
  <2>3. \A u \in Tasks : task'[u].pc # "looking"
    BY <1>0, <2>1 DEF Return, Idle, Owner
  <2>4. CASE failures = 0
    <3>1. FilesInv /\ LookingInv /\ AlertsMatchHistory
      BY <2>4 DEF StoryInv
    <3>2. /\ snap.id = lookups
          /\ \A i \in DOMAIN history : history[i].id < lookups
          /\ \A i \in DOMAIN alerts : alerts[i].id < lookups
      BY <2>1, <3>1 DEF LookingInv
    <3>3. FilesInv' /\ AlertsMatchHistory'
      BY <1>0, <2>1, <2>2, <2>4, <3>1, <3>2, StoryGoesOn
    <3>4. QED
      BY <1>0, <2>1, <2>3, <3>3 DEF StoryInv, LookingInv
  <2>5. QED
    BY <1>0, <2>1, <2>4 DEF StoryInv
<1>5. CASE failures' = failures + 1
  BY <1>0, <1>5 DEF StoryInv
<1>6. CASE Tick \/ UNCHANGED vars
  <2>1. UNCHANGED <<files, lookups, failures, task>>
    BY <1>6 DEF Tick, vars, files
  <2>2. QED
    BY <2>1, StoryStays
<1>7. ASSUME NEW t \in Tasks, StatusHit(t) PROVE StoryInv'
  BY <1>2, <1>7 DEF StatusHit
<1>8. ASSUME NEW t \in Tasks, NEW snap \in Ledger!Snapshots, StatusEnds(t, snap) PROVE StoryInv'
  BY <1>2, <1>8 DEF StatusEnds
<1>9. ASSUME NEW t \in Tasks, NEW snap \in Ledger!Snapshots, NEW n \in 0 .. 3,
             RefreshFails(t, snap, n) \/ CrashWhilePersisting(t, snap, n)
      PROVE  StoryInv'
  BY <1>5, <1>9 DEF RefreshFails, Failing, CrashWhilePersisting, Reset
<1>10. CASE Restart
  BY <1>5, <1>10 DEF Restart, Reset
<1>11. QED
  BY <1>1, <1>3, <1>4, <1>6, <1>7, <1>8, <1>9, <1>10 DEF Next

\* As long as no write failed, a zone has an alert for exactly the snapshots
\* where it became listed, unless the alert has been dropped from a full file.
THEOREM AlertsMatchHistoryHolds == Spec => []AlertsMatchHistory
<1>1. Init => StoryInv
  BY DEF Init, StoryInv, FilesInv, LookingInv, AlertsMatchHistory, Idle, Ledger!Init
<1>2. StoryInv => AlertsMatchHistory
  BY DEF StoryInv, AlertsMatchHistory
<1>3. QED
  BY <1>1, <1>2, SerialInvHolds, StoryStep, PTL DEF Spec
=============================================================================

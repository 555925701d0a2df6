----------------------------- MODULE LogProofs -----------------------------
(* Proofs about Exim's log: what a status that is computed line by line    *)
(* comes to (Messages), and what the event stream and the activity page    *)
(* make of the file (Mainlog), for any messages, lengths and window, and   *)
(* however often the file is rotated and the stream broken.                *)
EXTENDS Mainlog, WellFoundedInduction, SequenceTheorems, TLAPS

-----------------------------------------------------------------------------
(* Induction, and functions that are defined by recursion along a log.     *)

\* A set of numbers that has 0 and with every number the next has them all.
LEMMA SetInduction ==
  ASSUME NEW S, 0 \in S, \A n \in Nat : n \in S => n + 1 \in S
  PROVE  Nat \subseteq S
<1> DEFINE T == Nat \ S
           R == {ss \in Nat \X Nat : ss[1] < ss[2]}
<1> SUFFICES ASSUME T # {} PROVE FALSE
  OBVIOUS
<1>1. IsWellFoundedOn(R, Nat)
  BY NatLessThanWellFounded, Zenon DEF OpToRel
<1>2. PICK x \in T : \A y \in T : ~(<<y, x>> \in R)
  <2> HIDE DEF R
  <2> QED BY <1>1, WFMin, T \subseteq Nat
<1>3. \A y \in T : ~(y < x)
  BY <1>2
<1>4. x # 0 /\ x - 1 \in Nat
  OBVIOUS
<1>5. x - 1 \in S
  BY <1>3, <1>4
<1>6. QED
  BY <1>4, <1>5

\* f begins with a and goes on step by step.
Steps(f, N, V, a, step) ==
  f \in [0..N -> V] /\ f[0] = a /\ \A n \in 1..N : f[n] = step[n][f[n - 1]]

\* There is such a function, if every step stays in V.
LEMMA Recursion ==
  ASSUME NEW N \in Nat, NEW V, NEW a \in V, NEW step \in [1..N -> [V -> V]]
  PROVE  \E f : Steps(f, N, V, a, step)
<1> DEFINE Solves(f, k) ==
             f \in [0..k -> V] /\ f[0] = a /\ \A n \in 1..k : f[n] = step[n][f[n - 1]]
           S == {k \in Nat : k <= N => \E f : Solves(f, k)}
<1>1. 0 \in S
  <2>1. Solves([n \in 0..0 |-> a], 0)
    OBVIOUS
  <2>2. QED
    BY <2>1
<1>2. ASSUME NEW k \in Nat, k \in S PROVE k + 1 \in S
  <2> SUFFICES ASSUME k + 1 <= N PROVE \E f : Solves(f, k + 1)
    OBVIOUS
  <2>1. PICK f : Solves(f, k)
    BY <1>2
  <2>2. f[k] \in V /\ step[k + 1] \in [V -> V]
    BY <2>1
  <2> DEFINE g == [n \in 0..(k + 1) |-> IF n = k + 1 THEN step[k + 1][f[k]] ELSE f[n]]
  <2>3. g \in [0..(k + 1) -> V]
    BY <2>1, <2>2
  <2>4. g[0] = a
    BY <2>1
  <2>5. ASSUME NEW n \in 1..(k + 1) PROVE g[n] = step[n][g[n - 1]]
    BY <2>1, <2>5
  <2>6. QED
    BY <2>3, <2>4, <2>5
<1>3. N \in S
  <2> HIDE DEF S
  <2> QED BY <1>1, <1>2, SetInduction
<1>4. QED
  BY <1>3 DEF Steps

-----------------------------------------------------------------------------
(* Messages.                                                               *)

Statuses == {"pending", "delivered", "deferred", "bounced"}

\* The gravest of what is told of a message.
Gravest(told) ==
  IF "**" \in told THEN "bounced"
  ELSE IF "=>" \in told THEN "delivered"
  ELSE IF "==" \in told THEN "deferred"
  ELSE IF "Completed" \in told THEN "delivered" ELSE "pending"

\* Nothing is told of a message behind its completion.
CompletedLast(w) ==
  \A i, j \in DOMAIN w : w[i].sym = "Completed" /\ i < j => w[i].msg # w[j].msg

\* What the first n lines tell of m.
Told(w, m, n) == {w[i].sym : i \in {j \in 1..n : w[j].msg = m}}

LEMMA StatusStep ==
  ASSUME NEW told, NEW sym, "Completed" \notin told
  PROVE  StatusAfter(Gravest(told), sym) = Gravest(told \cup {sym})
BY DEF StatusAfter, Gravest

LEMMA StatusType ==
  ASSUME NEW s \in Statuses, NEW sym PROVE StatusAfter(s, sym) \in Statuses
BY DEF StatusAfter, Statuses

\* The status of a message is the gravest that its lines tell.
LEMMA StatusIsGravest ==
  ASSUME NEW L, NEW w \in Seq(L), CompletedLast(w), NEW m
  PROVE  StatusOf(w, m) = Gravest(SymbolsOf(w, m))
<1> DEFINE N == Len(w)
           Mine(n) == w[n].msg = m /\ IsEvent(w[n])
           step == [n \in 1..N |-> [s \in Statuses |->
                      IF Mine(n) THEN StatusAfter(s, w[n].sym) ELSE s]]
           Solves(f) == f = [n \in 0..N |->
                      IF n = 0 THEN "pending"
                      ELSE IF w[n].msg = m /\ IsEvent(w[n])
                           THEN StatusAfter(f[n - 1], w[n].sym) ELSE f[n - 1]]
           status == CHOOSE f : Solves(f)
<1>1. N \in Nat
  OBVIOUS
<1>2. step \in [1..N -> [Statuses -> Statuses]] /\ "pending" \in Statuses
  BY StatusType DEF Statuses
<1>3. PICK f : Steps(f, N, Statuses, "pending", step)
  <2> HIDE DEF step, N
  <2> QED BY <1>1, <1>2, Recursion
<1>4. Solves(f)
  <2> HIDE DEF N, Mine
  <2> USE <1>3 DEF Steps
  <2>1. ASSUME NEW n \in 1..N PROVE f[n] = IF Mine(n) THEN StatusAfter(f[n - 1], w[n].sym) ELSE f[n - 1]
    <3>1. n - 1 \in 0..N
      BY <1>1
    <3>2. f[n - 1] \in Statuses /\ f[n] = step[n][f[n - 1]]
      BY <3>1, Zenon
    <3>3. QED
      BY <3>2
  <2>2. f = [n \in 0..N |-> f[n]]
    BY <1>3
  <2>3. \A n \in 0..N : n = 0 \/ n \in 1..N
    BY <1>1
  <2>4. QED
    BY <1>3, <2>1, <2>2, <2>3 DEF Mine
<1>5. Solves(status)
  BY <1>4, Zenon
<1>6. StatusOf(w, m) = status[N]
  BY Zenon DEF StatusOf
<1>7. status[0] = "pending" /\ \A n \in 1..N :
        status[n] = IF Mine(n) THEN StatusAfter(status[n - 1], w[n].sym) ELSE status[n - 1]
  <2> HIDE DEF N, status
  <2> QED BY <1>1, <1>5
<1> HIDE DEF status, Solves, step
<1> DEFINE S == {k \in Nat : k <= N => status[k] = Gravest(Told(w, m, k))}
<1>8. 0 \in S
  <2>1. Told(w, m, 0) = {}
    BY DEF Told
  <2>2. QED
    BY <1>7, <2>1 DEF Gravest
<1>9. ASSUME NEW k \in Nat, k \in S PROVE k + 1 \in S
  <2> SUFFICES ASSUME k + 1 <= N PROVE status[k + 1] = Gravest(Told(w, m, k + 1))
    OBVIOUS
  <2>1. status[k] = Gravest(Told(w, m, k)) /\ k + 1 \in 1..N /\ k + 1 \in DOMAIN w
    BY <1>1, <1>9
  <2>2. CASE w[k + 1].msg # m
    <3>1. Told(w, m, k + 1) = Told(w, m, k)
      BY <2>2 DEF Told
    <3>2. QED
      BY <1>7, <2>1, <2>2, <3>1
  <2>3. CASE w[k + 1].msg = m
    <3>1. Told(w, m, k + 1) = Told(w, m, k) \cup {w[k + 1].sym}
      BY <2>3 DEF Told
    <3>2. "Completed" \notin Told(w, m, k)
      BY <2>1, <2>3 DEF Told, CompletedLast
    <3>3. CASE IsEvent(w[k + 1])
      BY <1>7, <2>1, <2>3, <3>1, <3>2, <3>3, StatusStep
    <3>4. CASE ~IsEvent(w[k + 1])
      <4>1. Gravest(Told(w, m, k + 1)) = Gravest(Told(w, m, k))
        BY <3>1, <3>4 DEF Gravest, IsEvent, Symbols
      <4>2. QED
        BY <1>7, <2>1, <3>4, <4>1
    <3>5. QED
      BY <3>3, <3>4
  <2>4. QED
    BY <2>2, <2>3
<1>10. N \in S
  <2> HIDE DEF S, N
  <2> QED BY <1>1, <1>8, <1>9, SetInduction
<1>11. Told(w, m, N) = SymbolsOf(w, m)
  BY DEF Told, SymbolsOf
<1>12. QED
  BY <1>6, <1>10, <1>11

\* u is what w ends with.
IsTail(u, w) ==
  Len(u) <= Len(w) /\ \A k \in 1..Len(u) : u[k] = w[Len(w) - Len(u) + k]

LEMMA SubSeqIsTail ==
  ASSUME NEW L, NEW w \in Seq(L), NEW a \in Nat, a <= Len(w)
  PROVE  SubSeq(w, a + 1, Len(w)) \in Seq(L) /\ IsTail(SubSeq(w, a + 1, Len(w)), w)
<1> DEFINE u == SubSeq(w, a + 1, Len(w))
<1>0. DOMAIN w = 1..Len(w)
  OBVIOUS
<1>1. Len(w) \in Nat
  OBVIOUS
<1>2. \A i \in (a + 1)..Len(w) : w[i] \in L
  BY <1>0, <1>1
<1>3. u \in Seq(L) /\ Len(u) = IF a + 1 <= Len(w) THEN Len(w) - (a + 1) + 1 ELSE 0
  BY <1>1, <1>2, SubSeqProperties
<1>4. \A i \in 1 .. Len(w) - (a + 1) + 1 : u[i] = w[(a + 1) + i - 1]
  BY <1>1, <1>2, SubSeqProperties
<1> HIDE DEF u
<1>5. Len(u) = Len(w) - a
  <2>1. CASE a + 1 <= Len(w)
    <3>1. Len(u) = Len(w) - (a + 1) + 1
      BY <1>3, <2>1, Zenon
    <3>2. QED
      BY <1>1, <3>1
  <2>2. CASE ~(a + 1 <= Len(w))
    <3>1. Len(u) = 0
      BY <1>3, <2>2, Zenon
    <3>2. Len(w) - a = 0
      BY <1>1, <2>2
    <3>3. QED
      BY <3>1, <3>2
  <2>3. QED
    BY <2>1, <2>2
<1>6. ASSUME NEW k \in 1..Len(u) PROVE u[k] = w[Len(w) - Len(u) + k]
  <2>1. (a + 1) + k - 1 = Len(w) - Len(u) + k /\ k \in 1 .. Len(w) - (a + 1) + 1
    BY <1>1, <1>5
  <2>2. QED
    BY <1>4, <2>1
<1>7. Len(u) <= Len(w)
  BY <1>1, <1>5
<1>8. QED
  BY <1>3, <1>6, <1>7 DEF u, IsTail

LEMMA LastLinesIsTail ==
  ASSUME NEW L, NEW w \in Seq(L), NEW n \in Nat
  PROVE  LastLines(w, n) \in Seq(L) /\ IsTail(LastLines(w, n), w)
<1>1. Len(w) \in Nat
  OBVIOUS
<1>2. CASE Len(w) > n
  <2>1. LastLines(w, n) = SubSeq(w, (Len(w) - n) + 1, Len(w)) /\ Len(w) - n \in Nat /\ Len(w) - n <= Len(w)
    BY <1>1, <1>2 DEF LastLines
  <2>2. QED
    BY <2>1, SubSeqIsTail
<1>3. CASE ~(Len(w) > n)
  <2>1. LastLines(w, n) = SubSeq(w, 0 + 1, Len(w))
    BY <1>3 DEF LastLines
  <2>2. QED
    BY <1>1, <2>1, SubSeqIsTail
<1>4. QED
  BY <1>2, <1>3

\* The last lines of what a log ends with are what the log ends with.
LEMMA TailOfTail ==
  ASSUME NEW L, NEW w \in Seq(L), NEW u \in Seq(L), NEW v \in Seq(L), IsTail(u, w), IsTail(v, u)
  PROVE  IsTail(v, w)
<1>1. Len(u) \in Nat /\ Len(v) \in Nat /\ Len(w) \in Nat /\ Len(u) <= Len(w) /\ Len(v) <= Len(u)
  BY DEF IsTail
<1>2. ASSUME NEW k \in 1..Len(v) PROVE v[k] = w[Len(w) - Len(v) + k]
  <2>1. v[k] = u[Len(u) - Len(v) + k] /\ Len(u) - Len(v) + k \in 1..Len(u)
    BY <1>1 DEF IsTail
  <2>2. u[Len(u) - Len(v) + k] = w[Len(w) - Len(u) + (Len(u) - Len(v) + k)]
    BY <2>1 DEF IsTail
  <2>3. Len(w) - Len(u) + (Len(u) - Len(v) + k) = Len(w) - Len(v) + k
    BY <1>1
  <2>4. QED
    BY <2>1, <2>2, <2>3
<1>3. QED
  BY <1>1, <1>2 DEF IsTail

\* What a log ends with in which completions come last is such a log.
LEMMA TailCompleted ==
  ASSUME NEW L, NEW w \in Seq(L), NEW u \in Seq(L), IsTail(u, w), CompletedLast(w)
  PROVE  CompletedLast(u)
<1>1. Len(u) \in Nat /\ Len(w) \in Nat /\ Len(u) <= Len(w)
  BY DEF IsTail
<1>2. DOMAIN u = 1..Len(u) /\ DOMAIN w = 1..Len(w)
  OBVIOUS
<1>3. \A i \in DOMAIN u : Len(w) - Len(u) + i \in DOMAIN w /\ u[i] = w[Len(w) - Len(u) + i]
  BY <1>1, <1>2 DEF IsTail
<1> SUFFICES ASSUME NEW i \in DOMAIN u, NEW j \in DOMAIN u, u[i].sym = "Completed", i < j
             PROVE  u[i].msg # u[j].msg
  BY DEF CompletedLast
<1>4. Len(w) - Len(u) + i < Len(w) - Len(u) + j
  BY <1>1, <1>2
<1>5. QED
  BY <1>3, <1>4 DEF CompletedLast

-----------------------------------------------------------------------------
(* Mainlog.                                                                *)

LineState == [msg : Msgs \cup {None}, sym : Symbols \cup {"other"}, at : Nat]

Ascends(s) == \A j, k \in DOMAIN s : j < k => s[j] < s[k]

\* What a read from an offset finds in the first n lines of the file.
Found(off, n) == {i \in (base + 1)..(base + n) : IsEvent(lines[i]) /\ lines[i].at >= off}

\* A number above all others goes to the end.
LEMMA AscendsOn ==
  ASSUME NEW s \in Seq(Nat), Ascends(s), NEW n \in Nat, \A k \in DOMAIN s : s[k] < n
  PROVE  /\ Append(s, n) \in Seq(Nat) /\ Ascends(Append(s, n))
         /\ ToSet(Append(s, n)) = ToSet(s) \cup {n}
<1> DEFINE t == Append(s, n)
<1>1. t \in Seq(Nat) /\ Len(t) = Len(s) + 1 /\ t[Len(s) + 1] = n /\ \A k \in DOMAIN s : t[k] = s[k]
  OBVIOUS
<1>2. DOMAIN t = 1..(Len(s) + 1) /\ DOMAIN s = 1..Len(s) /\ Len(s) \in Nat
  OBVIOUS
<1>3. \A k \in DOMAIN t : k \in DOMAIN s \/ k = Len(s) + 1
  BY <1>2
<1> HIDE DEF t
<1>4. Ascends(t)
  <2> SUFFICES ASSUME NEW j \in DOMAIN t, NEW k \in DOMAIN t, j < k PROVE t[j] < t[k]
    BY DEF Ascends
  <2>1. j \in DOMAIN s
    BY <1>2
  <2>2. CASE k \in DOMAIN s
    BY <1>1, <2>1, <2>2 DEF Ascends
  <2>3. CASE k = Len(s) + 1
    BY <1>1, <2>1, <2>3
  <2>4. QED
    BY <1>3, <2>2, <2>3
<1>5. ToSet(t) = ToSet(s) \cup {n}
  BY <1>1, <1>2, <1>3 DEF ToSet
<1>6. QED
  BY <1>1, <1>4, <1>5 DEF t

\* A read lists the events from its offset on in their order.
LEMMA EventsListed ==
  ASSUME lines \in Seq(LineState), base \in 0..Len(lines), NEW off \in Nat
  PROVE  /\ EventsFrom(off) \in Seq(Nat) /\ Ascends(EventsFrom(off))
         /\ ToSet(EventsFrom(off)) = Found(off, Len(lines) - base)
<1> DEFINE N == Len(lines) - base
           Event(n) == IsEvent(lines[base + n]) /\ lines[base + n].at >= off
           step == [n \in 1..N |-> [s \in Seq(Nat) |->
                      IF Event(n) THEN Append(s, base + n) ELSE s]]
           Solves(f) == f = [n \in 0..N |->
                      IF n = 0 THEN <<>>
                      ELSE IF IsEvent(lines[base + n]) /\ lines[base + n].at >= off
                           THEN Append(f[n - 1], base + n) ELSE f[n - 1]]
           events == CHOOSE f : Solves(f)
<1>1. N \in Nat /\ base \in Nat
  OBVIOUS
<1>2. step \in [1..N -> [Seq(Nat) -> Seq(Nat)]] /\ <<>> \in Seq(Nat)
  <2> HIDE DEF N, Event
  <2> QED BY <1>1
<1>3. PICK f : Steps(f, N, Seq(Nat), <<>>, step)
  <2> HIDE DEF step, N
  <2> QED BY <1>1, <1>2, Recursion
<1>4. Solves(f)
  <2> HIDE DEF N, Event
  <2> USE <1>3 DEF Steps
  <2>1. ASSUME NEW n \in 1..N PROVE f[n] = IF Event(n) THEN Append(f[n - 1], base + n) ELSE f[n - 1]
    <3>1. n - 1 \in 0..N
      BY <1>1
    <3>2. f[n - 1] \in Seq(Nat) /\ f[n] = step[n][f[n - 1]]
      BY <3>1, Zenon
    <3>3. QED
      BY <3>2
  <2>2. f = [n \in 0..N |-> f[n]]
    BY <1>3
  <2>3. \A n \in 0..N : n = 0 \/ n \in 1..N
    BY <1>1
  <2>4. QED
    BY <1>3, <2>1, <2>2, <2>3 DEF Event
<1>5. Solves(events)
  BY <1>4, Zenon
<1>6. EventsFrom(off) = events[N]
  BY Zenon DEF EventsFrom
<1>7. events[0] = <<>> /\ \A n \in 1..N :
        events[n] = IF Event(n) THEN Append(events[n - 1], base + n) ELSE events[n - 1]
  <2> HIDE DEF N, events
  <2>1. 0 \in 0..N /\ \A n \in 1..N : n \in 0..N /\ n # 0
    BY <1>1
  <2>2. events[0] = <<>>
    BY <1>5, <2>1, Zenon
  <2>3. ASSUME NEW n \in 1..N
        PROVE  events[n] = IF Event(n) THEN Append(events[n - 1], base + n) ELSE events[n - 1]
    BY <1>5, <2>1, Zenon
  <2>4. QED
    BY <2>2, <2>3
<1> HIDE DEF events, Solves, step
<1> DEFINE Good(s, k) == s \in Seq(Nat) /\ Ascends(s) /\ ToSet(s) = Found(off, k)
           S == {k \in Nat : k <= N => Good(events[k], k)}
<1>8. 0 \in S
  <2>1. Found(off, 0) = {}
    BY <1>1 DEF Found
  <2>2. <<>> \in Seq(Nat) /\ Ascends(<<>>) /\ ToSet(<<>>) = {}
    BY DEF Ascends, ToSet
  <2>3. QED
    BY <1>7, <2>1, <2>2
<1>9. ASSUME NEW k \in Nat, k \in S PROVE k + 1 \in S
  <2> SUFFICES ASSUME k + 1 <= N PROVE Good(events[k + 1], k + 1)
    OBVIOUS
  <2>1. Good(events[k], k) /\ k + 1 \in 1..N /\ (k + 1) - 1 = k
    BY <1>1, <1>9
  <2>2. CASE ~Event(k + 1)
    <3>1. Found(off, k + 1) = Found(off, k)
      BY <1>1, <2>2 DEF Found
    <3>2. events[k + 1] = events[k]
      BY <1>7, <2>1, <2>2
    <3>3. QED
      BY <2>1, <3>1, <3>2
  <2>3. CASE Event(k + 1)
    <3>1. Found(off, k + 1) = Found(off, k) \cup {base + (k + 1)}
      BY <1>1, <2>3 DEF Found
    <3>2. events[k + 1] = Append(events[k], base + (k + 1))
      BY <1>7, <2>1, <2>3
    <3>3. \A n \in DOMAIN events[k] : events[k][n] < base + (k + 1)
      <4>1. \A n \in DOMAIN events[k] : events[k][n] \in Found(off, k)
        BY <2>1 DEF ToSet
      <4>2. \A i \in Found(off, k) : i < base + (k + 1)
        BY <1>1 DEF Found
      <4>3. QED
        BY <4>1, <4>2
    <3>4. base + (k + 1) \in Nat
      BY <1>1
    <3> HIDE DEF Event, N
    <3>5. QED
      BY <2>1, <3>1, <3>2, <3>3, <3>4, AscendsOn
  <2>4. QED
    BY <2>2, <2>3
<1>10. N \in S
  <2> HIDE DEF S, N
  <2> QED BY <1>1, <1>8, <1>9, SetInduction
<1>11. QED
  BY <1>1, <1>6, <1>10

\* The file in place holds lines[base + 1] onwards, one behind the other, and
\* a completed message is not heard of again.
LogInv ==
  /\ lines \in Seq(LineState) /\ base \in 0..Len(lines) /\ size \in Nat
  /\ base = Len(lines) => size = 0
  /\ \A i \in (base + 1)..Len(lines) : lines[i].at < size
  /\ CompletedLast(lines)
  /\ \A i \in DOMAIN lines : lines[i].sym = "Completed" => lines[i].msg # None

ConnState ==
  [initialized : BOOLEAN, size : Nat, got : Seq(Nat), from : Nat, seen : Nat, file : Nat,
   excused : SUBSET Nat]

\* Where a connection has read to: the lines it has seen are those in front of
\* its offset in the file it read, and that file is in place unless all it has
\* seen is in files that were renamed.
Reading(c) ==
  /\ c.from <= c.seen /\ c.seen <= Len(lines) /\ c.excused \subseteq 1..c.seen
  /\ c.file <= base
  /\ c.file # base => c.seen <= base
  /\ c.file = base =>
       /\ base <= c.seen /\ c.size <= size
       /\ \A i \in (base + 1)..Len(lines) : i <= c.seen <=> lines[i].at < c.size

StreamInv == conn # None =>
  /\ conn \in ConnState
  /\ IF conn.initialized THEN Reading(conn) ELSE conn = Connecting

MainlogInv == LogInv /\ StreamInv /\ DeliversInOrder

-----------------------------------------------------------------------------
LEMMA MainlogInitial == MainlogInit => MainlogInv
<1> SUFFICES ASSUME MainlogInit PROVE MainlogInv
  OBVIOUS
<1> USE DEF MainlogInit
<1>1. LogInv
  <2>1. lines \in Seq(LineState) /\ Len(lines) = 0 /\ DOMAIN lines = {}
    OBVIOUS
  <2>2. QED
    BY <2>1 DEF LogInv, CompletedLast
<1>2. StreamInv /\ DeliversInOrder
  BY DEF StreamInv, DeliversInOrder
<1>3. QED
  BY <1>1, <1>2 DEF MainlogInv

\* A line is added behind the others.
LEMMA LineAdded ==
  ASSUME LogInv, NEW m \in Msgs \cup {None}, NEW sym \in Symbols \cup {"other"}, Log(m, sym)
  PROVE  /\ lines' \in Seq(LineState) /\ Len(lines') = Len(lines) + 1 /\ Len(lines) \in Nat
         /\ lines'[Len(lines')] = [msg |-> m, sym |-> sym, at |-> size]
         /\ \A i \in DOMAIN lines : lines'[i] = lines[i]
         /\ DOMAIN lines = 1..Len(lines) /\ DOMAIN lines' = 1..Len(lines')
         /\ size' \in Nat /\ size' > size /\ base' = base
<1> DEFINE line == [msg |-> m, sym |-> sym, at |-> size]
<1>1. line \in LineState /\ lines \in Seq(LineState) /\ size \in Nat
  BY DEF LogInv, LineState
<1>2. lines' = Append(lines, line) /\ base' = base
  BY DEF Log
<1>3. Length[sym] \in Nat \ {0}
  BY MainlogAssumption
<1>4. size' \in Nat /\ size' > size
  BY <1>1, <1>3 DEF Log
<1> HIDE DEF line
<1>5. lines' \in Seq(LineState) /\ Len(lines') = Len(lines) + 1 /\ Len(lines) \in Nat
  BY <1>1, <1>2
<1>6. lines'[Len(lines')] = line /\ \A i \in DOMAIN lines : lines'[i] = lines[i]
  BY <1>1, <1>2, <1>5
<1>7. DOMAIN lines = 1..Len(lines) /\ DOMAIN lines' = 1..Len(lines')
  BY <1>1, <1>5
<1>8. QED
  BY <1>2, <1>4, <1>5, <1>6, <1>7 DEF line

LEMMA LogGrows ==
  ASSUME LogInv, NEW m \in Msgs \cup {None}, NEW sym \in Symbols \cup {"other"}, Log(m, sym),
         sym = "Completed" => m # None,
         m # None => "Completed" \notin SymbolsOf(lines, m)
  PROVE  LogInv'
<1>a. /\ Len(lines') = Len(lines) + 1 /\ Len(lines) \in Nat
      /\ DOMAIN lines = 1..Len(lines) /\ DOMAIN lines' = 1..Len(lines')
      /\ size' \in Nat /\ size' > size /\ base' = base
  BY LineAdded
<1>b. lines'[Len(lines')] = [msg |-> m, sym |-> sym, at |-> size]
  BY LineAdded
<1>c. \A i \in DOMAIN lines : lines'[i] = lines[i]
  BY LineAdded
<1>1. base \in 0..Len(lines) /\ \A i \in (base + 1)..Len(lines) : lines[i].at < size
  BY DEF LogInv
<1>2. \A i \in DOMAIN lines' : i \in DOMAIN lines \/ i = Len(lines')
  BY <1>a
<1>3. ASSUME NEW i \in (base' + 1)..Len(lines') PROVE lines'[i].at < size'
  <2>1. CASE i = Len(lines')
    BY <1>a, <1>b, <2>1
  <2>2. CASE i # Len(lines')
    <3>1. i \in DOMAIN lines /\ i \in (base + 1)..Len(lines) /\ lines'[i] = lines[i]
      BY <1>a, <1>c, <1>1, <1>3, <2>2
    <3>2. lines[i].at < size /\ lines[i].at \in Nat /\ size \in Nat
      <4>1. lines[i] \in LineState /\ size \in Nat
        BY <3>1 DEF LogInv
      <4>2. QED
        BY <1>1, <3>1, <4>1 DEF LineState
    <3>3. QED
      BY <1>a, <3>1, <3>2
  <2>3. QED
    BY <2>1, <2>2
<1>4. CompletedLast(lines')
  <2> SUFFICES ASSUME NEW i \in DOMAIN lines', NEW j \in DOMAIN lines',
                      lines'[i].sym = "Completed", i < j
               PROVE  lines'[i].msg # lines'[j].msg
    BY DEF CompletedLast
  <2>1. i \in DOMAIN lines /\ lines'[i] = lines[i]
    BY <1>a, <1>c, <1>2
  <2>2. CASE j \in DOMAIN lines
    BY <1>c, <2>1, <2>2 DEF LogInv, CompletedLast
  <2>3. CASE j = Len(lines')
    <3>1. lines'[j].msg = m /\ lines[i].sym = "Completed" /\ lines[i].msg # None
      BY <1>b, <2>1, <2>3 DEF LogInv
    <3>2. CASE m = None
      BY <2>1, <3>1, <3>2
    <3>3. CASE m # None
      <4>1. lines[i].msg # m
        BY <2>1, <3>1, <3>3 DEF SymbolsOf
      <4>2. QED
        BY <2>1, <3>1, <4>1
    <3>4. QED
      BY <3>2, <3>3
  <2>4. QED
    BY <1>2, <2>2, <2>3
<1>5. \A i \in DOMAIN lines' : lines'[i].sym = "Completed" => lines'[i].msg # None
  <2>1. ASSUME NEW i \in DOMAIN lines', lines'[i].sym = "Completed" PROVE lines'[i].msg # None
    <3>1. CASE i \in DOMAIN lines
      BY <1>c, <2>1, <3>1 DEF LogInv
    <3>2. CASE i = Len(lines')
      BY <1>b, <2>1, <3>2
    <3>3. QED
      BY <1>2, <3>1, <3>2
  <2>2. QED
    BY <2>1
<1>6. base' \in 0..Len(lines') /\ base' # Len(lines') /\ size' \in Nat
  BY <1>a, <1>1
<1>7. lines' \in Seq(LineState)
  BY LineAdded
<1>8. QED
  BY <1>7, <1>3, <1>4, <1>5, <1>6 DEF LogInv

\* Which line a step logs.
LEMMA WhoLogs ==
  ASSUME LogInv, (\E m \in Msgs, sym \in Symbols : LogLine(m, sym)) \/ LogOther
  PROVE  \E m \in Msgs \cup {None}, sym \in Symbols \cup {"other"} :
           /\ Log(m, sym)
           /\ sym = "Completed" => m # None
           /\ m # None => "Completed" \notin SymbolsOf(lines, m)
BY MessagesAssumption DEF LogLine, LogOther, MayFollow, Symbols

LEMMA LogStep == MainlogInv /\ [MainlogNext]_mainlogVars => LogInv'
<1> SUFFICES ASSUME MainlogInv, [MainlogNext]_mainlogVars PROVE LogInv'
  OBVIOUS
<1>0. LogInv
  BY DEF MainlogInv
<1>1. CASE (\E m \in Msgs, sym \in Symbols : LogLine(m, sym)) \/ LogOther
  BY <1>0, <1>1, WhoLogs, LogGrows
<1>2. CASE Rename
  BY <1>0, <1>2 DEF LogInv, Rename, CompletedLast
<1>3. CASE UNCHANGED <<lines, base, size>>
  BY <1>0, <1>3 DEF LogInv, CompletedLast
<1>4. QED
  BY <1>1, <1>2, <1>3 DEF MainlogNext, mainlogVars, logVars, Create, Connect, Poll,
     FileMissing, Drop, Fire, Click

\* A connection that does not read does not move.
LEMMA StreamWaits ==
  ASSUME MainlogInv, conn' = conn, topic' = topic,
         lines' = lines /\ base' = base /\ size' = size
  PROVE  StreamInv' /\ DeliversInOrder'
BY DEF MainlogInv, StreamInv, DeliversInOrder, Reading, Connecting

LEMMA StreamBegins ==
  ASSUME conn' = Connecting, topic'
  PROVE  StreamInv' /\ DeliversInOrder'
<1>1. <<>> \in Seq(Nat) /\ DOMAIN <<>> = {} /\ ToSet(<<>>) = {}
  BY DEF ToSet
<1>2. Connecting \in ConnState /\ ~Connecting.initialized
  BY DEF Connecting, ConnState
<1>3. /\ Connecting.got = <<>> /\ Connecting.seen = 0 /\ Connecting.from = 0
  BY DEF Connecting
<1>4. StreamInv'
  BY <1>2 DEF StreamInv, Connecting
<1>5. DeliversInOrder'
  BY <1>1, <1>3 DEF DeliversInOrder
<1>6. QED
  BY <1>4, <1>5

\* The log grows behind what a connection has seen.
LEMMA StreamWhileLogging ==
  ASSUME MainlogInv, NEW m \in Msgs \cup {None}, NEW sym \in Symbols \cup {"other"}, Log(m, sym)
  PROVE  StreamInv' /\ DeliversInOrder'
<1> USE DEF MainlogInv
<1>0. conn' = conn /\ topic' = topic
  BY DEF Log, browser
<1> SUFFICES ASSUME conn # None PROVE StreamInv' /\ DeliversInOrder'
  BY <1>0 DEF StreamInv, DeliversInOrder
<1>a. /\ Len(lines') = Len(lines) + 1 /\ Len(lines) \in Nat
      /\ DOMAIN lines = 1..Len(lines) /\ DOMAIN lines' = 1..Len(lines')
      /\ size' \in Nat /\ size' > size /\ base' = base
  BY LineAdded
<1>b. lines'[Len(lines')] = [msg |-> m, sym |-> sym, at |-> size]
  BY LineAdded
<1>c. \A i \in DOMAIN lines : lines'[i] = lines[i]
  BY LineAdded
<1>1. CASE ~conn.initialized
  BY <1>0, <1>1, StreamBegins DEF StreamInv, DeliversInOrder
<1>2. CASE conn.initialized
  <2>1. conn \in ConnState /\ Reading(conn)
    BY <1>2 DEF StreamInv
  <2>2. /\ conn.from \in Nat /\ conn.seen \in Nat /\ conn.size \in Nat /\ conn.file \in Nat
        /\ size \in Nat /\ base \in Nat /\ base <= Len(lines) /\ Len(lines) \in Nat
    BY <2>1 DEF ConnState, LogInv
  <2>3. Reading(conn)'
    <3>1. /\ conn.from <= conn.seen /\ conn.seen <= Len(lines') /\ conn.excused \subseteq 1..conn.seen
          /\ conn.file <= base' /\ (conn.file # base' => conn.seen <= base')
      BY <1>a, <2>1, <2>2 DEF Reading
    <3>2. ASSUME conn.file = base' PROVE base' <= conn.seen /\ conn.size <= size'
      BY <1>a, <2>1, <2>2, <3>2 DEF Reading
    <3>3. ASSUME conn.file = base', NEW i \in (base' + 1)..Len(lines')
          PROVE  i <= conn.seen <=> lines'[i].at < conn.size
      <4>1. base' = base /\ conn.file = base /\ conn.size <= size /\ conn.seen <= Len(lines)
        BY <1>a, <2>1, <3>3 DEF Reading
      <4>2. CASE i = Len(lines')
        <5>1. lines'[i].at = size /\ i > Len(lines)
          BY <1>a, <1>b, <2>2, <4>2
        <5>2. QED
          BY <2>2, <4>1, <5>1
      <4>3. CASE i # Len(lines')
        <5>1. i \in (base + 1)..Len(lines) /\ i \in DOMAIN lines /\ lines'[i] = lines[i]
          BY <1>a, <1>c, <2>2, <3>3, <4>1, <4>3
        <5>2. QED
          BY <2>1, <4>1, <5>1 DEF Reading
      <4>4. QED
        BY <4>2, <4>3
    <3>4. QED
      BY <1>0, <3>1, <3>2, <3>3 DEF Reading
  <2>4. StreamInv'
    BY <1>0, <1>2, <2>1, <2>3 DEF StreamInv
  <2>5. DeliversInOrder'
    <3>1. \A i \in (conn.from + 1)..conn.seen : i \in DOMAIN lines
      BY <1>a, <2>1, <2>2 DEF Reading
    <3>2. \A i \in (conn.from + 1)..conn.seen : lines'[i] = lines[i]
      BY <1>c, <3>1
    <3>3. QED
      BY <1>0, <3>2 DEF DeliversInOrder
  <2>6. QED
    BY <2>4, <2>5
<1>3. QED
  BY <1>1, <1>2

LEMMA StreamWhileRenaming == MainlogInv /\ Rename => StreamInv' /\ DeliversInOrder'
<1> SUFFICES ASSUME MainlogInv, Rename PROVE StreamInv' /\ DeliversInOrder'
  OBVIOUS
<1> USE DEF MainlogInv
<1>0. conn' = conn /\ topic' = topic /\ lines' = lines /\ base' = Len(lines) /\ size' = 0
  BY DEF Rename, browser
<1>1. DeliversInOrder'
  BY <1>0 DEF DeliversInOrder
<1>2. ASSUME conn # None, conn.initialized PROVE Reading(conn)'
  <2>1. conn \in ConnState /\ Reading(conn)
    BY <1>2 DEF StreamInv
  <2>2. /\ conn.from \in Nat /\ conn.seen \in Nat /\ conn.size \in Nat /\ conn.file \in Nat
        /\ size \in Nat /\ base \in Nat /\ base <= Len(lines) /\ Len(lines) \in Nat
    BY <2>1 DEF ConnState, LogInv
  <2>3. ASSUME conn.file = Len(lines) PROVE base = Len(lines) /\ conn.size <= 0
    BY <2>1, <2>2, <2>3 DEF Reading, LogInv
  <2>4. QED
    BY <1>0, <2>1, <2>2, <2>3 DEF Reading
<1>3. StreamInv'
  BY <1>0, <1>2 DEF StreamInv, Connecting
<1>4. QED
  BY <1>1, <1>3

\* One ascending sequence behind another with greater numbers.
LEMMA AscendsConcat ==
  ASSUME NEW s \in Seq(Nat), NEW t \in Seq(Nat), Ascends(s), Ascends(t),
         \A j \in DOMAIN s, k \in DOMAIN t : s[j] < t[k]
  PROVE  s \o t \in Seq(Nat) /\ Ascends(s \o t) /\ ToSet(s \o t) = ToSet(s) \cup ToSet(t)
<1> DEFINE u == s \o t
<1>1. u \in Seq(Nat) /\ Len(u) = Len(s) + Len(t) /\ Len(s) \in Nat /\ Len(t) \in Nat
  OBVIOUS
<1>2. DOMAIN u = 1..(Len(s) + Len(t)) /\ DOMAIN s = 1..Len(s) /\ DOMAIN t = 1..Len(t)
  BY <1>1
<1>3. \A i \in 1..(Len(s) + Len(t)) : u[i] = IF i <= Len(s) THEN s[i] ELSE t[i - Len(s)]
  BY ConcatProperties
<1> HIDE DEF u
<1>4. \A i \in DOMAIN s : i \in DOMAIN u /\ u[i] = s[i]
  BY <1>1, <1>2, <1>3
<1>5. ASSUME NEW i \in DOMAIN t PROVE i + Len(s) \in DOMAIN u /\ u[i + Len(s)] = t[i]
  <2>1. /\ i + Len(s) \in 1..(Len(s) + Len(t)) /\ ~(i + Len(s) <= Len(s))
        /\ (i + Len(s)) - Len(s) = i
    BY <1>1, <1>2
  <2>2. u[i + Len(s)] = t[(i + Len(s)) - Len(s)]
    BY <1>3, <2>1, Zenon
  <2>3. QED
    BY <1>2, <2>1, <2>2
<1>6. ASSUME NEW i \in DOMAIN u, i \notin DOMAIN s
      PROVE  i > Len(s) /\ i - Len(s) \in DOMAIN t /\ u[i] = t[i - Len(s)]
  <2>1. i > Len(s) /\ i - Len(s) \in DOMAIN t /\ ~(i <= Len(s)) /\ i \in 1..(Len(s) + Len(t))
    BY <1>1, <1>2, <1>6
  <2>2. QED
    BY <1>3, <2>1, Zenon
<1>7. Ascends(u)
  <2> SUFFICES ASSUME NEW j \in DOMAIN u, NEW k \in DOMAIN u, j < k PROVE u[j] < u[k]
    BY DEF Ascends
  <2>1. CASE j \in DOMAIN s /\ k \in DOMAIN s
    BY <1>4, <2>1 DEF Ascends
  <2>2. CASE j \in DOMAIN s /\ k \notin DOMAIN s
    BY <1>4, <1>6, <2>2
  <2>3. CASE j \notin DOMAIN s
    <3>1. j > Len(s) /\ j - Len(s) \in DOMAIN t /\ u[j] = t[j - Len(s)]
      BY <1>6, <2>3
    <3>2. k > Len(s) /\ k \notin DOMAIN s
      BY <1>1, <1>2, <3>1
    <3>3. k - Len(s) \in DOMAIN t /\ u[k] = t[k - Len(s)] /\ j - Len(s) < k - Len(s)
      BY <1>1, <1>2, <1>6, <3>1, <3>2
    <3>4. QED
      BY <3>1, <3>3 DEF Ascends
  <2>4. QED
    BY <2>1, <2>2, <2>3
<1>8. ToSet(u) = ToSet(s) \cup ToSet(t)
  BY <1>4, <1>5, <1>6 DEF ToSet
<1>9. QED
  BY <1>1, <1>7, <1>8 DEF u

\* What a poll finds is what the connection has not seen, but for what it must
\* miss.
LEMMA PollFinds ==
  ASSUME LogInv, conn \in ConnState, Reading(conn)
  PROVE  /\ Seek \in Nat /\ (IF size > Seek THEN size ELSE Seek) = size
         /\ Missed \subseteq (conn.seen + 1)..Len(lines)
         /\ Found(Seek, Len(lines) - base) =
              {i \in (conn.seen + 1)..Len(lines) : IsEvent(lines[i]) /\ i \notin Missed}
<1>1. /\ conn.seen \in Nat /\ conn.size \in Nat /\ conn.file \in Nat /\ conn.seen <= Len(lines)
      /\ size \in Nat /\ base \in Nat /\ base <= Len(lines) /\ Len(lines) \in Nat
  BY DEF ConnState, LogInv, Reading
<1>2. Seek \in Nat /\ (IF size > Seek THEN size ELSE Seek) = size
  BY <1>1 DEF Seek
<1>3. Missed \subseteq (conn.seen + 1)..Len(lines)
  BY DEF Missed
<1>4. \A i \in (base + 1)..Len(lines) : lines[i].at \in Nat
  <2>1. \A i \in (base + 1)..Len(lines) : i \in DOMAIN lines
    BY <1>1 DEF LogInv
  <2>2. \A i \in DOMAIN lines : lines[i] \in LineState
    BY DEF LogInv
  <2>3. QED
    BY <2>1, <2>2 DEF LineState
<1>5. base + (Len(lines) - base) = Len(lines)
  BY <1>1
<1>6. CASE conn.file = base
  <2>1. Seek = conn.size /\ Missed = {} /\ base <= conn.seen
    BY <1>1, <1>6 DEF Reading, Seek, Missed
  <2>2. \A i \in (base + 1)..Len(lines) : i > conn.seen <=> lines[i].at >= Seek
    BY <1>1, <1>4, <1>6, <2>1 DEF Reading
  <2>3. \A i : i \in (conn.seen + 1)..Len(lines) <=> i \in (base + 1)..Len(lines) /\ i > conn.seen
    BY <1>1, <2>1
  <2>4. QED
    BY <1>2, <1>3, <1>5, <2>1, <2>2, <2>3 DEF Found
<1>7. CASE conn.file # base
  <2>1. conn.seen <= base
    BY <1>7 DEF Reading
  <2>2. ASSUME NEW i \in (base + 1)..Len(lines)
        PROVE  i \in (conn.seen + 1)..Len(lines) /\ (i \notin Missed <=> lines[i].at >= Seek)
    BY <1>1, <1>4, <1>7, <2>1, <2>2 DEF Missed, Seek
  <2>3. ASSUME NEW i \in (conn.seen + 1)..Len(lines), i \notin Missed
        PROVE  i \in (base + 1)..Len(lines)
    BY <1>1, <1>7, <2>3 DEF Missed
  <2>4. QED
    BY <1>2, <1>3, <1>5, <2>2, <2>3 DEF Found
<1>8. QED
  BY <1>6, <1>7

LEMMA StreamPolls == MainlogInv /\ Poll => StreamInv' /\ DeliversInOrder'
<1> SUFFICES ASSUME MainlogInv, Poll PROVE StreamInv' /\ DeliversInOrder'
  OBVIOUS
<1> DEFINE new == EventsFrom(Seek)
           seen == Len(lines)
<1>1. LogInv /\ conn # None /\ conn.initialized /\ conn \in ConnState /\ Reading(conn) /\ topic
  BY DEF MainlogInv, Poll, StreamInv, DeliversInOrder
<1>2. lines' = lines /\ base' = base /\ size' = size /\ topic' = topic
  BY DEF Poll, logVars
<1>3. /\ Seek \in Nat /\ Missed \subseteq (conn.seen + 1)..seen
      /\ Found(Seek, seen - base) =
           {i \in (conn.seen + 1)..seen : IsEvent(lines[i]) /\ i \notin Missed}
  BY <1>1, PollFinds
<1>4. new \in Seq(Nat) /\ Ascends(new) /\ ToSet(new) = Found(Seek, seen - base)
  BY <1>1, <1>3, EventsListed DEF LogInv
<1>5. conn' = [conn EXCEPT !.size = size, !.got = @ \o new, !.seen = seen, !.file = base,
                           !.excused = @ \cup Missed]
  <2>1. (IF size > Seek THEN size ELSE Seek) = size
    BY <1>1, PollFinds
  <2>2. QED
    BY <2>1, Zenon DEF Poll
<1> HIDE DEF new
<1>6. /\ conn.seen \in Nat /\ conn.from \in Nat /\ conn.got \in Seq(Nat)
      /\ conn.excused \subseteq 1..conn.seen /\ conn.excused \in SUBSET Nat
      /\ conn.from <= conn.seen /\ conn.seen <= seen /\ seen \in Nat
  BY <1>1 DEF ConnState, Reading, LogInv
<1>7. /\ Ascends(conn.got)
      /\ ToSet(conn.got) = {i \in (conn.from + 1)..conn.seen :
                              IsEvent(lines[i]) /\ i \notin conn.excused}
  BY <1>1 DEF MainlogInv, DeliversInOrder, Ascends
<1>8. \A j \in DOMAIN conn.got, k \in DOMAIN new : conn.got[j] < new[k]
  <2>1. \A j \in DOMAIN conn.got : conn.got[j] \in Nat /\ conn.got[j] <= conn.seen
    <3>1. \A j \in DOMAIN conn.got : conn.got[j] \in ToSet(conn.got)
      BY DEF ToSet
    <3>2. \A i \in ToSet(conn.got) : i \in Nat /\ i <= conn.seen
      BY <1>6, <1>7
    <3>3. QED
      BY <3>1, <3>2
  <2>2. \A k \in DOMAIN new : new[k] \in Nat /\ new[k] > conn.seen
    <3>1. \A k \in DOMAIN new : new[k] \in ToSet(new)
      BY DEF ToSet
    <3>2. \A i \in ToSet(new) : i \in Nat /\ i > conn.seen
      BY <1>3, <1>4, <1>6
    <3>3. QED
      BY <3>1, <3>2
  <2>3. QED
    BY <1>6, <2>1, <2>2
<1> DEFINE got == conn.got \o new
<1>9. got \in Seq(Nat) /\ Ascends(got) /\ ToSet(got) = ToSet(conn.got) \cup ToSet(new)
  BY <1>4, <1>6, <1>7, <1>8, AscendsConcat
<1> HIDE DEF got, seen
<1>10. ToSet(got) = {i \in (conn.from + 1)..seen : IsEvent(lines[i]) /\ i \notin conn.excused \cup Missed}
  <2>1. \A i : i \in (conn.from + 1)..seen <=>
                 i \in (conn.from + 1)..conn.seen \/ i \in (conn.seen + 1)..seen
    BY <1>6
  <2>2. \A i \in (conn.from + 1)..conn.seen : i \notin Missed
    BY <1>3, <1>6
  <2>3. \A i \in (conn.seen + 1)..seen : i \notin conn.excused
    BY <1>6
  <2>4. QED
    BY <1>3, <1>4, <1>7, <1>9, <2>1, <2>2, <2>3
<1>11. conn.excused \cup Missed \subseteq 1..seen /\ conn.excused \cup Missed \in SUBSET Nat
  <2>1. \A i \in Missed : i \in 1..seen
    BY <1>3, <1>6
  <2>2. \A i \in conn.excused : i \in 1..seen
    BY <1>6
  <2>3. 1..seen \in SUBSET Nat
    OBVIOUS
  <2>4. QED
    BY <2>1, <2>2, <2>3
<1>12. /\ conn'.got = got /\ conn'.seen = seen /\ conn'.from = conn.from /\ conn'.file = base
       /\ conn'.size = size /\ conn'.initialized /\ conn'.excused = conn.excused \cup Missed
       /\ conn' \in ConnState
  <2>1. size \in Nat /\ base \in Nat
    BY <1>1 DEF LogInv
  <2>2. QED
    BY <1>1, <1>5, <1>6, <1>9, <1>11, <2>1 DEF ConnState, got
<1>13. Reading(conn)'
  <2>2. /\ size \in Nat /\ base \in Nat /\ base <= seen /\ seen = Len(lines)
        /\ \A i \in (base + 1)..Len(lines) : lines[i].at < size
    BY <1>1 DEF LogInv, seen
  <2>3. QED
    BY <1>2, <1>6, <1>11, <1>12, <2>2 DEF Reading
<1>14. StreamInv'
  BY <1>12, <1>13 DEF StreamInv
<1>15. DeliversInOrder'
  BY <1>1, <1>2, <1>9, <1>10, <1>12 DEF DeliversInOrder, Ascends
<1>16. QED
  BY <1>14, <1>15

LEMMA StreamConnects == MainlogInv /\ Connect => StreamInv' /\ DeliversInOrder'
<1> SUFFICES ASSUME MainlogInv, Connect PROVE StreamInv' /\ DeliversInOrder'
  OBVIOUS
<1>1. LogInv /\ topic /\ topic' = topic /\ lines' = lines /\ base' = base /\ size' = size
  BY DEF MainlogInv, Connect, DeliversInOrder, logVars
<1>2. size \in Nat /\ base \in Nat /\ base <= Len(lines) /\ Len(lines) \in Nat
  BY <1>1 DEF LogInv
<1>3. <<>> \in Seq(Nat) /\ DOMAIN <<>> = {} /\ ToSet(<<>>) = {}
  BY DEF ToSet
<1>4. /\ conn'.got = <<>> /\ conn'.seen = Len(lines) /\ conn'.from = Len(lines) /\ conn'.file = base
      /\ conn'.size = size /\ conn'.initialized /\ conn'.excused = {} /\ conn' \in ConnState
  BY <1>2, <1>3 DEF Connect, Connecting, ConnState
<1>5. Reading(conn)'
  BY <1>1, <1>2, <1>4 DEF Reading, LogInv
<1>6. StreamInv'
  BY <1>4, <1>5 DEF StreamInv
<1>7. DeliversInOrder'
  BY <1>1, <1>2, <1>3, <1>4 DEF DeliversInOrder
<1>8. QED
  BY <1>6, <1>7

LEMMA StreamStep == MainlogInv /\ [MainlogNext]_mainlogVars => StreamInv' /\ DeliversInOrder'
<1> SUFFICES ASSUME MainlogInv, [MainlogNext]_mainlogVars PROVE StreamInv' /\ DeliversInOrder'
  OBVIOUS
<1>1. CASE (\E m \in Msgs, sym \in Symbols : LogLine(m, sym)) \/ LogOther
  BY <1>1, WhoLogs, StreamWhileLogging DEF MainlogInv
<1>2. CASE Rename
  BY <1>2, StreamWhileRenaming
<1>3. CASE Create \/ UNCHANGED mainlogVars
  BY <1>3, StreamWaits DEF Create, mainlogVars, logVars, browser
<1>4. CASE Connect
  BY <1>4, StreamConnects
<1>5. CASE Poll
  BY <1>5, StreamPolls
<1>6. CASE FileMissing \/ Drop
  BY <1>6 DEF FileMissing, Drop, Broken, StreamInv, DeliversInOrder
<1>7. CASE Fire
  <2>1. CASE topic
    BY <1>7, <2>1, StreamBegins DEF Fire
  <2>2. CASE ~topic
    BY <1>7, <2>2 DEF Fire, MainlogInv, StreamInv, DeliversInOrder
  <2>3. QED
    BY <2>1, <2>2
<1>8. CASE Click
  <2>1. CASE conn # None
    BY <1>8, <2>1 DEF Click, StreamInv, DeliversInOrder
  <2>2. CASE conn = None
    BY <1>8, <2>2, StreamBegins DEF Click
  <2>3. QED
    BY <2>1, <2>2
<1>9. QED
  BY <1>1, <1>2, <1>3, <1>4, <1>5, <1>6, <1>7, <1>8 DEF MainlogNext

LEMMA MainlogInvariant == MainlogSpec => []MainlogInv
<1>1. MainlogInv /\ [MainlogNext]_mainlogVars => MainlogInv'
  BY LogStep, StreamStep DEF MainlogInv
<1>2. QED
  BY MainlogInitial, <1>1, PTL DEF MainlogSpec

\* However the file is rotated and the tail toggled, a connection delivers the
\* events it should, in their order, none twice (routers/activity.py:129-142).
THEOREM DeliversInOrderHolds == MainlogSpec => []DeliversInOrder
<1>1. MainlogInv => DeliversInOrder
  BY DEF MainlogInv
<1>2. QED
  BY MainlogInvariant, <1>1, PTL

\* What the page shows of a message is the gravest its lines in the window tell,
\* for any log and any window (services/exim.py:146-168).
THEOREM StatusIsSummaryHolds == MainlogSpec => []StatusIsSummary
<1> DEFINE file == SubSeq(lines, base + 1, Len(lines))
           window == LastLines(file, Window)
<1>1. ASSUME MainlogInv PROVE StatusIsSummary
  <2>1. /\ lines \in Seq(LineState) /\ base \in Nat /\ base <= Len(lines) /\ Len(lines) \in Nat
        /\ CompletedLast(lines)
    BY <1>1 DEF MainlogInv, LogInv
  <2>2. file \in Seq(LineState) /\ CompletedLast(file)
    <3>1. file \in Seq(LineState) /\ IsTail(file, lines)
      BY <2>1, SubSeqIsTail
    <3>2. QED
      BY <2>1, <3>1, TailCompleted
  <2>3. window \in Seq(LineState) /\ CompletedLast(window)
    <3>1. window \in Seq(LineState) /\ IsTail(window, file)
      BY <2>2, LastLinesIsTail, MainlogAssumption
    <3>2. QED
      BY <2>2, <3>1, TailCompleted
  <2> HIDE DEF window
  <2>4. ASSUME NEW m \in DOMAIN Aggregate(window)
        PROVE  Aggregate(window)[m] = Gravest(SymbolsOf(window, m))
    BY <2>3, <2>4, StatusIsGravest DEF Aggregate
  <2>5. QED
    BY <2>4 DEF StatusIsSummary, window, Gravest
<1>2. QED
  BY MainlogInvariant, <1>1, PTL
=============================================================================

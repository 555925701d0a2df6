---------------------------- MODULE LoginProofs ----------------------------
(* Proofs about Login, for any number of browsers, addresses, attempts and *)
(* faults, and all times.                                                   *)
EXTENDS Login, FiniteSetTheorems, TLAPS

USE LoginAssumption DEF Attempts

Asking == {"rate", "password", "otp", "mail"}
Pcs == {"idle", "open"} \cup Asking

\* What the argument needs of the types.
Typed ==
  /\ now \in Nat /\ expires \in Nat
  /\ at \in Seq(Nat) /\ Len(at) <= MaxAttempts
  /\ handler.pc \in Pcs
  /\ handler.pc # "idle" => handler.who \in Browsers /\ handler.n \in Attempts
  /\ sent \in [Attempts -> Nat \cup {None}] /\ uses \in [Attempts -> Nat]
  /\ mailed \subseteq Attempts /\ otp \in Attempts \cup {None}
  /\ session \in [Browsers -> Nat \cup {None}] /\ opener \in [Browsers -> Attempts \cup {0}]

\* Numbers are given in the order of the attempts, and a code is drawn once.
Numbered ==
  /\ handler.pc \in Asking => handler.n = Len(at)
  /\ \A n \in Attempts : n > Len(at) => sent[n] = None
  /\ handler.pc \in {"rate", "password"} => sent[handler.n] = None

\* The stored code was drawn, is the one its end belongs to, and was never used;
\* a code that was used had been mailed, and a code that was mailed had been drawn.
Stored ==
  /\ otp # None => sent[otp] # None /\ uses[otp] = 0 /\ expires = sent[otp] + OtpTTL
  /\ handler.pc = "otp" => otp = None /\ sent[handler.n] # None /\ uses[handler.n] = 0
  /\ handler.pc = "mail" => otp = handler.n
  /\ \A n \in mailed : sent[n] # None
  /\ \A n \in Attempts : uses[n] > 0 => n \in mailed

\* A mailed code stays until it is used or a later one is drawn.
Kept == \A n \in mailed :
  otp = n \/ uses[n] > 0 \/ \E m \in Attempts : m > n /\ sent[m] # None

\* A session goes back to a code that was used once, in time.
OpenedBy(n, t) == n \in mailed /\ uses[n] = 1 /\ t <= sent[n] + OtpTTL
Opened ==
  /\ handler.pc = "open" => OpenedBy(handler.n, now)
  /\ \A b \in Browsers : session[b] # None => session[b] <= now /\ OpenedBy(opener[b], session[b])

CodeInv == Typed /\ Numbered /\ Stored /\ Kept /\ Opened

LEMMA RequestFields ==
  ASSUME NEW pc, NEW who, NEW n, NEW data
  PROVE  LET q == Request(pc, who, n, data)
         IN  q.pc = pc /\ q.who = who /\ q.n = n /\ q.data = data
BY DEF Request

LEMMA IdleFields == Idle.pc = "idle"
BY RequestFields DEF Idle

LEMMA Moves ==
  ASSUME NEW pc, Goto(pc)
  PROVE  handler'.pc = pc /\ handler'.who = handler.who /\ handler'.n = handler.n
BY RequestFields DEF Goto

-----------------------------------------------------------------------------
(* The codes.                                                              *)

LEMMA CodeBegins == Init => CodeInv
<1>1. SUFFICES ASSUME Init PROVE CodeInv
  OBVIOUS
<1>2. handler.pc = "idle"
  BY <1>1, IdleFields DEF Init
<1>3. Typed
  BY <1>1, <1>2 DEF Init, Typed, Pcs
<1>4. Numbered /\ Stored /\ Kept
  BY <1>1, <1>2 DEF Init, Numbered, Stored, Kept, Asking
<1>5. Opened
  BY <1>1, <1>2 DEF Init, Opened
<1>6. QED
  BY <1>3, <1>4, <1>5 DEF CodeInv

\* Between two steps about the code: nothing of it changes, and the request
\* goes on or ends.
LEMMA CodeUntouched ==
  ASSUME CodeInv, UNCHANGED <<now, expires, at, sent, uses, mailed, otp, opener>>,
         \/ handler'.pc = "idle"
         \/ handler' = handler
         \/ handler.pc = "rate" /\ handler'.pc = "password" /\ handler'.who = handler.who
            /\ handler'.n = handler.n,
         \/ session' = session
         \/ \E b \in Browsers : session' = [session EXCEPT ![b] = None]
  PROVE  CodeInv'
<1> USE DEF CodeInv
<1>1. session' \in [Browsers -> Nat \cup {None}]
  BY DEF Typed
<1>2. \A b \in Browsers : session'[b] # None => session'[b] = session[b]
  BY DEF Typed
<1>3. Typed'
  BY <1>1 DEF Typed, Pcs, Asking
<1>4. Numbered'
  BY DEF Numbered, Asking
<1>5. Stored'
  BY DEF Stored
<1>6. Kept'
  BY DEF Kept
<1>7. Opened'
  BY <1>2 DEF Opened, OpenedBy
<1>8. QED
  BY <1>3, <1>4, <1>5, <1>6, <1>7

LEMMA CodeAttempt == ASSUME CodeInv, NEW b \in Browsers, Attempt(b) PROVE CodeInv'
<1> DEFINE n == Len(at) + 1
<1> USE DEF CodeInv
<1>1. handler'.pc = "rate" /\ handler'.who = b /\ handler'.n = n
  BY RequestFields DEF Attempt
<1>2. at' = Append(at, now) /\ Len(at) < MaxAttempts
      /\ UNCHANGED <<now, otp, expires, session, opener, sent, mailed, uses>>
  BY DEF Attempt, sessions, codeHistory
<1>3. at' \in Seq(Nat) /\ Len(at') = n /\ n \in Attempts
  BY <1>2 DEF Typed
<1>4. Typed'
  BY <1>1, <1>2, <1>3 DEF Typed, Pcs, Asking
<1>5. Numbered'
  BY <1>1, <1>2, <1>3 DEF Typed, Numbered, Asking
<1>6. Stored' /\ Kept' /\ Opened'
  BY <1>1, <1>2 DEF Stored, Kept, Opened, OpenedBy
<1>7. QED
  BY <1>4, <1>5, <1>6

\* A new code: the one before it is replaced by a later one.
LEMMA CodeDrawn == ASSUME CodeInv, RightPassword PROVE CodeInv'
<1> DEFINE n == handler.n
<1> USE DEF CodeInv
<1>1. handler'.pc = "otp" /\ handler'.who = handler.who /\ handler'.n = n /\ handler.pc = "password"
  BY Moves DEF RightPassword, At
<1>2. otp' = None /\ sent' = [sent EXCEPT ![n] = now]
      /\ UNCHANGED <<now, expires, session, opener, at, mailed, uses>>
  BY DEF RightPassword, sessions
<1>3. n \in Attempts /\ n = Len(at) /\ sent[n] = None
  BY <1>1 DEF Typed, Numbered, Asking
<1>4. n \notin mailed /\ uses[n] = 0 /\ otp # n
  BY <1>3 DEF Typed, Stored
<1>5. sent'[n] = now /\ sent'[n] # None /\ \A m \in Attempts \ {n} : sent'[m] = sent[m]
  BY <1>2, <1>3 DEF Typed
<1>6. Typed'
  BY <1>1, <1>2, <1>3 DEF Typed, Pcs, Asking
<1>7. Numbered'
  BY <1>1, <1>2, <1>3, <1>5 DEF Typed, Numbered, Asking
<1>8. Stored'
  BY <1>1, <1>2, <1>3, <1>4, <1>5 DEF Typed, Stored
<1>9. Kept'
  <2>1. ASSUME NEW m \in mailed PROVE m < n
    <3>1. m \in Attempts /\ m # n /\ sent[m] # None
      BY <1>4 DEF Typed, Stored
    <3>2. Len(at) \in Nat
      BY DEF Typed
    <3>3. ~(m > Len(at))
      BY <3>1 DEF Numbered
    <3>4. QED
      BY <1>3, <3>1, <3>2, <3>3
  <2>2. QED
    BY <1>2, <1>3, <1>5, <2>1 DEF Kept, Typed
<1>10. Opened'
  BY <1>1, <1>2, <1>4, <1>5 DEF Opened, OpenedBy, Typed
<1>11. QED
  BY <1>6, <1>7, <1>8, <1>9, <1>10

LEMMA CodeWritten == ASSUME CodeInv, WriteOtp PROVE CodeInv'
<1> USE DEF CodeInv
<1>1. handler'.pc = "mail" /\ handler'.who = handler.who /\ handler'.n = handler.n /\ handler.pc = "otp"
  BY Moves DEF WriteOtp, At
<1>2. otp' = handler.n /\ expires' = sent[handler.n] + OtpTTL
      /\ UNCHANGED <<now, session, opener, at, sent, mailed, uses>>
  BY DEF WriteOtp, sessions, codeHistory
<1>3. handler.n \in Attempts /\ otp = None /\ sent[handler.n] \in Nat /\ uses[handler.n] = 0
  BY <1>1 DEF Typed, Stored
<1>4. Typed'
  BY <1>1, <1>2, <1>3 DEF Typed, Pcs, Asking
<1>5. Numbered' /\ Stored'
  BY <1>1, <1>2, <1>3 DEF Numbered, Stored, Asking
<1>6. Kept'
  BY <1>2, <1>3 DEF Kept, Typed
<1>7. Opened'
  BY <1>1, <1>2 DEF Opened, OpenedBy
<1>8. QED
  BY <1>4, <1>5, <1>6, <1>7

LEMMA CodeMailed == ASSUME CodeInv, Mail PROVE CodeInv'
<1> USE DEF CodeInv
<1>1. handler'.pc = "idle" /\ handler.pc = "mail"
  BY IdleFields DEF Mail, End, At
<1>2. mailed' = mailed \cup {handler.n}
      /\ UNCHANGED <<now, otp, expires, session, opener, at, sent, uses>>
  BY DEF Mail, sessions
<1>3. handler.n \in Attempts /\ otp = handler.n /\ sent[handler.n] # None
  BY <1>1 DEF Typed, Stored
<1>4. Typed'
  BY <1>1, <1>2, <1>3 DEF Typed, Pcs
<1>5. Numbered' /\ Stored'
  BY <1>1, <1>2, <1>3 DEF Numbered, Stored, Asking
<1>6. Kept'
  BY <1>2, <1>3 DEF Kept
<1>7. Opened'
  BY <1>1, <1>2 DEF Opened, OpenedBy
<1>8. QED
  BY <1>4, <1>5, <1>6, <1>7

LEMMA CodeAccepted ==
  ASSUME CodeInv, NEW b \in Browsers, NEW n \in Attempts \cup {0}, Accept(b, n) PROVE CodeInv'
<1> USE DEF CodeInv
<1>1. handler'.pc = "open" /\ handler'.who = b /\ handler'.n = n
  BY RequestFields DEF Accept
<1>2. n \in mailed /\ n = otp /\ now <= expires
  BY DEF Accept, Accepts, Good
<1>3. otp' = None /\ uses' = [uses EXCEPT ![n] = @ + 1]
      /\ UNCHANGED <<now, expires, session, opener, at, sent, mailed>>
  BY DEF Accept, sessions
<1>4. n \in Attempts /\ uses[n] = 0 /\ sent[n] \in Nat /\ expires = sent[n] + OtpTTL
  BY <1>2 DEF Typed, Stored
<1>5. uses'[n] = 1 /\ \A m \in Attempts \ {n} : uses'[m] = uses[m]
  BY <1>3, <1>4 DEF Typed
<1>6. Typed'
  BY <1>1, <1>3, <1>4 DEF Typed, Pcs, Asking
<1>7. Numbered'
  BY <1>1, <1>3 DEF Numbered, Asking
<1>8. Stored'
  BY <1>1, <1>2, <1>3, <1>5 DEF Stored
<1>9. Kept'
  BY <1>2, <1>3, <1>5 DEF Kept, Typed
<1>10. Opened'
  <2>1. OpenedBy(n, now)'
    BY <1>2, <1>3, <1>4, <1>5 DEF OpenedBy
  <2>2. ASSUME NEW c \in Browsers, session[c] # None
        PROVE  session[c] <= now /\ OpenedBy(opener[c], session[c])'
    <3>1. session[c] <= now /\ OpenedBy(opener[c], session[c])
      BY <2>2 DEF Opened
    <3>2. opener[c] # n /\ opener[c] \in Attempts
      BY <1>4, <3>1 DEF OpenedBy, Typed
    <3>3. QED
      BY <1>3, <1>5, <3>1, <3>2 DEF OpenedBy
  <2>3. QED
    BY <1>1, <1>3, <2>1, <2>2 DEF Opened
<1>11. QED
  BY <1>6, <1>7, <1>8, <1>9, <1>10

LEMMA CodeOpens == ASSUME CodeInv, Open PROVE CodeInv'
<1> USE DEF CodeInv
<1>1. handler'.pc = "idle" /\ handler.pc = "open"
  BY IdleFields DEF Open, End, At
<1>2. session' = [session EXCEPT ![handler.who] = now]
      /\ opener' = [opener EXCEPT ![handler.who] = handler.n]
      /\ UNCHANGED <<now, otp, expires, at, sent, mailed, uses>>
  BY DEF Open, codeHistory
<1>3. handler.who \in Browsers /\ handler.n \in Attempts /\ OpenedBy(handler.n, now)
  BY <1>1 DEF Typed, Opened
<1>4. Typed'
  BY <1>1, <1>2, <1>3 DEF Typed, Pcs
<1>5. Numbered' /\ Stored' /\ Kept'
  BY <1>1, <1>2 DEF Numbered, Stored, Kept, Asking
<1>6. Opened'
  BY <1>1, <1>2, <1>3 DEF Opened, OpenedBy, Typed
<1>7. QED
  BY <1>4, <1>5, <1>6

LEMMA CodeTick == ASSUME CodeInv, Tick PROVE CodeInv'
<1> USE DEF CodeInv
<1>1. handler.pc \in {"idle", "mail"} /\ now' = now + 1
      /\ UNCHANGED <<handler, otp, expires, session, opener, at, sent, mailed, uses>>
  BY DEF Tick, At, sessions, codeHistory
<1>2. Typed' /\ Numbered' /\ Stored' /\ Kept'
  BY <1>1 DEF Typed, Numbered, Stored, Kept
<1>3. Opened'
  BY <1>1 DEF Opened, OpenedBy, Typed
<1>4. QED
  BY <1>2, <1>3

LEMMA CodeStep == CodeInv /\ [Next]_vars => CodeInv'
<1>1. SUFFICES ASSUME CodeInv, [Next]_vars PROVE CodeInv'
  OBVIOUS
<1> USE <1>1
<1>2. CASE UNCHANGED vars
  BY <1>2, CodeUntouched DEF vars
<1>3. ASSUME NEW b \in Browsers, Attempt(b) PROVE CodeInv'
  BY <1>3, CodeAttempt
<1>4. ASSUME NEW b \in Browsers, Logout(b) PROVE CodeInv'
  BY <1>4, CodeUntouched DEF Logout, codeHistory
<1>5. ASSUME NEW b \in Browsers, NEW n \in Attempts \cup {0}, Accept(b, n) PROVE CodeInv'
  BY <1>5, CodeAccepted
<1>6. CASE WriteRates
  <2>1. handler.pc = "rate" /\ handler'.pc = "password" /\ handler'.who = handler.who
        /\ handler'.n = handler.n
    BY <1>6, Moves DEF WriteRates, At
  <2>2. UNCHANGED <<now, expires, at, sent, uses, mailed, otp, opener, session>>
    BY <1>6 DEF WriteRates, sessions, codeHistory
  <2>3. QED
    BY <2>1, <2>2, CodeUntouched
<1>7. CASE WrongPassword \/ MailFails \/ Stop
  <2>1. handler'.pc = "idle"
    BY <1>7, IdleFields DEF WrongPassword, MailFails, Stop, End
  <2>2. UNCHANGED <<now, expires, at, sent, uses, mailed, otp, opener, session>>
    BY <1>7 DEF WrongPassword, MailFails, Stop, sessions, codeHistory
  <2>3. QED
    BY <2>1, <2>2, CodeUntouched
<1>8. CASE RightPassword \/ WriteOtp \/ Mail \/ Open \/ Tick
  BY <1>8, CodeDrawn, CodeWritten, CodeMailed, CodeOpens, CodeTick
<1>9. CASE \E b \in Browsers : Refuse(b) \/ \E n \in Attempts \cup {0} : RefuseCode(b, n)
  BY <1>2, <1>9 DEF Refuse, RefuseCode
<1>10. QED
  BY <1>2, <1>3, <1>4, <1>5, <1>6, <1>7, <1>8, <1>9 DEF Next

LEMMA CodeInvHolds == Spec => []CodeInv
<1>1. QED
  BY CodeBegins, CodeStep, PTL DEF Spec

\* A mailed code is refused only for one of the reasons named, for any number of
\* browsers, attempts and stops.
THEOREM RefusalIsExcusedHolds == Spec => []RefusalIsExcused
<1>1. CodeInv => RefusalIsExcused
  <2>1. SUFFICES ASSUME CodeInv, NEW n \in mailed, otp = n
                 PROVE  Accepts(n) \/ now > sent[n] + OtpTTL
    BY DEF CodeInv, Kept, RefusalIsExcused
  <2>2. n \in Attempts /\ n # None /\ expires = sent[n] + OtpTTL
    BY <2>1 DEF CodeInv, Typed, Stored
  <2>3. now \in Nat /\ expires \in Nat
    BY <2>1 DEF CodeInv, Typed
  <2>4. QED
    BY <2>1, <2>2, <2>3 DEF Accepts, Good
<1>2. QED
  BY <1>1, CodeInvHolds, PTL

\* Every session goes back to one code, for all times to live.
THEOREM AccessGoesBackToOneCodeHolds == Spec => []AccessGoesBackToOneCode
<1>1. CodeInv => AccessGoesBackToOneCode
  <2>1. SUFFICES ASSUME CodeInv, NEW b \in Browsers, SignedIn(b)
                 PROVE  /\ opener[b] \in mailed /\ uses[opener[b]] = 1
                        /\ now <= sent[opener[b]] + OtpTTL + SessionTTL
    BY DEF AccessGoesBackToOneCode
  <2>2. OpenedBy(opener[b], session[b]) /\ session[b] \in Nat /\ now <= session[b] + SessionTTL
    BY <2>1 DEF CodeInv, Opened, SignedIn, Typed
  <2>3. sent[opener[b]] \in Nat
    BY <2>1, <2>2 DEF CodeInv, Stored, OpenedBy, Typed
  <2>4. now \in Nat
    BY <2>1 DEF CodeInv, Typed
  <2>5. QED
    BY <2>2, <2>3, <2>4 DEF OpenedBy
<1>2. QED
  BY <1>1, CodeInvHolds, PTL

-----------------------------------------------------------------------------
(* The limit.                                                              *)

\* The attempts that count for ip: as the limit's file has them, or will have
\* them once it is written, they are those on record.
Listed == IF handler.pc = "rate" THEN handler.data ELSE rates
OnRecord(ip) ==
  IF handler.pc = "rate" /\ ip = IpOf[handler.who] THEN passed[ip] \cup {handler.n} ELSE passed[ip]

Counted ==
  /\ passed \in [Ips -> SUBSET (1 .. Len(at))]
  /\ Listed \in [Ips -> SUBSET (1 .. Len(at))]
  /\ handler.pc = "rate" => rates = NoRates
  /\ \A ip \in Ips : Recent(Listed[ip]) = Recent(OnRecord(ip))
  /\ \A ip \in Ips : Cardinality(Recent(Listed[ip])) <= Limit

LimitInv == CodeInv /\ Counted

LEMMA Fewer ==
  ASSUME NEW n \in Nat, NEW S \in SUBSET (1 .. n), NEW T \in SUBSET S
  PROVE  /\ IsFiniteSet(S) /\ Cardinality(S) \in Nat
         /\ Cardinality(T) \in Nat /\ Cardinality(T) <= Cardinality(S)
<1>1. IsFiniteSet(1 .. n)
  BY FS_Interval
<1>2. IsFiniteSet(S)
  BY <1>1, FS_Subset
<1>3. IsFiniteSet(T) /\ Cardinality(T) <= Cardinality(S)
  BY <1>2, FS_Subset
<1>4. QED
  BY <1>2, <1>3, FS_CardinalityType

LEMMA LimitBegins == Init => LimitInv
<1>1. SUFFICES ASSUME Init PROVE Counted
  BY CodeBegins DEF LimitInv
<1>2. handler.pc = "idle" /\ rates = NoRates /\ passed = NoRates
  BY <1>1, IdleFields DEF Init
<1>3. \A ip \in Ips : Recent(NoRates[ip]) = {}
  BY DEF Recent, NoRates
<1>4. \A ip \in Ips : Listed[ip] = NoRates[ip] /\ OnRecord(ip) = NoRates[ip]
  BY <1>2 DEF Listed, OnRecord
<1>5. Cardinality({}) = 0
  BY FS_EmptySet
<1>6. \A ip \in Ips : Recent(Listed[ip]) = {} /\ Recent(OnRecord(ip)) = {}
  BY <1>3, <1>4
<1>7. Len(at) = 0
  BY <1>1 DEF Init
<1>8. Listed \in [Ips -> SUBSET (1 .. Len(at))] /\ passed \in [Ips -> SUBSET (1 .. Len(at))]
  BY <1>2, <1>7 DEF Listed, NoRates
<1>9. \A ip \in Ips : Cardinality(Recent(Listed[ip])) = 0 /\ Recent(Listed[ip]) = Recent(OnRecord(ip))
  BY <1>5, <1>6, Zenon
<1>10. 0 <= Limit
  OBVIOUS
<1>11. QED
  BY <1>2, <1>8, <1>9, <1>10 DEF Counted

\* Neither the list nor the record changes, and no list is being written.
LEMMA LimitUntouched ==
  ASSUME Counted, handler.pc # "rate", handler'.pc # "rate",
         UNCHANGED <<now, at, rates, passed>>
  PROVE  Counted'
<1>1. Listed = rates /\ Listed' = rates /\ \A ip \in Ips : OnRecord(ip) = passed[ip] /\ OnRecord(ip)' = passed[ip]
  BY DEF Listed, OnRecord
<1>2. \A ip \in Ips : Recent(rates[ip])' = Recent(rates[ip]) /\ Recent(passed[ip])' = Recent(passed[ip])
  BY DEF Recent
<1>3. \A ip \in Ips : Recent(Listed[ip])' = Recent(rates[ip]) /\ Recent(OnRecord(ip))' = Recent(passed[ip])
  BY <1>1, <1>2 DEF Recent
<1>4. QED
  BY <1>1, <1>3 DEF Counted

LEMMA LimitAttempt == ASSUME LimitInv, NEW b \in Browsers, Attempt(b) PROVE Counted'
<1> DEFINE own == IpOf[b]
           n == Len(at) + 1
           data == [rates EXCEPT ![own] = Recent(rates[own]) \cup {n}]
<1>1. handler'.pc = "rate" /\ handler'.who = b /\ handler'.n = n /\ handler'.data = data
      /\ handler.pc = "idle"
  BY RequestFields DEF Attempt, At
<1>2. at' = Append(at, now) /\ rates' = NoRates /\ UNCHANGED <<now, passed>> /\ ~Full(own)
  BY DEF Attempt
<1>3. own \in Ips /\ now \in Nat /\ at \in Seq(Nat) /\ Len(at) \in Nat
  BY DEF LimitInv, CodeInv, Typed
<1>4. at' \in Seq(Nat) /\ Len(at') = n /\ \A k \in 1 .. Len(at) : at'[k] = at[k]
  BY <1>2, <1>3
<1>5. rates \in [Ips -> SUBSET (1 .. Len(at))] /\ passed \in [Ips -> SUBSET (1 .. Len(at))]
  BY <1>1 DEF LimitInv, Counted, Listed
<1>6. \A ip \in Ips : Recent(rates[ip]) = Recent(passed[ip]) /\ Cardinality(Recent(rates[ip])) <= Limit
  BY <1>1 DEF LimitInv, Counted, Listed, OnRecord
<1>7. data \in [Ips -> SUBSET (1 .. n)] /\ data[own] = Recent(rates[own]) \cup {n}
      /\ \A ip \in Ips \ {own} : data[ip] = rates[ip]
  BY <1>3, <1>5 DEF Recent
<1> HIDE DEF own, n, data
<1>8. \A ip \in Ips : Listed[ip]' = data[ip]
      /\ OnRecord(ip)' = IF ip = own THEN passed[ip] \cup {n} ELSE passed[ip]
  BY <1>1, <1>2 DEF Listed, OnRecord, own
<1>9. ASSUME NEW ip \in Ips
      PROVE  Recent(Listed[ip])' = Recent(OnRecord(ip))' /\ Cardinality(Recent(Listed[ip])') <= Limit
  <2>1. {k \in rates[ip] : now' - at'[k] < Window} = Recent(rates[ip])
        /\ {k \in passed[ip] : now' - at'[k] < Window} = Recent(rates[ip])
    <3>1. \A k \in rates[ip] \cup passed[ip] : at'[k] = at[k]
      BY <1>4, <1>5
    <3>2. QED
      BY <1>2, <1>6, <3>1 DEF Recent
  <2>2. Recent(Listed[ip])' = {k \in data[ip] : now' - at'[k] < Window}
    BY <1>8 DEF Recent
  <2>3. CASE ip # own
    <3>1. Recent(OnRecord(ip))' = {k \in passed[ip] : now' - at'[k] < Window}
      BY <1>8, <2>3 DEF Recent
    <3>2. QED
      BY <1>6, <1>7, <2>1, <2>2, <2>3, <3>1
  <2>4. CASE ip = own
    <3>1. Recent(OnRecord(ip))' = {k \in passed[ip] \cup {n} : now' - at'[k] < Window}
      BY <1>8, <2>4 DEF Recent
    <3>2. \A k \in Recent(rates[ip]) : now' - at'[k] < Window
      BY <2>1
    <3>3. Recent(Listed[ip])' = Recent(OnRecord(ip))'
      BY <1>7, <2>1, <2>2, <2>4, <3>1, <3>2
    <3>4. Recent(rates[own]) \in SUBSET (1 .. Len(at))
      BY <1>3, <1>5 DEF Recent
    <3>5. IsFiniteSet(Recent(rates[own])) /\ Cardinality(Recent(rates[own])) \in Nat
      BY <1>3, <3>4, Fewer
    <3>6. Cardinality(data[own]) <= Cardinality(Recent(rates[own])) + 1
      <4> DEFINE S == Recent(rates[own])
      <4> HIDE DEF S
      <4>1. IsFiniteSet(S) /\ Cardinality(S) \in Nat
        BY <3>5 DEF S
      <4>2. Cardinality(S \cup {n}) = IF n \in S THEN Cardinality(S) ELSE Cardinality(S) + 1
        BY <4>1, FS_AddElement
      <4>3. Cardinality(S \cup {n}) <= Cardinality(S) + 1
        BY <4>1, <4>2
      <4>4. QED
        BY <1>7, <4>3 DEF S
    <3>7. Cardinality(Recent(rates[own])) < Limit
      BY <1>2, <1>3, <3>5 DEF Full
    <3>8. Recent(Listed[ip])' \in SUBSET data[own] /\ data[own] \in SUBSET (1 .. n) /\ n \in Nat
      BY <1>3, <1>7, <2>2, <2>4 DEF n
    <3>9. Cardinality(Recent(Listed[ip])') <= Cardinality(data[own])
          /\ Cardinality(data[own]) \in Nat /\ Cardinality(Recent(Listed[ip])') \in Nat
      BY <3>8, Fewer
    <3>10. QED
      BY <3>3, <3>5, <3>6, <3>7, <3>9
  <2>5. QED
    BY <2>3, <2>4
<1>10. passed' \in [Ips -> SUBSET (1 .. Len(at'))] /\ Listed' \in [Ips -> SUBSET (1 .. Len(at'))]
  BY <1>1, <1>2, <1>3, <1>4, <1>5, <1>7 DEF Listed, n
<1>11. QED
  BY <1>1, <1>2, <1>9, <1>10 DEF Counted

LEMMA LimitWrites == ASSUME LimitInv, WriteRates PROVE Counted'
<1>1. handler.pc = "rate" /\ handler'.pc = "password"
  BY Moves DEF WriteRates, At
<1>2. rates' = handler.data /\ passed' = [passed EXCEPT ![IpOf[handler.who]] = @ \cup {handler.n}]
      /\ UNCHANGED <<now, at>>
  BY DEF WriteRates
<1>3. handler.who \in Browsers /\ handler.n = Len(at) /\ handler.n \in Attempts
  BY <1>1 DEF LimitInv, CodeInv, Typed, Numbered, Asking
<1>4. passed \in [Ips -> SUBSET (1 .. Len(at))]
  BY DEF LimitInv, Counted
<1>5. passed' \in [Ips -> SUBSET (1 .. Len(at))]
      /\ \A ip \in Ips : passed'[ip] = OnRecord(ip)
  <2>1. IpOf[handler.who] \in Ips /\ handler.n \in 1 .. Len(at)
    BY <1>3
  <2>2. passed' \in [Ips -> SUBSET (1 .. Len(at))]
    BY <1>2, <1>4, <2>1
  <2>3. \A ip \in Ips : passed'[ip] = OnRecord(ip)
    BY <1>1, <1>2, <1>4, <2>1 DEF OnRecord
  <2>4. QED
    BY <2>2, <2>3
<1>6. \A ip \in Ips : Listed'[ip] = Listed[ip] /\ OnRecord(ip)' = OnRecord(ip)
  BY <1>1, <1>2, <1>5 DEF Listed, OnRecord
<1>7. \A ip \in Ips : Recent(Listed[ip])' = Recent(Listed[ip]) /\ Recent(OnRecord(ip))' = Recent(OnRecord(ip))
  BY <1>2, <1>6 DEF Recent
<1>8. Listed' = Listed
  BY <1>1, <1>2 DEF Listed
<1>9. QED
  BY <1>1, <1>2, <1>5, <1>7, <1>8 DEF LimitInv, Counted

\* A stop in the middle of the rewriting loses the list, and the record with it.
LEMMA LimitStops == ASSUME LimitInv, Stop PROVE Counted'
<1>1. handler'.pc = "idle" /\ UNCHANGED <<now, at, rates>>
  BY IdleFields DEF Stop
<1>2. CASE handler.pc # "rate"
  <2>1. passed' = passed
    BY <1>2 DEF Stop, At
  <2>2. QED
    BY <1>1, <1>2, <2>1, LimitUntouched DEF LimitInv
<1>3. CASE handler.pc = "rate"
  <2>1. passed' = NoRates /\ rates' = NoRates
    BY <1>1, <1>3 DEF Stop, At, LimitInv, Counted
  <2>2. Listed' = NoRates /\ \A ip \in Ips : OnRecord(ip)' = {} /\ NoRates[ip] = {}
    BY <1>1, <2>1 DEF Listed, OnRecord, NoRates
  <2>3. \A ip \in Ips : Recent(Listed[ip])' = {} /\ Recent(OnRecord(ip))' = {}
    BY <2>2 DEF Recent
  <2>4. Cardinality({}) = 0
    BY FS_EmptySet
  <2>5. NoRates \in [Ips -> SUBSET (1 .. Len(at'))]
    BY DEF NoRates
  <2>6. \A ip \in Ips : /\ Cardinality(Recent(Listed[ip])') = 0
                        /\ Recent(Listed[ip])' = Recent(OnRecord(ip))'
    BY <2>3, <2>4, Zenon
  <2>7. 0 <= Limit
    OBVIOUS
  <2>8. QED
    BY <1>1, <2>1, <2>2, <2>5, <2>6, <2>7 DEF Counted
<1>4. QED
  BY <1>2, <1>3

LEMMA LimitTick == ASSUME LimitInv, Tick PROVE Counted'
<1>1. handler.pc # "rate" /\ now' = now + 1 /\ UNCHANGED <<handler, at, rates, passed>>
  BY DEF Tick, At
<1>2. Listed = rates /\ Listed' = rates /\ \A ip \in Ips : OnRecord(ip) = passed[ip] /\ OnRecord(ip)' = passed[ip]
  BY <1>1 DEF Listed, OnRecord
<1>3. rates \in [Ips -> SUBSET (1 .. Len(at))] /\ passed \in [Ips -> SUBSET (1 .. Len(at))]
      /\ at \in Seq(Nat) /\ now \in Nat /\ Len(at) \in Nat
  BY <1>2 DEF LimitInv, CodeInv, Typed, Counted
<1>4. \A ip \in Ips : Recent(rates[ip]) = Recent(passed[ip]) /\ Cardinality(Recent(rates[ip])) <= Limit
  BY <1>2 DEF LimitInv, Counted
<1>5. ASSUME NEW ip \in Ips
      PROVE  Recent(Listed[ip])' = Recent(OnRecord(ip))' /\ Cardinality(Recent(Listed[ip])') <= Limit
  <2>1. Recent(Listed[ip])' = {k \in rates[ip] : now' - at'[k] < Window}
        /\ Recent(OnRecord(ip))' = {k \in passed[ip] : now' - at'[k] < Window}
    <3>1. Listed[ip]' = rates[ip] /\ OnRecord(ip)' = passed[ip]
      BY <1>2
    <3>2. QED
      BY <3>1 DEF Recent
  <2>2. \A k \in rates[ip] \cup passed[ip] : at[k] \in Nat
    BY <1>3
  <2>3. {k \in rates[ip] : now' - at'[k] < Window} = {k \in Recent(rates[ip]) : now' - at'[k] < Window}
        /\ {k \in passed[ip] : now' - at'[k] < Window} = {k \in Recent(passed[ip]) : now' - at'[k] < Window}
    <3>1. \A k \in rates[ip] \cup passed[ip] : now' - at'[k] < Window => now - at[k] < Window
      BY <1>1, <1>3, <2>2
    <3>2. QED
      BY <3>1 DEF Recent
  <2>4. Recent(rates[ip]) \in SUBSET (1 .. Len(at)) /\ Recent(Listed[ip])' \in SUBSET Recent(rates[ip])
    BY <1>3, <2>1, <2>3 DEF Recent
  <2>5. Cardinality(Recent(Listed[ip])') <= Cardinality(Recent(rates[ip]))
        /\ Cardinality(Recent(rates[ip])) \in Nat /\ Cardinality(Recent(Listed[ip])') \in Nat
    BY <1>3, <2>4, Fewer
  <2>6. QED
    BY <1>4, <2>1, <2>3, <2>5
<1>6. QED
  BY <1>1, <1>2, <1>3, <1>5 DEF Counted

LEMMA LimitStep == LimitInv /\ [Next]_vars => LimitInv'
<1>1. SUFFICES ASSUME LimitInv, [Next]_vars PROVE Counted'
  BY CodeStep DEF LimitInv
<1> USE <1>1
<1>2. CASE UNCHANGED vars
  BY <1>2 DEF vars, LimitInv, Counted, Listed, OnRecord, Recent
<1>3. ASSUME NEW b \in Browsers, Attempt(b) PROVE Counted'
  BY <1>3, LimitAttempt
<1>4. ASSUME NEW b \in Browsers, Logout(b) PROVE Counted'
  BY <1>4, LimitUntouched DEF Logout, LimitInv, At
<1>5. ASSUME NEW b \in Browsers, NEW n \in Attempts \cup {0}, Accept(b, n) PROVE Counted'
  BY <1>5, RequestFields, LimitUntouched DEF Accept, LimitInv, At
<1>6. CASE WriteRates
  BY <1>6, LimitWrites
<1>7. CASE RightPassword \/ WriteOtp
  <2>1. handler'.pc # "rate" /\ handler.pc # "rate"
    BY <1>7, Moves DEF RightPassword, WriteOtp, At
  <2>2. UNCHANGED <<now, at, rates, passed>>
    BY <1>7 DEF RightPassword, WriteOtp
  <2>3. QED
    BY <2>1, <2>2, LimitUntouched DEF LimitInv
<1>8. CASE WrongPassword \/ Mail \/ MailFails \/ Open
  <2>1. handler'.pc # "rate" /\ handler.pc # "rate"
    BY <1>8, IdleFields DEF WrongPassword, Mail, MailFails, Open, End, At
  <2>2. UNCHANGED <<now, at, rates, passed>>
    BY <1>8 DEF WrongPassword, Mail, MailFails, Open
  <2>3. QED
    BY <2>1, <2>2, LimitUntouched DEF LimitInv
<1>9. CASE Stop
  BY <1>9, LimitStops
<1>10. CASE Tick
  BY <1>10, LimitTick
<1>11. CASE \E b \in Browsers : Refuse(b) \/ \E n \in Attempts \cup {0} : RefuseCode(b, n)
  BY <1>2, <1>11 DEF Refuse, RefuseCode
<1>12. QED
  BY <1>2, <1>3, <1>4, <1>5, <1>6, <1>7, <1>8, <1>9, <1>10, <1>11 DEF Next

\* The limit is exact for every address, for all limits and windows.
THEOREM LimitIsExactHolds == Spec => []LimitIsExact
<1>1. LimitInv => LimitIsExact
  <2>1. SUFFICES ASSUME LimitInv, NEW ip \in Ips
                 PROVE  /\ Cardinality(PassedLately(ip)) <= Limit
                        /\ At("idle") /\ Full(ip) => Cardinality(PassedLately(ip)) = Limit
    BY DEF LimitIsExact
  <2>2. passed[ip] \in SUBSET (1 .. Len(at)) /\ Listed[ip] \in SUBSET (1 .. Len(at))
        /\ at \in Seq(Nat) /\ now \in Nat /\ Len(at) \in Nat
    BY <2>1 DEF LimitInv, CodeInv, Typed, Counted
  <2>3. PassedLately(ip) = Recent(passed[ip])
    <3>1. \A k \in passed[ip] : at[k] \in Nat
      BY <2>2
    <3>2. QED
      BY <2>2, <3>1 DEF PassedLately, Recent
  <2>4. Recent(passed[ip]) \in SUBSET Recent(OnRecord(ip))
    BY DEF OnRecord, Recent
  <2>5. Recent(OnRecord(ip)) = Recent(Listed[ip]) /\ Cardinality(Recent(Listed[ip])) <= Limit
    BY <2>1 DEF LimitInv, Counted
  <2>6. Recent(Listed[ip]) \in SUBSET (1 .. Len(at))
    BY <2>2 DEF Recent
  <2>7. Cardinality(PassedLately(ip)) <= Cardinality(Recent(Listed[ip]))
        /\ Cardinality(PassedLately(ip)) \in Nat /\ Cardinality(Recent(Listed[ip])) \in Nat
    BY <2>2, <2>3, <2>4, <2>5, <2>6, Fewer
  <2>8. Cardinality(PassedLately(ip)) <= Limit
    BY <2>5, <2>7
  <2>9. ASSUME At("idle"), Full(ip) PROVE Cardinality(PassedLately(ip)) = Limit
    <3>1. Listed = rates /\ OnRecord(ip) = passed[ip]
      BY <2>9 DEF At, Listed, OnRecord
    <3>2. Cardinality(PassedLately(ip)) >= Limit
      BY <2>3, <2>5, <2>9, <3>1 DEF Full
    <3>3. QED
      BY <2>7, <2>8, <3>2
  <2>10. QED
    BY <2>8, <2>9
<1>2. QED
  BY <1>1, LimitBegins, LimitStep, PTL DEF Spec
=============================================================================

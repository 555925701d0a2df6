------------------------------- MODULE Login -------------------------------
(***************************************************************************)
(* The two steps of signing in (app.py, login_submit and verify_submit):   *)
(* the list of recent attempts per address, the one-time code that is      *)
(* stored in a file and mailed, and the signed cookie of a session.        *)
(*                                                                         *)
(* A handler never gives up the event loop (send_mail awaits nothing), so  *)
(* requests follow each other; but the process can stop, and a write can   *)
(* fail, between any two of its steps.  write_text first empties the file, *)
(* and an empty file is read as no data.                                   *)
(*                                                                         *)
(* An attempt that the limit lets pass has a number, which is also the     *)
(* number of the code it may lead to: two random codes are not equal here. *)
(* at, passed, sent, mailed and uses are history variables.               *)
(***************************************************************************)
EXTENDS Integers, Sequences, FiniteSets

CONSTANTS
  Browsers,
  Ips,
  IpOf,        \* [Browsers -> Ips]
  Limit,       \* attempts that rate_check lets pass ...
  Window,      \* ... in so much time
  OtpTTL,      \* how long a code is good
  SessionTTL,  \* how long a session is good
  MaxTime,     \* bound on the clock
  MaxAttempts, \* bound on the attempts that pass
  MaxFaults,   \* bound on stops and undeliverable mails
  None

ASSUME LoginAssumption ==
  /\ IpOf \in [Browsers -> Ips]
  /\ Limit \in Nat \ {0}
  /\ {Window, OtpTTL, SessionTTL, MaxTime, MaxAttempts, MaxFaults} \subseteq Nat
  /\ None \notin Nat /\ None \notin Browsers

VARIABLES
  now,
  rates,    \* RATE_STORE: [Ips -> sets of attempts]
  otp,      \* OTP_STORE: the number of the code in it, or None
  expires,  \* OTP_STORE: when that code ends
  session,  \* [Browsers -> when its cookie was signed, or None]
  opener,   \* [Browsers -> the code its session was opened with]
  handler,  \* the request in progress
  at,       \* when each attempt passed rate_check
  passed,   \* [Ips -> attempts on record since the list was last lost]
  sent,     \* [1 .. MaxAttempts -> when its code was drawn, or None]
  mailed,   \* the codes that reached the administrator's mailbox
  uses,     \* [1 .. MaxAttempts -> how often the code was accepted]
  faults

vars == <<now, rates, otp, expires, session, opener, handler, at, passed, sent,
          mailed, uses, faults>>
codeHistory == <<sent, mailed, uses>>
sessions == <<session, opener>>

Attempts == 1 .. MaxAttempts
NoRates == [ip \in Ips |-> {}]

\* pc: the next step; who: whose request; n: its attempt, or the code typed;
\* data: what rate_check is about to write.
Request(pc, who, n, data) == [pc |-> pc, who |-> who, n |-> n, data |-> data]
Idle == Request("idle", None, 0, NoRates)

Init ==
  /\ now = 0
  /\ rates = NoRates
  /\ otp = None /\ expires = 0
  /\ session = [b \in Browsers |-> None]
  /\ opener = [b \in Browsers |-> 0]
  /\ handler = Idle
  /\ at = <<>>
  /\ passed = NoRates
  /\ sent = [n \in Attempts |-> None]
  /\ mailed = {}
  /\ uses = [n \in Attempts |-> 0]
  /\ faults = 0

At(pc) == handler.pc = pc
Goto(pc) == handler' = Request(pc, handler.who, handler.n, NoRates)
End == handler' = Idle

-----------------------------------------------------------------------------
(* POST /login.                                                            *)

\* rate_check: the entries that still count.
Recent(entries) == {n \in entries : now - at[n] < Window}

\* The attempt is one too many: 429.
Full(ip) == Cardinality(Recent(rates[ip])) >= Limit

Refuse(b) ==
  /\ At("idle")
  /\ Full(IpOf[b])
  /\ UNCHANGED vars

\* rate_check counts the attempt and opens the file to write it: it is empty.
Attempt(b) ==
  /\ At("idle")
  /\ Len(at) < MaxAttempts
  /\ ~Full(IpOf[b])
  /\ LET n == Len(at) + 1
     IN  handler' = Request("rate", b, n,
           [rates EXCEPT ![IpOf[b]] = Recent(rates[IpOf[b]]) \cup {n}])
  /\ at' = Append(at, now)
  /\ rates' = NoRates
  /\ UNCHANGED <<now, otp, expires, sessions, passed, codeHistory, faults>>

\* Mutant: the file holds the attempts of the last address only.
WriteOwnRates ==
  /\ At("rate")
  /\ LET ip == IpOf[handler.who]
     IN  /\ rates' = [NoRates EXCEPT ![ip] = handler.data[ip]]
         /\ passed' = [passed EXCEPT ![ip] = @ \cup {handler.n}]
  /\ Goto("password")
  /\ UNCHANGED <<now, otp, expires, sessions, at, codeHistory, faults>>

WriteRates ==
  /\ At("rate")
  /\ rates' = handler.data
  /\ passed' = [passed EXCEPT ![IpOf[handler.who]] = @ \cup {handler.n}]
  /\ Goto("password")
  /\ UNCHANGED <<now, otp, expires, sessions, at, codeHistory, faults>>

WrongPassword ==
  /\ At("password")
  /\ End
  /\ UNCHANGED <<now, rates, otp, expires, sessions, at, passed, codeHistory, faults>>

\* A code is drawn; the file is emptied, and then written.
RightPassword ==
  /\ At("password")
  /\ otp' = None
  /\ sent' = [sent EXCEPT ![handler.n] = now]
  /\ Goto("otp")
  /\ UNCHANGED <<now, rates, expires, sessions, at, passed, mailed, uses, faults>>

WriteOtp ==
  /\ At("otp")
  /\ otp' = handler.n
  /\ expires' = sent[handler.n] + OtpTTL
  /\ Goto("mail")
  /\ UNCHANGED <<now, rates, sessions, at, passed, codeHistory, faults>>

\* send_mail; the browser is sent to /verify whether or not it worked.
Mail ==
  /\ At("mail")
  /\ mailed' = mailed \cup {handler.n}
  /\ End
  /\ UNCHANGED <<now, rates, otp, expires, sessions, at, passed, sent, uses, faults>>

MailFails ==
  /\ At("mail")
  /\ faults < MaxFaults
  /\ faults' = faults + 1
  /\ End
  /\ UNCHANGED <<now, rates, otp, expires, sessions, at, passed, codeHistory>>

-----------------------------------------------------------------------------
(* POST /verify with the code n: one from a mail, or 0 for any other.      *)

\* There is a code, and it has not ended.
Good == otp # None /\ now <= expires
Accepts(n) == Good /\ n = otp

\* Mutant: a wrong code uses up the stored one.
RefuseCodeAndForget(b, n) ==
  /\ At("idle")
  /\ n \in mailed \cup {0}
  /\ ~Accepts(n)
  /\ otp' = None
  /\ UNCHANGED <<now, rates, expires, sessions, handler, at, passed, codeHistory, faults>>

RefuseCode(b, n) ==
  /\ At("idle")
  /\ n \in mailed \cup {0}
  /\ ~Accepts(n)
  /\ UNCHANGED vars

\* Mutant: the code stays in the file until the next one is written.
AcceptKeeping(b, n) ==
  /\ At("idle")
  /\ n \in mailed /\ Accepts(n)
  /\ uses' = [uses EXCEPT ![n] = @ + 1]
  /\ handler' = Request("open", b, n, NoRates)
  /\ UNCHANGED <<now, rates, otp, expires, sessions, at, passed, sent, mailed, faults>>

\* The file of the code is removed ...
Accept(b, n) ==
  /\ At("idle")
  /\ n \in mailed /\ Accepts(n)
  /\ otp' = None
  /\ uses' = [uses EXCEPT ![n] = @ + 1]
  /\ handler' = Request("open", b, n, NoRates)
  /\ UNCHANGED <<now, rates, expires, sessions, at, passed, sent, mailed, faults>>

\* ... before the cookie is signed and sent.
Open ==
  /\ At("open")
  /\ session' = [session EXCEPT ![handler.who] = now]
  /\ opener' = [opener EXCEPT ![handler.who] = handler.n]
  /\ End
  /\ UNCHANGED <<now, rates, otp, expires, at, passed, codeHistory, faults>>

\* POST /logout: the cookie is deleted in that browser.
Logout(b) ==
  /\ At("idle")
  /\ session[b] # None
  /\ session' = [session EXCEPT ![b] = None]
  /\ UNCHANGED <<now, rates, otp, expires, opener, handler, at, passed, codeHistory, faults>>

-----------------------------------------------------------------------------
(* The surroundings.                                                       *)

\* A write raises OSError, or the process stops and is started again.  When the
\* list of attempts was being written, it is lost.
Stop ==
  /\ ~At("idle")
  /\ faults < MaxFaults
  /\ faults' = faults + 1
  /\ handler' = Idle
  /\ passed' = IF At("rate") THEN NoRates ELSE passed
  /\ UNCHANGED <<now, rates, otp, expires, sessions, at, codeHistory>>

\* Time passes between requests, and while the mail is handed over: nothing
\* else that a handler does takes any.
Tick ==
  /\ At("idle") \/ At("mail")
  /\ now < MaxTime
  /\ now' = now + 1
  /\ UNCHANGED <<rates, otp, expires, sessions, handler, at, passed, codeHistory, faults>>

Next ==
  \/ \E b \in Browsers : Refuse(b) \/ Attempt(b) \/ Logout(b)
  \/ \E b \in Browsers, n \in Attempts \cup {0} : RefuseCode(b, n) \/ Accept(b, n)
  \/ WriteRates \/ WrongPassword \/ RightPassword \/ WriteOtp \/ Mail \/ MailFails
  \/ Open \/ Stop \/ Tick

Spec == Init /\ [][Next]_vars

-----------------------------------------------------------------------------
(* Properties.                                                             *)

\* require_auth: the cookie's signature is not older than a session may be.
SignedIn(b) == session[b] # None /\ now - session[b] <= SessionTTL

PassedLately(ip) == {n \in passed[ip] : at[n] > now - Window}

\* The limit is exact for every address, however the attempts of several
\* addresses follow each other: no more than Limit attempts pass in any span of
\* Window, and an attempt is refused only when that many have - both counted
\* from the moment the whole list was last lost in the middle of its rewriting
\* (app.py:205-207 and 217-226: save_json is not atomic).
LimitIsExact == \A ip \in Ips :
  /\ Cardinality(PassedLately(ip)) <= Limit
  /\ At("idle") /\ Full(ip) => Cardinality(PassedLately(ip)) = Limit

\* An administrator who types a code that was mailed is refused only because it
\* was accepted before (though a stop may have kept the session from opening),
\* because it has expired, or because a later attempt with the right password
\* has begun to replace it, from whatever browser - neither wrong codes nor
\* refused attempts nor stops in between take it away (app.py:385-393).
RefusalIsExcused ==
  At("idle") => \A n \in mailed : Accepts(n) \/ uses[n] > 0 \/ now > sent[n] + OtpTTL
                                 \/ \E m \in Attempts : m > n /\ sent[m] # None

\* Whoever is signed in is so by a code that was mailed, that was accepted
\* once, and that was drawn at most OtpTTL + SessionTTL ago - across
\* restarts, a mail that is late and codes that are typed in any browser
\* (app.py:242-254 and 365-404).
AccessGoesBackToOneCode == \A b \in Browsers :
  SignedIn(b) =>
    LET n == opener[b]
    IN  /\ n \in mailed
        /\ uses[n] = 1
        /\ now <= sent[n] + OtpTTL + SessionTTL
=============================================================================

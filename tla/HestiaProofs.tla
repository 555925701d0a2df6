---------------------------- MODULE HestiaProofs ----------------------------
(* Proofs about what stands between the panel and HestiaCP: MailboxWrites, *)
(* for any requests, aliases and forwards - the audit log claims only what *)
(* took effect and names all of a create, a replace that fails keeps one   *)
(* entry - and HestiaCache, for any keys, requests and times.                    *)
EXTENDS HestiaCache, MailboxWrites, TLAPS

-----------------------------------------------------------------------------
(* MailboxWrites.                                                          *)

Counts == [Requests -> [Commands -> Nat]]
InDone(r, c) == IF req[r].pc # "idle" /\ c \in req[r].done THEN 1 ELSE 0

\* The inductive invariant: what the log says, and what the request in flight
\* will let it say, has taken effect.
ClaimInv ==
  /\ audit \in Counts /\ effect \in Counts
  /\ \A r \in Requests, c \in Commands : audit[r][c] + InDone(r, c) <= effect[r][c]

\* A request that forgets what it has done leaves the invariant alone.
LEMMA ForgetKeeps ==
  ASSUME ClaimInv, UNCHANGED <<audit, effect>>,
         \A r \in Requests : \/ req'[r] = req[r] \/ req'[r].done = {}
                             \/ req'[r].done = req[r].done /\ req[r].pc # "idle"
  PROVE  ClaimInv'
BY DEF ClaimInv, Counts, InDone

\* A request that arrives counts from nothing.
LEMMA ArrivesKeeps ==
  ASSUME ClaimInv, NEW r \in Requests, Arrives(r),
         req'[r].pc = "idle" \/ req'[r].done = {},
         \A q \in Requests \ {r} : req'[q] = req[q]
  PROVE  ClaimInv'
<1>1. /\ audit' = [audit EXCEPT ![r] = NoCounts] /\ effect' = [effect EXCEPT ![r] = NoCounts]
      /\ NoCounts \in [Commands -> Nat] /\ \A c \in Commands : NoCounts[c] = 0
  BY DEF Arrives, NoCounts
<1> HIDE DEF NoCounts
<1>2. audit' \in Counts /\ effect' \in Counts
  BY <1>1 DEF ClaimInv, Counts
<1>3. ASSUME NEW q \in Requests, NEW c \in Commands
      PROVE  audit'[q][c] + InDone(q, c)' <= effect'[q][c]
  <2>1. CASE q = r
    BY <2>1, <1>1 DEF ClaimInv, Counts, InDone
  <2>2. CASE q # r
    BY <2>2, <1>1 DEF ClaimInv, Counts, InDone
  <2>3. QED
    BY <2>1, <2>2
<1>4. QED
  BY <1>2, <1>3 DEF ClaimInv

\* A request ends, and its entry names what it has done, or it has none.
LEMMA EndKeeps ==
  ASSUME ClaimInv, NEW r \in Requests, req[r].pc # "idle", NEW entry, NEW claims, NEW calls,
         claims \subseteq req[r].done, End(r, entry, claims, calls),
         DOMAIN req = Requests, UNCHANGED effect
  PROVE  ClaimInv'
<1>1. audit' \in Counts
  BY DEF End, ClaimInv, Counts
<1>2. req'[r].done = {} /\ \A q \in Requests \ {r} : req'[q] = req[q]
  BY DEF End, Idle, Request
<1>3. ASSUME NEW q \in Requests, NEW c \in Commands
      PROVE  audit'[q][c] + InDone(q, c)' <= effect[q][c]
  <2>1. CASE q = r
    BY <2>1, <1>2 DEF End, ClaimInv, Counts, InDone
  <2>2. CASE q # r
    BY <2>2, <1>2 DEF End, ClaimInv, Counts, InDone
  <2>3. QED
    BY <2>1, <2>2
<1>4. QED
  BY <1>1, <1>3 DEF ClaimInv

\* A command that takes effect may be counted as done.
LEMMA EffectKeeps ==
  ASSUME ClaimInv, NEW r \in Requests, Calling(r), NEW ok \in BOOLEAN, NEW outcome,
         TakesEffect(r, Current(r)), Returned(r, ok, outcome),
         DOMAIN req = Requests, UNCHANGED audit
  PROVE  ClaimInv'
<1> DEFINE cur == Current(r)
<1>1. effect' \in Counts
  BY DEF TakesEffect, ClaimInv, Counts
<1>2. /\ req'[r].done \subseteq req[r].done \cup {cur} /\ req[r].pc # "idle"
      /\ \A q \in Requests \ {r} : req'[q] = req[q]
  BY DEF Returned, Request, Calling
<1>3. ASSUME NEW q \in Requests, NEW c \in Commands
      PROVE  audit[q][c] + InDone(q, c)' <= effect'[q][c]
  <2>1. CASE q = r /\ c = cur
    BY <2>1, <1>2 DEF TakesEffect, ClaimInv, Counts, InDone
  <2>2. CASE q = r /\ c # cur
    BY <2>2, <1>2 DEF TakesEffect, ClaimInv, Counts, InDone
  <2>3. CASE q # r
    BY <2>3, <1>2 DEF TakesEffect, ClaimInv, Counts, InDone
  <2>4. QED
    BY <2>1, <2>2, <2>3
<1>4. QED
  BY <1>1, <1>3 DEF ClaimInv

IInv == ClaimInv /\ DOMAIN req = Requests

LEMMA DomainStep == DOMAIN req = Requests /\ [Next]_vars => DOMAIN req' = Requests
BY DEF Next, vars, Restart, Handler, Call, Resume, MailboxCreate, MailboxDelete,
       ResetPassword, ChangeQuota, AliasAdd, AliasRemove, ForwarderAdd, ForwarderRemove,
       FwdOnly, AutoreplySet, AutoreplyClear, ApiMutate, ForwardReplace, AliasReplace, Start,
       PasswordsDiffer, CallSucceeds, CallRefused, CallUnreported, CallRaises, Returned, End,
       EndAudited, EndUnaudited, NextCommand, AuditDone, RollBack, GiveUp

LEMMA ClaimStep == IInv /\ [Next]_vars => ClaimInv'
<1> SUFFICES ASSUME IInv, [Next]_vars PROVE ClaimInv'
  OBVIOUS
<1>1. CASE UNCHANGED vars
  BY <1>1, ForgetKeeps DEF vars, IInv
<1>2. CASE Restart
  BY <1>2, ForgetKeeps DEF Restart, Idle, Request, IInv
<1>3. ASSUME NEW r \in Requests, Handler(r) PROVE ClaimInv'
  <2>1. PasswordsDiffer(r) \/ \E kind, todo : Start(r, kind, todo)
    BY <1>3 DEF Handler, MailboxCreate, MailboxDelete, ResetPassword, ChangeQuota, AliasAdd,
       AliasRemove, ForwarderAdd, ForwarderRemove, FwdOnly, AutoreplySet, AutoreplyClear,
       ApiMutate, ForwardReplace, AliasReplace
  <2>2. CASE PasswordsDiffer(r)
    <3>1. Arrives(r) /\ req'[r].pc = "idle" /\ \A q \in Requests \ {r} : req'[q] = req[q]
      BY <2>2 DEF PasswordsDiffer, Arrives
    <3>2. QED
      BY <3>1, ArrivesKeeps DEF IInv
  <2>3. ASSUME NEW kind, NEW todo, Start(r, kind, todo) PROVE ClaimInv'
    <3>1. Arrives(r) /\ req'[r].done = {} /\ \A q \in Requests \ {r} : req'[q] = req[q]
      BY <2>3 DEF Start, Request, IInv
    <3>2. QED
      BY <3>1, ArrivesKeeps DEF IInv
  <2>4. QED
    BY <2>1, <2>2, <2>3
<1>4. ASSUME NEW r \in Requests, CallSucceeds(r) \/ CallUnreported(r) PROVE ClaimInv'
  BY <1>4, EffectKeeps DEF CallSucceeds, CallUnreported, IInv
<1>5. ASSUME NEW r \in Requests, CallRefused(r) PROVE ClaimInv'
  BY <1>5, ForgetKeeps DEF CallRefused, Calling, Returned, Request, IInv
<1>6. ASSUME NEW r \in Requests, CallRaises(r) PROVE ClaimInv'
  <2>1. CASE req[r].kind \in {"replace", "rollback"}
    <3>1. Returned(r, FALSE, "raised") /\ UNCHANGED <<audit, effect>>
      BY <1>6, <2>1 DEF CallRaises
    <3>2. \A q \in Requests : \/ req'[q] = req[q]
                              \/ req'[q].done = req[q].done /\ req[q].pc # "idle"
      BY <1>6, <3>1 DEF CallRaises, Calling, Returned, Request, IInv
    <3>3. QED
      BY <3>1, <3>2, ForgetKeeps DEF IInv
  <2>2. CASE req[r].kind \notin {"replace", "rollback"}
    <3>1. PICK calls : End(r, "none", {}, calls) /\ UNCHANGED effect /\ req[r].pc # "idle"
      BY <1>6, <2>2 DEF CallRaises, Calling
    <3>2. {} \subseteq req[r].done
      OBVIOUS
    <3>3. QED
      BY <3>1, <3>2, EndKeeps DEF IInv
  <2>3. QED
    BY <2>1, <2>2
<1>7. ASSUME NEW r \in Requests, NextCommand(r) \/ RollBack(r) PROVE ClaimInv'
  <2>1. UNCHANGED <<audit, effect>>
    BY <1>7 DEF NextCommand, RollBack
  <2>2. CASE NextCommand(r)
    BY <2>1, <2>2, ForgetKeeps DEF NextCommand, Back, Request, IInv
  <2>3. CASE RollBack(r)
    <3> DEFINE todo == <<Add(OldEntry(r))>>
    <3>1. req' = [req EXCEPT ![r] =
                   Request("cli", "rollback", todo, {}, FALSE, req[r].calls)]
      BY <2>3 DEF RollBack
    <3> HIDE DEF todo
    <3>2. \A q \in Requests : req'[q] = req[q] \/ req'[q].done = {}
      BY <3>1 DEF Request, IInv
    <3>3. QED
      BY <2>1, <3>2, ForgetKeeps DEF IInv
  <2>4. QED
    BY <1>7, <2>2, <2>3
<1>8. ASSUME NEW r \in Requests, AuditDone(r) \/ GiveUp(r) PROVE ClaimInv'
  <2>1. PICK entry \in {"none", "written", "lost"}, claims \in {{}, req[r].done} :
               End(r, entry, claims, req[r].calls) /\ UNCHANGED effect /\ req[r].pc # "idle"
    BY <1>8 DEF AuditDone, GiveUp, EndAudited, EndUnaudited, Back
  <2>2. claims \subseteq req[r].done
    OBVIOUS
  <2>3. QED
    BY <2>1, <2>2, EndKeeps DEF IInv
<1>9. QED
  BY <1>1, <1>2, <1>3, <1>4, <1>5, <1>6, <1>7, <1>8 DEF Next, Call, Resume

\* Whatever fails, interleaves and rolls back, and however many requests,
\* aliases and forwards there are: a handler's log entries name only commands
\* that took effect.
THEOREM AuditClaimsHappenedHolds == Spec => []AuditClaimsHappened
<1>1. Init => IInv
  BY DEF Init, IInv, ClaimInv, Counts, InDone, Idle, Request, NoCounts
<1>2. IInv /\ [Next]_vars => IInv'
  BY ClaimStep, DomainStep DEF IInv
<1>3. IInv => AuditClaimsHappened
  BY DEF IInv, ClaimInv, Counts, InDone, AuditClaimsHappened
<1>4. QED
  BY <1>1, <1>2, <1>3, PTL DEF Spec

-----------------------------------------------------------------------------
(* The flow of a request.                                                  *)

Outcomes == {"ok", "refused", "unreported", "raised"}
RequestType ==
  [pc : {"idle", "cli", "back"}, kind : {"none", "one", "create", "replace", "rollback"},
   todo : Seq(Commands), done : SUBSET Commands, ok : BOOLEAN, calls : Seq(Outcomes)]

DeletedOld(q) == \E x \in Items : Del(x) \in q.done
LastAdd(q) == \E y \in Items : q.todo = <<Add(y)>>

\* How far a replace is: before, in and behind its two commands; and its rollback.
Phased(q) ==
  /\ q.pc # "idle" => q.todo # <<>>
  /\ q.kind = "replace" =>
       \/ /\ q.pc = "cli" /\ q.calls = <<>>
          /\ \E x, y \in Items : q.todo = <<Del(x), Add(y)>>
       \/ /\ q.pc = "back" /\ Len(q.calls) = 1
          /\ \E x, y \in Items : q.todo = <<Del(x), Add(y)>>
          /\ q.ok <=> q.calls[1] = "ok"
          /\ q.ok => DeletedOld(q)
       \/ /\ q.pc = "cli" /\ Len(q.calls) = 1
          /\ q.calls[1] = "ok" /\ LastAdd(q) /\ DeletedOld(q)
       \/ /\ q.pc = "back" /\ Len(q.calls) = 2
          /\ q.calls[1] = "ok" /\ LastAdd(q) /\ DeletedOld(q)
  /\ q.kind = "rollback" =>
       /\ LastAdd(q) /\ q.calls[1] = "ok"
       /\ \/ q.pc = "cli" /\ Len(q.calls) = 2
          \/ q.pc = "back" /\ Len(q.calls) = 3

FlowInv ==
  /\ req \in [Requests -> RequestType]
  /\ DOMAIN last = Requests
  /\ \A r \in Requests : Phased(req[r])

LEMMA CommandTypes ==
  /\ \A x \in Items : Add(x) \in Commands /\ Del(x) \in Commands
  /\ \A x \in Items : Add(x).item = x /\ Add(x).op = "add" /\ Del(x).op = "del" /\ Del(x).item = x
  /\ SetBox \in Commands
BY DEF Add, Del, SetBox, Command, Commands, Items

LEMMA LastAddIsOne ==
  ASSUME NEW q, LastAdd(q)
  PROVE  Len(q.todo) = 1 /\ \E y \in Items : Head(q.todo) = Add(y) /\ q.todo[1] = Add(y)
<1>1. PICK y \in Items : q.todo = <<Add(y)>>
  BY DEF LastAdd
<1>2. Len(<<Add(y)>>) = 1 /\ Head(<<Add(y)>>) = Add(y) /\ <<Add(y)>>[1] = Add(y)
  OBVIOUS
<1>3. QED
  BY <1>1, <1>2

LEMMA IdleFlows == Idle \in RequestType /\ Phased(Idle)
BY DEF Idle, Request, RequestType, Phased

LEMMA CreateList ==
  ASSUME NEW list \in AliasLists, NEW f \in Forwards \cup {None}, NEW auto \in BOOLEAN
  PROVE  LET todo == <<Add("box")>>
                     \o [i \in DOMAIN list |-> Add(list[i])]
                     \o (IF f = None THEN <<>> ELSE <<Add(f)>>)
                     \o (IF auto THEN <<Add("autoreply")>> ELSE <<>>)
         IN  todo \in Seq(Commands) /\ todo # <<>>
<1> DEFINE a == [i \in DOMAIN list |-> Add(list[i])]
           b == IF f = None THEN <<>> ELSE <<Add(f)>>
           c == IF auto THEN <<Add("autoreply")>> ELSE <<>>
<1>1. list \in Seq(Aliases)
  BY ListAssumption
<1>2. \A i \in DOMAIN list : list[i] \in Items
  BY <1>1 DEF Items
<1>3. a \in Seq(Commands)
  <2>1. \A i \in 1 .. Len(list) : Add(list[i]) \in Commands
    BY <1>1, <1>2, CommandTypes
  <2>2. a = [i \in 1 .. Len(list) |-> Add(list[i])] /\ Len(list) \in Nat
    BY <1>1
  <2> HIDE DEF a
  <2>3. QED
    BY <2>1, <2>2
<1>4. b \in Seq(Commands) /\ c \in Seq(Commands) /\ <<Add("box")>> \in Seq(Commands)
  <2>1. {"box", "autoreply"} \subseteq Items /\ Forwards \subseteq Items
    BY DEF Items
  <2>2. \A d \in Commands : <<d>> \in Seq(Commands)
    OBVIOUS
  <2>3. Add("box") \in Commands /\ Add("autoreply") \in Commands /\ (f # None => Add(f) \in Commands)
    BY <2>1, CommandTypes
  <2>4. QED
    BY <2>2, <2>3
<1> HIDE DEF a, b, c
<1>5. LET todo == <<Add("box")>> \o a \o b \o c
      IN  todo \in Seq(Commands) /\ todo # <<>>
  BY <1>3, <1>4
<1>6. QED
  BY <1>5 DEF a, b, c

\* What a handler starts, unless two passwords differ.
LEMMA HandlerStarts ==
  ASSUME NEW r \in Requests, Handler(r), ~PasswordsDiffer(r)
  PROVE  \E kind \in {"one", "create", "replace"}, todo \in Seq(Commands) :
           /\ Start(r, kind, todo)
           /\ todo # <<>>
           /\ kind = "replace" => \E x, y \in Items : todo = <<Del(x), Add(y)>>
<1>1. ASSUME NEW list \in AliasLists, NEW f \in Forwards \cup {None}, NEW auto \in BOOLEAN,
             MailboxCreate(r, list, f, auto)
      PROVE  \E todo \in Seq(Commands) : Start(r, "create", todo) /\ todo # <<>>
  BY <1>1, CreateList DEF MailboxCreate
<1>2. ASSUME NEW c \in Commands
      PROVE  <<c>> \in Seq(Commands) /\ <<c>> # <<>>
  OBVIOUS
<1>3. Aliases \subseteq Items /\ Forwards \subseteq Items /\ {"box", "autoreply", "fwd_only"} \subseteq Items
  BY DEF Items
<1>4. ASSUME \/ MailboxDelete(r) \/ ResetPassword(r) \/ ChangeQuota(r)
             \/ \E a \in Aliases : AliasAdd(r, a) \/ AliasRemove(r, a)
             \/ \E f \in Forwards : ForwarderAdd(r, f) \/ ForwarderRemove(r, f)
             \/ \E on \in BOOLEAN : FwdOnly(r, on)
             \/ AutoreplySet(r) \/ AutoreplyClear(r)
             \/ \E x \in Aliases \cup Forwards : ApiMutate(r, x)
      PROVE  \E c \in Commands : Start(r, "one", <<c>>)
  BY <1>3, <1>4, CommandTypes DEF MailboxDelete, ResetPassword, ChangeQuota, AliasAdd,
     AliasRemove, ForwarderAdd, ForwarderRemove, FwdOnly, AutoreplySet, AutoreplyClear, ApiMutate
<1>5. ASSUME \/ \E old, new \in Forwards : ForwardReplace(r, old, new)
             \/ \E old, new \in Aliases : AliasReplace(r, old, new)
      PROVE  \E x, y \in Items : Start(r, "replace", <<Del(x), Add(y)>>)
  BY <1>3, <1>5 DEF ForwardReplace, AliasReplace
<1>6. \A x, y \in Items : <<Del(x), Add(y)>> \in Seq(Commands) /\ <<Del(x), Add(y)>> # <<>>
  BY CommandTypes
<1>7. QED
  BY <1>1, <1>2, <1>4, <1>5, <1>6 DEF Handler

\* One request changes to q, the others stay; no request ends.
LEMMA ChangeFlows ==
  ASSUME FlowInv, NEW r \in Requests, NEW q \in RequestType, Phased(q),
         req' = [req EXCEPT ![r] = q], UNCHANGED last
  PROVE  FlowInv'
<1>1. req' \in [Requests -> RequestType] /\ \A s \in Requests : req'[s] = IF s = r THEN q ELSE req[s]
  BY DEF FlowInv
<1>2. \A s \in Requests : Phased(req'[s])
  BY <1>1 DEF FlowInv
<1>3. QED
  BY <1>1, <1>2 DEF FlowInv

LEMMA EndFlows ==
  ASSUME FlowInv, NEW r \in Requests, NEW entry, NEW claims, NEW calls,
         End(r, entry, claims, calls)
  PROVE  FlowInv'
<1>1. req' = [req EXCEPT ![r] = Idle]
  BY DEF End
<1>2. req' \in [Requests -> RequestType] /\ \A s \in Requests : Phased(req'[s])
  BY <1>1, IdleFlows DEF FlowInv
<1>3. DOMAIN last' = Requests
  BY DEF End, FlowInv
<1>4. QED
  BY <1>2, <1>3 DEF FlowInv

\* A command returns.
LEMMA ReturnedFlows ==
  ASSUME FlowInv, NEW r \in Requests, Calling(r), NEW ok \in BOOLEAN, NEW outcome \in Outcomes,
         ok <=> outcome = "ok", Returned(r, ok, outcome), UNCHANGED last
  PROVE  FlowInv'
<1> DEFINE p == req[r]
           cur == Current(r)
           done == IF ok THEN p.done \cup {cur} ELSE p.done
           calls == Append(p.calls, outcome)
           q == Request("back", p.kind, p.todo, done, ok, calls)
<1>1. p \in RequestType /\ Phased(p) /\ p.pc = "cli" /\ p.todo # <<>>
  BY DEF FlowInv, Calling, Phased
<1>2. cur \in Commands /\ cur = p.todo[1]
  BY <1>1 DEF Current, RequestType
<1>3. done \in SUBSET Commands /\ p.done \subseteq done /\ (ok => cur \in done)
  BY <1>1, <1>2 DEF RequestType
<1>4. /\ calls \in Seq(Outcomes) /\ Len(calls) = Len(p.calls) + 1 /\ calls[Len(calls)] = outcome
      /\ Len(p.calls) >= 1 => calls[1] = p.calls[1]
  BY <1>1 DEF RequestType
<1> HIDE DEF done, calls, cur, p
<1>5. q \in RequestType
  BY <1>1, <1>3, <1>4 DEF Request, RequestType
<1>6. /\ q.pc = "back" /\ q.kind = p.kind /\ q.todo = p.todo /\ q.done = done
      /\ q.ok = ok /\ q.calls = calls
  BY DEF Request
<1> HIDE DEF q
<1>7. ASSUME p.kind = "replace" PROVE Phased(q)
  <2>1. CASE p.calls = <<>>
    <3>1. PICK x \in Items, y \in Items : p.todo = <<Del(x), Add(y)>>
      BY <1>1, <1>7, <2>1 DEF Phased
    <3>2. cur = Del(x)
      BY <3>1, <1>2
    <3>3. Len(calls) = 1 /\ calls[1] = outcome
      BY <2>1, <1>4
    <3>4. ok => DeletedOld(q)
      BY <3>2, <1>3, <1>6 DEF DeletedOld
    <3>5. QED
      BY <3>1, <3>3, <3>4, <1>6, <1>7, <1>1 DEF Phased
  <2>2. CASE p.calls # <<>>
    <3>1. Len(p.calls) = 1 /\ LastAdd(p) /\ DeletedOld(p) /\ p.calls[1] = "ok"
      BY <2>2, <1>1, <1>7 DEF Phased
    <3>2. LastAdd(q) /\ DeletedOld(q) /\ Len(q.calls) = 2 /\ q.calls[1] = "ok"
      BY <3>1, <1>3, <1>4, <1>6 DEF LastAdd, DeletedOld
    <3>3. QED
      BY <3>2, <1>1, <1>6, <1>7 DEF Phased
  <2>3. QED
    BY <2>1, <2>2
<1>8. ASSUME p.kind = "rollback" PROVE Phased(q)
  <2>1. Len(p.calls) = 2 /\ LastAdd(p) /\ p.calls[1] = "ok"
    BY <1>1, <1>8 DEF Phased
  <2>2. LastAdd(q) /\ Len(q.calls) = 3 /\ q.calls[1] = "ok"
    BY <2>1, <1>4, <1>6 DEF LastAdd
  <2>3. QED
    BY <2>2, <1>1, <1>6, <1>8 DEF Phased
<1>9. Phased(q)
  <2>1. CASE p.kind \notin {"replace", "rollback"}
    BY <2>1, <1>1, <1>6 DEF Phased
  <2>2. QED
    BY <2>1, <1>7, <1>8
<1>10. QED
  BY <1>5, <1>9, ChangeFlows DEF Returned, q, p, done, calls, cur

LEMMA FlowStep == FlowInv /\ [Next]_vars => FlowInv'
<1> SUFFICES ASSUME FlowInv, [Next]_vars PROVE FlowInv'
  OBVIOUS
<1>1. CASE UNCHANGED vars
  BY <1>1 DEF vars, FlowInv
<1>2. CASE Restart
  BY <1>2, IdleFlows DEF Restart, FlowInv
<1>10. ASSUME NEW r \in Requests, PasswordsDiffer(r) PROVE FlowInv'
  BY <1>10 DEF PasswordsDiffer, FlowInv
<1>3. ASSUME NEW r \in Requests, Handler(r), ~PasswordsDiffer(r) PROVE FlowInv'
  <2>1. PICK kind \in {"one", "create", "replace"}, todo \in Seq(Commands) :
           /\ Start(r, kind, todo)
           /\ todo # <<>>
           /\ kind = "replace" => \E x, y \in Items : todo = <<Del(x), Add(y)>>
    BY <1>3, HandlerStarts
  <2> DEFINE q == Request("cli", kind, todo, {}, FALSE, <<>>)
  <2>2. /\ q.pc = "cli" /\ q.kind = kind /\ q.todo = todo /\ q.calls = <<>>
        /\ q \in RequestType
    BY <2>1 DEF Request, RequestType
  <2>3. req' = [req EXCEPT ![r] = q] /\ UNCHANGED last
    BY <2>1 DEF Start
  <2> HIDE DEF q
  <2>4. Phased(q)
    BY <2>1, <2>2 DEF Phased
  <2>5. QED
    BY <2>2, <2>3, <2>4, ChangeFlows
<1>4. ASSUME NEW r \in Requests, Call(r) PROVE FlowInv'
  <2>1. CASE CallSucceeds(r)
    BY <2>1, ReturnedFlows DEF CallSucceeds, Outcomes
  <2>2. CASE CallRefused(r)
    BY <2>2, ReturnedFlows DEF CallRefused, Outcomes
  <2>3. CASE CallUnreported(r)
    BY <2>3, ReturnedFlows DEF CallUnreported, Outcomes
  <2>4. CASE CallRaises(r)
    <3>1. CASE req[r].kind \in {"replace", "rollback"}
      BY <2>4, <3>1, ReturnedFlows DEF CallRaises, Outcomes
    <3>2. CASE req[r].kind \notin {"replace", "rollback"}
      <4>1. End(r, "none", {}, Append(req[r].calls, "raised"))
        BY <2>4, <3>2 DEF CallRaises
      <4>2. QED
        BY <4>1, EndFlows
    <3>3. QED
      BY <3>1, <3>2
  <2>5. QED
    BY <1>4, <2>1, <2>2, <2>3, <2>4 DEF Call
<1>5. ASSUME NEW r \in Requests, NextCommand(r) PROVE FlowInv'
  <2> DEFINE p == req[r]
             q == Request("cli", p.kind, Tail(p.todo), p.done, FALSE, p.calls)
  <2>1. p \in RequestType /\ Phased(p) /\ p.pc = "back" /\ Len(p.todo) > 1 /\ GoesOn(r)
    BY <1>5 DEF FlowInv, NextCommand, Back
  <2>2. req' = [req EXCEPT ![r] = q] /\ UNCHANGED last
    BY <1>5 DEF NextCommand
  <2> HIDE DEF p
  <2>3. p.todo \in Seq(Commands) /\ Tail(p.todo) \in Seq(Commands) /\ Tail(p.todo) # <<>>
    BY <2>1 DEF RequestType
  <2>4. /\ q \in RequestType /\ q.pc = "cli" /\ q.kind = p.kind /\ q.todo = Tail(p.todo)
        /\ q.done = p.done /\ q.calls = p.calls
    BY <2>1, <2>3 DEF Request, RequestType
  <2> HIDE DEF q
  <2>5. p.kind # "rollback"
    BY <2>1 DEF GoesOn, p
  <2>6. ASSUME p.kind = "replace" PROVE Phased(q)
    <3>1. p.ok
      BY <2>1, <2>6 DEF GoesOn, p
    <3>2. /\ Len(p.calls) = 1 /\ p.calls[1] = "ok" /\ DeletedOld(p)
          /\ \E x, y \in Items : p.todo = <<Del(x), Add(y)>>
      <4>1. ~LastAdd(p)
        <5>1. Len(p.todo) # 1
          <6>1. \A n \in Nat : n > 1 => n # 1
            OBVIOUS
          <6>2. QED
            BY <6>1, <2>1, <2>3, Zenon
        <5>2. QED
          BY <5>1, LastAddIsOne
      <4>2. QED
        BY <2>1, <2>6, <3>1, <4>1 DEF Phased
    <3>3. LastAdd(q) /\ DeletedOld(q)
      <4>1. PICK x \in Items, y \in Items : p.todo = <<Del(x), Add(y)>>
        BY <3>2
      <4>2. Tail(<<Del(x), Add(y)>>) = <<Add(y)>>
        OBVIOUS
      <4>3. QED
        BY <3>2, <4>1, <4>2, <2>4 DEF LastAdd, DeletedOld
    <3>4. QED
      BY <3>2, <3>3, <2>3, <2>4, <2>6 DEF Phased
  <2>7. Phased(q)
    <3>1. CASE p.kind # "replace"
      BY <3>1, <2>3, <2>4, <2>5 DEF Phased
    <3>2. QED
      BY <3>1, <2>6
  <2>8. QED
    BY <2>2, <2>4, <2>7, ChangeFlows
<1>6. ASSUME NEW r \in Requests, RollBack(r) PROVE FlowInv'
  <2> DEFINE p == req[r]
             old == OldEntry(r)
             q == Request("cli", "rollback", <<Add(old)>>, {}, FALSE, p.calls)
  <2>1. p \in RequestType /\ Phased(p) /\ p.pc = "back" /\ p.kind = "replace" /\ Len(p.calls) = 2
    BY <1>6 DEF FlowInv, RollBack, Back
  <2>2. req' = [req EXCEPT ![r] = q] /\ UNCHANGED last
    BY <1>6 DEF RollBack
  <2>3. old \in Items
    BY <2>1 DEF Phased, DeletedOld, OldEntry
  <2> HIDE DEF p, old
  <2>4. p.calls[1] = "ok"
    BY <2>1 DEF Phased
  <2>5. <<Add(old)>> \in Seq(Commands) /\ <<Add(old)>> # <<>>
    BY <2>3, CommandTypes
  <2>6. /\ q \in RequestType /\ q.pc = "cli" /\ q.kind = "rollback"
        /\ q.todo = <<Add(old)>> /\ q.calls = p.calls
    BY <2>1, <2>5 DEF Request, RequestType
  <2> HIDE DEF q
  <2>7. Phased(q)
    BY <2>1, <2>3, <2>4, <2>5, <2>6 DEF Phased, LastAdd
  <2>8. QED
    BY <2>2, <2>6, <2>7, ChangeFlows
<1>7. ASSUME NEW r \in Requests, AuditDone(r) \/ GiveUp(r) PROVE FlowInv'
  <2>1. \E entry, claims : End(r, entry, claims, req[r].calls)
    BY <1>7 DEF AuditDone, GiveUp, EndAudited, EndUnaudited
  <2>2. QED
    BY <2>1, EndFlows
<1>8. QED
  BY <1>1, <1>2, <1>3, <1>4, <1>5, <1>6, <1>7, <1>10 DEF Next, Resume

LEMMA FlowInit == Init => FlowInv
BY IdleFlows DEF Init, FlowInv

(* What a create has done, and what its entry says.                        *)

Has(calls, outcome) == \E i \in DOMAIN calls : calls[i] = outcome

\* A create in flight has counted as done all that took effect, unless a
\* command came back as an error at its timeout.
Covers(q, took) ==
  q.pc # "idle" /\ q.kind = "create" =>
    /\ Has(q.calls, "unreported") \/ \A c \in Commands : took[c] > 0 => c \in q.done
    /\ Len(q.calls) = 0 => q.pc = "cli" /\ q.done = {}
    /\ q.pc = "back" /\ Len(q.calls) = 1 /\ ~q.ok => q.done = {}

\* What CreatesAreAudited says of one slot.
Told(q, l, took, logged) ==
  q.pc = "idle" /\ l.kind = "create" /\ l.calls # <<>> =>
    \/ Has(l.calls, "raised")
    \/ l.entry = "lost"
    \/ /\ l.entry = "written"
       /\ Has(l.calls, "unreported") \/ \A c \in Commands : took[c] > 0 => logged[c] > 0

NamedInv == \A r \in Requests :
  Covers(req[r], effect[r]) /\ Told(req[r], last[r], effect[r], audit[r])

\* A step of one request leaves what the others have done and logged alone.
LEMMA OneIsNamed ==
  ASSUME NamedInv, NEW r \in Requests,
         Covers(req'[r], effect'[r]), Told(req'[r], last'[r], effect'[r], audit'[r]),
         \A s \in Requests \ {r} : /\ req'[s] = req[s] /\ effect'[s] = effect[s]
                                  /\ last'[s] = last[s] /\ audit'[s] = audit[s]
  PROVE  NamedInv'
<1>1. ASSUME NEW s \in Requests
      PROVE  Covers(req'[s], effect'[s]) /\ Told(req'[s], last'[s], effect'[s], audit'[s])
  <2>1. CASE s = r
    BY <2>1
  <2>2. CASE s # r
    BY <2>2 DEF NamedInv
  <2>3. QED
    BY <2>1, <2>2
<1>2. QED
  BY <1>1 DEF NamedInv

\* A command returns: took is what its request has done since.
LEMMA ReturnedIsNamed ==
  ASSUME FlowInv, NamedInv, NEW r \in Requests, Calling(r), NEW ok \in BOOLEAN,
         NEW outcome \in Outcomes, Returned(r, ok, outcome), UNCHANGED <<audit, last>>,
         \A s \in Requests \ {r} : effect'[s] = effect[s],
         \/ outcome = "unreported"
         \/ \A c \in Commands : effect'[r][c] > 0 => effect[r][c] > 0 \/ (ok /\ c = Current(r))
  PROVE  NamedInv'
<1> DEFINE p == req[r]
           done == IF ok THEN p.done \cup {Current(r)} ELSE p.done
           calls == Append(p.calls, outcome)
           q == Request("back", p.kind, p.todo, done, ok, calls)
<1>1. p \in RequestType /\ p.pc = "cli" /\ Covers(p, effect[r])
  BY DEF FlowInv, NamedInv, Calling
<1>2. req' = [req EXCEPT ![r] = q]
  BY DEF Returned
<1>3. /\ q.pc = "back" /\ q.kind = p.kind /\ q.done = done /\ q.ok = ok /\ q.calls = calls
  BY DEF Request
<1>4. /\ Has(p.calls, "unreported") => Has(calls, "unreported")
      /\ outcome = "unreported" => Has(calls, "unreported")
      /\ Len(calls) # 0 /\ (Len(calls) = 1 => Len(p.calls) = 0)
  <2>1. p.calls \in Seq(Outcomes)
    BY <1>1 DEF RequestType
  <2>2. /\ Len(calls) = Len(p.calls) + 1 /\ Len(calls) \in DOMAIN calls
        /\ calls[Len(calls)] = outcome
        /\ \A i \in DOMAIN p.calls : i \in DOMAIN calls /\ calls[i] = p.calls[i]
    BY <2>1
  <2>3. Len(calls) # 0 /\ (Len(calls) = 1 => Len(p.calls) = 0)
    BY <2>1, <2>2
  <2> HIDE DEF calls
  <2>4. QED
    BY <2>2, <2>3 DEF Has
<1>5. p.done \subseteq done /\ (ok => Current(r) \in done) /\ (~ok => done = p.done)
  OBVIOUS
<1> HIDE DEF p, q, done, calls
<1>6. Covers(q, effect'[r])
  BY <1>1, <1>3, <1>4, <1>5 DEF Covers
<1>7. req'[r] = q /\ \A s \in Requests \ {r} : req'[s] = req[s]
  BY <1>2 DEF FlowInv
<1>8. Told(req'[r], last'[r], effect'[r], audit'[r])
  BY <1>3, <1>7 DEF Told
<1>9. QED
  BY <1>6, <1>7, <1>8, OneIsNamed

\* A request ends: its entry names its claims.
LEMMA EndIsNamed ==
  ASSUME FlowInv, ClaimInv, NamedInv, NEW r \in Requests, NEW entry, NEW claims, NEW calls,
         End(r, entry, claims, calls), UNCHANGED effect,
         req[r].kind = "create" =>
           \/ Has(calls, "raised")
           \/ entry = "lost"
           \/ /\ entry = "written"
              /\ Has(calls, "unreported") \/ \A c \in Commands : effect[r][c] > 0 => c \in claims
  PROVE  NamedInv'
<1> DEFINE l == [kind |-> req[r].kind, entry |-> entry, final |-> Current(r), calls |-> calls]
<1>1. /\ req'[r] = Idle /\ last'[r] = l
      /\ \A s \in Requests \ {r} : req'[s] = req[s] /\ last'[s] = last[s]
  BY DEF End, FlowInv
<1>2. /\ \A s \in Requests \ {r} : audit'[s] = audit[s]
      /\ entry = "written" => \A c \in Commands : c \in claims => audit'[r][c] > 0
  BY DEF End, ClaimInv, Counts
<1>3. l.kind = req[r].kind /\ l.entry = entry /\ l.calls = calls /\ Idle.pc = "idle"
  BY DEF Idle, Request
<1> HIDE DEF l
<1>4. Covers(req'[r], effect'[r])
  BY <1>1, <1>3 DEF Covers
<1>5. Told(req'[r], last'[r], effect'[r], audit'[r])
  BY <1>1, <1>2, <1>3 DEF Told
<1>6. QED
  BY <1>1, <1>2, <1>4, <1>5, OneIsNamed

LEMMA NamedStep == FlowInv /\ ClaimInv /\ NamedInv /\ [Next]_vars => NamedInv'
<1> SUFFICES ASSUME FlowInv, ClaimInv, NamedInv, [Next]_vars PROVE NamedInv'
  OBVIOUS
<1>1. CASE UNCHANGED vars
  BY <1>1 DEF vars, NamedInv
<1>2. CASE Restart
  BY <1>2 DEF Restart, NamedInv, Covers, Told, Idle, Request, Nothing
<1>3. ASSUME NEW r \in Requests, PasswordsDiffer(r) PROVE NamedInv'
  <2>1. /\ UNCHANGED req /\ req[r].pc = "idle" /\ last'[r].calls = <<>>
        /\ \A s \in Requests \ {r} : /\ effect'[s] = effect[s] /\ audit'[s] = audit[s]
                                   /\ last'[s] = last[s]
    BY <1>3 DEF PasswordsDiffer, Arrives, FlowInv, ClaimInv, Counts, Nothing
  <2>2. Covers(req'[r], effect'[r]) /\ Told(req'[r], last'[r], effect'[r], audit'[r])
    BY <2>1 DEF Covers, Told
  <2>3. QED
    BY <2>1, <2>2, OneIsNamed
<1>4. ASSUME NEW r \in Requests, Handler(r), ~PasswordsDiffer(r) PROVE NamedInv'
  <2>1. PICK kind, todo : Start(r, kind, todo)
    BY <1>4, HandlerStarts
  <2> DEFINE q == Request("cli", kind, todo, {}, FALSE, <<>>)
  <2>2. /\ req'[r] = q /\ effect'[r] = NoCounts
        /\ \A s \in Requests \ {r} : /\ req'[s] = req[s] /\ last'[s] = last[s]
                                   /\ effect'[s] = effect[s] /\ audit'[s] = audit[s]
    BY <2>1 DEF Start, Arrives, FlowInv, ClaimInv, Counts
  <2>3. q.pc = "cli" /\ q.calls = <<>> /\ q.done = {} /\ \A c \in Commands : NoCounts[c] = 0
    BY DEF Request, NoCounts
  <2> HIDE DEF q
  <2>4. Covers(req'[r], effect'[r]) /\ Told(req'[r], last'[r], effect'[r], audit'[r])
    BY <2>2, <2>3 DEF Covers, Told
  <2>5. QED
    BY <2>2, <2>4, OneIsNamed
<1>5. ASSUME NEW r \in Requests, CallSucceeds(r) \/ CallUnreported(r) PROVE NamedInv'
  <2>1. /\ \A s \in Requests \ {r} : effect'[s] = effect[s]
        /\ \A c \in Commands : effect'[r][c] > 0 => effect[r][c] > 0 \/ c = Current(r)
    BY <1>5 DEF CallSucceeds, CallUnreported, TakesEffect, ClaimInv, Counts
  <2>2. CASE CallSucceeds(r)
    BY <2>1, <2>2, ReturnedIsNamed DEF CallSucceeds, Outcomes
  <2>3. CASE CallUnreported(r)
    BY <2>1, <2>3, ReturnedIsNamed DEF CallUnreported, Outcomes
  <2>4. QED
    BY <1>5, <2>2, <2>3
<1>6. ASSUME NEW r \in Requests, CallRefused(r) PROVE NamedInv'
  BY <1>6, ReturnedIsNamed DEF CallRefused, Outcomes
<1>7. ASSUME NEW r \in Requests, CallRaises(r) PROVE NamedInv'
  <2>1. CASE req[r].kind \in {"replace", "rollback"}
    BY <1>7, <2>1, ReturnedIsNamed DEF CallRaises, Outcomes
  <2>2. CASE req[r].kind \notin {"replace", "rollback"}
    <3> DEFINE calls == Append(req[r].calls, "raised")
    <3>1. End(r, "none", {}, calls) /\ UNCHANGED effect
      BY <1>7, <2>2 DEF CallRaises
    <3>2. req[r].calls \in Seq(Outcomes)
      BY DEF FlowInv, RequestType
    <3>3. Len(calls) \in DOMAIN calls /\ calls[Len(calls)] = "raised"
      BY <3>2 DEF Outcomes
    <3> HIDE DEF calls
    <3>4. Has(calls, "raised")
      BY <3>3 DEF Has
    <3>5. QED
      BY <3>1, <3>4, EndIsNamed
  <2>3. QED
    BY <2>1, <2>2
<1>8. ASSUME NEW r \in Requests, NextCommand(r) \/ RollBack(r) PROVE NamedInv'
  <2> DEFINE p == req[r]
             onward == Request("cli", p.kind, Tail(p.todo), p.done, FALSE, p.calls)
             undo == Request("cli", "rollback", <<Add(OldEntry(r))>>, {}, FALSE, p.calls)
  <2>1. PICK q \in {onward, undo} :
          req' = [req EXCEPT ![r] = q] /\ (q = onward => Back(r))
    BY <1>8 DEF NextCommand, RollBack
  <2>2. /\ onward.pc = "cli" /\ onward.kind = p.kind /\ onward.done = p.done
        /\ onward.calls = p.calls
        /\ undo.pc = "cli" /\ undo.kind = "rollback"
    BY DEF Request
  <2> HIDE DEF onward, undo
  <2>3. UNCHANGED <<effect, audit, last>>
    BY <1>8 DEF NextCommand, RollBack
  <2>4. Covers(q, effect[r])
    BY <2>1, <2>2 DEF NamedInv, Covers, Back
  <2>5. req'[r] = q /\ q.pc = "cli" /\ \A s \in Requests \ {r} : req'[s] = req[s]
    BY <2>1, <2>2 DEF FlowInv
  <2>6. Told(req'[r], last'[r], effect'[r], audit'[r])
    BY <2>5 DEF Told
  <2>7. QED
    BY <2>3, <2>4, <2>5, <2>6, OneIsNamed
<1>9. ASSUME NEW r \in Requests, AuditDone(r) PROVE NamedInv'
  <2>1. PICK entry \in {"written", "lost"} :
          End(r, entry, req[r].done, req[r].calls) /\ UNCHANGED effect
    BY <1>9 DEF AuditDone, EndAudited
  <2>2. req[r].pc = "back" /\ Covers(req[r], effect[r])
    BY <1>9 DEF AuditDone, Back, NamedInv
  <2>3. QED
    BY <2>1, <2>2, EndIsNamed DEF Covers
<1>10. ASSUME NEW r \in Requests, GiveUp(r) PROVE NamedInv'
  <2>1. PICK entry \in {"none", "written", "lost"} :
          /\ End(r, entry, {}, req[r].calls) /\ UNCHANGED effect
          /\ req[r].kind = "create" => entry # "none"
    BY <1>10 DEF GiveUp, EndAudited, EndUnaudited
  <2>2. req[r].pc = "back" /\ Covers(req[r], effect[r]) /\ req[r] \in RequestType
    BY <1>10 DEF GiveUp, Back, NamedInv, FlowInv
  <2>3. ASSUME req[r].kind = "create" PROVE req[r].done = {}
    <3>1. ~req[r].ok /\ ~(Len(req[r].calls) > 1)
      BY <1>10, <2>3 DEF GiveUp, GoesOn
    <3>2. Len(req[r].calls) # 0 /\ req[r].calls \in Seq(Outcomes)
      BY <2>2, <2>3 DEF Covers, RequestType
    <3>3. Len(req[r].calls) = 1
      <4>1. \A n \in Nat : n # 0 /\ ~(n > 1) => n = 1
        OBVIOUS
      <4>2. Len(req[r].calls) \in Nat
        BY <3>2
      <4>3. QED
        BY <3>1, <3>2, <4>1, <4>2, Zenon
    <3>4. QED
      BY <2>2, <2>3, <3>1, <3>3 DEF Covers
  <2>4. QED
    BY <2>1, <2>2, <2>3, EndIsNamed DEF Covers
<1>11. QED
  BY <1>1, <1>2, <1>3, <1>4, <1>5, <1>6, <1>7, <1>8, <1>9, <1>10 DEF Next, Call, Resume

\* A create that gave HestiaCP a command has an entry that names everything
\* that took effect, for any number of requests and any list of aliases,
\* however its commands fail - unless one raised something else than
\* HestiaCLIError or the append failed (no entry), or one was killed at its
\* timeout (an entry, which may miss that one).
THEOREM CreatesAreAuditedHolds == Spec => []CreatesAreAudited
<1>1. Init => IInv /\ NamedInv
  BY DEF Init, IInv, ClaimInv, Counts, InDone, NoCounts, Idle, Request, Nothing,
     NamedInv, Covers, Told
<1>2. NamedInv => CreatesAreAudited
  BY DEF NamedInv, Told, Has, CreatesAreAudited, CameBack, Ended
<1>3. IInv /\ FlowInv /\ NamedInv /\ [Next]_vars => IInv' /\ FlowInv' /\ NamedInv'
  BY ClaimStep, DomainStep, FlowStep, NamedStep DEF IInv
<1>4. QED
  BY <1>1, <1>2, <1>3, FlowInit, PTL DEF Spec

-----------------------------------------------------------------------------
(* Types.                                                                  *)

\* What the mailbox has it has no longer than itself.
HeldInv ==
  /\ entries \in SUBSET Items
  /\ entries # {} => "box" \in entries
  /\ starts \in 0 .. MaxStarts /\ faults \in 0 .. MaxFaults

LEMMA EffectHolds ==
  ASSUME HeldInv, NEW r \in Requests, NEW c \in Commands, TakesEffect(r, c)
  PROVE  entries' \in SUBSET Items /\ (entries' # {} => "box" \in entries')
<1>1. c.op \in {"add", "del", "set"} /\ c.item \in Items
  BY DEF Commands
<1>2. Add("box").item = "box" /\ Del("box").op = "del" /\ Add("box").op = "add" /\ Del("box").item = "box"
  BY DEF Add, Del, Command
<1>3. entries' = Applied(c) /\ Accepts(c)
  BY DEF TakesEffect
<1>4. CASE c.op = "add"
  <2>1. entries' = entries \cup {c.item}
    BY <1>2, <1>3, <1>4 DEF Applied
  <2>2. c = Add("box") \/ "box" \in entries
    BY <1>3 DEF Accepts
  <2>3. QED
    BY <2>1, <2>2, <1>1, <1>2 DEF HeldInv
<1>5. CASE c = Del("box")
  BY <1>2, <1>3, <1>5 DEF Applied
<1>6. CASE c.op = "del" /\ c # Del("box")
  <2>1. c.item # "box"
    <3>1. c = [op |-> c.op, item |-> c.item]
      BY DEF Commands
    <3>2. QED
      BY <3>1, <1>6 DEF Del, Command
  <2>2. entries' = entries \ {c.item}
    BY <1>2, <1>3, <1>6, <2>1 DEF Applied
  <2>3. "box" \in entries
    BY <1>2, <1>3, <1>6 DEF Accepts
  <2>4. QED
    BY <2>1, <2>2, <2>3 DEF HeldInv
<1>7. CASE c.op = "set"
  BY <1>2, <1>3, <1>7 DEF Applied, HeldInv
<1>8. QED
  BY <1>1, <1>4, <1>5, <1>6, <1>7

LEMMA HeldStep == FlowInv /\ HeldInv /\ [Next]_vars => HeldInv'
<1> SUFFICES ASSUME FlowInv, HeldInv, [Next]_vars PROVE HeldInv'
  OBVIOUS
<1> USE BoundAssumption
<1>1. CASE UNCHANGED vars
  BY <1>1 DEF vars, HeldInv
<1>2. CASE Restart
  BY <1>2 DEF Restart, Fault, HeldInv
<1>3. ASSUME NEW r \in Requests, Handler(r) PROVE HeldInv'
  <2>1. Arrives(r)
    BY <1>3, HandlerStarts DEF PasswordsDiffer, Start
  <2>2. QED
    BY <2>1 DEF Arrives, HeldInv
<1>4. ASSUME NEW r \in Requests, Call(r) PROVE HeldInv'
  <2>1. starts' = starts /\ faults' \in 0 .. MaxFaults
    <3>1. UNCHANGED starts /\ (UNCHANGED faults \/ (faults < MaxFaults /\ faults' = faults + 1))
      BY <1>4 DEF Call, CallSucceeds, CallRefused, CallUnreported, CallRaises, Fault
    <3>2. QED
      BY <3>1 DEF HeldInv
  <2>2. UNCHANGED entries \/ (TakesEffect(r, Current(r)) /\ Calling(r))
    BY <1>4 DEF Call, CallSucceeds, CallRefused, CallUnreported, CallRaises
  <2>3. Calling(r) => Current(r) \in Commands
    <3>1. req[r].todo \in Seq(Commands) /\ (Calling(r) => req[r].todo # <<>>)
      BY DEF FlowInv, RequestType, Phased, Calling
    <3>2. QED
      BY <3>1 DEF Current
  <2>4. QED
    BY <2>1, <2>2, <2>3, EffectHolds DEF HeldInv
<1>5. ASSUME NEW r \in Requests, Resume(r) PROVE HeldInv'
  <2>1. UNCHANGED <<entries, starts>> /\ (UNCHANGED faults \/ Fault)
    BY <1>5 DEF Resume, NextCommand, AuditDone, RollBack, GiveUp, EndAudited, EndUnaudited
  <2>2. QED
    BY <2>1 DEF Fault, HeldInv
<1>6. QED
  BY <1>1, <1>2, <1>3, <1>4, <1>5 DEF Next

\* The state of the write handlers keeps its types, and HestiaCP never holds
\* what belongs to a mailbox without the mailbox.
THEOREM TypeCorrect == Spec => []TypeOK
<1>1. Init => IInv /\ HeldInv
  BY BoundAssumption DEF Init, IInv, ClaimInv, Counts, InDone, NoCounts, Idle, Request, HeldInv
<1>2. IInv /\ FlowInv /\ HeldInv /\ [Next]_vars => IInv' /\ FlowInv' /\ HeldInv'
  BY ClaimStep, DomainStep, FlowStep, HeldStep DEF IInv
<1>3. IInv /\ FlowInv /\ HeldInv => TypeOK
  BY DEF IInv, ClaimInv, Counts, FlowInv, HeldInv, TypeOK, RequestType, Outcomes, Phased
<1>4. QED
  BY <1>1, <1>2, <1>3, FlowInit, PTL DEF Spec

-----------------------------------------------------------------------------
(* A replace, with nobody else writing.                                    *)

\* What a replace and its rollback have left in E so far.
KeptBy(q, E) ==
  /\ q.kind = "replace" /\ q.pc = "back" /\ Len(q.calls) = 2 /\ q.ok => Head(q.todo).item \in E
  /\ q.kind = "rollback" /\ q.pc = "back" =>
       Head(q.todo).item \in E \/ q.calls[3] \in {"refused", "raised"}

KeptAtEnd(l, E) ==
  l.kind \in {"replace", "rollback"} /\ l.calls[1] = "ok"
    => \/ l.final.item \in E
       \/ Len(l.calls) = 3 /\ l.calls[3] \in {"refused", "raised"}

\* No request but r was ever started.
Solo(r) == \A s \in Requests : last[s] = Nothing /\ (s # r => req[s] = Idle)

LoneInv ==
  /\ starts \in Nat
  /\ starts = 0 => \A r \in Requests : req[r] = Idle /\ last[r] = Nothing
  /\ starts = 1 => \A r \in Requests :
       /\ req[r].pc # "idle" => Solo(r)
       /\ KeptBy(req[r], entries) /\ KeptAtEnd(last[r], entries)

LEMMA NothingKept == \A E : KeptBy(Idle, E) /\ KeptAtEnd(Nothing, E)
BY DEF KeptBy, KeptAtEnd, Idle, Request, Nothing

LEMMA LoneGoesOn ==
  ASSUME FlowInv, LoneInv, NEW r \in Requests, req[r].pc # "idle", NEW q,
         req' = [req EXCEPT ![r] = q], UNCHANGED <<last, starts>>,
         starts = 1 => KeptBy(q, entries')
  PROVE  LoneInv'
<1>1. starts # 0
  BY DEF LoneInv, Idle, Request
<1>2. ASSUME starts = 1, NEW s \in Requests
      PROVE  /\ req'[s].pc # "idle" => Solo(s)'
             /\ KeptBy(req'[s], entries') /\ KeptAtEnd(last'[s], entries')
  <2>1. Solo(r)
    BY <1>2 DEF LoneInv
  <2>2. \A t \in Requests : last'[t] = Nothing /\ (t # r => req'[t] = Idle)
    BY <2>1 DEF Solo, FlowInv
  <2>3. Idle.pc = "idle"
    BY DEF Idle, Request
  <2>4. req'[s].pc # "idle" => s = r
    BY <2>2, <2>3
  <2>5. req'[r] = q
    BY DEF FlowInv
  <2>6. QED
    BY <1>2, <2>2, <2>4, <2>5, NothingKept DEF Solo
<1>3. QED
  BY <1>1, <1>2 DEF LoneInv

LEMMA LoneEnds ==
  ASSUME FlowInv, LoneInv, NEW r \in Requests, req[r].pc # "idle", NEW l,
         req' = [req EXCEPT ![r] = Idle], last' = [last EXCEPT ![r] = l],
         UNCHANGED starts, starts = 1 => KeptAtEnd(l, entries')
  PROVE  LoneInv'
<1>1. starts # 0
  BY DEF LoneInv, Idle, Request
<1>2. ASSUME starts = 1, NEW s \in Requests
      PROVE  /\ req'[s].pc = "idle"
             /\ KeptBy(req'[s], entries') /\ KeptAtEnd(last'[s], entries')
  <2>1. Solo(r)
    BY <1>2 DEF LoneInv
  <2>2. req'[s] = Idle /\ last'[s] \in {Nothing, l} /\ (last'[s] = l \/ last'[s] = Nothing)
    BY <2>1 DEF Solo, FlowInv
  <2>3. Idle.pc = "idle"
    BY DEF Idle, Request
  <2>4. QED
    BY <1>2, <2>2, <2>3, NothingKept
<1>3. QED
  BY <1>1, <1>2 DEF LoneInv

\* A command returns: when it took effect, what it adds is there.
LEMMA LoneReturns ==
  ASSUME FlowInv, LoneInv, NEW r \in Requests, Calling(r), NEW ok \in BOOLEAN,
         NEW outcome \in Outcomes, Returned(r, ok, outcome), UNCHANGED <<last, starts>>,
         outcome \in {"refused", "raised"} \/ entries' = Applied(Current(r)),
         ok => outcome = "ok"
  PROVE  LoneInv'
<1> DEFINE p == req[r]
           cur == Current(r)
           q == Request("back", p.kind, p.todo, IF ok THEN p.done \cup {cur} ELSE p.done,
                        ok, Append(p.calls, outcome))
<1>1. p \in RequestType /\ Phased(p) /\ p.pc = "cli"
  BY DEF FlowInv, Calling
<1>2. req' = [req EXCEPT ![r] = q]
  BY DEF Returned
<1>3. cur = Head(p.todo)
  BY DEF Current
<1>4. /\ q.kind = p.kind /\ q.todo = p.todo /\ q.ok = ok /\ q.calls = Append(p.calls, outcome)
  BY DEF Request
<1>5. ASSUME cur.op = "add", entries' = Applied(cur) PROVE Head(q.todo).item \in entries'
  BY <1>3, <1>4, <1>5 DEF Applied, Add, Del, Command
<1> HIDE DEF p, q, cur
<1>6. LastAdd(p) => cur.op = "add"
  BY <1>3, LastAddIsOne, CommandTypes
<1>7. p.calls \in Seq(Outcomes)
  BY <1>1 DEF RequestType
<1>8. Len(q.calls) = Len(p.calls) + 1 /\ q.calls[Len(q.calls)] = outcome
  BY <1>4, <1>7
<1>9. KeptBy(q, entries')
  <2>1. ASSUME q.kind = "replace", Len(q.calls) = 2, ok PROVE Head(q.todo).item \in entries'
    <3>1. LastAdd(p)
      BY <2>1, <1>1, <1>4, <1>7, <1>8 DEF Phased
    <3>2. entries' = Applied(cur)
      BY <2>1 DEF cur
    <3>3. QED
      BY <3>1, <3>2, <1>5, <1>6
  <2>2. ASSUME q.kind = "rollback"
        PROVE  Head(q.todo).item \in entries' \/ q.calls[3] \in {"refused", "raised"}
    <3>1. LastAdd(p) /\ Len(p.calls) = 2
      BY <2>2, <1>1, <1>4 DEF Phased
    <3>2. q.calls[3] = outcome
      BY <3>1, <1>8
    <3>3. CASE outcome \in {"refused", "raised"}
      BY <3>2, <3>3
    <3>4. CASE entries' = Applied(Current(r))
      BY <3>1, <3>4, <1>5, <1>6 DEF cur
    <3>5. QED
      BY <3>3, <3>4
  <2>3. QED
    BY <2>1, <2>2, <1>4 DEF KeptBy
<1>10. req[r].pc # "idle"
  BY <1>1 DEF p
<1>11. QED
  BY <1>2, <1>9, <1>10, LoneGoesOn

LEMMA LoneStep == FlowInv /\ LoneInv /\ [Next]_vars => LoneInv'
<1> SUFFICES ASSUME FlowInv, LoneInv, [Next]_vars PROVE LoneInv'
  OBVIOUS
<1>1. CASE UNCHANGED vars
  BY <1>1 DEF vars, LoneInv, Solo
<1>2. CASE Restart
  <2>1. \A r \in Requests : req'[r] = Idle /\ last'[r] = Nothing
    BY <1>2 DEF Restart
  <2>2. starts' = starts /\ Idle.pc = "idle"
    BY <1>2 DEF Restart, Idle, Request
  <2>3. QED
    BY <2>1, <2>2, NothingKept DEF LoneInv
<1>9. ASSUME NEW r \in Requests, PasswordsDiffer(r) PROVE LoneInv'
  <2>1. PICK kind \in {"create", "one"} : last' = [last EXCEPT ![r] = [Nothing EXCEPT !.kind = kind]]
    BY <1>9 DEF PasswordsDiffer
  <2> DEFINE l == [Nothing EXCEPT !.kind = kind]
  <2>2. UNCHANGED req /\ starts' = starts + 1
    BY <1>9 DEF PasswordsDiffer, Arrives
  <2>3. l.kind \notin {"replace", "rollback"}
    BY DEF Nothing
  <2> HIDE DEF l
  <2>4. CASE starts = 0
    <3>1. \A s \in Requests : req'[s] = Idle /\ (last'[s] = Nothing \/ last'[s] = l)
      BY <2>1, <2>2, <2>4 DEF LoneInv, FlowInv, l
    <3>2. \A s \in Requests : KeptBy(req'[s], entries') /\ KeptAtEnd(last'[s], entries')
      BY <2>3, <3>1, NothingKept DEF KeptAtEnd
    <3>3. Idle.pc = "idle"
      BY DEF Idle, Request
    <3>4. QED
      BY <2>2, <2>4, <3>1, <3>2, <3>3 DEF LoneInv
  <2>5. CASE starts # 0
    BY <2>2, <2>5 DEF LoneInv
  <2>6. QED
    BY <2>4, <2>5
<1>3. ASSUME NEW r \in Requests, Handler(r), ~PasswordsDiffer(r) PROVE LoneInv'
  <2>1. PICK kind \in {"one", "create", "replace"}, todo \in Seq(Commands) : Start(r, kind, todo)
    BY <1>3, HandlerStarts
  <2> DEFINE q == Request("cli", kind, todo, {}, FALSE, <<>>)
  <2>2. /\ req' = [req EXCEPT ![r] = q] /\ starts' = starts + 1 /\ UNCHANGED last
        /\ q.pc = "cli"
    BY <2>1 DEF Start, Arrives, Request
  <2> HIDE DEF q
  <2>3. CASE starts = 0
    <3>1. \A s \in Requests : last'[s] = Nothing /\ (s # r => req'[s] = Idle)
      BY <2>2, <2>3 DEF LoneInv, FlowInv
    <3>2. req'[r] = q /\ Idle.pc = "idle"
      BY <2>2 DEF FlowInv, Idle, Request
    <3>3. KeptBy(q, entries')
      BY <2>2 DEF KeptBy
    <3>4. \A s \in Requests : req'[s].pc # "idle" => Solo(s)'
      BY <3>1, <3>2 DEF Solo
    <3>5. \A s \in Requests : KeptBy(req'[s], entries') /\ KeptAtEnd(last'[s], entries')
      BY <3>1, <3>2, <3>3, NothingKept
    <3>6. QED
      BY <2>2, <2>3, <3>4, <3>5 DEF LoneInv
  <2>4. CASE starts # 0
    BY <2>2, <2>4 DEF LoneInv
  <2>5. QED
    BY <2>3, <2>4
<1>4. ASSUME NEW r \in Requests, Call(r) PROVE LoneInv'
  <2>1. CASE CallSucceeds(r)
    BY <2>1, LoneReturns DEF CallSucceeds, TakesEffect, Outcomes
  <2>2. CASE CallRefused(r)
    BY <2>2, LoneReturns DEF CallRefused, Outcomes
  <2>3. CASE CallUnreported(r)
    BY <2>3, LoneReturns DEF CallUnreported, TakesEffect, Outcomes
  <2>4. CASE CallRaises(r)
    <3>1. CASE req[r].kind \in {"replace", "rollback"}
      BY <2>4, <3>1, LoneReturns DEF CallRaises, Outcomes
    <3>2. CASE req[r].kind \notin {"replace", "rollback"}
      <4> DEFINE l == [kind |-> req[r].kind, entry |-> "none", final |-> Current(r),
                       calls |-> Append(req[r].calls, "raised")]
      <4>1. /\ req' = [req EXCEPT ![r] = Idle] /\ last' = [last EXCEPT ![r] = l]
            /\ UNCHANGED starts /\ req[r].pc # "idle"
        BY <2>4, <3>2 DEF CallRaises, End, Calling
      <4>2. KeptAtEnd(l, entries')
        BY <3>2 DEF KeptAtEnd
      <4> HIDE DEF l
      <4>3. QED
        BY <4>1, <4>2, LoneEnds
    <3>3. QED
      BY <3>1, <3>2
  <2>5. QED
    BY <1>4, <2>1, <2>2, <2>3, <2>4 DEF Call
<1>5. ASSUME NEW r \in Requests, NextCommand(r) PROVE LoneInv'
  <2> DEFINE q == Request("cli", req[r].kind, Tail(req[r].todo), req[r].done, FALSE, req[r].calls)
  <2>1. /\ req' = [req EXCEPT ![r] = q] /\ UNCHANGED <<last, starts>> /\ req[r].pc # "idle"
        /\ q.pc = "cli"
    BY <1>5 DEF NextCommand, Back, Request
  <2> HIDE DEF q
  <2>2. KeptBy(q, entries')
    BY <2>1 DEF KeptBy
  <2>3. QED
    BY <2>1, <2>2, LoneGoesOn
<1>6. ASSUME NEW r \in Requests, RollBack(r) PROVE LoneInv'
  <2> DEFINE q == Request("cli", "rollback", <<Add(OldEntry(r))>>, {}, FALSE, req[r].calls)
  <2>1. /\ req' = [req EXCEPT ![r] = q] /\ UNCHANGED <<last, starts>> /\ req[r].pc # "idle"
        /\ q.pc = "cli"
    BY <1>6 DEF RollBack, Back, Request
  <2> HIDE DEF q
  <2>2. KeptBy(q, entries')
    BY <2>1 DEF KeptBy
  <2>3. QED
    BY <2>1, <2>2, LoneGoesOn
<1>7. ASSUME NEW r \in Requests, AuditDone(r) \/ GiveUp(r) PROVE LoneInv'
  <2> DEFINE p == req[r]
             l(entry) == [kind |-> p.kind, entry |-> entry, final |-> Current(r),
                          calls |-> p.calls]
  <2>1. PICK entry \in {"none", "written", "lost"} :
          /\ req' = [req EXCEPT ![r] = Idle] /\ last' = [last EXCEPT ![r] = l(entry)]
          /\ UNCHANGED <<entries, starts>> /\ p.pc = "back"
    BY <1>7 DEF AuditDone, GiveUp, EndAudited, EndUnaudited, End, Back
  <2>2. p \in RequestType /\ Phased(p) /\ (starts = 1 => KeptBy(p, entries))
    BY DEF FlowInv, LoneInv
  <2>3. /\ p.kind = "replace" => p.ok \/ Len(p.calls) = 1
        /\ p.kind = "replace" /\ p.ok => Len(p.todo) = 1
    BY <1>7 DEF AuditDone, GiveUp, GoesOn
  <2>4. /\ l(entry).kind = p.kind /\ l(entry).calls = p.calls
        /\ l(entry).final = Head(p.todo)
    BY DEF Current
  <2> HIDE DEF l, p
  <2>5. ASSUME starts = 1 PROVE KeptAtEnd(l(entry), entries)
    <3>1. CASE p.kind = "replace" /\ p.ok
      <4>1. Len(p.calls) = 2
        <5>1. ~\E x, y \in Items : p.todo = <<Del(x), Add(y)>>
          <6>1. \A x, y \in Items : Len(<<Del(x), Add(y)>>) = 2
            OBVIOUS
          <6>2. QED
            BY <2>3, <3>1, <6>1
        <5>2. QED
          BY <2>1, <2>2, <3>1, <5>1 DEF Phased
      <4>2. QED
        BY <2>1, <2>2, <2>4, <2>5, <3>1, <4>1 DEF KeptBy, KeptAtEnd
    <3>2. CASE p.kind = "replace" /\ ~p.ok
      <4>1. p.calls[1] # "ok"
        BY <2>1, <2>2, <2>3, <3>2 DEF Phased
      <4>2. QED
        BY <4>1, <2>4 DEF KeptAtEnd
    <3>3. CASE p.kind = "rollback"
      <4>1. Len(p.calls) = 3
        BY <2>1, <2>2, <3>3 DEF Phased
      <4>2. QED
        BY <2>1, <2>2, <2>4, <2>5, <3>3, <4>1 DEF KeptBy, KeptAtEnd
    <3>4. CASE p.kind \notin {"replace", "rollback"}
      BY <3>4, <2>4 DEF KeptAtEnd
    <3>5. QED
      BY <3>1, <3>2, <3>3, <3>4
  <2>6. req[r].pc # "idle"
    BY <2>1 DEF p
  <2>7. QED
    BY <2>1, <2>5, <2>6, LoneEnds
<1>8. QED
  BY <1>1, <1>2, <1>3, <1>4, <1>5, <1>6, <1>7, <1>9 DEF Next, Resume

\* A replace that is alone keeps one of its two entries, for any aliases and
\* forwards and any faults, unless its rollback fails too.
THEOREM ReplaceKeepsOneHolds == Spec => []ReplaceKeepsOne
<1>1. Init => LoneInv
  BY NothingKept DEF Init, LoneInv, Idle, Request
<1>2. FlowInv /\ LoneInv /\ [Next]_vars => FlowInv' /\ LoneInv'
  BY FlowStep, LoneStep
<1>3. LoneInv => ReplaceKeepsOne
  BY DEF LoneInv, KeptAtEnd, ReplaceKeepsOne, Ended
<1>4. QED
  BY <1>1, <1>2, <1>3, FlowInit, PTL DEF Spec

-----------------------------------------------------------------------------
(* HestiaCache.                                                            *)

USE DomainAssumption, NoValueAssumption, TimeAssumption DEF Entry, KeysOf, ReaderState, WriterState, Reading, Writing

\* Every value of the state has its type, in every step of every handler.
THEOREM CacheTypeCorrect == CacheSpec => []CacheTypeOK
<1> USE DEF CacheTypeOK
<1>1. CacheInit => CacheTypeOK
  <2> SUFFICES ASSUME CacheInit PROVE CacheTypeOK
    OBVIOUS
  <2>1. history \in [Keys -> Seq(Nat)] /\ hidden \in [Keys -> Nat] /\ now \in Nat
    BY DEF CacheInit
  <2>2. IdleReader \in ReaderState /\ IdleWriter \in WriterState
    BY DEF IdleReader, IdleWriter
  <2>3. QED
    BY <2>1, <2>2 DEF CacheInit, IdleReader, IdleWriter
<1>2. CacheTypeOK /\ [CacheNext]_cacheVars => CacheTypeOK'
  <2> SUFFICES ASSUME CacheTypeOK, [CacheNext]_cacheVars PROVE CacheTypeOK'
    OBVIOUS
  <2>1. ASSUME NEW r \in Readers, NEW k \in Keys, Hit(r, k) PROVE CacheTypeOK'
    BY <2>1 DEF Hit, Fresh
  <2>2. ASSUME NEW r \in Readers, NEW k \in Keys, Miss(r, k) PROVE CacheTypeOK'
    BY <2>2 DEF Miss, IdleReader
  <2>3. ASSUME NEW r \in Readers, ReadUpstream(r) PROVE CacheTypeOK'
    <3> DEFINE s == Reading("loaded", reader[r].key, Version(reader[r].key), now, FALSE)
    <3>1. s \in ReaderState /\ s.key \in Keys
      BY <2>3 DEF ReadUpstream, Version
    <3>2. reader' = [reader EXCEPT ![r] = s]
      BY <2>3 DEF ReadUpstream
    <3> HIDE DEF s
    <3>3. QED
      BY <2>3, <3>1, <3>2 DEF ReadUpstream
  <2>4. ASSUME NEW r \in Readers, FetchFails(r) PROVE CacheTypeOK'
    BY <2>4 DEF FetchFails, IdleReader
  <2>5. ASSUME NEW r \in Readers, Store(r) PROVE CacheTypeOK'
    BY <2>5 DEF Store, EntryOf, IdleReader
  <2>6. ASSUME NEW w \in Writers, NEW d \in Domains, StartWrite(w, d) PROVE CacheTypeOK'
    BY <2>6 DEF StartWrite, IdleWriter
  <2>7. ASSUME NEW w \in Writers, NEW S \in SUBSET KeysOf(writer[w].dom),
               CliApplies(w, S)
        PROVE CacheTypeOK'
    <3> DEFINE s == Writing("applied", writer[w].dom, S, {})
    <3>1. s \in WriterState /\ s.keys \subseteq KeysOf(s.dom)
      BY <2>7 DEF CliApplies
    <3>2. writer' = [writer EXCEPT ![w] = s]
      BY <2>7 DEF CliApplies
    <3>3. history' \in [Keys -> Seq(Nat)]
      BY <2>7 DEF CliApplies, Changed
    <3> HIDE DEF s
    <3>4. QED
      BY <2>7, <3>1, <3>2, <3>3 DEF CliApplies
  <2>8. ASSUME NEW w \in Writers, NEW S \in SUBSET KeysOf(writer[w].dom),
               CliAppliesUnreported(w, S)
        PROVE CacheTypeOK'
    BY <2>8 DEF CliAppliesUnreported, Changed, IdleWriter, Version
  <2>9. ASSUME NEW w \in Writers, CliRefuses(w) PROVE CacheTypeOK'
    BY <2>9 DEF CliRefuses, IdleWriter
  <2>10. ASSUME NEW w \in Writers, SnapshotKeys(w) PROVE CacheTypeOK'
    <3> DEFINE s == Writing("dropping", writer[w].dom, writer[w].keys,
                         {k \in KeysOf(writer[w].dom) : cache[k] # NoValue})
    <3>1. s \in WriterState /\ s.keys \subseteq KeysOf(s.dom)
      OBVIOUS
    <3>2. writer' = [writer EXCEPT ![w] = s]
      BY <2>10 DEF SnapshotKeys
    <3>3. reader' \in [Readers -> ReaderState]
      BY <2>10 DEF SnapshotKeys
    <3>4. \A r \in Readers : reader'[r].pc # "idle" => reader'[r].key \in Keys
      BY <2>10 DEF SnapshotKeys
    <3> HIDE DEF s
    <3>5. QED
      BY <2>10, <3>1, <3>2, <3>3, <3>4 DEF SnapshotKeys
  <2>11. ASSUME NEW w \in Writers, NEW k \in Keys, DropKey(w, k) PROVE CacheTypeOK'
    <3> DEFINE s == Writing("dropping", writer[w].dom, writer[w].keys, writer[w].todo \ {k})
    <3>1. s \in WriterState /\ s.keys \subseteq KeysOf(s.dom)
      OBVIOUS
    <3>2. writer' = [writer EXCEPT ![w] = s]
      BY <2>11 DEF DropKey
    <3> HIDE DEF s
    <3>3. QED
      BY <2>11, <3>1, <3>2 DEF DropKey
  <2>12. ASSUME NEW w \in Writers, TouchTrigger(w) PROVE CacheTypeOK'
    BY <2>12 DEF TouchTrigger, IdleWriter
  <2>13. ASSUME NEW k \in Keys, OutsideChange({k}) PROVE CacheTypeOK'
    BY <2>13 DEF OutsideChange, Changed, Version
  <2>14. CASE ConsumeTrigger
    BY <2>14 DEF ConsumeTrigger
  <2>15. CASE CacheRestart
    BY <2>15 DEF CacheRestart, IdleReader, IdleWriter
  <2>16. CASE Tick
    BY <2>16 DEF Tick
  <2>17. CASE UNCHANGED cacheVars
    BY <2>17 DEF cacheVars
  <2>18. QED
    BY <2>1, <2>2, <2>3, <2>4, <2>5, <2>6, <2>7, <2>8, <2>9, <2>10, <2>11, <2>12,
       <2>13, <2>14, <2>15, <2>16, <2>17 DEF CacheNext, ReaderStep
<1>3. QED
  BY <1>1, <1>2, PTL DEF CacheSpec
-----------------------------------------------------------------------------
(* Why an outdated value can be in the cache.                              *)

\* StaleOnlyWhenExcused for the values still in flight: a fetch no
\* invalidation crossed can only be outdated by a write that has not taken
\* its snapshot yet, and that write's snapshot will mark it.
FetchExcused(k, v) ==
  v < hidden[k] \/ \E w \in Writers : writer[w].pc = "applied" /\ k \in writer[w].keys

InFlightExcused == \A r \in Readers :
  /\ reader[r].pc = "loaded"
  /\ ~reader[r].raced
  /\ reader[r].val < Version(reader[r].key)
  => FetchExcused(reader[r].key, reader[r].val)

CauseInv == StaleOnlyWhenExcused /\ InFlightExcused

LEMMA CauseStep == CacheTypeOK /\ CacheTypeOK' /\ CauseInv /\ [CacheNext]_cacheVars => CauseInv'
<1> USE DEF CacheTypeOK, CauseInv, StaleOnlyWhenExcused, InFlightExcused, FetchExcused,
            Excused, Announcing, Version
<1> SUFFICES ASSUME CacheTypeOK, CacheTypeOK', CauseInv, [CacheNext]_cacheVars PROVE CauseInv'
  OBVIOUS
<1>1. ASSUME NEW r \in Readers, NEW k \in Keys, Hit(r, k) PROVE CauseInv'
  BY <1>1 DEF Hit
<1>2. ASSUME NEW r \in Readers, NEW k \in Keys, Miss(r, k) PROVE CauseInv'
  BY <1>2 DEF Miss
<1>3. ASSUME NEW r \in Readers, ReadUpstream(r) PROVE CauseInv'
  <2>1. StaleOnlyWhenExcused'
    BY <1>3 DEF ReadUpstream
  <2>2. InFlightExcused'
    <3> SUFFICES ASSUME NEW q \in Readers, reader'[q].pc = "loaded", ~reader'[q].raced,
                        reader'[q].val < Version(reader[q].key)'
                 PROVE FetchExcused(reader[q].key, reader[q].val)'
      OBVIOUS
    <3>1. CASE q = r
      BY <1>3, <3>1 DEF ReadUpstream
    <3>2. CASE q # r
      BY <1>3, <3>2 DEF ReadUpstream
    <3>3. QED
      BY <3>1, <3>2
  <2>3. QED
    BY <2>1, <2>2
<1>4. ASSUME NEW r \in Readers, FetchFails(r) PROVE CauseInv'
  BY <1>4 DEF FetchFails, IdleReader
<1>5. ASSUME NEW r \in Readers, Store(r) PROVE CauseInv'
  <2>1. StaleOnlyWhenExcused'
    <3> SUFFICES ASSUME NEW k \in Keys, cache'[k] # NoValue, cache'[k].val < Version(k)',
                        ~cache'[k].raced
                 PROVE Excused(k, cache[k].val)'
      OBVIOUS
    <3>1. CASE k = reader[r].key
      <4>1. cache'[k] = EntryOf(r)
        BY <1>5, <3>1 DEF Store
      <4>2. FetchExcused(k, reader[r].val)
        BY <1>5, <3>1, <4>1 DEF Store, EntryOf
      <4>3. QED
        BY <1>5, <4>1, <4>2 DEF Store, EntryOf
    <3>2. CASE k # reader[r].key
      BY <1>5, <3>2 DEF Store
    <3>3. QED
      BY <3>1, <3>2
  <2>2. InFlightExcused'
    BY <1>5 DEF Store, IdleReader
  <2>3. QED
    BY <2>1, <2>2
<1>6. ASSUME NEW w \in Writers, NEW d \in Domains, StartWrite(w, d) PROVE CauseInv'
  BY <1>6 DEF StartWrite, IdleWriter
<1>7. ASSUME NEW w \in Writers, NEW S \in SUBSET KeysOf(writer[w].dom), CliApplies(w, S)
      PROVE CauseInv'
  BY <1>7 DEF CliApplies, Changed
<1>8. ASSUME NEW w \in Writers, NEW S \in SUBSET KeysOf(writer[w].dom),
             CliAppliesUnreported(w, S)
      PROVE CauseInv'
  <2>1. \A k \in Keys : \/ Version(k)' = Version(k) /\ hidden'[k] = hidden[k]
                        \/ hidden'[k] = Version(k)'
    BY <1>8 DEF CliAppliesUnreported, Changed
  <2>2. \A v \in Writers \ {w} : writer'[v] = writer[v]
    BY <1>8 DEF CliAppliesUnreported
  <2>3. writer[w].pc = "cli" /\ UNCHANGED <<cache, reader>>
    BY <1>8 DEF CliAppliesUnreported
  <2>4. StaleOnlyWhenExcused'
    <3> SUFFICES ASSUME NEW k \in Keys, cache[k] # NoValue, cache[k].val < Version(k)',
                        ~cache[k].raced
                 PROVE Excused(k, cache[k].val)'
      BY <2>3
    <3>1. CASE Version(k)' = Version(k) /\ hidden'[k] = hidden[k]
      <4>1. Excused(k, cache[k].val)
        BY <3>1
      <4>2. Announcing(k) => Announcing(k)'
        BY <2>2, <2>3
      <4>3. QED
        BY <2>3, <3>1, <4>1, <4>2
    <3>2. CASE hidden'[k] = Version(k)'
      BY <2>3, <3>2
    <3>3. QED
      BY <2>1, <3>1, <3>2
  <2>5. InFlightExcused'
    <3> SUFFICES ASSUME NEW q \in Readers, reader[q].pc = "loaded", ~reader[q].raced,
                        reader[q].val < Version(reader[q].key)'
                 PROVE FetchExcused(reader[q].key, reader[q].val)'
      BY <2>3
    <3> DEFINE k == reader[q].key
    <3>0. k \in Keys
      OBVIOUS
    <3> HIDE DEF k
    <3>1. CASE Version(k)' = Version(k) /\ hidden'[k] = hidden[k]
      <4>1. FetchExcused(k, reader[q].val)
        BY <3>1 DEF k
      <4>2. QED
        BY <2>2, <2>3, <3>1, <4>1 DEF k
    <3>2. CASE hidden'[k] = Version(k)'
      BY <2>3, <3>2 DEF k
    <3>3. QED
      BY <2>1, <2>3, <3>0, <3>1, <3>2 DEF k
  <2>6. QED
    BY <2>4, <2>5
<1>9. ASSUME NEW w \in Writers, CliRefuses(w) PROVE CauseInv'
  BY <1>9 DEF CliRefuses, IdleWriter
<1>10. ASSUME NEW w \in Writers, SnapshotKeys(w) PROVE CauseInv'
  BY <1>10 DEF SnapshotKeys
<1>11. ASSUME NEW w \in Writers, NEW k \in Keys, DropKey(w, k) PROVE CauseInv'
  <2>1. \A v \in Writers \ {w} : writer'[v] = writer[v]
    BY <1>11 DEF DropKey
  <2>2. /\ writer[w].pc = "dropping" /\ writer'[w].pc = "dropping"
        /\ writer'[w].todo = writer[w].todo \ {k}
        /\ cache'[k] = NoValue
        /\ \A l \in Keys \ {k} : cache'[l] = cache[l]
        /\ UNCHANGED <<history, hidden, reader>>
    BY <1>11 DEF DropKey
  <2>3. StaleOnlyWhenExcused'
    <3> SUFFICES ASSUME NEW l \in Keys, l # k, cache[l] # NoValue, cache[l].val < Version(l),
                        ~cache[l].raced
                 PROVE Excused(l, cache[l].val)'
      BY <2>2
    <3>1. Excused(l, cache[l].val)
      OBVIOUS
    <3>2. Announcing(l) => Announcing(l)'
      BY <2>1, <2>2
    <3>3. QED
      BY <2>2, <3>1, <3>2
  <2>4. InFlightExcused'
    BY <2>1, <2>2
  <2>5. QED
    BY <2>3, <2>4
<1>12. ASSUME NEW w \in Writers, TouchTrigger(w) PROVE CauseInv'
  <2>1. \A v \in Writers \ {w} : writer'[v] = writer[v]
    BY <1>12 DEF TouchTrigger
  <2>2. /\ writer[w].pc = "dropping" /\ writer[w].todo = {}
        /\ UNCHANGED <<history, hidden, cache, reader>>
    BY <1>12 DEF TouchTrigger
  <2>3. StaleOnlyWhenExcused'
    BY <2>1, <2>2
  <2>4. InFlightExcused'
    BY <2>1, <2>2
  <2>5. QED
    BY <2>3, <2>4
<1>13. ASSUME NEW k \in Keys, OutsideChange({k}) PROVE CauseInv'
  BY <1>13 DEF OutsideChange, Changed
<1>14. CASE ConsumeTrigger
  BY <1>14 DEF ConsumeTrigger
<1>15. CASE CacheRestart
  BY <1>15 DEF CacheRestart, IdleReader, IdleWriter
<1>16. CASE Tick
  BY <1>16 DEF Tick
<1>17. CASE UNCHANGED cacheVars
  BY <1>17 DEF cacheVars
<1>18. QED
  BY <1>1, <1>2, <1>3, <1>4, <1>5, <1>6, <1>7, <1>8, <1>9, <1>10, <1>11, <1>12,
     <1>13, <1>14, <1>15, <1>16, <1>17 DEF CacheNext, ReaderStep
\* A cached value is outdated only for the reasons Excused names, or because
\* its fetch crossed an invalidation: for every number of requests and keys.
THEOREM StaleOnlyWhenExcusedHolds == CacheSpec => []StaleOnlyWhenExcused
<1>1. CacheInit => CauseInv
  BY DEF CacheInit, IdleReader, CauseInv, StaleOnlyWhenExcused, InFlightExcused
<1>2. CauseInv => StaleOnlyWhenExcused
  BY DEF CauseInv
<1>3. QED
  BY <1>1, <1>2, CacheTypeCorrect, CauseStep, PTL DEF CacheSpec

-----------------------------------------------------------------------------
(* How old a value can be.                                                 *)

\* Version v of k was the current one at time t, and t has passed.
CurrentAt(k, v, t) ==
  /\ t <= now
  /\ v <= Version(k)
  /\ v < Version(k) => t <= history[k][v + 1]

EntriesDated == \A k \in Keys : cache[k] # NoValue =>
  /\ CurrentAt(k, cache[k].val, cache[k].readAt)
  /\ cache[k].at <= cache[k].readAt + FetchMax

InFlightDated == \A r \in Readers : reader[r].pc = "loaded" =>
  /\ CurrentAt(reader[r].key, reader[r].val, reader[r].readAt)
  /\ now <= reader[r].readAt + FetchMax

AgeInv == EntriesDated /\ InFlightDated

\* Steps that make a version outdated do so now: what was current at t
\* stays current at t.
LEMMA CurrentAtKept ==
  ASSUME CacheTypeOK, NEW k \in Keys, NEW v \in Nat, NEW t \in Nat, CurrentAt(k, v, t),
         now' \in Nat, now' >= now,
         \/ history'[k] = history[k]
         \/ history'[k] = Append(history[k], now)
  PROVE  CurrentAt(k, v, t)'
<1> history[k] \in Seq(Nat) /\ now \in Nat
  BY DEF CacheTypeOK
<1>1. CASE history'[k] = history[k]
  BY <1>1 DEF CurrentAt, Version
<1>2. CASE history'[k] = Append(history[k], now)
  BY <1>2 DEF CurrentAt, Version
<1>3. QED
  BY <1>1, <1>2

\* A step that changes HestiaCP's state only, or the clock only within the
\* bound on a fetch.
LEMMA AgeOutside ==
  ASSUME CacheTypeOK, AgeInv, UNCHANGED <<cache, reader>>, now' \in Nat, now' >= now,
         \/ now' = now
         \/ \A r \in Readers : reader[r].pc = "loaded" => now' <= reader[r].readAt + FetchMax,
         \A k \in Keys : \/ history'[k] = history[k]
                         \/ history'[k] = Append(history[k], now)
  PROVE  AgeInv'
<1>1. EntriesDated'
  BY CurrentAtKept DEF AgeInv, EntriesDated, CacheTypeOK
<1>2. InFlightDated'
  <2> SUFFICES ASSUME NEW r \in Readers, reader[r].pc = "loaded"
               PROVE /\ CurrentAt(reader[r].key, reader[r].val, reader[r].readAt)'
                     /\ now' <= reader[r].readAt + FetchMax
    BY DEF InFlightDated
  <2>1. /\ reader[r].key \in Keys /\ reader[r].val \in Nat /\ reader[r].readAt \in Nat
        /\ CurrentAt(reader[r].key, reader[r].val, reader[r].readAt)
    BY DEF AgeInv, InFlightDated, CacheTypeOK
  <2>2. \A k \in Keys, v \in Nat, t \in Nat : CurrentAt(k, v, t) => CurrentAt(k, v, t)'
    BY CurrentAtKept
  <2>3. CurrentAt(reader[r].key, reader[r].val, reader[r].readAt)'
    BY <2>1, <2>2 DEF CurrentAt, Version
  <2>4. now' <= reader[r].readAt + FetchMax
    BY DEF AgeInv, InFlightDated
  <2>5. QED
    BY <2>3, <2>4
<1>3. QED
  BY <1>1, <1>2 DEF AgeInv

LEMMA AgeStep == CacheTypeOK /\ AgeInv /\ [CacheNext]_cacheVars => AgeInv'
<1> SUFFICES ASSUME CacheTypeOK, AgeInv, [CacheNext]_cacheVars PROVE AgeInv'
  OBVIOUS
<1>1. ASSUME NEW r \in Readers, NEW k \in Keys, Hit(r, k) PROVE AgeInv'
  BY <1>1 DEF Hit, CacheTypeOK, AgeInv, EntriesDated, InFlightDated,
     CurrentAt, Version
<1>2. ASSUME NEW r \in Readers, NEW k \in Keys, Miss(r, k) PROVE AgeInv'
  BY <1>2 DEF Miss, CacheTypeOK, AgeInv, EntriesDated, InFlightDated,
     CurrentAt, Version
<1>3. ASSUME NEW r \in Readers, ReadUpstream(r) PROVE AgeInv'
  BY <1>3 DEF ReadUpstream, CacheTypeOK, AgeInv, EntriesDated, InFlightDated,
     CurrentAt, Version
<1>4. ASSUME NEW r \in Readers, FetchFails(r) PROVE AgeInv'
  BY <1>4 DEF FetchFails, IdleReader, CacheTypeOK, AgeInv, EntriesDated, InFlightDated,
     CurrentAt, Version
<1>5. ASSUME NEW r \in Readers, Store(r) PROVE AgeInv'
  BY <1>5 DEF Store, EntryOf, IdleReader, CacheTypeOK, AgeInv, EntriesDated, InFlightDated,
     CurrentAt, Version
<1>6. ASSUME NEW w \in Writers, NEW d \in Domains, StartWrite(w, d) PROVE AgeInv'
  BY <1>6 DEF StartWrite, CacheTypeOK, AgeInv, EntriesDated, InFlightDated,
     CurrentAt, Version
<1>7. ASSUME NEW w \in Writers, NEW S \in SUBSET KeysOf(writer[w].dom),
             CliApplies(w, S) \/ CliAppliesUnreported(w, S)
      PROVE AgeInv'
  <2>1. UNCHANGED <<cache, reader, now>>
    BY <1>7 DEF CliApplies, CliAppliesUnreported
  <2>2. \A k \in Keys : history'[k] = history[k] \/ history'[k] = Append(history[k], now)
    BY <1>7 DEF CliApplies, CliAppliesUnreported, Changed
  <2>3. QED
    BY <2>1, <2>2, AgeOutside DEF CacheTypeOK
<1>8. ASSUME NEW w \in Writers, CliRefuses(w) \/ TouchTrigger(w) PROVE AgeInv'
  <2>1. UNCHANGED <<cache, reader, now, history>>
    BY <1>8 DEF CliRefuses, TouchTrigger
  <2>2. QED
    BY <2>1, AgeOutside DEF CacheTypeOK
<1>9. ASSUME NEW w \in Writers, SnapshotKeys(w) PROVE AgeInv'
  BY <1>9 DEF SnapshotKeys, CacheTypeOK, AgeInv, EntriesDated, InFlightDated,
     CurrentAt, Version
<1>10. ASSUME NEW w \in Writers, NEW k \in Keys, DropKey(w, k) PROVE AgeInv'
  BY <1>10 DEF DropKey, CacheTypeOK, AgeInv, EntriesDated, InFlightDated,
     CurrentAt, Version
<1>11. ASSUME NEW k \in Keys, OutsideChange({k}) PROVE AgeInv'
  <2>1. UNCHANGED <<cache, reader, now>>
    BY <1>11 DEF OutsideChange
  <2>2. \A l \in Keys : history'[l] = history[l] \/ history'[l] = Append(history[l], now)
    BY <1>11 DEF OutsideChange, Changed
  <2>3. QED
    BY <2>1, <2>2, AgeOutside DEF CacheTypeOK
<1>12. CASE ConsumeTrigger
  BY <1>12 DEF ConsumeTrigger, CacheTypeOK, AgeInv, EntriesDated, InFlightDated,
     CurrentAt, Version
<1>13. CASE CacheRestart
  BY <1>13 DEF CacheRestart, IdleReader, CacheTypeOK, AgeInv, EntriesDated, InFlightDated,
     CurrentAt, Version
<1>14. CASE Tick
  BY <1>14, AgeOutside DEF CacheTypeOK, Tick
<1>15. CASE UNCHANGED cacheVars
  BY <1>15 DEF cacheVars, CacheTypeOK, AgeInv, EntriesDated, InFlightDated,
     CurrentAt, Version
<1>16. QED
  BY <1>1, <1>2, <1>3, <1>4, <1>5, <1>6, <1>7, <1>8, <1>9, <1>10, <1>11, <1>12,
     <1>13, <1>14, <1>15 DEF CacheNext, ReaderStep

LEMMA AgeInvHolds == CacheSpec => [](CacheTypeOK /\ AgeInv)
<1>1. CacheInit => AgeInv
  BY DEF CacheInit, IdleReader, AgeInv, EntriesDated, InFlightDated
<1>2. QED
  BY <1>1, CacheTypeCorrect, AgeStep, PTL DEF CacheSpec

\* No hit is older than the TTL and one fetch, for every TTL.
THEOREM HitsAreRecentHolds == CacheSpec => []HitsAreRecent
<1>1. CacheTypeOK /\ AgeInv => HitsAreRecent
  BY DEF CacheTypeOK, AgeInv, EntriesDated, CurrentAt, HitsAreRecent, Fresh, Version
<1>2. QED
  BY <1>1, AgeInvHolds, PTL
-----------------------------------------------------------------------------
(* The cache implements BoundedStaleness.                                  *)

\* A fresh entry, and a fetched value about to be stored, may be served.
LEMMA ServedIsRecent ==
  ASSUME CacheTypeOK, AgeInv, NEW k \in Keys, NEW v \in Nat, NEW t \in Nat,
         CurrentAt(k, v, t), now < t + TTL + FetchMax
  PROVE  Promise!Recent(k, v) /\ v \in 0 .. Promise!Version(k)
BY DEF CurrentAt, Promise!Recent, Promise!Version, Version, CacheTypeOK

LEMMA StepRefines == CacheTypeOK /\ AgeInv /\ [CacheNext]_cacheVars => [Promise!Next]_(Promise!vars)
<1> SUFFICES ASSUME CacheTypeOK, AgeInv, [CacheNext]_cacheVars PROVE [Promise!Next]_(Promise!vars)
  OBVIOUS
<1> USE DEF Promise!Next, Promise!vars
<1>1. ASSUME NEW r \in Readers, NEW k \in Keys, Hit(r, k)
      PROVE  [Promise!Next]_(Promise!vars)
  <2>1. /\ cache[k].val \in Nat /\ cache[k].readAt \in Nat
        /\ CurrentAt(k, cache[k].val, cache[k].readAt)
        /\ now < cache[k].readAt + TTL + FetchMax
    BY <1>1 DEF Hit, Fresh, AgeInv, EntriesDated, CacheTypeOK, Entry
  <2>2. /\ Promise!Recent(k, cache[k].val)
        /\ cache[k].val \in 0 .. Promise!Version(k)
    BY <2>1, ServedIsRecent
  <2>3. Promise!Serve(r, k, cache[k].val)
    BY <1>1, <2>2 DEF Hit, Promise!Serve
  <2>4. QED
    BY <2>2, <2>3
<1>2. ASSUME NEW r \in Readers, NEW k \in Keys, Miss(r, k)
      PROVE  [Promise!Next]_(Promise!vars)
  <2>1. Promise!Forget({r})
    BY <1>2 DEF Miss, Promise!Forget, CacheTypeOK
  <2>2. {r} \in SUBSET Readers
    OBVIOUS
  <2>3. QED
    BY <2>1, <2>2
<1>3. ASSUME NEW r \in Readers, Store(r) PROVE [Promise!Next]_(Promise!vars)
  <2> DEFINE k == reader[r].key
             v == reader[r].val
  <2>1. /\ k \in Keys /\ v \in Nat /\ reader[r].readAt \in Nat
        /\ CurrentAt(k, v, reader[r].readAt)
        /\ now < reader[r].readAt + TTL + FetchMax
    BY <1>3 DEF Store, AgeInv, InFlightDated, CacheTypeOK
  <2>2. Promise!Recent(k, v) /\ v \in 0 .. Promise!Version(k)
    BY <2>1, ServedIsRecent
  <2>3. Promise!Serve(r, k, v)
    BY <1>3, <2>2 DEF Store, Promise!Serve
  <2>4. QED
    BY <2>1, <2>2, <2>3
<1>4. ASSUME NEW w \in Writers, NEW S \in SUBSET KeysOf(writer[w].dom),
             CliApplies(w, S) \/ CliAppliesUnreported(w, S)
      PROVE  [Promise!Next]_(Promise!vars)
  <2>1. Promise!Change(S)
    BY <1>4 DEF CliApplies, CliAppliesUnreported, Changed, Promise!Change
  <2>2. QED
    BY <2>1
<1>5. ASSUME NEW k \in Keys, OutsideChange({k}) PROVE [Promise!Next]_(Promise!vars)
  <2>1. Promise!Change({k})
    BY <1>5 DEF OutsideChange, Changed, Promise!Change
  <2>2. {k} \in SUBSET Keys
    OBVIOUS
  <2>3. QED
    BY <2>1, <2>2
<1>6. CASE CacheRestart
  <2>1. Promise!Forget(Readers)
    BY <1>6 DEF CacheRestart, Promise!Forget
  <2>2. QED
    BY <2>1
<1>7. CASE Tick
  BY <1>7 DEF Tick, Promise!Tick
<1>8. CASE UNCHANGED <<now, history, served>>
  BY <1>8
<1>9. QED
  BY <1>1, <1>2, <1>3, <1>4, <1>5, <1>6, <1>7, <1>8
     DEF CacheNext, cacheVars, ReaderStep, ReadUpstream, FetchFails, StartWrite, CliRefuses,
         SnapshotKeys, DropKey, TouchTrigger, ConsumeTrigger

\* Whatever races, restarts or fails, _cached answers as a register of bounded
\* staleness does: every step of the cache is one of the register's or none.
THEOREM CacheImplementsPromise == CacheSpec => ImplementsBoundedStaleness
<1>1. CacheInit => Promise!Init
  BY DEF CacheInit, Promise!Init
<1>2. QED
  BY <1>1, AgeInvHolds, StepRefines, PTL DEF CacheSpec, ImplementsBoundedStaleness, Promise!Spec
=============================================================================

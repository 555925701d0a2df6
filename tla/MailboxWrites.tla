--------------------------- MODULE MailboxWrites ---------------------------
(***************************************************************************)
(* The write handlers of routers/mailboxes.py and routers/forwards.py: one *)
(* mailbox, its aliases, forwards, autoreply and forward-only switch in    *)
(* HestiaCP, changed by sequences of CLI commands, and the audit log.      *)
(*                                                                         *)
(* A handler awaits each command in a worker thread, so between any two    *)
(* commands of one request those of others run: Call is the thread, Resume *)
(* the coroutine after it.  Commands can be refused, fail although they    *)
(* took effect (the timeout of _run_cli), or raise something else than     *)
(* HestiaCLIError (no such binary, a NUL in an argument).                  *)
(*                                                                         *)
(* effect and last are history variables of the request that is, or was    *)
(* last, in a slot.  audit counts how often its log entries say that a     *)
(* command was done.                                                       *)
(***************************************************************************)
EXTENDS Integers, Sequences, FiniteSets

CONSTANTS
  Requests,   \* concurrent requests
  Aliases,    \* local parts
  Forwards,   \* forward targets
  AliasLists, \* the alias fields of the create form
  MaxStarts,  \* bound on the number of requests
  MaxFaults,  \* bound on faulty commands, failed appends and restarts
  None

ASSUME ItemAssumption ==
  /\ Aliases \cap Forwards = {}
  /\ (Aliases \cup Forwards) \cap {"box", "autoreply", "fwd_only", None} = {}
ASSUME ListAssumption == AliasLists \subseteq Seq(Aliases)
ASSUME BoundAssumption == {MaxStarts, MaxFaults} \subseteq Nat

Items == {"box", "autoreply", "fwd_only"} \cup Aliases \cup Forwards

Command(op, item) == [op |-> op, item |-> item]
Add(item) == Command("add", item)
Del(item) == Command("del", item)
SetBox == Command("set", "box")  \* its password or quota
Commands == [op : {"add", "del", "set"}, item : Items]

VARIABLES
  entries,  \* what HestiaCP holds
  req,      \* the requests in flight
  audit,    \* [Requests -> [Commands -> Nat]]
  effect,   \* [Requests -> [Commands -> Nat]]: how often a command took effect
  last,     \* how the last request of each slot ended, and on which command
  starts, faults

vars == <<entries, req, audit, effect, last, starts, faults>>

\* kind: the plan; todo: the commands left, the current one first; done: those
\* that returned normally; ok: how the last one returned; calls: all outcomes.
Request(pc, kind, todo, done, ok, calls) ==
  [pc |-> pc, kind |-> kind, todo |-> todo, done |-> done, ok |-> ok, calls |-> calls]
Idle == Request("idle", "none", <<>>, {}, FALSE, <<>>)

\* entry: whether it was written to the audit log, or lost, or none was due.
Nothing == [kind |-> "none", entry |-> "none", final |-> None, calls |-> <<>>]
NoCounts == [c \in Commands |-> 0]

Init ==
  /\ entries \in {E \in SUBSET Items : E # {} => "box" \in E}
  /\ req = [r \in Requests |-> Idle]
  /\ audit = [r \in Requests |-> NoCounts]
  /\ effect = [r \in Requests |-> NoCounts]
  /\ last = [r \in Requests |-> Nothing]
  /\ starts = 0
  /\ faults = 0

-----------------------------------------------------------------------------
(* The commands of HestiaCP.                                               *)

Accepts(c) ==
  IF c = Add("box") THEN "box" \notin entries
  ELSE /\ "box" \in entries
       /\ c.op = "add" /\ c.item \in Aliases \cup Forwards => c.item \notin entries
       /\ c.op = "del" /\ c.item \in Aliases \cup Forwards => c.item \in entries

\* Deleting the mailbox deletes everything it has.
Applied(c) ==
  CASE c.op = "add" -> entries \cup {c.item}
    [] c = Del("box") -> {}
    [] c.op = "del" /\ c.item # "box" -> entries \ {c.item}
    [] OTHER -> entries

TakesEffect(r, c) ==
  /\ Accepts(c)
  /\ entries' = Applied(c)
  /\ effect' = [effect EXCEPT ![r] = [d \in Commands |-> IF d = c THEN @[d] + 1 ELSE @[d]]]

-----------------------------------------------------------------------------
(* The handlers, up to their first command.                                *)

Arrives(r) ==
  /\ req[r].pc = "idle"
  /\ starts < MaxStarts
  /\ starts' = starts + 1
  /\ audit' = [audit EXCEPT ![r] = NoCounts]
  /\ effect' = [effect EXCEPT ![r] = NoCounts]
  /\ UNCHANGED <<entries, faults>>

Start(r, kind, todo) ==
  /\ Arrives(r)
  /\ req' = [req EXCEPT ![r] = Request("cli", kind, todo, {}, FALSE, <<>>)]
  /\ UNCHANGED last

\* A create or a password reset whose two passwords differ is answered at once:
\* error=password_mismatch, without a command and without an entry.
PasswordsDiffer(r) ==
  /\ Arrives(r)
  /\ \E kind \in {"create", "one"} : last' = [last EXCEPT ![r] = [Nothing EXCEPT !.kind = kind]]
  /\ UNCHANGED req

\* post_mailbox_create: the mailbox, its aliases, its forward, its autoreply.
MailboxCreate(r, aliases, forward, autoreply) ==
  Start(r, "create",
        <<Add("box")>>
        \o [i \in DOMAIN aliases |-> Add(aliases[i])]
        \o (IF forward = None THEN <<>> ELSE <<Add(forward)>>)
        \o (IF autoreply THEN <<Add("autoreply")>> ELSE <<>>))

MailboxDelete(r) == Start(r, "one", <<Del("box")>>)
ResetPassword(r) == Start(r, "one", <<SetBox>>)
ChangeQuota(r) == Start(r, "one", <<SetBox>>)
AliasAdd(r, a) == Start(r, "one", <<Add(a)>>)
AliasRemove(r, a) == Start(r, "one", <<Del(a)>>)
ForwarderAdd(r, f) == Start(r, "one", <<Add(f)>>)
ForwarderRemove(r, f) == Start(r, "one", <<Del(f)>>)
FwdOnly(r, on) == Start(r, "one", <<IF on THEN Add("fwd_only") ELSE Del("fwd_only")>>)
AutoreplySet(r) == Start(r, "one", <<Add("autoreply")>>)
AutoreplyClear(r) == Start(r, "one", <<Del("autoreply")>>)

\* The JSON endpoints that change one alias or forward.
ApiMutate(r, x) == Start(r, "one", <<Add(x)>>) \/ Start(r, "one", <<Del(x)>>)

\* api_forward_replace and api_alias_replace; equal arguments are a no-op.
ForwardReplace(r, old, new) == old # new /\ Start(r, "replace", <<Del(old), Add(new)>>)
AliasReplace(r, old, new) == old # new /\ Start(r, "replace", <<Del(old), Add(new)>>)

-----------------------------------------------------------------------------
(* Call: _cli_or_raise in a worker thread.                                 *)

Calling(r) == req[r].pc = "cli"
Current(r) == Head(req[r].todo)

Returned(r, ok, outcome) ==
  req' = [req EXCEPT ![r] =
    Request("back", req[r].kind, req[r].todo,
            IF ok THEN req[r].done \cup {Current(r)} ELSE req[r].done,
            ok, Append(req[r].calls, outcome))]

Fault == faults < MaxFaults /\ faults' = faults + 1

\* The request ends; its entry in the audit log, if one is written, names the
\* commands in claims.
End(r, entry, claims, calls) ==
  /\ audit' = [audit EXCEPT ![r] =
       [c \in Commands |-> IF entry = "written" /\ c \in claims THEN @[c] + 1 ELSE @[c]]]
  /\ last' = [last EXCEPT ![r] =
       [kind |-> req[r].kind, entry |-> entry, final |-> Current(r), calls |-> calls]]
  /\ req' = [req EXCEPT ![r] = Idle]

\* audit() swallows whatever its append raises: the answer is the same.
EndAudited(r, claims) ==
  \/ End(r, "written", claims, req[r].calls) /\ UNCHANGED faults
  \/ End(r, "lost", claims, req[r].calls) /\ Fault

EndUnaudited(r) == End(r, "none", {}, req[r].calls) /\ UNCHANGED faults

CallSucceeds(r) ==
  /\ Calling(r)
  /\ TakesEffect(r, Current(r))
  /\ Returned(r, TRUE, "ok")
  /\ UNCHANGED <<audit, last, starts, faults>>

\* HestiaCP refuses what is not possible, or for a reason of its own.
CallRefused(r) ==
  /\ Calling(r)
  /\ Accepts(Current(r)) => faults < MaxFaults
  /\ faults' = IF Accepts(Current(r)) THEN faults + 1 ELSE faults
  /\ Returned(r, FALSE, "refused")
  /\ UNCHANGED <<entries, audit, effect, last, starts>>

\* The command takes effect and is killed at its timeout: an error like any other.
CallUnreported(r) ==
  /\ Calling(r)
  /\ Fault
  /\ TakesEffect(r, Current(r))
  /\ Returned(r, FALSE, "unreported")
  /\ UNCHANGED <<audit, last, starts>>

\* The command cannot be started.  routers/forwards.py catches Exception;
\* routers/mailboxes.py catches HestiaCLIError only and answers 500.
CallRaises(r) ==
  /\ Calling(r)
  /\ Fault
  /\ IF req[r].kind \in {"replace", "rollback"}
     THEN Returned(r, FALSE, "raised") /\ UNCHANGED <<audit, last>>
     ELSE End(r, "none", {}, Append(req[r].calls, "raised"))
  /\ UNCHANGED <<entries, effect, starts>>

-----------------------------------------------------------------------------
(* Resume: the handler after its await.                                    *)

Back(r) == req[r].pc = "back"

\* A create goes on over failures once the mailbox is there.
GoesOn(r) ==
  \/ req[r].ok /\ req[r].kind # "rollback"
  \/ req[r].kind = "create" /\ Len(req[r].calls) > 1

\* Mutant: the loop over the commands goes one too far.
NextCommandPastEnd(r) ==
  /\ Back(r) /\ GoesOn(r)
  /\ req' = [req EXCEPT ![r] =
       Request("cli", req[r].kind, Tail(req[r].todo), req[r].done, FALSE, req[r].calls)]
  /\ UNCHANGED <<entries, audit, effect, last, starts, faults>>

NextCommand(r) ==
  /\ Back(r) /\ GoesOn(r)
  /\ Len(req[r].todo) > 1
  /\ req' = [req EXCEPT ![r] =
       Request("cli", req[r].kind, Tail(req[r].todo), req[r].done, FALSE, req[r].calls)]
  /\ UNCHANGED <<entries, audit, effect, last, starts, faults>>

\* Mutant: the audit entry of a create does not leave out what failed.
AuditDoneAll(r) ==
  /\ Back(r) /\ GoesOn(r)
  /\ Len(req[r].todo) = 1
  /\ EndAudited(r, req[r].done \cup {Current(r)})
  /\ UNCHANGED <<entries, effect, starts>>

\* audit(...) names what was done (a create's entry lists the failures), then
\* the answer; mailing the credentials can only add a warning.
AuditDone(r) ==
  /\ Back(r) /\ GoesOn(r)
  /\ Len(req[r].todo) = 1
  /\ EndAudited(r, req[r].done)
  /\ UNCHANGED <<entries, effect, starts>>

OldEntry(r) == CHOOSE x \in Items : Del(x) \in req[r].done

\* The second command of a replace failed: add the old one back.
RollBack(r) ==
  /\ Back(r) /\ ~req[r].ok
  /\ req[r].kind = "replace" /\ Len(req[r].calls) = 2
  /\ req' = [req EXCEPT ![r] =
       Request("cli", "rollback", <<Add(OldEntry(r))>>, {}, FALSE, req[r].calls)]
  /\ UNCHANGED <<entries, audit, effect, last, starts, faults>>

\* Mutant: a replace whose second command fails gives up without a rollback.
GiveUpAtOnce(r) ==
  /\ Back(r) /\ ~GoesOn(r)
  /\ IF req[r].kind = "create" THEN EndAudited(r, {}) ELSE EndUnaudited(r)
  /\ UNCHANGED <<entries, effect, starts>>

\* Mutant: a create that fails is answered without an audit entry.
GiveUpUnaudited(r) ==
  /\ Back(r) /\ ~GoesOn(r)
  /\ req[r].kind = "replace" => Len(req[r].calls) = 1
  /\ EndUnaudited(r)
  /\ UNCHANGED <<entries, effect, starts>>

\* An error is answered.  A create logs mailbox.create_failed; the others log
\* nothing, and how a rollback went does not matter.
GiveUp(r) ==
  /\ Back(r) /\ ~GoesOn(r)
  /\ req[r].kind = "replace" => Len(req[r].calls) = 1
  /\ IF req[r].kind = "create" THEN EndAudited(r, {}) ELSE EndUnaudited(r)
  /\ UNCHANGED <<entries, effect, starts>>

-----------------------------------------------------------------------------
(* The surroundings.                                                       *)

\* The process stops and is started again.
Restart ==
  /\ Fault
  /\ req' = [r \in Requests |-> Idle]
  /\ last' = [r \in Requests |-> Nothing]
  /\ UNCHANGED <<entries, audit, effect, starts>>

Handler(r) ==
  \/ \E list \in AliasLists, f \in Forwards \cup {None}, auto \in BOOLEAN :
       MailboxCreate(r, list, f, auto)
  \/ PasswordsDiffer(r)
  \/ MailboxDelete(r) \/ ResetPassword(r) \/ ChangeQuota(r)
  \/ \E a \in Aliases : AliasAdd(r, a) \/ AliasRemove(r, a)
  \/ \E f \in Forwards : ForwarderAdd(r, f) \/ ForwarderRemove(r, f)
  \/ \E on \in BOOLEAN : FwdOnly(r, on)
  \/ AutoreplySet(r) \/ AutoreplyClear(r)
  \/ \E x \in Aliases \cup Forwards : ApiMutate(r, x)
  \/ \E old, new \in Forwards : ForwardReplace(r, old, new)
  \/ \E old, new \in Aliases : AliasReplace(r, old, new)

Call(r) == CallSucceeds(r) \/ CallRefused(r) \/ CallUnreported(r) \/ CallRaises(r)
Resume(r) == NextCommand(r) \/ AuditDone(r) \/ RollBack(r) \/ GiveUp(r)

Next == Restart \/ \E r \in Requests : Handler(r) \/ Call(r) \/ Resume(r)

Spec == Init /\ [][Next]_vars

-----------------------------------------------------------------------------
(* Properties.                                                             *)

TypeOK ==
  /\ entries \in SUBSET Items
  /\ entries # {} => "box" \in entries
  /\ req \in [Requests -> [pc : {"idle", "cli", "back"},
                           kind : {"none", "one", "create", "replace", "rollback"},
                           todo : Seq(Commands), done : SUBSET Commands, ok : BOOLEAN,
                           calls : Seq({"ok", "refused", "unreported", "raised"})]]
  /\ \A r \in Requests : req[r].pc # "idle" => req[r].todo # <<>>
  /\ audit \in [Requests -> [Commands -> Nat]]
  /\ effect \in [Requests -> [Commands -> Nat]]
  /\ starts \in 0 .. MaxStarts /\ faults \in 0 .. MaxFaults

\* The audit log never says of a request that it did something it did not do,
\* however its commands fail, interleave with others' and roll back.
AuditClaimsHappened == \A r \in Requests, c \in Commands : audit[r][c] <= effect[r][c]

Ended(r, kinds) == req[r].pc = "idle" /\ last[r].kind \in kinds

\* A replace that got past its first command ends with the new entry in place
\* if its second command returned normally, and else with the old one, unless
\* the rollback failed too (with nobody else writing: it is the only request).
ReplaceKeepsOne == \A r \in Requests :
  starts = 1 /\ Ended(r, {"replace", "rollback"}) /\ last[r].calls[1] = "ok"
    => \/ last[r].final.item \in entries
       \/ Len(last[r].calls) = 3 /\ last[r].calls[3] \in {"refused", "raised"}

CameBack(r, outcome) == \E i \in DOMAIN last[r].calls : last[r].calls[i] = outcome

\* No create fails, or half succeeds, silently (routers/mailboxes.py:182): one that
\* gave HestiaCP a command has its entry, done or failed, and unless a command was
\* killed at its timeout everything that took effect is named there, however the
\* commands failed and whatever ran between them.  Two ways are left for a create
\* to go unlogged: a command raised something else than HestiaCLIError, or the
\* entry could not be appended (services/audit.py:17-21).
CreatesAreAudited == \A r \in Requests :
  Ended(r, {"create"}) /\ last[r].calls # <<>> =>
    \/ CameBack(r, "raised")
    \/ last[r].entry = "lost"
    \/ /\ last[r].entry = "written"
       /\ CameBack(r, "unreported") \/ \A c \in Commands : effect[r][c] > 0 => audit[r][c] > 0
=============================================================================

-------------------------- MODULE ErrorTranslator --------------------------
(***************************************************************************)
(* services/error_translator.py: load_dictionary's double-checked locking  *)
(* and translate, called from the event loop (the exception handler of     *)
(* app.py) and from the worker threads of the write functions              *)
(* (services/hestia.py:432).  One step is one access to a module global.   *)
(*                                                                         *)
(* A load of the dictionary is its number.  The file is read under the     *)
(* lock; missing or malformed, it counts as the defensive dictionary,      *)
(* which is published like any other.  No caller passes force=True.        *)
(***************************************************************************)
EXTENDS Naturals, FiniteSets

CONSTANTS
  Threads,   \* threads that call translate
  MaxCalls,  \* bound on the number of calls
  NoThread

ASSUME ThreadAssumption == NoThread \notin Threads
ASSUME CallAssumption == MaxCalls \in Nat

VARIABLES
  dictionary,  \* _dictionary_cache: the load it comes from, 0 for None
  patterns,    \* _compiled_patterns: the load they come from, 0 for []
  lock,        \* the thread that holds _load_lock
  pc,
  seen,        \* the dictionary that load_dictionary returned to each thread
  used,        \* the patterns each thread's last translation matched against
  loads,       \* how often the file was read
  calls

translatorVars == <<dictionary, patterns, lock, pc, seen, used, loads, calls>>

TranslatorInit ==
  /\ dictionary = 0
  /\ patterns = 0
  /\ lock = NoThread
  /\ pc = [t \in Threads |-> "idle"]
  /\ seen = [t \in Threads |-> 0]
  /\ used = [t \in Threads |-> 0]
  /\ loads = 0
  /\ calls = 0

Go(t, from, to) == pc[t] = from /\ pc' = [pc EXCEPT ![t] = to]

Call(t) ==
  /\ Go(t, "idle", "check")
  /\ calls < MaxCalls
  /\ calls' = calls + 1
  /\ UNCHANGED <<dictionary, patterns, lock, seen, used, loads>>

\* The check before the lock.
Check(t) ==
  /\ Go(t, "check", IF dictionary = 0 THEN "acquire" ELSE "return")
  /\ UNCHANGED <<dictionary, patterns, lock, seen, used, loads, calls>>

Acquire(t) ==
  /\ lock = NoThread
  /\ Go(t, "acquire", "recheck")
  /\ lock' = t
  /\ UNCHANGED <<dictionary, patterns, seen, used, loads, calls>>

\* Mutant: the lock is taken, but nobody looks again.
RecheckNothing(t) ==
  /\ Go(t, "recheck", "load")
  /\ UNCHANGED <<dictionary, patterns, lock, seen, used, loads, calls>>

\* The check under the lock.
Recheck(t) ==
  /\ Go(t, "recheck", IF dictionary = 0 THEN "load" ELSE "release")
  /\ UNCHANGED <<dictionary, patterns, lock, seen, used, loads, calls>>

\* Mutant: the file is parsed straight into the global.
LoadIntoGlobal(t) ==
  /\ Go(t, "load", "patterns")
  /\ loads' = loads + 1
  /\ dictionary' = loads + 1
  /\ UNCHANGED <<patterns, lock, seen, used, calls>>

Load(t) ==
  /\ Go(t, "load", "patterns")
  /\ loads' = loads + 1
  /\ UNCHANGED <<dictionary, patterns, lock, seen, used, calls>>

SetPatterns(t) ==
  /\ Go(t, "patterns", "dictionary")
  /\ patterns' = loads
  /\ UNCHANGED <<dictionary, lock, seen, used, loads, calls>>

SetDictionary(t) ==
  /\ Go(t, "dictionary", "release")
  /\ dictionary' = loads
  /\ UNCHANGED <<patterns, lock, seen, used, loads, calls>>

\* Mutant: the early return under the lock does not release it.
ReleaseNever(t) ==
  /\ Go(t, "release", "return")
  /\ UNCHANGED <<dictionary, patterns, lock, seen, used, loads, calls>>

Release(t) ==
  /\ Go(t, "release", "return")
  /\ lock' = NoThread
  /\ UNCHANGED <<dictionary, patterns, seen, used, loads, calls>>

\* Mutant: load_dictionary forgets to return on its fast path.
ReturnNone(t) ==
  /\ Go(t, "return", "match")
  /\ seen' = [seen EXCEPT ![t] = NoThread]
  /\ UNCHANGED <<dictionary, patterns, lock, used, loads, calls>>

\* return _dictionary_cache.
Return(t) ==
  /\ Go(t, "return", "match")
  /\ seen' = [seen EXCEPT ![t] = dictionary]
  /\ UNCHANGED <<dictionary, patterns, lock, used, loads, calls>>

\* for ... in _compiled_patterns: the list is taken once; without a match the
\* fallback comes from the dictionary seen.
Match(t) ==
  /\ Go(t, "match", "idle")
  /\ used' = [used EXCEPT ![t] = patterns]
  /\ UNCHANGED <<dictionary, patterns, lock, seen, loads, calls>>

Step(t) == Check(t) \/ Acquire(t) \/ Recheck(t) \/ Load(t) \/ SetPatterns(t)
           \/ SetDictionary(t) \/ Release(t) \/ Return(t) \/ Match(t)

TranslatorNext == \E t \in Threads : Call(t) \/ Step(t)

TranslatorSpec == TranslatorInit /\ [][TranslatorNext]_translatorVars

\* The interpreter runs every thread.  No fairness of the lock is needed: once
\* the dictionary is there, nobody new asks for it.
TranslatorFairSpec == TranslatorSpec /\ \A t \in Threads : WF_translatorVars(Step(t))

-----------------------------------------------------------------------------
(* Properties.                                                             *)

InLock == {"recheck", "load", "patterns", "dictionary", "release"}

TypeOK ==
  /\ dictionary \in Nat /\ patterns \in Nat /\ loads \in Nat /\ calls \in Nat
  /\ lock \in Threads \cup {NoThread}
  /\ pc \in [Threads -> {"idle", "check", "acquire", "return", "match"} \cup InLock]
  /\ seen \in [Threads -> Nat]
  /\ used \in [Threads -> Nat]

\* README.md:51: "translate() thread-safe (double-checked lock)" - no thread
\* matches against the empty or half-published table: whatever dictionary a
\* thread was given, its patterns come from the same load of the file.
PatternsMatchDictionary == \A t \in Threads :
  /\ pc[t] = "match" => seen[t] # 0 /\ patterns = seen[t]
  /\ pc[t] = "idle" => used[t] = seen[t]

\* However many threads find no dictionary at once, the file is read once.
LoadedOnce == loads <= 1

\* Every call of translate ends.
CallsEnd == \A t \in Threads : pc[t] # "idle" ~> pc[t] = "idle"
=============================================================================

-------------------------- MODULE BoundedStaleness --------------------------
(***************************************************************************)
(* What the HestiaCP read cache of services/hestia.py promises its         *)
(* callers, said without a cache: the value a request is served for a key  *)
(* was current at some moment less than Bound time units ago.              *)
(*                                                                         *)
(* A key's value is abstracted to its version: history[k] is the sequence  *)
(* of the times at which the value of k changed, so the current version is *)
(* Len(history[k]) and version v stopped being current at                  *)
(* history[k][v + 1].                                                      *)
(***************************************************************************)
EXTENDS Naturals, Sequences

CONSTANTS Keys, Readers, Bound, NoAnswer

VARIABLES now, history, served

vars == <<now, history, served>>

Version(k) == Len(history[k])

\* v is the version of k, or was less than Bound time units ago.
Recent(k, v) ==
  /\ v \in 0 .. Version(k)
  /\ v < Version(k) => now < history[k][v + 1] + Bound

Init ==
  /\ now = 0
  /\ history = [k \in Keys |-> <<>>]
  /\ served = [r \in Readers |-> NoAnswer]

Tick == now' = now + 1 /\ UNCHANGED <<history, served>>

Change(S) ==
  /\ history' = [k \in Keys |-> IF k \in S THEN Append(history[k], now)
                                           ELSE history[k]]
  /\ UNCHANGED <<now, served>>

Serve(r, k, v) ==
  /\ Recent(k, v)
  /\ served' = [served EXCEPT ![r] = [key |-> k, val |-> v]]
  /\ UNCHANGED <<now, history>>

Forget(R) ==
  /\ served' = [r \in Readers |-> IF r \in R THEN NoAnswer ELSE served[r]]
  /\ UNCHANGED <<now, history>>

Next ==
  \/ Tick
  \/ \E S \in SUBSET Keys : Change(S)
  \/ \E R \in SUBSET Readers : Forget(R)
  \/ \E r \in Readers, k \in Keys : \E v \in 0 .. Version(k) : Serve(r, k, v)

Spec == Init /\ [][Next]_vars
=============================================================================

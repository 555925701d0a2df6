--------------------------- MODULE ServiceProofs ---------------------------
(* Proofs about the smaller services: ErrorTranslator, for any number of   *)
(* threads and calls; MailboxStats, for any domains, mailboxes, columns,   *)
(* changes and failures; Suppression, for any contacts, lists, views,      *)
(* readers and writers.                                                    *)
EXTENDS ErrorTranslator, MailboxStats, Suppression, FiniteSetTheorems, SequenceTheorems, TLAPS

-----------------------------------------------------------------------------
(* ErrorTranslator.                                                        *)

\* Every value of the state has its type, for any number of threads and calls.
THEOREM TranslatorTypeCorrect == TranslatorSpec => []TypeOK
<1>1. TranslatorInit => TypeOK
  BY DEF TranslatorInit, TypeOK
<1>2. TypeOK /\ [TranslatorNext]_translatorVars => TypeOK'
  BY ThreadAssumption, CallAssumption
  DEF TypeOK, InLock, TranslatorNext, Step, Call, Check, Acquire, Recheck, Load, SetPatterns,
      SetDictionary, Release, Return, Match, Go, translatorVars
<1>3. QED
  BY <1>1, <1>2, PTL DEF TranslatorSpec

\* The lock is held by the thread in the locked block, and by no other.
LockInv == \A t \in Threads : pc[t] \in InLock <=> lock = t

\* How far the one load has come: the file is read by a thread that found no
\* dictionary under the lock, and the patterns precede the dictionary.
LoadInv ==
  /\ dictionary = 0 =>
       \/ loads = 0 /\ patterns = 0
       \/ loads = 1 /\ \E t \in Threads :
            \/ pc[t] = "patterns" /\ patterns = 0
            \/ pc[t] = "dictionary" /\ patterns = 1
  /\ dictionary # 0 => dictionary = 1 /\ loads = 1 /\ patterns = 1
  /\ \A t \in Threads :
       /\ pc[t] = "load" => dictionary = 0 /\ loads = 0
       /\ pc[t] \in {"patterns", "dictionary"} => dictionary = 0 /\ loads = 1
       /\ pc[t] = "dictionary" => patterns = 1
       /\ pc[t] \in {"release", "return", "match"} => dictionary # 0
       /\ pc[t] = "match" => seen[t] = dictionary
       /\ pc[t] = "idle" => used[t] = seen[t]

TranslatorInv == TypeOK /\ LockInv /\ LoadInv

LEMMA LockStep == TypeOK /\ LockInv /\ [TranslatorNext]_translatorVars => LockInv'
BY ThreadAssumption
DEF TypeOK, InLock, LockInv, TranslatorNext, Step, Call, Check, Acquire, Recheck, Load,
    SetPatterns, SetDictionary, Release, Return, Match, Go, translatorVars

LEMMA LoadStep == TranslatorInv /\ [TranslatorNext]_translatorVars => LoadInv'
<1> SUFFICES ASSUME TranslatorInv, [TranslatorNext]_translatorVars PROVE LoadInv'
  OBVIOUS
<1> USE DEF TranslatorInv, TypeOK, InLock, LockInv, LoadInv, Go
<1>1. ASSUME NEW t \in Threads, Call(t) \/ Check(t) \/ Acquire(t) PROVE LoadInv'
  BY <1>1 DEF Call, Check, Acquire
<1>2. ASSUME NEW t \in Threads, Recheck(t) PROVE LoadInv'
  BY <1>2 DEF Recheck
<1>3. ASSUME NEW t \in Threads, Load(t) PROVE LoadInv'
  BY <1>3 DEF Load
<1>4. ASSUME NEW t \in Threads, SetPatterns(t) PROVE LoadInv'
  BY <1>4 DEF SetPatterns
<1>5. ASSUME NEW t \in Threads, SetDictionary(t) PROVE LoadInv'
  BY <1>5 DEF SetDictionary
<1>6. ASSUME NEW t \in Threads, Release(t) PROVE LoadInv'
  BY <1>6 DEF Release
<1>7. ASSUME NEW t \in Threads, Return(t) PROVE LoadInv'
  BY <1>7 DEF Return
<1>8. ASSUME NEW t \in Threads, Match(t) PROVE LoadInv'
  BY <1>8 DEF Match
<1>9. CASE UNCHANGED translatorVars
  BY <1>9 DEF translatorVars
<1>10. QED
  BY <1>1, <1>2, <1>3, <1>4, <1>5, <1>6, <1>7, <1>8, <1>9 DEF TranslatorNext, Step

LEMMA TranslatorInvHolds == TranslatorSpec => []TranslatorInv
<1>1. TranslatorInit => LockInv /\ LoadInv
  BY ThreadAssumption DEF TranslatorInit, LockInv, LoadInv, InLock
<1>2. QED
  BY <1>1, TranslatorTypeCorrect, LockStep, LoadStep, PTL DEF TranslatorSpec, TranslatorInv

\* No thread ever matches against patterns that are not those of the dictionary
\* load_dictionary gave it, for any number of threads.
THEOREM PatternsMatchDictionaryHolds == TranslatorSpec => []PatternsMatchDictionary
<1>1. TranslatorInv => PatternsMatchDictionary
  BY DEF TranslatorInv, LoadInv, PatternsMatchDictionary
<1>2. QED
  BY <1>1, TranslatorInvHolds, PTL

\* The file is read at most once, for any number of threads.
THEOREM LoadedOnceHolds == TranslatorSpec => []LoadedOnce
<1>1. TranslatorInv => LoadedOnce
  BY DEF TranslatorInv, TypeOK, LoadInv, LoadedOnce
<1>2. QED
  BY <1>1, TranslatorInvHolds, PTL

-----------------------------------------------------------------------------
(* MailboxStats.                                                           *)

RefreshState ==
  [pc : {"idle", "domains", "walk", "replaced"}, domains : SUBSET Domains,
   boxes : SUBSET Boxes, box : Boxes \cup {None},
   rows : [Boxes -> Seq(Nat \cup {None})], errors : SUBSET Errors, base : [Boxes -> Nat],
   missed : SUBSET Boxes]

Types ==
  /\ version \in [Boxes -> Nat] /\ known \in [Boxes -> Nat]
  /\ touched \in [Boxes -> Nat] /\ lost \in [Boxes -> Nat]
  /\ fetch \in [Boxes -> Nat \cup {None}] /\ overtaken \in SUBSET Boxes
  /\ write \in (Boxes \X Nat) \cup {None}
  /\ trigger \in BOOLEAN
  /\ refresh \in RefreshState

\* What was touched for has been announced, and what was announced has happened; a
\* read knows of it, unless an overtaken fetch has stored behind the announcement.
Versions ==
  /\ \A b \in Boxes : /\ touched[b] <= version[b] /\ known[b] <= version[b]
                      /\ b \notin overtaken => touched[b] <= known[b]
                      /\ fetch[b] # None => fetch[b] <= version[b]
  /\ write # None => /\ touched[write[1]] <= write[2] /\ write[2] <= version[write[1]]
                     /\ write[1] \notin overtaken => write[2] <= known[write[1]]

\* A row is missing, or lacks a value, for a reason.
RowMissing(b, errors) ==
  <<"list_domains", None>> \in errors \/ <<"list_mailboxes", DomainOf[b]>> \in errors
ValueMissing(b, i, errors) == <<Steps[i], b>> \in errors \/ Steps[i] \in Probes

\* Where a refresh has nothing in hand.
AtRest ==
  /\ refresh.pc \in {"idle", "domains"} =>
       refresh.boxes = {} /\ refresh.box = None /\ refresh.rows = [b \in Boxes |-> NoRow]
  /\ refresh.pc = "replaced" =>
       refresh.domains = {} /\ refresh.boxes = {} /\ refresh.box = None

\* A mailbox waits in its domain, then in the list of mailboxes, then is in hand
\* until its row is complete, or it is missing for a reason.
Place(b) ==
  LET row == refresh.rows[b]
  IN  /\ DomainOf[b] \in refresh.domains =>
           row = NoRow /\ refresh.box # b /\ b \notin refresh.boxes
      /\ b \in refresh.boxes => row = NoRow /\ refresh.box # b
      /\ refresh.box = b => Len(row) < Len(Steps)
      /\ row # NoRow => refresh.box = b \/ Len(row) = Len(Steps)
      /\ row = NoRow => \/ DomainOf[b] \in refresh.domains \/ b \in refresh.boxes
                        \/ refresh.box = b \/ RowMissing(b, refresh.errors)

\* What a row holds is as new as what had been touched for when the refresh began,
\* unless it was read from what an overtaken fetch had stored.
Filled(b) ==
  \A i \in DOMAIN refresh.rows[b] :
    /\ refresh.rows[b][i] = None => ValueMissing(b, i, refresh.errors)
    /\ refresh.rows[b][i] # None /\ b \notin refresh.missed =>
         refresh.rows[b][i] >= refresh.base[b]

Progress == refresh.pc \in {"walk", "replaced"} => \A b \in Boxes : Place(b) /\ Filled(b)

\* A touch since the refresh began has left its trigger; between its last two
\* steps the file is the refresh's, and the touches it failed to cover are lost.
Covered ==
  /\ refresh.pc # "idle" => \A b \in Boxes :
       refresh.base[b] <= touched[b] /\ (touched[b] > refresh.base[b] => trigger)
  /\ refresh.pc = "replaced" =>
       /\ file = [rows |-> refresh.rows, errors |-> refresh.errors]
       /\ \A b \in Boxes :
            refresh.errors # {} \/ b \in refresh.missed => refresh.base[b] <= lost[b]

StatsInv == Types /\ Versions /\ AtRest /\ Progress /\ Covered /\ GapsAreReported /\ TriggerCoversWrites

-----------------------------------------------------------------------------
LEMMA IdleType == Idle \in RefreshState /\ Zero \in [Boxes -> Nat]
BY DEF Idle, RefreshState, Zero, NoRow

LEMMA ErrorTypes ==
  /\ <<"list_domains", None>> \in Errors
  /\ \A d \in Domains : <<"list_mailboxes", d>> \in Errors
BY DEF Errors

\* A value read, or the reason why it was not, makes the row one longer.
LEMMA ColumnGrows ==
  ASSUME Types, AtRest, Progress, NEW b \in Boxes, refresh.pc = "walk", refresh.box = b,
         NEW v \in Nat \cup {None}, NEW e \in SUBSET Errors, Column(b, v, e),
         v = None => <<StepAt(b), b>> \in e \/ StepAt(b) \in Probes,
         v # None => v >= refresh.base[b] \/ b \in overtaken
  PROVE  /\ refresh' \in RefreshState /\ AtRest' /\ Progress'
         /\ refresh'.pc = "walk" /\ refresh'.base = refresh.base
<1> DEFINE row == Append(refresh.rows[b], v)
           rows == [refresh.rows EXCEPT ![b] = row]
           errors == refresh.errors \cup e
           missed == refresh.missed \cup (overtaken \cap {b})
           box == IF Len(row) = Len(Steps) THEN None ELSE b
<1>1. /\ refresh.rows \in [Boxes -> Seq(Nat \cup {None})] /\ refresh.rows[b] \in Seq(Nat \cup {None})
      /\ refresh.errors \in SUBSET Errors /\ refresh \in RefreshState
  BY DEF Types, RefreshState
<1>2. /\ row \in Seq(Nat \cup {None}) /\ Len(row) = Len(refresh.rows[b]) + 1
      /\ row[Len(row)] = v /\ DOMAIN row = 1..Len(row)
      /\ \A i \in DOMAIN refresh.rows[b] : row[i] = refresh.rows[b][i]
      /\ \A i \in DOMAIN row : i = Len(row) \/ i \in DOMAIN refresh.rows[b]
  BY <1>1
<1>3. refresh' = [refresh EXCEPT !.rows[b] = row, !.errors = refresh.errors \cup e,
                                !.missed = missed, !.box = box]
  BY DEF Column
<1> HIDE DEF row
<1>4. /\ refresh'.pc = refresh.pc /\ refresh'.domains = refresh.domains
      /\ refresh'.boxes = refresh.boxes /\ refresh'.base = refresh.base
      /\ refresh'.rows = rows /\ refresh'.errors = errors /\ refresh'.box = box
      /\ refresh'.missed = missed
  BY <1>1, <1>3 DEF RefreshState
<1>5. refresh' \in RefreshState
  BY <1>1, <1>2, <1>3 DEF RefreshState, Types
<1>6. AtRest'
  BY <1>4 DEF AtRest
<1>7. Place(b) /\ Filled(b)
  BY DEF Progress
<1>8. rows[b] = row /\ \A c \in Boxes : c # b => rows[c] = refresh.rows[c]
  BY <1>1
<1>9. box \in {None, b} /\ None # b
  BY NoneAssumption
<1>10. Len(refresh.rows[b]) \in Nat /\ Len(Steps) \in Nat /\ Len(row) \in Nat \ {0}
  BY <1>1, <1>2, MailboxStatsAssumption
<1>11. row # NoRow
  BY <1>2, <1>10 DEF NoRow
<1>12. Place(b)'
  <2>1. Len(row) <= Len(Steps)
    BY <1>2, <1>7, <1>10 DEF Place
  <2>2. DomainOf[b] \notin refresh.domains /\ b \notin refresh.boxes
    BY <1>7 DEF Place
  <2>3. box = b => Len(row) < Len(Steps)
    BY <1>9, <1>10, <2>1
  <2>4. box = b \/ Len(row) = Len(Steps)
    OBVIOUS
  <2>5. QED
    BY <1>4, <1>8, <1>11, <2>2, <2>3, <2>4 DEF Place
<1>13. Filled(b)'
  <2>1. StepAt(b) = Steps[Len(row)]
    BY <1>2 DEF StepAt
  <2>2. ASSUME NEW i \in DOMAIN row
        PROVE  /\ row[i] = None => ValueMissing(b, i, errors)
               /\ row[i] # None /\ b \notin missed => row[i] >= refresh.base[b]
    <3>1. CASE i = Len(row)
      <4>1. row[i] = v /\ Steps[i] = StepAt(b)
        BY <1>2, <2>1, <3>1
      <4>2. v = None => ValueMissing(b, i, errors)
        BY <4>1 DEF ValueMissing
      <4>3. QED
        BY <4>1, <4>2
    <3>2. CASE i \in DOMAIN refresh.rows[b]
      <4>1. row[i] = refresh.rows[b][i]
        BY <1>2, <3>2
      <4>2. ValueMissing(b, i, refresh.errors) => ValueMissing(b, i, errors)
        BY DEF ValueMissing
      <4>3. QED
        BY <1>7, <3>2, <4>1, <4>2 DEF Filled
    <3>3. QED
      BY <1>2, <2>2, <3>1, <3>2
  <2>3. QED
    BY <1>4, <1>8, <2>2 DEF Filled, ValueMissing
<1>14. ASSUME NEW c \in Boxes, c # b PROVE Place(c)' /\ Filled(c)'
  <2>1. Place(c) /\ Filled(c)
    BY DEF Progress
  <2>2. refresh'.rows[c] = refresh.rows[c] /\ refresh'.box # c
    BY <1>4, <1>8, <1>9, <1>14, NoneAssumption
  <2>3. Place(c)'
    BY <1>4, <1>14, <2>1, <2>2 DEF Place, RowMissing
  <2>4. Filled(c)'
    BY <1>4, <2>1, <2>2 DEF Filled, ValueMissing
  <2>5. QED
    BY <2>3, <2>4
<1>15. QED
  BY <1>4, <1>5, <1>6, <1>12, <1>13, <1>14 DEF Progress

\* A step that leaves the refresh alone.
LEMMA RefreshKept ==
  ASSUME AtRest, Progress, UNCHANGED refresh PROVE AtRest' /\ Progress'
BY DEF AtRest, Progress, Place, Filled, RowMissing, ValueMissing

\* The refresh begins, lists the domains, or goes back to rest.
LEMMA RefreshMoves ==
  ASSUME Types, AtRest, Progress,
         \/ Begin \/ ListDomains \/ ListDomainsFails \/ WriteFails \/ ConsumeTrigger \/ Restart
  PROVE  refresh' \in RefreshState /\ AtRest' /\ Progress'
<1> USE DEF Types, RefreshState
<1>1. CASE refresh' = Idle
  BY <1>1, IdleType DEF AtRest, Progress, Idle
<1>2. CASE Begin
  <2>1. refresh' = [Idle EXCEPT !.pc = "domains", !.base = touched]
    BY <1>2 DEF Begin
  <2>2. /\ refresh' \in RefreshState /\ refresh'.pc = "domains" /\ refresh'.boxes = {}
        /\ refresh'.box = None /\ refresh'.rows = [b \in Boxes |-> NoRow]
    BY <2>1, IdleType DEF Idle
  <2>3. QED
    BY <2>2 DEF AtRest, Progress
<1>3. CASE ListDomains
  <2>1. /\ refresh.pc = "domains" /\ refresh' = [refresh EXCEPT !.pc = "walk", !.domains = Domains]
    BY <1>3 DEF ListDomains
  <2>2. /\ refresh' \in RefreshState /\ refresh'.pc = "walk" /\ refresh'.domains = Domains
        /\ refresh'.boxes = {} /\ refresh'.box = None
        /\ refresh'.rows = [b \in Boxes |-> NoRow]
    BY <2>1 DEF AtRest
  <2>3. AtRest'
    BY <2>2 DEF AtRest
  <2>4. Progress'
    BY <2>2, NoneAssumption, MailboxStatsAssumption DEF Progress, Place, Filled, NoRow
  <2>5. QED
    BY <2>2, <2>3, <2>4
<1>4. CASE ListDomainsFails
  <2>1. /\ refresh.pc = "domains"
        /\ refresh' = [refresh EXCEPT !.pc = "walk",
                         !.errors = refresh.errors \cup {<<"list_domains", None>>}]
    BY <1>4 DEF ListDomainsFails
  <2>2. /\ refresh' \in RefreshState /\ refresh'.pc = "walk" /\ refresh'.domains = refresh.domains
        /\ refresh'.boxes = {} /\ refresh'.box = None
        /\ refresh'.rows = [b \in Boxes |-> NoRow]
        /\ <<"list_domains", None>> \in refresh'.errors
    BY <2>1, ErrorTypes DEF AtRest
  <2>3. AtRest'
    BY <2>2 DEF AtRest
  <2>4. Progress'
    BY <2>2, NoneAssumption DEF Progress, Place, Filled, NoRow, RowMissing
  <2>5. QED
    BY <2>2, <2>3, <2>4
<1>5. QED
  BY <1>1, <1>2, <1>3, <1>4 DEF WriteFails, ConsumeTrigger, Restart

\* The next domain is listed, or is not.
LEMMA DomainListed ==
  ASSUME Types, AtRest, Progress, NEW d \in Domains, ListBoxes(d) \/ ListBoxesFails(d)
  PROVE  /\ refresh' \in RefreshState /\ AtRest' /\ Progress'
         /\ refresh'.pc = "walk" /\ refresh'.base = refresh.base
<1> USE DEF Types, RefreshState
<1>1. /\ refresh.pc = "walk" /\ refresh.box = None /\ refresh.boxes = {} /\ d \in refresh.domains
      /\ refresh' = [refresh EXCEPT !.domains = refresh.domains \ {d}, !.boxes = BoxesOf(d)]
         \/ refresh' = [refresh EXCEPT !.domains = refresh.domains \ {d},
              !.errors = refresh.errors \cup {<<"list_mailboxes", d>>}]
  BY DEF ListBoxes, ListBoxesFails, Walking
<1>2. BoxesOf(d) \subseteq Boxes /\ \A b \in BoxesOf(d) : DomainOf[b] = d
  BY DEF BoxesOf
<1>3. \A b \in Boxes : DomainOf[b] = d => b \in BoxesOf(d)
  BY DEF BoxesOf
<1>4. /\ refresh' \in RefreshState /\ refresh'.pc = "walk" /\ refresh'.base = refresh.base
      /\ refresh'.domains = refresh.domains \ {d} /\ refresh'.box = None
      /\ refresh'.rows = refresh.rows /\ refresh.errors \subseteq refresh'.errors
      /\ refresh'.missed = refresh.missed
      /\ \/ refresh'.boxes = BoxesOf(d)
         \/ refresh'.boxes = {} /\ <<"list_mailboxes", d>> \in refresh'.errors
  <2>1. CASE refresh' = [refresh EXCEPT !.domains = refresh.domains \ {d}, !.boxes = BoxesOf(d)]
    BY <1>1, <1>2, <2>1
  <2>2. CASE refresh' = [refresh EXCEPT !.domains = refresh.domains \ {d},
                          !.errors = refresh.errors \cup {<<"list_mailboxes", d>>}]
    BY <1>1, <2>2, ErrorTypes
  <2>3. QED
    BY <1>1, <2>1, <2>2
<1>5. AtRest'
  BY <1>4 DEF AtRest
<1>6. ASSUME NEW b \in Boxes PROVE Place(b)' /\ Filled(b)'
  <2>1. Place(b) /\ Filled(b)
    BY <1>1 DEF Progress
  <2>2. Filled(b)'
    BY <1>4, <2>1 DEF Filled, ValueMissing
  <2>3. refresh'.box # b /\ refresh.box # b /\ b \notin refresh.boxes
    BY <1>1, <1>4, NoneAssumption
  <2>4. CASE DomainOf[b] = d
    <3>1. refresh.rows[b] = NoRow /\ DomainOf[b] \notin refresh'.domains
      BY <1>1, <1>4, <2>1, <2>4 DEF Place
    <3>2. b \in refresh'.boxes \/ RowMissing(b, refresh'.errors)
      BY <1>3, <1>4, <2>4 DEF RowMissing
    <3>3. QED
      BY <1>4, <2>2, <2>3, <3>1, <3>2 DEF Place
  <2>5. CASE DomainOf[b] # d
    <3>1. b \notin refresh'.boxes
      BY <1>2, <1>4, <2>5
    <3>2. DomainOf[b] \in refresh'.domains <=> DomainOf[b] \in refresh.domains
      BY <1>4, <2>5
    <3>3. RowMissing(b, refresh.errors) => RowMissing(b, refresh'.errors)
      BY <1>4 DEF RowMissing
    <3>4. QED
      BY <1>4, <2>1, <2>2, <2>3, <3>1, <3>2, <3>3 DEF Place
  <2>6. QED
    BY <2>4, <2>5
<1>7. QED
  BY <1>4, <1>5, <1>6 DEF Progress

\* A mailbox is taken in hand.
LEMMA BoxTaken ==
  ASSUME Types, AtRest, Progress, NEW b \in Boxes, NextBox(b)
  PROVE  /\ refresh' \in RefreshState /\ AtRest' /\ Progress'
         /\ refresh'.pc = "walk" /\ refresh'.base = refresh.base
<1> USE DEF Types, RefreshState
<1>1. /\ refresh.pc = "walk" /\ refresh.box = None /\ b \in refresh.boxes
      /\ refresh' = [refresh EXCEPT !.boxes = refresh.boxes \ {b}, !.box = b]
  BY DEF NextBox
<1>2. /\ refresh' \in RefreshState /\ refresh'.pc = "walk" /\ refresh'.base = refresh.base
      /\ refresh'.domains = refresh.domains /\ refresh'.box = b
      /\ refresh'.rows = refresh.rows /\ refresh'.errors = refresh.errors
      /\ refresh'.boxes = refresh.boxes \ {b} /\ refresh'.missed = refresh.missed
  BY <1>1
<1>3. AtRest'
  BY <1>2 DEF AtRest
<1>4. ASSUME NEW c \in Boxes PROVE Place(c)' /\ Filled(c)'
  <2>1. Place(c) /\ Filled(c)
    BY <1>1 DEF Progress
  <2>2. Filled(c)'
    BY <1>2, <2>1 DEF Filled, ValueMissing
  <2>3. Len(Steps) > 0 /\ Len(NoRow) = 0
    BY MailboxStatsAssumption DEF NoRow
  <2>4. refresh.box # c
    BY <1>1, NoneAssumption
  <2>5. CASE c = b
    <3>1. refresh.rows[c] = NoRow /\ DomainOf[c] \notin refresh.domains
      BY <1>1, <2>1, <2>5 DEF Place
    <3>2. QED
      BY <1>2, <2>2, <2>3, <2>5, <3>1 DEF Place
  <2>6. CASE c # b
    BY <1>2, <2>1, <2>2, <2>4, <2>6 DEF Place, RowMissing
  <2>7. QED
    BY <2>5, <2>6
<1>5. QED
  BY <1>2, <1>3, <1>4 DEF Progress

\* The file is replaced.
LEMMA FileReplaced ==
  ASSUME Types, AtRest, Progress, ReplaceFile
  PROVE  /\ refresh' \in RefreshState /\ AtRest' /\ Progress'
         /\ refresh'.pc = "replaced" /\ refresh'.base = refresh.base
         /\ refresh'.rows = refresh.rows /\ refresh'.errors = refresh.errors
         /\ refresh'.missed = refresh.missed
<1> USE DEF Types, RefreshState
<1>1. /\ refresh.pc = "walk" /\ refresh.box = None /\ refresh.boxes = {} /\ refresh.domains = {}
      /\ refresh' = [refresh EXCEPT !.pc = "replaced"]
  BY DEF ReplaceFile, Walked, Walking
<1>2. /\ refresh' \in RefreshState /\ refresh'.pc = "replaced" /\ refresh'.base = refresh.base
      /\ refresh'.domains = refresh.domains /\ refresh'.box = refresh.box
      /\ refresh'.rows = refresh.rows /\ refresh'.errors = refresh.errors
      /\ refresh'.boxes = refresh.boxes /\ refresh'.missed = refresh.missed
  BY <1>1
<1>3. AtRest'
  BY <1>1, <1>2 DEF AtRest
<1>4. Progress'
  BY <1>1, <1>2 DEF Progress, Place, Filled, RowMissing, ValueMissing
<1>5. QED
  BY <1>2, <1>3, <1>4

\* The refresh itself changes none of HestiaCP's state, nor what was touched for.
LEMMA RefreshUnseen == Begin \/ Refreshing \/ Failing => Unseen
BY DEF Begin, Refreshing, Failing, ListDomains, ListDomainsFails, ListBoxes, ListBoxesFails,
       NextBox, ReadColumn, ColumnFails, ReplaceFile, WriteFails, ConsumeTrigger

LEMMA RefreshStep ==
  ASSUME Types, Versions, AtRest, Progress, Covered, [Next]_vars
  PROVE  refresh' \in RefreshState /\ AtRest' /\ Progress'
<1> USE DEF Types, RefreshState
<1>1. CASE \/ Begin \/ ListDomains \/ ListDomainsFails \/ WriteFails \/ ConsumeTrigger \/ Restart
  BY <1>1, RefreshMoves
<1>2. CASE \E d \in Domains : ListBoxes(d) \/ ListBoxesFails(d)
  BY <1>2, DomainListed
<1>3. CASE \E b \in Boxes : NextBox(b)
  BY <1>3, BoxTaken
<1>4. ASSUME NEW b \in Boxes, ReadColumn(b) PROVE refresh' \in RefreshState /\ AtRest' /\ Progress'
  <2>1. PICK v \in known[b]..version[b] : Column(b, v, {})
    BY <1>4 DEF ReadColumn
  <2>2. refresh.pc = "walk" /\ refresh.box = b
    BY <1>4 DEF ReadColumn
  <2>3. v \in Nat /\ (v >= refresh.base[b] \/ b \in overtaken)
    BY <2>1, <2>2 DEF Versions, Covered
  <2>4. v # None
    BY <2>3, NoneAssumption
  <2>5. QED
    BY <2>1, <2>2, <2>3, <2>4, ColumnGrows
<1>5. ASSUME NEW b \in Boxes, ColumnFails(b) PROVE refresh' \in RefreshState /\ AtRest' /\ Progress'
  <2> DEFINE e == {<<StepAt(b), b>>} \ (Probes \X Boxes)
  <2>1. Column(b, None, e) /\ refresh.pc = "walk" /\ refresh.box = b
    BY <1>5 DEF ColumnFails
  <2>2. Len(refresh.rows[b]) + 1 \in DOMAIN Steps
    BY <2>1, MailboxStatsAssumption DEF Progress, Place
  <2>3. e \in SUBSET Errors
    BY <2>2 DEF StepAt, Errors
  <2>4. <<StepAt(b), b>> \in e \/ StepAt(b) \in Probes
    OBVIOUS
  <2>5. QED
    BY <2>1, <2>3, <2>4, ColumnGrows
<1>6. CASE ReplaceFile
  BY <1>6, FileReplaced
<1>7. CASE UNCHANGED refresh
  BY <1>7, RefreshKept
<1>8. QED
  BY <1>1, <1>2, <1>3, <1>4, <1>5, <1>6, <1>7
  DEF Next, Refreshing, Failing, Write, OutsideChange, Expire, FetchBegins, FetchBreaks,
      FetchStores, Touch, TouchFails, vars

\* The announcements, and what the cache holds of them.
Announced ==
  /\ version \in [Boxes -> Nat] /\ known \in [Boxes -> Nat] /\ touched \in [Boxes -> Nat]
  /\ fetch \in [Boxes -> Nat \cup {None}] /\ overtaken \in SUBSET Boxes
  /\ write \in (Boxes \X Nat) \cup {None}

\* A change is announced before it is touched for, and only an overtaken fetch lowers
\* what a read may return.
LEMMA VersionsStep ==
  ASSUME Types, Versions, [Next]_vars
  PROVE  Versions' /\ Announced'
<1> USE DEF Types, Versions, Announced
<1>1. CASE UNCHANGED <<version, cached, write, touched>>
  BY <1>1 DEF cached
<1>2. ASSUME NEW b \in Boxes, Write(b)
      PROVE  Versions' /\ Announced'
  <2>1. /\ version' = [version EXCEPT ![b] = version[b] + 1] /\ touched' = touched
        /\ known' = [known EXCEPT ![b] = version[b] + 1]
        /\ write' = <<b, version[b] + 1>> /\ fetch' = fetch
        /\ overtaken' = overtaken \ {b}
    BY <1>2 DEF Write
  <2>2. write'[1] = b /\ write'[2] = version[b] + 1 /\ write' \in Boxes \X Nat
    BY <2>1
  <2>3. Announced'
    BY <2>1, <2>2
  <2>4. ASSUME NEW c \in Boxes
        PROVE  /\ touched'[c] <= version'[c] /\ known'[c] <= version'[c]
               /\ c \notin overtaken' => touched'[c] <= known'[c]
               /\ fetch'[c] # None => fetch'[c] <= version'[c]
    BY <2>1, NoneAssumption
  <2>5. QED
    BY <2>1, <2>2, <2>3, <2>4
<1>3. ASSUME NEW b \in Boxes, OutsideChange(b)
      PROVE  Versions' /\ Announced'
  BY <1>3, NoneAssumption DEF OutsideChange, cached
<1>4. ASSUME NEW b \in Boxes, Expire(b)
      PROVE  Versions' /\ Announced'
  BY <1>4 DEF Expire
<1>5. ASSUME NEW b \in Boxes, FetchBegins(b) \/ FetchBreaks(b)
      PROVE  Versions' /\ Announced'
  BY <1>5 DEF FetchBegins, FetchBreaks
<1>6. ASSUME NEW b \in Boxes, FetchStores(b)
      PROVE  Versions' /\ Announced'
  <2>1. /\ fetch[b] \in Nat /\ fetch[b] <= version[b]
        /\ fetch' = [fetch EXCEPT ![b] = None] /\ UNCHANGED <<version, write, touched>>
        /\ \/ known' = [known EXCEPT ![b] = fetch[b]] /\ overtaken' = overtaken \cup {b}
           \/ UNCHANGED <<known, overtaken>>
    BY <1>6 DEF FetchStores
  <2>2. QED
    BY <2>1
<1>7. CASE Touch
  BY <1>7 DEF Touch, cached
<1>8. CASE TouchFails \/ Restart
  BY <1>8 DEF TouchFails, Restart, cached
<1>9. QED
  BY <1>1, <1>2, <1>3, <1>4, <1>5, <1>6, <1>7, <1>8, RefreshUnseen DEF Next, Unseen, cached, vars

LEMMA CoveredStep ==
  ASSUME Types, Versions, AtRest, Progress, Covered, [Next]_vars
  PROVE  Covered' /\ trigger' \in BOOLEAN /\ lost' \in [Boxes -> Nat]
<1> USE DEF Types, RefreshState
<1>1. CASE refresh' = Idle /\ (ConsumeTrigger \/ WriteFails \/ Restart)
  BY <1>1 DEF Covered, Idle, ConsumeTrigger, WriteFails, Restart
<1>2. CASE Begin
  <2>1. refresh'.pc = "domains" /\ refresh'.base = touched /\ UNCHANGED <<touched, trigger, lost>>
    BY <1>2 DEF Begin, Idle, Unseen
  <2>2. QED
    BY <2>1 DEF Covered
<1>3. CASE /\ refresh.pc # "idle" /\ refresh'.pc = "walk" /\ refresh'.base = refresh.base
           /\ UNCHANGED <<touched, trigger, lost>>
  BY <1>3 DEF Covered
<1>4. CASE ListDomains \/ ListDomainsFails
  <2>1. refresh.pc # "idle" /\ refresh'.pc = "walk" /\ refresh'.base = refresh.base
    BY <1>4 DEF ListDomains, ListDomainsFails
  <2>2. QED
    BY <1>3, <1>4, <2>1 DEF ListDomains, ListDomainsFails, Unseen
<1>5. ASSUME NEW d \in Domains, ListBoxes(d) \/ ListBoxesFails(d)
      PROVE  Covered' /\ trigger' \in BOOLEAN /\ lost' \in [Boxes -> Nat]
  <2>1. refresh.pc # "idle" /\ refresh'.pc = "walk" /\ refresh'.base = refresh.base
    BY <1>5, DomainListed DEF ListBoxes, ListBoxesFails, Walking
  <2>2. QED
    BY <1>3, <1>5, <2>1 DEF ListBoxes, ListBoxesFails, Unseen
<1>6. ASSUME NEW b \in Boxes, NextBox(b) \/ ReadColumn(b) \/ ColumnFails(b)
      PROVE  Covered' /\ trigger' \in BOOLEAN /\ lost' \in [Boxes -> Nat]
  <2>1. refresh.pc = "walk" /\ refresh'.pc = "walk" /\ refresh'.base = refresh.base
    BY <1>6 DEF NextBox, ReadColumn, ColumnFails, Column
  <2>2. QED
    BY <1>3, <1>6, <2>1 DEF NextBox, ReadColumn, ColumnFails, Unseen
<1>7. CASE ReplaceFile
  <2>1. /\ refresh.pc = "walk" /\ UNCHANGED <<touched, trigger>>
        /\ file' = [rows |-> refresh.rows, errors |-> refresh.errors]
        /\ lost' = [b \in Boxes |->
              IF refresh.errors # {} \/ b \in refresh.missed THEN touched[b] ELSE lost[b]]
    BY <1>7 DEF ReplaceFile, Walked, Walking, Unseen
  <2>2. /\ refresh'.pc = "replaced" /\ refresh'.base = refresh.base
        /\ refresh'.rows = refresh.rows /\ refresh'.errors = refresh.errors
        /\ refresh'.missed = refresh.missed
    BY <1>7, FileReplaced
  <2>3. QED
    BY <2>1, <2>2 DEF Covered
<1>8. CASE Touch
  <2>1. /\ trigger' /\ touched' = [touched EXCEPT ![write[1]] = write[2]]
        /\ write \in Boxes \X Nat /\ trigger' \in BOOLEAN
        /\ UNCHANGED <<file, refresh, lost>>
    BY <1>8 DEF Touch
  <2>2. \A b \in Boxes : touched'[b] \in Nat /\ touched[b] <= touched'[b]
    BY <1>8, <2>1 DEF Versions, Touch
  <2>3. ASSUME refresh.pc # "idle", NEW b \in Boxes PROVE refresh.base[b] <= touched'[b]
    <3>1. refresh.base[b] <= touched[b] /\ refresh.base[b] \in Nat /\ touched[b] \in Nat
      BY <2>3 DEF Covered
    <3>2. QED
      BY <2>2, <3>1
  <2>4. QED
    BY <2>1, <2>3 DEF Covered
<1>9. CASE UNCHANGED <<trigger, file, refresh, touched, lost>>
  BY <1>9 DEF Covered
<1>10. CASE ConsumeTrigger \/ WriteFails \/ Restart
  BY <1>1, <1>10 DEF ConsumeTrigger, WriteFails, Restart
<1>11. CASE \E b \in Boxes : \/ Write(b) \/ OutsideChange(b) \/ Expire(b)
                            \/ FetchBegins(b) \/ FetchBreaks(b) \/ FetchStores(b)
  BY <1>9, <1>11 DEF Write, OutsideChange, Expire, FetchBegins, FetchBreaks, FetchStores
<1>12. CASE TouchFails \/ UNCHANGED vars
  BY <1>9, <1>12 DEF TouchFails, vars
<1>13. QED
  BY <1>2, <1>4, <1>5, <1>6, <1>7, <1>8, <1>10, <1>11, <1>12
  DEF Next, Refreshing, Failing

\* When the walk is over, a row is missing only for a reason.
LEMMA WalkedRows ==
  ASSUME Types, Progress, refresh.pc \in {"walk", "replaced"},
         refresh.domains = {}, refresh.boxes = {}, refresh.box = None, NEW b \in Boxes
  PROVE  /\ refresh.rows[b] = NoRow => RowMissing(b, refresh.errors)
         /\ refresh.rows[b] # NoRow => Len(refresh.rows[b]) = Len(Steps)
         /\ Filled(b)
BY NoneAssumption DEF Progress, Place

\* Only the replacement writes the file.
LEMMA FileKept == [Next]_vars /\ ~ReplaceFile => file' = file
BY DEF Next, vars, Begin, Refreshing, Failing, ListDomains, ListDomainsFails, ListBoxes,
       ListBoxesFails, NextBox, ReadColumn, ColumnFails, WriteFails, ConsumeTrigger,
       Write, OutsideChange, Expire, FetchBegins, FetchBreaks, FetchStores, Touch, TouchFails,
       Restart

LEMMA GapsStep ==
  ASSUME Types, Versions, AtRest, Progress, Covered, GapsAreReported, [Next]_vars
  PROVE  GapsAreReported'
<1>1. CASE ReplaceFile
  <2>1. /\ refresh.pc = "walk" /\ refresh.domains = {} /\ refresh.boxes = {} /\ refresh.box = None
        /\ file' = [rows |-> refresh.rows, errors |-> refresh.errors]
    BY <1>1 DEF ReplaceFile, Walked, Walking
  <2>2. file'.rows = refresh.rows /\ file'.errors = refresh.errors
    BY <2>1
  <2>3. ASSUME NEW b \in Boxes
        PROVE  /\ file'.rows[b] = NoRow => RowMissing(b, file'.errors)
               /\ \A i \in DOMAIN file'.rows[b] :
                    file'.rows[b][i] = None => ValueMissing(b, i, file'.errors)
    BY <2>1, <2>2, <2>3, WalkedRows DEF Filled
  <2>4. QED
    BY <2>3 DEF GapsAreReported, RowMissing, ValueMissing
<1>2. CASE ~ReplaceFile
  BY <1>2, FileKept DEF GapsAreReported
<1>3. QED
  BY <1>1, <1>2

\* A refresh without errors is up to date with what it began from, but for a mailbox
\* read from what an overtaken fetch had stored.
LEMMA CleanRefresh ==
  ASSUME Types, Progress, refresh.pc \in {"walk", "replaced"},
         refresh.domains = {}, refresh.boxes = {}, refresh.box = None, refresh.errors = {},
         NEW f, f = [rows |-> refresh.rows, errors |-> refresh.errors],
         NEW b \in Boxes, b \notin refresh.missed
  PROVE  /\ f # None /\ f.rows[b] # NoRow
         /\ \A i \in {j \in DOMAIN Steps : Steps[j] \notin Probes} :
              f.rows[b][i] # None /\ f.rows[b][i] \in Nat /\ f.rows[b][i] >= refresh.base[b]
<1>1. f.rows = refresh.rows /\ f.rows \in [Boxes -> Seq(Nat \cup {None})] /\ f \in Files
  BY DEF Types, RefreshState, Files
<1>2. f # None
  BY <1>1, NoneAssumption
<1>3. refresh.rows[b] # NoRow /\ Len(refresh.rows[b]) = Len(Steps) /\ Filled(b)
  BY WalkedRows DEF RowMissing
<1>4. ASSUME NEW i \in DOMAIN Steps, Steps[i] \notin Probes
      PROVE  f.rows[b][i] # None /\ f.rows[b][i] \in Nat /\ f.rows[b][i] >= refresh.base[b]
  <2>1. refresh.rows[b] \in Seq(Nat \cup {None}) /\ i \in DOMAIN refresh.rows[b]
    BY <1>1, <1>3, <1>4, MailboxStatsAssumption
  <2>2. refresh.rows[b][i] # None
    BY <1>3, <1>4, <2>1 DEF Filled, ValueMissing
  <2>3. QED
    BY <1>1, <1>3, <2>1, <2>2 DEF Filled
<1>5. QED
  BY <1>1, <1>2, <1>3, <1>4

LEMMA TriggerStep ==
  ASSUME Types, Versions, AtRest, Progress, Covered, TriggerCoversWrites, [Next]_vars
  PROVE  TriggerCoversWrites'
<1> USE DEF Types
<1>1. CASE ReplaceFile
  <2>1. /\ refresh.pc = "walk" /\ refresh.domains = {} /\ refresh.boxes = {} /\ refresh.box = None
        /\ file' = [rows |-> refresh.rows, errors |-> refresh.errors]
        /\ lost' = [b \in Boxes |->
              IF refresh.errors # {} \/ b \in refresh.missed THEN touched[b] ELSE lost[b]]
        /\ UNCHANGED <<trigger, touched>>
    BY <1>1 DEF ReplaceFile, Walked, Walking, Unseen
  <2>2. ASSUME NEW b \in Boxes, ~trigger, touched[b] > lost'[b] PROVE UpToDate(b, touched[b])'
    <3>1. refresh.errors = {} /\ b \notin refresh.missed
      BY <2>1, <2>2
    <3>2. touched[b] \in Nat /\ refresh.base[b] \in Nat /\ touched[b] <= refresh.base[b]
      BY <2>1, <2>2 DEF Covered, RefreshState
    <3>3. /\ file' # None /\ file'.rows[b] # NoRow
          /\ \A i \in {j \in DOMAIN Steps : Steps[j] \notin Probes} :
               file'.rows[b][i] # None /\ file'.rows[b][i] \in Nat /\ file'.rows[b][i] >= refresh.base[b]
      BY <2>1, <3>1, CleanRefresh
    <3>4. QED
      BY <2>1, <3>2, <3>3 DEF UpToDate
  <2>3. QED
    BY <2>1, <2>2 DEF TriggerCoversWrites
<1>2. CASE ConsumeTrigger
  <2>1. /\ refresh.pc = "replaced" /\ UNCHANGED <<file, touched>>
        /\ lost' = [b \in Boxes |->
              IF touched[b] > refresh.base[b] THEN touched[b] ELSE lost[b]]
    BY <1>2 DEF ConsumeTrigger, Unseen
  <2>2. /\ refresh.domains = {} /\ refresh.boxes = {} /\ refresh.box = None
        /\ file = [rows |-> refresh.rows, errors |-> refresh.errors]
        /\ \A b \in Boxes :
             refresh.errors # {} \/ b \in refresh.missed => refresh.base[b] <= lost[b]
    BY <2>1 DEF AtRest, Covered
  <2>3. ASSUME NEW b \in Boxes, touched[b] > lost'[b] PROVE UpToDate(b, touched[b])
    <3>1. touched[b] \in Nat /\ refresh.base[b] \in Nat /\ lost[b] \in Nat
      BY DEF RefreshState
    <3>2. touched[b] <= refresh.base[b] /\ lost[b] < touched[b]
      BY <2>1, <2>3, <3>1
    <3>3. refresh.errors = {} /\ b \notin refresh.missed
      BY <2>2, <3>1, <3>2
    <3>4. /\ file # None /\ file.rows[b] # NoRow
          /\ \A i \in {j \in DOMAIN Steps : Steps[j] \notin Probes} :
               file.rows[b][i] # None /\ file.rows[b][i] \in Nat /\ file.rows[b][i] >= refresh.base[b]
      BY <2>1, <2>2, <3>3, CleanRefresh
    <3>5. QED
      BY <3>1, <3>2, <3>4 DEF UpToDate
  <2>4. QED
    BY <2>1, <2>3 DEF TriggerCoversWrites, UpToDate
<1>3. CASE Touch
  BY <1>3 DEF Touch, TriggerCoversWrites
<1>4. CASE UNCHANGED <<trigger, file, touched, lost>>
  BY <1>4 DEF TriggerCoversWrites, UpToDate
<1>5. CASE Begin \/ ListDomains \/ ListDomainsFails \/ WriteFails \/ Restart
  BY <1>4, <1>5 DEF Begin, ListDomains, ListDomainsFails, WriteFails, Restart, Unseen
<1>6. CASE \E d \in Domains : ListBoxes(d) \/ ListBoxesFails(d)
  BY <1>4, <1>6 DEF ListBoxes, ListBoxesFails, Unseen
<1>7. CASE \E b \in Boxes : NextBox(b) \/ ReadColumn(b) \/ ColumnFails(b)
  BY <1>4, <1>7 DEF NextBox, ReadColumn, ColumnFails, Unseen
<1>8. CASE \E b \in Boxes : \/ Write(b) \/ OutsideChange(b) \/ Expire(b)
                           \/ FetchBegins(b) \/ FetchBreaks(b) \/ FetchStores(b)
  BY <1>4, <1>8 DEF Write, OutsideChange, Expire, FetchBegins, FetchBreaks, FetchStores
<1>9. CASE TouchFails \/ UNCHANGED vars
  BY <1>4, <1>9 DEF TouchFails, vars
<1>10. QED
  BY <1>1, <1>2, <1>3, <1>5, <1>6, <1>7, <1>8, <1>9 DEF Next, Refreshing, Failing

LEMMA StatsInvHolds == Spec => []StatsInv
<1>1. Init => StatsInv
  <2> SUFFICES ASSUME Init PROVE StatsInv
    OBVIOUS
  <2>1. Types
    BY IdleType DEF Init, Types
  <2>2. Versions
    BY DEF Init, Versions, Zero
  <2>3. AtRest /\ Progress /\ Covered
    BY DEF Init, AtRest, Progress, Covered, Idle
  <2>4. GapsAreReported /\ TriggerCoversWrites
    BY DEF Init, GapsAreReported, TriggerCoversWrites, Zero
  <2>5. QED
    BY <2>1, <2>2, <2>3, <2>4 DEF StatsInv
<1>2. StatsInv /\ [Next]_vars => StatsInv'
  <2> SUFFICES ASSUME StatsInv, [Next]_vars PROVE StatsInv'
    OBVIOUS
  <2>1. Types' /\ Versions' /\ AtRest' /\ Progress' /\ Covered'
    BY RefreshStep, VersionsStep, CoveredStep DEF StatsInv, Types, Announced
  <2>2. GapsAreReported' /\ TriggerCoversWrites'
    BY GapsStep, TriggerStep DEF StatsInv
  <2>3. QED
    BY <2>1, <2>2 DEF StatsInv
<1>3. QED
  BY <1>1, <1>2, PTL DEF Spec

\* The statistics lack nothing without saying why.
THEOREM GapsAreReportedHolds == Spec => []GapsAreReported
BY StatsInvHolds, PTL DEF StatsInv

\* Without a trigger left, the statistics know of every write but the lost ones.
THEOREM TriggerCoversWritesHolds == Spec => []TriggerCoversWrites
BY StatsInvHolds, PTL DEF StatsInv

-----------------------------------------------------------------------------
(* Suppression.                                                            *)

Keys == [cat : Tabs \cup {"all", "soft"}, limit : Nat, offset : Nat]
BrevoLists == {l \in Seq(Contacts) : IsInjective(l)}
WalkState ==
  [view : Views \cup {Nothing}, offset : Nat, shown : SUBSET Contacts, first : Nat,
   last : Nat, back : BOOLEAN, end : {"open", "error", "shown"}]
RequestState ==
  [pc : {"idle", "fetch", "loaded"}, key : Keys \cup {Nothing},
   got : Pages \cup {Nothing}, answer : Pages \cup {Nothing}]
WriterState ==
  [pc : {"idle", "sent", "applied"}, kind : {"add", "remove", Nothing},
   todo : SUBSET Contacts, contact : Contacts \cup {Nothing}]

\* Between the versions v and w of ls nobody was taken off the list.
Additive(ls, v, w) == \A u \in v..(w - 1) : ToSet(ls[u]) \subseteq ToSet(ls[u + 1])

\* Version w is version v behind w - v newer contacts.
Shifted(ls, v, w) ==
  \A p \in DOMAIN ls[v] : p + (w - v) \in DOMAIN ls[w] /\ ls[w][p + (w - v)] = ls[v][p]

\* Additions alone move every contact by as many places as there are versions.
ListsInv(ls) ==
  /\ ls \in Seq(BrevoLists) /\ Len(ls) >= 1
  /\ \A v, w \in 1..Len(ls) : v <= w /\ Additive(ls, v, w) => Shifted(ls, v, w)

\* What Brevo answers for k without a filter.
Unfiltered(l, k) ==
  {i \in DOMAIN l : k.offset < i /\ i <= k.offset + k.limit /\ i <= k.offset + Cap}

\* The page is one that was read for k.
PageOf(ls, k, page) ==
  /\ page \in Pages /\ page.version <= Len(ls) /\ page.at \subseteq DOMAIN ls[page.version]
  /\ Wanted(k.cat) = {} => page.at = Unfiltered(ls[page.version], k)

\* No removal was answered since the page was asked for.
Clean(ls, page, removed) ==
  ~page.raced => removed \cap {ls[page.version][i] : i \in page.at} = {}

WalkKey(a) == Key(a.view.cat, a.view.limit + a.view.peek, a.offset)
Uncapped(a) == Wanted(a.view.cat) = {} /\ a.view.limit + a.view.peek <= Cap

\* Whoever was on the list when the walk began, and is now in front of its
\* offset, has been shown; at the end everybody is in front of the offset.
WalkOK(ls, a) ==
  /\ a.first = 0 => a.last = 0 /\ a.offset = 0 /\ a.end # "shown"
  /\ a.first # 0 =>
       /\ a.view # Nothing /\ a.first \in 1..Len(ls) /\ a.last \in 1..Len(ls)
       /\ ~a.back => a.first <= a.last
       /\ ~a.back /\ Uncapped(a) =>
            /\ Additive(ls, a.first, a.last) => \A i \in DOMAIN ls[a.last] :
                 i <= a.offset /\ ls[a.last][i] \in ToSet(ls[a.first]) => ls[a.last][i] \in a.shown
            /\ a.end = "shown" => Len(ls[a.last]) <= a.offset

\* A request is for the next page of its walk, or has that page at hand, or is
\* for the counts of a walk that failed.
RequestOK(ls, q, a, removed) ==
  /\ q.pc # "idle" => a.view # Nothing /\ a.end # "shown" /\ q.key \in Keys
  /\ q.pc # "idle" /\ q.answer = Nothing /\ a.end = "open" => q.key = WalkKey(a)
  /\ q.pc # "idle" /\ q.answer # Nothing => a.end = "open" /\ PageOf(ls, WalkKey(a), q.answer)
  /\ q.pc = "loaded" => PageOf(ls, q.key, q.got) /\ Clean(ls, q.got, removed)

PagesInv ==
  \A k \in DOMAIN cache : k \in Keys /\ PageOf(lists, k, cache[k]) /\ Clean(lists, cache[k], gone)
WalksInv ==
  /\ walk \in [Readers -> WalkState] /\ request \in [Readers -> RequestState]
  /\ \A r \in Readers : WalkOK(lists, walk[r]) /\ RequestOK(lists, request[r], walk[r], gone)
WriterInv ==
  /\ writer \in [Writers -> WriterState]
  /\ \A w \in Writers : writer[w].pc # "idle" => writer[w].contact \in Contacts

SuppressionInv ==
  /\ ListsInv(lists) /\ gone \cap ToSet(List) = {}
  /\ PagesInv /\ WalksInv /\ WriterInv

-----------------------------------------------------------------------------
(* Lists.                                                                  *)

\* Taking one contact off the list.
LEMMA OneRemoved ==
  ASSUME NEW l \in BrevoLists, NEW c \in ToSet(l),
         NEW e, e = RemoveAt(l, CHOOSE i \in DOMAIN l : l[i] = c)
  PROVE  e \in BrevoLists /\ c \notin ToSet(e)
<1>1. l \in Seq(Contacts) /\ IsInjective(l)
  BY DEF BrevoLists
<1>2. PICK k \in DOMAIN l : k = CHOOSE i \in DOMAIN l : l[i] = c
  BY DEF ToSet
<1>3. l[k] = c
  BY <1>2 DEF ToSet
<1>4. k \in 1..Len(l) /\ Len(l) \in Nat /\ DOMAIN l = 1..Len(l)
  BY <1>1
<1> DEFINE before == SubSeq(l, 1, k - 1)
           after == SubSeq(l, k + 1, Len(l))
<1>5. /\ before \in Seq(Contacts) /\ Len(before) = k - 1
      /\ \A i \in 1..(k - 1) : before[i] = l[i]
  BY <1>1, <1>4
<1>6. /\ after \in Seq(Contacts) /\ Len(after) = Len(l) - k
      /\ \A i \in 1..(Len(l) - k) : after[i] = l[k + i]
  BY <1>1, <1>4
<1>7. e = before \o after
  BY <1>2 DEF RemoveAt
<1> HIDE DEF before, after
<1>8. /\ e \in Seq(Contacts) /\ Len(e) = Len(before) + Len(after)
      /\ \A i \in 1..(Len(before) + Len(after)) :
           e[i] = IF i <= Len(before) THEN before[i] ELSE after[i - Len(before)]
  <2>1. before \in Seq(Contacts) /\ after \in Seq(Contacts)
    BY <1>5, <1>6
  <2>2. /\ before \o after \in Seq(Contacts)
        /\ Len(before \o after) = Len(before) + Len(after)
        /\ \A i \in 1..(Len(before) + Len(after)) :
             (before \o after)[i] = IF i <= Len(before) THEN before[i] ELSE after[i - Len(before)]
    BY <2>1, ConcatProperties, Zenon
  <2>3. QED
    BY <1>7, <2>2, Zenon
<1>9. ASSUME NEW i \in 1..(Len(l) - 1)
      PROVE  /\ i < k => e[i] = l[i]
             /\ i >= k => e[i] = l[i + 1]
  <2>1. /\ i \in 1..(Len(before) + Len(after)) /\ Len(before) = k - 1
        /\ i \in Int /\ k \in Int /\ Len(l) \in Int
    BY <1>4, <1>5, <1>6
  <2>2. CASE i < k
    <3>1. e[i] = before[i] /\ i \in 1..(k - 1)
      BY <1>8, <2>1, <2>2
    <3>2. QED
      BY <1>5, <2>1, <2>2, <3>1
  <2>3. CASE i >= k
    <3>1. e[i] = after[i - (k - 1)] /\ i - (k - 1) \in 1..(Len(l) - k)
      BY <1>8, <2>1, <2>3
    <3>2. after[i - (k - 1)] = l[k + (i - (k - 1))]
      BY <1>6, <3>1
    <3>3. k + (i - (k - 1)) = i + 1
      BY <2>1
    <3>4. QED
      BY <2>1, <2>3, <3>1, <3>2, <3>3
  <2>4. QED
    BY <2>1, <2>2, <2>3
<1>10. DOMAIN e = 1..(Len(l) - 1)
  <2>1. DOMAIN e = 1..Len(e)
    BY <1>8
  <2>2. Len(e) = Len(l) - 1
    <3>1. Len(before) = k - 1 /\ Len(after) = Len(l) - k /\ Len(e) = Len(before) + Len(after)
      BY <1>5, <1>6, <1>8
    <3>2. k \in Int /\ Len(l) \in Int
      BY <1>4
    <3>3. QED
      BY <3>1, <3>2
  <2>3. QED
    BY <2>1, <2>2
<1>11. IsInjective(e)
  <2> DEFINE Old(i) == IF i < k THEN i ELSE i + 1
  <2>1. ASSUME NEW i \in DOMAIN e
        PROVE  e[i] = l[Old(i)] /\ Old(i) \in DOMAIN l /\ i \in Int
    BY <1>4, <1>9, <1>10, <2>1
  <2>2. ASSUME NEW i \in DOMAIN e, NEW j \in DOMAIN e, e[i] = e[j] PROVE i = j
    <3>1. Old(i) = Old(j)
      BY <1>1, <2>1, <2>2 DEF IsInjective
    <3>2. i \in Int /\ j \in Int /\ k \in Int
      BY <1>4, <2>1
    <3>3. QED
      BY <3>1, <3>2
  <2>3. QED
    BY <2>2 DEF IsInjective
<1>12. c \notin ToSet(e)
  BY <1>1, <1>3, <1>4, <1>9, <1>10 DEF IsInjective, ToSet
<1>13. QED
  BY <1>8, <1>11, <1>12 DEF BrevoLists

\* Putting one in front.
LEMMA OneAdded ==
  ASSUME NEW l \in BrevoLists, NEW c \in Contacts, c \notin ToSet(l), NEW e, e = <<c>> \o l
  PROVE  /\ e \in BrevoLists
         /\ \A p \in DOMAIN l : p + 1 \in DOMAIN e /\ e[p + 1] = l[p]
<1>1. l \in Seq(Contacts) /\ IsInjective(l) /\ DOMAIN l = 1..Len(l) /\ Len(l) \in Nat
  BY DEF BrevoLists
<1>2. e \in Seq(Contacts)
  BY <1>1
<1>3. Len(e) = Len(l) + 1
  BY <1>1
<1>4. DOMAIN e = 1..(Len(l) + 1)
  BY <1>1, <1>2, <1>3
<1>5. e[1] = c /\ \A i \in 2..(Len(l) + 1) : e[i] = l[i - 1]
  BY <1>1
<1>6. IsInjective(e)
  <2>1. ASSUME NEW i \in 2..(Len(l) + 1) PROVE e[i] # c
    BY <1>1, <1>5, <2>1 DEF ToSet
  <2>2. QED
    BY <1>1, <1>4, <1>5, <2>1 DEF IsInjective
<1>7. QED
  BY <1>1, <1>2, <1>4, <1>5, <1>6 DEF BrevoLists

\* What one write or one event makes of the list.
LEMMA EffectShape ==
  ASSUME ListsInv(lists), NEW kind, NEW c \in Contacts, NEW e, e = Effect(kind, c)
  PROVE  /\ e \in BrevoLists
         /\ e # List =>
              \/ ~(ToSet(List) \subseteq ToSet(e))
              \/ \A p \in DOMAIN List : p + 1 \in DOMAIN e /\ e[p + 1] = List[p]
<1>1. List \in BrevoLists
  BY DEF ListsInv, List, Version
<1>2. CASE e = List
  BY <1>1, <1>2
<1>3. CASE c \notin ToSet(List) /\ e = <<c>> \o List
  BY <1>1, <1>3, OneAdded
<1>4. CASE c \in ToSet(List) /\ e = RemoveAt(List, CHOOSE i \in DOMAIN List : List[i] = c)
  BY <1>1, <1>4, OneRemoved
<1>5. QED
  BY <1>2, <1>3, <1>4 DEF Effect

\* A version more leaves the earlier ones alone.
LEMMA OneVersionMore ==
  ASSUME NEW ls \in Seq(BrevoLists), NEW l \in BrevoLists, NEW new, new = Append(ls, l)
  PROVE  /\ new \in Seq(BrevoLists) /\ Len(new) = Len(ls) + 1 /\ new[Len(ls) + 1] = l
         /\ \A v \in 1..Len(ls) : new[v] = ls[v]
OBVIOUS

\* Additions still move every contact by as many places as there are versions.
LEMMA ListsGrow ==
  ASSUME ListsInv(lists), NEW kind, NEW c \in Contacts, Becomes(Effect(kind, c))
  PROVE  /\ ListsInv(lists') /\ Len(lists) <= Len(lists')
         /\ \A v \in 1..Len(lists) : lists'[v] = lists[v]
<1> DEFINE e == Effect(kind, c)
           n == Len(lists)
<1>1. lists \in Seq(BrevoLists) /\ n \in Nat /\ n >= 1
  BY DEF ListsInv
<1>2. CASE lists' = lists
  BY <1>1, <1>2
<1>3. CASE e # List /\ lists' = Append(lists, e)
  <2>1. e \in BrevoLists
    BY EffectShape
  <2>2. /\ \/ ~(ToSet(List) \subseteq ToSet(e))
           \/ \A p \in DOMAIN List : p + 1 \in DOMAIN e /\ e[p + 1] = List[p]
    BY <1>3, EffectShape
  <2> HIDE DEF e
  <2>3. /\ lists' \in Seq(BrevoLists) /\ Len(lists') = n + 1 /\ lists'[n + 1] = e
        /\ \A v \in 1..n : lists'[v] = lists[v]
    BY <1>1, <1>3, <2>1, OneVersionMore
  <2>4. List = lists[n]
    BY DEF List, Version
  <2>5. ASSUME NEW v \in 1..(n + 1), NEW w \in 1..(n + 1), v <= w, Additive(lists', v, w)
        PROVE  Shifted(lists', v, w)
    <3>1. CASE w <= n
      <4>1. v \in 1..n /\ w \in 1..n
        BY <1>1, <2>5, <3>1
      <4>2. Additive(lists, v, w)
        <5>1. \A u \in v..(w - 1) : u \in 1..n /\ u + 1 \in 1..n
          BY <1>1, <4>1
        <5>2. QED
          BY <2>3, <2>5, <5>1 DEF Additive
      <4>3. Shifted(lists, v, w)
        BY <2>5, <4>1, <4>2 DEF ListsInv
      <4>4. QED
        BY <2>3, <4>1, <4>3 DEF Shifted
    <3>2. CASE v = n + 1
      <4>1. w = v /\ w - v = 0
        BY <1>1, <2>5, <3>2
      <4>2. \A p \in DOMAIN lists'[v] : p + 0 = p
        BY <1>1, <2>3, <3>2, <2>1 DEF BrevoLists
      <4>3. QED
        BY <4>1, <4>2 DEF Shifted
    <3>3. CASE v <= n /\ w = n + 1
      <4>1. v \in 1..n /\ n \in v..(w - 1) /\ n \in 1..n
        BY <1>1, <2>5, <3>3
      <4>2. ToSet(lists'[n]) \subseteq ToSet(lists'[n + 1])
        BY <2>5, <4>1 DEF Additive
      <4>3. \A p \in DOMAIN List : p + 1 \in DOMAIN e /\ e[p + 1] = List[p]
        BY <2>2, <2>3, <2>4, <4>1, <4>2
      <4>4. Additive(lists, v, n)
        <5>1. \A u \in v..(n - 1) : u \in 1..n /\ u + 1 \in 1..n /\ u \in v..(w - 1)
          BY <1>1, <3>3, <4>1
        <5>2. QED
          BY <2>3, <2>5, <5>1 DEF Additive
      <4>5. Shifted(lists, v, n)
        BY <3>3, <4>1, <4>4 DEF ListsInv
      <4>6. ASSUME NEW p \in DOMAIN lists[v]
            PROVE  p + (w - v) \in DOMAIN e /\ e[p + (w - v)] = lists[v][p]
        <5>1. p \in Int /\ (p + (n - v)) + 1 = p + (w - v)
          <6>1. lists[v] \in Seq(Contacts)
            BY <1>1, <4>1 DEF BrevoLists
          <6>2. p \in Int
            BY <4>6, <6>1
          <6>3. n \in Int /\ v \in Int /\ w = n + 1
            BY <1>1, <3>3
          <6>4. QED
            BY <6>2, <6>3
        <5>2. p + (n - v) \in DOMAIN List /\ List[p + (n - v)] = lists[v][p]
          BY <2>4, <4>5, <4>6 DEF Shifted
        <5>3. QED
          BY <4>3, <5>1, <5>2
      <4>7. QED
        BY <2>3, <3>3, <4>1, <4>6 DEF Shifted
    <3>4. QED
      BY <1>1, <2>5, <3>1, <3>2, <3>3
  <2>6. QED
    BY <1>1, <2>3, <2>5 DEF ListsInv
<1>4. QED
  BY <1>2, <1>3 DEF Becomes

-----------------------------------------------------------------------------
(* Pages and walks.                                                        *)

LEMMA KeyTypes ==
  ASSUME NEW a \in WalkState, a.view # Nothing
  PROVE  /\ a.view \in Views /\ a.view.limit \in Nat \ {0} /\ a.view.peek \in {0, 1}
         /\ WalkKey(a) \in Keys /\ CountsKey \in Keys
         /\ WalkKey(a).cat = a.view.cat /\ WalkKey(a).offset = a.offset
         /\ WalkKey(a).limit = a.view.limit + a.view.peek
BY SuppressionAssumption DEF WalkState, WalkKey, CountsKey, Key, Keys

\* A page that lacks no more than its peek leaves nothing behind it.
LEMMA LastPage ==
  ASSUME NEW l \in BrevoLists, NEW k \in Keys, NEW limit \in Nat \ {0}, NEW peek \in {0, 1},
         k.limit = limit + peek, limit + peek <= Cap,
         NEW at, at = Unfiltered(l, k), ~(Cardinality(at) >= limit + peek)
  PROVE  Len(l) <= k.offset + limit
<1>1. /\ k.offset \in Nat /\ Len(l) \in Nat /\ DOMAIN l = 1..Len(l) /\ Cap \in Nat
      /\ limit \in Nat /\ peek \in Nat /\ k.limit = limit + peek
  BY SuppressionAssumption DEF BrevoLists, Keys
<1>2. SUFFICES ASSUME Len(l) > k.offset + limit PROVE FALSE
  BY <1>1
<1>3. Len(l) >= k.offset + limit + peek
  BY <1>1, <1>2
<1>4. at = (k.offset + 1)..(k.offset + limit + peek)
  <2>1. \A i \in Int : i \in DOMAIN l /\ k.offset < i /\ i <= k.offset + k.limit /\ i <= k.offset + Cap
          <=> i \in (k.offset + 1)..(k.offset + limit + peek)
    BY <1>1, <1>3
  <2>2. \A i \in DOMAIN l : i \in Int
    BY <1>1
  <2>3. QED
    BY <2>1, <2>2 DEF Unfiltered
<1>5. k.offset + 1 \in Int /\ k.offset + limit + peek \in Int
  BY <1>1
<1>6. Cardinality(at) = IF k.offset + 1 > k.offset + limit + peek THEN 0
                        ELSE (k.offset + limit + peek) - (k.offset + 1) + 1
  BY <1>4, <1>5, FS_Interval
<1>7. Cardinality(at) = limit + peek
  BY <1>1, <1>6
<1>8. QED
  BY <1>1, <1>7

\* The rows shown of an unfiltered page are all the limit reaches.
LEMMA FirstRows ==
  ASSUME NEW l \in BrevoLists, NEW k \in Keys, NEW limit \in Nat \ {0}, NEW peek \in {0, 1},
         k.limit = limit + peek, limit + peek <= Cap,
         NEW at, at = Unfiltered(l, k), NEW i \in DOMAIN l, k.offset < i, i <= k.offset + limit
  PROVE  i \in FirstOf(limit, at)
<1>1. /\ k.offset \in Nat /\ Len(l) \in Nat /\ DOMAIN l = 1..Len(l) /\ Cap \in Nat
      /\ limit \in Nat /\ peek \in Nat /\ i \in Nat
  BY SuppressionAssumption DEF BrevoLists, Keys
<1>2. \A j \in Int : j \in DOMAIN l /\ k.offset < j /\ j <= k.offset + k.limit /\ j <= k.offset + Cap
                        /\ j <= i <=> j \in (k.offset + 1)..i
  BY <1>1
<1>3. {j \in at : j <= i} = (k.offset + 1)..i
  BY <1>1, <1>2 DEF Unfiltered
<1>4. k.offset + 1 \in Int /\ i \in Int
  BY <1>1
<1>5. Cardinality((k.offset + 1)..i) = IF k.offset + 1 > i THEN 0 ELSE i - (k.offset + 1) + 1
  BY <1>4, FS_Interval
<1>6. Cardinality({j \in at : j <= i}) <= limit
  <2>1. Cardinality({j \in at : j <= i}) = i - (k.offset + 1) + 1
    <3>1. ~(k.offset + 1 > i)
      BY <1>1
    <3>2. Cardinality((k.offset + 1)..i) = i - (k.offset + 1) + 1
      BY <1>5, <3>1
    <3>3. QED
      BY <1>3, <3>2
  <2>2. i - (k.offset + 1) + 1 <= limit
    BY <1>1
  <2>3. QED
    BY <2>1, <2>2
<1>7. i \in at
  BY <1>1 DEF Unfiltered
<1>8. QED
  BY <1>6, <1>7 DEF FirstOf

\* The contacts a longer walk began with are still where additions moved them.
LEMMA Carried ==
  ASSUME ListsInv(lists), NEW f \in 1..Len(lists), NEW p \in 1..Len(lists), NEW q \in 1..Len(lists),
         f <= p, p <= q, Additive(lists, f, q),
         NEW i \in DOMAIN lists[q], lists[q][i] \in ToSet(lists[f])
  PROVE  /\ Additive(lists, f, p)
         /\ \E j \in DOMAIN lists[p] : j <= i /\ lists[p][j] = lists[q][i]
<1>1. lists \in Seq(BrevoLists) /\ Len(lists) \in Nat
  BY DEF ListsInv
<1>2. Additive(lists, f, p) /\ Additive(lists, p, q)
  <2>1. f \in Int /\ p \in Int /\ q \in Int
    BY <1>1
  <2>2. \A u \in f..(p - 1) : u \in f..(q - 1)
    BY <2>1
  <2>3. \A u \in p..(q - 1) : u \in f..(q - 1)
    BY <2>1
  <2>4. QED
    BY <2>2, <2>3 DEF Additive
<1>3. Shifted(lists, f, p) /\ Shifted(lists, p, q)
  BY <1>2 DEF ListsInv
<1>4. PICK m \in DOMAIN lists[f] : lists[f][m] = lists[q][i]
  BY DEF ToSet
<1>5. m + (p - f) \in DOMAIN lists[p] /\ lists[p][m + (p - f)] = lists[q][i]
  BY <1>3, <1>4 DEF Shifted
<1> DEFINE j == m + (p - f)
<1> HIDE DEF j
<1>6. j \in DOMAIN lists[p] /\ lists[p][j] = lists[q][i]
  BY <1>5 DEF j
<1>7. j + (q - p) \in DOMAIN lists[q] /\ lists[q][j + (q - p)] = lists[q][i]
  BY <1>3, <1>6 DEF Shifted
<1>8. /\ lists[q] \in Seq(Contacts) /\ IsInjective(lists[q]) /\ lists[p] \in Seq(Contacts)
  BY <1>1 DEF BrevoLists
<1>9. j + (q - p) = i
  BY <1>7, <1>8 DEF IsInjective
<1>10. j \in Int /\ i \in Int
  BY <1>6, <1>8
<1>11. j <= i
  BY <1>9, <1>10
<1>12. QED
  BY <1>2, <1>6, <1>11

\* A page turned keeps a walk in order.
LEMMA TurnedOK ==
  ASSUME ListsInv(lists), NEW a \in WalkState, a.view # Nothing, a.end = "open", WalkOK(lists, a),
         NEW page, PageOf(lists, WalkKey(a), page)
  PROVE  Turned(a, page) \in WalkState /\ WalkOK(lists, Turned(a, page))
<1> DEFINE b == Turned(a, page)
           l == lists[page.version]
           shown == a.shown \cup Rows(page.version, FirstOf(a.view.limit, page.at))
           k == WalkKey(a)
<1>1. /\ page \in Pages /\ page.version \in 1..Len(lists) /\ page.at \subseteq DOMAIN l
      /\ Wanted(a.view.cat) = {} => page.at = Unfiltered(l, k)
  BY KeyTypes DEF PageOf, Pages, ListsInv
<1>2. /\ lists \in Seq(BrevoLists) /\ l \in BrevoLists /\ l \in Seq(Contacts)
  BY <1>1 DEF ListsInv, BrevoLists
<1>3. Rows(page.version, FirstOf(a.view.limit, page.at)) \subseteq Contacts
  <2>1. FirstOf(a.view.limit, page.at) \subseteq DOMAIN l
    BY <1>1 DEF FirstOf
  <2>2. \A i \in DOMAIN l : l[i] \in Contacts
    BY <1>2
  <2>3. QED
    BY <2>1, <2>2 DEF Rows
<1>4. /\ a.offset \in Nat /\ a.first \in Nat /\ a.last \in Nat /\ a.shown \in SUBSET Contacts
      /\ a.back \in BOOLEAN /\ a.view.limit \in Nat \ {0} /\ a.view.peek \in {0, 1}
      /\ page.version \in Nat \ {0}
  BY <1>1, KeyTypes DEF WalkState, Pages
<1>5. /\ b.view = a.view /\ b.shown = shown /\ b.offset = a.offset + a.view.limit
      /\ b.last = page.version /\ b.first = (IF a.first = 0 THEN page.version ELSE a.first)
      /\ ~b.back => ~a.back /\ ~(page.version < a.last)
      /\ b.end = (IF More(a.view, page) THEN "open" ELSE "shown")
  BY DEF Turned
<1>6. b \in WalkState
  BY <1>3, <1>4, KeyTypes DEF Turned, WalkState
<1> HIDE DEF b, shown
<1>7. b.first \in 1..Len(lists) /\ b.last \in 1..Len(lists) /\ b.first # 0
  BY <1>1, <1>4, <1>5 DEF WalkOK
<1>8. ~b.back => b.first <= b.last
  BY <1>1, <1>4, <1>5 DEF WalkOK
<1>9. ASSUME Uncapped(b), b.end = "shown" PROVE Len(lists[b.last]) <= b.offset
  <2>1. ~(Cardinality(page.at) >= a.view.limit + a.view.peek)
    BY <1>5, <1>9 DEF More
  <2>2. page.at = Unfiltered(l, k) /\ a.view.limit + a.view.peek <= Cap
    BY <1>1, <1>5, <1>9 DEF Uncapped
  <2>3. k \in Keys /\ k.offset = a.offset /\ k.limit = a.view.limit + a.view.peek
    BY KeyTypes
  <2>4. QED
    BY <1>2, <1>4, <1>5, <2>1, <2>2, <2>3, LastPage
<1>10. ASSUME ~b.back, Uncapped(b), Additive(lists, b.first, b.last), NEW i \in DOMAIN l,
              i <= b.offset, l[i] \in ToSet(lists[b.first])
       PROVE  l[i] \in shown
  <2>1. i \in Nat \ {0}
    BY <1>2
  <2>2. CASE i > a.offset
    <3>1. page.at = Unfiltered(l, k) /\ a.view.limit + a.view.peek <= Cap
      BY <1>1, <1>5, <1>10 DEF Uncapped
    <3>2. k \in Keys /\ k.offset = a.offset /\ k.limit = a.view.limit + a.view.peek
      BY KeyTypes
    <3>3. k.offset < i /\ i <= k.offset + a.view.limit
      BY <1>4, <1>5, <1>10, <2>1, <2>2, <3>2
    <3>4. i \in FirstOf(a.view.limit, page.at)
      BY <1>2, <1>4, <1>10, <3>1, <3>2, <3>3, FirstRows
    <3>5. QED
      BY <3>4 DEF Rows, shown
  <2>3. CASE i <= a.offset
    <3>1. a.first # 0 /\ b.first = a.first
      BY <1>5, <2>1, <2>3 DEF WalkOK
    <3>2. ~a.back /\ a.last <= page.version
      BY <1>4, <1>5, <1>10
    <3>3. a.first \in 1..Len(lists) /\ a.last \in 1..Len(lists) /\ a.first <= a.last
      BY <3>1, <3>2 DEF WalkOK
    <3>4. /\ Additive(lists, a.first, a.last)
          /\ \E j \in DOMAIN lists[a.last] : j <= i /\ lists[a.last][j] = l[i]
      BY <1>1, <1>5, <1>10, <3>1, <3>2, <3>3, Carried
    <3>5. PICK j \in DOMAIN lists[a.last] : j <= i /\ lists[a.last][j] = l[i]
      BY <3>4
    <3>6. j \in Nat
      <4>1. lists[a.last] \in Seq(Contacts)
        BY <1>2, <3>3 DEF BrevoLists
      <4>2. QED
        BY <3>5, <4>1
    <3>7. j <= a.offset
      BY <1>4, <2>1, <2>3, <3>5, <3>6
    <3>8. Uncapped(a)
      BY <1>5, <1>10 DEF Uncapped
    <3>9. lists[a.last][j] \in ToSet(lists[a.first])
      BY <1>10, <3>1, <3>5
    <3>10. lists[a.last][j] \in a.shown
      BY <3>1, <3>2, <3>4, <3>5, <3>7, <3>8, <3>9 DEF WalkOK
    <3>11. QED
      BY <3>5, <3>10 DEF shown
  <2>4. QED
    BY <1>4, <2>1, <2>2, <2>3
<1>11. b.view # Nothing
  BY <1>5
<1>12. WalkOK(lists, b)
  <2>1. lists[b.last] = l
    BY <1>5
  <2>2. QED
    BY <1>5, <1>7, <1>8, <1>9, <1>10, <1>11, <2>1 DEF WalkOK
<1>13. QED
  BY <1>6, <1>12 DEF b

-----------------------------------------------------------------------------
(* Requests.                                                               *)

\* A page at hand: the walk turns it, or waits for the counts first.
LEMMA FinishOK ==
  ASSUME ListsInv(lists), WalksInv, NEW r \in Readers, NEW a \in WalkState, a.view # Nothing,
         WalkOK(lists, a), NEW page, NEW c, Finish(r, a, page, c),
         \/ page = Nothing /\ a.end = "error"
         \/ page \in Pages /\ a.end = "open" /\ PageOf(lists, WalkKey(a), page),
         UNCHANGED <<lists, gone>>
  PROVE  WalksInv'
<1>1. /\ walk \in [Readers -> WalkState] /\ request \in [Readers -> RequestState]
      /\ \A s \in Readers : WalkOK(lists, walk[s]) /\ RequestOK(lists, request[s], walk[s], gone)
  BY DEF WalksInv
<1>2. page = Nothing <=> a.end = "error"
  BY NothingAssumption
<1>3. SUFFICES ASSUME NEW q, NEW b, request' = [request EXCEPT ![r] = q],
                      walk' = [walk EXCEPT ![r] = b],
                      q \in RequestState, b \in WalkState, WalkOK(lists, b),
                      RequestOK(lists, q, b, gone)
               PROVE  WalksInv'
  <2>1. CASE request' = [request EXCEPT ![r] = Waits(CountsKey, page)] /\ walk' = [walk EXCEPT ![r] = a]
    <3>1. Waits(CountsKey, page) \in RequestState
      BY KeyTypes DEF Waits, RequestState
    <3>2. RequestOK(lists, Waits(CountsKey, page), a, gone)
      BY <1>2, KeyTypes DEF Waits, RequestOK
    <3>3. QED
      BY <1>3, <2>1, <3>1, <3>2
  <2>2. CASE /\ request' = [request EXCEPT ![r] = NoRequest] /\ page = Nothing
             /\ walk' = [walk EXCEPT ![r] = [a EXCEPT !.end = "error"]]
    <3>1. [a EXCEPT !.end = "error"] = a
      BY <1>2, <2>2 DEF WalkState
    <3>2. NoRequest \in RequestState /\ RequestOK(lists, NoRequest, a, gone)
      BY DEF NoRequest, RequestState, RequestOK
    <3>3. QED
      BY <1>3, <2>2, <3>1, <3>2
  <2>3. CASE /\ request' = [request EXCEPT ![r] = NoRequest] /\ page # Nothing
             /\ walk' = [walk EXCEPT ![r] = Turned(a, page)]
    <3>1. Turned(a, page) \in WalkState /\ WalkOK(lists, Turned(a, page))
      BY <2>3, TurnedOK
    <3>2. NoRequest \in RequestState /\ RequestOK(lists, NoRequest, Turned(a, page), gone)
      BY DEF NoRequest, RequestState, RequestOK
    <3>3. QED
      BY <1>3, <2>3, <3>1, <3>2
  <2>4. QED
    BY <2>1, <2>2, <2>3 DEF Finish
<1>4. /\ walk' \in [Readers -> WalkState] /\ request' \in [Readers -> RequestState]
      /\ walk'[r] = b /\ request'[r] = q
      /\ \A s \in Readers : s # r => walk'[s] = walk[s] /\ request'[s] = request[s]
  BY <1>1, <1>3
<1>5. QED
  BY <1>1, <1>3, <1>4 DEF WalksInv

\* A walk asks for its next page.
LEMMA AskOK ==
  ASSUME ListsInv(lists), PagesInv, WalksInv, NEW r \in Readers, NEW a \in WalkState,
         a.view # Nothing, a.end = "open", WalkOK(lists, a), Ask(r, a)
  PROVE  WalksInv'
<1> DEFINE k == WalkKey(a)
<1>1. k = Key(a.view.cat, a.view.limit + a.view.peek, a.offset)
  BY DEF WalkKey
<1>2. CASE k \in DOMAIN cache /\ Finish(r, a, cache[k], cache)
  <2>1. PageOf(lists, k, cache[k]) /\ cache[k] \in Pages
    BY <1>2 DEF PagesInv, PageOf
  <2>2. UNCHANGED <<lists, gone>>
    BY DEF Ask
  <2>3. QED
    BY <1>2, <2>1, <2>2, FinishOK
<1>3. CASE request' = [request EXCEPT ![r] = Waits(k, Nothing)] /\ walk' = [walk EXCEPT ![r] = a]
  <2>1. Waits(k, Nothing) \in RequestState
    BY KeyTypes DEF Waits, RequestState
  <2>2. RequestOK(lists, Waits(k, Nothing), a, gone)
    BY KeyTypes DEF Waits, RequestOK
  <2>3. UNCHANGED <<lists, gone>>
    BY DEF Ask
  <2> HIDE DEF k
  <2>4. QED
    BY <1>3, <2>1, <2>2, <2>3 DEF WalksInv
<1>4. QED
  BY <1>1, <1>2, <1>3 DEF Ask

LEMMA OpenOK ==
  ASSUME ListsInv(lists), PagesInv, WalksInv, NEW r \in Readers, NEW v \in Views, Open(r, v)
  PROVE  WalksInv'
<1> DEFINE a == [NoWalk EXCEPT !.view = v]
<1>1. a \in WalkState /\ a.view # Nothing /\ a.end = "open" /\ WalkOK(lists, a)
  BY NothingAssumption DEF NoWalk, WalkState, WalkOK
<1>2. Ask(r, a)
  BY DEF Open
<1> HIDE DEF a
<1>3. QED
  BY <1>1, <1>2, AskOK

LEMMA FollowNextOK ==
  ASSUME ListsInv(lists), PagesInv, WalksInv, NEW r \in Readers, FollowNext(r)
  PROVE  WalksInv'
<1>1. walk[r] \in WalkState /\ WalkOK(lists, walk[r])
  BY DEF WalksInv
<1>2. walk[r].view # Nothing /\ walk[r].end = "open" /\ Ask(r, walk[r])
  BY DEF FollowNext
<1>3. QED
  BY <1>1, <1>2, AskOK

\* What Brevo answers is a page of the key, and holds nobody it no longer has.
LEMMA FetchOK ==
  ASSUME ListsInv(lists), WalksInv, gone \cap ToSet(List) = {}, NEW r \in Readers, Fetch(r)
  PROVE  WalksInv'
<1> DEFINE q == request[r]
           page == Page(Fetched(q.key), Version, FALSE)
<1>1. q \in RequestState /\ q.pc = "fetch" /\ RequestOK(lists, q, walk[r], gone) /\ q.key \in Keys
  BY DEF WalksInv, RequestOK, Fetch
<1>2. Version \in Nat \ {0} /\ List = lists[Version] /\ Version = Len(lists) /\ List \in Seq(Contacts)
  BY DEF ListsInv, BrevoLists, List, Version
<1>3. page.at = Fetched(q.key) /\ page.version = Version /\ page.raced = FALSE
  BY DEF Page
<1>4. Fetched(q.key) \subseteq DOMAIN List /\ DOMAIN List \subseteq Nat \ {0}
  BY <1>2 DEF Fetched
<1>5. page \in Pages
  BY <1>2, <1>4 DEF Page, Pages
<1>6. Wanted(q.key.cat) = {} => Fetched(q.key) = Unfiltered(List, q.key)
  BY DEF Fetched, Unfiltered, Matches
<1> HIDE DEF page
<1>7. PageOf(lists, q.key, page)
  <2>1. page.version <= Len(lists) /\ lists[page.version] = List
    BY <1>2, <1>3
  <2>2. QED
    BY <1>3, <1>4, <1>5, <1>6, <2>1 DEF PageOf
<1>8. Clean(lists, page, gone)
  <2>1. {lists[page.version][i] : i \in page.at} \subseteq ToSet(List)
    BY <1>2, <1>3, <1>4 DEF ToSet
  <2>2. QED
    BY <2>1 DEF Clean
<1>9. /\ request' = [request EXCEPT ![r] = [q EXCEPT !.pc = "loaded", !.got = page]]
      /\ UNCHANGED <<lists, gone, walk>>
  BY DEF Fetch, page
<1>10. [q EXCEPT !.pc = "loaded", !.got = page] \in RequestState
  BY <1>1, <1>5 DEF RequestState
<1>11. RequestOK(lists, [q EXCEPT !.pc = "loaded", !.got = page], walk[r], gone)
  BY <1>1, <1>7, <1>8 DEF RequestOK, RequestState
<1>12. QED
  BY <1>9, <1>10, <1>11 DEF WalksInv

\* Brevo's answer arrives, or does not.
LEMMA StoreOK ==
  ASSUME ListsInv(lists), PagesInv, WalksInv, NEW r \in Readers, Store(r) PROVE PagesInv' /\ WalksInv'
<1> DEFINE q == request[r]
           a == walk[r]
<1>1. /\ q \in RequestState /\ q.pc = "loaded" /\ RequestOK(lists, q, a, gone)
      /\ a \in WalkState /\ WalkOK(lists, a) /\ UNCHANGED <<lists, gone>>
      /\ cache' = Caching(q.key, q.got)
  BY DEF WalksInv, Store
<1>2. /\ a.view # Nothing /\ a.end \in {"open", "error"} /\ q.key \in Keys
      /\ PageOf(lists, q.key, q.got) /\ Clean(lists, q.got, gone)
  BY <1>1 DEF RequestOK, WalkState
<1>3. PagesInv'
  <2>1. /\ DOMAIN cache' = DOMAIN cache \cup {q.key}
        /\ \A k \in DOMAIN cache' : cache'[k] = IF k = q.key THEN q.got ELSE cache[k]
    BY <1>1 DEF Caching
  <2>2. ASSUME NEW k \in DOMAIN cache'
        PROVE  k \in Keys /\ PageOf(lists, k, cache'[k]) /\ Clean(lists, cache'[k], gone)
    <3>1. CASE k = q.key
      BY <1>2, <2>1, <3>1
    <3>2. CASE k # q.key
      BY <2>1, <2>2, <3>2 DEF PagesInv
    <3>3. QED
      BY <3>1, <3>2
  <2>3. QED
    BY <1>1, <2>2 DEF PagesInv
<1>4. WalksInv'
  <2>1. CASE ForPage(r)
    <3>1. q.answer = Nothing /\ a.end = "open" /\ Finish(r, a, q.got, cache')
      BY <2>1 DEF ForPage, Store
    <3>2. q.key = WalkKey(a) /\ q.got \in Pages
      BY <1>1, <1>2, <3>1 DEF RequestOK, PageOf
    <3>3. QED
      BY <1>1, <1>2, <3>1, <3>2, FinishOK
  <2>2. CASE ~ForPage(r)
    <3>1. (q.answer # Nothing \/ a.end = "error") /\ Finish(r, a, q.answer, cache')
      BY <1>2, <2>2 DEF ForPage, Store
    <3>2. CASE q.answer = Nothing
      BY <1>1, <1>2, <3>1, <3>2, FinishOK
    <3>3. CASE q.answer # Nothing
      <4>1. a.end = "open" /\ PageOf(lists, WalkKey(a), q.answer) /\ q.answer \in Pages
        BY <1>1, <3>3 DEF RequestOK, PageOf
      <4>2. QED
        BY <1>1, <1>2, <3>1, <4>1, FinishOK
    <3>4. QED
      BY <3>2, <3>3
  <2>3. QED
    BY <2>1, <2>2
<1>5. QED
  BY <1>3, <1>4

LEMMA FetchFailsOK ==
  ASSUME ListsInv(lists), WalksInv, NEW r \in Readers, FetchFails(r) PROVE WalksInv'
<1> DEFINE q == request[r]
           a == walk[r]
<1>1. /\ q \in RequestState /\ q.pc # "idle" /\ RequestOK(lists, q, a, gone)
      /\ a \in WalkState /\ WalkOK(lists, a) /\ UNCHANGED <<lists, gone>>
  BY DEF WalksInv, FetchFails
<1>2. a.view # Nothing /\ a.end \in {"open", "error"}
  BY <1>1 DEF RequestOK, WalkState
<1>3. CASE ForPage(r)
  <2> DEFINE b == [a EXCEPT !.end = "error"]
  <2>1. Finish(r, b, Nothing, cache)
    BY <1>3 DEF FetchFails
  <2>2. b \in WalkState /\ b.view # Nothing /\ b.end = "error"
    BY <1>1, <1>2 DEF WalkState
  <2>3. WalkOK(lists, b)
    BY <1>1, <2>2 DEF WalkOK, WalkState, Uncapped
  <2> HIDE DEF b
  <2>4. QED
    BY <1>1, <2>1, <2>2, <2>3, FinishOK
<1>4. CASE ~ForPage(r)
  <2> DEFINE b == IF q.answer = Nothing THEN a ELSE Turned(a, q.answer)
  <2>1. request' = [request EXCEPT ![r] = NoRequest] /\ walk' = [walk EXCEPT ![r] = b]
    BY <1>4 DEF FetchFails
  <2>2. b \in WalkState /\ WalkOK(lists, b)
    <3>1. CASE q.answer = Nothing
      BY <1>1, <3>1
    <3>2. CASE q.answer # Nothing
      <4>1. a.end = "open" /\ PageOf(lists, WalkKey(a), q.answer)
        BY <1>1, <3>2 DEF RequestOK
      <4>2. Turned(a, q.answer) \in WalkState /\ WalkOK(lists, Turned(a, q.answer))
        BY <1>1, <1>2, <4>1, TurnedOK
      <4>3. QED
        BY <3>2, <4>2
    <3>3. QED
      BY <3>1, <3>2
  <2>3. NoRequest \in RequestState /\ RequestOK(lists, NoRequest, b, gone)
    BY DEF NoRequest, RequestState, RequestOK
  <2> HIDE DEF b
  <2>4. QED
    BY <1>1, <2>1, <2>2, <2>3 DEF WalksInv
<1>5. QED
  BY <1>3, <1>4

-----------------------------------------------------------------------------
(* Writes.                                                                 *)

LEMMA WriterOK ==
  ASSUME WriterInv, NEW w \in Writers,
         \/ \E c \in Contacts : StartWrite(w, "add", {c})
         \/ \E S \in SUBSET Contacts \ {{}} : StartWrite(w, "remove", S)
         \/ Apply(w) \/ WriteRefused(w) \/ Confirm(w)
  PROVE  WriterInv'
<1>1. SUFFICES ASSUME NEW x, writer' = [writer EXCEPT ![w] = x], x \in WriterState,
                      x.pc # "idle" => x.contact \in Contacts
               PROVE  WriterInv'
  <2>1. writer[w] \in WriterState /\ (writer[w].pc # "idle" => writer[w].contact \in Contacts)
    BY DEF WriterInv
  <2>2. ASSUME NEW kind \in {"add", "remove"}, NEW S \in SUBSET Contacts, StartWrite(w, kind, S)
        PROVE  WriterInv'
    <3>1. PICK c \in S : writer' = [writer EXCEPT ![w] = Sending(kind, S, c)]
      BY <2>2 DEF StartWrite
    <3>2. Sending(kind, S, c) \in WriterState /\ Sending(kind, S, c).contact \in Contacts
      BY <2>2, <3>1 DEF Sending, WriterState
    <3>3. QED
      BY <1>1, <3>1, <3>2
  <2>3. CASE Apply(w)
    <3>1. /\ writer' = [writer EXCEPT ![w] = [writer[w] EXCEPT !.pc = "applied"]]
          /\ writer[w].pc = "sent"
      BY <2>3 DEF Apply
    <3>2. /\ [writer[w] EXCEPT !.pc = "applied"] \in WriterState
          /\ [writer[w] EXCEPT !.pc = "applied"].contact \in Contacts
      BY <2>1, <3>1 DEF WriterState
    <3>3. QED
      BY <1>1, <3>1, <3>2
  <2>4. CASE writer[w].pc \in {"sent", "applied"} /\ Proceed(w)
    <3>1. CASE writer' = [writer EXCEPT ![w] = NoWrite]
      <4>1. NoWrite \in WriterState /\ NoWrite.pc = "idle"
        BY DEF NoWrite, WriterState
      <4>2. QED
        BY <1>1, <3>1, <4>1
    <3>2. CASE \E c \in writer[w].todo :
                 writer' = [writer EXCEPT ![w] = Sending(writer[w].kind, writer[w].todo, c)]
      <4>1. PICK c \in writer[w].todo :
                 writer' = [writer EXCEPT ![w] = Sending(writer[w].kind, writer[w].todo, c)]
        BY <3>2
      <4>2. /\ Sending(writer[w].kind, writer[w].todo, c) \in WriterState
            /\ Sending(writer[w].kind, writer[w].todo, c).contact \in Contacts
        BY <2>1, <4>1 DEF Sending, WriterState
      <4>3. QED
        BY <1>1, <4>1, <4>2
    <3>3. QED
      BY <2>4, <3>1, <3>2 DEF Proceed
  <2>5. QED
    BY <2>2, <2>3, <2>4 DEF WriteRefused, Confirm
<1>2. QED
  BY <1>1 DEF WriterInv

\* More versions change no earlier page, and no removal answered before.
LEMMA VersionsKeep ==
  ASSUME ListsInv(lists), ListsInv(lists'), Len(lists) <= Len(lists'),
         \A v \in 1..Len(lists) : lists'[v] = lists[v],
         gone' = gone \ ToSet(List'), PagesInv, WalksInv, UNCHANGED <<cache, walk, request>>
  PROVE  /\ PagesInv' /\ WalksInv' /\ gone' \cap ToSet(List') = {}
<1> DEFINE n == Len(lists)
           m == Len(lists')
<1>0. n \in Nat /\ m \in Nat /\ n <= m
  BY DEF ListsInv
<1>1. ASSUME NEW k, NEW page, PageOf(lists, k, page) PROVE PageOf(lists', k, page)
  <2>1. page.version \in 1..n /\ page.version <= m
    BY <1>0, <1>1 DEF PageOf, Pages
  <2>2. lists'[page.version] = lists[page.version]
    BY <2>1
  <2>3. QED
    BY <1>1, <2>1, <2>2 DEF PageOf
<1>2. ASSUME NEW k, NEW page, PageOf(lists, k, page), Clean(lists, page, gone)
      PROVE  Clean(lists', page, gone')
  <2>1. page.version \in 1..n
    BY <1>0, <1>2 DEF PageOf, Pages
  <2>2. lists'[page.version] = lists[page.version] /\ gone' \subseteq gone
    BY <2>1
  <2>3. QED
    BY <1>2, <2>2 DEF Clean
<1>3. ASSUME NEW f \in 1..n, NEW p \in 1..n, Additive(lists', f, p) PROVE Additive(lists, f, p)
  <2>1. \A u \in f..(p - 1) : u \in 1..n /\ u + 1 \in 1..n
    BY <1>0
  <2>2. QED
    BY <1>3, <2>1 DEF Additive
<1>4. ASSUME NEW a \in WalkState, WalkOK(lists, a) PROVE WalkOK(lists', a)
  <2>1. CASE a.first = 0
    BY <1>4, <2>1 DEF WalkOK
  <2>2. CASE a.first # 0
    <3>1. /\ a.first \in 1..n /\ a.last \in 1..n /\ a.first \in 1..m /\ a.last \in 1..m
      BY <1>0, <1>4, <2>2 DEF WalkOK
    <3>2. lists'[a.first] = lists[a.first] /\ lists'[a.last] = lists[a.last]
      BY <3>1
    <3>3. Additive(lists', a.first, a.last) => Additive(lists, a.first, a.last)
      BY <1>3, <3>1
    <3>4. QED
      BY <1>4, <2>2, <3>1, <3>2, <3>3 DEF WalkOK
  <2>3. QED
    BY <2>1, <2>2
<1>5. ASSUME NEW q, NEW a, RequestOK(lists, q, a, gone) PROVE RequestOK(lists', q, a, gone')
  BY <1>1, <1>2, <1>5 DEF RequestOK
<1>6. PagesInv'
  BY <1>1, <1>2 DEF PagesInv
<1>7. WalksInv'
  BY <1>4, <1>5 DEF WalksInv
<1>8. QED
  BY <1>6, <1>7

\* A confirmed write: no page is left, and every answer on its way has been raced.
LEMMA ConfirmOK ==
  ASSUME ListsInv(lists), WalksInv, gone \cap ToSet(List) = {}, NEW w \in Writers, Confirm(w)
  PROVE  PagesInv' /\ WalksInv' /\ gone' \cap ToSet(List') = {}
<1>1. UNCHANGED <<lists, walk>> /\ cache' = <<>>
  BY DEF Confirm, Flushed
<1>2. DOMAIN cache' = {}
  BY <1>1
<1>3. gone' \cap ToSet(List') = {}
  BY <1>1 DEF Confirm, List, Version
<1>4. ASSUME NEW r \in Readers
      PROVE  request'[r] \in RequestState /\ RequestOK(lists, request'[r], walk[r], gone')
  <2>1. request[r] \in RequestState /\ RequestOK(lists, request[r], walk[r], gone)
    BY DEF WalksInv
  <2>2. CASE request[r].pc = "loaded"
    <3> DEFINE q == [request[r] EXCEPT !.got.raced = TRUE]
    <3>1. request'[r] = q
      BY <2>2 DEF Confirm
    <3>2. PageOf(lists, request[r].key, request[r].got) /\ request[r].got \in Pages
      BY <2>1, <2>2 DEF RequestOK, PageOf
    <3>3. /\ q.got \in Pages /\ q.got.raced = TRUE /\ q.got.at = request[r].got.at
          /\ q.got.version = request[r].got.version
      BY <2>1, <3>2 DEF RequestState, Pages
    <3>4. /\ q \in RequestState /\ q.pc = request[r].pc /\ q.key = request[r].key
          /\ q.answer = request[r].answer
      BY <2>1, <3>2, <3>3 DEF RequestState
    <3> HIDE DEF q
    <3>5. PageOf(lists, q.key, q.got) /\ Clean(lists, q.got, gone')
      BY <3>2, <3>3, <3>4 DEF PageOf, Clean
    <3>6. RequestOK(lists, q, walk[r], gone')
      BY <2>1, <3>4, <3>5 DEF RequestOK
    <3>7. QED
      BY <3>1, <3>4, <3>6
  <2>3. CASE request[r].pc # "loaded"
    <3>1. request'[r] = request[r]
      BY <2>3 DEF Confirm
    <3>2. QED
      BY <2>1, <2>3, <3>1 DEF RequestOK
  <2>4. QED
    BY <2>2, <2>3
<1>5. WalksInv'
  <2>1. request' \in [Readers -> RequestState]
    <3>1. request' = [r \in Readers |-> request'[r]]
      BY DEF Confirm
    <3>2. QED
      BY <1>4, <3>1
  <2>2. QED
    BY <1>1, <1>4, <2>1 DEF WalksInv
<1>6. QED
  BY <1>2, <1>3, <1>5 DEF PagesInv

-----------------------------------------------------------------------------
LEMMA SuppressionInvInit == SuppressionInit => SuppressionInv
<1> SUFFICES ASSUME SuppressionInit PROVE SuppressionInv
  OBVIOUS
<1>1. PICK l \in InitialLists : lists = <<l>>
  BY DEF SuppressionInit
<1>2. l \in BrevoLists
  BY <1>1, SuppressionAssumption DEF BrevoLists
<1>3. lists \in Seq(BrevoLists) /\ Len(lists) = 1 /\ lists[1] = l /\ l \in Seq(Contacts)
  BY <1>1, <1>2 DEF BrevoLists
<1>4. Shifted(lists, 1, 1)
  BY <1>3 DEF Shifted
<1>5. ListsInv(lists)
  <2>1. \A v \in 1..Len(lists) : v = 1
    BY <1>3
  <2>2. QED
    BY <1>3, <1>4, <2>1 DEF ListsInv
<1>6. PagesInv /\ gone \cap ToSet(List) = {}
  BY DEF SuppressionInit, PagesInv
<1>7. WalksInv
  <2>1. NoWalk \in WalkState /\ WalkOK(lists, NoWalk)
    BY DEF NoWalk, WalkState, WalkOK
  <2>2. NoRequest \in RequestState /\ RequestOK(lists, NoRequest, NoWalk, gone)
    BY DEF NoRequest, RequestState, RequestOK
  <2>3. QED
    BY <2>1, <2>2 DEF SuppressionInit, WalksInv
<1>8. WriterInv
  BY DEF SuppressionInit, WriterInv, NoWrite, WriterState
<1>9. QED
  BY <1>5, <1>6, <1>7, <1>8 DEF SuppressionInv

LEMMA SuppressionInvStep == SuppressionInv /\ [SuppressionNext]_suppressionVars => SuppressionInv'
<1> SUFFICES ASSUME SuppressionInv, [SuppressionNext]_suppressionVars PROVE SuppressionInv'
  OBVIOUS
<1>0. ListsInv(lists) /\ gone \cap ToSet(List) = {} /\ PagesInv /\ WalksInv /\ WriterInv
  BY DEF SuppressionInv
<1>1. ASSUME UNCHANGED <<lists, gone, writer>>, PagesInv', WalksInv' PROVE SuppressionInv'
  BY <1>0, <1>1 DEF SuppressionInv, WriterInv, List, Version
<1>2. ASSUME UNCHANGED <<lists, gone, writer, cache>>, WalksInv' PROVE SuppressionInv'
  BY <1>0, <1>1, <1>2 DEF PagesInv
<1>3. ASSUME NEW r \in Readers, NEW v \in Views, Open(r, v) PROVE SuppressionInv'
  BY <1>0, <1>2, <1>3, OpenOK DEF Open, Ask
<1>4. ASSUME NEW r \in Readers, FollowNext(r) PROVE SuppressionInv'
  BY <1>0, <1>2, <1>4, FollowNextOK DEF FollowNext, Ask
<1>5. ASSUME NEW r \in Readers, Fetch(r) PROVE SuppressionInv'
  BY <1>0, <1>2, <1>5, FetchOK DEF Fetch
<1>6. ASSUME NEW r \in Readers, Store(r) PROVE SuppressionInv'
  BY <1>0, <1>1, <1>6, StoreOK DEF Store
<1>7. ASSUME NEW r \in Readers, FetchFails(r) PROVE SuppressionInv'
  BY <1>0, <1>2, <1>7, FetchFailsOK DEF FetchFails
<1>8. ASSUME NEW k \in DOMAIN cache, PageExpires(k) PROVE SuppressionInv'
  <2>1. /\ DOMAIN cache' = DOMAIN cache \ {k} /\ \A j \in DOMAIN cache' : cache'[j] = cache[j]
        /\ UNCHANGED <<lists, gone, walk, request, writer>>
    BY <1>8 DEF PageExpires
  <2>2. PagesInv' /\ WalksInv'
    BY <1>0, <2>1 DEF PagesInv, WalksInv
  <2>3. QED
    BY <1>1, <2>1, <2>2
<1>9. CASE CountsExpire \/ UNCHANGED suppressionVars
  <2>1. UNCHANGED <<lists, gone, cache, walk, request, writer>>
    BY <1>9 DEF CountsExpire, suppressionVars
  <2>2. WalksInv'
    BY <1>0, <2>1 DEF WalksInv
  <2>3. QED
    BY <1>2, <2>1, <2>2
<1>10. ASSUME NEW w \in Writers,
              \/ \E c \in Contacts : StartWrite(w, "add", {c})
              \/ \E S \in SUBSET Contacts \ {{}} : StartWrite(w, "remove", S)
              \/ WriteRefused(w)
       PROVE  SuppressionInv'
  <2>1. WriterInv'
    BY <1>0, <1>10, WriterOK
  <2>2. UNCHANGED <<lists, gone, cache, walk, request>>
    BY <1>10 DEF StartWrite, WriteRefused
  <2>3. QED
    BY <1>0, <2>1, <2>2 DEF SuppressionInv, PagesInv, WalksInv, List, Version
<1>11. ASSUME NEW w \in Writers, Apply(w) PROVE SuppressionInv'
  <2>1. WriterInv'
    BY <1>0, <1>11, WriterOK
  <2>2. writer[w].contact \in Contacts
    BY <1>0, <1>11 DEF WriterInv, Apply
  <2>3. /\ Becomes(Effect(writer[w].kind, writer[w].contact)) /\ gone' = gone \ ToSet(List')
        /\ UNCHANGED <<cache, walk, request>>
    BY <1>11 DEF Apply
  <2>4. ListsInv(lists') /\ Len(lists) <= Len(lists') /\ \A v \in 1..Len(lists) : lists'[v] = lists[v]
    BY <1>0, <2>2, <2>3, ListsGrow
  <2>5. PagesInv' /\ WalksInv' /\ gone' \cap ToSet(List') = {}
    BY <1>0, <2>3, <2>4, VersionsKeep
  <2>6. QED
    BY <2>1, <2>4, <2>5 DEF SuppressionInv
<1>12. ASSUME NEW w \in Writers, Confirm(w) PROVE SuppressionInv'
  <2>1. WriterInv'
    BY <1>0, <1>12, WriterOK
  <2>2. lists' = lists
    BY <1>12 DEF Confirm
  <2>3. PagesInv' /\ WalksInv' /\ gone' \cap ToSet(List') = {}
    BY <1>0, <1>12, ConfirmOK
  <2>4. QED
    BY <1>0, <2>1, <2>2, <2>3 DEF SuppressionInv
<1>13. ASSUME NEW kind \in {"add", "remove"}, NEW c \in Contacts, Outside(kind, c) PROVE SuppressionInv'
  <2>1. /\ Becomes(Effect(kind, c)) /\ gone' = gone \ ToSet(List')
        /\ UNCHANGED <<cache, walk, request, writer>>
    BY <1>13 DEF Outside
  <2>2. ListsInv(lists') /\ Len(lists) <= Len(lists') /\ \A v \in 1..Len(lists) : lists'[v] = lists[v]
    BY <1>0, <2>1, ListsGrow
  <2>3. PagesInv' /\ WalksInv' /\ gone' \cap ToSet(List') = {}
    BY <1>0, <2>1, <2>2, VersionsKeep
  <2>4. QED
    BY <1>0, <2>1, <2>2, <2>3 DEF SuppressionInv, WriterInv
<1>14. QED
  BY <1>3, <1>4, <1>5, <1>6, <1>7, <1>8, <1>9, <1>10, <1>11, <1>12, <1>13 DEF SuppressionNext

LEMMA SuppressionInvHolds == SuppressionSpec => []SuppressionInv
BY SuppressionInvInit, SuppressionInvStep, PTL DEF SuppressionSpec

\* A removed contact is in no cached page but one whose answer the flush missed.
THEOREM RemovedIsGoneHolds == SuppressionSpec => []RemovedIsGone
<1>1. SuppressionInv => RemovedIsGone
  BY DEF SuppressionInv, PagesInv, Clean, RemovedIsGone, Rows
<1>2. QED
  BY <1>1, SuppressionInvHolds, PTL

\* A walk through an unfiltered view shows everybody who was there and stayed.
THEOREM WalkIsCompleteHolds == SuppressionSpec => []WalkIsComplete
<1>1. ASSUME SuppressionInv, NEW r \in Readers, walk[r].view # Nothing, Undisturbed(walk[r]),
             Wanted(walk[r].view.cat) = {}, walk[r].view.limit + walk[r].view.peek <= Cap
      PROVE  Complete(walk[r])
  <2> DEFINE a == walk[r]
  <2>1. WalkOK(lists, a) /\ a \in WalkState /\ ListsInv(lists)
    BY <1>1 DEF SuppressionInv, WalksInv
  <2>2. a.end = "shown" /\ ~a.back /\ Additive(lists, a.first, a.last) /\ Uncapped(a)
    BY <1>1 DEF Undisturbed, Additive, Uncapped
  <2>3. a.first # 0
    BY <2>1, <2>2 DEF WalkOK
  <2>4. /\ a.first \in 1..Len(lists) /\ a.last \in 1..Len(lists) /\ a.first <= a.last
        /\ Len(lists[a.last]) <= a.offset
        /\ \A i \in DOMAIN lists[a.last] :
             i <= a.offset /\ lists[a.last][i] \in ToSet(lists[a.first]) => lists[a.last][i] \in a.shown
    BY <2>1, <2>2, <2>3 DEF WalkOK
  <2>5. lists[a.last] \in Seq(Contacts) /\ a.offset \in Nat
    BY <2>1, <2>4 DEF ListsInv, BrevoLists, WalkState
  <2>6. Shifted(lists, a.first, a.last)
    BY <2>1, <2>2, <2>4 DEF ListsInv
  <2>7. ASSUME NEW c \in ToSet(lists[a.first]) PROVE c \in a.shown
    <3>1. PICK p \in DOMAIN lists[a.first] : lists[a.first][p] = c
      BY <2>7 DEF ToSet
    <3>2. PICK i \in DOMAIN lists[a.last] : lists[a.last][i] = c
      BY <2>6, <3>1 DEF Shifted
    <3>3. i <= a.offset
      BY <2>4, <2>5, <3>2
    <3>4. QED
      BY <2>4, <2>7, <3>2, <3>3
  <2>8. QED
    BY <2>7 DEF Complete
<1>2. SuppressionInv => WalkIsComplete
  BY <1>1 DEF WalkIsComplete
<1>3. QED
  BY <1>2, SuppressionInvHolds, PTL

=============================================================================

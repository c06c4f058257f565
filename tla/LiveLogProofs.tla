---------------------------- MODULE LiveLogProofs ----------------------------
(***************************************************************************)
(* Theorems about LiveLogNative, for every set of messages and whether or  *)
(* not the logger can be stopped and calls may fail.                       *)
(***************************************************************************)
EXTENDS LiveLogNative, SequenceTheorems, FiniteSetTheorems, TLAPS

-----------------------------------------------------------------------------
(* The logger thread, the lock and the control thread.                       *)

LoggerPcs == {"none", "test", "lock", "wait", "drain", "exited"}

\* The logger keeps the lock exactly while it drains.
LockOfLogger == lpc \in LoggerPcs /\ sLock = IF lpc = "drain" THEN Logger ELSE Free

\* The list is there from the start until the stop has joined and cleaned.
ListThere ==
    /\ kpc \in {"created", "stop", "join", "clean"} \/ sIsAlive => exists
    /\ kpc = "idle" /\ exists => sIsAlive
    /\ kpc = "clean" \/ ~exists => lpc \in {"none", "exited"}
    /\ ~exists => sLogEntryList = << >>
    /\ kpc \in {"join", "clean", "created"} => ~sIsAlive
    /\ kpc \in {"idle", "created", "stop", "join", "clean"}

LoggerInv == LockOfLogger /\ ListThere /\ NoLostWakeup

LEMMA InitLogger == Init => LoggerInv
  BY DEF Init, LoggerInv, LockOfLogger, LoggerPcs, ListThere, NoLostWakeup

LEMMA NextLogger == LoggerInv /\ [Next]_vars => LoggerInv'
<1>. SUFFICES ASSUME LoggerInv, [Next]_vars PROVE LoggerInv'
  OBVIOUS
<1>. USE ConstantsAssumption
     DEF LoggerInv, LockOfLogger, LoggerPcs, ListThere, NoLostWakeup, ctlVars, entryVars
<1>1. ASSUME NEW l \in Logs, liveLog_Log(l) PROVE LoggerInv'
  BY <1>1 DEF liveLog_Log
<1>2. ASSUME NEW l \in Logs, add_to_logList(l) PROVE LoggerInv'
  BY <1>2 DEF add_to_logList, Signal
<1>3. CASE TestAlive  BY <1>3 DEF TestAlive
<1>4. CASE LockAndLook  BY <1>4 DEF LockAndLook
<1>5. CASE callLiveLog  BY <1>5 DEF callLiveLog
<1>6. CASE Drained  BY <1>6 DEF Drained, Unlock
<1>7. CASE SpuriousWakeup  BY <1>7 DEF SpuriousWakeup
<1>8. CASE live_log_start  BY <1>8 DEF live_log_start
<1>9. CASE SetAlive  BY <1>9 DEF SetAlive
<1>10. CASE live_log_stop  BY <1>10 DEF live_log_stop
<1>11. CASE StopSignal  BY <1>11 DEF StopSignal, Signal
<1>12. CASE StopJoin  BY <1>12 DEF StopJoin, ThreadEnded
<1>13. CASE StopClean  BY <1>13 DEF StopClean
<1>14. CASE UNCHANGED vars  BY <1>14 DEF vars
<1>. QED
  BY <1>1, <1>2, <1>3, <1>4, <1>5, <1>6, <1>7, <1>8, <1>9, <1>10, <1>11, <1>12,
     <1>13, <1>14 DEF Next, LoggerStep, CtlStep

\* The logger thread never sleeps on a list that has entries.
THEOREM NoLostWakeupCorrect == Spec => []NoLostWakeup
<1>1. LoggerInv => NoLostWakeup  BY DEF LoggerInv
<1>. QED  BY <1>1, InitLogger, NextLogger, PTL DEF Spec

\* live_log_stop destroys the mutex and the list when the logger thread has
\* ended and does not hold the lock.
THEOREM JoinedBeforeDestroyCorrect == Spec => []JoinedBeforeDestroy
<1>1. LoggerInv => JoinedBeforeDestroy
  BY DEF LoggerInv, ListThere, LockOfLogger, JoinedBeforeDestroy
<1>. QED  BY <1>1, InitLogger, NextLogger, PTL DEF Spec

-----------------------------------------------------------------------------
(* The entries.  What Java was given and what the list still holds make one  *)
(* sequence, `logged', which a push extends, the logger leaves as it is and  *)
(* only live_log_stop cuts short; every entry in it has been added.          *)

logged == java \o sLogEntryList

EntriesTypeOK ==
    /\ java \in Seq(Logs) /\ sLogEntryList \in Seq(Logs)
    /\ apc \in [Logs -> {"idle", "adding", "added", "refused"}]

LoggedAdded == \A i \in 1 .. Len(logged) : apc[logged[i]] = "added"

EntryInv == EntriesTypeOK /\ LoggedAdded /\ DeliveredOnce

\* What an entry added at the end or a list thrown away does to `logged'.
LEMMA PushLogged ==
  ASSUME NEW S, NEW s \in Seq(S), NEW t \in Seq(S), NEW x \in S
  PROVE  /\ s \o Append(t, x) \in Seq(S)
         /\ Len(s \o Append(t, x)) = Len(s \o t) + 1
         /\ \A i \in 1 .. Len(s \o t) : (s \o Append(t, x))[i] = (s \o t)[i]
         /\ (s \o Append(t, x))[Len(s \o t) + 1] = x
<1>1. /\ Append(t, x) \in Seq(S) /\ Len(Append(t, x)) = Len(t) + 1
      /\ \A i \in 1 .. Len(t) : Append(t, x)[i] = t[i]
      /\ Append(t, x)[Len(t) + 1] = x
  OBVIOUS
<1>. QED  BY <1>1, ConcatProperties, LenProperties

LEMMA MoveLogged ==
  ASSUME NEW S, NEW s \in Seq(S), NEW t \in Seq(S), t # << >>
  PROVE  /\ Append(s, Head(t)) \in Seq(S) /\ Tail(t) \in Seq(S)
         /\ Append(s, Head(t)) \o Tail(t) = s \o t
<1>1. /\ Head(t) \in S /\ Head(t) = t[1] /\ Tail(t) \in Seq(S)
      /\ Len(t) \in Nat \ {0} /\ Len(Tail(t)) = Len(t) - 1
      /\ \A i \in 1 .. Len(t) - 1 : Tail(t)[i] = t[i + 1]
  BY HeadTailProperties, EmptySeq
<1>2. /\ Append(s, Head(t)) \in Seq(S) /\ Len(Append(s, Head(t))) = Len(s) + 1
      /\ \A i \in 1 .. Len(s) : Append(s, Head(t))[i] = s[i]
      /\ Append(s, Head(t))[Len(s) + 1] = t[1]
  BY <1>1
<1>3. Len(Append(s, Head(t)) \o Tail(t)) = Len(s \o t)
  BY <1>1, <1>2, ConcatProperties, LenProperties
<1>4. \A i \in 1 .. Len(s \o t) : (Append(s, Head(t)) \o Tail(t))[i] = (s \o t)[i]
  BY <1>1, <1>2, ConcatProperties, LenProperties
<1>5. Append(s, Head(t)) \o Tail(t) \in Seq(S) /\ s \o t \in Seq(S)
  BY <1>1, <1>2, ConcatProperties
<1>. QED  BY <1>1, <1>2, <1>3, <1>4, <1>5, SeqEqual

LEMMA InitEntries == Init => EntryInv
<1>. SUFFICES ASSUME Init PROVE EntryInv
  OBVIOUS
<1>1. EntriesTypeOK  BY DEF Init, EntriesTypeOK
<1>2. Len(logged) = 0
  BY <1>1, ConcatProperties, EmptySeq DEF EntriesTypeOK, logged, Init
<1>. QED  BY <1>1, <1>2 DEF EntryInv, LoggedAdded, DeliveredOnce, logged

LEMMA SameEntries ==
  ASSUME EntryInv, EntriesTypeOK', logged' = logged,
         \A l \in Logs : apc[l] = "added" => apc'[l] = "added"
  PROVE  EntryInv'
<1>1. \A i \in 1 .. Len(logged) : logged[i] \in Logs
  BY ConcatProperties, LenProperties, ElementOfSeq DEF EntryInv, EntriesTypeOK, logged
<1>2. LoggedAdded'  BY <1>1 DEF EntryInv, LoggedAdded
<1>3. DeliveredOnce'  BY DEF EntryInv, DeliveredOnce, logged
<1>. QED  BY <1>2, <1>3 DEF EntryInv

LEMMA ThrownEntries ==
  ASSUME EntryInv, sLogEntryList' = << >>, UNCHANGED <<java, apc>> PROVE EntryInv'
<1>. USE DEF EntryInv, EntriesTypeOK
<1>1. EntriesTypeOK'  BY EmptySeq
<1>2. logged' = java  BY ConcatEmptySeq DEF logged
<1>3. /\ Len(logged) >= Len(java) /\ Len(java) \in Nat /\ Len(logged) \in Nat
      /\ \A i \in 1 .. Len(java) : logged[i] = java[i]
  BY ConcatProperties, LenProperties DEF logged
<1>4. LoggedAdded'  BY <1>2, <1>3 DEF LoggedAdded
<1>5. DeliveredOnce'
  <2>1. \A i, j \in 1 .. Len(logged) : logged[i] = logged[j] => i = j
    BY DEF DeliveredOnce, logged
  <2>2. \A i, j \in 1 .. Len(java) : java[i] = java[j] => i = j
    BY <1>3, <2>1
  <2>3. (java \o sLogEntryList)' = java
    BY <1>2 DEF logged
  <2>. QED  BY <2>2, <2>3 DEF DeliveredOnce
<1>. QED  BY <1>1, <1>4, <1>5

LEMMA PushedEntries ==
  ASSUME EntryInv, NEW l \in Logs, apc[l] = "adding", java' = java,
         apc' = [apc EXCEPT ![l] = "added"], sLogEntryList' = PushBack(l)
  PROVE  EntryInv'
<1>. USE DEF EntryInv, EntriesTypeOK, PushBack
<1>1. EntriesTypeOK'  OBVIOUS
<1>. DEFINE n == Len(logged)
<1>2. n \in Nat /\ \A i \in 1 .. n : logged[i] \in Logs /\ logged[i] # l
  BY ConcatProperties, LenProperties, ElementOfSeq DEF logged, LoggedAdded
<1>3. /\ Len(logged') = n + 1 /\ logged'[n + 1] = l
      /\ \A i \in 1 .. n : logged'[i] = logged[i]
  BY PushLogged DEF logged
<1>4. LoggedAdded'  BY <1>2, <1>3 DEF LoggedAdded
<1>5. \A i, j \in 1 .. n : logged[i] = logged[j] => i = j
  BY DEF DeliveredOnce, logged
<1>6. \A i, j \in 1 .. n + 1 : logged'[i] = logged'[j] => i = j
  BY <1>2, <1>3, <1>5
<1>7. DeliveredOnce'  BY <1>3, <1>6 DEF DeliveredOnce, logged
<1>. QED  BY <1>1, <1>4, <1>7

LEMMA NextEntries == EntryInv /\ [Next]_vars => EntryInv'
<1>. SUFFICES ASSUME EntryInv, [Next]_vars PROVE EntryInv'
  OBVIOUS
<1>. USE DEF entryVars, ctlVars
<1>1. ASSUME UNCHANGED <<java, sLogEntryList>>, EntriesTypeOK',
             \A l \in Logs : apc[l] = "added" => apc'[l] = "added"
      PROVE  EntryInv'
  BY <1>1, SameEntries DEF logged
<1>2. ASSUME UNCHANGED <<java, sLogEntryList, apc>> PROVE EntryInv'
  BY <1>1, <1>2 DEF EntryInv, EntriesTypeOK
<1>3. ASSUME NEW l \in Logs, liveLog_Log(l) PROVE EntryInv'
  BY <1>1, <1>3 DEF liveLog_Log, EntryInv, EntriesTypeOK
<1>4. ASSUME NEW l \in Logs, add_to_logList(l) PROVE EntryInv'
  <2>1. CASE exists  BY <1>4, <2>1, PushedEntries DEF add_to_logList
  <2>2. CASE ~exists
    BY <1>1, <1>4, <2>2 DEF add_to_logList, EntryInv, EntriesTypeOK
  <2>. QED  BY <2>1, <2>2
<1>5. CASE callLiveLog
  <2>1. EntriesTypeOK' /\ logged' = logged
    BY <1>5, MoveLogged DEF callLiveLog, EraseEntry, EntryInv, EntriesTypeOK, logged
  <2>. QED  BY <1>5, <2>1, SameEntries DEF callLiveLog
<1>6. CASE live_log_start \/ StopClean
  BY <1>6, ThrownEntries DEF live_log_start, StopClean
<1>7. CASE TestAlive \/ LockAndLook \/ Drained \/ SpuriousWakeup \/ SetAlive
           \/ live_log_stop \/ StopSignal \/ StopJoin \/ UNCHANGED vars
  BY <1>2, <1>7 DEF TestAlive, LockAndLook, Drained, SpuriousWakeup, SetAlive,
     live_log_stop, StopSignal, StopJoin, vars
<1>. QED
  BY <1>3, <1>4, <1>5, <1>6, <1>7 DEF Next, LoggerStep, CtlStep

\* No entry is handed to Java twice, nor once more while it is still listed.
THEOREM DeliveredOnceCorrect == Spec => []DeliveredOnce
<1>1. EntryInv => DeliveredOnce  BY DEF EntryInv
<1>. QED  BY <1>1, InitEntries, NextEntries, PTL DEF Spec

\* A step gives Java only the head of the list, adds only at its tail what was
\* never given to Java, and throws entries away only in live_log_stop.
LEMMA StepFifo == LoggerInv /\ EntryInv /\ [Next]_vars => [FifoStep]_vars
<1>. SUFFICES ASSUME LoggerInv, EntryInv, Next PROVE FifoStep
  BY DEF FifoStep, vars
<1>. USE DEF entryVars, ctlVars
<1>1. ASSUME NEW l \in Logs, add_to_logList(l) PROVE FifoStep
  <2>1. CASE ~exists  BY <1>1, <2>1 DEF add_to_logList, FifoStep
  <2>2. CASE exists
    <3>1. ~InList(java, l)
      <4>. SUFFICES ASSUME NEW i \in 1 .. Len(java), java[i] = l PROVE FALSE
        BY DEF InList
      <4>1. i \in 1 .. Len(logged) /\ logged[i] = l
        BY ConcatProperties, LenProperties DEF EntryInv, EntriesTypeOK, logged
      <4>. QED  BY <1>1, <4>1 DEF EntryInv, LoggedAdded, add_to_logList
    <3>. QED  BY <1>1, <2>2, <3>1 DEF add_to_logList, PushBack, FifoStep
  <2>. QED  BY <2>1, <2>2
<1>2. CASE callLiveLog
  BY <1>2, MoveLogged DEF callLiveLog, EraseEntry, EntryInv, EntriesTypeOK, FifoStep
<1>3. CASE live_log_start
  BY <1>3 DEF live_log_start, FifoStep, LoggerInv, ListThere
<1>4. CASE StopClean  BY <1>4 DEF StopClean, FifoStep
<1>5. ASSUME UNCHANGED entryVars PROVE FifoStep
  BY <1>5 DEF FifoStep
<1>6. ASSUME NEW l \in Logs, liveLog_Log(l) PROVE FifoStep
  BY <1>5, <1>6 DEF liveLog_Log
<1>7. CASE TestAlive \/ LockAndLook \/ Drained \/ SpuriousWakeup \/ SetAlive
           \/ live_log_stop \/ StopSignal \/ StopJoin
  BY <1>5, <1>7 DEF TestAlive, LockAndLook, Drained, SpuriousWakeup, SetAlive,
     live_log_stop, StopSignal, StopJoin
<1>. QED
  BY <1>1, <1>2, <1>3, <1>4, <1>6, <1>7 DEF Next, LoggerStep, CtlStep

\* Entries reach Java in the order in which they were added, in every behaviour.
THEOREM FifoCorrect == Spec => Fifo
<1>1. LoggerInv /\ EntryInv /\ [Next]_vars => [FifoStep]_vars
  BY StepFifo
<1>. QED
  BY <1>1, InitLogger, NextLogger, InitEntries, NextEntries, PTL DEF Spec, Fifo
-----------------------------------------------------------------------------
(* What live_log_stop leaves allocated is a number.  LeftByClean is defined  *)
(* by recursion, so this takes an induction: over sets of numbers, each of   *)
(* which has a least one.                                                    *)

\* n is less than m if 0 .. n is strictly contained in 0 .. m, and there is no
\* endless descent among finite sets.
LEMMA LeastNumber ==
  ASSUME NEW T \in SUBSET Nat, T # {}
  PROVE  \E n \in T : \A m \in T : n <= m
<1>. DEFINE F == {0 .. n : n \in T}
<1>1. IsWellFoundedOn(StrictSubsetOrdering(Nat), FiniteSubsetsOf(Nat))
  BY FS_StrictSubsetOrderingWellFounded
<1>2. F # {} /\ F \subseteq FiniteSubsetsOf(Nat)
  <2>1. \A n \in Nat : 0 .. n \in FiniteSubsetsOf(Nat)
    <3>. SUFFICES ASSUME NEW n \in Nat PROVE 0 .. n \in FiniteSubsetsOf(Nat)
      OBVIOUS
    <3>1. IsFiniteSet(0 .. n)
      BY FS_Interval
    <3>. QED  BY <3>1 DEF FiniteSubsetsOf
  <2>. QED  BY <2>1
<1>3. \E X \in F : \A Y \in F : <<Y, X>> \notin StrictSubsetOrdering(Nat)
  <2>. HIDE DEF F
  <2>. QED  BY <1>1, <1>2, WFMin
<1>4. PICK n \in T : \A m \in T : <<0 .. m, 0 .. n>> \notin StrictSubsetOrdering(Nat)
  BY <1>3
<1>5. ASSUME NEW m \in T, m < n PROVE FALSE
  <2>1. 0 .. m \subseteq 0 .. n /\ n \in 0 .. n /\ n \notin 0 .. m
    BY <1>5
  <2>2. <<0 .. m, 0 .. n>> \in StrictSubsetOrdering(Nat)
    BY <2>1 DEF StrictSubsetOrdering
  <2>. QED  BY <1>4, <2>2
<1>. QED  BY <1>5

\* One unfolding of LeftByClean, with f for the function itself.
CleanStep(f, n) == IF n = 0 THEN 0 ELSE IF n % 2 = 0 THEN n \div 2 ELSE f[n \div 2]

\* f is LeftByClean up to n.
CleansUpTo(f, n) == f \in [0 .. n -> Nat] /\ \A k \in 0 .. n : f[k] = CleanStep(f, k)

LEMMA Halves ==
  ASSUME NEW n \in Nat \ {0} PROVE n \div 2 \in 0 .. n - 1
  OBVIOUS

LEMMA CleansExists ==
  ASSUME NEW n \in Nat PROVE \E f : CleansUpTo(f, n)
<1>. DEFINE Bad == {k \in Nat : ~ \E f : CleansUpTo(f, k)}
<1>. SUFFICES ASSUME Bad # {} PROVE FALSE
  OBVIOUS
<1>1. PICK m \in Bad : \A k \in Bad : m <= k
  <2>1. Bad \in SUBSET Nat  OBVIOUS
  <2>. HIDE DEF Bad
  <2>. QED  BY <2>1, LeastNumber
<1>2. m # 0
  <2>1. CleansUpTo([k \in 0 .. 0 |-> 0], 0)
    BY DEF CleansUpTo, CleanStep
  <2>. QED  BY <2>1
<1>3. m \in Nat \ {0} /\ m - 1 \in Nat
  BY <1>2
<1>4. PICK f : CleansUpTo(f, m - 1)
  BY <1>1, <1>3
<1>. DEFINE g == [k \in 0 .. m |-> IF k = m THEN CleanStep(f, m) ELSE f[k]]
<1>5. \A k \in 0 .. m - 1 : g[k] = f[k] /\ k \div 2 \in 0 .. m - 1
  BY <1>3, Halves
<1>6. CleanStep(f, m) \in Nat /\ CleanStep(g, m) = CleanStep(f, m)
  BY <1>3, <1>4, <1>5, Halves DEF CleanStep, CleansUpTo
<1>7. \A k \in 0 .. m - 1 : CleanStep(g, k) = CleanStep(f, k)
  BY <1>3, <1>5 DEF CleanStep
<1>8. CleansUpTo(g, m)
  BY <1>3, <1>4, <1>5, <1>6, <1>7 DEF CleansUpTo
<1>. QED  BY <1>8

LEMMA CleansAgree ==
  ASSUME NEW m \in Nat, NEW n \in Nat, NEW f, NEW g, CleansUpTo(f, m), CleansUpTo(g, n),
         NEW k \in 0 .. m, k \in 0 .. n
  PROVE  f[k] = g[k]
<1>. DEFINE Bad == {i \in 0 .. k : f[i] # g[i]}
<1>. SUFFICES ASSUME Bad # {} PROVE FALSE
  OBVIOUS
<1>1. PICK i \in Bad : \A j \in Bad : i <= j
  <2>1. Bad \in SUBSET Nat  OBVIOUS
  <2>. HIDE DEF Bad
  <2>. QED  BY <2>1, LeastNumber
<1>2. \A j \in 0 .. i - 1 : f[j] = g[j]
  BY <1>1
<1>3. CleanStep(f, i) = CleanStep(g, i)
  BY <1>2, Halves DEF CleanStep
<1>4. f[i] = CleanStep(f, i) /\ g[i] = CleanStep(g, i)
  BY DEF CleansUpTo
<1>. QED  BY <1>3, <1>4

\* The recursion defines a function, and its values are numbers.
LEMMA LeftByCleanType ==
  /\ LeftByClean \in [Nat -> Nat]
  /\ \A n \in Nat : LeftByClean[n] = CleanStep(LeftByClean, n)
<1>. DEFINE Upto(n) == CHOOSE f : CleansUpTo(f, n)
            F == [n \in Nat |-> Upto(n)[n]]
<1>1. \A n \in Nat : CleansUpTo(Upto(n), n)
  BY CleansExists
<1>. HIDE DEF Upto
<1>2. ASSUME NEW n \in Nat PROVE F[n] = CleanStep(F, n) /\ F[n] \in Nat
  <2>1. F[n] = CleanStep(Upto(n), n) /\ F[n] \in Nat
    BY <1>1 DEF CleansUpTo
  <2>2. CASE n = 0
    BY <2>1, <2>2 DEF CleanStep
  <2>3. CASE n # 0
    <3>1. n \div 2 \in Nat /\ n \div 2 \in 0 .. n /\ n \div 2 \in 0 .. n \div 2
      BY <2>3, Halves
    <3>2. Upto(n)[n \div 2] = Upto(n \div 2)[n \div 2]
      BY <1>1, <3>1, CleansAgree
    <3>3. F[n \div 2] = Upto(n)[n \div 2]
      BY <3>1, <3>2
    <3>. QED  BY <2>1, <3>3 DEF CleanStep
  <2>. QED  BY <2>2, <2>3
<1>3. F = [n \in Nat |-> CleanStep(F, n)]
  BY <1>2
<1>. HIDE DEF F
<1>4. LeftByClean = CHOOSE f : f = [n \in Nat |-> CleanStep(f, n)]
  BY DEF LeftByClean, CleanStep
<1>5. LeftByClean = [n \in Nat |-> CleanStep(LeftByClean, n)]
  BY <1>3, <1>4
<1>6. \A n \in Nat : LeftByClean[n] = CleanStep(LeftByClean, n)
  BY <1>5
<1>7. ASSUME NEW n \in Nat PROVE LeftByClean[n] \in Nat
  <2>. DEFINE Bad == {k \in Nat : LeftByClean[k] \notin Nat}
  <2>. SUFFICES ASSUME Bad # {} PROVE FALSE
    OBVIOUS
  <2>1. PICK m \in Bad : \A k \in Bad : m <= k
    <3>1. Bad \in SUBSET Nat  OBVIOUS
    <3>. HIDE DEF Bad
    <3>. QED  BY <3>1, LeastNumber
  <2>2. \A k \in 0 .. m - 1 : LeftByClean[k] \in Nat
    BY <2>1
  <2>3. CleanStep(LeftByClean, m) \in Nat
    BY <2>2, Halves DEF CleanStep
  <2>. QED  BY <1>6, <2>3
<1>. QED  BY <1>5, <1>6, <1>7

\* The part of TypeOK that the entries and the logger do not tell.
CountersTypeOK ==
    /\ sIsAlive \in BOOLEAN /\ exists \in BOOLEAN /\ misused \in BOOLEAN
    /\ starts \in Nat /\ leaked \in Nat

LEMMA NextCounters == EntryInv /\ CountersTypeOK /\ [Next]_vars => CountersTypeOK'
<1>. SUFFICES ASSUME EntryInv, CountersTypeOK, [Next]_vars PROVE CountersTypeOK'
  OBVIOUS
<1>. USE DEF CountersTypeOK, ctlVars
<1>1. ASSUME UNCHANGED <<sIsAlive, exists, misused, starts, leaked>> PROVE CountersTypeOK'
  BY <1>1
<1>2. ASSUME NEW l \in Logs, liveLog_Log(l) \/ add_to_logList(l) PROVE CountersTypeOK'
  <2>1. /\ misused' \in BOOLEAN
        /\ UNCHANGED <<sIsAlive, exists, starts, leaked>>
    BY <1>2 DEF liveLog_Log, add_to_logList
  <2>. QED  BY <2>1
<1>3. CASE LoggerStep \/ SpuriousWakeup \/ live_log_stop \/ StopJoin \/ UNCHANGED vars
  BY <1>1, <1>3 DEF LoggerStep, TestAlive, LockAndLook, callLiveLog, Drained,
     SpuriousWakeup, live_log_stop, StopJoin, vars
<1>4. CASE live_log_start  BY <1>4 DEF live_log_start
<1>5. CASE SetAlive \/ StopSignal  BY <1>5 DEF SetAlive, StopSignal
<1>6. CASE StopClean
  <2>1. Len(sLogEntryList) \in Nat
    BY LenProperties DEF EntryInv, EntriesTypeOK
  <2>2. LeftByClean[Len(sLogEntryList)] \in Nat
    BY <2>1, LeftByCleanType
  <2>3. leaked' = leaked + LeftByClean[Len(sLogEntryList)] /\ exists' = FALSE
    BY <1>6 DEF StopClean
  <2>4. leaked' \in Nat
    BY <2>2, <2>3
  <2>. QED  BY <1>6, <2>3, <2>4 DEF StopClean
<1>. QED
  BY <1>2, <1>3, <1>4, <1>5, <1>6 DEF Next, CtlStep

\* Every variable of the native logger keeps its type: in particular, what the
\* stops leave allocated stays a number, whatever the lists they clean.
THEOREM TypeCorrect == Spec => []TypeOK
<1>1. Init => CountersTypeOK
  <2>. SUFFICES ASSUME Init PROVE CountersTypeOK
    OBVIOUS
  <2>1. sIsAlive = FALSE /\ exists = FALSE /\ misused = FALSE /\ starts = 0 /\ leaked = 0
    BY DEF Init
  <2>. QED  BY <2>1 DEF CountersTypeOK
<1>2. LoggerInv /\ EntryInv /\ CountersTypeOK => TypeOK
  BY DEF LoggerInv, LockOfLogger, LoggerPcs, ListThere, EntryInv, EntriesTypeOK,
     CountersTypeOK, TypeOK
<1>. QED
  BY <1>1, <1>2, InitLogger, NextLogger, InitEntries, NextEntries, NextCounters, PTL
     DEF Spec
=============================================================================

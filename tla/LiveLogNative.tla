---------------------------- MODULE LiveLogNative ----------------------------
(***************************************************************************)
(* live_log.cpp: the native logger.  Any thread may log; a logger thread   *)
(* takes the entries off a list and hands them to LiveLog.e in Java, and   *)
(* waits on a condition variable while the list is empty.  One control     *)
(* thread starts the logger (JNI_OnLoad) and may stop it.                  *)
(***************************************************************************)
EXTENDS Naturals, Sequences

CONSTANTS
    Logs,         \* the calls of liveLog_Log, each with its message
    Stoppable,    \* is live_log_stop called at all?
    MaxStarts,    \* bound on the calls of live_log_start
    MayFail,      \* may pthread_create or malloc fail?
    Logger,       \* the logger thread, as holder of sLock
    Free          \* nobody holds sLock

ASSUME ConstantsAssumption ==
    /\ Stoppable \in BOOLEAN /\ MayFail \in BOOLEAN
    /\ MaxStarts \in Nat
    /\ Logger # Free

VARIABLES
    sIsAlive, sLock,
    sLogEntryList,  \* the messages in the list
    exists,         \* are sLock and the list initialised, not yet destroyed?
    lpc,            \* logger thread
    apc,            \* [Logs -> where the call is]
    kpc,            \* control thread
    starts,
    java,           \* what LiveLog.e was given, in order
    leaked,         \* entries live_log_stop left allocated
    misused         \* a destroyed mutex or list was used, or a NULL entry written

entryVars == <<sLogEntryList, java>>
ctlVars == <<sIsAlive, exists, kpc, starts, leaked>>
vars == <<entryVars, ctlVars, sLock, lpc, apc, misused>>

TypeOK ==
    /\ sIsAlive \in BOOLEAN /\ exists \in BOOLEAN /\ misused \in BOOLEAN
    /\ sLock \in {Free, Logger}
    /\ sLogEntryList \in Seq(Logs) /\ java \in Seq(Logs)
    /\ lpc \in {"none", "test", "lock", "wait", "drain", "exited"}
    /\ apc \in [Logs -> {"idle", "adding", "added", "refused"}]
    /\ kpc \in {"idle", "created", "stop", "join", "clean"}
    /\ starts \in Nat /\ leaked \in Nat

Init ==
    /\ sIsAlive = FALSE /\ exists = FALSE /\ misused = FALSE
    /\ sLock = Free
    /\ sLogEntryList = << >> /\ java = << >>
    /\ lpc = "none" /\ kpc = "idle"
    /\ apc = [l \in Logs |-> "idle"]
    /\ starts = 0 /\ leaked = 0

-----------------------------------------------------------------------------
(* A caller of liveLog_Log.  An operator called Faulty... is a wrong version *)
(* of the one after it, with which the properties are validated.             *)

\* sIsAlive is read without the lock; then the message is formatted.  The first
\* malloc's failure is noticed; the second's NULL is written through.
liveLog_Log(l) ==
    /\ apc[l] = "idle"
    /\ \/ /\ sIsAlive
          /\ apc' = [apc EXCEPT ![l] = "adding"]
          /\ misused' \in IF MayFail THEN BOOLEAN ELSE {FALSE}
       \/ /\ ~sIsAlive \/ MayFail
          /\ apc' = [apc EXCEPT ![l] = "refused"]
          /\ UNCHANGED misused
    /\ UNCHANGED <<entryVars, ctlVars, sLock, lpc>>

\* pthread_cond_signal and _broadcast: the one thread that may wait is woken
\* and has to get the lock again.
FaultySignal == UNCHANGED lpc
Signal == lpc' = IF lpc = "wait" THEN "lock" ELSE lpc

FaultyEntry(l) == Append(sLogEntryList, Logger)
FaultyPush(l) == <<l>> \o sLogEntryList
PushBack(l) == Append(sLogEntryList, l)

add_to_logList(l) ==
    /\ apc[l] = "adding"
    /\ apc' = [apc EXCEPT ![l] = "added"]
    /\ IF exists
          THEN /\ sLock = Free
               /\ sLogEntryList' = PushBack(l)
               /\ Signal
               /\ UNCHANGED misused
          ELSE misused' = TRUE /\ UNCHANGED <<sLogEntryList, lpc>>
    /\ UNCHANGED <<ctlVars, sLock, java>>

-----------------------------------------------------------------------------
(* logger_thread.                                                            *)

TestAlive ==
    /\ lpc = "test"
    /\ lpc' = IF sIsAlive THEN "lock" ELSE "exited"
    /\ UNCHANGED <<entryVars, ctlVars, sLock, apc, misused>>

\* With the lock: wait, which gives it back, or drain, which keeps it.
LockAndLook ==
    /\ lpc = "lock"
    /\ sLock = Free
    /\ \/ /\ sLogEntryList = << >>
          /\ lpc' = "wait"
          /\ UNCHANGED sLock
       \/ /\ sLogEntryList # << >>
          /\ lpc' = "drain"
          /\ sLock' = Logger
    /\ UNCHANGED <<entryVars, ctlVars, apc, misused>>

SpuriousWakeup ==
    /\ lpc = "wait"
    /\ lpc' = "lock"
    /\ UNCHANGED <<entryVars, ctlVars, sLock, apc, misused>>

FaultyErase == UNCHANGED sLogEntryList
EraseEntry == sLogEntryList' = Tail(sLogEntryList)

callLiveLog ==
    /\ lpc = "drain"
    /\ sLogEntryList # << >>
    /\ java' = Append(java, Head(sLogEntryList))
    /\ EraseEntry
    /\ UNCHANGED <<ctlVars, sLock, lpc, apc, misused>>

FaultyUnlock == UNCHANGED sLock
Unlock == sLock' = Free

Drained ==
    /\ lpc = "drain"
    /\ sLogEntryList = << >>
    /\ lpc' = "test"
    /\ Unlock
    /\ UNCHANGED <<entryVars, ctlVars, apc, misused>>

-----------------------------------------------------------------------------
(* live_log_start and live_log_stop.                                         *)

\* The thread is made before sIsAlive is set; when it cannot be made,
\* pthread_create returns a positive number, which `ret < 0` does not notice.
live_log_start ==
    /\ kpc = "idle" /\ ~sIsAlive /\ starts < MaxStarts
    /\ starts' = starts + 1
    /\ exists' = TRUE
    /\ sLock' = Free
    /\ sLogEntryList' = << >>
    /\ \/ lpc' = "test"
       \/ MayFail /\ lpc' = "none"
    /\ kpc' = "created"
    /\ UNCHANGED <<sIsAlive, apc, java, leaked, misused>>

SetAlive ==
    /\ kpc = "created"
    /\ sIsAlive' = TRUE
    /\ kpc' = "idle"
    /\ UNCHANGED <<entryVars, sLock, exists, lpc, apc, starts, leaked, misused>>

live_log_stop ==
    /\ Stoppable
    /\ kpc = "idle" /\ sIsAlive
    /\ kpc' = "stop"
    /\ UNCHANGED <<entryVars, sIsAlive, sLock, exists, lpc, apc, starts, leaked, misused>>

StopSignal ==
    /\ kpc = "stop"
    /\ sLock = Free
    /\ sIsAlive' = FALSE
    /\ Signal
    /\ kpc' = "join"
    /\ UNCHANGED <<entryVars, sLock, exists, apc, starts, leaked, misused>>

FaultyJoined == TRUE
ThreadEnded == lpc \in {"exited", "none"}

StopJoin ==
    /\ kpc = "join"
    /\ ThreadEnded
    /\ kpc' = "clean"
    /\ UNCHANGED <<entryVars, sIsAlive, sLock, exists, lpc, apc, starts, leaked, misused>>

\* The loop at "//clean logs" erases an entry and steps over the next one.  On
\* an even number of entries it ends with every second one left; on an odd
\* number it runs past the end sentinel, which in the list's ring is followed
\* by the first entry left, and goes on with those.
LeftByClean[n \in Nat] ==
    IF n = 0 THEN 0 ELSE IF n % 2 = 0 THEN n \div 2 ELSE LeftByClean[n \div 2]

StopClean ==
    /\ kpc = "clean"
    /\ exists' = FALSE
    /\ leaked' = leaked + LeftByClean[Len(sLogEntryList)]
    /\ sLogEntryList' = << >>
    /\ kpc' = "idle"
    /\ UNCHANGED <<sIsAlive, sLock, lpc, apc, starts, java, misused>>

-----------------------------------------------------------------------------
LoggerStep == TestAlive \/ LockAndLook \/ callLiveLog \/ Drained
CtlStep == SetAlive \/ StopSignal \/ StopJoin \/ StopClean

Next ==
    /\ ~misused
    /\ \/ \E l \in Logs : liveLog_Log(l) \/ add_to_logList(l)
       \/ LoggerStep \/ SpuriousWakeup
       \/ live_log_start \/ live_log_stop \/ CtlStep

Spec == Init /\ [][Next]_vars

\* Threads that can run do run.  Nobody has to log, to start or to stop, and a
\* wait need not end without a signal.
Fairness ==
    /\ WF_vars(~misused /\ LoggerStep)
    /\ WF_vars(~misused /\ CtlStep)
    /\ \A l \in Logs : WF_vars(~misused /\ add_to_logList(l))

FairSpec == Spec /\ Fairness

-----------------------------------------------------------------------------
(* Properties.                                                               *)

InList(s, l) == \E i \in 1 .. Len(s) : s[i] = l

\* The logger never sleeps on a list with entries: each push is followed by a
\* signal under the same lock as the test before the wait.
NoLostWakeup == lpc = "wait" => sLogEntryList = << >>

\* An entry is handed to Java at most once and not while it is still listed.
DeliveredOnce ==
    LET all == java \o sLogEntryList IN
    \A i, j \in 1 .. Len(all) : all[i] = all[j] => i = j

\* Entries reach Java in the order in which they were added: java grows only by
\* the head of the list, the list only at its tail, and an entry leaves the
\* list another way only when live_log_stop throws the list away.
FifoStep ==
    \/ UNCHANGED entryVars
    \/ java' \o sLogEntryList' = java \o sLogEntryList
    \/ \E l \in Logs :
          java' = java /\ sLogEntryList' = Append(sLogEntryList, l) /\ ~InList(java, l)
    \/ java' = java /\ sLogEntryList' = << >> /\ kpc = "clean"
Fifo == [][FifoStep]_vars

\* Once live_log_stop has joined, the mutex and the list it destroys are not
\* held, read or waited on by the logger thread.
JoinedBeforeDestroy ==
    (kpc = "clean" \/ ~exists) => lpc \in {"none", "exited"} /\ sLock = Free

\* Liveness, under FairSpec.

\* While the logger thread runs and nobody stops it, an entry in the list is
\* handed to Java in the end.
EventuallyLogged ==
    \A l \in Logs : (InList(sLogEntryList, l) /\ lpc \notin {"none", "exited"}) ~>
        (InList(java, l) \/ ~sIsAlive \/ misused)

\* A caller of liveLog_Log comes back, although the logger calls Java with the
\* lock held: the bridge logs while it holds sCallBackLockMutex
\* (media_jni.cpp:366), so a caller that is stuck would stop the bridge.
CallerReturns ==
    \A l \in Logs : (apc[l] = "adding") ~> (apc[l] = "added" \/ misused)

\* live_log.cpp:131 and :167 take sIsAlive for "the logger is started": then
\* there is a logger thread that has not ended.
AliveHasLogger == sIsAlive /\ kpc = "idle" => lpc \notin {"none", "exited"}

\* live_log.cpp:202 "//clean logs": a stop comes to clean the logs ...
StopComesToClean == (kpc = "stop") ~> (kpc = "clean")

\* ... and cleans all of them.
CleansAll == leaked = 0
=============================================================================

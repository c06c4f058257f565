------------------------------ MODULE MediaJni ------------------------------
(***************************************************************************)
(* media_jni.cpp: the native half of MediaControlManager.                  *)
(*                                                                         *)
(* Three kinds of threads meet in it.  A request is a pool thread that     *)
(* runs one of the native login, logout, sendMsg and sendMsgToUser calls:  *)
(* it draws a sequence number, stores the Java callback under it and calls *)
(* the SDK.  A control thread runs JNI_start, JNI_stop or JNI_destory.  An *)
(* SDK thread (the receiver or the relogin timer of a manager) runs the    *)
(* ResponseHandler: it takes a callback out of the map and calls it, or    *)
(* calls a method of the MediaControlManager instance.                     *)
(*                                                                         *)
(* A global reference to a request's callback is named by the request; one *)
(* to the instance by the number of the JNI_start that made it.            *)
(***************************************************************************)
EXTENDS GatewaySdk, FiniteSets, Sequences

CONSTANTS
    Ctl,          \* threads that start and stop the SDK: {main} in the app
    NativeCalls,  \* what they call, a subset of {"start", "stop", "destory"}
    Ops,          \* the request operations the app uses
    MaxStarts,    \* bound on the calls of JNI_start that get a reference
    JniMayFail,   \* may AttachCurrentThread or NewObject fail?
    None,         \* no callback, no request
    NoManager,    \* sRequestManager == NULL
    Free          \* nobody holds sCallBackLockMutex

ASSUME OpsAssumption ==
    /\ Ops \subseteq {"login", "logout", "sendMsg", "sendMsgToUser"}
    /\ NativeCalls \subseteq {"start", "stop", "destory"}
ASSUME MaxStartsAssumption == MaxStarts \in Nat
ASSUME JniMayFailAssumption == JniMayFail \in BOOLEAN
ASSUME NullAssumption ==
    /\ None \notin Requests
    /\ NoManager \notin Managers
    /\ Free \notin Ctl

VARIABLES
    \* the statics of media_jni.cpp
    sCallbackMap,        \* [Seqs -> Requests \cup {None}]
    sCallBackLockMutex,  \* its holder; only JNI_stop holds it across a step
    sMediaInstance,      \* 0 is NULL
    sRequestManager,
    \* the JVM
    cbRefs,              \* live global references to callbacks
    instRefs,            \* live global references to the instance
    starts,              \* references made to the instance so far
    attached,            \* SDK threads attached to the JVM
    \* request threads
    pc, op, passed, mgr, seq,
    \* control threads
    cpc, call, cmgr,
    \* SDK threads
    spc, sseq, scb, sobj,
    \* history: whose answer an SDK thread reports; what each callback was given
    sfor, calls,
    crashed              \* a NULL manager was dereferenced

jniVars == <<sCallbackMap, sCallBackLockMutex, sMediaInstance, sRequestManager>>
refVars == <<cbRefs, instRefs, starts, attached>>
reqVars == <<pc, op, passed, mgr, seq>>
ctlVars == <<cpc, call, cmgr>>
thrVars == <<spc, sseq, scb, sobj, sfor>>
vars == <<sdkVars, jniVars, refVars, reqVars, ctlVars, thrVars, calls, crashed>>

SdkThreads == {"receiver", "timer"} \X Managers
Receiver(m) == <<"receiver", m>>
Timer(m) == <<"timer", m>>

StaticsTypeOK ==
    /\ sCallbackMap \in [Seqs -> Requests \cup {None}]
    /\ sCallBackLockMutex \in Ctl \cup {Free}
    /\ sMediaInstance \in Nat
    /\ sRequestManager \in Managers \cup {NoManager}

RefsTypeOK ==
    /\ cbRefs \subseteq Requests
    /\ instRefs \subseteq Nat
    /\ starts \in Nat
    /\ attached \subseteq SdkThreads

RequestsTypeOK ==
    /\ pc \in [Requests -> {"idle", "posted", "adding", "calling", "done"}]
    /\ op \in [Requests -> Ops \cup {"none"}]
    /\ passed \in [Requests -> BOOLEAN]
    /\ mgr \in [Requests -> Managers \cup {NoManager}]
    /\ seq \in [Requests -> Seqs]

CtlTypeOK ==
    /\ cpc \in [Ctl -> {"idle", "stopLock", "stopJoin", "stopDelete",
                        "stopClear", "startLock", "forget"}]
    /\ call \in [Ctl -> NativeCalls \cup {"none"}]
    /\ cmgr \in [Ctl -> Managers \cup {NoManager}]

ThreadsTypeOK ==
    /\ spc \in [SdkThreads -> {"idle", "take", "call", "release", "check", "notify"}]
    /\ sseq \in [SdkThreads -> Seqs]
    /\ scb \in [SdkThreads -> Requests \cup {None}]
    /\ sobj \in [SdkThreads -> Nat]
    /\ sfor \in [SdkThreads -> Requests \cup {None}]

HistoryTypeOK ==
    /\ calls \in [Requests -> Seq(Requests \cup {None})]
    /\ crashed \in BOOLEAN

TypeOK ==
    /\ SdkTypeOK /\ StaticsTypeOK /\ RefsTypeOK /\ RequestsTypeOK
    /\ CtlTypeOK /\ ThreadsTypeOK /\ HistoryTypeOK

Init ==
    /\ SdkInit
    /\ sCallbackMap = [s \in Seqs |-> None]
    /\ sCallBackLockMutex = Free
    /\ sMediaInstance = 0
    /\ sRequestManager = NoManager
    /\ cbRefs = {} /\ instRefs = {} /\ starts = 0 /\ attached = {}
    /\ pc = [r \in Requests |-> "idle"]
    /\ op = [r \in Requests |-> "none"]
    /\ passed = [r \in Requests |-> FALSE]
    /\ mgr = [r \in Requests |-> NoManager]
    /\ seq = [r \in Requests |-> 0]
    /\ cpc = [c \in Ctl |-> "idle"]
    /\ call = [c \in Ctl |-> "none"]
    /\ cmgr = [c \in Ctl |-> NoManager]
    /\ spc = [t \in SdkThreads |-> "idle"]
    /\ sseq = [t \in SdkThreads |-> 0]
    /\ scb = [t \in SdkThreads |-> None]
    /\ sobj = [t \in SdkThreads |-> 0]
    /\ sfor = [t \in SdkThreads |-> None]
    /\ calls = [r \in Requests |-> << >>]
    /\ crashed = FALSE

-----------------------------------------------------------------------------
(* What the actions are made of.  An operator called Faulty... is a wrong     *)
(* version of the one after it, with which the properties are validated.     *)

\* AttachCurrentThread and DetachCurrentThread.
JNI_get_env(t) == attached' = attached \cup {t}

FaultyPutEnv(t) == UNCHANGED attached
JNI_put_env(t) == attached' = attached \ {t}

FaultyUnlock == UNCHANGED sCallBackLockMutex
unlockMediaCallbackMutex == sCallBackLockMutex' = Free

Mapped == {sCallbackMap[s] : s \in Seqs} \ {None}

FaultyErase(s) == UNCHANGED sCallbackMap
EraseCallback(s) == sCallbackMap' = [sCallbackMap EXCEPT ![s] = None]

FaultyDeleteRef(t) == UNCHANGED cbRefs
DeleteCallbackRef(t) == cbRefs' = cbRefs \ {scb[t]}

FaultyNewRef(r) == UNCHANGED cbRefs
NewCallbackRef(r) == cbRefs' = cbRefs \cup {r}

-----------------------------------------------------------------------------
(* A request.  MediaControlManager posts it to the cached thread pool, which *)
(* gives it a thread of its own.  Nothing is requested before the SDK has    *)
(* been started (MediaControlManager.java:124, request.h:32).                *)

Post(r) ==
    /\ pc[r] = "idle"
    /\ sRequestManager # NoManager
    /\ \E o \in Ops, b \in BOOLEAN :
          /\ op' = [op EXCEPT ![r] = o]
          /\ passed' = [passed EXCEPT ![r] = b]
    /\ pc' = [pc EXCEPT ![r] = "posted"]
    /\ UNCHANGED <<sdkVars, jniVars, refVars, mgr, seq, ctlVars, thrVars,
                   calls, crashed>>

\* The number of r is drawn; the faulty version only reads the counter.
FaultyDraw(r) == seq' = [seq EXCEPT ![r] = staticSeq % SeqMod] /\ UNCHANGED staticSeq
DrawSeq(r) == seq' = [seq EXCEPT ![r] = NextSeq] /\ CreateGwSeq

\* The head of the native call: sRequestManager is read without the lock and
\* kept, the parameters are copied, a sequence number is drawn.  In the code the
\* draw comes after the read.  Only JNI_destory makes a later read differ, so
\* what one step for both leaves out is a destory and another draw in between.
BeginRequest(r) ==
    /\ pc[r] = "posted"
    /\ mgr' = [mgr EXCEPT ![r] = sRequestManager]
    /\ DrawSeq(r)
    /\ pc' = [pc EXCEPT ![r] = "adding"]
    /\ UNCHANGED <<sdk, answer, relogin, jniVars, refVars, op, passed, ctlVars,
                   thrVars, calls, crashed>>

\* Without a return after the refusal the callback is stored under 0.
FaultyRefuse(r) ==
    /\ seq[r] = 0
    /\ calls' = [calls EXCEPT ![r] = Append(@, None)]
    /\ sCallbackMap' = [sCallbackMap EXCEPT ![0] = r]
    /\ cbRefs' = cbRefs \cup {r}

\* A callback without a sequence number is called at once, with "No Network
\* or not login", unless the JSON object cannot be made.
RefuseDirectly(r) ==
    /\ seq[r] = 0
    /\ \/ calls' = [calls EXCEPT ![r] = Append(@, None)]
       \/ JniMayFail /\ UNCHANGED calls
    /\ UNCHANGED <<sCallbackMap, cbRefs>>

FaultyIsStored(r) == FALSE
IsStored(r) == sCallbackMap[seq[r]] # None

\* A number already in the map is left alone and the new callback forgotten.
StoreCallback(r) ==
    /\ seq[r] # 0
    /\ sCallBackLockMutex = Free
    /\ \/ /\ IsStored(r)
          /\ UNCHANGED <<sCallbackMap, cbRefs>>
       \/ /\ ~IsStored(r)
          /\ sCallbackMap' = [sCallbackMap EXCEPT ![seq[r]] = r]
          /\ NewCallbackRef(r)
    /\ UNCHANGED calls

addRequestCallback(r) ==
    /\ pc[r] = "adding"
    /\ \/ ~passed[r] /\ UNCHANGED <<sCallbackMap, cbRefs, calls>>
       \/ passed[r] /\ (RefuseDirectly(r) \/ StoreCallback(r))
    /\ pc' = [pc EXCEPT ![r] = "calling"]
    /\ UNCHANGED <<sdkVars, sCallBackLockMutex, sMediaInstance, sRequestManager,
                   instRefs, starts, attached, op, passed, mgr, seq, ctlVars,
                   thrVars, crashed>>

\* requestManager->Login, Logout, SendMsg or SendMsgToUser, on the manager
\* read at the head of the call.  A message is never answered under its number.
CallSdk(r) ==
    /\ pc[r] = "calling"
    /\ pc' = [pc EXCEPT ![r] = "done"]
    /\ IF mgr[r] = NoManager
          THEN crashed' = TRUE /\ UNCHANGED answer
          ELSE /\ \E a \in IF op[r] \in {"login", "logout"}
                             THEN SdkMayOwe(mgr[r], seq[r], op[r] = "login")
                             ELSE {"none"} :
                    answer' = [answer EXCEPT ![r] = a]
               /\ UNCHANGED crashed
    /\ UNCHANGED <<sdk, staticSeq, relogin, jniVars, refVars, op, passed, mgr,
                   seq, ctlVars, thrVars, calls>>

-----------------------------------------------------------------------------
(* A control thread.  JNI_stop keeps the lock from before Stop() until the   *)
(* map is empty; JNI_start looks at sMediaInstance once without the lock.    *)

Call(c, f, step) ==
    /\ cpc[c] = "idle"
    /\ f \in NativeCalls
    /\ call' = [call EXCEPT ![c] = f]
    /\ cpc' = [cpc EXCEPT ![c] = step]
    /\ UNCHANGED <<sdkVars, jniVars, refVars, reqVars, cmgr, thrVars, calls, crashed>>

JNI_start(c) ==
    /\ starts < MaxStarts
    /\ Call(c, "start", IF sMediaInstance # 0 THEN "stopLock" ELSE "startLock")
\* Nothing in the app stops an SDK it has not started; a manager may still be
\* gone when the lock is there, if another thread destroys it.
JNI_stop(c) == sRequestManager # NoManager /\ Call(c, "stop", "stopLock")
JNI_destory(c) == sRequestManager # NoManager /\ Call(c, "destory", "stopLock")

\* Lock, read sRequestManager, call Stop() on it.
StopBegin(c) ==
    /\ cpc[c] = "stopLock"
    /\ sCallBackLockMutex = Free
    /\ IF sRequestManager = NoManager
          THEN crashed' = TRUE /\ UNCHANGED <<sdk, sCallBackLockMutex, cmgr, cpc>>
          ELSE /\ sCallBackLockMutex' = c
               /\ cmgr' = [cmgr EXCEPT ![c] = sRequestManager]
               /\ SdkStopBegin(sRequestManager)
               /\ cpc' = [cpc EXCEPT ![c] = "stopJoin"]
               /\ UNCHANGED crashed
    /\ UNCHANGED <<staticSeq, answer, relogin, sCallbackMap, sMediaInstance,
                   sRequestManager, refVars, reqVars, call, thrVars, calls>>

FaultyJoined(m) == TRUE
Joined(m) == spc[Receiver(m)] = "idle"

\* Stop() joins the receiver thread, so it returns when no handler runs on it.
StopJoin(c) ==
    /\ cpc[c] = "stopJoin"
    /\ Joined(cmgr[c])
    /\ SdkStopEnd(cmgr[c])
    /\ cpc' = [cpc EXCEPT ![c] = "stopDelete"]
    /\ UNCHANGED <<staticSeq, relogin, jniVars, refVars, reqVars, call, cmgr,
                   thrVars, calls, crashed>>

FaultyDeleteInstance == UNCHANGED instRefs
DeleteInstanceRef == instRefs' = instRefs \ {sMediaInstance}

StopDelete(c) ==
    /\ cpc[c] = "stopDelete"
    /\ DeleteInstanceRef
    /\ cpc' = [cpc EXCEPT ![c] = "stopClear"]
    /\ UNCHANGED <<sdkVars, jniVars, cbRefs, starts, attached, reqVars, call, cmgr,
                   thrVars, calls, crashed>>

FaultyClearKeepsMap == cbRefs' = cbRefs \ Mapped /\ UNCHANGED sCallbackMap
ClearCallbacks == cbRefs' = cbRefs \ Mapped /\ sCallbackMap' = [s \in Seqs |-> None]

FaultyForgetInstance == UNCHANGED sMediaInstance
ForgetInstance == sMediaInstance' = 0

\* sMediaInstance = NULL, every callback in the map released, unlock; then
\* back to the caller.
StopClear(c) ==
    /\ cpc[c] = "stopClear"
    /\ ForgetInstance
    /\ ClearCallbacks
    /\ unlockMediaCallbackMutex
    /\ cmgr' = [cmgr EXCEPT ![c] = NoManager]
    /\ \/ /\ call[c] = "start"
          /\ cpc' = [cpc EXCEPT ![c] = "startLock"]
          /\ UNCHANGED call
       \/ /\ call[c] = "stop"
          /\ cpc' = [cpc EXCEPT ![c] = "idle"]
          /\ call' = [call EXCEPT ![c] = "none"]
       \/ /\ call[c] = "destory"
          /\ cpc' = [cpc EXCEPT ![c] = "forget"]
          /\ UNCHANGED call
    /\ UNCHANGED <<sdkVars, sRequestManager, instRefs, starts, attached, reqVars,
                   thrVars, calls, crashed>>

Return(c) ==
    /\ cpc' = [cpc EXCEPT ![c] = "idle"]
    /\ call' = [call EXCEPT ![c] = "none"]

FaultyInstanceIsSet == FALSE
InstanceIsSet == sMediaInstance # 0

\* JNI_start under the lock, and what it returns.  A manager is created once; an
\* instance that another thread has set meanwhile makes the call return false.  A
\* start that fails returns false as well, with the instance and the manager set.
StartLocked(c, ret) ==
    /\ cpc[c] = "startLock"
    /\ sCallBackLockMutex = Free
    /\ \/ /\ InstanceIsSet /\ ~ret
          /\ UNCHANGED <<sdk, sMediaInstance, sRequestManager, instRefs, starts>>
       \/ /\ ~InstanceIsSet
          /\ starts' = starts + 1
          /\ sMediaInstance' = starts + 1
          /\ instRefs' = instRefs \cup {starts + 1}
          /\ \E m \in Managers :
                /\ IF sRequestManager = NoManager THEN sdk[m] = "absent"
                                                  ELSE m = sRequestManager
                /\ sRequestManager' = m
                /\ SdkStart(m, ret)
    /\ Return(c)
    /\ UNCHANGED <<staticSeq, answer, relogin, sCallbackMap, sCallBackLockMutex,
                   cbRefs, attached, reqVars, cmgr, thrVars, calls, crashed>>

destoryRequestManager(c) ==
    /\ cpc[c] = "forget"
    /\ sRequestManager' = NoManager
    /\ Return(c)
    /\ UNCHANGED <<sdkVars, sCallbackMap, sCallBackLockMutex, sMediaInstance,
                   refVars, reqVars, cmgr, thrVars, calls, crashed>>

-----------------------------------------------------------------------------
(* An SDK thread in the ResponseHandler.                                     *)

\* The receiver enters OnLogin or OnLogout with the answer owed to r; the
\* server may repeat an answer.
OnAnswer(m, r) ==
    LET t == Receiver(m) IN
    /\ spc[t] = "idle"
    /\ mgr[r] = m
    /\ ReceiverReports(m)
    /\ \/ /\ answer[r] = "own"
          /\ sseq' = [sseq EXCEPT ![t] = seq[r]]
          /\ answer' \in {answer, [answer EXCEPT ![r] = "none"]}
          /\ UNCHANGED staticSeq
       \/ /\ answer[r] = "fresh"
          /\ sseq' = [sseq EXCEPT ![t] = NextSeq]
          /\ answer' = [answer EXCEPT ![r] = "none"]
          /\ CreateGwSeq
    /\ sfor' = [sfor EXCEPT ![t] = r]
    /\ spc' = [spc EXCEPT ![t] = "take"]
    /\ UNCHANGED <<relogin, jniVars, refVars, reqVars, ctlVars, scb, sobj,
                   calls, crashed>>

\* The callback found under s; the faulty version has erased it before.
FaultyFind(s) == None
FindCallback(s) == sCallbackMap[s]

getRequestCallback(t) ==
    /\ spc[t] = "take"
    /\ sCallBackLockMutex = Free
    /\ EraseCallback(sseq[t])
    /\ scb' = [scb EXCEPT ![t] = FindCallback(sseq[t])]
    /\ spc' = [spc EXCEPT ![t] = IF FindCallback(sseq[t]) = None THEN "idle"
                                                                ELSE "call"]
    /\ UNCHANGED <<sdkVars, sCallBackLockMutex, sMediaInstance, sRequestManager,
                   refVars, reqVars, ctlVars, sseq, sobj, sfor, calls, crashed>>

\* The rest of OnLogin and OnLogout.  The two early returns forget the
\* callback they hold, the second without DetachCurrentThread.
AnswerFails(t) ==
    /\ spc[t] = "call"
    /\ JniMayFail
    /\ UNCHANGED attached \/ JNI_get_env(t)
    /\ spc' = [spc EXCEPT ![t] = "idle"]
    /\ scb' = [scb EXCEPT ![t] = None]
    /\ UNCHANGED <<sdkVars, jniVars, cbRefs, instRefs, starts, reqVars, ctlVars,
                   sseq, sobj, sfor, calls, crashed>>

InvokeCallback(t) ==
    /\ spc[t] = "call"
    /\ JNI_get_env(t)
    /\ calls' = [calls EXCEPT ![scb[t]] = Append(@, sfor[t])]
    /\ spc' = [spc EXCEPT ![t] = "release"]
    /\ UNCHANGED <<sdkVars, jniVars, cbRefs, instRefs, starts, reqVars, ctlVars,
                   sseq, scb, sobj, sfor, crashed>>

ReleaseCallback(t) ==
    /\ spc[t] = "release"
    /\ DeleteCallbackRef(t)
    /\ JNI_put_env(t)
    /\ spc' = [spc EXCEPT ![t] = "idle"]
    /\ scb' = [scb EXCEPT ![t] = None]
    /\ UNCHANGED <<sdkVars, jniVars, instRefs, starts, reqVars, ctlVars, sseq, sobj,
                   sfor, calls, crashed>>

\* OnDisconnect, OnRecvMsg, OnReloginSuccess and OnStartRelogin up to the test
\* of sMediaInstance.
BeginNotify(t) ==
    /\ spc[t] = "idle"
    /\ \/ /\ JNI_get_env(t)
          /\ spc' = [spc EXCEPT ![t] = "check"]
       \/ /\ JniMayFail
          /\ UNCHANGED attached \/ JNI_get_env(t)
          /\ UNCHANGED spc
    /\ UNCHANGED <<jniVars, cbRefs, instRefs, starts, reqVars, ctlVars, sseq, scb,
                   sobj, sfor, calls, crashed>>

ReceiverNotifies(m) ==
    /\ BeginNotify(Receiver(m))
    /\ StartRelogin(m) \/ EndRelogin(m) \/ RecvMsg(m)

TimerNotifies(m) == BeginNotify(Timer(m)) /\ ReloginGivesUp(m)

CheckInstance(t) ==
    /\ spc[t] = "check"
    /\ IF sMediaInstance = 0
          THEN /\ spc' = [spc EXCEPT ![t] = "idle"]
               /\ JNI_put_env(t)
               /\ UNCHANGED sobj
          ELSE /\ spc' = [spc EXCEPT ![t] = "notify"]
               /\ sobj' = [sobj EXCEPT ![t] = sMediaInstance]
               /\ UNCHANGED attached
    /\ UNCHANGED <<sdkVars, jniVars, cbRefs, instRefs, starts, reqVars, ctlVars,
                   sseq, scb, sfor, calls, crashed>>

\* CallVoidMethod on the instance that was tested or on the one found now:
\* sMediaInstance is neither locked nor volatile, the build decides.
CallInstance(t) ==
    /\ spc[t] = "notify"
    /\ spc' = [spc EXCEPT ![t] = "idle"]
    /\ sobj' = [sobj EXCEPT ![t] = 0]
    /\ JNI_put_env(t)
    /\ UNCHANGED <<sdkVars, jniVars, cbRefs, instRefs, starts, reqVars, ctlVars,
                   sseq, scb, sfor, calls, crashed>>

-----------------------------------------------------------------------------
SdkAlone == SdkDraw /\ UNCHANGED <<jniVars, refVars, reqVars, ctlVars, thrVars,
                                   calls, crashed>>

RequestStep(r) == BeginRequest(r) \/ addRequestCallback(r) \/ CallSdk(r)

CtlCalls(c) == JNI_start(c) \/ JNI_stop(c) \/ JNI_destory(c)
StopStep(c) ==
    \/ StopBegin(c) \/ StopJoin(c) \/ StopDelete(c) \/ StopClear(c)
    \/ destoryRequestManager(c)
CtlStep(c) == StopStep(c) \/ \E ret \in BOOLEAN : StartLocked(c, ret)

SdkThreadStep(t) ==
    \/ getRequestCallback(t)
    \/ AnswerFails(t) \/ InvokeCallback(t) \/ ReleaseCallback(t)
    \/ CheckInstance(t) \/ CallInstance(t)

Next ==
    /\ ~crashed
    /\ \/ \E r \in Requests : Post(r) \/ RequestStep(r)
       \/ \E c \in Ctl : CtlCalls(c) \/ CtlStep(c)
       \/ \E m \in Managers, r \in Requests : OnAnswer(m, r)
       \/ \E m \in Managers : ReceiverNotifies(m) \/ TimerNotifies(m)
       \/ \E t \in SdkThreads : SdkThreadStep(t)
       \/ SdkAlone

Spec == Init /\ [][Next]_vars

\* A thread that can take its next step does: the operating system schedules
\* pool, UI and SDK threads alike, and the lock is never contended for ever.
\* An answer that is on its way reaches the receiver, whose events queue up
\* behind each other: hence SF, for it is busy with other events in between.
\* Nothing makes the app call anything, nor the network report anything else.
Fairness ==
    /\ \A r \in Requests : WF_vars(~crashed /\ RequestStep(r))
    /\ \A c \in Ctl : WF_vars(~crashed /\ CtlStep(c))
    /\ \A t \in SdkThreads : WF_vars(~crashed /\ SdkThreadStep(t))
    /\ \A m \in Managers, r \in Requests : SF_vars(~crashed /\ OnAnswer(m, r))

FairSpec == Spec /\ Fairness

-----------------------------------------------------------------------------
(* Properties.                                                               *)

Held == {scb[t] : t \in SdkThreads} \ {None}
Stopping(c) == cpc[c] \in {"stopJoin", "stopDelete", "stopClear"}

\* A live reference to a callback is in exactly one place, a map entry under
\* its request's own number or the hand of one SDK thread, and what is in
\* those places is live: JNI_stop never deletes a callback an SDK thread is
\* about to call, and nobody deletes a reference twice.  Without a JNI failure
\* every live reference is in such a place, so none leaks.
CallbackOwnership ==
    /\ \A s \in Seqs : sCallbackMap[s] # None =>
          /\ sCallbackMap[s] \in cbRefs \ Held
          /\ seq[sCallbackMap[s]] = s
    /\ \A t \in SdkThreads : scb[t] # None =>
          /\ scb[t] \in cbRefs
          /\ \A u \in SdkThreads : scb[u] = scb[t] => u = t
    /\ ~JniMayFail => cbRefs = Mapped \cup Held

\* A Java callback is called at most once, whatever the order of request,
\* answer, stop and restart, and also when the sequence numbers wrap around.
CalledOnce == \A r \in Requests : Len(calls[r]) <= 1

\* As long as the 32-bit counter has not wrapped, a callback is given the
\* answer to its own request (response.h:19 and :36), and no other.
OwnAnswer ==
    staticSeq < SeqMod =>
        \A r \in Requests : \A i \in 1 .. Len(calls[r]) : calls[r][i] = r

\* A receiver thread that is about to call a method of the instance finds a
\* live one, both in what it tested and in what it may read again: JNI_stop
\* deletes the instance only when the receiver has been joined.  (With
\* JNI_destory it may be the receiver of a manager nobody knows any more.)
ReceiverSeesLiveInstance ==
    "destory" \notin NativeCalls =>
        \A m \in Managers : spc[Receiver(m)] = "notify" =>
            {sobj[Receiver(m)], sMediaInstance} \subseteq instRefs

\* The instance has at most one live reference, and that is sMediaInstance:
\* restarts leak none, and only a stop in progress holds a deleted one.
OneInstance ==
    /\ instRefs \subseteq {sMediaInstance} \ {0}
    /\ (\A c \in Ctl : cpc[c] # "stopClear") => instRefs = {sMediaInstance} \ {0}

\* The receiver thread that Stop() has joined left no attachment to the JVM
\* behind (a native thread that ends attached aborts the process), unless a
\* JNI failure made a handler return early.
JoinedDetached ==
    ~JniMayFail => \A m \in Managers : sdk[m] = "stopped" => Receiver(m) \notin attached

\* What became of the callbacks, for the contract they are kept under.
Phase == [r \in Requests |->
    IF calls[r] # << >> THEN (IF calls[r][1] = None THEN "refused" ELSE "answered")
    ELSE IF r \in cbRefs THEN "waiting"
    ELSE IF pc[r] \in {"idle", "posted", "adding"} THEN "new" ELSE "dropped"]

Contract == INSTANCE CallbackContract WITH phase <- Phase

\* The native code keeps the contract: a callback dropped by a stop, or one
\* that was never stored, is not called later, one that was called is never
\* stored again.  (A callback that a JNI failure makes leak waits for ever.)
KeepsContract == Contract!Spec

\* Liveness, under FairSpec.

\* JNI_stop waits for the receiver, and the receiver for the lock of JNI_stop.
Jammed ==
    \E c \in Ctl : cpc[c] = "stopJoin" /\ spc[Receiver(cmgr[c])] = "take"

\* A control call returns: fun_start in JNI_start comes back to the UI thread,
\* and with it request.h:40, that Stop() stops the service.
ControlReturns == \A c \in Ctl : (cpc[c] # "idle") ~> (cpc[c] = "idle")

\* The wait of JNI_stop for the receiver is the only thing that can keep a
\* control call from returning.
ControlReturnsUnlessJammed ==
    \A c \in Ctl : (cpc[c] # "idle") ~> (cpc[c] = "idle" \/ Jammed)

\* The native request calls come to their end, with the same exception: a pool
\* thread in addRequestCallback may wait behind a JNI_stop that never ends.
RequestReturnsUnlessJammed ==
    \A r \in Requests : (pc[r] = "posted") ~> (pc[r] = "done" \/ Jammed)

\* A stored callback whose answer is on its way is called in the end, or
\* dropped by a restart.
AnswerArrives ==
    \A r \in Requests : (r \in Mapped /\ answer[r] = "own") ~>
        (calls[r] # << >> \/ r \notin cbRefs \/ Jammed)

\* MediaControlManager.java:76 says a callback is passed to the C++ functions
\* to be called; the callback of a message sent by an SDK that runs is called.
SendsMessage(r) ==
    /\ op[r] = "sendMsgToUser" /\ passed[r] /\ pc[r] = "calling"
    /\ mgr[r] \in Managers /\ sdk[mgr[r]] = "running"
MessageCallbackCalled ==
    \A r \in Requests : SendsMessage(r) ~> (calls[r] # << >>)
=============================================================================

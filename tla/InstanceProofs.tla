--------------------------- MODULE InstanceProofs ---------------------------
(***************************************************************************)
(* Theorems about the MediaControlManager instance that MediaJni shares    *)
(* between the control threads and the SDK's threads.                      *)
(***************************************************************************)
EXTENDS MediaJniProofs

-----------------------------------------------------------------------------
(* The invariant: who may be where while a stop is under way.                *)

\* The lock is held from before Stop() until the map is empty.
LockHeld == \A c \in Ctl : Stopping(c) => sCallBackLockMutex = c

\* OneInstance, and what there is between DeleteGlobalRef and the NULL.
RefOfInstance ==
    /\ (\A c \in Ctl : cpc[c] # "stopClear") => instRefs = {sMediaInstance} \ {0}
    /\ (\E c \in Ctl : cpc[c] = "stopClear") => instRefs = {}

\* A joined receiver thread is out of the handlers.
StoppedIdle ==
    \A m \in Managers : sdk[m] \in {"absent", "stopped"} => spc[Receiver(m)] = "idle"

\* An SDK thread is attached only while it is in a handler.
Attachment ==
    ~JniMayFail => \A t \in SdkThreads :
        spc[t] \in {"idle", "take", "call"} => t \notin attached

InstanceInv == LockHeld /\ RefOfInstance /\ StoppedIdle /\ Attachment

\* What the invariant is about.
instanceVars == <<sdk, sCallBackLockMutex, sMediaInstance, sRequestManager, instRefs,
                  attached, ctlVars, spc, sobj>>

LEMMA InstanceUnchanged == ASSUME InstanceInv, UNCHANGED instanceVars PROVE InstanceInv'
<1>. USE DEF instanceVars, ctlVars
<1>1. LockHeld'  BY DEF InstanceInv, LockHeld, Stopping
<1>2. RefOfInstance'  BY DEF InstanceInv, RefOfInstance
<1>3. StoppedIdle'  BY DEF InstanceInv, StoppedIdle
<1>4. Attachment'  BY DEF InstanceInv, Attachment
<1>. QED  BY <1>1, <1>2, <1>3, <1>4 DEF InstanceInv

LEMMA InitInstance == Init => InstanceInv
<1>. SUFFICES ASSUME Init PROVE InstanceInv
  OBVIOUS
<1>1. LockHeld  BY DEF Init, LockHeld, Stopping
<1>2. RefOfInstance  BY DEF Init, RefOfInstance
<1>3. StoppedIdle  BY ThreadsFacts DEF Init, StoppedIdle
<1>4. Attachment  BY DEF Init, Attachment
<1>. QED  BY <1>1, <1>2, <1>3, <1>4 DEF InstanceInv

-----------------------------------------------------------------------------
(* Control threads.                                                          *)

\* A step of a control thread that leaves the lock, the instance and the SDK
\* alone and neither enters nor leaves the part under the lock.
LEMMA CtlMoves ==
  ASSUME TypeOK, InstanceInv, NEW c \in Ctl, ~Stopping(c), ~Stopping(c)',
         cpc' = [cpc EXCEPT ![c] = cpc'[c]],
         UNCHANGED <<sdk, sCallBackLockMutex, sMediaInstance, instRefs, attached, spc>>
  PROVE  InstanceInv'
<1>1. LockHeld'
  BY DEF InstanceInv, LockHeld, Stopping, TypeOK, CtlTypeOK
<1>2. RefOfInstance'
  <2>1. \A d \in Ctl : cpc'[d] = "stopClear" <=> cpc[d] = "stopClear"
    BY DEF Stopping, TypeOK, CtlTypeOK
  <2>. QED  BY <2>1 DEF InstanceInv, RefOfInstance
<1>3. StoppedIdle' /\ Attachment'
  BY DEF InstanceInv, StoppedIdle, Attachment
<1>. QED  BY <1>1, <1>2, <1>3 DEF InstanceInv

LEMMA CtlCallsInstance ==
  ASSUME TypeOK, InstanceInv, NEW c \in Ctl, CtlCalls(c) PROVE InstanceInv'
<1>1. PICK f \in {"start", "stop", "destory"}, step \in {"stopLock", "startLock"} :
        Call(c, f, step)
  BY DEF CtlCalls, JNI_start, JNI_stop, JNI_destory
<1>2. /\ ~Stopping(c) /\ ~Stopping(c)'
      /\ cpc' = [cpc EXCEPT ![c] = cpc'[c]]
  BY <1>1 DEF Call, Stopping, TypeOK, CtlTypeOK
<1>. QED
  BY <1>1, <1>2, CtlMoves DEF Call, sdkVars, jniVars, refVars, thrVars

LEMMA destoryInstance ==
  ASSUME TypeOK, InstanceInv, NEW c \in Ctl, destoryRequestManager(c) PROVE InstanceInv'
<1>1. /\ ~Stopping(c) /\ ~Stopping(c)'
      /\ cpc' = [cpc EXCEPT ![c] = cpc'[c]]
  BY DEF destoryRequestManager, Return, Stopping, TypeOK, CtlTypeOK
<1>. QED
  BY <1>1, CtlMoves DEF destoryRequestManager, sdkVars, refVars, thrVars

LEMMA StopBeginInstance ==
  ASSUME TypeOK, InstanceInv, NEW c \in Ctl, StopBegin(c) PROVE InstanceInv'
<1>1. CASE sRequestManager = NoManager
  BY <1>1, InstanceUnchanged DEF StopBegin, instanceVars, refVars, thrVars, ctlVars
<1>2. CASE sRequestManager # NoManager
  <2>. USE <1>2 DEF StopBegin
  <2>1. \A d \in Ctl : ~Stopping(d)
    BY NullAssumption DEF InstanceInv, LockHeld
  <2>2. /\ sCallBackLockMutex' = c
        /\ cpc' = [cpc EXCEPT ![c] = "stopJoin"]
        /\ UNCHANGED <<sMediaInstance, instRefs, attached, spc>>
    BY DEF refVars, thrVars
  <2>3. LockHeld'
    BY <2>1, <2>2 DEF LockHeld, Stopping, TypeOK, CtlTypeOK
  <2>4. RefOfInstance'
    <3>1. \A d \in Ctl : cpc[d] # "stopClear" /\ cpc'[d] # "stopClear"
      BY <2>1, <2>2 DEF Stopping, TypeOK, CtlTypeOK
    <3>. QED  BY <3>1, <2>2 DEF InstanceInv, RefOfInstance
  <2>5. StoppedIdle'
    BY <2>2 DEF InstanceInv, StoppedIdle, SdkStopBegin, TypeOK, SdkTypeOK
  <2>6. Attachment'
    BY <2>2 DEF InstanceInv, Attachment
  <2>. QED  BY <2>3, <2>4, <2>5, <2>6 DEF InstanceInv
<1>. QED  BY <1>1, <1>2

\* Only one thread is between StopBegin and StopClear.
LEMMA OneStops ==
  ASSUME InstanceInv, NEW c \in Ctl, NEW d \in Ctl, Stopping(c), Stopping(d) PROVE c = d
  BY DEF InstanceInv, LockHeld

LEMMA StopJoinInstance ==
  ASSUME TypeOK, InstanceInv, NEW c \in Ctl, StopJoin(c) PROVE InstanceInv'
<1>. USE DEF StopJoin
<1>1. /\ cpc' = [cpc EXCEPT ![c] = "stopDelete"]
      /\ UNCHANGED <<sCallBackLockMutex, sMediaInstance, instRefs, attached, spc>>
      /\ Stopping(c)
  BY DEF refVars, thrVars, jniVars, Stopping
<1>2. LockHeld'
  BY <1>1 DEF InstanceInv, LockHeld, Stopping, TypeOK, CtlTypeOK
<1>3. RefOfInstance'
  <2>1. \A d \in Ctl : cpc'[d] = "stopClear" <=> cpc[d] = "stopClear"
    BY <1>1 DEF TypeOK, CtlTypeOK
  <2>. QED  BY <2>1, <1>1 DEF InstanceInv, RefOfInstance
<1>4. StoppedIdle'
  BY <1>1 DEF InstanceInv, StoppedIdle, SdkStopEnd, Joined, TypeOK, SdkTypeOK
<1>5. Attachment'
  BY <1>1 DEF InstanceInv, Attachment
<1>. QED  BY <1>2, <1>3, <1>4, <1>5 DEF InstanceInv

LEMMA StopDeleteInstance ==
  ASSUME TypeOK, InstanceInv, NEW c \in Ctl, StopDelete(c) PROVE InstanceInv'
<1>. USE DEF StopDelete, DeleteInstanceRef
<1>1. /\ cpc[c] = "stopDelete" /\ cpc' = [cpc EXCEPT ![c] = "stopClear"]
      /\ UNCHANGED <<sdk, sCallBackLockMutex, sMediaInstance, attached, spc>>
  BY DEF sdkVars, thrVars, jniVars
<1>2. LockHeld'
  BY <1>1 DEF InstanceInv, LockHeld, Stopping, TypeOK, CtlTypeOK
<1>3. RefOfInstance'
  <2>1. \A d \in Ctl : cpc[d] # "stopClear"
    BY <1>1, OneStops DEF Stopping
  <2>2. instRefs' = {}
    BY <2>1 DEF InstanceInv, RefOfInstance
  <2>3. cpc'[c] = "stopClear"
    BY <1>1 DEF TypeOK, CtlTypeOK
  <2>. QED  BY <2>2, <2>3 DEF RefOfInstance
<1>4. StoppedIdle' /\ Attachment'
  BY <1>1 DEF InstanceInv, StoppedIdle, Attachment
<1>. QED  BY <1>2, <1>3, <1>4 DEF InstanceInv

LEMMA StopClearInstance ==
  ASSUME TypeOK, InstanceInv, NEW c \in Ctl, StopClear(c) PROVE InstanceInv'
<1>1. /\ cpc[c] = "stopClear" /\ cpc' = [cpc EXCEPT ![c] = cpc'[c]]
      /\ ~Stopping(c)'
      /\ sMediaInstance' = 0
      /\ UNCHANGED <<sdk, instRefs, attached, spc>>
  BY DEF StopClear, ForgetInstance, sdkVars, thrVars, Stopping, TypeOK, CtlTypeOK
<1>2. \A d \in Ctl : ~Stopping(d)'
  BY <1>1, OneStops DEF Stopping, TypeOK, CtlTypeOK
<1>3. LockHeld'
  BY <1>2 DEF LockHeld
<1>4. RefOfInstance'
  <2>1. instRefs' = {}
    BY <1>1 DEF InstanceInv, RefOfInstance
  <2>2. \A d \in Ctl : cpc'[d] # "stopClear"
    BY <1>2 DEF Stopping
  <2>. QED  BY <1>1, <2>1, <2>2 DEF RefOfInstance
<1>5. StoppedIdle' /\ Attachment'
  BY <1>1 DEF InstanceInv, StoppedIdle, Attachment
<1>. QED  BY <1>3, <1>4, <1>5 DEF InstanceInv

LEMMA StartLockedInstance ==
  ASSUME TypeOK, InstanceInv, NEW c \in Ctl, NEW ok \in BOOLEAN, StartLocked(c, ok)
  PROVE  InstanceInv'
<1>1. /\ cpc' = [cpc EXCEPT ![c] = "idle"]
      /\ sCallBackLockMutex = Free
      /\ UNCHANGED <<sCallBackLockMutex, attached, spc>>
  BY DEF StartLocked, Return, thrVars
<1>2. \A d \in Ctl : ~Stopping(d) /\ ~Stopping(d)'
  BY <1>1, NullAssumption DEF InstanceInv, LockHeld, Stopping, TypeOK, CtlTypeOK
<1>3. LockHeld'
  BY <1>2 DEF LockHeld
<1>4. RefOfInstance'
  <2>1. \A d \in Ctl : cpc[d] # "stopClear" /\ cpc'[d] # "stopClear"
    BY <1>2 DEF Stopping
  <2>2. instRefs = {sMediaInstance} \ {0}
    BY <2>1 DEF InstanceInv, RefOfInstance
  <2>3. instRefs' = {sMediaInstance'} \ {0}
    <3>1. CASE UNCHANGED <<sMediaInstance, instRefs>>
      BY <3>1, <2>2
    <3>2. CASE /\ sMediaInstance = 0
               /\ sMediaInstance' = starts + 1
               /\ instRefs' = instRefs \cup {starts + 1}
      <4>1. starts + 1 # 0
        BY DEF TypeOK, RefsTypeOK
      <4>. QED  BY <3>2, <4>1, <2>2
    <3>. QED  BY <3>1, <3>2 DEF StartLocked, InstanceIsSet
  <2>. QED  BY <2>1, <2>3 DEF RefOfInstance
<1>5. StoppedIdle'
  BY <1>1 DEF StartLocked, InstanceInv, StoppedIdle, SdkStart, TypeOK, SdkTypeOK
<1>6. Attachment'
  BY <1>1 DEF InstanceInv, Attachment
<1>. QED  BY <1>3, <1>4, <1>5, <1>6 DEF InstanceInv

-----------------------------------------------------------------------------
(* SDK threads.                                                              *)

\* A step of one SDK thread: the receiver's first one changes the state of its
\* manager, which must not be stopped.
HandlerMoves(t) ==
    /\ UNCHANGED <<sCallBackLockMutex, sMediaInstance, sRequestManager, instRefs, ctlVars>>
    /\ \E p : spc' = [spc EXCEPT ![t] = p]
    /\ \E i : sobj' = [sobj EXCEPT ![t] = i]
    /\ attached' \in {attached, attached \cup {t}, attached \ {t}}
    /\ \A m \in Managers :
          \/ sdk'[m] = sdk[m] /\ (t = Receiver(m) => spc[t] # "idle")
          \/ sdk[m] = "running" /\ sdk'[m] = "running"
          \/ sdk[m] = "stopping" /\ sdk'[m] = "joining"

LEMMA HandlerInstance ==
  ASSUME TypeOK, InstanceInv, NEW t \in SdkThreads, HandlerMoves(t),
         ~JniMayFail /\ spc'[t] \in {"idle", "take", "call"} => t \notin attached'
  PROVE  InstanceInv'
<1>. USE DEF HandlerMoves, ctlVars
<1>1. LockHeld'  BY DEF InstanceInv, LockHeld, Stopping
<1>2. RefOfInstance'  BY DEF InstanceInv, RefOfInstance
<1>3. StoppedIdle'
  <2>. SUFFICES ASSUME NEW m \in Managers, sdk'[m] \in {"absent", "stopped"}
                PROVE  spc'[Receiver(m)] = "idle"
    BY DEF StoppedIdle
  <2>1. sdk[m] = sdk'[m] /\ spc[Receiver(m)] = "idle"
    BY DEF InstanceInv, StoppedIdle
  <2>2. t # Receiver(m)
    BY <2>1
  <2>. QED  BY <2>1, <2>2, ThreadsFacts DEF TypeOK, ThreadsTypeOK
<1>4. Attachment'
  <2>1. \A u \in SdkThreads \ {t} :
          spc'[u] = spc[u] /\ (u \in attached' <=> u \in attached)
    BY DEF TypeOK, ThreadsTypeOK
  <2>. QED  BY <2>1 DEF InstanceInv, Attachment
<1>. QED  BY <1>1, <1>2, <1>3, <1>4 DEF InstanceInv

LEMMA SdkThreadStepMoves ==
  ASSUME TypeOK, NEW t \in SdkThreads, SdkThreadStep(t)
  PROVE  HandlerMoves(t) /\ UNCHANGED sdk
<1>. USE DEF HandlerMoves, sdkVars, jniVars, reqVars, JNI_get_env, JNI_put_env
<1>0. sobj = [sobj EXCEPT ![t] = sobj[t]]
  BY DEF TypeOK, ThreadsTypeOK
<1>1. CASE getRequestCallback(t)
  BY <1>0, <1>1 DEF getRequestCallback, refVars
<1>2. CASE AnswerFails(t)
  BY <1>0, <1>2 DEF AnswerFails
<1>3. CASE InvokeCallback(t)
  BY <1>0, <1>3 DEF InvokeCallback
<1>4. CASE ReleaseCallback(t)
  BY <1>0, <1>4 DEF ReleaseCallback
<1>5. CASE CheckInstance(t)
  BY <1>0, <1>5 DEF CheckInstance
<1>6. CASE CallInstance(t)
  BY <1>6 DEF CallInstance
<1>. QED  BY <1>1, <1>2, <1>3, <1>4, <1>5, <1>6 DEF SdkThreadStep

LEMMA SdkThreadStepInstance ==
  ASSUME TypeOK, InstanceInv, NEW t \in SdkThreads, SdkThreadStep(t) PROVE InstanceInv'
<1>1. ASSUME ~JniMayFail, spc'[t] \in {"idle", "take", "call"} PROVE t \notin attached'
  <2>1. CASE getRequestCallback(t)
    BY <1>1, <2>1 DEF getRequestCallback, refVars, InstanceInv, Attachment
  <2>2. CASE InvokeCallback(t)
    BY <1>1, <2>2 DEF InvokeCallback, TypeOK, ThreadsTypeOK
  <2>3. CASE ReleaseCallback(t) \/ CallInstance(t)
    BY <2>3 DEF ReleaseCallback, CallInstance, JNI_put_env
  <2>4. CASE CheckInstance(t)
    BY <1>1, <2>4 DEF CheckInstance, JNI_put_env, TypeOK, ThreadsTypeOK
  <2>. QED
    BY <1>1, <2>1, <2>2, <2>3, <2>4 DEF SdkThreadStep, AnswerFails
<1>. QED  BY <1>1, SdkThreadStepMoves, HandlerInstance

LEMMA ReportMoves ==
  ASSUME SdkTypeOK, NEW m \in Managers, ReceiverReports(m)
  PROVE  /\ \/ sdk[m] = "running" /\ sdk'[m] = "running"
            \/ sdk[m] = "stopping" /\ sdk'[m] = "joining"
         /\ \A n \in Managers \ {m} : sdk'[n] = sdk[n]
  BY DEF ReceiverReports, ReceiverLoops, SdkTypeOK

LEMMA ReceiverIsItsOwn ==
  ASSUME NEW m \in Managers, NEW n \in Managers, Receiver(m) = Receiver(n) PROVE m = n
  BY DEF Receiver

LEMMA OnAnswerMoves ==
  ASSUME TypeOK, NEW m \in Managers, NEW r \in Requests, OnAnswer(m, r)
  PROVE  HandlerMoves(Receiver(m)) /\ spc' = [spc EXCEPT ![Receiver(m)] = "take"]
<1>1. /\ UNCHANGED <<sCallBackLockMutex, sMediaInstance, sRequestManager, instRefs,
                     ctlVars, attached>>
      /\ spc' = [spc EXCEPT ![Receiver(m)] = "take"]
      /\ sobj' = [sobj EXCEPT ![Receiver(m)] = sobj[Receiver(m)]]
      /\ ReceiverReports(m)
  BY DEF OnAnswer, jniVars, refVars, TypeOK, ThreadsTypeOK
<1>. QED  BY <1>1, ReportMoves, ReceiverIsItsOwn DEF HandlerMoves, TypeOK

LEMMA OnAnswerInstance ==
  ASSUME TypeOK, InstanceInv, NEW m \in Managers, NEW r \in Requests, OnAnswer(m, r)
  PROVE  InstanceInv'
<1>1. spc[Receiver(m)] = "idle" /\ UNCHANGED attached
  BY DEF OnAnswer, refVars
<1>2. ~JniMayFail => Receiver(m) \notin attached'
  BY <1>1, ThreadsFacts DEF InstanceInv, Attachment
<1>. QED  BY <1>2, OnAnswerMoves, HandlerInstance, ThreadsFacts

LEMMA ReceiverNotifiesMoves ==
  ASSUME TypeOK, NEW m \in Managers, ReceiverNotifies(m)
  PROVE  HandlerMoves(Receiver(m)) /\ BeginNotify(Receiver(m))
<1>1. BeginNotify(Receiver(m)) /\ ReceiverReports(m)
  BY DEF ReceiverNotifies, StartRelogin, EndRelogin, RecvMsg
<1>2. /\ UNCHANGED <<sCallBackLockMutex, sMediaInstance, sRequestManager, instRefs, ctlVars>>
      /\ \E p : spc' = [spc EXCEPT ![Receiver(m)] = p]
      /\ \E i : sobj' = [sobj EXCEPT ![Receiver(m)] = i]
      /\ attached' \in {attached, attached \cup {Receiver(m)}, attached \ {Receiver(m)}}
  <2>1. /\ spc = [spc EXCEPT ![Receiver(m)] = spc[Receiver(m)]]
        /\ sobj = [sobj EXCEPT ![Receiver(m)] = sobj[Receiver(m)]]
    BY DEF TypeOK, ThreadsTypeOK
  <2>. QED  BY <1>1, <2>1 DEF BeginNotify, JNI_get_env, jniVars
<1>. QED  BY <1>1, <1>2, ReportMoves, ReceiverIsItsOwn DEF HandlerMoves, TypeOK

LEMMA TimerNotifiesMoves ==
  ASSUME TypeOK, NEW m \in Managers, TimerNotifies(m)
  PROVE  HandlerMoves(Timer(m)) /\ BeginNotify(Timer(m)) /\ UNCHANGED sdk
<1>1. BeginNotify(Timer(m)) /\ UNCHANGED sdk
  BY DEF TimerNotifies, ReloginGivesUp
<1>2. /\ UNCHANGED <<sCallBackLockMutex, sMediaInstance, sRequestManager, instRefs, ctlVars>>
      /\ \E p : spc' = [spc EXCEPT ![Timer(m)] = p]
      /\ \E i : sobj' = [sobj EXCEPT ![Timer(m)] = i]
      /\ attached' \in {attached, attached \cup {Timer(m)}, attached \ {Timer(m)}}
  <2>1. /\ spc = [spc EXCEPT ![Timer(m)] = spc[Timer(m)]]
        /\ sobj = [sobj EXCEPT ![Timer(m)] = sobj[Timer(m)]]
    BY DEF TypeOK, ThreadsTypeOK
  <2>. QED  BY <1>1, <2>1 DEF BeginNotify, JNI_get_env, jniVars
<1>3. \A n \in Managers : Timer(m) # Receiver(n)
  BY DEF Timer, Receiver
<1>. QED  BY <1>1, <1>2, <1>3 DEF HandlerMoves

LEMMA NotifyInstance ==
  ASSUME TypeOK, InstanceInv, NEW t \in SdkThreads, HandlerMoves(t), BeginNotify(t)
  PROVE  InstanceInv'
<1>1. ~JniMayFail => spc'[t] = "check"
  BY DEF BeginNotify, TypeOK, ThreadsTypeOK
<1>. QED  BY <1>1, HandlerInstance

-----------------------------------------------------------------------------
LEMMA NextInstance ==
  ASSUME TypeOK, InstanceInv, [Next]_vars PROVE InstanceInv'
<1>1. ASSUME NEW r \in Requests, Post(r) \/ RequestStep(r) PROVE InstanceInv'
  BY <1>1, InstanceUnchanged
     DEF RequestStep, Post, BeginRequest, addRequestCallback, CallSdk, instanceVars,
         sdkVars, jniVars, refVars, thrVars
<1>2. ASSUME NEW c \in Ctl, CtlCalls(c) \/ CtlStep(c) PROVE InstanceInv'
  BY <1>2, CtlCallsInstance, StopBeginInstance, StopJoinInstance, StopDeleteInstance,
     StopClearInstance, StartLockedInstance, destoryInstance DEF CtlStep, StopStep
<1>3. ASSUME NEW m \in Managers, ReceiverNotifies(m) \/ TimerNotifies(m) PROVE InstanceInv'
  BY <1>3, ThreadsFacts, ReceiverNotifiesMoves, TimerNotifiesMoves, NotifyInstance
<1>4. CASE SdkAlone \/ UNCHANGED vars
  BY <1>4, InstanceUnchanged
     DEF SdkAlone, SdkDraw, instanceVars, vars, sdkVars, jniVars, refVars, thrVars
<1>. QED
  BY <1>1, <1>2, <1>3, <1>4, OnAnswerInstance, SdkThreadStepInstance DEF Next

LEMMA InstanceCorrect == Spec => []InstanceInv
  BY InitInstance, NextInstance, TypeCorrect, PTL DEF Spec

\* However many threads start, stop and destroy the SDK, there is at most one
\* live reference to the instance, and that is the one in sMediaInstance.
THEOREM OneInstanceCorrect == Spec => []OneInstance
<1>1. InstanceInv => OneInstance
  BY DEF InstanceInv, RefOfInstance, OneInstance
<1>. QED  BY <1>1, InstanceCorrect, PTL

\* No receiver thread that Stop() has joined was attached to the JVM at its end.
THEOREM JoinedDetachedCorrect == Spec => []JoinedDetached
<1>1. InstanceInv => JoinedDetached
  BY ThreadsFacts DEF InstanceInv, StoppedIdle, Attachment, JoinedDetached
<1>. QED  BY <1>1, InstanceCorrect, PTL

-----------------------------------------------------------------------------
(* The receiver's instance.  Without JNI_destory there is one manager for    *)
(* good, so what is stopped is what the receiver belongs to.                 *)

NoForget == \A c \in Ctl : cpc[c] # "forget"
OnlyManager == \A m \in Managers : m # sRequestManager => sdk[m] = "absent"
StopsManager ==
    \A c \in Ctl : Stopping(c) => cmgr[c] = sRequestManager /\ sRequestManager \in Managers
StoppedMeanwhile ==
    \A c \in Ctl : cpc[c] \in {"stopDelete", "stopClear"} => sdk[sRequestManager] = "stopped"
SeesInstance ==
    \A m \in Managers : spc[Receiver(m)] = "notify" =>
        sMediaInstance # 0 /\ sobj[Receiver(m)] = sMediaInstance

ManagerInv == NoForget /\ OnlyManager /\ StopsManager /\ StoppedMeanwhile /\ SeesInstance

LEMMA ManagerUnchanged == ASSUME ManagerInv, UNCHANGED instanceVars PROVE ManagerInv'
<1>. USE DEF instanceVars, ctlVars
<1>1. NoForget' /\ OnlyManager'
  BY DEF ManagerInv, NoForget, OnlyManager
<1>2. StopsManager' /\ StoppedMeanwhile'
  BY DEF ManagerInv, StopsManager, StoppedMeanwhile, Stopping
<1>3. SeesInstance'
  BY DEF ManagerInv, SeesInstance
<1>. QED  BY <1>1, <1>2, <1>3 DEF ManagerInv

LEMMA InitManager == Init => ManagerInv
<1>. SUFFICES ASSUME Init PROVE ManagerInv
  OBVIOUS
<1>1. NoForget /\ OnlyManager
  BY DEF Init, SdkInit, NoForget, OnlyManager
<1>2. StopsManager /\ StoppedMeanwhile
  BY DEF Init, StopsManager, StoppedMeanwhile, Stopping
<1>3. SeesInstance
  BY ThreadsFacts DEF Init, SeesInstance
<1>. QED  BY <1>1, <1>2, <1>3 DEF ManagerInv

\* While the instance is deleted no receiver thread is in a handler.
LEMMA AllIdle ==
  ASSUME InstanceInv, ManagerInv, NEW c \in Ctl, cpc[c] \in {"stopDelete", "stopClear"},
         NEW m \in Managers
  PROVE  spc[Receiver(m)] = "idle"
  BY DEF InstanceInv, StoppedIdle, ManagerInv, OnlyManager, StoppedMeanwhile

LEMMA HandlerManager ==
  ASSUME TypeOK, ManagerInv, NEW t \in SdkThreads, HandlerMoves(t),
         spc'[t] = "notify" => sMediaInstance # 0 /\ sobj'[t] = sMediaInstance
  PROVE  ManagerInv'
<1>. USE DEF HandlerMoves, ctlVars
<1>1. NoForget' /\ OnlyManager'
  BY DEF ManagerInv, NoForget, OnlyManager
<1>2. StopsManager'
  BY DEF ManagerInv, StopsManager, Stopping
<1>3. StoppedMeanwhile'
  <2>. SUFFICES ASSUME NEW c \in Ctl, cpc[c] \in {"stopDelete", "stopClear"}
                PROVE  sdk'[sRequestManager] = "stopped"
    BY DEF StoppedMeanwhile
  <2>1. sRequestManager \in Managers /\ sdk[sRequestManager] = "stopped"
    BY DEF ManagerInv, StopsManager, StoppedMeanwhile, Stopping
  <2>. QED  BY <2>1
<1>4. SeesInstance'
  <2>1. \A u \in SdkThreads \ {t} : spc'[u] = spc[u] /\ sobj'[u] = sobj[u]
    BY DEF TypeOK, ThreadsTypeOK
  <2>. QED  BY <2>1, ThreadsFacts DEF ManagerInv, SeesInstance
<1>. QED  BY <1>1, <1>2, <1>3, <1>4 DEF ManagerInv

LEMMA SdkThreadStepManager ==
  ASSUME TypeOK, ManagerInv, NEW t \in SdkThreads, SdkThreadStep(t) PROVE ManagerInv'
<1>1. ASSUME spc'[t] = "notify" PROVE sMediaInstance # 0 /\ sobj'[t] = sMediaInstance
  <2>. USE DEF TypeOK, ThreadsTypeOK
  <2>1. CASE CheckInstance(t)
    BY <1>1, <2>1 DEF CheckInstance
  <2>2. CASE getRequestCallback(t)
    BY <1>1, <2>2 DEF getRequestCallback
  <2>3. CASE AnswerFails(t) \/ InvokeCallback(t)
    BY <1>1, <2>3 DEF AnswerFails, InvokeCallback
  <2>4. CASE ReleaseCallback(t) \/ CallInstance(t)
    BY <1>1, <2>4 DEF ReleaseCallback, CallInstance
  <2>. QED  BY <2>1, <2>2, <2>3, <2>4 DEF SdkThreadStep
<1>. QED  BY <1>1, SdkThreadStepMoves, HandlerManager

LEMMA EntersManager ==
  ASSUME TypeOK, ManagerInv, NEW t \in SdkThreads, HandlerMoves(t),
         spc'[t] \in {"take", "check", "idle"}
  PROVE  ManagerInv'
  BY HandlerManager

\* Calls, the crash of StopBegin, and the parts of StopDelete and StartLocked that
\* leave the manager alone.
LEMMA CtlMovesManager ==
  ASSUME TypeOK, ManagerInv, NEW c \in Ctl, NEW p,
         p # "forget", p \in {"stopJoin", "stopDelete", "stopClear"} => Stopping(c),
         p \in {"stopDelete", "stopClear"} => cpc[c] \in {"stopDelete", "stopClear"},
         cpc' = [cpc EXCEPT ![c] = p],
         UNCHANGED <<sdk, sMediaInstance, sRequestManager, cmgr, spc, sobj>>
  PROVE  ManagerInv'
<1>0. /\ cpc'[c] = p
      /\ \A d \in Ctl \ {c} : cpc'[d] = cpc[d]
  BY DEF TypeOK, CtlTypeOK
<1>1. NoForget' /\ OnlyManager'
  BY <1>0 DEF ManagerInv, NoForget, OnlyManager
<1>2. StopsManager'
  BY <1>0 DEF ManagerInv, StopsManager, Stopping
<1>3. StoppedMeanwhile'
  BY <1>0 DEF ManagerInv, StoppedMeanwhile
<1>4. SeesInstance'
  BY DEF ManagerInv, SeesInstance
<1>. QED  BY <1>1, <1>2, <1>3, <1>4 DEF ManagerInv

LEMMA CtlCallsManager ==
  ASSUME TypeOK, ManagerInv, NEW c \in Ctl, CtlCalls(c) PROVE ManagerInv'
<1>1. PICK f \in {"start", "stop", "destory"}, step \in {"stopLock", "startLock"} :
        Call(c, f, step)
  BY DEF CtlCalls, JNI_start, JNI_stop, JNI_destory
<1>. QED  BY <1>1, CtlMovesManager DEF Call, sdkVars, jniVars, thrVars

LEMMA StopBeginManager ==
  ASSUME TypeOK, InstanceInv, ManagerInv, NEW c \in Ctl, StopBegin(c) PROVE ManagerInv'
<1>1. CASE sRequestManager = NoManager
  BY <1>1, ManagerUnchanged DEF StopBegin, instanceVars, refVars, thrVars, ctlVars
<1>2. CASE sRequestManager # NoManager
  <2>. USE <1>2 DEF StopBegin
  <2>1. \A d \in Ctl : ~Stopping(d)
    BY NullAssumption DEF InstanceInv, LockHeld
  <2>2. /\ cpc' = [cpc EXCEPT ![c] = "stopJoin"]
        /\ cmgr' = [cmgr EXCEPT ![c] = sRequestManager]
        /\ SdkStopBegin(sRequestManager)
        /\ UNCHANGED <<sMediaInstance, sRequestManager, spc, sobj>>
        /\ sRequestManager \in Managers
    BY DEF thrVars, TypeOK, StaticsTypeOK
  <2>3. /\ cpc'[c] = "stopJoin" /\ cmgr'[c] = sRequestManager
        /\ \A d \in Ctl \ {c} : cpc'[d] = cpc[d]
    BY <2>2 DEF TypeOK, CtlTypeOK
  <2>4. NoForget' /\ OnlyManager'
    BY <2>2, <2>3 DEF ManagerInv, NoForget, OnlyManager, SdkStopBegin, TypeOK, SdkTypeOK
  <2>5. StopsManager' /\ StoppedMeanwhile'
    BY <2>1, <2>2, <2>3 DEF StopsManager, StoppedMeanwhile, Stopping
  <2>6. SeesInstance'
    BY <2>2 DEF ManagerInv, SeesInstance
  <2>. QED  BY <2>4, <2>5, <2>6 DEF ManagerInv
<1>. QED  BY <1>1, <1>2

LEMMA StopJoinManager ==
  ASSUME TypeOK, InstanceInv, ManagerInv, NEW c \in Ctl, StopJoin(c) PROVE ManagerInv'
<1>1. /\ Stopping(c) /\ SdkStopEnd(cmgr[c])
      /\ cpc' = [cpc EXCEPT ![c] = "stopDelete"]
      /\ UNCHANGED <<sMediaInstance, sRequestManager, cmgr, spc, sobj>>
  BY DEF StopJoin, Stopping, jniVars, thrVars
<1>2. cmgr[c] = sRequestManager /\ sRequestManager \in Managers
  BY <1>1 DEF ManagerInv, StopsManager
<1>3. /\ cpc'[c] = "stopDelete"
      /\ \A d \in Ctl \ {c} : cpc'[d] = cpc[d] /\ ~Stopping(d)
  BY <1>1, OneStops DEF TypeOK, CtlTypeOK
<1>4. /\ sdk'[sRequestManager] = "stopped"
      /\ \A m \in Managers \ {sRequestManager} : sdk'[m] = sdk[m]
  BY <1>1, <1>2 DEF SdkStopEnd, TypeOK, SdkTypeOK
<1>5. NoForget' /\ OnlyManager'
  BY <1>1, <1>3, <1>4 DEF ManagerInv, NoForget, OnlyManager
<1>6. StopsManager' /\ StoppedMeanwhile'
  BY <1>1, <1>2, <1>3, <1>4 DEF StopsManager, StoppedMeanwhile, Stopping
<1>7. SeesInstance'
  BY <1>1 DEF ManagerInv, SeesInstance
<1>. QED  BY <1>5, <1>6, <1>7 DEF ManagerInv

LEMMA StopDeleteManager ==
  ASSUME TypeOK, ManagerInv, NEW c \in Ctl, StopDelete(c) PROVE ManagerInv'
  BY CtlMovesManager DEF StopDelete, Stopping, sdkVars, jniVars, thrVars

LEMMA StopClearManager ==
  ASSUME TypeOK, InstanceInv, ManagerInv, NEW c \in Ctl, StopClear(c),
         "destory" \notin NativeCalls
  PROVE  ManagerInv'
<1>1. /\ cpc[c] = "stopClear" /\ cpc' = [cpc EXCEPT ![c] = cpc'[c]]
      /\ cpc'[c] \in {"startLock", "idle"}
      /\ UNCHANGED <<sdk, sRequestManager, spc>>
  BY OpsAssumption DEF StopClear, sdkVars, thrVars, TypeOK, CtlTypeOK
<1>2. \A d \in Ctl \ {c} : cpc'[d] = cpc[d] /\ ~Stopping(d)
  BY <1>1, OneStops DEF Stopping, TypeOK, CtlTypeOK
<1>3. NoForget' /\ OnlyManager'
  BY <1>1, <1>2 DEF ManagerInv, NoForget, OnlyManager
<1>4. StopsManager' /\ StoppedMeanwhile'
  BY <1>1, <1>2 DEF StopsManager, StoppedMeanwhile, Stopping
<1>5. SeesInstance'
  BY <1>1, AllIdle DEF SeesInstance
<1>. QED  BY <1>3, <1>4, <1>5 DEF ManagerInv

LEMMA StartLockedManager ==
  ASSUME TypeOK, InstanceInv, ManagerInv, NEW c \in Ctl, NEW ok \in BOOLEAN, StartLocked(c, ok)
  PROVE  ManagerInv'
<1>1. /\ cpc' = [cpc EXCEPT ![c] = "idle"]
      /\ UNCHANGED <<cmgr, spc, sobj>>
  BY DEF StartLocked, Return, thrVars
<1>2. CASE UNCHANGED <<sdk, sMediaInstance, sRequestManager>>
  BY <1>1, <1>2, CtlMovesManager
<1>3. CASE ~UNCHANGED <<sdk, sMediaInstance, sRequestManager>>
  <2>1. sMediaInstance = 0
    BY <1>3 DEF StartLocked, InstanceIsSet
  <2>2. PICK m \in Managers :
          /\ sRequestManager \in {NoManager, m}
          /\ sRequestManager' = m
          /\ SdkStart(m, ok)
    BY <1>3 DEF StartLocked
  <2>3. \A d \in Ctl : ~Stopping(d) /\ cpc'[d] # "forget" /\ ~Stopping(d)'
    <3>1. \A d \in Ctl : ~Stopping(d)
      BY NullAssumption DEF StartLocked, InstanceInv, LockHeld
    <3>. QED  BY <1>1, <3>1 DEF Stopping, TypeOK, CtlTypeOK, ManagerInv, NoForget
  <2>4. NoForget'
    BY <2>3 DEF NoForget
  <2>5. OnlyManager'
    BY <2>2, NullAssumption DEF ManagerInv, OnlyManager, SdkStart, TypeOK, SdkTypeOK
  <2>6. StopsManager' /\ StoppedMeanwhile'
    BY <2>3 DEF StopsManager, StoppedMeanwhile, Stopping
  <2>7. SeesInstance'
    BY <1>1, <2>1 DEF ManagerInv, SeesInstance
  <2>. QED  BY <2>4, <2>5, <2>6, <2>7 DEF ManagerInv
<1>. QED  BY <1>2, <1>3

LEMMA NextManager ==
  ASSUME TypeOK, InstanceInv, ManagerInv, [Next]_vars, "destory" \notin NativeCalls
  PROVE  ManagerInv'
<1>1. ASSUME NEW r \in Requests, Post(r) \/ RequestStep(r) PROVE ManagerInv'
  BY <1>1, ManagerUnchanged
     DEF RequestStep, Post, BeginRequest, addRequestCallback, CallSdk, instanceVars,
         sdkVars, jniVars, refVars, thrVars
<1>2. ASSUME NEW c \in Ctl, destoryRequestManager(c) PROVE FALSE
  BY <1>2 DEF destoryRequestManager, ManagerInv, NoForget
<1>3. ASSUME NEW c \in Ctl, CtlCalls(c) \/ CtlStep(c) PROVE ManagerInv'
  BY <1>2, <1>3, CtlCallsManager, StopBeginManager, StopJoinManager, StopDeleteManager,
     StopClearManager, StartLockedManager DEF CtlStep, StopStep
<1>4. ASSUME NEW m \in Managers, NEW r \in Requests, OnAnswer(m, r) PROVE ManagerInv'
  <2>1. spc'[Receiver(m)] = "take"
    BY <1>4, OnAnswerMoves, ThreadsFacts DEF TypeOK, ThreadsTypeOK
  <2>. QED  BY <1>4, <2>1, OnAnswerMoves, EntersManager, ThreadsFacts
<1>5. ASSUME NEW t \in SdkThreads, BeginNotify(t) PROVE spc'[t] \in {"check", "idle"}
  BY <1>5 DEF BeginNotify, TypeOK, ThreadsTypeOK
<1>6. ASSUME NEW m \in Managers, ReceiverNotifies(m) \/ TimerNotifies(m) PROVE ManagerInv'
  BY <1>5, <1>6, ThreadsFacts, ReceiverNotifiesMoves, TimerNotifiesMoves, EntersManager
<1>7. CASE SdkAlone \/ UNCHANGED vars
  BY <1>7, ManagerUnchanged
     DEF SdkAlone, SdkDraw, instanceVars, vars, sdkVars, jniVars, refVars, thrVars
<1>. QED
  BY <1>1, <1>3, <1>4, <1>6, <1>7, SdkThreadStepManager DEF Next

\* A receiver thread that is about to call a method of the instance finds a
\* live one, whatever control threads start and stop meanwhile.
THEOREM ReceiverSeesLiveInstanceCorrect == Spec => []ReceiverSeesLiveInstance
<1>1. CASE "destory" \in NativeCalls
  <2>1. ReceiverSeesLiveInstance
    BY <1>1 DEF ReceiverSeesLiveInstance
  <2>. QED  BY <2>1, PTL
<1>2. CASE "destory" \notin NativeCalls
  <2>1. TypeOK /\ InstanceInv /\ ManagerInv /\ [Next]_vars => ManagerInv'
    BY <1>2, NextManager
  <2>2. InstanceInv /\ ManagerInv => ReceiverSeesLiveInstance
    <3>. SUFFICES ASSUME InstanceInv, ManagerInv, NEW m \in Managers,
                         spc[Receiver(m)] = "notify"
                  PROVE  {sobj[Receiver(m)], sMediaInstance} \subseteq instRefs
      BY DEF ReceiverSeesLiveInstance
    <3>1. \A c \in Ctl : cpc[c] # "stopClear"
      BY AllIdle
    <3>2. instRefs = {sMediaInstance} \ {0}
      BY <3>1 DEF InstanceInv, RefOfInstance
    <3>. QED  BY <3>2 DEF ManagerInv, SeesInstance
  <2>. QED
    BY <2>1, <2>2, InitManager, TypeCorrect, InstanceCorrect, PTL DEF Spec
<1>. QED  BY <1>1, <1>2
=============================================================================

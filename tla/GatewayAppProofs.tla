-------------------------- MODULE GatewayAppProofs --------------------------
(***************************************************************************)
(* Theorems about GatewayApp: the app drives the bridge as MediaJni allows *)
(* it to be driven, so what is proved of MediaJni holds in the app; with   *)
(* one control thread instance and manager are there whenever a button can *)
(* be clicked, and the SDK is as fun_start has reported; what a callback   *)
(* is told is what the server said; and the connection status is that of   *)
(* the last report.                                                        *)
(***************************************************************************)
EXTENDS GatewayApp, InstanceProofs, AnswerProofs, SequenceTheorems

-----------------------------------------------------------------------------
(* The app implements MediaJni.                                              *)

LEMMA AppStep == ASSUME [AppNext]_allVars PROVE [Next]_vars
<1>1. CASE UNCHANGED allVars
  BY <1>1 DEF allVars
<1>2. CASE AppNext
  <2>. USE <1>2 DEF AppNext
  <2>1. ~crashed
    OBVIOUS
  <2>2. CASE onCreate
    BY <2>1, <2>2, AppAssumption DEF onCreate, Next, CtlCalls
  <2>3. CASE setConncetStatus
    BY <2>3 DEF setConncetStatus
  <2>4. ASSUME NEW r \in Requests, onClick(r) \/ Refuse(r) PROVE Next
    BY <2>1, <2>4 DEF onClick, Refuse, Next, RequestStep
  <2>5. ASSUME NEW t \in SdkThreads, Answer(t) \/ Check(t) \/ Deliver(t) PROVE Next
    BY <2>1, <2>5 DEF Answer, Check, Deliver, Next, SdkThreadStep
  <2>6. ASSUME NEW m \in Managers, Notify(m) \/ GiveUp(m) PROVE Next
    BY <2>1, <2>6 DEF Notify, GiveUp, Next, ReceiverNotifies
  <2>7. CASE init
    BY <2>1, <2>7, AppAssumption DEF init, Next, CtlStep
  <2>8. CASE BridgeStep
    BY <2>1, <2>8, AppAssumption DEF BridgeStep, Next, RequestStep, CtlStep, SdkThreadStep
  <2>. QED  BY <2>2, <2>3, <2>4, <2>5, <2>6, <2>7, <2>8
<1>. QED  BY <1>1, <1>2

\* Every behaviour of the app is one of the bridge under a single control thread.
THEOREM AppImplementsBridge == AppSpec => Spec
<1>1. AppInit => Init
  BY DEF AppInit
<1>. QED  BY <1>1, AppStep, PTL DEF AppSpec, Spec

\* In the app, too, no callback reference is leaked, deleted twice or used after
\* its deletion, and no callback is called twice.
THEOREM AppCallbacks == AppSpec => [](CallbackOwnership /\ CalledOnce)
  BY AppImplementsBridge, OwnershipCorrect, CalledOnceCorrect, PTL

-----------------------------------------------------------------------------
(* What the last start left when a button can be clicked.                    *)

\* Between two calls, and before the next stop begins, there is an instance ...
Started == starts > 0 /\ cpc[UI] \in {"idle", "stopLock"} => sMediaInstance # 0

\* ... and the SDK is as the last start has reported it to be.
ReturnedTruth ==
    starts > 0 /\ cpc[UI] \in {"idle", "stopLock"} =>
        sdk[sRequestManager] = IF ret THEN "running" ELSE "stopped"

\* A manager that has not been stopped has an instance to tell: no receiver finds
\* sMediaInstance NULL.
HasInstance == \A m \in Managers : sdk[m] \notin {"absent", "stopped"} => sMediaInstance # 0

\* JNI_start comes to its part under the lock with the instance forgotten.
NoneBeforeStart == cpc[UI] = "startLock" => sMediaInstance = 0

\* sRequestManager is set before it is used ...
ManagerKnown ==
    sMediaInstance # 0 \/ cpc[UI] = "stopLock" \/ Stopping(UI)
        => sRequestManager \in Managers

\* ... and what a request has read of it is not NULL.
RequestsKnow ==
    \A r \in Requests :
        /\ pc[r] = "posted" => sRequestManager \in Managers
        /\ pc[r] \in {"adding", "calling"} => mgr[r] \in Managers

StartInv == Started /\ NoneBeforeStart /\ ManagerKnown /\ RequestsKnow /\ ~crashed

LEMMA OneCtl == UI \in Ctl /\ (\A c \in Ctl : c = UI) /\ "destory" \notin NativeCalls
  BY AppAssumption

LEMMA InitStart == Init => StartInv
  BY OneCtl DEF Init, StartInv, Started, NoneBeforeStart, ManagerKnown, RequestsKnow, Stopping

\* A step of a thread that neither starts nor stops.
LEMMA OtherStep ==
  ASSUME StartInv, ManagerInv, TypeOK,
         UNCHANGED <<sMediaInstance, sRequestManager, starts, cpc>>
  PROVE  Started' /\ NoneBeforeStart' /\ ManagerKnown'
<1>1. NoneBeforeStart' /\ ManagerKnown'
  BY DEF StartInv, NoneBeforeStart, ManagerKnown, Stopping
<1>2. Started'
  BY DEF StartInv, Started, ManagerKnown
<1>. QED  BY <1>1, <1>2

LEMMA RequestStart ==
  ASSUME TypeOK, ManagerInv, StartInv, NEW r \in Requests, Post(r) \/ RequestStep(r)
  PROVE  StartInv'
<1>1. /\ UNCHANGED <<sMediaInstance, sRequestManager, starts, cpc, sdk>>
  BY DEF Post, RequestStep, BeginRequest, addRequestCallback, CallSdk, sdkVars, jniVars,
         refVars, ctlVars
<1>2. Started' /\ NoneBeforeStart' /\ ManagerKnown'
  BY <1>1, OtherStep
<1>3. /\ pc'[r] = "posted" => sRequestManager \in Managers
      /\ pc'[r] \in {"adding", "calling"} => mgr'[r] \in Managers
      /\ \A q \in Requests \ {r} : pc'[q] = pc[q] /\ mgr'[q] = mgr[q]
      /\ ~crashed'
  <2>. USE DEF TypeOK, RequestsTypeOK, StartInv, RequestsKnow
  <2>1. CASE Post(r)
    BY <2>1 DEF Post, StaticsTypeOK
  <2>2. CASE BeginRequest(r)
    BY <2>2 DEF BeginRequest
  <2>3. CASE addRequestCallback(r)
    BY <2>3 DEF addRequestCallback
  <2>4. CASE CallSdk(r)
    BY <2>4, NullAssumption DEF CallSdk
  <2>. QED  BY <2>1, <2>2, <2>3, <2>4 DEF RequestStep
<1>4. RequestsKnow'
  BY <1>1, <1>3 DEF StartInv, RequestsKnow
<1>. QED  BY <1>2, <1>3, <1>4 DEF StartInv

LEMMA HandlerStart ==
  ASSUME TypeOK, ManagerInv, StartInv, NEW t \in SdkThreads, HandlerMoves(t),
         UNCHANGED <<starts, reqVars, crashed>>
  PROVE  StartInv'
<1>1. UNCHANGED <<sMediaInstance, sRequestManager, cpc>>
  BY DEF HandlerMoves, ctlVars
<1>2. Started' /\ NoneBeforeStart' /\ ManagerKnown'
  BY <1>1, OtherStep
<1>3. RequestsKnow'
  BY <1>1 DEF StartInv, RequestsKnow, reqVars
<1>. QED  BY <1>2, <1>3 DEF StartInv

\* A control step in which the manager stays known to the requests.
LEMMA CtlKnows ==
  ASSUME StartInv, UNCHANGED <<reqVars, crashed>>,
         sRequestManager \in Managers => sRequestManager' \in Managers,
         Started', NoneBeforeStart', ManagerKnown'
  PROVE  StartInv'
<1>1. RequestsKnow'
  BY DEF StartInv, RequestsKnow, reqVars
<1>. QED  BY <1>1 DEF StartInv

LEMMA CtlCallsStart ==
  ASSUME TypeOK, StartInv, NEW c \in Ctl, CtlCalls(c) PROVE StartInv'
<1>1. /\ cpc[UI] = "idle"
      /\ cpc' = [cpc EXCEPT ![UI] = IF sMediaInstance # 0 THEN "stopLock" ELSE "startLock"]
      /\ UNCHANGED <<sdk, sMediaInstance, sRequestManager, starts, reqVars, crashed>>
  BY AppAssumption DEF CtlCalls, JNI_start, JNI_stop, JNI_destory, Call, sdkVars, jniVars,
     refVars
<1>2. cpc'[UI] = IF sMediaInstance # 0 THEN "stopLock" ELSE "startLock"
  BY <1>1, OneCtl DEF TypeOK, CtlTypeOK
<1>3. Started' /\ NoneBeforeStart' /\ ManagerKnown'
  BY <1>1, <1>2 DEF StartInv, Started, NoneBeforeStart, ManagerKnown, Stopping
<1>. QED  BY <1>1, <1>3, CtlKnows

LEMMA StopMoves ==
  ASSUME TypeOK, StartInv, NEW c \in Ctl,
         StopBegin(c) \/ StopJoin(c) \/ StopDelete(c) \/ StopClear(c)
  PROVE  /\ cpc'[UI] \in {"stopJoin", "stopDelete", "stopClear", "startLock"}
         /\ cpc'[UI] = "startLock" => sMediaInstance' = 0
         /\ sRequestManager \in Managers
         /\ UNCHANGED <<sRequestManager, reqVars, crashed>>
<1>1. c = UI /\ cpc[UI] \in {"stopLock", "stopJoin", "stopDelete", "stopClear"}
  BY OneCtl DEF StopBegin, StopJoin, StopDelete, StopClear
<1>2. sRequestManager \in Managers /\ sRequestManager # NoManager
  BY <1>1, NullAssumption DEF StartInv, ManagerKnown, Stopping
<1>3. UNCHANGED <<sRequestManager, reqVars, crashed>>
  BY <1>2 DEF StopBegin, StopJoin, StopDelete, StopClear, jniVars
<1>4. /\ cpc'[UI] \in {"stopJoin", "stopDelete", "stopClear", "startLock"}
      /\ cpc'[UI] = "startLock" => sMediaInstance' = 0
  <2>. USE OneCtl, <1>1 DEF TypeOK, CtlTypeOK
  <2>1. CASE StopBegin(c)
    BY <2>1, <1>2 DEF StopBegin
  <2>2. CASE StopJoin(c)
    BY <2>2 DEF StopJoin
  <2>3. CASE StopDelete(c)
    BY <2>3 DEF StopDelete
  <2>4. CASE StopClear(c)
    BY <2>4, AppAssumption DEF StopClear, ForgetInstance
  <2>. QED  BY <2>1, <2>2, <2>3, <2>4
<1>. QED  BY <1>2, <1>3, <1>4

LEMMA StopStart ==
  ASSUME TypeOK, StartInv, NEW c \in Ctl,
         StopBegin(c) \/ StopJoin(c) \/ StopDelete(c) \/ StopClear(c)
  PROVE  StartInv'
<1>1. Started' /\ NoneBeforeStart' /\ ManagerKnown'
  BY StopMoves DEF Started, NoneBeforeStart, ManagerKnown
<1>. QED  BY <1>1, StopMoves, CtlKnows

LEMMA StartLockedMoves ==
  ASSUME TypeOK, StartInv, NEW c \in Ctl, NEW ok \in BOOLEAN, StartLocked(c, ok)
  PROVE  /\ sMediaInstance' # 0 /\ sRequestManager' \in Managers
         /\ cpc'[UI] = "idle"
         /\ HasInstance => sdk'[sRequestManager'] = IF ok THEN "running" ELSE "stopped"
         /\ UNCHANGED <<reqVars, crashed>>
<1>1. /\ c = UI /\ sMediaInstance = 0
      /\ UNCHANGED <<reqVars, crashed>>
  BY OneCtl DEF StartLocked, StartInv, NoneBeforeStart
<1>2. PICK m \in Managers : sRequestManager' = m /\ SdkStart(m, ok)
  BY <1>1 DEF StartLocked, InstanceIsSet
<1>3. sMediaInstance' # 0
  BY <1>1 DEF StartLocked, InstanceIsSet, TypeOK, RefsTypeOK
<1>4. cpc'[UI] = "idle"
  BY <1>1, OneCtl DEF StartLocked, Return, InstanceIsSet, TypeOK, CtlTypeOK
<1>5. HasInstance => sdk'[m] = IF ok THEN "running" ELSE "stopped"
  <2>1. HasInstance => sdk[m] \in {"absent", "stopped"}
    BY <1>1 DEF HasInstance
  <2>. QED  BY <1>2, <2>1 DEF SdkStart, TypeOK, SdkTypeOK
<1>. QED  BY <1>1, <1>2, <1>3, <1>4, <1>5

LEMMA StartLockedStart ==
  ASSUME TypeOK, StartInv, NEW c \in Ctl, NEW ok \in BOOLEAN, StartLocked(c, ok)
  PROVE  StartInv'
<1>1. Started' /\ NoneBeforeStart' /\ ManagerKnown'
  BY StartLockedMoves DEF Started, NoneBeforeStart, ManagerKnown
<1>. QED  BY <1>1, StartLockedMoves, CtlKnows

LEMMA NextStart ==
  ASSUME TypeOK, ManagerInv, StartInv, [Next]_vars PROVE StartInv'
<1>1. ASSUME NEW c \in Ctl, CtlCalls(c) \/ CtlStep(c) PROVE StartInv'
  <2>1. ~destoryRequestManager(c)
    BY DEF destoryRequestManager, ManagerInv, NoForget
  <2>. QED
    BY <1>1, <2>1, CtlCallsStart, StopStart, StartLockedStart DEF CtlStep, StopStep
<1>2. ASSUME NEW m \in Managers, NEW r \in Requests, OnAnswer(m, r) PROVE StartInv'
  BY <1>2, OnAnswerMoves, HandlerStart, ThreadsFacts DEF OnAnswer, refVars
<1>3. ASSUME NEW m \in Managers, ReceiverNotifies(m) \/ TimerNotifies(m) PROVE StartInv'
  BY <1>3, ReceiverNotifiesMoves, TimerNotifiesMoves, HandlerStart, ThreadsFacts
     DEF BeginNotify
<1>4. ASSUME NEW t \in SdkThreads, SdkThreadStep(t) PROVE StartInv'
  <2>1. UNCHANGED <<starts, reqVars, crashed>>
    BY <1>4 DEF SdkThreadStep, getRequestCallback, AnswerFails, InvokeCallback,
       ReleaseCallback, CheckInstance, CallInstance, refVars
  <2>. QED  BY <1>4, <2>1, SdkThreadStepMoves, HandlerStart
<1>5. CASE SdkAlone \/ UNCHANGED vars
  <2>1. UNCHANGED <<sdk, sMediaInstance, sRequestManager, starts, cpc, reqVars, crashed>>
    BY <1>5 DEF SdkAlone, SdkDraw, vars, sdkVars, jniVars, refVars, ctlVars
  <2>. QED  BY <2>1, OtherStep, CtlKnows
<1>. QED
  BY <1>1, <1>2, <1>3, <1>4, <1>5, RequestStart DEF Next

LEMMA ManagerCorrect == Spec => []ManagerInv
<1>1. TypeOK /\ InstanceInv /\ ManagerInv /\ [Next]_vars => ManagerInv'
  BY NextManager, OneCtl
<1>. QED  BY <1>1, InitManager, TypeCorrect, InstanceCorrect, PTL DEF Spec

LEMMA StartCorrect == Spec => []StartInv
  BY InitStart, NextStart, TypeCorrect, ManagerCorrect, PTL DEF Spec

\* A manager runs from the start that sets the instance to the end of the stop
\* that forgets it.
LEMMA NextHasInstance ==
  ASSUME TypeOK, InstanceInv, ManagerInv, HasInstance, [Next]_vars PROVE HasInstance'
<1>1. ASSUME UNCHANGED sMediaInstance,
             \A m \in Managers : sdk[m] \in {"absent", "stopped"} => sdk'[m] = sdk[m]
      PROVE  HasInstance'
  BY <1>1 DEF HasInstance
<1>2. ASSUME NEW r \in Requests, Post(r) \/ RequestStep(r) PROVE HasInstance'
  BY <1>1, <1>2 DEF Post, RequestStep, BeginRequest, addRequestCallback, CallSdk, sdkVars,
     jniVars
<1>3. ASSUME NEW c \in Ctl, CtlCalls(c) PROVE HasInstance'
  BY <1>1, <1>3 DEF CtlCalls, JNI_start, JNI_stop, JNI_destory, Call, sdkVars, jniVars
<1>4. ASSUME NEW c \in Ctl, CtlStep(c) PROVE HasInstance'
  <2>1. CASE StopBegin(c)
    BY <1>1, <2>1 DEF StopBegin, SdkStopBegin, TypeOK, SdkTypeOK
  <2>2. CASE StopJoin(c)
    BY <2>2 DEF StopJoin, SdkStopEnd, HasInstance, TypeOK, SdkTypeOK, jniVars
  <2>3. CASE StopDelete(c) \/ destoryRequestManager(c)
    BY <1>1, <2>3 DEF StopDelete, destoryRequestManager, sdkVars, jniVars
  <2>4. CASE StopClear(c)
    <3>1. /\ cpc[c] = "stopClear" /\ UNCHANGED sdk
      BY <2>4 DEF StopClear, sdkVars
    <3>2. \A m \in Managers : sdk[m] \in {"absent", "stopped"}
      BY <3>1 DEF ManagerInv, OnlyManager, StoppedMeanwhile
    <3>. QED  BY <3>1, <3>2 DEF HasInstance
  <2>5. ASSUME NEW ok \in BOOLEAN, StartLocked(c, ok) PROVE HasInstance'
    <3>1. CASE InstanceIsSet
      BY <1>1, <2>5, <3>1 DEF StartLocked
    <3>2. CASE ~InstanceIsSet
      <4>1. sMediaInstance' = starts + 1 /\ starts \in Nat
        BY <2>5, <3>2 DEF StartLocked, TypeOK, RefsTypeOK
      <4>. QED  BY <4>1 DEF HasInstance
    <3>. QED  BY <3>1, <3>2
  <2>. QED  BY <1>4, <2>1, <2>2, <2>3, <2>4, <2>5 DEF CtlStep, StopStep
<1>5. ASSUME NEW t \in SdkThreads, HandlerMoves(t) PROVE HasInstance'
  BY <1>1, <1>5 DEF HandlerMoves
<1>6. ASSUME NEW m \in Managers, NEW r \in Requests, OnAnswer(m, r) PROVE HasInstance'
  BY <1>5, <1>6, OnAnswerMoves, ThreadsFacts
<1>7. ASSUME NEW m \in Managers, ReceiverNotifies(m) \/ TimerNotifies(m) PROVE HasInstance'
  BY <1>5, <1>7, ReceiverNotifiesMoves, TimerNotifiesMoves, ThreadsFacts
<1>8. ASSUME NEW t \in SdkThreads, SdkThreadStep(t) PROVE HasInstance'
  BY <1>5, <1>8, SdkThreadStepMoves
<1>9. CASE SdkAlone \/ UNCHANGED vars
  BY <1>1, <1>9 DEF SdkAlone, SdkDraw, vars, sdkVars, jniVars
<1>. QED
  BY <1>2, <1>3, <1>4, <1>6, <1>7, <1>8, <1>9 DEF Next

LEMMA HasInstanceCorrect == Spec => []HasInstance
<1>1. Init => HasInstance
  BY DEF Init, SdkInit, HasInstance
<1>. QED
  BY <1>1, NextHasInstance, TypeCorrect, InstanceCorrect, ManagerCorrect, PTL DEF Spec

\* Only a start changes what was returned, and only the UI thread's own calls
\* change whether the SDK runs.
LEMMA KeepReturned ==
  ASSUME StartInv, ReturnedTruth, UNCHANGED <<ret, sRequestManager, starts, cpc>>,
         \A m \in Managers : sdk[m] \in {"running", "stopped"} => sdk'[m] = sdk[m]
  PROVE  ReturnedTruth'
  BY DEF ReturnedTruth, StartInv, Started, ManagerKnown

LEMMA HandlerReturned ==
  ASSUME StartInv, ReturnedTruth, NEW t \in SdkThreads, HandlerMoves(t), UNCHANGED <<starts, ret>>
  PROVE  ReturnedTruth'
<1>1. /\ UNCHANGED <<sRequestManager, cpc>>
      /\ \A m \in Managers : sdk[m] \in {"running", "stopped"} => sdk'[m] = sdk[m]
  BY DEF HandlerMoves, ctlVars
<1>. QED  BY <1>1, KeepReturned

LEMMA NextReturned ==
  ASSUME TypeOK, ManagerInv, StartInv, HasInstance, ReturnedTruth, [AppNext]_allVars
  PROVE  ReturnedTruth'
<1>. USE DEF appVars, jniVars, refVars, sdkVars, ctlVars
<1>1. ASSUME UNCHANGED <<ret, sRequestManager, starts, cpc, sdk>> PROVE ReturnedTruth'
  BY <1>1, KeepReturned
<1>2. CASE onCreate
  <2>1. /\ cpc[UI] = "idle" /\ cpc'[UI] \in {"stopLock", "startLock"}
        /\ UNCHANGED <<ret, sRequestManager, starts, sdk>>
    BY <1>2, OneCtl DEF onCreate, JNI_start, Call, TypeOK, CtlTypeOK
  <2>. QED  BY <2>1 DEF ReturnedTruth
<1>3. CASE init
  BY <1>3, OneCtl, StartLockedMoves DEF init, ReturnedTruth
<1>4. CASE setConncetStatus \/ UNCHANGED allVars
  BY <1>1, <1>4 DEF setConncetStatus, allVars, vars
<1>5. ASSUME NEW r \in Requests, onClick(r) \/ Refuse(r) PROVE ReturnedTruth'
  BY <1>1, <1>5 DEF onClick, Post, Refuse, addRequestCallback
<1>6. ASSUME NEW t \in SdkThreads, SdkThreadStep(t), UNCHANGED ret PROVE ReturnedTruth'
  <2>1. UNCHANGED starts
    BY <1>6 DEF SdkThreadStep, getRequestCallback, AnswerFails, InvokeCallback,
       ReleaseCallback, CheckInstance, CallInstance
  <2>. QED  BY <1>6, <2>1, SdkThreadStepMoves, HandlerReturned
<1>7. ASSUME NEW t \in SdkThreads, Answer(t) \/ Check(t) \/ Deliver(t) PROVE ReturnedTruth'
  BY <1>6, <1>7 DEF Answer, Check, Deliver, SdkThreadStep
<1>8. ASSUME NEW m \in Managers, Notify(m) \/ GiveUp(m) PROVE ReturnedTruth'
  <2>1. /\ ReceiverNotifies(m) \/ TimerNotifies(m)
        /\ UNCHANGED <<ret, starts>>
    BY <1>8 DEF Notify, GiveUp, ReceiverNotifies, TimerNotifies, BeginNotify
  <2>. QED
    BY <2>1, ReceiverNotifiesMoves, TimerNotifiesMoves, ThreadsFacts, HandlerReturned
<1>9. CASE BridgeStep /\ UNCHANGED appVars
  <2>1. ASSUME NEW r \in Requests, BeginRequest(r) \/ CallSdk(r) PROVE ReturnedTruth'
    BY <1>1, <1>9, <2>1 DEF BeginRequest, CallSdk
  <2>2. CASE StopStep(UI)
    <3>1. ~destoryRequestManager(UI)
      BY OneCtl DEF destoryRequestManager, ManagerInv, NoForget
    <3>. QED  BY <2>2, <3>1, OneCtl, StopMoves DEF StopStep, ReturnedTruth
  <2>3. ASSUME NEW m \in Managers, NEW r \in Requests, OnAnswer(m, r) PROVE ReturnedTruth'
    BY <1>9, <2>3, OnAnswerMoves, HandlerReturned, ThreadsFacts DEF OnAnswer
  <2>4. ASSUME NEW t \in SdkThreads,
               getRequestCallback(t) \/ AnswerFails(t) \/ ReleaseCallback(t)
        PROVE  ReturnedTruth'
    BY <1>6, <1>9, <2>4 DEF SdkThreadStep
  <2>5. CASE SdkAlone
    BY <1>1, <1>9, <2>5 DEF SdkAlone, SdkDraw
  <2>. QED  BY <1>9, <2>1, <2>2, <2>3, <2>4, <2>5 DEF BridgeStep
<1>. QED
  BY <1>2, <1>3, <1>4, <1>5, <1>7, <1>8, <1>9 DEF AppNext

\* Whenever a button can be clicked, instance and manager are there, so that no
\* request finds a NULL manager although it reads the pointer without the lock,
\* and the SDK runs if the last fun_start has returned true, and only then: the
\* value that the app does not look at would have told it, at any later time.
THEOREM StartedCorrect == AppSpec => []StartedWhenClickable
<1>1. StartInv /\ ReturnedTruth /\ InstanceInv => StartedWhenClickable
  <2>. SUFFICES ASSUME StartInv, ReturnedTruth, InstanceInv, Clickable
                PROVE  /\ sMediaInstance \in instRefs
                       /\ sRequestManager # NoManager
                       /\ sdk[sRequestManager] = IF ret THEN "running" ELSE "stopped"
    BY DEF StartedWhenClickable, StartInv
  <2>1. sMediaInstance # 0
    BY DEF Clickable, StartInv, Started
  <2>2. sRequestManager # NoManager
    BY <2>1, NullAssumption DEF StartInv, ManagerKnown
  <2>3. sMediaInstance \in instRefs
    <3>1. \A c \in Ctl : cpc[c] # "stopClear"
      BY OneCtl DEF Clickable
    <3>. QED  BY <2>1, <3>1 DEF InstanceInv, RefOfInstance
  <2>4. sdk[sRequestManager] = IF ret THEN "running" ELSE "stopped"
    BY DEF Clickable, ReturnedTruth
  <2>. QED  BY <2>2, <2>3, <2>4
<1>2. AppInit => ReturnedTruth
  BY DEF AppInit, Init, ReturnedTruth
<1>. QED
  BY <1>1, <1>2, NextReturned, AppImplementsBridge, TypeCorrect, ManagerCorrect,
     StartCorrect, HasInstanceCorrect, InstanceCorrect, PTL DEF AppSpec

-----------------------------------------------------------------------------
(* What an answer becomes on its way to the callback.                        *)

\* A code that the JVM takes for 0 or 10 is one.
LEMMA jintOfCode ==
  ASSUME NEW n \in UInt32
  PROVE  /\ jint(n) = 0 => n = 0
         /\ jint(n) = 10 => n = 10
         /\ Fits(n) => jint(n) = n
<1>1. n % (2 * IntRange) = n
  BY IntRangeAssumption DEF UInt32
<1>. QED  BY <1>1, IntRangeAssumption DEF UInt32, jint, Fits

LEMMA jintOfFitting == ASSUME NEW n \in Nat, Fits(n) PROVE jint(n) = n
<1>1. n % (2 * IntRange) = n
  BY IntRangeAssumption DEF Fits
<1>. QED  BY <1>1, IntRangeAssumption DEF jint, Fits

LEMMA ResponseFacts ==
  ASSUME NEW rsp \in Responses
  PROVE  rsp.errCode \in UInt32 /\ (rsp.errCode = 0 => rsp.userId \in Nat)
  BY ServerAssumption DEF Responses

LEMMA LoginBean ==
  ASSUME NEW rsp
  PROVE  /\ rsp.errCode # 0 => LoginRespModel(LoginJson(rsp)).code = jint(rsp.errCode)
         /\ rsp.errCode = 0 => /\ LoginRespModel(LoginJson(rsp)).code = 0
                               /\ LoginRespModel(LoginJson(rsp)).userId = jint(rsp.userId)
<1>1. CASE rsp.errCode = 0
  BY <1>1 DEF LoginJson, LoginRespModel, Field
<1>2. CASE rsp.errCode # 0
  BY <1>2 DEF LoginJson, LoginRespModel, Field
<1>. QED  BY <1>1, <1>2

\* The answer to a logout has no key called code.
LEMMA LogoutBean == ASSUME NEW rsp PROVE BaseModel(LogoutJson(rsp)).code = -1
<1>1. CASE rsp.errCode = 0
  BY <1>1 DEF LogoutJson, BaseModel, Field, UnsetCode
<1>2. CASE rsp.errCode # 0
  BY <1>2 DEF LogoutJson, BaseModel, Field, UnsetCode
<1>. QED  BY <1>1, <1>2

-----------------------------------------------------------------------------
(* What the callbacks are told.  A bean is made whenever a callback is       *)
(* called, and before the wrap from the answer to the callback's request.    *)

Bean(r, json) == IF op[r] = "login" THEN LoginRespModel(json) ELSE BaseModel(json)

OneBean ==
    /\ beans = [r \in Requests |-> beans[r]]
    /\ \A r \in Requests :
          /\ calls[r] = << >> => beans[r] = << >>
          /\ calls[r] # << >> => \E b : beans[r] = <<b>>

OneResult ==
    /\ result = [r \in Requests |-> result[r]]
    /\ \A r \in Requests : result[r] = << >> \/ \E rsp \in Responses : result[r] = <<rsp>>

AnswerTold ==
    staticSeq < SeqMod => \A r \in Requests : calls[r] # << >> =>
        \E rsp \in Responses : result[r] = <<rsp>> /\ beans[r] = <<Bean(r, Json(r, rsp))>>

BeansInv == OneBean /\ OneResult /\ AnswerTold

LEMMA InitBeans == AppInit => BeansInv
  BY DEF AppInit, Init, BeansInv, OneBean, OneResult, AnswerTold

\* A step in which no callback is called; the operation of a request is chosen
\* before that.
LEMMA KeepBeans ==
  ASSUME TypeOK, BeansInv, UNCHANGED <<calls, result, beans>>,
         \A r \in Requests : calls[r] # << >> => op'[r] = op[r],
         staticSeq' \in {staticSeq, staticSeq + 1}
  PROVE  BeansInv'
<1>1. OneBean' /\ OneResult'
  BY DEF BeansInv, OneBean, OneResult
<1>2. AnswerTold'
  <2>. SUFFICES ASSUME staticSeq' < SeqMod, NEW r \in Requests, calls[r] # << >>
                PROVE  \E rsp \in Responses :
                          result[r] = <<rsp>> /\ beans[r] = <<Bean(r, Json(r, rsp))'>>
    BY DEF AnswerTold
  <2>1. staticSeq < SeqMod
    BY SeqModAssumption DEF TypeOK, SdkTypeOK
  <2>2. PICK rsp \in Responses : result[r] = <<rsp>> /\ beans[r] = <<Bean(r, Json(r, rsp))>>
    BY <2>1 DEF BeansInv, AnswerTold
  <2>3. Bean(r, Json(r, rsp))' = Bean(r, Json(r, rsp))
    BY DEF Bean, Json
  <2>. QED  BY <2>2, <2>3
<1>. QED  BY <1>1, <1>2 DEF BeansInv

\* A callback that was not called before is called.
LEMMA AddBean ==
  ASSUME TypeOK, BeansInv, NEW r \in Requests, calls[r] = << >>, NEW x, NEW b,
         calls' = [calls EXCEPT ![r] = Append(@, x)],
         beans' = [beans EXCEPT ![r] = Append(@, b)]
  PROVE  /\ OneBean'
         /\ calls'[r] # << >> /\ beans'[r] = <<b>>
         /\ \A q \in Requests : q # r => calls'[q] = calls[q] /\ beans'[q] = beans[q]
<1>1. beans[r] = << >> /\ beans = [q \in Requests |-> beans[q]]
  BY DEF BeansInv, OneBean
<1>2. calls'[r] = <<x>> /\ \A q \in Requests : q # r => calls'[q] = calls[q]
  BY DEF TypeOK, HistoryTypeOK
<1>3. beans'[r] = <<b>> /\ \A q \in Requests : q # r => beans'[q] = beans[q]
  BY <1>1
<1>4. beans' = [q \in Requests |-> beans'[q]]
  BY <1>1
<1>5. calls'[r] # << >> /\ beans'[r] = <<b>>
  BY <1>2, <1>3
<1>6. OneBean'
  <2>. SUFFICES ASSUME NEW q \in Requests
                PROVE  /\ calls'[q] = << >> => beans'[q] = << >>
                       /\ calls'[q] # << >> => \E d : beans'[q] = <<d>>
    BY <1>4 DEF OneBean
  <2>1. CASE q = r
    BY <1>5, <2>1
  <2>2. CASE q # r
    BY <1>2, <1>3, <2>2 DEF BeansInv, OneBean
  <2>. QED  BY <2>1, <2>2
<1>. QED  BY <1>2, <1>3, <1>5, <1>6

\* Before the wrap no request is refused.
LEMMA RefuseBeans ==
  ASSUME TypeOK, OwnershipInv, NumbersInv, BeansInv, NEW r \in Requests, Refuse(r)
  PROVE  BeansInv'
<1>. USE DEF Refuse
<1>1. UNCHANGED <<result, op, staticSeq>>
  BY DEF addRequestCallback, sdkVars
<1>2. CASE UNCHANGED calls
  BY <1>1, <1>2, KeepBeans
<1>3. CASE calls' # calls
  <2>1. /\ calls' = [calls EXCEPT ![r] = Append(@, None)] /\ seq[r] = 0
        /\ pc[r] = "adding"
    BY <1>3 DEF addRequestCallback, RefuseDirectly, StoreCallback
  <2>2. calls[r] = << >>
    BY <2>1 DEF OwnershipInv, NewHasNone
  <2>3. PICK b : beans' = [beans EXCEPT ![r] = Append(@, b)]
    BY <1>3 DEF onResponse
  <2>4. OneBean'
    BY <2>1, <2>2, <2>3, AddBean
  <2>5. ~(staticSeq < SeqMod)
    BY <2>1 DEF NumbersInv, Unwrapped, Numbered, Drawn
  <2>. QED  BY <1>1, <2>4, <2>5 DEF BeansInv, OneResult, AnswerTold
<1>. QED  BY <1>2, <1>3

LEMMA AnswerBeans ==
  ASSUME TypeOK, OwnershipInv, AnswerInv, NumbersInv, BeansInv, NEW t \in SdkThreads,
         Answer(t)
  PROVE  BeansInv'
<1>1. PICK rsp \in IF result[sfor[t]] = << >> THEN Responses ELSE {result[sfor[t]][1]} :
        /\ result' = [result EXCEPT ![sfor[t]] = <<rsp>>]
        /\ onResponse(scb[t], Json(sfor[t], rsp))
  BY DEF Answer
<1>2. InvokeCallback(t)
  BY DEF Answer
<1>3. sfor[t] \in Requests /\ scb[t] \in Requests /\ calls[scb[t]] = << >>
  BY <1>2 DEF InvokeCallback, AnswerInv, OwnershipInv, HandOwns, TypeOK, ThreadsTypeOK
<1>4. /\ calls' = [calls EXCEPT ![scb[t]] = Append(@, sfor[t])]
      /\ UNCHANGED <<staticSeq, op>>
  BY <1>2 DEF InvokeCallback, sdkVars, reqVars
<1>5. beans' = [beans EXCEPT ![scb[t]] = Append(@, Bean(scb[t], Json(sfor[t], rsp)))]
  BY <1>1 DEF onResponse, Bean
<1>6. /\ OneBean'
      /\ beans'[scb[t]] = <<Bean(scb[t], Json(sfor[t], rsp))>>
      /\ \A q \in Requests : q # scb[t] => calls'[q] = calls[q] /\ beans'[q] = beans[q]
  BY <1>3, <1>4, <1>5, AddBean
<1>7. rsp \in Responses /\ (result[sfor[t]] # << >> => result[sfor[t]] = <<rsp>>)
  BY <1>1, <1>3 DEF BeansInv, OneResult
<1>8. /\ result' = [q \in Requests |-> result'[q]]
      /\ result'[sfor[t]] = <<rsp>>
      /\ \A q \in Requests : q # sfor[t] => result'[q] = result[q]
  BY <1>1, <1>3 DEF BeansInv, OneResult
<1>9. OneResult'
  BY <1>7, <1>8 DEF BeansInv, OneResult
<1>10. AnswerTold'
  <2>. SUFFICES ASSUME staticSeq < SeqMod, NEW q \in Requests, calls'[q] # << >>
                PROVE  \E p \in Responses :
                          result'[q] = <<p>> /\ beans'[q] = <<Bean(q, Json(q, p))>>
    BY <1>4 DEF AnswerTold, Bean, Json
  <2>1. scb[t] = sfor[t]
    BY <1>2 DEF InvokeCallback, NumbersInv, Unwrapped, ReportsMatch
  <2>2. CASE q = scb[t]
    BY <1>6, <1>7, <1>8, <2>1, <2>2
  <2>3. CASE q # scb[t]
    BY <1>6, <1>8, <2>1, <2>3 DEF BeansInv, AnswerTold
  <2>. QED  BY <2>2, <2>3
<1>. QED  BY <1>6, <1>9, <1>10 DEF BeansInv

LEMMA NextBeans ==
  ASSUME TypeOK, OwnershipInv, AnswerInv, NumbersInv, BeansInv, [AppNext]_allVars
  PROVE  BeansInv'
<1>0. staticSeq' \in {staticSeq, staticSeq + 1}
  BY AppStep, StaticSeqGrows
<1>. USE DEF appVars, answerVars, reqVars
<1>1. ASSUME UNCHANGED <<calls, op, answerVars>> PROVE BeansInv'
  BY <1>0, <1>1, KeepBeans
<1>2. CASE onCreate \/ init \/ setConncetStatus \/ UNCHANGED allVars
  BY <1>1, <1>2 DEF onCreate, JNI_start, Call, init, StartLocked, setConncetStatus, allVars,
                    vars
<1>3. ASSUME NEW r \in Requests, onClick(r) PROVE BeansInv'
  <2>1. /\ \A q \in Requests : calls[q] # << >> => op'[q] = op[q]
        /\ UNCHANGED <<calls, answerVars>>
    BY <1>3 DEF onClick, Post, OwnershipInv, NewHasNone, TypeOK, RequestsTypeOK
  <2>. QED  BY <1>0, <2>1, KeepBeans
<1>4. ASSUME NEW t \in SdkThreads, Check(t) \/ Deliver(t) PROVE BeansInv'
  BY <1>1, <1>4 DEF Check, CheckInstance, Deliver, CallInstance
<1>5. ASSUME NEW m \in Managers, Notify(m) \/ GiveUp(m) PROVE BeansInv'
  BY <1>1, <1>5 DEF Notify, GiveUp, TimerNotifies, BeginNotify
<1>6. CASE BridgeStep /\ UNCHANGED appVars
  <2>1. UNCHANGED <<calls, op>>
    <3>1. ASSUME NEW r \in Requests, BeginRequest(r) \/ CallSdk(r) PROVE UNCHANGED <<calls, op>>
      BY <3>1 DEF BeginRequest, CallSdk
    <3>2. CASE StopStep(UI)
      BY <3>2 DEF StopStep, StopBegin, StopJoin, StopDelete, StopClear, destoryRequestManager
    <3>3. ASSUME NEW m \in Managers, NEW r \in Requests, OnAnswer(m, r)
          PROVE  UNCHANGED <<calls, op>>
      BY <3>3 DEF OnAnswer
    <3>4. ASSUME NEW t \in SdkThreads,
                 getRequestCallback(t) \/ AnswerFails(t) \/ ReleaseCallback(t)
          PROVE  UNCHANGED <<calls, op>>
      BY <3>4 DEF getRequestCallback, AnswerFails, ReleaseCallback
    <3>5. CASE SdkAlone
      BY <3>5 DEF SdkAlone
    <3>. QED  BY <1>6, <3>1, <3>2, <3>3, <3>4, <3>5 DEF BridgeStep
  <2>. QED  BY <1>1, <1>6, <2>1
<1>. QED
  BY <1>2, <1>3, <1>4, <1>5, <1>6, RefuseBeans, AnswerBeans DEF AppNext

LEMMA BeansCorrect == AppSpec => [](TypeOK /\ BeansInv)
<1>1. Init => TypeOK /\ OwnershipInv /\ AnswerInv /\ NumbersInv
  BY InitTypeOK, InitOwnership, InitAnswer, InitNumbers
<1>2. TypeOK /\ OwnershipInv /\ AnswerInv /\ NumbersInv /\ [Next]_vars
        => TypeOK' /\ OwnershipInv' /\ AnswerInv' /\ NumbersInv'
  BY NextTypeOK, NextOwnership, NextAnswer, NextNumbers
<1>3. TypeOK /\ OwnershipInv /\ AnswerInv /\ NumbersInv /\ BeansInv /\ [AppNext]_allVars
        => BeansInv'
  BY NextBeans
<1>4. AppInit => Init /\ BeansInv
  BY InitBeans DEF AppInit
<1>. QED
  BY <1>1, <1>2, <1>3, <1>4, AppStep, PTL DEF AppSpec

\* No callback is told of success unless the server has answered its request
\* with success: neither a refusal nor a bean whose class knows another key, nor
\* a code that changes on its way into an int, passes for one.
THEOREM SuccessIsRealCorrect == AppSpec => []SuccessIsReal
<1>1. TypeOK /\ BeansInv => SuccessIsReal
  <2>. SUFFICES ASSUME TypeOK, BeansInv, staticSeq < SeqMod, NEW r \in Requests,
                       NEW i \in 1 .. Len(beans[r]), isSuccess(beans[r][i])
                PROVE  result[r] # << >> /\ result[r][1].errCode \in {0, 10}
    BY DEF SuccessIsReal
  <2>1. beans[r] # << >>
    <3>1. Len(<< >>) = 0
      OBVIOUS
    <3>. QED  BY <3>1
  <2>2. calls[r] # << >>
    BY <2>1 DEF BeansInv, OneBean
  <2>3. PICK rsp \in Responses : result[r] = <<rsp>> /\ beans[r] = <<Bean(r, Json(r, rsp))>>
    BY <2>2 DEF BeansInv, AnswerTold
  <2>4. i = 1 /\ result[r] # << >> /\ result[r][1] = rsp
    BY <2>3
  <2>5. isSuccess(Bean(r, Json(r, rsp)))
    BY <2>3, <2>4
  <2>6. op[r] = "login"
    BY <2>5, LogoutBean DEF Bean, Json, isSuccess
  <2>7. rsp.errCode \in {0, 10}
    BY <2>5, <2>6, LoginBean, ResponseFacts, jintOfCode DEF Bean, Json, isSuccess
  <2>. QED  BY <2>4, <2>7
<1>. QED  BY <1>1, BeansCorrect, PTL

\* A login's callback is told the server's code and the user's id, whenever they
\* fit into an int, for every width of an int.
THEOREM LoginShownCorrect == AppSpec => []LoginShown
<1>1. TypeOK /\ BeansInv => LoginShown
  <2>. SUFFICES ASSUME TypeOK, BeansInv, staticSeq < SeqMod, NEW r \in Requests,
                       op[r] = "login", beans[r] # << >>
                PROVE  /\ Fits(result[r][1].errCode) =>
                              beans[r][1].code = result[r][1].errCode
                       /\ result[r][1].errCode = 0 /\ Fits(result[r][1].userId) =>
                              beans[r][1].userId = result[r][1].userId
    BY DEF LoginShown
  <2>1. calls[r] # << >>
    BY DEF BeansInv, OneBean
  <2>2. PICK rsp \in Responses : result[r] = <<rsp>> /\ beans[r] = <<Bean(r, Json(r, rsp))>>
    BY <2>1 DEF BeansInv, AnswerTold
  <2>3. result[r][1] = rsp /\ beans[r][1] = LoginRespModel(LoginJson(rsp))
    BY <2>2 DEF Bean, Json
  <2>4. Fits(rsp.errCode) => beans[r][1].code = rsp.errCode
    BY <2>3, LoginBean, ResponseFacts, jintOfCode
  <2>5. rsp.errCode = 0 /\ Fits(rsp.userId) => beans[r][1].userId = rsp.userId
    BY <2>3, LoginBean, ResponseFacts, jintOfFitting
  <2>. QED  BY <2>3, <2>4, <2>5
<1>. QED  BY <1>1, BeansCorrect, PTL

-----------------------------------------------------------------------------
(* The status.  The thread that has a report on its hands is the only one:   *)
(* the report is its event until it has set the status.                      *)

StatusTypeOK ==
    /\ ui \in {"idle", "setStatus"}
    /\ status \in Statuses
    /\ event \in [SdkThreads -> ConnectionEvents \cup {"OnRecvMsg", "none"}]
    /\ reported \in ConnectionEvents \cup {"none"}
    /\ current \in BOOLEAN

\* Where a notification is: between BeginNotify and the call on the instance.
Notifying(t) == spc[t] \in {"check", "notify"}
BusyEvents == \A t \in SdkThreads : event[t] # "none" <=> Notifying(t)

\* A receiver that has a connection event to deliver has the last one reported.
LastReport ==
    \A m \in Managers : event[Receiver(m)] \in ConnectionEvents => event[Receiver(m)] = reported

\* A current report is a connection event, and no timer is about to report.
NoTimer ==
    current => /\ reported \in ConnectionEvents
               /\ \A m \in Managers : event[Timer(m)] = "none"

\* A current report has been shown already, or a receiver still has it.
ShownOrHeld ==
    current /\ ~JniMayFail => \/ status = Meaning[reported]
                              \/ \E m \in Managers : event[Receiver(m)] = reported

ReportInv == StatusTypeOK /\ BusyEvents /\ LastReport /\ NoTimer /\ ShownOrHeld

LEMMA InitReport == AppInit => ReportInv
<1>. SUFFICES ASSUME AppInit PROVE ReportInv
  OBVIOUS
<1>. USE DEF AppInit, Init
<1>1. StatusTypeOK
  BY DEF StatusTypeOK, Statuses
<1>2. BusyEvents
  BY DEF BusyEvents, Notifying
<1>3. LastReport
  BY ThreadsFacts DEF LastReport, ConnectionEvents
<1>. QED  BY <1>1, <1>2, <1>3 DEF ReportInv, NoTimer, ShownOrHeld

LEMMA MeaningFacts ==
  ASSUME NEW e \in ConnectionEvents
  PROVE  Meaning[e] = StatusAfter(e) /\ Meaning[e] \in Statuses
<1>1. CASE e = "OnStartReconnect"
  BY <1>1 DEF Meaning, StatusAfter, Statuses
<1>2. CASE e = "OnReconnectSuccess"
  BY <1>2 DEF Meaning, StatusAfter, Statuses
<1>3. CASE e = "OnDisconnect"
  BY <1>3 DEF Meaning, StatusAfter, Statuses
<1>. QED  BY <1>1, <1>2, <1>3 DEF ConnectionEvents

LEMMA TwoThreads ==
  /\ \A t \in SdkThreads : \E m \in Managers : t = Receiver(m) \/ t = Timer(m)
  /\ \A m, n \in Managers : /\ Receiver(m) # Timer(n)
                            /\ Receiver(m) = Receiver(n) => m = n
  BY DEF SdkThreads, Receiver, Timer

\* Only the receiver of one manager is ever in a handler.
LEMMA OneReceiver ==
  ASSUME InstanceInv, ManagerInv, NEW m \in Managers, NEW n \in Managers,
         ReceiverLoops(m), n # m
  PROVE  spc[Receiver(n)] = "idle"
<1>1. m = sRequestManager
  BY DEF ReceiverLoops, ManagerInv, OnlyManager
<1>2. sdk[n] = "absent"
  BY <1>1 DEF ManagerInv, OnlyManager
<1>. QED  BY <1>2 DEF InstanceInv, StoppedIdle

\* A step that the Java side does not notice.
LEMMA KeepReport ==
  ASSUME ReportInv, UNCHANGED statusVars, ui' \in {"idle", "setStatus"},
         \A t \in SdkThreads : Notifying(t)' <=> Notifying(t)
  PROVE  ReportInv'
<1>. USE DEF ReportInv, statusVars
<1>1. StatusTypeOK'
  BY DEF StatusTypeOK
<1>2. BusyEvents'
  BY DEF BusyEvents
<1>. QED  BY <1>1, <1>2 DEF LastReport, NoTimer, ShownOrHeld

LEMMA QuietStep ==
  ASSUME TypeOK, [AppNext]_allVars,
         \/ UNCHANGED allVars \/ onCreate \/ init
         \/ BridgeStep /\ UNCHANGED appVars
         \/ \E r \in Requests : onClick(r) \/ Refuse(r)
         \/ \E t \in SdkThreads : Answer(t)
  PROVE  /\ UNCHANGED statusVars
         /\ \A t \in SdkThreads : Notifying(t)' <=> Notifying(t)
<1>. USE DEF appVars, thrVars, TypeOK, ThreadsTypeOK, Notifying
<1>1. ASSUME UNCHANGED <<statusVars, spc>>
      PROVE  /\ UNCHANGED statusVars
             /\ \A t \in SdkThreads : Notifying(t)' <=> Notifying(t)
  BY <1>1
<1>2. ASSUME NEW t \in SdkThreads, ~Notifying(t), NEW p \in {"idle", "take", "call", "release"},
             spc' = [spc EXCEPT ![t] = p]
      PROVE  \A u \in SdkThreads : Notifying(u)' <=> Notifying(u)
  BY <1>2
<1>3. CASE UNCHANGED allVars \/ onCreate \/ init
  BY <1>1, <1>3 DEF allVars, vars, onCreate, JNI_start, Call, init, StartLocked
<1>4. ASSUME NEW r \in Requests, onClick(r) \/ Refuse(r)
      PROVE  UNCHANGED <<statusVars, spc>>
  BY <1>4 DEF onClick, Post, Refuse, addRequestCallback
<1>5. ASSUME NEW t \in SdkThreads, Answer(t)
      PROVE  /\ UNCHANGED statusVars
             /\ \A u \in SdkThreads : Notifying(u)' <=> Notifying(u)
  BY <1>2, <1>5 DEF Answer, InvokeCallback
<1>6. CASE BridgeStep /\ UNCHANGED appVars
  <2>1. ASSUME NEW r \in Requests, BeginRequest(r) \/ CallSdk(r) PROVE UNCHANGED spc
    BY <2>1 DEF BeginRequest, CallSdk
  <2>2. CASE StopStep(UI) \/ SdkAlone
    BY <1>1, <1>6, <2>2 DEF StopStep, StopBegin, StopJoin, StopDelete, StopClear,
       destoryRequestManager, SdkAlone
  <2>3. ASSUME NEW m \in Managers, NEW r \in Requests, OnAnswer(m, r)
        PROVE  \A u \in SdkThreads : Notifying(u)' <=> Notifying(u)
    <3>1. spc[Receiver(m)] = "idle" /\ spc' = [spc EXCEPT ![Receiver(m)] = "take"]
      BY <2>3 DEF OnAnswer
    <3>. QED  BY <1>2, <3>1, ThreadsFacts
  <2>4. ASSUME NEW t \in SdkThreads,
               getRequestCallback(t) \/ AnswerFails(t) \/ ReleaseCallback(t)
        PROVE  \A u \in SdkThreads : Notifying(u)' <=> Notifying(u)
    BY <1>2, <2>4 DEF getRequestCallback, AnswerFails, ReleaseCallback
  <2>. QED  BY <1>1, <1>6, <2>1, <2>2, <2>3, <2>4 DEF BridgeStep
<1>. QED  BY <1>1, <1>3, <1>4, <1>5, <1>6

LEMMA SetReport ==
  ASSUME ReportInv, setConncetStatus PROVE ReportInv'
<1>. USE DEF ReportInv, setConncetStatus, vars, thrVars
<1>1. StatusTypeOK'
  BY DEF StatusTypeOK, Statuses
<1>2. BusyEvents'
  BY DEF BusyEvents, Notifying
<1>. QED  BY <1>1, <1>2 DEF LastReport, NoTimer, ShownOrHeld

\* The events after thread t has begun to notify.
LEMMA BeginEvents ==
  ASSUME TypeOK, ReportInv, NEW t \in SdkThreads, BeginNotify(t),
         NEW e \in ConnectionEvents \cup {"OnRecvMsg"}, Raise(t, e)
  PROVE  /\ event' \in [SdkThreads -> ConnectionEvents \cup {"OnRecvMsg", "none"}]
         /\ event[t] = "none"
         /\ event'[t] \in {e, "none"} /\ (~JniMayFail => event'[t] = e)
         /\ \A u \in SdkThreads : u # t => event'[u] = event[u]
         /\ BusyEvents'
<1>. USE DEF TypeOK, ThreadsTypeOK, BeginNotify
<1>1. e # "none"
  BY DEF ConnectionEvents
<1>2. /\ event' = [event EXCEPT ![t] = IF spc'[t] = "check" THEN e ELSE "none"]
      /\ event \in [SdkThreads -> ConnectionEvents \cup {"OnRecvMsg", "none"}]
  BY DEF Raise, ReportInv, StatusTypeOK
<1>3. /\ spc[t] = "idle" /\ spc'[t] \in {"check", "idle"}
      /\ ~JniMayFail => spc'[t] = "check"
      /\ \A u \in SdkThreads : u # t => spc'[u] = spc[u]
  OBVIOUS
<1>4. event[t] = "none"
  BY <1>3 DEF ReportInv, BusyEvents, Notifying
<1>5. event'[t] = IF spc'[t] = "check" THEN e ELSE "none"
  BY <1>2
<1>6. \A u \in SdkThreads : u # t => event'[u] = event[u]
  BY <1>2
<1>7. BusyEvents'
  <2>. SUFFICES ASSUME NEW u \in SdkThreads PROVE event'[u] # "none" <=> Notifying(u)'
    BY DEF BusyEvents
  <2>1. CASE u = t
    BY <1>1, <1>3, <1>5, <2>1 DEF Notifying
  <2>2. CASE u # t
    BY <1>3, <1>6, <2>2 DEF ReportInv, BusyEvents, Notifying
  <2>. QED  BY <2>1, <2>2
<1>8. event' \in [SdkThreads -> ConnectionEvents \cup {"OnRecvMsg", "none"}]
  BY <1>2, <1>5
<1>. QED  BY <1>3, <1>4, <1>5, <1>6, <1>7, <1>8

LEMMA ConnectionReport ==
  ASSUME TypeOK, InstanceInv, ManagerInv, ReportInv, NEW m \in Managers,
         BeginNotify(Receiver(m)), ReceiverReports(m), UNCHANGED <<ui, status>>,
         NEW e \in ConnectionEvents, Report(m, e)
  PROVE  ReportInv'
<1>. USE ThreadsFacts DEF Report
<1>1. /\ event' \in [SdkThreads -> ConnectionEvents \cup {"OnRecvMsg", "none"}]
      /\ event'[Receiver(m)] \in {e, "none"}
      /\ ~JniMayFail => event'[Receiver(m)] = e
      /\ \A u \in SdkThreads : u # Receiver(m) => event'[u] = event[u]
      /\ BusyEvents'
  BY BeginEvents
<1>2. StatusTypeOK'
  <2>1. current' \in BOOLEAN
    BY Zenon
  <2>. QED  BY <1>1, <2>1 DEF ReportInv, StatusTypeOK
<1>3. "none" \notin ConnectionEvents
  BY DEF ConnectionEvents
<1>4. LastReport'
  <2>. SUFFICES ASSUME NEW n \in Managers, event'[Receiver(n)] \in ConnectionEvents
                PROVE  event'[Receiver(n)] = e
    BY DEF LastReport
  <2>1. CASE n = m
    BY <1>1, <1>3, <2>1
  <2>2. CASE n # m
    <3>1. spc[Receiver(n)] = "idle"
      BY <2>2, OneReceiver DEF ReceiverReports
    <3>2. event[Receiver(n)] = "none"
      BY <3>1 DEF ReportInv, BusyEvents, Notifying
    <3>. QED  BY <1>1, <1>3, <2>2, <3>2, TwoThreads
  <2>. QED  BY <2>1, <2>2
<1>5. NoTimer'
  <2>1. \A n \in Managers : event'[Timer(n)] = event[Timer(n)]
    BY <1>1, TwoThreads
  <2>2. current' => \A n \in Managers : event[Timer(n)] = "none"
    BY Zenon
  <2>. QED  BY <2>1, <2>2 DEF NoTimer
<1>6. ShownOrHeld'
  BY <1>1 DEF ShownOrHeld
<1>. QED  BY <1>1, <1>2, <1>4, <1>5, <1>6 DEF ReportInv

LEMMA MessageReport ==
  ASSUME TypeOK, ReportInv, NEW m \in Managers, BeginNotify(Receiver(m)),
         Raise(Receiver(m), "OnRecvMsg"), UNCHANGED <<ui, status, reported, current>>
  PROVE  ReportInv'
<1>. USE ThreadsFacts DEF ReportInv
<1>1. /\ event' \in [SdkThreads -> ConnectionEvents \cup {"OnRecvMsg", "none"}]
      /\ event[Receiver(m)] = "none"
      /\ event'[Receiver(m)] \in {"OnRecvMsg", "none"}
      /\ \A u \in SdkThreads : u # Receiver(m) => event'[u] = event[u]
      /\ BusyEvents'
  BY BeginEvents
<1>2. "none" \notin ConnectionEvents /\ "OnRecvMsg" \notin ConnectionEvents
  BY DEF ConnectionEvents
<1>3. StatusTypeOK'
  BY <1>1 DEF StatusTypeOK
<1>4. LastReport'
  BY <1>1, <1>2 DEF LastReport
<1>5. NoTimer'
  BY <1>1, TwoThreads DEF NoTimer
<1>6. ShownOrHeld'
  <2>. SUFFICES ASSUME current, ~JniMayFail, NEW n \in Managers,
                       event[Receiver(n)] = reported
                PROVE  event'[Receiver(n)] = reported
    BY DEF ShownOrHeld
  <2>1. n # m
    BY <1>1, <1>2 DEF NoTimer
  <2>. QED  BY <1>1, <2>1, TwoThreads
<1>. QED  BY <1>1, <1>3, <1>4, <1>5, <1>6

LEMMA NotifyReport ==
  ASSUME TypeOK, InstanceInv, ManagerInv, ReportInv, NEW m \in Managers, Notify(m)
  PROVE  ReportInv'
<1>1. BeginNotify(Receiver(m)) /\ UNCHANGED <<ui, status>>
  BY DEF Notify
<1>2. CASE /\ StartRelogin(m) \/ EndRelogin(m)
           /\ \E e \in ConnectionEvents : Report(m, e)
  BY <1>1, <1>2, ConnectionReport DEF StartRelogin, EndRelogin
<1>3. CASE Raise(Receiver(m), "OnRecvMsg") /\ UNCHANGED <<reported, current>>
  BY <1>1, <1>3, MessageReport
<1>. QED  BY <1>2, <1>3 DEF Notify, ConnectionEvents

LEMMA GiveUpReport ==
  ASSUME TypeOK, ReportInv, NEW m \in Managers, GiveUp(m) PROVE ReportInv'
<1>. USE ThreadsFacts DEF GiveUp
<1>1. /\ event' \in [SdkThreads -> ConnectionEvents \cup {"OnRecvMsg", "none"}]
      /\ \A u \in SdkThreads : u # Timer(m) => event'[u] = event[u]
      /\ BusyEvents'
  BY BeginEvents DEF TimerNotifies, ConnectionEvents
<1>2. StatusTypeOK'
  BY <1>1 DEF ReportInv, StatusTypeOK
<1>3. LastReport'
  BY <1>1, TwoThreads DEF ReportInv, LastReport
<1>. QED  BY <1>1, <1>2, <1>3 DEF ReportInv, NoTimer, ShownOrHeld

\* The events after thread t has gone on to p.
LEMMA EndEvents ==
  ASSUME TypeOK, ReportInv, NEW t \in SdkThreads, Notifying(t), NEW p \in {"notify", "idle"},
         spc' = [spc EXCEPT ![t] = p],
         event' = [event EXCEPT ![t] = IF p = "notify" THEN @ ELSE "none"]
  PROVE  /\ event' \in [SdkThreads -> ConnectionEvents \cup {"OnRecvMsg", "none"}]
         /\ event'[t] = IF p = "notify" THEN event[t] ELSE "none"
         /\ \A u \in SdkThreads : u # t => event'[u] = event[u]
         /\ \A u \in SdkThreads : event'[u] \in {event[u], "none"}
         /\ BusyEvents'
<1>. USE DEF TypeOK, ThreadsTypeOK, ReportInv, StatusTypeOK
<1>1. /\ event'[t] = IF p = "notify" THEN event[t] ELSE "none"
      /\ \A u \in SdkThreads : u # t => event'[u] = event[u] /\ spc'[u] = spc[u]
      /\ spc'[t] = p
  OBVIOUS
<1>2. event' \in [SdkThreads -> ConnectionEvents \cup {"OnRecvMsg", "none"}]
  BY <1>1
<1>3. BusyEvents'
  <2>. SUFFICES ASSUME NEW u \in SdkThreads PROVE event'[u] # "none" <=> Notifying(u)'
    BY DEF BusyEvents
  <2>1. CASE u = t
    BY <1>1, <2>1 DEF BusyEvents, Notifying
  <2>2. CASE u # t
    BY <1>1, <2>2 DEF BusyEvents, Notifying
  <2>. QED  BY <2>1, <2>2
<1>. QED  BY <1>1, <1>2, <1>3

LEMMA CheckReport ==
  ASSUME TypeOK, InstanceInv, HasInstance, ReportInv, NEW t \in SdkThreads, Check(t)
  PROVE  ReportInv'
<1>. USE DEF Check, CheckInstance, ReportInv
<1>1. /\ spc[t] = "check" /\ Notifying(t)
      /\ sMediaInstance # 0 => spc' = [spc EXCEPT ![t] = "notify"]
      /\ sMediaInstance = 0 => spc' = [spc EXCEPT ![t] = "idle"]
  BY DEF Notifying
<1>2. PICK p \in {"notify", "idle"} : /\ spc' = [spc EXCEPT ![t] = p]
                                      /\ sMediaInstance # 0 => p = "notify"
  BY <1>1
<1>3. spc'[t] = p
  BY <1>2 DEF TypeOK, ThreadsTypeOK
<1>4. event' = [event EXCEPT ![t] = IF p = "notify" THEN @ ELSE "none"]
  BY <1>3
<1>5. /\ event' \in [SdkThreads -> ConnectionEvents \cup {"OnRecvMsg", "none"}]
      /\ event'[t] = IF p = "notify" THEN event[t] ELSE "none"
      /\ \A u \in SdkThreads : u # t => event'[u] = event[u]
      /\ \A u \in SdkThreads : event'[u] \in {event[u], "none"}
      /\ BusyEvents'
  BY <1>1, <1>2, <1>4, EndEvents
<1>6. "none" \notin ConnectionEvents
  BY DEF ConnectionEvents
<1>7. StatusTypeOK'
  BY <1>5 DEF StatusTypeOK
<1>8. LastReport' /\ NoTimer'
  BY <1>5, <1>6, ThreadsFacts DEF LastReport, NoTimer
<1>9. ShownOrHeld'
  <2>. SUFFICES ASSUME NEW m \in Managers PROVE event'[Receiver(m)] = event[Receiver(m)]
    BY DEF ShownOrHeld
  <2>1. CASE t = Receiver(m)
    <3>1. sdk[m] \notin {"absent", "stopped"}
      BY <1>1, <2>1 DEF InstanceInv, StoppedIdle
    <3>. QED  BY <1>2, <1>5, <2>1, <3>1 DEF HasInstance
  <2>2. CASE t # Receiver(m)
    BY <1>5, <2>2, ThreadsFacts
  <2>. QED  BY <2>1, <2>2
<1>. QED  BY <1>5, <1>7, <1>8, <1>9

LEMMA DeliverReport ==
  ASSUME TypeOK, InstanceInv, ManagerInv, ReportInv, NEW t \in SdkThreads, Deliver(t)
  PROVE  ReportInv'
<1>. USE DEF Deliver, CallInstance, ReportInv
<1>1. spc[t] = "notify" /\ Notifying(t)
  BY DEF Notifying
<1>2. /\ event' \in [SdkThreads -> ConnectionEvents \cup {"OnRecvMsg", "none"}]
      /\ event'[t] = "none"
      /\ \A u \in SdkThreads : u # t => event'[u] = event[u]
      /\ \A u \in SdkThreads : event'[u] \in {event[u], "none"}
      /\ BusyEvents'
  BY <1>1, EndEvents
<1>3. "none" \notin ConnectionEvents
  BY DEF ConnectionEvents
<1>4. StatusTypeOK'
  <2>1. status' \in {StatusAfter(event[t]), status}
    OBVIOUS
  <2>2. StatusAfter(event[t]) \in Statuses
    BY DEF StatusAfter, StatusTypeOK, Statuses
  <2>. QED  BY <1>2, <2>1, <2>2 DEF StatusTypeOK
<1>5. LastReport' /\ NoTimer'
  BY <1>2, <1>3, ThreadsFacts DEF LastReport, NoTimer
<1>6. ShownOrHeld'
  <2>. SUFFICES ASSUME current, ~JniMayFail
                PROVE  \/ status' = Meaning[reported]
                       \/ \E m \in Managers : event'[Receiver(m)] = reported
    BY DEF ShownOrHeld
  <2>1. reported \in ConnectionEvents /\ \A n \in Managers : t # Timer(n)
    BY <1>1 DEF NoTimer, BusyEvents
  <2>2. PICK m \in Managers : t = Receiver(m)
    BY <2>1, TwoThreads
  <2>3. {sobj[t], sMediaInstance} \subseteq instRefs
    <3>1. \A c \in Ctl : cpc[c] # "stopClear"
      BY <1>1, <2>2, AllIdle
    <3>. QED  BY <1>1, <2>2, <3>1 DEF InstanceInv, RefOfInstance, ManagerInv, SeesInstance
  <2>4. status' = StatusAfter(event[t])
    BY <2>3
  <2>5. CASE event[t] = reported
    BY <2>1, <2>4, <2>5, MeaningFacts
  <2>6. CASE event[t] # reported
    <3>1. event[t] \in {"OnRecvMsg", "none"}
      BY <2>2, <2>6 DEF LastReport, StatusTypeOK
    <3>2. status' = status
      BY <2>4, <3>1 DEF StatusAfter
    <3>. QED  BY <1>2, <2>6, <3>2, ThreadsFacts DEF ShownOrHeld
  <2>. QED  BY <2>5, <2>6
<1>. QED  BY <1>2, <1>4, <1>5, <1>6

LEMMA NextReport ==
  ASSUME TypeOK, InstanceInv, ManagerInv, HasInstance, ReportInv, [AppNext]_allVars
  PROVE  ReportInv'
<1>1. CASE \/ UNCHANGED allVars \/ onCreate \/ init
           \/ BridgeStep /\ UNCHANGED appVars
           \/ \E r \in Requests : onClick(r) \/ Refuse(r)
           \/ \E t \in SdkThreads : Answer(t)
  <2>1. ui' \in {"idle", "setStatus"}
    BY <1>1 DEF ReportInv, StatusTypeOK, allVars, appVars, onCreate, init, onClick, Refuse,
              Answer
  <2>. QED  BY <1>1, <2>1, QuietStep, KeepReport
<1>2. ASSUME NEW t \in SdkThreads, Check(t) \/ Deliver(t) PROVE ReportInv'
  BY <1>2, CheckReport, DeliverReport
<1>3. ASSUME NEW m \in Managers, Notify(m) \/ GiveUp(m) PROVE ReportInv'
  BY <1>3, NotifyReport, GiveUpReport
<1>4. CASE setConncetStatus
  BY <1>4, SetReport
<1>. QED  BY <1>1, <1>2, <1>3, <1>4 DEF AppNext

LEMMA ReportCorrect == AppSpec => []ReportInv
  BY InitReport, NextReport, AppImplementsBridge, TypeCorrect, InstanceCorrect,
     ManagerCorrect, HasInstanceCorrect, PTL DEF AppSpec

\* Every report of the receiver thread gets to the status, and none is overtaken
\* by an older one: once the receiver is idle again, the activity shows the last
\* report, whatever is started, stopped, clicked and answered meanwhile, unless a
\* click or the relogin timer has set the status since.
THEOREM ReportsReachStatusCorrect == AppSpec => []ReportsReachStatus
<1>1. ReportInv => ReportsReachStatus
  <2>. SUFFICES ASSUME ReportInv, ~JniMayFail, current,
                       \A m \in Managers : spc[Receiver(m)] = "idle"
                PROVE  status = Meaning[reported]
    BY DEF ReportsReachStatus
  <2>1. \A m \in Managers : event[Receiver(m)] = "none"
    BY ThreadsFacts DEF ReportInv, BusyEvents, Notifying
  <2>2. reported # "none"
    BY DEF ReportInv, NoTimer, ConnectionEvents
  <2>. QED  BY <2>1, <2>2 DEF ReportInv, ShownOrHeld
<1>. QED  BY <1>1, ReportCorrect, PTL

ReturnTypeOK == ret \in BOOLEAN

\* The app's variables keep their types, and a callback has been given one bean
\* for every call it has got.
THEOREM AppTypeCorrect == AppSpec => []AppTypeOK
<1>1. TypeOK /\ OwnershipInv /\ BeansInv /\ ReportInv /\ ReturnTypeOK => AppTypeOK
  <2>. SUFFICES ASSUME TypeOK, OwnershipInv, BeansInv, ReportInv, ReturnTypeOK
                PROVE  AppTypeOK
    OBVIOUS
  <2>1. ASSUME NEW r \in Requests PROVE Len(beans[r]) = Len(calls[r])
    <3>0. /\ calls[r] = << >> => beans[r] = << >>
          /\ calls[r] # << >> => \E b : beans[r] = <<b>>
      BY DEF BeansInv, OneBean
    <3>1. CASE calls[r] = << >>
      BY <3>0, <3>1
    <3>2. CASE calls[r] # << >>
      <4>1. Len(calls[r]) = 1
        <5>1. Len(calls[r]) <= 1 /\ calls[r] \in Seq(Requests \cup {None})
          BY DEF OwnershipInv, CalledOnce, TypeOK, HistoryTypeOK
        <5>2. Len(calls[r]) \in Nat /\ Len(calls[r]) # 0
          BY <3>2, <5>1, EmptySeq
        <5>3. \A n \in Nat : n # 0 /\ n <= 1 => n = 1
          OBVIOUS
        <5>. QED  BY <5>1, <5>2, <5>3
      <4>2. PICK b : beans[r] = <<b>>
        BY <3>0, <3>2
      <4>3. Len(beans[r]) = 1
        BY <4>2
      <4>. QED  BY <4>1, <4>3
    <3>. QED  BY <3>1, <3>2
  <2>2. ASSUME NEW r \in Requests, result[r] # << >> PROVE result[r][1] \in Responses
    BY <2>2 DEF BeansInv, OneResult
  <2>. QED  BY <2>1, <2>2 DEF AppTypeOK, ReturnTypeOK, ReportInv, StatusTypeOK
<1>2. Spec => []OwnershipInv
  BY InitOwnership, NextOwnership, TypeCorrect, PTL DEF Spec
<1>3. AppInit => ReturnTypeOK
  BY DEF AppInit, ReturnTypeOK
<1>4. ReturnTypeOK /\ [AppNext]_allVars => ReturnTypeOK'
  <2>1. ret' \in BOOLEAN \/ UNCHANGED ret \/ ~[AppNext]_allVars
    BY DEF AppNext, allVars, appVars, onCreate, init, setConncetStatus, onClick, Refuse,
       Answer, Check, Deliver, Notify, GiveUp
  <2>. QED  BY <2>1, Zenon DEF ReturnTypeOK
<1>. QED
  BY <1>1, <1>2, <1>3, <1>4, AppImplementsBridge, BeansCorrect, ReportCorrect, PTL DEF AppSpec
=============================================================================

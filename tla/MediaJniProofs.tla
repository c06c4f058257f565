--------------------------- MODULE MediaJniProofs ---------------------------
(***************************************************************************)
(* Theorems about MediaJni, for every number of requests, managers and     *)
(* control threads, every width of the sequence numbers, and whether or    *)
(* not calls of the JVM may fail.                                          *)
(***************************************************************************)
EXTENDS MediaJni, TLAPS

LEMMA SeqsFacts == /\ 0 \in Seqs
                   /\ \A n \in Nat : n % SeqMod \in Seqs
  BY SeqModAssumption, SMTT(30) DEF Seqs

LEMMA NextSeqType == ASSUME staticSeq \in Nat PROVE NextSeq \in Seqs
  BY SeqsFacts DEF NextSeq

LEMMA ThreadsFacts == ASSUME NEW m \in Managers
                      PROVE  Receiver(m) \in SdkThreads /\ Timer(m) \in SdkThreads
  BY DEF Receiver, Timer, SdkThreads

-----------------------------------------------------------------------------
(* Type correctness.  A step leaves most groups of variables alone.          *)

LEMMA SameSdk == ASSUME SdkTypeOK, UNCHANGED sdkVars PROVE SdkTypeOK'
  BY DEF SdkTypeOK, sdkVars
LEMMA SameStatics == ASSUME StaticsTypeOK, UNCHANGED jniVars PROVE StaticsTypeOK'
  BY DEF StaticsTypeOK, jniVars
LEMMA SameRefs == ASSUME RefsTypeOK, UNCHANGED refVars PROVE RefsTypeOK'
  BY DEF RefsTypeOK, refVars
LEMMA SameRequests == ASSUME RequestsTypeOK, UNCHANGED reqVars PROVE RequestsTypeOK'
  BY DEF RequestsTypeOK, reqVars
LEMMA SameCtl == ASSUME CtlTypeOK, UNCHANGED ctlVars PROVE CtlTypeOK'
  BY DEF CtlTypeOK, ctlVars
LEMMA SameThreads == ASSUME ThreadsTypeOK, UNCHANGED thrVars PROVE ThreadsTypeOK'
  BY DEF ThreadsTypeOK, thrVars
LEMMA SameHistory == ASSUME HistoryTypeOK, UNCHANGED <<calls, crashed>> PROVE HistoryTypeOK'
  BY DEF HistoryTypeOK

LEMMA InitTypeOK == Init => TypeOK
<1>. SUFFICES ASSUME Init PROVE TypeOK
  OBVIOUS
<1>1. SdkTypeOK  BY DEF Init, SdkInit, SdkTypeOK, SdkStates, Answers
<1>2. StaticsTypeOK  BY SeqsFacts DEF Init, StaticsTypeOK
<1>3. RefsTypeOK  BY DEF Init, RefsTypeOK
<1>4. RequestsTypeOK  BY SeqsFacts DEF Init, RequestsTypeOK
<1>5. CtlTypeOK  BY DEF Init, CtlTypeOK
<1>6. ThreadsTypeOK  BY SeqsFacts DEF Init, ThreadsTypeOK
<1>7. HistoryTypeOK
  <2>1. << >> \in Seq(Requests \cup {None})
    OBVIOUS
  <2>. QED  BY <2>1 DEF Init, HistoryTypeOK
<1>. QED  BY <1>1, <1>2, <1>3, <1>4, <1>5, <1>6, <1>7 DEF TypeOK

LEMMA PostType == ASSUME TypeOK, NEW r \in Requests, Post(r) PROVE TypeOK'
<1>. USE DEF Post, TypeOK
<1>1. RequestsTypeOK'  BY DEF RequestsTypeOK
<1>. QED  BY <1>1, SameSdk, SameStatics, SameRefs, SameCtl, SameThreads, SameHistory

LEMMA BeginRequestType == ASSUME TypeOK, NEW r \in Requests, BeginRequest(r) PROVE TypeOK'
<1>. USE DEF BeginRequest, TypeOK
<1>1. SdkTypeOK'  BY DEF SdkTypeOK, DrawSeq, CreateGwSeq
<1>2. RequestsTypeOK'
  <2>1. NextSeq \in Seqs  BY NextSeqType DEF SdkTypeOK
  <2>2. sRequestManager \in Managers \cup {NoManager}  BY DEF StaticsTypeOK
  <2>. QED  BY <2>1, <2>2 DEF RequestsTypeOK, DrawSeq
<1>. QED  BY <1>1, <1>2, SameStatics, SameRefs, SameCtl, SameThreads, SameHistory

LEMMA AppendType ==
  ASSUME HistoryTypeOK, NEW r \in Requests, NEW x \in Requests \cup {None},
         calls' = [calls EXCEPT ![r] = Append(@, x)], UNCHANGED crashed
  PROVE  HistoryTypeOK'
<1>1. Append(calls[r], x) \in Seq(Requests \cup {None})
  BY DEF HistoryTypeOK
<1>. QED  BY <1>1 DEF HistoryTypeOK

LEMMA addRequestCallbackType ==
  ASSUME TypeOK, NEW r \in Requests, addRequestCallback(r) PROVE TypeOK'
<1>. USE DEF addRequestCallback, TypeOK
<1>1. StaticsTypeOK'
  BY DEF StaticsTypeOK, RefuseDirectly, StoreCallback, RequestsTypeOK
<1>2. RefsTypeOK'
  BY DEF RefsTypeOK, RefuseDirectly, StoreCallback, NewCallbackRef
<1>3. RequestsTypeOK'  BY DEF RequestsTypeOK
<1>4. HistoryTypeOK'
  BY AppendType DEF RefuseDirectly, StoreCallback, HistoryTypeOK
<1>. QED  BY <1>1, <1>2, <1>3, <1>4, SameSdk, SameCtl, SameThreads

LEMMA CallSdkType == ASSUME TypeOK, NEW r \in Requests, CallSdk(r) PROVE TypeOK'
<1>. USE DEF CallSdk, TypeOK
<1>1. SdkTypeOK'  BY DEF SdkTypeOK, SdkMayOwe, Answers
<1>2. RequestsTypeOK'  BY DEF RequestsTypeOK
<1>3. HistoryTypeOK'  BY DEF HistoryTypeOK
<1>. QED  BY <1>1, <1>2, <1>3, SameStatics, SameRefs, SameCtl, SameThreads

LEMMA CtlCallsType == ASSUME TypeOK, NEW c \in Ctl, CtlCalls(c) PROVE TypeOK'
<1>1. PICK f \in {"start", "stop", "destory"}, step \in {"stopLock", "startLock"} :
        Call(c, f, step)
  BY DEF CtlCalls, JNI_start, JNI_stop, JNI_destory
<1>. USE <1>1 DEF Call, TypeOK
<1>2. CtlTypeOK'  BY DEF CtlTypeOK
<1>. QED  BY <1>2, SameSdk, SameStatics, SameRefs, SameRequests, SameThreads, SameHistory

LEMMA StopBeginType == ASSUME TypeOK, NEW c \in Ctl, StopBegin(c) PROVE TypeOK'
<1>. USE DEF StopBegin, TypeOK
<1>1. SdkTypeOK'  BY DEF SdkTypeOK, SdkStopBegin, SdkStates
<1>2. StaticsTypeOK'  BY DEF StaticsTypeOK
<1>3. CtlTypeOK'  BY DEF CtlTypeOK, StaticsTypeOK
<1>4. HistoryTypeOK'  BY DEF HistoryTypeOK
<1>. QED  BY <1>1, <1>2, <1>3, <1>4, SameRefs, SameRequests, SameThreads

LEMMA StopJoinType == ASSUME TypeOK, NEW c \in Ctl, StopJoin(c) PROVE TypeOK'
<1>. USE DEF StopJoin, TypeOK
<1>1. SdkTypeOK'  BY DEF SdkTypeOK, SdkStopEnd, SdkStates, Answers
<1>2. CtlTypeOK'  BY DEF CtlTypeOK
<1>. QED  BY <1>1, <1>2, SameStatics, SameRefs, SameRequests, SameThreads, SameHistory

LEMMA StopDeleteType == ASSUME TypeOK, NEW c \in Ctl, StopDelete(c) PROVE TypeOK'
<1>. USE DEF StopDelete, TypeOK
<1>1. RefsTypeOK'  BY DEF RefsTypeOK, DeleteInstanceRef
<1>2. CtlTypeOK'  BY DEF CtlTypeOK
<1>. QED  BY <1>1, <1>2, SameSdk, SameStatics, SameRequests, SameThreads, SameHistory

LEMMA StopClearType == ASSUME TypeOK, NEW c \in Ctl, StopClear(c) PROVE TypeOK'
<1>. USE DEF StopClear, TypeOK, ClearCallbacks
<1>1. StaticsTypeOK'  BY DEF StaticsTypeOK, unlockMediaCallbackMutex, ForgetInstance
<1>2. RefsTypeOK'  BY DEF RefsTypeOK
<1>3. CtlTypeOK'  BY DEF CtlTypeOK
<1>. QED  BY <1>1, <1>2, <1>3, SameSdk, SameRequests, SameThreads, SameHistory

LEMMA StartLockedType == ASSUME TypeOK, NEW c \in Ctl, NEW ok \in BOOLEAN, StartLocked(c, ok)
  PROVE  TypeOK'
<1>. USE DEF StartLocked, TypeOK
<1>1. SdkTypeOK'  BY DEF SdkTypeOK, SdkStart, SdkStates
<1>2. StaticsTypeOK'  BY DEF StaticsTypeOK, RefsTypeOK
<1>3. RefsTypeOK'
  <2>1. starts + 1 \in Nat
    BY DEF RefsTypeOK
  <2>2. /\ UNCHANGED <<cbRefs, attached>>
        /\ starts' \in {starts, starts + 1}
        /\ instRefs' \in {instRefs, instRefs \cup {starts + 1}}
    OBVIOUS
  <2>. QED  BY <2>1, <2>2 DEF RefsTypeOK
<1>4. CtlTypeOK'  BY DEF CtlTypeOK, Return
<1>. QED  BY <1>1, <1>2, <1>3, <1>4, SameRequests, SameThreads, SameHistory

LEMMA destoryRequestManagerType ==
  ASSUME TypeOK, NEW c \in Ctl, destoryRequestManager(c) PROVE TypeOK'
<1>. USE DEF destoryRequestManager, TypeOK
<1>1. StaticsTypeOK'  BY DEF StaticsTypeOK
<1>2. CtlTypeOK'  BY DEF CtlTypeOK, Return
<1>. QED  BY <1>1, <1>2, SameSdk, SameRefs, SameRequests, SameThreads, SameHistory

LEMMA OnAnswerType ==
  ASSUME TypeOK, NEW m \in Managers, NEW r \in Requests, OnAnswer(m, r) PROVE TypeOK'
<1>. USE ThreadsFacts DEF OnAnswer, TypeOK
<1>1. NextSeq \in Seqs  BY NextSeqType DEF SdkTypeOK
<1>2. SdkTypeOK'
  BY DEF SdkTypeOK, ReceiverReports, SdkStates, Answers, CreateGwSeq
<1>3. ThreadsTypeOK'  BY <1>1 DEF ThreadsTypeOK, RequestsTypeOK
<1>. QED  BY <1>2, <1>3, SameStatics, SameRefs, SameRequests, SameCtl, SameHistory

LEMMA getRequestCallbackType ==
  ASSUME TypeOK, NEW t \in SdkThreads, getRequestCallback(t) PROVE TypeOK'
<1>. USE DEF getRequestCallback, TypeOK
<1>1. StaticsTypeOK'  BY DEF StaticsTypeOK, EraseCallback
<1>2. ThreadsTypeOK'  BY DEF ThreadsTypeOK, StaticsTypeOK, FindCallback
<1>. QED  BY <1>1, <1>2, SameSdk, SameRefs, SameRequests, SameCtl, SameHistory

LEMMA AnswerFailsType == ASSUME TypeOK, NEW t \in SdkThreads, AnswerFails(t) PROVE TypeOK'
<1>. USE DEF AnswerFails, TypeOK
<1>1. RefsTypeOK'  BY DEF RefsTypeOK, JNI_get_env
<1>2. ThreadsTypeOK'  BY DEF ThreadsTypeOK
<1>. QED  BY <1>1, <1>2, SameSdk, SameStatics, SameRequests, SameCtl, SameHistory

LEMMA InvokeCallbackType ==
  ASSUME TypeOK, NEW t \in SdkThreads, InvokeCallback(t) PROVE TypeOK'
<1>. USE DEF InvokeCallback, TypeOK
<1>1. RefsTypeOK'  BY DEF RefsTypeOK, JNI_get_env
<1>2. ThreadsTypeOK'  BY DEF ThreadsTypeOK
<1>3. HistoryTypeOK'
  <2>1. scb[t] \in Requests \cup {None} /\ sfor[t] \in Requests \cup {None}
    BY DEF ThreadsTypeOK
  <2>2. CASE scb[t] \in Requests
    BY <2>1, <2>2, AppendType
  <2>3. CASE scb[t] = None
    BY <2>3, NullAssumption DEF HistoryTypeOK
  <2>. QED  BY <2>1, <2>2, <2>3
<1>. QED  BY <1>1, <1>2, <1>3, SameSdk, SameStatics, SameRequests, SameCtl

LEMMA ReleaseCallbackType ==
  ASSUME TypeOK, NEW t \in SdkThreads, ReleaseCallback(t) PROVE TypeOK'
<1>. USE DEF ReleaseCallback, TypeOK
<1>1. RefsTypeOK'  BY DEF RefsTypeOK, DeleteCallbackRef, JNI_put_env
<1>2. ThreadsTypeOK'  BY DEF ThreadsTypeOK
<1>. QED  BY <1>1, <1>2, SameSdk, SameStatics, SameRequests, SameCtl, SameHistory

LEMMA BeginNotifyType ==
  ASSUME TypeOK, NEW t \in SdkThreads, BeginNotify(t), SdkTypeOK' PROVE TypeOK'
<1>. USE DEF BeginNotify, TypeOK
<1>1. RefsTypeOK'  BY DEF RefsTypeOK, JNI_get_env
<1>2. ThreadsTypeOK'  BY DEF ThreadsTypeOK
<1>. QED  BY <1>1, <1>2, SameStatics, SameRequests, SameCtl, SameHistory

LEMMA NotifyType ==
  ASSUME TypeOK, NEW m \in Managers, ReceiverNotifies(m) \/ TimerNotifies(m)
  PROVE  TypeOK'
<1>1. CASE ReceiverNotifies(m)
  <2>1. SdkTypeOK'
    BY <1>1 DEF TypeOK, SdkTypeOK, ReceiverNotifies, StartRelogin, EndRelogin, RecvMsg,
                ReceiverReports, SdkStates
  <2>. QED  BY <1>1, <2>1, BeginNotifyType, ThreadsFacts DEF ReceiverNotifies
<1>2. CASE TimerNotifies(m)
  <2>1. SdkTypeOK'
    BY <1>2 DEF TypeOK, SdkTypeOK, TimerNotifies, ReloginGivesUp
  <2>. QED  BY <1>2, <2>1, BeginNotifyType, ThreadsFacts DEF TimerNotifies
<1>. QED  BY <1>1, <1>2

LEMMA CheckInstanceType ==
  ASSUME TypeOK, NEW t \in SdkThreads, CheckInstance(t) PROVE TypeOK'
<1>. USE DEF CheckInstance, TypeOK
<1>1. RefsTypeOK'  BY DEF RefsTypeOK, JNI_put_env
<1>2. ThreadsTypeOK'  BY DEF ThreadsTypeOK, StaticsTypeOK
<1>. QED  BY <1>1, <1>2, SameSdk, SameStatics, SameRequests, SameCtl, SameHistory

LEMMA CallInstanceType ==
  ASSUME TypeOK, NEW t \in SdkThreads, CallInstance(t) PROVE TypeOK'
<1>. USE DEF CallInstance, TypeOK
<1>1. RefsTypeOK'  BY DEF RefsTypeOK, JNI_put_env
<1>2. ThreadsTypeOK'  BY DEF ThreadsTypeOK
<1>. QED  BY <1>1, <1>2, SameSdk, SameStatics, SameRequests, SameCtl, SameHistory

LEMMA SdkAloneType == ASSUME TypeOK, SdkAlone PROVE TypeOK'
<1>. USE DEF SdkAlone, TypeOK
<1>1. SdkTypeOK'  BY DEF SdkTypeOK, SdkDraw, CreateGwSeq
<1>. QED  BY <1>1, SameStatics, SameRefs, SameRequests, SameCtl, SameThreads, SameHistory

LEMMA NextTypeOK == TypeOK /\ [Next]_vars => TypeOK'
<1>. SUFFICES ASSUME TypeOK, [Next]_vars PROVE TypeOK'
  OBVIOUS
<1>1. ASSUME NEW r \in Requests, Post(r) \/ RequestStep(r) PROVE TypeOK'
  BY <1>1, PostType, BeginRequestType, addRequestCallbackType, CallSdkType DEF RequestStep
<1>2. ASSUME NEW c \in Ctl, CtlCalls(c) \/ CtlStep(c) PROVE TypeOK'
  BY <1>2, CtlCallsType, StopBeginType, StopJoinType, StopDeleteType, StopClearType,
     StartLockedType, destoryRequestManagerType DEF CtlStep, StopStep
<1>3. ASSUME NEW t \in SdkThreads, SdkThreadStep(t) PROVE TypeOK'
  BY <1>3, getRequestCallbackType, AnswerFailsType, InvokeCallbackType,
     ReleaseCallbackType, CheckInstanceType, CallInstanceType DEF SdkThreadStep
<1>4. CASE UNCHANGED vars
  BY <1>4, SameSdk, SameStatics, SameRefs, SameRequests, SameCtl, SameThreads, SameHistory
     DEF vars, TypeOK
<1>. QED
  BY <1>1, <1>2, <1>3, <1>4, OnAnswerType, NotifyType, SdkAloneType DEF Next

\* Every variable of the native code keeps its type in every reachable state.
THEOREM TypeCorrect == Spec => []TypeOK
  BY InitTypeOK, NextTypeOK, PTL DEF Spec

-----------------------------------------------------------------------------
(* Who owns the reference to a callback, and how often it was called.  The   *)
(* two go together: a callback is called at most once because whoever may    *)
(* still call it is its only owner and has not called it yet.                *)

\* A request that has not come past addRequestCallback has no reference.
NewHasNone ==
    \A r \in Requests : pc[r] \in {"idle", "posted", "adding"} =>
        r \notin cbRefs /\ calls[r] = << >>

\* What the map holds is live, in no thread's hand and not yet called.
MapOwns ==
    \A s \in Seqs : sCallbackMap[s] # None =>
        /\ sCallbackMap[s] \in cbRefs
        /\ seq[sCallbackMap[s]] = s
        /\ calls[sCallbackMap[s]] = << >>
        /\ \A t \in SdkThreads : scb[t] # sCallbackMap[s]

\* A thread holds a callback from getRequestCallback to DeleteGlobalRef; it is
\* live, held by no other thread, and not called until this thread does it.
HandOwns ==
    \A t \in SdkThreads :
        /\ scb[t] # None <=> spc[t] \in {"call", "release"}
        /\ scb[t] # None =>
              /\ scb[t] \in cbRefs
              /\ \A u \in SdkThreads : scb[u] = scb[t] => u = t
        /\ spc[t] = "call" => calls[scb[t]] = << >>

\* Without a failure of the JVM nothing else is live.
NoneLeaks ==
    ~JniMayFail => \A r \in cbRefs :
        \/ \E s \in Seqs : sCallbackMap[s] = r
        \/ \E t \in SdkThreads : scb[t] = r

OwnershipInv == NewHasNone /\ MapOwns /\ HandOwns /\ NoneLeaks /\ CalledOnce

ownVars == <<sCallbackMap, cbRefs, scb, spc, calls, pc, seq>>

LEMMA OwnershipUnchanged == ASSUME OwnershipInv, UNCHANGED ownVars PROVE OwnershipInv'
  BY DEF OwnershipInv, NewHasNone, MapOwns, HandOwns, NoneLeaks, CalledOnce, ownVars

LEMMA OwnershipImplied ==
  ASSUME TypeOK, OwnershipInv PROVE CallbackOwnership /\ CalledOnce
<1>. USE DEF OwnershipInv, TypeOK
<1>1. \A s \in Seqs : sCallbackMap[s] # None =>
        sCallbackMap[s] \in cbRefs \ Held /\ seq[sCallbackMap[s]] = s
  BY DEF MapOwns, Held
<1>2. \A t \in SdkThreads : scb[t] # None =>
        scb[t] \in cbRefs /\ \A u \in SdkThreads : scb[u] = scb[t] => u = t
  BY DEF HandOwns
<1>3. ASSUME ~JniMayFail PROVE cbRefs = Mapped \cup Held
  <2>1. None \notin cbRefs  BY NullAssumption DEF RefsTypeOK
  <2>2. cbRefs \subseteq Mapped \cup Held
    BY <1>3, <2>1 DEF NoneLeaks, Mapped, Held
  <2>3. Mapped \cup Held \subseteq cbRefs
    BY <1>1, <1>2 DEF Mapped, Held
  <2>. QED  BY <2>2, <2>3
<1>. QED  BY <1>1, <1>2, <1>3 DEF CallbackOwnership

LEMMA InitOwnership == Init => OwnershipInv
  BY DEF Init, OwnershipInv, NewHasNone, MapOwns, HandOwns, NoneLeaks, CalledOnce

\* A step of SDK thread t between states in which it holds no callback.
LEMMA EmptyHandStep ==
  ASSUME TypeOK, OwnershipInv, NEW t \in SdkThreads,
         NEW to \in {"idle", "take", "check", "notify"},
         spc[t] \in {"idle", "take", "check", "notify"},
         spc' = [spc EXCEPT ![t] = to],
         UNCHANGED <<sCallbackMap, cbRefs, scb, calls, pc, seq>>
  PROVE  OwnershipInv'
<1>1. HandOwns'
  BY DEF OwnershipInv, HandOwns, TypeOK, ThreadsTypeOK
<1>. QED  BY <1>1 DEF OwnershipInv, NewHasNone, MapOwns, NoneLeaks, CalledOnce

\* A request moves on without a callback being stored or called.
LEMMA PlainRequestStep ==
  ASSUME TypeOK, OwnershipInv, NEW r \in Requests,
         NEW to \in {"posted", "adding", "calling", "done"},
         pc' = [pc EXCEPT ![r] = to],
         to \in {"posted", "adding"} => pc[r] \in {"idle", "posted"},
         UNCHANGED <<sCallbackMap, cbRefs, scb, spc, calls>>,
         \/ UNCHANGED seq
         \/ pc[r] = "posted" /\ \E n \in Seqs : seq' = [seq EXCEPT ![r] = n]
  PROVE  OwnershipInv'
<1>. USE DEF OwnershipInv, TypeOK
<1>1. NewHasNone'  BY DEF NewHasNone, RequestsTypeOK
<1>2. MapOwns'
  <2>1. UNCHANGED seq \/ r \notin cbRefs  BY DEF NewHasNone
  <2>. QED  BY <2>1 DEF MapOwns, RequestsTypeOK, RefsTypeOK
<1>. QED  BY <1>1, <1>2 DEF HandOwns, NoneLeaks, CalledOnce

LEMMA addRequestCallbackOwnership ==
  ASSUME TypeOK, OwnershipInv, NEW r \in Requests, addRequestCallback(r)
  PROVE  OwnershipInv'
<1>. USE DEF addRequestCallback, OwnershipInv, TypeOK
<1>1. r \notin cbRefs /\ calls[r] = << >>  BY DEF NewHasNone
<1>2. /\ \A s \in Seqs : sCallbackMap[s] # r
      /\ \A t \in SdkThreads : scb[t] # r
  BY <1>1, NullAssumption DEF MapOwns, HandOwns
<1>3. CASE UNCHANGED <<sCallbackMap, cbRefs, calls>>
  BY <1>3, PlainRequestStep DEF thrVars
<1>4. CASE RefuseDirectly(r) /\ calls' = [calls EXCEPT ![r] = Append(@, None)]
  <2>. USE <1>4 DEF RefuseDirectly
  <2>1. Len(calls'[r]) = 1
    BY <1>1 DEF HistoryTypeOK
  <2>2. NewHasNone'  BY DEF NewHasNone, RequestsTypeOK, HistoryTypeOK
  <2>3. MapOwns'  BY <1>2 DEF MapOwns, HistoryTypeOK, StaticsTypeOK, thrVars
  <2>4. HandOwns'  BY <1>2 DEF HandOwns, HistoryTypeOK, ThreadsTypeOK, thrVars
  <2>5. NoneLeaks'  BY DEF NoneLeaks, thrVars
  <2>6. CalledOnce'  BY <2>1 DEF CalledOnce, HistoryTypeOK
  <2>. QED  BY <2>2, <2>3, <2>4, <2>5, <2>6
<1>5. CASE StoreCallback(r) /\ ~IsStored(r)
  <2>. USE <1>5 DEF StoreCallback, NewCallbackRef, IsStored
  <2>1. seq[r] \in Seqs  BY DEF RequestsTypeOK
  <2>2. NewHasNone'  BY DEF NewHasNone, RequestsTypeOK
  <2>3. MapOwns'
    BY <1>1, <1>2, <2>1 DEF MapOwns, StaticsTypeOK, RequestsTypeOK, thrVars
  <2>4. HandOwns'  BY DEF HandOwns, thrVars
  <2>5. NoneLeaks'
    <3>. SUFFICES ASSUME ~JniMayFail, NEW q \in cbRefs \cup {r}
                  PROVE  \/ \E s \in Seqs : sCallbackMap'[s] = q
                         \/ \E t \in SdkThreads : scb[t] = q
      BY DEF NoneLeaks, thrVars
    <3>1. q # None  BY NullAssumption DEF RefsTypeOK
    <3>2. sCallbackMap'[seq[r]] = r  BY <2>1 DEF StaticsTypeOK
    <3>3. \A s \in Seqs : sCallbackMap[s] = q => sCallbackMap'[s] = q
      BY <2>1, <3>1 DEF StaticsTypeOK
    <3>. QED  BY <2>1, <3>2, <3>3 DEF NoneLeaks
  <2>6. CalledOnce'  BY DEF CalledOnce
  <2>. QED  BY <2>2, <2>3, <2>4, <2>5, <2>6
<1>. QED  BY <1>3, <1>4, <1>5 DEF RefuseDirectly, StoreCallback

LEMMA StopClearOwnership ==
  ASSUME TypeOK, OwnershipInv, NEW c \in Ctl, StopClear(c) PROVE OwnershipInv'
<1>. USE DEF StopClear, ClearCallbacks, OwnershipInv, TypeOK
<1>1. NewHasNone'  BY DEF NewHasNone, reqVars
<1>2. MapOwns'  BY DEF MapOwns
<1>3. HandOwns'
  <2>1. \A t \in SdkThreads : scb[t] # None => scb[t] \notin Mapped
    BY DEF MapOwns, Mapped
  <2>. QED  BY <2>1 DEF HandOwns, thrVars
<1>4. NoneLeaks'
  <2>. SUFFICES ASSUME ~JniMayFail, NEW r \in cbRefs \ Mapped
                PROVE  \E t \in SdkThreads : scb[t] = r
    BY DEF NoneLeaks, thrVars
  <2>1. r # None  BY NullAssumption DEF RefsTypeOK
  <2>2. \A s \in Seqs : sCallbackMap[s] # r
    BY <2>1 DEF Mapped
  <2>. QED  BY <2>2 DEF NoneLeaks
<1>. QED  BY <1>1, <1>2, <1>3, <1>4 DEF CalledOnce

LEMMA getRequestCallbackOwnership ==
  ASSUME TypeOK, OwnershipInv, NEW t \in SdkThreads, getRequestCallback(t)
  PROVE  OwnershipInv'
<1>. USE DEF getRequestCallback, OwnershipInv, TypeOK, EraseCallback, FindCallback
<1>. DEFINE s0 == sseq[t]
<1>1. s0 \in Seqs  BY DEF ThreadsTypeOK
<1>2. scb[t] = None  BY DEF HandOwns
<1>3. NewHasNone'  BY DEF NewHasNone, reqVars, refVars
<1>4. \A s \in Seqs : sCallbackMap[s] # None /\ s # s0 => sCallbackMap[s] # sCallbackMap[s0]
  BY <1>1 DEF MapOwns
<1>5. MapOwns'
  BY <1>1, <1>4 DEF MapOwns, StaticsTypeOK, ThreadsTypeOK, reqVars, refVars
<1>6. HandOwns'
  BY <1>1, <1>2 DEF HandOwns, MapOwns, ThreadsTypeOK, refVars
<1>7. NoneLeaks'
  BY <1>1, <1>2, NullAssumption DEF NoneLeaks, StaticsTypeOK, ThreadsTypeOK, RefsTypeOK, refVars
<1>. QED  BY <1>3, <1>5, <1>6, <1>7 DEF CalledOnce

LEMMA AnswerFailsOwnership ==
  ASSUME TypeOK, OwnershipInv, NEW t \in SdkThreads, AnswerFails(t) PROVE OwnershipInv'
<1>. USE DEF AnswerFails, OwnershipInv, TypeOK
<1>1. NewHasNone'  BY DEF NewHasNone, reqVars
<1>2. MapOwns'
  BY DEF MapOwns, ThreadsTypeOK, jniVars, reqVars
<1>3. HandOwns'  BY DEF HandOwns, ThreadsTypeOK
<1>4. NoneLeaks'  BY DEF NoneLeaks
<1>. QED  BY <1>1, <1>2, <1>3, <1>4 DEF CalledOnce

LEMMA InvokeCallbackOwnership ==
  ASSUME TypeOK, OwnershipInv, NEW t \in SdkThreads, InvokeCallback(t)
  PROVE  OwnershipInv'
<1>. USE DEF InvokeCallback, OwnershipInv, TypeOK
<1>. DEFINE r == scb[t]
<1>1. r # None /\ r \in Requests /\ r \in cbRefs /\ calls[r] = << >>
  BY DEF HandOwns, ThreadsTypeOK
<1>2. Len(calls'[r]) = 1
  BY <1>1 DEF HistoryTypeOK
<1>3. \A q \in Requests : q # r => calls'[q] = calls[q]
  BY DEF HistoryTypeOK
<1>4. NewHasNone'  BY <1>1, <1>3 DEF NewHasNone, reqVars
<1>5. MapOwns'
  BY <1>3 DEF MapOwns, StaticsTypeOK, jniVars, reqVars
<1>6. HandOwns'
  BY <1>1, <1>3 DEF HandOwns, ThreadsTypeOK
<1>7. NoneLeaks'  BY DEF NoneLeaks, jniVars
<1>8. CalledOnce'  BY <1>2, <1>3 DEF CalledOnce
<1>. QED  BY <1>4, <1>5, <1>6, <1>7, <1>8

LEMMA ReleaseCallbackOwnership ==
  ASSUME TypeOK, OwnershipInv, NEW t \in SdkThreads, ReleaseCallback(t)
  PROVE  OwnershipInv'
<1>. USE DEF ReleaseCallback, DeleteCallbackRef, OwnershipInv, TypeOK
<1>1. scb[t] # None  BY DEF HandOwns
<1>2. NewHasNone'  BY DEF NewHasNone, reqVars
<1>3. MapOwns'  BY <1>1 DEF MapOwns, ThreadsTypeOK, jniVars, reqVars
<1>4. HandOwns'  BY <1>1 DEF HandOwns, ThreadsTypeOK
<1>5. NoneLeaks'  BY DEF NoneLeaks, ThreadsTypeOK, jniVars
<1>. QED  BY <1>2, <1>3, <1>4, <1>5 DEF CalledOnce

LEMMA NextOwnership == TypeOK /\ OwnershipInv /\ [Next]_vars => OwnershipInv'
<1>. SUFFICES ASSUME TypeOK, OwnershipInv, [Next]_vars PROVE OwnershipInv'
  OBVIOUS
<1>1. ASSUME NEW r \in Requests, Post(r) PROVE OwnershipInv'
  BY <1>1, PlainRequestStep DEF Post, jniVars, refVars, thrVars
<1>2. ASSUME NEW r \in Requests, BeginRequest(r) PROVE OwnershipInv'
  <2>1. NextSeq \in Seqs  BY NextSeqType DEF TypeOK, SdkTypeOK
  <2>. QED
    BY <1>2, <2>1, PlainRequestStep DEF BeginRequest, DrawSeq, jniVars, refVars, thrVars
<1>3. ASSUME NEW r \in Requests, CallSdk(r) PROVE OwnershipInv'
  BY <1>3, PlainRequestStep DEF CallSdk, jniVars, refVars, thrVars
<1>4. ASSUME NEW c \in Ctl, CtlCalls(c) PROVE OwnershipInv'
  BY <1>4, OwnershipUnchanged DEF CtlCalls, JNI_start, JNI_stop, JNI_destory, Call,
     ownVars, jniVars, refVars, reqVars, thrVars
<1>5. ASSUME NEW c \in Ctl, CtlStep(c) PROVE OwnershipInv'
  <2>1. CASE StopClear(c)  BY <2>1, StopClearOwnership
  <2>2. CASE ~StopClear(c)
    BY <1>5, <2>2, OwnershipUnchanged
       DEF CtlStep, StopStep, StopBegin, StopJoin, StopDelete, StartLocked, destoryRequestManager,
           ownVars, jniVars, refVars, reqVars, thrVars
  <2>. QED  BY <2>1, <2>2
<1>6. ASSUME NEW m \in Managers, NEW r \in Requests, OnAnswer(m, r) PROVE OwnershipInv'
  BY <1>6, ThreadsFacts, EmptyHandStep DEF OnAnswer, jniVars, refVars, reqVars
<1>7. ASSUME NEW t \in SdkThreads, BeginNotify(t) PROVE OwnershipInv'
  BY <1>7, EmptyHandStep, OwnershipUnchanged DEF BeginNotify, ownVars, jniVars, reqVars
<1>8. ASSUME NEW t \in SdkThreads, SdkThreadStep(t) PROVE OwnershipInv'
  <2>1. CASE CheckInstance(t)
    BY <2>1, EmptyHandStep DEF CheckInstance, jniVars, reqVars
  <2>2. CASE CallInstance(t)
    BY <2>2, EmptyHandStep DEF CallInstance, jniVars, reqVars
  <2>. QED
    BY <1>8, <2>1, <2>2, getRequestCallbackOwnership, AnswerFailsOwnership,
       InvokeCallbackOwnership, ReleaseCallbackOwnership DEF SdkThreadStep
<1>9. CASE SdkAlone \/ UNCHANGED vars
  BY <1>9, OwnershipUnchanged DEF SdkAlone, vars, ownVars, jniVars, refVars, reqVars, thrVars
<1>. QED
  BY <1>1, <1>2, <1>3, <1>4, <1>5, <1>6, <1>7, <1>8, <1>9, ThreadsFacts,
     addRequestCallbackOwnership
     DEF Next, RequestStep, ReceiverNotifies, TimerNotifies

\* The owner of a callback's reference is unique and always holds a live one,
\* and without a failure of the JVM no reference leaks: JNI_stop, the receiver
\* threads and the requests never delete a reference another may still use.
THEOREM OwnershipCorrect == Spec => []CallbackOwnership
<1>1. TypeOK /\ OwnershipInv => CallbackOwnership
  BY OwnershipImplied
<1>. QED
  BY <1>1, InitOwnership, NextOwnership, TypeCorrect, PTL DEF Spec

\* No callback is called twice, even when answers are repeated, when the SDK is
\* stopped and restarted meanwhile, and when the sequence numbers wrap around.
THEOREM CalledOnceCorrect == Spec => []CalledOnce
<1>1. TypeOK /\ OwnershipInv => CalledOnce
  BY OwnershipImplied
<1>. QED
  BY <1>1, InitOwnership, NextOwnership, TypeCorrect, PTL DEF Spec
=============================================================================

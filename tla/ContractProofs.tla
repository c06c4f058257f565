--------------------------- MODULE ContractProofs ---------------------------
(***************************************************************************)
(* MediaJni implements CallbackContract: under the mapping Phase the       *)
(* initial states of the native code are initial states of the contract,   *)
(* and each of its steps is a step of the contract or leaves Phase alone.  *)
(***************************************************************************)
EXTENDS MediaJniProofs

\* A thread that has an answer to report has one to a request, and it releases
\* a callback only when it has called it.
AnswerInv ==
    \A t \in SdkThreads :
        /\ spc[t] \in {"take", "call"} => sfor[t] \in Requests
        /\ spc[t] = "release" => calls[scb[t]] # << >>

-----------------------------------------------------------------------------
(* The invariant.                                                            *)

LEMMA InitAnswer == Init => AnswerInv
  BY DEF Init, AnswerInv

\* A step that leaves the threads alone and takes no call back.
LEMMA KeepAnswer ==
  ASSUME AnswerInv, OwnershipInv, TypeOK, UNCHANGED <<spc, scb, sfor>>,
         \A r \in Requests : calls[r] # << >> => calls'[r] # << >>
  PROVE  AnswerInv'
<1>1. \A t \in SdkThreads : spc[t] = "release" => scb[t] \in Requests
  BY DEF OwnershipInv, HandOwns, TypeOK, ThreadsTypeOK
<1>. QED  BY <1>1 DEF AnswerInv

\* A step of thread t that ends where it holds no answer.
LEMMA LeaveAnswer ==
  ASSUME AnswerInv, TypeOK, NEW t \in SdkThreads,
         NEW to \in {"idle", "check", "notify"}, NEW cb,
         spc' = [spc EXCEPT ![t] = to], scb' = [scb EXCEPT ![t] = cb],
         UNCHANGED <<sfor, calls>>
  PROVE  AnswerInv'
  BY DEF AnswerInv, TypeOK, ThreadsTypeOK

LEMMA AppendNonEmpty ==
  ASSUME NEW S, NEW s \in Seq(S), NEW x \in S PROVE Append(s, x) # << >>
<1>1. Len(Append(s, x)) = Len(s) + 1 /\ Len(s) \in Nat /\ Len(<< >>) = 0
  OBVIOUS
<1>2. Len(s) + 1 # 0  BY <1>1
<1>. QED  BY <1>1, <1>2

LEMMA addKeepsCalls ==
  ASSUME TypeOK, NEW r \in Requests, addRequestCallback(r)
  PROVE  \A q \in Requests : calls[q] # << >> => calls'[q] # << >>
<1>1. CASE UNCHANGED calls  BY <1>1
<1>2. CASE calls' = [calls EXCEPT ![r] = Append(@, None)]
  <2>1. Append(calls[r], None) # << >>
    BY AppendNonEmpty DEF TypeOK, HistoryTypeOK
  <2>. QED  BY <1>2, <2>1 DEF TypeOK, HistoryTypeOK
<1>. QED
  BY <1>1, <1>2 DEF addRequestCallback, RefuseDirectly, StoreCallback

LEMMA InvokeAnswer ==
  ASSUME AnswerInv, OwnershipInv, TypeOK, NEW t \in SdkThreads, InvokeCallback(t)
  PROVE  AnswerInv'
<1>. USE DEF InvokeCallback, TypeOK, ThreadsTypeOK, HistoryTypeOK
<1>1. \A u \in SdkThreads : spc[u] \in {"call", "release"} => scb[u] \in Requests
  BY DEF OwnershipInv, HandOwns
<1>2. sfor[t] \in Requests  BY DEF AnswerInv
<1>3. Append(calls[scb[t]], sfor[t]) # << >>
  BY <1>1, <1>2, AppendNonEmpty
<1>4. calls'[scb[t]] # << >>  BY <1>1, <1>3
<1>5. \A q \in Requests : calls[q] # << >> => calls'[q] # << >>
  BY <1>4
<1>. QED  BY <1>1, <1>4, <1>5 DEF AnswerInv

LEMMA NextAnswer == TypeOK /\ OwnershipInv /\ AnswerInv /\ [Next]_vars => AnswerInv'
<1>. SUFFICES ASSUME TypeOK, OwnershipInv, AnswerInv, [Next]_vars PROVE AnswerInv'
  OBVIOUS
<1>. USE DEF thrVars
<1>1. ASSUME UNCHANGED <<spc, scb, sfor, calls>> PROVE AnswerInv'
  BY <1>1 DEF AnswerInv
<1>2. ASSUME NEW r \in Requests, Post(r) \/ BeginRequest(r) \/ CallSdk(r) PROVE AnswerInv'
  BY <1>1, <1>2 DEF Post, BeginRequest, CallSdk
<1>3. ASSUME NEW r \in Requests, addRequestCallback(r) PROVE AnswerInv'
  BY <1>3, KeepAnswer, addKeepsCalls DEF addRequestCallback
<1>4. ASSUME NEW c \in Ctl, CtlCalls(c) \/ CtlStep(c) PROVE AnswerInv'
  BY <1>1, <1>4 DEF CtlCalls, JNI_start, JNI_stop, JNI_destory, Call, CtlStep, StopStep, StopBegin,
     StopJoin, StopDelete, StopClear, StartLocked, destoryRequestManager
<1>5. ASSUME NEW m \in Managers, NEW r \in Requests, OnAnswer(m, r) PROVE AnswerInv'
  BY <1>5, ThreadsFacts DEF OnAnswer, AnswerInv, TypeOK, ThreadsTypeOK
<1>6. ASSUME NEW t \in SdkThreads, BeginNotify(t) PROVE AnswerInv'
  BY <1>1, <1>6 DEF BeginNotify, AnswerInv, TypeOK, ThreadsTypeOK
<1>7. ASSUME NEW t \in SdkThreads, getRequestCallback(t) PROVE AnswerInv'
  BY <1>7 DEF getRequestCallback, AnswerInv, TypeOK, ThreadsTypeOK
<1>8. ASSUME NEW t \in SdkThreads, AnswerFails(t) \/ ReleaseCallback(t) PROVE AnswerInv'
  BY <1>8, LeaveAnswer DEF AnswerFails, ReleaseCallback
<1>9. ASSUME NEW t \in SdkThreads, CheckInstance(t) \/ CallInstance(t) PROVE AnswerInv'
  BY <1>9 DEF CheckInstance, CallInstance, AnswerInv, TypeOK, ThreadsTypeOK
<1>10. CASE SdkAlone \/ UNCHANGED vars
  BY <1>1, <1>10 DEF SdkAlone, vars
<1>. QED
  BY <1>2, <1>3, <1>4, <1>5, <1>6, <1>7, <1>8, <1>9, <1>10, InvokeAnswer, ThreadsFacts
     DEF Next, RequestStep, SdkThreadStep, ReceiverNotifies, TimerNotifies

-----------------------------------------------------------------------------
(* The steps.  A request is new until addRequestCallback has looked at it.   *)

New(r) == pc[r] \in {"idle", "posted", "adding"}

\* A step that leaves every request where it was, as far as Phase can tell.
LEMMA SamePhase ==
  ASSUME UNCHANGED calls,
         \A r \in Requests : calls[r] = << >> =>
             (r \in cbRefs' <=> r \in cbRefs) /\ (New(r)' <=> New(r))
  PROVE  Phase' = Phase
  BY DEF Phase, New

\* A step that moves request r only.
LEMMA MovedPhase ==
  ASSUME NEW r \in Requests, NEW from, NEW to, Phase[r] = from,
         Phase'[r] = to,
         \A q \in Requests : q # r =>
             /\ calls'[q] = calls[q]
             /\ q \in cbRefs' <=> q \in cbRefs
             /\ pc'[q] = pc[q]
  PROVE  Contract!Move(r, from, to)
<1>1. \A q \in Requests : q # r => Phase'[q] = Phase[q]
  BY DEF Phase
<1>2. /\ Phase = [q \in Requests |-> Phase[q]]
      /\ Phase' = [q \in Requests |-> Phase'[q]]
  BY DEF Phase
<1>3. Phase' = [Phase EXCEPT ![r] = to]
  BY <1>1, <1>2
<1>. QED  BY <1>3 DEF Contract!Move

LEMMA addPhase ==
  ASSUME TypeOK, OwnershipInv, NEW r \in Requests, addRequestCallback(r)
  PROVE  Contract!Next
<1>. USE DEF addRequestCallback, TypeOK
<1>1. r \notin cbRefs /\ calls[r] = << >>
  BY DEF OwnershipInv, NewHasNone
<1>2. Phase[r] = "new"  BY <1>1 DEF Phase
<1>3. pc'[r] = "calling" /\ \A q \in Requests : q # r => pc'[q] = pc[q]
  BY DEF RequestsTypeOK
<1>4. CASE UNCHANGED <<cbRefs, calls>>
  <2>1. Phase'[r] = "dropped"  BY <1>1, <1>3, <1>4 DEF Phase
  <2>. QED  BY <1>2, <1>3, <1>4, <2>1, MovedPhase DEF Contract!Next
<1>5. CASE UNCHANGED cbRefs /\ calls' = [calls EXCEPT ![r] = Append(@, None)]
  <2>1. calls'[r] # << >> /\ calls'[r][1] = None
    BY <1>1, <1>5 DEF HistoryTypeOK
  <2>2. Phase'[r] = "refused"  BY <2>1 DEF Phase
  <2>3. \A q \in Requests : q # r => calls'[q] = calls[q]
    BY <1>5 DEF HistoryTypeOK
  <2>. QED  BY <1>2, <1>3, <1>5, <2>2, <2>3, MovedPhase DEF Contract!Next
<1>6. CASE UNCHANGED calls /\ cbRefs' = cbRefs \cup {r}
  <2>1. Phase'[r] = "waiting"  BY <1>1, <1>6 DEF Phase
  <2>. QED  BY <1>2, <1>3, <1>6, <2>1, MovedPhase DEF Contract!Next
<1>. QED
  BY <1>4, <1>5, <1>6 DEF RefuseDirectly, StoreCallback, NewCallbackRef

LEMMA ClearPhase ==
  ASSUME TypeOK, OwnershipInv, NEW c \in Ctl, StopClear(c) PROVE Contract!Next
<1>. USE DEF StopClear, ClearCallbacks, TypeOK, reqVars
<1>1. Mapped \in SUBSET Requests  BY DEF Mapped, StaticsTypeOK
<1>2. \A r \in Mapped : r \in cbRefs /\ calls[r] = << >>
  BY DEF Mapped, OwnershipInv, MapOwns
<1>3. \A r \in Mapped : ~New(r)
  BY <1>1, <1>2 DEF OwnershipInv, NewHasNone, New
<1>4. \A r \in Mapped : Phase[r] = "waiting"
  BY <1>1, <1>2 DEF Phase
<1>5. \A r \in Requests : Phase'[r] = IF r \in Mapped THEN "dropped" ELSE Phase[r]
  BY <1>2, <1>3 DEF Phase, New
<1>6. Phase' = [r \in Requests |-> IF r \in Mapped THEN "dropped" ELSE Phase[r]]
  BY <1>5 DEF Phase
<1>. QED  BY <1>1, <1>4, <1>6 DEF Contract!Next, Contract!DropMany

LEMMA InvokePhase ==
  ASSUME TypeOK, OwnershipInv, AnswerInv, NEW t \in SdkThreads, InvokeCallback(t)
  PROVE  Contract!Next
<1>. USE DEF InvokeCallback, TypeOK, reqVars
<1>. DEFINE r == scb[t]
<1>1. r \in Requests /\ r \in cbRefs /\ calls[r] = << >>
  BY DEF OwnershipInv, HandOwns, ThreadsTypeOK
<1>2. sfor[t] # None  BY NullAssumption DEF AnswerInv
<1>3. Phase[r] = "waiting"  BY <1>1 DEF Phase
<1>4. calls'[r] # << >> /\ calls'[r][1] = sfor[t]
  BY <1>1 DEF HistoryTypeOK, ThreadsTypeOK
<1>5. Phase'[r] = "answered"  BY <1>1, <1>2, <1>4 DEF Phase
<1>6. \A q \in Requests : q # r => calls'[q] = calls[q]
  BY DEF HistoryTypeOK
<1>. QED  BY <1>1, <1>3, <1>5, <1>6, MovedPhase DEF Contract!Next

LEMMA ReleasePhase ==
  ASSUME AnswerInv, NEW t \in SdkThreads, ReleaseCallback(t) PROVE Phase' = Phase
<1>1. \A r \in Requests : calls[r] = << >> => (r \in cbRefs' <=> r \in cbRefs)
  BY DEF ReleaseCallback, DeleteCallbackRef, AnswerInv
<1>. QED  BY <1>1, SamePhase DEF ReleaseCallback, reqVars, New

LEMMA StepContract ==
  TypeOK /\ OwnershipInv /\ AnswerInv /\ [Next]_vars => [Contract!Next]_Phase
<1>. SUFFICES ASSUME TypeOK, OwnershipInv, AnswerInv, [Next]_vars
              PROVE  Contract!Next \/ Phase' = Phase
  OBVIOUS
<1>1. ASSUME UNCHANGED <<pc, cbRefs, calls>> PROVE Phase' = Phase
  BY <1>1, SamePhase DEF New
<1>2. ASSUME NEW r \in Requests, Post(r) \/ BeginRequest(r) \/ CallSdk(r)
      PROVE  Phase' = Phase
  BY <1>2, SamePhase DEF Post, BeginRequest, CallSdk, refVars, New, TypeOK, RequestsTypeOK
<1>3. ASSUME NEW c \in Ctl, CtlCalls(c) \/ (CtlStep(c) /\ ~StopClear(c))
      PROVE  Phase' = Phase
  BY <1>1, <1>3 DEF CtlCalls, JNI_start, JNI_stop, JNI_destory, Call, CtlStep, StopStep, StopBegin,
     StopJoin, StopDelete, StartLocked, destoryRequestManager, refVars, reqVars
<1>4. ASSUME NEW m \in Managers, NEW r \in Requests, OnAnswer(m, r) PROVE Phase' = Phase
  BY <1>1, <1>4 DEF OnAnswer, refVars, reqVars
<1>5. ASSUME NEW t \in SdkThreads, BeginNotify(t) PROVE Phase' = Phase
  BY <1>1, <1>5 DEF BeginNotify, reqVars
<1>6. ASSUME NEW t \in SdkThreads,
             getRequestCallback(t) \/ AnswerFails(t) \/ CheckInstance(t) \/ CallInstance(t)
      PROVE  Phase' = Phase
  BY <1>1, <1>6 DEF getRequestCallback, AnswerFails, CheckInstance, CallInstance,
     refVars, reqVars
<1>7. CASE SdkAlone \/ UNCHANGED vars
  BY <1>1, <1>7 DEF SdkAlone, vars, refVars, reqVars
<1>. QED
  BY <1>2, <1>3, <1>4, <1>5, <1>6, <1>7, addPhase, ClearPhase, InvokePhase, ReleasePhase,
     ThreadsFacts
     DEF Next, RequestStep, CtlStep, StopStep, SdkThreadStep, ReceiverNotifies, TimerNotifies

\* The native code keeps the contract of the callbacks: what a stop dropped or
\* addRequestCallback left out is never called, what was called is never stored
\* again, for any number of requests, managers and control threads.
THEOREM ContractKept == Spec => KeepsContract
<1>1. Init => Contract!Init
  BY DEF Init, Contract!Init, Phase
<1>2. TypeOK /\ OwnershipInv /\ AnswerInv /\ [Next]_vars => [Contract!Next]_Phase
  BY StepContract
<1>. QED
  BY <1>1, <1>2, InitOwnership, NextOwnership, InitAnswer, NextAnswer, TypeCorrect, PTL
     DEF Spec, KeepsContract, Contract!Spec
=============================================================================

---------------------------- MODULE AnswerProofs ----------------------------
(***************************************************************************)
(* A callback is given the answer to its own request as long as the        *)
(* counter of the sequence numbers has not wrapped around: until then a    *)
(* number stands for the one request, or report of the SDK, it was drawn   *)
(* for, from the draw to the map and back from the answer to the callback. *)
(***************************************************************************)
EXTENDS ContractProofs

\* The request has drawn its number.
Drawn(r) == pc[r] \in {"adding", "calling", "done"}

Numbered ==
    /\ \A r \in Requests : Drawn(r) => seq[r] \in 1 .. staticSeq
    /\ \A r, q \in Requests : Drawn(r) /\ Drawn(q) /\ seq[r] = seq[q] => r = q
    /\ \A r \in Requests : answer[r] = "own" => Drawn(r)

\* A thread reports its answer under the request's number, or under one that
\* no request has.
Reported(t) ==
    \/ Drawn(sfor[t]) /\ seq[sfor[t]] = sseq[t]
    \/ sseq[t] \in 1 .. staticSeq /\ \A r \in Requests : Drawn(r) => seq[r] # sseq[t]

ReportsMatch ==
    \A t \in SdkThreads :
        /\ spc[t] = "take" => Reported(t)
        /\ spc[t] = "call" => scb[t] = sfor[t]

OwnCalls == \A r \in Requests : \A i \in 1 .. Len(calls[r]) : calls[r][i] = r

Unwrapped == Numbered /\ ReportsMatch /\ OwnCalls

NumbersInv == staticSeq < SeqMod => Unwrapped

LEMMA InitNumbers == Init => NumbersInv
  BY DEF Init, SdkInit, NumbersInv, Unwrapped, Numbered, Drawn, ReportsMatch, OwnCalls

\* Before the wrap a number drawn is larger than all that were.
LEMMA NextSeqValue ==
  ASSUME staticSeq \in Nat, staticSeq + 1 < SeqMod PROVE NextSeq = staticSeq + 1
  BY SeqModAssumption DEF NextSeq

\* Only numbers are drawn: no request, answer or thread changes.
LEMMA KeepUnwrapped ==
  ASSUME TypeOK, Unwrapped, staticSeq' \in {staticSeq, staticSeq + 1},
         \A r \in Requests : Drawn(r)' <=> Drawn(r),
         \A r \in Requests : answer'[r] \in {answer[r], "none", "fresh"},
         \A t \in SdkThreads :
             /\ spc'[t] = "take" => spc[t] = "take"
             /\ spc'[t] = "call" => spc[t] = "call" /\ scb'[t] = scb[t],
         UNCHANGED <<seq, sseq, sfor, calls>>, AnswerInv
  PROVE  Unwrapped'
<1>. USE DEF Unwrapped
<1>1. staticSeq \in Nat  BY DEF TypeOK, SdkTypeOK
<1>2. Numbered'
  BY <1>1 DEF Numbered
<1>3. ReportsMatch'
  <2>. SUFFICES ASSUME NEW t \in SdkThreads
                PROVE  /\ spc'[t] = "take" => Reported(t)'
                       /\ spc'[t] = "call" => scb'[t] = sfor'[t]
    BY DEF ReportsMatch
  <2>1. spc'[t] = "take" => Reported(t) /\ sfor[t] \in Requests
    BY DEF ReportsMatch, AnswerInv
  <2>. QED  BY <1>1, <2>1 DEF ReportsMatch, Reported
<1>. QED  BY <1>2, <1>3 DEF OwnCalls

LEMMA BeginUnwrapped ==
  ASSUME TypeOK, AnswerInv, Unwrapped, NEW r \in Requests, BeginRequest(r),
         staticSeq' < SeqMod
  PROVE  Unwrapped'
<1>. USE DEF Unwrapped, BeginRequest, DrawSeq, CreateGwSeq
<1>1. staticSeq \in Nat /\ staticSeq' = staticSeq + 1 /\ NextSeq = staticSeq + 1
  BY NextSeqValue DEF TypeOK, SdkTypeOK
<1>2. /\ seq'[r] = staticSeq + 1 /\ Drawn(r)' /\ ~Drawn(r)
      /\ \A q \in Requests : q # r => seq'[q] = seq[q] /\ (Drawn(q)' <=> Drawn(q))
  BY <1>1 DEF TypeOK, RequestsTypeOK, Drawn
<1>3. Numbered'
  <2>1. \A q \in Requests : Drawn(q)' => seq'[q] \in 1 .. staticSeq'
    BY <1>1, <1>2 DEF Numbered
  <2>2. \A p, q \in Requests : Drawn(p)' /\ Drawn(q)' /\ seq'[p] = seq'[q] => p = q
    <3>1. \A q \in Requests : q # r /\ Drawn(q)' => seq'[q] # staticSeq + 1
      BY <1>1, <1>2 DEF Numbered
    <3>. QED  BY <1>2, <3>1 DEF Numbered
  <2>3. \A q \in Requests : answer'[q] = "own" => Drawn(q)'
    BY <1>2 DEF Numbered
  <2>. QED  BY <2>1, <2>2, <2>3 DEF Numbered
<1>4. ReportsMatch'
  <2>1. UNCHANGED <<spc, scb, sfor, sseq>>  BY DEF thrVars
  <2>. SUFFICES ASSUME NEW t \in SdkThreads, spc[t] = "take" PROVE Reported(t)'
    BY <2>1 DEF ReportsMatch
  <2>2. sfor[t] \in Requests /\ Reported(t)  BY DEF AnswerInv, ReportsMatch
  <2>3. CASE Drawn(sfor[t]) /\ seq[sfor[t]] = sseq[t]
    BY <1>2, <2>1, <2>2, <2>3 DEF Reported
  <2>4. CASE sseq[t] \in 1 .. staticSeq /\ \A q \in Requests : Drawn(q) => seq[q] # sseq[t]
    BY <1>1, <1>2, <2>1, <2>4 DEF Reported
  <2>. QED  BY <2>2, <2>3, <2>4 DEF Reported
<1>. QED  BY <1>3, <1>4 DEF OwnCalls

LEMMA CallSdkUnwrapped ==
  ASSUME TypeOK, AnswerInv, Unwrapped, NEW r \in Requests, CallSdk(r) PROVE Unwrapped'
<1>1. \A q \in Requests : Drawn(q)' <=> Drawn(q)
  BY DEF CallSdk, TypeOK, RequestsTypeOK, Drawn
<1>2. Drawn(r)  BY DEF CallSdk, Drawn
<1>3. \A q \in Requests : answer'[q] = "own" => answer[q] = "own" \/ q = r
  BY DEF CallSdk, TypeOK, SdkTypeOK
<1>4. UNCHANGED <<staticSeq, seq, spc, sseq, scb, sfor, calls>>
  BY DEF CallSdk, thrVars
<1>5. Numbered'  BY <1>1, <1>2, <1>3, <1>4 DEF Unwrapped, Numbered
<1>6. ReportsMatch'
  BY <1>1, <1>4 DEF Unwrapped, ReportsMatch, Reported, AnswerInv
<1>. QED  BY <1>4, <1>5, <1>6 DEF Unwrapped, OwnCalls

\* No request is refused before the wrap.
LEMMA addUnwrapped ==
  ASSUME TypeOK, AnswerInv, Unwrapped, NEW r \in Requests, addRequestCallback(r)
  PROVE  Unwrapped'
<1>1. \A q \in Requests : Drawn(q)' <=> Drawn(q)
  BY DEF addRequestCallback, TypeOK, RequestsTypeOK, Drawn
<1>2. seq[r] # 0
  BY DEF addRequestCallback, Unwrapped, Numbered, Drawn
<1>3. UNCHANGED calls
  BY <1>2 DEF addRequestCallback, RefuseDirectly, StoreCallback
<1>. QED
  BY <1>1, <1>3, KeepUnwrapped DEF addRequestCallback, sdkVars, thrVars

LEMMA OnAnswerUnwrapped ==
  ASSUME TypeOK, AnswerInv, Unwrapped, NEW m \in Managers, NEW r \in Requests,
         OnAnswer(m, r), staticSeq' < SeqMod
  PROVE  Unwrapped'
<1>. DEFINE t == Receiver(m)
<1>. USE ThreadsFacts DEF OnAnswer, TypeOK, reqVars
<1>1. /\ staticSeq \in Nat /\ staticSeq' \in {staticSeq, staticSeq + 1}
      /\ \A q \in Requests : answer'[q] = "own" => answer[q] = "own"
      /\ \A q \in Requests : Drawn(q)' <=> Drawn(q)
      /\ UNCHANGED <<seq, scb, calls>>
  BY DEF SdkTypeOK, CreateGwSeq, Drawn
<1>2. Numbered'  BY <1>1 DEF Unwrapped, Numbered
<1>3. Reported(t)'
  <2>1. sfor'[t] = r  BY DEF ThreadsTypeOK
  <2>2. CASE answer[r] = "own" /\ sseq' = [sseq EXCEPT ![t] = seq[r]]
    <3>1. sseq'[t] = seq[r]  BY <2>2 DEF ThreadsTypeOK
    <3>2. Drawn(r)  BY <2>2 DEF Unwrapped, Numbered
    <3>. QED  BY <1>1, <2>1, <3>1, <3>2 DEF Reported
  <2>3. CASE sseq' = [sseq EXCEPT ![t] = NextSeq] /\ CreateGwSeq
    <3>1. staticSeq' = staticSeq + 1 /\ NextSeq = staticSeq + 1
      BY <1>1, <2>3, NextSeqValue DEF CreateGwSeq
    <3>2. sseq'[t] = staticSeq + 1  BY <2>3, <3>1 DEF ThreadsTypeOK
    <3>3. \A q \in Requests : Drawn(q)' => seq'[q] # staticSeq + 1
      BY <1>1 DEF Unwrapped, Numbered
    <3>. QED  BY <1>1, <3>1, <3>2, <3>3 DEF Reported
  <2>. QED  BY <2>2, <2>3
<1>4. ASSUME NEW u \in SdkThreads, u # t
      PROVE  /\ spc'[u] = "take" => Reported(u)'
             /\ spc'[u] = "call" => scb'[u] = sfor'[u]
  <2>1. spc'[u] = spc[u] /\ sseq'[u] = sseq[u] /\ sfor'[u] = sfor[u]
    BY <1>4 DEF ThreadsTypeOK
  <2>2. spc[u] = "take" => Reported(u) /\ sfor[u] \in Requests
    BY DEF Unwrapped, ReportsMatch, AnswerInv
  <2>. QED  BY <1>1, <2>1, <2>2 DEF Unwrapped, ReportsMatch, Reported
<1>5. ReportsMatch'
  <2>1. spc'[t] = "take"  BY DEF ThreadsTypeOK
  <2>. QED  BY <1>3, <1>4, <2>1 DEF ReportsMatch
<1>. QED  BY <1>1, <1>2, <1>5 DEF Unwrapped, OwnCalls

\* What is found under the number of the report is the callback of its request.
LEMMA getUnwrapped ==
  ASSUME TypeOK, OwnershipInv, AnswerInv, Unwrapped, NEW t \in SdkThreads,
         getRequestCallback(t)
  PROVE  Unwrapped'
<1>. USE DEF getRequestCallback, TypeOK, FindCallback
<1>. DEFINE r == sCallbackMap[sseq[t]]
<1>1. /\ sseq[t] \in Seqs /\ r \in Requests \cup {None}
      /\ spc[t] = "take" /\ sfor[t] \in Requests
  BY DEF ThreadsTypeOK, StaticsTypeOK, AnswerInv
<1>2. r # None => Drawn(r) /\ seq[r] = sseq[t]
  BY <1>1 DEF OwnershipInv, MapOwns, NewHasNone, RequestsTypeOK, Drawn
<1>3. r # None => r = sfor[t]
  BY <1>1, <1>2 DEF Unwrapped, Numbered, ReportsMatch, Reported
<1>4. /\ spc'[t] = (IF r = None THEN "idle" ELSE "call") /\ scb'[t] = r
      /\ \A u \in SdkThreads : u # t => spc'[u] = spc[u] /\ scb'[u] = scb[u]
  BY DEF ThreadsTypeOK
<1>5. /\ UNCHANGED <<staticSeq, answer, seq, sseq, sfor, calls>>
      /\ \A q \in Requests : Drawn(q)' <=> Drawn(q)
  BY DEF sdkVars, reqVars, Drawn
<1>6. Numbered'  BY <1>5 DEF Unwrapped, Numbered
<1>7. ReportsMatch'
  <2>. SUFFICES ASSUME NEW u \in SdkThreads
                PROVE  /\ spc'[u] = "take" => Reported(u)'
                       /\ spc'[u] = "call" => scb'[u] = sfor'[u]
    BY DEF ReportsMatch
  <2>1. CASE u = t  BY <1>3, <1>4, <1>5, <2>1
  <2>2. CASE u # t
    BY <1>4, <1>5, <2>2 DEF Unwrapped, ReportsMatch, Reported, AnswerInv
  <2>. QED  BY <2>1, <2>2
<1>. QED  BY <1>5, <1>6, <1>7 DEF Unwrapped, OwnCalls

LEMMA InvokeUnwrapped ==
  ASSUME TypeOK, OwnershipInv, AnswerInv, Unwrapped, NEW t \in SdkThreads,
         InvokeCallback(t)
  PROVE  Unwrapped'
<1>. USE DEF InvokeCallback, TypeOK
<1>1. scb[t] = sfor[t] /\ scb[t] \in Requests /\ calls[scb[t]] = << >>
  BY DEF Unwrapped, ReportsMatch, OwnershipInv, HandOwns, AnswerInv
<1>2. calls'[scb[t]] = <<scb[t]>>
  BY <1>1 DEF HistoryTypeOK
<1>3. \A q \in Requests : q # scb[t] => calls'[q] = calls[q]
  BY DEF HistoryTypeOK
<1>4. OwnCalls'
  BY <1>1, <1>2, <1>3 DEF Unwrapped, OwnCalls
<1>5. /\ UNCHANGED <<staticSeq, answer, seq, sseq, sfor, scb>>
      /\ \A q \in Requests : Drawn(q)' <=> Drawn(q)
      /\ \A u \in SdkThreads : spc'[u] \in {"take", "call"} => spc'[u] = spc[u]
  BY DEF sdkVars, reqVars, Drawn, ThreadsTypeOK
<1>6. Numbered'  BY <1>5 DEF Unwrapped, Numbered
<1>7. ReportsMatch'
  BY <1>5 DEF Unwrapped, ReportsMatch, Reported, AnswerInv
<1>. QED  BY <1>4, <1>6, <1>7 DEF Unwrapped

LEMMA NextUnwrapped ==
  ASSUME TypeOK, OwnershipInv, AnswerInv, Unwrapped, [Next]_vars, staticSeq' < SeqMod
  PROVE  Unwrapped'
<1>. USE DEF sdkVars, reqVars, thrVars, TypeOK
<1>0. staticSeq \in Nat  BY DEF SdkTypeOK
<1>1. ASSUME NEW r \in Requests, Post(r) PROVE Unwrapped'
  <2>1. \A q \in Requests : Drawn(q)' <=> Drawn(q)
    BY <1>1 DEF Post, Drawn, RequestsTypeOK
  <2>. QED  BY <1>1, <2>1, KeepUnwrapped DEF Post
<1>2. ASSUME UNCHANGED <<pc, seq>>, UNCHANGED thrVars, UNCHANGED calls,
             staticSeq' \in {staticSeq, staticSeq + 1},
             \A r \in Requests : answer'[r] \in {answer[r], "none"}
      PROVE  Unwrapped'
  BY <1>2, KeepUnwrapped DEF Drawn
<1>3. ASSUME NEW c \in Ctl, CtlCalls(c) PROVE Unwrapped'
  BY <1>2, <1>3 DEF CtlCalls, JNI_start, JNI_stop, JNI_destory, Call
<1>4. ASSUME NEW c \in Ctl, CtlStep(c) PROVE Unwrapped'
  <2>1. CASE StopJoin(c)
    BY <1>2, <2>1 DEF StopJoin, SdkStopEnd
  <2>2. CASE ~StopJoin(c)
    BY <1>2, <1>4, <2>2 DEF CtlStep, StopStep, StopBegin, StopDelete, StopClear, StartLocked,
       destoryRequestManager
  <2>. QED  BY <2>1, <2>2
<1>5. ASSUME UNCHANGED <<staticSeq, answer, reqVars, sseq, sfor, calls>>,
             \A t \in SdkThreads :
                 /\ spc'[t] = "take" => spc[t] = "take"
                 /\ spc'[t] = "call" => spc[t] = "call" /\ scb'[t] = scb[t]
      PROVE  Unwrapped'
  BY <1>5, KeepUnwrapped DEF Drawn
<1>6. ASSUME NEW t \in SdkThreads, BeginNotify(t), UNCHANGED <<staticSeq, answer>>
      PROVE  Unwrapped'
  BY <1>5, <1>6 DEF BeginNotify, ThreadsTypeOK
<1>7. ASSUME NEW m \in Managers, ReceiverNotifies(m) \/ TimerNotifies(m) PROVE Unwrapped'
  BY <1>6, <1>7, ThreadsFacts DEF ReceiverNotifies, TimerNotifies, StartRelogin,
     EndRelogin, RecvMsg, ReloginGivesUp
<1>8. ASSUME NEW t \in SdkThreads,
             AnswerFails(t) \/ ReleaseCallback(t) \/ CheckInstance(t) \/ CallInstance(t)
      PROVE  Unwrapped'
  BY <1>5, <1>8 DEF AnswerFails, ReleaseCallback, CheckInstance, CallInstance, ThreadsTypeOK
<1>9. CASE SdkAlone
  BY <1>2, <1>9 DEF SdkAlone, SdkDraw, CreateGwSeq
<1>10. CASE UNCHANGED vars
  BY <1>2, <1>10 DEF vars
<1>. QED
  BY <1>1, <1>3, <1>4, <1>7, <1>8, <1>9, <1>10, BeginUnwrapped, CallSdkUnwrapped,
     addUnwrapped, OnAnswerUnwrapped, getUnwrapped, InvokeUnwrapped
     DEF Next, RequestStep, SdkThreadStep

\* The counter never goes back: what is not wrapped was not wrapped before.
LEMMA StaticSeqGrows ==
  ASSUME TypeOK, [Next]_vars PROVE staticSeq' \in {staticSeq, staticSeq + 1}
<1>. USE DEF sdkVars
<1>1. ASSUME NEW r \in Requests, Post(r) \/ RequestStep(r)
      PROVE  staticSeq' \in {staticSeq, staticSeq + 1}
  BY <1>1 DEF Post, RequestStep, BeginRequest, DrawSeq, CreateGwSeq, addRequestCallback,
     CallSdk
<1>2. ASSUME NEW c \in Ctl, CtlCalls(c) \/ CtlStep(c) PROVE UNCHANGED staticSeq
  BY <1>2 DEF CtlCalls, JNI_start, JNI_stop, JNI_destory, Call, CtlStep, StopStep, StopBegin,
     StopJoin, StopDelete, StopClear, StartLocked, destoryRequestManager
<1>3. ASSUME NEW m \in Managers, NEW r \in Requests, OnAnswer(m, r)
      PROVE  staticSeq' \in {staticSeq, staticSeq + 1}
  BY <1>3 DEF OnAnswer, CreateGwSeq
<1>4. ASSUME NEW m \in Managers, ReceiverNotifies(m) \/ TimerNotifies(m)
      PROVE  UNCHANGED staticSeq
  BY <1>4 DEF ReceiverNotifies, TimerNotifies, StartRelogin, EndRelogin, RecvMsg,
     ReloginGivesUp
<1>5. ASSUME NEW t \in SdkThreads, SdkThreadStep(t) PROVE UNCHANGED staticSeq
  BY <1>5 DEF SdkThreadStep, getRequestCallback, AnswerFails, InvokeCallback,
     ReleaseCallback, CheckInstance, CallInstance
<1>6. CASE SdkAlone \/ UNCHANGED vars
  BY <1>6 DEF SdkAlone, SdkDraw, CreateGwSeq, vars
<1>. QED  BY <1>1, <1>2, <1>3, <1>4, <1>5, <1>6 DEF Next

LEMMA NextNumbers ==
  TypeOK /\ OwnershipInv /\ AnswerInv /\ NumbersInv /\ [Next]_vars => NumbersInv'
<1>. SUFFICES ASSUME TypeOK, OwnershipInv, AnswerInv, NumbersInv, [Next]_vars,
                     staticSeq' < SeqMod
              PROVE  Unwrapped'
  BY DEF NumbersInv
<1>1. staticSeq < SeqMod
  BY StaticSeqGrows, SeqModAssumption DEF TypeOK, SdkTypeOK
<1>. QED  BY <1>1, NextUnwrapped DEF NumbersInv

\* A callback is given the answer to its own request and to no other, through
\* stops, restarts, repeated answers and failed logins, until the 32-bit
\* counter wraps around.
THEOREM OwnAnswerCorrect == Spec => []OwnAnswer
<1>1. NumbersInv => OwnAnswer
  BY DEF NumbersInv, Unwrapped, OwnCalls, OwnAnswer
<1>. QED
  BY <1>1, InitOwnership, NextOwnership, InitAnswer, NextAnswer, InitNumbers, NextNumbers,
     TypeCorrect, PTL DEF Spec
=============================================================================

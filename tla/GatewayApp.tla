----------------------------- MODULE GatewayApp -----------------------------
(***************************************************************************)
(* The app: RequestMainActivity and MediaControlManager on top of the      *)
(* native bridge.                                                          *)
(*                                                                         *)
(* The UI thread is the only control thread.  Each onCreate calls init,    *)
(* hence JNI_start; a click posts one request to the thread pool, and the  *)
(* click on "start_login" goes on to set the connection status.  The same  *)
(* field is set by the methods of the manager that the SDK's threads call. *)
(* Every step here is a step of MediaJni, or one of the UI thread alone.   *)
(***************************************************************************)
EXTENDS MediaJni, ResponseCodec

CONSTANTS
    UI,         \* the UI thread
    ErrCodes,   \* error codes the server may answer with
    UserIds     \* user ids the server may answer with

ASSUME AppAssumption == Ctl = {UI} /\ NativeCalls = {"start"}
ASSUME ServerAssumption == ErrCodes \subseteq UInt32 /\ UserIds \subseteq Nat

VARIABLES
    ui,        \* UI thread in onClick
    status,    \* curTSConncetStatus
    event,     \* [SdkThreads -> the manager's method the thread is to call]
    \* history
    ret,       \* what the last fun_start returned; the app does not keep it
    reported,  \* last connection event of the receiver thread
    current,   \* is there one, and has nobody else touched the status since?
    result,    \* [Requests -> what the server answered, << >> or << rsp >>]
    beans      \* [Requests -> what respCallBack was given, in order]

statusVars == <<status, event, reported, current>>
answerVars == <<result, beans>>
appVars == <<ui, ret, statusVars, answerVars>>
allVars == <<vars, appVars>>

Statuses == {"UNKOWN", "CONNECTING", "CONNECTED", "UNCONNECTED"}
ConnectionEvents == {"OnStartReconnect", "OnReconnectSuccess", "OnDisconnect"}

\* Nobody reads the userId of an answer that reports a failure.
Responses == [errCode : ErrCodes \cap {0}, userId : UserIds] \cup [errCode : ErrCodes \ {0}]

AppTypeOK ==
    /\ ui \in {"idle", "setStatus"} /\ ret \in BOOLEAN
    /\ status \in Statuses
    /\ event \in [SdkThreads -> ConnectionEvents \cup {"OnRecvMsg", "none"}]
    /\ reported \in ConnectionEvents \cup {"none"}
    /\ current \in BOOLEAN
    /\ \A r \in Requests : Len(beans[r]) = Len(calls[r])
    /\ \A r \in Requests : result[r] # << >> => result[r][1] \in Responses

AppInit ==
    /\ Init
    /\ ui = "idle" /\ ret = FALSE
    /\ status = "UNKOWN"
    /\ event = [t \in SdkThreads |-> "none"]
    /\ reported = "none"
    /\ current = FALSE
    /\ result = [r \in Requests |-> << >>]
    /\ beans = [r \in Requests |-> << >>]

-----------------------------------------------------------------------------
(* The UI thread.                                                            *)

\* onCreate has come back from init at least once, and the thread is idle.
Clickable == ui = "idle" /\ cpc[UI] = "idle" /\ starts > 0

onCreate ==
    /\ ui = "idle"
    /\ JNI_start(UI)
    /\ UNCHANGED appVars

\* init returns from fun_start, whatever that says.
init ==
    /\ ret' \in BOOLEAN
    /\ StartLocked(UI, ret')
    /\ UNCHANGED <<ui, statusVars, answerVars>>

\* Every button passes a callback.  There are two login buttons.
onClick(r) ==
    /\ Clickable
    /\ Post(r)
    /\ passed'[r]
    /\ ui' \in IF op'[r] = "login" THEN {"idle", "setStatus"} ELSE {"idle"}
    /\ UNCHANGED <<ret, statusVars, answerVars>>

setConncetStatus ==
    /\ ui = "setStatus"
    /\ ui' = "idle"
    /\ status' = "CONNECTED"
    /\ current' = FALSE
    /\ UNCHANGED <<vars, ret, event, reported, answerVars>>

-----------------------------------------------------------------------------
(* Answers.                                                                  *)

Json(q, rsp) == IF op[q] = "login" THEN LoginJson(rsp) ELSE LogoutJson(rsp)

\* MediaRespCallback.onResponse; the class is the one the callback of r has.
\* The faulty version passes nothing on.
FaultyOnResponse(r, json) == UNCHANGED beans
onResponse(r, json) ==
    beans' = [beans EXCEPT ![r] =
        Append(@, IF op[r] = "login" THEN LoginRespModel(json) ELSE BaseModel(json))]

Refuse(r) ==
    /\ addRequestCallback(r)
    /\ IF calls' = calls THEN UNCHANGED beans ELSE onResponse(r, RefusalJson)
    /\ UNCHANGED <<ui, ret, statusVars, result>>

\* The handler that runs is that of the request q the answer is to; the server
\* answers a request once, however often the answer comes.
Answer(t) ==
    LET q == sfor[t] IN
    /\ InvokeCallback(t)
    /\ \E rsp \in IF result[q] = << >> THEN Responses ELSE {result[q][1]} :
          /\ result' = [result EXCEPT ![q] = <<rsp>>]
          /\ onResponse(scb[t], Json(q, rsp))
    /\ UNCHANGED <<ui, ret, statusVars>>

-----------------------------------------------------------------------------
(* Notifications.                                                            *)

Raise(t, e) == event' = [event EXCEPT ![t] = IF spc'[t] = "check" THEN e ELSE "none"]

Report(m, e) ==
    /\ Raise(Receiver(m), e)
    /\ reported' = e
    /\ current' = \A n \in Managers : event[Timer(n)] = "none"

Notify(m) ==
    /\ BeginNotify(Receiver(m))
    /\ \/ StartRelogin(m) /\ Report(m, "OnStartReconnect")
       \/ EndRelogin(m) /\ Report(m, "OnReconnectSuccess")
       \/ EndRelogin(m) /\ Report(m, "OnDisconnect")
       \/ RecvMsg(m) /\ Raise(Receiver(m), "OnRecvMsg") /\ UNCHANGED <<reported, current>>
    /\ UNCHANGED <<ui, ret, status, answerVars>>

GiveUp(m) ==
    /\ TimerNotifies(m)
    /\ Raise(Timer(m), "OnDisconnect")
    /\ current' = FALSE
    /\ UNCHANGED <<ui, ret, status, reported, answerVars>>

Check(t) ==
    /\ CheckInstance(t)
    /\ event' = [event EXCEPT ![t] = IF spc'[t] = "notify" THEN @ ELSE "none"]
    /\ UNCHANGED <<ui, ret, status, reported, current, answerVars>>

\* The methods of the manager that the SDK's threads call.
FaultyStatusAfter(e) == IF e = "OnReconnectSuccess" THEN "CONNECTED" ELSE status
StatusAfter(e) ==
    CASE e = "OnStartReconnect" -> "CONNECTING"
      [] e = "OnReconnectSuccess" -> "CONNECTED"
      [] e = "OnDisconnect" -> "UNCONNECTED"
      [] OTHER -> status

\* What a call on a deleted reference does is up to the JVM.
Deliver(t) ==
    /\ CallInstance(t)
    /\ status' \in IF {sobj[t], sMediaInstance} \subseteq instRefs
                      THEN {StatusAfter(event[t])}
                      ELSE {StatusAfter(event[t]), status}
    /\ event' = [event EXCEPT ![t] = "none"]
    /\ UNCHANGED <<ui, ret, reported, current, answerVars>>

-----------------------------------------------------------------------------
\* The steps of the bridge that the Java side does not notice.
BridgeStep ==
    \/ \E r \in Requests : BeginRequest(r) \/ CallSdk(r)
    \/ StopStep(UI)
    \/ \E m \in Managers, r \in Requests : OnAnswer(m, r)
    \/ \E t \in SdkThreads : getRequestCallback(t) \/ AnswerFails(t) \/ ReleaseCallback(t)
    \/ SdkAlone

AppNext ==
    /\ ~crashed
    /\ \/ onCreate \/ init \/ setConncetStatus
       \/ \E r \in Requests : onClick(r) \/ Refuse(r)
       \/ \E t \in SdkThreads : Answer(t) \/ Check(t) \/ Deliver(t)
       \/ \E m \in Managers : Notify(m) \/ GiveUp(m)
       \/ BridgeStep /\ UNCHANGED appVars

AppSpec == AppInit /\ [][AppNext]_allVars

-----------------------------------------------------------------------------
(* Properties.                                                               *)

\* When the UI thread can be clicked at, there are a live instance and a
\* manager, so a request that reads sRequestManager without the lock never finds
\* NULL.  Whether the SDK runs is another matter: MediaControlManager.java:127
\* does not look at what fun_start has returned.  But that stays the truth: the
\* SDK runs if it was true and is stopped if it was false, whatever reports,
\* clicks and restarts came in between.
StartedWhenClickable ==
    /\ ~crashed
    /\ Clickable => /\ sMediaInstance \in instRefs
                    /\ sRequestManager # NoManager
                    /\ sdk[sRequestManager] = IF ret THEN "running" ELSE "stopped"

\* What the reports mean.
Meaning == [OnStartReconnect |-> "CONNECTING", OnReconnectSuccess |-> "CONNECTED",
            OnDisconnect |-> "UNCONNECTED"]

\* No report of the receiver thread gets lost on its way through the bridge, nor
\* overtaken: when the receiver is idle again, the status is that of its last
\* report, unless a click or the relogin timer came in between.  Restarts do
\* come in between.
ReportsReachStatus ==
    ~JniMayFail /\ current /\ (\A m \in Managers : spc[Receiver(m)] = "idle")
        => status = Meaning[reported]

\* A callback that is told of success belongs to a request the server has
\* answered with success, as long as the sequence numbers have not wrapped.
SuccessIsReal ==
    staticSeq < SeqMod => \A r \in Requests : \A i \in 1 .. Len(beans[r]) :
        isSuccess(beans[r][i]) => /\ result[r] # << >>
                                  /\ result[r][1].errCode \in {0, 10}

\* A login's callback is told the server's code and, when there is one, the
\* user's id, each when it fits into an int.
LoginShown ==
    staticSeq < SeqMod => \A r \in Requests :
        op[r] = "login" /\ beans[r] # << >> /\ result[r] # << >> =>
            /\ Fits(result[r][1].errCode) => beans[r][1].code = result[r][1].errCode
            /\ result[r][1].errCode = 0 /\ Fits(result[r][1].userId) =>
                   beans[r][1].userId = result[r][1].userId
=============================================================================

----------------------------- MODULE GatewaySdk -----------------------------
(***************************************************************************)
(* The gateway SDK (libgateway.a) as media_jni.cpp uses it: the IRequest   *)
(* managers it makes, the sequence numbers it hands out, the answers it    *)
(* owes and the relogin timer.  The SDK is a closed binary: its behaviour  *)
(* is taken from request.h, response.h and from the way media_jni.cpp      *)
(* calls it, and everything those leave open is a choice.                  *)
(*                                                                         *)
(* An SDK step that calls back into the program only says here what it     *)
(* does to the SDK's own state; MediaJni says what the handler does.       *)
(***************************************************************************)
EXTENDS Naturals

CONSTANTS
    Managers,   \* the IRequest objects CreateRequest() may return
    Requests,   \* the native calls of login, logout, sendMsg, sendMsgToUser
    SeqMod,     \* sequence numbers are UInt32: 2^32 in the program
    MaxDraws    \* bound on the sequence numbers the SDK draws for itself

ASSUME SeqModAssumption == SeqMod \in Nat \ {0}
ASSUME MaxDrawsAssumption == MaxDraws \in Nat

VARIABLES
    sdk,        \* [Managers -> state of the manager's threads]
    staticSeq,  \* sequence numbers drawn so far, not reduced modulo SeqMod
    answer,     \* [Requests -> the answer the SDK still owes the request]
    relogin     \* [Managers -> is the relogin timer armed?]

sdkVars == <<sdk, staticSeq, answer, relogin>>

Seqs == 0 .. SeqMod - 1

\* "running": receiver thread loops; "stopping": Stop() has cleared the loop's
\* flag, which the receiver may have tested already; "joining": it will see it.
SdkStates == {"absent", "stopped", "running", "stopping", "joining"}

\* "own": an answer that carries the request's sequence number;
\* "fresh": one that carries a number the SDK draws when it reports it.
Answers == {"none", "own", "fresh"}

SdkTypeOK ==
    /\ sdk \in [Managers -> SdkStates]
    /\ staticSeq \in Nat
    /\ answer \in [Requests -> Answers]
    /\ relogin \in [Managers -> BOOLEAN]

SdkInit ==
    /\ sdk = [m \in Managers |-> "absent"]
    /\ staticSeq = 0
    /\ answer = [r \in Requests |-> "none"]
    /\ relogin = [m \in Managers |-> FALSE]

-----------------------------------------------------------------------------
\* Faulty variant: the counter is not reduced to the width of UInt32.
NextSeqWide == staticSeq + 1

\* UInt32 CreateGwSeq(): the counter starts at 0 and is incremented first.
NextSeq == (staticSeq + 1) % SeqMod
CreateGwSeq == staticSeq' = staticSeq + 1

\* Keep-alive and relogin messages draw numbers from the same counter.
SdkDraw ==
    /\ \E m \in Managers : sdk[m] # "absent"
    /\ staticSeq < MaxDraws
    /\ CreateGwSeq
    /\ UNCHANGED <<sdk, answer, relogin>>

\* Start() returns ok.  A manager that fails to start is left as it is, and a
\* new one has no threads.
SdkStart(m, ok) ==
    sdk' = [sdk EXCEPT ![m] = IF ok THEN "running"
                              ELSE IF @ = "absent" THEN "stopped" ELSE @]

\* Stop() called, and Stop() returning once the receiver thread is joined.
\* What was on its way may or may not still be delivered after a restart.
SdkStopBegin(m) ==
    sdk' = [sdk EXCEPT ![m] = IF @ = "running" THEN "stopping" ELSE @]

SdkStopEnd(m) ==
    /\ sdk' = [sdk EXCEPT ![m] = "stopped"]
    /\ \E lost \in SUBSET Requests :
          answer' = [r \in Requests |-> IF r \in lost THEN "none" ELSE answer[r]]

\* Login(req, seq): the server answers with seq, or the login fails and the
\* SDK reports it under a number of its own; so does a login without number.
\* Logout(req, seq) is answered with seq, or ignored when not connected.
\* A stopped manager ignores both.
SdkMayOwe(m, seq, isLogin) ==
    IF sdk[m] # "running" THEN {"none"}
    ELSE {"none"} \cup (IF seq # 0 THEN {"own"} ELSE {"fresh"})
                  \cup (IF isLogin THEN {"fresh"} ELSE {})

\* The receiver thread of m has an event to report: its loop has not seen
\* the cleared flag.  After the report it tests the flag again.
ReceiverLoops(m) == sdk[m] \in {"running", "stopping"}
ReceiverReports(m) ==
    /\ ReceiverLoops(m)
    /\ sdk' = [sdk EXCEPT ![m] = IF @ = "stopping" THEN "joining" ELSE @]

\* The events that are notifications, on the receiver thread ...
StartRelogin(m) ==
    /\ ~relogin[m]
    /\ ReceiverReports(m)
    /\ relogin' = [relogin EXCEPT ![m] = TRUE]
    /\ UNCHANGED <<staticSeq, answer>>

EndRelogin(m) ==
    /\ relogin[m]
    /\ ReceiverReports(m)
    /\ relogin' = [relogin EXCEPT ![m] = FALSE]
    /\ UNCHANGED <<staticSeq, answer>>

RecvMsg(m) ==
    /\ ReceiverReports(m)
    /\ UNCHANGED <<staticSeq, answer, relogin>>

\* ... and on the timer thread, which Stop() neither disarms nor joins.
ReloginGivesUp(m) ==
    /\ relogin[m]
    /\ relogin' = [relogin EXCEPT ![m] = FALSE]
    /\ UNCHANGED <<sdk, staticSeq, answer>>
=============================================================================

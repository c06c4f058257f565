----------------------------- MODULE LiveLogJava -----------------------------
(***************************************************************************)
(* LiveLog.java: the log in Java.  Threads log with the static method e,   *)
(* one of them the logger thread of live_log.cpp, to a buffer of the class *)
(* as long as there is no instance, and to the instance's buffer from then *)
(* on.  createInstance copies the first buffer into the second, getLogs    *)
(* empties the second, destory empties both.                               *)
(*                                                                         *)
(* A StringBuffer is atomic in each of its methods; here it is a sequence  *)
(* of messages, and its length the number of messages.                     *)
(***************************************************************************)
EXTENDS Naturals, Sequences, FiniteSets, Functions

CONSTANTS
    Threads,      \* threads that call e
    MaxMessages,  \* bound on the messages of one thread
    Creators,     \* calls of createInstance
    Readers,      \* threads that call getLogs
    MaxGets,      \* bound on their calls
    Destroyers,   \* threads that call destory
    MaxDestroys,  \* bound on their calls
    MAX_LENGTH

ASSUME BoundsAssumption ==
    /\ MaxMessages \in Nat /\ MaxGets \in Nat /\ MaxDestroys \in Nat
    /\ MAX_LENGTH \in Nat
    /\ IsFiniteSet(Threads) /\ IsFiniteSet(Creators)

VARIABLES
    sInstance,     \* 0 is null; an instance is numbered when it is made
    made,          \* instances made
    preLogBuffer,
    logBuffer,     \* [1 .. MaxInstances -> the buffer of the instance]
    epc, sent, target,   \* threads that log
    cpc, ctarget, copy,  \* creators
    gpc, read, got, gets,     \* readers: what each has read, what was returned
    dpc, dtarget, destroys,   \* threads in destory
    \* history
    since,     \* [Creators -> calls of destory when the call began]
    overlap,   \* has a buffer been copied or read by two calls at the same time?
    gap        \* may a message have been lost?

logVars == <<epc, sent, target>>
createVars == <<cpc, ctarget, copy, since>>
getVars == <<gpc, read, got, gets>>
destroyVars == <<dpc, dtarget, destroys>>
history == <<overlap, gap>>
bufVars == <<preLogBuffer, logBuffer>>
vars == <<sInstance, made, bufVars, logVars, createVars, getVars, destroyVars,
          history>>

MaxInstances == Cardinality(Creators)
Instances == 1 .. MaxInstances
Messages == Threads \X (1 .. MaxMessages)

TypeOK ==
    /\ sInstance \in 0 .. made /\ made \in 0 .. MaxInstances
    /\ preLogBuffer \in Seq(Messages)
    /\ logBuffer \in [Instances -> Seq(Messages)]
    /\ epc \in [Threads -> {"idle", "check", "append"}]
    /\ sent \in [Threads -> 0 .. MaxMessages]
    /\ target \in [Threads -> 0 .. MaxInstances]
    /\ cpc \in [Creators -> {"idle", "create", "target", "copy", "check", "append",
                             "clear", "return", "returned", "threw"}]
    /\ ctarget \in [Creators -> 0 .. MaxInstances]
    /\ copy \in [Creators -> Seq(Messages)]
    /\ gpc \in [Readers -> 0 .. MaxInstances]
    /\ read \in [Readers -> Seq(Messages)]
    /\ got \in Seq(Messages) /\ gets \in 0 .. MaxGets
    /\ dpc \in [Destroyers -> {"idle", "instance", "pre"}]
    /\ dtarget \in [Destroyers -> 0 .. MaxInstances]
    /\ destroys \in 0 .. MaxDestroys
    /\ since \in [Creators -> 0 .. MaxDestroys]
    /\ overlap \in BOOLEAN /\ gap \in BOOLEAN

Init ==
    /\ sInstance = 0 /\ made = 0
    /\ preLogBuffer = << >>
    /\ logBuffer = [i \in Instances |-> << >>]
    /\ epc = [t \in Threads |-> "idle"]
    /\ sent = [t \in Threads |-> 0]
    /\ target = [t \in Threads |-> 0]
    /\ cpc = [c \in Creators |-> "idle"]
    /\ ctarget = [c \in Creators |-> 0]
    /\ copy = [c \in Creators |-> << >>]
    /\ gpc = [g \in Readers |-> 0]
    /\ read = [g \in Readers |-> << >>]
    /\ got = << >> /\ gets = 0
    /\ dpc = [d \in Destroyers |-> "idle"]
    /\ dtarget = [d \in Destroyers |-> 0]
    /\ destroys = 0
    /\ since = [c \in Creators |-> 0]
    /\ overlap = FALSE /\ gap = FALSE

-----------------------------------------------------------------------------
(* e.  An operator called Faulty... is a wrong version of the one after it,  *)
(* with which the properties are validated.                                  *)

\* A line names its thread and what was logged.
FaultyFormatLog(t) == <<t, 0>>
getFormatLog(t) == <<t, sent[t]>>

\* The instance is read once.
e(t) ==
    /\ epc[t] = "idle"
    /\ sent[t] < MaxMessages
    /\ sent' = [sent EXCEPT ![t] = @ + 1]
    /\ target' = [target EXCEPT ![t] = sInstance]
    /\ epc' = [epc EXCEPT ![t] = "check"]
    /\ UNCHANGED <<sInstance, made, bufVars, createVars, getVars, destroyVars, history>>

\* The synchronized block of preLog and inner: a buffer that is too long is
\* emptied.  The append comes after the block.
FaultyTrim(s) == s
Trim(s) == IF Len(s) > MAX_LENGTH THEN << >> ELSE s

\* The block for the buffer of instance i, or for preLogBuffer when i is 0.
TrimBuffer(i) ==
    IF i = 0
       THEN /\ preLogBuffer' = Trim(preLogBuffer)
            /\ gap' = (gap \/ preLogBuffer' # preLogBuffer)
            /\ UNCHANGED logBuffer
       ELSE /\ logBuffer' = [logBuffer EXCEPT ![i] = Trim(@)]
            /\ gap' = (gap \/ logBuffer' # logBuffer)
            /\ UNCHANGED preLogBuffer

checkLength(t) ==
    /\ epc[t] = "check"
    /\ epc' = [epc EXCEPT ![t] = "append"]
    /\ TrimBuffer(target[t])
    /\ UNCHANGED <<sInstance, made, sent, target, createVars, getVars, destroyVars, overlap>>

\* Has somebody read this buffer who is going to empty it?
BeingRead(i) == \E g \in Readers : gpc[g] = i
ToBeEmptied(i) ==
    IF i = 0 THEN \E c \in Creators : cpc[c] \in {"check", "append", "clear"}
             ELSE BeingRead(i)

append(t) ==
    LET i == target[t]
        msg == getFormatLog(t)
    IN
    /\ epc[t] = "append"
    /\ epc' = [epc EXCEPT ![t] = "idle"]
    /\ IF i = 0
          THEN preLogBuffer' = Append(preLogBuffer, msg) /\ UNCHANGED logBuffer
          ELSE logBuffer' = [logBuffer EXCEPT ![i] = Append(@, msg)]
               /\ UNCHANGED preLogBuffer
    /\ gap' = (gap \/ ToBeEmptied(i))
    /\ target' = [target EXCEPT ![t] = 0]
    /\ UNCHANGED <<sInstance, made, sent, createVars, getVars, destroyVars, overlap>>

-----------------------------------------------------------------------------
(* createInstance.                                                           *)

Step(c, from, to) == cpc[c] = from /\ cpc' = [cpc EXCEPT ![c] = to]

Creating == {c \in Creators : cpc[c] \notin {"idle", "return", "returned", "threw"}}

createInstance(c) ==
    /\ Step(c, "idle", IF sInstance # 0 THEN "return" ELSE "create")
    /\ since' = [since EXCEPT ![c] = destroys]
    /\ overlap' = (overlap \/ (sInstance = 0 /\ Creating # {}))
    /\ UNCHANGED <<sInstance, made, bufVars, logVars, ctarget, copy, getVars,
                   destroyVars, gap>>

\* The second test, under the lock of the class.
FaultyNoInstance == TRUE
NoInstance == sInstance = 0

newInstance(c) ==
    /\ Step(c, "create", "target")
    /\ IF NoInstance THEN made' = made + 1 /\ sInstance' = made + 1
                     ELSE UNCHANGED <<made, sInstance>>
    /\ UNCHANGED <<bufVars, logVars, ctarget, copy, since, getVars, destroyVars, history>>

\* sInstance.inner(preLogBuffer.toString()): the instance is read, then the
\* argument; a call on an instance that was null throws.
readTarget(c) ==
    /\ Step(c, "target", "copy")
    /\ ctarget' = [ctarget EXCEPT ![c] = sInstance]
    /\ UNCHANGED <<sInstance, made, bufVars, logVars, copy, since, getVars, destroyVars,
                   history>>

readPreLog(c) ==
    /\ Step(c, "copy", IF ctarget[c] = 0 THEN "threw" ELSE "check")
    /\ copy' = [copy EXCEPT ![c] = IF ctarget[c] = 0 THEN << >> ELSE preLogBuffer]
    /\ UNCHANGED <<sInstance, made, bufVars, logVars, ctarget, since, getVars, destroyVars,
                   history>>

checkCopy(c) ==
    /\ Step(c, "check", "append")
    /\ TrimBuffer(ctarget[c])
    /\ UNCHANGED <<sInstance, made, logVars, ctarget, copy, since, getVars, destroyVars,
                   overlap>>

appendCopy(c) ==
    /\ Step(c, "append", "clear")
    /\ logBuffer' = [logBuffer EXCEPT ![ctarget[c]] = @ \o copy[c]]
    /\ copy' = [copy EXCEPT ![c] = << >>]
    /\ ctarget' = [ctarget EXCEPT ![c] = 0]
    /\ gap' = (gap \/ (copy[c] # << >> /\ BeingRead(ctarget[c])))
    /\ UNCHANGED <<sInstance, made, preLogBuffer, logVars, since, getVars, destroyVars,
                   overlap>>

clearPreLog(c) ==
    /\ Step(c, "clear", "return")
    /\ preLogBuffer' = << >>
    /\ UNCHANGED <<sInstance, made, logBuffer, logVars, ctarget, copy, since, getVars,
                   destroyVars, history>>

\* Both returns read sInstance once more: what the caller gets may be null.
returnInstance(c) ==
    /\ Step(c, "return", "returned")
    /\ ctarget' = [ctarget EXCEPT ![c] = sInstance]
    /\ UNCHANGED <<sInstance, made, bufVars, logVars, copy, since, getVars, destroyVars,
                   history>>

\* The instances somebody has been given.
Given == {ctarget[c] : c \in {d \in Creators : cpc[d] = "returned"}} \ {0}

-----------------------------------------------------------------------------
(* getLogs, by any number of threads: the read and the emptying are two      *)
(* steps, and no lock keeps a second call out.                               *)

getLogs(g) ==
    /\ gpc[g] = 0
    /\ gets < MaxGets
    /\ gets' = gets + 1
    /\ \E i \in Given :
          /\ gpc' = [gpc EXCEPT ![g] = i]
          /\ read' = [read EXCEPT ![g] = logBuffer[i]]
          /\ overlap' = (overlap \/ BeingRead(i))
    /\ UNCHANGED <<sInstance, made, bufVars, logVars, createVars, got, destroyVars, gap>>

FaultyClearLog(i) == UNCHANGED logBuffer
ClearLog(i) == logBuffer' = [logBuffer EXCEPT ![i] = << >>]

FaultyLogs(g) == << >>
Logs(g) == read[g]

returnLogs(g) ==
    /\ gpc[g] # 0
    /\ ClearLog(gpc[g])
    /\ got' = got \o Logs(g)
    /\ gpc' = [gpc EXCEPT ![g] = 0]
    /\ read' = [read EXCEPT ![g] = << >>]
    /\ UNCHANGED <<sInstance, made, preLogBuffer, logVars, createVars, gets, destroyVars,
                   history>>

-----------------------------------------------------------------------------
(* destory, on an instance that has been given out.                          *)

DestroyStep(d, from, to) == dpc[d] = from /\ dpc' = [dpc EXCEPT ![d] = to]

destory(d) ==
    /\ DestroyStep(d, "idle", "instance")
    /\ destroys < MaxDestroys
    /\ destroys' = destroys + 1
    /\ \E i \in Given : dtarget' = [dtarget EXCEPT ![d] = i]
    /\ sInstance' = 0
    /\ gap' = TRUE
    /\ UNCHANGED <<made, bufVars, logVars, createVars, getVars, overlap>>

destoryLog(d) ==
    /\ DestroyStep(d, "instance", "pre")
    /\ ClearLog(dtarget[d])
    /\ UNCHANGED <<sInstance, made, preLogBuffer, logVars, createVars, getVars, dtarget,
                   destroys, history>>

destoryPreLog(d) ==
    /\ DestroyStep(d, "pre", "idle")
    /\ preLogBuffer' = << >>
    /\ dtarget' = [dtarget EXCEPT ![d] = 0]
    /\ UNCHANGED <<sInstance, made, logBuffer, logVars, createVars, getVars, destroys,
                   history>>

-----------------------------------------------------------------------------
Next ==
    \/ \E t \in Threads : e(t) \/ checkLength(t) \/ append(t)
    \/ \E c \in Creators :
          \/ createInstance(c) \/ newInstance(c) \/ readTarget(c) \/ readPreLog(c)
          \/ checkCopy(c) \/ appendCopy(c) \/ clearPreLog(c) \/ returnInstance(c)
    \/ \E g \in Readers : getLogs(g) \/ returnLogs(g)
    \/ \E d \in Destroyers : destory(d) \/ destoryLog(d) \/ destoryPreLog(d)

Spec == Init /\ [][Next]_vars

-----------------------------------------------------------------------------
(* Properties.                                                               *)

\* The messages whose call of e has returned.
Logged == {msg \in Messages :
    /\ msg[2] <= sent[msg[1]]
    /\ msg[2] = sent[msg[1]] => epc[msg[1]] = "idle"}

Held == Range(preLogBuffer) \cup UNION {Range(logBuffer[i]) : i \in Instances}

Times(s, msg) == Cardinality({k \in DOMAIN s : s[k] = msg})

\* getLogs returns a message at most once, and none that it leaves behind,
\* unless two calls of createInstance have both copied the first buffer or two
\* calls of getLogs have both read the same one: nothing else doubles a message.
AtMostOnce ==
    ~overlap => \A msg \in Messages :
        LET held == {i \in Instances : Times(logBuffer[i], msg) > 0} IN
        /\ Times(got, msg) <= 1
        /\ held # {} => Times(got, msg) = 0
        /\ Cardinality(held) <= 1
        /\ \A i \in Instances : Times(logBuffer[i], msg) <= 1

\* A logged message is in a buffer or has been returned, unless there is one of
\* the reasons for which this code loses messages: the buffer was too long,
\* destory was called, or the message was added between the reading and the
\* emptying of its buffer in getLogs or createInstance.
LostOnlyInGap == ~gap => Logged \subseteq Held \cup Range(got)

\* However many threads create the instance, between two calls of destory there
\* is one, and a creator finds none, neither to copy to nor to return, only if
\* destory has been called since it began.
FoundNone(c) == cpc[c] = "threw" \/ (cpc[c] = "returned" /\ ctarget[c] = 0)
OneInstance ==
    /\ made <= 1 + destroys
    /\ \A c \in Creators : FoundNone(c) => destroys > since[c]

\* The append is outside the synchronized block, so a buffer may grow beyond
\* MAX_LENGTH, but only by what the threads have in hand, and an instance's
\* buffer by the copies of the first one.
Bounded ==
    LET limit == MAX_LENGTH + Cardinality(Threads) IN
    /\ Len(preLogBuffer) <= limit
    /\ \A i \in Instances : Len(logBuffer[i]) <= limit * (1 + Cardinality(Creators))
=============================================================================

-------------------------- MODULE LiveLogJavaProofs --------------------------
(***************************************************************************)
(* Theorems about LiveLogJava, for any number of threads that log,        *)
(* create, read and destroy the instance, and for every MAX_LENGTH.        *)
(***************************************************************************)
EXTENDS LiveLogJava, SequenceTheorems, FiniteSetTheorems, TLAPS

ReadStep ==
    \/ \E g \in Readers : getLogs(g) \/ returnLogs(g)
    \/ \E d \in Destroyers : destory(d) \/ destoryLog(d) \/ destoryPreLog(d)

\* Each call of destory lets one more instance be made; as long as there was
\* none since a creator began, it finds the instance once past the tests.
InstanceCount ==
    /\ made \in Nat /\ destroys \in Nat
    /\ made <= 1 + destroys
    /\ sInstance = 0 => made <= destroys

CreatorsFind ==
    /\ cpc \in [Creators -> {"idle", "create", "target", "copy", "check", "append",
                             "clear", "return", "returned", "threw"}]
    /\ ctarget \in [Creators -> Nat] /\ since \in [Creators -> Nat]
    /\ sInstance \in Nat
    /\ \A c \in Creators :
          /\ since[c] <= destroys
          /\ since[c] = destroys =>
                /\ cpc[c] \in {"target", "copy", "check", "append", "clear", "return"}
                      => sInstance # 0
                /\ cpc[c] \in {"copy", "returned"} => ctarget[c] # 0
                /\ cpc[c] # "threw"

InstanceInv == InstanceCount /\ CreatorsFind

LEMMA InitInstance == Init => InstanceInv
  BY DEF Init, InstanceInv, InstanceCount, CreatorsFind

LEMMA NextInstance == InstanceInv /\ [Next]_vars => InstanceInv'
<1>. SUFFICES ASSUME InstanceInv, [Next]_vars PROVE InstanceInv'
  OBVIOUS
<1>. USE DEF InstanceInv, InstanceCount, CreatorsFind, destroyVars, createVars
<1>1. ASSUME UNCHANGED <<sInstance, made, destroys, cpc, ctarget, since>> PROVE InstanceInv'
  BY <1>1
<1>2. ASSUME NEW t \in Threads, e(t) \/ checkLength(t) \/ append(t) PROVE InstanceInv'
  BY <1>1, <1>2 DEF e, checkLength, append
<1>3. ASSUME NEW c \in Creators, createInstance(c) PROVE InstanceInv'
  BY <1>3 DEF createInstance, Step
<1>4. ASSUME NEW c \in Creators, newInstance(c) PROVE InstanceInv'
  BY <1>4 DEF newInstance, NoInstance, Step
<1>5. ASSUME NEW c \in Creators, readTarget(c) PROVE InstanceInv'
  BY <1>5 DEF readTarget, Step
<1>6. ASSUME NEW c \in Creators, readPreLog(c) PROVE InstanceInv'
  BY <1>6 DEF readPreLog, Step
<1>7. ASSUME NEW c \in Creators, checkCopy(c) PROVE InstanceInv'
  BY <1>7 DEF checkCopy, Step
<1>8. ASSUME NEW c \in Creators, appendCopy(c) PROVE InstanceInv'
  BY <1>8 DEF appendCopy, Step
<1>9. ASSUME NEW c \in Creators, clearPreLog(c) PROVE InstanceInv'
  BY <1>9 DEF clearPreLog, Step
<1>10. ASSUME NEW c \in Creators, returnInstance(c) PROVE InstanceInv'
  BY <1>10 DEF returnInstance, Step
<1>11. ASSUME NEW g \in Readers, getLogs(g) \/ returnLogs(g) PROVE InstanceInv'
  BY <1>1, <1>11 DEF getLogs, returnLogs
<1>12. ASSUME NEW d \in Destroyers, destory(d) PROVE InstanceInv'
  BY <1>12 DEF destory
<1>13. ASSUME NEW d \in Destroyers, destoryLog(d) \/ destoryPreLog(d) PROVE InstanceInv'
  BY <1>1, <1>13 DEF destoryLog, destoryPreLog
<1>14. CASE UNCHANGED vars  BY <1>1, <1>14 DEF vars
<1>. QED
  BY <1>2, <1>3, <1>4, <1>5, <1>6, <1>7, <1>8, <1>9, <1>10, <1>11, <1>12, <1>13, <1>14
  DEF Next

\* The two tests of sInstance make one instance between two calls of destory,
\* and no creator finds none, neither to copy to nor to return, unless destory
\* was called after the creator began.
THEOREM OneInstanceMade == Spec => []OneInstance
<1>1. InstanceInv => OneInstance
  BY DEF InstanceInv, InstanceCount, CreatorsFind, OneInstance, FoundNone
<1>. QED  BY <1>1, InitInstance, NextInstance, PTL DEF Spec
-----------------------------------------------------------------------------
(* The types.  An instance is made by a creator that does not come back to   *)
(* this point, so there are no more instances than calls of createInstance,  *)
(* and every number of an instance is one of them.                           *)

Makers == {c \in Creators : cpc[c] \notin {"idle", "create"}}

IndexInv ==
    /\ made <= Cardinality(Makers)
    /\ \A t \in Threads : target[t] <= made /\ (epc[t] # "idle" => sent[t] # 0)
    /\ \A c \in Creators : /\ ctarget[c] <= made
                           /\ cpc[c] \in {"check", "append"} => ctarget[c] # 0
    /\ \A g \in Readers : gpc[g] <= made
    /\ \A d \in Destroyers : dtarget[d] <= made

TypeInv == TypeOK /\ IndexInv

LEMMA CreatorSets ==
  /\ MaxInstances \in Nat
  /\ \A S \in SUBSET Creators :
        /\ IsFiniteSet(S) /\ Cardinality(S) \in Nat /\ Cardinality(S) <= MaxInstances
        /\ \A T \in SUBSET S : Cardinality(T) <= Cardinality(S)
<1>1. IsFiniteSet(Creators)
  BY BoundsAssumption
<1>2. \A S \in SUBSET Creators : IsFiniteSet(S)
  BY <1>1, FS_Subset
<1>. QED  BY <1>1, <1>2, FS_Subset, FS_CardinalityType DEF MaxInstances

\* The creators that are past the second test stay so.
LEMMA MakersGrow ==
  ASSUME Makers \subseteq Makers'
  PROVE  /\ Cardinality(Makers) \in Nat /\ Cardinality(Makers') \in Nat
         /\ Cardinality(Makers) <= Cardinality(Makers')
         /\ Cardinality(Makers') <= MaxInstances
<1>1. Makers \in SUBSET Creators /\ Makers' \in SUBSET Creators
  BY DEF Makers
<1>. QED  BY <1>1, CreatorSets

LEMMA TrimType == \A s \in Seq(Messages) : Trim(s) \in Seq(Messages) /\ Len(Trim(s)) <= MAX_LENGTH
<1>1. << >> \in Seq(Messages) /\ Len(<< >>) = 0 /\ MAX_LENGTH \in Nat
  BY BoundsAssumption
<1>. QED  BY <1>1, LenProperties DEF Trim

LEMMA TrimBufferType ==
  ASSUME TypeOK, NEW i, TrimBuffer(i)
  PROVE  preLogBuffer' \in Seq(Messages) /\ logBuffer' \in [Instances -> Seq(Messages)]
<1>1. preLogBuffer \in Seq(Messages) /\ logBuffer \in [Instances -> Seq(Messages)]
  BY DEF TypeOK
<1>2. Trim(preLogBuffer) \in Seq(Messages)
  BY <1>1, TrimType
<1>3. \A j \in Instances : Trim(logBuffer[j]) \in Seq(Messages)
  BY <1>1, TrimType
<1>. QED  BY <1>1, <1>2, <1>3 DEF TrimBuffer

LEMMA InitTypes == Init => TypeInv
<1>. SUFFICES ASSUME Init PROVE TypeInv
  OBVIOUS
<1>. USE DEF Init
<1>1. MaxInstances \in Nat /\ Cardinality(Makers) \in Nat
  BY CreatorSets DEF Makers
<1>2. << >> \in Seq(Messages)
  BY EmptySeq
<1>3. TypeOK
  <2>1. preLogBuffer \in Seq(Messages) /\ got \in Seq(Messages)
    BY <1>2
  <2>2. /\ logBuffer \in [Instances -> Seq(Messages)]
        /\ copy \in [Creators -> Seq(Messages)] /\ read \in [Readers -> Seq(Messages)]
    BY <1>2, Zenon
  <2>3. /\ sInstance \in 0 .. made /\ made \in 0 .. MaxInstances
        /\ gpc \in [Readers -> 0 .. MaxInstances] /\ gets \in 0 .. MaxGets
        /\ dtarget \in [Destroyers -> 0 .. MaxInstances] /\ destroys \in 0 .. MaxDestroys
        /\ since \in [Creators -> 0 .. MaxDestroys]
        /\ sent \in [Threads -> 0 .. MaxMessages]
        /\ target \in [Threads -> 0 .. MaxInstances]
        /\ ctarget \in [Creators -> 0 .. MaxInstances]
    BY <1>1, BoundsAssumption
  <2>4. /\ epc \in [Threads -> {"idle", "check", "append"}]
        /\ cpc \in [Creators -> {"idle", "create", "target", "copy", "check", "append",
                                 "clear", "return", "returned", "threw"}]
        /\ dpc \in [Destroyers -> {"idle", "instance", "pre"}]
        /\ overlap \in BOOLEAN /\ gap \in BOOLEAN
    OBVIOUS
  <2>. QED  BY <2>1, <2>2, <2>3, <2>4 DEF TypeOK
<1>4. IndexInv
  BY <1>1 DEF IndexInv
<1>. QED  BY <1>3, <1>4 DEF TypeInv

\* The message that is appended has been counted by e.
LEMMA AppendedIsMessage ==
  ASSUME TypeInv, NEW t \in Threads, append(t)
  PROVE  getFormatLog(t) \in Messages
<1>1. MaxMessages \in Nat
  BY BoundsAssumption
<1>. QED  BY <1>1 DEF TypeInv, TypeOK, IndexInv, append, getFormatLog, Messages

LEMMA LogTypes ==
  ASSUME TypeInv, NEW t \in Threads, e(t) \/ checkLength(t) \/ append(t)
  PROVE  TypeInv'
<1>. USE DEF TypeInv, createVars, getVars, destroyVars, bufVars, history
<1>1. Makers' = Makers
  BY DEF e, checkLength, append, Makers
<1>2. MaxInstances \in Nat /\ MaxMessages \in Nat
  BY CreatorSets, BoundsAssumption
<1>3. CASE e(t)
  <2>1. TypeOK'  BY <1>2, <1>3 DEF TypeOK, e
  <2>2. IndexInv'  BY <1>1, <1>2, <1>3 DEF TypeOK, IndexInv, e
  <2>. QED  BY <2>1, <2>2
<1>4. CASE checkLength(t)
  <2>1. preLogBuffer' \in Seq(Messages) /\ logBuffer' \in [Instances -> Seq(Messages)]
    BY <1>4, TrimBufferType DEF checkLength
  <2>2. gap' \in BOOLEAN
    BY <1>4, Zenon DEF checkLength, TrimBuffer
  <2>3. TypeOK'  BY <2>1, <2>2, <1>4 DEF TypeOK, checkLength
  <2>4. IndexInv'  BY <1>1, <1>4 DEF TypeOK, IndexInv, checkLength
  <2>. QED  BY <2>3, <2>4
<1>5. CASE append(t)
  <2>1. getFormatLog(t) \in Messages
    BY <1>5, AppendedIsMessage
  <2>2. preLogBuffer' \in Seq(Messages) /\ logBuffer' \in [Instances -> Seq(Messages)]
    <3>1. preLogBuffer \in Seq(Messages) /\ logBuffer \in [Instances -> Seq(Messages)]
      BY DEF TypeOK
    <3>2. ASSUME NEW s \in Seq(Messages)
          PROVE  Append(s, getFormatLog(t)) \in Seq(Messages)
      BY <2>1, AppendProperties
    <3>3. CASE target[t] = 0
      BY <3>1, <3>2, <3>3, <1>5 DEF append
    <3>4. CASE target[t] # 0
      <4>1. logBuffer' = [logBuffer EXCEPT ![target[t]] = Append(@, getFormatLog(t))]
             /\ preLogBuffer' = preLogBuffer
        BY <3>4, <1>5 DEF append
      <4>2. \A i \in Instances : Append(logBuffer[i], getFormatLog(t)) \in Seq(Messages)
        BY <3>1, <3>2
      <4>. QED  BY <3>1, <4>1, <4>2
    <3>. QED  BY <3>3, <3>4
  <2>3. gap' \in BOOLEAN
    BY <1>5, Zenon DEF append
  <2>4. TypeOK'  BY <2>2, <2>3, <1>2, <1>5 DEF TypeOK, append
  <2>5. IndexInv'  BY <1>1, <1>2, <1>5 DEF TypeOK, IndexInv, append
  <2>. QED  BY <2>4, <2>5
<1>. QED  BY <1>3, <1>4, <1>5

LEMMA CreateTypes ==
  ASSUME TypeInv, NEW c \in Creators,
         createInstance(c) \/ newInstance(c) \/ readTarget(c) \/ readPreLog(c)
            \/ checkCopy(c) \/ appendCopy(c) \/ clearPreLog(c) \/ returnInstance(c)
  PROVE  TypeInv'
<1>. USE DEF TypeInv, logVars, getVars, destroyVars, bufVars, history, Step
<1>1. MaxInstances \in Nat /\ << >> \in Seq(Messages)
  BY CreatorSets, EmptySeq
<1>2. Makers \subseteq Makers'
  BY DEF Makers, TypeOK, createInstance, newInstance, readTarget, readPreLog, checkCopy,
         appendCopy, clearPreLog, returnInstance
<1>3. /\ Cardinality(Makers) \in Nat /\ Cardinality(Makers') \in Nat
      /\ Cardinality(Makers) <= Cardinality(Makers')
      /\ Cardinality(Makers') <= MaxInstances
  BY <1>2, MakersGrow
<1>4. CASE createInstance(c)
  <2>1. overlap' \in BOOLEAN
    BY <1>4, Zenon DEF createInstance
  <2>2. TypeOK'  BY <1>1, <1>4, <2>1 DEF TypeOK, createInstance
  <2>3. IndexInv'  BY <1>3, <1>4 DEF createInstance, IndexInv, TypeOK
  <2>. QED  BY <2>2, <2>3
<1>5. CASE newInstance(c)
  <2>1. Cardinality(Makers') = Cardinality(Makers) + 1
    <3>1. Makers' = Makers \cup {c} /\ c \notin Makers
      BY <1>5 DEF newInstance, Makers, TypeOK
    <3>2. IsFiniteSet(Makers)
      BY CreatorSets DEF Makers
    <3>. QED  BY <3>1, <3>2, FS_AddElement
  <2>2. made' \in Nat /\ made' <= made + 1 /\ made <= made' /\ sInstance' \in 0 .. made'
    BY <1>5 DEF newInstance, TypeOK
  <2>3. made' <= Cardinality(Makers')
    BY <1>1, <1>3, <2>1, <2>2 DEF IndexInv, TypeOK
  <2>4. made' \in 0 .. MaxInstances
    BY <1>1, <1>3, <2>2, <2>3
  <2>5. TypeOK'  BY <1>1, <1>5, <2>2, <2>4 DEF TypeOK, newInstance
  <2>6. IndexInv'  BY <1>1, <1>5, <2>2, <2>3 DEF newInstance, IndexInv, TypeOK
  <2>. QED  BY <2>5, <2>6
<1>6. CASE readTarget(c)
  <2>1. TypeOK'  BY <1>1, <1>6 DEF TypeOK, readTarget
  <2>2. IndexInv'  BY <1>3, <1>6 DEF readTarget, IndexInv, TypeOK
  <2>. QED  BY <2>1, <2>2
<1>7. CASE readPreLog(c)
  <2>1. TypeOK'  BY <1>1, <1>7 DEF TypeOK, readPreLog
  <2>2. IndexInv'  BY <1>3, <1>7 DEF readPreLog, IndexInv, TypeOK
  <2>. QED  BY <2>1, <2>2
<1>8. CASE checkCopy(c)
  <2>1. preLogBuffer' \in Seq(Messages) /\ logBuffer' \in [Instances -> Seq(Messages)]
    BY <1>8, TrimBufferType DEF checkCopy
  <2>2. gap' \in BOOLEAN
    BY <1>8, Zenon DEF checkCopy, TrimBuffer
  <2>3. TypeOK'  BY <2>1, <2>2, <1>8 DEF TypeOK, checkCopy
  <2>4. IndexInv'  BY <1>3, <1>8 DEF TypeOK, IndexInv, checkCopy
  <2>. QED  BY <2>3, <2>4
<1>9. CASE appendCopy(c)
  <2>1. \A i \in Instances : logBuffer[i] \o copy[c] \in Seq(Messages)
    BY ConcatProperties DEF TypeOK
  <2>2. logBuffer' \in [Instances -> Seq(Messages)]
    BY <2>1, <1>9 DEF TypeOK, appendCopy
  <2>3. gap' \in BOOLEAN
    BY <1>9, Zenon DEF appendCopy
  <2>4. TypeOK'  BY <1>1, <2>2, <2>3, <1>9 DEF TypeOK, appendCopy
  <2>5. IndexInv'  BY <1>3, <1>9 DEF TypeOK, IndexInv, appendCopy
  <2>. QED  BY <2>4, <2>5
<1>10. CASE clearPreLog(c)
  <2>1. TypeOK'  BY <1>1, <1>10 DEF TypeOK, clearPreLog
  <2>2. IndexInv'  BY <1>3, <1>10 DEF clearPreLog, IndexInv, TypeOK
  <2>. QED  BY <2>1, <2>2
<1>11. CASE returnInstance(c)
  <2>1. TypeOK'  BY <1>1, <1>11 DEF TypeOK, returnInstance
  <2>2. IndexInv'  BY <1>3, <1>11 DEF returnInstance, IndexInv, TypeOK
  <2>. QED  BY <2>1, <2>2
<1>. QED  BY <1>4, <1>5, <1>6, <1>7, <1>8, <1>9, <1>10, <1>11

\* Who is given an instance is a creator that has returned.
LEMMA GivenInstances ==
  ASSUME TypeInv, NEW i \in Given
  PROVE  i \in Instances /\ i <= made
<1>1. MaxInstances \in Nat
  BY CreatorSets
<1>. QED  BY <1>1 DEF Given, TypeInv, TypeOK, IndexInv, Instances

LEMMA ReadTypes ==
  ASSUME TypeInv,
         ReadStep \/ UNCHANGED vars
  PROVE  TypeInv'
<1>. USE DEF TypeInv, logVars, createVars, getVars, destroyVars, bufVars, history, ClearLog,
            DestroyStep
<1>1. Makers' = Makers
  BY DEF Makers, ReadStep, getLogs, returnLogs, destory, destoryLog, destoryPreLog, vars
<1>2. /\ MaxInstances \in Nat /\ << >> \in Seq(Messages)
      /\ MaxGets \in Nat /\ MaxDestroys \in Nat
  BY CreatorSets, EmptySeq, BoundsAssumption
<1>3. ASSUME NEW g \in Readers, getLogs(g) PROVE TypeInv'
  <2>. PICK i \in Given : /\ gpc' = [gpc EXCEPT ![g] = i]
                          /\ read' = [read EXCEPT ![g] = logBuffer[i]]
                          /\ overlap' = (overlap \/ BeingRead(i))
    BY <1>3, Zenon DEF getLogs
  <2>1. i \in Instances /\ i \in 0 .. MaxInstances /\ i <= made
    BY <1>2, GivenInstances DEF Instances
  <2>2. overlap' \in BOOLEAN
    BY Zenon
  <2>3. gpc' \in [Readers -> 0 .. MaxInstances] /\ read' \in [Readers -> Seq(Messages)]
    BY <2>1 DEF TypeOK
  <2>4. TypeOK'  BY <1>2, <1>3, <2>2, <2>3 DEF TypeOK, getLogs
  <2>5. IndexInv'  BY <1>1, <1>3, <2>1 DEF IndexInv, getLogs, TypeOK
  <2>. QED  BY <2>4, <2>5
<1>4. ASSUME NEW g \in Readers, returnLogs(g) PROVE TypeInv'
  <2>1. got \o read[g] \in Seq(Messages)
    <3>1. got \in Seq(Messages) /\ read[g] \in Seq(Messages)
      BY DEF TypeOK
    <3>. QED  BY <3>1, ConcatProperties
  <2>2. logBuffer' \in [Instances -> Seq(Messages)]
    BY <1>2, <1>4 DEF TypeOK, returnLogs
  <2>3. /\ read' \in [Readers -> Seq(Messages)] /\ got' \in Seq(Messages)
        /\ gpc' \in [Readers -> 0 .. MaxInstances]
    BY <1>2, <1>4, <2>1 DEF returnLogs, Logs, TypeOK
  <2>4. TypeOK'  BY <2>2, <2>3, <1>4 DEF TypeOK, returnLogs
  <2>5. IndexInv'  BY <1>1, <1>4 DEF IndexInv, returnLogs, TypeOK
  <2>. QED  BY <2>4, <2>5
<1>5. ASSUME NEW d \in Destroyers, destory(d) PROVE TypeInv'
  <2>. PICK i \in Given : dtarget' = [dtarget EXCEPT ![d] = i]
    BY <1>5 DEF destory
  <2>1. i \in 0 .. MaxInstances /\ i <= made
    BY <1>2, GivenInstances DEF Instances
  <2>2. TypeOK'  BY <1>2, <1>5, <2>1 DEF TypeOK, destory
  <2>3. IndexInv'  BY <1>1, <1>5, <2>1 DEF IndexInv, destory, TypeOK
  <2>. QED  BY <2>2, <2>3
<1>6. ASSUME NEW d \in Destroyers, destoryLog(d) PROVE TypeInv'
  <2>1. TypeOK'  BY <1>2, <1>6 DEF TypeOK, destoryLog
  <2>2. IndexInv'  BY <1>1, <1>6 DEF IndexInv, destoryLog, TypeOK
  <2>. QED  BY <2>1, <2>2
<1>7. ASSUME NEW d \in Destroyers, destoryPreLog(d) PROVE TypeInv'
  <2>1. TypeOK'  BY <1>2, <1>7 DEF TypeOK, destoryPreLog
  <2>2. IndexInv'  BY <1>1, <1>7 DEF IndexInv, destoryPreLog, TypeOK
  <2>. QED  BY <2>1, <2>2
<1>8. CASE UNCHANGED vars
  <2>1. TypeOK'  BY <1>8 DEF TypeOK, vars
  <2>2. IndexInv'  BY <1>1, <1>8 DEF IndexInv, vars
  <2>. QED  BY <2>1, <2>2
<1>. QED  BY <1>3, <1>4, <1>5, <1>6, <1>7, <1>8 DEF ReadStep

LEMMA NextTypes == TypeInv /\ [Next]_vars => TypeInv'
  BY LogTypes, CreateTypes, ReadTypes DEF Next, ReadStep

LEMMA TypesHold == Spec => []TypeInv
  BY InitTypes, NextTypes, PTL DEF Spec

\* Every state of the model has the types of TypeOK: the Java threads never name
\* an instance that has not been made, and only messages are in the buffers.
THEOREM TypeCorrect == Spec => []TypeOK
<1>1. TypeInv => TypeOK  BY DEF TypeInv
<1>. QED  BY <1>1, TypesHold, PTL

-----------------------------------------------------------------------------
(* What is in a sequence of messages.                                        *)

NoRepeat(s) == \A j, k \in DOMAIN s : s[j] = s[k] => j = k

LEMMA RangeEmpty == Range(<< >>) = {} /\ NoRepeat(<< >>)
  BY DEF Range, NoRepeat

LEMMA AppendFacts ==
  ASSUME NEW s \in Seq(Messages), NEW msg \in Messages
  PROVE  /\ Append(s, msg) \in Seq(Messages)
         /\ Len(Append(s, msg)) = Len(s) + 1
         /\ Range(Append(s, msg)) = Range(s) \cup {msg}
         /\ NoRepeat(s) /\ msg \notin Range(s) => NoRepeat(Append(s, msg))
<1>1. /\ Append(s, msg) \in Seq(Messages)
      /\ Len(s) \in Nat /\ DOMAIN s = 1 .. Len(s)
      /\ DOMAIN Append(s, msg) = 1 .. Len(s) + 1
      /\ Len(Append(s, msg)) = Len(s) + 1
      /\ \A k \in 1 .. Len(s) : Append(s, msg)[k] = s[k]
      /\ Append(s, msg)[Len(s) + 1] = msg
  BY AppendProperties, LenProperties
<1>2. 1 .. Len(s) + 1 = (1 .. Len(s)) \cup {Len(s) + 1} /\ Len(s) + 1 \notin 1 .. Len(s)
  BY <1>1
<1>3. Range(Append(s, msg)) = Range(s) \cup {msg}
  BY <1>1, <1>2, Zenon DEF Range
<1>4. ASSUME NoRepeat(s), msg \notin Range(s) PROVE NoRepeat(Append(s, msg))
  BY <1>1, <1>2, <1>4 DEF NoRepeat, Range
<1>. QED  BY <1>1, <1>3, <1>4

LEMMA ConcatFacts ==
  ASSUME NEW s \in Seq(Messages), NEW u \in Seq(Messages)
  PROVE  /\ s \o u \in Seq(Messages)
         /\ Len(s \o u) = Len(s) + Len(u)
         /\ Range(s \o u) = Range(s) \cup Range(u)
         /\ NoRepeat(s) /\ NoRepeat(u) /\ Range(s) \cap Range(u) = {} => NoRepeat(s \o u)
<1>1. /\ s \o u \in Seq(Messages)
      /\ Len(s) \in Nat /\ DOMAIN s = 1 .. Len(s)
      /\ Len(u) \in Nat /\ DOMAIN u = 1 .. Len(u)
      /\ DOMAIN (s \o u) = 1 .. Len(s) + Len(u)
      /\ Len(s \o u) = Len(s) + Len(u)
      /\ \A k \in 1 .. Len(s) + Len(u) :
            (s \o u)[k] = IF k <= Len(s) THEN s[k] ELSE u[k - Len(s)]
  BY ConcatProperties, LenProperties
<1>2. Range(s \o u) = Range(s) \cup Range(u)
  BY RangeConcatenation
<1>3. ASSUME NoRepeat(s), NoRepeat(u), Range(s) \cap Range(u) = {} PROVE NoRepeat(s \o u)
  <2>. SUFFICES ASSUME NEW j \in 1 .. Len(s) + Len(u), NEW k \in 1 .. Len(s) + Len(u),
                       (s \o u)[j] = (s \o u)[k]
                PROVE  j = k
    BY <1>1 DEF NoRepeat
  <2>1. \A m \in 1 .. Len(s) : s[m] \in Range(s)
    BY <1>1 DEF Range
  <2>2. \A m \in 1 .. Len(u) : u[m] \in Range(u)
    BY <1>1 DEF Range
  <2>3. CASE j <= Len(s) /\ k <= Len(s)
    BY <1>1, <1>3, <2>3 DEF NoRepeat
  <2>4. CASE j > Len(s) /\ k > Len(s)
    <3>1. j - Len(s) \in 1 .. Len(u) /\ k - Len(s) \in 1 .. Len(u)
      BY <1>1, <2>4
    <3>2. u[j - Len(s)] = u[k - Len(s)]
      BY <1>1, <2>4
    <3>3. j - Len(s) = k - Len(s)
      BY <1>1, <1>3, <3>1, <3>2 DEF NoRepeat
    <3>. QED  BY <1>1, <3>3
  <2>5. ASSUME NEW m \in 1 .. Len(s), NEW n \in 1 .. Len(s) + Len(u), n > Len(s)
        PROVE  (s \o u)[m] # (s \o u)[n]
    <3>1. (s \o u)[m] \in Range(s)
      BY <1>1, <2>1
    <3>2. n - Len(s) \in 1 .. Len(u) /\ (s \o u)[n] = u[n - Len(s)]
      BY <1>1, <2>5
    <3>3. (s \o u)[n] \in Range(u)
      BY <2>2, <3>2
    <3>. QED  BY <1>3, <3>1, <3>3
  <2>. QED  BY <1>1, <2>3, <2>4, <2>5
<1>. QED  BY <1>1, <1>2, <1>3

LEMMA TrimFacts ==
  ASSUME NEW s \in Seq(Messages)
  PROVE  /\ Trim(s) \in Seq(Messages) /\ Len(Trim(s)) <= MAX_LENGTH
         /\ Trim(s) = s \/ Trim(s) = << >>
  BY TrimType DEF Trim

-----------------------------------------------------------------------------
(* The length of the buffers.  A thread between the test of a length and its *)
(* append may still add one message, a creator there a copy of the first     *)
(* buffer; the test leaves room for all of them.                             *)

Limit == MAX_LENGTH + Cardinality(Threads)
Appending(i) == {t \in Threads : epc[t] = "append" /\ target[t] = i}
Copying(i) == {c \in Creators : cpc[c] = "append" /\ ctarget[c] = i}

PreRoom == Len(preLogBuffer) + Cardinality(Appending(0)) <= Limit
LogRoom(i) ==
    Len(logBuffer[i]) + Cardinality(Appending(i)) + Limit * Cardinality(Copying(i))
        <= Limit * (1 + Cardinality(Creators))
CopyRoom == \A c \in Creators : Len(copy[c]) <= Limit

LengthInv == PreRoom /\ (\A i \in Instances : LogRoom(i)) /\ CopyRoom

LEMMA ThreadSets ==
  \A S \in SUBSET Threads :
     IsFiniteSet(S) /\ Cardinality(S) \in Nat /\ Cardinality(S) <= Cardinality(Threads)
<1>1. IsFiniteSet(Threads)
  BY BoundsAssumption
<1>2. \A S \in SUBSET Threads : IsFiniteSet(S)
  BY <1>1, FS_Subset
<1>. QED  BY <1>1, <1>2, FS_Subset, FS_CardinalityType

LEMMA Sizes ==
  /\ Limit \in Nat /\ MAX_LENGTH \in Nat /\ Cardinality(Creators) \in Nat
  /\ Cardinality(Threads) \in Nat /\ MAX_LENGTH + Cardinality(Threads) = Limit
  /\ \A i : Cardinality(Appending(i)) \in Nat /\ Cardinality(Copying(i)) \in Nat
<1>1. \A i : Appending(i) \in SUBSET Threads /\ Copying(i) \in SUBSET Creators
  BY DEF Appending, Copying
<1>. QED
  BY <1>1, ThreadSets, CreatorSets, BoundsAssumption, FS_CardinalityType
  DEF Limit, MaxInstances

LEMMA Products ==
  ASSUME NEW m \in Nat, NEW n \in Nat
  PROVE  /\ Limit * m \in Nat
         /\ Limit * (m + 1) = Limit * m + Limit
         /\ m <= n => Limit * m <= Limit * n
         /\ Limit * (1 + n) = Limit + Limit * n
<1>1. Limit \in Nat
  BY Sizes
<1>. QED  BY <1>1

\* A buffer that has just been tested has room for everybody.
LEMMA TrimmedRoom ==
  ASSUME NEW s \in Seq(Messages), Len(s) <= MAX_LENGTH,
         NEW A \in SUBSET Threads, NEW C \in SUBSET Creators
  PROVE  /\ Len(s) + Cardinality(A) <= Limit
         /\ Len(s) + Cardinality(A) + Limit * Cardinality(C)
               <= Limit * (1 + Cardinality(Creators))
<1>1. /\ Len(s) \in Nat
      /\ Cardinality(A) \in Nat /\ Cardinality(A) <= Cardinality(Threads)
      /\ Cardinality(C) \in Nat /\ Cardinality(C) <= Cardinality(Creators)
  BY ThreadSets, CreatorSets, LenProperties DEF MaxInstances
<1>2. Len(s) + Cardinality(A) <= Limit
  BY <1>1, Sizes
<1>3. /\ Limit * Cardinality(C) \in Nat /\ Limit * Cardinality(Creators) \in Nat
      /\ Limit * Cardinality(C) <= Limit * Cardinality(Creators)
      /\ Limit * (1 + Cardinality(Creators)) = Limit + Limit * Cardinality(Creators)
  BY <1>1, Sizes, Products
<1>4. \A k, n, p, q \in Nat : k + n <= Limit /\ p <= q => k + n + p <= Limit + q
  BY Sizes
<1>. QED  BY <1>1, <1>2, <1>3, <1>4

LEMMA InitLength == Init => LengthInv
<1>. SUFFICES ASSUME Init PROVE LengthInv
  OBVIOUS
<1>1. << >> \in Seq(Messages) /\ Len(<< >>) = 0 /\ Len(<< >>) <= MAX_LENGTH
  BY EmptySeq, Sizes
<1>2. \A i : Appending(i) \in SUBSET Threads /\ Copying(i) \in SUBSET Creators
  BY DEF Appending, Copying
<1>3. PreRoom
  BY <1>1, <1>2, TrimmedRoom DEF Init, PreRoom
<1>4. ASSUME NEW i \in Instances PROVE LogRoom(i)
  BY <1>1, <1>2, TrimmedRoom DEF Init, LogRoom
<1>5. CopyRoom
  BY <1>1, Sizes DEF Init, CopyRoom
<1>. QED  BY <1>3, <1>4, <1>5 DEF LengthInv

\* What does not lengthen a buffer, nor add to those that are to append to one.
LEMMA ShorterLength ==
  ASSUME TypeInv, TypeInv', LengthInv,
         preLogBuffer' = preLogBuffer \/ preLogBuffer' = << >>,
         \A i \in Instances : logBuffer'[i] = logBuffer[i] \/ logBuffer'[i] = << >>,
         \A i \in 0 .. MaxInstances :
            Appending(i)' = Appending(i) /\ Copying(i)' = Copying(i),
         \A c \in Creators : copy'[c] = copy[c] \/ copy'[c] = preLogBuffer
  PROVE  LengthInv'
<1>1. /\ Len(preLogBuffer) \in Nat /\ Len(preLogBuffer') \in Nat
      /\ Len(preLogBuffer') <= Len(preLogBuffer)
  <2>1. preLogBuffer \in Seq(Messages) /\ preLogBuffer' \in Seq(Messages)
    BY DEF TypeInv, TypeOK
  <2>. QED  BY <2>1, EmptySeq, LenProperties
<1>2. MaxInstances \in Nat
  BY CreatorSets
<1>3. PreRoom'
  BY <1>1, <1>2, Sizes DEF LengthInv, PreRoom
<1>4. ASSUME NEW i \in Instances PROVE LogRoom(i)'
  <2>1. /\ Len(logBuffer[i]) \in Nat /\ Len(logBuffer'[i]) \in Nat
        /\ Len(logBuffer'[i]) <= Len(logBuffer[i])
    <3>1. logBuffer[i] \in Seq(Messages) /\ logBuffer'[i] \in Seq(Messages)
      BY DEF TypeInv, TypeOK
    <3>. QED  BY <3>1, EmptySeq, LenProperties
  <2>2. Appending(i)' = Appending(i) /\ Copying(i)' = Copying(i)
    BY <1>2 DEF Instances
  <2>3. Limit * Cardinality(Copying(i)) \in Nat /\ Limit * (1 + Cardinality(Creators)) \in Nat
    BY Sizes, Products
  <2>4. Cardinality(Appending(i)) \in Nat
    BY Sizes
  <2>5. \A k, n, a, p, b \in Nat : n <= k /\ k + a + p <= b => n + a + p <= b
    OBVIOUS
  <2>6. Len(logBuffer[i]) + Cardinality(Appending(i)) + Limit * Cardinality(Copying(i))
           <= Limit * (1 + Cardinality(Creators))
    BY DEF LengthInv, LogRoom
  <2>7. Len(logBuffer'[i]) + Cardinality(Appending(i)) + Limit * Cardinality(Copying(i))
           <= Limit * (1 + Cardinality(Creators))
    BY <2>1, <2>3, <2>4, <2>5, <2>6
  <2>. QED  BY <2>2, <2>7 DEF LogRoom, Limit
<1>5. CopyRoom'
  BY <1>1, Sizes DEF LengthInv, PreRoom, CopyRoom
<1>. QED  BY <1>3, <1>4, <1>5 DEF LengthInv

LEMMA LogLength ==
  ASSUME TypeInv, TypeInv', LengthInv,
         NEW t \in Threads, e(t) \/ checkLength(t) \/ append(t)
  PROVE  LengthInv'
<1>. USE DEF createVars, getVars, destroyVars, bufVars, history
<1>1. /\ preLogBuffer \in Seq(Messages) /\ logBuffer \in [Instances -> Seq(Messages)]
      /\ epc \in [Threads -> {"idle", "check", "append"}]
      /\ target \in [Threads -> 0 .. MaxInstances]
      /\ MaxInstances \in Nat
  BY CreatorSets DEF TypeInv, TypeOK
<1>2. /\ cpc' = cpc /\ ctarget' = ctarget /\ copy' = copy
      /\ \A i : Copying(i)' = Copying(i)
  BY DEF e, checkLength, append, Copying
<1>3. CASE e(t)
  <2>1. \A i : Appending(i)' = Appending(i)
    BY <1>1, <1>3 DEF e, Appending
  <2>. QED  BY <1>2, <1>3, <2>1, ShorterLength DEF e
<1>4. CASE checkLength(t)
  <2>1. /\ epc[t] = "check" /\ epc' = [epc EXCEPT ![t] = "append"] /\ target' = target
        /\ TrimBuffer(target[t])
    BY <1>4 DEF checkLength
  <2>2. \A i : i # target[t] => Appending(i)' = Appending(i)
    BY <1>1, <2>1 DEF Appending
  <2>3. \A i : Appending(i)' \in SUBSET Threads /\ Copying(i)' \in SUBSET Creators
    BY DEF Appending, Copying
  <2>4. PreRoom'
    <3>1. CASE target[t] = 0
      <4>1. preLogBuffer' = Trim(preLogBuffer)
        BY <2>1, <3>1 DEF TrimBuffer
      <4>2. preLogBuffer' \in Seq(Messages) /\ Len(preLogBuffer') <= MAX_LENGTH
        BY <1>1, <4>1, TrimFacts
      <4>3. Len(preLogBuffer') + Cardinality(Appending(0)') <= Limit
        BY <4>2, <2>3, TrimmedRoom
      <4>. QED  BY <4>3 DEF PreRoom, Limit
    <3>2. CASE target[t] # 0
      <4>1. preLogBuffer' = preLogBuffer /\ Appending(0)' = Appending(0)
        BY <2>1, <2>2, <3>2 DEF TrimBuffer
      <4>. QED  BY <4>1 DEF PreRoom, Limit, LengthInv
    <3>. QED  BY <3>1, <3>2
  <2>5. ASSUME NEW i \in Instances PROVE LogRoom(i)'
    <3>1. CASE target[t] = i
      <4>1. logBuffer'[i] = Trim(logBuffer[i])
        BY <1>1, <2>1, <3>1 DEF TrimBuffer, Instances
      <4>2. logBuffer'[i] \in Seq(Messages) /\ Len(logBuffer'[i]) <= MAX_LENGTH
        BY <1>1, <4>1, TrimFacts
      <4>3. Len(logBuffer'[i]) + Cardinality(Appending(i)') + Limit * Cardinality(Copying(i)')
               <= Limit * (1 + Cardinality(Creators))
        BY <4>2, <2>3, TrimmedRoom
      <4>. QED  BY <4>3 DEF LogRoom, Limit
    <3>2. CASE target[t] # i
      <4>1. logBuffer'[i] = logBuffer[i] /\ Appending(i)' = Appending(i)
        BY <1>1, <2>1, <2>2, <3>2 DEF TrimBuffer
      <4>. QED  BY <4>1, <1>2 DEF LogRoom, Limit, LengthInv
    <3>. QED  BY <3>1, <3>2
  <2>6. CopyRoom'
    BY <1>2 DEF LengthInv, CopyRoom, Limit
  <2>. QED  BY <2>4, <2>5, <2>6 DEF LengthInv
<1>5. CASE append(t)
  <2>1. /\ epc[t] = "append" /\ epc' = [epc EXCEPT ![t] = "idle"]
        /\ target' = [target EXCEPT ![t] = 0]
    BY <1>5 DEF append
  <2>2. getFormatLog(t) \in Messages
    BY <1>5, AppendedIsMessage
  <2>3. \A i : /\ Appending(i)' = Appending(i) \ {t}
               /\ i # target[t] => Appending(i)' = Appending(i)
               /\ i = target[t] => t \in Appending(i)
    BY <1>1, <2>1 DEF Appending
  <2>4. \A i : IsFiniteSet(Appending(i))
    BY ThreadSets DEF Appending
  <2>5. \A i : i = target[t] => Cardinality(Appending(i)') = Cardinality(Appending(i)) - 1
    BY <2>3, <2>4, FS_RemoveElement
  <2>6. ASSUME NEW s \in Seq(Messages)
        PROVE  Len(s) \in Nat /\ Len(Append(s, getFormatLog(t))) = Len(s) + 1
    BY <2>2, AppendFacts, LenProperties
  <2>7. PreRoom'
    <3>1. CASE target[t] = 0
      <4>1. preLogBuffer' = Append(preLogBuffer, getFormatLog(t))
        BY <1>5, <3>1 DEF append
      <4>2. Len(preLogBuffer') = Len(preLogBuffer) + 1 /\ Len(preLogBuffer) \in Nat
        BY <1>1, <2>6, <4>1
      <4>. QED  BY <2>5, <3>1, <4>2, Sizes DEF PreRoom, LengthInv, Limit
    <3>2. CASE target[t] # 0
      <4>1. preLogBuffer' = preLogBuffer /\ Appending(0)' = Appending(0)
        BY <1>5, <2>3, <3>2 DEF append
      <4>. QED  BY <4>1 DEF PreRoom, Limit, LengthInv
    <3>. QED  BY <3>1, <3>2
  <2>8. ASSUME NEW i \in Instances PROVE LogRoom(i)'
    <3>1. CASE target[t] = i
      <4>1. logBuffer'[i] = Append(logBuffer[i], getFormatLog(t))
        BY <1>1, <1>5, <3>1 DEF append, Instances
      <4>2. Len(logBuffer'[i]) = Len(logBuffer[i]) + 1 /\ Len(logBuffer[i]) \in Nat
        BY <1>1, <2>6, <4>1
      <4>3. Len(logBuffer'[i]) + Cardinality(Appending(i)')
               = Len(logBuffer[i]) + Cardinality(Appending(i))
        BY <2>5, <3>1, <4>2, Sizes
      <4>. QED  BY <1>2, <4>3 DEF LogRoom, LengthInv, Limit
    <3>2. CASE target[t] # i
      <4>1. logBuffer'[i] = logBuffer[i] /\ Appending(i)' = Appending(i)
        BY <1>1, <1>5, <2>3, <3>2 DEF append
      <4>. QED  BY <4>1, <1>2 DEF LogRoom, Limit, LengthInv
    <3>. QED  BY <3>1, <3>2
  <2>9. CopyRoom'
    BY <1>2 DEF LengthInv, CopyRoom, Limit
  <2>. QED  BY <2>7, <2>8, <2>9 DEF LengthInv
<1>. QED  BY <1>3, <1>4, <1>5

LEMMA CreateLength ==
  ASSUME TypeInv, TypeInv', LengthInv, NEW c \in Creators,
         createInstance(c) \/ newInstance(c) \/ readTarget(c) \/ readPreLog(c)
            \/ checkCopy(c) \/ appendCopy(c) \/ clearPreLog(c) \/ returnInstance(c)
  PROVE  LengthInv'
<1>. USE DEF logVars, getVars, destroyVars, bufVars, history, Step
<1>1. /\ preLogBuffer \in Seq(Messages) /\ logBuffer \in [Instances -> Seq(Messages)]
      /\ cpc \in [Creators -> {"idle", "create", "target", "copy", "check", "append",
                               "clear", "return", "returned", "threw"}]
      /\ ctarget \in [Creators -> 0 .. MaxInstances]
      /\ copy \in [Creators -> Seq(Messages)]
      /\ MaxInstances \in Nat
  BY CreatorSets DEF TypeInv, TypeOK
<1>2. \A i : Appending(i)' = Appending(i)
  BY DEF Appending, createInstance, newInstance, readTarget, readPreLog, checkCopy,
         appendCopy, clearPreLog, returnInstance
<1>3. CASE createInstance(c) \/ newInstance(c) \/ readTarget(c) \/ readPreLog(c)
              \/ clearPreLog(c) \/ returnInstance(c)
  <2>1. \A i : Copying(i)' = Copying(i)
    BY <1>1, <1>3
    DEF Copying, createInstance, newInstance, readTarget, readPreLog, clearPreLog,
        returnInstance
  <2>2. /\ preLogBuffer' = preLogBuffer \/ preLogBuffer' = << >>
        /\ logBuffer' = logBuffer
    BY <1>3 DEF createInstance, newInstance, readTarget, readPreLog, clearPreLog,
                returnInstance
  <2>3. CASE readPreLog(c)
    <3>1. PreRoom' /\ (\A i \in Instances : LogRoom(i)')
      BY <1>2, <2>1, <2>3 DEF readPreLog, LengthInv, PreRoom, LogRoom, Limit
    <3>2. /\ Len(<< >>) = 0 /\ Len(preLogBuffer) \in Nat
          /\ Len(preLogBuffer) <= Limit /\ Limit \in Nat /\ Limit' = Limit
      BY <1>1, Sizes, LenProperties DEF LengthInv, PreRoom, Limit
    <3>3. CopyRoom'
      BY <1>1, <2>3, <3>2 DEF readPreLog, LengthInv, CopyRoom
    <3>. QED  BY <3>1, <3>3 DEF LengthInv
  <2>4. CASE ~readPreLog(c)
    <3>1. copy' = copy
      BY <1>3, <2>4
      DEF createInstance, newInstance, readTarget, clearPreLog, returnInstance
    <3>. QED  BY <1>2, <2>1, <2>2, <3>1, ShorterLength
  <2>. QED  BY <2>3, <2>4
<1>4. CASE checkCopy(c)
  <2>1. /\ cpc[c] = "check" /\ cpc' = [cpc EXCEPT ![c] = "append"] /\ ctarget' = ctarget
        /\ TrimBuffer(ctarget[c]) /\ copy' = copy /\ ctarget[c] # 0
    BY <1>4 DEF checkCopy, TypeInv, IndexInv
  <2>2. \A i : i # ctarget[c] => Copying(i)' = Copying(i)
    BY <1>1, <2>1 DEF Copying
  <2>3. \A i : Appending(i)' \in SUBSET Threads /\ Copying(i)' \in SUBSET Creators
    BY DEF Appending, Copying
  <2>4. PreRoom'
    BY <1>2, <2>1 DEF TrimBuffer, PreRoom, LengthInv, Limit
  <2>5. ASSUME NEW i \in Instances PROVE LogRoom(i)'
    <3>1. CASE ctarget[c] = i
      <4>1. logBuffer'[i] = Trim(logBuffer[i])
        BY <1>1, <2>1, <3>1 DEF TrimBuffer
      <4>2. logBuffer'[i] \in Seq(Messages) /\ Len(logBuffer'[i]) <= MAX_LENGTH
        BY <1>1, <4>1, TrimFacts
      <4>3. Len(logBuffer'[i]) + Cardinality(Appending(i)') + Limit * Cardinality(Copying(i)')
               <= Limit * (1 + Cardinality(Creators))
        BY <4>2, <2>3, TrimmedRoom
      <4>. QED  BY <4>3 DEF LogRoom, Limit
    <3>2. CASE ctarget[c] # i
      <4>1. logBuffer'[i] = logBuffer[i] /\ Copying(i)' = Copying(i)
        BY <1>1, <2>1, <2>2, <3>2 DEF TrimBuffer
      <4>. QED  BY <4>1, <1>2 DEF LogRoom, Limit, LengthInv
    <3>. QED  BY <3>1, <3>2
  <2>6. CopyRoom'
    BY <2>1 DEF LengthInv, CopyRoom, Limit
  <2>. QED  BY <2>4, <2>5, <2>6 DEF LengthInv
<1>5. CASE appendCopy(c)
  <2>1. /\ cpc[c] = "append" /\ cpc' = [cpc EXCEPT ![c] = "clear"]
        /\ ctarget' = [ctarget EXCEPT ![c] = 0] /\ copy' = [copy EXCEPT ![c] = << >>]
        /\ logBuffer' = [logBuffer EXCEPT ![ctarget[c]] = @ \o copy[c]]
        /\ preLogBuffer' = preLogBuffer
    BY <1>5 DEF appendCopy
  <2>2. \A i : /\ Copying(i)' = Copying(i) \ {c}
               /\ i # ctarget[c] => Copying(i)' = Copying(i)
               /\ i = ctarget[c] => c \in Copying(i)
    BY <1>1, <2>1 DEF Copying
  <2>3. PreRoom'
    BY <1>2, <2>1 DEF PreRoom, LengthInv, Limit
  <2>4. ASSUME NEW i \in Instances PROVE LogRoom(i)'
    <3>1. CASE ctarget[c] = i
      <4>1. Cardinality(Copying(i)') = Cardinality(Copying(i)) - 1
        <5>1. IsFiniteSet(Copying(i))
          BY CreatorSets DEF Copying
        <5>. QED  BY <2>2, <3>1, <5>1, FS_RemoveElement
      <4>2. /\ Len(logBuffer[i]) \in Nat /\ Len(copy[c]) \in Nat /\ Len(copy[c]) <= Limit
            /\ Len(logBuffer'[i]) = Len(logBuffer[i]) + Len(copy[c])
        <5>1. logBuffer[i] \in Seq(Messages) /\ copy[c] \in Seq(Messages)
          BY <1>1
        <5>2. logBuffer'[i] = logBuffer[i] \o copy[c]
          BY <1>1, <2>1, <3>1
        <5>. QED  BY <5>1, <5>2, ConcatFacts, LenProperties DEF LengthInv, CopyRoom
      <4>3. PICK n \in Nat : n = Cardinality(Copying(i)')
        BY Sizes, <4>1, <2>2, CreatorSets DEF Copying
      <4>4. Cardinality(Copying(i)) = n + 1
        BY <4>1, <4>3, Sizes
      <4>5. Limit * n \in Nat /\ Limit * Cardinality(Copying(i)) = Limit * n + Limit
        BY <4>3, <4>4, Products
      <4>6. \A k, m, a, p, b \in Nat :
               m <= Limit /\ k + a + (p + Limit) <= b => (k + m) + a + p <= b
        BY Sizes
      <4>7. Limit * (1 + Cardinality(Creators)) \in Nat
        BY Sizes, Products
      <4>8. Len(logBuffer[i]) + Cardinality(Appending(i)) + (Limit * n + Limit)
              <= Limit * (1 + Cardinality(Creators))
        BY <4>5 DEF LengthInv, LogRoom
      <4>9. (Len(logBuffer[i]) + Len(copy[c])) + Cardinality(Appending(i)) + Limit * n
              <= Limit * (1 + Cardinality(Creators))
        <5>1. Cardinality(Appending(i)) \in Nat
          BY Sizes
        <5>2. PICK k \in Nat, m \in Nat, a \in Nat, p \in Nat, b \in Nat :
                 /\ k = Len(logBuffer[i]) /\ m = Len(copy[c])
                 /\ a = Cardinality(Appending(i)) /\ p = Limit * n
                 /\ b = Limit * (1 + Cardinality(Creators))
          BY <4>2, <4>5, <4>7, <5>1, Zenon
        <5>3. m <= Limit /\ k + a + (p + Limit) <= b
          BY <4>2, <4>8, <5>2, Zenon
        <5>4. (k + m) + a + p <= b
          BY <4>6, <5>3
        <5>. QED  BY <5>2, <5>4, Zenon
      <4>. QED  BY <1>2, <4>2, <4>3, <4>9 DEF LogRoom, Limit
    <3>2. CASE ctarget[c] # i
      <4>1. logBuffer'[i] = logBuffer[i] /\ Copying(i)' = Copying(i)
        BY <1>1, <2>1, <2>2, <3>2
      <4>. QED  BY <4>1, <1>2 DEF LogRoom, Limit, LengthInv
    <3>. QED  BY <3>1, <3>2
  <2>5. CopyRoom'
    <3>1. Len(<< >>) = 0 /\ Limit \in Nat /\ Limit' = Limit
      BY Sizes DEF Limit
    <3>. QED  BY <1>1, <2>1, <3>1 DEF LengthInv, CopyRoom
  <2>. QED  BY <2>3, <2>4, <2>5 DEF LengthInv
<1>. QED  BY <1>3, <1>4, <1>5

LEMMA ReadLength ==
  ASSUME TypeInv, TypeInv', LengthInv,
         ReadStep \/ UNCHANGED vars
  PROVE  LengthInv'
<1>. USE DEF logVars, createVars, getVars, destroyVars, bufVars, history, ClearLog
<1>1. UNCHANGED <<copy, epc, target, cpc, ctarget>>
  BY DEF ReadStep, getLogs, returnLogs, destory, destoryLog, destoryPreLog, vars
<1>2. \A i : Appending(i)' = Appending(i) /\ Copying(i)' = Copying(i)
  BY <1>1 DEF Appending, Copying
<1>3. /\ preLogBuffer' = preLogBuffer \/ preLogBuffer' = << >>
      /\ \A i \in Instances : logBuffer'[i] = logBuffer[i] \/ logBuffer'[i] = << >>
  BY DEF ReadStep, getLogs, returnLogs, destory, destoryLog, destoryPreLog, vars, TypeInv,
         TypeOK
<1>. QED  BY <1>1, <1>2, <1>3, ShorterLength

\* Without a lock around test and append, a buffer outgrows MAX_LENGTH by no
\* more than one message for each thread, and that of an instance by the copies
\* that the calls of createInstance add.
THEOREM BoundedCorrect == Spec => []Bounded
<1>1. TypeInv /\ LengthInv /\ [Next]_vars => LengthInv'
  <2>. SUFFICES ASSUME TypeInv, LengthInv, [Next]_vars PROVE LengthInv'
    OBVIOUS
  <2>1. TypeInv'
    BY NextTypes
  <2>. QED  BY <2>1, LogLength, CreateLength, ReadLength DEF Next, ReadStep
<1>2. TypeInv /\ LengthInv => Bounded
  <2>. SUFFICES ASSUME TypeInv, LengthInv PROVE Bounded
    OBVIOUS
  <2>1. Len(preLogBuffer) <= Limit
    <3>1. Len(preLogBuffer) \in Nat
      BY LenProperties DEF TypeInv, TypeOK
    <3>. QED  BY <3>1, Sizes DEF LengthInv, PreRoom
  <2>2. ASSUME NEW i \in Instances
        PROVE  Len(logBuffer[i]) <= Limit * (1 + Cardinality(Creators))
    <3>1. Len(logBuffer[i]) \in Nat
      BY LenProperties DEF TypeInv, TypeOK
    <3>2. /\ Cardinality(Appending(i)) \in Nat /\ Limit * Cardinality(Copying(i)) \in Nat
          /\ Limit * (1 + Cardinality(Creators)) \in Nat
      BY Sizes, Products
    <3>3. \A k, a, p, b \in Nat : k + a + p <= b => k <= b
      OBVIOUS
    <3>. QED  BY <3>1, <3>2, <3>3 DEF LengthInv, LogRoom
  <2>. QED  BY <2>1, <2>2 DEF Bounded, Limit
<1>. QED  BY <1>1, <1>2, InitLength, TypesHold, PTL DEF Spec

-----------------------------------------------------------------------------
(* Where a message is that has been logged.  Whoever is going to empty a     *)
(* buffer has moved all of it, unless one of the losses has happened.        *)

InLogs == UNION {Range(logBuffer[i]) : i \in Instances}

KeptInv == ~gap =>
    /\ \A d \in Destroyers : dpc[d] = "idle"
    /\ \A g \in Readers : gpc[g] # 0 => Range(logBuffer[gpc[g]]) \subseteq Range(read[g])
    /\ Logged \subseteq Held \cup Range(got)
    /\ \A c \in Creators :
          /\ cpc[c] \in {"check", "append"} => Range(preLogBuffer) \subseteq Range(copy[c])
          /\ cpc[c] = "clear" => Range(preLogBuffer) \subseteq InLogs \cup Range(got)

LEMMA InstanceNumbers ==
  ASSUME TypeOK
  PROVE  /\ \A g \in Readers : gpc[g] # 0 => gpc[g] \in Instances
         /\ \A t \in Threads : target[t] # 0 => target[t] \in Instances
         /\ \A c \in Creators : ctarget[c] # 0 => ctarget[c] \in Instances
<1>1. MaxInstances \in Nat
  BY CreatorSets
<1>. QED  BY <1>1 DEF TypeOK, Instances

LEMMA HeldParts ==
  /\ Held = Range(preLogBuffer) \cup InLogs
  /\ Held' = Range(preLogBuffer') \cup InLogs'
  BY DEF Held, InLogs

LEMMA SameLogged ==
  ASSUME TypeInv,
         \/ sent' = sent /\ epc' = epc
         \/ \E t \in Threads : e(t) \/ checkLength(t)
  PROVE  Logged' = Logged
<1>1. /\ epc \in [Threads -> {"idle", "check", "append"}]
      /\ sent \in [Threads -> 0 .. MaxMessages] /\ MaxMessages \in Nat
  BY BoundsAssumption DEF TypeInv, TypeOK
<1>2. CASE sent' = sent /\ epc' = epc
  BY <1>2 DEF Logged
<1>3. ASSUME NEW t \in Threads, e(t) PROVE Logged' = Logged
  <2>1. /\ epc[t] = "idle" /\ epc' = [epc EXCEPT ![t] = "check"]
        /\ sent' = [sent EXCEPT ![t] = sent[t] + 1]
    BY <1>3 DEF e
  <2>2. ASSUME NEW msg \in Messages
        PROVE  (msg[2] <= sent'[msg[1]] /\ (msg[2] = sent'[msg[1]] => epc'[msg[1]] = "idle"))
               <=> (msg[2] <= sent[msg[1]] /\ (msg[2] = sent[msg[1]] => epc[msg[1]] = "idle"))
    <3>1. msg[1] \in Threads /\ msg[2] \in Nat
      BY <1>1 DEF Messages
    <3>2. CASE msg[1] = t
      BY <1>1, <2>1, <3>1, <3>2
    <3>3. CASE msg[1] # t
      BY <1>1, <2>1, <3>1, <3>3
    <3>. QED  BY <3>2, <3>3
  <2>. QED  BY <2>2 DEF Logged, Messages
<1>4. ASSUME NEW t \in Threads, checkLength(t) PROVE Logged' = Logged
  BY <1>1, <1>4 DEF checkLength, Logged, Messages
<1>. QED  BY <1>2, <1>3, <1>4

LEMMA AppendLogs ==
  ASSUME TypeInv, NEW t \in Threads, append(t)
  PROVE  /\ getFormatLog(t) \notin Logged
         /\ Logged' = Logged \cup {getFormatLog(t)}
<1>1. /\ epc \in [Threads -> {"idle", "check", "append"}]
      /\ sent \in [Threads -> 0 .. MaxMessages] /\ MaxMessages \in Nat
  BY BoundsAssumption DEF TypeInv, TypeOK
<1>2. /\ epc[t] = "append" /\ epc' = [epc EXCEPT ![t] = "idle"] /\ sent' = sent
  BY DEF append
<1>3. getFormatLog(t) \in Messages
  BY AppendedIsMessage
<1>4. getFormatLog(t) \notin Logged
  BY <1>2 DEF Logged, getFormatLog
<1>5. ASSUME NEW msg \in Messages PROVE msg \in Logged' <=> msg \in Logged \/ msg = getFormatLog(t)
  <2>1. msg[1] \in Threads /\ msg[2] \in Nat /\ msg = <<msg[1], msg[2]>>
    BY <1>1 DEF Messages
  <2>2. msg = getFormatLog(t) <=> msg[1] = t /\ msg[2] = sent[t]
    BY <2>1 DEF getFormatLog
  <2>3. CASE msg[1] = t
    BY <1>1, <1>2, <2>1, <2>2, <2>3 DEF Logged, Messages
  <2>4. CASE msg[1] # t
    BY <1>1, <1>2, <2>1, <2>2, <2>4 DEF Logged, Messages
  <2>. QED  BY <2>3, <2>4
<1>6. Logged \subseteq Messages /\ Logged' \subseteq Messages
  BY DEF Logged, Messages
<1>. QED  BY <1>3, <1>4, <1>5, <1>6

LEMMA InitKept == Init => KeptInv
<1>. SUFFICES ASSUME Init PROVE KeptInv
  OBVIOUS
<1>1. Logged = {}
  <2>1. \A msg \in Messages : msg[1] \in Threads /\ msg[2] \in Nat /\ msg[2] # 0
    BY BoundsAssumption DEF Messages
  <2>. QED  BY <2>1 DEF Logged, Init
<1>. QED  BY <1>1 DEF Init, KeptInv

\* The block that tests a length changes nothing, or is one of the losses.
LEMMA TrimKept ==
  ASSUME NEW i, TrimBuffer(i), ~gap'
  PROVE  ~gap /\ preLogBuffer' = preLogBuffer /\ logBuffer' = logBuffer
  BY Zenon DEF TrimBuffer

LEMMA LogKept ==
  ASSUME TypeInv, TypeInv', KeptInv,
         NEW t \in Threads, e(t) \/ checkLength(t) \/ append(t)
  PROVE  KeptInv'
<1>. SUFFICES ASSUME ~gap' PROVE KeptInv'
  BY DEF KeptInv
<1>. USE DEF createVars, getVars, destroyVars, bufVars, history
<1>1. CASE e(t) \/ checkLength(t)
  <2>1. Logged' = Logged
    BY <1>1, SameLogged
  <2>2. ~gap /\ preLogBuffer' = preLogBuffer /\ logBuffer' = logBuffer
    <3>1. CASE e(t)  BY <3>1 DEF e
    <3>2. CASE checkLength(t)  BY <3>2, TrimKept DEF checkLength
    <3>. QED  BY <1>1, <3>1, <3>2
  <2>3. UNCHANGED <<cpc, copy, gpc, read, got, dpc>>
    BY <1>1 DEF e, checkLength
  <2>4. InLogs' = InLogs /\ Held' = Held
    BY <2>2 DEF InLogs, Held
  <2>. QED  BY <2>1, <2>2, <2>3, <2>4 DEF KeptInv
<1>2. CASE append(t)
  <2>1. Logged' = Logged \cup {getFormatLog(t)} /\ getFormatLog(t) \in Messages
    BY <1>2, AppendLogs, AppendedIsMessage
  <2>2. /\ UNCHANGED <<cpc, copy, gpc, read, got, dpc>>
        /\ ~gap /\ ~ToBeEmptied(target[t])
    BY <1>2, Zenon DEF append
  <2>3. /\ preLogBuffer \in Seq(Messages) /\ logBuffer \in [Instances -> Seq(Messages)]
        /\ logBuffer' \in [Instances -> Seq(Messages)]
    BY DEF TypeInv, TypeOK
  <2>4. CASE target[t] = 0
    <3>1. preLogBuffer' = Append(preLogBuffer, getFormatLog(t)) /\ logBuffer' = logBuffer
      BY <1>2, <2>4 DEF append
    <3>2. Range(preLogBuffer') = Range(preLogBuffer) \cup {getFormatLog(t)}
      BY <2>1, <2>3, <3>1, AppendFacts
    <3>3. \A c \in Creators : cpc[c] \notin {"check", "append", "clear"}
      BY <2>2, <2>4 DEF ToBeEmptied
    <3>4. InLogs' = InLogs
      BY <3>1 DEF InLogs
    <3>5. Logged' \subseteq Held' \cup Range(got')
      BY <2>1, <2>2, <3>2, <3>4, HeldParts DEF KeptInv
    <3>. QED  BY <2>2, <3>1, <3>3, <3>5 DEF KeptInv
  <2>5. CASE target[t] # 0
    <3>. PICK i \in Instances : i = target[t]
      BY <2>5, InstanceNumbers DEF TypeInv
    <3>1. /\ preLogBuffer' = preLogBuffer
          /\ logBuffer' = [logBuffer EXCEPT ![i] = Append(logBuffer[i], getFormatLog(t))]
      BY <1>2, <2>5 DEF append
    <3>2. Range(logBuffer'[i]) = Range(logBuffer[i]) \cup {getFormatLog(t)}
      BY <2>1, <2>3, <3>1, AppendFacts
    <3>3. \A j \in Instances : j # i => logBuffer'[j] = logBuffer[j]
      BY <2>3, <3>1
    <3>4. InLogs' = InLogs \cup {getFormatLog(t)}
      BY <3>2, <3>3 DEF InLogs
    <3>5. \A g \in Readers : gpc[g] # i /\ (gpc[g] # 0 => gpc[g] \in Instances)
      BY <2>2, <2>5, InstanceNumbers DEF ToBeEmptied, BeingRead, TypeInv
    <3>6. Logged' \subseteq Held' \cup Range(got')
      BY <2>1, <2>2, <3>1, <3>4, HeldParts DEF KeptInv
    <3>. QED  BY <2>2, <2>3, <3>1, <3>3, <3>4, <3>5, <3>6 DEF KeptInv
  <2>. QED  BY <2>4, <2>5
<1>. QED  BY <1>1, <1>2

LEMMA CreateKept ==
  ASSUME TypeInv, TypeInv', KeptInv, NEW c \in Creators,
         createInstance(c) \/ newInstance(c) \/ readTarget(c) \/ readPreLog(c)
            \/ checkCopy(c) \/ appendCopy(c) \/ clearPreLog(c) \/ returnInstance(c)
  PROVE  KeptInv'
<1>. SUFFICES ASSUME ~gap' PROVE KeptInv'
  BY DEF KeptInv
<1>. USE DEF logVars, getVars, destroyVars, bufVars, history, Step
<1>1. /\ UNCHANGED <<gpc, read, got, dpc>> /\ Logged' = Logged /\ ~gap
  <2>1. UNCHANGED <<gpc, read, got, dpc, sent, epc>>
    BY DEF createInstance, newInstance, readTarget, readPreLog, checkCopy, appendCopy,
           clearPreLog, returnInstance
  <2>2. ~gap
    BY TrimKept, Zenon
    DEF createInstance, newInstance, readTarget, readPreLog, checkCopy, appendCopy,
        clearPreLog, returnInstance
  <2>. QED  BY <2>1, <2>2, SameLogged
<1>2. /\ preLogBuffer \in Seq(Messages) /\ logBuffer \in [Instances -> Seq(Messages)]
      /\ cpc \in [Creators -> {"idle", "create", "target", "copy", "check", "append",
                               "clear", "return", "returned", "threw"}]
      /\ copy \in [Creators -> Seq(Messages)]
      /\ logBuffer' \in [Instances -> Seq(Messages)]
  BY DEF TypeInv, TypeOK
<1>3. CASE createInstance(c) \/ newInstance(c) \/ readTarget(c) \/ returnInstance(c)
  <2>1. UNCHANGED <<preLogBuffer, logBuffer, copy>>
    BY <1>3 DEF createInstance, newInstance, readTarget, returnInstance
  <2>2. \A d \in Creators : cpc'[d] = cpc[d] \/ cpc'[d] \notin {"check", "append", "clear"}
    BY <1>2, <1>3 DEF createInstance, newInstance, readTarget, returnInstance
  <2>3. InLogs' = InLogs /\ Held' = Held
    BY <2>1 DEF InLogs, Held
  <2>. QED  BY <1>1, <2>1, <2>2, <2>3 DEF KeptInv
<1>4. CASE readPreLog(c)
  <2>1. UNCHANGED <<preLogBuffer, logBuffer>>
    BY <1>4 DEF readPreLog
  <2>2. /\ cpc'[c] = "threw" \/ (cpc'[c] = "check" /\ copy'[c] = preLogBuffer)
        /\ \A d \in Creators : d # c => cpc'[d] = cpc[d] /\ copy'[d] = copy[d]
    <3>1. CASE ctarget[c] = 0  BY <1>2, <1>4, <3>1 DEF readPreLog
    <3>2. CASE ctarget[c] # 0  BY <1>2, <1>4, <3>2 DEF readPreLog
    <3>. QED  BY <3>1, <3>2
  <2>3. InLogs' = InLogs /\ Held' = Held
    BY <2>1 DEF InLogs, Held
  <2>. QED  BY <1>1, <2>1, <2>2, <2>3 DEF KeptInv
<1>5. CASE checkCopy(c)
  <2>1. UNCHANGED <<preLogBuffer, logBuffer, copy>>
    BY <1>5, TrimKept DEF checkCopy
  <2>2. /\ cpc[c] = "check" /\ cpc'[c] = "append"
        /\ \A d \in Creators : d # c => cpc'[d] = cpc[d]
    BY <1>2, <1>5 DEF checkCopy
  <2>3. InLogs' = InLogs /\ Held' = Held
    BY <2>1 DEF InLogs, Held
  <2>. QED  BY <1>1, <2>1, <2>2, <2>3 DEF KeptInv
<1>6. CASE appendCopy(c)
  <2>1. /\ cpc[c] = "append" /\ cpc'[c] = "clear" /\ preLogBuffer' = preLogBuffer
        /\ \A d \in Creators : d # c => cpc'[d] = cpc[d] /\ copy'[d] = copy[d]
        /\ logBuffer' = [logBuffer EXCEPT ![ctarget[c]] = @ \o copy[c]]
    BY <1>2, <1>6 DEF appendCopy
  <2>2. copy[c] = << >> \/ \A g \in Readers : gpc[g] # ctarget[c]
    BY <1>6, Zenon DEF appendCopy, BeingRead
  <2>. PICK i \in Instances : i = ctarget[c]
    BY <2>1, InstanceNumbers DEF TypeInv, IndexInv
  <2>3. /\ logBuffer'[i] = logBuffer[i] \o copy[c]
        /\ Range(logBuffer'[i]) = Range(logBuffer[i]) \cup Range(copy[c])
        /\ \A j \in Instances : j # i => logBuffer'[j] = logBuffer[j]
    BY <1>2, <2>1, ConcatFacts
  <2>4. InLogs' = InLogs \cup Range(copy[c])
    <3>1. \A j \in Instances : Range(logBuffer'[j]) =
             IF j = i THEN Range(logBuffer[j]) \cup Range(copy[c]) ELSE Range(logBuffer[j])
      BY <2>3
    <3>. QED  BY <3>1 DEF InLogs
  <2>5. ASSUME NEW g \in Readers, gpc[g] # 0
        PROVE  Range(logBuffer'[gpc[g]]) \subseteq Range(read[g])
    <3>1. Range(logBuffer[gpc[g]]) \subseteq Range(read[g])
      BY <1>1, <2>5 DEF KeptInv
    <3>2. CASE gpc[g] = i
      <4>1. Range(copy[c]) = {}
        BY <2>2, <3>2, RangeEmpty
      <4>. QED  BY <2>3, <3>1, <3>2, <4>1
    <3>3. CASE gpc[g] # i
      BY <2>3, <2>5, <3>1, <3>3, InstanceNumbers DEF TypeInv
    <3>. QED  BY <3>2, <3>3
  <2>6. Range(preLogBuffer) \subseteq Range(copy[c])
    BY <1>1, <2>1 DEF KeptInv
  <2>7. Logged' \subseteq Held' \cup Range(got')
    BY <1>1, <2>1, <2>4, HeldParts DEF KeptInv
  <2>. QED  BY <1>1, <2>1, <2>4, <2>5, <2>6, <2>7 DEF KeptInv
<1>7. CASE clearPreLog(c)
  <2>1. /\ cpc[c] = "clear" /\ cpc'[c] = "return" /\ preLogBuffer' = << >>
        /\ \A d \in Creators : d # c => cpc'[d] = cpc[d]
        /\ UNCHANGED <<logBuffer, copy>>
    BY <1>2, <1>7 DEF clearPreLog
  <2>2. InLogs' = InLogs
    BY <2>1 DEF InLogs
  <2>3. Range(preLogBuffer) \subseteq InLogs \cup Range(got) /\ Range(preLogBuffer') = {}
    BY <1>1, <2>1, RangeEmpty DEF KeptInv
  <2>4. Logged' \subseteq Held' \cup Range(got')
    BY <1>1, <2>2, <2>3, HeldParts DEF KeptInv
  <2>. QED  BY <1>1, <2>1, <2>2, <2>3, <2>4 DEF KeptInv
<1>. QED  BY <1>3, <1>4, <1>5, <1>6, <1>7

LEMMA ReadKept ==
  ASSUME TypeInv, TypeInv', KeptInv,
         ReadStep \/ UNCHANGED vars
  PROVE  KeptInv'
<1>. SUFFICES ASSUME ~gap' PROVE KeptInv'
  BY DEF KeptInv
<1>. USE DEF logVars, createVars, getVars, destroyVars, bufVars, history, ClearLog
<1>1. /\ UNCHANGED <<cpc, copy>> /\ Logged' = Logged
  <2>1. UNCHANGED <<cpc, copy, sent, epc>>
    BY DEF ReadStep, getLogs, returnLogs, destory, destoryLog, destoryPreLog, vars
  <2>. QED  BY <2>1, SameLogged
<1>2. /\ logBuffer \in [Instances -> Seq(Messages)] /\ read \in [Readers -> Seq(Messages)]
      /\ gpc \in [Readers -> 0 .. MaxInstances] /\ got \in Seq(Messages)
  BY DEF TypeInv, TypeOK
<1>3. ASSUME NEW g \in Readers, getLogs(g) PROVE KeptInv'
  <2>1. UNCHANGED <<preLogBuffer, logBuffer, got, dpc, gap>>
    BY <1>3 DEF getLogs
  <2>2. /\ read'[g] = logBuffer[gpc'[g]]
        /\ \A h \in Readers : h # g => gpc'[h] = gpc[h] /\ read'[h] = read[h]
    BY <1>2, <1>3 DEF getLogs
  <2>3. InLogs' = InLogs /\ Held' = Held
    BY <2>1 DEF InLogs, Held
  <2>. QED  BY <1>1, <2>1, <2>2, <2>3 DEF KeptInv
<1>4. ASSUME NEW g \in Readers, returnLogs(g) PROVE KeptInv'
  <2>1. /\ gpc[g] # 0 /\ gpc' = [gpc EXCEPT ![g] = 0] /\ read' = [read EXCEPT ![g] = << >>]
        /\ got' = got \o read[g]
        /\ logBuffer' = [logBuffer EXCEPT ![gpc[g]] = << >>]
        /\ UNCHANGED <<preLogBuffer, dpc, gap>>
    BY <1>4 DEF returnLogs, Logs
  <2>2. Range(got') = Range(got) \cup Range(read[g])
    BY <1>2, <2>1, ConcatFacts
  <2>3. Range(logBuffer[gpc[g]]) \subseteq Range(read[g])
    BY <2>1 DEF KeptInv
  <2>4. InLogs \cup Range(got) \subseteq InLogs' \cup Range(got')
    <3>1. \A j \in Instances : j # gpc[g] => logBuffer'[j] = logBuffer[j]
      BY <1>2, <2>1
    <3>2. \A j \in Instances : Range(logBuffer[j]) \subseteq InLogs' \cup Range(got')
      BY <2>2, <2>3, <3>1 DEF InLogs
    <3>. QED  BY <2>2, <3>2 DEF InLogs
  <2>5. Logged' \subseteq Held' \cup Range(got')
    BY <1>1, <2>1, <2>4, HeldParts DEF KeptInv
  <2>6. ASSUME NEW h \in Readers, gpc'[h] # 0
        PROVE  Range(logBuffer'[gpc'[h]]) \subseteq Range(read'[h])
    <3>1. h # g /\ gpc'[h] = gpc[h] /\ read'[h] = read[h] /\ gpc[h] \in Instances
      BY <1>2, <2>1, <2>6, InstanceNumbers DEF TypeInv
    <3>2. logBuffer'[gpc[h]] = logBuffer[gpc[h]] \/ logBuffer'[gpc[h]] = << >>
      BY <1>2, <2>1, <3>1
    <3>. QED  BY <2>1, <2>6, <3>1, <3>2, RangeEmpty DEF KeptInv
  <2>. QED  BY <1>1, <2>1, <2>4, <2>5, <2>6 DEF KeptInv
<1>5. ASSUME NEW d \in Destroyers, destory(d) PROVE KeptInv'
  BY <1>5 DEF destory
<1>6. ASSUME NEW d \in Destroyers, destoryLog(d) \/ destoryPreLog(d) PROVE KeptInv'
  BY <1>6 DEF destoryLog, destoryPreLog, DestroyStep, KeptInv
<1>7. CASE UNCHANGED vars
  <2>1. UNCHANGED <<preLogBuffer, logBuffer, got, dpc, gap, gpc, read>>
    BY <1>7 DEF vars
  <2>2. InLogs' = InLogs /\ Held' = Held
    BY <2>1 DEF InLogs, Held
  <2>. QED  BY <1>1, <2>1, <2>2 DEF KeptInv
<1>. QED  BY <1>3, <1>4, <1>5, <1>6, <1>7 DEF ReadStep

\* A message whose call of e has returned is in a buffer or has been returned by
\* getLogs, as long as no buffer was emptied for its length, destory has not been
\* called and nothing was added between the reading and the emptying of a buffer.
THEOREM NothingElseLost == Spec => []LostOnlyInGap
<1>1. TypeInv /\ KeptInv /\ [Next]_vars => KeptInv'
  BY NextTypes, LogKept, CreateKept, ReadKept DEF Next, ReadStep
<1>2. KeptInv => LostOnlyInGap
  BY DEF KeptInv, LostOnlyInGap
<1>. QED  BY <1>1, <1>2, InitKept, TypesHold, PTL DEF Spec

-----------------------------------------------------------------------------
(* Each message once.  What is stored has been logged, so what a thread adds *)
(* is nowhere yet.  Two buffers have a message in common only between the    *)
(* two steps of moving it: what getLogs has read is still in its buffer, and *)
(* what a creator has appended still in the first one.  Two moves of one     *)
(* buffer at the same time are the overlap that the property excepts.        *)

StoredInv ==
    /\ Range(preLogBuffer) \subseteq Logged
    /\ \A i \in Instances : Range(logBuffer[i]) \subseteq Logged
    /\ \A c \in Creators : Range(copy[c]) \subseteq Logged
    /\ \A g \in Readers : /\ Range(read[g]) \subseteq Logged
                          /\ gpc[g] = 0 => read[g] = << >>
    /\ Range(got) \subseteq Logged
    /\ \A c \in Creators : copy[c] # << >> => cpc[c] \in {"check", "append"}

CreatorSteps == {"idle", "create", "target", "copy", "check", "append", "clear", "return",
                 "returned", "threw"}

Apart(s, u) == Range(s) \cap Range(u) = {}
Clearing == \E c \in Creators : cpc[c] = "clear"

OneCreator == \A c, d \in Creating : c = d
OneReader == \A g, h \in Readers : gpc[g] = gpc[h] /\ gpc[g] # 0 => g = h

NoRepeats ==
    /\ NoRepeat(preLogBuffer) /\ NoRepeat(got)
    /\ \A g \in Readers : NoRepeat(read[g])
    /\ \A i \in Instances : NoRepeat(logBuffer[i])
    /\ \A c \in Creators : NoRepeat(copy[c])

LogsApart ==
    /\ \A i, j \in Instances : i # j => Apart(logBuffer[i], logBuffer[j])
    /\ \A i \in Instances : Apart(logBuffer[i], got)

ReadsApart == \A g \in Readers :
    /\ \A i \in Instances : i # gpc[g] => Apart(logBuffer[i], read[g])
    /\ \A h \in Readers : g # h => Apart(read[g], read[h])
    /\ Apart(read[g], got)

CopiesApart == \A c \in Creators :
    /\ \A i \in Instances : Apart(logBuffer[i], copy[c])
    /\ \A g \in Readers : Apart(copy[c], read[g])
    /\ Apart(copy[c], got)

PreApart == ~Clearing =>
    /\ \A i \in Instances : Apart(logBuffer[i], preLogBuffer)
    /\ \A g \in Readers : Apart(preLogBuffer, read[g])
    /\ Apart(preLogBuffer, got)

OnceInv == ~overlap =>
    /\ OneCreator /\ OneReader
    /\ NoRepeats /\ LogsApart /\ ReadsApart /\ CopiesApart /\ PreApart

LEMMA LoggedGrows ==
  ASSUME TypeInv, [Next]_vars
  PROVE  Logged \subseteq Logged'
<1>1. ASSUME NEW t \in Threads, append(t) PROVE Logged \subseteq Logged'
  BY <1>1, AppendLogs
<1>2. ASSUME NEW t \in Threads, e(t) \/ checkLength(t) PROVE Logged \subseteq Logged'
  BY <1>2, SameLogged
<1>3. ASSUME sent' = sent /\ epc' = epc PROVE Logged \subseteq Logged'
  BY <1>3, SameLogged
<1>4. ASSUME NEW c \in Creators,
             createInstance(c) \/ newInstance(c) \/ readTarget(c) \/ readPreLog(c)
                \/ checkCopy(c) \/ appendCopy(c) \/ clearPreLog(c) \/ returnInstance(c)
      PROVE  sent' = sent /\ epc' = epc
  BY <1>4 DEF createInstance, newInstance, readTarget, readPreLog, checkCopy, appendCopy,
              clearPreLog, returnInstance, logVars
<1>5. ASSUME ReadStep \/ UNCHANGED vars
      PROVE  sent' = sent /\ epc' = epc
  BY <1>5 DEF ReadStep, getLogs, returnLogs, destory, destoryLog, destoryPreLog, vars, logVars
<1>. QED  BY <1>1, <1>2, <1>3, <1>4, <1>5 DEF Next, ReadStep

LEMMA InitOnce == Init => StoredInv /\ OnceInv
<1>. SUFFICES ASSUME Init PROVE StoredInv /\ OnceInv
  OBVIOUS
<1>1. /\ preLogBuffer = << >> /\ got = << >>
      /\ \A g \in Readers : read[g] = << >> /\ gpc[g] = 0
      /\ \A i \in Instances : logBuffer[i] = << >>
      /\ \A c \in Creators : copy[c] = << >>
      /\ Creating = {}
  BY DEF Init, Creating
<1>2. StoredInv
  BY <1>1, RangeEmpty DEF StoredInv
<1>3. NoRepeats /\ OneCreator /\ OneReader
  BY <1>1, RangeEmpty DEF NoRepeats, OneCreator, OneReader
<1>4. LogsApart /\ ReadsApart /\ CopiesApart /\ PreApart
  BY <1>1, RangeEmpty DEF LogsApart, ReadsApart, CopiesApart, PreApart, Apart
<1>. QED  BY <1>2, <1>3, <1>4 DEF OnceInv

\* The steps that at most empty something.
LEMMA FewerOnce ==
  ASSUME StoredInv, OnceInv, Logged \subseteq Logged', ~overlap' => ~overlap,
         ~overlap' => OneCreator',
         preLogBuffer' = preLogBuffer \/ preLogBuffer' = << >>,
         \A i \in Instances : logBuffer'[i] = logBuffer[i] \/ logBuffer'[i] = << >>,
         UNCHANGED <<gpc, read, got>>,
         \A c \in Creators : copy'[c] = copy[c] \/ copy'[c] = << >>,
         \A c \in Creators : cpc[c] \in {"check", "append"} =>
                                cpc'[c] \in {"check", "append"} \/ copy'[c] = << >>,
         Clearing /\ ~Clearing' => preLogBuffer' = << >>
  PROVE  StoredInv' /\ OnceInv'
<1>1. StoredInv'
  BY RangeEmpty DEF StoredInv
<1>. SUFFICES ASSUME ~overlap' PROVE OnceInv'
  BY <1>1 DEF OnceInv
<1>2. OneReader /\ NoRepeats /\ LogsApart /\ ReadsApart /\ CopiesApart /\ PreApart
  BY DEF OnceInv
<1>3. NoRepeats'
  BY <1>2, RangeEmpty DEF NoRepeats
<1>4. LogsApart'
  BY <1>2, RangeEmpty DEF LogsApart, Apart
<1>5. CopiesApart'
  BY <1>2, RangeEmpty DEF CopiesApart, Apart
<1>6. PreApart'
  BY <1>2, RangeEmpty DEF PreApart, Apart
<1>7. OneReader' /\ ReadsApart'
  BY <1>2, RangeEmpty DEF OneReader, ReadsApart, Apart
<1>. QED  BY <1>3, <1>4, <1>5, <1>6, <1>7 DEF OnceInv

LEMMA LogOnce ==
  ASSUME TypeInv, StoredInv, OnceInv, Logged \subseteq Logged',
         NEW t \in Threads, e(t) \/ checkLength(t) \/ append(t)
  PROVE  StoredInv' /\ OnceInv'
<1>. USE DEF createVars, getVars, destroyVars, bufVars, history
<1>1. /\ UNCHANGED <<cpc, copy, gpc, read, got, overlap>>
      /\ Clearing' = Clearing /\ OneCreator' = OneCreator /\ OneReader' = OneReader
  BY DEF e, checkLength, append, Clearing, OneCreator, OneReader, Creating
<1>2. /\ preLogBuffer \in Seq(Messages) /\ logBuffer \in [Instances -> Seq(Messages)]
  BY DEF TypeInv, TypeOK
<1>3. CASE e(t) \/ checkLength(t)
  <2>1. CASE e(t)
    BY <1>1, <2>1, FewerOnce DEF e, OnceInv
  <2>2. CASE checkLength(t)
    <3>1. /\ preLogBuffer' = preLogBuffer \/ preLogBuffer' = << >>
          /\ \A i \in Instances : logBuffer'[i] = logBuffer[i] \/ logBuffer'[i] = << >>
      BY <1>2, <2>2 DEF checkLength, TrimBuffer, Trim
    <3>. QED  BY <1>1, <3>1, FewerOnce DEF OnceInv
  <2>. QED  BY <1>3, <2>1, <2>2
<1>4. CASE append(t)
  <2>. PICK msg \in Messages : msg = getFormatLog(t)
    BY <1>4, AppendedIsMessage
  <2>1. Logged' = Logged \cup {msg} /\ msg \notin Logged
    BY <1>4, AppendLogs
  <2>2. /\ msg \notin Range(preLogBuffer) /\ msg \notin Range(got)
        /\ \A g \in Readers : msg \notin Range(read[g])
        /\ \A i \in Instances : msg \notin Range(logBuffer[i])
        /\ \A c \in Creators : msg \notin Range(copy[c])
    BY <2>1 DEF StoredInv
  <2>3. CASE target[t] = 0
    <3>1. preLogBuffer' = Append(preLogBuffer, msg) /\ logBuffer' = logBuffer
      BY <1>4, <2>3 DEF append
    <3>2. /\ Range(preLogBuffer') = Range(preLogBuffer) \cup {msg}
          /\ NoRepeat(preLogBuffer) => NoRepeat(preLogBuffer')
      BY <1>2, <2>2, <3>1, AppendFacts
    <3>3. StoredInv'
      BY <1>1, <2>1, <3>1, <3>2 DEF StoredInv
    <3>4. NoRepeats => NoRepeats'
      BY <1>1, <3>1, <3>2 DEF NoRepeats
    <3>5. /\ LogsApart => LogsApart'
          /\ ReadsApart => ReadsApart'
          /\ CopiesApart => CopiesApart'
      BY <1>1, <3>1 DEF LogsApart, ReadsApart, CopiesApart, Apart
    <3>6. PreApart => PreApart'
      BY <1>1, <2>2, <3>1, <3>2 DEF PreApart, Apart
    <3>. QED  BY <1>1, <3>3, <3>4, <3>5, <3>6 DEF OnceInv
  <2>4. CASE target[t] # 0
    <3>. PICK i \in Instances : i = target[t]
      BY <2>4, InstanceNumbers DEF TypeInv
    <3>1. /\ preLogBuffer' = preLogBuffer
          /\ logBuffer' = [logBuffer EXCEPT ![i] = Append(logBuffer[i], msg)]
      BY <1>4, <2>4 DEF append
    <3>2. /\ Range(logBuffer'[i]) = Range(logBuffer[i]) \cup {msg}
          /\ NoRepeat(logBuffer[i]) => NoRepeat(logBuffer'[i])
      BY <1>2, <2>2, <3>1, AppendFacts
    <3>3. \A j \in Instances : j # i => logBuffer'[j] = logBuffer[j]
      BY <1>2, <3>1
    <3>4. StoredInv'
      BY <1>1, <2>1, <3>1, <3>2, <3>3 DEF StoredInv
    <3>5. NoRepeats => NoRepeats'
      BY <1>1, <3>1, <3>2, <3>3 DEF NoRepeats
    <3>6. LogsApart => LogsApart'
      BY <1>1, <2>2, <3>2, <3>3 DEF LogsApart, Apart
    <3>7. CopiesApart => CopiesApart'
      BY <1>1, <2>2, <3>2, <3>3 DEF CopiesApart, Apart
    <3>8. PreApart => PreApart'
      BY <1>1, <2>2, <3>1, <3>2, <3>3 DEF PreApart, Apart
    <3>9. ReadsApart => ReadsApart'
      BY <1>1, <2>2, <3>2, <3>3 DEF ReadsApart, Apart
    <3>. QED  BY <1>1, <3>4, <3>5, <3>6, <3>7, <3>8, <3>9 DEF OnceInv
  <2>. QED  BY <2>3, <2>4
<1>. QED  BY <1>3, <1>4

\* A second creator past the first test would have set overlap.
LEMMA CreatorAlone ==
  ASSUME TypeInv, OnceInv, NEW c \in Creators,
         createInstance(c) \/ newInstance(c) \/ readTarget(c) \/ readPreLog(c)
            \/ checkCopy(c) \/ appendCopy(c) \/ clearPreLog(c) \/ returnInstance(c),
         ~overlap'
  PROVE  /\ ~overlap /\ OneCreator'
         /\ ~createInstance(c) /\ ~returnInstance(c) => \A d \in Creators \ {c} :
               cpc[d] \notin {"check", "append", "clear"}
<1>. USE DEF logVars, getVars, destroyVars, bufVars, history, Step
<1>1. cpc \in [Creators -> {"idle", "create", "target", "copy", "check", "append",
                            "clear", "return", "returned", "threw"}]
  BY DEF TypeInv, TypeOK
<1>2. ~overlap
  BY Zenon DEF createInstance, newInstance, readTarget, readPreLog, checkCopy, appendCopy,
               clearPreLog, returnInstance
<1>3. OneCreator
  BY <1>2 DEF OnceInv
<1>4. CASE createInstance(c)
  <2>1. sInstance # 0 \/ Creating = {}
    BY <1>4, Zenon DEF createInstance
  <2>2. cpc' = [cpc EXCEPT ![c] = IF sInstance # 0 THEN "return" ELSE "create"]
    BY <1>4 DEF createInstance
  <2>3. CASE sInstance # 0
    <3>1. cpc'[c] = "return" /\ \A d \in Creators : d # c => cpc'[d] = cpc[d]
      BY <1>1, <2>2, <2>3
    <3>2. Creating' \subseteq Creating
      BY <3>1 DEF Creating
    <3>. QED  BY <1>2, <1>3, <1>4, <3>2 DEF OneCreator
  <2>4. CASE sInstance = 0
    <3>1. \A d \in Creators : d # c => cpc'[d] \in {"idle", "return", "returned", "threw"}
      BY <1>1, <2>1, <2>2, <2>4 DEF Creating
    <3>2. Creating' \subseteq {c}
      BY <3>1 DEF Creating
    <3>. QED  BY <1>2, <1>4, <3>2 DEF OneCreator
  <2>. QED  BY <2>3, <2>4
<1>5. CASE returnInstance(c)
  <2>1. Creating' = Creating
    BY <1>1, <1>5 DEF Creating, returnInstance
  <2>. QED  BY <1>2, <1>3, <1>5, <2>1 DEF OneCreator
<1>6. CASE ~createInstance(c) /\ ~returnInstance(c)
  <2>1. c \in Creating /\ (\A d \in Creators : d # c => cpc'[d] = cpc[d])
    BY <1>1, <1>6
    DEF Creating, newInstance, readTarget, readPreLog, checkCopy, appendCopy, clearPreLog
  <2>2. \A d \in Creators : d # c => cpc[d] \in {"idle", "return", "returned", "threw"}
    BY <1>1, <1>3, <2>1 DEF OneCreator, Creating
  <2>. QED  BY <1>2, <2>1, <2>2 DEF OneCreator, Creating
<1>. QED  BY <1>4, <1>5, <1>6

LEMMA ReadPreOnce ==
  ASSUME TypeInv, StoredInv, OnceInv, NEW c \in Creators, readPreLog(c), ctarget[c] # 0,
         Logged \subseteq Logged'
  PROVE  StoredInv' /\ OnceInv'
<1>1. /\ cpc[c] = "copy" /\ cpc' = [cpc EXCEPT ![c] = "check"]
      /\ copy' = [copy EXCEPT ![c] = preLogBuffer]
      /\ UNCHANGED <<preLogBuffer, logBuffer, gpc, read, got>>
  BY DEF readPreLog, Step, getVars, bufVars
<1>2. cpc \in [Creators -> CreatorSteps] /\ copy \in [Creators -> Seq(Messages)]
  BY DEF TypeInv, TypeOK, CreatorSteps
<1>3. /\ copy'[c] = preLogBuffer /\ cpc'[c] = "check"
      /\ \A d \in Creators : d # c => copy'[d] = copy[d] /\ cpc'[d] = cpc[d]
  BY <1>1, <1>2
<1>4. StoredInv'
  BY <1>1, <1>3 DEF StoredInv
<1>. SUFFICES ASSUME ~overlap' PROVE OnceInv'
  BY <1>4 DEF OnceInv
<1>5. /\ ~overlap /\ OneCreator'
      /\ \A d \in Creators \ {c} : cpc[d] \notin {"check", "append", "clear"}
  BY <1>1, CreatorAlone DEF createInstance, returnInstance, Step
<1>6. /\ OneReader /\ NoRepeats /\ LogsApart /\ ReadsApart /\ CopiesApart /\ PreApart
      /\ ~Clearing
  BY <1>1, <1>5 DEF OnceInv, Clearing
<1>7. NoRepeats'
  BY <1>1, <1>3, <1>6 DEF NoRepeats
<1>8. LogsApart' /\ ReadsApart' /\ OneReader'
  BY <1>1, <1>6 DEF LogsApart, ReadsApart, OneReader, Apart
<1>9. CopiesApart'
  BY <1>1, <1>3, <1>6 DEF CopiesApart, PreApart, Apart
<1>10. PreApart'
  BY <1>1, <1>6 DEF PreApart, Apart
<1>. QED  BY <1>5, <1>7, <1>8, <1>9, <1>10 DEF OnceInv

LEMMA AppendCopyOnce ==
  ASSUME TypeInv, StoredInv, OnceInv, NEW c \in Creators, appendCopy(c),
         Logged \subseteq Logged'
  PROVE  StoredInv' /\ OnceInv'
<1>1. /\ cpc[c] = "append" /\ cpc' = [cpc EXCEPT ![c] = "clear"]
      /\ copy' = [copy EXCEPT ![c] = << >>]
      /\ logBuffer' = [logBuffer EXCEPT ![ctarget[c]] = @ \o copy[c]]
      /\ UNCHANGED <<preLogBuffer, gpc, read, got>>
  BY DEF appendCopy, Step, getVars
<1>. PICK i \in Instances : i = ctarget[c]
  BY <1>1, InstanceNumbers DEF TypeInv, IndexInv
<1>2. /\ cpc \in [Creators -> CreatorSteps] /\ copy \in [Creators -> Seq(Messages)]
      /\ logBuffer \in [Instances -> Seq(Messages)]
  BY DEF TypeInv, TypeOK, CreatorSteps
<1>3. /\ copy'[c] = << >> /\ cpc'[c] = "clear"
      /\ \A d \in Creators : d # c => copy'[d] = copy[d] /\ cpc'[d] = cpc[d]
  BY <1>1, <1>2
<1>4. /\ Range(logBuffer'[i]) = Range(logBuffer[i]) \cup Range(copy[c])
      /\ NoRepeat(logBuffer[i]) /\ NoRepeat(copy[c]) /\ Apart(logBuffer[i], copy[c])
            => NoRepeat(logBuffer'[i])
  <2>1. logBuffer[i] \in Seq(Messages) /\ copy[c] \in Seq(Messages)
    BY <1>2
  <2>2. logBuffer'[i] = logBuffer[i] \o copy[c]
    BY <1>1, <1>2
  <2>. QED  BY <2>1, <2>2, ConcatFacts DEF Apart
<1>5. \A j \in Instances : j # i => logBuffer'[j] = logBuffer[j]
  BY <1>1, <1>2
<1>6. StoredInv'
  BY <1>1, <1>3, <1>4, <1>5, RangeEmpty DEF StoredInv
<1>. SUFFICES ASSUME ~overlap' PROVE OnceInv'
  BY <1>6 DEF OnceInv
<1>7. /\ ~overlap /\ OneCreator'
      /\ \A d \in Creators \ {c} : cpc[d] \notin {"check", "append", "clear"}
  BY <1>1, CreatorAlone DEF createInstance, returnInstance, Step
<1>8. OneReader /\ NoRepeats /\ LogsApart /\ ReadsApart /\ CopiesApart
  BY <1>7 DEF OnceInv
<1>9. NoRepeats'
  BY <1>1, <1>3, <1>4, <1>5, <1>8, RangeEmpty DEF NoRepeats, CopiesApart
<1>10. LogsApart'
  <2>1. ASSUME NEW j \in Instances, NEW k \in Instances, j # k
        PROVE  Apart(logBuffer'[j], logBuffer'[k])
    BY <1>4, <1>5, <1>8, <2>1 DEF LogsApart, CopiesApart, Apart
  <2>2. ASSUME NEW j \in Instances
        PROVE  Apart(logBuffer'[j], got')
    BY <1>1, <1>4, <1>5, <1>8 DEF LogsApart, CopiesApart, Apart
  <2>. QED  BY <2>1, <2>2 DEF LogsApart
<1>11. CopiesApart'
  <2>1. \A d \in Creators : copy'[d] = << >>
    BY <1>3, <1>7 DEF StoredInv
  <2>. QED  BY <2>1, RangeEmpty DEF CopiesApart, Apart
<1>12. PreApart'
  BY <1>3 DEF PreApart, Clearing
<1>13. OneReader'
  BY <1>1, <1>8 DEF OneReader
<1>14. ReadsApart'
  <2>1. ASSUME NEW g \in Readers, NEW j \in Instances, j # gpc[g]
        PROVE  Apart(logBuffer'[j], read[g])
    <3>1. Apart(logBuffer[j], read[g]) /\ Apart(copy[c], read[g])
      BY <1>8, <2>1 DEF ReadsApart, CopiesApart
    <3>2. CASE j = i
      BY <1>4, <3>1, <3>2 DEF Apart
    <3>3. CASE j # i
      BY <1>5, <3>1, <3>3
    <3>. QED  BY <3>2, <3>3
  <2>2. gpc' = gpc /\ read' = read /\ got' = got
    BY <1>1
  <2>. QED  BY <1>8, <2>1, <2>2 DEF ReadsApart, Apart
<1>. QED  BY <1>7, <1>9, <1>10, <1>11, <1>12, <1>13, <1>14 DEF OnceInv

LEMMA CreateOnce ==
  ASSUME TypeInv, StoredInv, OnceInv, Logged \subseteq Logged', NEW c \in Creators,
         createInstance(c) \/ newInstance(c) \/ readTarget(c) \/ readPreLog(c)
            \/ checkCopy(c) \/ appendCopy(c) \/ clearPreLog(c) \/ returnInstance(c)
  PROVE  StoredInv' /\ OnceInv'
<1>1. /\ cpc \in [Creators -> CreatorSteps] /\ copy \in [Creators -> Seq(Messages)]
      /\ logBuffer \in [Instances -> Seq(Messages)]
  BY DEF TypeInv, TypeOK, CreatorSteps
<1>2. (~overlap' => ~overlap) /\ (~overlap' => OneCreator')
  BY CreatorAlone
<1>3. CASE \/ createInstance(c) \/ newInstance(c) \/ readTarget(c) \/ checkCopy(c)
           \/ clearPreLog(c) \/ returnInstance(c) \/ (readPreLog(c) /\ ctarget[c] = 0)
  <2>. USE DEF getVars, bufVars, Step
  <2>1. UNCHANGED <<gpc, read, got>>
    BY <1>3 DEF createInstance, newInstance, readTarget, readPreLog, checkCopy, clearPreLog,
                returnInstance
  <2>2. /\ preLogBuffer' = preLogBuffer \/ preLogBuffer' = << >>
        /\ \A i \in Instances : logBuffer'[i] = logBuffer[i] \/ logBuffer'[i] = << >>
    BY <1>1, <1>3
    DEF createInstance, newInstance, readTarget, readPreLog, checkCopy, clearPreLog,
        returnInstance, TrimBuffer, Trim
  <2>3. /\ \A d \in Creators : copy'[d] = copy[d] \/ copy'[d] = << >>
        /\ \A d \in Creators : cpc[d] \in {"check", "append"} =>
              cpc'[d] \in {"check", "append"} \/ copy'[d] = << >>
        /\ Clearing /\ ~Clearing' => preLogBuffer' = << >>
    BY <1>1, <1>3
    DEF createInstance, newInstance, readTarget, readPreLog, checkCopy, clearPreLog,
        returnInstance, Clearing
  <2>. QED  BY <1>2, <2>1, <2>2, <2>3, FewerOnce
<1>4. CASE readPreLog(c) /\ ctarget[c] # 0
  BY <1>4, ReadPreOnce
<1>5. CASE appendCopy(c)
  BY <1>5, AppendCopyOnce
<1>. QED  BY <1>3, <1>4, <1>5

LEMMA GetOnce ==
  ASSUME TypeInv, StoredInv, OnceInv, Logged \subseteq Logged', NEW g \in Readers, getLogs(g)
  PROVE  StoredInv' /\ OnceInv'
<1>1. /\ gpc[g] = 0
      /\ UNCHANGED <<cpc, copy, preLogBuffer, logBuffer, got>>
      /\ Clearing' = Clearing /\ OneCreator' = OneCreator
  BY DEF getLogs, bufVars, createVars, Clearing, OneCreator, Creating
<1>. PICK i \in Given : /\ gpc' = [gpc EXCEPT ![g] = i]
                        /\ read' = [read EXCEPT ![g] = logBuffer[i]]
                        /\ overlap' = (overlap \/ BeingRead(i))
  BY Zenon DEF getLogs
<1>2. i \in Instances /\ i # 0
  BY GivenInstances DEF Instances
<1>3. /\ gpc'[g] = i /\ read'[g] = logBuffer[i]
      /\ \A h \in Readers : h # g => gpc'[h] = gpc[h] /\ read'[h] = read[h]
  BY DEF TypeInv, TypeOK
<1>4. StoredInv'
  BY <1>1, <1>2, <1>3 DEF StoredInv
<1>. SUFFICES ASSUME ~overlap' PROVE OnceInv'
  BY <1>4 DEF OnceInv
<1>5. ~overlap /\ \A h \in Readers : gpc[h] # i
  BY Zenon DEF BeingRead
<1>6. OneReader /\ NoRepeats /\ LogsApart /\ ReadsApart /\ CopiesApart /\ PreApart
  BY <1>5 DEF OnceInv
<1>7. OneReader'
  BY <1>3, <1>5, <1>6 DEF OneReader
<1>8. NoRepeats'
  BY <1>1, <1>2, <1>3, <1>6 DEF NoRepeats
<1>9. LogsApart'
  BY <1>1, <1>6 DEF LogsApart, Apart
<1>10. ReadsApart'
  BY <1>1, <1>2, <1>3, <1>5, <1>6 DEF ReadsApart, LogsApart, Apart
<1>11. CopiesApart'
  BY <1>1, <1>2, <1>3, <1>6 DEF CopiesApart, Apart
<1>12. PreApart'
  BY <1>1, <1>2, <1>3, <1>6 DEF PreApart, Apart
<1>. QED  BY <1>1, <1>5, <1>7, <1>8, <1>9, <1>10, <1>11, <1>12 DEF OnceInv

LEMMA ReturnOnce ==
  ASSUME TypeInv, StoredInv, OnceInv, Logged \subseteq Logged',
         NEW g \in Readers, returnLogs(g)
  PROVE  StoredInv' /\ OnceInv'
<1>1. /\ UNCHANGED <<cpc, copy, overlap, preLogBuffer>>
      /\ Clearing' = Clearing /\ OneCreator' = OneCreator
  BY DEF returnLogs, createVars, history, Clearing, OneCreator, Creating
<1>2. /\ gpc[g] # 0 /\ gpc' = [gpc EXCEPT ![g] = 0] /\ read' = [read EXCEPT ![g] = << >>]
      /\ got' = got \o read[g]
      /\ logBuffer' = [logBuffer EXCEPT ![gpc[g]] = << >>]
  BY DEF returnLogs, Logs, ClearLog
<1>3. /\ logBuffer \in [Instances -> Seq(Messages)] /\ read \in [Readers -> Seq(Messages)]
      /\ gpc \in [Readers -> 0 .. MaxInstances] /\ got \in Seq(Messages)
  BY DEF TypeInv, TypeOK
<1>4. /\ gpc'[g] = 0 /\ read'[g] = << >>
      /\ \A h \in Readers : h # g => gpc'[h] = gpc[h] /\ read'[h] = read[h]
  BY <1>2, <1>3
<1>5. /\ Range(got') = Range(got) \cup Range(read[g])
      /\ NoRepeat(got) /\ NoRepeat(read[g]) /\ Apart(read[g], got) => NoRepeat(got')
  BY <1>2, <1>3, ConcatFacts DEF Apart
<1>6. /\ \A j \in Instances : j = gpc[g] => logBuffer'[j] = << >>
      /\ \A j \in Instances : j # gpc[g] => logBuffer'[j] = logBuffer[j]
  BY <1>2, <1>3
<1>7. StoredInv'
  BY <1>1, <1>4, <1>5, <1>6, RangeEmpty DEF StoredInv
<1>. SUFFICES ASSUME ~overlap' PROVE OnceInv'
  BY <1>7 DEF OnceInv
<1>8. OneReader /\ NoRepeats /\ LogsApart /\ ReadsApart /\ CopiesApart /\ PreApart
  BY <1>1 DEF OnceInv
<1>9. OneReader'
  BY <1>4, <1>8 DEF OneReader
<1>10. NoRepeats'
  BY <1>1, <1>4, <1>5, <1>6, <1>8, RangeEmpty DEF NoRepeats, ReadsApart
<1>11. LogsApart'
  BY <1>5, <1>6, <1>8, RangeEmpty DEF LogsApart, ReadsApart, Apart
<1>12. ReadsApart'
  BY <1>4, <1>5, <1>6, <1>8, RangeEmpty DEF ReadsApart, Apart
<1>13. CopiesApart'
  BY <1>1, <1>4, <1>5, <1>6, <1>8, RangeEmpty DEF CopiesApart, Apart
<1>14. PreApart'
  BY <1>1, <1>4, <1>5, <1>6, <1>8, RangeEmpty DEF PreApart, Apart
<1>. QED  BY <1>1, <1>8, <1>9, <1>10, <1>11, <1>12, <1>13, <1>14 DEF OnceInv

LEMMA ReadOnce ==
  ASSUME TypeInv, StoredInv, OnceInv, Logged \subseteq Logged', ReadStep \/ UNCHANGED vars
  PROVE  StoredInv' /\ OnceInv'
<1>1. CASE \/ \E d \in Destroyers : destory(d) \/ destoryLog(d) \/ destoryPreLog(d)
           \/ UNCHANGED vars
  <2>. USE DEF logVars, createVars, getVars, destroyVars, bufVars, history, ClearLog
  <2>1. UNCHANGED <<gpc, read, got, cpc, copy, overlap>>
    BY <1>1 DEF destory, destoryLog, destoryPreLog, vars
  <2>2. Clearing' = Clearing /\ OneCreator' = OneCreator
    BY <2>1 DEF Clearing, OneCreator, Creating
  <2>3. /\ preLogBuffer' = preLogBuffer \/ preLogBuffer' = << >>
        /\ \A i \in Instances : logBuffer'[i] = logBuffer[i] \/ logBuffer'[i] = << >>
    BY <1>1 DEF destory, destoryLog, destoryPreLog, vars, TypeInv, TypeOK
  <2>. QED  BY <2>1, <2>2, <2>3, FewerOnce DEF OnceInv
<1>. QED  BY <1>1, GetOnce, ReturnOnce DEF ReadStep

LEMMA TimesBound ==
  ASSUME NEW s \in Seq(Messages), NoRepeat(s), NEW msg
  PROVE  /\ Times(s, msg) \in Nat /\ Times(s, msg) <= 1
         /\ Times(s, msg) > 0 <=> msg \in Range(s)
<1>. DEFINE At == {k \in DOMAIN s : s[k] = msg}
<1>1. CASE msg \in Range(s)
  <2>. PICK k \in DOMAIN s : s[k] = msg
    BY <1>1 DEF Range
  <2>1. At = {k}
    BY DEF NoRepeat
  <2>2. Cardinality({k}) = 1
    BY FS_Singleton
  <2>3. Times(s, msg) = 1
    BY <2>1, <2>2 DEF Times
  <2>. QED  BY <1>1, <2>3
<1>2. CASE msg \notin Range(s)
  <2>1. At = {}
    BY <1>2 DEF Range
  <2>2. Times(s, msg) = 0
    BY <2>1, FS_EmptySet DEF Times
  <2>. QED  BY <1>2, <2>2
<1>. QED  BY <1>1, <1>2

LEMMA OnceIsEnough ==
  ASSUME TypeInv, OnceInv
  PROVE  AtMostOnce
<1>. SUFFICES ASSUME ~overlap, NEW msg \in Messages
              PROVE  LET held == {i \in Instances : Times(logBuffer[i], msg) > 0} IN
                     /\ Times(got, msg) <= 1
                     /\ held # {} => Times(got, msg) = 0
                     /\ Cardinality(held) <= 1
                     /\ \A i \in Instances : Times(logBuffer[i], msg) <= 1
  BY DEF AtMostOnce
<1>. DEFINE held == {i \in Instances : Times(logBuffer[i], msg) > 0}
<1>1. NoRepeats /\ LogsApart
  BY DEF OnceInv
<1>2. /\ Times(got, msg) \in Nat /\ Times(got, msg) <= 1
      /\ Times(got, msg) > 0 <=> msg \in Range(got)
  BY <1>1, TimesBound DEF NoRepeats, TypeInv, TypeOK
<1>3. ASSUME NEW i \in Instances
      PROVE  /\ Times(logBuffer[i], msg) <= 1
             /\ Times(logBuffer[i], msg) > 0 <=> msg \in Range(logBuffer[i])
  <2>1. logBuffer[i] \in Seq(Messages) /\ NoRepeat(logBuffer[i])
    BY <1>1 DEF NoRepeats, TypeInv, TypeOK
  <2>. QED  BY <2>1, TimesBound
<1>4. held # {} => Times(got, msg) = 0
  <2>1. \A i \in held : msg \notin Range(got)
    BY <1>1, <1>3 DEF LogsApart, Apart
  <2>. QED  BY <1>2, <2>1
<1>5. Cardinality(held) <= 1
  <2>1. \A i, j \in held : i = j
    BY <1>1, <1>3 DEF LogsApart, Apart
  <2>2. CASE held = {}
    BY <2>2, FS_EmptySet
  <2>3. ASSUME NEW i \in held PROVE Cardinality(held) <= 1
    <3>1. held = {i}
      BY <2>1
    <3>. QED  BY <3>1, FS_Singleton
  <2>. QED  BY <2>2, <2>3
<1>. QED  BY <1>2, <1>3, <1>4, <1>5

\* However many threads log, create, read and destroy: as long as no two calls of
\* createInstance have copied the first buffer and no two calls of getLogs have
\* read the same one before either emptied it, no message is returned twice, none
\* is in two buffers, and none that has been returned is still there.
THEOREM AtMostOnceCorrect == Spec => []AtMostOnce
<1>1. TypeInv /\ StoredInv /\ OnceInv /\ [Next]_vars => StoredInv' /\ OnceInv'
  BY LoggedGrows, LogOnce, CreateOnce, ReadOnce DEF Next, ReadStep
<1>2. TypeInv /\ OnceInv => AtMostOnce
  BY OnceIsEnough
<1>. QED  BY <1>1, <1>2, InitOnce, TypesHold, PTL DEF Spec
=============================================================================

------------------------ MODULE WenbaThreadPoolProofs ------------------------
(***************************************************************************)
(* Theorems about WenbaThreadPool, for any number of callers and tasks.    *)
(***************************************************************************)
EXTENDS WenbaThreadPool, SequenceTheorems, FiniteSetTheorems, TLAPS

-----------------------------------------------------------------------------
(* The two fields are set once, each under the lock of the class.            *)

Pcs == {"idle", "getExecutor", "execute", "getSerialHandler", "getLooper", "post", "postUi"}

\* The caller that waits for the looper is the one that holds the lock; only
\* meanwhile is there a handler thread the field does not know yet.
LockOfMaker ==
    /\ pc \in [Callers -> Pcs]
    /\ holder \in Callers \cup {None}
    /\ \A c \in Callers : pc[c] = "getLooper" <=> holder = c
    /\ sHandler = IF holder = None THEN handlers ELSE 0
    /\ holder # None => handlers = 1

MadeInv ==
    /\ LockOfMaker
    /\ pools \in {0, 1} /\ handlers \in {0, 1}
    /\ sPool = pools
    /\ \A c \in Callers : pc[c] = "post" => sHandler = 1

LEMMA InitMade == Init => MadeInv
  BY CallersAssumption DEF Init, MadeInv, LockOfMaker, Pcs

LEMMA SubmitMade ==
  ASSUME MadeInv, NEW c \in Callers, NEW r, NEW o,
         NEW next \in {"getExecutor", "execute", "getSerialHandler", "post", "postUi"},
         next = "post" => sHandler # 0,
         Submit(c, r, o, next), UNCHANGED staticVars
  PROVE  MadeInv'
  BY CallersAssumption DEF MadeInv, LockOfMaker, Pcs, Submit, Goto, staticVars

LEMMA NextMade == MadeInv /\ [Next]_vars => MadeInv'
<1>. SUFFICES ASSUME MadeInv, [Next]_vars PROVE MadeInv'
  OBVIOUS
<1>. USE CallersAssumption DEF MadeInv, LockOfMaker, Pcs
<1>1. ASSUME NEW c \in Callers, NEW r \in Tasks,
             poolExecute(c, r) \/ serialExecute(c, r) \/ runOnUiThread(c, r)
      PROVE  MadeInv'
  BY <1>1, SubmitMade DEF poolExecute, serialExecute, runOnUiThread, IsNull
<1>2. ASSUME NEW c \in Callers, getExecutor(c) PROVE MadeInv'
  BY <1>2 DEF getExecutor, Goto, IsNull
<1>3. ASSUME NEW c \in Callers, getSerialHandler(c) PROVE MadeInv'
  BY <1>3 DEF getSerialHandler, Goto, IsNull
<1>4. ASSUME NEW c \in Callers, getLooper(c) PROVE MadeInv'
  BY <1>4 DEF getLooper, Goto, Unlock
<1>5. ASSUME NEW c \in Callers, execute(c) \/ post(c) \/ postUi(c) PROVE MadeInv'
  BY <1>5 DEF execute, post, postUi, Goto, staticVars
<1>6. CASE Prepare  BY <1>6 DEF Prepare
<1>7. ASSUME NEW r \in Tasks, PoolRuns(r) PROVE MadeInv'
  BY <1>7 DEF PoolRuns, staticVars
<1>8. ASSUME NEW h \in Loopers, Begin(h) \/ End(h) PROVE MadeInv'
  BY <1>8 DEF Begin, End, staticVars
<1>9. CASE UNCHANGED vars  BY <1>9 DEF vars, staticVars
<1>. QED
  BY <1>1, <1>2, <1>3, <1>4, <1>5, <1>6, <1>7, <1>8, <1>9 DEF Next, Goes

\* However many threads come first, one pool and one handler thread are made.
THEOREM MadeOnceCorrect == Spec => []MadeOnce
<1>1. MadeInv => MadeOnce  BY DEF MadeInv, MadeOnce
<1>. QED  BY <1>1, InitMade, NextMade, PTL DEF Spec

-----------------------------------------------------------------------------
(* What was posted is what began, followed by what the one looper that       *)
(* serialExecute has still queues; the loopers beyond it never get a task.   *)

SerialTypeOK ==
    /\ cur \in [Callers -> Tasks \cup {None}]
    /\ \A c \in Callers : pc[c] # "idle" => cur[c] \in Tasks
    /\ queue \in [Loopers -> Seq(Tasks)]
    /\ running \in [Loopers -> Tasks \cup {None}]
    /\ began \in Seq(Tasks) /\ posted \in Seq(Tasks)

PostedInOrder == posted = began \o queue[1]

OthersEmpty ==
    \A h \in Loopers \ {0, 1} : queue[h] = << >> /\ running[h] = None

SerialInv == SerialTypeOK /\ PostedInOrder /\ OthersEmpty

LEMMA LoopersFacts == 0 \in Loopers /\ 1 \in Loopers
<1>1. Cardinality(Callers) \in Nat /\ Cardinality(Callers) # 0
  BY FiniteAssumption, CallersAssumption, FS_CardinalityType, FS_EmptySet
<1>. QED  BY <1>1 DEF Loopers

LEMMA InitSerial == Init => SerialInv
<1>. SUFFICES ASSUME Init PROVE SerialInv
  OBVIOUS
<1>1. << >> \in Seq(Tasks) /\ << >> \o << >> = << >>
  BY EmptySeq, ConcatEmptySeq
<1>2. SerialTypeOK  BY <1>1 DEF Init, SerialTypeOK
<1>. QED
  BY <1>1, <1>2, LoopersFacts DEF Init, SerialInv, PostedInOrder, OthersEmpty

\* A step of a caller that posts nothing to the handler thread.
LEMMA CallerStepSerial ==
  ASSUME SerialInv, MadeInv, NEW c \in Callers, NEW to \in Pcs, NEW r \in Tasks \cup {None},
         pc' = [pc EXCEPT ![c] = to], cur' = [cur EXCEPT ![c] = r],
         to # "idle" => r \in Tasks,
         UNCHANGED <<queue, running, began, posted>>
  PROVE  SerialInv'
<1>1. SerialTypeOK'
  BY DEF SerialInv, SerialTypeOK, MadeInv, LockOfMaker
<1>. QED  BY <1>1 DEF SerialInv, PostedInOrder, OthersEmpty

\* What an element added to the second of two sequences does to them both.
LEMMA PushAfter ==
  ASSUME NEW S, NEW s \in Seq(S), NEW t \in Seq(S), NEW x \in S
  PROVE  /\ s \o Append(t, x) \in Seq(S)
         /\ Len(s \o Append(t, x)) = Len(s \o t) + 1
         /\ \A i \in 1 .. Len(s \o t) : (s \o Append(t, x))[i] = (s \o t)[i]
         /\ (s \o Append(t, x))[Len(s \o t) + 1] = x
<1>1. /\ Append(t, x) \in Seq(S) /\ Len(Append(t, x)) = Len(t) + 1
      /\ \A i \in 1 .. Len(t) : Append(t, x)[i] = t[i]
      /\ Append(t, x)[Len(t) + 1] = x
  OBVIOUS
<1>. QED  BY <1>1, ConcatProperties, LenProperties

LEMMA PostSerial ==
  ASSUME SerialInv, MadeInv, NEW c \in Callers, post(c) PROVE SerialInv'
<1>1. sHandler = 1 /\ cur[c] \in Tasks
  BY DEF SerialInv, SerialTypeOK, MadeInv, post, Goto
<1>2. began \in Seq(Tasks) /\ queue[1] \in Seq(Tasks)
  BY LoopersFacts DEF SerialInv, SerialTypeOK
<1>3. SerialTypeOK'
  BY <1>1, <1>2, LoopersFacts, CallersAssumption
     DEF MadeInv, LockOfMaker, SerialInv, SerialTypeOK, post, Goto, Done, execVars
<1>4. PostedInOrder'
  <2>1. /\ queue'[1] = Append(queue[1], cur[c]) /\ began' = began
        /\ posted = began \o queue[1] /\ posted' = Append(posted, cur[c])
    BY <1>1, LoopersFacts DEF SerialInv, SerialTypeOK, PostedInOrder, post, execVars
  <2>2. posted \in Seq(Tasks)
    BY DEF SerialInv, SerialTypeOK
  <2>3. /\ posted' \in Seq(Tasks) /\ Len(posted') = Len(posted) + 1
        /\ \A i \in 1 .. Len(posted) : posted'[i] = posted[i]
        /\ posted'[Len(posted) + 1] = cur[c]
    BY <1>1, <2>1, <2>2
  <2>4. /\ began \o queue'[1] \in Seq(Tasks) /\ Len(began \o queue'[1]) = Len(posted) + 1
        /\ \A i \in 1 .. Len(posted) : (began \o queue'[1])[i] = posted[i]
        /\ (began \o queue'[1])[Len(posted) + 1] = cur[c]
    BY <1>1, <1>2, <2>1, PushAfter
  <2>5. posted' = began \o queue'[1]
    <3>1. Len(posted) \in Nat
      BY <2>2, LenProperties
    <3>2. \A i \in 1 .. Len(posted') : posted'[i] = (began \o queue'[1])[i]
      BY <2>3, <2>4, <3>1
    <3>. QED  BY <2>3, <2>4, <3>2, SeqEqual
  <2>. QED  BY <2>1, <2>5 DEF PostedInOrder
<1>5. OthersEmpty'  BY <1>1 DEF OthersEmpty, SerialInv, SerialTypeOK, post
<1>. QED  BY <1>3, <1>4, <1>5 DEF SerialInv

LEMMA BeginSerial == ASSUME SerialInv, NEW h \in Loopers, Begin(h) PROVE SerialInv'
<1>. USE DEF SerialInv, SerialTypeOK, Begin
<1>1. h \in {0, 1}  BY DEF OthersEmpty
<1>2. /\ queue[h] \in Seq(Tasks) /\ queue[h] # << >>
      /\ Head(queue[h]) \in Tasks /\ Tail(queue[h]) \in Seq(Tasks)
      /\ queue[h] = <<Head(queue[h])>> \o Tail(queue[h])
  BY HeadTailProperties
<1>3. SerialTypeOK'  BY <1>2
<1>4. PostedInOrder'
  <2>1. CASE h = 0  BY <2>1, LoopersFacts DEF PostedInOrder
  <2>2. CASE h = 1
    <3>1. <<Head(queue[1])>> \in Seq(Tasks)  BY <1>2, <2>2
    <3>2. posted = (began \o <<Head(queue[1])>>) \o Tail(queue[1])
      BY <1>2, <2>2, <3>1, ConcatAssociative DEF PostedInOrder
    <3>3. began' = began \o <<Head(queue[1])>>
      BY <1>2, <2>2, AppendIsConcat
    <3>. QED  BY <2>2, <3>2, <3>3, LoopersFacts DEF PostedInOrder
  <2>. QED  BY <1>1, <2>1, <2>2
<1>5. OthersEmpty'  BY <1>1 DEF OthersEmpty
<1>. QED  BY <1>3, <1>4, <1>5

LEMMA NextSerial == SerialInv /\ MadeInv /\ [Next]_vars => SerialInv'
<1>. SUFFICES ASSUME SerialInv, MadeInv, [Next]_vars PROVE SerialInv'
  OBVIOUS
<1>. USE DEF execVars
<1>1. ASSUME NEW c \in Callers, NEW r \in Tasks,
             poolExecute(c, r) \/ serialExecute(c, r) \/ runOnUiThread(c, r)
      PROVE  SerialInv'
  BY <1>1, CallerStepSerial DEF poolExecute, serialExecute, runOnUiThread, Submit, Goto, Pcs
<1>2. ASSUME NEW c \in Callers, getExecutor(c) \/ getSerialHandler(c) \/ getLooper(c)
      PROVE  SerialInv'
  <2>1. cur[c] \in Tasks /\ cur' = [cur EXCEPT ![c] = cur[c]]
    BY <1>2 DEF getExecutor, getSerialHandler, getLooper, Goto, SerialInv, SerialTypeOK
  <2>. QED
    BY <1>2, <2>1, CallerStepSerial
       DEF getExecutor, getSerialHandler, getLooper, Goto, Pcs
<1>3. ASSUME NEW c \in Callers, execute(c) PROVE SerialInv'
  BY <1>3, CallerStepSerial DEF execute, Goto, Done, Pcs
<1>4. ASSUME NEW c \in Callers, post(c) PROVE SerialInv'
  BY <1>4, PostSerial
<1>5. ASSUME NEW c \in Callers, postUi(c) PROVE SerialInv'
  <2>. USE <1>5, LoopersFacts, CallersAssumption
       DEF SerialInv, SerialTypeOK, postUi, Goto, Done, MadeInv, LockOfMaker, Pcs
  <2>1. cur[c] \in Tasks /\ queue[0] \in Seq(Tasks)  OBVIOUS
  <2>2. SerialTypeOK'  BY <2>1
  <2>3. PostedInOrder' /\ OthersEmpty'  BY DEF PostedInOrder, OthersEmpty
  <2>. QED  BY <2>2, <2>3
<1>6. ASSUME NEW h \in Loopers, Begin(h) PROVE SerialInv'
  BY <1>6, BeginSerial
<1>7. ASSUME NEW h \in Loopers, End(h) PROVE SerialInv'
  BY <1>7 DEF End, SerialInv, SerialTypeOK, PostedInOrder, OthersEmpty
<1>8. ASSUME UNCHANGED <<pc, cur, queue, running, began, posted>> PROVE SerialInv'
  BY <1>8 DEF SerialInv, SerialTypeOK, PostedInOrder, OthersEmpty
<1>9. ASSUME NEW r \in Tasks, PoolRuns(r) PROVE SerialInv'
  BY <1>8, <1>9 DEF PoolRuns
<1>10. CASE Prepare \/ UNCHANGED vars
  BY <1>8, <1>10 DEF Prepare, vars
<1>. QED
  BY <1>1, <1>2, <1>3, <1>4, <1>5, <1>6, <1>7, <1>9, <1>10 DEF Next, Goes

LEMMA SerialImplied == ASSUME SerialInv PROVE SerialOrder
<1>. USE DEF SerialInv, SerialTypeOK
<1>1. IsPrefix(began, posted)
  <2>1. queue[1] \in Seq(Tasks)  BY LoopersFacts
  <2>2. /\ Len(began) \in Nat /\ Len(posted) \in Nat /\ Len(began) <= Len(posted)
        /\ \A i \in 1 .. Len(began) : posted[i] = began[i]
    BY <2>1, ConcatProperties, LenProperties DEF PostedInOrder
  <2>3. SubSeq(began, 1, Len(began)) = began
    BY SubSeqFull
  <2>4. SubSeq(posted, 1, Len(began)) = began
    <3>1. \A i \in 1 .. Len(began) : posted[i] \in Tasks
      BY <2>2, ElementOfSeq
    <3>2. /\ SubSeq(posted, 1, Len(began)) \in Seq(Tasks)
          /\ Len(SubSeq(posted, 1, Len(began))) = Len(began)
          /\ \A i \in 1 .. Len(began) : SubSeq(posted, 1, Len(began))[i] = posted[i]
      BY <2>2, <3>1
    <3>. QED  BY <2>2, <3>2, SeqEqual
  <2>. QED  BY <2>2, <2>3, <2>4 DEF IsPrefix
<1>2. Cardinality({h \in Loopers \ {0} : running[h] # None}) <= 1
  <2>1. {h \in Loopers \ {0} : running[h] # None} \in SUBSET {1}
    BY DEF OthersEmpty
  <2>2. IsFiniteSet({1}) /\ Cardinality({1}) = 1
    BY FS_Singleton
  <2>. QED  BY <2>1, <2>2, FS_Subset
<1>. QED  BY <1>1, <1>2 DEF SerialOrder

\* What was handed to serialExecute runs one at a time, in the order of posting.
THEOREM SerialOrderCorrect == Spec => []SerialOrder
<1>1. SerialInv => SerialOrder  BY SerialImplied
<1>. QED
  BY <1>1, InitMade, NextMade, InitSerial, NextSerial, PTL DEF Spec

-----------------------------------------------------------------------------
(* Every task that was handed over and is still to be run is in one place:   *)
(* the hand of its caller, the pool's work, one position of one queue, or    *)
(* the hand of one looper.  It leaves the last one by being run.             *)

Twice(r) == call[r] = <<"runOnUiThread", Main>>

Called(r) == \E c \in Callers : cur[c] = r
Queued(r) == \E h \in Loopers : \E i \in 1 .. Len(queue[h]) : queue[h][i] = r
Taken(r) == \E h \in Loopers : running[h] = r
Pending(r) == Called(r) \/ r \in work \/ Queued(r) \/ Taken(r)

TasksTypeOK ==
    /\ call \in [Tasks -> {<< >>} \cup (Ops \X Callers)]
    /\ ran \in [Tasks -> Nat]
    /\ work \subseteq Tasks
    /\ \A c \in Callers : pc[c] = "idle" => cur[c] = None

\* No place holds a task twice ...
OnceInPlace ==
    /\ \A b, c \in Callers : cur[b] = cur[c] /\ cur[b] # None => b = c
    /\ \A g, h \in Loopers : \A i \in 1 .. Len(queue[g]), j \in 1 .. Len(queue[h]) :
          queue[g][i] = queue[h][j] => g = h /\ i = j
    /\ \A g, h \in Loopers : running[g] = running[h] /\ running[g] # None => g = h

\* ... and no two places hold the same task.
PlacesApart ==
    \A r \in Tasks :
        /\ Called(r) => r \notin work /\ ~Queued(r) /\ ~Taken(r)
        /\ r \in work => ~Queued(r) /\ ~Taken(r)
        /\ Queued(r) => ~Taken(r)

\* One run is missing as long as the task is in one of the places.
Runs(r) == IF Twice(r) THEN 2 ELSE 1
RunsCounted ==
    \A r \in Tasks :
        /\ r \in NewTasks => ran[r] = 0 /\ ~Pending(r)
        /\ r \notin NewTasks => ran[r] = IF Pending(r) THEN Runs(r) - 1 ELSE Runs(r)

PlaceInv == TasksTypeOK /\ OnceInPlace /\ PlacesApart /\ RunsCounted

LEMMA InitPlace == Init => PlaceInv
<1>. SUFFICES ASSUME Init PROVE PlaceInv
  OBVIOUS
<1>1. \A r \in Tasks : ~Called(r) /\ r \notin work /\ ~Queued(r) /\ ~Taken(r)
  BY CallersAssumption DEF Init, Called, Queued, Taken
<1>2. TasksTypeOK /\ OnceInPlace
  BY DEF Init, TasksTypeOK, OnceInPlace
<1>3. PlacesApart
  BY <1>1 DEF PlacesApart
<1>4. RunsCounted
  BY <1>1 DEF Init, RunsCounted, NewTasks, Pending
<1>. QED  BY <1>2, <1>3, <1>4 DEF PlaceInv

\* A new task comes into the hand of its caller; runOnUiThread runs it on the
\* main thread at once.
LEMMA SubmitPlace ==
  ASSUME PlaceInv, SerialInv, MadeInv,
         NEW c \in Callers, NEW r \in Tasks, NEW o \in Ops, NEW next \in Pcs \ {"idle"},
         Submit(c, r, o, next), UNCHANGED <<work, queue, running>>,
         ran' = IF o = "runOnUiThread" /\ c = Main THEN [ran EXCEPT ![r] = @ + 1] ELSE ran
  PROVE  PlaceInv'
<1>. USE DEF PlaceInv, Submit, Goto, TasksTypeOK
<1>1. cur[c] = None /\ cur \in [Callers -> Tasks \cup {None}] /\ pc \in [Callers -> Pcs]
  BY DEF SerialInv, SerialTypeOK, MadeInv, LockOfMaker
<1>2. r \in NewTasks /\ ran[r] = 0 /\ ~Pending(r)
  BY DEF RunsCounted
<1>3. /\ \A q \in Tasks : Called(q)' <=> Called(q) \/ q = r
      /\ \A q \in Tasks : Queued(q)' <=> Queued(q)
      /\ \A q \in Tasks : Taken(q)' <=> Taken(q)
  BY <1>1, CallersAssumption DEF Called, Queued, Taken
<1>4. TasksTypeOK'
  BY <1>1, CallersAssumption DEF Pcs
<1>5. OnceInPlace'
  BY <1>1, <1>2 DEF OnceInPlace, Pending, Called
<1>6. PlacesApart'
  BY <1>2, <1>3 DEF PlacesApart, Pending
<1>7. RunsCounted'
  <2>1. call'[r] = <<o, c>> /\ \A q \in Tasks : q # r => call'[q] = call[q] /\ ran'[q] = ran[q]
    OBVIOUS
  <2>2. r \notin NewTasks' /\ \A q \in Tasks : q # r => (q \in NewTasks' <=> q \in NewTasks)
    BY <2>1 DEF NewTasks
  <2>3. \A q \in Tasks : Pending(q)' <=> Pending(q) \/ q = r
    BY <1>3 DEF Pending
  <2>4. ran'[r] = Runs(r)' - 1
    BY <1>2, <2>1 DEF Runs, Twice, Ops
  <2>. QED  BY <2>1, <2>2, <2>3, <2>4 DEF RunsCounted, Runs, Twice
<1>. QED  BY <1>4, <1>5, <1>6, <1>7

LEMMA MovedCounted ==
  ASSUME PlaceInv, UNCHANGED <<call, ran>>, \A q \in Tasks : Pending(q)' <=> Pending(q)
  PROVE  RunsCounted'
  BY DEF PlaceInv, RunsCounted, NewTasks, Runs, Twice

LEMMA RunCounted ==
  ASSUME PlaceInv, NEW r \in Tasks, Pending(r), ~Pending(r)',
         ran' = [ran EXCEPT ![r] = @ + 1], UNCHANGED call,
         \A q \in Tasks : q # r => (Pending(q)' <=> Pending(q))
  PROVE  RunsCounted'
<1>1. r \notin NewTasks /\ ran[r] = Runs(r) - 1 /\ ran'[r] = ran[r] + 1
  BY DEF PlaceInv, RunsCounted, TasksTypeOK
<1>2. \A q \in Tasks : q # r => ran'[q] = ran[q]
  BY DEF PlaceInv, TasksTypeOK
<1>. QED
  BY <1>1, <1>2 DEF PlaceInv, RunsCounted, NewTasks, Runs, Twice

\* A caller on its way to the executor keeps its task.
LEMMA KeepPlace ==
  ASSUME PlaceInv, MadeInv, NEW c \in Callers, NEW to \in Pcs \ {"idle"}, pc[c] # "idle",
         pc' = [pc EXCEPT ![c] = to],
         UNCHANGED <<call, cur, work, queue, running, ran>>
  PROVE  PlaceInv'
<1>1. TasksTypeOK'
  BY DEF PlaceInv, TasksTypeOK, MadeInv, LockOfMaker
<1>2. OnceInPlace' /\ PlacesApart'
  BY DEF PlaceInv, OnceInPlace, PlacesApart, Called, Queued, Taken
<1>3. RunsCounted'
  BY MovedCounted DEF Pending, Called, Queued, Taken
<1>. QED  BY <1>1, <1>2, <1>3 DEF PlaceInv

LEMMA executePlace ==
  ASSUME PlaceInv, SerialInv, MadeInv, NEW c \in Callers, execute(c) PROVE PlaceInv'
<1>. DEFINE r == cur[c]
<1>. USE DEF PlaceInv, execute, Goto, Done
<1>1. /\ r \in Tasks /\ r # None
      /\ cur \in [Callers -> Tasks \cup {None}] /\ pc \in [Callers -> Pcs]
  BY CallersAssumption DEF SerialInv, SerialTypeOK, MadeInv, LockOfMaker
<1>2. Called(r) /\ r \notin work /\ ~Queued(r) /\ ~Taken(r)
  BY <1>1 DEF Called, PlacesApart
<1>3. /\ \A q \in Tasks : Called(q)' <=> Called(q) /\ q # r
      /\ \A q \in Tasks : Queued(q)' <=> Queued(q)
      /\ \A q \in Tasks : Taken(q)' <=> Taken(q)
  BY <1>1, CallersAssumption DEF Called, Queued, Taken, OnceInPlace
<1>4. TasksTypeOK'
  BY <1>1 DEF TasksTypeOK
<1>5. OnceInPlace'
  BY <1>1 DEF OnceInPlace
<1>6. PlacesApart'
  BY <1>1, <1>2, <1>3 DEF PlacesApart
<1>7. RunsCounted'
  <2>1. \A q \in Tasks : Pending(q)' <=> Pending(q)
    BY <1>1, <1>2, <1>3 DEF Pending
  <2>. QED  BY <2>1, MovedCounted
<1>. QED  BY <1>4, <1>5, <1>6, <1>7

\* A post to the looper h, of the handler thread or of the main thread.
LEMMA PostPlace ==
  ASSUME PlaceInv, SerialInv, MadeInv, NEW c \in Callers, NEW h \in Loopers, pc[c] # "idle",
         pc' = [pc EXCEPT ![c] = "idle"], Done(c),
         queue' = [queue EXCEPT ![h] = Append(@, cur[c])],
         UNCHANGED <<call, work, running, ran>>
  PROVE  PlaceInv'
<1>. DEFINE r == cur[c]
<1>. USE DEF PlaceInv, Done
<1>1. /\ r \in Tasks /\ r # None
      /\ cur \in [Callers -> Tasks \cup {None}] /\ pc \in [Callers -> Pcs]
      /\ queue \in [Loopers -> Seq(Tasks)]
  BY CallersAssumption DEF SerialInv, SerialTypeOK, MadeInv, LockOfMaker
<1>2. Called(r) /\ r \notin work /\ ~Queued(r) /\ ~Taken(r)
  BY <1>1 DEF Called, PlacesApart
<1>3. /\ Len(queue[h]) \in Nat /\ Len(queue'[h]) = Len(queue[h]) + 1
      /\ \A i \in 1 .. Len(queue[h]) : queue'[h][i] = queue[h][i]
      /\ queue'[h][Len(queue[h]) + 1] = r
      /\ \A g \in Loopers : g # h => queue'[g] = queue[g]
  BY <1>1
<1>4. \A q \in Tasks : Queued(q)' <=> Queued(q) \/ q = r
  BY <1>1, <1>3 DEF Queued
<1>5. /\ \A q \in Tasks : Called(q)' <=> Called(q) /\ q # r
      /\ \A q \in Tasks : Taken(q)' <=> Taken(q)
  BY <1>1, CallersAssumption DEF Called, Taken, OnceInPlace
<1>6. TasksTypeOK'
  BY <1>1 DEF TasksTypeOK
<1>7. OnceInPlace'
  <2>1. \A b, d \in Callers : cur'[b] = cur'[d] /\ cur'[b] # None => b = d
    BY <1>1 DEF OnceInPlace
  <2>2. \A g \in Loopers : \A i \in 1 .. Len(queue[g]) : queue[g][i] # r
    BY <1>2 DEF Queued
  <2>3. \A g, k \in Loopers : \A i \in 1 .. Len(queue'[g]), j \in 1 .. Len(queue'[k]) :
            queue'[g][i] = queue'[k][j] => g = k /\ i = j
    <3>. SUFFICES ASSUME NEW g \in Loopers, NEW k \in Loopers,
                         NEW i \in 1 .. Len(queue'[g]), NEW j \in 1 .. Len(queue'[k]),
                         queue'[g][i] = queue'[k][j]
                  PROVE  g = k /\ i = j
      OBVIOUS
    <3>1. \/ i \in 1 .. Len(queue[g]) /\ queue'[g][i] = queue[g][i]
          \/ g = h /\ i = Len(queue[h]) + 1 /\ queue'[g][i] = r
      BY <1>3
    <3>2. \/ j \in 1 .. Len(queue[k]) /\ queue'[k][j] = queue[k][j]
          \/ k = h /\ j = Len(queue[h]) + 1 /\ queue'[k][j] = r
      BY <1>3
    <3>. QED  BY <2>2, <3>1, <3>2 DEF OnceInPlace
  <2>. QED  BY <2>1, <2>3 DEF OnceInPlace
<1>8. PlacesApart'
  BY <1>1, <1>2, <1>4, <1>5 DEF PlacesApart
<1>9. RunsCounted'
  <2>1. \A q \in Tasks : Pending(q)' <=> Pending(q)
    BY <1>1, <1>2, <1>4, <1>5 DEF Pending
  <2>. QED  BY <2>1, MovedCounted
<1>. QED  BY <1>6, <1>7, <1>8, <1>9

LEMMA PoolRunsPlace ==
  ASSUME PlaceInv, NEW r \in Tasks, PoolRuns(r) PROVE PlaceInv'
<1>. USE DEF PlaceInv, PoolRuns
<1>1. \A q \in Tasks : /\ Called(q)' <=> Called(q)
                       /\ Queued(q)' <=> Queued(q)
                       /\ Taken(q)' <=> Taken(q)
  BY DEF Called, Queued, Taken
<1>2. TasksTypeOK'
  BY DEF TasksTypeOK
<1>3. OnceInPlace' /\ PlacesApart'
  BY <1>1 DEF OnceInPlace, PlacesApart
<1>4. RunsCounted'
  <2>1. Pending(r) /\ ~Pending(r)' /\ \A q \in Tasks : q # r => (Pending(q)' <=> Pending(q))
    BY <1>1 DEF Pending, PlacesApart
  <2>. QED  BY <2>1, RunCounted
<1>. QED  BY <1>2, <1>3, <1>4

LEMMA BeginPlace ==
  ASSUME PlaceInv, SerialInv, NEW h \in Loopers, Begin(h) PROVE PlaceInv'
<1>. DEFINE r == Head(queue[h])
<1>. USE DEF PlaceInv, Begin
<1>1. /\ queue \in [Loopers -> Seq(Tasks)] /\ running \in [Loopers -> Tasks \cup {None}]
      /\ r \in Tasks /\ r # None
  BY CallersAssumption DEF SerialInv, SerialTypeOK
<1>2. /\ Len(queue[h]) \in Nat \ {0} /\ r = queue[h][1]
      /\ Len(queue'[h]) = Len(queue[h]) - 1
      /\ \A i \in 1 .. Len(queue'[h]) : queue'[h][i] = queue[h][i + 1]
      /\ \A g \in Loopers : g # h => queue'[g] = queue[g]
  BY <1>1
<1>3. Queued(r)
  BY <1>2 DEF Queued
<1>4. ~Called(r) /\ r \notin work /\ ~Taken(r)
  BY <1>1, <1>3 DEF PlacesApart
<1>5. OnceInPlace'
  <2>1. \A g, k \in Loopers : running'[g] = running'[k] /\ running'[g] # None => g = k
    BY <1>1, <1>4 DEF OnceInPlace, Taken
  <2>2. \A g, k \in Loopers : \A i \in 1 .. Len(queue'[g]), j \in 1 .. Len(queue'[k]) :
            queue'[g][i] = queue'[k][j] => g = k /\ i = j
    <3>. SUFFICES ASSUME NEW g \in Loopers, NEW k \in Loopers,
                         NEW i \in 1 .. Len(queue'[g]), NEW j \in 1 .. Len(queue'[k]),
                         queue'[g][i] = queue'[k][j]
                  PROVE  g = k /\ i = j
      OBVIOUS
    <3>. DEFINE a == IF g = h THEN i + 1 ELSE i
                b == IF k = h THEN j + 1 ELSE j
    <3>1. a \in 1 .. Len(queue[g]) /\ queue'[g][i] = queue[g][a]
      BY <1>2
    <3>2. b \in 1 .. Len(queue[k]) /\ queue'[k][j] = queue[k][b]
      BY <1>2
    <3>3. g = k /\ a = b
      BY <3>1, <3>2 DEF OnceInPlace
    <3>. QED  BY <3>3
  <2>. QED  BY <2>1, <2>2 DEF OnceInPlace
<1>6. \A q \in Tasks : Queued(q)' <=> Queued(q) /\ q # r
  <2>1. ASSUME NEW q \in Tasks, Queued(q)' PROVE Queued(q) /\ q # r
    <3>1. PICK g \in Loopers : \E i \in 1 .. Len(queue'[g]) : queue'[g][i] = q
      BY <2>1 DEF Queued
    <3>2. PICK i \in 1 .. Len(queue'[g]) : queue'[g][i] = q
      BY <3>1
    <3>. DEFINE a == IF g = h THEN i + 1 ELSE i
    <3>3. a \in 1 .. Len(queue[g]) /\ queue[g][a] = q /\ (g = h => a # 1)
      BY <1>2, <3>2
    <3>4. 1 \in 1 .. Len(queue[h])
      BY <1>2
    <3>. QED  BY <1>2, <3>3, <3>4 DEF Queued, OnceInPlace
  <2>2. ASSUME NEW q \in Tasks, Queued(q), q # r PROVE Queued(q)'
    <3>1. PICK g \in Loopers : \E i \in 1 .. Len(queue[g]) : queue[g][i] = q
      BY <2>2 DEF Queued
    <3>2. PICK i \in 1 .. Len(queue[g]) : queue[g][i] = q
      BY <3>1
    <3>3. CASE g = h
      <4>1. i - 1 \in 1 .. Len(queue'[h]) /\ queue'[h][i - 1] = q
        BY <1>2, <2>2, <3>2, <3>3
      <4>. QED  BY <4>1 DEF Queued
    <3>4. CASE g # h  BY <1>2, <3>2, <3>4 DEF Queued
    <3>. QED  BY <3>3, <3>4
  <2>. QED  BY <2>1, <2>2
<1>7. /\ \A q \in Tasks : Taken(q)' <=> Taken(q) \/ q = r
      /\ \A q \in Tasks : Called(q)' <=> Called(q)
  BY <1>1, CallersAssumption DEF Taken, Called
<1>8. TasksTypeOK'
  BY DEF TasksTypeOK
<1>9. PlacesApart'
  BY <1>4, <1>6, <1>7 DEF PlacesApart
<1>10. RunsCounted'
  <2>1. \A q \in Tasks : Pending(q)' <=> Pending(q)
    BY <1>3, <1>4, <1>6, <1>7 DEF Pending
  <2>. QED  BY <2>1, MovedCounted
<1>. QED  BY <1>5, <1>8, <1>9, <1>10

LEMMA EndPlace ==
  ASSUME PlaceInv, SerialInv, NEW h \in Loopers, End(h) PROVE PlaceInv'
<1>. USE DEF PlaceInv, End
<1>0. running \in [Loopers -> Tasks \cup {None}]
  BY DEF SerialInv, SerialTypeOK
<1>1. PICK r \in Tasks : r = running[h] /\ r # None
  BY <1>0
<1>2. Taken(r) /\ ~Called(r) /\ r \notin work /\ ~Queued(r)
  BY <1>1 DEF Taken, PlacesApart
<1>3. \A q \in Tasks : /\ Taken(q)' <=> Taken(q) /\ q # r
                       /\ Called(q)' <=> Called(q)
                       /\ Queued(q)' <=> Queued(q)
  BY <1>0, <1>1, CallersAssumption DEF Taken, Called, Queued, OnceInPlace
<1>4. TasksTypeOK'
  BY <1>1 DEF TasksTypeOK
<1>5. OnceInPlace'
  BY <1>0 DEF OnceInPlace
<1>6. PlacesApart'
  BY <1>3 DEF PlacesApart
<1>7. RunsCounted'
  <2>1. Pending(r) /\ ~Pending(r)' /\ \A q \in Tasks : q # r => (Pending(q)' <=> Pending(q))
    BY <1>2, <1>3 DEF Pending
  <2>. QED  BY <1>1, <2>1, RunCounted
<1>. QED  BY <1>4, <1>5, <1>6, <1>7

LEMMA NextPlace == PlaceInv /\ SerialInv /\ MadeInv /\ [Next]_vars => PlaceInv'
<1>. SUFFICES ASSUME PlaceInv, SerialInv, MadeInv, [Next]_vars PROVE PlaceInv'
  OBVIOUS
<1>. USE DEF execVars
<1>1. ASSUME NEW c \in Callers, NEW r \in Tasks,
             poolExecute(c, r) \/ serialExecute(c, r) \/ runOnUiThread(c, r)
      PROVE  PlaceInv'
  BY <1>1, SubmitPlace DEF poolExecute, serialExecute, runOnUiThread, OnMain, Ops, Pcs
<1>2. ASSUME NEW c \in Callers, getExecutor(c) \/ getSerialHandler(c) \/ getLooper(c)
      PROVE  PlaceInv'
  BY <1>2, KeepPlace DEF getExecutor, getSerialHandler, getLooper, Goto, Pcs
<1>3. ASSUME NEW c \in Callers, execute(c) PROVE PlaceInv'
  BY <1>3, executePlace
<1>4. ASSUME NEW c \in Callers, post(c) \/ postUi(c) PROVE PlaceInv'
  <2>1. sHandler \in Loopers \/ ~post(c)
    BY LoopersFacts DEF MadeInv, post, Goto
  <2>. QED  BY <1>4, <2>1, LoopersFacts, PostPlace DEF post, postUi, Goto
<1>5. ASSUME NEW r \in Tasks, PoolRuns(r) PROVE PlaceInv'
  BY <1>5, PoolRunsPlace
<1>6. ASSUME NEW h \in Loopers, Begin(h) \/ End(h) PROVE PlaceInv'
  BY <1>6, BeginPlace, EndPlace
<1>7. CASE Prepare \/ UNCHANGED vars
  BY <1>7 DEF Prepare, vars, PlaceInv, TasksTypeOK, OnceInPlace, PlacesApart, RunsCounted,
     NewTasks, Runs, Twice, Pending, Called, Queued, Taken
<1>. QED
  BY <1>1, <1>2, <1>3, <1>4, <1>5, <1>6, <1>7 DEF Next, Goes

\* No task is run twice, except one that runOnUiThread is given on the main
\* thread, for which the missing return is the only reason.
THEOREM RunsOnceCorrect == Spec => []RunsOnce
<1>1. PlaceInv => RunsOnce
  BY DEF PlaceInv, TasksTypeOK, RunsCounted, RunsOnce, Runs, Twice
<1>. QED
  BY <1>1, InitMade, NextMade, InitSerial, NextSerial, InitPlace, NextPlace, PTL DEF Spec

-----------------------------------------------------------------------------
(* Type correctness.                                                         *)

LooperReady == ready \subseteq 1 .. handlers

LEMMA NextReady == LooperReady /\ MadeInv /\ [Next]_vars => LooperReady'
<1>. SUFFICES ASSUME LooperReady, MadeInv, [Next]_vars PROVE LooperReady'
  OBVIOUS
<1>. USE DEF LooperReady, staticVars
<1>1. ASSUME UNCHANGED <<ready, handlers>> PROVE LooperReady'
  BY <1>1
<1>2. ASSUME NEW c \in Callers, getSerialHandler(c) PROVE LooperReady'
  BY <1>2 DEF getSerialHandler, MadeInv
<1>3. CASE Prepare
  BY <1>3 DEF Prepare, MadeInv, LockOfMaker
<1>4. ASSUME NEW c \in Callers, Goes(c), ~getSerialHandler(c) PROVE LooperReady'
  BY <1>1, <1>4 DEF Goes, getExecutor, getLooper, execute, post, postUi
<1>5. ASSUME NEW c \in Callers, NEW r \in Tasks,
             poolExecute(c, r) \/ serialExecute(c, r) \/ runOnUiThread(c, r)
      PROVE  LooperReady'
  BY <1>1, <1>5 DEF poolExecute, serialExecute, runOnUiThread
<1>6. ASSUME NEW r \in Tasks, PoolRuns(r) PROVE LooperReady'
  BY <1>1, <1>6 DEF PoolRuns
<1>7. ASSUME NEW h \in Loopers, Begin(h) \/ End(h) PROVE LooperReady'
  BY <1>1, <1>7 DEF Begin, End
<1>8. CASE UNCHANGED vars
  BY <1>1, <1>8 DEF vars
<1>. QED
  BY <1>2, <1>3, <1>4, <1>5, <1>6, <1>7, <1>8 DEF Next

\* Every variable keeps its type; in particular no task is run a third time.
THEOREM TypeCorrect == Spec => []TypeOK
<1>1. Init => LooperReady
  BY DEF Init, LooperReady
<1>2. MadeInv /\ SerialInv /\ PlaceInv /\ LooperReady => TypeOK
  <2>. SUFFICES ASSUME MadeInv, SerialInv, PlaceInv, LooperReady PROVE TypeOK
    OBVIOUS
  <2>1. {sPool, sHandler, pools, handlers} \subseteq Loopers
    BY LoopersFacts DEF MadeInv, LockOfMaker
  <2>2. ran \in [Tasks -> 0 .. 2]
    BY DEF PlaceInv, TasksTypeOK, RunsCounted, Runs
  <2>3. \A r \in Tasks \ NewTasks : call[r] \in Ops \X Callers
    BY DEF PlaceInv, TasksTypeOK, NewTasks
  <2>. QED
    BY <2>1, <2>2, <2>3
       DEF TypeOK, MadeInv, LockOfMaker, Pcs, SerialInv, SerialTypeOK, PlaceInv, TasksTypeOK,
           LooperReady
<1>. QED
  BY <1>1, <1>2, NextReady, InitMade, NextMade, InitSerial, NextSerial, InitPlace, NextPlace,
     PTL DEF Spec
=============================================================================

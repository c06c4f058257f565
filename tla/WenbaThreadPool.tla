--------------------------- MODULE WenbaThreadPool ---------------------------
(***************************************************************************)
(* WenbaThreadPool.java: a task is given to a cached pool, to a handler    *)
(* thread or to the UI thread.  Pool and handler thread are made by the    *)
(* first caller, under the lock of the class.                              *)
(*                                                                         *)
(* The executor and the loopers are Android's: a pool runs what it is given*)
(* on a thread of its own, a looper one after the other.  Looper 0 is the  *)
(* main thread's, the others are numbered when they are made.              *)
(***************************************************************************)
EXTENDS Naturals, FiniteSets, SequencesExt

CONSTANTS Callers, Main, Tasks, None

ASSUME CallersAssumption == Main \in Callers /\ None \notin Callers \cup Tasks
ASSUME FiniteAssumption == IsFiniteSet(Callers) /\ IsFiniteSet(Tasks)

VARIABLES
    sPool, sHandler,   \* 0 is null
    pools, handlers,   \* how many were made
    ready,             \* handler threads that have prepared their looper
    holder,            \* who waits for a looper with the lock of the class held
    call,              \* [Tasks -> << >> or the call that handed it over]
    pc, cur,           \* callers
    work,              \* tasks given to a pool
    queue, running,    \* [Loopers -> ...]
    ran,               \* history: how often each task was run
    posted, began      \* history: tasks in the order of post, of beginning

staticVars == <<sPool, sHandler, pools, handlers, ready, holder>>
execVars == <<work, queue, running, ran, began>>
vars == <<staticVars, call, pc, cur, execVars, posted>>

Loopers == 0 .. Cardinality(Callers)
Ops == {"poolExecute", "serialExecute", "runOnUiThread"}
NewTasks == {r \in Tasks : call[r] = << >>}

TypeOK ==
    /\ {sPool, sHandler, pools, handlers} \subseteq Loopers
    /\ ready \subseteq 1 .. handlers
    /\ holder \in Callers \cup {None}
    /\ \A r \in Tasks \ NewTasks : call[r] \in Ops \X Callers
    /\ pc \in [Callers -> {"idle", "getExecutor", "execute", "getSerialHandler",
                           "getLooper", "post", "postUi"}]
    /\ cur \in [Callers -> Tasks \cup {None}]
    /\ work \subseteq Tasks
    /\ queue \in [Loopers -> Seq(Tasks)]
    /\ running \in [Loopers -> Tasks \cup {None}]
    /\ ran \in [Tasks -> 0 .. 2]
    /\ posted \in Seq(Tasks) /\ began \in Seq(Tasks)

Init ==
    /\ sPool = 0 /\ sHandler = 0 /\ pools = 0 /\ handlers = 0
    /\ ready = {} /\ holder = None
    /\ call = [r \in Tasks |-> << >>]
    /\ pc = [c \in Callers |-> "idle"]
    /\ cur = [c \in Callers |-> None]
    /\ work = {}
    /\ queue = [h \in Loopers |-> << >>]
    /\ running = [h \in Loopers |-> None]
    /\ ran = [r \in Tasks |-> 0]
    /\ posted = << >> /\ began = << >>

-----------------------------------------------------------------------------
(* Callers.  An operator called Faulty... is a wrong version of the one      *)
(* after it, with which the properties are validated.                        *)

Goto(c, from, to) == pc[c] = from /\ pc' = [pc EXCEPT ![c] = to]

\* Both tests of a field, the one before the lock and the one in it.
FaultyIsNull(field) == TRUE
IsNull(field) == field = 0

\* A call and the first test of the field; the main thread calls when its
\* looper is not running a task.
Submit(c, r, op, next) ==
    /\ c = Main => running[0] = None
    /\ r \in NewTasks
    /\ call' = [call EXCEPT ![r] = <<op, c>>]
    /\ cur' = [cur EXCEPT ![c] = r]
    /\ Goto(c, "idle", next)

poolExecute(c, r) ==
    /\ Submit(c, r, "poolExecute", IF IsNull(sPool) THEN "getExecutor" ELSE "execute")
    /\ UNCHANGED <<staticVars, execVars, posted>>

serialExecute(c, r) ==
    /\ Submit(c, r, "serialExecute", IF IsNull(sHandler) THEN "getSerialHandler" ELSE "post")
    /\ UNCHANGED <<staticVars, execVars, posted>>

\* There is no return after the run on the main thread, so it posts as well.
FaultyOnMain(c) == TRUE
OnMain(c) == c = Main

runOnUiThread(c, r) ==
    /\ Submit(c, r, "runOnUiThread", "postUi")
    /\ ran' = IF OnMain(c) THEN [ran EXCEPT ![r] = @ + 1] ELSE ran
    /\ UNCHANGED <<staticVars, work, queue, running, began, posted>>

getExecutor(c) ==
    /\ holder = None
    /\ Goto(c, "getExecutor", "execute")
    /\ IF IsNull(sPool) THEN sPool' = pools + 1 /\ pools' = pools + 1
                        ELSE UNCHANGED <<sPool, pools>>
    /\ UNCHANGED <<sHandler, handlers, ready, holder, call, cur, execVars, posted>>

getSerialHandler(c) ==
    /\ holder = None
    /\ Goto(c, "getSerialHandler", IF IsNull(sHandler) THEN "getLooper" ELSE "post")
    /\ IF IsNull(sHandler) THEN handlers' = handlers + 1 /\ holder' = c
                           ELSE UNCHANGED <<handlers, holder>>
    /\ UNCHANGED <<sPool, sHandler, pools, ready, call, cur, execVars, posted>>

FaultyUnlock == UNCHANGED holder
Unlock == holder' = None

getLooper(c) ==
    /\ handlers \in ready
    /\ Goto(c, "getLooper", "post")
    /\ sHandler' = handlers
    /\ Unlock
    /\ UNCHANGED <<sPool, pools, handlers, ready, call, cur, execVars, posted>>

Done(c) == cur' = [cur EXCEPT ![c] = None]

execute(c) ==
    /\ Goto(c, "execute", "idle") /\ Done(c)
    /\ work' = work \cup {cur[c]}
    /\ UNCHANGED <<staticVars, call, queue, running, ran, began, posted>>

post(c) ==
    /\ Goto(c, "post", "idle") /\ Done(c)
    /\ queue' = [queue EXCEPT ![sHandler] = Append(@, cur[c])]
    /\ posted' = Append(posted, cur[c])
    /\ UNCHANGED <<staticVars, call, work, running, ran, began>>

postUi(c) ==
    /\ Goto(c, "postUi", "idle") /\ Done(c)
    /\ queue' = [queue EXCEPT ![0] = Append(@, cur[c])]
    /\ UNCHANGED <<staticVars, call, work, running, ran, began, posted>>

-----------------------------------------------------------------------------
(* The threads that run the tasks.                                           *)

PoolRuns(r) ==
    /\ r \in work
    /\ work' = work \ {r}
    /\ ran' = [ran EXCEPT ![r] = @ + 1]
    /\ UNCHANGED <<staticVars, call, pc, cur, queue, running, began, posted>>

Prepare ==
    /\ holder # None
    /\ handlers \notin ready
    /\ ready' = ready \cup {handlers}
    /\ UNCHANGED <<sPool, sHandler, pools, handlers, holder, call, pc, cur, execVars, posted>>

Begin(h) ==
    /\ running[h] = None /\ queue[h] # << >>
    /\ h = 0 => pc[Main] = "idle"
    /\ running' = [running EXCEPT ![h] = Head(queue[h])]
    /\ queue' = [queue EXCEPT ![h] = Tail(@)]
    /\ began' = IF h = 0 THEN began ELSE Append(began, Head(queue[h]))
    /\ UNCHANGED <<staticVars, call, pc, cur, work, ran, posted>>

End(h) ==
    /\ running[h] # None
    /\ ran' = [ran EXCEPT ![running[h]] = @ + 1]
    /\ running' = [running EXCEPT ![h] = None]
    /\ UNCHANGED <<staticVars, call, pc, cur, work, queue, began, posted>>

-----------------------------------------------------------------------------
Goes(c) == getExecutor(c) \/ getSerialHandler(c) \/ getLooper(c)
           \/ execute(c) \/ post(c) \/ postUi(c)

Next ==
    \/ \E c \in Callers, r \in Tasks :
          poolExecute(c, r) \/ serialExecute(c, r) \/ runOnUiThread(c, r)
    \/ \E c \in Callers : Goes(c)
    \/ \E r \in Tasks : PoolRuns(r)
    \/ \E h \in Loopers : Begin(h) \/ End(h)
    \/ Prepare

\* Threads are scheduled; nobody has to call.  A caller competes for the lock of
\* the class with calls that end, of which there are finitely many.
Fairness ==
    /\ \A c \in Callers : WF_vars(Goes(c))
    /\ \A r \in Tasks : WF_vars(PoolRuns(r))
    /\ \A h \in Loopers : WF_vars(Begin(h)) /\ WF_vars(End(h))
    /\ WF_vars(Prepare)

Spec == Init /\ [][Next]_vars
FairSpec == Spec /\ Fairness

-----------------------------------------------------------------------------
(* Properties.                                                               *)

\* The tasks handed to serialExecute run one at a time, in the order of their
\* posts, whoever made the handler thread.
SerialOrder ==
    /\ IsPrefix(began, posted)
    /\ Cardinality({h \in Loopers \ {0} : running[h] # None}) <= 1

\* However many threads come first at the same time, they share one pool and
\* one handler thread.
MadeOnce == pools <= 1 /\ handlers <= 1

\* A task is run once, except that runOnUiThread runs it twice on the main
\* thread: once in the call, and once more when its post is looked at.
RunsOnce ==
    \A r \in Tasks : ran[r] > 1 => call[r] = <<"runOnUiThread", Main>>

\* A task that was handed over is run, and one runOnUiThread was called with on
\* the main thread is run again.  In particular nobody is kept for ever by the
\* caller that waits for a looper inside the lock of the class.
TaskRuns ==
    \A r \in Tasks :
        /\ (call[r] # << >>) ~> (ran[r] >= 1)
        /\ (call[r] = <<"runOnUiThread", Main>>) ~> (ran[r] = 2)
=============================================================================

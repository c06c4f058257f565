# TestGateway: verification project

TestGateway is an Android program that logs in to a messaging gateway. Its own logic is
an activity and a Java manager (`MediaControlManager`) on a native bridge
(`media_jni.cpp`) to a closed SDK (`libgateway.a`), a native logger (`live_log.cpp`) that
hands its messages to a Java log buffer (`LiveLog`), and a small thread pool. This
directory holds TLA+ models of all of these, the configurations TLC checks them with, and
theorems about them that TLAPS proves.

    tlc -workers 2 -config MCMediaJniApp.cfg MCMediaJni
    tlapm MediaJniProofs.tla

## 1. Inventory

Java paths are below `src/app/src/main/java/`, native ones below `src/app/jni/`.

| Component | State | Operations | Interacts with |
|---|---|---|---|
| Native bridge, `media_control/media_jni.cpp` | `sCallbackMap` (sequence number to global reference), `sCallBackLockMutex`, `sMediaInstance`, `sRequestManager` | `JNI_start`, `JNI_stop`, `JNI_destory`, `JNI_login`, `JNI_logout`, `JNI_SendMsg`, `JNI_SendMsgToUser`; the handlers of `ResponseHandler` | called by the manager on the UI thread (start) and on pool threads (requests); calls the SDK; is called back on SDK threads; calls Java |
| Gateway SDK, `include/request.h`, `response.h` | the manager's receiver thread, its relogin timer, the sequence counter, answers on their way | `Start`, `Stop`, `Login`, `Logout`, `SendMsg`, `SendMsgToUser`, `CreateGwSeq` | closed binary; calls `IResponse` on its own threads |
| Library loading, `registerNatives`, `media_jni_init`, `JNI_OnLoad` | cached classes and methods | registration at load time | starts the native logger |
| Native logger, `logger/live_log.cpp` | `sIsAlive`, `sLock`, `sLockCond`, `sLogEntryList`, the logger thread | `liveLog_Log` (any thread), `logger_thread`, `live_log_start`, `live_log_stop` | hands entries to `LiveLog.e` |
| Java manager, `testgateway/.../MediaControlManager.java` | singleton, connection status, notify listener | `init`, `login`, `logout`, `sendMsgToUser`; `OnDisconnect`, `OnRecvMsg`, `OnReconnectSuccess`, `OnStartReconnect` | posts requests to the pool; is called back by the bridge |
| Activity, `RequestMainActivity.java` | none but the layout | clicks, `onCreate` | calls the manager |
| Thread pool, `WenbaThreadPool.java` | a cached pool, a serial handler thread, the UI handler | `poolExecute`, `serialExecute`, `runOnUiThread` | runs requests |
| Java log buffer, `com/wenba/live/LiveLog.java` | an early buffer, the instance's buffer | `e`, `createInstance`, `getLogs`, `destory` | called by the logger thread and by Java code |
| Response decoding, `BaseModel`, `LoginRespModel`, `JSONToBeanHandler` | none | JSON to bean | reads the keys the bridge writes |
| `responseapp`, vendored headers and libraries | | | a template activity; Poco, fastjson, JNI helper macros |

What is hard here, and what makes each part correct:

* **Bridge.** Request threads, the UI thread, the SDK's receiver and its timer meet in
  four statics and one mutex, and two of the statics (`sMediaInstance`,
  `sRequestManager`) are read without it. Correct means: a Java callback is held by
  exactly one party, called at most once and with its own answer, never used after it is
  deleted, released in the end; the instance the SDK's threads call is live; start and stop
  come back.
* **Native logger.** The classical errors of a condition variable: lost wake-ups, a lock
  held in a wait, a stop that nobody hears. Correct means: in order, once, none lost while
  the logger runs, callers come back, and a clean stop.
* **Manager and activity.** A status field written by a click and by SDK threads; a start
  whose result nobody looks at; three forms of an answer. Correct means that a click finds
  a live instance and a manager and that the start's result says whether the SDK runs, that
  the status follows the SDK's reports, and that a callback is told
  what the server said.
* **Log buffer.** Two unsynchronised buffers and a copy from one to the other. Correct
  means that a message is returned at most once, and lost only for a known reason.
* **Thread pool.** Lazy creation by whoever comes first, and a wait for another thread
  inside a lock. Correct means: made once, every task run, serial tasks in order.

`PROJECT.json` lists the hazards one by one with their source lines and the properties
that cover them.

## 2. Modules

| Module | Models |
|---|---|
| `GatewaySdk` | the SDK as the bridge sees it (external code): managers, sequence numbers, answers owed, relogin timer |
| `MediaJni` | the bridge: extends `GatewaySdk` and says what each handler does when the SDK reports |
| `CallbackContract` | abstract: what a caller may expect of a callback it hands to a request |
| `ResponseCodec` | pure operators: the JSON objects the bridge writes and the beans made of them |
| `GatewayApp` | activity and manager, composed with `MediaJni` and `ResponseCodec` |
| `LiveLogNative` | the native logger |
| `LiveLogJava` | the Java log buffer |
| `WenbaThreadPool` | the pool and its handlers |
| `MC...` | instances for TLC (symmetry sets) |
| `MediaJniProofs`, `InstanceProofs`, `ContractProofs`, `AnswerProofs` | theorems about `MediaJni` |
| `GatewayAppProofs`, `LiveLogProofs`, `LiveLogJavaProofs`, `WenbaThreadPoolProofs` | theorems about `GatewayApp`, `LiveLogNative`, `LiveLogJava`, `WenbaThreadPool` |

In every module a step ends where another thread can interfere: at a lock, an unlock, an
unlocked access to a shared field, or a call of another component. Operators named
`Faulty...` are wrong versions of the operator after them, each one bug a programmer might
make. They are not part of the specification; with one of them put in the place of
the right one, TLC must find the property it belongs to violated.

### MediaJni

The state is the four statics of the file, the live global references (`cbRefs`,
`instRefs`), the SDK threads attached to the JVM, and one program counter for each thread.
A reference to a callback is named by the request it belongs to, a reference to the
instance by the number of the start that made it, so that a deleted reference can be told
from a live one. The mutex is a variable only because `JNI_stop` holds it across
steps; everyone else takes and gives it back in one step.

| Threads | Actions | Code |
|---|---|---|
| request | `Post`, `BeginRequest`, `addRequestCallback` (`RefuseDirectly` or `StoreCallback`), `CallSdk` | `JNI_login` and its three siblings |
| control | `JNI_start`, `JNI_stop`, `JNI_destory`; `StopBegin`, `StopJoin`, `StopDelete`, `StopClear`; `StartLocked`; `destoryRequestManager` | the functions of those names |
| receiver | `OnAnswer`, `getRequestCallback`, `AnswerFails`, `InvokeCallback`, `ReleaseCallback` | `OnLogin`, `OnLogout` |
| receiver, timer | `ReceiverNotifies`, `TimerNotifies`, `CheckInstance`, `CallInstance` | `OnRecvMsg`, `OnReloginSuccess`, `OnStartRelogin`, `OnDisconnect` |

`JNI_start` calls `JNI_stop` when it finds an instance, so a control thread passes through
the stop steps with `call = "start"`. Sequence numbers are `% SeqMod`, 2^32 in the
program. `calls` and `sfor` are history: whose answer each callback was given. A call on
a `NULL` manager ends the behaviour (`crashed`). `StartLocked(c, ret)` is the part of
`JNI_start` under the lock, with its result. `BeginRequest` reads `sRequestManager` and draws
the sequence number in one step; only `JNI_destory`, which the app never calls, makes a
later read differ, so what this leaves out is a destory and another draw between the two.
`JniMayFail` switches on the failures of `AttachCurrentThread` and `NewObject` that the
handlers test for; `AnswerFails` keeps their two early returns, the second of which leaves the
thread attached.

### GatewaySdk

The repository has only headers for the SDK and the compiled archive. Taken as facts, and
named here because every result about the bridge rests on them: `Start` runs a receiver
thread if it returns true, and none if it returns false (`request.h:35`), which it may do at
any call; `Stop` joins it, but not the thread of the relogin timer; `CreateGwSeq` increments
a counter that starts at 0 and returns it; an answer to `Login` or `Logout` carries
either the request's number or one the SDK draws itself, may be repeated, and never
comes from a stopped manager; messages are not answered (`response.h` has no handler that
carries a sent message's number, except `OnSendMsgError`, which the bridge only logs).
Whatever else the headers leave open is a choice: whether there is an answer, whether a
stop loses what was on its way, when the connection is lost.

### ResponseCodec and GatewayApp

A JSON object is a function on its keys. `LoginJson`, `LogoutJson` and `RefusalJson` are
what `OnLogin`, `OnLogout` and `addRequestCallback` write (`code`, `errCode`, and the
string `"-1"`), `jint` is the narrowing of an unsigned `errCode` (`UInt32`) and a 64-bit
`userId` to an int (`IntRange` is 2^31 in the program), and `BaseModel` and `LoginRespModel` are what `JSONToBeanHandler` makes of them: a property without a
key keeps its initial value, a key without a property is ignored.

`GatewayApp` adds to `MediaJni` the UI thread's `onClick` and `setConncetStatus`, the
status field, which of the manager's methods an SDK thread is about to call (`event`), what
the server answered (`result`) and what each `respCallBack` was given (`beans`). `init` is
the end of `fun_start`; its result is kept in `ret`, history that the program drops
(`MediaControlManager.java:127`). Each of its
actions is an action of `MediaJni` with what Java adds to it (`onClick` is `Post`, `Refuse`
is `addRequestCallback`, `Answer` is `InvokeCallback`, `Notify`, `GiveUp`, `Check` and
`Deliver` are the notifications), one of the UI thread alone, or a `BridgeStep` Java does
not notice. That it drives the bridge only as `MediaJni` allows is the theorem
`AppImplementsBridge`. A call on a deleted instance may or may not set the status: the JVM
decides.

### LiveLogNative

Callers test `sIsAlive` without the lock and then add; the logger tests it, locks, waits
or drains with the lock held; start creates the thread before it sets `sIsAlive`; stop
clears it, broadcasts, joins and cleans. A waiter that is woken has to take the lock
again, and may wake by itself. `LeftByClean` is what the clean-up loop leaves behind: the
iterator is advanced after `erase` has already done so, and running past the end enters
the ring of the list again, as the standard library's list is built. Use of the destroyed
mutex or list, or of the `NULL` that the second `malloc` of `liveLog_LogV` (143) may return
untested, ends the behaviour (`misused`).

### LiveLogJava

A `StringBuffer` is atomic in each method and nothing more, so every access is a step: `e`
reads the instance once, `checkLength` is the synchronized block, `append` comes after it;
`createInstance` tests, tests again under the lock (`newInstance`), reads the instance
again (`readTarget`), reads the early buffer, appends the copy, empties the early buffer,
and reads the instance once more to return it (`returnInstance`), which may be null by then;
`getLogs` reads, then empties; `destory` forgets the instance, then empties both buffers.
Both are called on an instance that some creator has returned (`Given`), by any number of
threads at the same time (`Readers`, `Destroyers`), as neither takes a lock. A
message is its thread and number, and a buffer's length the number of its messages. `gap`,
`overlap` and `since` are history: has one of the reasons happened for which this code
loses a message, have two creators copied or two calls of `getLogs` read the same buffer at
the same time, and how many calls of `destory` had there been when a creator began.

### WenbaThreadPool

A caller tests a field, waits for the lock of the class if it was null, tests again, makes
pool or handler thread, and hands its task over; `getSerialHandler` waits for the new
thread's looper with the lock held (`holder`). Executors and loopers are Android's: a
pool runs each task on a thread of its own, a looper one after the other. The main thread
calls and runs its looper, never both at once. `runOnUiThread` on the main thread runs
the task and, as there is no return, posts it too.

## 3. Runs

| Run | Instance | What it shows |
|---|---|---|
| `app` | 1 manager, 2 requests (login or message), 1 control thread that starts twice, 3 numbers, the SDK may draw 2, JVM calls may fail | type invariant; `CallbackOwnership`, `CalledOnce`, `OwnAnswer`, `ReceiverSeesLiveInstance`, `OneInstance`; implements `CallbackContract` |
| `control` | 2 managers, 2 control threads with start, stop and destory, 1 request, no JVM failure | `CallbackOwnership`, `OneInstance`, `JoinedDetached` and the contract when control calls race |
| `live` | 2 logins, 2 starts, fair | `AnswerArrives`, `ControlReturnsUnlessJammed`, `RequestReturnsUnlessJammed`: everything comes to its end, or the one known deadlock has happened |
| `gateway_app` | 1 manager, 2 requests of 3 kinds, 2 starts, an int of 5 bits (-16 to 15), codes 0, 10 and one that does not fit, user ids that do and do not fit | `StartedWhenClickable`, `ReportsReachStatus`, `SuccessIsReal`, `LoginShown` |
| `log` | 3 entries, 2 starts, stop, failing `pthread_create` and `malloc`, fair | `NoLostWakeup`, `DeliveredOnce`, `JoinedBeforeDestroy`, `Fifo`; `EventuallyLogged`, `CallerReturns` |
| `live_log_java` | 2 threads with 2 messages each, 2 creators, 2 readers with 2 calls of `getLogs` between them, 1 `destory`, `MAX_LENGTH` 1 | `AtMostOnce`, `LostOnlyInGap`, `OneInstance`, `Bounded` |
| `pool` | main thread and another, 3 tasks, fair | `MadeOnce`, `SerialOrder`, `RunsOnce`, `TaskRuns` |

Runs that end in a violation, each a disagreement between the code and what the repository
says of it:

| Run | Disagreement |
|---|---|
| `stop_deadlock` | `JNI_stop` holds the mutex while it joins the receiver, which may be waiting for that mutex in `OnLogin`: the activity's restart never returns |
| `message_callback` | the callback of a sent message is stored, never called, and its reference kept until the next stop |
| `log_stop_hangs` | the logger's inner wait does not look at `sIsAlive`: a stop of an idle logger joins for ever |
| `log_clean_leaks` | the clean-up loop frees every second entry |
| `log_start_race` | a logger thread that runs before `sIsAlive` is set ends at once, and the logger is "started" with nobody to empty the list |

What the properties say of the code beyond these:

* `StartedWhenClickable` says what a click may rely on although a start may fail: instance and
  manager are there, so no request calls `NULL`, and the result that was dropped stays the
  truth about the SDK through reports and restarts. It does not say that the SDK runs: after
  a failed start (`request.h:35`) the activity goes on, and the requests of its clicks go to
  an SDK that does not run and answers nothing.
* `AtMostOnce` has two exceptions, both reachable and both in its definition (`overlap`): two
  creators that copy the early buffer at the same time, and two calls of `getLogs` that both
  read the buffer before either empties it.
* `OneInstance` lets a creator find or return null only if a `destory` has come after its
  beginning.

* `SuccessIsReal` is one direction only: a logout that succeeded is *not* shown as success,
  because `OnLogout` writes `errCode` and the bean has only `code`.
* `LoginShown` needs its conditions: a user id or an error code of 2^31 or more reaches Java
  as another number. `SuccessIsReal` needs none: no other code of 32 bits becomes 0 or 10.
* `ReportsReachStatus` holds up to the next click and the timer thread: a click on
  "start_login" sets `CONNECTED` whatever has been reported, and the timer thread is not
  joined by a stop.
* `LostOnlyInGap` names every way a message can get lost: the length limit, `destory`, and the
  gap between reading and emptying a buffer in `getLogs` and `createInstance`.
* `Bounded` is `MAX_LENGTH` and one message for each thread, not `MAX_LENGTH`; the
  instance's buffer may hold a copy of the early one for each creator on top.
* `RunsOnce` excepts `runOnUiThread` on the main thread, whose task runs twice
  (`TaskRuns` says that it always does).

**Bounds.** Two requests are enough for two callbacks to meet under one number, in the map
or in one receiver's hand. Two starts give a restart with everything of the first
start still under way. In `app`, three numbers and up to four draws or more make the counter
wrap, hand out the 0 that means "not logged in", and hand out a number whose first user is
still in the map; `OwnAnswer`, which holds only until the counter wraps, is left with the
draws of both requests. Two managers are needed because `JNI_destory` forgets a manager
without destroying it. `live` has no wrap (4 numbers) and no failing JVM, since both may
rightly leave a callback uncalled. In `live_log_java` two messages of a thread make the
second find a buffer longer than `MAX_LENGTH`; two creators make the copies overlap, two
readers both read before either empties, and one destory makes a second instance. In `pool`
three tasks let the second and third caller come while the first is inside the lock. `MaxStarts`, `MaxDraws`, `MaxMessages`, `MaxGets`,
`MaxDestroys` and the finite sets of requests, entries, creators and tasks are the only
limits; the theorems of section 5 need none of them.

**Deadlock** is not checked: requests, starts, log calls and tasks are bounded and nothing
forces the network to report, so the systems may really come to rest.
`ControlReturnsUnlessJammed`, `RequestReturnsUnlessJammed`, `CallerReturns` and `TaskRuns` ask
the question that deadlock checking would.

**Symmetry** is used only in runs without liveness properties.

## 4. Fairness

*Bridge.* Weak fairness for the steps of each thread: the operating system schedules pool,
UI and SDK threads alike, and nothing in the code gives one of them up. Strong fairness for
`OnAnswer`: an answer on its way is an event in the receiver's queue, and the receiver,
busy with other events in between, comes to it. No fairness for what nobody owes:
requests, starts, stops, disconnections, relogins.

Under it `ControlReturns` is false (`stop_deadlock`). `Jammed` names that deadlock, a stop
that waits for a receiver that waits for the lock of that stop, and the properties of `live`
say that it is the only thing that can keep a start, a request or an answered callback
from coming to its end.

*Logger.* Weak fairness for the logger's steps, for the control thread and for each caller
in `add_to_logList`; none for log calls, starts, stops and spurious wake-ups. Callers need
only weak fairness because the entries are finite, so the lock is free from some point on.

*Pool.* Weak fairness for each caller's steps, for each task of the pool, each looper and
the handler thread's `Prepare`; nobody has to call.

`LiveLogJava` and `GatewayApp` are checked for safety only.

## 5. Proofs

Every invariant and every action property of every passing run is stated by a theorem, and
so is the refinement of `CallbackContract`. All theorems hold for every value of the
constants, and assume only what the modules assume of them: numbers are numbers, the null
values are not ordinary values, the app has one control thread that only starts, the
server's codes are unsigned 32-bit numbers and its user ids natural ones (`ServerAssumption`,
after `header.h`), the pool's callers are finite and include the main thread, the threads and
creators of the Java log are finite.

| Module | Theorem | Statement |
|---|---|---|
| `MediaJniProofs` | `TypeCorrect`, `OwnershipCorrect`, `CalledOnceCorrect` | `Spec => []TypeOK`, `[]CallbackOwnership`, `[]CalledOnce` |
| `InstanceProofs` | `OneInstanceCorrect`, `JoinedDetachedCorrect`, `ReceiverSeesLiveInstanceCorrect` | `Spec => []OneInstance`, `[]JoinedDetached`, `[]ReceiverSeesLiveInstance` |
| `ContractProofs` | `ContractKept` | `Spec => KeepsContract`: the bridge implements `CallbackContract` |
| `AnswerProofs` | `OwnAnswerCorrect` | `Spec => []OwnAnswer` |
| `GatewayAppProofs` | `AppImplementsBridge`, `AppCallbacks`, `StartedCorrect` | `AppSpec => Spec`; the bridge's theorems in the app; `AppSpec => []StartedWhenClickable` |
| | `SuccessIsRealCorrect`, `LoginShownCorrect`, `ReportsReachStatusCorrect`, `AppTypeCorrect` | `AppSpec => []SuccessIsReal`, `[]LoginShown`, `[]ReportsReachStatus`, `[]AppTypeOK` |
| `LiveLogProofs` | `NoLostWakeupCorrect`, `JoinedBeforeDestroyCorrect`, `DeliveredOnceCorrect`, `FifoCorrect`, `TypeCorrect` | `Spec => []...`, `Spec => Fifo` |
| `LiveLogJavaProofs` | `OneInstanceMade`, `AtMostOnceCorrect`, `NothingElseLost`, `BoundedCorrect`, `TypeCorrect` | `Spec => []OneInstance`, `[]AtMostOnce`, `[]LostOnlyInGap`, `[]Bounded`, `[]TypeOK` |
| `WenbaThreadPoolProofs` | `MadeOnceCorrect`, `SerialOrderCorrect`, `RunsOnceCorrect`, `TypeCorrect` | `Spec => []MadeOnce`, `[]SerialOrder`, `[]RunsOnce`, `[]TypeOK` |

**Ownership.** `CallbackOwnership` and `CalledOnce` are not inductive. The proof strengthens
them to

    OwnershipInv == NewHasNone /\ MapOwns /\ HandOwns /\ NoneLeaks /\ CalledOnce

* `NewHasNone`: a request that has not reached `addRequestCallback` has no reference, no
  map entry and no call. Without it, storing a callback could duplicate one.
* `MapOwns`: a mapped callback is live, under its own request's number, in no thread's hand
  and not yet called. Since a request has one number, no callback is mapped twice.
* `HandOwns`: a callback in a thread's hand is live and in no other hand; before
  `InvokeCallback` it has not been called. This is what makes the call the first.
* `NoneLeaks`: without JVM failures, every live reference is mapped or in a hand.

A stop that runs while a thread holds a callback deletes only what is mapped, so `HandOwns`
survives it: the reason why taking a callback out of the map under the lock is enough,
although it is called without it. Types are proved first, one lemma for each action, most
of which leave all but one or two groups of variables alone (`SameSdk` ...); then one
lemma for each action that touches a callback, and one for all steps that do not.

**Instance.** `InstanceInv == LockHeld /\ RefOfInstance /\ StoppedIdle /\ Attachment`: whoever is
between `Stop()` and the emptied map holds the lock, hence is the only one there; the one
live reference is `sMediaInstance` except between its deletion and its reset; a receiver
of a stopped manager is out of the handlers. The unlocked reads of the receiver are safe
because the deletion comes after the join, which needs in addition `ManagerInv`: without
`JNI_destory` only the one known manager has a running receiver, and a stop that is under way
stops that one.

**Contract.** `AnswerInv` adds that a thread with a callback in its hand reports an answer to
some request, and releases it only after the call. Each step then moves one request along
the contract (`addPhase`, `InvokePhase`), drops the mapped ones (`ClearPhase`), or leaves
`Phase` alone.

**Own answer.** Until the wrap, `Numbered` says that the numbers drawn by requests are
positive, distinct and not larger than the counter; `ReportsMatch` that a thread reports
under its request's number or under one that no request has, and that what it holds after
`getRequestCallback` is the callback of its request. As the counter only grows
(`StaticSeqGrows`), the invariant can be conditional on it.

**App.** `AppStep` shows each step to be one of `MediaJni`. `StartInv` then follows the single
control thread: between two calls the last start is in force, a start comes to its locked
part with the instance forgotten, and so never returns without having made one and called
`Start`. `ReturnedTruth` adds that what `Start` has returned is still so: only the UI thread's
own stop changes whether the manager runs. A failed start leaves a manager stopped because it
was (`HasInstance`, below: without an instance no manager runs).

`BeansInv == OneBean /\ OneResult /\ AnswerTold`: each called callback has been given one bean
(`CalledOnce`), and before the wrap it was made from the answer to its own request
(`OwnAnswer`). The rest is about the codec: what `LoginRespModel` and `BaseModel` make of the
JSON objects (`LoginBean`, `LogoutBean`), and that `jint` keeps a number that fits and takes no
other 32-bit code to 0 or 10 (`jintOfFitting`, `jintOfCode`).

`ReportInv` follows a report from `Notify` to `Deliver`. A thread has an event as long as it is
between the two (`BusyEvents`); a receiver's event is the last one reported (`LastReport`,
which needs `OneReceiver`: without `JNI_destory` a receiver that runs is the only one outside
`idle`); no timer is about to report while `current` holds (`NoTimer`); the last report is
shown or a receiver holds it (`ShownOrHeld`). The event could be lost only if the receiver
found `sMediaInstance` `NULL`, and by `HasInstance` it does not: a manager that has not been
stopped has an instance.

**Logger.** `LoggerInv` ties the lock to `lpc = "drain"` and the existence of mutex and list to
`kpc` and `sIsAlive`. `EntryInv` looks at one sequence, `java \o sLogEntryList`: a push
extends it by an entry not yet in it, the logger moves its boundary, a stop cuts it short.

The type invariant says of `leaked` that it is a number, hence that the recursive `LeftByClean`
has a number for every length. The library's induction theorems take an operator, which
the installed provers cannot instantiate, so the proof goes by descent: `LeastNumber` (a
non-empty set of numbers has a least member, from the well-foundedness of strict inclusion
among finite sets), and with it `CleansExists` and `CleansAgree`: the recursion has a solution
up to every length and not more than one, which together make the function
(`LeftByCleanType`).

**Pool.** `MadeInv`: the fields change under the lock only, and a new handler thread is unknown
only while its maker holds the lock. `SerialInv`: what was posted is what began followed by
what the one looper queues. `PlaceInv` (for `RunsOnce`): a task still to be run is in one place
(its caller's hand, the pool's work, one position of one queue, one looper's hand), and has
run once less than it will; a task that is in none has run as often as it ever will,
which is twice for `runOnUiThread` on the main thread and once for all others.

**Java log.** `InstanceInv`: each `destory` allows one more instance, and as long as there has
been none since a creator began (`since`), the creator has an instance once past its tests.
* `IndexInv`, for the types: every number of an instance is at most `made`, and `made` at most
  the number of creators that have passed their second test.
* `LengthInv`, for `Bounded`: the length of a buffer *plus* what is between the test of its length
  and its append (one message for each thread, one copy for each creator) stays within the
  bound. The length alone is not inductive: the threads that have passed the test would
  each have the room for one.
* `KeptInv`, for `LostOnlyInGap`: unless `gap`, every `getLogs` or creator that is going to empty a
  buffer has all of it in hand (`read`, `copy`) or has appended it.
* `OnceInv`, for `AtMostOnce`: unless `overlap`, at most one creator copies (`OneCreator`) and
  at most one reader is in a buffer (`OneReader`), no buffer, copy, reader's hand or
  result repeats a message, and no two of them share one, with one exception: between the
  append of the copy and the emptying of the early buffer (`Clearing`) the messages are in both.

**Only model-checked:** liveness, which the prover does not do under fairness
(`AnswerArrives`, `ControlReturnsUnlessJammed`, `RequestReturnsUnlessJammed`, `EventuallyLogged`,
`CallerReturns`, `TaskRuns`), and the runs that end in a violation, which show a behaviour and
have nothing to prove.

## 6. Not modelled, and why

* **Vendored code.** Of the 101,666 lines of C, C++ and Java in the repository 99,690 are the
  headers of the Poco library, of which the program uses only the integer types of
  `Poco/Types.h` (the archives are only linked because the SDK needs them); fastjson and the JNI helper headers are third-party too.
  The program's own code is about 1,500 lines, of which the modules cover nearly all
  that does anything but log; measured against the whole repository the share is small,
  and modelling unused headers would say nothing about this program.
* **The closed SDK** beyond what the bridge can see. In particular, which number a failed
  login is reported under is left open, so a callback may wait until the next stop.
* **The relogin timer's thread** may find `sMediaInstance` deleted after its test; the model
  has these behaviours, but no property forbids them: what the timer thread does is a
  fact about the archive, and nothing in the repository promises more.
* **A log call during a stop** of the native logger may use the destroyed mutex, and one
  that gets no memory for its entry writes through `NULL` (`misused`). The model has both
  behaviours and stops there; no run asks about them.
* **Library loading** is straight-line set-up by one thread before any other exists; the
  part of it with a life of its own, `live_log_start`, is in `LiveLogNative`.
* **Leaks of a few bytes**: a `ResponseHandler` for each start.
* **The listener** given to `init` is stored and never called, so no behaviour depends on it.
* **Text**: log lines, their dates (`SimpleDateFormat` shared without a lock), error
  messages; `JSONFormatExcetion`, which the bridge's JSON cannot cause.
* **What two threads in `getLogs` both return** is in the model and excepted by `AtMostOnce`;
  nothing in the repository says that there is one reader.
* **The early returns of `OnLogin` and `OnLogout`** after a JVM failure leave a reference and an
  attached thread behind; they are in the model, and excepted by `NoneLeaks` and
  `JoinedDetached`.
* **Order across `createInstance`**: the copy of the early log goes behind what was logged
  meanwhile. The model has it; the repository promises nothing else.
* `responseapp`, an empty template.

## 7. State of the plan

Done, in this order: `GatewaySdk`, `MediaJni`, `CallbackContract` with `MediaJniProofs`;
`LiveLogNative`; `ResponseCodec` and `GatewayApp`; `LiveLogJava`; `WenbaThreadPool`; then the
proofs of instance, app, contract, own answer, logger, pool and Java log, until every safety
property of the passing runs had its theorem.

Left: an abstract specification of the two logs together (what `LiveLog.e` is called with is
what the native logger handed over), and of the pool as a set of tasks each run once, with
the proofs that the modules implement them. The invariants above are what those need.

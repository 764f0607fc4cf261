----------------------------- MODULE ServerTask -----------------------------
(***************************************************************************)
(* Task offload from one event worker to the task workers, as the PHP      *)
(* binding of the server implements it (ext-src/swoole_server.cc):         *)
(*                                                                         *)
(*  - Server->taskwait() in a coroutine: packs the task, dispatches it,    *)
(*    parks a TaskCo in task_coroutine_map[task_id] and yields with a      *)
(*    timeout;                                                             *)
(*  - Server->taskCo() / taskWaitMulti() in a coroutine: dispatches a      *)
(*    batch, parks one TaskCo under every dispatched id, yields;           *)
(*  - Server->task() with a callback (task_callbacks[task_id]), without    *)
(*    one (onFinish), or from a non-worker process (no reply);             *)
(*  - onTask in the task worker: runs the handler, which may call finish() *)
(*    and also return a value, so 0, 1 or 2 replies are sent;              *)
(*  - onFinish in the event worker: routes a reply by its flags to the     *)
(*    parked coroutine, to the registered callback or to onFinish.         *)
(*                                                                         *)
(* Payloads are abstracted to the task id they answer: a coroutine that    *)
(* receives a reply stores in its result slot the id of the task that      *)
(* produced it.  Every handler of the event worker runs to completion on   *)
(* its reactor, and co->resume() runs the resumed coroutine up to the end  *)
(* of its task call, so each handler together with that continuation is    *)
(* one atomic step.                                                        *)
(***************************************************************************)
EXTENDS Naturals, Sequences, FiniteSets

CONSTANTS
    Coroutines,      \* coroutines of the event worker that call task APIs
    MaxTaskId,       \* task ids handed out by task_pack are 1..MaxTaskId
    MaxBatch,        \* largest array passed to taskCo()
    DispatchCanFail, \* whether serv->task() may fail (task pipe full)
    NoCo,            \* model value: no entry in task_coroutine_map
    Unset,           \* model value: result index not yet written
    Fail             \* model value: the `false` written for a failed index

ASSUME MaxTaskId \in Nat /\ MaxBatch \in Nat \ {0} /\ DispatchCanFail \in BOOLEAN

Ids == 1..MaxTaskId
\* taskCo() stores -1 in list[i] for a task it failed to dispatch.
NoId == 0

\* ext_flags that decide how onFinish routes a reply.
Modes == {"co", "callback", "finish", "noreply"}

VARIABLES
    nextId,     \* next task id task_pack assigns
    mode,       \* mode[id]: flags the task was dispatched with
    queued,     \* ids dispatched and not yet taken by a task worker
    replies,    \* replies[id]: replies in the pipe back to the event worker
    coMap,      \* task_coroutine_map: id -> coroutine whose TaskCo is parked
    callbacks,  \* keys of task_callbacks
    frame,      \* frame[co]: the TaskCo of co's pending task call, if any
    ret,        \* ret[co]: the TaskCo of co's last completed task call
    dispatched, \* history: ids serv->task() accepted
    delivered,  \* history: delivered[id] = replies handed to a caller
    expired,    \* history: ids whose caller gave up on timeout
    freedUse    \* history: a reply was written into a TaskCo no longer live

vars == <<nextId, mode, queued, replies, coMap, callbacks, frame, ret,
          dispatched, delivered, expired, freedUse>>

(* A TaskCo: kind "wait" is taskwait's (list == nullptr in the code, the   *)
(* id in list[1]); kind "multi" is taskCo's, with count the n_task it was  *)
(* given and result the PHP array under construction.                     *)
IdleFrame == [kind |-> "idle", list |-> <<>>, count |-> 0,
              result |-> <<>>, taskCo |-> FALSE]

Frames == [kind : {"idle", "wait", "multi"}, list : Seq(Ids \cup {NoId}),
           count : 0..MaxBatch, result : Seq(Ids \cup {Unset, Fail}),
           taskCo : BOOLEAN]

\* php_swoole_array_length(task_co->result): indices written so far.
ResultLength(f) == Cardinality({i \in DOMAIN f.result : f.result[i] # Unset})

Suspended(co) == frame[co].kind # "idle"

\* The ids co's parked TaskCo still waits for.
Awaited(co) ==
    {frame[co].list[i] : i \in {j \in DOMAIN frame[co].list :
                                    frame[co].result[j] = Unset}} \ {NoId}

Init ==
    /\ nextId = 1
    /\ mode = [id \in Ids |-> "noreply"]
    /\ queued = {}
    /\ replies = [id \in Ids |-> 0]
    /\ coMap = [id \in Ids |-> NoCo]
    /\ callbacks = {}
    /\ frame = [co \in Coroutines |-> IdleFrame]
    /\ ret = [co \in Coroutines |-> IdleFrame]
    /\ dispatched = {}
    /\ delivered = [id \in Ids |-> 0]
    /\ expired = {}
    /\ freedUse = FALSE

-----------------------------------------------------------------------------
(* Event worker: the task APIs.                                            *)

\* serv->task(): TRUE when the task reached a task worker's pipe.
\* php_swoole_server_task_pack: serializing a non-string payload, or
\* spooling a large one to a temporary file, can fail.
PackOutcomes == IF DispatchCanFail THEN BOOLEAN ELSE {TRUE}

\* serv->task (core): no task worker accepts the task.
TaskOutcomes == IF DispatchCanFail THEN BOOLEAN ELSE {TRUE}

\* A dispatch works when both the pack and serv->task do.
DispatchOutcomes == {p /\ t : p \in PackOutcomes, t \in TaskOutcomes}

\* Server->taskwait() inside a coroutine.
TaskWait(co) ==
    LET id == nextId IN
    /\ ~Suspended(co)
    /\ nextId <= MaxTaskId
    /\ nextId' = nextId + 1
    /\ \E ok \in DispatchOutcomes :
          IF ok
          THEN /\ mode' = [mode EXCEPT ![id] = "co"]
               /\ queued' = queued \cup {id}
               /\ dispatched' = dispatched \cup {id}
               /\ coMap' = [coMap EXCEPT ![id] = co]
               /\ frame' = [frame EXCEPT ![co] =
                              [IdleFrame EXCEPT !.kind = "wait", !.list = <<id>>,
                                                !.count = 1, !.result = <<Unset>>]]
          ELSE UNCHANGED <<mode, queued, dispatched, coMap, frame>>
    /\ UNCHANGED <<replies, callbacks, ret, delivered, expired, freedUse>>

\* Server->taskCo(), and Server->taskWaitMulti() in a coroutine, which
\* forwards to it (taskCo is FALSE then).  oks[i]: dispatch of task i worked.
TaskCoCall(co, n, oks, taskCo) ==
    LET id(i)  == nextId + i - 1
        sent   == {i \in 1..n : oks[i]}
        nTask  == Cardinality(sent)
    IN
    /\ ~Suspended(co)
    /\ nextId + n - 1 <= MaxTaskId
    /\ nextId' = nextId + n
    /\ dispatched' = dispatched \cup {id(i) : i \in sent}
    /\ queued' = queued \cup {id(i) : i \in sent}
    /\ mode' = [t \in Ids |-> IF \E i \in sent : t = id(i) THEN "co" ELSE mode[t]]
    /\ coMap' = [t \in Ids |-> IF \E i \in sent : t = id(i) THEN co ELSE coMap[t]]
    /\ frame' = [frame EXCEPT ![co] =
                   IF nTask = 0 THEN IdleFrame
                   ELSE [kind |-> "multi",
                         list |-> [i \in 1..n |-> IF oks[i] THEN id(i) ELSE NoId],
                         count |-> nTask,
                         result |-> [i \in 1..n |-> IF oks[i] THEN Unset ELSE Fail],
                         taskCo |-> taskCo]]
    /\ UNCHANGED <<replies, callbacks, ret, delivered, expired, freedUse>>

\* Server->task(): with a callback from a worker ("callback"), without one
\* ("finish"), or from a process that is not a worker ("noreply").  A
\* failed pack returns false before anything is registered; the callback
\* is registered after the pack and before serv->task() is tried.
Task(m) ==
    LET id == nextId IN
    /\ m \in {"callback", "finish", "noreply"}
    /\ nextId <= MaxTaskId
    /\ nextId' = nextId + 1
    /\ \E packed \in PackOutcomes, sent \in TaskOutcomes :
          IF packed
          THEN /\ mode' = [mode EXCEPT ![id] = m]
               /\ callbacks' = IF m = "callback" THEN callbacks \cup {id} ELSE callbacks
               /\ IF sent THEN /\ queued' = queued \cup {id}
                               /\ dispatched' = dispatched \cup {id}
                          ELSE UNCHANGED <<queued, dispatched>>
          ELSE UNCHANGED <<mode, callbacks, queued, dispatched>>
    /\ UNCHANGED <<replies, coMap, frame, ret, delivered, expired, freedUse>>

\* Mutant of TimeoutWait: the erase after yield_ex() is missing.
TimeoutWaitNoErase(co) ==
    /\ frame[co].kind = "wait"
    /\ expired' = expired \cup {frame[co].list[1]}
    /\ ret' = [ret EXCEPT ![co] = frame[co]]
    /\ frame' = [frame EXCEPT ![co] = IdleFrame]
    /\ UNCHANGED <<nextId, mode, queued, replies, coMap, callbacks, dispatched,
                   delivered, freedUse>>

\* yield_ex(timeout) returns false in taskwait: erase the entry, return false.
TimeoutWait(co) ==
    LET id == frame[co].list[1] IN
    /\ frame[co].kind = "wait"
    /\ coMap' = [coMap EXCEPT ![id] = NoCo]
    /\ expired' = expired \cup {id}
    /\ ret' = [ret EXCEPT ![co] = frame[co]]
    /\ frame' = [frame EXCEPT ![co] = IdleFrame]
    /\ UNCHANGED <<nextId, mode, queued, replies, callbacks, dispatched,
                   delivered, freedUse>>

\* Mutant of TimeoutMulti: the late ids are not erased from the map.
TimeoutMultiNoErase(co) ==
    LET f == frame[co] IN
    /\ f.kind = "multi"
    /\ expired' = expired \cup ({f.list[i] : i \in 1..f.count} \ {NoId})
    /\ ret' = [ret EXCEPT ![co] = f]
    /\ frame' = [frame EXCEPT ![co] = IdleFrame]
    /\ UNCHANGED <<nextId, mode, queued, replies, coMap, callbacks, dispatched,
                   delivered, freedUse>>

\* yield_ex(timeout) returns false in taskCo: for i < n_task, an index with
\* no entry gets `false` (only when called as taskCo) and list[i] is erased.
TimeoutMulti(co) ==
    LET f    == frame[co]
        late == {i \in 1..f.count : f.result[i] = Unset}
        gone == {f.list[i] : i \in late}
    IN
    /\ f.kind = "multi"
    /\ coMap' = [t \in Ids |-> IF t \in gone THEN NoCo ELSE coMap[t]]
    /\ expired' = expired \cup (gone \ {NoId})
    /\ ret' = [ret EXCEPT ![co] =
                 [f EXCEPT !.result = [i \in DOMAIN f.result |->
                              IF i \in late /\ f.taskCo THEN Fail ELSE f.result[i]]]]
    /\ frame' = [frame EXCEPT ![co] = IdleFrame]
    /\ UNCHANGED <<nextId, mode, queued, replies, callbacks, dispatched,
                   delivered, freedUse>>

-----------------------------------------------------------------------------
(* Task worker: onTask.                                                    *)

\* php_swoole_server_task_finish, reached through Server->finish(),
\* Task->finish() or onTask's non-null return value: serv->finish sends
\* one reply, and none for a task dispatched without a reply (core).
TaskFinish(id, r) == IF mode[id] = "noreply" THEN r ELSE r + 1

\* The replies of one run of the handler: it may call finish(), and onTask
\* calls it once more when the handler returns a non-null value.
HandlerReplies(id, callsFinish, returnsValue) ==
    LET afterCall == IF callsFinish THEN TaskFinish(id, 0) ELSE 0
    IN  IF returnsValue THEN TaskFinish(id, afterCall) ELSE afterCall

\* php_swoole_server_onTask: a payload that fails to unpack returns before
\* the handler runs, which leaves no reply, as a handler that neither calls
\* finish() nor returns a value.
OnTask(id) ==
    /\ id \in queued
    /\ queued' = queued \ {id}
    /\ \E callsFinish, returnsValue \in BOOLEAN :
          replies' = [replies EXCEPT ![id] = HandlerReplies(id, callsFinish, returnsValue)]
    /\ UNCHANGED <<nextId, mode, coMap, callbacks, frame, ret, dispatched,
                   delivered, expired, freedUse>>

-----------------------------------------------------------------------------
(* Event worker: onFinish, one reply taken from the pipe.                  *)

Consume(id) == replies' = [replies EXCEPT ![id] = @ - 1]

Deliver(id) == delivered' = [delivered EXCEPT ![id] = @ + 1]

\* Mutant of FinishIntoFrame: a taskCo reply is not erased from the map.
FinishIntoFrameNoErase(id, co) ==
    LET f == frame[co]
        idx == {i \in 1..f.count : f.list[i] = id}
    IN
    \/ /\ f.kind = "wait"
       /\ coMap' = [coMap EXCEPT ![f.list[1]] = NoCo]
       /\ ret' = [ret EXCEPT ![co] = [f EXCEPT !.result = <<id>>]]
       /\ frame' = [frame EXCEPT ![co] = IdleFrame]
       /\ Deliver(id)
    \/ /\ f.kind = "multi"
       /\ idx = {}
       /\ UNCHANGED <<coMap, ret, frame, delivered>>
    \/ /\ f.kind = "multi"
       /\ idx # {}
       /\ LET g == [f EXCEPT !.result[CHOOSE j \in idx : \A k \in idx : j <= k] = id]
          IN /\ Deliver(id)
             /\ IF ResultLength(g) = g.count
                THEN /\ ret' = [ret EXCEPT ![co] = g]
                     /\ frame' = [frame EXCEPT ![co] = IdleFrame]
                ELSE /\ frame' = [frame EXCEPT ![co] = g]
                     /\ UNCHANGED ret
          /\ UNCHANGED coMap

\* Mutant of FinishIntoFrame: a taskCo reply goes to the first index still
\* without a result instead of the index its id was dispatched at.
FinishIntoFrameNextFree(id, co) ==
    LET f == frame[co]
        free == {i \in 1..f.count : f.result[i] = Unset}
    IN
    \/ /\ f.kind = "wait"
       /\ coMap' = [coMap EXCEPT ![f.list[1]] = NoCo]
       /\ ret' = [ret EXCEPT ![co] = [f EXCEPT !.result = <<id>>]]
       /\ frame' = [frame EXCEPT ![co] = IdleFrame]
       /\ Deliver(id)
    \/ /\ f.kind = "multi"
       /\ free = {}
       /\ UNCHANGED <<coMap, ret, frame, delivered>>
    \/ /\ f.kind = "multi"
       /\ free # {}
       /\ LET i == CHOOSE j \in free : \A k \in free : j <= k
              g == [f EXCEPT !.result[i] = id]
          IN /\ coMap' = [coMap EXCEPT ![id] = NoCo]
             /\ Deliver(id)
             /\ IF ResultLength(g) = g.count
                THEN /\ ret' = [ret EXCEPT ![co] = g]
                     /\ frame' = [frame EXCEPT ![co] = IdleFrame]
                ELSE /\ frame' = [frame EXCEPT ![co] = g]
                     /\ UNCHANGED ret

\* onFinish writing a reply into the TaskCo of coroutine co, as the code
\* finds it through task_coroutine_map.
FinishIntoFrame(id, co) ==
    LET f == frame[co]
        idx == {i \in 1..f.count : f.list[i] = id}
    IN
    \/ /\ f.kind = "wait"
       \* task_co->list == nullptr: store the result and resume; taskwait
       \* erases the id it waited for and returns the result.
       /\ coMap' = [coMap EXCEPT ![f.list[1]] = NoCo]
       /\ ret' = [ret EXCEPT ![co] = [f EXCEPT !.result = <<id>>]]
       /\ frame' = [frame EXCEPT ![co] = IdleFrame]
       /\ Deliver(id)
    \/ /\ f.kind = "multi"
       /\ idx = {}
       \* "task[%ld] is invalid": the entry is left in the map.
       /\ UNCHANGED <<coMap, ret, frame, delivered>>
    \/ /\ f.kind = "multi"
       /\ idx # {}
       /\ LET i == CHOOSE j \in idx : \A k \in idx : j <= k
              g == [f EXCEPT !.result[i] = id]
          IN /\ coMap' = [coMap EXCEPT ![id] = NoCo]
             /\ Deliver(id)
             /\ IF ResultLength(g) = g.count
                THEN /\ ret' = [ret EXCEPT ![co] = g]
                     /\ frame' = [frame EXCEPT ![co] = IdleFrame]
                ELSE /\ frame' = [frame EXCEPT ![co] = g]
                     /\ UNCHANGED ret

\* onFinish for a reply flagged SW_TASK_COROUTINE.
FinishCo(id) ==
    LET co == coMap[id] IN
    /\ replies[id] > 0
    /\ mode[id] = "co"
    /\ Consume(id)
    /\ \/ /\ co = NoCo
          \* "task[%ld] has expired"
          /\ UNCHANGED <<coMap, frame, ret, delivered, freedUse>>
       \/ /\ co # NoCo
          /\ id \in Awaited(co)
          /\ FinishIntoFrame(id, co)
          /\ UNCHANGED freedUse
       \/ /\ co # NoCo
          /\ id \notin Awaited(co)
          \* A stale entry: the TaskCo it points to lived on the stack of a
          \* task call co has left.  Undefined behaviour: the write lands in
          \* dead memory, or, when co is parked again and its new TaskCo
          \* sits at the same address, into that TaskCo.
          /\ \/ /\ freedUse' = TRUE
                /\ UNCHANGED <<coMap, frame, ret, delivered>>
             \/ /\ Suspended(co)
                /\ FinishIntoFrame(id, co)
                /\ freedUse' = TRUE
    /\ UNCHANGED <<nextId, mode, queued, callbacks, dispatched, expired>>

\* Mutant of FinishCallback: the callback is not unregistered after it ran.
FinishCallbackKeep(id) ==
    /\ replies[id] > 0
    /\ mode[id] \in {"callback", "finish"}
    /\ Consume(id)
    /\ IF mode[id] = "finish" \/ id \in callbacks
       THEN Deliver(id) ELSE UNCHANGED delivered
    /\ UNCHANGED <<nextId, mode, queued, coMap, callbacks, frame, ret,
                   dispatched, expired, freedUse>>

\* onFinish for any other reply: the registered callback when flagged
\* SW_TASK_CALLBACK and still registered (then unregistered), the
\* onFinish callback when not flagged, else "require 'onFinish' callback".
FinishCallback(id) ==
    /\ replies[id] > 0
    /\ mode[id] \in {"callback", "finish"}
    /\ Consume(id)
    /\ IF mode[id] = "finish" \/ id \in callbacks
       THEN Deliver(id) ELSE UNCHANGED delivered
    /\ callbacks' = callbacks \ {id}
    /\ UNCHANGED <<nextId, mode, queued, coMap, frame, ret, dispatched,
                   expired, freedUse>>

\* php_swoole_server_task_unpack() fails (Server::task_unpack cannot read the
\* spooled temporary file, or php_var_unserialize rejects the payload):
\* onFinish returns SW_ERR at once and the reply is dropped.
FinishUnpackFails(id) ==
    /\ replies[id] > 0
    /\ Consume(id)
    /\ UNCHANGED <<nextId, mode, queued, coMap, callbacks, frame, ret,
                   dispatched, delivered, expired, freedUse>>

-----------------------------------------------------------------------------

Next ==
    \/ \E co \in Coroutines :
          \/ TaskWait(co)
          \/ TimeoutWait(co)
          \/ TimeoutMulti(co)
          \/ \E n \in 1..MaxBatch, taskCo \in BOOLEAN :
                \E oks \in [1..n -> DispatchOutcomes] : TaskCoCall(co, n, oks, taskCo)
    \/ \E m \in Modes : Task(m)
    \/ \E id \in Ids :
          \/ OnTask(id)
          \/ FinishCo(id)
          \/ FinishCallback(id)
          \/ FinishUnpackFails(id)

Spec == Init /\ [][Next]_vars

-----------------------------------------------------------------------------
(* Properties.                                                             *)

\* Every entry of task_coroutine_map names a coroutine that is parked in a
\* task call and still waits for that id: taskwait, taskCo, onFinish and the
\* timeout paths erase exactly the ids they are done with, so no entry
\* outlives the TaskCo on the caller's stack it points to.
MapEntriesLive ==
    \A id \in Ids : coMap[id] # NoCo => id \in Awaited(coMap[id])

\* A task call that returns hands back, at every index, either `false` or
\* the reply of the task it dispatched at that index: taskwait() returns its
\* own task's result, taskCo() never one of another call's tasks.
ResultMatchesTask ==
    \A co \in Coroutines :
        \A i \in DOMAIN ret[co].result :
            ret[co].result[i] \in Ids => ret[co].result[i] = ret[co].list[i]

\* A reply to a coroutine task reaches its caller at most once, and never
\* after the caller timed out, although a task handler may send two replies
\* (finish() and a return value) and a reply races the caller's timeout.
CoDeliveredOnce ==
    \A id \in Ids :
        mode[id] = "co" =>
            /\ delivered[id] <= 1
            /\ (id \in expired => delivered[id] = 0)

\* A taskCo() result holds at each index only the reply of the task it
\* dispatched there, even when replies reach the batch through a stale
\* task_coroutine_map entry left by an earlier partially failed batch of the
\* same coroutine: onFinish looks the id up in the batch's list and drops
\* an id it does not find ("task[%ld] is invalid").
BatchResultsOwn ==
    \A co \in Coroutines :
        ret[co].kind = "multi" =>
            \A i \in DOMAIN ret[co].result :
                ret[co].result[i] \in Ids => ret[co].result[i] = ret[co].list[i]

\* The callback given to Server->task() runs at most once for its task,
\* even when the task handler sends two replies.
CallbackRunsOnce ==
    \A id \in Ids : mode[id] = "callback" => delivered[id] <= 1

\* Every task_callbacks entry belongs to a task that reached a task worker:
\* a registration for a task that was never sent is never removed.
CallbacksDispatched == callbacks \subseteq dispatched

=============================================================================

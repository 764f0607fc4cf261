--------------------------- MODULE ServerSendYield ---------------------------
(***************************************************************************)
(* Send backpressure of one connection in one event worker               *)
(* (src/ext-src/swoole_server.cc): Server->send, the parking loop of      *)
(* php_swoole_server_send_yield, and the two events that wake the parked   *)
(* coroutines, onBufferEmpty and onClose.                                  *)
(*                                                                         *)
(* The connection's output buffer is the core library's (spec_modelled):   *)
(* serv->send appends a chunk unless the buffer overflowed, in which case  *)
(* it fails with SW_ERROR_OUTPUT_SEND_YIELD; draining the buffer to empty  *)
(* clears the overflow and queues onBufferEmpty for the worker; a close    *)
(* queues onClose.  Events reach the worker in the order they were queued. *)
(* onBufferEmpty and onClose detach the session's list and resume its      *)
(* coroutines one per step (ResumeNext); co->resume() runs the coroutine   *)
(* until it yields again, and its own code may call send() once more       *)
(* before it does.  No other handler of the worker runs during the walk;   *)
(* the core drains and closes concurrently.                                *)
(***************************************************************************)
EXTENDS Naturals, Sequences, FiniteSets, SequencesExt

CONSTANTS
    Cos,              \* coroutines of the worker that call send()
    MaxSends,         \* send() calls per coroutine
    Cap,              \* chunks the output buffer holds before it overflows
    EnableCoroutine,  \* serv->enable_coroutine
    SendYieldOpt,     \* the send_yield option given to set(): {} if unset, else {TRUE} or {FALSE}
    DispatchMode,     \* serv->dispatch_mode
    SupportsUnsafeEvents, \* serv->is_support_unsafe_events() (core)
    UserOnClose,      \* a PHP onClose callback installed serv->onClose (port code)
    HasSendTimeout    \* serv->send_timeout > 0 (otherwise yield_ex waits forever)

ASSUME Cap \in Nat \ {0} /\ MaxSends \in Nat \ {0} /\ SendYieldOpt \in {{}, {TRUE}, {FALSE}}

DISPATCH_FDMOD == 2
DISPATCH_IPMOD == 4

\* serv->send_yield as set() leaves it: an explicit send_yield is dropped
\* unless dispatch_mode is 2 or 4; without one it follows enable_coroutine,
\* whatever the dispatch mode.
SendYield ==
    IF SendYieldOpt = {}
    THEN EnableCoroutine
    ELSE TRUE \in SendYieldOpt /\ DispatchMode \in {DISPATCH_FDMOD, DISPATCH_IPMOD}

\* on_before_start: with send_yield, php_swoole_server_onClose becomes
\* serv->onClose if nothing else did and unsafe events are supported.
OnCloseRegistered == UserOnClose \/ (SendYield /\ SupportsUnsafeEvents)

\* register_callback: serv->onBufferEmpty under the same condition.
OnBufferEmptyRegistered == SendYield /\ SupportsUnsafeEvents

VARIABLES
    buf,         \* chunks in the connection's output buffer (core)
    overflow,    \* conn->overflow (core)
    open,        \* the session exists (core)
    events,      \* events queued for the worker: "empty" / "close"
    list,        \* send_coroutine_map[session]: the parked coroutines, front first
    hasList,     \* send_coroutine_map has an entry for the session
    walk,        \* the detached co_list onBufferEmpty/onClose is resuming, front first
    pc,          \* "idle" before send(), "parked" in yield_ex, "done" after it returned
    ret,         \* send()'s return value ("none" while it runs)
    sends        \* send() calls made by each coroutine

vars == <<buf, overflow, open, events, list, hasList, walk, pc, ret, sends>>

Init ==
    /\ buf = 0
    /\ overflow = FALSE
    /\ open = TRUE
    /\ events = <<>>
    /\ list = <<>>
    /\ hasList = FALSE
    /\ walk = <<>>
    /\ sends = [c \in Cos |-> 0]
    /\ pc = [c \in Cos |-> "idle"]
    /\ ret = [c \in Cos |-> "none"]

-----------------------------------------------------------------------------
\* Mutant: the overflow is detected one chunk late.
AttemptOffByOne(co, st) ==
    CASE ~open -> [st EXCEPT !.pc[co] = "done", !.ret[co] = "false"]
      [] ~st.overflow -> [st EXCEPT !.buf = @ + 1, !.overflow = (st.buf + 1 > Cap),
                                    !.pc[co] = "done", !.ret[co] = "true"]
      [] SendYield -> [st EXCEPT !.list = Append(@, co), !.hasList = TRUE,
                             !.pc[co] = "parked"]
      [] OTHER -> [st EXCEPT !.pc[co] = "done", !.ret[co] = "false"]

(* One attempt of serv->send on behalf of co, applied to a record of the   *)
(* state it touches: fail on a closed session, append a chunk, or (output *)
(* buffer overflowed, send_yield on) park co at the back of the session's  *)
(* list, creating the list when the map has none.  Without send_yield an  *)
(* overflowed buffer fails the send.                                       *)
Attempt(co, st) ==
    CASE ~open -> [st EXCEPT !.pc[co] = "done", !.ret[co] = "false"]
      [] ~st.overflow -> [st EXCEPT !.buf = @ + 1, !.overflow = (st.buf + 1 = Cap),
                                    !.pc[co] = "done", !.ret[co] = "true"]
      [] SendYield -> [st EXCEPT !.list = Append(@, co), !.hasList = TRUE,
                             !.pc[co] = "parked"]
      [] OTHER -> [st EXCEPT !.pc[co] = "done", !.ret[co] = "false"]

St == [buf |-> buf, overflow |-> overflow, list |-> list, hasList |-> hasList,
       pc |-> pc, ret |-> ret, sends |-> sends]

Apply(st) ==
    /\ buf' = st.buf
    /\ overflow' = st.overflow
    /\ list' = st.list
    /\ hasList' = st.hasList
    /\ pc' = st.pc
    /\ ret' = st.ret
    /\ sends' = st.sends

\* A call of Server->send(fd, data) by co: its first attempt.
Call(co, st) ==
    Attempt(co, [st EXCEPT !.sends[co] = @ + 1])

-----------------------------------------------------------------------------
(* Worker steps.  A handler that walks a detached list runs to its end     *)
(* before the worker takes another event or timer.                         *)

Send(co) ==
    /\ walk = <<>>
    /\ pc[co] # "parked"
    /\ sends[co] < MaxSends
    /\ Apply(Call(co, St))
    /\ UNCHANGED <<open, events, walk>>

\* Mutant: the timed-out coroutine stays in the list.
SendTimeoutNoErase(co) ==
    /\ HasSendTimeout
    /\ walk = <<>>
    /\ pc[co] = "parked"
    /\ pc' = [pc EXCEPT ![co] = "done"]
    /\ ret' = [ret EXCEPT ![co] = "false"]
    /\ UNCHANGED <<buf, overflow, open, events, list, hasList, walk, sends>>

\* yield_ex(send_timeout) returns false: erase co through the iterator
\* taken before the yield and return false.
SendTimeout(co) ==
    /\ HasSendTimeout
    /\ walk = <<>>
    /\ pc[co] = "parked"
    /\ list' = SelectSeq(list, LAMBDA x : x # co)
    /\ pc' = [pc EXCEPT ![co] = "done"]
    /\ ret' = [ret EXCEPT ![co] = "false"]
    /\ UNCHANGED <<buf, overflow, open, events, hasList, walk, sends>>

\* The handler of the event at the head of the queue takes the session's
\* list out of send_coroutine_map (erase) to walk it, if it acts at all.
Detach(kind, acts) ==
    /\ walk = <<>>
    /\ events # <<>>
    /\ Head(events) = kind
    /\ events' = Tail(events)
    /\ IF acts /\ hasList
       THEN /\ walk' = list
            /\ list' = <<>>
            /\ hasList' = FALSE
       ELSE UNCHANGED <<walk, list, hasList>>
    /\ UNCHANGED <<buf, overflow, open, pc, ret, sends>>

\* php_swoole_server_onBufferEmpty: with send_yield, detach the session's
\* list.  Without the handler registered the event reaches no code of
\* this file.
OnBufferEmpty == Detach("empty", OnBufferEmptyRegistered /\ SendYield)

\* Mutant: onClose leaves the parked coroutines alone.
OnCloseSkip == Detach("close", FALSE)

\* php_swoole_server_onClose, when it is serv->onClose: with
\* enable_coroutine and send_yield, detach the list; its coroutines are
\* resumed with ECONNRESET.
OnClose == Detach("close", OnCloseRegistered /\ EnableCoroutine /\ SendYield)

\* One turn of the handler's while loop: pop the front coroutine and
\* resume it.  Its yield_ex returns true and it retries serv->send, parking
\* on a fresh list of the map if the buffer overflowed again; if its send()
\* returned, its own code may call send() again (again) before it yields.
ResumeNext(again) ==
    LET co == Head(walk)
        st == Attempt(co, St)
    IN
    /\ walk # <<>>
    /\ walk' = Tail(walk)
    /\ again => st.pc[co] = "done" /\ st.sends[co] < MaxSends
    /\ Apply(IF again THEN Call(co, st) ELSE st)
    /\ UNCHANGED <<open, events>>

-----------------------------------------------------------------------------
(* Core steps (spec_modelled): the peer reads a chunk, the peer closes.   *)

Drain ==
    /\ open
    /\ buf > 0
    /\ buf' = buf - 1
    /\ IF buf = 1 /\ overflow
       THEN /\ overflow' = FALSE
            /\ events' = Append(events, "empty")
       ELSE UNCHANGED <<overflow, events>>
    /\ UNCHANGED <<open, list, hasList, walk, pc, ret, sends>>

PeerClose ==
    /\ open
    /\ open' = FALSE
    /\ buf' = 0
    /\ overflow' = FALSE
    /\ events' = Append(events, "close")
    /\ UNCHANGED <<list, hasList, walk, pc, ret, sends>>

Next ==
    \/ \E co \in Cos : Send(co) \/ SendTimeout(co)
    \/ OnBufferEmpty
    \/ OnClose
    \/ \E again \in BOOLEAN : ResumeNext(again)
    \/ Drain
    \/ PeerClose

\* The worker's reactor handles every queued event, and a handler walking
\* a detached list runs on to its end.  The peer is assumed to keep
\* reading until it closes (Drain is fair); whether it closes, and when
\* coroutines call send(), is not.  The send timer is not assumed fair
\* either, so that liveness never rests on a timeout rescuing a waiter.
Fairness ==
    /\ WF_vars(OnBufferEmpty)
    /\ WF_vars(OnClose)
    /\ WF_vars(\E again \in BOOLEAN : ResumeNext(again))
    /\ WF_vars(Drain)

Spec == Init /\ [][Next]_vars /\ Fairness
-----------------------------------------------------------------------------
(* Properties.                                                             *)

TypeOK ==
    /\ buf \in 0..Cap
    /\ overflow \in BOOLEAN
    /\ open \in BOOLEAN
    /\ events \in Seq({"empty", "close"})
    /\ list \in Seq(Cos)
    /\ hasList \in BOOLEAN
    /\ walk \in Seq(Cos)
    /\ sends \in [Cos -> 0..MaxSends]
    /\ pc \in [Cos -> {"idle", "parked", "done"}]
    /\ ret \in [Cos -> {"none", "true", "false"}]

\* Every coroutine parked in send_yield is exactly once in the session's
\* list or in the list a handler is walking, and they hold nothing else:
\* onBufferEmpty and onClose resume only waiting coroutines, a resumed one
\* that parks again joins the fresh list, and a timed-out coroutine leaves
\* the list.
WaitersTracked ==
    /\ \A co \in Cos : pc[co] = "parked" <=> co \in ToSet(list \o walk)
    /\ IsInjective(list \o walk)
    /\ list # <<>> => hasList

\* A coroutine parked in send_yield eventually returns from send(), when
\* the buffer drains, the connection closes, or its timeout fires.
ParkedEventuallyReturns ==
    \A co \in Cos : pc[co] = "parked" ~> pc[co] = "done"

=============================================================================

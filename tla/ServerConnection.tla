--------------------------- MODULE ServerConnection ---------------------------
(***************************************************************************)
(* The per-connection operations of the PHP binding that workers apply to *)
(* the shared connection table (src/ext-src/swoole_server.cc): bind,      *)
(* protect, exists, close, pause, resume and heartbeat.  Several worker   *)
(* processes run them at once on the same table.  The table itself is the *)
(* core's (spec_modelled): a slot per fd that an accepted connection       *)
(* occupies under a fresh session id, is closed, and is freed for reuse.  *)
(* bind's critical section is two steps, the read of conn->uid and the   *)
(* write, so that the spinlock around them is what keeps them together.   *)
(* uid is a UidWidth-bit unsigned field; a zend_long argument is range    *)
(* checked against [-2^(W-1), 2^W - 1] and then cast to unsigned.           *)
(***************************************************************************)
EXTENDS Integers, FiniteSets

CONSTANTS
    Workers,           \* worker processes calling the operations
    Fds,               \* connection slots
    MaxSession,        \* sessions 1..MaxSession are accepted in turn
    UidArgs,           \* zend_long values passed to bind
    UidWidth,          \* bits of conn->uid (32 in the code)
    HeartbeatEnabled,  \* serv->heartbeat_check_interval >= 1
    UidModDispatch,    \* serv->dispatch_mode == DISPATCH_UIDMOD
    NoOne

Sessions == 1..MaxSession
UidMax == 2^UidWidth - 1              \* UINT32_MAX
UidMin == -(2^(UidWidth - 1))         \* INT32_MIN
\* (uint32_t) uid
ToUid(u) == u % (2^UidWidth)

VARIABLES
    sid,        \* conn->session_id of each slot, 0 when free
    uid,        \* conn->uid
    protect,    \* conn->protect
    closed,     \* conn->closed
    closeForce, \* conn->close_force
    idle,       \* the connection is not healthy (last receive too old)
    paused,     \* receiving paused by feedback(PAUSE_RECV)
    lock,       \* holder of conn->lock
    nextSession,
    pc,         \* what each worker is doing
    arg,        \* the current call's arguments: slot, session, uid, seen uid
    ret,        \* the last call's return value
    bound       \* history: <<slot, session, uid>> of every bind that set a uid

vars == <<sid, uid, protect, closed, closeForce, idle, paused, lock,
          nextSession, pc, arg, ret, bound>>

NoArg == [f |-> 0, s |-> 0, u |-> 0, seen |-> 0]

Init ==
    /\ sid = [f \in Fds |-> 0]
    /\ uid = [f \in Fds |-> 0]
    /\ protect = [f \in Fds |-> FALSE]
    /\ closed = [f \in Fds |-> FALSE]
    /\ closeForce = [f \in Fds |-> FALSE]
    /\ idle = [f \in Fds |-> FALSE]
    /\ paused = [f \in Fds |-> FALSE]
    /\ lock = [f \in Fds |-> NoOne]
    /\ nextSession = 1
    /\ pc = [w \in Workers |-> "idle"]
    /\ arg = [w \in Workers |-> NoArg]
    /\ ret = [w \in Workers |-> "none"]
    /\ bound = {}

\* get_connection_verify(s): the slot whose active connection has session s.
Verify(s) == {f \in Fds : sid[f] = s}

\* The call returns v; its locals go out of scope.
Return(w, v) ==
    /\ pc' = [pc EXCEPT ![w] = "idle"]
    /\ ret' = [ret EXCEPT ![w] = v]
    /\ arg' = [arg EXCEPT ![w] = NoArg]

\* bind(fd, 0) returns TRUE and leaves the connection unbound (uid 0).
Unbound == {<<f, x, 0>> : f \in Fds, x \in Sessions}

Conn == <<sid, uid, protect, closed, closeForce, idle, paused, lock, nextSession, bound>>

-----------------------------------------------------------------------------
(* bind(fd, uid).                                                          *)

\* Mutant: the range check lets UINT32_MAX + 1 through.
BindNoUpperCheck(w, s, u) ==
    /\ pc[w] = "idle"
    /\ IF u < UidMin \/ Verify(s) = {}
       THEN Return(w, "false")
       ELSE \E f \in Verify(s) :
              /\ pc' = [pc EXCEPT ![w] = "bind_lock"]
              /\ arg' = [arg EXCEPT ![w] = [f |-> f, s |-> s, u |-> u, seen |-> 0]]
              /\ UNCHANGED ret
    /\ UNCHANGED Conn

\* The range check, then get_connection_verify; the worker then spins on
\* the connection it found.
Bind(w, s, u) ==
    /\ pc[w] = "idle"
    /\ IF u > UidMax \/ u < UidMin \/ Verify(s) = {}
       THEN Return(w, "false")
       ELSE \E f \in Verify(s) :
              /\ pc' = [pc EXCEPT ![w] = "bind_lock"]
              /\ arg' = [arg EXCEPT ![w] = [f |-> f, s |-> s, u |-> u, seen |-> 0]]
              /\ UNCHANGED ret
    /\ UNCHANGED Conn

\* Mutant: conn->uid is read without taking the spinlock.
BindAcquireNoLock(w) ==
    /\ pc[w] = "bind_lock"
    /\ pc' = [pc EXCEPT ![w] = "bind_set"]
    /\ arg' = [arg EXCEPT ![w].seen = uid[arg[w].f]]
    /\ UNCHANGED <<sid, uid, protect, closed, closeForce, idle, paused, lock,
                   nextSession, ret, bound>>

\* sw_spinlock(&conn->lock), then the read of conn->uid.
BindAcquire(w) ==
    /\ pc[w] = "bind_lock"
    /\ lock[arg[w].f] = NoOne
    /\ lock' = [lock EXCEPT ![arg[w].f] = w]
    /\ pc' = [pc EXCEPT ![w] = "bind_set"]
    /\ arg' = [arg EXCEPT ![w].seen = uid[arg[w].f]]
    /\ UNCHANGED <<sid, uid, protect, closed, closeForce, idle, paused,
                   nextSession, ret, bound>>

\* conn->uid != 0: FALSE; else conn->uid = (uint32_t) uid: TRUE; release.
BindSet(w) ==
    /\ pc[w] = "bind_set"
    /\ IF arg[w].seen # 0
       THEN Return(w, "false") /\ UNCHANGED <<uid, bound>>
       ELSE /\ uid' = [uid EXCEPT ![arg[w].f] = ToUid(arg[w].u)]
            /\ Return(w, "true")
            /\ bound' = bound \cup ({<<arg[w].f, arg[w].s, ToUid(arg[w].u)>>} \ Unbound)
    /\ lock' = [lock EXCEPT ![arg[w].f] = NoOne]
    /\ UNCHANGED <<sid, protect, closed, closeForce, idle, paused, nextSession>>

-----------------------------------------------------------------------------
(* The other operations on one session.                                    *)

\* protect(fd, value): FALSE for a missing or closed connection.
Protect(w, s, v) ==
    /\ pc[w] = "idle"
    /\ IF \E f \in Verify(s) : ~closed[f]
       THEN /\ protect' = [f \in Fds |-> IF f \in Verify(s) THEN v ELSE protect[f]]
            /\ Return(w, "true")
       ELSE Return(w, "false") /\ UNCHANGED protect
    /\ UNCHANGED <<sid, uid, closed, closeForce, idle, paused, lock, nextSession, bound>>

\* exists(fd): whether the connection is there and not closed.
Exists(w, s) ==
    /\ pc[w] = "idle"
    /\ Return(w, IF \E f \in Verify(s) : ~closed[f] THEN "true" ELSE "false")
    /\ UNCHANGED Conn

\* getClientInfo(s): FALSE for a session that no slot verifies; otherwise
\* an array that carries the "uid" key only for a non-zero uid or under
\* uid dispatch (the other fields are abstracted away).
ClientInfo(w, s) ==
    /\ pc[w] = "idle"
    /\ Return(w, IF Verify(s) = {} THEN "false"
                 ELSE IF \E f \in Verify(s) : uid[f] > 0 \/ UidModDispatch
                      THEN "info_uid" ELSE "info")
    /\ UNCHANGED Conn

\* pause(fd) / resume(fd): feedback to the reactor for a verified session.
PauseResume(w, s, p) ==
    /\ pc[w] = "idle"
    /\ IF Verify(s) # {}
       THEN /\ paused' = [f \in Fds |-> IF f \in Verify(s) THEN p ELSE paused[f]]
            /\ Return(w, "true")
       ELSE Return(w, "false") /\ UNCHANGED paused
    /\ UNCHANGED <<sid, uid, protect, closed, closeForce, idle, lock, nextSession, bound>>

\* serv->close(session, reset) (core): closes a verified, open session.
CloseSession(s) ==
    /\ closed' = [f \in Fds |-> IF f \in Verify(s) THEN TRUE ELSE closed[f]]

\* close(fd, reset).
Close(w, s) ==
    /\ pc[w] = "idle"
    /\ IF \E f \in Verify(s) : ~closed[f]
       THEN CloseSession(s) /\ Return(w, "true")
       ELSE Return(w, "false") /\ UNCHANGED closed
    /\ UNCHANGED <<sid, uid, protect, closeForce, idle, paused, lock, nextSession, bound>>

-----------------------------------------------------------------------------
(* heartbeat(close_connection): a sweep over the slots.  For each slot it  *)
(* skips session ids <= 0 and healthy connections (core                    *)
(* is_healthy_connection: protected, or received recently); otherwise,     *)
(* with close_connection, it sets close_force and closes the session.      *)

HeartbeatStart(w, closeConn) ==
    /\ pc[w] = "idle"
    /\ IF HeartbeatEnabled
       THEN /\ pc' = [pc EXCEPT ![w] = IF closeConn THEN "hb_close" ELSE "hb_list"]
            /\ arg' = [arg EXCEPT ![w].f = 0]
            /\ UNCHANGED ret
       ELSE Return(w, "false")
    /\ UNCHANGED Conn

\* Done with slot f: return after the last slot, else go on with the next.
SweepNext(w, f) ==
    IF f = Cardinality(Fds)
    THEN Return(w, "true")
    ELSE /\ pc' = [pc EXCEPT ![w] = IF pc[w] = "hb_list" THEN "hb_list" ELSE "hb_close"]
         /\ arg' = [arg EXCEPT ![w].f = f]
         /\ UNCHANGED ret

\* The visit of slot f: conn->session_id and the connection's health are
\* read; an unhealthy connection under close_connection is closed in the
\* next step.
HeartbeatVisit(w, f) ==
    /\ pc[w] \in {"hb_close", "hb_list"}
    /\ f = arg[w].f + 1
    /\ IF pc[w] = "hb_close" /\ sid[f] > 0 /\ idle[f] /\ ~protect[f]
       THEN /\ pc' = [pc EXCEPT ![w] = "hb_kill"]
            /\ arg' = [arg EXCEPT ![w].f = f, ![w].s = sid[f]]
            /\ UNCHANGED ret
       ELSE SweepNext(w, f)
    /\ UNCHANGED Conn

\* conn->close_force = 1 on the visited slot, then serv->close(session_id).
HeartbeatKill(w) ==
    /\ pc[w] = "hb_kill"
    /\ closeForce' = [closeForce EXCEPT ![arg[w].f] = TRUE]
    /\ IF \E f \in Verify(arg[w].s) : ~closed[f]
       THEN CloseSession(arg[w].s) ELSE UNCHANGED closed
    /\ SweepNext(w, arg[w].f)
    /\ UNCHANGED <<sid, uid, protect, idle, paused, lock, nextSession, bound>>

-----------------------------------------------------------------------------
(* Core steps (spec_modelled): accept into a free slot, a connection going *)
(* idle or receiving, and a closed connection's slot being freed.          *)

Accept(f) ==
    /\ sid[f] = 0
    /\ nextSession \in Sessions
    /\ sid' = [sid EXCEPT ![f] = nextSession]
    /\ nextSession' = nextSession + 1
    /\ uid' = [uid EXCEPT ![f] = 0]
    /\ protect' = [protect EXCEPT ![f] = FALSE]
    /\ closed' = [closed EXCEPT ![f] = FALSE]
    /\ closeForce' = [closeForce EXCEPT ![f] = FALSE]
    /\ idle' = [idle EXCEPT ![f] = FALSE]
    /\ paused' = [paused EXCEPT ![f] = FALSE]
    /\ UNCHANGED <<lock, pc, arg, ret, bound>>

SetIdle(f, b) ==
    /\ sid[f] > 0
    /\ idle[f] # b
    /\ idle' = [idle EXCEPT ![f] = b]
    /\ UNCHANGED <<sid, uid, protect, closed, closeForce, paused, lock,
                   nextSession, pc, arg, ret, bound>>

Free(f) ==
    /\ sid[f] > 0
    /\ closed[f]
    /\ sid' = [sid EXCEPT ![f] = 0]
    /\ UNCHANGED <<uid, protect, closed, closeForce, idle, paused, lock,
                   nextSession, pc, arg, ret, bound>>

Next ==
    \/ \E w \in Workers :
         \/ \E s \in Sessions : Exists(w, s) \/ ClientInfo(w, s) \/ Close(w, s)
         \/ \E s \in Sessions, u \in UidArgs : Bind(w, s, u)
         \/ BindAcquire(w)
         \/ BindSet(w)
         \/ \E s \in Sessions, v \in BOOLEAN :
              Protect(w, s, v) \/ PauseResume(w, s, v)
         \/ \E c \in BOOLEAN : HeartbeatStart(w, c)
         \/ \E f \in Fds : HeartbeatVisit(w, f)
         \/ HeartbeatKill(w)
    \/ \E f \in Fds : Accept(f) \/ Free(f) \/ \E b \in BOOLEAN : SetIdle(f, b)

Spec == Init /\ [][Next]_vars
-----------------------------------------------------------------------------
(* Properties.                                                             *)

TypeOK ==
    /\ sid \in [Fds -> 0..MaxSession]
    /\ uid \in [Fds -> 0..UidMax]
    /\ protect \in [Fds -> BOOLEAN]
    /\ closed \in [Fds -> BOOLEAN]
    /\ closeForce \in [Fds -> BOOLEAN]
    /\ idle \in [Fds -> BOOLEAN]
    /\ paused \in [Fds -> BOOLEAN]
    /\ lock \in [Fds -> Workers \cup {NoOne}]
    /\ pc \in [Workers -> {"idle", "bind_lock", "bind_set", "hb_close", "hb_list", "hb_kill"}]
    /\ ret \in [Workers -> {"none", "true", "false", "info", "info_uid"}]
    /\ arg \in [Workers -> [f : 0..Cardinality(Fds), s : 0..MaxSession,
                            u : UidMin..UidMax, seen : 0..UidMax]]

\* A bind that set a non-zero uid on a session is never displaced while
\* that session lives: of two binds racing on one connection, the later
\* observes the uid of the first and fails (spec 7: first writer wins).
BindWinnerHolds ==
    \A b \in bound : sid[b[1]] = b[2] => uid[b[1]] = b[3]

\* The per-slot uid register of the spec, fed by the connection table.
UC == INSTANCE UidCas WITH Sessions <- Sessions, Uids <- 0..UidMax

\* Accept, free and bind's three steps implement an atomic compare-and-set
\* of conn->uid: the spinlock makes the read of a zero uid and the write
\* of the new one a single step, whichever workers interleave.
ImplementsUidCas == UC!Spec

=============================================================================

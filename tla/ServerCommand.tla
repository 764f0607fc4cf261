---------------------------- MODULE ServerCommand ----------------------------
(***************************************************************************)
(* The command bus as used from PHP (src/ext-src/swoole_server.cc):        *)
(* addCommand before start, and Server->command from coroutines of one     *)
(* worker.  serv->command (core, spec_modelled) either fails, answers at   *)
(* once (the reply callback runs inside serv->command, before the yield),  *)
(* or sends the request to the target process, whose reply later runs the *)
(* callback in this worker.  The target process may exit with requests     *)
(* outstanding; its replacement knows nothing of them.                     *)
(***************************************************************************)
EXTENDS Naturals, FiniteSets

CONSTANTS
    Cos,        \* coroutines calling command() once each
    Names,      \* command names
    ProcTypes,  \* accepted_process_types values: "worker", "task", "reactor"
    JsonEncodeCanFail \* some payload of the run is not JSON-encodable

VARIABLES
    started,    \* serv->is_started()
    commands,   \* names registered by addCommand (serv->add_command)
    pc,         \* "idle", "yielded" (parked in co->yield()), "done"
    ret,        \* command()'s return value: "none", "false", "reply", "error"
    pending     \* coroutines whose request is with the target process

vars == <<started, commands, pc, ret, pending>>

\* What the target's handler (the fn addCommand registers) replies: the
\* callable's string, a string that is not JSON, or the error JSON sent
\* when the call fails or returns something other than a string.
HandlerResults == {"data", "not_json", "call_failed", "wrong_type"}

\* The reply callback in the caller: json_decode of the reply, FALSE when
\* decoding fails; an error JSON decodes to an array like any other.
Decode(r) ==
    CASE r = "not_json" -> "false"
      [] r = "data"     -> "reply"
      [] OTHER          -> "error"

Init ==
    /\ started = FALSE
    /\ commands = {}
    /\ pc = [c \in Cos |-> "idle"]
    /\ ret = [c \in Cos |-> "none"]
    /\ pending = {}

\* addCommand: refused once the server runs and for reactor threads;
\* otherwise the handler is registered with the core.
AddCommand(name, type) ==
    /\ ~started
    /\ type # "reactor"
    /\ commands' = commands \cup {name}
    /\ UNCHANGED <<started, pc, ret, pending>>

Start ==
    /\ ~started
    /\ started' = TRUE
    /\ UNCHANGED <<commands, pc, ret, pending>>

\* Server->command(name, ...) from co: the payload may fail to encode to
\* JSON, and serv->command fails for an unknown command; a known one is
\* answered at once (the callback finds co running, sets donot_yield, and
\* command() returns without yielding) or sent, after which co yields with
\* no timeout.
Command(co, name) ==
    /\ started
    /\ pc[co] = "idle"
    /\ \/ /\ \/ name \notin commands
             \/ JsonEncodeCanFail
          /\ pc' = [pc EXCEPT ![co] = "done"]
          /\ ret' = [ret EXCEPT ![co] = "false"]
          /\ UNCHANGED pending
       \/ /\ name \in commands
          /\ pc' = [pc EXCEPT ![co] = "done"]
          /\ \E r \in HandlerResults : ret' = [ret EXCEPT ![co] = Decode(r)]
          /\ UNCHANGED pending
       \/ /\ name \in commands
          /\ pending' = pending \cup {co}
          /\ pc' = [pc EXCEPT ![co] = "yielded"]
          /\ UNCHANGED ret
    /\ UNCHANGED <<started, commands>>

\* The reply reaches the worker: the callback stores the result and, co
\* being suspended, resumes it.
Reply(co, r) ==
    /\ co \in pending
    /\ pending' = pending \ {co}
    /\ ret' = [ret EXCEPT ![co] = Decode(r)]
    /\ pc' = [pc EXCEPT ![co] = "done"]
    /\ UNCHANGED <<started, commands>>

\* The target process exits; its replacement starts without the requests.
TargetRestart ==
    /\ pending # {}
    /\ pending' = {}
    /\ UNCHANGED <<started, commands, pc, ret>>

Next ==
    \/ \E n \in Names, t \in ProcTypes : AddCommand(n, t)
    \/ Start
    \/ \E co \in Cos, n \in Names : Command(co, n)
    \/ \E co \in Cos, r \in HandlerResults : Reply(co, r)
    \/ TargetRestart

\* The core delivers every reply the target sends.
Spec == Init /\ [][Next]_vars /\ \A co \in Cos : WF_vars(\E r \in HandlerResults : Reply(co, r))

TypeOK ==
    /\ started \in BOOLEAN
    /\ commands \subseteq Names
    /\ pc \in [Cos -> {"idle", "yielded", "done"}]
    /\ ret \in [Cos -> {"none", "false", "reply", "error"}]
    /\ pending \subseteq Cos

\* A coroutine that yields in command() eventually returns (spec 5: every
\* cross-process interaction, command included, has an explicit timeout,
\* so no caller can wait forever).
CommandReturns ==
    \A co \in Cos : pc[co] = "yielded" ~> pc[co] = "done"
=============================================================================

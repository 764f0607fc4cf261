---------------------------- MODULE SignalBridge ----------------------------
(***************************************************************************)
(* The signal bridge of src/src/os/signal.cc in one process: the classic   *)
(* backend (an OS handler that sets a flag, and swoole_signal_dispatch     *)
(* scanning the bitmap at the reactor's safe point), its "simple" variant  *)
(* used when no reactor exists, the signalfd backend, and the thread mask  *)
(* calls swoole_signal_block_all / swoole_signal_unblock_all.              *)
(*                                                                         *)
(* The kernel raises signals at any time.  A raise interrupts the main     *)
(* thread between two of its steps; the signal handler itself runs to      *)
(* completion unless another, unblocked signal interrupts it.             *)
(*                                                                         *)
(* The build is chosen at start: Linux (HAVE_SIGNALFD) or BSD             *)
(* (HAVE_KQUEUE with SwooleG.enable_kqueue), where signals reach the       *)
(* reactor through an EVFILT_SIGNAL filter of its kqueue.                  *)
(***************************************************************************)
EXTENDS Naturals, Sequences, FiniteSets, FiniteSetsExt

CONSTANTS
    NSig,             \* signal numbers are 1..NSig (below SW_SIGNO_MAX)
    Handlers,         \* user handlers (model values)
    Null,             \* the nullptr handler
    Ign,              \* SIG_IGN passed as a handler
    EnableSignalfd,   \* SwooleG.enable_signalfd
    SignalfdCanFail,  \* signalfd() may fail (descriptors exhausted)
    ReactorAtStart,   \* whether sw_reactor() exists when the process starts
    KqueueBuild,      \* whether the process is the BSD (kqueue) build
    SigChld           \* SIGCHLD, which the kqueue backend leaves to the classic one

Sigs == 1..NSig
HandlerVals == Handlers \cup {Null, Ign}
\* The dispositions sigaction() can install: SIG_DFL, SIG_IGN and the
\* two handlers of this file.
Dispositions == {"dfl", "ign", "safety", "simple"}

VARIABLES
    reactor,       \* sw_reactor() / swoole_event_is_available()
    handler,       \* signals[s].handler
    activated,     \* signals[s].activated
    osAct,         \* the disposition installed with sigaction
    triggered,     \* triggered_signals[s]
    dispatchFlag,  \* SwooleG.signal_dispatch
    dpc,           \* swoole_signal_dispatch: 0 idle, s scanning slot s, NSig+1 after the loop
    inCall,        \* swoole_signal_dispatch is inside the callback of slot dpc
    lock,          \* the static _lock of signal_handler_simple
    running,       \* the signal whose simple handler runs (0: none)
    procMask,      \* the thread's blocked-signal mask
    kpending,      \* signals the kernel holds pending (blocked when raised)
    sfdMask,       \* signalfd_mask
    fdOpen,        \* signal_fd != -1
    blockingAll,   \* SwooleTG.signal_blocking_all
    raised,        \* history: raised into the bitmap since its last dispatch
    discarded,     \* history: <<running, discarded>> pairs of the simple lock
    kqueue,        \* the build is BSD: HAVE_KQUEUE, no HAVE_SIGNALFD
    kevFilter,     \* signals with an EVFILT_SIGNAL filter on the reactor's kqueue
    kevPending     \* signals whose filter has fired and not been read

vars == <<reactor, handler, activated, osAct, triggered, dispatchFlag, dpc,
          inCall, lock, running, procMask, kpending, sfdMask, fdOpen,
          blockingAll, raised, discarded, kqueue, kevFilter, kevPending>>

\* The kqueue state, left alone by the steps of the other backends.
kq == <<kqueue, kevFilter, kevPending>>

\* The signalfd branch of swoole_signal_set / swoole_signal_clear exists
\* only in the Linux build.
SignalfdBuild == EnableSignalfd /\ ~kqueue

-----------------------------------------------------------------------------
\* A raise of s is held pending by the kernel while s is blocked: by the
\* thread mask, or because s's own handler runs (sigaction without
\* SA_NODEFER blocks the signal being handled).
Blocked(s) == s \in procMask \/ s = running

\* The main thread only runs while no signal handler interrupts it.
MainRuns == running = 0

\* signal_handler_safety: set the bit and the dispatch flag.
HandlerSafety(s) ==
    /\ triggered' = [triggered EXCEPT ![s] = TRUE]
    /\ dispatchFlag' = TRUE
    /\ raised' = [raised EXCEPT ![s] = TRUE]
    /\ UNCHANGED <<lock, running, discarded>>

\* signal_handler_simple without a reactor: a nested delivery while _lock
\* is held is discarded; otherwise the callback runs in handler context.
HandlerSimple(s) ==
    /\ \/ /\ lock
          /\ discarded' = discarded \cup {<<running, s>>}
          /\ UNCHANGED <<lock, running>>
       \/ /\ ~lock
          /\ lock' = TRUE
          /\ running' = s
          /\ UNCHANGED discarded
    /\ UNCHANGED <<triggered, dispatchFlag, raised>>

\* The OS invokes the disposition installed for s; an EVFILT_SIGNAL filter
\* records the delivery whatever the disposition (SIG_IGN included).
Deliver(s) ==
    /\ kevPending' = IF s \in kevFilter THEN kevPending \cup {s} ELSE kevPending
    /\ CASE osAct[s] = "safety" \/ (osAct[s] = "simple" /\ reactor) -> HandlerSafety(s)
         [] osAct[s] = "simple" -> HandlerSimple(s)
         [] OTHER -> UNCHANGED <<triggered, dispatchFlag, raised, lock, running, discarded>>

Init ==
    /\ reactor \in ReactorAtStart
    /\ handler = [s \in Sigs |-> Null]
    /\ activated = [s \in Sigs |-> FALSE]
    /\ osAct = [s \in Sigs |-> "dfl"]
    /\ triggered = [s \in Sigs |-> FALSE]
    /\ dispatchFlag = FALSE
    /\ dpc = 0
    /\ inCall = FALSE
    /\ lock = FALSE
    /\ running = 0
    /\ procMask = {}
    /\ kpending = {}
    /\ sfdMask = {}
    /\ fdOpen = FALSE
    /\ blockingAll = FALSE
    /\ raised = [s \in Sigs |-> FALSE]
    /\ discarded = {}
    /\ kqueue \in KqueueBuild
    /\ kevFilter = {}
    /\ kevPending = {}

-----------------------------------------------------------------------------
(* Kernel steps: a raise, and the delivery of a pending signal once it is  *)
(* unblocked.                                                              *)

Raise(s) ==
    /\ \/ /\ Blocked(s)
          /\ kpending' = kpending \cup {s}
          /\ UNCHANGED <<triggered, dispatchFlag, raised, lock, running, discarded,
                         kevPending>>
       \/ /\ ~Blocked(s)
          /\ Deliver(s)
          /\ UNCHANGED kpending
    /\ UNCHANGED <<reactor, handler, activated, osAct, dpc, inCall, procMask,
                   sfdMask, fdOpen, blockingAll, kqueue, kevFilter>>

DeliverPending(s) ==
    /\ s \in kpending
    /\ ~Blocked(s)
    /\ kpending' = kpending \ {s}
    /\ Deliver(s)
    /\ UNCHANGED <<reactor, handler, activated, osAct, dpc, inCall, procMask,
                   sfdMask, fdOpen, blockingAll, kqueue, kevFilter>>

\* signal_handler_simple returns: _lock = 0, and s is unblocked.
SimpleReturn ==
    /\ running # 0
    /\ lock' = FALSE
    /\ running' = 0
    /\ UNCHANGED <<reactor, handler, activated, osAct, triggered, dispatchFlag,
                   dpc, inCall, procMask, kpending, sfdMask, fdOpen,
                   blockingAll, raised, discarded, kq>>

-----------------------------------------------------------------------------
(* Registration: swoole_signal_set(signo, handler, safety).                *)

\* The classic path: the table entry, then sigaction with one of the two
\* handlers of this file.
ClassicSet(s, h, safety) ==
    /\ handler' = [handler EXCEPT ![s] = h]
    /\ activated' = [activated EXCEPT ![s] = TRUE]
    /\ osAct' = [osAct EXCEPT ![s] = IF safety THEN "safety" ELSE "simple"]
    /\ UNCHANGED <<procMask, sfdMask, fdOpen, kevFilter, kevPending>>

\* swoole_signalfd_set: a nullptr handler of an active signal removes it,
\* anything else adds it.  With an open descriptor the thread mask is
\* replaced by signalfd_mask (SIG_SETMASK); otherwise swoole_signalfd_setup
\* creates the descriptor and blocks signalfd_mask, which may fail.
SignalfdSet(s, h) ==
    LET remove == h = Null /\ activated[s]
        mask == IF remove THEN sfdMask \ {s} ELSE sfdMask \cup {s}
    IN /\ sfdMask' = mask
       /\ handler' = [handler EXCEPT ![s] = IF remove THEN Null ELSE h]
       /\ activated' = [activated EXCEPT ![s] = ~remove]
       /\ \/ /\ fdOpen
             /\ procMask' = mask
             /\ UNCHANGED fdOpen
          \/ /\ ~fdOpen
             /\ fdOpen' = TRUE
             /\ procMask' = procMask \cup mask
          \/ /\ ~fdOpen
             /\ SignalfdCanFail
             /\ UNCHANGED <<fdOpen, procMask>>
       /\ UNCHANGED <<osAct, kevFilter, kevPending>>

KqueueSet(s, h) ==
    LET remove == h = Null
    IN /\ osAct' = [osAct EXCEPT ![s] = IF remove THEN "dfl" ELSE "ign"]
       /\ handler' = [handler EXCEPT ![s] = IF remove THEN Null ELSE h]
       /\ activated' = [activated EXCEPT ![s] = ~remove]
       /\ kevFilter' = IF remove THEN kevFilter \ {s} ELSE kevFilter \cup {s}
       /\ kevPending' = IF remove THEN kevPending \ {s} ELSE kevPending
       /\ UNCHANGED <<procMask, sfdMask, fdOpen>>

Register(s, h, safety) ==
    /\ MainRuns
    /\ dpc = 0
    /\ CASE SignalfdBuild /\ reactor -> SignalfdSet(s, h)
         [] kqueue /\ reactor /\ s # SigChld -> KqueueSet(s, h)
         [] OTHER -> ClassicSet(s, h, safety)
    /\ UNCHANGED <<reactor, triggered, dispatchFlag, dpc, inCall, lock, running,
                   kpending, blockingAll, raised, discarded, kqueue>>

\* swoole_signalfd_clear: unblock signalfd_mask, zero the table and the
\* mask, close the descriptor.
SignalfdClear ==
    /\ procMask' = procMask \ sfdMask
    /\ sfdMask' = {}
    /\ fdOpen' = FALSE
    /\ UNCHANGED <<osAct, kevFilter, kevPending>>

\* The classic path: reset every activated signal to SIG_DFL.
ClassicClear ==
    /\ osAct' = [s \in Sigs |-> IF activated[s] THEN "dfl" ELSE osAct[s]]
    /\ UNCHANGED <<procMask, sfdMask, fdOpen, kevFilter, kevPending>>

\* swoole_signal_kqueue_clear: while the event loop is available, every
\* activated entry goes through swoole_signal_kqueue_set(signo, nullptr):
\* SIG_DFL and the filter deleted.  Without an event loop nothing is reset.
KqueueClear ==
    LET reset == IF reactor THEN {s \in Sigs : activated[s]} ELSE {}
    IN /\ osAct' = [s \in Sigs |-> IF s \in reset THEN "dfl" ELSE osAct[s]]
       /\ kevFilter' = kevFilter \ reset
       /\ kevPending' = kevPending \ reset
       /\ UNCHANGED <<procMask, sfdMask, fdOpen>>

\* swoole_signal_clear: the signalfd path when its descriptor is open, the
\* kqueue path whenever the build has it, else the classic path; then the
\* table is zeroed.  None touches the triggered bitmap or the dispatch flag.
SignalClear ==
    /\ MainRuns
    /\ dpc = 0
    /\ CASE SignalfdBuild /\ fdOpen -> SignalfdClear
         [] kqueue -> KqueueClear
         [] OTHER -> ClassicClear
    /\ handler' = [s \in Sigs |-> Null]
    /\ activated' = [s \in Sigs |-> FALSE]
    /\ UNCHANGED <<reactor, triggered, dispatchFlag, dpc, inCall, lock, running,
                   kpending, blockingAll, raised, discarded, kqueue>>

\* The process creates its reactor (core library).
CreateReactor ==
    /\ MainRuns
    /\ ~reactor
    /\ reactor' = TRUE
    /\ UNCHANGED <<handler, activated, osAct, triggered, dispatchFlag, dpc, inCall,
                   lock, running, procMask, kpending, sfdMask, fdOpen,
                   blockingAll, raised, discarded, kq>>

\* swoole_signal_block_all / swoole_signal_unblock_all.
BlockAll ==
    /\ MainRuns
    /\ dpc = 0
    /\ ~blockingAll
    /\ procMask' = Sigs
    /\ blockingAll' = TRUE
    /\ UNCHANGED <<reactor, handler, activated, osAct, triggered, dispatchFlag,
                   dpc, inCall, lock, running, kpending, sfdMask, fdOpen,
                   raised, discarded, kq>>

UnblockAll ==
    /\ MainRuns
    /\ dpc = 0
    /\ blockingAll
    /\ procMask' = {}
    /\ blockingAll' = FALSE
    /\ UNCHANGED <<reactor, handler, activated, osAct, triggered, dispatchFlag,
                   dpc, inCall, lock, running, kpending, sfdMask, fdOpen,
                   raised, discarded, kq>>
-----------------------------------------------------------------------------
(* swoole_signal_dispatch, called by the reactor at its safe point.  The  *)
(* loop is split into its steps: a signal can be raised between any two.  *)

\* An unset flag returns at once (no step); a set flag starts the scan.
DispatchStart ==
    /\ MainRuns
    /\ dpc = 0
    /\ dispatchFlag
    /\ dpc' = 1
    /\ UNCHANGED <<reactor, handler, activated, osAct, triggered, dispatchFlag,
                   inCall, lock, running, procMask, kpending, sfdMask, fdOpen,
                   blockingAll, raised, discarded, kq>>

\* Slot dpc: a set bit calls swoole_signal_callback (the user handler, or a
\* warning for a missing one, or nothing for SIG_IGN); a clear bit moves on.
DispatchSlot ==
    /\ MainRuns
    /\ dpc \in Sigs
    /\ ~inCall
    /\ IF triggered[dpc]
       THEN /\ inCall' = TRUE
            /\ raised' = [raised EXCEPT ![dpc] = FALSE]
            /\ UNCHANGED dpc
       ELSE /\ dpc' = dpc + 1
            /\ UNCHANGED <<inCall, raised>>
    /\ UNCHANGED <<reactor, handler, activated, osAct, triggered, dispatchFlag,
                   lock, running, procMask, kpending, sfdMask, fdOpen,
                   blockingAll, discarded, kq>>

\* Mutant: the bit is not cleared after its callback.
DispatchClearedKeep ==
    /\ MainRuns
    /\ inCall
    /\ inCall' = FALSE
    /\ dpc' = dpc + 1
    /\ UNCHANGED <<reactor, handler, activated, osAct, triggered, dispatchFlag,
                   lock, running, procMask, kpending, sfdMask, fdOpen,
                   blockingAll, raised, discarded, kq>>

\* After the callback returns: triggered_signals[i] = false.
DispatchCleared ==
    /\ MainRuns
    /\ inCall
    /\ triggered' = [triggered EXCEPT ![dpc] = FALSE]
    /\ inCall' = FALSE
    /\ dpc' = dpc + 1
    /\ UNCHANGED <<reactor, handler, activated, osAct, dispatchFlag, lock,
                   running, procMask, kpending, sfdMask, fdOpen, blockingAll,
                   raised, discarded, kq>>

\* After the loop: SwooleG.signal_dispatch = false.
DispatchEnd ==
    /\ MainRuns
    /\ dpc = NSig + 1
    /\ dispatchFlag' = FALSE
    /\ dpc' = 0
    /\ UNCHANGED <<reactor, handler, activated, osAct, triggered, inCall, lock,
                   running, procMask, kpending, sfdMask, fdOpen, blockingAll,
                   raised, discarded, kq>>

\* swoole_signalfd_event_callback: the reactor reads one siginfo (the
\* lowest pending signal of the mask) and calls the handler of an
\* activated entry, or ignores it, or logs a warning.
ReadSignalfd ==
    /\ MainRuns
    /\ dpc = 0
    /\ fdOpen
    /\ kpending \cap sfdMask # {}
    /\ kpending' = kpending \ {Min(kpending \cap sfdMask)}
    /\ UNCHANGED <<reactor, handler, activated, osAct, triggered, dispatchFlag,
                   dpc, inCall, lock, running, procMask, sfdMask, fdOpen,
                   blockingAll, raised, discarded, kq>>

\* The reactor's kqueue returns a fired EVFILT_SIGNAL event; its udata is
\* the Signal entry (swoole_signal_kqueue_set), whose handler the reactor
\* calls.
ReadKqueue(s) ==
    /\ MainRuns
    /\ dpc = 0
    /\ reactor
    /\ s \in kevPending
    /\ kevPending' = kevPending \ {s}
    /\ UNCHANGED <<reactor, handler, activated, osAct, triggered, dispatchFlag,
                   dpc, inCall, lock, running, procMask, kpending, sfdMask, fdOpen,
                   blockingAll, raised, discarded, kqueue, kevFilter>>

Next ==
    \/ \E s \in Sigs : Raise(s) \/ DeliverPending(s)
    \/ SimpleReturn
    \/ \E s \in Sigs, h \in HandlerVals, safety \in BOOLEAN : Register(s, h, safety)
    \/ SignalClear
    \/ CreateReactor
    \/ BlockAll
    \/ UnblockAll
    \/ DispatchStart
    \/ DispatchSlot
    \/ DispatchCleared
    \/ DispatchEnd
    \/ ReadSignalfd
    \/ \E s \in Sigs : ReadKqueue(s)

\* The reactor calls swoole_signal_dispatch on every iteration and reads a
\* readable signalfd or a fired kqueue filter; a signal handler returns; the kernel delivers a
\* pending signal once it is unblocked.  Raises and the user's calls are
\* not fair: they may never happen.
Fairness ==
    /\ WF_vars(DispatchStart \/ DispatchSlot \/ DispatchCleared \/ DispatchEnd)
    /\ WF_vars(ReadSignalfd)
    /\ \A s \in Sigs : WF_vars(ReadKqueue(s))
    /\ WF_vars(SimpleReturn)
    /\ \A s \in Sigs : WF_vars(DeliverPending(s))

Spec == Init /\ [][Next]_vars /\ Fairness

-----------------------------------------------------------------------------
(* Properties.                                                             *)

TypeOK ==
    /\ reactor \in BOOLEAN
    /\ handler \in [Sigs -> HandlerVals]
    /\ activated \in [Sigs -> BOOLEAN]
    /\ osAct \in [Sigs -> Dispositions]
    /\ triggered \in [Sigs -> BOOLEAN]
    /\ dispatchFlag \in BOOLEAN
    /\ dpc \in 0..NSig + 1
    /\ inCall \in BOOLEAN
    /\ lock \in BOOLEAN
    /\ running \in {0} \cup Sigs
    /\ procMask \subseteq Sigs
    /\ kpending \subseteq Sigs
    /\ sfdMask \subseteq Sigs
    /\ fdOpen \in BOOLEAN
    /\ blockingAll \in BOOLEAN
    /\ raised \in [Sigs -> BOOLEAN]
    /\ discarded \subseteq (Sigs \X Sigs)
    /\ kqueue \in BOOLEAN
    /\ kevFilter \subseteq Sigs
    /\ kevPending \subseteq kevFilter

\* swoole_signal_dispatch never calls a signal's callback twice for one
\* raise: a set bit outside the callback of its own slot stands for a raise
\* not yet dispatched (the bit is cleared after the callback returns).
DispatchedOnce ==
    \A s \in Sigs : triggered[s] => (raised[s] \/ (inCall /\ dpc = s))

\* Every raise that signal_handler_safety recorded is eventually passed to
\* its callback by swoole_signal_dispatch (spec 4.1 and 3: the bitmap
\* records the signals raised since the last dispatch point, and the
\* reactor invokes the handler of each).  A raise during the scan, or
\* during the signal's own callback before line 202 clears its bit, must
\* not be lost.
RaiseDispatched ==
    \A s \in Sigs : raised[s] ~> ~raised[s]

\* signal_handler_simple's lock discards only a nested delivery of the
\* signal being handled (spec 4.1), never a different signal.
NestedDiscardOnlySame ==
    \A d \in discarded : d[1] = d[2]

\* swoole_signal_isset: an activated entry with a non-null handler (SIG_IGN
\* counts as set).
Isset(s) == handler[s] # Null /\ activated[s]

\* The routes by which a raise of s reaches the bridge: a handler of this
\* file installed with sigaction; s blocked and read from the open
\* signalfd; the kqueue filter.  An EVFILT_SIGNAL filter records a signal
\* whatever its disposition, so a handler of this file left installed next
\* to a filter means both routes fire on one raise.
ClassicRouted(s) == osAct[s] \in {"safety", "simple"}
SignalfdRouted(s) == s \in sfdMask /\ fdOpen /\ s \in procMask
KqueueRouted(s) == s \in kevFilter

\* swoole_signal_isset(s) (an activated entry with a handler) means a
\* raise of s reaches the bridge: a handler of this file is installed, or
\* s is blocked and read through the open signalfd.
IssetImpliesRouted ==
    \A s \in Sigs : Isset(s) => ClassicRouted(s) \/ SignalfdRouted(s) \/ KqueueRouted(s)

=============================================================================

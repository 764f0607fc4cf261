--------------------------- MODULE MCSignalBridge ---------------------------
(* Instance of SignalBridge for TLC: two signal numbers, so that a raise   *)
(* can hit a slot behind or ahead of the dispatcher's scan, one user       *)
(* handler, and either build.                                              *)
EXTENDS SignalBridge

MCNSig == 2
\* A process that starts without a reactor and may create one later.
MCNoReactorAtStart == {FALSE}
\* A process whose reactor already runs (an event worker).
MCReactorAtStart == {TRUE}
\* The Linux build only (signalfd or classic).
MCLinuxBuild == {FALSE}
\* Either build: Linux, or BSD with the kqueue backend.
MCAnyBuild == {FALSE, TRUE}
\* Signal 2 plays SIGCHLD, so that on the BSD build one signal goes through
\* the kqueue filter and the other through the classic handler.
MCSigChld == 2
=============================================================================

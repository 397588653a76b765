---------------------------- MODULE MCSandboxLifecycle ----------------------------
(***************************************************************************)
(* The instances of SandboxLifecycle that TLC checks.  MCSandboxStop.cfg:  *)
(* a tolerant and a strict stop() by the user share one shutdown with the  *)
(* cleanup of run() and the disposal.                                      *)
(* MCSandboxWait.cfg: a user's wait, an inspect() and the disposal's stop, *)
(* whose answers cross.                                                    *)
(***************************************************************************)
EXTENDS SandboxLifecycle
=============================================================================

------------------------------- MODULE MCSaveLock -------------------------------
(***************************************************************************)
(* Instances of SaveLock for TLC: attempts are the numbers 1, 2, ... in    *)
(* the order of their owner strings, whatever the order they start in.     *)
(***************************************************************************)
EXTENDS SaveLock

CONSTANT item
===============================================================================

----------------------------- MODULE MCSettingsSync -----------------------------
(***************************************************************************)
(* Instances of SettingsSync for TLC.  Two providers, as a PATCH replaces  *)
(* the mappings of both, with two values each; the duration has one valid  *)
(* value and any invalid text.                                             *)
(***************************************************************************)
EXTENDS SettingsSync

CONSTANTS a, b, ttl, g1, g2, MaxEdits, MaxLoads, MaxFaults, MaxForeign, MaxLosses, MaxLate

ThePages == {a, b}
TheDomain == (ttl :> {1}) @@ (g1 :> {1, 2}) @@ (g2 :> {1, 2})
TheStart == {[i \in {ttl, g1, g2} |-> 1]}
TheBound == [edit |-> MaxEdits, load |-> MaxLoads, fault |-> MaxFaults,
             foreign |-> MaxForeign, loss |-> MaxLosses, late |-> MaxLate]
===============================================================================

---------------------------- MODULE MCRuntimeConfig ----------------------------
(***************************************************************************)
(* Instance of RuntimeConfig for TLC: two concurrent calls, every request  *)
(* that one mapping key, two known types and one unknown type allow, and   *)
(* durations on both sides of each bound of normalizeTTL.                  *)
(***************************************************************************)
EXTENDS RuntimeConfig

CONSTANTS known, unknown, key1

TTLInputs == {0, -1, 9}

Instance(call, ttl, mappings) ==
  [call |-> call, body |-> "config", config |-> [ttl |-> ttl, mappings |-> mappings]]

\* Each call kind with each way of failing, of keeping the TTL and of
\* changing it; a lifecycle call whose YAML is blank among them.
Offered ==
  {EmptyRequest, UnreadableRequest, ShutdownRequest,
   [EmptyRequest EXCEPT !.body = "config"]}
    \cup {Instance(call, ttl, mappings) :
            call \in {"lifecycle", "direct"},
            ttl \in TTLInputs,
            mappings \in {[k \in {key1} |-> known], [k \in {key1} |-> unknown]}}
===============================================================================

---------------------------- MODULE MCQueryService ----------------------------
(***************************************************************************)
(* Instances of QueryService for TLC.  In the one of racing queries, two   *)
(* queries ask about accounts that share credential and mapping key while  *)
(* configuration calls change the type and turn the cache off and on.  In  *)
(* the one of batches, one query asks about two accounts at once, of one   *)
(* key or of two, beside a manual query, over one slot and a cache of one  *)
(* place.                                                                  *)
(***************************************************************************)
EXTENDS QueryService

CONSTANTS key1, key2, t1, t2, cred, a1, a2

Acct(id, key, asked) ==
  [id |-> id, mappingKey |-> key, asked |-> asked, credential |-> cred]

RacingBatches == {<<Acct(a1, key1, None)>>, <<Acct(a2, key1, t1)>>}
PairedBatches == {<<Acct(a1, key1, None), Acct(a2, key1, None)>>,
                  <<Acct(a1, key1, None), Acct(a2, key2, t2)>>}

Reconfigure(ttl, mappings) ==
  [call |-> "lifecycle", body |-> "config",
   config |-> [ttl |-> ttl, mappings |-> mappings]]

OnlyKey1(type) == [k \in {key1} |-> type]
BothKeys       == [k \in {key1, key2} |-> IF k = key1 THEN t1 ELSE t2]

RacingChanges == {Reconfigure(2, OnlyKey1(t1)), Reconfigure(0, OnlyKey1(t2))}
PairedChanges == {Reconfigure(1, BothKeys)}

RacingFailures == [long |-> 2, other |-> 1]
PairedFailures == [other |-> 1]
===============================================================================

-------------------------------- MODULE SaveLock --------------------------------
(***************************************************************************)
(* The lock that dashboard tabs take to save settings where the browser    *)
(* has no Web Locks (withLocalConfigSaveLock, internal/ui/dashboard.go).   *)
(* Each attempt to save keeps a record with a bakery ticket and a lease    *)
(* under a key of its own in localStorage, which all tabs share.  An       *)
(* attempt that finds another one before it gives up instead of waiting.   *)
(*                                                                         *)
(* localStorage is atomic per call.  Tabs run in parallel, so the calls of *)
(* different attempts interleave even within one block of script, and the  *)
(* clock may move between any two of them: each reading of Date.now() is   *)
(* kept in asOf until the call that uses it.                               *)
(***************************************************************************)
EXTENDS Integers, FiniteSets, SequencesExt

CONSTANTS
  Attempts,   \* calls of withLocalConfigSaveLock; a number stands for the owner
  Foreign,    \* other items in localStorage, written by other scripts
  Lease,      \* leaseMilliseconds, in ticks of the clock
  MaxTime     \* bound on the clock

ASSUME LockAssumption ==
  /\ Attempts \subseteq Int /\ IsFiniteSet(Attempts)
  /\ Foreign \cap Attempts = {} /\ IsFiniteSet(Foreign)
  /\ Lease \in Nat \ {0}
  /\ MaxTime \in Nat

VARIABLES
  now,        \* Date.now()
  keys,       \* storage.key(0), storage.key(1), ...
  records,    \* attempt -> its record, for the attempts that have one
  attempt     \* what each attempt is doing

vars == <<now, keys, records, attempt>>

Unmade == [at |-> "new", round |-> 1, passed |-> 0, toRead |-> <<>>, found |-> {},
           ticket |-> 0, asOf |-> 0, aim |-> "enter", lost |-> FALSE,
           missed |-> FALSE, lapsed |-> FALSE]

\* An attempt is between two blocks of script, or inside one.
Resting == {"new", "critical", "gone", "crashed"}
Inside  == {"scan", "collect", "read", "drop", "ticket", "refresh", "renew", "confirm",
            "leave"}

LockTypeOK ==
  /\ now \in 0..MaxTime
  /\ ToSet(keys) \subseteq Attempts \cup Foreign
  /\ ToSet(keys) \cap Attempts = DOMAIN records
  /\ \A i, j \in DOMAIN keys : keys[i] = keys[j] => i = j
  /\ \A p \in DOMAIN records :
       /\ records[p].choosing \in BOOLEAN
       /\ records[p].ticket \in 0..Cardinality(Attempts)
       /\ records[p].expires \in 0..(MaxTime + Lease)
  /\ \A p \in Attempts : attempt[p].at \in Resting \cup Inside

\* The order of the items is the browser's affair.
Init ==
  /\ now = 0
  /\ keys \in SetToSeqs(Foreign)
  /\ records = [p \in {} |-> 0]
  /\ attempt = [p \in Attempts |-> Unmade]

-------------------------------------------------------------------------------
(* localStorage *)

Goes(p, stage) == attempt' = [attempt EXCEPT ![p].at = stage]

\* Date.now()
ReadsClock(p, stage) == attempt' = [attempt EXCEPT ![p].at = stage, ![p].asOf = now]

\* An attempt that is over, or whose page is, keeps nothing but its record.
Over(p, stage) ==
  [Unmade EXCEPT !.at = stage, !.missed = attempt[p].missed, !.lapsed = attempt[p].lapsed]

\* contenders() returns.
Scanned(p, stage) ==
  [attempt[p] EXCEPT !.at = stage, !.passed = 0, !.toRead = <<>>, !.found = {}, !.asOf = 0]

Live(r) == r.expires > now

HasLive(p) == p \in DOMAIN records /\ Live(records[p])

\* setItem on the own key with the lease renewed.  Date.now() was read after
\* what p did last (asOf) and before setItem; a new key may turn up anywhere
\* in the order.
WriteIntent(p, choosing, ticket) ==
  \E t \in attempt[p].asOf..now :
    LET intent == [choosing |-> choosing, ticket |-> ticket, expires |-> t + Lease]
    IN
      /\ records' = [q \in DOMAIN records \cup {p} |-> IF q = p THEN intent ELSE records[q]]
      /\ keys' \in IF Contains(keys, p) THEN {keys}
                   ELSE {InsertAt(keys, i, p) : i \in 1..(Len(keys) + 1)}

\* removeItem: every later item moves one place to the front.
Removed(k) ==
  /\ \/ k \notin ToSet(keys) /\ UNCHANGED keys
     \/ \E i \in DOMAIN keys : keys[i] = k /\ keys' = RemoveAt(keys, i)
  /\ records' = [q \in DOMAIN records \ {k} |-> records[q]]

\* The attempts that miss an item because k is removed: they are collecting
\* keys and have passed k, so the item that they would look at next moves to
\* a place they have passed.
Overtaken(k) ==
  {q \in Attempts : /\ attempt[q].at = "collect"
                    /\ attempt[q].passed < Len(keys)
                    /\ \E i \in 1..attempt[q].passed : keys[i] = k}

-------------------------------------------------------------------------------
(* Entering *)

\* writeIntent(true).
Announce(p) ==
  /\ attempt[p].at = "new"
  /\ WriteIntent(p, TRUE, 0)
  /\ Goes(p, "scan")
  /\ UNCHANGED now

\* contenders() begins: it reads the clock it judges all leases by.
Look(p) ==
  /\ attempt[p].at = "scan"
  /\ ReadsClock(p, "collect")
  /\ UNCHANGED <<now, keys, records>>

\* contenders: one turn of the loop over storage.key(index).
Collect(p) ==
  LET k == keys[attempt[p].passed + 1]
  IN  /\ attempt[p].at = "collect"
      /\ attempt[p].passed < Len(keys)
      /\ attempt' = [attempt EXCEPT
           ![p].passed = @ + 1,
           ![p].toRead = IF k \in Attempts THEN Append(@, k) ELSE @]
      /\ UNCHANGED <<now, keys, records>>

Collected(p) ==
  /\ attempt[p].at = "collect"
  /\ attempt[p].passed >= Len(keys)
  /\ Goes(p, "read")
  /\ UNCHANGED <<now, keys, records>>

\* The scan of p takes the record of k for current.
LiveTo(p, k) == k \in DOMAIN records /\ records[k].expires > attempt[p].asOf

\* contenders: getItem for the next of the keys collected.
Read(p) ==
  /\ attempt[p].at = "read"
  /\ attempt[p].toRead # <<>>
  /\ LET k == Head(attempt[p].toRead)
     IN  \/ /\ LiveTo(p, k)
            /\ attempt' = [attempt EXCEPT
                 ![p].toRead = Tail(@),
                 ![p].found = @ \cup {[owner |-> k, choosing |-> records[k].choosing,
                                       ticket |-> records[k].ticket]}]
         \/ ~LiveTo(p, k) /\ Goes(p, "drop")
  /\ UNCHANGED <<now, keys, records>>

\* contenders: removeItem for a key whose record is gone or has expired.
Drop(p) ==
  LET k == Head(attempt[p].toRead)
  IN  /\ attempt[p].at = "drop"
      /\ Removed(k)
      /\ attempt' = [q \in Attempts |->
           IF q = p THEN [attempt[p] EXCEPT !.at = "read", !.toRead = Tail(@)]
           ELSE IF q \in Overtaken(k) THEN [attempt[q] EXCEPT !.missed = TRUE]
           ELSE attempt[q]]
      /\ UNCHANGED now

ReadAll(p) == attempt[p].at = "read" /\ attempt[p].toRead = <<>>

\* p computes its ticket and reads the clock for its record.
Draws(p, ticket) ==
  /\ ReadAll(p) /\ attempt[p].round = 1
  /\ attempt' = [attempt EXCEPT ![p] = [Scanned(p, "ticket") EXCEPT
                   !.ticket = ticket, !.asOf = now]]
  /\ UNCHANGED <<now, keys, records>>

\* A bug to be caught: the ticket does not exceed those that were found.
DrawFirst(p) == Draws(p, 1)

\* A bug to be caught: tickets are readings of the clock.
DrawTime(p) == Draws(p, now + 1)

\* After the first round: the ticket after all that were found.
Draw(p) == Draws(p, 1 + Max({0} \cup {c.ticket : c \in attempt[p].found}))

\* p writes its record, noting for the properties whether the lease of the
\* record before it has ended.
Rewrite(p, stage) ==
  /\ WriteIntent(p, FALSE, attempt[p].ticket)
  /\ attempt' = [attempt EXCEPT ![p].at = stage, ![p].asOf = 0,
                                ![p].lapsed = @ \/ ~HasLive(p)]
  /\ UNCHANGED now

TakeTicket(p) == attempt[p].at = "ticket" /\ Rewrite(p, "refresh")

\* There is a contender that goes before p, or may yet.
Preceded(p) ==
  \E c \in attempt[p].found :
    /\ c.owner # p
    /\ \/ c.choosing
       \/ c.ticket < attempt[p].ticket
       \/ c.ticket = attempt[p].ticket /\ c.owner < p

\* A bug to be caught: a refused attempt leaves its record behind.
JudgeMessily(p) ==
  /\ ReadAll(p) /\ attempt[p].round = 2
  /\ \/ Preceded(p) /\ attempt' = [attempt EXCEPT ![p] = Over(p, "gone")]
     \/ ~Preceded(p) /\ attempt' = [attempt EXCEPT ![p] = Scanned(p, "critical")]
  /\ UNCHANGED <<now, keys, records>>

\* After the second round: give up or enter.
Judge(p) ==
  /\ ReadAll(p) /\ attempt[p].round = 2
  /\ \/ Preceded(p) /\ attempt' = [attempt EXCEPT ![p] = Scanned(p, "leave")]
     \/ ~Preceded(p) /\ attempt' = [attempt EXCEPT ![p] = Scanned(p, "critical")]
  /\ UNCHANGED <<now, keys, records>>

-------------------------------------------------------------------------------
(* refreshOwnership: before the second round, in each heartbeat, and in      *)
(* each assertOwnership.                                                     *)

\* ownsCurrentRecord(ownRecord())
Owns(p) ==
  /\ p \in DOMAIN records
  /\ ~records[p].choosing
  /\ records[p].ticket = attempt[p].ticket
  /\ Live(records[p])

\* What becomes of p when it does not own the lock: an entering attempt and
\* an assertion give up, a heartbeat notes it for the next assertion.
Loses(p) ==
  LET next == IF attempt[p].aim = "beat" THEN "critical" ELSE "leave"
  IN  attempt' = [attempt EXCEPT ![p] = [Scanned(p, next) EXCEPT !.lost = TRUE]]

\* A bug to be caught: a heartbeat that finds the lease lost takes it again.
RefreshAnew(p) ==
  /\ attempt[p].at = "refresh"
  /\ \/ /\ Owns(p) /\ ReadsClock(p, "renew")
        /\ UNCHANGED <<now, keys, records>>
     \/ /\ ~Owns(p) /\ attempt[p].aim # "beat" /\ Loses(p)
        /\ UNCHANGED <<now, keys, records>>
     \/ ~Owns(p) /\ attempt[p].aim = "beat" /\ Rewrite(p, "confirm")

\* The first look.  A record that others have not removed does not change, so
\* the clock that ownsCurrentRecord reads after getItem may as well be read
\* with it.
Refresh(p) ==
  /\ attempt[p].at = "refresh"
  /\ \/ Owns(p) /\ ReadsClock(p, "renew")
     \/ ~Owns(p) /\ Loses(p)
  /\ UNCHANGED <<now, keys, records>>

\* The record is written whatever has become of it since the look.
Renew(p) == attempt[p].at = "renew" /\ Rewrite(p, "confirm")

\* The record is read again.  An assertion fails too when a heartbeat failed.
Confirm(p) ==
  LET a == attempt[p]
  IN  /\ a.at = "confirm"
      /\ \/ /\ Owns(p) /\ a.aim = "enter"
            /\ attempt' = [attempt EXCEPT ![p].at = "scan", ![p].round = 2]
         \/ /\ Owns(p) /\ (a.aim = "beat" \/ (a.aim = "assert" /\ ~a.lost))
            /\ Goes(p, "critical")
         \/ ~Owns(p) /\ Loses(p)
         \/ Owns(p) /\ a.aim = "assert" /\ a.lost /\ Loses(p)
      /\ UNCHANGED <<now, keys, records>>

\* setItem or getItem throws: an entering attempt and an assertion give up, a
\* heartbeat notes it (coordinationFailed).
Throw(p) ==
  /\ attempt[p].at \in Inside \ {"scan", "leave"}
  /\ Loses(p)
  /\ UNCHANGED <<now, keys, records>>

-------------------------------------------------------------------------------
(* Holding and leaving *)

\* The callback runs.  The interval timer and the callback's own calls of
\* assertOwnership start a block each.
StartBlock(p) ==
  /\ attempt[p].at = "critical"
  /\ \E aim \in {"beat", "assert"} :
       attempt' = [attempt EXCEPT ![p].at = "refresh", ![p].aim = aim]
  /\ UNCHANGED <<now, keys, records>>

\* The callback ends, or throws because the save was cancelled.
Finish(p) ==
  /\ attempt[p].at = "critical"
  /\ Goes(p, "leave")
  /\ UNCHANGED <<now, keys, records>>

\* cleanup: the timer stops and the record goes.
Leave(p) ==
  /\ attempt[p].at = "leave"
  /\ Removed(p)
  /\ attempt' = [q \in Attempts |->
       IF q = p THEN Over(p, "gone")
       ELSE IF q \in Overtaken(p) THEN [attempt[q] EXCEPT !.missed = TRUE]
       ELSE attempt[q]]
  /\ UNCHANGED now

\* The page is closed; its record stays until the lease ends.
Crash(p) ==
  /\ attempt[p].at \notin {"new", "gone", "crashed"}
  /\ attempt' = [attempt EXCEPT ![p] = Over(p, "crashed")]
  /\ UNCHANGED <<now, keys, records>>

\* Another script removes an item of its own.
Forget ==
  /\ \E k \in Foreign \cap ToSet(keys) :
       /\ Removed(k)
       /\ attempt' = [q \in Attempts |->
            IF q \in Overtaken(k) THEN [attempt[q] EXCEPT !.missed = TRUE]
            ELSE attempt[q]]
  /\ UNCHANGED now

\* Nothing holds up the clock: a tab may be suspended between any two calls.
Tick ==
  /\ now < MaxTime
  /\ now' = now + 1
  /\ UNCHANGED <<keys, records, attempt>>

Step(p) ==
  \/ Announce(p)
  \/ Look(p)
  \/ Collect(p)
  \/ Collected(p)
  \/ Read(p)
  \/ Drop(p)
  \/ Draw(p)
  \/ TakeTicket(p)
  \/ Judge(p)
  \/ Refresh(p)
  \/ Renew(p)
  \/ Confirm(p)
  \/ Throw(p)
  \/ StartBlock(p)
  \/ Finish(p)
  \/ Leave(p)
  \/ Crash(p)

Next == (\E p \in Attempts : Step(p)) \/ Forget \/ Tick

Spec == Init /\ [][Next]_vars

-------------------------------------------------------------------------------
(* Properties *)

\* The attempt's callback runs and the next assertion would let it write.
Holds(p) ==
  \/ attempt[p].at = "critical" /\ Owns(p) /\ ~attempt[p].lost
  \/ attempt[p].at \in {"refresh", "renew", "confirm"} /\ attempt[p].aim # "enter"
     /\ Owns(p) /\ ~attempt[p].lost

\* Tickets keep the tabs from overlapping their read-merge-write (the comment
\* above configSaveLockError).
OneHolder == \A p, q \in Attempts : Holds(p) /\ Holds(q) => p = q

\* Two attempts hold the lock only where one of them missed an item that was
\* removed while it was collecting keys (missed), or wrote its record when the
\* lease of the one before had ended within a block of script (lapsed):
\* nothing else lets two in, with crashes, suspended tabs, failing calls and
\* stale readings of the clock all about.
OneHolderUnlessMissedOrLapsed ==
  \A p, q \in Attempts :
    Holds(p) /\ Holds(q) /\ p # q =>
      \E r \in {p, q} : attempt[r].missed \/ attempt[r].lapsed

\* An attempt that is over has no record left to keep others out.
NothingLeftBehind == \A p \in Attempts : attempt[p].at = "gone" => p \notin DOMAIN records

\* The callback of p has begun.
Begun(p) == attempt[p].at = "critical" \/ attempt[p].aim # "enter"

\* A lease ends by its time or by its owner's leave; no other tab, however old
\* its reading of the clock, takes it away, unless the record was written back
\* after its end.  And it ends once: only the renewal that was on its way,
\* looked at before the end and written after, brings it back.
LeaseEndsOnce ==
  [][\A p \in Attempts :
       /\ HasLive(p) /\ ~attempt[p].lapsed /\ p \notin DOMAIN records' =>
            attempt'[p].at = "gone"
       /\ Begun(p) /\ ~Owns(p) /\ attempt[p].at # "renew" => ~(Owns(p))']_vars
===============================================================================

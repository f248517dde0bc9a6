----------------------------- MODULE SaveLockProofs -----------------------------
(***************************************************************************)
(* Proofs that the save lock works for any number of attempts and foreign  *)
(* items, any lease and any order in which the calls of the tabs meet in   *)
(* localStorage.                                                           *)
(***************************************************************************)
EXTENDS SaveLock, SequenceTheorems, FiniteSetTheorems, WellFoundedInduction, TLAPS

-------------------------------------------------------------------------------
(* Sequences of keys *)

\* The item x is in s beyond the first n.
Beyond(s, n, x) == \E i \in DOMAIN s : i > n /\ s[i] = x

\* RemoveAt(s, i) moves every later item one place to the front.
LEMMA RemoveAtProperties ==
  ASSUME NEW S, NEW s \in Seq(S), NEW i \in DOMAIN s
  PROVE  /\ RemoveAt(s, i) \in Seq(S)
         /\ Len(RemoveAt(s, i)) = Len(s) - 1
         /\ \A j \in 1..(Len(s) - 1) :
              RemoveAt(s, i)[j] = IF j < i THEN s[j] ELSE s[j + 1]
PROOF
  <1> DEFINE a == SubSeq(s, 1, i - 1)
             b == SubSeq(s, i + 1, Len(s))
  <1>0. Len(s) \in Nat /\ i \in 1..Len(s) /\ i \in Int
    BY LenProperties
  <1>1. /\ a \in Seq(S)
        /\ Len(a) = i - 1
        /\ \A j \in 1..(i - 1) : a[j] = s[j]
    BY <1>0, SubSeqProperties, i - 1 \in 1..Len(s) \/ i - 1 = 0
  <1>2. /\ b \in Seq(S)
        /\ Len(b) = Len(s) - i
        /\ \A j \in 1..(Len(s) - i) : b[j] = s[i + j]
    BY <1>0, SubSeqProperties
  <1>3. RemoveAt(s, i) = a \o b
    BY DEF RemoveAt
  <1>4. /\ a \o b \in Seq(S)
        /\ Len(a \o b) = Len(a) + Len(b)
        /\ \A j \in 1..(Len(a) + Len(b)) :
             (a \o b)[j] = IF j <= Len(a) THEN a[j] ELSE b[j - Len(a)]
    BY <1>1, <1>2, ConcatProperties
  <1> HIDE DEF a, b
  <1>5. ASSUME NEW j \in 1..(Len(s) - 1)
        PROVE  (a \o b)[j] = IF j < i THEN s[j] ELSE s[j + 1]
    <2>1. j \in 1..(Len(a) + Len(b))
      BY <1>0, <1>1, <1>2
    <2>2. CASE j < i
      BY <1>0, <1>1, <1>4, <2>1, <2>2
    <2>3. CASE ~(j < i)
      <3>1. j - Len(a) \in 1..(Len(s) - i) /\ i + (j - Len(a)) = j + 1 /\ ~(j <= Len(a))
        BY <1>0, <1>1, <2>3
      <3> QED
        BY <1>2, <1>4, <2>1, <2>3, <3>1
    <2> QED
      BY <2>2, <2>3
  <1> QED
    BY <1>0, <1>1, <1>2, <1>3, <1>4, <1>5

\* InsertAt(s, i, e) puts e at place i and moves every later item one back.
LEMMA InsertAtProperties ==
  ASSUME NEW S, NEW s \in Seq(S), NEW i \in 1..(Len(s) + 1), NEW e \in S
  PROVE  /\ InsertAt(s, i, e) \in Seq(S)
         /\ Len(InsertAt(s, i, e)) = Len(s) + 1
         /\ \A j \in 1..(Len(s) + 1) :
              InsertAt(s, i, e)[j] =
                IF j < i THEN s[j] ELSE IF j = i THEN e ELSE s[j - 1]
PROOF
  <1> DEFINE a == SubSeq(s, 1, i - 1)
             b == SubSeq(s, i, Len(s))
             c == a \o <<e>>
  <1>0. Len(s) \in Nat /\ i \in Int
    BY LenProperties
  <1>1. /\ a \in Seq(S)
        /\ Len(a) = i - 1
        /\ \A j \in 1..(i - 1) : a[j] = s[j]
    <2>1. \A j \in 1..(i - 1) : s[j] \in S
      BY <1>0, ElementOfSeq
    <2> QED
      BY <1>0, <2>1, SubSeqProperties, i - 1 >= 1 \/ i - 1 = 0
  <1>2. /\ b \in Seq(S)
        /\ Len(b) = Len(s) - i + 1
        /\ \A j \in 1..(Len(s) - i + 1) : b[j] = s[i + j - 1]
    <2>1. \A j \in i..Len(s) : s[j] \in S
      BY <1>0, ElementOfSeq
    <2> QED
      BY <1>0, <2>1, SubSeqProperties, i <= Len(s) \/ i = Len(s) + 1
  <1>3. <<e>> \in Seq(S) /\ Len(<<e>>) = 1 /\ <<e>>[1] = e
    OBVIOUS
  <1> HIDE DEF a, b
  <1>4. /\ c \in Seq(S)
        /\ Len(c) = i
        /\ \A j \in 1..i : c[j] = IF j < i THEN s[j] ELSE e
    <2>1. /\ c \in Seq(S)
          /\ Len(c) = i
          /\ \A j \in 1..(Len(a) + 1) :
               c[j] = IF j <= Len(a) THEN a[j] ELSE <<e>>[j - Len(a)]
      BY <1>0, <1>1, <1>3, ConcatProperties
    <2> HIDE DEF c
    <2>2. ASSUME NEW j \in 1..i
          PROVE  c[j] = IF j < i THEN s[j] ELSE e
      <3>1. CASE j < i
        BY <1>0, <1>1, <2>1, <3>1
      <3>2. CASE j = i
        BY <1>0, <1>1, <1>3, <2>1, <3>2
      <3> QED
        BY <1>0, <3>1, <3>2
    <2> QED
      BY <2>1, <2>2
  <1>5. InsertAt(s, i, e) = c \o b
    BY DEF InsertAt, a, b
  <1> HIDE DEF c
  <1>6. /\ c \o b \in Seq(S)
        /\ Len(c \o b) = Len(s) + 1
        /\ \A j \in 1..(Len(s) + 1) :
             (c \o b)[j] = IF j <= i THEN c[j] ELSE b[j - i]
    <2>1. Len(c) + Len(b) = Len(s) + 1
      BY <1>0, <1>2, <1>4
    <2>2. /\ c \o b \in Seq(S)
          /\ Len(c \o b) = Len(c) + Len(b)
          /\ \A j \in 1..(Len(c) + Len(b)) :
               (c \o b)[j] = IF j <= Len(c) THEN c[j] ELSE b[j - Len(c)]
      BY <1>2, <1>4, ConcatProperties
    <2> QED
      BY <1>4, <2>1, <2>2
  <1>7. ASSUME NEW j \in 1..(Len(s) + 1)
        PROVE  (c \o b)[j] = IF j < i THEN s[j] ELSE IF j = i THEN e ELSE s[j - 1]
    <2>1. CASE j <= i
      BY <1>0, <1>4, <1>6, <2>1
    <2>2. CASE ~(j <= i)
      <3>1. j - i \in 1..(Len(s) - i + 1) /\ i + (j - i) - 1 = j - 1
        BY <1>0, <2>2
      <3> QED
        BY <1>0, <1>2, <1>6, <2>2, <3>1
    <2> QED
      BY <2>1, <2>2
  <1> QED
    BY <1>5, <1>6, <1>7

\* The first of a sequence and those behind it are its elements.
LEMMA HeadAndTail ==
  ASSUME NEW S, NEW s \in Seq(S), s # <<>>
  PROVE  /\ Head(s) \in S /\ Head(s) \in ToSet(s)
         /\ Tail(s) \in Seq(S)
         /\ \A x \in ToSet(Tail(s)) : x \in ToSet(s)
         /\ \A x \in ToSet(s) : x = Head(s) \/ x \in ToSet(Tail(s))
PROOF
  <1> DEFINE t == Tail(s)
  <1>1. Len(s) \in Nat \ {0} /\ DOMAIN s = 1..Len(s)
    BY EmptySeq, LenProperties
  <1>2. /\ Head(s) \in S /\ Head(s) = s[1]
        /\ t \in Seq(S) /\ Len(t) = Len(s) - 1
        /\ \A i \in 1..Len(t) : t[i] = s[i + 1]
    BY HeadTailProperties
  <1>3. DOMAIN t = 1..(Len(s) - 1)
    BY <1>2, LenProperties
  <1> HIDE DEF t
  <1>4. Head(s) \in ToSet(s)
    BY <1>1, <1>2 DEF ToSet
  <1>5. ASSUME NEW i \in DOMAIN t
        PROVE  t[i] \in ToSet(s)
    <2>1. i + 1 \in DOMAIN s /\ t[i] = s[i + 1]
      BY <1>1, <1>2, <1>3
    <2> QED
      BY <2>1 DEF ToSet
  <1>6. ASSUME NEW i \in DOMAIN s
        PROVE  s[i] = Head(s) \/ s[i] \in ToSet(t)
    <2>1. CASE i = 1
      BY <1>2, <2>1
    <2>2. CASE i # 1
      <3>1. i - 1 \in DOMAIN t /\ (i - 1) + 1 = i
        BY <1>1, <1>3, <2>2
      <3>2. t[i - 1] = s[i]
        BY <1>2, <1>3, <3>1
      <3> QED
        BY <3>1, <3>2 DEF ToSet
    <2> QED
      BY <2>1, <2>2
  <1>7. \A x \in ToSet(t) : x \in ToSet(s)
    BY <1>5 DEF ToSet
  <1>8. \A x \in ToSet(s) : x = Head(s) \/ x \in ToSet(t)
    BY <1>6 DEF ToSet
  <1> QED
    BY <1>2, <1>4, <1>7, <1>8 DEF t

\* The elements of a sequence with one more at its end.
LEMMA AppendElements ==
  ASSUME NEW S, NEW s \in Seq(S), NEW e \in S
  PROVE  ToSet(Append(s, e)) = ToSet(s) \cup {e}
PROOF
  <1> DEFINE t == Append(s, e)
  <1>1. Len(s) \in Nat /\ DOMAIN s = 1..Len(s)
    BY LenProperties
  <1>2. /\ t \in Seq(S) /\ Len(t) = Len(s) + 1
        /\ \A i \in 1..Len(s) : t[i] = s[i]
        /\ t[Len(s) + 1] = e
    BY AppendProperties
  <1>3. DOMAIN t = 1..(Len(s) + 1)
    BY <1>2, LenProperties
  <1> HIDE DEF t
  <1>4. ASSUME NEW i \in DOMAIN t
        PROVE  t[i] \in ToSet(s) \cup {e}
    <2>1. i \in DOMAIN s \/ i = Len(s) + 1
      BY <1>1, <1>3
    <2> QED
      BY <1>1, <1>2, <2>1 DEF ToSet
  <1>5. ASSUME NEW i \in DOMAIN s
        PROVE  s[i] \in ToSet(t)
    <2>1. i \in DOMAIN t /\ t[i] = s[i]
      BY <1>1, <1>2, <1>3
    <2> QED
      BY <2>1 DEF ToSet
  <1>6. e \in ToSet(t)
    <2>1. Len(s) + 1 \in DOMAIN t
      BY <1>1, <1>3
    <2> QED
      BY <1>2, <2>1 DEF ToSet
  <1>7. ToSet(t) = ToSet(s) \cup {e}
    BY <1>4, <1>5, <1>6 DEF ToSet
  <1> QED
    BY <1>7 DEF t

\* A key that another one is put before or behind stays as far to the back.
LEMMA InsertKeeps ==
  ASSUME NEW S, NEW s \in Seq(S), NEW i \in 1..(Len(s) + 1), NEW e \in S, NEW n \in Nat,
         NEW x, Beyond(s, n, x)
  PROVE  Beyond(InsertAt(s, i, e), n, x)
PROOF
  <1> DEFINE t == InsertAt(s, i, e)
  <1>1. PICK j \in DOMAIN s : j > n /\ s[j] = x
    BY DEF Beyond
  <1>2. Len(s) \in Nat /\ DOMAIN s = 1..Len(s)
    BY LenProperties
  <1>3. /\ t \in Seq(S) /\ DOMAIN t = 1..(Len(s) + 1)
        /\ \A k \in 1..(Len(s) + 1) :
             t[k] = IF k < i THEN s[k] ELSE IF k = i THEN e ELSE s[k - 1]
    BY InsertAtProperties, LenProperties
  <1> HIDE DEF t
  <1>4. (j < i => t[j] = s[j]) /\ (j >= i => t[j + 1] = s[j])
    <2>1. j \in 1..(Len(s) + 1) /\ j + 1 \in 1..(Len(s) + 1) /\ (j + 1) - 1 = j
      BY <1>1, <1>2
    <2> QED
      BY <1>1, <1>2, <1>3, <2>1
  <1>5. Beyond(t, n, x)
    BY <1>1, <1>2, <1>3, <1>4 DEF Beyond
  <1> QED
    BY <1>5 DEF t

\* A key stays beyond the first n when another one beyond them is removed.
LEMMA RemoveKeeps ==
  ASSUME NEW S, NEW s \in Seq(S), NEW d \in DOMAIN s, NEW n \in Nat, d > n,
         NEW x, s[d] # x, Beyond(s, n, x)
  PROVE  Beyond(RemoveAt(s, d), n, x)
PROOF
  <1> DEFINE t == RemoveAt(s, d)
  <1>1. PICK j \in DOMAIN s : j > n /\ s[j] = x
    BY DEF Beyond
  <1>2. Len(s) \in Nat /\ DOMAIN s = 1..Len(s)
    BY LenProperties
  <1>3. /\ t \in Seq(S) /\ DOMAIN t = 1..(Len(s) - 1)
        /\ \A k \in 1..(Len(s) - 1) : t[k] = IF k < d THEN s[k] ELSE s[k + 1]
    BY RemoveAtProperties, LenProperties
  <1> HIDE DEF t
  <1>4. ASSUME j < d PROVE Beyond(t, n, x)
    <2>1. j \in 1..(Len(s) - 1)
      BY <1>1, <1>2, <1>4
    <2>2. t[j] = s[j]
      BY <1>3, <1>4, <2>1
    <2> QED
      BY <1>1, <1>3, <2>1, <2>2 DEF Beyond
  <1>5. ASSUME j > d PROVE Beyond(t, n, x)
    <2>1. j - 1 \in 1..(Len(s) - 1) /\ j - 1 > n
      BY <1>1, <1>2, <1>5
    <2>2. ~(j - 1 < d) /\ (j - 1) + 1 = j
      BY <1>2, <1>5
    <2>3. t[j - 1] = s[j]
      BY <1>3, <2>1, <2>2
    <2> QED
      BY <1>1, <1>3, <2>1, <2>3 DEF Beyond
  <1>6. Beyond(t, n, x)
    <2>1. j \in Int /\ d \in Int /\ j # d
      BY <1>1, <1>2
    <2> QED
      BY <1>4, <1>5, <2>1
  <1> QED
    BY <1>6 DEF t

-------------------------------------------------------------------------------
(* Tickets *)

\* A bounded set of numbers has a maximum, which is what Max chooses.
LEMMA MaxProperties ==
  ASSUME NEW N \in Nat, NEW S \in SUBSET (0..N), S # {}
  PROVE  Max(S) \in S /\ \A x \in S : x <= Max(S)
PROOF
  <1> DEFINE T == {N - x : x \in S}
             R == OpToRel(<, Nat)
  <1>1. T \in SUBSET Nat /\ T # {}
    <2>1. PICK x \in S : TRUE
      OBVIOUS
    <2>2. \A z \in S : N - z \in Nat
      OBVIOUS
    <2> QED
      BY <2>1, <2>2
  <1>2. IsWellFoundedOn(R, Nat)
    BY NatLessThanWellFounded
  <1>3. PICK y \in T : \A z \in T : ~(<<z, y>> \in R)
    <2> HIDE DEF R, T
    <2> QED
      BY <1>1, <1>2, WFMin
  <1>4. \A z \in T : ~(z < y)
    BY <1>1, <1>3 DEF OpToRel
  <1>5. PICK m \in S : y = N - m
    BY <1>3
  <1>6. \A x \in S : m >= x
    <2> SUFFICES ASSUME NEW x \in S PROVE m >= x
      OBVIOUS
    <2>1. ~(N - x < N - m)
      BY <1>4, <1>5
    <2> QED
      BY <2>1
  <1>7. \E a \in S : \A b \in S : a >= b
    BY <1>6
  <1>8. Max(S) \in S /\ \A b \in S : Max(S) >= b
    BY <1>7 DEF Max
  <1> QED
    BY <1>8

-------------------------------------------------------------------------------
(* The inductive invariant *)

Contenders == [owner : Attempts, choosing : BOOLEAN, ticket : Nat]

Doing ==
  [at : Resting \cup Inside, round : {1, 2}, passed : Nat, toRead : Seq(Attempts),
   found : SUBSET Contenders, ticket : Nat, asOf : Nat, aim : {"enter", "beat", "assert"},
   lost : BOOLEAN, missed : BOOLEAN, lapsed : BOOLEAN]

Intents == [choosing : BOOLEAN, ticket : Nat, expires : Nat]

Shape ==
  /\ now \in 0..MaxTime
  /\ keys \in Seq(Attempts \cup Foreign)
  /\ \A i, j \in DOMAIN keys : keys[i] = keys[j] => i = j
  /\ DOMAIN records = ToSet(keys) \cap Attempts
  /\ \A p \in DOMAIN records : records[p] \in Intents /\ records[p].expires <= now + Lease
  /\ attempt \in [Attempts -> Doing]
  /\ \A p \in Attempts : attempt[p].asOf <= now

Scanning == {"scan", "collect", "read", "drop"}

Choosing(p) == attempt[p].at \in Scanning /\ attempt[p].round = 1
Rescans(p)  == attempt[p].at \in Scanning /\ attempt[p].round = 2

\* The attempt's callback runs, perhaps within a heartbeat or an assertion.
Through(p) ==
  \/ attempt[p].at = "critical"
  \/ attempt[p].at \in {"refresh", "renew", "confirm"} /\ attempt[p].aim # "enter"

\* The attempt's own record, if there is one, is the one it wrote.
IsOwn(p) ==
  p \in DOMAIN records => ~records[p].choosing /\ records[p].ticket = attempt[p].ticket

\* What the stage of an attempt says of its record and of what it has read.
StageMeans(p) ==
  LET a == attempt[p]
  IN  /\ a.at = "new" => a.round = 1
      /\ a.at \in {"new", "gone"} => p \notin DOMAIN records
      /\ a.at \in Scanning \cup {"new", "ticket", "gone", "crashed"} => a.aim = "enter"
      /\ a.at \in {"new", "scan", "ticket", "refresh", "renew", "confirm", "critical"}
           => a.passed = 0
      /\ Choosing(p) \/ a.at = "ticket" => (p \in DOMAIN records => records[p].choosing)
      /\ Rescans(p) \/ a.at \in {"refresh", "renew", "confirm", "critical"} \/ a.aim # "enter"
           => IsOwn(p)
      /\ \A k \in ToSet(a.toRead) : attempt[k].at # "new"
      /\ \A c \in a.found : attempt[c.owner].at # "new"
      /\ a.at = "drop" =>
           /\ a.toRead # <<>>
           /\ \A k \in Attempts : k = Head(a.toRead) => ~HasLive(k) \/ attempt[k].lapsed

\* The attempts that have taken a ticket, or never will.
Taken == {p \in Attempts : attempt[p].ticket > 0 \/ attempt[p].at \in {"leave", "gone", "crashed"}}

\* No ticket is above the number of attempts that have taken one.
Bounded ==
  /\ \A p \in Attempts : attempt[p].ticket <= Cardinality(Taken)
  /\ \A p \in DOMAIN records : records[p].ticket <= Cardinality(Taken)
  /\ \A p \in Attempts : \A c \in attempt[p].found : c.ticket <= Cardinality(Taken)
  /\ \A p \in Attempts : Choosing(p) \/ attempt[p].at = "new" => attempt[p].ticket = 0

\* The scan of p has yet to come to q's record.
Ahead(p, q) ==
  \/ attempt[p].at = "scan"
  \/ attempt[p].at = "collect" /\ Beyond(keys, attempt[p].passed, q)
  \/ q \in ToSet(attempt[p].toRead)

\* The second scan of p has found the record of q: while q was choosing, or
\* with the ticket it has now.
Found(p, q) ==
  \E c \in attempt[p].found :
    /\ c.owner = q
    /\ c.choosing \/ (~records[q].choosing /\ c.ticket = records[q].ticket)

\* The first scan of q has found the ticket of p.
Saw(q, p) == \E c \in attempt[q].found : c.owner = p /\ c.ticket = records[p].ticket

\* The ticket of q is after that of p.
After(q, p) ==
  /\ ~records[q].choosing
  /\ \/ records[p].ticket < records[q].ticket
     \/ records[p].ticket = records[q].ticket /\ p < q

\* The ticket that q has drawn and not yet written is after that of p.
Drawn(q, p) == attempt[q].at = "ticket" /\ records[p].ticket < attempt[q].ticket

\* Nothing has spoilt what p has read or written.
Sound(p) == ~attempt[p].missed /\ ~attempt[p].lapsed

\* The stages of an attempt that has announced itself and not given up.
Contending == Scanning \cup {"ticket", "refresh", "renew", "confirm", "critical"}

\* p is past choosing, q has not given up, and both are sound.
Compete(p, q) ==
  /\ p # q /\ Sound(p) /\ Sound(q)
  /\ Rescans(p) \/ Through(p)
  /\ attempt[q].at \in Contending
  /\ Owns(p) /\ HasLive(q)

\* p still can see q in its second scan, or q can see p's ticket in its first,
\* or q's ticket is after p's.
InOrder(p, q) ==
  \/ Rescans(p) /\ (Ahead(p, q) \/ Found(p, q))
  \/ Choosing(q) /\ (Ahead(q, p) \/ Saw(q, p))
  \/ Drawn(q, p)
  \/ After(q, p)

Apart(p, q) == Compete(p, q) => InOrder(p, q)

LockInv ==
  /\ Shape
  /\ \A p \in Attempts : StageMeans(p)
  /\ Bounded
  /\ \A p, q \in Attempts : Apart(p, q)

-------------------------------------------------------------------------------
(* The storage *)

NoRepeats(s) == \A i, j \in DOMAIN s : s[i] = s[j] => i = j

\* A new key turns up somewhere among the others.
LEMMA InsertedOnce ==
  ASSUME NEW S, NEW s \in Seq(S), NoRepeats(s), NEW e \in S, e \notin ToSet(s),
         NEW i \in 1..(Len(s) + 1)
  PROVE  NoRepeats(InsertAt(s, i, e)) /\ ToSet(InsertAt(s, i, e)) = ToSet(s) \cup {e}
PROOF
  <1> DEFINE t == InsertAt(s, i, e)
  <1>1. Len(s) \in Nat /\ DOMAIN s = 1..Len(s)
    BY LenProperties
  <1>2. /\ t \in Seq(S) /\ DOMAIN t = 1..(Len(s) + 1)
        /\ \A k \in 1..(Len(s) + 1) :
             t[k] = IF k < i THEN s[k] ELSE IF k = i THEN e ELSE s[k - 1]
    <2>1. /\ t \in Seq(S) /\ Len(t) = Len(s) + 1
          /\ \A k \in 1..(Len(s) + 1) :
               t[k] = IF k < i THEN s[k] ELSE IF k = i THEN e ELSE s[k - 1]
      BY InsertAtProperties
    <2> HIDE DEF t
    <2> QED
      BY <2>1, LenProperties
  <1>3. \A k \in DOMAIN s : s[k] # e
    BY DEF ToSet
  <1> HIDE DEF t
  <1>4. ASSUME NEW a \in DOMAIN t, NEW b \in DOMAIN t, t[a] = t[b]
        PROVE  a = b
    <2>1. a \in 1..(Len(s) + 1) /\ b \in 1..(Len(s) + 1) /\ i \in Int
      BY <1>1, <1>2, <1>4
    <2>2. \A k \in 1..(Len(s) + 1) : k < i => k \in DOMAIN s /\ t[k] = s[k]
      BY <1>1, <1>2
    <2>3. \A k \in 1..(Len(s) + 1) : k > i => k - 1 \in DOMAIN s /\ t[k] = s[k - 1]
      BY <1>1, <1>2
    <2>4. t[i] = e
      BY <1>1, <1>2
    <2>5. \A k, l \in DOMAIN s : s[k] = s[l] => k = l
      BY DEF NoRepeats
    <2>6. CASE a < i
      <3>1. b # i
        BY <1>3, <1>4, <2>1, <2>2, <2>4, <2>6
      <3>2. CASE b < i
        BY <1>4, <2>1, <2>2, <2>5, <2>6, <3>2
      <3>3. CASE b > i
        <4>1. a = b - 1
          BY <1>4, <2>1, <2>2, <2>3, <2>5, <2>6, <3>3
        <4> QED
          BY <2>1, <2>6, <3>3, <4>1
      <3> QED
        BY <2>1, <3>1, <3>2, <3>3
    <2>7. CASE a = i
      <3>1. t[b] = e
        BY <1>4, <2>4, <2>7
      <3>2. ~(b < i) /\ ~(b > i)
        BY <1>3, <2>1, <2>2, <2>3, <3>1
      <3> QED
        BY <2>1, <2>7, <3>2
    <2>8. CASE a > i
      <3>1. b # i
        BY <1>3, <1>4, <2>1, <2>3, <2>4, <2>8
      <3>2. CASE b > i
        <4>1. a - 1 = b - 1
          BY <1>4, <2>1, <2>3, <2>5, <2>8, <3>2
        <4> QED
          BY <2>1, <4>1
      <3>3. CASE b < i
        <4>1. a - 1 = b
          BY <1>4, <2>1, <2>2, <2>3, <2>5, <2>8, <3>3
        <4> QED
          BY <2>1, <2>8, <3>3, <4>1
      <3> QED
        BY <2>1, <3>1, <3>2, <3>3
    <2> QED
      BY <2>1, <2>6, <2>7, <2>8
  <1>5. ToSet(t) = ToSet(s) \cup {e}
    <2>1. ASSUME NEW k \in DOMAIN t
          PROVE  t[k] \in ToSet(s) \cup {e}
      <3>1. k \in 1..(Len(s) + 1) /\ i \in Int
        BY <1>1, <1>2
      <3>2. CASE k < i
        BY <1>1, <1>2, <3>1, <3>2 DEF ToSet
      <3>3. CASE k = i
        BY <1>2, <3>1, <3>3
      <3>4. CASE k > i
        <4>1. k - 1 \in DOMAIN s /\ t[k] = s[k - 1]
          BY <1>1, <1>2, <3>1, <3>4
        <4> QED
          BY <4>1 DEF ToSet
      <3> QED
        BY <3>1, <3>2, <3>3, <3>4
    <2>2. ASSUME NEW k \in DOMAIN s
          PROVE  s[k] \in ToSet(t)
      <3>1. k \in 1..Len(s) /\ i \in Int
        BY <1>1
      <3>2. CASE k < i
        <4>1. k \in DOMAIN t /\ t[k] = s[k]
          BY <1>1, <1>2, <3>1, <3>2
        <4> QED
          BY <4>1 DEF ToSet
      <3>3. CASE ~(k < i)
        <4>1. k + 1 \in DOMAIN t /\ (k + 1) - 1 = k /\ ~(k + 1 < i) /\ k + 1 # i
          BY <1>1, <1>2, <3>1, <3>3
        <4>2. t[k + 1] = s[k]
          BY <1>2, <4>1
        <4> QED
          BY <4>1, <4>2 DEF ToSet
      <3> QED
        BY <3>2, <3>3
    <2>3. e \in ToSet(t)
      <3>1. i \in DOMAIN t /\ t[i] = e
        BY <1>1, <1>2
      <3> QED
        BY <3>1 DEF ToSet
    <2> QED
      BY <2>1, <2>2, <2>3 DEF ToSet
  <1>6. NoRepeats(t)
    BY <1>4 DEF NoRepeats
  <1> QED
    BY <1>5, <1>6 DEF t

\* A key that is removed is gone, and no other one is.
LEMMA RemovedOnce ==
  ASSUME NEW S, NEW s \in Seq(S), NoRepeats(s), NEW i \in DOMAIN s
  PROVE  NoRepeats(RemoveAt(s, i)) /\ ToSet(RemoveAt(s, i)) = ToSet(s) \ {s[i]}
PROOF
  <1> DEFINE t == RemoveAt(s, i)
  <1>1. Len(s) \in Nat /\ DOMAIN s = 1..Len(s) /\ i \in 1..Len(s) /\ i \in Int
    BY LenProperties
  <1>2. /\ t \in Seq(S) /\ DOMAIN t = 1..(Len(s) - 1)
        /\ \A k \in 1..(Len(s) - 1) : t[k] = IF k < i THEN s[k] ELSE s[k + 1]
    BY RemoveAtProperties, LenProperties
  <1> HIDE DEF t
  <1>3. \A k, l \in DOMAIN s : s[k] = s[l] => k = l
    BY DEF NoRepeats
  <1>4. \A k \in DOMAIN t : k < i => k \in DOMAIN s /\ t[k] = s[k]
    BY <1>1, <1>2
  <1>5. \A k \in DOMAIN t : ~(k < i) => k + 1 \in DOMAIN s /\ t[k] = s[k + 1]
    BY <1>1, <1>2
  <1>6. ASSUME NEW a \in DOMAIN t, NEW b \in DOMAIN t, t[a] = t[b]
        PROVE  a = b
    <2>1. a \in Int /\ b \in Int
      BY <1>1, <1>2
    <2>2. CASE a < i /\ b < i
      BY <1>3, <1>4, <1>6, <2>2
    <2>3. CASE a < i /\ ~(b < i)
      <3>1. a = b + 1
        BY <1>3, <1>4, <1>5, <1>6, <2>3
      <3> QED
        BY <1>1, <2>1, <2>3, <3>1
    <2>4. CASE ~(a < i) /\ b < i
      <3>1. a + 1 = b
        BY <1>3, <1>4, <1>5, <1>6, <2>4
      <3> QED
        BY <1>1, <2>1, <2>4, <3>1
    <2>5. CASE ~(a < i) /\ ~(b < i)
      <3>1. a + 1 = b + 1
        BY <1>3, <1>5, <1>6, <2>5
      <3> QED
        BY <2>1, <3>1
    <2> QED
      BY <2>2, <2>3, <2>4, <2>5
  <1>7. ToSet(t) = ToSet(s) \ {s[i]}
    <2>1. ASSUME NEW k \in DOMAIN t
          PROVE  t[k] \in ToSet(s) \ {s[i]}
      <3>1. k \in Int
        BY <1>1, <1>2
      <3>2. CASE k < i
        <4>1. k \in DOMAIN s /\ t[k] = s[k] /\ k # i
          BY <1>1, <1>4, <3>1, <3>2
        <4> QED
          BY <1>3, <4>1 DEF ToSet
      <3>3. CASE ~(k < i)
        <4>1. k + 1 \in DOMAIN s /\ t[k] = s[k + 1] /\ k + 1 # i
          BY <1>1, <1>5, <3>1, <3>3
        <4> QED
          BY <1>3, <4>1 DEF ToSet
      <3> QED
        BY <3>2, <3>3
    <2>2. ASSUME NEW k \in DOMAIN s, k # i
          PROVE  s[k] \in ToSet(t)
      <3>1. k \in 1..Len(s)
        BY <1>1
      <3>2. CASE k < i
        <4>1. k \in DOMAIN t /\ t[k] = s[k]
          BY <1>1, <1>2, <3>1, <3>2
        <4> QED
          BY <4>1 DEF ToSet
      <3>3. CASE k > i
        <4>1. k - 1 \in DOMAIN t /\ (k - 1) + 1 = k /\ ~(k - 1 < i)
          BY <1>1, <1>2, <3>1, <3>3
        <4>2. t[k - 1] = s[k]
          BY <1>2, <4>1
        <4> QED
          BY <4>1, <4>2 DEF ToSet
      <3> QED
        BY <1>1, <2>2, <3>1, <3>2, <3>3
    <2> QED
      BY <2>1, <2>2 DEF ToSet
  <1>8. NoRepeats(t)
    BY <1>6 DEF NoRepeats
  <1> QED
    BY <1>7, <1>8 DEF t


\* setItem on the own key writes that record and moves no other key forward.
LEMMA WriteProperties ==
  ASSUME Shape, NEW p \in Attempts, NEW choosing \in BOOLEAN, NEW ticket \in Nat,
         WriteIntent(p, choosing, ticket)
  PROVE  /\ keys' \in Seq(Attempts \cup Foreign) /\ NoRepeats(keys')
         /\ DOMAIN records' = DOMAIN records \cup {p}
         /\ DOMAIN records' = ToSet(keys') \cap Attempts
         /\ records'[p].choosing = choosing /\ records'[p].ticket = ticket
         /\ records'[p] \in Intents /\ records'[p].expires <= now + Lease
         /\ \A q \in DOMAIN records : q # p => records'[q] = records[q]
         /\ \A n \in Nat : \A x : Beyond(keys, n, x) => Beyond(keys', n, x)
PROOF
  <1>0. /\ keys \in Seq(Attempts \cup Foreign) /\ NoRepeats(keys)
        /\ DOMAIN records = ToSet(keys) \cap Attempts
    BY DEF Shape, NoRepeats
  <1>1. Len(keys) \in Nat /\ DOMAIN keys = 1..Len(keys)
    BY <1>0, LenProperties
  <1>2. Contains(keys, p) <=> p \in DOMAIN records
    BY <1>0, <1>1 DEF Contains, ToSet
  <1>t. /\ now \in Nat /\ Lease \in Nat /\ attempt[p].asOf \in Nat
    BY LockAssumption DEF Shape, Doing
  <1>w. PICK t \in attempt[p].asOf..now :
          /\ records' = [q \in DOMAIN records \cup {p} |->
               IF q = p THEN [choosing |-> choosing, ticket |-> ticket, expires |-> t + Lease]
               ELSE records[q]]
          /\ keys' \in IF Contains(keys, p) THEN {keys}
                       ELSE {InsertAt(keys, i, p) : i \in 1..(Len(keys) + 1)}
    BY DEF WriteIntent
  <1>3. /\ DOMAIN records' = DOMAIN records \cup {p}
        /\ records'[p].choosing = choosing /\ records'[p].ticket = ticket
        /\ records'[p] \in Intents /\ records'[p].expires <= now + Lease
        /\ \A q \in DOMAIN records : q # p => records'[q] = records[q]
    <2>1. /\ records'[p] = [choosing |-> choosing, ticket |-> ticket, expires |-> t + Lease]
          /\ DOMAIN records' = DOMAIN records \cup {p}
          /\ \A q \in DOMAIN records : q # p => records'[q] = records[q]
      BY <1>w
    <2>2. t + Lease \in Nat /\ t + Lease <= now + Lease
      BY <1>t
    <2> QED
      BY <2>1, <2>2 DEF Intents
  <1>4. CASE p \in DOMAIN records
    <2>1. keys' = keys
      BY <1>2, <1>4, <1>w
    <2> QED
      BY <1>0, <1>3, <1>4, <2>1
  <1>5. CASE p \notin DOMAIN records
    <2>1. PICK i \in 1..(Len(keys) + 1) : keys' = InsertAt(keys, i, p)
      BY <1>2, <1>5, <1>w
    <2>2. p \in Attempts \cup Foreign /\ p \notin ToSet(keys)
      BY <1>0, <1>5
    <2>3. keys' \in Seq(Attempts \cup Foreign)
      BY <1>0, <2>1, <2>2, InsertAtProperties
    <2>4. NoRepeats(keys') /\ ToSet(keys') = ToSet(keys) \cup {p}
      BY <1>0, <2>1, <2>2, InsertedOnce
    <2>5. ASSUME NEW n \in Nat, NEW x, Beyond(keys, n, x)
          PROVE  Beyond(keys', n, x)
      BY <1>0, <2>1, <2>2, <2>5, InsertKeeps
    <2> QED
      BY <1>0, <1>3, <2>3, <2>4, <2>5
  <1> QED
    BY <1>4, <1>5

\* removeItem takes that record away and makes nobody miss an item but those
\* it overtakes.
LEMMA RemovedProperties ==
  ASSUME Shape, NEW k \in Attempts \cup Foreign, Removed(k)
  PROVE  /\ keys' \in Seq(Attempts \cup Foreign) /\ NoRepeats(keys')
         /\ DOMAIN records' = DOMAIN records \ {k}
         /\ DOMAIN records' = ToSet(keys') \cap Attempts
         /\ \A q \in DOMAIN records : q # k => records'[q] = records[q]
         /\ \A q \in Attempts : \A x :
              /\ attempt[q].at = "collect"
              /\ q \notin Overtaken(k)
              /\ x # k
              /\ Beyond(keys, attempt[q].passed, x)
              => Beyond(keys', attempt[q].passed, x)
PROOF
  <1>0. /\ keys \in Seq(Attempts \cup Foreign) /\ NoRepeats(keys)
        /\ DOMAIN records = ToSet(keys) \cap Attempts
        /\ \A q \in Attempts : attempt[q].passed \in Nat
    BY DEF Shape, NoRepeats, Doing
  <1>1. Len(keys) \in Nat /\ DOMAIN keys = 1..Len(keys)
    BY <1>0, LenProperties
  <1>2. /\ DOMAIN records' = DOMAIN records \ {k}
        /\ \A q \in DOMAIN records : q # k => records'[q] = records[q]
    BY DEF Removed
  <1>3. CASE k \notin ToSet(keys)
    <2>1. keys' = keys
      <3>1. \A i \in DOMAIN keys : keys[i] # k
        BY <1>3 DEF ToSet
      <3> QED
        BY <3>1 DEF Removed
    <2> QED
      BY <1>0, <1>2, <1>3, <2>1
  <1>4. CASE k \in ToSet(keys)
    <2>1. PICK d \in DOMAIN keys : keys[d] = k /\ keys' = RemoveAt(keys, d)
      BY <1>4 DEF Removed
    <2>2. keys' \in Seq(Attempts \cup Foreign)
      BY <1>0, <2>1, RemoveAtProperties
    <2>3. NoRepeats(keys') /\ ToSet(keys') = ToSet(keys) \ {k}
      BY <1>0, <2>1, RemovedOnce
    <2>4. ASSUME NEW q \in Attempts, NEW x, attempt[q].at = "collect", q \notin Overtaken(k),
                 x # k, Beyond(keys, attempt[q].passed, x)
          PROVE  Beyond(keys', attempt[q].passed, x)
      <3>1. PICK i \in DOMAIN keys : i > attempt[q].passed /\ keys[i] = x
        BY <2>4 DEF Beyond
      <3>2. attempt[q].passed < Len(keys)
        BY <1>0, <1>1, <3>1
      <3>3. ~(d \in 1..attempt[q].passed)
        BY <2>1, <2>4, <3>2 DEF Overtaken
      <3>4. d > attempt[q].passed
        BY <1>0, <1>1, <3>3
      <3>5. \E n \in Nat : n = attempt[q].passed
        BY <1>0
      <3>6. PICK n \in Nat : n = attempt[q].passed
        BY <3>5
      <3>7. Beyond(RemoveAt(keys, d), n, x)
        BY <1>0, <2>1, <2>4, <3>4, <3>6, RemoveKeeps
      <3> QED
        BY <2>1, <3>6, <3>7
    <2> QED
      BY <1>0, <1>2, <2>2, <2>3, <2>4
  <1> QED
    BY <1>3, <1>4

-------------------------------------------------------------------------------
(* Types *)

StorageShape ==
  /\ now \in 0..MaxTime
  /\ keys \in Seq(Attempts \cup Foreign)
  /\ NoRepeats(keys)
  /\ DOMAIN records = ToSet(keys) \cap Attempts
  /\ \A p \in DOMAIN records : records[p] \in Intents /\ records[p].expires <= now + Lease

\* The stages of an attempt that an action puts together have the type of one.
LEMMA StagesTyped ==
  ASSUME attempt \in [Attempts -> Doing], NEW p \in Attempts, NEW stage \in Resting \cup Inside
  PROVE  /\ Scanned(p, stage) \in Doing
         /\ Over(p, stage) \in Doing
         /\ [attempt[p] EXCEPT !.at = stage] \in Doing
         /\ Scanned(p, stage).at = stage
         /\ Over(p, stage).at = stage
PROOF
  <1>1. attempt[p] \in Doing
    OBVIOUS
  <1>2. <<>> \in Seq(Attempts)
    BY EmptySeq
  <1>3. Scanned(p, stage) \in Doing /\ Scanned(p, stage).at = stage
    BY <1>1, <1>2 DEF Scanned, Doing
  <1>4. Over(p, stage) \in Doing /\ Over(p, stage).at = stage
    BY <1>1, <1>2 DEF Over, Unmade, Doing
  <1>5. [attempt[p] EXCEPT !.at = stage] \in Doing
    BY <1>1 DEF Doing
  <1> QED
    BY <1>3, <1>4, <1>5

\* What an attempt found is a finite set of tickets, the greatest of which is
\* among them.
LEMMA NextTicket ==
  ASSUME Shape, Bounded, NEW p \in Attempts, Cardinality(Taken) \in Nat
  PROVE  LET S == {0} \cup {c.ticket : c \in attempt[p].found}
         IN  /\ Max(S) \in 0..Cardinality(Taken)
             /\ \A c \in attempt[p].found : c.ticket <= Max(S)
PROOF
  <1> DEFINE S == {0} \cup {c.ticket : c \in attempt[p].found}
  <1>1. \A c \in attempt[p].found : c.ticket \in 0..Cardinality(Taken)
    <2>1. attempt[p].found \subseteq Contenders
      BY DEF Shape, Doing
    <2>2. \A c \in attempt[p].found : c.ticket \in Nat
      BY <2>1 DEF Contenders
    <2> QED
      BY <2>2 DEF Bounded
  <1>2. S \in SUBSET (0..Cardinality(Taken)) /\ S # {}
    BY <1>1
  <1>3. Max(S) \in S /\ \A x \in S : x <= Max(S)
    <2> HIDE DEF S
    <2> QED
      BY <1>2, MaxProperties
  <1> HIDE DEF S
  <1>4. Max(S) \in 0..Cardinality(Taken)
    BY <1>2, <1>3
  <1>5. \A c \in attempt[p].found : c.ticket \in S
    BY DEF S
  <1>6. \A c \in attempt[p].found : c.ticket <= Max(S)
    BY <1>3, <1>5
  <1> QED
    BY <1>4, <1>6 DEF S

\* The number of attempts that have taken a ticket is one of their numbers.
LEMMA TakenCounted ==
  Cardinality(Taken) \in Nat /\ Cardinality(Taken) <= Cardinality(Attempts)
  /\ IsFiniteSet(Taken) /\ Cardinality(Attempts) \in Nat
PROOF
  <1>1. IsFiniteSet(Attempts) /\ Taken \in SUBSET Attempts
    BY LockAssumption DEF Taken
  <1>2. IsFiniteSet(Taken) /\ Cardinality(Taken) <= Cardinality(Attempts)
    BY <1>1, FS_Subset
  <1> QED
    BY <1>1, <1>2, FS_CardinalityType

\* Each record that an attempt writes has the type of one.
LEMMA WritesAreTyped ==
  ASSUME Shape, NEW p \in Attempts, NEW choosing \in BOOLEAN, NEW ticket \in Nat,
         WriteIntent(p, choosing, ticket), now' = now
  PROVE  StorageShape'
PROOF
  <1>1. now \in 0..MaxTime /\ now \in Nat /\ MaxTime \in Nat /\ Lease \in Nat
    BY LockAssumption DEF Shape
  <1>2. /\ keys' \in Seq(Attempts \cup Foreign) /\ NoRepeats(keys')
        /\ DOMAIN records' = DOMAIN records \cup {p}
        /\ DOMAIN records' = ToSet(keys') \cap Attempts
        /\ records'[p] \in Intents /\ records'[p].expires <= now + Lease
        /\ \A q \in DOMAIN records : q # p => records'[q] = records[q]
    BY WriteProperties
  <1>3. \A q \in DOMAIN records : records[q] \in Intents /\ records[q].expires <= now + Lease
    BY DEF Shape
  <1>4. ASSUME NEW q \in DOMAIN records'
        PROVE  records'[q] \in Intents /\ records'[q].expires <= now' + Lease
    <2>1. CASE q = p
      BY <1>2, <2>1
    <2>2. CASE q # p
      BY <1>2, <1>3, <2>2
    <2> QED
      BY <2>1, <2>2
  <1> QED
    BY <1>1, <1>2, <1>4 DEF StorageShape

\* A record taken away leaves records.
LEMMA RemovalsAreTyped ==
  ASSUME Shape, NEW k \in Attempts \cup Foreign, Removed(k), now' = now
  PROVE  StorageShape'
PROOF
  <1>1. /\ keys' \in Seq(Attempts \cup Foreign) /\ NoRepeats(keys')
        /\ DOMAIN records' = DOMAIN records \ {k}
        /\ DOMAIN records' = ToSet(keys') \cap Attempts
        /\ \A q \in DOMAIN records : q # k => records'[q] = records[q]
    BY RemovedProperties
  <1>2. ASSUME NEW q \in DOMAIN records'
        PROVE  records'[q] \in Intents /\ records'[q].expires <= now' + Lease
    BY <1>1 DEF Shape
  <1> QED
    BY <1>1, <1>2 DEF StorageShape, Shape

\* An attempt that is made to miss an item has the type of one.
LEMMA MissedTyped ==
  ASSUME attempt \in [Attempts -> Doing], NEW q \in Attempts
  PROVE  [attempt[q] EXCEPT !.missed = TRUE] \in Doing
PROOF
  <1>1. attempt[q] \in Doing
    OBVIOUS
  <1> QED
    BY <1>1 DEF Doing

\* A clock reading moves p on and changes nothing else of it.
LEMMA ReadsClockMeans ==
  ASSUME attempt \in [Attempts -> Doing], NEW p \in Attempts, now \in Nat,
         NEW stage \in Resting \cup Inside, ReadsClock(p, stage)
  PROVE  /\ attempt' \in [Attempts -> Doing]
         /\ \A q \in Attempts : q # p => attempt'[q] = attempt[q]
         /\ attempt'[p] = [attempt[p] EXCEPT !.at = stage, !.asOf = now]
         /\ attempt'[p].at = stage
         /\ attempt'[p].round = attempt[p].round
         /\ attempt'[p].passed = attempt[p].passed
         /\ attempt'[p].toRead = attempt[p].toRead
         /\ attempt'[p].found = attempt[p].found
         /\ attempt'[p].ticket = attempt[p].ticket
         /\ attempt'[p].asOf = now
         /\ attempt'[p].aim = attempt[p].aim
         /\ attempt'[p].missed = attempt[p].missed
         /\ attempt'[p].lapsed = attempt[p].lapsed
PROOF
  <1> DEFINE e == [attempt[p] EXCEPT !.at = stage, !.asOf = now]
  <1>1. attempt' = [attempt EXCEPT ![p] = e] /\ attempt[p] \in Doing
    BY DEF ReadsClock
  <1>2. e \in Doing
    BY <1>1 DEF Doing
  <1>3. /\ e.at = stage /\ e.round = attempt[p].round /\ e.passed = attempt[p].passed
        /\ e.toRead = attempt[p].toRead /\ e.found = attempt[p].found
        /\ e.ticket = attempt[p].ticket /\ e.asOf = now /\ e.aim = attempt[p].aim
        /\ e.missed = attempt[p].missed /\ e.lapsed = attempt[p].lapsed
    BY <1>1 DEF Doing
  <1> HIDE DEF e
  <1>4. attempt' \in [Attempts -> Doing] /\ attempt'[p] = e
        /\ \A q \in Attempts : q # p => attempt'[q] = attempt[q]
    BY <1>1, <1>2
  <1>5. attempt'[p] = [attempt[p] EXCEPT !.at = stage, !.asOf = now]
    BY <1>4 DEF e
  <1> QED
    BY <1>3, <1>4, <1>5

\* p writes its record with its ticket, and it shows whether the lease before
\* had ended.
LEMMA RewriteMeans ==
  ASSUME attempt \in [Attempts -> Doing], NEW p \in Attempts,
         NEW stage \in Resting \cup Inside, Rewrite(p, stage)
  PROVE  /\ attempt' \in [Attempts -> Doing]
         /\ \A q \in Attempts : q # p => attempt'[q] = attempt[q]
         /\ attempt'[p].at = stage
         /\ attempt'[p].round = attempt[p].round
         /\ attempt'[p].passed = attempt[p].passed
         /\ attempt'[p].toRead = attempt[p].toRead
         /\ attempt'[p].found = attempt[p].found
         /\ attempt'[p].ticket = attempt[p].ticket
         /\ attempt'[p].asOf = 0
         /\ attempt'[p].aim = attempt[p].aim
         /\ attempt'[p].missed = attempt[p].missed
         /\ attempt[p].lapsed => attempt'[p].lapsed
         /\ ~HasLive(p) => attempt'[p].lapsed
         /\ WriteIntent(p, FALSE, attempt[p].ticket) /\ now' = now
         /\ attempt[p].ticket \in Nat
PROOF
  <1> DEFINE l == attempt[p].lapsed \/ ~HasLive(p)
             e == [attempt[p] EXCEPT !.at = stage, !.asOf = 0, !.lapsed = l]
  <1>0. attempt[p] \in Doing /\ l \in BOOLEAN
    BY DEF Doing
  <1>1. attempt' = [attempt EXCEPT ![p] = e]
    BY DEF Rewrite
  <1>2. (attempt[p].lapsed => l) /\ (~HasLive(p) => l)
    OBVIOUS
  <1> HIDE DEF l
  <1>3. e \in Doing
    BY <1>0 DEF Doing
  <1>4. /\ e.at = stage /\ e.round = attempt[p].round /\ e.passed = attempt[p].passed
        /\ e.toRead = attempt[p].toRead /\ e.found = attempt[p].found
        /\ e.ticket = attempt[p].ticket /\ e.asOf = 0 /\ e.aim = attempt[p].aim
        /\ e.missed = attempt[p].missed /\ e.lapsed = l
    BY <1>0 DEF Doing
  <1> HIDE DEF e
  <1>5. attempt' \in [Attempts -> Doing] /\ attempt'[p] = e
        /\ \A q \in Attempts : q # p => attempt'[q] = attempt[q]
    BY <1>1, <1>3
  <1>6. WriteIntent(p, FALSE, attempt[p].ticket) /\ now' = now /\ attempt[p].ticket \in Nat
    BY <1>0 DEF Rewrite, Doing
  <1> QED
    BY <1>2, <1>4, <1>5, <1>6

\* p draws the ticket after those it found.
LEMMA DrawMeans ==
  ASSUME Shape, Bounded, NEW p \in Attempts, Draw(p)
  PROVE  /\ attempt' \in [Attempts -> Doing]
         /\ \A q \in Attempts : q # p => attempt'[q] = attempt[q]
         /\ attempt[p].at = "read" /\ attempt[p].round = 1 /\ attempt[p].toRead = <<>>
         /\ attempt'[p].at = "ticket"
         /\ attempt'[p].round = attempt[p].round
         /\ attempt'[p].passed = 0
         /\ attempt'[p].toRead = <<>>
         /\ attempt'[p].found = {}
         /\ attempt'[p].ticket \in 1..(Cardinality(Taken) + 1)
         /\ \A c \in attempt[p].found : c.ticket < attempt'[p].ticket
         /\ attempt'[p].asOf = now
         /\ attempt'[p].aim = attempt[p].aim
         /\ attempt'[p].missed = attempt[p].missed
         /\ attempt'[p].lapsed = attempt[p].lapsed
         /\ UNCHANGED <<now, keys, records>>
PROOF
  <1> DEFINE m == Max({0} \cup {c.ticket : c \in attempt[p].found})
             t == 1 + m
             e == [attempt[p] EXCEPT !.at = "ticket", !.passed = 0, !.toRead = <<>>,
                                     !.found = {}, !.ticket = t, !.asOf = now]
  <1>0. /\ attempt \in [Attempts -> Doing] /\ attempt[p] \in Doing /\ now \in Nat
        /\ "ticket" \in Resting \cup Inside /\ <<>> \in Seq(Attempts)
        /\ \A c \in attempt[p].found : c.ticket \in Nat
    BY EmptySeq, LockAssumption DEF Shape, Inside, Doing, Contenders
  <1>1. m \in 0..Cardinality(Taken) /\ \A c \in attempt[p].found : c.ticket <= m
    BY NextTicket, TakenCounted
  <1>2. /\ attempt[p].at = "read" /\ attempt[p].toRead = <<>> /\ attempt[p].round = 1
        /\ UNCHANGED <<now, keys, records>>
        /\ attempt' = [attempt EXCEPT ![p] =
             [Scanned(p, "ticket") EXCEPT !.ticket = t, !.asOf = now]]
    BY DEF Draw, Draws, ReadAll
  <1> HIDE DEF m
  <1>3. /\ t \in 1..(Cardinality(Taken) + 1) /\ t \in Nat
        /\ \A c \in attempt[p].found : c.ticket < t
    BY <1>0, <1>1, TakenCounted
  <1> HIDE DEF t
  <1>4. [Scanned(p, "ticket") EXCEPT !.ticket = t, !.asOf = now] = e
    BY <1>0 DEF Scanned, Doing
  <1>5. e \in Doing
    BY <1>0, <1>3 DEF Doing
  <1>6. /\ e.at = "ticket" /\ e.round = attempt[p].round /\ e.passed = 0
        /\ e.toRead = <<>> /\ e.found = {}
        /\ e.ticket = t /\ e.asOf = now /\ e.aim = attempt[p].aim
        /\ e.missed = attempt[p].missed /\ e.lapsed = attempt[p].lapsed
    BY <1>0 DEF Doing
  <1> HIDE DEF e
  <1>7. attempt' \in [Attempts -> Doing] /\ attempt'[p] = e
        /\ \A q \in Attempts : q # p => attempt'[q] = attempt[q]
    BY <1>0, <1>2, <1>4, <1>5
  <1> QED
    BY <1>2, <1>3, <1>6, <1>7

\* Each step of an attempt leaves attempts.
LEMMA AttemptsTyped ==
  ASSUME Shape, Bounded, NEW p \in Attempts, StageMeans(p), Step(p)
  PROVE  attempt' \in [Attempts -> Doing]
PROOF
  <1>0. attempt \in [Attempts -> Doing] /\ keys \in Seq(Attempts \cup Foreign)
    BY DEF Shape
  <1>a. /\ attempt[p] \in Doing /\ attempt[p].toRead \in Seq(Attempts)
        /\ attempt[p].passed \in Nat
    BY <1>0 DEF Doing
  <1>b. \A q \in Attempts : [attempt[q] EXCEPT !.missed = TRUE] \in Doing
    BY <1>0, MissedTyped
  <1>c. \A stage \in Resting \cup Inside :
          /\ Scanned(p, stage) \in Doing
          /\ Over(p, stage) \in Doing
          /\ [attempt[p] EXCEPT !.at = stage] \in Doing
    BY <1>0, StagesTyped
  <1>d. "leave" \in Resting \cup Inside /\ "critical" \in Resting \cup Inside
        /\ "gone" \in Resting \cup Inside /\ "crashed" \in Resting \cup Inside
        /\ "collect" \in Resting \cup Inside /\ "read" \in Resting \cup Inside
        /\ "drop" \in Resting \cup Inside /\ "refresh" \in Resting \cup Inside
        /\ "renew" \in Resting \cup Inside /\ "confirm" \in Resting \cup Inside
        /\ "scan" \in Resting \cup Inside /\ "ticket" \in Resting \cup Inside
    BY DEF Resting, Inside
  <1>e. ASSUME Loses(p) PROVE attempt' \in [Attempts -> Doing]
    <2>1. \A stage \in Resting \cup Inside : [Scanned(p, stage) EXCEPT !.lost = TRUE] \in Doing
      BY <1>c DEF Doing
    <2> QED
      BY <1>0, <1>d, <1>e, <2>1 DEF Loses
  <1>1. CASE Announce(p)
    BY <1>0, <1>c, <1>d, <1>1 DEF Announce, Goes
  <1>2. CASE Collect(p)
    <2> DEFINE k == keys[attempt[p].passed + 1]
               e == [attempt[p] EXCEPT !.passed = @ + 1,
                                       !.toRead = IF k \in Attempts THEN Append(@, k) ELSE @]
    <2>1. e \in Doing
      <3> DEFINE r == IF k \in Attempts THEN Append(attempt[p].toRead, k) ELSE attempt[p].toRead
      <3>1. r \in Seq(Attempts)
        BY <1>a, AppendProperties
      <3> DEFINE n == attempt[p].passed + 1
      <3>2. n \in Nat
        BY <1>a
      <3>3. e = [attempt[p] EXCEPT !.passed = n, !.toRead = r]
        BY <1>a DEF Doing
      <3> HIDE DEF k, n, r, e
      <3>4. [attempt[p] EXCEPT !.passed = n, !.toRead = r] \in Doing
        BY <1>a, <3>1, <3>2 DEF Doing
      <3> QED
        BY <3>3, <3>4
    <2>2. attempt' = [attempt EXCEPT ![p] = e]
      BY <1>0, <1>2 DEF Collect
    <2> HIDE DEF e
    <2> QED
      BY <1>0, <2>1, <2>2
  <1>3. CASE Collected(p)
    BY <1>0, <1>c, <1>d, <1>3 DEF Collected, Goes
  <1>4. CASE Read(p)
    <2>1. attempt[p].toRead # <<>>
      BY <1>4 DEF Read
    <2> DEFINE k == Head(attempt[p].toRead)
               e == [attempt[p] EXCEPT
                      !.toRead = Tail(@),
                      !.found = @ \cup {[owner |-> k, choosing |-> records[k].choosing,
                                         ticket |-> records[k].ticket]}]
    <2>2. k \in Attempts /\ Tail(attempt[p].toRead) \in Seq(Attempts)
      BY <1>a, <2>1, HeadTailProperties
    <2>3. CASE k \in DOMAIN records /\ attempt' = [attempt EXCEPT ![p] = e]
      <3>1. records[k].choosing \in BOOLEAN /\ records[k].ticket \in Nat
        BY <2>3 DEF Shape, Intents
      <3> HIDE DEF k
      <3>2. [owner |-> k, choosing |-> records[k].choosing, ticket |-> records[k].ticket]
              \in Contenders
        BY <2>2, <3>1 DEF Contenders
      <3>3. e \in Doing
        BY <1>a, <2>2, <3>2 DEF Doing
      <3> HIDE DEF e
      <3> QED
        BY <1>0, <2>3, <3>3
    <2>4. CASE Goes(p, "drop")
      BY <1>0, <1>c, <1>d, <2>4 DEF Goes
    <2>5. \/ /\ k \in DOMAIN records
             /\ attempt' = [attempt EXCEPT
                  ![p].toRead = Tail(@),
                  ![p].found = @ \cup {[owner |-> k, choosing |-> records[k].choosing,
                                        ticket |-> records[k].ticket]}]
          \/ Goes(p, "drop")
      BY <1>4 DEF Read, LiveTo
    <2> HIDE DEF k
    <2>6. (k \in DOMAIN records /\ attempt' = [attempt EXCEPT ![p] = e]) \/ Goes(p, "drop")
      BY <1>0, <2>5
    <2> QED
      BY <2>3, <2>4, <2>6
  <1>5. CASE Drop(p)
    <2>1. attempt[p].toRead # <<>>
      BY <1>5 DEF Drop, StageMeans
    <2>2. Tail(attempt[p].toRead) \in Seq(Attempts)
      BY <1>a, <2>1, HeadTailProperties
    <2>3. [attempt[p] EXCEPT !.at = "read", !.toRead = Tail(@)] \in Doing
      BY <1>a, <1>d, <2>2 DEF Doing
    <2> QED
      BY <1>0, <1>b, <1>5, <2>3 DEF Drop
  <1>6. CASE TakeTicket(p) \/ Renew(p)
    BY <1>0, <1>d, <1>6, RewriteMeans DEF TakeTicket, Renew
  <1>7. CASE Judge(p)
    BY <1>0, <1>c, <1>d, <1>7 DEF Judge
  <1>8. CASE Refresh(p)
    <2>1. now \in Nat
      BY LockAssumption DEF Shape
    <2> QED
      BY <1>0, <1>d, <1>e, <1>8, <2>1, ReadsClockMeans DEF Refresh
  <1>9. CASE Draw(p)
    BY <1>9, DrawMeans
  <1>10. CASE Confirm(p)
    <2>1. [attempt[p] EXCEPT !.at = "scan", !.round = 2] \in Doing
      BY <1>a, <1>d DEF Doing
    <2>2. attempt' = [attempt EXCEPT ![p].at = "scan", ![p].round = 2]
            => attempt' = [attempt EXCEPT ![p] = [attempt[p] EXCEPT !.at = "scan", !.round = 2]]
      BY <1>0
    <2> QED
      BY <1>0, <1>c, <1>d, <1>e, <1>10, <2>1, <2>2 DEF Confirm, Goes
  <1>11. CASE Throw(p)
    BY <1>e, <1>11 DEF Throw
  <1>12. CASE StartBlock(p)
    <2>1. PICK aim \in {"beat", "assert"} :
            attempt' = [attempt EXCEPT ![p].at = "refresh", ![p].aim = aim]
      BY <1>12 DEF StartBlock
    <2>2. [attempt[p] EXCEPT !.at = "refresh", !.aim = aim] \in Doing
      BY <1>a, <1>d DEF Doing
    <2>3. attempt' = [attempt EXCEPT ![p] = [attempt[p] EXCEPT !.at = "refresh", !.aim = aim]]
      BY <1>0, <2>1
    <2> QED
      BY <1>0, <2>2, <2>3
  <1>13. CASE Finish(p)
    BY <1>0, <1>c, <1>d, <1>13 DEF Finish, Goes
  <1>14. CASE Leave(p)
    BY <1>0, <1>b, <1>c, <1>d, <1>14 DEF Leave
  <1>15. CASE Crash(p)
    BY <1>0, <1>c, <1>d, <1>15 DEF Crash
  <1>16. CASE Look(p)
    <2>1. now \in Nat
      BY LockAssumption DEF Shape
    <2> QED
      BY <1>0, <1>d, <1>16, <2>1, ReadsClockMeans DEF Look
  <1> QED
    BY <1>1, <1>2, <1>3, <1>4, <1>5, <1>6, <1>7, <1>8, <1>9, <1>10, <1>11, <1>12, <1>13,
       <1>14, <1>15, <1>16 DEF Step

\* No attempt goes by a reading of the clock that is still to come.
LEMMA AsOfKept ==
  ASSUME Shape, Bounded, NEW p \in Attempts, Step(p), NEW q \in Attempts
  PROVE  attempt'[q].asOf <= now'
PROOF
  <1>0. /\ attempt \in [Attempts -> Doing] /\ attempt[p] \in Doing /\ attempt[q] \in Doing
        /\ now \in Nat /\ attempt[q].asOf <= now
        /\ attempt[p].asOf \in Nat /\ attempt[q].asOf \in Nat
    BY LockAssumption DEF Shape, Doing
  <1>1. now' = now
    BY DrawMeans
    DEF Step, Announce, Look, Collect, Collected, Read, Drop, TakeTicket, Rewrite, Judge,
        Refresh, Renew, Confirm, Throw, StartBlock, Finish, Leave, Crash
  <1>2. ASSUME attempt'[q].asOf \in {attempt[q].asOf, 0, now}
        PROVE  attempt'[q].asOf <= now'
    BY <1>0, <1>1, <1>2
  <1>a. \A stage : /\ Scanned(p, stage).asOf = 0 /\ Over(p, stage).asOf = 0
                   /\ [Scanned(p, stage) EXCEPT !.lost = TRUE].asOf = 0
    BY <1>0 DEF Scanned, Over, Unmade, Doing
  <1>b. [attempt[q] EXCEPT !.missed = TRUE].asOf = attempt[q].asOf
    BY <1>0 DEF Doing
  <1>c. ASSUME NEW stage, Goes(p, stage)
        PROVE  attempt'[q].asOf = attempt[q].asOf
    BY <1>0, <1>c DEF Goes, Doing
  <1>d. ASSUME Loses(p) PROVE attempt'[q].asOf \in {attempt[q].asOf, 0}
    BY <1>0, <1>a, <1>d DEF Loses
  <1>e. ASSUME NEW stage \in Resting \cup Inside, ReadsClock(p, stage)
        PROVE  attempt'[q].asOf \in {attempt[q].asOf, now}
    BY <1>0, <1>e, ReadsClockMeans
  <1>3. CASE Announce(p) \/ Collected(p) \/ Finish(p)
    BY <1>2, <1>3, <1>c DEF Announce, Collected, Finish
  <1>4. CASE Look(p)
    <2>1. "collect" \in Resting \cup Inside
      BY DEF Inside
    <2> QED
      BY <1>2, <1>4, <1>e, <2>1 DEF Look
  <1>5. CASE Collect(p)
    <2> DEFINE k == keys[attempt[p].passed + 1]
               l == IF k \in Attempts THEN Append(attempt[p].toRead, k) ELSE attempt[p].toRead
               n == attempt[p].passed + 1
    <2>1. attempt' = [attempt EXCEPT ![p].passed = n, ![p].toRead = l]
      BY <1>0, <1>5 DEF Collect, Doing
    <2> HIDE DEF l, n
    <2>2. attempt'[q].asOf = attempt[q].asOf
      BY <1>0, <2>1 DEF Doing
    <2> QED
      BY <1>2, <2>2
  <1>6. CASE Read(p)
    <2>1. CASE Goes(p, "drop")
      BY <1>2, <1>c, <2>1
    <2> DEFINE f == attempt[p].found \cup
                      {[owner |-> Head(attempt[p].toRead),
                        choosing |-> records[Head(attempt[p].toRead)].choosing,
                        ticket |-> records[Head(attempt[p].toRead)].ticket]}
    <2>2. CASE attempt' = [attempt EXCEPT ![p].toRead = Tail(@), ![p].found = f]
      <3> HIDE DEF f
      <3>1. attempt'[q].asOf = attempt[q].asOf
        BY <1>0, <2>2 DEF Doing
      <3> QED
        BY <1>2, <3>1
    <2> QED
      BY <1>0, <1>6, <2>1, <2>2 DEF Read
  <1>7. CASE Drop(p)
    <2>1. /\ q = p => attempt'[q] = [attempt[p] EXCEPT !.at = "read", !.toRead = Tail(@)]
          /\ q # p => attempt'[q] \in {[attempt[q] EXCEPT !.missed = TRUE], attempt[q]}
      BY <1>7 DEF Drop
    <2>2. [attempt[p] EXCEPT !.at = "read", !.toRead = Tail(@)].asOf = attempt[p].asOf
      BY <1>0 DEF Doing
    <2> QED
      BY <1>2, <1>b, <2>1, <2>2
  <1>8. CASE Draw(p)
    BY <1>2, <1>8, DrawMeans
  <1>9. CASE TakeTicket(p) \/ Renew(p)
    <2>1. PICK stage \in Resting \cup Inside : Rewrite(p, stage)
      BY <1>9 DEF TakeTicket, Renew, Inside
    <2> QED
      BY <1>0, <1>2, <2>1, RewriteMeans
  <1>10. CASE Judge(p)
    BY <1>0, <1>2, <1>a, <1>10 DEF Judge
  <1>11. CASE Refresh(p)
    <2>1. "renew" \in Resting \cup Inside
      BY DEF Inside
    <2> QED
      BY <1>2, <1>d, <1>e, <1>11, <2>1 DEF Refresh
  <1>12. CASE Confirm(p)
    <2>1. attempt' = [attempt EXCEPT ![p].at = "scan", ![p].round = 2]
            => attempt'[q].asOf = attempt[q].asOf
      BY <1>0 DEF Doing
    <2> QED
      BY <1>2, <1>c, <1>d, <1>12, <2>1 DEF Confirm
  <1>13. CASE Throw(p)
    BY <1>2, <1>d, <1>13 DEF Throw
  <1>14. CASE StartBlock(p)
    <2>1. PICK aim \in {"beat", "assert"} :
            attempt' = [attempt EXCEPT ![p].at = "refresh", ![p].aim = aim]
      BY <1>14 DEF StartBlock
    <2>2. attempt'[q].asOf = attempt[q].asOf
      BY <1>0, <2>1 DEF Doing
    <2> QED
      BY <1>2, <2>2
  <1>15. CASE Leave(p) \/ Crash(p)
    <2>1. attempt'[q] \in {Over(p, "gone"), Over(p, "crashed"),
                           [attempt[q] EXCEPT !.missed = TRUE], attempt[q]}
      BY <1>0, <1>15 DEF Leave, Crash
    <2> QED
      BY <1>2, <1>a, <1>b, <2>1
  <1> QED
    BY <1>3, <1>4, <1>5, <1>6, <1>7, <1>8, <1>9, <1>10, <1>11, <1>12, <1>13, <1>14, <1>15
    DEF Step

\* Each step keeps the shape of the state.
LEMMA ShapeKept ==
  ASSUME LockInv, [Next]_vars
  PROVE  Shape'
PROOF
  <1>0. /\ Shape /\ Bounded /\ StorageShape
        /\ attempt \in [Attempts -> Doing]
        /\ \A p \in Attempts : StageMeans(p)
    BY DEF LockInv, Shape, StorageShape, NoRepeats
  <1>1. ASSUME StorageShape', attempt' \in [Attempts -> Doing],
               \A p \in Attempts : attempt'[p].asOf <= now'
        PROVE  Shape'
    BY <1>1 DEF Shape, StorageShape, NoRepeats
  <1>2. ASSUME UNCHANGED <<now, keys, records>>
        PROVE  StorageShape'
    BY <1>0, <1>2 DEF StorageShape, NoRepeats
  <1>3. ASSUME NEW p \in Attempts, Step(p)
        PROVE  StorageShape'
    <2>1. CASE Announce(p)
      <3>1. TRUE \in BOOLEAN /\ 0 \in Nat
        OBVIOUS
      <3> QED
        BY <1>0, <2>1, <3>1, WritesAreTyped DEF Announce
    <2>2. CASE Drop(p)
      <3>1. Head(attempt[p].toRead) \in Attempts \cup Foreign
        <4>1. attempt[p].toRead # <<>> /\ attempt[p].toRead \in Seq(Attempts)
          BY <1>0, <2>2 DEF Drop, StageMeans, Doing
        <4> QED
          BY <4>1, HeadTailProperties
      <3> QED
        BY <1>0, <2>2, <3>1, RemovalsAreTyped DEF Drop
    <2>3. CASE TakeTicket(p) \/ Renew(p)
      <3>1. PICK stage \in Resting \cup Inside : Rewrite(p, stage)
        BY <2>3 DEF TakeTicket, Renew, Inside
      <3>2. /\ WriteIntent(p, FALSE, attempt[p].ticket) /\ now' = now
            /\ attempt[p].ticket \in Nat /\ FALSE \in BOOLEAN
        BY <1>0, <3>1, RewriteMeans
      <3> QED
        BY <1>0, <3>2, WritesAreTyped
    <2>4. CASE Draw(p)
      BY <1>0, <1>2, <2>4, DrawMeans
    <2>5. CASE Leave(p)
      BY <1>0, <2>5, RemovalsAreTyped DEF Leave
    <2> QED
      BY <1>2, <1>3, <2>1, <2>2, <2>3, <2>4, <2>5
      DEF Step, Look, Collect, Collected, Read, Judge, Refresh, Confirm, Throw, StartBlock, Finish,
          Crash
  <1>4. CASE Forget
    <2>1. PICK k \in Foreign \cap ToSet(keys) :
            /\ Removed(k)
            /\ attempt' = [q \in Attempts |->
                 IF q \in Overtaken(k) THEN [attempt[q] EXCEPT !.missed = TRUE]
                 ELSE attempt[q]]
      BY <1>4 DEF Forget
    <2>2. attempt' \in [Attempts -> Doing]
      BY <1>0, <2>1, MissedTyped
    <2>3. now' = now
      BY <1>4 DEF Forget
    <2>4. StorageShape'
      BY <1>0, <2>1, <2>3, RemovalsAreTyped
    <2>5. \A q \in Attempts : [attempt[q] EXCEPT !.missed = TRUE].asOf = attempt[q].asOf
      BY <1>0 DEF Doing
    <2>6. \A q \in Attempts : attempt'[q].asOf <= now'
      BY <1>0, <2>1, <2>3, <2>5 DEF Shape
    <2> QED
      BY <1>1, <2>2, <2>4, <2>6
  <1>5. CASE Tick
    <2>1. now' \in 0..MaxTime /\ now' = now + 1 /\ now \in Nat /\ Lease \in Nat
      BY <1>0, <1>5, LockAssumption DEF Tick, Shape
    <2>2. ASSUME NEW p \in DOMAIN records
          PROVE  records[p] \in Intents /\ records[p].expires <= now' + Lease
      <3>1. records[p] \in Intents /\ records[p].expires <= now + Lease
        BY <1>0 DEF Shape
      <3>2. records[p].expires \in Nat
        BY <3>1 DEF Intents
      <3> QED
        BY <2>1, <3>1, <3>2
    <2>3. UNCHANGED <<keys, records, attempt>>
      BY <1>5 DEF Tick
    <2>4. \A p \in Attempts : attempt[p].asOf \in Nat /\ attempt[p].asOf <= now
      BY <1>0 DEF Shape, Doing
    <2>5. \A p \in Attempts : attempt'[p].asOf <= now'
      BY <2>1, <2>3, <2>4
    <2> QED
      BY <1>0, <1>1, <2>1, <2>2, <2>3, <2>5 DEF StorageShape, NoRepeats
  <1>6. CASE UNCHANGED vars
    BY <1>0, <1>1, <1>2, <1>6 DEF vars, Shape
  <1> QED
    BY <1>0, <1>1, <1>3, <1>4, <1>5, <1>6, AttemptsTyped, AsOfKept DEF Next

-------------------------------------------------------------------------------
(* What a step leaves alone *)

\* A step that is not q's changes of q at most that it misses an item, and of
\* its record at most that it goes, once it is not live or if it was written
\* back after its end.
Bystands(q) ==
  /\ now' = now
  /\ attempt'[q].at = attempt[q].at
  /\ attempt'[q].round = attempt[q].round
  /\ attempt'[q].passed = attempt[q].passed
  /\ attempt'[q].toRead = attempt[q].toRead
  /\ attempt'[q].found = attempt[q].found
  /\ attempt'[q].ticket = attempt[q].ticket
  /\ attempt'[q].aim = attempt[q].aim
  /\ attempt'[q].lost = attempt[q].lost
  /\ attempt[q].missed => attempt'[q].missed
  /\ attempt'[q].lapsed = attempt[q].lapsed
  /\ q \in DOMAIN records' => q \in DOMAIN records /\ records'[q] = records[q]
  /\ HasLive(q) /\ ~attempt[q].lapsed => q \in DOMAIN records'

\* A step in which only p changes, and no record.
OnlyMoves(p) ==
  /\ UNCHANGED <<now, keys, records>>
  /\ \A q \in Attempts : q # p => attempt'[q] = attempt[q]

\* Most steps are such.
LEMMA MovesOnly ==
  ASSUME attempt \in [Attempts -> Doing], NEW p \in Attempts,
         \/ Look(p) \/ Collect(p) \/ Collected(p) \/ Read(p) \/ Draw(p) \/ Judge(p)
         \/ Refresh(p) \/ Confirm(p) \/ Throw(p) \/ StartBlock(p) \/ Finish(p) \/ Crash(p)
  PROVE  OnlyMoves(p)
PROOF
  <1>a. CASE Look(p)
    BY <1>a DEF Look, ReadsClock, OnlyMoves
  <1>b. CASE Draw(p)
    <2> DEFINE t == 1 + Max({0} \cup {c.ticket : c \in attempt[p].found})
    <2>1. /\ UNCHANGED <<now, keys, records>>
          /\ attempt' = [attempt EXCEPT ![p] =
               [Scanned(p, "ticket") EXCEPT !.ticket = t, !.asOf = now]]
      BY <1>b DEF Draw, Draws
    <2> HIDE DEF t
    <2> QED
      BY <2>1 DEF OnlyMoves
  <1>1. ASSUME NEW stage, Goes(p, stage)
        PROVE  \A q \in Attempts : q # p => attempt'[q] = attempt[q]
    BY <1>1 DEF Goes
  <1>2. ASSUME Loses(p)
        PROVE  \A q \in Attempts : q # p => attempt'[q] = attempt[q]
    BY <1>2 DEF Loses
  <1>3. CASE Collect(p)
    BY <1>3 DEF Collect, OnlyMoves
  <1>4. CASE Collected(p)
    BY <1>1, <1>4 DEF Collected, OnlyMoves
  <1>5. CASE Read(p)
    BY <1>1, <1>5 DEF Read, OnlyMoves
  <1>6. CASE Judge(p)
    BY <1>6 DEF Judge, OnlyMoves
  <1>7. CASE Refresh(p)
    BY <1>2, <1>7 DEF Refresh, ReadsClock, OnlyMoves
  <1>8. CASE Confirm(p)
    BY <1>1, <1>2, <1>8 DEF Confirm, OnlyMoves
  <1>9. CASE Throw(p)
    BY <1>2, <1>9 DEF Throw, OnlyMoves
  <1>10. CASE StartBlock(p)
    BY <1>10 DEF StartBlock, OnlyMoves
  <1>11. CASE Finish(p)
    BY <1>1, <1>11 DEF Finish, OnlyMoves
  <1>12. CASE Crash(p)
    BY <1>12 DEF Crash, OnlyMoves
  <1> QED
    BY <1>3, <1>4, <1>5, <1>6, <1>7, <1>8, <1>9, <1>10, <1>11, <1>12, <1>a, <1>b

\* An attempt that misses an item is otherwise as it was.
LEMMA MissingChanges ==
  ASSUME attempt \in [Attempts -> Doing], NEW q \in Attempts,
         attempt'[q] = [attempt[q] EXCEPT !.missed = TRUE] \/ attempt'[q] = attempt[q]
  PROVE  /\ attempt'[q].at = attempt[q].at
         /\ attempt'[q].round = attempt[q].round
         /\ attempt'[q].passed = attempt[q].passed
         /\ attempt'[q].toRead = attempt[q].toRead
         /\ attempt'[q].found = attempt[q].found
         /\ attempt'[q].ticket = attempt[q].ticket
         /\ attempt'[q].aim = attempt[q].aim
         /\ attempt'[q].lost = attempt[q].lost
         /\ attempt[q].missed => attempt'[q].missed
         /\ attempt'[q].lapsed = attempt[q].lapsed
PROOF
  <1>1. attempt[q] \in Doing
    OBVIOUS
  <1> QED
    BY <1>1 DEF Doing

\* A step of p leaves the others alone.
LEMMA OthersStand ==
  ASSUME LockInv, NEW p \in Attempts, NEW q \in Attempts, q # p, Step(p)
  PROVE  Bystands(q)
PROOF
  <1>0. Shape /\ Bounded /\ attempt \in [Attempts -> Doing] /\ StageMeans(p)
    BY DEF LockInv, Shape
  <1>1. ASSUME now' = now, attempt'[q] = attempt[q],
               NEW choosing \in BOOLEAN, NEW ticket \in Nat, WriteIntent(p, choosing, ticket)
        PROVE  Bystands(q)
    <2>1. /\ DOMAIN records' = DOMAIN records \cup {p}
          /\ \A r \in DOMAIN records : r # p => records'[r] = records[r]
      BY <1>0, <1>1, WriteProperties
    <2> QED
      BY <1>1, <2>1 DEF Bystands, HasLive
  <1>2. ASSUME now' = now,
               attempt'[q] = [attempt[q] EXCEPT !.missed = TRUE] \/ attempt'[q] = attempt[q],
               NEW k \in Attempts, Removed(k), k = q => ~HasLive(k) \/ attempt[k].lapsed
        PROVE  Bystands(q)
    <2>1. /\ DOMAIN records' = DOMAIN records \ {k}
          /\ \A r \in DOMAIN records : r # k => records'[r] = records[r]
      BY <1>0, <1>2, RemovedProperties
    <2> QED
      BY <1>0, <1>2, <2>1, MissingChanges DEF Bystands, HasLive
  <1>3. CASE OnlyMoves(p)
    BY <1>3 DEF OnlyMoves, Bystands, HasLive
  <1>4. CASE Announce(p)
    <2>1. attempt'[q] = attempt[q] /\ WriteIntent(p, TRUE, 0) /\ now' = now
      BY <1>0, <1>4 DEF Announce, Goes
    <2>2. TRUE \in BOOLEAN /\ 0 \in Nat
      OBVIOUS
    <2> QED
      BY <1>1, <2>1, <2>2
  <1>5. CASE TakeTicket(p) \/ Renew(p)
    <2>1. PICK stage \in Resting \cup Inside : Rewrite(p, stage)
      BY <1>5 DEF TakeTicket, Renew, Inside
    <2>2. /\ attempt'[q] = attempt[q] /\ WriteIntent(p, FALSE, attempt[p].ticket) /\ now' = now
          /\ attempt[p].ticket \in Nat /\ FALSE \in BOOLEAN
      BY <1>0, <2>1, RewriteMeans
    <2> QED
      BY <1>1, <2>2
  <1>7. CASE Drop(p)
    <2> DEFINE k == Head(attempt[p].toRead)
    <2>1. attempt[p].toRead # <<>> /\ attempt[p].toRead \in Seq(Attempts)
      BY <1>0, <1>7 DEF Drop, StageMeans, Doing
    <2>2. k \in Attempts
      BY <2>1, HeadTailProperties
    <2>3. ~HasLive(k) \/ attempt[k].lapsed
      BY <1>0, <1>7, <2>2 DEF Drop, StageMeans
    <2>4. /\ Removed(k) /\ now' = now
          /\ attempt'[q] = [attempt[q] EXCEPT !.missed = TRUE] \/ attempt'[q] = attempt[q]
      BY <1>7 DEF Drop
    <2> HIDE DEF k
    <2> QED
      BY <1>2, <2>2, <2>3, <2>4
  <1>8. CASE Leave(p)
    <2>1. /\ Removed(p) /\ now' = now
          /\ attempt'[q] = [attempt[q] EXCEPT !.missed = TRUE] \/ attempt'[q] = attempt[q]
      BY <1>8 DEF Leave
    <2> QED
      BY <1>2, <2>1
  <1> QED
    BY <1>0, <1>3, <1>4, <1>5, <1>7, <1>8, MovesOnly DEF Step

\* Another script that removes an item of its own leaves all attempts alone.
LEMMA ForgetStands ==
  ASSUME LockInv, NEW q \in Attempts, Forget
  PROVE  Bystands(q)
PROOF
  <1>0. Shape /\ attempt \in [Attempts -> Doing]
    BY DEF LockInv, Shape
  <1>1. PICK k \in Foreign :
          /\ Removed(k)
          /\ attempt'[q] = [attempt[q] EXCEPT !.missed = TRUE] \/ attempt'[q] = attempt[q]
    BY DEF Forget
  <1>2. now' = now
    BY DEF Forget
  <1>3. /\ DOMAIN records' = DOMAIN records \ {k}
        /\ \A r \in DOMAIN records : r # k => records'[r] = records[r]
    BY <1>0, <1>1, RemovedProperties
  <1>4. k # q
    BY LockAssumption
  <1> QED
    BY <1>0, <1>1, <1>2, <1>3, <1>4, MissingChanges DEF Bystands, HasLive

\* An attempt that has begun does not begin again.
LEMMA NeverNewAgain ==
  ASSUME LockInv, [Next]_vars, NEW k \in Attempts, attempt[k].at # "new"
  PROVE  attempt'[k].at # "new"
PROOF
  <1>0. attempt \in [Attempts -> Doing] /\ attempt[k] \in Doing
    BY DEF LockInv, Shape
  <1>1. ASSUME NEW p \in Attempts, Step(p)
        PROVE  attempt'[k].at # "new"
    <2>1. CASE p # k
      BY <1>1, <2>1, OthersStand DEF Bystands
    <2>2. CASE p = k
      <3>a. ASSUME NEW stage, stage # "new", Goes(p, stage)
            PROVE  attempt'[k].at # "new"
        BY <1>0, <2>2, <3>a DEF Goes, Doing
      <3>b. ASSUME Loses(p) PROVE attempt'[k].at # "new"
        <4>1. \A stage : [Scanned(p, stage) EXCEPT !.lost = TRUE].at = stage
          BY <1>0, <2>2 DEF Scanned, Doing
        <4> QED
          BY <1>0, <2>2, <3>b, <4>1 DEF Loses
      <3>c. \A stage : Over(p, stage).at = stage /\ Scanned(p, stage).at = stage
        BY <1>0, <2>2 DEF Over, Unmade, Scanned, Doing
      <3>1. CASE Announce(p) \/ Collected(p) \/ Finish(p)
        BY <3>1, <3>a DEF Announce, Collected, Finish
      <3>2. CASE Collect(p)
        BY <1>0, <2>2, <3>2 DEF Collect, Doing
      <3>3. CASE Read(p)
        <4>1. CASE Goes(p, "drop")
          BY <3>a, <4>1
        <4> DEFINE f == attempt[p].found \cup
                          {[owner |-> Head(attempt[p].toRead),
                            choosing |-> records[Head(attempt[p].toRead)].choosing,
                            ticket |-> records[Head(attempt[p].toRead)].ticket]}
        <4>2. CASE attempt' = [attempt EXCEPT ![p].toRead = Tail(@), ![p].found = f]
          <5> HIDE DEF f
          <5> QED
            BY <1>0, <2>2, <4>2 DEF Doing
        <4> QED
          BY <3>3, <4>1, <4>2 DEF Read
      <3>4. CASE Drop(p)
        BY <1>0, <2>2, <3>4 DEF Drop, Doing
      <3>5. CASE TakeTicket(p) \/ Renew(p)
        <4>1. PICK stage \in Resting \cup Inside : Rewrite(p, stage) /\ stage # "new"
          BY <3>5 DEF TakeTicket, Renew, Inside
        <4> QED
          BY <1>0, <2>2, <4>1, RewriteMeans
      <3>d. CASE Draw(p)
        BY <1>0, <2>2, <3>d, DrawMeans DEF LockInv
      <3>e. ASSUME NEW stage \in Inside, stage # "new", ReadsClock(p, stage)
            PROVE  attempt'[k].at # "new"
        <4>1. now \in Nat /\ stage \in Resting \cup Inside
          BY LockAssumption DEF LockInv, Shape
        <4>2. attempt'[p].at = stage
          BY <1>0, <3>e, <4>1, ReadsClockMeans
        <4> QED
          BY <2>2, <3>e, <4>2
      <3>f. CASE Look(p)
        BY <3>e, <3>f DEF Look, Inside
      <3>6. CASE Judge(p)
        BY <1>0, <2>2, <3>c, <3>6 DEF Judge
      <3>7. CASE Refresh(p)
        BY <3>b, <3>e, <3>7 DEF Refresh, Inside
      <3>8. CASE Confirm(p)
        <4>1. attempt' = [attempt EXCEPT ![p].at = "scan", ![p].round = 2]
                => attempt'[k].at # "new"
          BY <1>0, <2>2 DEF Doing
        <4> QED
          BY <3>a, <3>b, <3>8, <4>1 DEF Confirm
      <3>9. CASE Throw(p)
        BY <3>b, <3>9 DEF Throw
      <3>10. CASE StartBlock(p)
        BY <1>0, <2>2, <3>10 DEF StartBlock, Doing
      <3>11. CASE Leave(p) \/ Crash(p)
        BY <1>0, <2>2, <3>c, <3>11 DEF Leave, Crash
      <3> QED
        BY <1>1, <3>1, <3>2, <3>3, <3>4, <3>5, <3>6, <3>7, <3>8, <3>9, <3>10, <3>11, <3>d, <3>f
        DEF Step
    <2> QED
      BY <2>1, <2>2
  <1>2. CASE Forget
    BY <1>2, ForgetStands DEF Bystands
  <1>3. CASE Tick \/ UNCHANGED vars
    BY <1>3 DEF Tick, vars
  <1> QED
    BY <1>1, <1>2, <1>3 DEF Next

\* A record that is gone or has run out is brought back by its attempt only,
\* with a ticket or a renewal, which shows that it lapsed.
LEMMA DeadStaysDead ==
  ASSUME LockInv, [Next]_vars, NEW k \in Attempts, attempt[k].at # "new", ~HasLive(k)
  PROVE  /\ attempt[k].at \notin {"ticket", "renew"} => ~HasLive(k)'
         /\ ~HasLive(k)' \/ attempt'[k].lapsed
PROOF
  <1>0. /\ Shape /\ StageMeans(k) /\ now \in Nat /\ attempt \in [Attempts -> Doing]
    BY LockAssumption DEF LockInv, Shape
  <1>1. ASSUME NEW p \in Attempts, Step(p), p # k
        PROVE  ~HasLive(k)'
    <2>1. Bystands(k)
      BY <1>1, OthersStand
    <2> QED
      BY <2>1 DEF Bystands, HasLive, Live
  <1>2. ASSUME Step(k), ~TakeTicket(k), ~Renew(k)
        PROVE  ~HasLive(k)'
    <2>1. ~Announce(k)
      BY DEF Announce
    <2>2. ASSUME NEW j, Removed(j), now' = now
          PROVE  ~HasLive(k)'
      BY <2>2 DEF Removed, HasLive, Live
    <2>3. CASE Drop(k) \/ Leave(k)
      BY <2>2, <2>3 DEF Drop, Leave
    <2>4. ASSUME UNCHANGED <<now, records>>
          PROVE  ~HasLive(k)'
      BY <2>4 DEF HasLive, Live
    <2> QED
      BY <1>2, <2>1, <2>3, <2>4
      DEF Step, Look, Collect, Collected, Read, Draw, Draws, Judge, Refresh, Confirm, Throw,
          StartBlock, Finish, Crash
  <1>3. ASSUME TakeTicket(k) \/ Renew(k)
        PROVE  attempt[k].at \in {"ticket", "renew"} /\ attempt'[k].lapsed
    <2>1. PICK stage \in Resting \cup Inside : Rewrite(k, stage)
      BY <1>3 DEF TakeTicket, Renew, Inside
    <2>2. attempt'[k].lapsed
      BY <1>0, <2>1, RewriteMeans
    <2> QED
      BY <1>3, <2>2 DEF TakeTicket, Renew
  <1>4. CASE Forget
    <2>1. Bystands(k)
      BY <1>4, ForgetStands
    <2>2. ~HasLive(k)'
      BY <2>1 DEF Bystands, HasLive, Live
    <2> QED
      BY <2>2
  <1>5. CASE Tick
    <2>1. k \in DOMAIN records => records[k].expires \in Nat
      BY <1>0 DEF Shape, Intents
    <2>2. now' = now + 1 /\ records' = records
      BY <1>5 DEF Tick
    <2>3. ~HasLive(k)'
      BY <1>0, <2>1, <2>2 DEF HasLive, Live
    <2> QED
      BY <2>3
  <1>6. CASE UNCHANGED vars
    BY <1>6 DEF vars, HasLive, Live
  <1> QED
    BY <1>1, <1>2, <1>3, <1>4, <1>5, <1>6 DEF Next

\* What has lapsed stays so.
LEMMA LapsedStays ==
  ASSUME LockInv, [Next]_vars, NEW k \in Attempts, attempt[k].lapsed
  PROVE  attempt'[k].lapsed
PROOF
  <1>0. attempt \in [Attempts -> Doing] /\ attempt[k] \in Doing /\ now \in Nat
        /\ Shape /\ Bounded
    BY LockAssumption DEF LockInv, Shape
  <1>1. ASSUME Step(k)
        PROVE  attempt'[k].lapsed
    <2>a. \A stage : /\ Scanned(k, stage).lapsed /\ Over(k, stage).lapsed
                     /\ [Scanned(k, stage) EXCEPT !.lost = TRUE].lapsed
      BY <1>0 DEF Scanned, Over, Unmade, Doing
    <2>b. ASSUME NEW stage, Goes(k, stage)
          PROVE  attempt'[k].lapsed
      BY <1>0, <2>b DEF Goes, Doing
    <2>c. ASSUME Loses(k) PROVE attempt'[k].lapsed
      BY <1>0, <2>a, <2>c DEF Loses
    <2>d. ASSUME NEW stage \in Resting \cup Inside, ReadsClock(k, stage)
          PROVE  attempt'[k].lapsed
      BY <1>0, <2>d, ReadsClockMeans
    <2>1. CASE Announce(k) \/ Collected(k) \/ Finish(k)
      BY <2>1, <2>b DEF Announce, Collected, Finish
    <2>2. CASE Look(k)
      BY <2>2, <2>d DEF Look, Inside
    <2>3. CASE Collect(k)
      <3> DEFINE l == IF keys[attempt[k].passed + 1] \in Attempts
                        THEN Append(attempt[k].toRead, keys[attempt[k].passed + 1])
                        ELSE attempt[k].toRead
                 n == attempt[k].passed + 1
      <3>1. attempt' = [attempt EXCEPT ![k].passed = n, ![k].toRead = l]
        BY <1>0, <2>3 DEF Collect, Doing
      <3> HIDE DEF l, n
      <3> QED
        BY <1>0, <3>1 DEF Doing
    <2>4. CASE Read(k)
      <3> DEFINE h == Head(attempt[k].toRead)
                 f == attempt[k].found \cup {[owner |-> h, choosing |-> records[h].choosing,
                                             ticket |-> records[h].ticket]}
      <3>1. CASE attempt' = [attempt EXCEPT ![k].toRead = Tail(@), ![k].found = f]
        <4> HIDE DEF f, h
        <4> QED
          BY <1>0, <3>1 DEF Doing
      <3> QED
        BY <1>0, <2>4, <2>b, <3>1 DEF Read
    <2>5. CASE Drop(k)
      <3>1. attempt'[k] = [attempt[k] EXCEPT !.at = "read", !.toRead = Tail(@)]
        BY <2>5 DEF Drop
      <3> QED
        BY <1>0, <3>1 DEF Doing
    <2>6. CASE Draw(k)
      BY <1>0, <2>6, DrawMeans
    <2>7. CASE TakeTicket(k) \/ Renew(k)
      <3>1. PICK stage \in Resting \cup Inside : Rewrite(k, stage)
        BY <2>7 DEF TakeTicket, Renew, Inside
      <3> QED
        BY <1>0, <3>1, RewriteMeans
    <2>8. CASE Judge(k)
      BY <1>0, <2>a, <2>8 DEF Judge
    <2>9. CASE Refresh(k)
      BY <2>c, <2>d, <2>9 DEF Refresh, Inside
    <2>10. CASE Confirm(k)
      <3>1. attempt' = [attempt EXCEPT ![k].at = "scan", ![k].round = 2] => attempt'[k].lapsed
        BY <1>0 DEF Doing
      <3> QED
        BY <2>b, <2>c, <2>10, <3>1 DEF Confirm
    <2>11. CASE Throw(k)
      BY <2>c, <2>11 DEF Throw
    <2>12. CASE StartBlock(k)
      <3>1. PICK aim \in {"beat", "assert"} :
              attempt' = [attempt EXCEPT ![k].at = "refresh", ![k].aim = aim]
        BY <2>12 DEF StartBlock
      <3> QED
        BY <1>0, <3>1 DEF Doing
    <2>13. CASE Leave(k) \/ Crash(k)
      <3>1. attempt'[k] \in {Over(k, "gone"), Over(k, "crashed")}
        BY <1>0, <2>13 DEF Leave, Crash
      <3> QED
        BY <2>a, <3>1
    <2> QED
      BY <1>1, <2>1, <2>2, <2>3, <2>4, <2>5, <2>6, <2>7, <2>8, <2>9, <2>10, <2>11, <2>12, <2>13
      DEF Step
  <1>2. ASSUME NEW p \in Attempts, Step(p), p # k
        PROVE  attempt'[k].lapsed
    BY <1>2, OthersStand DEF Bystands
  <1>3. CASE Forget
    BY <1>3, ForgetStands DEF Bystands
  <1>4. CASE Tick \/ UNCHANGED vars
    BY <1>4 DEF Tick, vars
  <1> QED
    BY <1>1, <1>2, <1>3, <1>4 DEF Next

\* The record of an attempt that has not lapsed is removed by its owner or not
\* at all while its lease lasts.
LEMMA TakenAwayByOwner ==
  ASSUME LockInv, [Next]_vars, NEW p \in Attempts,
         HasLive(p), ~attempt[p].lapsed, p \notin DOMAIN records'
  PROVE  attempt'[p].at = "gone"
PROOF
  <1>0. /\ Shape /\ StageMeans(p) /\ attempt \in [Attempts -> Doing] /\ p \in DOMAIN records
        /\ attempt[p].toRead \in Seq(Attempts)
    BY DEF LockInv, Shape, Doing, HasLive
  <1>1. ASSUME NEW r \in Attempts, Step(r), r # p
        PROVE  FALSE
    BY <1>1, OthersStand DEF Bystands
  <1>2. ASSUME Step(p)
        PROVE  attempt'[p].at = "gone"
    <2>1. ASSUME NEW choosing \in BOOLEAN, NEW ticket, WriteIntent(p, choosing, ticket)
          PROVE  FALSE
      <3>1. p \in DOMAIN records'
        BY <2>1 DEF WriteIntent
      <3> QED
        BY <3>1
    <2>2. ~Announce(p)
      BY <2>1 DEF Announce
    <2>3. ~TakeTicket(p) /\ ~Renew(p)
      BY <2>1 DEF TakeTicket, Renew, Rewrite
    <2>4. ~Drop(p)
      <3> SUFFICES ASSUME Drop(p) PROVE FALSE
        OBVIOUS
      <3> DEFINE k == Head(attempt[p].toRead)
      <3>1. attempt[p].toRead # <<>> /\ Removed(k) /\ attempt[p].at = "drop"
        BY <1>0 DEF Drop, StageMeans
      <3>2. k \in Attempts
        BY <1>0, <3>1, HeadTailProperties
      <3>3. k # p
        BY <1>0, <3>1, <3>2 DEF StageMeans
      <3> HIDE DEF k
      <3> QED
        BY <1>0, <3>1, <3>3 DEF Removed
    <2>5. CASE Leave(p)
      <3>1. attempt'[p] = Over(p, "gone")
        BY <2>5 DEF Leave
      <3> QED
        BY <3>1 DEF Over, Unmade
    <2> QED
      BY <1>0, <1>2, <2>2, <2>3, <2>4, <2>5
      DEF Step, Look, Collect, Collected, Read, Draw, Draws, Judge, Refresh, Confirm, Throw,
          StartBlock, Finish, Crash
  <1>3. CASE Forget
    BY <1>3, ForgetStands DEF Bystands
  <1>4. CASE Tick \/ UNCHANGED vars
    BY <1>0, <1>4 DEF Tick, vars
  <1> QED
    BY <1>1, <1>2, <1>3, <1>4 DEF Next

-------------------------------------------------------------------------------
(* What the stages mean *)

\* A step of another attempt leaves the meaning of q's stage.
LEMMA StageOfBystander ==
  ASSUME LockInv, [Next]_vars, NEW q \in Attempts, Bystands(q)
  PROVE  StageMeans(q)'
PROOF
  <1>0. StageMeans(q) /\ attempt \in [Attempts -> Doing] /\ attempt[q] \in Doing
        /\ attempt' \in [Attempts -> Doing] /\ attempt'[q] \in Doing
    BY ShapeKept DEF LockInv, Shape
  <1>1. /\ \A k \in Attempts : attempt[k].at # "new" => attempt'[k].at # "new"
        /\ \A k \in Attempts : attempt[k].at # "new" /\ (~HasLive(k) \/ attempt[k].lapsed)
             => ~HasLive(k)' \/ attempt'[k].lapsed
    BY NeverNewAgain, DeadStaysDead, LapsedStays
  <1>2. /\ now' = now
        /\ attempt'[q].at = attempt[q].at
        /\ attempt'[q].round = attempt[q].round
        /\ attempt'[q].passed = attempt[q].passed
        /\ attempt'[q].toRead = attempt[q].toRead
        /\ attempt'[q].found = attempt[q].found
        /\ attempt'[q].ticket = attempt[q].ticket
        /\ attempt'[q].aim = attempt[q].aim
        /\ attempt'[q].lost = attempt[q].lost
        /\ q \in DOMAIN records' => q \in DOMAIN records /\ records'[q] = records[q]
    BY DEF Bystands
  <1>3. IsOwn(q) => IsOwn(q)'
    BY <1>2 DEF IsOwn
  <1>4. ASSUME q \in DOMAIN records => records[q].choosing, q \in DOMAIN records'
        PROVE  records'[q].choosing
    BY <1>2, <1>4
  <1>5. q \notin DOMAIN records => q \notin DOMAIN records'
    BY <1>2
  <1>6. (Choosing(q)' <=> Choosing(q)) /\ (Rescans(q)' <=> Rescans(q))
    BY <1>2 DEF Choosing, Rescans
  <1>7. \A k \in ToSet(attempt[q].toRead) : k \in Attempts /\ attempt'[k].at # "new"
    <2>1. attempt[q].toRead \in Seq(Attempts)
      BY <1>0 DEF Doing
    <2>2. \A k \in ToSet(attempt[q].toRead) : k \in Attempts
      BY <2>1, ElementOfSeq, LenProperties DEF ToSet
    <2> QED
      BY <1>0, <1>1, <2>2 DEF StageMeans
  <1>8. \A c \in attempt[q].found : attempt'[c.owner].at # "new"
    <2>1. \A c \in attempt[q].found : c.owner \in Attempts
      BY <1>0 DEF Doing, Contenders
    <2> QED
      BY <1>0, <1>1, <2>1 DEF StageMeans
  <1>9. attempt[q].at = "drop" =>
          /\ attempt[q].toRead # <<>>
          /\ \A k \in Attempts :
               k = Head(attempt[q].toRead) => ~HasLive(k)' \/ attempt'[k].lapsed
    <2> SUFFICES ASSUME attempt[q].at = "drop", NEW k \in Attempts, k = Head(attempt[q].toRead)
                 PROVE  attempt[q].toRead # <<>> /\ (~HasLive(k)' \/ attempt'[k].lapsed)
      BY <1>0 DEF StageMeans
    <2>1. attempt[q].toRead # <<>> /\ (~HasLive(k) \/ attempt[k].lapsed)
      BY <1>0 DEF StageMeans
    <2>2. attempt[q].toRead \in Seq(Attempts) /\ Len(attempt[q].toRead) \in Nat \ {0}
      BY <1>0, <2>1, EmptySeq DEF Doing
    <2>3. k \in ToSet(attempt[q].toRead)
      <3>1. k = attempt[q].toRead[1] /\ 1 \in DOMAIN attempt[q].toRead
        BY <2>2, LenProperties
      <3> QED
        BY <3>1 DEF ToSet
    <2>4. attempt[k].at # "new"
      BY <1>0, <2>3 DEF StageMeans
    <2> QED
      BY <1>1, <2>1, <2>4
  <1> QED
    BY <1>0, <1>2, <1>3, <1>4, <1>5, <1>6, <1>7, <1>8, <1>9 DEF StageMeans

\* An attempt that goes to a stage keeps all else.
LEMMA GoesMeans ==
  ASSUME attempt \in [Attempts -> Doing], NEW p \in Attempts, NEW stage, Goes(p, stage)
  PROVE  /\ attempt'[p].at = stage
         /\ attempt'[p].round = attempt[p].round
         /\ attempt'[p].passed = attempt[p].passed
         /\ attempt'[p].toRead = attempt[p].toRead
         /\ attempt'[p].found = attempt[p].found
         /\ attempt'[p].ticket = attempt[p].ticket
         /\ attempt'[p].aim = attempt[p].aim
         /\ attempt'[p].missed = attempt[p].missed
         /\ attempt'[p].lapsed = attempt[p].lapsed
PROOF
  BY DEF Goes, Doing

\* An attempt whose scan is over forgets the scan.
LEMMA ScannedMeans ==
  ASSUME attempt \in [Attempts -> Doing], NEW p \in Attempts, NEW stage
  PROVE  LET a == Scanned(p, stage)
         IN  /\ a.at = stage
             /\ a.round = attempt[p].round
             /\ a.passed = 0
             /\ a.toRead = <<>>
             /\ a.found = {}
             /\ a.ticket = attempt[p].ticket
             /\ a.aim = attempt[p].aim
             /\ a.missed = attempt[p].missed
             /\ a.lapsed = attempt[p].lapsed
PROOF
  BY DEF Scanned, Doing

\* An attempt that loses the lock gives up, unless in a heartbeat.
LEMMA LosesMeans ==
  ASSUME attempt \in [Attempts -> Doing], NEW p \in Attempts, Loses(p)
  PROVE  /\ attempt'[p].at = IF attempt[p].aim = "beat" THEN "critical" ELSE "leave"
         /\ attempt'[p].round = attempt[p].round
         /\ attempt'[p].passed = 0
         /\ attempt'[p].toRead = <<>>
         /\ attempt'[p].found = {}
         /\ attempt'[p].ticket = attempt[p].ticket
         /\ attempt'[p].aim = attempt[p].aim
         /\ attempt'[p].missed = attempt[p].missed
         /\ attempt'[p].lapsed = attempt[p].lapsed
PROOF
  <1> DEFINE next == IF attempt[p].aim = "beat" THEN "critical" ELSE "leave"
  <1>1. attempt'[p] = [Scanned(p, next) EXCEPT !.lost = TRUE]
    BY DEF Loses
  <1> HIDE DEF next
  <1>2. /\ attempt'[p].at = next
        /\ attempt'[p].round = attempt[p].round
        /\ attempt'[p].passed = 0
        /\ attempt'[p].toRead = <<>>
        /\ attempt'[p].found = {}
        /\ attempt'[p].ticket = attempt[p].ticket
        /\ attempt'[p].aim = attempt[p].aim
        /\ attempt'[p].missed = attempt[p].missed
        /\ attempt'[p].lapsed = attempt[p].lapsed
    BY <1>1 DEF Scanned, Doing
  <1> QED
    BY <1>2 DEF next

\* Who is over holds nothing.
LEMMA OverMeans ==
  ASSUME NEW p \in Attempts, NEW stage
  PROVE  LET a == Over(p, stage)
         IN  /\ a.at = stage /\ a.passed = 0 /\ a.toRead = <<>> /\ a.found = {}
             /\ a.aim = "enter" /\ a.ticket = 0
PROOF
  BY DEF Over, Unmade

\* What an attempt is told of by its own steps, and what its stage then means.
LEMMA StageOfActor ==
  ASSUME LockInv, NEW p \in Attempts, Step(p)
  PROVE  StageMeans(p)'
PROOF
  <1>0. /\ StageMeans(p) /\ Shape /\ Bounded /\ attempt \in [Attempts -> Doing]
        /\ attempt[p] \in Doing /\ attempt' \in [Attempts -> Doing] /\ attempt'[p] \in Doing
        /\ Shape'
    <2>1. Shape'
      BY ShapeKept DEF Next
    <2> QED
      BY <2>1 DEF LockInv, Shape
  <1>a. \A k \in Attempts : attempt[k].at # "new" => attempt'[k].at # "new"
    BY NeverNewAgain DEF Next
  <1>b. attempt[p].toRead \in Seq(Attempts)
        /\ \A k \in ToSet(attempt[p].toRead) : k \in Attempts /\ attempt'[k].at # "new"
    <2>1. attempt[p].toRead \in Seq(Attempts)
      BY <1>0 DEF Doing
    <2>2. \A k \in ToSet(attempt[p].toRead) : k \in Attempts
      BY <2>1, ElementOfSeq, LenProperties DEF ToSet
    <2> QED
      BY <1>0, <1>a, <2>1, <2>2 DEF StageMeans
  <1>c. \A c \in attempt[p].found : attempt'[c.owner].at # "new"
    <2>1. \A c \in attempt[p].found : c.owner \in Attempts
      BY <1>0 DEF Doing, Contenders
    <2> QED
      BY <1>0, <1>a, <2>1 DEF StageMeans
  <1>d. ToSet(<<>>) = {}
    BY DEF ToSet
  <1>e. ASSUME UNCHANGED <<now, records>>
        PROVE  IsOwn(p) /\ attempt'[p].ticket = attempt[p].ticket => IsOwn(p)'
    BY <1>e DEF IsOwn
  <1>f. ASSUME NEW stage \in {"refresh", "confirm"}, Rewrite(p, stage),
               attempt[p].at \in {"ticket", "renew"}
        PROVE  StageMeans(p)'
    <2>1. /\ attempt'[p].at = stage
          /\ attempt'[p].round = attempt[p].round
          /\ attempt'[p].passed = attempt[p].passed
          /\ attempt'[p].toRead = attempt[p].toRead
          /\ attempt'[p].found = attempt[p].found
          /\ attempt'[p].ticket = attempt[p].ticket
          /\ WriteIntent(p, FALSE, attempt[p].ticket)
          /\ attempt[p].ticket \in Nat
      BY <1>0, <1>f, RewriteMeans DEF Inside
    <2>2. records'[p].choosing = FALSE /\ records'[p].ticket = attempt[p].ticket
      BY <1>0, <2>1, WriteProperties
    <2>3. IsOwn(p)'
      BY <2>1, <2>2 DEF IsOwn
    <2>4. attempt'[p].passed = 0
      BY <1>0, <1>f, <2>1 DEF StageMeans
    <2> QED
      BY <1>b, <1>c, <1>f, <2>1, <2>3, <2>4 DEF StageMeans, Choosing, Rescans, Scanning
  <1>h. ASSUME NEW stage \in {"collect", "renew"}, ReadsClock(p, stage), stage = "renew" \/
               attempt[p].at = "scan", stage = "collect" \/ attempt[p].at = "refresh",
               UNCHANGED <<now, keys, records>>
        PROVE  StageMeans(p)'
    <2>1. now \in Nat /\ stage \in Resting \cup Inside
      BY <1>0, LockAssumption DEF Shape, Inside
    <2>2. /\ attempt'[p].at = stage
          /\ attempt'[p].round = attempt[p].round
          /\ attempt'[p].passed = attempt[p].passed
          /\ attempt'[p].toRead = attempt[p].toRead
          /\ attempt'[p].found = attempt[p].found
          /\ attempt'[p].ticket = attempt[p].ticket
          /\ attempt'[p].aim = attempt[p].aim
      BY <1>0, <1>h, <2>1, ReadsClockMeans
    <2> QED
      BY <1>0, <1>b, <1>c, <1>e, <1>h, <2>2 DEF StageMeans, Choosing, Rescans, Scanning
  <1>g. ASSUME UNCHANGED <<now, records>>, Loses(p)
        PROVE  StageMeans(p)'
    <2>1. /\ attempt'[p].at = IF attempt[p].aim = "beat" THEN "critical" ELSE "leave"
          /\ attempt'[p].passed = 0 /\ attempt'[p].toRead = <<>>
          /\ attempt'[p].found = {}
          /\ attempt'[p].ticket = attempt[p].ticket
          /\ attempt'[p].aim = attempt[p].aim
      BY <1>0, <1>g, LosesMeans
    <2> QED
      BY <1>0, <1>d, <1>e, <1>g, <2>1 DEF StageMeans, Choosing, Rescans, Scanning
  <1>1. CASE Announce(p)
    <2>1. Goes(p, "scan") /\ WriteIntent(p, TRUE, 0) /\ now' = now /\ attempt[p].at = "new"
      BY <1>1 DEF Announce
    <2>2. records'[p].choosing
      <3>1. TRUE \in BOOLEAN /\ 0 \in Nat
        OBVIOUS
      <3> QED
        BY <1>0, <2>1, <3>1, WriteProperties
    <2> QED
      BY <1>0, <1>b, <1>c, <2>1, <2>2, GoesMeans DEF StageMeans, Choosing, Rescans, Scanning
  <1>2. CASE Collect(p)
    <2> DEFINE k == keys[attempt[p].passed + 1]
               r == IF k \in Attempts THEN Append(attempt[p].toRead, k) ELSE attempt[p].toRead
    <2>1. /\ attempt[p].at = "collect" /\ UNCHANGED <<now, keys, records>>
          /\ attempt'[p].at = "collect"
          /\ attempt'[p].round = attempt[p].round
          /\ attempt'[p].toRead = r
          /\ attempt'[p].found = attempt[p].found
          /\ attempt'[p].ticket = attempt[p].ticket
          /\ attempt'[p].aim = attempt[p].aim
      <3>1. attempt' = [attempt EXCEPT ![p] = [attempt[p] EXCEPT !.passed = @ + 1, !.toRead = r]]
        BY <1>0, <1>2 DEF Collect
      <3> DEFINE n == attempt[p].passed + 1
      <3>2. n \in Nat
        BY <1>0 DEF Doing
      <3>3. attempt'[p] = [attempt[p] EXCEPT !.passed = n, !.toRead = r]
        BY <1>0, <3>1 DEF Doing
      <3> HIDE DEF n, r
      <3>4. /\ attempt'[p].at = attempt[p].at
            /\ attempt'[p].round = attempt[p].round
            /\ attempt'[p].toRead = r
            /\ attempt'[p].found = attempt[p].found
            /\ attempt'[p].ticket = attempt[p].ticket
            /\ attempt'[p].aim = attempt[p].aim
        BY <1>0, <3>3 DEF Doing
      <3> QED
        BY <1>2, <3>4 DEF Collect
    <2>2. \A l \in ToSet(r) : attempt'[l].at # "new"
      <3>1. CASE k \in Attempts
        <4>1. attempt[p].passed + 1 \in DOMAIN keys
          <5>1. attempt[p].passed \in Nat /\ attempt[p].passed < Len(keys)
            BY <1>0, <1>2 DEF Collect, Doing
          <5>2. DOMAIN keys = 1..Len(keys) /\ Len(keys) \in Nat
            BY <1>0, LenProperties DEF Shape
          <5> QED
            BY <5>1, <5>2
        <4>2. k \in DOMAIN records
          BY <1>0, <3>1, <4>1 DEF Shape, ToSet
        <4>3. attempt[k].at # "new"
          BY <3>1, <4>2 DEF LockInv, StageMeans
        <4>4. attempt'[k].at # "new"
          BY <1>a, <3>1, <4>3
        <4> HIDE DEF k
        <4>5. r = Append(attempt[p].toRead, k)
          BY <3>1
        <4>6. ToSet(Append(attempt[p].toRead, k)) = ToSet(attempt[p].toRead) \cup {k}
          BY <1>b, <3>1, AppendElements
        <4> QED
          BY <1>b, <4>4, <4>5, <4>6
      <3>2. CASE k \notin Attempts
        BY <1>b, <3>2
      <3> QED
        BY <3>1, <3>2
    <2> HIDE DEF r
    <2>3. (Choosing(p)' <=> Choosing(p)) /\ (Rescans(p)' <=> Rescans(p))
      BY <2>1 DEF Choosing, Rescans, Scanning
    <2> QED
      BY <1>0, <1>c, <1>e, <2>1, <2>2, <2>3 DEF StageMeans, Scanning
  <1>3. CASE Collected(p)
    <2>1. Goes(p, "read") /\ UNCHANGED <<now, keys, records>> /\ attempt[p].at = "collect"
      BY <1>3 DEF Collected
    <2> QED
      BY <1>0, <1>b, <1>c, <1>e, <2>1, GoesMeans DEF StageMeans, Choosing, Rescans, Scanning

  <1>4. CASE Read(p)
    <2> DEFINE k == Head(attempt[p].toRead)
               c == [owner |-> k, choosing |-> records[k].choosing, ticket |-> records[k].ticket]
    <2>1. /\ attempt[p].at = "read" /\ attempt[p].toRead # <<>>
          /\ UNCHANGED <<now, keys, records>>
      BY <1>4 DEF Read
    <2>2. /\ k \in Attempts /\ k \in ToSet(attempt[p].toRead)
          /\ \A l \in ToSet(Tail(attempt[p].toRead)) : l \in ToSet(attempt[p].toRead)
      BY <1>b, <2>1, HeadAndTail
    <2>3. CASE LiveTo(p, k)
      <3> DEFINE f == attempt[p].found \cup {c}
      <3>1. attempt' = [attempt EXCEPT ![p].toRead = Tail(@), ![p].found = f]
        BY <1>0, <1>4, <2>3 DEF Read
      <3>2. \A d \in f : attempt'[d.owner].at # "new"
        BY <1>b, <1>c, <2>2
      <3> HIDE DEF f
      <3>3. /\ attempt'[p].at = attempt[p].at
            /\ attempt'[p].round = attempt[p].round
            /\ attempt'[p].toRead = Tail(attempt[p].toRead)
            /\ attempt'[p].found = f
            /\ attempt'[p].ticket = attempt[p].ticket
            /\ attempt'[p].aim = attempt[p].aim
        BY <1>0, <3>1 DEF Doing
      <3> HIDE DEF k, c
      <3>4. (Choosing(p)' <=> Choosing(p)) /\ (Rescans(p)' <=> Rescans(p))
        BY <3>3 DEF Choosing, Rescans
      <3> QED
        BY <1>0, <1>b, <1>e, <2>1, <2>2, <3>2, <3>3, <3>4 DEF StageMeans, Scanning
    <2>4. CASE ~LiveTo(p, k)
      <3>1. Goes(p, "drop")
        BY <1>4, <2>4 DEF Read
      <3>2. \A l \in Attempts : l = Head(attempt[p].toRead) => ~HasLive(l)'
        <4>1. /\ now \in Nat /\ attempt[p].asOf \in Nat /\ attempt[p].asOf <= now
              /\ \A l \in DOMAIN records : records[l].expires \in Nat
          BY <1>0, LockAssumption DEF Shape, Intents, Doing
        <4> QED
          BY <2>1, <2>4, <4>1 DEF HasLive, Live, LiveTo
      <3> HIDE DEF k, c
      <3> QED
        BY <1>0, <1>b, <1>c, <1>e, <2>1, <3>1, <3>2, GoesMeans
        DEF StageMeans, Choosing, Rescans, Scanning
    <2> QED
      BY <2>3, <2>4
  <1>5. CASE Drop(p)
    <2> DEFINE k == Head(attempt[p].toRead)
    <2>1. attempt[p].at = "drop" /\ attempt[p].toRead # <<>> /\ Removed(k) /\ now' = now
      BY <1>0, <1>5 DEF Drop, StageMeans
    <2>2. /\ k \in Attempts
          /\ \A l \in ToSet(Tail(attempt[p].toRead)) : l \in ToSet(attempt[p].toRead)
      BY <1>b, <2>1, HeadAndTail
    <2>3. attempt'[p] = [attempt[p] EXCEPT !.at = "read", !.toRead = Tail(@)]
      BY <1>5 DEF Drop
    <2>4. /\ attempt'[p].at = "read"
          /\ attempt'[p].round = attempt[p].round
          /\ attempt'[p].toRead = Tail(attempt[p].toRead)
          /\ attempt'[p].found = attempt[p].found
          /\ attempt'[p].ticket = attempt[p].ticket
          /\ attempt'[p].aim = attempt[p].aim
      BY <1>0, <2>3 DEF Doing
    <2>5. p \in DOMAIN records' => p \in DOMAIN records /\ records'[p] = records[p]
      <3> HIDE DEF k
      <3>1. /\ DOMAIN records' = DOMAIN records \ {k}
            /\ \A q \in DOMAIN records : q # k => records'[q] = records[q]
        BY <1>0, <2>1, <2>2, RemovedProperties
      <3> QED
        BY <3>1
    <2>6. /\ IsOwn(p) => IsOwn(p)'
          /\ (p \in DOMAIN records => records[p].choosing)
               => (p \in DOMAIN records' => records'[p].choosing)
      BY <2>4, <2>5 DEF IsOwn
    <2>7. (Choosing(p)' <=> Choosing(p)) /\ (Rescans(p)' <=> Rescans(p))
      BY <2>1, <2>4 DEF Choosing, Rescans, Scanning
    <2> HIDE DEF k
    <2> QED
      BY <1>0, <1>b, <1>c, <2>1, <2>2, <2>4, <2>6, <2>7 DEF StageMeans, Scanning
  <1>6. CASE TakeTicket(p) \/ Renew(p)
    BY <1>f, <1>6 DEF TakeTicket, Renew
  <1>9. CASE Draw(p)
    <2>1. /\ UNCHANGED <<now, keys, records>>
          /\ attempt[p].at = "read" /\ attempt[p].round = 1
          /\ attempt'[p].at = "ticket"
          /\ attempt'[p].passed = 0
          /\ attempt'[p].toRead = <<>>
          /\ attempt'[p].found = {}
          /\ attempt'[p].aim = attempt[p].aim
      BY <1>0, <1>9, DrawMeans
    <2>2. Choosing(p)
      BY <2>1 DEF Choosing, Scanning
    <2> QED
      BY <1>0, <1>d, <2>1, <2>2 DEF StageMeans, Choosing, Rescans, Scanning
  <1>16. CASE Look(p)
    BY <1>h, <1>16 DEF Look
  <1>7. CASE Judge(p)
    <2>1. /\ attempt[p].at = "read" /\ attempt[p].round = 2 /\ UNCHANGED <<now, keys, records>>
          /\ attempt'[p] = Scanned(p, "leave") \/ attempt'[p] = Scanned(p, "critical")
      BY <1>0, <1>7 DEF Judge, ReadAll
    <2>2. /\ attempt'[p].at \in {"leave", "critical"}
          /\ attempt'[p].passed = 0 /\ attempt'[p].toRead = <<>> /\ attempt'[p].found = {}
          /\ attempt'[p].ticket = attempt[p].ticket /\ attempt'[p].aim = attempt[p].aim
      BY <1>0, <2>1, ScannedMeans
    <2>3. IsOwn(p) /\ attempt[p].aim = "enter"
      BY <1>0, <2>1 DEF StageMeans, Rescans, Scanning
    <2> QED
      BY <1>0, <1>d, <1>e, <2>1, <2>2, <2>3 DEF StageMeans, Choosing, Rescans, Scanning
  <1>8. CASE Refresh(p)
    <2>1. CASE ReadsClock(p, "renew")
      BY <1>8, <1>h, <2>1 DEF Refresh
    <2>2. CASE Loses(p)
      BY <1>8, <1>g, <2>2 DEF Refresh
    <2> QED
      BY <1>8, <2>1, <2>2 DEF Refresh
  <1>10. CASE Confirm(p)
    <2>1. UNCHANGED <<now, keys, records>> /\ attempt[p].at = "confirm" /\ IsOwn(p)
      BY <1>0, <1>10 DEF Confirm, StageMeans
    <2>2. CASE /\ attempt[p].aim = "enter"
               /\ attempt' = [attempt EXCEPT ![p].at = "scan", ![p].round = 2]
      <3>1. /\ attempt'[p].at = "scan" /\ attempt'[p].round = 2
            /\ attempt'[p].passed = attempt[p].passed
            /\ attempt'[p].toRead = attempt[p].toRead
            /\ attempt'[p].found = attempt[p].found
            /\ attempt'[p].ticket = attempt[p].ticket
            /\ attempt'[p].aim = attempt[p].aim
        BY <1>0, <2>2 DEF Doing
      <3>2. IsOwn(p)' /\ attempt'[p].passed = 0
        BY <1>0, <1>e, <2>1, <3>1 DEF StageMeans
      <3>3. ~Choosing(p)'
        BY <3>1 DEF Choosing
      <3>4. /\ \A k \in ToSet(attempt'[p].toRead) : attempt'[k].at # "new"
            /\ \A c \in attempt'[p].found : attempt'[c.owner].at # "new"
        BY <1>b, <1>c, <3>1
      <3> QED
        BY <2>2, <3>1, <3>2, <3>3, <3>4 DEF StageMeans, Scanning
    <2>3. CASE attempt[p].aim # "enter" /\ Goes(p, "critical")
      <3> QED
        BY <1>0, <1>b, <1>c, <1>e, <2>1, <2>3, GoesMeans
        DEF StageMeans, Choosing, Rescans, Scanning
    <2>4. CASE Loses(p)
      BY <1>g, <2>1, <2>4
    <2> QED
      BY <1>10, <2>2, <2>3, <2>4 DEF Confirm
  <1>11. CASE Throw(p)
    BY <1>g, <1>11 DEF Throw
  <1>12. CASE StartBlock(p)
    <2>1. UNCHANGED <<now, keys, records>> /\ attempt[p].at = "critical"
      BY <1>12 DEF StartBlock
    <2>2. PICK aim \in {"beat", "assert"} :
            attempt' = [attempt EXCEPT ![p].at = "refresh", ![p].aim = aim]
      BY <1>12 DEF StartBlock
    <2>3. /\ attempt'[p].at = "refresh" /\ attempt'[p].aim = aim
          /\ attempt'[p].passed = attempt[p].passed
          /\ attempt'[p].toRead = attempt[p].toRead
          /\ attempt'[p].found = attempt[p].found
          /\ attempt'[p].ticket = attempt[p].ticket
      BY <1>0, <2>2 DEF Doing
    <2> QED
      BY <1>0, <1>b, <1>c, <1>e, <2>1, <2>3 DEF StageMeans, Choosing, Rescans, Scanning
  <1>13. CASE Finish(p)
    <2>1. UNCHANGED <<now, keys, records>> /\ attempt[p].at = "critical" /\ Goes(p, "leave")
      BY <1>13 DEF Finish
    <2> QED
      BY <1>0, <1>b, <1>c, <1>e, <2>1, GoesMeans DEF StageMeans, Choosing, Rescans, Scanning
  <1>14. CASE Leave(p)
    <2>1. attempt'[p] = Over(p, "gone") /\ Removed(p)
      BY <1>14 DEF Leave
    <2>2. p \notin DOMAIN records'
      BY <2>1 DEF Removed
    <2> QED
      BY <1>0, <1>d, <2>1, <2>2, OverMeans DEF StageMeans, Choosing, Rescans, Scanning
  <1>15. CASE Crash(p)
    <2>1. attempt'[p] = Over(p, "crashed")
      BY <1>0, <1>15 DEF Crash
    <2> QED
      BY <1>0, <1>d, <2>1, OverMeans DEF StageMeans, Choosing, Rescans, Scanning
  <1> QED
    BY <1>1, <1>2, <1>3, <1>4, <1>5, <1>6, <1>7, <1>8, <1>9, <1>10, <1>11, <1>12, <1>13,
       <1>14, <1>15, <1>16 DEF Step

\* Every step leaves every stage its meaning.
LEMMA StagesKept ==
  ASSUME LockInv, [Next]_vars, NEW q \in Attempts
  PROVE  StageMeans(q)'
PROOF
  <1>0. StageMeans(q)
    BY DEF LockInv
  <1>1. ASSUME NEW p \in Attempts, Step(p)
        PROVE  StageMeans(q)'
    <2>1. CASE p = q
      BY <1>1, <2>1, StageOfActor
    <2>2. CASE p # q
      BY <1>1, <2>2, OthersStand, StageOfBystander
    <2> QED
      BY <2>1, <2>2
  <1>2. CASE Forget
    BY <1>2, ForgetStands, StageOfBystander
  <1>3. CASE Tick
    <2>1. UNCHANGED <<keys, records, attempt>> /\ now' = now + 1
      BY <1>3 DEF Tick
    <2>2. IsOwn(q) => IsOwn(q)'
      BY <2>1 DEF IsOwn
    <2>3. \A k \in Attempts : ~HasLive(k) => ~HasLive(k)'
      <3>1. now \in Nat /\ \A k \in DOMAIN records : records[k].expires \in Nat
        BY LockAssumption DEF LockInv, Shape, Intents
      <3> QED
        BY <2>1, <3>1 DEF HasLive, Live
    <2> QED
      BY <1>0, <2>1, <2>2, <2>3 DEF StageMeans, Choosing, Rescans, Scanning
  <1>4. CASE UNCHANGED vars
    <2>1. /\ Owns(q)' <=> Owns(q)
          /\ \A k \in Attempts : HasLive(k)' <=> HasLive(k)
          /\ IsOwn(q)' <=> IsOwn(q)
          /\ Choosing(q)' <=> Choosing(q)
          /\ Rescans(q)' <=> Rescans(q)
      BY <1>4 DEF vars, Owns, HasLive, IsOwn, Live, Choosing, Rescans
    <2>2. attempt' = attempt /\ records' = records
      BY <1>4 DEF vars
    <2> QED
      BY <1>0, <2>1, <2>2 DEF StageMeans
  <1> QED
    BY <1>1, <1>2, <1>3, <1>4 DEF Next

-------------------------------------------------------------------------------
(* Tickets are bounded *)

\* What a step of p does to tickets: it takes one more than the greatest found
\* when it has none, keeps the one it has, or is over.
LEMMA TicketOfActor ==
  ASSUME LockInv, NEW p \in Attempts, Step(p)
  PROVE  /\ p \in Taken => p \in Taken'
         /\ \/ attempt'[p].ticket \in {attempt[p].ticket, 0}
            \/ p \notin Taken /\ p \in Taken' /\ attempt'[p].ticket <= Cardinality(Taken) + 1
         /\ \A c \in attempt'[p].found :
              c \in attempt[p].found \/ \E k \in DOMAIN records : c.ticket = records[k].ticket
         /\ Choosing(p)' => attempt'[p].ticket = 0
         /\ p \in DOMAIN records' =>
              \/ p \in DOMAIN records /\ records'[p] = records[p]
              \/ records'[p].ticket \in {0, attempt'[p].ticket}
PROOF
  <1>0. /\ StageMeans(p) /\ Shape /\ Bounded /\ attempt \in [Attempts -> Doing]
        /\ attempt[p] \in Doing
        /\ Choosing(p) \/ attempt[p].at = "new" => attempt[p].ticket = 0
        /\ attempt[p].ticket \in Nat
    BY DEF LockInv, Shape, Bounded, Doing
  <1>a. p \in Taken <=> attempt[p].ticket > 0 \/ attempt[p].at \in {"leave", "gone", "crashed"}
    BY DEF Taken
  <1>b. p \in Taken' <=>
          attempt'[p].ticket > 0 \/ attempt'[p].at \in {"leave", "gone", "crashed"}
    BY DEF Taken
  <1>c. ASSUME UNCHANGED records, attempt'[p].ticket = attempt[p].ticket,
               attempt'[p].found \in {attempt[p].found, {}},
               attempt[p].at \in {"leave", "gone", "crashed"}
                 => attempt'[p].at \in {"leave", "gone", "crashed"},
               Choosing(p)' => Choosing(p)
        PROVE  /\ p \in Taken => p \in Taken'
               /\ \/ attempt'[p].ticket \in {attempt[p].ticket, 0}
                  \/ p \notin Taken /\ p \in Taken' /\ attempt'[p].ticket <= Cardinality(Taken) + 1
               /\ \A c \in attempt'[p].found :
                    c \in attempt[p].found \/ \E k \in DOMAIN records : c.ticket = records[k].ticket
               /\ Choosing(p)' => attempt'[p].ticket = 0
               /\ p \in DOMAIN records' =>
                    \/ p \in DOMAIN records /\ records'[p] = records[p]
                    \/ records'[p].ticket \in {0, attempt'[p].ticket}
    <2>1. p \in Taken => p \in Taken'
      BY <1>a, <1>b, <1>c
    <2>2. \A c \in attempt'[p].found : c \in attempt[p].found
      BY <1>c
    <2>3. Choosing(p)' => attempt'[p].ticket = 0
      BY <1>0, <1>c
    <2>4. p \in DOMAIN records' => p \in DOMAIN records /\ records'[p] = records[p]
      BY <1>c
    <2> QED
      BY <1>c, <2>1, <2>2, <2>3, <2>4
  <1>d. ASSUME NEW stage \in {"refresh", "confirm"}, Rewrite(p, stage),
               attempt[p].at \in {"ticket", "renew"}
        PROVE  /\ p \in Taken => p \in Taken'
               /\ attempt'[p].ticket = attempt[p].ticket
               /\ attempt'[p].found = attempt[p].found
               /\ ~Choosing(p)'
               /\ records'[p].ticket = attempt[p].ticket
    <2>1. /\ attempt'[p].at = stage
          /\ attempt'[p].found = attempt[p].found
          /\ attempt'[p].ticket = attempt[p].ticket
          /\ WriteIntent(p, FALSE, attempt[p].ticket)
      BY <1>0, <1>d, RewriteMeans DEF Inside
    <2>2. records'[p].ticket = attempt[p].ticket
      BY <1>0, <2>1, WriteProperties
    <2> QED
      BY <1>a, <1>b, <1>d, <2>1, <2>2 DEF Choosing, Scanning
  <1>f. ASSUME NEW stage \in {"collect", "renew"}, ReadsClock(p, stage), UNCHANGED records,
               attempt[p].at \in {"scan", "refresh"},
               stage = "collect" => attempt[p].at = "scan"
        PROVE  /\ p \in Taken => p \in Taken'
               /\ attempt'[p].ticket = attempt[p].ticket
               /\ attempt'[p].found = attempt[p].found
               /\ Choosing(p)' => Choosing(p)
    <2>1. now \in Nat /\ stage \in Resting \cup Inside
      BY <1>0, LockAssumption DEF Shape, Inside
    <2>2. /\ attempt'[p].at = stage
          /\ attempt'[p].round = attempt[p].round
          /\ attempt'[p].found = attempt[p].found
          /\ attempt'[p].ticket = attempt[p].ticket
      BY <1>0, <1>f, <2>1, ReadsClockMeans
    <2> QED
      BY <1>a, <1>b, <1>f, <2>2 DEF Choosing, Scanning
  <1>1. CASE Announce(p)
    <2>1. /\ Goes(p, "scan") /\ WriteIntent(p, TRUE, 0) /\ attempt[p].at = "new"
          /\ TRUE \in BOOLEAN /\ 0 \in Nat
      BY <1>1 DEF Announce
    <2>2. records'[p].ticket = 0
      BY <1>0, <2>1, WriteProperties
    <2> QED
      BY <1>0, <1>a, <1>b, <2>1, <2>2, GoesMeans DEF Choosing
  <1>2. CASE Collect(p)
    <2> DEFINE k == keys[attempt[p].passed + 1]
               r == IF k \in Attempts THEN Append(attempt[p].toRead, k) ELSE attempt[p].toRead
               n == attempt[p].passed + 1
    <2>1. attempt'[p] = [attempt[p] EXCEPT !.passed = n, !.toRead = r]
      BY <1>0, <1>2 DEF Collect, Doing
    <2> HIDE DEF n, r
    <2>2. /\ attempt'[p].at = attempt[p].at
          /\ attempt'[p].round = attempt[p].round
          /\ attempt'[p].found = attempt[p].found
          /\ attempt'[p].ticket = attempt[p].ticket
      BY <1>0, <2>1 DEF Doing
    <2>3. UNCHANGED records
      BY <1>2 DEF Collect
    <2> QED
      BY <1>c, <2>2, <2>3 DEF Choosing
  <1>3. CASE Collected(p)
    <2>1. Goes(p, "read") /\ UNCHANGED records /\ attempt[p].at = "collect"
      BY <1>3 DEF Collected
    <2> QED
      BY <1>0, <1>c, <2>1, GoesMeans DEF Choosing, Scanning
  <1>4. CASE Read(p)
    <2> DEFINE k == Head(attempt[p].toRead)
               c == [owner |-> k, choosing |-> records[k].choosing, ticket |-> records[k].ticket]
               f == attempt[p].found \cup {c}
    <2>1. UNCHANGED records /\ attempt[p].at = "read"
      BY <1>4 DEF Read
    <2>2. CASE k \in DOMAIN records /\ attempt' = [attempt EXCEPT ![p].toRead = Tail(@),
                                                                  ![p].found = f]
      <3>1. \A d \in f : d \in attempt[p].found \/ \E j \in DOMAIN records : d.ticket = records[j].ticket
        BY <2>2
      <3> HIDE DEF f
      <3>2. /\ attempt'[p].at = attempt[p].at
            /\ attempt'[p].round = attempt[p].round
            /\ attempt'[p].found = f
            /\ attempt'[p].ticket = attempt[p].ticket
        BY <1>0, <2>2 DEF Doing
      <3> HIDE DEF c, k
      <3>3. Choosing(p)' => Choosing(p)
        BY <3>2 DEF Choosing
      <3> QED
        BY <1>0, <1>a, <1>b, <2>1, <3>1, <3>2, <3>3
    <2>3. CASE Goes(p, "drop")
      <3> HIDE DEF c, f, k
      <3> QED
        BY <1>0, <1>c, <2>1, <2>3, GoesMeans DEF Choosing, Scanning
    <2>4. \/ k \in DOMAIN records /\ attempt' = [attempt EXCEPT ![p].toRead = Tail(@),
                                                                ![p].found = f]
          \/ Goes(p, "drop")
      BY <1>0, <1>4 DEF Read, LiveTo
    <2> QED
      BY <2>2, <2>3, <2>4
  <1>5. CASE Drop(p)
    <2>1. attempt'[p] = [attempt[p] EXCEPT !.at = "read", !.toRead = Tail(@)]
          /\ attempt[p].at = "drop"
      BY <1>5 DEF Drop
    <2>2. /\ attempt'[p].at = "read"
          /\ attempt'[p].round = attempt[p].round
          /\ attempt'[p].found = attempt[p].found
          /\ attempt'[p].ticket = attempt[p].ticket
      BY <1>0, <2>1 DEF Doing
    <2>3. p \in DOMAIN records' => p \in DOMAIN records /\ records'[p] = records[p]
      BY <1>5 DEF Drop, Removed
    <2>4. Choosing(p)' => Choosing(p)
      BY <2>1, <2>2 DEF Choosing, Scanning
    <2> QED
      BY <1>0, <1>a, <1>b, <2>1, <2>2, <2>3, <2>4
  <1>6. CASE TakeTicket(p) \/ Renew(p)
    BY <1>d, <1>6 DEF TakeTicket, Renew
  <1>9. CASE Draw(p)
    <2>1. /\ UNCHANGED records
          /\ attempt[p].at = "read" /\ attempt[p].round = 1
          /\ attempt'[p].at = "ticket"
          /\ attempt'[p].found = {}
          /\ attempt'[p].ticket \in 1..(Cardinality(Taken) + 1)
      BY <1>0, <1>9, DrawMeans
    <2>2. p \notin Taken
      BY <1>0, <1>a, <2>1 DEF Choosing, Scanning
    <2>3. p \in Taken'
      BY <1>b, <2>1, TakenCounted
    <2> QED
      BY <2>1, <2>2, <2>3, TakenCounted DEF Choosing, Scanning
  <1>16. CASE Look(p)
    <2>1. UNCHANGED records
      BY <1>16 DEF Look
    <2> QED
      BY <1>0, <1>f, <1>16, <2>1 DEF Look
  <1>7. CASE Judge(p)
    <2>1. /\ attempt[p].at = "read" /\ UNCHANGED records
          /\ attempt'[p] = Scanned(p, "leave") \/ attempt'[p] = Scanned(p, "critical")
      BY <1>0, <1>7 DEF Judge, ReadAll
    <2> QED
      BY <1>0, <1>c, <2>1, ScannedMeans DEF Choosing, Scanning
  <1>e. ASSUME Loses(p), UNCHANGED records, attempt[p].at \in Inside \ {"leave"}
        PROVE  /\ p \in Taken => p \in Taken'
               /\ attempt'[p].ticket = attempt[p].ticket
               /\ attempt'[p].found = {}
               /\ ~Choosing(p)'
    BY <1>0, <1>a, <1>b, <1>e, LosesMeans DEF Choosing, Scanning, Inside
  <1>8. CASE Refresh(p)
    <2>1. UNCHANGED records /\ attempt[p].at = "refresh"
      BY <1>8 DEF Refresh
    <2>2. CASE ReadsClock(p, "renew")
      BY <1>0, <1>f, <2>1, <2>2
    <2>3. CASE Loses(p)
      BY <1>e, <2>1, <2>3 DEF Inside
    <2> QED
      BY <1>8, <2>2, <2>3 DEF Refresh
  <1>10. CASE Confirm(p)
    <2>1. UNCHANGED records /\ attempt[p].at = "confirm"
      BY <1>10 DEF Confirm
    <2>2. CASE attempt' = [attempt EXCEPT ![p].at = "scan", ![p].round = 2]
      <3>1. /\ attempt'[p].at = "scan" /\ attempt'[p].round = 2
            /\ attempt'[p].found = attempt[p].found
            /\ attempt'[p].ticket = attempt[p].ticket
        BY <1>0, <2>2 DEF Doing
      <3> QED
        BY <1>c, <2>1, <3>1 DEF Choosing
    <2>3. CASE Goes(p, "critical")
      BY <1>0, <1>c, <2>1, <2>3, GoesMeans DEF Choosing, Scanning
    <2>4. CASE Loses(p)
      BY <1>e, <2>1, <2>4 DEF Inside
    <2> QED
      BY <1>10, <2>2, <2>3, <2>4 DEF Confirm
  <1>11. CASE Throw(p)
    BY <1>e, <1>11 DEF Throw
  <1>12. CASE StartBlock(p)
    <2>1. UNCHANGED records /\ attempt[p].at = "critical"
      BY <1>12 DEF StartBlock
    <2>2. PICK aim \in {"beat", "assert"} :
            attempt' = [attempt EXCEPT ![p].at = "refresh", ![p].aim = aim]
      BY <1>12 DEF StartBlock
    <2>3. /\ attempt'[p].at = "refresh"
          /\ attempt'[p].found = attempt[p].found
          /\ attempt'[p].ticket = attempt[p].ticket
      BY <1>0, <2>2 DEF Doing
    <2> QED
      BY <1>c, <2>1, <2>3 DEF Choosing, Scanning
  <1>13. CASE Finish(p)
    <2>1. UNCHANGED records /\ attempt[p].at = "critical" /\ Goes(p, "leave")
      BY <1>13 DEF Finish
    <2> QED
      BY <1>0, <1>c, <2>1, GoesMeans DEF Choosing, Scanning
  <1>14. CASE Leave(p)
    <2>1. attempt'[p] = Over(p, "gone") /\ Removed(p)
      BY <1>14 DEF Leave
    <2>2. p \notin DOMAIN records'
      BY <2>1 DEF Removed
    <2> QED
      BY <1>0, <1>a, <1>b, <2>1, <2>2, OverMeans DEF Choosing, Scanning
  <1>15. CASE Crash(p)
    <2>1. attempt'[p] = Over(p, "crashed") /\ UNCHANGED records
      BY <1>0, <1>15 DEF Crash
    <2> QED
      BY <1>0, <1>a, <1>b, <2>1, OverMeans DEF Choosing, Scanning
  <1> QED
    BY <1>1, <1>2, <1>3, <1>4, <1>5, <1>6, <1>7, <1>8, <1>9, <1>10, <1>11, <1>12, <1>13,
       <1>14, <1>15, <1>16 DEF Step

\* Whoever takes a ticket is counted by it: no ticket, in whatever record or
\* among what was found, is above the number of those who have taken one.
LEMMA BoundedKept ==
  ASSUME LockInv, [Next]_vars
  PROVE  Bounded'
PROOF
  <1> DEFINE N == Cardinality(Taken)
             M == Cardinality(Taken')
  <1>0. /\ Shape /\ Bounded /\ Shape' /\ attempt \in [Attempts -> Doing]
        /\ attempt' \in [Attempts -> Doing]
        /\ N \in Nat /\ IsFiniteSet(Taken)
    BY ShapeKept, TakenCounted DEF LockInv, Shape
  <1>1. IsFiniteSet(Taken') /\ M \in Nat
    <2>1. Taken' \in SUBSET Attempts /\ IsFiniteSet(Attempts)
      BY LockAssumption DEF Taken
    <2>2. IsFiniteSet(Taken')
      BY <2>1, FS_Subset
    <2> QED
      BY <2>2, FS_CardinalityType
  <1>2. /\ \A q \in Attempts : attempt[q].ticket \in Nat /\ attempt'[q].ticket \in Nat
        /\ \A q \in DOMAIN records : records[q].ticket \in Nat
        /\ \A q \in Attempts : \A c \in attempt[q].found : c.ticket \in Nat
    BY <1>0 DEF Shape, Doing, Intents, Contenders
  <1>3. ASSUME Taken \subseteq Taken' PROVE N <= M
    <2>1. Taken \in SUBSET Taken'
      BY <1>3
    <2> QED
      BY <1>1, <2>1, FS_Subset
  <1>4. ASSUME NEW p \in Attempts, Step(p)
        PROVE  Bounded'
    <2>1. \A q \in Attempts : q # p => Bystands(q)
      BY <1>4, OthersStand
    <2>2. /\ p \in Taken => p \in Taken'
          /\ \/ attempt'[p].ticket \in {attempt[p].ticket, 0}
             \/ p \notin Taken /\ p \in Taken' /\ attempt'[p].ticket <= N + 1
          /\ \A c \in attempt'[p].found :
               c \in attempt[p].found \/ \E k \in DOMAIN records : c.ticket = records[k].ticket
          /\ Choosing(p)' => attempt'[p].ticket = 0
          /\ p \in DOMAIN records' =>
               \/ p \in DOMAIN records /\ records'[p] = records[p]
               \/ records'[p].ticket \in {0, attempt'[p].ticket}
      BY <1>4, TicketOfActor
    <2>3. \A q \in Attempts : q # p =>
            /\ q \in Taken => q \in Taken'
            /\ attempt'[q].ticket = attempt[q].ticket
            /\ attempt'[q].found = attempt[q].found
            /\ attempt'[q].at = attempt[q].at
            /\ Choosing(q)' <=> Choosing(q)
      BY <2>1 DEF Bystands, Taken, Choosing
    <2>4. Taken \subseteq Taken'
      BY <2>2, <2>3 DEF Taken
    <2>5. N <= M
      BY <1>3, <2>4
    <2>6. p \notin Taken /\ p \in Taken' => N + 1 <= M
      <3> SUFFICES ASSUME p \notin Taken, p \in Taken' PROVE N + 1 <= M
        OBVIOUS
      <3>1. Cardinality(Taken \cup {p}) = N + 1
        BY <1>0, FS_AddElement
      <3>2. Taken \cup {p} \in SUBSET Taken'
        BY <2>4
      <3> QED
        BY <1>1, <3>1, <3>2, FS_Subset
    <2> HIDE DEF N, M
    <2>7. ASSUME NEW q \in Attempts
          PROVE  attempt'[q].ticket <= M
      <3>1. attempt[q].ticket <= N
        BY <1>0 DEF Bounded, N
      <3>2. CASE q # p
        BY <1>0, <1>1, <1>2, <2>3, <2>5, <3>1, <3>2
      <3>3. CASE q = p /\ attempt'[q].ticket \in {attempt[q].ticket, 0}
        BY <1>0, <1>1, <1>2, <2>5, <3>1, <3>3
      <3>4. CASE q = p /\ p \notin Taken /\ p \in Taken' /\ attempt'[p].ticket <= N + 1
        BY <1>0, <1>1, <1>2, <2>6, <3>4
      <3> QED
        BY <2>2, <3>2, <3>3, <3>4
    <2>8. ASSUME NEW q \in DOMAIN records
          PROVE  records[q].ticket <= M
      <3>1. records[q].ticket <= N
        BY <1>0 DEF Bounded, N
      <3> QED
        BY <1>0, <1>1, <1>2, <2>5, <3>1
    <2>9. ASSUME NEW q \in DOMAIN records'
          PROVE  records'[q].ticket <= M
      <3>1. q \in Attempts
        BY <1>0 DEF Shape
      <3>2. CASE q # p
        BY <2>1, <2>8, <3>1, <3>2 DEF Bystands
      <3>3. CASE q = p
        BY <1>1, <2>2, <2>7, <2>8, <3>1, <3>3
      <3> QED
        BY <3>2, <3>3
    <2>10. ASSUME NEW q \in Attempts, NEW c \in attempt'[q].found
           PROVE  c.ticket <= M
      <3>1. CASE c \in attempt[q].found
        <4>1. c.ticket <= N
          BY <1>0, <3>1 DEF Bounded, N
        <4> QED
          BY <1>0, <1>1, <1>2, <2>5, <3>1, <4>1
      <3>2. CASE \E k \in DOMAIN records : c.ticket = records[k].ticket
        BY <2>8, <3>2
      <3> QED
        BY <2>2, <2>3, <2>10, <3>1, <3>2
    <2>11. ASSUME NEW q \in Attempts, Choosing(q)' \/ attempt'[q].at = "new"
           PROVE  attempt'[q].ticket = 0
      <3>1. attempt'[q].at = "new" => attempt[q].at = "new"
        BY <1>4, NeverNewAgain DEF Next
      <3>2. attempt'[p].at # "new"
        <4>1. Step(p) => attempt[p].at # "new" \/ Announce(p)
          BY DEF Step, Look, Collect, Collected, Read, Drop, Draw, Draws, TakeTicket, Judge,
                 ReadAll, Refresh, Renew, Confirm, Throw, Inside, StartBlock, Finish, Leave,
                 Crash
        <4>2. Announce(p) => attempt'[p].at # "new"
          BY <1>0, GoesMeans DEF Announce
        <4> QED
          BY <1>4, <4>1, <4>2, NeverNewAgain DEF Next
      <3> QED
        BY <1>0, <2>2, <2>3, <2>11, <3>1, <3>2 DEF Bounded
    <2>12. M = Cardinality(Taken)'
      BY DEF M
    <2> QED
      BY <2>7, <2>9, <2>10, <2>11, <2>12 DEF Bounded
  <1>5. ASSUME UNCHANGED attempt, UNCHANGED records
        PROVE  Bounded'
    <2>1. Taken' = Taken
      BY <1>5 DEF Taken
    <2>2. \A q \in Attempts : Choosing(q)' <=> Choosing(q)
      BY <1>5 DEF Choosing
    <2> QED
      BY <1>0, <1>5, <2>1, <2>2 DEF Bounded
  <1>6. CASE Forget
    <2>1. \A q \in Attempts : Bystands(q)
      BY <1>6, ForgetStands
    <2>2. Taken' = Taken
      BY <2>1 DEF Taken, Bystands
    <2>3. \A q \in Attempts : Choosing(q)' <=> Choosing(q)
      BY <2>1 DEF Bystands, Choosing
    <2>4. \A q \in DOMAIN records' : q \in DOMAIN records /\ records'[q] = records[q]
      BY <1>0, <2>1 DEF Bystands, Shape
    <2> QED
      BY <1>0, <2>1, <2>2, <2>3, <2>4 DEF Bounded, Bystands
  <1> QED
    BY <1>4, <1>5, <1>6 DEF Next, Tick, vars

-------------------------------------------------------------------------------
(* Nobody is overlooked *)

\* What an attempt has yet to come to, it still has to after a step of
\* another, unless that made it miss an item.
LEMMA AheadStays ==
  ASSUME LockInv, NEW a \in Attempts, NEW x \in Attempts, Bystands(a),
         (\E p \in Attempts : p # a /\ Step(p)) \/ Forget,
         x \in DOMAIN records', ~attempt'[a].missed, Ahead(a, x)
  PROVE  Ahead(a, x)'
PROOF
  <1>0. /\ Shape /\ Bounded /\ attempt \in [Attempts -> Doing] /\ attempt[a] \in Doing
        /\ attempt[a].passed \in Nat
        /\ attempt'[a].at = attempt[a].at
        /\ attempt'[a].passed = attempt[a].passed
        /\ attempt'[a].toRead = attempt[a].toRead
    BY DEF LockInv, Shape, Doing, Bystands
  <1>1. ASSUME attempt[a].at = "collect", Beyond(keys, attempt[a].passed, x)
        PROVE  Beyond(keys', attempt[a].passed, x)
    <2>1. ASSUME NEW k \in Attempts \cup Foreign, Removed(k),
                 a \in Overtaken(k) => attempt'[a].missed
          PROVE  Beyond(keys', attempt[a].passed, x)
      <3>1. x # k
        BY <2>1 DEF Removed
      <3>2. a \notin Overtaken(k)
        BY <2>1
      <3> QED
        BY <1>0, <1>1, <2>1, <3>1, <3>2, RemovedProperties
    <2>2. ASSUME NEW p \in Attempts, NEW choosing \in BOOLEAN, NEW ticket \in Nat,
                 WriteIntent(p, choosing, ticket)
          PROVE  Beyond(keys', attempt[a].passed, x)
      <3>1. \A n \in Nat : \A y : Beyond(keys, n, y) => Beyond(keys', n, y)
        BY <1>0, <2>2, WriteProperties
      <3> QED
        BY <1>0, <1>1, <3>1
    <2>3. \A r \in Attempts : [attempt[r] EXCEPT !.missed = TRUE].missed = TRUE
      BY <1>0 DEF Doing
    <2>4. ASSUME NEW p \in Attempts, p # a, Step(p)
          PROVE  Beyond(keys', attempt[a].passed, x)
      <3>0. StageMeans(p) /\ attempt[p] \in Doing
        BY <1>0 DEF LockInv
      <3>1. CASE UNCHANGED keys
        BY <1>1, <3>1
      <3>2. CASE Announce(p)
        <4>1. TRUE \in BOOLEAN /\ 0 \in Nat
          OBVIOUS
        <4> QED
          BY <2>2, <3>2, <4>1 DEF Announce
      <3>3. CASE TakeTicket(p) \/ Renew(p)
        <4>1. PICK stage \in Resting \cup Inside : Rewrite(p, stage)
          BY <3>3 DEF TakeTicket, Renew, Inside
        <4>2. /\ WriteIntent(p, FALSE, attempt[p].ticket)
              /\ attempt[p].ticket \in Nat /\ FALSE \in BOOLEAN
          BY <1>0, <4>1, RewriteMeans
        <4> QED
          BY <2>2, <4>2
      <3>5. CASE Drop(p)
        <4> DEFINE k == Head(attempt[p].toRead)
        <4>1. attempt[p].toRead # <<>> /\ attempt[p].toRead \in Seq(Attempts)
          BY <3>0, <3>5 DEF Drop, StageMeans, Doing
        <4>2. k \in Attempts
          BY <4>1, HeadTailProperties
        <4>3. Removed(k) /\ (a \in Overtaken(k) => attempt'[a].missed)
          BY <2>3, <2>4, <3>5 DEF Drop
        <4> HIDE DEF k
        <4> QED
          BY <2>1, <4>2, <4>3
      <3>6. CASE Leave(p)
        <4>1. Removed(p) /\ (a \in Overtaken(p) => attempt'[a].missed)
          BY <2>3, <2>4, <3>6 DEF Leave
        <4> QED
          BY <2>1, <4>1
      <3> QED
        BY <2>4, <3>1, <3>2, <3>3, <3>5, <3>6
        DEF Step, Look, Collect, Collected, Read, Draw, Draws, Judge, Refresh, Confirm, Throw,
            StartBlock, Finish, Crash
    <2>5. CASE Forget
      <3>1. PICK k \in Foreign : Removed(k) /\ (a \in Overtaken(k) => attempt'[a].missed)
        BY <2>3, <2>5 DEF Forget
      <3> QED
        BY <2>1, <3>1
    <2> QED
      BY <2>4, <2>5
  <1> QED
    BY <1>0, <1>1 DEF Ahead

\* The key of a record is in storage.
LEMMA InStorage ==
  ASSUME Shape, NEW q \in DOMAIN records
  PROVE  Beyond(keys, 0, q)
PROOF
  <1>1. keys \in Seq(Attempts \cup Foreign) /\ q \in ToSet(keys)
    BY DEF Shape
  <1>2. DOMAIN keys = 1..Len(keys)
    BY <1>1, LenProperties
  <1>3. PICK i \in DOMAIN keys : keys[i] = q
    BY <1>1 DEF ToSet
  <1> QED
    BY <1>2, <1>3 DEF Beyond

\* A step of a scan comes to nothing without reading it, and forgets nothing.
LEMMA ScanGoesOn ==
  ASSUME LockInv, NEW a \in Attempts,
         Look(a) \/ Collect(a) \/ Collected(a) \/ Read(a) \/ Drop(a)
  PROVE  /\ attempt[a].at \in Scanning /\ attempt'[a].at \in Scanning
         /\ attempt'[a].round = attempt[a].round
         /\ attempt'[a].ticket = attempt[a].ticket
         /\ attempt'[a].aim = attempt[a].aim
         /\ attempt'[a].missed = attempt[a].missed
         /\ attempt'[a].lapsed = attempt[a].lapsed
         /\ attempt[a].found \subseteq attempt'[a].found
         /\ now' = now
         /\ \A y \in DOMAIN records' : y \in DOMAIN records /\ records'[y] = records[y]
         /\ \A x \in Attempts :
              HasLive(x) /\ x \in DOMAIN records' /\ Ahead(a, x)
                => \/ Ahead(a, x)'
                   \/ \E c \in attempt'[a].found :
                        /\ c.owner = x
                        /\ c.choosing = records[x].choosing
                        /\ c.ticket = records[x].ticket
PROOF
  <1>0. /\ Shape /\ attempt \in [Attempts -> Doing] /\ attempt[a] \in Doing
        /\ attempt[a].passed \in Nat /\ attempt[a].toRead \in Seq(Attempts)
        /\ StageMeans(a)
        /\ keys \in Seq(Attempts \cup Foreign)
    BY DEF LockInv, Shape, Doing
  <1>k. DOMAIN keys = 1..Len(keys) /\ Len(keys) \in Nat
    BY <1>0, LenProperties
  <1>1. CASE Collect(a)
    <2> DEFINE k == keys[attempt[a].passed + 1]
               r == IF k \in Attempts THEN Append(attempt[a].toRead, k) ELSE attempt[a].toRead
               n == attempt[a].passed + 1
    <2>1. /\ attempt'[a] = [attempt[a] EXCEPT !.passed = n, !.toRead = r]
          /\ attempt[a].at = "collect" /\ UNCHANGED <<now, keys, records>>
      BY <1>0, <1>1 DEF Collect, Doing
    <2>2. ToSet(attempt[a].toRead) \subseteq ToSet(r) /\ (k \in Attempts => k \in ToSet(r))
      <3>1. k \in Attempts => ToSet(Append(attempt[a].toRead, k)) = ToSet(attempt[a].toRead) \cup {k}
        BY <1>0, AppendElements
      <3> HIDE DEF k
      <3> QED
        BY <3>1
    <2> HIDE DEF r
    <2>3. /\ attempt'[a].at = "collect" /\ attempt'[a].round = attempt[a].round
          /\ attempt'[a].ticket = attempt[a].ticket /\ attempt'[a].aim = attempt[a].aim
          /\ attempt'[a].missed = attempt[a].missed /\ attempt'[a].found = attempt[a].found
          /\ attempt'[a].lapsed = attempt[a].lapsed
          /\ attempt'[a].passed = n /\ attempt'[a].toRead = r
      <3> HIDE DEF n
      <3> QED
        BY <1>0, <2>1 DEF Doing
    <2>4. ASSUME NEW x \in Attempts, Ahead(a, x)
          PROVE  Ahead(a, x)'
      <3>1. CASE Beyond(keys, attempt[a].passed, x)
        <4>1. PICK i \in DOMAIN keys : i > attempt[a].passed /\ keys[i] = x
          BY <3>1 DEF Beyond
        <4>2. CASE i = n
          <5>1. x = k
            BY <4>1, <4>2
          <5>2. x \in ToSet(r)
            BY <2>2, <5>1
          <5> QED
            BY <2>3, <5>2 DEF Ahead
        <4>3. CASE i # n
          <5>1. i > n
            BY <1>0, <1>k, <4>1, <4>3
          <5>2. Beyond(keys, n, x)
            BY <4>1, <5>1 DEF Beyond
          <5> HIDE DEF n
          <5> QED
            BY <2>1, <2>3, <5>2 DEF Ahead
        <4> QED
          BY <4>2, <4>3
      <3>2. CASE x \in ToSet(attempt[a].toRead)
        BY <2>2, <2>3, <3>2 DEF Ahead
      <3> QED
        BY <2>1, <2>4, <3>1, <3>2 DEF Ahead
    <2> QED
      BY <2>1, <2>3, <2>4 DEF Scanning
  <1>2. CASE Collected(a)
    <2>1. /\ attempt[a].at = "collect" /\ Goes(a, "read") /\ UNCHANGED <<now, keys, records>>
          /\ attempt[a].passed >= Len(keys)
      BY <1>2 DEF Collected
    <2>2. \A x : ~Beyond(keys, attempt[a].passed, x)
      BY <1>0, <1>k, <2>1 DEF Beyond
    <2> QED
      BY <1>0, <2>1, <2>2, GoesMeans DEF Ahead, Scanning
  <1>3. CASE Read(a)
    <2> DEFINE k == Head(attempt[a].toRead)
               c == [owner |-> k, choosing |-> records[k].choosing, ticket |-> records[k].ticket]
               f == attempt[a].found \cup {c}
    <2>1. /\ attempt[a].at = "read" /\ attempt[a].toRead # <<>>
          /\ UNCHANGED <<now, keys, records>>
      BY <1>3 DEF Read
    <2>2. CASE /\ k \in DOMAIN records
               /\ attempt' = [attempt EXCEPT ![a].toRead = Tail(@), ![a].found = f]
      <3>1. /\ attempt[a].found \subseteq f
            /\ c \in f /\ c.owner = k
            /\ c.choosing = records[k].choosing /\ c.ticket = records[k].ticket
        OBVIOUS
      <3> HIDE DEF f
      <3>2. /\ attempt'[a].at = attempt[a].at
            /\ attempt'[a].round = attempt[a].round
            /\ attempt'[a].ticket = attempt[a].ticket
            /\ attempt'[a].aim = attempt[a].aim
            /\ attempt'[a].missed = attempt[a].missed
            /\ attempt'[a].lapsed = attempt[a].lapsed
            /\ attempt'[a].found = f
            /\ attempt'[a].toRead = Tail(attempt[a].toRead)
        BY <1>0, <2>2 DEF Doing
      <3>3. \A x \in ToSet(attempt[a].toRead) : x = k \/ x \in ToSet(Tail(attempt[a].toRead))
        BY <1>0, <2>1, HeadAndTail
      <3> HIDE DEF k, c
      <3>4. ASSUME NEW x \in Attempts, Ahead(a, x)
            PROVE  \/ Ahead(a, x)'
                   \/ \E d \in f : /\ d.owner = x
                                   /\ d.choosing = records[x].choosing
                                   /\ d.ticket = records[x].ticket
        <4>1. x \in ToSet(attempt[a].toRead)
          BY <2>1, <3>4 DEF Ahead
        <4> QED
          BY <3>1, <3>2, <3>3, <4>1 DEF Ahead
      <3> QED
        BY <2>1, <3>1, <3>2, <3>4 DEF Scanning
    <2>3. CASE Goes(a, "drop")
      <3> HIDE DEF k, c, f
      <3>1. \A x \in Attempts : Ahead(a, x) => Ahead(a, x)'
        BY <1>0, <2>1, <2>3, GoesMeans DEF Ahead
      <3> QED
        BY <1>0, <2>1, <2>3, <3>1, GoesMeans DEF Scanning
    <2>4. \/ /\ k \in DOMAIN records
             /\ attempt' = [attempt EXCEPT ![a].toRead = Tail(@), ![a].found = f]
          \/ Goes(a, "drop")
      BY <1>0, <1>3 DEF Read, LiveTo
    <2> QED
      BY <2>2, <2>3, <2>4
  <1>4. CASE Drop(a)
    <2> DEFINE k == Head(attempt[a].toRead)
    <2>1. attempt[a].at = "drop" /\ attempt[a].toRead # <<>> /\ Removed(k) /\ now' = now
      BY <1>0, <1>4 DEF Drop, StageMeans
    <2>2. attempt'[a] = [attempt[a] EXCEPT !.at = "read", !.toRead = Tail(@)]
      BY <1>4 DEF Drop
    <2>3. /\ attempt'[a].at = "read" /\ attempt'[a].round = attempt[a].round
          /\ attempt'[a].ticket = attempt[a].ticket /\ attempt'[a].aim = attempt[a].aim
          /\ attempt'[a].missed = attempt[a].missed /\ attempt'[a].found = attempt[a].found
          /\ attempt'[a].lapsed = attempt[a].lapsed
          /\ attempt'[a].toRead = Tail(attempt[a].toRead)
      BY <1>0, <2>2 DEF Doing
    <2>4. /\ k \notin DOMAIN records'
          /\ \A y \in DOMAIN records' : y \in DOMAIN records /\ records'[y] = records[y]
      BY <2>1 DEF Removed
    <2>5. \A x \in ToSet(attempt[a].toRead) : x = k \/ x \in ToSet(Tail(attempt[a].toRead))
      BY <1>0, <2>1, HeadAndTail
    <2> HIDE DEF k
    <2>6. ASSUME NEW x \in Attempts, x \in DOMAIN records', Ahead(a, x)
          PROVE  Ahead(a, x)'
      <3>1. x \in ToSet(attempt[a].toRead) /\ x # k
        BY <2>1, <2>4, <2>6 DEF Ahead
      <3> QED
        BY <2>3, <2>5, <3>1 DEF Ahead
    <2> QED
      BY <2>1, <2>3, <2>4, <2>6 DEF Scanning
  <1>5. CASE Look(a)
    <2>1. /\ attempt[a].at = "scan" /\ UNCHANGED <<now, keys, records>>
          /\ ReadsClock(a, "collect") /\ "collect" \in Resting \cup Inside /\ now \in Nat
      BY <1>0, <1>5, LockAssumption DEF Look, Inside, Shape
    <2>2. /\ attempt'[a].at = "collect" /\ attempt'[a].round = attempt[a].round
          /\ attempt'[a].ticket = attempt[a].ticket /\ attempt'[a].aim = attempt[a].aim
          /\ attempt'[a].missed = attempt[a].missed /\ attempt'[a].found = attempt[a].found
          /\ attempt'[a].lapsed = attempt[a].lapsed
          /\ attempt'[a].passed = attempt[a].passed
      BY <1>0, <2>1, ReadsClockMeans
    <2>3. attempt'[a].passed = 0
      BY <1>0, <2>1, <2>2 DEF StageMeans
    <2>4. \A x \in DOMAIN records : Ahead(a, x)'
      BY <1>0, <2>1, <2>2, <2>3, InStorage DEF Ahead
    <2> QED
      BY <2>1, <2>2, <2>4 DEF Scanning, HasLive
  <1> QED
    BY <1>1, <1>2, <1>3, <1>4, <1>5

\* Two attempts that a step is not of stay apart.
LEMMA ApartOfBystanders ==
  ASSUME LockInv, NEW p \in Attempts, NEW q \in Attempts,
         Bystands(p), Bystands(q), Apart(p, q),
         Ahead(p, q) /\ q \in DOMAIN records' /\ ~attempt'[p].missed => Ahead(p, q)',
         Ahead(q, p) /\ p \in DOMAIN records' /\ ~attempt'[q].missed => Ahead(q, p)'
  PROVE  Apart(p, q)'
PROOF
  <1> SUFFICES ASSUME Compete(p, q)'
               PROVE  InOrder(p, q)'
    BY DEF Apart
  <1>1. /\ p \in DOMAIN records' /\ q \in DOMAIN records'
        /\ p \in DOMAIN records /\ q \in DOMAIN records
        /\ records'[p] = records[p] /\ records'[q] = records[q]
        /\ ~attempt'[p].missed /\ ~attempt'[q].missed
        /\ Sound(p) /\ Sound(q)
    BY DEF Compete, Owns, HasLive, Sound, Bystands
  <1>2. (Rescans(p)' <=> Rescans(p)) /\ (Choosing(q)' <=> Choosing(q))
        /\ (Through(p)' <=> Through(p))
    BY DEF Bystands, Rescans, Choosing, Through
  <1>3. Compete(p, q)
    BY <1>1, <1>2 DEF Compete, Owns, HasLive, Live, Bystands
  <1>4. /\ Found(p, q) => Found(p, q)'
        /\ Saw(q, p) => Saw(q, p)'
        /\ Drawn(q, p) => Drawn(q, p)'
        /\ After(q, p) => After(q, p)'
    BY <1>1 DEF Found, Saw, Drawn, After, Bystands
  <1> QED
    BY <1>1, <1>2, <1>3, <1>4 DEF Apart, InOrder

\* An attempt past choosing stays apart from the others by its own steps.
LEMMA ApartOfFirst ==
  ASSUME LockInv, NEW p \in Attempts, NEW q \in Attempts, p # q, Step(p)
  PROVE  Apart(p, q)'
PROOF
  <1> SUFFICES ASSUME Compete(p, q)'
               PROVE  InOrder(p, q)'
    BY DEF Apart
  <1>0. /\ Shape /\ Bounded /\ attempt \in [Attempts -> Doing] /\ attempt[p] \in Doing
        /\ StageMeans(p) /\ StageMeans(q) /\ Apart(p, q) /\ Shape'
    <2>1. Shape'
      BY ShapeKept DEF Next
    <2> QED
      BY <2>1 DEF LockInv, Shape
  <1>a. /\ ~attempt'[p].missed /\ ~attempt'[p].lapsed
        /\ ~attempt'[q].missed /\ ~attempt'[q].lapsed
        /\ Rescans(p)' \/ Through(p)'
        /\ attempt'[q].at \in Contending
        /\ p \in DOMAIN records' /\ ~records'[p].choosing
        /\ records'[p].ticket = attempt'[p].ticket /\ records'[p].expires > now'
        /\ q \in DOMAIN records' /\ records'[q].expires > now'
    BY DEF Compete, Owns, HasLive, Live, Sound
  <1>b. Bystands(q)
    BY OthersStand
  <1>c. /\ now' = now /\ attempt'[q].at = attempt[q].at /\ attempt'[q].found = attempt[q].found
        /\ attempt'[q].ticket = attempt[q].ticket
        /\ Sound(q)
        /\ q \in DOMAIN records /\ records'[q] = records[q]
        /\ attempt[q].at \in Contending
        /\ HasLive(q)
        /\ Choosing(q)' <=> Choosing(q)
    BY <1>a, <1>b DEF Bystands, Choosing, HasLive, Live, Sound
  <1>d. Ahead(q, p) => Ahead(q, p)'
    BY <1>a, <1>b, AheadStays
  <1>e. ASSUME Rescans(p) \/ Through(p), Owns(p), Sound(p),
               records'[p].ticket = records[p].ticket,
               Rescans(p) /\ (Ahead(p, q) \/ Found(p, q)) => InOrder(p, q)'
        PROVE  InOrder(p, q)'
    <2>1. Compete(p, q)
      BY <1>c, <1>e DEF Compete
    <2>2. /\ Saw(q, p) => Saw(q, p)'
          /\ Drawn(q, p) => Drawn(q, p)'
          /\ After(q, p) => After(q, p)'
      BY <1>c, <1>e DEF Saw, Drawn, After
    <2> QED
      BY <1>0, <1>c, <1>d, <1>e, <2>1, <2>2 DEF Apart, InOrder
  <1>f. ASSUME UNCHANGED <<now, records>>, attempt'[p].ticket = attempt[p].ticket
        PROVE  Owns(p)
    BY <1>a, <1>f DEF Owns, Live
  <1>1. CASE Announce(p)
    <2>1. attempt'[p].at = "scan" /\ attempt'[p].round = 1
      BY <1>0, <1>1, GoesMeans DEF Announce, StageMeans
    <2> QED
      BY <1>a, <2>1 DEF Rescans, Through
  <1>2. CASE Look(p) \/ Collect(p) \/ Collected(p) \/ Read(p) \/ Drop(p)
    <2>1. /\ attempt[p].at \in Scanning /\ attempt'[p].at \in Scanning
          /\ attempt'[p].round = attempt[p].round
          /\ attempt'[p].ticket = attempt[p].ticket
          /\ Sound(p)
          /\ attempt[p].found \subseteq attempt'[p].found
          /\ \A y \in DOMAIN records' : y \in DOMAIN records /\ records'[y] = records[y]
      BY <1>2, <1>a, ScanGoesOn DEF Sound
    <2>2. HasLive(q) /\ q \in DOMAIN records' /\ Ahead(p, q)
            => \/ Ahead(p, q)'
               \/ \E c \in attempt'[p].found :
                    /\ c.owner = q
                    /\ c.choosing = records[q].choosing
                    /\ c.ticket = records[q].ticket
      BY <1>2, ScanGoesOn
    <2>3. Rescans(p)' /\ Rescans(p)
      BY <1>a, <2>1 DEF Rescans, Through, Scanning
    <2>4. Owns(p) /\ records'[p] = records[p]
      BY <1>a, <1>c, <2>1 DEF Owns, Live
    <2>5. Found(p, q) => Found(p, q)'
      BY <1>c, <2>1 DEF Found
    <2>6. Ahead(p, q) => Ahead(p, q)' \/ Found(p, q)'
      BY <1>0, <1>a, <1>c, <2>2 DEF Found, Shape, Intents
    <2> QED
      BY <1>a, <1>e, <2>1, <2>3, <2>4, <2>5, <2>6 DEF InOrder
  <1>3. CASE Draw(p) \/ TakeTicket(p)
    <2>1. Draw(p) => attempt'[p].at = "ticket"
      BY <1>0, DrawMeans
    <2>2. ASSUME TakeTicket(p) PROVE attempt'[p].at = "refresh" /\ attempt'[p].aim = "enter"
      <3>1. attempt[p].at = "ticket" /\ Rewrite(p, "refresh") /\ "refresh" \in Resting \cup Inside
        BY <2>2 DEF TakeTicket, Inside
      <3>2. attempt'[p].at = "refresh" /\ attempt'[p].aim = attempt[p].aim
        BY <1>0, <3>1, RewriteMeans
      <3> QED
        BY <1>0, <3>1, <3>2 DEF StageMeans
    <2> QED
      BY <1>3, <1>a, <2>1, <2>2 DEF Rescans, Through, Scanning
  <1>4. CASE Judge(p)
    <2>1. /\ attempt[p].at = "read" /\ attempt[p].round = 2 /\ attempt[p].toRead = <<>>
          /\ UNCHANGED <<now, keys, records>>
      BY <1>4 DEF Judge, ReadAll
    <2>2. CASE ~Preceded(p) /\ attempt' = [attempt EXCEPT ![p] = Scanned(p, "critical")]
      <3>1. attempt'[p].ticket = attempt[p].ticket /\ Sound(p)
        BY <1>0, <1>a, <2>2, ScannedMeans DEF Sound
      <3>2. Rescans(p) /\ Owns(p)
        BY <1>f, <2>1, <3>1 DEF Rescans, Scanning
      <3>3. ~Ahead(p, q)
        BY <2>1 DEF Ahead, ToSet
      <3>4. Found(p, q) => After(q, p)'
        <4> SUFFICES ASSUME Found(p, q) PROVE After(q, p)'
          OBVIOUS
        <4>1. PICK c \in attempt[p].found :
                /\ c.owner = q
                /\ c.choosing \/ (~records[q].choosing /\ c.ticket = records[q].ticket)
          BY DEF Found
        <4>2. /\ ~c.choosing
              /\ ~(c.ticket < attempt[p].ticket)
              /\ ~(c.ticket = attempt[p].ticket /\ q < p)
          BY <2>2, <4>1 DEF Preceded
        <4>3. /\ records[p].ticket = attempt[p].ticket /\ records[p].ticket \in Nat
              /\ records[q].ticket \in Nat
              /\ p \in Int /\ q \in Int
          BY <1>0, <1>a, <1>c, <2>1, <3>1, LockAssumption DEF Shape, Intents
        <4>4. After(q, p)
          <5>1. records[p].ticket < records[q].ticket
                  \/ (records[p].ticket = records[q].ticket /\ p < q)
            BY <4>1, <4>2, <4>3
          <5> QED
            BY <4>1, <4>2, <5>1 DEF After
        <4> QED
          BY <2>1, <4>4 DEF After
      <3> QED
        BY <1>a, <1>e, <2>1, <3>1, <3>2, <3>3, <3>4 DEF InOrder
    <2>3. CASE attempt' = [attempt EXCEPT ![p] = Scanned(p, "leave")]
      <3>1. attempt'[p].at = "leave"
        BY <1>0, <2>3, ScannedMeans
      <3> QED
        BY <1>a, <3>1 DEF Rescans, Through, Scanning
    <2> QED
      BY <1>4, <2>2, <2>3 DEF Judge
  <1>g. ASSUME Loses(p), UNCHANGED <<now, records>>, attempt[p].at \in Inside \ {"leave"}
        PROVE  InOrder(p, q)'
    <2>1. /\ attempt'[p].at = IF attempt[p].aim = "beat" THEN "critical" ELSE "leave"
          /\ attempt'[p].ticket = attempt[p].ticket
          /\ Sound(p)
      BY <1>0, <1>a, <1>g, LosesMeans DEF Sound
    <2>2. attempt[p].aim = "beat"
      BY <1>a, <2>1 DEF Rescans, Through, Scanning
    <2>3. attempt[p].at \in {"refresh", "renew", "confirm"} /\ Owns(p)
      BY <1>0, <1>f, <1>g, <2>1, <2>2 DEF StageMeans, Inside, Scanning
    <2>4. Through(p) /\ ~Rescans(p)
      BY <2>2, <2>3 DEF Through, Rescans, Scanning
    <2> QED
      BY <1>a, <1>e, <1>g, <2>1, <2>3, <2>4

  <1>5. CASE Refresh(p)
    <2>1. UNCHANGED <<now, keys, records>> /\ attempt[p].at = "refresh"
      BY <1>5 DEF Refresh
    <2>2. CASE ReadsClock(p, "renew")
      <3>1. /\ attempt'[p].at = "renew" /\ attempt'[p].aim = attempt[p].aim
            /\ attempt'[p].ticket = attempt[p].ticket
            /\ Sound(p)
        <4>1. "renew" \in Resting \cup Inside /\ now \in Nat
          BY <1>0, LockAssumption DEF Inside, Shape
        <4> QED
          BY <1>0, <1>a, <2>2, <4>1, ReadsClockMeans DEF Sound
      <3>2. Through(p) /\ ~Rescans(p) /\ Owns(p)
        BY <1>a, <1>f, <2>1, <3>1 DEF Through, Rescans, Scanning
      <3> QED
        BY <1>a, <1>e, <2>1, <3>1, <3>2
    <2>3. CASE Loses(p)
      BY <1>g, <2>1, <2>3 DEF Inside
    <2> QED
      BY <1>5, <2>2, <2>3 DEF Refresh
  <1>6. CASE Renew(p)
    <2>1. /\ attempt[p].at = "renew" /\ attempt'[p].at = "confirm"
          /\ attempt'[p].aim = attempt[p].aim
          /\ attempt'[p].ticket = attempt[p].ticket
          /\ Sound(p) /\ HasLive(p)
      BY <1>0, <1>6, <1>a, RewriteMeans DEF Renew, Inside, Sound
    <2>2. Through(p) /\ ~Rescans(p) /\ IsOwn(p)
      BY <1>0, <1>a, <2>1 DEF Through, Rescans, Scanning, StageMeans
    <2>3. Owns(p)
      BY <2>1, <2>2 DEF IsOwn, Owns, HasLive
    <2>4. records'[p].ticket = records[p].ticket
      BY <1>a, <2>1, <2>3 DEF Owns
    <2> QED
      BY <1>a, <1>e, <2>1, <2>2, <2>3, <2>4
  <1>7. CASE Confirm(p)
    <2>1. UNCHANGED <<now, keys, records>> /\ attempt[p].at = "confirm"
      BY <1>7 DEF Confirm
    <2>2. CASE attempt' = [attempt EXCEPT ![p].at = "scan", ![p].round = 2]
      <3>1. attempt'[p].at = "scan" /\ attempt'[p].round = 2
        BY <1>0, <2>2 DEF Doing
      <3> QED
        BY <3>1 DEF InOrder, Rescans, Scanning, Ahead
    <2>3. CASE attempt[p].aim # "enter" /\ Goes(p, "critical")
      <3>1. /\ attempt'[p].ticket = attempt[p].ticket
            /\ Sound(p)
        BY <1>0, <1>a, <2>3, GoesMeans DEF Sound
      <3>2. Through(p) /\ ~Rescans(p) /\ Owns(p)
        BY <1>f, <2>1, <2>3, <3>1 DEF Through, Rescans, Scanning
      <3> QED
        BY <1>a, <1>e, <2>1, <3>1, <3>2
    <2>4. CASE Loses(p)
      BY <1>g, <2>1, <2>4 DEF Inside
    <2> QED
      BY <1>7, <2>2, <2>3, <2>4 DEF Confirm
  <1>8. CASE Throw(p)
    BY <1>8, <1>g DEF Throw
  <1>9. CASE StartBlock(p)
    <2>1. UNCHANGED <<now, keys, records>> /\ attempt[p].at = "critical"
      BY <1>9 DEF StartBlock
    <2>2. PICK aim \in {"beat", "assert"} :
            attempt' = [attempt EXCEPT ![p].at = "refresh", ![p].aim = aim]
      BY <1>9 DEF StartBlock
    <2>3. attempt'[p].ticket = attempt[p].ticket /\ Sound(p)
      <3>1. /\ attempt'[p].ticket = attempt[p].ticket
            /\ attempt'[p].missed = attempt[p].missed
            /\ attempt'[p].lapsed = attempt[p].lapsed
        BY <1>0, <2>2 DEF Doing
      <3> QED
        BY <1>a, <3>1 DEF Sound
    <2>4. Through(p) /\ ~Rescans(p) /\ Owns(p)
      BY <1>f, <2>1, <2>3 DEF Through, Rescans, Scanning
    <2> QED
      BY <1>a, <1>e, <2>1, <2>3, <2>4
  <1>10. CASE Finish(p)
    <2>1. attempt'[p].at = "leave"
      BY <1>0, <1>10, GoesMeans DEF Finish
    <2> QED
      BY <1>a, <2>1 DEF Rescans, Through, Scanning
  <1>11. CASE Leave(p) \/ Crash(p)
    <2>1. attempt'[p].at \in {"gone", "crashed"}
      BY <1>0, <1>11, OverMeans DEF Leave, Crash
    <2> QED
      BY <1>a, <2>1 DEF Rescans, Through, Scanning
  <1> QED
    BY <1>1, <1>2, <1>3, <1>4, <1>5, <1>6, <1>7, <1>8, <1>9, <1>10, <1>11 DEF Step

\* An attempt that comes up against one past choosing stays apart from it by
\* its own steps: it announces itself before it scans, and finds the other, or
\* it takes a ticket after that of the other.
LEMMA ApartOfSecond ==
  ASSUME LockInv, NEW p \in Attempts, NEW q \in Attempts, p # q, Step(q)
  PROVE  Apart(p, q)'
PROOF
  <1> SUFFICES ASSUME Compete(p, q)'
               PROVE  InOrder(p, q)'
    BY DEF Apart
  <1>0. /\ Shape /\ Bounded /\ attempt \in [Attempts -> Doing] /\ attempt[q] \in Doing
        /\ StageMeans(p) /\ StageMeans(q) /\ Apart(p, q) /\ Shape'
    <2>1. Shape'
      BY ShapeKept DEF Next
    <2> QED
      BY <2>1 DEF LockInv, Shape
  <1>a. /\ ~attempt'[p].missed /\ ~attempt'[p].lapsed
        /\ ~attempt'[q].missed /\ ~attempt'[q].lapsed
        /\ Rescans(p)' \/ Through(p)'
        /\ attempt'[q].at \in Contending
        /\ p \in DOMAIN records' /\ ~records'[p].choosing
        /\ records'[p].ticket = attempt'[p].ticket /\ records'[p].expires > now'
        /\ q \in DOMAIN records' /\ records'[q].expires > now'
    BY DEF Compete, Owns, HasLive, Live, Sound
  <1>b. Bystands(p)
    BY OthersStand
  <1>c. /\ now' = now /\ attempt'[p].found = attempt[p].found
        /\ Sound(p)
        /\ p \in DOMAIN records /\ records'[p] = records[p]
        /\ Rescans(p) \/ Through(p)
        /\ Rescans(p)' <=> Rescans(p)
        /\ HasLive(p)
        /\ Owns(p)
    BY <1>a, <1>b DEF Bystands, Rescans, Through, HasLive, Owns, Live, Sound
  <1>d. Ahead(p, q) => Ahead(p, q)'
    BY <1>a, <1>b, AheadStays
  <1>e. ASSUME HasLive(q), Sound(q), attempt[q].at \in Contending,
               ~records[q].choosing
                 => ~records'[q].choosing /\ records'[q].ticket = records[q].ticket,
               Choosing(q) /\ (Ahead(q, p) \/ Saw(q, p)) => InOrder(p, q)',
               Drawn(q, p) => InOrder(p, q)',
               Rescans(p) /\ Found(p, q) => Found(p, q)'
        PROVE  InOrder(p, q)'
    <2>1. Compete(p, q)
      BY <1>c, <1>e DEF Compete
    <2>2. After(q, p) => After(q, p)'
      BY <1>c, <1>e DEF After
    <2> QED
      BY <1>0, <1>c, <1>d, <1>e, <2>1, <2>2 DEF Apart, InOrder
  <1>f. ASSUME UNCHANGED <<now, records>>, Sound(q), attempt[q].at \in Contending \ {"ticket"},
               ~Choosing(q)
        PROVE  InOrder(p, q)'
    <2>1. HasLive(q)
      BY <1>a, <1>f DEF HasLive, Live
    <2>2. Found(p, q) => Found(p, q)'
      BY <1>c, <1>f DEF Found
    <2>3. ~Drawn(q, p)
      BY <1>f DEF Drawn
    <2> QED
      BY <1>a, <1>e, <1>f, <2>1, <2>2, <2>3
  <1>1. CASE Announce(q)
    <2>1. attempt'[q].at = "scan" /\ attempt'[q].round = 1
      BY <1>0, <1>1, GoesMeans DEF Announce, StageMeans
    <2> QED
      BY <2>1 DEF InOrder, Choosing, Scanning, Ahead
  <1>2. CASE Look(q) \/ Collect(q) \/ Collected(q) \/ Read(q) \/ Drop(q)
    <2>1. /\ attempt[q].at \in Scanning /\ attempt'[q].at \in Scanning
          /\ attempt'[q].round = attempt[q].round
          /\ Sound(q)
          /\ attempt[q].found \subseteq attempt'[q].found
          /\ \A y \in DOMAIN records' : y \in DOMAIN records /\ records'[y] = records[y]
      BY <1>2, <1>a, ScanGoesOn DEF Sound
    <2>2. HasLive(p) /\ p \in DOMAIN records' /\ Ahead(q, p)
            => \/ Ahead(q, p)'
               \/ \E c \in attempt'[q].found :
                    /\ c.owner = p
                    /\ c.choosing = records[p].choosing
                    /\ c.ticket = records[p].ticket
      BY <1>2, ScanGoesOn
    <2>3. Choosing(q)' <=> Choosing(q)
      BY <2>1 DEF Choosing
    <2>4. records'[q] = records[q] /\ HasLive(q)
      BY <1>a, <1>c, <2>1 DEF HasLive, Live
    <2>5. Saw(q, p) => Saw(q, p)'
      BY <1>c, <2>1 DEF Saw
    <2>6. Ahead(q, p) => Ahead(q, p)' \/ Saw(q, p)'
      BY <1>a, <1>c, <2>2 DEF Saw
    <2>7. Found(p, q) => Found(p, q)'
      BY <1>c, <2>4 DEF Found
    <2>8. ~Drawn(q, p)
      BY <2>1 DEF Drawn, Scanning
    <2>9. attempt[q].at \in Contending
      BY <2>1 DEF Contending
    <2> QED
      BY <1>e, <2>1, <2>3, <2>4, <2>5, <2>6, <2>7, <2>8, <2>9 DEF InOrder
  <1>3. CASE Draw(q)
    <2>1. /\ attempt[q].at = "read" /\ attempt[q].round = 1 /\ attempt[q].toRead = <<>>
          /\ attempt'[q].at = "ticket" /\ UNCHANGED <<now, records>>
          /\ \A c \in attempt[q].found : c.ticket < attempt'[q].ticket
          /\ Sound(q)
      BY <1>0, <1>3, <1>a, DrawMeans DEF Sound
    <2>2. HasLive(q) /\ ~Ahead(q, p) /\ ~Drawn(q, p) /\ attempt[q].at \in Contending
      BY <1>a, <2>1 DEF HasLive, Live, Ahead, ToSet, Drawn, Contending, Scanning
    <2>3. Saw(q, p) => Drawn(q, p)'
      BY <2>1 DEF Saw, Drawn
    <2>4. Found(p, q) => Found(p, q)'
      BY <1>c, <2>1 DEF Found
    <2> QED
      BY <1>e, <2>1, <2>2, <2>3, <2>4 DEF InOrder
  <1>12. CASE TakeTicket(q)
    <2>1. /\ attempt[q].at = "ticket" /\ Sound(q) /\ HasLive(q)
          /\ WriteIntent(q, FALSE, attempt[q].ticket) /\ attempt[q].ticket \in Nat
      BY <1>0, <1>12, <1>a, RewriteMeans DEF TakeTicket, Inside, Sound
    <2>2. ~records'[q].choosing /\ records'[q].ticket = attempt[q].ticket
      BY <1>0, <2>1, WriteProperties
    <2>3. records[q].choosing /\ ~Choosing(q) /\ attempt[q].at \in Contending
      BY <1>0, <2>1 DEF Choosing, Scanning, StageMeans, HasLive, Contending
    <2>4. Drawn(q, p) => After(q, p)'
      BY <1>c, <2>2 DEF Drawn, After
    <2>5. Found(p, q) => Found(p, q)'
      BY <1>c, <2>3 DEF Found
    <2> QED
      BY <1>e, <2>1, <2>3, <2>4, <2>5 DEF InOrder
  <1>4. CASE Judge(q)
    <2>1. /\ attempt[q].at = "read" /\ attempt[q].round = 2 /\ UNCHANGED <<now, keys, records>>
          /\ attempt'[q] = Scanned(q, "leave") \/ attempt'[q] = Scanned(q, "critical")
      BY <1>0, <1>4 DEF Judge, ReadAll
    <2>2. Sound(q)
      BY <1>0, <1>a, <2>1, ScannedMeans DEF Sound
    <2> QED
      BY <1>f, <2>1, <2>2 DEF Choosing, Contending, Scanning
  <1>g. ASSUME Loses(q), UNCHANGED <<now, records>>, attempt[q].at \in Inside \ {"leave"}
        PROVE  InOrder(p, q)'
    <2>1. /\ attempt'[q].at = IF attempt[q].aim = "beat" THEN "critical" ELSE "leave"
          /\ Sound(q)
      BY <1>0, <1>a, <1>g, LosesMeans DEF Sound
    <2>2. attempt[q].aim = "beat"
      BY <1>a, <2>1 DEF Contending, Scanning
    <2>3. attempt[q].at \in {"refresh", "renew", "confirm"}
      BY <1>0, <1>g, <2>2 DEF StageMeans, Inside, Scanning
    <2> QED
      BY <1>f, <1>g, <2>1, <2>3 DEF Choosing, Contending, Scanning
  <1>5. CASE Refresh(q)
    <2>1. UNCHANGED <<now, keys, records>> /\ attempt[q].at = "refresh"
      BY <1>5 DEF Refresh
    <2>2. CASE ReadsClock(q, "renew")
      <3>1. "renew" \in Resting \cup Inside /\ now \in Nat
        BY <1>0, LockAssumption DEF Inside, Shape
      <3>2. Sound(q)
        BY <1>0, <1>a, <2>2, <3>1, ReadsClockMeans DEF Sound
      <3> QED
        BY <1>f, <2>1, <3>2 DEF Choosing, Contending, Scanning
    <2>3. CASE Loses(q)
      BY <1>g, <2>1, <2>3 DEF Inside
    <2> QED
      BY <1>5, <2>2, <2>3 DEF Refresh
  <1>6. CASE Renew(q)
    <2>1. /\ attempt[q].at = "renew" /\ Sound(q) /\ HasLive(q)
          /\ WriteIntent(q, FALSE, attempt[q].ticket) /\ attempt[q].ticket \in Nat
      BY <1>0, <1>6, <1>a, RewriteMeans DEF Renew, Inside, Sound
    <2>2. ~records'[q].choosing /\ records'[q].ticket = attempt[q].ticket
      BY <1>0, <2>1, WriteProperties
    <2>3. records[q].ticket = attempt[q].ticket
      BY <1>0, <2>1 DEF StageMeans, IsOwn, HasLive
    <2>4. ~Choosing(q) /\ ~Drawn(q, p) /\ attempt[q].at \in Contending
      BY <2>1 DEF Choosing, Scanning, Drawn, Contending
    <2>5. Found(p, q) => Found(p, q)'
      BY <1>0, <1>c, <2>1, <2>2, <2>3 DEF Found, StageMeans, IsOwn, HasLive
    <2> QED
      BY <1>e, <2>1, <2>2, <2>3, <2>4, <2>5
  <1>7. CASE Confirm(q)
    <2>1. UNCHANGED <<now, keys, records>> /\ attempt[q].at = "confirm"
      BY <1>7 DEF Confirm
    <2>2. CASE attempt' = [attempt EXCEPT ![q].at = "scan", ![q].round = 2]
      <3>1. attempt'[q].missed = attempt[q].missed /\ attempt'[q].lapsed = attempt[q].lapsed
        BY <1>0, <2>2 DEF Doing
      <3>2. Sound(q)
        BY <1>a, <3>1 DEF Sound
      <3> QED
        BY <1>f, <2>1, <3>2 DEF Choosing, Contending, Scanning
    <2>3. CASE Goes(q, "critical")
      <3>1. Sound(q)
        BY <1>0, <1>a, <2>3, GoesMeans DEF Sound
      <3> QED
        BY <1>f, <2>1, <3>1 DEF Choosing, Contending, Scanning
    <2>4. CASE Loses(q)
      BY <1>g, <2>1, <2>4 DEF Inside
    <2> QED
      BY <1>7, <2>2, <2>3, <2>4 DEF Confirm
  <1>8. CASE Throw(q)
    BY <1>8, <1>g DEF Throw
  <1>9. CASE StartBlock(q)
    <2>1. UNCHANGED <<now, keys, records>> /\ attempt[q].at = "critical"
      BY <1>9 DEF StartBlock
    <2>2. attempt'[q].missed = attempt[q].missed /\ attempt'[q].lapsed = attempt[q].lapsed
      BY <1>0, <1>9 DEF StartBlock, Doing
    <2>3. Sound(q)
      BY <1>a, <2>2 DEF Sound
    <2> QED
      BY <1>f, <2>1, <2>3 DEF Choosing, Contending, Scanning
  <1>10. CASE Finish(q)
    <2>1. attempt'[q].at = "leave"
      BY <1>0, <1>10, GoesMeans DEF Finish
    <2> QED
      BY <1>a, <2>1 DEF Contending, Scanning
  <1>11. CASE Leave(q) \/ Crash(q)
    <2>1. attempt'[q].at \in {"gone", "crashed"}
      BY <1>0, <1>11, OverMeans DEF Leave, Crash
    <2> QED
      BY <1>a, <2>1 DEF Contending, Scanning
  <1> QED
    BY <1>1, <1>2, <1>3, <1>4, <1>5, <1>6, <1>7, <1>8, <1>9, <1>10, <1>11,
       <1>12 DEF Step

\* Every step keeps any two attempts apart.
LEMMA ApartKept ==
  ASSUME LockInv, [Next]_vars, NEW p \in Attempts, NEW q \in Attempts
  PROVE  Apart(p, q)'
PROOF
  <1>0. Apart(p, q)
    BY DEF LockInv
  <1>1. CASE p = q
    BY <1>1 DEF Apart, Compete
  <1>2. ASSUME NEW r \in Attempts, Step(r), p # q
        PROVE  Apart(p, q)'
    <2>1. CASE r = p
      BY <1>2, <2>1, ApartOfFirst
    <2>2. CASE r = q
      BY <1>2, <2>2, ApartOfSecond
    <2>3. CASE r # p /\ r # q
      <3>1. Bystands(p) /\ Bystands(q)
        BY <1>2, <2>3, OthersStand
      <3>2. Ahead(p, q) /\ q \in DOMAIN records' /\ ~attempt'[p].missed => Ahead(p, q)'
        BY <1>2, <2>3, <3>1, AheadStays
      <3>3. Ahead(q, p) /\ p \in DOMAIN records' /\ ~attempt'[q].missed => Ahead(q, p)'
        BY <1>2, <2>3, <3>1, AheadStays
      <3> QED
        BY <1>0, <3>1, <3>2, <3>3, ApartOfBystanders
    <2> QED
      BY <2>1, <2>2, <2>3
  <1>3. CASE Forget
    <2>1. Bystands(p) /\ Bystands(q)
      BY <1>3, ForgetStands
    <2>2. Ahead(p, q) /\ q \in DOMAIN records' /\ ~attempt'[p].missed => Ahead(p, q)'
      BY <1>3, <2>1, AheadStays
    <2>3. Ahead(q, p) /\ p \in DOMAIN records' /\ ~attempt'[q].missed => Ahead(q, p)'
      BY <1>3, <2>1, AheadStays
    <2> QED
      BY <1>0, <2>1, <2>2, <2>3, ApartOfBystanders
  <1>4. CASE Tick
    <2> SUFFICES ASSUME Compete(p, q)' PROVE InOrder(p, q)'
      BY DEF Apart
    <2>1. /\ UNCHANGED <<keys, records, attempt>> /\ now' = now + 1 /\ now \in Nat
      BY <1>4, LockAssumption DEF Tick, LockInv, Shape
    <2>2. /\ p \in DOMAIN records => records[p].expires \in Nat
          /\ q \in DOMAIN records => records[q].expires \in Nat
      BY DEF LockInv, Shape, Intents
    <2>3. HasLive(q) /\ Owns(p)
      BY <2>1, <2>2 DEF Compete, Owns, HasLive, Live
    <2>4. Compete(p, q)
      BY <2>1, <2>3 DEF Compete, Sound, Rescans, Through
    <2>5. InOrder(p, q)
      BY <1>0, <2>4 DEF Apart
    <2> QED
      BY <2>1, <2>5 DEF InOrder, Rescans, Choosing, Ahead, Found, Saw, Drawn, After
  <1>5. CASE UNCHANGED vars
    BY <1>0, <1>5
    DEF vars, Apart, InOrder, Compete, Sound, Rescans, Through, Choosing, Owns, HasLive, Live,
        Ahead, Found, Saw, Drawn, After
  <1> QED
    BY <1>1, <1>2, <1>3, <1>4, <1>5 DEF Next

-------------------------------------------------------------------------------
(* Theorems *)

\* At first there are only foreign items and attempts that have not begun.
LEMMA LockInvAtFirst ==
  Init => LockInv
PROOF
  <1> SUFFICES ASSUME Init PROVE LockInv
    OBVIOUS
  <1> DEFINE n == Cardinality(Foreign)
  <1>1. n \in Nat
    BY FS_CardinalityType, LockAssumption
  <1>2. keys \in [1..n -> Foreign] /\ \A i, j \in 1..n : i # j => keys[i] # keys[j]
    BY DEF Init, SetToSeqs
  <1> HIDE DEF n
  <1>3. keys \in Seq(Foreign) /\ DOMAIN keys = 1..n
    BY <1>1, <1>2
  <1>4. keys \in Seq(Attempts \cup Foreign)
    BY <1>3, SeqMonotonic
  <1>5. ToSet(keys) \cap Attempts = {}
    BY <1>2, <1>3, LockAssumption DEF ToSet
  <1>6. Unmade \in Doing
    <2>1. <<>> \in Seq(Attempts)
      BY EmptySeq
    <2> QED
      BY <2>1 DEF Unmade, Doing, Resting
  <1>7. /\ now = 0 /\ DOMAIN records = {}
        /\ attempt = [p \in Attempts |-> Unmade]
    BY DEF Init
  <1>8. Shape
    <2>1. now \in 0..MaxTime
      BY <1>7, LockAssumption
    <2>2. \A p \in Attempts : attempt[p].asOf = 0
      BY <1>7 DEF Unmade
    <2> QED
      BY <1>2, <1>3, <1>4, <1>5, <1>6, <1>7, <2>1, <2>2 DEF Shape
  <1>9. \A p \in Attempts : /\ attempt[p].at = "new" /\ attempt[p].round = 1
                            /\ attempt[p].passed = 0 /\ attempt[p].toRead = <<>>
                            /\ attempt[p].found = {} /\ attempt[p].ticket = 0
                            /\ attempt[p].aim = "enter"
    BY <1>7 DEF Unmade
  <1>10. ASSUME NEW p \in Attempts
         PROVE  StageMeans(p)
    <2>1. ToSet(<<>>) = {}
      BY DEF ToSet
    <2> QED
      BY <1>7, <1>9, <2>1 DEF StageMeans, Choosing, Rescans, Scanning
  <1>11. Bounded
    BY <1>7, <1>9, TakenCounted DEF Bounded
  <1>12. ASSUME NEW p \in Attempts, NEW q \in Attempts
         PROVE  Apart(p, q)
    BY <1>9 DEF Apart, Compete, Contending, Scanning
  <1> QED
    BY <1>8, <1>10, <1>11, <1>12 DEF LockInv

\* The inductive invariant of the lock.
THEOREM LockInvHolds ==
  Spec => []LockInv
PROOF
  <1>1. LockInv /\ [Next]_vars => LockInv'
    <2> SUFFICES ASSUME LockInv, [Next]_vars PROVE LockInv'
      OBVIOUS
    <2>1. Shape' /\ Bounded'
      BY ShapeKept, BoundedKept
    <2>2. \A q \in Attempts : StageMeans(q)'
      BY StagesKept
    <2>3. \A p, q \in Attempts : Apart(p, q)'
      BY ApartKept
    <2> QED
      BY <2>1, <2>2, <2>3 DEF LockInv
  <1> QED
    BY <1>1, LockInvAtFirst, PTL DEF Spec

\* The state always has the type of one, tickets and leases keep to their
\* bounds, and there is a record for just the keys in localStorage that are of
\* attempts.
THEOREM LockTypesCorrect ==
  Spec => []LockTypeOK
PROOF
  <1>1. LockInv => LockTypeOK
    <2> SUFFICES ASSUME LockInv PROVE LockTypeOK
      OBVIOUS
    <2>0. /\ Shape /\ Bounded /\ now \in 0..MaxTime /\ Lease \in Nat /\ MaxTime \in Nat
          /\ keys \in Seq(Attempts \cup Foreign)
      BY LockAssumption DEF LockInv, Shape
    <2>1. ToSet(keys) \subseteq Attempts \cup Foreign
      BY <2>0, ElementOfSeq, LenProperties DEF ToSet
    <2>2. ASSUME NEW p \in DOMAIN records
          PROVE  /\ records[p].choosing \in BOOLEAN
                 /\ records[p].ticket \in 0..Cardinality(Attempts)
                 /\ records[p].expires \in 0..(MaxTime + Lease)
      <3>1. /\ records[p].choosing \in BOOLEAN /\ records[p].ticket \in Nat
            /\ records[p].expires \in Nat /\ records[p].expires <= now + Lease
        BY <2>0 DEF Shape, Intents
      <3>2. records[p].ticket <= Cardinality(Taken)
        BY <2>0 DEF Bounded
      <3> QED
        BY <2>0, <3>1, <3>2, TakenCounted
    <2>3. \A p \in Attempts : attempt[p].at \in Resting \cup Inside
      BY <2>0 DEF Shape, Doing
    <2> QED
      BY <2>0, <2>1, <2>2, <2>3 DEF LockTypeOK, Shape
  <1> QED
    BY <1>1, LockInvHolds, PTL

\* Two attempts never both hold the lock, unless one of them missed an item
\* that was moved while it was collecting keys, or wrote its record when the
\* lease before had ended.
THEOREM HoldersAreAlone ==
  Spec => []OneHolderUnlessMissedOrLapsed
PROOF
  <1>1. LockInv => OneHolderUnlessMissedOrLapsed
    <2> SUFFICES ASSUME LockInv, NEW p \in Attempts, NEW q \in Attempts,
                        Holds(p), Holds(q), p # q, Sound(p), Sound(q)
                 PROVE  FALSE
      BY DEF OneHolderUnlessMissedOrLapsed, Sound
    <2>1. /\ Through(p) /\ Through(q) /\ Owns(p) /\ Owns(q)
          /\ attempt[p].at \in {"refresh", "renew", "confirm", "critical"}
          /\ attempt[q].at \in {"refresh", "renew", "confirm", "critical"}
      BY DEF Holds, Through
    <2>2. Compete(p, q) /\ Compete(q, p)
      BY <2>1 DEF Compete, Contending, Owns, HasLive
    <2>3. /\ ~Rescans(p) /\ ~Rescans(q) /\ ~Choosing(p) /\ ~Choosing(q)
          /\ ~Drawn(p, q) /\ ~Drawn(q, p)
      BY <2>1 DEF Rescans, Choosing, Scanning, Drawn
    <2>4. After(q, p) /\ After(p, q)
      BY <2>2, <2>3 DEF LockInv, Apart, InOrder
    <2>5. records[p].ticket \in Nat /\ records[q].ticket \in Nat /\ p \in Int /\ q \in Int
      BY <2>1, LockAssumption DEF LockInv, Shape, Intents, Owns
    <2> QED
      BY <2>4, <2>5 DEF After
  <1> QED
    BY <1>1, LockInvHolds, PTL

\* An attempt that is over has no record left that keeps others out.
THEOREM NothingIsLeftBehind ==
  Spec => []NothingLeftBehind
PROOF
  <1>1. LockInv => NothingLeftBehind
    BY DEF LockInv, StageMeans, NothingLeftBehind
  <1> QED
    BY <1>1, LockInvHolds, PTL

\* A record that has not been written back after its end is removed by its
\* owner or not at all while its lease lasts; and an attempt in its callback
\* that has lost the lock does not come to own it again, but by the renewal
\* that was on its way.
THEOREM LeasesEndOnce ==
  Spec => LeaseEndsOnce
PROOF
  <1> DEFINE A == \A p \in Attempts :
                    /\ HasLive(p) /\ ~attempt[p].lapsed /\ p \notin DOMAIN records' =>
                         attempt'[p].at = "gone"
                    /\ Begun(p) /\ ~Owns(p) /\ attempt[p].at # "renew" => ~(Owns(p))'
  <1>1. LockInv /\ [Next]_vars => A
    <2> SUFFICES ASSUME LockInv, [Next]_vars, NEW p \in Attempts
                 PROVE  /\ HasLive(p) /\ ~attempt[p].lapsed /\ p \notin DOMAIN records' =>
                             attempt'[p].at = "gone"
                        /\ Begun(p) /\ ~Owns(p) /\ attempt[p].at # "renew" => ~(Owns(p))'
      OBVIOUS
    <2>1. HasLive(p) /\ ~attempt[p].lapsed /\ p \notin DOMAIN records' => attempt'[p].at = "gone"
      BY TakenAwayByOwner
    <2>2. ASSUME Begun(p), ~Owns(p), attempt[p].at # "renew"
          PROVE  ~(Owns(p))'
      <3>1. IsOwn(p) /\ attempt[p].at \notin {"new", "ticket", "renew"}
        BY <2>2 DEF LockInv, StageMeans, Begun
      <3>2. ~HasLive(p)
        BY <2>2, <3>1 DEF IsOwn, Owns, HasLive
      <3>3. ~HasLive(p)'
        BY <3>1, <3>2, DeadStaysDead
      <3> QED
        BY <3>3 DEF HasLive, Owns
    <2> QED
      BY <2>1, <2>2
  <1>2. LockInv /\ [Next]_vars => [A]_vars
    BY <1>1
  <1> HIDE DEF A
  <1>3. Spec => [][A]_vars
    BY <1>2, LockInvHolds, PTL DEF Spec
  <1> QED
    BY <1>3 DEF LeaseEndsOnce, A
===============================================================================

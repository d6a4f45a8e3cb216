---------------------------- MODULE SliteProofs -----------------------------
(***************************************************************************)
(* Theorems about the single-process service in the build with             *)
(* multi-tasking, for every set of applications, every list capacity,      *)
(* every queue, every number and order of requests: tasks and lifecycle    *)
(* messages are serial, the list, the threads and the observer agree, no   *)
(* deleted object is used, and the abilities get the callbacks that module *)
(* OneAbility promises.                                                    *)
(*                                                                         *)
(* The argument: between switches the service is at Rest (the ability on   *)
(* top is in the foreground and nothing is on its way), during a switch it *)
(* is Going (one message or report of the ability that leaves or comes),   *)
(* or Stuck for ever if a full queue has dropped that report.              *)
(* Every operation takes a state at Rest to one that is Fine, at Rest      *)
(* again or in the first step of a switch; a report takes a switch to its  *)
(* next step; and RunOperation goes from Rest through states at Rest until *)
(* one operation starts a switch.                                          *)
(***************************************************************************)
EXTENDS Slite, FiniteSetTheorems, SequenceTheorems, WellFoundedInduction, TLAPS

-----------------------------------------------------------------------------
(* The list of records.                                                    *)

\* The sequence r has the elements of l at the positions S, in their order.
Part(r, l, S) ==
    /\ \A k \in DOMAIN r : \E i \in S : r[k] = l[i]
    /\ \A i \in S : \E k \in DOMAIN r : r[k] = l[i]
    /\ \A k, m \in DOMAIN r : k # m => \E i, j \in S : i # j /\ r[k] = l[i] /\ r[m] = l[j]
    /\ \A a \in S : (\A i \in S : a <= i) => r # <<>> /\ r[1] = l[a]

\* Keep yields a sequence of the records at those positions, in their order.
LEMMA KeepPart ==
    ASSUME NEW R, NEW l \in Seq(R), NEW S \in SUBSET (DOMAIN l)
    PROVE  /\ Keep(l, S) \in Seq(R)
           /\ IsFiniteSet(S) /\ Len(Keep(l, S)) = Cardinality(S) /\ Cardinality(S) <= Len(l)
           /\ Part(Keep(l, S), l, S)
<1>. DEFINE c == Cardinality(S)
            Below(i) == {j \in S : j < i}
            rank == [i \in S |-> Cardinality(Below(i))]
            At(k) == CHOOSE i \in S : Cardinality(Below(i)) = k - 1
            r == Keep(l, S)
<1>0. DOMAIN l = 1..Len(l) /\ Len(l) \in Nat /\ \A i \in S : i \in Nat /\ i >= 1
  OBVIOUS
<1>1. IsFiniteSet(S) /\ c \in Nat /\ c <= Len(l)
  <2>1. IsFiniteSet(1..Len(l)) /\ Cardinality(1..Len(l)) = Len(l)
    BY <1>0, FS_Interval
  <2>. QED
    BY <1>0, <2>1, FS_Subset, FS_CardinalityType
<1>2. \A i \in S : /\ IsFiniteSet(Below(i)) /\ Cardinality(Below(i)) \in Nat
                   /\ Cardinality(Below(i)) <= c - 1
  <2>1. SUFFICES ASSUME NEW i \in S
                 PROVE  /\ IsFiniteSet(Below(i)) /\ Cardinality(Below(i)) \in Nat
                        /\ Cardinality(Below(i)) <= c - 1
    OBVIOUS
  <2>2. IsFiniteSet(S \ {i}) /\ Cardinality(S \ {i}) = c - 1
    BY <1>1, FS_RemoveElement
  <2>3. Below(i) \in SUBSET (S \ {i})
    BY <1>0
  <2>. HIDE DEF Below
  <2>. QED
    BY <2>2, <2>3, FS_Subset, FS_CardinalityType
<1>3. \A i, j \in S : i < j => Cardinality(Below(i)) < Cardinality(Below(j))
  <2>1. SUFFICES ASSUME NEW i \in S, NEW j \in S, i < j
                 PROVE  Cardinality(Below(i)) < Cardinality(Below(j))
    OBVIOUS
  <2>2. /\ Below(i) \in SUBSET Below(j)
        /\ i \in Below(j) /\ i \notin Below(i)
    BY <1>0, <2>1
  <2>3. Below(i) # Below(j)
    BY <2>2
  <2>4. /\ Cardinality(Below(i)) <= Cardinality(Below(j))
        /\ Cardinality(Below(i)) # Cardinality(Below(j))
    <3>. HIDE DEF Below
    <3>. QED
      BY <1>2, <2>2, <2>3, FS_Subset
  <2>. HIDE DEF Below
  <2>. QED
    BY <1>2, <2>4
<1>4. \A k \in 1..c : \E i \in S : Cardinality(Below(i)) = k - 1
  <2>1. rank \in Injection(S, 0..(c - 1))
    <3>1. rank \in [S -> 0..(c - 1)]
      <4>1. \A i \in S : Cardinality(Below(i)) \in 0..(c - 1)
        <5>. HIDE DEF Below, c
        <5>. QED
          BY <1>1, <1>2
      <4>. HIDE DEF Below
      <4>. QED
        BY <4>1
    <3>2. \A i, j \in S : rank[i] = rank[j] => i = j
      <4>. HIDE DEF Below
      <4>1. SUFFICES ASSUME NEW i \in S, NEW j \in S, rank[i] = rank[j], i # j
                     PROVE  FALSE
        OBVIOUS
      <4>2. (i < j \/ j < i) /\ Cardinality(Below(i)) = Cardinality(Below(j))
        BY <1>0, <4>1
      <4>. QED
        BY <1>2, <1>3, <4>2
    <3>. HIDE DEF rank
    <3>. QED
      BY <3>1, <3>2 DEF Injection, IsInjective
  <2>2. IsFiniteSet(0..(c - 1)) /\ Cardinality(0..(c - 1)) = c
    <3>. HIDE DEF c
    <3>1. c - 1 \in Int /\ 0 \in Int /\ (IF 0 > c - 1 THEN 0 ELSE (c - 1) - 0 + 1) = c
      BY <1>1
    <3>. QED
      BY <3>1, FS_Interval
  <2>3. rank \in Surjection(S, 0..(c - 1))
    <3>. HIDE DEF rank
    <3>. QED
      BY <2>1, <2>2, FS_Injection
  <2>4. \A k \in 0..(c - 1) : \E i \in S : rank[i] = k
    <3>. HIDE DEF rank
    <3>. QED
      BY <2>3 DEF Surjection
  <2>5. \A k \in 1..c : k - 1 \in 0..(c - 1)
    <3>. HIDE DEF c
    <3>. QED
      BY <1>1
  <2>6. \A i \in S : rank[i] = Cardinality(Below(i))
    OBVIOUS
  <2>. HIDE DEF rank, Below, c
  <2>. QED
    BY <2>4, <2>5, <2>6
<1>5. \A k \in 1..c : At(k) \in S /\ Cardinality(Below(At(k))) = k - 1
  <2>. HIDE DEF Below
  <2>. QED
    BY <1>4
<1>6. \A k, m \in 1..c : k # m => At(k) # At(m)
  <2>. HIDE DEF At, Below
  <2>. QED
    BY <1>5
<1>7. \A i \in S : \E k \in 1..c : At(k) = i
  <2>1. SUFFICES ASSUME NEW i \in S PROVE \E k \in 1..c : At(k) = i
    OBVIOUS
  <2>. DEFINE k == Cardinality(Below(i)) + 1
  <2>2. k \in 1..c /\ Cardinality(Below(i)) = k - 1
    <3>. HIDE DEF Below
    <3>. QED
      BY <1>1, <1>2
  <2>3. Cardinality(Below(At(k))) = Cardinality(Below(i)) /\ At(k) \in S
    <3>. HIDE DEF k, At, Below
    <3>. QED
      BY <1>5, <2>2
  <2>4. At(k) = i
    <3>. HIDE DEF k, At, Below
    <3>1. ~(At(k) < i) /\ ~(i < At(k))
      BY <1>2, <1>3, <2>3
    <3>. QED
      BY <1>0, <2>3, <3>1
  <2>. QED
    BY <2>2, <2>4
<1>8. r = [k \in 1..c |-> l[At(k)]]
  BY DEF Keep
<1>9. \A i \in S : l[i] \in R
  OBVIOUS
<1>10. r \in Seq(R) /\ Len(r) = c /\ DOMAIN r = 1..c
  <2>. HIDE DEF r, At, Below, c
  <2>1. r \in [1..c -> R]
    BY <1>5, <1>8, <1>9
  <2>. QED
    BY <1>1, <2>1
<1>11. \A a \in S : (\A i \in S : a <= i) => r # <<>> /\ r[1] = l[a]
  <2>1. SUFFICES ASSUME NEW a \in S, \A i \in S : a <= i
                 PROVE  r # <<>> /\ r[1] = l[a]
    OBVIOUS
  <2>2. Below(a) = {}
    BY <1>0, <2>1
  <2>3. Cardinality(Below(a)) = 0
    <3>. HIDE DEF Below
    <3>. QED
      BY <2>2, FS_EmptySet
  <2>4. c # 0
    BY <1>1, FS_EmptySet
  <2>5. 1 \in 1..c
    <3>. HIDE DEF c
    <3>. QED
      BY <1>1, <2>4
  <2>6. At(1) = a
    <3>1. Cardinality(Below(At(1))) = 0 /\ At(1) \in S
      <4>. HIDE DEF At, Below, c
      <4>. QED
        BY <1>5, <2>5
    <3>. HIDE DEF At, Below
    <3>2. ~(At(1) < a) /\ ~(a < At(1))
      BY <1>2, <1>3, <2>3, <3>1
    <3>. QED
      BY <1>0, <3>1, <3>2
  <2>. HIDE DEF At, Below, c, r
  <2>. QED
    BY <1>8, <1>10, <2>5, <2>6
<1>12. Part(r, l, S)
  <2>. HIDE DEF At, Below, c, r
  <2>. QED
    BY <1>5, <1>6, <1>7, <1>8, <1>10, <1>11 DEF Part
<1>. QED
  BY <1>1, <1>10, <1>12

\* The records of a list.
Of(l) == {l[i] : i \in DOMAIN l}

\* The list l: every bundle and every token once, the tokens below n, and the
\* launcher's token for the startup bundle, which is not terminated.
Distinct(l, n) ==
    /\ l \in Seq(RecordType) /\ Len(l) <= Capacity
    /\ \A i, j \in DOMAIN l : l[i].token = l[j].token => i = j
    /\ \A i, j \in DOMAIN l : l[i].app = l[j].app => i = j
    /\ \A q \in Of(l) : /\ q.token < n
                        /\ q.token = LauncherToken <=> q.app = Startup
                        /\ q.token = LauncherToken => ~q.terminated

\* The list with the home screen in it.
Listed(l, n) == Distinct(l, n) /\ \E q \in Of(l) : q.token = LauncherToken

\* Looking a record up by its token or its bundle finds the only one.
LEMMA Members ==
    ASSUME NEW l, NEW n, Distinct(l, n)
    PROVE  /\ \A q \in Of(l) : /\ q \in RecordType
                               /\ Has(l, q.token) /\ Get(l, q.token) = q
                               /\ HasApp(l, q.app) /\ GetApp(l, q.app) = q
           /\ \A p, q \in Of(l) : p.token = q.token \/ p.app = q.app => p = q
           /\ \A t : Has(l, t) <=> \E q \in Of(l) : q.token = t
           /\ \A a : HasApp(l, a) <=> \E q \in Of(l) : q.app = a
           /\ \A i \in DOMAIN l : l[i] \in Of(l)
<1>1. /\ DOMAIN l = 1..Len(l) /\ Len(l) \in Nat
      /\ \A i \in DOMAIN l : l[i] \in RecordType
      /\ \A i, j \in DOMAIN l : l[i].token = l[j].token => i = j
      /\ \A i, j \in DOMAIN l : l[i].app = l[j].app => i = j
  BY DEF Distinct
<1>2. ASSUME NEW q \in Of(l)
      PROVE  /\ q \in RecordType
             /\ Has(l, q.token) /\ Get(l, q.token) = q
             /\ HasApp(l, q.app) /\ GetApp(l, q.app) = q
  <2>1. PICK i \in DOMAIN l : q = l[i]
    BY DEF Of
  <2>2. Has(l, q.token) /\ HasApp(l, q.app)
    BY <2>1 DEF Has, HasApp
  <2>3. Get(l, q.token) = q
    <3>. DEFINE c == CHOOSE j \in DOMAIN l : l[j].token = q.token
    <3>1. c \in DOMAIN l /\ l[c].token = q.token
      BY <2>1
    <3>2. c = i
      <4>. HIDE DEF c
      <4>. QED
        BY <1>1, <2>1, <3>1
    <3>. QED
      BY <2>1, <3>2 DEF Get
  <2>4. GetApp(l, q.app) = q
    <3>. DEFINE P(j) == l[j].app = q.app /\ \A k \in 1..(j - 1) : l[k].app # q.app
                c == CHOOSE j \in DOMAIN l : P(j)
    <3>1. P(i)
      <4>1. \A k \in 1..(i - 1) : k \in DOMAIN l /\ k # i
        BY <1>1
      <4>. QED
        BY <1>1, <2>1, <4>1
    <3>2. c \in DOMAIN l /\ P(c)
      <4>. HIDE DEF P
      <4>. QED
        BY <3>1
    <3>3. c = i
      <4>. HIDE DEF c
      <4>. QED
        BY <1>1, <2>1, <3>2
    <3>. QED
      BY <2>1, <3>3 DEF GetApp
  <2>. QED
    BY <1>1, <2>1, <2>2, <2>3, <2>4
<1>3. \A p, q \in Of(l) : p.token = q.token \/ p.app = q.app => p = q
  BY <1>1 DEF Of
<1>4. \A t : Has(l, t) <=> \E q \in Of(l) : q.token = t
  BY DEF Has, Of
<1>5. \A a : HasApp(l, a) <=> \E q \in Of(l) : q.app = a
  BY DEF HasApp, Of
<1>6. \A i \in DOMAIN l : l[i] \in Of(l)
  BY DEF Of
<1>. QED
  BY <1>2, <1>3, <1>4, <1>5, <1>6

\* Part of a list.
LEMMA KeepDistinct ==
    ASSUME NEW l, NEW n, Distinct(l, n), NEW S \in SUBSET (DOMAIN l)
    PROVE  /\ Distinct(Keep(l, S), n)
           /\ Of(Keep(l, S)) = {l[i] : i \in S}
           /\ 1 \in S => Keep(l, S) # <<>> /\ Keep(l, S)[1] = l[1]
           /\ Len(Keep(l, S)) <= Len(l)
<1>. DEFINE r == Keep(l, S)
<1>0. l \in Seq(RecordType) /\ DOMAIN l = 1..Len(l) /\ Len(l) \in Nat /\ Len(l) <= Capacity
  BY DEF Distinct
<1>1. r \in Seq(RecordType) /\ Len(r) <= Len(l) /\ Part(r, l, S)
  BY <1>0, KeepPart
<1>. HIDE DEF r
<1>2. Of(r) = {l[i] : i \in S}
  BY <1>1 DEF Part, Of
<1>3. Len(r) \in Nat /\ Len(r) <= Capacity
  BY <1>0, <1>1, SliteAssumption
<1>4. /\ \A i, j \in DOMAIN r : r[i].token = r[j].token => i = j
      /\ \A i, j \in DOMAIN r : r[i].app = r[j].app => i = j
  <2>1. SUFFICES ASSUME NEW k \in DOMAIN r, NEW m \in DOMAIN r, k # m
                 PROVE  r[k].token # r[m].token /\ r[k].app # r[m].app
    OBVIOUS
  <2>2. PICK i \in S, j \in S : i # j /\ r[k] = l[i] /\ r[m] = l[j]
    BY <1>1, <2>1 DEF Part
  <2>. QED
    BY <1>0, <2>2 DEF Distinct
<1>5. \A q \in Of(r) : q \in Of(l)
  BY <1>2 DEF Of
<1>6. Distinct(r, n)
  BY <1>1, <1>3, <1>4, <1>5 DEF Distinct
<1>7. 1 \in S => r # <<>> /\ r[1] = l[1]
  <2>1. \A i \in S : 1 <= i
    BY <1>0
  <2>. QED
    BY <1>1, <2>1 DEF Part
<1>. QED
  BY <1>1, <1>2, <1>6, <1>7 DEF r

\* A record on top of a list.
LEMMA OnTop ==
    ASSUME NEW l, NEW n \in Int, Distinct(l, n), Len(l) < Capacity,
           NEW x \in RecordType, x.token < n,
           x.token = LauncherToken <=> x.app = Startup, x.token = LauncherToken => ~x.terminated,
           \A q \in Of(l) : q.token # x.token /\ q.app # x.app
    PROVE  /\ Distinct(<<x>> \o l, n) /\ Of(<<x>> \o l) = {x} \cup Of(l)
           /\ <<x>> \o l # <<>> /\ (<<x>> \o l)[1] = x
           /\ Len(<<x>> \o l) = Len(l) + 1
           /\ \A i \in DOMAIN l : (<<x>> \o l)[i + 1] = l[i]
<1>. DEFINE r == <<x>> \o l
<1>0. l \in Seq(RecordType) /\ DOMAIN l = 1..Len(l) /\ Len(l) \in Nat /\ Capacity \in Nat
  BY SliteAssumption DEF Distinct
<1>1. /\ r \in Seq(RecordType) /\ Len(r) = Len(l) + 1 /\ DOMAIN r = 1..(Len(l) + 1)
      /\ r[1] = x /\ \A i \in 2..(Len(l) + 1) : r[i] = l[i - 1]
  <2>. HIDE DEF RecordType
  <2>. QED
    BY <1>0
<1>. HIDE DEF r
<1>2. \A i \in DOMAIN l : i + 1 \in 2..(Len(l) + 1) /\ r[i + 1] = l[i]
  BY <1>0, <1>1
<1>3. \A i \in DOMAIN r : i # 1 => i - 1 \in DOMAIN l /\ r[i] = l[i - 1]
  BY <1>0, <1>1
<1>4. Of(r) = {x} \cup Of(l)
  <2>1. \A q \in Of(r) : q \in {x} \cup Of(l)
    BY <1>1, <1>3 DEF Of
  <2>2. \A i \in DOMAIN l : i + 1 \in DOMAIN r /\ 1 \in DOMAIN r
    BY <1>0, <1>1
  <2>3. \A q \in {x} \cup Of(l) : q \in Of(r)
    BY <1>0, <1>1, <1>2, <2>2 DEF Of
  <2>. QED
    BY <2>1, <2>3
<1>5. ASSUME NEW i \in DOMAIN r, NEW j \in DOMAIN r, r[i].token = r[j].token \/ r[i].app = r[j].app
      PROVE  i = j
  <2>1. \A k \in DOMAIN l : l[k] \in Of(l)
    BY DEF Of
  <2>2. CASE i = 1
    BY <1>1, <1>3, <1>5, <2>1, <2>2
  <2>3. CASE j = 1
    BY <1>1, <1>3, <1>5, <2>1, <2>3
  <2>4. CASE i # 1 /\ j # 1
    <3>1. i - 1 = j - 1
      BY <1>3, <1>5, <2>4 DEF Distinct
    <3>. QED
      BY <1>1, <3>1
  <2>. QED
    BY <2>2, <2>3, <2>4
<1>6. Distinct(r, n)
  BY <1>0, <1>1, <1>4, <1>5 DEF Distinct
<1>7. r # <<>>
  BY <1>0, <1>1
<1>. QED
  BY <1>1, <1>2, <1>4, <1>6, <1>7 DEF r

\* What is assumed: the build; room for three records, so that a full list never
\* gives up the ability on top; the home screen is neither temporary nor stopped
\* by its token, no other bundle is called main, and whoever starts a JS bundle
\* names the path of its code.
Regular ==
    /\ MultiTasks
    /\ Capacity > 2
    /\ Main \subseteq {Startup}
    /\ Startup \notin Temporary
    /\ Pathless \subseteq NativeApps
    /\ \A m \in Requests : m.id = "terminateApp" => m.token # LauncherToken

\* Only the home screen is permanent.
LEMMA Permanent ==
    ASSUME Regular, NEW l, NEW n, Distinct(l, n), NEW q \in Of(l)
    PROVE  IsPermanentAbility(q) <=> q.token = LauncherToken
BY DEF Regular, IsPermanentAbility, Distinct

\* An interval without one of its numbers.
LEMMA OneLess ==
    ASSUME NEW m \in Nat, NEW e \in 1..m
    PROVE  Cardinality((1..m) \ {e}) = m - 1
<1>1. IsFiniteSet(1..m) /\ Cardinality(1..m) = m
  BY FS_Interval
<1>. QED
  BY <1>1, FS_RemoveElement

\* Erase: the record goes, the others stay where they were.
LEMMA EraseFacts ==
    ASSUME NEW l, NEW n, Distinct(l, n), NEW q \in Of(l)
    PROVE  LET r == Erase(l, q.token)
           IN  /\ Distinct(r, n) /\ Of(r) = Of(l) \ {q}
               /\ Len(r) = Len(l) - 1
               /\ l[1] # q => r # <<>> /\ r[1] = l[1]
               /\ l[1] = q /\ Len(l) > 1 => r # <<>> /\ r[1] = l[2]
<1>0. l \in Seq(RecordType) /\ DOMAIN l = 1..Len(l) /\ Len(l) \in Nat
  BY DEF Distinct
<1>1. PICK i \in DOMAIN l : l[i] = q
  BY DEF Of
<1>. DEFINE S == DOMAIN l \ {i}
            r == Keep(l, S)
<1>2. \A j \in DOMAIN l : l[j].token # q.token <=> j # i
  BY <1>1 DEF Distinct
<1>3. Erase(l, q.token) = r
  <2>1. {j \in DOMAIN l : l[j].token # q.token} = S
    BY <1>2
  <2>. HIDE DEF S
  <2>. QED
    BY <2>1 DEF Erase
<1>4. /\ Distinct(r, n) /\ Of(r) = {l[j] : j \in S}
      /\ 1 \in S => r # <<>> /\ r[1] = l[1]
  <2>1. S \in SUBSET (DOMAIN l)
    OBVIOUS
  <2>. HIDE DEF S
  <2>. QED
    BY <2>1, KeepDistinct
<1>5. Len(r) = Cardinality(S) /\ Part(r, l, S)
  <2>1. S \in SUBSET (DOMAIN l)
    OBVIOUS
  <2>. HIDE DEF S
  <2>. QED
    BY <1>0, <2>1, KeepPart
<1>6. Cardinality(S) = Len(l) - 1
  <2>1. i \in 1..Len(l)
    BY <1>0, <1>1
  <2>2. Cardinality((1..Len(l)) \ {i}) = Len(l) - 1
    BY <1>0, <2>1, OneLess
  <2>. QED
    BY <1>0, <2>2
<1>7. Of(r) = Of(l) \ {q}
  <2>1. {l[j] : j \in S} = Of(l) \ {q}
    BY <1>1, <1>2 DEF Of
  <2>. QED
    BY <1>4, <2>1
<1>8. l[1] # q => 1 \in S
  BY <1>0, <1>1
<1>9. ASSUME l[1] = q, Len(l) > 1
      PROVE  r # <<>> /\ r[1] = l[2]
  <2>1. i = 1
    BY <1>0, <1>2, <1>9
  <2>2. 2 \in S /\ \A j \in S : 2 <= j
    BY <1>0, <1>9, <2>1
  <2>. HIDE DEF S, r
  <2>. QED
    BY <1>5, <2>2 DEF Part
<1>. HIDE DEF S, r
<1>. QED
  BY <1>3, <1>4, <1>5, <1>6, <1>7, <1>8, <1>9

\* PopBottomAbility: a full list never gives up its top or the home screen.
LEMMA Room ==
    ASSUME Regular, NEW l, NEW n, Distinct(l, n), Len(l) >= Capacity
    PROVE  LET r == PopBottomAbility(l)
           IN  /\ Distinct(r, n) /\ Of(r) \subseteq Of(l)
               /\ Len(r) < Capacity
               /\ r # <<>> /\ r[1] = l[1]
               /\ \A q \in Of(l) : q.token = LauncherToken => q \in Of(r)
<1>. DEFINE m == Len(l)
            e == IF IsPermanentAbility(l[m]) THEN m - 1 ELSE m
            S == DOMAIN l \ {e}
            r == Keep(l, S)
<1>0. l \in Seq(RecordType) /\ DOMAIN l = 1..m /\ m \in Nat /\ m = Capacity /\ m > 2
  BY SliteAssumption DEF Distinct, Regular
<1>1. PopBottomAbility(l) = r
  BY DEF PopBottomAbility
<1>2. e \in 2..m
  <2>. HIDE DEF m
  <2>. QED
    BY <1>0
<1>3. l[e].token # LauncherToken
  <2>1. l[m] \in Of(l) /\ m \in DOMAIN l /\ m - 1 \in DOMAIN l
    BY <1>0 DEF Of
  <2>2. CASE IsPermanentAbility(l[m])
    <3>1. l[m].token = LauncherToken /\ e = m - 1
      BY <2>1, <2>2, Permanent
    <3>2. m - 1 # m
      BY <1>0
    <3>. QED
      BY <2>1, <3>1, <3>2 DEF Distinct
  <2>3. CASE ~IsPermanentAbility(l[m])
    BY <2>1, <2>3 DEF IsPermanentAbility
  <2>. QED
    BY <2>2, <2>3
<1>. HIDE DEF e
<1>4. /\ Distinct(r, n) /\ Of(r) = {l[j] : j \in S}
      /\ 1 \in S => r # <<>> /\ r[1] = l[1]
  <2>1. S \in SUBSET (DOMAIN l)
    OBVIOUS
  <2>. HIDE DEF S
  <2>. QED
    BY <2>1, KeepDistinct
<1>5. Len(r) = Cardinality(S)
  <2>1. S \in SUBSET (DOMAIN l)
    OBVIOUS
  <2>. HIDE DEF S
  <2>. QED
    BY <1>0, <2>1, KeepPart
<1>6. Cardinality(S) = m - 1
  <2>1. e \in 1..m
    BY <1>0, <1>2
  <2>2. Cardinality((1..m) \ {e}) = m - 1
    <3>. HIDE DEF m
    <3>. QED
      BY <1>0, <2>1, OneLess
  <2>. QED
    BY <1>0, <2>2
<1>7. 1 \in S
  BY <1>0, <1>2
<1>8. Of(r) \subseteq Of(l)
  BY <1>4 DEF Of
<1>9. \A q \in Of(l) : q.token = LauncherToken => q \in Of(r)
  <2>1. \A j \in DOMAIN l : l[j].token = LauncherToken => j \in S
    BY <1>3
  <2>. HIDE DEF S
  <2>. QED
    BY <1>4, <2>1 DEF Of
<1>. HIDE DEF S, r
<1>10. Len(r) < Capacity
  BY <1>0, <1>5, <1>6
<1>. QED
  BY <1>1, <1>4, <1>7, <1>8, <1>9, <1>10

\* A new record on top of the list; when the list is full another one goes.
LEMMA AddFacts ==
    ASSUME Regular, NEW l, NEW n \in Int, Distinct(l, n), l # <<>>,
           NEW x \in RecordType, x.token < n,
           x.token = LauncherToken <=> x.app = Startup, x.token = LauncherToken => ~x.terminated,
           \A q \in Of(l) : q.token # x.token /\ q.app # x.app
    PROVE  LET r == Add(l, x)
           IN  /\ Distinct(r, n) /\ Of(r) \subseteq {x} \cup Of(l)
               /\ r # <<>> /\ r[1] = x
               /\ x \in Of(r) /\ l[1] \in Of(r)
               /\ \A q \in Of(l) : q.token = LauncherToken => q \in Of(r)
               /\ Len(l) < Capacity => Len(r) = Len(l) + 1 /\ \A i \in DOMAIN l : r[i + 1] = l[i]
               /\ Len(l) < Capacity => Of(r) = {x} \cup Of(l)
<1>. DEFINE room == IF Len(l) >= Capacity THEN PopBottomAbility(l) ELSE l
            r == <<x>> \o room
<1>0. l \in Seq(RecordType) /\ DOMAIN l = 1..Len(l) /\ Len(l) \in Nat /\ Capacity \in Nat
  BY SliteAssumption DEF Distinct
<1>1. /\ Distinct(room, n) /\ Of(room) \subseteq Of(l) /\ Len(room) < Capacity
      /\ room # <<>> /\ room[1] = l[1]
      /\ \A q \in Of(l) : q.token = LauncherToken => q \in Of(room)
      /\ Len(l) < Capacity => room = l
  <2>1. CASE Len(l) >= Capacity
    <3>. DEFINE p == PopBottomAbility(l)
    <3>1. /\ Distinct(p, n) /\ Of(p) \subseteq Of(l)
          /\ Len(p) < Capacity
          /\ p # <<>> /\ p[1] = l[1]
          /\ \A q \in Of(l) : q.token = LauncherToken => q \in Of(p)
      BY <2>1, Room
    <3>2. room = p
      BY <2>1
    <3>3. ~(Len(l) < Capacity)
      BY <1>0, <2>1
    <3>. HIDE DEF p, room
    <3>. QED
      BY <3>1, <3>2, <3>3
  <2>2. CASE Len(l) < Capacity
    <3>1. room = l
      BY <1>0, <2>2
    <3>. HIDE DEF room
    <3>. QED
      BY <2>2, <3>1
  <2>. QED
    BY <1>0, <2>1, <2>2
<1>. HIDE DEF room
<1>2. \A q \in Of(room) : q.token # x.token /\ q.app # x.app
  BY <1>1
<1>3. Add(l, x) = r
  <2>1. ~Has(room, x.token)
    BY <1>2 DEF Has, Of
  <2>. QED
    BY <2>1 DEF Add, room
<1>4. /\ Distinct(r, n) /\ Of(r) = {x} \cup Of(room)
      /\ r # <<>> /\ r[1] = x
      /\ Len(r) = Len(room) + 1
      /\ \A i \in DOMAIN room : r[i + 1] = room[i]
  BY <1>1, <1>2, OnTop
<1>5. room[1] \in Of(room)
  <2>1. room \in Seq(RecordType)
    BY <1>1 DEF Distinct
  <2>2. 1 \in DOMAIN room
    <3>. HIDE DEF RecordType
    <3>. QED
      BY <1>1, <2>1
  <2>. QED
    BY <2>2 DEF Of
<1>. HIDE DEF r
<1>. QED
  BY <1>1, <1>3, <1>4, <1>5

\* MoveToTop: the same records, with that one on top.
LEMMA MoveFacts ==
    ASSUME Regular, NEW l, NEW n \in Int, Distinct(l, n), NEW q \in Of(l)
    PROVE  LET r == MoveToTop(l, q.token)
           IN  /\ Distinct(r, n) /\ Of(r) = Of(l)
               /\ r # <<>> /\ r[1] = q
<1>. DEFINE e == Erase(l, q.token)
            r == <<q>> \o e
<1>0. l \in Seq(RecordType) /\ Len(l) \in Nat /\ Capacity \in Nat /\ Len(l) <= Capacity
  BY SliteAssumption DEF Distinct
<1>1. Distinct(e, n) /\ Of(e) = Of(l) \ {q} /\ Len(e) = Len(l) - 1
  BY EraseFacts
<1>. HIDE DEF e
<1>2. Len(e) < Capacity /\ ~(Len(e) >= Capacity)
  BY <1>0, <1>1
<1>3. q \in RecordType /\ Has(l, q.token) /\ Get(l, q.token) = q
  BY Members
<1>4. \A p \in Of(e) : p.token # q.token /\ p.app # q.app
  BY <1>1, Members
<1>5. /\ q.token < n
      /\ q.token = LauncherToken <=> q.app = Startup
      /\ q.token = LauncherToken => ~q.terminated
  BY DEF Distinct
<1>6. MoveToTop(l, q.token) = r
  <2>1. MoveToTop(l, q.token) = Add(e, q)
    BY <1>3 DEF MoveToTop, e
  <2>2. ~Has(e, q.token)
    BY <1>4 DEF Has, Of
  <2>. QED
    BY <1>2, <2>1, <2>2 DEF Add
<1>7. /\ Distinct(r, n) /\ Of(r) = {q} \cup Of(e)
      /\ r # <<>> /\ r[1] = q
  BY <1>1, <1>2, <1>3, <1>4, <1>5, OnTop
<1>. HIDE DEF r
<1>. QED
  BY <1>1, <1>6, <1>7

\* The list in which x has taken the place of the record with its token.
Changed(l, x) ==
    [i \in DOMAIN l |-> IF l[i].token = x.token /\ l[i].app = x.app THEN x ELSE l[i]]

\* A record is replaced by one with its token and bundle.
LEMMA ChangedFacts ==
    ASSUME NEW l, NEW n, Distinct(l, n), NEW q \in Of(l),
           NEW x \in RecordType, x.token = q.token, x.app = q.app,
           x.token = LauncherToken => ~x.terminated
    PROVE  LET r == Changed(l, x)
           IN  /\ Distinct(r, n) /\ Of(r) = (Of(l) \ {q}) \cup {x}
               /\ DOMAIN r = DOMAIN l /\ Len(r) = Len(l)
               /\ \A i \in DOMAIN l : r[i] = IF l[i] = q THEN x ELSE l[i]
<1>. DEFINE r == Changed(l, x)
<1>0. /\ l \in Seq(RecordType) /\ DOMAIN l = 1..Len(l) /\ Len(l) \in Nat
      /\ \A i \in DOMAIN l : l[i] \in RecordType
  BY DEF Distinct
<1>1. \A i \in DOMAIN l : l[i].token = x.token /\ l[i].app = x.app <=> l[i] = q
  BY Members
<1>2. /\ DOMAIN r = DOMAIN l
      /\ \A i \in DOMAIN l : r[i] = IF l[i] = q THEN x ELSE l[i]
  BY <1>1 DEF Changed
<1>3. r \in Seq(RecordType) /\ Len(r) = Len(l)
  <2>1. r = [i \in 1..Len(l) |-> r[i]]
    BY <1>0 DEF Changed
  <2>2. \A i \in 1..Len(l) : r[i] \in RecordType
    BY <1>0, <1>2
  <2>. HIDE DEF r, RecordType
  <2>3. r \in [1..Len(l) -> RecordType]
    BY <2>1, <2>2
  <2>. QED
    BY <1>0, <2>3
<1>. HIDE DEF r
<1>4. \A i \in DOMAIN l : r[i].token = l[i].token /\ r[i].app = l[i].app
  BY <1>2
<1>5. Of(r) = (Of(l) \ {q}) \cup {x}
  <2>1. PICK i \in DOMAIN l : l[i] = q
    BY DEF Of
  <2>. QED
    BY <1>2, <2>1 DEF Of
<1>6. \A p \in Of(l) : p = q \/ p \in Of(r)
  BY <1>5
<1>7. Distinct(r, n)
  BY <1>2, <1>3, <1>4, <1>5 DEF Distinct
<1>. QED
  BY <1>2, <1>3, <1>5, <1>7 DEF r

-----------------------------------------------------------------------------
(* The invariant.                                                          *)

\* The fields of a state of the service.
Fields == {"list", "ops", "scheduling", "pending", "pendingRecord", "tokens", "missions",
           "threads", "nativeQ", "async", "launcher", "seen", "amsQ", "lost", "dangling",
           "failed", "ret"}

\* Nothing but the fields F differs.
Same(s, r, F) == DOMAIN r = Fields /\ \A f \in Fields \ F : r[f] = s[f]

\* The operations that are requested; home is not stopped by its token.
Allowed == {m \in Operation : m.id = "terminateApp" => m.token # LauncherToken}

\* What an ability can report, and what the queue of the service may hold.
Life == {"INITIAL", "FOREGROUND", "BACKGROUND", "UNINITIALIZED"}
Report(h, life) == [id |-> "done", token |-> h, state |-> life]
Queued == Allowed \cup {Report(h, life) : h \in Token, life \in Life}

\* The ability a, with token h, is in the list and has the only thread.
Alone(l, th, as, h, a) ==
    /\ th = [t \in {h} |-> th[h]] /\ DOMAIN th[h] = {"native", "life", "inbox"}
    /\ \E q \in Of(l) : q.token = h /\ q.app = a /\ q.native = th[h].native
    /\ as = IF th[h].native THEN NoToken ELSE h
    /\ \A q \in Of(l) : (q.thread <=> q.token = h) /\ (q.token # h => q.state = "STOP")

\* What is on its way to h: x, a sequence of messages.
Sent(th, nq, h, x) ==
    IF th[h].native THEN nq = x /\ th[h].inbox = <<>> ELSE nq = <<>> /\ th[h].inbox = x

\* No report is in the queue q, or exactly the report m.
NoReport(q) == \A i \in DOMAIN q : q[i].id # "done"
OneReport(q, m) ==
    \E k \in DOMAIN q : q[k] = m /\ \A i \in DOMAIN q : i # k => q[i].id # "done"

\* The observer knows the states of the records.
Watched(l, sn) ==
    /\ sn = [a \in App |-> sn[a]]
    /\ \A q \in Of(l) : sn[q.app] \in {"NONE", "GONE", q.state}
    /\ \A a \in App : (\A q \in Of(l) : q.app # a) => sn[a] \in {"NONE", "GONE", "STOP"}

\* The numbers, flags and queues of the service.
Typed(s) ==
    /\ DOMAIN s = Fields
    /\ s.pending \in Token /\ s.tokens \in 0..TokenLimit /\ s.missions \in Mission
    /\ s.scheduling \in BOOLEAN /\ s.ops \in Seq(Allowed)
    /\ s.amsQ \in Seq(Queued) /\ Len(s.amsQ) <= QueueSize
    /\ s.dangling = FALSE /\ s.failed = FALSE

\* The ability a with token h has the only task; list and observer agree.
On(s, h, a) ==
    /\ Typed(s)
    /\ Listed(s.list, s.tokens)
    /\ Alone(s.list, s.threads, s.async, h, a)
    /\ Watched(s.list, s.seen)

\* When h has gone the list shows on top the ability that comes next.
Follows(l, h, p) ==
    p # 0 => /\ p # h
             /\ \/ l[1].token = p
                \/ l[1].token = h /\ l[1].terminated /\ Len(l) > 1 /\ l[2].token = p

\* The stages of a switch: a message and the life of the ability it finds, or a
\* report of the life it has come to.
Quiet(s, h) == Sent(s.threads, s.nativeQ, h, <<>>) /\ NoReport(s.amsQ)

\* The message id waits for h, which has come to life.
Asked(s, h, id, life) ==
    /\ s.threads[h].life = life /\ NoReport(s.amsQ)
    /\ \E b \in BOOLEAN :
          /\ Sent(s.threads, s.nativeQ, h, <<[id |-> id, token |-> h, saved |-> b]>>)
          /\ b => \A q \in Of(s.list) : q.token = h => q.saved

\* The report of h, which has come to life, waits for the service.
Answered(s, h, life) ==
    /\ s.threads[h].life = life
    /\ Sent(s.threads, s.nativeQ, h, <<>>)
    /\ OneReport(s.amsQ, Report(h, life))

\* h leaves the foreground and is destroyed, or h is created and shown.
Leaving(s, h) ==
    /\ Follows(s.list, h, s.pending)
    /\ \/ Asked(s, h, "BACKGROUND", "FOREGROUND") \/ Answered(s, h, "BACKGROUND")
       \/ Asked(s, h, "DESTROY", "BACKGROUND") \/ Answered(s, h, "UNINITIALIZED")

Coming(s, h) ==
    /\ s.pending = 0 /\ s.list[1].token = h
    /\ \/ Asked(s, h, "CREATE", "NONE") \/ Answered(s, h, "INITIAL")
       \/ Asked(s, h, "FOREGROUND", "INITIAL") \/ Answered(s, h, "FOREGROUND")

\* A switch is under way.
Going(s, h, a) == On(s, h, a) /\ (Leaving(s, h) \/ Coming(s, h))

\* Between switches.
Rest(s, h, a) ==
    /\ On(s, h, a)
    /\ s.pending = 0 /\ s.list[1].token = h
    /\ \A q \in Of(s.list) : q.token = h => q.state = "FOREGROUND"
    /\ s.threads[h].life = "FOREGROUND" /\ Quiet(s, h)

\* After the end of an ability, before the next one is created.
Vacant(s) ==
    /\ Typed(s)
    /\ Listed(s.list, s.tokens) /\ s.list # <<>>
    /\ Watched(s.list, s.seen)
    /\ DOMAIN s.threads = {} /\ s.nativeQ = <<>> /\ s.async = NoToken
    /\ NoReport(s.amsQ)
    /\ \A q \in Of(s.list) : ~q.thread /\ q.state = "STOP"

-----------------------------------------------------------------------------
(* The operators of the service, one by one.                               *)

\* Fields that are no part of a switch.
LEMMA Unaffected ==
    ASSUME NEW s, NEW r, NEW h, NEW a,
           Same(s, r, {"ret", "scheduling", "ops", "pendingRecord", "launcher", "lost"}),
           r.scheduling \in BOOLEAN, r.ops \in Seq(Allowed)
    PROVE  /\ On(s, h, a) => On(r, h, a)
           /\ Rest(s, h, a) => Rest(r, h, a)
           /\ Going(s, h, a) => Going(r, h, a)
<1>1. /\ r.list = s.list /\ r.pending = s.pending /\ r.tokens = s.tokens
      /\ r.missions = s.missions /\ r.threads = s.threads /\ r.nativeQ = s.nativeQ
      /\ r.async = s.async /\ r.seen = s.seen /\ r.amsQ = s.amsQ
      /\ r.dangling = s.dangling /\ r.failed = s.failed /\ DOMAIN r = Fields
  BY DEF Same, Fields
<1>2. On(s, h, a) => On(r, h, a)
  BY <1>1 DEF On, Typed
<1>3. /\ Leaving(s, h) <=> Leaving(r, h)
      /\ Coming(s, h) <=> Coming(r, h)
      /\ Quiet(s, h) <=> Quiet(r, h)
  BY <1>1 DEF Leaving, Coming, Quiet, Asked, Answered
<1>. QED
  BY <1>1, <1>2, <1>3 DEF Rest, Going

\* The one with the thread.
LEMMA Runner ==
    ASSUME NEW s, NEW h, NEW a, On(s, h, a), NEW q \in Of(s.list), q.token = h \/ q.app = a
    PROVE  /\ q.token = h /\ q.app = a /\ q.native = s.threads[h].native /\ q.thread
           /\ q \in RecordType /\ Has(s.list, h) /\ Get(s.list, h) = q
<1>1. PICK p \in Of(s.list) : p.token = h /\ p.app = a /\ p.native = s.threads[h].native
  BY DEF On, Alone
<1>2. p = q /\ q \in RecordType /\ Has(s.list, q.token) /\ Get(s.list, q.token) = q
  BY <1>1, Members DEF On, Listed
<1>. QED
  BY <1>1, <1>2 DEF On, Alone, RecordType

\* A record changes, but not its state.
LEMMA PutOn ==
    ASSUME NEW s, NEW h, NEW a, On(s, h, a), NEW q \in Of(s.list),
           NEW x \in RecordType, x.token = q.token, x.app = q.app, x.native = q.native,
           x.thread = q.thread, x.state = q.state, x.token = LauncherToken => ~x.terminated
    PROVE  LET r == Put(s, x)
           IN  /\ On(r, h, a) /\ Same(s, r, {"list"})
               /\ DOMAIN r.list = DOMAIN s.list /\ Len(r.list) = Len(s.list)
               /\ \A i \in DOMAIN s.list : r.list[i] = IF s.list[i] = q THEN x ELSE s.list[i]
               /\ Of(r.list) = (Of(s.list) \ {q}) \cup {x}
<1>. DEFINE c == Changed(s.list, x)
            r == Put(s, x)
<1>1. Same(s, r, {"list"}) /\ r.list = c
  BY DEF On, Typed, Put, Changed, Same, Fields
<1>2. Distinct(s.list, s.tokens)
  BY DEF On, Listed
<1>3. /\ Distinct(c, s.tokens) /\ Of(c) = (Of(s.list) \ {q}) \cup {x}
      /\ DOMAIN c = DOMAIN s.list /\ Len(c) = Len(s.list)
      /\ \A i \in DOMAIN s.list : c[i] = IF s.list[i] = q THEN x ELSE s.list[i]
  BY <1>2, ChangedFacts
<1>. HIDE DEF c, r
<1>4. Listed(c, s.tokens)
  BY <1>3 DEF On, Listed
<1>5. Alone(c, s.threads, s.async, h, a)
  BY <1>3 DEF On, Alone
<1>6. Watched(c, s.seen)
  BY <1>3 DEF On, Watched
<1>7. On(r, h, a)
  BY <1>1, <1>4, <1>5, <1>6 DEF On, Typed, Same, Fields
<1>. QED
  BY <1>1, <1>3, <1>7 DEF r

\* A message for the ability that has the thread.
LEMMA SendOn ==
    ASSUME NEW s, NEW h, NEW a, On(s, h, a), NEW q \in Of(s.list), q.token = h,
           Quiet(s, h), NEW id
    PROVE  LET r == SendMsgToAbilityThread(s, q, id)
           IN  /\ On(r, h, a) /\ Same(s, r, {"threads", "nativeQ", "ret"})
               /\ r.ret = "ok" /\ Asked(r, h, id, s.threads[h].life)
<1>1. q.thread /\ q.native = s.threads[h].native /\ q \in RecordType
  BY Runner
<1>. DEFINE b == id \in {"CREATE", "DESTROY"} /\ q.saved /\ ~q.terminated
            m == [id |-> id, token |-> h, saved |-> b]
            r == SendMsgToAbilityThread(s, q, id)
<1>2. b \in BOOLEAN /\ (b => q.saved)
  OBVIOUS
<1>3. r = SendScheduleMsgToAbilityThread(s, q, m)
  BY <1>1 DEF SendMsgToAbilityThread
<1>. HIDE DEF b, r
<1>4. /\ DOMAIN s = Fields /\ s.threads = [t \in {h} |-> s.threads[h]]
      /\ DOMAIN s.threads[h] = {"native", "life", "inbox"}
  BY DEF On, Typed, Alone
<1>5. b => \A p \in Of(s.list) : p.token = h => p.saved
  BY <1>2, Members DEF On, Listed
<1>6. CASE q.native
  <2>1. Same(s, r, {"nativeQ", "ret"}) /\ r.nativeQ = Append(s.nativeQ, m) /\ r.ret = "ok"
    BY <1>3, <1>4, <1>6 DEF SendScheduleMsgToAbilityThread, Ok, Same, Fields
  <2>2. s.nativeQ = <<>> /\ s.threads[h].inbox = <<>>
    BY <1>1, <1>6 DEF Quiet, Sent
  <2>3. r.nativeQ = <<m>> /\ r.threads = s.threads
    BY <2>1, <2>2 DEF Same, Fields
  <2>4. Same(s, r, {"threads", "nativeQ", "ret"})
    BY <2>1 DEF Same
  <2>5. On(r, h, a)
    BY <2>1 DEF On, Typed, Same, Fields
  <2>6. Sent(r.threads, r.nativeQ, h, <<m>>) /\ NoReport(r.amsQ) /\ r.list = s.list
    BY <1>1, <1>6, <2>1, <2>2, <2>3 DEF Sent, Quiet, Same, Fields
  <2>. QED
    BY <1>2, <1>5, <2>1, <2>3, <2>4, <2>5, <2>6 DEF Asked, r
<1>7. CASE ~q.native
  <2>1. /\ Same(s, r, {"threads", "ret"}) /\ r.ret = "ok"
        /\ r.threads = [s.threads EXCEPT ![h].inbox = Append(@, m)]
    BY <1>3, <1>4, <1>7 DEF SendScheduleMsgToAbilityThread, Ok, Same, Fields
  <2>2. s.nativeQ = <<>> /\ s.threads[h].inbox = <<>>
    BY <1>1, <1>7 DEF Quiet, Sent
  <2>3. /\ r.threads = [t \in {h} |-> r.threads[h]]
        /\ DOMAIN r.threads[h] = {"native", "life", "inbox"}
        /\ r.threads[h].inbox = <<m>>
        /\ r.threads[h].native = s.threads[h].native
        /\ r.threads[h].life = s.threads[h].life
    BY <1>4, <2>1, <2>2
  <2>4. Same(s, r, {"threads", "nativeQ", "ret"})
    BY <2>1 DEF Same
  <2>5. /\ r.list = s.list /\ r.async = s.async /\ r.nativeQ = s.nativeQ /\ r.amsQ = s.amsQ
    BY <2>1 DEF Same, Fields
  <2>6. Alone(r.list, r.threads, r.async, h, a)
    BY <2>3, <2>5 DEF On, Alone
  <2>7. On(r, h, a)
    BY <2>1, <2>6 DEF On, Typed, Same, Fields
  <2>8. Sent(r.threads, r.nativeQ, h, <<m>>) /\ NoReport(r.amsQ)
    BY <1>1, <1>7, <2>2, <2>3, <2>5 DEF Sent, Quiet
  <2>. QED
    BY <1>2, <1>5, <2>1, <2>3, <2>4, <2>5, <2>7, <2>8 DEF Asked, r
<1>. QED
  BY <1>1, <1>6, <1>7

\* The running ability comes to another state, and the observer is told.
LEMMA Retold ==
    ASSUME NEW s, NEW h, NEW a, On(s, h, a),
           NEW state \in {"STOP", "INITED", "FOREGROUND", "BACKGROUND"}
    PROVE  LET r == SetAbilityStateAndNotify(s, h, state)
           IN  /\ On(r, h, a) /\ Same(s, r, {"list", "seen"})
               /\ DOMAIN r.list = DOMAIN s.list /\ Len(r.list) = Len(s.list)
               /\ \A i \in DOMAIN s.list : /\ r.list[i].token = s.list[i].token
                                           /\ r.list[i].terminated = s.list[i].terminated
               /\ \A q \in Of(s.list) : q.token = h => [q EXCEPT !.state = state] \in Of(r.list)
               /\ \A q \in Of(r.list) : q.token = h => q.state = state
<1>1. PICK q \in Of(s.list) : q.token = h /\ q.app = a
  BY DEF On, Alone
<1>2. /\ q \in RecordType /\ Has(s.list, h) /\ Get(s.list, h) = q
      /\ q.native = s.threads[h].native
  BY <1>1, Runner
<1>. DEFINE x == [q EXCEPT !.state = state]
            c == Changed(s.list, x)
            r == SetAbilityStateAndNotify(s, h, state)
<1>3. /\ x \in RecordType /\ x.token = q.token /\ x.app = q.app /\ x.native = q.native
      /\ x.thread = q.thread /\ x.state = state /\ x.terminated = q.terminated
  BY <1>2 DEF RecordType
<1>4. Distinct(s.list, s.tokens)
  BY DEF On, Listed
<1>5. x.token = LauncherToken => ~x.terminated
  BY <1>3, <1>4 DEF Distinct
<1>6. r = [Put(s, x) EXCEPT !.seen[x.app] = state]
  BY <1>2, <1>3 DEF SetAbilityStateAndNotify
<1>. HIDE DEF x, r
<1>7. /\ Same(s, r, {"list", "seen"}) /\ r.list = c
      /\ r.seen = [s.seen EXCEPT ![a] = state]
  BY <1>1, <1>3, <1>6 DEF On, Typed, Put, Changed, Same, Fields
<1>. HIDE DEF c
<1>8. /\ Distinct(c, s.tokens) /\ Of(c) = (Of(s.list) \ {q}) \cup {x}
      /\ DOMAIN c = DOMAIN s.list /\ Len(c) = Len(s.list)
      /\ \A i \in DOMAIN s.list : c[i] = IF s.list[i] = q THEN x ELSE s.list[i]
  BY <1>3, <1>4, <1>5, ChangedFacts DEF c
<1>9. Listed(c, s.tokens)
  BY <1>3, <1>8 DEF On, Listed
<1>10. Alone(c, s.threads, s.async, h, a)
  BY <1>1, <1>3, <1>8 DEF On, Alone
<1>11. Watched(c, r.seen)
  <2>1. a \in App /\ s.seen = [b \in App |-> s.seen[b]]
    BY <1>1, <1>2 DEF RecordType, On, Watched
  <2>2. /\ r.seen = [b \in App |-> r.seen[b]] /\ r.seen[a] = state
        /\ \A b \in App : b # a => r.seen[b] = s.seen[b]
    BY <1>7, <2>1
  <2>3. \A p \in Of(s.list) \ {q} : p.app # a /\ p.app \in App
    BY <1>1, <1>4, Members DEF RecordType
  <2>4. \A p \in Of(c) : r.seen[p.app] \in {"NONE", "GONE", p.state}
    BY <1>1, <1>3, <1>8, <2>2, <2>3 DEF On, Watched
  <2>5. \A b \in App : (\A p \in Of(c) : p.app # b) => r.seen[b] \in {"NONE", "GONE", "STOP"}
    BY <1>1, <1>3, <1>8, <2>2, <2>3 DEF On, Watched
  <2>. QED
    BY <2>2, <2>4, <2>5 DEF Watched
<1>12. On(r, h, a)
  BY <1>7, <1>9, <1>10, <1>11 DEF On, Typed, Same, Fields
<1>13. \A p \in Of(s.list) : p.token = h => p = q
  BY <1>1, <1>4, Members
<1>. QED
  BY <1>1, <1>3, <1>7, <1>8, <1>12, <1>13 DEF r, x

\* Records without a thread are deleted.
LEMMA NoThreads ==
    ASSUME NEW s, NEW h, NEW a, On(s, h, a), NEW gone \in SUBSET Of(s.list),
           \A q \in gone : q.token # h
    PROVE  Same(s, DeleteThreads(s, gone), {}) /\ Same(s, DeleteAbilityThread(s, gone), {})
<1>1. \A q \in gone : ~q.thread
  BY DEF On, Alone
<1>2. /\ DOMAIN s = Fields /\ s.threads = [t \in {h} |-> s.threads[h]] /\ s.dangling = FALSE
  BY DEF On, Typed, Alone
<1>3. {r.token : r \in {q \in gone : q.thread}} = {}
  BY <1>1
<1>4. ASSUME NEW u, Same(s, u, {}) PROVE Same(s, DeleteThreads(u, gone), {})
  <2>1. /\ DOMAIN u = Fields /\ u.threads = [t \in {h} |-> s.threads[h]] /\ u.dangling = FALSE
    BY <1>2, <1>4 DEF Same, Fields
  <2>2. DeleteThreads(u, gone) =
            [u EXCEPT !.threads = [t \in DOMAIN u.threads \ {} |-> u.threads[t]],
                      !.dangling = u.dangling \/ \E i \in DOMAIN u.nativeQ : u.nativeQ[i].token \in {}]
    BY <1>3, <2>1 DEF DeleteThreads
  <2>3. [t \in DOMAIN u.threads \ {} |-> u.threads[t]] = s.threads
    BY <1>2, <2>1
  <2>4. (u.dangling \/ \E i \in DOMAIN u.nativeQ : u.nativeQ[i].token \in {}) = FALSE
    BY <2>1
  <2>. QED
    BY <1>2, <1>4, <2>1, <2>2, <2>3, <2>4 DEF Same, Fields
<1>5. Same(s, s, {})
  BY <1>2 DEF Same
<1>6. DeleteAbilityThread(s, gone) = DeleteThreads([s EXCEPT !.async = s.async], gone)
  BY <1>1, <1>2 DEF DeleteAbilityThread, Fields
<1>7. Same(s, [s EXCEPT !.async = s.async], {})
  BY <1>2 DEF Same, Fields
<1>. QED
  BY <1>4, <1>5, <1>6, <1>7

\* The records at other positions than S are dropped and told of.
LEMMA WithoutOn ==
    ASSUME NEW s, NEW h, NEW a, On(s, h, a), NEW S \in SUBSET (DOMAIN s.list), 1 \in S,
           NEW gone, gone = Of(s.list) \ {s.list[i] : i \in S},
           \A q \in gone : q.token # h /\ q.token # LauncherToken,
           NEW u, Same(s, u, {})
    PROVE  LET r == NotifyAbilityRecordCleanup([u EXCEPT !.list = Keep(s.list, S)], gone)
           IN  /\ On(r, h, a) /\ Same(s, r, {"list", "seen"})
               /\ r.list[1] = s.list[1] /\ Of(r.list) = Of(s.list) \ gone
<1>. DEFINE c == Keep(s.list, S)
            r == NotifyAbilityRecordCleanup([u EXCEPT !.list = c], gone)
<1>1. /\ Same(s, r, {"list", "seen"}) /\ r.list = c
      /\ r.seen = [b \in App |-> IF \E q \in gone : q.app = b THEN "GONE" ELSE s.seen[b]]
  <2>. HIDE DEF c
  <2>. QED
    BY DEF Same, Fields, NotifyAbilityRecordCleanup
<1>2. Distinct(s.list, s.tokens)
  BY DEF On, Listed
<1>3. /\ Distinct(c, s.tokens) /\ Of(c) = {s.list[i] : i \in S}
      /\ c[1] = s.list[1]
  BY <1>2, KeepDistinct
<1>. HIDE DEF c, r
<1>4. Of(c) = Of(s.list) \ gone
  <2>1. \A i \in S : s.list[i] \in Of(s.list)
    BY DEF Of
  <2>. QED
    BY <1>3, <2>1
<1>5. Listed(c, s.tokens)
  BY <1>3, <1>4 DEF On, Listed
<1>6. Alone(c, s.threads, s.async, h, a)
  BY <1>4 DEF On, Alone
<1>7. Watched(c, r.seen)
  <2>1. \A p, q \in Of(s.list) : p.app = q.app => p = q
    BY <1>2, Members
  <2>2. \A q \in Of(s.list) : q.app \in App
    BY <1>2, Members DEF RecordType
  <2>3. r.seen = [b \in App |-> r.seen[b]]
    BY <1>1
  <2>4. \A q \in Of(c) : r.seen[q.app] = s.seen[q.app]
    BY <1>1, <1>4, <2>1, <2>2
  <2>5. \A b \in App : (\A q \in Of(c) : q.app # b) => r.seen[b] \in {"NONE", "GONE", "STOP"}
    <3>1. SUFFICES ASSUME NEW b \in App, \A q \in Of(c) : q.app # b
                   PROVE  r.seen[b] \in {"NONE", "GONE", "STOP"}
      OBVIOUS
    <3>2. CASE \E q \in gone : q.app = b
      BY <1>1, <3>2
    <3>3. CASE ~\E q \in gone : q.app = b
      <4>1. \A q \in Of(s.list) : q.app # b
        BY <1>4, <3>1, <3>3
      <4>. QED
        BY <1>1, <3>3, <4>1 DEF On, Watched
    <3>. QED
      BY <3>2, <3>3
  <2>. QED
    BY <1>4, <2>3, <2>4, <2>5 DEF On, Watched
<1>8. On(r, h, a)
  BY <1>1, <1>5, <1>6, <1>7 DEF On, Typed, Same, Fields
<1>. QED
  BY <1>1, <1>3, <1>4, <1>8 DEF r, c

\* DeleteRecordInfo, DeleteAbilityThread: records below the top.
LEMMA DeleteOn ==
    ASSUME NEW s, NEW h, NEW a, On(s, h, a), s.list[1].token = h,
           NEW gone \in SUBSET Of(s.list),
           \A q \in gone : q.token # h /\ q.token # LauncherToken
    PROVE  LET r == DeleteRecords(s, gone)
           IN  /\ On(r, h, a) /\ Same(s, r, {"list", "seen"})
               /\ r.list[1] = s.list[1] /\ Of(r.list) = Of(s.list) \ gone
<1>. DEFINE S == {i \in DOMAIN s.list : s.list[i] \notin gone}
            u == DeleteAbilityThread(s, gone)
<1>1. S \in SUBSET (DOMAIN s.list) /\ 1 \in S
  <2>1. s.list \in Seq(RecordType) /\ \E q \in Of(s.list) : TRUE
    BY DEF On, Listed, Distinct
  <2>2. 1 \in DOMAIN s.list
    BY <2>1 DEF Of
  <2>. QED
    BY <2>2
<1>2. gone = Of(s.list) \ {s.list[i] : i \in S}
  BY DEF Of
<1>3. Same(s, u, {})
  BY NoThreads
<1>4. DeleteRecords(s, gone) = NotifyAbilityRecordCleanup([u EXCEPT !.list = Keep(s.list, S)], gone)
  BY <1>3 DEF DeleteRecords, Same, Fields
<1>5. \A q \in gone : q.token # h /\ q.token # LauncherToken
  OBVIOUS
<1>. HIDE DEF S, u
<1>6. LET r == NotifyAbilityRecordCleanup([u EXCEPT !.list = Keep(s.list, S)], gone)
      IN  /\ On(r, h, a) /\ Same(s, r, {"list", "seen"})
          /\ r.list[1] = s.list[1] /\ Of(r.list) = Of(s.list) \ gone
  BY <1>1, <1>2, <1>3, <1>5, WithoutOn
<1>. QED
  BY <1>4, <1>6

\* A new record on top of the list.
LEMMA AddRecordOn ==
    ASSUME Regular, NEW s, NEW h, NEW a, On(s, h, a), s.list[1].token = h,
           NEW x \in RecordType, x.token < s.tokens, x.token # LauncherToken, x.app # Startup,
           x.state = "STOP", ~x.thread,
           \A q \in Of(s.list) : q.token # x.token /\ q.app # x.app
    PROVE  LET r == AddRecord(s, x)
           IN  /\ On(r, h, a) /\ Same(s, r, {"list"})
               /\ r.list # <<>> /\ r.list[1] = x
               /\ Of(r.list) \subseteq {x} \cup Of(s.list)
<1>. DEFINE c == Add(s.list, x)
            dropped == {i \in DOMAIN s.list : ~Has(c, s.list[i].token)}
            gone == {s.list[i] : i \in dropped}
            u == DeleteThreads(s, gone)
            r == AddRecord(s, x)
<1>0. /\ Distinct(s.list, s.tokens) /\ s.tokens \in Int /\ s.list # <<>> /\ DOMAIN s = Fields
      /\ x.token = LauncherToken <=> x.app = Startup
  <2>1. \E q \in Of(s.list) : TRUE
    BY DEF On, Listed
  <2>. QED
    BY <2>1 DEF On, Listed, Typed, Of
<1>1. /\ Distinct(c, s.tokens) /\ Of(c) \subseteq {x} \cup Of(s.list)
      /\ c # <<>> /\ c[1] = x
      /\ x \in Of(c) /\ s.list[1] \in Of(c)
      /\ \A q \in Of(s.list) : q.token = LauncherToken => q \in Of(c)
  BY <1>0, AddFacts
<1>2. r = [u EXCEPT !.list = c]
  BY DEF AddRecord
<1>. HIDE DEF c
<1>3. \A q \in gone : q \in Of(s.list) /\ q.token # h
  <2>1. Has(c, h)
    BY <1>1 DEF Has, Of
  <2>. QED
    BY <2>1 DEF Of
<1>4. Same(s, u, {})
  <2>1. gone \in SUBSET Of(s.list)
    BY <1>3
  <2>. HIDE DEF gone
  <2>. QED
    BY <1>3, <2>1, NoThreads
<1>. HIDE DEF u, r
<1>5. Same(s, r, {"list"}) /\ r.list = c
  BY <1>2, <1>4 DEF Same, Fields
<1>6. Listed(c, s.tokens)
  BY <1>1 DEF On, Listed
<1>7. s.list[1] \in Of(s.list)
  <2>1. s.list \in Seq(RecordType)
    BY <1>0 DEF Distinct
  <2>2. 1 \in DOMAIN s.list
    <3>. HIDE DEF RecordType
    <3>. QED
      BY <1>0, <2>1
  <2>. QED
    BY <2>2 DEF Of
<1>8. Alone(c, s.threads, s.async, h, a)
  <2>1. s.list[1].token = h /\ s.list[1].app = a /\ s.list[1].native = s.threads[h].native
    BY <1>7, Runner
  <2>2. x.token # h
    BY <1>7
  <2>. QED
    BY <1>1, <2>1, <2>2 DEF On, Alone
<1>9. Watched(c, s.seen)
  <2>1. x.app \in App
    BY DEF RecordType
  <2>2. s.seen[x.app] \in {"NONE", "GONE", "STOP"}
    BY <2>1 DEF On, Watched
  <2>3. \A q \in Of(c) : s.seen[q.app] \in {"NONE", "GONE", q.state}
    BY <1>1, <2>2 DEF On, Watched
  <2>4. ASSUME NEW b \in App, \A q \in Of(c) : q.app # b
        PROVE  s.seen[b] \in {"NONE", "GONE", "STOP"}
    <3>1. CASE \A q \in Of(s.list) : q.app # b
      BY <3>1 DEF On, Watched
    <3>2. CASE \E q \in Of(s.list) : q.app = b
      <4>1. PICK q \in Of(s.list) : q.app = b
        BY <3>2
      <4>2. q.token # h
        <5>1. q.token = h => q = s.list[1]
          BY <1>0, <1>7, <4>1, Members
        <5>. QED
          BY <1>1, <2>4, <4>1, <5>1
      <4>3. q.state = "STOP"
        BY <4>1, <4>2 DEF On, Alone
      <4>. QED
        BY <4>1, <4>3 DEF On, Watched
    <3>. QED
      BY <3>1, <3>2
  <2>. QED
    BY <2>3, <2>4 DEF On, Watched
<1>10. On(r, h, a)
  BY <1>5, <1>6, <1>8, <1>9 DEF On, Typed, Same, Fields
<1>. QED
  BY <1>1, <1>5, <1>10 DEF r

\* The list has a top.
LEMMA First ==
    ASSUME NEW l, NEW n, Listed(l, n)
    PROVE  /\ l # <<>> /\ 1 \in DOMAIN l /\ l[1] \in Of(l) /\ l[1] \in RecordType
           /\ Len(l) \in Nat /\ Len(l) >= 1 /\ DOMAIN l = 1..Len(l)
<1>1. l \in Seq(RecordType) /\ \E q \in Of(l) : TRUE
  BY DEF Listed, Distinct
<1>2. DOMAIN l = 1..Len(l) /\ Len(l) \in Nat
  BY <1>1
<1>3. \E i \in DOMAIN l : TRUE
  BY <1>1 DEF Of
<1>4. 1 \in DOMAIN l /\ Len(l) >= 1
  BY <1>2, <1>3
<1>. QED
  BY <1>1, <1>2, <1>4 DEF Of

\* The thread of the running ability is deleted.
LEMMA ThreadGone ==
    ASSUME NEW s, NEW h, NEW a, On(s, h, a), NEW q \in Of(s.list), q.token = h,
           s.nativeQ = <<>>
    PROVE  LET d == DeleteAbilityThread(s, {q})
           IN  /\ Same(s, d, {"threads", "async"})
               /\ DOMAIN d.threads = {} /\ d.async = NoToken
<1>1. q.thread /\ q.native = s.threads[h].native /\ q \in RecordType
  BY Runner
<1>2. /\ DOMAIN s = Fields /\ s.threads = [t \in {h} |-> s.threads[h]] /\ s.dangling = FALSE
      /\ s.async = IF q.native THEN NoToken ELSE h
  BY <1>1 DEF On, Typed, Alone
<1>. DEFINE u == [s EXCEPT !.async = IF \E r \in {q} : r.thread /\ ~r.native THEN NoToken ELSE @]
            d == DeleteAbilityThread(s, {q})
<1>3. d = DeleteThreads(u, {q})
  BY DEF DeleteAbilityThread
<1>4. Same(s, u, {"async"}) /\ u.async = NoToken
  <2>1. q.native \in BOOLEAN
    BY <1>1 DEF RecordType
  <2>2. Same(s, u, {"async"})
    BY <1>2 DEF Same, Fields
  <2>3. u.async = NoToken
    BY <1>1, <1>2, <2>1 DEF Fields
  <2>. QED
    BY <2>2, <2>3
<1>5. {r.token : r \in {p \in {q} : p.thread}} = {h}
  BY <1>1
<1>. HIDE DEF u, d
<1>6. /\ u.threads = [t \in {h} |-> s.threads[h]] /\ u.dangling = FALSE
      /\ u.nativeQ = <<>> /\ DOMAIN u = Fields
  BY <1>2, <1>4 DEF Same, Fields
<1>7. d = [u EXCEPT !.threads = [t \in DOMAIN u.threads \ {h} |-> u.threads[t]],
                    !.dangling = u.dangling \/ \E i \in DOMAIN u.nativeQ : u.nativeQ[i].token \in {h}]
  BY <1>3, <1>5 DEF DeleteThreads
<1>8. (u.dangling \/ \E i \in DOMAIN u.nativeQ : u.nativeQ[i].token \in {h}) = FALSE
  BY <1>6
<1>9. DOMAIN u.threads \ {h} = {}
  BY <1>6
<1>10. /\ Same(u, d, {"threads", "dangling"}) /\ d.dangling = FALSE
       /\ DOMAIN d.threads = {}
  BY <1>6, <1>7, <1>8, <1>9 DEF Same, Fields
<1>11. Same(s, d, {"threads", "async"}) /\ d.async = NoToken
  BY <1>2, <1>4, <1>10 DEF Same, Fields
<1>. QED
  BY <1>10, <1>11 DEF d

\* The running ability, stopped, is deleted if it was terminated and stays in the
\* list without a thread if not.
LEMMA Vacated ==
    ASSUME NEW s, NEW h, NEW a, On(s, h, a), NEW q \in Of(s.list), q.token = h,
           q.state = "STOP", Quiet(s, h), Follows(s.list, h, s.pending)
    PROVE  LET v == IF q.terminated THEN DeleteRecordInfo(s, h)
                    ELSE Put(DeleteAbilityThread(s, {q}), [q EXCEPT !.thread = FALSE])
           IN  /\ Vacant(v) /\ Same(s, v, {"list", "seen", "threads", "async"})
               /\ v.pending # 0 => v.list[1].token = v.pending
<1>1. /\ q \in RecordType /\ Has(s.list, h) /\ Get(s.list, h) = q /\ q.app = a
      /\ s.nativeQ = <<>> /\ NoReport(s.amsQ)
  BY Runner DEF Quiet, Sent
<1>. DEFINE d == DeleteAbilityThread(s, {q})
<1>2. /\ Same(s, d, {"threads", "async"})
      /\ DOMAIN d.threads = {} /\ d.async = NoToken
  BY <1>1, ThreadGone
<1>. HIDE DEF d
<1>3. /\ Listed(s.list, s.tokens) /\ Distinct(s.list, s.tokens) /\ DOMAIN s = Fields
      /\ q.token = LauncherToken => ~q.terminated
  BY DEF On, Listed, Typed, Distinct
<1>4. \A p \in Of(s.list) : p # q => p.token # h /\ ~p.thread /\ p.state = "STOP"
  <2>1. \A p \in Of(s.list) : p.token = h => p = q
    BY <1>3, Members
  <2>. QED
    BY <2>1, <1>3, Members DEF On, Alone, RecordType
<1>5. CASE q.terminated
  <2>. DEFINE c == Erase(s.list, h)
              v == DeleteRecordInfo(s, h)
  <2>1. v = NotifyAbilityRecordCleanup([d EXCEPT !.list = c], {q})
    <3>1. \A i \in DOMAIN s.list : s.list[i] \notin {q} <=> s.list[i].token # h
      BY <1>4 DEF Of
    <3>2. {i \in DOMAIN s.list : s.list[i] \notin {q}} = {i \in DOMAIN s.list : s.list[i].token # h}
      BY <3>1
    <3>3. v = DeleteRecords(s, {q})
      BY <1>1 DEF DeleteRecordInfo
    <3>4. d.list = s.list
      BY <1>2 DEF Same, Fields
    <3>. QED
      BY <3>2, <3>3, <3>4 DEF DeleteRecords, Erase, d
  <2>2. /\ Distinct(c, s.tokens) /\ Of(c) = Of(s.list) \ {q}
        /\ s.list[1] # q => c # <<>> /\ c[1] = s.list[1]
        /\ s.list[1] = q /\ Len(s.list) > 1 => c # <<>> /\ c[1] = s.list[2]
    BY <1>3, EraseFacts
  <2>. HIDE DEF c, v
  <2>3. /\ Same(s, v, {"list", "seen", "threads", "async"}) /\ v.list = c
        /\ v.seen = [b \in App |-> IF \E p \in {q} : p.app = b THEN "GONE" ELSE s.seen[b]]
        /\ DOMAIN v.threads = {} /\ v.async = NoToken
    BY <1>2, <2>1 DEF NotifyAbilityRecordCleanup, Same, Fields
  <2>4. Listed(c, s.tokens)
    <3>1. PICK p \in Of(s.list) : p.token = LauncherToken
      BY <1>3 DEF Listed
    <3>2. p # q
      BY <1>3, <1>5, <3>1
    <3>. QED
      BY <2>2, <3>1, <3>2 DEF Listed
  <2>5. Watched(c, v.seen)
    <3>1. \A p \in Of(s.list) : p.app = a => p = q
      BY <1>1, <1>3, Members
    <3>2. v.seen = [b \in App |-> IF b = a THEN "GONE" ELSE s.seen[b]]
      BY <1>1, <2>3
    <3>3. \A p \in Of(c) : p.app # a /\ p.app \in App
      BY <2>2, <3>1, <1>3, Members DEF RecordType
    <3>4. \A p \in Of(c) : v.seen[p.app] = s.seen[p.app]
      BY <3>2, <3>3
    <3>5. \A b \in App : (\A p \in Of(c) : p.app # b) => v.seen[b] \in {"NONE", "GONE", "STOP"}
      <4>1. SUFFICES ASSUME NEW b \in App, \A p \in Of(c) : p.app # b, b # a
                     PROVE  v.seen[b] \in {"NONE", "GONE", "STOP"}
        BY <3>2
      <4>2. \A p \in Of(s.list) : p.app # b
        BY <1>1, <2>2, <4>1
      <4>. QED
        BY <3>2, <4>1, <4>2 DEF On, Watched
    <3>6. v.seen = [b \in App |-> v.seen[b]]
      BY <3>2
    <3>. QED
      BY <2>2, <3>4, <3>5, <3>6 DEF On, Watched
  <2>6. \A p \in Of(c) : ~p.thread /\ p.state = "STOP"
    BY <1>4, <2>2
  <2>7. c # <<>>
    BY <2>4, First
  <2>8. Vacant(v)
    BY <1>1, <2>3, <2>4, <2>5, <2>6, <2>7 DEF On, Typed, Vacant, Same, Fields
  <2>9. v.pending # 0 => v.list[1].token = v.pending
    <3>1. SUFFICES ASSUME s.pending # 0 PROVE c[1].token = s.pending
      BY <2>3 DEF Same, Fields
    <3>2. CASE s.list[1].token = s.pending
      BY <2>2, <3>1, <3>2 DEF Follows
    <3>3. CASE s.list[1].token = h /\ Len(s.list) > 1 /\ s.list[2].token = s.pending
      <4>1. s.list[1] \in Of(s.list)
        BY <1>3, First
      <4>2. s.list[1] = q
        BY <1>4, <3>3, <4>1
      <4>. QED
        BY <2>2, <3>3, <4>2
    <3>. QED
      BY <3>1, <3>2, <3>3 DEF Follows
  <2>. QED
    BY <1>5, <2>3, <2>8, <2>9 DEF v
<1>6. CASE ~q.terminated
  <2>. DEFINE x == [q EXCEPT !.thread = FALSE]
              c == Changed(s.list, x)
              v == Put(d, x)
  <2>1. /\ x \in RecordType /\ x.token = q.token /\ x.app = q.app /\ x.state = "STOP"
        /\ ~x.thread /\ ~x.terminated
    BY <1>1, <1>6 DEF RecordType
  <2>. HIDE DEF x
  <2>2. /\ Same(s, v, {"list", "seen", "threads", "async"}) /\ v.list = c
        /\ v.seen = s.seen /\ DOMAIN v.threads = {} /\ v.async = NoToken
    BY <1>2 DEF Put, Changed, Same, Fields
  <2>3. /\ Distinct(c, s.tokens) /\ Of(c) = (Of(s.list) \ {q}) \cup {x}
        /\ DOMAIN c = DOMAIN s.list /\ Len(c) = Len(s.list)
        /\ \A i \in DOMAIN s.list : c[i] = IF s.list[i] = q THEN x ELSE s.list[i]
    BY <1>3, <2>1, ChangedFacts
  <2>. HIDE DEF c, v
  <2>4. Listed(c, s.tokens)
    BY <1>3, <2>1, <2>3 DEF Listed
  <2>5. Watched(c, s.seen)
    <3>1. \A p \in Of(c) : s.seen[p.app] \in {"NONE", "GONE", p.state}
      BY <2>1, <2>3 DEF On, Watched
    <3>2. \A b \in App : (\A p \in Of(c) : p.app # b) => (\A p \in Of(s.list) : p.app # b)
      BY <2>1, <2>3
    <3>. QED
      BY <3>1, <3>2 DEF On, Watched
  <2>6. \A p \in Of(c) : ~p.thread /\ p.state = "STOP"
    BY <1>4, <2>1, <2>3
  <2>7. c # <<>>
    BY <2>4, First
  <2>8. Vacant(v)
    BY <1>1, <2>2, <2>4, <2>5, <2>6, <2>7 DEF On, Typed, Vacant, Same, Fields
  <2>9. v.pending # 0 => v.list[1].token = v.pending
    <3>1. SUFFICES ASSUME s.pending # 0 PROVE c[1].token = s.pending
      BY <2>2 DEF Same, Fields
    <3>2. s.list[1] \in Of(s.list) /\ 1 \in DOMAIN s.list
      BY <1>3, First
    <3>3. s.list[1].token = s.pending
      BY <1>4, <1>6, <3>1, <3>2 DEF Follows
    <3>. QED
      BY <2>1, <2>3, <3>2, <3>3
  <2>. QED
    BY <1>6, <2>2, <2>8, <2>9 DEF v, x, d
<1>. QED
  BY <1>5, <1>6

\* The task of the ability on top is created and asked to create the ability.
LEMMA Created ==
    ASSUME Regular, NEW s, Vacant(s), NEW q, q = s.list[1]
    PROVE  LET r == CreateAppTask(s, q, {})
           IN  /\ Same(s, r, {"list", "threads", "nativeQ", "async", "ret"}) /\ r.ret = "ok"
               /\ On(r, q.token, q.app) /\ Asked(r, q.token, "CREATE", "NONE")
               /\ r.list[1].token = q.token
<1>1. /\ Listed(s.list, s.tokens) /\ Distinct(s.list, s.tokens) /\ DOMAIN s = Fields
      /\ q \in Of(s.list) /\ q \in RecordType /\ 1 \in DOMAIN s.list
  BY First DEF Vacant, Listed, Typed
<1>. DEFINE h == q.token
            x == [q EXCEPT !.thread = TRUE, !.state = "STOP"]
            u == Ok(IF q.native THEN InitNativeThread(s, q) ELSE InitJsThread(s, q))
            c == Changed(s.list, x)
            v == Put(u, x)
            w == SchedulerLifecycle(v, h, "INITIAL")
            r == CreateAppTask(s, q, {})
<1>2. /\ x \in RecordType /\ x.token = q.token /\ x.app = q.app /\ x.state = "STOP"
      /\ x.thread /\ x.native = q.native /\ x.terminated = q.terminated
  BY <1>1 DEF RecordType
<1>3. /\ Same(s, u, {"threads", "async", "ret"}) /\ u.ret = "ok"
      /\ u.threads = [t \in {h} |-> [native |-> q.native, life |-> "NONE", inbox |-> <<>>]]
      /\ u.async = IF q.native THEN NoToken ELSE h
  <2>. DEFINE n == NewThread(s, q)
  <2>1. /\ Same(s, n, {"threads"})
        /\ n.threads = [t \in DOMAIN s.threads \cup {h} |->
                          IF t = h THEN [native |-> q.native, life |-> "NONE", inbox |-> <<>>]
                          ELSE s.threads[t]]
    BY <1>1 DEF NewThread, Same, Fields
  <2>2. n.threads = [t \in {h} |-> [native |-> q.native, life |-> "NONE", inbox |-> <<>>]]
    BY <2>1 DEF Vacant
  <2>3. q.native \in BOOLEAN /\ s.async = NoToken
    BY <1>1 DEF RecordType, Vacant
  <2>. HIDE DEF n
  <2>4. CASE q.native
    <3>1. u = Ok(n)
      BY <2>4 DEF InitNativeThread, n
    <3>. QED
      BY <2>1, <2>2, <2>3, <2>4, <3>1 DEF Ok, Same, Fields
  <2>5. CASE ~q.native
    <3>1. u = Ok([n EXCEPT !.async = h])
      BY <2>5 DEF InitJsThread, n
    <3>. QED
      BY <2>1, <2>2, <2>3, <2>5, <3>1 DEF Ok, Same, Fields
  <2>. QED
    BY <2>3, <2>4, <2>5
<1>4. r = Ok(w)
  <2>1. InitAbilityThread(s, q, {}) = u
    BY DEF InitAbilityThread
  <2>2. u.ret # "error" /\ MultiTasks
    BY <1>3 DEF Regular
  <2>. HIDE DEF u, x
  <2>. QED
    BY <2>1, <2>2 DEF CreateAppTask, x
<1>. HIDE DEF u, x, h
<1>5. /\ Same(s, v, {"list", "threads", "async", "ret"}) /\ v.list = c
      /\ v.threads = u.threads /\ v.async = u.async
  BY <1>3 DEF Put, Changed, Same, Fields
<1>6. /\ Distinct(c, s.tokens) /\ Of(c) = (Of(s.list) \ {q}) \cup {x}
      /\ DOMAIN c = DOMAIN s.list /\ Len(c) = Len(s.list)
      /\ \A i \in DOMAIN s.list : c[i] = IF s.list[i] = q THEN x ELSE s.list[i]
  <2>1. x.token = LauncherToken => ~x.terminated
    BY <1>1, <1>2 DEF Distinct
  <2>. QED
    BY <1>1, <1>2, <2>1, ChangedFacts
<1>. HIDE DEF c, v, w, r
<1>7. Listed(c, s.tokens)
  BY <1>1, <1>2, <1>6 DEF Listed
<1>8. Watched(c, s.seen)
  <2>0. q.state = "STOP"
    BY <1>1 DEF Vacant
  <2>1. \A p \in Of(c) : s.seen[p.app] \in {"NONE", "GONE", p.state}
    BY <1>1, <1>2, <1>6, <2>0 DEF Vacant, Watched
  <2>2. \A b \in App : (\A p \in Of(c) : p.app # b) => (\A p \in Of(s.list) : p.app # b)
    BY <1>2, <1>6
  <2>. QED
    BY <2>1, <2>2 DEF Vacant, Watched
<1>9. Alone(c, v.threads, v.async, h, q.app)
  <2>1. v.threads = [t \in {h} |-> [native |-> q.native, life |-> "NONE", inbox |-> <<>>]]
    BY <1>3, <1>5
  <2>2. /\ v.threads = [t \in {h} |-> v.threads[h]]
        /\ DOMAIN v.threads[h] = {"native", "life", "inbox"}
        /\ v.threads[h].native = q.native
    BY <2>1
  <2>3. \A p \in Of(s.list) : p # q => p.token # h
    BY <1>1, Members DEF h
  <2>4. \A p \in Of(c) : (p.thread <=> p.token = h) /\ (p.token # h => p.state = "STOP")
    BY <1>2, <1>6, <2>3 DEF Vacant, h
  <2>5. x \in Of(c) /\ x.token = h /\ x.app = q.app /\ x.native = q.native
    BY <1>2, <1>6 DEF h
  <2>6. v.async = IF q.native THEN NoToken ELSE h
    BY <1>3, <1>5
  <2>. QED
    BY <2>2, <2>4, <2>5, <2>6 DEF Alone
<1>10. On(v, h, q.app)
  BY <1>5, <1>7, <1>8, <1>9 DEF Vacant, On, Typed, Same, Fields
<1>11. Quiet(v, h) /\ v.threads[h].life = "NONE"
  <2>1. v.nativeQ = <<>> /\ NoReport(v.amsQ)
    BY <1>5 DEF Vacant, Same, Fields
  <2>. QED
    BY <1>3, <1>5, <2>1 DEF Quiet, Sent
<1>12. w = SendMsgToAbilityThread(v, x, "CREATE")
  <2>1. x \in Of(v.list) /\ x.token = h
    BY <1>2, <1>5, <1>6 DEF h
  <2>2. Has(v.list, h) /\ Get(v.list, h) = x
    BY <1>10, <2>1, Runner
  <2>. QED
    BY <2>2 DEF SchedulerLifecycle, MsgOf, Regular, w
<1>13. /\ On(w, h, q.app) /\ Same(v, w, {"threads", "nativeQ", "ret"})
       /\ w.ret = "ok" /\ Asked(w, h, "CREATE", v.threads[h].life)
  <2>1. x \in Of(v.list) /\ x.token = h
    BY <1>2, <1>5, <1>6 DEF h
  <2>. QED
    BY <1>10, <1>11, <1>12, <2>1, SendOn
<1>14. Same(w, r, {"ret"}) /\ r.ret = "ok"
  BY <1>4, <1>13 DEF Ok, Same, Fields
<1>15. Same(s, r, {"list", "threads", "nativeQ", "async", "ret"})
  BY <1>5, <1>13, <1>14 DEF Same, Fields
<1>16. On(r, h, q.app) /\ Asked(r, h, "CREATE", "NONE")
  <2>1. /\ r.list = w.list /\ r.threads = w.threads /\ r.nativeQ = w.nativeQ
        /\ r.amsQ = w.amsQ
    BY <1>14 DEF Same, Fields
  <2>2. Asked(r, h, "CREATE", "NONE")
    BY <1>11, <1>13, <2>1 DEF Asked
  <2>3. On(r, h, q.app)
    BY <1>13, <1>14 DEF On, Typed, Same, Fields
  <2>. QED
    BY <2>2, <2>3
<1>17. r.list[1].token = h
  <2>1. r.list = c
    BY <1>5, <1>13, <1>14 DEF Same, Fields
  <2>. QED
    BY <1>1, <1>2, <1>6, <2>1 DEF h
<1>. QED
  BY <1>14, <1>15, <1>16, <1>17 DEF r, h

\* When an ability has gone the one on top is created.
LEMMA Restarted ==
    ASSUME Regular, NEW s, Vacant(s), s.pending # 0 => s.list[1].token = s.pending,
           NEW q, q = s.list[1]
    PROVE  LET r == MRestart(s, {})
           IN  /\ Same(s, r, {"list", "threads", "nativeQ", "async", "ret", "pending"})
               /\ r.ret = "ok" /\ On(r, q.token, q.app)
               /\ Coming(r, q.token) /\ r.threads[q.token].life = "NONE"
<1>1. /\ q \in Of(s.list) /\ Distinct(s.list, s.tokens) /\ DOMAIN s = Fields
  BY First DEF Vacant, Listed, Typed
<1>2. Has(s.list, q.token) /\ Get(s.list, q.token) = q
  BY <1>1, Members
<1>. DEFINE c == CreateAppTask(s, q, {})
            r == MRestart(s, {})
<1>3. /\ Same(s, c, {"list", "threads", "nativeQ", "async", "ret"}) /\ c.ret = "ok"
      /\ On(c, q.token, q.app) /\ Asked(c, q.token, "CREATE", "NONE")
      /\ c.list[1].token = q.token
  BY Created
<1>4. r = [c EXCEPT !.pending = 0]
  <2>1. (IF s.pending # 0 THEN s.pending ELSE s.list[1].token) = q.token
    OBVIOUS
  <2>2. c.ret # "error"
    BY <1>3
  <2>. HIDE DEF c
  <2>. QED
    BY <1>2, <2>1, <2>2 DEF MRestart, c
<1>. HIDE DEF c, r
<1>5. Same(c, r, {"pending"}) /\ r.pending = 0
  BY <1>3, <1>4 DEF Same, Fields
<1>6. /\ r.list = c.list /\ r.threads = c.threads /\ r.nativeQ = c.nativeQ
      /\ r.amsQ = c.amsQ /\ r.ret = c.ret
  BY <1>5 DEF Same, Fields
<1>7. On(r, q.token, q.app)
  BY <1>3, <1>5, SliteAssumption DEF On, Typed, Same, Fields, Token
<1>8. Asked(r, q.token, "CREATE", "NONE")
  BY <1>3, <1>6 DEF Asked
<1>9. Coming(r, q.token) /\ r.threads[q.token].life = "NONE"
  BY <1>3, <1>5, <1>6, <1>8 DEF Coming, Asked
<1>10. Same(s, r, {"list", "threads", "nativeQ", "async", "ret", "pending"})
  BY <1>3, <1>5 DEF Same, Fields
<1>. QED
  BY <1>3, <1>6, <1>7, <1>9, <1>10 DEF r

\* Other fields of the records may change while the next ability waits for its turn.
LEMMA FollowsKept ==
    ASSUME NEW l, NEW n, Listed(l, n), NEW r, NEW h, NEW p,
           DOMAIN r = DOMAIN l, Len(r) = Len(l),
           \A i \in DOMAIN l : r[i].token = l[i].token /\ r[i].terminated = l[i].terminated,
           Follows(l, h, p)
    PROVE  Follows(r, h, p)
<1>1. 1 \in DOMAIN l /\ DOMAIN l = 1..Len(l) /\ Len(l) \in Nat
  BY First
<1>2. Len(l) > 1 => 2 \in DOMAIN l
  BY <1>1
<1>. QED
  BY <1>1, <1>2 DEF Follows

\* The running ability, which has nothing more to do, ends; the next one comes.
LEMMA Destroyed ==
    ASSUME Regular, NEW s, NEW h, NEW a, On(s, h, a), Quiet(s, h),
           Follows(s.list, h, s.pending)
    PROVE  LET r == MOnDestroyDone(s, h, {})
           IN  /\ Same(s, r, {"list", "seen", "threads", "async", "nativeQ", "ret", "pending"})
               /\ r.ret = "ok"
               /\ \E k \in Token, b \in App : /\ On(r, k, b) /\ Coming(r, k)
                                              /\ r.threads[k].life = "NONE"
<1>. DEFINE u == SetAbilityStateAndNotify(s, h, "STOP")
            r == MOnDestroyDone(s, h, {})
<1>1. /\ On(u, h, a) /\ Same(s, u, {"list", "seen"})
      /\ DOMAIN u.list = DOMAIN s.list /\ Len(u.list) = Len(s.list)
      /\ \A i \in DOMAIN s.list : /\ u.list[i].token = s.list[i].token
                                  /\ u.list[i].terminated = s.list[i].terminated
      /\ \A q \in Of(u.list) : q.token = h => q.state = "STOP"
  BY Retold
<1>. HIDE DEF u
<1>2. PICK q \in Of(u.list) : q.token = h
  BY <1>1 DEF On, Alone
<1>3. Get(u.list, h) = q /\ q.state = "STOP"
  BY <1>1, <1>2, Runner
<1>4. Has(s.list, h)
  BY Runner DEF On, Alone
<1>5. Quiet(u, h)
  BY <1>1 DEF Quiet, Same, Fields
<1>6. Follows(u.list, h, u.pending)
  <2>1. u.pending = s.pending /\ Listed(s.list, s.tokens)
    BY <1>1 DEF Same, Fields, On
  <2>2. Follows(u.list, h, s.pending)
    BY <1>1, <2>1, FollowsKept
  <2>. QED
    BY <2>1, <2>2
<1>. DEFINE v == IF q.terminated THEN DeleteRecordInfo(u, h)
                 ELSE Put(DeleteAbilityThread(u, {q}), [q EXCEPT !.thread = FALSE])
<1>7. /\ Vacant(v) /\ Same(u, v, {"list", "seen", "threads", "async"})
      /\ v.pending # 0 => v.list[1].token = v.pending
  <2>1. q.token = h /\ q.state = "STOP"
    BY <1>2, <1>3
  <2>. HIDE DEF r
  <2>2. LET d == IF q.terminated THEN DeleteRecordInfo(u, h)
                 ELSE Put(DeleteAbilityThread(u, {q}), [q EXCEPT !.thread = FALSE])
        IN  /\ Vacant(d) /\ Same(u, d, {"list", "seen", "threads", "async"})
            /\ d.pending # 0 => d.list[1].token = d.pending
    BY <1>1, <1>2, <1>5, <1>6, <2>1, Vacated
  <2>. QED
    BY <2>2
<1>8. r = MRestart(v, {})
  <2>1. ~(v.pending = 0 /\ v.list = <<>>)
    BY <1>7 DEF Vacant
  <2>2. r = IF v.pending = 0 /\ v.list = <<>> THEN [v EXCEPT !.dangling = TRUE]
            ELSE MRestart(v, {})
    BY <1>3, <1>4 DEF MOnDestroyDone, u
  <2>. HIDE DEF v, r
  <2>. QED
    BY <2>1, <2>2
<1>. HIDE DEF v, r
<1>. DEFINE p == v.list[1]
            w == MRestart(v, {})
<1>9. /\ Same(v, w, {"list", "threads", "nativeQ", "async", "ret", "pending"})
      /\ w.ret = "ok" /\ On(w, p.token, p.app)
      /\ Coming(w, p.token) /\ w.threads[p.token].life = "NONE"
  BY <1>7, Restarted
<1>10. p.token \in Token /\ p.app \in App
  <2>1. p \in RecordType
    BY <1>7, First DEF Vacant
  <2>. QED
    BY <2>1 DEF RecordType
<1>11. Same(s, r, {"list", "seen", "threads", "async", "nativeQ", "ret", "pending"})
  BY <1>1, <1>7, <1>8, <1>9 DEF Same, Fields
<1>. HIDE DEF p, w
<1>. QED
  BY <1>8, <1>9, <1>10, <1>11 DEF r, w

-----------------------------------------------------------------------------
(* The operations, between switches.                                       *)

\* What an operation comes to that was begun while a, with token h, was at rest:
\* it is done, or it has begun a switch.
Fine(s, r, h, a) ==
    \/ /\ Rest(r, h, a) /\ r.tokens = s.tokens
       /\ r.ret = "error" \/ ~r.scheduling
    \/ /\ r.scheduling /\ r.ret = "ok"
       /\ \E k \in Token, b \in App :
             /\ Going(r, k, b)
             /\ r.threads[k].life = "NONE" \/ (k = h /\ b = a /\ r.threads[k].life = "FOREGROUND")

\* An operation that changes nothing, or fails.
LEMMA FineDone ==
    ASSUME NEW s, NEW h, NEW a, Rest(s, h, a), NEW r,
           Same(s, r, {"ret", "scheduling"}), r.scheduling \in BOOLEAN,
           r.ret = "error" \/ ~r.scheduling
    PROVE  Fine(s, r, h, a)
<1>1. r.ops = s.ops /\ s.ops \in Seq(Allowed) /\ r.tokens = s.tokens
  BY DEF Same, Fields, Rest, On, Typed
<1>2. Same(s, r, {"ret", "scheduling", "ops", "pendingRecord", "launcher", "lost"})
  BY DEF Same
<1>3. Rest(r, h, a)
  BY <1>1, <1>2, Unaffected
<1>. QED
  BY <1>1, <1>3 DEF Fine

\* BACKGROUND is sent to the ability that is to leave.
LEMMA FineSent ==
    ASSUME NEW s, NEW h \in Token, NEW a \in App, On(s, h, a), Quiet(s, h),
           s.threads[h].life = "FOREGROUND", s.scheduling, Follows(s.list, h, s.pending),
           NEW q \in Of(s.list), q.token = h, NEW z
    PROVE  LET r == SendMsgToAbilityThread(s, q, "BACKGROUND")
           IN  Fine(z, r, h, a) /\ Same(s, r, {"threads", "nativeQ", "ret"}) /\ r.ret = "ok"
               /\ On(r, h, a) /\ Asked(r, h, "BACKGROUND", "FOREGROUND")
<1>. DEFINE r == SendMsgToAbilityThread(s, q, "BACKGROUND")
<1>1. /\ On(r, h, a) /\ Same(s, r, {"threads", "nativeQ", "ret"})
      /\ r.ret = "ok" /\ Asked(r, h, "BACKGROUND", s.threads[h].life)
  BY SendOn
<1>. HIDE DEF r
<1>2. r.list = s.list /\ r.pending = s.pending /\ r.scheduling
  BY <1>1 DEF Same, Fields
<1>3. Going(r, h, a)
  BY <1>1, <1>2 DEF Going, Leaving
<1>4. r.threads[h].life = "FOREGROUND"
  BY <1>1 DEF Asked
<1>. QED
  BY <1>1, <1>2, <1>3, <1>4 DEF Fine, r

\* The list without its top.
LEMMA TailFacts ==
    ASSUME NEW l, NEW n, Distinct(l, n), l # <<>>
    PROVE  /\ Distinct(Tail(l), n) /\ Of(Tail(l)) = Of(l) \ {l[1]}
           /\ Len(Tail(l)) = Len(l) - 1
           /\ \A i \in 1..(Len(l) - 1) : Tail(l)[i] = l[i + 1]
<1>. DEFINE r == Tail(l)
<1>0. l \in Seq(RecordType) /\ Len(l) <= Capacity
  BY DEF Distinct
<1>1. /\ DOMAIN l = 1..Len(l) /\ Len(l) \in Nat /\ Len(l) >= 1
      /\ r \in Seq(RecordType) /\ Len(r) = Len(l) - 1 /\ DOMAIN r = 1..(Len(l) - 1)
      /\ \A i \in 1..(Len(l) - 1) : r[i] = l[i + 1]
  <2>. HIDE DEF RecordType
  <2>. QED
    BY <1>0
<1>. HIDE DEF r
<1>2. \A i \in 1..(Len(l) - 1) : i + 1 \in DOMAIN l /\ i + 1 # 1
  BY <1>1
<1>3. \A i \in DOMAIN l : i # 1 => i - 1 \in DOMAIN r /\ r[i - 1] = l[i]
  BY <1>1
<1>4. \A i \in DOMAIN l : i # 1 => l[i] # l[1]
  BY <1>1 DEF Distinct
<1>5. Of(r) = Of(l) \ {l[1]}
  <2>1. \A q \in Of(r) : q \in Of(l) /\ q # l[1]
    BY <1>1, <1>2, <1>4 DEF Of
  <2>2. \A q \in Of(l) : q # l[1] => q \in Of(r)
    BY <1>3 DEF Of
  <2>. QED
    BY <2>1, <2>2
<1>6. ASSUME NEW i \in DOMAIN r, NEW j \in DOMAIN r, r[i].token = r[j].token \/ r[i].app = r[j].app
      PROVE  i = j
  <2>1. i + 1 = j + 1
    BY <1>1, <1>2, <1>6 DEF Distinct
  <2>. QED
    BY <1>1, <2>1
<1>7. Len(r) <= Capacity
  BY <1>0, <1>1, SliteAssumption
<1>8. Distinct(r, n)
  BY <1>1, <1>5, <1>6, <1>7 DEF Distinct
<1>. QED
  BY <1>1, <1>5, <1>8 DEF r

\* Add: below the capacity nothing has to go.
LEMMA AddOnTop ==
    ASSUME NEW l, NEW n \in Int, Distinct(l, n), Len(l) < Capacity,
           NEW x \in RecordType, x.token < n,
           x.token = LauncherToken <=> x.app = Startup, x.token = LauncherToken => ~x.terminated,
           \A q \in Of(l) : q.token # x.token /\ q.app # x.app
    PROVE  LET r == Add(l, x)
           IN  /\ Distinct(r, n) /\ Of(r) = {x} \cup Of(l)
               /\ r # <<>> /\ r[1] = x /\ Len(r) = Len(l) + 1
               /\ \A i \in DOMAIN l : r[i + 1] = l[i]
<1>1. Len(l) \in Nat /\ Capacity \in Nat
  BY SliteAssumption DEF Distinct
<1>2. ~(Len(l) >= Capacity)
  BY <1>1
<1>3. ~Has(l, x.token)
  BY DEF Has, Of
<1>4. Add(l, x) = <<x>> \o l
  BY <1>2, <1>3 DEF Add
<1>. QED
  BY <1>4, OnTop

\* The same records in another order, but for a change to one of them.
LEMMA ListOn ==
    ASSUME NEW s, NEW h, NEW a, On(s, h, a), NEW q \in Of(s.list),
           NEW x \in RecordType, x.token = q.token, x.app = q.app, x.native = q.native,
           x.thread = q.thread, x.state = q.state,
           NEW r, Same(s, r, {"list", "pending"}), r.pending \in Token,
           Distinct(r.list, s.tokens), Of(r.list) = (Of(s.list) \ {q}) \cup {x}
    PROVE  On(r, h, a)
<1>1. Listed(r.list, s.tokens)
  BY DEF On, Listed
<1>2. Alone(r.list, s.threads, s.async, h, a)
  BY DEF On, Alone
<1>3. Watched(r.list, s.seen)
  BY DEF On, Watched
<1>. QED
  BY <1>1, <1>2, <1>3 DEF On, Typed, Same, Fields

\* MTerminateTop: the ability on top leaves, the one below it follows.
LEMMA TerminatedTop ==
    ASSUME Regular, NEW s, NEW h \in Token, NEW a \in App, Rest(s, h, a), s.scheduling,
           Len(s.list) > 1
    PROVE  Fine(s, MTerminateTop(s), h, a)
<1>. DEFINE l == s.list
            n == s.tokens
            top == l[1]
            below == l[2]
            popped == Tail(l)
            x == [top EXCEPT !.terminated = TRUE]
            kept == IF IsPermanentAbility(top)
                    THEN Add(Add(Tail(popped), top), below)
                    ELSE Add(popped, x)
            v == [s EXCEPT !.list = kept, !.pending = below.token]
            y == IF IsPermanentAbility(top) THEN top ELSE x
<1>0. On(s, h, a) /\ Distinct(l, n) /\ Listed(l, n) /\ n \in Int /\ DOMAIN s = Fields
  BY DEF Rest, On, Listed, Typed
<1>1. /\ l # <<>> /\ DOMAIN l = 1..Len(l) /\ Len(l) \in Nat /\ Len(l) <= Capacity
      /\ Capacity \in Nat /\ 1 \in DOMAIN l /\ 2 \in DOMAIN l /\ top \in Of(l)
  BY <1>0, First, SliteAssumption DEF Distinct
<1>2. /\ top \in RecordType /\ top.token = h /\ below \in RecordType /\ below \in Of(l)
      /\ top # below
      /\ \A q \in Of(l) : q # top => q.token # h /\ q.app # top.app
      /\ \A q \in Of(l) : q # below => q.token # below.token /\ q.app # below.app
  <2>1. below \in Of(l) /\ top.token = h
    BY <1>1 DEF Of, Rest
  <2>2. top # below
    BY <1>0, <1>1 DEF Distinct
  <2>. QED
    BY <1>0, <1>1, <2>1, <2>2, Members
<1>3. /\ top.token < n /\ below.token < n
      /\ top.token = LauncherToken <=> top.app = Startup
      /\ top.token = LauncherToken => ~top.terminated
      /\ below.token = LauncherToken <=> below.app = Startup
      /\ below.token = LauncherToken => ~below.terminated
  BY <1>0, <1>1, <1>2 DEF Distinct
<1>4. IsPermanentAbility(top) <=> top.token = LauncherToken
  BY <1>0, <1>1, Permanent
<1>5. /\ x \in RecordType /\ x.token = top.token /\ x.app = top.app /\ x.native = top.native
      /\ x.thread = top.thread /\ x.state = top.state /\ x.terminated
  BY <1>2 DEF RecordType
<1>. HIDE DEF x
<1>6. /\ Distinct(popped, n) /\ Of(popped) = Of(l) \ {top}
      /\ Len(popped) = Len(l) - 1 /\ popped[1] = below
  <2>1. 1 \in 1..(Len(l) - 1)
    BY <1>1
  <2>2. /\ Distinct(Tail(l), n) /\ Of(Tail(l)) = Of(l) \ {l[1]}
        /\ Len(Tail(l)) = Len(l) - 1
        /\ \A i \in 1..(Len(l) - 1) : Tail(l)[i] = l[i + 1]
    BY <1>0, <1>1, TailFacts
  <2>. QED
    BY <2>1, <2>2
<1>. HIDE DEF popped
<1>7. popped # <<>> /\ 1 \in DOMAIN popped
  <2>1. popped \in Seq(RecordType)
    BY <1>6 DEF Distinct
  <2>. HIDE DEF RecordType
  <2>. QED
    BY <1>1, <1>6, <2>1
<1>8. /\ Distinct(kept, n) /\ Of(kept) = (Of(l) \ {top}) \cup {y} /\ kept # <<>>
      /\ \/ kept[1].token = below.token
         \/ kept[1].token = h /\ kept[1].terminated /\ Len(kept) > 1 /\ kept[2].token = below.token
  <2>1. CASE IsPermanentAbility(top)
    <3>. DEFINE t == Tail(popped)
                k == Add(t, top)
                m == Add(k, below)
    <3>1. Distinct(t, n) /\ Of(t) = Of(popped) \ {below} /\ Len(t) = Len(popped) - 1
      BY <1>6, <1>7, TailFacts
    <3>. HIDE DEF t
    <3>2. Len(t) < Capacity /\ \A q \in Of(t) : q.token # top.token /\ q.app # top.app
      BY <1>1, <1>2, <1>6, <3>1
    <3>3. Distinct(k, n) /\ Of(k) = {top} \cup Of(t) /\ Len(k) = Len(t) + 1
      BY <1>0, <1>2, <1>3, <3>1, <3>2, AddOnTop
    <3>. HIDE DEF k
    <3>4. Len(k) < Capacity /\ \A q \in Of(k) : q.token # below.token /\ q.app # below.app
      BY <1>1, <1>2, <1>6, <3>1, <3>3
    <3>5. Distinct(m, n) /\ Of(m) = {below} \cup Of(k) /\ m # <<>> /\ m[1] = below
      BY <1>0, <1>2, <1>3, <3>3, <3>4, AddOnTop
    <3>. HIDE DEF m
    <3>6. Of(m) = (Of(l) \ {top}) \cup {top}
      BY <1>1, <1>2, <1>6, <3>1, <3>3, <3>5
    <3>7. kept = m /\ y = top
      BY <2>1 DEF m, k, t
    <3>. HIDE DEF kept, y
    <3>. QED
      BY <3>5, <3>6, <3>7
  <2>2. CASE ~IsPermanentAbility(top)
    <3>. DEFINE m == Add(popped, x)
    <3>1. Len(popped) < Capacity /\ \A q \in Of(popped) : q.token # x.token /\ q.app # x.app
      BY <1>1, <1>2, <1>5, <1>6
    <3>2. /\ x.token < n
          /\ x.token = LauncherToken <=> x.app = Startup
          /\ x.token = LauncherToken => ~x.terminated
      BY <1>3, <1>4, <1>5, <2>2
    <3>3. /\ Distinct(m, n) /\ Of(m) = {x} \cup Of(popped)
          /\ m # <<>> /\ m[1] = x /\ Len(m) = Len(popped) + 1
          /\ \A i \in DOMAIN popped : m[i + 1] = popped[i]
      BY <1>0, <1>5, <1>6, <3>1, <3>2, AddOnTop
    <3>. HIDE DEF m
    <3>4. m[2] = below /\ Len(m) > 1
      <4>1. m[1 + 1] = popped[1] /\ 1 + 1 = 2
        BY <1>7, <3>3
      <4>. QED
        BY <1>1, <1>6, <3>3, <4>1
    <3>5. kept = m /\ y = x
      BY <2>2 DEF m
    <3>. HIDE DEF kept, y
    <3>. QED
      BY <1>2, <1>5, <1>6, <3>3, <3>4, <3>5
  <2>. QED
    BY <2>1, <2>2
<1>9. /\ y \in RecordType /\ y.token = top.token /\ y.app = top.app /\ y.native = top.native
      /\ y.thread = top.thread /\ y.state = top.state
  BY <1>2, <1>5
<1>. HIDE DEF kept, y
<1>10. /\ Same(s, v, {"list", "pending"}) /\ v.list = kept /\ v.pending = below.token
       /\ below.token \in Token /\ below.token # h
  <2>1. below.token \in Token
    BY <1>2 DEF RecordType
  <2>2. below.token # h
    BY <1>2
  <2>. QED
    BY <1>0, <2>1, <2>2 DEF Same, Fields
<1>11. MTerminateTop(s) = SendMsgToAbilityThread(v, Get(kept, top.token), "BACKGROUND")
  <2>0. \A k \in Nat : k > 1 => k # 1
    OBVIOUS
  <2>1. Len(s.list) # 1
    BY <1>1, <2>0, Zenon
  <2>. QED
    BY <2>1 DEF MTerminateTop, kept, x, popped
<1>. HIDE DEF v
<1>12. On(v, h, a)
  BY <1>0, <1>1, <1>8, <1>9, <1>10, ListOn
<1>13. y \in Of(v.list) /\ y.token = h /\ Get(kept, top.token) = y
  <2>1. y \in Of(v.list) /\ y.token = h
    BY <1>2, <1>8, <1>9, <1>10
  <2>. QED
    BY <1>2, <1>10, <1>12, <2>1, Runner
<1>14. Quiet(v, h) /\ v.threads[h].life = "FOREGROUND" /\ v.scheduling
  BY <1>10 DEF Rest, Quiet, Same, Fields
<1>15. Follows(v.list, h, v.pending)
  BY <1>8, <1>10 DEF Follows
<1>. DEFINE r == SendMsgToAbilityThread(v, y, "BACKGROUND")
<1>16. Fine(s, r, h, a)
  BY <1>12, <1>13, <1>14, <1>15, FineSent
<1>. HIDE DEF r
<1>. QED
  BY <1>11, <1>13, <1>16 DEF r

\* Records below the top are deleted.
LEMMA RestDeleted ==
    ASSUME NEW s, NEW h, NEW a, Rest(s, h, a), NEW r, On(r, h, a), Same(s, r, {"list", "seen"}),
           r.list[1] = s.list[1], Of(r.list) \subseteq Of(s.list)
    PROVE  Rest(r, h, a)
<1>1. /\ r.pending = s.pending /\ r.threads = s.threads /\ r.nativeQ = s.nativeQ
      /\ r.amsQ = s.amsQ
  BY DEF Same, Fields
<1>. QED
  BY <1>1 DEF Rest, Quiet

\* Of the first state, Fine looks at the counter of tokens alone.
LEMMA FineFor ==
    ASSUME NEW s, NEW z, NEW r, NEW h, NEW a, z.tokens = s.tokens, Fine(z, r, h, a)
    PROVE  Fine(s, r, h, a)
BY DEF Fine

\* MTerminateToken in all its cases.
LEMMA TerminatedToken ==
    ASSUME Regular, NEW s, NEW h \in Token, NEW a \in App, Rest(s, h, a), s.scheduling, NEW t
    PROVE  Fine(s, MTerminateToken(s, t), h, a)
<1>. DEFINE r == MTerminateToken(s, t)
            l == s.list
<1>0. /\ On(s, h, a) /\ Distinct(l, s.tokens) /\ Listed(l, s.tokens) /\ DOMAIN s = Fields
      /\ l # <<>> /\ l[1] \in Of(l) /\ l[1].token = h /\ Len(l) \in Nat /\ Len(l) >= 1
  BY First DEF Rest, On, Listed, Typed
<1>1. CASE Len(l) = 1 /\ IsPermanentAbility(l[1])
  <2>1. r = Ok(Idle(s))
    BY <1>0, <1>1 DEF MTerminateToken
  <2>2. Same(s, r, {"ret", "scheduling"}) /\ r.scheduling = FALSE
    BY <1>0, <2>1 DEF Ok, Idle, Same, Fields
  <2>. QED
    BY <2>2, FineDone
<1>2. CASE ~(Len(l) = 1 /\ IsPermanentAbility(l[1])) /\ t = l[1].token
  <2>1. r = MTerminateTop(s)
    BY <1>0, <1>2 DEF MTerminateToken
  <2>2. Len(l) > 1
    <3>0. \A k \in Nat : k >= 1 /\ ~(k = 1) => k > 1
      OBVIOUS
    <3>1. SUFFICES ASSUME Len(l) = 1 PROVE FALSE
      BY <1>0, <3>0, Zenon
    <3>2. PICK q \in Of(l) : q.token = LauncherToken
      BY <1>0 DEF Listed
    <3>3. l \in Seq(RecordType) /\ DOMAIN l = {1}
      BY <1>0, <3>1 DEF Distinct
    <3>4. q = l[1]
      BY <3>2, <3>3 DEF Of
    <3>. QED
      BY <1>2, <3>1, <3>2, <3>4 DEF IsPermanentAbility
  <2>. QED
    BY <2>1, <2>2, TerminatedTop
<1>3. CASE /\ ~(Len(l) = 1 /\ IsPermanentAbility(l[1])) /\ t # l[1].token
           /\ ~Has(l, t) \/ IsPermanentAbility(Get(l, t))
  <2>1. r = Error(Idle(s))
    BY <1>0, <1>3 DEF MTerminateToken
  <2>2. Same(s, r, {"ret", "scheduling"}) /\ r.scheduling = FALSE
    BY <1>0, <2>1 DEF Error, Idle, Same, Fields
  <2>. QED
    BY <2>2, FineDone
<1>4. CASE /\ ~(Len(l) = 1 /\ IsPermanentAbility(l[1])) /\ t # l[1].token
           /\ Has(l, t) /\ ~IsPermanentAbility(Get(l, t))
  <2>. DEFINE q == Get(l, t)
              d == DeleteRecords(s, {q})
  <2>1. r = Ok(Idle(d))
    BY <1>0, <1>4 DEF MTerminateToken, DeleteRecordInfo
  <2>2. q \in Of(l) /\ q.token = t
    <3>1. PICK p \in Of(l) : p.token = t
      BY <1>0, <1>4, Members
    <3>2. Get(l, p.token) = p
      BY <1>0, Members
    <3>. QED
      BY <3>1, <3>2
  <2>3. q.token # h /\ q.token # LauncherToken
    BY <1>0, <1>4, <2>2 DEF IsPermanentAbility
  <2>. HIDE DEF q
  <2>4. {q} \in SUBSET Of(s.list) /\ \A p \in {q} : p.token # h /\ p.token # LauncherToken
    BY <2>2, <2>3
  <2>5. /\ On(d, h, a) /\ Same(s, d, {"list", "seen"})
        /\ d.list[1] = s.list[1] /\ Of(d.list) = Of(s.list) \ {q}
    <3>1. On(s, h, a) /\ s.list[1].token = h
      BY <1>0
    <3>2. LET v == DeleteRecords(s, {q})
          IN  /\ On(v, h, a) /\ Same(s, v, {"list", "seen"})
              /\ v.list[1] = s.list[1] /\ Of(v.list) = Of(s.list) \ {q}
      <4>. HIDE DEF d, r, l
      <4>. QED
        BY <2>4, <3>1, DeleteOn
    <3>. QED
      BY <3>2
  <2>. HIDE DEF d
  <2>6. Rest(d, h, a) /\ d.tokens = s.tokens
    BY <2>5, RestDeleted DEF Same, Fields
  <2>7. Same(d, r, {"ret", "scheduling"}) /\ r.scheduling = FALSE
    BY <2>1, <2>5 DEF Ok, Idle, Same, Fields
  <2>8. Fine(d, r, h, a)
    BY <2>6, <2>7, FineDone
  <2>. HIDE DEF r
  <2>. QED
    BY <2>6, <2>8, FineFor DEF r
<1>. QED
  BY <1>1, <1>2, <1>3, <1>4

\* The handlers of AbilityMgrServiceSlite, when no ability is being switched.
LEMMA RestScheduling ==
    ASSUME NEW s, NEW h, NEW a, Rest(s, h, a)
    PROVE  /\ Rest(Scheduling(s), h, a) /\ Same(s, Scheduling(s), {"scheduling"})
           /\ Scheduling(s).scheduling = TRUE /\ Scheduling(s).tokens = s.tokens
           /\ Scheduling(s).list = s.list
<1>1. DOMAIN s = Fields /\ s.ops \in Seq(Allowed)
  BY DEF Rest, On, Typed
<1>. DEFINE r == Scheduling(s)
<1>2. Same(s, r, {"scheduling"}) /\ r.scheduling = TRUE
  BY <1>1 DEF Scheduling, Same, Fields
<1>. HIDE DEF r
<1>3. r.ops = s.ops /\ r.tokens = s.tokens /\ r.list = s.list
  BY <1>2 DEF Same, Fields
<1>4. Same(s, r, {"ret", "scheduling", "ops", "pendingRecord", "launcher", "lost"})
  BY <1>2 DEF Same
<1>5. Rest(r, h, a)
  BY <1>1, <1>2, <1>3, <1>4, Unaffected
<1>. QED
  BY <1>2, <1>3, <1>5 DEF r

\* The operations that terminate abilities, one by one.
LEMMA TerminateTokenFine ==
    ASSUME Regular, NEW s, NEW h \in Token, NEW a \in App, Rest(s, h, a), NEW t
    PROVE  Fine(s, TerminateToken(Scheduling(s), t), h, a)
<1>. DEFINE z == Scheduling(s)
<1>1. Rest(z, h, a) /\ z.scheduling /\ z.tokens = s.tokens
  BY RestScheduling
<1>2. TerminateToken(z, t) = MTerminateToken(z, t)
  BY DEF TerminateToken, Regular
<1>. HIDE DEF z
<1>3. Fine(z, MTerminateToken(z, t), h, a)
  BY <1>1, TerminatedToken
<1>. QED
  BY <1>1, <1>2, <1>3, FineFor DEF z

\* TerminateAbility is MTerminateToken in a switch of its own.
LEMMA TerminateAbilityFine ==
    ASSUME Regular, NEW s, NEW h \in Token, NEW a \in App, Rest(s, h, a), ~s.scheduling, NEW t
    PROVE  Fine(s, TerminateAbility(s, t), h, a)
BY TerminateTokenFine DEF TerminateAbility

\* ForceStop is MTerminateToken in a switch of its own.
LEMMA ForceStopFine ==
    ASSUME Regular, NEW s, NEW h \in Token, NEW a \in App, Rest(s, h, a), ~s.scheduling, NEW b
    PROVE  Fine(s, ForceStop(s, b), h, a)
<1>1. DOMAIN s = Fields
  BY DEF Rest, On, Typed
<1>2. CASE HasApp(s.list, b)
  <2>1. ForceStop(s, b) = TerminateToken(Scheduling(s), GetApp(s.list, b).token)
    BY <1>2 DEF ForceStop, Regular
  <2>. QED
    BY <2>1, TerminateTokenFine
<1>3. CASE ~HasApp(s.list, b)
  <2>. DEFINE r == Error(Idle(s))
  <2>1. ForceStop(s, b) = r
    BY <1>3 DEF ForceStop, Regular
  <2>2. Same(s, r, {"ret", "scheduling"}) /\ r.scheduling = FALSE
    BY <1>1 DEF Error, Idle, Same, Fields
  <2>3. Fine(s, r, h, a)
    <3>. HIDE DEF r
    <3>. QED
      BY <2>2, FineDone
  <2>. QED
    BY <2>1, <2>3
<1>. QED
  BY <1>2, <1>3

\* The state after records below the top have been deleted is answered with OK.
LEMMA DeletedFine ==
    ASSUME NEW s, NEW h, NEW a, Rest(s, h, a), ~s.scheduling, NEW d,
           On(d, h, a), Same(s, d, {"list", "seen"}), d.list[1] = s.list[1],
           Of(d.list) \subseteq Of(s.list)
    PROVE  Fine(s, Ok(d), h, a)
<1>. DEFINE r == Ok(d)
<1>1. Rest(d, h, a) /\ d.tokens = s.tokens /\ d.scheduling = s.scheduling /\ d.scheduling \in BOOLEAN
  <2>1. Rest(d, h, a)
    BY RestDeleted
  <2>2. d.scheduling \in BOOLEAN
    BY DEF On, Typed
  <2>. QED
    BY <2>1, <2>2 DEF Same, Fields
<1>2. Same(d, r, {"ret", "scheduling"}) /\ r.scheduling = d.scheduling
  BY DEF Ok, Same, Fields
<1>. HIDE DEF r
<1>3. Fine(d, r, h, a)
  BY <1>1, <1>2, FineDone
<1>. QED
  BY <1>1, <1>3, FineFor DEF r

\* TerminateMission deletes stopped records of its mission.
LEMMA TerminateMissionFine ==
    ASSUME Regular, NEW s, NEW h \in Token, NEW a \in App, Rest(s, h, a), ~s.scheduling, NEW m
    PROVE  Fine(s, TerminateMission(s, m), h, a)
<1>. DEFINE others == GetAbilityList(s.list, m) \ {s.list[1]}
            Stays(r) == r.token = LauncherToken \/ (MultiTasks /\ IsPermanentAbility(r))
            gone == {r \in others : ~Stays(r)}
            d == DeleteRecords(s, gone)
<1>0. /\ On(s, h, a) /\ Distinct(s.list, s.tokens) /\ s.list[1] \in Of(s.list)
      /\ s.list[1].token = h /\ s.list # <<>>
  BY First DEF Rest, On, Listed
<1>1. TerminateMission(s, m) = Ok(d)
  BY <1>0 DEF TerminateMission, Regular
<1>2. gone \in SUBSET Of(s.list)
  BY DEF GetAbilityList, Of
<1>3. \A q \in gone : q.token # h /\ q.token # LauncherToken
  <2>1. \A q \in Of(s.list) : q # s.list[1] => q.token # h
    BY <1>0, Members
  <2>. QED
    BY <1>2, <2>1
<1>. HIDE DEF gone
<1>4. /\ On(d, h, a) /\ Same(s, d, {"list", "seen"})
      /\ d.list[1] = s.list[1] /\ Of(d.list) = Of(s.list) \ gone
  <2>. HIDE DEF d, others, Stays
  <2>0. On(s, h, a) /\ s.list[1].token = h
    BY <1>0
  <2>1. LET v == DeleteRecords(s, gone)
        IN  /\ On(v, h, a) /\ Same(s, v, {"list", "seen"})
            /\ v.list[1] = s.list[1] /\ Of(v.list) = Of(s.list) \ gone
    BY <2>0, <1>2, <1>3, DeleteOn
  <2>. QED
    BY <2>1 DEF d
<1>. HIDE DEF d
<1>. QED
  BY <1>1, <1>4, DeletedFine

\* TerminateAll deletes all stopped records but those that stay.
LEMMA TerminateAllFine ==
    ASSUME Regular, NEW s, NEW h \in Token, NEW a \in App, Rest(s, h, a), ~s.scheduling, NEW b
    PROVE  Fine(s, TerminateAll(s, b), h, a)
<1>. DEFINE l == s.list
            S == {i \in DOMAIN l : i = 1 \/ IsPermanentAbility(l[i]) \/ l[i].app = b}
            kept == Keep(l, S)
            gone == {l[i] : i \in {j \in DOMAIN l : ~Has(kept, l[j].token)}}
            u == DeleteThreads(s, gone)
            d == NotifyAbilityRecordCleanup([u EXCEPT !.list = kept], gone)
<1>0. /\ On(s, h, a) /\ Distinct(l, s.tokens) /\ l[1] \in Of(l) /\ 1 \in DOMAIN l
      /\ l[1].token = h /\ l # <<>>
  BY First DEF Rest, On, Listed
<1>1. TerminateAll(s, b) = Ok(d)
  BY <1>0 DEF TerminateAll, PopAllAbility
<1>2. S \in SUBSET (DOMAIN l) /\ 1 \in S
  BY <1>0
<1>3. \A i \in DOMAIN l : l[i].token = LauncherToken => i \in S
  BY DEF IsPermanentAbility
<1>. HIDE DEF S
<1>4. Of(kept) = {l[i] : i \in S}
  BY <1>0, <1>2, KeepDistinct
<1>. HIDE DEF kept
<1>5. gone = Of(l) \ {l[i] : i \in S}
  <2>1. \A j \in DOMAIN l : Has(kept, l[j].token) <=> l[j] \in Of(kept)
    <3>1. SUFFICES ASSUME NEW j \in DOMAIN l
                   PROVE  Has(kept, l[j].token) <=> l[j] \in Of(kept)
      OBVIOUS
    <3>2. Has(kept, l[j].token) <=> \E q \in Of(kept) : q.token = l[j].token
      BY DEF Has, Of
    <3>3. \A q \in Of(kept) : q.token = l[j].token => q = l[j]
      BY <1>0, <1>2, <1>4, Members
    <3>. QED
      BY <3>2, <3>3
  <2>. QED
    BY <1>4, <2>1 DEF Of
<1>6. \A q \in gone : q \in Of(l) /\ q.token # h /\ q.token # LauncherToken
  <2>1. \A q \in gone : q \in Of(l) /\ q # l[1] /\ q.token # LauncherToken
    BY <1>2, <1>3, <1>5 DEF Of
  <2>2. \A q \in Of(l) : q # l[1] => q.token # h
    BY <1>0, Members
  <2>. HIDE DEF gone
  <2>. QED
    BY <2>1, <2>2
<1>. HIDE DEF gone
<1>7. Same(s, u, {})
  BY <1>0, <1>6, NoThreads
<1>8. \A q \in gone : q.token # h /\ q.token # LauncherToken
  BY <1>6
<1>. HIDE DEF u
<1>9. LET r == NotifyAbilityRecordCleanup([u EXCEPT !.list = Keep(s.list, S)], gone)
      IN  /\ On(r, h, a) /\ Same(s, r, {"list", "seen"})
          /\ r.list[1] = s.list[1] /\ Of(r.list) = Of(s.list) \ gone
  <2>1. /\ On(s, h, a) /\ S \in SUBSET (DOMAIN s.list) /\ 1 \in S
        /\ gone = Of(s.list) \ {s.list[i] : i \in S}
    BY <1>0, <1>2, <1>5
  <2>. HIDE DEF d, l
  <2>. QED
    BY <2>1, <1>7, <1>8, WithoutOn
<1>10. /\ On(d, h, a) /\ Same(s, d, {"list", "seen"})
       /\ d.list[1] = s.list[1] /\ Of(d.list) \subseteq Of(s.list)
  BY <1>9 DEF kept
<1>. HIDE DEF d
<1>. QED
  BY <1>1, <1>10, DeletedFine

\* terminateApp: the ability on top ends at once.
LEMMA ForceStopBundleFine ==
    ASSUME Regular, NEW s, NEW h \in Token, NEW a \in App, Rest(s, h, a), ~s.scheduling,
           NEW t, t # LauncherToken
    PROVE  Fine(s, ForceStopBundle(s, t, {}), h, a)
<1>. DEFINE top == s.list[1]
            x == [top EXCEPT !.terminated = TRUE]
            p == Put(s, x)
            z == Scheduling(p)
            e == MOnDestroyDone(z, t, {})
            r == Ok(e)
<1>0. /\ On(s, h, a) /\ Distinct(s.list, s.tokens) /\ top \in Of(s.list) /\ top \in RecordType
      /\ top.token = h /\ s.list # <<>> /\ DOMAIN s = Fields
  BY First DEF Rest, On, Listed, Typed
<1>1. CASE top.token # t
  <2>1. ForceStopBundle(s, t, {}) = TerminateToken(Scheduling(s), t)
    BY <1>0, <1>1 DEF ForceStopBundle, MForceStopBundle, TerminateToken, Regular
  <2>. QED
    BY <2>1, TerminateTokenFine
<1>2. CASE top.token = t
  <2>1. ForceStopBundle(s, t, {}) = r
    BY <1>0, <1>2 DEF ForceStopBundle, MForceStopBundle, Regular
  <2>2. /\ x \in RecordType /\ x.token = top.token /\ x.app = top.app /\ x.native = top.native
        /\ x.thread = top.thread /\ x.state = top.state
        /\ x.token = LauncherToken => ~x.terminated
    BY <1>0, <1>2 DEF RecordType
  <2>. HIDE DEF x
  <2>3. On(p, h, a) /\ Same(s, p, {"list"})
    BY <1>0, <2>2, PutOn
  <2>. HIDE DEF p
  <2>4. Same(p, z, {"scheduling"}) /\ z.scheduling = TRUE
    BY <2>3 DEF Scheduling, Same, Fields
  <2>. HIDE DEF z
  <2>5. /\ Same(s, z, {"list", "scheduling"})
        /\ Same(p, z, {"ret", "scheduling", "ops", "pendingRecord", "launcher", "lost"})
        /\ z.ops = p.ops
    BY <2>3, <2>4 DEF Same, Fields
  <2>6. On(z, h, a)
    <3>1. z.ops \in Seq(Allowed)
      BY <2>3, <2>5 DEF On, Typed
    <3>. QED
      BY <2>3, <2>4, <2>5, <3>1, Unaffected
  <2>7. Quiet(z, h) /\ Follows(z.list, h, z.pending)
    BY <2>5 DEF Rest, Quiet, Same, Fields, Follows
  <2>8. LET w == MOnDestroyDone(z, h, {})
        IN  /\ Same(z, w, {"list", "seen", "threads", "async", "nativeQ", "ret", "pending"})
            /\ w.ret = "ok"
            /\ \E k \in Token, b \in App : /\ On(w, k, b) /\ Coming(w, k)
                                           /\ w.threads[k].life = "NONE"
    BY <2>6, <2>7, Destroyed
  <2>9. /\ Same(z, e, {"list", "seen", "threads", "async", "nativeQ", "ret", "pending"})
        /\ \E k \in Token, b \in App : /\ On(e, k, b) /\ Coming(e, k)
                                       /\ e.threads[k].life = "NONE"
    BY <1>0, <1>2, <2>8
  <2>. HIDE DEF e
  <2>10. PICK k \in Token, b \in App : /\ On(e, k, b) /\ Coming(e, k)
                                       /\ e.threads[k].life = "NONE"
    BY <2>9
  <2>11. Same(e, r, {"ret"}) /\ r.ret = "ok"
    BY <2>9 DEF Ok, Same, Fields
  <2>. HIDE DEF r
  <2>12. /\ r.scheduling = TRUE /\ r.threads = e.threads /\ r.ops = e.ops
         /\ Same(e, r, {"ret", "scheduling", "ops", "pendingRecord", "launcher", "lost"})
    BY <2>4, <2>9, <2>11 DEF Same, Fields
  <2>13. Going(r, k, b)
    <3>1. Going(e, k, b) /\ e.ops \in Seq(Allowed)
      BY <2>10 DEF Going, On, Typed
    <3>. QED
      BY <2>12, <3>1, Unaffected
  <2>. QED
    BY <2>1, <2>10, <2>11, <2>12, <2>13 DEF Fine
<1>. QED
  BY <1>1, <1>2

\* The tokens in the list are below the counter.
LEMMA TokensBelow ==
    ASSUME NEW l, NEW n, Distinct(l, n)
    PROVE  \A q \in Of(l) : q.token \in Int /\ q.token >= 0 /\ q.token < n
<1>1. \A q \in Of(l) : q.token \in Token /\ q.token < n
  BY Members DEF Distinct, RecordType
<1>2. \A t \in Token : t \in Int /\ t >= 0
  BY SliteAssumption DEF Token
<1>. QED
  BY <1>1, <1>2

\* The ability on top is marked when its bundle is temporary.
LEMMA MarkedOn ==
    ASSUME Regular, NEW s, NEW h, NEW a, On(s, h, a), NEW q \in Of(s.list), q.token = h
    PROVE  LET r == MarkTemporary(s, q)
           IN  /\ On(r, h, a) /\ Same(s, r, {"list"})
               /\ DOMAIN r.list = DOMAIN s.list
               /\ \A i \in DOMAIN s.list : r.list[i].token = s.list[i].token
               /\ \A i \in DOMAIN s.list : r.list[i].app = s.list[i].app
<1>. DEFINE x == [q EXCEPT !.terminated = TRUE]
            r == MarkTemporary(s, q)
<1>0. q \in RecordType /\ q.app = a /\ Distinct(s.list, s.tokens) /\ DOMAIN s = Fields
  <2>1. q \in RecordType /\ q.app = a
    BY Runner
  <2>2. Distinct(s.list, s.tokens) /\ DOMAIN s = Fields
    BY DEF On, Listed, Typed
  <2>. QED
    BY <2>1, <2>2
<1>1. CASE NeedToBeTerminated(q.app)
  <2>1. r = Put(s, x)
    BY <1>1 DEF MarkTemporary
  <2>2. q.token # LauncherToken
    BY <1>0, <1>1 DEF NeedToBeTerminated, Regular, Distinct
  <2>3. /\ x \in RecordType /\ x.token = q.token /\ x.app = q.app /\ x.native = q.native
        /\ x.thread = q.thread /\ x.state = q.state
        /\ x.token = LauncherToken => ~x.terminated
    BY <1>0, <2>2 DEF RecordType
  <2>. HIDE DEF x, r
  <2>4. LET p == Put(s, x)
        IN  /\ On(p, h, a) /\ Same(s, p, {"list"})
            /\ DOMAIN p.list = DOMAIN s.list /\ Len(p.list) = Len(s.list)
            /\ \A i \in DOMAIN s.list : p.list[i] = IF s.list[i] = q THEN x ELSE s.list[i]
            /\ Of(p.list) = (Of(s.list) \ {q}) \cup {x}
    BY <2>3, PutOn
  <2>. QED
    BY <2>1, <2>3, <2>4 DEF r
<1>2. CASE ~NeedToBeTerminated(q.app)
  <2>1. r = s
    BY <1>2 DEF MarkTemporary
  <2>2. Same(s, s, {"list"})
    BY <1>0 DEF Same
  <2>. QED
    BY <2>1, <2>2
<1>. QED
  BY <1>1, <1>2

\* An ability of the list is started.
LEMMA StartKnownFine ==
    ASSUME Regular, NEW s, NEW h \in Token, NEW a \in App, Rest(s, h, a), s.scheduling,
           NEW w, w.mission \in Mission \cup {Unset}, HasApp(s.list, w.app)
    PROVE  Fine(s, MStartKnown(s, w), h, a)
<1>. DEFINE r == GetApp(s.list, w.app)
            top == s.list[1]
            x == IF w.mission = Unset THEN r ELSE [r EXCEPT !.mission = w.mission]
            aimed == IF w.mission = Unset THEN s ELSE Put(s, [r EXCEPT !.mission = w.mission])
            moved == [aimed EXCEPT !.list = MoveToTop(@, r.token)]
            marked == MarkTemporary(moved, top)
            res == MStartKnown(s, w)
<1>0. /\ On(s, h, a) /\ Distinct(s.list, s.tokens) /\ top \in Of(s.list) /\ top \in RecordType
      /\ top.token = h /\ s.list # <<>> /\ DOMAIN s = Fields /\ s.tokens \in Int
  BY First DEF Rest, On, Listed, Typed
<1>1. r \in Of(s.list) /\ r \in RecordType
  <2>1. PICK q \in Of(s.list) : q.app = w.app
    BY <1>0, Members
  <2>2. GetApp(s.list, q.app) = q /\ q \in RecordType
    BY <1>0, Members
  <2>. QED
    BY <2>1, <2>2
<1>. HIDE DEF r
<1>2. CASE r = top
  <2>1. res = Ok(Idle(s))
    BY <1>2 DEF MStartKnown, r
  <2>2. Same(s, res, {"ret", "scheduling"}) /\ res.scheduling = FALSE
    BY <1>0, <2>1 DEF Ok, Idle, Same, Fields
  <2>. HIDE DEF res
  <2>3. Fine(s, res, h, a)
    BY <2>2, FineDone
  <2>. QED
    BY <2>3 DEF res
<1>3. CASE r # top /\ ~r.native /\ ~CheckResponse(w.app)
  <2>1. res = Error(Idle(s))
    BY <1>3 DEF MStartKnown, r
  <2>2. Same(s, res, {"ret", "scheduling"}) /\ res.scheduling = FALSE
    BY <1>0, <2>1 DEF Error, Idle, Same, Fields
  <2>. HIDE DEF res
  <2>3. Fine(s, res, h, a)
    BY <2>2, FineDone
  <2>. QED
    BY <2>3 DEF res
<1>4. CASE r # top /\ ~(~r.native /\ ~CheckResponse(w.app))
  <2>1. res = SendMsgToAbilityThread(marked, Get(marked.list, top.token), "BACKGROUND")
    BY <1>4 DEF MStartKnown, r
  <2>2. /\ x \in RecordType /\ x.token = r.token /\ x.app = r.app /\ x.native = r.native
        /\ x.thread = r.thread /\ x.state = r.state /\ x.terminated = r.terminated
    BY <1>1 DEF RecordType
  <2>3. On(aimed, h, a) /\ Same(s, aimed, {"list"}) /\ Of(aimed.list) = (Of(s.list) \ {r}) \cup {x}
    <3>1. CASE w.mission = Unset
      <4>1. aimed = s /\ x = r
        BY <3>1
      <4>. HIDE DEF aimed, x
      <4>. QED
        BY <1>0, <1>1, <4>1 DEF Same
    <3>2. CASE w.mission # Unset
      <4>1. aimed = Put(s, x)
        BY <3>2
      <4>2. x.token = LauncherToken => ~x.terminated
        BY <1>0, <1>1, <2>2 DEF Distinct
      <4>. HIDE DEF aimed, x
      <4>3. LET p == Put(s, x)
            IN  /\ On(p, h, a) /\ Same(s, p, {"list"})
                /\ DOMAIN p.list = DOMAIN s.list /\ Len(p.list) = Len(s.list)
                /\ \A i \in DOMAIN s.list : p.list[i] = IF s.list[i] = r THEN x ELSE s.list[i]
                /\ Of(p.list) = (Of(s.list) \ {r}) \cup {x}
        BY <1>0, <1>1, <2>2, <4>2, PutOn
      <4>. QED
        BY <4>1, <4>3
    <3>. QED
      BY <3>1, <3>2
  <2>. HIDE DEF x, aimed
  <2>4. /\ Same(aimed, moved, {"list"}) /\ moved.list = MoveToTop(aimed.list, x.token)
    BY <2>2, <2>3 DEF Same, Fields
  <2>. HIDE DEF moved
  <2>5. /\ Distinct(moved.list, aimed.tokens) /\ Of(moved.list) = Of(aimed.list)
    <3>1. Distinct(aimed.list, aimed.tokens) /\ x \in Of(aimed.list) /\ aimed.tokens \in Int
      BY <2>3 DEF On, Listed, Typed
    <3>. QED
      BY <2>4, <3>1, MoveFacts
  <2>6. On(moved, h, a)
    <3>1. PICK q \in Of(aimed.list) : TRUE
      BY <2>3 DEF On, Listed
    <3>2. q \in RecordType /\ Of(moved.list) = (Of(aimed.list) \ {q}) \cup {q}
      BY <2>3, <2>5, Members DEF On, Listed
    <3>3. Same(aimed, moved, {"list", "pending"}) /\ moved.pending \in Token
      BY <2>3, <2>4 DEF Same, Fields, On, Typed
    <3>. QED
      BY <2>3, <2>5, <3>2, <3>3, ListOn
  <2>7. top \in Of(moved.list)
    BY <1>0, <1>4, <2>3, <2>5
  <2>8. LET m == MarkTemporary(moved, top)
        IN  /\ On(m, h, a) /\ Same(moved, m, {"list"})
            /\ DOMAIN m.list = DOMAIN moved.list
            /\ \A i \in DOMAIN moved.list : m.list[i].token = moved.list[i].token
            /\ \A i \in DOMAIN moved.list : m.list[i].app = moved.list[i].app
    BY <1>0, <2>6, <2>7, MarkedOn
  <2>9. On(marked, h, a) /\ Same(s, marked, {"list"})
    BY <2>3, <2>4, <2>8 DEF Same, Fields
  <2>. HIDE DEF marked, res
  <2>10. PICK y \in Of(marked.list) : y.token = h
    BY <2>9 DEF On, Alone
  <2>11. Get(marked.list, top.token) = y
    BY <1>0, <2>9, <2>10, Runner
  <2>12. /\ Quiet(marked, h) /\ marked.threads[h].life = "FOREGROUND" /\ marked.scheduling
         /\ marked.pending = 0
    BY <2>9 DEF Rest, Quiet, Same, Fields
  <2>13. Follows(marked.list, h, marked.pending)
    BY <2>12 DEF Follows
  <2>. DEFINE v == SendMsgToAbilityThread(marked, y, "BACKGROUND")
  <2>14. Fine(s, v, h, a)
    BY <2>9, <2>10, <2>12, <2>13, FineSent
  <2>. HIDE DEF v
  <2>. QED
    BY <2>1, <2>11, <2>14 DEF v, res
<1>. QED
  BY <1>2, <1>3, <1>4

\* The counters advance.
LEMMA WiderOn ==
    ASSUME NEW s, NEW h, NEW a, On(s, h, a), NEW r, Same(s, r, {"tokens", "missions", "pending"}),
           r.tokens \in 0..TokenLimit, s.tokens <= r.tokens, r.missions \in Mission,
           r.pending \in Token
    PROVE  On(r, h, a)
<1>1. \A q \in Of(s.list) : q.token < r.tokens
  <2>0. Distinct(s.list, s.tokens)
    BY DEF On, Listed
  <2>1. \A q \in Of(s.list) : q.token \in Int /\ q.token < s.tokens
    BY <2>0, TokensBelow
  <2>2. s.tokens \in Int /\ r.tokens \in Int
    BY SliteAssumption DEF On, Typed
  <2>. QED
    BY <2>1, <2>2
<1>2. Listed(s.list, r.tokens)
  BY <1>1 DEF On, Listed, Distinct
<1>. QED
  BY <1>2 DEF On, Typed, Same, Fields

\* A bundle that is not in the list is started; its record waits on top.
LEMMA StartNewFine ==
    ASSUME Regular, NEW s, NEW h \in Token, NEW a \in App, Rest(s, h, a), s.scheduling,
           s.tokens < TokenLimit,
           NEW w, w.app \in App, w.mission \in Mission \cup {Unset}, ~HasApp(s.list, w.app)
    PROVE  Fine(s, MStartNew(s, w, {}), h, a)
<1>. DEFINE top == s.list[1]
            n == s.tokens
            marked == MarkTemporary(s, top)
            sent == SendMsgToAbilityThread(marked, marked.list[1], "BACKGROUND")
            v == [sent EXCEPT !.pending = GeneratedToken(s.tokens), !.tokens = NextToken(@)]
            x == AbilityRecord(n, w.app, IsNativeApp(w.app), MissionFor(v, w))
            z == [v EXCEPT !.tokens = IF v.pending # 0 THEN @ ELSE NextToken(@),
                           !.missions = NextMission(v, w)]
            added == AddRecord(z, x)
            res == MStartNew(s, w, {})
<1>0. /\ On(s, h, a) /\ Distinct(s.list, n) /\ top \in Of(s.list) /\ top \in RecordType
      /\ top.token = h /\ s.list # <<>> /\ DOMAIN s = Fields /\ n \in Nat /\ 1 \in DOMAIN s.list
      /\ TokenLimit \in Nat /\ s.missions \in Mission
  BY First, SliteAssumption DEF Rest, On, Listed, Typed
<1>1. PICK home \in Of(s.list) : home.token = LauncherToken
  BY <1>0 DEF On, Listed
<1>2. /\ n > 0 /\ w.app # Startup
  <2>1. home.token < n /\ home.app = Startup
    BY <1>0, <1>1 DEF Distinct
  <2>2. n > 0
    BY <1>0, <1>1, <2>1 DEF LauncherToken
  <2>3. w.app # Startup
    BY <2>1 DEF HasApp, Of
  <2>. QED
    BY <2>2, <2>3
<1>3. CASE ~IsNativeApp(w.app) /\ ~CheckResponse(w.app)
  <2>1. res = Error(s)
    BY <1>0, <1>3 DEF MStartNew
  <2>2. Same(s, res, {"ret", "scheduling"}) /\ res.scheduling = s.scheduling /\ res.ret = "error"
    BY <1>0, <2>1 DEF Error, Same, Fields
  <2>. HIDE DEF res
  <2>3. res.scheduling \in BOOLEAN
    BY <1>0, <2>2 DEF On, Typed
  <2>4. Fine(s, res, h, a)
    BY <2>2, <2>3, FineDone
  <2>. QED
    BY <2>4 DEF res
<1>4. CASE ~(~IsNativeApp(w.app) /\ ~CheckResponse(w.app))
  <2>1. GeneratedToken(s.tokens) = n /\ NextToken(n) = n + 1
    <3>1. n # TokenLimit
      BY <1>0
    <3>2. NextToken(n) = n + 1
      BY <3>1 DEF NextToken
    <3>. QED
      BY <1>0, <3>2 DEF GeneratedToken, Regular
  <2>2. LET m == MarkTemporary(s, top)
        IN  /\ On(m, h, a) /\ Same(s, m, {"list"})
            /\ DOMAIN m.list = DOMAIN s.list
            /\ \A i \in DOMAIN s.list : m.list[i].token = s.list[i].token
            /\ \A i \in DOMAIN s.list : m.list[i].app = s.list[i].app
    BY <1>0, MarkedOn
  <2>3. res = MPreCheckStartAbility(v, w, {})
    BY <1>0, <1>4 DEF MStartNew
  <2>. HIDE DEF marked
  <2>4. /\ On(marked, h, a) /\ Same(s, marked, {"list"}) /\ marked.list[1].token = h
        /\ \A q \in Of(marked.list) : q.app # w.app
    <3>1. \A i \in DOMAIN s.list : s.list[i].app # w.app
      BY DEF HasApp
    <3>. QED
      BY <1>0, <2>2, <3>1 DEF Of, marked
  <2>5. marked.list[1] \in Of(marked.list) /\ Distinct(marked.list, marked.tokens)
    BY <2>4, First DEF On, Listed
  <2>6. Quiet(marked, h) /\ marked.threads[h].life = "FOREGROUND"
    BY <2>4 DEF Rest, Quiet, Same, Fields
  <2>7. /\ On(sent, h, a) /\ Same(marked, sent, {"threads", "nativeQ", "ret"})
        /\ sent.ret = "ok" /\ Asked(sent, h, "BACKGROUND", "FOREGROUND")
    BY <2>4, <2>5, <2>6, SendOn
  <2>. HIDE DEF sent
  <2>8. /\ Same(sent, v, {"pending", "tokens"}) /\ v.pending = n /\ v.tokens = n + 1
        /\ v.missions = s.missions
    <3>1. sent.tokens = n /\ sent.missions = s.missions
      BY <2>4, <2>7 DEF Same, Fields
    <3>. QED
      BY <2>1, <2>7, <3>1 DEF Same, Fields
  <2>. HIDE DEF v
  <2>9. /\ Same(sent, z, {"pending", "tokens", "missions"}) /\ z.pending = n /\ z.tokens = n + 1
        /\ z.missions \in Mission
    <3>1. v.pending # 0
      BY <1>2, <2>8
    <3>2. NextMission(v, w) \in Mission
      <4>0. MissionLimit \in Nat \ {0}
        BY SliteAssumption
      <4>. DEFINE k == v.missions
      <4>1. k \in Nat
        BY <1>0, <2>8, <4>0 DEF Mission
      <4>2. (k + 1) % MissionLimit \in 0..(MissionLimit - 1)
        <5>. HIDE DEF k
        <5>. QED
          BY <4>0, <4>1
      <4>. QED
        BY <1>0, <2>8, <4>2 DEF NextMission, Mission
    <3>. QED
      BY <2>8, <3>1, <3>2 DEF Same, Fields
  <2>10. res = Ok(added)
    <3>1. v.pending # 0 /\ v.pending = n
      BY <1>2, <2>8
    <3>. HIDE DEF res
    <3>. QED
      BY <2>3, <3>1 DEF MPreCheckStartAbility, Regular, IsNativeApp
  <2>. HIDE DEF z
  <2>11. /\ x \in RecordType /\ x.token = n /\ x.app = w.app /\ x.state = "STOP" /\ ~x.thread
    <3>1. MissionFor(v, w) \in Mission
      BY <1>0, <2>8 DEF MissionFor
    <3>2. IsNativeApp(w.app) \in BOOLEAN /\ n \in Token
      BY <1>0 DEF IsNativeApp, Token
    <3>. QED
      BY <3>1, <3>2 DEF AbilityRecord, RecordType
  <2>. HIDE DEF x
  <2>12. On(z, h, a)
    <3>1. z.tokens \in 0..TokenLimit /\ sent.tokens <= z.tokens /\ z.pending \in Token
      <4>1. sent.tokens = n
        BY <2>4, <2>7 DEF Same, Fields
      <4>. QED
        BY <1>0, <2>9, <4>1 DEF Token
    <3>2. Same(sent, z, {"tokens", "missions", "pending"})
      BY <2>9 DEF Same
    <3>. QED
      BY <2>7, <2>9, <3>1, <3>2, WiderOn
  <2>13. z.list = marked.list /\ x.token < z.tokens /\ x.token # LauncherToken /\ x.app # Startup
    BY <1>0, <1>2, <2>7, <2>9, <2>11 DEF Same, Fields, LauncherToken
  <2>14. \A q \in Of(marked.list) : q.token # x.token /\ q.app # x.app
    <3>1. \A q \in Of(marked.list) : q.token \in Int /\ q.token < marked.tokens
      BY <2>5, TokensBelow
    <3>2. marked.tokens = n
      BY <2>4 DEF Same, Fields
    <3>. QED
      BY <1>0, <2>4, <2>11, <3>1, <3>2
  <2>15. LET r == AddRecord(z, x)
         IN  /\ On(r, h, a) /\ Same(z, r, {"list"})
             /\ r.list # <<>> /\ r.list[1] = x
             /\ Of(r.list) \subseteq {x} \cup Of(z.list)
    <3>1. z.list[1].token = h /\ \A q \in Of(z.list) : q.token # x.token /\ q.app # x.app
      BY <2>4, <2>13, <2>14
    <3>. QED
      BY <2>11, <2>12, <2>13, <3>1, AddRecordOn
  <2>16. /\ On(added, h, a) /\ Same(z, added, {"list"}) /\ added.list[1] = x
         /\ Of(added.list) \subseteq {x} \cup Of(z.list)
    BY <2>15
  <2>. HIDE DEF added, res
  <2>17. Same(added, res, {"ret"}) /\ res.ret = "ok"
    BY <2>10, <2>16 DEF Ok, Same, Fields
  <2>18. /\ res.list = added.list /\ res.threads = sent.threads /\ res.nativeQ = sent.nativeQ
         /\ res.amsQ = sent.amsQ /\ res.pending = n /\ res.scheduling
         /\ z.list = sent.list
    BY <2>4, <2>7, <2>9, <2>16, <2>17 DEF Same, Fields
  <2>19. Asked(res, h, "BACKGROUND", "FOREGROUND")
    <3>1. \A q \in Of(res.list) : q.token = h => q \in Of(sent.list)
      <4>1. x.token # h
        BY <1>0, <2>11 DEF Distinct
      <4>. QED
        BY <2>16, <2>18, <4>1
    <3>. QED
      BY <2>7, <2>18, <3>1 DEF Asked
  <2>20. Follows(res.list, h, res.pending)
    <3>1. n # h
      BY <1>0 DEF Distinct
    <3>. QED
      BY <2>11, <2>16, <2>18, <3>1 DEF Follows
  <2>21. On(res, h, a)
    <3>1. Same(added, res, {"ret", "scheduling", "ops", "pendingRecord", "launcher", "lost"})
      BY <2>17 DEF Same
    <3>2. res.scheduling \in BOOLEAN /\ res.ops \in Seq(Allowed)
      BY <2>16, <2>17 DEF Same, Fields, On, Typed
    <3>. QED
      BY <2>16, <3>1, <3>2, Unaffected
  <2>22. Going(res, h, a) /\ res.threads[h].life = "FOREGROUND"
    BY <2>19, <2>20, <2>21 DEF Going, Leaving, Asked
  <2>. QED
    BY <2>17, <2>18, <2>22 DEF Fine, res
<1>. QED
  BY <1>3, <1>4

\* An ability is started between switches.
LEMMA StartAbilityFine ==
    ASSUME Regular, NEW s, NEW h \in Token, NEW a \in App, Rest(s, h, a), ~s.scheduling,
           s.tokens < TokenLimit,
           NEW w, w.app \in App, w.mission \in Mission \cup {Unset}
    PROVE  Fine(s, StartAbility(s, w, {}), h, a)
<1>. DEFINE z == Scheduling(s)
            res == StartAbility(s, w, {})
<1>0. Rest(z, h, a) /\ z.scheduling = TRUE /\ z.tokens = s.tokens /\ z.list = s.list
  BY RestScheduling
<1>. HIDE DEF z
<1>1. CASE HasApp(s.list, w.app)
  <2>1. res = MStartKnown(z, w)
    BY <1>1 DEF StartAbility, MStartAbility, Regular, z
  <2>2. Fine(z, MStartKnown(z, w), h, a)
    BY <1>0, <1>1, StartKnownFine
  <2>. QED
    BY <1>0, <2>1, <2>2, FineFor
<1>2. CASE ~HasApp(s.list, w.app) /\ ~QueryAbilitySvcInfo(w.app)
  <2>1. res = Error(Idle(s))
    BY <1>2 DEF StartAbility, MStartAbility, Regular
  <2>2. DOMAIN s = Fields
    BY DEF Rest, On, Typed
  <2>3. Same(s, res, {"ret", "scheduling"}) /\ res.scheduling = FALSE
    BY <2>1, <2>2 DEF Error, Idle, Same, Fields
  <2>. HIDE DEF res
  <2>4. Fine(s, res, h, a)
    BY <2>3, FineDone
  <2>. QED
    BY <2>4 DEF res
<1>3. CASE ~HasApp(s.list, w.app) /\ QueryAbilitySvcInfo(w.app)
  <2>1. res = MStartNew(z, w, {})
    BY <1>3 DEF StartAbility, MStartAbility, Regular, z
  <2>2. Fine(z, MStartNew(z, w, {}), h, a)
    BY <1>0, <1>3, StartNewFine
  <2>. QED
    BY <1>0, <2>1, <2>2, FineFor
<1>. QED
  BY <1>1, <1>2, <1>3

\* The kinds of operations.
LEMMA Kinds ==
    ASSUME NEW op \in Allowed
    PROVE  \/ /\ op.id = "start" /\ op.want.app \in App /\ op.want.mission \in Mission \cup {Unset}
           \/ op.id \in {"terminate", "terminateMission", "forceStop", "terminateAll"}
           \/ op.id = "terminateApp" /\ op.token # LauncherToken
BY DEF Allowed, Operation

\* Every operation leaves the service between switches or in the first step of one.
LEMMA PerformFine ==
    ASSUME Regular, NEW s, NEW h \in Token, NEW a \in App, Rest(s, h, a), ~s.scheduling,
           s.tokens < TokenLimit, NEW op \in Allowed
    PROVE  Fine(s, Perform(s, op, {}), h, a)
<1>1. CASE op.id = "start"
  <2>1. Perform(s, op, {}) = StartAbility(s, op.want, {})
    BY <1>1 DEF Perform
  <2>2. op.want.app \in App /\ op.want.mission \in Mission \cup {Unset}
    BY <1>1, Kinds
  <2>. QED
    BY <2>1, <2>2, StartAbilityFine
<1>2. CASE op.id = "terminate"
  <2>1. Perform(s, op, {}) = TerminateAbility(s, op.token)
    BY <1>2 DEF Perform
  <2>. QED
    BY <2>1, TerminateAbilityFine
<1>3. CASE op.id = "terminateMission"
  <2>1. Perform(s, op, {}) = TerminateMission(s, op.mission)
    BY <1>3 DEF Perform
  <2>. QED
    BY <2>1, TerminateMissionFine
<1>4. CASE op.id = "terminateApp"
  <2>1. Perform(s, op, {}) = ForceStopBundle(s, op.token, {})
    BY <1>4 DEF Perform
  <2>2. op.token # LauncherToken
    BY <1>4, Kinds
  <2>. QED
    BY <2>1, <2>2, ForceStopBundleFine
<1>5. CASE op.id = "forceStop"
  <2>1. Perform(s, op, {}) = ForceStop(s, op.app)
    BY <1>5 DEF Perform
  <2>. QED
    BY <2>1, ForceStopFine
<1>6. CASE op.id = "terminateAll"
  <2>1. Perform(s, op, {}) = TerminateAll(s, op.app)
    BY <1>6 DEF Perform
  <2>. QED
    BY <2>1, TerminateAllFine
<1>. QED
  BY <1>1, <1>2, <1>3, <1>4, <1>5, <1>6, Kinds

\* During a switch every operation is held back.
LEMMA HeldOperation ==
    ASSUME Regular, NEW s, Typed(s), s.scheduling, NEW op \in Allowed, NEW fails
    PROVE  LET r == Perform(s, op, fails)
           IN  Same(s, r, {"ops", "ret"}) /\ r.ret = "ok" /\ r.ops \in Seq(Allowed)
<1>. DEFINE r == Perform(s, op, fails)
<1>1. \E o \in Allowed : r = AddAbilityOperation(s, o)
  <2>1. /\ op.id = "start" => [id |-> "start", want |-> op.want] \in Allowed
        /\ op.id = "terminate" => [id |-> "terminate", token |-> op.token] \in Allowed
        /\ op.id = "terminateMission" => [id |-> "terminateMission", mission |-> op.mission] \in Allowed
        /\ op.id = "terminateApp" => [id |-> "terminateApp", token |-> op.token] \in Allowed
        /\ op.id = "forceStop" => [id |-> "forceStop", app |-> op.app] \in Allowed
        /\ op.id = "terminateAll" => [id |-> "terminateAll", app |-> op.app] \in Allowed
    BY DEF Allowed, Operation
  <2>2. CASE op.id = "start"
    BY <2>1, <2>2 DEF Perform, StartAbility, MStartAbility, Regular
  <2>3. CASE op.id = "terminate"
    BY <2>1, <2>3 DEF Perform, TerminateAbility
  <2>4. CASE op.id = "terminateMission"
    BY <2>1, <2>4 DEF Perform, TerminateMission
  <2>5. CASE op.id = "terminateApp"
    BY <2>1, <2>5 DEF Perform, ForceStopBundle, MForceStopBundle, Regular
  <2>6. CASE op.id = "forceStop"
    BY <2>1, <2>6 DEF Perform, ForceStop
  <2>7. CASE op.id = "terminateAll"
    BY <2>1, <2>7 DEF Perform, TerminateAll
  <2>. QED
    BY <2>2, <2>3, <2>4, <2>5, <2>6, <2>7, Kinds
<1>2. PICK o \in Allowed : r = AddAbilityOperation(s, o)
  BY <1>1
<1>. HIDE DEF r
<1>3. Same(s, r, {"ops", "ret"}) /\ r.ret = "ok" /\ r.ops = Append(s.ops, o)
  BY <1>2 DEF AddAbilityOperation, Ok, Typed, Same, Fields
<1>4. s.ops \in Seq(Allowed)
  BY DEF Typed
<1>5. r.ops \in Seq(Allowed)
  BY <1>2, <1>3, <1>4
<1>. QED
  BY <1>3, <1>5 DEF r

\* The switch goes on.
LEMMA PerformHeld ==
    ASSUME Regular, NEW s, NEW h, NEW a, Going(s, h, a), s.scheduling, NEW op \in Allowed
    PROVE  LET r == Perform(s, op, {})
           IN  /\ Going(r, h, a) /\ Same(s, r, {"ops", "ret"}) /\ r.ret = "ok"
<1>. DEFINE r == Perform(s, op, {})
<1>1. Typed(s)
  BY DEF Going, On
<1>2. Same(s, r, {"ops", "ret"}) /\ r.ret = "ok" /\ r.ops \in Seq(Allowed)
  BY <1>1, HeldOperation
<1>. HIDE DEF r
<1>3. r.scheduling \in BOOLEAN
  BY <1>1, <1>2 DEF Typed, Same, Fields
<1>4. Same(s, r, {"ret", "scheduling", "ops", "pendingRecord", "launcher", "lost"})
  BY <1>2 DEF Same
<1>5. Going(r, h, a)
  BY <1>2, <1>3, <1>4, Unaffected
<1>. QED
  BY <1>2, <1>5 DEF r

-----------------------------------------------------------------------------
(* Tasks that cannot be created.  An operation whose task cannot be created *)
(* sets failed, which no other operation takes back; any other operation    *)
(* does what it does when no task fails.                                    *)

\* r is s with other fields changed than ops and failed.
Calm(s, r) == DOMAIN r = Fields /\ r.ops = s.ops /\ r.failed = s.failed

\* The same but for failed, which may have become TRUE.
Near(s, r) == DOMAIN r = Fields /\ r.ops = s.ops /\ r.failed \in {s.failed, TRUE}

\* Changes of single fields.
LEMMA CalmFields ==
    ASSUME NEW s, DOMAIN s = Fields
    PROVE  /\ Calm(s, s) /\ Calm(s, Ok(s)) /\ Calm(s, Error(s))
           /\ Calm(s, Idle(s)) /\ Calm(s, Scheduling(s))
           /\ \A x : Calm(s, [s EXCEPT !.list = x]) /\ Calm(s, [s EXCEPT !.pending = x])
           /\ \A x : Calm(s, Put(s, x))
BY DEF Calm, Ok, Error, Idle, Scheduling, Put, Fields

\* A message is sent.
LEMMA CalmSent ==
    ASSUME NEW s, DOMAIN s = Fields, NEW q, NEW id
    PROVE  Calm(s, SendMsgToAbilityThread(s, q, id))
<1>1. \A m : Calm(s, SendScheduleMsgToAbilityThread(s, q, m))
  BY DEF Calm, SendScheduleMsgToAbilityThread, Ok, Fields
<1>. QED
  BY <1>1, CalmFields DEF SendMsgToAbilityThread

\* Records and their threads are deleted.
LEMMA CalmDeleted ==
    ASSUME NEW s, DOMAIN s = Fields, NEW gone
    PROVE  /\ Calm(s, DeleteThreads(s, gone))
           /\ Calm(s, DeleteAbilityThread(s, gone))
           /\ Calm(s, NotifyAbilityRecordCleanup(s, gone))
           /\ Calm(s, DeleteRecords(s, gone))
           /\ \A t : Calm(s, DeleteRecordInfo(s, t))
<1>1. \A u, g : DOMAIN u = Fields => Calm(u, DeleteThreads(u, g))
  BY DEF Calm, DeleteThreads, Fields
<1>2. \A u, g : DOMAIN u = Fields => Calm(u, NotifyAbilityRecordCleanup(u, g))
  BY DEF Calm, NotifyAbilityRecordCleanup, Fields
<1>3. \A u, g : DOMAIN u = Fields => Calm(u, DeleteAbilityThread(u, g))
  <2>1. SUFFICES ASSUME NEW u, NEW g, DOMAIN u = Fields PROVE Calm(u, DeleteAbilityThread(u, g))
    OBVIOUS
  <2>. DEFINE x == IF \E r \in g : r.thread /\ ~r.native THEN NoToken ELSE u.async
              v == [u EXCEPT !.async = x]
  <2>2. DeleteAbilityThread(u, g) = DeleteThreads(v, g)
    BY DEF DeleteAbilityThread
  <2>. HIDE DEF x
  <2>3. Calm(u, v)
    BY <2>1 DEF Calm, Fields
  <2>. HIDE DEF v
  <2>4. Calm(v, DeleteThreads(v, g))
    BY <1>1, <2>3 DEF Calm
  <2>. QED
    BY <2>2, <2>3, <2>4 DEF Calm
<1>4. \A g : Calm(s, DeleteRecords(s, g))
  <2>1. SUFFICES ASSUME NEW g PROVE Calm(s, DeleteRecords(s, g))
    OBVIOUS
  <2>. DEFINE d == DeleteAbilityThread(s, g)
              k == Keep(d.list, {i \in DOMAIN s.list : s.list[i] \notin g})
              v == [d EXCEPT !.list = k]
  <2>2. DeleteRecords(s, g) = NotifyAbilityRecordCleanup(v, g)
    BY DEF DeleteRecords
  <2>3. Calm(s, d)
    BY <1>3
  <2>. HIDE DEF d, k
  <2>4. Calm(d, v)
    BY <2>3 DEF Calm, Fields
  <2>. HIDE DEF v
  <2>5. Calm(v, NotifyAbilityRecordCleanup(v, g))
    BY <1>2, <2>4 DEF Calm
  <2>. QED
    BY <2>2, <2>3, <2>4, <2>5 DEF Calm
<1>5. \A t : Calm(s, DeleteRecordInfo(s, t))
  BY <1>4, CalmFields DEF DeleteRecordInfo
<1>. QED
  BY <1>1, <1>2, <1>3, <1>4, <1>5

\* A record is added.
LEMMA CalmAdded ==
    ASSUME NEW s, DOMAIN s = Fields, NEW x
    PROVE  Calm(s, AddRecord(s, x))
<1>. DEFINE l == Add(s.list, x)
            g == {s.list[i] : i \in {j \in DOMAIN s.list : ~Has(l, s.list[j].token)}}
            d == DeleteThreads(s, g)
            v == [d EXCEPT !.list = l]
<1>1. AddRecord(s, x) = v
  BY DEF AddRecord
<1>2. Calm(s, d)
  BY CalmDeleted
<1>. HIDE DEF d, l, g
<1>3. Calm(d, v)
  BY <1>2, CalmFields DEF Calm
<1>. QED
  BY <1>1, <1>2, <1>3 DEF Calm

\* The observer is told.
LEMMA CalmTold ==
    ASSUME NEW s, DOMAIN s = Fields, NEW t, NEW state
    PROVE  Calm(s, SetAbilityStateAndNotify(s, t, state))
<1>. DEFINE r == Get(s.list, t)
            x == [r EXCEPT !.state = state]
            p == Put(s, x)
            v == [p EXCEPT !.seen[r.app] = state]
<1>1. SetAbilityStateAndNotify(s, t, state) = IF ~Has(s.list, t) THEN s ELSE v
  BY DEF SetAbilityStateAndNotify
<1>. HIDE DEF r, x
<1>2. Calm(s, p)
  BY CalmFields
<1>. HIDE DEF p
<1>3. Calm(p, v)
  BY <1>2 DEF Calm, Fields
<1>. HIDE DEF v
<1>4. Calm(s, v)
  BY <1>2, <1>3 DEF Calm
<1>. QED
  BY <1>1, <1>4, CalmFields

\* An ability in the list is started.
LEMMA CalmKnown ==
    ASSUME NEW s, DOMAIN s = Fields, NEW w
    PROVE  Calm(s, MStartKnown(s, w))
<1>. DEFINE r == GetApp(s.list, w.app)
            top == s.list[1]
            aimed == IF w.mission = Unset THEN s ELSE Put(s, [r EXCEPT !.mission = w.mission])
            l == MoveToTop(aimed.list, r.token)
            moved == [aimed EXCEPT !.list = l]
            marked == MarkTemporary(moved, top)
            sent == SendMsgToAbilityThread(marked, Get(marked.list, top.token), "BACKGROUND")
<1>1. \/ MStartKnown(s, w) = Ok(Idle(s))
      \/ MStartKnown(s, w) = Error(Idle(s))
      \/ MStartKnown(s, w) = sent
  BY DEF MStartKnown
<1>. HIDE DEF r, top
<1>2. Calm(s, aimed)
  BY CalmFields
<1>. HIDE DEF aimed, l
<1>3. Calm(aimed, moved)
  BY <1>2, CalmFields DEF Calm
<1>. HIDE DEF moved
<1>4. Calm(moved, marked)
  BY <1>3, CalmFields DEF Calm, MarkTemporary
<1>. HIDE DEF marked
<1>5. Calm(marked, sent)
  BY <1>4, CalmSent DEF Calm
<1>. HIDE DEF sent
<1>6. Calm(s, sent)
  BY <1>2, <1>3, <1>4, <1>5 DEF Calm
<1>7. Calm(s, Ok(Idle(s))) /\ Calm(s, Error(Idle(s)))
  <2>1. Calm(s, Idle(s))
    BY CalmFields
  <2>2. Calm(Idle(s), Ok(Idle(s))) /\ Calm(Idle(s), Error(Idle(s)))
    BY <2>1, CalmFields DEF Calm
  <2>. QED
    BY <2>1, <2>2 DEF Calm
<1>. QED
  BY <1>1, <1>6, <1>7

\* The ability on top is terminated.
LEMMA CalmTop ==
    ASSUME NEW s, DOMAIN s = Fields
    PROVE  Calm(s, MTerminateTop(s))
<1>. DEFINE top == s.list[1]
            below == s.list[2]
            popped == Tail(s.list)
            kept == IF IsPermanentAbility(top)
                    THEN Add(Add(Tail(popped), top), below)
                    ELSE Add(popped, [top EXCEPT !.terminated = TRUE])
            p == below.token
            u == [s EXCEPT !.list = kept, !.pending = p]
            q == Get(kept, top.token)
            v == [s EXCEPT !.list = <<>>]
<1>1. \/ MTerminateTop(s) = Error(Idle(v))
      \/ MTerminateTop(s) = SendMsgToAbilityThread(u, q, "BACKGROUND")
  BY DEF MTerminateTop
<1>. HIDE DEF kept, p, q
<1>2. Calm(s, u) /\ Calm(s, v)
  BY DEF Calm, Fields
<1>. HIDE DEF u, v
<1>3. Calm(u, SendMsgToAbilityThread(u, q, "BACKGROUND"))
  BY <1>2, CalmSent DEF Calm
<1>4. Calm(v, Idle(v))
  BY <1>2, CalmFields DEF Calm
<1>5. Calm(Idle(v), Error(Idle(v)))
  BY <1>4, CalmFields DEF Calm
<1>. QED
  BY <1>1, <1>2, <1>3, <1>4, <1>5 DEF Calm

\* An ability is terminated by its token.
LEMMA CalmToken ==
    ASSUME NEW s, DOMAIN s = Fields, NEW t
    PROVE  Calm(s, MTerminateToken(s, t))
<1>. DEFINE d == DeleteRecordInfo(s, t)
<1>1. \/ MTerminateToken(s, t) = Ok(Idle(s))
      \/ MTerminateToken(s, t) = Error(Idle(s))
      \/ MTerminateToken(s, t) = MTerminateTop(s)
      \/ MTerminateToken(s, t) = Ok(Idle(d))
  BY DEF MTerminateToken
<1>2. Calm(s, d)
  BY CalmDeleted
<1>. HIDE DEF d
<1>3. \A u : DOMAIN u = Fields => Calm(u, Ok(Idle(u))) /\ Calm(u, Error(Idle(u)))
  <2>1. SUFFICES ASSUME NEW u, DOMAIN u = Fields
                 PROVE  Calm(u, Ok(Idle(u))) /\ Calm(u, Error(Idle(u)))
    OBVIOUS
  <2>2. Calm(u, Idle(u))
    BY <2>1, CalmFields
  <2>3. Calm(Idle(u), Ok(Idle(u))) /\ Calm(Idle(u), Error(Idle(u)))
    BY <2>2, CalmFields DEF Calm
  <2>. QED
    BY <2>2, <2>3 DEF Calm
<1>4. Calm(d, Ok(Idle(d)))
  BY <1>2, <1>3 DEF Calm
<1>5. Calm(s, Ok(Idle(d)))
  BY <1>2, <1>4 DEF Calm
<1>. QED
  BY <1>1, <1>3, <1>5, CalmTop

\* The creation of a task.
LEMMA TaskFails ==
    ASSUME Regular, NEW s, DOMAIN s = Fields, NEW q, NEW fails
    PROVE  LET r == CreateAppTask(s, q, fails)
           IN  /\ Near(s, r)
               /\ r = CreateAppTask(s, q, {}) \/ r.failed = TRUE
<1>1. CASE q.app \in fails
  <2>. DEFINE r == CreateAppTask(s, q, fails)
  <2>1. r = Error([s EXCEPT !.failed = TRUE])
    BY <1>1 DEF CreateAppTask, InitAbilityThread, Error, Fields
  <2>2. Near(s, r) /\ r.failed = TRUE
    BY <2>1 DEF Near, Error, Fields
  <2>. QED
    BY <2>2
<1>2. CASE q.app \notin fails
  <2>. DEFINE v == IF q.native THEN InitNativeThread(s, q) ELSE InitJsThread(s, q)
              i == Ok(v)
              x == [q EXCEPT !.thread = TRUE, !.state = "STOP"]
              p == Put(i, x)
              r == CreateAppTask(s, q, fails)
  <2>1. InitAbilityThread(s, q, fails) = InitAbilityThread(s, q, {})
    BY <1>2 DEF InitAbilityThread
  <2>2. r = CreateAppTask(s, q, {})
    BY <2>1 DEF CreateAppTask
  <2>3. Calm(s, v)
    BY DEF Calm, InitNativeThread, InitJsThread, NewThread, Fields
  <2>4. Calm(v, i)
    BY <2>3, CalmFields DEF Calm
  <2>5. r = IF i.ret = "error" THEN i ELSE Ok(SchedulerLifecycle(p, q.token, "INITIAL"))
    BY <1>2 DEF CreateAppTask, InitAbilityThread, Regular
  <2>. HIDE DEF v, i, x, r
  <2>6. Calm(i, p)
    BY <2>4, CalmFields DEF Calm
  <2>. DEFINE l == SchedulerLifecycle(p, q.token, "INITIAL")
  <2>7. Calm(p, l)
    <3>1. DOMAIN p = Fields
      BY <2>6 DEF Calm
    <3>. HIDE DEF p
    <3>. QED
      BY <3>1, CalmFields, CalmSent DEF SchedulerLifecycle, Regular
  <2>. HIDE DEF l, p
  <2>8. Calm(l, Ok(l))
    BY <2>7, CalmFields DEF Calm
  <2>9. Calm(s, r)
    BY <2>3, <2>4, <2>5, <2>6, <2>7, <2>8 DEF Calm, l
  <2>10. Near(s, r)
    BY <2>9 DEF Calm, Near
  <2>. QED
    BY <2>2, <2>10 DEF r
<1>. QED
  BY <1>1, <1>2

\* r is c, what comes of s when every task can be created, or a task failed.
Only(s, r, c) == Near(s, r) /\ (r = c \/ r.failed = TRUE)

\* What comes before the creation of a task.
LEMMA CalmOnly ==
    ASSUME NEW s, NEW u, Calm(s, u)
    PROVE  Only(s, u, u) /\ \A r, c : Only(u, r, c) => Only(s, r, c)
BY DEF Calm, Only, Near

\* What comes after the creation of a task.
LEMMA CalmEnd ==
    ASSUME NEW s, NEW u, NEW r, Near(s, u), Calm(u, r)
    PROVE  Near(s, r) /\ (u.failed = TRUE => r.failed = TRUE)
BY DEF Calm, Near

\* The scheduling flag and the return value.
LEMMA CalmIdle ==
    ASSUME NEW s, DOMAIN s = Fields
    PROVE  /\ Calm(s, Ok(Idle(s))) /\ Calm(s, Error(Idle(s))) /\ Calm(s, Scheduling(Idle(s)))
<1>1. Calm(s, Idle(s))
  BY CalmFields
<1>2. /\ Calm(Idle(s), Ok(Idle(s))) /\ Calm(Idle(s), Error(Idle(s)))
      /\ Calm(Idle(s), Scheduling(Idle(s)))
  BY <1>1, CalmFields DEF Calm
<1>. QED
  BY <1>1, <1>2 DEF Calm

\* A new record on top of the list.
LEMMA PreCheckFails ==
    ASSUME Regular, NEW s, DOMAIN s = Fields, NEW w, NEW fails
    PROVE  Only(s, MPreCheckStartAbility(s, w, fails), MPreCheckStartAbility(s, w, {}))
<1>. DEFINE token == IF s.pending # 0 THEN s.pending ELSE GeneratedToken(s.tokens)
            q == AbilityRecord(token, w.app, IsNativeApp(w.app), MissionFor(s, w))
            tk == IF s.pending # 0 THEN s.tokens ELSE NextToken(s.tokens)
            ms == NextMission(s, w)
            v == [s EXCEPT !.tokens = tk, !.missions = ms]
            added == AddRecord(v, q)
            Kept(u) == IF u.ret = "error" THEN [u EXCEPT !.list = Erase(@, token)] ELSE Ok(u)
            i == CreateAppTask(added, q, fails)
            j == CreateAppTask(added, q, {})
<1>1. /\ MPreCheckStartAbility(s, w, fails) = IF s.pending # 0 THEN Ok(added) ELSE Kept(i)
      /\ MPreCheckStartAbility(s, w, {}) = IF s.pending # 0 THEN Ok(added) ELSE Kept(j)
  BY DEF MPreCheckStartAbility, Regular, IsNativeApp
<1>. HIDE DEF q, token, tk, ms
<1>2. Calm(s, v)
  BY DEF Calm, Fields
<1>. HIDE DEF v
<1>3. Calm(v, added)
  BY <1>2, CalmAdded DEF Calm
<1>. HIDE DEF added
<1>4. Calm(s, added)
  BY <1>2, <1>3 DEF Calm
<1>5. Calm(added, Ok(added))
  BY <1>4, CalmFields DEF Calm
<1>6. Near(added, i) /\ (i = j \/ i.failed = TRUE)
  BY <1>4, TaskFails DEF Calm
<1>. HIDE DEF i, j
<1>7. Calm(i, Kept(i))
  <2>1. DOMAIN i = Fields
    BY <1>6 DEF Near
  <2>2. Calm(i, Ok(i)) /\ \A x : Calm(i, [i EXCEPT !.list = x])
    BY <2>1, CalmFields
  <2>. QED
    BY <2>2
<1>8. Near(added, Kept(i)) /\ (i.failed = TRUE => Kept(i).failed = TRUE)
  <2>. HIDE DEF Kept
  <2>. QED
    BY <1>6, <1>7, CalmEnd
<1>9. Only(added, Kept(i), Kept(j))
  <2>1. i = j => Kept(i) = Kept(j)
    OBVIOUS
  <2>. HIDE DEF Kept
  <2>. QED
    BY <1>6, <1>8, <2>1 DEF Only
<1>. HIDE DEF Kept
<1>10. Only(s, Kept(i), Kept(j))
  BY <1>4, <1>9, CalmOnly
<1>11. Only(s, Ok(added), Ok(added))
  BY <1>4, <1>5, CalmOnly DEF Calm
<1>. QED
  BY <1>1, <1>10, <1>11

\* An ability that is not in the list is started.
LEMMA StartNewFails ==
    ASSUME Regular, NEW s, DOMAIN s = Fields, NEW w, NEW fails
    PROVE  Only(s, MStartNew(s, w, fails), MStartNew(s, w, {}))
<1>. DEFINE marked == MarkTemporary(s, s.list[1])
            sent == SendMsgToAbilityThread(marked, marked.list[1], "BACKGROUND")
            p == GeneratedToken(s.tokens)
            n == NextToken(sent.tokens)
            v == [sent EXCEPT !.pending = p, !.tokens = n]
<1>1. CASE s.list = <<>>
  <2>1. \A f : MStartNew(s, w, f) = IF w.app # Startup THEN Error(s) ELSE MPreCheckStartAbility(s, w, f)
    BY <1>1 DEF MStartNew
  <2>2. Only(s, Error(s), Error(s))
    BY CalmFields, CalmOnly
  <2>. QED
    BY <2>1, <2>2, PreCheckFails
<1>2. CASE s.list # <<>>
  <2>1. \A f : MStartNew(s, w, f) = IF ~IsNativeApp(w.app) /\ ~CheckResponse(w.app) THEN Error(s)
                                    ELSE MPreCheckStartAbility(v, w, f)
    BY <1>2 DEF MStartNew
  <2>2. Only(s, Error(s), Error(s))
    BY CalmFields, CalmOnly
  <2>3. Calm(s, marked)
    BY CalmFields DEF MarkTemporary
  <2>. HIDE DEF marked
  <2>4. Calm(marked, sent)
    BY <2>3, CalmSent DEF Calm
  <2>. HIDE DEF sent, p, n
  <2>5. Calm(sent, v)
    BY <2>4 DEF Calm, Fields
  <2>. HIDE DEF v
  <2>6. Calm(s, v)
    BY <2>3, <2>4, <2>5 DEF Calm
  <2>7. Only(v, MPreCheckStartAbility(v, w, fails), MPreCheckStartAbility(v, w, {}))
    BY <2>6, PreCheckFails DEF Calm
  <2>8. Only(s, MPreCheckStartAbility(v, w, fails), MPreCheckStartAbility(v, w, {}))
    BY <2>6, <2>7, CalmOnly
  <2>. QED
    BY <2>1, <2>2, <2>8
<1>. QED
  BY <1>1, <1>2

\* The task of the next ability.
LEMMA RestartFails ==
    ASSUME Regular, NEW s, DOMAIN s = Fields, NEW fails
    PROVE  Only(s, MRestart(s, fails), MRestart(s, {}))
<1>. DEFINE t == IF s.pending # 0 THEN s.pending ELSE s.list[1].token
            q == Get(s.list, t)
            Erased(u) ==
                IF s.pending = 0 THEN Idle(u)
                ELSE IF u.list = <<>> THEN u
                ELSE [StartRecord(Idle(u), u.list[1]) EXCEPT !.pending = 0]
            Became(u) == IF u.ret # "error" THEN [u EXCEPT !.pending = 0]
                          ELSE Erased([u EXCEPT !.list = Erase(@, t)])
            i == CreateAppTask(s, q, fails)
            j == CreateAppTask(s, q, {})
<1>1. \A f : MRestart(s, f) = IF s.pending # 0 /\ ~Has(s.list, t) THEN s
                              ELSE Became(CreateAppTask(s, q, f))
  BY DEF MRestart
<1>2. MRestart(s, fails) = IF s.pending # 0 /\ ~Has(s.list, t) THEN s ELSE Became(i)
  BY <1>1
<1>3. MRestart(s, {}) = IF s.pending # 0 /\ ~Has(s.list, t) THEN s ELSE Became(j)
  BY <1>1
<1>4. Near(s, i) /\ (i = j \/ i.failed = TRUE)
  BY TaskFails
<1>. HIDE DEF t, q, i, j
<1>5. ASSUME NEW u, DOMAIN u = Fields PROVE Calm(u, Erased(u))
  <2>1. Calm(u, Idle(u)) /\ Calm(u, u)
    BY <1>5, CalmFields
  <2>. DEFINE x == Idle(u)
              w == [app |-> u.list[1].app, mission |-> Unset]
              y == MStartKnown(Scheduling(x), w)
  <2>2. StartRecord(Idle(u), u.list[1]) = y
    BY DEF StartRecord
  <2>3. Calm(x, Scheduling(x))
    BY <2>1, CalmFields DEF Calm
  <2>. HIDE DEF w
  <2>4. Calm(Scheduling(x), y)
    BY <2>3, CalmKnown DEF Calm
  <2>. HIDE DEF y
  <2>5. Calm(u, y)
    BY <2>1, <2>3, <2>4 DEF Calm
  <2>6. Calm(y, [y EXCEPT !.pending = 0])
    BY <2>5, CalmFields DEF Calm
  <2>7. Calm(u, [y EXCEPT !.pending = 0])
    BY <2>5, <2>6 DEF Calm
  <2>. QED
    BY <2>1, <2>2, <2>7
<1>6. Calm(i, Became(i))
  <2>1. DOMAIN i = Fields
    BY <1>4 DEF Near
  <2>. DEFINE x == [i EXCEPT !.list = Erase(@, t)]
  <2>2. Calm(i, [i EXCEPT !.pending = 0]) /\ Calm(i, x)
    BY <2>1, CalmFields
  <2>3. Became(i) = IF i.ret # "error" THEN [i EXCEPT !.pending = 0] ELSE Erased(x)
    OBVIOUS
  <2>. HIDE DEF Became, Erased, x
  <2>4. Calm(x, Erased(x))
    BY <1>5, <2>2 DEF Calm
  <2>5. Calm(i, Erased(x))
    BY <2>2, <2>4 DEF Calm
  <2>. QED
    BY <2>2, <2>3, <2>5
<1>7. i = j => Became(i) = Became(j)
  OBVIOUS
<1>. HIDE DEF Became
<1>8. Only(s, Became(i), Became(j))
  BY <1>4, <1>6, <1>7, CalmEnd DEF Only
<1>9. Only(s, s, s)
  BY CalmFields, CalmOnly
<1>. QED
  BY <1>2, <1>3, <1>8, <1>9

\* UNINITIALIZED: the task of the next ability is created.
LEMMA DestroyDoneFails ==
    ASSUME Regular, NEW s, DOMAIN s = Fields, NEW t, NEW fails
    PROVE  Only(s, MOnDestroyDone(s, t, fails), MOnDestroyDone(s, t, {}))
<1>. DEFINE told == SetAbilityStateAndNotify(s, t, "STOP")
            r == Get(told.list, t)
            x == [r EXCEPT !.thread = FALSE]
            a == DeleteRecordInfo(told, t)
            d == DeleteAbilityThread(told, {r})
            b == Put(d, x)
            u == IF r.terminated THEN a ELSE b
            z == [u EXCEPT !.dangling = TRUE]
<1>1. \A f : MOnDestroyDone(s, t, f) = IF ~Has(s.list, t) THEN s
                                       ELSE IF u.pending = 0 /\ u.list = <<>> THEN z
                                       ELSE MRestart(u, f)
  BY DEF MOnDestroyDone
<1>2. Calm(s, told)
  BY CalmTold
<1>. HIDE DEF told, r, x
<1>3. Calm(told, a) /\ Calm(told, d)
  BY <1>2, CalmDeleted DEF Calm
<1>. HIDE DEF a, d
<1>4. Calm(d, b)
  BY <1>3, CalmFields DEF Calm
<1>. HIDE DEF b
<1>5. Calm(s, u)
  BY <1>2, <1>3, <1>4 DEF Calm
<1>. HIDE DEF u
<1>6. Calm(u, z)
  BY <1>5 DEF Calm, Fields
<1>. HIDE DEF z
<1>7. Calm(s, z)
  BY <1>5, <1>6 DEF Calm
<1>8. Only(s, s, s) /\ Only(s, z, z)
  BY <1>7, CalmFields, CalmOnly
<1>9. Only(u, MRestart(u, fails), MRestart(u, {}))
  BY <1>5, RestartFails DEF Calm
<1>10. Only(s, MRestart(u, fails), MRestart(u, {}))
  BY <1>5, <1>9, CalmOnly
<1>. QED
  BY <1>1, <1>8, <1>10

\* A state of the service, with nothing unknown held back.
Held(s) == DOMAIN s = Fields /\ s.ops \in Seq(Allowed)

\* The same of an operation, which may be held back.
Either(s, r, c) ==
    /\ Held(r) /\ r.failed \in {s.failed, TRUE}
    /\ r = c \/ r.failed = TRUE

\* Three ways to be Either.
LEMMA OnlyEither ==
    ASSUME NEW s, Held(s)
    PROVE  /\ \A r, c : Only(s, r, c) => Either(s, r, c)
           /\ \A r : Calm(s, r) => Either(s, r, r)
           /\ \A op \in Allowed : Either(s, AddAbilityOperation(s, op), AddAbilityOperation(s, op))
<1>1. \A r, c : Only(s, r, c) => Either(s, r, c)
  BY DEF Held, Only, Near, Either
<1>2. \A r : Calm(s, r) => Either(s, r, r)
  BY DEF Held, Calm, Either
<1>3. ASSUME NEW op \in Allowed
      PROVE  Either(s, AddAbilityOperation(s, op), AddAbilityOperation(s, op))
  <2>. DEFINE x == Append(s.ops, op)
              v == [s EXCEPT !.ops = x]
  <2>1. x \in Seq(Allowed)
    BY DEF Held
  <2>2. AddAbilityOperation(s, op) = Ok(v)
    BY DEF AddAbilityOperation
  <2>. HIDE DEF x
  <2>3. DOMAIN v = Fields /\ v.ops = x /\ v.failed = s.failed
    BY DEF Held, Fields
  <2>. HIDE DEF v
  <2>4. Calm(v, Ok(v))
    BY <2>3, CalmFields
  <2>. QED
    BY <2>1, <2>2, <2>3, <2>4 DEF Calm, Held, Either
<1>. QED
  BY <1>1, <1>2, <1>3

\* What is held back is what was asked for.
LEMMA HeldBack ==
    ASSUME NEW op \in Allowed
    PROVE  /\ op.id = "start" => op = [id |-> "start", want |-> op.want]
           /\ op.id \in {"terminate", "terminateApp"} => op = [id |-> op.id, token |-> op.token]
           /\ op.id = "terminateMission" => op = [id |-> "terminateMission", mission |-> op.mission]
           /\ op.id \in {"forceStop", "terminateAll"} => op = [id |-> op.id, app |-> op.app]
BY DEF Allowed, Operation

\* StartAbility, in all its cases.
LEMMA StartFails ==
    ASSUME Regular, NEW s, Held(s), NEW op \in Allowed, op.id = "start", NEW fails
    PROVE  Either(s, StartAbility(s, op.want, fails), StartAbility(s, op.want, {}))
<1>. DEFINE w == op.want
            c == Scheduling(s)
<1>1. op = [id |-> "start", want |-> w]
  BY HeldBack
<1>2. \A f : StartAbility(s, w, f) = IF s.scheduling THEN AddAbilityOperation(s, op)
                                     ELSE IF HasApp(s.list, w.app) THEN MStartKnown(c, w)
                                     ELSE IF ~QueryAbilitySvcInfo(w.app) THEN Error(Idle(s))
                                     ELSE MStartNew(c, w, f)
  BY <1>1 DEF StartAbility, MStartAbility, Regular
<1>. HIDE DEF w
<1>3. Calm(s, c) /\ DOMAIN s = Fields
  BY CalmFields DEF Held
<1>. HIDE DEF c
<1>4. Calm(c, MStartKnown(c, w))
  BY <1>3, CalmKnown DEF Calm
<1>5. Calm(s, MStartKnown(c, w))
  BY <1>3, <1>4 DEF Calm
<1>6. Calm(s, Error(Idle(s)))
  BY <1>3, CalmIdle
<1>7. Only(c, MStartNew(c, w, fails), MStartNew(c, w, {}))
  BY <1>3, StartNewFails DEF Calm
<1>8. Only(s, MStartNew(c, w, fails), MStartNew(c, w, {}))
  BY <1>3, <1>7, CalmOnly
<1>9. /\ Either(s, AddAbilityOperation(s, op), AddAbilityOperation(s, op))
      /\ Either(s, MStartKnown(c, w), MStartKnown(c, w))
      /\ Either(s, Error(Idle(s)), Error(Idle(s)))
      /\ Either(s, MStartNew(c, w, fails), MStartNew(c, w, {}))
  BY <1>5, <1>6, <1>8, OnlyEither
<1>. QED
  BY <1>2, <1>9 DEF w

\* MTerminateToken during a switch of its own.
LEMMA TokenCalm ==
    ASSUME NEW s, DOMAIN s = Fields, NEW t
    PROVE  Calm(s, MTerminateToken(Scheduling(s), t))
<1>1. Calm(s, Scheduling(s))
  BY CalmFields
<1>2. Calm(Scheduling(s), MTerminateToken(Scheduling(s), t))
  BY <1>1, CalmToken DEF Calm
<1>. QED
  BY <1>1, <1>2 DEF Calm

\* ForceStopBundle, in all its cases.
LEMMA ForceStopFails ==
    ASSUME Regular, NEW s, Held(s), NEW op \in Allowed, op.id = "terminateApp", NEW fails
    PROVE  Either(s, ForceStopBundle(s, op.token, fails), ForceStopBundle(s, op.token, {}))
<1>. DEFINE t == op.token
            q == [s.list[1] EXCEPT !.terminated = TRUE]
            p == Put(s, q)
            c == Scheduling(p)
            z == [s EXCEPT !.dangling = TRUE]
            m == MTerminateToken(Scheduling(s), t)
            i == MOnDestroyDone(c, t, fails)
            j == MOnDestroyDone(c, t, {})
<1>1. op = [id |-> "terminateApp", token |-> t]
  BY HeldBack
<1>2. \A f : ForceStopBundle(s, t, f) = IF s.scheduling THEN AddAbilityOperation(s, op)
                                        ELSE IF s.list = <<>> THEN z
                                        ELSE IF s.list[1].token # t THEN m
                                        ELSE Ok(MOnDestroyDone(c, t, f))
  BY <1>1 DEF ForceStopBundle, MForceStopBundle, Regular
<1>3. DOMAIN s = Fields
  BY DEF Held
<1>4. Calm(s, z)
  BY <1>3 DEF Calm, Fields
<1>5. Calm(s, m)
  BY <1>3, TokenCalm
<1>. HIDE DEF t, q, z, m
<1>6. Calm(s, p)
  BY <1>3, CalmFields
<1>. HIDE DEF p
<1>7. Calm(p, c)
  BY <1>6, CalmFields DEF Calm
<1>. HIDE DEF c
<1>8. Calm(s, c)
  BY <1>6, <1>7 DEF Calm
<1>9. Only(c, i, j)
  BY <1>8, DestroyDoneFails DEF Calm
<1>10. Only(s, i, j)
  BY <1>8, <1>9, CalmOnly
<1>11. ForceStopBundle(s, t, fails) \in {AddAbilityOperation(s, op), z, m, Ok(i)}
  BY <1>2
<1>12. \/ ForceStopBundle(s, t, fails) = ForceStopBundle(s, t, {})
       \/ ForceStopBundle(s, t, fails) = Ok(i) /\ ForceStopBundle(s, t, {}) = Ok(j)
  BY <1>2
<1>. HIDE DEF i, j
<1>13. Calm(i, Ok(i))
  BY <1>10, CalmFields DEF Only, Near
<1>14. Only(s, Ok(i), Ok(j))
  BY <1>10, <1>13, CalmEnd DEF Only
<1>15. /\ Either(s, AddAbilityOperation(s, op), AddAbilityOperation(s, op))
       /\ Either(s, z, z) /\ Either(s, m, m) /\ Either(s, Ok(i), Ok(j))
  BY <1>4, <1>5, <1>14, OnlyEither
<1>. QED
  BY <1>11, <1>12, <1>15 DEF t, Either

\* The others create no task.
LEMMA OthersCalm ==
    ASSUME Regular, NEW s, Held(s), NEW op \in Allowed, op.id \notin {"start", "terminateApp"},
           NEW fails
    PROVE  Either(s, Perform(s, op, fails), Perform(s, op, {}))
<1>0. DOMAIN s = Fields
  BY DEF Held
<1>a. Either(s, AddAbilityOperation(s, op), AddAbilityOperation(s, op))
  BY OnlyEither
<1>e. Calm(s, Error(s)) /\ Calm(s, Error(Idle(s)))
  BY <1>0, CalmFields, CalmIdle
<1>1. CASE op.id = "terminate"
  <2>1. op = [id |-> "terminate", token |-> op.token]
    BY <1>1, HeldBack
  <2>2. \A f : Perform(s, op, f) = IF s.scheduling THEN AddAbilityOperation(s, op)
                                   ELSE MTerminateToken(Scheduling(s), op.token)
    BY <1>1, <2>1 DEF Perform, TerminateAbility, TerminateToken, Regular
  <2>3. Calm(s, MTerminateToken(Scheduling(s), op.token))
    BY <1>0, TokenCalm
  <2>. QED
    BY <1>a, <2>2, <2>3, OnlyEither
<1>2. CASE op.id = "terminateMission"
  <2>1. op = [id |-> "terminateMission", mission |-> op.mission]
    BY <1>2, HeldBack
  <2>. DEFINE others == GetAbilityList(s.list, op.mission) \ {s.list[1]}
              gone == {r \in others : ~(r.token = LauncherToken \/ IsPermanentAbility(r))}
              left == DeleteRecords(s, gone)
  <2>2. \A f : Perform(s, op, f) = TerminateMission(s, op.mission)
    BY <1>2 DEF Perform
  <2>3. TerminateMission(s, op.mission) = IF s.scheduling THEN AddAbilityOperation(s, op)
                                          ELSE IF s.list = <<>> THEN Error(s) ELSE Ok(left)
    BY <2>1 DEF TerminateMission, Regular
  <2>. HIDE DEF gone
  <2>4. Calm(s, left)
    BY <1>0, CalmDeleted
  <2>. HIDE DEF left
  <2>5. Calm(left, Ok(left))
    BY <2>4, CalmFields DEF Calm
  <2>6. Calm(s, Ok(left))
    BY <2>4, <2>5 DEF Calm
  <2>. QED
    BY <1>a, <1>e, <2>2, <2>3, <2>6, OnlyEither
<1>3. CASE op.id = "forceStop"
  <2>1. op = [id |-> "forceStop", app |-> op.app]
    BY <1>3, HeldBack
  <2>2. \A f : Perform(s, op, f) = ForceStop(s, op.app)
    BY <1>3 DEF Perform
  <2>. DEFINE t == GetApp(s.list, op.app).token
  <2>3. ForceStop(s, op.app) = IF s.scheduling THEN AddAbilityOperation(s, op)
                               ELSE IF ~HasApp(s.list, op.app) THEN Error(Idle(s))
                               ELSE MTerminateToken(Scheduling(s), t)
    BY <2>1 DEF ForceStop, TerminateToken, Regular
  <2>. HIDE DEF t
  <2>4. Calm(s, MTerminateToken(Scheduling(s), t))
    BY <1>0, TokenCalm
  <2>. QED
    BY <1>a, <1>e, <2>2, <2>3, <2>4, OnlyEither
<1>4. CASE op.id = "terminateAll"
  <2>1. op = [id |-> "terminateAll", app |-> op.app]
    BY <1>4, HeldBack
  <2>2. \A f : Perform(s, op, f) = TerminateAll(s, op.app)
    BY <1>4 DEF Perform
  <2>. DEFINE kept == PopAllAbility(s.list, op.app)
              gone == {s.list[i] : i \in {j \in DOMAIN s.list : ~Has(kept, s.list[j].token)}}
              d == DeleteThreads(s, gone)
              v == [d EXCEPT !.list = kept]
              n == NotifyAbilityRecordCleanup(v, gone)
  <2>3. TerminateAll(s, op.app) = IF s.scheduling THEN AddAbilityOperation(s, op)
                                  ELSE IF s.list = <<>> THEN Error(s) ELSE Ok(n)
    BY <2>1 DEF TerminateAll
  <2>. HIDE DEF kept, gone
  <2>4. Calm(s, d)
    BY <1>0, CalmDeleted
  <2>. HIDE DEF d
  <2>5. Calm(d, v)
    BY <2>4, CalmFields DEF Calm
  <2>. HIDE DEF v
  <2>6. Calm(v, n)
    BY <2>5, CalmDeleted DEF Calm
  <2>. HIDE DEF n
  <2>7. Calm(n, Ok(n))
    BY <2>6, CalmFields DEF Calm
  <2>8. Calm(s, Ok(n))
    BY <2>4, <2>5, <2>6, <2>7 DEF Calm
  <2>. QED
    BY <1>a, <1>e, <2>2, <2>3, <2>8, OnlyEither
<1>5. op.id \in {"terminate", "terminateMission", "forceStop", "terminateAll"}
  BY Kinds
<1>. QED
  BY <1>1, <1>2, <1>3, <1>4, <1>5

\* Perform: every operation that is requested or held back.
LEMMA PerformFails ==
    ASSUME Regular, NEW s, Held(s), NEW op \in Allowed, NEW fails
    PROVE  Either(s, Perform(s, op, fails), Perform(s, op, {}))
<1>1. CASE op.id = "start"
  <2>1. \A f : Perform(s, op, f) = StartAbility(s, op.want, f)
    BY <1>1 DEF Perform
  <2>. QED
    BY <1>1, <2>1, StartFails
<1>2. CASE op.id = "terminateApp"
  <2>1. \A f : Perform(s, op, f) = ForceStopBundle(s, op.token, f)
    BY <1>2 DEF Perform
  <2>. QED
    BY <1>2, <2>1, ForceStopFails
<1>. QED
  BY <1>1, <1>2, OthersCalm

\* RunOne: one operation held back.
LEMMA RunOneFails ==
    ASSUME Regular, NEW s, Held(s), NEW fails, NEW garbage \in Mission \cup {Unset}
    PROVE  Either(s, RunOne(s, fails, garbage), RunOne(s, {}, garbage))
<1>1. CASE s.ops = <<>> \/ s.scheduling
  <2>1. \A f : RunOne(s, f, garbage) = s
    BY <1>1 DEF RunOne
  <2>2. Calm(s, s)
    BY CalmFields DEF Held
  <2>. QED
    BY <2>1, <2>2, OnlyEither
<1>2. CASE ~(s.ops = <<>> \/ s.scheduling)
  <2>. DEFINE op == Head(s.ops)
              copy == IF op.id = "start" THEN [op EXCEPT !.want.mission = garbage] ELSE op
              rest == Tail(s.ops)
              v == [s EXCEPT !.ops = rest]
              Done(u) == IF u.ret = "error" THEN Idle(u) ELSE u
              i == Perform(v, copy, fails)
              j == Perform(v, copy, {})
  <2>1. RunOne(s, fails, garbage) = Done(i) /\ RunOne(s, {}, garbage) = Done(j)
    BY <1>2 DEF RunOne
  <2>2. op \in Allowed /\ rest \in Seq(Allowed)
    BY <1>2 DEF Held
  <2>3. copy \in Allowed
    <3>1. CASE op.id = "start"
      BY <2>2, <3>1 DEF Allowed, Operation
    <3>2. CASE op.id # "start"
      BY <2>2, <3>2
    <3>. QED
      BY <3>1, <3>2
  <2>. HIDE DEF op, copy, rest
  <2>4. Held(v) /\ v.failed = s.failed
    BY <2>2 DEF Held, Fields
  <2>. HIDE DEF v
  <2>5. Either(v, i, j)
    BY <2>3, <2>4, PerformFails
  <2>. HIDE DEF i, j
  <2>6. Calm(i, Done(i))
    BY <2>5, CalmFields DEF Either, Held
  <2>7. i = j => Done(i) = Done(j)
    OBVIOUS
  <2>. HIDE DEF Done
  <2>. QED
    BY <2>1, <2>4, <2>5, <2>6, <2>7 DEF Either, Calm, Held
<1>. QED
  BY <1>1, <1>2

-----------------------------------------------------------------------------
(* The operations held back.                                               *)

\* The service has come from s to u: it is still between switches, or in the
\* first step of one.
Ran(s, u, h, a) ==
    \/ Rest(u, h, a) /\ ~u.scheduling /\ u.tokens = s.tokens
    \/ /\ u.scheduling
       /\ \E k \in Token, b \in App :
             /\ Going(u, k, b)
             /\ u.threads[k].life = "NONE" \/ (k = h /\ b = a /\ u.threads[k].life = "FOREGROUND")

\* RunOne: at rest the next operation held back, otherwise nothing.
LEMMA RunOneRan ==
    ASSUME Regular, NEW s, NEW h \in Token, NEW a \in App, s.tokens < TokenLimit,
           NEW u, Ran(s, u, h, a), NEW garbage \in Mission \cup {Unset}
    PROVE  Ran(s, RunOne(u, {}, garbage), h, a)
<1>1. CASE u.scheduling \/ u.ops = <<>>
  <2>1. RunOne(u, {}, garbage) = u
    BY <1>1 DEF RunOne
  <2>. QED
    BY <2>1
<1>2. CASE ~u.scheduling /\ u.ops # <<>>
  <2>. DEFINE op == Head(u.ops)
              copy == IF op.id = "start" THEN [op EXCEPT !.want.mission = garbage] ELSE op
              v == [u EXCEPT !.ops = Tail(@)]
              p == Perform(v, copy, {})
              r == RunOne(u, {}, garbage)
  <2>0. Rest(u, h, a) /\ u.tokens = s.tokens /\ Typed(u)
    BY <1>2 DEF Ran, Rest, On
  <2>1. r = IF p.ret = "error" THEN Idle(p) ELSE p
    BY <1>2 DEF RunOne
  <2>2. op \in Allowed /\ Tail(u.ops) \in Seq(Allowed)
    BY <1>2, <2>0 DEF Typed
  <2>3. copy \in Allowed
    <3>1. CASE op.id = "start"
      BY <2>2, <3>1 DEF Allowed, Operation
    <3>2. CASE op.id # "start"
      BY <2>2, <3>2
    <3>. QED
      BY <3>1, <3>2
  <2>4. /\ Same(u, v, {"ops"}) /\ v.ops = Tail(u.ops) /\ v.scheduling = u.scheduling
        /\ v.tokens = u.tokens
    BY <2>0 DEF Typed, Same, Fields
  <2>. HIDE DEF op, copy, v
  <2>5. Rest(v, h, a)
    <3>1. Same(u, v, {"ret", "scheduling", "ops", "pendingRecord", "launcher", "lost"})
      BY <2>4 DEF Same
    <3>2. v.scheduling \in BOOLEAN /\ v.ops \in Seq(Allowed)
      BY <2>0, <2>2, <2>4 DEF Typed
    <3>. QED
      BY <2>0, <3>1, <3>2, Unaffected
  <2>6. Fine(v, p, h, a)
    BY <1>2, <2>0, <2>3, <2>4, <2>5, PerformFine
  <2>. HIDE DEF p, r
  <2>7. CASE /\ Rest(p, h, a) /\ p.tokens = v.tokens
             /\ p.ret = "error" \/ ~p.scheduling
    <3>1. CASE p.ret = "error"
      <4>1. r = Idle(p)
        BY <2>1, <3>1
      <4>2. Typed(p)
        BY <2>7 DEF Rest, On
      <4>3. /\ Same(p, r, {"scheduling"}) /\ r.scheduling = FALSE /\ r.tokens = p.tokens
            /\ r.ops = p.ops
        BY <4>1, <4>2 DEF Idle, Typed, Same, Fields
      <4>4. Same(p, r, {"ret", "scheduling", "ops", "pendingRecord", "launcher", "lost"})
        BY <4>3 DEF Same
      <4>5. r.scheduling \in BOOLEAN /\ r.ops \in Seq(Allowed)
        BY <4>2, <4>3 DEF Typed
      <4>6. Rest(r, h, a)
        BY <2>7, <4>4, <4>5, Unaffected
      <4>. QED
        BY <2>0, <2>4, <2>7, <4>3, <4>6 DEF Ran, r
    <3>2. CASE p.ret # "error"
      <4>1. r = p
        BY <2>1, <3>2
      <4>. QED
        BY <2>0, <2>4, <2>7, <3>2, <4>1 DEF Ran, r
    <3>. QED
      BY <3>1, <3>2
  <2>8. CASE ~(/\ Rest(p, h, a) /\ p.tokens = v.tokens
               /\ p.ret = "error" \/ ~p.scheduling)
    <3>1. /\ p.scheduling /\ p.ret = "ok"
          /\ \E k \in Token, b \in App :
               /\ Going(p, k, b)
               /\ p.threads[k].life = "NONE"
                    \/ (k = h /\ b = a /\ p.threads[k].life = "FOREGROUND")
      BY <2>6, <2>8 DEF Fine
    <3>2. r = p
      BY <2>1, <3>1
    <3>. QED
      BY <3>1, <3>2 DEF Ran, r
  <2>. QED
    BY <2>7, <2>8
<1>. QED
  BY <1>1, <1>2

\* Sets of numbers.
LEMMA Least ==
    ASSUME NEW S \in SUBSET Nat, S # {}
    PROVE  \E m \in S : \A x \in S : m <= x
<1>. DEFINE L == OpToRel(<, Nat)
<1>1. PICK m \in S : \A x \in S : ~(<<x, m>> \in L)
  <2>. HIDE DEF L
  <2>1. IsWellFoundedOn(L, Nat)
    BY NatLessThanWellFounded DEF L
  <2>. QED
    BY <2>1, WFMin
<1>2. \A x, y \in Nat : x < y => <<x, y>> \in L
  BY DEF OpToRel
<1>3. \A x \in S : x \in Nat
  OBVIOUS
<1>. HIDE DEF L
<1>4. ASSUME NEW x \in S PROVE m <= x
  <2>1. x \in Nat /\ m \in Nat
    BY <1>3
  <2>2. ~(x < m)
    BY <1>1, <1>2, <2>1
  <2>. QED
    BY <2>1, <2>2
<1>. QED
  BY <1>4

\* What holds of 0 and of every successor holds of every number.
LEMMA Induct ==
    ASSUME NEW P, 0 \in P, \A k \in Nat : k \in P => k + 1 \in P
    PROVE  Nat \subseteq P
<1>1. SUFFICES ASSUME Nat \ P # {} PROVE FALSE
  OBVIOUS
<1>2. PICK m \in Nat \ P : \A x \in Nat \ P : m <= x
  BY <1>1, Least
<1>3. m # 0 /\ m - 1 \in Nat
  BY <1>2
<1>4. m - 1 \in P
  BY <1>2, <1>3
<1>5. (m - 1) + 1 \in P
  BY <1>3, <1>4
<1>. QED
  BY <1>2, <1>5

\* RunOperation as a sequence of states.
Steps(s, fails, garbage, run) ==
    LET n == 2 * Len(s.ops)
    IN  /\ n \in Nat
        /\ run[n] = RunOperation(s, fails, garbage)
        /\ \A i \in 0..n : run[i] = IF i = 0 THEN s ELSE RunOne(run[i - 1], fails, garbage)

\* The function RunOperation defines by recursion exists.
LEMMA RunSteps ==
    ASSUME NEW s, s.ops \in Seq(Allowed), NEW fails, NEW garbage
    PROVE  \E run : Steps(s, fails, garbage, run)
<1>. DEFINE n == 2 * Len(s.ops)
            G(f, k) == [i \in 0..k |-> IF i = 0 THEN s ELSE RunOne(f[i - 1], fails, garbage)]
            P == {k \in Nat : \E f : f = G(f, k)}
            run == CHOOSE f : f = G(f, n)
<1>1. n \in Nat
  OBVIOUS
<1>2. 0 \in P
  <2>1. [i \in 0..0 |-> s] = G([i \in 0..0 |-> s], 0)
    OBVIOUS
  <2>. QED
    BY <2>1
<1>3. ASSUME NEW k \in Nat, k \in P PROVE k + 1 \in P
  <2>1. PICK f : f = G(f, k)
    BY <1>3
  <2>. DEFINE g == [i \in 0..(k + 1) |-> IF i = k + 1 THEN RunOne(f[k], fails, garbage) ELSE f[i]]
  <2>2. \A i \in 0..(k + 1) : g[i] = IF i = 0 THEN s ELSE RunOne(g[i - 1], fails, garbage)
    <3>1. SUFFICES ASSUME NEW i \in 0..(k + 1)
                   PROVE  g[i] = IF i = 0 THEN s ELSE RunOne(g[i - 1], fails, garbage)
      OBVIOUS
    <3>2. CASE i = k + 1
      BY <3>2
    <3>3. CASE i # k + 1
      <4>1. i \in 0..k /\ g[i] = f[i]
        BY <3>3
      <4>2. f[i] = IF i = 0 THEN s ELSE RunOne(f[i - 1], fails, garbage)
        <5>1. f[i] = G(f, k)[i]
          BY <2>1
        <5>. QED
          BY <4>1, <5>1
      <4>3. i # 0 => g[i - 1] = f[i - 1]
        BY <4>1
      <4>. QED
        BY <4>1, <4>2, <4>3
    <3>. QED
      BY <3>2, <3>3
  <2>3. g = [i \in 0..(k + 1) |-> g[i]]
    OBVIOUS
  <2>. HIDE DEF g
  <2>4. g = G(g, k + 1)
    BY <2>2, <2>3
  <2>. QED
    BY <2>4
<1>4. n \in P
  <2>. HIDE DEF P
  <2>1. Nat \subseteq P
    BY <1>2, <1>3, Induct
  <2>. QED
    BY <1>1, <2>1
<1>5. run = G(run, n) /\ RunOperation(s, fails, garbage) = run[n]
  <2>1. \E f : f = G(f, n)
    BY <1>4
  <2>2. run = G(run, n)
    BY <2>1
  <2>3. RunOperation(s, fails, garbage) = run[n]
    BY DEF RunOperation
  <2>. QED
    BY <2>2, <2>3
<1>. HIDE DEF run, P
<1>6. \A i \in 0..n : run[i] = IF i = 0 THEN s ELSE RunOne(run[i - 1], fails, garbage)
  <2>1. SUFFICES ASSUME NEW i \in 0..n
                 PROVE  run[i] = IF i = 0 THEN s ELSE RunOne(run[i - 1], fails, garbage)
    OBVIOUS
  <2>2. run[i] = G(run, n)[i]
    BY <1>5
  <2>. QED
    BY <2>2
<1>. QED
  BY <1>1, <1>5, <1>6 DEF Steps

\* RunOperation: from rest to rest, or to the first step of a switch.
LEMMA RunOperationRan ==
    ASSUME Regular, NEW s, NEW h \in Token, NEW a \in App, s.tokens < TokenLimit,
           Rest(s, h, a), ~s.scheduling, NEW garbage \in Mission \cup {Unset}
    PROVE  Ran(s, RunOperation(s, {}, garbage), h, a)
<1>. DEFINE n == 2 * Len(s.ops)
<1>1. s.ops \in Seq(Allowed)
  BY DEF Rest, On, Typed
<1>2. PICK run : Steps(s, {}, garbage, run)
  BY <1>1, RunSteps
<1>3. n \in Nat /\ run[n] = RunOperation(s, {}, garbage)
  BY <1>2 DEF Steps
<1>4. \A i \in 0..n : run[i] = IF i = 0 THEN s ELSE RunOne(run[i - 1], {}, garbage)
  BY <1>2 DEF Steps
<1>. DEFINE Q == {i \in Nat : i <= n => Ran(s, run[i], h, a)}
<1>. HIDE DEF n
<1>5. 0 \in Q
  <2>1. Ran(s, s, h, a)
    BY DEF Ran
  <2>2. run[0] = s
    BY <1>3, <1>4
  <2>. QED
    BY <2>1, <2>2
<1>6. ASSUME NEW k \in Nat, k \in Q PROVE k + 1 \in Q
  <2>1. SUFFICES ASSUME k + 1 <= n PROVE Ran(s, run[k + 1], h, a)
    OBVIOUS
  <2>2. Ran(s, run[k], h, a)
    BY <1>3, <1>6, <2>1
  <2>3. run[k + 1] = RunOne(run[k], {}, garbage)
    <3>1. k + 1 \in 0..n /\ k + 1 # 0 /\ (k + 1) - 1 = k
      BY <1>3, <2>1
    <3>. QED
      BY <1>4, <3>1
  <2>4. Ran(s, RunOne(run[k], {}, garbage), h, a)
    BY <2>2, RunOneRan
  <2>. QED
    BY <2>3, <2>4
<1>7. n \in Q
  <2>. HIDE DEF Q
  <2>1. Nat \subseteq Q
    BY <1>5, <1>6, Induct
  <2>. QED
    BY <1>3, <2>1
<1>8. Ran(s, run[n], h, a)
  <2>1. n <= n
    BY <1>3
  <2>. QED
    BY <1>7, <2>1
<1>. QED
  BY <1>3, <1>8

-----------------------------------------------------------------------------
(* The service takes a request out of its queue.                           *)

\* The head of a queue with no report, or with just one.
LEMMA HeadTaken ==
    ASSUME NEW S, NEW q \in Seq(S), q # <<>>
    PROVE  /\ Head(q) \in S /\ Tail(q) \in Seq(S) /\ Len(Tail(q)) = Len(q) - 1 /\ Len(q) \in Nat
           /\ NoReport(q) => NoReport(Tail(q)) /\ Head(q).id # "done"
           /\ \A m : m.id = "done" /\ OneReport(q, m) =>
                /\ Head(q).id = "done" => Head(q) = m /\ NoReport(Tail(q))
                /\ Head(q).id # "done" => OneReport(Tail(q), m)
<1>. DEFINE t == Tail(q)
<1>1. /\ Head(q) = q[1] /\ q[1] \in S /\ t \in Seq(S) /\ Len(t) = Len(q) - 1 /\ Len(q) \in Nat
      /\ DOMAIN q = 1..Len(q) /\ DOMAIN t = 1..(Len(q) - 1) /\ Len(q) >= 1
      /\ \A i \in 1..(Len(q) - 1) : t[i] = q[i + 1]
  OBVIOUS
<1>. HIDE DEF t
<1>2. \A i \in DOMAIN t : i + 1 \in DOMAIN q /\ i + 1 # 1 /\ t[i] = q[i + 1]
  BY <1>1
<1>3. 1 \in DOMAIN q /\ \A i \in DOMAIN q : i # 1 => i - 1 \in DOMAIN t /\ t[i - 1] = q[i]
  BY <1>1
<1>4. NoReport(q) => NoReport(t) /\ Head(q).id # "done"
  BY <1>1, <1>2, <1>3 DEF NoReport
<1>5. ASSUME NEW m, m.id = "done", OneReport(q, m)
      PROVE  /\ Head(q).id = "done" => Head(q) = m /\ NoReport(t)
             /\ Head(q).id # "done" => OneReport(t, m)
  <2>1. PICK k \in DOMAIN q : q[k] = m /\ \A i \in DOMAIN q : i # k => q[i].id # "done"
    BY <1>5 DEF OneReport
  <2>2. CASE k = 1
    BY <1>1, <1>2, <1>5, <2>1, <2>2 DEF NoReport
  <2>3. CASE k # 1
    <3>1. Head(q).id # "done"
      BY <1>1, <1>3, <2>1, <2>3
    <3>2. k - 1 \in DOMAIN t /\ t[k - 1] = m
      BY <1>3, <2>1, <2>3
    <3>3. \A i \in DOMAIN t : i # k - 1 => i + 1 # k
      BY <1>1, <2>1
    <3>4. \A i \in DOMAIN t : i # k - 1 => t[i].id # "done"
      BY <1>2, <2>1, <3>3
    <3>. QED
      BY <3>1, <3>2, <3>4 DEF OneReport
  <2>. QED
    BY <2>2, <2>3
<1>. QED
  BY <1>1, <1>4, <1>5 DEF t

\* A request or report is taken from the queue.
LEMMA Taken ==
    ASSUME NEW s, NEW h, NEW a, On(s, h, a), s.amsQ # <<>>
    PROVE  LET z == [s EXCEPT !.amsQ = Tail(@)]
           IN  /\ On(z, h, a) /\ Same(s, z, {"amsQ"}) /\ z.amsQ = Tail(s.amsQ)
               /\ Head(s.amsQ) \in Queued
<1>. DEFINE z == [s EXCEPT !.amsQ = Tail(@)]
<1>1. s.amsQ \in Seq(Queued) /\ Len(s.amsQ) <= QueueSize /\ DOMAIN s = Fields
  BY DEF On, Typed
<1>2. /\ Head(s.amsQ) \in Queued /\ Tail(s.amsQ) \in Seq(Queued)
      /\ Len(Tail(s.amsQ)) = Len(s.amsQ) - 1 /\ Len(s.amsQ) \in Nat
  BY <1>1, HeadTaken
<1>3. Len(Tail(s.amsQ)) <= QueueSize
  BY <1>1, <1>2, SliteAssumption
<1>4. Same(s, z, {"amsQ"}) /\ z.amsQ = Tail(s.amsQ)
  BY <1>1 DEF Same, Fields
<1>. HIDE DEF z
<1>5. On(z, h, a)
  BY <1>2, <1>3, <1>4 DEF On, Typed, Same, Fields
<1>. QED
  BY <1>2, <1>4, <1>5 DEF z

\* Anything but a report: the switch under way, if any, is where it was.
LEMMA TakenRequest ==
    ASSUME NEW s, NEW h, NEW a, s.amsQ # <<>>, Head(s.amsQ).id # "done", On(s, h, a)
    PROVE  LET z == [s EXCEPT !.amsQ = Tail(@)]
           IN  /\ Rest(s, h, a) => Rest(z, h, a)
               /\ Going(s, h, a) => Going(z, h, a)
               /\ Quiet(s, h) => Quiet(z, h)
<1>. DEFINE z == [s EXCEPT !.amsQ = Tail(@)]
<1>1. /\ On(z, h, a) /\ Same(s, z, {"amsQ"}) /\ z.amsQ = Tail(s.amsQ)
  BY Taken
<1>2. s.amsQ \in Seq(Queued)
  BY DEF On, Typed
<1>. HIDE DEF z
<1>3. /\ NoReport(s.amsQ) => NoReport(z.amsQ)
      /\ \A life : OneReport(s.amsQ, Report(h, life)) => OneReport(z.amsQ, Report(h, life))
  <2>1. \A life : Report(h, life).id = "done"
    BY DEF Report
  <2>. QED
    BY <1>1, <1>2, <2>1, HeadTaken
<1>4. /\ z.list = s.list /\ z.pending = s.pending /\ z.threads = s.threads
      /\ z.nativeQ = s.nativeQ
  BY <1>1 DEF Same, Fields
<1>5. Quiet(s, h) => Quiet(z, h)
  BY <1>3, <1>4 DEF Quiet
<1>6. \A id, life : Asked(s, h, id, life) => Asked(z, h, id, life)
  BY <1>3, <1>4 DEF Asked
<1>7. \A life : Answered(s, h, life) => Answered(z, h, life)
  BY <1>3, <1>4 DEF Answered
<1>8. Leaving(s, h) => Leaving(z, h)
  BY <1>4, <1>6, <1>7 DEF Leaving
<1>9. Coming(s, h) => Coming(z, h)
  BY <1>4, <1>6, <1>7 DEF Coming
<1>10. Rest(s, h, a) => Rest(z, h, a)
  BY <1>1, <1>4, <1>5 DEF Rest
<1>11. Going(s, h, a) => Going(z, h, a)
  BY <1>1, <1>8, <1>9 DEF Going
<1>. QED
  BY <1>5, <1>10, <1>11 DEF z

\* A report is that of the ability that has the thread.
LEMMA TakenReport ==
    ASSUME NEW s, NEW h, NEW a, s.amsQ # <<>>, Head(s.amsQ).id = "done",
           Rest(s, h, a) \/ Going(s, h, a)
    PROVE  LET z == [s EXCEPT !.amsQ = Tail(@)]
           IN  /\ Going(s, h, a) /\ ~Rest(s, h, a)
               /\ On(z, h, a) /\ Same(s, z, {"amsQ"}) /\ Quiet(z, h)
               /\ Head(s.amsQ) = Report(h, z.threads[h].life)
               /\ \/ /\ Follows(z.list, h, z.pending)
                     /\ z.threads[h].life \in {"BACKGROUND", "UNINITIALIZED"}
                  \/ /\ z.pending = 0 /\ z.list[1].token = h
                     /\ z.threads[h].life \in {"INITIAL", "FOREGROUND"}
<1>. DEFINE z == [s EXCEPT !.amsQ = Tail(@)]
<1>0. On(s, h, a)
  BY DEF Rest, Going
<1>1. /\ On(z, h, a) /\ Same(s, z, {"amsQ"}) /\ z.amsQ = Tail(s.amsQ)
  BY <1>0, Taken
<1>2. s.amsQ \in Seq(Queued)
  BY <1>0 DEF On, Typed
<1>. HIDE DEF z
<1>3. /\ ~NoReport(s.amsQ)
      /\ \A life : OneReport(s.amsQ, Report(h, life)) =>
                      Head(s.amsQ) = Report(h, life) /\ NoReport(z.amsQ)
  <2>1. \A life : Report(h, life).id = "done"
    BY DEF Report
  <2>. QED
    BY <1>1, <1>2, <2>1, HeadTaken
<1>4. /\ z.list = s.list /\ z.pending = s.pending /\ z.threads = s.threads
      /\ z.nativeQ = s.nativeQ
  BY <1>1 DEF Same, Fields
<1>5. ~Quiet(s, h) /\ \A id, life : ~Asked(s, h, id, life)
  BY <1>3 DEF Quiet, Asked
<1>6. \A life : Answered(s, h, life) =>
                   /\ Quiet(z, h) /\ z.threads[h].life = life
                   /\ Head(s.amsQ) = Report(h, z.threads[h].life)
  BY <1>3, <1>4 DEF Quiet, Answered
<1>7. Going(s, h, a) /\ ~Rest(s, h, a)
  BY <1>5 DEF Rest
<1>8. CASE Leaving(s, h)
  <2>1. /\ Follows(z.list, h, z.pending)
        /\ Answered(s, h, "BACKGROUND") \/ Answered(s, h, "UNINITIALIZED")
    BY <1>4, <1>5, <1>8 DEF Leaving
  <2>. QED
    BY <1>1, <1>6, <1>7, <2>1 DEF z
<1>9. CASE Coming(s, h)
  <2>1. /\ z.pending = 0 /\ z.list[1].token = h
        /\ Answered(s, h, "INITIAL") \/ Answered(s, h, "FOREGROUND")
    BY <1>4, <1>5, <1>9 DEF Coming
  <2>. QED
    BY <1>1, <1>6, <1>7, <2>1 DEF z
<1>. QED
  BY <1>7, <1>8, <1>9 DEF Going

-----------------------------------------------------------------------------
(* The reports of the ability.                                             *)

\* The state of an ability is set and told.
LEMMA Told ==
    ASSUME NEW s, NEW h, NEW a, On(s, h, a),
           NEW state \in {"STOP", "INITED", "FOREGROUND", "BACKGROUND"},
           NEW told, told = SetAbilityStateAndNotify(s, h, state)
    PROVE  /\ On(told, h, a) /\ Same(s, told, {"list", "seen"})
           /\ DOMAIN told.list = DOMAIN s.list /\ Len(told.list) = Len(s.list)
           /\ \A i \in DOMAIN s.list : /\ told.list[i].token = s.list[i].token
                                       /\ told.list[i].terminated = s.list[i].terminated
           /\ \A q \in Of(told.list) : q.token = h => q.state = state
BY Retold

\* INITIAL: the ability is asked to come to the foreground.
LEMMA CreateDone ==
    ASSUME Regular, NEW s, NEW h, NEW a, On(s, h, a), Quiet(s, h),
           s.threads[h].life = "INITIAL", s.pending = 0, s.list[1].token = h
    PROVE  LET r == OnCreateDone(s, h)
           IN  /\ Going(r, h, a) /\ r.scheduling = s.scheduling
               /\ r.threads[h].life = s.threads[h].life
<1>. DEFINE told == SetAbilityStateAndNotify(s, h, "INITED")
            r == OnCreateDone(s, h)
<1>0. /\ told = SetAbilityStateAndNotify(s, h, "INITED")
      /\ "INITED" \in {"STOP", "INITED", "FOREGROUND", "BACKGROUND"}
  OBVIOUS
<1>. HIDE DEF told, r
<1>1. /\ On(told, h, a) /\ Same(s, told, {"list", "seen"})
      /\ DOMAIN told.list = DOMAIN s.list /\ Len(told.list) = Len(s.list)
      /\ \A i \in DOMAIN s.list : /\ told.list[i].token = s.list[i].token
                                  /\ told.list[i].terminated = s.list[i].terminated
  BY <1>0, Told
<1>2. 1 \in DOMAIN s.list
  BY First DEF On
<1>3. PICK q \in Of(told.list) : q.token = h
  BY <1>1 DEF On, Alone
<1>4. Has(told.list, h) /\ Get(told.list, h) = q
  BY <1>1, <1>3, Runner
<1>5. OnCreateDone(s, h) = SendMsgToAbilityThread(told, q, "FOREGROUND")
  BY <1>0, <1>4 DEF OnCreateDone, SchedulerLifecycle, MsgOf, Regular
<1>6. Quiet(told, h) /\ told.threads = s.threads /\ told.pending = 0
      /\ told.scheduling = s.scheduling
  BY <1>1 DEF Quiet, Same, Fields
<1>. DEFINE v == SendMsgToAbilityThread(told, q, "FOREGROUND")
<1>7. /\ On(v, h, a) /\ Same(told, v, {"threads", "nativeQ", "ret"})
      /\ v.ret = "ok" /\ Asked(v, h, "FOREGROUND", told.threads[h].life)
  BY <1>1, <1>3, <1>6, SendOn
<1>. HIDE DEF v
<1>8. v.list[1].token = h /\ v.pending = 0 /\ v.scheduling = s.scheduling
  BY <1>1, <1>2, <1>6, <1>7 DEF Same, Fields
<1>9. Going(v, h, a) /\ v.threads[h].life = s.threads[h].life
  BY <1>6, <1>7, <1>8 DEF Going, Coming, Asked
<1>. QED
  BY <1>5, <1>8, <1>9 DEF v

\* BACKGROUND: the ability is asked to go, with an object for its data.
LEMMA BackgroundDone ==
    ASSUME Regular, NEW s, NEW h, NEW a, On(s, h, a), Quiet(s, h),
           s.threads[h].life = "BACKGROUND", Follows(s.list, h, s.pending)
    PROVE  LET r == OnBackgroundDone(s, h)
           IN  /\ Going(r, h, a) /\ r.scheduling = s.scheduling
               /\ r.threads[h].life = s.threads[h].life
<1>. DEFINE told == SetAbilityStateAndNotify(s, h, "BACKGROUND")
<1>0. /\ told = SetAbilityStateAndNotify(s, h, "BACKGROUND")
      /\ "BACKGROUND" \in {"STOP", "INITED", "FOREGROUND", "BACKGROUND"}
  OBVIOUS
<1>. HIDE DEF told
<1>1. /\ On(told, h, a) /\ Same(s, told, {"list", "seen"})
      /\ DOMAIN told.list = DOMAIN s.list /\ Len(told.list) = Len(s.list)
      /\ \A i \in DOMAIN s.list : /\ told.list[i].token = s.list[i].token
                                  /\ told.list[i].terminated = s.list[i].terminated
  BY <1>0, Told
<1>2. Has(s.list, h)
  <2>1. PICK q \in Of(s.list) : q.token = h
    BY DEF On, Alone
  <2>. QED
    BY <2>1, Runner
<1>3. PICK q \in Of(told.list) : q.token = h
  BY <1>1 DEF On, Alone
<1>4. Has(told.list, h) /\ Get(told.list, h) = q /\ q \in RecordType
  BY <1>1, <1>3, Runner
<1>. DEFINE x == [q EXCEPT !.saved = @ \/ ~q.terminated]
            put == Put(told, x)
            v == SendMsgToAbilityThread(put, x, "DESTROY")
<1>5. OnBackgroundDone(s, h) = v
  BY <1>0, <1>2, <1>4 DEF OnBackgroundDone, MOnBackgroundDone, Regular
<1>6. /\ x \in RecordType /\ x.token = q.token /\ x.app = q.app /\ x.native = q.native
      /\ x.thread = q.thread /\ x.state = q.state /\ x.terminated = q.terminated
  BY <1>4 DEF RecordType
<1>7. Listed(told.list, told.tokens) /\ (q.token = LauncherToken => ~q.terminated)
  BY <1>1, <1>3 DEF On, Listed, Distinct
<1>. HIDE DEF x, put, v
<1>8. /\ On(put, h, a) /\ Same(told, put, {"list"})
      /\ DOMAIN put.list = DOMAIN told.list /\ Len(put.list) = Len(told.list)
      /\ \A i \in DOMAIN told.list : put.list[i] = IF told.list[i] = q THEN x ELSE told.list[i]
      /\ Of(put.list) = (Of(told.list) \ {q}) \cup {x}
  <2>1. LET p == Put(told, x)
        IN  /\ On(p, h, a) /\ Same(told, p, {"list"})
            /\ DOMAIN p.list = DOMAIN told.list /\ Len(p.list) = Len(told.list)
            /\ \A i \in DOMAIN told.list : p.list[i] = IF told.list[i] = q THEN x ELSE told.list[i]
            /\ Of(p.list) = (Of(told.list) \ {q}) \cup {x}
    BY <1>1, <1>3, <1>6, <1>7, PutOn
  <2>. QED
    BY <2>1 DEF put
<1>9. /\ Quiet(put, h) /\ put.threads = s.threads /\ put.pending = s.pending
      /\ put.scheduling = s.scheduling
  BY <1>1, <1>8 DEF Quiet, Same, Fields
<1>10. Follows(put.list, h, put.pending)
  <2>1. Listed(s.list, s.tokens)
    BY DEF On
  <2>2. /\ DOMAIN put.list = DOMAIN s.list /\ Len(put.list) = Len(s.list)
        /\ \A i \in DOMAIN s.list : /\ put.list[i].token = s.list[i].token
                                    /\ put.list[i].terminated = s.list[i].terminated
    BY <1>1, <1>6, <1>8
  <2>. QED
    BY <1>9, <2>1, <2>2, FollowsKept
<1>11. x \in Of(put.list) /\ x.token = h
  BY <1>3, <1>6, <1>8
<1>12. LET r == SendMsgToAbilityThread(put, x, "DESTROY")
       IN  /\ On(r, h, a) /\ Same(put, r, {"threads", "nativeQ", "ret"})
           /\ r.ret = "ok" /\ Asked(r, h, "DESTROY", put.threads[h].life)
  BY <1>8, <1>9, <1>11, SendOn
<1>13. /\ On(v, h, a) /\ Same(put, v, {"threads", "nativeQ", "ret"})
       /\ Asked(v, h, "DESTROY", "BACKGROUND")
  BY <1>9, <1>12 DEF v
<1>14. v.list = put.list /\ v.pending = put.pending /\ v.scheduling = s.scheduling
  BY <1>9, <1>13 DEF Same, Fields
<1>15. Going(v, h, a) /\ v.threads[h].life = s.threads[h].life
  BY <1>10, <1>13, <1>14 DEF Going, Leaving, Asked
<1>. QED
  BY <1>5, <1>14, <1>15

\* FOREGROUND: the switch is over.
LEMMA ForegroundDone ==
    ASSUME Regular, NEW s, NEW h, NEW a, On(s, h, a), Quiet(s, h),
           s.threads[h].life = "FOREGROUND", s.pending = 0, s.list[1].token = h
    PROVE  LET r == Idle(OnForegroundDone(s, h, {}))
           IN  /\ Rest(r, h, a) /\ ~r.scheduling /\ r.tokens = s.tokens
<1>. DEFINE told == SetAbilityStateAndNotify(s, h, "FOREGROUND")
            r == Idle(told)
<1>0. /\ told = SetAbilityStateAndNotify(s, h, "FOREGROUND")
      /\ "FOREGROUND" \in {"STOP", "INITED", "FOREGROUND", "BACKGROUND"}
  OBVIOUS
<1>. HIDE DEF told, r
<1>1. /\ On(told, h, a) /\ Same(s, told, {"list", "seen"})
      /\ DOMAIN told.list = DOMAIN s.list /\ Len(told.list) = Len(s.list)
      /\ \A i \in DOMAIN s.list : /\ told.list[i].token = s.list[i].token
                                  /\ told.list[i].terminated = s.list[i].terminated
      /\ \A q \in Of(told.list) : q.token = h => q.state = "FOREGROUND"
  BY <1>0, Told
<1>2. Idle(OnForegroundDone(s, h, {})) = r
  BY <1>0 DEF OnForegroundDone, MOnForegroundDone, Regular, r
<1>3. 1 \in DOMAIN s.list
  BY First DEF On
<1>4. /\ Quiet(told, h) /\ told.threads = s.threads /\ told.pending = 0
      /\ told.tokens = s.tokens /\ told.list[1].token = h
  BY <1>1, <1>3 DEF Quiet, Same, Fields
<1>5. Rest(told, h, a)
  BY <1>1, <1>4 DEF Rest
<1>6. Typed(told)
  BY <1>1 DEF On
<1>7. /\ Same(told, r, {"scheduling"}) /\ r.scheduling = FALSE /\ r.tokens = told.tokens
      /\ r.ops = told.ops
  BY <1>6 DEF Idle, Typed, Same, Fields, r
<1>. HIDE DEF r
<1>8. Same(told, r, {"ret", "scheduling", "ops", "pendingRecord", "launcher", "lost"})
  BY <1>7 DEF Same
<1>9. r.scheduling \in BOOLEAN /\ r.ops \in Seq(Allowed)
  BY <1>6, <1>7 DEF Typed
<1>10. Rest(r, h, a)
  BY <1>5, <1>8, <1>9, Unaffected
<1>. QED
  BY <1>2, <1>4, <1>7, <1>10

-----------------------------------------------------------------------------
(* The steps of the service.                                               *)

\* What a step of the service leaves: the switch under way in its next step,
\* the service between switches, or a new ability in the place of the one that
\* was in the foreground or has been destroyed.
Served(life, r, h, a) ==
    \/ Rest(r, h, a) /\ ~r.scheduling /\ life = "FOREGROUND"
    \/ r.scheduling /\ Going(r, h, a) /\ r.threads[h].life = life
    \/ /\ r.scheduling /\ life \in {"FOREGROUND", "UNINITIALIZED"}
       /\ \E k \in Token, b \in App : Going(r, k, b) /\ r.threads[k].life = "NONE"

\* What RunOperation makes of a state at rest is Served.
LEMMA RanServed ==
    ASSUME NEW s, NEW r, NEW h, NEW a, Ran(s, r, h, a)
    PROVE  Served("FOREGROUND", r, h, a)
BY DEF Ran, Served

\* A request is handled.
LEMMA RequestServed ==
    ASSUME Regular, NEW s, NEW h \in Token, NEW a \in App,
           \/ Rest(s, h, a) /\ ~s.scheduling
           \/ Going(s, h, a) /\ s.scheduling,
           s.tokens < TokenLimit, NEW op \in Allowed, NEW garbage \in Mission \cup {Unset}
    PROVE  LET p == Perform(s, op, {})
               r == IF p.ret = "error" \/ ~p.scheduling
                    THEN RunOperation(Idle(p), {}, garbage) ELSE p
           IN  Served(s.threads[h].life, r, h, a)
<1>. DEFINE p == Perform(s, op, {})
            i == Idle(p)
            r == IF p.ret = "error" \/ ~p.scheduling THEN RunOperation(i, {}, garbage) ELSE p
<1>1. CASE Going(s, h, a) /\ s.scheduling
  <2>1. /\ Going(p, h, a) /\ Same(s, p, {"ops", "ret"}) /\ p.ret = "ok"
    BY <1>1, PerformHeld
  <2>. HIDE DEF p
  <2>2. p.scheduling /\ p.threads = s.threads
    BY <1>1, <2>1 DEF Same, Fields
  <2>3. r = p
    BY <2>1, <2>2
  <2>. QED
    BY <2>1, <2>2, <2>3 DEF Served, p
<1>2. CASE Rest(s, h, a) /\ ~s.scheduling
  <2>1. Fine(s, p, h, a)
    BY <1>2, PerformFine
  <2>2. s.threads[h].life = "FOREGROUND"
    BY <1>2 DEF Rest
  <2>. HIDE DEF p
  <2>3. CASE p.ret = "error" \/ ~p.scheduling
    <3>1. Rest(p, h, a) /\ p.tokens = s.tokens
      BY <2>1, <2>3 DEF Fine
    <3>2. Typed(p)
      BY <3>1 DEF Rest, On
    <3>3. /\ Same(p, i, {"scheduling"}) /\ i.scheduling = FALSE /\ i.tokens = p.tokens
          /\ i.ops = p.ops
      BY <3>2 DEF Idle, Typed, Same, Fields
    <3>4. r = RunOperation(i, {}, garbage)
      BY <2>3
    <3>. HIDE DEF i, r
    <3>5. Same(p, i, {"ret", "scheduling", "ops", "pendingRecord", "launcher", "lost"})
      BY <3>3 DEF Same
    <3>6. i.scheduling \in BOOLEAN /\ i.ops \in Seq(Allowed)
      BY <3>2, <3>3 DEF Typed
    <3>7. Rest(i, h, a) /\ i.tokens < TokenLimit
      BY <3>1, <3>3, <3>5, <3>6, Unaffected
    <3>8. Ran(i, RunOperation(i, {}, garbage), h, a)
      BY <3>3, <3>7, RunOperationRan
    <3>9. Served("FOREGROUND", r, h, a)
      BY <3>4, <3>8, RanServed
    <3>. QED
      BY <2>2, <3>9 DEF r, i, p
  <2>4. CASE ~(p.ret = "error" \/ ~p.scheduling)
    <3>1. r = p
      BY <2>4
    <3>2. Served("FOREGROUND", p, h, a)
      BY <2>1, <2>4 DEF Fine, Served
    <3>. QED
      BY <2>2, <3>1, <3>2 DEF p
  <2>. QED
    BY <2>3, <2>4
<1>. QED
  BY <1>1, <1>2

\* A report is handled.
LEMMA ReportServed ==
    ASSUME Regular, NEW s, NEW h \in Token, NEW a \in App, On(s, h, a), Quiet(s, h),
           s.scheduling, s.tokens < TokenLimit, NEW garbage \in Mission \cup {Unset},
           \/ /\ Follows(s.list, h, s.pending)
              /\ s.threads[h].life \in {"BACKGROUND", "UNINITIALIZED"}
           \/ /\ s.pending = 0 /\ s.list[1].token = h
              /\ s.threads[h].life \in {"INITIAL", "FOREGROUND"}
    PROVE  LET r == SchedulerLifecycleDone(s, h, s.threads[h].life, {}, garbage)
           IN  Served(s.threads[h].life, r, h, a)
<1>. DEFINE life == s.threads[h].life
            r == SchedulerLifecycleDone(s, h, life, {}, garbage)
<1>1. CASE life = "INITIAL"
  <2>. DEFINE v == OnCreateDone(s, h)
  <2>1. r = v
    BY <1>1 DEF SchedulerLifecycleDone
  <2>2. /\ Going(v, h, a) /\ v.scheduling = s.scheduling
        /\ v.threads[h].life = s.threads[h].life
    BY <1>1, CreateDone
  <2>. HIDE DEF v
  <2>. QED
    BY <2>1, <2>2 DEF Served
<1>2. CASE life = "BACKGROUND"
  <2>. DEFINE v == OnBackgroundDone(s, h)
  <2>1. r = v
    BY <1>2 DEF SchedulerLifecycleDone
  <2>2. /\ Going(v, h, a) /\ v.scheduling = s.scheduling
        /\ v.threads[h].life = s.threads[h].life
    BY <1>2, BackgroundDone
  <2>. HIDE DEF v
  <2>. QED
    BY <2>1, <2>2 DEF Served
<1>3. CASE life = "UNINITIALIZED"
  <2>. DEFINE v == MOnDestroyDone(s, h, {})
  <2>1. r = v
    BY <1>3 DEF SchedulerLifecycleDone, OnDestroyDone, Regular
  <2>2. /\ Same(s, v, {"list", "seen", "threads", "async", "nativeQ", "ret", "pending"})
        /\ v.ret = "ok"
        /\ \E k \in Token, b \in App : /\ On(v, k, b) /\ Coming(v, k)
                                       /\ v.threads[k].life = "NONE"
    BY <1>3, Destroyed
  <2>. HIDE DEF v
  <2>3. v.scheduling
    BY <2>2 DEF Same, Fields
  <2>. QED
    BY <1>3, <2>1, <2>2, <2>3 DEF Served, Going
<1>4. CASE life = "FOREGROUND"
  <2>. DEFINE v == Idle(OnForegroundDone(s, h, {}))
  <2>1. r = RunOperation(v, {}, garbage)
    BY <1>4 DEF SchedulerLifecycleDone
  <2>2. Rest(v, h, a) /\ ~v.scheduling /\ v.tokens = s.tokens
    BY <1>4, ForegroundDone
  <2>. HIDE DEF v, r
  <2>3. Ran(v, RunOperation(v, {}, garbage), h, a)
    BY <2>2, RunOperationRan
  <2>4. Served("FOREGROUND", r, h, a)
    BY <2>1, <2>3, RanServed
  <2>. QED
    BY <1>4, <2>4 DEF r
<1>. QED
  BY <1>1, <1>2, <1>3, <1>4

-----------------------------------------------------------------------------
(* Booting.                                                                *)

\* Before the launcher is started, or when its bundle is not known.
Off(s) ==
    /\ DOMAIN s = Fields
    /\ s.list = <<>> /\ s.ops = <<>> /\ s.scheduling = FALSE /\ s.pending = 0
    /\ s.tokens = 0 /\ s.missions = 0
    /\ s.threads = <<>> /\ s.nativeQ = <<>> /\ s.async = NoToken
    /\ s.seen = [a \in App |-> "NONE"]
    /\ s.dangling = FALSE /\ s.failed = FALSE

\* The launcher is created with the first token.
LEMMA LauncherStarted ==
    ASSUME Regular, NEW s, Off(s), s.amsQ = <<>>, NEW garbage \in Mission \cup {Unset},
           Startup \notin Unknown
    PROVE  LET r == StartLauncher(s, {}, garbage)
           IN  /\ r.scheduling /\ Going(r, LauncherToken, Startup)
               /\ r.threads[LauncherToken].life = "NONE"
<1>. DEFINE w == [app |-> Startup, mission |-> garbage]
            z == Scheduling(s)
            x == AbilityRecord(0, Startup, IsNativeApp(Startup), MissionFor(z, w))
            u == [z EXCEPT !.tokens = IF z.pending # 0 THEN @ ELSE NextToken(@),
                           !.missions = NextMission(z, w)]
            added == AddRecord(u, x)
            c == CreateAppTask(added, x, {})
            r == StartLauncher(s, {}, garbage)
<1>0. /\ MissionLimit \in Nat \ {0} /\ TokenLimit \in Nat \ {0} /\ QueueSize \in Nat \ {0}
      /\ Capacity \in Nat \ {0} /\ Startup \in App
  BY SliteAssumption
<1>1. /\ Same(s, z, {"scheduling"}) /\ z.scheduling = TRUE
      /\ z.list = <<>> /\ z.ops = <<>> /\ z.pending = 0 /\ z.tokens = 0 /\ z.missions = 0
      /\ z.threads = <<>> /\ z.nativeQ = <<>> /\ z.async = NoToken /\ z.amsQ = <<>>
      /\ z.seen = [a \in App |-> "NONE"] /\ z.dangling = FALSE /\ z.failed = FALSE
  BY DEF Off, Scheduling, Same, Fields
<1>2. NextToken(0) = 1 /\ GeneratedToken(0) = 0
  BY <1>0 DEF NextToken, GeneratedToken, Regular
<1>3. w.app = Startup /\ w.mission = garbage
  OBVIOUS
<1>4. MissionFor(z, w) \in Mission /\ NextMission(z, w) \in Mission
  <2>1. 0 \in Mission /\ (0 + 1) % MissionLimit \in 0..(MissionLimit - 1)
    BY <1>0 DEF Mission
  <2>. QED
    BY <1>1, <1>3, <2>1 DEF MissionFor, NextMission, Mission
<1>5. r = IF c.ret = "error" THEN [c EXCEPT !.list = Erase(@, 0)] ELSE Ok(c)
  <2>1. ~HasApp(s.list, Startup) /\ s.scheduling = FALSE
    BY DEF Off, HasApp
  <2>2. r = MStartAbility(s, w, {})
    BY DEF StartLauncher, Regular
  <2>3. QueryAbilitySvcInfo(w.app)
    BY <1>3 DEF QueryAbilitySvcInfo
  <2>. HIDE DEF r, z, w
  <2>4. r = MStartNew(z, w, {})
    BY <1>3, <2>1, <2>2, <2>3 DEF MStartAbility, z
  <2>5. r = MPreCheckStartAbility(z, w, {})
    BY <1>1, <1>3, <2>4 DEF MStartNew
  <2>. QED
    BY <1>1, <1>2, <1>3, <2>5 DEF MPreCheckStartAbility, Regular, IsNativeApp
<1>6. /\ x \in RecordType /\ x.token = 0 /\ x.app = Startup /\ x.state = "STOP"
      /\ ~x.thread /\ ~x.terminated
  BY <1>0, <1>4 DEF AbilityRecord, RecordType, IsNativeApp, Token
<1>7. /\ Same(z, u, {"tokens", "missions"}) /\ u.tokens = 1 /\ u.missions \in Mission
  BY <1>1, <1>2, <1>4 DEF Same, Fields
<1>. HIDE DEF z, w, x, u
<1>8. /\ u.list = <<>> /\ u.ops = <<>> /\ u.pending = 0 /\ u.scheduling = TRUE
      /\ u.threads = <<>> /\ u.nativeQ = <<>> /\ u.async = NoToken /\ u.amsQ = <<>>
      /\ u.seen = [a \in App |-> "NONE"] /\ u.dangling = FALSE /\ u.failed = FALSE
      /\ DOMAIN u = Fields
  BY <1>1, <1>7 DEF Same, Fields
<1>9. Add(u.list, x) = <<x>>
  <2>1. ~(Len(u.list) >= Capacity)
    BY <1>0, <1>8
  <2>2. ~Has(u.list, x.token)
    BY <1>8 DEF Has
  <2>3. <<x>> \o <<>> = <<x>>
    OBVIOUS
  <2>. QED
    BY <1>8, <2>1, <2>2, <2>3 DEF Add
<1>10. /\ Same(u, added, {"list", "threads", "dangling"}) /\ added.list = <<x>>
       /\ DOMAIN added.threads = {} /\ added.dangling = FALSE
  <2>. DEFINE d == DeleteThreads(u, {})
  <2>1. /\ Same(u, d, {"threads", "dangling"}) /\ DOMAIN d.threads = {} /\ d.dangling = FALSE
    <3>. DEFINE ts == {q.token : q \in {p \in {} : p.thread}}
                th == [t \in DOMAIN u.threads \ ts |-> u.threads[t]]
                da == u.dangling \/ \E i \in DOMAIN u.nativeQ : u.nativeQ[i].token \in ts
    <3>1. d = [u EXCEPT !.threads = th, !.dangling = da]
      BY DEF DeleteThreads
    <3>2. DOMAIN th = {}
      BY <1>8
    <3>3. da = FALSE
      <4>1. DOMAIN u.nativeQ = {}
        BY <1>8
      <4>. QED
        BY <1>8, <4>1
    <3>. HIDE DEF th, da, d
    <3>. QED
      BY <1>8, <3>1, <3>2, <3>3 DEF Same, Fields
  <2>2. added = [d EXCEPT !.list = <<x>>]
    <3>1. {u.list[i] : i \in {j \in DOMAIN u.list : ~Has(Add(u.list, x), u.list[j].token)}} = {}
      BY <1>8
    <3>. HIDE DEF d
    <3>. QED
      BY <1>9, <3>1 DEF AddRecord, d
  <2>. HIDE DEF d, added
  <2>. QED
    BY <2>1, <2>2 DEF Same, Fields
<1>. HIDE DEF added
<1>11. /\ added.ops = <<>> /\ added.pending = 0 /\ added.scheduling = TRUE
       /\ added.nativeQ = <<>> /\ added.async = NoToken /\ added.amsQ = <<>>
       /\ added.seen = [a \in App |-> "NONE"] /\ added.failed = FALSE
       /\ added.tokens = 1 /\ added.missions = u.missions /\ DOMAIN added = Fields
  BY <1>7, <1>8, <1>10 DEF Same, Fields
<1>12. Typed(added)
  <2>1. added.pending \in Token /\ added.tokens \in 0..TokenLimit
    BY <1>0, <1>11 DEF Token
  <2>2. added.ops \in Seq(Allowed) /\ added.amsQ \in Seq(Queued) /\ Len(added.amsQ) <= QueueSize
    BY <1>0, <1>11
  <2>. QED
    BY <1>7, <1>10, <1>11, <2>1, <2>2 DEF Typed
<1>13. Of(added.list) = {x} /\ added.list[1] = x /\ added.list # <<>>
  <2>1. \A y : DOMAIN <<y>> = {1} /\ <<y>>[1] = y /\ <<y>> # <<>>
    OBVIOUS
  <2>. QED
    BY <1>10, <2>1 DEF Of
<1>14. Listed(added.list, added.tokens)
  <2>1. DOMAIN <<x>> = {1} /\ Len(<<x>>) = 1 /\ <<x>> \in Seq(RecordType)
    BY <1>6
  <2>2. Len(<<x>>) <= Capacity
    BY <1>0, <2>1
  <2>3. /\ \A i, j \in DOMAIN <<x>> : <<x>>[i].token = <<x>>[j].token => i = j
        /\ \A i, j \in DOMAIN <<x>> : <<x>>[i].app = <<x>>[j].app => i = j
    BY <2>1
  <2>4. Distinct(added.list, added.tokens)
    BY <1>6, <1>10, <1>11, <1>13, <2>1, <2>2, <2>3 DEF Distinct, LauncherToken
  <2>. QED
    BY <1>6, <1>13, <2>4 DEF Listed, LauncherToken
<1>15. Watched(added.list, added.seen)
  BY <1>0, <1>6, <1>11, <1>13 DEF Watched
<1>16. Vacant(added)
  <2>1. NoReport(added.amsQ)
    BY <1>11 DEF NoReport
  <2>. QED
    BY <1>6, <1>10, <1>11, <1>12, <1>13, <1>14, <1>15, <2>1 DEF Vacant
<1>17. LET v == CreateAppTask(added, x, {})
       IN  /\ Same(added, v, {"list", "threads", "nativeQ", "async", "ret"}) /\ v.ret = "ok"
           /\ On(v, x.token, x.app) /\ Asked(v, x.token, "CREATE", "NONE")
           /\ v.list[1].token = x.token
  <2>. HIDE DEF c, r
  <2>. QED
    BY <1>13, <1>16, Created
<1>18. /\ Same(added, c, {"list", "threads", "nativeQ", "async", "ret"}) /\ c.ret = "ok"
       /\ On(c, 0, Startup) /\ Asked(c, 0, "CREATE", "NONE")
       /\ c.list[1].token = 0
  BY <1>6, <1>17
<1>. HIDE DEF c, r
<1>19. r = Ok(c)
  BY <1>5, <1>18
<1>20. Typed(c)
  BY <1>18 DEF On
<1>21. Same(c, r, {"ret"})
  BY <1>19, <1>20 DEF Ok, Typed, Same, Fields
<1>22. /\ c.pending = 0 /\ c.scheduling = TRUE
  BY <1>11, <1>18 DEF Same, Fields
<1>23. Going(c, 0, Startup) /\ c.threads[0].life = "NONE"
  BY <1>18, <1>22 DEF Going, Coming, Asked
<1>24. /\ Same(c, r, {"ret", "scheduling", "ops", "pendingRecord", "launcher", "lost"})
       /\ r.scheduling = TRUE /\ r.ops = c.ops /\ r.threads = c.threads
  BY <1>21, <1>22 DEF Same, Fields
<1>25. Going(r, 0, Startup)
  <2>1. r.scheduling \in BOOLEAN /\ r.ops \in Seq(Allowed)
    BY <1>20, <1>24 DEF Typed
  <2>. QED
    BY <1>23, <1>24, <2>1, Unaffected
<1>. QED
  BY <1>23, <1>24, <1>25 DEF LauncherToken, r

\* Without a launcher the service stays as it is.
LEMMA LauncherUnknown ==
    ASSUME Regular, NEW s, Off(s), NEW garbage, Startup \in Unknown
    PROVE  LET r == StartLauncher(s, {}, garbage)
           IN  Off(r) /\ r.amsQ = s.amsQ
<1>. DEFINE w == [app |-> Startup, mission |-> garbage]
            r == StartLauncher(s, {}, garbage)
<1>1. ~HasApp(s.list, Startup) /\ s.scheduling = FALSE
  BY DEF Off, HasApp
<1>2. r = MStartAbility(s, w, {}) /\ w.app = Startup
  BY DEF StartLauncher, Regular
<1>. HIDE DEF r, w
<1>3. r = Error(Idle(s))
  BY <1>1, <1>2 DEF MStartAbility, QueryAbilitySvcInfo
<1>4. Same(s, r, {"ret", "scheduling"}) /\ r.scheduling = FALSE
  BY <1>3 DEF Off, Error, Idle, Same, Fields
<1>5. Off(r) /\ r.amsQ = s.amsQ
  BY <1>4 DEF Off, Same, Fields
<1>. QED
  BY <1>5 DEF r

\* RunOperation: once a task failed nothing takes that back.
LEMMA RunFails ==
    ASSUME Regular, NEW s, Held(s), NEW fails, NEW garbage \in Mission \cup {Unset}
    PROVE  LET r == RunOperation(s, fails, garbage)
           IN  /\ r = RunOperation(s, {}, garbage) \/ r.failed = TRUE
               /\ s.failed = TRUE => r.failed = TRUE
<1>. DEFINE n == 2 * Len(s.ops)
<1>1. PICK run : Steps(s, fails, garbage, run)
  BY RunSteps DEF Held
<1>2. PICK calm : Steps(s, {}, garbage, calm)
  BY RunSteps DEF Held
<1>3. /\ n \in Nat /\ run[n] = RunOperation(s, fails, garbage)
      /\ calm[n] = RunOperation(s, {}, garbage)
  BY <1>1, <1>2 DEF Steps
<1>4. /\ \A i \in 0..n : run[i] = IF i = 0 THEN s ELSE RunOne(run[i - 1], fails, garbage)
      /\ \A i \in 0..n : calm[i] = IF i = 0 THEN s ELSE RunOne(calm[i - 1], {}, garbage)
  BY <1>1, <1>2 DEF Steps
<1>. DEFINE Agrees(i) == /\ Held(run[i])
                         /\ run[i] = calm[i] \/ run[i].failed = TRUE
                         /\ s.failed = TRUE => run[i].failed = TRUE
            Q == {i \in Nat : i <= n => Agrees(i)}
<1>. HIDE DEF n
<1>5. 0 \in Q
  <2>1. run[0] = s /\ calm[0] = s
    BY <1>3, <1>4
  <2>. QED
    BY <2>1
<1>. HIDE DEF Agrees
<1>6. ASSUME NEW k \in Nat, k \in Q PROVE k + 1 \in Q
  <2>1. SUFFICES ASSUME k + 1 <= n PROVE Agrees(k + 1)
    OBVIOUS
  <2>2. Agrees(k)
    BY <1>3, <1>6, <2>1
  <2>3. /\ run[k + 1] = RunOne(run[k], fails, garbage)
        /\ calm[k + 1] = RunOne(calm[k], {}, garbage)
    <3>1. k + 1 \in 0..n /\ k + 1 # 0 /\ (k + 1) - 1 = k
      BY <1>3, <2>1
    <3>. QED
      BY <1>4, <3>1
  <2>4. Either(run[k], RunOne(run[k], fails, garbage), RunOne(run[k], {}, garbage))
    BY <2>2, RunOneFails DEF Agrees
  <2>. DEFINE x == run[k]
              y == run[k + 1]
              z == calm[k + 1]
  <2>5. x = calm[k] => Either(x, y, z)
    BY <2>3, <2>4
  <2>6. Held(y) /\ y.failed \in {x.failed, TRUE}
    BY <2>3, <2>4 DEF Either
  <2>7. (x = calm[k] \/ x.failed = TRUE) /\ (s.failed = TRUE => x.failed = TRUE)
    BY <2>2 DEF Agrees
  <2>. HIDE DEF x, y, z
  <2>8. Held(y) /\ (y = z \/ y.failed = TRUE) /\ (s.failed = TRUE => y.failed = TRUE)
    BY <2>5, <2>6, <2>7 DEF Either
  <2>. QED
    BY <2>8 DEF y, z, Agrees
<1>7. n \in Q
  <2>. HIDE DEF Q
  <2>1. Nat \subseteq Q
    BY <1>5, <1>6, Induct
  <2>. QED
    BY <1>3, <2>1
<1>8. Agrees(n)
  <2>1. n <= n
    BY <1>3
  <2>. QED
    BY <1>7, <2>1
<1>. QED
  BY <1>3, <1>8 DEF Agrees

\* A request, a report and the start of the launcher, in turn: what comes of a
\* step in which no task failed comes of it when none can.
LEMMA RequestFails ==
    ASSUME Regular, NEW s, Held(s), NEW op \in Allowed, NEW fails,
           NEW garbage \in Mission \cup {Unset}
    PROVE  LET P(f) == Perform(s, op, f)
               R(f) == IF P(f).ret = "error" \/ ~P(f).scheduling
                       THEN RunOperation(Idle(P(f)), f, garbage) ELSE P(f)
           IN  R(fails) = R({}) \/ R(fails).failed = TRUE
<1>. DEFINE p == Perform(s, op, fails)
            q == Perform(s, op, {})
            i == Idle(p)
            u == RunOperation(i, fails, garbage)
            x == IF p.ret = "error" \/ ~p.scheduling THEN u ELSE p
            y == IF q.ret = "error" \/ ~q.scheduling
                 THEN RunOperation(Idle(q), {}, garbage) ELSE q
<1>1. Held(p) /\ (p = q \/ p.failed = TRUE)
  BY PerformFails DEF Either
<1>. HIDE DEF p, q
<1>2. Held(i) /\ i.failed = p.failed
  BY <1>1, CalmFields DEF Calm, Held
<1>3. /\ u = RunOperation(i, {}, garbage) \/ u.failed = TRUE
      /\ i.failed = TRUE => u.failed = TRUE
  <2>. HIDE DEF i
  <2>. QED
    BY <1>2, RunFails
<1>4. x = y \/ x.failed = TRUE
  <2>1. CASE p.failed = TRUE
    <3>1. u.failed = TRUE
      BY <1>2, <1>3, <2>1
    <3>. HIDE DEF u
    <3>. QED
      BY <2>1, <3>1
  <2>2. CASE p = q
    <3>1. y = IF p.ret = "error" \/ ~p.scheduling THEN RunOperation(i, {}, garbage) ELSE p
      BY <2>2
    <3>. HIDE DEF u, y
    <3>. QED
      BY <1>3, <3>1
  <2>. QED
    BY <1>1, <2>1, <2>2
<1>. QED
  BY <1>4 DEF p, q

\* A report of an ability.
LEMMA ReportFails ==
    ASSUME Regular, NEW s, Held(s), NEW t, NEW state \in Life, NEW fails,
           NEW garbage \in Mission \cup {Unset}
    PROVE  LET R(f) == SchedulerLifecycleDone(s, t, state, f, garbage)
           IN  R(fails) = R({}) \/ R(fails).failed = TRUE
<1>1. CASE state \in {"INITIAL", "BACKGROUND"}
  BY <1>1 DEF SchedulerLifecycleDone
<1>2. CASE state = "FOREGROUND"
  <2>. DEFINE v == SetAbilityStateAndNotify(s, t, "FOREGROUND")
              i == Idle(v)
  <2>1. \A f : SchedulerLifecycleDone(s, t, state, f, garbage) = RunOperation(i, f, garbage)
    BY <1>2 DEF SchedulerLifecycleDone, OnForegroundDone, MOnForegroundDone, Regular
  <2>2. Calm(s, v)
    BY CalmTold DEF Held
  <2>. HIDE DEF v
  <2>3. Calm(v, i)
    BY <2>2, CalmFields DEF Calm
  <2>. HIDE DEF i
  <2>4. Held(i)
    BY <2>2, <2>3 DEF Calm, Held
  <2>. QED
    BY <2>1, <2>4, RunFails
<1>3. CASE state = "UNINITIALIZED"
  <2>1. \A f : SchedulerLifecycleDone(s, t, state, f, garbage) = MOnDestroyDone(s, t, f)
    BY <1>3 DEF SchedulerLifecycleDone, OnDestroyDone, Regular
  <2>. QED
    BY <2>1, DestroyDoneFails DEF Held, Only
<1>. QED
  BY <1>1, <1>2, <1>3 DEF Life

\* The start of the launcher.
LEMMA LauncherFails ==
    ASSUME Regular, NEW s, Held(s), ~s.scheduling, NEW fails, NEW garbage
    PROVE  LET R(f) == StartLauncher(s, f, garbage)
           IN  R(fails) = R({}) \/ R(fails).failed = TRUE
<1>. DEFINE w == [app |-> Startup, mission |-> garbage]
            c == Scheduling(s)
<1>1. \A f : StartLauncher(s, f, garbage) = IF HasApp(s.list, w.app) THEN MStartKnown(c, w)
                                            ELSE IF ~QueryAbilitySvcInfo(w.app) THEN Error(Idle(s))
                                            ELSE MStartNew(c, w, f)
  BY DEF StartLauncher, MStartAbility, Regular
<1>. HIDE DEF w
<1>2. Calm(s, c)
  BY CalmFields DEF Held
<1>. HIDE DEF c
<1>3. Only(c, MStartNew(c, w, fails), MStartNew(c, w, {}))
  BY <1>2, StartNewFails DEF Calm
<1>. QED
  BY <1>1, <1>3 DEF Only

-----------------------------------------------------------------------------
(* The invariant.                                                          *)

\* A report of the switch under way was dropped: nothing will end the switch.
Stuck(s, h, a) == On(s, h, a) /\ Quiet(s, h) /\ s.lost

\* The ability a, with token h, is the one that has a task.
Here(s, h, a) ==
    \/ Rest(s, h, a) /\ ~s.scheduling
    \/ Going(s, h, a) /\ s.scheduling
    \/ Stuck(s, h, a) /\ s.scheduling

\* Until the service has taken the request that starts the launcher.
Booting == Off(State) /\ amsQ \in {<<[id |-> "initialize"]>>, <<>>}

\* The inductive invariant.
IInv == Booting \/ \E h \in Token, a \in App : Here(State, h, a)

\* The life of the ability goes from x to y with a callback.
Called(x, y) ==
    <<x, y>> \in {<<"NONE", "INITIAL">>, <<"INITIAL", "FOREGROUND">>,
                  <<"FOREGROUND", "BACKGROUND">>, <<"BACKGROUND", "UNINITIALIZED">>}

\* A step takes the ability a with token h and life x to b with k and y: it is the
\* same, or another takes the place of one in the foreground or destroyed.
Moved(h, a, x, k, b, y) ==
    \/ k = h /\ b = a /\ (y = x \/ Called(x, y))
    \/ y = "NONE" /\ x \in {"FOREGROUND", "UNINITIALIZED"}

\* The fields of State.
LEMMA StateFields ==
    /\ DOMAIN State = Fields
    /\ State.list = list /\ State.ops = ops /\ State.scheduling = scheduling
    /\ State.pending = pending /\ State.tokens = tokens /\ State.missions = missions
    /\ State.threads = threads /\ State.nativeQ = nativeQ /\ State.async = async
    /\ State.seen = seen /\ State.amsQ = amsQ /\ State.dangling = dangling
    /\ State.failed = failed /\ State.lost = lost
BY DEF State, Fields

\* Commit makes the next state the one given.
LEMMA CommitSame ==
    ASSUME NEW r, Commit(r)
    PROVE  Same(r, State', {})
BY DEF State, Commit, Fields, Same

\* What Served promises, as a step of the invariant.
LEMMA ServedSame ==
    ASSUME NEW life, NEW r, NEW h \in Token, NEW a \in App, Served(life, r, h, a),
           NEW s, Same(r, s, {})
    PROVE  \E k \in Token, b \in App : Here(s, k, b) /\ Moved(h, a, life, k, b, s.threads[k].life)
<1>1. /\ s.scheduling = r.scheduling /\ s.ops = r.ops /\ s.threads = r.threads
  BY DEF Same, Fields
<1>2. \A k \in Token, b \in App : On(r, k, b) =>
          /\ Rest(r, k, b) => Rest(s, k, b)
          /\ Going(r, k, b) => Going(s, k, b)
  <2>1. SUFFICES ASSUME NEW k \in Token, NEW b \in App, On(r, k, b)
                 PROVE  /\ Rest(r, k, b) => Rest(s, k, b)
                        /\ Going(r, k, b) => Going(s, k, b)
    OBVIOUS
  <2>2. s.scheduling \in BOOLEAN /\ s.ops \in Seq(Allowed)
    BY <1>1, <2>1 DEF On, Typed
  <2>3. Same(r, s, {"ret", "scheduling", "ops", "pendingRecord", "launcher", "lost"})
    BY DEF Same
  <2>. QED
    BY <2>2, <2>3, Unaffected
<1>3. CASE Rest(r, h, a) /\ ~r.scheduling /\ life = "FOREGROUND"
  <2>1. Rest(s, h, a)
    BY <1>2, <1>3 DEF Rest
  <2>. QED
    BY <1>1, <1>3, <2>1 DEF Here, Moved, Rest
<1>4. CASE r.scheduling /\ Going(r, h, a) /\ r.threads[h].life = life
  <2>1. Going(s, h, a)
    BY <1>2, <1>4 DEF Going
  <2>. QED
    BY <1>1, <1>4, <2>1 DEF Here, Moved
<1>5. CASE /\ r.scheduling /\ life \in {"FOREGROUND", "UNINITIALIZED"}
           /\ \E k \in Token, b \in App : Going(r, k, b) /\ r.threads[k].life = "NONE"
  <2>1. PICK k \in Token, b \in App : Going(r, k, b) /\ r.threads[k].life = "NONE"
    BY <1>5
  <2>2. Going(s, k, b)
    BY <1>2, <2>1 DEF Going
  <2>. QED
    BY <1>1, <1>5, <2>1, <2>2 DEF Here, Moved
<1>. QED
  BY <1>3, <1>4, <1>5 DEF Served

\* Once a report was dropped the service holds back every further operation.
LEMMA StuckRequest ==
    ASSUME Regular, NEW h \in Token, NEW a \in App, Stuck(State, h, a), scheduling,
           HandleRequest
    PROVE  Here(State', h, a) /\ State'.threads = State.threads
<1>. DEFINE z == [State EXCEPT !.amsQ = Tail(@)]
            P(f) == Perform(z, Head(amsQ), f)
            R(f, g) == IF P(f).ret = "error" \/ ~P(f).scheduling
                       THEN RunOperation(Idle(P(f)), f, g) ELSE P(f)
<1>1. PICK fails \in Failures, garbage \in Mission \cup {Unset} : Serve(R(fails, garbage))
  BY DEF HandleRequest
<1>2. amsQ # <<>> /\ Head(amsQ).id \notin {"done", "initialize"}
  BY DEF HandleRequest, ServiceReady
<1>3. On(State, h, a) /\ Quiet(State, h) /\ State.lost
  BY DEF Stuck
<1>4. /\ On(z, h, a) /\ Same(State, z, {"amsQ"}) /\ Head(amsQ) \in Queued
      /\ Quiet(z, h)
  BY <1>2, <1>3, Taken, TakenRequest, StateFields
<1>. DEFINE r == P(fails)
<1>. HIDE DEF z
<1>5. Typed(z) /\ z.scheduling /\ z.lost /\ z.threads = State.threads
  BY <1>3, <1>4, StateFields DEF On, Same, Fields
<1>6. Head(amsQ) \in Allowed
  BY <1>2, <1>4 DEF Queued, Report
<1>7. Same(z, r, {"ops", "ret"}) /\ r.ret = "ok" /\ r.ops \in Seq(Allowed)
  BY <1>5, <1>6, HeldOperation
<1>. HIDE DEF r
<1>8. /\ r.scheduling = z.scheduling /\ r.lost = z.lost /\ r.threads = z.threads
      /\ r.nativeQ = z.nativeQ /\ r.amsQ = z.amsQ
  BY <1>7 DEF Same, Fields
<1>9. Commit(r)
  BY <1>1, <1>5, <1>7, <1>8 DEF Serve, r
<1>10. Same(r, State', {})
  BY <1>9, CommitSame
<1>. DEFINE t == State'
<1>11. /\ Same(z, t, {"ret", "ops"}) /\ t.ops \in Seq(Allowed)
  <2>. HIDE DEF t
  <2>. QED
    BY <1>7, <1>10 DEF t, Same, Fields
<1>. HIDE DEF t
<1>12. /\ Same(z, t, {"ret", "scheduling", "ops", "pendingRecord", "launcher", "lost"})
       /\ t.scheduling = z.scheduling /\ t.lost = z.lost /\ t.threads = z.threads
       /\ t.nativeQ = z.nativeQ /\ t.amsQ = z.amsQ
  BY <1>11 DEF Same, Fields
<1>13. On(t, h, a)
  <2>1. t.scheduling \in BOOLEAN
    BY <1>5, <1>12 DEF Typed
  <2>. QED
    BY <1>4, <1>11, <1>12, <2>1, Unaffected
<1>14. Quiet(t, h)
  BY <1>4, <1>12 DEF Quiet
<1>. QED
  BY <1>5, <1>12, <1>13, <1>14 DEF Here, Stuck, t

\* The service handles a request.
LEMMA HandleRequestKeeps ==
    ASSUME Regular, NEW h \in Token, NEW a \in App, Here(State, h, a), tokens < TokenLimit,
           HandleRequest, ~failed'
    PROVE  \E k \in Token, b \in App :
              /\ Here(State', k, b)
              /\ Moved(h, a, State.threads[h].life, k, b, State'.threads[k].life)
<1>. DEFINE z == [State EXCEPT !.amsQ = Tail(@)]
            P(f) == Perform(z, Head(amsQ), f)
            R(f, g) == IF P(f).ret = "error" \/ ~P(f).scheduling
                       THEN RunOperation(Idle(P(f)), f, g) ELSE P(f)
            p == P({})
<1>1. PICK fails \in Failures, garbage \in Mission \cup {Unset} : Serve(R(fails, garbage))
  BY DEF HandleRequest
<1>2. amsQ # <<>> /\ Head(amsQ).id \notin {"done", "initialize"}
  BY DEF HandleRequest, ServiceReady
<1>. SUFFICES ASSUME ~(Stuck(State, h, a) /\ State.scheduling)
              PROVE  \E k \in Token, b \in App :
                        /\ Here(State', k, b)
                        /\ Moved(h, a, State.threads[h].life, k, b, State'.threads[k].life)
  BY StuckRequest, StateFields DEF Moved
<1>3. On(State, h, a) /\ (Rest(State, h, a) \/ Going(State, h, a))
  BY DEF Here, Rest, Going, Stuck
<1>4. /\ On(z, h, a) /\ Same(State, z, {"amsQ"}) /\ Head(amsQ) \in Queued
  BY <1>2, <1>3, Taken, StateFields
<1>5. /\ Rest(State, h, a) => Rest(z, h, a)
      /\ Going(State, h, a) => Going(z, h, a)
  BY <1>2, <1>3, TakenRequest, StateFields
<1>. HIDE DEF z
<1>6. /\ z.scheduling = State.scheduling /\ z.tokens = tokens /\ z.threads = State.threads
  BY <1>4, StateFields DEF Same, Fields
<1>7. Head(amsQ) \in Allowed
  BY <1>2, <1>4 DEF Queued, Report
<1>8. \/ Rest(z, h, a) /\ ~z.scheduling
      \/ Going(z, h, a) /\ z.scheduling
  BY <1>5, <1>6 DEF Here
<1>. DEFINE r == IF p.ret = "error" \/ ~p.scheduling THEN RunOperation(Idle(p), {}, garbage) ELSE p
<1>9. Served(z.threads[h].life, r, h, a)
  BY <1>6, <1>7, <1>8, RequestServed
<1>10. Commit(r)
  <2>1. Held(z)
    BY <1>4 DEF Held, On, Typed
  <2>2. R(fails, garbage) = R({}, garbage) \/ R(fails, garbage).failed = TRUE
    BY <1>7, <2>1, RequestFails
  <2>3. R({}, garbage) = r
    OBVIOUS
  <2>. HIDE DEF R, r
  <2>4. R(fails, garbage).failed = failed'
    BY <1>1 DEF Serve, Commit
  <2>. QED
    BY <1>1, <2>2, <2>3, <2>4 DEF Serve
<1>. HIDE DEF r, p
<1>. QED
  BY <1>6, <1>9, <1>10, CommitSame, ServedSame

\* The service handles a report.
LEMMA HandleDoneKeeps ==
    ASSUME Regular, NEW h \in Token, NEW a \in App, Here(State, h, a), tokens < TokenLimit,
           HandleDone, ~failed'
    PROVE  \E k \in Token, b \in App :
              /\ Here(State', k, b)
              /\ Moved(h, a, State.threads[h].life, k, b, State'.threads[k].life)
<1>. DEFINE z == [State EXCEPT !.amsQ = Tail(@)]
            life == z.threads[h].life
<1>1. PICK fails \in Failures, garbage \in Mission \cup {Unset} :
         Serve(SchedulerLifecycleDone(z, Head(amsQ).token, Head(amsQ).state, fails, garbage))
  BY DEF HandleDone
<1>2. amsQ # <<>> /\ Head(amsQ).id = "done"
  BY DEF HandleDone, ServiceReady
<1>3. Rest(State, h, a) \/ Going(State, h, a)
  <2>1. ~Stuck(State, h, a)
    <3>1. ASSUME On(State, h, a) PROVE Head(amsQ) = amsQ[1] /\ 1 \in DOMAIN amsQ
      <4>1. amsQ \in Seq(Queued)
        BY <3>1, StateFields DEF On, Typed
      <4>. QED
        BY <1>2, <4>1
    <3>. QED
      BY <1>2, <3>1, StateFields DEF Stuck, Quiet, NoReport
  <2>. QED
    BY <2>1 DEF Here
<1>4. /\ Going(State, h, a) /\ ~Rest(State, h, a)
      /\ On(z, h, a) /\ Same(State, z, {"amsQ"}) /\ Quiet(z, h)
      /\ Head(amsQ) = Report(h, z.threads[h].life)
      /\ \/ /\ Follows(z.list, h, z.pending)
            /\ z.threads[h].life \in {"BACKGROUND", "UNINITIALIZED"}
         \/ /\ z.pending = 0 /\ z.list[1].token = h
            /\ z.threads[h].life \in {"INITIAL", "FOREGROUND"}
  BY <1>2, <1>3, TakenReport, StateFields
<1>. HIDE DEF z
<1>5. /\ z.scheduling = State.scheduling /\ z.tokens = tokens /\ z.threads = State.threads
  BY <1>4, StateFields DEF Same, Fields
<1>6. z.scheduling
  BY <1>4, <1>5 DEF Here
<1>7. Head(amsQ).token = h /\ Head(amsQ).state = z.threads[h].life
  BY <1>4 DEF Report
<1>. DEFINE r == SchedulerLifecycleDone(z, h, z.threads[h].life, {}, garbage)
<1>8. Served(z.threads[h].life, r, h, a)
  BY <1>4, <1>5, <1>6, ReportServed
<1>9. Commit(r)
  <2>. DEFINE R(f) == SchedulerLifecycleDone(z, h, z.threads[h].life, f, garbage)
  <2>1. Held(z) /\ z.threads[h].life \in Life
    BY <1>4 DEF Held, On, Typed, Life
  <2>2. R(fails) = R({}) \/ R(fails).failed = TRUE
    BY <2>1, ReportFails
  <2>3. Serve(R(fails)) /\ R({}) = r
    BY <1>1, <1>7
  <2>. HIDE DEF R, r
  <2>4. R(fails).failed = failed'
    BY <2>3 DEF Serve, Commit
  <2>. QED
    BY <2>2, <2>3, <2>4 DEF Serve
<1>. HIDE DEF r
<1>. QED
  BY <1>5, <1>8, <1>9, CommitSame, ServedSame

\* A request or a report joins the queue.
LEMMA AppendFacts ==
    ASSUME NEW S, NEW q \in Seq(S), NEW x \in S
    PROVE  /\ Append(q, x) \in Seq(S) /\ Len(Append(q, x)) = Len(q) + 1 /\ Len(q) \in Nat
           /\ x.id # "done" /\ NoReport(q) => NoReport(Append(q, x))
           /\ x.id # "done" => \A m : OneReport(q, m) => OneReport(Append(q, x), m)
           /\ NoReport(q) => OneReport(Append(q, x), x)
<1>. DEFINE t == Append(q, x)
            n == Len(q)
<1>1. /\ t \in Seq(S) /\ Len(t) = n + 1 /\ n \in Nat /\ DOMAIN q = 1..n
      /\ DOMAIN t = 1..(n + 1) /\ t[n + 1] = x /\ \A i \in 1..n : t[i] = q[i]
  OBVIOUS
<1>. HIDE DEF t, n
<1>2. /\ n + 1 \in DOMAIN t /\ n + 1 \notin DOMAIN q
      /\ \A i \in DOMAIN q : i \in DOMAIN t /\ t[i] = q[i]
      /\ \A i \in DOMAIN t : i = n + 1 \/ i \in DOMAIN q
  BY <1>1
<1>3. x.id # "done" /\ NoReport(q) => NoReport(t)
  BY <1>1, <1>2 DEF NoReport
<1>4. ASSUME x.id # "done", NEW m, OneReport(q, m) PROVE OneReport(t, m)
  <2>1. PICK k \in DOMAIN q : q[k] = m /\ \A i \in DOMAIN q : i # k => q[i].id # "done"
    BY <1>4 DEF OneReport
  <2>2. \A i \in DOMAIN t : i # k => t[i].id # "done"
    BY <1>1, <1>2, <1>4, <2>1
  <2>. QED
    BY <1>2, <2>1, <2>2 DEF OneReport
<1>5. NoReport(q) => OneReport(t, x)
  BY <1>1, <1>2 DEF NoReport, OneReport
<1>. QED
  BY <1>1, <1>3, <1>4, <1>5 DEF t, n

\* A client's request joins the queue that has room for it.
LEMMA RequestJoins ==
    ASSUME Regular, NEW h \in Token, NEW a \in App, Here(State, h, a),
           NEW m \in Requests, Request(m), Len(amsQ) < QueueSize
    PROVE  Here(State', h, a) /\ State'.threads = State.threads
<1>. DEFINE s == State
            t == State'
<1>1. On(s, h, a)
  BY DEF Here, Rest, Going, Stuck
<1>2. m \in Allowed /\ m.id # "done"
  BY SliteEnvironmentAssumption DEF Regular, Allowed, Operation
<1>3. m \in Queued
  BY <1>2 DEF Queued
<1>4. Same(s, t, {"amsQ"}) /\ t.amsQ = Append(s.amsQ, m) /\ Len(s.amsQ) < QueueSize
  BY DEF Request, SendRequestToAms, State, Same, Fields
<1>. HIDE DEF s, t
<1>5. s.amsQ \in Seq(Queued)
  BY <1>1 DEF On, Typed
<1>6. /\ t.amsQ \in Seq(Queued) /\ Len(t.amsQ) <= QueueSize
      /\ NoReport(s.amsQ) => NoReport(t.amsQ)
      /\ \A x : OneReport(s.amsQ, x) => OneReport(t.amsQ, x)
  <2>1. /\ Append(s.amsQ, m) \in Seq(Queued) /\ Len(Append(s.amsQ, m)) = Len(s.amsQ) + 1
        /\ Len(s.amsQ) \in Nat
        /\ m.id # "done" /\ NoReport(s.amsQ) => NoReport(Append(s.amsQ, m))
        /\ m.id # "done" => \A x : OneReport(s.amsQ, x) => OneReport(Append(s.amsQ, m), x)
    BY <1>3, <1>5, AppendFacts
  <2>2. QueueSize \in Nat
    BY SliteAssumption
  <2>3. Len(t.amsQ) <= QueueSize
    BY <1>4, <2>1, <2>2
  <2>. QED
    BY <1>2, <1>4, <2>1, <2>3
<1>7. /\ t.list = s.list /\ t.pending = s.pending /\ t.tokens = s.tokens
      /\ t.missions = s.missions /\ t.threads = s.threads /\ t.nativeQ = s.nativeQ
      /\ t.async = s.async /\ t.seen = s.seen /\ t.dangling = s.dangling
      /\ t.failed = s.failed /\ t.scheduling = s.scheduling /\ t.ops = s.ops
      /\ t.lost = s.lost /\ DOMAIN t = Fields
  BY <1>4 DEF Same, Fields
<1>8. On(t, h, a)
  BY <1>1, <1>6, <1>7 DEF On, Typed
<1>9. Quiet(s, h) => Quiet(t, h)
  BY <1>6, <1>7 DEF Quiet
<1>10. \A id, life : Asked(s, h, id, life) => Asked(t, h, id, life)
  BY <1>6, <1>7 DEF Asked
<1>11. \A life : Answered(s, h, life) => Answered(t, h, life)
  BY <1>6, <1>7 DEF Answered
<1>12. Leaving(s, h) => Leaving(t, h)
  BY <1>7, <1>10, <1>11 DEF Leaving
<1>13. Coming(s, h) => Coming(t, h)
  BY <1>7, <1>10, <1>11 DEF Coming
<1>14. Rest(s, h, a) => Rest(t, h, a)
  BY <1>7, <1>8, <1>9 DEF Rest
<1>15. Going(s, h, a) => Going(t, h, a)
  BY <1>8, <1>12, <1>13 DEF Going
<1>16. Stuck(s, h, a) => Stuck(t, h, a)
  BY <1>7, <1>8, <1>9 DEF Stuck
<1>17. Here(t, h, a)
  BY <1>7, <1>14, <1>15, <1>16 DEF Here, s
<1>. QED
  BY <1>7, <1>17 DEF s, t

\* A client's request joins the queue, or the client gives up.
LEMMA RequestKeeps ==
    ASSUME Regular, NEW h \in Token, NEW a \in App, Here(State, h, a),
           NEW m \in Requests, Request(m)
    PROVE  Here(State', h, a) /\ State'.threads = State.threads
<1>1. CASE Len(amsQ) < QueueSize
  BY <1>1, RequestJoins
<1>2. CASE ~(Len(amsQ) < QueueSize)
  <2>1. amsQ' = amsQ
    BY <1>2 DEF Request, SendRequestToAms
  <2>2. State' = State
    BY <2>1 DEF Request, State
  <2>. QED
    BY <2>2
<1>. QED
  BY <1>1, <1>2

\* The thread of h has run a callback.
After(th, h, life) == [th EXCEPT ![h].life = life, ![h].inbox = <<>>]

\* The task of the ability runs the callback it was asked for, whatever becomes
\* of its report.
LEMMA CallbackRuns ==
    ASSUME NEW s, NEW h \in Token, NEW a, On(s, h, a),
           NEW next \in Life,
           NEW t, Same(s, t, {"threads", "nativeQ", "amsQ", "lost"}),
           t.threads = After(s.threads, h, next),
           t.nativeQ = <<>>, t.amsQ \in Seq(Queued), Len(t.amsQ) <= QueueSize
    PROVE  /\ On(t, h, a) /\ Sent(t.threads, t.nativeQ, h, <<>>)
           /\ t.threads[h].life = next
<1>4. /\ s.threads = [x \in {h} |-> s.threads[h]]
      /\ DOMAIN s.threads[h] = {"native", "life", "inbox"}
  BY DEF On, Alone
<1>5. /\ t.threads = [x \in {h} |-> t.threads[h]]
      /\ DOMAIN t.threads[h] = {"native", "life", "inbox"}
      /\ t.threads[h].life = next /\ t.threads[h].inbox = <<>>
      /\ t.threads[h].native = s.threads[h].native
  <2>. DEFINE f == s.threads
              g == [f[h] EXCEPT !.life = next, !.inbox = <<>>]
  <2>1. t.threads = [x \in {h} |-> g]
    <3>1. t.threads = [f EXCEPT ![h] = g]
      BY <1>4 DEF After
    <3>. HIDE DEF g
    <3>. QED
      BY <1>4, <3>1
  <2>2. /\ DOMAIN g = {"native", "life", "inbox"}
        /\ g.life = next /\ g.inbox = <<>> /\ g.native = f[h].native
    BY <1>4
  <2>3. t.threads[h] = g
    BY <2>1
  <2>. HIDE DEF g
  <2>. QED
    BY <2>1, <2>2, <2>3
<1>6. /\ t.list = s.list /\ t.pending = s.pending /\ t.tokens = s.tokens
      /\ t.missions = s.missions /\ t.async = s.async /\ t.seen = s.seen
      /\ t.dangling = s.dangling /\ t.failed = s.failed /\ t.scheduling = s.scheduling
      /\ t.ops = s.ops /\ DOMAIN t = Fields
  BY DEF Same, Fields
<1>7. Alone(t.list, t.threads, t.async, h, a)
  BY <1>5, <1>6 DEF On, Alone
<1>8. On(t, h, a)
  BY <1>6, <1>7 DEF On, Typed
<1>. QED
  BY <1>5, <1>8 DEF Sent

\* It reports, if the queue has room.
LEMMA CallbackAnswers ==
    ASSUME NEW s, NEW h \in Token, NEW a, On(s, h, a), NEW id, NEW life, Asked(s, h, id, life),
           NEW next \in Life, Len(s.amsQ) < QueueSize,
           NEW t, Same(s, t, {"threads", "nativeQ", "amsQ", "lost"}),
           t.threads = After(s.threads, h, next),
           t.nativeQ = <<>>, t.amsQ = Append(s.amsQ, Report(h, next))
    PROVE  On(t, h, a) /\ Answered(t, h, next)
<1>1. Report(h, next) \in Queued
  BY DEF Queued
<1>2. s.amsQ \in Seq(Queued) /\ NoReport(s.amsQ)
  BY DEF On, Typed, Asked
<1>3. /\ t.amsQ \in Seq(Queued) /\ Len(t.amsQ) <= QueueSize
      /\ OneReport(t.amsQ, Report(h, next))
  <2>1. /\ Append(s.amsQ, Report(h, next)) \in Seq(Queued)
        /\ Len(Append(s.amsQ, Report(h, next))) = Len(s.amsQ) + 1 /\ Len(s.amsQ) \in Nat
        /\ OneReport(Append(s.amsQ, Report(h, next)), Report(h, next))
    BY <1>1, <1>2, AppendFacts
  <2>2. QueueSize \in Nat
    BY SliteAssumption
  <2>. QED
    BY <2>1, <2>2
<1>4. /\ On(t, h, a) /\ Sent(t.threads, t.nativeQ, h, <<>>)
      /\ t.threads[h].life = next
  BY <1>3, CallbackRuns
<1>. QED
  BY <1>3, <1>4 DEF Answered

\* Its report is dropped, if the queue is full.
LEMMA CallbackDropped ==
    ASSUME NEW s, NEW h \in Token, NEW a, On(s, h, a), NEW id, NEW life, Asked(s, h, id, life),
           NEW next \in Life,
           NEW t, Same(s, t, {"threads", "nativeQ", "amsQ", "lost"}),
           t.threads = After(s.threads, h, next),
           t.nativeQ = <<>>, t.amsQ = s.amsQ, t.lost
    PROVE  Stuck(t, h, a) /\ t.threads[h].life = next
<1>1. t.amsQ \in Seq(Queued) /\ Len(t.amsQ) <= QueueSize /\ NoReport(t.amsQ)
  BY DEF On, Typed, Asked
<1>2. /\ On(t, h, a) /\ Sent(t.threads, t.nativeQ, h, <<>>)
      /\ t.threads[h].life = next
  BY <1>1, CallbackRuns
<1>. QED
  BY <1>1, <1>2 DEF Stuck, Quiet

\* One of the two tasks that run callbacks takes the message.
LEMMA AskedRuns ==
    ASSUME NEW h \in Token, NEW a, On(State, h, a),
           NEW id \in {"CREATE", "FOREGROUND", "BACKGROUND", "DESTROY"}, NEW life,
           Asked(State, h, id, life),
           (\E x \in DOMAIN threads : JsAppTask(x)) \/ NativeAppTask
    PROVE  /\ On(State', h, a)
           /\ \/ Answered(State', h, StateAfter(id))
              \/ Stuck(State', h, a) /\ State'.threads[h].life = StateAfter(id)
           /\ Same(State, State', {"threads", "nativeQ", "amsQ", "lost"})
<1>1. PICK b \in BOOLEAN :
         /\ Sent(threads, nativeQ, h, <<[id |-> id, token |-> h, saved |-> b]>>)
         /\ b => \A q \in Of(list) : q.token = h => q.saved
  BY StateFields DEF Asked
<1>. DEFINE m == [id |-> id, token |-> h, saved |-> b]
<1>2. threads = [x \in {h} |-> threads[h]]
  BY StateFields DEF On, Alone
<1>3. \A y : Head(<<y>>) = y /\ Tail(<<y>>) = <<>> /\ <<y>> # <<>>
  OBVIOUS
<1>4. Callback(m, <<>>) /\ nativeQ' = <<>>
  <2>1. CASE NativeAppTask
    <3>1. nativeQ # <<>> /\ Callback(Head(nativeQ), <<>>) /\ nativeQ' = Tail(nativeQ)
      BY <2>1 DEF NativeAppTask
    <3>2. nativeQ = <<m>>
      BY <1>1, <3>1 DEF Sent
    <3>. QED
      BY <1>3, <3>1, <3>2
  <2>2. CASE \E x \in DOMAIN threads : JsAppTask(x)
    <3>1. JsAppTask(h)
      <4>1. DOMAIN threads = {h}
        BY <1>2
      <4>. QED
        BY <2>2, <4>1
    <3>2. /\ ~threads[h].native /\ Callback(Head(threads[h].inbox), Tail(threads[h].inbox))
          /\ nativeQ' = nativeQ
      BY <3>1 DEF JsAppTask
    <3>3. threads[h].inbox = <<m>> /\ nativeQ = <<>>
      BY <1>1, <3>2 DEF Sent
    <3>. QED
      BY <1>3, <3>2, <3>3
  <2>. QED
    BY <2>1, <2>2
<1>5. m.id = id /\ m.token = h /\ m.saved = b
  OBVIOUS
<1>. HIDE DEF m
<1>6. ~UsesDeleted(m)
  <2>1. PICK q \in Of(list) : q.token = h
    BY StateFields DEF On, Alone
  <2>2. Has(list, h) /\ Get(list, h) = q
    BY <2>1, StateFields, Runner
  <2>. QED
    BY <1>1, <1>5, <2>1, <2>2 DEF UsesDeleted
<1>7. dangling = FALSE
  BY StateFields DEF On, Typed
<1>8. /\ Same(State, State', {"threads", "nativeQ", "amsQ", "lost"})
      /\ State'.threads = After(State.threads, h, StateAfter(id))
      /\ State'.nativeQ = <<>>
      /\ \/ /\ Len(State.amsQ) < QueueSize
            /\ State'.amsQ = Append(State.amsQ, Report(h, StateAfter(id)))
         \/ State'.amsQ = State.amsQ /\ State'.lost
  <2>1. threads' = After(threads, h, StateAfter(id)) /\ dangling' = dangling
    BY <1>4, <1>5, <1>6, <1>7 DEF Callback, After
  <2>3. \/ Len(amsQ) < QueueSize /\ amsQ' = Append(amsQ, Report(h, StateAfter(id)))
        \/ amsQ' = amsQ /\ lost'
    <3>1. Len(amsQ) < QueueSize \/ Len(amsQ) >= QueueSize
      <4>1. amsQ \in Seq(Queued) /\ QueueSize \in Nat
        BY StateFields, SliteAssumption DEF On, Typed
      <4>. QED
        BY <4>1
    <3>. QED
      BY <1>4, <1>5, <3>1 DEF Callback, SendRequestToAms, Report
  <2>2. /\ list' = list /\ ops' = ops /\ scheduling' = scheduling /\ pending' = pending
        /\ pendingRecord' = pendingRecord /\ tokens' = tokens /\ missions' = missions
        /\ async' = async /\ launcher' = launcher /\ seen' = seen
        /\ failed' = failed /\ ret' = ret
    BY <1>4 DEF Callback
  <2>. QED
    BY <1>4, <2>1, <2>2, <2>3 DEF State, Same, Fields
<1>9. StateAfter(id) \in Life
  BY DEF StateAfter, Life
<1>10. CASE /\ Len(State.amsQ) < QueueSize
            /\ State'.amsQ = Append(State.amsQ, Report(h, StateAfter(id)))
  <2>1. On(State', h, a) /\ Answered(State', h, StateAfter(id))
    BY <1>8, <1>9, <1>10, CallbackAnswers
  <2>. QED
    BY <1>8, <2>1
<1>11. CASE State'.amsQ = State.amsQ /\ State'.lost
  <2>1. Stuck(State', h, a) /\ State'.threads[h].life = StateAfter(id)
    BY <1>8, <1>9, <1>11, CallbackDropped
  <2>. QED
    BY <1>8, <2>1 DEF Stuck
<1>. QED
  BY <1>8, <1>10, <1>11

\* A callback takes the switch one step further.
LEMMA CallbackKeeps ==
    ASSUME NEW h \in Token, NEW a \in App, Here(State, h, a),
           (\E x \in DOMAIN threads : JsAppTask(x)) \/ NativeAppTask
    PROVE  Here(State', h, a) /\ Called(State.threads[h].life, State'.threads[h].life)
<1>1. On(State, h, a) /\ threads = [x \in {h} |-> threads[h]]
  BY StateFields DEF Here, Rest, Going, Stuck, On, Alone
<1>2. ~Sent(threads, nativeQ, h, <<>>)
  <2>1. CASE NativeAppTask
    BY <2>1 DEF NativeAppTask, Sent
  <2>2. CASE \E x \in DOMAIN threads : JsAppTask(x)
    <3>1. JsAppTask(h)
      BY <1>1, <2>2
    <3>. QED
      BY <3>1 DEF JsAppTask, Sent
  <2>. QED
    BY <2>1, <2>2
<1>3. ~Quiet(State, h) /\ \A life : ~Answered(State, h, life)
  BY <1>2, StateFields DEF Quiet, Answered
<1>4. Going(State, h, a) /\ State.scheduling
  BY <1>3 DEF Here, Rest, Stuck
<1>5. \A id \in {"CREATE", "FOREGROUND", "BACKGROUND", "DESTROY"} : \A life :
         Asked(State, h, id, life) =>
            /\ On(State', h, a)
            /\ \/ Answered(State', h, StateAfter(id))
               \/ Stuck(State', h, a) /\ State'.threads[h].life = StateAfter(id)
            /\ Same(State, State', {"threads", "nativeQ", "amsQ", "lost"})
  BY <1>1, AskedRuns
<1>6. /\ StateAfter("CREATE") = "INITIAL" /\ StateAfter("FOREGROUND") = "FOREGROUND"
      /\ StateAfter("BACKGROUND") = "BACKGROUND" /\ StateAfter("DESTROY") = "UNINITIALIZED"
  BY DEF StateAfter
<1>. DEFINE s == State
            t == State'
<1>7. Same(s, t, {"threads", "nativeQ", "amsQ", "lost"}) =>
         t.list = s.list /\ t.pending = s.pending /\ t.scheduling = s.scheduling
  <2>. HIDE DEF s, t
  <2>. QED
    BY DEF Same, Fields
<1>8. CASE Leaving(State, h)
  <2>1. CASE Asked(s, h, "BACKGROUND", "FOREGROUND")
    BY <1>4, <1>5, <1>6, <1>7, <1>8, <2>1 DEF Leaving, Going, Here, Answered, Asked, Called
  <2>2. CASE Asked(s, h, "DESTROY", "BACKGROUND")
    BY <1>4, <1>5, <1>6, <1>7, <1>8, <2>2 DEF Leaving, Going, Here, Answered, Asked, Called
  <2>. QED
    BY <1>3, <1>8, <2>1, <2>2 DEF Leaving
<1>9. CASE Coming(State, h)
  <2>1. CASE Asked(s, h, "CREATE", "NONE")
    BY <1>4, <1>5, <1>6, <1>7, <1>9, <2>1 DEF Coming, Going, Here, Answered, Asked, Called
  <2>2. CASE Asked(s, h, "FOREGROUND", "INITIAL")
    BY <1>4, <1>5, <1>6, <1>7, <1>9, <2>2 DEF Coming, Going, Here, Answered, Asked, Called
  <2>. QED
    BY <1>3, <1>9, <2>1, <2>2 DEF Coming
<1>. QED
  BY <1>4, <1>8, <1>9 DEF Going

\* The first state.
LEMMA InitBoots == Init => Booting
BY SliteAssumption DEF Init, Booting, Off, State, Fields, LauncherToken

\* The service starts the launcher.
LEMMA BootingKeeps ==
    ASSUME Regular, Booting, Next, ~failed'
    PROVE  \/ Booting'
           \/ \E h \in Token, a \in App : Here(State', h, a) /\ State'.threads[h].life = "NONE"
<1>1. /\ list = <<>> /\ threads = <<>> /\ nativeQ = <<>>
      /\ amsQ \in {<<[id |-> "initialize"]>>, <<>>}
  BY StateFields DEF Booting, Off
<1>2. OnFeatureInitialize
  <2>1. amsQ # <<>> => Head(amsQ).id = "initialize"
    BY <1>1
  <2>2. ~HandleRequest /\ ~HandleDone
    BY <2>1 DEF HandleRequest, HandleDone, ServiceReady
  <2>3. ~NativeAppTask /\ ~\E t \in DOMAIN threads : JsAppTask(t)
    BY <1>1 DEF NativeAppTask
  <2>4. ~\E m \in Requests : ClientStart(m) \/ ClientTerminate(m) \/ ClientForceStop(m)
    BY <1>1 DEF ClientStart, ClientTerminate, ClientForceStop, Request
  <2>. QED
    BY <2>2, <2>3, <2>4 DEF Next, Service
<1>. DEFINE z == [State EXCEPT !.amsQ = Tail(@)]
<1>3. PICK fails \in Failures, garbage \in Mission \cup {Unset} :
         Serve(StartLauncher(z, fails, garbage))
  BY <1>2 DEF OnFeatureInitialize
<1>4. Tail(amsQ) = <<>>
  <2>1. amsQ # <<>>
    BY <1>2 DEF OnFeatureInitialize, ServiceReady
  <2>2. \A y : Tail(<<y>>) = <<>>
    OBVIOUS
  <2>. QED
    BY <1>1, <2>1, <2>2
<1>5. Same(State, z, {"amsQ"}) /\ z.amsQ = <<>>
  BY <1>4, StateFields DEF Same, Fields
<1>. HIDE DEF z
<1>6. Off(z)
  BY <1>5 DEF Booting, Off, Same, Fields
<1>. DEFINE r == StartLauncher(z, {}, garbage)
<1>7. Commit(r)
  <2>. DEFINE R(f) == StartLauncher(z, f, garbage)
  <2>1. Held(z) /\ ~z.scheduling
    BY <1>6 DEF Held, Off
  <2>2. R(fails) = R({}) \/ R(fails).failed = TRUE
    BY <2>1, LauncherFails
  <2>3. Serve(R(fails)) /\ R({}) = r
    BY <1>3
  <2>. HIDE DEF R, r
  <2>4. R(fails).failed = failed'
    BY <2>3 DEF Serve, Commit
  <2>. QED
    BY <2>2, <2>3, <2>4 DEF Serve
<1>8. CASE Startup \in Unknown
  <2>1. Off(r) /\ r.amsQ = <<>>
    BY <1>5, <1>6, <1>8, LauncherUnknown
  <2>. HIDE DEF r
  <2>2. Same(r, State', {})
    BY <1>7, CommitSame
  <2>3. Off(State') /\ State'.amsQ = <<>>
    BY <2>1, <2>2 DEF Off, Same, Fields
  <2>4. amsQ' = <<>>
    BY <1>7, <2>1 DEF Commit
  <2>. QED
    BY <2>3, <2>4 DEF Booting
<1>9. CASE Startup \notin Unknown
  <2>1. /\ r.scheduling /\ Going(r, LauncherToken, Startup)
        /\ r.threads[LauncherToken].life = "NONE"
    BY <1>5, <1>6, <1>9, LauncherStarted
  <2>. HIDE DEF r
  <2>2. Same(r, State', {})
    BY <1>7, CommitSame
  <2>3. LauncherToken \in Token /\ Startup \in App
    BY SliteAssumption DEF LauncherToken, Token
  <2>4. Served("NONE", r, LauncherToken, Startup)
    BY <2>1 DEF Served
  <2>5. PICK k \in Token, b \in App :
           Here(State', k, b) /\ Moved(LauncherToken, Startup, "NONE", k, b, State'.threads[k].life)
    BY <2>2, <2>3, <2>4, ServedSame
  <2>6. State'.threads = r.threads
    BY <2>2 DEF Same, Fields
  <2>7. k = LauncherToken
    BY <2>5 DEF Moved
  <2>. QED
    BY <2>1, <2>5, <2>6, <2>7
<1>. QED
  BY <1>8, <1>9

\* Every step of the system.
LEMMA StepKeeps ==
    ASSUME Regular, NEW h \in Token, NEW a \in App, Here(State, h, a), tokens < TokenLimit, Next,
           ~failed'
    PROVE  \E k \in Token, b \in App :
              /\ Here(State', k, b)
              /\ Moved(h, a, State.threads[h].life, k, b, State'.threads[k].life)
<1>1. CASE OnFeatureInitialize
  <2>1. amsQ # <<>> /\ Head(amsQ).id = "initialize"
    BY <1>1 DEF OnFeatureInitialize, ServiceReady
  <2>2. On(State, h, a)
    BY DEF Here, Rest, Going, Stuck
  <2>3. Head(amsQ) \in Queued
    BY <2>1, <2>2, Taken, StateFields
  <2>4. Head(amsQ).id # "initialize"
    BY <2>3 DEF Queued, Allowed, Operation, Report
  <2>. QED
    BY <2>1, <2>4
<1>2. CASE HandleRequest
  BY <1>2, HandleRequestKeeps
<1>3. CASE HandleDone
  BY <1>3, HandleDoneKeeps
<1>4. CASE (\E x \in DOMAIN threads : JsAppTask(x)) \/ NativeAppTask
  <2>1. Here(State', h, a) /\ Called(State.threads[h].life, State'.threads[h].life)
    BY <1>4, CallbackKeeps
  <2>. QED
    BY <2>1 DEF Moved
<1>5. CASE \E m \in Requests : ClientStart(m) \/ ClientTerminate(m) \/ ClientForceStop(m)
  <2>1. PICK m \in Requests : Request(m)
    BY <1>5 DEF ClientStart, ClientTerminate, ClientForceStop
  <2>2. Here(State', h, a) /\ State'.threads = State.threads
    BY <2>1, RequestKeeps
  <2>. QED
    BY <2>2 DEF Moved
<1>. QED
  BY <1>1, <1>2, <1>3, <1>4, <1>5 DEF Next, Service

\* A step in which nothing happens.
LEMMA StutterKeeps ==
    ASSUME UNCHANGED vars
    PROVE  State' = State /\ amsQ' = amsQ
BY DEF vars, State

\* What the theorems are about: behaviours, or beginnings of behaviours, up to the
\* task that cannot be created and the token that comes round.
Undisturbed == tokens < TokenLimit /\ ~failed

\* The service is booting, or one ability has the task: between switches it is
\* the one on top, in the foreground, and during a switch exactly one message
\* or report of that switch is on its way, or its report was dropped by a full
\* queue and the switch never ends.
THEOREM SliteInvariance ==
    ASSUME Regular
    PROVE  Spec /\ []Undisturbed => []IInv
<1>1. Init => IInv
  BY InitBoots DEF IInv
<1>2. ASSUME IInv, Undisturbed, Undisturbed', [Next]_vars PROVE IInv'
  <2>1. CASE UNCHANGED vars
    BY <2>1, <1>2, StutterKeeps DEF IInv, Booting
  <2>2. CASE Next /\ Booting
    BY <1>2, <2>2, BootingKeeps DEF IInv, Undisturbed
  <2>3. CASE Next /\ \E h \in Token, a \in App : Here(State, h, a)
    BY <1>2, <2>3, StepKeeps DEF IInv, Undisturbed
  <2>. QED
    BY <1>2, <2>1, <2>2, <2>3 DEF IInv
<1>. QED
  BY <1>1, <1>2, PTL DEF Spec

-----------------------------------------------------------------------------
(* What the invariant says.                                                *)

\* OnTheWay counts what the stages of a switch say.
LEMMA OnMessage ==
    ASSUME NEW h \in Token, NEW a \in App, On(State, h, a)
    PROVE  /\ Quiet(State, h) => OnTheWay = 0
           /\ \A id, life : Asked(State, h, id, life) => OnTheWay = 1
           /\ \A life : Answered(State, h, life) => OnTheWay = 1
<1>. DEFINE I == UNION {{t} \X DOMAIN threads[t].inbox : t \in DOMAIN threads}
<1>1. DOMAIN threads = {h}
  BY StateFields DEF On, Alone
<1>2. I = {h} \X DOMAIN threads[h].inbox
  BY <1>1
<1>3. OnTheWay = Cardinality(Reports) + Len(nativeQ) + Cardinality(I)
  BY DEF OnTheWay
<1>4. Cardinality({}) = 0 /\ \A y : Cardinality({y}) = 1
  BY FS_EmptySet, FS_Singleton
<1>5. Len(<<>>) = 0 /\ DOMAIN <<>> = {} /\ \A y : Len(<<y>>) = 1 /\ DOMAIN <<y>> = {1}
  OBVIOUS
<1>. HIDE DEF I
<1>6. /\ Sent(threads, nativeQ, h, <<>>) => Len(nativeQ) = 0 /\ Cardinality(I) = 0
      /\ \A m : Sent(threads, nativeQ, h, <<m>>) =>
                  \/ Len(nativeQ) = 1 /\ Cardinality(I) = 0
                  \/ Len(nativeQ) = 0 /\ Cardinality(I) = 1
  <2>1. threads[h].inbox = <<>> => I = {}
    BY <1>2, <1>5
  <2>2. \A m : threads[h].inbox = <<m>> => I = {<<h, 1>>}
    BY <1>2, <1>5
  <2>3. Sent(threads, nativeQ, h, <<>>) => nativeQ = <<>> /\ threads[h].inbox = <<>>
    BY DEF Sent
  <2>4. \A m : Sent(threads, nativeQ, h, <<m>>) =>
                  \/ nativeQ = <<m>> /\ threads[h].inbox = <<>>
                  \/ nativeQ = <<>> /\ threads[h].inbox = <<m>>
    BY DEF Sent
  <2>5. threads[h].inbox = <<>> => Cardinality(I) = 0
    BY <1>4, <2>1
  <2>6. \A m : threads[h].inbox = <<m>> => Cardinality(I) = 1
    BY <1>4, <2>2
  <2>. QED
    BY <1>5, <2>3, <2>4, <2>5, <2>6
<1>7. NoReport(amsQ) => Cardinality(Reports) = 0
  <2>1. NoReport(amsQ) => Reports = {}
    BY DEF NoReport, Reports
  <2>. QED
    BY <1>4, <2>1
<1>8. ASSUME NEW m, m.id = "done", OneReport(amsQ, m) PROVE Cardinality(Reports) = 1
  <2>1. PICK k \in DOMAIN amsQ : amsQ[k] = m /\ \A i \in DOMAIN amsQ : i # k => amsQ[i].id # "done"
    BY <1>8 DEF OneReport
  <2>2. Reports = {k}
    BY <1>8, <2>1 DEF Reports
  <2>. QED
    BY <1>4, <2>2
<1>9. Quiet(State, h) => OnTheWay = 0
  BY <1>3, <1>6, <1>7, StateFields DEF Quiet
<1>10. ASSUME NEW id, NEW life, Asked(State, h, id, life) PROVE OnTheWay = 1
  <2>1. PICK b \in BOOLEAN : Sent(threads, nativeQ, h, <<[id |-> id, token |-> h, saved |-> b]>>)
    BY <1>10, StateFields DEF Asked
  <2>2. Cardinality(Reports) = 0
    BY <1>7, <1>10, StateFields DEF Asked
  <2>3. \/ Len(nativeQ) = 1 /\ Cardinality(I) = 0
        \/ Len(nativeQ) = 0 /\ Cardinality(I) = 1
    BY <1>6, <2>1
  <2>4. CASE Len(nativeQ) = 1 /\ Cardinality(I) = 0
    BY <1>3, <2>2, <2>4
  <2>5. CASE Len(nativeQ) = 0 /\ Cardinality(I) = 1
    BY <1>3, <2>2, <2>5
  <2>. QED
    BY <2>3, <2>4, <2>5
<1>11. ASSUME NEW life, Answered(State, h, life) PROVE OnTheWay = 1
  <2>1. Report(h, life).id = "done"
    BY DEF Report
  <2>2. Cardinality(Reports) = 1
    BY <1>8, <1>11, <2>1, StateFields DEF Answered
  <2>3. Len(nativeQ) = 0 /\ Cardinality(I) = 0
    BY <1>6, <1>11, StateFields DEF Answered
  <2>. QED
    BY <1>3, <2>2, <2>3
<1>. QED
  BY <1>9, <1>10, <1>11

\* The numbers and queues have their types, and the list stays within its
\* capacity.
LEMMA TypesHold == IInv => SliteTypeOK
<1>1. ASSUME Booting PROVE SliteTypeOK
  <2>1. /\ QueueSize \in Nat \ {0} /\ Capacity \in Nat \ {0} /\ TokenLimit \in Nat \ {0}
        /\ MissionLimit \in Nat \ {0}
    BY SliteAssumption
  <2>2. list = <<>> /\ threads = <<>> /\ pending = 0 /\ tokens = 0 /\ missions = 0
        /\ scheduling = FALSE
    BY <1>1, StateFields DEF Booting, Off
  <2>3. Len(amsQ) <= QueueSize
    <3>1. Len(amsQ) \in {0, 1}
      BY <1>1 DEF Booting
    <3>. QED
      BY <2>1, <3>1
  <2>4. list \in Seq(RecordType) /\ Len(list) <= Capacity /\ DOMAIN threads \subseteq Token
    BY <2>1, <2>2
  <2>5. pending \in Token /\ tokens \in 0..TokenLimit /\ missions \in 0..MissionLimit
    BY <2>1, <2>2 DEF Token
  <2>. QED
    BY <2>2, <2>3, <2>4, <2>5 DEF SliteTypeOK
<1>2. ASSUME NEW h \in Token, NEW a \in App, Here(State, h, a) PROVE SliteTypeOK
  <2>1. On(State, h, a)
    BY <1>2 DEF Here, Rest, Going, Stuck
  <2>2. Typed(State) /\ Listed(State.list, State.tokens) /\ DOMAIN threads = {h}
    BY <2>1, StateFields DEF On, Alone
  <2>3. missions \in 0..MissionLimit
    BY <2>2, StateFields, SliteAssumption DEF Typed, Mission
  <2>. QED
    BY <2>2, <2>3, StateFields DEF Typed, Listed, Distinct, SliteTypeOK
<1>. QED
  BY <1>1, <1>2 DEF IInv

\* Typed has dangling = FALSE.
LEMMA NothingDangles == IInv => NoDangling
<1>1. Booting => NoDangling
  BY StateFields DEF Booting, Off, NoDangling
<1>2. ASSUME NEW h \in Token, NEW a \in App, Here(State, h, a) PROVE NoDangling
  BY <1>2, StateFields DEF Here, Rest, Going, Stuck, On, Typed, NoDangling
<1>. QED
  BY <1>1, <1>2 DEF IInv

\* Listed has the home screen, On the one thread.
LEMMA HomeStays == IInv => OneTaskBesideHome
<1>1. ASSUME Booting PROVE OneTaskBesideHome
  <2>1. list = <<>> /\ tokens = 0 /\ DOMAIN threads = {}
    BY <1>1, StateFields DEF Booting, Off
  <2>2. Cardinality(DOMAIN threads) = 0
    BY <2>1, FS_EmptySet
  <2>. QED
    BY <2>1, <2>2 DEF OneTaskBesideHome, LauncherStays, OneThread
<1>2. ASSUME NEW h \in Token, NEW a \in App, Here(State, h, a) PROVE OneTaskBesideHome
  <2>1. On(State, h, a)
    BY <1>2 DEF Here, Rest, Going, Stuck
  <2>2. Listed(list, tokens) /\ DOMAIN threads = {h}
    BY <2>1, StateFields DEF On, Alone
  <2>3. Cardinality(DOMAIN threads) = 1
    BY <2>2, FS_Singleton
  <2>4. Has(list, LauncherToken)
    BY <2>2, Members DEF Listed
  <2>. QED
    BY <2>3, <2>4 DEF OneTaskBesideHome, LauncherStays, OneThread
<1>. QED
  BY <1>1, <1>2 DEF IInv

\* The stages of a switch have one message or report each.
LEMMA MessagesSerial == IInv => OneMessage
<1>1. ASSUME Booting PROVE OneMessage
  <2>1. threads = <<>> /\ nativeQ = <<>> /\ scheduling = FALSE
        /\ amsQ \in {<<[id |-> "initialize"]>>, <<>>}
    BY <1>1, StateFields DEF Booting, Off
  <2>2. Reports = {}
    BY <2>1 DEF Reports
  <2>3. UNION {{t} \X DOMAIN threads[t].inbox : t \in DOMAIN threads} = {}
    BY <2>1
  <2>4. OnTheWay = 0
    BY <2>1, <2>2, <2>3, FS_EmptySet DEF OnTheWay
  <2>. QED
    BY <2>1, <2>4 DEF OneMessage
<1>2. ASSUME NEW h \in Token, NEW a \in App, Here(State, h, a) PROVE OneMessage
  <2>1. CASE Rest(State, h, a) /\ ~scheduling
    <3>1. On(State, h, a) /\ Quiet(State, h)
      BY <2>1 DEF Rest
    <3>2. OnTheWay = 0
      BY <3>1, OnMessage
    <3>. QED
      BY <2>1, <3>2 DEF OneMessage
  <2>2. CASE Going(State, h, a)
    <3>1. /\ On(State, h, a)
          /\ (\E id, life : Asked(State, h, id, life)) \/ \E life : Answered(State, h, life)
      BY <2>2 DEF Going, Leaving, Coming
    <3>2. OnTheWay = 1
      BY <3>1, OnMessage
    <3>. QED
      BY <3>2 DEF OneMessage
  <2>3. CASE Stuck(State, h, a)
    <3>1. On(State, h, a) /\ Quiet(State, h) /\ lost
      BY <2>3, StateFields DEF Stuck
    <3>2. OnTheWay = 0
      BY <3>1, OnMessage
    <3>. QED
      BY <3>1, <3>2 DEF OneMessage
  <2>. QED
    BY <1>2, <2>1, <2>2, <2>3, StateFields DEF Here
<1>. QED
  BY <1>1, <1>2 DEF IInv

\* At rest the ability on top has the task and is in the foreground.
LEMMA TopAgrees == Regular /\ IInv => SettledTop
<1>1. ASSUME IInv, Settled PROVE \E h \in Token, a \in App : Rest(State, h, a)
  <2>1. ~Booting
    BY <1>1, StateFields DEF Settled, Booting, Off
  <2>. QED
    BY <1>1, <2>1, StateFields DEF IInv, Here, Settled
<1>2. ASSUME NEW h \in Token, NEW a \in App, Rest(State, h, a) PROVE SettledTop
  <2>1. /\ Listed(list, tokens) /\ Alone(list, threads, async, h, a)
        /\ list[1].token = h /\ threads[h].life = "FOREGROUND"
        /\ \A q \in Of(list) : q.token = h => q.state = "FOREGROUND"
    BY <1>2, StateFields DEF Rest, On
  <2>2. list # <<>> /\ 1 \in DOMAIN list /\ list[1] \in Of(list) /\ DOMAIN list = 1..Len(list)
    BY <2>1, First
  <2>3. list[1].state = "FOREGROUND"
    BY <2>1, <2>2
  <2>4. GetTopAbility(list) = {list[1].app}
    BY <2>2, <2>3 DEF GetTopAbility
  <2>5. DOMAIN threads = {h}
    BY <2>1 DEF Alone
  <2>6. async = IF list[1].native THEN NoToken ELSE h
    <3>1. list[1].native = threads[h].native
      BY <1>2, <2>1, <2>2, Runner, StateFields DEF Rest
    <3>. QED
      BY <2>1, <3>1 DEF Alone
  <2>7. ASSUME NEW i \in 2..Len(list) PROVE list[i].state = "STOP" /\ ~list[i].thread
    <3>1. i \in DOMAIN list /\ i # 1 /\ list[i] \in Of(list)
      BY <2>2 DEF Of
    <3>2. list[i].token # h
      BY <2>1, <2>2, <3>1 DEF Listed, Distinct
    <3>. QED
      BY <2>1, <3>1, <3>2 DEF Alone
  <2>. QED
    BY <2>1, <2>3, <2>4, <2>5, <2>6, <2>7 DEF SettledTop
<1>. QED
  BY <1>1, <1>2 DEF SettledTop

\* On relates list and observer.
LEMMA ObserverKnows == IInv => ObserverAgrees
<1>1. ASSUME Booting PROVE ObserverAgrees
  BY <1>1, StateFields DEF Booting, Off, ObserverAgrees
<1>2. ASSUME NEW h \in Token, NEW a \in App, Here(State, h, a), NEW b \in App,
             seen[b] \notin {"NONE", "GONE"}
      PROVE  IF HasApp(list, b) THEN GetApp(list, b).state = seen[b] ELSE seen[b] = "STOP"
  <2>1. On(State, h, a)
    BY <1>2 DEF Here, Rest, Going, Stuck
  <2>2. Distinct(list, tokens) /\ Watched(list, seen)
    BY <2>1, StateFields DEF On, Listed
  <2>3. CASE HasApp(list, b)
    <3>1. PICK q \in Of(list) : q.app = b
      BY <2>2, <2>3, Members
    <3>2. GetApp(list, q.app) = q
      BY <2>2, Members
    <3>3. seen[q.app] \in {"NONE", "GONE", q.state}
      BY <2>2 DEF Watched
    <3>. QED
      BY <1>2, <2>3, <3>1, <3>2, <3>3
  <2>4. CASE ~HasApp(list, b)
    <3>1. \A q \in Of(list) : q.app # b
      BY <2>2, <2>4, Members
    <3>2. seen[b] \in {"NONE", "GONE", "STOP"}
      BY <2>2, <3>1 DEF Watched
    <3>. QED
      BY <1>2, <2>4, <3>2
  <2>. QED
    BY <2>3, <2>4
<1>. QED
  BY <1>1, <1>2 DEF IInv, ObserverAgrees

-----------------------------------------------------------------------------
(* The abilities get the callbacks module OneAbility promises.             *)

\* Abilities, of a state of the service.
AbilitiesOf(s) ==
    {[app |-> Get(s.list, t).app, life |-> s.threads[t].life] :
        t \in {u \in DOMAIN s.threads : Has(s.list, u)}}

\* It has one element, or none while the service boots.
LEMMA OneAbilityOn ==
    ASSUME NEW s, NEW h, NEW a, Here(s, h, a)
    PROVE  AbilitiesOf(s) = {[app |-> a, life |-> s.threads[h].life]}
<1>1. On(s, h, a)
  BY DEF Here, Rest, Going, Stuck
<1>2. DOMAIN s.threads = {h}
  BY <1>1 DEF On, Alone
<1>3. PICK q \in Of(s.list) : q.token = h
  BY <1>1 DEF On, Alone
<1>4. Has(s.list, h) /\ Get(s.list, h).app = a
  BY <1>1, <1>3, Runner
<1>. QED
  BY <1>2, <1>4 DEF AbilitiesOf

\* While the service boots there is no ability.
LEMMA NoAbilityOff ==
    ASSUME NEW s, Off(s)
    PROVE  AbilitiesOf(s) = {}
BY DEF Off, AbilitiesOf

\* The refinement mapping reads the threads alone.
LEMMA AbilitiesState ==
    Abilities = AbilitiesOf(State) /\ Abilities' = AbilitiesOf(State')
BY DEF Abilities, AbilitiesOf, State

\* Every move of the invariant is a step of OneAbility or none.
LEMMA MovedStep ==
    ASSUME NEW h, NEW a \in App, NEW x, NEW k, NEW b \in App, NEW y, Moved(h, a, x, k, b, y),
           Abilities = {[app |-> a, life |-> x]}, Abilities' = {[app |-> b, life |-> y]}
    PROVE  Promise!Next \/ UNCHANGED Abilities
<1>1. CASE k = h /\ b = a /\ y = x
  BY <1>1
<1>2. CASE k = h /\ b = a /\ Called(x, y)
  <2>1. Promise!OnCallback(x, y)
    BY <1>2 DEF Promise!OnCallback
  <2>. QED
    BY <1>2, <2>1 DEF Called, Promise!Next, Promise!OnCreate, Promise!OnForeground,
                      Promise!OnBackground, Promise!OnDestroy
<1>3. CASE y = "NONE" /\ x \in {"FOREGROUND", "UNINITIALIZED"}
  <2>1. Promise!Launch(b)
    BY <1>3 DEF Promise!Launch
  <2>. QED
    BY <2>1 DEF Promise!Next
<1>. QED
  BY <1>1, <1>2, <1>3 DEF Moved

\* The first state maps to the first state.
LEMMA InitPromised == Init => Promise!Init
<1>1. Init => Off(State)
  BY InitBoots DEF Booting
<1>. QED
  BY <1>1, NoAbilityOff, AbilitiesState DEF Promise!Init

\* Every step of the service is a step of OneAbility or none.
LEMMA StepPromised ==
    ASSUME Regular, IInv, Undisturbed, Undisturbed', [Next]_vars
    PROVE  [Promise!Next]_Abilities
<1>1. CASE UNCHANGED vars
  BY <1>1, StutterKeeps, AbilitiesState
<1>2. CASE Next /\ Booting
  <2>1. Abilities = {}
    BY <1>2, NoAbilityOff, AbilitiesState DEF Booting
  <2>2. CASE Booting'
    <3>1. Off(State')
      BY <2>2 DEF Booting
    <3>2. Abilities' = {}
      BY <3>1, NoAbilityOff, AbilitiesState
    <3>. QED
      BY <2>1, <3>2
  <2>3. CASE \E h \in Token, a \in App : Here(State', h, a) /\ State'.threads[h].life = "NONE"
    <3>1. PICK h \in Token, a \in App : Here(State', h, a) /\ State'.threads[h].life = "NONE"
      BY <2>3
    <3>2. Abilities' = {[app |-> a, life |-> "NONE"]}
      BY <3>1, OneAbilityOn, AbilitiesState
    <3>3. Promise!Launch(a)
      BY <2>1, <3>2 DEF Promise!Launch
    <3>. QED
      BY <3>3 DEF Promise!Next
  <2>. QED
    BY <1>2, <2>2, <2>3, BootingKeeps DEF Undisturbed
<1>3. CASE Next /\ \E h \in Token, a \in App : Here(State, h, a)
  <2>1. PICK h \in Token, a \in App : Here(State, h, a)
    BY <1>3
  <2>2. PICK k \in Token, b \in App :
           /\ Here(State', k, b)
           /\ Moved(h, a, State.threads[h].life, k, b, State'.threads[k].life)
    BY <1>3, <2>1, StepKeeps DEF Undisturbed
  <2>3. /\ Abilities = {[app |-> a, life |-> State.threads[h].life]}
        /\ Abilities' = {[app |-> b, life |-> State'.threads[k].life]}
    BY <2>1, <2>2, OneAbilityOn, AbilitiesState
  <2>4. Promise!Next \/ UNCHANGED Abilities
    BY <2>2, <2>3, MovedStep
  <2>. QED
    BY <2>4
<1>. QED
  BY <1>1, <1>2, <1>3 DEF IInv

\* The service implements OneAbility: whatever is requested or deleted, whichever
\* ability but the home screen is forced to stop and whichever reports are
\* dropped, one ability exists at a time and gets OnCreate, OnForeground,
\* OnBackground and OnDestroy in this order, none skipped or repeated.
THEOREM PromiseKept ==
    ASSUME Regular
    PROVE  Spec /\ []Undisturbed => KeepsPromise
<1>1. Init => Promise!Init
  BY InitPromised
<1>2. IInv /\ Undisturbed /\ Undisturbed' /\ [Next]_vars => [Promise!Next]_Abilities
  BY StepPromised
<1>3. Spec /\ []Undisturbed => []IInv
  BY SliteInvariance
<1>. QED
  BY <1>1, <1>2, <1>3, PTL DEF Spec, KeepsPromise, Promise!Spec

\* Numbers, queues and the list of records stay within their types and limits.
THEOREM SliteTypes ==
    ASSUME Regular
    PROVE  Spec /\ []Undisturbed => []SliteTypeOK
BY SliteInvariance, TypesHold, PTL

\* No handler and no task ever uses a deleted record, thread or saved data, in
\* whatever order abilities are started, terminated and evicted, and whichever of
\* them but the home screen is forced to stop.
THEOREM SliteNoDangling ==
    ASSUME Regular
    PROVE  Spec /\ []Undisturbed => []NoDangling
BY SliteInvariance, NothingDangles, PTL

\* The home screen stays in the list, and the tasks of abilities never overlap.
THEOREM SliteOneTask ==
    ASSUME Regular
    PROVE  Spec /\ []Undisturbed => []OneTaskBesideHome
BY SliteInvariance, HomeStays, PTL

\* At most one lifecycle message or report is on its way, and exactly one while
\* the service holds operations back, until a full queue drops a report.
THEOREM SliteOneMessage ==
    ASSUME Regular
    PROVE  Spec /\ []Undisturbed => []OneMessage
BY SliteInvariance, MessagesSerial, PTL

\* Between switches the list, the tasks, the asynchronous work queue and what
\* GetTopAbility answers agree on the ability in the foreground.
THEOREM SliteSettledTop ==
    ASSUME Regular
    PROVE  Spec /\ []Undisturbed => []SettledTop
<1>1. IInv => SettledTop
  BY TopAgrees
<1>. QED
  BY <1>1, SliteInvariance, PTL

\* What the observer was last told of a bundle is what the list says.
THEOREM SliteObserver ==
    ASSUME Regular
    PROVE  Spec /\ []Undisturbed => []ObserverAgrees
BY SliteInvariance, ObserverKnows, PTL
=============================================================================

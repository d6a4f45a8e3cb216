---------------------------- MODULE WantsProofs ----------------------------
(***************************************************************************)
(* Theorems about the journey of a Want of module Wants, for every set of  *)
(* parameters and of allocations that fail, every number of starts, calls  *)
(* and messages: every block of memory has one owner, a Want arrives with  *)
(* nothing of another one in it, a start is answered once at most, and the *)
(* bytes of a client's Want are the parameters it has set.                 *)
(***************************************************************************)
EXTENDS Wants, FiniteSetTheorems, SequenceTheorems, WellFoundedInduction, TLAPS

-----------------------------------------------------------------------------
(* The memory of one call.                                                 *)

Fields == {"heap", "fails", "calls", "want", "got", "ok", "bad"}

HeapTyped(h) ==
    /\ h = [b \in DOMAIN h |-> h[b]]
    /\ DOMAIN h \subseteq Nat \ {0}
    /\ IsFiniteSet(DOMAIN h)

\* The pointers of a Want point to different blocks.
Whole(w) ==
    /\ w \in Want
    /\ w.element # 0 => w.element \notin {w.sid, w.data}
    /\ w.sid # 0 => w.sid # w.data

\* A call has freed nothing twice, and beside the blocks of its Want there are
\* the blocks F.
Holds(m, F) ==
    /\ DOMAIN m = Fields
    /\ m.bad = FALSE
    /\ HeapTyped(m.heap)
    /\ Whole(m.want)
    /\ DOMAIN m.heap = F \cup Pointers(m.want)
    /\ F \cap Pointers(m.want) = {}

\* The blocks F are as in the heap h.
Keeps(m, h, F) == \A b \in F : m.heap[b] = h[b]

\* A Want in the heap h holds an element of E, data of D and an identity of S,
\* as far as it holds anything.
Contents(h, w, E, D, S) ==
    /\ w.element # 0 => h[w.element] \in E
    /\ w.data # 0 => h[w.data] \in D
    /\ w.sid # 0 => h[w.sid] \in S

Measured(w) == w.data = 0 => w.dataLength = 0

-----------------------------------------------------------------------------
(* Blocks.                                                                 *)

\* There is a number no block has.
LEMMA FreshBlock ==
    ASSUME NEW U, IsFiniteSet(U)
    PROVE  LET b == CHOOSE x \in 1..(Cardinality(U) + 1) : x \notin U
           IN  b \in Nat \ {0} /\ b \notin U
<1>1. Cardinality(U) \in Nat
  BY FS_CardinalityType
<1>. DEFINE I == 1..(Cardinality(U) + 1)
<1>2. IsFiniteSet(I) /\ Cardinality(I) = Cardinality(U) + 1
  BY <1>1, FS_Interval
<1>3. \E x \in I : x \notin U
  <2>. SUFFICES ASSUME I \subseteq U PROVE FALSE
    OBVIOUS
  <2>1. Cardinality(I) <= Cardinality(U)
    BY FS_Subset
  <2>. QED BY <2>1, <1>1, <1>2
<1>. QED BY <1>1, <1>3

\* Malloc gives nothing, or a new block with the content.
LEMMA MallocGives ==
    ASSUME NEW m, NEW F, Holds(m, F), NEW c
    PROVE  LET r == Malloc(m, c)
           IN  /\ r.want = m.want /\ r.ok = m.ok
               /\ \A b \in DOMAIN m.heap : r.heap[b] = m.heap[b]
               /\ \/ r.got = 0 /\ r.heap = m.heap /\ Holds(r, F)
                  \/ /\ r.got \in Nat \ {0} /\ r.got \notin DOMAIN m.heap
                     /\ r.heap[r.got] = c
                     /\ Holds(r, F \cup {r.got})
<1>. DEFINE r == Malloc(m, c)
           U == DOMAIN m.heap
           b == CHOOSE x \in 1..(Cardinality(U) + 1) : x \notin U
<1>1. b \in Nat \ {0} /\ b \notin U
  BY FreshBlock DEF Holds, HeapTyped
<1>2. CASE m.calls + 1 \in m.fails
  BY <1>2 DEF Malloc, Holds, Fields
<1>3. CASE m.calls + 1 \notin m.fails
  <2>1. /\ DOMAIN r = Fields
        /\ r.want = m.want /\ r.ok = m.ok /\ r.bad = m.bad /\ r.got = b
        /\ r.heap = [x \in U \cup {b} |-> IF x = b THEN c ELSE m.heap[x]]
    BY <1>3 DEF Malloc, Holds, Fields
  <2>2. HeapTyped(r.heap)
    <3>1. IsFiniteSet(U) /\ U \subseteq Nat \ {0}
      BY DEF Holds, HeapTyped
    <3>2. IsFiniteSet(U \cup {b})
      BY <3>1, FS_AddElement
    <3>3. DOMAIN r.heap = U \cup {b} /\ r.heap = [x \in U \cup {b} |-> r.heap[x]]
      BY <2>1
    <3>. HIDE DEF r, U, b
    <3>. QED BY <3>1, <3>2, <3>3, <1>1 DEF HeapTyped
  <2>. HIDE DEF r
  <2>3. Holds(r, F \cup {r.got})
    BY <1>1, <2>1, <2>2 DEF Holds
  <2>. QED BY <1>1, <2>1, <2>3 DEF r
<1>. QED BY <1>2, <1>3

\* A block that is there is freed, nothing else.
LEMMA FreeBlock ==
    ASSUME NEW m, DOMAIN m = Fields, HeapTyped(m.heap), NEW b \in DOMAIN m.heap
    PROVE  LET r == Free(m, b)
           IN  /\ DOMAIN r = Fields
               /\ r.want = m.want /\ r.ok = m.ok /\ r.got = m.got /\ r.bad = m.bad
               /\ DOMAIN r.heap = DOMAIN m.heap \ {b}
               /\ \A x \in DOMAIN m.heap \ {b} : r.heap[x] = m.heap[x]
               /\ HeapTyped(r.heap)
<1>. DEFINE r == Free(m, b)
<1>1. b # 0
  BY DEF HeapTyped
<1>2. /\ DOMAIN r = Fields
      /\ r.want = m.want /\ r.ok = m.ok /\ r.bad = m.bad /\ r.got = m.got
      /\ r.heap = [x \in DOMAIN m.heap \ {b} |-> m.heap[x]]
  BY <1>1 DEF Free, Fields
<1>3. HeapTyped(r.heap)
  <2>. DEFINE U == DOMAIN m.heap
  <2>1. IsFiniteSet(U) /\ U \subseteq Nat \ {0}
    BY DEF HeapTyped
  <2>2. IsFiniteSet(U \ {b})
    BY <2>1, FS_RemoveElement
  <2>3. DOMAIN r.heap = U \ {b} /\ r.heap = [x \in U \ {b} |-> r.heap[x]]
    BY <1>2
  <2>. HIDE DEF r, U
  <2>. QED BY <2>1, <2>2, <2>3 DEF HeapTyped
<1>. HIDE DEF r
<1>. QED BY <1>2, <1>3 DEF r

\* A block that is not of the Want is freed.
LEMMA FreeTakes ==
    ASSUME NEW m, NEW F, Holds(m, F), NEW b \in F
    PROVE  LET r == Free(m, b)
           IN  /\ r.want = m.want /\ r.ok = m.ok /\ r.got = m.got
               /\ \A x \in DOMAIN m.heap \ {b} : r.heap[x] = m.heap[x]
               /\ Holds(r, F \ {b})
<1>. DEFINE r == Free(m, b)
<1>1. b \in DOMAIN m.heap
  BY DEF Holds
<1>2. /\ DOMAIN r = Fields
      /\ r.want = m.want /\ r.ok = m.ok /\ r.got = m.got /\ r.bad = m.bad
      /\ DOMAIN r.heap = DOMAIN m.heap \ {b}
      /\ \A x \in DOMAIN m.heap \ {b} : r.heap[x] = m.heap[x]
      /\ HeapTyped(r.heap)
  BY <1>1, FreeBlock DEF Holds
<1>. HIDE DEF r
<1>3. Holds(r, F \ {b})
  BY <1>2 DEF Holds
<1>. QED BY <1>2, <1>3 DEF r

WithWant(m, w) == [m EXCEPT !.want = w]

\* One pointer of a Want is freed; the block it points to goes with it.
LEMMA FreePointer ==
    ASSUME NEW m, NEW F, Holds(m, F), NEW w \in Want, NEW b \in Pointers(m.want) \cup {0},
           Whole(w), Pointers(w) = Pointers(m.want) \ {b}
    PROVE  LET r == WithWant(Free(m, b), w)
           IN  /\ r.want = w /\ r.ok = m.ok
               /\ \A x \in DOMAIN r.heap : r.heap[x] = m.heap[x]
               /\ Holds(r, F)
<1>. DEFINE r == WithWant(Free(m, b), w)
<1>1. CASE b = 0
  <2>1. Free(m, b) = m
    BY <1>1 DEF Free
  <2>2. DOMAIN r = Fields /\ r.want = w /\ r.ok = m.ok /\ r.bad = m.bad /\ r.heap = m.heap
    BY <2>1 DEF Holds, Fields, WithWant
  <2>3. Pointers(w) = Pointers(m.want)
    BY <1>1 DEF Pointers
  <2>. QED BY <2>2, <2>3 DEF Holds
<1>2. CASE b # 0
  <2>. DEFINE r0 == Free(m, b)
  <2>1. b \in DOMAIN m.heap
    BY <1>2 DEF Holds
  <2>2. /\ DOMAIN r0 = Fields
        /\ r0.want = m.want /\ r0.ok = m.ok /\ r0.got = m.got /\ r0.bad = m.bad
        /\ DOMAIN r0.heap = DOMAIN m.heap \ {b}
        /\ \A x \in DOMAIN m.heap \ {b} : r0.heap[x] = m.heap[x]
        /\ HeapTyped(r0.heap)
    BY <2>1, FreeBlock DEF Holds
  <2>. HIDE DEF r0
  <2>3. DOMAIN r = Fields /\ r.want = w /\ r.ok = r0.ok /\ r.bad = r0.bad /\ r.heap = r0.heap
    BY <2>2 DEF r0, Fields, WithWant
  <2>4. DOMAIN r.heap = F \cup Pointers(w) /\ F \cap Pointers(w) = {}
    BY <1>2, <2>2, <2>3 DEF Holds
  <2>5. HeapTyped(r.heap) /\ \A x \in DOMAIN r.heap : r.heap[x] = m.heap[x]
    BY <2>2, <2>3
  <2>6. r.bad = FALSE /\ r.ok = m.ok
    BY <2>2, <2>3 DEF Holds
  <2>7. Holds(r, F)
    BY <2>3, <2>4, <2>5, <2>6 DEF Holds
  <2>. QED BY <2>3, <2>5, <2>6, <2>7
<1>. QED BY <1>1, <1>2


LEMMA FreeElementTakes ==
    ASSUME NEW m, NEW F, Holds(m, F)
    PROVE  LET r == FreeElement(m)
           IN  /\ r.want = [m.want EXCEPT !.element = 0] /\ r.ok = m.ok
               /\ \A x \in DOMAIN r.heap : r.heap[x] = m.heap[x]
               /\ Holds(r, F)
<1>. DEFINE w == [m.want EXCEPT !.element = 0]
            b == m.want.element
            r == WithWant(Free(m, b), w)
<1>1. m.want \in Want /\ Whole(m.want)
  BY DEF Holds, Whole
<1>2. /\ w \in Want /\ Whole(w)
      /\ b \in Pointers(m.want) \cup {0}
      /\ Pointers(w) = Pointers(m.want) \ {b}
  BY <1>1 DEF Whole, Want, Pointers
<1>3. Free(m, b).want = m.want
  BY <1>2, FreeBlock DEF Holds, Free
<1>4. FreeElement(m) = r
  BY <1>3 DEF FreeElement, WithWant
<1>. HIDE DEF w, b
<1>6. /\ r.want = w /\ r.ok = m.ok
      /\ \A x \in DOMAIN r.heap : r.heap[x] = m.heap[x]
      /\ Holds(r, F)
  BY <1>2, FreePointer
<1>. QED BY <1>4, <1>6 DEF w

LEMMA FreeSidTakes ==
    ASSUME NEW m, NEW F, Holds(m, F)
    PROVE  LET r == FreeSid(m)
           IN  /\ r.want = [m.want EXCEPT !.sid = 0] /\ r.ok = m.ok
               /\ \A x \in DOMAIN r.heap : r.heap[x] = m.heap[x]
               /\ Holds(r, F)
<1>. DEFINE w == [m.want EXCEPT !.sid = 0]
            b == m.want.sid
            r == WithWant(Free(m, b), w)
<1>1. m.want \in Want /\ Whole(m.want)
  BY DEF Holds, Whole
<1>2. /\ w \in Want /\ Whole(w)
      /\ b \in Pointers(m.want) \cup {0}
      /\ Pointers(w) = Pointers(m.want) \ {b}
  BY <1>1 DEF Whole, Want, Pointers
<1>3. Free(m, b).want = m.want
  BY <1>2, FreeBlock DEF Holds, Free
<1>4. FreeSid(m) = r
  BY <1>3 DEF FreeSid, WithWant
<1>. HIDE DEF w, b
<1>6. /\ r.want = w /\ r.ok = m.ok
      /\ \A x \in DOMAIN r.heap : r.heap[x] = m.heap[x]
      /\ Holds(r, F)
  BY <1>2, FreePointer
<1>. QED BY <1>4, <1>6 DEF w

LEMMA FreeDataTakes ==
    ASSUME NEW m, NEW F, Holds(m, F)
    PROVE  LET r == FreeData(m)
           IN  /\ r.want = [m.want EXCEPT !.data = 0] /\ r.ok = m.ok
               /\ \A x \in DOMAIN r.heap : r.heap[x] = m.heap[x]
               /\ Holds(r, F)
<1>. DEFINE w == [m.want EXCEPT !.data = 0]
            b == m.want.data
            r == WithWant(Free(m, b), w)
<1>1. m.want \in Want /\ Whole(m.want)
  BY DEF Holds, Whole
<1>2. /\ w \in Want /\ Whole(w)
      /\ b \in Pointers(m.want) \cup {0}
      /\ Pointers(w) = Pointers(m.want) \ {b}
  BY <1>1 DEF Whole, Want, Pointers
<1>3. Free(m, b).want = m.want
  BY <1>2, FreeBlock DEF Holds, Free
<1>4. FreeData(m) = r
  BY <1>3 DEF FreeData, WithWant
<1>. HIDE DEF w, b
<1>6. /\ r.want = w /\ r.ok = m.ok
      /\ \A x \in DOMAIN r.heap : r.heap[x] = m.heap[x]
      /\ Holds(r, F)
  BY <1>2, FreePointer
<1>. QED BY <1>4, <1>6 DEF w

\* A Want that is cleared points to nothing, the other blocks stay.
LEMMA ClearWantTakes ==
    ASSUME NEW m, NEW F, Holds(m, F)
    PROVE  LET r == ClearWant(m)
           IN  /\ Pointers(r.want) = {} /\ r.ok = m.ok
               /\ \A x \in F : r.heap[x] = m.heap[x]
               /\ Holds(r, F)
               /\ DOMAIN r.heap = F /\ HeapTyped(r.heap) /\ r.bad = FALSE
<1>. DEFINE m1 == FreeElement(m)
            m2 == FreeSid(m1)
            r == FreeData(m2)
<1>0. ClearWant(m) = r
  BY DEF ClearWant
<1>1. /\ m1.want = [m.want EXCEPT !.element = 0] /\ m1.ok = m.ok
      /\ \A x \in DOMAIN m1.heap : m1.heap[x] = m.heap[x]
      /\ Holds(m1, F)
  BY FreeElementTakes
<1>. HIDE DEF m1
<1>2. /\ m2.want = [m1.want EXCEPT !.sid = 0] /\ m2.ok = m1.ok
      /\ \A x \in DOMAIN m2.heap : m2.heap[x] = m1.heap[x]
      /\ Holds(m2, F)
  BY <1>1, FreeSidTakes
<1>. HIDE DEF m2
<1>3. /\ r.want = [m2.want EXCEPT !.data = 0] /\ r.ok = m2.ok
      /\ \A x \in DOMAIN r.heap : r.heap[x] = m2.heap[x]
      /\ Holds(r, F)
  BY <1>2, FreeDataTakes
<1>. HIDE DEF r
<1>4. F \subseteq DOMAIN m1.heap /\ F \subseteq DOMAIN m2.heap /\ F \subseteq DOMAIN r.heap
  BY <1>1, <1>2, <1>3 DEF Holds
<1>5. m.want \in Want
  BY DEF Holds, Whole
<1>6. r.want.element = 0 /\ r.want.sid = 0 /\ r.want.data = 0
  BY <1>1, <1>2, <1>3, <1>5 DEF Want
<1>7. Pointers(r.want) = {}
  BY <1>6 DEF Pointers
<1>8. DOMAIN r.heap = F /\ HeapTyped(r.heap) /\ r.bad = FALSE
  BY <1>3, <1>7 DEF Holds
<1>. QED BY <1>0, <1>1, <1>2, <1>3, <1>4, <1>7, <1>8


\* The identity is replaced; if there is no memory for it, it is missing.
LEMMA SetWantSvcIdentityGives ==
    ASSUME NEW m, NEW F, Holds(m, F), NEW sid, NEW E, NEW D, NEW S,
           Contents(m.heap, m.want, E, D, S), Measured(m.want)
    PROVE  LET r == SetWantSvcIdentity(m, sid)
           IN  /\ Holds(r, F) /\ Keeps(r, m.heap, F)
               /\ Contents(r.heap, r.want, E, D, {sid}) /\ Measured(r.want)
               /\ r.want.element = m.want.element /\ r.want.data = m.want.data
               /\ r.want.dataLength = m.want.dataLength
<1>. DEFINE m1 == FreeSid(m)
            m2 == Malloc(m1, sid)
            r == TakeSid(m2)
<1>0. SetWantSvcIdentity(m, sid) = r
  BY DEF SetWantSvcIdentity
<1>1. /\ m1.want = [m.want EXCEPT !.sid = 0] /\ m1.ok = m.ok
      /\ \A x \in DOMAIN m1.heap : m1.heap[x] = m.heap[x]
      /\ Holds(m1, F)
  BY FreeSidTakes
<1>2. m.want \in Want /\ Whole(m.want)
  BY DEF Holds, Whole
<1>3. /\ m1.want \in Want /\ m1.want.sid = 0 /\ m1.want.element = m.want.element
      /\ m1.want.data = m.want.data /\ m1.want.dataLength = m.want.dataLength
      /\ F \cup Pointers(m1.want) = DOMAIN m1.heap
  BY <1>1, <1>2 DEF Want, Holds
<1>. HIDE DEF m1
<1>4. /\ m2.want = m1.want /\ m2.ok = m1.ok
      /\ \A b \in DOMAIN m1.heap : m2.heap[b] = m1.heap[b]
      /\ \/ m2.got = 0 /\ m2.heap = m1.heap /\ Holds(m2, F)
         \/ /\ m2.got \in Nat \ {0} /\ m2.got \notin DOMAIN m1.heap
            /\ m2.heap[m2.got] = sid
            /\ Holds(m2, F \cup {m2.got})
  BY <1>1, MallocGives
<1>. HIDE DEF m2
<1>5. /\ DOMAIN r = Fields /\ r.heap = m2.heap /\ r.bad = m2.bad
      /\ r.want = [m1.want EXCEPT !.sid = m2.got]
  BY <1>4 DEF TakeSid, Returns, Holds, Fields
<1>6. /\ r.want.sid = m2.got /\ r.want.element = m.want.element
      /\ r.want.data = m.want.data /\ r.want.dataLength = m.want.dataLength
  BY <1>3, <1>5 DEF Want
<1>7. Measured(r.want)
  BY <1>6 DEF Measured
<1>8. Keeps(r, m.heap, F)
  BY <1>1, <1>3, <1>4, <1>5 DEF Keeps
<1>9. Contents(r.heap, r.want, E, D, {sid})
  <2>1. r.want.sid # 0 => r.heap[r.want.sid] = sid
    BY <1>4, <1>5, <1>6
  <2>2. /\ r.want.element # 0 => r.want.element \in DOMAIN m1.heap
        /\ r.want.data # 0 => r.want.data \in DOMAIN m1.heap
    BY <1>3, <1>6 DEF Pointers
  <2>. QED BY <2>1, <2>2, <1>1, <1>4, <1>5, <1>6 DEF Contents
<1>10. Holds(r, F)
  <2>1. CASE m2.got = 0
    <3>1. Holds(m2, F) /\ r.want = m2.want
      BY <2>1, <1>3, <1>4, <1>5 DEF Want
    <3>. QED BY <3>1, <1>5 DEF Holds
  <2>2. CASE m2.got # 0
    <3>1. Holds(m2, F \cup {m2.got}) /\ m2.got \in Nat \ {0} /\ m2.got \notin DOMAIN m1.heap
      BY <2>2, <1>4
    <3>2. Pointers(r.want) = Pointers(m1.want) \cup {m2.got}
      BY <3>1, <1>3, <1>6 DEF Pointers
    <3>3. /\ DOMAIN m2.heap = (F \cup {m2.got}) \cup Pointers(m1.want)
          /\ F \cap Pointers(m1.want) = {} /\ HeapTyped(m2.heap) /\ m2.bad = FALSE
      BY <3>1, <1>4 DEF Holds
    <3>4. Whole(r.want)
      <4>1. Whole(m1.want)
        BY <1>1 DEF Holds
      <4>2. m2.got \notin Pointers(m1.want)
        BY <3>1, <1>3
      <4>. QED BY <4>1, <4>2, <3>1, <1>3, <1>5 DEF Whole, Want, Pointers
    <3>5. F \cap Pointers(r.want) = {} /\ DOMAIN r.heap = F \cup Pointers(r.want)
      BY <3>1, <3>2, <3>3, <1>3, <1>5
    <3>. QED BY <3>3, <3>4, <3>5, <1>5 DEF Holds
  <2>. QED BY <2>1, <2>2
<1>. QED BY <1>0, <1>6, <1>7, <1>8, <1>9, <1>10


\* Memdup gives nothing, or a new block with the data.
LEMMA MemdupGives ==
    ASSUME NEW m, NEW F, Holds(m, F), NEW data
    PROVE  LET r == Memdup(m, data)
           IN  /\ r.want = m.want
               /\ \A b \in DOMAIN m.heap : r.heap[b] = m.heap[b]
               /\ \/ r.got = 0 /\ r.heap = m.heap /\ Holds(r, F)
                  \/ /\ r.got \in Nat \ {0} /\ r.got \notin DOMAIN m.heap
                     /\ r.heap[r.got] = data
                     /\ Holds(r, F \cup {r.got})
<1>1. CASE data = <<>>
  BY <1>1 DEF Memdup, Holds, Fields
<1>2. CASE data # <<>>
  <2>. DEFINE r == Malloc(m, data)
  <2>1. Memdup(m, data) = r
    BY <1>2 DEF Memdup
  <2>2. /\ r.want = m.want /\ r.ok = m.ok
        /\ \A b \in DOMAIN m.heap : r.heap[b] = m.heap[b]
        /\ \/ r.got = 0 /\ r.heap = m.heap /\ Holds(r, F)
           \/ /\ r.got \in Nat \ {0} /\ r.got \notin DOMAIN m.heap
              /\ r.heap[r.got] = data
              /\ Holds(r, F \cup {r.got})
    BY MallocGives
  <2>. HIDE DEF r
  <2>. QED BY <2>1, <2>2, <1>2
<1>. QED BY <1>1, <1>2

\* The data are replaced; if there are none or no memory for them, they are
\* missing.
LEMMA SetWantDataGives ==
    ASSUME NEW m, NEW F, Holds(m, F), NEW data \in Seq(Nat), NEW E, NEW D, NEW S,
           Contents(m.heap, m.want, E, D, S)
    PROVE  LET r == SetWantData(m, data)
           IN  /\ Holds(r, F) /\ Keeps(r, m.heap, F)
               /\ Contents(r.heap, r.want, E, {data}, S) /\ Measured(r.want)
               /\ r.want.element = m.want.element /\ r.want.sid = m.want.sid
               /\ data = <<>> => r.want.data = 0
               /\ r.want.data # 0 => r.want.dataLength = Len(data)
<1>. DEFINE m1 == FreeData(m)
<1>1. /\ m1.want = [m.want EXCEPT !.data = 0] /\ m1.ok = m.ok
      /\ \A x \in DOMAIN m1.heap : m1.heap[x] = m.heap[x]
      /\ Holds(m1, F)
  BY FreeDataTakes
<1>2. m.want \in Want /\ Whole(m.want)
  BY DEF Holds, Whole
<1>. HIDE DEF m1
<1>3. /\ m1.want \in Want /\ m1.want.data = 0 /\ m1.want.element = m.want.element
      /\ m1.want.sid = m.want.sid
      /\ F \cup Pointers(m1.want) = DOMAIN m1.heap
  <2>1. F \cup Pointers(m1.want) = DOMAIN m1.heap
    BY <1>1 DEF Holds
  <2>2. /\ m1.want \in Want /\ m1.want.data = 0 /\ m1.want.element = m.want.element
        /\ m1.want.sid = m.want.sid
    BY <1>1, <1>2 DEF Want
  <2>. QED BY <2>1, <2>2
<1>. DEFINE m2 == Memdup(m1, data)
<1>4. /\ m2.want = m1.want
      /\ \A b \in DOMAIN m1.heap : m2.heap[b] = m1.heap[b]
      /\ \/ m2.got = 0 /\ m2.heap = m1.heap /\ Holds(m2, F)
         \/ /\ m2.got \in Nat \ {0} /\ m2.got \notin DOMAIN m1.heap
            /\ m2.heap[m2.got] = data
            /\ Holds(m2, F \cup {m2.got})
  BY <1>1, MemdupGives
<1>40. data = <<>> => m2.got = 0
  <2>1. CASE data = <<>>
    BY <2>1, <1>1 DEF Memdup, Holds, Fields
  <2>. QED BY <2>1
<1>. HIDE DEF m2
<1>50. Len(data) \in Nat
  OBVIOUS
<1>51. DOMAIN m2 = Fields /\ m2.want \in Want
  BY <1>3, <1>4 DEF Holds
<1>. DEFINE m3 == Returns(m2, m2.got # 0)
            n  == IF m2.got = 0 THEN 0 ELSE Len(data)
            r  == [m3 EXCEPT !.want.data = m2.got, !.want.dataLength = n]
<1>52. DOMAIN m3 = Fields /\ m3.want = m2.want /\ m3.heap = m2.heap /\ m3.bad = m2.bad /\ m3.got = m2.got
  BY <1>51 DEF Returns, Fields
<1>. HIDE DEF m3
<1>0. SetWantData(m, data) = r
  BY <1>52 DEF SetWantData, m1, m2, m3
<1>. HIDE DEF n
<1>5. DOMAIN r = Fields /\ r.heap = m2.heap /\ r.bad = m2.bad
  BY <1>52 DEF Fields
<1>6. /\ r.want.data = m2.got /\ r.want.element = m.want.element
      /\ r.want.sid = m.want.sid /\ r.want \in Want
      /\ r.want.dataLength = n
  <2>1. r.want = [m2.want EXCEPT !.data = m2.got, !.dataLength = n]
    BY <1>52 DEF Fields
  <2>2. m2.got \in Nat /\ n \in Nat
    BY <1>4, <1>50 DEF n
  <2>. HIDE DEF r
  <2>. QED BY <2>1, <2>2, <1>3, <1>4 DEF Want
<1>60. r.want.data # 0 => r.want.dataLength = Len(data)
  BY <1>6 DEF n
<1>. HIDE DEF r
<1>7. Measured(r.want)
  BY <1>6 DEF Measured, n
<1>8. Keeps(r, m.heap, F)
  BY <1>1, <1>3, <1>4, <1>5 DEF Keeps
<1>9. Contents(r.heap, r.want, E, {data}, S)
  <2>1. r.want.data # 0 => r.heap[r.want.data] = data
    BY <1>4, <1>5, <1>6
  <2>2. /\ r.want.element # 0 => r.want.element \in DOMAIN m1.heap
        /\ r.want.sid # 0 => r.want.sid \in DOMAIN m1.heap
    BY <1>3, <1>6 DEF Pointers
  <2>. QED BY <2>1, <2>2, <1>1, <1>4, <1>5, <1>6 DEF Contents
<1>10. Holds(r, F)
  <2>1. CASE m2.got = 0
    <3>1. Holds(m2, F) /\ Pointers(r.want) = Pointers(m2.want)
      BY <2>1, <1>3, <1>4, <1>6 DEF Pointers
    <3>2. Whole(r.want)
      BY <3>1, <2>1, <1>3, <1>4, <1>6 DEF Holds, Whole
    <3>. QED BY <3>1, <3>2, <1>5 DEF Holds
  <2>2. CASE m2.got # 0
    <3>1. Holds(m2, F \cup {m2.got}) /\ m2.got \in Nat \ {0} /\ m2.got \notin DOMAIN m1.heap
      BY <2>2, <1>4
    <3>2. Pointers(r.want) = Pointers(m1.want) \cup {m2.got}
      BY <3>1, <1>3, <1>6 DEF Pointers
    <3>3. /\ DOMAIN m2.heap = (F \cup {m2.got}) \cup Pointers(m1.want)
          /\ F \cap Pointers(m1.want) = {} /\ HeapTyped(m2.heap) /\ m2.bad = FALSE
      BY <3>1, <1>4 DEF Holds
    <3>4. Whole(r.want)
      <4>1. Whole(m1.want)
        BY <1>1 DEF Holds
      <4>2. m2.got \notin Pointers(m1.want)
        BY <3>1, <1>3
      <4>. QED BY <4>1, <4>2, <3>1, <1>3, <1>6 DEF Whole, Pointers
    <3>5. F \cap Pointers(r.want) = {} /\ DOMAIN r.heap = F \cup Pointers(r.want)
      BY <3>1, <3>2, <3>3, <1>3, <1>5
    <3>. QED BY <3>3, <3>4, <3>5, <1>5 DEF Holds
  <2>. QED BY <2>1, <2>2
<1>. QED BY <1>0, <1>40, <1>6, <1>60, <1>7, <1>8, <1>9, <1>10


LEMMA StrdupGives ==
    ASSUME NEW m, DOMAIN m = Fields, NEW name
    PROVE  LET r == Strdup(m, name)
           IN  /\ DOMAIN r = Fields
               /\ r.heap = m.heap /\ r.want = m.want /\ r.bad = m.bad
               /\ r.got \in {name, None}
BY DEF Strdup, Fields

\* The element is replaced by a new block, whose names are filled in; if there
\* is no memory for it, it is missing.
LEMMA SetWantElementGives ==
    ASSUME NEW m, NEW F, Holds(m, F), NEW element, NEW E, NEW D, NEW S,
           Contents(m.heap, m.want, E, D, S), Measured(m.want)
    PROVE  LET r == SetWantElement(m, element)
           IN  /\ Holds(r, F) /\ Keeps(r, m.heap, F)
               /\ Contents(r.heap, r.want, Copies(element), D, S) /\ Measured(r.want)
               /\ r.want.data = m.want.data /\ r.want.sid = m.want.sid
               /\ r.want.dataLength = m.want.dataLength
               /\ r.ok => r.want.element # 0
<1>. DEFINE m1 == FreeElement(m)
<1>1. /\ m1.want = [m.want EXCEPT !.element = 0]
      /\ \A x \in DOMAIN m1.heap : m1.heap[x] = m.heap[x]
      /\ Holds(m1, F)
  BY FreeElementTakes
<1>2. m.want \in Want /\ Whole(m.want)
  BY DEF Holds, Whole
<1>. HIDE DEF m1
<1>3. /\ m1.want \in Want /\ m1.want.element = 0 /\ m1.want.sid = m.want.sid
      /\ m1.want.data = m.want.data /\ m1.want.dataLength = m.want.dataLength
      /\ F \cup Pointers(m1.want) = DOMAIN m1.heap
  <2>1. F \cup Pointers(m1.want) = DOMAIN m1.heap
    BY <1>1 DEF Holds
  <2>2. /\ m1.want \in Want /\ m1.want.element = 0 /\ m1.want.sid = m.want.sid
        /\ m1.want.data = m.want.data /\ m1.want.dataLength = m.want.dataLength
    BY <1>1, <1>2 DEF Want
  <2>. QED BY <2>1, <2>2
<1>. DEFINE c == NoName
<1>. HIDE DEF c
<1>. DEFINE m2 == Malloc(m1, c)
<1>4. /\ m2.want = m1.want /\ m2.ok = m1.ok
      /\ \A b \in DOMAIN m1.heap : m2.heap[b] = m1.heap[b]
      /\ \/ m2.got = 0 /\ m2.heap = m1.heap /\ Holds(m2, F)
         \/ /\ m2.got \in Nat \ {0} /\ m2.got \notin DOMAIN m1.heap
            /\ m2.heap[m2.got] = c
            /\ Holds(m2, F \cup {m2.got})
  BY <1>1, MallocGives
<1>. HIDE DEF m2
<1>5. Keeps(m2, m.heap, F) /\ Contents(m2.heap, m1.want, Copies(element), D, S)
  <2>1. /\ m1.want.sid # 0 => m1.want.sid \in DOMAIN m1.heap
        /\ m1.want.data # 0 => m1.want.data \in DOMAIN m1.heap
    BY <1>3 DEF Pointers
  <2>. QED BY <2>1, <1>1, <1>3, <1>4 DEF Keeps, Contents
<1>6. CASE m2.got = 0
  <2>. DEFINE r == Returns(m2, FALSE)
  <2>1. SetWantElement(m, element) = r
    BY <1>6 DEF SetWantElement, m1, m2, c
  <2>2. Holds(m2, F)
    BY <1>4, <1>6
  <2>3. /\ DOMAIN r = Fields /\ r.heap = m2.heap /\ r.bad = m2.bad
        /\ r.want = m2.want /\ r.ok = FALSE
    BY <2>2 DEF Returns, Fields, Holds
  <2>. HIDE DEF r
  <2>4. Holds(r, F)
    BY <2>2, <2>3 DEF Holds
  <2>5. Measured(r.want)
    BY <2>3, <1>3, <1>4 DEF Measured
  <2>6. Keeps(r, m.heap, F) /\ Contents(r.heap, r.want, Copies(element), D, S)
    BY <2>3, <1>4, <1>5 DEF Keeps
  <2>. QED BY <2>1, <2>3, <2>4, <2>5, <2>6, <1>3, <1>4
<1>7. CASE m2.got # 0
  <2>. DEFINE b == m2.got
              m3 == Strdup(m2, element.device)
              m4 == Strdup(m3, element.bundle)
              m5 == Strdup(m4, element.ability)
              e == [device |-> m3.got, bundle |-> m4.got, ability |-> m5.got]
              m6 == Returns(m5, TRUE)
              r == [m6 EXCEPT !.want.element = b, !.heap[b] = e]
  <2>1. SetWantElement(m, element) = r
    BY <1>7 DEF SetWantElement, m1, m2, c
  <2>2. Holds(m2, F \cup {b}) /\ b \in Nat \ {0} /\ b \notin DOMAIN m1.heap
    BY <1>4, <1>7
  <2>. HIDE DEF b
  <2>3. /\ DOMAIN m3 = Fields
        /\ m3.heap = m2.heap /\ m3.want = m2.want /\ m3.bad = m2.bad
        /\ m3.got \in {element.device, None}
    BY <2>2, StrdupGives DEF Holds
  <2>. HIDE DEF m3
  <2>4. /\ DOMAIN m4 = Fields
        /\ m4.heap = m2.heap /\ m4.want = m2.want /\ m4.bad = m2.bad
        /\ m4.got \in {element.bundle, None}
    BY <2>3, StrdupGives
  <2>. HIDE DEF m4
  <2>5. /\ DOMAIN m5 = Fields
        /\ m5.heap = m2.heap /\ m5.want = m2.want /\ m5.bad = m2.bad
        /\ m5.got \in {element.ability, None}
    BY <2>4, StrdupGives
  <2>. HIDE DEF m5
  <2>6. e \in Copies(element)
    BY <2>3, <2>4, <2>5 DEF Copies
  <2>. HIDE DEF e
  <2>7. /\ DOMAIN m6 = Fields /\ m6.heap = m2.heap /\ m6.want = m2.want
        /\ m6.bad = m2.bad /\ m6.ok = TRUE
    BY <2>5 DEF Returns, Fields
  <2>. HIDE DEF m6
  <2>8. /\ DOMAIN r = Fields /\ r.bad = m2.bad
        /\ r.heap = [m2.heap EXCEPT ![b] = e]
        /\ r.want = [m2.want EXCEPT !.element = b]
    BY <2>7 DEF Fields
  <2>. HIDE DEF r
  <2>9. /\ r.want.element = b /\ r.want.sid = m.want.sid /\ r.want.data = m.want.data
        /\ r.want.dataLength = m.want.dataLength /\ r.want \in Want
    BY <2>8, <2>2, <1>3, <1>4 DEF Want
  <2>10. /\ DOMAIN m2.heap = (F \cup {b}) \cup Pointers(m1.want)
         /\ (F \cup {b}) \cap Pointers(m1.want) = {} /\ HeapTyped(m2.heap) /\ m2.bad = FALSE
    BY <2>2, <1>4 DEF Holds
  <2>11. /\ DOMAIN r.heap = DOMAIN m2.heap /\ r.heap[b] = e
         /\ \A x \in DOMAIN m1.heap : r.heap[x] = m2.heap[x]
         /\ r.heap = [x \in DOMAIN r.heap |-> r.heap[x]]
    BY <2>2, <2>8, <2>10
  <2>12. HeapTyped(r.heap)
    BY <2>10, <2>11 DEF HeapTyped
  <2>13. Pointers(r.want) = Pointers(m1.want) \cup {b}
    BY <2>2, <2>9, <1>3 DEF Pointers
  <2>14. Whole(r.want)
    <3>1. Whole(m1.want) /\ b \notin Pointers(m1.want)
      BY <1>1, <2>10 DEF Holds
    <3>. QED BY <3>1, <2>2, <2>9, <1>3 DEF Whole, Pointers
  <2>15. Holds(r, F)
    <3>1. F \cap Pointers(r.want) = {} /\ DOMAIN r.heap = F \cup Pointers(r.want)
      BY <2>2, <2>10, <2>11, <2>13, <1>3
    <3>. QED BY <3>1, <2>8, <2>10, <2>12, <2>14 DEF Holds
  <2>16. Keeps(r, m.heap, F)
    BY <2>11, <1>3, <1>5 DEF Keeps
  <2>17. Contents(r.heap, r.want, Copies(element), D, S)
    <3>1. /\ m1.want.sid # 0 => m1.want.sid \in DOMAIN m1.heap
          /\ m1.want.data # 0 => m1.want.data \in DOMAIN m1.heap
      BY <1>3 DEF Pointers
    <3>. QED BY <3>1, <2>6, <2>9, <2>11, <1>3, <1>5 DEF Contents
  <2>18. Measured(r.want)
    BY <2>9 DEF Measured
  <2>. QED BY <2>1, <2>2, <2>9, <2>15, <2>16, <2>17, <2>18
<1>. QED BY <1>6, <1>7


-----------------------------------------------------------------------------
(* A Want that is copied, and one that is read from a message.             *)

LEMMA CallHolds ==
    ASSUME NEW h, HeapTyped(h), NEW w, Whole(w), Pointers(w) \subseteq DOMAIN h, NEW fails
    PROVE  LET m == Call(h, w, fails)
           IN  /\ Holds(m, DOMAIN h \ Pointers(w))
               /\ m.heap = h /\ m.want = w /\ m.ok = TRUE
<1>. DEFINE m == Call(h, w, fails)
<1>1. /\ DOMAIN m = Fields /\ m.heap = h /\ m.want = w /\ m.ok = TRUE /\ m.bad = FALSE
  BY DEF Call, Fields
<1>. HIDE DEF m
<1>. QED BY <1>1 DEF Holds, m

LEMMA NoWantWhole == Whole(NoWant) /\ Pointers(NoWant) = {} /\ Measured(NoWant)
BY DEF Whole, Want, NoWant, Pointers, Measured

\* The copy has what the Want has, as far as there was memory.
LEMMA CopyWantGives ==
    ASSUME NEW m, NEW F, Holds(WithWant(m, NoWant), F), DOMAIN m = Fields,
           NEW want, want.element # 0, Pointers(want) \subseteq F,
           NEW E, NEW D \in SUBSET Seq(Nat), NEW S, Contents(m.heap, want, E, D, S)
    PROVE  LET r == CopyWant(m, want)
           IN  /\ Holds(r, F) /\ Keeps(r, m.heap, F)
               /\ Contents(r.heap, r.want, Copies(m.heap[want.element]), D, S)
               /\ Measured(r.want)
<1>. DEFINE m0 == WithWant(m, NoWant)
<1>1. m0.heap = m.heap /\ m0.want = NoWant /\ Holds(m0, F)
  BY DEF WithWant, Fields
<1>0. m0 = [m EXCEPT !.want = NoWant]
  BY DEF WithWant
<1>. HIDE DEF m0
<1>2. Contents(m0.heap, m0.want, E, {}, {}) /\ Measured(m0.want)
  BY <1>1, NoWantWhole DEF Contents, NoWant
<1>. DEFINE e == m.heap[want.element]
            m1 == SetWantElement(m0, e)
<1>3. /\ Holds(m1, F) /\ Keeps(m1, m0.heap, F)
      /\ Contents(m1.heap, m1.want, Copies(e), {}, {}) /\ Measured(m1.want)
      /\ m1.want.data = m0.want.data /\ m1.want.sid = m0.want.sid
  BY <1>1, <1>2, SetWantElementGives
<1>. HIDE DEF e, m1
<1>. DEFINE d == IF want.data = 0 THEN <<>> ELSE m.heap[want.data]
            m2 == SetWantData(m1, d)
<1>4. d \in Seq(Nat) /\ (d # <<>> => d \in D)
  BY DEF Contents
<1>. HIDE DEF d
<1>5. /\ Holds(m2, F) /\ Keeps(m2, m1.heap, F)
      /\ Contents(m2.heap, m2.want, Copies(e), {d}, {}) /\ Measured(m2.want)
      /\ m2.want.element = m1.want.element /\ m2.want.sid = m1.want.sid
      /\ d = <<>> => m2.want.data = 0
  BY <1>3, <1>4, SetWantDataGives
<1>. HIDE DEF m2
<1>6. Contents(m2.heap, m2.want, Copies(e), D, {}) /\ m2.want.sid = 0
  BY <1>1, <1>3, <1>4, <1>5 DEF Contents, NoWant
<1>7. Keeps(m2, m.heap, F)
  BY <1>1, <1>3, <1>5 DEF Keeps
<1>8. CASE want.sid = 0
  <2>1. CopyWant(m, want) = m2
    BY <1>8, <1>0 DEF CopyWant, m1, m2, e, d
  <2>2. Contents(m2.heap, m2.want, Copies(e), D, S)
    BY <1>6 DEF Contents
  <2>. QED BY <2>1, <2>2, <1>5, <1>7 DEF e
<1>9. CASE want.sid # 0
  <2>. DEFINE s == m.heap[want.sid]
              m3 == SetWantSvcIdentity(m2, s)
  <2>1. CopyWant(m, want) = m3
    BY <1>9, <1>0 DEF CopyWant, m1, m2, e, d
  <2>2. s \in S
    BY <1>9 DEF Contents
  <2>. HIDE DEF s
  <2>3. /\ Holds(m3, F) /\ Keeps(m3, m2.heap, F)
        /\ Contents(m3.heap, m3.want, Copies(e), D, {s}) /\ Measured(m3.want)
        /\ m3.want.element = m2.want.element /\ m3.want.data = m2.want.data
    BY <1>5, <1>6, SetWantSvcIdentityGives
  <2>. HIDE DEF m3
  <2>4. Contents(m3.heap, m3.want, Copies(e), D, S)
    BY <2>2, <2>3 DEF Contents
  <2>5. Keeps(m3, m.heap, F)
    BY <2>3, <1>7 DEF Keeps
  <2>. QED BY <2>1, <2>3, <2>4, <2>5 DEF e
<1>. QED BY <1>8, <1>9


LEMMA ReadElementGives ==
    ASSUME NEW m, NEW F, Holds(m, F), m.want = NoWant, m.ok = TRUE, NEW element
    PROVE  LET r == ReadElement(m, element)
           IN  /\ Holds(r, F) /\ Keeps(r, m.heap, F)
               /\ Contents(r.heap, r.want, Copies(element), {}, {}) /\ Measured(r.want)
               /\ ~r.ok => Pointers(r.want) = {}
               /\ r.ok /\ element # None => r.want.element # 0
               /\ element = None => r.want.element = 0
<1>0. Contents(m.heap, m.want, {}, {}, {}) /\ Measured(m.want) /\ Keeps(m, m.heap, F)
  BY NoWantWhole DEF Contents, NoWant, Keeps
<1>1. CASE element = None
  <2>1. ReadElement(m, element) = m
    BY <1>1 DEF ReadElement
  <2>. QED BY <2>1, <1>0, <1>1 DEF Contents, NoWant
<1>2. CASE element # None
  <2>. DEFINE m1 == SetWantElement(m, element)
  <2>1. /\ Holds(m1, F) /\ Keeps(m1, m.heap, F)
        /\ Contents(m1.heap, m1.want, Copies(element), {}, {}) /\ Measured(m1.want)
        /\ m1.want.data = m.want.data /\ m1.want.sid = m.want.sid
        /\ m1.ok => m1.want.element # 0
    BY <1>0, SetWantElementGives
  <2>. HIDE DEF m1
  <2>2. CASE m1.ok /\ m1.heap[m1.want.element] = element
    <3>1. ReadElement(m, element) = m1
      BY <1>2, <2>2 DEF ReadElement, m1
    <3>. QED BY <3>1, <2>1, <2>2, <1>2
  <2>3. CASE ~(m1.ok /\ m1.heap[m1.want.element] = element)
    <3>. DEFINE m2 == FreeElement(m1)
                r == Returns(m2, FALSE)
    <3>1. ReadElement(m, element) = r
      BY <1>2, <2>3 DEF ReadElement, m1
    <3>2. /\ m2.want = [m1.want EXCEPT !.element = 0] /\ m2.ok = m1.ok
          /\ \A x \in DOMAIN m2.heap : m2.heap[x] = m1.heap[x]
          /\ Holds(m2, F)
      BY <2>1, FreeElementTakes
    <3>. HIDE DEF m2
    <3>3. /\ DOMAIN r = Fields /\ r.want = m2.want /\ r.heap = m2.heap /\ r.bad = m2.bad
          /\ r.ok = FALSE
      BY <3>2 DEF Returns, Holds, Fields
    <3>. HIDE DEF r
    <3>4. Holds(r, F)
      BY <3>2, <3>3 DEF Holds
    <3>5. m1.want \in Want
      BY <2>1 DEF Holds, Whole
    <3>6. /\ r.want.element = 0 /\ r.want.data = 0 /\ r.want.sid = 0
          /\ r.want.dataLength = m1.want.dataLength
      BY <3>2, <3>3, <3>5, <2>1 DEF Want, NoWant
    <3>7. Pointers(r.want) = {}
      BY <3>6 DEF Pointers
    <3>8. Measured(r.want)
      BY <3>6, <2>1 DEF Measured, NoWant
    <3>9. Contents(r.heap, r.want, Copies(element), {}, {})
      BY <3>6 DEF Contents
    <3>10. F \subseteq DOMAIN m2.heap
      BY <3>2 DEF Holds
    <3>11. Keeps(r, m.heap, F)
      BY <3>2, <3>3, <3>10, <2>1 DEF Keeps
    <3>. QED BY <3>1, <3>3, <3>4, <3>6, <3>7, <3>8, <3>9, <3>11
  <2>. QED BY <2>2, <2>3
<1>. QED BY <1>1, <1>2

\* What cannot be copied into the Want clears it.
LEMMA ClearedHolds ==
    ASSUME NEW m, NEW F, Holds(m, F), NEW h, Keeps(m, h, F)
    PROVE  LET r == Returns(ClearWant(m), FALSE)
           IN  Holds(r, F) /\ Keeps(r, h, F) /\ r.ok = FALSE /\ Pointers(r.want) = {}
<1>. DEFINE m1 == ClearWant(m)
            r  == Returns(m1, FALSE)
<1>1. /\ Pointers(m1.want) = {} /\ m1.ok = m.ok
      /\ \A x \in F : m1.heap[x] = m.heap[x]
      /\ Holds(m1, F)
      /\ DOMAIN m1.heap = F /\ HeapTyped(m1.heap) /\ m1.bad = FALSE
  BY ClearWantTakes
<1>. HIDE DEF m1
<1>2. /\ DOMAIN r = Fields /\ r.want = m1.want /\ r.heap = m1.heap /\ r.bad = m1.bad
      /\ r.ok = FALSE
  BY <1>1 DEF Returns, Holds, Fields
<1>. HIDE DEF r
<1>3. Holds(r, F)
  BY <1>1, <1>2 DEF Holds
<1>4. Keeps(r, h, F)
  BY <1>1, <1>2 DEF Keeps
<1>. QED BY <1>1, <1>2, <1>3, <1>4 DEF r, m1

\* The Want has what the message has, or nothing.
LEMMA DeserializeWantGives ==
    ASSUME NEW m, NEW F, Holds(m, F), m.want = NoWant, m.ok = TRUE,
           NEW io, io.data \in Seq(Nat)
    PROVE  LET r == DeserializeWant(m, io)
           IN  /\ Holds(r, F) /\ Keeps(r, m.heap, F)
               /\ r.ok => /\ Contents(r.heap, r.want, Copies(io.element), {io.data},
                                      {io.sid} \ {None})
                          /\ Measured(r.want)
                          /\ io.element # None => r.want.element # 0
                          /\ io.element = None => r.want.element = 0
                          /\ io.data = <<>> => r.want.data = 0
               /\ ~r.ok => Pointers(r.want) = {}
<1>. DEFINE m1 == ReadElement(m, io.element)
            E  == Copies(io.element)
<1>1. /\ Holds(m1, F) /\ Keeps(m1, m.heap, F)
      /\ Contents(m1.heap, m1.want, E, {}, {}) /\ Measured(m1.want)
      /\ ~m1.ok => Pointers(m1.want) = {}
      /\ m1.ok /\ io.element # None => m1.want.element # 0
      /\ io.element = None => m1.want.element = 0
  BY ReadElementGives
<1>. HIDE DEF m1, E
<1>. DEFINE s1 == SetWantData(m1, io.data)
            m2 == IF ~m1.ok \/ io.data = <<>> THEN m1
                  ELSE IF s1.ok THEN s1 ELSE Returns(ClearWant(s1), FALSE)
<1>2. /\ Holds(m2, F) /\ Keeps(m2, m.heap, F)
      /\ ~m2.ok => Pointers(m2.want) = {}
      /\ m2.ok => /\ Contents(m2.heap, m2.want, E, {io.data}, {}) /\ Measured(m2.want)
                  /\ io.element # None => m2.want.element # 0
                  /\ io.element = None => m2.want.element = 0
                  /\ io.data = <<>> => m2.want.data = 0
  <2>1. CASE ~m1.ok \/ io.data = <<>>
    <3>1. m2 = m1
      BY <2>1
    <3>2. m1.want.data = 0
      BY <1>1 DEF Contents
    <3>. HIDE DEF m2
    <3>3. Contents(m1.heap, m1.want, E, {io.data}, {})
      BY <1>1 DEF Contents
    <3>. QED BY <3>1, <3>2, <3>3, <1>1
  <2>2. CASE ~(~m1.ok \/ io.data = <<>>)
    <3>1. /\ Holds(s1, F) /\ Keeps(s1, m1.heap, F)
          /\ Contents(s1.heap, s1.want, E, {io.data}, {}) /\ Measured(s1.want)
          /\ s1.want.element = m1.want.element /\ s1.want.sid = m1.want.sid
          /\ io.data = <<>> => s1.want.data = 0
      BY <1>1, SetWantDataGives
    <3>. HIDE DEF s1
    <3>2. Keeps(s1, m.heap, F)
      BY <3>1, <1>1 DEF Keeps
    <3>3. CASE s1.ok
      <4>1. m2 = s1
        BY <2>2, <3>3
      <4>. HIDE DEF m2
      <4>. QED BY <4>1, <3>1, <3>2, <3>3, <2>2, <1>1
    <3>4. CASE ~s1.ok
      <4>. DEFINE r == Returns(ClearWant(s1), FALSE)
      <4>1. m2 = r
        BY <2>2, <3>4
      <4>2. Holds(r, F) /\ Keeps(r, m.heap, F) /\ r.ok = FALSE /\ Pointers(r.want) = {}
        BY <3>1, <3>2, ClearedHolds
      <4>. HIDE DEF m2, r
      <4>. QED BY <4>1, <4>2
    <3>. QED BY <3>3, <3>4
  <2>. QED BY <2>1, <2>2
<1>. HIDE DEF m2
<1>. DEFINE s2 == SetWantSvcIdentity(m2, io.sid)
            r  == IF ~m2.ok \/ io.sid = None THEN m2
                  ELSE IF s2.ok THEN s2 ELSE Returns(ClearWant(s2), FALSE)
<1>3. DeserializeWant(m, io) = r
  BY DEF DeserializeWant, m1, m2
<1>4. CASE ~m2.ok
  <2>1. r = m2
    BY <1>4
  <2>. HIDE DEF r
  <2>. QED BY <2>1, <1>2, <1>3, <1>4
<1>5. CASE m2.ok /\ io.sid = None
  <2>1. r = m2
    BY <1>5
  <2>. HIDE DEF r
  <2>2. Contents(m2.heap, m2.want, E, {io.data}, {io.sid} \ {None})
    BY <1>2, <1>5 DEF Contents
  <2>. QED BY <2>1, <2>2, <1>2, <1>3, <1>5 DEF E
<1>6. CASE m2.ok /\ io.sid # None
  <2>1. /\ Holds(s2, F) /\ Keeps(s2, m2.heap, F)
        /\ Contents(s2.heap, s2.want, E, {io.data}, {io.sid}) /\ Measured(s2.want)
        /\ s2.want.element = m2.want.element /\ s2.want.data = m2.want.data
    BY <1>2, <1>6, SetWantSvcIdentityGives
  <2>. HIDE DEF s2
  <2>2. Keeps(s2, m.heap, F)
    BY <2>1, <1>2 DEF Keeps
  <2>3. Contents(s2.heap, s2.want, E, {io.data}, {io.sid} \ {None})
    BY <2>1, <1>6 DEF Contents
  <2>4. CASE s2.ok
    <3>1. r = s2
      BY <1>6, <2>4
    <3>. HIDE DEF r
    <3>. QED BY <3>1, <2>1, <2>2, <2>3, <2>4, <1>2, <1>3, <1>6 DEF E
  <2>5. CASE ~s2.ok
    <3>. DEFINE c == Returns(ClearWant(s2), FALSE)
    <3>1. r = c
      BY <1>6, <2>5
    <3>2. Holds(c, F) /\ Keeps(c, m.heap, F) /\ c.ok = FALSE /\ Pointers(c.want) = {}
      BY <2>1, <2>2, ClearedHolds
    <3>. HIDE DEF r, c
    <3>. QED BY <3>1, <3>2, <1>3
  <2>. QED BY <2>4, <2>5
<1>. QED BY <1>4, <1>5, <1>6


-----------------------------------------------------------------------------
(* Parameters.                                                             *)

\* A block with the struct of a Tlv, and the block with its bytes.
TlvBlocks(h, t) == {t, h[t].entity}

TlvAt(h, t) ==
    /\ t \in Nat \ {0} /\ h[t].entity \in Nat \ {0}
    /\ t # h[t].entity
    /\ h[h[t].entity] \in Seq(Nat)
    /\ h[t].totalLen \in 0..Len(h[h[t].entity])

\* What EncapTlv makes of a value: its length is taken for one byte.
Cut(type, value) == SubSeq(Tlv(type, value), 1, UInt8(Len(value) + 2))

LEMMA TlvTyped ==
    ASSUME NEW type \in Nat, NEW value \in Seq(Nat)
    PROVE  /\ Tlv(type, value) \in Seq(Nat)
           /\ UInt8(Len(value) + 2) \in 0..Len(Tlv(type, value))
<1>1. <<type, Len(value)>> \in Seq(Nat) /\ Len(<<type, Len(value)>>) = 2
  OBVIOUS
<1>. DEFINE head == <<type, Len(value)>>
<1>. HIDE DEF head
<1>2. head \o value \in Seq(Nat) /\ Len(head \o value) = 2 + Len(value)
  BY <1>1 DEF head
<1>3. Tlv(type, value) = head \o value
  BY DEF Tlv, head
<1>4. UInt8(Len(value) + 2) \in 0..(2 + Len(value))
  BY DEF UInt8
<1>. QED BY <1>2, <1>3, <1>4

\* From m to r a Tlv with these bytes has come, in two new blocks, or nothing.
Encapped(r, m, F, bytes) ==
    /\ r.want = m.want
    /\ \A b \in DOMAIN m.heap : r.heap[b] = m.heap[b]
    /\ \/ r.got = 0 /\ Holds(r, F)
       \/ /\ TlvAt(r.heap, r.got)
          /\ TlvBlocks(r.heap, r.got) \cap DOMAIN m.heap = {}
          /\ Holds(r, F \cup TlvBlocks(r.heap, r.got))
          /\ Bytes(r, r.got) = bytes

\* EncapTlv leaves two new blocks or none.
LEMMA EncapTlvGives ==
    ASSUME NEW m, NEW F, Holds(m, F), NEW type \in Nat, NEW value \in Seq(Nat)
    PROVE  Encapped(EncapTlv(m, type, value), m, F, Cut(type, value))
<1>. DEFINE bytes == Tlv(type, value)
            n == UInt8(Len(value) + 2)
<1>1. bytes \in Seq(Nat) /\ n \in 0..Len(bytes)
  BY TlvTyped
<1>. HIDE DEF bytes, n
<1>. DEFINE m1 == Malloc(m, bytes)
<1>2. /\ m1.want = m.want /\ m1.ok = m.ok
      /\ \A b \in DOMAIN m.heap : m1.heap[b] = m.heap[b]
      /\ \/ m1.got = 0 /\ m1.heap = m.heap /\ Holds(m1, F)
         \/ /\ m1.got \in Nat \ {0} /\ m1.got \notin DOMAIN m.heap
            /\ m1.heap[m1.got] = bytes
            /\ Holds(m1, F \cup {m1.got})
  BY MallocGives
<1>. HIDE DEF m1
<1>3. CASE m1.got = 0
  <2>1. EncapTlv(m, type, value) = m1
    BY <1>3 DEF EncapTlv, m1, bytes
  <2>. QED BY <2>1, <1>2, <1>3 DEF Encapped
<1>4. CASE m1.got # 0
  <2>. DEFINE e == m1.got
              G == F \cup {e}
              c == [entity |-> e, totalLen |-> n]
              m2 == Malloc(m1, c)
  <2>1. Holds(m1, G) /\ e \in Nat \ {0} /\ e \notin DOMAIN m.heap /\ m1.heap[e] = bytes
    BY <1>2, <1>4
  <2>10. c.entity = e /\ c.totalLen = n
    OBVIOUS
  <2>11. e \in G /\ F = G \ {e}
    <3>1. F \subseteq DOMAIN m.heap
      BY DEF Holds
    <3>. QED BY <3>1, <2>1
  <2>. HIDE DEF e, c, G
  <2>2. /\ m2.want = m1.want /\ m2.ok = m1.ok
        /\ \A b \in DOMAIN m1.heap : m2.heap[b] = m1.heap[b]
        /\ \/ m2.got = 0 /\ m2.heap = m1.heap /\ Holds(m2, G)
           \/ /\ m2.got \in Nat \ {0} /\ m2.got \notin DOMAIN m1.heap
              /\ m2.heap[m2.got] = c
              /\ Holds(m2, G \cup {m2.got})
    BY <2>1, MallocGives
  <2>. HIDE DEF m2
  <2>3. e \in DOMAIN m1.heap /\ DOMAIN m.heap \subseteq DOMAIN m1.heap \ {e}
    <3>1. DOMAIN m.heap = F \cup Pointers(m.want)
      BY DEF Holds
    <3>2. DOMAIN m1.heap = G \cup Pointers(m.want)
      BY <2>1, <1>2 DEF Holds
    <3>. QED BY <3>1, <3>2, <2>1, <2>11
  <2>4. CASE m2.got = 0
    <3>. DEFINE r == Free(m2, e)
    <3>1. EncapTlv(m, type, value) = r
      BY <1>4, <2>4 DEF EncapTlv, m1, m2, bytes, c, e, n
    <3>2. Holds(m2, G) /\ m2.heap = m1.heap
      BY <2>2, <2>4
    <3>3. /\ r.want = m2.want /\ r.ok = m2.ok /\ r.got = m2.got
          /\ \A x \in DOMAIN m2.heap \ {e} : r.heap[x] = m2.heap[x]
          /\ Holds(r, G \ {e})
      BY <3>2, <2>11, FreeTakes
    <3>. HIDE DEF r
    <3>. QED BY <3>1, <3>2, <3>3, <2>2, <2>3, <2>4, <2>11, <1>2 DEF Encapped
  <2>5. CASE m2.got # 0
    <3>1. EncapTlv(m, type, value) = m2
      BY <1>4, <2>5 DEF EncapTlv, m1, m2, bytes, c, e, n
    <3>. DEFINE t == m2.got
    <3>2. /\ t \in Nat \ {0} /\ t \notin DOMAIN m1.heap /\ m2.heap[t] = c
          /\ Holds(m2, G \cup {t})
      BY <2>2, <2>5
    <3>3. m2.heap[e] = bytes /\ t # e
      BY <3>2, <2>1, <2>2, <2>3
    <3>. HIDE DEF t
    <3>4. TlvAt(m2.heap, t)
      BY <3>2, <3>3, <2>1, <2>10, <1>1 DEF TlvAt
    <3>5. TlvBlocks(m2.heap, t) = {t, e}
      BY <3>2, <2>10 DEF TlvBlocks
    <3>6. TlvBlocks(m2.heap, t) \cap DOMAIN m.heap = {}
      BY <3>2, <3>5, <2>1, <2>3
    <3>7. G \cup {t} = F \cup TlvBlocks(m2.heap, t)
      BY <3>5, <2>11
    <3>8. Holds(m2, F \cup TlvBlocks(m2.heap, t))
      BY <3>2, <3>7
    <3>9. \A b \in DOMAIN m.heap : m2.heap[b] = m.heap[b]
      BY <1>2, <2>2, <2>3
    <3>10. Bytes(m2, t) = Cut(type, value)
      <4>1. Bytes(m2, t) = SubSeq(bytes, 1, n)
        BY <3>2, <3>3, <2>10 DEF Bytes
      <4>. QED BY <4>1 DEF Cut, bytes, n
    <3>. QED BY <3>1, <3>4, <3>6, <3>8, <3>9, <3>10, <2>2, <1>2 DEF t, Encapped
  <2>. QED BY <2>4, <2>5
<1>. QED BY <1>3, <1>4

\* r is m without the blocks K of F.
Freed(r, m, F, K) ==
    /\ r.want = m.want
    /\ \A b \in DOMAIN m.heap \ K : r.heap[b] = m.heap[b]
    /\ Holds(r, F \ K)

\* Both blocks are freed.
LEMMA FreeTlvStructTakes ==
    ASSUME NEW m, NEW F, Holds(m, F), NEW t, TlvAt(m.heap, t),
           NEW K, K \subseteq F, TlvBlocks(m.heap, t) = K
    PROVE  Freed(FreeTlvStruct(m, t), m, F, K)
<1>. DEFINE e == m.heap[t].entity
            m1 == Free(m, e)
            r == Free(m1, t)
<1>1. e \in F /\ t \in F \ {e} /\ K = {t, e}
  BY DEF TlvAt, TlvBlocks
<1>0. FreeTlvStruct(m, t) = r
  BY DEF FreeTlvStruct
<1>. HIDE DEF e
<1>2. /\ m1.want = m.want /\ m1.ok = m.ok /\ m1.got = m.got
      /\ \A x \in DOMAIN m.heap \ {e} : m1.heap[x] = m.heap[x]
      /\ Holds(m1, F \ {e})
  BY <1>1, FreeTakes
<1>. HIDE DEF m1
<1>3. /\ r.want = m1.want /\ r.ok = m1.ok /\ r.got = m1.got
      /\ \A x \in DOMAIN m1.heap \ {t} : r.heap[x] = m1.heap[x]
      /\ Holds(r, (F \ {e}) \ {t})
  BY <1>1, <1>2, FreeTakes
<1>. HIDE DEF r
<1>4. DOMAIN m1.heap = DOMAIN m.heap \ {e}
  <2>1. DOMAIN m1.heap = (F \ {e}) \cup Pointers(m.want)
    BY <1>2 DEF Holds
  <2>2. DOMAIN m.heap = F \cup Pointers(m.want) /\ F \cap Pointers(m.want) = {}
    BY DEF Holds
  <2>. QED BY <2>1, <2>2, <1>1
<1>5. (F \ {e}) \ {t} = F \ K
  BY <1>1
<1>6. Freed(r, m, F, K)
  BY <1>1, <1>2, <1>3, <1>4, <1>5 DEF Freed
<1>. QED BY <1>0, <1>6

\* The bytes of a Tlv are in its blocks.
LEMMA BytesKept ==
    ASSUME NEW m, NEW t, NEW r, \A b \in TlvBlocks(m.heap, t) : r.heap[b] = m.heap[b]
    PROVE  Bytes(r, t) = Bytes(m, t)
<1>1. r.heap[t] = m.heap[t] /\ r.heap[m.heap[t].entity] = m.heap[m.heap[t].entity]
  BY DEF TlvBlocks
<1>. QED BY <1>1 DEF Bytes

LEMMA BytesTyped ==
    ASSUME NEW m, NEW t, TlvAt(m.heap, t)
    PROVE  Bytes(m, t) \in Seq(Nat)
<1>. DEFINE s == m.heap[m.heap[t].entity]
            n == m.heap[t].totalLen
<1>1. s \in Seq(Nat) /\ n \in 0..Len(s)
  BY DEF TlvAt
<1>2. Bytes(m, t) = SubSeq(s, 1, n)
  BY DEF Bytes
<1>. HIDE DEF s, n
<1>. QED BY <1>1, <1>2


\* A key and a value become one Tlv, in two new blocks, or none.
LEMMA CombineGives ==
    ASSUME NEW m, NEW F, Holds(m, F), NEW k, NEW v, TlvAt(m.heap, k), TlvAt(m.heap, v)
    PROVE  Encapped(CombineKeyValueTlv(m, k, v), m, F,
                    Cut(KEY_VALUE_PAIR_TYPE, Bytes(m, k) \o Bytes(m, v)))
<1>. DEFINE both == Bytes(m, k) \o Bytes(m, v)
<1>1. both \in Seq(Nat)
  BY BytesTyped
<1>. HIDE DEF both
<1>. DEFINE m1 == Malloc(m, both)
<1>2. /\ m1.want = m.want /\ m1.ok = m.ok
      /\ \A b \in DOMAIN m.heap : m1.heap[b] = m.heap[b]
      /\ \/ m1.got = 0 /\ m1.heap = m.heap /\ Holds(m1, F)
         \/ /\ m1.got \in Nat \ {0} /\ m1.got \notin DOMAIN m.heap
            /\ m1.heap[m1.got] = both
            /\ Holds(m1, F \cup {m1.got})
  BY MallocGives
<1>. HIDE DEF m1
<1>3. CASE m1.got = 0
  <2>1. CombineKeyValueTlv(m, k, v) = m1
    BY <1>3 DEF CombineKeyValueTlv, m1, both
  <2>. QED BY <2>1, <1>2, <1>3 DEF Encapped
<1>4. CASE m1.got # 0
  <2>. DEFINE x == m1.got
              G == F \cup {x}
              m2 == EncapTlv(m1, KEY_VALUE_PAIR_TYPE, both)
              r == Free(m2, x)
  <2>0. CombineKeyValueTlv(m, k, v) = r
    BY <1>4 DEF CombineKeyValueTlv, m1, both
  <2>1. Holds(m1, G) /\ x \in Nat \ {0} /\ x \notin DOMAIN m.heap
    BY <1>2, <1>4
  <2>2. KEY_VALUE_PAIR_TYPE \in Nat
    BY DEF KEY_VALUE_PAIR_TYPE
  <2>3. x \in G /\ F = G \ {x}
    <3>1. F \subseteq DOMAIN m.heap
      BY DEF Holds
    <3>. QED BY <3>1, <2>1
  <2>. HIDE DEF x, G
  <2>4. /\ m2.want = m1.want
        /\ \A b \in DOMAIN m1.heap : m2.heap[b] = m1.heap[b]
        /\ \/ m2.got = 0 /\ Holds(m2, G)
           \/ /\ TlvAt(m2.heap, m2.got)
              /\ TlvBlocks(m2.heap, m2.got) \cap DOMAIN m1.heap = {}
              /\ Holds(m2, G \cup TlvBlocks(m2.heap, m2.got))
              /\ Bytes(m2, m2.got) = Cut(KEY_VALUE_PAIR_TYPE, both)
    <3>1. Encapped(m2, m1, G, Cut(KEY_VALUE_PAIR_TYPE, both))
      BY <1>1, <2>1, <2>2, EncapTlvGives
    <3>. HIDE DEF m2
    <3>. QED BY <3>1 DEF Encapped
  <2>. HIDE DEF m2
  <2>5. x \in DOMAIN m1.heap /\ DOMAIN m.heap \subseteq DOMAIN m1.heap \ {x}
    <3>1. DOMAIN m.heap = F \cup Pointers(m.want)
      BY DEF Holds
    <3>2. DOMAIN m1.heap = G \cup Pointers(m.want)
      BY <2>1, <1>2 DEF Holds
    <3>. QED BY <3>1, <3>2, <2>1, <2>3
  <2>6. CASE m2.got = 0 /\ Holds(m2, G)
    <3>1. /\ r.want = m2.want /\ r.ok = m2.ok /\ r.got = m2.got
          /\ \A b \in DOMAIN m2.heap \ {x} : r.heap[b] = m2.heap[b]
          /\ Holds(r, G \ {x})
      BY <2>3, <2>6, FreeTakes
    <3>. HIDE DEF r
    <3>2. DOMAIN m1.heap \subseteq DOMAIN m2.heap
      BY <2>1, <2>4, <2>6 DEF Holds
    <3>3. \A b \in DOMAIN m.heap : r.heap[b] = m.heap[b]
      BY <3>1, <3>2, <2>4, <2>5, <1>2
    <3>. QED BY <3>1, <3>3, <2>0, <2>3, <2>4, <2>6, <1>2 DEF Encapped
  <2>7. CASE /\ TlvAt(m2.heap, m2.got)
             /\ TlvBlocks(m2.heap, m2.got) \cap DOMAIN m1.heap = {}
             /\ Holds(m2, G \cup TlvBlocks(m2.heap, m2.got))
             /\ Bytes(m2, m2.got) = Cut(KEY_VALUE_PAIR_TYPE, both)
    <3>. DEFINE t == m2.got
                B == TlvBlocks(m2.heap, t)
                H == G \cup B
    <3>1. x \in H /\ x \notin B /\ Holds(m2, H)
      BY <2>3, <2>5, <2>7
    <3>. HIDE DEF H
    <3>2. /\ r.want = m2.want /\ r.ok = m2.ok /\ r.got = m2.got
          /\ \A b \in DOMAIN m2.heap \ {x} : r.heap[b] = m2.heap[b]
          /\ Holds(r, H \ {x})
      BY <3>1, FreeTakes
    <3>. HIDE DEF r
    <3>3. DOMAIN m1.heap \subseteq DOMAIN m2.heap /\ B \subseteq DOMAIN m2.heap
      BY <3>1, <2>1, <2>4 DEF Holds, H
    <3>4. \A b \in DOMAIN m.heap : r.heap[b] = m.heap[b]
      BY <3>2, <3>3, <2>4, <2>5, <1>2
    <3>5. \A b \in B : r.heap[b] = m2.heap[b]
      BY <3>1, <3>2, <3>3
    <3>6. t \in B /\ m2.heap[t].entity \in B
      BY DEF TlvBlocks
    <3>7. r.heap[t] = m2.heap[t] /\ r.heap[r.heap[t].entity] = m2.heap[m2.heap[t].entity]
      BY <3>5, <3>6
    <3>70. Bytes(r, t) = Cut(KEY_VALUE_PAIR_TYPE, both)
      <4>1. Bytes(r, t) = Bytes(m2, t)
        BY <3>5, BytesKept
      <4>. QED BY <4>1, <2>7
    <3>8. TlvAt(r.heap, t) /\ TlvBlocks(r.heap, t) = B
      BY <3>7, <2>7 DEF TlvAt, TlvBlocks
    <3>9. H \ {x} = F \cup B
      BY <3>1, <2>3 DEF H
    <3>10. B \cap DOMAIN m.heap = {}
      BY <2>7, <2>5
    <3>. HIDE DEF B
    <3>11. Holds(r, F \cup TlvBlocks(r.heap, r.got)) /\ r.got = t
      BY <3>2, <3>8, <3>9
    <3>. HIDE DEF t
    <3>. QED BY <3>2, <3>4, <3>70, <3>8, <3>10, <3>11, <2>0, <2>4, <1>2 DEF both, Encapped
  <2>. QED BY <2>4, <2>6, <2>7
<1>. QED BY <1>3, <1>4

\* From m to r the bytes d have been added to the data of the Want, or the call
\* has failed and changed nothing, or the data are lost.
Data(m) == IF m.want.data = 0 THEN <<>> ELSE m.heap[m.want.data]
Extended(r, m, d) ==
    \/ /\ r.ok = FALSE
       /\ r.want = m.want
       /\ m.want.data # 0 => r.heap[m.want.data] = m.heap[m.want.data]
    \/ r.ok = TRUE /\ r.want.data = 0
    \/ /\ r.ok = TRUE /\ r.want.data # 0
       /\ r.heap[r.want.data] = Data(m) \o d
       /\ r.want.dataLength = Len(Data(m) \o d)

\* The Want has other data, or it has lost them.
LEMMA UpdateWantDataGives ==
    ASSUME NEW m, NEW F, Holds(m, F), NEW t, TlvAt(m.heap, t), NEW E, NEW S,
           Contents(m.heap, m.want, E, Seq(Nat), S), Measured(m.want)
    PROVE  LET r == UpdateWantData(m, t)
           IN  /\ Holds(r, F) /\ Keeps(r, m.heap, F)
               /\ Contents(r.heap, r.want, E, Seq(Nat), S) /\ Measured(r.want)
               /\ Extended(r, m, Bytes(m, t))
<1>. DEFINE d == Bytes(m, t)
<1>1. d \in Seq(Nat)
  BY BytesTyped
<1>. HIDE DEF d
<1>2. CASE m.want.data = 0
  <2>. DEFINE m1 == SetWantData(m, d)
              r == Returns(m1, TRUE)
  <2>1. UpdateWantData(m, t) = r
    BY <1>2 DEF UpdateWantData, d
  <2>2. /\ Holds(m1, F) /\ Keeps(m1, m.heap, F)
        /\ Contents(m1.heap, m1.want, E, {d}, S) /\ Measured(m1.want)
        /\ m1.want.data # 0 => m1.want.dataLength = Len(d)
    BY <1>1, SetWantDataGives
  <2>. HIDE DEF m1
  <2>3. DOMAIN r = Fields /\ r.heap = m1.heap /\ r.want = m1.want /\ r.bad = m1.bad
    BY <2>2 DEF Returns, Holds, Fields
  <2>30. r.ok = TRUE
    BY <2>2 DEF Returns, Holds, Fields
  <2>. HIDE DEF r
  <2>31. Extended(r, m, d)
    <3>1. Data(m) = <<>> /\ <<>> \o d = d
      BY <1>1, <1>2 DEF Data
    <3>2. r.want.data # 0 => r.heap[r.want.data] = d /\ r.want.dataLength = Len(d)
      BY <2>2, <2>3 DEF Contents
    <3>. QED BY <3>1, <3>2, <2>30 DEF Extended
  <2>4. Contents(r.heap, r.want, E, Seq(Nat), S)
    BY <2>2, <2>3, <1>1 DEF Contents
  <2>5. Holds(r, F) /\ Keeps(r, m.heap, F) /\ Measured(r.want)
    BY <2>2, <2>3 DEF Holds, Keeps
  <2>. QED BY <2>1, <2>31, <2>4, <2>5 DEF d
<1>3. CASE m.want.data # 0
  <2>. DEFINE c == m.heap[m.want.data] \o d
  <2>1. c \in Seq(Nat)
    <3>1. m.heap[m.want.data] \in Seq(Nat)
      BY <1>3 DEF Contents
    <3>. QED BY <3>1, <1>1
  <2>. HIDE DEF c
  <2>. DEFINE m1 == Malloc(m, c)
  <2>2. /\ m1.want = m.want /\ m1.ok = m.ok
        /\ \A b \in DOMAIN m.heap : m1.heap[b] = m.heap[b]
        /\ \/ m1.got = 0 /\ m1.heap = m.heap /\ Holds(m1, F)
           \/ /\ m1.got \in Nat \ {0} /\ m1.got \notin DOMAIN m.heap
              /\ m1.heap[m1.got] = c
              /\ Holds(m1, F \cup {m1.got})
    BY MallocGives
  <2>. HIDE DEF m1
  <2>20. F \subseteq DOMAIN m.heap
    BY DEF Holds
  <2>3. CASE m1.got = 0
    <3>. DEFINE r == Returns(m1, FALSE)
    <3>1. UpdateWantData(m, t) = r
      BY <1>3, <2>3 DEF UpdateWantData, m1, c, d
    <3>2. Holds(m1, F) /\ m1.heap = m.heap /\ m1.want = m.want
      BY <2>2, <2>3
    <3>3. DOMAIN r = Fields /\ r.heap = m1.heap /\ r.want = m1.want /\ r.bad = m1.bad
      BY <3>2 DEF Returns, Holds, Fields
    <3>30. r.ok = FALSE
      BY <3>2 DEF Returns, Holds, Fields
    <3>. HIDE DEF r
    <3>31. Extended(r, m, d)
      BY <3>2, <3>3, <3>30 DEF Extended
    <3>4. Holds(r, F) /\ Keeps(r, m.heap, F)
      BY <3>2, <3>3 DEF Holds, Keeps
    <3>. QED BY <3>1, <3>2, <3>3, <3>31, <3>4 DEF d
  <2>4. CASE m1.got # 0
    <3>. DEFINE x == m1.got
                G == F \cup {x}
    <3>1. Holds(m1, G) /\ x \notin F /\ x \in G /\ F = G \ {x} /\ m1.heap[x] = c
      BY <2>2, <2>4, <2>20
    <3>. DEFINE m2 == SetWantData(m1, m1.heap[x])
                m3 == Free(m2, x)
                r == Returns(m3, TRUE)
    <3>2. UpdateWantData(m, t) = r
      BY <1>3, <2>4 DEF UpdateWantData, m1, c, d
    <3>. HIDE DEF x, G
    <3>3. Contents(m1.heap, m1.want, E, Seq(Nat), S)
      <4>1. /\ m1.want.element # 0 => m1.want.element \in DOMAIN m.heap
            /\ m1.want.data # 0 => m1.want.data \in DOMAIN m.heap
            /\ m1.want.sid # 0 => m1.want.sid \in DOMAIN m.heap
        BY <2>2 DEF Holds, Pointers
      <4>. QED BY <4>1, <2>2 DEF Contents
    <3>4. /\ Holds(m2, G) /\ Keeps(m2, m1.heap, G)
          /\ Contents(m2.heap, m2.want, E, {c}, S) /\ Measured(m2.want)
          /\ m2.want.data # 0 => m2.want.dataLength = Len(c)
      BY <3>1, <3>3, <2>1, SetWantDataGives
    <3>. HIDE DEF m2
    <3>5. /\ m3.want = m2.want /\ m3.ok = m2.ok /\ m3.got = m2.got
          /\ \A b \in DOMAIN m2.heap \ {x} : m3.heap[b] = m2.heap[b]
          /\ Holds(m3, G \ {x})
      BY <3>1, <3>4, FreeTakes
    <3>. HIDE DEF m3
    <3>6. DOMAIN r = Fields /\ r.heap = m3.heap /\ r.want = m3.want /\ r.bad = m3.bad
      BY <3>5 DEF Returns, Holds, Fields
    <3>60. r.ok = TRUE
      BY <3>5 DEF Returns, Holds, Fields
    <3>. HIDE DEF r
    <3>7. Holds(r, F)
      BY <3>1, <3>5, <3>6 DEF Holds
    <3>8. \A b \in F \cup Pointers(m2.want) : r.heap[b] = m2.heap[b]
      <4>1. DOMAIN m2.heap = G \cup Pointers(m2.want) /\ G \cap Pointers(m2.want) = {}
        BY <3>4 DEF Holds
      <4>. QED BY <4>1, <3>1, <3>5, <3>6
    <3>9. Keeps(r, m.heap, F)
      BY <3>1, <3>4, <3>8, <2>2, <2>20 DEF Keeps
    <3>10. Contents(r.heap, r.want, E, Seq(Nat), S)
      BY <3>4, <3>5, <3>6, <3>8, <2>1 DEF Contents, Pointers
    <3>11. Extended(r, m, d)
      <4>1. c = Data(m) \o d
        BY <1>3 DEF Data, c
      <4>2. r.want.data # 0 => r.heap[r.want.data] = c /\ r.want.dataLength = Len(c)
        BY <3>4, <3>5, <3>6, <3>8 DEF Contents, Pointers
      <4>. QED BY <4>1, <4>2, <3>60 DEF Extended
    <3>. QED BY <3>2, <3>4, <3>5, <3>6, <3>7, <3>9, <3>10, <3>11 DEF d
  <2>. QED BY <2>3, <2>4
<1>. QED BY <1>2, <1>3


LEMMA TlvKept ==
    ASSUME NEW h, NEW t, TlvAt(h, t), NEW g, \A b \in TlvBlocks(h, t) : g[b] = h[b]
    PROVE  TlvAt(g, t) /\ TlvBlocks(g, t) = TlvBlocks(h, t)
<1>1. g[t] = h[t] /\ g[h[t].entity] = h[h[t].entity]
  BY DEF TlvBlocks
<1>. QED BY <1>1 DEF TlvAt, TlvBlocks

LEMMA ContentsKept ==
    ASSUME NEW h, NEW w, NEW E, NEW D, NEW S, Contents(h, w, E, D, S),
           NEW g, \A b \in Pointers(w) : g[b] = h[b]
    PROVE  Contents(g, w, E, D, S)
BY DEF Contents, Pointers

\* What a setter leaves behind in no Want: nothing, or one block.
AtMostOne(L) == L = {} \/ \E e : L = {e}

\* The first and the last step of an Extended change nothing about the data.
LEMMA ExtendedBetween ==
    ASSUME NEW r, NEW g, NEW d, Extended(r, g, d), NEW m, NEW q,
           g.want = m.want, m.want.data # 0 => g.heap[m.want.data] = m.heap[m.want.data],
           q.want = r.want, q.ok = r.ok,
           r.want.data # 0 => q.heap[r.want.data] = r.heap[r.want.data]
    PROVE  Extended(q, m, d)
<1>1. Data(g) = Data(m)
  BY DEF Data
<1>2. CASE r.ok = FALSE /\ r.want = g.want /\ (g.want.data # 0 => r.heap[g.want.data] = g.heap[g.want.data])
  <2>1. q.ok = FALSE
    BY <1>2
  <2>2. q.want = m.want
    BY <1>2
  <2>3. m.want.data # 0 => q.heap[m.want.data] = m.heap[m.want.data]
    BY <1>2
  <2>. QED BY <2>1, <2>2, <2>3 DEF Extended
<1>3. CASE r.ok = TRUE /\ r.want.data = 0
  <2>1. q.ok = TRUE
    BY <1>3
  <2>2. q.want.data = 0
    BY <1>3
  <2>. QED BY <2>1, <2>2 DEF Extended
<1>4. CASE /\ r.ok = TRUE /\ r.want.data # 0
           /\ r.heap[r.want.data] = Data(g) \o d
           /\ r.want.dataLength = Len(Data(g) \o d)
  <2>1. q.ok = TRUE
    BY <1>4
  <2>2. q.want.data # 0
    BY <1>4
  <2>3. q.heap[q.want.data] = Data(m) \o d
    BY <1>1, <1>4
  <2>4. q.want.dataLength = Len(Data(m) \o d)
    BY <1>1, <1>4
  <2>. QED BY <2>1, <2>2, <2>3, <2>4 DEF Extended
<1>. QED BY <1>2, <1>3, <1>4 DEF Extended

\* AddPair frees the key and the value, and leaves the bytes of the pair.
LEMMA AddPairGives ==
    ASSUME NEW m, NEW F, Holds(m, F), NEW type \in Nat, NEW value \in Seq(Nat), NEW E, NEW S,
           Contents(m.heap, m.want, E, Seq(Nat), S), Measured(m.want),
           TlvAt(m.heap, m.got), TlvBlocks(m.heap, m.got) \subseteq F
    PROVE  LET r == AddPair(m, type, value)
               G == F \ TlvBlocks(m.heap, m.got)
           IN  /\ Contents(r.heap, r.want, E, Seq(Nat), S) /\ Measured(r.want)
               /\ Keeps(r, m.heap, G)
               /\ \E L : /\ AtMostOne(L) /\ L \cap DOMAIN m.heap = {}
                         /\ Holds(r, G \cup L)
               /\ Extended(r, m, Cut(KEY_VALUE_PAIR_TYPE, Bytes(m, m.got) \o Cut(type, value)))
<1>. DEFINE key == m.got
            K == TlvBlocks(m.heap, key)
            G == F \ K
            m1 == EncapTlv(m, type, value)
            d == Cut(KEY_VALUE_PAIR_TYPE, Bytes(m, key) \o Cut(type, value))
<1>0. K \subseteq F /\ TlvAt(m.heap, key) /\ F \subseteq DOMAIN m.heap /\ G \cap K = {} /\ F = G \cup K
  BY DEF Holds
<1>1. /\ m1.want = m.want
      /\ \A b \in DOMAIN m.heap : m1.heap[b] = m.heap[b]
      /\ \/ m1.got = 0 /\ Holds(m1, F)
         \/ /\ TlvAt(m1.heap, m1.got)
            /\ TlvBlocks(m1.heap, m1.got) \cap DOMAIN m.heap = {}
            /\ Holds(m1, F \cup TlvBlocks(m1.heap, m1.got))
            /\ Bytes(m1, m1.got) = Cut(type, value)
  <2>1. Encapped(m1, m, F, Cut(type, value))
    BY EncapTlvGives
  <2>. HIDE DEF m1
  <2>. QED BY <2>1 DEF Encapped
<1>. HIDE DEF m1
<1>2. TlvAt(m1.heap, key) /\ TlvBlocks(m1.heap, key) = K
  BY <1>0, <1>1, TlvKept
<1>20. Bytes(m1, key) = Bytes(m, key)
  <2>1. \A b \in TlvBlocks(m.heap, key) : m1.heap[b] = m.heap[b]
    BY <1>0, <1>1
  <2>. QED BY <2>1, BytesKept
<1>21. m.want.data # 0 => m1.heap[m.want.data] = m.heap[m.want.data]
  BY <1>1 DEF Holds, Pointers
<1>3. Contents(m1.heap, m1.want, E, Seq(Nat), S)
  <2>1. Pointers(m.want) \subseteq DOMAIN m.heap
    BY DEF Holds
  <2>. QED BY <2>1, <1>1, ContentsKept
<1>. HIDE DEF K, G, d
<1>4. CASE m1.got = 0 /\ Holds(m1, F)
  <2>. DEFINE m2 == FreeTlvStruct(m1, key)
              r == Returns(m2, FALSE)
  <2>1. AddPair(m, type, value) = r
    BY <1>4 DEF AddPair, m1, key
  <2>. HIDE DEF key
  <2>2. /\ m2.want = m1.want
        /\ \A b \in DOMAIN m1.heap \ K : m2.heap[b] = m1.heap[b]
        /\ Holds(m2, F \ K)
    <3>1. Freed(m2, m1, F, K)
      BY <1>0, <1>2, <1>4, FreeTlvStructTakes
    <3>. QED BY <3>1 DEF Freed
  <2>. HIDE DEF m2
  <2>3. DOMAIN r = Fields /\ r.heap = m2.heap /\ r.want = m2.want /\ r.bad = m2.bad
    BY <2>2 DEF Returns, Holds, Fields
  <2>30. r.ok = FALSE
    BY <2>2 DEF Returns, Holds, Fields
  <2>. HIDE DEF r
  <2>4. Holds(r, G)
    BY <2>2, <2>3 DEF Holds, G
  <2>5. /\ G \subseteq DOMAIN m1.heap \ K /\ Pointers(m1.want) \subseteq DOMAIN m1.heap \ K
        /\ G \subseteq DOMAIN m.heap
    <3>1. DOMAIN m1.heap = F \cup Pointers(m1.want) /\ F \cap Pointers(m1.want) = {}
      BY <1>4 DEF Holds
    <3>. QED BY <3>1, <1>0
  <2>6. Keeps(r, m.heap, G)
    BY <2>2, <2>3, <2>5, <1>1 DEF Keeps
  <2>7. Contents(r.heap, r.want, E, Seq(Nat), S)
    <3>1. \A b \in Pointers(m1.want) : r.heap[b] = m1.heap[b]
      BY <2>2, <2>3, <2>5
    <3>. QED BY <3>1, <2>2, <2>3, <1>3, ContentsKept
  <2>8. Measured(r.want)
    BY <2>2, <2>3, <1>1
  <2>80. Extended(r, m, d)
    <3>1. r.want = m.want
      BY <2>2, <2>3, <1>1
    <3>2. m.want.data # 0 => r.heap[m.want.data] = m.heap[m.want.data]
      <4>1. m.want.data # 0 => m.want.data \in Pointers(m1.want)
        BY <1>1 DEF Pointers
      <4>. QED BY <4>1, <1>21, <2>2, <2>3, <2>5
    <3>. QED BY <3>1, <3>2, <2>30 DEF Extended
  <2>9. AtMostOne({}) /\ {} \cap DOMAIN m.heap = {} /\ Holds(r, G \cup {})
    BY <2>4 DEF AtMostOne
  <2>. QED BY <2>1, <2>6, <2>7, <2>8, <2>80, <2>9 DEF G, K, key, d
<1>5. CASE /\ TlvAt(m1.heap, m1.got)
           /\ TlvBlocks(m1.heap, m1.got) \cap DOMAIN m.heap = {}
           /\ Holds(m1, F \cup TlvBlocks(m1.heap, m1.got))
           /\ Bytes(m1, m1.got) = Cut(type, value)
  <2>. DEFINE val == m1.got
              V == TlvBlocks(m1.heap, val)
              F1 == F \cup V
              m2 == CombineKeyValueTlv(m1, key, val)
              m3 == FreeTlvStruct(m2, key)
              m4 == FreeTlvStruct(m3, val)
              tlv == m2.got
              m5 == UpdateWantData(m4, tlv)
              r == IF tlv = 0 THEN Returns(m4, FALSE) ELSE Free(m5, tlv)
  <2>1. AddPair(m, type, value) = r
    <3>1. m1.got # 0
      BY <1>5 DEF TlvAt
    <3>. QED BY <3>1 DEF AddPair, m1, key
  <2>2. Holds(m1, F1) /\ TlvAt(m1.heap, val) /\ V \cap DOMAIN m.heap = {}
    BY <1>5
  <2>. HIDE DEF key, val, V, F1
  <2>3. /\ m2.want = m1.want
        /\ \A b \in DOMAIN m1.heap : m2.heap[b] = m1.heap[b]
        /\ \/ m2.got = 0 /\ Holds(m2, F1)
           \/ /\ TlvAt(m2.heap, m2.got)
              /\ TlvBlocks(m2.heap, m2.got) \cap DOMAIN m1.heap = {}
              /\ Holds(m2, F1 \cup TlvBlocks(m2.heap, m2.got))
              /\ Bytes(m2, m2.got) = d
    <3>1. Encapped(m2, m1, F1, Cut(KEY_VALUE_PAIR_TYPE, Bytes(m1, key) \o Bytes(m1, val)))
      BY <2>2, <1>2, CombineGives
    <3>2. d = Cut(KEY_VALUE_PAIR_TYPE, Bytes(m1, key) \o Bytes(m1, val))
      BY <1>5, <1>20 DEF d, val
    <3>. HIDE DEF m2
    <3>. QED BY <3>1, <3>2 DEF Encapped
  <2>. HIDE DEF m2
  <2>4. K \subseteq F1 /\ V \subseteq F1 /\ F1 \subseteq DOMAIN m1.heap /\ K \cap V = {}
        /\ Pointers(m1.want) \cap F1 = {} /\ Pointers(m1.want) \subseteq DOMAIN m1.heap
    <3>1. F1 \subseteq DOMAIN m1.heap /\ Pointers(m1.want) \cap F1 = {}
          /\ Pointers(m1.want) \subseteq DOMAIN m1.heap
      BY <2>2 DEF Holds
    <3>. QED BY <3>1, <2>2, <1>0 DEF F1
  <2>5. TlvAt(m2.heap, key) /\ TlvBlocks(m2.heap, key) = K
    BY <2>3, <2>4, <1>2, TlvKept
  <2>6. TlvAt(m2.heap, val) /\ TlvBlocks(m2.heap, val) = V
    <3>1. \A b \in TlvBlocks(m1.heap, val) : m2.heap[b] = m1.heap[b]
      BY <2>3, <2>4 DEF V
    <3>. QED BY <3>1, <2>2, TlvKept DEF V
  <2>. DEFINE T == IF m2.got = 0 THEN {} ELSE TlvBlocks(m2.heap, m2.got)
              F2 == F1 \cup T
  <2>7. /\ Holds(m2, F2) /\ T \cap DOMAIN m1.heap = {}
        /\ m2.got # 0 => TlvAt(m2.heap, m2.got) /\ Bytes(m2, m2.got) = d
    <3>1. TlvAt(m2.heap, m2.got) => m2.got # 0
      BY DEF TlvAt
    <3>2. CASE m2.got = 0
      <4>1. Holds(m2, F1)
        BY <2>3, <3>1, <3>2
      <4>2. T = {} /\ F2 = F1
        BY <3>2
      <4>. QED BY <4>1, <4>2, <3>2
    <3>3. CASE m2.got # 0
      BY <2>3, <3>3
    <3>. QED BY <3>2, <3>3
  <2>. HIDE DEF T, F2
  <2>8. K \subseteq F2 /\ V \subseteq F2 \ K /\ F2 \subseteq DOMAIN m2.heap
        /\ Pointers(m1.want) \cap F2 = {} /\ Pointers(m1.want) \subseteq DOMAIN m2.heap
    <3>1. F2 \subseteq DOMAIN m2.heap /\ Pointers(m1.want) \cap F2 = {}
          /\ Pointers(m1.want) \subseteq DOMAIN m2.heap
      BY <2>7, <2>3 DEF Holds
    <3>. QED BY <3>1, <2>4 DEF F2
  <2>9. /\ m3.want = m2.want
        /\ \A b \in DOMAIN m2.heap \ K : m3.heap[b] = m2.heap[b]
        /\ Holds(m3, F2 \ K)
    <3>1. Freed(m3, m2, F2, K)
      BY <2>5, <2>7, <2>8, FreeTlvStructTakes
    <3>. QED BY <3>1 DEF Freed
  <2>. HIDE DEF m3
  <2>10. TlvAt(m3.heap, val) /\ TlvBlocks(m3.heap, val) = V
    BY <2>6, <2>8, <2>9, TlvKept
  <2>11. /\ m4.want = m3.want
         /\ \A b \in DOMAIN m3.heap \ V : m4.heap[b] = m3.heap[b]
         /\ Holds(m4, (F2 \ K) \ V)
    <3>1. Freed(m4, m3, F2 \ K, V)
      BY <2>8, <2>9, <2>10, FreeTlvStructTakes
    <3>. QED BY <3>1 DEF Freed
  <2>. HIDE DEF m4
  <2>12. (F2 \ K) \ V = G \cup T /\ G \cap T = {} /\ T \cap DOMAIN m.heap = {}
    <3>1. DOMAIN m.heap \subseteq DOMAIN m1.heap
      <4>1. DOMAIN m.heap = F \cup Pointers(m.want)
        BY DEF Holds
      <4>. QED BY <4>1, <2>4, <1>1 DEF F1
    <3>2. T \cap F1 = {}
      BY <2>4, <2>7
    <3>. QED BY <3>1, <3>2, <2>2, <2>4, <2>7, <1>0 DEF F2, F1
  <2>13. \A b \in G \cup T \cup Pointers(m1.want) : m4.heap[b] = m2.heap[b]
    <3>1. DOMAIN m3.heap = (F2 \ K) \cup Pointers(m1.want)
      BY <2>3, <2>9 DEF Holds
    <3>2. \A b \in G \cup T \cup Pointers(m1.want) :
             b \in DOMAIN m2.heap \ K /\ b \in DOMAIN m3.heap \ V
      BY <3>1, <2>8, <2>12
    <3>. QED BY <3>2, <2>9, <2>11
  <2>14. Contents(m4.heap, m4.want, E, Seq(Nat), S) /\ Measured(m4.want)
    <3>1. \A b \in Pointers(m1.want) : m4.heap[b] = m1.heap[b]
      BY <2>3, <2>4, <2>13
    <3>. QED BY <3>1, <2>3, <2>9, <2>11, <1>1, <1>3, ContentsKept
  <2>15. Keeps(m4, m.heap, G)
    <3>1. \A b \in G : b \in DOMAIN m.heap /\ b \in DOMAIN m1.heap
      BY <1>0, <2>4 DEF F1
    <3>. QED BY <3>1, <2>3, <2>13, <1>1 DEF Keeps
  <2>150. m4.want = m.want
    BY <2>3, <2>9, <2>11, <1>1
  <2>151. m.want.data # 0 => m4.heap[m.want.data] = m.heap[m.want.data]
    <3>1. m.want.data # 0 => m.want.data \in Pointers(m1.want)
      BY <1>1 DEF Pointers
    <3>. QED BY <3>1, <1>21, <2>3, <2>4, <2>13
  <2>16. CASE tlv = 0
    <3>1. T = {}
      BY <2>16 DEF T
    <3>2. Holds(m4, G)
      BY <3>1, <2>11, <2>12
    <3>. DEFINE r0 == Returns(m4, FALSE)
    <3>3. DOMAIN r0 = Fields /\ r0.heap = m4.heap /\ r0.want = m4.want /\ r0.bad = m4.bad
      BY <3>2 DEF Returns, Holds, Fields
    <3>4. r = r0
      BY <2>16
    <3>40. r0.ok = FALSE
      BY <3>2 DEF Returns, Holds, Fields
    <3>. HIDE DEF r0, r
    <3>5. Holds(r0, G \cup {})
      BY <3>2, <3>3 DEF Holds
    <3>6. Keeps(r0, m.heap, G)
      BY <3>3, <2>15 DEF Keeps
    <3>7. AtMostOne({}) /\ {} \cap DOMAIN m.heap = {}
      BY DEF AtMostOne
    <3>8. Extended(r0, m, d)
      BY <3>3, <3>40, <2>150, <2>151 DEF Extended
    <3>. QED BY <3>3, <3>4, <3>5, <3>6, <3>7, <3>8, <2>1, <2>14 DEF G, K, key, d
  <2>17. CASE tlv # 0
    <3>. DEFINE e == m2.heap[tlv].entity
    <3>1. TlvAt(m2.heap, tlv) /\ T = {tlv, e} /\ tlv # e
      BY <2>7, <2>17 DEF T, TlvBlocks, TlvAt
    <3>2. TlvAt(m4.heap, tlv)
      <4>1. TlvBlocks(m2.heap, tlv) = T
        BY <3>1 DEF TlvBlocks
      <4>. QED BY <4>1, <3>1, <2>13, TlvKept
    <3>20. Bytes(m4, tlv) = d
      <4>1. \A b \in TlvBlocks(m2.heap, tlv) : m4.heap[b] = m2.heap[b]
        BY <3>1, <2>13 DEF TlvBlocks
      <4>2. Bytes(m4, tlv) = Bytes(m2, tlv)
        BY <4>1, BytesKept
      <4>. QED BY <4>2, <2>7, <2>17
    <3>3. Holds(m4, G \cup T)
      BY <2>11, <2>12
    <3>. HIDE DEF e, tlv
    <3>4. /\ Holds(m5, G \cup T) /\ Keeps(m5, m4.heap, G \cup T)
          /\ Contents(m5.heap, m5.want, E, Seq(Nat), S) /\ Measured(m5.want)
          /\ Extended(m5, m4, Bytes(m4, tlv))
      BY <3>2, <3>3, <2>14, UpdateWantDataGives
    <3>. HIDE DEF m5
    <3>. DEFINE r0 == Free(m5, tlv)
    <3>5. r = r0
      BY <2>17
    <3>. HIDE DEF r
    <3>6. tlv \in G \cup T
      BY <3>1
    <3>7. /\ r0.want = m5.want /\ r0.ok = m5.ok /\ r0.got = m5.got
          /\ \A x \in DOMAIN m5.heap \ {tlv} : r0.heap[x] = m5.heap[x]
          /\ Holds(r0, (G \cup T) \ {tlv})
      BY <3>4, <3>6, FreeTakes
    <3>. HIDE DEF r0
    <3>8. (G \cup T) \ {tlv} = G \cup {e} /\ {e} \cap DOMAIN m.heap = {} /\ tlv \notin G
      BY <3>1, <2>12
    <3>9. /\ G \subseteq DOMAIN m5.heap \ {tlv}
          /\ Pointers(m5.want) \subseteq DOMAIN m5.heap \ {tlv}
      <4>1. DOMAIN m5.heap = G \cup T \cup Pointers(m5.want) /\ (G \cup T) \cap Pointers(m5.want) = {}
        BY <3>4 DEF Holds
      <4>. QED BY <4>1, <3>6, <3>8
    <3>10. Keeps(r0, m.heap, G)
      BY <3>4, <3>7, <3>9, <2>15 DEF Keeps
    <3>11. Contents(r0.heap, r0.want, E, Seq(Nat), S)
      <4>1. \A b \in Pointers(m5.want) : r0.heap[b] = m5.heap[b]
        BY <3>7, <3>9
      <4>. QED BY <4>1, <3>4, <3>7, ContentsKept
    <3>110. Extended(r0, m, d)
      <4>1. m5.want.data # 0 => r0.heap[m5.want.data] = m5.heap[m5.want.data]
        BY <3>7, <3>9 DEF Pointers
      <4>2. Extended(m5, m4, d)
        BY <3>4, <3>20
      <4>. QED BY <4>1, <4>2, <3>7, <2>150, <2>151, ExtendedBetween
    <3>12. AtMostOne({e}) /\ Holds(r0, G \cup {e})
      BY <3>7, <3>8 DEF AtMostOne
    <3>. QED BY <3>4, <3>5, <3>7, <3>8, <3>10, <3>11, <3>110, <3>12, <2>1 DEF G, K, key, d
  <2>. QED BY <2>16, <2>17
<1>. QED BY <1>1, <1>4, <1>5


\* After a setter: the Want is whole, the other blocks are as they were, and
\* one block at most is left behind, with a number no block had before; the
\* bytes d are added to the data, unless it has failed.
ParamOutcome(r, m, F, E, S, d) ==
    /\ Contents(r.heap, r.want, E, Seq(Nat), S) /\ Measured(r.want)
    /\ Keeps(r, m.heap, F)
    /\ \E L : AtMostOne(L) /\ L \cap DOMAIN m.heap = {} /\ Holds(r, F \cup L)
    /\ Extended(r, m, d)

\* The bytes of a pair.
Pair(key, type, value) ==
    Cut(KEY_VALUE_PAIR_TYPE, Cut(STRING_VALUE_TYPE, key) \o Cut(type, value))

\* The setter answers FALSE in m, and has added nothing.
Refused(m, g, F, E, S) ==
    /\ \A d : ParamOutcome(Returns(m, FALSE), g, F, E, S, d)
    /\ Returns(m, FALSE).ok = FALSE

\* That is so whenever the Want and its data are as they were.
LEMMA RefusedOutcome ==
    ASSUME NEW m, NEW F, Holds(m, F), NEW E, NEW S, NEW g,
           Contents(m.heap, m.want, E, Seq(Nat), S), Measured(m.want),
           Keeps(m, g.heap, F), m.want = g.want,
           g.want.data # 0 => m.heap[g.want.data] = g.heap[g.want.data]
    PROVE  Refused(m, g, F, E, S)
<1>. DEFINE r == Returns(m, FALSE)
<1>1. DOMAIN r = Fields /\ r.heap = m.heap /\ r.want = m.want /\ r.bad = m.bad
  BY DEF Returns, Holds, Fields
<1>10. r.ok = FALSE
  BY DEF Returns, Holds, Fields
<1>. HIDE DEF r
<1>2. Holds(r, F \cup {})
  BY <1>1 DEF Holds
<1>3. Keeps(r, g.heap, F)
  BY <1>1 DEF Keeps
<1>4. AtMostOne({}) /\ {} \cap DOMAIN g.heap = {}
  BY DEF AtMostOne
<1>5. \A d : Extended(r, g, d)
  BY <1>1, <1>10 DEF Extended
<1>6. \A d : ParamOutcome(r, g, F, E, S, d)
  BY <1>1, <1>2, <1>3, <1>4, <1>5 DEF ParamOutcome
<1>. QED BY <1>6, <1>10 DEF r, Refused

\* The key is wrapped first.
LEMMA KeyWrapped ==
    ASSUME NEW m, NEW F, Holds(m, F), NEW key \in Seq(Nat), NEW E, NEW S,
           Contents(m.heap, m.want, E, Seq(Nat), S), Measured(m.want)
    PROVE  LET m1 == EncapTlv(m, STRING_VALUE_TYPE, key)
               K  == TlvBlocks(m1.heap, m1.got)
           IN  /\ Contents(m1.heap, m1.want, E, Seq(Nat), S) /\ Measured(m1.want)
               /\ Keeps(m1, m.heap, F) /\ m1.want = m.want
               /\ m.want.data # 0 => m1.heap[m.want.data] = m.heap[m.want.data]
               /\ m1.got = 0 => Holds(m1, F)
               /\ m1.got # 0 => /\ Holds(m1, F \cup K) /\ TlvAt(m1.heap, m1.got)
                                /\ K \cap DOMAIN m.heap = {}
                                /\ DOMAIN m.heap \subseteq DOMAIN m1.heap
                                /\ Bytes(m1, m1.got) = Cut(STRING_VALUE_TYPE, key)
<1>. DEFINE m1 == EncapTlv(m, STRING_VALUE_TYPE, key)
            K  == TlvBlocks(m1.heap, m1.got)
<1>1. STRING_VALUE_TYPE \in Nat
  BY DEF STRING_VALUE_TYPE
<1>2. /\ m1.want = m.want
      /\ \A b \in DOMAIN m.heap : m1.heap[b] = m.heap[b]
      /\ \/ m1.got = 0 /\ Holds(m1, F)
         \/ /\ TlvAt(m1.heap, m1.got)
            /\ TlvBlocks(m1.heap, m1.got) \cap DOMAIN m.heap = {}
            /\ Holds(m1, F \cup TlvBlocks(m1.heap, m1.got))
            /\ Bytes(m1, m1.got) = Cut(STRING_VALUE_TYPE, key)
  <2>1. Encapped(m1, m, F, Cut(STRING_VALUE_TYPE, key))
    BY <1>1, EncapTlvGives
  <2>. HIDE DEF m1
  <2>. QED BY <2>1 DEF Encapped
<1>. HIDE DEF m1
<1>3. DOMAIN m.heap = F \cup Pointers(m.want)
  BY DEF Holds
<1>4. Keeps(m1, m.heap, F)
  BY <1>2, <1>3 DEF Keeps
<1>5. Contents(m1.heap, m1.want, E, Seq(Nat), S)
  BY <1>2, <1>3, ContentsKept
<1>6. TlvAt(m1.heap, m1.got) => m1.got # 0
  BY DEF TlvAt
<1>7. m1.got # 0 => DOMAIN m.heap \subseteq DOMAIN m1.heap
  <2>. SUFFICES ASSUME m1.got # 0 PROVE DOMAIN m.heap \subseteq DOMAIN m1.heap
    OBVIOUS
  <2>1. DOMAIN m1.heap = (F \cup K) \cup Pointers(m.want)
    BY <1>2 DEF Holds
  <2>. QED BY <2>1, <1>3
<1>8. m.want.data # 0 => m1.heap[m.want.data] = m.heap[m.want.data]
  BY <1>2, <1>3 DEF Pointers
<1>. QED BY <1>2, <1>4, <1>5, <1>6, <1>7, <1>8 DEF m1

LEMMA PairOutcome ==
    ASSUME NEW m, NEW F, Holds(m, F), NEW key \in Seq(Nat), NEW E, NEW S,
           Contents(m.heap, m.want, E, Seq(Nat), S), Measured(m.want),
           NEW type \in Nat, NEW value \in Seq(Nat)
    PROVE  LET m1 == EncapTlv(m, STRING_VALUE_TYPE, key)
           IN  IF m1.got = 0 THEN Refused(m1, m, F, E, S)
               ELSE /\ ParamOutcome(AddPair(m1, type, value), m, F, E, S, Pair(key, type, value))
                    /\ Refused(FreeTlvStruct(m1, m1.got), m, F, E, S)
<1>. DEFINE m1 == EncapTlv(m, STRING_VALUE_TYPE, key)
            K  == TlvBlocks(m1.heap, m1.got)
<1>1. /\ Contents(m1.heap, m1.want, E, Seq(Nat), S) /\ Measured(m1.want)
      /\ Keeps(m1, m.heap, F) /\ m1.want = m.want
      /\ m.want.data # 0 => m1.heap[m.want.data] = m.heap[m.want.data]
      /\ m1.got = 0 => Holds(m1, F)
      /\ m1.got # 0 => /\ Holds(m1, F \cup K) /\ TlvAt(m1.heap, m1.got)
                       /\ K \cap DOMAIN m.heap = {}
                       /\ DOMAIN m.heap \subseteq DOMAIN m1.heap
                       /\ Bytes(m1, m1.got) = Cut(STRING_VALUE_TYPE, key)
  BY KeyWrapped
<1>. HIDE DEF m1
<1>2. CASE m1.got = 0
  BY <1>1, <1>2, RefusedOutcome DEF m1
<1>3. CASE m1.got # 0
  <2>. DEFINE G == F \cup K
              r == AddPair(m1, type, value)
              m2 == FreeTlvStruct(m1, m1.got)
  <2>0. F \subseteq DOMAIN m.heap
    BY DEF Holds
  <2>1. Holds(m1, G) /\ K \subseteq G /\ F = G \ K /\ TlvAt(m1.heap, m1.got)
    BY <1>1, <1>3, <2>0
  <2>. HIDE DEF G
  <2>2. ParamOutcome(r, m, F, E, S, Pair(key, type, value))
    <3>. DEFINE H == G \ TlvBlocks(m1.heap, m1.got)
    <3>1. /\ Contents(r.heap, r.want, E, Seq(Nat), S) /\ Measured(r.want)
          /\ Keeps(r, m1.heap, H)
          /\ \E L : /\ AtMostOne(L) /\ L \cap DOMAIN m1.heap = {}
                    /\ Holds(r, H \cup L)
          /\ Extended(r, m1, Cut(KEY_VALUE_PAIR_TYPE, Bytes(m1, m1.got) \o Cut(type, value)))
      BY <2>1, <1>1, AddPairGives
    <3>. HIDE DEF r
    <3>2. H = F
      BY <2>1
    <3>. HIDE DEF H
    <3>3. PICK L : AtMostOne(L) /\ L \cap DOMAIN m1.heap = {} /\ Holds(r, F \cup L)
      BY <3>1, <3>2
    <3>4. L \cap DOMAIN m.heap = {}
      BY <3>3, <1>1, <1>3
    <3>5. Keeps(r, m.heap, F)
      BY <3>1, <3>2, <1>1 DEF Keeps
    <3>6. Extended(r, m, Pair(key, type, value))
      <4>1. Extended(r, m1, Pair(key, type, value))
        BY <3>1, <1>1, <1>3 DEF Pair
      <4>. QED BY <4>1, <1>1, ExtendedBetween
    <3>. QED BY <3>1, <3>3, <3>4, <3>5, <3>6 DEF ParamOutcome
  <2>3. Refused(m2, m, F, E, S)
    <3>. DEFINE t == m1.got
    <3>0. Holds(m1, G) /\ TlvAt(m1.heap, t) /\ K \subseteq G /\ TlvBlocks(m1.heap, t) = K
      BY <2>1
    <3>. HIDE DEF K, t
    <3>1. /\ m2.want = m1.want
          /\ \A b \in DOMAIN m1.heap \ K : m2.heap[b] = m1.heap[b]
          /\ Holds(m2, G \ K)
      <4>1. Freed(FreeTlvStruct(m1, t), m1, G, K)
        BY <3>0, FreeTlvStructTakes
      <4>. QED BY <4>1 DEF t, Freed
    <3>. HIDE DEF m2
    <3>2. Holds(m2, F) /\ F \subseteq DOMAIN m1.heap \ K /\ Pointers(m1.want) \subseteq DOMAIN m1.heap \ K
      <4>1. DOMAIN m1.heap = G \cup Pointers(m1.want) /\ G \cap Pointers(m1.want) = {}
        BY <2>1 DEF Holds
      <4>. QED BY <4>1, <3>1, <2>1
    <3>3. Keeps(m2, m.heap, F)
      BY <3>1, <3>2, <1>1 DEF Keeps
    <3>4. Contents(m2.heap, m2.want, E, Seq(Nat), S) /\ Measured(m2.want)
      BY <3>1, <3>2, <1>1, ContentsKept
    <3>5. m2.want = m.want /\ (m.want.data # 0 => m2.heap[m.want.data] = m.heap[m.want.data])
      <4>1. m.want.data # 0 => m.want.data \in Pointers(m1.want)
        BY <1>1 DEF Pointers
      <4>. QED BY <4>1, <3>1, <3>2, <1>1
    <3>. QED BY <3>2, <3>3, <3>4, <3>5, RefusedOutcome
  <2>. QED BY <1>3, <2>2, <2>3 DEF m1
<1>. QED BY <1>2, <1>3

LEMMA UnchangedOutcome ==
    ASSUME NEW m, NEW F, Holds(m, F), NEW E, NEW S,
           Contents(m.heap, m.want, E, Seq(Nat), S), Measured(m.want)
    PROVE  Refused(m, m, F, E, S)
BY RefusedOutcome DEF Keeps

\* A number below 0 is refused.
LEMMA SetIntParamGives ==
    ASSUME NEW m, NEW F, Holds(m, F), NEW key \in Seq(Nat), NEW E, NEW S,
           Contents(m.heap, m.want, E, Seq(Nat), S), Measured(m.want), NEW value \in Int
    PROVE  LET r == SetIntParam(m, key, value)
           IN  /\ ParamOutcome(r, m, F, E, S, Pair(key, INT_VALUE_TYPE, IntBuffer(value)))
               /\ value < 0 => r.ok = FALSE
<1>. DEFINE m1 == EncapTlv(m, STRING_VALUE_TYPE, key)
            b  == IF value < 0 THEN <<>> ELSE IntBuffer(value)
            r  == SetIntParam(m, key, value)
            d  == Pair(key, INT_VALUE_TYPE, IntBuffer(value))
<1>1. INT_VALUE_TYPE \in Nat /\ b \in Seq(Nat)
  <2>1. value >= 0 => IntBuffer(value) \in Seq(Nat)
    <3>. SUFFICES ASSUME value \in Nat PROVE IntBuffer(value) \in Seq(Nat)
      OBVIOUS
    <3>1. /\ value \div 16777216 \in Nat /\ (value \div 65536) % 256 \in Nat
          /\ (value \div 256) % 256 \in Nat /\ value % 256 \in Nat
      OBVIOUS
    <3>. QED BY <3>1 DEF IntBuffer
  <2>. QED BY <2>1 DEF INT_VALUE_TYPE
<1>2. IF m1.got = 0 THEN Refused(m1, m, F, E, S)
      ELSE /\ ParamOutcome(AddPair(m1, INT_VALUE_TYPE, b), m, F, E, S, Pair(key, INT_VALUE_TYPE, b))
           /\ Refused(FreeTlvStruct(m1, m1.got), m, F, E, S)
  <2>. HIDE DEF b
  <2>. QED BY <1>1, PairOutcome
<1>3. Refused(m, m, F, E, S)
  BY UnchangedOutcome
<1>4. r = IF key = <<>> THEN Returns(m, FALSE)
          ELSE IF m1.got = 0 THEN Returns(m1, FALSE)
          ELSE IF value < 0 THEN Returns(FreeTlvStruct(m1, m1.got), FALSE)
          ELSE AddPair(m1, INT_VALUE_TYPE, b)
  BY DEF SetIntParam
<1>5. ~(value < 0) => Pair(key, INT_VALUE_TYPE, b) = d
  OBVIOUS
<1>. HIDE DEF m1, b, d, r
<1>6. CASE key = <<>>
  BY <1>3, <1>4, <1>6 DEF Refused, r, d
<1>7. CASE key # <<>> /\ m1.got = 0
  BY <1>2, <1>4, <1>7 DEF Refused, r, d
<1>8. CASE key # <<>> /\ m1.got # 0 /\ value < 0
  BY <1>2, <1>4, <1>8 DEF Refused, r, d
<1>9. CASE key # <<>> /\ m1.got # 0 /\ ~(value < 0)
  BY <1>2, <1>4, <1>5, <1>9 DEF r, d
<1>. QED BY <1>6, <1>7, <1>8, <1>9

LEMMA SetStrParamGives ==
    ASSUME NEW m, NEW F, Holds(m, F), NEW key \in Seq(Nat), NEW E, NEW S,
           Contents(m.heap, m.want, E, Seq(Nat), S), Measured(m.want), NEW value \in Seq(Nat)
    PROVE  ParamOutcome(SetStrParam(m, key, value), m, F, E, S, Pair(key, STRING_VALUE_TYPE, value))
<1>. DEFINE m1 == EncapTlv(m, STRING_VALUE_TYPE, key)
            d  == Pair(key, STRING_VALUE_TYPE, value)
<1>1. STRING_VALUE_TYPE \in Nat
  BY DEF STRING_VALUE_TYPE
<1>2. IF m1.got = 0 THEN Refused(m1, m, F, E, S)
      ELSE /\ ParamOutcome(AddPair(m1, STRING_VALUE_TYPE, value), m, F, E, S, d)
           /\ Refused(FreeTlvStruct(m1, m1.got), m, F, E, S)
  BY <1>1, PairOutcome
<1>3. Refused(m, m, F, E, S)
  BY UnchangedOutcome
<1>4. SetStrParam(m, key, value) =
        IF key = <<>> \/ value = <<>> THEN Returns(m, FALSE)
        ELSE IF m1.got = 0 THEN Returns(m1, FALSE)
        ELSE AddPair(m1, STRING_VALUE_TYPE, value)
  BY DEF SetStrParam
<1>. HIDE DEF m1, d
<1>5. ParamOutcome(SetStrParam(m, key, value), m, F, E, S, d)
  BY <1>2, <1>3, <1>4 DEF Refused
<1>. QED BY <1>5 DEF d


-----------------------------------------------------------------------------
(* The invariant.                                                          *)

Io == [element : Copies(Target) \cup {None}, data : Seq(Nat), sid : Start \cup {None}]

TypesOK ==
    /\ client = None \/ client \in Want
    /\ sets \in Nat
    /\ sent \in Seq(Io) /\ Len(sent) <= MaxStarts
    /\ client # None => Len(sent) < MaxStarts
    /\ toService \in Seq([start : Start, io : Io])
    /\ queue \in Seq([start : Start, want : Want])
    /\ page = None \/ page \in Page
    /\ toApp \in Seq([token : Start, state : PageState, io : Io])
    /\ tasks \in Seq([token : Start, state : PageState, want : Want])
    /\ reports \in Seq([token : Start, state : PageState])
    /\ ability \in [Start -> PageState]
    /\ told \in [Start -> Seq({"failed", "started"})]

\* The blocks of the Wants in a queue.
Blocks(s) == UNION {Pointers(s[i].want) : i \in DOMAIN s}
OfClient == IF client = None THEN {} ELSE Pointers(client)
OfPage == IF page = None THEN {} ELSE Pointers(page.want)

\* No two Wants of a queue share a block, and each is whole.
Apart(s) ==
    /\ \A i \in DOMAIN s : Whole(s[i].want)
    /\ \A i, j \in DOMAIN s : i # j => Pointers(s[i].want) \cap Pointers(s[j].want) = {}

\* Every block has one owner.
Owned ==
    /\ bad = FALSE
    /\ HeapTyped(heap)
    /\ DOMAIN heap = OfClient \cup Blocks(queue) \cup OfPage \cup Blocks(tasks)
    /\ OfClient \cap (Blocks(queue) \cup OfPage \cup Blocks(tasks)) = {}
    /\ Blocks(queue) \cap (OfPage \cup Blocks(tasks)) = {}
    /\ OfPage \cap Blocks(tasks) = {}
    /\ client # None => Whole(client)
    /\ page # None => Whole(page.want)
    /\ Apart(queue) /\ Apart(tasks)
    /\ lost \in Nat /\ lost <= sets

\* The Want w holds what was sent in io, as far as it could be copied, and the
\* identity of start n.
Carries(h, w, io, n) ==
    /\ Contents(h, w, Copies(io.element), {io.data}, {n})
    /\ Measured(w)

\* Every Want, and every message, has what its start was sent with.
Carried ==
    /\ client # None => /\ Contents(heap, client, Copies(Target), Seq(Nat), {Len(sent) + 1})
                        /\ Measured(client)
    /\ \A n \in DOMAIN sent : sent[n].element # None /\ sent[n].sid \in {None, n}
    /\ \A i \in DOMAIN toService : /\ toService[i].start \in DOMAIN sent
                                   /\ toService[i].io = sent[toService[i].start]
    /\ \A i \in DOMAIN queue : /\ queue[i].start \in DOMAIN sent
                               /\ Carries(heap, queue[i].want, sent[queue[i].start], queue[i].start)
    /\ page # None => /\ page.token \in DOMAIN sent
                      /\ Carries(heap, page.want, sent[page.token], page.token)
    /\ \A i \in DOMAIN toApp :
          LET m == toApp[i]
          IN  /\ m.token \in DOMAIN sent
              /\ m.io.element \in Copies(sent[m.token].element) \cup {None}
              /\ m.io.data \in {sent[m.token].data, <<>>}
              /\ m.io.sid \in {m.token, None}
    /\ \A i \in DOMAIN tasks : /\ tasks[i].token \in DOMAIN sent
                               /\ Carries(heap, tasks[i].want, sent[tasks[i].token], tasks[i].token)
    /\ \A i \in DOMAIN reports : reports[i].token \in DOMAIN sent

\* Nothing has been made of start n yet, and nobody told of it.
Fresh(n, calls, p, messages, ts, rs) ==
    /\ calls[n] = <<>>
    /\ p # None => p.token # n
    /\ \A i \in DOMAIN messages : messages[i].token # n
    /\ \A i \in DOMAIN ts : ts[i].token # n
    /\ \A i \in DOMAIN rs : rs[i].token # n

\* A start waits in one place, and is fresh.
Waits ==
    /\ \A i, j \in DOMAIN toService : i # j => toService[i].start # toService[j].start
    /\ \A i, j \in DOMAIN queue : i # j => queue[i].start # queue[j].start
    /\ \A i \in DOMAIN toService, j \in DOMAIN queue : toService[i].start # queue[j].start
    /\ \A i \in DOMAIN toService : Fresh(toService[i].start, told, page, toApp, tasks, reports)
    /\ \A i \in DOMAIN queue : Fresh(queue[i].start, told, page, toApp, tasks, reports)
    /\ \A n \in Start : n > Len(sent) => told[n] = <<>>

\* The identity of a start that has a page is in one place: in the page until
\* its first message, in that message, or in its task.
IdentityOnce ==
    /\ page # None /\ page.want.sid # 0 =>
          /\ page.state = "UNINITIALIZED" /\ told[page.token] = <<>>
          /\ \A i \in DOMAIN toApp : toApp[i].token # page.token
          /\ \A i \in DOMAIN tasks : tasks[i].token # page.token
          /\ \A i \in DOMAIN reports : reports[i].token # page.token
    /\ \A i \in DOMAIN toApp : toApp[i].io.sid # None =>
          /\ told[toApp[i].token] = <<>>
          /\ \A j \in DOMAIN toApp : j # i /\ toApp[j].token = toApp[i].token => toApp[j].io.sid = None
          /\ \A j \in DOMAIN tasks : tasks[j].token = toApp[i].token => tasks[j].want.sid = 0
    /\ \A i \in DOMAIN tasks : tasks[i].want.sid # 0 =>
          /\ told[tasks[i].token] = <<>>
          /\ \A j \in DOMAIN tasks : j # i /\ tasks[j].token = tasks[i].token => tasks[j].want.sid = 0

IInv == TypesOK /\ Owned /\ Carried /\ Waits /\ IdentityOnce /\ CalledOnce


-----------------------------------------------------------------------------
(* Queues.                                                                 *)

LEMMA TailFacts ==
    ASSUME NEW T, NEW s \in Seq(T), s # <<>>
    PROVE  /\ Tail(s) \in Seq(T) /\ Head(s) = s[1] /\ s[1] \in T /\ 1 \in DOMAIN s
           /\ \A i \in DOMAIN Tail(s) : Tail(s)[i] = s[i + 1] /\ i + 1 \in DOMAIN s /\ i + 1 # 1
           /\ \A i \in DOMAIN s : i # 1 => i - 1 \in DOMAIN Tail(s) /\ Tail(s)[i - 1] = s[i]
           /\ \A i, j \in DOMAIN Tail(s) : i # j => i + 1 # j + 1
<1>1. /\ Tail(s) \in Seq(T) /\ Head(s) = s[1] /\ s[1] \in T /\ Len(s) \in Nat \ {0}
      /\ Len(Tail(s)) = Len(s) - 1
      /\ DOMAIN s = 1..Len(s) /\ DOMAIN Tail(s) = 1..(Len(s) - 1)
  OBVIOUS
<1>2. \A i \in 1..(Len(s) - 1) : Tail(s)[i] = s[i + 1]
  OBVIOUS
<1>3. \A i \in 1..Len(s) : i # 1 => i - 1 \in 1..(Len(s) - 1) /\ (i - 1) + 1 = i
  BY <1>1
<1>. QED BY <1>1, <1>2, <1>3

LEMMA AppendFacts ==
    ASSUME NEW T, NEW s \in Seq(T), NEW x \in T
    PROVE  /\ Append(s, x) \in Seq(T)
           /\ Len(s) + 1 \in DOMAIN Append(s, x) /\ Append(s, x)[Len(s) + 1] = x
           /\ Len(s) + 1 \notin DOMAIN s
           /\ \A i \in DOMAIN s : i \in DOMAIN Append(s, x) /\ Append(s, x)[i] = s[i]
           /\ \A i \in DOMAIN Append(s, x) : i \in DOMAIN s \/ i = Len(s) + 1
<1>1. /\ Append(s, x) \in Seq(T) /\ Len(s) \in Nat
      /\ DOMAIN s = 1..Len(s) /\ DOMAIN Append(s, x) = 1..(Len(s) + 1)
      /\ Append(s, x)[Len(s) + 1] = x
  OBVIOUS
<1>2. \A i \in 1..Len(s) : Append(s, x)[i] = s[i]
  OBVIOUS
<1>. QED BY <1>1, <1>2

LEMMA BlocksTail ==
    ASSUME NEW T, NEW s \in Seq(T), s # <<>>, Apart(s)
    PROVE  /\ Apart(Tail(s))
           /\ Whole(Head(s).want)
           /\ Pointers(Head(s).want) \cap Blocks(Tail(s)) = {}
           /\ Blocks(s) = Pointers(Head(s).want) \cup Blocks(Tail(s))
<1>. DEFINE t == Tail(s)
<1>1. /\ Head(s) = s[1] /\ 1 \in DOMAIN s
      /\ \A i \in DOMAIN t : t[i] = s[i + 1] /\ i + 1 \in DOMAIN s /\ i + 1 # 1
      /\ \A i \in DOMAIN s : i # 1 => i - 1 \in DOMAIN t /\ t[i - 1] = s[i]
      /\ \A i, j \in DOMAIN t : i # j => i + 1 # j + 1
  BY TailFacts
<1>. HIDE DEF t
<1>2. Apart(t)
  <2>1. \A i \in DOMAIN t : Whole(t[i].want)
    BY <1>1 DEF Apart
  <2>2. ASSUME NEW i \in DOMAIN t, NEW j \in DOMAIN t, i # j
        PROVE  Pointers(t[i].want) \cap Pointers(t[j].want) = {}
    <3>1. /\ i + 1 \in DOMAIN s /\ j + 1 \in DOMAIN s /\ i + 1 # j + 1
          /\ t[i] = s[i + 1] /\ t[j] = s[j + 1]
      BY <2>2, <1>1
    <3>. QED BY <3>1 DEF Apart
  <2>. QED BY <2>1, <2>2 DEF Apart
<1>3. Whole(Head(s).want)
  BY <1>1 DEF Apart
<1>4. Pointers(Head(s).want) \cap Blocks(t) = {}
  <2>1. \A i \in DOMAIN t : Pointers(s[1].want) \cap Pointers(t[i].want) = {}
    BY <1>1 DEF Apart
  <2>. QED BY <2>1, <1>1 DEF Blocks
<1>5. Blocks(s) \subseteq Pointers(Head(s).want) \cup Blocks(t)
  BY <1>1 DEF Blocks
<1>6. Pointers(Head(s).want) \cup Blocks(t) \subseteq Blocks(s)
  BY <1>1 DEF Blocks
<1>. QED BY <1>2, <1>3, <1>4, <1>5, <1>6 DEF t

LEMMA BlocksAppend ==
    ASSUME NEW T, NEW s \in Seq(T), NEW x \in T, Apart(s),
           Whole(x.want), Pointers(x.want) \cap Blocks(s) = {}
    PROVE  /\ Apart(Append(s, x))
           /\ Blocks(Append(s, x)) = Blocks(s) \cup Pointers(x.want)
<1>. DEFINE t == Append(s, x)
            n == Len(s) + 1
<1>1. /\ n \in DOMAIN t /\ t[n] = x /\ n \notin DOMAIN s
      /\ \A i \in DOMAIN s : i \in DOMAIN t /\ t[i] = s[i]
      /\ \A i \in DOMAIN t : i \in DOMAIN s \/ i = n
  BY AppendFacts
<1>. HIDE DEF t, n
<1>2. \A i \in DOMAIN s : Pointers(x.want) \cap Pointers(s[i].want) = {}
  BY DEF Blocks
<1>3. Apart(t)
  <2>1. \A i \in DOMAIN t : Whole(t[i].want)
    BY <1>1 DEF Apart
  <2>2. ASSUME NEW i \in DOMAIN t, NEW j \in DOMAIN t, i # j
        PROVE  Pointers(t[i].want) \cap Pointers(t[j].want) = {}
    <3>1. CASE i \in DOMAIN s /\ j \in DOMAIN s
      BY <3>1, <2>2, <1>1 DEF Apart
    <3>2. CASE i = n
      BY <3>2, <2>2, <1>1, <1>2
    <3>3. CASE j = n
      BY <3>3, <2>2, <1>1, <1>2
    <3>. QED BY <3>1, <3>2, <3>3, <1>1
  <2>. QED BY <2>1, <2>2 DEF Apart
<1>4. Blocks(t) \subseteq Blocks(s) \cup Pointers(x.want)
  BY <1>1 DEF Blocks
<1>5. Blocks(s) \cup Pointers(x.want) \subseteq Blocks(t)
  BY <1>1 DEF Blocks
<1>. QED BY <1>3, <1>4, <1>5 DEF t

LEMMA BlocksEmpty == Blocks(<<>>) = {} /\ Apart(<<>>)
BY DEF Blocks, Apart

\* The Wants of a queue have their blocks among those of the queue.
LEMMA InBlocks ==
    ASSUME NEW s, NEW i \in DOMAIN s
    PROVE  Pointers(s[i].want) \subseteq Blocks(s)
BY DEF Blocks

\* A copy of a copy is a copy.
LEMMA CopiesOfCopies ==
    ASSUME NEW e, NEW f \in Copies(e)
    PROVE  Copies(f) \subseteq Copies(e)
BY DEF Copies

LEMMA CarriesKept ==
    ASSUME NEW h, NEW w, NEW io, NEW n, Carries(h, w, io, n),
           NEW g, \A b \in Pointers(w) : g[b] = h[b]
    PROVE  Carries(g, w, io, n)
BY ContentsKept DEF Carries


-----------------------------------------------------------------------------
(* The client.                                                             *)

Others == DOMAIN heap \ OfClient

LEMMA NotNone ==
    /\ \A w \in Want : w # None
    /\ \A p \in Page : p # None
    /\ \A e \in Copies(Target) : e # None
BY WantsAssumption

\* A call of the client changes its Want and the blocks of it.
LEMMA FilledKeeps ==
    ASSUME IInv, client # None,
           NEW m, Holds(m, Others), Keeps(m, heap, Others),
           Contents(m.heap, m.want, Copies(Target), Seq(Nat), {Len(sent) + 1}), Measured(m.want),
           FillsIn(m), lost' \in Nat, lost' <= lost + 1
    PROVE  IInv'
<1>1. /\ heap' = m.heap /\ bad' = (bad \/ m.bad) /\ client' = m.want /\ sets' = sets + 1
      /\ UNCHANGED <<sent, toService, queue, page, toApp, tasks, reports, ability, told>>
  BY DEF FillsIn, Memory, serviceVars, appVars
<1>2. /\ m.bad = FALSE /\ HeapTyped(m.heap) /\ Whole(m.want) /\ m.want \in Want
      /\ DOMAIN m.heap = Others \cup Pointers(m.want) /\ Others \cap Pointers(m.want) = {}
  BY DEF Holds, Whole
<1>3. client' # None /\ OfClient' = Pointers(m.want)
  BY <1>1, <1>2, NotNone DEF OfClient
<1>4. OfPage' = OfPage /\ Blocks(queue)' = Blocks(queue) /\ Blocks(tasks)' = Blocks(tasks)
  BY <1>1 DEF OfPage, Blocks
<1>5. /\ Others = Blocks(queue) \cup OfPage \cup Blocks(tasks)
      /\ Blocks(queue) \cap (OfPage \cup Blocks(tasks)) = {}
      /\ OfPage \cap Blocks(tasks) = {}
  BY DEF IInv, Owned, Others
<1>6. TypesOK'
  BY <1>1, <1>2 DEF IInv, TypesOK
<1>7. Owned'
  <2>1. bad' = FALSE /\ HeapTyped(heap')
    BY <1>1, <1>2 DEF IInv, Owned
  <2>2. DOMAIN heap' = OfClient' \cup Blocks(queue)' \cup OfPage' \cup Blocks(tasks)'
    BY <1>1, <1>2, <1>3, <1>4, <1>5
  <2>3. /\ OfClient' \cap (Blocks(queue)' \cup OfPage' \cup Blocks(tasks)') = {}
        /\ Blocks(queue)' \cap (OfPage' \cup Blocks(tasks)') = {}
        /\ OfPage' \cap Blocks(tasks)' = {}
    BY <1>2, <1>3, <1>4, <1>5
  <2>4. /\ Whole(client') /\ (page' # None => Whole(page'.want))
        /\ Apart(queue') /\ Apart(tasks')
    BY <1>1, <1>2 DEF IInv, Owned
  <2>5. lost' \in Nat /\ lost' <= sets'
    BY <1>1 DEF IInv, Owned, TypesOK
  <2>. QED BY <2>1, <2>2, <2>3, <2>4, <2>5 DEF Owned
<1>8. Carried'
  <2>1. \A b \in Others : heap'[b] = heap[b]
    BY <1>1 DEF Keeps
  <2>2. \A i \in DOMAIN queue : Carries(heap', queue[i].want, sent[queue[i].start], queue[i].start)
    <3>. TAKE i \in DOMAIN queue
    <3>1. Pointers(queue[i].want) \subseteq Others
      BY <1>5, InBlocks
    <3>2. Carries(heap, queue[i].want, sent[queue[i].start], queue[i].start)
      BY DEF IInv, Carried
    <3>. QED BY <3>1, <3>2, <2>1, CarriesKept
  <2>3. \A i \in DOMAIN tasks : Carries(heap', tasks[i].want, sent[tasks[i].token], tasks[i].token)
    <3>. TAKE i \in DOMAIN tasks
    <3>1. Pointers(tasks[i].want) \subseteq Others
      BY <1>5, InBlocks
    <3>2. Carries(heap, tasks[i].want, sent[tasks[i].token], tasks[i].token)
      BY DEF IInv, Carried
    <3>. QED BY <3>1, <3>2, <2>1, CarriesKept
  <2>4. page # None => Carries(heap', page.want, sent[page.token], page.token)
    <3>. HAVE page # None
    <3>1. Pointers(page.want) \subseteq Others
      BY <1>5 DEF OfPage
    <3>2. Carries(heap, page.want, sent[page.token], page.token)
      BY DEF IInv, Carried
    <3>. QED BY <3>1, <3>2, <2>1, CarriesKept
  <2>5. /\ \A n \in DOMAIN sent : sent[n].element # None /\ sent[n].sid \in {None, n}
        /\ \A i \in DOMAIN toService : /\ toService[i].start \in DOMAIN sent
                                       /\ toService[i].io = sent[toService[i].start]
        /\ \A i \in DOMAIN queue : queue[i].start \in DOMAIN sent
        /\ page # None => page.token \in DOMAIN sent
        /\ \A i \in DOMAIN toApp :
              LET n == toApp[i]
              IN  /\ n.token \in DOMAIN sent
                  /\ n.io.element \in Copies(sent[n.token].element) \cup {None}
                  /\ n.io.data \in {sent[n.token].data, <<>>}
                  /\ n.io.sid \in {n.token, None}
        /\ \A i \in DOMAIN tasks : tasks[i].token \in DOMAIN sent
        /\ \A i \in DOMAIN reports : reports[i].token \in DOMAIN sent
    BY DEF IInv, Carried
  <2>6. Contents(heap', client', Copies(Target), Seq(Nat), {Len(sent') + 1}) /\ Measured(client')
    BY <1>1
  <2>. QED BY <1>1, <2>2, <2>3, <2>4, <2>5, <2>6 DEF Carried
<1>9. Waits' /\ IdentityOnce' /\ CalledOnce'
  BY <1>1 DEF IInv, Waits, Fresh, IdentityOnce, CalledOnce
<1>. QED BY <1>6, <1>7, <1>8, <1>9 DEF IInv


LEMMA ClientCall ==
    ASSUME IInv, client # None, NEW fails
    PROVE  LET m == Call(heap, client, fails)
           IN  /\ Holds(m, Others) /\ Keeps(m, heap, Others) /\ m.heap = heap /\ m.want = client
               /\ Contents(m.heap, m.want, Copies(Target), Seq(Nat), {Len(sent) + 1})
               /\ Measured(m.want) /\ m.ok = TRUE
<1>. DEFINE m == Call(heap, client, fails)
<1>1. /\ HeapTyped(heap) /\ Whole(client) /\ Pointers(client) \subseteq DOMAIN heap
      /\ Others = DOMAIN heap \ Pointers(client)
  BY DEF IInv, Owned, OfClient, Others
<1>2. /\ Holds(m, DOMAIN heap \ Pointers(client))
      /\ m.heap = heap /\ m.want = client /\ m.ok = TRUE
  BY <1>1, CallHolds
<1>. HIDE DEF m
<1>3. Contents(heap, client, Copies(Target), Seq(Nat), {Len(sent) + 1}) /\ Measured(client)
  BY DEF IInv, Carried
<1>4. Keeps(m, heap, Others)
  BY <1>2 DEF Keeps
<1>. QED BY <1>1, <1>2, <1>3, <1>4 DEF m

LEMMA FillElementKeeps ==
    ASSUME IInv, NEW fails, FillElement(fails)
    PROVE  IInv'
<1>. DEFINE m == Call(heap, client, fails)
            r == SetWantElement(m, Target)
<1>1. client # None /\ FillsIn(r) /\ lost' = lost
  BY DEF FillElement, FillsIn
<1>2. /\ Holds(m, Others) /\ Keeps(m, heap, Others) /\ m.heap = heap /\ m.want = client
      /\ Contents(m.heap, m.want, Copies(Target), Seq(Nat), {Len(sent) + 1})
      /\ Measured(m.want) /\ m.ok = TRUE
  BY <1>1, ClientCall
<1>. HIDE DEF m
<1>3. /\ Holds(r, Others) /\ Keeps(r, m.heap, Others)
      /\ Contents(r.heap, r.want, Copies(Target), Seq(Nat), {Len(sent) + 1}) /\ Measured(r.want)
      /\ r.want.data = m.want.data /\ r.want.sid = m.want.sid
      /\ r.ok => r.want.element # 0
  BY <1>2, SetWantElementGives
<1>4. lost' \in Nat /\ lost' <= lost + 1
  BY <1>1 DEF IInv, Owned
<1>. HIDE DEF r
<1>. QED BY <1>1, <1>2, <1>3, <1>4, FilledKeeps

LEMMA FillIdentityKeeps ==
    ASSUME IInv, NEW fails, FillIdentity(fails)
    PROVE  IInv'
<1>. DEFINE m == Call(heap, client, fails)
            n == Len(sent) + 1
            r == SetWantSvcIdentity(m, n)
<1>1. client # None /\ FillsIn(r) /\ lost' = lost
  BY DEF FillIdentity, FillsIn
<1>2. /\ Holds(m, Others) /\ Keeps(m, heap, Others) /\ m.heap = heap /\ m.want = client
      /\ Contents(m.heap, m.want, Copies(Target), Seq(Nat), {n})
      /\ Measured(m.want) /\ m.ok = TRUE
  BY <1>1, ClientCall
<1>. HIDE DEF m, n
<1>3. /\ Holds(r, Others) /\ Keeps(r, m.heap, Others)
      /\ Contents(r.heap, r.want, Copies(Target), Seq(Nat), {n}) /\ Measured(r.want)
      /\ r.want.element = m.want.element /\ r.want.data = m.want.data
  BY <1>2, SetWantSvcIdentityGives
<1>4. lost' \in Nat /\ lost' <= lost + 1
  BY <1>1 DEF IInv, Owned
<1>. HIDE DEF r
<1>. QED BY <1>1, <1>2, <1>3, <1>4, FilledKeeps DEF n

LEMMA FillDataKeeps ==
    ASSUME IInv, NEW fails, FillData(fails)
    PROVE  IInv'
<1>. DEFINE m == Call(heap, client, fails)
            r == SetWantData(m, Raw)
            S == {Len(sent) + 1}
            D == Seq(Nat)
<1>1. client # None /\ FillsIn(r) /\ lost' = lost
  BY DEF FillData, FillsIn
<1>2. /\ Holds(m, Others) /\ Keeps(m, heap, Others) /\ m.heap = heap /\ m.want = client
      /\ Contents(m.heap, m.want, Copies(Target), D, S)
      /\ Measured(m.want) /\ m.ok = TRUE
  BY <1>1, ClientCall
<1>20. Raw \in Seq(Nat)
  BY WantsAssumption
<1>. HIDE DEF m, S
<1>3. /\ Holds(r, Others) /\ Keeps(r, m.heap, Others)
      /\ Contents(r.heap, r.want, Copies(Target), {Raw}, S) /\ Measured(r.want)
      /\ r.want.element = m.want.element /\ r.want.sid = m.want.sid
  <2>. HIDE DEF D
  <2>. QED BY <1>2, <1>20, SetWantDataGives
<1>. HIDE DEF r
<1>30. Contents(r.heap, r.want, Copies(Target), Seq(Nat), S)
  BY <1>3, <1>20 DEF Contents
<1>4. lost' \in Nat /\ lost' <= lost + 1
  BY <1>1 DEF IInv, Owned
<1>. QED BY <1>1, <1>2, <1>3, <1>30, <1>4, FilledKeeps DEF S

\* The block that a setter leaves behind is taken out of the heap.
LEMMA WithoutLostHolds ==
    ASSUME IInv, client # None, NEW m, NEW L, AtMostOne(L), L \cap DOMAIN heap = {},
           Holds(m, Others \cup L), Keeps(m, heap, Others), NEW E, NEW D, NEW S,
           Contents(m.heap, m.want, E, D, S)
    PROVE  LET r == WithoutLost(m)
           IN  /\ Holds(r, Others) /\ Keeps(r, heap, Others) /\ r.want = m.want
               /\ Contents(r.heap, r.want, E, D, S)
               /\ Cardinality(LostBlocks(m)) \in {0, 1}
<1>. DEFINE r == WithoutLost(m)
<1>1. /\ DOMAIN m = Fields /\ m.bad = FALSE /\ HeapTyped(m.heap) /\ Whole(m.want)
      /\ DOMAIN m.heap = (Others \cup L) \cup Pointers(m.want)
      /\ (Others \cup L) \cap Pointers(m.want) = {}
  BY DEF Holds
<1>2. LostBlocks(m) = L
  BY <1>1 DEF LostBlocks, Others
<1>3. Cardinality(L) \in {0, 1}
  BY FS_EmptySet, FS_Singleton DEF AtMostOne
<1>4. /\ DOMAIN r = Fields /\ r.bad = m.bad /\ r.want = m.want
      /\ r.heap = [b \in DOMAIN m.heap \ L |-> m.heap[b]]
  BY <1>1, <1>2 DEF WithoutLost, Fields
<1>. HIDE DEF r
<1>5. HeapTyped(r.heap)
  <2>1. IsFiniteSet(DOMAIN m.heap \ L)
    BY <1>1, FS_Difference DEF HeapTyped
  <2>. QED BY <2>1, <1>1, <1>4 DEF HeapTyped
<1>6. DOMAIN m.heap \ L = Others \cup Pointers(m.want)
  <2>1. Others \cap L = {}
    BY DEF Others
  <2>. QED BY <2>1, <1>1
<1>7. Holds(r, Others)
  BY <1>1, <1>4, <1>5, <1>6 DEF Holds
<1>8. Keeps(r, heap, Others)
  BY <1>4, <1>6 DEF Keeps
<1>9. Contents(r.heap, r.want, E, D, S)
  BY <1>4, <1>6 DEF Contents, Pointers
<1>. QED BY <1>2, <1>3, <1>4, <1>7, <1>8, <1>9 DEF r

\* The type and the bytes of the value of a parameter.
TypeOf(p) == IF p \in IntParam THEN INT_VALUE_TYPE ELSE STRING_VALUE_TYPE
BytesOf(p) == IF p \in IntParam THEN IntBuffer(ValueOf[p]) ELSE ValueOf[p]

\* A setter that succeeds has added the pair of its parameter, and with a number
\* below 0 it does not succeed.
LEMMA ParamSet ==
    ASSUME IInv, client # None, NEW p \in Param, NEW fails
    PROVE  LET r == SetParam(p, fails)
           IN  /\ ParamOutcome(r, Call(heap, client, fails), Others, Copies(Target), {Len(sent) + 1},
                               Pair(KeyOf[p], TypeOf(p), BytesOf(p)))
               /\ p \in IntParam /\ ValueOf[p] < 0 => r.ok = FALSE
<1>. DEFINE m == Call(heap, client, fails)
            S == {Len(sent) + 1}
            E == Copies(Target)
            r == SetParam(p, fails)
            d == Pair(KeyOf[p], TypeOf(p), BytesOf(p))
<1>1. /\ Holds(m, Others) /\ Contents(m.heap, m.want, E, Seq(Nat), S) /\ Measured(m.want)
  BY ClientCall
<1>2. KeyOf[p] \in Seq(Nat)
  BY WantsAssumption
<1>3. r = IF p \in IntParam THEN SetIntParam(m, KeyOf[p], ValueOf[p])
          ELSE SetStrParam(m, KeyOf[p], ValueOf[p])
  BY DEF SetParam
<1>. HIDE DEF m, S, E, r
<1>4. CASE p \in IntParam
  <2>1. ValueOf[p] \in Int
    BY <1>4, WantsAssumption
  <2>2. d = Pair(KeyOf[p], INT_VALUE_TYPE, IntBuffer(ValueOf[p]))
    BY <1>4 DEF TypeOf, BytesOf
  <2>3. r = SetIntParam(m, KeyOf[p], ValueOf[p])
    BY <1>3, <1>4
  <2>. HIDE DEF d
  <2>4. /\ ParamOutcome(r, m, Others, E, S, d)
        /\ ValueOf[p] < 0 => r.ok = FALSE
    BY <2>1, <2>2, <2>3, <1>1, <1>2, SetIntParamGives
  <2>. QED BY <2>4 DEF m, S, E, r, d
<1>5. CASE p \notin IntParam
  <2>1. ValueOf[p] \in Seq(Nat)
    BY <1>5, WantsAssumption
  <2>2. d = Pair(KeyOf[p], STRING_VALUE_TYPE, ValueOf[p])
    BY <1>5 DEF TypeOf, BytesOf
  <2>3. r = SetStrParam(m, KeyOf[p], ValueOf[p])
    BY <1>3, <1>5
  <2>. HIDE DEF d
  <2>4. ParamOutcome(r, m, Others, E, S, d)
    BY <2>1, <2>2, <2>3, <1>1, <1>2, SetStrParamGives
  <2>. QED BY <2>4, <1>5 DEF m, S, E, r, d
<1>. QED BY <1>4, <1>5

LEMMA FillParamKeeps ==
    ASSUME IInv, NEW p \in Param, NEW fails, FillParam(p, fails)
    PROVE  IInv'
<1>. DEFINE m == Call(heap, client, fails)
            r == SetParam(p, fails)
            w == WithoutLost(r)
            S == {Len(sent) + 1}
            E == Copies(Target)
<1>1. client # None /\ FillsIn(w) /\ lost' = lost + Cardinality(LostBlocks(r))
  BY DEF FillParam, FillsIn
<1>2. /\ Holds(m, Others) /\ Keeps(m, heap, Others) /\ m.heap = heap /\ m.want = client
      /\ Contents(m.heap, m.want, E, Seq(Nat), S)
      /\ Measured(m.want) /\ m.ok = TRUE
  BY <1>1, ClientCall
<1>. DEFINE d == Pair(KeyOf[p], TypeOf(p), BytesOf(p))
<1>3. ParamOutcome(r, m, Others, E, S, d)
  BY <1>1, ParamSet
<1>. HIDE DEF m, S, E, r, d
<1>4. PICK L : AtMostOne(L) /\ L \cap DOMAIN heap = {} /\ Holds(r, Others \cup L)
  BY <1>2, <1>3 DEF ParamOutcome
<1>5. /\ Contents(r.heap, r.want, E, Seq(Nat), S) /\ Measured(r.want) /\ Keeps(r, heap, Others)
  BY <1>2, <1>3 DEF ParamOutcome
<1>6. /\ Holds(w, Others) /\ Keeps(w, heap, Others) /\ w.want = r.want
      /\ Contents(w.heap, w.want, E, Seq(Nat), S)
      /\ Cardinality(LostBlocks(r)) \in {0, 1}
  <2>. DEFINE D == Seq(Nat)
  <2>. HIDE DEF D
  <2>1. Contents(r.heap, r.want, E, D, S)
    BY <1>5 DEF D
  <2>2. /\ Holds(w, Others) /\ Keeps(w, heap, Others) /\ w.want = r.want
        /\ Contents(w.heap, w.want, E, D, S)
        /\ Cardinality(LostBlocks(r)) \in {0, 1}
    BY <2>1, <1>1, <1>4, <1>5, WithoutLostHolds
  <2>. QED BY <2>2 DEF D
<1>. HIDE DEF w
<1>7. lost' \in Nat /\ lost' <= lost + 1
  BY <1>1, <1>6 DEF IInv, Owned
<1>8. Measured(w.want)
  BY <1>5, <1>6
<1>. QED BY <1>1, <1>6, <1>7, <1>8, FilledKeeps DEF S, E


LEMMA NewWantKeeps ==
    ASSUME IInv, NewWant
    PROVE  IInv'
<1>1. /\ client = None /\ client' = NoWant /\ Len(sent) < MaxStarts
      /\ UNCHANGED <<heap, bad, lost, sets, sent, toService, queue, page, toApp, tasks, reports,
                     ability, told>>
  BY DEF NewWant, serviceVars, appVars
<1>2. NoWant \in Want /\ Whole(NoWant) /\ Pointers(NoWant) = {} /\ Measured(NoWant)
  BY NoWantWhole DEF Whole
<1>3. OfClient = {} /\ OfClient' = {}
  BY <1>1, <1>2 DEF OfClient
<1>4. TypesOK'
  BY <1>1, <1>2 DEF IInv, TypesOK
<1>5. Owned'
  <2>1. OfPage' = OfPage /\ Blocks(queue)' = Blocks(queue) /\ Blocks(tasks)' = Blocks(tasks)
    BY <1>1 DEF OfPage, Blocks
  <2>. QED BY <2>1, <1>1, <1>2, <1>3 DEF IInv, Owned
<1>6. Carried'
  <2>1. Contents(heap, NoWant, Copies(Target), Seq(Nat), {Len(sent) + 1})
    BY DEF Contents, NoWant
  <2>. QED BY <2>1, <1>1, <1>2 DEF IInv, Carried
<1>7. Waits' /\ IdentityOnce' /\ CalledOnce'
  BY <1>1 DEF IInv, Waits, Fresh, IdentityOnce, CalledOnce
<1>. QED BY <1>4, <1>5, <1>6, <1>7 DEF IInv

\* What a Want is written as.
LEMMA WrittenFacts ==
    ASSUME NEW h, NEW w, NEW E, NEW D, NEW S, Contents(h, w, E, D, S), Measured(w)
    PROVE  LET io == Written(h, w)
           IN  /\ io = [element |-> io.element, data |-> io.data, sid |-> io.sid]
               /\ io.element \in E \cup {None} /\ io.data \in D \cup {<<>>} /\ io.sid \in S \cup {None}
               /\ w.element # 0 => io.element \in E
               /\ w.sid = 0 => io.sid = None
BY DEF Written, Contents, Measured

\* What was sent is kept when more is sent.
LEMMA SentKept ==
    ASSUME sent \in Seq(Io), NEW io \in Io, sent' = Append(sent, io)
    PROVE  /\ sent' \in Seq(Io) /\ Len(sent') = Len(sent) + 1
           /\ \A n \in DOMAIN sent : n \in DOMAIN sent' /\ sent'[n] = sent[n] /\ n # Len(sent) + 1
           /\ \A n \in DOMAIN sent' : n \in DOMAIN sent \/ n = Len(sent) + 1
           /\ Len(sent) + 1 \in DOMAIN sent' /\ sent'[Len(sent) + 1] = io
<1>1. /\ Append(sent, io) \in Seq(Io)
      /\ Len(sent) + 1 \in DOMAIN Append(sent, io) /\ Append(sent, io)[Len(sent) + 1] = io
      /\ Len(sent) + 1 \notin DOMAIN sent
      /\ \A i \in DOMAIN sent : i \in DOMAIN Append(sent, io) /\ Append(sent, io)[i] = sent[i]
      /\ \A i \in DOMAIN Append(sent, io) : i \in DOMAIN sent \/ i = Len(sent) + 1
  BY AppendFacts
<1>2. Len(Append(sent, io)) = Len(sent) + 1
  OBVIOUS
<1>. QED BY <1>1, <1>2

LEMMA SendStartKeeps ==
    ASSUME IInv, SendStart
    PROVE  IInv'
<1>. DEFINE n  == Len(sent) + 1
            io == Written(heap, client)
            m  == Call(heap, client, {})
            r  == ClearWant(m)
<1>1. /\ client # None /\ client.element # 0
      /\ sent' = Append(sent, io)
      /\ toService' \in {Append(toService, [start |-> n, io |-> io]), toService}
      /\ heap' = r.heap /\ bad' = (bad \/ r.bad) /\ client' = None /\ lost' = 0
      /\ UNCHANGED <<sets, queue, page, toApp, tasks, reports, ability, told>>
  BY DEF SendStart, Memory, appVars
<1>2. /\ Holds(m, Others) /\ Keeps(m, heap, Others) /\ m.heap = heap /\ m.want = client
      /\ Contents(m.heap, m.want, Copies(Target), Seq(Nat), {n})
      /\ Measured(m.want) /\ m.ok = TRUE
  BY <1>1, ClientCall
<1>. HIDE DEF m
<1>3. /\ Pointers(r.want) = {} /\ r.ok = m.ok
      /\ \A x \in Others : r.heap[x] = m.heap[x]
      /\ Holds(r, Others)
      /\ DOMAIN r.heap = Others /\ HeapTyped(r.heap) /\ r.bad = FALSE
  BY <1>2, ClearWantTakes
<1>. HIDE DEF r
<1>4. /\ sent \in Seq(Io) /\ Len(sent) \in Nat /\ Len(sent) < MaxStarts /\ DOMAIN sent = 1..Len(sent)
      /\ n \in Start
  BY <1>1, WantsAssumption DEF IInv, TypesOK, Start
<1>5. /\ io = [element |-> io.element, data |-> io.data, sid |-> io.sid]
      /\ io.element \in Copies(Target) /\ io.data \in Seq(Nat) \cup {<<>>} /\ io.sid \in {n} \cup {None}
  <2>. DEFINE D == Seq(Nat)
              E == Copies(Target)
  <2>1. Contents(heap, client, E, D, {n}) /\ Measured(client)
    BY <1>2
  <2>. HIDE DEF D, E, n
  <2>2. /\ io = [element |-> io.element, data |-> io.data, sid |-> io.sid]
        /\ io.element \in E \cup {None} /\ io.data \in D \cup {<<>>} /\ io.sid \in {n} \cup {None}
        /\ client.element # 0 => io.element \in E
        /\ client.sid = 0 => io.sid = None
    BY <2>1, WrittenFacts
  <2>. QED BY <2>2, <1>1 DEF D, E
<1>. HIDE DEF io
<1>50. io \in Io
  <2>. HIDE DEF n
  <2>0. <<>> \in Seq(Nat)
    OBVIOUS
  <2>1. /\ io.element \in Copies(Target) \cup {None}
        /\ io.data \in Seq(Nat)
        /\ io.sid \in Start \cup {None}
    <3>. DEFINE D == Seq(Nat)
    <3>. HIDE DEF D
    <3>1. io.data \in D /\ io.element \in Copies(Target) /\ io.sid \in Start \cup {None}
      BY <1>4, <1>5, <2>0 DEF D
    <3>. QED BY <3>1 DEF D
  <2>. QED BY <2>1, <1>5 DEF Io
<1>51. io.element # None
  BY <1>5, NotNone
<1>6. /\ sent' \in Seq(Io) /\ Len(sent') = n
      /\ \A i \in DOMAIN sent : i \in DOMAIN sent' /\ sent'[i] = sent[i] /\ i # n
      /\ \A i \in DOMAIN sent' : i \in DOMAIN sent \/ i = n
      /\ n \in DOMAIN sent' /\ sent'[n] = io
  BY <1>1, <1>4, <1>50, SentKept
<1>. DEFINE msg == [start |-> n, io |-> io]
            T == [start : Start, io : Io]
<1>7. toService \in Seq(T) /\ msg \in T /\ msg.start = n /\ msg.io = io
  BY <1>4, <1>50 DEF IInv, TypesOK
<1>. HIDE DEF msg
<1>8. /\ toService' \in Seq(T)
      /\ \A i \in DOMAIN toService' :
            \/ i \in DOMAIN toService /\ toService'[i] = toService[i]
            \/ i = Len(toService) + 1 /\ i \notin DOMAIN toService /\ toService'[i] = msg
  <2>1. CASE toService' = toService
    BY <2>1, <1>7
  <2>2. CASE toService' = Append(toService, msg)
    <3>. HIDE DEF T
    <3>1. /\ Append(toService, msg) \in Seq(T)
          /\ Len(toService) + 1 \in DOMAIN Append(toService, msg)
          /\ Append(toService, msg)[Len(toService) + 1] = msg
          /\ Len(toService) + 1 \notin DOMAIN toService
          /\ \A i \in DOMAIN toService : /\ i \in DOMAIN Append(toService, msg)
                                         /\ Append(toService, msg)[i] = toService[i]
          /\ \A i \in DOMAIN Append(toService, msg) : i \in DOMAIN toService \/ i = Len(toService) + 1
      BY <1>7, AppendFacts
    <3>. QED BY <2>2, <3>1
  <2>. QED BY <2>1, <2>2, <1>1 DEF msg
<1>. HIDE DEF T
<1>9. TypesOK'
  <2>1. Len(sent') <= MaxStarts
    BY <1>4, <1>6, WantsAssumption
  <2>. QED BY <2>1, <1>1, <1>6, <1>8 DEF IInv, TypesOK, T
<1>10. Owned'
  <2>1. OfPage' = OfPage /\ Blocks(queue)' = Blocks(queue) /\ Blocks(tasks)' = Blocks(tasks)
        /\ OfClient' = {}
    BY <1>1 DEF OfPage, OfClient, Blocks
  <2>2. /\ Others = Blocks(queue) \cup OfPage \cup Blocks(tasks)
        /\ Blocks(queue) \cap (OfPage \cup Blocks(tasks)) = {}
        /\ OfPage \cap Blocks(tasks) = {}
    BY DEF IInv, Owned, Others
  <2>3. bad' = FALSE /\ HeapTyped(heap') /\ DOMAIN heap' = Others
    BY <1>1, <1>3 DEF IInv, Owned
  <2>4. (page' # None => Whole(page'.want)) /\ Apart(queue') /\ Apart(tasks')
    BY <1>1 DEF IInv, Owned
  <2>5. lost' \in Nat /\ lost' <= sets'
    BY <1>1 DEF IInv, TypesOK
  <2>. QED BY <2>1, <2>2, <2>3, <2>4, <2>5, <1>1 DEF Owned
<1>11. Carried'
  <2>1. \A b \in Others : heap'[b] = heap[b]
    BY <1>1, <1>2, <1>3
  <2>0. Others = Blocks(queue) \cup OfPage \cup Blocks(tasks)
    BY DEF IInv, Owned, Others
  <2>2. \A i \in DOMAIN queue : /\ queue[i].start \in DOMAIN sent'
                                /\ Carries(heap', queue[i].want, sent'[queue[i].start], queue[i].start)
    <3>. TAKE i \in DOMAIN queue
    <3>1. Pointers(queue[i].want) \subseteq Others
      BY <2>0, InBlocks
    <3>2. /\ queue[i].start \in DOMAIN sent
          /\ Carries(heap, queue[i].want, sent[queue[i].start], queue[i].start)
      BY DEF IInv, Carried
    <3>3. Carries(heap', queue[i].want, sent[queue[i].start], queue[i].start)
      BY <3>1, <3>2, <2>1, CarriesKept
    <3>. QED BY <3>2, <3>3, <1>6
  <2>3. \A i \in DOMAIN tasks : /\ tasks[i].token \in DOMAIN sent'
                                /\ Carries(heap', tasks[i].want, sent'[tasks[i].token], tasks[i].token)
    <3>. TAKE i \in DOMAIN tasks
    <3>1. Pointers(tasks[i].want) \subseteq Others
      BY <2>0, InBlocks
    <3>2. /\ tasks[i].token \in DOMAIN sent
          /\ Carries(heap, tasks[i].want, sent[tasks[i].token], tasks[i].token)
      BY DEF IInv, Carried
    <3>3. Carries(heap', tasks[i].want, sent[tasks[i].token], tasks[i].token)
      BY <3>1, <3>2, <2>1, CarriesKept
    <3>. QED BY <3>2, <3>3, <1>6
  <2>4. page # None => /\ page.token \in DOMAIN sent'
                       /\ Carries(heap', page.want, sent'[page.token], page.token)
    <3>. HAVE page # None
    <3>1. Pointers(page.want) \subseteq Others
      BY <2>0 DEF OfPage
    <3>2. page.token \in DOMAIN sent /\ Carries(heap, page.want, sent[page.token], page.token)
      BY DEF IInv, Carried
    <3>3. Carries(heap', page.want, sent[page.token], page.token)
      BY <3>1, <3>2, <2>1, CarriesKept
    <3>. QED BY <3>2, <3>3, <1>6
  <2>5. \A i \in DOMAIN sent' : sent'[i].element # None /\ sent'[i].sid \in {None, i}
    <3>. TAKE i \in DOMAIN sent'
    <3>1. CASE i \in DOMAIN sent
      BY <3>1, <1>6 DEF IInv, Carried
    <3>2. CASE i = n
      BY <3>2, <1>5, <1>51, <1>6
    <3>. QED BY <3>1, <3>2, <1>6
  <2>6. \A i \in DOMAIN toService' : /\ toService'[i].start \in DOMAIN sent'
                                     /\ toService'[i].io = sent'[toService'[i].start]
    <3>. TAKE i \in DOMAIN toService'
    <3>1. CASE i \in DOMAIN toService /\ toService'[i] = toService[i]
      BY <3>1, <1>6 DEF IInv, Carried
    <3>2. CASE toService'[i] = msg
      BY <3>2, <1>6, <1>7
    <3>. QED BY <3>1, <3>2, <1>8
  <2>7. \A i \in DOMAIN toApp :
              LET k == toApp[i]
              IN  /\ k.token \in DOMAIN sent'
                  /\ k.io.element \in Copies(sent'[k.token].element) \cup {None}
                  /\ k.io.data \in {sent'[k.token].data, <<>>}
                  /\ k.io.sid \in {k.token, None}
    <3>. TAKE i \in DOMAIN toApp
    <3>1. /\ toApp[i].token \in DOMAIN sent
          /\ toApp[i].io.element \in Copies(sent[toApp[i].token].element) \cup {None}
          /\ toApp[i].io.data \in {sent[toApp[i].token].data, <<>>}
          /\ toApp[i].io.sid \in {toApp[i].token, None}
      BY DEF IInv, Carried
    <3>. QED BY <3>1, <1>6
  <2>8. \A i \in DOMAIN reports : reports[i].token \in DOMAIN sent'
    BY <1>6 DEF IInv, Carried
  <2>. QED BY <1>1, <2>2, <2>3, <2>4, <2>5, <2>6, <2>7, <2>8 DEF Carried
<1>12. Waits'
  <2>1. Fresh(n, told, page, toApp, tasks, reports)
    <3>1. told[n] = <<>>
      BY <1>4 DEF IInv, Waits
    <3>2. n \notin DOMAIN sent
      BY <1>4
    <3>. QED BY <3>1, <3>2 DEF IInv, Carried, Fresh
  <2>2. \A i \in DOMAIN toService : /\ toService[i].start # n
                                    /\ Fresh(toService[i].start, told, page, toApp, tasks, reports)
    BY <1>6 DEF IInv, Carried, Waits
  <2>3. \A i \in DOMAIN queue : /\ queue[i].start # n
                                /\ Fresh(queue[i].start, told, page, toApp, tasks, reports)
    BY <1>6 DEF IInv, Carried, Waits
  <2>4. \A i, j \in DOMAIN toService' : i # j => toService'[i].start # toService'[j].start
    BY <2>2, <1>7, <1>8 DEF IInv, Waits
  <2>5. \A i \in DOMAIN toService', j \in DOMAIN queue : toService'[i].start # queue[j].start
    BY <2>3, <1>7, <1>8 DEF IInv, Waits
  <2>6. \A i \in DOMAIN toService' :
           Fresh(toService'[i].start, told, page, toApp, tasks, reports)
    BY <2>1, <2>2, <1>7, <1>8
  <2>7. \A i, j \in DOMAIN queue : i # j => queue[i].start # queue[j].start
    BY DEF IInv, Waits
  <2>8. \A k \in Start : k > Len(sent') => told'[k] = <<>>
    <3>. TAKE k \in Start
    <3>1. k > n => k > Len(sent)
      BY <1>4 DEF Start
    <3>. QED BY <3>1, <1>1, <1>6 DEF IInv, Waits
  <2>. QED BY <1>1, <2>3, <2>4, <2>5, <2>6, <2>7, <2>8 DEF Waits
<1>13. IdentityOnce' /\ CalledOnce'
  BY <1>1 DEF IInv, IdentityOnce, CalledOnce
<1>. QED BY <1>9, <1>10, <1>11, <1>12, <1>13 DEF IInv


-----------------------------------------------------------------------------
(* The service.                                                            *)

\* What a step does not touch still carries what it carried.
LEMMA StillCarried ==
    ASSUME IInv, NEW B, \A b \in B : heap'[b] = heap[b], UNCHANGED <<client, sent>>,
           OfClient \subseteq B
    PROVE  /\ client' # None =>
                 /\ Contents(heap', client', Copies(Target), Seq(Nat), {Len(sent') + 1})
                 /\ Measured(client')
           /\ \A n \in DOMAIN sent' : sent'[n].element # None /\ sent'[n].sid \in {None, n}
           /\ \A i \in DOMAIN queue : Pointers(queue[i].want) \subseteq B =>
                 /\ queue[i].start \in DOMAIN sent'
                 /\ Carries(heap', queue[i].want, sent'[queue[i].start], queue[i].start)
           /\ page # None /\ OfPage \subseteq B =>
                 /\ page.token \in DOMAIN sent'
                 /\ Carries(heap', page.want, sent'[page.token], page.token)
           /\ \A i \in DOMAIN tasks : Pointers(tasks[i].want) \subseteq B =>
                 /\ tasks[i].token \in DOMAIN sent'
                 /\ Carries(heap', tasks[i].want, sent'[tasks[i].token], tasks[i].token)
<1>1. client # None => /\ Contents(heap', client, Copies(Target), Seq(Nat), {Len(sent) + 1})
                       /\ Measured(client)
  <2>. HAVE client # None
  <2>. DEFINE D == Seq(Nat)
              E == Copies(Target)
  <2>1. Contents(heap, client, E, D, {Len(sent) + 1}) /\ Measured(client)
    BY DEF IInv, Carried
  <2>2. Pointers(client) \subseteq B
    BY DEF OfClient
  <2>. HIDE DEF D, E
  <2>3. \A b \in Pointers(client) : heap'[b] = heap[b]
    BY <2>2
  <2>4. Contents(heap', client, E, D, {Len(sent) + 1})
    BY <2>1, <2>3, ContentsKept
  <2>. QED BY <2>1, <2>4 DEF D, E
<1>2. \A n \in DOMAIN sent : sent[n].element # None /\ sent[n].sid \in {None, n}
  BY DEF IInv, Carried
<1>3. \A i \in DOMAIN queue : Pointers(queue[i].want) \subseteq B =>
         /\ queue[i].start \in DOMAIN sent
         /\ Carries(heap', queue[i].want, sent[queue[i].start], queue[i].start)
  <2>. TAKE i \in DOMAIN queue
  <2>. HAVE Pointers(queue[i].want) \subseteq B
  <2>1. /\ queue[i].start \in DOMAIN sent
        /\ Carries(heap, queue[i].want, sent[queue[i].start], queue[i].start)
    BY DEF IInv, Carried
  <2>. QED BY <2>1, CarriesKept
<1>4. page # None /\ OfPage \subseteq B =>
         /\ page.token \in DOMAIN sent
         /\ Carries(heap', page.want, sent[page.token], page.token)
  <2>. HAVE page # None /\ OfPage \subseteq B
  <2>1. page.token \in DOMAIN sent /\ Carries(heap, page.want, sent[page.token], page.token)
    BY DEF IInv, Carried
  <2>2. Pointers(page.want) \subseteq B
    BY DEF OfPage
  <2>. QED BY <2>1, <2>2, CarriesKept
<1>5. \A i \in DOMAIN tasks : Pointers(tasks[i].want) \subseteq B =>
         /\ tasks[i].token \in DOMAIN sent
         /\ Carries(heap', tasks[i].want, sent[tasks[i].token], tasks[i].token)
  <2>. TAKE i \in DOMAIN tasks
  <2>. HAVE Pointers(tasks[i].want) \subseteq B
  <2>1. /\ tasks[i].token \in DOMAIN sent
        /\ Carries(heap, tasks[i].want, sent[tasks[i].token], tasks[i].token)
    BY DEF IInv, Carried
  <2>. QED BY <2>1, CarriesKept
<1>. QED BY <1>1, <1>2, <1>3, <1>4, <1>5

\* The call takes another Want, whose blocks are there.
LEMMA SwapWant ==
    ASSUME NEW m, NEW F, Holds(m, F), NEW w, Whole(w), Pointers(w) \subseteq F
    PROVE  LET r == [m EXCEPT !.want = w]
           IN  /\ Holds(r, (F \ Pointers(w)) \cup Pointers(m.want))
               /\ r.heap = m.heap /\ r.ok = m.ok /\ r.want = w
BY DEF Holds, Fields

\* A call for a Want that is empty yet.
LEMMA EmptyCall ==
    ASSUME IInv, NEW fails
    PROVE  LET m == Call(heap, NoWant, fails)
           IN  Holds(m, DOMAIN heap) /\ m.heap = heap /\ m.want = NoWant /\ m.ok = TRUE
<1>1. HeapTyped(heap) /\ Whole(NoWant) /\ Pointers(NoWant) = {}
  BY NoWantWhole DEF IInv, Owned
<1>2. /\ Holds(Call(heap, NoWant, fails), DOMAIN heap)
      /\ Call(heap, NoWant, fails).heap = heap
      /\ Call(heap, NoWant, fails).want = NoWant
  BY <1>1 DEF Holds, Call, Fields
<1>. QED BY <1>2 DEF Call

\* The request at the head of the queue is one of a start that nobody was told
\* of, and its Want has what the start was sent with.
LEMMA HeadOfQueue ==
    ASSUME IInv, queue # <<>>
    PROVE  /\ Head(queue) = queue[1] /\ 1 \in DOMAIN queue
           /\ Head(queue).start \in Start /\ Head(queue).want \in Want
           /\ Head(queue).start \in DOMAIN sent
           /\ Carries(heap, Head(queue).want, sent[Head(queue).start], Head(queue).start)
           /\ Fresh(Head(queue).start, told, page, toApp, tasks, reports)
<1>. DEFINE T == [start : Start, want : Want]
<1>. HIDE DEF T
<1>1. queue \in Seq(T)
  BY DEF IInv, TypesOK, T
<1>2. Head(queue) = queue[1] /\ queue[1] \in T /\ 1 \in DOMAIN queue
  BY <1>1, TailFacts
<1>3. queue[1].start \in Start /\ queue[1].want \in Want
  BY <1>2 DEF T
<1>4. /\ queue[1].start \in DOMAIN sent
      /\ Carries(heap, queue[1].want, sent[queue[1].start], queue[1].start)
  BY <1>2 DEF IInv, Carried
<1>5. Fresh(queue[1].start, told, page, toApp, tasks, reports)
  BY <1>2 DEF IInv, Waits
<1>. QED BY <1>2, <1>3, <1>4, <1>5

\* A handled start has left the queue, and the blocks of its Want the heap; if
\* a page was made of it, the page has the blocks of the copy.
LEMMA HandledKeeps ==
    ASSUME IInv, queue # <<>>, NEW m, HandleStart(m, Head(queue).want),
           Holds(m, DOMAIN heap), Keeps(m, heap, DOMAIN heap),
           \/ page' = page /\ Pointers(m.want) = {}
           \/ /\ page = None /\ told' = told
              /\ page' = [token |-> Head(queue).start, want |-> m.want, state |-> "UNINITIALIZED"]
              /\ Carries(m.heap, m.want, sent[Head(queue).start], Head(queue).start),
           told' \in [Start -> Seq({"failed", "started"})],
           \A k \in Start : k # Head(queue).start => told'[k] = told[k],
           Len(told'[Head(queue).start]) <= 1
    PROVE  IInv'
<1>. DEFINE want == Head(queue).want
            n == Head(queue).start
            m1 == [m EXCEPT !.want = want]
            r == ClearWant(m1)
            Q == Pointers(m.want)
            F == (DOMAIN heap \ Pointers(want)) \cup Q
<1>1. /\ heap' = r.heap /\ bad' = (bad \/ r.bad) /\ queue' = Tail(queue)
      /\ UNCHANGED <<client, lost, sets, sent, toService, toApp, tasks, reports, ability>>
  BY DEF HandleStart, Memory, clientVars, appVars
<1>2. queue \in Seq([start : Start, want : Want])
  BY DEF IInv, TypesOK
<1>3. /\ Apart(queue') /\ Whole(want) /\ Pointers(want) \cap Blocks(queue') = {}
      /\ Blocks(queue) = Pointers(want) \cup Blocks(queue')
  BY <1>1, <1>2, BlocksTail DEF IInv, Owned
<1>4. /\ queue' \in Seq([start : Start, want : Want]) /\ n \in Start
      /\ 1 \in DOMAIN queue /\ queue[1].start = n
      /\ \A i \in DOMAIN queue' : queue'[i] = queue[i + 1] /\ i + 1 \in DOMAIN queue /\ i + 1 # 1
      /\ \A i, j \in DOMAIN queue' : i # j => i + 1 # j + 1
  <2>. DEFINE T == [start : Start, want : Want]
  <2>. HIDE DEF T
  <2>1. /\ Tail(queue) \in Seq(T) /\ Head(queue) = queue[1] /\ queue[1] \in T /\ 1 \in DOMAIN queue
        /\ \A i \in DOMAIN Tail(queue) : Tail(queue)[i] = queue[i + 1] /\ i + 1 \in DOMAIN queue /\ i + 1 # 1
        /\ \A i \in DOMAIN queue : i # 1 => i - 1 \in DOMAIN Tail(queue) /\ Tail(queue)[i - 1] = queue[i]
        /\ \A i, j \in DOMAIN Tail(queue) : i # j => i + 1 # j + 1
    BY <1>2, TailFacts DEF T
  <2>2. n \in Start
    BY <2>1 DEF T
  <2>. QED BY <1>1, <2>1, <2>2 DEF T
<1>5. bad = FALSE /\ Pointers(want) \subseteq DOMAIN heap
  BY <1>3 DEF IInv, Owned
<1>. HIDE DEF want
<1>6. Q \cap DOMAIN heap = {} /\ Whole(m.want)
  BY DEF Holds
<1>7. Holds(m1, F) /\ m1.heap = m.heap
  <2>1. /\ Holds(m1, (DOMAIN heap \ Pointers(want)) \cup Pointers(m.want))
        /\ m1.heap = m.heap /\ m1.ok = m.ok /\ m1.want = want
    BY <1>3, <1>5, SwapWant
  <2>. QED BY <2>1
<1>. HIDE DEF m1, F, Q
<1>8. /\ Pointers(r.want) = {} /\ r.ok = m1.ok
      /\ \A x \in F : r.heap[x] = m1.heap[x]
      /\ Holds(r, F)
      /\ DOMAIN r.heap = F /\ HeapTyped(r.heap) /\ r.bad = FALSE
  BY <1>7, ClearWantTakes
<1>. HIDE DEF r
<1>80. /\ page' = None \/ page' \in Page
       /\ page' # None => Whole(page'.want)
       /\ OfPage' = OfPage \cup Q
  <2>1. CASE page' = page /\ Q = {}
    BY <2>1 DEF IInv, TypesOK, Owned, OfPage
  <2>2. CASE page = None /\ page' = [token |-> n, want |-> m.want, state |-> "UNINITIALIZED"]
    <3>1. m.want \in Want
      BY <1>6 DEF Whole
    <3>2. page' \in Page /\ page'.want = m.want
      BY <2>2, <3>1, <1>4 DEF Page, PageState
    <3>. QED BY <3>2, <2>2, <1>6, NotNone DEF OfPage, Q
  <2>. QED BY <2>1, <2>2 DEF Q
<1>9. TypesOK'
  BY <1>1, <1>4, <1>80 DEF IInv, TypesOK
<1>10. /\ F = OfClient \cup Blocks(queue') \cup OfPage' \cup Blocks(tasks)
       /\ OfClient \cap (Blocks(queue') \cup OfPage' \cup Blocks(tasks)) = {}
       /\ Blocks(queue') \cap (OfPage' \cup Blocks(tasks)) = {}
       /\ OfPage' \cap Blocks(tasks) = {}
  BY <1>3, <1>6, <1>80 DEF IInv, Owned, F
<1>11. Owned'
  <2>1. OfClient' = OfClient /\ Blocks(tasks)' = Blocks(tasks)
    BY <1>1 DEF OfClient, Blocks
  <2>2. bad' = FALSE /\ HeapTyped(heap') /\ DOMAIN heap' = F
    BY <1>1, <1>5, <1>8
  <2>3. /\ client' # None => Whole(client')
        /\ page' # None => Whole(page'.want)
        /\ Apart(queue') /\ Apart(tasks')
        /\ lost' \in Nat /\ lost' <= sets'
    BY <1>1, <1>3, <1>80 DEF IInv, Owned
  <2>. QED BY <2>1, <2>2, <2>3, <1>10 DEF Owned
<1>12. Carried'
  <2>. DEFINE B == DOMAIN heap \ Pointers(want)
  <2>0. \A b \in F : heap'[b] = m.heap[b]
    BY <1>1, <1>7, <1>8
  <2>1. /\ \A b \in B : heap'[b] = heap[b]
        /\ OfClient \subseteq B /\ OfPage \subseteq B /\ Blocks(queue') \subseteq B /\ Blocks(tasks) \subseteq B
    BY <2>0, <1>3 DEF F, Keeps, IInv, Owned
  <2>. HIDE DEF B
  <2>2. /\ client' # None =>
                 /\ Contents(heap', client', Copies(Target), Seq(Nat), {Len(sent') + 1})
                 /\ Measured(client')
        /\ \A k \in DOMAIN sent' : sent'[k].element # None /\ sent'[k].sid \in {None, k}
        /\ \A i \in DOMAIN queue : Pointers(queue[i].want) \subseteq B =>
              /\ queue[i].start \in DOMAIN sent'
              /\ Carries(heap', queue[i].want, sent'[queue[i].start], queue[i].start)
        /\ page # None /\ OfPage \subseteq B =>
              /\ page.token \in DOMAIN sent'
              /\ Carries(heap', page.want, sent'[page.token], page.token)
        /\ \A i \in DOMAIN tasks : Pointers(tasks[i].want) \subseteq B =>
              /\ tasks[i].token \in DOMAIN sent'
              /\ Carries(heap', tasks[i].want, sent'[tasks[i].token], tasks[i].token)
    BY <1>1, <2>1, StillCarried
  <2>3. \A i \in DOMAIN queue' :
           /\ queue'[i].start \in DOMAIN sent'
           /\ Carries(heap', queue'[i].want, sent'[queue'[i].start], queue'[i].start)
    <3>. TAKE i \in DOMAIN queue'
    <3>1. Pointers(queue'[i].want) \subseteq B
      BY <2>1, InBlocks
    <3>. QED BY <3>1, <2>2, <1>4
  <2>4. \A i \in DOMAIN tasks' :
           /\ tasks'[i].token \in DOMAIN sent'
           /\ Carries(heap', tasks'[i].want, sent'[tasks'[i].token], tasks'[i].token)
    <3>. TAKE i \in DOMAIN tasks'
    <3>1. Pointers(tasks[i].want) \subseteq B
      BY <2>1, <1>1, InBlocks
    <3>. QED BY <3>1, <2>2, <1>1
  <2>5. page' # None => /\ page'.token \in DOMAIN sent'
                        /\ Carries(heap', page'.want, sent'[page'.token], page'.token)
    <3>1. CASE page' = page
      BY <3>1, <2>1, <2>2
    <3>2. CASE /\ page' = [token |-> n, want |-> m.want, state |-> "UNINITIALIZED"]
               /\ Carries(m.heap, m.want, sent[n], n)
      <4>1. \A b \in Q : heap'[b] = m.heap[b]
        BY <2>0 DEF F
      <4>2. Carries(heap', m.want, sent[n], n)
        BY <3>2, <4>1, CarriesKept DEF Q
      <4>3. n \in DOMAIN sent
        BY HeadOfQueue
      <4>. QED BY <3>2, <4>2, <4>3, <1>1
    <3>. QED BY <3>1, <3>2
  <2>6. /\ \A i \in DOMAIN toService : /\ toService[i].start \in DOMAIN sent
                                       /\ toService[i].io = sent[toService[i].start]
        /\ \A i \in DOMAIN toApp :
              LET k == toApp[i]
              IN  /\ k.token \in DOMAIN sent
                  /\ k.io.element \in Copies(sent[k.token].element) \cup {None}
                  /\ k.io.data \in {sent[k.token].data, <<>>}
                  /\ k.io.sid \in {k.token, None}
        /\ \A i \in DOMAIN reports : reports[i].token \in DOMAIN sent
    BY DEF IInv, Carried
  <2>. QED BY <1>1, <2>2, <2>3, <2>4, <2>5, <2>6 DEF Carried
<1>13. Fresh(n, told, page, toApp, tasks, reports)
  BY <1>4 DEF IInv, Waits
<1>. HIDE DEF n
<1>14. Waits'
  <2>1. \A i \in DOMAIN queue' : /\ queue'[i].start # n
                                 /\ Fresh(queue'[i].start, told, page, toApp, tasks, reports)
    BY <1>4 DEF IInv, Waits
  <2>2. \A i \in DOMAIN toService : /\ toService[i].start # n
                                    /\ Fresh(toService[i].start, told, page, toApp, tasks, reports)
    BY <1>4 DEF IInv, Waits
  <2>3. \A k \in Start : k # n /\ Fresh(k, told, page, toApp, tasks, reports) =>
                         Fresh(k, told', page', toApp', tasks', reports')
    <3>1. page' = page \/ page'.token = n
      BY DEF n
    <3>. QED BY <3>1, <1>1 DEF Fresh, n
  <2>4. /\ \A i \in DOMAIN queue' : queue'[i].start \in Start
        /\ \A i \in DOMAIN toService : toService[i].start \in Start
    <3>. DEFINE T == [start : Start, want : Want]
                U == [start : Start, io : Io]
    <3>1. /\ \A i \in DOMAIN queue' : queue'[i] \in T
          /\ \A i \in DOMAIN toService : toService[i] \in U
      <4>. HIDE DEF T, U
      <4>1. queue' \in Seq(T) /\ toService \in Seq(U)
        BY <1>4 DEF IInv, TypesOK, T, U
      <4>. QED BY <4>1
    <3>. QED BY <3>1
  <2>5. /\ \A i, j \in DOMAIN queue' : i # j => queue'[i].start # queue'[j].start
        /\ \A i \in DOMAIN toService, j \in DOMAIN queue' : toService[i].start # queue'[j].start
    BY <1>4 DEF IInv, Waits
  <2>6. \A k \in Start : k > Len(sent) => k # n
    <3>1. n \in DOMAIN sent
      BY <1>4 DEF IInv, Carried
    <3>2. DOMAIN sent = 1..Len(sent) /\ Len(sent) \in Nat
      BY DEF IInv, TypesOK
    <3>. QED BY <3>1, <3>2 DEF Start
  <2>7. \A k \in Start : k > Len(sent') => told'[k] = <<>>
    BY <1>1, <2>6 DEF IInv, Waits, n
  <2>8. \A i, j \in DOMAIN toService : i # j => toService[i].start # toService[j].start
    BY DEF IInv, Waits
  <2>9. \A i \in DOMAIN queue' : Fresh(queue'[i].start, told', page', toApp', tasks', reports')
    BY <2>1, <2>3, <2>4
  <2>10. \A i \in DOMAIN toService : Fresh(toService[i].start, told', page', toApp', tasks', reports')
    BY <2>2, <2>3, <2>4
  <2>. QED BY <1>1, <2>5, <2>7, <2>8, <2>9, <2>10 DEF Waits
<1>15. IdentityOnce'
  <2>1. /\ page # None => page.token # n /\ page.token \in Start
        /\ \A i \in DOMAIN toApp : toApp[i].token # n /\ toApp[i].token \in Start
        /\ \A i \in DOMAIN tasks : tasks[i].token # n /\ tasks[i].token \in Start
    <3>. DEFINE T == [token : Start, state : PageState, want : Want]
                U == [token : Start, state : PageState, io : Io]
    <3>1. /\ \A i \in DOMAIN toApp : toApp[i] \in U
          /\ \A i \in DOMAIN tasks : tasks[i] \in T
      <4>. HIDE DEF T, U
      <4>1. toApp \in Seq(U) /\ tasks \in Seq(T)
        BY DEF IInv, TypesOK, T, U
      <4>. QED BY <4>1
    <3>2. page # None => page.token \in Start
      BY DEF IInv, TypesOK, Page
    <3>. QED BY <3>1, <3>2, <1>13 DEF Fresh
  <2>2. /\ page # None => told'[page.token] = told[page.token]
        /\ \A i \in DOMAIN toApp : told'[toApp[i].token] = told[toApp[i].token]
        /\ \A i \in DOMAIN tasks : told'[tasks[i].token] = told[tasks[i].token]
    BY <2>1 DEF n
  <2>3. page' # None /\ page'.want.sid # 0 =>
          /\ page'.state = "UNINITIALIZED" /\ told'[page'.token] = <<>>
          /\ \A i \in DOMAIN toApp : toApp[i].token # page'.token
          /\ \A i \in DOMAIN tasks : tasks[i].token # page'.token
          /\ \A i \in DOMAIN reports : reports[i].token # page'.token
    <3>1. CASE page' = page
      BY <3>1, <2>2 DEF IInv, IdentityOnce
    <3>2. CASE told' = told /\ page' = [token |-> n, want |-> m.want, state |-> "UNINITIALIZED"]
      BY <3>2, <1>13 DEF Fresh
    <3>. QED BY <3>1, <3>2 DEF n
  <2>4. \A i \in DOMAIN toApp : toApp[i].io.sid # None =>
          /\ told'[toApp[i].token] = <<>>
          /\ \A j \in DOMAIN toApp : j # i /\ toApp[j].token = toApp[i].token => toApp[j].io.sid = None
          /\ \A j \in DOMAIN tasks : tasks[j].token = toApp[i].token => tasks[j].want.sid = 0
    BY <2>2 DEF IInv, IdentityOnce
  <2>5. \A i \in DOMAIN tasks : tasks[i].want.sid # 0 =>
          /\ told'[tasks[i].token] = <<>>
          /\ \A j \in DOMAIN tasks : j # i /\ tasks[j].token = tasks[i].token => tasks[j].want.sid = 0
    BY <2>2 DEF IInv, IdentityOnce
  <2>. QED BY <1>1, <2>3, <2>4, <2>5 DEF IdentityOnce
<1>16. CalledOnce'
  BY DEF IInv, CalledOnce, n
<1>. QED BY <1>9, <1>11, <1>12, <1>14, <1>15, <1>16 DEF IInv


LEMMA RefuseStartKeeps ==
    ASSUME IInv, RefuseStart
    PROVE  IInv'
<1>. DEFINE want == Head(queue).want
            n == Head(queue).start
<1>1. /\ queue # <<>> /\ HandleStart(Call(heap, NoWant, {}), Head(queue).want) /\ page' = page
      /\ told' = IF want.sid = 0 \/ want.element = 0 THEN told
                 ELSE [told EXCEPT ![heap[want.sid]] = Append(told[heap[want.sid]], "failed")]
  BY DEF RefuseStart, CallbackFailed
<1>2. n \in Start /\ told[n] = <<>> /\ (want.sid # 0 => heap[want.sid] = n)
  BY <1>1, HeadOfQueue DEF Carries, Contents, Fresh
<1>3. told \in [Start -> Seq({"failed", "started"})]
  BY DEF IInv, TypesOK
<1>4. Append(<<>>, "failed") \in Seq({"failed", "started"}) /\ Len(Append(<<>>, "failed")) = 1
  OBVIOUS
<1>. HIDE DEF want
<1>5. /\ told' \in [Start -> Seq({"failed", "started"})]
      /\ \A k \in Start : k # n => told'[k] = told[k]
      /\ Len(told'[n]) <= 1
  <2>1. CASE told' = told
    BY <2>1, <1>2, <1>3
  <2>2. CASE told' = [told EXCEPT ![n] = Append(<<>>, "failed")]
    <3>. DEFINE x == Append(<<>>, "failed")
                S == Seq({"failed", "started"})
    <3>. HIDE DEF x, S, n
    <3>1. told' = [told EXCEPT ![n] = x] /\ x \in S /\ Len(x) = 1 /\ told \in [Start -> S]
      BY <2>2, <1>3, <1>4 DEF x, S
    <3>2. told' \in [Start -> S] /\ \A k \in Start : k # n => told'[k] = told[k]
      BY <3>1, <1>2
    <3>3. told'[n] = x
      BY <3>1, <1>2
    <3>40. Len(told'[n]) = 1
      BY ONLY <3>1, <3>3, Zenon
    <3>4. Len(told'[n]) <= 1
      BY ONLY <3>40
    <3>5. told' \in [Start -> Seq({"failed", "started"})]
      BY <3>2 DEF S
    <3>. QED BY <3>2, <3>4, <3>5
  <2>. HIDE DEF n
  <2>. QED BY <2>1, <2>2, <1>1, <1>2
<1>. DEFINE m == Call(heap, NoWant, {})
<1>6. Holds(m, DOMAIN heap) /\ Keeps(m, heap, DOMAIN heap) /\ Pointers(m.want) = {}
  BY EmptyCall, NoWantWhole DEF Keeps
<1>7. HandleStart(m, Head(queue).want) /\ queue # <<>> /\ page' = page
  BY <1>1
<1>. HIDE DEF m
<1>. QED BY <1>5, <1>6, <1>7, HandledKeeps

LEMMA StartExistingKeeps ==
    ASSUME IInv, StartExisting
    PROVE  IInv'
<1>1. /\ queue # <<>> /\ HandleStart(Call(heap, NoWant, {}), Head(queue).want)
      /\ page' = page /\ told' = told
  BY DEF StartExisting
<1>2. Head(queue).start \in Start
  BY <1>1, HeadOfQueue
<1>3. /\ told' \in [Start -> Seq({"failed", "started"})]
      /\ Len(told'[Head(queue).start]) <= 1
  BY <1>1, <1>2 DEF IInv, TypesOK, CalledOnce
<1>. DEFINE m == Call(heap, NoWant, {})
<1>4. Holds(m, DOMAIN heap) /\ Keeps(m, heap, DOMAIN heap) /\ Pointers(m.want) = {}
  BY EmptyCall, NoWantWhole DEF Keeps
<1>5. HandleStart(m, Head(queue).want)
  BY <1>1
<1>. HIDE DEF m
<1>. QED BY <1>1, <1>3, <1>4, <1>5, HandledKeeps


\* The copy of a Want carries what the Want does.
LEMMA CopyCarries ==
    ASSUME IInv, NEW m, NEW F, Holds(WithWant(m, NoWant), F), DOMAIN m = Fields,
           NEW want, want.element # 0, Pointers(want) \subseteq F,
           NEW n \in DOMAIN sent, Carries(m.heap, want, sent[n], n)
    PROVE  LET r == CopyWant(m, want)
           IN  Holds(r, F) /\ Keeps(r, m.heap, F) /\ Carries(r.heap, r.want, sent[n], n)
<1>. DEFINE r == CopyWant(m, want)
            D == {sent[n].data}
            E == Copies(sent[n].element)
            S == {n}
<1>1. sent[n].data \in Seq(Nat)
  <2>1. sent[n] \in Io
    BY DEF IInv, TypesOK
  <2>. QED BY <2>1 DEF Io
<1>2. Contents(m.heap, want, E, D, S)
  BY DEF Carries
<1>3. D \in SUBSET Seq(Nat)
  BY <1>1
<1>. HIDE DEF r, D, E, S
<1>4. /\ Holds(r, F) /\ Keeps(r, m.heap, F)
      /\ Contents(r.heap, r.want, Copies(m.heap[want.element]), D, S)
      /\ Measured(r.want)
  BY <1>2, <1>3, CopyWantGives DEF r
<1>5. m.heap[want.element] \in E
  BY <1>2 DEF Contents
<1>6. Copies(m.heap[want.element]) \subseteq E
  BY <1>5, CopiesOfCopies DEF E
<1>7. Contents(r.heap, r.want, E, D, S)
  BY <1>4, <1>6 DEF Contents
<1>. QED BY <1>4, <1>7 DEF Carries, r, D, E, S

LEMMA StartNewKeeps ==
    ASSUME IInv, NEW fails, StartNew(fails)
    PROVE  IInv'
<1>. DEFINE want == Head(queue).want
            n == Head(queue).start
            m == Call(heap, NoWant, fails)
            r == CopyWant(m, want)
<1>1. /\ queue # <<>> /\ HandleStart(r, want) /\ page = None /\ told' = told
      /\ page' = [token |-> n, want |-> r.want, state |-> "UNINITIALIZED"]
      /\ want.element # 0
  BY DEF StartNew, Valid
<1>2. n \in Start /\ n \in DOMAIN sent /\ Carries(heap, want, sent[n], n)
  BY <1>1, HeadOfQueue
<1>3. Pointers(want) \subseteq DOMAIN heap
  <2>1. Pointers(want) \subseteq Blocks(queue)
    BY <1>1, HeadOfQueue, InBlocks
  <2>. QED BY <2>1 DEF IInv, Owned
<1>4. /\ Holds(m, DOMAIN heap) /\ m.heap = heap /\ m.want = NoWant /\ m.ok = TRUE
      /\ DOMAIN m = Fields
  BY EmptyCall DEF Holds
<1>. HIDE DEF m
<1>5. Holds(WithWant(m, NoWant), DOMAIN heap)
  BY <1>4 DEF Holds, WithWant, Fields
<1>. HIDE DEF want, n
<1>6. Holds(r, DOMAIN heap) /\ Keeps(r, m.heap, DOMAIN heap) /\ Carries(r.heap, r.want, sent[n], n)
  BY <1>1, <1>2, <1>3, <1>4, <1>5, CopyCarries
<1>7. /\ told' \in [Start -> Seq({"failed", "started"})]
      /\ Len(told'[n]) <= 1
  BY <1>1, <1>2 DEF IInv, TypesOK, CalledOnce
<1>. HIDE DEF r
<1>. QED BY <1>1, <1>4, <1>6, <1>7, HandledKeeps DEF want, n


\* The message at the head says what its start was sent with.
LEMMA HeadOfService ==
    ASSUME IInv, toService # <<>>
    PROVE  /\ Head(toService) = toService[1] /\ 1 \in DOMAIN toService
           /\ Head(toService).start \in Start /\ Head(toService).start \in DOMAIN sent
           /\ Head(toService).io = sent[Head(toService).start]
           /\ sent[Head(toService).start] \in Io
           /\ Fresh(Head(toService).start, told, page, toApp, tasks, reports)
<1>. DEFINE T == [start : Start, io : Io]
<1>. HIDE DEF T
<1>1. toService \in Seq(T)
  BY DEF IInv, TypesOK, T
<1>2. Head(toService) = toService[1] /\ toService[1] \in T /\ 1 \in DOMAIN toService
  BY <1>1, TailFacts
<1>3. toService[1].start \in Start
  BY <1>2 DEF T
<1>4. toService[1].start \in DOMAIN sent /\ toService[1].io = sent[toService[1].start]
  BY <1>2 DEF IInv, Carried
<1>5. Fresh(toService[1].start, told, page, toApp, tasks, reports)
  BY <1>2 DEF IInv, Waits
<1>6. sent[toService[1].start] \in Io
  BY <1>4 DEF IInv, TypesOK
<1>. QED BY <1>2, <1>3, <1>4, <1>5, <1>6

\* A call has left the Want w behind in the heap and nothing else.
Leaves(w) ==
    /\ bad' = FALSE /\ HeapTyped(heap') /\ Whole(w)
    /\ DOMAIN heap' = DOMAIN heap \cup Pointers(w)
    /\ DOMAIN heap \cap Pointers(w) = {}
    /\ \A b \in DOMAIN heap : heap'[b] = heap[b]

\* StartAbilityInner leaves what it has posted, or nothing.
LEMMA InnerGives ==
    ASSUME IInv, NEW fails, StartAbilityInvoke(fails)
    PROVE  \E w : /\ Leaves(w)
                  /\ \/ queue' = queue /\ Pointers(w) = {}
                     \/ /\ queue' = Append(queue, [start |-> Head(toService).start, want |-> w])
                        /\ Carries(heap', w, sent[Head(toService).start], Head(toService).start)
<1>. DEFINE n == Head(toService).start
            io == Head(toService).io
            A == DOMAIN heap
            m == Call(heap, NoWant, fails)
            m0 == DeserializeWant(m, io)
            w0 == m0.want
            G == DOMAIN m0.heap
            c == CopyWant(m0, w0)
<1>1. toService # <<>> /\ StartAbilityInner(m0, n)
  BY DEF StartAbilityInvoke
<1>2. n \in DOMAIN sent /\ io = sent[n] /\ io \in Io /\ io.element # None /\ io.sid \in {None, n}
  BY <1>1, HeadOfService DEF IInv, Carried
<1>3. io.data \in Seq(Nat) /\ bad = FALSE
  BY <1>2 DEF Io, IInv, Owned
<1>4. /\ Holds(m, A) /\ m.heap = heap /\ m.want = NoWant /\ m.ok = TRUE
  BY EmptyCall
<1>. HIDE DEF m, n, io
<1>5. /\ Holds(m0, A) /\ Keeps(m0, m.heap, A)
      /\ m0.ok => /\ Contents(m0.heap, m0.want, Copies(io.element), {io.data}, {io.sid} \ {None})
                  /\ Measured(m0.want)
                  /\ io.element # None => m0.want.element # 0
                  /\ io.element = None => m0.want.element = 0
                  /\ io.data = <<>> => m0.want.data = 0
      /\ ~m0.ok => Pointers(m0.want) = {}
  BY <1>3, <1>4, DeserializeWantGives
<1>. HIDE DEF m0
<1>6. /\ Whole(w0) /\ G = A \cup Pointers(w0) /\ A \cap Pointers(w0) = {}
      /\ m0.bad = FALSE /\ HeapTyped(m0.heap) /\ DOMAIN m0 = Fields
      /\ \A b \in A : m0.heap[b] = heap[b]
  BY <1>4, <1>5 DEF Holds, Keeps
<1>7. CASE ~m0.ok
  <2>1. heap' = m0.heap /\ bad' = (bad \/ m0.bad) /\ queue' = queue /\ Pointers(w0) = {}
    BY <1>1, <1>5, <1>7 DEF StartAbilityInner, Memory
  <2>2. Leaves(w0)
    BY <2>1, <1>3, <1>6 DEF Leaves
  <2>. QED BY <2>1, <2>2
<1>8. CASE m0.ok
  <2>1. PostStart(c, w0, n)
    BY <1>1, <1>8 DEF StartAbilityInner
  <2>2. Carries(m0.heap, w0, sent[n], n) /\ w0.element # 0
    BY <1>2, <1>5, <1>8 DEF Carries, Contents
  <2>3. Holds(WithWant(m0, NoWant), G)
    BY <1>6, NoWantWhole DEF Holds, WithWant, Fields
  <2>4. Holds(c, G) /\ Keeps(c, m0.heap, G) /\ Carries(c.heap, c.want, sent[n], n)
    BY <1>2, <1>6, <2>2, <2>3, CopyCarries
  <2>. HIDE DEF c, G, w0
  <2>5. \A b \in A : c.heap[b] = heap[b]
    BY <2>4, <1>6 DEF Keeps
  <2>6. CASE Len(queue) < QueueSize
    <3>. DEFINE c1 == [c EXCEPT !.want = w0]
                r == ClearWant(c1)
                F == A \cup Pointers(c.want)
    <3>1. /\ queue' = Append(queue, [start |-> n, want |-> c.want])
          /\ heap' = r.heap /\ bad' = (bad \/ r.bad)
      BY <2>1, <2>6 DEF PostStart, Memory
    <3>2. /\ Holds(c1, (G \ Pointers(w0)) \cup Pointers(c.want))
          /\ c1.heap = c.heap /\ c1.ok = c.ok /\ c1.want = w0
      BY <1>6, <2>4, SwapWant
    <3>3. (G \ Pointers(w0)) \cup Pointers(c.want) = F
      BY <1>6
    <3>. HIDE DEF c1, F
    <3>4. Holds(c1, F)
      BY <3>2, <3>3
    <3>5. /\ Pointers(r.want) = {} /\ r.ok = c1.ok
          /\ \A x \in F : r.heap[x] = c1.heap[x]
          /\ Holds(r, F)
          /\ DOMAIN r.heap = F /\ HeapTyped(r.heap) /\ r.bad = FALSE
      BY <3>4, ClearWantTakes
    <3>. HIDE DEF r
    <3>6. Leaves(c.want)
      <4>1. Whole(c.want) /\ G \cap Pointers(c.want) = {}
        BY <2>4 DEF Holds
      <4>2. DOMAIN heap' = A \cup Pointers(c.want) /\ \A b \in A : heap'[b] = heap[b]
        BY <3>1, <3>2, <3>5, <2>5 DEF F
      <4>. QED BY <4>1, <4>2, <1>3, <1>6, <3>1, <3>5 DEF Leaves
    <3>7. Carries(heap', c.want, sent[n], n)
      <4>1. \A b \in Pointers(c.want) : heap'[b] = c.heap[b]
        BY <3>1, <3>2, <3>5 DEF F
      <4>. QED BY <4>1, <2>4, CarriesKept
    <3>. QED BY <3>1, <3>6, <3>7 DEF n
  <2>7. CASE ~(Len(queue) < QueueSize)
    <3>. DEFINE d == ClearWant(c)
                d1 == [d EXCEPT !.want = w0]
                r == ClearWant(d1)
    <3>1. queue' = queue /\ heap' = r.heap /\ bad' = (bad \/ r.bad)
      BY <2>1, <2>7 DEF PostStart, Memory
    <3>2. /\ Pointers(d.want) = {} /\ d.ok = c.ok
          /\ \A x \in G : d.heap[x] = c.heap[x]
          /\ Holds(d, G)
          /\ DOMAIN d.heap = G /\ HeapTyped(d.heap) /\ d.bad = FALSE
      BY <2>4, ClearWantTakes
    <3>. HIDE DEF d
    <3>3. /\ Holds(d1, (G \ Pointers(w0)) \cup Pointers(d.want))
          /\ d1.heap = d.heap /\ d1.ok = d.ok /\ d1.want = w0
      BY <1>6, <3>2, SwapWant
    <3>4. (G \ Pointers(w0)) \cup Pointers(d.want) = A
      BY <1>6, <3>2
    <3>. HIDE DEF d1, A
    <3>40. Holds(d1, A)
      BY <3>3, <3>4
    <3>5. /\ Pointers(r.want) = {} /\ r.ok = d1.ok
          /\ \A x \in A : r.heap[x] = d1.heap[x]
          /\ Holds(r, A)
          /\ DOMAIN r.heap = A /\ HeapTyped(r.heap) /\ r.bad = FALSE
      BY <3>40, ClearWantTakes
    <3>. HIDE DEF r
    <3>6. Leaves(NoWant) /\ Pointers(NoWant) = {}
      <4>1. \A b \in A : heap'[b] = heap[b]
        BY <3>1, <3>2, <3>3, <3>5, <2>5, <1>6
      <4>. QED BY <4>1, <1>3, <3>1, <3>5, NoWantWhole DEF Leaves, A
    <3>. QED BY <3>1, <3>6
  <2>. QED BY <2>6, <2>7
<1>. QED BY <1>7, <1>8


LEMMA StartAbilityInvokeKeeps ==
    ASSUME IInv, NEW fails, StartAbilityInvoke(fails)
    PROVE  IInv'
<1>. DEFINE n == Head(toService).start
            T == [start : Start, want : Want]
            U == [start : Start, io : Io]
<1>1. /\ toService # <<>> /\ toService' = Tail(toService)
      /\ UNCHANGED <<client, lost, sets, sent, page, toApp, tasks, reports, ability, told>>
  BY DEF StartAbilityInvoke, clientVars, appVars
<1>2. PICK w : /\ Leaves(w)
               /\ \/ queue' = queue /\ Pointers(w) = {}
                  \/ /\ queue' = Append(queue, [start |-> n, want |-> w])
                     /\ Carries(heap', w, sent[n], n)
  BY InnerGives
<1>3. /\ n \in Start /\ n \in DOMAIN sent
      /\ toService[1].start = n /\ 1 \in DOMAIN toService
      /\ Fresh(n, told, page, toApp, tasks, reports)
  BY <1>1, HeadOfService
<1>. HIDE DEF n
<1>. DEFINE x == [start |-> n, want |-> w]
<1>4. /\ queue \in Seq(T) /\ x \in T /\ x.start = n /\ x.want = w /\ toService \in Seq(U)
  BY <1>2, <1>3 DEF IInv, TypesOK, Leaves, Whole
<1>. HIDE DEF x, T, U
<1>5. /\ bad' = FALSE /\ HeapTyped(heap') /\ Whole(w)
      /\ DOMAIN heap' = DOMAIN heap \cup Pointers(w) /\ DOMAIN heap \cap Pointers(w) = {}
      /\ \A b \in DOMAIN heap : heap'[b] = heap[b]
  BY <1>2 DEF Leaves
<1>6. Apart(queue) /\ Pointers(w) \cap Blocks(queue) = {}
  BY <1>5 DEF IInv, Owned
<1>7. /\ queue' \in Seq(T)
      /\ \A i \in DOMAIN queue' :
            \/ i \in DOMAIN queue /\ queue'[i] = queue[i]
            \/ /\ i = Len(queue) + 1 /\ i \notin DOMAIN queue /\ queue'[i] = x
               /\ Carries(heap', w, sent[n], n)
      /\ Apart(queue') /\ Blocks(queue') = Blocks(queue) \cup Pointers(w)
  <2>1. CASE queue' = queue /\ Pointers(w) = {}
    BY <2>1, <1>4, <1>6
  <2>2. CASE queue' = Append(queue, x) /\ Carries(heap', w, sent[n], n)
    <3>1. /\ Append(queue, x) \in Seq(T)
          /\ Len(queue) + 1 \in DOMAIN Append(queue, x) /\ Append(queue, x)[Len(queue) + 1] = x
          /\ Len(queue) + 1 \notin DOMAIN queue
          /\ \A i \in DOMAIN queue : i \in DOMAIN Append(queue, x) /\ Append(queue, x)[i] = queue[i]
          /\ \A i \in DOMAIN Append(queue, x) : i \in DOMAIN queue \/ i = Len(queue) + 1
      BY <1>4, AppendFacts
    <3>2. /\ Apart(Append(queue, x))
          /\ Blocks(Append(queue, x)) = Blocks(queue) \cup Pointers(x.want)
      BY <1>4, <1>5, <1>6, BlocksAppend
    <3>. QED BY <2>2, <3>1, <3>2, <1>4
  <2>. QED BY <2>1, <2>2, <1>2 DEF x
<1>8. /\ Tail(toService) \in Seq(U) /\ Head(toService) = toService[1]
      /\ toService[1] \in U /\ 1 \in DOMAIN toService
      /\ \A i \in DOMAIN Tail(toService) :
            Tail(toService)[i] = toService[i + 1] /\ i + 1 \in DOMAIN toService /\ i + 1 # 1
      /\ \A i \in DOMAIN toService :
            i # 1 => i - 1 \in DOMAIN Tail(toService) /\ Tail(toService)[i - 1] = toService[i]
      /\ \A i, j \in DOMAIN Tail(toService) : i # j => i + 1 # j + 1
  BY <1>1, <1>4, TailFacts
<1>9. TypesOK'
  BY <1>1, <1>7, <1>8 DEF IInv, TypesOK, T, U
<1>10. Owned'
  <2>1. OfClient' = OfClient /\ OfPage' = OfPage /\ Blocks(tasks)' = Blocks(tasks)
    BY <1>1 DEF OfClient, OfPage, Blocks
  <2>2. /\ DOMAIN heap = OfClient \cup Blocks(queue) \cup OfPage \cup Blocks(tasks)
        /\ OfClient \cap (Blocks(queue) \cup OfPage \cup Blocks(tasks)) = {}
        /\ Blocks(queue) \cap (OfPage \cup Blocks(tasks)) = {}
        /\ OfPage \cap Blocks(tasks) = {}
    BY DEF IInv, Owned
  <2>3. /\ DOMAIN heap' = OfClient' \cup Blocks(queue') \cup OfPage' \cup Blocks(tasks')
        /\ OfClient' \cap (Blocks(queue') \cup OfPage' \cup Blocks(tasks')) = {}
        /\ Blocks(queue') \cap (OfPage' \cup Blocks(tasks')) = {}
        /\ OfPage' \cap Blocks(tasks') = {}
    BY <2>1, <2>2, <1>5, <1>7
  <2>4. /\ client' # None => Whole(client')
        /\ page' # None => Whole(page'.want)
        /\ Apart(queue') /\ Apart(tasks')
        /\ lost' \in Nat /\ lost' <= sets'
    BY <1>1, <1>7 DEF IInv, Owned
  <2>. QED BY <2>3, <2>4, <1>5 DEF Owned
<1>11. Carried'
  <2>. DEFINE B == DOMAIN heap
  <2>1. /\ \A b \in B : heap'[b] = heap[b]
        /\ OfClient \subseteq B /\ OfPage \subseteq B /\ Blocks(queue) \subseteq B /\ Blocks(tasks) \subseteq B
    BY <1>5 DEF IInv, Owned
  <2>. HIDE DEF B
  <2>2. /\ client' # None =>
                 /\ Contents(heap', client', Copies(Target), Seq(Nat), {Len(sent') + 1})
                 /\ Measured(client')
        /\ \A k \in DOMAIN sent' : sent'[k].element # None /\ sent'[k].sid \in {None, k}
        /\ \A i \in DOMAIN queue : Pointers(queue[i].want) \subseteq B =>
              /\ queue[i].start \in DOMAIN sent'
              /\ Carries(heap', queue[i].want, sent'[queue[i].start], queue[i].start)
        /\ page # None /\ OfPage \subseteq B =>
              /\ page.token \in DOMAIN sent'
              /\ Carries(heap', page.want, sent'[page.token], page.token)
        /\ \A i \in DOMAIN tasks : Pointers(tasks[i].want) \subseteq B =>
              /\ tasks[i].token \in DOMAIN sent'
              /\ Carries(heap', tasks[i].want, sent'[tasks[i].token], tasks[i].token)
    BY <1>1, <2>1, StillCarried
  <2>3. \A i \in DOMAIN queue' :
           /\ queue'[i].start \in DOMAIN sent'
           /\ Carries(heap', queue'[i].want, sent'[queue'[i].start], queue'[i].start)
    <3>. TAKE i \in DOMAIN queue'
    <3>1. CASE i \in DOMAIN queue /\ queue'[i] = queue[i]
      <4>1. Pointers(queue[i].want) \subseteq B
        BY <3>1, <2>1, InBlocks
      <4>. QED BY <3>1, <4>1, <2>2
    <3>2. CASE queue'[i] = x /\ Carries(heap', w, sent[n], n)
      BY <3>2, <1>1, <1>3, <1>4
    <3>. QED BY <3>1, <3>2, <1>7
  <2>4. \A i \in DOMAIN tasks' :
           /\ tasks'[i].token \in DOMAIN sent'
           /\ Carries(heap', tasks'[i].want, sent'[tasks'[i].token], tasks'[i].token)
    <3>. TAKE i \in DOMAIN tasks'
    <3>1. Pointers(tasks[i].want) \subseteq B
      BY <2>1, <1>1, InBlocks
    <3>. QED BY <3>1, <2>2, <1>1
  <2>5. page' # None => /\ page'.token \in DOMAIN sent'
                        /\ Carries(heap', page'.want, sent'[page'.token], page'.token)
    BY <1>1, <2>1, <2>2
  <2>6. /\ \A i \in DOMAIN toApp :
              LET k == toApp[i]
              IN  /\ k.token \in DOMAIN sent
                  /\ k.io.element \in Copies(sent[k.token].element) \cup {None}
                  /\ k.io.data \in {sent[k.token].data, <<>>}
                  /\ k.io.sid \in {k.token, None}
        /\ \A i \in DOMAIN reports : reports[i].token \in DOMAIN sent
    BY DEF IInv, Carried
  <2>7. \A i \in DOMAIN toService' : /\ toService'[i].start \in DOMAIN sent
                                     /\ toService'[i].io = sent[toService'[i].start]
    BY <1>1, <1>8 DEF IInv, Carried
  <2>. QED BY <1>1, <2>2, <2>3, <2>4, <2>5, <2>6, <2>7 DEF Carried
<1>12. Waits'
  <2>1. \A i \in DOMAIN toService' :
           /\ toService'[i].start # n
           /\ Fresh(toService'[i].start, told, page, toApp, tasks, reports)
           /\ \A j \in DOMAIN queue : toService'[i].start # queue[j].start
    BY <1>1, <1>3, <1>8 DEF IInv, Waits
  <2>2. \A i \in DOMAIN queue : /\ queue[i].start # n
                                /\ Fresh(queue[i].start, told, page, toApp, tasks, reports)
    BY <1>3 DEF IInv, Waits
  <2>3. \A i, j \in DOMAIN toService' : i # j => toService'[i].start # toService'[j].start
    BY <1>1, <1>8 DEF IInv, Waits
  <2>4. \A i, j \in DOMAIN queue' : i # j => queue'[i].start # queue'[j].start
    BY <2>2, <1>4, <1>7 DEF IInv, Waits
  <2>5. \A i \in DOMAIN toService', j \in DOMAIN queue' : toService'[i].start # queue'[j].start
    BY <2>1, <1>4, <1>7
  <2>6. \A i \in DOMAIN queue' : Fresh(queue'[i].start, told, page, toApp, tasks, reports)
    BY <2>2, <1>3, <1>4, <1>7
  <2>7. \A k \in Start : k > Len(sent) => told[k] = <<>>
    BY DEF IInv, Waits
  <2>. QED BY <1>1, <2>1, <2>3, <2>4, <2>5, <2>6, <2>7 DEF Waits
<1>13. IdentityOnce' /\ CalledOnce'
  BY <1>1 DEF IInv, IdentityOnce, CalledOnce
<1>. QED BY <1>9, <1>10, <1>11, <1>12, <1>13 DEF IInv


\* A message takes along what the page has, and the identity is in the page no
\* more.
LEMMA MessageKeeps ==
    ASSUME IInv, page # None, NEW state \in PageState, Transact(state),
           page' \in Page, page'.token = page.token, page'.want = [page.want EXCEPT !.sid = 0],
           bad' = FALSE, HeapTyped(heap'), DOMAIN heap' = DOMAIN heap \ {page.want.sid},
           \A b \in DOMAIN heap' : heap'[b] = heap[b]
    PROVE  IInv'
<1>. DEFINE n == page.token
            w == page.want
            io == Written(heap, w)
            T == [token : Start, state : PageState, io : Io]
            x == [token |-> n, state |-> state, io |-> io]
<1>1. /\ toApp' \in {Append(toApp, x), toApp}
      /\ UNCHANGED <<client, lost, sets, sent, toService, queue, tasks, reports, ability, told>>
  BY DEF Transact, clientVars
<1>2. /\ n \in Start /\ n \in DOMAIN sent /\ w \in Want /\ Whole(w)
      /\ Carries(heap, w, sent[n], n) /\ sent[n] \in Io
      /\ sent[n].element \in Copies(Target) /\ sent[n].data \in Seq(Nat)
  <2>1. n \in Start /\ w \in Want /\ Whole(w)
    BY DEF IInv, TypesOK, Owned, Page
  <2>2. n \in DOMAIN sent /\ Carries(heap, w, sent[n], n) /\ sent[n].element # None
    BY DEF IInv, Carried
  <2>3. sent[n] \in Io
    BY <2>2 DEF IInv, TypesOK
  <2>4. sent[n].element \in Copies(Target) /\ sent[n].data \in Seq(Nat)
    BY <2>2, <2>3 DEF Io
  <2>. QED BY <2>1, <2>2, <2>3, <2>4
<1>. HIDE DEF n, w
<1>3. /\ io = [element |-> io.element, data |-> io.data, sid |-> io.sid]
      /\ io.element \in Copies(sent[n].element) \cup {None}
      /\ io.data \in {sent[n].data, <<>>} /\ io.sid \in {n, None}
      /\ w.sid = 0 => io.sid = None
  <2>. DEFINE D == {sent[n].data}
              E == Copies(sent[n].element)
              S == {n}
  <2>1. Contents(heap, w, E, D, S) /\ Measured(w)
    BY <1>2 DEF Carries
  <2>. HIDE DEF D, E, S
  <2>2. /\ io = [element |-> io.element, data |-> io.data, sid |-> io.sid]
        /\ io.element \in E \cup {None} /\ io.data \in D \cup {<<>>} /\ io.sid \in S \cup {None}
        /\ w.element # 0 => io.element \in E
        /\ w.sid = 0 => io.sid = None
    BY <2>1, WrittenFacts
  <2>. QED BY <2>2 DEF D, E, S
<1>. HIDE DEF io
<1>4. io \in Io
  <2>. DEFINE D == Seq(Nat)
  <2>1. io.data \in D
    <3>1. <<>> \in Seq(Nat)
      OBVIOUS
    <3>2. sent[n].data \in D
      BY <1>2
    <3>. HIDE DEF D
    <3>. QED BY <1>3, <3>1, <3>2 DEF D
  <2>2. io.element \in Copies(Target) \cup {None} /\ io.sid \in Start \cup {None}
    <3>1. Copies(sent[n].element) \subseteq Copies(Target)
      BY <1>2, CopiesOfCopies
    <3>. QED BY <3>1, <1>2, <1>3
  <2>. QED BY <2>1, <2>2, <1>3 DEF Io
<1>5. toApp \in Seq(T) /\ x \in T /\ x.token = n /\ x.io = io
  BY <1>2, <1>4 DEF IInv, TypesOK
<1>. HIDE DEF T, x
<1>6. /\ toApp' \in Seq(T)
      /\ \A i \in DOMAIN toApp' :
            \/ i \in DOMAIN toApp /\ toApp'[i] = toApp[i]
            \/ i = Len(toApp) + 1 /\ i \notin DOMAIN toApp /\ toApp'[i] = x
  <2>1. CASE toApp' = toApp
    BY <2>1, <1>5
  <2>2. CASE toApp' = Append(toApp, x)
    <3>1. /\ Append(toApp, x) \in Seq(T)
          /\ Len(toApp) + 1 \in DOMAIN Append(toApp, x) /\ Append(toApp, x)[Len(toApp) + 1] = x
          /\ Len(toApp) + 1 \notin DOMAIN toApp
          /\ \A i \in DOMAIN toApp : i \in DOMAIN Append(toApp, x) /\ Append(toApp, x)[i] = toApp[i]
          /\ \A i \in DOMAIN Append(toApp, x) : i \in DOMAIN toApp \/ i = Len(toApp) + 1
      BY <1>5, AppendFacts
    <3>. QED BY <2>2, <3>1
  <2>. QED BY <2>1, <2>2, <1>1 DEF x
<1>7. TypesOK'
  BY <1>1, <1>6 DEF IInv, TypesOK, T
<1>8. /\ Whole(page'.want) /\ Pointers(page'.want) = Pointers(w) \ {w.sid} /\ page' # None
      /\ page'.want.sid = 0 /\ page'.want.element = w.element /\ page'.want.data = w.data
      /\ page'.want.dataLength = w.dataLength
  <2>1. page'.want = [w EXCEPT !.sid = 0]
    BY DEF w
  <2>. QED BY <2>1, <1>2, NotNone DEF Whole, Want, Pointers
<1>9. OfPage = Pointers(w) /\ OfPage' = OfPage \ {w.sid}
  BY <1>8 DEF OfPage, w
<1>10. /\ DOMAIN heap = OfClient \cup Blocks(queue) \cup OfPage \cup Blocks(tasks)
       /\ OfClient \cap (Blocks(queue) \cup OfPage \cup Blocks(tasks)) = {}
       /\ Blocks(queue) \cap (OfPage \cup Blocks(tasks)) = {}
       /\ OfPage \cap Blocks(tasks) = {}
       /\ DOMAIN heap' = DOMAIN heap \ {w.sid}
       /\ w.sid = 0 \/ w.sid \in OfPage
       /\ 0 \notin DOMAIN heap
  BY <1>9 DEF IInv, Owned, HeapTyped, Pointers, w
<1>11. Owned'
  <2>1. OfClient' = OfClient /\ Blocks(queue)' = Blocks(queue) /\ Blocks(tasks)' = Blocks(tasks)
    BY <1>1 DEF OfClient, Blocks
  <2>2. /\ DOMAIN heap' = OfClient' \cup Blocks(queue)' \cup OfPage' \cup Blocks(tasks)'
        /\ OfClient' \cap (Blocks(queue)' \cup OfPage' \cup Blocks(tasks)') = {}
        /\ Blocks(queue)' \cap (OfPage' \cup Blocks(tasks)') = {}
        /\ OfPage' \cap Blocks(tasks)' = {}
    BY <2>1, <1>9, <1>10
  <2>3. /\ client' # None => Whole(client')
        /\ page' # None => Whole(page'.want)
        /\ Apart(queue') /\ Apart(tasks')
        /\ lost' \in Nat /\ lost' <= sets'
    BY <1>1, <1>8 DEF IInv, Owned
  <2>. QED BY <2>2, <2>3 DEF Owned
<1>12. Carried'
  <2>. DEFINE B == DOMAIN heap'
  <2>1. /\ \A b \in B : heap'[b] = heap[b]
        /\ OfClient \subseteq B /\ Blocks(queue) \subseteq B /\ Blocks(tasks) \subseteq B
    BY <1>10
  <2>. HIDE DEF B
  <2>2. /\ client' # None =>
                 /\ Contents(heap', client', Copies(Target), Seq(Nat), {Len(sent') + 1})
                 /\ Measured(client')
        /\ \A k \in DOMAIN sent' : sent'[k].element # None /\ sent'[k].sid \in {None, k}
        /\ \A i \in DOMAIN queue : Pointers(queue[i].want) \subseteq B =>
              /\ queue[i].start \in DOMAIN sent'
              /\ Carries(heap', queue[i].want, sent'[queue[i].start], queue[i].start)
        /\ page # None /\ OfPage \subseteq B =>
              /\ page.token \in DOMAIN sent'
              /\ Carries(heap', page.want, sent'[page.token], page.token)
        /\ \A i \in DOMAIN tasks : Pointers(tasks[i].want) \subseteq B =>
              /\ tasks[i].token \in DOMAIN sent'
              /\ Carries(heap', tasks[i].want, sent'[tasks[i].token], tasks[i].token)
    BY <1>1, <2>1, StillCarried
  <2>3. \A i \in DOMAIN queue' :
           /\ queue'[i].start \in DOMAIN sent'
           /\ Carries(heap', queue'[i].want, sent'[queue'[i].start], queue'[i].start)
    <3>. TAKE i \in DOMAIN queue'
    <3>1. Pointers(queue[i].want) \subseteq B
      BY <2>1, <1>1, InBlocks
    <3>. QED BY <3>1, <2>2, <1>1
  <2>4. \A i \in DOMAIN tasks' :
           /\ tasks'[i].token \in DOMAIN sent'
           /\ Carries(heap', tasks'[i].want, sent'[tasks'[i].token], tasks'[i].token)
    <3>. TAKE i \in DOMAIN tasks'
    <3>1. Pointers(tasks[i].want) \subseteq B
      BY <2>1, <1>1, InBlocks
    <3>. QED BY <3>1, <2>2, <1>1
  <2>5. /\ page'.token \in DOMAIN sent'
        /\ Carries(heap', page'.want, sent'[page'.token], page'.token)
    <3>1. \A b \in Pointers(page'.want) : heap'[b] = heap[b]
      BY <1>8, <1>9, <1>10
    <3>2. Contents(heap, page'.want, Copies(sent[n].element), {sent[n].data}, {n})
      BY <1>2, <1>8 DEF Carries, Contents
    <3>3. Measured(page'.want)
      BY <1>2, <1>8 DEF Carries, Measured
    <3>4. Carries(heap', page'.want, sent[n], n)
      BY <3>1, <3>2, <3>3, CarriesKept DEF Carries
    <3>. QED BY <3>4, <1>1, <1>2 DEF n
  <2>6. \A i \in DOMAIN toApp' :
           LET k == toApp'[i]
           IN  /\ k.token \in DOMAIN sent
               /\ k.io.element \in Copies(sent[k.token].element) \cup {None}
               /\ k.io.data \in {sent[k.token].data, <<>>}
               /\ k.io.sid \in {k.token, None}
    <3>. TAKE i \in DOMAIN toApp'
    <3>1. CASE i \in DOMAIN toApp /\ toApp'[i] = toApp[i]
      BY <3>1 DEF IInv, Carried
    <3>2. CASE toApp'[i] = x
      BY <3>2, <1>2, <1>3, <1>5
    <3>. QED BY <3>1, <3>2, <1>6
  <2>7. /\ \A i \in DOMAIN toService : /\ toService[i].start \in DOMAIN sent
                                       /\ toService[i].io = sent[toService[i].start]
        /\ \A i \in DOMAIN reports : reports[i].token \in DOMAIN sent
    BY DEF IInv, Carried
  <2>. QED BY <1>1, <2>2, <2>3, <2>4, <2>5, <2>6, <2>7 DEF Carried
<1>13. Waits'
  <2>1. \A k : Fresh(k, told, page, toApp, tasks, reports) =>
               Fresh(k, told, page', toApp', tasks, reports)
    BY <1>5, <1>6, <1>8 DEF Fresh, n
  <2>. QED BY <2>1, <1>1 DEF IInv, Waits
<1>14. IdentityOnce'
  <2>1. io.sid # None =>
           /\ told[n] = <<>>
           /\ \A i \in DOMAIN toApp : toApp[i].token # n
           /\ \A i \in DOMAIN tasks : tasks[i].token # n
    BY <1>3 DEF IInv, IdentityOnce, n, w
  <2>2. ASSUME NEW i \in DOMAIN toApp', toApp'[i].io.sid # None
        PROVE  /\ told[toApp'[i].token] = <<>>
               /\ \A j \in DOMAIN toApp' : j # i /\ toApp'[j].token = toApp'[i].token
                                           => toApp'[j].io.sid = None
               /\ \A j \in DOMAIN tasks : tasks[j].token = toApp'[i].token => tasks[j].want.sid = 0
    <3>1. CASE i \in DOMAIN toApp /\ toApp'[i] = toApp[i]
      <4>1. /\ told[toApp[i].token] = <<>>
            /\ \A j \in DOMAIN toApp : j # i /\ toApp[j].token = toApp[i].token => toApp[j].io.sid = None
            /\ \A j \in DOMAIN tasks : tasks[j].token = toApp[i].token => tasks[j].want.sid = 0
        BY <2>2, <3>1 DEF IInv, IdentityOnce
      <4>2. toApp[i].token = n => io.sid = None
        BY <2>1, <3>1
      <4>. QED BY <4>1, <4>2, <3>1, <1>5, <1>6
    <3>2. CASE toApp'[i] = x /\ i = Len(toApp) + 1
      BY <3>2, <2>1, <2>2, <1>5, <1>6
    <3>. QED BY <3>1, <3>2, <1>6
  <2>3. \A i \in DOMAIN tasks : tasks[i].want.sid # 0 =>
          /\ told[tasks[i].token] = <<>>
          /\ \A j \in DOMAIN tasks : j # i /\ tasks[j].token = tasks[i].token => tasks[j].want.sid = 0
    BY DEF IInv, IdentityOnce
  <2>. QED BY <1>1, <1>8, <2>2, <2>3 DEF IdentityOnce
<1>15. CalledOnce'
  BY <1>1 DEF IInv, CalledOnce
<1>. QED BY <1>7, <1>11, <1>12, <1>13, <1>14, <1>15 DEF IInv

LEMMA ActiveAbilityKeeps ==
    ASSUME IInv, ActiveAbility
    PROVE  IInv'
<1>. DEFINE m == Call(heap, page.want, {})
            r == FreeSid(m)
            F == DOMAIN heap \ Pointers(page.want)
<1>1. /\ page # None /\ Transact("ACTIVE") /\ heap' = r.heap /\ bad' = (bad \/ r.bad)
      /\ page' = [page EXCEPT !.want = r.want]
  BY DEF ActiveAbility, Memory
<1>2. page \in Page /\ Whole(page.want) /\ Pointers(page.want) \subseteq DOMAIN heap
      /\ HeapTyped(heap) /\ bad = FALSE
  BY <1>1 DEF IInv, TypesOK, Owned, OfPage
<1>3. /\ Holds(m, DOMAIN heap \ Pointers(page.want))
      /\ m.heap = heap /\ m.want = page.want /\ m.ok = TRUE
  BY <1>2, CallHolds
<1>. HIDE DEF m, F
<1>4. Holds(m, F)
  BY <1>3 DEF F
<1>5. /\ r.want = [m.want EXCEPT !.sid = 0] /\ r.ok = m.ok
      /\ \A x \in DOMAIN r.heap : r.heap[x] = m.heap[x]
      /\ Holds(r, F)
  BY <1>4, FreeSidTakes
<1>. HIDE DEF r
<1>6. page.want \in Want /\ r.want \in Want
  BY <1>2, <1>5 DEF Holds, Whole
<1>7. Pointers(r.want) = Pointers(page.want) \ {page.want.sid}
  BY <1>2, <1>3, <1>5, <1>6 DEF Whole, Want, Pointers
<1>8. DOMAIN heap' = DOMAIN heap \ {page.want.sid} /\ HeapTyped(heap') /\ bad' = FALSE
  <2>1. 0 \notin DOMAIN heap /\ (page.want.sid = 0 \/ page.want.sid \in Pointers(page.want))
    BY <1>2 DEF HeapTyped, Pointers
  <2>2. DOMAIN r.heap = F \cup Pointers(r.want) /\ HeapTyped(r.heap) /\ r.bad = FALSE
    BY <1>5 DEF Holds
  <2>. QED BY <2>1, <2>2, <1>1, <1>2, <1>7 DEF F
<1>9. /\ page' \in Page /\ page'.token = page.token
      /\ page'.want = [page.want EXCEPT !.sid = 0]
  BY <1>1, <1>2, <1>3, <1>5, <1>6 DEF Page
<1>10. \A b \in DOMAIN heap' : heap'[b] = heap[b]
  BY <1>1, <1>3, <1>5
<1>11. "ACTIVE" \in PageState
  BY DEF PageState
<1>. QED BY <1>1, <1>8, <1>9, <1>10, <1>11, MessageKeeps

\* The other messages are sent when the identity has gone already.
LEMMA OtherMessageKeeps ==
    ASSUME IInv, page # None, page.state # "UNINITIALIZED", NEW state \in PageState,
           Transact(state), UNCHANGED <<heap, bad, page>>
    PROVE  IInv'
<1>1. page.want.sid = 0
  BY DEF IInv, IdentityOnce
<1>2. page \in Page /\ page.want \in Want /\ HeapTyped(heap) /\ bad = FALSE
  BY DEF IInv, TypesOK, Owned, Page
<1>3. page.want = [page.want EXCEPT !.sid = 0]
  BY <1>1, <1>2 DEF Want
<1>4. 0 \notin DOMAIN heap
  BY <1>2 DEF HeapTyped
<1>5. DOMAIN heap' = DOMAIN heap \ {page.want.sid}
  BY <1>1, <1>4
<1>6. /\ page' \in Page /\ page'.token = page.token /\ page'.want = [page.want EXCEPT !.sid = 0]
      /\ bad' = FALSE /\ HeapTyped(heap') /\ \A b \in DOMAIN heap' : heap'[b] = heap[b]
  BY <1>2, <1>3
<1>. QED BY <1>5, <1>6, MessageKeeps

LEMMA InactiveAbilityKeeps ==
    ASSUME IInv, InactiveAbility
    PROVE  IInv'
BY OtherMessageKeeps DEF InactiveAbility, PageState

LEMMA LeaveScreenKeeps ==
    ASSUME IInv, LeaveScreen
    PROVE  IInv'
BY OtherMessageKeeps DEF LeaveScreen, PageState


\* An answer less is under way, or none.
Answers ==
    /\ reports' \in Seq([token : Start, state : PageState])
    /\ \A i \in DOMAIN reports' : \E j \in DOMAIN reports : reports'[i] = reports[j]

\* A page is deleted with its Want.
LEMMA DeletePageKeeps ==
    ASSUME IInv, DeletePage, Answers,
           UNCHANGED <<clientVars, toService, queue, toApp, tasks, ability, told>>
    PROVE  IInv'
<1>. DEFINE m == Call(heap, page.want, {})
            r == ClearWant(m)
            F == DOMAIN heap \ OfPage
<1>1. /\ page # None /\ heap' = r.heap /\ bad' = (bad \/ r.bad) /\ page' = None
      /\ UNCHANGED <<client, lost, sets, sent, toService, queue, toApp, tasks, ability, told>>
  BY DEF DeletePage, Memory, clientVars
<1>2. /\ Whole(page.want) /\ Pointers(page.want) \subseteq DOMAIN heap /\ OfPage = Pointers(page.want)
      /\ HeapTyped(heap) /\ bad = FALSE
  BY <1>1 DEF IInv, Owned, OfPage
<1>3. /\ Holds(m, DOMAIN heap \ Pointers(page.want))
      /\ m.heap = heap /\ m.want = page.want /\ m.ok = TRUE
  BY <1>2, CallHolds
<1>. HIDE DEF m, F
<1>4. Holds(m, F)
  BY <1>2, <1>3 DEF F
<1>5. /\ Pointers(r.want) = {} /\ r.ok = m.ok
      /\ \A x \in F : r.heap[x] = m.heap[x]
      /\ Holds(r, F)
      /\ DOMAIN r.heap = F /\ HeapTyped(r.heap) /\ r.bad = FALSE
  BY <1>4, ClearWantTakes
<1>. HIDE DEF r
<1>6. TypesOK'
  BY <1>1 DEF IInv, TypesOK, Answers
<1>7. /\ F = OfClient \cup Blocks(queue) \cup Blocks(tasks)
      /\ OfClient \cap (Blocks(queue) \cup Blocks(tasks)) = {}
      /\ Blocks(queue) \cap Blocks(tasks) = {}
  BY DEF IInv, Owned, F
<1>8. Owned'
  <2>1. /\ OfClient' = OfClient /\ Blocks(queue)' = Blocks(queue) /\ Blocks(tasks)' = Blocks(tasks)
        /\ OfPage' = {}
    BY <1>1 DEF OfClient, Blocks, OfPage
  <2>2. /\ DOMAIN heap' = OfClient' \cup Blocks(queue)' \cup OfPage' \cup Blocks(tasks)'
        /\ OfClient' \cap (Blocks(queue)' \cup OfPage' \cup Blocks(tasks)') = {}
        /\ Blocks(queue)' \cap (OfPage' \cup Blocks(tasks)') = {}
        /\ OfPage' \cap Blocks(tasks)' = {}
    BY <2>1, <1>1, <1>5, <1>7
  <2>3. /\ client' # None => Whole(client')
        /\ page' # None => Whole(page'.want)
        /\ Apart(queue') /\ Apart(tasks')
        /\ lost' \in Nat /\ lost' <= sets'
    BY <1>1 DEF IInv, Owned
  <2>4. bad' = FALSE /\ HeapTyped(heap')
    BY <1>1, <1>2, <1>5
  <2>. QED BY <2>2, <2>3, <2>4 DEF Owned
<1>9. Carried'
  <2>1. /\ \A b \in F : heap'[b] = heap[b]
        /\ OfClient \subseteq F /\ Blocks(queue) \subseteq F /\ Blocks(tasks) \subseteq F
    BY <1>1, <1>3, <1>5, <1>7
  <2>2. /\ client' # None =>
                 /\ Contents(heap', client', Copies(Target), Seq(Nat), {Len(sent') + 1})
                 /\ Measured(client')
        /\ \A k \in DOMAIN sent' : sent'[k].element # None /\ sent'[k].sid \in {None, k}
        /\ \A i \in DOMAIN queue : Pointers(queue[i].want) \subseteq F =>
              /\ queue[i].start \in DOMAIN sent'
              /\ Carries(heap', queue[i].want, sent'[queue[i].start], queue[i].start)
        /\ page # None /\ OfPage \subseteq F =>
              /\ page.token \in DOMAIN sent'
              /\ Carries(heap', page.want, sent'[page.token], page.token)
        /\ \A i \in DOMAIN tasks : Pointers(tasks[i].want) \subseteq F =>
              /\ tasks[i].token \in DOMAIN sent'
              /\ Carries(heap', tasks[i].want, sent'[tasks[i].token], tasks[i].token)
    BY <1>1, <2>1, StillCarried
  <2>3. \A i \in DOMAIN queue' :
           /\ queue'[i].start \in DOMAIN sent'
           /\ Carries(heap', queue'[i].want, sent'[queue'[i].start], queue'[i].start)
    <3>. TAKE i \in DOMAIN queue'
    <3>1. Pointers(queue[i].want) \subseteq F
      BY <2>1, <1>1, InBlocks
    <3>. QED BY <3>1, <2>2, <1>1
  <2>4. \A i \in DOMAIN tasks' :
           /\ tasks'[i].token \in DOMAIN sent'
           /\ Carries(heap', tasks'[i].want, sent'[tasks'[i].token], tasks'[i].token)
    <3>. TAKE i \in DOMAIN tasks'
    <3>1. Pointers(tasks[i].want) \subseteq F
      BY <2>1, <1>1, InBlocks
    <3>. QED BY <3>1, <2>2, <1>1
  <2>5. /\ \A i \in DOMAIN toService : /\ toService[i].start \in DOMAIN sent
                                       /\ toService[i].io = sent[toService[i].start]
        /\ \A i \in DOMAIN toApp :
              LET k == toApp[i]
              IN  /\ k.token \in DOMAIN sent
                  /\ k.io.element \in Copies(sent[k.token].element) \cup {None}
                  /\ k.io.data \in {sent[k.token].data, <<>>}
                  /\ k.io.sid \in {k.token, None}
        /\ \A i \in DOMAIN reports' : reports'[i].token \in DOMAIN sent
    BY DEF IInv, Carried, Answers
  <2>. QED BY <1>1, <2>2, <2>3, <2>4, <2>5 DEF Carried
<1>10. Waits'
  <2>1. \A k : Fresh(k, told, page, toApp, tasks, reports) =>
               Fresh(k, told, page', toApp, tasks, reports')
    BY <1>1 DEF Fresh, Answers
  <2>. QED BY <2>1, <1>1 DEF IInv, Waits
<1>11. IdentityOnce' /\ CalledOnce'
  BY <1>1 DEF IInv, IdentityOnce, CalledOnce
<1>. QED BY <1>6, <1>8, <1>9, <1>10, <1>11 DEF IInv

LEMMA RemovePageKeeps ==
    ASSUME IInv, RemovePage
    PROVE  IInv'
<1>1. UNCHANGED <<clientVars, toService, queue, toApp, tasks, reports, ability, told>>
  BY DEF RemovePage, appVars
<1>2. Answers
  BY <1>1 DEF IInv, TypesOK, Answers
<1>. QED BY <1>1, <1>2, DeletePageKeeps DEF RemovePage

\* An answer is recorded, or passed over.
LEMMA RecordedKeeps ==
    ASSUME IInv, Answers, NEW state \in PageState,
           \/ page' = page
           \/ page # None /\ page.want.sid = 0 /\ page' = [page EXCEPT !.state = state],
           UNCHANGED <<heap, bad, clientVars, toService, queue, toApp, tasks, ability, told>>
    PROVE  IInv'
<1>1. UNCHANGED <<heap, bad, client, lost, sets, sent, toService, queue, toApp, tasks, ability, told>>
  BY DEF clientVars
<1>2. /\ page' = None \/ page' \in Page
      /\ (page' = None) <=> (page = None)
      /\ page # None => page'.token = page.token /\ page'.want = page.want
  <2>1. page = None \/ page \in Page
    BY DEF IInv, TypesOK
  <2>2. CASE page # None /\ page' = [page EXCEPT !.state = state]
    <3>1. page' \in Page /\ page'.token = page.token /\ page'.want = page.want
      BY <2>1, <2>2 DEF Page
    <3>. QED BY <3>1, <2>2, NotNone
  <2>. QED BY <2>1, <2>2
<1>3. TypesOK'
  BY <1>1, <1>2 DEF IInv, TypesOK, Answers
<1>4. Owned'
  <2>1. /\ OfClient' = OfClient /\ Blocks(queue)' = Blocks(queue) /\ Blocks(tasks)' = Blocks(tasks)
        /\ OfPage' = OfPage
    BY <1>1, <1>2 DEF OfClient, Blocks, OfPage
  <2>. QED BY <2>1, <1>1, <1>2 DEF IInv, Owned
<1>5. Carried'
  <2>1. \A i \in DOMAIN reports' : reports'[i].token \in DOMAIN sent
    BY DEF IInv, Carried, Answers
  <2>. QED BY <2>1, <1>1, <1>2 DEF IInv, Carried
<1>6. Waits'
  <2>1. \A k : Fresh(k, told, page, toApp, tasks, reports) =>
               Fresh(k, told, page', toApp, tasks, reports')
    BY <1>2 DEF Fresh, Answers
  <2>. QED BY <2>1, <1>1 DEF IInv, Waits
<1>7. IdentityOnce'
  BY <1>1, <1>2 DEF IInv, IdentityOnce, Answers
<1>8. CalledOnce'
  BY <1>1 DEF IInv, CalledOnce
<1>. QED BY <1>3, <1>4, <1>5, <1>6, <1>7, <1>8 DEF IInv

LEMMA AbilityTransactionKeeps ==
    ASSUME IInv, AbilityTransaction
    PROVE  IInv'
<1>. DEFINE T == [token : Start, state : PageState]
            r == Head(reports)
<1>1. /\ reports # <<>> /\ reports' = Tail(reports)
      /\ UNCHANGED <<clientVars, toService, queue, toApp, tasks, ability, told>>
      /\ \/ UNCHANGED <<heap, bad, page>>
         \/ DeletePage
         \/ /\ page # None /\ page.token = r.token /\ page' = [page EXCEPT !.state = r.state]
            /\ UNCHANGED <<heap, bad>>
  BY DEF AbilityTransaction
<1>. HIDE DEF T
<1>2. reports \in Seq(T)
  BY DEF IInv, TypesOK, T
<1>3. /\ Tail(reports) \in Seq(T) /\ Head(reports) = reports[1]
      /\ reports[1] \in T /\ 1 \in DOMAIN reports
      /\ \A i \in DOMAIN Tail(reports) :
            Tail(reports)[i] = reports[i + 1] /\ i + 1 \in DOMAIN reports /\ i + 1 # 1
      /\ \A i \in DOMAIN reports :
            i # 1 => i - 1 \in DOMAIN Tail(reports) /\ Tail(reports)[i - 1] = reports[i]
      /\ \A i, j \in DOMAIN Tail(reports) : i # j => i + 1 # j + 1
  BY <1>1, <1>2, TailFacts
<1>4. Answers
  BY <1>1, <1>3 DEF Answers, T
<1>5. r.state \in PageState /\ r = reports[1]
  BY <1>3 DEF T
<1>6. page # None /\ page.token = r.token => page.want.sid = 0
  BY <1>3, <1>5 DEF IInv, IdentityOnce
<1>. HIDE DEF r
<1>7. CASE UNCHANGED <<heap, bad, page>>
  BY <1>1, <1>4, <1>5, <1>7, RecordedKeeps
<1>8. CASE DeletePage
  BY <1>1, <1>4, <1>8, DeletePageKeeps
<1>9. CASE /\ page # None /\ page.token = r.token /\ page' = [page EXCEPT !.state = r.state]
           /\ UNCHANGED <<heap, bad>>
  BY <1>1, <1>4, <1>5, <1>6, <1>9, RecordedKeeps
<1>. QED BY <1>1, <1>7, <1>8, <1>9


-----------------------------------------------------------------------------
(* The process.                                                            *)

\* A message says no more than its start was sent with.
LEMMA HeadOfApp ==
    ASSUME IInv, toApp # <<>>
    PROVE  LET msg == Head(toApp)
           IN  /\ msg = toApp[1] /\ 1 \in DOMAIN toApp
               /\ msg.token \in Start /\ msg.state \in PageState /\ msg.io.data \in Seq(Nat)
               /\ msg.token \in DOMAIN sent /\ sent[msg.token].element # None
               /\ msg.io.element \in Copies(sent[msg.token].element) \cup {None}
               /\ msg.io.data \in {sent[msg.token].data, <<>>}
               /\ msg.io.sid \in {msg.token, None}
<1>. DEFINE T == [token : Start, state : PageState, io : Io]
<1>. HIDE DEF T
<1>1. toApp \in Seq(T)
  BY DEF IInv, TypesOK, T
<1>2. Head(toApp) = toApp[1] /\ toApp[1] \in T /\ 1 \in DOMAIN toApp
  BY <1>1, TailFacts
<1>3. toApp[1].token \in Start /\ toApp[1].state \in PageState /\ toApp[1].io \in Io
  BY <1>2 DEF T
<1>4. toApp[1].io.data \in Seq(Nat)
  BY <1>3 DEF Io
<1>5. /\ toApp[1].token \in DOMAIN sent
      /\ toApp[1].io.element \in Copies(sent[toApp[1].token].element) \cup {None}
      /\ toApp[1].io.data \in {sent[toApp[1].token].data, <<>>}
      /\ toApp[1].io.sid \in {toApp[1].token, None}
  BY <1>2 DEF IInv, Carried
<1>6. sent[toApp[1].token].element # None
  BY <1>5 DEF IInv, Carried
<1>. QED BY <1>2, <1>3, <1>4, <1>5, <1>6

\* What is read from a message carries what its start was sent with, and an
\* identity only if the message does.
LEMMA CallbackGives ==
    ASSUME IInv, NEW fails, AmsCallback(fails)
    PROVE  LET msg == Head(toApp)
           IN  \E w : /\ Leaves(w)
                      /\ \/ tasks' = tasks /\ Pointers(w) = {}
                         \/ /\ tasks' = Append(tasks, [token |-> msg.token, state |-> msg.state,
                                                       want |-> w])
                            /\ Carries(heap', w, sent[msg.token], msg.token)
                            /\ w.sid # 0 => msg.io.sid # None
<1>. DEFINE msg == Head(toApp)
            n == msg.token
            io == msg.io
            A == DOMAIN heap
            m == Call(heap, NoWant, fails)
            r == DeserializeWant(m, io)
            w == r.want
<1>1. /\ toApp # <<>> /\ heap' = r.heap /\ bad' = (bad \/ r.bad)
      /\ tasks' = IF r.ok THEN Append(tasks, [token |-> n, state |-> msg.state, want |-> w])
                  ELSE tasks
  BY DEF AmsCallback, Memory
<1>2. /\ io.data \in Seq(Nat) /\ sent[n].element # None
      /\ io.element \in Copies(sent[n].element) \cup {None}
      /\ io.data \in {sent[n].data, <<>>} /\ io.sid \in {n, None}
  BY <1>1, HeadOfApp
<1>3. bad = FALSE
  BY DEF IInv, Owned
<1>4. /\ Holds(m, A) /\ m.heap = heap /\ m.want = NoWant /\ m.ok = TRUE
  BY EmptyCall
<1>. HIDE DEF m, n, io
<1>5. /\ Holds(r, A) /\ Keeps(r, m.heap, A)
      /\ r.ok => /\ Contents(r.heap, r.want, Copies(io.element), {io.data}, {io.sid} \ {None})
                 /\ Measured(r.want)
                 /\ io.element # None => r.want.element # 0
                 /\ io.element = None => r.want.element = 0
                 /\ io.data = <<>> => r.want.data = 0
      /\ ~r.ok => Pointers(r.want) = {}
  BY <1>2, <1>4, DeserializeWantGives
<1>. HIDE DEF r
<1>6. Leaves(w)
  BY <1>1, <1>3, <1>4, <1>5 DEF Leaves, Holds, Keeps
<1>7. CASE ~r.ok
  BY <1>1, <1>5, <1>6, <1>7
<1>8. CASE r.ok
  <2>1. w.sid # 0 => io.sid # None
    BY <1>5, <1>8 DEF Contents
  <2>2. w.element # 0 => r.heap[w.element] \in Copies(sent[n].element)
    <3>. HAVE w.element # 0
    <3>1. io.element \in Copies(sent[n].element)
      BY <1>2, <1>5, <1>8
    <3>2. Copies(io.element) \subseteq Copies(sent[n].element)
      BY <3>1, CopiesOfCopies
    <3>. QED BY <3>2, <1>5, <1>8 DEF Contents
  <2>3. w.data # 0 => r.heap[w.data] \in {sent[n].data}
    BY <1>2, <1>5, <1>8 DEF Contents
  <2>4. w.sid # 0 => r.heap[w.sid] \in {n}
    BY <1>2, <1>5, <1>8 DEF Contents
  <2>5. Carries(heap', w, sent[n], n)
    BY <1>1, <1>5, <1>8, <2>2, <2>3, <2>4 DEF Carries, Contents
  <2>. QED BY <1>1, <1>6, <1>8, <2>1, <2>5 DEF n, io
<1>. QED BY <1>7, <1>8

LEMMA AmsCallbackKeeps ==
    ASSUME IInv, NEW fails, AmsCallback(fails)
    PROVE  IInv'
<1>. DEFINE n == Head(toApp).token
            io == Head(toApp).io
            T == [token : Start, state : PageState, want : Want]
            U == [token : Start, state : PageState, io : Io]
<1>1. /\ toApp # <<>> /\ toApp' = Tail(toApp)
      /\ UNCHANGED <<client, lost, sets, sent, toService, queue, page, reports, ability, told>>
  BY DEF AmsCallback, clientVars, serviceVars
<1>2. PICK w : /\ Leaves(w)
               /\ \/ tasks' = tasks /\ Pointers(w) = {}
                  \/ /\ tasks' = Append(tasks, [token |-> n, state |-> Head(toApp).state, want |-> w])
                     /\ Carries(heap', w, sent[n], n)
                     /\ w.sid # 0 => io.sid # None
  BY CallbackGives
<1>3. /\ n \in Start /\ n \in DOMAIN sent /\ Head(toApp).state \in PageState
      /\ toApp[1].token = n /\ toApp[1].io = io /\ 1 \in DOMAIN toApp
  BY <1>1, HeadOfApp
<1>. DEFINE x == [token |-> n, state |-> Head(toApp).state, want |-> w]
<1>. HIDE DEF n, io
<1>4. tasks \in Seq(T) /\ x \in T /\ x.token = n /\ x.want = w /\ toApp \in Seq(U)
  BY <1>2, <1>3 DEF IInv, TypesOK, Leaves, Whole
<1>. HIDE DEF x, T, U
<1>5. /\ bad' = FALSE /\ HeapTyped(heap') /\ Whole(w)
      /\ DOMAIN heap' = DOMAIN heap \cup Pointers(w) /\ DOMAIN heap \cap Pointers(w) = {}
      /\ \A b \in DOMAIN heap : heap'[b] = heap[b]
  BY <1>2 DEF Leaves
<1>6. Apart(tasks) /\ Pointers(w) \cap Blocks(tasks) = {}
  BY <1>5 DEF IInv, Owned
<1>7. /\ tasks' \in Seq(T)
      /\ \A i \in DOMAIN tasks' :
            \/ i \in DOMAIN tasks /\ tasks'[i] = tasks[i]
            \/ /\ i = Len(tasks) + 1 /\ i \notin DOMAIN tasks /\ tasks'[i] = x
               /\ Carries(heap', w, sent[n], n) /\ (w.sid # 0 => io.sid # None)
      /\ Apart(tasks') /\ Blocks(tasks') = Blocks(tasks) \cup Pointers(w)
  <2>1. CASE tasks' = tasks /\ Pointers(w) = {}
    BY <2>1, <1>4, <1>6
  <2>2. CASE /\ tasks' = Append(tasks, x) /\ Carries(heap', w, sent[n], n)
             /\ w.sid # 0 => io.sid # None
    <3>1. /\ Append(tasks, x) \in Seq(T)
          /\ Len(tasks) + 1 \in DOMAIN Append(tasks, x) /\ Append(tasks, x)[Len(tasks) + 1] = x
          /\ Len(tasks) + 1 \notin DOMAIN tasks
          /\ \A i \in DOMAIN tasks : i \in DOMAIN Append(tasks, x) /\ Append(tasks, x)[i] = tasks[i]
          /\ \A i \in DOMAIN Append(tasks, x) : i \in DOMAIN tasks \/ i = Len(tasks) + 1
      BY <1>4, AppendFacts
    <3>2. /\ Apart(Append(tasks, x))
          /\ Blocks(Append(tasks, x)) = Blocks(tasks) \cup Pointers(x.want)
      BY <1>4, <1>5, <1>6, BlocksAppend
    <3>. QED BY <2>2, <3>1, <3>2, <1>4
  <2>. QED BY <2>1, <2>2, <1>2 DEF x
<1>8. /\ Tail(toApp) \in Seq(U) /\ Head(toApp) = toApp[1] /\ toApp[1] \in U /\ 1 \in DOMAIN toApp
      /\ \A i \in DOMAIN Tail(toApp) :
            Tail(toApp)[i] = toApp[i + 1] /\ i + 1 \in DOMAIN toApp /\ i + 1 # 1
      /\ \A i \in DOMAIN toApp :
            i # 1 => i - 1 \in DOMAIN Tail(toApp) /\ Tail(toApp)[i - 1] = toApp[i]
      /\ \A i, j \in DOMAIN Tail(toApp) : i # j => i + 1 # j + 1
  BY <1>1, <1>4, TailFacts
<1>9. TypesOK'
  BY <1>1, <1>7, <1>8 DEF IInv, TypesOK, T, U
<1>10. Owned'
  <2>1. OfClient' = OfClient /\ OfPage' = OfPage /\ Blocks(queue)' = Blocks(queue)
    BY <1>1 DEF OfClient, OfPage, Blocks
  <2>2. /\ DOMAIN heap = OfClient \cup Blocks(queue) \cup OfPage \cup Blocks(tasks)
        /\ OfClient \cap (Blocks(queue) \cup OfPage \cup Blocks(tasks)) = {}
        /\ Blocks(queue) \cap (OfPage \cup Blocks(tasks)) = {}
        /\ OfPage \cap Blocks(tasks) = {}
    BY DEF IInv, Owned
  <2>3. /\ DOMAIN heap' = OfClient' \cup Blocks(queue') \cup OfPage' \cup Blocks(tasks')
        /\ OfClient' \cap (Blocks(queue') \cup OfPage' \cup Blocks(tasks')) = {}
        /\ Blocks(queue') \cap (OfPage' \cup Blocks(tasks')) = {}
        /\ OfPage' \cap Blocks(tasks') = {}
    BY <2>1, <2>2, <1>5, <1>7
  <2>4. /\ client' # None => Whole(client')
        /\ page' # None => Whole(page'.want)
        /\ Apart(queue') /\ Apart(tasks')
        /\ lost' \in Nat /\ lost' <= sets'
    BY <1>1, <1>7 DEF IInv, Owned
  <2>. QED BY <2>3, <2>4, <1>5 DEF Owned
<1>11. Carried'
  <2>. DEFINE B == DOMAIN heap
  <2>1. /\ \A b \in B : heap'[b] = heap[b]
        /\ OfClient \subseteq B /\ OfPage \subseteq B /\ Blocks(queue) \subseteq B /\ Blocks(tasks) \subseteq B
    BY <1>5 DEF IInv, Owned
  <2>. HIDE DEF B
  <2>2. /\ client' # None =>
                 /\ Contents(heap', client', Copies(Target), Seq(Nat), {Len(sent') + 1})
                 /\ Measured(client')
        /\ \A k \in DOMAIN sent' : sent'[k].element # None /\ sent'[k].sid \in {None, k}
        /\ \A i \in DOMAIN queue : Pointers(queue[i].want) \subseteq B =>
              /\ queue[i].start \in DOMAIN sent'
              /\ Carries(heap', queue[i].want, sent'[queue[i].start], queue[i].start)
        /\ page # None /\ OfPage \subseteq B =>
              /\ page.token \in DOMAIN sent'
              /\ Carries(heap', page.want, sent'[page.token], page.token)
        /\ \A i \in DOMAIN tasks : Pointers(tasks[i].want) \subseteq B =>
              /\ tasks[i].token \in DOMAIN sent'
              /\ Carries(heap', tasks[i].want, sent'[tasks[i].token], tasks[i].token)
    BY <1>1, <2>1, StillCarried
  <2>3. \A i \in DOMAIN queue' :
           /\ queue'[i].start \in DOMAIN sent'
           /\ Carries(heap', queue'[i].want, sent'[queue'[i].start], queue'[i].start)
    <3>. TAKE i \in DOMAIN queue'
    <3>1. Pointers(queue[i].want) \subseteq B
      BY <2>1, <1>1, InBlocks
    <3>. QED BY <3>1, <2>2, <1>1
  <2>4. \A i \in DOMAIN tasks' :
           /\ tasks'[i].token \in DOMAIN sent'
           /\ Carries(heap', tasks'[i].want, sent'[tasks'[i].token], tasks'[i].token)
    <3>. TAKE i \in DOMAIN tasks'
    <3>1. CASE i \in DOMAIN tasks /\ tasks'[i] = tasks[i]
      <4>1. Pointers(tasks[i].want) \subseteq B
        BY <3>1, <2>1, InBlocks
      <4>. QED BY <3>1, <4>1, <2>2
    <3>2. CASE tasks'[i] = x /\ Carries(heap', w, sent[n], n)
      BY <3>2, <1>1, <1>3, <1>4
    <3>. QED BY <3>1, <3>2, <1>7
  <2>5. page' # None => /\ page'.token \in DOMAIN sent'
                        /\ Carries(heap', page'.want, sent'[page'.token], page'.token)
    BY <1>1, <2>1, <2>2
  <2>6. \A i \in DOMAIN toApp' :
           LET k == toApp'[i]
           IN  /\ k.token \in DOMAIN sent
               /\ k.io.element \in Copies(sent[k.token].element) \cup {None}
               /\ k.io.data \in {sent[k.token].data, <<>>}
               /\ k.io.sid \in {k.token, None}
    <3>. TAKE i \in DOMAIN toApp'
    <3>1. i + 1 \in DOMAIN toApp /\ toApp'[i] = toApp[i + 1]
      BY <1>1, <1>8
    <3>. QED BY <3>1 DEF IInv, Carried
  <2>7. /\ \A i \in DOMAIN toService : /\ toService[i].start \in DOMAIN sent
                                       /\ toService[i].io = sent[toService[i].start]
        /\ \A i \in DOMAIN reports : reports[i].token \in DOMAIN sent
    BY DEF IInv, Carried
  <2>. QED BY <1>1, <2>2, <2>3, <2>4, <2>5, <2>6, <2>7 DEF Carried
<1>12. Waits'
  <2>1. \A k : Fresh(k, told, page, toApp, tasks, reports) =>
               Fresh(k, told, page, toApp', tasks', reports)
    <3>1. \A i \in DOMAIN tasks' : \/ i \in DOMAIN tasks /\ tasks'[i] = tasks[i]
                                   \/ tasks'[i].token = toApp[1].token
      BY <1>3, <1>4, <1>7
    <3>2. \A i \in DOMAIN toApp' : i + 1 \in DOMAIN toApp /\ toApp'[i] = toApp[i + 1]
      BY <1>1, <1>8
    <3>. QED BY <3>1, <3>2, <1>3 DEF Fresh
  <2>. QED BY <2>1, <1>1 DEF IInv, Waits
<1>13. IdentityOnce'
  <2>1. /\ \A i \in DOMAIN toApp' : i + 1 \in DOMAIN toApp /\ toApp'[i] = toApp[i + 1] /\ i + 1 # 1
        /\ \A i, j \in DOMAIN toApp' : i # j => i + 1 # j + 1
    BY <1>1, <1>8
  <2>2. io.sid # None =>
          /\ told[n] = <<>>
          /\ \A j \in DOMAIN toApp : j # 1 /\ toApp[j].token = n => toApp[j].io.sid = None
          /\ \A j \in DOMAIN tasks : tasks[j].token = n => tasks[j].want.sid = 0
    BY <1>3 DEF IInv, IdentityOnce
  <2>3. page # None /\ page.want.sid # 0 =>
          /\ page.state = "UNINITIALIZED" /\ told[page.token] = <<>>
          /\ \A i \in DOMAIN toApp' : toApp'[i].token # page.token
          /\ \A i \in DOMAIN tasks' : tasks'[i].token # page.token
          /\ \A i \in DOMAIN reports : reports[i].token # page.token
    <3>. HAVE page # None /\ page.want.sid # 0
    <3>1. /\ page.state = "UNINITIALIZED" /\ told[page.token] = <<>>
          /\ \A i \in DOMAIN toApp : toApp[i].token # page.token
          /\ \A i \in DOMAIN tasks : tasks[i].token # page.token
          /\ \A i \in DOMAIN reports : reports[i].token # page.token
      BY DEF IInv, IdentityOnce
    <3>2. \A i \in DOMAIN tasks' : tasks'[i].token # page.token
      BY <3>1, <1>3, <1>4, <1>7
    <3>. QED BY <3>1, <3>2, <2>1
  <2>4. ASSUME NEW i \in DOMAIN toApp', toApp'[i].io.sid # None
        PROVE  /\ told[toApp'[i].token] = <<>>
               /\ \A j \in DOMAIN toApp' : j # i /\ toApp'[j].token = toApp'[i].token
                                           => toApp'[j].io.sid = None
               /\ \A j \in DOMAIN tasks' : tasks'[j].token = toApp'[i].token => tasks'[j].want.sid = 0
    <3>1. i + 1 \in DOMAIN toApp /\ toApp'[i] = toApp[i + 1] /\ i + 1 # 1
      BY <2>1
    <3>2. /\ told[toApp[i + 1].token] = <<>>
          /\ \A j \in DOMAIN toApp : j # i + 1 /\ toApp[j].token = toApp[i + 1].token
                                     => toApp[j].io.sid = None
          /\ \A j \in DOMAIN tasks : tasks[j].token = toApp[i + 1].token => tasks[j].want.sid = 0
      BY <2>4, <3>1 DEF IInv, IdentityOnce
    <3>3. toApp[i + 1].token = n => io.sid = None
      BY <3>1, <3>2, <1>3
    <3>4. \A j \in DOMAIN tasks' : tasks'[j].token = toApp'[i].token => tasks'[j].want.sid = 0
      BY <3>1, <3>2, <3>3, <1>4, <1>7
    <3>5. ASSUME NEW j \in DOMAIN toApp', j # i, toApp'[j].token = toApp'[i].token
          PROVE  toApp'[j].io.sid = None
      <4>1. j + 1 \in DOMAIN toApp /\ toApp'[j] = toApp[j + 1] /\ j + 1 # i + 1
        BY <2>1, <3>5
      <4>. QED BY <4>1, <3>1, <3>2, <3>5
    <3>. QED BY <3>1, <3>2, <3>4, <3>5
  <2>5. ASSUME NEW i \in DOMAIN tasks', tasks'[i].want.sid # 0
        PROVE  /\ told[tasks'[i].token] = <<>>
               /\ \A j \in DOMAIN tasks' : j # i /\ tasks'[j].token = tasks'[i].token
                                           => tasks'[j].want.sid = 0
    <3>1. CASE i \in DOMAIN tasks /\ tasks'[i] = tasks[i]
      <4>1. /\ told[tasks[i].token] = <<>>
            /\ \A j \in DOMAIN tasks : j # i /\ tasks[j].token = tasks[i].token => tasks[j].want.sid = 0
        BY <2>5, <3>1 DEF IInv, IdentityOnce
      <4>2. tasks[i].token = n => io.sid = None
        BY <2>2, <2>5, <3>1
      <4>. QED BY <4>1, <4>2, <3>1, <1>4, <1>7
    <3>2. CASE i = Len(tasks) + 1 /\ tasks'[i] = x /\ (w.sid # 0 => io.sid # None)
      BY <2>2, <2>5, <3>2, <1>4, <1>7
    <3>. QED BY <3>1, <3>2, <1>7
  <2>. QED BY <1>1, <2>3, <2>4, <2>5 DEF IdentityOnce
<1>14. CalledOnce'
  BY <1>1 DEF IInv, CalledOnce
<1>. QED BY <1>9, <1>10, <1>11, <1>12, <1>13, <1>14 DEF IInv


LEMMA HeadOfTasks ==
    ASSUME IInv, tasks # <<>>
    PROVE  LET task == Head(tasks)
           IN  /\ task = tasks[1] /\ 1 \in DOMAIN tasks
               /\ task.token \in Start /\ task.state \in PageState /\ Whole(task.want)
               /\ task.token \in DOMAIN sent
               /\ Carries(heap, task.want, sent[task.token], task.token)
<1>. DEFINE T == [token : Start, state : PageState, want : Want]
<1>. HIDE DEF T
<1>1. tasks \in Seq(T)
  BY DEF IInv, TypesOK, T
<1>2. Head(tasks) = tasks[1] /\ tasks[1] \in T /\ 1 \in DOMAIN tasks
  BY <1>1, TailFacts
<1>3. tasks[1].token \in Start /\ tasks[1].state \in PageState
  BY <1>2 DEF T
<1>4. tasks[1].token \in DOMAIN sent /\ Carries(heap, tasks[1].want, sent[tasks[1].token], tasks[1].token)
  BY <1>2 DEF IInv, Carried
<1>5. Whole(tasks[1].want)
  BY <1>2 DEF IInv, Owned, Apart
<1>. QED BY <1>2, <1>3, <1>4, <1>5

\* The callback of a task, if there is one, is the first of its start.
LEMMA PerformTells ==
    ASSUME IInv, tasks # <<>>, NEW state \in PageState, Perform(Head(tasks), state)
    PROVE  LET n == Head(tasks).token
           IN  /\ told' \in [Start -> Seq({"failed", "started"})]
               /\ \A k \in Start : k # n => told'[k] = told[k]
               /\ Len(told'[n]) <= 1
               /\ Head(tasks).want.sid = 0 => told' = told
<1>. DEFINE want == Head(tasks).want
            n == Head(tasks).token
            x == Append(<<>>, "started")
            S == Seq({"failed", "started"})
<1>1. told' = IF state # "ACTIVE" \/ want.sid = 0 \/ want.element = 0 THEN told
              ELSE [told EXCEPT ![heap[want.sid]] = Append(told[heap[want.sid]], "started")]
  BY DEF Perform
<1>2. /\ n \in Start /\ (want.sid # 0 => heap[want.sid] = n)
      /\ want = tasks[1].want /\ n = tasks[1].token /\ 1 \in DOMAIN tasks
  BY HeadOfTasks DEF Carries, Contents
<1>3. want.sid # 0 => told[n] = <<>>
  BY <1>2 DEF IInv, IdentityOnce
<1>4. told \in [Start -> S] /\ Len(told[n]) <= 1
  BY <1>2 DEF IInv, TypesOK, CalledOnce
<1>5. x \in S /\ Len(x) = 1
  OBVIOUS
<1>. HIDE DEF want, n
<1>6. told' = told \/ (want.sid # 0 /\ told' = [told EXCEPT ![n] = x])
  BY <1>1, <1>2, <1>3
<1>. HIDE DEF x, S
<1>7. CASE told' = told
  BY <1>4, <1>7 DEF want, n, S
<1>8. CASE want.sid # 0 /\ told' = [told EXCEPT ![n] = x]
  <2>1. told' \in [Start -> S] /\ \A k \in Start : k # n => told'[k] = told[k]
    BY <1>2, <1>4, <1>5, <1>8
  <2>2. told'[n] = x
    BY <1>2, <1>4, <1>8
  <2>3. Len(told'[n]) = 1
    BY ONLY <2>2, <1>5, Zenon
  <2>4. Len(told'[n]) <= 1
    BY ONLY <2>3
  <2>5. want.sid # 0
    BY <1>8
  <2>. QED BY <2>1, <2>4, <2>5 DEF want, n, S
<1>. QED BY <1>6, <1>7, <1>8

LEMMA PerformKeeps ==
    ASSUME IInv, tasks # <<>>, NEW state \in PageState, Perform(Head(tasks), state)
    PROVE  IInv'
<1>. DEFINE want == Head(tasks).want
            n == Head(tasks).token
            m == Call(heap, want, {})
            r == ClearWant(m)
            F == DOMAIN heap \ Pointers(want)
            T == [token : Start, state : PageState, want : Want]
            U == [token : Start, state : PageState]
            x == [token |-> n, state |-> state]
<1>1. /\ heap' = r.heap /\ bad' = (bad \/ r.bad) /\ tasks' = Tail(tasks)
      /\ reports' = Append(reports, x) /\ ability' = [ability EXCEPT ![n] = state]
      /\ UNCHANGED <<client, lost, sets, sent, toService, queue, page, toApp>>
  BY DEF Perform, Memory, clientVars, serviceVars
<1>2. /\ told' \in [Start -> Seq({"failed", "started"})]
      /\ \A k \in Start : k # n => told'[k] = told[k]
      /\ Len(told'[n]) <= 1
      /\ want.sid = 0 => told' = told
  BY PerformTells
<1>3. /\ n \in Start /\ n \in DOMAIN sent /\ 1 \in DOMAIN tasks
      /\ tasks[1].token = n /\ tasks[1].want = want
  BY HeadOfTasks
<1>. HIDE DEF n, want
<1>4. tasks \in Seq(T) /\ reports \in Seq(U) /\ x \in U /\ x.token = n
  BY <1>3 DEF IInv, TypesOK
<1>. HIDE DEF T, U, x
<1>5. /\ tasks' \in Seq(T)
      /\ \A i \in DOMAIN tasks' : tasks'[i] = tasks[i + 1] /\ i + 1 \in DOMAIN tasks /\ i + 1 # 1
      /\ \A i, j \in DOMAIN tasks' : i # j => i + 1 # j + 1
  <2>1. /\ Tail(tasks) \in Seq(T) /\ Head(tasks) = tasks[1] /\ tasks[1] \in T /\ 1 \in DOMAIN tasks
        /\ \A i \in DOMAIN Tail(tasks) : Tail(tasks)[i] = tasks[i + 1] /\ i + 1 \in DOMAIN tasks /\ i + 1 # 1
        /\ \A i \in DOMAIN tasks : i # 1 => i - 1 \in DOMAIN Tail(tasks) /\ Tail(tasks)[i - 1] = tasks[i]
        /\ \A i, j \in DOMAIN Tail(tasks) : i # j => i + 1 # j + 1
    BY <1>4, TailFacts
  <2>. QED BY <2>1, <1>1
<1>6. /\ Apart(tasks') /\ Whole(want) /\ Pointers(want) \cap Blocks(tasks') = {}
      /\ Blocks(tasks) = Pointers(want) \cup Blocks(tasks')
  BY <1>1, <1>4, BlocksTail DEF IInv, Owned, want
<1>7. /\ reports' \in Seq(U)
      /\ \A i \in DOMAIN reports' : (i \in DOMAIN reports /\ reports'[i] = reports[i]) \/ reports'[i] = x
  <2>1. /\ Append(reports, x) \in Seq(U)
        /\ Len(reports) + 1 \in DOMAIN Append(reports, x) /\ Append(reports, x)[Len(reports) + 1] = x
        /\ Len(reports) + 1 \notin DOMAIN reports
        /\ \A i \in DOMAIN reports : i \in DOMAIN Append(reports, x) /\ Append(reports, x)[i] = reports[i]
        /\ \A i \in DOMAIN Append(reports, x) : i \in DOMAIN reports \/ i = Len(reports) + 1
    BY <1>4, AppendFacts
  <2>. QED BY <2>1, <1>1
<1>8. bad = FALSE /\ HeapTyped(heap) /\ Pointers(want) \subseteq DOMAIN heap
  BY <1>6 DEF IInv, Owned
<1>9. Holds(m, F) /\ m.heap = heap
  <2>1. /\ Holds(m, DOMAIN heap \ Pointers(want))
        /\ m.heap = heap /\ m.want = want /\ m.ok = TRUE
    BY <1>6, <1>8, CallHolds
  <2>. QED BY <2>1
<1>. HIDE DEF m, F
<1>10. /\ Pointers(r.want) = {} /\ r.ok = m.ok
       /\ \A b \in F : r.heap[b] = m.heap[b]
       /\ Holds(r, F)
       /\ DOMAIN r.heap = F /\ HeapTyped(r.heap) /\ r.bad = FALSE
  BY <1>9, ClearWantTakes
<1>. HIDE DEF r
<1>11. TypesOK'
  <2>1. ability' \in [Start -> PageState]
    BY <1>1, <1>3 DEF IInv, TypesOK
  <2>. QED BY <2>1, <1>1, <1>2, <1>5, <1>7 DEF IInv, TypesOK, T, U
<1>12. /\ F = OfClient \cup Blocks(queue) \cup OfPage \cup Blocks(tasks')
       /\ OfClient \cap (Blocks(queue) \cup OfPage \cup Blocks(tasks')) = {}
       /\ Blocks(queue) \cap (OfPage \cup Blocks(tasks')) = {}
       /\ OfPage \cap Blocks(tasks') = {}
  BY <1>6 DEF IInv, Owned, F
<1>13. Owned'
  <2>1. OfClient' = OfClient /\ OfPage' = OfPage /\ Blocks(queue)' = Blocks(queue)
    BY <1>1 DEF OfClient, OfPage, Blocks
  <2>2. bad' = FALSE /\ HeapTyped(heap') /\ DOMAIN heap' = F
    BY <1>1, <1>8, <1>10
  <2>3. /\ client' # None => Whole(client')
        /\ page' # None => Whole(page'.want)
        /\ Apart(queue') /\ Apart(tasks')
        /\ lost' \in Nat /\ lost' <= sets'
    BY <1>1, <1>6 DEF IInv, Owned
  <2>. QED BY <2>1, <2>2, <2>3, <1>12 DEF Owned
<1>14. Carried'
  <2>1. /\ \A b \in F : heap'[b] = heap[b]
        /\ OfClient \subseteq F /\ OfPage \subseteq F /\ Blocks(queue) \subseteq F /\ Blocks(tasks') \subseteq F
    BY <1>1, <1>9, <1>10, <1>12
  <2>2. /\ client' # None =>
                 /\ Contents(heap', client', Copies(Target), Seq(Nat), {Len(sent') + 1})
                 /\ Measured(client')
        /\ \A k \in DOMAIN sent' : sent'[k].element # None /\ sent'[k].sid \in {None, k}
        /\ \A i \in DOMAIN queue : Pointers(queue[i].want) \subseteq F =>
              /\ queue[i].start \in DOMAIN sent'
              /\ Carries(heap', queue[i].want, sent'[queue[i].start], queue[i].start)
        /\ page # None /\ OfPage \subseteq F =>
              /\ page.token \in DOMAIN sent'
              /\ Carries(heap', page.want, sent'[page.token], page.token)
        /\ \A i \in DOMAIN tasks : Pointers(tasks[i].want) \subseteq F =>
              /\ tasks[i].token \in DOMAIN sent'
              /\ Carries(heap', tasks[i].want, sent'[tasks[i].token], tasks[i].token)
    BY <1>1, <2>1, StillCarried
  <2>3. \A i \in DOMAIN queue' :
           /\ queue'[i].start \in DOMAIN sent'
           /\ Carries(heap', queue'[i].want, sent'[queue'[i].start], queue'[i].start)
    <3>. TAKE i \in DOMAIN queue'
    <3>1. Pointers(queue[i].want) \subseteq F
      BY <2>1, <1>1, InBlocks
    <3>. QED BY <3>1, <2>2, <1>1
  <2>4. \A i \in DOMAIN tasks' :
           /\ tasks'[i].token \in DOMAIN sent'
           /\ Carries(heap', tasks'[i].want, sent'[tasks'[i].token], tasks'[i].token)
    <3>. TAKE i \in DOMAIN tasks'
    <3>1. Pointers(tasks'[i].want) \subseteq F
      BY <2>1, InBlocks
    <3>. QED BY <3>1, <2>2, <1>5
  <2>5. page' # None => /\ page'.token \in DOMAIN sent'
                        /\ Carries(heap', page'.want, sent'[page'.token], page'.token)
    BY <1>1, <2>1, <2>2
  <2>6. /\ \A i \in DOMAIN toService : /\ toService[i].start \in DOMAIN sent
                                       /\ toService[i].io = sent[toService[i].start]
        /\ \A i \in DOMAIN toApp :
              LET k == toApp[i]
              IN  /\ k.token \in DOMAIN sent
                  /\ k.io.element \in Copies(sent[k.token].element) \cup {None}
                  /\ k.io.data \in {sent[k.token].data, <<>>}
                  /\ k.io.sid \in {k.token, None}
    BY DEF IInv, Carried
  <2>7. \A i \in DOMAIN reports' : reports'[i].token \in DOMAIN sent
    BY <1>3, <1>4, <1>7 DEF IInv, Carried
  <2>. QED BY <1>1, <2>2, <2>3, <2>4, <2>5, <2>6, <2>7 DEF Carried
<1>15. Waits'
  <2>1. \A k \in Start : Fresh(k, told, page, toApp, tasks, reports) =>
                         Fresh(k, told', page, toApp, tasks', reports')
    <3>. TAKE k \in Start
    <3>. HAVE Fresh(k, told, page, toApp, tasks, reports)
    <3>1. k # n
      BY <1>3 DEF Fresh
    <3>2. \A i \in DOMAIN reports' : reports'[i].token # k
      BY <3>1, <1>4, <1>7 DEF Fresh
    <3>3. \A i \in DOMAIN tasks' : tasks'[i].token # k
      BY <1>5 DEF Fresh
    <3>. QED BY <3>1, <3>2, <3>3, <1>2 DEF Fresh
  <2>2. /\ \A i \in DOMAIN queue : queue[i].start \in Start
        /\ \A i \in DOMAIN toService : toService[i].start \in Start
    <3>. DEFINE V == [start : Start, want : Want]
                W == [start : Start, io : Io]
    <3>1. /\ \A i \in DOMAIN queue : queue[i] \in V
          /\ \A i \in DOMAIN toService : toService[i] \in W
      <4>. HIDE DEF V, W
      <4>1. queue \in Seq(V) /\ toService \in Seq(W)
        BY DEF IInv, TypesOK, V, W
      <4>. QED BY <4>1
    <3>. QED BY <3>1
  <2>3. \A k \in Start : k > Len(sent) => told'[k] = <<>>
    <3>1. DOMAIN sent = 1..Len(sent) /\ Len(sent) \in Nat
      BY DEF IInv, TypesOK
    <3>2. \A k \in Start : k > Len(sent) => k # n
      BY <3>1, <1>3 DEF Start
    <3>. QED BY <3>2, <1>2 DEF IInv, Waits
  <2>4. /\ \A i \in DOMAIN queue : Fresh(queue[i].start, told', page, toApp, tasks', reports')
        /\ \A i \in DOMAIN toService : Fresh(toService[i].start, told', page, toApp, tasks', reports')
    BY <2>1, <2>2 DEF IInv, Waits
  <2>. QED BY <2>3, <2>4, <1>1 DEF IInv, Waits
<1>16. IdentityOnce'
  <2>0. /\ \A i \in DOMAIN toApp : toApp[i].token \in Start
        /\ \A i \in DOMAIN tasks : tasks[i].token \in Start
        /\ page # None => page.token \in Start
    <3>. DEFINE V == [token : Start, state : PageState, io : Io]
    <3>1. /\ \A i \in DOMAIN toApp : toApp[i] \in V
          /\ \A i \in DOMAIN tasks : tasks[i] \in T
      <4>. HIDE DEF V
      <4>1. toApp \in Seq(V) /\ tasks \in Seq(T)
        BY <1>4 DEF IInv, TypesOK, V
      <4>. QED BY <4>1
    <3>. QED BY <3>1 DEF IInv, TypesOK, Page, T
  <2>1. \A k \in Start : k # n \/ want.sid = 0 => told'[k] = told[k]
    BY <1>2
  <2>2. ASSUME page # None, page.want.sid # 0
        PROVE  /\ page.state = "UNINITIALIZED" /\ told'[page.token] = <<>>
               /\ \A i \in DOMAIN toApp : toApp[i].token # page.token
               /\ \A i \in DOMAIN tasks' : tasks'[i].token # page.token
               /\ \A i \in DOMAIN reports' : reports'[i].token # page.token
    <3>1. /\ page.state = "UNINITIALIZED" /\ told[page.token] = <<>>
          /\ \A i \in DOMAIN toApp : toApp[i].token # page.token
          /\ \A i \in DOMAIN tasks : tasks[i].token # page.token
          /\ \A i \in DOMAIN reports : reports[i].token # page.token
      BY <2>2 DEF IInv, IdentityOnce
    <3>2. page.token # n
      BY <3>1, <1>3
    <3>3. \A i \in DOMAIN reports' : reports'[i].token # page.token
      BY <3>1, <3>2, <1>4, <1>7
    <3>4. told'[page.token] = <<>>
      BY <2>0, <2>1, <2>2, <3>1, <3>2
    <3>. QED BY <3>1, <3>3, <3>4, <1>5
  <2>3. ASSUME NEW i \in DOMAIN toApp, toApp[i].io.sid # None
        PROVE  /\ told'[toApp[i].token] = <<>>
               /\ \A j \in DOMAIN toApp : j # i /\ toApp[j].token = toApp[i].token => toApp[j].io.sid = None
               /\ \A j \in DOMAIN tasks' : tasks'[j].token = toApp[i].token => tasks'[j].want.sid = 0
    <3>1. /\ told[toApp[i].token] = <<>>
          /\ \A j \in DOMAIN toApp : j # i /\ toApp[j].token = toApp[i].token => toApp[j].io.sid = None
          /\ \A j \in DOMAIN tasks : tasks[j].token = toApp[i].token => tasks[j].want.sid = 0
      BY <2>3 DEF IInv, IdentityOnce
    <3>2. toApp[i].token = n => want.sid = 0
      BY <3>1, <1>3
    <3>3. told'[toApp[i].token] = <<>>
      BY <2>0, <2>1, <3>1, <3>2
    <3>. QED BY <3>1, <3>3, <1>5
  <2>4. ASSUME NEW i \in DOMAIN tasks', tasks'[i].want.sid # 0
        PROVE  /\ told'[tasks'[i].token] = <<>>
               /\ \A j \in DOMAIN tasks' : j # i /\ tasks'[j].token = tasks'[i].token
                                           => tasks'[j].want.sid = 0
    <3>1. i + 1 \in DOMAIN tasks /\ tasks'[i] = tasks[i + 1] /\ i + 1 # 1
      BY <1>5
    <3>2. /\ told[tasks[i + 1].token] = <<>>
          /\ \A j \in DOMAIN tasks : j # i + 1 /\ tasks[j].token = tasks[i + 1].token
                                     => tasks[j].want.sid = 0
      BY <2>4, <3>1 DEF IInv, IdentityOnce
    <3>3. tasks[i + 1].token = n => want.sid = 0
      BY <3>1, <3>2, <1>3
    <3>4. told'[tasks[i + 1].token] = <<>>
      BY <2>0, <2>1, <3>1, <3>2, <3>3
    <3>5. ASSUME NEW j \in DOMAIN tasks', j # i, tasks'[j].token = tasks'[i].token
          PROVE  tasks'[j].want.sid = 0
      <4>1. j + 1 \in DOMAIN tasks /\ tasks'[j] = tasks[j + 1] /\ j + 1 # i + 1
        BY <1>5, <3>5
      <4>. QED BY <4>1, <3>1, <3>2, <3>5
    <3>. QED BY <3>1, <3>4, <3>5
  <2>. QED BY <1>1, <2>2, <2>3, <2>4 DEF IdentityOnce
<1>17. CalledOnce'
  BY <1>2 DEF IInv, CalledOnce
<1>. QED BY <1>11, <1>13, <1>14, <1>15, <1>16, <1>17 DEF IInv

LEMMA PerformTransactAbilityStateKeeps ==
    ASSUME IInv, PerformTransactAbilityState
    PROVE  IInv'
<1>1. tasks # <<>> /\ (Perform(Head(tasks), "INITIAL") \/ Perform(Head(tasks), Head(tasks).state))
  BY DEF PerformTransactAbilityState
<1>2. "INITIAL" \in PageState /\ Head(tasks).state \in PageState
  BY <1>1, HeadOfTasks DEF PageState
<1>. QED BY <1>1, <1>2, PerformKeeps


-----------------------------------------------------------------------------
(* The theorems.                                                           *)

LEMMA InitHolds == Init => IInv
<1>. SUFFICES ASSUME Init PROVE IInv
  OBVIOUS
<1>1. TypesOK
  <2>1. told \in [Start -> Seq({"failed", "started"})] /\ ability \in [Start -> PageState]
    BY DEF Init, PageState
  <2>. QED BY <2>1, WantsAssumption DEF Init, TypesOK
<1>2. Owned
  <2>1. HeapTyped(heap) /\ DOMAIN heap = {}
    BY FS_EmptySet DEF Init, HeapTyped
  <2>2. OfClient = {} /\ OfPage = {}
    BY DEF Init, OfClient, OfPage
  <2>3. Blocks(queue) = {} /\ Blocks(tasks) = {} /\ Apart(queue) /\ Apart(tasks)
    BY BlocksEmpty DEF Init
  <2>. QED BY <2>1, <2>2, <2>3 DEF Init, Owned
<1>3. Carried
  BY DEF Init, Carried
<1>4. Waits /\ IdentityOnce
  BY DEF Init, Waits, IdentityOnce
<1>5. CalledOnce
  BY DEF Init, CalledOnce
<1>. QED BY <1>1, <1>2, <1>3, <1>4, <1>5 DEF IInv

LEMMA NextKeeps == IInv /\ [Next]_vars => IInv'
<1>. SUFFICES ASSUME IInv, [Next]_vars PROVE IInv'
  OBVIOUS
<1>1. CASE ClientNext
  BY <1>1, NewWantKeeps, FillElementKeeps, FillIdentityKeeps, FillDataKeeps, FillParamKeeps,
     SendStartKeeps DEF ClientNext
<1>2. CASE ServiceNext
  BY <1>2, StartAbilityInvokeKeeps, StartNewKeeps, RefuseStartKeeps, StartExistingKeeps,
     ActiveAbilityKeeps, InactiveAbilityKeeps, LeaveScreenKeeps, RemovePageKeeps,
     AbilityTransactionKeeps DEF ServiceNext
<1>3. CASE AppNext
  BY <1>3, AmsCallbackKeeps, PerformTransactAbilityStateKeeps DEF AppNext
<1>4. CASE UNCHANGED vars
  <2>1. /\ UNCHANGED <<heap, bad, client, lost, sets, sent, toService, queue, page>>
        /\ UNCHANGED <<toApp, tasks, reports, ability, told>>
    BY <1>4 DEF vars
  <2>2. TypesOK' /\ CalledOnce' /\ IdentityOnce'
    BY <2>1 DEF IInv, TypesOK, CalledOnce, IdentityOnce
  <2>3. Owned'
    BY <2>1 DEF IInv, Owned, OfClient, OfPage, Blocks
  <2>4. Carried' /\ Waits'
    BY <2>1 DEF IInv, Carried, Waits
  <2>. QED BY <2>2, <2>3, <2>4 DEF IInv
<1>. QED BY <1>1, <1>2, <1>3, <1>4 DEF Next

\* Types, one owner for every block, a start that waits in one place, an
\* identity in one place: an invariant of the journey of a Want, whatever
\* allocations fail.
THEOREM WantsInvariance == Spec => []IInv
BY InitHolds, NextKeeps, PTL DEF Spec

LEMMA HeldBy ==
    ASSUME NEW x \in Held
    PROVE  \/ client # None /\ x = <<"client", 0, client>>
           \/ \E i \in DOMAIN queue : x = <<"queue", i, queue[i].want>>
           \/ page # None /\ x = <<"page", 0, page.want>>
           \/ \E i \in DOMAIN tasks : x = <<"task", i, tasks[i].want>>
BY DEF Held

\* However allocations fail (and after any number of calls, starts and
\* messages), nothing is freed twice, no Want of the client, the service or
\* the process points to a block of another one or to none, and nothing but
\* the bytes of the pairs is left behind: OneOwner.
THEOREM BlocksOwned == Spec => []OneOwner
<1>1. IInv => OneOwner
  <2>. SUFFICES ASSUME IInv PROVE OneOwner
    OBVIOUS
  <2>1. /\ bad = FALSE /\ lost <= sets
        /\ DOMAIN heap = OfClient \cup Blocks(queue) \cup OfPage \cup Blocks(tasks)
        /\ OfClient \cap (Blocks(queue) \cup OfPage \cup Blocks(tasks)) = {}
        /\ Blocks(queue) \cap (OfPage \cup Blocks(tasks)) = {}
        /\ OfPage \cap Blocks(tasks) = {}
        /\ Apart(queue) /\ Apart(tasks)
    BY DEF IInv, Owned
  <2>2. /\ client # None => OfClient = Pointers(client)
        /\ page # None => OfPage = Pointers(page.want)
        /\ \A i \in DOMAIN queue : Pointers(queue[i].want) \subseteq Blocks(queue)
        /\ \A i \in DOMAIN tasks : Pointers(tasks[i].want) \subseteq Blocks(tasks)
    BY InBlocks DEF OfClient, OfPage
  <2>3. ASSUME NEW x \in Held, NEW y \in Held, x # y
        PROVE  Pointers(x[3]) \cap Pointers(y[3]) = {}
    <3>1. CASE client # None /\ x = <<"client", 0, client>>
      BY <3>1, <2>1, <2>2, <2>3, HeldBy
    <3>2. CASE page # None /\ x = <<"page", 0, page.want>>
      BY <3>2, <2>1, <2>2, <2>3, HeldBy
    <3>3. ASSUME NEW i \in DOMAIN queue, x = <<"queue", i, queue[i].want>>
          PROVE  Pointers(x[3]) \cap Pointers(y[3]) = {}
      <4>1. ASSUME NEW j \in DOMAIN queue, y = <<"queue", j, queue[j].want>>
            PROVE  Pointers(x[3]) \cap Pointers(y[3]) = {}
        BY <4>1, <3>3, <2>1, <2>3 DEF Apart
      <4>. QED BY <4>1, <3>3, <2>1, <2>2, HeldBy
    <3>4. ASSUME NEW i \in DOMAIN tasks, x = <<"task", i, tasks[i].want>>
          PROVE  Pointers(x[3]) \cap Pointers(y[3]) = {}
      <4>1. ASSUME NEW j \in DOMAIN tasks, y = <<"task", j, tasks[j].want>>
            PROVE  Pointers(x[3]) \cap Pointers(y[3]) = {}
        BY <4>1, <3>4, <2>1, <2>3 DEF Apart
      <4>. QED BY <4>1, <3>4, <2>1, <2>2, HeldBy
    <3>. QED BY <3>1, <3>2, <3>3, <3>4, HeldBy
  <2>4. DOMAIN heap = UNION {Pointers(x[3]) : x \in Held}
    <3>1. ASSUME NEW b \in DOMAIN heap
          PROVE  \E x \in Held : b \in Pointers(x[3])
      <4>1. CASE b \in OfClient
        <5>1. <<"client", 0, client>> \in Held /\ b \in Pointers(client)
          BY <4>1 DEF OfClient, Held
        <5>. QED BY <5>1
      <4>2. CASE b \in OfPage
        <5>1. <<"page", 0, page.want>> \in Held /\ b \in Pointers(page.want)
          BY <4>2 DEF OfPage, Held
        <5>. QED BY <5>1
      <4>3. CASE b \in Blocks(queue)
        <5>1. PICK i \in DOMAIN queue : b \in Pointers(queue[i].want)
          BY <4>3 DEF Blocks
        <5>2. <<"queue", i, queue[i].want>> \in Held
          BY DEF Held
        <5>. QED BY <5>1, <5>2
      <4>4. CASE b \in Blocks(tasks)
        <5>1. PICK i \in DOMAIN tasks : b \in Pointers(tasks[i].want)
          BY <4>4 DEF Blocks
        <5>2. <<"task", i, tasks[i].want>> \in Held
          BY DEF Held
        <5>. QED BY <5>1, <5>2
      <4>. QED BY <4>1, <4>2, <4>3, <4>4, <2>1
    <3>2. \A x \in Held : Pointers(x[3]) \subseteq DOMAIN heap
      BY <2>1, <2>2, HeldBy
    <3>. QED BY <3>1, <3>2
  <2>. QED BY <2>1, <2>3, <2>4 DEF OneOwner
<1>. QED BY <1>1, WantsInvariance, PTL

\* A request, a page and a task hold what their own start was sent with, but
\* for what could not be copied, whatever starts came between: WantsArrive.
THEOREM WantsIntact == Spec => []WantsArrive
<1>1. IInv => WantsArrive
  <2>. SUFFICES ASSUME IInv PROVE WantsArrive
    OBVIOUS
  <2>1. DOMAIN Target = {"device", "bundle", "ability"}
    BY WantsAssumption DEF Copies
  <2>2. ASSUME NEW w, NEW n, Carries(heap, w, sent[n], n)
        PROVE  Of(w, n)
    <3>1. w.element # 0 => heap[w.element] \in Copies(sent[n].element)
      BY <2>2 DEF Carries, Contents
    <3>2. w.element # 0 =>
            \A f \in DOMAIN Target : heap[w.element][f] \in {sent[n].element[f], None}
      BY <3>1, <2>1 DEF Copies
    <3>3. (w.data # 0 => heap[w.data] = sent[n].data) /\ (w.sid # 0 => heap[w.sid] = n)
      BY <2>2 DEF Carries, Contents
    <3>. QED BY <3>2, <3>3 DEF Of
  <2>3. /\ \A i \in DOMAIN queue : Carries(heap, queue[i].want, sent[queue[i].start], queue[i].start)
        /\ page # None => Carries(heap, page.want, sent[page.token], page.token)
        /\ \A i \in DOMAIN tasks : Carries(heap, tasks[i].want, sent[tasks[i].token], tasks[i].token)
    BY DEF IInv, Carried
  <2>. QED BY <2>2, <2>3 DEF WantsArrive
<1>. QED BY <1>1, WantsInvariance, PTL

\* A start is called back once at most, with a failure or with a success, though
\* the identity travels through three processes: CalledOnce.
THEOREM AnsweredOnce == Spec => []CalledOnce
<1>1. IInv => CalledOnce
  BY DEF IInv
<1>. QED BY <1>1, WantsInvariance, PTL

-----------------------------------------------------------------------------
(* Numbers, and the bytes of the parameters.                               *)

\* A set of numbers has a least one.
LEMMA Least ==
    ASSUME NEW S \in SUBSET Nat, S # {}
    PROVE  \E m \in S : \A x \in S : m <= x
<1>. DEFINE L == OpToRel(<, Nat)
<1>1. PICK m \in S : \A x \in S : ~(<<x, m>> \in L)
  <2>. HIDE DEF L
  <2>1. IsWellFoundedOn(L, Nat)
    BY NatLessThanWellFounded DEF L
  <2>. QED BY <2>1, WFMin
<1>2. \A x, y \in Nat : x < y => <<x, y>> \in L
  BY DEF OpToRel
<1>3. \A x \in S : x \in Nat
  OBVIOUS
<1>. HIDE DEF L
<1>4. ASSUME NEW x \in S PROVE m <= x
  <2>1. x \in Nat /\ m \in Nat
    BY <1>3
  <2>2. ~(x < m)
    BY <1>1, <1>2, <2>1
  <2>. QED BY <2>1, <2>2
<1>. QED BY <1>4

\* What holds of 0 and of every successor holds of every number.
LEMMA Induct ==
    ASSUME NEW P, 0 \in P, \A k \in Nat : k \in P => k + 1 \in P
    PROVE  Nat \subseteq P
<1>1. SUFFICES ASSUME Nat \ P # {} PROVE FALSE
  OBVIOUS
<1>2. PICK m \in Nat \ P : \A x \in Nat \ P : m <= x
  BY <1>1, Least
<1>3. m # 0 /\ m - 1 \in Nat
  BY <1>2
<1>4. m - 1 \in P
  BY <1>2, <1>3
<1>5. (m - 1) + 1 \in P
  BY <1>3, <1>4
<1>. QED BY <1>2, <1>5


\* The bytes of the pair of a parameter.
PairBytes(p) ==
    Tlv(KEY_VALUE_PAIR_TYPE, Tlv(STRING_VALUE_TYPE, KeyOf[p]) \o Tlv(TypeOf(p), BytesOf(p)))

\* A length is one byte, and a number is an int32_t.
Fits(p) ==
    /\ Len(KeyOf[p]) + (IF p \in IntParam THEN 4 ELSE Len(ValueOf[p])) <= 249
    /\ p \in IntParam => ValueOf[p] < 2147483648
ParamsFit == \A p \in Param : Fits(p)

\* A parameter that is not refused.
Accepted(p) == p \in Param /\ (p \in IntParam => ValueOf[p] >= 0)

\* The pairs of the parameters k are in the bytes d, one after the other: the
\* i-th starts at position at[i].
LaidAt(d, k, at) ==
    /\ at \in [1..(Len(k) + 1) -> 1..(Len(d) + 1)]
    /\ at[1] = 1 /\ at[Len(k) + 1] = Len(d) + 1
    /\ \A i \in 1..Len(k) :
          /\ at[i + 1] = at[i] + Len(PairBytes(k[i]))
          /\ \A j \in 1..Len(PairBytes(k[i])) : d[at[i] + j - 1] = PairBytes(k[i])[j]
Laid(d, k) == \E at : LaidAt(d, k, at)

\* The bytes of two sequences, one after the other.
LEMMA Joined ==
    ASSUME NEW x \in Seq(Nat), NEW y \in Seq(Nat)
    PROVE  /\ x \o y \in Seq(Nat) /\ Len(x) \in Nat /\ Len(y) \in Nat
           /\ Len(x \o y) = Len(x) + Len(y)
           /\ \A j \in 1..Len(x) : (x \o y)[j] = x[j]
           /\ \A j \in 1..Len(y) : (x \o y)[Len(x) + j] = y[j]
<1>. DEFINE c == x \o y
            n == Len(x)
            k == Len(y)
<1>1. /\ c \in Seq(Nat) /\ Len(c) = n + k
      /\ \A i \in 1..(n + k) : c[i] = IF i <= n THEN x[i] ELSE y[i - n]
  BY ConcatProperties
<1>2. n \in Nat /\ k \in Nat
  BY LenProperties
<1>. HIDE DEF c, n, k
<1>3. ASSUME NEW j \in 1..n PROVE c[j] = x[j]
  <2>1. j \in 1..(n + k) /\ j <= n
    BY <1>2
  <2>. QED BY <2>1, <1>1
<1>4. ASSUME NEW j \in 1..k PROVE c[n + j] = y[j]
  <2>1. n + j \in 1..(n + k) /\ ~(n + j <= n) /\ (n + j) - n = j
    BY <1>2
  <2>. QED BY <2>1, <1>1
<1>. QED BY <1>1, <1>2, <1>3, <1>4 DEF c, n, k

\* The bytes of a Tlv.
LEMMA TlvBytes ==
    ASSUME NEW type \in Nat, NEW value \in Seq(Nat)
    PROVE  /\ Tlv(type, value) \in Seq(Nat) /\ Len(value) \in Nat
           /\ Len(Tlv(type, value)) = Len(value) + 2
           /\ Tlv(type, value)[1] = type /\ Tlv(type, value)[2] = Len(value)
           /\ \A j \in 1..Len(value) : Tlv(type, value)[2 + j] = value[j]
<1>. DEFINE head == <<type, Len(value)>>
            c == Tlv(type, value)
            n == Len(value)
<1>1. n \in Nat
  BY LenProperties
<1>2. head \in Seq(Nat) /\ Len(head) = 2 /\ head[1] = type /\ head[2] = n
  BY <1>1
<1>3. c = head \o value
  BY DEF Tlv
<1>. HIDE DEF head, c
<1>4. /\ c \in Seq(Nat) /\ Len(c) = 2 + n
      /\ \A j \in 1..2 : c[j] = head[j]
      /\ \A j \in 1..n : c[2 + j] = value[j]
  <2>1. /\ c \in Seq(Nat) /\ Len(c) = Len(head) + Len(value)
        /\ \A j \in 1..Len(head) : c[j] = head[j]
        /\ \A j \in 1..Len(value) : c[Len(head) + j] = value[j]
    BY <1>2, <1>3, Joined
  <2>. QED BY <2>1, <1>2
<1>. HIDE DEF n
<1>5. c[1] = type /\ c[2] = n /\ Len(c) = n + 2
  BY <1>1, <1>2, <1>4
<1>. QED BY <1>1, <1>4, <1>5 DEF c, n

\* The type and the bytes of a value.
LEMMA ValueBytes ==
    ASSUME NEW p, Accepted(p), Fits(p)
    PROVE  /\ KeyOf[p] \in Seq(Nat) /\ TypeOf(p) \in Nat /\ BytesOf(p) \in Seq(Nat)
           /\ Len(KeyOf[p]) + Len(BytesOf(p)) <= 249
           /\ p \in IntParam => Number(BytesOf(p)) = ValueOf[p]
<1>1. KeyOf[p] \in Seq(Nat) /\ TypeOf(p) \in Nat
  BY WantsAssumption DEF Accepted, TypeOf, INT_VALUE_TYPE, STRING_VALUE_TYPE
<1>2. CASE p \notin IntParam
  BY <1>1, <1>2, WantsAssumption, SMT DEF Accepted, BytesOf, Fits
<1>3. CASE p \in IntParam
  <2>. DEFINE v == ValueOf[p]
              b == IntBuffer(v)
  <2>1. v \in Nat /\ v < 2147483648
    BY <1>3, WantsAssumption, SMT DEF Accepted, Fits
  <2>2. BytesOf(p) = b
    BY <1>3 DEF BytesOf
  <2>3. Len(KeyOf[p]) + 4 <= 249
    BY <1>3, SMT DEF Fits
  <2>. HIDE DEF v
  <2>4. /\ v \div 16777216 \in Nat /\ (v \div 65536) % 256 \in Nat
        /\ (v \div 256) % 256 \in Nat /\ v % 256 \in Nat
    BY <2>1, SMT
  <2>5. b \in Seq(Nat) /\ Len(b) = 4
    BY <2>4, SMT DEF IntBuffer
  <2>6. /\ b[1] = v \div 16777216 /\ b[2] = (v \div 65536) % 256
        /\ b[3] = (v \div 256) % 256 /\ b[4] = v % 256
    BY SMT DEF IntBuffer
  <2>7. /\ 256 * (v \div 16777216) + ((v \div 65536) % 256) = v \div 65536
        /\ 256 * (v \div 65536) + ((v \div 256) % 256) = v \div 256
        /\ 256 * (v \div 256) + (v % 256) = v
    BY <2>1, SMT
  <2>. HIDE DEF b
  <2>8. Number(b) = v
    BY <2>1, <2>4, <2>6, <2>7, SMT DEF Number
  <2>. QED BY <1>1, <2>2, <2>3, <2>5, <2>8 DEF v
<1>. QED BY <1>2, <1>3

\* The bytes of a pair, each at its place.
LEMMA PairPlaces ==
    ASSUME NEW p, Accepted(p), Fits(p)
    PROVE  LET b  == PairBytes(p)
               kl == Len(KeyOf[p])
               vl == Len(BytesOf(p))
           IN  /\ b \in Seq(Nat) /\ kl \in Nat /\ vl \in Nat
               /\ Len(b) = 6 + kl + vl /\ b[2] = 4 + kl + vl /\ b[4] = kl
               /\ b[5 + kl] = TypeOf(p) /\ b[6 + kl] = vl
               /\ \A j \in 1..kl : b[4 + j] = KeyOf[p][j]
               /\ \A j \in 1..vl : b[6 + kl + j] = BytesOf(p)[j]
<1>. DEFINE kl == Len(KeyOf[p])
            vl == Len(BytesOf(p))
            kt == Tlv(STRING_VALUE_TYPE, KeyOf[p])
            vt == Tlv(TypeOf(p), BytesOf(p))
            c  == kt \o vt
            b  == PairBytes(p)
<1>1. KeyOf[p] \in Seq(Nat) /\ TypeOf(p) \in Nat /\ BytesOf(p) \in Seq(Nat)
  BY ValueBytes
<1>2. STRING_VALUE_TYPE \in Nat /\ KEY_VALUE_PAIR_TYPE \in Nat
  BY DEF STRING_VALUE_TYPE, KEY_VALUE_PAIR_TYPE
<1>4. /\ kt \in Seq(Nat) /\ Len(kt) = kl + 2 /\ kt[2] = kl /\ kl \in Nat
      /\ \A j \in 1..kl : kt[2 + j] = KeyOf[p][j]
  BY <1>1, <1>2, TlvBytes
<1>5. /\ vt \in Seq(Nat) /\ Len(vt) = vl + 2 /\ vt[1] = TypeOf(p) /\ vt[2] = vl /\ vl \in Nat
      /\ \A j \in 1..vl : vt[2 + j] = BytesOf(p)[j]
  BY <1>1, TlvBytes
<1>. HIDE DEF kt, vt, kl, vl
<1>6. /\ c \in Seq(Nat) /\ Len(c) = kl + vl + 4
      /\ \A j \in 1..(kl + 2) : c[j] = kt[j]
      /\ \A j \in 1..(vl + 2) : c[(kl + 2) + j] = vt[j]
  <2>1. /\ c \in Seq(Nat) /\ Len(c) = Len(kt) + Len(vt)
        /\ \A j \in 1..Len(kt) : c[j] = kt[j]
        /\ \A j \in 1..Len(vt) : c[Len(kt) + j] = vt[j]
    BY <1>4, <1>5, Joined
  <2>. HIDE DEF c
  <2>2. Len(c) = kl + vl + 4
    BY <2>1, <1>4, <1>5
  <2>. QED BY <2>1, <2>2, <1>4, <1>5
<1>60. kl \in Nat /\ vl \in Nat /\ Len(c) = kl + vl + 4
  BY <1>4, <1>5, <1>6
<1>7. b = Tlv(KEY_VALUE_PAIR_TYPE, c)
  BY DEF PairBytes, kt, vt
<1>. HIDE DEF c, b
<1>8. /\ b \in Seq(Nat) /\ Len(b) = Len(c) + 2 /\ b[2] = Len(c)
      /\ \A j \in 1..Len(c) : b[2 + j] = c[j]
  BY <1>2, <1>6, <1>7, TlvBytes
<1>80. Len(b) = Len(c) + 2 /\ b[2] = Len(c)
  BY <1>8
<1>9. Len(b) = 6 + kl + vl /\ b[2] = 4 + kl + vl
  BY <1>60, <1>80
<1>10. ASSUME NEW j \in 1..(kl + 2) PROVE b[2 + j] = kt[j]
  <2>1. j \in 1..Len(c)
    BY <1>4, <1>5, <1>6
  <2>. QED BY <2>1, <1>6, <1>8
<1>11. ASSUME NEW j \in 1..(vl + 2) PROVE b[(4 + kl) + j] = vt[j]
  <2>1. (kl + 2) + j \in 1..Len(c) /\ 2 + ((kl + 2) + j) = (4 + kl) + j
    BY <1>60
  <2>. QED BY <2>1, <1>6, <1>8
<1>12. b[4] = kl
  <2>1. 2 \in 1..(kl + 2) /\ 2 + 2 = 4
    BY <1>4
  <2>. QED BY <2>1, <1>4, <1>10
<1>13. b[5 + kl] = TypeOf(p) /\ b[6 + kl] = vl
  <2>1. 1 \in 1..(vl + 2) /\ 2 \in 1..(vl + 2) /\ (4 + kl) + 1 = 5 + kl /\ (4 + kl) + 2 = 6 + kl
    BY <1>4, <1>5
  <2>. QED BY <2>1, <1>5, <1>11
<1>14. ASSUME NEW j \in 1..kl PROVE b[4 + j] = KeyOf[p][j]
  <2>1. 2 + j \in 1..(kl + 2) /\ 2 + (2 + j) = 4 + j
    BY <1>4
  <2>. QED BY <2>1, <1>4, <1>10
<1>15. ASSUME NEW j \in 1..vl PROVE b[6 + kl + j] = BytesOf(p)[j]
  <2>1. 2 + j \in 1..(vl + 2) /\ (4 + kl) + (2 + j) = 6 + kl + j
    BY <1>4, <1>5
  <2>. QED BY <2>1, <1>5, <1>11
<1>. QED BY <1>4, <1>5, <1>8, <1>9, <1>12, <1>13, <1>14, <1>15 DEF b, kl, vl

-----------------------------------------------------------------------------
(* What is read from the bytes.                                            *)

\* What is read from position i, if f has what is read further on.
ReadOne(d, f, i) ==
    LET next(j) == j + 2 + d[j + 1]
        pair(j, k) == [key |-> SubSeq(d, j + 4, k - 1), type |-> d[k],
                       value |-> SubSeq(d, k + 2, k + 1 + d[k + 1])]
    IN  IF i > Len(d) THEN <<>>
        ELSE IF i + 3 > Len(d) \/ next(i) > Len(d) + 1 THEN <<Torn>>
        ELSE <<pair(i, i + 4 + d[i + 3])>> \o f[next(i)]

\* It depends on what is read from later positions alone.
LEMMA ReadAhead ==
    ASSUME NEW d \in Seq(Nat), NEW i \in 1..(Len(d) + 1), NEW f, NEW g,
           \A j \in (i + 1)..(Len(d) + 1) : f[j] = g[j]
    PROVE  ReadOne(d, f, i) = ReadOne(d, g, i)
<1>. DEFINE n == Len(d)
            j == i + 2 + d[i + 1]
<1>1. n \in Nat
  BY LenProperties
<1>2. CASE ~(i > n) /\ ~(i + 3 > n \/ j > n + 1)
  <2>1. d[i + 1] \in Nat
    <3>1. i + 1 \in 1..n
      BY <1>1, <1>2
    <3>. QED BY <3>1, ElementOfSeq
  <2>2. j \in (i + 1)..(n + 1)
    BY <2>1, <1>1, <1>2
  <2>3. f[j] = g[j]
    BY <2>2
  <2>. QED BY <2>3, <1>2 DEF ReadOne
<1>3. CASE i > n
  BY <1>3 DEF ReadOne
<1>4. CASE ~(i > n) /\ (i + 3 > n \/ j > n + 1)
  BY <1>4 DEF ReadOne
<1>. QED BY <1>2, <1>3, <1>4

\* The function PairsFrom defines by recursion exists.
LEMMA ReadFrom ==
    ASSUME NEW d \in Seq(Nat)
    PROVE  \E f : /\ PairsFrom(d) = f[1]
                  /\ \A i \in 1..(Len(d) + 1) : f[i] = ReadOne(d, f, i)
<1>. DEFINE n == Len(d)
            G(f, k) == [i \in (n + 1 - k)..(n + 1) |-> ReadOne(d, f, i)]
            P == {k \in Nat : k <= n => \E f : f = G(f, k)}
            All(f) == [i \in 1..(n + 1) |-> ReadOne(d, f, i)]
            read == CHOOSE f : f = All(f)
<1>1. n \in Nat
  BY LenProperties
<1>2. 0 \in P
  <2>. DEFINE f == [i \in (n + 1 - 0)..(n + 1) |-> <<>>]
  <2>1. \A i \in (n + 1 - 0)..(n + 1) : ReadOne(d, f, i) = <<>>
    BY <1>1 DEF ReadOne
  <2>2. f = G(f, 0)
    BY <2>1
  <2>. QED BY <2>2
<1>3. ASSUME NEW k \in Nat, k \in P PROVE k + 1 \in P
  <2>0. SUFFICES ASSUME k + 1 <= n PROVE \E g : g = G(g, k + 1)
    OBVIOUS
  <2>1. PICK f : f = G(f, k)
    <3>1. k <= n
      BY <2>0, <1>1
    <3>. QED BY <3>1, <1>3
  <2>. DEFINE a == n + 1 - (k + 1)
              g == [i \in a..(n + 1) |-> IF i = a THEN ReadOne(d, f, a) ELSE f[i]]
  <2>2. a \in 1..n /\ n + 1 - k = a + 1
    BY <2>0, <1>1
  <2>3. \A j \in (a + 1)..(n + 1) : f[j] = g[j] /\ f[j] = ReadOne(d, f, j)
    <3>1. SUFFICES ASSUME NEW j \in (a + 1)..(n + 1)
                   PROVE  f[j] = g[j] /\ f[j] = ReadOne(d, f, j)
      OBVIOUS
    <3>2. j \in a..(n + 1) /\ j # a
      BY <2>2, <1>1
    <3>3. f[j] = G(f, k)[j]
      BY <2>1
    <3>4. j \in (n + 1 - k)..(n + 1)
      BY <2>2
    <3>5. f[j] = ReadOne(d, f, j)
      BY <3>3, <3>4
    <3>. QED BY <3>2, <3>5
  <2>4. g[a] = ReadOne(d, f, a)
    BY <2>2, <1>1
  <2>5. g = [i \in a..(n + 1) |-> g[i]]
    OBVIOUS
  <2>. HIDE DEF g, a
  <2>6. \A i \in a..(n + 1) : g[i] = ReadOne(d, g, i)
    <3>1. SUFFICES ASSUME NEW i \in a..(n + 1) PROVE g[i] = ReadOne(d, g, i)
      OBVIOUS
    <3>2. i \in 1..(n + 1)
      BY <2>2, <1>1
    <3>3. \A j \in (i + 1)..(n + 1) : f[j] = g[j]
      <4>1. \A j \in (i + 1)..(n + 1) : j \in (a + 1)..(n + 1)
        BY <2>2, <1>1
      <4>. QED BY <4>1, <2>3
    <3>4. ReadOne(d, f, i) = ReadOne(d, g, i)
      BY <3>2, <3>3, ReadAhead
    <3>5. CASE i = a
      BY <3>4, <3>5, <2>4
    <3>6. CASE i # a
      <4>1. i \in (a + 1)..(n + 1)
        BY <3>6, <2>2, <1>1
      <4>. QED BY <4>1, <3>4, <2>3
    <3>. QED BY <3>5, <3>6
  <2>7. g = G(g, k + 1)
    BY <2>5, <2>6 DEF a
  <2>. QED BY <2>7
<1>4. n \in P
  <2>. HIDE DEF P
  <2>1. Nat \subseteq P
    BY <1>2, <1>3, Induct
  <2>. QED BY <1>1, <2>1
<1>5. \E f : f = All(f)
  <2>1. PICK f : f = G(f, n)
    BY <1>1, <1>4
  <2>2. (n + 1 - n)..(n + 1) = 1..(n + 1)
    BY <1>1
  <2>3. G(f, n) = All(f)
    BY <2>2
  <2>. QED BY <2>1, <2>3
<1>6. read = All(read)
  BY <1>5
<1>7. PairsFrom(d) = read[1]
  BY DEF PairsFrom, ReadOne
<1>. HIDE DEF read
<1>8. \A i \in 1..(n + 1) : read[i] = ReadOne(d, read, i)
  <2>1. SUFFICES ASSUME NEW i \in 1..(n + 1) PROVE read[i] = ReadOne(d, read, i)
    OBVIOUS
  <2>2. read[i] = All(read)[i]
    BY <1>6
  <2>. QED BY <2>2
<1>. QED BY <1>7, <1>8

\* A part of a sequence that has the elements of another one is that one.
LEMMA Piece ==
    ASSUME NEW d \in Seq(Nat), NEW s \in Seq(Nat), NEW a \in Nat \ {0},
           NEW n \in Nat, Len(s) = n, NEW e, e = a + n - 1, e <= Len(d),
           \A j \in 1..n : d[a + j - 1] = s[j]
    PROVE  SubSeq(d, a, e) = s
<1>. DEFINE c == SubSeq(d, a, a + n - 1)
<1>1. n \in Nat /\ Len(d) \in Nat
  BY LenProperties
<1>2. \A i \in a..(a + n - 1) : d[i] \in Nat
  <2>. TAKE i \in a..(a + n - 1)
  <2>1. i \in 1..Len(d)
    BY <1>1
  <2>. QED BY <2>1, ElementOfSeq
<1>3. a \in Int /\ a + n - 1 \in Int
  BY <1>1
<1>4. /\ c \in Seq(Nat)
      /\ Len(c) = IF a <= a + n - 1 THEN (a + n - 1) - a + 1 ELSE 0
      /\ \A i \in 1..((a + n - 1) - a + 1) : c[i] = d[a + i - 1]
  BY <1>2, <1>3, SubSeqProperties
<1>. HIDE DEF c
<1>5. Len(c) = n /\ (a + n - 1) - a + 1 = n
  BY <1>1, <1>4
<1>6. \A i \in 1..Len(c) : c[i] = s[i]
  BY <1>4, <1>5
<1>. QED BY <1>4, <1>5, <1>6, SeqEqual DEF c

\* The pair of a parameter, as it is read.
PairOf(p) == [key |-> KeyOf[p], type |-> TypeOf(p), value |-> BytesOf(p)]

\* A pair is read where it starts.
LEMMA ReadPair ==
    ASSUME NEW d \in Seq(Nat), NEW p, Accepted(p), Fits(p), NEW a \in 1..(Len(d) + 1),
           a + Len(PairBytes(p)) <= Len(d) + 1,
           \A j \in 1..Len(PairBytes(p)) : d[a + j - 1] = PairBytes(p)[j], NEW f
    PROVE  ReadOne(d, f, a) = <<PairOf(p)>> \o f[a + Len(PairBytes(p))]
<1>. DEFINE b  == PairBytes(p)
            n  == Len(d)
            kl == Len(KeyOf[p])
            vl == Len(BytesOf(p))
            K  == KeyOf[p]
            V  == BytesOf(p)
            k  == a + 4 + kl
<1>1. /\ b \in Seq(Nat) /\ kl \in Nat /\ vl \in Nat
      /\ Len(b) = 6 + kl + vl /\ b[2] = 4 + kl + vl /\ b[4] = kl
      /\ b[5 + kl] = TypeOf(p) /\ b[6 + kl] = vl
      /\ \A j \in 1..kl : b[4 + j] = K[j]
      /\ \A j \in 1..vl : b[6 + kl + j] = V[j]
  BY PairPlaces
<1>2. /\ n \in Nat /\ K \in Seq(Nat) /\ V \in Seq(Nat) /\ Len(K) = kl /\ Len(V) = vl /\ n = Len(d)
      /\ a \in Nat \ {0}
  BY LenProperties, ValueBytes
<1>3. a + Len(b) <= n + 1 /\ \A j \in 1..Len(b) : d[a + j - 1] = b[j]
  OBVIOUS
<1>. HIDE DEF b, n, kl, vl, K, V
<1>4. /\ kl \in Nat /\ vl \in Nat /\ n \in Nat /\ Len(b) = 6 + kl + vl /\ a + 6 + kl + vl <= n + 1
      /\ a \in Nat \ {0}
  BY <1>1, <1>2, <1>3
<1>5. d[a + 1] = 4 + kl + vl /\ d[a + 3] = kl
  <2>1. 2 \in 1..Len(b) /\ 4 \in 1..Len(b) /\ a + 2 - 1 = a + 1 /\ a + 4 - 1 = a + 3
    BY <1>4
  <2>. QED BY <2>1, <1>1, <1>3
<1>6. d[k] = TypeOf(p) /\ d[k + 1] = vl
  <2>1. a + (5 + kl) - 1 = k /\ a + (6 + kl) - 1 = k + 1
    BY <1>4
  <2>2. 5 + kl \in 1..Len(b) /\ 6 + kl \in 1..Len(b)
    BY <1>4
  <2>. HIDE DEF k
  <2>. QED BY <2>1, <2>2, <1>1, <1>3
<1>7. SubSeq(d, a + 4, k - 1) = K
  <2>. DEFINE x == a + 4
              e == k - 1
  <2>1. \A j \in 1..kl : d[x + j - 1] = K[j]
    <3>. TAKE j \in 1..kl
    <3>0. j \in Nat /\ j >= 1 /\ j <= kl
      BY <1>4
    <3>1. 4 + j \in 1..Len(b) /\ a + (4 + j) - 1 = x + j - 1
      BY <3>0, <1>4
    <3>. HIDE DEF x
    <3>. QED BY <3>1, <1>1, <1>3, ZenonT(60)
  <2>2. x \in Nat \ {0} /\ e = x + kl - 1 /\ e <= n
    BY <1>4
  <2>. HIDE DEF k, x, e
  <2>3. /\ x \in Nat \ {0} /\ kl \in Nat /\ e = x + kl - 1 /\ e <= Len(d)
        /\ K \in Seq(Nat) /\ Len(K) = kl
    BY <2>2, <1>2, <1>4
  <2>4. SubSeq(d, x, e) = K
    BY <2>1, <2>3, Piece, ZenonT(60)
  <2>. QED BY <2>4 DEF x, e
<1>8. SubSeq(d, k + 2, k + 1 + vl) = V
  <2>. DEFINE x == k + 2
              e == k + 1 + vl
  <2>1. \A j \in 1..vl : d[x + j - 1] = V[j]
    <3>. TAKE j \in 1..vl
    <3>0. j \in Nat /\ j >= 1 /\ j <= vl
      BY <1>4
    <3>1. 6 + kl + j \in 1..Len(b) /\ a + (6 + kl + j) - 1 = x + j - 1
      BY <3>0, <1>4
    <3>. HIDE DEF x
    <3>. QED BY <3>1, <1>1, <1>3, ZenonT(60)
  <2>2. x \in Nat \ {0} /\ e = x + vl - 1 /\ e <= n
    BY <1>4
  <2>. HIDE DEF k, x, e
  <2>3. /\ x \in Nat \ {0} /\ vl \in Nat /\ e = x + vl - 1 /\ e <= Len(d)
        /\ V \in Seq(Nat) /\ Len(V) = vl
    BY <2>2, <1>2, <1>4
  <2>4. SubSeq(d, x, e) = V
    BY <2>1, <2>3, Piece, ZenonT(60)
  <2>. QED BY <2>4 DEF x, e
<1>9. /\ ~(a > n) /\ ~(a + 3 > n) /\ a + 2 + d[a + 1] = a + Len(b) /\ ~(a + Len(b) > n + 1)
      /\ a + 4 + d[a + 3] = k
  BY <1>4, <1>5
<1>10. /\ SubSeq(d, a + 4, (a + 4 + d[a + 3]) - 1) = K
       /\ d[a + 4 + d[a + 3]] = TypeOf(p)
       /\ SubSeq(d, (a + 4 + d[a + 3]) + 2, (a + 4 + d[a + 3]) + 1 + d[(a + 4 + d[a + 3]) + 1]) = V
  BY <1>6, <1>7, <1>8, <1>9
<1>11. PairOf(p) = [key |-> K, type |-> TypeOf(p), value |-> V]
  BY DEF PairOf, K, V
<1>. HIDE DEF k
<1>. QED BY <1>9, <1>10, <1>11 DEF ReadOne, n, b

\* One element before a sequence.
LEMMA Prepended ==
    ASSUME NEW S, NEW x \in S, NEW s \in Seq(S)
    PROVE  /\ <<x>> \o s \in Seq(S) /\ Len(<<x>> \o s) = Len(s) + 1
           /\ (<<x>> \o s)[1] = x
           /\ \A q \in 1..Len(s) : (<<x>> \o s)[q + 1] = s[q]
<1>. DEFINE y == <<x>>
            c == y \o s
            n == Len(s)
<1>1. y \in Seq(S) /\ Len(y) = 1 /\ y[1] = x
  OBVIOUS
<1>2. n \in Nat
  BY LenProperties
<1>. HIDE DEF y
<1>3. /\ c \in Seq(S) /\ Len(c) = Len(y) + n
      /\ \A i \in 1..(Len(y) + n) : c[i] = IF i <= Len(y) THEN y[i] ELSE s[i - Len(y)]
  BY <1>1, ConcatProperties
<1>. HIDE DEF c, n
<1>4. Len(c) = n + 1 /\ c[1] = x
  BY <1>1, <1>2, <1>3
<1>5. ASSUME NEW q \in 1..n PROVE c[q + 1] = s[q]
  <2>1. q + 1 \in 1..(Len(y) + n) /\ ~(q + 1 <= Len(y)) /\ (q + 1) - Len(y) = q
    BY <1>1, <1>2
  <2>. QED BY <2>1, <1>3
<1>. QED BY <1>3, <1>4, <1>5 DEF c, n, y

\* The parameters a Want should hold can be told from their bytes.
Parameters(k) ==
    /\ k \in Seq(Param)
    /\ \A i \in 1..Len(k) : Accepted(k[i]) /\ Fits(k[i])

\* Bytes with pairs laid out one after the other are read as these pairs.
LEMMA LaidRead ==
    ASSUME NEW d \in Seq(Nat), NEW k, Parameters(k), Laid(d, k)
    PROVE  /\ Len(PairsFrom(d)) = Len(k) /\ DOMAIN PairsFrom(d) = 1..Len(k)
           /\ \A i \in 1..Len(k) : PairsFrom(d)[i] = PairOf(k[i])
<1>. DEFINE n == Len(k)
            L == Len(d)
            S == {PairOf(p) : p \in Param}
<1>1. n \in Nat /\ L \in Nat /\ \A i \in 1..n : k[i] \in Param /\ Accepted(k[i]) /\ Fits(k[i])
  <2>1. k \in Seq(Param)
    BY DEF Parameters
  <2>. QED BY <2>1, LenProperties, ElementOfSeq DEF Parameters
<1>2. PICK at : LaidAt(d, k, at)
  BY DEF Laid
<1>3. /\ \A i \in 1..(n + 1) : at[i] \in 1..(L + 1)
      /\ at[1] = 1 /\ at[n + 1] = L + 1
      /\ \A i \in 1..n :
            /\ at[i + 1] = at[i] + Len(PairBytes(k[i]))
            /\ \A j \in 1..Len(PairBytes(k[i])) : d[at[i] + j - 1] = PairBytes(k[i])[j]
  BY <1>2 DEF LaidAt
<1>4. PICK f : PairsFrom(d) = f[1] /\ \A i \in 1..(L + 1) : f[i] = ReadOne(d, f, i)
  BY ReadFrom
\* What is read from the start of the i-th pair.
<1>5. ASSUME NEW i \in 1..n PROVE f[at[i]] = <<PairOf(k[i])>> \o f[at[i + 1]]
  <2>. DEFINE p == k[i]
              a == at[i]
              b == PairBytes(p)
  <2>1. /\ a \in 1..(L + 1) /\ at[i + 1] = a + Len(b) /\ at[i + 1] \in 1..(L + 1)
        /\ \A j \in 1..Len(b) : d[a + j - 1] = b[j]
    <3>1. i \in 1..(n + 1) /\ i + 1 \in 1..(n + 1)
      BY <1>1
    <3>. QED BY <3>1, <1>3
  <2>2. Accepted(p) /\ Fits(p)
    BY <1>1
  <2>. HIDE DEF a, p
  <2>3. a + Len(b) <= L + 1
    BY <2>1, <1>1
  <2>4. ReadOne(d, f, a) = <<PairOf(p)>> \o f[a + Len(b)]
    BY <2>1, <2>2, <2>3, ReadPair
  <2>5. f[a] = ReadOne(d, f, a)
    BY <2>1, <1>4
  <2>. QED BY <2>1, <2>4, <2>5 DEF a, p
<1>6. f[at[n + 1]] = <<>>
  <2>1. L + 1 \in 1..(L + 1) /\ L + 1 > L
    BY <1>1
  <2>2. ReadOne(d, f, L + 1) = <<>>
    BY <2>1 DEF ReadOne
  <2>. QED BY <2>1, <2>2, <1>3, <1>4
\* The j last pairs.
<1>. DEFINE Rest(j) == f[at[n + 1 - j]]
            Q == {j \in Nat : j <= n => /\ Rest(j) \in Seq(S) /\ Len(Rest(j)) = j
                                        /\ \A q \in 1..j : Rest(j)[q] = PairOf(k[n - j + q])}
<1>7. 0 \in Q
  <2>1. Rest(0) = <<>>
    <3>1. n + 1 - 0 = n + 1
      BY <1>1
    <3>. QED BY <3>1, <1>6
  <2>2. <<>> \in Seq(S) /\ Len(<<>>) = 0
    OBVIOUS
  <2>3. \A q \in 1..0 : FALSE
    OBVIOUS
  <2>. HIDE DEF Rest
  <2>. QED BY <2>1, <2>2, <2>3
<1>8. ASSUME NEW j \in Nat, j \in Q PROVE j + 1 \in Q
  <2>0. SUFFICES ASSUME j + 1 <= n
                 PROVE  /\ Rest(j + 1) \in Seq(S) /\ Len(Rest(j + 1)) = j + 1
                        /\ \A q \in 1..(j + 1) : Rest(j + 1)[q] = PairOf(k[n - (j + 1) + q])
    <3>. HIDE DEF Rest
    <3>. QED OBVIOUS
  <2>. DEFINE i == n - j
              x == PairOf(k[i])
              s == Rest(j)
              c == <<x>> \o s
  <2>1. /\ s \in Seq(S) /\ Len(s) = j
        /\ \A q \in 1..j : s[q] = PairOf(k[n - j + q])
    <3>1. j <= n
      BY <2>0, <1>1
    <3>. HIDE DEF Rest
    <3>. QED BY <3>1, <1>8
  <2>2. i \in 1..n /\ n + 1 - (j + 1) = i /\ n + 1 - j = i + 1
    BY <2>0, <1>1
  <2>3. Rest(j + 1) = c
    <3>. HIDE DEF i
    <3>. QED BY <2>2, <1>5
  <2>4. x \in S
    <3>. HIDE DEF i
    <3>. QED BY <2>2, <1>1
  <2>. HIDE DEF s, Rest, S
  <2>5. /\ c \in Seq(S) /\ Len(c) = Len(s) + 1 /\ c[1] = x
        /\ \A q \in 1..Len(s) : c[q + 1] = s[q]
    <3>. HIDE DEF x
    <3>. QED BY <2>1, <2>4, Prepended
  <2>. HIDE DEF c
  <2>6. ASSUME NEW q \in 1..(j + 1) PROVE c[q] = PairOf(k[n - (j + 1) + q])
    <3>1. CASE q = 1
      <4>1. n - (j + 1) + q = i
        BY <3>1, <1>1
      <4>. HIDE DEF i
      <4>. QED BY <4>1, <3>1, <2>5
    <3>2. CASE q # 1
      <4>1. /\ q - 1 \in 1..j /\ (q - 1) + 1 = q
            /\ n - j + (q - 1) = n - (j + 1) + q
        BY <3>2, <1>1
      <4>2. c[(q - 1) + 1] = s[q - 1]
        BY <4>1, <2>1, <2>5
      <4>3. s[q - 1] = PairOf(k[n - j + (q - 1)])
        BY <4>1, <2>1
      <4>. QED BY <4>1, <4>2, <4>3
    <3>. QED BY <3>1, <3>2
  <2>. QED BY <2>1, <2>3, <2>5, <2>6
<1>9. n \in Q
  <2>. HIDE DEF Q
  <2>1. Nat \subseteq Q
    BY <1>7, <1>8, Induct
  <2>. QED BY <2>1, <1>1
<1>10. Rest(n) = PairsFrom(d)
  <2>1. n + 1 - n = 1
    BY <1>1
  <2>. QED BY <2>1, <1>3, <1>4
<1>11. /\ PairsFrom(d) \in Seq(S) /\ Len(PairsFrom(d)) = n
       /\ \A q \in 1..n : PairsFrom(d)[q] = PairOf(k[n - n + q])
  <2>. HIDE DEF Rest, S
  <2>. QED BY <1>1, <1>9, <1>10
<1>12. DOMAIN PairsFrom(d) = 1..n
  <2>. HIDE DEF S
  <2>. QED BY <1>11, LenProperties
<1>13. ASSUME NEW q \in 1..n PROVE PairsFrom(d)[q] = PairOf(k[q])
  <2>1. n - n + q = q
    BY <1>1
  <2>. QED BY <2>1, <1>11
<1>. QED BY <1>11, <1>12, <1>13

\* No bytes are no pairs.
LEMMA LaidNothing == Laid(<<>>, <<>>)
<1>. DEFINE at == [i \in 1..(Len(<<>>) + 1) |-> 1]
<1>1. Len(<<>>) = 0
  OBVIOUS
<1>2. LaidAt(<<>>, <<>>, at)
  BY <1>1 DEF LaidAt
<1>. QED BY <1>2 DEF Laid

\* The bytes of another pair are added at the end.
LEMMA LaidMore ==
    ASSUME NEW d \in Seq(Nat), NEW k, Parameters(k), Laid(d, k),
           NEW p, Accepted(p), Fits(p)
    PROVE  Laid(d \o PairBytes(p), Append(k, p))
<1>. DEFINE b == PairBytes(p)
            c == d \o b
            l == Append(k, p)
            n == Len(k)
            L == Len(d)
            B == Len(b)
<1>1. PICK at : LaidAt(d, k, at)
  BY DEF Laid
<1>2. /\ c \in Seq(Nat) /\ L \in Nat /\ B \in Nat /\ Len(c) = L + B
      /\ \A j \in 1..L : c[j] = d[j]
      /\ \A j \in 1..B : c[L + j] = b[j]
  <2>1. b \in Seq(Nat)
    BY PairPlaces
  <2>. QED BY <2>1, Joined
<1>3. n \in Nat /\ Len(l) = n + 1 /\ l[n + 1] = p /\ \A i \in 1..n : l[i] = k[i]
  <2>1. k \in Seq(Param) /\ p \in Param
    BY DEF Parameters, Accepted
  <2>. QED BY <2>1
<1>4. /\ at \in [1..(n + 1) -> 1..(L + 1)]
      /\ at[1] = 1 /\ at[n + 1] = L + 1
      /\ \A i \in 1..n :
            /\ at[i + 1] = at[i] + Len(PairBytes(k[i]))
            /\ \A j \in 1..Len(PairBytes(k[i])) : d[at[i] + j - 1] = PairBytes(k[i])[j]
  BY <1>1 DEF LaidAt
<1>. DEFINE at2 == [i \in 1..(n + 2) |-> IF i = n + 2 THEN L + B + 1 ELSE at[i]]
<1>5. at2[n + 2] = L + B + 1 /\ \A i \in 1..(n + 1) : at2[i] = at[i]
  BY <1>3
<1>6. at2 \in [1..(n + 2) -> 1..(L + B + 1)]
  <2>1. ASSUME NEW i \in 1..(n + 2)
        PROVE  (IF i = n + 2 THEN L + B + 1 ELSE at[i]) \in 1..(L + B + 1)
    <3>1. CASE i = n + 2
      BY <3>1, <1>2
    <3>2. CASE i # n + 2
      <4>1. i \in 1..(n + 1)
        BY <3>2, <1>3
      <4>2. at[i] \in 1..(L + 1)
        BY <4>1, <1>4
      <4>. QED BY <3>2, <4>2, <1>2
    <3>. QED BY <3>1, <3>2
  <2>. QED BY <2>1
<1>. HIDE DEF at2, c, l, n, L, B, b
<1>7. ASSUME NEW i \in 1..(n + 1)
      PROVE  /\ at2[i + 1] = at2[i] + Len(PairBytes(l[i]))
             /\ \A j \in 1..Len(PairBytes(l[i])) : c[at2[i] + j - 1] = PairBytes(l[i])[j]
  <2>1. CASE i = n + 1
    <3>1. l[i] = p /\ at2[i] = L + 1 /\ at2[i + 1] = L + B + 1
      <4>1. i \in 1..(n + 1) /\ i + 1 = n + 2
        BY <2>1, <1>3
      <4>. QED BY <4>1, <2>1, <1>3, <1>4, <1>5
    <3>2. PairBytes(l[i]) = b /\ Len(b) = B
      BY <3>1 DEF b, B
    <3>3. at2[i + 1] = at2[i] + B
      BY <3>1, <1>2
    <3>4. ASSUME NEW j \in 1..B PROVE c[at2[i] + j - 1] = b[j]
      <4>1. at2[i] + j - 1 = L + j
        BY <3>1, <1>2
      <4>. QED BY <4>1, <1>2
    <3>. QED BY <3>2, <3>3, <3>4
  <2>2. CASE i # n + 1
    <3>1. i \in 1..n /\ i + 1 \in 1..(n + 1)
      BY <2>2, <1>3
    <3>. DEFINE e == PairBytes(k[i])
                m == Len(e)
    <3>2. /\ l[i] = k[i] /\ at2[i] = at[i] /\ at2[i + 1] = at[i + 1]
          /\ at[i] \in 1..(L + 1) /\ at[i + 1] \in 1..(L + 1)
          /\ at[i + 1] = at[i] + m
          /\ \A j \in 1..m : d[at[i] + j - 1] = e[j]
      BY <3>1, <1>3, <1>4, <1>5
    <3>20. m \in Nat
      <4>1. Accepted(k[i]) /\ Fits(k[i])
        BY <3>1 DEF Parameters, n
      <4>2. e \in Seq(Nat)
        BY <4>1, PairPlaces
      <4>. QED BY <4>2, LenProperties
    <3>. HIDE DEF m, e
    <3>3. ASSUME NEW j \in 1..m PROVE c[at2[i] + j - 1] = e[j]
      <4>. DEFINE x == at[i]
                  y == at[i + 1]
      <4>1. x \in 1..(L + 1) /\ y \in 1..(L + 1) /\ y = x + m
        BY <3>2
      <4>. HIDE DEF x, y
      <4>2. x + j - 1 \in 1..L
        <5>1. j \in Int /\ 1 <= j /\ j <= m
          OBVIOUS
        <5>. QED BY <4>1, <5>1, <3>20, <1>2
      <4>3. c[x + j - 1] = d[x + j - 1]
        BY <4>2, <1>2
      <4>. QED BY <4>3, <3>2 DEF x
    <3>. QED BY <3>2, <3>3 DEF e, m
  <2>. QED BY <2>1, <2>2
<1>8. LaidAt(c, l, at2)
  <2>1. Len(c) + 1 = L + B + 1 /\ Len(l) + 1 = n + 2 /\ Len(l) = n + 1
    BY <1>2, <1>3
  <2>2. at2[1] = 1
    <3>1. 1 \in 1..(n + 1)
      BY <1>3
    <3>. QED BY <3>1, <1>4, <1>5
  <2>. QED BY <2>1, <2>2, <1>5, <1>6, <1>7 DEF LaidAt
<1>. QED BY <1>8 DEF Laid, c, l, b

-----------------------------------------------------------------------------
(* What is laid out in the client's data.                                  *)

\* A Tlv with a length of one byte is copied whole.
LEMMA CutWhole ==
    ASSUME NEW type \in Nat, NEW value \in Seq(Nat), Len(value) <= 253
    PROVE  Cut(type, value) = Tlv(type, value)
<1>. DEFINE t == Tlv(type, value)
            n == Len(value)
<1>1. t \in Seq(Nat) /\ n \in Nat /\ Len(t) = n + 2
  BY TlvBytes
<1>2. Cut(type, value) = SubSeq(t, 1, UInt8(n + 2))
  BY DEF Cut
<1>. HIDE DEF t
<1>3. n <= 253
  BY DEF n
<1>. HIDE DEF n
<1>4. UInt8(n + 2) = n + 2
  BY <1>1, <1>3 DEF UInt8
<1>5. /\ n + 2 \in Nat /\ n + 2 = 1 + (n + 2) - 1 /\ n + 2 <= Len(t) /\ 1 \in Nat \ {0}
      /\ \A j \in 1..(n + 2) : 1 + j - 1 = j
  BY <1>1
<1>6. \A j \in 1..(n + 2) : t[1 + j - 1] = t[j]
  BY <1>5
<1>7. SubSeq(t, 1, n + 2) = t
  BY <1>1, <1>5, <1>6, Piece
<1>. QED BY <1>2, <1>4, <1>7 DEF t, n

\* So is the pair of a parameter.
LEMMA PairWhole ==
    ASSUME NEW p, Accepted(p), Fits(p)
    PROVE  Pair(KeyOf[p], TypeOf(p), BytesOf(p)) = PairBytes(p)
<1>. DEFINE K == KeyOf[p]
            V == BytesOf(p)
            T == TypeOf(p)
            kt == Tlv(STRING_VALUE_TYPE, K)
            vt == Tlv(T, V)
<1>1. K \in Seq(Nat) /\ T \in Nat /\ V \in Seq(Nat) /\ Len(K) + Len(V) <= 249
  BY ValueBytes
<1>2. STRING_VALUE_TYPE \in Nat /\ KEY_VALUE_PAIR_TYPE \in Nat
  BY DEF STRING_VALUE_TYPE, KEY_VALUE_PAIR_TYPE
<1>3. PairBytes(p) = Tlv(KEY_VALUE_PAIR_TYPE, kt \o vt)
  BY DEF PairBytes
<1>. HIDE DEF K, V, T
<1>4. Len(K) \in Nat /\ Len(V) \in Nat
  BY <1>1, LenProperties
<1>5. Len(K) <= 253 /\ Len(V) <= 253
  BY <1>1, <1>4
<1>6. Cut(STRING_VALUE_TYPE, K) = kt /\ Cut(T, V) = vt
  BY <1>1, <1>2, <1>5, CutWhole
<1>7. kt \in Seq(Nat) /\ vt \in Seq(Nat) /\ Len(kt) = Len(K) + 2 /\ Len(vt) = Len(V) + 2
  BY <1>1, <1>2, TlvBytes
<1>. HIDE DEF kt, vt
<1>8. kt \o vt \in Seq(Nat) /\ Len(kt \o vt) = Len(kt) + Len(vt)
  BY <1>7, Joined
<1>9. Len(kt \o vt) <= 253
  BY <1>1, <1>4, <1>7, <1>8
<1>10. Cut(KEY_VALUE_PAIR_TYPE, kt \o vt) = Tlv(KEY_VALUE_PAIR_TYPE, kt \o vt)
  BY <1>2, <1>8, <1>9, CutWhole
<1>. QED BY <1>3, <1>6, <1>10 DEF Pair, K, V, T

\* The data of the client's Want are the pairs of the parameters set since the
\* data were last lost.
DataLaid ==
    /\ client = None => kept = <<>> /\ ~plain
    /\ kept \in Seq(Param) /\ gone \in 0..Len(kept)
    /\ client # None /\ ~plain =>
          /\ Parameters(Recent)
          /\ client.data = 0 => gone = Len(kept)
          /\ client.data # 0 => /\ client.dataLength = Len(heap[client.data])
                                /\ Laid(heap[client.data], Recent)

\* When all of them were lost none are left.
LEMMA RecentNone ==
    ASSUME NEW k \in Seq(Param)
    PROVE  SubSeq(k, Len(k) + 1, Len(k)) = <<>>
OBVIOUS

LEMMA NoneRecent ==
    ASSUME kept \in Seq(Param), gone = Len(kept)
    PROVE  Recent = <<>>
BY RecentNone DEF Recent

\* One that is set is the last of them.
LEMMA RecentMore ==
    ASSUME NEW k \in Seq(Param), NEW g \in 0..Len(k), NEW p \in Param
    PROVE  SubSeq(Append(k, p), g + 1, Len(Append(k, p))) = Append(SubSeq(k, g + 1, Len(k)), p)
<1>. DEFINE n == Len(k)
            l == Append(k, p)
            s == SubSeq(l, g + 1, n + 1)
            t == Append(SubSeq(k, g + 1, n), p)
<1>1. n \in Nat /\ Len(l) = n + 1 /\ l \in Seq(Param)
  OBVIOUS
<1>2. Len(s) = n + 1 - g /\ s \in Seq(Param)
  BY <1>1, SubSeqProperties
<1>3. SubSeq(k, g + 1, n) \in Seq(Param) /\ Len(SubSeq(k, g + 1, n)) = n - g
  BY <1>1, SubSeqProperties
<1>4. t \in Seq(Param) /\ Len(t) = n + 1 - g
  BY <1>1, <1>3
<1>5. ASSUME NEW i \in 1..(n + 1 - g) PROVE s[i] = t[i]
  <2>1. s[i] = l[g + 1 + i - 1]
    BY <1>1, <1>2, SubSeqProperties
  <2>2. CASE i = n + 1 - g
    <3>1. t[i] = p
      BY <2>2, <1>1, <1>3
    <3>2. l[g + i] = p
      BY <2>2, <1>1
    <3>. QED BY <2>1, <3>1, <3>2, <1>1
  <2>3. CASE i <= n - g
    <3>1. t[i] = SubSeq(k, g + 1, n)[i]
      BY <2>3, <1>1, <1>3
    <3>2. SubSeq(k, g + 1, n)[i] = k[g + 1 + i - 1]
      BY <2>3, <1>1, <1>3, SubSeqProperties
    <3>3. l[g + i] = k[g + i]
      BY <2>3, <1>1
    <3>. QED BY <2>1, <3>1, <3>2, <3>3, <1>1
  <2>. QED BY <2>2, <2>3, <1>1
<1>. HIDE DEF s, t
<1>6. s = t
  BY <1>1, <1>2, <1>4, <1>5, SeqEqual
<1>. QED BY <1>1, <1>6 DEF s, t, l, n

\* No parameters can be told from no bytes.
LEMMA NoParameters == Parameters(<<>>)
<1>1. <<>> \in Seq(Param) /\ Len(<<>>) = 0
  OBVIOUS
<1>. QED BY <1>1 DEF Parameters

\* A call of the client leaves its data as they are.
LEMMA SameData ==
    ASSUME DataLaid, client # None, client' # None, client'.data = client.data,
           client'.dataLength = client.dataLength, UNCHANGED <<plain, kept, gone>>,
           client.data # 0 => heap'[client.data] = heap[client.data]
    PROVE  DataLaid'
BY DEF DataLaid, Recent

\* A step of the service or of the process leaves the client alone.
Spares ==
    /\ UNCHANGED <<client, plain, kept, gone>>
    /\ \A b \in OfClient : heap'[b] = heap[b]

LEMMA SparedLaid ==
    ASSUME DataLaid, Spares
    PROVE  DataLaid'
<1>1. CASE client = None
  BY <1>1 DEF DataLaid, Spares, Recent
<1>2. CASE client # None
  <2>1. client.data # 0 => client.data \in OfClient
    BY <1>2 DEF OfClient, Pointers
  <2>. QED BY <2>1, <1>2, SameData DEF Spares
<1>. QED BY <1>1, <1>2

-----------------------------------------------------------------------------
(* The calls of the client lay its data out.                               *)

\* With data that are the ones there were, whatever these are.
LEMMA ClientData ==
    ASSUME IInv, client # None, NEW fails
    PROVE  LET m == Call(heap, client, fails)
               D == {heap[client.data]}
           IN  /\ Holds(m, Others) /\ m.heap = heap /\ m.want = client /\ Measured(m.want)
               /\ Contents(m.heap, m.want, Copies(Target), D, {Len(sent) + 1})
<1>. DEFINE m == Call(heap, client, fails)
            S == {Len(sent) + 1}
<1>1. /\ Holds(m, Others) /\ m.heap = heap /\ m.want = client /\ Measured(m.want)
      /\ Contents(m.heap, m.want, Copies(Target), Seq(Nat), S)
  BY ClientCall
<1>. HIDE DEF m, S
<1>. QED BY <1>1 DEF Contents, m, S

\* The element and the identity are set beside the data.
LEMMA FillElementLaid ==
    ASSUME IInv, DataLaid, NEW fails, FillElement(fails)
    PROVE  DataLaid'
<1>. DEFINE m == Call(heap, client, fails)
            r == SetWantElement(m, Target)
            D == {heap[client.data]}
            S == {Len(sent) + 1}
<1>1. /\ client # None /\ client' = r.want /\ heap' = r.heap
      /\ UNCHANGED <<plain, kept, gone>>
  BY DEF FillElement, FillsIn, Memory
<1>2. /\ Holds(m, Others) /\ m.heap = heap /\ m.want = client /\ Measured(m.want)
      /\ Contents(m.heap, m.want, Copies(Target), D, S)
  BY <1>1, ClientData
<1>. HIDE DEF m, S
<1>3. /\ Contents(r.heap, r.want, Copies(Target), D, S) /\ Holds(r, Others)
      /\ r.want.data = m.want.data /\ r.want.dataLength = m.want.dataLength
  <2>. HIDE DEF D
  <2>. QED BY <1>2, SetWantElementGives
<1>. HIDE DEF r
<1>4. client' # None
  BY <1>1, <1>3, NotNone DEF Holds, Whole
<1>5. client.data # 0 => heap'[client.data] = heap[client.data]
  BY <1>1, <1>2, <1>3 DEF Contents
<1>. QED BY <1>1, <1>2, <1>3, <1>4, <1>5, SameData

LEMMA FillIdentityLaid ==
    ASSUME IInv, DataLaid, NEW fails, FillIdentity(fails)
    PROVE  DataLaid'
<1>. DEFINE m == Call(heap, client, fails)
            n == Len(sent) + 1
            r == SetWantSvcIdentity(m, n)
            D == {heap[client.data]}
<1>1. /\ client # None /\ client' = r.want /\ heap' = r.heap
      /\ UNCHANGED <<plain, kept, gone>>
  BY DEF FillIdentity, FillsIn, Memory
<1>2. /\ Holds(m, Others) /\ m.heap = heap /\ m.want = client /\ Measured(m.want)
      /\ Contents(m.heap, m.want, Copies(Target), D, {n})
  BY <1>1, ClientData
<1>. HIDE DEF m, n
<1>3. /\ Contents(r.heap, r.want, Copies(Target), D, {n}) /\ Holds(r, Others)
      /\ r.want.data = m.want.data /\ r.want.dataLength = m.want.dataLength
  <2>. HIDE DEF D
  <2>. QED BY <1>2, SetWantSvcIdentityGives
<1>. HIDE DEF r
<1>4. client' # None
  BY <1>1, <1>3, NotNone DEF Holds, Whole
<1>5. client.data # 0 => heap'[client.data] = heap[client.data]
  BY <1>1, <1>2, <1>3 DEF Contents
<1>. QED BY <1>1, <1>2, <1>3, <1>4, <1>5, SameData

\* Raw data take the place of the parameters, or nothing does.
LEMMA FillDataLaid ==
    ASSUME IInv, DataLaid, NEW fails, FillData(fails)
    PROVE  DataLaid'
<1>. DEFINE m == Call(heap, client, fails)
            r == SetWantData(m, Raw)
            D == Seq(Nat)
            E == Copies(Target)
            S == {Len(sent) + 1}
<1>1. /\ client # None /\ client' = r.want /\ kept' = <<>> /\ gone' = 0
      /\ plain' = (client'.data # 0)
  BY DEF FillData, FillsIn
<1>2. Holds(m, Others) /\ Contents(m.heap, m.want, E, D, S)
  BY <1>1, ClientCall
<1>3. Raw \in Seq(Nat)
  BY WantsAssumption
<1>. HIDE DEF m, E, S, D
<1>4. Holds(r, Others)
  BY <1>2, <1>3, SetWantDataGives
<1>. HIDE DEF r
<1>5. client' # None
  BY <1>1, <1>4, NotNone DEF Holds, Whole
<1>6. ~plain' => client'.data = 0
  BY <1>1
<1>7. kept' \in Seq(Param) /\ Len(kept') = 0
  BY <1>1
<1>8. Recent' = <<>>
  BY <1>1, <1>7, RecentNone DEF Recent
<1>. QED BY <1>1, <1>5, <1>6, <1>7, <1>8, NoParameters DEF DataLaid

LEMMA NewWantLaid ==
    ASSUME DataLaid, NewWant
    PROVE  DataLaid'
<1>1. client = None /\ client' = NoWant /\ plain' = plain /\ kept' = kept /\ gone' = gone
  BY DEF NewWant
<1>2. kept = <<>> /\ ~plain /\ gone = 0 /\ Len(kept) = 0
  BY <1>1 DEF DataLaid
<1>3. NoWant # None /\ NoWant.data = 0
  BY NotNone, NoWantWhole DEF NoWant, Whole
<1>4. kept' \in Seq(Param) /\ Len(kept') = 0
  BY <1>1, <1>2
<1>5. Recent' = <<>>
  BY <1>1, <1>2, <1>4, RecentNone DEF Recent
<1>. QED BY <1>1, <1>2, <1>3, <1>4, <1>5, NoParameters DEF DataLaid

LEMMA SendStartLaid ==
    ASSUME SendStart
    PROVE  DataLaid'
<1>1. client' = None /\ ~plain' /\ kept' = <<>> /\ gone' = 0
  BY DEF SendStart
<1>2. kept' \in Seq(Param) /\ Len(kept') = 0
  BY <1>1
<1>. QED BY <1>1, <1>2 DEF DataLaid

\* The block that is left behind is none of the Want's.
LEMMA WithoutLostData ==
    ASSUME NEW m, NEW F, Holds(m, F)
    PROVE  LET w == WithoutLost(m)
           IN  /\ w.want = m.want
               /\ m.want.data # 0 => w.heap[m.want.data] = m.heap[m.want.data]
<1>. DEFINE w == WithoutLost(m)
            U == DOMAIN m.heap \ LostBlocks(m)
            b == m.want.data
<1>1. w.want = m.want /\ w.heap = [x \in U |-> m.heap[x]]
  BY DEF WithoutLost, Holds, Fields
<1>2. b # 0 => b \in U
  <2>1. b # 0 => b \in Pointers(m.want)
    BY DEF Pointers
  <2>2. Pointers(m.want) \subseteq DOMAIN m.heap
    BY DEF Holds
  <2>3. LostBlocks(m) \cap Pointers(m.want) = {}
    BY DEF LostBlocks
  <2>. QED BY <2>1, <2>2, <2>3
<1>. HIDE DEF w, U
<1>3. b # 0 => w.heap[b] = m.heap[b]
  <2>. HAVE b # 0
  <2>. HIDE DEF b
  <2>1. b \in U
    BY <1>2
  <2>2. [x \in U |-> m.heap[x]][b] = m.heap[b]
    BY <2>1
  <2>. QED BY <2>2, <1>1
<1>. QED BY <1>1, <1>3 DEF w

\* One parameter more.
LEMMA ParametersMore ==
    ASSUME NEW k, Parameters(k), NEW p, Accepted(p), Fits(p)
    PROVE  Parameters(Append(k, p))
<1>. DEFINE l == Append(k, p)
            n == Len(k)
<1>1. k \in Seq(Param) /\ p \in Param
  BY DEF Parameters, Accepted
<1>2. /\ l \in Seq(Param) /\ n \in Nat /\ Len(l) = n + 1 /\ l[n + 1] = p
      /\ \A i \in 1..n : l[i] = k[i]
  BY <1>1
<1>3. \A i \in 1..n : Accepted(k[i]) /\ Fits(k[i])
  BY DEF Parameters
<1>. HIDE DEF l, n
<1>4. ASSUME NEW i \in 1..(n + 1) PROVE Accepted(l[i]) /\ Fits(l[i])
  <2>1. i \in 1..n \/ i = n + 1
    BY <1>2
  <2>. QED BY <2>1, <1>2, <1>3
<1>. QED BY <1>2, <1>4 DEF Parameters, l

\* A setter adds its pair, adds nothing, or has lost all the data.
LEMMA FillParamLaid ==
    ASSUME IInv, ParamsFit, DataLaid, NEW p \in Param, NEW fails, FillParam(p, fails)
    PROVE  DataLaid'
<1>. DEFINE m == Call(heap, client, fails)
            r == SetParam(p, fails)
            w == WithoutLost(r)
            d == Pair(KeyOf[p], TypeOf(p), BytesOf(p))
            E == Copies(Target)
            S == {Len(sent) + 1}
            b == r.want.data
<1>1. /\ client # None /\ ~plain /\ ~plain' /\ client' = w.want /\ heap' = w.heap
      /\ kept' = IF r.ok THEN Append(kept, p) ELSE kept
      /\ gone' = IF b = 0 THEN Len(kept') ELSE gone
  BY DEF FillParam, FillsIn, Memory
<1>2. /\ ParamOutcome(r, m, Others, E, S, d)
      /\ p \in IntParam /\ ValueOf[p] < 0 => r.ok = FALSE
  BY <1>1, ParamSet
<1>3. m.heap = heap /\ m.want = client
  BY <1>1, ClientCall
<1>. HIDE DEF m, r, E, S, d
<1>4. PICK L : Holds(r, Others \cup L)
  BY <1>2 DEF ParamOutcome
<1>5. Extended(r, m, d)
  BY <1>2 DEF ParamOutcome
<1>6. w.want = r.want /\ (b # 0 => w.heap[b] = r.heap[b])
  BY <1>4, WithoutLostData
<1>7. r.want \in Want
  BY <1>4 DEF Holds, Whole
<1>. HIDE DEF w
<1>8. client' # None /\ client' = r.want /\ client'.data = b /\ (b # 0 => heap'[b] = r.heap[b])
  BY <1>1, <1>6, <1>7, NotNone
<1>9. /\ Parameters(Recent)
      /\ client.data = 0 => Recent = <<>>
      /\ client.data # 0 => /\ client.dataLength = Len(heap[client.data])
                            /\ Laid(heap[client.data], Recent)
  BY <1>1, NoneRecent DEF DataLaid
<1>14. kept \in Seq(Param) /\ gone \in 0..Len(kept)
  BY DEF DataLaid
<1>15. kept' \in Seq(Param) /\ Len(kept') \in Nat
  BY <1>1, <1>14
<1>10. CASE b = 0
  <2>1. gone' = Len(kept')
    BY <1>1, <1>10
  <2>2. Recent' = <<>>
    BY <2>1, <1>15, RecentNone DEF Recent
  <2>. QED BY <2>1, <2>2, <1>1, <1>8, <1>10, <1>15, NoParameters DEF DataLaid
<1>11. CASE b # 0 /\ r.ok = FALSE
  <2>1. r.want = m.want /\ (m.want.data # 0 => r.heap[m.want.data] = m.heap[m.want.data])
    BY <1>5, <1>11 DEF Extended
  <2>2. client'.dataLength = client.dataLength /\ b = client.data
    BY <2>1, <1>3, <1>8
  <2>3. heap'[b] = heap[b]
    BY <2>1, <2>2, <1>3, <1>8, <1>11
  <2>4. kept' = kept /\ gone' = gone
    BY <1>1, <1>11
  <2>5. Recent' = Recent
    BY <2>4 DEF Recent
  <2>. QED BY <2>2, <2>3, <2>4, <2>5, <1>1, <1>8, <1>9, <1>11, <1>14 DEF DataLaid
<1>12. CASE b # 0 /\ r.ok = TRUE
  <2>. DEFINE old == Data(m)
  <2>1. r.heap[b] = old \o d /\ r.want.dataLength = Len(old \o d)
    BY <1>5, <1>12 DEF Extended
  <2>2. Accepted(p) /\ Fits(p)
    <3>1. p \in IntParam => ~(ValueOf[p] < 0)
      BY <1>2, <1>12
    <3>2. p \in IntParam => ValueOf[p] >= 0
      BY <3>1, WantsAssumption
    <3>. QED BY <3>2 DEF Accepted, ParamsFit
  <2>3. d = PairBytes(p)
    BY <2>2, PairWhole DEF d
  <2>4. old \in Seq(Nat) /\ Laid(old, Recent)
    <3>1. CASE client.data = 0
      BY <3>1, <1>3, <1>9, LaidNothing DEF Data
    <3>2. CASE client.data # 0
      <4>1. old = heap[client.data]
        BY <3>2, <1>3 DEF Data
      <4>2. heap[client.data] \in Seq(Nat)
        BY <3>2, <1>1 DEF IInv, Carried, Contents
      <4>. QED BY <4>1, <4>2, <3>2, <1>9
    <3>. QED BY <3>1, <3>2
  <2>. HIDE DEF old
  <2>5. Laid(old \o d, Append(Recent, p))
    BY <2>2, <2>3, <2>4, <1>9, LaidMore
  <2>6. Parameters(Append(Recent, p))
    BY <2>2, <1>9, ParametersMore
  <2>7. kept' = Append(kept, p) /\ gone' = gone
    BY <1>1, <1>12
  <2>9. Recent' = Append(Recent, p)
    BY <2>7, <1>14, RecentMore DEF Recent
  <2>10. gone' \in 0..Len(kept')
    BY <2>7, <1>14
  <2>8. heap'[client'.data] = old \o d /\ client'.dataLength = Len(old \o d)
    BY <2>1, <1>8, <1>12
  <2>. QED BY <2>5, <2>6, <2>8, <2>9, <2>10, <1>1, <1>8, <1>12, <1>15 DEF DataLaid
<1>13. r.ok = FALSE \/ r.ok = TRUE
  BY <1>5 DEF Extended
<1>. QED BY <1>10, <1>11, <1>12, <1>13

-----------------------------------------------------------------------------
(* The service and the process leave them alone.                           *)

\* The blocks that a step clears are not the client's.
LEMMA ClearedSpares ==
    ASSUME IInv, NEW w, Whole(w), Pointers(w) \subseteq DOMAIN heap, Pointers(w) \cap OfClient = {}
    PROVE  LET r == ClearWant(Call(heap, w, {}))
           IN  \A b \in OfClient : r.heap[b] = heap[b]
<1>. DEFINE m == Call(heap, w, {})
            r == ClearWant(m)
            F == DOMAIN heap \ Pointers(w)
<1>1. HeapTyped(heap) /\ OfClient \subseteq F
  BY DEF IInv, Owned
<1>20. /\ Holds(m, DOMAIN heap \ Pointers(w))
       /\ m.heap = heap /\ m.want = w /\ m.ok = TRUE
  BY <1>1, CallHolds
<1>. HIDE DEF m, F
<1>2. Holds(m, F) /\ m.heap = heap
  BY <1>20 DEF F
<1>3. \A x \in F : r.heap[x] = m.heap[x]
  BY <1>2, ClearWantTakes
<1>. HIDE DEF r
<1>4. \A b \in OfClient : r.heap[b] = heap[b]
  BY <1>1, <1>2, <1>3
<1>. QED BY <1>4 DEF r, m

\* Nor is the Want of the request at the head of the queue.
LEMMA HandledSpares ==
    ASSUME IInv, queue # <<>>, NEW m, HandleStart(m, Head(queue).want),
           Holds(m, DOMAIN heap), Keeps(m, heap, DOMAIN heap)
    PROVE  Spares
<1>. DEFINE want == Head(queue).want
            m1 == [m EXCEPT !.want = want]
            r == ClearWant(m1)
            F == (DOMAIN heap \ Pointers(want)) \cup Pointers(m.want)
<1>1. heap' = r.heap /\ UNCHANGED <<client, plain, kept, gone>>
  BY DEF HandleStart, Memory, clientVars
<1>2. Whole(want) /\ Pointers(want) \subseteq Blocks(queue)
  <2>1. queue \in Seq([start : Start, want : Want])
    BY DEF IInv, TypesOK
  <2>2. Apart(queue)
    BY DEF IInv, Owned
  <2>. QED BY <2>1, <2>2, BlocksTail
<1>3. /\ Pointers(want) \subseteq DOMAIN heap /\ OfClient \subseteq DOMAIN heap
      /\ Pointers(want) \cap OfClient = {}
  BY <1>2 DEF IInv, Owned
<1>. HIDE DEF want
<1>4. Holds(m1, F) /\ m1.heap = m.heap
  BY <1>2, <1>3, SwapWant
<1>5. OfClient \subseteq F
  BY <1>3
<1>. HIDE DEF m1, F
<1>6. \A x \in F : r.heap[x] = m1.heap[x]
  BY <1>4, ClearWantTakes
<1>. HIDE DEF r
<1>7. \A b \in OfClient : heap'[b] = heap[b]
  BY <1>1, <1>3, <1>4, <1>5, <1>6 DEF Keeps
<1>. QED BY <1>1, <1>7 DEF Spares

\* The three ways a request is handled.
LEMMA StartsSpare ==
    ASSUME IInv, RefuseStart \/ StartExisting \/ \E fails \in Failures : StartNew(fails)
    PROVE  Spares
<1>1. CASE RefuseStart \/ StartExisting
  <2>. DEFINE m == Call(heap, NoWant, {})
  <2>1. queue # <<>> /\ HandleStart(m, Head(queue).want)
    BY <1>1 DEF RefuseStart, StartExisting
  <2>2. Holds(m, DOMAIN heap) /\ Keeps(m, heap, DOMAIN heap)
    BY EmptyCall DEF Keeps
  <2>. HIDE DEF m
  <2>. QED BY <2>1, <2>2, HandledSpares
<1>2. ASSUME NEW fails, StartNew(fails) PROVE Spares
  <2>. DEFINE want == Head(queue).want
              n == Head(queue).start
              m == Call(heap, NoWant, fails)
              r == CopyWant(m, want)
  <2>1. queue # <<>> /\ HandleStart(r, want) /\ want.element # 0
    BY <1>2 DEF StartNew, Valid
  <2>2. n \in DOMAIN sent /\ Carries(heap, want, sent[n], n)
    BY <2>1, HeadOfQueue
  <2>3. Pointers(want) \subseteq DOMAIN heap
    <3>1. Pointers(want) \subseteq Blocks(queue)
      BY <2>1, HeadOfQueue, InBlocks
    <3>. QED BY <3>1 DEF IInv, Owned
  <2>4. Holds(m, DOMAIN heap) /\ m.heap = heap /\ DOMAIN m = Fields
    BY EmptyCall DEF Holds
  <2>. HIDE DEF m
  <2>5. Holds(WithWant(m, NoWant), DOMAIN heap)
    BY <2>4, NoWantWhole, EmptyCall DEF Holds, WithWant, Fields, m
  <2>. HIDE DEF want, n
  <2>6. Holds(r, DOMAIN heap) /\ Keeps(r, m.heap, DOMAIN heap)
    BY <2>1, <2>2, <2>3, <2>4, <2>5, CopyCarries
  <2>. HIDE DEF r
  <2>. QED BY <2>1, <2>4, <2>6, HandledSpares DEF want
<1>. QED BY <1>1, <1>2

\* What a call leaves behind in the heap is new.
LEMMA LeavesSpares ==
    ASSUME IInv, NEW w, Leaves(w), UNCHANGED clientVars
    PROVE  Spares
<1>1. OfClient \subseteq DOMAIN heap
  BY DEF IInv, Owned
<1>2. UNCHANGED <<client, plain, kept, gone>>
  BY DEF clientVars
<1>. QED BY <1>1, <1>2 DEF Leaves, Spares

LEMMA MessagesSpare ==
    ASSUME IInv, NEW fails, StartAbilityInvoke(fails) \/ AmsCallback(fails)
    PROVE  Spares
<1>1. CASE StartAbilityInvoke(fails)
  <2>1. UNCHANGED clientVars
    BY <1>1 DEF StartAbilityInvoke
  <2>2. PICK w : Leaves(w)
    BY <1>1, InnerGives
  <2>. QED BY <2>1, <2>2, LeavesSpares
<1>2. CASE AmsCallback(fails)
  <2>1. UNCHANGED clientVars
    BY <1>2 DEF AmsCallback
  <2>2. PICK w : Leaves(w)
    BY <1>2, CallbackGives
  <2>. QED BY <2>1, <2>2, LeavesSpares
<1>. QED BY <1>1, <1>2

LEMMA SchedulingSpares ==
    ASSUME IInv, ActiveAbility \/ InactiveAbility \/ LeaveScreen
    PROVE  Spares
<1>1. CASE InactiveAbility \/ LeaveScreen
  <2>1. UNCHANGED clientVars /\ heap' = heap
    BY <1>1 DEF InactiveAbility, LeaveScreen, Transact
  <2>. QED BY <2>1 DEF clientVars, Spares
<1>2. CASE ActiveAbility
  <2>. DEFINE m == Call(heap, page.want, {})
              r == FreeSid(m)
              F == DOMAIN heap \ Pointers(page.want)
  <2>1. page # None /\ heap' = r.heap /\ UNCHANGED <<client, plain, kept, gone>>
    BY <1>2 DEF ActiveAbility, Memory, Transact, clientVars
  <2>2. /\ Whole(page.want) /\ Pointers(page.want) \subseteq DOMAIN heap /\ HeapTyped(heap)
        /\ OfClient \subseteq F
    BY <2>1 DEF IInv, Owned, OfPage
  <2>30. /\ Holds(m, DOMAIN heap \ Pointers(page.want))
         /\ m.heap = heap /\ m.want = page.want /\ m.ok = TRUE
    BY <2>2, CallHolds
  <2>. HIDE DEF m, F
  <2>3. Holds(m, F) /\ m.heap = heap
    BY <2>30 DEF F
  <2>4. Holds(r, F) /\ \A x \in DOMAIN r.heap : r.heap[x] = m.heap[x]
    BY <2>3, FreeSidTakes
  <2>. HIDE DEF r
  <2>5. OfClient \subseteq DOMAIN r.heap
    BY <2>2, <2>4 DEF Holds
  <2>. QED BY <2>1, <2>3, <2>4, <2>5 DEF Spares
<1>. QED BY <1>1, <1>2

LEMMA DeletedSpares ==
    ASSUME IInv, DeletePage, UNCHANGED clientVars
    PROVE  Spares
<1>1. page # None /\ heap' = ClearWant(Call(heap, page.want, {})).heap
  BY DEF DeletePage, Memory
<1>2. /\ Whole(page.want) /\ Pointers(page.want) \subseteq DOMAIN heap
      /\ Pointers(page.want) \cap OfClient = {}
  BY <1>1 DEF IInv, Owned, OfPage
<1>3. \A b \in OfClient : heap'[b] = heap[b]
  BY <1>1, <1>2, ClearedSpares
<1>. QED BY <1>3 DEF clientVars, Spares

LEMMA AnswersSpare ==
    ASSUME IInv, RemovePage \/ AbilityTransaction
    PROVE  Spares
<1>1. UNCHANGED clientVars /\ (DeletePage \/ heap' = heap)
  BY DEF RemovePage, AbilityTransaction
<1>2. CASE DeletePage
  BY <1>1, <1>2, DeletedSpares
<1>3. CASE heap' = heap
  BY <1>1, <1>3 DEF clientVars, Spares
<1>. QED BY <1>1, <1>2, <1>3

LEMMA PerformSpares ==
    ASSUME IInv, PerformTransactAbilityState
    PROVE  Spares
<1>. DEFINE want == Head(tasks).want
<1>1. /\ tasks # <<>> /\ heap' = ClearWant(Call(heap, want, {})).heap /\ UNCHANGED clientVars
  BY DEF PerformTransactAbilityState, Perform, Memory
<1>2. Whole(want) /\ Pointers(want) \subseteq Blocks(tasks)
  BY <1>1, HeadOfTasks, InBlocks
<1>3. Pointers(want) \subseteq DOMAIN heap /\ Pointers(want) \cap OfClient = {}
  BY <1>2 DEF IInv, Owned
<1>. HIDE DEF want
<1>4. \A b \in OfClient : heap'[b] = heap[b]
  BY <1>1, <1>2, <1>3, ClearedSpares
<1>. QED BY <1>1, <1>4 DEF clientVars, Spares

-----------------------------------------------------------------------------
(* The parameters arrive in the data: the theorem.                         *)

\* Every step keeps the pairs laid out.
LEMMA LaidStays ==
    ASSUME ParamsFit, IInv, DataLaid, [Next]_vars
    PROVE  DataLaid'
<1>1. CASE ClientNext
  BY <1>1, NewWantLaid, FillElementLaid, FillIdentityLaid, FillDataLaid, FillParamLaid,
     SendStartLaid DEF ClientNext
<1>2. CASE ServiceNext
  <2>1. Spares
    BY <1>2, StartsSpare, MessagesSpare, SchedulingSpares, AnswersSpare DEF ServiceNext
  <2>. QED BY <2>1, SparedLaid
<1>3. CASE AppNext
  <2>1. Spares
    BY <1>3, MessagesSpare, PerformSpares DEF AppNext
  <2>. QED BY <2>1, SparedLaid
<1>4. CASE UNCHANGED vars
  <2>1. Spares
    BY <1>4 DEF vars, Spares
  <2>. QED BY <2>1, SparedLaid
<1>. QED BY <1>1, <1>2, <1>3, <1>4 DEF Next

\* What is laid out is what the data say.
LEMMA LaidSays ==
    ASSUME IInv, DataLaid
    PROVE  ParamsWhole
<1>1. CASE client # None /\ ~plain /\ client.data # 0
  <2>. DEFINE d == heap[client.data]
              pairs == PairsFrom(d)
  <2>1. /\ Parameters(Recent) /\ client.dataLength = Len(d) /\ Laid(d, Recent)
    BY <1>1 DEF DataLaid
  <2>2. d \in Seq(Nat)
    BY <1>1 DEF IInv, Carried, Contents
  <2>5. Pairs = pairs
    BY <1>1 DEF Pairs
  <2>. HIDE DEF d
  <2>3. /\ Len(pairs) = Len(Recent) /\ DOMAIN pairs = 1..Len(Recent)
        /\ \A i \in 1..Len(Recent) : pairs[i] = PairOf(Recent[i])
    BY <2>1, <2>2, LaidRead
  <2>. HIDE DEF pairs
  <2>4. ASSUME NEW i \in DOMAIN pairs PROVE Says(pairs[i], Recent[i])
    <3>. DEFINE p == Recent[i]
    <3>1. pairs[i] = PairOf(p) /\ Accepted(p) /\ Fits(p)
      BY <2>1, <2>3 DEF Parameters
    <3>. HIDE DEF p
    <3>2. p \in IntParam => Number(BytesOf(p)) = ValueOf[p]
      BY <3>1, ValueBytes
    <3>. HIDE DEF Number
    <3>3. Says(PairOf(p), p)
      BY <3>2 DEF Says, PairOf, TypeOf, BytesOf
    <3>. QED BY <3>1, <3>3 DEF p
  <2>. QED BY <1>1, <2>1, <2>3, <2>4, <2>5 DEF ParamsWhole, d
<1>2. CASE client # None /\ ~plain /\ client.data = 0
  <2>1. Recent = <<>> /\ Pairs = <<>>
    BY <1>2, NoneRecent DEF DataLaid, Pairs
  <2>. QED BY <2>1, <1>2 DEF ParamsWhole
<1>3. CASE ~(client # None /\ ~plain)
  BY <1>3 DEF ParamsWhole
<1>. QED BY <1>1, <1>2, <1>3

\* The data of the client's Want are, complete and in order, the parameters
\* whose setting has returned TRUE since UpdateWantData last lost the data in a
\* failed copy (and returned TRUE: ParamsKept): no parameter is there in part,
\* none that was refused is there, and none is missing for another reason,
\* whatever allocations fail and after any number of calls and starts.  It
\* takes ParamsFit: the length of a pair is one byte, so that a longer one is
\* cut off, and a number is an int32_t.
THEOREM ParamsIntact ==
    ASSUME ParamsFit
    PROVE  Spec => []ParamsWhole
<1>1. Init => DataLaid
  <2>1. <<>> \in Seq(Param) /\ Len(<<>>) = 0
    OBVIOUS
  <2>. QED BY <2>1 DEF Init, DataLaid
<1>2. IInv /\ DataLaid /\ [Next]_vars => DataLaid'
  BY LaidStays
<1>3. IInv /\ DataLaid => ParamsWhole
  BY LaidSays
<1>. QED BY <1>1, <1>2, <1>3, WantsInvariance, PTL DEF Spec
=============================================================================

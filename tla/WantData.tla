----------------------------- MODULE WantData -----------------------------
(***************************************************************************)
(* The Want structure and its functions (want_lite/src/want.cpp), with the *)
(* memory they allocate and free.  A function of the code is an operator   *)
(* from the memory m of one call to the memory after it:                   *)
(*   heap     the blocks that are allocated, with their contents           *)
(*   fails    the allocations of this call that fail, by number            *)
(*   calls    how many allocations the call has made                       *)
(*   want     the Want the call is about                                   *)
(*   got      what was allocated last: a block (0: nullptr) or a string    *)
(*   ok       what the function has returned                               *)
(*   bad      TRUE once a block was freed that is not allocated            *)
(* A pointer is the number of a block.  The strings of an element are part *)
(* of its block.  Data are sequences of bytes.                             *)
(***************************************************************************)
EXTENDS Integers, Sequences, FiniteSets

CONSTANTS
    DATA_LENGTH,    \* the most data a Want is sent with
    None

Want == [element : Nat, sid : Nat, data : Nat, dataLength : Nat]
NoWant == [element |-> 0, sid |-> 0, data |-> 0, dataLength |-> 0]
NoName == [device |-> None, bundle |-> None, ability |-> None]
Pointers(w) == {w.element, w.sid, w.data} \ {0}

\* The memory at the start of a call.
Call(heap, want, fails) ==
    [heap |-> heap, fails |-> fails, calls |-> 0, want |-> want, got |-> 0,
     ok |-> TRUE, bad |-> FALSE]

Returns(m, value) == [m EXCEPT !.ok = value]

\* AdapterMalloc, and the copy into the new block.
Malloc(m, content) ==
    LET n == m.calls + 1
        used == DOMAIN m.heap
        b == CHOOSE x \in 1..(Cardinality(used) + 1) : x \notin used
    IN  IF n \in m.fails
        THEN [m EXCEPT !.calls = n, !.got = 0]
        ELSE [m EXCEPT !.calls = n, !.got = b,
                       !.heap = [x \in used \cup {b} |-> IF x = b THEN content ELSE @[x]]]

\* OHOS::Utils::Strdup.  A missing name needs no memory.
Strdup(m, name) ==
    IF name = None THEN [m EXCEPT !.got = None]
    ELSE [m EXCEPT !.calls = @ + 1, !.got = IF m.calls + 1 \in m.fails THEN None ELSE name]

\* AdapterFree
Free(m, b) ==
    IF b = 0 THEN m
    ELSE IF b \notin DOMAIN m.heap THEN [m EXCEPT !.bad = TRUE]
    ELSE [m EXCEPT !.heap = [x \in DOMAIN @ \ {b} |-> @[x]]]

\* ClearElement and AdapterFree of the element.
FreeElement(m) == [Free(m, m.want.element) EXCEPT !.want.element = 0]
FreeSid(m) == [Free(m, m.want.sid) EXCEPT !.want.sid = 0]
FreeData(m) == [Free(m, m.want.data) EXCEPT !.want.data = 0]

\* The length of the data is left as it was.
ClearWant(m) == FreeData(FreeSid(FreeElement(m)))

\* The old element is freed first.  A name that cannot be copied is missing,
\* and the call succeeds all the same.
SetWantElement(m, element) ==
    LET Named(m1, b, d, n, a) ==
          [Returns(m1, TRUE) EXCEPT !.want.element = b,
                                    !.heap[b] = [device |-> d, bundle |-> n, ability |-> a]]
        Ability(m1, b, d, n) == Named(m1, b, d, n, m1.got)
        Bundle(m1, b, d) == Ability(Strdup(m1, element.ability), b, d, m1.got)
        Device(m1, b) == Bundle(Strdup(m1, element.bundle), b, m1.got)
        Allocated(m1) == IF m1.got = 0 THEN Returns(m1, FALSE)
                         ELSE Device(Strdup(m1, element.device), m1.got)
    IN  Allocated(Malloc(FreeElement(m), NoName))

\* What Malloc has given becomes the identity.
TakeSid(m) == [Returns(m, m.got # 0) EXCEPT !.want.sid = m.got]

\* Mutant: the old identity is forgotten, not freed.
SetWantSvcIdentityOver(m, sid) == TakeSid(Malloc(m, sid))

SetWantSvcIdentity(m, sid) == TakeSid(Malloc(FreeSid(m), sid))

\* OHOS::Utils::Memdup copies nothing when there are no data.
Memdup(m, data) == IF data = <<>> THEN [m EXCEPT !.got = 0] ELSE Malloc(m, data)

SetWantData(m, data) ==
    LET Take(m1) == [Returns(m1, m1.got # 0) EXCEPT
                       !.want.data = m1.got,
                       !.want.dataLength = IF m1.got = 0 THEN 0 ELSE Len(data)]
    IN  Take(Memdup(FreeData(m), data))

-----------------------------------------------------------------------------
(***************************************************************************)
(* The parameters: a pair of a key and a value, each with its type and its *)
(* length, appended to the data.                                           *)
(***************************************************************************)

INT_VALUE_TYPE == 6
STRING_VALUE_TYPE == 13
KEY_VALUE_PAIR_TYPE == 97
UInt8(n) == n % 256
Tlv(type, value) == <<type, Len(value)>> \o value

\* EncapTlv: a block for the bytes and one for the Tlv that points to them,
\* or none of the two.
EncapTlv(m, type, value) ==
    LET Wrapped(m1, entity) == IF m1.got = 0 THEN Free(m1, entity) ELSE m1
        Wrap(m1) == IF m1.got = 0 THEN m1
                    ELSE Wrapped(Malloc(m1, [entity |-> m1.got, totalLen |-> UInt8(Len(value) + 2)]),
                                 m1.got)
    IN  Wrap(Malloc(m, Tlv(type, value)))

FreeTlvStruct(m, tlv) == Free(Free(m, m.heap[tlv].entity), tlv)
Bytes(m, tlv) == SubSeq(m.heap[m.heap[tlv].entity], 1, m.heap[tlv].totalLen)

\* CombineKeyValueTlv
CombineKeyValueTlv(m, keyTlv, valueTlv) ==
    LET Encap(m1, both) == IF m1.got = 0 THEN m1
                           ELSE Free(EncapTlv(m1, KEY_VALUE_PAIR_TYPE, both), m1.got)
        Combine(both) == Encap(Malloc(m, both), both)
    IN  Combine(Bytes(m, keyTlv) \o Bytes(m, valueTlv))

\* Mutant: the new parameter takes the place of the others.
UpdateWantDataReplace(m, tlv) == Returns(SetWantData(m, Bytes(m, tlv)), TRUE)

\* UpdateWantData does not look at what SetWantData returns.
UpdateWantData(m, tlv) ==
    LET Replace(m1) == IF m1.got = 0 THEN Returns(m1, FALSE)
                       ELSE Returns(Free(SetWantData(m1, m1.heap[m1.got]), m1.got), TRUE)
    IN  IF m.want.data = 0 THEN Returns(SetWantData(m, Bytes(m, tlv)), TRUE)
        ELSE Replace(Malloc(m, m.heap[m.want.data] \o Bytes(m, tlv)))

\* What SetIntParam and SetStrParam do once the key has been wrapped (m.got).
\* Of the new pair only the Tlv is freed, not the bytes it points to.
AddPair(m, type, value) ==
    LET Update(m1, tlv) == IF tlv = 0 THEN Returns(m1, FALSE) ELSE Free(UpdateWantData(m1, tlv), tlv)
        Combined(m1, key, val) == Update(FreeTlvStruct(FreeTlvStruct(m1, key), val), m1.got)
        Combine(m1, key) == IF m1.got = 0 THEN Returns(FreeTlvStruct(m1, key), FALSE)
                            ELSE Combined(CombineKeyValueTlv(m1, key, m1.got), key, m1.got)
    IN  Combine(EncapTlv(m, type, value), m.got)

\* A number is written with its highest byte first.
IntBuffer(n) == <<n \div 16777216, (n \div 65536) % 256, (n \div 256) % 256, n % 256>>

SetIntParam(m, key, value) ==
    LET Add(m1) == IF m1.got = 0 THEN Returns(m1, FALSE)
                   ELSE IF value < 0 THEN Returns(FreeTlvStruct(m1, m1.got), FALSE)
                   ELSE AddPair(m1, INT_VALUE_TYPE, IntBuffer(value))
    IN  IF key = <<>> THEN Returns(m, FALSE) ELSE Add(EncapTlv(m, STRING_VALUE_TYPE, key))

SetStrParam(m, key, value) ==
    LET Add(m1) == IF m1.got = 0 THEN Returns(m1, FALSE)
                   ELSE AddPair(m1, STRING_VALUE_TYPE, value)
    IN  IF key = <<>> \/ value = <<>> THEN Returns(m, FALSE)
        ELSE Add(EncapTlv(m, STRING_VALUE_TYPE, key))

-----------------------------------------------------------------------------
(***************************************************************************)
(* A Want in a message.                                                    *)
(***************************************************************************)

\* SerializeWant: what is written, or nothing when there are too many data.
Written(heap, want) ==
    [element |-> IF want.element = 0 THEN None ELSE heap[want.element],
     data |-> IF want.dataLength = 0 THEN <<>> ELSE heap[want.data],
     sid |-> IF want.sid = 0 THEN None ELSE heap[want.sid]]
CanSerialize(want) == want.dataLength <= DATA_LENGTH

\* The element of a message: names are copied one by one, and if one of them
\* cannot be, there is no element.
ReadElement(m, element) ==
    LET Read(m1) == IF m1.ok /\ m1.heap[m1.want.element] = element THEN m1
                    ELSE Returns(FreeElement(m1), FALSE)
    IN  IF element = None THEN m ELSE Read(SetWantElement(m, element))

\* DeserializeWant, for a Want that is empty yet.  Without an element there is
\* nothing else to clear.
DeserializeWant(m, io) ==
    LET OrClear(m1) == IF m1.ok THEN m1 ELSE Returns(ClearWant(m1), FALSE)
        ReadSid(m1) == IF ~m1.ok \/ io.sid = None THEN m1
                       ELSE OrClear(SetWantSvcIdentity(m1, io.sid))
        ReadData(m1) == IF ~m1.ok \/ io.data = <<>> THEN m1 ELSE OrClear(SetWantData(m1, io.data))
    IN  ReadSid(ReadData(ReadElement(m, io.element)))
=============================================================================

---------------------------- MODULE IndexBuffer ----------------------------
(***************************************************************************)
(* The index buffer interfaces the manager writes into: the streaming      *)
(* index buffer (one per destination type, the "Streaming Allocator" of    *)
(* the specification) and the static index buffer of a source buffer (the *)
(* "Static Translation Cache").  Their code (IndexBuffer.cpp) is not under *)
(* src/, so these operators follow the specification, sections 4.4-4.5.    *)
(*                                                                         *)
(* A buffer is a record: its size in bytes, its index type (NoType before  *)
(* the first reservation), its write position, the elements written into  *)
(* it (kept for the static buffer only: what a streaming buffer holds is   *)
(* consumed by the draw that wrote it), and its serial, the "identity      *)
(* token" of section 6: a new one whenever the backend storage is created  *)
(* or reallocated, never one still in use (IndexBuffer::updateSerial).     *)
(***************************************************************************)
EXTENDS IndexFormat

CONSTANTS
    NoType,              \* getIndexType() of a buffer never reserved
    Undefined,           \* an element of a mapped region nobody wrote
    InitialIndexBufferSize  \* INITIAL_INDEX_BUFFER_SIZE, in bytes

ASSUME InitialIndexBufferSize \in 1..UIntMax

\* A new IndexBufferInterface: no storage yet, a serial of its own.
NewIndexBuffer(serial) ==
    [size |-> 0, type |-> NoType, writePos |-> 0, data |-> <<>>, serial |-> serial]

\* The k-th least serial that none of `used` holds: the serials issued by
\* one step are distinct, and differ from every serial still referenced.
FreshSerial(used, k) ==
    CHOOSE s \in 1..(Cardinality(used) + k) :
        s \notin used /\ Cardinality((1..s) \ used) = k

\* Seeded fault for StreamingReserve: no wrap to offset 0 when the request
\* does not fit behind the write position.
StreamingReserveNoWrap(buf, size, type, serial) ==
    IF size > buf.size
    THEN [buf EXCEPT !.size = IF size > ShiftLeft(buf.size, 1) THEN size
                              ELSE ShiftLeft(buf.size, 1),
                     !.type = type, !.writePos = 0, !.serial = serial]
    ELSE buf

\* StreamingIndexBufferInterface::reserveBufferSpace: grow to at least twice
\* the old size when too small (new storage, new serial), else wrap to
\* offset 0 (discarding the contents, same storage) when the request does
\* not fit behind the write position.
StreamingReserve(buf, size, type, serial) ==
    CASE size > buf.size ->
           [buf EXCEPT !.size = IF size > ShiftLeft(buf.size, 1) THEN size
                                ELSE ShiftLeft(buf.size, 1),
                       !.type = type, !.writePos = 0, !.serial = serial]
      [] (buf.writePos + size) % 2^WordBits > buf.size
         \/ (buf.writePos + size) % 2^WordBits < buf.writePos ->
           [buf EXCEPT !.writePos = 0]
      [] OTHER -> buf

\* IndexBufferInterface::mapBuffer: the region at the write position, which
\* then advances; refused when the end would overflow an unsigned int.
MapOverflows(buf, size) == (buf.writePos + size) % 2^WordBits < buf.writePos
Mapped(buf, size) == [buf EXCEPT !.writePos = (buf.writePos + size) % 2^WordBits]

\* StaticIndexBufferInterface::reserveBufferSpace on a buffer of size 0:
\* the storage is created with its size and index type, and a new serial;
\* its contents are undefined.
StaticReserve(buf, size, type, serial) ==
    [buf EXCEPT !.size = size, !.type = type, !.serial = serial,
                !.data = [i \in 1..(size \div TypeBytes[type]) |-> Undefined]]

\* Writing converted elements at the mapped offset of a static buffer.
WriteElements(buf, offset, elems) ==
    LET first == offset \div TypeBytes[buf.type]
    IN  [buf EXCEPT !.data = [i \in DOMAIN buf.data |->
                               IF i - first \in DOMAIN elems
                               THEN elems[i - first] ELSE buf.data[i]]]

=============================================================================

---------------------------- MODULE IndexFormat ----------------------------
(***************************************************************************)
(* Format policy and index conversion of the D3D index data manager        *)
(* (src/src/libANGLE/renderer/d3d/IndexDataManager.cpp): the index types,  *)
(* their primitive restart sentinels, the choice of the destination index  *)
(* type, the element-wise conversion, and the unsigned int arithmetic the  *)
(* manager does on counts and offsets.                                     *)
(*                                                                         *)
(* Index data is abstracted to sequences of bytes, little endian, each     *)
(* byte holding ByteBits bits (8 in the code).  A smaller ByteBits keeps   *)
(* the sentinels 2^(ByteBits*bytes)-1 within TLC's integers while keeping  *)
(* their order and their collisions.  Unsigned int arithmetic is taken     *)
(* modulo 2^WordBits (32 in the code).                                     *)
(***************************************************************************)
EXTENDS Integers, Sequences, FiniteSets

CONSTANTS
    ByteBits,   \* bits per byte of index data
    WordBits,   \* width of unsigned int
    Cut         \* a primitive restart, as the GL or the backend sees it

ASSUME ByteBits \in 1..8 /\ WordBits \in 2..30

\* GL_UNSIGNED_BYTE, GL_UNSIGNED_SHORT and GL_UNSIGNED_INT.
Types == {"UBYTE", "USHORT", "UINT"}

\* The D3D renderer classes the manager is built for.
RendererClasses == {"D3D9", "D3D11"}

\* gl::GetTypeInfo(type).bytes and .bytesShift.
TypeBytes == [t \in Types |-> CASE t = "UBYTE"  -> 1
                                [] t = "USHORT" -> 2
                                [] t = "UINT"   -> 4]
TypeShift == [t \in Types |-> CASE t = "UBYTE"  -> 0
                                [] t = "USHORT" -> 1
                                [] t = "UINT"   -> 2]

ByteValues == 0 .. (2^ByteBits - 1)

\* gl::GetPrimitiveRestartIndex: the all-ones value of the type.
GetPrimitiveRestartIndex(t) == 2^(ByteBits * TypeBytes[t]) - 1

\* unsigned int arithmetic: std::numeric_limits<unsigned int>::max(),
\* x << s and x >> s.
UIntMax == 2^WordBits - 1
ShiftLeft(x, s) == (x * 2^s) % 2^WordBits
ShiftRight(x, s) == x \div 2^s

\* Reading `count` indices of type t from byte offset `offset` of `bytes`
\* (the static_cast<const T *> of the element buffer or client array).
Decode(bytes, offset, t, count) ==
    LET b == TypeBytes[t]
        Elem(i) == LET first == offset + (i - 1) * b
                       RECURSIVE Word(_)
                       Word(j) == IF j = b THEN 0
                                  ELSE bytes[first + j + 1] * 2^(ByteBits * j)
                                         + Word(j + 1)
                   IN  Word(0)
    IN  [i \in 1..count |-> Elem(i)]

\* IndexDataManager::UsePrimitiveRestartWorkaround: D3D11 always cuts strips
\* at 0xFFFF, so 16-bit indices without GL primitive restart must be widened.
UsePrimitiveRestartWorkaround(primitiveRestartFixedIndexEnabled, type, rendererClass) ==
    /\ ~primitiveRestartFixedIndexEnabled
    /\ type = "USHORT"
    /\ rendererClass = "D3D11"

\* The dstType selection of prepareIndexData and IsStreamingIndexData.
DestinationType(srcType, primitiveRestartWorkaround) ==
    IF srcType = "UINT" \/ primitiveRestartWorkaround THEN "UINT" ELSE "USHORT"

\* Seeded fault for ConvertIndexArray: the restart index is cast like any
\* other value instead of being mapped.
ConvertIndexArrayNoRemap(in, sourceType, destinationType, usePrimitiveRestartFixedIndex) ==
    [i \in DOMAIN in |-> in[i]]

\* ConvertIndexArray<InputT, DestT>: a widening static_cast of every element,
\* mapping the source restart index to the destination one when asked to.
ConvertIndexArray(in, sourceType, destinationType, usePrimitiveRestartFixedIndex) ==
    [i \in DOMAIN in |->
        IF usePrimitiveRestartFixedIndex /\ in[i] = GetPrimitiveRestartIndex(sourceType)
        THEN GetPrimitiveRestartIndex(destinationType)
        ELSE in[i]]

\* ConvertIndices: a memcpy when the types agree, else ConvertIndexArray for
\* the two widenings the policy produces (UBYTE->USHORT, USHORT->UINT).
ConvertIndices(sourceType, destinationType, in, usePrimitiveRestartFixedIndex) ==
    IF sourceType = destinationType THEN in
    ELSE ConvertIndexArray(in, sourceType, destinationType, usePrimitiveRestartFixedIndex)

(***************************************************************************)
(* What a GL draw asks for: `count` indices of `type` from byte `offset`   *)
(* of the element buffer, or from a client array (`client` # <<>>), with   *)
(* GL_PRIMITIVE_RESTART_FIXED_INDEX `restart`.  Its meaning is the indices *)
(* with a Cut wherever GL primitive restart cuts the strip.                *)
(***************************************************************************)
RequestedIndices(request, data) ==
    IF request.client = <<>>
    THEN Decode(data, request.offset, request.type, request.count)
    ELSE Decode(request.client, 0, request.type, request.count)

GLMeaning(indices, t, restart) ==
    [i \in DOMAIN indices |->
        IF restart /\ indices[i] = GetPrimitiveRestartIndex(t) THEN Cut
        ELSE indices[i]]

RequestMeaning(request, data) ==
    GLMeaning(RequestedIndices(request, data), request.type, request.restart)

(***************************************************************************)
(* The caller's range metadata, gl::ComputeIndexRange (not in src/; from   *)
(* the specification's "pre-scanned range metadata"): the largest index   *)
(* that is not a restart, and how many indices are not restarts.          *)
(***************************************************************************)
ComputeIndexRange(indices, t, primitiveRestartEnabled) ==
    LET IsVertex(i) == ~(primitiveRestartEnabled
                          /\ indices[i] = GetPrimitiveRestartIndex(t))
        vs == {indices[i] : i \in {j \in DOMAIN indices : IsVertex(j)}}
    IN  [end |-> IF vs = {} THEN 0
                 ELSE CHOOSE m \in vs : \A v \in vs : v <= m,
         vertexIndexCount |-> Cardinality({j \in DOMAIN indices : IsVertex(j)})]

=============================================================================

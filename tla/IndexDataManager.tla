-------------------------- MODULE IndexDataManager --------------------------
(***************************************************************************)
(* IndexDataManager::prepareIndexData and its helpers, with the element    *)
(* array buffer it reads, the buffer's static index buffer and the two     *)
(* streaming index buffers the manager owns.  One step is one whole call   *)
(* of prepareIndexData, from the restart check to the returned descriptor; *)
(* between draws the application may respecify or update the buffer and   *)
(* the renderer may deinitialize the manager.                              *)
(*                                                                         *)
(* A draw records in `translated` what the backend will read at the       *)
(* descriptor (reads) next to the GL request it answers, so that the      *)
(* properties compare the two.                                             *)
(***************************************************************************)
EXTENDS IndexBuffer

CONSTANTS
    NoBuffer,        \* a null buffer pointer
    RendererClass,   \* mRendererClass
    BufferSizes,     \* byte sizes the application gives the element buffer
    MaxClientCount,  \* largest count of a draw from a client pointer
    RestartModes,    \* values of GL_PRIMITIVE_RESTART_FIXED_INDEX drawn with
    ToggleRestart,   \* may a buffer be drawn in both restart modes
    MixTypes,        \* may a buffer be drawn with more than one index type
    Failures,        \* the backend calls that may fail
    DirectBindingModes  \* values supportsDirectBinding() takes on this backend

ASSUME /\ RendererClass \in RendererClasses
       /\ BufferSizes \subseteq 1..UIntMax
       /\ RestartModes \subseteq BOOLEAN /\ RestartModes # {}
       /\ ToggleRestart \in BOOLEAN /\ MixTypes \in BOOLEAN
       /\ Failures \subseteq {"getData", "reserve", "map", "unmap"}
       /\ DirectBindingModes \subseteq BOOLEAN /\ DirectBindingModes # {}

VARIABLES
    bufData,          \* the element array buffer's bytes (BufferD3D)
    directBinding,    \* buffer->supportsDirectBinding()
    staticBuffer,     \* buffer->getStaticIndexBuffer()
    streamingBuffer,  \* mStreamingBufferShort and mStreamingBufferInt
    translated,       \* the last draw: its descriptor, reads and meaning
    app,              \* the index type and restart mode the application
                      \* uses with the current buffer contents
    appliedIBSerial,  \* the renderer's mAppliedIBSerial (0: none yet)
    boundIB           \* serial of the storage the device has bound

vars == <<bufData, directBinding, staticBuffer, streamingBuffer, translated, app,
          appliedIBSerial, boundIB>>
rendererVars == <<appliedIBSerial, boundIB>>

StreamTypes == {"USHORT", "UINT"}

NoRequest == [type |-> NoType, offset |-> 0, count |-> 0, restart |-> FALSE, client |-> <<>>]

NoDraw == [status |-> "none", storage |-> "none", srcType |-> NoType, indexType |-> NoType,
           startIndex |-> 0, startOffset |-> 0, count |-> 0,
           storageSize |-> 0, reads |-> <<>>, request |-> NoRequest,
           predictedStreaming |-> TRUE, fail |-> "none", serial |-> 0]

\* The serials referenced anywhere: by the buffers, the descriptor and the
\* renderer.  Only Renderer9 reads serials (D3D11 binds by buffer pointer),
\* so a D3D11 instance keeps every serial 0.
SerialsInUse ==
    {appliedIBSerial, boundIB, translated.serial}
      \cup {b.serial : b \in {x \in {staticBuffer} \cup {streamingBuffer[t] : t \in StreamTypes} :
                               x # NoBuffer}}

IssueSerial(k) == IF RendererClass = "D3D9" THEN FreshSerial(SerialsInUse, k) ELSE 0

\* What the backend draws: D3D11 cuts strips at the all-ones index of the
\* bound type; D3D9 has no primitive restart.
BackendMeaning(reads, t) ==
    [i \in DOMAIN reads |->
        IF RendererClass = "D3D11" /\ reads[i] = GetPrimitiveRestartIndex(t)
        THEN Cut ELSE reads[i]]

(***************************************************************************)
(* Reserve, map, convert into the mapped region, unmap: StreamInIndexBuffer *)
(* after its overflow check.  `fail` names the backend call that fails in  *)
(* this draw, and `serial` is the one new storage gets.  The result is the *)
(* error flag, the buffer afterwards, and the mapped offset.               *)
(***************************************************************************)
ReserveMapWrite(buffer, data, count, srcType, dstType, restart, isStatic, fail, serial) ==
    LET bufferSizeRequired == ShiftLeft(count, TypeShift[dstType])
        reserved == IF isStatic
                    THEN StaticReserve(buffer, bufferSizeRequired, dstType, serial)
                    ELSE StreamingReserve(buffer, bufferSizeRequired, dstType, serial)
        mapped == Mapped(reserved, bufferSizeRequired)
    IN  CASE fail = "reserve" -> [err |-> TRUE, buffer |-> buffer, offset |-> 0]
          [] fail = "map" \/ MapOverflows(reserved, bufferSizeRequired) ->
               [err |-> TRUE, buffer |-> reserved, offset |-> 0]
          [] OTHER ->
               [err |-> fail = "unmap", offset |-> reserved.writePos,
                buffer |-> IF isStatic
                           THEN WriteElements(mapped, reserved.writePos,
                                  ConvertIndices(srcType, dstType, data, restart))
                           ELSE mapped]

\* Seeded fault for StreamInIndexBuffer: no overflow check before
\* count << bytesShift.
StreamInIndexBufferNoLimit(buffer, data, count, srcType, dstType, restart, isStatic, fail, serial) ==
    ReserveMapWrite(buffer, data, count, srcType, dstType, restart, isStatic, fail, serial)

\* StreamInIndexBuffer: refuse a count whose byte size overflows unsigned
\* int, then reserve, map, convert and unmap.
StreamInIndexBuffer(buffer, data, count, srcType, dstType, restart, isStatic, fail, serial) ==
    IF count > ShiftRight(UIntMax, TypeShift[dstType])
    THEN [err |-> TRUE, buffer |-> buffer, offset |-> 0]
    ELSE ReserveMapWrite(buffer, data, count, srcType, dstType, restart, isStatic, fail, serial)

\* The streaming buffer of a type, created with INITIAL_INDEX_BUFFER_SIZE
\* bytes when missing (the serial the constructor issues is replaced at
\* once by the reservation's).
StreamingBufferOf(type, fail) ==
    LET current == streamingBuffer[type]
    IN  CASE current # NoBuffer -> [err |-> FALSE, buffer |-> current]
          [] fail = "reserve" -> [err |-> TRUE, buffer |-> NoBuffer]
          [] OTHER -> [err |-> FALSE,
                       buffer |-> StreamingReserve(NewIndexBuffer(IssueSerial(2)),
                                    InitialIndexBufferSize, type, IssueSerial(2))]

\* Seeded fault for GetStreamingIndexBuffer: the type test of the ternary
\* that picks mStreamingBufferInt or mStreamingBufferShort is inverted.
GetStreamingIndexBufferSwapped(destinationIndexType, fail) ==
    StreamingBufferOf(IF destinationIndexType = "UINT" THEN "USHORT" ELSE "UINT", fail)

\* getStreamingIndexBuffer: mStreamingBufferInt for 32-bit indices, else
\* mStreamingBufferShort.
GetStreamingIndexBuffer(destinationIndexType, fail) ==
    StreamingBufferOf(IF destinationIndexType = "UINT" THEN "UINT" ELSE "USHORT", fail)

\* streamIndexData after its two calls: `got` from getStreamingIndexBuffer
\* and `r` from StreamInIndexBuffer.  The result carries the streaming
\* buffers afterwards and the descriptor's fields.
Streamed(got, r, dstType, startIndex, serial, reads) ==
    IF got.err THEN [err |-> TRUE, streamingBuffer |-> streamingBuffer]
    ELSE [err |-> r.err, streamingBuffer |-> [streamingBuffer EXCEPT ![dstType] = r.buffer],
          storageSize |-> r.buffer.size, startIndex |-> startIndex,
          startOffset |-> r.offset, serial |-> serial, reads |-> reads]

\* Seeded fault for StreamIndexData: the start index scaled by the source
\* type's shift, as the static path does, instead of the destination's.
StreamIndexDataSourceShift(data, count, srcType, dstType, usePrimitiveRestartFixedIndex, fail) ==
    LET got == GetStreamingIndexBuffer(dstType, fail)
        r == StreamInIndexBuffer(got.buffer, data, count, srcType, dstType,
                                 usePrimitiveRestartFixedIndex, FALSE, fail, IssueSerial(3))
    IN  Streamed(got, r, dstType, ShiftRight(r.offset, TypeShift[srcType]), r.buffer.serial,
                 ConvertIndices(srcType, dstType, data, usePrimitiveRestartFixedIndex))

\* Seeded fault for StreamIndexData: the serial is taken from the
\* streaming buffer before StreamInIndexBuffer reserves (and may reallocate).
StreamIndexDataSerialBeforeReserve(data, count, srcType, dstType, usePrimitiveRestartFixedIndex, fail) ==
    LET got == GetStreamingIndexBuffer(dstType, fail)
        r == StreamInIndexBuffer(got.buffer, data, count, srcType, dstType,
                                 usePrimitiveRestartFixedIndex, FALSE, fail, IssueSerial(3))
    IN  Streamed(got, r, dstType, ShiftRight(r.offset, TypeShift[dstType]), got.buffer.serial,
                 ConvertIndices(srcType, dstType, data, usePrimitiveRestartFixedIndex))

\* streamIndexData: convert `data` into the streaming buffer of dstType,
\* the start index counted in destination indices.
StreamIndexData(data, count, srcType, dstType, usePrimitiveRestartFixedIndex, fail) ==
    LET got == GetStreamingIndexBuffer(dstType, fail)
        r == StreamInIndexBuffer(got.buffer, data, count, srcType, dstType,
                                 usePrimitiveRestartFixedIndex, FALSE, fail, IssueSerial(3))
    IN  Streamed(got, r, dstType, ShiftRight(r.offset, TypeShift[dstType]), r.buffer.serial,
                 ConvertIndices(srcType, dstType, data, usePrimitiveRestartFixedIndex))

\* A failed draw: the error is returned to the caller.  The record keeps
\* the request's type, offset and count (not its data), the destination
\* type, and the backend call that was made to fail ("none" when the
\* error is the manager's own).
Failed(request, dstType, fail) ==
    [NoDraw EXCEPT !.status = "error", !.srcType = request.type, !.count = request.count,
                   !.request = [NoRequest EXCEPT !.type = request.type,
                                  !.offset = request.offset, !.count = request.count],
                   !.indexType = dstType, !.fail = fail]

\* A successful draw.  `predictedStreaming` is what IsStreamingIndexData
\* answered for the same draw just before it (TRUE for client pointers).
Drawn(storage, srcType, indexType, startIndex, startOffset, count, size, reads, req, pred, serial) ==
    [status |-> "ok", storage |-> storage, srcType |-> srcType, indexType |-> indexType,
     startIndex |-> startIndex, startOffset |-> startOffset, count |-> count,
     storageSize |-> size, reads |-> reads, request |-> req,
     predictedStreaming |-> pred, fail |-> "none", serial |-> serial]

\* BufferD3D::invalidateStaticData: a filled static buffer is deleted; one
\* is recreated empty when the buffer's usage is static.
InvalidatedStatic == {NoBuffer, NewIndexBuffer(IssueSerial(1))}

\* BufferD3D::promoteStaticUsage: the buffer's own heuristic may create an
\* empty static buffer when it has none.
Promoted(sb) == IF sb = NoBuffer THEN {NoBuffer, NewIndexBuffer(IssueSerial(4))} ELSE {sb}

\* IndexDataManager::IsStreamingIndexData for a draw of the element buffer,
\* with the context's primitive restart state.
IsStreamingIndexData(srcType, primitiveRestartEnabled) ==
    LET primitiveRestartWorkaround ==
            UsePrimitiveRestartWorkaround(primitiveRestartEnabled, srcType, RendererClass)
        dstType == DestinationType(srcType, primitiveRestartWorkaround)
    IN  CASE directBinding /\ dstType = srcType -> FALSE
          [] staticBuffer = NoBuffer -> TRUE
          [] staticBuffer.size = 0 \/ staticBuffer.type # dstType -> TRUE
          [] OTHER -> FALSE

(***************************************************************************)
(* The restart analysis at the top of prepareIndexData.  The ASSERT on     *)
(* 32-bit indices is the caller's contract (MAX_ELEMENT_INDEX keeps the    *)
(* all-ones 32-bit index out of draws without primitive restart).          *)
(***************************************************************************)
RestartAnalysis(indices, srcType, count, primitiveRestartFixedIndexEnabled) ==
    LET indexRange == ComputeIndexRange(indices, srcType, primitiveRestartFixedIndexEnabled)
        hasPrimitiveRestartIndex ==
            \/ indexRange.vertexIndexCount < count
            \/ indexRange.end = GetPrimitiveRestartIndex(srcType)
        primitiveRestartWorkaround ==
            /\ UsePrimitiveRestartWorkaround(primitiveRestartFixedIndexEnabled,
                                             srcType, RendererClass)
            /\ hasPrimitiveRestartIndex
    IN  [contract |-> ~(/\ RendererClass = "D3D11"
                         /\ ~primitiveRestartFixedIndexEnabled
                         /\ hasPrimitiveRestartIndex
                         /\ indexRange.vertexIndexCount # 0
                         /\ srcType = "UINT"),
         dstType |-> DestinationType(srcType, primitiveRestartWorkaround)]

\* Case 1 of prepareIndexData: indices from a client pointer are streamed.
PrepareClientIndexData(srcType, count, client, restart, fail) ==
    LET indices == Decode(client, 0, srcType, count)
        analysis == RestartAnalysis(indices, srcType, count, restart)
        dstType == analysis.dstType
        r == StreamIndexData(indices, count, srcType, dstType, restart, fail)
        request == [type |-> srcType, offset |-> 0, count |-> count,
                    restart |-> restart, client |-> client]
    IN  /\ analysis.contract
        /\ streamingBuffer' = r.streamingBuffer
        /\ translated' = IF r.err THEN Failed(request, dstType, fail)
                         ELSE Drawn("Stream", srcType, dstType, r.startIndex, r.startOffset,
                                    count, r.storageSize, r.reads, request, TRUE, r.serial)
        /\ UNCHANGED <<bufData, directBinding, staticBuffer, app, rendererVars>>

\* Case 2b, streaming: read the buffer, stream the draw's range, and let
\* the buffer count the use towards a static copy.  `sb` is the static
\* buffer after any invalidation.
StreamFromBuffer(sb, indices, offset, count, srcType, dstType, restart, request, predicted, fail) ==
    LET r == StreamIndexData(indices, count, srcType, dstType, restart, fail)
    IN  IF fail = "getData"
        THEN /\ staticBuffer' = sb
             /\ translated' = Failed(request, dstType, fail)
             /\ UNCHANGED streamingBuffer
        ELSE /\ streamingBuffer' = r.streamingBuffer
             /\ IF r.err
                THEN /\ staticBuffer' = sb
                     /\ translated' = Failed(request, dstType, fail)
                ELSE /\ staticBuffer' \in Promoted(sb)
                     /\ translated' = Drawn("Stream", srcType, dstType, r.startIndex,
                                            r.startOffset, count, r.storageSize,
                                            r.reads, request, predicted, r.serial)

\* Reading `count` elements of a static buffer from element `startIndex`.
StaticReads(sb, startIndex, count) ==
    [i \in 1..count |-> IF startIndex + i \in DOMAIN sb.data
                        THEN sb.data[startIndex + i] ELSE Undefined]

\* The static buffer drawn from: the filled one as it is, or the one the
\* whole-buffer StreamInIndexBuffer has just filled.
StaticFilled(sb, r) == IF sb.size # 0 THEN sb ELSE r.buffer

\* Case 2b, static: fill the static buffer with the whole buffer translated
\* if it is still empty, then draw from it at the rescaled offset.
UseStaticBuffer(sb, offset, count, srcType, dstType, restart, request, predicted, fail) ==
    LET convertCount == ShiftRight(Len(bufData), TypeShift[srcType])
        r == StreamInIndexBuffer(sb, Decode(bufData, 0, srcType, convertCount),
                                 convertCount, srcType, dstType, restart, TRUE, fail,
                                 IssueSerial(3))
        filled == StaticFilled(sb, r)
        startIndex == ShiftRight(offset, TypeShift[srcType])
    IN  /\ UNCHANGED streamingBuffer
        /\ CASE sb.size = 0 /\ fail = "getData" ->
                  staticBuffer' = sb /\ translated' = Failed(request, dstType, fail)
             [] sb.size = 0 /\ r.err ->
                  staticBuffer' = r.buffer /\ translated' = Failed(request, dstType, fail)
             [] OTHER ->
                  /\ staticBuffer' = filled
                  /\ translated' = Drawn("Static", srcType, dstType, startIndex,
                                         ShiftLeft(startIndex, TypeShift[dstType]),
                                         count, filled.size,
                                         StaticReads(filled, startIndex, count), request,
                                         predicted, filled.serial)

\* Seeded fault for FallsBackToStreaming: an empty static buffer is taken
\* for a missing one, so it is never filled.
FallsBackToStreamingUnfilled(invalidate, offsetAligned) ==
    invalidate \/ staticBuffer = NoBuffer \/ ~offsetAligned \/ staticBuffer.size = 0

\* The test `staticBuffer == nullptr || !offsetAligned` of Case 2b, where
\* the local staticBuffer is null after an invalidation.
FallsBackToStreaming(invalidate, offsetAligned) ==
    invalidate \/ staticBuffer = NoBuffer \/ ~offsetAligned

\* Case 2 of prepareIndexData: indices in the element array buffer.
PrepareBufferIndexData(srcType, count, offset, restart, fail) ==
    LET indices == Decode(bufData, offset, srcType, count)
        analysis == RestartAnalysis(indices, srcType, count, restart)
        dstType == analysis.dstType
        request == [type |-> srcType, offset |-> offset, count |-> count,
                    restart |-> restart, client |-> <<>>]
        offsetAligned == offset % TypeBytes[srcType] = 0
        staticBufferInitialized == staticBuffer # NoBuffer /\ staticBuffer.size # 0
        staticBufferUsable == /\ staticBuffer # NoBuffer /\ offsetAligned
                              /\ staticBuffer.type = dstType
        invalidate == staticBufferInitialized /\ ~staticBufferUsable
        predicted == IsStreamingIndexData(srcType, restart)
    IN  /\ analysis.contract
        /\ UNCHANGED <<bufData, directBinding, app, rendererVars>>
        \* (BufferD3D::getSerial, line 279, is not modelled: Renderer9
        \* never binds a buffer directly, D3D11 never reads the serial.)
        /\ IF offsetAligned /\ directBinding /\ dstType = srcType
           THEN /\ translated' = Drawn("Source", srcType, srcType,
                                       ShiftRight(offset, TypeShift[srcType]),
                                       offset, count, Len(bufData), indices, request,
                                       predicted, 0)
                /\ UNCHANGED <<staticBuffer, streamingBuffer>>
           ELSE \E sb \in IF invalidate THEN InvalidatedStatic ELSE {staticBuffer}:
                  IF FallsBackToStreaming(invalidate, offsetAligned)
                  THEN StreamFromBuffer(sb, indices, offset, count, srcType,
                                        dstType, restart, request, predicted, fail)
                  ELSE UseStaticBuffer(sb, offset, count, srcType, dstType,
                                       restart, request, predicted, fail)

(***************************************************************************)
(* The environment: the application's buffer updates and the renderer's   *)
(* deinitialize.  Every change of the buffer's data invalidates its        *)
(* static data (BufferD3D); glBufferData may also change its usage, hence  *)
(* direct binding, and starts a new use of the buffer by the application. *)
(***************************************************************************)
AppUses == [type: Types, restart: RestartModes]

BufferData(data, direct, use) ==
    /\ bufData' = data
    /\ directBinding' = direct
    /\ staticBuffer' \in InvalidatedStatic
    /\ app' = use
    /\ UNCHANGED <<streamingBuffer, translated, rendererVars>>

\* Seeded fault for BufferSubData: the update keeps the static buffer.
BufferSubDataKeepsStatic(data) ==
    /\ bufData' = data
    /\ UNCHANGED <<directBinding, staticBuffer, streamingBuffer, translated, app, rendererVars>>

BufferSubData(data) ==
    /\ bufData' = data
    /\ staticBuffer' \in InvalidatedStatic
    /\ UNCHANGED <<directBinding, streamingBuffer, translated, app, rendererVars>>

\* IndexDataManager::deinitialize: both streaming buffers are released.
Deinitialize ==
    /\ streamingBuffer' = [t \in StreamTypes |-> NoBuffer]
    /\ UNCHANGED <<bufData, directBinding, staticBuffer, translated, app, rendererVars>>

\* The index types and restart modes a draw of the buffer may use.
DrawTypes == IF MixTypes THEN Types ELSE {app.type}
DrawRestarts == IF ToggleRestart THEN RestartModes ELSE {app.restart}
FailPoints == Failures \cup {"none"}

Init ==
    /\ \E size \in BufferSizes : bufData \in [1..size -> ByteValues]
    /\ directBinding \in DirectBindingModes
    /\ staticBuffer = NoBuffer
    /\ streamingBuffer = [t \in StreamTypes |-> NoBuffer]
    /\ translated = NoDraw
    /\ app \in AppUses
    /\ appliedIBSerial = 0 /\ boundIB = 0

\* No descriptor is outstanding: the application may make its next call.
Idle == translated = NoDraw

\* The serial the descriptor's storage has now: the storage SetIndices
\* binds is indexBuffer->getBuffer(), whatever serial the descriptor holds.
StorageSerial ==
    CASE translated.storage = "Static" -> staticBuffer.serial
      [] translated.storage = "Stream" -> streamingBuffer[translated.indexType].serial
      [] OTHER -> 0

\* Renderer9::applyIndexBuffer: SetIndices, and remember the descriptor's
\* serial, only when it differs from the serial bound last.
ApplyIndexBuffer ==
    IF translated.status = "ok" /\ translated.serial # appliedIBSerial
    THEN boundIB' = StorageSerial /\ appliedIBSerial' = translated.serial
    ELSE UNCHANGED rendererVars

\* The renderer draws with the descriptor before the application's next
\* call: prepareIndexData is synchronous and the context single-threaded.
Consume ==
    /\ ~Idle
    /\ ApplyIndexBuffer
    /\ translated' = NoDraw
    /\ UNCHANGED <<bufData, directBinding, staticBuffer, streamingBuffer, app>>

DrawElementBuffer ==
    /\ Idle
    /\ \E t \in DrawTypes, restart \in DrawRestarts, fail \in FailPoints,
          offset \in 0..(Len(bufData) - 1), count \in 1..Len(bufData) :
          /\ offset + count * TypeBytes[t] <= Len(bufData)
          /\ PrepareBufferIndexData(t, count, offset, restart, fail)

DrawClientArray ==
    /\ Idle
    /\ \E t \in Types, restart \in RestartModes, fail \in FailPoints,
          count \in 1..MaxClientCount :
          \E client \in [1..(count * TypeBytes[t]) -> ByteValues] :
             PrepareClientIndexData(t, count, client, restart, fail)

SpecifyBuffer ==
    /\ Idle
    /\ \E size \in BufferSizes, direct \in DirectBindingModes, use \in AppUses :
          \E data \in [1..size -> ByteValues] : BufferData(data, direct, use)

UpdateBuffer ==
    /\ Idle
    /\ \E data \in [1..Len(bufData) -> ByteValues] : BufferSubData(data)

ReleaseManager == Idle /\ Deinitialize

Next ==
    \/ DrawElementBuffer
    \/ DrawClientArray
    \/ SpecifyBuffer
    \/ UpdateBuffer
    \/ ReleaseManager
    \/ Consume

Spec == Init /\ [][Next]_vars

(***************************************************************************)
(* Scenario D of the specification: after its data is given, the          *)
(* application only draws the element buffer and never modifies it.  The  *)
(* renderer consumes every descriptor: prepareIndexData is synchronous and *)
(* its result is drawn with before the application's next call.  The      *)
(* application itself is not obliged to keep drawing.                     *)
(***************************************************************************)
SteadyNext == DrawElementBuffer \/ Consume

\* The buffer holds at least one index of the type the application draws.
SteadyInit == Init /\ Len(bufData) >= TypeBytes[app.type]

SteadySpec == SteadyInit /\ [][SteadyNext]_vars /\ WF_vars(Consume)

(***************************************************************************)
(* Properties                                                              *)
(***************************************************************************)
IndexBufferRecords ==
    [size: 0..UIntMax, type: StreamTypes \cup {NoType},
     writePos: 0..UIntMax, data: Seq(0..GetPrimitiveRestartIndex("UINT") \cup {Undefined}),
     serial: Nat]

TypeOK ==
    /\ \E size \in BufferSizes : bufData \in [1..size -> ByteValues]
    /\ directBinding \in DirectBindingModes
    /\ staticBuffer \in IndexBufferRecords \cup {NoBuffer}
    /\ streamingBuffer \in [StreamTypes -> IndexBufferRecords \cup {NoBuffer}]
    /\ \A t \in StreamTypes : streamingBuffer[t] # NoBuffer =>
          /\ streamingBuffer[t].type = t
          /\ streamingBuffer[t].writePos <= streamingBuffer[t].size
    /\ translated.status \in {"none", "ok", "error"}
    /\ translated.storage \in {"none", "Source", "Static", "Stream"}
    /\ translated.fail \in FailPoints
    /\ app \in AppUses
    /\ {appliedIBSerial, boundIB, translated.serial} \subseteq Nat

\* What the GL draw of the outstanding descriptor means.  A draw leaves the
\* buffer's data unchanged, and the descriptor is consumed before the next
\* call, so bufData is still the data the draw read.
Want == RequestMeaning(translated.request, bufData)

\* Every successful prepareIndexData hands the backend indices that draw
\* what the GL draw means: the same vertices, and a strip cut exactly where
\* GL primitive restart cuts.  It takes the restart analysis, the choice
\* of destination type, the conversion, and the static buffer's validity
\* checks (filled on an earlier draw, possibly with other parameters) to
\* agree.
DrawMatchesGL ==
    translated.status = "ok" =>
        BackendMeaning(translated.reads, translated.indexType) = Want

\* The descriptor addresses its storage consistently: the start index and
\* the byte offset name the same element of the bound index type, and the
\* draw's elements lie inside the storage (the streaming buffer's
\* reserve/map and the static buffer's offset rescaling).
DescriptorWithinStorage ==
    translated.status = "ok" =>
        LET bytes == TypeBytes[translated.indexType]
        IN  /\ translated.startOffset = translated.startIndex * bytes
            /\ translated.startOffset + translated.count * bytes
                 <= translated.storageSize

\* Renderer9 keeps the device's index buffer when a descriptor's serial
\* equals the one it bound last, so a serial must change whenever the
\* storage behind it is created or reallocated, and the manager must read
\* it after StreamInIndexBuffer's reserve (lines 344 and 374).  After every
\* draw the device has bound the descriptor's storage as it is now, never
\* one released by a reallocation, a deinitialize or an invalidation.
BoundIndexBufferCurrent ==
    [][Consume /\ translated.status = "ok" => boundIB' = StorageSerial]_vars

\* The buffer's current data translated whole to type t, as lines 324-335
\* fill a static copy: the application's index type and restart mode.
StaticTranslation(t) ==
    LET convertCount == ShiftRight(Len(bufData), TypeShift[app.type])
    IN  ConvertIndices(app.type, t, Decode(bufData, 0, app.type, convertCount), app.restart)

\* Specification 5 (the static translation cache): a filled static copy
\* holds the whole of the buffer's current data, translated.  Line 292
\* takes any copy of nonzero size as filled and lines 294-300 check only
\* its index type, never its age, so the copy must be current whenever it
\* is filled, across fills that fail after writing, draws that stream or
\* bind directly, promotions, and every update of the buffer's data.
StaticCopyCurrent ==
    (staticBuffer # NoBuffer /\ staticBuffer.size # 0)
        => staticBuffer.data = StaticTranslation(staticBuffer.type)

\* The specification (4.4, and CapacityExceeded in 7) fails a draw for
\* capacity only when the draw's own count of indices, at the destination
\* index size, overflows unsigned int; every other error comes from a
\* failing backend call.  The overflow test of StreamInIndexBuffer is
\* also applied to the static copy, whose count is the whole buffer's.
CapacityErrorOnlyForOverflowingDraw ==
    (translated.status = "error" /\ translated.fail = "none")
        => translated.count > ShiftRight(UIntMax, TypeShift[translated.indexType])

\* IsStreamingIndexData repeats prepareIndexData's case analysis ("Case 1",
\* "Case 2a", "Case 2b") so that a caller can tell ahead of a draw whether
\* its indices will be streamed.  When it answers "not streaming", the
\* draw must not stream.
StreamingPredicted ==
    (translated.status = "ok" /\ translated.storage = "Stream")
        => translated.predictedStreaming

\* The specification (4.2 and scenario B) says that when the D3D11
\* workaround widens 16-bit indices, each 0xFFFF is replaced by the 32-bit
\* restart index 0xFFFFFFFF, all other values kept.  The code converts
\* with the primitive restart flag, which the workaround requires off.
WorkaroundRemapsSentinel ==
    (translated.status = "ok" /\ translated.srcType = "USHORT"
       /\ translated.indexType = "UINT")
      => \A i \in DOMAIN translated.reads :
            translated.reads[i] =
              IF Want[i] = GetPrimitiveRestartIndex("USHORT")
              THEN GetPrimitiveRestartIndex("UINT") ELSE Want[i]

\* A draw of the buffer was streamed and left it without a static copy:
\* promoteStaticUsage declined to create one.
PromotionDeclined ==
    /\ translated.status = "ok" /\ translated.storage = "Stream"
    /\ translated.request.client = <<>>
    /\ staticBuffer = NoBuffer

\* BufferD3D's heuristic counts the use of unmodified data, so it does not
\* decline forever: a buffer streamed from again and again eventually has
\* a static copy.  (The heuristic is not in src/; this is its fairness.)
PromotionFair == []<>PromotionDeclined => []<>(staticBuffer # NoBuffer)

\* Scenario D: once every draw of the buffer (failed or not) asks for an
\* aligned range with the same destination index type, the draws
\* eventually stop being streamed: the promoted static copy is filled and used (or the buffer is
\* bound directly).  It takes the promotion after streaming (line 318),
\* the fill of an empty copy (line 324) and the validity checks that
\* decide between invalidating, streaming and using the copy to agree.
StaticCopyEventuallyUsed ==
    \A T \in StreamTypes :
        LET Steady == translated.status # "none" =>
                         /\ translated.indexType = T
                         /\ translated.request.offset % TypeBytes[translated.srcType] = 0
        IN  (<>[]Steady /\ PromotionFair)
                => <>[](translated.status = "ok" => translated.storage # "Stream")

=============================================================================

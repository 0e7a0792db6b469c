# TLA+ model of the D3D index data manager

This directory holds TLA+ models of `rx::IndexDataManager`
(`src/src/libANGLE/renderer/d3d/IndexDataManager.cpp`). It is the layer of the
D3D back end that turns the index data of a GL draw into index data the D3D9
or D3D11 device can draw from. The models are checked with TLC.

## 1. Inventory

### Components and their state

| Component | Code | State it keeps | Operations |
|---|---|---|---|
| Format policy | `UsePrimitiveRestartWorkaround`, the `dstType` ternary, `hasPrimitiveRestartIndex` in `prepareIndexData` | none (pure) | choose the destination type (16 or 32 bit) and whether the D3D11 restart workaround applies |
| Converter | `ConvertIndexArray`, `ConvertIndices` | none (pure) | memcpy, or widen each index and map the restart index |
| Streaming path | `StreamInIndexBuffer`, `streamIndexData`, `getStreamingIndexBuffer`, `deinitialize` | `mStreamingBufferShort`, `mStreamingBufferInt` (created lazily) | overflow check, reserve, map, convert, unmap; create/release the streaming buffers |
| Streaming index buffer (allocator) | `StreamingIndexBufferInterface` (IndexBuffer.cpp, **not in src/**) | size, index type, write position, serial | `reserveBufferSpace` (grow ×2 with new storage and a new serial, or wrap to 0), `mapBuffer`, `unmapBuffer` |
| Static index buffer (translation cache) | `StaticIndexBufferInterface` (not in src/), used by `prepareIndexData` | size, index type, translated contents | filled once from the whole buffer, then drawn from at a rescaled offset |
| Buffer collaborator | `BufferD3D` (not in src/) | bytes, usage (direct binding), its static buffer, usage counter | `getData`, `supportsDirectBinding`, `invalidateStaticData`, `promoteStaticUsage`, and the application's `glBufferData`/`glBufferSubData` |
| Orchestrator | `prepareIndexData`, `IsStreamingIndexData` | none of its own beyond the streaming buffers | Case 1 (client pointer → stream), Case 2a (use the buffer directly), Case 2b (use a static copy, or stream and promote) |
| Draw submission | `Renderer9::applyIndexBuffer` (**not in this repository**) | `mAppliedIBSerial`, the device's bound index buffer | rebind (`SetIndices`) only when the descriptor's serial differs from the last one bound |
| Compute shader tests | `src/src/tests/gl_tests/ComputeShaderTest.cpp` | — | end-to-end GL tests, unrelated to index data |

### How they interact

`prepareIndexData` is called once per indexed draw on the single rendering
thread, synchronously. It reads the element buffer (`BufferD3D`), may
invalidate, create (through `promoteStaticUsage`) or fill the buffer's static
index buffer, and writes into one of its own two streaming buffers. It returns
a `TranslatedIndexData` descriptor (index type, storage, start index, start
offset, serial), which the renderer uses before the application's next call.
Between draws the application may respecify or update the buffer; the buffer
then invalidates its static copy. `IsStreamingIndexData` answers ahead of a
draw whether that draw will be streamed.

### What is hard here

Nothing runs concurrently. The difficulty is state that outlives a call and
is reused by later calls with other parameters:
- the static copy is filled by one draw (with that draw's restart mode,
  source type and range) and reused by later draws that check only its
  destination type;
- its fill is a reserve/map/convert/unmap sequence whose failure in the middle
  leaves state behind;
- the streaming buffers grow, wrap and are released across draws;
- the destination type depends on the drawn range (the D3D11 restart
  workaround), so it changes from draw to draw of one buffer;
- unsigned int shifts and sums on counts and offsets;
- the descriptor's serial is a version token that the D3D9 renderer trusts
  across draws: it must be read after any reallocation in the same call.

### Properties per component

- Format policy + converter + cache: the backend draws what GL means: the same
  indices, and a strip cut exactly where GL primitive restart cuts
  (`DrawMatchesGL`).
- Streaming allocator and offset rescaling: the descriptor's start index and
  byte offset agree, and the draw lies inside its storage
  (`DescriptorWithinStorage`).
- Streaming buffers: each holds its own type, write position within size
  (`TypeOK`).
- `IsStreamingIndexData`: its "not streaming" answer is right
  (`StreamingPredicted`).
- Overflow checks: only a draw whose own indices overflow unsigned int fails
  for capacity (`CapacityErrorOnlyForOverflowingDraw`).
- Static translation cache: a filled static copy always holds the whole of
  the buffer's current data, translated (`StaticCopyCurrent`).
- Promotion and the static copy: a buffer drawn steadily eventually stops
  being streamed (`StaticCopyEventuallyUsed`).
- Serials and the D3D9 renderer: after every draw the device has bound the
  descriptor's storage as it is now, never one released by a reallocation
  (`BoundIndexBufferCurrent`).
- Specification scenario B (`WorkaroundRemapsSentinel`), stated to show the
  divergence.

## 2. Modules

| Module | Models | Kind |
|---|---|---|
| `IndexFormat` | types, restart indices, unsigned arithmetic, decoding, workaround policy, destination type, `ConvertIndexArray`, `ConvertIndices`, range metadata | pure operators |
| `IndexBuffer` | streaming and static index buffer interfaces (spec-modelled: IndexBuffer.cpp is not in src/) | operators on buffer records |
| `IndexDataManager` | the manager, the element buffer and its static copy, the environment; the properties | state machine |
| `MC_IndexDataManager` | constants for TLC | MC module |

### State and actions of `IndexDataManager`

Variables: `bufData` (the element buffer's bytes), `directBinding`,
`staticBuffer` (`NoBuffer` or a buffer record), `streamingBuffer` (per
destination type, `NoBuffer` until created), `translated` (the last draw's
descriptor, what the backend reads there, the GL request it answers, and for
an error the backend call that was made to fail), and `app` (the
index type and restart mode the application uses with the current buffer
contents; it only matters when `MixTypes`/`ToggleRestart` are FALSE), and
the draw-submission layer's `appliedIBSerial` and `boundIB` (the serial of
the storage the device has bound).

Serials: every buffer record carries one. New storage gets a new serial:
a created streaming or static buffer, a streaming buffer that grows, a static
copy when it is filled. `FreshSerial` issues the least serials that nothing
in the state still holds. The real counter is global and never reuses a
value; no property can tell the two apart, since serials are only compared
for equality with serials held in the state. Only Renderer9 reads serials,
so D3D11 instances keep every serial 0 (`IssueSerial`); the D3D11 state space
is unchanged.

Actions (`Next` is `DrawElementBuffer`, `DrawClientArray`, `SpecifyBuffer`,
`UpdateBuffer`, `ReleaseManager`, `Consume`; the first five wait for `Idle`):
- `PrepareBufferIndexData`: one whole call of `prepareIndexData` with an
  element buffer. This covers the restart analysis, Case 2a, the invalidation
  of an unusable static copy, and then streaming with promotion
  (`StreamFromBuffer`) or filling/using the static copy (`UseStaticBuffer`).
  The failing backend call is a nondeterministic input `fail`.
- `PrepareClientIndexData`: Case 1, indices from a client array.
- `BufferData`, `BufferSubData`: the application changes the buffer; its
  static copy is invalidated (deleted, or recreated empty for static usage).
- `Deinitialize`: `deinitialize()`.
- `Consume`: the renderer draws with the descriptor before the next call. It
  is the only step enabled after a draw, which is how a synchronous,
  single-threaded caller behaves. It includes `ApplyIndexBuffer`, Renderer9's
  serial check (spec-modelled from sections 6 and 8).

What a request means (`RequestMeaning` in `IndexFormat`) is computed from
the request and the buffer's data in the state (`Want`), not recorded by
the draw, so the properties compare the backend's reads with an
independent statement of the GL semantics.

Data abstraction: a byte holds `ByteBits` bits (8 in the code) and an
unsigned int `WordBits` bits (32). With `ByteBits = 1` the restart indices are
1, 3 and 15 for 8, 16 and 32 bits. They keep their order, and a 16-bit value
can still equal the 16-bit sentinel while being below the 32-bit one.
Conversions are modelled by what they do: little-endian decoding, widening,
sentinel mapping.

## 3. Runs

All runs use `MC_IndexDataManager` with: a D3D11 renderer; an element
buffer of 2 or 4 bytes (1 to 4 indices); one-index client arrays; a 4-byte
initial streaming buffer (so it both grows and wraps); 8-bit words.
d3d9_binding is the exception: a D3D9 renderer, a 2-byte buffer, and a
2-byte initial streaming buffer, so that a 2-index draw reallocates it.

| Run | cfg | Expect | Shows |
|---|---|---|---|
| core | `MC_IndexDataManager.cfg` | pass (≈970k states, ≈3 min) | `TypeOK`, `DrawMatchesGL` and `DescriptorWithinStorage` hold for an application that uses one index type and one restart mode per buffer contents. Backend failures are allowed in getData, reserve and unmap. |
| restart_toggle | `MC_RestartToggle.cfg` | violation of `DrawMatchesGL` | a UBYTE static copy filled in one restart mode is reused in the other |
| mixed_types | `MC_MixedTypes.cfg` | violation of `DrawMatchesGL` | a static copy translated from USHORT is reused for a UBYTE draw |
| map_failure | `MC_MapFailure.cfg` | violation of `DrawMatchesGL` | a failed map while filling the static copy leaves a sized, unwritten copy that the next draw uses |
| streaming_predicted | `MC_StreamingPredicted.cfg` | violation of `StreamingPredicted` | `IsStreamingIndexData` says "not streaming" for an unaligned draw that is streamed |
| workaround_remap | `MC_WorkaroundRemap.cfg` | violation of `WorkaroundRemapsSentinel` | the specification's scenario B is not what the code does. The code's result is the GL-correct one. |
| narrow_word | `MC_NarrowWord.cfg` | pass (≈440k states, ≈2 min) | with 3-bit unsigned ints (`UINT_MAX >> 2` = 1) the overflow refusal of `StreamInIndexBuffer`, the wrap of the streaming buffers and the static offset rescaling meet their limits; `DescriptorWithinStorage` still holds. |
| static_capacity | `MC_StaticCapacity.cfg` | violation of `CapacityErrorOnlyForOverflowingDraw` | with 3-bit unsigned ints, a one-index draw of a 4-byte buffer with a static copy fails: the copy's count, the whole buffer's, overflows. |
| static_cache | `MC_StaticCache.cfg` | pass (≈530k states, ≈1 min) | the core instance without direct binding, so every draw goes through the copy's validity checks. `StaticCopyCurrent` holds: a copy of nonzero size always equals the whole current buffer translated to its type. This holds across fills whose unmap fails after the write, streamed draws, promotions and every buffer update. |
| promotion | `MC_Promotion.cfg` | pass (≈47k states, seconds) | `StaticCopyEventuallyUsed` under `SteadySpec`: the application only draws, never modifies the buffer. |
| d3d9_binding | `MC_D3D9Binding.cfg` | pass (≈560k states, ≈1 min) | a D3D9 manager behind Renderer9's serial check. ES2 has no fixed-index restart, and Buffer9 never binds directly. `BoundIndexBufferCurrent` holds across streaming reallocation, deinitialize and static-copy invalidation. |

Each property of a passing run is checked against a seeded fault (see
`mutants` in PROJECT.json): the restart index not mapped, the streamed start index
scaled by the source type, the streaming-buffer ternary inverted (core); no overflow check before
`count << bytesShift` (narrow_word); `glBufferSubData` keeping the static
copy instead of invalidating it (static_cache); an empty static copy taken
for a missing one (promotion); the serial read before
`StreamInIndexBuffer`'s reserve (d3d9_binding). The last one takes a draw and
its apply, then a draw that grows the streaming buffer, reports the old
serial, and leaves the released buffer bound.

Why the bounds are enough: 4 bytes give every (type, count, offset)
combination, including unaligned offsets and one 32-bit index. 1-bit bytes
make every value either 0 or a sentinel-carrying pattern, which is exactly
what the properties tell apart. A 4-byte initial streaming buffer needs an
8-byte request to grow and a second request to wrap.

Fairness. The safety runs assume none. The promotion run uses `SteadySpec`:
weak fairness of `Consume` only. `prepareIndexData` is synchronous, and the
renderer draws with its result before the application's next call. The
application is not obliged to draw: a behaviour that stops drawing satisfies
the property trivially. The buffer's promotion heuristic (`BufferD3D`, not
in src/) counts the use of unmodified data. Its fairness is a hypothesis of
the property (`PromotionFair`): a buffer left without a static copy after
streamed draws infinitely often eventually gets one. It is a hypothesis
rather than an `SF_` conjunct because TLC's evaluation of `ENABLED` of the
whole draw action is too slow for the run. Failed draws count in `Steady`
(their request and destination type are recorded). Otherwise failing
unaligned draws could invalidate the copy forever, and the property would
fail for a reason the scenario excludes.

`MC_Promotion.cfg` disables deadlock checking. In the steady scenario the
application stops drawing when no draw of its buffer meets the caller
contract: a 32-bit all-ones index without primitive restart.

## 4. Findings

See `findings` in PROJECT.json:
1. The static copy is reused across restart modes (`IndexDataManager.cpp:293`).
2. The static copy is reused across source types (`:294`).
3. A failed map leaves a "filled" static copy (`:292`, `:334`).
4. `IsStreamingIndexData` disagrees with `prepareIndexData`; the
   specification is silent on it (`:179`).
5. Specification scenario B diverges from the code (`:249`).
6. The static copy is refused for capacity when the whole buffer's copy
   overflows, even for a draw that fits (`:330`, `:95`). Spec 4.4 and 7 raise
   CapacityExceeded only for an overflowing request. With 32-bit ints this
   happens only at the limit: an unsigned-byte buffer over 2 GB, or a 2 GB
   unsigned-short buffer under the restart workaround.

## 5. Not modelled, and why

- `BufferD3D::getSerial` in Case 2a (line 279) is not modelled (the
  descriptor's serial is 0 there). Renderer9 never binds a buffer directly,
  and D3D11 compares buffer pointers, not serials.
- The draw-submission layer is modelled only through its serial check. The
  D3D11 state manager's pointer/format/offset comparison keeps no state that
  a serial could make stale.
- The contents of streaming buffers are not kept. The draw that wrote a
  region consumes it before the next call; with D3D discard semantics, a wrap
  does not affect a draw already submitted.
- ComputeShaderTest.cpp is GPU test code with no state of its own.
- D3D9 is instantiated only for the serial check (d3d9_binding). For
  `DrawMatchesGL` it differs from D3D11 only in the three renderer-class
  tests, and with restart always off, no seeded fault separates it from
  the D3D11 runs.

## 6. State of the project

Sittings so far:
1. The core model.
2. The narrow-word instance, the liveness of promotion, and a refinement
   to an abstract `IndexTranslation` (since removed, see below).
3. Serials, Renderer9's serial check and the D3D9 instance.
4. The streaming operators factored so that each seeded fault restates
   only what it changes.
5. A review against the source. Removed:
   - `TypeOK` checked again in narrow_word and d3d9_binding.
   - A cache-reuse property that only restated the test on line 322.
   - The refinement. Every abstract step reduced to `DrawMatchesGL` plus
     facts that hold by construction, and its only failing call was
     already in the core run.
   - Two hazards that cannot happen: the static offset rescaling of line
     346, which line 95's overflow check already excludes; and a stale
     `staticBufferInitialized` at line 322, since an invalidated copy is
     nulled at line 299 and always streams.

   Added: `StaticCopyCurrent`, the cache invariant of the static_cache run,
   for the hazard that a buffer update leaves the copy stale.

Two serial hazards (lines 344 and 142) have no property. The model issues
serials with `FreshSerial`, which never returns one still referenced. So no
fault in the manager could make Renderer9 skip a rebind there. The real
serial counter is outside src/ and gives the same guarantee. The hazard of
line 374 is covered: the manager itself chooses when to read the serial.

The thrashing case of the promotion hazard has no run. With `MixTypes`, or
with draws that alternate the restart workaround, the copy is invalidated
on every switch. The specification accepts this (4.3), so a run would show
a cost, not a disagreement.

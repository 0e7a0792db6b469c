------------------------- MODULE MC_IndexDataManager -------------------------
(***************************************************************************)
(* Model-checking instance of IndexDataManager: a D3D11 manager, one       *)
(* element buffer of 2 or 4 bytes, bytes of ByteBits = 1 bit (sentinels    *)
(* 1, 3 and 15 for the three index types), 8-bit unsigned ints and a      *)
(* 4-byte initial streaming buffer, so that streaming buffers both grow    *)
(* and wrap within a few draws.                                            *)
(***************************************************************************)
EXTENDS IndexDataManager

MCBufferSizes == {2, 4}
MCRestartModes == {FALSE, TRUE}
\* Failures of the backend that leave nothing half-written.
MCCleanFailures == {"getData", "reserve", "unmap"}
\* The failure that leaves state behind and is still drawn from correctly:
\* an unmap error after a complete write.
MCUnmapFailure == {"unmap"}
MCAllFailures == {"getData", "reserve", "map", "unmap"}
=============================================================================

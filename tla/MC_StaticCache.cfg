\* The static translation cache of one element buffer on D3D11: the buffer
\* is never bound directly, so every draw goes through the cache's
\* validity checks; backend failures leave nothing half-written.
CONSTANTS
    ByteBits = 1
    WordBits = 8
    InitialIndexBufferSize = 4
    NoType = NoType
    Undefined = Undefined
    NoBuffer = NoBuffer
    Cut = Cut
    RendererClass = "D3D11"
    BufferSizes <- MCBufferSizes
    MaxClientCount = 1
    RestartModes <- MCRestartModes
    ToggleRestart = FALSE
    MixTypes = FALSE
    Failures <- MCCleanFailures
    DirectBindingModes = {FALSE}
SPECIFICATION Spec
INVARIANT
    StaticCopyCurrent

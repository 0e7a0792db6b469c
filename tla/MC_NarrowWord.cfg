\* The core instance with 3-bit unsigned ints: UINT_MAX >> 2 is 1, so the
\* overflow refusal of StreamInIndexBuffer, the growth of a streaming buffer
\* past UINT_MAX and the static offset rescaling all meet their limits.
CONSTANTS
    ByteBits = 1
    WordBits = 3
    InitialIndexBufferSize = 4
    NoType = NoType
    Undefined = Undefined
    NoBuffer = NoBuffer
    Cut = Cut
    RendererClass = "D3D11"
    BufferSizes <- MCBufferSizes
    MaxClientCount = 1
    RestartModes <- MCRestartModes
    ToggleRestart = FALSE
    MixTypes = FALSE
    Failures <- MCCleanFailures
    DirectBindingModes = {FALSE, TRUE}
SPECIFICATION Spec
INVARIANT
    DescriptorWithinStorage

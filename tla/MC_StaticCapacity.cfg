\* The narrow-word instance, checking that only draws whose own indices
\* overflow unsigned int fail with a capacity error.
CONSTANTS
    ByteBits = 1
    WordBits = 3
    InitialIndexBufferSize = 4
    NoType = NoType
    Undefined = Undefined
    NoBuffer = NoBuffer
    Cut = Cut
    RendererClass = "D3D11"
    BufferSizes <- MCBufferSizes
    MaxClientCount = 1
    RestartModes <- MCRestartModes
    ToggleRestart = FALSE
    MixTypes = FALSE
    Failures <- MCCleanFailures
    DirectBindingModes = {FALSE, TRUE}
SPECIFICATION Spec
INVARIANT
    CapacityErrorOnlyForOverflowingDraw

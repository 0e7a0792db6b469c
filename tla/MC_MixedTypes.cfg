\* The core instance with an application that draws one buffer contents
\* with several index types (checked against DrawMatchesGL).
CONSTANTS
    ByteBits = 1
    WordBits = 8
    InitialIndexBufferSize = 4
    NoType = NoType
    Undefined = Undefined
    NoBuffer = NoBuffer
    Cut = Cut
    RendererClass = "D3D11"
    BufferSizes <- MCBufferSizes
    MaxClientCount = 1
    RestartModes <- MCRestartModes
    ToggleRestart = FALSE
    MixTypes = TRUE
    Failures <- MCCleanFailures
    DirectBindingModes = {FALSE, TRUE}
SPECIFICATION Spec
INVARIANT
    DrawMatchesGL

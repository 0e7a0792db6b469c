\* A D3D11 application that draws each buffer contents with one index type
\* and one restart mode, with backend failures that leave no partial state.
CONSTANTS
    ByteBits = 1
    WordBits = 8
    InitialIndexBufferSize = 4
    NoType = NoType
    Undefined = Undefined
    NoBuffer = NoBuffer
    Cut = Cut
    RendererClass = "D3D11"
    BufferSizes <- MCBufferSizes
    MaxClientCount = 1
    RestartModes <- MCRestartModes
    ToggleRestart = FALSE
    MixTypes = FALSE
    Failures <- MCCleanFailures
    DirectBindingModes = {FALSE, TRUE}
SPECIFICATION Spec
INVARIANTS
    TypeOK
    DrawMatchesGL
    DescriptorWithinStorage

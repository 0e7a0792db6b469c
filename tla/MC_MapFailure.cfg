\* The core instance with every backend call able to fail, mapBuffer
\* included (a failure after reserve that leaves state behind).
CONSTANTS
    ByteBits = 1
    WordBits = 8
    InitialIndexBufferSize = 4
    NoType = NoType
    Undefined = Undefined
    NoBuffer = NoBuffer
    Cut = Cut
    RendererClass = "D3D11"
    BufferSizes <- MCBufferSizes
    MaxClientCount = 1
    RestartModes <- MCRestartModes
    ToggleRestart = FALSE
    MixTypes = FALSE
    Failures <- MCAllFailures
    DirectBindingModes = {FALSE, TRUE}
SPECIFICATION Spec
INVARIANT
    DrawMatchesGL

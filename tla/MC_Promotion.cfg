\* Scenario D: the core instance with an application that keeps drawing its
\* buffer without modifying it, under the fairness of SteadySpec.
CONSTANTS
    ByteBits = 1
    WordBits = 8
    InitialIndexBufferSize = 4
    NoType = NoType
    Undefined = Undefined
    NoBuffer = NoBuffer
    Cut = Cut
    RendererClass = "D3D11"
    BufferSizes <- MCBufferSizes
    MaxClientCount = 1
    RestartModes <- MCRestartModes
    ToggleRestart = FALSE
    MixTypes = FALSE
    Failures <- MCCleanFailures
    DirectBindingModes = {FALSE, TRUE}
SPECIFICATION SteadySpec
\* The application stops drawing when no draw of its buffer meets the
\* caller contract (a 32-bit all-ones index without primitive restart).
CHECK_DEADLOCK FALSE
PROPERTY
    StaticCopyEventuallyUsed

\* A D3D9 manager (ES2: no fixed-index primitive restart; Buffer9 never
\* binds directly) behind Renderer9's serial check, with a 2-byte initial
\* streaming buffer so that streaming buffers are reallocated early.
CONSTANTS
    ByteBits = 1
    WordBits = 8
    InitialIndexBufferSize = 2
    NoType = NoType
    Undefined = Undefined
    NoBuffer = NoBuffer
    Cut = Cut
    RendererClass = "D3D9"
    BufferSizes = {2}
    MaxClientCount = 1
    RestartModes = {FALSE}
    ToggleRestart = FALSE
    MixTypes = FALSE
    Failures <- MCCleanFailures
    DirectBindingModes = {FALSE}
SPECIFICATION Spec
PROPERTY
    BoundIndexBufferCurrent

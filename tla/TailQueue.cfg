\* Safety, refinement and liveness; one second is 1 frame, a delivery has up to
\* 2; two chunks at most wait while the audio thread has a third, hence the cells.
CONSTANTS
    SampleRate = 1
    MaxFrames = 2
    MaxProduced = 6
    None = None
    Cell = {c1, c2, c3}
    Head0 = Head0
SPECIFICATION LSpec
INVARIANTS
    StreamIntact
    QlenExact
    BoundedBacklog
    NoLostWakeup
    ThreadsGoOn
    PointersRepresentQueue
PROPERTIES
    ImplementsStream
    FramesDrain
    CallsReturn

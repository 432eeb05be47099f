SPECIFICATION Spec
CONSTANTS
    MAX_FRAME_BODY_BYTES = 12
    Bodies <- MCBodies
    Noise <- MCNoise
    MaxFrames = 3
    MaxFaults = 2
INVARIANTS
    FramesRecovered
PROPERTIES
    BufferDrains
CHECK_DEADLOCK FALSE

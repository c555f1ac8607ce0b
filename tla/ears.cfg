SPECIFICATION EarsSpec
CONSTANTS
    MinSpeechFrames = 1
    SilenceFramesToStop = 1
    MaxRecordingFrames = 2
    WireCap = 1
    MaxConns = 2
    MaxPresses = 1
    MaxPhrases = 2
INVARIANT NotCutShort
INVARIANT LiveConnectionKept
PROPERTY NoSpuriousCapture
PROPERTY CaptureEnds
CHECK_DEADLOCK FALSE

SPECIFICATION Spec
CHECK_DEADLOCK FALSE
CONSTANTS
 CONST_MAX_JITTER_MS = 2
 DEFAULT_FRAME_TIME_MS = 1
 Player = {p1}
 Forwarder = {}
 Published = {"meta", "vsh", "ash", "key", "inter"}
 Steps = {0, 2}
 BackSteps = {}
 HeaderOnce = TRUE
 AtcModes = {TRUE}
 QueueSizes = {3, 9}
 SampleRate = 3000
 FrameRate = 2
 Reloads = TRUE
 MaxEvents = 5
INVARIANTS TypeOK PlayersCanDecode GopIsOneGroup FramesFollowTheirPast

SPECIFICATION Spec
CHECK_DEADLOCK FALSE
CONSTANTS
 CONST_MAX_JITTER_MS = 2
 DEFAULT_FRAME_TIME_MS = 1
 Player = {p1}
 Forwarder = {}
 Published = {"meta", "audio"}
 Steps = {1, 2}
 BackSteps = {}
 HeaderOnce = TRUE
 AtcModes = {FALSE}
 QueueSizes = {3}
 SampleRate = 3000
 FrameRate = 2
 Reloads = FALSE
 MaxEvents = 9
PROPERTIES DropsOnlyIfFull

SPECIFICATION Spec
CHECK_DEADLOCK FALSE
CONSTANTS
 CONST_MAX_JITTER_MS = 2
 DEFAULT_FRAME_TIME_MS = 1
 Player = {p1}
 Forwarder = {f1}
 Published = {"meta", "audio", "key", "inter"}
 Steps = {1, 5}
 BackSteps = {2}
 HeaderOnce = TRUE
 AtcModes = {FALSE}
 QueueSizes = {3}
 SampleRate = 3000
 FrameRate = 2
 Reloads = FALSE
 MaxEvents = 5
INVARIANTS TimesAreSmooth EnqueueIsShrinkLoop

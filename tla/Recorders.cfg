SPECIFICATION Spec
CHECK_DEADLOCK FALSE
CONSTANTS
  HlsSecond = 2
  HlsFragment = 1
  HlsWindow = 1
  DvrDuration = 3
  Vhosts <- MCVhosts
  Replaces = {TRUE, FALSE}
  Steps = {0, 3}
  MaxClock <- MCMaxClock
  MaxSessions = 2
  MaxReloads = 1
  MaxFaults = 1
INVARIANTS TypeOK EnabledHasFile NumbersAreSuccessive PlaylistIsServed DiscontinuitiesAreMarked RecordersFollowPublisher RecordingsAreKept

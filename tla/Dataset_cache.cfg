CONSTANTS
  None = None
  LevelMajor = {"bid_px"}
  OtherArray = {"snap_ts"}
  Slug = {"archive", "archive-synth"}
  MaxLength = 2
  MaxKills = 1
SPECIFICATION Spec
INVARIANT LoadedIsTheArchive
CHECK_DEADLOCK FALSE

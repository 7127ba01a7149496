\* What dkc2_game.c says of a level's start, against a state loaded on the map.
CONSTANTS
  Levels <- CliffLevel
  Bounded = "map"
  MaximumScroll <- CliffScroll
  EmptyColumns <- CliffColumns
  Extra <- SmallExtras
  Policies = {"glide"}
  Origin = 1
  Metatile = 2
  GlideSpan = 2
  SettleFrames = 2
  HoldStartFrames = 3
  MaxTravel = 2
  MaxLag = 1
SPECIFICATION MCWideSpec
PROPERTY LevelStartHolds

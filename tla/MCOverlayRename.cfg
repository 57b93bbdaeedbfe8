CONSTANTS
  OvPaths <- TwoDirs
  OvFiles <- TheFiles
  OvLowers <- OneLayer
  OvValues = {"v"}
  MAX_SNAPSHOT_DEPTH = 1
  MaxContent = 2
SPECIFICATION OverlaySpec
PROPERTY RenameLosesNothing

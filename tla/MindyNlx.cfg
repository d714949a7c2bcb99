SPECIFICATION NlxSpec
CONSTANTS
  Blocks = {b1, b2, b3}
  Cleanups = {k1, k2}
  Handlers = {h1, h2}
  NoBlock = NoBlock
  MaxFrames = 5
INVARIANTS ChainsFollowStack ValidWhileOnStack HandlersFollowStack
PROPERTIES CleanupsRun
CHECK_DEADLOCK FALSE

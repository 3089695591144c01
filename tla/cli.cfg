CONSTANTS
  ls = ls
  su = su
  fix = fix
  null = null
  x = x
  y = y
  z = z
  NoState = NoState
  Blank = Blank
  NoCmd = NoCmd
  Commands = {ls, su, fix, null}
  Legacy = {ls, fix}
  Bare = {null}
  OwnBuffer = {fix}
  Vars = {x, y, z}
  Values <- MCValues
  Lines <- MCLines
  AutoCmds <- MCAutoCmds
  CLI_MPOOL_COUNT = 5
SPECIFICATION CliFairSpec
INVARIANTS BlocksAreOwned PromptHoldsNothing NeverOutOfBlocks
PROPERTIES RunsTheCommandLine PromptReturns

CONSTANTS
  Chars = {"a", "b"}
  Null = "nul"
  Blank = " "
  CMD_LINE_BUF_SIZE = 4
  HISTORY_MAX = 2
  MaxLine = 3
SPECIFICATION LineSpec
INVARIANT TerminalShowsLine
PROPERTIES LineIsAnEditor

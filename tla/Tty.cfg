SPECIFICATION MCSpec
CONSTANTS
  Reader = {r1, r2}
  Looker = {r2}
  Writer = {w1, w2}
  Sems = {"tyisem", "tyosem"}
  SYSERR = SYSERR
  TY_IBUFLEN = 3
  TY_OBUFLEN = 2
  TY_EBUFLEN = 3
  UART_FIFO_SIZE = 2
  Typable = {"x", "newline", "return", "eof", "kill", "erase", "stop", "start"}
  Texts <- MCTexts
  Counts = {0, 2}
  Modes = {"raw", "cooked", "cbreak"}
  Echoes = {TRUE, FALSE}
INVARIANT
  OutputInOrder
PROPERTIES
  TtyIsLine
  OutputNeverStalls

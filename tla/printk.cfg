SPECIFICATION Spec
CONSTANTS
  MAX_PUTCHAR = 2
  Callbacks = {uart, sbi, fb}
  NoCallback = none
  BUF_LEN = 3
  PTR_BYTES = 1
  Junk <- MCJunk
  Calls <- MCCalls
INVARIANTS PrintkTypeOK NoDuplicates
PROPERTIES FormattedOutput PrintfReturns

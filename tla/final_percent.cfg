SPECIFICATION Spec
CONSTANTS
  MAX_PUTCHAR = 2
  Callbacks = {uart, sbi}
  NoCallback = none
  BUF_LEN = 3
  PTR_BYTES = 1
  Junk <- MCJunk
  Calls <- PercentCalls

PROPERTY FormattedOutput

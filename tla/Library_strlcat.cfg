SPECIFICATION LibrarySpec
CONSTANTS
  NULL = NULL
  STAR = STAR
  Top = 6
  Byte = {1, 2}
  Content <- Distinct
  Delimiters = 4
  bits <- Bits
  sizeof_buf = 10
  ELEM_BITS = 2
  BitCnt = 5
  BITMAP_ERROR = BITMAP_ERROR
CHECK_DEADLOCK FALSE
INVARIANT NullAlwaysWritten

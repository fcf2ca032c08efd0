\* A usize of four bits: slices of up to 7 bytes, chunk sizes from 0 to 15. The bytes have
\* different digits, two of them letters.
SPECIFICATION Spec
CONSTANTS
  UsizeMax = 15
  Bytes = {10, 240}
  MaxLen = 7
INVARIANTS TypeOK NoOverflow OutIsHex
PROPERTIES Ends
\* The conversion returned.
CHECK_DEADLOCK FALSE

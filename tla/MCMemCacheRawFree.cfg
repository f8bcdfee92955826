\* One namespace, one message.
CONSTANTS
  Namespace = {nsIo}
  Addr = {a1}
  Ref = {p}
  NoAddr = NoAddr
  MaxAllocs = 1
  MaxCount = 0
SPECIFICATION SpecRaw
INVARIANT NothingFreedTwice
CHECK_DEADLOCK FALSE

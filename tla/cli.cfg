CONSTANTS
  Names = {a, b}
  Default = enp5s0
  Empty = empty
  Option = bpf
  Embedded = embedded
  Null = null
  MaxArgs = 5
SPECIFICATION Spec
CHECK_DEADLOCK FALSE
INVARIANTS
  TypeOK
  UsageIsUnderstood
  SameCommandLine

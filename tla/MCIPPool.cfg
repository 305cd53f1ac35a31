\* A /29 at the very end of a 16-address space, the gateway on its first host.
CONSTANTS
  Word = 16
  Base = 8
  Size = 8
  Gateway = 9
SPECIFICATION MCSpec
PROPERTIES
  NoImmediateReuse
  AbstractSpec

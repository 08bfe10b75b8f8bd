SPECIFICATION Spec
CONSTANTS
  Addr = {1, 2}
  Data = {1, 2}
  Ram = {1}
  Readable = {2}
  Writable = {1}
INVARIANTS
  OneAtATime
PROPERTIES
  OffersStay
  ImplementsPort
  TransferEnds

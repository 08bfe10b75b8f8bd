SPECIFICATION Spec
CONSTANTS
  Configs <- SafetyConfigs
  NHalf = 6
  JumpTargets = {0, 1, 4}
  DataAddrs = {2, 3}
  PROGADDR_RESET = 0
  PROGADDR_IRQ = 2
  Irqs = {1, 2}
  irq_timer = 1
  irq_ebreak = 1
  irq_buserror = 1
  ExtIrqs = {2}
  MASKED_IRQ = {}
  LATCHED_IRQ = {1, 2}
  MaxTimer = 4
  MaxShift = 4
  MaxTimeout = 3
INVARIANTS
  TypeOK
  InterfaceState
  LaunchCoherent
  ExecuteCoherent
  ParallelCase
  HandlerHasWork
  ReturnAddress
  PcpiBudget
PROPERTIES
  ImplementsMaster
  LookAhead
  DataOnce
  CompareSettled
  ImplementsISA

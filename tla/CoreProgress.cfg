SPECIFICATION FairSpec
CONSTANTS
  Configs <- ProgressConfigs
  NHalf = 4
  JumpTargets = {0, 2}
  DataAddrs = {2}
  PROGADDR_RESET = 0
  PROGADDR_IRQ = 2
  Irqs = {1, 2}
  irq_timer = 1
  irq_ebreak = 1
  irq_buserror = 1
  ExtIrqs = {2}
  MASKED_IRQ = {}
  LATCHED_IRQ = {1, 2}
  MaxTimer = 0
  MaxShift = 4
  MaxTimeout = 2
PROPERTIES
  InstructionFinishes
  InterruptServed

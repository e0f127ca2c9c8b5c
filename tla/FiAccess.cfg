SPECIFICATION Spec
CONSTANTS
  process = process
  interrupt = interrupt
  command = command
  event = event
  Contexts = {process, interrupt}
  Above <- MCAbove
  Sites = {command, event}
  Access <- MCAccess
  By <- MCBy
  Region <- MCRegion
  Max = 1
  None = None
  Admin = Admin
INVARIANTS TypeOK Recorded NoDeadlock
PROPERTIES WholeMasks

SPECIFICATION Spec
CONSTANTS
  d1 = d1
  d2 = d2
  d3 = d3
  irq1 = irq1
  irq2 = irq2
  None = None
  Drivers = {d1, d2, d3}
  Irqs = {irq1, irq2}
  Line <- OwnAndShared
INVARIANTS TypeOK NullCallIsARace RightDevice
PROPERTY KeepsContract

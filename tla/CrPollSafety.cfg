SPECIFICATION Spec
CONSTANTS
  page1 = page1
  Irqs = {i1, i2}
  Pages = {page1}
  HandlerPage <- MCHandlerPage
  MaxFreq = 1
  MaxUnproductive = 1
  DefaultLen = 2
  HZ = 4
  MaxDepth = 1
INVARIANTS TypeOK CounterBounded
PROPERTIES PollOnlyAfterSilence

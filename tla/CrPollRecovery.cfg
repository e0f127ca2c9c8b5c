SPECIFICATION FairSpec
CONSTANTS
  page1 = page1
  Irqs = {i1, i2}
  Pages = {page1}
  HandlerPage <- MCHandlerPage
  MaxFreq = 1
  MaxUnproductive = 1
  DefaultLen = 1
  HZ = 2
  MaxDepth = 0
PROPERTIES SilenceIsPolled PollingDiesDown

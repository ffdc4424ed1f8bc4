SPECIFICATION SwapSpec
CONSTANTS
  NFRAMES = 4
  NVPAGES = 5
  MAXFAULTS = 10
INVARIANTS
  PagesKeepContents

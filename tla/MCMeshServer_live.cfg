CONSTANTS
  d1 = d1
  d2 = d2
  Downloaders = {d1}
SPECIFICATION FairSpec
PROPERTIES
  DownloadReturns

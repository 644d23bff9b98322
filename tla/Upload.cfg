\* Servers with and without posix-rename, every kind of fault.
SPECIFICATION FairUploadSpec
CONSTANTS
  Size = 3
  Missing = Missing
  Servers <- AllServers
  MaxFaults = 4
INVARIANTS ReceiptIsTrue
PROPERTIES KeepsIntactPrefix Uploads

------------------------ MODULE MCResumableDownload ------------------------
\* Settings of the download for TLC.
EXTENDS ResumableDownload

Setting(callers, kinds, max) ==
  [callers |-> callers, faults |-> kinds, max |-> max]

CONSTANTS c1, c2

\* One caller under every fault, one on a network that only fails, and two
\* callers of one file, a job and a command, on such a network.
AllSettings ==
  {Setting({c1}, FaultKinds, 4),
   Setting({c1}, NetworkFaults, 4),
   Setting({c1, c2}, {"norange", "badrange", "break"}, 1)}
=============================================================================

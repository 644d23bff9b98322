------------------------- MODULE MCResumableUpload -------------------------
\* Servers of the upload for TLC.
EXTENDS ResumableUpload

Server(renames, kinds) == [renames |-> renames, faults |-> kinds]

\* With posix-rename under every fault; without it, or with a rename that
\* fails now and then, on connections that only go; and the worst of both.
AllServers ==
  {Server({"posix"}, {"lost", "torn", "digest"}),
   Server({"posix", "fallback"}, {"lost", "torn"}),
   Server({"fallback"}, {"lost", "torn", "digest"})}
=============================================================================

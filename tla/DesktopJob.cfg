\* The desktop runs the job: threads, requests and a crash of the application; without
\* one, what the desktop starts it ends.
SPECIFICATION FairSpec
CONSTANTS
  NumSources = 1
  NumArtifacts = 2
  Desktop = {d1, d2}
  CommandLine = {}
  Users = {u1, u2}
  MaxCrashes = 1
  Plans <- AllPlans
INVARIANTS
  CompletedIsDeployable
  PausedIsQuiescent
PROPERTIES
  ActiveEnds

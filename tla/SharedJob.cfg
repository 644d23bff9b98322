\* The desktop and a command line run the same job and crash at any point.
SPECIFICATION Spec
CONSTANTS
  NumSources = 2
  NumArtifacts = 1
  Desktop = {d1}
  CommandLine = {c1}
  Users = {u1}
  MaxCrashes = 1
  Plans <- UploadPlans
INVARIANTS
  CommittedRowIsOnServer
  NoSourceLost
  CompletedIsUploaded

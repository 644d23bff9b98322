\* One server, two hosts: requests and commands overlap, hosts change, the program dies.
SPECIFICATION Spec
CONSTANTS
  Endpoints = {e1, e2}
  Jobs = {j1}
  Threads <- MCThreads
  MaxCalls = 3
SYMMETRY Alike
INVARIANTS
  ProfileIsCoherent
  TableIsTrue
CHECK_DEADLOCK FALSE

CONSTANTS
  a1 = a1
  r1 = r1
  r2 = r2
  Artifacts = {a1}
  Requests = {r1, r2}
  ArtifactOf <- SharedArtifact
  Unknown = {r2}
  Poller = poller
  Hooks = {h1}
  NoJob = NoJob
  NoRequest = NoRequest
  MaxJobs = 2
  Faults = {"crash", "error", "withdrawn", "recover"}
  MaxFaults = 1
  MaxByHand = 1
SPECIFICATION Spec
INVARIANTS
  OneJobPerRequest
  CancelInTimeHonoured
  ReportedIsMade
  GeneratingIsAlive
PROPERTIES
  GenerationEnds

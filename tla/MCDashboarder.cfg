SPECIFICATION FairSpec
CONSTANTS
  project = project
  metered1 = metered1
  metered2 = metered2
  plain = plain
  Resource <- MCResource
  Project = {project}
  Metered = {metered1, metered2}
  MaxFaults = 2
INVARIANT TypeOK
PROPERTY NoLiveDashboardDeleted
PROPERTY Converges

SPECIFICATION FairSpec
CONSTANTS
  Providers <- MCProviders
  Rank <- MCRank
  Revisions <- MCRevisions
  Checkable = {"sops"}
  Synthetic <- MCSynthetic
  UserFiles <- MCUserFiles
  Percent = 30
  None = None
  MaxChanges = 1
  MaxRequests = 1
  MaxMishaps = 1
INVARIANTS WrittenIsWhole ForceUsedOnce
PROPERTIES UserFilesKept   SourcesReachFile KeysReachHomeAssistant
CHECK_DEADLOCK TRUE

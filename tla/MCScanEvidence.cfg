SPECIFICATION Spec
CONSTANTS
  Targets <- MCTargets
  Urls <- MCUrls
  AudioOf <- MCAudioOf
  Strong <- MCStrong
  Weak <- MCWeak
  Fits <- MCFits
  Catalog <- MCCatalog
  ShortlistLimit = 2
  ValidationBudget = 1
  DetailBudget = 1
  None = None
  MaxEvents = 2
INVARIANTS InventoryIsSeen OneAudio
PROPERTIES WholeEvidence StaleIsStopped

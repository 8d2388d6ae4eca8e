SPECIFICATION FairSpec
CONSTANTS
  Titles <- MCTitles
  Key <- MCKey
  Urls <- MCUrls
  Valid <- MCUrls
  Norm <- MCNorm
  Part <- MCPart
  Episodes <- MCEpisodes
  Info <- MCInfo
  Standard = {2}
  Tagged = {2}
  Listed <- MCListed
  Length <- MCLength
  FoundUrls = {4}
  Preferences <- MCPreferences
  StartTables <- MCStartTables
  StartSettings <- MCStartSettings
  StartMissing <- MCStartMissing
  PageSize = 2
  NoFile = NoFile
  MaxErrors = 1
  MaxOps = 1
INVARIANTS SwitchStopsWithinOne AnnouncedIsDone RightSource
PROPERTIES WantedIsDelivered

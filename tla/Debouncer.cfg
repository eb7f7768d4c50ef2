SPECIFICATION Spec
CONSTANTS
  Classes = {0, 1, 2}
  Normal = 0
  Confidences = {59, 60}
  MinConf = 60
  Required = 2
  MaxWindows = 6
INVARIANTS
  TypeOK
  EpisodeConfirmed
  OneAlertPerEpisode
  NoMissedEpisode
PROPERTY
  ImplementsAlertSpec

SPECIFICATION ReleaseSpec
CONSTANTS
  Column <- MCColumn
  ProfileOf <- MCProfileOf
  Elev <- MCElev
  Slope <- MCSlope
  Crossing <- MCCrossing
  Edges <- MCEdges
  Warm = 1
  Lead <- MCLead
  Margin <- MCMargin
  Durations <- MCDurations
  Lags <- MCLags
  Downhill = 1
  Uphill = 2
  Horizons <- MCHorizons
  MaxSeeds = 2
  ValColumns = 2
  MinPos = 2
  Tries = 2
  MaxNeighbours = 2
  Hours = 5
  Context = 2
  Periods = 2
  Epochs = 2
  GraphEpochs = 1
  BatchSize = 2
  Loss = {1, 2}
  NaN = NaN
  Score <- MCScore
  ValSamples <- MCValSamples
  TrainSamples <- MCTrainSamples
  MinPositives = 2
  RecallNum = 2
  RecallDen = 3
  MaxAborts = 1
  Version = {"v1", "v2"}
  FirstVersion = "v1"
  PreferInt8 = TRUE
  MaxFaults = 2
INVARIANTS RegistryTypeOK CurrentCanBeLoaded SamplesAreObserved CorpusIsSound GraphStagesAgree ReleaseIsCoherent ThresholdsAreSound
PROPERTY ServiceImplemented

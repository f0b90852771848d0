SPECIFICATION FairSpec
CONSTANTS
  Null = Null
  Inputs <- AllInputs
  MaxInputs = 3
INVARIANTS TypeOK QueueIsSound ShownIsStored PictureIsTheOneWanted RunsOnWhatItWasMadeFor
PROPERTIES LineSpec BusyEnds
CHECK_DEADLOCK FALSE

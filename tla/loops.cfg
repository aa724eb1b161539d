CONSTANTS
  D = 2
  K = 3
  Count = {0, 2}
  Label = {a}
  NoLabel = NoLabel
  Kinds = {"loop", "repeat", "list"}
SPECIFICATION FairSpec
INVARIANTS
  IteratorValid
  NothingTwice
  NothingSkipped
PROPERTIES
  StepsTowardsTheEnd
  LoopsEnd

SPECIFICATION Spec
CONSTANTS
  Addresses <- Headers
  SizeOf <- SizesOf
INVARIANTS ListInv CountersMatch
PROPERTIES KeepsPromise LoopsEnd WalkShortens

SPECIFICATION FairSpec
CONSTANTS
  Input = {"a", "b"}
  Command <- Commands
  MaxWire = 1
INVARIANTS TypeOK InputsFaithful OutputFollows
PROPERTY SettledIsPublished

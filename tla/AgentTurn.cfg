SPECIFICATION FairTurnSpec
CONSTANTS
  Agents = {"clerk", "scout", "payer"}
  Tools = {"search", "fetch", "count", "charge"}
  Schema <- MCSchema
  Offered <- MCOffered
  Names = {"scout"}
  MaxTurns = 2
  MaxMessages = 20
INVARIANTS
  EachToolOncePerTurn
  PromptGetsText
PROPERTIES
  EveryTurnEnds

SPECIFICATION FairSpec
CONSTANTS
  Setups <- MCSetups
  Paths = {"config.json", "export.json"}
  DefaultPath = "config.json"
  Contents <- MCContents
  Environments <- MCEnvironments
  Answers <- MCAnswers
  Ports <- MCPorts
  Words <- MCWords
  Sni <- MCSni
  Ids <- MCIds
  Proxies <- MCProxies
  TypedKeys <- MCTypedKeys
  DeploymentIds = {"A", "B"}
  HexKeys = {"hex"}
  SpacedKeys = {"spaced"}
  MaxEdits = 2
  Text <- MCText
INVARIANTS TypeOK LoadedIsValid SavedReloads PidfileHonest
PROPERTIES PathFollowsConfig StopsWhenTold
CHECK_DEADLOCK FALSE

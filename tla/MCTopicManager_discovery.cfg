\* Discovery of one topic beside one that the configuration names repeatedly.
SPECIFICATION FairSpec
CONSTANTS
  c = c
  t = t
  Topic <- MCTopic
  Config <- MCConfig
  Discovery = TRUE
  MaxNodes = 1
INVARIANTS
  TypeOK
  OneTaskPerTopic
  ConfigurationWins
PROPERTIES
  DecidedByTheGraph
  DiscoveredEventually

SPECIFICATION NamesSpec
CONSTANTS
  Subjects = {"aliases"}
  AnyVerb = AnyVerb
  Rules <- MCRules
  AliasNames <- MCAliasNames
  Reserved <- MCReserved
  NotIris <- MCNotIris
  Arguments = {"q", "r"}
  MaxHops = 3
  MaxRules = 3
  MaxCount = 1
  Doors <- MCDoors
  Iris <- MCIris
  Offerings <- MCOfferings
  Streams <- MCStreams
  Queries <- MCQueries
  Conversions <- MCConversions
  Axioms <- MCAxioms
  Classes <- MCClasses
  ProbeOf <- MCProbeOf
  MaxForwards = 2
  Canonical <- MCCanonical
  Untyped = "Untyped"
  NoValue = NoValue
  Segments <- MCSegments
  Texts <- MCTexts
  Trees <- MCTrees
  Height <- MCHeight
  Tallest <- MCTallest
  LevelOf <- MCLevelOf
  CoreSeals <- MCCoreSeals
  RootOf <- MCRootOf
  CorridorOf <- MCCorridorOf
  ConfinedTo <- MCConfinedTo
  HostSeals <- MCHostSeals
  Asked <- MCAsked
  Who = {a, b}
  MaxInjected <- MCMaxInjected
  MaxAnonymous = 1
  Contracts <- MCContracts
  ArgNames <- MCArgNames
  ArgValues <- MCValues
  Numerals = {"1"}
  MaxGiven = 2
  NoDefault = NoDefault
  NoMatch = NoMatch
  Standby = Standby
  a = a  b = b
  Targets = {1, 2, 3, 4}
  Named = 2
  MaxEntries = 6
INVARIANT BudgetIsFollowed
CHECK_DEADLOCK FALSE

SPECIFICATION Spec
CONSTANTS
  BoolSym = {"A", "B", "K"}
  TriSym = {"T"}
  Modules = "B"
  ChoiceSyms = {"K"}
  OptionalChoices = {}
  Configs <- MCConfigs
  IfConditions <- MCIfs
  Visibilities <- MCIfs
  MaxEntries = 3
  ReadConditions <- MCConditions
  ParentConditions <- MCParents
  Graphs <- MCGraphs
  MenuItems = 4
  MenuHeights = {2, 3}
  ListItems = 5
  ListHeights = {1, 2, 3}
  Chars = {1, 2}
  MaxLen = 4
  Widths = {1, 2, 3}
  Texts <- MCTexts
  TextHeights = {1, 2, 3}
  JumpKeys = 1
  MaxHscroll = 1
  NcMenus <- MCNcMenus
  NcChoices <- MCNcChoices
  NcHeights = {2, 3}
  Letters = {"a", "b"}
  MaxPattern = 2
  MaxDepth = 2
  Values = {3}
  NcChars = {1, 2}
  NcMaxLen = 2
  NcWidths = {1, 2}
  NcTexts <- MCNcTexts
  NcLines = {3}
  NcColumns = {3}
  ArgLists <- MCArgs
  Toolchains <- MCToolchains
  MaxArgs = 17
  Tables <- MCTables
  Targets <- MCTargets
  Ids <- MCIds
  Xattrs = TRUE
  FieldMax = 8
  Word = 16
  MaxErrors = 1
INVARIANTS TreeIsWhole ConditionsAddUp ConditionIsKept CyclesAreTold ListShowsChoice WrapperIsRight ExitTellsOfTable
PROPERTIES MenuIsTrue InputIsShown TextIsShown ListIsTrue DialogsAreTrue OnlyWhatTableNames
CHECK_DEADLOCK FALSE

SPECIFICATION FairSpec
CONSTANTS
    Commands <- MCCommands
    Declared <- MCDeclared
    Steps <- MCSteps
    NArgs <- MCNArgs
    FirstWords <- MCWords
    NoWord = "other"
    MaxFlags = 2
    ActsFirst <- MCActsFirst
    PrintsFew <- MCPrintsFew
    Ignores <- MCIgnores
    Unchecked <- MCUnchecked
    Undeclared <- MCUndeclared
    Tools <- MCTools
    ToolSteps <- MCToolSteps
    Promised <- MCPromised
    Switches <- MCSwitches
    Modes <- MCModes
    ArgNames <- MCArgNames
    Typed <- MCTyped
    SplitsFirst <- MCSplitsFirst
    DropsAWord <- MCDropsAWord
    Leaves <- MCLeaves
    None = None
INVARIANTS
    JTypeOK
    EveryCommandCanBeRun
    ReadFlagsAreDeclared
    RefusedUntouched
    GivenFlagsCount
    AcceptedIsValid
    CommandAsTyped
    ArgsReachTool
    OnlyEmptyPanics
    AliasRunsItsTool
PROPERTY
    EveryRunEnds

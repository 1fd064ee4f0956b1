\* Four shapes of a model on two ranks; two models and one target; three
\* deployments; texts of six units; texts of three pieces of tags;
\* two workloads of one tag with two pods each; every image of EngineImages.
CONSTANTS
    Shapes <- MCShapes
    MaxSize = 14
    MaxDeaths = 2
    Models = {1, 2}
    Targets = {1}
    Frags = {11, 12}
    MaxDown = 1
    MaxFaults = 2
    MaxDeploys = 3
    MaxKills = 3
    Words = {1, 2, 3}
    Bar = 0
    Ends <- MCEnds
    GramN = 2
    MaxCount = 4
    ScaleTokens = 6
    MinRatio = 50
    Window = 4
    MinPattern = 1
    PatternStep = 1
    MinReps = 3
    StagWindow = 3
    StagPercent = 85
    MinTokens = 3
    CheckEvery = 2
    Slack = 1
    Said <- MCSaid
    MaxUnits <- MCMaxUnits
    StartTag <- MCStartTag
    EndTag <- MCEndTag
    Texts <- MCTexts
    MaxChunk = 3
    Fields = TRUE
    Jobs = 2
    Pods = 2
    Platforms = {1, 2}
    MaxAttempts = 2
    MaxPushes = 1
    MaxMoves = 1
    MaxFailures = 1
    Patches <- MCPatchOrder
    Engines <- Images
    Shipped <- FilesOf
    Settings <- SettingsOf
    Unusable <- UnusableIn
    Clean <- CleanImages
    GuardedImports <- AskedImports
    PlainImports <- OtherImports
SPECIFICATION ToolsSpec
INVARIANTS ToolsTypeOK ShardsWhole PreloadSound OneRunServed GuardSound SplitSound VerdictsHold PatchesHold
PROPERTIES SecondRunIsQuiet AllOrNothing
CHECK_DEADLOCK FALSE

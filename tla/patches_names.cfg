CONSTANTS
    Patches <- AllPatches
    Engines <- Images
    Shipped <- FilesOf
    Settings <- SettingsOf
    Unusable <- UnusableIn
    Clean <- CleanImages
    GuardedImports <- AskedImports
    PlainImports <- OtherImports
SPECIFICATION PatchSpec
INVARIANT DegradesToUnpatched
CHECK_DEADLOCK FALSE

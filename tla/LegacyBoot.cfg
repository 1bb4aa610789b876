SPECIFICATION Spec
CONSTANTS
    Images <- MCImages
    MaxTries = 2
    Services <- MCServices
    NetModes = {"dhcp", "static"}
    MaxLive = 2
    Lines <- MCLines
    PipeSize = 1
    Output = 3
    Programs <- MCPrograms
    MaxVars = 2
    Scripts <- MCScripts
    Outcome <- ScriptOutcome
    NoScript <- EmptyScript
INVARIANTS OneInstance AtMostOneAfterStop PipelineStatus ScriptExact
PROPERTIES InitSupervises ServiceRestarted SessionAvailable PipelineEnds
CHECK_DEADLOCK FALSE

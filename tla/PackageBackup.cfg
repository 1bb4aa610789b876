SPECIFICATION Spec
CONSTANTS
    usr = usr lib = lib passwd = passwd shadow = shadow
    edit = edit tool = tool rogue = rogue odd = odd forged = forged
    Absent = Absent Old = Old Torn = Torn Untouched = Untouched NoList = NoList
    Files = {usr, lib, passwd, shadow}
    Critical = {passwd, shadow}
    Initial <- MCInitial
    Packages = {edit, tool, rogue, odd, forged}
    Sound = {edit, tool, rogue, odd}
    Manifest <- MCManifest
    Plain <- MCPlain
    Ids = {11}
    Procs = {"p", "q"}
    Settings <- BackupSettings
PROPERTY FailureRestores

SPECIFICATION SessionSpec
CONSTANTS
    Paths = {"/bin/hello", "/sbin/init", "/bin/mantle-shell", "/bin/mantle"}
    MaxFds = 5
    Hello = "/bin/hello"
    SbinInit = "/sbin/init"
    Shell = "/bin/mantle-shell"
    Mantle = "/bin/mantle"
    Lines = {"", "exit", "pwd", "ls", "uname", "hello", "other"}
    Machines <- GoodMachines
INVARIANT ExecErrorReachesCaller
CHECK_DEADLOCK FALSE

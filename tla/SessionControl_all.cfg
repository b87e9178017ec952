\* A Postgres session or an SSH session of two channels, an administrator in the
\* gateway's process and one in the API's, three requests, two commands.
SPECIFICATION FairSpec
CONSTANTS
    pg = pg
    ssh1 = ssh1
    ssh2 = ssh2
    gw = gw
    api = api
    Loops = {pg}
    Execs = {ssh1, ssh2}
    Admins = {gw, api}
    Local = {gw}
    MaxRetries = 2
    MaxOps = 3
    MaxCommands = 2
CHECK_DEADLOCK FALSE
INVARIANTS
    AuditMatchesRow
    CommandTrail
    PauseLeaksAtMostOne
PROPERTIES
    GateConverges
    EndedRowSevers

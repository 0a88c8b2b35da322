CONSTANTS
    Launches <- MCLaunches
SPECIFICATION Spec
 
INVARIANT WatchdogOnlyAfterValidToken
PROPERTY ManagementBeatsForever
\* A missing --tenant makes runWatchdog throw and the process exit, and a
\* gateway that never passes its healthcheck leaves the watchdog unstarted.
CHECK_DEADLOCK FALSE

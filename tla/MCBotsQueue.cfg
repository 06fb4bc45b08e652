\* Two admin announcements, one oracle flag, the Discord fanout and one
\* restart.  Once everything is sent nothing is left to do.
CONSTANTS
    a1 = a1
    a2 = a2
    f1 = f1
    NoItem = NoItem
    Announcements = {a1, a2}
    Alerts <- MCAlerts
    MaxCrashes = 1
SPECIFICATION Spec
INVARIANT NoLostAnnouncement
CHECK_DEADLOCK FALSE

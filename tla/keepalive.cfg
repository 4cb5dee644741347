SPECIFICATION Spec
CONSTANTS
    Interval = 3
    Timeout = 6
    Rtt = 2
 
INVARIANT SilenceNoticed
PROPERTY NoFalseAlarm
PROPERTY SessionSettles
PROPERTY OutageOutlivesReconnect

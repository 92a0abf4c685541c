SPECIFICATION WakeFairSpec
INVARIANTS KeepAliveArmed QuietSleep
PROPERTY WakesUp

SPECIFICATION Spec
INVARIANTS UdpCompletedWhenAllEnded
CHECK_DEADLOCK FALSE

SPECIFICATION Spec
PROPERTIES SingleTriggerEnds
CHECK_DEADLOCK FALSE

SPECIFICATION MCSpec
PROPERTIES TrafficPasses SilenceNoticed RequestsServed
CHECK_DEADLOCK FALSE

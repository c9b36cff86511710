SPECIFICATION Spec
PROPERTIES SelfRegistrationRoutes
CHECK_DEADLOCK FALSE

SPECIFICATION Spec
INVARIANTS WaitsetNoLostWakeup PointerMessagesWhole ReducerReports
           LocksHold LockFreeSound TriggerReportsExact SocketReplies
           ErrorsReportAsAnnounced PoliciesCompose ChunkLayoutSound
           StopJoins SessionsCounted ProxyThrottled
PROPERTIES WaitsetStoppedIsQuiet PointerMessagesArrive DemosEnd
CHECK_DEADLOCK FALSE

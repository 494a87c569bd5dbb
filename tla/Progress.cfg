SPECIFICATION Spec
CONSTANTS
  NoBundle = NoBundle
  NoPolicy = NoPolicy
  Garbage = Garbage
  NoEvent = NoEvent
PROPERTIES
  AgentsConverge
  EventsDelivered
  FilesExpire
  ChangesReported
  BundlesArrive
  MailIsSettled
CHECK_DEADLOCK FALSE

\* Three jobs of two deliveries each among three workers; every request may fail.
CONSTANTS
  Workers <- Machines
  Env <- Environment
  Once = {"once"}
  Jobs = {"lifecycle", "unleased", "controlled"}
  Payload <- Sent
  Outputs <- Runs
  MaxDeliveries = 2
SPECIFICATION Spec
INVARIANTS
  TypeOK
  AnswerOfLastLease
PROPERTIES
  KeepsContract
  JobsSettle
CHECK_DEADLOCK FALSE

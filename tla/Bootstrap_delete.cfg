CONSTANTS
  SavedObjects = {"index_pattern", "dashboard"}
  MaxRequests = 4

SPECIFICATION HealthySpec

PROPERTIES
  DeleteCompletes

CHECK_DEADLOCK FALSE

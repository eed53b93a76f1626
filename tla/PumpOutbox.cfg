\* One contract, three events; a batch that is never full, batches of two
\* and a restart, and the Financial pump with a restart.
SPECIFICATION Spec
CONSTANTS
  MaxEvent = 3
  OrderKey <- SameOrder
  Targets <- Pumps
  MaxContentRejections = 1
  Poison = {}
INVARIANTS
  NothingForgotten
PROPERTIES
  DeliveredInOrder
  ImplementsOutbox

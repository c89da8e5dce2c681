CONSTANTS
  Producers = {p1, p2, p3}
  Consumer = consumer
  NoThread = NoThread
  OpsPerProducer = 2
  ConsumerBudget = 2
SPECIFICATION Spec
INVARIANT
  ConsumerExitsDone
PROPERTY
  ImplementsWorkQueue

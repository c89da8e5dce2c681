CONSTANTS
  Threads = {p1, p2, consumer, main}
  Producers = {p1, p2}
  Consumer = consumer
  Main = main
  NoThread = NoThread
  OpsPerProducer = 2
  ConsumerBudget = 2
SPECIFICATION FairSpec
INVARIANTS
  QueueNeverContended
  IdsInOrder
  NothingLost
  ConsumerExitsDone
  FinalAccessIsFull
  ResultIsRight
PROPERTIES
  ImplementsWorkQueue
  EndsOnceJoined

CONSTANTS
  Threads = {p1, consumer, main}
  Producers = {p1}
  Consumer = consumer
  Main = main
  NoThread = NoThread
  OpsPerProducer = 1
  ConsumerBudget = 1
SPECIFICATION GenerousSpec
PROPERTY
  BenchEnds

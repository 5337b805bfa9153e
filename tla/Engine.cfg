SPECIFICATION MCSpec
CONSTANTS
  Node = {api, cache, queue, worker}
  api = api
  cache = cache
  queue = queue
  worker = worker
  NoNode = NoNode
  Unset = Unset
  Problems <- MCProblems
  Metrics <- MCMetrics
  Full = 1000000
  Tolerance = 1
  InstanceCap = 3
  PartitionCap = 4
  None = None
  NoMinimum = NoMinimum
  NoThreshold = NoThreshold
  Order <- MCOrder
  Caller <- MCCaller
  KindOf <- MCKindOf
  Instances <- MCInstances
  MaxInstances <- MCMaxInstances
  MinInstances <- MCMinInstances
  Replicas <- MCReplicas
  CapacityRps <- MCCapacity
  Rules <- MCRules
  Inputs <- MCInputs
  Extras <- MCExtras
  Async = {queue}
  Autoscales = {api, worker}
  StateOwning = {cache, queue}
  MultiAz = {queue}
  FailoverSeconds = 1
  Target = 70
  Cooldown = 1
  Startup = 1
  MaxRetries = 2
  Duration = 3
  MaxGenerated = 2
  Arrivals = {0, 4}
INVARIANTS
  InstancesInBounds
  QueueIsFifo
  SeededIncidentsAreTold
  PastIsFixed
  PlanIsSound
  ScoresAreSound
  TraceIsATree
  SearchIsSound
  FrontierIsNotEmpty
  FlowIsSound

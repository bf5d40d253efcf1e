\* DownOnlyOnBurst: three backends of weights 2, 1 and 1, a failure threshold of 2, two connections in flight.
CONSTANTS
  ConfWeight <- MC_ConfWeight
  FailTimeout = 5000
  FailMaxnum = 2
  MaxInflight = 2
SPECIFICATION Spec
PROPERTY DownOnlyOnBurst

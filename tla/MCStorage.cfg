SPECIFICATION FairSpec
CONSTANTS
  Workers = {"w1", "w2"}
  Devices = {"d1", "d2"}
  Periodic = {"d2"}
  Cmds <- MCCmds
  WorkerOf <- MCWorkerOf
  DeviceOf <- MCDeviceOf
  OpOf <- MCOpOf
  SizeOf <- MCSizeOf
  OffsetOf <- MCOffsetOf
  Direct = {"d2"}
  MaxSize <- MCMaxSize
  BlkSize = 2
  OFFSETS = 16
  BUF_SIZE = 2
  PipeSize = 1
INVARIANT FileWithinMax
PROPERTIES ImplementsStorage EveryCommandAcked

CONSTANTS
  Thread = {t1}
  Owner = owner
  i1 = i1
  i2 = i2
  Impl <- MCImpl
  Assigned <- MCAssigned
  Descriptor = descriptor
  Operation <- MCOperation
  Task = task
  StrandHandler = {"do_receive", "handle_receive", "do_send", "handle_send"}
  None = none
  SocketBound = 1
SPECIFICATION FairIoSpec
PROPERTIES
  IoProgresses
  StopEndsRun

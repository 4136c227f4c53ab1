\* Two topics, a lost connection and two sessions; queues short enough to overflow.
CONSTANTS
  Topics = {ctl, evt}
  NoTopic = NoTopic
  Ctl = ctl
  EventTopic = evt
  MaxCtx = 2
  MaxList = 3
  nKeepalive = 1
  LogCap = 2
  MaxLog = 3
  NSessions = 2
  QueueMax = 2
  MaxMsg = 3
  MaxInit <- MCInit
SPECIFICATION FairSpec
INVARIANT SubscriptionsRestored
INVARIANT InstanceOutlivesUsers
INVARIANT ControlInOrder
PROPERTY ReconnectsUntilDestroyed
CHECK_DEADLOCK FALSE

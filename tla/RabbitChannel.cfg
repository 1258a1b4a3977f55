SPECIFICATION FairRabbit
CONSTANTS
  Callers = {p1, p2}
  Conns = {k1, k2, k3, k4, k5, k6, k7}
  None = None
  Asserts = 2
  MaxRetries = 3
  MaxLosses = 2
INVARIANTS RabbitTypeOK ChannelIsOpen OneConnection AttemptsAreEarned PublishMeetsChannel
PROPERTY PublishSettles
CHECK_DEADLOCK FALSE

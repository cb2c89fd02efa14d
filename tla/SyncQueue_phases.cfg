\* Two producers and the append phase on a queue of two places
CONSTANTS
  p1 = p1  p2 = p2  c1 = c1
  Producers <- TwoProducers
  Consumers <- OneConsumer
  Peekers <- OneConsumer
  Items = {1, 2}
  NoItem = NoItem
  max_size = 2
  MaxPush = 6
SPECIFICATION FairSpec
INVARIANTS NoLostWakeup EndedMeansDrained PeekedIsHead
PROPERTIES ImplementsBoundedQueue AllEnd
CHECK_DEADLOCK FALSE

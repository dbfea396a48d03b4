SPECIFICATION Spec
CONSTANTS
  t1 = t1
  t2 = t2
  NoThumb = NoThumb
  known = known
  unknown = unknown
  Packets <- McPackets
  Thumbs <- McThumbs
  Macs <- McMacs
  TableSize = 1
PROPERTIES DecisionAsMeantForEverySize

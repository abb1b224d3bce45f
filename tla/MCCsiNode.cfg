SPECIFICATION FairSpec
CONSTANTS
  Callers = {c1, c2}
  Ticks = 2
  MaxPublishes = 3
  MaxUnpublishes = 2
  MaxKills = 1
INVARIANTS TypeOK TidyCycle ServedMounts
PROPERTIES CallsReturn ShutdownEnds
CHECK_DEADLOCK FALSE

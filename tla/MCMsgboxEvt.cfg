\* Two texts, three entries, every interleaving of the two threads, one evtmgrReInit.
SPECIFICATION FairSpec
CONSTANTS
  t1 = t1
  t2 = t2
  e1 = e1
  e2 = e2
  e3 = e3
  Texts = {t1, t2}
  NoText = NoText
  Entries = {e1, e2, e3}
  NoEntry = NoEntry
  MaxGame = 2
  MaxReInits = 1
INVARIANTS TypeOK NoTextUsedAfterDelete KeysBalanced TextsOwned
PROPERTIES DeliveredUnlessCut
\* The asserts of the game halt it when no entry is free.
CHECK_DEADLOCK FALSE

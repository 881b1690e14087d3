\* The main thread may run the script between evtEntry and the store; entries
\* abound and none is cleared.
SPECIFICATION FairSpec
CONSTANTS
  t1 = t1
  t2 = t2
  e1 = e1
  e2 = e2
  e3 = e3
  Texts = {t1, t2}
  NoText = NoText
  Entries = {e1, e2, e3}
  NoEntry = NoEntry
  MaxGame = 0
  MaxReInits = 0
PROPERTIES Delivered
\* Once both texts are lost the model has none left for another request.
CHECK_DEADLOCK FALSE

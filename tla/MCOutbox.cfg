CONSTANTS
  Keys = {k1, k2}
  Digests = {d1, d2}
  CutParts = {"torn", "bare"}
  Refuses = {FALSE}
  DropsAcks = {FALSE, TRUE}
  MaxCalls = 3
  MaxFaults = 2
  MaxCrashes = 2
  MaxHosts = 2
SPECIFICATION FairSpec
INVARIANTS TypeOK OneReceiptServed UnavailableIsNotDelivered
PROPERTIES FreesSession ImplementsExactlyOnce
CHECK_DEADLOCK FALSE

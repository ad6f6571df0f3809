\* Three sends: a winner and a loser of the mutex, and one that comes later.
CONSTANTS
  Sends = {t1, t2, t3}
  Nobody = Nobody
SPECIFICATION FairSpec
INVARIANTS
  ClientInv
PROPERTIES
  OnlyRenewed
  SendsReturn
  ImplementsAtMostOnce

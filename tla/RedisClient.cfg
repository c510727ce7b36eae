CONSTANT Me = me
SPECIFICATION FairSpec
INVARIANTS TypeOK AtMostTwice
PROPERTIES KeepsContract EveryCallReturns

\* Two delays before global recovery is exhausted, any number of switches.
SPECIFICATION Spec
CONSTANT MaxAttempts = 2
INVARIANTS TypeOK FaultsAreDriven RescanIsResumed WakesAreServed HealthRecovers

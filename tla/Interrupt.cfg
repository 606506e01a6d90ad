\* Three threads interrupt each other and themselves; one is left alone by the
\* others.
SPECIFICATION StatusFairSpec
CONSTANTS
  Threads = {t1, t2, t3}
  None = None
  Alone = {t1}
INVARIANTS MirrorAgreesAlone
PROPERTIES SleeperWakes

\* Four operations on an entry or on the key, failing calls, a fall to the local
\* keyring, damaged writes.
SPECIFICATION Spec
CONSTANTS
  Blobs = {b1, b2}
  MaxOps = 4
  MaxCrashes = 2
  MaxFaults = 3
  MaxDamages = 2
INVARIANTS
  GoneIsGone
  AnswersLatest
  SecretSurvives
  InheritedKeyKept
PROPERTY
  LegacyGoesBehindACopy
CHECK_DEADLOCK FALSE

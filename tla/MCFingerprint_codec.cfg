\* Every fingerprint is encoded and decoded to its end.
SPECIFICATION Spec
CONSTANTS
    Fingerprints <- MCFingerprints
    BufferSize = 16384
INVARIANTS
    TypeOK
    EncodesBase64
    FingerprintSurvives
CHECK_DEADLOCK FALSE

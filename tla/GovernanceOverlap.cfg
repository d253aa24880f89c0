\* A material event and the preparation of a review that overlap.
SPECIFICATION GovernanceSpec
CONSTANTS
    MaxTxn = 3
    MayCall = {"record", "prepare", "verdict"}
PROPERTY EvidenceIsFrozen
CHECK_DEADLOCK FALSE

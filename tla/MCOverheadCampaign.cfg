\* One live session among saved ones, then the report over all of them.
CONSTANTS
    Fields <- MCFields
    Traffic <- MCTraffic
    Campaigns <- MCCampaigns
    MaxFrames = 3
    MaxTime = 1
    Port = 4840
SPECIFICATION Spec
INVARIANTS
    TypeOK
    PairingIsFifo
    CountsAddUp
    DropsAreReal
    NegativeDelayMeansMissedIngress
    PassIsEarned

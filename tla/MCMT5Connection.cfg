SPECIFICATION FairSpec
CONSTANTS
    MaxReinit = 3
    MaxRetries = 3
INVARIANTS GivesUpAfterTrying LossAnnounced DoubledOnlyBySilence
PROPERTY OutageEnds

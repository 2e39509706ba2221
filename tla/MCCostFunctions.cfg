CONSTANTS
    NoFlagV = NoFlagV
    NoneV = NoneV
    NoFlag <- NoFlagV
    None <- NoneV
    Topics <- MCTopics
    Idents <- MCIdents
    Importable <- MCImportable
    WeightFlag <- MCWeightFlag
    MaxConfig = 3
SPECIFICATION Spec
INVARIANTS
    TypeOK
    CallsAgreeWithResolution

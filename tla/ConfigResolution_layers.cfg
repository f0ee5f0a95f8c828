SPECIFICATION Spec
CONSTANTS
    Unset = Unset
    Inputs <- MCInputs
INVARIANTS
    TypeOK
    MistypedValuesAreSilent
    FlagsShadowEnvAndFile
    SecretFilesShadowTheRest
    CommandsAreConsistent

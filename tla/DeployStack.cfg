CONSTANTS
    Runs = {1, 2, 3}
    Elsewhere = {9}
    Builds = {1, 2, 3}
    Declaring = {1, 2}
    Others <- OtherSources
    Layout <- Layouts
    DecoderOf <- Decoders
    Envs <- SomeEnvs
    MaxCompilations = 1
    MaxDrops = 1

SPECIFICATION StackSpec
CHECK_DEADLOCK FALSE
INVARIANTS StackTypeOK RecordsReadable ConfiguredAreAccepted RegistryOfOneBuild NothingRefused DoctorFindsLatest

CONSTANTS
    prepare = prepare
    separate = separate
    transcribe = transcribe
    materialize = materialize
    Media = {prepare}
    Speech = {separate, transcribe}
    Local = {materialize}
    Stems <- Files
    Calls = {c1, c2, c3}
    Versions = {v1, v2}
    None = None
    Capacity = 1
    MaxFaults = 2
    Duration = 4
    Tolerance = 1
    SilenceBoundary = 2
    SceneDuration = 4
    SceneDialogues = 3
SPECIFICATION Spec
INVARIANTS
    RegisteredIsStored
    ManifestIsMarker
    OnlyReleasesConflict
    SaturatedIsBusy
    TimelineFollowsEvidence
    DialoguesFollowTurns
    ScenesPartitionDialogues
CHECK_DEADLOCK FALSE
SYMMETRY Alike

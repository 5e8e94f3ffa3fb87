SPECIFICATION GateFairSpec
CONSTANTS
    Session = {s1, s2}
    Kind = {dictation, qa}
    Hold = {h1, h2}
    Domain = {d1, d2}
    Worker = {w1, w2}
    NoSession = NoSession
    NoLease = NoLease
    NoDomain = NoDomain
INVARIANTS
    ExclusiveNativeOwner
    RestoreIsAlone
PROPERTIES
    ReleasedLeaseDrains

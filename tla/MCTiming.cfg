SPECIFICATION TimingSpec
CONSTANTS
    Conns = {g1, g2}
    Interval = 2
    Timeout = 3
    RelayTimeout = 1
    HostTimeout = 4
    Trip = 1
SYMMETRY GaugesAreAlike
INVARIANT TimingTypeOK
INVARIANT LiveIsKept
INVARIANT RemovedInTime
INVARIANT MaskedBriefly
INVARIANT DiagnosisInTime

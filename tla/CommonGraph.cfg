\* Every choice of functions from the stock, for two and for three targets.
SPECIFICATION GraphSpec
INVARIANTS PairingProjects RoundTrip ArmsAccepted

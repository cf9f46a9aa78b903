SPECIFICATION Spec
CONSTANTS
    heights <- DeployedForks
    window_size = 2
    original_version = 1
    MinorVersions = {0, 2, 3, 4}
    MaxHeight = 5
    MaxPops = 3
INVARIANT ForkByHeight
INVARIANT VersionsByHeight
INVARIANT CountsExact

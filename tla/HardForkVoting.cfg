SPECIFICATION Spec
CONSTANTS
    heights <- VotedTable
    window_size = 3
    original_version = 1
    MinorVersions = {0, 2, 3}
    MaxHeight = 7
    MaxPops = 0
INVARIANT CurrentForkIsLatestVoted
INVARIANT WindowIsLastVotes

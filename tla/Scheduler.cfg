SPECIFICATION FairSpec
CONSTANTS
    o1 = o1 o2 = o2 o3 = o3
    a1 = a1 a2 = a2 p1 = p1
    NoOcc = NoOcc NoAsset = NoAsset
    Occ <- MCOcc
    Asset <- MCAsset
    AssetOf <- MCAssetOf
    Playlist <- MCPlaylist
    Snapshots <- MCSnapshots
    Cap = 1
    ReshuffleAfter = 2
    MaxClock = 2
    MaxEvents = 2
PROPERTIES
    PlaysOnce
    EditReachesScreen
    NoOccurrenceStarves
INVARIANT
    DriftIsNoticed

SPECIFICATION Spec
CONSTANTS
    Volumes = 3
    MaxVolume = 2
    MaxRead = 2
    MaxSeek = 5
    MaxSubs = 4
INVARIANTS
    PlacesKnown
    SearchFinds
PROPERTIES
    FlatSpec

SPECIFICATION WatchSpec
CONSTANTS
    good = good
    twin = twin
    locked = locked
    other = other
    ext4 = ext4
    NoStick = NoStick
    Nodes = 3
    DataDevs = {0, 2}
    WaitPolls = 1
    Sticks <- MCSticks
    Labelled <- MCLabelled
    Fat <- MCFat
    Mountable <- MCMountable
    Writable <- MCWritable
INVARIANTS
    WatchTypeOK
    OnlyOurVolume
    PickIsAnnounced
PROPERTIES
    StickIsFollowed

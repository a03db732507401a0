CONSTANTS
    Streams <- FramedStreams
    MaxResets = 1
SPECIFICATION Spec
PROPERTY FollowsFraming

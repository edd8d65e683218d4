CONSTANTS
    Handle = {h1, h2, h3}
    None = None
SPECIFICATION Spec
INVARIANTS
    LiveIsLive
    OneChannel
PROPERTIES
    ChannelProgress
    ChannelReturns

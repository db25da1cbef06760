SPECIFICATION OpenSpec
CONSTANTS
    People = {h1, h2}
    PaneOwner = h1
    NoOne = NoOne
PROPERTY LandsBackOnPane
CHECK_DEADLOCK FALSE

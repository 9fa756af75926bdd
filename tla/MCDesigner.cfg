SPECIFICATION MCDesignerSpec
CONSTANTS
    Layout <- Layouts
    NoLayout <- EmptyLayout
    MaxHistory = 2
    MaxEdits = 3
    MaxRequests = 2
    MaxNode = 4
    Palette <- MCPalette
    Fields = {"text", "color"}
    Root = Root
    None = None
    First <- MCFirst
    Nodes <- MCNodes
    Followed <- MCFollowed
    MaxStyles = 3
INVARIANTS
    HistoryKeepsUp
    ScreenShowsLayout
    TreeHolds
    StylesShow
CHECK_DEADLOCK FALSE

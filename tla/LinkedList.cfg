SPECIFICATION ListSpec
CONSTANTS
    Lists = {list_, added_}
    MaxNodes = 3
INVARIANTS
    LinksAgree
    NothingDangles
PROPERTIES
    ImplementsItems

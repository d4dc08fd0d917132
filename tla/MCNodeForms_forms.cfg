CONSTANTS
    MaxChoices = 2
    MaxEdits = 1
    MaxNodes = 4
SPECIFICATION Spec
INVARIANTS
    TypeOK
    StreamIsCoherent
    NodesSurviveEditing
    SavedNodesAreUsable
PROPERTIES
    
    
    ImportKeepsWhatMatters
    
CHECK_DEADLOCK FALSE

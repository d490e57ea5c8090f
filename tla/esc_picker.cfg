CONSTANTS
    MaxInput = 2
    MaxPrompts = 2
SPECIFICATION EditorSpec
PROPERTIES EscUnwindsFirst

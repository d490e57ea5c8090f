CONSTANTS
    Stdout = stdout
    Stderr = stderr
    Capacity = 1
    Longest = 2
    MaxChunks = 2
    MaxKids = 2
SPECIFICATION Spec
PROPERTIES CommandIsBounded

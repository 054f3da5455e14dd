CONSTANTS
    MaxLinks = 2
    StallAfter = 3
SPECIFICATION Spec
PROPERTIES FreshLink
CHECK_DEADLOCK FALSE

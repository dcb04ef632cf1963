CONSTANTS
    a = a
    b = b
    s = s
    Objs = {a, b}
    Archive = {a, b}
    Eager = TRUE
    MaxUpsets = 2
SPECIFICATION Spec
PROPERTIES
    DeliveredIsKept

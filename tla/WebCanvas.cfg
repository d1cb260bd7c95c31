CONSTANTS
    Sinks = {s1}
    Codecs = {dec, up}
    Bins = {b1, b2}
    None = None
    MaxAdds = 4
SPECIFICATION Spec
INVARIANTS
    RefsCover
    OneCanvas
CHECK_DEADLOCK FALSE

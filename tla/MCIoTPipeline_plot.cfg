\* The GUI thread redraws while the network thread appends.
CONSTANTS
    Count = 2
    MaxDrops = 0
    Foreign = {}
    PubModes = {"publish"}
    RetainFlags = {FALSE}
    BufferLen = 2
    SaveFlags = {FALSE}

SPECIFICATION Spec

INVARIANT PlotLengthsAgree

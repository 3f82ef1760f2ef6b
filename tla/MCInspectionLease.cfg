CONSTANTS
    Process = {p1, p2}
    N = 2
    NotRead = NotRead
    Content = {c1, c2}
    MaxInode = 2
    MaxEdits = 1
SPECIFICATION Spec
SYMMETRY Symmetry
INVARIANT WriterOwnsNamespace
PROPERTY PlanSeesOneMoment
PROPERTY StatusSeesOneMoment


SPECIFICATION StructuresSpec
CONSTANTS
    Pcb = {p1, p2, p3, p4}
    NULL = NULL
    Queue = {d1, d2, d3, d4}
    SemAdd = {1, 2, 3}
    MAXINT = 4
    InUse = 3
SYMMETRY Interchangeable
INVARIANTS WellFormed OutcomePredicted LinksSound ListSound DescriptorLeft
PROPERTIES ListsKept TreesKept QueuesKept

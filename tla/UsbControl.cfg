SPECIFICATION FairSpec
CONSTANTS
    DevEP0SIZE = 2
    DescLen <- MCDescLen
    AskedLengths = {3, 6}
    Recipients = {"device", "out"}
    Written = {"SET_ADDRESS", "SET_PROTOCOL"}
    Values = {0, 1}
INVARIANTS
    DescriptorWhole
    AddressAgrees
    ReadsBack
    StallExact
PROPERTY TransfersEnd

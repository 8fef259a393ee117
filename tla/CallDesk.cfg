SPECIFICATION FairSpec
CONSTANTS
    Case = {c1, c2}
    Offer = {o1, o2, o3}
    Job = {j1}
    CallLimit = 2
    CaseLimit = 2
    None = None
INVARIANTS SlotsBalance NoGhosts OneCallUnlessCrossed
PROPERTIES Drains

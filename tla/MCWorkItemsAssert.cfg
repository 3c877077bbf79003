SPECIFICATION Spec
CONSTANTS
    Worker = {w1, w2, w3}
    leader = w1
    Waiting = Waiting
    Blocked = Blocked
    SplitCutoff = 0
    Item <- MCItem
    Root <- MCRoot
    Children <- MCChildren
    Target <- MCTarget
INVARIANT SizePositive

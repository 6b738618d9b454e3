SPECIFICATION Spec
CONSTANTS
    p1 = p1
    p2 = p2
    Procs = {p1, p2}
    sentence = sentence
    text = text
    Zero = zero
    Capacities = {1, 2}
    MaxLabel = 2
    Slack = 1
    MaxSize = 4
    Named = {sentence}
    Unnamed = {text}
    Bad = {text}
INVARIANT SoleUserBacked
PROPERTIES LossIsStale ImplementsTable
SYMMETRY Symmetry

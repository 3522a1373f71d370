SPECIFICATION Spec
CONSTANTS
    Callers = {1, 2}
    Drains = {3, 4}
    Limit = 2
    Loads <- MCLoads
INVARIANTS AggregatesReconcile OutcomesTruthful CteIsCore

\* An abort interrupted before the rebuild.
CONSTANTS
    planA = planA  planB = planB  system = system  cache = cache
    None = None  Trunc = Trunc
    Choices = {planA, planB}
    Items = {system, cache}
    Fallback = {planA}
    Drops <- MCDrops
SPECIFICATION Spec
INVARIANT StatusTruthful

CONSTANTS
    Calls = {c1, c2, c3}
    Latencies <- MCLatencies
SPECIFICATION Spec
SYMMETRY MCSymmetry
INVARIANTS
    CountsEveryCall
    ScrapeIsCurrent
    ScrapeLagBounded

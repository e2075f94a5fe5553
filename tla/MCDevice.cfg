SPECIFICATION Spec
CONSTANTS
    None = None
    r1 = r1
    r2 = r2
    p1 = p1
    p2 = p2
    Radios = {r1, r2}
    Ports = {p1, p2}
    Serial <- MCSerial
    Catalog <- MCCatalog
    Prereleases = {FALSE}
    Scenarios <- MCScenarios
INVARIANTS
    PortIsOwed
    PageShowsRadio
PROPERTIES
    FlashIsRight
    SecretsSurvive
CHECK_DEADLOCK FALSE

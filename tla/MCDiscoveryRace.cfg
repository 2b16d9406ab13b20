\* A scan that started before a registration ends after it.
SPECIFICATION DiscoverySpec
CONSTANTS
    Tree <- OneRoot
    Scans = {s1, s2}
    Registrations = {r1}
    Initial <- OneEntry
    MaxGone = 0
    MaxEdits = 0
    MaxEntries = 2
PROPERTIES PublishesNew

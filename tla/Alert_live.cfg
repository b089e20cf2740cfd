SPECIFICATION FairSpec
CONSTANTS
    r1 = r1
    offline = offline
    Rules = {r1}
    Builtins = {}
    OfflineRules = {r1}
    Stored = {r1}
    Legacy = {}
    Immediate = {}
    Cooldowns = {r1}
    Values = {"above", "below"}
    MaxGeneration = 2
    MaxReport = 2
    MaxUpsets = 1
PROPERTIES
    UnwantedEventsClose
    WantedEventsOpen

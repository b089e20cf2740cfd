SPECIFICATION Spec
CONSTANTS
    r1 = r1
    offline = offline
    Rules = {r1, offline}
    Builtins = {}
    OfflineRules = {offline}
    Stored = {r1}
    Legacy = {}
    Immediate = {r1}
    Cooldowns = {}
    Values = {"above", "below", "unknown"}
    MaxGeneration = 2
    MaxReport = 2
    MaxUpsets = 1
PROPERTIES
    CloseIsJustified

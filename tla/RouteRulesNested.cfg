SPECIFICATION RulesSpec
CONSTANTS
    Labels = {1, 2}
    MaxDepth = 2
    MaxDomainPort = 0
    Bits = 2
    MaxPort = 0
    MaxRules = 2
INVARIANTS
    EveryRuleWorks
CHECK_DEADLOCK FALSE

SPECIFICATION Spec
CONSTANTS
    Nodes = {n1}
    Loads <- MCLoads
    Configs <- MCConfigs
    DefaultMinConf = 70
    DefaultCooldown = 3
    AgeCap = 3
PROPERTIES
    Spaced
    SomeoneHears
    LoadMonotone

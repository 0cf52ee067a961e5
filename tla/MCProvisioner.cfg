SPECIFICATION Spec
CONSTANTS
    s1 = s1
    s2 = s2
    w1 = w1
    w2 = w2
    config = config
    agent = agent
    Seeders = {s1, s2}
    Version <- MCVersion
    Workspaces = {w1, w2}
    Home <- MCHome
    NoToken = NoToken
    Objects = {config, agent}
    Kinds = {"agent_configs", "agents"}
    ORDER <- MCOrder
    KindOf <- MCKindOf
    Refers <- MCRefers
    Restorable = {"agents"}
    ByReference = {agent}
    MaxMishaps = 2
INVARIANTS
    TypeOK
    SeedConverges
    ReferencesExist
PROPERTY
    EditsSurvive

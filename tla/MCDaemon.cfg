SPECIFICATION Spec
CONSTANTS
    MaxConn = 3
    EndpointOf <- MCEndpointOf
    NameOf <- MCNameOf
    SecretOf <- MCSecretOf
    RuleKeys <- MCRuleKeys
    RuleSecrets = {"s"}
    Key <- MCKey
    Cleanup <- MCCleanup
    MaxPub = 3
INVARIANTS
    VerdictByPriority
    AskedWhenItHelps
    ClientsKnown
CHECK_DEADLOCK FALSE

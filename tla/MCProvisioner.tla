---------------------------- MODULE MCProvisioner ----------------------------
EXTENDS Provisioner

CONSTANTS s1, s2, w1, w2, config, agent

MCVersion == (s1 :> 1) @@ (s2 :> 2)
MCHome    == (s1 :> w1) @@ (s2 :> w2)
MCOrder   == <<"agent_configs", "agents">>
MCKindOf  == (config :> "agent_configs") @@ (agent :> "agents")
MCRefers  == (config :> {}) @@ (agent :> {config})
=============================================================================

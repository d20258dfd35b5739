CONSTANTS
    alice = alice
    bob = bob
    home = home
    NoUser = NoUser
    Users = {alice, bob}
    Ips = {home}
    RoleOf <- MCRoleOf
    Installed <- MCInstalled
    TokenTtl = 3
    ChallengeTtl = 1
    Window = 2
    LockTime = 2
    MaxFails = 2
    MaxTime = 3
    MaxTokens = 2
    MaxSecrets = 2
    MaxMisses = 3
    MaxRequests = 1
    MaxVersion = 1
    MaxChallenges = 1
    MaxEvents = 4
SPECIFICATION Spec
CONSTRAINT FewEvents
INVARIANTS TypeOK NoBurst EndedStaysOut SecretIsOwn
CHECK_DEADLOCK FALSE

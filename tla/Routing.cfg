SPECIFICATION Spec
CONSTANTS
    Configs <- MCConfigs
    Guilds = {1, 2}
    Consumers = {c1}
    Clients <- MCClients
    EventTypes = {"GUILD_CREATE", "GUILD_DELETE", "MESSAGE_CREATE", "PRESENCE_UPDATE",
                  "ENTITLEMENT_CREATE", "USER_UPDATE"}
    EventBlacklist = {}
    ProduceBlacklist = {"PRESENCE_UPDATE"}
    None = none
    MaxEvents = 3
    MaxRequests = 1
INVARIANTS
    TypeOK
    GuildEventsGoHome
    EventsInOrder
    
    MetadataIsNotOlder
    RequestsTakeRealShard
CHECK_DEADLOCK FALSE

CONSTANTS
    ua = ua  ub = ub
    g1 = g1  g2 = g2  g3 = g3
    s1 = s1  s2 = s2  s3 = s3  s4 = s4  s5 = s5  s6 = s6  s7 = s7
    NoUser = NoUser  NoKey = NoKey  NoGroupId = NoGroupId  Junk = Junk
    Users <- MCUsers
    Groups <- MCGroups
    Secrets <- MCSecrets
    GroupsOf <- MCGroupsOf
    PersonalOf <- MCPersonalOf
    EncGroupKey <- MCEncGroupKey
    SecretsOf <- MCSecretsOf
    GroupIdPath <- MCGroupIdPath
    EncClientData <- MCEncClientData
    EncCriticalData <- MCEncCriticalData
    SerializedLifecycle = TRUE
    DeviceKeyReadable = {TRUE, FALSE}
    MaxInFlight = 2

SPECIFICATION Spec

INVARIANT SecretDecodeAllOrNothing

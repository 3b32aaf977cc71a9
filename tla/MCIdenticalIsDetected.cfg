SPECIFICATION DnsSpec
CONSTANTS
    Owners = {"target zone", "parent zone", "elsewhere"}
    Enclosing = {"target zone", "parent zone"}
    Nameservers = {1, 2}
    Ips = {1, 2}
    Messages <- MCMessages
    MaxAxfrNameservers = 2
    MaxAxfrIpsPerNameserver = 1
    MaxAxfrEndpoints = 2
    MaxAxfrMessages = 2
    MaxAxfrBytes = 3
    MaxAxfrRecords = 3
    Selections <- MCSelections
    Answers <- MCAnswers
    Chains <- MCChains
    Hostname = 2
    Replies <- MCReplies
    Texts <- MCTexts
    Spf = {7}
    MaxDnsRecords = 3
    MaxCnameChainHops = 3
    MaxResolvedHosts = 2
    MaxSpecialTxtRecords = 1
INVARIANT IdenticalIsDetected
CHECK_DEADLOCK FALSE

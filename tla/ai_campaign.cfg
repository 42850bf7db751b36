SPECIFICATION FairCampaign
CONSTANTS
    p = p
    q = q
    t = t
    crawler = crawler
    other = other
    c1 = c1
    None = None
    Task = Task
    MaxArchives = 3
    Keys = {p, q, t}
    Folding = {p, q}
    Files = {2, 3}
    Excel = {3}
    Attachments <- FilesOf
    Late <- LateOf
    Clients = {crawler, other, c1}
    Crawlers = {crawler, other}
    Issues = {p, q}
    MaxAttempts = 2
    MaxDisturbances = 1
INVARIANTS IngestInv HasPrimary CampaignInv DoneIsStored CampaignClosed FailedTogether
PROPERTIES ImplementsCatalog OutcomeStands CampaignSettles
CHECK_DEADLOCK FALSE

\* Two pages, an iframe and four CDP sessions; four events of the first page in batches of two.
SPECIFICATION RecordingSpec
CONSTANTS
    p1 = p1
    p2 = p2
    i1 = i1
    s1 = s1
    s2 = s2
    s3 = s3
    s4 = s4
    Pages <- MCPages
    Iframes <- MCIframes
    Sessions <- MCSessions
    NoPage = NoPage
    Tab = p1
    BatchSize = 2
    MaxEvents = 4
INVARIANTS
    ReplayIsTheTabs
    EventsReachTheirTab
PROPERTY
    ConsumerSpec

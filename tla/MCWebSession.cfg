\* Two tabs, one further call at a time besides their refreshes.
SPECIFICATION WebSpec
CONSTANTS
    None = None
    People = {u}
    Tabs = {t1, t2}
    Calls = {c1}
    MaxTokens = 3
INVARIANTS
    ReusesHaveACause
    LogoutIsFinal
PROPERTIES
    LiveSessionsAreKept
    NothingHangs

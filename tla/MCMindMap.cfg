SPECIFICATION Spec
CONSTANTS
    t1 = t1
    t2 = t2
    t3 = t3
    t4 = t4
    t5 = t5
    None = None
    NewTopic = NewTopic
    Tab = Tab
    Pair = Pair
    Topics <- MCTopics
    Renames <- MCRenames
    Start <- MCStart
    Pulled <- MCPulled
    MaxTwice = 3
    MaxOnce = 4
INVARIANTS
    TypeOK
PROPERTIES
    EditsAreTheMaps
    EditsKeepTheList
CHECK_DEADLOCK FALSE

\* A conversation that ends and is resumed in another process.
SPECIFICATION SessionSpec
CONSTANTS
    Conversations = {c1, c2}
    Rows = {1, 2}
    Hosts = {1, 2}
    Items = {1}
    Calls = {}
    Wishes = {TRUE, FALSE}
    Nobody = Nobody
INVARIANT HoldFollowsPrompt
CHECK_DEADLOCK FALSE

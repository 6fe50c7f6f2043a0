SPECIFICATION Spec
CONSTANTS
    Turns = {t1, t2}
    News = {n1}
    RedisEnabled = TRUE
    MaxRestarts = 0
    None = None
PROPERTIES FreshConversation

SPECIFICATION QuerySpec
CONSTANTS
    bot = bot
    bot_ = bot_
    pal = pal
    lobby = lobby
    den = den
    Chan = {lobby, den}
    Nick = {bot, bot_, pal}
    Token = {t1, t2}
    NoNick = none
    Configured = bot
    Suffixed <- MCSuffixed
    maxNickFallbacks = 8
    Bounds <- MCBounds
    Query <- MCQuery
CHECK_DEADLOCK FALSE
INVARIANTS ResultIsWhole ViewIsReal WantedIsJoined
PROPERTIES NickComesBack 

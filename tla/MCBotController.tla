--------------------------- MODULE MCBotController ---------------------------
EXTENDS BotController
CONSTANTS c1, c2, h1, h2, b1, b2
=============================================================================

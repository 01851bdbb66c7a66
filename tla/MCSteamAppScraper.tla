--------------------------- MODULE MCSteamAppScraper ---------------------------
EXTENDS SteamAppScraper
CONSTANTS w1, w2, c1, c2
=============================================================================

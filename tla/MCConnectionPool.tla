------------------------- MODULE MCConnectionPool -------------------------
EXTENDS ConnectionPool

\* One carrier at a time on each path.
PathByNumber(c) == CASE c = 1 -> "direct" [] c = 2 -> "relay" [] c = 3 -> "wss"
===========================================================================

------------------------- MODULE MC_SessionGrouping -------------------------
EXTENDS SessionGrouping

\* http, https, a scheme that is neither, and no scheme at all
MCSchemes == {"http", "https", "ftp", "none"}
\* no port, the two default ports, and a port no scheme defaults to
MCPorts == {0, 80, 443, 8080}
===============================================================================

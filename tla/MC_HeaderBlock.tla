--------------------------- MODULE MC_HeaderBlock ---------------------------
EXTENDS HeaderBlock

\* the names a user header replaces, in both cases, and one it does not
MCNames == {"Accept", "Host", "User-Agent", "accept", "host", "x-a"}
\* strcmp order: upper case letters sort before lower case ones
MCNameOrder == <<"Accept", "Host", "User-Agent", "accept", "host", "x-a">>
MCLower == [n \in MCNames |->
              CASE n = "Accept" -> "accept" [] n = "Host" -> "host"
                [] n = "User-Agent" -> "user-agent" [] OTHER -> n]
\* numeric option arguments: in range, the first out of range for -w, a
\* negative one (strtoul negates it modulo 2^64) and one with no digits
MCNumArgs == {<<"1">>, <<"3", "0">>, <<"3", "1">>, <<"-", "1">>, <<"a">>}
===============================================================================

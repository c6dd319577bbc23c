---------------------------- MODULE MC_HttpClient ----------------------------
(* Instances of HttpClient for TLC.  URIs are strings with the fields      *)
(* http_parser finds in them: a and b are https://h/a and https://h/b, c   *)
(* is https://h:443/c, the same origin with the default port spelled out,  *)
(* and x is http://h:443/x, another scheme on the same port.               *)
EXTENDS HttpClient

MCUris == {"a", "b", "c", "x"}
MCUriParts ==
  [u \in MCUris |->
     [scheme |-> IF u = "x" THEN "http" ELSE "https", host |-> "h",
      port |-> IF u \in {"c", "x"} THEN 443 ELSE 0]]

\* page a links itself, c and x
MCLinks == [u \in MCUris |-> IF u = "a" THEN {"a", "c", "x"} ELSE {}]
\* page a links c only
MCLinksOne == [u \in MCUris |-> IF u = "a" THEN {"c"} ELSE {}]

MCUserOne == <<"a">>
=============================================================================

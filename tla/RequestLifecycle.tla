--------------------------- MODULE RequestLifecycle ---------------------------
(***************************************************************************)
(* What one HttpClient session promises about its requests (spec.md 4 and  *)
(* 8), with the library, the transport and the server left out: a list of  *)
(* requests that only grows, each request queued, then open (sent on a     *)
(* stream), then closed, never back; new requests are same-origin links of *)
(* a page whose stream is open; a GOAWAY is submitted only when every     *)
(* request is closed; nothing happens once the connection is gone.         *)
(*                                                                         *)
(* One step of this specification may do several of these things at once, *)
(* as one callback of the client does (a DATA frame that ends a page       *)
(* closes it, admits its last links and may submit the GOAWAY).            *)
(***************************************************************************)
EXTENDS Integers, Sequences, SequencesExt

CONSTANTS Uris, UserUris, Multiply, GetAssets, Links, Origin

VARIABLES
  reqs,     \* the requests: URI and level (0: command line, 1: asset)
  status,   \* status[i]: "queued", "open" or "closed"
  goaway,   \* a GOAWAY has been submitted
  live      \* the connection and its event loop are still there

vars == <<reqs, status, goaway, live>>

Rank == [queued |-> 0, open |-> 1, closed |-> 2]

\* the command-line URIs, each Multiply times, in order; without -m a URI
\* given twice is one request
InitReqs ==
  FoldLeft(LAMBDA acc, u :
             IF Multiply = 1 /\ \E k \in DOMAIN acc : acc[k].uri = u THEN acc
             ELSE Append(acc, [uri |-> u, level |-> 0]),
           <<>>,
           [k \in 1..(Len(UserUris) * Multiply) |->
              UserUris[(k - 1) \div Multiply + 1]])

Init ==
  /\ reqs = InitReqs
  /\ status = [i \in DOMAIN reqs |-> "queued"]
  /\ goaway = FALSE
  /\ live = TRUE

\* request i of reqs' is an asset of a page whose stream is open now, of
\* the page's origin, and (without -m) a URI not requested yet
NewAsset(i) ==
  /\ GetAssets /\ reqs'[i].level = 1
  /\ \E j \in DOMAIN reqs :
       /\ reqs[j].level = 0 /\ status[j] = "open"
       /\ reqs'[i].uri \in Links[reqs[j].uri]
       /\ Origin[reqs'[i].uri] = Origin[reqs[j].uri]
  /\ Multiply = 1 => \A k \in 1..(i - 1) : reqs'[k].uri # reqs'[i].uri

\* one step of the session
Step ==
  /\ live
  /\ IsPrefix(reqs, reqs')
  /\ \A i \in (Len(reqs) + 1)..Len(reqs') :
       NewAsset(i) /\ status'[i] \in {"queued", "open"}
  /\ DOMAIN status' = DOMAIN reqs'
  /\ \A i \in DOMAIN reqs :
       /\ Rank[status[i]] <= Rank[status'[i]]
       /\ status'[i] = "closed" => status[i] \in {"open", "closed"}
  /\ goaway => goaway'
  /\ goaway' /\ ~goaway => \A i \in DOMAIN reqs' : status'[i] = "closed"
  /\ live' \in BOOLEAN

Spec == Init /\ [][Step]_vars

====

--------------------------- MODULE SessionGrouping ---------------------------
(***************************************************************************)
(* run() of src/src/nghttp.cc: the command-line URIs are scanned in order  *)
(* and cut into groups, one communicate() session per group, each with the *)
(* host and port of the URI that opened it; the failures of the sessions   *)
(* are counted into the exit code.                                         *)
(*                                                                         *)
(* A parsed URI is abstracted to its scheme, host and port field; port 0   *)
(* stands for a URI without a port, for which http_parser leaves u.port at *)
(* 0.  A session is abstracted to how it ends (Outcome): communicate()     *)
(* itself is modelled by HttpClient, and its setup, failures and result    *)
(* by HeaderBlock.                                                         *)
(***************************************************************************)
EXTENDS Integers, Sequences, FiniteSets, SequencesExt

CONSTANTS
  Schemes,   \* scheme fields, "none" for a URI without one
  Hosts,     \* host fields
  Ports,     \* port fields, 0 for a URI without one
  MaxUris    \* the number of command-line URIs at most

NoHost == "NoHost"   \* prev_host's initial value, the empty string

ASSUME /\ "none" \in Schemes /\ NoHost \notin Hosts
       /\ 0 \in Ports /\ Ports \subseteq 0..65535 /\ MaxUris \in Nat

Uri == [scheme : Schemes, host : Hosts, port : Ports]

(* How a communicate() call ends: a failure to set up the TLS context or   *)
(* to load the key or certificate, a failure to connect (at once in        *)
(* initiate_connection or later through eventcb), a transport error after *)
(* the connection was up, or the loop ending normally.                     *)
Outcome == {"setup_error", "connect_error", "transport_error", "done"}

VARIABLES
  uris,        \* argv's URIs, fragment stripped
  i,           \* the loop index
  prev_host, prev_port,
  requests,    \* the group being collected
  sessions,    \* the communicate() calls made: host, port, requests, outcome
  failures,
  pc           \* "scan" inside the loop, "done" once run() returns

vars == <<uris, i, prev_host, prev_port, requests, sessions, failures, pc>>

\* has_uri_field(u, UF_SCHEMA) (a URI that does not parse has none either)
HasScheme(u) == u.scheme # "none"

\* get_default_port
DefaultPort(u) ==
  CASE u.scheme = "https" -> 443
    [] u.scheme = "http"  -> 80
    [] OTHER              -> 443

\* porteq's effective port, the port run() opens a session with
EffectivePort(u) == IF u.port # 0 THEN u.port ELSE DefaultPort(u)

\* Mutant: only the host is compared.
GroupKeyDiffersHostOnly(u, h, p) == u.host # h

\* run()'s test for a new group: the host differs from prev_host or the
\* URI's raw port field differs from prev_port
GroupKeyDiffers(u, h, p) == u.host # h \/ u.port # p

\* communicate(): its result is -1 for a setup error and 0 otherwise, so
\* only a setup error is counted
Communicate(h, p, reqs) ==
  \E out \in Outcome :
    /\ sessions' = Append(sessions, [host |-> h, port |-> p, reqs |-> reqs,
                                     outcome |-> out])
    /\ failures' = failures + (IF out = "setup_error" THEN 1 ELSE 0)

\* Mutant: the group is handed to communicate() even when it is empty.
FlushAlways(h, p, reqs) == Communicate(h, p, reqs)

\* if(!requests.empty()) communicate(prev_host, prev_port, requests)
Flush(h, p, reqs) ==
  IF reqs # <<>> THEN Communicate(h, p, reqs)
  ELSE UNCHANGED <<sessions, failures>>

Init ==
  /\ uris \in UNION {[1..n -> Uri] : n \in 0..MaxUris}
  /\ i = 1
  /\ prev_host = NoHost
  /\ prev_port = 0
  /\ requests = <<>>
  /\ sessions = <<>>
  /\ failures = 0
  /\ pc = "scan"

\* a URI without a scheme is skipped
SkipUri ==
  /\ pc = "scan" /\ i <= Len(uris) /\ ~HasScheme(uris[i])
  /\ i' = i + 1
  /\ UNCHANGED <<uris, prev_host, prev_port, requests, sessions, failures, pc>>

\* one loop iteration for a URI with a scheme: a new group is started when
\* the key differs (after the previous group is sent), else the URI joins
ScanUri ==
  /\ pc = "scan" /\ i <= Len(uris) /\ HasScheme(uris[i])
  /\ LET u == uris[i] IN
     IF GroupKeyDiffers(u, prev_host, prev_port)
     THEN /\ Flush(prev_host, prev_port, requests)
          /\ requests' = <<u>>
          /\ prev_host' = u.host
          /\ prev_port' = EffectivePort(u)
     ELSE /\ requests' = Append(requests, u)
          /\ UNCHANGED <<prev_host, prev_port, sessions, failures>>
  /\ i' = i + 1
  /\ UNCHANGED <<uris, pc>>

\* Mutant: the last group is never sent.
FinishNoFlush ==
  /\ pc = "scan" /\ i > Len(uris)
  /\ pc' = "done"
  /\ UNCHANGED <<uris, i, prev_host, prev_port, requests, sessions, failures>>

\* after the loop: the last group is sent and failures returned
Finish ==
  /\ pc = "scan" /\ i > Len(uris)
  /\ Flush(prev_host, prev_port, requests)
  /\ pc' = "done"
  /\ UNCHANGED <<uris, i, prev_host, prev_port, requests>>

Next == SkipUri \/ ScanUri \/ Finish

Spec == Init /\ [][Next]_vars

-----------------------------------------------------------------------------
(* Properties                                                               *)

Session == [host : Hosts, port : (Ports \ {0}) \cup {80, 443},
            reqs : Seq(Uri) \ {<<>>}, outcome : Outcome]

TypeOK ==
  /\ uris \in Seq(Uri) /\ i \in 1..(Len(uris) + 1)
  /\ prev_host \in Hosts \cup {NoHost} /\ prev_port \in 0..65535
  /\ requests \in Seq(Uri) /\ sessions \in Seq(Session)
  /\ failures \in 0..Len(sessions) /\ pc \in {"scan", "done"}

(* Every URI of a group is fetched from the host and port its session      *)
(* connects to: run() never puts into one communicate() call a URI whose   *)
(* host or effective port differs from prev_host / prev_port.              *)
SessionTargetsMatch ==
  \A k \in 1..Len(sessions) :
    \A j \in 1..Len(sessions[k].reqs) :
      /\ sessions[k].reqs[j].host = sessions[k].host
      /\ EffectivePort(sessions[k].reqs[j]) = sessions[k].port

(* When run() returns, every URI with a scheme has been handed to exactly   *)
(* one communicate() call, in command-line order, the last group included. *)
EveryUriOnce ==
  pc = "done" =>
    FlattenSeq([k \in 1..Len(sessions) |-> sessions[k].reqs])
      = SelectSeq(uris, HasScheme)

(* spec.md 5: a new session begins only when the (host, port) pair differs *)
(* from the preceding URI's, the port defaulted from the scheme (3: Origin *)
(* Key); so two consecutive sessions never go to the same host and port.   *)
GroupsAreMaximal ==
  \A k \in 1..(Len(sessions) - 1) :
    <<sessions[k].host, sessions[k].port>>
      # <<sessions[k + 1].host, sessions[k + 1].port>>

===============================================================================

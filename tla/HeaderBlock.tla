----------------------------- MODULE HeaderBlock -----------------------------
(***************************************************************************)
(* What src/src/nghttp.cc does with its Config up to the first request:    *)
(* after main()'s option loop (CommandLine), run() opens the data file,    *)
(* communicate() and initiate_connection set the TLS SNI name and the      *)
(* bufferevent timeouts, and on_connect sends SETTINGS and calls           *)
(* submit_request, which builds a NULL-terminated array nv of name/value   *)
(* pointers from the Request (update_hostport, make_reqpath) and           *)
(* config.headers (a std::map, so iterated in strcmp order).  The array is *)
(* modelled slot by slot, with its allocated size, so that a write past    *)
(* its end is visible.                                                     *)
(***************************************************************************)
EXTENDS CommandLine

CONSTANTS
  NameOrder,  \* Names in strcmp order: the iteration order of std::map
  Lower,      \* Lower[n]: n in lower case, what util::strieq compares
  Hosts       \* URI hosts

ASSUME /\ NameOrder \in Seq(Names) /\ Range(NameOrder) = Names
       /\ Lower \in [Names -> STRING]

(* The parsed URI of the Request: scheme, host (an IPv6 literal or not),   *)
(* port field (0 when absent), path and query fields.                     *)
Uri == [scheme : {"http", "https"}, host : Hosts, ipv6 : BOOLEAN,
        port : {0, 80, 443, 8080}, path : {NoField, "/p"},
        query : {NoField, "q"}]

VARIABLES
  uri,         \* the (first) Request's URI
  data_length, \* Request::data_length: data_stat.st_size, read even when
               \* no file was opened and data_stat is uninitialised
  nv,          \* the array submit_request passes to nghttp2_submit_request
  oob,         \* a write past the end of nv happened
  submitted,   \* on_connect submitted a request
  sni,         \* the host name given to SSL_set_tlsext_host_name
  tv,          \* the tv_sec of the read/write timeouts set on the
               \* bufferevent: empty when bufferevent_set_timeouts is not
               \* called
  iv,          \* the SETTINGS entries on_connect submits
  heap,        \* the resources of communicate() and its HttpClient:
               \* [ptr: pointers set, live: not freed, frees: per resource]
  cstate,      \* HttpClient::state, "IDLE" or "CONNECTED"
  writePending, \* bytes were written to the bufferevent: writecb will run
  fault,       \* the first failure of the session, "none" if none
  result       \* communicate()'s result

connVars == <<uri, data_length, nv, oob, submitted, sni, tv, iv>>
commVars == <<heap, cstate, writePending, fault, result>>
vars == <<optVars, pc, connVars, commVars>>

\* the Request has a data provider
upload == datafile # NoField

\* get_default_port
DefaultPort(u) == IF u.scheme = "https" THEN 443 ELSE 80

\* HttpClient::update_hostport: the host, bracketed if an IPv6 literal,
\* with the port appended when it is given and is not the default
UpdateHostport(u) ==
  (IF u.ipv6 THEN "[" \o u.host \o "]" ELSE u.host)
    \o (IF u.port # 0 /\ u.port # DefaultPort(u) THEN ":" \o ToString(u.port)
        ELSE "")

\* Request::make_reqpath: the path or "/", then "?" and the query if any
MakeReqpath(u) ==
  (IF u.path = NoField THEN "/" ELSE u.path)
    \o (IF u.query = NoField THEN "" ELSE "?" \o u.query)

-----------------------------------------------------------------------------
(* submit_request                                                           *)

\* the 14 entries of static_nv
StaticNv(u) ==
  <<":method", IF upload THEN "POST" ELSE "GET", ":path", MakeReqpath(u),
    ":scheme", u.scheme, ":host", UpdateHostport(u), "accept", "*/*",
    "accept-encoding", "gzip, deflate", "user-agent", "nghttp2/VERSION">>

\* total_entry_count: the array has total_entry_count + 1 slots
TotalEntryCount ==
  Len(StaticNv(uri)) + Cardinality(DOMAIN headers) * 2
    + (IF upload THEN 1 ELSE 0)

\* nv[k] = v, or a write past the allocation
Store(acc, k, v) ==
  IF k \in DOMAIN acc.nv THEN [acc EXCEPT !.nv[k] = v]
  ELSE [acc EXCEPT !.oob = TRUE]

\* the static positions whose value a user header replaces
POS_HOST == 3
POS_ACCEPT == 4
POS_USERAGENT == 6

\* Mutant: a replacing header is written over the name slot.
OverrideSlotName(acc, n) ==
  CASE Lower[n] = "accept"     -> Store(acc, POS_ACCEPT * 2, headers[n])
    [] Lower[n] = "user-agent" -> Store(acc, POS_USERAGENT * 2, headers[n])
    [] Lower[n] = "host"       -> Store(acc, POS_HOST * 2, headers[n])
    [] OTHER -> [Store(Store(acc, acc.pos, n), acc.pos + 1, headers[n])
                   EXCEPT !.pos = @ + 2]

\* one iteration of the while loop over config.headers
AddUserHeader(acc, n) ==
  CASE Lower[n] = "accept"     -> Store(acc, POS_ACCEPT * 2 + 1, headers[n])
    [] Lower[n] = "user-agent" -> Store(acc, POS_USERAGENT * 2 + 1, headers[n])
    [] Lower[n] = "host"       -> Store(acc, POS_HOST * 2 + 1, headers[n])
    [] OTHER -> [Store(Store(acc, acc.pos, n), acc.pos + 1, headers[n])
                   EXCEPT !.pos = @ + 2]

\* the array after the memcpy of static_nv and the content-length entry,
\* whose value is req->data_length written by a stringstream
Prefilled ==
  LET st == StaticNv(uri)
      a0 == [nv |-> [k \in 0..TotalEntryCount |->
                      IF k < Len(st) THEN st[k + 1] ELSE "unset"],
             pos |-> Len(st), oob |-> FALSE]
  IN IF upload
     THEN [Store(Store(a0, a0.pos, "content-length"), a0.pos + 1,
                 data_length) EXCEPT !.pos = @ + 2]
     ELSE a0

\* the user headers, then nv[pos] = nullptr
BuildNv ==
  LET a == FoldLeft(AddUserHeader, Prefilled,
                    SelectSeq(NameOrder, LAMBDA n : n \in DOMAIN headers))
  IN Store(a, a.pos, "nullptr")

\* initiate_connection: config.headers.find("Host"), else the connect host
SniName == IF "Host" \in DOMAIN headers THEN headers["Host"] ELSE uri.host

\* 1 << b in a 32-bit int, as the build computes it: the shift count is
\* taken modulo 32 and 1 << 31 is INT_MIN (-2147483648)
ShiftLeft1(b) == IF b % 32 = 31 THEN -2147483647 - 1 ELSE 2 ^ (b % 32)

-----------------------------------------------------------------------------
(* communicate() and the HttpClient it owns: what is allocated, by which   *)
(* library call, and which pointer frees it.  A resource is live from its  *)
(* allocation to its free; its pointer is set from its allocation until it *)
(* is reset to nullptr.  frees counts the frees of each resource.          *)

\* the event base, the SSL_CTX, the evdns base, the SSL, the bufferevent
\* and the nghttp2 session
Res == {"evbase", "ssl_ctx", "dnsbase", "ssl", "bev", "session"}

NoResources == [ptr |-> {}, live |-> {}, frees |-> [r \in Res |-> 0]]

\* a successful allocation stored into its pointer
Alloc(h, r) == [h EXCEPT !.ptr = @ \cup {r}, !.live = @ \cup {r}]

\* if(p) { free(p); p = nullptr; }
FreeIf(h, r) ==
  IF r \in h.ptr
  THEN [h EXCEPT !.ptr = @ \ {r}, !.live = @ \ {r}, !.frees[r] = @ + 1]
  ELSE h

\* Mutant: SSL_free without resetting ssl to nullptr.
DisconnectKeepSsl(h) ==
  LET h1 == FreeIf(FreeIf(FreeIf(h, "session"), "bev"), "dnsbase")
  IN IF "ssl" \in h1.ptr
     THEN [h1 EXCEPT !.live = @ \ {"ssl"}, !.frees["ssl"] = @ + 1]
     ELSE h1

\* HttpClient::disconnect: nghttp2_session_del (of nullptr too, a no-op),
\* SSL_shutdown, then the bufferevent, the evdns base and the SSL
Disconnect(h) ==
  FreeIf(FreeIf(FreeIf(FreeIf(h, "session"), "bev"), "dnsbase"), "ssl")

\* communicate()'s fin label: SSL_CTX_free and event_base_free
Fin(h) == FreeIf(FreeIf(h, "ssl_ctx"), "evbase")

\* the library calls of communicate() and initiate_connection that can
\* fail, in the order they are made: SSL_CTX_new, loading the key and the
\* certificate, SSL_new, SSL_set_tlsext_host_name, and
\* bufferevent_socket_connect_hostname
SetupFails ==
  (IF no_tls THEN {}
   ELSE {"ssl_ctx", "ssl_new", "sni"} \cup ({"key", "cert"} \cap flags))
  \cup {"connect"}

\* initiate_connection on a client whose constructor made the evdns base:
\* over TLS an SSL with the SNI name, then a bufferevent and the connect;
\* a failure returns -1 with what was allocated left to the destructor
InitiateConnection(h, fail) ==
  LET hs == IF no_tls THEN h ELSE Alloc(h, "ssl")
      hb == Alloc(hs, "bev")
  IN CASE fail = "ssl_new" -> [heap |-> h, ok |-> FALSE]
       [] fail = "sni"     -> [heap |-> hs, ok |-> FALSE]
       [] fail = "connect" -> [heap |-> hb, ok |-> FALSE]
       [] OTHER            -> [heap |-> hb, ok |-> TRUE]

\* getopt is done.  run() opens and fstat()s config.datafile (a file that
\* does not exist makes run() return 1) and gives every Request
\* data_stat.st_size.  communicate() makes the event base and, unless
\* --no-tls, the SSL_CTX with the key, the certificate and the NPN
\* callback (a failure sets result to -1 and jumps to fin), constructs the
\* client (the evdns base) and calls initiate_connection, which sets the
\* SNI name and, when config.timeout is not -1, the timeval
\* { config.timeout, 0 }.  If it fails, the goto leaves the client's scope
\* (its destructor disconnects) for fin; otherwise the event loop runs.
Connect ==
  /\ pc = "parse" /\ args = <<>>
  /\ IF datafile = "missing"
     THEN pc' = "exit" /\ UNCHANGED <<data_length, sni, tv, heap, fault, result>>
     ELSE \E fail \in SetupFails \cup {"none"} :
          LET base == Alloc(NoResources, "evbase")
              ctx == IF no_tls THEN base ELSE Alloc(base, "ssl_ctx")
              ic == InitiateConnection(Alloc(ctx, "dnsbase"), fail)
          IN /\ data_length' = IF upload THEN "st_size" ELSE "indeterminate"
             /\ fault' = fail
             /\ IF fail \in {"ssl_ctx", "key", "cert"}
                THEN /\ heap' = Fin(IF fail = "ssl_ctx" THEN base ELSE ctx)
                     /\ result' = -1 /\ pc' = "returned"
                     /\ UNCHANGED <<sni, tv>>
                ELSE /\ sni' = IF no_tls \/ fail \in {"ssl_new", "sni"}
                               THEN NoField ELSE SniName
                     /\ result' = 0
                     /\ IF ic.ok
                        THEN /\ heap' = ic.heap /\ pc' = "loop"
                             /\ tv' = IF timeout # -1 THEN {timeout} ELSE {}
                        ELSE /\ heap' = Fin(Disconnect(ic.heap))
                             /\ pc' = "returned" /\ UNCHANGED tv
  /\ UNCHANGED <<optVars, uri, nv, oob, submitted, iv, cstate, writePending>>

\* the failures spec.md 7 lists for a session: setup errors (the TLS
\* context, key or certificate, the SSL and its SNI name, the framing
\* session), connect and DNS errors, a wrong next protocol, a timeout
SessionFaults ==
  {"ssl_ctx", "key", "cert", "ssl_new", "sni", "connect", "connect_error",
   "npn", "session_new", "settings", "timeout"}

\* the first failure of the session is the one it is remembered by
FirstFault(f) == IF fault = "none" THEN f ELSE fault

\* nghttp2_select_next_protocol: HTTP/2 if the server offers it, else
\* http/1.1 if offered (returning 0), else nothing (returning -1)
SelectNextProtocol(offer) ==
  IF "h2" \in offer THEN "h2" ELSE IF "http/1.1" \in offer THEN "http/1.1"
  ELSE "none"

\* on_connect, by how far it gets: nghttp2_session_client_new (open =
\* "session_new": it fails and on_connect returns at once), the connection
\* preface written to the bufferevent, SETTINGS with
\* SETTINGS_INITIAL_WINDOW_SIZE = 1 << window_bits when -w was given (open
\* = "settings": nghttp2_submit_settings fails and on_connect returns),
\* then submit_request for every Request (config.multiply of them for the
\* URI: none when it is 0 or negative) and on_write
OnConnect(open) ==
  [session |-> open # "session_new", written |-> open # "session_new",
   settings |-> IF open = "ok" /\ window_bits # -1
                THEN {[id |-> "INITIAL_WINDOW_SIZE",
                       value |-> ShiftLeft1(window_bits)]}
                ELSE {},
   submit |-> open = "ok" /\ multiply > 0]

\* eventcb(BEV_EVENT_CONNECTED), the TLS handshake done.  During it
\* client_select_next_proto_cb returned SSL_TLSEXT_ERR_OK whatever the
\* server offered, without setting *out when nothing was selected: OpenSSL
\* then copies an uninitialised pointer (undefined behaviour: a crash, or a
\* connection that goes on).  Then state = STATE_CONNECTED and on_connect,
\* whose result is ignored; TCP_NODELAY is output only.
EventConnected ==
  /\ pc = "loop" /\ "bev" \in heap.ptr /\ cstate = "IDLE"
  /\ \E offer \in SUBSET {"h2", "http/1.1"}, ub \in {"crash", "goes_on"},
        open \in {"session_new", "settings", "ok"} :
       LET proto == IF no_tls THEN "h2" ELSE SelectNextProtocol(offer)
           oc == OnConnect(open)
       IN IF proto = "none" /\ ub = "crash"
          THEN /\ pc' = "crashed"
               /\ UNCHANGED <<heap, cstate, fault, writePending, iv, submitted,
                              nv, oob>>
          ELSE /\ cstate' = "CONNECTED"
               /\ fault' = FirstFault(CASE proto # "h2"  -> "npn"
                                        [] open # "ok" -> open
                                        [] OTHER       -> "none")
               /\ heap' = IF oc.session THEN Alloc(heap, "session") ELSE heap
               /\ writePending' = oc.written
               /\ iv' = oc.settings
               /\ submitted' = oc.submit
               /\ IF oc.submit
                  THEN LET b == BuildNv IN nv' = b.nv /\ oob' = b.oob
                  ELSE UNCHANGED <<nv, oob>>
               /\ UNCHANGED pc
  /\ UNCHANGED <<optVars, uri, data_length, sni, tv, result>>

\* eventcb(BEV_EVENT_EOF), eventcb(BEV_EVENT_ERROR) (a failed connect or DNS
\* lookup in STATE_IDLE, a network error once connected) and
\* eventcb(BEV_EVENT_TIMEOUT) (only when the timeouts were set): disconnect
EventClose ==
  /\ pc = "loop" /\ "bev" \in heap.ptr
  /\ \E ev \in {"eof", "error", "timeout"} :
       /\ ev = "eof" => cstate = "CONNECTED"
       /\ ev = "timeout" => tv # {}
       /\ fault' = FirstFault(CASE ev = "error" /\ cstate = "IDLE"
                                     -> "connect_error"
                                [] ev = "timeout" -> "timeout"
                                [] OTHER -> "none")
  /\ heap' = Disconnect(heap) /\ cstate' = "IDLE"
  /\ UNCHANGED <<optVars, pc, connVars, result, writePending>>

\* readcb: on_read calls nghttp2_session_recv(client->session), a null
\* pointer when nghttp2_session_client_new failed: the program crashes.
\* Otherwise on_read either returns 0 (nothing modelled here changes) or
\* not (an error, or a session wanting neither to read nor to write), and
\* readcb disconnects.
ReadCb ==
  /\ pc = "loop" /\ "bev" \in heap.ptr /\ cstate = "CONNECTED"
  /\ IF "session" \notin heap.ptr
     THEN pc' = "crashed" /\ UNCHANGED <<heap, cstate>>
     ELSE heap' = Disconnect(heap) /\ cstate' = "IDLE" /\ UNCHANGED pc
  /\ UNCHANGED <<optVars, connVars, fault, result, writePending>>

\* writecb, once what was written has been sent: on_write, and disconnect
\* when it returns non-zero
WriteCb ==
  /\ pc = "loop" /\ "bev" \in heap.ptr /\ writePending
  /\ writePending' = FALSE
  /\ \E stop \in BOOLEAN :
       IF stop THEN heap' = Disconnect(heap) /\ cstate' = "IDLE"
       ELSE UNCHANGED <<heap, cstate>>
  /\ UNCHANGED <<optVars, pc, connVars, fault, result>>

\* event_base_loop returns once no event is pending, the bufferevent freed;
\* the client's destructor calls disconnect again; fin frees the SSL_CTX and
\* the event base; communicate() returns result
Return ==
  /\ pc = "loop" /\ "bev" \notin heap.ptr
  /\ heap' = Fin(Disconnect(heap)) /\ pc' = "returned"
  /\ UNCHANGED <<optVars, connVars, cstate, fault, result, writePending>>

\* the program has exited (help, an argument error, a missing data file),
\* or communicate() has returned, or the program crashed
Terminated ==
  /\ pc \in {"help", "exit", "returned", "crashed"}
  /\ UNCHANGED vars

Init ==
  /\ InitOptions
  /\ uri \in Uri
  /\ data_length = NoField
  /\ nv = <<>>
  /\ oob = FALSE
  /\ submitted = FALSE
  /\ sni = NoField
  /\ tv = {}
  /\ iv = {}
  /\ heap = NoResources
  /\ cstate = "IDLE"
  /\ writePending = FALSE
  /\ fault = "none"
  /\ result = 0

Next ==
  \/ ParseOption /\ UNCHANGED <<connVars, commVars>>
  \/ Connect
  \/ EventConnected \/ EventClose \/ ReadCb \/ WriteCb \/ Return
  \/ Terminated

Spec == Init /\ [][Next]_vars

-----------------------------------------------------------------------------
(* Properties                                                               *)

TypeOK ==
  /\ argv \in Seq(Arg) /\ IsSuffix(args, argv)
  /\ DOMAIN headers \subseteq Names /\ headers \in [DOMAIN headers -> Values]
  /\ timeout \in Int /\ window_bits \in -1..30 /\ multiply \in Int
  /\ datafile \in {NoField, "stdin", "file", "missing"} /\ no_tls \in BOOLEAN
  /\ flags \subseteq FlagOpts
  /\ pc \in {"parse", "help", "exit", "loop", "returned", "crashed"}
  /\ uri \in Uri /\ oob \in BOOLEAN /\ submitted \in BOOLEAN
  /\ submitted => DOMAIN nv = 0..TotalEntryCount
  /\ tv \subseteq Int
  /\ iv \subseteq [id : {"INITIAL_WINDOW_SIZE"}, value : Int]
  /\ heap \in [ptr : SUBSET Res, live : SUBSET Res, frees : [Res -> Nat]]
  /\ cstate \in {"IDLE", "CONNECTED"} /\ writePending \in BOOLEAN
  /\ fault \in SessionFaults \cup {"none"} /\ result \in {-1, 0}

\* the entries of nv up to the terminator, as name/value pairs
\* (all slots, when the terminator itself fell past the end)
Pairs ==
  LET t == IF \E k \in DOMAIN nv : nv[k] = "nullptr"
           THEN CHOOSE k \in DOMAIN nv : nv[k] = "nullptr"
           ELSE Cardinality(DOMAIN nv)
  IN [k \in 1..(t \div 2) |-> <<nv[2 * k - 2], nv[2 * k - 1]>>]

\* spec.md 6, written from its list: the defaults in order, content-length
\* when uploading, then each user header in iteration order, replacing the
\* value of the default of the same name (case-insensitively) or appended
SpecHostport ==
  LET h == IF uri.ipv6 THEN "[" \o uri.host \o "]" ELSE uri.host
  IN IF uri.port \in {0, DefaultPort(uri)} THEN h
     ELSE h \o ":" \o ToString(uri.port)
SpecDefaults ==
  << <<":method", IF upload THEN "POST" ELSE "GET">>,
     <<":path", IF uri.query = NoField
                THEN IF uri.path = NoField THEN "/" ELSE uri.path
                ELSE IF uri.path = NoField THEN "/?" \o uri.query
                     ELSE uri.path \o "?" \o uri.query>>,
     <<":scheme", uri.scheme>>, <<":host", SpecHostport>>,
     <<"accept", "*/*">>, <<"accept-encoding", "gzip, deflate">>,
     <<"user-agent", "nghttp2/VERSION">> >>
     \o (IF upload THEN << <<"content-length", "st_size">> >> ELSE <<>>)
SpecDefaultOf == [accept |-> "accept", host |-> ":host",
                  user_agent |-> "user-agent"]
SpecAddHeader(blk, n) ==
  LET key == IF Lower[n] = "user-agent" THEN "user_agent" ELSE Lower[n]
  IN IF key \in DOMAIN SpecDefaultOf
     THEN [k \in DOMAIN blk |->
             IF blk[k][1] = SpecDefaultOf[key] THEN <<blk[k][1], headers[n]>>
             ELSE blk[k]]
     ELSE Append(blk, <<n, headers[n]>>)
SpecBlock ==
  FoldLeft(SpecAddHeader, SpecDefaults,
           SelectSeq(NameOrder, LAMBDA n : n \in DOMAIN headers))

(* The HEADERS frame submit_request hands to nghttp2 is the header block  *)
(* of spec.md 6: pseudo-headers and defaults in order, content-length     *)
(* only for an upload, user headers replacing accept / user-agent / host  *)
(* case-insensitively and otherwise appended in config.headers' order.    *)
BlockMatchesSpec == submitted => Pairs = SpecBlock

(* submit_request writes every entry, the terminating nullptr included,   *)
(* inside the total_entry_count + 1 slots it allocates for nv.            *)
NvInBounds == submitted => ~oob

(* spec.md 6: a user-supplied Host header also becomes the TLS SNI name,  *)
(* so the SNI name initiate_connection sets is the host the :host header  *)
(* names.                                                                 *)
SniIsHostHeader ==
  (sni # NoField /\ \E n \in DOMAIN headers : Lower[n] = "host") =>
    \E k \in DOMAIN SpecBlock : SpecBlock[k] = <<":host", sni>>

(* The -t argument the timeout is taken from: getopt leaves the last one  *)
(* in config.timeout.                                                     *)
LastTimeoutArg ==
  argv[CHOOSE k \in DOMAIN argv :
         argv[k].opt = "t" /\ \A j \in (k + 1)..Len(argv) : argv[j].opt # "t"]

(* spec.md 5 and the help text: -t N times a read or a write out after N  *)
(* seconds, so the timeval initiate_connection hands to                   *)
(* bufferevent_set_timeouts holds N seconds.                              *)
TimeoutInSeconds == \A sec \in tv : sec = Atoi(LastTimeoutArg.arg)

(* spec.md 5, resource scoping: on every path out of communicate() (a      *)
(* setup error before the client exists, a failed initiate_connection left *)
(* to the destructor, or the event loop ending after eventcb, readcb or    *)
(* writecb disconnected) every resource it or its HttpClient allocated is  *)
(* released, and none is released twice although disconnect runs from the *)
(* callbacks and again from ~HttpClient.                                   *)
ResourcesReleasedOnce ==
  /\ \A r \in Res : heap.frees[r] <= 1
  /\ pc = "returned" => heap.live = {}

(* spec.md 4.5 and 7: a session that fails to set up, to connect or to     *)
(* negotiate HTTP/2, or that times out, is counted as a failure: the       *)
(* communicate() that ran it returns non-zero, which run() counts.         *)
FailedSessionsCounted ==
  (pc = "returned" /\ fault # "none") => result # 0

====

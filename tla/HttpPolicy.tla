------------------------------ MODULE HttpPolicy ------------------------------
(***************************************************************************)
(* What a request of df.http() or df.http_multipart() has become when it   *)
(* is sent (endpoints.rs, secrets.rs, ssrf.rs and the order in which       *)
(* execute_http.rs and execute_multipart.rs call them).  The address comes *)
(* from a URL or from a named endpoint, credentials from the endpoint and  *)
(* from secret bindings, the rest from the node, and each of them is       *)
(* checked at a different point.  Permits, connections and privileges are  *)
(* in module Activities.                                                   *)
(*                                                                         *)
(* A name is as it is spelt, in JSON or in a URL; a value is the place it  *)
(* comes from; a path is a sequence of segments as they are written; an    *)
(* address is its first and last 16 bits.  How libraries and servers read  *)
(* names and segments is external, and given by functions.                 *)
(***************************************************************************)
EXTENDS Integers, Sequences, FiniteSets, SequencesExt

CONSTANTS
    Requests,           \* node configurations, each with its endpoint and the policy
    ExactDomains, DomainSuffixes,    \* DomainAllowlist: hosts and suffixes, sequences of labels
    LiteralHosts,       \* LiteralHosts[h]: the address that host h is written as
    Addresses,          \* what a name can resolve to: <<family, first 16 bits, last 16 bits>>
    FieldNames, NoName, \* names of headers, parameters and form fields; none of them
    Lower,              \* Lower[n]: header names are compared without case
    DecodedName,        \* DecodedName[n]: names in a query are read percent-decoded
    Encoded,            \* Encoded[n]: and written percent-encoded
    Segments,           \* segments of paths
    Parsed,             \* Parsed[s]: what a URL parser makes of a segment
    Decoded             \* Decoded[s]: what the most generous server does

\* Header names in lower case are names themselves; what a parameter is encoded
\* to, is decoded to it.
ASSUME SpellingAssumption ==
    /\ Lower \in [FieldNames -> FieldNames] /\ DecodedName \in [FieldNames -> FieldNames]
    /\ \A n \in FieldNames : Lower[Lower[n]] = Lower[n]
    /\ \A n \in {"authorization", "content-type"} : n \in FieldNames /\ Lower[n] = n
    /\ DOMAIN Encoded \subseteq FieldNames
    /\ \A n \in DOMAIN Encoded : Encoded[n] \in FieldNames /\ DecodedName[Encoded[n]] = n
    /\ NoName \notin FieldNames

Bits16 == 0..65535

ASSUME AddressAssumption == Addresses \subseteq {"v4", "mapped", "v6"} \X Bits16 \X Bits16

Dots == {".", ".."}

\* A server takes dots for what they are.  A parser keeps what holds neither dots
\* nor separators, encoded or not, at most in another spelling.
ASSUME PathAssumption ==
    /\ Parsed \in [Segments -> Seq(Segments)] /\ Decoded \in [Segments -> Seq(Segments)]
    /\ \A s \in Segments \cap Dots : Decoded[s] = <<s>>
    /\ \A s \in Segments : Len(Decoded[s]) = 1 /\ Decoded[s][1] \notin Dots =>
            Len(Parsed[s]) = 1 /\ Decoded[Parsed[s][1]] = Decoded[s]

NoServer == [base |-> "none", host |-> <<>>, path |-> <<>>, auth |-> "none",
             header_name |-> NoName, query |-> {}, mapped |-> FALSE]
NoBindings == [headers |-> {}, query |-> {}, form |-> {}]

Url == [scheme : STRING, host : Seq(STRING), path : Seq(Segments), query : SUBSET FieldNames]
Server == [base : {"none", "http", "https"}, host : Seq(STRING), path : Seq(Segments),
           auth : {"none", "bearer", "header", "query"}, header_name : FieldNames \cup {NoName},
           query : SUBSET FieldNames, mapped : BOOLEAN]
Bindings == [headers : SUBSET FieldNames, query : SUBSET DOMAIN Encoded, form : SUBSET FieldNames]
Request == [security : {"disabled", "restricted", "unrestricted"}, endpoint : BOOLEAN,
            server : Server, url : Url, method : STRING, body : BOOLEAN, multipart : BOOLEAN,
            headers : SUBSET FieldNames, form_content_type : BOOLEAN, has_form : BOOLEAN,
            form_fields : SUBSET FieldNames, bindings : Bindings]

\* Only an endpoint has a server.  Its base path has been parsed, a scheme that
\* sends a header names one, and only a form has fields.
ASSUME RequestsAssumption ==
    \A r \in Requests :
        /\ r \in Request
        /\ ~r.endpoint => r.server = NoServer
        /\ \A i \in DOMAIN r.server.path :
                Parsed[r.server.path[i]] = <<r.server.path[i]>> /\ r.server.path[i] \notin Dots
        /\ r.server.auth = "header" => r.server.header_name # NoName
        /\ r.form_fields # {} => r.has_form

VARIABLES
    request,    \* the node's configuration, its endpoint and the policy
    prepared,   \* EndpointRequest: url and credential header
    fields,     \* the headers and form fields of the request
    address,    \* what the client connected to
    stage       \* the next check, "sent", "refused" or "parked"

httpvars == <<request, prepared, fields, address, stage>>

-------------------------------------------------------------------------------
(* External: a URL parser resolves dot segments, percent-encoded ones too, *)
(* and takes a backslash for a separator; a server may decode more.        *)

\* What the segments of a path are read as, by one or the other.
SegmentsOf(read, path) ==
    LET upto[n \in 0..Len(path)] == IF n = 0 THEN <<>> ELSE upto[n - 1] \o read[path[n]]
    IN  upto[Len(path)]

\* One segment further.
Enter(at, segment) ==
    CASE segment = "."  -> at
      [] segment = ".." -> IF at = <<>> THEN at ELSE Front(at)
      [] OTHER          -> Append(at, segment)

\* Where a path leads.
Resolved(path) ==
    LET at[n \in 0..Len(path)] == IF n = 0 THEN <<>> ELSE Enter(at[n - 1], path[n])
    IN  at[Len(path)]

Normalized(path) == Resolved(SegmentsOf(Parsed, path))
AsServed(path) == Resolved(SegmentsOf(Decoded, path))

-------------------------------------------------------------------------------
(* Endpoints *)

Routing == {"host", "content-type", "content-length", "transfer-encoding", "connection",
            "proxy-authorization", "proxy-authenticate", "te", "trailer", "upgrade", "keep-alive"}

\* EndpointConfig::from_options
from_options(server) ==
    /\ server.base # "none" => server.base = "https"
    /\ server.auth = "header" => Lower[server.header_name] \notin Routing
    /\ server.base = "none" => server.auth = "none"

\* resolve_auth: the user mapping has the option the scheme asks for.
resolve_auth(server) == server.auth = "none" \/ server.mapped

\* A bug: only dot segments as they are written.
PlainTraversal(path) == path # <<>> /\ \A i \in DOMAIN path : path[i] # ".."

validate_endpoint_path(path) ==
    /\ path # <<>>
    /\ Len(path) > 1 => path[1] # ""
    /\ \A i \in DOMAIN path : Len(Decoded[path[i]]) = 1 /\ Decoded[path[i]][1] \notin Dots

CredentialHeader(server) ==
    CASE server.auth = "bearer" -> "authorization" [] server.auth = "header" -> Lower[server.header_name]
      [] OTHER -> NoName

Field(name, from) == [name |-> name, from |-> from]

Fields(names, from) == {Field(n, from) : n \in names}

\* compose_endpoint_url and prepare_endpoint_request
prepare_endpoint_request ==
    LET server == request.server
        composed == Normalized(server.path \o request.url.path)
        credentials == IF server.auth = "query" THEN server.query ELSE {}
        names == {DecodedName[q] : q \in credentials}
    IN  [ok |-> /\ validate_endpoint_path(request.url.path)
                /\ from_options(server) /\ server.base # "none" /\ resolve_auth(server)
                /\ IsStrictPrefix(server.path, composed)
                /\ \A h \in request.headers : Lower[h] \notin {"host", CredentialHeader(server)}
                /\ \A q \in request.url.query : DecodedName[q] \notin names,
         value |-> [url |-> [scheme |-> server.base, host |-> server.host,
                             path |-> composed,
                             query |-> Fields(request.url.query, "request")
                                         \cup Fields(credentials, "endpoint")],
                    credential_header |-> CredentialHeader(server)]]

prepare_request ==
    IF request.endpoint THEN prepare_endpoint_request
    ELSE [ok |-> TRUE,
          value |-> [url |-> [request.url EXCEPT
                        !.query = Fields(request.url.query, "request"),
                        !.path = Normalized(request.url.path)],
                     credential_header |-> NoName]]

-------------------------------------------------------------------------------
(* Secret bindings *)

form_mode == request.has_form \/ request.bindings.form # {}

\* SecretBindings::validate
BindingsValid ==
    /\ \A n \in request.bindings.headers : Lower[n] \notin Routing
    /\ \A m, n \in request.bindings.headers : Lower[m] = Lower[n] => m = n

\* SecretOptions::validate
validate ==
    /\ BindingsValid
    /\ form_mode =>
        /\ ~request.multipart /\ ~request.body
        /\ request.method \in {"POST", "PUT", "PATCH"}
        /\ request.form_fields \cap request.bindings.form = {}
        /\ \A h \in request.headers :
            Lower[h] \notin {"content-length", "transfer-encoding"}
            /\ (Lower[h] = "content-type" => request.form_content_type)

\* A bug: names compared as they are spelt.
AsSpelt ==
    /\ request.headers \cap request.bindings.headers = {}
    /\ \A q \in prepared.url.query : q.name \notin request.bindings.query

validate_destinations ==
    LET active == request.bindings.headers \cup request.bindings.query
                    \cup request.bindings.form # {}
        bound == {Lower[h] : h \in request.bindings.headers}
    IN  /\ \A h \in request.headers : ~(active /\ Lower[h] = "host") /\ Lower[h] \notin bound
        /\ prepared.credential_header \notin bound
        /\ \A q \in prepared.url.query : DecodedName[q.name] \notin request.bindings.query

\* materialize(): bound parameters are encoded, and follow those of the URL.
BoundQuery == Fields({Encoded[n] : n \in request.bindings.query}, "secret")

\* A bound form field takes the place of an ordinary one.
FormBody ==
    Fields(request.form_fields \ request.bindings.form, "request")
        \cup Fields(request.bindings.form, "secret")

\* RequestBuilder: header() appends, headers() replaces.
Replace(headers, new) ==
    {h \in headers : Lower[h.name] \notin {Lower[n.name] : n \in new}} \cup new

\* The client gives a form or multipart body its content type.
TypedBody == form_mode \/ request.multipart

\* The headers, after those of the node, of the endpoint and of the bindings.
Assembled ==
    LET ordinary == {h \in request.headers : TypedBody => Lower[h] # "content-type"}
        endpoint == {prepared.credential_header} \ {NoName}
    IN  Replace(Fields(ordinary, "request") \cup Fields(endpoint, "endpoint"),
                Fields({Lower[n] : n \in request.bindings.headers}, "secret"))
        \cup Fields(IF TypedBody THEN {"content-type"} ELSE {}, "client")

-------------------------------------------------------------------------------
(* Address and domain policy *)

validate_scheme ==
    \/ prepared.url.scheme = "https"
    \/ prepared.url.scheme = "http" /\ request.security # "restricted"

\* DomainAllowlist::validate: a name, never an address.
AllowedDomain(host) ==
    /\ host \notin DOMAIN LiteralHosts
    /\ \/ host \in ExactDomains
       \/ \E s \in DomainSuffixes : Len(host) > Len(s) /\ IsSuffix(s, host)

validate_allowlist ==
    CASE request.security = "disabled"     -> FALSE
      [] request.security = "unrestricted" -> TRUE
      [] OTHER                             -> AllowedDomain(prepared.url.host)

check_blocked_ipv4(n) ==
    LET a == n \div 256
        b == n % 256
    IN  \/ a \in {0, 10, 127}
        \/ a = 100 /\ b \in 64..127
        \/ a = 169 /\ b = 254
        \/ a = 172 /\ b \in 16..31
        \/ a = 192 /\ b = 168

\* An IPv4-mapped IPv6 address is the address it embeds; a segment is masked.
check_blocked_ip(addr) ==
    CASE addr[1] \in {"v4", "mapped"} -> check_blocked_ipv4(addr[2])
      [] OTHER -> \/ addr[2] = 0 /\ addr[3] \in {0, 1}
                  \/ addr[2] - (addr[2] % 64) = 65152
                  \/ addr[2] - (addr[2] % 512) = 64512

-------------------------------------------------------------------------------
HttpInit ==
    /\ request \in Requests
    /\ prepared = [url |-> request.url, credential_header |-> NoName]
    /\ fields = [headers |-> {}, form |-> {}]
    /\ address = <<>>
    /\ stage = "validate"

\* One check of execute(): the next stage, or the end of the request.
Check(at, ok, next) ==
    /\ stage = at
    /\ stage' = IF ok THEN next ELSE "refused"
    /\ UNCHANGED <<request, address>>

ValidateOptions == Check("validate", validate, "prepare") /\ UNCHANGED <<prepared, fields>>

PrepareRequest ==
    LET out == prepare_request
    IN  /\ Check("prepare", out.ok, "scheme")
        /\ prepared' = IF out.ok THEN out.value ELSE prepared
        /\ UNCHANGED fields

CheckScheme == Check("scheme", validate_scheme, "allowlist") /\ UNCHANGED <<prepared, fields>>

CheckAllowlist == Check("allowlist", validate_allowlist, "bind") /\ UNCHANGED <<prepared, fields>>

\* SecretOptions::resolve: destinations first, then the values.
ResolveBindings ==
    /\ Check("bind", validate_destinations, "assemble")
    /\ prepared' = IF validate_destinations
                   THEN [prepared EXCEPT !.url.query = @ \cup BoundQuery]
                   ELSE prepared
    /\ UNCHANGED fields

AssembleRequest ==
    /\ Check("assemble", TRUE, "connect")
    /\ fields' = [headers |-> Assembled, form |-> FormBody]
    /\ UNCHANGED prepared

\* A host written as an address is not resolved.  In restricted mode the client
\* uses no proxy and its own resolver, which keeps what is not blocked.
Connect(answers) ==
    LET host == prepared.url.host
        reachable == IF host \in DOMAIN LiteralHosts THEN {LiteralHosts[host]}
                     ELSE IF request.security = "restricted"
                     THEN {a \in answers : ~check_blocked_ip(a)} ELSE answers
    IN  /\ stage = "connect"
        /\ \/ /\ reachable = {}
              /\ stage' = "refused"
              /\ UNCHANGED address
           \/ \E a \in reachable : stage' = "sent" /\ address' = a
        /\ UNCHANGED <<request, prepared, fields>>

HttpNext ==
    \/ ValidateOptions \/ PrepareRequest \/ CheckScheme \/ CheckAllowlist
    \/ ResolveBindings \/ AssembleRequest
    \/ \E a, b \in Addresses : Connect({a, b})

HttpSpec == HttpInit /\ [][HttpNext]_httpvars

-------------------------------------------------------------------------------
\* The first 16 bits n belong to the network that begins at a.b and has the
\* given number of them.
InNetwork(n, a, b, size) == a * 256 + b <= n /\ n < a * 256 + b + size

Internal(addr) ==
    IF addr[1] = "v6"
    THEN \/ addr[2] = 0 /\ addr[3] <= 1
         \/ InNetwork(addr[2], 254, 128, 64)
         \/ InNetwork(addr[2], 252, 0, 512)
    ELSE \/ InNetwork(addr[2], 0, 0, 256) \/ InNetwork(addr[2], 10, 0, 256)
         \/ InNetwork(addr[2], 100, 64, 64) \/ InNetwork(addr[2], 127, 0, 256)
         \/ InNetwork(addr[2], 169, 254, 1) \/ InNetwork(addr[2], 172, 16, 16)
         \/ InNetwork(addr[2], 192, 168, 1)

\* The order of checks that execute_http.rs:176 spells out: a request that is sent
\* goes, in restricted mode, over HTTPS to an allowed name and to no internal
\* address, whatever that name resolved to; nothing is sent when requests are
\* disabled; and a request to an endpoint stays at the endpoint's host and below
\* its base path, as the server reads both.
OnlyAllowedDestinations ==
    stage = "sent" =>
        /\ request.security # "disabled"
        /\ request.security = "restricted" =>
            /\ prepared.url.scheme = "https"
            /\ ~Internal(address)
            /\ \/ prepared.url.host \in ExactDomains
               \/ \E s \in DomainSuffixes : IsStrictSuffix(s, prepared.url.host)
        /\ request.endpoint =>
            /\ prepared.url.scheme = "https"
            /\ prepared.url.host = request.server.host
            /\ IsStrictPrefix(AsServed(request.server.path), AsServed(prepared.url.path))

\* The fields a reader takes for a name, and that there is one, from one place.
Named(set, read, name) == {f \in set : read[f.name] = name}
Once(set, read, name, from) == \E f \in set : f.from = from /\ Named(set, read, name) = {f}
AsIs == [n \in FieldNames |-> n]

\* Credentials and the rest of the request meet in the same headers, query and
\* form (secrets.rs:189, endpoints.rs:145): in a request that is sent, each
\* credential of the endpoint and each bound secret is in its place, nothing else
\* has that name under any spelling, and it takes the place of nothing else; the
\* request names no host of its own next to a credential, and a form or multipart
\* body has the one content type the client gave it.
CredentialsArriveOnce ==
    stage = "sent" =>
        LET server == request.server
            bound == request.bindings
            headers == fields.headers
            query == prepared.url.query
        IN  /\ CredentialHeader(server) # NoName =>
                    Once(headers, Lower, CredentialHeader(server), "endpoint")
            /\ server.auth = "query" =>
                    \A q \in server.query :
                        /\ Field(q, "endpoint") \in query
                        /\ \A f \in Named(query, DecodedName, DecodedName[q]) : f.from = "endpoint"
            /\ \A n \in bound.headers : Once(headers, Lower, Lower[n], "secret")
            /\ \A n \in bound.query : Once(query, DecodedName, n, "secret")
            /\ \A n \in bound.form : Once(fields.form, AsIs, n, "secret")
            /\ Fields({h \in request.headers : TypedBody => Lower[h] # "content-type"}, "request")
                    \subseteq headers
            /\ Fields(request.form_fields, "request") \subseteq fields.form
            /\ bound # NoBindings \/ request.endpoint => Named(headers, Lower, "host") = {}
            /\ TypedBody => Once(headers, Lower, "content-type", "client")
===============================================================================

---------------------------- MODULE MCAlgorithms ----------------------------
(***************************************************************************)
(* The four parts of pg_durable that compute something for one caller, on  *)
(* bounded inputs: a graph and its rows, a text and its values, a request  *)
(* and its destination, an instance listing and its pages.  A behaviour    *)
(* runs one of them and leaves the others where they are.                  *)
(***************************************************************************)
EXTENDS GraphConstruction, InstanceListing, Substitution, HttpPolicy

\* A string of every kind of character that means something in SQL or in a text.
MCStrings == {<<>>, <<"'">>, <<"\\">>, <<"\\", "'">>, <<"$", "r", "r">>, <<"{", "v", "}">>}
MCNumbers == {<<"1">>, <<"-", "1">>}

MCExact == {<<"api", "com">>}
MCSuffixes == {<<"net">>}
MCHosts == {<<"api", "com">>, <<"x", "net">>, <<"net">>, <<"x", "api", "com">>, <<"10.0">>}
MCLiteralHosts == [h \in {<<"10.0">>} |-> <<"v4", 2560, 0>>]

\* Both sides of every boundary between internal and public addresses.
MCAddresses ==
    {<<"v4", n, 0>> : n \in {8 * 256 + 8, 192 * 256 + 168}}
    \cup {<<"v4", 100 * 256 + b, 0>> : b \in {63, 64, 127, 128}}
    \cup {<<"v4", 172 * 256 + b, 0>> : b \in {15, 16, 31, 32}}
    \cup {<<"mapped", 127 * 256, 0>>}
    \cup {<<"v6", n, 2>> : n \in {0, 64511, 64512, 65023, 65024, 65151, 65152, 65215, 65216}}
    \cup {<<"v6", 0, 0>>, <<"v6", 0, 1>>}

\* Names that readers take for others, and a bound name that looks encoded.
MCFieldNames == {"x-key", "X-Key", "authorization", "Authorization", "host", "Host",
                 "content-type", "Content-Type", "key", "k%65y", "k%2565y", "f", "g"}
MCLower == [n \in MCFieldNames |->
    CASE n = "X-Key" -> "x-key" [] n = "Authorization" -> "authorization"
      [] n = "Host" -> "host" [] n = "Content-Type" -> "content-type" [] OTHER -> n]
MCDecodedName == [n \in MCFieldNames |->
    CASE n = "k%65y" -> "key" [] n = "k%2565y" -> "k%65y" [] OTHER -> n]
MCEncoded == [n \in {"key", "k%65y"} |-> IF n = "key" THEN n ELSE "k%2565y"]

\* Segments that are dots, or hold separators, as they are written or encoded.
MCSegments == {"v1", "a", "", ".", "..", "%2e%2e", "..%2fa", "..\\a", "{x}", "%7Bx%7D"}
MCDecoded == [s \in MCSegments |->
    CASE s = "%2e%2e" -> <<"..">> [] s \in {"..%2fa", "..\\a"} -> <<"..", "a">>
      [] s = "%7Bx%7D" -> <<"{x}">> [] OTHER -> <<s>>]
MCParsed == [s \in MCSegments |->
    CASE s \in {"..%2fa", "%7Bx%7D"} -> <<s>> [] s = "{x}" -> <<"%7Bx%7D">> [] OTHER -> MCDecoded[s]]

PlainUrl == [scheme |-> "https", host |-> <<"api", "com">>, path |-> <<"a">>, query |-> {}]
Plain == [security |-> "restricted", endpoint |-> FALSE, server |-> NoServer, url |-> PlainUrl,
          method |-> "POST", body |-> FALSE, multipart |-> FALSE, headers |-> {},
          form_content_type |-> TRUE, has_form |-> FALSE, form_fields |-> {}, bindings |-> NoBindings]
SomeServer == [NoServer EXCEPT !.base = "https", !.host = <<"api", "com">>, !.path = <<"v1">>]

\* Requests that differ in where they go.
Destinations ==
    {[Plain EXCEPT !.security = s, !.url.scheme = c, !.url.host = h] :
        s \in {"disabled", "restricted", "unrestricted"}, c \in {"http", "https", "file"}, h \in MCHosts}
    \cup
    {[Plain EXCEPT !.endpoint = TRUE, !.url.path = p, !.security = s,
        !.server = [SomeServer EXCEPT !.base = b, !.host = h]] :
        p \in UNION {[1..n -> MCSegments \ {"v1"}] : n \in 0..2}, h \in MCHosts,
        b \in {"https", "http", "none"}, s \in {"restricted", "unrestricted"}}

\* Requests that differ in what they carry: headers, parameters, form fields.
Servers == {[SomeServer EXCEPT !.auth = a, !.mapped = m, !.header_name = n, !.query = {"key"}] :
                a \in {"none", "bearer", "header", "query"}, m \in BOOLEAN, n \in {"X-Key", "Host"}}

Carrying(v, q, h, bindings, f, m) ==
    [Plain EXCEPT !.endpoint = (v # NoServer), !.server = v, !.url.query = q, !.headers = h,
        !.bindings = bindings, !.has_form = f[1], !.form_fields = f[2], !.multipart = m]

CarriedHeaders ==
    {Carrying(v, {}, h, [headers |-> bh, query |-> bq, form |-> bf], f, m) :
        v \in Servers \cup {NoServer},
        h \in {{}, {"X-Key"}, {"Authorization"}, {"Host"}, {"Content-Type"}, {"x-key", "X-Key"}},
        bh \in {{}, {"X-Key"}, {"Authorization", "x-key"}, {"x-key", "X-Key"}, {"Host"}},
        bq \in {{}, {"key"}}, bf \in {{}, {"f"}}, f \in {<<FALSE, {}>>, <<TRUE, {}>>}, m \in BOOLEAN}

CarriedQuery ==
    {Carrying(v, q, h, [headers |-> bh, query |-> bq, form |-> {}], <<FALSE, {}>>, FALSE) :
        v \in Servers \cup {NoServer}, q \in {{}, {"key"}, {"k%65y"}, {"key", "k%65y"}},
        h \in {{}, {"X-Key"}}, bh \in {{}, {"X-Key"}}, bq \in {{}, {"key"}, {"k%65y"}, {"key", "k%65y"}}}

CarriedForm ==
    {Carrying(v, {}, h, [headers |-> {}, query |-> {}, form |-> bf], f, m) :
        v \in Servers \cup {NoServer}, h \in {{}, {"Content-Type"}}, bf \in {{}, {"f"}},
        f \in {<<FALSE, {}>>, <<TRUE, {}>>, <<TRUE, {"f"}>>, <<TRUE, {"g"}>>}, m \in BOOLEAN}

MCRequests == Destinations \cup CarriedHeaders \cup CarriedQuery \cup CarriedForm

NoGraph == fut = Absent /\ phase = "parked" /\ pending = <<>> /\ nodes = <<>> /\ rows = <<>>
NoListing ==
    /\ clock = 0 /\ starting = {} /\ listed = {} /\ known = {}
    /\ call = "done" /\ cursor = NoCursor /\ page = {} /\ more = NoCursor
    /\ got = <<>> /\ steady = {} /\ gap = FALSE
NoText ==
    /\ template = <<>> /\ result = Other /\ variable = "one" /\ quoting = "raw"
    /\ standard = TRUE /\ text = <<>> /\ step = "parked"
NoRequest ==
    /\ request = Plain /\ prepared = [url |-> PlainUrl, credential_header |-> NoName]
    /\ fields = [headers |-> {}, form |-> {}] /\ address = <<>> /\ stage = "parked"

AlgorithmsInit ==
    \/ GraphInit /\ NoListing /\ NoText /\ NoRequest
    \/ NoGraph /\ ListInit /\ NoText /\ NoRequest
    \/ NoGraph /\ NoListing /\ SubstInit /\ NoRequest
    \/ NoGraph /\ NoListing /\ NoText /\ HttpInit

AlgorithmsNext ==
    \/ GraphNext /\ UNCHANGED <<listvars, substvars, httpvars>>
    \/ ListNext /\ UNCHANGED <<graphvars, substvars, httpvars>>
    \/ SubstNext /\ UNCHANGED <<graphvars, listvars, httpvars>>
    \/ HttpNext /\ UNCHANGED <<graphvars, listvars, substvars>>

Algorithms == AlgorithmsInit /\ [][AlgorithmsNext]_<<graphvars, listvars, substvars, httpvars>>
=============================================================================

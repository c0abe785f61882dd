--------------------------- MODULE RequestReading ---------------------------
(***************************************************************************)
(* A browser request on its way to the injection router, and what the      *)
(* router reads of it: callerOf, the same-origin gate, the session cookie, *)
(* and the Cookie header it leaves for the upstream                        *)
(* (src/modes/injection/router.mts).  On the way it passes trusted proxies, *)
(* each of which reports the peer it saw.  A node nobody trusts is a sender *)
(* like any other: what reached it is among what it may claim.             *)
(***************************************************************************)
EXTENDS RequestSource, CookieExtractor, OriginGate

CONSTANTS Starts    \* the requests considered, as their senders send them

\* A request as it leaves its sender: what a browser says of it is what it says of
\* the page that made it.
Sendable(request) ==
    /\ request.signals \in Signals /\ request.public \in PublicOrigins
    /\ request.cookies \in Seq(Pair) \cup {None}
    /\ request.page # "no_browser" =>
          BrowserSends(request.signals, request.page, request.target)

ASSUME StartsAssumption ==
    \A s \in Starts :
        /\ Sendable(s.request)
        /\ s.sender \in Address /\ s.xff \in Seq(Entry) /\ s.proto \in Seq(Scheme)

VARIABLES
    req,        \* page, target, signals, cookies, public, hops: fixed on the way
    route,      \* the nodes passed, the sender first
    readable,   \* readable[i]: node i reported the one before it as an address
    xff,        \* X-Forwarded-For
    proto,      \* X-Forwarded-Proto, its values with their writers
    caller,     \* what the router read: None before
    forwarded   \* the Cookie header left for the upstream

readingVars == <<req, route, readable, xff, proto, caller, forwarded>>

Travelling == caller = None

\* A sender that is itself trusted makes no claims of its own.
ReadingInit ==
    /\ \E s \in Starts :
          /\ s.sender \in Trusted => s.xff = <<>> /\ s.proto = <<>>
          /\ req = s.request
          /\ route = <<s.sender>>
          /\ xff = s.xff
          /\ proto = [i \in 1..Len(s.proto) |-> [value |-> s.proto[i], by |-> s.sender]]
    /\ readable = <<TRUE>>
    /\ caller = None
    /\ forwarded = None

\* External: a trusted proxy appends the peer it saw, in a form this proxy can
\* read or not, and says the scheme it saw, in place of what came or after it.
TrustedHop(p) ==
    /\ Travelling /\ Len(route) <= req.hops
    /\ \E plain \in BOOLEAN, scheme \in {"http", "https"} :
          /\ readable' = Append(readable, plain)
          /\ xff' = Append(xff, IF plain THEN Last(route) ELSE "no_ip")
          /\ \/ proto' = <<[value |-> scheme, by |-> p]>>
             \/ proto' = Append(proto, [value |-> scheme, by |-> p])
    /\ route' = Append(route, p)
    /\ UNCHANGED <<req, caller, forwarded>>

\* The router reads the request, whose socket may have lost its peer by then;
\* forwarded is the Cookie header of every outcome that forwards.
Reads(socket, lost) ==
    /\ Travelling /\ Len(route) > req.hops
    /\ LET source == requestSource(IF lost THEN None ELSE Last(route), socket, xff, proto)
       IN  caller' = [source |-> source,
                      sameOrigin |-> sameOriginGate(req.signals, source.protocol, req.public),
                      cookie |-> extractCookie(req.cookies),
                      lost |-> lost]
    /\ forwarded' = withoutCookie(req.cookies)
    /\ UNCHANGED <<req, route, readable, xff, proto>>

ReadingNext ==
    \/ \E p \in Trusted : TrustedHop(p)
    \/ \E socket \in {"http", "https"}, lost \in BOOLEAN : Reads(socket, lost)

ReadingSpec == ReadingInit /\ [][ReadingNext]_readingVars

----------------------------------------------------------------------------
(* Properties.                                                             *)

\* Everything after node j vouches for j: trusted, and reporting readably.
VouchedFor(j) == \A i \in (j + 1)..Len(route) : route[i] \in Trusted /\ readable[i]

\* What the provider is told of the request's source is true, whatever the
\* browser and the proxies nobody trusts wrote: the address is that of a node the
\* request really passed, the farthest one the trusted chain vouches for, and the
\* scheme is the socket's or one a trusted proxy wrote, never the browser's own.
SourceIsVouched ==
    ~ Travelling =>
        LET source == caller.source
        IN  /\ IF caller.lost THEN source.address = None
               ELSE \E j \in 1..Len(route) :
                        /\ source.address = route[j]
                        /\ VouchedFor(j)
                        /\ j = 1 \/ ~ VouchedFor(j - 1)
            /\ source.from \in {"socket"} \cup Trusted

\* A request shares the session cache and the flights only if, had the provider
\* been asked, it would have admitted it too; and when a browser sent it, a page
\* of the proxy's own made it: of its public origin, or of the origin it went to.
GateIsStricter ==
    ~ Travelling /\ caller.sameOrigin =>
        /\ ProviderAdmits(req.signals, caller.source.protocol,
                          IF req.public = None THEN "https_site" ELSE req.public)
        /\ req.page \in {"no_browser", req.target, req.public}

\* RFC 6265: octets only, in one pair of quotes or none, and some of them.
WellFormed(value) ==
    \E n \in 1..Len(value) :
        \/ n = Len(value) /\ \A i \in 1..n : value[i] = "octet"
        \/ /\ n = Len(value) - 2 /\ value[1] = "dquote" /\ value[n + 2] = "dquote"
           /\ \A i \in 2..(n + 1) : value[i] = "octet"

\* The session cookie is read from the first of its pairs that is well formed,
\* wherever malformed ones of the same name stand, which are reported; what goes
\* to the upstream holds no pair of that name, well formed or not, and every
\* other pair, in order.
CookieReadAndRemoved ==
    ~ Travelling =>
        LET pairs == IF req.cookies = None THEN <<>> ELSE req.cookies
            rest == IF forwarded = None THEN <<>> ELSE forwarded
            session == {i \in 1..Len(pairs) : isSession(pairs[i])}
            good == {i \in session : WellFormed(pairs[i].value)}
            before(i) == {j \in session : j < i}
            another == {pair \in ToSet(pairs) : pair.name = "another"}
        IN  /\ caller.cookie.kind = CASE session = {} -> "absent"
                                      [] session # {} /\ good = {} -> "rejected"
                                      [] OTHER -> "found"
            /\ \A i \in good : good \cap before(i) = {} =>
                  /\ caller.cookie.value = pairs[i].value
                  /\ (caller.cookie.skipped = None) <=> (before(i) = {})
            /\ extractCookie(forwarded).kind = "absent"
            /\ Keeping(rest, another) = Keeping(pairs, another)

----------------------------------------------------------------------------
(* The inductive invariant.                                                *)

\* Every node after the sender is a trusted proxy.
RouteIsTrusted ==
    /\ route \in Seq(Address) /\ Len(route) >= 1
    /\ \A i \in 2..Len(route) : route[i] \in Trusted
    /\ readable \in Seq(BOOLEAN) /\ Len(readable) = Len(route)

\* The last entries of X-Forwarded-For are the nodes' reports, in their order, and
\* what stands before them is the claim of a sender nobody trusts.
ReportsStandLast ==
    /\ xff \in Seq(Entry) /\ Len(xff) >= Len(route) - 1
    /\ \A i \in 2..Len(route) :
          xff[Len(xff) - Len(route) + i] = IF readable[i] THEN route[i - 1] ELSE "no_ip"
    /\ route[1] \in Trusted => Len(xff) = Len(route) - 1

\* The last scheme is a trusted proxy's, once the request has passed one.
SchemeIsReported ==
    /\ proto \in Seq([value : Scheme, by : Address])
    /\ Len(route) = 1 /\ route[1] \in Trusted => proto = <<>>
    /\ Len(route) > 1 => Len(proto) >= 1 /\ proto[Len(proto)].by \in Trusted

ReadingInv ==
    /\ Sendable(req)
    /\ RouteIsTrusted /\ ReportsStandLast /\ SchemeIsReported
    /\ SourceIsVouched /\ GateIsStricter /\ CookieReadAndRemoved
=============================================================================

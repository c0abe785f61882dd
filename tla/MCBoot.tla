------------------------------- MODULE MCBoot -------------------------------
(* The settings from four sides: every shape of the client settings of each  *)
(* mode, every JWK, and every other setting away from its default in turn.   *)
EXTENDS Boot

Written(kind, n) == [kind |-> kind, n |-> n]
Numbers == {Unset, Empty, Written("other", 0)} \cup
             {Written(kind, n) : kind \in {"number", "digits"}, n \in 0..(MaxSafe + 1)}
Booleans == {Unset, Empty, "literal true", "literal false", "true", "false", "other"}
Texts(class) == {Unset, Empty, class}
Urls == {Unset, Empty, "origin", "variant", "cleaned", "path", "userinfo", "data", "no_url"}
Lists(entries) == {Unset, Empty} \cup [as : {"list", "string"}, entries : SUBSET entries]

GoodKey == [type |-> "P-256", private |-> TRUE, use |-> "sig", ops |-> Unset, alg |-> Unset,
            kid |-> "name", forms |-> TRUE, long |-> FALSE, matches |-> TRUE]
Keys == {Unset, Empty, Garbage, GoodKey, [GoodKey EXCEPT !.matches = FALSE]}
Issuers == {Unset, Empty, "https", "loopback", "http", "query"}

Default ==
    [hostname |-> Unset, port |-> Unset, pathPrefix |-> Unset, bodyLimitSize |-> Unset, pattern |-> Unset,
     mode |-> "validation", baseURL |-> "origin",
     validation |->
        [clientId |-> Unset, clientSecret |-> Unset, clientKey |-> Unset, providerIssuer |-> Unset,
         realm |-> Unset, url |-> "path", cacheTtlSec |-> Unset, cacheMaxEntries |-> Unset, timeoutMs |-> Unset],
     injection |->
        [providerOrigin |-> "origin", clientId |-> "id", clientKey |-> Unset, providerIssuer |-> Unset,
         scope |-> "scope", sessionCookieName |-> "token", stripInboundAuthorization |-> Unset,
         publicOrigin |-> Unset, trustedProxies |-> Unset, ttlSeconds |-> Unset, maxEntries |-> Unset,
         safetyMarginSeconds |-> Unset, timeoutMs |-> Unset,
         exchange |-> [enabled |-> Unset, clientId |-> Unset, clientSecret |-> Unset, clientKey |-> Unset,
                       allowedIssuers |-> Unset]]]
Injecting == [Default EXCEPT !.mode = "injection"]

ValidationClients ==
    {[Default EXCEPT !.validation = [@ EXCEPT !.clientId = id, !.clientSecret = secret,
                                              !.clientKey = key, !.providerIssuer = issuer]] :
        id \in Texts("id"), secret \in Texts("secret"), key \in Keys, issuer \in Issuers}

InjectionClients ==
    {[Injecting EXCEPT !.injection =
        [@ EXCEPT !.clientKey = key, !.providerIssuer = issuer,
                  !.exchange = [@ EXCEPT !.enabled = enabled, !.clientId = id, !.clientSecret = secret,
                                         !.clientKey = xkey]]] :
        key \in Keys \ {Garbage}, issuer \in Issuers \ {"loopback", "query"}, enabled \in {Unset, "true", "false"},
        id \in Texts("id"), secret \in Texts("secret"), xkey \in Keys \ {Garbage}}

EveryJwk ==
    {[Default EXCEPT !.validation = [@ EXCEPT !.clientId = "id", !.clientKey = jwk, !.providerIssuer = "https"]] :
        jwk \in {j \in Jwk : j.type # "RSA" => ~ j.long}}

\* One record with one field changed, each field over its own values.
Changed(record, values) ==
    UNION {{[record EXCEPT ![f] = v] : v \in values[f]} : f \in DOMAIN values}

HttpSettings ==
    Changed(Injecting,
        [hostname |-> {Empty, "name", "spaced"}, port |-> Numbers,
         pathPrefix |-> {Empty, "root", "segments", "unrooted", "route"},
         bodyLimitSize |-> {Empty, "size", "other"}, pattern |-> {Empty, "narrow", "broad", "broken"},
         mode |-> {Unset, "other"}, baseURL |-> Urls])

ValidationSettings ==
    {[Default EXCEPT !.validation = v] : v \in Changed(Default.validation,
        [realm |-> {Empty, "plain", "quoting"}, url |-> Urls, cacheTtlSec |-> Numbers,
         cacheMaxEntries |-> Numbers, timeoutMs |-> Numbers])}

InjectionSettings ==
    {[Injecting EXCEPT !.injection = i] : i \in Changed(Default.injection,
        [providerOrigin |-> Urls, clientId |-> Texts("id"), scope |-> Texts("scope"),
         sessionCookieName |-> {Empty, "token", "separator"}, stripInboundAuthorization |-> Booleans,
         publicOrigin |-> Urls, trustedProxies |-> Lists({"range", "all", "host", "spaced"}),
         maxEntries |-> Numbers, timeoutMs |-> Numbers,
         exchange |-> Changed(Default.injection.exchange,
                              [enabled |-> Booleans, allowedIssuers |-> Lists({"plain", "spaced"})])])}
    \cup {[Injecting EXCEPT !.injection = [@ EXCEPT !.ttlSeconds = ttl, !.safetyMarginSeconds = margin]] :
            ttl \in Numbers, margin \in Numbers}

MCText == {"name", "empty", "sig", "enc", "sign", "verify", "literal true", "literal false", "true",
           "false", "validation", "injection", "narrow", "broad", "broken", "origin", "variant", "cleaned",
           "path", "userinfo", "data", "no_url", "https", "loopback", "http", "query", "root", "segments",
           "unrooted", "route", "token", "separator", "size", "range", "all", "host", "spaced", "id",
           "secret", "scope", "plain", "quoting", "other", "Basic"}

MCRaws == ValidationClients \cup InjectionClients \cup EveryJwk
            \cup HttpSettings \cup ValidationSettings \cup InjectionSettings
=============================================================================

----------------------------- MODULE OriginGate -----------------------------
(* The same-origin gate of src/modes/injection/origin-gate.mts, beside what a *)
(* browser says of a request and what the provider's own check makes of it.   *)
EXTENDS Optional, Naturals

CONSTANTS PublicOrigins   \* values of auth.injection.publicOrigin considered

\* Origins: the site this proxy serves, over each scheme, and a foreign one.
Site == {"https_site", "http_site"}
SchemeOf(origin) == IF origin = "http_site" THEN "http" ELSE "https"

ASSUME OriginsAssumption ==
    /\ PublicOrigins \subseteq Site \cup {None}
    /\ None \notin Site \cup {"null", "opaque", "foreign", "same-origin", "other"}

\* origin and referer: what each names, "null" and "opaque" included.
Signals == [origin : {None, "null", "foreign"} \cup Site,
            referer : {None, "opaque", "foreign"} \cup Site,
            site : {None, "same-origin", "other"}]    \* Sec-Fetch-Site

refererOrigin(s) == IF s.referer = "opaque" THEN None ELSE s.referer

\* Plausible bug: a request is admitted unless some signal disagrees.
ShownSilently(s, public) == TRUE

\* The evidence a request has to bring, beyond no signal disagreeing.
Shown(s, public) == (s.origin # None /\ s.origin = public) \/ s.site = "same-origin"

sameOriginGate(s, protocol, public) ==
    /\ protocol = IF public = None THEN "https" ELSE SchemeOf(public)
    /\ \A named \in {s.origin, refererOrigin(s)} \ {None} : named = public
    /\ s.site \in {None, "same-origin"}
    /\ Shown(s, public)

\* External: what a browser sends when a page of origin `page` makes a request to
\* the origin `target`.  Origin may be missing (a plain GET) or
\* "null" (a redirect, a sandbox); Referer may be missing, and Sec-Fetch-Site is
\* in a browser that does not send it.
BrowserSends(s, page, target) ==
    /\ s.origin \in {None, "null", page}
    /\ s.referer \in {None, "opaque", page}
    /\ s.site \in {None, IF page = target THEN "same-origin" ELSE "other"}

\* External: the provider's check of a session grant, for its public origin.
ProviderAdmits(s, protocol, public) ==
    LET origin == IF s.origin = "null" THEN None ELSE s.origin
    IN  /\ protocol = SchemeOf(public)
        /\ \A named \in {origin, refererOrigin(s)} \ {None} : named = public
        /\ s.site \in {None, "same-origin"}
        /\ origin = public \/ s.site = "same-origin"
=============================================================================

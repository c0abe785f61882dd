------------------------------ MODULE Settings ------------------------------
(***************************************************************************)
(* The configuration schema: config/application.schema.mts with            *)
(* src/byte-size.mts and src/address-range.mts.  A setting arrives as the  *)
(* HOCON file or the environment wrote it: not at all (Unset), as the      *)
(* environment's empty value (Empty), or as a member of the classes its    *)
(* parser tells apart.  Invalid is an issue, and any issue refuses the     *)
(* whole configuration.                                                    *)
(***************************************************************************)
EXTENDS ClientKey

CONSTANTS
    MaxSafe,    \* Number.MAX_SAFE_INTEGER
    MaxTimer,   \* MAX_TIMER_MS
    MaxPort     \* 65535

ASSUME BoundsAssumption ==
    /\ MaxSafe \in Nat /\ MaxTimer \in Nat /\ MaxPort \in Nat
    /\ 3 <= MaxTimer /\ MaxTimer < MaxSafe    \* 3 stands for every default but the margin's

----------------------------------------------------------------------------
(* The settings as they are written.                                       *)

TextSetting == {Unset, Empty} \cup Text
NumberSetting == {Unset, Empty} \cup [kind : {"number", "digits", "other"}, n : Nat]
ListSetting == {Unset, Empty} \cup [as : {"list", "string"}, entries : SUBSET Text]
KeySetting == {Unset, Empty, Garbage} \cup Jwk

RawValidation ==
    [clientId : TextSetting, clientSecret : TextSetting, clientKey : KeySetting,
     providerIssuer : TextSetting, realm : TextSetting, url : TextSetting,
     cacheTtlSec : NumberSetting, cacheMaxEntries : NumberSetting, timeoutMs : NumberSetting]

RawExchange ==
    [enabled : TextSetting, clientId : TextSetting, clientSecret : TextSetting,
     clientKey : KeySetting, allowedIssuers : ListSetting]

RawInjection ==
    [providerOrigin : TextSetting, clientId : TextSetting, clientKey : KeySetting,
     providerIssuer : TextSetting, scope : TextSetting, sessionCookieName : TextSetting,
     stripInboundAuthorization : TextSetting, publicOrigin : TextSetting,
     trustedProxies : ListSetting, ttlSeconds : NumberSetting, maxEntries : NumberSetting,
     safetyMarginSeconds : NumberSetting, timeoutMs : NumberSetting, exchange : RawExchange]

RawSettings ==
    [hostname : TextSetting, port : NumberSetting, pathPrefix : TextSetting,
     bodyLimitSize : TextSetting, pattern : TextSetting, mode : TextSetting,
     baseURL : TextSetting, validation : RawValidation, injection : RawInjection]

----------------------------------------------------------------------------
(* The parsers.                                                            *)

\* A number, or text of digits; "other" is any other text, and a fraction.
integer(raw, min, max, fallback) ==
    CASE raw = Unset -> fallback
      [] raw = Empty -> Invalid
      [] OTHER -> IF raw.kind \in {"number", "digits"} /\ raw.n \in min..max THEN raw.n ELSE Invalid

strictBoolean(raw) ==
    CASE raw \in {"literal true", "true"} -> TRUE
      [] raw \in {Unset, "literal false", "false"} -> FALSE
      [] OTHER -> Invalid

optionalString(raw) == IF raw \in {Unset, Empty} THEN None ELSE raw

\* A string that is there and of one of the classes.
required(raw, classes) == IF raw \in classes THEN raw ELSE Invalid
optional(raw, classes) == IF raw \in {Unset, Empty} THEN None ELSE required(raw, classes)
withDefault(raw, classes, fallback) == IF raw = Unset THEN fallback ELSE required(raw, classes)

\* A list, or a string split at whitespace; "spaced" is an entry with some in it.
whitespaceSeparatedList(raw) ==
    CASE raw \in {Unset, Empty} -> {}
      [] OTHER -> CASE raw.as = "string" -> raw.entries \ {"spaced"}
                    [] raw.as = "list" -> IF "spaced" \in raw.entries THEN Invalid ELSE raw.entries

clientKey(raw) == IF raw \in {Unset, Empty} THEN None ELSE parseClientKey(raw)

\* Classes of text, each as the predicate of its name accepts them.  A URL is an
\* "origin" as a browser writes it, a "variant" that means the same (upper case,
\* default port, trailing slash), one the URL parser would "clean" to an origin,
\* one with a "path", with "userinfo", of "data:", or "no_url".
isHttpOrigin == {"origin", "variant", "cleaned"}
isHttpOriginAsWritten == {"origin", "variant"}
isIntrospectionUrl == isHttpOrigin \cup {"path"}
isIssuerIdentifier == {"https", "loopback"}
isPathPrefix == {"root", "segments"}
COOKIE_NAME_RE == {"token"}
parseByteSize == {"size"}

\* An entry of trustedProxies: "range" and "all" (every address of a family) are
\* ranges, "host" is not.
parseAddressRange == {"range", "all"}

\* new URL(value).origin
Serialised(url) == IF url \in isHttpOriginAsWritten THEN "origin" ELSE Invalid

----------------------------------------------------------------------------
(* The sections.                                                           *)

Valid(section) == \A f \in DOMAIN section : section[f] # Invalid

exchangeSchema(raw) ==
    LET x == [enabled |-> strictBoolean(raw.enabled), clientId |-> optionalString(raw.clientId),
              clientSecret |-> optionalString(raw.clientSecret), clientKey |-> clientKey(raw.clientKey),
              allowedIssuers |-> whitespaceSeparatedList(raw.allowedIssuers)]
    IN  CASE ~ Valid(x) -> Invalid
          [] Valid(x) /\ ~ x.enabled -> [enabled |-> FALSE]
          [] OTHER -> IF x.clientId = None \/ (x.clientSecret = None) = (x.clientKey = None)
                      THEN Invalid ELSE x

\* An issuer exactly when a key uses it.
IssuerForKey(keyed, issuer) == keyed = (issuer # None)

validationSchema(raw) ==
    LET v == [clientId |-> optionalString(raw.clientId), clientSecret |-> optionalString(raw.clientSecret),
              clientKey |-> clientKey(raw.clientKey),
              providerIssuer |-> optional(raw.providerIssuer, isIssuerIdentifier),
              realm |-> optional(raw.realm, {"plain"}),
              url |-> required(raw.url, isIntrospectionUrl),
              cacheTtlSec |-> integer(raw.cacheTtlSec, 0, MaxSafe, 3),
              cacheMaxEntries |-> integer(raw.cacheMaxEntries, 1, MaxSafe, 3),
              timeoutMs |-> integer(raw.timeoutMs, 1, MaxTimer, 3)]
    IN  IF /\ Valid(v)
           /\ v.clientSecret = None \/ v.clientKey = None
           /\ (v.clientId = None) = (v.clientSecret = None /\ v.clientKey = None)
           /\ IssuerForKey(v.clientKey # None, v.providerIssuer)
        THEN v ELSE Invalid

\* Plausible bug: the issuer is required with the session grant's key only, and
\* admitted without one.
KeyedBySession(i) == i.clientKey # None => i.providerIssuer # None

Keyed(i) ==
    IssuerForKey(\/ i.clientKey # None
                 \/ i.exchange.enabled /\ i.exchange.clientKey # None, i.providerIssuer)

injectionSchema(raw) ==
    LET i == [providerOrigin |-> required(raw.providerOrigin, isHttpOrigin),
              clientId |-> required(raw.clientId, {"id"}),
              clientKey |-> clientKey(raw.clientKey),
              providerIssuer |-> optional(raw.providerIssuer, isIssuerIdentifier),
              scope |-> required(raw.scope, {"scope"}),
              sessionCookieName |-> required(raw.sessionCookieName, COOKIE_NAME_RE),
              stripInboundAuthorization |-> strictBoolean(raw.stripInboundAuthorization),
              publicOrigin |-> IF optionalString(raw.publicOrigin) = None THEN None
                               ELSE Serialised(raw.publicOrigin),
              trustedProxies |-> whitespaceSeparatedList(raw.trustedProxies),
              ttlSeconds |-> integer(raw.ttlSeconds, 1, MaxSafe, 3),
              maxEntries |-> integer(raw.maxEntries, 1, MaxSafe, 3),
              safetyMarginSeconds |-> integer(raw.safetyMarginSeconds, 0, MaxSafe, 1),
              timeoutMs |-> integer(raw.timeoutMs, 1, MaxTimer, 3),
              exchange |-> exchangeSchema(raw.exchange)]
    IN  IF /\ Valid(i)
           /\ i.trustedProxies \subseteq parseAddressRange
           /\ i.safetyMarginSeconds < i.ttlSeconds
           /\ Keyed(i)
        THEN i ELSE Invalid

\* The whole: the section of the mode named, the other one unread.
AppConfigSchema(raw) ==
    LET c == [hostname |-> withDefault(raw.hostname, {"name"}, "name"),
              port |-> integer(raw.port, 1, MaxPort, 3),
              pathPrefix |-> withDefault(raw.pathPrefix, isPathPrefix, "root"),
              bodyLimitSize |-> withDefault(raw.bodyLimitSize, parseByteSize, "size"),
              pattern |-> optional(raw.pattern, {"narrow", "broad"}),
              mode |-> required(raw.mode, {"validation", "injection"}),
              auth |-> CASE raw.mode = "validation" -> validationSchema(raw.validation)
                         [] raw.mode = "injection" -> injectionSchema(raw.injection)
                         [] OTHER -> Invalid,
              baseURL |-> Serialised(raw.baseURL)]
    IN  IF Valid(c) THEN c ELSE Invalid
=============================================================================

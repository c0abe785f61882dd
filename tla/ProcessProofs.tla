---------------------------- MODULE ProcessProofs ----------------------------
(***************************************************************************)
(* The life of the process.  Its start: what is made of the settings,      *)
(* whatever they say, and what the provider calls then carry.  Its end:    *)
(* what the drain may cut and what an exit status means, for any number of *)
(* connections and of pipelined requests on each.                          *)
(***************************************************************************)
EXTENDS Boot, Shutdown, SequenceTheorems, TLAPS

----------------------------------------------------------------------------
(* The parsers.                                                            *)

\* The sentinels are no text and differ.
LEMMA Sentinels ==
    /\ None \notin Text /\ Invalid \notin Text /\ Unset \notin Text
    /\ Empty \notin Text /\ Garbage \notin Text
    /\ None # Invalid /\ None # Unset /\ None # Empty /\ Invalid # Unset /\ Unset # Empty
    /\ None \notin Assertion
BY SentinelAssumption

\* Optional text is absent exactly when it is not given.
LEMMA TextRead ==
    ASSUME NEW x \in TextSetting
    PROVE  /\ optionalString(x) = IF Given(x) THEN x ELSE None
           /\ optionalString(x) = None <=> ~ Given(x)
           /\ Given(x) => x \in Text
BY SentinelAssumption DEF TextSetting, optionalString, Given

\* Text of one of some classes, or none.
LEMMA ClassRead ==
    ASSUME NEW x \in TextSetting, NEW classes \in SUBSET Text, optional(x, classes) # Invalid
    PROVE  /\ optional(x, classes) = IF Given(x) THEN x ELSE None
           /\ optional(x, classes) = None <=> ~ Given(x)
           /\ Given(x) => x \in classes
BY SentinelAssumption DEF TextSetting, optional, required, Given

\* Required text is what is written, of one of its classes.
LEMMA RequiredRead ==
    ASSUME NEW x, NEW classes, required(x, classes) # Invalid
    PROVE  required(x, classes) = x /\ x \in classes
BY DEF required

\* An accepted number is the one that is written, or the default.
LEMMA NumberRead ==
    ASSUME NEW x \in NumberSetting, NEW min \in Nat, NEW max \in Nat, NEW fallback \in Nat,
           integer(x, min, max, fallback) # Invalid
    PROVE  /\ integer(x, min, max, fallback) = Number(x, fallback)
           /\ integer(x, min, max, fallback) \in (min..max) \cup {fallback}
<1>1. CASE x = Unset
  BY <1>1, SentinelAssumption DEF integer, Number
<1>2. CASE x = Empty
  BY <1>2, SentinelAssumption DEF integer, Number
<1>3. CASE x # Unset /\ x # Empty
  <2>1. integer(x, min, max, fallback)
           = IF x.kind \in {"number", "digits"} /\ x.n \in min..max THEN x.n ELSE Invalid
    BY <1>3 DEF integer
  <2>2. Number(x, fallback) = IF x.kind = "other" THEN Invalid ELSE x.n
    BY <1>3 DEF Number
  <2> QED BY <2>1, <2>2
<1> QED BY <1>1, <1>2, <1>3

\* What is not a member is so by the value FALSE.
LEMMA NotInIsFalse ==
    ASSUME NEW x, NEW S, x \notin S
    PROVE  (x \in S) = FALSE
BY SMT

\* A switch that is not on is off.
LEMMA OffIsFalse ==
    ASSUME NEW x, ~ On(x)
    PROVE  On(x) = FALSE
BY NotInIsFalse, Zenon DEF On

\* An accepted switch is on exactly when it is written so.
LEMMA SwitchRead ==
    ASSUME NEW x \in TextSetting, strictBoolean(x) # Invalid
    PROVE  strictBoolean(x) = On(x)
<1> DEFINE yes == {"literal true", "true"}
           no == {Unset, "literal false", "false"}
<1>1. CASE x \in yes
  <2>1. x \notin no
    BY <1>1, Sentinels, TextAssumption
  <2>2. strictBoolean(x) = TRUE
    BY <1>1, <2>1, Zenon DEF strictBoolean
  <2> QED BY <1>1, <2>2, Zenon DEF On
<1>2. CASE x \in no
  <2>1. x \notin yes
    BY <1>2, Sentinels, TextAssumption
  <2>2. strictBoolean(x) = FALSE
    BY <1>2, <2>1, Zenon DEF strictBoolean
  <2>3. ~ On(x)
    BY <2>1 DEF On
  <2>4. On(x) = FALSE
    BY <2>3, OffIsFalse, Zenon
  <2> QED BY <2>2, <2>4, Zenon
<1>3. CASE x \notin yes /\ x \notin no
  <2>1. strictBoolean(x) = Invalid
    BY <1>3, Zenon DEF strictBoolean
  <2> QED BY <2>1
<1> QED BY <1>1, <1>2, <1>3

\* An accepted key is one whose assertions the provider takes.
LEMMA KeyParsed ==
    ASSUME NEW jwk \in KeySetting, parseClientKey(jwk) # Invalid, Given(jwk)
    PROVE  /\ jwk \in Jwk /\ parseClientKey(jwk) \in Key
           /\ \A id, audience, n, seen : n \notin seen =>
                 ProviderVerifies(signClientAssertion(id, audience, parseClientKey(jwk), n),
                                  jwk, id, audience, seen)
<1> DEFINE key == parseClientKey(jwk)
           algs == algorithmsFor(jwk.type)
<1>1. /\ jwk # Garbage /\ algs # <<>>
      /\ jwk.use \in {Unset, "sig"}
      /\ jwk.alg \in {Unset} \cup ToSet(algs)
      /\ jwk.kid # "empty"
      /\ jwk.type = "RSA" => jwk.long
      /\ jwk.matches
      /\ key = [alg |-> Chosen(jwk), kid |-> IF jwk.kid = Unset THEN None ELSE jwk.kid, jwk |-> jwk]
  BY DEF parseClientKey, verifyJws
<1>2. jwk \in Jwk
  BY <1>1 DEF KeySetting, Given
<1>3. /\ jwk.type \in {"Ed25519", "P-256", "RSA"}
      /\ algs[1] \in ToSet(algs) /\ ToSet(algs) \subseteq Algorithm
  <2>1. jwk.type \in {"Ed25519", "P-256", "RSA", "other"}
    BY <1>2 DEF Jwk
  <2>2. CASE jwk.type = "Ed25519"
    <3>1. algs = <<"EdDSA">>
      BY <2>2 DEF algorithmsFor
    <3> QED BY <2>2, <3>1 DEF ToSet, Algorithm
  <2>3. CASE jwk.type = "P-256"
    <3>1. algs = <<"ES256">>
      BY <2>3 DEF algorithmsFor
    <3> QED BY <2>3, <3>1 DEF ToSet, Algorithm
  <2>4. CASE jwk.type = "RSA"
    <3>1. algs = <<"RS256", "PS256">>
      BY <2>4 DEF algorithmsFor
    <3> QED BY <2>4, <3>1 DEF ToSet, Algorithm
  <2>5. CASE jwk.type = "other"
    BY <1>1, <2>5 DEF algorithmsFor
  <2> QED BY <2>1, <2>2, <2>3, <2>4, <2>5
<1>4. key.alg \in ToSet(algs) /\ key.alg \in Algorithm /\ jwk.alg \in {Unset, key.alg}
  BY <1>1, <1>3 DEF Chosen
<1>5. key.kid = (IF jwk.kid = Unset THEN None ELSE jwk.kid) /\ key.kid \in {None, "name"}
  BY <1>1, <1>2 DEF Jwk
<1>6. key.jwk = jwk
  BY <1>1
<1>7. key \in Key
  <2> HIDE DEF key, algs
  <2>1. key = [alg |-> key.alg, kid |-> key.kid, jwk |-> key.jwk]
    BY <1>1
  <2> QED BY <1>2, <1>4, <1>5, <1>6, <2>1 DEF Key
<1>8. ASSUME NEW id, NEW audience, NEW n, NEW seen, n \notin seen
      PROVE  ProviderVerifies(signClientAssertion(id, audience, key, n), jwk, id, audience, seen)
  <2> DEFINE a == signClientAssertion(id, audience, key, n)
  <2>1. /\ a.alg = key.alg /\ a.kid = key.kid /\ a.iss = id /\ a.sub = id /\ a.aud = audience
        /\ a.jti = n /\ a.signature = signJws(key.alg, key.jwk)
    BY DEF signClientAssertion
  <2> HIDE DEF a, key
  <2>2. verifyJws(a.alg, jwk, a.signature)
    BY <1>1, <1>6, <2>1 DEF verifyJws
  <2>3. jwk.use # "enc"
    BY <1>1, Sentinels, TextAssumption
  <2> QED BY <1>1, <1>4, <1>5, <1>8, <2>1, <2>2, <2>3 DEF ProviderVerifies, a
<1> QED BY <1>2, <1>7, <1>8

\* An accepted key is absent exactly when it is not given.
LEMMA KeyRead ==
    ASSUME NEW x \in KeySetting, clientKey(x) # Invalid
    PROVE  /\ clientKey(x) = IF Given(x) THEN parseClientKey(x) ELSE None
           /\ clientKey(x) = None <=> ~ Given(x)
           /\ Given(x) => parseClientKey(x) # Invalid
<1>1. clientKey(x) = IF Given(x) THEN parseClientKey(x) ELSE None
  BY DEF clientKey, Given
<1>2. Given(x) => parseClientKey(x) # Invalid /\ parseClientKey(x) \in Key
  BY <1>1, KeyParsed
<1> QED BY <1>1, <1>2, SentinelAssumption

----------------------------------------------------------------------------
(* The sections.                                                           *)

\* What an accepted section of the exchange holds of the settings.
LEMMA ExchangeRead ==
    ASSUME NEW r \in RawExchange, exchangeSchema(r) # Invalid
    PROVE  /\ exchangeSchema(r).enabled = On(r.enabled)
           /\ On(r.enabled) =>
                /\ exchangeSchema(r).clientId = r.clientId /\ r.clientId \in Text
                /\ exchangeSchema(r).clientSecret = optionalString(r.clientSecret)
                /\ exchangeSchema(r).clientKey = clientKey(r.clientKey) /\ clientKey(r.clientKey) # Invalid
                /\ Given(r.clientSecret) <=> ~ Given(r.clientKey)
<1> DEFINE x == [enabled |-> strictBoolean(r.enabled), clientId |-> optionalString(r.clientId),
                 clientSecret |-> optionalString(r.clientSecret), clientKey |-> clientKey(r.clientKey),
                 allowedIssuers |-> whitespaceSeparatedList(r.allowedIssuers)]
<1>1. /\ r.enabled \in TextSetting /\ r.clientId \in TextSetting /\ r.clientSecret \in TextSetting
      /\ r.clientKey \in KeySetting
  BY DEF RawExchange
<1>2. exchangeSchema(r) = CASE ~ Valid(x) -> Invalid
          [] Valid(x) /\ ~ x.enabled -> [enabled |-> FALSE]
          [] OTHER -> IF x.clientId = None \/ (x.clientSecret = None) = (x.clientKey = None)
                      THEN Invalid ELSE x
  BY Zenon DEF exchangeSchema
<1>3. Valid(x)
  BY <1>2, Zenon
<1>4. x.enabled # Invalid /\ x.clientKey # Invalid
  BY <1>3 DEF Valid
<1>5. /\ x.enabled = strictBoolean(r.enabled) /\ x.clientId = optionalString(r.clientId)
      /\ x.clientSecret = optionalString(r.clientSecret) /\ x.clientKey = clientKey(r.clientKey)
  OBVIOUS
<1> HIDE DEF x
<1>6. x.enabled = On(r.enabled)
  BY <1>1, <1>4, <1>5, SwitchRead, Zenon
<1>7. CASE ~ On(r.enabled)
  <2>1. x.enabled = FALSE
    BY <1>6, <1>7, OffIsFalse, Zenon
  <2>2. exchangeSchema(r) = [enabled |-> FALSE]
    BY <1>2, <1>3, <2>1, Zenon
  <2>3. exchangeSchema(r).enabled = FALSE
    BY <2>2
  <2> QED BY <1>7, <2>3, OffIsFalse, Zenon
<1>8. CASE On(r.enabled)
  <2>1. x.enabled
    BY <1>6, <1>8, Zenon
  <2>2. exchangeSchema(r) = IF x.clientId = None \/ (x.clientSecret = None) = (x.clientKey = None)
                            THEN Invalid ELSE x
    BY <1>2, <1>3, <2>1, Zenon
  <2>3. /\ exchangeSchema(r) = x /\ x.clientId # None
        /\ ~ ((x.clientSecret = None) = (x.clientKey = None))
    BY <2>2, Zenon
  <2>4. Given(r.clientId) /\ x.clientId = r.clientId /\ r.clientId \in Text
    BY <1>1, <1>5, <2>3, TextRead
  <2>5. x.clientSecret = None <=> ~ Given(r.clientSecret)
    BY <1>1, <1>5, TextRead
  <2>6. x.clientKey = None <=> ~ Given(r.clientKey)
    BY <1>1, <1>4, <1>5, KeyRead
  <2>7. Given(r.clientSecret) <=> ~ Given(r.clientKey)
    BY <2>3, <2>5, <2>6
  <2> QED BY <1>4, <1>5, <1>6, <2>3, <2>4, <2>7, Zenon
<1> QED BY <1>7, <1>8

\* What an accepted section of the validation mode holds of the settings.
LEMMA ValidationRead ==
    ASSUME NEW r \in RawValidation, validationSchema(r) # Invalid
    PROVE  LET v == validationSchema(r)
           IN  /\ v.clientId = optionalString(r.clientId)
               /\ v.clientSecret = optionalString(r.clientSecret)
               /\ v.clientKey = clientKey(r.clientKey) /\ clientKey(r.clientKey) # Invalid
               /\ v.providerIssuer = IF Given(r.providerIssuer) THEN r.providerIssuer ELSE None
               /\ v.cacheTtlSec = Number(r.cacheTtlSec, 3)
               /\ v.timeoutMs = Number(r.timeoutMs, 3) /\ v.timeoutMs \in 1..MaxTimer
               /\ ~ (Given(r.clientSecret) /\ Given(r.clientKey))
               /\ Given(r.clientId) <=> Given(r.clientSecret) \/ Given(r.clientKey)
               /\ Given(r.clientKey) <=> Given(r.providerIssuer)
<1> DEFINE v == [clientId |-> optionalString(r.clientId), clientSecret |-> optionalString(r.clientSecret),
                 clientKey |-> clientKey(r.clientKey),
                 providerIssuer |-> optional(r.providerIssuer, isIssuerIdentifier),
                 realm |-> optional(r.realm, {"plain"}),
                 url |-> required(r.url, isIntrospectionUrl),
                 cacheTtlSec |-> integer(r.cacheTtlSec, 0, MaxSafe, 3),
                 cacheMaxEntries |-> integer(r.cacheMaxEntries, 1, MaxSafe, 3),
                 timeoutMs |-> integer(r.timeoutMs, 1, MaxTimer, 3)]
<1>1. /\ r.clientId \in TextSetting /\ r.clientSecret \in TextSetting
      /\ r.providerIssuer \in TextSetting /\ r.clientKey \in KeySetting
      /\ r.cacheTtlSec \in NumberSetting /\ r.timeoutMs \in NumberSetting
  BY DEF RawValidation
<1>2. validationSchema(r) =
         IF /\ Valid(v)
            /\ v.clientSecret = None \/ v.clientKey = None
            /\ (v.clientId = None) = (v.clientSecret = None /\ v.clientKey = None)
            /\ IssuerForKey(v.clientKey # None, v.providerIssuer)
         THEN v ELSE Invalid
  BY Zenon DEF validationSchema
<1>3. /\ validationSchema(r) = v /\ Valid(v)
      /\ v.clientSecret = None \/ v.clientKey = None
      /\ (v.clientId = None) = (v.clientSecret = None /\ v.clientKey = None)
      /\ (v.clientKey # None) = (v.providerIssuer # None)
  BY <1>2, Zenon DEF IssuerForKey
<1>4. v.clientKey # Invalid /\ v.providerIssuer # Invalid /\ v.cacheTtlSec # Invalid /\ v.timeoutMs # Invalid
  BY <1>3 DEF Valid
<1>5. /\ v.clientId = optionalString(r.clientId) /\ v.clientSecret = optionalString(r.clientSecret)
      /\ v.clientKey = clientKey(r.clientKey)
      /\ v.providerIssuer = optional(r.providerIssuer, isIssuerIdentifier)
      /\ v.cacheTtlSec = integer(r.cacheTtlSec, 0, MaxSafe, 3)
      /\ v.timeoutMs = integer(r.timeoutMs, 1, MaxTimer, 3)
  OBVIOUS
<1> HIDE DEF v
<1>6. /\ v.clientId = None <=> ~ Given(r.clientId)
      /\ v.clientSecret = None <=> ~ Given(r.clientSecret)
      /\ v.clientKey = None <=> ~ Given(r.clientKey)
  BY <1>1, <1>4, <1>5, TextRead, KeyRead
<1>7. /\ v.providerIssuer = IF Given(r.providerIssuer) THEN r.providerIssuer ELSE None
      /\ v.providerIssuer = None <=> ~ Given(r.providerIssuer)
  <2>1. isIssuerIdentifier \in SUBSET Text
    BY TextAssumption DEF isIssuerIdentifier
  <2> QED BY <1>1, <1>4, <1>5, <2>1, ClassRead
<1>8. v.cacheTtlSec = Number(r.cacheTtlSec, 3)
  BY <1>1, <1>4, <1>5, NumberRead, BoundsAssumption
<1>9. v.timeoutMs = Number(r.timeoutMs, 3) /\ v.timeoutMs \in (1..MaxTimer) \cup {3}
  BY <1>1, <1>4, <1>5, NumberRead, BoundsAssumption
<1>10. v.timeoutMs \in 1..MaxTimer
  BY <1>9, BoundsAssumption
<1> QED BY <1>3, <1>4, <1>5, <1>6, <1>7, <1>8, <1>9, <1>10

\* What an accepted section of the injection mode holds of the settings.
LEMMA InjectionRead ==
    ASSUME NEW r \in RawInjection, injectionSchema(r) # Invalid
    PROVE  LET i == injectionSchema(r)
           IN  /\ i.clientId = r.clientId /\ i.clientId \in Text
               /\ i.clientKey = clientKey(r.clientKey) /\ clientKey(r.clientKey) # Invalid
               /\ i.providerIssuer = IF Given(r.providerIssuer) THEN r.providerIssuer ELSE None
               /\ i.stripInboundAuthorization = On(r.stripInboundAuthorization)
               /\ i.publicOrigin = IF Given(r.publicOrigin) THEN "origin" ELSE None
               /\ i.providerOrigin \in isHttpOrigin
               /\ i.trustedProxies \subseteq parseAddressRange
               /\ i.ttlSeconds = Number(r.ttlSeconds, 3)
               /\ i.safetyMarginSeconds = Number(r.safetyMarginSeconds, 1)
               /\ i.safetyMarginSeconds < i.ttlSeconds
               /\ i.timeoutMs \in 1..MaxTimer
               /\ i.exchange = exchangeSchema(r.exchange) /\ exchangeSchema(r.exchange) # Invalid
               /\ Given(r.providerIssuer) <=>
                     \/ Given(r.clientKey)
                     \/ On(r.exchange.enabled) /\ Given(r.exchange.clientKey)
<1> DEFINE i == [providerOrigin |-> required(r.providerOrigin, isHttpOrigin),
              clientId |-> required(r.clientId, {"id"}),
              clientKey |-> clientKey(r.clientKey),
              providerIssuer |-> optional(r.providerIssuer, isIssuerIdentifier),
              scope |-> required(r.scope, {"scope"}),
              sessionCookieName |-> required(r.sessionCookieName, COOKIE_NAME_RE),
              stripInboundAuthorization |-> strictBoolean(r.stripInboundAuthorization),
              publicOrigin |-> IF optionalString(r.publicOrigin) = None THEN None
                               ELSE Serialised(r.publicOrigin),
              trustedProxies |-> whitespaceSeparatedList(r.trustedProxies),
              ttlSeconds |-> integer(r.ttlSeconds, 1, MaxSafe, 3),
              maxEntries |-> integer(r.maxEntries, 1, MaxSafe, 3),
              safetyMarginSeconds |-> integer(r.safetyMarginSeconds, 0, MaxSafe, 1),
              timeoutMs |-> integer(r.timeoutMs, 1, MaxTimer, 3),
              exchange |-> exchangeSchema(r.exchange)]
<1>1. /\ r.clientKey \in KeySetting /\ r.providerIssuer \in TextSetting
      /\ r.stripInboundAuthorization \in TextSetting /\ r.publicOrigin \in TextSetting
      /\ r.ttlSeconds \in NumberSetting /\ r.safetyMarginSeconds \in NumberSetting
      /\ r.timeoutMs \in NumberSetting /\ r.exchange \in RawExchange
  BY DEF RawInjection
<1>2. injectionSchema(r) = IF /\ Valid(i)
                              /\ i.trustedProxies \subseteq parseAddressRange
                              /\ i.safetyMarginSeconds < i.ttlSeconds
                              /\ Keyed(i)
                           THEN i ELSE Invalid
  BY Zenon DEF injectionSchema
<1>3. /\ injectionSchema(r) = i /\ Valid(i)
      /\ i.trustedProxies \subseteq parseAddressRange
      /\ i.safetyMarginSeconds < i.ttlSeconds
      /\ Keyed(i)
  BY <1>2, Zenon
<1>4. /\ i.providerOrigin # Invalid /\ i.clientId # Invalid /\ i.clientKey # Invalid
      /\ i.providerIssuer # Invalid /\ i.stripInboundAuthorization # Invalid /\ i.publicOrigin # Invalid
      /\ i.ttlSeconds # Invalid /\ i.safetyMarginSeconds # Invalid /\ i.timeoutMs # Invalid
      /\ i.exchange # Invalid
  BY <1>3 DEF Valid
<1>5. /\ i.providerOrigin = required(r.providerOrigin, isHttpOrigin)
      /\ i.clientId = required(r.clientId, {"id"}) /\ i.clientKey = clientKey(r.clientKey)
      /\ i.providerIssuer = optional(r.providerIssuer, isIssuerIdentifier)
      /\ i.stripInboundAuthorization = strictBoolean(r.stripInboundAuthorization)
      /\ i.publicOrigin = IF optionalString(r.publicOrigin) = None THEN None ELSE Serialised(r.publicOrigin)
      /\ i.ttlSeconds = integer(r.ttlSeconds, 1, MaxSafe, 3)
      /\ i.safetyMarginSeconds = integer(r.safetyMarginSeconds, 0, MaxSafe, 1)
      /\ i.timeoutMs = integer(r.timeoutMs, 1, MaxTimer, 3)
      /\ i.exchange = exchangeSchema(r.exchange)
  OBVIOUS
<1> HIDE DEF i
<1>6. i.clientId = r.clientId /\ i.clientId = "id" /\ i.providerOrigin \in isHttpOrigin
  BY <1>4, <1>5, RequiredRead
<1>7. i.clientId \in Text
  BY <1>6, TextAssumption
<1>8. i.clientKey = None <=> ~ Given(r.clientKey)
  BY <1>1, <1>4, <1>5, KeyRead
<1>9. /\ i.providerIssuer = IF Given(r.providerIssuer) THEN r.providerIssuer ELSE None
      /\ i.providerIssuer = None <=> ~ Given(r.providerIssuer)
  <2>1. isIssuerIdentifier \in SUBSET Text
    BY TextAssumption DEF isIssuerIdentifier
  <2> QED BY <1>1, <1>4, <1>5, <2>1, ClassRead
<1>10. i.stripInboundAuthorization = On(r.stripInboundAuthorization)
  BY <1>1, <1>4, <1>5, SwitchRead, Zenon
<1>11. i.publicOrigin = IF Given(r.publicOrigin) THEN "origin" ELSE None
  BY <1>1, <1>4, <1>5, TextRead DEF Serialised
<1>12. i.ttlSeconds = Number(r.ttlSeconds, 3) /\ i.safetyMarginSeconds = Number(r.safetyMarginSeconds, 1)
  BY <1>1, <1>4, <1>5, NumberRead, BoundsAssumption
<1>13. i.timeoutMs \in 1..MaxTimer
  <2>1. i.timeoutMs \in (1..MaxTimer) \cup {3}
    BY <1>1, <1>4, <1>5, NumberRead, BoundsAssumption
  <2> QED BY <2>1, BoundsAssumption
<1>14. Given(r.providerIssuer) <=>
          \/ Given(r.clientKey)
          \/ On(r.exchange.enabled) /\ Given(r.exchange.clientKey)
  <2>1. i.exchange.enabled = On(r.exchange.enabled)
    BY <1>1, <1>4, <1>5, ExchangeRead, Zenon
  <2>2. (\/ i.clientKey # None
         \/ i.exchange.enabled /\ i.exchange.clientKey # None) <=> i.providerIssuer # None
    BY <1>3, Zenon DEF Keyed, IssuerForKey
  <2>3. CASE On(r.exchange.enabled)
    <3>1. i.exchange.clientKey = clientKey(r.exchange.clientKey) /\ clientKey(r.exchange.clientKey) # Invalid
      BY <1>1, <1>4, <1>5, <2>3, ExchangeRead, Zenon
    <3>2. r.exchange.clientKey \in KeySetting
      BY <1>1 DEF RawExchange
    <3>3. i.exchange.clientKey = None <=> ~ Given(r.exchange.clientKey)
      BY <3>1, <3>2, KeyRead
    <3>4. i.exchange.enabled
      BY <2>1, <2>3, Zenon
    <3> QED BY <1>8, <1>9, <2>2, <2>3, <3>3, <3>4, Zenon
  <2>4. CASE ~ On(r.exchange.enabled)
    <3>1. ~ i.exchange.enabled
      BY <2>1, <2>4, Zenon
    <3> QED BY <1>8, <1>9, <2>2, <2>4, <3>1, Zenon
  <2> QED BY <2>3, <2>4
<1> QED BY <1>3, <1>4, <1>5, <1>6, <1>7, <1>9, <1>10, <1>11, <1>12, <1>13, <1>14, Zenon

\* What an accepted configuration holds of the settings.
LEMMA ConfigRead ==
    ASSUME NEW r \in RawSettings, AppConfigSchema(r) # Invalid
    PROVE  LET c == AppConfigSchema(r)
           IN  /\ c.mode = r.mode /\ r.mode \in {"validation", "injection"}
               /\ c.port = Number(r.port, 3)
               /\ c.bodyLimitSize \in parseByteSize
               /\ c.pattern \in {None, "narrow", "broad"}
               /\ r.mode = "validation" =>
                     c.auth = validationSchema(r.validation) /\ validationSchema(r.validation) # Invalid
               /\ r.mode = "injection" =>
                     c.auth = injectionSchema(r.injection) /\ injectionSchema(r.injection) # Invalid
<1> DEFINE auth == CASE r.mode = "validation" -> validationSchema(r.validation)
                     [] r.mode = "injection" -> injectionSchema(r.injection)
                     [] OTHER -> Invalid
           c == [hostname |-> withDefault(r.hostname, {"name"}, "name"),
                 port |-> integer(r.port, 1, MaxPort, 3),
                 pathPrefix |-> withDefault(r.pathPrefix, isPathPrefix, "root"),
                 bodyLimitSize |-> withDefault(r.bodyLimitSize, parseByteSize, "size"),
                 pattern |-> optional(r.pattern, {"narrow", "broad"}),
                 mode |-> required(r.mode, {"validation", "injection"}),
                 auth |-> auth,
                 baseURL |-> Serialised(r.baseURL)]
<1>1. r.port \in NumberSetting /\ r.pattern \in TextSetting
  BY DEF RawSettings
<1>2. AppConfigSchema(r) = IF Valid(c) THEN c ELSE Invalid
  BY Zenon DEF AppConfigSchema
<1>3. AppConfigSchema(r) = c /\ Valid(c)
  BY <1>2, Zenon
<1>4. /\ c.port # Invalid /\ c.bodyLimitSize # Invalid /\ c.pattern # Invalid /\ c.mode # Invalid
      /\ c.auth # Invalid
  BY <1>3 DEF Valid
<1>5. /\ c.port = integer(r.port, 1, MaxPort, 3)
      /\ c.bodyLimitSize = withDefault(r.bodyLimitSize, parseByteSize, "size")
      /\ c.pattern = optional(r.pattern, {"narrow", "broad"})
      /\ c.mode = required(r.mode, {"validation", "injection"})
      /\ c.auth = auth
  OBVIOUS
<1> HIDE DEF c
<1>6. c.mode = r.mode /\ r.mode \in {"validation", "injection"}
  BY <1>4, <1>5, RequiredRead
<1>7. c.port = Number(r.port, 3)
  BY <1>1, <1>4, <1>5, NumberRead, BoundsAssumption
<1>8. c.bodyLimitSize \in parseByteSize
  BY <1>4, <1>5 DEF withDefault, required, parseByteSize
<1>9. c.pattern \in {None, "narrow", "broad"}
  <2>1. {"narrow", "broad"} \in SUBSET Text
    BY TextAssumption
  <2> QED BY <1>1, <1>4, <1>5, <2>1, ClassRead
<1>10. r.mode = "validation" => c.auth = validationSchema(r.validation)
  BY <1>5, Zenon
<1>11. r.mode = "injection" => c.auth = injectionSchema(r.injection)
  <2> SUFFICES ASSUME r.mode = "injection"
               PROVE  c.auth = injectionSchema(r.injection)
    OBVIOUS
  <2>1. r.mode # "validation"
    OBVIOUS
  <2> QED BY <1>5, <2>1, Zenon
<1> QED BY <1>3, <1>4, <1>6, <1>7, <1>8, <1>9, <1>10, <1>11, Zenon

----------------------------------------------------------------------------
(* The constructors.                                                       *)

\* A credential by secret and one by key are credentials.
LEMMA Credentials ==
    ASSUME NEW id \in Text
    PROVE  /\ \A s \in Text : BySecret(id, s) \in Credential
           /\ \A k \in Key, a \in Text : ByKey(id, k, a) \in Credential
BY DEF BySecret, ByKey, Credential

\* The introspection client authenticates as the settings say.
LEMMA IntrospectionBuilt ==
    ASSUME raw \in RawSettings, raw.mode = "validation", validationSchema(raw.validation) # Invalid
    PROVE  /\ introspectionCredentials(validationSchema(raw.validation)) = Registered("introspection")
           /\ Registered("introspection") \in Credential \cup {None}
           /\ SecretGiven("introspection") \/ Given(Client("introspection").clientKey)
                 => Registered("introspection") \in Credential
<1> DEFINE s == raw.validation
           v == validationSchema(s)
<1>1. s \in RawValidation
  BY DEF RawSettings
<1>2. /\ s.clientId \in TextSetting /\ s.clientSecret \in TextSetting /\ s.providerIssuer \in TextSetting
      /\ s.clientKey \in KeySetting
  BY <1>1 DEF RawValidation
<1>3. /\ v.clientId = optionalString(s.clientId)
      /\ v.clientSecret = optionalString(s.clientSecret)
      /\ v.clientKey = clientKey(s.clientKey) /\ clientKey(s.clientKey) # Invalid
      /\ v.providerIssuer = IF Given(s.providerIssuer) THEN s.providerIssuer ELSE None
      /\ ~ (Given(s.clientSecret) /\ Given(s.clientKey))
      /\ Given(s.clientId) <=> Given(s.clientSecret) \/ Given(s.clientKey)
      /\ Given(s.clientKey) <=> Given(s.providerIssuer)
  BY <1>1, ValidationRead
<1>4. Section = s /\ Client("introspection") = s /\ (SecretGiven("introspection") <=> Given(s.clientSecret))
  BY DEF Section, Client, SecretGiven
<1>5. Registered("introspection") =
        IF Given(s.clientSecret) THEN BySecret(s.clientId, s.clientSecret)
        ELSE IF Given(s.clientKey) THEN ByKey(s.clientId, parseClientKey(s.clientKey), s.providerIssuer)
        ELSE None
  BY <1>4 DEF Registered
<1>6. introspectionCredentials(v) =
        CASE v.clientId = None -> None
          [] v.clientId # None /\ v.clientSecret # None -> BySecret(v.clientId, v.clientSecret)
          [] OTHER -> IF v.clientKey # None /\ v.providerIssuer # None
                      THEN ByKey(v.clientId, v.clientKey, v.providerIssuer) ELSE Invalid
  BY Zenon DEF introspectionCredentials
<1>7. /\ v.clientId = None <=> ~ Given(s.clientId)
      /\ v.clientSecret = None <=> ~ Given(s.clientSecret)
      /\ v.clientKey = None <=> ~ Given(s.clientKey)
      /\ Given(s.clientId) => v.clientId = s.clientId /\ s.clientId \in Text
      /\ Given(s.clientSecret) => v.clientSecret = s.clientSecret /\ s.clientSecret \in Text
      /\ Given(s.providerIssuer) => s.providerIssuer \in Text
  BY <1>2, <1>3, TextRead, KeyRead
<1>8. Given(s.clientKey) => v.clientKey = parseClientKey(s.clientKey) /\ parseClientKey(s.clientKey) \in Key
  BY <1>2, <1>3, KeyRead, KeyParsed
<1>9. Given(s.providerIssuer) => v.providerIssuer # None
  BY <1>3, <1>7, Sentinels
<1> HIDE DEF s, v
<1>10. CASE Given(s.clientSecret)
  <2>1. introspectionCredentials(v) = BySecret(s.clientId, s.clientSecret)
    BY <1>3, <1>6, <1>7, <1>10
  <2>2. s.clientId \in Text /\ s.clientSecret \in Text
    BY <1>3, <1>7, <1>10
  <2> QED BY <1>5, <1>10, <2>1, <2>2, Credentials DEF v, s
<1>11. CASE ~ Given(s.clientSecret) /\ Given(s.clientKey)
  <2>1. introspectionCredentials(v) = ByKey(s.clientId, parseClientKey(s.clientKey), s.providerIssuer)
    BY <1>3, <1>6, <1>7, <1>8, <1>9, <1>11
  <2>2. s.clientId \in Text /\ parseClientKey(s.clientKey) \in Key /\ s.providerIssuer \in Text
    BY <1>3, <1>7, <1>8, <1>11
  <2> QED BY <1>5, <1>11, <2>1, <2>2, Credentials DEF v, s
<1>12. CASE ~ Given(s.clientSecret) /\ ~ Given(s.clientKey)
  <2>1. introspectionCredentials(v) = None
    BY <1>3, <1>6, <1>7, <1>12
  <2> QED BY <1>4, <1>5, <1>12, <2>1 DEF v, s
<1> QED BY <1>10, <1>11, <1>12

\* The session grant's client authenticates as the settings say.
LEMMA SessionBuilt ==
    ASSUME raw \in RawSettings, raw.mode = "injection", injectionSchema(raw.injection) # Invalid
    PROVE  /\ createSessionGrantClient(injectionSchema(raw.injection)) = Registered("session")
           /\ Registered("session") \in Credential \cup {None}
           /\ SecretGiven("session") \/ Given(Client("session").clientKey)
                 => Registered("session") \in Credential
<1> DEFINE s == raw.injection
           i == injectionSchema(s)
<1>1. s \in RawInjection
  BY DEF RawSettings
<1>2. s.providerIssuer \in TextSetting /\ s.clientKey \in KeySetting
  BY <1>1 DEF RawInjection
<1>3. /\ i.clientId = s.clientId /\ s.clientId \in Text
      /\ i.clientKey = clientKey(s.clientKey) /\ clientKey(s.clientKey) # Invalid
      /\ i.providerIssuer = IF Given(s.providerIssuer) THEN s.providerIssuer ELSE None
      /\ Given(s.clientKey) => Given(s.providerIssuer)
  BY <1>1, InjectionRead
<1>4. Section = s /\ Client("session") = s /\ ~ SecretGiven("session")
  BY DEF Section, Client, SecretGiven
<1>5. Registered("session") =
        IF Given(s.clientKey) THEN ByKey(s.clientId, parseClientKey(s.clientKey), s.providerIssuer) ELSE None
  BY <1>4 DEF Registered
<1>6. createSessionGrantClient(i) =
        CASE i.clientKey = None -> None
          [] OTHER -> IF i.providerIssuer = None THEN Invalid
                      ELSE ByKey(i.clientId, i.clientKey, i.providerIssuer)
  BY Zenon DEF createSessionGrantClient
<1>7. /\ i.clientKey = None <=> ~ Given(s.clientKey)
      /\ Given(s.clientKey) => /\ i.clientKey = parseClientKey(s.clientKey)
                               /\ parseClientKey(s.clientKey) \in Key
      /\ Given(s.providerIssuer) => s.providerIssuer \in Text
  BY <1>2, <1>3, TextRead, KeyRead, KeyParsed
<1>8. Given(s.providerIssuer) => i.providerIssuer # None
  BY <1>3, <1>7, Sentinels
<1> HIDE DEF s, i
<1>9. CASE Given(s.clientKey)
  <2>1. createSessionGrantClient(i) = ByKey(s.clientId, parseClientKey(s.clientKey), s.providerIssuer)
    BY <1>3, <1>6, <1>7, <1>8, <1>9
  <2> QED BY <1>3, <1>5, <1>7, <1>9, <2>1, Credentials DEF i, s
<1>10. CASE ~ Given(s.clientKey)
  <2>1. createSessionGrantClient(i) = None
    BY <1>6, <1>7, <1>10
  <2> QED BY <1>4, <1>5, <1>10, <2>1 DEF i, s
<1> QED BY <1>9, <1>10

\* The exchange's client, when there is one, authenticates as the settings say.
LEMMA ExchangeBuilt ==
    ASSUME raw \in RawSettings, raw.mode = "injection", injectionSchema(raw.injection) # Invalid,
           On(raw.injection.exchange.enabled)
    PROVE  /\ exchangeCredentials(injectionSchema(raw.injection)) = Registered("exchange")
           /\ Registered("exchange") \in Credential
           /\ Given(raw.injection.exchange.clientSecret) <=> ~ Given(raw.injection.exchange.clientKey)
<1> DEFINE s == raw.injection
           i == injectionSchema(s)
           r == s.exchange
           x == exchangeSchema(r)
<1>1. s \in RawInjection /\ r \in RawExchange
  BY DEF RawSettings, RawInjection
<1>2. s.providerIssuer \in TextSetting /\ r.clientSecret \in TextSetting /\ r.clientKey \in KeySetting
  BY <1>1 DEF RawInjection, RawExchange
<1>3. /\ i.providerIssuer = IF Given(s.providerIssuer) THEN s.providerIssuer ELSE None
      /\ i.exchange = x /\ x # Invalid
      /\ Given(r.clientKey) => Given(s.providerIssuer)
  BY <1>1, InjectionRead
<1>4. /\ x.clientId = r.clientId /\ r.clientId \in Text
      /\ x.clientSecret = optionalString(r.clientSecret)
      /\ x.clientKey = clientKey(r.clientKey) /\ clientKey(r.clientKey) # Invalid
      /\ Given(r.clientSecret) <=> ~ Given(r.clientKey)
  BY <1>1, <1>3, ExchangeRead
<1>5. Section = s /\ Client("exchange") = r /\ (SecretGiven("exchange") <=> Given(r.clientSecret))
  BY DEF Section, Client, SecretGiven
<1>6. Registered("exchange") =
        IF Given(r.clientSecret) THEN BySecret(r.clientId, r.clientSecret)
        ELSE IF Given(r.clientKey) THEN ByKey(r.clientId, parseClientKey(r.clientKey), s.providerIssuer)
        ELSE None
  BY <1>5 DEF Registered
<1>7. exchangeCredentials(i) =
        IF x.clientSecret # None THEN BySecret(x.clientId, x.clientSecret)
        ELSE IF x.clientKey # None /\ i.providerIssuer # None
             THEN ByKey(x.clientId, x.clientKey, i.providerIssuer) ELSE Invalid
  BY <1>3, Zenon DEF exchangeCredentials
<1>8. /\ x.clientSecret = None <=> ~ Given(r.clientSecret)
      /\ x.clientKey = None <=> ~ Given(r.clientKey)
      /\ Given(r.clientSecret) => x.clientSecret = r.clientSecret /\ r.clientSecret \in Text
      /\ Given(s.providerIssuer) => s.providerIssuer \in Text
      /\ Given(r.clientKey) => x.clientKey = parseClientKey(r.clientKey) /\ parseClientKey(r.clientKey) \in Key
  BY <1>2, <1>4, TextRead, KeyRead, KeyParsed
<1>9. Given(s.providerIssuer) => i.providerIssuer # None
  BY <1>3, <1>8, Sentinels
<1> HIDE DEF s, i, r, x
<1>10. CASE Given(r.clientSecret)
  <2>1. exchangeCredentials(i) = BySecret(r.clientId, r.clientSecret)
    BY <1>4, <1>7, <1>8, <1>10
  <2> QED BY <1>4, <1>6, <1>8, <1>10, <2>1, Credentials DEF i, s, r
<1>11. CASE ~ Given(r.clientSecret)
  <2>1. exchangeCredentials(i) = ByKey(r.clientId, parseClientKey(r.clientKey), s.providerIssuer)
    BY <1>3, <1>4, <1>7, <1>8, <1>9, <1>11
  <2> QED BY <1>3, <1>4, <1>6, <1>8, <1>11, <2>1, Credentials DEF i, s, r
<1> QED BY <1>10, <1>11

----------------------------------------------------------------------------
(* The invariant.                                                          *)

\* The registrations follow from the settings, which no step changes.
LEMMA RegistrationsStay ==
    ASSUME raw' = raw
    PROVE  InUse' = InUse /\ \A c : Registered(c)' = Registered(c)
BY DEF InUse, Registered, Section, Client, SecretGiven

\* The clients stay as written while nothing of them changes.
LEMMA ClientsStay ==
    ASSUME ClientsAsWritten, raw' = raw, config' = config, clients' = clients, warned' = warned,
           phase' = phase \/ phase \in {"listen", "listening"}
    PROVE  ClientsAsWritten'
<1>1. phase' \in {"listen", "listening"} => phase \in {"listen", "listening"}
  OBVIOUS
<1>2. InUse' = InUse /\ \A c : Registered(c)' = Registered(c)
  BY RegistrationsStay
<1> QED BY <1>1, <1>2 DEF ClientsAsWritten

\* The calls made stay as they were while no call is made.
LEMMA CallsStay ==
    ASSUME CallsAsMade, raw' = raw, calls' = calls, phase' = phase \/ phase # "listening"
    PROVE  CallsAsMade'
<1>1. calls # <<>> => phase = "listening"
  BY DEF CallsAsMade
<1>2. InUse' = InUse /\ \A c : Registered(c)' = Registered(c)
  BY RegistrationsStay
<1>3. \A i \in 1..Len(calls) : calls[i].client \in InUse /\ MadeAs(calls[i], Registered(calls[i].client), i)
  BY DEF CallsAsMade
<1>4. calls \in Seq(CallMade)
  BY DEF CallsAsMade
<1>5. calls' # <<>> => phase' = "listening"
  BY <1>1
<1>6. \A i \in 1..Len(calls') : (calls[i].client \in InUse /\ MadeAs(calls[i], Registered(calls[i].client), i))'
  BY <1>2, <1>3
<1>7. calls' \in Seq(CallMade)
  BY <1>4
<1> QED BY <1>5, <1>6, <1>7, Zenon DEF CallsAsMade

\* A configuration that is in force is the one the settings give.
LEMMA InForce ==
    ASSUME BootInv, phase \in {"cors", "router", "listen", "listening"}
    PROVE  /\ config.mode = raw.mode /\ raw.mode \in {"validation", "injection"}
           /\ config.port = Number(raw.port, 3)
           /\ config.bodyLimitSize \in parseByteSize
           /\ config.pattern \in {None, "narrow", "broad"}
           /\ raw.mode = "validation" =>
                 config.auth = validationSchema(raw.validation) /\ validationSchema(raw.validation) # Invalid
           /\ raw.mode = "injection" =>
                 config.auth = injectionSchema(raw.injection) /\ injectionSchema(raw.injection) # Invalid
BY ConfigRead DEF BootInv, ConfigIsParsed

\* A router of the validation mode is built, and its client as the settings say.
LEMMA ValidationRouterBuilt ==
    ASSUME BootInv, CreateValidationRouter
    PROVE  /\ phase' = "listen"
           /\ ClientsAsWritten'
<1>1. /\ phase = "router" /\ config.mode = "validation"
      /\ raw' = raw /\ config' = config
      /\ Built(config.bodyLimitSize \in parseByteSize,
               [introspection |-> introspectionCredentials(config.auth)])
  BY Zenon DEF CreateValidationRouter
<1>2. /\ raw.mode = "validation" /\ config.bodyLimitSize \in parseByteSize
      /\ config.auth = validationSchema(raw.validation) /\ validationSchema(raw.validation) # Invalid
  BY <1>1, InForce
<1>3. /\ introspectionCredentials(config.auth) = Registered("introspection")
      /\ Registered("introspection") \in Credential \cup {None}
  BY <1>2, IntrospectionBuilt DEF BootInv
<1> DEFINE made == [introspection |-> introspectionCredentials(config.auth)]
<1>4. DOMAIN made = {"introspection"} /\ made["introspection"] = Registered("introspection")
  BY <1>3
<1> HIDE DEF made
<1>5. \A c \in DOMAIN made : made[c] # Invalid
  BY <1>3, <1>4, CredentialAssumption, Sentinels
<1>6. Built(config.bodyLimitSize \in parseByteSize, made)
  BY <1>1 DEF made
<1>7. clients' = made /\ phase' = "listen"
  BY <1>2, <1>5, <1>6, Zenon DEF Built
<1>8. InUse = {"introspection"}
  BY <1>2 DEF InUse
<1>9. InUse' = {"introspection"} /\ \A c : Registered(c)' = Registered(c)
  BY <1>1, <1>8, RegistrationsStay
<1>10. raw'.mode # "injection"
  BY <1>1, <1>2
<1>11. DOMAIN clients' = {"introspection"} /\ clients'["introspection"] = Registered("introspection")
  BY <1>4, <1>7
<1>12. \A c \in InUse' : /\ clients'[c] = Registered(c)'
                         /\ clients'[c] \in (Credential \cup {None})'
  BY <1>3, <1>9, <1>11 DEF Credential
<1> QED BY <1>7, <1>9, <1>10, <1>11, <1>12 DEF ClientsAsWritten

\* A router of the injection mode is built, its clients as the settings say and
\* its warnings logged.
LEMMA InjectionRouterBuilt ==
    ASSUME BootInv, CreateInjectionRouter
    PROVE  /\ phase' = "listen"
           /\ ClientsAsWritten'
<1> DEFINE i == config.auth
           parts == /\ config.bodyLimitSize \in parseByteSize
                    /\ i.trustedProxies \subseteq parseAddressRange
                    /\ i.publicOrigin # "no_url" /\ i.providerOrigin # "no_url"
           made == [c \in {"session"} \cup (IF i.exchange.enabled THEN {"exchange"} ELSE {}) |->
                       IF c = "session" THEN createSessionGrantClient(i) ELSE exchangeCredentials(i)]
<1>1. /\ phase = "router" /\ config.mode = "injection"
      /\ raw' = raw /\ config' = config
      /\ Built(parts, made)
      /\ warned' = warned \cup {w \in {"trusts_all", "public_origin_unset"} :
            \/ w = "trusts_all" /\ "all" \in i.trustedProxies
            \/ w = "public_origin_unset" /\ i.publicOrigin = None}
  BY Zenon DEF CreateInjectionRouter
<1>2. /\ raw.mode = "injection" /\ config.bodyLimitSize \in parseByteSize
      /\ i = injectionSchema(raw.injection) /\ injectionSchema(raw.injection) # Invalid
      /\ raw \in RawSettings
  BY <1>1, InForce DEF BootInv
<1>3. /\ i.publicOrigin = IF Given(raw.injection.publicOrigin) THEN "origin" ELSE None
      /\ i.providerOrigin \in isHttpOrigin /\ i.trustedProxies \subseteq parseAddressRange
      /\ i.exchange.enabled = On(raw.injection.exchange.enabled)
  <2>1. raw.injection \in RawInjection /\ raw.injection.exchange \in RawExchange
    BY <1>2 DEF RawSettings, RawInjection
  <2>2. /\ i.publicOrigin = IF Given(raw.injection.publicOrigin) THEN "origin" ELSE None
        /\ i.providerOrigin \in isHttpOrigin /\ i.trustedProxies \subseteq parseAddressRange
        /\ i.exchange = exchangeSchema(raw.injection.exchange)
        /\ exchangeSchema(raw.injection.exchange) # Invalid
    BY <1>2, <2>1, InjectionRead
  <2>3. i.exchange.enabled = On(raw.injection.exchange.enabled)
    BY <2>1, <2>2, ExchangeRead, Zenon
  <2> QED BY <2>2, <2>3, Zenon
<1>4. parts
  <2>1. i.publicOrigin # "no_url"
    BY <1>3, Sentinels, TextAssumption
  <2>2. i.providerOrigin # "no_url"
    BY <1>3 DEF isHttpOrigin
  <2> QED BY <1>2, <1>3, <2>1, <2>2
<1>5. InUse = {"session"} \cup (IF i.exchange.enabled THEN {"exchange"} ELSE {})
  <2>1. Section = raw.injection
    BY <1>2 DEF Section
  <2>2. InUse = {"session"} \cup (IF On(raw.injection.exchange.enabled) THEN {"exchange"} ELSE {})
    BY <1>2, <2>1 DEF InUse
  <2> QED BY <1>3, <2>2, Zenon
<1>6. DOMAIN made = InUse
  BY <1>5
<1>7. \A c \in InUse : made[c] = Registered(c) /\ Registered(c) \in Credential \cup {None}
  <2>1. made["session"] = createSessionGrantClient(i) /\ "session" \in InUse
    BY <1>5
  <2>2. made["session"] = Registered("session") /\ Registered("session") \in Credential \cup {None}
    BY <1>2, <2>1, SessionBuilt
  <2>3. CASE On(raw.injection.exchange.enabled)
    <3>1. i.exchange.enabled
      BY <1>3, <2>3, Zenon
    <3>2. made["exchange"] = exchangeCredentials(i)
      BY <3>1
    <3>3. made["exchange"] = Registered("exchange") /\ Registered("exchange") \in Credential
      BY <1>2, <2>3, <3>2, ExchangeBuilt
    <3>4. \A c \in InUse : c = "session" \/ c = "exchange"
      BY <1>5, <3>1
    <3> HIDE DEF made
    <3> QED BY <2>2, <3>3, <3>4
  <2>4. CASE ~ On(raw.injection.exchange.enabled)
    <3>1. ~ i.exchange.enabled
      BY <1>3, <2>4, Zenon
    <3>2. \A c \in InUse : c = "session"
      BY <1>5, <3>1
    <3> HIDE DEF made
    <3> QED BY <2>2, <3>2
  <2> QED BY <2>3, <2>4
<1> HIDE DEF made, parts
<1>8. \A c \in DOMAIN made : made[c] # Invalid
  BY <1>6, <1>7, CredentialAssumption, Sentinels
<1>9. clients' = made /\ phase' = "listen"
  BY <1>1, <1>4, <1>8, Zenon DEF Built
<1>10. InUse' = InUse /\ \A c : Registered(c)' = Registered(c)
  BY <1>1, RegistrationsStay
<1>11. \A c \in InUse' : /\ clients'[c] = Registered(c)'
                         /\ clients'[c] \in (Credential \cup {None})'
  BY <1>7, <1>9, <1>10 DEF Credential
<1>12. DOMAIN clients' = InUse'
  BY <1>6, <1>9, <1>10
<1>13. /\ config'.auth.publicOrigin = None => "public_origin_unset" \in warned'
       /\ "all" \in config'.auth.trustedProxies => "trusts_all" \in warned'
  BY <1>1
<1> QED BY <1>9, <1>11, <1>12, <1>13 DEF ClientsAsWritten

\* A call carries what its client's registration gives.
LEMMA CallMadeAs ==
    ASSUME BootInv, NEW c \in DOMAIN clients, Call(c)
    PROVE  CallsAsMade'
<1>1. /\ phase = "listening" /\ phase' = "listening" /\ raw' = raw
      /\ calls' = Append(calls, authenticateClient(c))
  BY DEF Call
<1>2. c \in InUse /\ clients[c] = Registered(c) /\ Registered(c) \in Credential \cup {None}
  BY <1>1 DEF BootInv, ClientsAsWritten
<1>3. InUse \subseteq {"introspection", "session", "exchange"}
  BY DEF InUse
<1> DEFINE auth == Registered(c)
           n == Len(calls) + 1
           call == authenticateClient(c)
<1>4. calls \in Seq(CallMade)
  BY DEF BootInv, CallsAsMade
<1>5. Len(calls) \in Nat /\ n \in Nat
  BY <1>4
<1>6. call = [client |-> c,
              authorization |-> CASE auth = None -> IF c = "introspection" THEN "Bearer" ELSE None
                                  [] OTHER -> IF auth.by = "secret" THEN "Basic" ELSE None,
              assertion |-> CASE auth = None -> None
                              [] OTHER -> IF auth.by = "secret" THEN None
                                          ELSE signClientAssertion(auth.id, auth.audience, auth.key, n)]
  BY <1>2, Zenon DEF authenticateClient, SignatureNumber
<1> HIDE DEF auth, call, n
<1>7. MadeAs(call, auth, n) /\ call.client = c
  BY <1>6 DEF MadeAs
<1>8. call \in CallMade
  <2>1. call = [client |-> c, authorization |-> call.authorization, assertion |-> call.assertion]
    BY <1>6
  <2>2. call.authorization \in {"Basic", "Bearer", None}
    BY <1>7 DEF MadeAs
  <2>3. CASE auth = None \/ auth.by = "secret"
    BY <1>2, <1>3, <1>7, <2>1, <2>2, <2>3 DEF MadeAs, CallMade
  <2>4. CASE auth # None /\ auth.by # "secret"
    <3>1. auth.id \in Text /\ auth.key \in Key /\ auth.audience \in Text
      BY <1>2, <2>4 DEF Credential, auth
    <3>2. call.assertion = signClientAssertion(auth.id, auth.audience, auth.key, n)
      BY <1>7, <2>4 DEF MadeAs
    <3>3. signClientAssertion(auth.id, auth.audience, auth.key, n) \in Assertion
      BY <1>5, <3>1 DEF signClientAssertion, signJws, Assertion, Key
    <3> QED BY <1>2, <1>3, <2>1, <2>2, <3>2, <3>3 DEF CallMade
  <2> QED BY <2>3, <2>4
<1>9. \A i \in 1..Len(calls) : calls[i].client \in InUse /\ MadeAs(calls[i], Registered(calls[i].client), i)
  BY DEF BootInv, CallsAsMade
<1>10. InUse' = InUse /\ \A d : Registered(d)' = Registered(d)
  BY <1>1, RegistrationsStay
<1>11. /\ calls' \in Seq(CallMade) /\ Len(calls') = n
       /\ \A i \in 1..Len(calls) : calls'[i] = calls[i]
       /\ calls'[n] = call
  BY <1>1, <1>4, <1>5, <1>8 DEF call, n
<1>12. \A i \in 1..Len(calls') : (calls[i].client \in InUse /\ MadeAs(calls[i], Registered(calls[i].client), i))'
  <2> SUFFICES ASSUME NEW i \in 1..Len(calls')
               PROVE  (calls[i].client \in InUse /\ MadeAs(calls[i], Registered(calls[i].client), i))'
    OBVIOUS
  <2>1. i \in 1..Len(calls) \/ i = n
    BY <1>5, <1>11 DEF n
  <2>2. CASE i \in 1..Len(calls)
    BY <1>9, <1>10, <1>11, <2>2
  <2>3. CASE i = n
    BY <1>2, <1>7, <1>10, <1>11, <2>3 DEF auth
  <2> QED BY <2>1, <2>2, <2>3
<1> QED BY <1>1, <1>11, <1>12, Zenon DEF CallsAsMade

\* Whatever the settings, the invariant holds initially.
LEMMA BootInvInit == BootInit => BootInv
<1> SUFFICES ASSUME BootInit PROVE BootInv
  OBVIOUS
<1>1. raw \in RawSettings /\ phase = "load" /\ calls = <<>>
  BY RawsAssumption DEF BootInit
<1>2. calls \in Seq(CallMade) /\ Len(calls) = 0
  BY <1>1
<1>3. CallsAsMade
  BY <1>1, <1>2 DEF CallsAsMade
<1> QED BY <1>1, <1>3 DEF BootInv, ConfigIsParsed, ClientsAsWritten

\* Every step of the start and every call keeps it.
LEMMA BootInvNext == BootInv /\ [BootNext]_bootVars => BootInv'
<1> SUFFICES ASSUME BootInv, [BootNext]_bootVars PROVE BootInv'
  OBVIOUS
<1> USE DEF BootInv
<1>1. CASE LoadConfig
  <2>1. /\ phase = "load" /\ raw' = raw /\ calls' = calls
        /\ \/ phase' = "refused"
           \/ phase' = "cors" /\ config' = AppConfigSchema(raw) /\ AppConfigSchema(raw) # Invalid
    BY <1>1 DEF LoadConfig
  <2>2. ConfigIsParsed'
    BY <2>1 DEF ConfigIsParsed
  <2>3. CallsAsMade'
    BY <2>1, CallsStay
  <2> QED BY <2>1, <2>2, <2>3 DEF ClientsAsWritten
<1>2. CASE CreateCors
  <2>1. config.pattern \in {None, "narrow", "broad"}
    BY <1>2, InForce DEF CreateCors
  <2>2. phase = "cors" /\ phase' = "router" /\ raw' = raw /\ config' = config /\ calls' = calls
    BY <1>2, <2>1 DEF CreateCors
  <2>3. ConfigIsParsed'
    BY <2>2 DEF ConfigIsParsed
  <2>4. CallsAsMade'
    BY <2>2, CallsStay
  <2> QED BY <2>2, <2>3, <2>4 DEF ClientsAsWritten
<1>3. CASE CreateValidationRouter
  <2>1. phase = "router" /\ raw' = raw /\ config' = config /\ calls' = calls
    BY <1>3 DEF CreateValidationRouter
  <2>2. phase' = "listen" /\ ClientsAsWritten'
    BY <1>3, ValidationRouterBuilt
  <2>3. ConfigIsParsed'
    BY <2>1, <2>2 DEF ConfigIsParsed
  <2>4. CallsAsMade'
    BY <2>1, CallsStay
  <2> QED BY <2>1, <2>2, <2>3, <2>4
<1>4. CASE CreateInjectionRouter
  <2>1. phase = "router" /\ raw' = raw /\ config' = config /\ calls' = calls
    BY <1>4 DEF CreateInjectionRouter
  <2>2. phase' = "listen" /\ ClientsAsWritten'
    BY <1>4, InjectionRouterBuilt
  <2>3. ConfigIsParsed'
    BY <2>1, <2>2 DEF ConfigIsParsed
  <2>4. CallsAsMade'
    BY <2>1, CallsStay
  <2> QED BY <2>1, <2>2, <2>3, <2>4
<1>5. CASE Listen
  <2>1. /\ phase = "listen" /\ phase' = "listening"
        /\ raw' = raw /\ config' = config /\ clients' = clients /\ warned' = warned /\ calls' = calls
    BY <1>5 DEF Listen
  <2>2. ConfigIsParsed'
    BY <2>1 DEF ConfigIsParsed
  <2>3. ClientsAsWritten'
    BY <2>1, ClientsStay
  <2>4. CallsAsMade'
    BY <2>1, CallsStay
  <2> QED BY <2>1, <2>2, <2>3, <2>4
<1>6. ASSUME NEW c \in DOMAIN clients, Call(c)
      PROVE  BootInv'
  <2>1. phase' = phase /\ raw' = raw /\ config' = config /\ clients' = clients /\ warned' = warned
    BY <1>6 DEF Call
  <2>2. ConfigIsParsed'
    BY <2>1 DEF ConfigIsParsed
  <2>3. ClientsAsWritten'
    BY <2>1, ClientsStay
  <2>4. CallsAsMade'
    BY <1>6, CallMadeAs
  <2> QED BY <2>1, <2>2, <2>3, <2>4
<1>7. CASE UNCHANGED bootVars
  <2>1. /\ phase' = phase /\ raw' = raw /\ config' = config /\ clients' = clients
        /\ warned' = warned /\ calls' = calls
    BY <1>7 DEF bootVars
  <2>2. ConfigIsParsed'
    BY <2>1 DEF ConfigIsParsed
  <2>3. ClientsAsWritten'
    BY <2>1, ClientsStay
  <2>4. CallsAsMade'
    BY <2>1, CallsStay
  <2> QED BY <2>1, <2>2, <2>3, <2>4
<1> HIDE DEF BootInv
<1> QED BY <1>1, <1>2, <1>3, <1>4, <1>5, <1>6, <1>7 DEF BootNext

----------------------------------------------------------------------------
(* The properties.                                                         *)

\* What the invariant says of the configuration in force is BootsAsWritten.
LEMMA BootsAsWrittenFromInv == BootInv => BootsAsWritten
<1> SUFFICES ASSUME BootInv PROVE BootsAsWritten
  OBVIOUS
<1>1. phase # "crashed"
  BY DEF BootInv
<1> SUFFICES ASSUME phase = "listening" PROVE BootsAsWritten
  BY <1>1 DEF BootsAsWritten
<1>2. /\ config.port = Number(raw.port, 3)
      /\ raw.mode \in {"validation", "injection"}
      /\ raw.mode = "validation" =>
            config.auth = validationSchema(raw.validation) /\ validationSchema(raw.validation) # Invalid
      /\ raw.mode = "injection" =>
            config.auth = injectionSchema(raw.injection) /\ injectionSchema(raw.injection) # Invalid
  BY InForce
<1>3. raw.validation \in RawValidation /\ raw.injection \in RawInjection /\ raw.injection.exchange \in RawExchange
  BY DEF BootInv, RawSettings, RawInjection
<1>4. CASE raw.mode = "validation"
  <2>1. Section = raw.validation
    BY <1>4 DEF Section
  <2>2. /\ config.auth.cacheTtlSec = Number(Section.cacheTtlSec, 3)
        /\ config.auth.timeoutMs = Number(Section.timeoutMs, 3)
        /\ config.auth.timeoutMs \in 1..MaxTimer
    BY <1>2, <1>3, <1>4, <2>1, ValidationRead
  <2>3. raw.mode # "injection"
    BY <1>4
  <2> QED BY <1>1, <1>2, <2>2, <2>3 DEF BootsAsWritten
<1>5. CASE raw.mode = "injection"
  <2>1. /\ Section = raw.injection /\ Section \in RawInjection
        /\ config.auth = injectionSchema(Section) /\ injectionSchema(Section) # Invalid
    BY <1>2, <1>3, <1>5 DEF Section
  <2>2. /\ config.auth.ttlSeconds = Number(Section.ttlSeconds, 3)
        /\ config.auth.safetyMarginSeconds = Number(Section.safetyMarginSeconds, 1)
        /\ config.auth.safetyMarginSeconds < config.auth.ttlSeconds
        /\ config.auth.stripInboundAuthorization = On(Section.stripInboundAuthorization)
        /\ config.auth.publicOrigin = IF Given(Section.publicOrigin) THEN "origin" ELSE None
        /\ config.auth.timeoutMs \in 1..MaxTimer
        /\ config.auth.exchange = exchangeSchema(Section.exchange) /\ exchangeSchema(Section.exchange) # Invalid
    <3>1. /\ injectionSchema(Section).ttlSeconds = Number(Section.ttlSeconds, 3)
          /\ injectionSchema(Section).safetyMarginSeconds = Number(Section.safetyMarginSeconds, 1)
          /\ injectionSchema(Section).safetyMarginSeconds < injectionSchema(Section).ttlSeconds
          /\ injectionSchema(Section).stripInboundAuthorization = On(Section.stripInboundAuthorization)
          /\ injectionSchema(Section).publicOrigin = IF Given(Section.publicOrigin) THEN "origin" ELSE None
          /\ injectionSchema(Section).timeoutMs \in 1..MaxTimer
          /\ injectionSchema(Section).exchange = exchangeSchema(Section.exchange)
          /\ exchangeSchema(Section.exchange) # Invalid
      BY <2>1, InjectionRead, Zenon
    <3> QED BY <2>1, <3>1
  <2>3. config.auth.exchange.enabled = On(Section.exchange.enabled)
    BY <1>3, <2>1, <2>2, ExchangeRead, Zenon
  <2>4. /\ config.auth.publicOrigin = None => "public_origin_unset" \in warned
        /\ "all" \in config.auth.trustedProxies => "trusts_all" \in warned
    BY <1>5 DEF BootInv, ClientsAsWritten
  <2>5. raw.mode # "validation"
    BY <1>5
  <2> QED BY <1>1, <1>2, <2>2, <2>3, <2>4, <2>5, Zenon DEF BootsAsWritten
<1> QED BY <1>2, <1>4, <1>5

\* The key of a client in use is one its provider takes, the only credential the
\* client has, and some client has one where an issuer is written.
LEMMA KeysInUse ==
    ASSUME BootInv, phase = "listening"
    PROVE  /\ \A c \in InUse :
                 /\ Client(c).clientKey \in KeySetting
                 /\ SecretGiven(c) => ~ Given(Client(c).clientKey)
                 /\ Given(Client(c).clientKey) => parseClientKey(Client(c).clientKey) # Invalid
           /\ Given(Section.providerIssuer) =>
                 \E c \in InUse : ~ SecretGiven(c) /\ Given(Client(c).clientKey)
<1>1. /\ raw.mode \in {"validation", "injection"}
      /\ raw.mode = "validation" => validationSchema(raw.validation) # Invalid
      /\ raw.mode = "injection" => injectionSchema(raw.injection) # Invalid
  BY InForce
<1>2. /\ raw.validation \in RawValidation /\ raw.injection \in RawInjection
      /\ raw.injection.exchange \in RawExchange
  BY DEF BootInv, RawSettings, RawInjection
<1>3. /\ raw.validation.clientKey \in KeySetting /\ raw.injection.clientKey \in KeySetting
      /\ raw.injection.exchange.clientKey \in KeySetting
  BY <1>2 DEF RawValidation, RawInjection, RawExchange
<1>4. CASE raw.mode = "validation"
  <2> DEFINE s == raw.validation
  <2>1. /\ InUse = {"introspection"} /\ Section = s /\ Client("introspection") = s
        /\ SecretGiven("introspection") <=> Given(s.clientSecret)
    BY <1>4 DEF InUse, Section, Client, SecretGiven
  <2>2. /\ clientKey(s.clientKey) # Invalid
        /\ ~ (Given(s.clientSecret) /\ Given(s.clientKey))
        /\ Given(s.clientKey) <=> Given(s.providerIssuer)
    BY <1>1, <1>2, <1>4, ValidationRead
  <2>3. Given(s.clientKey) => parseClientKey(s.clientKey) # Invalid
    BY <1>3, <2>2, KeyRead
  <2> QED BY <1>3, <2>1, <2>2, <2>3
<1>5. CASE raw.mode = "injection"
  <2> DEFINE s == raw.injection
             x == s.exchange
  <2>1. /\ Section = s /\ Client("session") = s /\ Client("exchange") = x
        /\ ~ SecretGiven("session") /\ (SecretGiven("exchange") <=> Given(x.clientSecret))
        /\ "session" \in InUse /\ (On(x.enabled) => "exchange" \in InUse)
        /\ \A c \in InUse : c = "session" \/ (c = "exchange" /\ On(x.enabled))
    BY <1>5 DEF InUse, Section, Client, SecretGiven
  <2>2. /\ clientKey(s.clientKey) # Invalid
        /\ exchangeSchema(x) # Invalid
        /\ Given(s.providerIssuer) <=> Given(s.clientKey) \/ (On(x.enabled) /\ Given(x.clientKey))
    BY <1>1, <1>2, <1>5, InjectionRead, Zenon
  <2>3. On(x.enabled) => /\ clientKey(x.clientKey) # Invalid
                         /\ Given(x.clientSecret) <=> ~ Given(x.clientKey)
    BY <1>2, <2>2, ExchangeRead, Zenon
  <2>4. /\ Given(s.clientKey) => parseClientKey(s.clientKey) # Invalid
        /\ On(x.enabled) /\ Given(x.clientKey) => parseClientKey(x.clientKey) # Invalid
    BY <1>3, <2>2, <2>3, KeyRead
  <2> HIDE DEF s, x
  <2>5. ASSUME NEW c \in InUse
        PROVE  /\ Client(c).clientKey \in KeySetting
               /\ SecretGiven(c) => ~ Given(Client(c).clientKey)
               /\ Given(Client(c).clientKey) => parseClientKey(Client(c).clientKey) # Invalid
    <3>1. CASE c = "session"
      BY <1>3, <2>1, <2>4, <3>1 DEF s
    <3>2. CASE c = "exchange" /\ On(x.enabled)
      BY <1>3, <2>1, <2>3, <2>4, <3>2 DEF s, x
    <3> QED BY <2>1, <3>1, <3>2
  <2>6. ASSUME Given(Section.providerIssuer)
        PROVE  \E c \in InUse : ~ SecretGiven(c) /\ Given(Client(c).clientKey)
    BY <2>1, <2>2, <2>3, <2>6
  <2> QED BY <2>5, <2>6
<1> QED BY <1>1, <1>4, <1>5

\* A client in use that is given a secret or a key has a credential.
LEMMA CredentialGiven ==
    ASSUME BootInv, phase = "listening", NEW c \in InUse, SecretGiven(c) \/ Given(Client(c).clientKey)
    PROVE  Registered(c) # None
<1>1. raw \in RawSettings /\ raw.mode \in {"validation", "injection"}
  BY InForce DEF BootInv
<1>2. CASE raw.mode = "validation"
  <2>1. c = "introspection"
    BY <1>2 DEF InUse
  <2>2. validationSchema(raw.validation) # Invalid
    BY <1>2, InForce
  <2> QED BY <1>1, <1>2, <2>1, <2>2, IntrospectionBuilt, CredentialAssumption
<1>3. CASE raw.mode = "injection"
  <2>1. injectionSchema(raw.injection) # Invalid
    BY <1>3, InForce
  <2>2. c = "session" \/ (c = "exchange" /\ On(raw.injection.exchange.enabled))
    BY <1>3 DEF InUse, Section
  <2>3. CASE c = "session"
    BY <1>1, <1>3, <2>1, <2>3, SessionBuilt, CredentialAssumption
  <2>4. CASE c = "exchange" /\ On(raw.injection.exchange.enabled)
    BY <1>1, <1>3, <2>1, <2>4, ExchangeBuilt, CredentialAssumption
  <2> QED BY <2>2, <2>3, <2>4
<1> QED BY <1>1, <1>2, <1>3

\* What the invariant says of the calls made is ConfiguredCredentialUsed.
LEMMA ConfiguredCredentialUsedFromInv == BootInv => ConfiguredCredentialUsed
<1> SUFFICES ASSUME BootInv, phase = "listening" PROVE ConfiguredCredentialUsed
  BY DEF ConfiguredCredentialUsed
<1>1. ASSUME NEW c \in InUse
      PROVE  /\ Client(c).clientKey \in KeySetting
             /\ SecretGiven(c) => ~ Given(Client(c).clientKey)
             /\ Given(Client(c).clientKey) => parseClientKey(Client(c).clientKey) # Invalid
  BY KeysInUse
<1>2. /\ DOMAIN clients = InUse
      /\ \A c \in InUse : clients[c] = Registered(c) /\ Registered(c) \in Credential \cup {None}
  BY DEF BootInv, ClientsAsWritten
<1>3. \A i \in 1..Len(calls) : calls[i].client \in InUse /\ MadeAs(calls[i], Registered(calls[i].client), i)
  BY DEF BootInv, CallsAsMade
<1>4. ASSUME NEW c \in InUse, SecretGiven(c)
      PROVE  Registered(c) # None /\ Registered(c).by = "secret"
  BY <1>4, CredentialGiven DEF Registered, BySecret
<1>5. ASSUME NEW c \in InUse, ~ SecretGiven(c), Given(Client(c).clientKey)
      PROVE  /\ Registered(c) # None /\ Registered(c).by = "key"
             /\ Registered(c).id = Client(c).clientId /\ Registered(c).audience = Section.providerIssuer
             /\ Registered(c).key = parseClientKey(Client(c).clientKey)
  BY <1>5, CredentialGiven DEF Registered, ByKey
<1>6. ASSUME NEW c \in InUse, ~ SecretGiven(c), ~ Given(Client(c).clientKey)
      PROVE  Registered(c) = None
  BY <1>6 DEF Registered
<1>7. Given(Section.providerIssuer) =>
         \E c \in DOMAIN clients : /\ clients[c] # None
                                   /\ clients[c].by = "key"
                                   /\ clients[c].audience = Section.providerIssuer
  <2> SUFFICES ASSUME Given(Section.providerIssuer)
               PROVE  \E c \in DOMAIN clients : /\ clients[c] # None
                                                /\ clients[c].by = "key"
                                                /\ clients[c].audience = Section.providerIssuer
    OBVIOUS
  <2>1. PICK c \in InUse : ~ SecretGiven(c) /\ Given(Client(c).clientKey)
    BY KeysInUse
  <2> QED BY <1>2, <1>5, <2>1
<1>8. ASSUME NEW i \in 1..Len(calls), calls[i].assertion # None
      PROVE  calls[i].assertion.jti = i
  <2>1. MadeAs(calls[i], Registered(calls[i].client), i)
    BY <1>3
  <2> QED BY <1>8, <2>1 DEF MadeAs, signClientAssertion
<1> DEFINE seen(i) == {calls[j].assertion.jti : j \in {k \in 1..(i - 1) : calls[k].assertion # None}}
<1>9. ASSUME NEW i \in 1..Len(calls)
      PROVE  i \notin seen(i)
  <2>1. Len(calls) \in Nat
    BY DEF BootInv, CallsAsMade
  <2>2. ASSUME NEW j \in 1..(i - 1), calls[j].assertion # None
        PROVE  calls[j].assertion.jti # i
    <3>1. j \in 1..Len(calls) /\ j # i
      BY <2>1
    <3> QED BY <1>8, <2>2, <3>1
  <2> QED BY <2>2
<1>10. ASSUME NEW i \in 1..Len(calls)
       PROVE  LET call == calls[i]
                  given == Client(call.client)
              IN  /\ (call.authorization = "Basic") = SecretGiven(call.client)
                  /\ (call.assertion # None) = Given(given.clientKey)
                  /\ call.authorization = None \/ call.assertion = None
                  /\ call.assertion # None =>
                        ProviderVerifies(call.assertion, given.clientKey, given.clientId,
                                         Section.providerIssuer, seen(i))
  <2> DEFINE call == calls[i]
             c == call.client
             given == Client(c)
             auth == Registered(c)
  <2>1. c \in InUse /\ MadeAs(call, auth, i)
    BY <1>3
  <2>2. i \notin seen(i) /\ i \in Nat
    BY <1>9
  <2> SUFFICES /\ call.authorization = "Basic" <=> SecretGiven(c)
               /\ call.assertion # None <=> Given(given.clientKey)
               /\ call.authorization = None \/ call.assertion = None
               /\ call.assertion # None =>
                     ProviderVerifies(call.assertion, given.clientKey, given.clientId,
                                      Section.providerIssuer, seen(i))
    BY DEF SecretGiven, Given
  <2> HIDE DEF seen, call, c, given, auth
  <2>3. CASE SecretGiven(c)
    <3>1. auth # None /\ auth.by = "secret"
      BY <1>4, <2>1, <2>3 DEF auth
    <3>2. call.authorization = "Basic" /\ call.assertion = None
      BY <2>1, <3>1 DEF MadeAs
    <3>3. ~ Given(given.clientKey)
      BY <1>1, <2>1, <2>3 DEF given
    <3> QED BY <2>3, <3>2, <3>3
  <2>4. CASE ~ SecretGiven(c) /\ Given(given.clientKey)
    <3>1. /\ auth # None /\ auth.by = "key" /\ auth.id = given.clientId
          /\ auth.audience = Section.providerIssuer /\ auth.key = parseClientKey(given.clientKey)
      BY <1>5, <2>1, <2>4 DEF auth, given
    <3>2. /\ call.authorization = None
          /\ call.assertion = signClientAssertion(auth.id, auth.audience, auth.key, i)
      BY <2>1, <3>1 DEF MadeAs
    <3>3. call.assertion # None
      <4>1. auth \in Credential
        BY <1>2, <2>1, <3>1 DEF auth
      <4>2. auth.id \in Text /\ auth.key \in Key /\ auth.audience \in Text
        BY <3>1, <4>1 DEF Credential
      <4>3. call.assertion \in Assertion
        BY <2>2, <3>2, <4>2 DEF signClientAssertion, signJws, Assertion, Key
      <4> QED BY <4>3, Sentinels
    <3>4. given.clientKey \in KeySetting /\ parseClientKey(given.clientKey) # Invalid
      BY <1>1, <2>1, <2>4 DEF given
    <3>5. ProviderVerifies(call.assertion, given.clientKey, given.clientId, Section.providerIssuer, seen(i))
      BY <2>2, <2>4, <3>1, <3>2, <3>4, KeyParsed
    <3> QED BY <2>4, <3>2, <3>3, <3>5, Sentinels, TextAssumption
  <2>5. CASE ~ SecretGiven(c) /\ ~ Given(given.clientKey)
    <3>1. auth = None
      BY <1>6, <2>1, <2>5 DEF auth, given
    <3>2. call.authorization \in {"Bearer", None} /\ call.assertion = None
      BY <2>1, <3>1 DEF MadeAs
    <3> QED BY <2>5, <3>2, Sentinels, TextAssumption
  <2> QED BY <2>3, <2>4, <2>5
<1> QED BY <1>7, <1>10 DEF ConfiguredCredentialUsed

----------------------------------------------------------------------------

\* The invariant holds of every reachable state: the configuration in force is
\* what the schema makes of the settings, every client in use holds the credential
\* its settings name, and every call was made with it.
THEOREM BootInvariance == BootSpec => []BootInv
BY BootInvInit, BootInvNext, PTL DEF BootSpec

\* No accepted configuration fails a constructor, and the process runs by the
\* settings as they were written: config/application.schema.mts with src/app.mts.
THEOREM BootsAsWrittenHolds == BootSpec => []BootsAsWritten
BY BootInvariance, BootsAsWrittenFromInv, PTL

\* Every provider call carries the credential configured for its client, alone,
\* and the provider that registered it accepts every assertion, each once:
\* src/oauth/client-authentication.mts and private-key-jwt.mts.
THEOREM ConfiguredCredentialUsedHolds == BootSpec => []ConfiguredCredentialUsed
BY BootInvariance, ConfiguredCredentialUsedFromInv, PTL

----------------------------------------------------------------------------
(* The shutdown's inductive invariant.                                     *)

Written(s, i) == s[i].answer = "written"

\* Something of request i is still to come: its answer, or its body's end for done.
Unfinished(s, i) == s[i].answer # "written" \/ (s[i].onEnd /\ s[i].body # "ended")

\* A connection's head h, requests s and busy index n.  Answers go out in order,
\* done waits for the body only of a written answer, only the last body may be
\* arriving, and the index is that of the last request exactly while something of
\* it is to come.
Orderly(h, s, n) ==
    /\ \A i \in 1..Len(s) : Written(s, i) => \A j \in 1..(i - 1) : Written(s, j)
    /\ \A i \in 1..Len(s) : s[i].onEnd => Written(s, i)
    /\ \A i \in 1..Len(s) : Written(s, i) /\ s[i].body = "arriving" => s[i].onEnd
    /\ \A i \in 1..(Len(s) - 1) : s[i].body # "arriving"
    /\ h = "arriving" => \A i \in 1..Len(s) : s[i].body # "arriving"
    /\ h = "unread" => s = <<>>
    /\ n # 0 => n = Len(s) /\ Unfinished(s, n)
    /\ n = 0 /\ s # <<>> => Written(s, Len(s)) /\ s[Len(s)].body # "arriving"

OrderlyConn(c) == Orderly(head[c], reqs[c], connections[c])

\* A connection that the drain closes has nothing to come, one still open during
\* the drain has.
DrainConn(c) ==
    /\ socket[c] = "drain" => \A i \in 1..Len(reqs[c]) : Answered(c, i)
    /\ shuttingDown /\ Open(c) => head[c] = "arriving" \/ connections[c] # 0

WireType ==
    /\ shuttingDown \in BOOLEAN
    /\ socket \in [Conn -> {"new", "open"} \cup Closers]
    /\ head \in [Conn -> {"unread", "arriving", "none"}]
    /\ reqs \in [Conn -> Seq(RequestState)]
    /\ connections \in [Conn -> Nat]

WireInv == WireType /\ \A c \in Conn : OrderlyConn(c) /\ DrainConn(c)

\* The process: who decided the exit code, and what is known by then.
ProcessInv ==
    /\ finished \in BOOLEAN /\ running \in BOOLEAN /\ shuttingDown \in BOOLEAN
    /\ code \in {None, 0, 1}
    /\ ~ finished <=> cleanup = "idle"
    /\ cleanup \in {"failed", "timed_out"} => code = 1
    /\ finished => shuttingDown
    /\ deadline = "fired" => finished
    /\ closing = "pending" => shuttingDown /\ deadline \in {"armed", "fired"}
    /\ deadline = "armed" => closing = "pending"
    /\ closing = "no" => deadline = "unset" /\ ~ shuttingDown
    /\ \A c \in Conn : socket[c] = "deadline" => deadline = "fired"
    /\ code = 0 => /\ running /\ finished /\ deadline = "cleared"
                   /\ \A c \in Conn : ~ Open(c)
    /\ ended = [by |-> "exit", code |-> 0] => code = 0 /\ cleanup = "done"

----------------------------------------------------------------------------
(* One request of a connection changes.                                    *)

\* What an update of request i leaves of the others.
LEMMA RequestSet ==
    ASSUME NEW s \in Seq(RequestState), NEW i \in 1..Len(s), NEW x \in RequestState
    PROVE  LET t == [s EXCEPT ![i] = x]
           IN  /\ t \in Seq(RequestState) /\ Len(t) = Len(s)
               /\ \A j \in 1..Len(s) : t[j] = IF j = i THEN x ELSE s[j]
BY ExceptSeq

\* A body is parsed to its end.
LEMMA BodyCompletesOrderly ==
    ASSUME NEW h, NEW s \in Seq(RequestState), NEW n \in Nat, Orderly(h, s, n),
           NEW i \in 1..Len(s), s[i].body = "arriving",
           NEW t, t = [s EXCEPT ![i].body = "complete"]
    PROVE  t \in Seq(RequestState) /\ Len(t) = Len(s) /\ Orderly(h, t, n)
<1> DEFINE x == [s[i] EXCEPT !.body = "complete"]
<1>0. s[i] \in RequestState
  BY ElementOfSeq
<1>1. x \in RequestState /\ x.body = "complete" /\ x.answer = s[i].answer /\ x.onEnd = s[i].onEnd
  BY <1>0 DEF RequestState
<1>2. t = [s EXCEPT ![i] = x]
  OBVIOUS
<1> HIDE DEF x
<1>3. /\ t \in Seq(RequestState) /\ Len(t) = Len(s)
      /\ \A j \in 1..Len(s) : t[j] = IF j = i THEN x ELSE s[j]
  <2>1. LET u == [s EXCEPT ![i] = x]
        IN  /\ u \in Seq(RequestState) /\ Len(u) = Len(s)
            /\ \A j \in 1..Len(s) : u[j] = IF j = i THEN x ELSE s[j]
    BY <1>1, RequestSet
  <2> QED BY <1>2, <2>1
<1>4. Len(s) \in Nat /\ s # <<>> /\ t # <<>>
  BY <1>3, LenProperties, EmptySeq
<1> QED BY <1>1, <1>3, <1>4 DEF Orderly, Written, Unfinished

\* A handler ends its answer.
LEMMA AnswerEndsOrderly ==
    ASSUME NEW h, NEW s \in Seq(RequestState), NEW n \in Nat, Orderly(h, s, n),
           NEW i \in 1..Len(s), s[i].answer = "pending",
           NEW t, t = [s EXCEPT ![i].answer = "ended"]
    PROVE  t \in Seq(RequestState) /\ Len(t) = Len(s) /\ Orderly(h, t, n)
<1> DEFINE x == [s[i] EXCEPT !.answer = "ended"]
<1>0. s[i] \in RequestState
  BY ElementOfSeq
<1>1. x \in RequestState /\ x.body = s[i].body /\ x.answer = "ended" /\ x.onEnd = s[i].onEnd
  BY <1>0 DEF RequestState
<1>2. t = [s EXCEPT ![i] = x]
  OBVIOUS
<1> HIDE DEF x
<1>3. /\ t \in Seq(RequestState) /\ Len(t) = Len(s)
      /\ \A j \in 1..Len(s) : t[j] = IF j = i THEN x ELSE s[j]
  BY <1>1, <1>2, RequestSet
<1>4. Len(s) \in Nat /\ s # <<>> /\ t # <<>>
  BY <1>3, LenProperties, EmptySeq
<1> QED BY <1>1, <1>3, <1>4 DEF Orderly, Written, Unfinished

\* A request is read.
LEMMA RequestStartsOrderly ==
    ASSUME NEW s \in Seq(RequestState), NEW n \in Nat, Orderly("arriving", s, n),
           NEW body \in {"arriving", "complete"},
           NEW t, t = Append(s, [answer |-> "pending", body |-> body, onEnd |-> FALSE])
    PROVE  t \in Seq(RequestState) /\ Orderly("none", t, Len(s) + 1)
<1> DEFINE x == [answer |-> "pending", body |-> body, onEnd |-> FALSE]
<1>1. x \in RequestState /\ x.answer = "pending" /\ x.onEnd = FALSE
  BY DEF RequestState
<1> HIDE DEF x
<1>2. /\ t \in Seq(RequestState) /\ Len(t) = Len(s) + 1 /\ t # <<>>
      /\ \A j \in 1..Len(s) : t[j] = s[j]
      /\ t[Len(s) + 1] = x
  BY <1>1, AppendProperties DEF x
<1>3. Len(s) \in Nat
  BY LenProperties
<1> QED BY <1>1, <1>2, <1>3 DEF Orderly, Written, Unfinished

\* t is s with x as its i-th request.
Replaced(s, i, x, t) ==
    /\ t \in Seq(RequestState) /\ Len(t) = Len(s)
    /\ \A j \in 1..Len(s) : t[j] = IF j = i THEN x ELSE s[j]

\* Being done with request i turns the busy index n into m.
Idles(n, i, m) == (n = i => m = 0) /\ (n # i => m = n)

\* Everything of a connection is answered and read.
AllAnswered(s) == \A j \in 1..Len(s) : Written(s, j) /\ s[j].body # "arriving"

\* x is request i of s once its answer, whose turn it is, is written out.
WrittenInTurn(s, i, x) ==
    /\ s[i].answer = "ended" /\ \A j \in 1..(i - 1) : Written(s, j)
    /\ x.answer = "written" /\ x.body = s[i].body
    /\ x.onEnd <=> s[i].body = "arriving"

\* And the connection, with that request, is t, and busy with m.
WritesOut(h, s, n, i, x, t, m) ==
    /\ s \in Seq(RequestState) /\ n \in Nat /\ Orderly(h, s, n)
    /\ i \in 1..Len(s) /\ x \in RequestState /\ WrittenInTurn(s, i, x)
    /\ Replaced(s, i, x, t) /\ Idles(n, i, m)

\* An answer is written out; if its body has arrived the request is done with, and
\* if it was the last then so is everything before it.
LEMMA AnswerWrittenOrderly ==
    ASSUME NEW h, NEW s, NEW n, NEW i, NEW x, NEW t, NEW m,
           WritesOut(h, s, n, i, x, t, m)
    PROVE  /\ s[i].body = "arriving" => Orderly(h, t, n)
           /\ s[i].body # "arriving" => Orderly(h, t, m)
           /\ s[i].body # "arriving" /\ n = i => AllAnswered(t)
<1> USE DEF WritesOut
<1>1. /\ x \in RequestState /\ x.body = s[i].body /\ x.answer = "written"
      /\ s[i].answer = "ended" /\ \A j \in 1..(i - 1) : Written(s, j)
  BY DEF WrittenInTurn
<1>2. (n = i => m = 0) /\ (n # i => m = n)
  BY DEF Idles
<1>3. /\ t \in Seq(RequestState) /\ Len(t) = Len(s)
      /\ \A j \in 1..Len(s) : t[j] = IF j = i THEN x ELSE s[j]
  BY DEF Replaced
<1>4. Len(s) \in Nat /\ s # <<>> /\ t # <<>>
  BY <1>3, LenProperties, EmptySeq
<1>5. CASE s[i].body = "arriving"
  <2>1. x.onEnd = TRUE /\ x.body = "arriving"
    BY <1>1, <1>5 DEF WrittenInTurn, RequestState
  <2>2. i = Len(s) /\ h \notin {"arriving", "unread"}
    BY <1>4, <1>5 DEF Orderly
  <2>3. \A j \in 1..Len(t) : t[j].onEnd => Written(t, j)
    BY <1>1, <1>3, <1>4 DEF Orderly, Written
  <2>4. \A j \in 1..Len(t) : Written(t, j) => \A l \in 1..(j - 1) : Written(t, l)
    BY <1>1, <1>3, <1>4, <2>2 DEF Orderly, Written
  <2>5. \A j \in 1..Len(t) : Written(t, j) /\ t[j].body = "arriving" => t[j].onEnd
    BY <1>3, <1>4, <2>1 DEF Orderly, Written
  <2>6. \A j \in 1..(Len(t) - 1) : t[j].body # "arriving"
    BY <1>3, <1>4, <2>2 DEF Orderly
  <2>7. n # 0 => n = Len(t) /\ Unfinished(t, n)
    BY <1>3, <1>4, <2>1, <2>2 DEF Orderly, Unfinished
  <2>8. n # 0
    BY <1>4, <1>5, <2>2 DEF Orderly
  <2> QED BY <1>3, <1>5, <2>2, <2>3, <2>4, <2>5, <2>6, <2>7, <2>8 DEF Orderly
<1>6. CASE s[i].body # "arriving" /\ n = i
  <2>1. n = Len(s) /\ i = Len(s) /\ m = 0 /\ h # "unread"
    BY <1>2, <1>4, <1>6 DEF Orderly
  <2>2. \A j \in 1..(Len(s) - 1) : Written(s, j) /\ s[j].body # "arriving"
    BY <1>1, <2>1 DEF Orderly
  <2>3. \A j \in 1..Len(t) : j = i \/ j \in 1..(Len(s) - 1)
    BY <1>3, <1>4, <2>1
  <2>4. \A j \in 1..Len(t) : t[j].answer = "written" /\ t[j].body # "arriving"
    BY <1>1, <1>3, <1>6, <2>2, <2>3 DEF Written
  <2>5. \A j \in 1..Len(t) : \A l \in 1..(j - 1) : l \in 1..Len(t)
    BY <1>3, <1>4
  <2>6. Len(t) \in 1..Len(t) /\ \A j \in 1..(Len(t) - 1) : j \in 1..Len(t)
    BY <1>3, <1>4, <2>1
  <2>7. Orderly(h, t, m) /\ AllAnswered(t)
    BY <2>1, <2>4, <2>5, <2>6 DEF Orderly, Written, AllAnswered
  <2> QED BY <1>6, <2>7
<1>7. CASE s[i].body # "arriving" /\ n # i
  BY <1>1, <1>2, <1>3, <1>4, <1>7 DEF Orderly, Written, Unfinished
<1> QED BY <1>3, <1>5, <1>6, <1>7

\* A body's end fires; a written answer that waited for it is done with.
LEMMA BodyEndsOrderly ==
    ASSUME NEW h, NEW s \in Seq(RequestState), NEW n \in Nat, Orderly(h, s, n),
           NEW i \in 1..Len(s), s[i].body = "complete",
           NEW x \in RequestState, x.body = "ended", x.answer = s[i].answer, x.onEnd = s[i].onEnd,
           NEW t, Replaced(s, i, x, t), NEW m, Idles(n, i, m)
    PROVE  /\ ~ s[i].onEnd => Orderly(h, t, n)
           /\ s[i].onEnd => Orderly(h, t, m)
           /\ s[i].onEnd /\ n = i => AllAnswered(t)
<1>1. x \in RequestState /\ x.body = "ended" /\ x.answer = s[i].answer /\ x.onEnd = s[i].onEnd
  OBVIOUS
<1>2. (n = i => m = 0) /\ (n # i => m = n)
  BY DEF Idles
<1>3. /\ t \in Seq(RequestState) /\ Len(t) = Len(s)
      /\ \A j \in 1..Len(s) : t[j] = IF j = i THEN x ELSE s[j]
  BY DEF Replaced
<1>4. Len(s) \in Nat /\ s # <<>> /\ t # <<>>
  BY <1>3, LenProperties, EmptySeq
<1>5. CASE ~ s[i].onEnd
  <2>1. \A j \in 1..Len(s) : /\ t[j].answer = s[j].answer /\ t[j].onEnd = s[j].onEnd
                             /\ t[j].body = "arriving" => s[j].body = "arriving"
    BY <1>1, <1>3
  <2>2. n # 0 => n = Len(s) /\ Unfinished(t, n)
    BY <1>1, <1>3, <1>4, <1>5 DEF Orderly, Unfinished
  <2>3. n = 0 => Written(t, Len(t)) /\ t[Len(t)].body # "arriving"
    BY <1>3, <1>4, <2>1 DEF Orderly, Written
  <2>4. /\ \A k \in 1..Len(t) : Written(t, k) => \A j \in 1..(k - 1) : Written(t, j)
        /\ \A k \in 1..Len(t) : t[k].onEnd => Written(t, k)
        /\ \A k \in 1..Len(t) : Written(t, k) /\ t[k].body = "arriving" => t[k].onEnd
    <3>1. \A k \in 1..Len(s) : Written(t, k) <=> Written(s, k)
      BY <2>1 DEF Written
    <3>2. \A k \in 1..Len(t) : Written(t, k) => \A j \in 1..(k - 1) : Written(t, j)
      BY <1>3, <1>4, <3>1 DEF Orderly
    <3>3. \A k \in 1..Len(t) : t[k].onEnd => Written(t, k)
      BY <1>3, <2>1, <3>1 DEF Orderly
    <3>4. \A k \in 1..Len(t) : Written(t, k) /\ t[k].body = "arriving" => t[k].onEnd
      BY <1>3, <2>1, <3>1 DEF Orderly
    <3> QED BY <3>2, <3>3, <3>4
  <2>5. \A k \in 1..(Len(t) - 1) : t[k].body # "arriving"
    BY <1>3, <1>4, <2>1 DEF Orderly
  <2>6. h = "arriving" => \A k \in 1..Len(t) : t[k].body # "arriving"
    BY <1>3, <1>4, <2>1 DEF Orderly
  <2>7. h # "unread"
    BY <1>4 DEF Orderly
  <2> QED BY <1>3, <1>4, <1>5, <2>2, <2>3, <2>4, <2>5, <2>6, <2>7 DEF Orderly
<1>6. CASE s[i].onEnd /\ n = i
  <2>1. n = Len(s)
    BY <1>6 DEF Orderly
  <2> QED BY <1>1, <1>2, <1>3, <1>4, <1>6, <2>1 DEF Orderly, Written, Unfinished, AllAnswered
<1>7. CASE s[i].onEnd /\ n # i
  BY <1>1, <1>2, <1>3, <1>4, <1>7 DEF Orderly, Written, Unfinished
<1> QED BY <1>3, <1>5, <1>6, <1>7

----------------------------------------------------------------------------
(* Traffic.                                                                *)

\* A step that changes one connection need only keep that one in order.
LEMMA OneConnection ==
    ASSUME WireInv, NEW c \in Conn, UNCHANGED shuttingDown,
           NEW k, socket' = [socket EXCEPT ![c] = k],
           NEW h, head' = [head EXCEPT ![c] = h],
           NEW s, reqs' = [reqs EXCEPT ![c] = s],
           NEW n, connections' = [connections EXCEPT ![c] = n],
           k \in {"new", "open"} \cup Closers, h \in {"unread", "arriving", "none"},
           s \in Seq(RequestState), n \in Nat, Orderly(h, s, n),
           k = "drain" => AllAnswered(s),
           shuttingDown /\ k = "open" => h = "arriving" \/ n # 0
    PROVE  WireInv'
<1>1. WireType'
  BY DEF WireInv, WireType
<1>2. /\ socket'[c] = k /\ head'[c] = h /\ reqs'[c] = s /\ connections'[c] = n
      /\ \A d \in Conn \ {c} : /\ socket'[d] = socket[d] /\ head'[d] = head[d]
                               /\ reqs'[d] = reqs[d] /\ connections'[d] = connections[d]
  BY DEF WireInv, WireType
<1>3. OrderlyConn(c)' /\ DrainConn(c)'
  BY <1>2 DEF OrderlyConn, DrainConn, AllAnswered, Answered, Written, Open
<1>4. \A d \in Conn \ {c} : OrderlyConn(d)' /\ DrainConn(d)'
  BY <1>2 DEF WireInv, OrderlyConn, DrainConn, Answered, Open
<1> QED BY <1>1, <1>3, <1>4 DEF WireInv

\* A connection as it stands.
LEMMA StandsIn ==
    ASSUME WireInv, NEW c \in Conn
    PROVE  /\ socket[c] \in {"new", "open"} \cup Closers
           /\ head[c] \in {"unread", "arriving", "none"}
           /\ reqs[c] \in Seq(RequestState)
           /\ connections[c] \in Nat
           /\ Orderly(head[c], reqs[c], connections[c])
           /\ socket' = [socket EXCEPT ![c] = socket[c]] <=> UNCHANGED socket
           /\ head' = [head EXCEPT ![c] = head[c]] <=> UNCHANGED head
           /\ reqs' = [reqs EXCEPT ![c] = reqs[c]] <=> UNCHANGED reqs
           /\ connections' = [connections EXCEPT ![c] = connections[c]] <=> UNCHANGED connections
BY DEF WireInv, WireType, OrderlyConn

\* What the drain knows of a connection that is open.
LEMMA StandsDraining ==
    ASSUME WireInv, NEW c \in Conn, Open(c), shuttingDown
    PROVE  head[c] = "arriving" \/ connections[c] # 0
BY DEF WireInv, DrainConn

\* A connection is accepted.
LEMMA ConnectInv ==
    ASSUME WireInv, NEW c \in Conn, Connect(c)
    PROVE  WireInv'
BY StandsIn, OneConnection DEF Connect, process

\* The caller closes.
LEMMA CallerClosesInv ==
    ASSUME WireInv, NEW c \in Conn, CallerCloses(c)
    PROVE  WireInv'
<1> DEFINE k == "caller"
<1>1. /\ socket' = [socket EXCEPT ![c] = k] /\ UNCHANGED <<shuttingDown, head, reqs, connections>>
      /\ k \in {"new", "open"} \cup Closers /\ k # "drain" /\ k # "open"
  BY DEF CallerCloses, process, Closers
<1> HIDE DEF k
<1>2. /\ head' = [head EXCEPT ![c] = head[c]] /\ reqs' = [reqs EXCEPT ![c] = reqs[c]]
      /\ connections' = [connections EXCEPT ![c] = connections[c]]
      /\ head[c] \in {"unread", "arriving", "none"} /\ reqs[c] \in Seq(RequestState)
      /\ connections[c] \in Nat /\ Orderly(head[c], reqs[c], connections[c])
  BY <1>1, StandsIn
<1> QED BY <1>1, <1>2, OneConnection

\* The head of a request starts to arrive: every body before it is in.
LEMMA HeadStartsInv ==
    ASSUME WireInv, NEW c \in Conn, HeadStarts(c)
    PROVE  WireInv'
<1>1. Orderly("arriving", reqs[c], connections[c])
  BY StandsIn DEF HeadStarts, BodiesIn, Orderly
<1> QED BY <1>1, StandsIn, OneConnection DEF HeadStarts, Open, process

\* A request is read, and its connection becomes busy with it.
LEMMA RequestStartsInv ==
    ASSUME WireInv, NEW c \in Conn, RequestStarts(c)
    PROVE  WireInv'
<1>1. PICK body \in {"arriving", "complete"} :
         reqs' = [reqs EXCEPT ![c] = Append(reqs[c], [answer |-> "pending", body |-> body, onEnd |-> FALSE])]
  BY DEF RequestStarts
<1> DEFINE t == Append(reqs[c], [answer |-> "pending", body |-> body, onEnd |-> FALSE])
<1>2. t \in Seq(RequestState) /\ Orderly("none", t, Len(reqs[c]) + 1)
  <2>1. /\ reqs[c] \in Seq(RequestState) /\ connections[c] \in Nat
        /\ Orderly("arriving", reqs[c], connections[c])
    BY StandsIn DEF RequestStarts
  <2> QED BY <2>1, RequestStartsOrderly
<1> HIDE DEF t
<1>3. Len(reqs[c]) \in Nat
  BY StandsIn, LenProperties
<1>4. reqs' = [reqs EXCEPT ![c] = t]
  BY <1>1 DEF t
<1>5. /\ head' = [head EXCEPT ![c] = "none"] /\ UNCHANGED <<shuttingDown, socket>>
      /\ connections' = [connections EXCEPT ![c] = Len(reqs[c]) + 1]
      /\ socket[c] = "open" /\ Len(reqs[c]) + 1 \in Nat /\ Len(reqs[c]) + 1 # 0
  BY <1>3 DEF RequestStarts, Open, process
<1> QED BY <1>2, <1>4, <1>5, StandsIn, OneConnection

\* One of a connection's requests changes.
LEMMA BodyCompletesInv ==
    ASSUME WireInv, NEW c \in Conn, NEW i \in 1..Len(reqs[c]), BodyCompletes(c, i)
    PROVE  WireInv'
<1> DEFINE t == [reqs[c] EXCEPT ![i].body = "complete"]
<1>1. t \in Seq(RequestState) /\ Orderly(head[c], t, connections[c])
  BY StandsIn, BodyCompletesOrderly DEF BodyCompletes
<1>2. reqs' = [reqs EXCEPT ![c] = t]
  BY DEF BodyCompletes
<1> HIDE DEF t
<1> QED BY <1>1, <1>2, StandsIn, StandsDraining, OneConnection DEF BodyCompletes, Open, process

\* A handler ends one of a connection's answers.
LEMMA AnswerEndsInv ==
    ASSUME WireInv, NEW c \in Conn, NEW i \in 1..Len(reqs[c]), AnswerEnds(c, i)
    PROVE  WireInv'
<1> DEFINE t == [reqs[c] EXCEPT ![i].answer = "ended"]
<1>1. t \in Seq(RequestState) /\ Orderly(head[c], t, connections[c])
  BY StandsIn, AnswerEndsOrderly DEF AnswerEnds
<1>2. reqs' = [reqs EXCEPT ![c] = t]
  BY DEF AnswerEnds
<1> HIDE DEF t
<1> QED BY <1>1, <1>2, StandsIn, StandsDraining, OneConnection DEF AnswerEnds, Open, process

\* done, for request i of a connection whose requests have become t.
LEMMA DoneInv ==
    ASSUME WireInv, NEW c \in Conn, Open(c), NEW i \in 1..Len(reqs[c]), Done(c, i),
           NEW t \in Seq(RequestState), reqs' = [reqs EXCEPT ![c] = t],
           UNCHANGED <<shuttingDown, head>>,
           Orderly(head[c], t, IF connections[c] = i THEN 0 ELSE connections[c]),
           connections[c] = i => AllAnswered(t)
    PROVE  WireInv'
<1> DEFINE n == IF connections[c] = i THEN 0 ELSE connections[c]
           k == IF connections[c] = i /\ shuttingDown THEN "drain" ELSE "open"
<1>1. connections' = [connections EXCEPT ![c] = n] /\ socket' = [socket EXCEPT ![c] = k]
  BY DEF Done, Open
<1>2. n \in Nat /\ k \in {"open", "drain"} /\ (k = "drain" => AllAnswered(t))
  BY StandsIn
<1>3. shuttingDown /\ k = "open" => head[c] = "arriving" \/ n # 0
  BY StandsDraining
<1> HIDE DEF k, n
<1>4. k \in {"new", "open"} \cup Closers
  BY <1>2 DEF Closers
<1>5. Orderly(head[c], t, n)
  BY DEF n
<1>6. head' = [head EXCEPT ![c] = head[c]] /\ head[c] \in {"unread", "arriving", "none"} /\ UNCHANGED shuttingDown
  BY StandsIn
<1> QED BY <1>1, <1>2, <1>3, <1>4, <1>5, <1>6, OneConnection

\* An answer is written out, which may make its connection idle.
LEMMA AnswerWrittenInv ==
    ASSUME WireInv, NEW c \in Conn, NEW i \in 1..Len(reqs[c]), AnswerWritten(c, i)
    PROVE  WireInv'
<1> DEFINE x == [reqs[c][i] EXCEPT !.answer = "written", !.onEnd = reqs[c][i].body = "arriving"]
           t == [reqs[c] EXCEPT ![i] = x]
           m == IF connections[c] = i THEN 0 ELSE connections[c]
<1>1. /\ t \in Seq(RequestState)
      /\ reqs[c][i].body = "arriving" => Orderly(head[c], t, connections[c])
      /\ reqs[c][i].body # "arriving" =>
            /\ Orderly(head[c], t, m)
            /\ connections[c] = i => AllAnswered(t)
  <2>1. /\ reqs[c] \in Seq(RequestState) /\ connections[c] \in Nat
        /\ Orderly(head[c], reqs[c], connections[c])
    BY StandsIn
  <2>2. reqs[c][i].answer = "ended" /\ \A j \in 1..(i - 1) : Written(reqs[c], j)
    BY DEF AnswerWritten, Written
  <2>3. reqs[c][i] \in RequestState
    BY StandsIn, ElementOfSeq
  <2>4. x \in RequestState /\ WrittenInTurn(reqs[c], i, x)
    BY <2>2, <2>3 DEF RequestState, WrittenInTurn
  <2>6. Replaced(reqs[c], i, x, t) /\ t \in Seq(RequestState)
    BY <2>1, <2>4, RequestSet DEF Replaced
  <2>5. Idles(connections[c], i, m)
    BY DEF Idles
  <2> HIDE DEF x, t, m
  <2>7. WritesOut(head[c], reqs[c], connections[c], i, x, t, m)
    BY <2>1, <2>4, <2>5, <2>6 DEF WritesOut
  <2> QED BY <2>6, <2>7, AnswerWrittenOrderly
<1>2. reqs' = [reqs EXCEPT ![c] = t]
  BY DEF AnswerWritten
<1> HIDE DEF t
<1>3. CASE reqs[c][i].body = "arriving"
  BY <1>1, <1>2, <1>3, StandsIn, StandsDraining, OneConnection DEF AnswerWritten, Open, process
<1>4. CASE reqs[c][i].body # "arriving"
  BY <1>1, <1>2, <1>4, DoneInv DEF AnswerWritten, process
<1> QED BY <1>3, <1>4

\* A body ends, which may make its connection idle.
LEMMA BodyEndsInv ==
    ASSUME WireInv, NEW c \in Conn, NEW i \in 1..Len(reqs[c]), BodyEnds(c, i)
    PROVE  WireInv'
<1> DEFINE x == [reqs[c][i] EXCEPT !.body = "ended"]
           t == [reqs[c] EXCEPT ![i] = x]
           m == IF connections[c] = i THEN 0 ELSE connections[c]
<1>1. /\ t \in Seq(RequestState)
      /\ ~ reqs[c][i].onEnd => Orderly(head[c], t, connections[c])
      /\ reqs[c][i].onEnd =>
            /\ Orderly(head[c], t, m)
            /\ connections[c] = i => AllAnswered(t)
  <2>1. /\ reqs[c] \in Seq(RequestState) /\ connections[c] \in Nat
        /\ Orderly(head[c], reqs[c], connections[c]) /\ reqs[c][i].body = "complete"
    BY StandsIn DEF BodyEnds
  <2>2. reqs[c][i] \in RequestState
    BY StandsIn, ElementOfSeq
  <2>4. /\ x \in RequestState /\ x.body = "ended" /\ x.answer = reqs[c][i].answer
        /\ x.onEnd = reqs[c][i].onEnd
    BY <2>2 DEF RequestState
  <2>5. Replaced(reqs[c], i, x, t) /\ t \in Seq(RequestState)
    BY <2>1, <2>4, RequestSet DEF Replaced
  <2>3. Idles(connections[c], i, m)
    BY DEF Idles
  <2> HIDE DEF x, t, m
  <2> QED BY <2>1, <2>3, <2>4, <2>5, BodyEndsOrderly
<1>2. reqs' = [reqs EXCEPT ![c] = t]
  BY DEF BodyEnds
<1> HIDE DEF t
<1>3. CASE ~ reqs[c][i].onEnd
  BY <1>1, <1>2, <1>3, StandsIn, StandsDraining, OneConnection DEF BodyEnds, Open, process
<1>4. CASE reqs[c][i].onEnd
  BY <1>1, <1>2, <1>4, DoneInv DEF BodyEnds, process
<1> QED BY <1>3, <1>4

\* Whatever a connection's traffic does keeps it in order.
LEMMA TrafficInv ==
    ASSUME WireInv, NEW c \in Conn, Traffic(c)
    PROVE  WireInv'
BY ConnectInv, CallerClosesInv, HeadStartsInv, RequestStartsInv, BodyCompletesInv, AnswerEndsInv,
   AnswerWrittenInv, BodyEndsInv DEF Traffic

----------------------------------------------------------------------------
(* The shutdown's own steps and the connections.                           *)

\* A connection that Node does not take for idle, and that has sent something, has
\* something to come.
LEMMA BusyHasToCome ==
    ASSUME WireInv, NEW c \in Conn, ~ NodeIdle(c), head[c] # "unread"
    PROVE  head[c] = "arriving" \/ connections[c] # 0
<1> SUFFICES ASSUME head[c] = "none", connections[c] = 0
             PROVE  FALSE
  BY StandsIn
<1> DEFINE s == reqs[c]
<1>1. s \in Seq(RequestState) /\ Len(s) \in Nat /\ Orderly("none", s, 0)
  BY StandsIn, LenProperties
<1>2. PICK i \in 1..Len(s) : s[i].body = "arriving" \/ s[i].answer # "written"
  BY DEF NodeIdle, BodiesIn, Unwritten
<1> HIDE DEF s
<1>3. s # <<>>
  BY <1>1, <1>2, EmptySeq
<1>4. Written(s, Len(s)) /\ s[Len(s)].body # "arriving"
  BY <1>1, <1>3 DEF Orderly
<1>5. \A j \in 1..Len(s) : Written(s, j) /\ s[j].body # "arriving"
  BY <1>1, <1>3, <1>4 DEF Orderly
<1> QED BY <1>2, <1>5 DEF Written

\* The handler releases only what has nothing to come, and leaves nothing else.
LEMMA HandlerWire ==
    ASSUME WireInv, Handler
    PROVE  WireInv'
<1>1. /\ shuttingDown' = TRUE /\ socket' = [c \in Conn |-> Released(c)]
      /\ UNCHANGED <<head, reqs, connections>>
  BY DEF Handler
<1>2. \A c \in Conn : Released(c) \in {socket[c], "node", "drain"}
  BY DEF Released
<1>3. WireType'
  BY <1>1, <1>2 DEF WireInv, WireType, Closers
<1>4. ASSUME NEW c \in Conn
      PROVE  OrderlyConn(c)' /\ DrainConn(c)'
  <2>1. OrderlyConn(c)'
    BY <1>1 DEF WireInv, OrderlyConn
  <2>2. socket'[c] = Released(c)
    BY <1>1
  <2>3. ASSUME Released(c) = "drain"
        PROVE  \A i \in 1..Len(reqs[c]) : Answered(c, i)
    <3>1. socket[c] = "drain" \/ head[c] = "unread"
      BY <2>3 DEF Released, Open
    <3>2. CASE head[c] = "unread"
      BY <3>2, StandsIn, EmptySeq DEF Orderly
    <3> QED BY <3>1, <3>2 DEF WireInv, DrainConn
  <2>4. ASSUME Released(c) = "open"
        PROVE  head[c] = "arriving" \/ connections[c] # 0
    <3>1. ~ NodeIdle(c) /\ head[c] # "unread"
      BY <2>4 DEF Released, Open
    <3> QED BY <3>1, BusyHasToCome
  <2>5. DrainConn(c)'
    BY <1>1, <2>2, <2>3, <2>4 DEF DrainConn, Answered, Open
  <2> QED BY <2>1, <2>5
<1> QED BY <1>3, <1>4 DEF WireInv

\* The deadline only closes connections.
LEMMA DeadlineWire ==
    ASSUME WireInv, Deadline
    PROVE  WireInv'
<1>1. /\ UNCHANGED <<shuttingDown, head, reqs, connections>>
      /\ socket' = [c \in Conn |-> IF Open(c) THEN "deadline" ELSE socket[c]]
  BY DEF Deadline
<1>2. WireType'
  BY <1>1 DEF WireInv, WireType, Closers
<1>3. ASSUME NEW c \in Conn
      PROVE  OrderlyConn(c)' /\ DrainConn(c)'
  <2>1. socket'[c] \in {socket[c], "deadline"} /\ socket'[c] # "open"
    BY <1>1 DEF Open
  <2> QED BY <1>1, <2>1 DEF WireInv, OrderlyConn, DrainConn, Answered, Open
<1> QED BY <1>2, <1>3 DEF WireInv

\* Every other step leaves the connections alone.
LEMMA WireStands ==
    ASSUME WireInv, UNCHANGED <<shuttingDown, wire>>
    PROVE  WireInv'
BY DEF wire, WireInv, WireType, OrderlyConn, DrainConn, Answered, Open

\* The connections are in order in every state.
THEOREM WireInvariance == Spec => []WireInv
<1>1. Init => WireInv
  <2> SUFFICES ASSUME Init PROVE WireInv
    OBVIOUS
  <2>1. WireType
    BY EmptySeq DEF Init, WireType
  <2>2. ASSUME NEW c \in Conn
        PROVE  OrderlyConn(c) /\ DrainConn(c)
    <3>1. socket[c] = "new" /\ head[c] = "unread" /\ reqs[c] = <<>> /\ connections[c] = 0
      BY DEF Init
    <3>2. Len(<<>>) = 0
      OBVIOUS
    <3> QED BY <3>1, <3>2 DEF OrderlyConn, Orderly, DrainConn, Open, Init
  <2> QED BY <2>1, <2>2 DEF WireInv
<1>2. WireInv /\ [Next]_vars => WireInv'
  <2> SUFFICES ASSUME WireInv, [Next]_vars PROVE WireInv'
    OBVIOUS
  <2>1. ASSUME NEW c \in Conn, Traffic(c) PROVE WireInv'
    BY <2>1, TrafficInv
  <2>2. CASE Handler
    BY <2>2, HandlerWire
  <2>3. CASE Deadline
    BY <2>3, DeadlineWire
  <2>4. CASE SignalDefault \/ CloseCallback \/ CleanupSettles \/ CleanupTimesOut \/ Exit \/ LoopEmpties
    <3>1. UNCHANGED <<shuttingDown, wire>>
      BY <2>4 DEF SignalDefault, CloseCallback, CleanupSettles, CleanupTimesOut, Exit, LoopEmpties
    <3> QED BY <3>1, WireStands
  <2>5. CASE UNCHANGED vars
    BY <2>5, WireStands DEF vars, process
  <2> QED BY <2>1, <2>2, <2>3, <2>4, <2>5 DEF Next, LoopTurn
<1> QED BY <1>1, <1>2, PTL DEF Spec

\* Guarantee 2: whatever the order of ends, finishes and the signal, a connection
\* the drain closes has every request of it answered to the last byte.
THEOREM DrainCutsNoAnswerHolds == Spec => []DrainCutsNoAnswer
<1>1. WireInv => DrainCutsNoAnswer
  BY DEF WireInv, DrainConn, DrainCutsNoAnswer
<1> QED BY <1>1, WireInvariance, PTL

\* Guarantee 2: a connection still open during the drain waits for a head, a body or
\* an answer, so that the drain never waits for nothing.
THEOREM NoneForgottenHolds == Spec => []NoneForgotten
<1>1. WireInv => NoneForgotten
  <2> SUFFICES ASSUME WireInv, NEW c \in Conn, shuttingDown, Open(c), head[c] # "arriving"
               PROVE  \E i \in 1..Len(reqs[c]) : Unfinished(reqs[c], i)
    BY DEF NoneForgotten, Unfinished
  <2>1. connections[c] # 0
    BY StandsDraining
  <2>2. connections[c] = Len(reqs[c]) /\ Unfinished(reqs[c], connections[c])
    BY <2>1, StandsIn DEF Orderly
  <2>3. Len(reqs[c]) \in Nat /\ Len(reqs[c]) \in 1..Len(reqs[c])
    BY <2>1, <2>2, StandsIn, LenProperties
  <2> QED BY <2>2, <2>3
<1> QED BY <1>1, WireInvariance, PTL

----------------------------------------------------------------------------
(* The process.                                                            *)

\* Traffic leaves the process alone, cuts nothing as the deadline does, and opens
\* nothing once the shutdown has begun.
LEMMA TrafficSockets ==
    ASSUME WireType, NEW c \in Conn, Traffic(c)
    PROVE  /\ UNCHANGED process
           /\ \A d \in Conn : /\ socket'[d] = "deadline" => socket[d] = "deadline"
                              /\ shuttingDown /\ socket'[d] = "open" => socket[d] = "open"
<1>1. CASE Connect(c)
  BY <1>1 DEF Connect, WireType
<1>2. CASE HeadStarts(c) \/ RequestStarts(c) \/ CallerCloses(c)
  BY <1>2 DEF HeadStarts, RequestStarts, CallerCloses, WireType, Open
<1>3. ASSUME NEW i \in 1..Len(reqs[c]),
             BodyCompletes(c, i) \/ AnswerEnds(c, i) \/ AnswerWritten(c, i) \/ BodyEnds(c, i)
      PROVE  /\ UNCHANGED process /\ Open(c)
             /\ UNCHANGED socket \/ socket' = [socket EXCEPT ![c] = "drain"]
  <2>1. ASSUME Open(c), Done(c, i)
        PROVE  UNCHANGED socket \/ socket' = [socket EXCEPT ![c] = "drain"]
    BY <2>1 DEF Done, WireType
  <2> QED BY <1>3, <2>1 DEF BodyCompletes, AnswerEnds, AnswerWritten, BodyEnds
<1>4. ASSUME UNCHANGED socket \/ socket' = [socket EXCEPT ![c] = "drain"]
      PROVE  \A d \in Conn : socket'[d] \in {socket[d], "drain"}
  BY <1>4 DEF WireType
<1> QED BY <1>1, <1>2, <1>3, <1>4 DEF Traffic

\* Traffic after the exit code is decided finds the connections as they were.
LEMMA TrafficProcess ==
    ASSUME WireType, ProcessInv, NEW c \in Conn, Traffic(c)
    PROVE  ProcessInv'
<1>1. UNCHANGED <<running, shuttingDown, finished, deadline, closing, cleanup, code, ended>>
  BY TrafficSockets DEF process
<1>2. \A d \in Conn : socket'[d] = "deadline" => socket[d] = "deadline"
  BY TrafficSockets
<1>3. ASSUME code = 0, NEW d \in Conn, socket'[d] = "open"
      PROVE  FALSE
  <2>1. shuttingDown /\ ~ Open(d)
    BY <1>3 DEF ProcessInv
  <2> QED BY <1>3, <2>1, TrafficSockets DEF Open
<1> QED BY <1>1, <1>2, <1>3 DEF ProcessInv, Open

\* The first signal.
LEMMA HandlerProcess ==
    ASSUME ProcessInv, Handler
    PROVE  ProcessInv'
<1>1. /\ shuttingDown' = TRUE /\ deadline' = "armed" /\ closing' = "pending" /\ ~ shuttingDown
      /\ socket' = [c \in Conn |-> Released(c)]
      /\ UNCHANGED <<running, finished, cleanup, code, ended>>
  BY DEF Handler
<1>2. ~ finished /\ code # 0 /\ deadline # "fired"
  BY <1>1 DEF ProcessInv
<1>3. \A c \in Conn : socket'[c] # "deadline"
  BY <1>1, <1>2 DEF ProcessInv, Released
<1> QED BY <1>1, <1>2, <1>3 DEF ProcessInv

\* close reports: a clean drain decides on 0 only with the deadline out of the way.
LEMMA CloseCallbackProcess ==
    ASSUME ProcessInv, CloseCallback
    PROVE  ProcessInv'
<1>1. /\ closing = "pending" /\ closing' = "called" /\ \A c \in Conn : ~ Open(c)
      /\ deadline' = IF deadline = "armed" THEN "cleared" ELSE deadline
      /\ UNCHANGED <<running, shuttingDown, ended, socket>>
  BY DEF CloseCallback, wire
<1>2. shuttingDown /\ deadline \in {"armed", "fired"}
  BY <1>1 DEF ProcessInv
<1>3. CASE finished
  <2>1. UNCHANGED <<finished, cleanup, code>>
    BY <1>3 DEF CloseCallback, Finish
  <2>2. deadline = "armed" => code # 0
    BY <1>2 DEF ProcessInv
  <2> QED BY <1>1, <1>2, <1>3, <2>1, <2>2 DEF ProcessInv, Open
<1>4. CASE ~ finished
  <2>1. finished' = TRUE /\ cleanup' = "running" /\ code' = IF running THEN 0 ELSE 1
    BY <1>4 DEF CloseCallback, Finish
  <2>2. deadline' = "cleared"
    BY <1>1, <1>2, <1>4 DEF ProcessInv
  <2>3. ended # [by |-> "exit", code |-> 0]
    BY <1>4 DEF ProcessInv
  <2>4. \A c \in Conn : socket[c] # "deadline"
    BY <1>4 DEF ProcessInv
  <2>5. running \in BOOLEAN /\ shuttingDown
    BY <1>2 DEF ProcessInv
  <2> QED BY <1>1, <2>1, <2>2, <2>3, <2>4, <2>5 DEF ProcessInv, Open
<1> QED BY <1>3, <1>4 DEF ProcessInv

\* The deadline cuts and decides on 1, unless close was first.
LEMMA DeadlineProcess ==
    ASSUME ProcessInv, Deadline
    PROVE  ProcessInv'
<1>1. /\ deadline = "armed" /\ deadline' = "fired"
      /\ socket' = [c \in Conn |-> IF Open(c) THEN "deadline" ELSE socket[c]]
      /\ UNCHANGED <<running, shuttingDown, closing, ended>>
  BY DEF Deadline
<1>2. shuttingDown /\ code # 0 /\ closing # "no"
  BY <1>1 DEF ProcessInv
<1>3. CASE finished
  <2>1. UNCHANGED <<finished, cleanup, code>>
    BY <1>3 DEF Deadline, Finish
  <2> QED BY <1>1, <1>2, <1>3, <2>1 DEF ProcessInv
<1>4. CASE ~ finished
  <2>1. finished' = TRUE /\ cleanup' = "running" /\ code' = 1
    BY <1>4 DEF Deadline, Finish
  <2>2. ended # [by |-> "exit", code |-> 0]
    BY <1>4 DEF ProcessInv
  <2> QED BY <1>1, <1>2, <2>1, <2>2 DEF ProcessInv
<1> QED BY <1>3, <1>4 DEF ProcessInv

\* The cleanup settles or runs out of time: only a failure changes the code, to 1.
LEMMA CleanupProcess ==
    ASSUME ProcessInv, CleanupSettles \/ CleanupTimesOut
    PROVE  ProcessInv'
<1>1. /\ cleanup = "running" /\ cleanup' \in {"done", "failed", "timed_out"}
      /\ code' = 1 \/ (UNCHANGED code /\ cleanup' = "done")
      /\ UNCHANGED <<running, shuttingDown, finished, deadline, closing, ended, socket>>
  BY DEF CleanupSettles, CleanupTimesOut, wire
<1>2. finished /\ ended # [by |-> "exit", code |-> 0]
  BY <1>1 DEF ProcessInv
<1> QED BY <1>1, <1>2 DEF ProcessInv, Open

\* The process ends: exit is given the code that was decided.
LEMMA EndProcess ==
    ASSUME ProcessInv, SignalDefault \/ Exit \/ LoopEmpties
    PROVE  ProcessInv'
<1>1. UNCHANGED <<running, shuttingDown, finished, deadline, closing, cleanup, code, socket>>
  BY DEF SignalDefault, Exit, LoopEmpties, wire
<1>2. ASSUME ended' = [by |-> "exit", code |-> 0]
      PROVE  code = 0 /\ cleanup = "done"
  <2>1. Exit
    <3>1. [by |-> "exit", code |-> 0].by = "exit" /\ [by |-> "signal", code |-> 1].by = "signal"
          /\ [by |-> "empty_loop", code |-> 0].by = "empty_loop"
      OBVIOUS
    <3> QED BY <1>2, <3>1 DEF SignalDefault, LoopEmpties
  <2>2. ended'.code = code /\ ended'.code = 0
    BY <1>2, <2>1 DEF Exit
  <2> QED BY <2>1, <2>2 DEF Exit, ProcessInv
<1> QED BY <1>1, <1>2 DEF ProcessInv, Open

\* Who decided the exit code, and what is known by then, in every state.
THEOREM ProcessInvariance == Spec => []ProcessInv
<1>1. Init => ProcessInv
  <2> SUFFICES ASSUME Init PROVE ProcessInv
    OBVIOUS
  <2>1. None # 0 /\ None # [by |-> "exit", code |-> 0]
    BY ShutdownAssumption DEF Ending
  <2> QED BY <2>1 DEF Init, ProcessInv
<1>2. WireInv /\ ProcessInv /\ [Next]_vars => ProcessInv'
  <2> SUFFICES ASSUME WireInv, ProcessInv, [Next]_vars PROVE ProcessInv'
    OBVIOUS
  <2>1. ASSUME NEW c \in Conn, Traffic(c) PROVE ProcessInv'
    BY <2>1, TrafficProcess DEF WireInv
  <2>2. CASE UNCHANGED vars
    BY <2>2 DEF vars, process, wire, ProcessInv, Open
  <2> QED BY <2>1, <2>2, HandlerProcess, CloseCallbackProcess, DeadlineProcess, CleanupProcess,
             EndProcess DEF Next, LoopTurn
<1> QED BY <1>1, <1>2, WireInvariance, PTL DEF Spec

\* Guarantees 4, 5 and 6: exit(0) means the listener came down, the deadline cut
\* nothing and the cleanup completed, whichever of close and the deadline was first.
THEOREM ExitZeroIsCleanHolds == Spec => []ExitZeroIsClean
<1>1. ProcessInv => ExitZeroIsClean
  BY DEF ProcessInv, ExitZeroIsClean
<1> QED BY <1>1, ProcessInvariance, PTL

\* Guarantee 5: the cleanup starts once, and only when no connection is open.
THEOREM CleanupOnceAfterDrainHolds == Spec => CleanupOnceAfterDrain
<1> DEFINE A == cleanup' = "running" /\ cleanup # cleanup' =>
                    cleanup = "idle" /\ \A c \in Conn : socket'[c] # "open"
<1>1. ASSUME WireInv, ProcessInv, [Next]_vars, cleanup' = "running", cleanup # cleanup'
      PROVE  cleanup = "idle" /\ \A c \in Conn : socket'[c] # "open"
  <2>1. CloseCallback \/ Deadline
    <3>1. ASSUME NEW c \in Conn, Traffic(c) PROVE UNCHANGED cleanup
      BY <1>1, <3>1, TrafficSockets DEF WireInv, process
    <3> QED BY <1>1, <3>1 DEF Next, LoopTurn, Handler, SignalDefault, CleanupSettles,
               CleanupTimesOut, Exit, LoopEmpties, vars, process
  <2>2. ~ finished
    BY <1>1, <2>1 DEF CloseCallback, Deadline, Finish
  <2>3. cleanup = "idle"
    BY <1>1, <2>2 DEF ProcessInv
  <2>4. CASE CloseCallback
    BY <2>3, <2>4 DEF CloseCallback, Open, wire
  <2>5. CASE Deadline
    BY <2>3, <2>5 DEF Deadline, Open
  <2> QED BY <2>1, <2>4, <2>5
<1>2. WireInv /\ ProcessInv /\ [Next]_vars => [A]_vars
  BY <1>1
<1>3. [][A]_vars <=> CleanupOnceAfterDrain
  BY DEF CleanupOnceAfterDrain
<1> QED BY <1>2, <1>3, WireInvariance, ProcessInvariance, PTL DEF Spec
==============================================================================

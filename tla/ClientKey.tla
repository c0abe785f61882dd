----------------------------- MODULE ClientKey -----------------------------
(***************************************************************************)
(* The client key of private_key_jwt: src/oauth/private-key-jwt.mts, and   *)
(* what a provider that holds its public part makes of an assertion.  A    *)
(* JWK is what the code tests of it: cryptography is the one fact that a   *)
(* signature verifies under the public members of the JWK or does not.     *)
(***************************************************************************)
EXTENDS Optional, Naturals, Sequences, SequencesExt

CONSTANTS
    Invalid,   \* refused, or thrown
    Unset,     \* a setting that is not there
    Empty,     \* the environment's empty value
    Garbage,   \* text that is not a JWK object
    Text       \* what a string may hold

\* PS256 stands for every RSA algorithm but the first.
Algorithm == {"EdDSA", "ES256", "RS256", "PS256"}

Jwk == [type : {"Ed25519", "P-256", "RSA", "other"},
        private : BOOLEAN,                  \* d is there
        use : {Unset, "sig", "enc"},
        ops : {Unset, "sign", "verify"},    \* key_ops includes "sign" or does not
        alg : {Unset, "Ed25519"} \cup Algorithm,
        kid : {Unset, "name", "empty"},
        forms : BOOLEAN,                    \* createPrivateKey takes the material
        long : BOOLEAN,                     \* 2048 bits, of an RSA key
        matches : BOOLEAN]                  \* the public members are the private key's

\* What parseClientKey gives, and signClientAssertion.
Key == [alg : Algorithm, kid : {None, "name"}, jwk : Jwk]
Assertion == [alg : Algorithm, kid : {None, "name"}, iss : Text, sub : Text, aud : Text,
              jti : Nat, signature : [alg : Algorithm, by : Jwk]]

\* The words the code tells from an absent value are texts, and no sentinel is one.
ASSUME TextAssumption ==
    {"literal true", "literal false", "true", "false", "id", "https", "loopback", "no_url",
     "narrow", "broad", "enc", "Basic"} \subseteq Text

ASSUME SentinelAssumption ==
    /\ None \notin {Invalid, Unset, Empty, Garbage} /\ Invalid \notin {Unset, Empty, Garbage}
    /\ Unset \notin {Empty, Garbage} /\ Empty # Garbage
    /\ \A s \in {None, Invalid, Unset, Empty, Garbage} :
          s \notin Text /\ s \notin Jwk /\ s \notin Key /\ s \notin Assertion

algorithmsFor(type) ==
    CASE type = "Ed25519" -> <<"EdDSA">>
      [] type = "P-256" -> <<"ES256">>
      [] type = "RSA" -> <<"RS256", "PS256">>
      [] type = "other" -> <<>>

Chosen(jwk) == IF jwk.alg = Unset THEN algorithmsFor(jwk.type)[1] ELSE jwk.alg

\* A signature, and whether it verifies under the public members of jwk.
signJws(alg, jwk) == [alg |-> alg, by |-> jwk]
verifyJws(alg, jwk, signature) == signature = signJws(alg, jwk) /\ jwk.matches

\* The key a private JWK gives, or Invalid for any ClientKeyError.
parseClientKey(jwk) ==
    IF /\ jwk # Garbage
       /\ algorithmsFor(jwk.type) # <<>>
       /\ jwk.private
       /\ jwk.use \in {Unset, "sig"}
       /\ jwk.ops \in {Unset, "sign"}
       /\ jwk.alg \in {Unset} \cup ToSet(algorithmsFor(jwk.type))
       /\ jwk.kid # "empty"
       /\ jwk.forms
       /\ jwk.type = "RSA" => jwk.long
       /\ verifyJws(Chosen(jwk), jwk, signJws(Chosen(jwk), jwk))
    THEN [alg |-> Chosen(jwk), kid |-> IF jwk.kid = Unset THEN None ELSE jwk.kid, jwk |-> jwk]
    ELSE Invalid

\* One assertion; n numbers the signatures, a random jti being a new one.
signClientAssertion(clientId, audience, key, n) ==
    [alg |-> key.alg, kid |-> key.kid, iss |-> clientId, sub |-> clientId,
     aud |-> audience, jti |-> n, signature |-> signJws(key.alg, key.jwk)]

\* External: a provider that registered the public members, alg, kid and use of
\* jwk for a client, and has accepted the jtis in seen.
ProviderVerifies(a, jwk, clientId, issuer, seen) ==
    /\ a.alg \in ToSet(algorithmsFor(jwk.type))
    /\ jwk.alg \in {Unset, a.alg}
    /\ a.kid # None => a.kid = jwk.kid
    /\ jwk.use # "enc"
    /\ verifyJws(a.alg, jwk, a.signature) /\ (jwk.type = "RSA" => jwk.long)
    /\ a.iss = clientId /\ a.sub = clientId /\ a.aud = issuer
    /\ a.jti \notin seen
=============================================================================

-------------------------------- MODULE Auth --------------------------------
(***************************************************************************)
(* The tokens of users (util/jwt.go), the gin middleware that asks for     *)
(* them (middleware/auth.go), and the errors and responses it uses         *)
(* (errors/error.go, response/response.go).                                *)
(*                                                                         *)
(* The secret and the lifetime of tokens are package variables, empty and  *)
(* 0 until somebody configures the service; errors.UnauthorizedErr is one  *)
(* object that all handlers share.  A request is checked by two calls that *)
(* each parse the token: the clock and the secret may change in between.   *)
(* A behaviour has one request, between others that are not shown.         *)
(***************************************************************************)
EXTENDS Integers, FiniteSets

CONSTANTS
  Users,      \* addresses
  Secrets,
  Lifetimes,  \* values of TokenExpireDuration
  Day,        \* 24 hours
  MaxNow,     \* bound on the clock
  MaxTokens   \* bound on the tokens that are made

ASSUME AuthAssumption ==
  Lifetimes \subseteq Nat /\ Day \in Nat \ {0} /\ MaxNow \in Nat /\ MaxTokens \in Nat

VARIABLES
  clock,
  jwtSecret, TokenExpireDuration,
  tokens,           \* tokens that were handed out
  UnauthorizedErr,  \* the shared BizError: code and whether msg is still the first
  step,             \* the handler's next step
  header,           \* the request's Authorization header
  userAddress,      \* UserAddressKey of the gin context
  responses         \* the responses written to the request

authVars == <<clock, jwtSecret, TokenExpireDuration, tokens, UnauthorizedErr,
              step, header, userAddress, responses>>

NoUser == "nobody"

\* The secret before anyone sets one: the empty one, which signs like any other.
EmptySecret == ""

NoToken == [address |-> NoUser, expiresAt |-> 0, issuedAt |-> 0, secret |-> NoUser]

AuthInit ==
  /\ clock = 0
  /\ jwtSecret = EmptySecret /\ TokenExpireDuration = 0
  /\ tokens = {}
  /\ UnauthorizedErr = [code |-> 1004, msg |-> "unauthorized", info |-> {}]
  /\ step = "idle" /\ header = [kind |-> "empty", token |-> NoToken]
  /\ userAddress = NoUser /\ responses = {}

(***************************************************************************)
(* util/jwt.go.  A token is signed with a secret.                          *)
(***************************************************************************)
\* The claims' subject and issuer are left out: nothing reads them.
GenerateAuthToken(address) ==
  [address |-> address, expiresAt |-> clock + TokenExpireDuration, issuedAt |-> clock,
   secret |-> jwtSecret]

\* ParseAuthToken returns claims: the token is signed with an HMAC and the
\* current secret, and the jwt library finds it not expired and not too early.
ParsesExpired(t) == t.secret = jwtSecret
Parses(t) == t.secret = jwtSecret /\ t.issuedAt <= clock /\ clock < t.expiresAt

\* Asks again whether the token has expired.
ValidateToken(t) == Parses(t) /\ ~(t.expiresAt < clock)

GetAddressFromToken(t) == IF Parses(t) THEN t.address ELSE NoUser

RefreshToken(t) ==
  IF t.expiresAt - clock < Day THEN GenerateAuthToken(t.address) ELSE t

\* New tokens do not matter to a request that is under way: it has its own.
HandOut(address) ==
  /\ step = "idle" /\ Cardinality(tokens) < MaxTokens
  /\ tokens' = tokens \cup {GenerateAuthToken(address)}
  /\ UNCHANGED <<clock, jwtSecret, TokenExpireDuration, UnauthorizedErr,
                 step, header, userAddress, responses>>

Refresh(t) ==
  /\ step = "idle" /\ Cardinality(tokens) < MaxTokens
  /\ Parses(t)
  /\ tokens' = tokens \cup {RefreshToken(t)}
  /\ UNCHANGED <<clock, jwtSecret, TokenExpireDuration, UnauthorizedErr,
                 step, header, userAddress, responses>>

SetJWTSecret(secret) ==
  /\ jwtSecret' = secret
  /\ UNCHANGED <<clock, TokenExpireDuration, tokens, UnauthorizedErr,
                 step, header, userAddress, responses>>

SetTokenExpireDuration(duration) ==
  /\ step = "idle"
  /\ TokenExpireDuration' = duration
  /\ UNCHANGED <<clock, jwtSecret, tokens, UnauthorizedErr,
                 step, header, userAddress, responses>>

TimePasses ==
  /\ clock < MaxNow /\ clock' = clock + 1
  /\ UNCHANGED <<jwtSecret, TokenExpireDuration, tokens, UnauthorizedErr,
                 step, header, userAddress, responses>>

(***************************************************************************)
(* errors and response                                                     *)
(***************************************************************************)
\* WithMsg and WithInfo change the object they are called on and return it.
WithMsg(err, msg) == [err EXCEPT !.msg = msg]
WithInfo(err, keys) == [err EXCEPT !.info = @ \cup keys]

RespondOK == [code |-> 0, msg |-> "success"]

\* Without a look at the code of a *BizError.
RespondErrorPlain(kind, err) ==
  IF kind = "nil" THEN RespondOK ELSE [code |-> 1001, msg |-> "error"]

\* err is nil ("nil"), a *BizError ("biz") or another error.
RespondError(kind, err) ==
  CASE kind = "nil" -> RespondOK
    [] kind = "biz" -> [code |-> err.code, msg |-> err.msg]
    [] OTHER -> [code |-> 1001, msg |-> "error"]

\* Another handler of the service builds on the shared error.
ReuseUnauthorizedErr ==
  /\ UnauthorizedErr' \in {WithMsg(UnauthorizedErr, "other"), WithInfo(UnauthorizedErr, {"key"})}
  /\ UNCHANGED <<clock, jwtSecret, TokenExpireDuration, tokens,
                 step, header, userAddress, responses>>

(***************************************************************************)
(* middleware/auth.go                                                      *)
(***************************************************************************)
authRest == <<clock, jwtSecret, TokenExpireDuration, tokens, UnauthorizedErr, header>>

Request(kind, t) ==
  /\ step = "idle"
  /\ header' = [kind |-> kind, token |-> t]
  /\ step' = "auth"
  /\ UNCHANGED <<clock, jwtSecret, TokenExpireDuration, tokens, UnauthorizedErr,
                 userAddress, responses>>

Unauthorized ==
  /\ responses' = responses \cup {RespondError("biz", UnauthorizedErr)}
  /\ step' = "aborted"
  /\ UNCHANGED userAddress

\* Up to and with ValidateToken.  Without a header nothing is answered.
AuthHeader ==
  /\ step = "auth"
  /\ CASE header.kind = "empty" -> step' = "aborted" /\ UNCHANGED <<userAddress, responses>>
       [] header.kind \in {"other", "bearer"} -> Unauthorized
       [] OTHER -> IF ValidateToken(header.token)
                   THEN step' = "address" /\ UNCHANGED <<userAddress, responses>>
                   ELSE Unauthorized
  /\ UNCHANGED authRest

\* GetAddressFromToken without looking at its error.
AuthAddressUnchecked ==
  /\ step = "address"
  /\ userAddress' = GetAddressFromToken(header.token) /\ step' = "next" /\ UNCHANGED responses
  /\ UNCHANGED authRest

\* From GetAddressFromToken to c.Next.
AuthAddress ==
  /\ step = "address"
  /\ IF Parses(header.token)
     THEN userAddress' = GetAddressFromToken(header.token) /\ step' = "next" /\ UNCHANGED responses
     ELSE Unauthorized
  /\ UNCHANGED authRest

\* The handler behind the middleware: it asks GetUserAddress and answers.
GetUserAddress == userAddress # NoUser

Handle(kind) ==
  /\ step = "next"
  /\ step' = "served"
  /\ responses' = responses \cup
       {IF GetUserAddress THEN RespondError(kind, UnauthorizedErr) ELSE RespondError("other", UnauthorizedErr)}
  /\ UNCHANGED <<authRest, userAddress>>

AuthNext ==
  \/ \E u \in Users : HandOut(u)
  \/ \E t \in tokens : Refresh(t)
  \/ \E s \in Secrets : SetJWTSecret(s)
  \/ \E d \in Lifetimes : SetTokenExpireDuration(d)
  \/ TimePasses \/ ReuseUnauthorizedErr
  \/ \E kind \in {"empty", "other", "bearer"} : Request(kind, NoToken)
  \/ \E t \in tokens \cup {NoToken} : Request("token", t)
  \/ AuthHeader \/ AuthAddress
  \/ \E kind \in {"nil", "biz", "plain"} : Handle(kind)

AuthSpec == AuthInit /\ [][AuthNext]_authVars

(***************************************************************************)
(* Properties                                                              *)
(***************************************************************************)
\* A request that is passed on has the address of its own token, whose secret
\* was the current one and which had not expired when the address was read:
\* also if the secret or the clock changed after ValidateToken.
PassedIsTokensUser ==
  [][ step # "next" /\ step' = "next" =>
        /\ header.kind = "token" /\ header.token \in tokens
        /\ userAddress' = header.token.address
        /\ header.token.secret = jwtSecret /\ clock < header.token.expiresAt ]_authVars

\* A request is passed on or aborted, never both: an aborted one has no
\* address, is never served, and has the answer 1004 or, without a header, no
\* answer at all; however often other handlers build on UnauthorizedErr.
AbortedIsUnauthorized ==
  step = "aborted" =>
    /\ ~GetUserAddress
    /\ IF header.kind = "empty" THEN responses = {}
       ELSE Cardinality(responses) = 1 /\ \A r \in responses : r.code = 1004

\* RefreshToken returns a token of the same user that lasts a day, or as long
\* as new tokens do now.  It does not end before the old one unless
\* TokenExpireDuration was lowered.
RefreshLasts ==
  \A t \in tokens : Parses(t) =>
    LET new == RefreshToken(t)
    IN  /\ new.address = t.address
        /\ new.expiresAt - clock >= Day \/ new.expiresAt - clock = TokenExpireDuration
        /\ TokenExpireDuration >= t.expiresAt - t.issuedAt => new.expiresAt >= t.expiresAt

\* What a user sees of Auth between any two steps: the one answer to a request
\* that was aborted, and what a refresh would give for the token in hand.
AuthInv == AbortedIsUnauthorized /\ RefreshLasts
=============================================================================

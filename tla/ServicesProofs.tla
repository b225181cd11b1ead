--------------------------- MODULE ServicesProofs ----------------------------
(***************************************************************************)
(* Three parts that a service calls, each for all values of its constants: *)
(* the middleware passes a request on only for the user of its own token   *)
(* (Auth), the chain clients answer with what the node said (ChainRpc),    *)
(* and bodies pay what was asked for (TxBodies).  MCServices checks them   *)
(* on a small instance.                                                    *)
(***************************************************************************)
EXTENDS Auth, ChainRpc, TxBodies, FiniteSetTheorems, SequenceTheorems, TLAPS

(***************************************************************************)
(* Auth                                                                    *)
(***************************************************************************)
Token == [address : Users \cup {NoUser}, expiresAt : Nat, issuedAt : Nat,
          secret : Secrets \cup {NoUser, EmptySecret}]

AuthTypes ==
  /\ clock \in Nat /\ TokenExpireDuration \in Nat
  /\ jwtSecret \in Secrets \cup {EmptySecret}
  /\ tokens \subseteq Token
  /\ header \in [kind : {"empty", "other", "bearer", "token"}, token : Token]

(* What was built on the shared error left its code alone. *)
CodeStays ==
  UnauthorizedErr \in [code : {1004}, msg : {"unauthorized", "other"}, info : SUBSET {"key"}]

(* A request is answered when it is aborted and not before; up to then the  *)
(* context has no address.                                                  *)
RequestsOK ==
  /\ step \in {"idle", "auth", "address"} => responses = {}
  /\ step \in {"idle", "auth", "address", "aborted"} => userAddress = NoUser
  /\ step = "aborted" =>
       IF header.kind = "empty" THEN responses = {}
       ELSE \E r : responses = {r} /\ r.code = 1004

(* What the second parse looks at is a token that was handed out, or one    *)
(* that parses at no time.                                                  *)
HeadersOK ==
  /\ header.token \in tokens \cup {NoToken}
  /\ step = "address" => header.kind = "token"

AuthInductive == AuthTypes /\ CodeStays /\ RequestsOK /\ HeadersOK

(* Made-up tokens never parse. *)
LEMMA NoTokenNeverParses == AuthTypes => ~Parses(NoToken)
  BY DEF AuthTypes, Parses, NoToken

(* New tokens are tokens. *)
LEMMA TokensMade ==
    ASSUME AuthTypes, NEW u \in Users \cup {NoUser} PROVE GenerateAuthToken(u) \in Token
  BY DEF AuthTypes, GenerateAuthToken, Token

LEMMA AuthInitInv == AuthInit => AuthInductive
  BY AuthAssumption DEF AuthInit, AuthInductive, AuthTypes, CodeStays, RequestsOK, HeadersOK, Token, NoToken

LEMMA AuthStepInv == AuthInductive /\ [AuthNext]_authVars => AuthInductive'
  <1> SUFFICES ASSUME AuthInductive, [AuthNext]_authVars PROVE AuthInductive'
    OBVIOUS
  <1> USE DEF AuthInductive
  <1>1. ASSUME NEW u \in Users, HandOut(u) PROVE AuthInductive'
    <2>1. GenerateAuthToken(u) \in Token
      BY TokensMade
    <2> HIDE DEF AuthInductive
    <2> QED
      BY <1>1, <2>1 DEF HandOut, AuthInductive, AuthTypes, CodeStays, RequestsOK, HeadersOK
  <1>2. ASSUME NEW t \in tokens, Refresh(t) PROVE AuthInductive'
    <2>1. RefreshToken(t) \in Token
      BY TokensMade DEF RefreshToken, AuthTypes, Token
    <2> QED
      BY <1>2, <2>1 DEF Refresh, AuthTypes, CodeStays, RequestsOK, HeadersOK
  <1>3. ASSUME NEW s \in Secrets, SetJWTSecret(s) PROVE AuthInductive'
    BY <1>3 DEF SetJWTSecret, AuthTypes, CodeStays, RequestsOK, HeadersOK
  <1>4. ASSUME NEW d \in Lifetimes, SetTokenExpireDuration(d) PROVE AuthInductive'
    BY <1>4, AuthAssumption DEF SetTokenExpireDuration, AuthTypes, CodeStays, RequestsOK, HeadersOK
  <1>5. ASSUME TimePasses PROVE AuthInductive'
    BY <1>5 DEF TimePasses, AuthTypes, CodeStays, RequestsOK, HeadersOK
  <1>6. ASSUME ReuseUnauthorizedErr PROVE AuthInductive'
    <2>1. CodeStays'
      BY <1>6 DEF ReuseUnauthorizedErr, CodeStays, WithMsg, WithInfo
    <2> QED
      BY <1>6, <2>1 DEF ReuseUnauthorizedErr, AuthTypes, RequestsOK, HeadersOK
  <1>7. ASSUME NEW kind \in {"empty", "other", "bearer", "token"}, NEW t \in tokens \cup {NoToken},
               Request(kind, t)
        PROVE  AuthInductive'
    <2>1. t \in Token
      BY DEF AuthTypes, Token, NoToken
    <2> QED
      BY <1>7, <2>1 DEF Request, AuthTypes, CodeStays, RequestsOK, HeadersOK
  <1>8. ASSUME AuthHeader PROVE AuthInductive'
    <2>1. RespondError("biz", UnauthorizedErr).code = 1004
      BY DEF RespondError, CodeStays
    <2>2. CASE header.kind = "empty"
      BY <1>8, <2>2 DEF AuthHeader, authRest, AuthTypes, CodeStays, RequestsOK, HeadersOK
    <2>3. CASE Unauthorized /\ header.kind # "empty"
      BY <1>8, <2>1, <2>3 DEF AuthHeader, Unauthorized, authRest, AuthTypes, CodeStays, RequestsOK, HeadersOK
    <2>4. CASE step' = "address" /\ UNCHANGED <<userAddress, responses>> /\ header.kind = "token"
      BY <1>8, <2>4 DEF AuthHeader, authRest, AuthTypes, CodeStays, RequestsOK, HeadersOK
    <2> QED
      BY <1>8, <2>2, <2>3, <2>4 DEF AuthHeader, AuthTypes
  <1>9. ASSUME AuthAddress PROVE AuthInductive'
    <2>1. RespondError("biz", UnauthorizedErr).code = 1004
      BY DEF RespondError, CodeStays
    <2>2. CASE Parses(header.token)
      BY <1>9, <2>2 DEF AuthAddress, authRest, AuthTypes, CodeStays, RequestsOK, HeadersOK
    <2>3. CASE Unauthorized
      BY <1>9, <2>1, <2>3 DEF AuthAddress, Unauthorized, authRest, AuthTypes, CodeStays, RequestsOK, HeadersOK
    <2> QED
      BY <1>9, <2>2, <2>3 DEF AuthAddress
  <1>10. ASSUME NEW kind, Handle(kind) PROVE AuthInductive'
    BY <1>10 DEF Handle, authRest, AuthTypes, CodeStays, RequestsOK, HeadersOK
  <1>11. CASE UNCHANGED authVars
    BY <1>11 DEF authVars, AuthTypes, CodeStays, RequestsOK, HeadersOK
  <1> QED
    BY <1>1, <1>2, <1>3, <1>4, <1>5, <1>6, <1>7, <1>8, <1>9, <1>10, <1>11 DEF AuthNext

LEMMA AuthInductiveAlways == AuthSpec => []AuthInductive
  BY AuthInitInv, AuthStepInv, PTL DEF AuthSpec

(* What a refresh gives follows from the types: clocks and lifetimes are    *)
(* numbers, and a token that parses was not issued in the future.           *)
LEMMA RefreshLastsLemma == AuthInductive => RefreshLasts
  <1> SUFFICES ASSUME AuthInductive, NEW t \in tokens, Parses(t)
               PROVE  LET new == RefreshToken(t)
                      IN  /\ new.address = t.address
                          /\ new.expiresAt - clock >= Day \/ new.expiresAt - clock = TokenExpireDuration
                          /\ TokenExpireDuration >= t.expiresAt - t.issuedAt => new.expiresAt >= t.expiresAt
    BY DEF RefreshLasts
  <1>1. /\ clock \in Nat /\ TokenExpireDuration \in Nat /\ Day \in Nat
        /\ t.expiresAt \in Nat /\ t.issuedAt \in Nat /\ t.issuedAt <= clock
    BY AuthAssumption DEF AuthInductive, AuthTypes, Token, Parses
  <1>2. CASE t.expiresAt - clock < Day
    BY <1>1, <1>2 DEF RefreshToken, GenerateAuthToken
  <1>3. CASE ~(t.expiresAt - clock < Day)
    BY <1>1, <1>3 DEF RefreshToken
  <1> QED
    BY <1>2, <1>3

(* Of an aborted request and of a refresh: whoever changes the secret, the  *)
(* lifetime, the clock or the shared error in between, an aborted request   *)
(* has no address and one answer, which says 1004 (middleware/auth.go), and *)
(* a refreshed token is the same user's and lasts (util/jwt.go).            *)
THEOREM AuthIsSound == AuthSpec => []AuthInv
  <1>1. AuthInductive => AbortedIsUnauthorized
    <2>1. ASSUME NEW r PROVE Cardinality({r}) = 1
      BY FS_Singleton
    <2> QED
      BY <2>1 DEF AuthInductive, RequestsOK, AbortedIsUnauthorized, GetUserAddress
  <1>2. AuthInductive => AuthInv
    BY <1>1, RefreshLastsLemma DEF AuthInv
  <1> QED
    BY <1>2, AuthInductiveAlways, PTL

(* The two calls of the middleware parse the token twice; what the context  *)
(* gets is of the second parse, at a moment when the token was the current  *)
(* secret's and had not expired, and of a token that was handed out.        *)
THEOREM PassedHasItsUser == AuthSpec => PassedIsTokensUser
  <1>1. ASSUME AuthInductive, [AuthNext]_authVars, step # "next", step' = "next"
        PROVE  /\ header.kind = "token" /\ header.token \in tokens
               /\ userAddress' = header.token.address
               /\ header.token.secret = jwtSecret /\ clock < header.token.expiresAt
    <2>1. AuthAddress
      BY <1>1 DEF AuthNext, authVars, HandOut, Refresh, SetJWTSecret, SetTokenExpireDuration,
                  TimePasses, ReuseUnauthorizedErr, Request, AuthHeader, Unauthorized, Handle
    <2>2. step = "address" /\ Parses(header.token) /\ userAddress' = header.token.address
      BY <1>1, <2>1 DEF AuthAddress, Unauthorized, GetAddressFromToken
    <2>3. header.token # NoToken
      BY <1>1, <2>2, NoTokenNeverParses DEF AuthInductive
    <2> QED
      BY <1>1, <2>2, <2>3 DEF AuthInductive, HeadersOK, Parses
  <1> QED
    BY <1>1, AuthInductiveAlways, PTL DEF AuthSpec, PassedIsTokensUser

(***************************************************************************)
(* ChainRpc                                                                *)
(***************************************************************************)
\* The addresses that clients ask their node about, and a TokenInfo.
Asked == Addresses \cup {SuiCoin} \cup {Trim(t) : t \in Addresses}
TokenInfo == [addr : Asked, decimals : Int, supply : Nat]

(* Only some clients have an operation (rpc.go and the files of the clients). *)
ClientOK ==
  /\ rpc.name \in {"Evm", "Starknet", "Solana", "Bitcoin", "Zkslite", "Ton", "Benfen", "Sui", "Fuel"}
  /\ "info" \in rpc.ops => rpc.name \in {"Evm", "Solana", "Sui"}
  /\ "allowance" \in rpc.ops => rpc.name \in {"Evm", "Solana"}
  /\ "status" \in rpc.ops => rpc.name \in {"Evm", "Solana", "Starknet", "Fuel"}

(* The node: a coin has a number of decimals, an address without blanks and *)
(* a history of supplies.                                                   *)
NodeOK ==
  /\ \A a \in DOMAIN coins : coins[a].decimals \in Nat /\ a.form # "padded"
  /\ supply \in [DOMAIN coins -> Seq(Nat \ {0})]
  /\ \A a \in DOMAIN coins : Len(supply[a]) > 0
  /\ faults \in Nat

(* What ti says is what the node said of the coin at its address. *)
SaidByNode(ti) ==
  LET coin == Named(rpc.name, ti.addr)
  IN  /\ coin \in DOMAIN coins
      /\ 2 * coins[coin].decimals < Word32 => ti.decimals = coins[coin].decimals
      /\ \/ \E j \in 1..Len(supply[coin]) : supply[coin][j] = ti.supply
         \/ ti.supply = NoSupply /\ rpc.name = "Sui"

HeapOK ==
  /\ heap \in Seq(TokenInfo)
  /\ \A i \in 1..Len(heap) : SaidByNode(heap[i])

(* The cache finds an object of the address, and every object's address is  *)
(* found.                                                                   *)
CacheOK ==
  /\ \A k \in DOMAIN cache : cache[k] \in 1..Len(heap) /\ Lower(heap[cache[k]].addr) = k
  /\ \A i \in 1..Len(heap) : Lower(heap[i].addr) \in DOMAIN cache

(* A call that asks for a supply has made the object, which is still without *)
(* one, and no other call has.                                               *)
AskOK(c) ==
  /\ asks[c].pc = "ask" => asks[c] \in [pc : {"ask"}, addr : Asked]
  /\ asks[c].pc = "mint" => asks[c].addr \in Asked
  /\ asks[c].pc = "mint" => rpc.name = "Solana"
  /\ asks[c].pc = "given" =>
       asks[c].obj \in 1..Len(heap) /\ Lower(heap[asks[c].obj].addr) = Norm(asks[c].addr)
  /\ asks[c].pc = "supply" =>
       /\ rpc.name = "Sui" /\ asks[c].obj \in 1..Len(heap)
       /\ heap[asks[c].obj].addr = asks[c].addr /\ heap[asks[c].obj].supply = NoSupply
       /\ Lower(asks[c].addr) = Norm(asks[c].addr)

AsksOK ==
  /\ DOMAIN asks = Callers
  /\ \A c \in Callers : AskOK(c)
  /\ \A c, d \in Callers :
       asks[c].pc = "supply" /\ asks[d].pc = "supply" /\ c # d => asks[c].obj # asks[d].obj

RpcInv ==
  /\ ClientOK /\ NodeOK /\ HeapOK /\ CacheOK /\ AsksOK
  /\ SupplyIsAsked /\ BalanceIsHonest /\ PendingIsNotFailure

-----------------------------------------------------------------------------
(* A number of a fixed width is a number, and small ones are themselves. *)
LEMMA SignedIsInt == ASSUME NEW n \in Nat, NEW w \in Nat \ {0} PROVE Signed(n, w) \in Int
  BY DEF Signed

LEMMA SmallMod == ASSUME NEW n \in Nat, NEW w \in Nat \ {0}, n < w PROVE n % w = n
  OBVIOUS

LEMMA SmallSigned == ASSUME NEW n \in Nat, NEW w \in Nat \ {0}, 2 * n < w PROVE Signed(n, w) = n
  BY SmallMod DEF Signed

(* A coin is named without blanks. *)
LEMMA NamedFacts ==
    ASSUME NodeOK, NEW a, Exists(a)
    PROVE  /\ Lower(a) = Norm(a)
           /\ Current(a) \in Nat \ {0}
           /\ \E j \in 1..Len(supply[Named(rpc.name, a)]) :
                supply[Named(rpc.name, a)][j] = Current(a)
  <1> DEFINE coin == Named(rpc.name, a)
  <1>1. coin \in DOMAIN coins /\ coin.form # "padded"
    BY DEF NodeOK, Exists
  <1>2. a.form # "padded"
    BY <1>1 DEF Named, Lower
  <1>3. supply[coin] \in Seq(Nat \ {0}) /\ Len(supply[coin]) \in 1..Len(supply[coin])
    BY <1>1 DEF NodeOK
  <1>4. Current(a) = supply[coin][Len(supply[coin])]
    BY DEF Current
  <1> QED
    BY <1>2, <1>3, <1>4 DEF Norm, Trim

(* What the clients make of a coin that is there. *)
LEMMA InfoFacts ==
    ASSUME NodeOK, NEW a \in Asked, Exists(a),
           NEW n, n = Current(a) \/ (n = NoSupply /\ rpc.name = "Sui")
    PROVE  LET signed == [Info(a, n) EXCEPT !.decimals = Signed(@, Word32)]
           IN  /\ Info(a, n) \in TokenInfo /\ SaidByNode(Info(a, n))
               /\ signed \in TokenInfo /\ SaidByNode(signed)
               /\ Info(a, n).addr = a /\ signed.addr = a
               /\ Info(a, n).supply = n /\ signed.supply = n
  <1> DEFINE d == coins[Named(rpc.name, a)].decimals
             signed == [Info(a, n) EXCEPT !.decimals = Signed(@, Word32)]
  <1>1. d \in Nat /\ Named(rpc.name, a) \in DOMAIN coins
    BY DEF NodeOK, Exists
  <1>2. Signed(d, Word32) \in Int /\ (2 * d < Word32 => Signed(d, Word32) = d)
    BY <1>1, SignedIsInt, SmallSigned, WordAssumption
  <1>3. n \in Nat
    BY NamedFacts DEF NoSupply
  <1>4. Info(a, n) = [addr |-> a, decimals |-> d, supply |-> n]
    BY DEF Info
  <1>5. signed = [addr |-> a, decimals |-> Signed(d, Word32), supply |-> n]
    BY <1>4
  <1> HIDE DEF signed
  <1>6. Info(a, n) \in TokenInfo /\ signed \in TokenInfo
    BY <1>1, <1>2, <1>3, <1>4, <1>5 DEF TokenInfo
  <1>7. SaidByNode(Info(a, n))
    BY <1>1, <1>4, NamedFacts DEF SaidByNode
  <1>8. SaidByNode(signed)
    BY <1>1, <1>2, <1>5, NamedFacts DEF SaidByNode
  <1> QED
    BY <1>4, <1>5, <1>6, <1>7, <1>8 DEF signed

LEMMA PlainInfoFacts ==
    ASSUME NodeOK, NEW a \in Asked, Exists(a),
           NEW n, n = Current(a) \/ (n = NoSupply /\ rpc.name = "Sui")
    PROVE  /\ Info(a, n) \in TokenInfo /\ SaidByNode(Info(a, n))
           /\ Info(a, n).addr = a /\ Info(a, n).supply = n
  BY InfoFacts, Zenon

(* What was said stays said as long as the node only goes on minting. *)
LEMMA SaidStays ==
    ASSUME NEW ti, SaidByNode(ti), UNCHANGED <<rpc, coins, supply>>
    PROVE  SaidByNode(ti)'
  BY DEF SaidByNode

(* AddTokenInfo puts one sound object into the heap and into the cache. *)
LEMMA AddFacts ==
    ASSUME HeapOK, CacheOK, NEW ti \in TokenInfo, SaidByNode(ti), AddTokenInfo(ti),
           UNCHANGED <<rpc, coins, supply>>
    PROVE  /\ Len(heap') = Len(heap) + 1 /\ heap'[Len(heap) + 1] = ti
           /\ \A i \in 1..Len(heap) : heap'[i] = heap[i]
           /\ HeapOK' /\ CacheOK'
  <1>1. /\ heap' \in Seq(TokenInfo) /\ Len(heap) \in Nat
        /\ Len(heap') = Len(heap) + 1 /\ heap'[Len(heap) + 1] = ti
        /\ \A i \in 1..Len(heap) : heap'[i] = heap[i]
    BY DEF HeapOK, AddTokenInfo
  <1>2. HeapOK'
    <2>1. ASSUME NEW i \in 1..Len(heap') PROVE SaidByNode(heap'[i]) /\ heap'[i] \in TokenInfo
      <3>1. i \in 1..Len(heap) \/ i = Len(heap) + 1
        BY <1>1
      <3> QED
        BY <1>1, <3>1 DEF HeapOK
    <2>2. ASSUME NEW i \in 1..Len(heap') PROVE SaidByNode(heap[i])' 
      <3> DEFINE t == heap'[i]
      <3>1. SaidByNode(t)
        BY <2>1
      <3> QED
        BY <3>1 DEF SaidByNode
    <2> QED
      BY <1>1, <2>2 DEF HeapOK
  <1>3. CacheOK'
    <2>1. ASSUME NEW k \in DOMAIN cache'
          PROVE  cache'[k] \in 1..Len(heap') /\ Lower(heap'[cache'[k]].addr) = k
      BY <1>1 DEF CacheOK, AddTokenInfo
    <2>2. ASSUME NEW i \in 1..Len(heap') PROVE Lower(heap'[i].addr) \in DOMAIN cache'
      <3>1. i \in 1..Len(heap) \/ i = Len(heap) + 1
        BY <1>1
      <3> QED
        BY <1>1, <3>1 DEF CacheOK, AddTokenInfo
    <2> QED
      BY <2>1, <2>2 DEF CacheOK
  <1> QED
    BY <1>1, <1>2, <1>3

(* The second question of Sui fills in the supply of one object. *)
LEMMA SupplyFacts ==
    ASSUME NodeOK, HeapOK, CacheOK, NEW o \in 1..Len(heap),
           heap' = [heap EXCEPT ![o].supply = Current(heap[o].addr)],
           UNCHANGED <<rpc, coins, supply, cache>>
    PROVE  /\ Len(heap') = Len(heap) /\ DOMAIN heap' = DOMAIN heap
           /\ \A i \in 1..Len(heap) : heap'[i].addr = heap[i].addr /\ (i # o => heap'[i] = heap[i])
           /\ heap'[o] = [heap[o] EXCEPT !.supply = heap'[o].supply]
           /\ HeapOK' /\ CacheOK'
  <1> DEFINE a == heap[o].addr
             n == Current(a)
             ti == [heap[o] EXCEPT !.supply = n]
  <1>1. heap[o] \in TokenInfo /\ SaidByNode(heap[o]) /\ Len(heap) \in Nat /\ DOMAIN heap = 1..Len(heap)
    BY DEF HeapOK
  <1>2. Exists(a)
    BY <1>1 DEF SaidByNode, Exists
  <1>3. n \in Nat /\ \E j \in 1..Len(supply[Named(rpc.name, a)]) : supply[Named(rpc.name, a)][j] = n
    BY <1>2, NamedFacts
  <1> HIDE DEF n
  <1>4. /\ ti \in TokenInfo /\ ti.addr = a /\ ti.supply = n /\ ti.decimals = heap[o].decimals
        /\ ti = [heap[o] EXCEPT !.supply = ti.supply]
    BY <1>1, <1>3 DEF TokenInfo
  <1>5. SaidByNode(ti)
    BY <1>1, <1>3, <1>4 DEF SaidByNode
  <1>6. heap' = [heap EXCEPT ![o] = ti]
    BY <1>1 DEF n
  <1> HIDE DEF ti
  <1>7. /\ heap' \in Seq(TokenInfo) /\ Len(heap') = Len(heap) /\ DOMAIN heap' = DOMAIN heap
        /\ heap'[o] = ti /\ \A i \in 1..Len(heap) : i # o => heap'[i] = heap[i]
    BY <1>1, <1>4, <1>6 DEF HeapOK
  <1>8. HeapOK'
    <2>1. ASSUME NEW i \in 1..Len(heap') PROVE SaidByNode(heap[i])' 
      <3> DEFINE t == heap'[i]
      <3>1. SaidByNode(t)
        BY <1>5, <1>7 DEF HeapOK
      <3> QED
        BY <3>1 DEF SaidByNode
    <2> QED
      BY <1>7, <2>1 DEF HeapOK
  <1>9. \A i \in 1..Len(heap) : heap'[i].addr = heap[i].addr
    BY <1>4, <1>7
  <1>10. CacheOK'
    BY <1>7, <1>9 DEF CacheOK
  <1> QED
    BY <1>4, <1>7, <1>8, <1>9, <1>10

-----------------------------------------------------------------------------
(* The objects without a supply that no call is going to ask for. *)
Orphans ==
  { i \in DOMAIN heap :
     /\ heap[i].supply = NoSupply
     /\ ~\E c \in Callers : asks[c].pc = "supply" /\ asks[c].obj = i }

LEMMA OrphansFinite ==
    ASSUME HeapOK PROVE IsFiniteSet(Orphans) /\ Cardinality(Orphans) \in Nat
  <1>1. IsFiniteSet(1..Len(heap)) /\ DOMAIN heap = 1..Len(heap)
    BY FS_Interval DEF HeapOK
  <1>2. Orphans \subseteq 1..Len(heap)
    BY <1>1 DEF Orphans
  <1>3. IsFiniteSet(Orphans)
    BY <1>1, <1>2, FS_Subset
  <1> QED
    BY <1>3, FS_CardinalityType

(* A fault of the node makes at most one orphan, every other step none. *)
LEMMA OrphansStep ==
    ASSUME RpcInv, HeapOK', NEW o, faults' \in Nat, faults' >= faults,
           \/ Orphans' \subseteq Orphans
           \/ Orphans' \subseteq Orphans \cup {o} /\ faults' = faults + 1
    PROVE  SupplyIsAsked'
  <1>1. IsFiniteSet(Orphans) /\ Cardinality(Orphans) \in Nat /\ Cardinality(Orphans) <= faults
    BY OrphansFinite DEF RpcInv, SupplyIsAsked, Orphans
  <1>2. Cardinality(Orphans') \in Nat
    <2> DEFINE O == Orphans'
    <2>1. IsFiniteSet(1..Len(heap')) /\ DOMAIN heap' = 1..Len(heap')
      BY FS_Interval DEF HeapOK
    <2>2. O \subseteq 1..Len(heap')
      BY <2>1 DEF Orphans
    <2>3. IsFiniteSet(O)
      BY <2>1, <2>2, FS_Subset
    <2> QED
      BY <2>3, FS_CardinalityType
  <1>3. Cardinality(Orphans') <= faults'
    <2>1. CASE Orphans' \subseteq Orphans
      <3>1. Cardinality(Orphans') <= Cardinality(Orphans)
        BY <1>1, <2>1, FS_Subset
      <3> QED
        BY <1>1, <1>2, <3>1 DEF RpcInv, NodeOK
    <2>2. CASE Orphans' \subseteq Orphans \cup {o} /\ faults' = faults + 1
      <3>1. /\ IsFiniteSet(Orphans \cup {o}) /\ Cardinality(Orphans \cup {o}) \in Nat
            /\ Cardinality(Orphans \cup {o}) <= Cardinality(Orphans) + 1
        <4>1. /\ IsFiniteSet(Orphans \cup {o})
              /\ \/ Cardinality(Orphans \cup {o}) = Cardinality(Orphans)
                 \/ Cardinality(Orphans \cup {o}) = Cardinality(Orphans) + 1
          BY <1>1, FS_AddElement
        <4> QED
          BY <1>1, <4>1
      <3>2. Cardinality(Orphans') <= Cardinality(Orphans \cup {o})
        BY <2>2, <3>1, FS_Subset
      <3> QED
        BY <1>1, <1>2, <2>2, <3>1, <3>2 DEF RpcInv, NodeOK
    <2> QED
      BY <2>1, <2>2
  <1> QED
    BY <1>3 DEF SupplyIsAsked, Orphans

(* A step of one caller that leaves the objects of the others alone. *)
StepOf(c) ==
  /\ DOMAIN asks' = Callers /\ \A d \in Callers \ {c} : asks'[d] = asks[d]
  /\ UNCHANGED <<rpc, coins, supply>>
  /\ faults' \in {faults, faults + 1}
  /\ Len(heap') >= Len(heap)
  /\ \A i \in 1..Len(heap) :
       /\ heap'[i].addr = heap[i].addr
       /\ heap'[i] = heap[i] \/ (asks[c].pc = "supply" /\ asks[c].obj = i)

(* Then what c does to its own record decides. *)
LEMMA AsksStep ==
    ASSUME RpcInv, NEW c \in Callers, StepOf(c), HeapOK',
           AskOK(c)',
           asks'[c].pc = "supply" => asks'[c].obj > Len(heap)
    PROVE  AsksOK'
  <1>1. ASSUME NEW d \in Callers PROVE AskOK(d)'
    <2>1. CASE d = c
      BY <2>1
    <2>2. CASE d # c
      <3>1. /\ asks'[d] = asks[d] /\ rpc' = rpc /\ AskOK(d)
            /\ Len(heap) \in Nat /\ Len(heap') \in Nat /\ Len(heap') >= Len(heap)
        BY <2>2 DEF StepOf, RpcInv, AsksOK, HeapOK
      <3>2. CASE asks[d].pc = "given"
        <4> DEFINE o == asks[d].obj
        <4>1. o \in 1..Len(heap) /\ Lower(heap[o].addr) = Norm(asks[d].addr)
          BY <3>1, <3>2 DEF AskOK
        <4>2. o \in 1..Len(heap') /\ heap'[o].addr = heap[o].addr
          BY <3>1, <4>1 DEF StepOf
        <4> QED
          BY <3>1, <3>2, <4>1, <4>2 DEF AskOK
      <3>3. CASE asks[d].pc = "supply"
        <4> DEFINE o == asks[d].obj
        <4>1. o \in 1..Len(heap) /\ ~(asks[c].pc = "supply" /\ asks[c].obj = o)
          BY <2>2, <3>1, <3>3 DEF AskOK, RpcInv, AsksOK
        <4>2. o \in 1..Len(heap') /\ heap'[o] = heap[o]
          BY <3>1, <4>1 DEF StepOf
        <4> QED
          BY <3>1, <3>3, <4>1, <4>2 DEF AskOK
      <3>4. CASE asks[d].pc \notin {"given", "supply"}
        BY <3>1, <3>4 DEF AskOK
      <3> QED
        BY <3>2, <3>3, <3>4
    <2> QED
      BY <2>1, <2>2
  <1>2. ASSUME NEW d \in Callers, NEW e \in Callers, d # e,
               asks'[d].pc = "supply", asks'[e].pc = "supply"
        PROVE  asks'[d].obj # asks'[e].obj
    <2>1. ASSUME NEW f \in Callers \ {c}, asks'[f].pc = "supply"
          PROVE  asks'[f].obj \in 1..Len(heap) /\ asks'[f] = asks[f]
      BY <2>1 DEF StepOf, RpcInv, AsksOK, AskOK
    <2>2. Len(heap) \in Nat
      BY DEF RpcInv, HeapOK
    <2> QED
      BY <1>2, <2>1, <2>2 DEF RpcInv, AsksOK
  <1> QED
    BY <1>1, <1>2 DEF AsksOK, StepOf

(* A step that tells nothing keeps the invariant. *)
LEMMA CallerStep ==
    ASSUME RpcInv, NEW c \in Callers, StepOf(c), HeapOK', CacheOK', SupplyIsAsked',
           AskOK(c)',
           asks'[c].pc = "supply" => asks'[c].obj > Len(heap),
           asks'[c].pc # "told"
    PROVE  RpcInv'
  <1>1. ClientOK' /\ NodeOK'
    BY DEF RpcInv, ClientOK, NodeOK, StepOf
  <1>2. AsksOK'
    BY AsksStep
  <1>3. BalanceIsHonest' /\ PendingIsNotFailure'
    BY DEF RpcInv, BalanceIsHonest, PendingIsNotFailure, StepOf
  <1> QED
    BY <1>1, <1>2, <1>3 DEF RpcInv

(* Steps that leave the objects alone make no orphan, unless a supply that  *)
(* was to be asked for is given up on a fault.                              *)
LEMMA IdleOrphans ==
    ASSUME RpcInv, NEW c \in Callers, StepOf(c), UNCHANGED <<heap, cache>>, asks[c].pc # "supply"
    PROVE  HeapOK' /\ CacheOK' /\ SupplyIsAsked'
  <1>1. HeapOK' /\ CacheOK'
    BY DEF RpcInv, HeapOK, CacheOK, StepOf, SaidByNode
  <1>2. Orphans' \subseteq Orphans
    BY DEF Orphans, StepOf
  <1>3. faults' \in Nat /\ faults' >= faults
    BY DEF StepOf, RpcInv, NodeOK
  <1> QED
    BY <1>1, <1>2, <1>3, OrphansStep

(* An object that is added has a supply, or a call that will ask for it. *)
LEMMA AddStep ==
    ASSUME RpcInv, NEW c \in Callers, asks[c].pc # "supply", NEW ti \in TokenInfo, SaidByNode(ti),
           AddTokenInfo(ti), UNCHANGED <<rpc, coins, supply, faults>>,
           DOMAIN asks' = Callers, \A d \in Callers \ {c} : asks'[d] = asks[d],
           \/ ti.supply # NoSupply
           \/ asks'[c].pc = "supply" /\ asks'[c].obj = Len(heap) + 1
    PROVE  StepOf(c) /\ HeapOK' /\ CacheOK' /\ SupplyIsAsked'
  <1>1. /\ Len(heap') = Len(heap) + 1 /\ heap'[Len(heap) + 1] = ti
        /\ \A i \in 1..Len(heap) : heap'[i] = heap[i]
        /\ HeapOK' /\ CacheOK'
    BY AddFacts DEF RpcInv
  <1>2. Len(heap) \in Nat /\ DOMAIN heap = 1..Len(heap) /\ DOMAIN heap' = 1..Len(heap')
    BY <1>1 DEF HeapOK, RpcInv
  <1>3. StepOf(c)
    BY <1>1, <1>2 DEF StepOf
  <1>4. ASSUME NEW i \in Orphans' PROVE i \in Orphans
    <2>1. i \in 1..Len(heap) \/ i = Len(heap) + 1
      BY <1>1, <1>2 DEF Orphans
    <2>2. i # Len(heap) + 1
      BY <1>1 DEF Orphans
    <2> QED
      BY <1>1, <1>2, <2>1, <2>2 DEF Orphans
  <1>5. faults \in Nat /\ faults >= faults
    BY DEF RpcInv, NodeOK
  <1>6. SupplyIsAsked'
    BY <1>1, <1>4, <1>5, OrphansStep
  <1> QED
    BY <1>1, <1>3, <1>6

LEMMA FaultFacts == ASSUME RpcInv, Fault PROVE faults' = faults + 1 /\ faults' \in Nat /\ faults' >= faults
  BY DEF Fault, RpcInv, NodeOK

(* A call that fails, returns or waits leaves everything else alone. *)
LEMMA PlainStep ==
    ASSUME RpcInv, NEW c \in Callers, asks[c].pc # "supply",
           UNCHANGED <<rpc, coins, supply, heap, cache, pool>>, UNCHANGED faults \/ Fault,
           NEW r, asks' = [asks EXCEPT ![c] = r],
           r.pc \notin {"supply", "told"}, AskOK(c)'
    PROVE  RpcInv'
  <1>1. StepOf(c)
    <2>1. Len(heap) \in Nat /\ faults' \in {faults, faults + 1}
      BY FaultFacts DEF RpcInv, HeapOK
    <2> QED
      BY <2>1 DEF StepOf, RpcInv, AsksOK
  <1>2. asks'[c] = r
    BY DEF RpcInv, AsksOK
  <1>3. HeapOK' /\ CacheOK' /\ SupplyIsAsked'
    BY <1>1, IdleOrphans
  <1> QED
    BY <1>1, <1>2, <1>3, CallerStep

-----------------------------------------------------------------------------
LEMMA RpcInitInv == RpcInit => RpcInv
  <1> SUFFICES ASSUME RpcInit PROVE RpcInv
    OBVIOUS
  <1>1. ClientOK
    <2> PICK n \in RpcBackends, use \in Uses : \E r \in GetRpc(n) : rpc = [r EXCEPT !.ops = @ \cap use]
      BY DEF RpcInit
    <2> PICK r \in GetRpc(n) : rpc = [r EXCEPT !.ops = @ \cap use]
      OBVIOUS
    <2>1. r \in {EvmRpc, StarknetRpc, SolanaRpc, BitcoinRpc, ZksliteRpc, TonRpc, BenfenRpc, SuiRpc, FuelRpc}
      BY DEF GetRpc
    <2>2. rpc.name = r.name /\ rpc.ops \subseteq r.ops
      BY <2>1 DEF EvmRpc, StarknetRpc, SolanaRpc, BitcoinRpc, ZksliteRpc, TonRpc, BenfenRpc, SuiRpc, FuelRpc
    <2> QED
      BY <2>1, <2>2 DEF ClientOK, EvmRpc, StarknetRpc, SolanaRpc, BitcoinRpc, ZksliteRpc, TonRpc,
                        BenfenRpc, SuiRpc, FuelRpc
  <1>2. \A a \in DOMAIN coins : coins[a].decimals \in Nat /\ a.form # "padded"
    <2>1. CASE "info" \in rpc.ops
      BY <1>1, <2>1, RpcAssumption DEF RpcInit, ClientOK
    <2>2. CASE "info" \notin rpc.ops
      BY <2>2 DEF RpcInit
    <2> QED
      BY <2>1, <2>2
  <1>3. NodeOK
    BY <1>2 DEF RpcInit, NodeOK
  <1>4. HeapOK /\ CacheOK /\ AsksOK
    BY DEF RpcInit, HeapOK, CacheOK, AsksOK, AskOK, NoAsk
  <1>5. SupplyIsAsked
    <2>1. Orphans = {}
      BY DEF RpcInit, Orphans
    <2> QED
      BY <2>1, FS_EmptySet DEF RpcInit, Orphans, SupplyIsAsked
  <1>6. BalanceIsHonest /\ PendingIsNotFailure
    BY DEF RpcInit, BalanceIsHonest, PendingIsNotFailure, NoAsk
  <1> QED
    BY <1>1, <1>3, <1>4, <1>5, <1>6 DEF RpcInv

LEMMA MintStep == ASSUME RpcInv, NEW a \in DOMAIN supply, Mint(a) PROVE RpcInv'
  <1>1. /\ supply' \in [DOMAIN coins -> Seq(Nat \ {0})]
        /\ \A b \in DOMAIN coins : /\ Len(supply'[b]) >= Len(supply[b]) /\ Len(supply[b]) \in Nat
                                   /\ Len(supply'[b]) \in Nat /\ Len(supply[b]) > 0
                                   /\ \A j \in 1..Len(supply[b]) : supply'[b][j] = supply[b][j]
    <2>1. a \in DOMAIN coins /\ supply[a] \in Seq(Nat \ {0}) /\ Len(supply[a]) \in Nat
      BY DEF RpcInv, NodeOK
    <2> DEFINE more == Append(supply[a], 5 + Len(supply[a]))
    <2>2. /\ more \in Seq(Nat \ {0}) /\ Len(more) = Len(supply[a]) + 1
          /\ \A j \in 1..Len(supply[a]) : more[j] = supply[a][j]
      BY <2>1
    <2>3. supply' = [supply EXCEPT ![a] = more]
      BY DEF Mint
    <2> HIDE DEF more
    <2> QED
      BY <2>1, <2>2, <2>3 DEF RpcInv, NodeOK
  <1>2. NodeOK'
    <2>1. \A b \in DOMAIN coins : Len(supply'[b]) > 0
      BY <1>1
    <2> QED
      BY <1>1, <2>1 DEF RpcInv, NodeOK, Mint
  <1>3. ASSUME NEW i \in 1..Len(heap) PROVE SaidByNode(heap[i])'
    <2>1. SaidByNode(heap[i]) /\ UNCHANGED <<rpc, coins, heap>>
      BY <1>3 DEF RpcInv, HeapOK, Mint
    <2> DEFINE coin == Named(rpc.name, heap[i].addr)
    <2>2. coin \in DOMAIN coins
      BY <2>1 DEF SaidByNode
    <2>3. ASSUME NEW j \in 1..Len(supply[coin]) PROVE j \in 1..Len(supply'[coin]) /\ supply'[coin][j] = supply[coin][j]
      BY <1>1, <2>2
    <2> QED
      BY <2>1, <2>3 DEF SaidByNode
  <1>4. HeapOK'
    BY <1>3 DEF RpcInv, HeapOK, Mint
  <1>5. ClientOK' /\ CacheOK'
    BY DEF RpcInv, Mint, ClientOK, CacheOK
  <1>6. AsksOK'
    BY DEF RpcInv, Mint, AsksOK, AskOK
  <1>7. SupplyIsAsked'
    BY DEF RpcInv, Mint, SupplyIsAsked
  <1>8. BalanceIsHonest' /\ PendingIsNotFailure'
    BY DEF RpcInv, Mint, BalanceIsHonest, PendingIsNotFailure
  <1> QED
    BY <1>2, <1>4, <1>5, <1>6, <1>7, <1>8 DEF RpcInv

LEMMA TokenBeginStep == ASSUME RpcInv, NEW c \in Callers, NEW t \in Addresses, TokenBegin(c, t) PROVE RpcInv'
  <1> DEFINE addr == IF rpc.name = "Sui" THEN (IF t = Native THEN SuiCoin ELSE Trim(t)) ELSE t
             r == asks'[c]
  <1>1. addr \in Asked
    BY DEF Asked
  <1>2. \/ r = [pc |-> "fixed", addr |-> t]
        \/ r = [pc |-> "given", addr |-> addr, obj |-> cache[Norm(addr)]] /\ Norm(addr) \in DOMAIN cache
        \/ r = [pc |-> "ask", addr |-> addr] /\ Norm(addr) \notin DOMAIN cache
    BY DEF TokenBegin, RpcInv, AsksOK
  <1> HIDE DEF addr
  <1>3. r.pc \in {"fixed", "given", "ask"}
    BY <1>2
  <1>4. AskOK(c)'
    <2>1. UNCHANGED heap
      BY DEF TokenBegin
    <2> QED
      BY <1>1, <1>2, <2>1 DEF AskOK, RpcInv, CacheOK
  <1>5. asks' = [asks EXCEPT ![c] = r] /\ asks[c].pc = "idle"
    BY DEF TokenBegin, RpcInv, AsksOK
  <1> HIDE DEF r
  <1> QED
    BY <1>3, <1>4, <1>5, PlainStep DEF TokenBegin

(* A call that fails. *)
LEMMA FailStep ==
    ASSUME RpcInv, NEW c \in Callers, asks[c].pc \in {"ask", "mint"}, Fail(c),
           UNCHANGED <<rpc, coins, supply, heap, cache, pool>>, UNCHANGED faults \/ Fault
    PROVE  RpcInv'
  <1> DEFINE r == [pc |-> "failed", addr |-> asks[c].addr]
  <1>1. asks' = [asks EXCEPT ![c] = r]
    BY DEF Fail
  <1>2. AskOK(c)'
    BY <1>1 DEF AskOK, RpcInv, AsksOK
  <1> QED
    BY <1>1, <1>2, PlainStep

(* A call that gives the object it has just added. *)
LEMMA GiveStep ==
    ASSUME RpcInv, NEW c \in Callers, asks[c].pc \in {"ask", "mint"},
           Exists(asks[c].addr), NEW ti \in TokenInfo, SaidByNode(ti),
           ti.addr = asks[c].addr, ti.supply # NoSupply,
           AddTokenInfo(ti), Give(c, Len(heap) + 1), UNCHANGED <<rpc, coins, supply, pool, faults>>
    PROVE  RpcInv'
  <1>1. /\ DOMAIN asks' = Callers /\ \A d \in Callers \ {c} : asks'[d] = asks[d]
        /\ asks'[c] = [pc |-> "given", addr |-> asks[c].addr, obj |-> Len(heap) + 1]
    BY DEF Give, RpcInv, AsksOK
  <1>2. StepOf(c) /\ HeapOK' /\ CacheOK' /\ SupplyIsAsked'
    BY <1>1, AddStep
  <1>3. Len(heap') = Len(heap) + 1 /\ heap'[Len(heap) + 1] = ti /\ Len(heap) \in Nat
    BY AddFacts DEF RpcInv, HeapOK
  <1>4. Lower(asks[c].addr) = Norm(asks[c].addr)
    BY NamedFacts DEF RpcInv
  <1>5. AskOK(c)'
    BY <1>1, <1>3, <1>4 DEF AskOK
  <1> QED
    BY <1>1, <1>2, <1>5, CallerStep

LEMMA EvmStep == ASSUME RpcInv, NEW c \in Callers, EvmGetTokenInfo(c) PROVE RpcInv'
  <1> DEFINE a == asks[c].addr
             signed == [Info(a, Current(a)) EXCEPT !.decimals = Signed(@, Word32)]
  <1>1. CASE Fail(c) /\ UNCHANGED <<heap, cache>> /\ (UNCHANGED faults \/ Fault)
    BY <1>1, FailStep DEF EvmGetTokenInfo
  <1>2. CASE /\ Exists(a) /\ coins[Lower(a)].symbol
             /\ AddTokenInfo(signed) /\ Give(c, Len(heap) + 1) /\ UNCHANGED faults
    <2>1. a \in Asked
      BY DEF EvmGetTokenInfo, RpcInv, AsksOK, AskOK
    <2>2. signed \in TokenInfo /\ SaidByNode(signed) /\ signed.addr = a /\ signed.supply = Current(a)
      BY <1>2, <2>1, InfoFacts DEF RpcInv
    <2>3. Current(a) # NoSupply
      BY <1>2, NamedFacts DEF RpcInv, NoSupply
    <2> HIDE DEF signed
    <2> QED
      BY <1>2, <2>2, <2>3, GiveStep DEF EvmGetTokenInfo
  <1> QED
    BY <1>1, <1>2 DEF EvmGetTokenInfo

LEMMA MetadataStep == ASSUME RpcInv, NEW c \in Callers, SolanaMetadata(c) PROVE RpcInv'
  <1>1. CASE Fail(c) /\ (UNCHANGED faults \/ Fault)
    BY <1>1, FailStep DEF SolanaMetadata
  <1>2. CASE asks' = [asks EXCEPT ![c].pc = "mint"] /\ UNCHANGED faults
    <2> DEFINE r == [asks[c] EXCEPT !.pc = "mint"]
    <2>1. asks' = [asks EXCEPT ![c] = r]
      BY <1>2
    <2>2. asks'[c] = r /\ AskOK(c) /\ asks[c].pc = "ask" /\ rpc.name = "Solana" /\ UNCHANGED rpc
      BY <2>1 DEF RpcInv, AsksOK, SolanaMetadata
    <2>3. asks[c] \in [pc : {"ask"}, addr : Asked]
      BY <2>2 DEF AskOK
    <2>4. r.pc = "mint" /\ r.addr \in Asked
      BY <2>3
    <2> HIDE DEF r
    <2>5. AskOK(c)'
      BY <2>2, <2>3, <2>4 DEF AskOK
    <2> QED
      BY <1>2, <2>1, <2>2, <2>4, <2>5, PlainStep DEF SolanaMetadata
  <1> QED
    BY <1>1, <1>2 DEF SolanaMetadata

LEMMA SolanaStep == ASSUME RpcInv, NEW c \in Callers, SolanaGetTokenInfo(c) PROVE RpcInv'
  <1> DEFINE a == asks[c].addr
             ti == Info(a, Current(a))
  <1>1. CASE Fail(c) /\ UNCHANGED <<heap, cache>> /\ (UNCHANGED faults \/ Fault)
    BY <1>1, FailStep DEF SolanaGetTokenInfo
  <1>2. CASE Exists(a) /\ AddTokenInfo(ti) /\ Give(c, Len(heap) + 1) /\ UNCHANGED faults
    <2>1. a \in Asked
      BY DEF SolanaGetTokenInfo, RpcInv, AsksOK, AskOK
    <2>2. ti \in TokenInfo /\ SaidByNode(ti) /\ ti.addr = a /\ ti.supply = Current(a)
      BY <1>2, <2>1, InfoFacts DEF RpcInv
    <2>3. Current(a) # NoSupply
      BY <1>2, NamedFacts DEF RpcInv, NoSupply
    <2> HIDE DEF ti
    <2> QED
      BY <1>2, <2>2, <2>3, GiveStep DEF SolanaGetTokenInfo
  <1> QED
    BY <1>1, <1>2 DEF SolanaGetTokenInfo

LEMMA SuiStep == ASSUME RpcInv, NEW c \in Callers, SuiGetTokenInfo(c) PROVE RpcInv'
  <1> DEFINE a == asks[c].addr
             ti == Info(a, NoSupply)
  <1>1. CASE Fail(c) /\ UNCHANGED <<heap, cache>> /\ (UNCHANGED faults \/ Fault)
    BY <1>1, FailStep DEF SuiGetTokenInfo
  <1>2. CASE /\ Exists(a) /\ AddTokenInfo(ti) /\ UNCHANGED faults
             /\ asks' = [asks EXCEPT ![c] = [pc |-> "supply", addr |-> a, obj |-> Len(heap) + 1]]
    <2>1. /\ DOMAIN asks' = Callers /\ \A d \in Callers \ {c} : asks'[d] = asks[d]
          /\ asks'[c] = [pc |-> "supply", addr |-> a, obj |-> Len(heap) + 1]
      BY <1>2 DEF RpcInv, AsksOK
    <2>2. a \in Asked /\ rpc.name = "Sui" /\ asks[c].pc = "ask" /\ UNCHANGED <<rpc, coins, supply, pool>>
      BY DEF SuiGetTokenInfo, RpcInv, AsksOK, AskOK
    <2>3. ti \in TokenInfo /\ SaidByNode(ti) /\ ti.addr = a /\ ti.supply = NoSupply
      <3>1. NodeOK /\ Exists(a)
        BY <1>2 DEF RpcInv
      <3> HIDE DEF a
      <3> QED
        BY <2>2, <3>1, PlainInfoFacts, Zenon
    <2> HIDE DEF ti
    <2>4. StepOf(c) /\ HeapOK' /\ CacheOK' /\ SupplyIsAsked'
      BY <1>2, <2>1, <2>2, <2>3, AddStep
    <2>5. Len(heap') = Len(heap) + 1 /\ heap'[Len(heap) + 1] = ti /\ Len(heap) \in Nat
      BY <1>2, <2>2, <2>3, AddFacts DEF RpcInv, HeapOK
    <2>6. Lower(a) = Norm(a)
      BY <1>2, NamedFacts DEF RpcInv
    <2>7. AskOK(c)'
      BY <2>1, <2>2, <2>3, <2>5, <2>6 DEF AskOK
    <2> QED
      BY <2>1, <2>2, <2>4, <2>5, <2>7, CallerStep
  <1> QED
    BY <1>1, <1>2 DEF SuiGetTokenInfo

LEMMA SuiSupplyStep == ASSUME RpcInv, NEW c \in Callers, SuiSupply(c) PROVE RpcInv'
  <1> DEFINE o == asks[c].obj
  <1>1. /\ asks[c].pc = "supply" /\ o \in 1..Len(heap) /\ Len(heap) \in Nat
        /\ heap[o].addr = asks[c].addr /\ Lower(asks[c].addr) = Norm(asks[c].addr)
        /\ DOMAIN heap = 1..Len(heap) /\ faults \in Nat
        /\ UNCHANGED <<rpc, coins, supply, cache, pool>>
    BY DEF SuiSupply, RpcInv, AsksOK, AskOK, HeapOK, NodeOK
  <1>2. /\ DOMAIN asks' = Callers /\ \A d \in Callers \ {c} : asks'[d] = asks[d]
        /\ asks'[c] = [pc |-> "given", addr |-> asks[c].addr, obj |-> o]
    BY DEF SuiSupply, Give, RpcInv, AsksOK
  <1>3. CASE Fault /\ UNCHANGED heap
    <2>1. StepOf(c)
      BY <1>1, <1>2, <1>3, FaultFacts DEF StepOf
    <2>2. HeapOK' /\ CacheOK'
      BY <1>1, <1>3 DEF RpcInv, HeapOK, CacheOK, SaidByNode
    <2>3. Orphans' \subseteq Orphans \cup {o}
      BY <1>2, <1>3 DEF Orphans
    <2>4. SupplyIsAsked'
      BY <1>3, <2>2, <2>3, FaultFacts, OrphansStep
    <2>5. AskOK(c)'
      BY <1>1, <1>2, <1>3 DEF AskOK
    <2> QED
      BY <1>1, <1>2, <2>1, <2>2, <2>4, <2>5, CallerStep
  <1>4. CASE heap' = [heap EXCEPT ![o].supply = Current(heap[o].addr)] /\ UNCHANGED faults
    <2>1. /\ Len(heap') = Len(heap) /\ DOMAIN heap' = DOMAIN heap
          /\ \A i \in 1..Len(heap) : heap'[i].addr = heap[i].addr /\ (i # o => heap'[i] = heap[i])
          /\ HeapOK' /\ CacheOK'
      BY <1>1, <1>4, SupplyFacts DEF RpcInv
    <2>2. StepOf(c)
      <3>1. Len(heap') >= Len(heap) /\ faults' \in {faults, faults + 1}
        BY <1>1, <1>4, <2>1
      <3>2. \A i \in 1..Len(heap) :
              /\ heap'[i].addr = heap[i].addr
              /\ heap'[i] = heap[i] \/ (asks[c].pc = "supply" /\ o = i)
        BY <1>1, <2>1, Zenon
      <3> QED
        BY <1>1, <1>2, <3>1, <3>2 DEF StepOf
    <2>3. heap'[o].supply # NoSupply
      <3>1. Exists(heap[o].addr) /\ heap[o] \in TokenInfo
        BY <1>1 DEF RpcInv, HeapOK, SaidByNode, Exists
      <3>2. heap'[o].supply = Current(heap[o].addr)
        BY <1>1, <1>4, <3>1 DEF TokenInfo
      <3> QED
        BY <3>1, <3>2, NamedFacts DEF RpcInv, NoSupply
    <2>4. Orphans' \subseteq Orphans
      BY <1>1, <1>2, <2>1, <2>3 DEF Orphans
    <2>5. SupplyIsAsked'
      BY <1>1, <1>4, <2>1, <2>4, OrphansStep
    <2>6. AskOK(c)'
      BY <1>1, <1>2, <2>1 DEF AskOK
    <2> QED
      BY <1>1, <1>2, <2>1, <2>2, <2>5, <2>6, CallerStep
  <1> QED
    BY <1>1, <1>3, <1>4 DEF SuiSupply

LEMMA TonStep ==
    ASSUME RpcInv, NEW c \in Callers,
           TonBegin(c) \/ TonConnect(c) \/ TonAssign(c)
    PROVE  RpcInv'
  <1>1. ASSUME NEW w, asks' = [asks EXCEPT ![c] = [pc |-> w]],
               w \in {"connect", "panicked", "client", "noclient", "assign"},
               asks[c].pc # "supply", UNCHANGED <<rpc, coins, supply, heap, cache>>,
               UNCHANGED faults \/ Fault
        PROVE  RpcInv'
    <2>1. DOMAIN asks' = Callers /\ asks'[c] = [pc |-> w] /\ \A d \in Callers \ {c} : asks'[d] = asks[d]
      BY <1>1 DEF RpcInv, AsksOK
    <2>2. Len(heap) \in Nat /\ faults' \in {faults, faults + 1}
      BY <1>1, FaultFacts DEF RpcInv, HeapOK
    <2>3. StepOf(c)
      BY <1>1, <2>1, <2>2 DEF StepOf
    <2>4. AskOK(c)'
      BY <1>1, <2>1 DEF AskOK
    <2>5. HeapOK' /\ CacheOK' /\ SupplyIsAsked'
      BY <1>1, <2>3, IdleOrphans
    <2> QED
      BY <1>1, <2>1, <2>3, <2>4, <2>5, CallerStep
  <1>2. CASE TonBegin(c)
    <2>1. PICK w \in {"connect", "panicked", "client"} : asks' = [asks EXCEPT ![c] = [pc |-> w]]
      BY <1>2 DEF TonBegin
    <2> QED
      BY <1>1, <1>2, <2>1 DEF TonBegin
  <1>3. CASE TonConnect(c)
    BY <1>1, <1>3 DEF TonConnect
  <1>4. CASE TonAssign(c)
    BY <1>1, <1>4 DEF TonAssign
  <1> QED
    BY <1>2, <1>3, <1>4

(* What the clients make of a reply is never made up. *)
LEMMA HonestBalance ==
    ASSUME ClientOK, NEW coin, NEW r \in Replies, ~GetBalance(rpc.name, coin, r).err
    PROVE  /\ r.kind # "error"
           /\ GetBalance(rpc.name, coin, r).value =
                IF r.kind # "ok" THEN 0 ELSE IF rpc.name = "Solana" THEN Signed(r.n, Word64) ELSE r.n
           /\ r.kind # "ok" => rpc.name \in {"Starknet", "Solana", "Bitcoin", "Zkslite", "Ton"}
  <1> DEFINE a == GetSplAccount(r)
  <1>1. r.kind \in {"error", "none", "empty", "malformed", "ok"}
    BY DEF Replies
  <1>2. (a.kind = "ok" <=> r.kind = "ok") /\ (a.kind = "error" <=> r.kind = "error") /\ a.n = r.n
    BY DEF GetSplAccount, Replies
  <1> HIDE DEF a
  <1>3. CASE rpc.name = "Solana"
    BY <1>1, <1>2, <1>3 DEF GetBalance, SolanaGetBalance, a, Ok, Err
  <1>4. CASE rpc.name \in {"Evm", "Starknet", "Benfen", "Sui", "Fuel"}
    BY <1>1, <1>4 DEF GetBalance, EvmGetBalance, StarknetGetBalance, BenfenGetBalance,
                     SuiGetBalance, FuelGetBalance, Ok, Err
  <1>5. CASE rpc.name \in {"Bitcoin", "Zkslite", "Ton"}
    BY <1>1, <1>5 DEF GetBalance, BitcoinGetBalance, ZksliteGetBalance, TonGetBalance, Ok, Err, Panic
  <1> QED
    BY <1>3, <1>4, <1>5 DEF ClientOK

LEMMA HonestAllowance ==
    ASSUME rpc.name \in {"Evm", "Solana"}, NEW r \in Replies, NEW ret,
           ret = IF rpc.name = "Evm" THEN EvmGetAllowance(r) ELSE SolanaGetAllowance(r), ~ret.err
    PROVE  /\ r.kind # "error"
           /\ ret.value = IF r.kind # "ok" THEN 0 ELSE IF rpc.name = "Solana" THEN Signed(r.n, Word64) ELSE r.n
           /\ r.kind # "ok" => rpc.name = "Solana"
  <1> DEFINE a == GetSplAccount(r)
  <1>1. r.kind \in {"error", "none", "empty", "malformed", "ok"}
    BY DEF Replies
  <1>2. (a.kind = "ok" <=> r.kind = "ok") /\ (a.kind = "error" <=> r.kind = "error") /\ a.n = r.n
    BY DEF GetSplAccount, Replies
  <1> HIDE DEF a
  <1>3. CASE rpc.name = "Solana"
    BY <1>1, <1>2, <1>3 DEF SolanaGetAllowance, a, Ok, Err
  <1>4. CASE rpc.name = "Evm"
    BY <1>1, <1>4 DEF EvmGetAllowance, Ok, Err
  <1> QED
    BY <1>3, <1>4

LEMMA HonestStatus ==
    ASSUME rpc.name \in {"Evm", "Solana", "Starknet", "Fuel"}, NEW s \in TxStates,
           ~IsTxSuccess(rpc.name, s).err
    PROVE  s = IF IsTxSuccess(rpc.name, s).value THEN "succeeded" ELSE "failed"
  BY DEF IsTxSuccess, EvmIsTxSuccess, SolanaIsTxSuccess, StarknetIsTxSuccess, FuelIsTxSuccess, Ok, Err

(* An answer that keeps nothing. *)
LEMMA TellStep ==
    ASSUME RpcInv, NEW c \in Callers, NEW op, NEW said, NEW coin, NEW ret, Tell(c, op, said, coin, ret),
           op \in {"balance", "allowance"} /\ ~ret.err =>
             /\ said.kind # "error"
             /\ ret.value = IF said.kind # "ok" THEN 0
                            ELSE IF rpc.name = "Solana" THEN Signed(said.n, Word64) ELSE said.n
             /\ said.kind # "ok" => rpc.name \in {"Starknet", "Solana", "Bitcoin", "Zkslite", "Ton"},
           op = "status" /\ ~ret.err => said = IF ret.value THEN "succeeded" ELSE "failed"
    PROVE  RpcInv'
  <1>1. PICK w \in {"panicked", "told"} :
          asks' = [asks EXCEPT ![c] = [pc |-> w, op |-> op, said |-> said, coin |-> coin, ret |-> ret]]
    BY DEF Tell
  <1>2. /\ DOMAIN asks' = Callers /\ \A d \in Callers \ {c} : asks'[d] = asks[d]
        /\ asks'[c] = [pc |-> w, op |-> op, said |-> said, coin |-> coin, ret |-> ret]
    BY <1>1 DEF RpcInv, AsksOK
  <1>3. asks[c].pc \in {"client", "idle"} /\ UNCHANGED <<rpc, coins, supply, heap, cache, pool, faults>>
    BY DEF Tell, Ready
  <1>4. StepOf(c)
    BY <1>2, <1>3 DEF StepOf, RpcInv, HeapOK
  <1>5. HeapOK' /\ CacheOK' /\ SupplyIsAsked'
    BY <1>3, <1>4, IdleOrphans
  <1>6. AskOK(c)'
    BY <1>2 DEF AskOK
  <1>7. AsksOK'
    BY <1>2, <1>4, <1>5, <1>6, AsksStep
  <1>8. ClientOK' /\ NodeOK'
    BY <1>2, <1>3 DEF RpcInv, ClientOK, NodeOK
  <1>9. BalanceIsHonest'
    <2>1. ASSUME NEW d \in Callers, d # c, asks'[d].pc = "told", asks'[d].op \in {"balance", "allowance"}
          PROVE  (asks[d].pc = "told" /\ asks[d].op \in {"balance", "allowance"}) /\ asks'[d] = asks[d]
      BY <1>2, <2>1
    <2> QED
      BY <1>2, <1>3, <2>1 DEF RpcInv, BalanceIsHonest
  <1>10. PendingIsNotFailure'
    BY <1>2, <1>3 DEF RpcInv, PendingIsNotFailure
  <1> QED
    BY <1>5, <1>7, <1>8, <1>9, <1>10 DEF RpcInv

LEMMA RpcStepInv == RpcInv /\ [RpcNext]_rpcVars => RpcInv'
  <1> SUFFICES ASSUME RpcInv, [RpcNext]_rpcVars PROVE RpcInv'
    OBVIOUS
  <1>1. ASSUME NEW c \in Callers, AskBalance(c) PROVE RpcInv'
    <2>1. PICK r \in Replies, coin \in CoinClass :
            Tell(c, "balance", r, coin, GetBalance(rpc.name, coin, r))
      BY <1>1 DEF AskBalance
    <2> DEFINE ret == GetBalance(rpc.name, coin, r)
    <2>2. ~ret.err =>
            /\ r.kind # "error"
            /\ ret.value = IF r.kind # "ok" THEN 0
                           ELSE IF rpc.name = "Solana" THEN Signed(r.n, Word64) ELSE r.n
            /\ r.kind # "ok" => rpc.name \in {"Starknet", "Solana", "Bitcoin", "Zkslite", "Ton"}
      BY HonestBalance DEF RpcInv
    <2> HIDE DEF ret
    <2> QED
      BY <2>1, <2>2, TellStep DEF ret
  <1>2. ASSUME NEW c \in Callers, AskAllowance(c) PROVE RpcInv'
    <2>1. PICK r \in Replies :
            Tell(c, "allowance", r, "other", IF rpc.name = "Evm" THEN EvmGetAllowance(r) ELSE SolanaGetAllowance(r))
      BY <1>2 DEF AskAllowance
    <2>2. rpc.name \in {"Evm", "Solana"}
      BY <2>1 DEF Tell, RpcInv, ClientOK
    <2> DEFINE ret == IF rpc.name = "Evm" THEN EvmGetAllowance(r) ELSE SolanaGetAllowance(r)
    <2>3. ~ret.err =>
            /\ r.kind # "error"
            /\ ret.value = IF r.kind # "ok" THEN 0
                           ELSE IF rpc.name = "Solana" THEN Signed(r.n, Word64) ELSE r.n
            /\ r.kind # "ok" => rpc.name = "Solana"
      <3> HIDE DEF ret
      <3> QED
        BY <2>2, HonestAllowance DEF ret
    <2>4. Tell(c, "allowance", r, "other", ret)
      BY <2>1
    <2> HIDE DEF ret
    <2> QED
      BY <2>3, <2>4, TellStep
  <1>3. ASSUME NEW c \in Callers, AskStatus(c) PROVE RpcInv'
    <2>1. PICK s \in TxStates : Tell(c, "status", s, "other", IsTxSuccess(rpc.name, s))
      BY <1>3 DEF AskStatus
    <2>2. rpc.name \in {"Evm", "Solana", "Starknet", "Fuel"}
      BY <2>1 DEF Tell, RpcInv, ClientOK
    <2> QED
      BY <2>1, <2>2, HonestStatus, TellStep
  <1>4. ASSUME NEW c \in Callers, RpcReturn(c) PROVE RpcInv'
    <2>1. asks'[c] = NoAsk /\ NoAsk.pc = "idle"
      BY <1>4 DEF RpcReturn, RpcInv, AsksOK, NoAsk
    <2>2. AskOK(c)'
      BY <2>1 DEF AskOK
    <2> QED
      BY <1>4, <2>1, <2>2, PlainStep DEF RpcReturn
  <1>5. CASE UNCHANGED rpcVars
    <2>1. ClientOK' /\ CacheOK' /\ NodeOK'
      BY <1>5 DEF rpcVars, RpcInv, ClientOK, CacheOK, NodeOK
    <2>2. HeapOK'
      BY <1>5 DEF rpcVars, RpcInv, HeapOK, SaidByNode
    <2>3. AsksOK'
      BY <1>5 DEF rpcVars, RpcInv, AsksOK, AskOK
    <2>4. SupplyIsAsked'
      BY <1>5 DEF rpcVars, RpcInv, SupplyIsAsked
    <2>5. BalanceIsHonest' /\ PendingIsNotFailure'
      BY <1>5 DEF rpcVars, RpcInv, BalanceIsHonest, PendingIsNotFailure
    <2> QED
      BY <2>1, <2>2, <2>3, <2>4, <2>5 DEF RpcInv
  <1> QED
    BY <1>1, <1>2, <1>3, <1>4, <1>5, MintStep, TokenBeginStep, EvmStep, MetadataStep, SolanaStep,
       SuiStep, SuiSupplyStep, TonStep DEF RpcNext

LEMMA RpcInvAlways == RpcSpec => []RpcInv
  BY RpcInitInv, RpcStepInv, PTL DEF RpcSpec

(* What GetTokenInfo, GetBalance, GetAllowance and IsTxSuccess of all       *)
(* clients answer (rpc/*.go) is what the node said: of any number of        *)
(* goroutines that share a client and its cache, over any node and however  *)
(* often it fails or mints.                                                 *)
THEOREM ClientsAreHonest == RpcSpec => []AnswersAreHonest
  <1>1. RpcInv => InfoIsOfCoin
    <2> SUFFICES ASSUME RpcInv, NEW c \in Callers, asks[c].pc = "given"
                 PROVE  LET ti == heap[asks[c].obj]
                            coin == coins[Named(rpc.name, ti.addr)]
                        IN  /\ Lower(ti.addr) = Norm(asks[c].addr)
                            /\ 2 * coin.decimals < Word32 => ti.decimals = coin.decimals
                            /\ \/ \E i \in DOMAIN supply[Named(rpc.name, ti.addr)] :
                                    supply[Named(rpc.name, ti.addr)][i] = ti.supply
                               \/ ti.supply = NoSupply /\ rpc.name = "Sui"
      BY DEF InfoIsOfCoin
    <2> DEFINE o == asks[c].obj
               coin == Named(rpc.name, heap[o].addr)
    <2>1. o \in 1..Len(heap) /\ Lower(heap[o].addr) = Norm(asks[c].addr)
      BY DEF RpcInv, AsksOK, AskOK
    <2>2. SaidByNode(heap[o])
      BY <2>1 DEF RpcInv, HeapOK
    <2>3. DOMAIN supply[coin] = 1..Len(supply[coin])
      <3>1. coin \in DOMAIN coins
        BY <2>2 DEF SaidByNode
      <3>2. supply \in [DOMAIN coins -> Seq(Nat \ {0})]
        BY DEF RpcInv, NodeOK
      <3> HIDE DEF coin
      <3>3. supply[coin] \in Seq(Nat \ {0})
        BY <3>1, <3>2
      <3> QED
        BY <3>3
    <2> QED
      BY <2>1, <2>2, <2>3 DEF SaidByNode
  <1>2. RpcInv => AnswersAreHonest
    BY <1>1 DEF AnswersAreHonest, RpcInv
  <1> QED
    BY <1>2, RpcInvAlways, PTL

(* The heap of objects only grows; a step changes at most one, by giving    *)
(* Sui's coin its supply.                                                   *)
LEMMA HeapOnlyGrows ==
    ASSUME RpcInv, [RpcNext]_rpcVars, NEW i \in DOMAIN heap
    PROVE  \/ heap'[i] = heap[i]
           \/ heap[i].supply = NoSupply /\ heap'[i] = [heap[i] EXCEPT !.supply = heap'[i].supply]
  <1>1. DOMAIN heap = 1..Len(heap) /\ Len(heap) \in Nat
    BY DEF RpcInv, HeapOK
  <1>2. ASSUME NEW ti, AddTokenInfo(ti) PROVE heap'[i] = heap[i]
    BY <1>1, <1>2 DEF AddTokenInfo, RpcInv, HeapOK
  <1>3. ASSUME NEW c \in Callers, SuiSupply(c), heap' # heap
        PROVE  \/ heap[i].supply = NoSupply /\ heap'[i] = [heap[i] EXCEPT !.supply = heap'[i].supply]
               \/ heap'[i] = heap[i]
    <2> DEFINE o == asks[c].obj
    <2>1. /\ o \in 1..Len(heap) /\ heap[o].addr = asks[c].addr /\ heap[o].supply = NoSupply
          /\ UNCHANGED <<rpc, coins, supply, cache>>
      BY <1>3 DEF SuiSupply, RpcInv, AsksOK, AskOK
    <2>2. heap' = [heap EXCEPT ![o].supply = Current(heap[o].addr)]
      BY <1>3, <2>1 DEF SuiSupply
    <2>3. /\ \A j \in 1..Len(heap) : j # o => heap'[j] = heap[j]
          /\ heap'[o] = [heap[o] EXCEPT !.supply = heap'[o].supply]
      BY <2>1, <2>2, SupplyFacts DEF RpcInv
    <2> QED
      BY <1>1, <2>1, <2>3
  <1>4. CASE UNCHANGED heap
    BY <1>4
  <1>5. \/ UNCHANGED heap
        \/ \E ti : AddTokenInfo(ti)
        \/ \E c \in Callers : SuiSupply(c)
    BY DEF RpcNext, rpcVars, Mint, TokenBegin, EvmGetTokenInfo, SolanaMetadata, SolanaGetTokenInfo,
           SuiGetTokenInfo, TonBegin, TonConnect, TonAssign,
           AskBalance, AskAllowance, AskStatus, Tell, RpcReturn
  <1> QED
    BY <1>2, <1>3, <1>4, <1>5

(* The first step of a call. *)
LEMMA FirstStep ==
    ASSUME RpcInv, [RpcNext]_rpcVars, NEW c \in Callers, asks[c].pc = "idle", asks'[c].pc # "idle"
    PROVE  \/ \E t \in Addresses : TokenBegin(c, t)
           \/ TonBegin(c)
           \/ \E op, said, coin, ret : Tell(c, op, said, coin, ret)
  <1>1. ASSUME NEW d \in Callers, NEW r, asks' = [asks EXCEPT ![d] = r] PROVE d = c
    BY <1>1 DEF RpcInv, AsksOK
  <1>2. ~UNCHANGED asks
    OBVIOUS
  <1>3. ASSUME NEW d \in Callers, NEW t \in Addresses, TokenBegin(d, t) PROVE d = c
    BY <1>1, <1>3 DEF TokenBegin
  <1>4. ASSUME NEW d \in Callers, TonBegin(d) PROVE d = c
    BY <1>1, <1>4 DEF TonBegin
  <1>5. ASSUME NEW d \in Callers, NEW op, NEW said, NEW coin, NEW ret, Tell(d, op, said, coin, ret)
        PROVE  d = c
    BY <1>1, <1>5 DEF Tell
  <1>6. ASSUME NEW d \in Callers, RpcReturn(d) PROVE FALSE
    <2>1. asks' = [asks EXCEPT ![d] = NoAsk] /\ NoAsk.pc = "idle"
      BY <1>6 DEF RpcReturn, NoAsk
    <2>2. d = c
      BY <1>1, <2>1
    <2> QED
      BY <2>1, <2>2 DEF RpcInv, AsksOK
  <1>7. ASSUME NEW d \in Callers, TonConnect(d) \/ TonAssign(d) PROVE FALSE
    <2>1. asks[d].pc # "idle" /\ \E r : asks' = [asks EXCEPT ![d] = r]
      BY <1>7 DEF TonConnect, TonAssign
    <2> QED
      BY <1>1, <2>1
  <1>8. ASSUME NEW d \in Callers,
               EvmGetTokenInfo(d) \/ SolanaMetadata(d) \/ SolanaGetTokenInfo(d) \/ SuiGetTokenInfo(d) \/ SuiSupply(d)
        PROVE  FALSE
    <2>1. asks[d].pc # "idle" /\ \E r : asks' = [asks EXCEPT ![d] = r]
      BY <1>8 DEF EvmGetTokenInfo, SolanaMetadata, SolanaGetTokenInfo, SuiGetTokenInfo, SuiSupply, Fail, Give
    <2> QED
      BY <1>1, <2>1
  <1> QED
    BY <1>2, <1>3, <1>4, <1>5, <1>6, <1>7, <1>8
       DEF RpcNext, rpcVars, Mint, AskBalance, AskAllowance, AskStatus

LEMMA TellSays ==
    ASSUME RpcInv, NEW c \in Callers, NEW op, NEW said, NEW coin, NEW ret, Tell(c, op, said, coin, ret)
    PROVE  asks'[c].pc # "ask" /\ (asks[c].pc = "idle" => rpc.name # "Ton")
  BY DEF Tell, Ready, RpcInv, AsksOK

LEMMA TonSays ==
    ASSUME RpcInv, NEW c \in Callers, TonBegin(c) PROVE asks'[c].pc # "ask"
  BY DEF TonBegin, RpcInv, AsksOK

(* What a caller has been given by GetTokenInfo stays as it was, though     *)
(* others hold the same object, and a coin that was found is never asked    *)
(* for again (token_info.go: the cache has no eviction).                    *)
THEOREM InfoStays == RpcSpec => InfoIsKept
  <1>1. ASSUME RpcInv, [RpcNext]_rpcVars, NEW c \in Callers,
               asks[c].pc = "idle", asks'[c].pc = "ask", NEW i \in DOMAIN heap
        PROVE  Lower(heap[i].addr) # Norm(asks'[c].addr)
    <2>1. \E t \in Addresses : TokenBegin(c, t)
      BY <1>1, FirstStep, TellSays, TonSays
    <2> PICK t \in Addresses : TokenBegin(c, t)
      BY <2>1
    <2> DEFINE addr == IF rpc.name = "Sui" THEN (IF t = Native THEN SuiCoin ELSE Trim(t)) ELSE t
    <2>2. asks'[c].addr = addr /\ Norm(addr) \notin DOMAIN cache
      BY <1>1 DEF TokenBegin, RpcInv, AsksOK
    <2> HIDE DEF addr
    <2>3. Lower(heap[i].addr) \in DOMAIN cache
      BY <1>1 DEF RpcInv, HeapOK, CacheOK
    <2> QED
      BY <2>2, <2>3
  <1>2. RpcSpec => InfoIsStable
    <2>1. RpcInv /\ [RpcNext]_rpcVars =>
            \A i \in DOMAIN heap :
              \/ heap'[i] = heap[i]
              \/ heap[i].supply = NoSupply /\ heap'[i] = [heap[i] EXCEPT !.supply = heap'[i].supply]
      BY HeapOnlyGrows
    <2> QED
      BY <2>1, RpcInvAlways, PTL DEF RpcSpec, InfoIsStable
  <1>3. RpcSpec => FoundIsKept
    <2>1. RpcInv /\ [RpcNext]_rpcVars =>
            \A c \in Callers : asks[c].pc = "idle" /\ asks'[c].pc = "ask" =>
              \A i \in DOMAIN heap : Lower(heap[i].addr) # Norm(asks'[c].addr)
      BY <1>1
    <2> QED
      BY <2>1, RpcInvAlways, PTL DEF RpcSpec, FoundIsKept
  <1> QED
    BY <1>2, <1>3 DEF InfoIsKept

(***************************************************************************)
(* TxBodies                                                                *)
(***************************************************************************)
(* The request and what was made of it. *)
Requested(kind, amount, dec, est, keysOk) ==
  /\ request = {[kind |-> kind, amount |-> amount, decimals |-> dec, est |-> est]}
  /\ made = Body(kind, amount, dec, est, keysOk)

Estimated(native, listed, code, est) ==
  /\ native /\ code.size = 0 => est.gas = PlainGas
  /\ request = {[kind |-> "estimate", native |-> native, code |-> code, est |-> est]}
  /\ made = RpcEstimateGas(native, listed, code, est)

RequestsAnswered ==
  \/ request = {}
  \/ \E kind \in Kinds, amount \in PaidAmounts, dec \in AskedDecimals, est \in Estimates, keysOk \in BOOLEAN :
       Requested(kind, amount, dec, est, keysOk)
  \/ \E native, listed \in BOOLEAN, code \in [err : BOOLEAN, size : CodeSizes], est \in Estimates :
       Estimated(native, listed, code, est)

(* The accounts of the create instruction, before and after the exchange. *)
For2022 == <<Key("payer"), Ata2022("wallet"), Key("wallet"), Key("mint"), Key("System"), Key("Token2022")>>

Instruction == [program : {Key("AtaProgram")}, amount : {0}, decimals : {-1}, accounts : {For2022}]
               \cup [program : {Key("Token2022")}, amount : Nat, decimals : {-1},
                     accounts : {<<Ata2022("sender"), Ata2022("receiver"), Key("sender")>>}]

BodyInv ==
  /\ RequestsAnswered
  /\ shared \in {NewCreateInstruction, For2022}
  /\ body \in Seq(Instruction)

LEMMA UnsignedFacts ==
    ASSUME NEW n \in Nat, NEW w \in Nat \ {0}
    PROVE  /\ Unsigned(n, w) \in Nat /\ Unsigned(n, w) <= n
           /\ n < w => Unsigned(n, w) = n
  BY SmallMod DEF Unsigned

LEMMA SignedFacts ==
    ASSUME NEW n \in Nat, NEW w \in Nat \ {0}
    PROVE  Signed(n, w) \in Int /\ Signed(n, w) <= n
  <1>1. n % w \in Nat /\ n % w <= n
    BY UnsignedFacts DEF Unsigned
  <1> QED
    BY <1>1 DEF Signed

(* Exchanging twice is exchanging once. *)
LEMMA ExchangeFacts ==
    ASSUME NEW s \in {NewCreateInstruction, For2022} PROVE CreateAtaAccounts(CreateAtaAccounts(s)) = For2022
  <1>1. CreateAtaAccounts(NewCreateInstruction) = For2022
    BY DEF CreateAtaAccounts, NewCreateInstruction, For2022, Key, Ata, Ata2022
  <1>2. CreateAtaAccounts(For2022) = For2022
    BY DEF CreateAtaAccounts, For2022, Key, Ata, Ata2022
  <1> QED
    BY <1>1, <1>2

LEMMA AddedFacts ==
    ASSUME BodyInv, NEW start \in Seq(Instruction), NEW amount \in PaidAmounts, NEW fails \in BOOLEAN
    PROVE  Added(start, amount, fails) \in Seq(Instruction)
  <1> DEFINE create == [program |-> Key("AtaProgram"), amount |-> 0, decimals |-> -1,
                        accounts |-> CreateAtaAccounts(CreateAtaAccounts(shared))]
             transfer == NewSpl2022TransferInstruction(amount)
  <1>1. create \in Instruction
    BY ExchangeFacts DEF BodyInv, Instruction
  <1>2. transfer \in Instruction
    <2>1. Unsigned(amount, Word64) \in Nat
      BY UnsignedFacts, BodyAssumption, WordAssumption
    <2>2. transfer = [program |-> Key("Token2022"), amount |-> Unsigned(amount, Word64), decimals |-> -1,
                      accounts |-> <<Ata2022("sender"), Ata2022("receiver"), Key("sender")>>]
      BY DEF NewSpl2022TransferInstruction, WrappedInstruction, TokenInst
    <2> QED
      BY <2>1, <2>2 DEF Instruction
  <1>3. Added(start, amount, fails) = start \o IF fails THEN <<create>> ELSE <<create, transfer>>
    BY DEF Added
  <1> HIDE DEF create, transfer
  <1>4. <<create>> \in Seq(Instruction) /\ <<create, transfer>> \in Seq(Instruction)
    BY <1>1, <1>2
  <1> QED
    BY <1>3, <1>4

LEMMA BodyInitInv == BodyInit => BodyInv
  BY DEF BodyInit, BodyInv, RequestsAnswered

LEMMA BodyStepInv == BodyInv /\ [BodyNext]_bodyVars => BodyInv'
  <1> SUFFICES ASSUME BodyInv, [BodyNext]_bodyVars PROVE BodyInv'
    OBVIOUS
  <1>1. ASSUME NEW k \in Kinds, NEW a \in PaidAmounts, NEW d \in AskedDecimals, NEW e \in Estimates,
               NEW keysOk \in BOOLEAN, MakeBody(k, a, d, e, keysOk)
        PROVE  BodyInv'
    <2>1. Requested(k, a, d, e, keysOk)'
      BY <1>1 DEF MakeBody, Requested
    <2> QED
      BY <1>1, <2>1 DEF MakeBody, BodyInv, RequestsAnswered
  <1>2. ASSUME NEW native \in BOOLEAN, NEW listed \in BOOLEAN, NEW code \in [err : BOOLEAN, size : CodeSizes],
               NEW e \in Estimates, AskGas(native, listed, code, e)
        PROVE  BodyInv'
    <2>1. Estimated(native, listed, code, e)'
      BY <1>2 DEF AskGas, Estimated
    <2> QED
      BY <1>2, <2>1 DEF AskGas, BodyInv, RequestsAnswered
  <1>3. ASSUME NEW a \in PaidAmounts, NEW fails \in BOOLEAN, AddInstructions(a, fails) \/ ToSolanaBody(a, fails)
        PROVE  BodyInv'
    <2>1. request' = {}
      BY <1>3 DEF AddInstructions, ToSolanaBody
    <2>2. shared' = For2022
      BY <1>3, ExchangeFacts DEF AddInstructions, ToSolanaBody, BodyInv
    <2>3. body \in Seq(Instruction) /\ <<>> \in Seq(Instruction)
      BY DEF BodyInv
    <2>4. body' \in {Added(body, a, fails), <<>>, Added(<<>>, a, fails)}
      BY <1>3 DEF AddInstructions, ToSolanaBody
    <2>5. body' \in Seq(Instruction)
      BY <2>3, <2>4, AddedFacts
    <2> QED
      BY <2>1, <2>2, <2>5 DEF BodyInv, RequestsAnswered
  <1>4. CASE UNCHANGED bodyVars
    BY <1>4 DEF bodyVars, BodyInv, RequestsAnswered, Requested, Estimated
  <1> QED
    BY <1>1, <1>2, <1>3, <1>4 DEF BodyNext

LEMMA BodyInvAlways == BodySpec => []BodyInv
  BY BodyInitInv, BodyStepInv, PTL DEF BodySpec

-----------------------------------------------------------------------------
(* What the functions of txn/evm and txn/btc make. *)
LEMMA MachineBody ==
    ASSUME NEW kind \in {"btc", "brc20"} \cup EvmKinds, NEW amount \in PaidAmounts, NEW dec, NEW est \in Estimates,
           NEW keysOk \in BOOLEAN, Requested(kind, amount, dec, est, keysOk)
    PROVE  /\ kind \in {"btc", "brc20"} => made.amount = Signed(amount, Word64)
           /\ kind \in EvmKinds => (made.err <=> est.err)
           /\ kind \in EvmKinds /\ ~est.err =>
                /\ made.value = IF kind = "evm" THEN amount ELSE 0
                /\ made.input = IF kind = "evm" THEN 0 ELSE Packed(amount)
                /\ made.gas = ((est.gas * 3) % Word64) \div 2
  <1>1. EstimateGas(est).err = est.err /\ EstimateGas(est).gas = ((est.gas * 3) % Word64) \div 2
    BY DEF EstimateGas, Estimates
  <1>2. CASE kind = "btc"
    BY <1>2 DEF Requested, Body, BtcTransferBody, EvmKinds
  <1>3. CASE kind = "brc20"
    BY <1>3 DEF Requested, Body, BRC20TransferBody, EvmKinds
  <1>4. CASE kind = "evm"
    BY <1>1, <1>4 DEF Requested, Body, EvmTransferBody, EvmToBody, NoBody, Estimates
  <1>5. CASE kind \in {"erc20", "approve"}
    BY <1>1, <1>5 DEF Requested, Body, Erc20TransferBody, Erc20ApproveBody, EvmToBody, NoBody, Estimates
  <1> QED
    BY <1>2, <1>3, <1>4, <1>5 DEF EvmKinds

(* The accounts a token instruction may name, per program. *)
Sides(program) ==
  IF program = Key("Token")
  THEN {Ata("sender"), Ata("receiver"), Key("mint"), Key("sender")}
  ELSE {Ata2022("sender"), Ata2022("receiver"), Key("mint"), Key("sender")}

LEMMA ReplaceFacts ==
    ASSUME NEW amount, NEW dec, NEW accounts,
           \A k \in DOMAIN accounts : accounts[k] # Key("Token")
    PROVE  \E inst :
             /\ ReplaceProgram(<<TokenInst(Key("Token"), amount, dec, accounts)>>) = <<inst>>
             /\ inst.program = Key("Token2022") /\ inst.amount = Unsigned(amount, Word64)
             /\ inst.decimals = dec /\ inst.accounts = [k \in DOMAIN accounts |-> accounts[k]]
  <1> DEFINE old == TokenInst(Key("Token"), amount, dec, accounts)
             inst == ReplacedIn(old)
  <1>1. old = [program |-> Key("Token"), amount |-> Unsigned(amount, Word64), decimals |-> dec, accounts |-> accounts]
    BY DEF TokenInst
  <1>2. [k \in DOMAIN old.accounts |-> Replaced(old.accounts[k])] = [k \in DOMAIN accounts |-> accounts[k]]
    BY <1>1 DEF Replaced
  <1>3. Replaced(old.program) = Key("Token2022")
    BY <1>1 DEF Replaced
  <1>4. inst.program = Key("Token2022")
    BY <1>1, <1>3 DEF ReplacedIn
  <1>5. inst.amount = Unsigned(amount, Word64) /\ inst.decimals = dec
    BY <1>1 DEF ReplacedIn
  <1>6. inst.accounts = [k \in DOMAIN old.accounts |-> Replaced(old.accounts[k])]
    BY <1>1 DEF ReplacedIn
  <1> HIDE DEF old
  <1>7. ReplaceProgram(<<old>>) = <<inst>>
    BY DEF ReplaceProgram
  <1> QED
    BY <1>2, <1>4, <1>5, <1>6, <1>7 DEF old

(* What the functions of txn/solana make: one instruction. *)
LEMMA SolanaBodies ==
    ASSUME NEW kind \in SolanaKinds, NEW amount \in PaidAmounts, NEW dec \in AskedDecimals, NEW est,
           NEW keysOk \in BOOLEAN, Requested(kind, amount, dec, est, keysOk), ~made.err
    PROVE  \E inst :
             /\ made.insts = <<inst>> /\ inst.amount = Unsigned(amount, Word64)
             /\ kind = "sol" => inst.program = Key("System") /\ Range(inst.accounts) = {Key("sender"), Key("receiver")}
             /\ kind \in {"spl", "splApprove"} =>
                  inst.program = Key("Token") /\ Range(inst.accounts) \subseteq Sides(Key("Token"))
             /\ kind \in {"spl2022", "spl2022Approve"} =>
                  inst.program = Key("Token2022") /\ Range(inst.accounts) \subseteq Sides(Key("Token2022"))
             /\ kind # "sol" /\ dec >= 0 => inst.decimals = Unsigned(dec, Word8)
  <1> DEFINE all == <<Ata("sender"), Key("mint"), Ata("receiver"), Key("sender")>>
             few == <<Ata("sender"), Ata("receiver"), Key("sender")>>
             all22 == <<Ata2022("sender"), Key("mint"), Ata2022("receiver"), Key("sender")>>
             few22 == <<Ata2022("sender"), Ata2022("receiver"), Key("sender")>>
  <1>1. /\ Range(all) \subseteq Sides(Key("Token")) /\ Range(few) \subseteq Sides(Key("Token"))
    BY DEF Range, Sides
  <1>2. /\ Range(all22) \subseteq Sides(Key("Token2022")) /\ Range(few22) \subseteq Sides(Key("Token2022"))
        /\ [k \in DOMAIN all22 |-> all22[k]] = all22 /\ [k \in DOMAIN few22 |-> few22[k]] = few22
        /\ \A k \in DOMAIN all22 : all22[k] # Key("Token")
        /\ \A k \in DOMAIN few22 : few22[k] # Key("Token")
    BY DEF Range, Sides, Key, Ata2022
  <1>3. made = [err |-> FALSE, insts |-> made.insts] /\ keysOk
    BY DEF Requested, Body, SolanaKinds, NoBody
  <1>4. CASE kind = "sol"
    <2>1. made.insts = <<TokenInst(Key("System"), amount, -1, <<Key("sender"), Key("receiver")>>)>>
      BY <1>3, <1>4 DEF Requested, Body, SolanaTransferBody
    <2>2. Range(<<Key("sender"), Key("receiver")>>) = {Key("sender"), Key("receiver")}
      BY DEF Range
    <2> QED
      BY <1>4, <2>1, <2>2 DEF TokenInst
  <1>5. CASE kind = "splApprove"
    <2>1. made.insts = <<TokenInst(Key("Token"), amount, Unsigned(dec, Word8), all)>>
      BY <1>3, <1>5 DEF Requested, Body, SplApproveBody
    <2> QED
      BY <1>1, <1>5, <2>1 DEF TokenInst
  <1>6. CASE kind = "spl"
    <2>1. made.insts = << IF dec >= 0 THEN TokenInst(Key("Token"), amount, Unsigned(dec, Word8), all)
                          ELSE TokenInst(Key("Token"), amount, -1, few) >>
      BY <1>3, <1>6 DEF Requested, Body, SqlTransferBody
    <2> QED
      BY <1>1, <1>6, <2>1 DEF TokenInst
  <1>7. CASE kind = "spl2022Approve"
    <2>1. made.insts = ReplaceProgram(<<TokenInst(Key("Token"), amount, Unsigned(dec, Word8), all22)>>)
      BY <1>3, <1>7 DEF Requested, Body, Spl2022ApproveBody
    <2> QED
      BY <1>2, <1>7, <2>1, ReplaceFacts
  <1>8. CASE kind = "spl2022"
    <2>1. made.insts = ReplaceProgram(
             << IF dec >= 0 THEN TokenInst(Key("Token"), amount, Unsigned(dec, Word8), all22)
                ELSE TokenInst(Key("Token"), amount, -1, few22) >>)
      BY <1>3, <1>8 DEF Requested, Body, Sql2022TransferBody
    <2> QED
      BY <1>2, <1>8, <2>1, ReplaceFacts
  <1> QED
    BY <1>4, <1>5, <1>6, <1>7, <1>8 DEF SolanaKinds

-----------------------------------------------------------------------------
(* A body (txn/btc, txn/evm, txn/solana) pays the amount of its request in  *)
(* the one place where the chain looks for it, if there is room for it, and *)
(* never more if there is not: for every amount and every width of integers.*)
THEOREM BodiesPay == BodySpec => []NeverPaysMore
  <1>1. ASSUME BodyInv, NEW q \in request, ~made.err, q.kind # "estimate"
        PROVE  /\ Paid(q.kind) <= q.amount
               /\ Fits(q.kind, q.amount) => Paid(q.kind) = q.amount
               /\ q.kind \in EvmKinds => made.value + made.input = Paid(q.kind)
    <2>1. PICK kind \in Kinds, amount \in PaidAmounts, dec \in AskedDecimals, est \in Estimates, keysOk \in BOOLEAN :
            Requested(kind, amount, dec, est, keysOk)
      BY <1>1 DEF BodyInv, RequestsAnswered, Estimated
    <2>2. q.kind = kind /\ q.amount = amount
      BY <1>1, <2>1 DEF Requested
    <2>3. amount \in Nat /\ Word64 \in Nat \ {0} /\ Word256 \in Nat \ {0}
      BY BodyAssumption, WordAssumption
    <2>4. CASE kind \in {"btc", "brc20"}
      <3>1. Paid(kind) = Signed(amount, Word64) /\ kind \notin EvmKinds
        BY <2>1, <2>4, MachineBody DEF Paid, SolanaKinds, EvmKinds
      <3>2. Fits(kind, amount) => 2 * amount < Word64
        BY <2>4 DEF Fits, SolanaKinds
      <3> QED
        BY <2>2, <2>3, <3>1, <3>2, SignedFacts, SmallSigned
    <2>5. CASE kind = "evm"
      <3>1. ~est.err
        BY <1>1, <2>1, <2>5, MachineBody DEF EvmKinds
      <3>2. made.value = amount /\ made.input = 0
        BY <2>1, <2>5, <3>1, MachineBody DEF EvmKinds
      <3>3. Paid(kind) = amount
        BY <2>5, <3>2 DEF Paid, SolanaKinds
      <3> QED
        BY <2>2, <2>3, <3>2, <3>3
    <2>6. CASE kind \in {"erc20", "approve"}
      <3>1. ~est.err
        BY <1>1, <2>1, <2>6, MachineBody DEF EvmKinds
      <3>2. made.value = 0 /\ made.input = Unsigned(amount, Word256)
        BY <2>1, <2>6, <3>1, MachineBody DEF EvmKinds, Packed
      <3>3. Paid(kind) = Unsigned(amount, Word256)
        BY <2>6, <3>2 DEF Paid, SolanaKinds
      <3>4. Fits(kind, amount) => amount < Word256
        BY <2>6 DEF Fits, SolanaKinds
      <3>5. Paid(kind) \in Nat /\ Paid(kind) <= amount /\ (amount < Word256 => Paid(kind) = amount)
        BY <2>3, <3>3, UnsignedFacts
      <3> QED
        BY <2>2, <3>2, <3>3, <3>4, <3>5
    <2>7. CASE kind \in SolanaKinds
      <3>1. PICK inst : made.insts = <<inst>> /\ inst.amount = Unsigned(amount, Word64)
        BY <1>1, <2>1, <2>7, SolanaBodies
      <3>2. Paid(kind) = Unsigned(amount, Word64) /\ kind \notin EvmKinds
        BY <2>7, <3>1 DEF Paid, EvmKinds, SolanaKinds
      <3>3. Fits(kind, amount) => amount < Word64
        BY <2>7 DEF Fits, SolanaKinds
      <3> QED
        BY <2>2, <2>3, <3>2, <3>3, UnsignedFacts
    <2> QED
      BY <2>4, <2>5, <2>6, <2>7 DEF Kinds, EvmKinds
  <1>2. BodyInv => NeverPaysMore
    BY <1>1 DEF NeverPaysMore
  <1> QED
    BY <1>2, BodyInvAlways, PTL

(* The chain can run what was made (txn/solana, util/svm_instruction.go):   *)
(* the accounts belong to the program that is called, and the gas suffices. *)
LEMMA ProgramsLemma == BodyInv => ProgramsDoNotMix
  <1> SUFFICES ASSUME BodyInv, NEW q \in request, q.kind \in SolanaKinds, ~made.err, NEW i \in DOMAIN made.insts
               PROVE  LET inst == made.insts[i]
                          new == q.kind \in {"spl2022", "spl2022Approve"}
                          names == {inst.program} \cup Range(inst.accounts)
                      IN  /\ new => names \cap {Key("Token"), Ata("sender"), Ata("receiver")} = {}
                          /\ ~new => names \cap {Key("Token2022"), Ata2022("sender"), Ata2022("receiver")} = {}
                          /\ q.decimals \in 0..(Word8 - 1) /\ q.kind # "sol" => inst.decimals = q.decimals
    BY DEF ProgramsDoNotMix
  <1>1. PICK kind \in Kinds, amount \in PaidAmounts, dec \in AskedDecimals, est \in Estimates, keysOk \in BOOLEAN :
          Requested(kind, amount, dec, est, keysOk)
    BY DEF BodyInv, RequestsAnswered, Estimated, SolanaKinds
  <1>2. q.kind = kind /\ q.decimals = dec
    BY <1>1 DEF Requested
  <1>3. PICK inst :
          /\ made.insts = <<inst>>
          /\ kind = "sol" => inst.program = Key("System") /\ Range(inst.accounts) = {Key("sender"), Key("receiver")}
          /\ kind \in {"spl", "splApprove"} =>
               inst.program = Key("Token") /\ Range(inst.accounts) \subseteq Sides(Key("Token"))
          /\ kind \in {"spl2022", "spl2022Approve"} =>
               inst.program = Key("Token2022") /\ Range(inst.accounts) \subseteq Sides(Key("Token2022"))
          /\ kind # "sol" /\ dec >= 0 => inst.decimals = Unsigned(dec, Word8)
    BY <1>1, <1>2, SolanaBodies
  <1>4. made.insts[i] = inst
    BY <1>3
  <1>5. dec \in 0..(Word8 - 1) => dec \in Nat /\ Unsigned(dec, Word8) = dec
    BY UnsignedFacts, WordAssumption
  <1>6. Sides(Key("Token")) \cap {Key("Token2022"), Ata2022("sender"), Ata2022("receiver")} = {}
    BY DEF Sides, Key, Ata, Ata2022
  <1>7. Sides(Key("Token2022")) \cap {Key("Token"), Ata("sender"), Ata("receiver")} = {}
    BY DEF Sides, Key, Ata, Ata2022
  <1>8. kind \in {"spl2022", "spl2022Approve"} =>
          ({inst.program} \cup Range(inst.accounts)) \cap {Key("Token"), Ata("sender"), Ata("receiver")} = {}
    <2>1. Key("Token2022") \notin {Key("Token"), Ata("sender"), Ata("receiver")}
      BY DEF Key, Ata
    <2> QED
      BY <1>3, <1>7, <2>1
  <1>9. kind \in {"sol", "spl", "splApprove"} =>
          ({inst.program} \cup Range(inst.accounts)) \cap {Key("Token2022"), Ata2022("sender"), Ata2022("receiver")} = {}
    <2>1. {Key("Token"), Key("System"), Key("sender"), Key("receiver")}
            \cap {Key("Token2022"), Ata2022("sender"), Ata2022("receiver")} = {}
      BY DEF Key, Ata2022
    <2> QED
      BY <1>3, <1>6, <2>1
  <1>10. dec \in 0..(Word8 - 1) /\ kind # "sol" => inst.decimals = dec
    BY <1>3, <1>5
  <1> QED
    BY <1>2, <1>4, <1>8, <1>9, <1>10 DEF SolanaKinds

LEMMA GasLemma == BodyInv => GasHasHeadroom
  <1> SUFFICES ASSUME BodyInv, NEW q \in request, q.kind \in EvmKinds
               PROVE  /\ q.est.err <=> made.err
                      /\ ~made.err /\ 3 * q.est.gas < Word64 => 2 * made.gas \in {3 * q.est.gas, 3 * q.est.gas - 1}
    BY DEF GasHasHeadroom
  <1>1. PICK kind \in Kinds, amount \in PaidAmounts, dec \in AskedDecimals, est \in Estimates, keysOk \in BOOLEAN :
          Requested(kind, amount, dec, est, keysOk)
    BY DEF BodyInv, RequestsAnswered, Estimated, EvmKinds
  <1>2. q.kind = kind /\ q.est = est
    BY <1>1 DEF Requested
  <1>3. (made.err <=> est.err) /\ (~est.err => made.gas = ((est.gas * 3) % Word64) \div 2)
    <2>1. kind \in EvmKinds /\ kind \in {"btc", "brc20"} \cup EvmKinds
      BY <1>2
    <2>2. made.err <=> est.err
      BY <1>1, <2>1, MachineBody
    <2>3. ~est.err => made.gas = ((est.gas * 3) % Word64) \div 2
      BY <1>1, <2>1, MachineBody
    <2> QED
      BY <2>2, <2>3
  <1>4. est.gas \in Nat /\ Word64 \in Nat \ {0}
    BY BodyAssumption, WordAssumption DEF Estimates
  <1>5. 3 * est.gas < Word64 => (est.gas * 3) % Word64 = 3 * est.gas
    <2>1. est.gas * 3 \in Nat /\ est.gas * 3 = 3 * est.gas
      BY <1>4
    <2> QED
      BY <1>4, <2>1, SmallMod
  <1>6. ASSUME NEW g \in Nat PROVE 2 * (g \div 2) \in {g, g - 1}
    OBVIOUS
  <1>7. 3 * est.gas \in Nat
    BY <1>4
  <1> QED
    BY <1>2, <1>3, <1>5, <1>6, <1>7

LEMMA EstimateLemma == BodyInv => EstimateIsEnough
  <1> SUFFICES ASSUME BodyInv, NEW q \in request, q.kind = "estimate", ~made.err
               PROVE  made.gas >= q.est.gas \/ (q.native /\ q.code.size \in 1..200)
    BY DEF EstimateIsEnough
  <1>1. PICK native \in BOOLEAN, listed \in BOOLEAN, code \in [err : BOOLEAN, size : CodeSizes], est \in Estimates :
          Estimated(native, listed, code, est)
    <2>1. ~\E kind \in Kinds, amount \in PaidAmounts, dec \in AskedDecimals, est \in Estimates, keysOk \in BOOLEAN :
             Requested(kind, amount, dec, est, keysOk)
      BY DEF Requested, Kinds, EvmKinds, SolanaKinds
    <2> QED
      BY <2>1 DEF BodyInv, RequestsAnswered
  <1>2. q.native = native /\ q.code = code /\ q.est = est
    BY <1>1 DEF Estimated
  <1>3. est.gas \in Nat /\ code.size \in Nat /\ PlainGas \in Nat
    BY BodyAssumption DEF Estimates
  <1>4. CASE native /\ listed /\ ~IsContractAddress(code.size)
    <2>1. made.gas = PlainGas
      BY <1>1, <1>4 DEF Estimated, RpcEstimateGas, EvmToBody, NoBody
    <2>2. code.size \in 0..200
      BY <1>3, <1>4 DEF IsContractAddress
    <2>3. code.size = 0 => est.gas = PlainGas
      BY <1>1, <1>4 DEF Estimated
    <2> QED
      BY <1>2, <1>3, <1>4, <2>1, <2>2, <2>3
  <1>5. CASE ~(native /\ listed /\ ~IsContractAddress(code.size))
    <2>1. made.gas = est.gas
      BY <1>1, <1>5 DEF Estimated, RpcEstimateGas, EvmToBody, NoBody
    <2> QED
      BY <1>2, <1>3, <2>1
  <1> QED
    BY <1>4, <1>5

LEMMA CreateLemma == BodyInv => CreateAtaIsFor2022
  BY DEF BodyInv, CreateAtaIsFor2022, Instruction, For2022, Key

(* Of every body that is made, for any amounts, decimals, gas and code, and *)
(* however often the shared create instruction is added after whatever      *)
(* failures: see ProgramsDoNotMix, GasHasHeadroom, EstimateIsEnough and     *)
(* CreateAtaIsFor2022.                                                      *)
THEOREM BodiesRun == BodySpec => []BodiesAreExecutable
  <1>1. BodyInv => BodiesAreExecutable
    BY ProgramsLemma, GasLemma, EstimateLemma, CreateLemma DEF BodiesAreExecutable
  <1> QED
    BY <1>1, BodyInvAlways, PTL
=============================================================================

------------------------ MODULE TokenRegistryProofs -------------------------
(***************************************************************************)
(* The lookups of the token manager agree, a listed token that scans is    *)
(* never hidden by a gas token, and every chain that stays has its gas     *)
(* token: for any tables, any edits, faults, rows that do not scan and     *)
(* added tokens, with blanks around their texts or without.                *)
(***************************************************************************)
EXTENDS TokenRegistry, TLAPS

-----------------------------------------------------------------------------
(* The indexes of one manager: every token is under its own keys, and what  *)
(* one index has, the others have.                                          *)
Fields == {"names", "addrs", "idNames", "idAddrs", "all"}

NamesOK(x) ==
  \A k \in DOMAIN x.names :
    /\ k = <<x.names[k].chain, x.names[k].name>>
    /\ <<x.names[k].chain, x.names[k].addr>> \in DOMAIN x.addrs

AddrsOK(x) ==
  \A k \in DOMAIN x.addrs :
    /\ k = <<x.addrs[k].chain, x.addrs[k].addr>>
    /\ <<x.addrs[k].chain, x.addrs[k].name>> \in DOMAIN x.names

IdNamesOK(x) ==
  \A k \in DOMAIN x.idNames :
    /\ k = <<x.idNames[k].cid, x.idNames[k].name>>
    /\ <<x.idNames[k].cid, x.idNames[k].addr>> \in DOMAIN x.idAddrs
    /\ <<x.idNames[k].chain, x.idNames[k].name>> \in DOMAIN x.names

IdAddrsOK(x) ==
  \A k \in DOMAIN x.idAddrs :
    /\ k = <<x.idAddrs[k].cid, x.idAddrs[k].addr>>
    /\ <<x.idAddrs[k].cid, x.idAddrs[k].name>> \in DOMAIN x.idNames
    /\ <<x.idAddrs[k].chain, x.idAddrs[k].addr>> \in DOMAIN x.addrs

Coherent(x) ==
  DOMAIN x = Fields /\ NamesOK(x) /\ AddrsOK(x) /\ IdNamesOK(x) /\ IdAddrsOK(x)

(* Every token is trimmed, save those of S, which are in no index by chain  *)
(* id.                                                                      *)
Trimmed(x, S) ==
  /\ \A k \in DOMAIN x.names : Tidy(x.names[k]) \/ x.names[k] \in S
  /\ \A k \in DOMAIN x.addrs : Tidy(x.addrs[k]) \/ x.addrs[k] \in S
  /\ \A k \in DOMAIN x.idNames : Tidy(x.idNames[k])
  /\ \A k \in DOMAIN x.idAddrs : Tidy(x.idAddrs[k])

(* What has been trimmed has no blanks around it any more. *)
LEMMA TrimIsBare == \A x : Bare(Trim(x))
  BY TableAssumption DEF Trim, Bare

LEMMA TrimTokenIsTidy == \A t : Tidy(TrimToken(t))
  BY TrimIsBare DEF TrimToken, Tidy

LEMMA FreshIsTidy ==
    ASSUME NEW t
    PROVE  Tidy(Fresh(t))
  <1>1. /\ Fresh(t).chain = Trim(t.chain) /\ Fresh(t).name = Trim(t.name)
        /\ Fresh(t).addr = Trim(t.addr)
    BY DEF Fresh, TrimToken
  <1> QED
    BY <1>1, TrimIsBare DEF Tidy

(* An assignment to a map. *)
LEMMA PutFacts ==
    ASSUME NEW index, NEW key, NEW t
    PROVE  /\ DOMAIN Put(index, key, t) = DOMAIN index \cup {key}
           /\ Put(index, key, t)[key] = t
           /\ \A k \in DOMAIN index \ {key} : Put(index, key, t)[k] = index[k]
  BY DEF Put

LEMMA NoTokensCoherent == Coherent(NoTokens) /\ \A S : Trimmed(NoTokens, S)
  BY DEF Trimmed, Coherent, NamesOK, AddrsOK, IdNamesOK, IdAddrsOK, NoTokens, Fields

(* What a token is put into. *)
LEMMA PutByNameFacts ==
    ASSUME NEW x, DOMAIN x = Fields, NEW t
    PROVE  /\ DOMAIN PutByName(x, t) = Fields
           /\ PutByName(x, t).names = Put(x.names, <<t.chain, t.name>>, t)
           /\ PutByName(x, t).addrs = Put(x.addrs, <<t.chain, t.addr>>, t)
           /\ PutByName(x, t).idNames = x.idNames /\ PutByName(x, t).idAddrs = x.idAddrs
  BY DEF PutByName, Fields

LEMMA PutListedFacts ==
    ASSUME NEW x, DOMAIN x = Fields, NEW v
    PROVE  LET y == [x EXCEPT !.all = v]
           IN  /\ DOMAIN y = Fields
               /\ y.names = x.names /\ y.addrs = x.addrs
               /\ y.idNames = x.idNames /\ y.idAddrs = x.idAddrs
  BY DEF Fields

LEMMA PutByIdFacts ==
    ASSUME NEW x, DOMAIN x = Fields, NEW t
    PROVE  LET y == [x EXCEPT !.idNames = Put(@, <<t.cid, t.name>>, t),
                              !.idAddrs = Put(@, <<t.cid, t.addr>>, t)]
           IN  /\ DOMAIN y = Fields
               /\ y.names = x.names /\ y.addrs = x.addrs
               /\ y.idNames = Put(x.idNames, <<t.cid, t.name>>, t)
               /\ y.idAddrs = Put(x.idAddrs, <<t.cid, t.addr>>, t)
  BY DEF Fields

(* A token that goes into the indexes by chain name leaves them coherent: a *)
(* token it displaces in one of them shares the key that stays in the other.*)
LEMMA CoherentByName ==
    ASSUME NEW x, Coherent(x), NEW t PROVE Coherent(PutByName(x, t))
  <1> DEFINE y == PutByName(x, t)
  <1>1. DOMAIN x = Fields
    BY DEF Coherent
  <1>2. /\ DOMAIN y = Fields /\ y.idNames = x.idNames /\ y.idAddrs = x.idAddrs
        /\ y.names = Put(x.names, <<t.chain, t.name>>, t)
        /\ y.addrs = Put(x.addrs, <<t.chain, t.addr>>, t)
    BY <1>1, PutByNameFacts
  <1> HIDE DEF y
  <1>3. /\ DOMAIN y.names = DOMAIN x.names \cup {<<t.chain, t.name>>}
        /\ y.names[<<t.chain, t.name>>] = t
        /\ \A k \in DOMAIN x.names \ {<<t.chain, t.name>>} : y.names[k] = x.names[k]
    BY <1>2 DEF Put
  <1>4. /\ DOMAIN y.addrs = DOMAIN x.addrs \cup {<<t.chain, t.addr>>}
        /\ y.addrs[<<t.chain, t.addr>>] = t
        /\ \A k \in DOMAIN x.addrs \ {<<t.chain, t.addr>>} : y.addrs[k] = x.addrs[k]
    BY <1>2 DEF Put
  <1>5. ASSUME NEW k \in DOMAIN y.names
        PROVE  /\ k = <<y.names[k].chain, y.names[k].name>>
               /\ <<y.names[k].chain, y.names[k].addr>> \in DOMAIN y.addrs
    <2>1. CASE k = <<t.chain, t.name>>
      BY <1>3, <1>4, <2>1
    <2>2. CASE k # <<t.chain, t.name>>
      BY <1>3, <1>4, <1>5, <2>2 DEF Coherent, NamesOK
    <2> QED
      BY <2>1, <2>2
  <1>6. ASSUME NEW k \in DOMAIN y.addrs
        PROVE  /\ k = <<y.addrs[k].chain, y.addrs[k].addr>>
               /\ <<y.addrs[k].chain, y.addrs[k].name>> \in DOMAIN y.names
    <2>1. CASE k = <<t.chain, t.addr>>
      BY <1>3, <1>4, <2>1
    <2>2. CASE k # <<t.chain, t.addr>>
      BY <1>3, <1>4, <1>6, <2>2 DEF Coherent, AddrsOK
    <2> QED
      BY <2>1, <2>2
  <1>7. IdNamesOK(y)
    BY <1>2, <1>3 DEF Coherent, IdNamesOK
  <1>8. IdAddrsOK(y)
    BY <1>2, <1>4 DEF Coherent, IdAddrsOK
  <1>9. NamesOK(y)
    BY <1>5 DEF NamesOK
  <1>10. AddrsOK(y)
    BY <1>6 DEF AddrsOK
  <1> QED
    BY <1>2, <1>7, <1>8, <1>9, <1>10 DEF Coherent, y

LEMMA CoherentListed ==
    ASSUME NEW x, Coherent(x), NEW v PROVE Coherent([x EXCEPT !.all = v])
  <1> DEFINE y == [x EXCEPT !.all = v]
  <1>1. /\ DOMAIN y = Fields /\ y.names = x.names /\ y.addrs = x.addrs
        /\ y.idNames = x.idNames /\ y.idAddrs = x.idAddrs
    BY PutListedFacts DEF Coherent
  <1> HIDE DEF y
  <1>2. Coherent(y)
    BY <1>1 DEF Coherent, NamesOK, AddrsOK, IdNamesOK, IdAddrsOK
  <1> QED
    BY <1>2 DEF y

LEMMA TrimmedByName ==
    ASSUME NEW x, DOMAIN x = Fields, NEW S, Trimmed(x, S), NEW t, Tidy(t) \/ t \in S
    PROVE  Trimmed(PutByName(x, t), S)
  <1> DEFINE y == PutByName(x, t)
  <1>1. /\ y.idNames = x.idNames /\ y.idAddrs = x.idAddrs
        /\ y.names = Put(x.names, <<t.chain, t.name>>, t)
        /\ y.addrs = Put(x.addrs, <<t.chain, t.addr>>, t)
    BY PutByNameFacts
  <1> HIDE DEF y
  <1>2. \A k \in DOMAIN y.names : y.names[k] = t \/ (k \in DOMAIN x.names /\ y.names[k] = x.names[k])
    BY <1>1 DEF Put
  <1>3. \A k \in DOMAIN y.addrs : y.addrs[k] = t \/ (k \in DOMAIN x.addrs /\ y.addrs[k] = x.addrs[k])
    BY <1>1 DEF Put
  <1>4. Trimmed(y, S)
    BY <1>1, <1>2, <1>3 DEF Trimmed
  <1> QED
    BY <1>4 DEF y

LEMMA TrimmedAll == \A x, S : Trimmed(x, {}) => Trimmed(x, S)
  BY DEF Trimmed

LEMMA TrimmedListed ==
    ASSUME NEW x, DOMAIN x = Fields, NEW S, Trimmed(x, S), NEW v
    PROVE  Trimmed([x EXCEPT !.all = v], S)
  <1> DEFINE y == [x EXCEPT !.all = v]
  <1>1. /\ y.names = x.names /\ y.addrs = x.addrs
        /\ y.idNames = x.idNames /\ y.idAddrs = x.idAddrs
    BY PutListedFacts
  <1> HIDE DEF y
  <1>2. Trimmed(y, S)
    BY <1>1 DEF Trimmed
  <1> QED
    BY <1>2 DEF y

LEMMA TrimmedById ==
    ASSUME NEW x, DOMAIN x = Fields, NEW S, Trimmed(x, S), NEW t, Tidy(t)
    PROVE  Trimmed([x EXCEPT !.idNames = Put(@, <<t.cid, t.name>>, t),
                             !.idAddrs = Put(@, <<t.cid, t.addr>>, t)], S)
  <1> DEFINE y == [x EXCEPT !.idNames = Put(@, <<t.cid, t.name>>, t),
                            !.idAddrs = Put(@, <<t.cid, t.addr>>, t)]
  <1>1. /\ y.names = x.names /\ y.addrs = x.addrs
        /\ y.idNames = Put(x.idNames, <<t.cid, t.name>>, t)
        /\ y.idAddrs = Put(x.idAddrs, <<t.cid, t.addr>>, t)
    BY PutByIdFacts
  <1> HIDE DEF y
  <1>2. \A k \in DOMAIN y.idNames :
          y.idNames[k] = t \/ (k \in DOMAIN x.idNames /\ y.idNames[k] = x.idNames[k])
    BY <1>1 DEF Put
  <1>3. \A k \in DOMAIN y.idAddrs :
          y.idAddrs[k] = t \/ (k \in DOMAIN x.idAddrs /\ y.idAddrs[k] = x.idAddrs[k])
    BY <1>1 DEF Put
  <1>4. Trimmed(y, S)
    BY <1>1, <1>2, <1>3 DEF Trimmed
  <1> QED
    BY <1>4 DEF y

(* Into the indexes by chain id goes only what is in those by name. *)
LEMMA CoherentById ==
    ASSUME NEW x, Coherent(x), NEW t,
           <<t.chain, t.name>> \in DOMAIN x.names, <<t.chain, t.addr>> \in DOMAIN x.addrs
    PROVE  Coherent([x EXCEPT !.idNames = Put(@, <<t.cid, t.name>>, t),
                              !.idAddrs = Put(@, <<t.cid, t.addr>>, t)])
  <1> DEFINE y == [x EXCEPT !.idNames = Put(@, <<t.cid, t.name>>, t),
                            !.idAddrs = Put(@, <<t.cid, t.addr>>, t)]
  <1>1. /\ DOMAIN y = Fields /\ y.names = x.names /\ y.addrs = x.addrs
        /\ y.idNames = Put(x.idNames, <<t.cid, t.name>>, t)
        /\ y.idAddrs = Put(x.idAddrs, <<t.cid, t.addr>>, t)
    BY PutByIdFacts DEF Coherent
  <1> HIDE DEF y
  <1>2. /\ DOMAIN y.idNames = DOMAIN x.idNames \cup {<<t.cid, t.name>>}
        /\ y.idNames[<<t.cid, t.name>>] = t
        /\ \A k \in DOMAIN x.idNames \ {<<t.cid, t.name>>} : y.idNames[k] = x.idNames[k]
    BY <1>1 DEF Put
  <1>3. /\ DOMAIN y.idAddrs = DOMAIN x.idAddrs \cup {<<t.cid, t.addr>>}
        /\ y.idAddrs[<<t.cid, t.addr>>] = t
        /\ \A k \in DOMAIN x.idAddrs \ {<<t.cid, t.addr>>} : y.idAddrs[k] = x.idAddrs[k]
    BY <1>1 DEF Put
  <1>4. ASSUME NEW k \in DOMAIN y.idNames
        PROVE  /\ k = <<y.idNames[k].cid, y.idNames[k].name>>
               /\ <<y.idNames[k].cid, y.idNames[k].addr>> \in DOMAIN y.idAddrs
               /\ <<y.idNames[k].chain, y.idNames[k].name>> \in DOMAIN y.names
    <2>1. CASE k = <<t.cid, t.name>>
      BY <1>1, <1>2, <1>3, <2>1
    <2>2. CASE k # <<t.cid, t.name>>
      <3>1. k \in DOMAIN x.idNames /\ y.idNames[k] = x.idNames[k]
        BY <1>2, <1>4, <2>2
      <3> QED
        BY <1>1, <1>3, <3>1 DEF Coherent, IdNamesOK
    <2> QED
      BY <2>1, <2>2
  <1>5. ASSUME NEW k \in DOMAIN y.idAddrs
        PROVE  /\ k = <<y.idAddrs[k].cid, y.idAddrs[k].addr>>
               /\ <<y.idAddrs[k].cid, y.idAddrs[k].name>> \in DOMAIN y.idNames
               /\ <<y.idAddrs[k].chain, y.idAddrs[k].addr>> \in DOMAIN y.addrs
    <2>1. CASE k = <<t.cid, t.addr>>
      BY <1>1, <1>2, <1>3, <2>1
    <2>2. CASE k # <<t.cid, t.addr>>
      <3>1. k \in DOMAIN x.idAddrs /\ y.idAddrs[k] = x.idAddrs[k]
        BY <1>3, <1>5, <2>2
      <3> QED
        BY <1>1, <1>2, <3>1 DEF Coherent, IdAddrsOK
    <2> QED
      BY <2>1, <2>2
  <1>6. NamesOK(y) /\ AddrsOK(y)
    BY <1>1 DEF Coherent, NamesOK, AddrsOK
  <1>7. IdNamesOK(y)
    BY <1>4 DEF IdNamesOK
  <1>8. IdAddrsOK(y)
    BY <1>5 DEF IdAddrsOK
  <1>9. Coherent(y)
    BY <1>1, <1>6, <1>7, <1>8 DEF Coherent
  <1> QED
    BY <1>9 DEF y

(* A row of the table. *)
LEMMA PutRowFacts ==
    ASSUME NEW x, Coherent(x), NEW t
    PROVE  /\ Coherent(PutRow(x, t)) /\ PutRow(x, t).names = Put(x.names, <<t.chain, t.name>>, t)
           /\ Trimmed(x, {}) /\ Tidy(t) => Trimmed(PutRow(x, t), {})
  <1> DEFINE n == PutByName(x, t)
             y == [n EXCEPT !.all = @ \cup {t}]
             z == [y EXCEPT !.idNames = Put(@, <<t.cid, t.name>>, t),
                            !.idAddrs = Put(@, <<t.cid, t.addr>>, t)]
  <1>1. Coherent(n) /\ n.names = Put(x.names, <<t.chain, t.name>>, t)
        /\ n.addrs = Put(x.addrs, <<t.chain, t.addr>>, t)
    BY CoherentByName, PutByNameFacts DEF Coherent
  <1>0. DOMAIN x = Fields
    BY DEF Coherent
  <1>8. Trimmed(x, {}) /\ Tidy(t) => Trimmed(n, {})
    BY <1>0, TrimmedByName
  <1> HIDE DEF n
  <1>2. Coherent(y) /\ (Trimmed(n, {}) => Trimmed(y, {}))
    BY <1>1, CoherentListed, TrimmedListed DEF Coherent
  <1>3. y.names = n.names /\ y.addrs = n.addrs
    BY <1>1, PutListedFacts DEF Coherent
  <1>4. PutRow(x, t) = IF t.cid > 0 THEN z ELSE y
    BY DEF PutRow, n
  <1> HIDE DEF y
  <1>5. <<t.chain, t.name>> \in DOMAIN y.names /\ <<t.chain, t.addr>> \in DOMAIN y.addrs
    BY <1>1, <1>3 DEF Put
  <1>6. Coherent(z)
    BY <1>2, <1>5, CoherentById
  <1>9. DOMAIN y = Fields
    BY <1>2 DEF Coherent
  <1>10. Trimmed(y, {}) /\ Tidy(t) => Trimmed(z, {})
    BY <1>9, TrimmedById
  <1>7. z.names = y.names
    BY <1>2, PutByIdFacts DEF Coherent
  <1> HIDE DEF z
  <1> QED
    BY <1>1, <1>2, <1>3, <1>4, <1>6, <1>7, <1>8, <1>10

(* A gas token. *)
LEMMA PutGasFacts ==
    ASSUME NEW x, Coherent(x), NEW t
    PROVE  /\ Coherent(PutGas(x, t))
           /\ <<t.chain, t.name>> \in DOMAIN PutGas(x, t).names
           /\ \A k \in DOMAIN x.names : k \in DOMAIN PutGas(x, t).names /\ PutGas(x, t).names[k] = x.names[k]
           /\ Trimmed(x, {}) /\ Tidy(t) => Trimmed(PutGas(x, t), {})
  <1>1. CASE <<t.chain, t.name>> \in DOMAIN x.names
    BY <1>1 DEF PutGas
  <1>2. CASE <<t.chain, t.name>> \notin DOMAIN x.names
    <2> DEFINE n == PutByName(x, t)
               y == [n EXCEPT !.all = @ \cup {t}]
    <2>1. Coherent(n) /\ n.names = Put(x.names, <<t.chain, t.name>>, t)
      BY CoherentByName, PutByNameFacts DEF Coherent
    <2>2. PutGas(x, t) = y
      BY <1>2 DEF PutGas
    <2>5. Trimmed(x, {}) /\ Tidy(t) => Trimmed(n, {})
      BY TrimmedByName DEF Coherent
    <2> HIDE DEF n
    <2>6. Trimmed(n, {}) => Trimmed(y, {})
      BY <2>1, TrimmedListed DEF Coherent
    <2>3. Coherent(y) /\ y.names = n.names
      BY <2>1, CoherentListed, PutListedFacts DEF Coherent
    <2> HIDE DEF y
    <2>4. /\ DOMAIN n.names = DOMAIN x.names \cup {<<t.chain, t.name>>}
          /\ \A k \in DOMAIN x.names \ {<<t.chain, t.name>>} : n.names[k] = x.names[k]
      BY <2>1 DEF Put
    <2> QED
      BY <1>2, <2>2, <2>3, <2>4, <2>5, <2>6
  <1> QED
    BY <1>1, <1>2

(* What the getters say of coherent indexes. *)
LEMMA CoherentLookups == Coherent(tok) /\ Trimmed(tok, AddedTokens) => LookupsAgree
  <1> SUFFICES ASSUME Coherent(tok), Trimmed(tok, AddedTokens) PROVE LookupsAgree
    OBVIOUS
  <1>1. ASSUME NEW k \in DOMAIN tok.names
        PROVE  LET t == tok.names[k] IN
                 /\ Tidy(t) \/ t \in AddedTokens
                 /\ Bare(t.chain) => t.addr \in GetTokenAddresses(t.chain)
                 /\ Bare(t.chain) /\ Bare(t.addr) => GetByChainNameTokenAddr(t.chain, t.addr) # {}
    <2> DEFINE t == tok.names[k]
               j == <<t.chain, t.addr>>
    <2>1. j \in DOMAIN tok.addrs /\ (Tidy(t) \/ t \in AddedTokens)
      BY <1>1 DEF Coherent, NamesOK, Trimmed
    <2>2. j = <<tok.addrs[j].chain, tok.addrs[j].addr>>
      BY <2>1 DEF Coherent, AddrsOK
    <2> HIDE DEF t
    <2>3. j[1] = t.chain /\ tok.addrs[j].addr = t.addr
      BY <2>2
    <2>4. Bare(t.chain) => t.addr \in GetTokenAddresses(t.chain)
      BY <2>1, <2>3 DEF GetTokenAddresses, Bare
    <2>5. Bare(t.chain) /\ Bare(t.addr) => GetByChainNameTokenAddr(t.chain, t.addr) # {}
      BY <2>1 DEF GetByChainNameTokenAddr, Lookup, Bare
    <2> QED
      BY <2>1, <2>4, <2>5 DEF t
  <1>2. ASSUME NEW k \in DOMAIN tok.addrs
        PROVE  LET t == tok.addrs[k] IN
                 /\ Tidy(t) \/ t \in AddedTokens
                 /\ Bare(t.chain) /\ Bare(t.name) => GetByChainNameTokenName(t.chain, t.name) # {}
    <2> DEFINE t == tok.addrs[k]
    <2>1. <<t.chain, t.name>> \in DOMAIN tok.names /\ (Tidy(t) \/ t \in AddedTokens)
      BY <1>2 DEF Coherent, AddrsOK, Trimmed
    <2> HIDE DEF t
    <2>2. Bare(t.chain) /\ Bare(t.name) => GetByChainNameTokenName(t.chain, t.name) # {}
      BY <2>1 DEF GetByChainNameTokenName, Lookup, Bare
    <2> QED
      BY <2>1, <2>2 DEF t
  <1>3. ASSUME NEW k \in DOMAIN tok.idNames
        PROVE  LET t == tok.idNames[k] IN
                 /\ t.addr \in GetTokenAddressesByChainId(k[1])
                 /\ GetByChainIdTokenAddr(k[1], t.addr) # {}
                 /\ GetByChainNameTokenName(t.chain, k[2]) # {}
    <2> DEFINE t == tok.idNames[k]
               j == <<t.cid, t.addr>>
    <2>1. /\ k = <<t.cid, t.name>> /\ j \in DOMAIN tok.idAddrs
          /\ <<t.chain, t.name>> \in DOMAIN tok.names /\ Tidy(t)
      BY <1>3 DEF Coherent, IdNamesOK, Trimmed
    <2>2. j = <<tok.idAddrs[j].cid, tok.idAddrs[j].addr>>
      BY <2>1 DEF Coherent, IdAddrsOK
    <2> HIDE DEF t
    <2>3. k[1] = t.cid /\ k[2] = t.name /\ j[1] = t.cid /\ tok.idAddrs[j].addr = t.addr
      BY <2>1, <2>2
    <2>4. t.addr \in GetTokenAddressesByChainId(k[1])
      BY <2>1, <2>3 DEF GetTokenAddressesByChainId
    <2>5. GetByChainIdTokenAddr(k[1], t.addr) # {}
      BY <2>1, <2>3 DEF GetByChainIdTokenAddr, Lookup, Tidy, Bare
    <2>6. GetByChainNameTokenName(t.chain, k[2]) # {}
      BY <2>1, <2>3 DEF GetByChainNameTokenName, Lookup, Tidy, Bare
    <2> QED
      BY <2>4, <2>5, <2>6 DEF t
  <1>4. ASSUME NEW k \in DOMAIN tok.idAddrs
        PROVE  LET t == tok.idAddrs[k] IN
                 /\ GetByChainIdTokenName(k[1], t.name) # {}
                 /\ GetByChainNameTokenAddr(t.chain, k[2]) # {}
    <2> DEFINE t == tok.idAddrs[k]
    <2>1. /\ k = <<t.cid, t.addr>> /\ <<t.cid, t.name>> \in DOMAIN tok.idNames
          /\ <<t.chain, t.addr>> \in DOMAIN tok.addrs /\ Tidy(t)
      BY <1>4 DEF Coherent, IdAddrsOK, Trimmed
    <2> HIDE DEF t
    <2>2. k[1] = t.cid /\ k[2] = t.addr
      BY <2>1
    <2>3. GetByChainIdTokenName(k[1], t.name) # {}
      BY <2>1, <2>2 DEF GetByChainIdTokenName, Lookup, Tidy, Bare
    <2>4. GetByChainNameTokenAddr(t.chain, k[2]) # {}
      BY <2>1, <2>2 DEF GetByChainNameTokenAddr, Lookup, Tidy, Bare
    <2> QED
      BY <2>3, <2>4 DEF t
  <1> QED
    BY <1>1, <1>2, <1>3, <1>4 DEF LookupsAgree

-----------------------------------------------------------------------------
(* The invariant. *)
Bounds ==
  /\ chainTable \in ChainTables /\ tokenTable \in TokenTables
  /\ chainPc \in {"idle", "scan", "swap"}
  /\ tokenPc \in {"idle", "scan", "ids", "gas"}
  /\ edits \in 0..MaxEdits /\ faults \in 0..MaxFaults /\ adds \in 0..MaxAdds

(* A chain is under its id, trimmed; no two rows of a load share an id. *)
TidyChain(c) == Bare(c.name) /\ Bare(c.gas) /\ Bare(c.gasAddr)

ChainsOK ==
  /\ \A i \in DOMAIN idChains : idChains[i].id = i /\ TidyChain(idChains[i])
  /\ \A x, y \in chainRows : x.id = y.id => x = y
  /\ chainPc = "swap" => \A x \in chainRows : TidyChain(x)

(* The indexes, old and new. *)
IndexesOK == Coherent(tok) /\ Coherent(new) /\ Trimmed(tok, AddedTokens) /\ Trimmed(new, {})

(* The rows that were scanned are found by name, and they are rows. *)
NameKey(t) == <<Trim(t.chain), Trim(t.name)>>
Scanned == { TrimToken(r) : r \in tokenRows \ BadRows }

RowsFound ==
  /\ unread \subseteq tokenRows
  /\ tokenPc # "scan" => unread = {}
  /\ tokenPc \in {"scan", "ids", "gas"} =>
       \A t \in (tokenRows \ unread) \ BadRows :
         /\ NameKey(t) \in DOMAIN new.names
         /\ new.names[NameKey(t)] \in Scanned

(* A chain that has been there since the ids were read is still to be       *)
(* visited, under its id, or its gas token is among the new ones.           *)
GasFound ==
  /\ tokenPc # "gas" => steady = {}
  /\ \A c \in steady :
       /\ c.id \in DOMAIN idChains /\ idChains[c.id] = c
       /\ c.id \in ids \/ <<c.name, c.gas>> \in DOMAIN new.names

RegInv == Bounds /\ ChainsOK /\ IndexesOK /\ RowsFound /\ GasFound

LEMMA InitInv == Init => RegInv
  <1> SUFFICES ASSUME Init PROVE RegInv
    OBVIOUS
  <1>1. Bounds
    BY TableAssumption DEF Init, Bounds
  <1>2. ChainsOK
    BY DEF Init, ChainsOK
  <1>3. IndexesOK
    BY NoTokensCoherent DEF Init, IndexesOK
  <1>4. RowsFound /\ GasFound
    BY DEF Init, RowsFound, GasFound
  <1> QED
    BY <1>1, <1>2, <1>3, <1>4 DEF RegInv

(* The steps of the chain manager's load. *)
LEMMA ChainSteps == ASSUME RegInv, LoadAllChains PROVE RegInv'
  <1>1. UNCHANGED <<chainTable, tokenTable, tokenVars, edits, adds>>
    BY DEF LoadAllChains, ChainQuery, ChainLoadFails, ChainScan, ChainSwap, bounds
  <1>2. IndexesOK' /\ RowsFound'
    BY <1>1 DEF RegInv, IndexesOK, RowsFound, Scanned, Coherent, NamesOK, AddrsOK, IdNamesOK, IdAddrsOK,
                Trimmed, tokenVars
  <1>3. faults' \in 0..MaxFaults /\ chainPc' \in {"idle", "scan", "swap"}
    <2>1. faults' = faults \/ Fault
      BY DEF LoadAllChains, ChainQuery, ChainLoadFails, ChainScan, ChainSwap, bounds
    <2>2. faults \in 0..MaxFaults /\ MaxFaults \in Nat
      BY TableAssumption DEF RegInv, Bounds
    <2>3. faults' \in 0..MaxFaults
      BY <2>1, <2>2 DEF Fault
    <2>4. chainPc' \in {"idle", "scan", "swap"}
      BY DEF LoadAllChains, ChainQuery, ChainLoadFails, ChainScan, ChainSwap
    <2> QED
      BY <2>3, <2>4
  <1>4. Bounds'
    BY <1>1, <1>3 DEF RegInv, Bounds, tokenVars
  <1>5. CASE ChainQuery \/ ChainLoadFails \/ ChainScan
    <2>1. UNCHANGED <<idChains, steady>>
      BY <1>5 DEF ChainQuery, ChainLoadFails, ChainScan
    <2>2. ChainsOK'
      <3>1. CASE ChainQuery
        BY <2>1, <3>1, TableAssumption DEF ChainQuery, RegInv, ChainsOK, Bounds
      <3>2. CASE ChainLoadFails
        BY <2>1, <3>2 DEF ChainLoadFails, RegInv, ChainsOK
      <3>3. CASE ChainScan
        <4>1. PICK kept \in SUBSET chainRows : chainRows' = { TrimChain(row) : row \in kept }
          BY <3>3 DEF ChainScan
        <4>2. \A row : TrimChain(row).id = row.id /\ TidyChain(TrimChain(row))
          BY TrimIsBare DEF TrimChain, TidyChain
        <4> QED
          BY <2>1, <4>1, <4>2 DEF RegInv, ChainsOK
      <3> QED
        BY <1>5, <3>1, <3>2, <3>3
    <2>3. GasFound'
      BY <1>1, <2>1 DEF RegInv, GasFound, tokenVars
    <2> QED
      BY <1>2, <1>4, <2>2, <2>3 DEF RegInv
  <1>6. CASE ChainSwap
    <2>2. \A x, y \in chainRows : x.id = y.id => x = y
      BY DEF RegInv, ChainsOK
    <2>3. DOMAIN ById(chainRows) = { row.id : row \in chainRows }
      BY DEF ById
    <2>4. ASSUME NEW c \in chainRows
          PROVE  c.id \in DOMAIN ById(chainRows) /\ ById(chainRows)[c.id] = c
      <3>1. (CHOOSE row \in chainRows : row.id = c.id) = c
        BY <2>2
      <3> QED
        BY <2>3, <3>1 DEF ById
    <2>5. idChains' = ById(chainRows) /\ steady' = steady \cap chainRows /\ chainRows' = {}
      BY <1>6 DEF ChainSwap
    <2>6. ChainsOK'
      <3>1. \A x \in chainRows : TidyChain(x)
        BY <1>6 DEF ChainSwap, RegInv, ChainsOK
      <3>2. \A i \in DOMAIN ById(chainRows) :
              ById(chainRows)[i].id = i /\ TidyChain(ById(chainRows)[i])
        BY <2>3, <2>4, <3>1
      <3> QED
        BY <2>5, <3>2 DEF ChainsOK
    <2>7. GasFound'
      BY <1>1, <2>4, <2>5 DEF RegInv, GasFound, tokenVars
    <2> QED
      BY <1>2, <1>4, <2>6, <2>7 DEF RegInv
  <1> QED
    BY <1>5, <1>6 DEF LoadAllChains

(* The steps of the token manager's load. *)
LEMMA TokenBounds == ASSUME RegInv, LoadAllToken PROVE Bounds' /\ ChainsOK'
  <1>1. UNCHANGED <<chainTable, tokenTable, chainVars, edits, adds>>
    BY DEF LoadAllToken, TokenQuery, TokenLoadFails, TokenScanRow, TokenScanned, TokenChainIds,
           TokenGas, TokenSwap, bounds
  <1>2. faults' = faults \/ Fault
    BY DEF LoadAllToken, TokenQuery, TokenLoadFails, TokenScanRow, TokenScanned, TokenChainIds,
           TokenGas, TokenSwap, bounds
  <1>3. faults \in 0..MaxFaults /\ MaxFaults \in Nat
    BY TableAssumption DEF RegInv, Bounds
  <1>4. faults' \in 0..MaxFaults
    BY <1>2, <1>3 DEF Fault
  <1>5. tokenPc' \in {"idle", "scan", "ids", "gas"}
    BY DEF LoadAllToken, TokenQuery, TokenLoadFails, TokenScanRow, TokenScanned, TokenChainIds,
           TokenGas, TokenSwap, RegInv, Bounds
  <1>6. Bounds'
    BY <1>1, <1>4, <1>5 DEF RegInv, Bounds, chainVars
  <1>7. ChainsOK'
    BY <1>1 DEF RegInv, ChainsOK, chainVars
  <1> QED
    BY <1>6, <1>7

LEMMA TokenSteps == ASSUME RegInv, LoadAllToken PROVE IndexesOK' /\ RowsFound' /\ GasFound'
  <1> USE DEF RegInv
  <1>1. ASSUME tok' = tok \/ tok' = new, new' = new \/ new' = NoTokens PROVE IndexesOK'
    <2>1. Trimmed(new, AddedTokens)
      BY TrimmedAll DEF IndexesOK
    <2>2. Coherent(tok') /\ Trimmed(tok', AddedTokens)
      BY <1>1, <2>1 DEF IndexesOK
    <2>3. Coherent(new') /\ Trimmed(new', {})
      BY <1>1, NoTokensCoherent DEF IndexesOK
    <2> QED
      BY <2>2, <2>3 DEF IndexesOK
  <1>2. CASE TokenQuery
    <2>1. IndexesOK'
      BY <1>1, <1>2 DEF TokenQuery
    <2>2. RowsFound' /\ GasFound'
      BY <1>2 DEF TokenQuery, RowsFound, GasFound, chainVars
    <2> QED
      BY <2>1, <2>2
  <1>3. CASE TokenLoadFails
    <2>1. IndexesOK'
      BY <1>1, <1>3 DEF TokenLoadFails
    <2>2. RowsFound' /\ GasFound'
      BY <1>3 DEF TokenLoadFails, RowsFound, Scanned, GasFound, chainVars
    <2> QED
      BY <2>1, <2>2
  <1>4. CASE TokenScanRow
    <2>1. PICK t \in unread : /\ unread' = unread \ {t}
                              /\ new' = IF t \in BadRows THEN new ELSE PutRow(new, TrimToken(t))
      BY <1>4 DEF TokenScanRow
    <2>2. /\ tokenPc = "scan" /\ steady = {}
          /\ UNCHANGED <<tok, tokenPc, tokenRows, ids, steady, chainVars>>
      BY <1>4 DEF TokenScanRow, GasFound
    <2>3. ASSUME t \notin BadRows
          PROVE  /\ Coherent(new') /\ Trimmed(new', {})
                 /\ new'.names = Put(new.names, NameKey(t), TrimToken(t))
      <3> DEFINE row == TrimToken(t)
      <3>1. Tidy(row) /\ <<row.chain, row.name>> = NameKey(t)
        BY TrimTokenIsTidy DEF TrimToken, NameKey
      <3> HIDE DEF row
      <3>2. /\ Coherent(PutRow(new, row)) /\ Trimmed(PutRow(new, row), {})
            /\ PutRow(new, row).names = Put(new.names, NameKey(t), row)
        BY <3>1, PutRowFacts DEF IndexesOK
      <3>3. new' = PutRow(new, row)
        BY <2>1, <2>3 DEF row
      <3> QED
        BY <3>2, <3>3 DEF row
    <2>4. IndexesOK' /\ GasFound'
      <3>1. CASE t \in BadRows
        BY <2>1, <2>2, <3>1 DEF IndexesOK, GasFound
      <3>2. CASE t \notin BadRows
        BY <2>2, <2>3, <3>2 DEF IndexesOK, GasFound
      <3> QED
        BY <3>1, <3>2
    <2>5. ASSUME NEW r \in tokenRows \ BadRows, r \notin unread \/ r = t
          PROVE  NameKey(r) \in DOMAIN new'.names /\ new'.names[NameKey(r)] \in Scanned
      <3>1. r # t => NameKey(r) \in DOMAIN new.names /\ new.names[NameKey(r)] \in Scanned
        BY <2>2, <2>5 DEF RowsFound
      <3>2. CASE t \in BadRows
        BY <2>1, <2>5, <3>1, <3>2
      <3>3. CASE t \notin BadRows
        <4>1. TrimToken(t) \in Scanned
          BY <3>3 DEF Scanned, RowsFound
        <4>2. CASE NameKey(r) = NameKey(t)
          BY <2>3, <3>3, <4>1, <4>2 DEF Put
        <4>3. CASE NameKey(r) # NameKey(t)
          BY <2>3, <3>1, <3>3, <4>3 DEF Put
        <4> QED
          BY <4>2, <4>3
      <3> QED
        BY <3>2, <3>3
    <2>6. RowsFound'
      BY <2>1, <2>2, <2>5 DEF RowsFound, Scanned
    <2> QED
      BY <2>4, <2>6
  <1>5. CASE TokenScanned
    <2>1. IndexesOK'
      BY <1>1, <1>5 DEF TokenScanned
    <2>2. RowsFound' /\ GasFound'
      BY <1>5 DEF TokenScanned, RowsFound, Scanned, GasFound, chainVars
    <2> QED
      BY <2>1, <2>2
  <1>6. CASE TokenChainIds
    <2>1. IndexesOK'
      BY <1>1, <1>6 DEF TokenChainIds
    <2>2. RowsFound'
      BY <1>6 DEF TokenChainIds, RowsFound, Scanned
    <2>3. GasFound'
      BY <1>6 DEF TokenChainIds, GasFound, ChainsOK, GetChainInfoAutoIds, chainVars
    <2> QED
      BY <2>1, <2>2, <2>3
  <1>7. CASE TokenGas
    <2>1. PICK i \in ids : /\ ids' = ids \ {i}
                           /\ \/ \E c \in GetChainInfoById(i) : new' = PutGas(new, GasToken(c))
                              \/ GetChainInfoById(i) = {} /\ UNCHANGED new
      BY <1>7 DEF TokenGas
    <2>2. /\ tokenPc = "gas"
          /\ UNCHANGED <<tok, tokenPc, tokenRows, unread, steady, chainVars>>
      BY <1>7 DEF TokenGas
    <2>3. /\ Coherent(new') /\ Trimmed(new', {})
          /\ \A k \in DOMAIN new.names : k \in DOMAIN new'.names /\ new'.names[k] = new.names[k]
      <3>1. Coherent(new) /\ Trimmed(new, {})
        BY DEF IndexesOK
      <3>2. CASE GetChainInfoById(i) = {} /\ UNCHANGED new
        BY <3>1, <3>2
      <3>3. ASSUME NEW c \in GetChainInfoById(i), new' = PutGas(new, GasToken(c))
            PROVE  /\ Coherent(new') /\ Trimmed(new', {})
                   /\ \A k \in DOMAIN new.names : k \in DOMAIN new'.names /\ new'.names[k] = new.names[k]
        <4> DEFINE x == PutGas(new, GasToken(c))
        <4>1. TidyChain(c)
          BY <3>3 DEF GetChainInfoById, Lookup, ChainsOK
        <4>2. Tidy(GasToken(c))
          BY <4>1 DEF GasToken, Tidy, TidyChain
        <4>3. /\ Coherent(x) /\ Trimmed(x, {})
              /\ \A k \in DOMAIN new.names : k \in DOMAIN x.names /\ x.names[k] = new.names[k]
          BY <3>1, <4>2, PutGasFacts
        <4> HIDE DEF x
        <4>4. new' = x
          BY <3>3 DEF x
        <4> QED
          BY <4>3, <4>4
      <3> QED
        BY <2>1, <3>2, <3>3
    <2>4. IndexesOK' /\ RowsFound'
      BY <2>2, <2>3 DEF IndexesOK, RowsFound, Scanned
    <2>5. ASSUME NEW c \in steady
          PROVE  /\ c.id \in DOMAIN idChains' /\ idChains'[c.id] = c
                 /\ c.id \in ids' \/ <<c.name, c.gas>> \in DOMAIN new'.names
      <3>1. /\ c.id \in DOMAIN idChains /\ idChains[c.id] = c
            /\ c.id \in ids \/ <<c.name, c.gas>> \in DOMAIN new.names
        BY DEF GasFound
      <3>2. CASE c.id = i
        <4>1. GetChainInfoById(i) = {c}
          BY <3>1, <3>2 DEF GetChainInfoById, Lookup
        <4>2. new' = PutGas(new, GasToken(c))
          BY <2>1, <4>1
        <4>3. <<GasToken(c).chain, GasToken(c).name>> \in DOMAIN new'.names
          BY <4>2, PutGasFacts DEF IndexesOK
        <4> QED
          BY <2>2, <3>1, <4>3 DEF GasToken, chainVars
      <3>3. CASE c.id # i
        BY <2>1, <2>2, <2>3, <3>1, <3>3 DEF chainVars
      <3> QED
        BY <3>2, <3>3
    <2>6. GasFound'
      BY <2>2, <2>5 DEF GasFound
    <2> QED
      BY <2>4, <2>6
  <1>8. CASE TokenSwap
    <2>1. IndexesOK'
      BY <1>1, <1>8 DEF TokenSwap
    <2>2. RowsFound' /\ GasFound'
      BY <1>8 DEF TokenSwap, RowsFound, Scanned, GasFound, chainVars
    <2> QED
      BY <2>1, <2>2
  <1> QED
    BY <1>2, <1>3, <1>4, <1>5, <1>6, <1>7, <1>8 DEF LoadAllToken

LEMMA AddStep == ASSUME RegInv, AddToken \/ AddTokenInfo PROVE RegInv'
  <1>1. PICK t : Add(PutByName(tok, t)) /\ (Tidy(t) \/ t \in AddedTokens)
    BY FreshIsTidy DEF AddToken, AddTokenInfo
  <1>2. IndexesOK'
    <2>1. Coherent(PutByName(tok, t)) /\ Trimmed(PutByName(tok, t), AddedTokens)
      BY <1>1, CoherentByName, TrimmedByName DEF RegInv, IndexesOK, Coherent
    <2> QED
      BY <1>1, <2>1 DEF RegInv, IndexesOK, Add
  <1>3. adds' \in 0..MaxAdds
    BY <1>1, TableAssumption DEF RegInv, Bounds, Add
  <1>4. Bounds'
    BY <1>1, <1>3 DEF RegInv, Bounds, Add, chainVars
  <1>5. ChainsOK' /\ RowsFound' /\ GasFound'
    BY <1>1 DEF RegInv, ChainsOK, RowsFound, Scanned, GasFound, Add, chainVars
  <1> QED
    BY <1>2, <1>4, <1>5 DEF RegInv

LEMMA EditStep == ASSUME RegInv, Edit PROVE RegInv'
  <1>1. edits' \in 0..MaxEdits
    BY TableAssumption DEF RegInv, Bounds, Edit
  <1>2. Bounds'
    BY <1>1 DEF RegInv, Bounds, Edit, chainVars, tokenVars
  <1>3. UNCHANGED <<idChains, chainPc, chainRows, tok, new, tokenPc, tokenRows, unread, ids, steady>>
    BY DEF Edit, chainVars, tokenVars
  <1>4. ChainsOK' /\ IndexesOK' /\ RowsFound' /\ GasFound'
    BY <1>3 DEF RegInv, ChainsOK, IndexesOK, RowsFound, Scanned, GasFound
  <1> QED
    BY <1>2, <1>4 DEF RegInv

LEMMA StepInv == RegInv /\ [Next]_vars => RegInv'
  <1>1. ASSUME RegInv, UNCHANGED vars PROVE RegInv'
    BY <1>1 DEF RegInv, Bounds, ChainsOK, IndexesOK, RowsFound, Scanned, GasFound, vars, chainVars, tokenVars, bounds
  <1>2. ASSUME RegInv, LoadAllToken PROVE RegInv'
    BY <1>2, TokenBounds, TokenSteps DEF RegInv
  <1> QED
    BY <1>1, <1>2, ChainSteps, AddStep, EditStep DEF Next

(* Whatever one getter of TokenInfoManager finds, the others find: through  *)
(* the reloads of both managers, AddToken, AddTokenInfo, and gas tokens     *)
(* that take over the address entry of a listed token.  Excepted are the    *)
(* texts with blanks around them that AddTokenInfo keeps and the getters,   *)
(* which trim, cannot name; only added tokens have such texts.              *)
THEOREM RegistryIsSound == Spec => []RegistryInv
  <1>1. RegInv => RegistryInv
    <2> SUFFICES ASSUME RegInv PROVE RegistryInv
      OBVIOUS
    <2>1. LookupsAgree
      BY CoherentLookups DEF RegInv, IndexesOK
    <2>2. DOMAIN NoTokens = Fields
      BY DEF NoTokens, Fields
    <2>3. TypeOK
      BY <2>2 DEF RegInv, TypeOK, Bounds, ChainsOK, IndexesOK, Coherent
    <2> QED
      BY <2>1, <2>3 DEF RegistryInv
  <1> QED
    BY InitInv, StepInv, <1>1, PTL DEF Spec

(* The publication is the only way from the gas tokens back to idle. *)
LEMMA PublishedIsNew ==
    ASSUME RegInv, [Next]_vars, tokenPc = "gas", tokenPc' = "idle"
    PROVE  ids = {} /\ tok' = new
  <1>1. ASSUME UNCHANGED tokenPc PROVE FALSE
    BY <1>1
  <1>2. TokenSwap
    BY <1>1 DEF Next, LoadAllChains, ChainQuery, ChainLoadFails, ChainScan, ChainSwap, LoadAllToken,
                TokenQuery, TokenLoadFails, TokenScanRow, TokenScanned, TokenChainIds, TokenGas,
                AddToken, AddTokenInfo, Add, Edit, vars, tokenVars
  <1> QED
    BY <1>2 DEF TokenSwap

(* LoadAllToken never publishes without the gas token of a chain that the   *)
(* chain manager has had since the ids were read, whatever it reloaded.     *)
THEOREM GasTokensOfSteadyChains == Spec => SteadyChainsHaveGas
  <1>1. RegInv /\ [Next]_vars =>
          [ tokenPc = "gas" /\ tokenPc' = "idle" =>
              \A c \in steady : GetByChainNameTokenName(c.name, c.gas)' # {} ]_vars
    <2> SUFFICES ASSUME RegInv, [Next]_vars, tokenPc = "gas", tokenPc' = "idle", NEW c \in steady
                 PROVE  GetByChainNameTokenName(c.name, c.gas)' # {}
      OBVIOUS
    <2>1. ids = {} /\ tok' = new
      BY PublishedIsNew
    <2>2. /\ <<c.name, c.gas>> \in DOMAIN new.names
          /\ Bare(c.name) /\ Bare(c.gas)
      BY <2>1 DEF RegInv, GasFound, ChainsOK, TidyChain
    <2> QED
      BY <2>1, <2>2 DEF GetByChainNameTokenName, Lookup, Bare
  <1> QED
    BY InitInv, StepInv, <1>1, PTL DEF Spec, SteadyChainsHaveGas

(* A gas token never hides a token of the table that was scanned: when      *)
(* LoadAllToken publishes, the name of such a row leads to such a row.      *)
THEOREM RowsAreNotHidden == Spec => ListedTokensWin
  <1>1. RegInv /\ [Next]_vars =>
          [ tokenPc = "gas" /\ tokenPc' = "idle" =>
              \A t \in tokenRows \ BadRows :
                \E r \in tokenRows \ BadRows :
                  GetByChainNameTokenName(t.chain, t.name)' = {TrimToken(r)} ]_vars
    <2> SUFFICES ASSUME RegInv, [Next]_vars, tokenPc = "gas", tokenPc' = "idle",
                        NEW t \in tokenRows \ BadRows
                 PROVE  \E r \in tokenRows \ BadRows :
                          GetByChainNameTokenName(t.chain, t.name)' = {TrimToken(r)}
      OBVIOUS
    <2>1. tok' = new
      BY PublishedIsNew
    <2>2. NameKey(t) \in DOMAIN new.names /\ new.names[NameKey(t)] \in Scanned
      BY DEF RegInv, RowsFound
    <2> QED
      BY <2>1, <2>2 DEF GetByChainNameTokenName, Lookup, NameKey, Scanned
  <1> QED
    BY InitInv, StepInv, <1>1, PTL DEF Spec, ListedTokensWin
=============================================================================

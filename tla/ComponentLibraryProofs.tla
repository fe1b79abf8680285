------------------------ MODULE ComponentLibraryProofs ------------------------
(***************************************************************************)
(* The caches of the component library are right for any number of         *)
(* sources, symbols and addresses and however often symbols are edited.    *)
(* The inductive invariant, LibraryInv, adds to the properties that the    *)
(* cached results of searches only name sources which are still listed,    *)
(* so that a caller can never get hold of a source whose address may have  *)
(* been given to another one.                                              *)
(***************************************************************************)
EXTENDS ComponentLibrary, TLAPS

(* The variables TypeOK leaves out.                                        *)
Typed ==
  /\ address \in Seq(Address) /\ sources \in Seq(Source) /\ held \subseteq Source
  /\ version \in [Source -> Nat] /\ cleared \in [Source -> Nat]
  /\ \A s \in Source : cleared[s] <= version[s]
  /\ torn \in BOOLEAN

(* Sources in use have addresses of their own.                             *)
Distinct == \A s, t \in Live : address[s] = address[t] => s = t

(* What is cached under the address of a source in use is a symbol of this *)
(* source.                                                                 *)
Owned ==
  \A s \in Live, y \in Symbol :
    <<address[s], y>> \in DOMAIN symbol_cache => symbol_cache[<<address[s], y>>][1] = s

(* Cached symbols have been loaded since the caches were cleared.          *)
Current ==
  \A key \in DOMAIN symbol_cache :
    /\ symbol_cache[key] \in Source \X Nat
    /\ symbol_cache[key][2] >= cleared[symbol_cache[key][1]]

(* Cached results name the sources which are listed, and what these offer, *)
(* unless a refresh has failed.                                            *)
Cached ==
  \A p \in DOMAIN search_cache :
    /\ DOMAIN search_cache[p] = DOMAIN sources
    /\ \A k \in DOMAIN sources : search_cache[p][k][1] = sources[k]
    /\ ~torn => search_cache[p] = Search(p)

LibraryInv == TypeOK /\ Typed /\ Distinct /\ Owned /\ Current /\ Cached

(* Every call, and every change of a source, keeps the invariant.          *)
LEMMA LibraryStep ==
  ASSUME LibraryInv, Next PROVE LibraryInv'
  <1> USE ComponentLibraryAssumption
  <1>0. ASSUME ClearCaches PROVE Owned' /\ Current' /\ Cached'
    BY <1>0 DEF ClearCaches, Owned, Current, Cached
  <1>z. ASSUME ClearCaches, UNCHANGED version,
               address' \in Seq(Address), sources' \in Seq(Source), held' \subseteq Source
        PROVE Typed'
    <2>1. \A s \in Source : version[s] \in Nat /\ version[s] <= version[s]
      BY DEF LibraryInv, Typed
    <2>2. version \in [Source -> Nat] /\ cleared' = version /\ torn' = FALSE
      BY <1>z DEF LibraryInv, Typed, ClearCaches
    <2> QED BY <1>z, <2>1, <2>2 DEF Typed
  <1>1. CASE add_source
    <2> DEFINE n == Len(address) + 1
    <2>a. /\ n \in Source /\ sources' = <<n>> \o sources /\ ClearCaches
          /\ symbols' = [symbols EXCEPT ![n] = offered[n]]
          /\ UNCHANGED <<offered, version, held>>
      BY <1>1 DEF add_source, world
    <2>b. PICK a \in Address \ {address[t] : t \in Live} : address' = Append(address, a)
      BY <1>1 DEF add_source
    <2>c. /\ address \in Seq(Address) /\ Len(address) \in Nat
          /\ Live \subseteq 1..Len(address) /\ n \notin Live
      BY DEF LibraryInv, TypeOK, Typed
    <2>d. /\ address' \in Seq(Address) /\ DOMAIN address' = 1..n
          /\ address'[n] = a /\ \A t \in 1..Len(address) : address'[t] = address[t]
      BY <2>b, <2>c
    <2>e. sources \in Seq(Source) /\ sources' \in Seq(Source)
      BY <2>a DEF LibraryInv, Typed
    <2>f. Listed' \subseteq Listed \cup {n}
      BY <2>a, <2>e DEF Listed, ToSet
    <2>g. Live' \subseteq Live \cup {n}
      BY <2>f, <2>a DEF Live
    <2>1. TypeOK'
      <3>1. DOMAIN address' \subseteq Source /\ Live' \subseteq DOMAIN address'
        BY <2>a, <2>c, <2>d, <2>g DEF Source
      <3> QED BY <3>1, <2>a DEF LibraryInv, TypeOK, ClearCaches
    <2>2. Typed'
      BY <1>z, <2>a, <2>d, <2>e DEF LibraryInv, Typed
    <2>3. Distinct'
      <3> SUFFICES ASSUME NEW s \in Live', NEW t \in Live', address'[s] = address'[t]
                   PROVE s = t
        BY DEF Distinct
      <3> HIDE DEF n
      <3> QED BY <2>b, <2>c, <2>d, <2>g DEF LibraryInv, Distinct
    <2> QED BY <1>0, <2>a, <2>1, <2>2, <2>3 DEF LibraryInv
  <1>2. CASE reset
    <2>0. Listed' = {} /\ Live' = held
      BY <1>2 DEF reset, Listed, Live, ToSet
    <2>1. TypeOK'
      BY <1>2, <2>0 DEF LibraryInv, TypeOK, world, Live, reset, ClearCaches
    <2>2. Typed'
      BY <1>z, <1>2 DEF LibraryInv, Typed, world, reset
    <2>3. Distinct'
      BY <1>2, <2>0 DEF LibraryInv, Distinct, Live, reset
    <2> QED BY <1>0, <1>2, <2>1, <2>2, <2>3 DEF LibraryInv, reset
  <1>3. CASE refresh
    <2>0. Live' = Live
      BY <1>3 DEF refresh, Live, Listed
    <2>1. TypeOK'
      BY <1>3, <2>0 DEF LibraryInv, TypeOK, world, refresh, ClearCaches, Updated
    <2>2. Typed'
      BY <1>z, <1>3 DEF LibraryInv, Typed, world, refresh
    <2>3. Distinct'
      BY <1>3, <2>0 DEF LibraryInv, Distinct, refresh
    <2> QED BY <1>0, <1>3, <2>1, <2>2, <2>3 DEF LibraryInv, refresh
  <1>4. CASE RefreshFails
    <2>1. TypeOK'
      BY <1>4 DEF LibraryInv, TypeOK, Typed, world, library, Live, Listed,
         RefreshFails, Updated
    <2>2. Typed'
      BY <1>4 DEF LibraryInv, TypeOK, Typed, world, library, Live, Listed,
         RefreshFails, Updated
    <2>3. Distinct'
      BY <1>4 DEF LibraryInv, Distinct, Live, Listed, library, RefreshFails,
         Updated
    <2>4. Owned'
      BY <1>4 DEF LibraryInv, TypeOK, Typed, Owned, Distinct, Live, Listed,
         library, RefreshFails, Updated
    <2>5. Current'
      BY <1>4 DEF LibraryInv, Typed, Current, world, RefreshFails, Updated
    <2>6. Cached'
      BY <1>4 DEF LibraryInv, Cached, Search, library, TypeOK, Typed,
         RefreshFails, Updated
    <2> QED BY <2>1, <2>2, <2>3, <2>4, <2>5, <2>6 DEF LibraryInv
  <1>5. CASE \E p \in Pattern : search(p)
    <2>0. PICK p \in Pattern : search(p)
      BY <1>5
    <2> DEFINE result == IF p \in DOMAIN search_cache THEN search_cache[p] ELSE Search(p)
    <2>a. /\ search_cache' = [q \in DOMAIN search_cache \cup {p} |->
                                IF q = p THEN result ELSE search_cache[q]]
          /\ held' = held \cup Found(result)
          /\ UNCHANGED <<offered, version, address, sources, symbols, symbol_cache, cleared, torn>>
      BY <2>0 DEF search, world, library
    <2>b. DOMAIN Search(p) = DOMAIN sources /\ \A k \in DOMAIN sources : Search(p)[k][1] = sources[k]
      BY DEF Search
    <2>c. DOMAIN result = DOMAIN sources /\ \A k \in DOMAIN sources : result[k][1] = sources[k]
      BY <2>b DEF LibraryInv, Cached
    <2>d. ~torn => result = Search(p)
      BY DEF LibraryInv, Cached
    <2> HIDE DEF result
    <2>e. Found(result) \subseteq Listed
      BY <2>c DEF Found, Listed, ToSet
    <2>f. Listed \subseteq Source /\ Listed' = Listed /\ Live' = Live
      BY <2>a, <2>e DEF LibraryInv, Typed, Listed, Live, ToSet
    <2>1. TypeOK'
      <3>1. DOMAIN search_cache' \subseteq Pattern
        BY <2>a DEF LibraryInv, TypeOK
      <3> QED BY <3>1, <2>a, <2>f DEF LibraryInv, TypeOK
    <2>2. Typed'
      BY <2>a, <2>e, <2>f DEF LibraryInv, Typed
    <2>3. Distinct'
      BY <2>a, <2>f DEF LibraryInv, Distinct
    <2>4. Owned'
      BY <2>a, <2>f DEF LibraryInv, Owned
    <2>5. Current'
      BY <2>a DEF LibraryInv, Current
    <2>6. Cached'
      <3> SUFFICES ASSUME NEW q \in DOMAIN search_cache'
                   PROVE /\ DOMAIN search_cache'[q] = DOMAIN sources
                         /\ \A k \in DOMAIN sources : search_cache'[q][k][1] = sources[k]
                         /\ ~torn => search_cache'[q] = Search(q)
        <4>1. sources' = sources /\ torn' = torn /\ \A q \in Pattern : Search(q)' = Search(q)
          BY <2>a DEF Search
        <4>2. DOMAIN search_cache' \subseteq Pattern
          BY <2>1 DEF TypeOK
        <4> HIDE DEF Search
        <4> QED BY <4>1, <4>2 DEF Cached
      <3>1. CASE q = p
        BY <3>1, <2>a, <2>c, <2>d
      <3>2. CASE q # p
        <4>1. q \in DOMAIN search_cache /\ search_cache'[q] = search_cache[q]
          BY <3>2, <2>a
        <4> QED BY <4>1 DEF LibraryInv, Cached
      <3> QED BY <3>1, <3>2
    <2> QED BY <2>1, <2>2, <2>3, <2>4, <2>5, <2>6 DEF LibraryInv
  <1>6. CASE \E s \in Source, y \in Symbol : get_symbol(s, y)
    <2>0. PICK s \in Source, y \in Symbol : get_symbol(s, y)
      BY <1>6
    <2>1. TypeOK'
      BY <2>0 DEF LibraryInv, TypeOK, Typed, world, library, Live, Listed,
         get_symbol
    <2>2. Typed'
      BY <2>0 DEF LibraryInv, TypeOK, Typed, world, library, Live, Listed,
         get_symbol
    <2>3. Distinct'
      BY <2>0 DEF LibraryInv, Distinct, Live, Listed, library, get_symbol
    <2>4. Owned'
      BY <2>0 DEF LibraryInv, TypeOK, Typed, Owned, Distinct, Live, Listed,
         library, get_symbol
    <2>5. Current'
      BY <2>0 DEF LibraryInv, Typed, Current, world, get_symbol
    <2>6. Cached'
      BY <2>0 DEF LibraryInv, Cached, Search, library, TypeOK, Typed, get_symbol
    <2> QED BY <2>1, <2>2, <2>3, <2>4, <2>5, <2>6 DEF LibraryInv
  <1>7. CASE \E s \in Source, y \in Symbol : invalidate_symbol_data(s, y)
    <2>0. PICK s \in Source, y \in Symbol : invalidate_symbol_data(s, y)
      BY <1>7
    <2>1. TypeOK'
      BY <2>0 DEF LibraryInv, TypeOK, Typed, world, library, Live, Listed,
         invalidate_symbol_data
    <2>2. Typed'
      BY <2>0 DEF LibraryInv, TypeOK, Typed, world, library, Live, Listed,
         invalidate_symbol_data
    <2>3. Distinct'
      BY <2>0 DEF LibraryInv, Distinct, Live, Listed, library,
         invalidate_symbol_data
    <2>4. Owned'
      BY <2>0 DEF LibraryInv, TypeOK, Typed, Owned, Distinct, Live, Listed,
         library, invalidate_symbol_data
    <2>5. Current'
      BY <2>0 DEF LibraryInv, Typed, Current, world, invalidate_symbol_data
    <2>6. Cached'
      BY <2>0 DEF LibraryInv, Cached, Search, library, TypeOK, Typed,
         invalidate_symbol_data
    <2> QED BY <2>1, <2>2, <2>3, <2>4, <2>5, <2>6 DEF LibraryInv
  <1>8. CASE \E s \in Source : Release(s)
    <2>0. PICK s \in Source : Release(s)
      BY <1>8
    <2>1. TypeOK'
      BY <2>0 DEF LibraryInv, TypeOK, Typed, world, library, Live, Listed,
         Release
    <2>2. Typed'
      BY <2>0 DEF LibraryInv, TypeOK, Typed, world, library, Live, Listed,
         Release
    <2>3. Distinct'
      BY <2>0 DEF LibraryInv, Distinct, Live, Listed, library, Release
    <2>4. Owned'
      BY <2>0 DEF LibraryInv, TypeOK, Typed, Owned, Distinct, Live, Listed,
         library, Release
    <2>5. Current'
      BY <2>0 DEF LibraryInv, Typed, Current, world, Release
    <2>6. Cached'
      BY <2>0 DEF LibraryInv, Cached, Search, library, TypeOK, Typed, Release
    <2> QED BY <2>1, <2>2, <2>3, <2>4, <2>5, <2>6 DEF LibraryInv
  <1>9. CASE \E s \in Source : Edit(s)
    <2>0. PICK s \in Source : Edit(s)
      BY <1>9
    <2>1. TypeOK'
      BY <2>0 DEF LibraryInv, TypeOK, Typed, world, library, Live, Listed, Edit
    <2>2. Typed'
      BY <2>0 DEF LibraryInv, TypeOK, Typed, world, library, Live, Listed, Edit
    <2>3. Distinct'
      BY <2>0 DEF LibraryInv, Distinct, Live, Listed, library, Edit
    <2>4. Owned'
      BY <2>0 DEF LibraryInv, TypeOK, Typed, Owned, Distinct, Live, Listed,
         library, Edit
    <2>5. Current'
      BY <2>0 DEF LibraryInv, Typed, Current, world, Edit
    <2>6. Cached'
      BY <2>0 DEF LibraryInv, Cached, Search, library, TypeOK, Typed, Edit
    <2> QED BY <2>1, <2>2, <2>3, <2>4, <2>5, <2>6 DEF LibraryInv
  <1> QED BY <1>1, <1>2, <1>3, <1>4, <1>5, <1>6, <1>7, <1>8, <1>9 DEF Next

(* Before any source has been added, there is nothing to get wrong.        *)
LEMMA LibraryStart == Init => LibraryInv
  <1> SUFFICES ASSUME Init PROVE LibraryInv
    OBVIOUS
  <1> USE ComponentLibraryAssumption
  <1>1. address = <<>> /\ sources = <<>> /\ held = {} /\ Listed = {} /\ Live = {}
    BY DEF Init, Listed, Live, ToSet
  <1>2. search_cache = <<>> /\ symbol_cache = <<>> /\ DOMAIN search_cache = {} /\ DOMAIN symbol_cache = {}
    BY DEF Init
  <1>3. version = [s \in Source |-> 0] /\ cleared = version /\ torn = FALSE
    BY DEF Init
  <1>4. TypeOK
    <2>1. offered \in [Source -> [Symbol -> 0..2]] /\ symbols \in [Source -> [Symbol -> 0..2]]
      BY DEF Init
    <2>2. DOMAIN address = {}
      BY <1>1
    <2> QED BY <1>1, <1>2, <2>1, <2>2 DEF TypeOK
  <1>5. Typed
    <2>1. address \in Seq(Address) /\ sources \in Seq(Source) /\ held \subseteq Source
      BY <1>1
    <2>2. version \in [Source -> Nat] /\ \A s \in Source : cleared[s] <= version[s]
      BY <1>3
    <2> QED BY <1>3, <2>1, <2>2 DEF Typed
  <1>6. Distinct /\ Owned /\ Current /\ Cached
    BY <1>1, <1>2 DEF Distinct, Owned, Current, Cached
  <1> QED BY <1>4, <1>5, <1>6 DEF LibraryInv

(* The invariant holds whatever the callers do, and however the sources    *)
(* change meanwhile.                                                       *)
THEOREM LibraryIsConsistent == Spec => []LibraryInv
  <1>1. LibraryInv /\ [Next]_vars => LibraryInv'
    <2> SUFFICES ASSUME LibraryInv, [Next]_vars PROVE LibraryInv'
      OBVIOUS
    <2>1. CASE Next
      BY <2>1, LibraryStep
    <2>2. CASE UNCHANGED vars
      BY <2>2 DEF LibraryInv, TypeOK, Typed, Distinct, Owned, Current, Cached,
         Search,
         Live, Listed, vars, world, library
    <2> QED BY <2>1, <2>2
  <1> QED BY <1>1, LibraryStart, PTL DEF Spec

(* A symbol which is looked up in a source is this source's, although      *)
(* symbols are cached under addresses and addresses are used again.        *)
THEOREM SymbolsAreOwned == Spec => []SymbolsOwned
  <1>1. LibraryInv => SymbolsOwned
    BY DEF LibraryInv, SymbolsOwned, Distinct, Owned
  <1> QED BY <1>1, LibraryIsConsistent, PTL

(* A symbol which is found in the cache is not older than the last refresh *)
(* which succeeded.                                                        *)
THEOREM SymbolsAreCurrent == Spec => []SymbolsCurrent
  <1>1. LibraryInv => SymbolsCurrent
    BY DEF LibraryInv, SymbolsCurrent, Current
  <1> QED BY <1>1, LibraryIsConsistent, PTL

(* Unless a refresh has failed halfway, the cache of searches never makes  *)
(* a difference.                                                           *)
THEOREM SearchesAreCurrent == Spec => []SearchesCurrent
  <1>1. LibraryInv => SearchesCurrent
    BY DEF LibraryInv, SearchesCurrent, Cached
  <1> QED BY <1>1, LibraryIsConsistent, PTL

=============================================================================

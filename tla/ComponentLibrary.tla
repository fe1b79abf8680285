--------------------------- MODULE ComponentLibrary ---------------------------
(***************************************************************************)
(* src/gaf/clib.py: the list of component sources and the two caches, for  *)
(* the results of searches and for symbols.  Symbols are cached under the  *)
(* address of the source object (id(source)), which may be used for        *)
(* another source once nobody refers to the first one any more.            *)
(*                                                                         *)
(* Sources are numbered in the order in which they are added.  What a      *)
(* source offers may change at any time; its list() counts how often it    *)
(* yields each symbol.  A call which raises before it has changed anything *)
(* leaves the state as it is and is no step: adding a source with a name   *)
(* which is taken or whose list() raises, a search which finds a symbol    *)
(* twice in one source, a symbol which can't be loaded.                    *)
(***************************************************************************)
EXTENDS Naturals, Sequences, SequencesExt

CONSTANTS Symbol,
          Glob,         \* a glob pattern which matches all symbols
          Address,
          MaxSource, MaxVersion \* bound the sources, and the changes to each of them

Source == 1..MaxSource
Pattern == Symbol \cup {Glob}

ASSUME ComponentLibraryAssumption ==
  MaxSource \in Nat /\ MaxVersion \in Nat /\ Glob \notin Symbol

VARIABLES
  offered,      \* per source, what its list() yields now
  version,      \* per source, the version of the symbols its get() yields now
  address,      \* id() of each source which has been added
  sources,      \* _sources
  symbols,      \* Source.symbols
  search_cache, symbol_cache,
  held,         \* sources the callers still refer to
  cleared,      \* per source, its version when the caches were last cleared
  torn          \* a refresh has failed halfway since then

world == <<offered, version>>
library == <<address, sources, symbols>>
vars == <<world, library, search_cache, symbol_cache, held, cleared, torn>>

Listed == ToSet(sources)
Live == Listed \cup held

Init ==
  /\ offered = [s \in Source |-> [y \in Symbol |-> 1]]
  /\ version = [s \in Source |-> 0]
  /\ address = <<>>
  /\ sources = <<>>
  /\ symbols = [s \in Source |-> [y \in Symbol |-> 0]]
  /\ search_cache = <<>> /\ symbol_cache = <<>>
  /\ held = {} /\ cleared = version /\ torn = FALSE

ClearSearches == \* Mutant of ClearCaches: cached symbols stay
  /\ search_cache' = <<>> /\ UNCHANGED symbol_cache
  /\ cleared' = version /\ torn' = FALSE

ClearSymbols == \* Mutant of ClearCaches: results of searches stay
  /\ symbol_cache' = <<>> /\ UNCHANGED search_cache
  /\ cleared' = version /\ torn' = FALSE

ClearCaches ==
  /\ search_cache' = <<>> /\ symbol_cache' = <<>>
  /\ cleared' = version /\ torn' = FALSE

add_source ==
  LET s == Len(address) + 1
  IN /\ s \in Source
     /\ \E a \in Address \ {address[t] : t \in Live} : address' = Append(address, a)
     /\ symbols' = [symbols EXCEPT ![s] = offered[s]]
     /\ sources' = <<s>> \o sources
     /\ ClearCaches
     /\ UNCHANGED <<world, held>>

reset ==
  /\ sources' = <<>> /\ ClearCaches
  /\ UNCHANGED <<world, address, symbols, held>>

Updated(done) == [s \in Source |-> IF s \in done THEN offered[s] ELSE symbols[s]]

refresh ==
  /\ symbols' = Updated(Listed) /\ ClearCaches
  /\ UNCHANGED <<world, address, sources, held>>

(* The list() of the k-th source raises; the ones before it are up to date *)
(* already.                                                                *)
RefreshFails ==
  /\ \E k \in DOMAIN sources : symbols' = Updated(ToSet(SubSeq(sources, 1, k - 1)))
  /\ torn' = TRUE
  /\ UNCHANGED <<world, address, sources, search_cache, symbol_cache, held, cleared>>

(* What a search finds now: for each source, in the order of _sources, how *)
(* often it has each of the symbols which match.  Sources without a match  *)
(* are left out of the list in the code.                                   *)
Search(p) ==
  [k \in DOMAIN sources |->
     <<sources[k], [y \in Symbol |-> IF p \in {y, Glob} THEN symbols[sources[k]][y] ELSE 0]>>]

Found(result) == {result[k][1] : k \in {i \in DOMAIN result : \E y \in Symbol : result[i][2][y] > 0}}

(* A name is found twice in one source: DuplicateError.                    *)
Ambiguous(p) == \E s \in Listed, y \in {p} \cap Symbol : symbols[s][y] > 1

(* search, and lookup_symbol_source, whose caller keeps the first source.  *)
search(p) ==
  LET result == IF p \in DOMAIN search_cache THEN search_cache[p] ELSE Search(p)
  IN /\ ~(p \notin DOMAIN search_cache /\ Ambiguous(p))
     /\ search_cache' = [q \in DOMAIN search_cache \cup {p} |->
                           IF q = p THEN result ELSE search_cache[q]]
     /\ held' = held \cup Found(result)
     /\ UNCHANGED <<world, library, symbol_cache, cleared, torn>>

get_symbol(s, y) ==
  /\ s \in Live /\ <<address[s], y>> \notin DOMAIN symbol_cache
  /\ offered[s][y] > 0
  /\ symbol_cache' = [key \in DOMAIN symbol_cache \cup {<<address[s], y>>} |->
                        IF key = <<address[s], y>> THEN <<s, version[s]>> ELSE symbol_cache[key]]
  /\ UNCHANGED <<world, library, search_cache, held, cleared, torn>>

invalidate_symbol_data(s, y) ==
  /\ s \in Live
  /\ symbol_cache' = [key \in DOMAIN symbol_cache \ {<<address[s], y>>} |-> symbol_cache[key]]
  /\ UNCHANGED <<world, library, search_cache, held, cleared, torn>>

Release(s) ==
  /\ s \in held /\ held' = held \ {s}
  /\ UNCHANGED <<world, library, search_cache, symbol_cache, cleared, torn>>

(* Somebody edits the symbols of a source.                                 *)
Edit(s) ==
  /\ version[s] < MaxVersion
  /\ version' = [version EXCEPT ![s] = @ + 1]
  /\ \E f \in [Symbol -> 0..2] : offered' = [offered EXCEPT ![s] = f]
  /\ UNCHANGED <<library, search_cache, symbol_cache, held, cleared, torn>>

Next ==
  \/ add_source \/ reset \/ refresh \/ RefreshFails
  \/ \E p \in Pattern : search(p)
  \/ \E s \in Source, y \in Symbol : get_symbol(s, y) \/ invalidate_symbol_data(s, y)
  \/ \E s \in Source : Release(s) \/ Edit(s)

Spec == Init /\ [][Next]_vars

-----------------------------------------------------------------------------
(* The types of the variables.                                             *)
TypeOK ==
  /\ offered \in [Source -> [Symbol -> 0..2]] /\ symbols \in [Source -> [Symbol -> 0..2]]
  /\ Live \subseteq DOMAIN address /\ DOMAIN address \subseteq Source
  /\ DOMAIN search_cache \subseteq Pattern
  /\ DOMAIN symbol_cache \subseteq Address \X Symbol

(* A symbol is never looked up in a source and found to be another         *)
(* source's, although addresses are used again; only those of source       *)
(* objects in use are different.                                           *)
SymbolsOwned ==
  /\ TypeOK
  /\ \A s, t \in Live : address[s] = address[t] => s = t
  /\ \A s \in Live, y \in Symbol :
       <<address[s], y>> \in DOMAIN symbol_cache => symbol_cache[<<address[s], y>>][1] = s

(* After the library has been refreshed, symbols are as they were then, or *)
(* newer.                                                                  *)
SymbolsCurrent ==
  \A key \in DOMAIN symbol_cache :
    symbol_cache[key][2] >= cleared[symbol_cache[key][1]]

(* A search whose result is cached finds what it would find without the    *)
(* cache, as long as no refresh has failed.                                *)
SearchesCurrent ==
  ~torn => \A p \in DOMAIN search_cache : search_cache[p] = Search(p)
===============================================================================

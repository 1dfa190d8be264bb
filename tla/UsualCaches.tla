----------------------------- MODULE UsualCaches -----------------------------
(* The caches a usual parser owns and the options that choose among them      *)
(* (usual.c): cache_keys= and symbol_keys= select a function for keys and the *)
(* cache it looks in, class_cache= and missing_class= how a class is found.   *)
(* The cache of Symbols is ParserCache's; the one of Strings is never         *)
(* replaced, and is taken to give the String asked for.                       *)
EXTENDS ParserCache

CONSTANTS ClassNames   \* the texts that are looked up as classes

ASSUME OwnerAssumption == ClassNames \subseteq Keys

VARIABLES
  cacheKeys,   \* d->cache_keys
  getKey,      \* d->get_key
  symCache,    \* d->sym_cache is not NULL
  keyCache,    \* d->key_cache: "str", "sym", or "freed"
  missClass,   \* d->miss_class
  classCache,  \* d->class_cache: its form function and what it has for each name
  defined,     \* the classes there are
  given        \* history: what was last asked for, what was given, and what is to blame

keyOptions   == <<cacheKeys, getKey, symCache, keyCache>>
classOptions == <<missClass, classCache>>
ownerVars    == <<vars, keyOptions, classOptions, defined, given>>

NoCache == [form |-> "none", found |-> <<>>]
Nothing == [want |-> "", got |-> "", blame |-> "none"]
Given(want, got, blame) == given' = [want |-> want, got |-> got, blame |-> blame]

OwnerType ==
  /\ cacheKeys \in BOOLEAN /\ symCache \in BOOLEAN
  /\ getKey \in {"cache_key", "str_key", "sym_key"} /\ keyCache \in {"str", "sym", "freed"}
  /\ missClass \in {"auto", "ignore", "raise"} /\ defined \subseteq ClassNames
  /\ classCache \in {NoCache} \cup [form : {"auto", "plain"}, found : [ClassNames -> {"unset", "undef", "class"}]]

\* oj_init_usual
OwnerInit ==
  /\ Init
  /\ cacheKeys = TRUE /\ getKey = "cache_key" /\ symCache = FALSE /\ keyCache = "str"
  /\ missClass = "ignore" /\ classCache = NoCache
  /\ defined = {} /\ given = Nothing

-----------------------------------------------------------------------------
(* Keys.                                                                      *)

WantedKey == IF symCache THEN "Symbol" ELSE "String"

\* cache_key, with the cache of Symbols.
InSymCache == getKey = "cache_key" /\ keyCache = "sym"
SymbolLookup ==
  /\ InSymCache
  /\ \E k \in Keys : Lookup(k)
  /\ IF Idle' THEN Given(WantedKey, "Symbol", "none") ELSE given' = Nothing
  /\ UNCHANGED <<keyOptions, classOptions, defined>>
SymbolFormed ==
  /\ Insert
  /\ Given(WantedKey, "Symbol", "none")
  /\ UNCHANGED <<keyOptions, classOptions, defined>>

\* sym_key, str_key, and cache_key with the other cache.  What a cache that was freed
\* has in it is anything.
OtherKey ==
  /\ Idle /\ ~InSymCache
  /\ \/ getKey = "sym_key" /\ Given(WantedKey, "Symbol", "none")
     \/ getKey = "str_key" /\ Given(WantedKey, "String", "none")
     \/ getKey = "cache_key" /\ keyCache = "str" /\ Given(WantedKey, "String", "none")
     \/ getKey = "cache_key" /\ keyCache = "freed"
        /\ \E any \in {"Symbol", "String", "garbage"} : Given(WantedKey, any, "cache gone")
  /\ UNCHANGED <<vars, keyOptions, classOptions, defined>>

\* opt_cache_keys_set
SetCacheKeys(on) ==
  /\ Idle
  /\ cacheKeys' = on
  /\ getKey' = IF on THEN "cache_key" ELSE IF symCache THEN "sym_key" ELSE "str_key"
  /\ keyCache' = IF ~on THEN keyCache ELSE IF symCache THEN "sym" ELSE "str"
  /\ given' = Nothing
  /\ UNCHANGED <<vars, symCache, classOptions, defined>>

\* opt_symbol_keys_set.  Switched on twice, the first cache is lost; switched off, it is
\* freed under key_cache.  Variant: get_key is left as it was.
UncachedKept(fun) == getKey' = getKey
Uncached(fun)     == getKey' = IF cacheKeys THEN getKey ELSE fun
SymbolKeysOn ==
  /\ LoseCache
  /\ symCache' = TRUE /\ keyCache' = "sym" /\ Uncached("sym_key")
SymbolKeysOff ==
  /\ IF symCache THEN FreeCache ELSE Idle /\ UNCHANGED vars
  /\ symCache' = FALSE /\ Uncached("str_key")
  /\ keyCache' = IF keyCache = "sym" THEN "freed" ELSE keyCache
SetSymbolKeys ==
  /\ SymbolKeysOn \/ SymbolKeysOff
  /\ given' = Nothing
  /\ UNCHANGED <<cacheKeys, classOptions, defined>>

-----------------------------------------------------------------------------
(* Classes.                                                                   *)

\* form_class and form_class_auto, by resolve_classpath: the class or Qundef.
Formed(n, auto) == IF n \in defined \/ auto THEN "class" ELSE "undef"
Missed == IF missClass = "raise" THEN "raise" ELSE "string"
WantedClass(n) == IF Formed(n, missClass = "auto") = "class" THEN "class" ELSE Missed

Uses(n)  == classCache # NoCache /\ n \notin Long
Known(n) == Uses(n) /\ classCache.found[n] # "unset"
AutoFormed     == IF classCache = NoCache THEN missClass = "auto" ELSE classCache.form = "auto"
Found(n) == IF Known(n) THEN classCache.found[n] ELSE Formed(n, AutoFormed)

\* The cache goes on saying that there is no such class, and makes one itself if it was
\* created while others were to be made.
Blame(n) ==
  IF Known(n) THEN IF Found(n) = "undef" THEN "miss remembered" ELSE "none"
  ELSE IF AutoFormed /\ missClass # "auto" THEN "made by the cache" ELSE "none"

\* add_str_key_create, at the create_id.
CreateClass(n) ==
  /\ Idle
  /\ Given(WantedClass(n), IF Found(n) = "class" THEN "class" ELSE Missed, Blame(n))
  /\ defined' = IF Found(n) = "class" THEN defined \cup {n} ELSE defined
  /\ classCache' = IF Uses(n) THEN [classCache EXCEPT !.found[n] = Found(n)] ELSE classCache
  /\ UNCHANGED <<vars, keyOptions, missClass>>

\* opt_class_cache_set
SetClassCache(on) ==
  /\ Idle
  /\ classCache' = IF ~on THEN NoCache ELSE IF classCache # NoCache THEN classCache
                   ELSE [form |-> "auto", found |-> [n \in ClassNames |-> "unset"]]
  /\ given' = Nothing
  /\ UNCHANGED <<vars, keyOptions, missClass, defined>>

\* opt_missing_class_set, with cache_set_form
SetMissingClass(m) ==
  /\ Idle
  /\ missClass' = m
  /\ classCache' = IF classCache = NoCache THEN NoCache
                   ELSE [classCache EXCEPT !.form = IF m = "auto" THEN "auto" ELSE "plain"]
  /\ given' = Nothing
  /\ UNCHANGED <<vars, keyOptions, defined>>

\* cache_mark: an entry not asked for during some collections goes.
ClassExpunged ==
  /\ classCache # NoCache
  /\ \E n \in ClassNames : classCache.found[n] # "unset" /\ classCache' = [classCache EXCEPT !.found[n] = "unset"]
  /\ given' = Nothing
  /\ UNCHANGED <<vars, keyOptions, missClass, defined>>

\* Ruby code defines a class.
Define(n) ==
  /\ Idle /\ n \notin defined
  /\ defined' = defined \cup {n} /\ given' = Nothing
  /\ UNCHANGED <<vars, keyOptions, classOptions>>

OwnerNext ==
  \/ SymbolLookup \/ SymbolFormed \/ OtherKey
  \/ Upkeep /\ given' = Nothing /\ UNCHANGED <<keyOptions, classOptions, defined>>
  \/ SetSymbolKeys \/ \E on \in BOOLEAN : SetCacheKeys(on) \/ SetClassCache(on)
  \/ \E n \in ClassNames : CreateClass(n) \/ Define(n)
  \/ \E m \in {"auto", "ignore", "raise"} : SetMissingClass(m)
  \/ ClassExpunged

OwnerSpec == OwnerInit /\ [][OwnerNext]_ownerVars

-----------------------------------------------------------------------------
\* In whatever order the options are set, a key is a Symbol if symbol_keys says so and
\* a String if not, and a class that is missing is made, refused or left out as
\* missing_class says.  Excepted are what the code forgets: a cache of Symbols that was
\* freed is still looked in as long as keys are cached (and only then), and a class cache
\* keeps its misses, and makes classes until missing_class is set after it.
AsAsked ==
  /\ OwnerType
  /\ given.got # given.want => given.blame # "none"
  /\ getKey = "cache_key" /\ keyCache = "freed" => cacheKeys /\ ~symCache
=============================================================================

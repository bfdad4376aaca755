------------------------------ MODULE ConfigLoad ------------------------------
(***************************************************************************)
(* Loading the configuration (load_config of config.py): config.json and   *)
(* the drop-ins of config.d are merged one by one, what can be wrong with  *)
(* them is settled file by file, platform by platform, and the rest loads. *)
(*                                                                         *)
(* A file is a function from paths to values that are no objects; the      *)
(* objects are the prefixes.  A platform is what it declares at "regions", *)
(* with one deployment, and the helper it names; the levels below at which *)
(* a helper may be named are left out, and empty objects are.              *)
(***************************************************************************)
EXTENDS Integers, FiniteSets, SequencesExt

CONSTANTS
    NumDropIns,     \* files 1..NumDropIns of config.d, sorted; 0 is config.json
    ContentsOf,     \* ContentsOf[i]: what file i may declare
    Platforms,      \* names of platforms
    Helpers         \* names of token helpers

Files == 0..NumDropIns

Null == "null"      \* JSON null, or no such key
Good == "good"      \* a value of the right shape
Bad  == "bad"       \* one that fails validation

Here == "here"      \* the region, service or env of a deployment that is there
Gone == "gone"      \* one that is not

AllPlatforms    == <<"platforms">>
DefaultPlatform == <<"defaults", "platform">>
DefaultPaths    == <<DefaultPlatform, <<"defaults", "region">>,
                     <<"defaults", "service">>, <<"defaults", "env">> >>
DefaultHelper   == <<"defaults", "token_helper">>
Platform(p)     == <<"platforms", p>>
Regions(p)      == <<"platforms", p, "regions">>
HelperOf(p)     == <<"platforms", p, "token_helper">>
Helper(h)       == <<"token_helpers", h>>

Paths == {AllPlatforms, DefaultHelper} \cup {DefaultPaths[n] : n \in 1..4} \cup
         {Helper(h) : h \in Helpers} \cup UNION {{Platform(p), Regions(p), HelperOf(p)} : p \in Platforms}

Values == {Null, Good, Bad, Here, Gone} \cup Platforms \cup Helpers

(* One of the paths lies under the other. *)
Related(r, q) == IsPrefix(r, q) \/ IsPrefix(q, r)

ASSUME ContentsAssumption ==
    /\ NumDropIns \in Nat
    /\ Cardinality(Values) = 5 + Cardinality(Platforms) + Cardinality(Helpers)
    /\ \A i \in Files : \A c \in ContentsOf[i] :
          /\ DOMAIN c \subseteq Paths
          /\ \A r \in DOMAIN c : c[r] \in Values
          /\ \A r, q \in DOMAIN c : Related(r, q) => r = q
          /\ \A p \in Platforms : Platform(p) \in DOMAIN c => c[Platform(p)] = Bad
          /\ AllPlatforms \in DOMAIN c => c[AllPlatforms] = Null

VARIABLES
    files,          \* files[i]: what file i, of those opened, declares
    unreadable,     \* those of them with a stray comma
    place,          \* how far load_config is
    next,           \* the next file to read
    merged, owners, \* merged[r]: the value at r, owners[r]: the file that set it
    overrides,      \* <<path, earlier file, later file>>
    fileErrors,     \* drop-ins that were skipped
    todo,           \* platforms still to be validated
    platforms,      \* config.platforms
    platformErrors, \* platforms that failed
    defaults        \* platform, region, service and env of config.defaults

vars == <<files, unreadable, place, next, merged, owners, overrides, fileErrors,
          todo, platforms, platformErrors, defaults>>

given  == <<files, unreadable>>
merge  == <<merged, owners, overrides>>
config == <<platforms, platformErrors, defaults>>

(***************************************************************************)
(*   reading    merging the files                                          *)
(*   checking   config.platforms is filled platform by platform            *)
(*   loaded     load_config has returned                                   *)
(*   failed     it has raised ConfigError                                  *)
(***************************************************************************)
Places == {"reading", "checking", "loaded", "failed"}

NoDefaults == [n \in 1..4 |-> Null]

Init ==
    /\ files = << >>
    /\ unreadable = {}
    /\ place = "reading"
    /\ next = 0
    /\ merged = << >>
    /\ owners = << >>
    /\ overrides = {}
    /\ fileErrors = {}
    /\ todo = {}
    /\ platforms = {}
    /\ platformErrors = {}
    /\ defaults = NoDefaults

-----------------------------------------------------------------------------
(* _deep_merge.                                                            *)

(* f, and g wherever f is silent: TLC's @@, for the prover to see into. *)
Over(f, g) == [x \in DOMAIN f \cup DOMAIN g |-> IF x \in DOMAIN f THEN f[x] ELSE g[x]]

(* The paths of what is merged that a block leaves alone. *)
Left(block) == {q \in DOMAIN merged : \A r \in DOMAIN block : ~Related(q, r)}

(* Mutant: dict.update, which replaces top-level objects whole. *)
MergedShallow(block) ==
    Over(block, Restrict(merged, {q \in DOMAIN merged :
                                     \A r \in DOMAIN block : q[1] # r[1]}))

Merged(block) == Over(block, Restrict(merged, Left(block)))

(* Mutants: who sets a value first owns it for good, or what was replaced  *)
(* keeps its owner.                                                        *)
OwnersFirst(block) ==
    Over(Restrict(owners, DOMAIN owners \cap (Left(block) \cup DOMAIN block)),
         [r \in DOMAIN block |-> next])

OwnersKept(block) == Over([r \in DOMAIN block |-> next], owners)

Owners(block) == Over([r \in DOMAIN block |-> next], Restrict(owners, Left(block)))

Shorter(r, q) == IF IsPrefix(r, q) THEN r ELSE q

(* Mutant: only a value that replaces a value is reported. *)
OverriddenLeaves(block) ==
    {<<r, owners[r], next>> : r \in {q \in DOMAIN merged \cap DOMAIN block :
                                        merged[q] # block[q]}}

(* Restating a value is no override. *)
Overridden(block) ==
    LET clashes == {x \in (DOMAIN block) \X (DOMAIN merged) :
                       /\ Related(x[1], x[2])
                       /\ x[1] = x[2] => block[x[1]] # merged[x[2]]}
    IN  {<<Shorter(x[1], x[2]), owners[x[2]], next>> : x \in clashes}

(* The file turns out to declare this. *)
Open(block) ==
    /\ place = "reading"
    /\ files' = Over([i \in {next} |-> block], files)
    /\ next' = next + 1

Read(block) ==
    /\ Open(block)
    /\ merged' = Merged(block)
    /\ owners' = Owners(block)
    /\ overrides' = overrides \cup Overridden(block)
    /\ UNCHANGED <<unreadable, place, fileErrors, todo, config>>

(* Mutant: _read_config_file raises for a drop-in as for config.json. *)
FatalAlways(i) == i \in Files

Fatal(i) == i = 0

(* It has a stray comma: a drop-in is skipped, config.json is not. *)
Skip(block) ==
    /\ Open(block)
    /\ unreadable' = unreadable \cup {next}
    /\ IF Fatal(next) THEN place' = "failed" ELSE UNCHANGED place
    /\ fileErrors' = IF next = 0 THEN fileErrors ELSE fileErrors \cup {next}
    /\ UNCHANGED <<merge, todo, config>>

-----------------------------------------------------------------------------
Value(m, r) == IF r \in DOMAIN m THEN m[r] ELSE Null

DefaultsIn(m) == [n \in 1..4 |-> Value(m, DefaultPaths[n])]

Declared(m) == {p \in Platforms : \E r \in DOMAIN m : IsPrefix(Platform(p), r)}

HelpersOf(m) == {h \in Helpers : Helper(h) \in DOMAIN m}

(* "platforms" is an object, and Config.model_validate of all else. *)
SettingsValid(m) == /\ AllPlatforms \notin DOMAIN m
                    /\ \A r \in DOMAIN m : r[1] # "platforms" => m[r] # Bad

DefaultHelperFound(m) == Value(m, DefaultHelper) \in HelpersOf(m) \cup {Null}

(* The shape of a platform. *)
ShapeValid(m, p) == \A r \in DOMAIN m : IsPrefix(Platform(p), r) => m[r] # Bad

(* resolve_token_helper_name, of its deployment: most specific first. *)
Bound(m, p) == IF Value(m, HelperOf(p)) # Null THEN Value(m, HelperOf(p))
                                               ELSE Value(m, DefaultHelper)

(* A platform without a deployment may name any helper. *)
HelperFound(m, p) ==
    Regions(p) \in DOMAIN m => Bound(m, p) \in HelpersOf(m) \cup {Null}

ValidateSettings ==
    /\ place = "reading"
    /\ next > NumDropIns
    /\ IF SettingsValid(merged) /\ DefaultHelperFound(merged)
       THEN /\ place' = "checking"
            /\ todo' = Declared(merged)
            /\ defaults' = DefaultsIn(merged)
       ELSE /\ place' = "failed"
            /\ UNCHANGED <<todo, defaults>>
    /\ UNCHANGED <<given, next, merge, fileErrors, platforms, platformErrors>>

(* Mutant: a platform whose helper is missing is not popped. *)
LoadedUnpopped(p) == IF ShapeValid(merged, p) THEN platforms \cup {p} ELSE platforms

Loaded(p) == IF ShapeValid(merged, p) /\ HelperFound(merged, p)
             THEN platforms \cup {p} ELSE platforms

(* _load_platforms, one of them. *)
LoadPlatform(p) ==
    /\ place = "checking"
    /\ p \in todo
    /\ todo' = todo \ {p}
    /\ platforms' = Loaded(p)
    /\ platformErrors' = IF ShapeValid(merged, p) /\ HelperFound(merged, p)
                         THEN platformErrors ELSE platformErrors \cup {p}
    /\ UNCHANGED <<given, place, next, merge, fileErrors, defaults>>

(* Mutants: defaults are validated as they stand, or only the platform is  *)
(* dropped.                                                                *)
DefaultsUndropped(d) == d
DefaultPlatformDropped(d) == IF d[1] \in platformErrors THEN [d EXCEPT ![1] = Null] ELSE d

(* _drop_defaults_of_failed_platform *)
DefaultsLeft(d) == IF d[1] \in platformErrors THEN NoDefaults ELSE d

(* _validate_defaults: what follows the platform is looked up under it as  *)
(* far as it is set without a gap, and an env may have no gap before it.   *)
DefaultsFound(m, loaded, d) ==
    LET set(n) == \A k \in 1..n : d[k] # Null
    IN  /\ d[1] \in loaded \cup {Null}
        /\ \A n \in 2..4 : set(n) => d[n] = Here /\ Regions(d[1]) \in DOMAIN m
        /\ d[4] # Null => set(4)

Finish ==
    /\ place = "checking"
    /\ todo = {}
    /\ defaults' = DefaultsLeft(defaults)
    /\ place' = IF DefaultsFound(merged, platforms, DefaultsLeft(defaults))
                THEN "loaded" ELSE "failed"
    /\ UNCHANGED <<given, next, merge, fileErrors, todo, platforms, platformErrors>>

Next == \/ next \in Files /\ \E block \in ContentsOf[next] : Read(block) \/ Skip(block)
        \/ ValidateSettings \/ Finish
        \/ \E p \in Platforms : LoadPlatform(p)

Spec == Init /\ [][Next]_vars

-----------------------------------------------------------------------------
(* Every variable keeps its type, and what is merged has an owner.         *)
TypeOK ==
    /\ place \in Places
    /\ next \in 0..(NumDropIns + 1)
    /\ DOMAIN merged \subseteq Paths
    /\ \A r \in DOMAIN merged : merged[r] \in Values
    /\ DOMAIN owners = DOMAIN merged
    /\ \A r \in DOMAIN owners : owners[r] \in (DOMAIN files) \ unreadable
    /\ overrides \subseteq Paths \X Files \X Files
    /\ fileErrors \subseteq unreadable \ {0}
    /\ todo \cup platforms \cup platformErrors \subseteq Platforms
    /\ defaults \in [1..4 -> Values]

(* What a reader who has the files of a set open one beside the other      *)
(* finds at r: the last that declares it, unless a later one declares      *)
(* something above or below it.                                            *)
Setters(S, r) == {i \in S : /\ r \in DOMAIN files[i]
                            /\ \A j \in S : \A q \in DOMAIN files[j] :
                                  j > i => ~Related(q, r)}

Pasted(S) == [r \in {q \in Paths : Setters(S, q) # {}} |->
                 files[CHOOSE i \in Setters(S, r) : TRUE][r]]

Merging == (DOMAIN files) \ unreadable

(* "As if pasted into one file": whatever order objects, values and nulls  *)
(* replace one another in, the merge is what the files say read as one.    *)
PastedAsOne == merged = Pasted(Merging)

(* An error names the file to mend: every value that is in force is owned  *)
(* by the file it was last set in.                                         *)
OwnersSetTheirs ==
    \A r \in DOMAIN merged : Setters(Merging, r) = {owners[r]}

(* No file is overruled in silence: where a value a file declares is not   *)
(* in force, --check-config shows an override of it by a later file.       *)
NothingReplacedSilently ==
    \A i \in Merging : \A r \in DOMAIN files[i] :
        Value(merged, r) = files[i][r] \/
        \E o \in overrides : Related(o[1], r) /\ i <= o[2] /\ o[2] < o[3]

(* What is loaded works: a deployment of a loaded platform finds the       *)
(* helper it names, and the defaults lead to something that was loaded: as *)
(* far as they are set without a gap, a call that gives no more arguments  *)
(* finds the region, service and env they say.                             *)
LoadedPlatformsWork ==
    place = "loaded" =>
        /\ \A p \in platforms : Regions(p) \in DOMAIN merged =>
              Bound(merged, p) = Null \/ Helper(Bound(merged, p)) \in DOMAIN merged
        /\ defaults[1] \in platforms \cup {Null}
        /\ \A n \in 2..4 :
              (\A k \in 1..n : defaults[k] # Null) =>
                  defaults[n] = Here /\ Regions(defaults[1]) \in DOMAIN merged
        /\ platforms \cap platformErrors = {}
        /\ platforms \cup platformErrors = Declared(merged)

(* What is the matter with a configuration that no platform could be       *)
(* blamed for: the defaults are, unless they are those of a platform that  *)
(* is in error itself.                                                     *)
Unloadable(m) ==
    LET d == DefaultsIn(m)
    IN  \/ ~SettingsValid(m) \/ ~DefaultHelperFound(m)
        \/ ~DefaultsFound(m, Declared(m), d) /\
              ~(d[1] \in Declared(m) /\ ~(ShapeValid(m, d[1]) /\ HelperFound(m, d[1])))

(* "A platform that fails validation costs only itself": it never fails    *)
(* the load, not even as the default platform with a region, service and   *)
(* env of it by default.                                                   *)
NoPlatformIsFatal == place = "failed" /\ 0 \notin unreadable => Unloadable(merged)

(* config.py:299: an "unreadable one costs exactly what it declares".  A   *)
(* drop-in that declares platforms, the default platform not among them,   *)
(* can have any number of stray commas: what fails to load with them fails *)
(* without.  (It cannot if a file says "platforms": null, which only an    *)
(* object in a later file mends.)                                          *)
Settles(i) ==
    \E r \in DOMAIN files[i] :
        \/ r[1] # "platforms" \/ AllPlatforms \in {r} \cup DOMAIN merged
        \/ IsPrefix(Platform(Value(merged, DefaultPlatform)), r)

SkippedFilesCost ==
    place = "failed" /\ 0 \notin unreadable =>
        Unloadable(Pasted(DOMAIN files)) \/ \E i \in unreadable : Settles(i)

-----------------------------------------------------------------------------
(* config.py:13: "a file that fails to parse costs only what it declares". *)
(* A drop-in with a stray comma in it does not fail a configuration that   *)
(* would load without the comma; one that declares the default platform    *)
(* or the default helper does.                                             *)
FilesCostOnlyTheirs == place = "failed" /\ 0 \notin unreadable => Unloadable(Pasted(DOMAIN files))
=============================================================================

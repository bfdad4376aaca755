--------------------------- MODULE ConfigLoadProofs ---------------------------
(***************************************************************************)
(* Theorems about loading a configuration, for any number of drop-ins,     *)
(* whatever they declare, and any platforms and helpers.                   *)
(***************************************************************************)
EXTENDS ConfigLoad, TLAPS

USE ContentsAssumption DEF Files, Places

-----------------------------------------------------------------------------
(* Paths.                                                                  *)

(* A path lies under itself, *)
LEMMA PathsUnderThemselves == \A r \in Paths : IsPrefix(r, r)
<1> SUFFICES ASSUME NEW r \in Paths PROVE IsPrefix(r, r)
  OBVIOUS
<1>1. r \in {AllPlatforms, DefaultHelper} \/ \E n \in 1..4 : r = DefaultPaths[n]
      \/ (\E h \in Helpers : r = Helper(h))
      \/ (\E p \in Platforms : r \in {Platform(p), Regions(p), HelperOf(p)})
  BY DEF Paths
<1>2. CASE r \in {AllPlatforms, DefaultHelper}
  BY <1>2 DEF IsPrefix, AllPlatforms, DefaultHelper
<1>3. ASSUME NEW n \in 1..4, r = DefaultPaths[n] PROVE IsPrefix(r, r)
  <2>1. n = 1 \/ n = 2 \/ n = 3 \/ n = 4
    OBVIOUS
  <2> QED
    BY <1>3, <2>1 DEF IsPrefix, DefaultPaths, DefaultPlatform
<1>4. ASSUME NEW h \in Helpers, r = Helper(h) PROVE IsPrefix(r, r)
  BY <1>4 DEF IsPrefix, Helper
<1>5. ASSUME NEW p \in Platforms, r \in {Platform(p), Regions(p), HelperOf(p)} PROVE IsPrefix(r, r)
  BY <1>5 DEF IsPrefix, Platform, Regions, HelperOf
<1> QED
  BY <1>1, <1>2, <1>3, <1>4, <1>5

(* so it is related to itself, and relations are mutual. *)
LEMMA RelatedToItself == \A r \in Paths : Related(r, r)
BY PathsUnderThemselves DEF Related

(* Neither of two related paths comes first. *)
LEMMA RelatedMutual == \A r, q : Related(r, q) <=> Related(q, r)
BY DEF Related

(* The shorter of two related paths is a path, related to the other. *)
LEMMA ShorterRelated ==
    ASSUME NEW r \in Paths, NEW q \in Paths, Related(r, q)
    PROVE  Shorter(r, q) \in Paths /\ Related(Shorter(r, q), q)
BY RelatedToItself DEF Shorter, Related

-----------------------------------------------------------------------------
(***************************************************************************)
(* The files.  They are opened in order, each once.                        *)
(***************************************************************************)
FilesInOrder ==
    /\ next \in 0..(NumDropIns + 1)
    /\ DOMAIN files = 0..(next - 1)
    /\ \A i \in DOMAIN files : files[i] \in ContentsOf[i]
    /\ unreadable \subseteq DOMAIN files

(* What a file that is opened declares are paths, and their values. *)
LEMMA Blocks ==
    ASSUME NEW i \in Files, NEW c \in ContentsOf[i]
    PROVE  DOMAIN c \subseteq Paths /\ \A r \in DOMAIN c : c[r] \in Values
OBVIOUS

(* Opening one adds it to those that were open. *)
LEMMA Opened ==
    ASSUME FilesInOrder, next \in Files, NEW block \in ContentsOf[next], Open(block)
    PROVE  /\ next' = next + 1 /\ next \notin DOMAIN files
           /\ \A i \in DOMAIN files : i < next
           /\ DOMAIN files' = DOMAIN files \cup {next}
           /\ files'[next] = block
           /\ \A i \in DOMAIN files : files'[i] = files[i]
           /\ place = "reading"
BY DEF FilesInOrder, Open, Over

(* They stay in order. *)
LEMMA OrderInit == Init => FilesInOrder
BY DEF Init, FilesInOrder

(* Opening a file keeps them in order. *)
LEMMA OrderKept ==
    ASSUME FilesInOrder, next \in Files, NEW block \in ContentsOf[next], Open(block),
           unreadable' \in {unreadable, unreadable \cup {next}}
    PROVE  FilesInOrder'
<1>1. next' = next + 1 /\ DOMAIN files' = DOMAIN files \cup {next}
  BY Opened
<1>2. \A i \in DOMAIN files' : files'[i] \in ContentsOf[i]
  BY <1>1, Opened DEF FilesInOrder
<1>3. DOMAIN files' = 0..(next' - 1)
  BY <1>1 DEF FilesInOrder
<1> QED
  BY <1>1, <1>2, <1>3 DEF FilesInOrder

(* Who sets a path after a file is read: that file, if it declares it,     *)
(* nobody, if it declares something related, and who did before otherwise. *)
LEMMA ReadSetters ==
    ASSUME FilesInOrder, next \in Files, NEW block \in ContentsOf[next], Read(block),
           NEW r \in Paths
    PROVE  Setters(Merging, r)' =
              IF r \in DOMAIN block THEN {next}
              ELSE IF \E q \in DOMAIN block : Related(q, r) THEN {}
              ELSE Setters(Merging, r)
<1>1. Open(block) /\ unreadable' = unreadable
  BY DEF Read
<1>2. Merging' = Merging \cup {next} /\ Merging \subseteq DOMAIN files /\ next \notin Merging
  BY <1>1, Opened DEF Merging, FilesInOrder
<1>3. /\ files'[next] = block
      /\ \A i \in Merging : files'[i] = files[i] /\ i < next /\ ~(next < i)
  BY <1>1, <1>2, Opened DEF FilesInOrder
<1>4. \A i : i \in Setters(Merging, r)' <=>
             /\ i \in Merging \cup {next} /\ r \in DOMAIN files'[i]
             /\ \A j \in Merging \cup {next} : \A q \in DOMAIN files'[j] : j > i => ~Related(q, r)
  BY <1>2 DEF Setters
<1>5. \A i \in Merging : i \in Setters(Merging, r)' <=>
             i \in Setters(Merging, r) /\ \A q \in DOMAIN block : ~Related(q, r)
  BY <1>3, <1>4 DEF Setters
<1>6. next \in Setters(Merging, r)' <=> r \in DOMAIN block
  BY <1>3, <1>4 DEF FilesInOrder
<1>7. r \in DOMAIN block => \E q \in DOMAIN block : Related(q, r)
  BY RelatedToItself
<1>8. Setters(Merging, r)' \subseteq Merging \cup {next} /\ Setters(Merging, r) \subseteq Merging
  BY <1>4 DEF Setters
<1> QED
  BY <1>5, <1>6, <1>7, <1>8

(* A file that cannot be read sets nothing. *)
LEMMA SkipSetters ==
    ASSUME FilesInOrder, next \in Files, NEW block \in ContentsOf[next], Skip(block), NEW r
    PROVE  Setters(Merging, r)' = Setters(Merging, r)
<1>1. Open(block) /\ unreadable' = unreadable \cup {next}
  BY DEF Skip
<1>2. Merging' = Merging /\ Merging \subseteq DOMAIN files
  BY <1>1, Opened DEF Merging
<1>3. \A i \in Merging : files'[i] = files[i]
  BY <1>1, <1>2, Opened
<1> QED
  BY <1>2, <1>3 DEF Setters

-----------------------------------------------------------------------------
(***************************************************************************)
(* The merge.                                                              *)
(***************************************************************************)

(* What is read replaces what is related to it, and takes its place. *)
LEMMA ReadMerge ==
    ASSUME TypeOK, FilesInOrder, next \in Files, NEW block \in ContentsOf[next], Read(block)
    PROVE  /\ DOMAIN merged' = DOMAIN block \cup Left(block) /\ DOMAIN owners' = DOMAIN merged'
           /\ merged' = [r \in DOMAIN merged' |-> merged'[r]]
           /\ \A r \in DOMAIN block : merged'[r] = block[r] /\ owners'[r] = next
           /\ \A r \in DOMAIN merged' \ DOMAIN block :
                 /\ r \in DOMAIN merged /\ \A q \in DOMAIN block : ~Related(q, r)
                 /\ merged'[r] = merged[r] /\ owners'[r] = owners[r]
<1>1. merged' = Merged(block) /\ owners' = Owners(block)
  BY DEF Read
<1>2. Left(block) \subseteq DOMAIN merged /\ DOMAIN owners = DOMAIN merged
  BY DEF Left, TypeOK
<1>3. \A r \in Left(block), q \in DOMAIN block : ~Related(q, r)
  BY RelatedMutual DEF Left
<1> QED
  BY <1>1, <1>2, <1>3 DEF Merged, Owners, Over, Restrict

(* An override is of a path, by a later file than the one that had set it. *)
LEMMA OverridesType ==
    ASSUME TypeOK, FilesInOrder, next \in Files, NEW block \in ContentsOf[next], Open(block)
    PROVE  Overridden(block) \subseteq Paths \X Files \X Files
<1> SUFFICES ASSUME NEW r \in DOMAIN block, NEW q \in DOMAIN merged, Related(r, q)
             PROVE  <<Shorter(r, q), owners[q], next>> \in Paths \X Files \X Files
  BY DEF Overridden
<1>1. r \in Paths /\ q \in Paths
  BY Blocks DEF TypeOK
<1>2. Shorter(r, q) \in Paths
  BY <1>1 DEF Shorter
<1>3. owners[q] \in Files
  BY DEF TypeOK, FilesInOrder
<1> QED
  BY <1>2, <1>3

(* The types hold to begin with, *)
LEMMA TypeInit == Init => TypeOK
<1> SUFFICES ASSUME Init PROVE TypeOK
  OBVIOUS
<1>1. DOMAIN merged = {} /\ DOMAIN owners = {} /\ DOMAIN files = {}
  BY DEF Init
<1>2. defaults \in [1..4 -> Values]
  BY DEF Init, NoDefaults, Values
<1> QED
  BY <1>1, <1>2 DEF Init, TypeOK

(* and no step leaves them. *)
LEMMA TypeRead ==
    ASSUME TypeOK, FilesInOrder, next \in Files, NEW block \in ContentsOf[next], Read(block)
    PROVE  TypeOK'
<1>1. Open(block) /\ UNCHANGED <<unreadable, place, fileErrors, todo, platforms, platformErrors, defaults>>
  BY DEF Read, config
<1>2. next' \in 0..(NumDropIns + 1)
  BY <1>1, Opened
<1>3. DOMAIN merged' \subseteq Paths /\ \A r \in DOMAIN merged' : merged'[r] \in Values
  <2>1. DOMAIN merged' \subseteq Paths
    BY ReadMerge, Blocks DEF TypeOK
  <2>2. ASSUME NEW r \in DOMAIN merged' PROVE merged'[r] \in Values
    <3>1. CASE r \in DOMAIN block
      BY <3>1, ReadMerge, Blocks
    <3>2. CASE r \notin DOMAIN block
      <4>1. r \in DOMAIN merged /\ merged'[r] = merged[r]
        BY <2>2, <3>2, ReadMerge
      <4> QED
        BY <4>1 DEF TypeOK
    <3> QED
      BY <3>1, <3>2
  <2> QED
    BY <2>1, <2>2
<1>4. \A r \in DOMAIN owners' : owners'[r] \in (DOMAIN files)' \ unreadable'
  <2>1. next \in (DOMAIN files)' \ unreadable' /\ DOMAIN files \subseteq (DOMAIN files)'
    BY <1>1, Opened DEF FilesInOrder
  <2> QED
    BY <1>1, <2>1, ReadMerge DEF TypeOK
<1>5. overrides' \subseteq Paths \X Files \X Files
  BY <1>1, OverridesType DEF Read, TypeOK
<1> QED
  BY <1>1, <1>2, <1>3, <1>4, <1>5, ReadMerge DEF TypeOK

(* Skipping a file keeps the types. *)
LEMMA TypeSkip ==
    ASSUME TypeOK, FilesInOrder, next \in Files, NEW block \in ContentsOf[next], Skip(block)
    PROVE  TypeOK'
<1>1. /\ Open(block) /\ unreadable' = unreadable \cup {next}
      /\ fileErrors' = IF next = 0 THEN fileErrors ELSE fileErrors \cup {next}
      /\ place' \in {"failed", place}
      /\ UNCHANGED <<merged, owners, overrides, todo, platforms, platformErrors, defaults>>
  BY DEF Skip, merge, config
<1>2. next' \in 0..(NumDropIns + 1)
  BY <1>1, Opened
<1>3. \A r \in DOMAIN owners' : owners'[r] \in (DOMAIN files)' \ unreadable'
  BY <1>1, Opened DEF TypeOK
<1> QED
  BY <1>1, <1>2, <1>3 DEF TypeOK

(* What follows the files keeps the types. *)
LEMMA TypeLater ==
    ASSUME TypeOK, ValidateSettings \/ Finish \/ \E p \in Platforms : LoadPlatform(p)
    PROVE  TypeOK'
<1> USE DEF TypeOK, given, merge
<1>1. CASE ValidateSettings
  <2>1. Declared(merged) \subseteq Platforms
    BY DEF Declared
  <2>2. DefaultsIn(merged) \in [1..4 -> Values]
    BY DEF DefaultsIn, Value, Values
  <2> QED
    BY <1>1, <2>1, <2>2 DEF ValidateSettings
<1>2. CASE Finish
  <2>1. DefaultsLeft(defaults) \in [1..4 -> Values]
    BY DEF DefaultsLeft, NoDefaults, Values
  <2> QED
    BY <1>2, <2>1 DEF Finish
<1>3. ASSUME NEW p \in Platforms, LoadPlatform(p) PROVE TypeOK'
  BY <1>3 DEF LoadPlatform, Loaded
<1> QED
  BY <1>1, <1>2, <1>3

(* Types and files together are inductive. *)
FileInv == TypeOK /\ FilesInOrder

(* Every step keeps types and order. *)
LEMMA FileStep == FileInv /\ [Next]_vars => FileInv'
<1> SUFFICES ASSUME FileInv, [Next]_vars PROVE FileInv'
  OBVIOUS
<1> USE DEF FileInv
<1>1. ASSUME next \in Files, NEW block \in ContentsOf[next], Read(block) PROVE FileInv'
  BY <1>1, TypeRead, OrderKept DEF Read
<1>2. ASSUME next \in Files, NEW block \in ContentsOf[next], Skip(block) PROVE FileInv'
  BY <1>2, TypeSkip, OrderKept DEF Skip
<1>3. CASE ValidateSettings \/ Finish \/ \E p \in Platforms : LoadPlatform(p)
  BY <1>3, TypeLater DEF ValidateSettings, Finish, LoadPlatform, given, FilesInOrder
<1>4. CASE UNCHANGED vars
  BY <1>4 DEF vars, TypeOK, FilesInOrder
<1> QED
  BY <1>1, <1>2, <1>3, <1>4 DEF Next

(* Types and order hold throughout. *)
LEMMA FileAlways == Spec => []FileInv
<1>1. Init => FileInv
  BY TypeInit, OrderInit DEF FileInv
<1> QED
  BY <1>1, FileStep, PTL DEF Spec

(* Every variable keeps its type, and what is merged has an owner. *)
THEOREM TypeCorrect == Spec => []TypeOK
<1>1. FileInv => TypeOK
  BY DEF FileInv
<1> QED
  BY <1>1, FileAlways, PTL

-----------------------------------------------------------------------------
(***************************************************************************)
(* The merge and the files.  What is in force at a path is what its only   *)
(* setter declares there, and a path with a setter is in force.            *)
(***************************************************************************)
InForce ==
    \A r \in DOMAIN merged : /\ Setters(Merging, r) = {owners[r]}
                             /\ merged[r] = files[owners[r]][r]

AllInForce == \A r \in Paths : Setters(Merging, r) # {} => r \in DOMAIN merged

(* A value that a file declares stays in force, as its own or restated by  *)
(* a later file, until an override of it is reported.                      *)
InForceOrReported ==
    \A i \in Merging : \A r \in DOMAIN files[i] :
        \/ r \in DOMAIN merged /\ merged[r] = files[i][r] /\ i <= owners[r]
        \/ \E o \in overrides : Related(o[1], r) /\ i <= o[2] /\ o[2] < o[3]

MergeIsFunction == merged = [r \in DOMAIN merged |-> merged[r]]

MergeInv == FileInv /\ InForce /\ AllInForce /\ InForceOrReported /\ MergeIsFunction

(* Nothing is declared to begin with. *)
LEMMA MergeInit == Init => MergeInv
<1> SUFFICES ASSUME Init PROVE MergeInv
  OBVIOUS
<1>1. DOMAIN merged = {} /\ DOMAIN files = {} /\ Merging = {}
  BY DEF Init, Merging
<1>2. \A r : Setters(Merging, r) = {}
  BY <1>1 DEF Setters
<1>3. merged = [r \in DOMAIN merged |-> merged[r]]
  BY DEF Init
<1> QED
  BY <1>1, <1>2, <1>3, TypeInit, OrderInit
     DEF MergeInv, FileInv, InForce, AllInForce, InForceOrReported, MergeIsFunction

(* A file that is read: what it declares is in force as its own, *)
LEMMA ReadInForce ==
    ASSUME MergeInv, next \in Files, NEW block \in ContentsOf[next], Read(block)
    PROVE  InForce' /\ AllInForce' /\ MergeIsFunction'
<1> USE DEF MergeInv, FileInv
<1>1. Open(block) /\ DOMAIN block \subseteq Paths /\ DOMAIN merged \subseteq Paths
  BY Blocks DEF Read, TypeOK
<1>2. ASSUME NEW r \in DOMAIN merged'
      PROVE  Setters(Merging, r)' = {owners'[r]} /\ merged'[r] = files'[owners'[r]][r]
  <2>1. CASE r \in DOMAIN block
    <3>1. Setters(Merging, r)' = {next}
      BY <1>1, <2>1, ReadSetters
    <3>2. merged'[r] = block[r] /\ owners'[r] = next
      BY <2>1, ReadMerge
    <3>3. files'[next] = block
      BY <1>1, Opened
    <3> QED
      BY <3>1, <3>2, <3>3
  <2>2. CASE r \notin DOMAIN block
    <3>1. /\ r \in DOMAIN merged /\ \A q \in DOMAIN block : ~Related(q, r)
          /\ merged'[r] = merged[r] /\ owners'[r] = owners[r]
      BY <1>2, <2>2, ReadMerge
    <3>2. Setters(Merging, r)' = Setters(Merging, r)
      BY <1>1, <2>2, <3>1, ReadSetters
    <3>3. files'[owners[r]] = files[owners[r]]
      BY <1>1, <3>1, Opened DEF TypeOK
    <3> QED
      BY <3>1, <3>2, <3>3 DEF InForce
  <2> QED
    BY <2>1, <2>2
<1>3. ASSUME NEW r \in Paths, Setters(Merging, r)' # {} PROVE r \in DOMAIN merged'
  <2>1. CASE r \in DOMAIN block
    BY <2>1, ReadMerge
  <2>2. CASE r \notin DOMAIN block
    <3>1. Setters(Merging, r) # {} /\ \A q \in DOMAIN block : ~Related(q, r)
      BY <1>3, <2>2, ReadSetters
    <3>2. r \in DOMAIN merged
      BY <3>1 DEF AllInForce
    <3>3. r \in Left(block)
      BY <3>1, <3>2, RelatedMutual DEF Left
    <3> QED
      BY <3>3, ReadMerge
  <2> QED
    BY <2>1, <2>2
<1>4. MergeIsFunction'
  BY ReadMerge DEF MergeIsFunction
<1> QED
  BY <1>2, <1>3, <1>4 DEF InForce, AllInForce

(* and what it puts out of force is reported. *)
LEMMA ReadReported ==
    ASSUME MergeInv, next \in Files, NEW block \in ContentsOf[next], Read(block)
    PROVE  InForceOrReported'
<1> USE DEF MergeInv, FileInv
<1>1. /\ Open(block) /\ overrides' = overrides \cup Overridden(block)
      /\ DOMAIN block \subseteq Paths /\ DOMAIN merged \subseteq Paths /\ next \in Int
  BY Blocks DEF Read, TypeOK
<1>2. Merging' = Merging \cup {next} /\ Merging \subseteq DOMAIN files
  BY <1>1, Opened DEF Merging, FilesInOrder, Read
<1> SUFFICES ASSUME NEW i \in Merging', NEW r \in DOMAIN files'[i]
             PROVE  \/ r \in DOMAIN merged' /\ merged'[r] = files'[i][r] /\ i <= owners'[r]
                    \/ \E o \in overrides' : Related(o[1], r) /\ i <= o[2] /\ o[2] < o[3]
  BY DEF InForceOrReported
<1>3. CASE i = next
  <2>1. files'[i] = block
    BY <1>1, <1>3, Opened
  <2>2. r \in DOMAIN merged' /\ merged'[r] = block[r] /\ owners'[r] = next
    BY <2>1, ReadMerge
  <2> QED
    BY <1>1, <1>3, <2>1, <2>2
<1>4. CASE i \in Merging
  <2>1. r \in DOMAIN files[i] /\ files'[i] = files[i] /\ r \in Paths /\ i \in Int
    BY <1>1, <1>2, <1>4, Opened, Blocks DEF FilesInOrder
  <2>2. CASE \E o \in overrides : Related(o[1], r) /\ i <= o[2] /\ o[2] < o[3]
    BY <1>1, <2>2
  <2>3. CASE r \in DOMAIN merged /\ merged[r] = files[i][r] /\ i <= owners[r]
    <3>1. owners[r] \in DOMAIN files /\ owners[r] < next /\ owners[r] \in Int
      BY <1>1, <2>3, Opened DEF TypeOK, FilesInOrder
    <3>2. CASE r \in DOMAIN block /\ block[r] = merged[r]
      <4>1. r \in DOMAIN merged' /\ merged'[r] = block[r] /\ owners'[r] = next
        BY <3>2, ReadMerge
      <4> QED
        BY <1>1, <2>1, <2>3, <3>1, <3>2, <4>1
    <3>3. ASSUME NEW q \in DOMAIN block, Related(q, r), q = r => block[q] # merged[r]
          PROVE  \E o \in overrides' : Related(o[1], r) /\ i <= o[2] /\ o[2] < o[3]
      <4> DEFINE o == <<Shorter(q, r), owners[r], next>>
      <4>1. o \in Overridden(block)
        <5>1. /\ <<q, r>> \in (DOMAIN block) \X (DOMAIN merged)
              /\ <<q, r>>[1] = q /\ <<q, r>>[2] = r
          BY <2>3
        <5> QED
          BY <3>3, <5>1 DEF Overridden
      <4>2. Related(o[1], r) /\ i <= o[2] /\ o[2] < o[3]
        BY <1>1, <2>1, <2>3, <3>1, <3>3, ShorterRelated
      <4> HIDE DEF o
      <4> QED
        BY <1>1, <4>1, <4>2
    <3>4. CASE \A q \in DOMAIN block : ~Related(q, r)
      <4>1. r \in Left(block) /\ r \notin DOMAIN block
        BY <2>1, <2>3, <3>4, RelatedToItself, RelatedMutual DEF Left
      <4> QED
        <5>1. r \in DOMAIN merged' \ DOMAIN block
          BY <4>1, ReadMerge
        <5>2. merged'[r] = merged[r] /\ owners'[r] = owners[r]
          BY <5>1, ReadMerge
        <5> QED
          BY <2>1, <2>3, <5>1, <5>2
    <3> QED
      BY <2>1, <3>2, <3>3, <3>4, RelatedToItself
  <2> QED
    BY <1>4, <2>1, <2>2, <2>3 DEF InForceOrReported
<1> QED
  BY <1>2, <1>3, <1>4

(* A file that is skipped changes nothing of this. *)
LEMMA SkipMerge ==
    ASSUME MergeInv, next \in Files, NEW block \in ContentsOf[next], Skip(block)
    PROVE  InForce' /\ AllInForce' /\ InForceOrReported' /\ MergeIsFunction'
<1> USE DEF MergeInv, FileInv
<1>1. Open(block) /\ unreadable' = unreadable \cup {next} /\ UNCHANGED <<merged, owners, overrides>>
  BY DEF Skip, merge
<1>2. \A i \in DOMAIN files : files'[i] = files[i]
  BY <1>1, Opened
<1>3. Merging' = Merging /\ Merging \subseteq DOMAIN files
  BY <1>1, Opened DEF Merging
<1>4. \A r : Setters(Merging, r)' = Setters(Merging, r)
  BY SkipSetters
<1>5. \A r \in DOMAIN owners : owners[r] \in DOMAIN files
  BY DEF TypeOK
<1>6. InForce'
  BY <1>1, <1>2, <1>4, <1>5 DEF InForce, TypeOK
<1>7. AllInForce' /\ MergeIsFunction'
  BY <1>1, <1>4 DEF AllInForce, MergeIsFunction
<1>8. InForceOrReported'
  BY <1>1, <1>2, <1>3 DEF InForceOrReported
<1> QED
  BY <1>6, <1>7, <1>8

(* Reading a file merges it, and no other step touches the merge. *)
LEMMA MergeStep == MergeInv /\ [Next]_vars => MergeInv'
<1> SUFFICES ASSUME MergeInv, [Next]_vars
             PROVE  InForce' /\ AllInForce' /\ InForceOrReported' /\ MergeIsFunction'
  BY FileStep DEF MergeInv
<1>1. ASSUME UNCHANGED <<files, unreadable, merged, owners, overrides>>
      PROVE  InForce' /\ AllInForce' /\ InForceOrReported' /\ MergeIsFunction'
  <2>1. Merging' = Merging /\ \A r : Setters(Merging, r)' = Setters(Merging, r)
    BY <1>1 DEF Merging, Setters
  <2> QED
    BY <1>1, <2>1 DEF MergeInv, InForce, AllInForce, InForceOrReported, MergeIsFunction
<1>2. CASE ValidateSettings \/ Finish \/ (\E p \in Platforms : LoadPlatform(p)) \/ UNCHANGED vars
  BY <1>1, <1>2 DEF ValidateSettings, Finish, LoadPlatform, given, merge, vars
<1> QED
  BY <1>2, ReadInForce, ReadReported, SkipMerge DEF Next

(* The merge is what it should be throughout. *)
LEMMA MergeAlways == Spec => []MergeInv
BY MergeInit, MergeStep, PTL DEF Spec

(* Every value in force is owned by the file it was last set in. *)
THEOREM ErrorsNameTheFile == Spec => []OwnersSetTheirs
<1>1. MergeInv => OwnersSetTheirs
  BY DEF MergeInv, InForce, OwnersSetTheirs
<1> QED
  BY <1>1, MergeAlways, PTL

(* Whatever the order in which objects, values and nulls replace one       *)
(* another, the merge is what the files say read as one.                   *)
LEMMA MergePasted == MergeInv => merged = Pasted(Merging)
<1> SUFFICES ASSUME MergeInv PROVE merged = Pasted(Merging)
  OBVIOUS
<1> USE DEF MergeInv
<1> DEFINE D == {q \in Paths : Setters(Merging, q) # {}}
<1>1. DOMAIN merged = D
  BY DEF InForce, AllInForce, FileInv, TypeOK
<1>2. ASSUME NEW r \in D PROVE merged[r] = files[CHOOSE i \in Setters(Merging, r) : TRUE][r]
  <2>1. r \in DOMAIN merged /\ Setters(Merging, r) = {owners[r]}
    BY <1>1, <1>2 DEF InForce
  <2>2. (CHOOSE i \in Setters(Merging, r) : TRUE) \in Setters(Merging, r)
    BY <2>1
  <2>3. (CHOOSE i \in Setters(Merging, r) : TRUE) = owners[r]
    BY <2>1, <2>2
  <2> QED
    BY <2>1, <2>3 DEF InForce
<1> HIDE DEF D
<1>3. merged = [r \in D |-> merged[r]]
  BY <1>1 DEF MergeIsFunction
<1>4. merged = [r \in D |-> files[CHOOSE i \in Setters(Merging, r) : TRUE][r]]
  BY <1>2, <1>3
<1> QED
  BY <1>4 DEF Pasted, D

(* The merge is what the readable files say, read as one. *)
THEOREM AsIfPasted == Spec => []PastedAsOne
<1>1. MergeInv => PastedAsOne
  BY MergePasted DEF PastedAsOne
<1> QED
  BY <1>1, MergeAlways, PTL

(* Where a value a file declares is not in force, an override of it by a   *)
(* later file is shown.                                                    *)
THEOREM NothingInSilence == Spec => []NothingReplacedSilently
<1>1. MergeInv => NothingReplacedSilently
  BY DEF MergeInv, InForceOrReported, NothingReplacedSilently, Value
<1> QED
  BY <1>1, MergeAlways, PTL

-----------------------------------------------------------------------------
(***************************************************************************)
(* What is loaded.  The platforms declared are those still to be           *)
(* validated, those loaded and those in error, each one of them; a load    *)
(* fails only for what no platform could be blamed for.                    *)
(***************************************************************************)
Sorted ==
    /\ place = "reading" => platforms = {} /\ platformErrors = {}
    /\ place \in {"checking", "loaded"} =>
          /\ todo \cup platforms \cup platformErrors = Declared(merged)
          /\ platforms \cap platformErrors = {}
          /\ todo \cap (platforms \cup platformErrors) = {}

LoadedIsValid == \A p \in platforms : ShapeValid(merged, p) /\ HelperFound(merged, p)

DefaultsChecked ==
    /\ place = "checking" => defaults = DefaultsIn(merged)
    /\ place = "loaded" => todo = {} /\ DefaultsFound(merged, platforms, defaults)

LoadInv == Sorted /\ LoadedIsValid /\ DefaultsChecked /\ NoPlatformIsFatal

(* Defaults that are dropped lead nowhere wrong. *)
LEMMA NoDefaultsFound == \A m, loaded : DefaultsFound(m, loaded, NoDefaults)
BY DEF DefaultsFound, NoDefaults

(* Defaults that were not lead as far as they would with every platform    *)
(* declared, if theirs is loaded or not declared.                          *)
LEMMA DefaultsOfLoaded ==
    ASSUME NEW m, NEW P, NEW Q, NEW d, d[1] \in P <=> d[1] \in Q
    PROVE  DefaultsFound(m, P, d) <=> DefaultsFound(m, Q, d)
BY DEF DefaultsFound

(* To begin with, *)
LEMMA LoadInit == Init => LoadInv
BY DEF Init, LoadInv, Sorted, LoadedIsValid, DefaultsChecked, NoPlatformIsFatal

(* while the files are read, *)
LEMMA ReadLoad ==
    ASSUME FileInv, LoadInv, next \in Files, NEW block \in ContentsOf[next],
           Read(block) \/ Skip(block)
    PROVE  LoadInv'
<1>1. /\ place = "reading" /\ platforms = {} /\ platformErrors = {}
      /\ UNCHANGED <<todo, platforms, platformErrors, defaults>>
  BY DEF Read, Skip, Open, config, LoadInv, Sorted
<1>2. place' = "reading" \/ (place' = "failed" /\ 0 \in unreadable')
  <2>1. CASE Read(block)
    BY <1>1, <2>1 DEF Read
  <2>2. CASE Skip(block)
    BY <1>1, <2>2 DEF Skip, Fatal
  <2> QED
    BY <2>1, <2>2
<1> QED
  BY <1>1, <1>2 DEF LoadInv, Sorted, LoadedIsValid, DefaultsChecked, NoPlatformIsFatal

(* when the settings are validated, *)
LEMMA SettingsLoad ==
    ASSUME LoadInv, ValidateSettings
    PROVE  LoadInv'
<1>1. /\ place = "reading" /\ platforms = {} /\ platformErrors = {}
      /\ UNCHANGED <<unreadable, merged, platforms, platformErrors>>
  BY DEF ValidateSettings, given, merge, LoadInv, Sorted
<1>2. CASE SettingsValid(merged) /\ DefaultHelperFound(merged)
  <2>1. place' = "checking" /\ todo' = Declared(merged) /\ defaults' = DefaultsIn(merged)
    BY <1>2 DEF ValidateSettings
  <2>2. Declared(merged)' = Declared(merged) /\ DefaultsIn(merged)' = DefaultsIn(merged)
    BY <1>1 DEF Declared, DefaultsIn, Value
  <2> QED
    BY <1>1, <2>1, <2>2 DEF LoadInv, Sorted, LoadedIsValid, DefaultsChecked, NoPlatformIsFatal
<1>3. CASE ~(SettingsValid(merged) /\ DefaultHelperFound(merged))
  <2>1. place' = "failed"
    BY <1>3 DEF ValidateSettings
  <2>2. Unloadable(merged)'
    BY <1>1, <1>3 DEF Unloadable, SettingsValid, DefaultHelperFound, HelpersOf, Value
  <2> QED
    BY <1>1, <2>1, <2>2 DEF LoadInv, Sorted, LoadedIsValid, DefaultsChecked, NoPlatformIsFatal
<1> QED
  BY <1>2, <1>3

(* as each platform is, *)
LEMMA PlatformLoad ==
    ASSUME LoadInv, NEW p \in Platforms, LoadPlatform(p)
    PROVE  LoadInv'
<1> DEFINE valid == ShapeValid(merged, p) /\ HelperFound(merged, p)
<1>1. /\ place = "checking" /\ p \in todo /\ todo' = todo \ {p}
      /\ platforms' = (IF valid THEN platforms \cup {p} ELSE platforms)
      /\ platformErrors' = (IF valid THEN platformErrors ELSE platformErrors \cup {p})
      /\ UNCHANGED <<unreadable, place, merged, defaults>>
  BY DEF LoadPlatform, Loaded, given, merge
<1>2. \A q : /\ ShapeValid(merged, q)' = ShapeValid(merged, q)
             /\ HelperFound(merged, q)' = HelperFound(merged, q)
  BY <1>1 DEF ShapeValid, HelperFound, Bound, HelpersOf, Value
<1>3. LoadedIsValid'
  BY <1>1, <1>2 DEF LoadInv, LoadedIsValid
<1>4. Declared(merged)' = Declared(merged) /\ DefaultsIn(merged)' = DefaultsIn(merged)
  BY <1>1 DEF Declared, DefaultsIn, Value
<1> HIDE DEF valid
<1>5. Sorted'
  BY <1>1, <1>4 DEF LoadInv, Sorted
<1> QED
  BY <1>1, <1>3, <1>4, <1>5 DEF LoadInv, DefaultsChecked, NoPlatformIsFatal

(* and in the end: defaults that fail are those of no platform in error.   *)
LEMMA DefaultsBlamed ==
    ASSUME LoadInv, Finish, place' = "failed"
    PROVE  Unloadable(merged)
<1> DEFINE d == DefaultsIn(merged)
<1>1. /\ defaults = d /\ platforms \cup platformErrors = Declared(merged)
      /\ platforms \cap platformErrors = {}
  BY DEF Finish, LoadInv, Sorted, DefaultsChecked
<1>2. ~DefaultsFound(merged, platforms, DefaultsLeft(defaults))
  BY DEF Finish
<1> HIDE DEF d
<1>3. d[1] \notin platformErrors /\ ~DefaultsFound(merged, platforms, d)
  BY <1>1, <1>2, NoDefaultsFound DEF DefaultsLeft
<1>4. d[1] \in platforms <=> d[1] \in Declared(merged)
  BY <1>1, <1>3
<1>5. ~DefaultsFound(merged, Declared(merged), d)
  BY <1>3, <1>4, DefaultsOfLoaded
<1>6. d[1] \in Declared(merged) => ShapeValid(merged, d[1]) /\ HelperFound(merged, d[1])
  BY <1>4 DEF LoadInv, LoadedIsValid
<1> QED
  BY <1>5, <1>6 DEF Unloadable, d

(* The end of the load checks what it leaves. *)
LEMMA FinishLoad ==
    ASSUME LoadInv, Finish
    PROVE  LoadInv'
<1>1. /\ place = "checking" /\ todo = {} /\ place' \in {"loaded", "failed"}
      /\ defaults' = DefaultsLeft(defaults)
      /\ UNCHANGED <<unreadable, merged, todo, platforms, platformErrors>>
  BY DEF Finish, given, merge
<1>2. place' = "loaded" => DefaultsFound(merged, platforms, DefaultsLeft(defaults))
  BY DEF Finish
<1>3. DefaultsFound(merged, platforms, defaults)' <=> DefaultsFound(merged, platforms, DefaultsLeft(defaults))
  BY <1>1 DEF DefaultsFound
<1>4. DefaultsChecked'
  BY <1>1, <1>2, <1>3 DEF DefaultsChecked
<1>5. Sorted'
  BY <1>1 DEF LoadInv, Sorted, Declared
<1>6. LoadedIsValid'
  BY <1>1 DEF LoadInv, LoadedIsValid, ShapeValid, HelperFound, Bound, HelpersOf, Value
<1>7. NoPlatformIsFatal'
  <2>1. Unloadable(merged)' = Unloadable(merged)
    BY <1>1 DEF Unloadable, SettingsValid, DefaultHelperFound, DefaultsFound, DefaultsIn,
       Declared, ShapeValid, HelperFound, Bound, HelpersOf, Value
  <2> QED
    BY <1>1, <2>1, DefaultsBlamed DEF NoPlatformIsFatal
<1> QED
  BY <1>4, <1>5, <1>6, <1>7 DEF LoadInv

(* Platforms and defaults are what they should be throughout. *)
LEMMA LoadAlways == Spec => [](FileInv /\ LoadInv)
<1>1. FileInv /\ LoadInv /\ [Next]_vars => LoadInv'
  <2> SUFFICES ASSUME FileInv, LoadInv, [Next]_vars PROVE LoadInv'
    OBVIOUS
  <2>1. CASE UNCHANGED vars
    <3>1. /\ UNCHANGED <<unreadable, place, merged, todo, platforms, platformErrors, defaults>>
      BY <2>1 DEF vars
    <3>2. Unloadable(merged)' = Unloadable(merged)
      BY <3>1 DEF Unloadable, SettingsValid, DefaultHelperFound, DefaultsFound, DefaultsIn,
         Declared, ShapeValid, HelperFound, Bound, HelpersOf, Value
    <3>3. Sorted' /\ LoadedIsValid'
      BY <3>1 DEF LoadInv, Sorted, LoadedIsValid, Declared, ShapeValid, HelperFound, Bound,
         HelpersOf, Value
    <3>4. DefaultsChecked'
      BY <3>1 DEF LoadInv, DefaultsChecked, DefaultsFound, DefaultsIn, Value
    <3> QED
      BY <3>1, <3>2, <3>3, <3>4 DEF LoadInv, NoPlatformIsFatal
  <2> QED
    BY <2>1, ReadLoad, SettingsLoad, PlatformLoad, FinishLoad DEF Next
<1> QED
  BY <1>1, LoadInit, FileAlways, PTL DEF Spec

(* What is loaded works: helpers are found, and the defaults lead to what  *)
(* was loaded, as far as they are set without a gap.                       *)
THEOREM WhatLoadsWorks == Spec => []LoadedPlatformsWork
<1>1. LoadInv => LoadedPlatformsWork
  <2> SUFFICES ASSUME LoadInv, place = "loaded" PROVE LoadedPlatformsWork
    BY DEF LoadedPlatformsWork
  <2>1. /\ platforms \cap platformErrors = {}
        /\ platforms \cup platformErrors = Declared(merged)
        /\ DefaultsFound(merged, platforms, defaults)
    BY DEF LoadInv, Sorted, DefaultsChecked
  <2>2. ASSUME NEW p \in platforms, Regions(p) \in DOMAIN merged
        PROVE  Bound(merged, p) = Null \/ Helper(Bound(merged, p)) \in DOMAIN merged
    BY <2>2 DEF LoadInv, LoadedIsValid, HelperFound, HelpersOf
  <2> QED
    BY <2>1, <2>2 DEF LoadedPlatformsWork, DefaultsFound
<1> QED
  BY <1>1, LoadAlways, PTL

(* No platform fails the load, not even the default one. *)
THEOREM PlatformsCostThemselves == Spec => []NoPlatformIsFatal
<1>1. LoadInv => NoPlatformIsFatal
  BY DEF LoadInv
<1> QED
  BY <1>1, LoadAlways, PTL

-----------------------------------------------------------------------------
(***************************************************************************)
(* What a skipped file costs.  Two configurations that agree outside the   *)
(* platforms, and on the default platform, load or fail together; what     *)
(* skipped files declare of other platforms is all they can differ in.     *)
(***************************************************************************)
Agree(m, n, r) == (r \in DOMAIN m <=> r \in DOMAIN n) /\ Value(m, r) = Value(n, r)

(* The paths that the settings and the default platform of m depend on. *)
Shared(m, r) ==
    \/ r[1] # "platforms" \/ r = AllPlatforms
    \/ IsPrefix(Platform(Value(m, DefaultPlatform)), r)

(* Where the paths begin that a verdict depends on. *)
LEMMA PathHeads ==
    /\ \A n \in 1..4 : DefaultPaths[n] \in Paths /\ DefaultPaths[n][1] # "platforms"
    /\ \A h \in Helpers : Helper(h) \in Paths /\ Helper(h)[1] # "platforms"
    /\ DefaultHelper \in Paths /\ DefaultHelper[1] # "platforms"
    /\ DefaultPlatform = DefaultPaths[1] /\ AllPlatforms \in Paths
    /\ \A p \in Platforms : {Platform(p), Regions(p), HelperOf(p)} \subseteq Paths
    /\ \A p : /\ IsPrefix(Platform(p), Regions(p)) /\ IsPrefix(Platform(p), HelperOf(p))
              /\ IsPrefix(Platform(p), Platform(p))
<1>1. \A n \in 1..4 : DefaultPaths[n] \in Paths
  BY DEF Paths
<1>2. \A n \in 1..4 : DefaultPaths[n][1] = "defaults"
  <2> SUFFICES ASSUME NEW n \in 1..4 PROVE DefaultPaths[n][1] = "defaults"
    OBVIOUS
  <2>1. n = 1 \/ n = 2 \/ n = 3 \/ n = 4
    OBVIOUS
  <2> QED
    BY <2>1 DEF DefaultPaths, DefaultPlatform
<1>3. /\ \A h \in Helpers : Helper(h) \in Paths /\ Helper(h)[1] = "token_helpers"
      /\ DefaultHelper \in Paths /\ DefaultHelper[1] = "defaults" /\ AllPlatforms \in Paths
  BY DEF Paths, Helper, DefaultHelper
<1>4. \A p \in Platforms : {Platform(p), Regions(p), HelperOf(p)} \subseteq Paths
  BY DEF Paths
<1>5. \A p : /\ IsPrefix(Platform(p), Regions(p)) /\ IsPrefix(Platform(p), HelperOf(p))
             /\ IsPrefix(Platform(p), Platform(p))
  BY DEF IsPrefix, Platform, Regions, HelperOf
<1>6. DefaultPlatform = DefaultPaths[1]
  BY DEF DefaultPaths
<1> QED
  BY <1>1, <1>2, <1>3, <1>4, <1>5, <1>6

(* Whether a configuration can be loaded depends on no other path. *)
LEMMA SameVerdict ==
    ASSUME NEW m, NEW n, DOMAIN m \subseteq Paths, DOMAIN n \subseteq Paths,
           \A r \in Paths : Shared(m, r) => Agree(m, n, r), Unloadable(m)
    PROVE  Unloadable(n)
<1> DEFINE d == DefaultsIn(m)
           p == Value(m, DefaultPlatform)
<1>1. \A k \in 1..4 : Value(m, DefaultPaths[k]) = Value(n, DefaultPaths[k])
  BY PathHeads DEF Shared, Agree
<1>2. DefaultsIn(n) = d /\ d[1] = p
  BY <1>1, PathHeads DEF DefaultsIn
<1>3. SettingsValid(m) <=> SettingsValid(n)
  <2>1. AllPlatforms \in DOMAIN m <=> AllPlatforms \in DOMAIN n
    BY PathHeads DEF Shared, Agree
  <2>2. \A r \in Paths : r[1] # "platforms" =>
           (r \in DOMAIN m <=> r \in DOMAIN n) /\ (r \in DOMAIN m => m[r] = n[r])
    BY DEF Shared, Agree, Value
  <2> QED
    BY <2>1, <2>2 DEF SettingsValid
<1>4. HelpersOf(m) = HelpersOf(n) /\ Value(m, DefaultHelper) = Value(n, DefaultHelper)
  BY PathHeads DEF Shared, Agree, HelpersOf
<1>5. DefaultHelperFound(m) <=> DefaultHelperFound(n)
  BY <1>4 DEF DefaultHelperFound
<1>6. CASE p \in Platforms
  <2>1. \A r \in Paths : IsPrefix(Platform(p), r) =>
           (r \in DOMAIN m <=> r \in DOMAIN n) /\ (r \in DOMAIN m => m[r] = n[r])
    BY DEF Shared, Agree, Value
  <2>2. p \in Declared(m) <=> p \in Declared(n)
    BY <2>1 DEF Declared
  <2>3. ShapeValid(m, p) <=> ShapeValid(n, p)
    BY <2>1 DEF ShapeValid
  <2>4. /\ Regions(p) \in DOMAIN m <=> Regions(p) \in DOMAIN n
        /\ Value(m, HelperOf(p)) = Value(n, HelperOf(p))
    BY <1>6, PathHeads DEF Shared, Agree
  <2>5. HelperFound(m, p) <=> HelperFound(n, p)
    BY <1>4, <2>4 DEF HelperFound, Bound
  <2>6. DefaultsFound(m, Declared(m), d) <=> DefaultsFound(n, Declared(n), d)
    <3> HIDE DEF d, p
    <3> QED
      BY <1>2, <2>2, <2>4 DEF DefaultsFound
  <2> HIDE DEF d, p
  <2> QED
    BY <1>2, <1>3, <1>5, <2>2, <2>3, <2>5, <2>6 DEF Unloadable, d
<1>7. CASE p \notin Platforms
  <2>1. p \notin Declared(m) /\ p \notin Declared(n)
    BY <1>7 DEF Declared
  <2>2. DefaultsFound(m, Declared(m), d) <=> DefaultsFound(n, Declared(n), d)
    <3> HIDE DEF d, p
    <3>1. CASE p = Null
      BY <1>2, <2>1, <3>1 DEF DefaultsFound
    <3>2. CASE p # Null
      BY <1>2, <2>1, <3>2 DEF DefaultsFound
    <3> QED
      BY <3>1, <3>2
  <2> HIDE DEF d, p
  <2> QED
    BY <1>2, <1>3, <1>5, <2>1, <2>2 DEF Unloadable, d
<1> QED
  BY <1>6, <1>7

(* A path that no skipped file declares anything related to is set by the  *)
(* same files without those.                                               *)
LEMMA UntouchedSetters ==
    ASSUME FileInv, NEW r \in Paths,
           \A i \in unreadable : \A q \in DOMAIN files[i] : ~Related(q, r)
    PROVE  Setters(DOMAIN files, r) = Setters(Merging, r)
<1>1. \A i \in unreadable : r \notin DOMAIN files[i]
  BY RelatedToItself
<1>2. DOMAIN files = Merging \cup unreadable
  BY DEF Merging, FileInv, FilesInOrder
<1> QED
  BY <1>1, <1>2 DEF Setters

(* What is no path of a platform is a pair that begins otherwise. *)
LEMMA PathKinds ==
    ASSUME NEW r \in Paths, r # AllPlatforms
    PROVE  \/ \E a, b : r = <<a, b>> /\ a # "platforms"
           \/ \E o \in Platforms : r \in {Platform(o), Regions(o), HelperOf(o)}
<1>1. ASSUME NEW k \in 1..4 PROVE \E a, b : DefaultPaths[k] = <<a, b>> /\ a # "platforms"
  <2>1. k = 1 \/ k = 2 \/ k = 3 \/ k = 4
    OBVIOUS
  <2> QED
    BY <2>1 DEF DefaultPaths, DefaultPlatform
<1>2. \A h \in Helpers : \E a, b : Helper(h) = <<a, b>> /\ a # "platforms"
  BY DEF Helper
<1>3. \E a, b : DefaultHelper = <<a, b>> /\ a # "platforms"
  BY DEF DefaultHelper
<1> QED
  BY <1>1, <1>2, <1>3 DEF Paths

(* A path that begins otherwise lies apart from those of platforms, *)
LEMMA PairsApart ==
    ASSUME NEW a, NEW b, a # "platforms", NEW o
    PROVE  \A q \in {Platform(o), Regions(o), HelperOf(o)} :
              ~IsPrefix(q, <<a, b>>) /\ ~IsPrefix(<<a, b>>, q)
BY DEF IsPrefix, Platform, Regions, HelperOf

(* as those of one platform do from those of another. *)
LEMMA PlatformsApart ==
    ASSUME NEW r \in Paths, NEW q \in Paths, NEW p,
           q[1] = "platforms", q # AllPlatforms, ~IsPrefix(Platform(p), q),
           r[1] # "platforms" \/ IsPrefix(Platform(p), r)
    PROVE  ~Related(q, r)
<1>1. PICK o \in Platforms : q \in {Platform(o), Regions(o), HelperOf(o)}
  BY PathKinds
<1>2. p # o
  BY <1>1, PathHeads
<1>3. r # AllPlatforms
  BY DEF IsPrefix, Platform, AllPlatforms
<1>4. CASE \E a, b : r = <<a, b>> /\ a # "platforms"
  BY <1>1, <1>4, PairsApart DEF Related
<1>5. ASSUME NEW u \in Platforms, r \in {Platform(u), Regions(u), HelperOf(u)}
      PROVE  ~Related(q, r)
  <2>1. IsPrefix(Platform(p), r)
    BY <1>5 DEF Platform, Regions, HelperOf
  <2>2. u = p
    BY <1>5, <2>1 DEF IsPrefix, Platform, Regions, HelperOf
  <2> QED
    BY <1>1, <1>2, <1>5, <2>2 DEF Related, IsPrefix, Platform, Regions, HelperOf
<1> QED
  BY <1>3, <1>4, <1>5, PathKinds

(* With no skipped file that settles more, the settings and the default    *)
(* platform are what they would be with all files read.                    *)
LEMMA SkippedAgree ==
    ASSUME MergeInv, \A i \in unreadable : ~Settles(i), NEW r \in Paths, Shared(merged, r)
    PROVE  Agree(merged, Pasted(DOMAIN files), r)
<1> DEFINE all == DOMAIN files
           p   == Value(merged, DefaultPlatform)
<1>1. merged = Pasted(Merging)
  BY MergePasted
<1>2. ASSUME NEW i \in unreadable, NEW q \in DOMAIN files[i]
      PROVE  /\ q \in Paths /\ q[1] = "platforms" /\ q # AllPlatforms
             /\ AllPlatforms \notin DOMAIN merged /\ ~IsPrefix(Platform(p), q)
  <2>1. q \in Paths
    BY Blocks DEF MergeInv, FileInv, FilesInOrder
  <2> QED
    BY <2>1 DEF Settles
<1>3. ASSUME \A i \in unreadable : \A q \in DOMAIN files[i] : ~Related(q, r)
      PROVE  Agree(merged, Pasted(all), r)
  <2>1. Setters(all, r) = Setters(Merging, r)
    BY <1>3, UntouchedSetters DEF MergeInv
  <2>2. /\ r \in DOMAIN merged <=> r \in DOMAIN Pasted(all)
        /\ r \in DOMAIN merged => merged[r] = Pasted(all)[r]
    BY <1>1, <2>1 DEF Pasted
  <2> QED
    BY <2>2 DEF Agree, Value
<1>4. ASSUME NEW i \in unreadable, NEW q \in DOMAIN files[i], Related(q, r)
      PROVE  Agree(merged, Pasted(all), r)
  <2>1. r = AllPlatforms
    BY <1>2, <1>4, PlatformsApart DEF Shared
  <2>2. r \notin DOMAIN merged
    BY <1>2, <2>1
  <2>3. Setters(Merging, r) = {}
    BY <2>2 DEF MergeInv, AllInForce
  <2>4. Setters(all, r) \subseteq Setters(Merging, r)
    <3>1. \A j \in unreadable : r \notin DOMAIN files[j]
      BY <1>2, <2>1
    <3>2. Merging \subseteq all /\ all \ Merging \subseteq unreadable
      BY DEF Merging
    <3> QED
      BY <3>1, <3>2 DEF Setters
  <2>5. r \notin DOMAIN Pasted(all)
    BY <2>3, <2>4 DEF Pasted
  <2> QED
    BY <2>2, <2>5 DEF Agree, Value
<1> QED
  BY <1>3, <1>4

(* A drop-in that declares platforms, the default one not among them, can  *)
(* have any number of stray commas: what fails to load with them fails     *)
(* without.                                                                *)
THEOREM CommasCostTheirs == Spec => []SkippedFilesCost
<1>1. MergeInv /\ LoadInv => SkippedFilesCost
  <2> SUFFICES ASSUME MergeInv, LoadInv, place = "failed", 0 \notin unreadable,
                      \A i \in unreadable : ~Settles(i)
               PROVE  Unloadable(Pasted(DOMAIN files))
    BY DEF SkippedFilesCost
  <2>1. Unloadable(merged)
    BY DEF LoadInv, NoPlatformIsFatal
  <2>2. DOMAIN merged \subseteq Paths /\ DOMAIN Pasted(DOMAIN files) \subseteq Paths
    BY DEF MergeInv, FileInv, TypeOK, Pasted
  <2> QED
    BY <2>1, <2>2, SkippedAgree, SameVerdict
<1> QED
  BY <1>1, MergeAlways, LoadAlways, PTL
=============================================================================

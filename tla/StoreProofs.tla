----------------------------- MODULE StoreProofs -----------------------------
(***************************************************************************)
(* What administrators store and others use meanwhile: the theme packages, *)
(* whatever uploads, deletions, requests and failures overlap; the         *)
(* configuration of a notification channel, while logins and replacements  *)
(* overlap, and what saving its form keeps; and the nodes with their       *)
(* secrets.  For the nodes the locks come first: whoever changes a node is *)
(* alone with it, whatever waiters gave up; then what each step of a call  *)
(* knows of the node's row; then index and purges.                         *)
(***************************************************************************)
EXTENDS FiniteSets, Functions, Themes, ChannelConfig, NodeStore, FiniteSetTheorems, TLAPS

USE ReservedAssumption DEF NoRequest

-----------------------------------------------------------------------------
(* Packages. *)

\* A package that was accepted can be loaded, and is all of itself.
LEMMA PackageIsReady ==
  ASSUME NEW id \in Custom, NEW z \in Archives, IsPackage(id, z)
  PROVE StateOf(id, Files(z)) = "ready" /\ PartOf(Files(z), z) /\ Files(z) # Absent
<1>1. Files(z) # Absent
  BY AbsentAssumption
<1>2. /\ {"theme.json", "tokens.css"} \subseteq DOMAIN Files(z) /\ "recipes.css" \in DOMAIN Files(z)
      /\ Files(z)["theme.json"].id = id /\ CanBuildCSS(Files(z)["tokens.css"], Files(z)["recipes.css"])
  BY DEF IsPackage, PackageAccepted, Files
<1>3. Names(Files(z)) = DOMAIN Files(z) /\ RecipesIn(Files(z)) = Files(z)["recipes.css"]
  BY <1>1, <1>2 DEF Names, RecipesIn
<1> QED  BY <1>1, <1>2, <1>3 DEF StateOf, PartOf

LEMMA AbsentIsMissing == \A id : StateOf(id, Absent) # "ready"
<1>1. ~({"theme.json", "tokens.css"} \subseteq Names(Absent))
  BY DEF Names
<1> QED  BY <1>1 DEF StateOf

\* What a deletion leaves of a package is a part of it.
LEMMA RemainsArePart ==
  ASSUME NEW dir, NEW z, dir # Absent => PartOf(dir, z), NEW rest \in Remains(dir), rest # Absent
  PROVE dir # Absent /\ PartOf(rest, z)
<1>1. dir # Absent
  BY DEF Remains
<1>2. PICK N \in SUBSET DOMAIN dir : rest = [n \in N |-> dir[n]]
  BY <1>1 DEF Remains
<1> QED  BY <1>1, <1>2 DEF PartOf

-----------------------------------------------------------------------------
(* Administrators. *)

LEMMA ThemesInitInv == ThemesInit => ThemesInv
<1> SUFFICES ASSUME ThemesInit PROVE ThemesInv
  OBVIOUS
<1>1. OneAtATime
  BY DEF ThemesInit, OneAtATime, Installing, Reading
<1>2. DirectoriesArePackages /\ SelectedCanBeLoaded
  BY DEF ThemesInit, DirectoriesArePackages, SelectedCanBeLoaded
<1>3. ThemesAreWhole
  BY DEF ThemesInit, ThemesAreWhole
<1>4. (\A a \in Admins : AdminKnows(a)) /\ (\A v \in Visitors : VisitorKnows(v))
  BY DEF ThemesInit, AdminKnows, VisitorKnows
<1> QED  BY <1>1, <1>2, <1>3, <1>4 DEF ThemesInv, ThemesInit

\* A step of the one administrator who is busy.
LEMMA AdminStep ==
  ASSUME ThemesInv, NEW a \in Admins, NEW c, adm' = [adm EXCEPT ![a] = c], \A b \in Admins \ {a} : adm[b].pc = "idle",
         AdminKnows(a)', UNCHANGED pub, c.pc \in {"install", "swap"} => ~Reading,
         disk' = disk \/ ~Reading, DOMAIN disk' = Custom, DOMAIN backup' = Custom,
         DirectoriesArePackages', SelectedCanBeLoaded'
  PROVE ThemesInv'
<1>1. DOMAIN adm' = Admins /\ adm'[a] = c /\ \A b \in Admins \ {a} : adm'[b] = adm[b]
  BY DEF ThemesInv
<1>2. Reading' <=> Reading
  BY DEF Reading
<1>3. OneAtATime'
  <2>1. \A b, d \in Admins : adm'[b].pc # "idle" /\ adm'[d].pc # "idle" => b = d
    BY <1>1
  <2>2. Installing' => c.pc \in {"install", "swap"}
    BY <1>1 DEF Installing
  <2> QED  BY <1>2, <2>1, <2>2 DEF OneAtATime
<1>4. \A b \in Admins \ {a} : AdminKnows(b)'
  <2>1. \A b \in Admins \ {a} : adm[b] = NoRequest
    BY DEF ThemesInv, AdminKnows
  <2> QED  BY <1>1, <2>1 DEF AdminKnows
<1>5. ASSUME NEW v \in Visitors PROVE VisitorKnows(v)'
  <2>1. VisitorKnows(v)
    BY DEF ThemesInv
  <2>2. CASE disk' = disk
    BY <2>1, <2>2 DEF VisitorKnows
  <2>3. CASE ~Reading
    BY <2>1, <2>3 DEF VisitorKnows, Reading
  <2> QED  BY <2>2, <2>3
<1>6. ThemesAreWhole'
  BY DEF ThemesInv, ThemesAreWhole
<1> QED  BY <1>1, <1>3, <1>4, <1>5, <1>6 DEF ThemesInv

LEMMA OneIsBusy ==
  ASSUME ThemesInv, NEW a \in Admins, adm[a].pc # "idle"
  PROVE \A b \in Admins \ {a} : adm[b].pc = "idle"
  BY DEF ThemesInv, OneAtATime

\* The steps that touch no directory.
LEMMA AdminAsks ==
  ASSUME ThemesInv, NEW a \in Admins,
         \/ \E z \in Archives : Upload(a, z)
         \/ InstallFails(a)
         \/ \E id \in {Default} \cup Builtin \cup Custom : Apply(a, id)
         \/ SaveActiveID(a)
         \/ \E id \in Custom : Delete(a, id)
  PROVE ThemesInv'
<1>0. UNCHANGED <<disk, backup, pub>>
  BY DEF Upload, InstallFails, Apply, SaveActiveID, Delete
<1>1. DirectoriesArePackages' /\ DOMAIN disk' = Custom /\ DOMAIN backup' = Custom /\ DOMAIN adm = Admins
  BY <1>0 DEF ThemesInv, DirectoriesArePackages
<1>2. ASSUME stored' = stored PROVE SelectedCanBeLoaded'
  BY <1>0, <1>2 DEF ThemesInv, SelectedCanBeLoaded
<1>3. ASSUME NEW z \in Archives, Upload(a, z) PROVE ThemesInv'
  <2> PICK c : c = [pc |-> "install", id |-> z.files["theme.json"].id, dir |-> Files(z)]
    OBVIOUS
  <2>1. adm' = [adm EXCEPT ![a] = c] /\ PackageAccepted(z) /\ ~Reading /\ stored' = stored /\ HandlerFree
    BY <1>3 DEF Upload, WriteLock
  <2>2. AdminKnows(a)'
    BY <1>1, <2>1 DEF AdminKnows, IsPackage, PackageAccepted
  <2> QED  BY <1>0, <1>1, <1>2, <2>1, <2>2, AdminStep DEF HandlerFree
<1>4. CASE InstallFails(a)
  <2>1. adm' = [adm EXCEPT ![a] = NoRequest] /\ adm[a].pc # "idle" /\ stored' = stored
    BY <1>4 DEF InstallFails, AdminReturns
  <2>2. AdminKnows(a)'
    BY <1>1, <2>1 DEF AdminKnows
  <2> QED  BY <1>0, <1>1, <1>2, <2>1, <2>2, OneIsBusy, AdminStep
<1>5. ASSUME NEW id \in {Default} \cup Builtin \cup Custom, Apply(a, id) PROVE ThemesInv'
  <2> PICK c : c = [pc |-> "save", id |-> id]
    OBVIOUS
  <2>1. adm' = [adm EXCEPT ![a] = c] /\ LoadState(id) = "ready" /\ stored' = stored /\ HandlerFree
    BY <1>5 DEF Apply
  <2>2. AdminKnows(a)'
    BY <1>0, <1>1, <2>1 DEF AdminKnows, LoadState
  <2> QED  BY <1>0, <1>1, <1>2, <2>1, <2>2, AdminStep DEF HandlerFree
<1>6. CASE SaveActiveID(a)
  <2>1. adm' = [adm EXCEPT ![a] = NoRequest] /\ adm[a].pc = "save" /\ stored' \in {stored, adm[a].id}
    BY <1>6 DEF SaveActiveID, AdminReturns
  <2>2. AdminKnows(a)'
    BY <1>1, <2>1 DEF AdminKnows
  <2>3. LoadState(adm[a].id) = "ready"
    BY <2>1 DEF ThemesInv, AdminKnows
  <2>4. SelectedCanBeLoaded'
    BY <1>0, <1>2, <2>1, <2>3 DEF SelectedCanBeLoaded, LoadState
  <2> QED  BY <1>0, <1>1, <2>1, <2>2, <2>4, OneIsBusy, AdminStep
<1>7. ASSUME NEW id \in Custom, Delete(a, id) PROVE ThemesInv'
  <2> PICK c : c = [pc |-> "remove", id |-> id]
    OBVIOUS
  <2>1. adm' = [adm EXCEPT ![a] = c] /\ stored # id /\ stored' = stored /\ HandlerFree
    BY <1>7 DEF Delete
  <2>2. AdminKnows(a)'
    BY <1>1, <2>1 DEF AdminKnows
  <2> QED  BY <1>0, <1>1, <1>2, <2>1, <2>2, AdminStep DEF HandlerFree
<1> QED  BY <1>3, <1>4, <1>5, <1>6, <1>7

\* The steps that move the directories of an upload.
LEMMA AdminInstalls ==
  ASSUME ThemesInv, NEW a \in Admins, InstallNew(a) \/ SetAside(a) \/ Install(a) \/ RollBack(a)
  PROVE ThemesInv'
<1>0. UNCHANGED <<stored, pub>> /\ adm[a].pc \in {"install", "swap"} /\ ~Reading
  BY DEF InstallNew, SetAside, Install, RollBack, ThemesInv, OneAtATime, Installing
<1> PICK id : id = adm[a].id
  OBVIOUS
<1>1. /\ id \in Custom /\ DOMAIN adm[a] = {"pc", "id", "dir"} /\ DOMAIN adm = Admins /\ DOMAIN disk = Custom /\ DOMAIN backup = Custom
      /\ \E z \in Archives : IsPackage(id, z) /\ adm[a].dir = Files(z)
  BY <1>0 DEF ThemesInv, AdminKnows
<1>2. \A b \in Admins \ {a} : adm[b].pc = "idle"
  BY <1>0, OneIsBusy
<1>3. ASSUME NEW d, NEW b, disk' = [disk EXCEPT ![id] = d], backup' = [backup EXCEPT ![id] = b],
             d # Absent => b = Absent /\ \E z \in Archives : IsPackage(id, z) /\ PartOf(d, z),
             b # Absent => \E z \in Archives : IsPackage(id, z) /\ PartOf(b, z),
             stored = id => StateOf(id, d) = "ready" \/ StateOf(id, b) = "ready"
      PROVE /\ DOMAIN disk' = Custom /\ DOMAIN backup' = Custom
            /\ DirectoriesArePackages' /\ SelectedCanBeLoaded'
  <2>1. /\ disk'[id] = d /\ backup'[id] = b
        /\ \A k \in Custom \ {id} : disk'[k] = disk[k] /\ backup'[k] = backup[k]
    BY <1>1, <1>3
  <2>2. DirectoriesArePackages'
    BY <1>3, <2>1 DEF ThemesInv, DirectoriesArePackages
  <2>3. SelectedCanBeLoaded'
    BY <1>0, <1>3, <2>1 DEF ThemesInv, SelectedCanBeLoaded
  <2> QED  BY <1>1, <1>3, <2>2, <2>3
<1>4. CASE InstallNew(a) \/ Install(a)
  <2>1. /\ disk' = [disk EXCEPT ![id] = adm[a].dir] /\ backup' = [backup EXCEPT ![id] = Absent]
        /\ adm' = [adm EXCEPT ![a] = NoRequest]
    BY <1>4 DEF InstallNew, Install, AdminReturns
  <2>2. AdminKnows(a)'
    BY <1>1, <2>1 DEF AdminKnows
  <2>3. StateOf(id, adm[a].dir) = "ready" /\ \E z \in Archives : IsPackage(id, z) /\ PartOf(adm[a].dir, z)
    BY <1>1, PackageIsReady
  <2>4. DOMAIN disk' = Custom /\ DOMAIN backup' = Custom /\ DirectoriesArePackages' /\ SelectedCanBeLoaded'
    BY <1>3, <2>1, <2>3
  <2> QED  BY <1>0, <1>2, <2>1, <2>2, <2>4, AdminStep
<1>5. CASE SetAside(a)
  <2>0. disk[id] # Absent /\ backup[id] = Absent /\ \E z \in Archives : IsPackage(id, z) /\ PartOf(disk[id], z)
    BY <1>1, <1>5 DEF SetAside, ThemesInv, DirectoriesArePackages
  <2> PICK c : c = [adm[a] EXCEPT !.pc = "swap"]
    OBVIOUS
  <2>1. disk' = [disk EXCEPT ![id] = Absent] /\ backup' = [backup EXCEPT ![id] = disk[id]] /\ adm' = [adm EXCEPT ![a] = c]
    BY <1>5 DEF SetAside
  <2>2. c.pc = "swap" /\ DOMAIN c = {"pc", "id", "dir"} /\ c.id = id /\ c.dir = adm[a].dir
    BY <1>1
  <2>3. AdminKnows(a)'
    <3>1. disk'[id] = Absent
      BY <1>1, <2>1
    <3> QED  BY <1>1, <2>1, <2>2, <3>1 DEF AdminKnows
  <2>4. stored = id => StateOf(id, disk[id]) = "ready"
    BY <1>1, <2>0, AbsentIsMissing DEF ThemesInv, SelectedCanBeLoaded
  <2>5. DOMAIN disk' = Custom /\ DOMAIN backup' = Custom /\ DirectoriesArePackages' /\ SelectedCanBeLoaded'
    BY <1>3, <2>0, <2>1, <2>4
  <2> QED  BY <1>0, <1>2, <2>1, <2>2, <2>3, <2>5, AdminStep
<1>6. CASE RollBack(a)
  <2>0. adm' = [adm EXCEPT ![a] = NoRequest]
    BY <1>6 DEF RollBack, AdminReturns
  <2>1. AdminKnows(a)'
    BY <1>1, <2>0 DEF AdminKnows
  <2>2. CASE UNCHANGED <<disk, backup>>
    BY <1>0, <1>1, <1>2, <2>0, <2>1, <2>2, AdminStep DEF ThemesInv, DirectoriesArePackages, SelectedCanBeLoaded
  <2>3. CASE disk' = [disk EXCEPT ![id] = backup[id]] /\ backup' = [backup EXCEPT ![id] = Absent]
    <3>1. backup[id] # Absent => \E z \in Archives : IsPackage(id, z) /\ PartOf(backup[id], z)
      BY <1>1 DEF ThemesInv, DirectoriesArePackages
    <3>2. stored = id => StateOf(id, backup[id]) = "ready"
      <4>1. disk[id] = Absent
        BY <1>0, <1>6 DEF RollBack, ThemesInv, AdminKnows
      <4> QED  BY <1>1, <4>1, AbsentIsMissing DEF ThemesInv, SelectedCanBeLoaded
    <3>3. DOMAIN disk' = Custom /\ DOMAIN backup' = Custom /\ DirectoriesArePackages' /\ SelectedCanBeLoaded'
      BY <1>3, <2>3, <3>1, <3>2
    <3> QED  BY <1>0, <1>2, <2>0, <2>1, <3>3, AdminStep
  <2> QED  BY <1>6, <2>2, <2>3 DEF RollBack
<1> QED  BY <1>4, <1>5, <1>6

LEMMA AdminRemoves ==
  ASSUME ThemesInv, NEW a \in Admins, RemoveCustom(a)
  PROVE ThemesInv'
<1>0. UNCHANGED <<stored, pub, backup>> /\ adm[a].pc = "remove" /\ ~Reading /\ adm' = [adm EXCEPT ![a] = NoRequest]
  BY DEF RemoveCustom, WriteLock, AdminReturns
<1> PICK id : id = adm[a].id
  OBVIOUS
<1>1. id \in Custom /\ id # stored /\ DOMAIN disk = Custom /\ DOMAIN backup = Custom /\ DOMAIN adm = Admins
  BY <1>0 DEF ThemesInv, AdminKnows
<1>2. PICK rest \in Remains(disk[id]) : disk' = [disk EXCEPT ![id] = rest]
  BY DEF RemoveCustom
<1>3. disk'[id] = rest /\ DOMAIN disk' = Custom /\ \A k \in Custom \ {id} : disk'[k] = disk[k]
  BY <1>1, <1>2
<1>4. rest # Absent => disk[id] # Absent /\ \E z \in Archives : IsPackage(id, z) /\ PartOf(rest, z)
  <2> SUFFICES ASSUME rest # Absent PROVE disk[id] # Absent /\ \E z \in Archives : IsPackage(id, z) /\ PartOf(rest, z)
    OBVIOUS
  <2>1. disk[id] # Absent
    BY DEF Remains
  <2>2. PICK z \in Archives : IsPackage(id, z) /\ PartOf(disk[id], z)
    BY <1>1, <2>1 DEF ThemesInv, DirectoriesArePackages
  <2> QED  BY <2>1, <2>2, RemainsArePart
<1>5. DirectoriesArePackages'
  BY <1>0, <1>3, <1>4 DEF ThemesInv, DirectoriesArePackages
<1>6. SelectedCanBeLoaded'
  BY <1>0, <1>1, <1>3 DEF ThemesInv, SelectedCanBeLoaded
<1>7. AdminKnows(a)'
  BY <1>0, <1>1 DEF AdminKnows
<1>8. \A b \in Admins \ {a} : adm[b].pc = "idle"
  BY <1>0, OneIsBusy
<1> QED  BY <1>0, <1>1, <1>3, <1>5, <1>6, <1>7, <1>8, AdminStep

-----------------------------------------------------------------------------
(* Public requests. *)

\* A step of one public request.
LEMMA VisitorStep ==
  ASSUME ThemesInv, NEW v \in Visitors, NEW q, pub' = [pub EXCEPT ![v] = q], UNCHANGED <<stored, disk, backup, adm>>,
         VisitorKnows(v)', q.pc \in {"manifest", "tokens", "recipes"} => ~Installing,
         q.pc = "idle" /\ "ans" \in DOMAIN q /\ q.ans.id \in Custom /\ q.ans.state = "ready" =>
            \E z \in Archives : /\ PackageAccepted(z) /\ z.files["theme.json"] = q.ans.manifest
                                /\ q.ans.css \in {ActiveCSS(Files(z)["tokens.css"], r) : r \in {Files(z)["recipes.css"], <<>>}}
  PROVE ThemesInv'
<1>1. DOMAIN pub' = Visitors /\ pub'[v] = q /\ \A u \in Visitors \ {v} : pub'[u] = pub[u]
  BY DEF ThemesInv
<1>2. OneAtATime'
  <2>1. Installing' <=> Installing
    BY DEF Installing
  <2>2. Reading' => Reading \/ q.pc \in {"manifest", "tokens", "recipes"}
    BY <1>1 DEF Reading
  <2> QED  BY <2>1, <2>2 DEF ThemesInv, OneAtATime
<1>3. DirectoriesArePackages' /\ SelectedCanBeLoaded'
  BY DEF ThemesInv, DirectoriesArePackages, SelectedCanBeLoaded
<1>4. \A a \in Admins : AdminKnows(a)'
  BY DEF ThemesInv, AdminKnows, LoadState
<1>5. \A u \in Visitors : VisitorKnows(u)'
  BY <1>1 DEF ThemesInv, VisitorKnows
<1>6. ThemesAreWhole'
  BY <1>1 DEF ThemesInv, ThemesAreWhole
<1> QED  BY <1>1, <1>2, <1>3, <1>4, <1>5, <1>6 DEF ThemesInv

\* An answer without a theme's own style sheet.
LEMMA FallbackStep ==
  ASSUME ThemesInv, NEW v \in Visitors, NEW id, NEW state, Answers(v, Fallback(id, state)), id \in Custom => state # "ready",
         UNCHANGED <<stored, disk, backup, adm>>
  PROVE ThemesInv'
<1> PICK q : q = [pc |-> "idle", ans |-> Fallback(id, state)]
  OBVIOUS
<1>1. pub' = [pub EXCEPT ![v] = q] /\ DOMAIN pub = Visitors
  BY DEF Answers, ThemesInv
<1>2. q.pc = "idle" /\ DOMAIN q = {"pc", "ans"} /\ q.ans.id = id /\ q.ans.state = state
  BY DEF Fallback
<1>3. VisitorKnows(v)'
  BY <1>1, <1>2 DEF VisitorKnows
<1> QED  BY <1>1, <1>2, <1>3, VisitorStep

LEMMA VisitorSteps ==
  ASSUME ThemesInv, NEW v \in Visitors, VisitorNext(v)
  PROVE ThemesInv'
<1>0. UNCHANGED <<stored, disk, backup, adm>> /\ DOMAIN pub = Visitors /\ VisitorKnows(v)
  BY DEF VisitorNext, Request, LoadActive, ReadFails, ReadManifest, ReadTokens, ReadRecipes, ThemesInv
<1>1. Default \notin Custom
  OBVIOUS
<1>2. CASE Request(v)
  <2>1. ASSUME NEW id, NEW f, pub' = [pub EXCEPT ![v] = [pc |-> "open", id |-> id, fresh |-> f]] PROVE ThemesInv'
    <3> PICK q : q = [pc |-> "open", id |-> id, fresh |-> f]
      OBVIOUS
    <3>1. VisitorKnows(v)' /\ q.pc = "open" /\ pub' = [pub EXCEPT ![v] = q]
      BY <1>0, <2>1 DEF VisitorKnows
    <3> QED  BY <1>0, <3>1, VisitorStep
  <2> QED  BY <1>0, <1>1, <1>2, <2>1, FallbackStep DEF Request
<1>3. CASE LoadActive(v)
  <2>1. CASE pub[v].id \in Custom /\ ReadLock /\ pub[v].pc = "open" /\ pub' = [pub EXCEPT ![v].pc = "manifest"]
    <3> PICK q : q = [pub[v] EXCEPT !.pc = "manifest"]
      OBVIOUS
    <3>1. DOMAIN pub[v] = {"pc", "id", "fresh"} /\ pub' = [pub EXCEPT ![v] = q]
      BY <1>0, <2>1 DEF VisitorKnows
    <3>2. q.pc = "manifest" /\ DOMAIN q = {"pc", "id", "fresh"} /\ q.id = pub[v].id
      BY <3>1
    <3>3. VisitorKnows(v)'
      BY <1>0, <2>1, <3>1, <3>2 DEF VisitorKnows
    <3> QED  BY <1>0, <2>1, <3>1, <3>2, <3>3, VisitorStep DEF ReadLock
  <2>2. \A id, state : Answers(v, Fallback(id, state)) /\ (id \in Custom => state # "ready") => ThemesInv'
    BY <1>0, FallbackStep
  <2> QED  BY <1>1, <1>3, <2>1, <2>2 DEF LoadActive
<1>4. CASE ReadFails(v)
  <2>1. Answers(v, Fallback(pub[v].id, "broken"))
    BY <1>4 DEF ReadFails
  <2> QED  BY <1>0, <2>1, FallbackStep
<1>5. CASE ReadManifest(v)
  <2> PICK id : id = pub[v].id
    OBVIOUS
  <2>1. pub[v].pc = "manifest" /\ id \in Custom /\ disk[id] # Absent /\ "theme.json" \in DOMAIN disk[id]
    BY <1>0, <1>5 DEF ReadManifest, VisitorKnows, Names
  <2>2. PICK z \in Archives : IsPackage(id, z) /\ PartOf(disk[id], z)
    BY <2>1 DEF ThemesInv, DirectoriesArePackages
  <2>3. disk[id]["theme.json"] = z.files["theme.json"]
    <3>1. disk[id]["theme.json"] = Files(z)["theme.json"]
      BY <2>1, <2>2 DEF PartOf
    <3>2. "theme.json" \in DOMAIN z.files
      BY <2>2 DEF IsPackage, PackageAccepted
    <3> QED  BY <3>1, <3>2 DEF Files
  <2> PICK q : q = [pc |-> "tokens", id |-> id, fresh |-> pub[v].fresh, manifest |-> disk[id]["theme.json"]]
    OBVIOUS
  <2>4. pub' = [pub EXCEPT ![v] = q]
    BY <1>5 DEF ReadManifest
  <2>5. VisitorKnows(v)'
    BY <1>0, <2>1, <2>2, <2>3, <2>4 DEF VisitorKnows
  <2>6. ~Installing
    BY <2>1 DEF ThemesInv, OneAtATime, Reading
  <2> QED  BY <1>0, <2>4, <2>5, <2>6, VisitorStep
<1>6. CASE ReadTokens(v)
  <2> PICK id : id = pub[v].id
    OBVIOUS
  <2>1. /\ pub[v].pc = "tokens" /\ id \in Custom /\ disk[id] # Absent /\ "tokens.css" \in DOMAIN disk[id]
        /\ \E z \in Archives : IsPackage(id, z) /\ PartOf(disk[id], z) /\ pub[v].manifest = z.files["theme.json"]
    BY <1>0, <1>6 DEF ReadTokens, VisitorKnows, Names
  <2>2. PICK z \in Archives : IsPackage(id, z) /\ PartOf(disk[id], z) /\ pub[v].manifest = z.files["theme.json"]
    BY <2>1
  <2>3. disk[id]["tokens.css"] = Files(z)["tokens.css"]
    BY <2>1, <2>2 DEF PartOf
  <2> PICK q : q = [pc |-> "recipes", id |-> id, fresh |-> pub[v].fresh, manifest |-> pub[v].manifest,
                    tokens |-> disk[id]["tokens.css"]]
    OBVIOUS
  <2>4. pub' = [pub EXCEPT ![v] = q]
    BY <1>6 DEF ReadTokens
  <2>5. VisitorKnows(v)'
    BY <1>0, <2>1, <2>2, <2>3, <2>4 DEF VisitorKnows
  <2>6. ~Installing
    BY <2>1 DEF ThemesInv, OneAtATime, Reading
  <2> QED  BY <1>0, <2>4, <2>5, <2>6, VisitorStep
<1>7. CASE ReadRecipes(v)
  <2> PICK id, r : id = pub[v].id /\ r = RecipesIn(disk[id])
    OBVIOUS
  <2>1. /\ pub[v].pc = "recipes" /\ id \in Custom
        /\ \E z \in Archives : /\ IsPackage(id, z) /\ PartOf(disk[id], z) /\ pub[v].manifest = z.files["theme.json"]
                               /\ pub[v].tokens = Files(z)["tokens.css"]
    BY <1>0, <1>7 DEF ReadRecipes, VisitorKnows
  <2>2. PICK z \in Archives : /\ IsPackage(id, z) /\ PartOf(disk[id], z) /\ pub[v].manifest = z.files["theme.json"]
                              /\ pub[v].tokens = Files(z)["tokens.css"]
    BY <2>1
  <2>3. r \in {Files(z)["recipes.css"], <<>>}
    BY <2>2 DEF RecipesIn, Names, PartOf
  <2> PICK ans : ans = [id |-> id, state |-> "ready", manifest |-> pub[v].manifest, css |-> ActiveCSS(pub[v].tokens, r)]
    OBVIOUS
  <2>4. CASE Answers(v, ans)
    <3> PICK q : q = [pc |-> "idle", ans |-> ans]
      OBVIOUS
    <3>1. pub' = [pub EXCEPT ![v] = q] /\ q.pc = "idle" /\ q.ans = ans
      BY <2>4 DEF Answers
    <3>2. VisitorKnows(v)'
      BY <1>0, <3>1 DEF VisitorKnows
    <3>3. /\ PackageAccepted(z) /\ z.files["theme.json"] = q.ans.manifest
          /\ q.ans.css \in {ActiveCSS(Files(z)["tokens.css"], x) : x \in {Files(z)["recipes.css"], <<>>}}
      BY <2>2, <2>3, <3>1 DEF IsPackage
    <3> QED  BY <1>0, <3>1, <3>2, <3>3, VisitorStep
  <2>5. CASE Answers(v, Fallback(id, "broken"))
    BY <1>0, <2>5, FallbackStep
  <2> QED  BY <1>7, <2>4, <2>5 DEF ReadRecipes
<1> QED  BY <1>2, <1>3, <1>4, <1>5, <1>6, <1>7 DEF VisitorNext

LEMMA ThemesRestartStep == ThemesInv /\ ThemesRestart => ThemesInv'
<1> SUFFICES ASSUME ThemesInv, ThemesRestart PROVE ThemesInv'
  OBVIOUS
<1>1. OneAtATime' /\ ThemesAreWhole'
  BY DEF ThemesRestart, OneAtATime, Installing, Reading, ThemesAreWhole
<1>2. DirectoriesArePackages' /\ SelectedCanBeLoaded'
  BY DEF ThemesRestart, ThemesInv, DirectoriesArePackages, SelectedCanBeLoaded
<1>3. (\A a \in Admins : AdminKnows(a)') /\ (\A v \in Visitors : VisitorKnows(v)')
  BY DEF ThemesRestart, AdminKnows, VisitorKnows
<1> QED  BY <1>1, <1>2, <1>3 DEF ThemesInv, ThemesRestart

-----------------------------------------------------------------------------
(* Theorems of the themes. *)

\* The invariant of the theme packages: one request changes directories at a time, none while
\* a theme is read, and every directory is what is left of one accepted package.
THEOREM ThemesInvariant == ThemesSpec => []ThemesInv
<1>1. ASSUME ThemesInv, ThemesNext PROVE ThemesInv'
  BY <1>1, AdminAsks, AdminInstalls, AdminRemoves, VisitorSteps, ThemesRestartStep DEF ThemesNext, AdminNext
<1>2. ASSUME ThemesInv, UNCHANGED themeVars PROVE ThemesInv'
  BY <1>2 DEF themeVars, ThemesInv, OneAtATime, Installing, Reading, DirectoriesArePackages, SelectedCanBeLoaded, ThemesAreWhole,
              AdminKnows, LoadState, VisitorKnows
<1> QED  BY <1>1, <1>2, ThemesInitInv, PTL DEF ThemesSpec

\* No upload, deletion, failure or restart takes the selected theme away, and the list offers
\* all others for deletion (SelectedThemeStays).
THEOREM SelectedStays == ThemesSpec => []SelectedThemeStays
<1>1. ThemesInv => SelectedThemeStays
  <2> SUFFICES ASSUME ThemesInv, NEW id \in DOMAIN List
               PROVE (List[id].deletable <=> id \in Custom /\ id # stored) /\ (List[id].active => id = stored)
    BY DEF ThemesInv, SelectedCanBeLoaded, SelectedThemeStays
  <2>1. CASE id = stored /\ Configured.state # "ready"
    BY <2>1 DEF List
  <2>2. CASE ~(id = stored /\ Configured.state # "ready")
    <3>1. List[id] = View(id) /\ id \in Listed
      BY <2>2 DEF List
    <3>2. id \in Builtin \cup Custom /\ id # Default
      BY <3>1 DEF Listed
    <3>3. Resolved = IF Configured.state = "ready" THEN stored ELSE Default
      BY DEF Resolved
    <3>4. View(id).active = (id = Resolved) /\ View(id).deletable = (id \in Custom /\ id # Resolved)
      BY DEF View
    <3>5. CASE Configured.state = "ready"
      BY <3>1, <3>3, <3>4, <3>5
    <3>6. CASE Configured.state # "ready"
      BY <2>2, <3>1, <3>2, <3>3, <3>4, <3>6
    <3> QED  BY <3>5, <3>6
  <2> QED  BY <2>1, <2>2
<1> QED  BY <1>1, ThemesInvariant, PTL

\* Whatever is uploaded, deleted or interrupted while it is read, a theme is served from one
\* accepted package (ThemesAreWhole).
THEOREM ServedThemesAreWhole == ThemesSpec => []ThemesAreWhole
<1>1. ThemesInv => ThemesAreWhole
  BY DEF ThemesInv
<1> QED  BY <1>1, ThemesInvariant, PTL

HIDE ReservedAssumption DEF NoRequest

-----------------------------------------------------------------------------
(* The channel's configuration. *)

\* Two sessions set one after the other: the last one counts.
LEMMA SessionReplaced == \A c, x : WithoutSession([c EXCEPT !.values.session = x]) = WithoutSession(c)
<1> SUFFICES ASSUME NEW c, NEW x PROVE WithoutSession([c EXCEPT !.values.session = x]) = WithoutSession(c)
  OBVIOUS
<1> DEFINE d == [c EXCEPT !.values = [c.values EXCEPT !.session = x]]
<1>1. CASE "values" \in DOMAIN c
  <2>1. d.values = [c.values EXCEPT !.session = x] /\ DOMAIN d = DOMAIN c /\ \A k \in DOMAIN c \ {"values"} : d[k] = c[k]
    BY <1>1
  <2>2. [d.values EXCEPT !.session = ""] = [c.values EXCEPT !.session = ""]
    BY <2>1
  <2>3. [d EXCEPT !.values = [d.values EXCEPT !.session = ""]] = [c EXCEPT !.values = [c.values EXCEPT !.session = ""]]
    BY <2>1, <2>2
  <2> QED  BY <2>3 DEF WithoutSession
<1>2. CASE "values" \notin DOMAIN c
  <2>1. \A y, z : [d EXCEPT !.values = y] = [c EXCEPT !.values = z]
    BY <1>2
  <2> QED  BY <2>1 DEF WithoutSession
<1> QED  BY <1>1, <1>2

\* A request moves, and either the channel stays or its revision is a new one.
LEMMA RequestStep ==
  ASSUME SavesOnlySession, NEW r \in Requests, NEW q, req' = [req EXCEPT ![r] = q], q.pc # "saving",
         UNCHANGED channel \/ (DOMAIN channel' = {"typ", "sealed", "revision"} /\ channel'.revision = channel.revision + 1)
  PROVE SavesOnlySession'
<1>1. DOMAIN req' = Requests /\ req'[r] = q /\ \A s \in Requests \ {r} : req'[s] = req[s]
  BY DEF SavesOnlySession
<1> QED  BY <1>1 DEF SavesOnlySession

LEMMA LoginInvariant == ChannelSpec => []SavesOnlySession
<1>1. ChannelInit => SavesOnlySession
  BY DEF ChannelInit, SavesOnlySession, IdleRequest
<1>2. ASSUME SavesOnlySession, ChannelNext PROVE SavesOnlySession'
  <2> USE <1>2
  <2>0. \A r \in Requests : RequestEnds(r) => \E q : q = IdleRequest /\ q.pc # "saving" /\ req' = [req EXCEPT ![r] = q]
    BY DEF RequestEnds, IdleRequest
  <2>1. ASSUME NEW r \in Requests, NEW l \in Logins, RequestCode(r, l) PROVE SavesOnlySession'
    <3>1. PICK q : q.pc = "starting" /\ req' = [req EXCEPT ![r] = q] /\ UNCHANGED channel
      BY <2>1 DEF RequestCode
    <3> QED  BY <3>1, RequestStep
  <2>2. ASSUME NEW r \in Requests, NEW l \in Logins, Submit(r, l) PROVE SavesOnlySession'
    <3>1. PICK q : q.pc = "verifying" /\ req' = [req EXCEPT ![r] = q] /\ UNCHANGED channel
      BY <2>2 DEF Submit
    <3> QED  BY <3>1, RequestStep
  <2>3. ASSUME NEW r \in Requests, CodeSent(r) \/ Refused(r) \/ PasswordRequired(r) PROVE SavesOnlySession'
    <3>1. RequestEnds(r) /\ UNCHANGED channel
      BY <2>3 DEF CodeSent, Refused, PasswordRequired
    <3> QED  BY <2>0, <3>1, RequestStep
  <2>4. ASSUME NEW r \in Requests, Verified(r) PROVE SavesOnlySession'
    <3>1. PICK q : q.pc = "loading" /\ req' = [req EXCEPT ![r] = q] /\ UNCHANGED channel
      BY <2>4 DEF Verified
    <3> QED  BY <3>1, RequestStep
  <2>5. ASSUME NEW r \in Requests, LoadChannel(r) PROVE SavesOnlySession'
    <3>1. CASE RequestEnds(r)
      BY <2>0, <2>5, <3>1, RequestStep DEF LoadChannel
    <3>2. CASE ~RequestEnds(r)
      <4>1. PICK q : /\ q.pc = "saving" /\ req' = [req EXCEPT ![r] = q] /\ q.revision = channel.revision
                     /\ q.config = [channel.sealed.config EXCEPT !.values.session = req[r].session]
        BY <2>5, <3>2 DEF LoadChannel, OpenChannel
      <4>2. WithoutSession(q.config) = WithoutSession(channel.sealed.config)
        BY <4>1, SessionReplaced
      <4>3. DOMAIN req' = Requests /\ req'[r] = q /\ (\A s \in Requests \ {r} : req'[s] = req[s]) /\ UNCHANGED channel
        BY <2>5, <4>1 DEF SavesOnlySession, LoadChannel
      <4>4. \A s \in Requests : req'[s].pc = "saving" =>
              /\ req'[s].revision \in Nat /\ req'[s].revision <= channel.revision
              /\ req'[s].revision = channel.revision => WithoutSession(req'[s].config) = WithoutSession(channel.sealed.config)
        BY <4>1, <4>2, <4>3 DEF SavesOnlySession
      <4>5. DOMAIN channel = {"typ", "sealed", "revision"} /\ channel.revision \in Nat
        BY DEF SavesOnlySession
      <4> QED  BY <4>3, <4>4, <4>5 DEF SavesOnlySession, WithoutSession
    <3> QED  BY <3>1, <3>2
  <2>6. ASSUME NEW r \in Requests, SaveSession(r) PROVE SavesOnlySession'
    <3>1. DOMAIN channel = {"typ", "sealed", "revision"}
      BY DEF SavesOnlySession
    <3>2. UNCHANGED channel \/ (DOMAIN channel' = {"typ", "sealed", "revision"} /\ channel'.revision = channel.revision + 1)
      BY <2>6, <3>1 DEF SaveSession
    <3> QED  BY <2>0, <2>6, <3>2, RequestStep DEF SaveSession
  <2>7. ASSUME NEW r \in Requests, BeginReplace(r) PROVE SavesOnlySession'
    <3>1. PICK q : q.pc = "replacing" /\ req' = [req EXCEPT ![r] = q] /\ UNCHANGED channel
      BY <2>7 DEF BeginReplace
    <3> QED  BY <3>1, RequestStep
  <2>8. ASSUME NEW r \in Requests, ReplaceChannel(r) PROVE SavesOnlySession'
    <3>1. UNCHANGED channel \/ (DOMAIN channel' = {"typ", "sealed", "revision"} /\ channel'.revision = channel.revision + 1)
      BY <2>8 DEF ReplaceChannel
    <3> QED  BY <2>0, <2>8, <3>1, RequestStep DEF ReplaceChannel
  <2>9. ASSUME NEW l \in Logins, LoginExpires(l) PROVE SavesOnlySession'
    BY <2>9 DEF LoginExpires, SavesOnlySession, WithoutSession
  <2>10. CASE SetChannelEnabled
    BY <2>10 DEF SetChannelEnabled, SavesOnlySession
  <2> QED  BY <2>1, <2>2, <2>3, <2>4, <2>5, <2>6, <2>7, <2>8, <2>9, <2>10 DEF ChannelNext
<1>3. ASSUME SavesOnlySession, UNCHANGED channelVars PROVE SavesOnlySession'
  BY <1>3 DEF SavesOnlySession, channelVars, WithoutSession
<1> QED  BY <1>1, <1>2, <1>3, PTL DEF ChannelSpec

-----------------------------------------------------------------------------
(* What is stored is what is read. *)

LEMMA Variants ==
  /\ DOMAIN Schema = {"bot", "mtproto", "email", "webhook"}
  /\ TypeOf("bot") = "telegram" /\ TypeOf("mtproto") = "telegram" /\ TypeOf("email") = "email" /\ TypeOf("webhook") = "webhook"
  BY DEF Schema, TypeOf

LEMMA FieldsOf ==
  /\ DOMAIN Schema["bot"] = {"bot_token", "chat_id"}
  /\ DOMAIN Schema["mtproto"] = {"api_id", "api_hash", "phone", "chat_id", "session", "username"}
  /\ DOMAIN Schema["email"] = {"server", "username", "password"}
  /\ DOMAIN Schema["webhook"] = {"url", "secret"}
  BY DEF Schema

\* Only fields that need not be there are left out when they are empty.
LEMMA OmittedAreOptional ==
  \A v \in DOMAIN Schema : \A k \in DOMAIN Schema[v] :
    k \notin {"mode", "language"} /\ (k \in OmitEmpty(v) => Schema[v][k] \in {"optional", "rawOptional"})
  BY DEF Schema, OmitEmpty

\* What a reader returns it would return again.
LEMMA ReadersReadBack == \A kind, fields, key : \A v \in ReadField(kind, fields, key) : ReadBack(kind, v)
<1> SUFFICES ASSUME NEW kind, NEW fields, NEW key, NEW v \in ReadField(kind, fields, key) PROVE ReadBack(kind, v)
  OBVIOUS
<1>1. CASE key \notin DOMAIN fields
  BY <1>1 DEF ReadField, ReadBack
<1>2. CASE key \in DOMAIN fields /\ fields[key] \in {"null", "wrong", "long"}
  BY <1>2 DEF ReadField
<1>3. CASE key \in DOMAIN fields /\ fields[key] = ""
  BY <1>3 DEF ReadField, ReadBack
<1>4. CASE key \in DOMAIN fields /\ fields[key] = " "
  BY <1>4 DEF ReadField, ReadBack
<1>5. CASE key \in DOMAIN fields /\ fields[key] \notin {"null", "wrong", "long", "", " "}
  BY <1>5 DEF ReadField, ReadBack
<1> QED  BY <1>1, <1>2, <1>3, <1>4, <1>5

LEMMA ReadBackIsRead ==
  \A kind, fields, key, value :
    key \in DOMAIN fields /\ fields[key] = value /\ ReadBack(kind, value) => ReadField(kind, fields, key) = {value}
<1> SUFFICES ASSUME NEW kind, NEW fields, NEW key, key \in DOMAIN fields, ReadBack(kind, fields[key])
             PROVE ReadField(kind, fields, key) = {fields[key]}
  OBVIOUS
<1>3. CASE fields[key] = ""
  BY <1>3 DEF ReadField, ReadBack
<1>4. CASE fields[key] = " "
  BY <1>4 DEF ReadField, ReadBack
<1>5. CASE fields[key] \notin {"", " "}
  BY <1>5 DEF ReadField, ReadBack
<1> QED  BY <1>3, <1>4, <1>5

\* Whatever is decoded is canonical, and of the type asked for.
LEMMA DecodedIsCanonical ==
  ASSUME NEW v \in DOMAIN Schema, NEW fields, NEW c \in DecodeVariant(v, fields)
  PROVE /\ Canonical(c) /\ c.variant = v
        /\ \A k \in DOMAIN Schema[v] : c.values[k] \in ReadField(Schema[v][k], fields, k)
<1> DEFINE read(k) == ReadField(Schema[v][k], fields, k)
           vals == [k \in DOMAIN Schema[v] |-> CHOOSE x \in read(k) : TRUE]
<1>1. \A k \in DOMAIN Schema[v] : read(k) # {}
  BY DEF DecodeVariant
<1>2. PICK l \in ReadLanguage(fields) : c = [variant |-> v, language |-> l, values |-> vals]
  BY <1>1 DEF DecodeVariant
<1>3. \A k \in DOMAIN Schema[v] : vals[k] \in read(k)
  BY <1>1
<1>4. l \in Languages
  BY DEF ReadLanguage, Languages
<1>5. c.variant = v /\ c.language = l /\ c.values = vals
  BY <1>2
<1> HIDE DEF read, vals
<1>6. c = [variant |-> c.variant, language |-> c.language, values |-> c.values]
  BY <1>2, <1>5
<1>7. vals = [k \in DOMAIN Schema[v] |-> vals[k]]
  BY DEF vals
<1>8. \A k \in DOMAIN Schema[v] : ReadBack(Schema[v][k], vals[k])
  BY <1>3, ReadersReadBack DEF read
<1>9. Canonical(c)
  BY <1>4, <1>5, <1>6, <1>7, <1>8 DEF Canonical
<1> QED  BY <1>3, <1>5, <1>9 DEF read

LEMMA TypesDecode ==
  ASSUME NEW typ \in {"telegram", "email", "webhook"}, NEW fields, NEW c \in DecodeConfig(typ, fields)
  PROVE /\ Canonical(c) /\ TypeOf(c.variant) = typ
        /\ \A k \in DOMAIN Schema[c.variant] : c.values[k] \in ReadField(Schema[c.variant][k], fields, k)
<1>1. PICK v \in (IF typ = "telegram" THEN ReadTelegramMode(fields) ELSE {typ}) : c \in DecodeVariant(v, fields)
  BY DEF DecodeConfig
<1>2. v \in DOMAIN Schema /\ TypeOf(v) = typ
  BY <1>1, Variants DEF ReadTelegramMode
<1> QED  BY <1>1, <1>2, DecodedIsCanonical


\* Fields that say what a configuration holds decode to it.
LEMMA FieldsDecode ==
  ASSUME NEW c, Canonical(c), NEW fields, DOMAIN fields \subseteq KnownFields(c.variant),
         \A k \in DOMAIN Schema[c.variant] : ReadField(Schema[c.variant][k], fields, k) = {c.values[k]},
         ReadLanguage(fields) = {c.language},
         TypeOf(c.variant) = "telegram" => ReadTelegramMode(fields) = {c.variant}
  PROVE DecodeConfig(TypeOf(c.variant), fields) = {c}
<1> DEFINE v == c.variant
           read(k) == ReadField(Schema[v][k], fields, k)
           vals == [k \in DOMAIN Schema[v] |-> CHOOSE x \in read(k) : TRUE]
<1>1. \A k \in DOMAIN Schema[v] : read(k) # {} /\ (CHOOSE x \in read(k) : TRUE) = c.values[k]
  OBVIOUS
<1>2. vals = [k \in DOMAIN Schema[v] |-> c.values[k]]
  BY <1>1
<1>3. vals = c.values /\ c = [variant |-> v, language |-> c.language, values |-> c.values]
  BY <1>2 DEF Canonical
<1>4. DecodeVariant(v, fields) = {[variant |-> v, language |-> l, values |-> vals] : l \in ReadLanguage(fields)}
  BY <1>1 DEF DecodeVariant
<1>5. DecodeVariant(v, fields) = {c}
  <2> HIDE DEF vals, read, v
  <2> QED  BY <1>3, <1>4
<1>6. (IF TypeOf(v) = "telegram" THEN ReadTelegramMode(fields) ELSE {TypeOf(v)}) = {v}
  BY Variants DEF Canonical
<1> QED  BY <1>5, <1>6 DEF DecodeConfig

\* What fields show of a configuration.
Shows(f, c, keys, language) ==
  /\ DOMAIN f \subseteq keys \cup {"mode", "language"} /\ DOMAIN f \subseteq KnownFields(c.variant)
  /\ \A k \in keys : /\ k \in DOMAIN f => f[k] = c.values[k]
                     /\ k \notin DOMAIN f => c.values[k] = "" /\ k \in OmitEmpty(c.variant)
  /\ "language" \in DOMAIN f <=> language # ""
  /\ "language" \in DOMAIN f => f["language"] = language
  /\ "mode" \in DOMAIN f <=> TypeOf(c.variant) = "telegram"
  /\ "mode" \in DOMAIN f => f["mode"] = c.variant

LEMMA WrittenFields ==
  ASSUME NEW c, Canonical(c), NEW keys, \A k \in keys : k \in DOMAIN Schema[c.variant], NEW language
  PROVE Shows(Encoded(c, keys, language), c, keys, language)
<1> PICK f : f = Encoded(c, keys, language)
  OBVIOUS
<1>0. c.variant \in DOMAIN Schema
  BY DEF Canonical
<1>1. "mode" \notin keys /\ "language" \notin keys
  BY <1>0, OmittedAreOptional
<1> DEFINE written == {k \in keys : c.values[k] = "" => k \notin OmitEmpty(c.variant)}
           mode == IF TypeOf(c.variant) = "telegram" THEN {"mode"} ELSE {}
           lang == IF language = "" THEN {} ELSE {"language"}
           val(k) == CASE k = "mode" -> c.variant [] k = "language" -> language [] OTHER -> c.values[k]
<1>2. f = [k \in written \cup mode \cup lang |-> val(k)]
  BY DEF Encoded
<1>3. val("mode") = c.variant /\ val("language") = language /\ \A k \in keys : val(k) = c.values[k]
  BY <1>1
<1> HIDE DEF val
<1>4. DOMAIN f = written \cup mode \cup lang /\ \A k \in DOMAIN f : f[k] = val(k)
  BY <1>2
<1>5. DOMAIN f \subseteq KnownFields(c.variant)
  BY <1>4 DEF KnownFields
<1> QED  BY <1>1, <1>3, <1>4, <1>5 DEF Shows

\* A field that was written is read as it was, and one left out as empty.
LEMMA WrittenIsRead ==
  ASSUME NEW c, Canonical(c), NEW k \in DOMAIN Schema[c.variant], NEW f, k \in DOMAIN f, f[k] = c.values[k]
  PROVE ReadField(Schema[c.variant][k], f, k) = {c.values[k]}
<1>1. ReadBack(Schema[c.variant][k], c.values[k])
  BY DEF Canonical
<1> QED  BY <1>1, ReadBackIsRead

LEMMA OmittedIsRead ==
  ASSUME NEW c, Canonical(c), NEW k \in DOMAIN Schema[c.variant], NEW f, k \notin DOMAIN f,
         c.values[k] = "", k \in OmitEmpty(c.variant)
  PROVE ReadField(Schema[c.variant][k], f, k) = {c.values[k]}
  BY OmittedAreOptional DEF Canonical, ReadField

\* Fields that show all of a configuration decode to it.
LEMMA ShownDecodes ==
  ASSUME NEW c, Canonical(c), NEW f, Shows(f, c, DOMAIN Schema[c.variant], c.language)
  PROVE DecodeConfig(TypeOf(c.variant), f) = {c}
<1>1. c.language \in Languages /\ c.variant \in DOMAIN Schema
  BY DEF Canonical
<1>2. ASSUME NEW k \in DOMAIN Schema[c.variant] PROVE ReadField(Schema[c.variant][k], f, k) = {c.values[k]}
  <2>1. CASE k \in DOMAIN f
    <3>1. f[k] = c.values[k]
      BY <2>1 DEF Shows
    <3> QED  BY <2>1, <3>1, WrittenIsRead
  <2>2. CASE k \notin DOMAIN f
    <3>1. c.values[k] = "" /\ k \in OmitEmpty(c.variant)
      BY <2>2 DEF Shows
    <3> QED  BY <2>2, <3>1, OmittedIsRead
  <2> QED  BY <2>1, <2>2
<1>3. ReadLanguage(f) = {c.language}
  BY <1>1 DEF ReadLanguage, Shows, Languages
<1>4. TypeOf(c.variant) = "telegram" => ReadTelegramMode(f) = {c.variant}
  BY <1>1, Variants DEF ReadTelegramMode, Shows
<1>5. DOMAIN f \subseteq KnownFields(c.variant)
  BY DEF Shows
<1> QED  BY <1>2, <1>3, <1>4, <1>5, FieldsDecode

\* marshalConfig and DecodeConfig are inverse on what is stored.
LEMMA MarshalledShows == ASSUME NEW c, Canonical(c) PROVE Shows(MarshalConfig(c), c, DOMAIN Schema[c.variant], c.language)
<1>1. DOMAIN c.values = DOMAIN Schema[c.variant]
  BY DEF Canonical
<1> QED  BY <1>1, WrittenFields DEF MarshalConfig

LEMMA MarshalledDecodes == ASSUME NEW c, Canonical(c) PROVE DecodeConfig(TypeOf(c.variant), MarshalConfig(c)) = {c}
  BY MarshalledShows, ShownDecodes

\* Fields without a session of Telegram's, and what becomes of them.
NoSession(f) == "session" \in DOMAIN f => f["session"] \notin DOMAIN Owner

LEMMA InheritedNoSession ==
  ASSUME NEW f, NoSession(f), NEW key, key # "session", NEW value
  PROVE NoSession(With(f, key, value)) /\ NoSession(InheritStringIfEmpty(f, key, value))
<1>1. NoSession(With(f, key, value))
  BY DEF NoSession, With
<1> QED  BY <1>1 DEF InheritStringIfEmpty

LEMMA DecodedNoSession ==
  ASSUME NEW typ \in {"telegram", "email", "webhook"}, NEW f, NoSession(f), NEW c \in DecodeConfig(typ, f)
  PROVE /\ Canonical(c) /\ TypeOf(c.variant) = typ
        /\ c.variant = "mtproto" => c.values.session \notin DOMAIN Owner
<1>1. Canonical(c) /\ TypeOf(c.variant) = typ
  BY TypesDecode
<1>2. ASSUME c.variant = "mtproto" PROVE c.values.session \notin DOMAIN Owner
  <2>1. "session" \in DOMAIN Schema["mtproto"] /\ Schema["mtproto"]["session"] = "rawOptional"
    BY DEF Schema
  <2>2. c.values["session"] \in ReadField("rawOptional", f, "session")
    BY <1>2, <2>1, TypesDecode
  <2>3. CASE "session" \notin DOMAIN f
    BY <2>2, <2>3, OwnerAssumption DEF ReadField
  <2>4. CASE "session" \in DOMAIN f
    <3>1. f["session"] \notin DOMAIN Owner
      BY <2>4 DEF NoSession
    <3>2. c.values["session"] = "" \/ c.values["session"] = f["session"]
      <4>1. CASE f["session"] \in {"null", "wrong", "long"}
        BY <2>2, <2>4, <4>1 DEF ReadField
      <4>2. CASE f["session"] \in {"", " "}
        BY <2>2, <2>4, <4>2 DEF ReadField
      <4>3. CASE f["session"] \notin {"null", "wrong", "long", "", " "}
        BY <2>2, <2>4, <4>3 DEF ReadField
      <4> QED  BY <4>1, <4>2, <4>3
    <3> QED  BY <3>1, <3>2, OwnerAssumption
  <2> QED  BY <2>3, <2>4
<1> QED  BY <1>1, <1>2

LEMMA DecodedIsSound ==
  ASSUME NEW typ \in {"telegram", "email", "webhook"}, NEW f, NoSession(f), NEW c \in NormalizeConfig(typ, f)
  PROVE Sound(c) /\ TypeOf(c.variant) = typ
<1>1. c \in DecodeConfig(typ, f)
  BY DEF NormalizeConfig
<1> QED  BY <1>1, DecodedNoSession DEF Sound, SessionIsOwn

\* Setting one field of a configuration.
WithField(c, key, x) == [c EXCEPT !.values[key] = x]
LEMMA FieldSet ==
  ASSUME NEW c, Canonical(c), NEW key \in DOMAIN Schema[c.variant], NEW x, ReadBack(Schema[c.variant][key], x),
         NEW d, d = WithField(c, key, x)
  PROVE /\ Canonical(d) /\ d.variant = c.variant /\ d.language = c.language
        /\ d.values[key] = x /\ \A k \in DOMAIN Schema[c.variant] \ {key} : d.values[k] = c.values[k]
<1> PICK v, l, f : v = c.variant /\ l = c.language /\ f = c.values
  OBVIOUS
<1>1. /\ c = [variant |-> v, language |-> l, values |-> f] /\ DOMAIN f = DOMAIN Schema[v]
      /\ v \in DOMAIN Schema /\ l \in Languages
      /\ \A k \in DOMAIN Schema[v] : ReadBack(Schema[v][k], f[k])
  BY DEF Canonical
<1> PICK g : g = [f EXCEPT ![key] = x]
  OBVIOUS
<1>2. d = [variant |-> v, language |-> l, values |-> g]
  BY <1>1 DEF WithField
<1>3. d.variant = v /\ d.language = l /\ d.values = g
  BY <1>2
<1>4. DOMAIN g = DOMAIN Schema[v] /\ g[key] = x /\ \A k \in DOMAIN Schema[v] \ {key} : g[k] = f[k]
  BY <1>1
<1>5. \A k \in DOMAIN Schema[v] : ReadBack(Schema[v][k], g[k])
  BY <1>1, <1>4
<1>6. g = [k \in DOMAIN Schema[v] |-> g[k]]
  BY <1>1, <1>4
<1>7. d = [variant |-> d.variant, language |-> d.language, values |-> d.values]
  BY <1>2, <1>3
<1>8. Canonical(d)
  BY <1>1, <1>3, <1>5, <1>6, <1>7 DEF Canonical
<1> QED  BY <1>3, <1>4, <1>8


\* The session and the user name of the same login are kept.
LEMMA KeptIsSound ==
  ASSUME NEW n, Canonical(n), n.variant = "mtproto", n.values.session \notin DOMAIN Owner,
         NEW prev, Sound(prev), prev.variant = "mtproto", SameMTProtoLogin(prev, n),
         NEW new, new = KeepIfEmpty(KeepIfEmpty(n, prev, "session"), prev, "username")
  PROVE Sound(new) /\ new.variant = "mtproto"
<1> PICK m : m = KeepIfEmpty(n, prev, "session")
  OBVIOUS
<1>0. Canonical(prev) /\ SessionIsOwn(prev)
  BY DEF Sound
<1>1. /\ "session" \in DOMAIN Schema["mtproto"] /\ "username" \in DOMAIN Schema["mtproto"]
      /\ ReadBack(Schema["mtproto"]["session"], prev.values["session"])
      /\ ReadBack(Schema["mtproto"]["username"], prev.values["username"])
  BY <1>0, FieldsOf DEF Canonical
<1>2. /\ Canonical(m) /\ m.variant = "mtproto" /\ \A k \in DOMAIN Schema["mtproto"] \ {"session"} : m.values[k] = n.values[k]
      /\ m.values["session"] \in {n.values["session"], prev.values["session"]}
  <2>1. CASE n.values["session"] = ""
    <3>1. m = WithField(n, "session", prev.values["session"])
      BY <2>1 DEF KeepIfEmpty, WithField
    <3>2. /\ Canonical(m) /\ m.variant = n.variant /\ m.values["session"] = prev.values["session"]
          /\ \A k \in DOMAIN Schema[n.variant] \ {"session"} : m.values[k] = n.values[k]
      BY <1>1, <3>1, FieldSet
    <3> QED  BY <3>2
  <2>2. CASE n.values["session"] # ""
    BY <2>2 DEF KeepIfEmpty
  <2> QED  BY <2>1, <2>2
<1>3. /\ Canonical(new) /\ new.variant = "mtproto"
      /\ \A k \in DOMAIN Schema["mtproto"] \ {"username"} : new.values[k] = m.values[k]
  <2>1. CASE m.values["username"] = ""
    <3>1. new = WithField(m, "username", prev.values["username"])
      BY <2>1 DEF KeepIfEmpty, WithField
    <3> QED  BY <1>1, <1>2, <3>1, FieldSet
  <2>2. CASE m.values["username"] # ""
    BY <1>2, <2>2 DEF KeepIfEmpty
  <2> QED  BY <2>1, <2>2
<1>4. AccountOf(new.values) = AccountOf(prev.values)
  <2>1. \A k \in {"api_id", "api_hash", "phone"} : new.values[k] = prev.values[k]
    BY <1>2, <1>3, FieldsOf DEF SameMTProtoLogin
  <2> QED  BY <2>1 DEF AccountOf
<1>5. new.values["session"] \in {n.values["session"], prev.values["session"]}
  BY <1>2, <1>3, FieldsOf
<1>6. SessionIsOwn(new)
  BY <1>0, <1>4, <1>5 DEF SessionIsOwn
<1> QED  BY <1>3, <1>6 DEF Sound

LEMMA TelegramUpdateIsSound ==
  ASSUME NEW f, NoSession(f), NEW prev, Sound(prev), NEW new \in NormalizeTelegramForUpdate(f, prev)
  PROVE Sound(new) /\ TypeOf(new.variant) = "telegram"
<1> DEFINE token == InheritStringIfEmpty(f, "bot_token", prev.values.bot_token)
           hash == InheritStringIfEmpty(f, "api_hash", prev.values.api_hash)
<1>1. PICK mode \in ReadTelegramMode(f) :
         new \in CASE mode = "bot" /\ prev.variant = "bot" -> NormalizeConfig("telegram", token)
                   [] mode = "mtproto" /\ prev.variant = "mtproto" ->
                        {IF SameMTProtoLogin(prev, n) THEN KeepIfEmpty(KeepIfEmpty(n, prev, "session"), prev, "username") ELSE n :
                           n \in DecodeConfig("telegram", hash)}
                   [] OTHER -> NormalizeConfig("telegram", f)
  BY DEF NormalizeTelegramForUpdate
<1>2. NoSession(token) /\ NoSession(hash)
  BY InheritedNoSession
<1> HIDE DEF token, hash
<1>3. CASE mode = "bot" /\ prev.variant = "bot"
  <2>1. new \in NormalizeConfig("telegram", token)
    BY <1>1, <1>3
  <2> QED  BY <1>2, <2>1, DecodedIsSound
<1>4. CASE mode = "mtproto" /\ prev.variant = "mtproto"
  <2>1. PICK n \in DecodeConfig("telegram", hash) :
          new = IF SameMTProtoLogin(prev, n) THEN KeepIfEmpty(KeepIfEmpty(n, prev, "session"), prev, "username") ELSE n
    BY <1>1, <1>4
  <2>2. /\ Canonical(n) /\ TypeOf(n.variant) = "telegram"
        /\ n.variant = "mtproto" => n.values.session \notin DOMAIN Owner
    BY <1>2, DecodedNoSession
  <2>3. n.variant = "mtproto"
    <3>1. "mode" \in DOMAIN hash /\ hash["mode"] = "mtproto"
      BY <1>1, <1>4 DEF ReadTelegramMode, hash, InheritStringIfEmpty, With
    <3>2. ReadTelegramMode(hash) = {"mtproto"}
      BY <3>1 DEF ReadTelegramMode
    <3>3. n \in DecodeVariant("mtproto", hash)
      BY <2>1, <3>2 DEF DecodeConfig
    <3> QED  BY <3>3, Variants, DecodedIsCanonical
  <2>4. CASE SameMTProtoLogin(prev, n)
    BY <1>4, <2>1, <2>2, <2>3, <2>4, KeptIsSound, Variants
  <2>5. CASE ~SameMTProtoLogin(prev, n)
    BY <2>1, <2>2, <2>3, <2>5 DEF Sound, SessionIsOwn
  <2> QED  BY <2>4, <2>5
<1>5. CASE ~(mode = "bot" /\ prev.variant = "bot") /\ ~(mode = "mtproto" /\ prev.variant = "mtproto")
  <2>1. new \in NormalizeConfig("telegram", f)
    BY <1>1, <1>5
  <2> QED  BY <2>1, DecodedIsSound
<1> QED  BY <1>3, <1>4, <1>5

\* What an update makes of a stored configuration.
LEMMA UpdateIsSound ==
  ASSUME NEW typ \in {"telegram", "email", "webhook"}, NEW fields, NoSession(fields), NEW prev, Sound(prev),
         NEW new \in NormalizeConfigForUpdate(typ, fields, prev)
  PROVE Sound(new) /\ TypeOf(new.variant) = typ
<1> PICK f : f = InheritLanguageIfMissing(fields, prev)
  OBVIOUS
<1>1. NoSession(f)
  BY InheritedNoSession DEF InheritLanguageIfMissing
<1>2. CASE typ # TypeOf(prev.variant)
  <2>1. new \in NormalizeConfig(typ, fields)
    BY <1>2 DEF NormalizeConfigForUpdate
  <2> QED  BY <2>1, DecodedIsSound
<1>3. CASE typ = TypeOf(prev.variant) /\ typ = "telegram"
  <2>1. new \in NormalizeTelegramForUpdate(f, prev)
    BY <1>3 DEF NormalizeConfigForUpdate
  <2> QED  BY <1>1, <1>3, <2>1, TelegramUpdateIsSound
<1>4. CASE typ = TypeOf(prev.variant) /\ typ = "email"
  <2> PICK g : g = InheritStringIfEmpty(f, "password", prev.values.password)
    OBVIOUS
  <2>1. new \in NormalizeConfig(typ, g)
    BY <1>4 DEF NormalizeConfigForUpdate
  <2>2. NoSession(g)
    BY <1>1, InheritedNoSession
  <2> QED  BY <2>1, <2>2, DecodedIsSound
<1>5. CASE typ = TypeOf(prev.variant) /\ typ = "webhook"
  <2> PICK g : g = InheritStringIfEmpty(f, "secret", prev.values.secret)
    OBVIOUS
  <2>1. new \in NormalizeConfig(typ, g)
    BY <1>5 DEF NormalizeConfigForUpdate
  <2>2. NoSession(g)
    BY <1>1, InheritedNoSession
  <2> QED  BY <2>1, <2>2, DecodedIsSound
<1> QED  BY <1>2, <1>3, <1>4, <1>5


-----------------------------------------------------------------------------
(* Every step of a login or a replacement keeps the configuration sound. *)

\* A change of the channel outruns every login and request.
LEMMA Outrun ==
  ASSUME NEW ch, NEW new, ch.revision \in Nat, new.revision = ch.revision + 1, NEW q, RequestKnows(ch, q)
  PROVE RequestKnows(new, q)
<1>1. \A revision, account : KnowsAccount(ch, revision, account) => KnowsAccount(new, revision, account)
  BY DEF KnowsAccount
<1> QED  BY <1>1 DEF RequestKnows

LEMMA LoginOutrun ==
  ASSUME NEW ch, NEW new, ch.revision \in Nat, new.revision = ch.revision + 1, NEW s, LoginKnows(ch, s)
  PROVE LoginKnows(new, s)
<1>1. \A revision, account : KnowsAccount(ch, revision, account) => KnowsAccount(new, revision, account)
  BY DEF KnowsAccount
<1> QED  BY <1>1 DEF LoginKnows

\* A request and perhaps a login move, and the channel stays or is changed.
LEMMA ConfigStep ==
  ASSUME ConfigInv, NEW r \in Requests, NEW q, req' = [req EXCEPT ![r] = q], RequestKnows(channel', q),
         NEW l, NEW s, login' = [login EXCEPT ![l] = s] \/ UNCHANGED login, LoginKnows(channel', s),
         UNCHANGED channel \/ (ChannelSound(channel') /\ channel'.revision = channel.revision + 1)
  PROVE ConfigInv'
<1> PICK ch : ch = channel'
  OBVIOUS
<1>0. ch = channel \/ (ChannelSound(ch) /\ ch.revision = channel.revision + 1)
  OBVIOUS
<1>1. ChannelSound(ch) /\ channel.revision \in Nat
  BY <1>0 DEF ConfigInv, ChannelSound
<1>2. DOMAIN req' = Requests /\ DOMAIN login' = Logins
  BY DEF ConfigInv
<1>3. \A t \in Requests : RequestKnows(ch, req'[t])
  <2>1. \A t \in Requests : RequestKnows(ch, req[t])
    BY <1>0, <1>1, Outrun DEF ConfigInv
  <2>2. \A t \in Requests : req'[t] = req[t] \/ req'[t] = q
    BY DEF ConfigInv
  <2> QED  BY <2>1, <2>2
<1>4. \A t \in Logins : LoginKnows(ch, login'[t])
  <2>1. \A t \in Logins : LoginKnows(ch, login[t])
    BY <1>0, <1>1, LoginOutrun DEF ConfigInv
  <2>2. \A t \in Logins : login'[t] = login[t] \/ login'[t] = s
    BY DEF ConfigInv
  <2> QED  BY <2>1, <2>2
<1> QED  BY <1>1, <1>2, <1>3, <1>4 DEF ConfigInv

LEMMA IdleKnows == \A ch : RequestKnows(ch, IdleRequest) /\ LoginKnows(ch, NoLogin)
  BY DEF RequestKnows, IdleRequest, LoginKnows

LEMMA ConfigInitInv == ChannelInit => ConfigInv
<1> SUFFICES ASSUME ChannelInit PROVE ConfigInv
  OBVIOUS
<1>1. PICK c \in Initials : channel = [typ |-> TypeOf(c.variant), sealed |-> Seal(TypeOf(c.variant), c), revision |-> 1]
  BY DEF ChannelInit
<1>2. Sound(c)
  BY InitialsAssumption DEF Sound, SessionIsOwn
<1>3. ChannelSound(channel)
  BY <1>1, <1>2 DEF ChannelSound, Seal
<1> QED  BY <1>3, IdleKnows DEF ChannelInit, ConfigInv

\* The configuration of the channel, once opened.
LEMMA Opened ==
  ASSUME ConfigInv, NEW c \in OpenChannel(channel)
  PROVE c = channel.sealed.config /\ Sound(c) /\ channel.typ = TypeOf(c.variant) /\ channel.revision \in Nat
  BY DEF ConfigInv, ChannelSound, OpenChannel

LEMMA RequestCodeKeepsConfig == ASSUME ConfigInv, NEW r \in Requests, NEW l \in Logins, RequestCode(r, l) PROVE ConfigInv'
<1>1. PICK c \in OpenChannel(channel) :
        c.variant = "mtproto" /\ req' = [req EXCEPT ![r] = [pc |-> "starting", login |-> l, revision |-> channel.revision, auth |-> c.values]]
  BY DEF RequestCode
<1> PICK q : q = [pc |-> "starting", login |-> l, revision |-> channel.revision, auth |-> c.values]
  OBVIOUS
<1>2. c = channel.sealed.config /\ channel.revision \in Nat
  BY Opened
<1>3. q.pc = "starting" /\ q.revision = channel.revision /\ q.auth = c.values
  OBVIOUS
<1>4. RequestKnows(channel, q)
  BY <1>1, <1>2, <1>3 DEF RequestKnows, KnowsAccount
<1>5. req' = [req EXCEPT ![r] = q] /\ UNCHANGED <<channel, login>>
  BY <1>1 DEF RequestCode
<1> QED  BY <1>4, <1>5, IdleKnows, ConfigStep

\* A login that goes on knows what its request knew, or its state.
LEMMA LoginMoves ==
  ASSUME ConfigInv, NEW r \in Requests, CodeSent(r) \/ PasswordRequired(r) PROVE ConfigInv'
<1>1. PICK x : /\ req[r].pc \in {"starting", "verifying"} /\ UNCHANGED channel /\ req' = [req EXCEPT ![r] = IdleRequest]
               /\ \/ UNCHANGED login
                  \/ login' = [login EXCEPT ![req[r].login] = [kind |-> "login", revision |-> req[r].revision, auth |-> req[r].auth, signedIn |-> x]]
  BY DEF CodeSent, PasswordRequired, RequestAt, RequestEnds
<1> PICK s, l : s = [kind |-> "login", revision |-> req[r].revision, auth |-> req[r].auth, signedIn |-> x] /\ l = req[r].login
  OBVIOUS
<1>2. s.revision = req[r].revision /\ s.auth = req[r].auth
  OBVIOUS
<1>3. LoginKnows(channel, s)
  BY <1>1, <1>2 DEF ConfigInv, RequestKnows, LoginKnows
<1>4. UNCHANGED login \/ login' = [login EXCEPT ![l] = s]
  BY <1>1
<1> QED  BY <1>1, <1>3, <1>4, IdleKnows, ConfigStep

LEMMA SubmitKeepsConfig == ASSUME ConfigInv, NEW r \in Requests, NEW l \in Logins, Submit(r, l) PROVE ConfigInv'
<1>1. PICK q : /\ q.pc = "verifying" /\ q.revision = login[l].revision /\ q.auth = login[l].auth
               /\ req' = [req EXCEPT ![r] = q]
  BY DEF Submit
<1>2. login[l] # NoLogin /\ UNCHANGED <<channel, login>>
  BY DEF Submit
<1>3. RequestKnows(channel, q)
  BY <1>1, <1>2 DEF ConfigInv, LoginKnows, RequestKnows
<1> QED  BY <1>1, <1>2, <1>3, IdleKnows, ConfigStep

LEMMA VerifiedKeepsConfig == ASSUME ConfigInv, NEW r \in Requests, Verified(r) PROVE ConfigInv'
<1>1. PICK s, q :
        /\ s \in DOMAIN Owner /\ Owner[s] = AccountOf(req[r].auth) /\ q.pc = "loading" /\ q.revision = req[r].revision /\ q.session = s
        /\ req' = [req EXCEPT ![r] = q]
  BY DEF Verified
<1>2. req[r].pc = "verifying" /\ UNCHANGED <<channel, login>>
  BY DEF Verified, RequestAt
<1>3. KnowsAccount(channel, req[r].revision, AccountOf(req[r].auth))
  BY <1>2 DEF ConfigInv, RequestKnows
<1>4. RequestKnows(channel, q)
  BY <1>1, <1>3 DEF RequestKnows
<1> QED  BY <1>1, <1>2, <1>4, IdleKnows, ConfigStep


LEMMA LoadKeepsConfig == ASSUME ConfigInv, NEW r \in Requests, LoadChannel(r) PROVE ConfigInv'
<1>1. req[r].pc = "loading" /\ UNCHANGED <<channel, login>>
  BY DEF LoadChannel, RequestAt
<1>2. CASE RequestEnds(r)
  BY <1>1, <1>2, IdleKnows, ConfigStep DEF RequestEnds
<1>3. CASE ~RequestEnds(r)
  <2>1. PICK c \in OpenChannel(channel) :
          /\ c.variant = "mtproto" /\ channel.revision = req[r].revision
          /\ req' = [req EXCEPT ![r] = [pc |-> "saving", login |-> req[r].login, revision |-> req[r].revision,
                                        config |-> [c EXCEPT !.values.session = req[r].session]]]
    BY <1>3 DEF LoadChannel, ConfigInv
  <2> PICK x, q, d : /\ x = req[r].session /\ d = WithField(c, "session", x)
                     /\ q = [pc |-> "saving", login |-> req[r].login, revision |-> req[r].revision, config |-> d]
    OBVIOUS
  <2>2. c = channel.sealed.config /\ Sound(c) /\ channel.revision \in Nat
    BY Opened
  <2>3. /\ x \in DOMAIN Owner /\ Owner[x] = AccountOf(c.values)
    BY <1>1, <2>1, <2>2 DEF ConfigInv, RequestKnows, KnowsAccount
  <2>4. "session" \in DOMAIN Schema[c.variant] /\ ReadBack(Schema[c.variant]["session"], x)
    <3>1. x \notin {"", "null", "wrong", "long"}
      BY <2>3, OwnerAssumption
    <3>2. ReadBack("rawOptional", x)
      BY <3>1 DEF ReadBack
    <3>3. "session" \in DOMAIN Schema["mtproto"] /\ Schema["mtproto"]["session"] = "rawOptional"
      BY DEF Schema
    <3> QED  BY <2>1, <3>2, <3>3
  <2>5. /\ Canonical(d) /\ d.variant = c.variant /\ d.values["session"] = x
        /\ \A k \in DOMAIN Schema[c.variant] \ {"session"} : d.values[k] = c.values[k]
    <3>1. Canonical(c)
      BY <2>2 DEF Sound
    <3> QED  BY <2>4, <3>1, FieldSet
  <2>6. AccountOf(d.values) = AccountOf(c.values)
    BY <2>1, <2>5, FieldsOf DEF AccountOf
  <2>7. Sound(d)
    BY <2>3, <2>5, <2>6 DEF Sound, SessionIsOwn
  <2>8. q.pc = "saving" /\ q.revision = channel.revision /\ q.config = d
    BY <2>1
  <2>9. RequestKnows(channel, q)
    <3>1. KnowsAccount(channel, q.revision, AccountOf(q.config.values))
      <4>1. q.revision = channel.revision /\ channel.sealed.config.variant = "mtproto" /\ channel.revision \in Nat
        BY <2>1, <2>2, <2>8
      <4>2. AccountOf(channel.sealed.config.values) = AccountOf(q.config.values)
        BY <2>2, <2>6, <2>8
      <4> QED  BY <4>1, <4>2 DEF KnowsAccount
    <3>2. q.pc = "saving" /\ Sound(q.config) /\ q.config.variant = "mtproto"
      BY <2>1, <2>5, <2>7, <2>8
    <3> QED  BY <3>1, <3>2 DEF RequestKnows
  <2>10. req' = [req EXCEPT ![r] = q]
    BY <2>1 DEF WithField
  <2> QED  BY <1>1, <2>9, <2>10, IdleKnows, ConfigStep
<1> QED  BY <1>2, <1>3

LEMMA SaveKeepsConfig == ASSUME ConfigInv, NEW r \in Requests, SaveSession(r) PROVE ConfigInv'
<1>1. req[r].pc = "saving" /\ req' = [req EXCEPT ![r] = IdleRequest]
  BY DEF SaveSession, RequestAt, RequestEnds
<1>2. CASE UNCHANGED <<channel, login>>
  BY <1>1, <1>2, IdleKnows, ConfigStep
<1>3. CASE ~UNCHANGED <<channel, login>>
  <2> PICK c, l : c = req[r].config /\ l = req[r].login
    OBVIOUS
  <2>1. /\ channel.revision = req[r].revision /\ login' = [login EXCEPT ![l] = NoLogin]
        /\ channel' = [channel EXCEPT !.sealed = Seal(channel.typ, c), !.revision = channel.revision + 1]
    BY <1>3 DEF SaveSession
  <2>2. /\ Sound(c) /\ c.variant = "mtproto" /\ channel.sealed.config.variant = "mtproto" /\ channel.revision \in Nat
    BY <1>1, <2>1 DEF ConfigInv, ChannelSound, RequestKnows, KnowsAccount
  <2>3. DOMAIN channel = {"typ", "sealed", "revision"} /\ channel.typ = TypeOf("mtproto")
    BY <2>2 DEF ConfigInv, ChannelSound
  <2> PICK ch : ch = channel'
    OBVIOUS
  <2>4. ch = [typ |-> TypeOf("mtproto"), sealed |-> Seal(TypeOf("mtproto"), c), revision |-> channel.revision + 1]
    BY <2>1, <2>3
  <2>5. ChannelSound(ch) /\ ch.revision = channel.revision + 1
    BY <2>2, <2>4 DEF ChannelSound, Seal
  <2> QED  BY <1>1, <2>1, <2>5, IdleKnows, ConfigStep
<1> QED  BY <1>2, <1>3

LEMMA BeginReplaceKeepsConfig == ASSUME ConfigInv, NEW r \in Requests, BeginReplace(r) PROVE ConfigInv'
<1>1. PICK in \in Replacements, old \in OpenChannel(channel) : \E new \in NormalizeConfigForUpdate(in.typ, in.fields, old) :
        req' = [req EXCEPT ![r] = [pc |-> "replacing", revision |-> channel.revision, typ |-> in.typ, config |-> new]]
  BY DEF BeginReplace
<1>2. PICK new \in NormalizeConfigForUpdate(in.typ, in.fields, old) :
        req' = [req EXCEPT ![r] = [pc |-> "replacing", revision |-> channel.revision, typ |-> in.typ, config |-> new]]
  BY <1>1
<1> PICK q : q = [pc |-> "replacing", revision |-> channel.revision, typ |-> in.typ, config |-> new]
  OBVIOUS
<1>3. in.typ \in {"telegram", "email", "webhook"} /\ NoSession(in.fields)
  BY ReplacementsAssumption DEF NoSession
<1>4. Sound(old)
  BY Opened
<1>5. Sound(new) /\ TypeOf(new.variant) = in.typ
  BY <1>3, <1>4, UpdateIsSound
<1>6. RequestKnows(channel, q)
  BY <1>5 DEF RequestKnows
<1>7. req' = [req EXCEPT ![r] = q] /\ UNCHANGED <<channel, login>>
  BY <1>2 DEF BeginReplace
<1> QED  BY <1>6, <1>7, IdleKnows, ConfigStep

LEMMA ReplaceKeepsConfig == ASSUME ConfigInv, NEW r \in Requests, ReplaceChannel(r) PROVE ConfigInv'
<1>1. req[r].pc = "replacing" /\ req' = [req EXCEPT ![r] = IdleRequest] /\ UNCHANGED login
  BY DEF ReplaceChannel, RequestAt, RequestEnds
<1>2. CASE UNCHANGED channel
  BY <1>1, <1>2, IdleKnows, ConfigStep
<1>3. CASE ~UNCHANGED channel
  <2> PICK c, ch : c = req[r].config /\ ch = channel'
    OBVIOUS
  <2>1. ch = [typ |-> req[r].typ, sealed |-> Seal(req[r].typ, c), revision |-> channel.revision + 1]
    BY <1>3 DEF ReplaceChannel
  <2>2. Sound(c) /\ req[r].typ = TypeOf(c.variant) /\ channel.revision \in Nat
    BY <1>1 DEF ConfigInv, ChannelSound, RequestKnows
  <2>3. ChannelSound(ch) /\ ch.revision = channel.revision + 1
    BY <2>1, <2>2 DEF ChannelSound, Seal
  <2> QED  BY <1>1, <2>3, IdleKnows, ConfigStep
<1> QED  BY <1>2, <1>3

LEMMA EnabledKeepsConfig == ASSUME ConfigInv, SetChannelEnabled PROVE ConfigInv'
<1> PICK ch, c : ch = channel' /\ c = channel.sealed.config
  OBVIOUS
<1>1. /\ channel = [typ |-> TypeOf(c.variant), sealed |-> Seal(TypeOf(c.variant), c), revision |-> channel.revision]
      /\ channel.revision \in Nat /\ Sound(c)
  BY DEF ConfigInv, ChannelSound
<1>2. ch = [typ |-> TypeOf(c.variant), sealed |-> Seal(TypeOf(c.variant), c), revision |-> channel.revision + 1]
  BY <1>1 DEF SetChannelEnabled
<1>3. ChannelSound(ch) /\ ch.revision = channel.revision + 1
  BY <1>1, <1>2 DEF ChannelSound, Seal
<1>4. \A r \in Requests : RequestKnows(ch, req[r])
  BY <1>1, <1>3, Outrun DEF ConfigInv
<1>5. \A l \in Logins : LoginKnows(ch, login[l])
  BY <1>1, <1>3, LoginOutrun DEF ConfigInv
<1> QED  BY <1>3, <1>4, <1>5 DEF ConfigInv, SetChannelEnabled

LEMMA ExpiryKeepsConfig == ASSUME ConfigInv, NEW l \in Logins, LoginExpires(l) PROVE ConfigInv'
<1>1. UNCHANGED <<channel, req>> /\ login' = [login EXCEPT ![l] = NoLogin]
  BY DEF LoginExpires
<1>2. DOMAIN login' = Logins /\ \A k \in Logins : login'[k] = login[k] \/ login'[k] = NoLogin
  BY <1>1 DEF ConfigInv
<1>3. \A k \in Logins : LoginKnows(channel, login'[k])
  BY <1>2, IdleKnows DEF ConfigInv
<1> QED  BY <1>1, <1>2, <1>3 DEF ConfigInv

-----------------------------------------------------------------------------
(* What is shown, saved again. *)

WithLanguage(c, l) == [c EXCEPT !.language = l]

LEMMA LanguageSet ==
  ASSUME NEW c, Canonical(c), NEW l \in Languages, NEW d, d = WithLanguage(c, l)
  PROVE Canonical(d) /\ d.variant = c.variant /\ d.language = l /\ d.values = c.values /\ (l = c.language => d = c)
<1> PICK v, m, f : v = c.variant /\ m = c.language /\ f = c.values
  OBVIOUS
<1>0. c = [variant |-> v, language |-> m, values |-> f]
  BY DEF Canonical
<1>1. /\ f = [k \in DOMAIN Schema[v] |-> f[k]]
      /\ v \in DOMAIN Schema /\ \A k \in DOMAIN Schema[v] : ReadBack(Schema[v][k], f[k])
  BY DEF Canonical
<1>2. d = [variant |-> v, language |-> l, values |-> f]
  BY <1>0 DEF WithLanguage
<1>3. d.variant = v /\ d.language = l /\ d.values = f
  BY <1>2
<1>4. d = [variant |-> d.variant, language |-> d.language, values |-> d.values]
  BY <1>2, <1>3
<1>5. d.values = [k \in DOMAIN Schema[d.variant] |-> d.values[k]]
  BY <1>1, <1>3
<1>6. d.variant \in DOMAIN Schema /\ \A k \in DOMAIN Schema[d.variant] : ReadBack(Schema[d.variant][k], d.values[k])
  BY <1>1, <1>3
<1>7. Canonical(d)
  BY <1>3, <1>4, <1>5, <1>6 DEF Canonical
<1>8. l = m => d = c
  BY <1>0, <1>2
<1> QED  BY <1>3, <1>7, <1>8

LEMMA SecretsOf ==
  /\ DOMAIN Schema["bot"] \cap SecretFields = {"bot_token"}
  /\ DOMAIN Schema["mtproto"] \cap SecretFields = {"api_hash", "session"}
  /\ DOMAIN Schema["email"] \cap SecretFields = {"password"}
  /\ DOMAIN Schema["webhook"] \cap SecretFields = {"secret"}
  /\ "mode" \notin SecretFields /\ "language" \notin SecretFields
  BY FieldsOf DEF SecretFields

\* The form: secrets are empty, the rest is as it is stored.
FormShows(f, c) ==
  /\ DOMAIN f \subseteq KnownFields(c.variant)
  /\ \A k \in DOMAIN Schema[c.variant] \cap SecretFields : k \in DOMAIN f /\ f[k] = ""
  /\ \A k \in DOMAIN Schema[c.variant] \ SecretFields :
       /\ k \in DOMAIN f => f[k] = c.values[k]
       /\ k \notin DOMAIN f => c.values[k] = "" /\ k \in OmitEmpty(c.variant)
  /\ "language" \in DOMAIN f /\ f["language"] = ShownLanguage(c)
  /\ "mode" \in DOMAIN f <=> TypeOf(c.variant) = "telegram"
  /\ "mode" \in DOMAIN f => f["mode"] = c.variant

LEMMA FormFields == ASSUME NEW c, Canonical(c) PROVE FormShows(Form(c), c)
<1> PICK f, keys, s, l : f = Form(c) /\ keys = DOMAIN Schema[c.variant] /\ s = SanitizeConfig(c) /\ l = ShownLanguage(c)
  OBVIOUS
<1>0. DOMAIN c.values = keys
  BY DEF Canonical
<1>1. Shows(s, c, keys \ SecretFields, l)
  BY <1>0, WrittenFields DEF SanitizeConfig
<1>2. DOMAIN f = DOMAIN s \cup (SecretFields \cap keys) /\ \A k \in DOMAIN f : f[k] = IF k \in SecretFields THEN "" ELSE s[k]
  BY <1>0 DEF Form
<1>3. DOMAIN s \subseteq (keys \ SecretFields) \cup {"mode", "language"} /\ DOMAIN s \subseteq KnownFields(c.variant)
  BY <1>1 DEF Shows
<1>4. \A k : k \in DOMAIN f \ SecretFields <=> k \in DOMAIN s
  BY <1>2, <1>3, SecretsOf
<1>5. l # "" /\ "language" \notin SecretFields /\ "mode" \notin SecretFields
  BY SecretsOf DEF ShownLanguage
<1>6. /\ "language" \in DOMAIN s /\ s["language"] = l
      /\ "mode" \in DOMAIN s <=> TypeOf(c.variant) = "telegram"
      /\ "mode" \in DOMAIN s => s["mode"] = c.variant
  BY <1>1, <1>5 DEF Shows
<1>7. /\ "language" \in DOMAIN f /\ f["language"] = l
      /\ "mode" \in DOMAIN f <=> TypeOf(c.variant) = "telegram"
      /\ "mode" \in DOMAIN f => f["mode"] = c.variant
  BY <1>2, <1>4, <1>5, <1>6
<1>8. \A k \in keys \cap SecretFields : k \in DOMAIN f /\ f[k] = ""
  BY <1>2
<1>9. \A k \in keys \ SecretFields :
       /\ k \in DOMAIN f => f[k] = c.values[k]
       /\ k \notin DOMAIN f => c.values[k] = "" /\ k \in OmitEmpty(c.variant)
  BY <1>1, <1>2, <1>4 DEF Shows
<1>10. DOMAIN f \subseteq KnownFields(c.variant)
  BY <1>2, <1>3 DEF KnownFields
<1> QED  BY <1>7, <1>8, <1>9, <1>10 DEF FormShows

LEMMA SameConfig ==
  ASSUME NEW c, Canonical(c), NEW d, Canonical(d), c.variant = d.variant, c.language = d.language,
         \A k \in DOMAIN Schema[c.variant] : c.values[k] = d.values[k]
  PROVE c = d
<1> PICK f, g, keys : f = c.values /\ g = d.values /\ keys = DOMAIN Schema[c.variant]
  OBVIOUS
<1>1. f = [k \in keys |-> f[k]] /\ g = [k \in keys |-> g[k]]
  BY DEF Canonical
<1>2. f = g
  BY <1>1
<1>3. c = [variant |-> c.variant, language |-> c.language, values |-> f] /\ d = [variant |-> d.variant, language |-> d.language, values |-> g]
  BY DEF Canonical
<1> QED  BY <1>2, <1>3

\* The form with its secrets filled in shows all of the configuration.
LEMMA FilledFormShows ==
  ASSUME NEW c, NEW f, FormShows(f, c), c.variant \in DOMAIN Schema, NEW e, e.variant = c.variant, e.language = ShownLanguage(c),
         NEW g, DOMAIN g = DOMAIN f, \A k \in DOMAIN g \ SecretFields : g[k] = f[k],
         \A k \in DOMAIN Schema[c.variant] \ SecretFields : e.values[k] = c.values[k],
         \A k \in DOMAIN Schema[c.variant] \cap SecretFields : g[k] = e.values[k]
  PROVE Shows(g, e, DOMAIN Schema[e.variant], e.language)
<1> PICK keys, l : keys = DOMAIN Schema[c.variant] /\ l = ShownLanguage(c)
  OBVIOUS
<1>1. ASSUME NEW k \in keys
      PROVE /\ k \in DOMAIN g => g[k] = e.values[k]
            /\ k \notin DOMAIN g => e.values[k] = "" /\ k \in OmitEmpty(c.variant)
  <2>1. CASE k \in SecretFields
    BY <2>1 DEF FormShows
  <2>2. CASE k \notin SecretFields
    <3>1. (k \in DOMAIN f => f[k] = c.values[k]) /\ (k \notin DOMAIN f => c.values[k] = "" /\ k \in OmitEmpty(c.variant))
      BY <2>2 DEF FormShows
    <3> QED  BY <2>2, <3>1
  <2> QED  BY <2>1, <2>2
<1>2. "language" \in DOMAIN f /\ f["language"] = l /\ l # ""
  BY DEF FormShows, ShownLanguage
<1>3. /\ "mode" \in DOMAIN f <=> TypeOf(c.variant) = "telegram"
      /\ "mode" \in DOMAIN f => f["mode"] = c.variant
  BY DEF FormShows
<1>4. /\ "language" \in DOMAIN g /\ g["language"] = l
      /\ "mode" \in DOMAIN g <=> TypeOf(c.variant) = "telegram"
      /\ "mode" \in DOMAIN g => g["mode"] = c.variant
  BY <1>2, <1>3, SecretsOf
<1>5. DOMAIN g \subseteq KnownFields(c.variant)
  BY DEF FormShows
<1>6. DOMAIN g \subseteq keys \cup {"mode", "language"}
  BY <1>5 DEF KnownFields
<1> QED  BY <1>1, <1>2, <1>4, <1>5, <1>6 DEF Shows

\* The form has a language, so none is inherited.
LEMMA FormHasLanguage ==
  ASSUME NEW c, Canonical(c) PROVE InheritLanguageIfMissing(Form(c), c) = Form(c)
  BY FormFields DEF FormShows, InheritLanguageIfMissing

\* One secret, taken over from the stored configuration.
LEMMA OneSecretKept ==
  ASSUME NEW c, Canonical(c), NEW key, DOMAIN Schema[c.variant] \cap SecretFields = {key},
         NEW typ, typ = TypeOf(c.variant)
  PROVE NormalizeConfig(typ, InheritStringIfEmpty(Form(c), key, c.values[key])) = {WithLanguage(c, ShownLanguage(c))}
<1> PICK f, value, l, g, e : /\ f = Form(c) /\ value = c.values[key] /\ l = ShownLanguage(c)
                             /\ g = InheritStringIfEmpty(f, key, value) /\ e = WithLanguage(c, l)
  OBVIOUS
<1>0. FormShows(f, c) /\ c.variant \in DOMAIN Schema
  BY FormFields DEF Canonical
<1>1. key \in DOMAIN f /\ f[key] = ""
  BY <1>0 DEF FormShows
<1>2. DOMAIN g = DOMAIN f /\ g[key] = value /\ \A k \in DOMAIN f \ {key} : g[k] = f[k]
  BY <1>1 DEF InheritStringIfEmpty, With
<1>3. l \in Languages
  BY DEF ShownLanguage, Canonical, Languages
<1>4. Canonical(e) /\ e.variant = c.variant /\ e.language = l /\ e.values = c.values
  BY <1>3, LanguageSet
<1>5. Shows(g, e, DOMAIN Schema[e.variant], e.language)
  <2>1. \A k \in DOMAIN g \ SecretFields : g[k] = f[k]
    BY <1>2
  <2>2. \A k \in DOMAIN Schema[c.variant] \cap SecretFields : g[k] = e.values[k]
    BY <1>2, <1>4
  <2>3. \A k \in DOMAIN Schema[c.variant] \ SecretFields : e.values[k] = c.values[k]
    BY <1>4
  <2> QED  BY <1>0, <1>2, <1>4, <2>1, <2>2, <2>3, FilledFormShows
<1>6. DecodeConfig(TypeOf(e.variant), g) = {e}
  BY <1>4, <1>5, ShownDecodes
<1> QED  BY <1>4, <1>6 DEF NormalizeConfig


\* A field that is emptied and set again, and one that is set to what it is.
LEMMA FieldKept ==
  ASSUME NEW c, Canonical(c), NEW key \in DOMAIN Schema[c.variant], NEW x, x = c.values[key]
  PROVE WithField(c, key, x) = c
<1> PICK d : d = WithField(c, key, x)
  OBVIOUS
<1>1. ReadBack(Schema[c.variant][key], x)
  BY DEF Canonical
<1>2. /\ Canonical(d) /\ d.variant = c.variant /\ d.language = c.language /\ d.values[key] = x
      /\ \A k \in DOMAIN Schema[c.variant] \ {key} : d.values[k] = c.values[k]
  BY <1>1, FieldSet
<1>3. \A k \in DOMAIN Schema[c.variant] : d.values[k] = c.values[k]
  BY <1>2
<1> QED  BY <1>2, <1>3, SameConfig

LEMMA FieldRestored ==
  ASSUME NEW c, Canonical(c), NEW key \in DOMAIN Schema[c.variant], NEW y, ReadBack(Schema[c.variant][key], y),
         NEW e, e = WithField(c, key, y), NEW x, x = c.values[key]
  PROVE WithField(e, key, x) = c
<1> PICK d : d = WithField(e, key, x)
  OBVIOUS
<1>1. ReadBack(Schema[c.variant][key], x)
  BY DEF Canonical
<1>2. /\ Canonical(e) /\ e.variant = c.variant /\ e.language = c.language
      /\ \A k \in DOMAIN Schema[c.variant] \ {key} : e.values[k] = c.values[k]
  BY FieldSet
<1>3. key \in DOMAIN Schema[e.variant] /\ ReadBack(Schema[e.variant][key], x)
  BY <1>1, <1>2
<1>4. /\ Canonical(d) /\ d.variant = e.variant /\ d.language = e.language /\ d.values[key] = x
      /\ \A k \in DOMAIN Schema[e.variant] \ {key} : d.values[k] = e.values[k]
  BY <1>2, <1>3, FieldSet
<1>5. \A k \in DOMAIN Schema[c.variant] : d.values[k] = c.values[k]
  BY <1>2, <1>4
<1> QED  BY <1>2, <1>4, <1>5, SameConfig

\* The form with one secret taken over and the other empty decodes to the configuration without it.
Empty(x) == x = ""
DecodesWithout(c, key, other, empty) ==
  LET d == WithLanguage(c, ShownLanguage(c))
      e == WithField(d, other, empty)
  IN  /\ DecodeConfig(TypeOf(c.variant), InheritStringIfEmpty(Form(c), key, c.values[key])) = {e}
      /\ Canonical(d) /\ d.variant = c.variant /\ d.values = c.values
      /\ Canonical(e) /\ e.variant = c.variant /\ e.values[other] = empty
      /\ \A k \in DOMAIN Schema[c.variant] \ {other} : e.values[k] = c.values[k]
      /\ WithField(e, other, c.values[other]) = d
LEMMA OtherSecretEmpty ==
  ASSUME NEW c, Canonical(c), NEW key, NEW other, key # other, DOMAIN Schema[c.variant] \cap SecretFields = {key, other},
         NEW empty, Empty(empty), ReadBack(Schema[c.variant][other], empty)
  PROVE DecodesWithout(c, key, other, empty)
<1> PICK value, d, e : value = c.values[key] /\ d = WithLanguage(c, ShownLanguage(c)) /\ e = WithField(d, other, empty)
  OBVIOUS
<1> PICK f, l, g : f = Form(c) /\ l = ShownLanguage(c) /\ g = InheritStringIfEmpty(f, key, value)
  OBVIOUS
<1>0. FormShows(f, c) /\ c.variant \in DOMAIN Schema
  BY FormFields DEF Canonical
<1>1. key \in DOMAIN f /\ f[key] = empty /\ other \in DOMAIN f /\ f[other] = empty
  BY <1>0 DEF FormShows, Empty
<1>2. DOMAIN g = DOMAIN f /\ g[key] = value /\ \A k \in DOMAIN f \ {key} : g[k] = f[k]
  BY <1>1 DEF InheritStringIfEmpty, With, Empty
<1>3. l \in Languages
  BY DEF ShownLanguage, Canonical, Languages
<1>4. Canonical(d) /\ d.variant = c.variant /\ d.language = l /\ d.values = c.values
  BY <1>3, LanguageSet
<1>5. other \in DOMAIN Schema[d.variant] /\ ReadBack(Schema[d.variant][other], empty)
  BY <1>4
<1>6. /\ Canonical(e) /\ e.variant = d.variant /\ e.language = d.language /\ e.values[other] = empty
      /\ \A k \in DOMAIN Schema[d.variant] \ {other} : e.values[k] = d.values[k]
  <2>1. Canonical(e) /\ e.variant = d.variant /\ e.language = d.language /\ e.values[other] = empty
    BY <1>4, <1>5, FieldSet
  <2>2. \A k \in DOMAIN Schema[d.variant] \ {other} : e.values[k] = d.values[k]
    BY <1>4, <1>5, FieldSet
  <2> QED  BY <2>1, <2>2
<1>7. e.variant = c.variant /\ e.language = l /\ \A k \in DOMAIN Schema[c.variant] \ {other} : e.values[k] = c.values[k]
  BY <1>4, <1>6
<1>8. Shows(g, e, DOMAIN Schema[e.variant], e.language)
  <2>1. \A k \in DOMAIN g \ SecretFields : g[k] = f[k]
    BY <1>2
  <2>2. \A k \in DOMAIN Schema[c.variant] \cap SecretFields : g[k] = e.values[k]
    BY <1>1, <1>2, <1>6, <1>7
  <2>3. \A k \in DOMAIN Schema[c.variant] \ SecretFields : e.values[k] = c.values[k]
    BY <1>7
  <2> QED  BY <1>0, <1>2, <1>7, <2>1, <2>2, <2>3, FilledFormShows
<1>9. DecodeConfig(TypeOf(c.variant), g) = {e}
  BY <1>6, <1>7, <1>8, ShownDecodes
<1>10. WithField(e, other, c.values[other]) = d
  <2>1. d.values[other] = c.values[other]
    BY <1>4
  <2> QED  BY <1>4, <1>5, <2>1, FieldRestored
<1> QED  BY <1>4, <1>6, <1>7, <1>9, <1>10 DEF DecodesWithout

\* The form of an MTProto channel: the hash is taken over, then the session of the same login.
LEMMA LoginKept ==
  ASSUME NEW c, Canonical(c), c.variant = "mtproto", NEW f, f = Form(c), NEW d, d = WithLanguage(c, ShownLanguage(c))
  PROVE NormalizeTelegramForUpdate(f, c) = {d}
<1> PICK e : e = WithField(d, "session", "")
  OBVIOUS
<1>1. /\ DOMAIN Schema[c.variant] \cap SecretFields = {"api_hash", "session"} /\ TypeOf(c.variant) = "telegram"
      /\ "session" \in DOMAIN Schema[c.variant] /\ "username" \in DOMAIN Schema[c.variant]
  BY SecretsOf, FieldsOf, Variants
<1>2. ReadBack(Schema[c.variant]["session"], "")
  <2>1. Schema["mtproto"]["session"] = "rawOptional"
    BY DEF Schema
  <2>2. ReadBack("rawOptional", "")
    BY DEF ReadBack
  <2> QED  BY <2>1, <2>2
<1> PICK g : g = InheritStringIfEmpty(f, "api_hash", c.values["api_hash"])
  OBVIOUS
<1>3. /\ DecodeConfig(TypeOf(c.variant), g) = {e}
      /\ Canonical(d) /\ d.variant = c.variant /\ d.values = c.values
      /\ Canonical(e) /\ e.variant = c.variant /\ e.values["session"] = ""
      /\ \A k \in DOMAIN Schema[c.variant] \ {"session"} : e.values[k] = c.values[k]
      /\ WithField(e, "session", c.values["session"]) = d
  <2>1. DecodesWithout(c, "api_hash", "session", "")
    <3>1. Empty("") /\ "api_hash" # "session"
      BY DEF Empty
    <3> QED  BY <1>1, <1>2, <3>1, OtherSecretEmpty
  <2> QED  BY <2>1 DEF DecodesWithout
<1>4. SameMTProtoLogin(c, e)
  BY <1>3, FieldsOf DEF SameMTProtoLogin
<1>5. KeepIfEmpty(e, c, "session") = d
  <2>1. KeepIfEmpty(e, c, "session") = WithField(e, "session", c.values["session"])
    BY <1>3 DEF KeepIfEmpty, WithField
  <2> QED  BY <1>3, <2>1
<1>6. KeepIfEmpty(d, c, "username") = d
  <2>1. "username" \in DOMAIN Schema[d.variant] /\ c.values["username"] = d.values["username"]
    BY <1>1, <1>3
  <2>2. WithField(d, "username", c.values["username"]) = d
    BY <1>3, <2>1, FieldKept
  <2> QED  BY <2>2 DEF KeepIfEmpty, WithField
<1>7. ReadTelegramMode(f) = {"mtproto"}
  <2>1. "mode" \in DOMAIN f /\ f["mode"] = c.variant
    BY <1>1, FormFields DEF FormShows
  <2> QED  BY <2>1 DEF ReadTelegramMode
<1>8. NormalizeTelegramForUpdate(f, c)
         = {IF SameMTProtoLogin(c, n) THEN KeepIfEmpty(KeepIfEmpty(n, c, "session"), c, "username") ELSE n : n \in DecodeConfig("telegram", g)}
  BY <1>7 DEF NormalizeTelegramForUpdate
<1>9. DecodeConfig("telegram", g) = {e} /\ KeepIfEmpty(KeepIfEmpty(e, c, "session"), c, "username") = d
  BY <1>1, <1>3, <1>5, <1>6
<1> QED  BY <1>4, <1>8, <1>9

LEMMA FormKeeps ==
  ASSUME NEW c, Canonical(c), NEW typ, typ = TypeOf(c.variant)
  PROVE NormalizeConfigForUpdate(typ, Form(c), c) = {WithLanguage(c, ShownLanguage(c))}
<1> PICK f, d : f = Form(c) /\ d = WithLanguage(c, ShownLanguage(c))
  OBVIOUS
<1>0. InheritLanguageIfMissing(f, c) = f
  BY FormHasLanguage
<1>1. CASE c.variant = "bot"
  <2>1. FormShows(f, c)
    BY FormFields
  <2>2. ReadTelegramMode(f) = {"bot"}
    BY <1>1, <2>1, Variants DEF FormShows, ReadTelegramMode
  <2>3. NormalizeTelegramForUpdate(f, c) = NormalizeConfig("telegram", InheritStringIfEmpty(f, "bot_token", c.values["bot_token"]))
    BY <1>1, <2>2 DEF NormalizeTelegramForUpdate
  <2>4. NormalizeTelegramForUpdate(f, c) = {d}
    BY <1>1, <2>3, OneSecretKept, SecretsOf, Variants
  <2> QED  BY <1>0, <1>1, <2>4, Variants DEF NormalizeConfigForUpdate
<1>2. CASE c.variant = "mtproto"
  BY <1>0, <1>2, LoginKept, Variants DEF NormalizeConfigForUpdate
<1>3. CASE c.variant = "email"
  <2>1. NormalizeConfigForUpdate(typ, f, c) = NormalizeConfig(typ, InheritStringIfEmpty(f, "password", c.values["password"]))
    BY <1>0, <1>3, Variants DEF NormalizeConfigForUpdate
  <2> QED  BY <1>3, <2>1, OneSecretKept, SecretsOf, Variants
<1>4. CASE c.variant = "webhook"
  <2>1. NormalizeConfigForUpdate(typ, f, c) = NormalizeConfig(typ, InheritStringIfEmpty(f, "secret", c.values["secret"]))
    BY <1>0, <1>4, Variants DEF NormalizeConfigForUpdate
  <2> QED  BY <1>4, <2>1, OneSecretKept, SecretsOf, Variants
<1> QED  BY <1>1, <1>2, <1>3, <1>4, Variants DEF Canonical


\* What is saved over a configuration of another kind takes at most its language.
LEMMA SchemaHasNoLanguage ==
  \A v \in DOMAIN Schema : "language" \notin DOMAIN Schema[v] /\ "mode" \notin DOMAIN Schema[v] /\ "language" \in KnownFields(v)
  BY DEF Schema, KnownFields

Chosen(S) == CHOOSE x \in S : TRUE
AllWithLanguage(S, l) == {WithLanguage(n, l) : n \in S}

LEMMA VariantTakesLanguage ==
  ASSUME NEW v \in DOMAIN Schema, NEW fields, "language" \notin DOMAIN fields, NEW l \in Languages, l # "",
         NEW f, f = With(fields, "language", l)
  PROVE /\ DecodeVariant(v, f) = AllWithLanguage(DecodeVariant(v, fields), l)
        /\ \A n \in DecodeVariant(v, fields) : n.language = ""
<1>1. DOMAIN f = DOMAIN fields \cup {"language"} /\ f["language"] = l /\ \A k \in DOMAIN fields : f[k] = fields[k]
  BY DEF With
<1>2. \A k \in DOMAIN Schema[v] : k \in DOMAIN f <=> k \in DOMAIN fields
  BY <1>1, SchemaHasNoLanguage
<1>3. \A k \in DOMAIN Schema[v] : ReadField(Schema[v][k], f, k) = ReadField(Schema[v][k], fields, k)
  BY <1>1, <1>2 DEF ReadField
<1>4. DOMAIN f \subseteq KnownFields(v) <=> DOMAIN fields \subseteq KnownFields(v)
  BY <1>1, SchemaHasNoLanguage
<1>5. ReadLanguage(f) = {l} /\ ReadLanguage(fields) = {""}
  BY <1>1 DEF ReadLanguage
<1>6. PICK values, g : values = [k \in DOMAIN Schema[v] |-> CHOOSE x \in ReadField(Schema[v][k], fields, k) : TRUE]
                    /\ g = [k \in DOMAIN Schema[v] |-> CHOOSE x \in ReadField(Schema[v][k], f, k) : TRUE]
  OBVIOUS
<1>7. values = g
  <2>1. values = [k \in DOMAIN Schema[v] |-> Chosen(ReadField(Schema[v][k], fields, k))]
    BY <1>6 DEF Chosen
  <2>2. g = [k \in DOMAIN Schema[v] |-> Chosen(ReadField(Schema[v][k], f, k))]
    BY <1>6 DEF Chosen
  <2>3. \A k \in DOMAIN Schema[v] : Chosen(ReadField(Schema[v][k], fields, k)) = Chosen(ReadField(Schema[v][k], f, k))
    BY <1>3
  <2> QED  BY <2>1, <2>2, <2>3
<1>8. CASE DOMAIN fields \subseteq KnownFields(v) /\ \A k \in DOMAIN Schema[v] : ReadField(Schema[v][k], fields, k) # {}
  <2>1. DecodeVariant(v, fields) = {[variant |-> v, language |-> "", values |-> values]}
    BY <1>5, <1>6, <1>8 DEF DecodeVariant
  <2>2. DecodeVariant(v, f) = {[variant |-> v, language |-> l, values |-> g]}
    BY <1>3, <1>4, <1>5, <1>6, <1>8 DEF DecodeVariant
  <2>3. PICK n, d : n = [variant |-> v, language |-> "", values |-> values] /\ d = WithLanguage(n, l)
    OBVIOUS
  <2>4. d = [variant |-> v, language |-> l, values |-> values] /\ n.language = ""
    BY <2>3 DEF WithLanguage
  <2>5. DecodeVariant(v, fields) = {n} /\ DecodeVariant(v, f) = {d}
    BY <1>7, <2>1, <2>2, <2>3, <2>4
  <2> QED  BY <2>3, <2>4, <2>5 DEF AllWithLanguage
<1>9. CASE ~(DOMAIN fields \subseteq KnownFields(v) /\ \A k \in DOMAIN Schema[v] : ReadField(Schema[v][k], fields, k) # {})
  <2>1. DecodeVariant(v, fields) = {}
    BY <1>9 DEF DecodeVariant
  <2>2. DecodeVariant(v, f) = {}
    BY <1>3, <1>4, <1>9 DEF DecodeVariant
  <2> QED  BY <2>1, <2>2 DEF AllWithLanguage
<1> QED  BY <1>8, <1>9

LEMMA ConfigTakesLanguage ==
  ASSUME NEW fields, "language" \notin DOMAIN fields, NEW l \in Languages, l # "", NEW f, f = With(fields, "language", l)
  PROVE /\ ReadTelegramMode(f) = ReadTelegramMode(fields)
        /\ DecodeConfig("telegram", f) = AllWithLanguage(DecodeConfig("telegram", fields), l)
        /\ \A n \in DecodeConfig("telegram", fields) : n.language = ""
<1>1. ReadTelegramMode(f) = ReadTelegramMode(fields)
  BY DEF ReadTelegramMode, With
<1>2. PICK modes : modes = ReadTelegramMode(fields) /\ modes \subseteq {"bot", "mtproto"}
  BY DEF ReadTelegramMode
<1>3. \A v \in modes : v \in DOMAIN Schema
  BY <1>2 DEF Schema
<1>4. ASSUME NEW v \in modes
      PROVE /\ DecodeVariant(v, f) = AllWithLanguage(DecodeVariant(v, fields), l)
            /\ \A n \in DecodeVariant(v, fields) : n.language = ""
  <2>1. v \in DOMAIN Schema
    BY <1>3
  <2> QED  BY <2>1, VariantTakesLanguage
<1>5. DecodeConfig("telegram", f) = UNION {DecodeVariant(v, f) : v \in modes}
  BY <1>1, <1>2 DEF DecodeConfig
<1>6. DecodeConfig("telegram", fields) = UNION {DecodeVariant(v, fields) : v \in modes}
  BY <1>2 DEF DecodeConfig
<1>7. ASSUME NEW d \in DecodeConfig("telegram", f) PROVE \E n \in DecodeConfig("telegram", fields) : d = WithLanguage(n, l)
  <2>1. PICK v \in modes : d \in DecodeVariant(v, f)
    BY <1>5
  <2>2. PICK n \in DecodeVariant(v, fields) : d = WithLanguage(n, l)
    BY <1>4, <2>1 DEF AllWithLanguage
  <2> QED  BY <1>6, <2>2
<1>8. ASSUME NEW n \in DecodeConfig("telegram", fields) PROVE WithLanguage(n, l) \in DecodeConfig("telegram", f) /\ n.language = ""
  <2>1. PICK v \in modes : n \in DecodeVariant(v, fields)
    BY <1>6
  <2>2. WithLanguage(n, l) \in DecodeVariant(v, f) /\ n.language = ""
    BY <1>4, <2>1 DEF AllWithLanguage
  <2> QED  BY <1>5, <2>2
<1> QED  BY <1>1, <1>7, <1>8 DEF AllWithLanguage

TakesLanguage(fields, f, l) ==
  /\ ReadTelegramMode(f) = ReadTelegramMode(fields)
  /\ DecodeConfig("telegram", f) = AllWithLanguage(DecodeConfig("telegram", fields), l)
  /\ \A n \in DecodeConfig("telegram", fields) : n.language = ""

LEMMA LanguageTaken ==
  \A fields : \A l \in Languages :
    "language" \notin DOMAIN fields /\ l # "" => TakesLanguage(fields, With(fields, "language", l), l)
  BY ConfigTakesLanguage DEF TakesLanguage

LEMMA LanguageIsText ==
  \A typ, fields : "language" \in DOMAIN fields => \A n \in DecodeConfig(typ, fields) : n.language # ""
<1> SUFFICES ASSUME NEW typ, NEW fields, "language" \in DOMAIN fields, NEW n \in DecodeConfig(typ, fields) PROVE n.language # ""
  OBVIOUS
<1>1. PICK v : n \in DecodeVariant(v, fields)
  BY DEF DecodeConfig
<1>2. \A x \in ReadLanguage(fields) : x # ""
  BY DEF ReadLanguage
<1>3. PICK x, values : x \in ReadLanguage(fields) /\ n = [variant |-> v, language |-> x, values |-> values]
  BY <1>1 DEF DecodeVariant
<1> QED  BY <1>2, <1>3

LEMMA DecodedShape ==
  \A typ, fields : \A n \in DecodeConfig(typ, fields) : n = [variant |-> n.variant, language |-> n.language, values |-> n.values]
<1> SUFFICES ASSUME NEW typ, NEW fields, NEW n \in DecodeConfig(typ, fields)
             PROVE n = [variant |-> n.variant, language |-> n.language, values |-> n.values]
  OBVIOUS
<1>1. PICK v : n \in DecodeVariant(v, fields)
  BY DEF DecodeConfig
<1>2. PICK x, values : n = [variant |-> v, language |-> x, values |-> values]
  BY <1>1 DEF DecodeVariant
<1> QED  BY <1>2

LanguageFrom(n, typ, c) == IF n.language = "" /\ typ = TypeOf(c.variant) THEN c.language ELSE n.language

LEMMA OtherKindSaved ==
  ASSUME NEW c, Canonical(c), NEW in \in Replacements, c.variant \notin KindsOf(in)
  PROVE NormalizeConfigForUpdate(in.typ, in.fields, c)
          = {WithLanguage(n, LanguageFrom(n, in.typ, c)) : n \in NormalizeConfig(in.typ, in.fields)}
<1> PICK typ, fields, f : typ = in.typ /\ fields = in.fields /\ f = InheritLanguageIfMissing(fields, c)
  OBVIOUS
<1> PICK plain : plain = DecodeConfig(typ, fields)
  OBVIOUS
<1>0. NormalizeConfig(typ, fields) = plain
  BY DEF NormalizeConfig
<1>1. typ \in {"telegram", "email", "webhook"} /\ c.variant \in DOMAIN Schema /\ c.language \in Languages
  BY ReplacementsAssumption DEF Canonical
<1>2. \A n \in plain : WithLanguage(n, n.language) = n
  BY DecodedShape DEF WithLanguage
<1>3. CASE typ # TypeOf(c.variant)
  <2>1. NormalizeConfigForUpdate(typ, fields, c) = plain
    BY <1>0, <1>3 DEF NormalizeConfigForUpdate
  <2>2. \A n \in plain : WithLanguage(n, LanguageFrom(n, typ, c)) = n
    BY <1>2, <1>3 DEF LanguageFrom
  <2> QED  BY <1>0, <2>1, <2>2
<1>4. CASE typ = TypeOf(c.variant)
  <2>1. typ = "telegram"
    BY <1>1, <1>4, Variants DEF KindsOf
  <2>2. c.variant \notin ReadTelegramMode(fields)
    BY <2>1 DEF KindsOf
  <2>3. /\ ReadTelegramMode(f) = ReadTelegramMode(fields)
        /\ DecodeConfig("telegram", f) = {WithLanguage(n, LanguageFrom(n, typ, c)) : n \in plain}
    <3>1. CASE "language" \in DOMAIN fields
      <4>1. f = fields
        BY <3>1 DEF InheritLanguageIfMissing
      <4>2. \A n \in plain : WithLanguage(n, LanguageFrom(n, typ, c)) = n
        BY <1>2, <3>1, LanguageIsText DEF LanguageFrom
      <4> QED  BY <2>1, <4>1, <4>2
    <3>2. CASE "language" \notin DOMAIN fields /\ c.language = ""
      <4>1. f = fields
        BY <3>2 DEF InheritLanguageIfMissing
      <4>2. \A n \in plain : WithLanguage(n, LanguageFrom(n, typ, c)) = n
        BY <1>2, <3>2 DEF LanguageFrom
      <4> QED  BY <2>1, <4>1, <4>2
    <3>3. CASE "language" \notin DOMAIN fields /\ c.language # ""
      <4>1. f = With(fields, "language", c.language)
        BY <3>3 DEF InheritLanguageIfMissing
      <4>2. /\ ReadTelegramMode(f) = ReadTelegramMode(fields)
            /\ DecodeConfig("telegram", f) = AllWithLanguage(plain, c.language)
            /\ \A n \in plain : n.language = ""
        <5>1. TakesLanguage(fields, f, c.language)
          BY <1>1, <3>3, <4>1, LanguageTaken
        <5> QED  BY <2>1, <5>1 DEF TakesLanguage
      <4>3. \A n \in plain : LanguageFrom(n, typ, c) = c.language
        BY <1>4, <4>2 DEF LanguageFrom
      <4> QED  BY <4>2, <4>3 DEF AllWithLanguage
    <3> QED  BY <3>1, <3>2, <3>3
  <2>4. \A mode \in ReadTelegramMode(f) : mode \in {"bot", "mtproto"} /\ mode # c.variant
    BY <2>2, <2>3 DEF ReadTelegramMode
  <2>5. NormalizeTelegramForUpdate(f, c) = UNION {NormalizeConfig("telegram", f) : mode \in ReadTelegramMode(f)}
    BY <2>4 DEF NormalizeTelegramForUpdate
  <2>6. ReadTelegramMode(f) = {} => DecodeConfig("telegram", f) = {}
    BY DEF DecodeConfig
  <2>7. NormalizeTelegramForUpdate(f, c) = DecodeConfig("telegram", f)
    BY <2>5, <2>6 DEF NormalizeConfig
  <2>8. NormalizeConfigForUpdate(typ, fields, c) = NormalizeTelegramForUpdate(f, c)
    BY <1>4, <2>1 DEF NormalizeConfigForUpdate
  <2> QED  BY <1>0, <2>3, <2>7, <2>8
<1> QED  BY <1>3, <1>4

-----------------------------------------------------------------------------
(* Theorems of the channel. *)

\* However replacements and other logins overlap with a login, finishing it changes the
\* session of the configuration it was started with and nothing else (LoginChangesOnlySession).
THEOREM LoginsChangeOnlySessions == ChannelSpec => LoginChangesOnlySession
<1>1. ASSUME SavesOnlySession, NEW r \in Requests, SaveSession(r), channel' # channel
      PROVE channel'.typ = channel.typ
              /\ [channel'.sealed.config EXCEPT !.values.session = ""] = [channel.sealed.config EXCEPT !.values.session = ""]
  <2>1. req[r].pc = "saving" /\ channel.revision = req[r].revision
        /\ channel' = [channel EXCEPT !.sealed = Seal(channel.typ, req[r].config), !.revision = channel.revision + 1]
    BY <1>1 DEF SaveSession, RequestAt
  <2>2. DOMAIN channel = {"typ", "sealed", "revision"} /\ WithoutSession(req[r].config) = WithoutSession(channel.sealed.config)
    BY <1>1, <2>1 DEF SavesOnlySession
  <2>3. channel'.typ = channel.typ /\ channel'.sealed.config = req[r].config
    BY <2>1, <2>2 DEF Seal
  <2> QED  BY <2>2, <2>3 DEF WithoutSession
<1>2. ASSUME SavesOnlySession
      PROVE [\A r \in Requests :
               SaveSession(r) /\ channel' # channel =>
                 channel'.typ = channel.typ
                   /\ [channel'.sealed.config EXCEPT !.values.session = ""]
                        = [channel.sealed.config EXCEPT !.values.session = ""]]_channelVars
  BY <1>1, <1>2
<1> QED  BY <1>2, LoginInvariant, PTL DEF LoginChangesOnlySession

\* The invariant of a channel's configuration (ConfigInv): whatever logins and replacements
\* overlap (mtlogin, UpdateMTProtoSession, ReplaceChannel), every configuration in use is one the
\* readers return, and a login the channel has not outrun is of the account the channel has.
THEOREM ConfigInvariant == ChannelSpec => []ConfigInv
<1>1. ASSUME ConfigInv, ChannelNext PROVE ConfigInv'
  <2> USE <1>1
  <2>1. ASSUME NEW r \in Requests, Refused(r) PROVE ConfigInv'
    BY <2>1, IdleKnows, ConfigStep DEF Refused, RequestEnds
  <2> QED  BY <2>1, RequestCodeKeepsConfig, SubmitKeepsConfig, LoginMoves, VerifiedKeepsConfig, LoadKeepsConfig, SaveKeepsConfig,
              BeginReplaceKeepsConfig, ReplaceKeepsConfig, EnabledKeepsConfig, ExpiryKeepsConfig DEF ChannelNext
<1>2. ASSUME ConfigInv, UNCHANGED channelVars PROVE ConfigInv'
  BY <1>2 DEF ConfigInv, channelVars
<1> QED  BY <1>1, <1>2, ConfigInitInv, PTL DEF ChannelSpec

\* A stored configuration always opens and decodes to itself, and no interleaving of logins
\* with replacements leaves the session of one account with another (StoredConfigIsSound;
\* marshalConfig and DecodeConfig, sameMTProtoLogin, the revision of UpdateMTProtoSession).
THEOREM StoredConfigsAreSound == ChannelSpec => []StoredConfigIsSound
<1>1. ConfigInv => StoredConfigIsSound
  <2> SUFFICES ASSUME ConfigInv PROVE StoredConfigIsSound
    OBVIOUS
  <2> PICK c : c = channel.sealed.config
    OBVIOUS
  <2>1. c \in OpenChannel(channel)
    BY DEF ConfigInv, ChannelSound, OpenChannel, Seal
  <2>2. Sound(c) /\ channel.typ = TypeOf(c.variant)
    BY <2>1, Opened
  <2>3. DecodeConfig(channel.typ, MarshalConfig(c)) = {c}
    BY <2>2, MarshalledDecodes DEF Sound
  <2> QED  BY <2>1, <2>2, <2>3 DEF StoredConfigIsSound, Sound
<1> QED  BY <1>1, ConfigInvariant, PTL

\* In every state, saving what is shown of the stored configuration loses no secret, and nothing
\* but a language passes from it to another kind of channel; so does every change of the
\* configuration leave it (EditsKeepSecrets; SanitizeConfig, NormalizeConfigForUpdate).
THEOREM EditsNeverLoseSecrets == ChannelSpec => []SecretsAreKept /\ EditsKeepSecrets
<1>1. ConfigInv => SecretsAreKept
  <2> SUFFICES ASSUME ConfigInv, NEW c \in OpenChannel(channel)
               PROVE /\ NormalizeConfigForUpdate(channel.typ, Form(c), c) = {[c EXCEPT !.language = ShownLanguage(c)]}
                     /\ \A in \in Replacements : c.variant \notin KindsOf(in) =>
                          NormalizeConfigForUpdate(in.typ, in.fields, c)
                            = {[n EXCEPT !.language = IF n.language = "" /\ in.typ = channel.typ THEN c.language ELSE n.language] :
                                 n \in NormalizeConfig(in.typ, in.fields)}
    BY DEF SecretsAreKept
  <2>1. Canonical(c) /\ channel.typ = TypeOf(c.variant)
    BY Opened DEF Sound
  <2>2. NormalizeConfigForUpdate(channel.typ, Form(c), c) = {WithLanguage(c, ShownLanguage(c))}
    BY <2>1, FormKeeps
  <2>3. ASSUME NEW in \in Replacements, c.variant \notin KindsOf(in)
        PROVE NormalizeConfigForUpdate(in.typ, in.fields, c)
                = {WithLanguage(n, LanguageFrom(n, in.typ, c)) : n \in NormalizeConfig(in.typ, in.fields)}
    BY <2>1, <2>3, OtherKindSaved
  <2>4. NormalizeConfigForUpdate(channel.typ, Form(c), c) = {[c EXCEPT !.language = ShownLanguage(c)]}
    BY <2>2 DEF WithLanguage
  <2>5. ASSUME NEW in \in Replacements, c.variant \notin KindsOf(in)
        PROVE NormalizeConfigForUpdate(in.typ, in.fields, c)
                = {[n EXCEPT !.language = IF n.language = "" /\ in.typ = channel.typ THEN c.language ELSE n.language] :
                     n \in NormalizeConfig(in.typ, in.fields)}
    <3>1. NormalizeConfigForUpdate(in.typ, in.fields, c)
            = {WithLanguage(n, IF n.language = "" /\ in.typ = channel.typ THEN c.language ELSE n.language) :
                 n \in NormalizeConfig(in.typ, in.fields)}
      BY <2>1, <2>3, <2>5 DEF LanguageFrom
    <3> QED  BY <3>1 DEF WithLanguage
  <2> QED  BY <2>4, <2>5
<1>2. SecretsAreKept' => [channel'.sealed # channel.sealed => SecretsAreKept']_channelVars
  OBVIOUS
<1> QED  BY <1>1, <1>2, ConfigInvariant, PTL DEF EditsKeepSecrets

-----------------------------------------------------------------------------
(* Nodes. *)

USE EntryNamesAssumption
USE DEF Global, Projected, Reports, data, index, locks

LEMMA ObjectsFinite ==
  /\ Cardinality(Workers) \in Nat /\ Objects = 1 .. Cardinality(Workers)
  /\ IsFiniteSet(Objects) /\ Cardinality(Objects) = Cardinality(Workers)
  /\ 0 \notin Objects
  BY WorkersAssumption, FS_CardinalityType, FS_Interval DEF Objects

LEMMA UsersFinite == \A i : IsFiniteSet(Users(i)) /\ Cardinality(Users(i)) \in Nat
  BY WorkersAssumption, FS_Subset, FS_CardinalityType DEF Users

LEMMA IdleIsNoCall == \A c \in Calls : c # IdleOp /\ c.pc # "idle"
  BY DEF Calls, IdleOp

LEMMA StoreInitInv == StoreInit => StoreInv
<1> SUFFICES ASSUME StoreInit PROVE StoreInv
  OBVIOUS
<1>1. \A w \in Workers : op[w] = IdleOp /\ ~Refers(w) /\ ~Holds(w) /\ ~Inside(w) /\ op[w].pc = "idle" /\ op[w].kind = "idle"
  BY DEF StoreInit, IdleOp, Refers, Holds, Inside
<1>2. StoreTypeOK
  <2>1. /\ row \in [Nodes -> [state : {"absent", "live", "deleted"}, secret : Secrets \cup {None}]]
        /\ byID \in [Nodes -> {NoEntry} \cup [id : Nodes, secret : Secrets]]
    BY InitiallyAssumption DEF StoreInit, Entry, NoEntry
  <2>2. bySecret \in [Secrets -> {NoEntry} \cup [id : Nodes, secret : Secrets]]
    <3> SUFFICES ASSUME NEW x \in Secrets, NEW n \in DOMAIN Initially, Initially[n] = x
                 PROVE (CHOOSE k \in DOMAIN Initially : Initially[k] = x) \in Nodes
      BY DEF StoreInit, Entry, NoEntry
    <3> QED  BY InitiallyAssumption
  <2>3. /\ lock \in [Nodes -> Objects \cup {0}] /\ mutex \in [Objects -> [refs : Nat, held : BOOLEAN]]
        /\ op \in [Workers -> {IdleOp} \cup Calls]
        /\ updates \in [Nodes -> BOOLEAN] /\ virt \in [Nodes -> BOOLEAN] /\ left \subseteq Nodes
    BY DEF StoreInit
  <2> QED  BY <2>1, <2>2, <2>3 DEF StoreTypeOK
<1>3. LocksCount
  <2>1. \A i : Users(i) = {}
    BY <1>1 DEF Users
  <2> QED  BY <2>1, FS_EmptySet DEF LocksCount, StoreInit
<1>4. LocksAgree /\ LocksExclude /\ StructuralExcludes
  BY <1>1 DEF LocksAgree, LocksExclude, StructuralExcludes, StoreInit
<1>5. RowsAreDistinct
  BY InitiallyAssumption DEF RowsAreDistinct, StoreInit
<1>6. CallsKnowRows
  BY <1>1 DEF CallsKnowRows, KnowsRow
<1>7. EntriesFollowRows
  <2>1. ASSUME NEW x \in Secrets, bySecret[x] # NoEntry
        PROVE bySecret[x].secret = x /\ row[bySecret[x].id] = [state |-> "live", secret |-> x]
    <3>1. \E n \in DOMAIN Initially : Initially[n] = x
      BY <2>1 DEF StoreInit
    <3>2. PICK n \in DOMAIN Initially : Initially[n] = x /\ bySecret[x] = Entry(n, x)
      BY <3>1 DEF StoreInit
    <3> QED  BY <3>2, InitiallyAssumption DEF StoreInit, Entry
  <2>2. \A n \in Nodes : row[n].state # "deleted"
    BY DEF StoreInit
  <2> QED  BY <2>1, <2>2 DEF EntriesFollowRows
<1>8. DeletedIsPurged
  BY DEF DeletedIsPurged, StoreInit
<1> QED  BY <1>2, <1>3, <1>4, <1>5, <1>6, <1>7, <1>8 DEF StoreInv

-----------------------------------------------------------------------------
(* Locks. *)

LEMMA UnlockType ==
  ASSUME NEW f \in [Objects -> [refs : Nat, held : BOOLEAN]], NEW i \in Objects
  PROVE [f EXCEPT ![i].held = FALSE] \in [Objects -> [refs : Nat, held : BOOLEAN]]
  OBVIOUS

HeldPCs == {"body", "sync", "revoke", "reconcile", "purge", "save", "leave"}
DataPCs == {"sync", "revoke", "reconcile", "purge", "save"}

\* A step of w moves w alone.
Moves(w) == \A v \in Workers \ {w} : op'[v] = op[v]

LocksInv == LocksCount /\ LocksAgree /\ LocksExclude /\ StructuralExcludes

\* Whoever is inside a call keeps its place.
LEMMA BodyKeepsLocks ==
  ASSUME StoreInv, NEW w \in Workers, Moves(w), UNCHANGED locks,
         op[w].pc \in HeldPCs, op'[w].pc \in HeldPCs,
         op'[w].kind = op[w].kind, op'[w].node = op[w].node, op'[w].lock = op[w].lock
  PROVE LocksInv'
<1>1. /\ \A v \in Workers : (Refers(v)' <=> Refers(v)) /\ (Holds(v)' <=> Holds(v)) /\ (Inside(v)' <=> Inside(v))
      /\ \A v \in Workers : op'[v].kind = op[v].kind /\ op'[v].node = op[v].node /\ op'[v].lock = op[v].lock
  BY DEF Moves, HeldPCs, Refers, Holds, Inside
<1>2. \A i : Users(i)' = Users(i)
  BY <1>1 DEF Users
<1>3. LocksCount'
  BY <1>2 DEF StoreInv, LocksCount
<1>4. LocksAgree' /\ LocksExclude' /\ StructuralExcludes'
  BY <1>1 DEF StoreInv, LocksAgree, LocksExclude, StructuralExcludes
<1> QED  BY <1>3, <1>4 DEF LocksInv

\* A call that has no reference to a lock is nobody's concern outside.
LEMMA OutsideKeepsLocks ==
  ASSUME StoreInv, NEW w \in Workers, Moves(w), UNCHANGED locks,
         ~Refers(w), op'[w].pc \in {"idle", "start"}
  PROVE LocksInv'
<1>1. /\ \A v \in Workers \ {w} : (Refers(v)' <=> Refers(v)) /\ (Holds(v)' <=> Holds(v)) /\ (Inside(v)' <=> Inside(v))
      /\ ~Refers(w) /\ ~Refers(w)' /\ ~Holds(w)' /\ ~Inside(w)'
      /\ \A v \in Workers \ {w} : op'[v] = op[v]
  BY DEF Moves, Refers, Holds, Inside
<1>2. \A i : Users(i)' = Users(i)
  BY <1>1 DEF Users
<1>3. LocksCount'
  BY <1>2 DEF StoreInv, LocksCount
<1>4. LocksAgree' /\ LocksExclude' /\ StructuralExcludes'
  BY <1>1 DEF StoreInv, LocksAgree, LocksExclude, StructuralExcludes
<1> QED  BY <1>3, <1>4 DEF LocksInv

\* There is always a lock object that nobody uses.
LEMMA FreshObject ==
  ASSUME StoreInv, NEW w \in Workers, ~Refers(w)
  PROVE \E i \in Objects : mutex[i].refs = 0
<1> DEFINE U == {v \in Workers : Refers(v)}
           used == [v \in U |-> op[v].lock]
           T == {used[v] : v \in U}
<1>1. U \subseteq Workers \ {w} /\ IsFiniteSet(Workers \ {w}) /\ Cardinality(Workers \ {w}) = Cardinality(Workers) - 1
  BY WorkersAssumption, FS_RemoveElement
<1>2. IsFiniteSet(U) /\ Cardinality(U) <= Cardinality(Workers) - 1
  BY <1>1, FS_Subset
<1>3. IsFiniteSet(T) /\ Cardinality(T) <= Cardinality(U)
  <2>1. used \in Surjection(U, T)
    BY DEF Surjection
  <2> QED  BY <1>2, <2>1, FS_Surjection
<1>4. T # Objects
  <2> HIDE DEF U, T
  <2>1. Cardinality(U) \in Nat /\ Cardinality(T) \in Nat
    BY <1>2, <1>3, FS_CardinalityType
  <2> QED  BY <1>2, <1>3, <2>1, ObjectsFinite
<1>5. T \subseteq Objects
  BY DEF StoreInv, LocksAgree
<1>6. PICK i \in Objects : i \notin T
  BY <1>4, <1>5
<1>7. Users(i) = {}
  BY <1>6 DEF Users
<1> QED  BY <1>7, FS_EmptySet DEF StoreInv, LocksCount

\* The structural lock is taken, and by calls of one node a reference to the node's lock.
LEMMA RetainLocks ==
  ASSUME StoreInv, NEW w \in Workers, Retain(w)
  PROVE LocksInv'
<1> USE DEF StoreInv, StoreTypeOK
<1>0. op[w] \in Calls /\ op[w].pc = "start" /\ Moves(w) /\ ~Refers(w) /\ ~Holds(w) /\ ~Inside(w)
  BY IdleIsNoCall DEF Retain, At, Goes, Moves, Refers, Holds, Inside, IdleOp
<1>1. /\ \A v \in Workers \ {w} : (Refers(v)' <=> Refers(v)) /\ (Holds(v)' <=> Holds(v)) /\ (Inside(v)' <=> Inside(v)) /\ op'[v] = op[v]
  BY <1>0 DEF Moves, Refers, Holds, Inside
<1>2. op'[w].kind = op[w].kind /\ op'[w].node = op[w].node /\ Inside(w)'
  BY <1>0 DEF Retain, Goes, Inside, Calls
<1>3. StructuralExcludes'
  <2>1. \A v \in Workers \ {w} : Inside(v) =>
           /\ op[w].kind \in Global => op[v].kind \notin Global \cup Projected
           /\ op[w].kind \in Projected => op[v].kind \notin Global
    BY DEF Retain, StructuralFree
  <2>2. op[w].kind \in Global \cup Projected \cup Reports
    BY <1>0 DEF Calls
  <2> QED  BY <1>1, <1>2, <2>1, <2>2 DEF StructuralExcludes
<1>4. CASE op[w].kind \in Global
  <2>1. ~Refers(w)' /\ ~Holds(w)' /\ UNCHANGED locks
    BY <1>2, <1>4 DEF Refers, Holds, Retain
  <2>2. \A i : Users(i)' = Users(i)
    BY <1>0, <1>1, <2>1 DEF Users
  <2>3. LocksCount' /\ LocksAgree' /\ LocksExclude'
    <3>1. /\ \A v \in Workers : Refers(v)' => Refers(v) /\ op'[v] = op[v]
          /\ \A v \in Workers : Holds(v)' => Holds(v) /\ op'[v] = op[v]
      BY <1>1, <2>1
    <3>2. LocksCount'
      BY <2>1, <2>2 DEF LocksCount
    <3>3. LocksAgree'
      BY <2>1, <3>1 DEF LocksAgree
    <3>4. LocksExclude'
      BY <2>1, <3>1 DEF LocksExclude
    <3> QED  BY <3>2, <3>3, <3>4
  <2> QED  BY <1>3, <2>3 DEF LocksInv
<1>5. CASE op[w].kind \notin Global
  <2> DEFINE n == op[w].node
             fresh == CHOOSE i \in Objects : mutex[i].refs = 0
             i == IF lock[n] = 0 THEN fresh ELSE lock[n]
  <2>1. n \in Nodes /\ fresh \in Objects /\ mutex[fresh].refs = 0
    BY <1>0, FreshObject DEF Calls
  <2>2. i \in Objects
    BY <2>1
  <2>3. /\ lock' = [lock EXCEPT ![n] = i] /\ mutex' = [mutex EXCEPT ![i].refs = @ + 1]
        /\ op'[w].pc = "acquire" /\ op'[w].lock = i
    BY <1>0, <1>5 DEF Retain, Calls
  <2>4. Refers(w)' /\ ~Holds(w)'
    BY <1>2, <1>5, <2>3 DEF Refers, Holds
  <2>5. lock[n] = 0 => \A v \in Workers : Refers(v) => op[v].node # n
    BY <2>1, ObjectsFinite DEF LocksAgree
  <2> HIDE DEF fresh
  <2>6. \A m \in Nodes : lock[m] # fresh
    BY <2>1, ObjectsFinite DEF LocksAgree
  <2> HIDE DEF i
  <2>7. LocksCount'
    <3> SUFFICES ASSUME NEW k \in Objects PROVE mutex'[k].refs = Cardinality(Users(k)')
      BY DEF LocksCount
    <3>1. CASE k = i
      <4>1. Users(k)' = Users(k) \cup {w} /\ w \notin Users(k)
        BY <1>0, <1>1, <2>3, <2>4, <3>1 DEF Users
      <4>2. Cardinality(Users(k)') = Cardinality(Users(k)) + 1
        BY <4>1, UsersFinite, FS_AddElement
      <4> QED  BY <2>2, <2>3, <3>1, <4>2 DEF LocksCount
    <3>2. CASE k # i
      <4>1. Users(k)' = Users(k)
        BY <1>0, <1>1, <2>3, <2>4, <3>2 DEF Users
      <4> QED  BY <2>2, <2>3, <3>2, <4>1 DEF LocksCount
    <3> QED  BY <3>1, <3>2
  <2>8. /\ \A m \in Nodes \ {n} : lock'[m] = lock[m]
        /\ lock'[n] = i /\ (lock[n] # 0 => i = lock[n]) /\ (lock[n] = 0 => i = fresh)
        /\ \A k \in Objects : mutex'[k].refs >= mutex[k].refs /\ mutex'[k].held = mutex[k].held
        /\ mutex'[i].refs > 0
    BY <2>1, <2>2, <2>3 DEF i
  <2>9. LocksAgree'
    <3>1. \A v \in Workers : Refers(v)' => op'[v].lock \in Objects /\ lock'[op'[v].node] = op'[v].lock
      <4>1. ASSUME NEW v \in Workers \ {w}, Refers(v) PROVE lock'[op[v].node] = op[v].lock
        <5>1. op[v].node \in Nodes
          BY <4>1 DEF Calls, Refers, IdleOp
        <5> QED  BY <2>5, <2>8, <4>1, <5>1 DEF LocksAgree
      <4> QED  BY <1>1, <1>2, <2>2, <2>3, <2>8, <4>1 DEF LocksAgree
    <3>2. \A m \in Nodes : lock'[m] # 0 => mutex'[lock'[m]].refs > 0
      <4>1. \A m \in Nodes : lock[m] # 0 => lock[m] \in Objects /\ mutex[lock[m]].refs > 0 /\ mutex[lock[m]].refs \in Nat
        BY DEF LocksAgree
      <4>2. \A k \in Objects : mutex'[k].refs \in Nat
        BY <2>2, <2>3
      <4> QED  BY <2>1, <2>2, <2>8, <4>1, <4>2
    <3>3. \A m, k \in Nodes : lock'[m] = lock'[k] /\ lock'[m] # 0 => m = k
      BY <2>1, <2>6, <2>8 DEF LocksAgree
    <3> QED  BY <3>1, <3>2, <3>3 DEF LocksAgree
  <2>10. LocksExclude'
    <3>1. ASSUME NEW v \in Workers, Holds(v) PROVE op[v].lock \in Objects
      BY <3>1 DEF LocksAgree, Holds
    <3>2. \A v \in Workers : Holds(v)' => Holds(v) /\ op'[v] = op[v]
      BY <1>1, <2>4
    <3> QED  BY <2>8, <3>1, <3>2 DEF LocksExclude
  <2> QED  BY <1>3, <2>7, <2>9, <2>10 DEF LocksInv
<1> QED  BY <1>4, <1>5

LEMMA AcquireLocks ==
  ASSUME StoreInv, NEW w \in Workers, Acquire(w)
  PROVE LocksInv'
<1> USE DEF StoreInv, StoreTypeOK
<1>0. /\ op[w] \in Calls /\ op[w].pc = "acquire" /\ op[w].kind \notin Global /\ Moves(w)
      /\ op'[w].kind = op[w].kind /\ op'[w].node = op[w].node /\ op'[w].lock = op[w].lock /\ op'[w].pc = "body"
  <2>1. op[w].pc = "acquire" /\ op[w] \in Calls
    BY DEF Acquire, At, IdleOp
  <2>2. op[w].kind \notin Global
    BY <2>1 DEF CallsKnowRows, KnowsRow
  <2>3. op' = [op EXCEPT ![w].pc = "body"]
    BY DEF Acquire, Goes
  <2> QED  BY <2>1, <2>2, <2>3 DEF Moves, Calls
<1>1. /\ \A v \in Workers : (Refers(v)' <=> Refers(v)) /\ (Inside(v)' <=> Inside(v))
      /\ \A v \in Workers : op'[v].kind = op[v].kind /\ op'[v].node = op[v].node /\ op'[v].lock = op[v].lock
      /\ \A v \in Workers \ {w} : (Holds(v)' <=> Holds(v))
      /\ Refers(w) /\ Holds(w)'
  BY <1>0 DEF Moves, Refers, Holds, Inside
<1>2. /\ op[w].lock \in Objects /\ ~mutex[op[w].lock].held /\ lock' = lock
      /\ \A k \in Objects : mutex'[k].refs = mutex[k].refs /\ (mutex[k].held => mutex'[k].held)
      /\ mutex'[op[w].lock].held
  BY <1>1 DEF Acquire, LocksAgree
<1>3. \A i : Users(i)' = Users(i)
  BY <1>1 DEF Users
<1>4. LocksCount'
  BY <1>2, <1>3 DEF LocksCount
<1>5. LocksAgree' /\ StructuralExcludes'
  <2>1. \A n \in Nodes : lock[n] # 0 => lock[n] \in Objects
    OBVIOUS
  <2>2. LocksAgree'
    BY <1>1, <1>2, <2>1 DEF LocksAgree
  <2> QED  BY <1>1, <2>2 DEF StructuralExcludes
<1>6. \A v \in Workers \ {w} : Holds(v) => op[v].node # op[w].node /\ op[v].lock \in Objects
  BY <1>1, <1>2 DEF LocksExclude, LocksAgree, Holds
<1>7. LocksExclude'
  <2>1. \A v \in Workers : Holds(v)' => v = w \/ Holds(v)
    BY <1>1
  <2>2. \A v \in Workers : Holds(v)' => mutex'[op'[v].lock].held
    BY <1>1, <1>2, <1>6, <2>1 DEF LocksExclude
  <2>3. \A u, v \in Workers : Holds(u)' /\ Holds(v)' /\ op'[u].node = op'[v].node => u = v
    BY <1>1, <1>6, <2>1 DEF LocksExclude
  <2> QED  BY <2>2, <2>3 DEF LocksExclude
<1> QED  BY <1>4, <1>5, <1>7 DEF LocksInv

\* A reference is given back by whoever does not hold the lock.
LEMMA ReleaseLocks ==
  ASSUME StoreInv, NEW w \in Workers, Release(w), Moves(w), Refers(w), ~Holds(w), op'[w].pc \in {"idle", "start"}
  PROVE LocksInv'
<1> USE DEF StoreInv, StoreTypeOK
<1> PICK n \in Nodes, i \in Objects : n = op[w].node /\ i = op[w].lock
  BY DEF Calls, Refers, IdleOp, LocksAgree
<1>0. n = op[w].node /\ i = op[w].lock /\ lock[n] = i
  BY DEF LocksAgree
<1>1. /\ \A v \in Workers \ {w} : (Refers(v)' <=> Refers(v)) /\ (Holds(v)' <=> Holds(v)) /\ (Inside(v)' <=> Inside(v)) /\ op'[v] = op[v]
      /\ ~Refers(w)' /\ ~Holds(w)' /\ ~Inside(w)'
  BY DEF Moves, Refers, Holds, Inside
<1>2. \A k \in Objects : mutex[k].refs = Cardinality(Users(k)) /\ mutex[k].refs \in Nat
  BY DEF LocksCount
<1>3. /\ \A k \in Objects \ {i} : mutex'[k] = mutex[k] /\ Users(k)' = Users(k)
      /\ mutex'[i].refs = mutex[i].refs - 1 /\ mutex'[i].held = mutex[i].held
      /\ Users(i)' = Users(i) \ {w} /\ w \in Users(i)
  <2>1. /\ \A k \in Objects \ {i} : mutex'[k] = mutex[k]
        /\ mutex'[i].refs = mutex[i].refs - 1 /\ mutex'[i].held = mutex[i].held
    BY <1>0 DEF Release
  <2>2. \A k \in Objects \ {i} : Users(k)' = Users(k)
    BY <1>1 DEF Users
  <2>3. Users(i)' = Users(i) \ {w} /\ w \in Users(i)
    BY <1>1 DEF Users
  <2> QED  BY <2>1, <2>2, <2>3
<1>4. Cardinality(Users(i)') = Cardinality(Users(i)) - 1
  <2>1. IsFiniteSet(Users(i))
    BY UsersFinite
  <2>2. w \in Users(i) /\ Users(i)' = Users(i) \ {w}
    BY <1>3
  <2>3. Cardinality(Users(i) \ {w}) = Cardinality(Users(i)) - 1
    BY <2>1, <2>2, FS_RemoveElement
  <2> QED  BY <2>2, <2>3
<1>5. LocksCount'
  <2>1. \A k \in Objects \ {i} : mutex'[k].refs = Cardinality(Users(k)')
    BY <1>2, <1>3
  <2>2. mutex'[i].refs = Cardinality(Users(i)')
    BY <1>0, <1>2, <1>3, <1>4
  <2> QED  BY <2>1, <2>2 DEF LocksCount
<1>6. mutex[i].refs = 1 => Users(i) = {w}
  <2>1. ASSUME mutex[i].refs = 1 PROVE Users(i) \ {w} = {}
    BY <1>0, <1>2, <1>3, <1>4, <2>1, UsersFinite, FS_EmptySet, FS_RemoveElement
  <2> QED  BY <1>3, <2>1
<1>7. /\ \A m \in Nodes \ {n} : lock'[m] = lock[m]
      /\ lock'[n] = IF mutex[i].refs = 1 THEN 0 ELSE i
      /\ mutex[i].refs # 1 => mutex'[i].refs > 0
  <2>1. mutex[i].refs > 0
    BY <1>0, ObjectsFinite DEF LocksAgree
  <2> QED  BY <1>0, <1>2, <1>3, <2>1 DEF Release
<1>8. \A v \in Workers \ {w} : Refers(v) =>
         op[v].lock \in Objects /\ lock[op[v].node] = op[v].lock /\ op[v].node \in Nodes /\ (op[v].node = n => mutex[i].refs # 1)
  BY <1>0, <1>6 DEF LocksAgree, Calls, Refers, IdleOp, Users
<1>9. LocksAgree'
  <2>1. \A v \in Workers : Refers(v)' => op'[v].lock \in Objects /\ lock'[op'[v].node] = op'[v].lock
    BY <1>0, <1>1, <1>7, <1>8
  <2>2. \A m \in Nodes : lock'[m] # 0 => mutex'[lock'[m]].refs > 0
    BY <1>0, <1>3, <1>7 DEF LocksAgree
  <2>3. \A m, k \in Nodes : lock'[m] = lock'[k] /\ lock'[m] # 0 => m = k
    BY <1>0, <1>7 DEF LocksAgree
  <2> QED  BY <2>1, <2>2, <2>3 DEF LocksAgree
<1>10. LocksExclude' /\ StructuralExcludes'
  <2>1. \A v \in Workers : Holds(v) => op[v].lock \in Objects
    BY DEF LocksAgree, Holds
  <2>2. \A k \in Objects : mutex'[k].held = mutex[k].held
    BY <1>0, <1>3
  <2> QED  BY <1>1, <2>1, <2>2 DEF LocksExclude, StructuralExcludes
<1> QED  BY <1>5, <1>9, <1>10 DEF LocksInv

LEMMA LeaveLocks ==
  ASSUME StoreInv, NEW w \in Workers, Leave(w)
  PROVE LocksInv'
<1> USE DEF StoreInv, StoreTypeOK
<1>0. /\ op[w] \in Calls /\ op[w].pc = "leave" /\ Moves(w)
      /\ op'[w].kind = op[w].kind /\ op'[w].node = op[w].node /\ op'[w].lock = op[w].lock /\ op'[w].pc = "release"
  BY DEF Leave, At, Goes, Moves, IdleOp, Calls
<1>1. /\ \A v \in Workers : (Refers(v)' <=> Refers(v)) /\ (Inside(v)' <=> Inside(v))
      /\ \A v \in Workers : op'[v].kind = op[v].kind /\ op'[v].node = op[v].node /\ op'[v].lock = op[v].lock
      /\ \A v \in Workers \ {w} : (Holds(v)' <=> Holds(v))
      /\ ~Holds(w)' /\ (Holds(w) <=> Refers(w))
  BY <1>0 DEF Moves, Refers, Holds, Inside
<1>2. /\ lock' = lock /\ \A k \in Objects : mutex'[k].refs = mutex[k].refs
      /\ \A k \in Objects : mutex'[k].held # mutex[k].held => Refers(w) /\ k = op[w].lock
  <2>1. op[w].kind \notin Global => Refers(w) /\ op[w].lock \in Objects
    BY <1>0 DEF Refers, LocksAgree
  <2> QED  BY <2>1 DEF Leave
<1>3. \A i : Users(i)' = Users(i)
  BY <1>1 DEF Users
<1>4. LocksCount'
  BY <1>2, <1>3 DEF LocksCount
<1>5. LocksAgree' /\ StructuralExcludes'
  BY <1>1, <1>2, ObjectsFinite DEF LocksAgree, StructuralExcludes
<1>6. \A v \in Workers \ {w} : Holds(v) => op[v].lock \in Objects /\ (Refers(w) => op[v].lock # op[w].lock)
  <2> SUFFICES ASSUME NEW v \in Workers \ {w}, Holds(v)
               PROVE op[v].lock \in Objects /\ (Refers(w) => op[v].lock # op[w].lock)
    OBVIOUS
  <2>1. op[v].node \in Nodes /\ op[w].node \in Nodes
    BY <1>0 DEF Holds, Refers, Calls, IdleOp
  <2> QED  BY <1>1, <2>1, ObjectsFinite DEF LocksAgree, LocksExclude, Holds
<1>7. LocksExclude'
  <2>1. \A v \in Workers : Holds(v)' => v # w /\ Holds(v)
    BY <1>1
  <2>2. \A v \in Workers : Holds(v)' => mutex'[op'[v].lock].held
    BY <1>1, <1>2, <1>6, <2>1 DEF LocksExclude
  <2>3. \A u, v \in Workers : Holds(u)' /\ Holds(v)' /\ op'[u].node = op'[v].node => u = v
    BY <1>1, <2>1 DEF LocksExclude
  <2> QED  BY <2>2, <2>3 DEF LocksExclude
<1> QED  BY <1>4, <1>5, <1>7 DEF LocksInv


-----------------------------------------------------------------------------
(* Rows, index and purges while only locks and requests change. *)

DataInv == RowsAreDistinct /\ CallsKnowRows /\ EntriesFollowRows /\ DeletedIsPurged

LEMMA LockStepKeepsData ==
  ASSUME StoreInv, NEW w \in Workers, Moves(w), UNCHANGED data,
         op[w].pc \notin DataPCs, op'[w].pc \notin DataPCs,
         op'[w].pc = "acquire" => op'[w].kind \notin Global,
         op'[w].kind \in {"create", "metrics", "virt"} => op'[w].secret # None
  PROVE DataInv'
<1> USE DEF StoreInv
<1>1. RowsAreDistinct'
  BY DEF RowsAreDistinct
<1>2. CallsKnowRows'
  BY DEF CallsKnowRows, KnowsRow, Moves, DataPCs
<1>3. \A v \in Workers : \A n : (Removes(v, n)' <=> Removes(v, n)) /\ (Removes(v, n) => op'[v].old = op[v].old)
                                 /\ (Deletes(v, n)' <=> Deletes(v, n))
  BY DEF Moves, DataPCs, Removes, Deletes
<1>4. EntriesFollowRows'
  BY <1>3 DEF EntriesFollowRows
<1>5. DeletedIsPurged'
  BY <1>3 DEF DeletedIsPurged
<1> QED  BY <1>1, <1>2, <1>4, <1>5 DEF DataInv

\* Calls begin, wait, leave and return.
LEMMA CallSteps ==
  ASSUME StoreInv, NEW w \in Workers,
         Change(w) \/ Report(w) \/ Retain(w) \/ Acquire(w) \/ GivesUp(w) \/ Leave(w) \/ Returns(w)
  PROVE StoreInv'
<1> USE DEF StoreInv, StoreTypeOK
<1>0. UNCHANGED data /\ Moves(w)
  BY DEF Change, Report, Retain, Acquire, GivesUp, Leave, Returns, Goes, Moves
<1>1. ASSUME op' \in [Workers -> {IdleOp} \cup Calls], lock' \in [Nodes -> Objects \cup {0}],
             mutex' \in [Objects -> [refs : Nat, held : BOOLEAN]], LocksInv',
             op[w].pc \notin DataPCs, op'[w].pc \notin DataPCs,
             op'[w].pc = "acquire" => op'[w].kind \notin Global,
             op'[w].kind \in {"create", "metrics", "virt"} => op'[w].secret # None
      PROVE StoreInv'
  <2>1. DataInv'
    BY <1>0, <1>1, LockStepKeepsData
  <2> QED  BY <1>0, <1>1, <2>1 DEF LocksInv, DataInv
<1>2. CASE Change(w)
  <2> PICK kind \in Global \cup {"patch", "delete"}, n \in Nodes, x \in Secrets \cup {None} :
         /\ kind = "create" => x # None
         /\ op' = [op EXCEPT ![w] = [kind |-> kind, pc |-> "start", node |-> n, secret |-> x, old |-> None, lock |-> 0,
                                     next |-> None, attempt |-> 1]]
    BY <1>2 DEF Change
  <2>1. op[w].pc = "idle" /\ op'[w].pc = "start" /\ op'[w].kind = kind /\ op'[w].secret = x /\ UNCHANGED locks
    BY <1>2 DEF Change, At
  <2>2. op' \in [Workers -> {IdleOp} \cup Calls]
    BY DEF Calls
  <2>3. LocksInv'
    BY <1>0, <2>1, OutsideKeepsLocks DEF Refers
  <2> QED  BY <1>1, <2>1, <2>2, <2>3 DEF DataPCs
<1>3. CASE Report(w)
  <2> PICK kind \in Reports \cup {"static"}, x \in Secrets :
         /\ bySecret[x] # NoEntry
         /\ op' = [op EXCEPT ![w] = [kind |-> kind, pc |-> "start", node |-> bySecret[x].id, secret |-> x, old |-> None,
                                     lock |-> 0, next |-> None, attempt |-> 1]]
    BY <1>3 DEF Report
  <2>1. op[w].pc = "idle" /\ op'[w].pc = "start" /\ op'[w].kind = kind /\ op'[w].secret = x /\ UNCHANGED locks
    BY <1>3 DEF Report, At
  <2>2. op' \in [Workers -> {IdleOp} \cup Calls]
    BY DEF Calls
  <2>3. LocksInv'
    BY <1>0, <2>1, OutsideKeepsLocks DEF Refers
  <2> QED  BY <1>1, <2>1, <2>2, <2>3 DEF DataPCs
<1>4. CASE Retain(w)
  <2>1. op[w] \in Calls /\ op[w].pc = "start" /\ op[w].node \in Nodes
    BY <1>4 DEF Retain, At, IdleOp, Calls
  <2>2. \A i \in Objects : [op EXCEPT ![w].pc = "acquire", ![w].lock = i] \in [Workers -> {IdleOp} \cup Calls]
    BY <2>1 DEF Calls
  <2>3. \A i \in Objects : /\ [mutex EXCEPT ![i].refs = @ + 1] \in [Objects -> [refs : Nat, held : BOOLEAN]]
                           /\ [lock EXCEPT ![op[w].node] = i] \in [Nodes -> Objects \cup {0}]
    BY <2>1
  <2>4. CASE op[w].kind \in Global
    <3>1. op' = [op EXCEPT ![w].pc = "body"] /\ UNCHANGED locks
      BY <1>4, <2>4 DEF Retain, Goes
    <3>2. op' \in [Workers -> {IdleOp} \cup Calls] /\ op'[w].pc = "body" /\ op'[w].kind = op[w].kind /\ op'[w].secret = op[w].secret
      BY <2>1, <3>1 DEF Calls
    <3> QED  BY <1>1, <1>4, <2>1, <3>1, <3>2, RetainLocks DEF DataPCs, CallsKnowRows, KnowsRow
  <2>5. CASE op[w].kind \notin Global
    <3> DEFINE fresh == CHOOSE i \in Objects : mutex[i].refs = 0
    <3>1. fresh \in Objects
      BY <2>1, FreshObject DEF Refers
    <3>2. PICK i \in Objects : /\ op' = [op EXCEPT ![w].pc = "acquire", ![w].lock = i]
                               /\ mutex' = [mutex EXCEPT ![i].refs = @ + 1] /\ lock' = [lock EXCEPT ![op[w].node] = i]
      <4> HIDE DEF fresh
      <4>1. (IF lock[op[w].node] = 0 THEN fresh ELSE lock[op[w].node]) \in Objects
        BY <2>1, <3>1
      <4> QED  BY <1>4, <2>5, <4>1 DEF Retain, fresh
    <3>3. op'[w].pc = "acquire" /\ op'[w].kind = op[w].kind /\ op'[w].secret = op[w].secret
      BY <2>1, <3>2 DEF Calls
    <3> QED  BY <1>1, <1>4, <2>1, <2>2, <2>3, <2>5, <3>2, <3>3, RetainLocks DEF DataPCs, CallsKnowRows, KnowsRow
  <2> QED  BY <2>4, <2>5
<1>5. CASE Acquire(w)
  <2>1. op[w] \in Calls /\ op[w].pc = "acquire"
    BY <1>5 DEF Acquire, At, IdleOp
  <2>2. op' = [op EXCEPT ![w].pc = "body"] /\ lock' = lock /\ mutex' = [mutex EXCEPT ![op[w].lock].held = TRUE]
    BY <1>5 DEF Acquire, Goes
  <2>3. op' \in [Workers -> {IdleOp} \cup Calls] /\ op'[w].pc = "body" /\ op'[w].kind = op[w].kind /\ op'[w].secret = op[w].secret
    BY <2>1, <2>2 DEF Calls
  <2> QED  BY <1>1, <1>5, <2>1, <2>2, <2>3, AcquireLocks DEF DataPCs, CallsKnowRows, KnowsRow
<1>6. ASSUME Refers(w), Release(w)
      PROVE lock' \in [Nodes -> Objects \cup {0}] /\ mutex' \in [Objects -> [refs : Nat, held : BOOLEAN]]
  <2>1. op[w].lock \in Objects /\ op[w].node \in Nodes /\ lock[op[w].node] = op[w].lock
    BY <1>6 DEF LocksAgree, Refers, Calls, IdleOp
  <2>2. mutex[op[w].lock].refs > 0 /\ mutex[op[w].lock].refs \in Nat
    BY <2>1, ObjectsFinite DEF LocksAgree
  <2> QED  BY <1>6, <2>1, <2>2 DEF Release
<1>7. CASE GivesUp(w)
  <2>1. op[w].pc = "acquire" /\ op' = [op EXCEPT ![w] = IdleOp] /\ op'[w].pc = "idle" /\ Release(w)
    BY <1>7 DEF GivesUp, At, IdleOp
  <2>2. Refers(w) /\ ~Holds(w)
    BY <2>1 DEF CallsKnowRows, KnowsRow, Refers, Holds
  <2>3. LocksInv'
    BY <1>0, <2>1, <2>2, ReleaseLocks
  <2>4. op' \in [Workers -> {IdleOp} \cup Calls] /\ op'[w].kind = "idle"
    BY <2>1 DEF IdleOp
  <2> QED  BY <1>1, <1>6, <2>1, <2>2, <2>3, <2>4 DEF DataPCs
<1>8. CASE Leave(w)
  <2>1. op[w] \in Calls /\ op[w].pc = "leave" /\ op' = [op EXCEPT ![w].pc = "release"] /\ lock' = lock
    BY <1>8 DEF Leave, At, IdleOp, Goes
  <2>2. op' \in [Workers -> {IdleOp} \cup Calls] /\ op'[w].pc = "release"
    BY <2>1 DEF Calls
  <2>3. mutex' \in [Objects -> [refs : Nat, held : BOOLEAN]]
    <3>1. op[w].kind \notin Global => op[w].lock \in Objects
      BY <2>1 DEF LocksAgree, Refers
    <3>2. mutex' = mutex \/ (op[w].kind \notin Global /\ mutex' = [mutex EXCEPT ![op[w].lock].held = FALSE])
      BY <1>8 DEF Leave
    <3> QED  BY <3>1, <3>2, UnlockType
  <2>4. op'[w].kind \in {"create", "metrics", "virt"} => op'[w].secret # None
    BY <2>1 DEF Calls, CallsKnowRows, KnowsRow
  <2> QED  BY <1>1, <1>8, <2>1, <2>2, <2>3, <2>4, LeaveLocks DEF DataPCs
<1>9. CASE Returns(w)
  <2>1. op[w] \in Calls /\ op[w].pc = "release"
    BY <1>9 DEF Returns, At, IdleOp
  <2>2. /\ op' \in [Workers -> {IdleOp} \cup Calls] /\ op'[w].pc \in {"idle", "start"}
        /\ op'[w].kind # "idle" => op'[w].kind = op[w].kind /\ op'[w].secret = op[w].secret
    <3>1. CASE op[w].next = None
      BY <1>9, <2>1, <3>1 DEF Returns, IdleOp
    <3>2. CASE op[w].next # None
      <4> DEFINE c == [op[w] EXCEPT !.pc = "start", !.node = op[w].next, !.next = None, !.attempt = @ + 1]
      <4>1. op' = [op EXCEPT ![w] = c]
        BY <1>9, <3>2 DEF Returns
      <4>2. op[w].attempt + 1 \in Nat /\ op[w].next \in Nodes
        BY <2>1, <3>2 DEF Calls
      <4>3. c \in Calls /\ c.pc = "start" /\ c.kind = op[w].kind /\ c.secret = op[w].secret
        BY <2>1, <4>2 DEF Calls
      <4>4. op'[w] = c
        BY <4>1
      <4> HIDE DEF c
      <4> QED  BY <4>1, <4>3, <4>4
    <3> QED  BY <3>1, <3>2
  <2>3. op'[w].kind \in {"create", "metrics", "virt"} => op'[w].secret # None
    BY <2>1, <2>2 DEF CallsKnowRows, KnowsRow
  <2>4. LocksInv' /\ lock' \in [Nodes -> Objects \cup {0}] /\ mutex' \in [Objects -> [refs : Nat, held : BOOLEAN]]
    <3>1. CASE op[w].kind \in Global
      <4>1. ~Refers(w) /\ UNCHANGED locks
        BY <1>9, <3>1 DEF Returns, Refers
      <4> QED  BY <1>0, <2>2, <4>1, OutsideKeepsLocks
    <3>2. CASE op[w].kind \notin Global
      <4>1. Refers(w) /\ ~Holds(w) /\ Release(w)
        BY <1>9, <2>1, <3>2 DEF Returns, Refers, Holds
      <4> QED  BY <1>0, <1>6, <2>2, <4>1, ReleaseLocks
    <3> QED  BY <3>1, <3>2
  <2> QED  BY <1>1, <2>1, <2>2, <2>3, <2>4 DEF DataPCs
<1> QED  BY <1>2, <1>3, <1>4, <1>5, <1>7, <1>8, <1>9


-----------------------------------------------------------------------------
(* Changes and reports. *)

\* Of the calls that hold a node or exclude all others, w is alone with node n.
LEMMA AloneWithNode ==
  ASSUME StoreInv, NEW w \in Workers, NEW v \in Workers \ {w}, op[w].pc \in HeldPCs, op[v].pc \in HeldPCs,
         op[v].kind \in Projected, op[w].kind \in Global \/ op[v].node = op[w].node
  PROVE FALSE
<1>1. Inside(v) /\ Inside(w) /\ Holds(v)
  BY DEF HeldPCs, Inside, Holds, Refers
<1>2. CASE op[w].kind \in Global
  BY <1>1, <1>2 DEF StoreInv, StructuralExcludes
<1>3. CASE op[w].kind \notin Global
  BY <1>1, <1>3 DEF StoreInv, LocksExclude, HeldPCs, Holds, Refers
<1> QED  BY <1>2, <1>3

LEMMA GoesTo ==
  ASSUME StoreTypeOK, NEW w \in Workers, op[w].pc \in HeldPCs, NEW pc \in HeldPCs, Goes(w, pc)
  PROVE /\ op[w] \in Calls /\ op' \in [Workers -> {IdleOp} \cup Calls] /\ Moves(w) /\ op'[w].pc = pc
        /\ op'[w].kind = op[w].kind /\ op'[w].node = op[w].node /\ op'[w].lock = op[w].lock
        /\ op'[w].secret = op[w].secret /\ op'[w].old = op[w].old
<1>1. op[w] \in Calls
  BY DEF StoreTypeOK, HeldPCs, IdleOp
<1>2. [op[w] EXCEPT !.pc = pc] \in Calls
  BY <1>1 DEF Calls, HeldPCs
<1> QED  BY <1>1, <1>2 DEF StoreTypeOK, Goes, Moves, Calls

\* What the other calls know stays true while the rows do.
LEMMA KnowledgeStays ==
  ASSUME StoreInv, NEW w \in Workers, Moves(w), UNCHANGED row, KnowsRow(w)'
  PROVE RowsAreDistinct' /\ CallsKnowRows'
<1>1. RowsAreDistinct'
  BY DEF StoreInv, RowsAreDistinct
<1>2. \A v \in Workers \ {w} : KnowsRow(v)'
  BY DEF StoreInv, CallsKnowRows, KnowsRow, Moves
<1> QED  BY <1>1, <1>2 DEF CallsKnowRows

\* An entry that stays does not count on the removal that w was to make.
LEMMA EntriesStay ==
  ASSUME StoreInv, NEW w \in Workers, Moves(w), UNCHANGED row,
         \A x \in Secrets :
            \/ bySecret'[x] = NoEntry
            \/ bySecret'[x].secret = x /\ row[bySecret'[x].id] = [state |-> "live", secret |-> x]
            \/ bySecret'[x] = bySecret[x] /\ ~(Removes(w, bySecret[x].id) /\ op[w].old = x),
         \A n \in Nodes :
            byID'[n] = NoEntry \/ row[n].state # "deleted" \/ (byID'[n] = byID[n] /\ ~Removes(w, n))
  PROVE EntriesFollowRows'
<1>1. \A v \in Workers \ {w} : \A n : (Removes(v, n)' <=> Removes(v, n)) /\ op'[v].old = op[v].old
  BY DEF Moves, Removes
<1>2. ASSUME NEW x \in Secrets, bySecret'[x] # NoEntry
      PROVE /\ bySecret'[x].secret = x
            /\ \/ row'[bySecret'[x].id] = [state |-> "live", secret |-> x]
               \/ \E v \in Workers : Removes(v, bySecret[x].id)' /\ op'[v].old = x
  <2>1. CASE bySecret'[x] = bySecret[x] /\ ~(Removes(w, bySecret[x].id) /\ op[w].old = x)
    <3> PICK n : n = bySecret[x].id
      OBVIOUS
    <3>1. bySecret[x].secret = x /\ (row[n] = [state |-> "live", secret |-> x] \/ \E v \in Workers : Removes(v, n) /\ op[v].old = x)
      BY <1>2, <2>1 DEF StoreInv, EntriesFollowRows
    <3>2. ASSUME NEW v \in Workers, Removes(v, n), op[v].old = x
          PROVE Removes(v, n)' /\ op'[v].old = x
      BY <1>1, <2>1, <3>2
    <3>3. \A v \in Workers : Removes(v, n)' => Removes(v, bySecret[x].id)'
      BY <2>1 DEF Removes
    <3> QED  BY <2>1, <3>1, <3>2, <3>3
  <2> QED  BY <1>2, <2>1
<1>3. ASSUME NEW n \in Nodes, byID'[n] # NoEntry, row'[n].state = "deleted"
      PROVE \E v \in Workers : Removes(v, n)'
  BY <1>1, <1>3 DEF StoreInv, EntriesFollowRows
<1> QED  BY <1>2, <1>3 DEF EntriesFollowRows

\* What w leaves behind when it stops deleting is gone or known to be left.
LEMMA PurgesStay ==
  ASSUME StoreInv, NEW w \in Workers, Moves(w), UNCHANGED row,
         \A n \in Nodes : row[n].state = "deleted" /\ n \notin left' /\ (updates'[n] \/ virt'[n]) =>
            (updates[n] \/ virt[n]) /\ n \notin left /\ (Deletes(w, n) => Deletes(w, n)')
  PROVE DeletedIsPurged'
<1>1. \A v \in Workers \ {w} : \A n : Deletes(v, n)' <=> Deletes(v, n)
  BY DEF Moves, Deletes
<1>2. ASSUME NEW n \in Nodes, row[n].state = "deleted", n \notin left', updates'[n] \/ virt'[n]
      PROVE \E v \in Workers : Deletes(v, n)'
  <2>1. PICK v \in Workers : Deletes(v, n)
    BY <1>2 DEF StoreInv, DeletedIsPurged
  <2> QED  BY <1>1, <1>2, <2>1
<1> QED  BY <1>2 DEF DeletedIsPurged

\* What synchronising the live nodes S makes of the index.
LEMMA SyncIndex ==
  ASSUME StoreInv, NEW S \in SUBSET Live, NEW old, SyncServerCache(S, old)
  PROVE /\ byID' \in [Nodes -> {NoEntry} \cup [id : Nodes, secret : Secrets]]
        /\ bySecret' \in [Secrets -> {NoEntry} \cup [id : Nodes, secret : Secrets]]
        /\ \A x \in Secrets :
             \/ bySecret'[x] = NoEntry
             \/ bySecret'[x].secret = x /\ row[bySecret'[x].id] = [state |-> "live", secret |-> x]
             \/ bySecret'[x] = bySecret[x] /\ x # old
        /\ \A n \in Nodes : byID'[n] = byID[n] \/ (n \in S /\ row[n].state # "deleted")
<1> USE DEF StoreInv, StoreTypeOK
<1>0. \A n \in S : n \in Nodes /\ row[n].state = "live" /\ row[n].secret \in Secrets /\ row[n] = [state |-> "live", secret |-> row[n].secret]
  BY DEF Live, RowsAreDistinct
<1>1. /\ byID' \in [Nodes -> {NoEntry} \cup [id : Nodes, secret : Secrets]]
      /\ \A n \in Nodes : byID'[n] = byID[n] \/ (n \in S /\ row[n].state # "deleted")
  BY <1>0 DEF SyncServerCache, Entry
<1>2. ASSUME NEW x \in Secrets
      PROVE \/ bySecret'[x] = NoEntry
            \/ bySecret'[x] = bySecret[x] /\ x # old
            \/ \E n \in S : row[n].secret = x /\ bySecret'[x] = Entry(n, x)
  <2> DEFINE owner == {n \in S : row[n].secret = x}
  <2>1. CASE owner # {}
    <3>1. (CHOOSE n \in owner : TRUE) \in owner /\ bySecret'[x] = Entry(CHOOSE n \in owner : TRUE, x)
      BY <2>1 DEF SyncServerCache
    <3> QED  BY <3>1
  <2>2. CASE owner = {}
    BY <2>2 DEF SyncServerCache
  <2> QED  BY <2>1, <2>2
<1>3. bySecret' \in [Secrets -> {NoEntry} \cup [id : Nodes, secret : Secrets]]
  <2>1. bySecret' = [x \in Secrets |-> bySecret'[x]]
    BY DEF SyncServerCache
  <2>2. ASSUME NEW x \in Secrets
        PROVE bySecret'[x] \in {NoEntry} \cup [id : Nodes, secret : Secrets]
    <3>1. \A n \in S : Entry(n, x) \in [id : Nodes, secret : Secrets]
      BY <1>0 DEF Entry
    <3> QED  BY <1>2, <3>1
  <2> QED  BY <2>1, <2>2
<1> QED  BY <1>0, <1>1, <1>2, <1>3 DEF Entry

LEMMA RemoveIndex ==
  ASSUME StoreInv, NEW n \in Nodes, NEW old, DeleteServerMeta(n, old)
  PROVE /\ byID' \in [Nodes -> {NoEntry} \cup [id : Nodes, secret : Secrets]]
        /\ bySecret' \in [Secrets -> {NoEntry} \cup [id : Nodes, secret : Secrets]]
        /\ \A x \in Secrets : bySecret'[x] = NoEntry \/ (bySecret'[x] = bySecret[x] /\ (old # None => x # old))
        /\ \A m \in Nodes : byID'[m] = IF m = n THEN NoEntry ELSE byID[m]
  BY DEF StoreInv, StoreTypeOK, DeleteServerMeta

\* A step of w inside its call that changes no row.
LEMMA BodyStep ==
  ASSUME StoreInv, NEW w \in Workers, op[w].pc \in HeldPCs, NEW pc \in HeldPCs, Goes(w, pc),
         UNCHANGED <<row, locks>>, KnowsRow(w)', EntriesFollowRows', DeletedIsPurged',
         byID' \in [Nodes -> {NoEntry} \cup [id : Nodes, secret : Secrets]],
         bySecret' \in [Secrets -> {NoEntry} \cup [id : Nodes, secret : Secrets]],
         updates' \in [Nodes -> BOOLEAN], virt' \in [Nodes -> BOOLEAN], left' \subseteq Nodes
  PROVE StoreInv'
<1>1. StoreTypeOK /\ Moves(w) /\ op' \in [Workers -> {IdleOp} \cup Calls] /\ op'[w].pc = pc
      /\ op'[w].kind = op[w].kind /\ op'[w].node = op[w].node /\ op'[w].lock = op[w].lock
  BY GoesTo DEF StoreInv
<1>2. LocksInv'
  BY <1>1, BodyKeepsLocks
<1>3. RowsAreDistinct' /\ CallsKnowRows'
  BY <1>1, KnowledgeStays
<1>4. StoreTypeOK'
  BY <1>1 DEF StoreTypeOK
<1> QED  BY <1>2, <1>3, <1>4 DEF StoreInv, LocksInv

LEMMA SyncStep ==
  ASSUME StoreInv, NEW w \in Workers, Sync(w)
  PROVE StoreInv'
<1> USE DEF HeldPCs
<1>0. op[w].pc = "sync" /\ UNCHANGED <<row, updates, virt, left, locks>> /\ StoreTypeOK /\ KnowsRow(w)
  BY DEF Sync, At, StoreInv, CallsKnowRows
<1>1. op[w] \in Calls /\ op[w].kind \notin Reports
  BY <1>0 DEF StoreTypeOK, IdleOp, KnowsRow
<1>2. CASE op[w].kind = "delete"
  <2>1. DeleteServerMeta(op[w].node, op[w].old) /\ Goes(w, "purge")
    BY <1>2 DEF Sync
  <2>2. op[w].node \in Nodes /\ op[w].old # None /\ row[op[w].node].state = "deleted"
    BY <1>0, <1>1, <1>2 DEF Calls, KnowsRow
  <2>3. Moves(w) /\ op'[w].pc = "purge" /\ op'[w].kind = op[w].kind /\ op'[w].node = op[w].node /\ op'[w].secret = op[w].secret
    BY <1>0, <2>1, GoesTo
  <2>4. KnowsRow(w)'
    BY <1>0, <1>2, <2>2, <2>3 DEF KnowsRow
  <2>5. EntriesFollowRows'
    BY <1>0, <2>1, <2>2, <2>3, RemoveIndex, EntriesStay DEF Removes
  <2>6. DeletedIsPurged'
    BY <1>0, <1>2, <2>3, PurgesStay DEF Deletes
  <2> QED  BY <1>0, <2>1, <2>2, <2>4, <2>5, <2>6, RemoveIndex, BodyStep DEF StoreTypeOK
<1>3. CASE op[w].kind # "delete"
  <2>0. PICK old : old = IF op[w].kind \in Global THEN None ELSE op[w].old
    OBVIOUS
  <2>1. SyncServerCache(Subject(w), old) /\ Goes(w, "leave")
    BY <1>3, <2>0 DEF Sync
  <2>2. Subject(w) \in SUBSET Live
    BY <1>0, <1>1, <1>3 DEF Subject, Live, KnowsRow, Calls
  <2>3. Moves(w) /\ op'[w].pc = "leave" /\ op'[w].kind = op[w].kind /\ op'[w].node = op[w].node /\ op'[w].secret = op[w].secret
    BY <1>0, <2>1, GoesTo
  <2>4. KnowsRow(w)'
    BY <1>0, <2>3 DEF KnowsRow
  <2>5. EntriesFollowRows'
    <3>1. \A x \in Secrets :
             \/ bySecret'[x] = NoEntry
             \/ bySecret'[x].secret = x /\ row[bySecret'[x].id] = [state |-> "live", secret |-> x]
             \/ bySecret'[x] = bySecret[x] /\ ~(Removes(w, bySecret[x].id) /\ op[w].old = x)
      <4>1. \A n : Removes(w, n) => old = op[w].old
        BY <2>0 DEF Removes
      <4>2. \A x \in Secrets :
             \/ bySecret'[x] = NoEntry
             \/ bySecret'[x].secret = x /\ row[bySecret'[x].id] = [state |-> "live", secret |-> x]
             \/ bySecret'[x] = bySecret[x] /\ x # old
        BY <2>1, <2>2, SyncIndex
      <4> QED  BY <4>1, <4>2
    <3>2. \A n \in Nodes : Removes(w, n) => row[n].state = "live"
      BY <1>0, <1>3 DEF Removes, KnowsRow
    <3>3. \A n \in Nodes : byID'[n] = NoEntry \/ row[n].state # "deleted" \/ (byID'[n] = byID[n] /\ ~Removes(w, n))
      BY <2>1, <2>2, <3>2, SyncIndex
    <3> QED  BY <1>0, <2>3, <3>1, <3>3, EntriesStay
  <2>6. DeletedIsPurged'
    BY <1>0, <1>3, <2>3, PurgesStay DEF Deletes
  <2> QED  BY <1>0, <2>1, <2>2, <2>4, <2>5, <2>6, SyncIndex, BodyStep DEF StoreTypeOK
<1> QED  BY <1>2, <1>3

LEMMA RevokeStep ==
  ASSUME StoreInv, NEW w \in Workers, Revoke(w)
  PROVE StoreInv'
<1> USE DEF HeldPCs
<1>0. /\ op[w].pc = "revoke" /\ UNCHANGED <<row, updates, virt, left, locks>> /\ StoreTypeOK /\ KnowsRow(w)
      /\ DeleteServerMeta(op[w].node, op[w].old) /\ Goes(w, "reconcile")
  BY DEF Revoke, At, StoreInv, CallsKnowRows
<1>1. op[w] \in Calls /\ op[w].kind \in {"patch", "delete"} /\ op[w].old # None /\ op[w].node \in Nodes
  BY <1>0 DEF StoreTypeOK, IdleOp, KnowsRow, Calls
<1>2. Moves(w) /\ op'[w].pc = "reconcile" /\ op'[w].kind = op[w].kind /\ op'[w].node = op[w].node /\ op'[w].secret = op[w].secret
  BY <1>0, GoesTo
<1>3. KnowsRow(w)'
  BY <1>0, <1>1, <1>2 DEF KnowsRow
<1>4. EntriesFollowRows'
  BY <1>0, <1>1, <1>2, RemoveIndex, EntriesStay DEF Removes
<1>5. DeletedIsPurged'
  BY <1>0, <1>2, PurgesStay DEF Deletes
<1> QED  BY <1>0, <1>1, <1>3, <1>4, <1>5, RemoveIndex, BodyStep DEF StoreTypeOK

LEMMA ReconcileStep ==
  ASSUME StoreInv, NEW w \in Workers, Reconcile(w)
  PROVE StoreInv'
<1> USE DEF HeldPCs
<1>0. op[w].pc = "reconcile" /\ UNCHANGED <<row, updates, virt, locks>> /\ StoreTypeOK /\ KnowsRow(w)
  BY DEF Reconcile, At, StoreInv, CallsKnowRows
<1>1. op[w] \in Calls /\ op[w].kind \notin Reports /\ op[w].node \in Nodes
  BY <1>0 DEF StoreTypeOK, IdleOp, KnowsRow, Calls
<1>2. \A n : ~Removes(w, n)
  BY <1>0 DEF Removes
<1>3. CASE UNCHANGED index /\ Goes(w, "leave") /\ left' = IF row[op[w].node].state = "deleted" THEN left \cup {op[w].node} ELSE left
  <2>1. Moves(w) /\ op'[w].pc = "leave" /\ op'[w].kind = op[w].kind /\ op'[w].node = op[w].node /\ op'[w].secret = op[w].secret
    BY <1>0, <1>3, GoesTo
  <2>2. KnowsRow(w)'
    BY <1>0, <2>1 DEF KnowsRow
  <2>3. EntriesFollowRows'
    <3>1. \A x \in Secrets : bySecret[x] # NoEntry => bySecret[x].secret = x
      BY DEF StoreInv, EntriesFollowRows
    <3> QED  BY <1>0, <1>2, <1>3, <2>1, EntriesStay
  <2>4. DeletedIsPurged'
    <3>1. \A n \in Nodes : Deletes(w, n) => n = op[w].node
      BY DEF Deletes
    <3> QED  BY <1>0, <1>3, <2>1, <3>1, PurgesStay
  <2>5. left' \subseteq Nodes
    BY <1>0, <1>1, <1>3 DEF StoreTypeOK
  <2> QED  BY <1>0, <1>3, <2>2, <2>3, <2>4, <2>5, BodyStep DEF StoreTypeOK
<1>4. CASE Subject(w) \subseteq Live /\ SyncServerCache(Subject(w), None) /\ Goes(w, "leave") /\ UNCHANGED left
  <2>1. Moves(w) /\ op'[w].pc = "leave" /\ op'[w].kind = op[w].kind /\ op'[w].node = op[w].node /\ op'[w].secret = op[w].secret
    BY <1>0, <1>4, GoesTo
  <2>2. KnowsRow(w)'
    BY <1>0, <2>1 DEF KnowsRow
  <2>3. EntriesFollowRows'
    BY <1>0, <1>2, <1>4, <2>1, SyncIndex, EntriesStay
  <2>4. DeletedIsPurged'
    <3>1. \A n \in Nodes : Deletes(w, n) => row[n].state = "live"
      BY <1>4 DEF Deletes, Subject, Live
    <3> QED  BY <1>0, <1>4, <2>1, <3>1, PurgesStay
  <2> QED  BY <1>0, <1>4, <2>2, <2>3, <2>4, SyncIndex, BodyStep DEF StoreTypeOK
<1>5. CASE /\ ~(Subject(w) \subseteq Live) /\ DeleteServerMeta(op[w].node, row[op[w].node].secret) /\ Goes(w, "purge")
           /\ UNCHANGED left
  <2>1. Moves(w) /\ op'[w].pc = "purge" /\ op'[w].kind = op[w].kind /\ op'[w].node = op[w].node /\ op'[w].secret = op[w].secret
    BY <1>0, <1>5, GoesTo
  <2>2. row[op[w].node].state # "live"
    BY <1>1, <1>5 DEF Subject, Live
  <2>3. KnowsRow(w)'
    BY <1>0, <1>1, <2>1, <2>2 DEF KnowsRow
  <2>4. EntriesFollowRows'
    BY <1>0, <1>1, <1>2, <1>5, <2>1, RemoveIndex, EntriesStay
  <2>5. DeletedIsPurged'
    BY <1>0, <1>5, <2>1, PurgesStay DEF Deletes
  <2> QED  BY <1>0, <1>1, <1>5, <2>3, <2>4, <2>5, RemoveIndex, BodyStep DEF StoreTypeOK
<1> QED  BY <1>3, <1>4, <1>5 DEF Reconcile

LEMMA PurgeStep ==
  ASSUME StoreInv, NEW w \in Workers, Purge(w)
  PROVE StoreInv'
<1> USE DEF HeldPCs
<1>0. op[w].pc = "purge" /\ UNCHANGED <<row, index, locks>> /\ StoreTypeOK /\ KnowsRow(w) /\ Goes(w, "leave")
  BY DEF Purge, At, StoreInv, CallsKnowRows
<1> PICK n \in Nodes : n = op[w].node
  BY <1>0 DEF StoreTypeOK, IdleOp, Calls
<1>1. /\ updates' = [updates EXCEPT ![n] = FALSE]
      /\ (virt' = [virt EXCEPT ![n] = FALSE] /\ left' = left) \/ (virt' = virt /\ left' = left \cup {n})
  BY DEF Purge
<1>2. updates' \in [Nodes -> BOOLEAN] /\ virt' \in [Nodes -> BOOLEAN] /\ left' \subseteq Nodes
  BY <1>0, <1>1 DEF StoreTypeOK
<1>3. Moves(w) /\ op'[w].pc = "leave" /\ op'[w].kind = op[w].kind /\ op'[w].node = op[w].node /\ op'[w].secret = op[w].secret
  BY <1>0, GoesTo
<1>4. KnowsRow(w)'
  BY <1>0, <1>3 DEF KnowsRow
<1>5. EntriesFollowRows'
  BY <1>0, <1>3, EntriesStay DEF Removes
<1>6. DeletedIsPurged'
  <2>1. \A m \in Nodes : Deletes(w, m) => m = n
    BY DEF Deletes
  <2>2. \A m \in Nodes : n \notin left' => ~updates'[n] /\ ~virt'[n]
    BY <1>0, <1>1 DEF StoreTypeOK
  <2>3. \A m \in Nodes \ {n} : updates'[m] = updates[m] /\ virt'[m] = virt[m] /\ (m \notin left' => m \notin left)
    BY <1>0, <1>1 DEF StoreTypeOK
  <2> QED  BY <1>0, <1>3, <2>1, <2>2, <2>3, PurgesStay
<1> QED  BY <1>0, <1>2, <1>4, <1>5, <1>6, BodyStep DEF StoreTypeOK

LEMMA ReauthenticateStep ==
  ASSUME StoreInv, NEW w \in Workers, Reauthenticate(w)
  PROVE StoreInv'
<1> USE DEF HeldPCs
<1>0. op[w].pc = "body" /\ op[w].kind \in Reports /\ UNCHANGED <<data, locks>> /\ StoreTypeOK /\ KnowsRow(w)
  BY DEF Reauthenticate, At, StoreInv, CallsKnowRows
<1>1. op[w] \in Calls /\ op[w].secret \in Secrets
  BY <1>0 DEF StoreTypeOK, IdleOp, KnowsRow, Calls
<1>2. (\A n : ~Removes(w, n)) /\ (\A n : ~Deletes(w, n))
  BY <1>0 DEF Removes, Deletes
<1>3. \A x \in Secrets : bySecret[x] # NoEntry => bySecret[x].secret = x
  BY DEF StoreInv, EntriesFollowRows
<1>4. ASSUME Moves(w) PROVE EntriesFollowRows' /\ DeletedIsPurged'
  BY <1>0, <1>2, <1>3, <1>4, EntriesStay, PurgesStay
<1>5. ASSUME NEW pc \in HeldPCs, Goes(w, pc), pc = "save" => row[op[w].node] = [state |-> "live", secret |-> op[w].secret],
             pc \in {"save", "leave"}
      PROVE StoreInv'
  <2>1. Moves(w) /\ op'[w].pc = pc /\ op'[w].kind = op[w].kind /\ op'[w].node = op[w].node /\ op'[w].secret = op[w].secret
    BY <1>0, <1>5, GoesTo
  <2>2. KnowsRow(w)'
    BY <1>0, <1>5, <2>1 DEF KnowsRow
  <2> QED  BY <1>0, <1>4, <1>5, <2>1, <2>2, BodyStep DEF StoreTypeOK
<1>6. CASE bySecret[op[w].secret] # NoEntry /\ bySecret[op[w].secret].id = op[w].node /\ Goes(w, "save")
  <2>1. ASSUME NEW v \in Workers, Removes(v, op[w].node) PROVE FALSE
    <3>1. v # w /\ op[v].kind \in Projected /\ op[v].pc \in HeldPCs /\ op[v].node = op[w].node
      BY <1>2, <2>1 DEF Removes
    <3> QED  BY <1>0, <3>1, AloneWithNode
  <2>2. row[op[w].node] = [state |-> "live", secret |-> op[w].secret]
    BY <1>1, <1>6, <2>1 DEF StoreInv, EntriesFollowRows
  <2> QED  BY <1>5, <1>6, <2>2
<1>7. CASE Goes(w, "leave")
  BY <1>5, <1>7
<1>8. CASE bySecret[op[w].secret] # NoEntry /\ op' = [op EXCEPT ![w].pc = "leave", ![w].next = bySecret[op[w].secret].id]
  <2> PICK n : n = bySecret[op[w].secret].id
    OBVIOUS
  <2>1. n \in Nodes
    BY <1>0, <1>1, <1>8 DEF StoreTypeOK
  <2>2. [op[w] EXCEPT !.pc = "leave", !.next = n] \in Calls
    BY <1>1, <2>1 DEF Calls
  <2>3. op' = [op EXCEPT ![w] = [op[w] EXCEPT !.pc = "leave", !.next = n]]
    BY <1>0, <1>8 DEF StoreTypeOK
  <2>4. op' \in [Workers -> {IdleOp} \cup Calls] /\ Moves(w) /\ op'[w].pc = "leave" /\ op'[w].kind = op[w].kind
        /\ op'[w].node = op[w].node /\ op'[w].secret = op[w].secret /\ op'[w].lock = op[w].lock
    BY <1>0, <1>1, <2>2, <2>3 DEF StoreTypeOK, Moves, Calls
  <2>5. KnowsRow(w)'
    BY <1>0, <2>4 DEF KnowsRow
  <2>6. LocksInv' /\ RowsAreDistinct' /\ CallsKnowRows'
    BY <1>0, <2>4, <2>5, BodyKeepsLocks, KnowledgeStays
  <2>7. StoreTypeOK'
    BY <1>0, <2>4 DEF StoreTypeOK
  <2> QED  BY <1>4, <2>4, <2>6, <2>7 DEF StoreInv, LocksInv
<1> QED  BY <1>6, <1>7, <1>8 DEF Reauthenticate

LEMMA ReportSteps ==
  ASSUME StoreInv, NEW w \in Workers, PersistMetrics(w) \/ SaveVirt(w)
  PROVE StoreInv'
<1> USE DEF HeldPCs
<1>0. /\ op[w].pc = "save" /\ op[w].kind \in Reports /\ UNCHANGED <<row, updates, left, locks>> /\ StoreTypeOK /\ KnowsRow(w)
      /\ Goes(w, "leave")
  BY DEF PersistMetrics, SaveVirt, At, StoreInv, CallsKnowRows
<1> PICK n, x : n = op[w].node /\ x = op[w].secret
  OBVIOUS
<1>1. n \in Nodes /\ x \in Secrets /\ row[n] = [state |-> "live", secret |-> x]
  BY <1>0 DEF StoreTypeOK, IdleOp, KnowsRow, Calls
<1>2. (\A m : ~Removes(w, m)) /\ (\A m : ~Deletes(w, m))
  BY <1>0 DEF Removes, Deletes
<1>3. Moves(w) /\ op'[w].pc = "leave" /\ op'[w].kind = op[w].kind /\ op'[w].node = op[w].node /\ op'[w].secret = op[w].secret
  BY <1>0, GoesTo
<1>4. KnowsRow(w)'
  BY <1>0, <1>3 DEF KnowsRow
<1>5. \A y \in Secrets : bySecret[y] # NoEntry => bySecret[y].secret = y
  BY DEF StoreInv, EntriesFollowRows
<1>6. CASE UNCHANGED index
  <2>1. EntriesFollowRows'
    BY <1>0, <1>2, <1>3, <1>5, <1>6, EntriesStay
  <2>2. virt' = virt \/ virt' = [virt EXCEPT ![n] = TRUE]
    BY DEF PersistMetrics, SaveVirt
  <2>3. virt' \in [Nodes -> BOOLEAN] /\ \A m \in Nodes : row[m].state = "deleted" => virt'[m] = virt[m]
    <3>1. virt \in [Nodes -> BOOLEAN] /\ row[n].state = "live"
      BY <1>0, <1>1 DEF StoreTypeOK
    <3>2. CASE virt' = [virt EXCEPT ![n] = TRUE]
      <4>1. \A m \in Nodes : virt'[m] = IF m = n THEN TRUE ELSE virt[m]
        BY <1>1, <3>1, <3>2
      <4> QED  BY <1>1, <3>1, <3>2, <4>1
    <3> QED  BY <2>2, <3>1, <3>2
  <2>4. DeletedIsPurged'
    BY <1>0, <1>2, <1>3, <2>3, PurgesStay
  <2> QED  BY <1>0, <1>4, <1>6, <2>1, <2>3, <2>4, BodyStep DEF StoreTypeOK
<1>7. CASE SyncReported(n, x) /\ UNCHANGED virt
  <2>1. /\ byID' \in [Nodes -> {NoEntry} \cup [id : Nodes, secret : Secrets]]
        /\ \A m \in Nodes \ {n} : byID'[m] = byID[m]
    BY <1>0, <1>1, <1>7 DEF SyncReported, Entry, StoreTypeOK
  <2>2. /\ bySecret' \in [Secrets -> {NoEntry} \cup [id : Nodes, secret : Secrets]]
        /\ \A y \in Secrets : bySecret'[y] = NoEntry \/ bySecret'[y] = bySecret[y] \/ (y = x /\ bySecret'[y] = Entry(n, x))
    BY <1>0, <1>1, <1>7 DEF SyncReported, Entry, StoreTypeOK
  <2>3. EntriesFollowRows'
    <3>1. Entry(n, x).secret = x /\ Entry(n, x).id = n
      BY DEF Entry
    <3>2. \A y \in Secrets :
            \/ bySecret'[y] = NoEntry
            \/ bySecret'[y].secret = y /\ row[bySecret'[y].id] = [state |-> "live", secret |-> y]
            \/ bySecret'[y] = bySecret[y] /\ ~(Removes(w, bySecret[y].id) /\ op[w].old = y)
      BY <1>1, <1>2, <2>2, <3>1
    <3>3. \A m \in Nodes : byID'[m] = NoEntry \/ row[m].state # "deleted" \/ (byID'[m] = byID[m] /\ ~Removes(w, m))
      BY <1>1, <1>2, <2>1
    <3> QED  BY <1>0, <1>3, <3>2, <3>3, EntriesStay
  <2>4. DeletedIsPurged'
    BY <1>0, <1>2, <1>3, <1>7, PurgesStay
  <2> QED  BY <1>0, <1>4, <1>7, <2>1, <2>2, <2>3, <2>4, BodyStep DEF StoreTypeOK
<1> QED  BY <1>6, <1>7 DEF PersistMetrics, SaveVirt

\* While w changes a node's row no other call relies on it.
LEMMA RowsChangeAlone ==
  ASSUME StoreInv, NEW w \in Workers, NEW v \in Workers \ {w}, op[w].pc = "body", op[v].node = op[w].node,
         op[v].pc \in {"sync", "revoke", "purge", "save"},
         op[w].kind \in {"patch", "delete"} \/ (op[w].kind = "create" /\ row[op[w].node].state = "absent")
  PROVE FALSE
<1>1. KnowsRow(v) /\ Inside(v) /\ Inside(w) /\ op[v].pc \in HeldPCs /\ op[w].pc \in HeldPCs
  BY DEF StoreInv, CallsKnowRows, Inside, HeldPCs
<1>2. op[v] \in Calls
  BY DEF StoreInv, StoreTypeOK, IdleOp
<1>3. CASE op[v].kind \in Projected
  BY <1>1, <1>3, AloneWithNode
<1>4. CASE op[v].kind \in Global
  BY <1>1, <1>4 DEF StoreInv, StructuralExcludes
<1>5. CASE op[v].kind \in Reports
  <2>1. op[v].pc = "save" /\ row[op[w].node].state = "live"
    BY <1>1, <1>5 DEF KnowsRow
  <2> QED  BY <1>5, <2>1 DEF StoreInv, LocksExclude, Holds, Refers
<1> QED  BY <1>2, <1>3, <1>4, <1>5 DEF Calls

LEMMA CommitStep ==
  ASSUME StoreInv, NEW w \in Workers, Commit(w)
  PROVE StoreInv'
<1> USE DEF HeldPCs
<1>0. op[w].pc = "body" /\ op[w].kind \notin Reports /\ UNCHANGED <<index, updates, virt, left, locks>> /\ StoreTypeOK /\ KnowsRow(w)
  BY DEF Commit, At, StoreInv, CallsKnowRows
<1> PICK n : n = op[w].node
  OBVIOUS
<1>1. op[w] \in Calls /\ n \in Nodes /\ row[n].secret \in Secrets \cup {None}
  BY <1>0 DEF StoreTypeOK, IdleOp, Calls
<1>2. PICK pc \in {"leave", "sync", "revoke", "reconcile"} :
        /\ op' = [op EXCEPT ![w].pc = pc, ![w].old = row[n].secret]
        /\ pc = "leave" => row' = row
        /\ pc # "leave" => Accepted(w) /\ row' \in {row, Written(w)}
        /\ pc = "sync" => row' = Written(w)
        /\ pc = "revoke" => Sensitive(w)
        /\ pc = "reconcile" => ~Sensitive(w)
  BY DEF Commit
<1>3. /\ op' \in [Workers -> {IdleOp} \cup Calls] /\ Moves(w) /\ op'[w].pc = pc /\ op'[w].kind = op[w].kind
      /\ op'[w].node = n /\ op'[w].secret = op[w].secret /\ op'[w].lock = op[w].lock /\ op'[w].old = row[n].secret
  <2>1. [op[w] EXCEPT !.pc = pc, !.old = row[n].secret] \in Calls
    BY <1>1 DEF Calls
  <2>2. op' = [op EXCEPT ![w] = [op[w] EXCEPT !.pc = pc, !.old = row[n].secret]]
    BY <1>0, <1>2 DEF StoreTypeOK
  <2> QED  BY <1>0, <1>1, <2>1, <2>2 DEF StoreTypeOK, Moves, Calls
<1>4. (\A m : ~Removes(w, m)) /\ (\A m : ~Deletes(w, m))
  BY <1>0 DEF Removes, Deletes
<1>5. LocksInv'
  BY <1>0, <1>3, BodyKeepsLocks
<1>6. ASSUME row' = row, KnowsRow(w)' PROVE StoreInv'
  <2>1. RowsAreDistinct' /\ CallsKnowRows'
    BY <1>3, <1>6, KnowledgeStays
  <2>2. \A x \in Secrets : bySecret[x] # NoEntry => bySecret[x].secret = x
    BY DEF StoreInv, EntriesFollowRows
  <2>3. EntriesFollowRows' /\ DeletedIsPurged'
    BY <1>0, <1>3, <1>4, <1>6, <2>2, EntriesStay, PurgesStay
  <2>4. StoreTypeOK'
    BY <1>0, <1>3, <1>6 DEF StoreTypeOK
  <2> QED  BY <1>5, <2>1, <2>3, <2>4 DEF StoreInv, LocksInv
<1>7. CASE pc = "leave"
  <2>1. KnowsRow(w)'
    BY <1>0, <1>3, <1>7 DEF KnowsRow
  <2> QED  BY <1>2, <1>6, <1>7, <2>1
<1>8. CASE pc # "leave"
  <2>1. KnowsRow(w)'
    <3>1. op[w].kind \in {"create", "patch", "static", "delete"} => row[n].state = IF op[w].kind = "create" THEN "absent" ELSE "live"
      BY <1>2, <1>8 DEF Accepted
    <3>2. op[w].kind \in {"patch", "delete"} => row[n].secret # None
      BY <1>1, <3>1 DEF StoreInv, RowsAreDistinct
    <3>3. op[w].kind = "delete" => Written(w)[n].state = "deleted"
      BY <1>0, <1>1 DEF Written, StoreTypeOK
    <3>4. op[w].kind = "create" => op[w].secret # None
      BY <1>0 DEF KnowsRow
    <3>5. op[w].kind \in {"create", "patch", "static"} => Written(w)[n].state = "live"
      BY <1>0, <1>1, <3>1, <3>4 DEF Written, StoreTypeOK
    <3>6. pc = "revoke" => op[w].kind \in {"patch", "delete"}
      BY <1>2 DEF Sensitive
    <3>7. op[w].kind = "patch" => row'[n].state = "live"
      BY <1>2, <1>8, <3>1, <3>5
    <3> QED  BY <1>0, <1>2, <1>3, <1>8, <3>1, <3>2, <3>3, <3>4, <3>5, <3>6, <3>7 DEF KnowsRow
  <2>2. CASE row' = row
    BY <1>6, <2>1, <2>2
  <2>3. CASE row' # row
    <3>1. /\ op[w].kind \in {"patch", "delete"} \/ (op[w].kind = "create" /\ row[n].state = "absent")
          /\ op[w].kind \in {"patch", "delete"} => Sensitive(w) /\ row[n].state = "live"
      BY <1>2, <1>8, <2>3 DEF Accepted, Written, Sensitive
    <3>2. op[w].kind \in {"patch", "delete"} => pc \in {"sync", "revoke"}
      BY <1>2, <1>8, <3>1
    <3>3. PICK r \in [state : {"live", "deleted"}, secret : Secrets] :
            /\ row' = [row EXCEPT ![n] = r]
            /\ r.state = "deleted" <=> op[w].kind = "delete"
            /\ \A m \in Nodes \ {n} : row[m].secret # r.secret
      <4>1. CASE op[w].kind = "delete"
        <5>1. row' = [row EXCEPT ![n].state = "deleted"]
          BY <1>2, <1>8, <2>3, <4>1 DEF Written
        <5>2. row[n].secret \in Secrets /\ \A m \in Nodes \ {n} : row[m].secret # row[n].secret
          BY <1>1, <3>1, <4>1 DEF StoreInv, RowsAreDistinct
        <5> PICK r : r = [state |-> "deleted", secret |-> row[n].secret]
          OBVIOUS
        <5>3. row[n] \in [state : {"absent", "live", "deleted"}, secret : Secrets \cup {None}]
          BY <1>0, <1>1 DEF StoreTypeOK
        <5>4. [row[n] EXCEPT !.state = "deleted"] = r
          BY <5>3
        <5>5. row' = [row EXCEPT ![n] = r]
          BY <5>1, <5>4
        <5>6. r \in [state : {"live", "deleted"}, secret : Secrets] /\ r.state = "deleted" /\ r.secret = row[n].secret
          BY <5>2
        <5> QED  BY <4>1, <5>2, <5>5, <5>6
      <4>2. CASE op[w].kind # "delete"
        <5>1. op[w].secret # None /\ row' = [row EXCEPT ![n] = [state |-> "live", secret |-> op[w].secret]]
          BY <1>2, <1>8, <2>3, <4>2 DEF Written
        <5>2. op[w].secret = row[n].secret \/ ~Used(op[w].secret)
          BY <1>2, <1>8, <3>1, <4>2, <5>1 DEF Accepted
        <5>3. op[w].secret \in Secrets
          BY <1>1, <5>1 DEF Calls
        <5>4. \A m \in Nodes \ {n} : row[m].secret # op[w].secret
          BY <1>1, <5>1, <5>2 DEF Used, StoreInv, RowsAreDistinct
        <5> PICK r : r = [state |-> "live", secret |-> op[w].secret]
          OBVIOUS
        <5>5. r \in [state : {"live", "deleted"}, secret : Secrets] /\ r.state = "live" /\ r.secret = op[w].secret
          BY <5>3
        <5> QED  BY <4>2, <5>1, <5>4, <5>5
      <4> QED  BY <4>1, <4>2
    <3>4. row'[n] = r /\ \A m \in Nodes \ {n} : row'[m] = row[m]
      BY <1>0, <1>1, <3>3 DEF StoreTypeOK
    <3>5. StoreTypeOK'
      BY <1>0, <1>1, <1>3, <3>3 DEF StoreTypeOK
    <3>6. RowsAreDistinct'
      BY <3>3, <3>4 DEF StoreInv, RowsAreDistinct
    <3>7. CallsKnowRows'
      <4>1. ASSUME NEW v \in Workers \ {w} PROVE KnowsRow(v)'
        <5>1. op'[v] = op[v] /\ KnowsRow(v)
          BY <1>3 DEF Moves, StoreInv, CallsKnowRows
        <5>2. CASE op[v].pc \in {"sync", "revoke", "purge", "save"}
          <6>1. op[v].node # n
            BY <1>0, <3>1, <5>2, RowsChangeAlone
          <6>2. op[v].node \in Nodes
            BY <1>0, <5>2 DEF StoreTypeOK, IdleOp, Calls
          <6> QED  BY <3>4, <5>1, <6>1, <6>2 DEF KnowsRow
        <5>3. CASE op[v].pc \notin {"sync", "revoke", "purge", "save"}
          BY <5>1, <5>3 DEF KnowsRow
        <5> QED  BY <5>2, <5>3
      <4> QED  BY <2>1, <4>1 DEF CallsKnowRows
    <3>8. \A v \in Workers : \A m : Removes(v, m) => Removes(v, m)' /\ op'[v].old = op[v].old
      BY <1>3, <1>4 DEF Moves, Removes
    <3>9. op[w].kind \in {"patch", "delete"} => Removes(w, n)' /\ op'[w].old = row[n].secret
      BY <1>3, <3>2 DEF Removes
    <3>10. EntriesFollowRows'
      <4>1. ASSUME NEW x \in Secrets, bySecret[x] # NoEntry
            PROVE /\ bySecret[x].secret = x
                  /\ \/ row'[bySecret[x].id] = [state |-> "live", secret |-> x]
                     \/ \E v \in Workers : Removes(v, bySecret[x].id)' /\ op'[v].old = x
        <5> PICK m : m = bySecret[x].id
          OBVIOUS
        <5>1. m \in Nodes
          BY <1>0, <4>1 DEF StoreTypeOK
        <5>2. \A v \in Workers : Removes(v, m)' => Removes(v, bySecret[x].id)'
          BY <1>0 DEF Removes
        <5>3. bySecret[x].secret = x /\ (row[m] = [state |-> "live", secret |-> x] \/ \E v \in Workers : Removes(v, m) /\ op[v].old = x)
          BY <4>1 DEF StoreInv, EntriesFollowRows
        <5>4. CASE row[m] = [state |-> "live", secret |-> x] /\ m = n
          <6>1. op[w].kind \in {"patch", "delete"} /\ row[n].secret = x
            BY <3>1, <5>4
          <6> QED  BY <3>9, <5>2, <5>3, <5>4, <6>1
        <5>5. CASE row[m] = [state |-> "live", secret |-> x] /\ m # n
          BY <3>4, <5>1, <5>3, <5>5
        <5>6. CASE \E v \in Workers : Removes(v, m) /\ op[v].old = x
          BY <3>8, <5>2, <5>3, <5>6
        <5> QED  BY <5>3, <5>4, <5>5, <5>6
      <4>2. ASSUME NEW m \in Nodes, byID[m] # NoEntry, row'[m].state = "deleted"
            PROVE \E v \in Workers : Removes(v, m)'
        <5>1. CASE m = n
          BY <3>3, <3>4, <3>9, <4>2, <5>1
        <5>2. CASE m # n
          <6>1. PICK v \in Workers : Removes(v, m)
            BY <3>4, <4>2, <5>2 DEF StoreInv, EntriesFollowRows
          <6> QED  BY <3>8, <6>1
        <5> QED  BY <5>1, <5>2
      <4> QED  BY <1>0, <4>1, <4>2 DEF EntriesFollowRows
    <3>11. DeletedIsPurged'
      <4>1. \A v \in Workers : \A m : Deletes(v, m) => Deletes(v, m)'
        BY <1>3, <1>4 DEF Moves, Deletes
      <4>2. op[w].kind = "delete" => Deletes(w, n)'
        BY <1>3, <3>2 DEF Deletes
      <4>3. ASSUME NEW m \in Nodes, row'[m].state = "deleted", m \notin left, updates[m] \/ virt[m]
            PROVE \E v \in Workers : Deletes(v, m)'
        <5>1. CASE m = n
          BY <3>3, <3>4, <4>2, <4>3, <5>1
        <5>2. CASE m # n
          <6>1. PICK v \in Workers : Deletes(v, m)
            BY <3>4, <4>3, <5>2 DEF StoreInv, DeletedIsPurged
          <6> QED  BY <4>1, <6>1
        <5> QED  BY <5>1, <5>2
      <4> QED  BY <1>0, <4>3 DEF DeletedIsPurged
    <3> QED  BY <1>5, <3>5, <3>6, <3>7, <3>10, <3>11 DEF StoreInv, LocksInv
  <2> QED  BY <2>2, <2>3
<1> QED  BY <1>7, <1>8

\* Requests of updates, and snapshots that expire.
LEMMA NodeSteps ==
  ASSUME StoreInv, NEW n \in Nodes, ResolveAgentUpdate(n) \/ RequestAgentUpdate(n) \/ SnapshotExpires(n)
  PROVE StoreInv'
<1>0. UNCHANGED <<row, index, left, locks, op>>
  BY DEF ResolveAgentUpdate, RequestAgentUpdate, SnapshotExpires
<1>1. StoreTypeOK'
  BY <1>0 DEF StoreInv, StoreTypeOK, ResolveAgentUpdate, RequestAgentUpdate, SnapshotExpires
<1>2. LocksCount' /\ LocksAgree' /\ LocksExclude' /\ StructuralExcludes'
  BY <1>0 DEF StoreInv, LocksCount, LocksAgree, LocksExclude, StructuralExcludes, Users, Refers, Holds, Inside
<1>3. RowsAreDistinct' /\ CallsKnowRows' /\ EntriesFollowRows'
  BY <1>0 DEF StoreInv, RowsAreDistinct, CallsKnowRows, KnowsRow, EntriesFollowRows, Removes
<1>4. byID[n] # NoEntry /\ row[n].state = "deleted" => \E w \in Workers : Deletes(w, n)
  <2> SUFFICES ASSUME byID[n] # NoEntry, row[n].state = "deleted" PROVE \E w \in Workers : Deletes(w, n)
    OBVIOUS
  <2>1. PICK w \in Workers : Removes(w, n)
    BY DEF StoreInv, EntriesFollowRows
  <2>2. op[w].kind = "delete"
    BY <2>1 DEF StoreInv, CallsKnowRows, KnowsRow, Removes
  <2> QED  BY <2>1, <2>2 DEF Removes, Deletes
<1>5. ASSUME NEW m \in Nodes, row[m].state = "deleted", m \notin left, updates'[m] \/ virt'[m]
      PROVE \E w \in Workers : Deletes(w, m)
  <2>1. updates[m] \/ virt[m] \/ (m = n /\ byID[n] # NoEntry)
    BY <1>5 DEF StoreInv, StoreTypeOK, ResolveAgentUpdate, RequestAgentUpdate, SnapshotExpires
  <2> QED  BY <1>4, <1>5, <2>1 DEF StoreInv, DeletedIsPurged
<1>6. DeletedIsPurged'
  BY <1>0, <1>5 DEF DeletedIsPurged, Deletes
<1> QED  BY <1>1, <1>2, <1>3, <1>6 DEF StoreInv

LEMMA RestartStep == StoreInv /\ Restart => StoreInv'
<1> SUFFICES ASSUME StoreInv, Restart PROVE StoreInv'
  OBVIOUS
<1>0. UNCHANGED <<row, virt>> /\ StoreTypeOK /\ RowsAreDistinct
  BY DEF Restart, StoreInv
<1>1. \A w \in Workers : op'[w] = IdleOp /\ ~Refers(w)' /\ ~Holds(w)' /\ ~Inside(w)' /\ op'[w].pc = "idle" /\ op'[w].kind = "idle"
  BY DEF Restart, IdleOp, Refers, Holds, Inside
<1>2. \A n \in Live : n \in Nodes /\ row[n].secret \in Secrets /\ row[n] = [state |-> "live", secret |-> row[n].secret]
  BY <1>0 DEF Live, RowsAreDistinct, StoreTypeOK
<1>3. /\ byID' \in [Nodes -> {NoEntry} \cup [id : Nodes, secret : Secrets]]
      /\ \A n \in Nodes : row[n].state = "deleted" => byID'[n] = NoEntry
  BY <1>2 DEF Restart, Entry, Live
<1>4. ASSUME NEW x \in Secrets
      PROVE bySecret'[x] = NoEntry \/ \E n \in Live : row[n].secret = x /\ bySecret'[x] = Entry(n, x)
  <2> DEFINE owner == {n \in Live : row[n].secret = x}
  <2>1. CASE owner # {}
    <3>1. (CHOOSE n \in owner : TRUE) \in owner /\ bySecret'[x] = Entry(CHOOSE n \in owner : TRUE, x)
      BY <2>1 DEF Restart
    <3> QED  BY <3>1
  <2>2. CASE owner = {}
    BY <2>2 DEF Restart
  <2> QED  BY <2>1, <2>2
<1>5. bySecret' \in [Secrets -> {NoEntry} \cup [id : Nodes, secret : Secrets]]
  <2>1. bySecret' = [x \in Secrets |-> bySecret'[x]]
    BY DEF Restart
  <2>2. \A x \in Secrets, n \in Live : Entry(n, x) \in [id : Nodes, secret : Secrets]
    BY <1>2 DEF Entry
  <2> QED  BY <1>4, <2>1, <2>2
<1>6. StoreTypeOK'
  <2>1. /\ updates' \in [Nodes -> BOOLEAN] /\ left' \subseteq Nodes /\ lock' \in [Nodes -> Objects \cup {0}]
        /\ mutex' \in [Objects -> [refs : Nat, held : BOOLEAN]] /\ op' \in [Workers -> {IdleOp} \cup Calls]
    BY <1>0 DEF Restart, StoreTypeOK
  <2> QED  BY <1>0, <1>3, <1>5, <2>1 DEF StoreTypeOK
<1>7. LocksCount'
  <2>1. \A i : Users(i)' = {}
    BY <1>1 DEF Users
  <2> QED  BY <2>1, FS_EmptySet DEF LocksCount, Restart
<1>8. LocksAgree' /\ LocksExclude' /\ StructuralExcludes'
  BY <1>1 DEF LocksAgree, LocksExclude, StructuralExcludes, Restart
<1>9. RowsAreDistinct' /\ CallsKnowRows'
  BY <1>0, <1>1 DEF RowsAreDistinct, CallsKnowRows, KnowsRow
<1>10. EntriesFollowRows'
  <2>1. ASSUME NEW x \in Secrets, bySecret'[x] # NoEntry
        PROVE bySecret'[x].secret = x /\ row[bySecret'[x].id] = [state |-> "live", secret |-> x]
    <3>1. PICK n \in Live : row[n].secret = x /\ bySecret'[x] = [id |-> n, secret |-> x]
      BY <1>4, <2>1 DEF Entry
    <3> QED  BY <1>2, <3>1
  <2> QED  BY <1>0, <1>3, <2>1 DEF EntriesFollowRows
<1>11. DeletedIsPurged'
  BY <1>0 DEF DeletedIsPurged, Restart, StoreTypeOK
<1> QED  BY <1>6, <1>7, <1>8, <1>9, <1>10, <1>11 DEF StoreInv

-----------------------------------------------------------------------------
(* Theorems of the nodes. *)

\* The store's invariant: locks, what calls know, index and purges.
THEOREM StoreInvariant == StoreSpec => []StoreInv
<1>1. ASSUME StoreInv, StoreNext PROVE StoreInv'
  <2>1. ASSUME NEW w \in Workers, WorkerNext(w) PROVE StoreInv'
    BY <1>1, <2>1, CallSteps, CommitStep, SyncStep, RevokeStep, ReconcileStep, PurgeStep, ReauthenticateStep, ReportSteps
       DEF WorkerNext
  <2> QED  BY <1>1, <2>1, NodeSteps, RestartStep DEF StoreNext
<1>2. ASSUME StoreInv, UNCHANGED storeVars PROVE StoreInv'
  BY <1>2 DEF storeVars, StoreInv, StoreTypeOK, LocksCount, LocksAgree, LocksExclude, StructuralExcludes, Users, Refers, Holds,
              Inside, RowsAreDistinct, CallsKnowRows, KnowsRow, EntriesFollowRows, Removes, DeletedIsPurged, Deletes
<1> QED  BY <1>1, <1>2, StoreInitInv, PTL DEF StoreSpec

\* A secret that was replaced, or whose node was deleted, authenticates nothing once its change
\* has reached the index, whatever calls overlap, give up or fail (RevokedSecretsRefused).
THEOREM RevokedSecretsAreRefused == StoreSpec => []RevokedSecretsRefused
<1>1. StoreInv => RevokedSecretsRefused
  BY DEF StoreInv, EntriesFollowRows, RevokedSecretsRefused, Removes
<1> QED  BY <1>1, StoreInvariant, PTL

\* A deleted node leaves no entry, requested update or snapshot (DeletedLeavesNothing).
THEOREM DeletedNodesLeaveNothing == StoreSpec => []DeletedLeavesNothing
<1>1. StoreInv => DeletedLeavesNothing
  BY DEF StoreInv, EntriesFollowRows, DeletedIsPurged, DeletedLeavesNothing, Removes, Deletes
<1> QED  BY <1>1, StoreInvariant, PTL
=============================================================================

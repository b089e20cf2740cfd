------------------------------- MODULE Themes -------------------------------
(***************************************************************************)
(* Theme packages (internal/theme): an administrator uploads, applies and  *)
(* deletes them (internal/http/api/admin/system/themes) while public       *)
(* requests read the selected one (internal/http/theme).                   *)
(*                                                                         *)
(* A package is a function from its file names to their contents.  A CSS   *)
(* file is a sequence of blocks, each with the kinds of its selectors and  *)
(* its declarations; how characters make up blocks is left out.  Temporary *)
(* and backup directories have names no theme can have, so nothing reads   *)
(* them; a backup is kept here while it is the only copy of its theme.     *)
(***************************************************************************)
EXTENDS Integers, Sequences
LOCAL INSTANCE SequencesExt

CONSTANTS
    Default,            \* DefaultID, the theme of the frontend itself
    Builtin, Custom,    \* the ids of embedded themes, and ids that are not reserved
    Archives,           \* what administrators upload
    Admins, Visitors,   \* requests of administrators and of the public
    MaxDecls,           \* maxThemeDecls
    Absent

ASSUME ReservedAssumption == Default \notin Builtin \cup Custom

VARIABLES
    stored,     \* active_theme_id of system_settings
    runtime,    \* runtimeActiveID, None until it is set
    disk,       \* each theme's directory, None where there is none
    backup,     \* each theme's backup directory while its own is gone
    adm,        \* administrators' requests
    pub         \* public requests
themeVars == <<stored, runtime, disk, backup, adm, pub>>

NoRequest == [pc |-> "idle"]
ThemesInit ==
    /\ stored = Default /\ runtime = Absent
    /\ disk = [id \in Custom |-> Absent] /\ backup = [id \in Custom |-> Absent]
    /\ adm = [a \in Admins |-> NoRequest] /\ pub = [v \in Visitors |-> NoRequest]

-----------------------------------------------------------------------------
(* Packages. *)

\* parseThemeCSS: a block is of one mode, the light or the dark one, and declares only
\* custom properties with allowed values.
BlockIsValid(b) == b.on \in {{"light"}, {"dark"}} /\ \A i \in DOMAIN b.decls : b.decls[i] # "forbidden"
Declarations(css, mode) ==
    FlattenSeq([i \in DOMAIN css |-> IF css[i].on = {mode} THEN css[i].decls ELSE <<>>])
CSSIsValid(css) ==
    /\ \A i \in DOMAIN css : BlockIsValid(css[i])
    /\ Len(Declarations(css, "light")) + Len(Declarations(css, "dark")) <= MaxDecls

\* buildActiveCSS: the tokens, at least one, then the recipes.
CanBuildCSS(tokens, recipes) ==
    /\ CSSIsValid(tokens) /\ \E m \in {"light", "dark"} : Declarations(tokens, m) # <<>>
    /\ CSSIsValid(recipes)
ActiveCSS(tokens, recipes) == [m \in {"light", "dark"} |-> Declarations(tokens, m) \o Declarations(recipes, m)]

\* InstallZip before it touches the store: readZip, the required files, the manifest, an id
\* of its own, CSS that builds, and the optional files.
Files(z) == [n \in DOMAIN z.files \cup {"recipes.css"} |-> IF n \in DOMAIN z.files THEN z.files[n] ELSE <<>>]
ASSUME AbsentAssumption == \A z \in Archives : Files(z) # Absent
PackageAccepted(z) ==
    /\ z.readable /\ {"theme.json", "tokens.css"} \subseteq DOMAIN z.files
    /\ z.files["theme.json"].valid /\ z.files["theme.json"].id \in Custom
    /\ CanBuildCSS(Files(z)["tokens.css"], Files(z)["recipes.css"])
    /\ \A n \in DOMAIN z.files \cap {"preview.png", "README.md"} : z.files[n] = "valid"

\* LoadActive of a custom theme's directory; a package needs no recipes.
Names(dir) == IF dir = Absent THEN {} ELSE DOMAIN dir
RecipesIn(dir) == IF "recipes.css" \in Names(dir) THEN dir["recipes.css"] ELSE <<>>
StateOf(id, dir) ==
    CASE dir = Absent -> "missing"
      [] /\ {"theme.json", "tokens.css"} \subseteq Names(dir) /\ dir["theme.json"].id = id
         /\ CanBuildCSS(dir["tokens.css"], RecipesIn(dir)) -> "ready"
      [] OTHER -> "broken"
LoadState(id) == IF id \in Custom THEN StateOf(id, disk[id]) ELSE "ready"

-----------------------------------------------------------------------------
(* Administrators: one upload, application or deletion at a time (handler.mu). *)

\* Fault: each request locks the theme store only for its own reads and writes.
NoHandlerLock == TRUE
HandlerFree == \A a \in Admins : adm[a].pc = "idle"
Installing == \E a \in Admins : adm[a].pc \in {"install", "swap"}
Reading == \E v \in Visitors : pub[v].pc \in {"manifest", "tokens", "recipes"}
\* Fault: a theme is replaced while it is being read.
NoWriterWait == TRUE
\* Store.mu, for a writer and for a reader.
WriteLock == ~Installing /\ ~Reading
ReadLock == ~Installing
AdminReturns(a) == adm' = [adm EXCEPT ![a] = NoRequest]

\* uploadHandler and InstallZip up to replaceThemeDir: the files go to a temporary directory.
Upload(a, z) ==
    /\ adm[a].pc = "idle" /\ HandlerFree /\ PackageAccepted(z) /\ WriteLock
    /\ adm' = [adm EXCEPT ![a] = [pc |-> "install", id |-> z.files["theme.json"].id, dir |-> Files(z)]]
    /\ UNCHANGED <<stored, runtime, disk, backup, pub>>

\* Writing the files, inspecting the current theme, or setting it aside fails.
InstallFails(a) == adm[a].pc = "install" /\ AdminReturns(a) /\ UNCHANGED <<stored, runtime, disk, backup, pub>>

\* replaceThemeDir: there is no theme of this id yet ...
InstallNew(a) ==
    /\ adm[a].pc = "install" /\ disk[adm[a].id] = Absent
    /\ disk' = [disk EXCEPT ![adm[a].id] = adm[a].dir]
    /\ backup' = [backup EXCEPT ![adm[a].id] = Absent]
    /\ AdminReturns(a) /\ UNCHANGED <<stored, runtime, pub>>
\* ... or it is renamed to a backup first,
SetAside(a) ==
    /\ adm[a].pc = "install" /\ disk[adm[a].id] # Absent
    /\ backup' = [backup EXCEPT ![adm[a].id] = disk[adm[a].id]]
    /\ disk' = [disk EXCEPT ![adm[a].id] = Absent]
    /\ adm' = [adm EXCEPT ![a].pc = "swap"]
    /\ UNCHANGED <<stored, runtime, pub>>
\* and the new theme takes its place; whether the backup can then be removed matters to nobody.
Install(a) ==
    /\ adm[a].pc = "swap"
    /\ disk' = [disk EXCEPT ![adm[a].id] = adm[a].dir]
    /\ backup' = [backup EXCEPT ![adm[a].id] = Absent]
    /\ AdminReturns(a) /\ UNCHANGED <<stored, runtime, pub>>
\* If the new theme cannot, the backup is put back, which can fail as well.
RollBack(a) ==
    /\ adm[a].pc = "swap"
    /\ \/ /\ disk' = [disk EXCEPT ![adm[a].id] = backup[adm[a].id]]
          /\ backup' = [backup EXCEPT ![adm[a].id] = Absent]
       \/ UNCHANGED <<disk, backup>>
    /\ AdminReturns(a) /\ UNCHANGED <<stored, runtime, pub>>

\* applyHandler: a theme that loads is stored, and then becomes the one that is served.
Apply(a, id) ==
    /\ adm[a].pc = "idle" /\ HandlerFree /\ ReadLock /\ LoadState(id) = "ready"
    /\ adm' = [adm EXCEPT ![a] = [pc |-> "save", id |-> id]]
    /\ UNCHANGED <<stored, runtime, disk, backup, pub>>
\* SaveActiveID; a write that reports an error may have been made.
SaveActiveID(a) ==
    /\ adm[a].pc = "save"
    /\ \/ stored' = adm[a].id /\ runtime' = adm[a].id
       \/ stored' \in {stored, adm[a].id} /\ runtime' = runtime
    /\ AdminReturns(a) /\ UNCHANGED <<disk, backup, pub>>

\* deleteHandler: a theme that is there and is not the selected one ...
Delete(a, id) ==
    /\ adm[a].pc = "idle" /\ HandlerFree /\ ReadLock /\ disk[id] # Absent /\ stored # id
    /\ adm' = [adm EXCEPT ![a] = [pc |-> "remove", id |-> id]]
    /\ UNCHANGED <<stored, runtime, disk, backup, pub>>
\* ... is removed, file by file: when that fails, some of its files may be gone.
Remains(dir) == {Absent} \cup (IF dir = Absent THEN {} ELSE {[n \in N |-> dir[n]] : N \in SUBSET DOMAIN dir})
RemoveCustom(a) ==
    /\ adm[a].pc = "remove" /\ WriteLock
    /\ \E rest \in Remains(disk[adm[a].id]) : disk' = [disk EXCEPT ![adm[a].id] = rest]
    /\ AdminReturns(a) /\ UNCHANGED <<stored, runtime, backup, pub>>

-----------------------------------------------------------------------------
(* Public requests. *)

Answers(v, ans) == pub' = [pub EXCEPT ![v] = [pc |-> "idle", ans |-> ans]]
Fallback(id, state) == [id |-> id, state |-> state]
\* The end of active(): an id that came from the database becomes the one that is served.
SetRuntimeActiveID(v) == runtime' = IF pub[v].fresh THEN pub[v].id ELSE runtime

\* active(): the id that is served, or else the stored one, if the database answers.
Request(v) ==
    /\ pub[v].pc = "idle"
    /\ \/ runtime # Absent /\ pub' = [pub EXCEPT ![v] = [pc |-> "open", id |-> runtime, fresh |-> FALSE]]
       \/ runtime = Absent /\ pub' = [pub EXCEPT ![v] = [pc |-> "open", id |-> stored, fresh |-> TRUE]]
       \/ runtime = Absent /\ Answers(v, Fallback(Default, "error"))
    /\ UNCHANGED <<stored, runtime, disk, backup, adm>>

\* LoadActive: a theme that needs no directory, a directory that is not there or cannot be
\* inspected, or one to read.
LoadActive(v) ==
    LET id == pub[v].id IN
    /\ pub[v].pc = "open"
    /\ \/ id \notin Custom /\ Answers(v, Fallback(id, "ready")) /\ SetRuntimeActiveID(v)
       \/ id \in Custom /\ ReadLock /\ disk[id] = Absent /\ Answers(v, Fallback(id, "missing")) /\ SetRuntimeActiveID(v)
       \/ id \in Custom /\ ReadLock /\ Answers(v, Fallback(Default, "error")) /\ UNCHANGED runtime
       \/ id \in Custom /\ ReadLock /\ disk[id] # Absent /\ pub' = [pub EXCEPT ![v].pc = "manifest"] /\ UNCHANGED runtime
    /\ UNCHANGED <<stored, disk, backup, adm>>

\* A file of the theme is missing, or cannot be read.
ReadFails(v) ==
    /\ pub[v].pc \in {"manifest", "tokens", "recipes"}
    /\ Answers(v, Fallback(pub[v].id, "broken")) /\ SetRuntimeActiveID(v)
    /\ UNCHANGED <<stored, disk, backup, adm>>
\* loadCustomManifest, and loadCustomCSS, one file after the other.
ReadManifest(v) ==
    LET dir == disk[pub[v].id] IN
    /\ pub[v].pc = "manifest" /\ "theme.json" \in Names(dir)
    /\ pub' = [pub EXCEPT ![v] = [pc |-> "tokens", id |-> pub[v].id, fresh |-> pub[v].fresh, manifest |-> dir["theme.json"]]]
    /\ UNCHANGED <<stored, runtime, disk, backup, adm>>
ReadTokens(v) ==
    LET dir == disk[pub[v].id] IN
    /\ pub[v].pc = "tokens" /\ "tokens.css" \in Names(dir)
    /\ pub' = [pub EXCEPT ![v] = [pc |-> "recipes", id |-> pub[v].id, fresh |-> pub[v].fresh,
                                  manifest |-> pub[v].manifest, tokens |-> dir["tokens.css"]]]
    /\ UNCHANGED <<stored, runtime, disk, backup, adm>>
ReadRecipes(v) ==
    LET recipes == RecipesIn(disk[pub[v].id]) IN
    /\ pub[v].pc = "recipes"
    /\ Answers(v, IF pub[v].manifest.id = pub[v].id /\ CanBuildCSS(pub[v].tokens, recipes)
                  THEN [id |-> pub[v].id, state |-> "ready", manifest |-> pub[v].manifest,
                        css |-> ActiveCSS(pub[v].tokens, recipes)]
                  ELSE Fallback(pub[v].id, "broken"))
    /\ SetRuntimeActiveID(v) /\ UNCHANGED <<stored, disk, backup, adm>>

-----------------------------------------------------------------------------
\* The process dies and starts again: directories and the database remain.
ThemesRestart ==
    /\ runtime' = Absent /\ adm' = [a \in Admins |-> NoRequest] /\ pub' = [v \in Visitors |-> NoRequest]
    /\ UNCHANGED <<stored, disk, backup>>

AdminNext(a) ==
    \/ \E z \in Archives : Upload(a, z)
    \/ InstallFails(a) \/ InstallNew(a) \/ SetAside(a) \/ Install(a) \/ RollBack(a)
    \/ \E id \in {Default} \cup Builtin \cup Custom : Apply(a, id)
    \/ SaveActiveID(a)
    \/ \E id \in Custom : Delete(a, id)
    \/ RemoveCustom(a)
VisitorNext(v) == Request(v) \/ LoadActive(v) \/ ReadFails(v) \/ ReadManifest(v) \/ ReadTokens(v) \/ ReadRecipes(v)
ThemesNext == (\E a \in Admins : AdminNext(a)) \/ (\E v \in Visitors : VisitorNext(v)) \/ ThemesRestart
ThemesSpec == ThemesInit /\ [][ThemesNext]_themeVars

-----------------------------------------------------------------------------
(* The list of themes (listHandler), taken while no administrator's request is under way. *)

\* ResolveActive, as far as the list uses it.
Configured == [id |-> stored, state |-> LoadState(stored)]
Resolved == IF Configured.state = "ready" THEN stored ELSE Default
View(id) == [active |-> id = Resolved, deletable |-> id \in Custom /\ id # Resolved, issue |-> Absent]
Listed == Builtin \cup {id \in Custom : LoadState(id) = "ready"}
\* markActiveIssue: the selected theme, if it is missing or broken.
List ==
    [id \in Listed \cup (IF Configured.state = "ready" THEN {} ELSE {stored}) |->
       IF id = stored /\ Configured.state # "ready"
       THEN [active |-> FALSE, deletable |-> FALSE, issue |-> Configured.state] ELSE View(id)]

-----------------------------------------------------------------------------
\* No request takes the selected theme away: its directory can be loaded, or the package
\* that could is in a backup (an upload that was cut short, replaceThemeDir); and the list
\* offers every theme for deletion but the reserved ones and the selected one.
SelectedThemeStays ==
    /\ stored \in Custom => \E dir \in {disk[stored], backup[stored]} : StateOf(stored, dir) = "ready"
    /\ HandlerFree => \A id \in DOMAIN List : /\ List[id].deletable <=> id \in Custom /\ id # stored
                                              /\ List[id].active => id = stored

\* A theme that is served is one package: its manifest, tokens and recipes came with one
\* accepted upload, whatever was uploaded meanwhile; all that can be missing are recipes
\* that a deletion cut short removed (active.go, LoadActive; storage.go, RemoveCustom).
ThemesAreWhole ==
    \A v \in Visitors : LET q == pub[v] IN
        q.pc = "idle" /\ "ans" \in DOMAIN q /\ q.ans.id \in Custom /\ q.ans.state = "ready" =>
            \E z \in Archives : /\ PackageAccepted(z) /\ z.files["theme.json"] = q.ans.manifest
                                /\ q.ans.css \in {ActiveCSS(Files(z)["tokens.css"], r) : r \in {Files(z)["recipes.css"], <<>>}}

-----------------------------------------------------------------------------
(* The inductive invariant. *)

\* One administrator's request at a time; nobody installs while a theme is read.
OneAtATime ==
    /\ \A a, b \in Admins : adm[a].pc # "idle" /\ adm[b].pc # "idle" => a = b
    /\ ~(Installing /\ Reading)

\* What a directory can hold: what is left of one accepted package of its id.
PartOf(dir, z) == DOMAIN dir \subseteq DOMAIN Files(z) /\ \A n \in DOMAIN dir : dir[n] = Files(z)[n]
IsPackage(id, z) == PackageAccepted(z) /\ z.files["theme.json"].id = id
DirectoriesArePackages ==
    \A id \in Custom : /\ disk[id] # Absent => \E z \in Archives : IsPackage(id, z) /\ PartOf(disk[id], z)
                       /\ backup[id] # Absent => disk[id] = Absent /\ \E z \in Archives : IsPackage(id, z) /\ PartOf(backup[id], z)

\* What an administrator's request has found, and what nobody changes before it is done.
AdminKnows(a) ==
    \/ adm[a] = NoRequest
    \/ /\ adm[a].pc \in {"install", "swap"} /\ DOMAIN adm[a] = {"pc", "id", "dir"} /\ adm[a].id \in Custom
       /\ adm[a].pc = "swap" => disk[adm[a].id] = Absent
       /\ \E z \in Archives : IsPackage(adm[a].id, z) /\ adm[a].dir = Files(z)
    \/ /\ adm[a].pc = "save" /\ DOMAIN adm[a] = {"pc", "id"} /\ adm[a].id \in {Default} \cup Builtin \cup Custom
       /\ LoadState(adm[a].id) = "ready"
    \/ adm[a].pc = "remove" /\ DOMAIN adm[a] = {"pc", "id"} /\ adm[a].id \in Custom \ {stored}

\* What a public request has read so far belongs to the package that is still there.
VisitorKnows(v) ==
    LET q == pub[v] IN
    \/ q.pc = "idle" /\ DOMAIN q \in {{"pc"}, {"pc", "ans"}}
    \/ q.pc = "open" /\ DOMAIN q = {"pc", "id", "fresh"}
    \/ q.pc = "manifest" /\ DOMAIN q = {"pc", "id", "fresh"} /\ q.id \in Custom
    \/ /\ q.pc = "tokens" /\ DOMAIN q = {"pc", "id", "fresh", "manifest"} /\ q.id \in Custom
       /\ \E z \in Archives : IsPackage(q.id, z) /\ PartOf(disk[q.id], z) /\ q.manifest = z.files["theme.json"]
    \/ /\ q.pc = "recipes" /\ DOMAIN q = {"pc", "id", "fresh", "manifest", "tokens"} /\ q.id \in Custom
       /\ \E z \in Archives : /\ IsPackage(q.id, z) /\ PartOf(disk[q.id], z) /\ q.manifest = z.files["theme.json"]
                              /\ q.tokens = Files(z)["tokens.css"]

SelectedCanBeLoaded ==
    stored \in Custom => \E dir \in {disk[stored], backup[stored]} : StateOf(stored, dir) = "ready"

ThemesInv ==
    /\ DOMAIN disk = Custom /\ DOMAIN backup = Custom /\ DOMAIN adm = Admins /\ DOMAIN pub = Visitors
    /\ OneAtATime /\ DirectoriesArePackages /\ SelectedCanBeLoaded /\ ThemesAreWhole
    /\ \A a \in Admins : AdminKnows(a)
    /\ \A v \in Visitors : VisitorKnows(v)

=============================================================================

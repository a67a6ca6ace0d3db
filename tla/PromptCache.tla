---------------------------- MODULE PromptCache -----------------------------
(***************************************************************************)
(* The prompt of an Agent: the Skill registry, as functions of the files of*)
(* the Skill packages, and the prompt cache that is built on it.           *)
(***************************************************************************)
EXTENDS Naturals, Sequences, FiniteSets, FiniteSetsExt, TLC

-----------------------------------------------------------------------------
(***************************************************************************)
(* The Skill registry as functions of the files of the Skill packages:     *)
(* which packages a scan discovers, what metadata their sidecars and the   *)
(* overrides resolve to, how a Skill executes, whether the host can run    *)
(* it, which Skills are listed and mentionable, and which files the prompt *)
(* of an active Skill discloses and depends on.                            *)
(*                                                                         *)
(* A file is a record with a field `is` ("none", "bad" for one that cannot *)
(* be read or parsed, "file"); `at` maps a path <<package, name>> to it.   *)
(***************************************************************************)

CONSTANTS
    Packages,       \* the packages, in the order they are registered
    Id,             \* the Skill id a package's directory name stands for
    Described,      \* packages given by a Process descriptor, not by files
    NameId,         \* a child Agent's name, normalised like a Skill id
    Host,           \* [tools, executables, env, delegated, version]
    Overrides,      \* per Skill id: [enabled, implicit]
    Resources,      \* the resource names of a package, in display order
    MaxResources,   \* resources disclosed for one Skill
    None

Reserved == {"bash", "update_plan", "invoke_delegated_skill"}

AllPackages == {Packages[i] : i \in DOMAIN Packages}

\* Discovery and the capability view -----------------------------------------

Readable(at, p, name) == at[<<p, name>>].is = "file"

\* A directory with a readable SKILL.md is a package; a SKILL.md that does not
\* parse is an error of the scan and no package.  Descriptors survive a refresh.
scan_skills_dir(at) == {p \in AllPackages : Readable(at, p, "SKILL.md")}

\* The entries of agents/ that look like the root of a child Agent.
child_agent_exports(at, p) == at[<<p, "agents">>].entries \cap at[<<p, "roots">>].names

refresh(at) ==
    [p \in scan_skills_dir(at) \cup Described |-> child_agent_exports(at, p)]

\* Metadata: sidecars over the defaults of the package --------------------------

Unset == [mode |-> None, target |-> None, implicit |-> None]

Field(base, overlay) == IF overlay = None THEN base ELSE overlay

apply_overlay(m, y) ==
    [mode |-> Field(m.mode, y.mode), target |-> Field(m.target, y.target),
     implicit |-> Field(m.implicit, y.implicit)]

\* A missing sidecar says nothing, and neither does one that does not parse.
load_optional_yaml(at, p, name) ==
    IF Readable(at, p, name) THEN at[<<p, name>>].yaml ELSE Unset

apply_sidecar_metadata(at, p) ==
    apply_overlay(load_optional_yaml(at, p, "package.yaml"),
                  load_optional_yaml(at, p, "skill.yaml"))

\* The user's override wins over the sidecars, they over openai.yaml.
resolve_runtime_exposure(at, p) ==
    LET o == Overrides[Id[p]]
        declared == Field(load_optional_yaml(at, p, "openai.yaml").implicit,
                          apply_sidecar_metadata(at, p).implicit)
    IN  [enabled  |-> Field(TRUE, o.enabled),
         implicit |-> Field(Field(TRUE, declared), o.implicit)]

\* Execution --------------------------------------------------------------------

Inline          == [kind |-> "inline", target |-> None]
Delegate(t)     == [kind |-> "delegate", target |-> t]
Unresolved      == [kind |-> "unresolved", target |-> None]

same_name_child_agent_target(id, exports) == {e \in exports : NameId[e] = id}

\* The same-named child Agent, else the only one; two of either are ambiguous.
infer_target(id, exports) ==
    LET same == same_name_child_agent_target(id, exports)
    IN  CASE Cardinality(same) = 1 -> Delegate(CHOOSE e \in same : TRUE)
          [] Cardinality(same) > 1 -> Unresolved
          [] same = {} /\ Cardinality(exports) = 1 ->
                Delegate(CHOOSE e \in exports : TRUE)
          [] OTHER -> Unresolved

resolve_explicit_delegate_execution(id, target, exports) ==
    IF target /= None
    THEN IF target \in exports THEN Delegate(target) ELSE Unresolved
    ELSE infer_target(id, exports)

infer_skill_execution(id, exports) ==
    IF exports = {} THEN Inline ELSE infer_target(id, exports)

resolve_skill_execution(id, m, exports) ==
    CASE m.mode = "inline"   -> Inline
      [] m.mode = "delegate" -> resolve_explicit_delegate_execution(id, m.target, exports)
      [] m.mode = None       -> infer_skill_execution(id, exports)

\* The registry -------------------------------------------------------------------

Metadata(exports, at, p) ==
    LET m == apply_sidecar_metadata(at, p)
        exposure == resolve_runtime_exposure(at, p)
        file == at[<<p, "SKILL.md">>]
    IN  [package |-> p, needs |-> file.needs, least |-> file.least,
         enabled |-> exposure.enabled, implicit |-> exposure.implicit,
         execution |-> resolve_skill_execution(Id[p], m, exports)]

\* SKILL.md is read again when the view is applied; one that no longer parses is
\* left out.
Loaded(view, at) == {p \in DOMAIN view : Readable(at, p, "SKILL.md")}

DuplicateSkill(view, at) ==
    \E p, q \in Loaded(view, at) : p /= q /\ Id[p] = Id[q]

apply_capability_view(view, at) ==
    [id \in {Id[p] : p \in Loaded(view, at)} |->
        LET p == CHOOSE q \in Loaded(view, at) : Id[q] = id
        IN  Metadata(view[p], at, p)]

\* The paths whose change makes a loaded registry stale.  A directory is tracked
\* for the files that come and go in it: what is inside the entries of agents/
\* is not.
MutTracked_paths(view, at) ==
    LET files == AllPackages \ Described
    IN  (files \X {"dir"})
        \cup ({p \in files : at[<<p, "SKILL.md">>].is /= "none"} \X {"SKILL.md", "agents"})

tracked_paths(view, at) ==
    LET files == AllPackages \ Described
    IN  (files \X {"dir"})
        \cup ({p \in files : at[<<p, "SKILL.md">>].is /= "none"} \X {"SKILL.md", "agents"})
        \cup ((DOMAIN view \cap files) \X {"package.yaml", "openai.yaml", "skill.yaml"})

\* Availability ---------------------------------------------------------------------

supports_required_tool(name) ==
    CASE name = "invoke_delegated_skill" -> Host.delegated
      [] name \in Host.tools -> TRUE
      [] name \in Reserved \ Host.tools -> FALSE
      [] OTHER -> name \in Host.executables

Supports(need) ==
    CASE need.type = "env_var" -> need.name \in Host.env
      [] need.type = "tool"    -> supports_required_tool(need.name)
      [] need.type = "runtime" -> need.name = "delegated_skill_invocation" /\ Host.delegated

\* A minimum version that is not a version counts as one the host does not meet.
VersionMet(least) == least # None /\ least <= Host.version

is_skill_available(m) ==
    /\ \A need \in m.needs : Supports(need)
    /\ m.execution.kind /= "unresolved"
    /\ VersionMet(m.least)

Mentionable(reg) == {id \in DOMAIN reg : reg[id].enabled /\ is_skill_available(reg[id])}

Listed(reg) == {id \in Mentionable(reg) : reg[id].implicit}

\* The Skills of a turn: the mentioned ones that can be mentioned, and of a
\* resumed turn the carried ones that are still there, enabled and available.
refresh_active_skill_envelope(reg, id) ==
    id \in DOMAIN reg /\ reg[id].enabled /\ is_skill_available(reg[id])

Selected(reg, mentions, carried) ==
    (mentions \cap Mentionable(reg))
    \cup {id \in carried : refresh_active_skill_envelope(reg, id)}

\* Mentions and carried Skills that end in a message instead.
Reported(reg, mentions, carried) ==
    (mentions \cup carried) \ Selected(reg, mentions, carried)

\* Disclosure -------------------------------------------------------------------------

\* What the prompt of an active Skill shows of it: a delegated Skill only its
\* stub, when the runtime can delegate; every other its instructions.
ShowsBody(m) == m.execution.kind = "inline" \/ (m.execution.kind = "delegate" /\ ~Host.delegated)

\* The file with the instructions: the level-2 file SKILL.md asks for if it can
\* be read, SKILL.md itself otherwise.
load_level2_content(at, p) ==
    IF at[<<p, "SKILL.md">>].level2 /\ Readable(at, p, "level2") THEN "level2" ELSE "SKILL.md"

\* The first resources, in display order, that the instructions refer to.
materialize_disclosed_resources(at, p) ==
    LET wanted == SelectSeq(Resources,
                            LAMBDA r : r \in at[<<p, load_level2_content(at, p)>>].refs)
    IN  {wanted[i] : i \in {j \in DOMAIN wanted : j <= MaxResources}}

\* The paths a rendering depends on besides SKILL.md, which the registry tracks.
rendered_paths(m, at) ==
    LET p == m.package
    IN  IF ~ShowsBody(m) \/ p \in Described THEN {}
        ELSE (IF at[<<p, "SKILL.md">>].level2 THEN {<<p, "level2">>} ELSE {})
             \cup {<<p, r>> : r \in materialize_disclosed_resources(at, p)}

-----------------------------------------------------------------------------
(***************************************************************************)
(* The prompt cache of an Agent (runtime/prompt_cache.rs): a turn's system *)
(* prompt is put together from the Skill registry, the prompts of the      *)
(* active Skills, the persona files and the Memory Store, each kept as a   *)
(* snapshot that is reused while the fingerprints of the files it was made *)
(* from still match.  The files change under it at any moment: the user,   *)
(* a Tool, or the Agent's own memory jobs write them.                      *)
(*                                                                         *)
(* Every edit has a number.  `disk` gives each path the number of its last *)
(* edit, which is what a fingerprint can see of it, and `log` what that    *)
(* edit wrote; a snapshot is the numbers it was read at and the numbers it *)
(* was fingerprinted at.                                                   *)
(***************************************************************************)

CONSTANTS
    Initial,    \* the files as they are at launch
    Edits,      \* the edits that may happen: [path, to]
    MaxEdits    \* bound on their number

VARIABLES
    disk,       \* path -> number of its last edit
    log,        \* the edits, in order
    pc,         \* where the call that holds the cache is
    job,        \* what it was asked for
    work,       \* what it has read so far
    cache,      \* the snapshots
    prompt,     \* what it has put together
    active,     \* the active Skills of the turn
    published   \* the Skill observation last published

vars == <<disk, log, pc, job, work, cache, prompt, active, published>>

Files == DOMAIN Initial

Content(path, n) == IF n = 0 THEN Initial[path] ELSE log[n].to

\* The files as they were when a read saw the edit numbers `seen`.
Seen(seen) == [path \in Files |-> Content(path, seen[path])]

Exists(path, n) == Content(path, n).is /= "none"

Empty == [x \in {} |-> x]

Capture(paths) == [path \in paths |-> disk[path]]

matches_current(printed) == \A path \in DOMAIN printed : disk[path] = printed[path]

\* Persona and memory files ------------------------------------------------------

\* The last directory of the overlay that has the file.
overlay_definition_file_path(seen) ==
    LET having == {d \in {"lower", "upper"} : Exists(<<"persona", d>>, seen[<<"persona", d>>])}
    IN  CASE "upper" \in having -> <<"persona", "upper">>
          [] having = {"lower"} -> <<"persona", "lower">>
          [] OTHER -> None

PersonaPaths == {<<"persona", "lower">>, <<"persona", "upper">>}

PersonaShows(seen) ==
    LET path == overlay_definition_file_path(seen)
    IN  IF path = None THEN None ELSE seen[path]

\* The most recent daily note, if there is one.
latest_daily_note_targets(seen) ==
    LET notes == {n \in {"monday", "tuesday"} : Exists(<<"daily", n>>, seen[<<"daily", n>>])}
    IN  IF "tuesday" \in notes THEN {<<"daily", "tuesday">>} ELSE {"daily"} \X notes

memory_store_tracked_paths(seen) ==
    {<<"memory", "MEMORY.md">>, <<"daily", "dir">>} \cup latest_daily_note_targets(seen)

MemoryShows(seen) ==
    [path \in {<<"memory", "MEMORY.md">>} \cup latest_daily_note_targets(seen) |-> seen[path]]

\* The Skill registry of a snapshot ------------------------------------------------

RegistryOf(snap) == apply_capability_view(refresh(Seen(snap.view)), Seen(snap.read))

Fatal(view, read) == DuplicateSkill(refresh(Seen(view)), Seen(read))

NoPrompt == [failed |-> FALSE, listed |-> {}, shown |-> Empty, reported |-> {},
             persona |-> None, memory |-> None]

Init ==
    /\ disk = [path \in Files \cup (AllPackages \X {"dir"}) \cup {<<"daily", "dir">>} |-> 0]
    /\ log = <<>>
    /\ pc = "idle"
    /\ job = [kind |-> "build", mentions |-> {}, carried |-> {}, quiet |-> TRUE]
    /\ work = None
    /\ cache = [skills |-> None, renders |-> Empty, persona |-> None, memory |-> None]
    /\ prompt = NoPrompt
    /\ active = {}
    /\ published = [version |-> 0, known |-> FALSE, ids |-> {}]

\* The environment -------------------------------------------------------------------

\* A file is written, created or removed.  Creating or removing a SKILL.md or a
\* daily note also changes the directory it is in.
Edit(e) ==
    LET n == Len(log) + 1
        dir == <<e.path[1], "dir">>
        moved == /\ e.path[1] = "daily" \/ e.path[2] = "SKILL.md"
                 /\ (e.to.is = "none") # ~Exists(e.path, disk[e.path])
    IN  /\ Len(log) < MaxEdits
        /\ e.to /= Content(e.path, disk[e.path])
        /\ log' = Append(log, e)
        /\ disk' = [path \in DOMAIN disk |->
                      IF path = e.path \/ (moved /\ path = dir) THEN n ELSE disk[path]]
        /\ job' = [job EXCEPT !.quiet = FALSE]
        /\ UNCHANGED <<pc, work, cache, prompt, active, published>>

\* A call on the cache -----------------------------------------------------------------

\* A turn starts with the Skills its input mentions; a resumed one carries the
\* active Skills on.
build(mentions, resume) ==
    /\ pc = "idle"
    /\ pc' = "check"
    /\ job' = [kind |-> "build", mentions |-> mentions,
               carried |-> IF resume THEN active ELSE {}, quiet |-> TRUE]
    /\ prompt' = NoPrompt
    /\ work' = None
    /\ UNCHANGED <<disk, log, cache, active, published>>

\* A delegated invocation looks a listed Skill up.
resolve_listed_skill_metadata ==
    /\ pc = "idle"
    /\ pc' = "check"
    /\ job' = [kind |-> "resolve", mentions |-> {}, carried |-> {}, quiet |-> TRUE]
    /\ prompt' = NoPrompt
    /\ work' = None
    /\ UNCHANGED <<disk, log, cache, active, published>>

\* With the registry at hand: what is listed, and the Skills left to render.
Ensured(snap) ==
    LET reg == RegistryOf(snap)
    IN  /\ prompt' = [prompt EXCEPT !.listed = [id \in Listed(reg) |-> reg[id]],
                                    !.reported = Reported(reg, job.mentions, job.carried)]
        /\ work' = [todo |-> IF job.kind = "build"
                             THEN Selected(reg, job.mentions, job.carried) ELSE {}]
        /\ pc' = "render"

\* A current snapshot is used again; a stale one is dropped, with the renderings
\* made from it, before the reload is tried.
ensure_skills_snapshot ==
    /\ pc = "check"
    /\ \/ /\ cache.skills /= None
          /\ matches_current(cache.skills.printed)
          /\ Ensured(cache.skills)
          /\ UNCHANGED cache
       \/ /\ cache.skills /= None => ~matches_current(cache.skills.printed)
          /\ cache' = [cache EXCEPT !.skills = None, !.renders = Empty]
          /\ pc' = "scan"
          /\ UNCHANGED <<prompt, work>>
    /\ UNCHANGED <<disk, log, job, active, published>>

\* The reload: the packages are discovered, then their metadata is loaded, then
\* the files are fingerprinted.
Scan ==
    /\ pc = "scan"
    /\ work' = [view |-> disk]
    /\ pc' = "load"
    /\ UNCHANGED <<disk, log, job, cache, prompt, active, published>>

load_capability_view ==
    /\ pc = "load"
    /\ IF Fatal(work.view, disk)
       THEN /\ prompt' = [prompt EXCEPT !.failed = TRUE]
            /\ pc' = IF job.kind = "build" THEN "persona" ELSE "done"
            /\ work' = None
       ELSE /\ work' = [view |-> work.view, read |-> disk]
            /\ pc' = "print"
            /\ UNCHANGED prompt
    /\ UNCHANGED <<disk, log, job, cache, active, published>>

from_registry ==
    /\ pc = "print"
    /\ LET view == Seen(work.view)
           snap == [view |-> work.view, read |-> work.read,
                    printed |-> Capture(tracked_paths(refresh(view), view))]
       IN  /\ cache' = [cache EXCEPT !.skills = snap]
           /\ Ensured(snap)
    /\ UNCHANGED <<disk, log, job, active, published>>

\* A Skill's prompt is taken from its rendering while that is current.  Otherwise
\* its files are read and then fingerprinted; a SKILL.md that cannot be loaded
\* any more leaves the Skill out.
Shown(id, used) ==
    prompt' = [prompt EXCEPT !.shown = (id :> [meta |-> RegistryOf(cache.skills)[id],
                                               used |-> used]) @@ @]

render_active_skill(id) ==
    /\ pc = "render"
    /\ id \in work.todo
    /\ LET meta == RegistryOf(cache.skills)[id]
           p == meta.package
           now == Seen(disk)
       IN  \/ /\ id \in DOMAIN cache.renders
              /\ matches_current(cache.renders[id].printed)
              /\ Shown(id, cache.renders[id].used)
              /\ work' = [todo |-> work.todo \ {id}]
              /\ UNCHANGED pc
           \/ /\ id \in DOMAIN cache.renders => ~matches_current(cache.renders[id].printed)
              /\ Readable(now, p, "SKILL.md")
              /\ work' = [todo |-> work.todo, id |-> id,
                          used |-> Capture({<<p, "SKILL.md">>} \cup rendered_paths(meta, now))]
              /\ pc' = "reprint"
              /\ UNCHANGED prompt
           \/ /\ id \in DOMAIN cache.renders => ~matches_current(cache.renders[id].printed)
              /\ ~Readable(now, p, "SKILL.md")
              /\ work' = [todo |-> work.todo \ {id}]
              /\ UNCHANGED <<pc, prompt>>
    /\ UNCHANGED <<disk, log, job, cache, active, published>>

CachedSkillRender ==
    /\ pc = "reprint"
    /\ LET paths == {path \in DOMAIN work.used : path[2] /= "SKILL.md"}
       IN  cache' = [cache EXCEPT !.renders =
                        (work.id :> [used |-> work.used, printed |-> Capture(paths)]) @@ @]
    /\ Shown(work.id, work.used)
    /\ work' = [todo |-> work.todo \ {work.id}]
    /\ pc' = "render"
    /\ UNCHANGED <<disk, log, job, active, published>>

Rendered ==
    /\ pc = "render"
    /\ work.todo = {}
    /\ pc' = IF job.kind = "build" THEN "persona" ELSE "done"
    /\ work' = None
    /\ UNCHANGED <<disk, log, job, cache, prompt, active, published>>

\* The persona files are fingerprinted first and read afterwards.
definition_persona_section_with_cache ==
    /\ pc = "persona"
    /\ IF cache.persona /= None /\ matches_current(cache.persona.printed)
       THEN /\ prompt' = [prompt EXCEPT !.persona = PersonaShows(cache.persona.read)]
            /\ pc' = "memory"
            /\ UNCHANGED work
       ELSE /\ work' = [printed |-> Capture(PersonaPaths)]
            /\ pc' = "read persona"
            /\ UNCHANGED prompt
    /\ UNCHANGED <<disk, log, job, cache, active, published>>

CachedDefinitionPersona ==
    /\ pc = "read persona"
    /\ cache' = [cache EXCEPT !.persona = [printed |-> work.printed, read |-> disk]]
    /\ prompt' = [prompt EXCEPT !.persona = PersonaShows(disk)]
    /\ pc' = "memory"
    /\ work' = None
    /\ UNCHANGED <<disk, log, job, active, published>>

\* The Memory Store's likewise, but which daily note to track is decided before
\* the fingerprints are taken, and which to show when the files are read.
memory_store_section_with_cache ==
    /\ pc = "memory"
    /\ IF cache.memory /= None /\ matches_current(cache.memory.printed)
       THEN /\ prompt' = [prompt EXCEPT !.memory = MemoryShows(cache.memory.read)]
            /\ pc' = "done"
            /\ UNCHANGED work
       ELSE /\ work' = [tracked |-> memory_store_tracked_paths(disk)]
            /\ pc' = "print memory"
            /\ UNCHANGED prompt
    /\ UNCHANGED <<disk, log, job, cache, active, published>>

CaptureMemory ==
    /\ pc = "print memory"
    /\ work' = [printed |-> Capture(work.tracked)]
    /\ pc' = "read memory"
    /\ UNCHANGED <<disk, log, job, cache, prompt, active, published>>

CachedMemoryStore ==
    /\ pc = "read memory"
    /\ cache' = [cache EXCEPT !.memory = [printed |-> work.printed, read |-> disk]]
    /\ prompt' = [prompt EXCEPT !.memory = MemoryShows(disk)]
    /\ pc' = "done"
    /\ work' = None
    /\ UNCHANGED <<disk, log, job, active, published>>

\* The caller publishes what the cache now knows of the Skills, and takes the
\* active Skills over; a failed write of the publication ends the turn first.
skill_observation ==
    IF cache.skills = None THEN [known |-> FALSE, ids |-> {}]
    ELSE [known |-> TRUE, ids |-> Mentionable(RegistryOf(cache.skills))]

publish_skills(written) ==
    /\ pc = "done"
    /\ LET seen == skill_observation
           news == seen /= [known |-> published.known, ids |-> published.ids]
       IN  /\ published' = IF news /\ written
                           THEN [version |-> published.version + 1,
                                 known |-> seen.known, ids |-> seen.ids]
                           ELSE published
           /\ active' = IF job.kind = "build" /\ (news => written)
                        THEN DOMAIN prompt.shown ELSE active
    /\ pc' = "idle"
    /\ UNCHANGED <<disk, log, job, work, cache, prompt>>

Mentions == SUBSET {Id[p] : p \in AllPackages}

Next ==
    \/ \E e \in Edits : Edit(e)
    \/ \E mentions \in Mentions, resume \in BOOLEAN : build(mentions, resume)
    \/ resolve_listed_skill_metadata
    \/ ensure_skills_snapshot \/ Scan \/ load_capability_view \/ from_registry
    \/ \E id \in {Id[p] : p \in AllPackages} : render_active_skill(id)
    \/ CachedSkillRender \/ Rendered
    \/ definition_persona_section_with_cache \/ CachedDefinitionPersona
    \/ memory_store_section_with_cache \/ CaptureMemory \/ CachedMemoryStore
    \/ \E written \in BOOLEAN : publish_skills(written)

Spec == Init /\ [][Next]_vars
-----------------------------------------------------------------------------
\* The changes the fingerprints cannot see: a file of a Skill package that changed
\* while the registry or a rendering was made from it (they are fingerprinted
\* after they are read), ...
SkillsRaced ==
    LET s == cache.skills
    IN  \E path \in DOMAIN s.printed :
           s.view[path] /= s.read[path] \/ s.read[path] /= s.printed[path]

RenderRaced(id) ==
    \E path \in DOMAIN cache.renders[id].printed :
        cache.renders[id].used[path] /= cache.renders[id].printed[path]

\* ... an agents/ entry that became a child Agent after it was made, ...
FilledLater == \E p \in AllPackages : cache.skills.view[<<p, "roots">>] /= disk[<<p, "roots">>]

\* ... and a daily note that appeared while the Memory Store was fingerprinted.
NoteMissed ==
    latest_daily_note_targets(cache.memory.read) \ DOMAIN cache.memory.printed /= {}

\* The prompt as it would be put together from the files as they are.
FreshSkills ==
    LET now == Seen(disk)
        reg == apply_capability_view(refresh(now), now)
        chosen == Selected(reg, job.mentions, job.carried)
    IN  /\ prompt.failed <=> DuplicateSkill(refresh(now), now)
        /\ ~prompt.failed =>
              /\ prompt.listed = [id \in Listed(reg) |-> reg[id]]
              /\ job.kind = "build" =>
                    /\ DOMAIN prompt.shown = chosen
                    /\ prompt.reported = Reported(reg, job.mentions, job.carried)
                    /\ \A id \in chosen :
                          /\ prompt.shown[id].meta = reg[id]
                          /\ RenderRaced(id) \/
                             prompt.shown[id].used =
                                Capture({<<reg[id].package, "SKILL.md">>} \cup rendered_paths(reg[id], now))

\* The cache is transparent: a call during which no file changed shows what the
\* files say - the Skills listed, active and reported, the instructions and
\* resources of the active ones, the persona and the memory - whatever changed
\* before and between, save for the changes named above.  In particular a carried
\* Skill that was disabled, removed or lost its tools is no longer active, and a
\* registry that cannot be loaded leaves no Skill behind.
PromptIsFresh ==
    (pc = "done" /\ job.quiet) =>
        /\ (cache.skills = None \/ ~(SkillsRaced \/ FilledLater)) => FreshSkills
        /\ job.kind = "build" =>
              /\ prompt.persona = PersonaShows(disk)
              /\ ~NoteMissed => prompt.memory = MemoryShows(disk)
=============================================================================

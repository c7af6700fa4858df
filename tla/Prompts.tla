------------------------------- MODULE Prompts -------------------------------
(* One prompt key of services/prompt_manager.py: the YAML files and the     *)
(* registry of the release, the registry and the cache in the memory of the *)
(* process, and the rows of the table prompts.                              *)
EXTENDS Naturals, FiniteSets

CONSTANTS Versions, NoVersion,
          Files,          \* versions with a YAML file that has a template
          Renderable,     \* of those, the ones whose required variables the nodes pass
          Released        \* versions a release's registry.yaml may name

VARIABLES shipped, registry, cache, rows,
          everShipped, passed, reviewedWith   \* history

prompts == <<shipped, registry, cache, rows, everShipped, passed, reviewedWith>>

ASSUME PromptAssumption ==
    /\ NoVersion \notin Versions
    /\ Renderable \subseteq Files /\ Files \subseteq Versions /\ Released \subseteq Versions

RowStatus == {"none", "draft", "active", "deprecated"}
ActiveRows(r) == {v \in Versions : r[v] = "active"}

InitPrompts ==
    /\ shipped \in Released
    /\ registry = NoVersion /\ cache = NoVersion
    /\ rows = [v \in Versions |-> "none"]
    /\ everShipped = {shipped} /\ passed = {}
    /\ reviewedWith = {}
-----------------------------------------------------------------------------
(* load_registry, once per process, on first use; the version in memory is  *)
(* the release's until activate changes it.                                 *)
ActiveVersion == IF registry = NoVersion THEN shipped ELSE registry

LoadFromYaml(v) == v \in Files
RegistryVersion(c) == ActiveVersion
GetActive(c) == IF c # NoVersion THEN c ELSE RegistryVersion(c)
Renders(v) == LoadFromYaml(v) /\ v \in Renderable

(* _run_llm_node: render the active version, record the version rendered.   *)
Render ==
    LET v == GetActive(cache) IN
    /\ registry' = ActiveVersion
    /\ cache' = IF LoadFromYaml(v) THEN v ELSE cache
    /\ reviewedWith' = reviewedWith \cup IF Renders(v) THEN {v} ELSE {}
    /\ UNCHANGED <<shipped, rows, everShipped, passed>>

(* sync_to_db: the registry's version gets an active row; no other row is   *)
(* retired.  The caller commits, or does not.                               *)
SyncToDb(commit) ==
    LET v == ActiveVersion
        stored == IF rows[v] = "none" /\ ~LoadFromYaml(v) THEN rows ELSE [rows EXCEPT ![v] = "active"] IN
    /\ registry' = v
    /\ rows' = IF commit THEN stored ELSE rows
    /\ UNCHANGED <<shipped, cache, everShipped, passed, reviewedWith>>

(* Fault: any version is activated.                                       *)
NoGate(pass) == TRUE

(* activate: the gate, the only active row retired, the version's row made  *)
(* active; then, whether or not the caller commits, registry and cache.     *)
Gate(pass) == pass
Retire(r) == [v \in Versions |-> IF r[v] = "active" THEN "deprecated" ELSE r[v]]
CacheDropped(c) == NoVersion

Activate(v, pass, commit) ==
    /\ Gate(pass)
    /\ Cardinality(ActiveRows(rows)) <= 1            \* scalar_one_or_none
    /\ rows[v] # "none"                              \* else NotFoundError
    /\ rows' = IF commit THEN [Retire(rows) EXCEPT ![v] = "active"] ELSE rows
    /\ registry' = v
    /\ cache' = CacheDropped(cache)
    /\ passed' = passed \cup IF pass THEN {v} ELSE {}
    /\ UNCHANGED <<shipped, everShipped, reviewedWith>>

(* deactivate: the row and the cache; the registry in memory still names    *)
(* the version, which therefore stays in use.                               *)
Deactivate(v, commit) ==
    /\ rows[v] # "none"
    /\ rows' = IF commit THEN [rows EXCEPT ![v] = "deprecated"] ELSE rows
    /\ cache' = NoVersion
    /\ UNCHANGED <<shipped, registry, everShipped, passed, reviewedWith>>

InvalidateCache ==
    /\ cache # NoVersion /\ cache' = NoVersion
    /\ UNCHANGED <<shipped, registry, rows, everShipped, passed, reviewedWith>>

(* A candidate version's row, put into the table by hand.                   *)
Draft(v) ==
    /\ rows[v] = "none"
    /\ rows' = [rows EXCEPT ![v] = "draft"]
    /\ UNCHANGED <<shipped, registry, cache, everShipped, passed, reviewedWith>>

(* A restart, possibly with a new release, forgets what activate put into   *)
(* memory.                                                                  *)
RestartPrompts(v) ==
    /\ shipped' = v /\ everShipped' = everShipped \cup {v}
    /\ registry' = NoVersion /\ cache' = NoVersion
    /\ UNCHANGED <<rows, passed, reviewedWith>>
-----------------------------------------------------------------------------
PromptsOK ==
    /\ shipped \in Released /\ everShipped \subseteq Released
    /\ registry \in Versions \cup {NoVersion} /\ cache \in Files \cup {NoVersion}
    /\ rows \in [Versions -> RowStatus]
    /\ passed \subseteq Versions /\ reviewedWith \subseteq Renderable

(* What the cache serves is what the registry in memory names, so that no   *)
(* activation is hidden by a version cached before it; and a version that   *)
(* reviews are rendered with, or that the table calls active, was shipped   *)
(* by a release or has passed the gate, through every restart, lost commit  *)
(* and failed activation.                                                   *)
PromptsVetted ==
    /\ cache # NoVersion => cache = registry
    /\ reviewedWith \cup ActiveRows(rows) \subseteq everShipped \cup passed
=============================================================================

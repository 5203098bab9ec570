--------------------------- MODULE TrivialDetectors ---------------------------
(***************************************************************************)
(* The detectors that settle a pull request by its changed files alone     *)
(* (infrastructure/repositories/trivial): for each enabled adapter, in the *)
(* order of the configuration, approve, reject or no opinion.              *)
(*                                                                         *)
(* A path is whether it has a directory and its last element.              *)
(* .autobump.yaml is a set of configurations: of one, or empty without it. *)
(***************************************************************************)
EXTENDS Naturals, Sequences

Path == [nested : BOOLEAN, base : STRING]
Root(name) == [nested |-> FALSE, base |-> name]

changelogFile == Root("CHANGELOG.md")

\* strings.EqualFold and strings.ToLower, on the names that differ in case.
Folded(name) ==
    CASE name = "changelog.md" -> "CHANGELOG.md"
      [] name = "GUIDE.MD"     -> "GUIDE.md"
      [] OTHER                 -> name
Markdown == {"CHANGELOG.md", "GUIDE.md", "README.md"}

\* Mutation: nothing is special about a changelog.
isChangelogOnly_never(F) == FALSE

isChangelogOnly(F) == \A f \in F : Folded(f.base) = "CHANGELOG.md"

-----------------------------------------------------------------------------
(* Dependency updates and documents.                                       *)

updateAllowed ==
    [update_go     |-> {"go.mod", "go.sum", "CHANGELOG.md"},
     update_node   |-> {"package.json", "package-lock.json", "yarn.lock", "pnpm-lock.yaml", "CHANGELOG.md"},
     update_python |-> {"pyproject.toml", "requirements.txt", "requirements-dev.txt", "CHANGELOG.md"}]

Updates(a, F) == (\A f \in F : f.base \in updateAllowed[a]) /\ ~isChangelogOnly(F)

DocsOnly(F) == (\A f \in F : Folded(f.base) \in Markdown) /\ ~isChangelogOnly(F)

-----------------------------------------------------------------------------
(* Version bumps.                                                          *)

\* ResolveVersionFilePaths: the version files of each language, none for one
\* that .autobump.yaml does not name.
Config == [{"go", "typescript", "python"} -> SUBSET Path]

languageKey == [bump_go |-> "go", bump_node |-> "typescript", bump_python |-> "python"]

\* Base names; Python's package files have to be in a package.
bumpDefault(a, f) ==
    \/ f.base = "CHANGELOG.md"
    \/ a = "bump_node" /\ f.base = "package.json"
    \/ a = "bump_python" /\ f.base = "__init__.py" /\ f.nested

\* The files that must be there; no such set without a readable config.
loadAutobumpRequired(a, autobump) ==
    {{changelogFile} \cup cfg[languageKey[a]] : cfg \in autobump}

detectBump(a, F, autobump) ==
    LET required == loadAutobumpRequired(a, autobump) IN
    IF \E f \in F : ~bumpDefault(a, f) /\ f \notin UNION required THEN "none"
    ELSE IF \E files \in required : ~(files \subseteq F) THEN "reject"
    ELSE "approve"

-----------------------------------------------------------------------------
(* The registry.                                                           *)

Bumps == DOMAIN languageKey
allDetectors == DOMAIN updateAllowed \cup Bumps \cup {"docs_only"}
Adapter == allDetectors \cup {"unknown"}

\* What adapter a says of the files F.
Opinion(a, F, autobump) ==
    IF F = {} THEN "none"
    ELSE IF a \in Bumps THEN detectBump(a, F, autobump)
    ELSE IF (a = "docs_only" /\ DocsOnly(F)) \/ (a \in DOMAIN updateAllowed /\ Updates(a, F))
         THEN "approve" ELSE "none"

\* The first adapter with an opinion decides; names that are not built in have
\* none.  Each bump adapter reads the config for itself: those in unread find
\* it missing or unreadable.
Detect(enabled, F, autobump, unread, verdict) ==
    LET opinion(i) == Opinion(enabled[i], F, IF enabled[i] \in unread THEN {} ELSE autobump) IN
    \/ verdict = "none" /\ \A i \in DOMAIN enabled : opinion(i) = "none"
    \/ /\ verdict # "none"
       /\ \E i \in DOMAIN enabled :
            opinion(i) = verdict /\ \A j \in 1..i - 1 : opinion(j) = "none"

-----------------------------------------------------------------------------
(* README.md:253-283, the tables of what each adapter matches and of what   *)
(* .autobump.yaml adds to it.                                              *)

InClass(a, F, autobump) ==
    CASE a \in DOMAIN updateAllowed -> \A f \in F : f.base \in updateAllowed[a]
      [] a = "docs_only"            -> \A f \in F : Folded(f.base) \in Markdown
      [] a \in Bumps                ->
            \A f \in F : bumpDefault(a, f) \/ \E cfg \in autobump : f \in cfg[languageKey[a]]
      [] OTHER                      -> FALSE

ChangelogOnly(F) == \A f \in F : f.base \in {"CHANGELOG.md", "changelog.md"}

Incomplete(a, F, autobump) ==
    a \in Bumps /\ \E files \in loadAutobumpRequired(a, autobump) : ~(files \subseteq F)
=============================================================================

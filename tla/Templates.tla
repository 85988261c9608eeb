------------------------------ MODULE Templates ------------------------------
(***************************************************************************)
(* Catalog templates of one catalog image slot (decisions D0, D14, D14a):  *)
(* created from an uploaded photo and analysed by a vision model between   *)
(* two transactions, or authored and validated in one; versioned by name;  *)
(* archived.  Only an analysed template is selectable for generation.      *)
(*                                                                         *)
(* A prompt is "scene", with no placeholder, "input", which names the      *)
(* input slot, or "malformed".  As in Products a transaction's read and    *)
(* its commit are separate steps.                                          *)
(***************************************************************************)
EXTENDS Products

CONSTANTS
    Names,          \* names of templates
    Presets         \* the stock scene presets: a sequence of names

ASSUME TemplateAssumptions == Presets \in Seq(Names)

Prompts == {"scene", "input", "malformed"}
NoPrompt == "none"
TemplateStatuses == {"uploaded", "analysing", "analysed", "analysis_failed", "invalid", "archived"}

VARIABLES
    templates,  \* catalog_templates, in the order of insertion
    starts      \* analyses started on each (history)

templateVars == <<templates, starts>>

TemplatesInit == templates = <<>> /\ starts = <<>>

\* Mutant: every input slot of the category resolves, joined or not.
ResolvesAnyInput(prompt, spec) == prompt # "malformed"

\* validate_template_placeholders finds no problem.
Resolves(prompt, spec) ==
    \/ prompt = "scene"
    \/ prompt = "input" /\ "join" \in spec

\* The version the next row of this name gets (get_latest_version).
NextVersion(n) == 1 + Cardinality({t \in DOMAIN templates : templates[t].name = n})

\* UNIQUE (tenant_id, catalog_image_slot_id, name, version).
VersionIsFree(n, v) ==
    \A t \in DOMAIN templates : templates[t].name = n => templates[t].version # v

Inserted(rows) ==
    /\ templates' = templates \o rows
    /\ starts' = starts \o [r \in DOMAIN rows |-> 0]

Uploaded(n, v, a) ==
    [name |-> n, version |-> v, kind |-> "analysed_image", asset |-> {a},
     prompt |-> NoPrompt, status |-> "uploaded"]

\* create_authored, start_analysing, then mark_analysed or mark_invalid.
Authored(n, v, prompt, spec) ==
    [name |-> n, version |-> v, kind |-> "authored_scene", asset |-> {}, prompt |-> prompt,
     status |-> IF Resolves(prompt, spec) THEN "analysed" ELSE "invalid"]

------------------------------------------------------------------------------
(* Creation *)

Room(n) == Len(templates) + n <= scope.templates

\* CreateTemplateFromUpload and CreateAuthoredTemplate read the latest version
\* and, for the second, the live definitions ...
CreateFromUpload(c, n, a) ==
    /\ call[c] = Idle /\ Room(1)
    /\ a \in assets
    /\ kinds[a.key] = "template"
    /\ call' = [call EXCEPT ![c] = Request("insert templates", 0,
                                           <<Uploaded(n, NextVersion(n), a)>>)]
    /\ UNCHANGED templateVars

CreateAuthored(c, n, prompt) ==
    /\ call[c] = Idle /\ Room(1)
    /\ call' = [call EXCEPT ![c] = Request("insert templates", 0,
                                           <<Authored(n, NextVersion(n), prompt, Live)>>)]
    /\ UNCHANGED templateVars

\* SeedStockPresets: every preset in one transaction.
SeedStockPresets(c) ==
    /\ call[c] = Idle /\ Room(Len(Presets))
    /\ call' = [call EXCEPT ![c] =
                   Request("insert templates", 0,
                           [p \in DOMAIN Presets |->
                               Authored(Presets[p], NextVersion(Presets[p]), "scene", Live)])]
    /\ UNCHANGED templateVars

\* ... and commit.  A version taken meanwhile is an IntegrityError, which
\* takes the whole transaction with it.
InsertTemplates(c) ==
    /\ call[c].op = "insert templates"
    /\ Room(Len(call[c].value))
    /\ IF \A r \in DOMAIN call[c].value :
              VersionIsFree(call[c].value[r].name, call[c].value[r].version)
       THEN Inserted(call[c].value)
       ELSE UNCHANGED templateVars
    /\ Ends(c)

------------------------------------------------------------------------------
(* TemplateAnalysisAgent.run *)

\* StartTemplateAnalysis reads the template and checks kind and status ...
StartAnalysis(c, t) ==
    /\ call[c] = Idle
    /\ templates[t].kind = "analysed_image"
    /\ templates[t].status = "uploaded"
    /\ call' = [call EXCEPT ![c] = Request("start analysing", t, NoPrompt)]
    /\ UNCHANGED templateVars

\* ... and commits.
StartAnalysisCommit(c) ==
    /\ call[c].op = "start analysing"
    /\ templates' = [templates EXCEPT ![call[c].on].status = "analysing"]
    /\ starts' = [starts EXCEPT ![call[c].on] = @ + 1]
    /\ Continues(c, "analyse", NoPrompt)

\* The bytes are read and the vision model writes a prompt; any failure of
\* either goes to FailTemplateAnalysis.
Analyse(c) ==
    /\ call[c].op = "analyse"
    /\ \/ /\ \E a \in templates[call[c].on].asset : storage[a.key] # NoBytes
          /\ \E prompt \in Prompts : Continues(c, "finish analysis", prompt)
       \/ Continues(c, "finish analysis", NoPrompt)
    /\ UNCHANGED templateVars

\* Where the analysis ends: FailTemplateAnalysis, or the placeholders decide.
Outcome(prompt) ==
    IF prompt = NoPrompt THEN "analysis_failed"
    ELSE IF Resolves(prompt, Live) THEN "analysed"
    ELSE "invalid"

\* FailTemplateAnalysis or CompleteTemplateAnalysis reads the row again,
\* refuses any status but analysing, and validates against the live spec ...
FinishAnalysis(c) ==
    /\ call[c].op = "finish analysis"
    /\ IF templates[call[c].on].status = "analysing"
       THEN Continues(c, "commit analysis",
                      [prompt |-> call[c].value, status |-> Outcome(call[c].value)])
       ELSE Ends(c)
    /\ UNCHANGED templateVars

\* ... and commits; only an analysed template takes the prompt.
FinishAnalysisCommit(c) ==
    /\ call[c].op = "commit analysis"
    /\ LET new == call[c].value
       IN  templates' = [templates EXCEPT
                            ![call[c].on].status = new.status,
                            ![call[c].on].prompt = IF new.status = "analysed" THEN new.prompt ELSE @]
    /\ Ends(c)
    /\ UNCHANGED starts

\* Mutant: a template is archived in whatever status.
ArchivableAny(t) == templates[t].status # "archived"

\* archive: only from analysed.
Archivable(t) == templates[t].status = "analysed"

\* ArchiveTemplate.
ArchiveTemplate(t) ==
    /\ Archivable(t)
    /\ templates' = [templates EXCEPT ![t].status = "archived"]
    /\ UNCHANGED <<starts, call>>

TemplatesNext ==
    \/ \E c \in Callers, n \in Names, a \in assets : CreateFromUpload(c, n, a)
    \/ \E c \in Callers, n \in Names, p \in Prompts : CreateAuthored(c, n, p)
    \/ \E c \in Callers : SeedStockPresets(c) \/ InsertTemplates(c)
    \/ \E c \in Callers, t \in DOMAIN templates : StartAnalysis(c, t)
    \/ \E c \in Callers :
          \/ StartAnalysisCommit(c) \/ Analyse(c)
          \/ FinishAnalysis(c) \/ FinishAnalysisCommit(c)
    \/ \E t \in DOMAIN templates : ArchiveTemplate(t)
=============================================================================

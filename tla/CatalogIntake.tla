---------------------------- MODULE CatalogIntake ----------------------------
(***************************************************************************)
(* What goes into a catalog: uploaded assets, the product with its         *)
(* validated photos, and the templates, composed.  Photos and templates    *)
(* share the assets and the object storage, products and templates the     *)
(* category's spec.                                                        *)
(***************************************************************************)
EXTENDS Templates

assetVars == <<kinds, storage, puts, assets>>
vars == <<assetVars, call, productVars, templateVars, scope>>

Init == AssetsInit /\ ProductsInit /\ TemplatesInit

\* The process stops: the request is gone, its open transaction rolled back,
\* what it committed and stored stays.
Crash(c) ==
    /\ call[c] # Idle
    /\ Ends(c)
    /\ UNCHANGED <<assetVars, productVars, templateVars>>

Next ==
    /\ \/ AssetsNext /\ UNCHANGED <<productVars, templateVars>>
       \/ ProductsNext /\ UNCHANGED <<assetVars, templateVars>>
       \/ TemplatesNext /\ UNCHANGED <<assetVars, productVars>>
       \/ \E c \in Callers : Crash(c)
    /\ UNCHANGED scope

Spec == Init /\ [][Next]_vars

------------------------------------------------------------------------------
(* Properties *)

TypeOK ==
    /\ scope \in Scopes
    /\ kinds \in [Keys -> UploadKinds \cup {NotRequested}]
    /\ storage \in [Keys -> Photos \cup {NoBytes}]
    /\ puts \in [Keys -> 0..scope.puts]
    /\ assets \subseteq AssetRows
    /\ revisions \in Seq(Specs) /\ Len(revisions) \in 1..(1 + scope.revisions)
    /\ versions \in Seq(Specs) /\ Len(versions) <= scope.versions
    /\ product \in {NoProduct} \cup [version: DOMAIN versions, filled: BOOLEAN,
                                     status: ProductStatuses]
    /\ variant \in BOOLEAN
    /\ images \in Seq(ImageRows) /\ Len(images) <= scope.images
    /\ templates \in Seq([name: Names, version: Nat, kind: {"analysed_image", "authored_scene"},
                          asset: SUBSET AssetRows, prompt: Prompts \cup {NoPrompt},
                          status: TemplateStatuses])
    /\ Len(templates) <= scope.templates
    /\ DOMAIN starts = DOMAIN templates

\* entities/asset.py: a row exists because real, safe bytes are in storage at
\* its storage_key.  It holds of every row whose presigned URL was PUT once:
\* no other upload, duplicate or refusal touches its bytes.  (A repeated PUT
\* of the same bytes finds its own row and deletes the bytes under it.)
AssetsBacked ==
    \A a \in assets : puts[a.key] = 1 => storage[a.key] = a.photo /\ a.photo \notin Unfit

\* A product is ready, or needs attention, only if once everything its pinned
\* version demands was there: the attribute, and a photo of its own (not the
\* variant's) that passed validation and was not a poor one; whatever the live
\* definitions, the order of the rows, crashes and the validations in flight do.
\* (A repeated PUT may replace the bytes that are inspected.)
ReadyWasEarned ==
    HasProduct /\ product.status # "draft" =>
        /\ "attribute" \in Pinned => product.filled
        /\ "slot" \in Pinned =>
              \E i \in DOMAIN images :
                  /\ ~images[i].variant /\ images[i].passed
                  /\ puts[images[i].asset.key] = 1 => images[i].asset.photo \notin Poor

\* A template that generation can select has a prompt whose placeholders all
\* resolved in the category's definitions, at some revision.
SelectableTemplatesResolve ==
    \A t \in DOMAIN templates :
        templates[t].status \in {"analysed", "archived"} =>
            /\ templates[t].prompt # NoPrompt
            /\ \E r \in DOMAIN revisions :
                  templates[t].prompt = "input" => "join" \in revisions[r]
            /\ templates[t].prompt # "malformed"

\* An archived template stays archived, even with its analysis still in
\* flight, unless two analyses of it were started at once.
ArchivedForGood ==
    [][\A t \in DOMAIN templates :
          templates[t].status = "archived" /\ starts'[t] <= 1 =>
              templates'[t].status = "archived"]_vars
=============================================================================

------------------------ MODULE CatalogIntakeProofs ------------------------
(***************************************************************************)
(* Theorems about CatalogIntake, and so about Assets, Products and         *)
(* Templates, for every value of their constants.                          *)
(***************************************************************************)
EXTENDS CatalogIntake, SequenceTheorems, FiniteSetTheorems, TLAPS

TemplateRows ==
    [name: Names, version: Nat, kind: {"analysed_image", "authored_scene"},
     asset: SUBSET AssetRows, prompt: Prompts \cup {NoPrompt}, status: TemplateStatuses]

\* The steps a request of each component can be before.
AssetOps == {"verify", "register", "insert"}
ValidationOps == {"start validating", "inspect", "complete validation", "commit validation"}
AnalysisOps == {"analyse", "finish analysis", "commit analysis"}
ProductOps == ValidationOps \cup {"recompute"}
TemplateOps == AnalysisOps \cup {"start analysing", "insert templates"}

Works(c, ops, on) == call[c].op \in ops /\ call[c].on = on

\* What a request in flight carries.
AssetRequests ==
    \A c \in Callers :
        /\ call[c].op \in AssetOps => call[c].on \in Keys
        /\ call[c].op \in {"register", "insert"} => call[c].value \in Photos
ProductRequests ==
    \A c \in Callers :
        /\ call[c].op \in ValidationOps => call[c].on \in DOMAIN images
        /\ call[c].op \in {"complete validation", "commit validation"} =>
              call[c].value \in {"ready", "rejected"}
        /\ call[c].op = "recompute" =>
              HasProduct /\ call[c].on \in ProductStatuses /\ call[c].value \in BOOLEAN
TemplateRequests ==
    \A c \in Callers :
        /\ call[c].op = "insert templates" => call[c].value \in Seq(TemplateRows)
        /\ call[c].op \in AnalysisOps \cup {"start analysing"} =>
              /\ call[c].on \in DOMAIN templates
              /\ templates[call[c].on].kind = "analysed_image"
        /\ call[c].op = "finish analysis" => call[c].value \in Prompts \cup {NoPrompt}
        /\ call[c].op = "commit analysis" =>
              call[c].value \in [prompt: Prompts \cup {NoPrompt},
                                 status: {"analysed", "invalid", "analysis_failed"}]

AssetTypes ==
    /\ kinds \in [Keys -> UploadKinds \cup {NotRequested}]
    /\ storage \in [Keys -> Photos \cup {NoBytes}]
    /\ puts \in [Keys -> 0..scope.puts]
    /\ assets \subseteq AssetRows
    /\ AssetRequests
ProductTypes ==
    /\ revisions \in Seq(Specs) /\ Len(revisions) \in 1..(1 + scope.revisions)
    /\ versions \in Seq(Specs) /\ Len(versions) <= scope.versions
    /\ product \in {NoProduct} \cup [version: DOMAIN versions, filled: BOOLEAN,
                                     status: ProductStatuses]
    /\ variant \in BOOLEAN
    /\ images \in Seq(ImageRows) /\ Len(images) <= scope.images
    /\ ProductRequests
TemplateTypes ==
    /\ templates \in Seq(TemplateRows) /\ Len(templates) <= scope.templates
    /\ starts \in Seq(Nat) /\ DOMAIN starts = DOMAIN templates
    /\ TemplateRequests

TypeInv ==
    /\ scope \in Scopes /\ DOMAIN call = Callers
    /\ AssetTypes /\ ProductTypes /\ TemplateTypes

\* One PUT, one owner of the bytes: the request that is checking them or, later,
\* the row.  The request holds what is in storage.
UploadsInv ==
    /\ \A k \in Keys : puts[k] = 0 =>
          /\ \A a \in assets : a.key # k
          /\ \A c \in Callers : ~Works(c, AssetOps, k)
    /\ \A k \in Keys : puts[k] = 1 =>
          /\ \A c, d \in Callers : Works(c, AssetOps, k) /\ Works(d, AssetOps, k) => c = d
          /\ \A c \in Callers : Works(c, {"register", "insert"}, k) =>
                call[c].value = storage[k] /\ call[c].value \notin Unfit
          /\ \A a \in assets : a.key = k =>
                /\ storage[k] = a.photo /\ a.photo \notin Unfit
                /\ \A c \in Callers : ~Works(c, AssetOps, k)

\* The photo of an image, unless its bytes were replaced.
Fit(i) == puts[images[i].asset.key] = 1 => images[i].asset.photo \notin Poor

Earned ==
    /\ "attribute" \in Pinned => product.filled
    /\ "slot" \in Pinned => \E i \in DOMAIN images : ~images[i].variant /\ images[i].passed /\ Fit(i)

ValidationInv ==
    /\ \A i \in DOMAIN images :
          /\ images[i].asset \in assets
          /\ images[i].status = "ready" => images[i].passed
          /\ images[i].passed => Fit(i)
    /\ \A c \in Callers :
          call[c].op \in {"complete validation", "commit validation"} /\ call[c].value = "ready" =>
              Fit(call[c].on)

ReadinessInv ==
    /\ HasProduct /\ product.status # "draft" => Earned
    /\ \A c \in Callers :
          call[c].op = "recompute" /\ (call[c].value \/ call[c].on # "draft") => Earned

\* The prompt's placeholders resolved at some revision.
Resolved(prompt) ==
    /\ prompt \notin {NoPrompt, "malformed"}
    /\ \E r \in DOMAIN revisions : prompt = "input" => "join" \in revisions[r]

PromptsInv ==
    /\ \A t \in DOMAIN templates :
          templates[t].status \in {"analysed", "archived"} => Resolved(templates[t].prompt)
    /\ \A c \in Callers :
          /\ call[c].op = "insert templates" =>
                \A r \in DOMAIN call[c].value :
                    call[c].value[r].status \in {"analysed", "archived"} => Resolved(call[c].value[r].prompt)
          /\ call[c].op = "commit analysis" /\ call[c].value.status = "analysed" =>
                Resolved(call[c].value.prompt)

AnalysisInv ==
    /\ \A t \in DOMAIN templates :
          /\ starts[t] = 0 =>
                /\ templates[t].kind = "analysed_image" => templates[t].status = "uploaded"
                /\ \A c \in Callers : ~Works(c, AnalysisOps, t)
          /\ starts[t] = 1 =>
                /\ \A c, d \in Callers : Works(c, AnalysisOps, t) /\ Works(d, AnalysisOps, t) => c = d
                /\ \A c \in Callers : Works(c, AnalysisOps, t) => templates[t].status = "analysing"
    /\ \A c \in Callers : call[c].op = "insert templates" =>
          \A r \in DOMAIN call[c].value :
              call[c].value[r].kind = "analysed_image" => call[c].value[r].status = "uploaded"

IntakeInv == TypeInv /\ UploadsInv /\ ValidationInv /\ ReadinessInv /\ PromptsInv /\ AnalysisInv

------------------------------------------------------------------------------
(* Sequences and requests *)

\* A table is empty at first.
LEMMA EmptyTable ==
    ASSUME NEW S
    PROVE  << >> \in Seq(S) /\ Len(<< >>) = 0 /\ DOMAIN << >> = {}
  OBVIOUS

\* A row is inserted at the end of a table.
LEMMA AppendRow ==
    ASSUME NEW S, NEW s \in Seq(S), NEW e \in S
    PROVE  /\ Append(s, e) \in Seq(S) /\ Len(Append(s, e)) = Len(s) + 1
           /\ DOMAIN Append(s, e) = DOMAIN s \cup {Len(s) + 1}
           /\ \A i \in DOMAIN s : Append(s, e)[i] = s[i]
           /\ Append(s, e)[Len(s) + 1] = e
           /\ Len(s) + 1 \notin DOMAIN s
  OBVIOUS

\* A row of a table is replaced.
LEMMA UpdateRow ==
    ASSUME NEW S, NEW s \in Seq(S), NEW i \in DOMAIN s, NEW e \in S
    PROVE  LET t == [s EXCEPT ![i] = e] IN
           /\ t \in Seq(S) /\ Len(t) = Len(s) /\ DOMAIN t = DOMAIN s
           /\ t[i] = e /\ \A j \in DOMAIN s \ {i} : t[j] = s[j]
  BY ExceptSeq

\* Rows are inserted together.
LEMMA ConcatRows ==
    ASSUME NEW S, NEW s \in Seq(S), NEW t \in Seq(S)
    PROVE  /\ s \o t \in Seq(S) /\ Len(s \o t) = Len(s) + Len(t)
           /\ DOMAIN s \subseteq DOMAIN (s \o t)
           /\ \A i \in DOMAIN s : (s \o t)[i] = s[i]
           /\ \A i \in DOMAIN (s \o t) \ DOMAIN s :
                 i - Len(s) \in DOMAIN t /\ (s \o t)[i] = t[i - Len(s)]
  BY ConcatProperties, LenProperties

\* The fields of a request.
LEMMA RequestFields ==
    /\ Idle.op = "idle"
    /\ \A op, on, value : LET r == Request(op, on, value) IN
          r.op = op /\ r.on = on /\ r.value = value
  BY DEF Idle, Request

\* Only caller c moves, to request r.
Moved(c, r) ==
    /\ DOMAIN call' = Callers
    /\ call'[c] = r
    /\ \A d \in Callers : d # c => call'[d] = call[d]

\* A step that assigns one request moves that caller alone.
LEMMA CallMoves ==
    ASSUME DOMAIN call = Callers, NEW c \in Callers, NEW r, call' = [call EXCEPT ![c] = r]
    PROVE  Moved(c, r)
  BY DEF Moved

\* A call that returns leaves its caller idle.
LEMMA EndsMoves ==
    ASSUME DOMAIN call = Callers, NEW c \in Callers, Ends(c)
    PROVE  Moved(c, Idle)
  BY DEF Moved, Ends

\* A call that goes on keeps what it is about.
LEMMA ContinuesMoves ==
    ASSUME DOMAIN call = Callers, NEW c \in Callers, NEW op, NEW value,
           Continues(c, op, value)
    PROVE  Moved(c, Request(op, call[c].on, value))
  BY DEF Moved, Continues

\* A step after which no caller is newly before one of these operations.
Foreign(ops) ==
    /\ DOMAIN call' = Callers
    /\ \A c \in Callers : call'[c] = call[c] \/ call'[c].op \notin ops

\* A caller that moves elsewhere leaves the other components' requests alone.
LEMMA MovedForeign ==
    ASSUME NEW c \in Callers, NEW r, NEW ops, Moved(c, r), r.op \notin ops
    PROVE  Foreign(ops)
  BY DEF Moved, Foreign

\* The same of a request of another component.
LEMMA RequestForeign ==
    ASSUME NEW c \in Callers, NEW op, NEW on, NEW value, NEW ops,
           Moved(c, Request(op, on, value)), op \notin ops
    PROVE  Foreign(ops)
  BY MovedForeign, RequestFields

\* The same of a call that returns.
LEMMA IdleForeign ==
    ASSUME NEW c \in Callers, NEW ops, Moved(c, Idle), "idle" \notin ops
    PROVE  Foreign(ops)
  BY MovedForeign, RequestFields

\* The same of a step without a caller.
LEMMA StillForeign ==
    ASSUME DOMAIN call = Callers, call' = call, NEW ops
    PROVE  Foreign(ops)
  BY DEF Foreign

\* A crash drops a request and makes none.
LEMMA CrashForeign ==
    ASSUME DOMAIN call = Callers, NEW c \in Callers, Crash(c)
    PROVE  Foreign(AssetOps \cup ProductOps \cup TemplateOps)
<1>1. Moved(c, Idle)
  BY EndsMoves DEF Crash
<1>2. Idle.op \notin AssetOps \cup ProductOps \cup TemplateOps
  BY RequestFields DEF AssetOps, ProductOps, ValidationOps, TemplateOps, AnalysisOps
<1>3. QED
  BY <1>1, <1>2, MovedForeign

\* The steps of uploads move no request of the other components.
LEMMA AssetsForeign ==
    ASSUME DOMAIN call = Callers, AssetsNext
    PROVE  Foreign(ProductOps \cup TemplateOps)
<1> DEFINE others == ProductOps \cup TemplateOps
<1>1. \A op \in {"idle", "verify", "register", "insert"} : op \notin others
  BY DEF ProductOps, ValidationOps, TemplateOps, AnalysisOps
<1> HIDE DEF others
<1>2. ASSUME NEW kind \in UploadKinds, RequestUpload(kind) PROVE Foreign(others)
  BY <1>2, StillForeign DEF RequestUpload
<1>3. ASSUME NEW c \in Callers, NEW k \in Keys, NEW p \in Photos, ReceiveUpload(c, k, p)
      PROVE  Foreign(others)
  BY <1>1, <1>3, CallMoves, RequestForeign, IdleForeign DEF ReceiveUpload
<1>4. ASSUME NEW c \in Callers, VerifyUpload(c) PROVE Foreign(others)
  <2>1. Ends(c) \/ Continues(c, "register", storage[call[c].on])
    BY <1>4 DEF VerifyUpload
  <2>2. QED
    BY <1>1, <2>1, EndsMoves, ContinuesMoves, RequestForeign, IdleForeign
<1>5. ASSUME NEW c \in Callers, RegisterRead(c) PROVE Foreign(others)
  <2>1. Ends(c) \/ Continues(c, "insert", call[c].value)
    BY <1>5 DEF RegisterRead
  <2>2. QED
    BY <1>1, <2>1, EndsMoves, ContinuesMoves, RequestForeign, IdleForeign
<1>6. ASSUME NEW c \in Callers, RegisterInsert(c) PROVE Foreign(others)
  BY <1>1, <1>6, EndsMoves, RequestForeign, IdleForeign DEF RegisterInsert
<1>7. QED
  BY <1>2, <1>3, <1>4, <1>5, <1>6 DEF AssetsNext, others

\* Nor do those of the product.
LEMMA ProductsForeign ==
    ASSUME DOMAIN call = Callers, ProductsNext
    PROVE  Foreign(AssetOps \cup TemplateOps)
<1> DEFINE others == AssetOps \cup TemplateOps
<1>1. \A op \in {"idle", "start validating", "inspect", "complete validation",
                 "commit validation", "recompute"} : op \notin others
  BY DEF TemplateOps, AnalysisOps, AssetOps
<1> HIDE DEF others
<1>2. ASSUME NEW c \in Callers, NEW op, NEW value, op \notin others, Continues(c, op, value)
      PROVE  Foreign(others)
  BY <1>2, ContinuesMoves, RequestForeign
<1>3. ASSUME NEW c \in Callers, Ends(c) PROVE Foreign(others)
  BY <1>1, <1>3, EndsMoves, IdleForeign
<1>4. ASSUME call' = call PROVE Foreign(others)
  BY <1>4, StillForeign
<1>5. ASSUME NEW c \in Callers, NEW i \in DOMAIN images, StartValidation(c, i)
      PROVE  Foreign(others)
  BY <1>1, <1>5, CallMoves, RequestForeign DEF StartValidation
<1>6. ASSUME NEW c \in Callers,
             StartValidationCommit(c) \/ InspectImage(c) \/ CompleteValidation(c)
      PROVE  Foreign(others)
  <2>1. Ends(c) \/ \E op, value : op \notin others /\ Continues(c, op, value)
    BY <1>1, <1>6 DEF StartValidationCommit, InspectImage, CompleteValidation
  <2>2. QED
    BY <1>2, <1>3, <2>1
<1>7. ASSUME NEW c \in Callers, CompleteValidationCommit(c) \/ RecomputeCommit(c)
      PROVE  Foreign(others)
  BY <1>3, <1>7 DEF CompleteValidationCommit, RecomputeCommit
<1>8. ASSUME NEW c \in Callers, RecomputeRead(c) PROVE Foreign(others)
  <2>1. PICK ready : call' = [call EXCEPT ![c] = Request("recompute", product.status, ready)]
    BY <1>8 DEF RecomputeRead
  <2>2. QED
    BY <1>1, <2>1, CallMoves, RequestForeign
<1>9. QED
  BY <1>4, <1>5, <1>6, <1>7, <1>8
  DEF ProductsNext, ReviseSpec, PublishSpec, CreateProduct, CreateProductVariant,
      CaptureProductInputImage, others

\* Nor do those of the templates.
LEMMA TemplatesForeign ==
    ASSUME DOMAIN call = Callers, TemplatesNext
    PROVE  Foreign(AssetOps \cup ProductOps)
<1> DEFINE others == AssetOps \cup ProductOps
<1>1. \A op \in {"idle", "start analysing", "analyse", "finish analysis", "commit analysis",
                 "insert templates"} : op \notin others
  BY DEF ProductOps, ValidationOps, AssetOps
<1> HIDE DEF others
<1>3. ASSUME NEW c \in Callers, NEW on, NEW value,
             call' = [call EXCEPT ![c] = Request("insert templates", on, value)]
      PROVE  Foreign(others)
  BY <1>1, <1>3, CallMoves, RequestForeign, IdleForeign
<1>4. ASSUME NEW c \in Callers, NEW t \in DOMAIN templates, StartAnalysis(c, t)
      PROVE  Foreign(others)
  BY <1>1, <1>4, CallMoves, RequestForeign, IdleForeign DEF StartAnalysis
<1>5. ASSUME NEW c \in Callers, NEW op, NEW value, op \notin others, Continues(c, op, value)
      PROVE  Foreign(others)
  BY <1>5, ContinuesMoves, RequestForeign, IdleForeign
<1>6. ASSUME NEW c \in Callers, Ends(c) PROVE Foreign(others)
  BY <1>1, <1>6, EndsMoves, RequestForeign, IdleForeign
<1>7. ASSUME NEW t \in DOMAIN templates, ArchiveTemplate(t) PROVE Foreign(others)
  BY <1>7, StillForeign DEF ArchiveTemplate
<1>8. ASSUME NEW c \in Callers, StartAnalysisCommit(c) \/ Analyse(c) \/ FinishAnalysis(c)
      PROVE  Foreign(others)
  <2>1. Ends(c) \/ \E op, value : op \notin others /\ Continues(c, op, value)
    BY <1>1, <1>8 DEF StartAnalysisCommit, Analyse, FinishAnalysis
  <2>2. QED
    BY <1>5, <1>6, <2>1
<1>9. ASSUME NEW c \in Callers, SeedStockPresets(c) \/ InsertTemplates(c) \/ FinishAnalysisCommit(c)
      PROVE  Foreign(others)
  BY <1>3, <1>6, <1>9 DEF SeedStockPresets, InsertTemplates, FinishAnalysisCommit
<1>10. ASSUME NEW c \in Callers, NEW n \in Names, NEW a \in assets, CreateFromUpload(c, n, a)
       PROVE  Foreign(others)
  BY <1>3, <1>10 DEF CreateFromUpload
<1>11. ASSUME NEW c \in Callers, NEW n \in Names, NEW p \in Prompts, CreateAuthored(c, n, p)
       PROVE  Foreign(others)
  BY <1>3, <1>11 DEF CreateAuthored
<1>12. QED
  BY <1>4, <1>7, <1>8, <1>9, <1>10, <1>11 DEF TemplatesNext, others

------------------------------------------------------------------------------
(* Types *)

\* The bounds of the model are numbers.
LEMMA ScopeFacts ==
    ASSUME scope \in Scopes
    PROVE  /\ scope.uploads \in Nat /\ scope.uploads <= MaxKeys
           /\ scope.puts \in Nat /\ scope.revisions \in Nat /\ scope.versions \in Nat
           /\ scope.images \in Nat /\ scope.templates \in Nat
  BY AssetAssumptions DEF Bounds

\* The steps of the uploads keep their types.
LEMMA AssetTypesKept ==
    ASSUME TypeInv, AssetsNext, scope' = scope
    PROVE  AssetTypes'
<1> USE DEF TypeInv, AssetTypes
<1>1. ASSUME NEW kind \in UploadKinds, RequestUpload(kind) PROVE AssetTypes'
  <2>1. PICK k \in 1..scope.uploads : kinds' = [kinds EXCEPT ![k] = kind]
    BY <1>1 DEF RequestUpload
  <2>2. k \in Keys
    BY <2>1, ScopeFacts, AssetAssumptions DEF Keys
  <2>3. AssetRequests'
    BY <1>1 DEF RequestUpload, AssetRequests
  <2>4. QED
    BY <1>1, <2>1, <2>2, <2>3 DEF RequestUpload
<1>2. ASSUME NEW c \in Callers, NEW k \in Keys, NEW p \in Photos, ReceiveUpload(c, k, p)
      PROVE  AssetTypes'
  <2>1. puts' \in [Keys -> 0..scope.puts]
    BY <1>2, ScopeFacts DEF ReceiveUpload
  <2>2. Moved(c, Request("verify", k, NoBytes))
    BY <1>2, CallMoves DEF ReceiveUpload
  <2>3. AssetRequests'
    BY <2>2, RequestFields DEF AssetRequests, Moved
  <2>4. QED
    BY <1>2, <2>1, <2>3 DEF ReceiveUpload, Written
<1>3. ASSUME NEW c \in Callers, VerifyUpload(c) PROVE AssetTypes'
  <2>1. call[c].on \in Keys
    BY <1>3 DEF VerifyUpload, AssetRequests, AssetOps
  <2>2. CASE Ends(c) /\ storage' = Written(call[c].on, NoBytes)
    <3>1. Moved(c, Idle)
      BY <2>2, EndsMoves
    <3>2. AssetRequests'
      BY <3>1, RequestFields DEF AssetRequests, Moved, AssetOps
    <3>3. QED
      BY <1>3, <2>1, <2>2, <3>2 DEF VerifyUpload, Written
  <2>3. CASE /\ storage[call[c].on] # NoBytes
             /\ Continues(c, "register", storage[call[c].on]) /\ UNCHANGED storage
    <3>1. Moved(c, Request("register", call[c].on, storage[call[c].on]))
      BY <2>3, ContinuesMoves
    <3>2. AssetRequests'
      BY <2>1, <2>3, <3>1, RequestFields DEF AssetRequests, Moved
    <3>3. QED
      BY <1>3, <2>3, <3>2 DEF VerifyUpload
  <2>4. QED
    BY <1>3, <2>2, <2>3 DEF VerifyUpload
<1>4. ASSUME NEW c \in Callers, RegisterRead(c) PROVE AssetTypes'
  <2>1. call[c].on \in Keys /\ call[c].value \in Photos
    BY <1>4 DEF RegisterRead, AssetRequests, AssetOps
  <2>2. CASE Ends(c) /\ storage' = Written(call[c].on, NoBytes)
    <3>1. Moved(c, Idle)
      BY <2>2, EndsMoves
    <3>2. AssetRequests'
      BY <3>1, RequestFields DEF AssetRequests, Moved, AssetOps
    <3>3. QED
      BY <1>4, <2>1, <2>2, <3>2 DEF RegisterRead, Written
  <2>3. CASE Continues(c, "insert", call[c].value) /\ UNCHANGED storage
    <3>1. Moved(c, Request("insert", call[c].on, call[c].value))
      BY <2>3, ContinuesMoves
    <3>2. AssetRequests'
      BY <2>1, <3>1, RequestFields DEF AssetRequests, Moved
    <3>3. QED
      BY <1>4, <2>3, <3>2 DEF RegisterRead
  <2>4. QED
    BY <1>4, <2>2, <2>3 DEF RegisterRead, Discarded
<1>5. ASSUME NEW c \in Callers, RegisterInsert(c) PROVE AssetTypes'
  <2>1. call[c].on \in Keys /\ call[c].value \in Photos
    BY <1>5 DEF RegisterInsert, AssetRequests, AssetOps
  <2>2. Moved(c, Idle)
    BY <1>5, EndsMoves DEF RegisterInsert
  <2>3. AssetRequests'
    BY <2>2, RequestFields DEF AssetRequests, Moved, AssetOps
  <2>4. [key |-> call[c].on, photo |-> call[c].value] \in AssetRows
    BY <2>1 DEF AssetRows
  <2>5. assets' \subseteq AssetRows
    BY <1>5, <2>4 DEF RegisterInsert
  <2>6. QED
    BY <1>5, <2>3, <2>5 DEF RegisterInsert
<1>6. QED
  BY <1>1, <1>2, <1>3, <1>4, <1>5 DEF AssetsNext

\* Steps of the other components leave what an upload relies on.
LEMMA AssetTypesFramed ==
    ASSUME TypeInv, UNCHANGED <<assetVars, scope>>, Foreign(AssetOps)
    PROVE  AssetTypes'
<1>1. AssetRequests'
  BY DEF TypeInv, AssetTypes, AssetRequests, Foreign, AssetOps
<1>2. QED
  BY <1>1 DEF TypeInv, AssetTypes, assetVars

\* A caller's next request is well formed when its parts are.
LEMMA ProductRequestsMoved ==
    ASSUME ProductRequests, NEW c \in Callers, NEW op, NEW on, NEW value,
           Moved(c, Request(op, on, value)),
           DOMAIN images \subseteq DOMAIN images', HasProduct => HasProduct',
           op \in ValidationOps => on \in DOMAIN images',
           op \in {"complete validation", "commit validation"} => value \in {"ready", "rejected"},
           op = "recompute" => HasProduct' /\ on \in ProductStatuses /\ value \in BOOLEAN
    PROVE  ProductRequests'
<1> PICK r : r = Request(op, on, value)
  OBVIOUS
<1>1. r.op = op /\ r.on = on /\ r.value = value
  BY Zenon DEF Request
<1>2. call'[c] = r /\ \A d \in Callers : d # c => call'[d] = call[d]
  BY DEF Moved
<1>3. SUFFICES ASSUME NEW d \in Callers
               PROVE  /\ call'[d].op \in ValidationOps => call'[d].on \in DOMAIN images'
                      /\ call'[d].op \in {"complete validation", "commit validation"} =>
                            call'[d].value \in {"ready", "rejected"}
                      /\ call'[d].op = "recompute" =>
                            /\ HasProduct' /\ call'[d].on \in ProductStatuses
                            /\ call'[d].value \in BOOLEAN
  BY DEF ProductRequests, ValidationOps
<1>4. CASE d = c
  <2>1. call'[d].op = op /\ call'[d].on = on /\ call'[d].value = value
    BY <1>1, <1>2, <1>4
  <2>2. QED
    BY <2>1, Zenon
<1>5. CASE d # c
  BY <1>2, <1>5 DEF ProductRequests
<1>6. QED
  BY <1>4, <1>5

\* The steps of the products keep their types.
LEMMA ProductTypesKept ==
    ASSUME TypeInv, ProductsNext, UNCHANGED <<assetVars, scope>>
    PROVE  ProductTypes'
<1> USE DEF TypeInv, ProductTypes
<1>1. ASSUME NEW d \in Demands, ReviseSpec(d) PROVE ProductTypes'
  <2>1. Live \in Specs /\ Len(revisions) \in Nat
    BY DEF Live
  <2>2. PICK new \in Specs : revisions' = Append(revisions, new)
    BY <1>1, <2>1 DEF ReviseSpec, Specs
  <2>3. ProductRequests'
    BY <1>1 DEF ReviseSpec, ProductRequests, HasProduct
  <2>4. revisions' \in Seq(Specs) /\ Len(revisions') = Len(revisions) + 1
    BY <2>2, AppendRow
  <2>5. QED
    BY <1>1, <2>1, <2>3, <2>4, ScopeFacts DEF ReviseSpec
<1>2. ASSUME PublishSpec PROVE ProductTypes'
  <2>1. Live \in Specs
    BY DEF Live
  <2>2. /\ versions' \in Seq(Specs) /\ Len(versions') = Len(versions) + 1
        /\ DOMAIN versions \subseteq DOMAIN versions'
    BY <1>2, <2>1, AppendRow DEF PublishSpec
  <2>3. ProductRequests'
    BY <1>2 DEF PublishSpec, ProductRequests, HasProduct
  <2>4. product' \in {NoProduct} \cup [version: DOMAIN versions', filled: BOOLEAN,
                                      status: ProductStatuses]
    BY <1>2, <2>2 DEF PublishSpec
  <2>5. Len(versions) \in Nat
    OBVIOUS
  <2>6. QED
    BY <1>2, <2>2, <2>3, <2>4, <2>5, ScopeFacts DEF PublishSpec
<1>3. ASSUME NEW filled \in BOOLEAN, CreateProduct(filled) PROVE ProductTypes'
  <2>1. Len(versions) \in DOMAIN versions
    BY <1>3 DEF CreateProduct
  <2>2. product' \in [version: DOMAIN versions, filled: BOOLEAN, status: ProductStatuses]
    BY <1>3, <2>1 DEF CreateProduct, ProductStatuses
  <2>3. \A c \in Callers : call[c].op # "recompute"
    BY <1>3 DEF CreateProduct, ProductRequests
  <2>4. ProductRequests'
    BY <1>3, <2>3 DEF CreateProduct, ProductRequests
  <2>5. QED
    BY <1>3, <2>2, <2>4 DEF CreateProduct
<1>4. ASSUME CreateProductVariant PROVE ProductTypes'
  <2>1. ProductRequests'
    BY <1>4 DEF CreateProductVariant, ProductRequests, HasProduct
  <2>2. QED
    BY <1>4, <2>1 DEF CreateProductVariant
<1>5. ASSUME NEW a \in assets, NEW v \in BOOLEAN, CaptureProductInputImage(a, v)
      PROVE  ProductTypes'
  <2>1. a \in AssetRows
    BY DEF AssetTypes
  <2>2. [asset |-> a, variant |-> v, status |-> "captured", passed |-> FALSE] \in ImageRows
    BY <2>1 DEF ImageRows, ImageStatuses
  <2>3. /\ images' \in Seq(ImageRows) /\ Len(images') = Len(images) + 1
        /\ DOMAIN images \subseteq DOMAIN images'
    BY <1>5, <2>2, AppendRow DEF CaptureProductInputImage
  <2>4. ProductRequests'
    BY <1>5, <2>3 DEF CaptureProductInputImage, ProductRequests, HasProduct
  <2>5. Len(images) \in Nat
    OBVIOUS
  <2>6. QED
    BY <1>5, <2>3, <2>4, <2>5, ScopeFacts DEF CaptureProductInputImage
<1>6. ASSUME NEW c \in Callers, NEW i \in DOMAIN images, StartValidation(c, i)
      PROVE  ProductTypes'
  <2>1. Moved(c, Request("start validating", i, NoBytes))
    BY <1>6, CallMoves DEF StartValidation
  <2>2. ProductRequests'
    BY <1>6, <2>1, ProductRequestsMoved DEF StartValidation, productVars, HasProduct
  <2>3. QED
    BY <1>6, <2>2 DEF StartValidation, productVars
<1>7. ASSUME NEW c \in Callers, StartValidationCommit(c) PROVE ProductTypes'
  <2>1. Moved(c, Request("inspect", call[c].on, NoBytes))
    BY <1>7, ContinuesMoves DEF StartValidationCommit
  <2>2. call[c].on \in DOMAIN images
    BY <1>7 DEF StartValidationCommit, ProductRequests, ValidationOps
  <2>3. PICK row \in ImageRows : images' = [images EXCEPT ![call[c].on] = row]
    <3>1. images[call[c].on] \in ImageRows
      BY <2>2
    <3>2. [images[call[c].on] EXCEPT !.status = "validating"] \in ImageRows
      BY <3>1 DEF ImageRows, ImageStatuses
    <3>3. QED
      BY <1>7, <3>2 DEF StartValidationCommit
  <2>4. images' \in Seq(ImageRows) /\ Len(images') = Len(images) /\ DOMAIN images' = DOMAIN images
    BY <2>2, <2>3, UpdateRow
  <2>5. ProductRequests'
    BY <1>7, <2>1, <2>2, <2>4, ProductRequestsMoved DEF StartValidationCommit, HasProduct
  <2>6. QED
    BY <1>7, <2>4, <2>5 DEF StartValidationCommit
<1>8. ASSUME NEW c \in Callers, InspectImage(c) PROVE ProductTypes'
  <2>1. PICK verdict \in {"ready", "rejected"} : Continues(c, "complete validation", verdict)
    BY <1>8 DEF InspectImage
  <2>2. Moved(c, Request("complete validation", call[c].on, verdict))
    BY <2>1, ContinuesMoves
  <2>3. call[c].on \in DOMAIN images
    BY <1>8 DEF InspectImage, ProductRequests, ValidationOps
  <2>4. ProductRequests'
    BY <1>8, <2>2, <2>3, ProductRequestsMoved DEF InspectImage, productVars, HasProduct
  <2>5. QED
    BY <1>8, <2>4 DEF InspectImage, productVars
<1>9. ASSUME NEW c \in Callers, CompleteValidation(c) PROVE ProductTypes'
  <2>1. call[c].on \in DOMAIN images /\ call[c].value \in {"ready", "rejected"}
    BY <1>9 DEF CompleteValidation, ProductRequests, ValidationOps
  <2>2. \/ Moved(c, Request("commit validation", call[c].on, call[c].value))
        \/ Moved(c, Idle)
    BY <1>9, ContinuesMoves, EndsMoves DEF CompleteValidation
  <2>3. ProductRequests'
    <3>1. CASE Moved(c, Idle)
      BY <1>9, <3>1, RequestFields
      DEF CompleteValidation, productVars, ProductRequests, Moved, HasProduct, ValidationOps
    <3>2. CASE Moved(c, Request("commit validation", call[c].on, call[c].value))
      BY <1>9, <2>1, <3>2, ProductRequestsMoved DEF CompleteValidation, productVars, HasProduct
    <3>3. QED
      BY <2>2, <3>1, <3>2
  <2>4. QED
    BY <1>9, <2>3 DEF CompleteValidation, productVars
<1>10. ASSUME NEW c \in Callers, CompleteValidationCommit(c) PROVE ProductTypes'
  <2>1. call[c].on \in DOMAIN images /\ call[c].value \in {"ready", "rejected"}
    BY <1>10 DEF CompleteValidationCommit, ProductRequests, ValidationOps
  <2>2. Moved(c, Idle)
    BY <1>10, EndsMoves DEF CompleteValidationCommit
  <2>3. PICK row \in ImageRows : images' = [images EXCEPT ![call[c].on] = row]
    <3>1. images[call[c].on] \in ImageRows
      BY <2>1
    <3>2. PICK passed \in BOOLEAN : passed = (images[call[c].on].passed \/ call[c].value = "ready")
      BY Zenon
    <3>3. [images[call[c].on] EXCEPT !.status = call[c].value, !.passed = passed] \in ImageRows
      BY <2>1, <3>1 DEF ImageRows, ImageStatuses
    <3>4. images' = [images EXCEPT ![call[c].on] =
                        [images[call[c].on] EXCEPT !.status = call[c].value, !.passed = passed]]
      BY <1>10, <2>1, <3>1, <3>2 DEF CompleteValidationCommit, ImageRows
    <3>5. QED
      BY <3>3, <3>4
  <2>4. images' \in Seq(ImageRows) /\ Len(images') = Len(images) /\ DOMAIN images' = DOMAIN images
    BY <2>1, <2>3, UpdateRow
  <2>5. ProductRequests'
    BY <1>10, <2>2, <2>4, RequestFields
    DEF CompleteValidationCommit, ProductRequests, Moved, HasProduct, ValidationOps
  <2>6. QED
    BY <1>10, <2>4, <2>5 DEF CompleteValidationCommit
<1>11. ASSUME NEW c \in Callers, RecomputeRead(c) PROVE ProductTypes'
  <2>1. HasProduct /\ product.status \in ProductStatuses
    BY <1>11 DEF RecomputeRead, HasProduct
  <2>2. PICK ready \in BOOLEAN : call' = [call EXCEPT ![c] = Request("recompute", product.status, ready)]
    BY <1>11 DEF RecomputeRead
  <2>3. Moved(c, Request("recompute", product.status, ready))
    BY <2>2, CallMoves
  <2>4. ProductRequests'
    BY <1>11, <2>1, <2>3, ProductRequestsMoved
    DEF RecomputeRead, productVars, HasProduct, ValidationOps
  <2>5. QED
    BY <1>11, <2>4 DEF RecomputeRead, productVars
<1>12. ASSUME NEW c \in Callers, RecomputeCommit(c) PROVE ProductTypes'
  <2>1. HasProduct
    BY <1>12 DEF RecomputeCommit, ProductRequests
  <2>2. PICK new \in ProductStatuses :
            product' = product \/ product' = [product EXCEPT !.status = new]
    BY <1>12 DEF RecomputeCommit, ProductStatuses, Regressed
  <2>3. product' \in [version: DOMAIN versions, filled: BOOLEAN, status: ProductStatuses]
    BY <2>1, <2>2 DEF HasProduct
  <2>4. product' # NoProduct
    BY <2>3 DEF NoProduct, ProductStatuses
  <2>5. Moved(c, Idle)
    BY <1>12, EndsMoves DEF RecomputeCommit
  <2>6. ProductRequests'
    BY <1>12, <2>4, <2>5, RequestFields
    DEF RecomputeCommit, ProductRequests, Moved, HasProduct, ValidationOps
  <2>7. QED
    BY <1>12, <2>3, <2>6 DEF RecomputeCommit
<1>13. QED
  BY <1>1, <1>2, <1>3, <1>4, <1>5, <1>6, <1>7, <1>8, <1>9, <1>10, <1>11, <1>12 DEF ProductsNext

\* Steps of the other components leave what the product relies on.
LEMMA ProductTypesFramed ==
    ASSUME TypeInv, UNCHANGED <<productVars, scope>>, Foreign(ProductOps)
    PROVE  ProductTypes'
<1>1. ProductRequests'
  BY DEF TypeInv, ProductTypes, ProductRequests, Foreign, ProductOps, ValidationOps, HasProduct,
         productVars
<1>2. QED
  BY <1>1 DEF TypeInv, ProductTypes, productVars

\* No row of a template goes away or changes its kind.
KindsKept ==
    \A t \in DOMAIN templates : t \in DOMAIN templates' /\ templates'[t].kind = templates[t].kind

\* A request of the templates that carries what its operation expects.
LEMMA TemplateRequestsMoved ==
    ASSUME TemplateRequests, KindsKept, NEW c \in Callers, NEW op, NEW on, NEW value,
           Moved(c, Request(op, on, value)),
           op = "insert templates" => value \in Seq(TemplateRows),
           op \in AnalysisOps \cup {"start analysing"} =>
               on \in DOMAIN templates' /\ templates'[on].kind = "analysed_image",
           op = "finish analysis" => value \in Prompts \cup {NoPrompt},
           op = "commit analysis" =>
               value \in [prompt: Prompts \cup {NoPrompt},
                          status: {"analysed", "invalid", "analysis_failed"}]
    PROVE  TemplateRequests'
<1> DEFINE decided == [prompt: Prompts \cup {NoPrompt},
                       status: {"analysed", "invalid", "analysis_failed"}]
<1> PICK r : r = Request(op, on, value)
  OBVIOUS
<1>1. r.op = op /\ r.on = on /\ r.value = value
  BY Zenon DEF Request
<1>2. call'[c] = r /\ \A d \in Callers : d # c => call'[d] = call[d]
  BY DEF Moved
<1>3. SUFFICES ASSUME NEW d \in Callers
               PROVE  /\ call'[d].op = "insert templates" => call'[d].value \in Seq(TemplateRows)
                      /\ call'[d].op \in AnalysisOps \cup {"start analysing"} =>
                            /\ call'[d].on \in DOMAIN templates'
                            /\ templates'[call'[d].on].kind = "analysed_image"
                      /\ call'[d].op = "finish analysis" =>
                            call'[d].value \in Prompts \cup {NoPrompt}
                      /\ call'[d].op = "commit analysis" => call'[d].value \in decided
  BY Zenon DEF TemplateRequests, AnalysisOps, TemplateRows
<1> HIDE DEF decided
<1>4. CASE d = c
  <2>1. call'[d].op = op /\ call'[d].on = on /\ call'[d].value = value
    BY <1>1, <1>2, <1>4
  <2>2. QED
    BY <2>1, Zenon DEF decided
<1>5. CASE d # c
  <2>1. call'[d] = call[d]
    BY <1>2, <1>5
  <2>2. /\ call[d].op = "insert templates" => call[d].value \in Seq(TemplateRows)
        /\ call[d].op \in AnalysisOps \cup {"start analysing"} =>
              call[d].on \in DOMAIN templates /\ templates[call[d].on].kind = "analysed_image"
        /\ call[d].op = "finish analysis" => call[d].value \in Prompts \cup {NoPrompt}
        /\ call[d].op = "commit analysis" => call[d].value \in decided
    BY Zenon DEF TemplateRequests, decided
  <2>3. QED
    BY <2>1, <2>2 DEF KindsKept
<1>6. QED
  BY <1>4, <1>5

\* A call that returns carries nothing.
LEMMA TemplateRequestsEnded ==
    ASSUME TemplateRequests, KindsKept, NEW c \in Callers, Moved(c, Idle)
    PROVE  TemplateRequests'
<1>1. call'[c].op = "idle"
  BY RequestFields DEF Moved
<1>2. QED
  <2>1. ASSUME NEW d \in Callers
        PROVE  \/ call'[d].op = "idle"
               \/ call'[d] = call[d] /\ (call[d].op \in AnalysisOps \cup {"start analysing"} =>
                     /\ call[d].on \in DOMAIN templates'
                     /\ templates'[call[d].on].kind = "analysed_image")
    BY <1>1 DEF Moved, TemplateRequests, KindsKept
  <2>2. "idle" \notin AnalysisOps \cup {"start analysing"}
    BY DEF AnalysisOps
  <2>3. QED
    BY <2>1, <2>2, Zenon DEF TemplateRequests

\* next_version is a number, whatever the name's rows are.
LEMMA NextVersionType ==
    ASSUME templates \in Seq(TemplateRows), NEW n
    PROVE  NextVersion(n) \in Nat
<1> DEFINE named == {t \in DOMAIN templates : templates[t].name = n}
<1>1. IsFiniteSet(1..Len(templates))
  BY FS_Interval
<1>2. IsFiniteSet(named)
  BY <1>1, FS_Subset, named \subseteq 1..Len(templates)
<1>3. QED
  BY <1>2, FS_CardinalityType DEF NextVersion

\* An authored row is analysed if the prompt resolves, else invalid.
LEMMA AuthoredFacts ==
    ASSUME NEW n \in Names, NEW v \in Nat, NEW prompt \in Prompts, NEW spec
    PROVE  LET row == Authored(n, v, prompt, spec) IN
           /\ row \in TemplateRows /\ row.kind = "authored_scene"
           /\ row.prompt = prompt /\ row.status \in {"analysed", "invalid"}
           /\ row.status = "analysed" => Resolves(prompt, spec)
<1> PICK status \in {"analysed", "invalid"} :
        /\ status = (IF Resolves(prompt, spec) THEN "analysed" ELSE "invalid")
        /\ status = "analysed" => Resolves(prompt, spec)
  OBVIOUS
<1> DEFINE row == [name |-> n, version |-> v, kind |-> "authored_scene", asset |-> {},
                   prompt |-> prompt, status |-> status]
<1>1. Authored(n, v, prompt, spec) = row
  BY DEF Authored
<1>2. row \in TemplateRows
  BY DEF TemplateRows, TemplateStatuses
<1>3. QED
  BY <1>1, <1>2

\* The row an upload of a template inserts.
LEMMA UploadedFacts ==
    ASSUME NEW n \in Names, NEW v \in Nat, NEW a \in AssetRows
    PROVE  LET row == Uploaded(n, v, a) IN
           row \in TemplateRows /\ row.kind = "analysed_image" /\ row.status = "uploaded"
  BY DEF Uploaded, TemplateRows, TemplateStatuses

\* A step that replaces the status and perhaps the prompt of one row.
Updated(t, status, prompt) ==
    templates' = [templates EXCEPT ![t] =
                     [templates[t] EXCEPT !.status = status, !.prompt = prompt]]

\* The UPDATE of one template touches its status and its prompt alone.
LEMMA TemplateUpdated ==
    ASSUME templates \in Seq(TemplateRows), NEW t \in DOMAIN templates,
           NEW status \in TemplateStatuses, NEW prompt \in Prompts \cup {NoPrompt},
           Updated(t, status, prompt)
    PROVE  /\ templates' \in Seq(TemplateRows) /\ Len(templates') = Len(templates)
           /\ DOMAIN templates' = DOMAIN templates
           /\ KindsKept
           /\ templates'[t].status = status /\ templates'[t].prompt = prompt
           /\ \A u \in DOMAIN templates : u # t => templates'[u] = templates[u]
<1> PICK row : row = [templates[t] EXCEPT !.status = status, !.prompt = prompt]
  OBVIOUS
<1>1. templates[t] \in TemplateRows
  OBVIOUS
<1>2. /\ row \in TemplateRows /\ row.kind = templates[t].kind
      /\ row.status = status /\ row.prompt = prompt
  BY <1>1 DEF TemplateRows
<1>3. templates' = [templates EXCEPT ![t] = row]
  BY DEF Updated
<1>4. /\ templates' \in Seq(TemplateRows) /\ Len(templates') = Len(templates)
      /\ DOMAIN templates' = DOMAIN templates
      /\ templates'[t] = row /\ \A u \in DOMAIN templates \ {t} : templates'[u] = templates[u]
  BY <1>2, <1>3, UpdateRow
<1>5. QED
  BY <1>2, <1>4 DEF KindsKept

\* The rows that a creation is about to insert.
LEMMA PresetRows ==
    ASSUME templates \in Seq(TemplateRows), NEW rows,
           rows = [p \in DOMAIN Presets |->
                      Authored(Presets[p], NextVersion(Presets[p]), "scene", Live)]
    PROVE  rows \in Seq(TemplateRows)
<1>1. Presets \in Seq(Names) /\ Len(Presets) \in Nat /\ DOMAIN Presets = 1..Len(Presets)
  BY TemplateAssumptions
<1>2. \A p \in 1..Len(Presets) : rows[p] \in TemplateRows
  BY <1>1, NextVersionType, AuthoredFacts DEF Prompts
<1>3. QED
  BY <1>1, <1>2, IsASeq

\* The rows of an upload are appended and none is touched.
LEMMA InsertedFacts ==
    ASSUME TemplateTypes, NEW rows \in Seq(TemplateRows), Inserted(rows)
    PROVE  /\ templates' \in Seq(TemplateRows) /\ Len(templates') = Len(templates) + Len(rows)
           /\ starts' \in Seq(Nat) /\ DOMAIN starts' = DOMAIN templates'
           /\ \A t \in DOMAIN templates :
                 t \in DOMAIN templates' /\ templates'[t] = templates[t] /\ starts'[t] = starts[t]
           /\ \A t \in DOMAIN templates' \ DOMAIN templates :
                 starts'[t] = 0 /\ \E r \in DOMAIN rows : templates'[t] = rows[r]
           /\ KindsKept
<1> PICK zeros : zeros = [r \in DOMAIN rows |-> 0]
  OBVIOUS
<1>1. /\ Len(rows) \in Nat /\ DOMAIN rows = 1..Len(rows)
      /\ Len(templates) \in Nat /\ DOMAIN templates = 1..Len(templates)
      /\ Len(starts) \in Nat /\ DOMAIN starts = 1..Len(starts)
  BY DEF TemplateTypes
<1>2. zeros \in Seq(Nat) /\ Len(zeros) = Len(rows) /\ DOMAIN zeros = DOMAIN rows
  BY <1>1
<1>3. Len(starts) = Len(templates)
  BY <1>1 DEF TemplateTypes
<1>4. templates' = templates \o rows /\ starts' = starts \o zeros
  BY DEF Inserted
<1>5. /\ templates' \in Seq(TemplateRows) /\ Len(templates') = Len(templates) + Len(rows)
      /\ DOMAIN templates \subseteq DOMAIN templates'
      /\ \A t \in DOMAIN templates : templates'[t] = templates[t]
      /\ \A t \in DOMAIN templates' \ DOMAIN templates :
            t - Len(templates) \in DOMAIN rows /\ templates'[t] = rows[t - Len(templates)]
  BY <1>4, ConcatRows DEF TemplateTypes
<1>6. /\ starts' \in Seq(Nat) /\ Len(starts') = Len(starts) + Len(zeros)
      /\ \A t \in DOMAIN starts : starts'[t] = starts[t]
      /\ \A t \in DOMAIN starts' \ DOMAIN starts :
            t - Len(starts) \in DOMAIN zeros /\ starts'[t] = zeros[t - Len(starts)]
  BY <1>2, <1>4, ConcatRows DEF TemplateTypes
<1>7. DOMAIN starts' = DOMAIN templates'
  BY <1>2, <1>3, <1>5, <1>6
<1>8. \A t \in DOMAIN templates' \ DOMAIN templates : starts'[t] = 0
  BY <1>2, <1>6, <1>7 DEF TemplateTypes
<1>9. QED
  BY <1>5, <1>6, <1>7, <1>8 DEF KindsKept, TemplateTypes

\* The steps of the templates keep their types.
LEMMA TemplateTypesKept ==
    ASSUME TypeInv, TemplatesNext, UNCHANGED <<assetVars, productVars, scope>>
    PROVE  TemplateTypes'
<1> USE DEF TypeInv, TemplateTypes
<1>1. ASSUME UNCHANGED templateVars PROVE KindsKept
  BY <1>1 DEF templateVars, KindsKept
<1>2. ASSUME NEW c \in Callers, NEW rows \in Seq(TemplateRows), UNCHANGED templateVars,
             call' = [call EXCEPT ![c] = Request("insert templates", 0, rows)]
      PROVE  TemplateTypes'
  <2>1. Moved(c, Request("insert templates", 0, rows))
    BY <1>2, CallMoves
  <2>2. TemplateRequests'
    BY <1>1, <1>2, <2>1, TemplateRequestsMoved DEF AnalysisOps
  <2>3. QED
    BY <1>2, <2>2 DEF templateVars
<1>3. ASSUME NEW c \in Callers, NEW n \in Names, NEW a \in assets, CreateFromUpload(c, n, a)
      PROVE  TemplateTypes'
  <2>1. Uploaded(n, NextVersion(n), a) \in TemplateRows
    BY NextVersionType, UploadedFacts DEF AssetTypes
  <2>2. <<Uploaded(n, NextVersion(n), a)>> \in Seq(TemplateRows)
    BY <2>1
  <2>3. QED
    BY <1>2, <1>3, <2>2 DEF CreateFromUpload
<1>4. ASSUME NEW c \in Callers, NEW n \in Names, NEW p \in Prompts, CreateAuthored(c, n, p)
      PROVE  TemplateTypes'
  <2>1. Authored(n, NextVersion(n), p, Live) \in TemplateRows
    BY NextVersionType, AuthoredFacts
  <2>2. <<Authored(n, NextVersion(n), p, Live)>> \in Seq(TemplateRows)
    BY <2>1
  <2>3. QED
    BY <1>2, <1>4, <2>2 DEF CreateAuthored
<1>5. ASSUME NEW c \in Callers, SeedStockPresets(c) PROVE TemplateTypes'
  <2> PICK rows : rows = [p \in DOMAIN Presets |->
                             Authored(Presets[p], NextVersion(Presets[p]), "scene", Live)]
    OBVIOUS
  <2>1. rows \in Seq(TemplateRows)
    BY PresetRows
  <2>2. QED
    BY <1>2, <1>5, <2>1 DEF SeedStockPresets
<1>6. ASSUME NEW c \in Callers, InsertTemplates(c) PROVE TemplateTypes'
  <2> PICK rows : rows = call[c].value
    OBVIOUS
  <2>1. rows \in Seq(TemplateRows)
    <3>1. TemplateRequests /\ call[c].op = "insert templates"
      BY <1>6 DEF InsertTemplates
    <3>2. QED
      BY <3>1, Zenon DEF TemplateRequests
  <2>2. Moved(c, Idle)
    BY <1>6, EndsMoves DEF InsertTemplates
  <2>3. CASE Inserted(rows)
    <3>1. Len(templates) + Len(rows) <= scope.templates
      BY <1>6 DEF InsertTemplates, Room
    <3>2. TemplateRequests'
      BY <2>1, <2>2, <2>3, InsertedFacts, TemplateRequestsEnded
    <3>3. QED
      BY <2>1, <2>3, <3>1, <3>2, InsertedFacts
  <2>4. CASE UNCHANGED templateVars
    <3>1. TemplateRequests'
      BY <1>1, <2>2, <2>4, TemplateRequestsEnded
    <3>2. QED
      BY <2>4, <3>1 DEF templateVars
  <2>5. QED
    BY <1>6, <2>3, <2>4 DEF InsertTemplates
<1>7. ASSUME NEW c \in Callers, NEW t \in DOMAIN templates, StartAnalysis(c, t)
      PROVE  TemplateTypes'
  <2>1. Moved(c, Request("start analysing", t, NoPrompt))
    BY <1>7, CallMoves DEF StartAnalysis
  <2>2. TemplateRequests'
    BY <1>1, <1>7, <2>1, TemplateRequestsMoved DEF StartAnalysis, templateVars, AnalysisOps
  <2>3. QED
    BY <1>7, <2>2 DEF StartAnalysis, templateVars
<1>8. ASSUME NEW c \in Callers, StartAnalysisCommit(c) PROVE TemplateTypes'
  <2> PICK t : t = call[c].on
    OBVIOUS
  <2>1. t \in DOMAIN templates /\ templates[t].kind = "analysed_image"
    BY <1>8 DEF StartAnalysisCommit, TemplateRequests
  <2>2. Moved(c, Request("analyse", t, NoPrompt))
    BY <1>8, ContinuesMoves DEF StartAnalysisCommit
  <2>3. templates[t] \in TemplateRows
    BY <2>1
  <2>4. Updated(t, "analysing", templates[t].prompt)
    BY <1>8, <2>3 DEF StartAnalysisCommit, TemplateRows, Updated
  <2>5. "analysing" \in TemplateStatuses /\ templates[t].prompt \in Prompts \cup {NoPrompt}
    BY <2>3 DEF TemplateRows, TemplateStatuses
  <2>6. /\ templates' \in Seq(TemplateRows) /\ Len(templates') = Len(templates)
        /\ DOMAIN templates' = DOMAIN templates /\ KindsKept
    BY <2>1, <2>4, <2>5, TemplateUpdated
  <2>7. TemplateRequests'
    BY <2>1, <2>2, <2>6, TemplateRequestsMoved DEF KindsKept
  <2>8. starts' \in Seq(Nat) /\ DOMAIN starts' = DOMAIN starts
    <3>1. starts[t] + 1 \in Nat /\ t \in DOMAIN starts
      BY <2>1
    <3>2. starts' = [starts EXCEPT ![t] = starts[t] + 1]
      BY <1>8 DEF StartAnalysisCommit
    <3>3. QED
      BY <3>1, <3>2, UpdateRow
  <2>9. QED
    BY <2>6, <2>7, <2>8
<1>9. ASSUME NEW c \in Callers, Analyse(c) PROVE TemplateTypes'
  <2>1. PICK prompt \in Prompts \cup {NoPrompt} : Continues(c, "finish analysis", prompt)
    BY <1>9 DEF Analyse
  <2>2. Moved(c, Request("finish analysis", call[c].on, prompt))
    BY <2>1, ContinuesMoves
  <2>3. call[c].on \in DOMAIN templates /\ templates[call[c].on].kind = "analysed_image"
    BY <1>9 DEF Analyse, TemplateRequests, AnalysisOps
  <2>4. TemplateRequests'
    BY <1>1, <1>9, <2>2, <2>3, TemplateRequestsMoved DEF Analyse, templateVars
  <2>5. QED
    BY <1>9, <2>4 DEF Analyse, templateVars
<1>10. ASSUME NEW c \in Callers, FinishAnalysis(c) PROVE TemplateTypes'
  <2>1. /\ call[c].on \in DOMAIN templates /\ templates[call[c].on].kind = "analysed_image"
        /\ call[c].value \in Prompts \cup {NoPrompt}
    BY <1>10 DEF FinishAnalysis, TemplateRequests, AnalysisOps
  <2> PICK new : new = [prompt |-> call[c].value, status |-> Outcome(call[c].value)]
    OBVIOUS
  <2>2. Outcome(call[c].value) \in {"analysed", "invalid", "analysis_failed"}
    BY DEF Outcome
  <2>3. new \in [prompt: Prompts \cup {NoPrompt}, status: {"analysed", "invalid", "analysis_failed"}]
    BY <2>1, <2>2
  <2>4. CASE Ends(c)
    BY <1>1, <1>10, <2>4, EndsMoves, TemplateRequestsEnded DEF FinishAnalysis, templateVars
  <2>5. CASE Continues(c, "commit analysis", new)
    <3>1. Moved(c, Request("commit analysis", call[c].on, new))
      BY <2>5, ContinuesMoves
    <3>2. TemplateRequests'
      BY <1>1, <1>10, <2>1, <2>3, <3>1, TemplateRequestsMoved DEF FinishAnalysis, templateVars
    <3>3. QED
      BY <1>10, <3>2 DEF FinishAnalysis, templateVars
  <2>6. QED
    BY <1>10, <2>4, <2>5 DEF FinishAnalysis
<1>11. ASSUME NEW c \in Callers, FinishAnalysisCommit(c) PROVE TemplateTypes'
  <2> PICK t, new : t = call[c].on /\ new = call[c].value
    OBVIOUS
  <2>1. /\ t \in DOMAIN templates
        /\ new.prompt \in Prompts \cup {NoPrompt}
        /\ new.status \in {"analysed", "invalid", "analysis_failed"}
    BY <1>11 DEF FinishAnalysisCommit, TemplateRequests, AnalysisOps
  <2>2. Moved(c, Idle)
    BY <1>11, EndsMoves DEF FinishAnalysisCommit
  <2>3. templates[t] \in TemplateRows
    BY <2>1
  <2>4. PICK prompt \in Prompts \cup {NoPrompt} :
            prompt = IF new.status = "analysed" THEN new.prompt ELSE templates[t].prompt
    BY <2>1, <2>3 DEF TemplateRows
  <2>5. Updated(t, new.status, prompt)
    BY <1>11, <2>1, <2>3, <2>4 DEF FinishAnalysisCommit, TemplateRows, Updated
  <2>6. new.status \in TemplateStatuses
    BY <2>1 DEF TemplateStatuses
  <2>7. /\ templates' \in Seq(TemplateRows) /\ Len(templates') = Len(templates)
        /\ DOMAIN templates' = DOMAIN templates /\ KindsKept
    BY <2>1, <2>4, <2>5, <2>6, TemplateUpdated
  <2>8. QED
    BY <1>11, <2>2, <2>7, TemplateRequestsEnded DEF FinishAnalysisCommit
<1>12. ASSUME NEW t \in DOMAIN templates, ArchiveTemplate(t) PROVE TemplateTypes'
  <2>1. templates[t] \in TemplateRows
    OBVIOUS
  <2>2. Updated(t, "archived", templates[t].prompt)
    BY <1>12, <2>1 DEF ArchiveTemplate, TemplateRows, Updated
  <2>3. "archived" \in TemplateStatuses /\ templates[t].prompt \in Prompts \cup {NoPrompt}
    BY <2>1 DEF TemplateRows, TemplateStatuses
  <2>4. /\ templates' \in Seq(TemplateRows) /\ Len(templates') = Len(templates)
        /\ DOMAIN templates' = DOMAIN templates /\ KindsKept
    BY <2>2, <2>3, TemplateUpdated
  <2>5. TemplateRequests'
    BY <1>12, <2>4 DEF ArchiveTemplate, TemplateRequests, KindsKept
  <2>6. QED
    BY <1>12, <2>4, <2>5 DEF ArchiveTemplate
<1>13. QED
  BY <1>3, <1>4, <1>5, <1>6, <1>7, <1>8, <1>9, <1>10, <1>11, <1>12 DEF TemplatesNext

\* Steps of the other components leave what a template relies on.
LEMMA TemplateTypesFramed ==
    ASSUME TypeInv, UNCHANGED <<templateVars, scope>>, Foreign(TemplateOps)
    PROVE  TemplateTypes'
<1>1. ASSUME NEW c \in Callers
      PROVE  \/ call'[c] = call[c]
             \/ call'[c].op \notin AnalysisOps \cup {"start analysing", "insert templates"}
  BY DEF Foreign, TemplateOps
<1>2. "finish analysis" \in AnalysisOps /\ "commit analysis" \in AnalysisOps
  BY DEF AnalysisOps
<1>3. TemplateRequests /\ templates' = templates
  BY DEF TypeInv, TemplateTypes, templateVars
<1>4. TemplateRequests'
  BY <1>1, <1>2, <1>3, Zenon DEF TemplateRequests
<1>5. QED
  BY <1>4 DEF TypeInv, TemplateTypes, templateVars

------------------------------------------------------------------------------
(* Uploads *)

\* A request that gives up the bytes it alone owns leaves no row without them.
LEMMA BytesDropped ==
    ASSUME TypeInv, UploadsInv, NEW c \in Callers, NEW k \in Keys, Works(c, AssetOps, k),
           Ends(c), storage' = Written(k, NoBytes), puts' = puts, assets' = assets
    PROVE  UploadsInv'
<1>1. puts[k] = 1 => \A a \in assets : a.key # k
  BY DEF UploadsInv
<1>2. \A d \in Callers : call'[d] = IF d = c THEN Idle ELSE call[d]
  BY EndsMoves DEF Moved, TypeInv
<1>3. Idle.op \notin AssetOps /\ Idle.op \notin {"register", "insert"}
  BY RequestFields DEF AssetOps
<1>4. \A d \in Callers, j \in Keys : Works(d, AssetOps, j)' => Works(d, AssetOps, j) /\ d # c
  BY <1>2, <1>3 DEF Works
<1>5. \A d \in Callers, j \in Keys : Works(d, {"register", "insert"}, j)' =>
          Works(d, {"register", "insert"}, j) /\ call'[d] = call[d] /\ d # c
  BY <1>2, <1>3 DEF Works
<1>6. \A j \in Keys : j # k => storage'[j] = storage[j]
  BY DEF Written, TypeInv, AssetTypes
<1>7. puts[k] = 1 => \A d \in Callers : ~Works(d, {"register", "insert"}, k)'
  <2>1. \A d \in Callers : Works(d, {"register", "insert"}, k)' => Works(d, AssetOps, k) /\ d # c
    BY <1>4, <1>5 DEF Works, AssetOps
  <2>2. QED
    BY <2>1 DEF UploadsInv
<1>8. QED
  BY <1>1, <1>4, <1>5, <1>6, <1>7 DEF UploadsInv

\* No step of an upload leaves a row without its object.
LEMMA UploadsKept ==
    ASSUME TypeInv, UploadsInv, AssetsNext, scope' = scope
    PROVE  UploadsInv'
<1> USE DEF TypeInv, AssetTypes
<1>1. ASSUME NEW kind \in UploadKinds, RequestUpload(kind) PROVE UploadsInv'
  BY <1>1 DEF RequestUpload, UploadsInv, Works
<1>2. ASSUME NEW c \in Callers, NEW k \in Keys, NEW p \in Photos, ReceiveUpload(c, k, p)
      PROVE  UploadsInv'
  <2> PICK r : r = Request("verify", k, NoBytes)
    OBVIOUS
  <2>1. r.op = "verify" /\ r.on = k
    BY RequestFields
  <2>2. Moved(c, r)
    BY <1>2, CallMoves DEF ReceiveUpload
  <2>3. /\ \A j \in Keys : j # k => puts'[j] = puts[j] /\ storage'[j] = storage[j]
        /\ puts'[k] = puts[k] + 1 /\ puts[k] \in Nat /\ assets' = assets
    BY <1>2, ScopeFacts DEF ReceiveUpload, Written
  <2>4. \A d \in Callers : call'[d] = IF d = c THEN r ELSE call[d]
    BY <2>2 DEF Moved
  <2>5. \A j \in Keys : j # k => \A d \in Callers :
            (Works(d, AssetOps, j)' => Works(d, AssetOps, j) /\ d # c)
    BY <2>1, <2>4 DEF Works
  <2>6. ASSUME NEW j \in Keys, puts'[j] = 0
        PROVE  (\A a \in assets' : a.key # j) /\ \A d \in Callers : ~Works(d, AssetOps, j)'
    BY <2>3, <2>5, <2>6 DEF UploadsInv
  <2>7. ASSUME NEW j \in Keys, puts'[j] = 1, j # k
        PROVE  /\ \A d, e \in Callers : Works(d, AssetOps, j)' /\ Works(e, AssetOps, j)' => d = e
               /\ \A d \in Callers : Works(d, {"register", "insert"}, j)' =>
                     call'[d].value = storage'[j] /\ call'[d].value \notin Unfit
               /\ \A a \in assets' : a.key = j =>
                     /\ storage'[j] = a.photo /\ a.photo \notin Unfit
                     /\ \A d \in Callers : ~Works(d, AssetOps, j)'
    <3>1. \A d \in Callers : Works(d, {"register", "insert"}, j)' =>
              Works(d, {"register", "insert"}, j) /\ call'[d] = call[d]
      BY <2>1, <2>4 DEF Works
    <3>2. puts[j] = 1 /\ storage'[j] = storage[j] /\ assets' = assets
      BY <2>3, <2>7
    <3>3. QED
      BY <2>5, <2>7, <3>1, <3>2 DEF UploadsInv
  <2>8. ASSUME puts'[k] = 1
        PROVE  /\ \A d, e \in Callers : Works(d, AssetOps, k)' /\ Works(e, AssetOps, k)' => d = e
               /\ \A d \in Callers : ~Works(d, {"register", "insert"}, k)'
               /\ \A a \in assets' : a.key # k
    <3>1. puts[k] = 0
      BY <2>3, <2>8
    <3>2. \A a \in assets : a.key # k
      BY <3>1 DEF UploadsInv
    <3>3. \A d \in Callers : ~Works(d, AssetOps, k)
      BY <3>1 DEF UploadsInv
    <3>4. QED
      BY <2>1, <2>3, <2>4, <3>2, <3>3 DEF Works, AssetOps
  <2>9. QED
    BY <2>6, <2>7, <2>8 DEF UploadsInv
<1>3. ASSUME NEW c \in Callers, VerifyUpload(c) PROVE UploadsInv'
  <2> PICK k : k = call[c].on
    OBVIOUS
  <2>1. k \in Keys /\ Works(c, AssetOps, k) /\ puts' = puts /\ assets' = assets
    BY <1>3 DEF VerifyUpload, AssetRequests, AssetOps, Works
  <2>2. CASE Ends(c) /\ storage' = Written(k, NoBytes)
    BY <2>1, <2>2, BytesDropped
  <2>3. CASE /\ storage[k] # NoBytes /\ Admits(storage[k])
             /\ Continues(c, "register", storage[k]) /\ UNCHANGED storage
    <3> PICK r : r = Request("register", k, storage[k])
      OBVIOUS
    <3>1. r.op = "register" /\ r.on = k /\ r.value = storage[k]
      BY RequestFields
    <3>2. \A d \in Callers : call'[d] = IF d = c THEN r ELSE call[d]
      BY <2>3, ContinuesMoves DEF Moved
    <3>3. \A d \in Callers, j \in Keys : Works(d, AssetOps, j)' => Works(d, AssetOps, j)
      BY <2>1, <3>1, <3>2 DEF Works, AssetOps
    <3>4. \A d \in Callers, j \in Keys : Works(d, {"register", "insert"}, j)' =>
             \/ call'[d].value = storage[j] /\ call'[d].value \notin Unfit
             \/ Works(d, {"register", "insert"}, j) /\ call'[d] = call[d]
      BY <2>3, <3>1, <3>2 DEF Works, Admits
    <3>5. storage' = storage
      BY <2>3
    <3>6. QED
      BY <2>1, <3>3, <3>4, <3>5 DEF UploadsInv
  <2>4. QED
    BY <1>3, <2>2, <2>3 DEF VerifyUpload
<1>4. ASSUME NEW c \in Callers, RegisterRead(c) PROVE UploadsInv'
  <2> PICK k : k = call[c].on
    OBVIOUS
  <2>1. /\ k \in Keys /\ Works(c, {"register", "insert"}, k) /\ Works(c, AssetOps, k)
        /\ puts' = puts /\ assets' = assets
    BY <1>4 DEF RegisterRead, AssetRequests, AssetOps, Works
  <2>2. CASE Ends(c) /\ storage' = Written(k, NoBytes)
    BY <2>1, <2>2, BytesDropped
  <2>3. CASE Continues(c, "insert", call[c].value) /\ UNCHANGED storage
    <3> PICK r : r = Request("insert", k, call[c].value)
      OBVIOUS
    <3>1. r.op = "insert" /\ r.on = k /\ r.value = call[c].value
      BY RequestFields
    <3>2. \A d \in Callers : call'[d] = IF d = c THEN r ELSE call[d]
      BY <2>3, ContinuesMoves DEF Moved
    <3>3. \A d \in Callers, j \in Keys : Works(d, AssetOps, j)' => Works(d, AssetOps, j)
      BY <2>1, <3>1, <3>2 DEF Works, AssetOps
    <3>4. \A d \in Callers, j \in Keys : Works(d, {"register", "insert"}, j)' =>
             Works(d, {"register", "insert"}, j) /\ call'[d].value = call[d].value
      BY <2>1, <3>1, <3>2 DEF Works
    <3>5. storage' = storage
      BY <2>3
    <3>6. QED
      BY <2>1, <3>3, <3>4, <3>5 DEF UploadsInv
  <2>4. QED
    BY <1>4, <2>2, <2>3 DEF RegisterRead, Discarded
<1>5. ASSUME NEW c \in Callers, RegisterInsert(c) PROVE UploadsInv'
  <2> PICK k, data : k = call[c].on /\ data = call[c].value
    OBVIOUS
  <2>1. /\ k \in Keys /\ Works(c, {"register", "insert"}, k) /\ Works(c, AssetOps, k)
        /\ puts' = puts /\ storage' = storage
    BY <1>5 DEF RegisterInsert, AssetRequests, AssetOps, Works
  <2>2. puts[k] # 0 /\ (puts[k] = 1 => data = storage[k] /\ data \notin Unfit)
    BY <2>1 DEF UploadsInv
  <2>3. \A a \in assets' : a \in assets \/ (a.key = k /\ a.photo = data)
    BY <1>5 DEF RegisterInsert
  <2>4. \A d \in Callers : \A ops, j : Works(d, ops, j)' /\ ops \subseteq AssetOps =>
            Works(d, ops, j) /\ call'[d] = call[d] /\ d # c
    <3>1. \A d \in Callers : call'[d] = IF d = c THEN Idle ELSE call[d]
      BY <1>5, EndsMoves DEF Moved, RegisterInsert
    <3>2. "idle" \notin AssetOps
      BY DEF AssetOps
    <3>3. QED
      BY <3>1, <3>2, RequestFields DEF Works
  <2>5. puts[k] = 1 => \A d \in Callers : ~Works(d, AssetOps, k)'
    BY <2>1, <2>4 DEF UploadsInv
  <2>6. \A d \in Callers, j \in Keys : Works(d, AssetOps, j)' => Works(d, AssetOps, j)
    BY <2>4
  <2>7. \A d \in Callers, j \in Keys : Works(d, {"register", "insert"}, j)' =>
            Works(d, {"register", "insert"}, j) /\ call'[d].value = call[d].value
    BY <2>4 DEF AssetOps
  <2>8. QED
    BY <2>1, <2>2, <2>3, <2>5, <2>6, <2>7 DEF UploadsInv
<1>6. QED
  BY <1>1, <1>2, <1>3, <1>4, <1>5 DEF AssetsNext

\* The other components write no asset.
LEMMA UploadsFramed ==
    ASSUME UploadsInv, UNCHANGED assetVars, Foreign(AssetOps)
    PROVE  UploadsInv'
<1>1. \A c \in Callers, k \in Keys : Works(c, AssetOps, k)' => Works(c, AssetOps, k)
  BY DEF Works, Foreign
<1>2. \A c \in Callers, k \in Keys : Works(c, {"register", "insert"}, k)' =>
          Works(c, {"register", "insert"}, k) /\ call'[c].value = call[c].value
  BY DEF Works, Foreign, AssetOps
<1>3. QED
  BY <1>1, <1>2 DEF UploadsInv, assetVars

------------------------------------------------------------------------------
(* Photos and readiness *)

\* Rows of assets stay, and a URL's count of PUTs moves up by at most one.
LEMMA AssetsGrow ==
    ASSUME TypeInv, AssetsNext
    PROVE  /\ assets \subseteq assets'
           /\ \A k \in Keys : puts'[k] = puts[k] \/ puts'[k] = puts[k] + 1
<1> USE DEF TypeInv, AssetTypes
<1>1. ASSUME NEW c \in Callers, NEW k \in Keys, NEW p \in Photos, ReceiveUpload(c, k, p)
      PROVE  assets' = assets /\ \A j \in Keys : puts'[j] = puts[j] \/ puts'[j] = puts[j] + 1
  BY <1>1 DEF ReceiveUpload
<1>2. ASSUME NEW c \in Callers, RegisterInsert(c) PROVE assets \subseteq assets' /\ puts' = puts
  BY <1>2 DEF RegisterInsert
<1>3. ASSUME NEW c \in Callers, VerifyUpload(c) \/ RegisterRead(c)
      PROVE  assets' = assets /\ puts' = puts
  BY <1>3 DEF VerifyUpload, RegisterRead
<1>4. ASSUME NEW kind \in UploadKinds, RequestUpload(kind) PROVE assets' = assets /\ puts' = puts
  BY <1>4 DEF RequestUpload
<1>5. QED
  BY <1>1, <1>2, <1>3, <1>4 DEF AssetsNext

\* A photo that was fit stays fit: its URL had a PUT, so one more is a second.
LEMMA FitGrows ==
    ASSUME TypeInv, UploadsInv, ValidationInv, AssetsNext, images' = images,
           NEW i \in DOMAIN images, Fit(i)
    PROVE  Fit(i)'
<1> PICK a : a = images[i].asset
  OBVIOUS
<1>1. a \in assets /\ a.key \in Keys
  BY DEF ValidationInv, TypeInv, AssetTypes, AssetRows
<1>2. puts[a.key] \in Nat /\ puts[a.key] # 0
  BY <1>1, ScopeFacts DEF UploadsInv, TypeInv, AssetTypes
<1>3. puts'[a.key] = 1 => puts[a.key] = 1
  BY <1>1, <1>2, AssetsGrow
<1>4. QED
  BY <1>3 DEF Fit

\* Photos keep their asset and owner, and what passed has passed.
ImagesGrow ==
    \A i \in DOMAIN images :
        /\ i \in DOMAIN images'
        /\ images'[i].asset = images[i].asset /\ images'[i].variant = images[i].variant
        /\ images[i].passed => images'[i].passed

\* What the two steps of a validation that write make of the row.
LEMMA StartedRow ==
    ASSUME TypeInv, NEW c \in Callers, StartValidationCommit(c)
    PROVE  LET i == call[c].on IN
           /\ i \in DOMAIN images /\ DOMAIN images' = DOMAIN images
           /\ images'[i].status = "validating" /\ images'[i].passed = images[i].passed
           /\ images'[i].asset = images[i].asset /\ images'[i].variant = images[i].variant
           /\ \A j \in DOMAIN images : j # i => images'[j] = images[j]
<1> PICK i : i = call[c].on
  OBVIOUS
<1>1. i \in DOMAIN images /\ images \in Seq(ImageRows)
  BY DEF StartValidationCommit, TypeInv, ProductTypes, ProductRequests, ValidationOps
<1>2. images[i] \in ImageRows
  BY <1>1
<1> PICK row : row = [images[i] EXCEPT !.status = "validating"]
  OBVIOUS
<1>3. /\ row \in ImageRows /\ row.status = "validating" /\ row.passed = images[i].passed
      /\ row.asset = images[i].asset /\ row.variant = images[i].variant
  BY <1>2 DEF ImageRows, ImageStatuses
<1>4. images' = [images EXCEPT ![i] = row]
  BY DEF StartValidationCommit
<1>5. DOMAIN images' = DOMAIN images /\ images'[i] = row
      /\ \A j \in DOMAIN images \ {i} : images'[j] = images[j]
  BY <1>1, <1>3, <1>4, UpdateRow
<1>6. QED
  BY <1>1, <1>3, <1>5

\* The verdict of a validation goes to the one photo it is about.
LEMMA CompletedRow ==
    ASSUME TypeInv, NEW c \in Callers, CompleteValidationCommit(c)
    PROVE  LET i == call[c].on IN
           /\ i \in DOMAIN images /\ DOMAIN images' = DOMAIN images
           /\ images'[i].status = call[c].value
           /\ images'[i].passed <=> images[i].passed \/ call[c].value = "ready"
           /\ images'[i].asset = images[i].asset /\ images'[i].variant = images[i].variant
           /\ \A j \in DOMAIN images : j # i => images'[j] = images[j]
<1> PICK i, verdict : i = call[c].on /\ verdict = call[c].value
  OBVIOUS
<1>1. i \in DOMAIN images /\ images \in Seq(ImageRows) /\ verdict \in {"ready", "rejected"}
  BY DEF CompleteValidationCommit, TypeInv, ProductTypes, ProductRequests, ValidationOps
<1>2. images[i] \in ImageRows
  BY <1>1
<1> PICK passed \in BOOLEAN : passed = (images[i].passed \/ verdict = "ready")
  BY Zenon
<1> PICK row : row = [images[i] EXCEPT !.status = verdict, !.passed = passed]
  OBVIOUS
<1>3. /\ row \in ImageRows /\ row.status = verdict /\ row.passed = passed
      /\ row.asset = images[i].asset /\ row.variant = images[i].variant
  BY <1>1, <1>2 DEF ImageRows, ImageStatuses
<1>4. images' = [images EXCEPT ![i] = row]
  BY <1>1, <1>2 DEF CompleteValidationCommit, ImageRows
<1>5. DOMAIN images' = DOMAIN images /\ images'[i] = row
      /\ \A j \in DOMAIN images \ {i} : images'[j] = images[j]
  BY <1>1, <1>3, <1>4, UpdateRow
<1>6. QED
  BY <1>1, <1>3, <1>5

\* The photo that is captured comes last and has not passed.
LEMMA CapturedRow ==
    ASSUME TypeInv, NEW a \in assets, NEW v \in BOOLEAN, CaptureProductInputImage(a, v)
    PROVE  /\ DOMAIN images' = DOMAIN images \cup {Len(images) + 1}
           /\ Len(images) + 1 \notin DOMAIN images
           /\ \A i \in DOMAIN images : images'[i] = images[i]
           /\ LET row == images'[Len(images) + 1] IN
              row.asset = a /\ row.status = "captured" /\ ~row.passed
<1> PICK row : row = [asset |-> a, variant |-> v, status |-> "captured", passed |-> FALSE]
  OBVIOUS
<1>1. row \in ImageRows /\ row.asset = a /\ row.status = "captured" /\ ~row.passed
  BY DEF ImageRows, ImageStatuses, TypeInv, AssetTypes
<1>2. images \in Seq(ImageRows) /\ images' = Append(images, row)
  BY DEF TypeInv, ProductTypes, CaptureProductInputImage
<1>3. QED
  BY <1>1, <1>2, AppendRow

\* Every step that is not one of these three leaves the photos alone.
LEMMA ImagesStep ==
    ASSUME ProductsNext
    PROVE  \/ images' = images
           \/ \E c \in Callers : StartValidationCommit(c) \/ CompleteValidationCommit(c)
           \/ \E a \in assets, v \in BOOLEAN : CaptureProductInputImage(a, v)
  BY DEF ProductsNext, ReviseSpec, PublishSpec, CreateProduct, CreateProductVariant,
         StartValidation, InspectImage, CompleteValidation, RecomputeRead, RecomputeCommit,
         productVars

\* No photo is removed, and a photo keeps its asset and its variant.
LEMMA ImagesOnlyGrow ==
    ASSUME TypeInv, ProductsNext
    PROVE  ImagesGrow
<1>1. ASSUME images' = images PROVE ImagesGrow
  BY <1>1 DEF ImagesGrow
<1>2. ASSUME NEW c \in Callers, StartValidationCommit(c) PROVE ImagesGrow
  BY <1>2, StartedRow DEF ImagesGrow
<1>3. ASSUME NEW c \in Callers, CompleteValidationCommit(c) PROVE ImagesGrow
  BY <1>3, CompletedRow DEF ImagesGrow
<1>4. ASSUME NEW a \in assets, NEW v \in BOOLEAN, CaptureProductInputImage(a, v)
      PROVE  ImagesGrow
  BY <1>4, CapturedRow DEF ImagesGrow
<1>5. QED
  BY <1>1, <1>2, <1>3, <1>4, ImagesStep

\* The requests that carry a verdict carry a deserved one.
VerdictsFit ==
    \A c \in Callers :
        call[c].op \in {"complete validation", "commit validation"} /\ call[c].value = "ready" =>
            Fit(call[c].on)

\* The facts about the photos alone.
PhotosFit ==
    \A i \in DOMAIN images :
        /\ images[i].asset \in assets
        /\ images[i].status = "ready" => images[i].passed
        /\ images[i].passed => Fit(i)

\* The parts of ValidationInv.
LEMMA ValidationParts == ValidationInv <=> PhotosFit /\ VerdictsFit
  BY DEF ValidationInv, PhotosFit, VerdictsFit

\* A photo keeps its asset, and the PUTs its asset had.
LEMMA FitStays ==
    ASSUME ImagesGrow, puts' = puts, NEW i \in DOMAIN images
    PROVE  Fit(i) => Fit(i)'
  BY DEF ImagesGrow, Fit

\* No step of the products makes a photo ready that did not fit.
LEMMA PhotosKept ==
    ASSUME TypeInv, ValidationInv, ProductsNext, UNCHANGED assetVars
    PROVE  PhotosFit'
<1>1. puts' = puts /\ assets' = assets
  BY DEF assetVars
<1>2. \A i \in DOMAIN images : Fit(i) => Fit(i)'
  BY <1>1, ImagesOnlyGrow, FitStays
<1>3. ASSUME images' = images PROVE PhotosFit'
  BY <1>1, <1>2, <1>3 DEF ValidationInv, PhotosFit
<1>4. ASSUME NEW c \in Callers, StartValidationCommit(c) PROVE PhotosFit'
  BY <1>1, <1>2, <1>4, StartedRow DEF ValidationInv, PhotosFit
<1>5. ASSUME NEW c \in Callers, CompleteValidationCommit(c) PROVE PhotosFit'
  <2> PICK i, verdict : i = call[c].on /\ verdict = call[c].value
    OBVIOUS
  <2>1. /\ i \in DOMAIN images /\ DOMAIN images' = DOMAIN images
        /\ images'[i].status = verdict /\ images'[i].asset = images[i].asset
        /\ images'[i].passed <=> images[i].passed \/ verdict = "ready"
        /\ \A j \in DOMAIN images : j # i => images'[j] = images[j]
    BY <1>5, CompletedRow
  <2>2. verdict = "ready" => Fit(i)
    BY <1>5 DEF ValidationInv, CompleteValidationCommit
  <2>3. images'[i].passed => Fit(i)'
    BY <1>2, <2>1, <2>2 DEF ValidationInv
  <2>4. QED
    BY <1>1, <1>2, <2>1, <2>3 DEF ValidationInv, PhotosFit
<1>6. ASSUME NEW a \in assets, NEW v \in BOOLEAN, CaptureProductInputImage(a, v)
      PROVE  PhotosFit'
  BY <1>1, <1>2, <1>6, CapturedRow DEF ValidationInv, PhotosFit
<1>7. QED
  BY <1>3, <1>4, <1>5, <1>6, ImagesStep

\* A verdict is ready only if the bytes passed, which are those of the asset
\* unless its URL was PUT again.
LEMMA VerdictsKept ==
    ASSUME TypeInv, UploadsInv, ValidationInv, ProductsNext, UNCHANGED assetVars
    PROVE  VerdictsFit'
<1> DEFINE verdicts == {"complete validation", "commit validation"}
<1>1. puts' = puts
  BY DEF assetVars
<1>2. \A i \in DOMAIN images : Fit(i) => Fit(i)'
  BY <1>1, ImagesOnlyGrow, FitStays
<1>3. \A d \in Callers : call[d].op \in verdicts /\ call[d].value = "ready" =>
          call[d].on \in DOMAIN images /\ Fit(call[d].on)
  BY DEF ValidationInv, TypeInv, ProductTypes, ProductRequests, ValidationOps
<1>4. ASSUME NEW c \in Callers, NEW r, Moved(c, r),
             r.op \in verdicts /\ r.value = "ready" => r.on \in DOMAIN images /\ Fit(r.on)
      PROVE  VerdictsFit'
  <2>1. \A d \in Callers : call'[d] = r \/ call'[d] = call[d]
    BY <1>4 DEF Moved
  <2>2. \A d \in Callers : call'[d].op \in verdicts /\ call'[d].value = "ready" =>
            call'[d].on \in DOMAIN images /\ Fit(call'[d].on)
    BY <1>3, <1>4, <2>1
  <2>3. QED
    BY <1>2, <2>2 DEF VerdictsFit
<1>5. ASSUME call' = call PROVE VerdictsFit'
  BY <1>2, <1>3, <1>5 DEF VerdictsFit
<1>6. ASSUME NEW c \in Callers, Ends(c) PROVE VerdictsFit'
  <2>1. Moved(c, Idle) /\ Idle.op = "idle"
    BY <1>6, EndsMoves, RequestFields DEF TypeInv
  <2>2. QED
    BY <1>4, <2>1
<1>7. ASSUME NEW c \in Callers, NEW op, NEW on, NEW value, op \notin verdicts,
             Moved(c, Request(op, on, value))
      PROVE  VerdictsFit'
  <2> PICK r : r = Request(op, on, value)
    OBVIOUS
  <2>1. r.op = op
    BY RequestFields
  <2>2. QED
    BY <1>4, <1>7, <2>1
<1>8. ASSUME NEW c \in Callers, NEW i \in DOMAIN images, StartValidation(c, i)
      PROVE  VerdictsFit'
  <2>1. Moved(c, Request("start validating", i, NoBytes))
    BY <1>8, CallMoves DEF StartValidation, TypeInv
  <2>2. QED
    BY <1>7, <2>1
<1>9. ASSUME NEW c \in Callers, StartValidationCommit(c) PROVE VerdictsFit'
  <2>1. Moved(c, Request("inspect", call[c].on, NoBytes))
    BY <1>9, ContinuesMoves DEF StartValidationCommit, TypeInv
  <2>2. QED
    BY <1>7, <2>1
<1>10. ASSUME NEW c \in Callers, InspectImage(c) PROVE VerdictsFit'
  <2> PICK i, a : i = call[c].on /\ a = images[i].asset
    OBVIOUS
  <2>1. i \in DOMAIN images
    BY <1>10 DEF InspectImage, TypeInv, ProductTypes, ProductRequests, ValidationOps
  <2>2. PICK verdict \in {"rejected", "ready"} :
            /\ Continues(c, "complete validation", verdict)
            /\ verdict = "ready" => Passes(storage[a.key])
    BY <1>10 DEF InspectImage
  <2>3. a \in assets /\ a.key \in Keys
    BY <2>1 DEF ValidationInv, TypeInv, AssetTypes, AssetRows
  <2>4. puts[a.key] = 1 => storage[a.key] = a.photo
    BY <2>3 DEF UploadsInv
  <2>5. verdict = "ready" => Fit(i)
    BY <2>2, <2>4 DEF Passes, Fit
  <2> PICK r : r = Request("complete validation", i, verdict)
    OBVIOUS
  <2>6. r.on = i /\ r.value = verdict
    BY Zenon DEF Request
  <2>7. Moved(c, r)
    BY <2>2, ContinuesMoves DEF TypeInv
  <2>8. QED
    BY <1>4, <2>1, <2>5, <2>6, <2>7
<1>11. ASSUME NEW c \in Callers, CompleteValidation(c) PROVE VerdictsFit'
  <2> PICK r : r = Request("commit validation", call[c].on, call[c].value)
    OBVIOUS
  <2>1. r.on = call[c].on /\ r.value = call[c].value
    BY Zenon DEF Request
  <2>2. CASE Moved(c, r)
    <3>1. r.value = "ready" => r.on \in DOMAIN images /\ Fit(r.on)
      BY <1>3, <1>11, <2>1 DEF CompleteValidation
    <3>2. QED
      BY <1>4, <2>2, <3>1
  <2>3. QED
    BY <1>6, <1>11, <2>2, ContinuesMoves DEF CompleteValidation, TypeInv
<1>12. ASSUME NEW c \in Callers, CompleteValidationCommit(c) \/ RecomputeCommit(c)
       PROVE  VerdictsFit'
  BY <1>6, <1>12 DEF CompleteValidationCommit, RecomputeCommit
<1>13. ASSUME NEW c \in Callers, RecomputeRead(c) PROVE VerdictsFit'
  <2>1. PICK ready : call' = [call EXCEPT ![c] = Request("recompute", product.status, ready)]
    BY <1>13 DEF RecomputeRead
  <2>2. Moved(c, Request("recompute", product.status, ready))
    BY <2>1, CallMoves DEF TypeInv
  <2>3. QED
    BY <1>7, <2>2
<1>14. QED
  BY <1>5, <1>8, <1>9, <1>10, <1>11, <1>12, <1>13
  DEF ProductsNext, ReviseSpec, PublishSpec, CreateProduct, CreateProductVariant,
      CaptureProductInputImage

\* Uploads, templates and crashes leave photos and verdicts as fit as they were.
LEMMA ValidationFramed ==
    ASSUME TypeInv, ValidationInv, UNCHANGED productVars, Foreign(ProductOps),
           assets \subseteq assets', \A i \in DOMAIN images : Fit(i) => Fit(i)'
    PROVE  ValidationInv'
<1>1. images' = images
  BY DEF productVars
<1>2. \A c \in Callers : call'[c].op \in {"complete validation", "commit validation"} =>
          /\ call'[c] = call[c]
          /\ call[c].on \in DOMAIN images
  BY DEF Foreign, ProductOps, ValidationOps, TypeInv, ProductTypes, ProductRequests
<1>3. PhotosFit'
  BY <1>1 DEF ValidationInv, PhotosFit
<1>4. VerdictsFit'
  BY <1>2 DEF ValidationInv, VerdictsFit
<1>5. QED
  BY <1>3, <1>4 DEF ValidationInv, PhotosFit, VerdictsFit

\* The product keeps what it pinned and was filled with, once there is one.
ProductStays ==
    /\ product'.version = product.version /\ product'.filled = product.filled
    /\ versions'[product.version] = versions[product.version]

\* What made a product ready is there after any step that keeps photos fit.
LEMMA EarnedStays ==
    ASSUME Earned, ProductStays, ImagesGrow, \A i \in DOMAIN images : Fit(i) => Fit(i)'
    PROVE  Earned'
<1>1. Pinned' = Pinned /\ product'.filled = product.filled
  BY DEF ProductStays, Pinned
<1>2. ASSUME NEW i \in DOMAIN images, ~images[i].variant, images[i].passed, Fit(i)
      PROVE  \E j \in DOMAIN images' : ~images'[j].variant /\ images'[j].passed /\ Fit(j)'
  BY <1>2 DEF ImagesGrow
<1>3. QED
  BY <1>1, <1>2 DEF Earned

\* A product that exists stays, with what it pinned and was filled with.
LEMMA ProductKept ==
    ASSUME TypeInv, ProductsNext, HasProduct
    PROVE  ProductStays /\ HasProduct'
<1> USE DEF TypeInv, ProductTypes
<1>1. product \in [version: DOMAIN versions, filled: BOOLEAN, status: ProductStatuses]
  BY DEF HasProduct
<1>2. ASSUME product' = product, versions' = versions PROVE ProductStays /\ HasProduct'
  BY <1>2 DEF ProductStays, HasProduct
<1>3. ASSUME PublishSpec PROVE ProductStays /\ HasProduct'
  <2>1. Live \in Specs
    BY DEF Live
  <2>2. \A v \in DOMAIN versions : versions'[v] = versions[v]
    BY <1>3, <2>1, AppendRow DEF PublishSpec
  <2>3. QED
    BY <1>1, <1>3, <2>2 DEF PublishSpec, ProductStays, HasProduct
<1>4. ASSUME NEW c \in Callers, RecomputeCommit(c) PROVE ProductStays /\ HasProduct'
  <2>1. PICK new \in ProductStatuses :
            product' = product \/ product' = [product EXCEPT !.status = new]
    BY <1>4 DEF RecomputeCommit, ProductStatuses, Regressed, ProductRequests
  <2>2. /\ product' \in [version: DOMAIN versions, filled: BOOLEAN, status: ProductStatuses]
        /\ product'.version = product.version /\ product'.filled = product.filled
    BY <1>1, <2>1
  <2>3. product' # NoProduct
    BY <2>2 DEF NoProduct, ProductStatuses
  <2>4. QED
    BY <1>4, <2>2, <2>3 DEF ProductStays, HasProduct, RecomputeCommit
<1>5. QED
  BY <1>2, <1>3, <1>4
  DEF ProductsNext, ReviseSpec, CreateProduct, CreateProductVariant, CaptureProductInputImage,
      StartValidation, StartValidationCommit, InspectImage, CompleteValidation,
      CompleteValidationCommit, RecomputeRead, productVars

\* Every step of the product carries what a product or a recomputation earned.
LEMMA ReadinessKept ==
    ASSUME TypeInv, ValidationInv, ReadinessInv, ProductsNext, UNCHANGED assetVars
    PROVE  ReadinessInv'
<1>1. HasProduct => (Earned => Earned') /\ ProductStays /\ HasProduct'
  <2>1. \A i \in DOMAIN images : Fit(i) => Fit(i)'
    BY ImagesOnlyGrow, FitStays DEF assetVars
  <2>2. QED
    BY <2>1, ImagesOnlyGrow, ProductKept, EarnedStays
<1>2. \A d \in Callers : call[d].op = "recompute" =>
          HasProduct /\ (call[d].value \/ call[d].on # "draft" => Earned')
  BY <1>1 DEF ReadinessInv, TypeInv, ProductTypes, ProductRequests
<1>3. \A d \in Callers : call'[d].op = "recompute" =>
          \/ call'[d] = call[d]
          \/ HasProduct /\ (call'[d].value \/ call'[d].on # "draft" => Earned')
  <2>1. ASSUME NEW c \in Callers, RecomputeRead(c)
        PROVE  \A d \in Callers : call'[d] = call[d] \/
                   (HasProduct /\ (call'[d].value \/ call'[d].on # "draft" => Earned'))
    <3>1. HasProduct
      BY <2>1 DEF RecomputeRead
    <3>2. PICK ready \in BOOLEAN :
              /\ call' = [call EXCEPT ![c] = Request("recompute", product.status, ready)]
              /\ ready => /\ "attribute" \in Pinned => product.filled
                          /\ "slot" \in Pinned => \E i \in SlotImages : FillsSlot(i)
      BY <2>1 DEF RecomputeRead, Demanded
    <3>3. ready => Earned
      BY <3>2 DEF Earned, SlotImages, FillsSlot, ValidationInv
    <3>4. product.status # "draft" => Earned
      BY <3>1 DEF ReadinessInv
    <3> PICK r : r = Request("recompute", product.status, ready)
      OBVIOUS
    <3>5. r.on = product.status /\ r.value = ready
      BY Zenon DEF Request
    <3>6. Moved(c, r)
      BY <3>2, CallMoves DEF TypeInv
    <3>7. QED
      BY <1>1, <3>1, <3>3, <3>4, <3>5, <3>6 DEF Moved
  <2>2. ASSUME NEW c \in Callers, NEW op, NEW on, NEW value, op # "recompute",
               Moved(c, Request(op, on, value))
        PROVE  \A d \in Callers : call'[d] = call[d] \/ call'[d].op # "recompute"
    <3> PICK r : r = Request(op, on, value)
      OBVIOUS
    <3>1. r.op = op
      BY RequestFields
    <3>2. QED
      BY <2>2, <3>1 DEF Moved
  <2>3. ASSUME NEW c \in Callers, Ends(c)
        PROVE  \A d \in Callers : call'[d] = call[d] \/ call'[d].op # "recompute"
    BY <2>3, EndsMoves, RequestFields DEF Moved, TypeInv
  <2>4. ASSUME NEW c \in Callers, NEW i \in DOMAIN images, StartValidation(c, i)
        PROVE  \A d \in Callers : call'[d] = call[d] \/ call'[d].op # "recompute"
    BY <2>2, <2>4, CallMoves DEF StartValidation, TypeInv
  <2>5. ASSUME NEW c \in Callers,
               StartValidationCommit(c) \/ InspectImage(c) \/ CompleteValidation(c)
        PROVE  \A d \in Callers : call'[d] = call[d] \/ call'[d].op # "recompute"
    <3>1. Ends(c) \/ \E op, value : op # "recompute" /\ Continues(c, op, value)
      BY <2>5 DEF StartValidationCommit, InspectImage, CompleteValidation
    <3>2. QED
      BY <2>2, <2>3, <3>1, ContinuesMoves DEF TypeInv
  <2>6. ASSUME NEW c \in Callers, CompleteValidationCommit(c) \/ RecomputeCommit(c)
        PROVE  \A d \in Callers : call'[d] = call[d] \/ call'[d].op # "recompute"
    BY <2>3, <2>6 DEF CompleteValidationCommit, RecomputeCommit
  <2>7. QED
    BY <2>1, <2>4, <2>5, <2>6
    DEF ProductsNext, ReviseSpec, PublishSpec, CreateProduct, CreateProductVariant,
        CaptureProductInputImage
<1>4. \A d \in Callers : call'[d].op = "recompute" /\ (call'[d].value \/ call'[d].on # "draft") => Earned'
  BY <1>2, <1>3
<1>5. HasProduct' /\ product'.status # "draft" => Earned'
  <2>1. CASE product' = product
    BY <1>1, <2>1 DEF ReadinessInv, HasProduct
  <2>2. ASSUME NEW filled \in BOOLEAN, CreateProduct(filled) PROVE product'.status = "draft"
    BY <2>2 DEF CreateProduct
  <2>3. ASSUME NEW c \in Callers, RecomputeCommit(c), product'.status # "draft" PROVE Earned'
    <3>1. HasProduct /\ (call[c].value \/ call[c].on # "draft" => Earned')
      BY <1>2, <2>3 DEF RecomputeCommit
    <3>2. CASE product' = product
      BY <1>1, <2>3, <3>1, <3>2 DEF ReadinessInv
    <3>3. CASE product' # product
      <4>1. product \in [version: DOMAIN versions, filled: BOOLEAN, status: ProductStatuses]
        BY <3>1 DEF HasProduct, TypeInv, ProductTypes
      <4>2. product'.status = IF call[c].value THEN "ready" ELSE Regressed(call[c].on)
        BY <2>3, <3>3, <4>1 DEF RecomputeCommit
      <4>3. call[c].value \/ call[c].on # "draft"
        BY <2>3, <4>2 DEF Regressed
      <4>4. QED
        BY <3>1, <4>3
    <3>4. QED
      BY <3>2, <3>3
  <2>4. QED
    BY <2>1, <2>2, <2>3
    DEF ProductsNext, ReviseSpec, PublishSpec, CreateProductVariant, CaptureProductInputImage,
        StartValidation, StartValidationCommit, InspectImage, CompleteValidation,
        CompleteValidationCommit, RecomputeRead, productVars
<1>6. QED
  BY <1>4, <1>5 DEF ReadinessInv

\* The other components leave the readiness alone.
LEMMA ReadinessFramed ==
    ASSUME ReadinessInv, UNCHANGED productVars, Foreign(ProductOps),
           \A i \in DOMAIN images : Fit(i) => Fit(i)'
    PROVE  ReadinessInv'
<1>1. product' = product /\ versions' = versions /\ images' = images
  BY DEF productVars
<1>2. Earned => Earned'
  BY <1>1, EarnedStays DEF ProductStays, ImagesGrow
<1>3. \A c \in Callers : call'[c].op = "recompute" => call'[c] = call[c]
  BY DEF Foreign, ProductOps
<1>4. QED
  BY <1>1, <1>2, <1>3 DEF ReadinessInv, HasProduct

------------------------------------------------------------------------------
(* Templates *)

\* What the steps that write a row of a template make of it.
LEMMA AnalysisStarted ==
    ASSUME TypeInv, NEW c \in Callers, StartAnalysisCommit(c)
    PROVE  LET t == call[c].on IN
           /\ t \in DOMAIN templates /\ DOMAIN templates' = DOMAIN templates
           /\ templates[t].kind = "analysed_image" /\ KindsKept
           /\ templates'[t].status = "analysing" /\ starts'[t] = starts[t] + 1
           /\ \A u \in DOMAIN templates : u # t =>
                 templates'[u] = templates[u] /\ starts'[u] = starts[u]
<1>0. templates \in Seq(TemplateRows) /\ starts \in Seq(Nat) /\ DOMAIN starts = DOMAIN templates
  BY DEF TypeInv, TemplateTypes
<1> PICK t : t = call[c].on
  OBVIOUS
<1>1. t \in DOMAIN templates /\ templates[t].kind = "analysed_image"
  BY DEF StartAnalysisCommit, TemplateRequests, TypeInv, TemplateTypes
<1>2. templates[t] \in TemplateRows
  BY <1>0, <1>1
<1>3. Updated(t, "analysing", templates[t].prompt)
  BY <1>2 DEF StartAnalysisCommit, TemplateRows, Updated
<1>4. "analysing" \in TemplateStatuses /\ templates[t].prompt \in Prompts \cup {NoPrompt}
  BY <1>2 DEF TemplateRows, TemplateStatuses
<1>5. /\ templates' \in Seq(TemplateRows) /\ Len(templates') = Len(templates)
      /\ DOMAIN templates' = DOMAIN templates /\ KindsKept
      /\ templates'[t].status = "analysing" /\ templates'[t].prompt = templates[t].prompt
      /\ \A u \in DOMAIN templates : u # t => templates'[u] = templates[u]
  BY <1>0, <1>1, <1>3, <1>4, TemplateUpdated
<1>6. starts' = [starts EXCEPT ![t] = starts[t] + 1] /\ t \in DOMAIN starts
  BY <1>0, <1>1 DEF StartAnalysisCommit
<1>7. QED
  BY <1>1, <1>5, <1>6

\* What FinishAnalysis writes.
LEMMA AnalysisFinished ==
    ASSUME TypeInv, NEW c \in Callers, FinishAnalysisCommit(c)
    PROVE  LET t == call[c].on
               new == call[c].value
           IN  /\ t \in DOMAIN templates /\ DOMAIN templates' = DOMAIN templates
               /\ KindsKept /\ starts' = starts
               /\ new.status \in {"analysed", "invalid", "analysis_failed"}
               /\ templates'[t].status = new.status
               /\ new.status = "analysed" => templates'[t].prompt = new.prompt
               /\ \A u \in DOMAIN templates : u # t => templates'[u] = templates[u]
<1>0. templates \in Seq(TemplateRows) /\ starts \in Seq(Nat) /\ DOMAIN starts = DOMAIN templates
  BY DEF TypeInv, TemplateTypes
<1> PICK t, new : t = call[c].on /\ new = call[c].value
  OBVIOUS
<1>1. /\ t \in DOMAIN templates
      /\ new.prompt \in Prompts \cup {NoPrompt}
      /\ new.status \in {"analysed", "invalid", "analysis_failed"}
  BY DEF FinishAnalysisCommit, TemplateRequests, AnalysisOps, TypeInv, TemplateTypes
<1>2. templates[t] \in TemplateRows
  BY <1>0, <1>1
<1>3. PICK prompt \in Prompts \cup {NoPrompt} :
          prompt = IF new.status = "analysed" THEN new.prompt ELSE templates[t].prompt
  BY <1>1, <1>2 DEF TemplateRows
<1>4. Updated(t, new.status, prompt)
  BY <1>1, <1>2, <1>3 DEF FinishAnalysisCommit, TemplateRows, Updated
<1>5. new.status \in TemplateStatuses
  BY <1>1 DEF TemplateStatuses
<1>6. /\ templates' \in Seq(TemplateRows) /\ Len(templates') = Len(templates)
      /\ DOMAIN templates' = DOMAIN templates /\ KindsKept
      /\ templates'[t].status = new.status /\ templates'[t].prompt = prompt
      /\ \A u \in DOMAIN templates : u # t => templates'[u] = templates[u]
  BY <1>0, <1>1, <1>3, <1>4, <1>5, TemplateUpdated
<1>7. QED
  BY <1>1, <1>3, <1>6 DEF FinishAnalysisCommit

\* What the archiving of a template writes.
LEMMA Archived ==
    ASSUME TypeInv, NEW t \in DOMAIN templates, ArchiveTemplate(t)
    PROVE  /\ DOMAIN templates' = DOMAIN templates /\ KindsKept
           /\ starts' = starts /\ call' = call
           /\ templates[t].status = "analysed"
           /\ templates'[t].status = "archived" /\ templates'[t].prompt = templates[t].prompt
           /\ \A u \in DOMAIN templates : u # t => templates'[u] = templates[u]
<1> USE DEF TypeInv, TemplateTypes
<1>1. templates[t] \in TemplateRows
  OBVIOUS
<1>2. Updated(t, "archived", templates[t].prompt)
  BY <1>1 DEF ArchiveTemplate, TemplateRows, Updated
<1>3. "archived" \in TemplateStatuses /\ templates[t].prompt \in Prompts \cup {NoPrompt}
  BY <1>1 DEF TemplateRows, TemplateStatuses
<1>4. /\ templates' \in Seq(TemplateRows) /\ Len(templates') = Len(templates)
      /\ DOMAIN templates' = DOMAIN templates /\ KindsKept
      /\ templates'[t].status = "archived" /\ templates'[t].prompt = templates[t].prompt
      /\ \A u \in DOMAIN templates : u # t => templates'[u] = templates[u]
  BY <1>2, <1>3, TemplateUpdated
<1>5. QED
  BY <1>4 DEF ArchiveTemplate, Archivable

\* The live definitions are a revision.
LEMMA ResolvesResolved ==
    ASSUME TypeInv, NEW prompt \in Prompts, Resolves(prompt, Live)
    PROVE  Resolved(prompt)
<1>1. Len(revisions) \in DOMAIN revisions
  BY ScopeFacts DEF TypeInv, ProductTypes
<1>2. prompt \notin {NoPrompt, "malformed"}
  BY DEF Resolves, Prompts, NoPrompt
<1>3. QED
  BY <1>1, <1>2 DEF Resolves, Resolved, Live

\* Rows of templates that generation could select, stored or about to be.
RowResolves(row) == row.status \in {"analysed", "archived"} => Resolved(row.prompt)
RowsResolve == \A t \in DOMAIN templates : RowResolves(templates[t])
RequestResolves(r) ==
    /\ r.op = "insert templates" => \A i \in DOMAIN r.value : RowResolves(r.value[i])
    /\ r.op = "commit analysis" /\ r.value.status = "analysed" => Resolved(r.value.prompt)

\* The parts of PromptsInv.
LEMMA PromptsParts ==
    PromptsInv <=> RowsResolve /\ \A c \in Callers : RequestResolves(call[c])
  BY DEF PromptsInv, RowsResolve, RowResolves, RequestResolves

\* A revision only adds to what a prompt can have resolved in.
LEMMA PromptsFramed ==
    ASSUME PromptsInv, UNCHANGED templateVars, Foreign(TemplateOps),
           \A p : Resolved(p) => Resolved(p)'
    PROVE  PromptsInv'
<1>1. templates' = templates
  BY DEF templateVars
<1>2. \A c \in Callers : call'[c].op \in {"insert templates", "commit analysis"} => call'[c] = call[c]
  BY DEF Foreign, TemplateOps, AnalysisOps
<1>3. RowsResolve'
  BY <1>1, PromptsParts DEF RowsResolve, RowResolves
<1>4. ASSUME NEW c \in Callers PROVE RequestResolves(call[c])'
  <2>1. RequestResolves(call[c])
    BY PromptsParts
  <2>2. QED
    BY <1>2, <2>1 DEF RequestResolves, RowResolves
<1>5. QED
  BY <1>3, <1>4 DEF PromptsInv, RowsResolve, RowResolves, RequestResolves

\* No step of the templates makes one selectable without its prompt.
LEMMA PromptsKept ==
    ASSUME TypeInv, PromptsInv, TemplatesNext, UNCHANGED productVars
    PROVE  PromptsInv'
<1> DEFINE carriers == {"insert templates", "commit analysis"}
<1>1. \A p : Resolved(p) => Resolved(p)'
  BY DEF Resolved, productVars
<1>2. ASSUME \A t \in DOMAIN templates' : RowResolves(templates'[t]),
             \A d \in Callers : RequestResolves(call'[d])
      PROVE  PromptsInv'
  <2>1. RowsResolve'
    BY <1>1, <1>2 DEF RowsResolve, RowResolves
  <2>2. ASSUME NEW c \in Callers PROVE RequestResolves(call[c])'
    <3>1. RequestResolves(call'[c])
      BY <1>2
    <3>2. QED
      BY <1>1, <3>1 DEF RequestResolves, RowResolves
  <2>3. QED
    BY <2>1, <2>2 DEF PromptsInv, RowsResolve, RowResolves, RequestResolves
<1>3. RowsResolve /\ \A d \in Callers : RequestResolves(call[d])
  BY PromptsParts
<1>4. ASSUME NEW c \in Callers, NEW r, Moved(c, r), RequestResolves(r)
      PROVE  \A d \in Callers : RequestResolves(call'[d])
  <2>1. \A d \in Callers : call'[d] = r \/ call'[d] = call[d]
    BY <1>4 DEF Moved
  <2>2. QED
    BY <1>3, <1>4, <2>1
<1>5. ASSUME NEW r, r.op \notin carriers PROVE RequestResolves(r)
  BY <1>5 DEF RequestResolves
<1>6. ASSUME NEW c \in Callers, Ends(c) PROVE \A d \in Callers : RequestResolves(call'[d])
  <2>1. Moved(c, Idle) /\ Idle.op = "idle"
    BY <1>6, EndsMoves, RequestFields DEF TypeInv
  <2>2. QED
    BY <1>4, <1>5, <2>1
<1>7. ASSUME NEW c \in Callers, NEW op, NEW on, NEW value, op \notin carriers,
             Moved(c, Request(op, on, value))
      PROVE  \A d \in Callers : RequestResolves(call'[d])
  <2> PICK r : r = Request(op, on, value)
    OBVIOUS
  <2>1. r.op = op
    BY RequestFields
  <2>2. QED
    BY <1>4, <1>5, <1>7, <2>1
<1>8. ASSUME UNCHANGED templateVars PROVE \A t \in DOMAIN templates' : RowResolves(templates'[t])
  BY <1>3, <1>8 DEF templateVars, RowsResolve
<1>9. ASSUME NEW c \in Callers, NEW rows, UNCHANGED templateVars,
             call' = [call EXCEPT ![c] = Request("insert templates", 0, rows)],
             \A i \in DOMAIN rows : RowResolves(rows[i])
      PROVE  PromptsInv'
  <2> PICK r : r = Request("insert templates", 0, rows)
    OBVIOUS
  <2>1. r.op = "insert templates" /\ r.value = rows
    BY Zenon DEF Request
  <2>2. Moved(c, r)
    BY <1>9, CallMoves DEF TypeInv
  <2>3. RequestResolves(r)
    BY <1>9, <2>1 DEF RequestResolves
  <2>4. QED
    BY <1>2, <1>4, <1>8, <1>9, <2>2, <2>3
<1>10. ASSUME NEW n \in Names, NEW v \in Nat, NEW p \in Prompts
       PROVE  RowResolves(Authored(n, v, p, Live))
  BY AuthoredFacts, ResolvesResolved DEF RowResolves
<1>11. ASSUME NEW c \in Callers, NEW n \in Names, NEW a \in assets, CreateFromUpload(c, n, a)
       PROVE  PromptsInv'
  <2> PICK row : row = Uploaded(n, NextVersion(n), a)
    OBVIOUS
  <2>1. row.status = "uploaded"
    BY DEF Uploaded
  <2>2. \A i \in DOMAIN <<row>> : <<row>>[i] = row
    OBVIOUS
  <2>3. \A i \in DOMAIN <<row>> : RowResolves(<<row>>[i])
    BY <2>1, <2>2 DEF RowResolves
  <2>4. QED
    BY <1>9, <1>11, <2>3 DEF CreateFromUpload
<1>12. ASSUME NEW c \in Callers, NEW n \in Names, NEW p \in Prompts, CreateAuthored(c, n, p)
       PROVE  PromptsInv'
  <2> PICK row : row = Authored(n, NextVersion(n), p, Live)
    OBVIOUS
  <2>1. RowResolves(row)
    BY <1>10, NextVersionType DEF TypeInv, TemplateTypes
  <2>2. \A i \in DOMAIN <<row>> : <<row>>[i] = row
    OBVIOUS
  <2>3. \A i \in DOMAIN <<row>> : RowResolves(<<row>>[i])
    BY <2>1, <2>2
  <2>4. QED
    BY <1>9, <1>12, <2>3 DEF CreateAuthored
<1>13. ASSUME NEW c \in Callers, SeedStockPresets(c) PROVE PromptsInv'
  <2> PICK rows : rows = [p \in DOMAIN Presets |->
                             Authored(Presets[p], NextVersion(Presets[p]), "scene", Live)]
    OBVIOUS
  <2>1. \A p \in DOMAIN Presets : Presets[p] \in Names
    BY TemplateAssumptions
  <2>2. \A i \in DOMAIN rows : RowResolves(rows[i])
    BY <1>10, <2>1, NextVersionType DEF TypeInv, TemplateTypes, Prompts
  <2>3. QED
    BY <1>9, <1>13, <2>2 DEF SeedStockPresets
<1>14. ASSUME NEW c \in Callers, InsertTemplates(c) PROVE PromptsInv'
  <2> PICK rows : rows = call[c].value
    OBVIOUS
  <2>1. rows \in Seq(TemplateRows)
    <3>1. TemplateRequests /\ call[c].op = "insert templates"
      BY <1>14 DEF InsertTemplates, TypeInv, TemplateTypes
    <3>2. QED
      BY <3>1, Zenon DEF TemplateRequests
  <2>2. \A i \in DOMAIN rows : RowResolves(rows[i])
    BY <1>3, <1>14 DEF RequestResolves, InsertTemplates
  <2>3. CASE Inserted(rows)
    <3>1. \A t \in DOMAIN templates' :
              \/ t \in DOMAIN templates /\ templates'[t] = templates[t]
              \/ \E i \in DOMAIN rows : templates'[t] = rows[i]
      BY <2>1, <2>3, InsertedFacts DEF TypeInv
    <3>2. \A t \in DOMAIN templates' : RowResolves(templates'[t])
      BY <1>3, <2>2, <3>1 DEF RowsResolve
    <3>3. QED
      BY <1>2, <1>6, <1>14, <3>2 DEF InsertTemplates
  <2>4. CASE UNCHANGED templateVars
    BY <1>2, <1>6, <1>8, <1>14, <2>4 DEF InsertTemplates
  <2>5. QED
    BY <1>14, <2>3, <2>4 DEF InsertTemplates
<1>15. ASSUME NEW c \in Callers, NEW t \in DOMAIN templates, StartAnalysis(c, t)
       PROVE  PromptsInv'
  <2>1. Moved(c, Request("start analysing", t, NoPrompt))
    BY <1>15, CallMoves DEF StartAnalysis, TypeInv
  <2>2. QED
    BY <1>2, <1>7, <1>8, <1>15, <2>1 DEF StartAnalysis
<1>16. ASSUME NEW c \in Callers, StartAnalysisCommit(c) PROVE PromptsInv'
  <2>1. Moved(c, Request("analyse", call[c].on, NoPrompt))
    BY <1>16, ContinuesMoves DEF StartAnalysisCommit, TypeInv
  <2>2. \A t \in DOMAIN templates' : RowResolves(templates'[t])
    BY <1>3, <1>16, AnalysisStarted DEF RowsResolve, RowResolves
  <2>3. QED
    BY <1>2, <1>7, <2>1, <2>2
<1>17. ASSUME NEW c \in Callers, Analyse(c) PROVE PromptsInv'
  <2>1. PICK prompt : Continues(c, "finish analysis", prompt)
    BY <1>17 DEF Analyse
  <2>2. Moved(c, Request("finish analysis", call[c].on, prompt))
    BY <2>1, ContinuesMoves DEF TypeInv
  <2>3. QED
    BY <1>2, <1>7, <1>8, <1>17, <2>2 DEF Analyse
<1>18. ASSUME NEW c \in Callers, FinishAnalysis(c) PROVE PromptsInv'
  <2> PICK prompt, new : prompt = call[c].value /\ new = [prompt |-> prompt, status |-> Outcome(prompt)]
    OBVIOUS
  <2>1. prompt \in Prompts \cup {NoPrompt}
    BY <1>18 DEF FinishAnalysis, TypeInv, TemplateTypes, TemplateRequests
  <2>2. new.status = "analysed" => Resolved(new.prompt)
    BY <2>1, ResolvesResolved DEF Outcome
  <2> PICK r : r = Request("commit analysis", call[c].on, new)
    OBVIOUS
  <2>3. r.op = "commit analysis" /\ r.value = new
    BY Zenon DEF Request
  <2>4. RequestResolves(r)
    BY <2>2, <2>3 DEF RequestResolves
  <2>5. Moved(c, r) \/ Ends(c)
    BY <1>18, ContinuesMoves DEF FinishAnalysis, TypeInv
  <2>6. QED
    BY <1>2, <1>4, <1>6, <1>8, <1>18, <2>4, <2>5 DEF FinishAnalysis
<1>19. ASSUME NEW c \in Callers, FinishAnalysisCommit(c) PROVE PromptsInv'
  <2>1. call[c].value.status = "analysed" => Resolved(call[c].value.prompt)
    BY <1>3, <1>19 DEF RequestResolves, FinishAnalysisCommit
  <2>2. \A t \in DOMAIN templates' : RowResolves(templates'[t])
    BY <1>3, <1>19, <2>1, AnalysisFinished DEF RowsResolve, RowResolves
  <2>3. QED
    BY <1>2, <1>6, <1>19, <2>2 DEF FinishAnalysisCommit
<1>20. ASSUME NEW t \in DOMAIN templates, ArchiveTemplate(t) PROVE PromptsInv'
  <2>1. \A u \in DOMAIN templates' : RowResolves(templates'[u])
    BY <1>3, <1>20, Archived DEF RowsResolve, RowResolves
  <2>2. QED
    BY <1>2, <1>3, <1>20, <2>1, Archived
<1>21. QED
  BY <1>11, <1>12, <1>13, <1>14, <1>15, <1>16, <1>17, <1>18, <1>19, <1>20 DEF TemplatesNext

\* The parts of AnalysisInv: what a template's count of analyses says of it, and
\* the rows about to be inserted.
Counted(t) ==
    /\ starts[t] = 0 =>
          /\ templates[t].kind = "analysed_image" => templates[t].status = "uploaded"
          /\ \A c \in Callers : ~Works(c, AnalysisOps, t)
    /\ starts[t] = 1 =>
          /\ \A c, d \in Callers : Works(c, AnalysisOps, t) /\ Works(d, AnalysisOps, t) => c = d
          /\ \A c \in Callers : Works(c, AnalysisOps, t) => templates[t].status = "analysing"
NewRow(row) == row.kind = "analysed_image" => row.status = "uploaded"
RequestIsNew(r) == r.op = "insert templates" => \A i \in DOMAIN r.value : NewRow(r.value[i])

\* The parts of AnalysisInv.
LEMMA AnalysisParts ==
    AnalysisInv <=> /\ \A t \in DOMAIN templates : Counted(t)
                    /\ \A c \in Callers : RequestIsNew(call[c])
  BY DEF AnalysisInv, Counted, RequestIsNew, NewRow

\* No analysis in flight but those there were.
NoNewAnalysis == \A c \in Callers, t \in DOMAIN templates :
                     Works(c, AnalysisOps, t)' => Works(c, AnalysisOps, t)

\* A row that is left alone keeps its part, unless an analysis of it begins.
LEMMA CountedStays ==
    ASSUME NEW t \in DOMAIN templates, Counted(t), templates'[t] = templates[t],
           starts'[t] = starts[t],
           \A c \in Callers : Works(c, AnalysisOps, t)' => Works(c, AnalysisOps, t)
    PROVE  Counted(t)'
  BY DEF Counted

\* The other components analyse no template.
LEMMA AnalysisFramed ==
    ASSUME AnalysisInv, UNCHANGED templateVars, Foreign(TemplateOps)
    PROVE  AnalysisInv'
<1>1. templates' = templates /\ starts' = starts
  BY DEF templateVars
<1>2. NoNewAnalysis
  BY DEF NoNewAnalysis, Works, Foreign, TemplateOps
<1>3. \A c \in Callers : call'[c].op = "insert templates" => call'[c] = call[c]
  BY DEF Foreign, TemplateOps
<1>4. \A t \in DOMAIN templates' : Counted(t)'
  BY <1>1, <1>2, CountedStays, AnalysisParts DEF NoNewAnalysis
<1>5. \A c \in Callers : RequestIsNew(call[c])'
  BY <1>3, AnalysisParts DEF RequestIsNew
<1>6. QED
  BY <1>4, <1>5 DEF AnalysisInv, Counted, RequestIsNew, NewRow

\* Every step of the templates keeps what a template's count of analyses says.
LEMMA AnalysisKept ==
    ASSUME TypeInv, AnalysisInv, TemplatesNext
    PROVE  AnalysisInv'
<1>1. (\A t \in DOMAIN templates : Counted(t)) /\ \A c \in Callers : RequestIsNew(call[c])
  BY AnalysisParts
<1>2. ASSUME \A t \in DOMAIN templates' : Counted(t)',
             \A d \in Callers : RequestIsNew(call'[d])
      PROVE  AnalysisInv'
  <2>1. \A d \in Callers : RequestIsNew(call[d])'
    BY <1>2 DEF RequestIsNew
  <2>2. QED
    BY <1>2, <2>1 DEF AnalysisInv, Counted, RequestIsNew, NewRow
<1>3. ASSUME UNCHANGED templateVars, NoNewAnalysis, \A d \in Callers : RequestIsNew(call'[d])
      PROVE  AnalysisInv'
  <2>1. templates' = templates /\ starts' = starts
    BY <1>3 DEF templateVars
  <2>2. \A t \in DOMAIN templates' : Counted(t)'
    BY <1>1, <1>3, <2>1, CountedStays DEF NoNewAnalysis
  <2>3. QED
    BY <1>2, <1>3, <2>2
<1>4. ASSUME NEW c \in Callers, NEW r, Moved(c, r), RequestIsNew(r)
      PROVE  \A d \in Callers : RequestIsNew(call'[d])
  <2>1. \A d \in Callers : call'[d] = r \/ call'[d] = call[d]
    BY <1>4 DEF Moved
  <2>2. QED
    BY <1>1, <1>4, <2>1
<1>5. ASSUME NEW c \in Callers, NEW r, Moved(c, r), r.op \notin AnalysisOps
      PROVE  NoNewAnalysis
  <2>1. \A d \in Callers : call'[d] = r \/ call'[d] = call[d]
    BY <1>5 DEF Moved
  <2>2. QED
    BY <1>5, <2>1 DEF NoNewAnalysis, Works
<1>6. ASSUME NEW c \in Callers, Ends(c)
      PROVE  /\ NoNewAnalysis /\ \A d \in Callers : RequestIsNew(call'[d])
             /\ \A t : ~Works(c, AnalysisOps, t)'
  <2>1. Moved(c, Idle) /\ Idle.op = "idle" /\ "idle" \notin AnalysisOps
    BY <1>6, EndsMoves, RequestFields DEF TypeInv, AnalysisOps
  <2>2. RequestIsNew(Idle)
    BY <2>1 DEF RequestIsNew
  <2>3. QED
    BY <1>4, <1>5, <2>1, <2>2 DEF Moved, Works
<1>7. ASSUME NEW c \in Callers, NEW rows, UNCHANGED templateVars,
             call' = [call EXCEPT ![c] = Request("insert templates", 0, rows)],
             \A i \in DOMAIN rows : NewRow(rows[i])
      PROVE  AnalysisInv'
  <2> PICK r : r = Request("insert templates", 0, rows)
    OBVIOUS
  <2>1. r.op = "insert templates" /\ r.value = rows /\ "insert templates" \notin AnalysisOps
    BY Zenon DEF Request, AnalysisOps
  <2>2. Moved(c, r)
    BY <1>7, CallMoves DEF TypeInv
  <2>3. RequestIsNew(r)
    BY <1>7, <2>1 DEF RequestIsNew
  <2>4. QED
    BY <1>3, <1>4, <1>5, <1>7, <2>1, <2>2, <2>3
<1>8. ASSUME NEW c \in Callers, NEW n \in Names, NEW a \in assets, CreateFromUpload(c, n, a)
      PROVE  AnalysisInv'
  <2> PICK row : row = Uploaded(n, NextVersion(n), a)
    OBVIOUS
  <2>1. NewRow(row)
    BY DEF Uploaded, NewRow
  <2>2. \A i \in DOMAIN <<row>> : <<row>>[i] = row
    OBVIOUS
  <2>3. \A i \in DOMAIN <<row>> : NewRow(<<row>>[i])
    BY <2>1, <2>2
  <2>4. QED
    BY <1>7, <1>8, <2>3 DEF CreateFromUpload
<1>9. ASSUME NEW n, NEW v, NEW p, NEW spec PROVE NewRow(Authored(n, v, p, spec))
  BY DEF Authored, NewRow
<1>10. ASSUME NEW c \in Callers, NEW n \in Names, NEW p \in Prompts, CreateAuthored(c, n, p)
       PROVE  AnalysisInv'
  <2> PICK row : row = Authored(n, NextVersion(n), p, Live)
    OBVIOUS
  <2>1. \A i \in DOMAIN <<row>> : <<row>>[i] = row
    OBVIOUS
  <2>2. \A i \in DOMAIN <<row>> : NewRow(<<row>>[i])
    BY <1>9, <2>1
  <2>3. QED
    BY <1>7, <1>10, <2>2 DEF CreateAuthored
<1>11. ASSUME NEW c \in Callers, SeedStockPresets(c) PROVE AnalysisInv'
  <2> PICK rows : rows = [p \in DOMAIN Presets |->
                             Authored(Presets[p], NextVersion(Presets[p]), "scene", Live)]
    OBVIOUS
  <2>1. \A i \in DOMAIN rows : NewRow(rows[i])
    BY <1>9
  <2>2. QED
    BY <1>7, <1>11, <2>1 DEF SeedStockPresets
<1>12. ASSUME NEW c \in Callers, InsertTemplates(c) PROVE AnalysisInv'
  <2> PICK rows : rows = call[c].value
    OBVIOUS
  <2>1. rows \in Seq(TemplateRows)
    <3>1. TemplateRequests /\ call[c].op = "insert templates"
      BY <1>12 DEF InsertTemplates, TypeInv, TemplateTypes
    <3>2. QED
      BY <3>1, Zenon DEF TemplateRequests
  <2>2. Ends(c) /\ \A i \in DOMAIN rows : NewRow(rows[i])
    BY <1>1, <1>12 DEF RequestIsNew, InsertTemplates
  <2>3. CASE Inserted(rows)
    <3>1. /\ \A t \in DOMAIN templates :
                templates'[t] = templates[t] /\ starts'[t] = starts[t]
          /\ \A t \in DOMAIN templates' \ DOMAIN templates :
                starts'[t] = 0 /\ \E i \in DOMAIN rows : templates'[t] = rows[i]
      BY <2>1, <2>3, InsertedFacts DEF TypeInv
    <3>2. \A t \in DOMAIN templates : Counted(t)'
      BY <1>1, <1>6, <2>2, <3>1, CountedStays DEF NoNewAnalysis
    <3>3. ASSUME NEW t \in DOMAIN templates' \ DOMAIN templates PROVE Counted(t)'
      <4>1. \A d \in Callers : ~Works(d, AnalysisOps, t)
        BY <3>3 DEF Works, TypeInv, TemplateTypes, TemplateRequests
      <4>2. \A d \in Callers : call'[d] = call[d] \/ d = c
        BY <2>2, EndsMoves DEF TypeInv, Moved
      <4>3. \A d \in Callers : ~Works(d, AnalysisOps, t)'
        BY <1>6, <2>2, <4>1, <4>2 DEF Works
      <4>4. NewRow(templates'[t]) /\ starts'[t] = 0
        BY <2>2, <3>1, <3>3
      <4>5. QED
        BY <4>3, <4>4 DEF Counted, NewRow
    <3>4. QED
      BY <1>2, <1>6, <2>2, <3>2, <3>3
  <2>4. CASE UNCHANGED templateVars
    BY <1>3, <1>6, <2>2, <2>4
  <2>5. QED
    BY <1>12, <2>3, <2>4 DEF InsertTemplates
<1>13. ASSUME NEW c \in Callers, NEW t \in DOMAIN templates, StartAnalysis(c, t)
       PROVE  AnalysisInv'
  <2> PICK r : r = Request("start analysing", t, NoPrompt)
    OBVIOUS
  <2>1. r.op = "start analysing" /\ "start analysing" \notin AnalysisOps
    BY RequestFields DEF AnalysisOps
  <2>2. Moved(c, r)
    BY <1>13, CallMoves DEF StartAnalysis, TypeInv
  <2>3. RequestIsNew(r)
    BY <2>1 DEF RequestIsNew
  <2>4. QED
    BY <1>3, <1>4, <1>5, <1>13, <2>1, <2>2, <2>3 DEF StartAnalysis
<1>14. ASSUME NEW c \in Callers, StartAnalysisCommit(c) PROVE AnalysisInv'
  <2> PICK t, r : t = call[c].on /\ r = Request("analyse", t, NoPrompt)
    OBVIOUS
  <2>1. r.op = "analyse" /\ r.on = t
    BY Zenon DEF Request
  <2>2. Moved(c, r)
    BY <1>14, ContinuesMoves DEF StartAnalysisCommit, TypeInv
  <2>3. /\ t \in DOMAIN templates /\ DOMAIN templates' = DOMAIN templates
        /\ templates'[t].status = "analysing" /\ starts'[t] = starts[t] + 1
        /\ \A u \in DOMAIN templates : u # t =>
              templates'[u] = templates[u] /\ starts'[u] = starts[u]
    BY <1>14, AnalysisStarted
  <2>4. RequestIsNew(r)
    BY <2>1 DEF RequestIsNew
  <2>5. \A d \in Callers : call'[d] = IF d = c THEN r ELSE call[d]
    BY <2>2 DEF Moved
  <2>6. ASSUME NEW u \in DOMAIN templates, u # t PROVE Counted(u)'
    <3>1. \A d \in Callers : Works(d, AnalysisOps, u)' => Works(d, AnalysisOps, u)
      BY <2>1, <2>5, <2>6 DEF Works
    <3>2. QED
      BY <1>1, <2>3, <2>6, <3>1, CountedStays
  <2>7. Counted(t)'
    <3>1. starts[t] \in Nat
      BY <2>3 DEF TypeInv, TemplateTypes
    <3>2. starts'[t] # 0 /\ (starts'[t] = 1 => starts[t] = 0)
      BY <2>3, <3>1
    <3>3. starts[t] = 0 => \A d \in Callers : ~Works(d, AnalysisOps, t)
      BY <1>1, <2>3 DEF Counted
    <3>4. starts[t] = 0 => \A d \in Callers : Works(d, AnalysisOps, t)' => d = c
      BY <2>5, <3>3 DEF Works
    <3>5. QED
      BY <2>3, <3>2, <3>4 DEF Counted
  <2>8. QED
    BY <1>2, <1>4, <2>2, <2>3, <2>4, <2>6, <2>7
<1>15. ASSUME NEW c \in Callers, NEW op, NEW value, call[c].op \in AnalysisOps, op \in AnalysisOps,
              UNCHANGED templateVars, Continues(c, op, value)
       PROVE  AnalysisInv'
  <2> PICK r : r = Request(op, call[c].on, value)
    OBVIOUS
  <2>1. r.op = op /\ r.on = call[c].on
    BY Zenon DEF Request
  <2>2. Moved(c, r)
    BY <1>15, ContinuesMoves DEF TypeInv
  <2>3. RequestIsNew(r)
    BY <1>15, <2>1 DEF RequestIsNew, AnalysisOps
  <2>4. \A d \in Callers : call'[d] = IF d = c THEN r ELSE call[d]
    BY <2>2 DEF Moved
  <2>5. NoNewAnalysis
    BY <1>15, <2>1, <2>4 DEF NoNewAnalysis, Works
  <2>6. QED
    BY <1>3, <1>4, <1>15, <2>2, <2>3, <2>5
<1>16. ASSUME NEW c \in Callers, Analyse(c) PROVE AnalysisInv'
  <2>1. PICK prompt : Continues(c, "finish analysis", prompt)
    BY <1>16 DEF Analyse
  <2>2. call[c].op \in AnalysisOps /\ "finish analysis" \in AnalysisOps
    BY <1>16 DEF Analyse, AnalysisOps
  <2>3. QED
    BY <1>15, <1>16, <2>1, <2>2 DEF Analyse
<1>17. ASSUME NEW c \in Callers, FinishAnalysis(c) PROVE AnalysisInv'
  <2>1. Ends(c) \/ \E value : Continues(c, "commit analysis", value)
    BY <1>17 DEF FinishAnalysis
  <2>2. call[c].op \in AnalysisOps /\ "commit analysis" \in AnalysisOps
    BY <1>17 DEF FinishAnalysis, AnalysisOps
  <2>3. QED
    BY <1>3, <1>6, <1>15, <1>17, <2>1, <2>2 DEF FinishAnalysis
<1>18. ASSUME NEW c \in Callers, FinishAnalysisCommit(c) PROVE AnalysisInv'
  <2> PICK t : t = call[c].on
    OBVIOUS
  <2>1. /\ t \in DOMAIN templates /\ DOMAIN templates' = DOMAIN templates /\ starts' = starts
        /\ \A u \in DOMAIN templates : u # t => templates'[u] = templates[u]
    BY <1>18, AnalysisFinished
  <2>2. Ends(c) /\ Works(c, AnalysisOps, t)
    BY <1>18 DEF FinishAnalysisCommit, Works, AnalysisOps
  <2>3. \A u \in DOMAIN templates : u # t => Counted(u)'
    BY <1>1, <1>6, <2>1, <2>2, CountedStays DEF NoNewAnalysis
  <2>4. Counted(t)'
    <3>1. starts[t] # 0
      BY <1>1, <2>1, <2>2 DEF Counted
    <3>2. starts[t] = 1 => \A d \in Callers : Works(d, AnalysisOps, t) => d = c
      BY <1>1, <2>1, <2>2 DEF Counted
    <3>3. starts[t] = 1 => \A d \in Callers : ~Works(d, AnalysisOps, t)'
      BY <1>6, <2>1, <2>2, <3>2 DEF NoNewAnalysis
    <3>4. QED
      BY <2>1, <3>1, <3>3 DEF Counted
  <2>5. QED
    BY <1>2, <1>6, <2>1, <2>2, <2>3, <2>4
<1>19. ASSUME NEW t \in DOMAIN templates, ArchiveTemplate(t) PROVE AnalysisInv'
  <2>1. /\ DOMAIN templates' = DOMAIN templates /\ starts' = starts /\ call' = call
        /\ templates[t].status = "analysed" /\ templates'[t].kind = templates[t].kind
        /\ \A u \in DOMAIN templates : u # t => templates'[u] = templates[u]
    BY <1>19, Archived DEF KindsKept
  <2>2. \A d \in Callers, u \in DOMAIN templates : Works(d, AnalysisOps, u)' <=> Works(d, AnalysisOps, u)
    BY <2>1 DEF Works
  <2>3. \A u \in DOMAIN templates : u # t => Counted(u)'
    BY <1>1, <2>1, <2>2, CountedStays
  <2>4. Counted(t)'
    BY <1>1, <2>1, <2>2 DEF Counted
  <2>5. QED
    BY <1>1, <1>2, <2>1, <2>3, <2>4
<1>20. QED
  BY <1>8, <1>10, <1>11, <1>12, <1>13, <1>14, <1>16, <1>17, <1>18, <1>19 DEF TemplatesNext

------------------------------------------------------------------------------
(* Theorems *)

\* The invariant holds at first.
LEMMA IntakeInit == Init => IntakeInv
<1> SUFFICES ASSUME Init PROVE IntakeInv
  OBVIOUS
<1> USE DEF Init, AssetsInit, ProductsInit, TemplatesInit
<1>1. scope \in Scopes /\ DOMAIN call = Callers
  OBVIOUS
<1>2. \A c \in Callers : call[c].op = "idle"
  BY RequestFields
<1>3. AssetTypes
  <2>1. AssetRequests
    BY <1>2 DEF AssetRequests, AssetOps
  <2>2. QED
    BY <1>1, <2>1, ScopeFacts DEF AssetTypes
<1>4. ProductTypes
  <2>1. ProductRequests
    BY <1>2 DEF ProductRequests, ValidationOps
  <2>2. PICK s \in Specs : revisions = <<s>>
    OBVIOUS
  <2>3. revisions \in Seq(Specs) /\ Len(revisions) = 1
    BY <2>2
  <2>4. versions \in Seq(Specs) /\ Len(versions) = 0 /\ images \in Seq(ImageRows) /\ Len(images) = 0
    BY EmptyTable
  <2>5. product \in {NoProduct} /\ variant \in BOOLEAN
    OBVIOUS
  <2> HIDE DEF Init, AssetsInit, ProductsInit, TemplatesInit
  <2>6. QED
    BY <1>1, <2>1, <2>3, <2>4, <2>5, ScopeFacts DEF ProductTypes
<1>5. TemplateTypes
  <2>1. TemplateRequests
    BY <1>2 DEF TemplateRequests, AnalysisOps
  <2>2. QED
    BY <1>1, <2>1, ScopeFacts DEF TemplateTypes
<1>6. UploadsInv
  <2>1. \A c \in Callers : \A k : ~Works(c, AssetOps, k)
    BY <1>2 DEF Works, AssetOps
  <2>2. QED
    BY <2>1 DEF UploadsInv
<1>7. DOMAIN images = {} /\ DOMAIN templates = {} /\ product = NoProduct
  BY EmptyTable
<1> HIDE DEF Init, AssetsInit, ProductsInit, TemplatesInit
<1>8. ValidationInv
  BY <1>2, <1>7 DEF ValidationInv
<1>9. ReadinessInv
  BY <1>2, <1>7 DEF ReadinessInv, HasProduct
<1>10. PromptsInv
  BY <1>2, <1>7 DEF PromptsInv
<1>11. AnalysisInv
  BY <1>2, <1>7 DEF AnalysisInv
<1>12. QED
  BY <1>1, <1>3, <1>4, <1>5, <1>6, <1>8, <1>9, <1>10, <1>11 DEF IntakeInv, TypeInv

\* What is foreign to more operations is foreign to fewer.
LEMMA ForeignFewer ==
    ASSUME NEW all, NEW some, Foreign(all), some \subseteq all
    PROVE  Foreign(some)
  BY DEF Foreign

\* Every step keeps the invariant.
LEMMA IntakeStep == IntakeInv /\ [Next]_vars => IntakeInv'
<1> SUFFICES ASSUME IntakeInv, [Next]_vars PROVE IntakeInv'
  OBVIOUS
<1> USE DEF IntakeInv
<1>1. DOMAIN call = Callers
  BY DEF TypeInv
<1>2. ASSUME AssetsNext, UNCHANGED <<productVars, templateVars>>, UNCHANGED scope
      PROVE  IntakeInv'
  <2>1. Foreign(ProductOps) /\ Foreign(TemplateOps) /\ DOMAIN call' = Callers
    BY <1>1, <1>2, AssetsForeign, ForeignFewer DEF Foreign
  <2>2. \A i \in DOMAIN images : Fit(i) => Fit(i)'
    BY <1>2, FitGrows DEF productVars
  <2>3. TypeInv'
    BY <1>2, <2>1, AssetTypesKept, ProductTypesFramed, TemplateTypesFramed DEF TypeInv
  <2>4. UploadsInv'
    BY <1>2, UploadsKept
  <2>5. ValidationInv' /\ ReadinessInv'
    BY <1>2, <2>1, <2>2, AssetsGrow, ValidationFramed, ReadinessFramed
  <2>6. PromptsInv'
    <3>1. \A p : Resolved(p) => Resolved(p)'
      BY <1>2 DEF Resolved, productVars
    <3>2. QED
      BY <1>2, <2>1, <3>1, PromptsFramed
  <2>7. AnalysisInv'
    BY <1>2, <2>1, AnalysisFramed
  <2>8. QED
    BY <2>3, <2>4, <2>5, <2>6, <2>7
<1>3. ASSUME ProductsNext, UNCHANGED <<assetVars, templateVars>>, UNCHANGED scope
      PROVE  IntakeInv'
  <2>1. Foreign(AssetOps) /\ Foreign(TemplateOps) /\ DOMAIN call' = Callers
    BY <1>1, <1>3, ProductsForeign, ForeignFewer DEF Foreign
  <2>2. TypeInv'
    BY <1>3, <2>1, AssetTypesFramed, ProductTypesKept, TemplateTypesFramed DEF TypeInv
  <2>3. UploadsInv'
    BY <1>3, <2>1, UploadsFramed
  <2>4. ValidationInv'
    <3>1. PhotosFit' /\ VerdictsFit'
      BY <1>3, PhotosKept, VerdictsKept
    <3>2. QED
      BY <3>1 DEF ValidationInv, PhotosFit, VerdictsFit
  <2>5. ReadinessInv'
    BY <1>3, ReadinessKept
  <2>6. PromptsInv'
    <3>1. \A r \in DOMAIN revisions : r \in DOMAIN revisions' /\ revisions'[r] = revisions[r]
      <4>1. CASE revisions' = revisions
        BY <4>1
      <4>2. ASSUME NEW d \in Demands, ReviseSpec(d)
            PROVE  \A r \in DOMAIN revisions : r \in DOMAIN revisions' /\ revisions'[r] = revisions[r]
        <5>1. Live \in Specs /\ revisions \in Seq(Specs)
          BY ScopeFacts DEF Live, TypeInv, ProductTypes
        <5>2. PICK new \in Specs : revisions' = Append(revisions, new)
          BY <4>2, <5>1 DEF ReviseSpec, Specs
        <5>3. QED
          BY <5>1, <5>2, AppendRow
      <4>3. QED
        BY <1>3, <4>1, <4>2
        DEF ProductsNext, PublishSpec, CreateProduct, CreateProductVariant,
            CaptureProductInputImage, StartValidation, StartValidationCommit, InspectImage,
            CompleteValidation, CompleteValidationCommit, RecomputeRead, RecomputeCommit,
            productVars
    <3>2. \A p : Resolved(p) => Resolved(p)'
      BY <3>1 DEF Resolved
    <3>3. QED
      BY <1>3, <2>1, <3>2, PromptsFramed
  <2>7. AnalysisInv'
    BY <1>3, <2>1, AnalysisFramed
  <2>8. QED
    BY <2>2, <2>3, <2>4, <2>5, <2>6, <2>7
<1>4. ASSUME TemplatesNext, UNCHANGED <<assetVars, productVars>>, UNCHANGED scope
      PROVE  IntakeInv'
  <2>1. Foreign(AssetOps) /\ Foreign(ProductOps) /\ DOMAIN call' = Callers
    BY <1>1, <1>4, TemplatesForeign, ForeignFewer DEF Foreign
  <2>2. \A i \in DOMAIN images : Fit(i) => Fit(i)'
    BY <1>4 DEF Fit, productVars, assetVars
  <2>3. TypeInv'
    BY <1>4, <2>1, AssetTypesFramed, ProductTypesFramed, TemplateTypesKept DEF TypeInv
  <2>4. UploadsInv'
    BY <1>4, <2>1, UploadsFramed
  <2>5. ValidationInv' /\ ReadinessInv'
    BY <1>4, <2>1, <2>2, ValidationFramed, ReadinessFramed DEF assetVars
  <2>6. PromptsInv' /\ AnalysisInv'
    BY <1>4, PromptsKept, AnalysisKept
  <2>7. QED
    BY <2>3, <2>4, <2>5, <2>6
<1>5. ASSUME UNCHANGED <<assetVars, productVars, templateVars, scope>>,
             Foreign(AssetOps), Foreign(ProductOps), Foreign(TemplateOps)
      PROVE  IntakeInv'
  <2>1. \A i \in DOMAIN images : Fit(i) => Fit(i)'
    BY <1>5 DEF Fit, productVars, assetVars
  <2>2. \A p : Resolved(p) => Resolved(p)'
    BY <1>5 DEF Resolved, productVars
  <2>3. TypeInv'
    <3>1. DOMAIN call' = Callers
      BY <1>5 DEF Foreign
    <3>2. QED
      BY <1>5, <3>1, AssetTypesFramed, ProductTypesFramed, TemplateTypesFramed DEF TypeInv
  <2>4. UploadsInv' /\ AnalysisInv'
    BY <1>5, UploadsFramed, AnalysisFramed
  <2>5. ValidationInv' /\ ReadinessInv'
    BY <1>5, <2>1, ValidationFramed, ReadinessFramed DEF assetVars
  <2>6. PromptsInv'
    BY <1>5, <2>2, PromptsFramed
  <2>7. QED
    BY <2>3, <2>4, <2>5, <2>6
<1>6. ASSUME NEW c \in Callers, Crash(c), UNCHANGED scope PROVE IntakeInv'
  <2>1. Foreign(AssetOps \cup ProductOps \cup TemplateOps)
    BY <1>1, <1>6, CrashForeign
  <2>2. Foreign(AssetOps) /\ Foreign(ProductOps) /\ Foreign(TemplateOps)
    BY <2>1, ForeignFewer
  <2>3. QED
    BY <1>5, <1>6, <2>2 DEF Crash
<1>7. ASSUME UNCHANGED vars PROVE IntakeInv'
  <2>1. Foreign(AssetOps) /\ Foreign(ProductOps) /\ Foreign(TemplateOps)
    BY <1>1, <1>7, StillForeign DEF vars
  <2>2. QED
    BY <1>5, <1>7, <2>1 DEF vars
<1>8. QED
  BY <1>2, <1>3, <1>4, <1>6, <1>7 DEF Next

\* The inductive invariant holds of uploads, the product and the templates
\* together, whatever interleaves, crashes or is repeated.
THEOREM IntakeInvariant == Spec => []IntakeInv
  BY IntakeInit, IntakeStep, PTL DEF Spec

\* Every variable keeps its type and its bound.
THEOREM TypeCorrect == Spec => []TypeOK
<1>1. IntakeInv => TypeOK
  BY DEF IntakeInv, TypeInv, AssetTypes, ProductTypes, TemplateTypes, TypeOK, TemplateRows
<1>2. QED
  BY <1>1, IntakeInvariant, PTL

\* VerifyAndRegisterUpload: of a presigned URL that was PUT once, a row exists
\* only over the very bytes that were verified, for any number of requests,
\* uploads and duplicates.
THEOREM RowsBacked == Spec => []AssetsBacked
<1>1. IntakeInv => AssetsBacked
  BY DEF IntakeInv, UploadsInv, AssetsBacked, TypeInv, AssetTypes, AssetRows
<1>2. QED
  BY <1>1, IntakeInvariant, PTL

\* RecomputeProductReadiness: no product is ready, or needs attention, that did
\* not once meet all its pinned version demands.
THEOREM ReadinessEarned == Spec => []ReadyWasEarned
<1>1. IntakeInv => ReadyWasEarned
  BY DEF IntakeInv, ReadinessInv, ReadyWasEarned, Earned, Fit
<1>2. QED
  BY <1>1, IntakeInvariant, PTL

\* CompleteTemplateAnalysis and the authored templates: what generation can
\* select has a prompt that resolved.
THEOREM SelectableResolve == Spec => []SelectableTemplatesResolve
<1>1. IntakeInv => SelectableTemplatesResolve
  BY DEF IntakeInv, PromptsInv, SelectableTemplatesResolve, Resolved
<1>2. QED
  BY <1>1, IntakeInvariant, PTL

\* ArchiveTemplate: no analysis brings a template back, unless two were started.
THEOREM ArchivedStays == Spec => ArchivedForGood
<1> DEFINE Stays == \A t \in DOMAIN templates :
                        templates[t].status = "archived" /\ starts'[t] <= 1 =>
                            templates'[t].status = "archived"
<1>1. IntakeInv /\ [Next]_vars => [Stays]_vars
  <2> SUFFICES ASSUME IntakeInv, Next PROVE Stays
    OBVIOUS
  <2>1. TypeInv /\ \A t \in DOMAIN templates : Counted(t)
    BY AnalysisParts DEF IntakeInv
  <2>2. \A t \in DOMAIN templates : starts[t] \in Nat
    BY <2>1 DEF TypeInv, TemplateTypes
  <2>3. ASSUME UNCHANGED templates PROVE Stays
    BY <2>3
  <2>4. ASSUME NEW c \in Callers, StartAnalysisCommit(c) PROVE Stays
    BY <2>1, <2>2, <2>4, AnalysisStarted DEF Counted
  <2>5. ASSUME NEW c \in Callers, FinishAnalysisCommit(c) PROVE Stays
    <3>1. Works(c, AnalysisOps, call[c].on)
      BY <2>5 DEF FinishAnalysisCommit, Works, AnalysisOps
    <3>2. QED
      BY <2>1, <2>2, <2>5, <3>1, AnalysisFinished DEF Counted
  <2>6. ASSUME NEW t \in DOMAIN templates, ArchiveTemplate(t) PROVE Stays
    BY <2>1, <2>6, Archived
  <2>7. ASSUME NEW c \in Callers, InsertTemplates(c) PROVE Stays
    <3>1. TemplateTypes /\ TemplateRequests /\ call[c].op = "insert templates"
      BY <2>1, <2>7 DEF InsertTemplates, TypeInv, TemplateTypes
    <3>2. call[c].value \in Seq(TemplateRows)
      BY <3>1, Zenon DEF TemplateRequests
    <3>3. CASE Inserted(call[c].value)
      BY <3>1, <3>2, <3>3, InsertedFacts
    <3>4. QED
      BY <2>3, <2>7, <3>3 DEF InsertTemplates, templateVars
  <2>8. QED
    BY <2>3, <2>4, <2>5, <2>6, <2>7
    DEF Next, TemplatesNext, CreateFromUpload, CreateAuthored, SeedStockPresets, StartAnalysis,
        Analyse, FinishAnalysis, Crash, templateVars
<1>2. QED
  BY <1>1, IntakeInvariant, PTL DEF Spec, ArchivedForGood
=============================================================================

------------------------------ MODULE Products ------------------------------
(***************************************************************************)
(* One product of one category: creation against the category's spec, its  *)
(* variant, the photos captured for its input slot, their validation, and  *)
(* the readiness computed from them (decisions D12, D15, section 6.1).     *)
(*                                                                         *)
(* A spec is the set of things it demands: "attribute", a required         *)
(* attribute; "slot", the input slot is required; "join", the catalog slot *)
(* draws the input slot (Templates).  The live definitions change under    *)
(* the product, which pinned a published version.                          *)
(*                                                                         *)
(* No row is locked or versioned: a transaction reads a row, checks its    *)
(* status and writes the status later, so its read and its commit are      *)
(* separate steps, over what others committed between.                     *)
(***************************************************************************)
EXTENDS Assets

Demands == {"attribute", "slot", "join"}
Specs == SUBSET Demands

NoProduct == [status |-> "none"]
ProductStatuses == {"draft", "ready", "needs_attention"}
ImageStatuses == {"captured", "validating", "ready", "rejected"}
ImageRows == [asset: AssetRows, variant: BOOLEAN, status: ImageStatuses, passed: BOOLEAN]

VARIABLES
    revisions,  \* the live definitions, with their past (the last one is live)
    versions,   \* category_spec_versions: the published snapshots
    product,    \* the product; version is the one it pinned
    variant,    \* does the product have its variant?
    images      \* product_input_images; passed: was it ever ready? (history)

productVars == <<revisions, versions, product, variant, images>>

Live == revisions[Len(revisions)]
Pinned == versions[product.version]
HasProduct == product # NoProduct

ProductsInit ==
    /\ revisions \in {<<s>> : s \in Specs}
    /\ versions = <<>>
    /\ product = NoProduct
    /\ variant = FALSE
    /\ images = <<>>

------------------------------------------------------------------------------
(* The category, whose own operations are those of module Taxonomy *)

\* An attribute or slot is made required or optional, the slot joined or left.
ReviseSpec(d) ==
    /\ Len(revisions) <= scope.revisions
    /\ revisions' = Append(revisions, IF d \in Live THEN Live \ {d} ELSE Live \cup {d})
    /\ UNCHANGED <<versions, product, variant, images, call>>

PublishSpec ==
    /\ Len(versions) < scope.versions
    /\ versions' = Append(versions, Live)
    /\ UNCHANGED <<revisions, product, variant, images, call>>

------------------------------------------------------------------------------
(* The product *)

\* CreateProduct: the attributes are validated against the live definitions,
\* the published version is the one that is pinned.
CreateProduct(filled) ==
    /\ ~HasProduct
    /\ versions # <<>>
    /\ "attribute" \in Live => filled
    /\ product' = [version |-> Len(versions), filled |-> filled, status |-> "draft"]
    /\ UNCHANGED <<revisions, versions, variant, images, call>>

\* CreateProductVariant.
CreateProductVariant ==
    /\ HasProduct /\ ~variant
    /\ variant' = TRUE
    /\ UNCHANGED <<revisions, versions, product, images, call>>

\* CaptureProductInputImage: of an input asset, for the product or its variant.
CaptureProductInputImage(a, v) ==
    /\ HasProduct
    /\ v => variant
    /\ a \in assets
    /\ kinds[a.key] = "input"
    /\ Len(images) < scope.images
    /\ images' = Append(images, [asset |-> a, variant |-> v,
                                 status |-> "captured", passed |-> FALSE])
    /\ UNCHANGED <<revisions, versions, product, variant, call>>

------------------------------------------------------------------------------
(* InputImageValidationAgent.run *)

\* StartInputImageValidation reads the image and checks its status ...
StartValidation(c, i) ==
    /\ call[c] = Idle
    /\ images[i].status = "captured"
    /\ call' = [call EXCEPT ![c] = Request("start validating", i, NoBytes)]
    /\ UNCHANGED productVars

\* ... and commits.
StartValidationCommit(c) ==
    /\ call[c].op = "start validating"
    /\ images' = [images EXCEPT ![call[c].on].status = "validating"]
    /\ Continues(c, "inspect", NoBytes)
    /\ UNCHANGED <<revisions, versions, product, variant>>

\* validate_input_image: resolution, aspect, blur and exposure.
Passes(data) == data \notin Poor \cup {NoBytes}

\* The bytes are read and inspected; a storage failure is a rejection.
InspectImage(c) ==
    /\ call[c].op = "inspect"
    /\ LET data == storage[images[call[c].on].asset.key]
       IN  \E verdict \in {"rejected"} \cup IF Passes(data) THEN {"ready"} ELSE {} :
               Continues(c, "complete validation", verdict)
    /\ UNCHANGED productVars

\* CompleteInputImageValidation reads the row again and refuses any status
\* but validating ...
CompleteValidation(c) ==
    /\ call[c].op = "complete validation"
    /\ IF images[call[c].on].status = "validating"
       THEN Continues(c, "commit validation", call[c].value)
       ELSE Ends(c)
    /\ UNCHANGED productVars

\* ... and commits the verdict.
CompleteValidationCommit(c) ==
    /\ call[c].op = "commit validation"
    /\ images' = [images EXCEPT ![call[c].on].status = call[c].value,
                                ![call[c].on].passed = @ \/ call[c].value = "ready"]
    /\ Ends(c)
    /\ UNCHANGED <<revisions, versions, product, variant>>

------------------------------------------------------------------------------
(* RecomputeProductReadiness *)

\* resolve_input_image with variant_id None: the first image shared by all
\* variants.  list_for_product has no ORDER BY, so any one may be first.
SlotImages == {i \in DOMAIN images : ~images[i].variant}

FillsSlot(i) == images[i].status = "ready"

\* Mutant: readiness is computed against the live definitions.
DemandedLive == Live

\* What the product must have: the snapshot it pinned says.
Demanded == Pinned

\* compute_product_readiness over the rows the transaction read.
RecomputeRead(c) ==
    /\ call[c] = Idle
    /\ HasProduct
    /\ LET attributes == "attribute" \in Demanded => product.filled
           outcomes == IF "slot" \notin Demanded THEN {attributes}
                       ELSE IF SlotImages = {} THEN {FALSE}
                       ELSE {attributes /\ FillsSlot(i) : i \in SlotImages}
       IN  \E isReady \in outcomes :
               call' = [call EXCEPT ![c] = Request("recompute", product.status, isReady)]
    /\ UNCHANGED productVars

\* Only a product that was ready can need attention.
Regressed(status) == IF status = "draft" THEN "draft" ELSE "needs_attention"

\* mark_ready or mark_needs_attention, from the status that was read.  The
\* UPDATE leaves out a column whose value is the one that was read.
RecomputeCommit(c) ==
    /\ call[c].op = "recompute"
    /\ LET read == call[c].on
           new == IF call[c].value THEN "ready" ELSE Regressed(read)
       IN  product' = IF new = read THEN product ELSE [product EXCEPT !.status = new]
    /\ Ends(c)
    /\ UNCHANGED <<revisions, versions, variant, images>>

ProductsNext ==
    \/ \E d \in Demands : ReviseSpec(d)
    \/ PublishSpec
    \/ \E filled \in BOOLEAN : CreateProduct(filled)
    \/ CreateProductVariant
    \/ \E a \in assets, v \in BOOLEAN : CaptureProductInputImage(a, v)
    \/ \E c \in Callers, i \in DOMAIN images : StartValidation(c, i)
    \/ \E c \in Callers :
          \/ StartValidationCommit(c) \/ InspectImage(c)
          \/ CompleteValidation(c) \/ CompleteValidationCommit(c)
          \/ RecomputeRead(c) \/ RecomputeCommit(c)
=============================================================================

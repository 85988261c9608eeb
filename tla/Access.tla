------------------------------- MODULE Access -------------------------------
(***************************************************************************)
(* Who may do what: the capabilities a role grants, the claims an access   *)
(* token carries, and the gate of every route of the three authenticated   *)
(* planes (api/routers/*.py).  Constant-level: Identity issues the claims  *)
(* and asks these operators what they are good for.                        *)
(*                                                                         *)
(* A route is [gate, effect].  Its gate is the capability the route        *)
(* requires, or "member" where a tenant-bound token is enough; its effect  *)
(* is "read", "change" (it writes, or makes a worker write) or "approve"   *)
(* (it takes a review decision).  Request and response bodies are data.    *)
(***************************************************************************)

Capabilities == {"catalog.publish", "catalog.approve", "product.manage", "template.manage",
                 "member.manage", "settings.manage", "taxonomy.manage", "domains.manage"}

Roles == {"owner", "admin", "catalog_manager", "approver", "viewer"}

ManagerCapabilities ==
    {"catalog.publish", "template.manage", "product.manage", "taxonomy.manage"}

\* ROLE_CAPABILITIES.
RoleCapabilities(role) ==
    CASE role \in {"owner", "admin"} ->
            ManagerCapabilities \cup {"catalog.approve", "member.manage", "settings.manage",
                                      "domains.manage"}
      [] role = "catalog_manager" -> ManagerCapabilities
      [] role = "approver" -> {"catalog.approve"}
      [] OTHER -> {}

Read(gate) == [gate |-> gate, effect |-> "read"]
Change(gate) == [gate |-> gate, effect |-> "change"]
Approve(gate) == [gate |-> gate, effect |-> "approve"]

------------------------------------------------------------------------------
(* The admin plane, router by router *)

CategoryRoutes == [
    create_category             |-> Change("taxonomy.manage"),
    get_category                |-> Read("member"),
    list_categories             |-> Read("member"),
    update_category             |-> Change("taxonomy.manage"),
    move_category               |-> Change("taxonomy.manage"),
    publish_category_spec       |-> Change("catalog.publish"),
    get_published_category_spec |-> Read("member")]

AttributeRoutes == [
    create_attribute_definition |-> Change("taxonomy.manage"),
    list_attribute_definitions  |-> Read("member"),
    update_attribute_definition |-> Change("taxonomy.manage")]

AxisRoutes == [
    create_variant_axis         |-> Change("taxonomy.manage"),
    list_variant_axes           |-> Read("member"),
    update_variant_axis         |-> Change("taxonomy.manage")]

AxisValueRoutes == [
    create_variant_axis_value   |-> Change("taxonomy.manage"),
    list_variant_axis_values    |-> Read("member"),
    update_variant_axis_value   |-> Change("taxonomy.manage")]

InputSlotRoutes == [
    create_input_image_slot     |-> Change("taxonomy.manage"),
    list_input_image_slots      |-> Read("member"),
    update_input_image_slot     |-> Change("taxonomy.manage")]

CatalogSlotRoutes == [
    create_catalog_image_slot   |-> Change("taxonomy.manage"),
    list_catalog_image_slots    |-> Read("member"),
    update_catalog_image_slot   |-> Change("taxonomy.manage")]

RequirementRoutes == [
    attach_input_to_catalog_slot    |-> Change("taxonomy.manage"),
    list_catalog_slot_requirements  |-> Read("member"),
    update_catalog_slot_requirement |-> Change("taxonomy.manage"),
    detach_input_from_catalog_slot  |-> Change("taxonomy.manage")]

SettingRoutes == [
    upsert_tenant_setting       |-> Change("settings.manage"),
    upsert_category_setting     |-> Change("settings.manage"),
    upsert_product_setting      |-> Change("settings.manage"),
    resolve_setting             |-> Read("member")]

AssetRoutes == [
    request_upload              |-> Change("template.manage"),
    request_download            |-> Read("template.manage")]

TemplateRoutes == [
    create_authored_template    |-> Change("template.manage"),
    create_template_from_upload |-> Change("template.manage"),
    seed_stock_presets          |-> Change("template.manage"),
    list_templates              |-> Read("member"),
    analyse_template            |-> Change("template.manage"),
    archive_template            |-> Change("template.manage")]

ProductRoutes == [
    create_product              |-> Change("product.manage"),
    list_products               |-> Read("product.manage"),
    recompute_product_readiness |-> Change("product.manage"),
    create_product_variant      |-> Change("product.manage")]

InputImageRoutes == [
    capture_product_input_image |-> Change("product.manage"),
    validate_input_image        |-> Change("product.manage"),
    create_generation_request   |-> Change("product.manage"),
    fan_out_generation_items    |-> Change("product.manage")]

GenerationRoutes == [
    render_next_generation_item   |-> Change("product.manage"),
    qc_next_catalog_image         |-> Change("product.manage"),
    reap_stuck_jobs               |-> Change("product.manage"),
    reconcile_generation_requests |-> Change("product.manage")]

CatalogImageRoutes == [
    list_catalog_images_for_review          |-> Read("catalog.approve"),
    approve_catalog_image                   |-> Approve("catalog.approve"),
    reject_catalog_image                    |-> Approve("catalog.approve"),
    bulk_approve_catalog_images_for_product |-> Approve("catalog.approve")]

ContentRoutes == [
    generate_content_draft          |-> Change("product.manage"),
    generate_next_content_draft     |-> Change("product.manage"),
    list_content_drafts_for_variant |-> Read("catalog.approve"),
    approve_content_draft           |-> Approve("catalog.approve")]

\* Mutant: the review routes carry the gate of the routes around them.
ContentReviewRoutesManaged == [
    reject_content_draft |-> Approve("product.manage"),
    edit_content_draft   |-> Change("product.manage")]

ContentReviewRoutes == [
    reject_content_draft |-> Approve("catalog.approve"),
    edit_content_draft   |-> Change("product.manage")]

PublishingRoutes == [
    create_publication             |-> Change("product.manage"),
    publish_next                   |-> Change("product.manage"),
    release_scheduled_publications |-> Change("product.manage"),
    cancel_publication             |-> Change("product.manage"),
    fetch_metrics_next             |-> Change("product.manage")]

DomainRoutes == [
    register_domain |-> Change("domains.manage"),
    list_domains    |-> Read("member")]

\* Everything admin.router includes.
AdminRoutes ==
    UNION {{table[op] : op \in DOMAIN table} :
              table \in {CategoryRoutes, AttributeRoutes, AxisRoutes, AxisValueRoutes,
                         InputSlotRoutes, CatalogSlotRoutes, RequirementRoutes, SettingRoutes,
                         AssetRoutes, TemplateRoutes, ProductRoutes, InputImageRoutes,
                         GenerationRoutes, CatalogImageRoutes, ContentRoutes,
                         ContentReviewRoutes, PublishingRoutes, DomainRoutes}}

------------------------------------------------------------------------------
(* Admission.  claims is what get_current_principal decodes; nothing is    *)
(* looked up in the database.                                              *)

None == "none"

\* require_tenant_context, then the route's own require_capability.
AdmittedToAdmin(claims, route) ==
    /\ claims.tenant # None
    /\ route.gate = "member" \/ route.gate \in claims.capabilities

\* require_platform_admin.
AdmittedToPlatform(claims) == claims.is_platform_admin
=============================================================================

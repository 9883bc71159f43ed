--------------------------- MODULE MCGatewayCache ---------------------------
(***************************************************************************)
(* A small instance of GatewayCache: one catalog write, and requests of    *)
(* one user of one department.                                             *)
(***************************************************************************)
EXTENDS GatewayCache, TLC

CONSTANTS model

MCOrder == <<"catalog", "user">>

CatalogScopeOf == model :> "catalog"

=============================================================================

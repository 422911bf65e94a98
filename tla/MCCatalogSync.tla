--------------------------- MODULE MCCatalogSync ---------------------------
(* A small site for CatalogSync: facility f3 has no courts. *)
EXTENDS CatalogSync, TLC

SiteFacilities == "s1" :> {"f1", "f2"} @@ "s2" :> {"f3", "f4"}
SiteCourts == "f1" :> {"c1", "c2"} @@ "f2" :> {"c3"} @@ "f3" :> {} @@ "f4" :> {"c4"}
=============================================================================

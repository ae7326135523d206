------------------------- MODULE MCComposeLifecycle -------------------------
(* Instances of ComposeLifecycle. *)
EXTENDS ComposeLifecycle, TLC

\* The name of web is part of the name of web-api.
MCMatches == "web" :> {"web", "web-api"} @@ "web-api" :> {"web-api"}
MCOne == "web" :> {"web"}
=============================================================================

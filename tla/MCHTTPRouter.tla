----------------------------- MODULE MCHTTPRouter -----------------------------
(* Instances of HTTPRouter.                                                 *)
EXTENDS HTTPRouter

\* "/", "/app", "/static", a route that is too long.
SomeRoutes == {<<"/">>, <<"/", "app">>, <<"/", "static">>, <<"/", "app", "sub", "path">>}

SomeUrls == {<<"/">>, <<"/", "app">>, <<"/", "app", "sub">>, <<"other">>}
=============================================================================

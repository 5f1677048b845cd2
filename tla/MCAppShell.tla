----------------------------- MODULE MCAppShell -----------------------------
(***************************************************************************)
(* Two proxies and two documents: enough to change the proxy and go back,  *)
(* and to tell a late result from the current one.  Two downloads would    *)
(* overlap if the page let them.                                           *)
(***************************************************************************)
EXTENDS AppShell

CONSTANTS p1, p2, a1, a2, d1, d2

MCProxies == {p1, p2}
MCDocuments == {a1, a2}
MCDownload == {d1, d2}
=============================================================================

---------------------------- MODULE MCCookieJar ----------------------------
(***************************************************************************)
(* CookieJar on small instances.                                           *)
(***************************************************************************)
EXTENDS CookieJar

=============================================================================

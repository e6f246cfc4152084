------------------------------- MODULE MCChecker -------------------------------
(* The instances of both parts of the checker: a package of three files and *)
(* a walk of two ifs.                                                      *)
EXTENDS Checker, MCProject, MCScopeJournal
================================================================================
